---------------------------- MODULE MCValidation ----------------------------
(* Validation with three protocols, one without lines; batches of two; and *)
(* a reason for each section of the report, two of which have sing-box's   *)
(* own error output in them.                                               *)
EXTENDS Validation

MCOrder == <<"vless", "ss", "vmess">>
MCUnique == [p \in {"vless", "ss", "vmess"} |->
               CASE p = "vless" -> <<"v1", "v2", "v3">>
                 [] p = "ss" -> << >>
                 [] p = "vmess" -> <<"m1">>]
MCReasons == {OtherReason("PARSE", {"unsupported transport", "xhttp"}),
              OtherReason("FILE", {SomeText}),
              StartReason({}),
              StartReason({"outbound", "method"}),
              ConnReason({"EOF"}, {}),
              ConnReason({"HTTP_502"}, {"connection refused"})}
=============================================================================
