------------------------------ MODULE MCIntake -------------------------------
(* Intake with three sources in batches of two, the second one encoded, and*)
(* one retry. The bodies are those a server may publish, with the links of *)
(* MCLinks and, among them, a twin of one under another name, one that     *)
(* cannot be used but is kept for its usable twin, two that differ from    *)
(* another only in a parameter or inside their base64, one whose base64 is *)
(* wrapped where rows are read one by one, and one without a user.         *)
EXTENDS Intake, MCLinks

L == MCLinkOf
Twin == [L["ws"] EXCEPT !.tok = Append(Before(@, Len(@)), "twin")]
Unusable == [L["old"] EXCEPT !.q = [type |-> "xhttp"]]
OtherLogin == [L["hy"] EXCEPT !.q = "auth" :> "b" @@ @]
Other64 == [L["ss"] EXCEPT !.enc = <<"aes-128-gcm", ":", "other">>]

PlainText(names) == Body(<< >>, [k \in DOMAIN names |-> PlainLine(L[names[k]])])
ClashFile(names) == Body([k \in DOMAIN names |-> ToClash(L[names[k]])], <<OtherLine>>)
Text64(names, cuts, mod, padded) == Base64(PlainText(names), cuts, mod, padded, FALSE)

Mixed == Body(<< >>, <<OtherLine, PlainLine(L["ws"]), PlainLine(Twin), PlainLine(L["hash"]),
                       Text64(<<"at">>, << >>, 0, FALSE)>>)
Wrapped == Body(<< >>, <<Text64(<<"ws", "ss", "plain", "uri", "tail">>, 2 :> 1 @@ 5 :> 1, 2, TRUE)>>)
PaddedLines == Body(<< >>, <<Text64(<<"ssPlain">>, << >>, 3, TRUE),
                             Text64(<<"hy2", "hy2Esc">>, << >>, 2, FALSE)>>)
BareLines == Body(<< >>, <<Text64(<<"tuic">>, << >>, 0, FALSE),
                           Text64(<<"hy2Port", "slash">>, << >>, 0, FALSE),
                           Text64(<<"hy">>, << >>, 3, FALSE)>>)
NotDecoded == Body(<< >>, <<Text64(<<"escaped">>, << >>, 3, FALSE),
                            Text64(<<"plus", "tailAt">>, << >>, 2, FALSE)>>)

(* Rows that cannot be taken together, and a link that ends the run.       *)
ByRow == Body(<< >>, <<OtherLine, Text64(<<"at", "ws", "escaped">>, 2 :> 3, 2, TRUE)>>)
NoUser == PlainText(<<"ss", "ssWhole", "ws">>)

Encoded64 == Body(<< >>, <<Base64(PlainText(<<"ws", "ssSlash", "grpc">>), 2 :> 3, 3, TRUE, TRUE)>>)
Clash64 == Body(<< >>, <<Base64(ClashFile(<<"grpc", "at">>), << >>, 0, FALSE, TRUE)>>)
NotEncoded == PlainText(<<"json">>)

Clash == ClashFile(<<"json", "ws", "ssPlug", "hy2", "tuic">>)
ClashH2 == ClashFile(<<"h2", "ws">>)
ManyLinks == Body(<< >>, PlainText(<<"fronted", "json", "ssr", "finger", "ss", "hy">>).lines
                         \o <<PlainLine(Unusable), PlainLine(L["reality"]),
                              PlainLine(OtherLogin), PlainLine(Other64)>>)

MCServed == <<{Mixed, Wrapped, PaddedLines, BareLines, NotDecoded, ByRow, NoUser},
              {Encoded64, Clash64, NotEncoded}, {Clash, ClashH2, ManyLinks}>>

MCProtocols == {"vless", "vmess", "trojan", "ss", "hy2", "hy", "tuic"}

(* For the run about the link that ends it: it can be tested otherwise.    *)
MCLegacy == <<{NoUser}, {}, {PlainText(<<"ws">>)}>>
MCSecond == {2}
=============================================================================
