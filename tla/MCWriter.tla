------------------------------ MODULE MCWriter ------------------------------
(* Writer on results of one link of every kind that dedup gets past, and  *)
(* of two and three links, which are two batches. "dead" and "ssr" only    *)
(* pass the TCP ping, "old" was published by an earlier run.               *)
EXTENDS Writer, MCLinks

MCOrder == <<"vless", "vmess", "trojan", "ss", "hy2", "hy", "tuic", "ssr">>

MCInput(r, x) == [results |-> r, tcp |-> r \o x]
Single == DOMAIN MCLinkOf \ {"dead", "ssr", "old", "ssWhole"}
MCInputs == {MCInput(<<l>>, << >>) : l \in Single}
            \cup {MCInput(r, <<"dead">>) : r \in {<< >>, <<"reality", "json">>, <<"h2", "ws">>}}
            \cup {MCInput(r, <<"ssr">>) : r \in {<<"reality", "at", "tail">>,
                                                <<"ws", "grpc", "json">>}}

MCFragile == {Path("v2ray", "lines", "all", 0), Path("v2ray", "simple", "batch", 1),
              Path("sni", "lines", "batch", 2), Path("v2ray", "lines", "tcp", 1)}

(* For the run about what the README says: a usual result.                 *)
MCUsual == {MCInput(<<"reality", "uri">>, <<"dead">>)}

MCOld == [f \in {Path("v2ray", "lines", "batch", k) : k \in 1 .. 3} |->
            Content(<<Item("old", Fixed)>>, << >>)]
=============================================================================
