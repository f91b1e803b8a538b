------------------------------- MODULE MCLinks -------------------------------
(* Links of every protocol, each with something that is found by searching:*)
(* separators and escapes in passwords, a second "#", base64 with a slash, *)
(* JSON with a tail, a URI that vmess entries do not have, a user without a*)
(* password, defaults that are left out.                                   *)
EXTENDS LinkText

At(port) == <<"@", "host", ":", port>>
Rest == <<"?", "query", "#", "n">>
RestEscaped == <<"?", "query%", "#", "n">>

Ws == [type |-> "ws", path |-> "/p", host |-> "front"]
Json(q) == [add |-> "host", port |-> "443", id |-> "uuid"] @@ q
Uuid(q, tail) == Link("vless", <<"uuid">> \o At("443") \o tail, q, << >>)
Trojan(pass, q, tail) == Link("trojan", pass \o At("443") \o tail, q, << >>)
SS(tok) == Link("ss", tok, << >>, <<"aes-128-gcm", ":", "pass">>)
Hy2(pass, q) == Link("hy2", pass \o At("443") \o Rest, q, << >>)

MCLinkOf ==
  [reality |-> Uuid([security |-> "reality", sni |-> "front", pbk |-> "key", sid |-> "1",
                     flow |-> "xtls-rprx-vision"], Rest),
   ws      |-> Uuid(Ws @@ [security |-> "tls", fp |-> "firefox"], RestEscaped),
   grpc    |-> Uuid([type |-> "grpc", path |-> "svc", security |-> "none", flow |-> "other"], Rest),
   h2      |-> Uuid([type |-> "http", path |-> "/p", security |-> "tls"], Rest),
   json    |-> Link("vmess", <<"json64">>, Json([net |-> "ws", path |-> "/p", tls |-> "tls",
                                                 sni |-> "front"]), << >>),
   plain   |-> Link("vmess", <<"json", "#", "n">>, Json([net |-> "tcp"]), << >>),
   fronted |-> Link("vmess", <<"json64">>, Json([net |-> "ws", tls |-> "tls", host |-> "front"]), << >>),
   uri     |-> Link("vmess", <<"uuid">> \o At("443") \o Rest, [security |-> "tls", type |-> "ws"], << >>),
   tail    |-> Link("vmess", <<"json64", "|", "x">>, Json(<< >>), << >>),
   tailAt  |-> Link("vmess", <<"json64", "@", "x">>, Json(<< >>), << >>),
   at      |-> Trojan(<<"p", "@", "w">>, [sni |-> "front", type |-> "ws"], Rest),
   escaped |-> Trojan(<<"p", "%40", "%2F", "w">>, [peer |-> "front"], Rest),
   slash   |-> Trojan(<<"p", "/", "w">>, [sni |-> "front"], Rest),
   hash    |-> Trojan(<<"p", "#", "w">>, << >>, Rest),
   plus    |-> Trojan(<<"p", "+", "w">>, Ws, Rest),
   plusName |-> Trojan(<<"p", "+", "w">>, << >>, <<"?", "query", "#", "n", "%20">>),
   hashName |-> Uuid(Ws @@ [security |-> "tls", sni |-> "host"],
                     <<"?", "query", "#", "n", "@", "c", "#", "1">>),
   finger  |-> Trojan(<<"p">>, [fp |-> "chrome"], Rest),
   ss      |-> SS(<<"b64">> \o At("443") \o <<"#", "n">>),
   ssPlain |-> SS(<<"aes-128-gcm", ":", "p", ":", "w">> \o At("443")),
   ssSlash |-> SS(<<"b64", "/", "b64">> \o At("443") \o <<"/", "#", "n">>),
   ssPlug  |-> Link("ss", <<"b64">> \o At("443") \o Rest, [plugin |-> "obfs-local"],
                    <<"aes-128-gcm", ":", "pass">>),
   ssWhole |-> Link("ss", <<"b64", "#", "n">>, << >>, <<"aes-128-gcm", ":", "pass">> \o At("443")),
   hy2     |-> Hy2(<<"p", ":", "w">>, [sni |-> "front", obfs |-> "salamander"]
                                      @@ ("obfs-password" :> "o")),
   hy2Esc  |-> Hy2(<<"p", "%2F">>, [obfs |-> "other"] @@ ("obfs-password" :> "o")),
   hy2Port |-> Link("hy2", <<"p", "@", "host", "/", "?", "query">>, [sni |-> "front"], << >>),
   hy      |-> Link("hy", At("443") \o Rest, [auth |-> "a", peer |-> "front", obfs |-> "o"], << >>),
   tuic    |-> Link("tuic", <<"uuid", ":", "p", "@", "w">> \o At("443") \o Rest, << >>, << >>),
   dead    |-> Uuid([security |-> "tls", sni |-> "front"], Rest),
   ssr     |-> Link("ssr", <<"json64">>, [add |-> "host", port |-> "443"], << >>),
   old     |-> Uuid(<< >>, Rest)]
=============================================================================
