----------------------------- MODULE ClashForm ------------------------------
(***************************************************************************)
(* Links and Clash entries: configToClashYAML of src/writer.go makes an    *)
(* entry of a link, clashProxyToURI a link of an entry, and parseClashYAML *)
(* of src/fetcher.go the links of a Clash file. An entry is a ClashProxy   *)
(* of src/types.go; path, host and service stand for the options of its    *)
(* network. Left out is what Outbound leaves out, options of plugins, the  *)
(* second names of keys and the order in which two of them are looked up.  *)
(***************************************************************************)
EXTENDS Outbound, Selection

ClashProxy ==
  [type |-> "", server |-> "", port |-> "", uuid |-> << >>, password |-> << >>,
   cipher |-> "", tls |-> FALSE, sni |-> "", fp |-> "", network |-> "", path |-> "",
   host |-> "", service |-> "", reality |-> FALSE, pbk |-> "", sid |-> "", flow |-> "",
   plugin |-> "", auth |-> << >>, obfs |-> "", obfsPassword |-> ""]
NoEntry == ClashProxy

(* An entry, or nothing if its server, its port or what it logs in with is *)
(* missing.                                                                *)
Entry(f, cred) == IF f.server = "" \/ ~IsPort(f.port) \/ cred \in {<< >>, <<"">>}
                  THEN NoEntry ELSE f @@ ClashProxy

(* appendNetworkClash *)
Network(net, path, host, service) ==
  CASE net = "grpc" -> [network |-> "grpc", service |-> service]
    [] net \in {"ws", "h2", "http", "httpupgrade", "splithttp", "xhttp"} ->
         [network |-> CASE net = "http" -> "h2" [] net = "xhttp" -> "splithttp" [] OTHER -> net,
          path |-> First(<<path, "/">>), host |-> host]
    [] OTHER -> << >>

VMessForm(l) ==
  LET server == Sprint(l.q, "add")
      uuid == <<Sprint(l.q, "id")>>
      tls == Get(l.q, "tls") = "tls"
  IN  IF Unnamed(l.tok) \notin {<<"json">>, <<"json64">>} THEN NoEntry
      ELSE Entry([type |-> "vmess", server |-> server, port |-> Sprint(l.q, "port"),
                  uuid |-> uuid, tls |-> tls,
                  sni |-> IF tls THEN First(<<Get(l.q, "sni"), server>>) ELSE ""]
                 @@ Network(First(<<Get(l.q, "net"), "tcp">>), Get(l.q, "path"), Get(l.q, "host"),
                            Get(l.q, "serviceName")), uuid)

Service(q) == First(<<Get(q, "serviceName"), Get(q, "path")>>)

VLessForm(u, q) ==
  LET security == Get(q, "security")
      tls == security \in {"reality", "tls", "xtls"}
      reality == security = "reality"
      flow == Get(q, "flow")
  IN  Entry([type |-> "vless", server |-> u.host, port |-> u.port, uuid |-> u.user,
             tls |-> tls, reality |-> reality,
             sni |-> IF tls THEN First(<<Get(q, "sni"), Get(q, "peer"), u.host>>) ELSE "",
             fp |-> IF tls THEN Get(q, "fp") ELSE "",
             pbk |-> IF reality THEN Get(q, "pbk") ELSE "",
             sid |-> IF reality THEN Get(q, "sid") ELSE "",
             flow |-> IF flow \in singboxSupportedFlows THEN flow ELSE ""]
            @@ Network(First(<<Get(q, "type"), "tcp">>), Get(q, "path"), Get(q, "host"), Service(q)),
            u.user)

TrojanForm(u, q) ==
  Entry([type |-> "trojan", server |-> u.host, port |-> u.port, password |-> u.user,
         sni |-> First(<<Get(q, "sni"), Get(q, "peer"), u.host>>)]
        @@ Network(Get(q, "type"), Get(q, "path"), Get(q, "host"), Service(q)), u.user)

HyForm(u, q) ==
  Entry([type |-> "hysteria", server |-> u.host, port |-> u.port, auth |-> HyAuth(u, q),
         sni |-> First(<<Get(q, "peer"), Get(q, "sni"), u.host>>), obfs |-> Get(q, "obfs")],
        HyAuth(u, q))

TUICForm(u, q) ==
  Entry([type |-> "tuic", server |-> u.host, port |-> u.port, uuid |-> u.user,
         password |-> u.pass, sni |-> First(<<Get(q, "sni"), u.host>>)], u.user)

(* ssClashYAML cuts the query off first and never decodes a link as whole. *)
Plugin(s) == CASE s \in {"obfs", "obfs-local"} -> "obfs"
               [] s = "v2ray-plugin" -> s
               [] OTHER -> ""

SSEntry(o, q) ==
  Entry([type |-> "ss", server |-> o.server, port |-> o.port, cipher |-> Word(o.cred),
         password |-> Behind(o.cred, ":"), plugin |-> Plugin(Get(q, "plugin"))], o.cred)

SSForm(l) ==
  LET tok == Upto(Unnamed(l.tok), "?")
      at == LastIndex(tok, "@")
      byAt == IF at = 0 THEN Rejected ELSE SSUserAndHost(l, Before(tok, at), After(tok, at))
  IN  SSEntry(SSRead(l, ParseURL(tok), byAt),
              IF "?" \in ToSet(Unnamed(l.tok)) THEN l.q ELSE << >>)

Hy2Form(l) ==
  LET main == Hy2Main(l.tok)
      host == Hy2Host(l.tok)
      colon == LastIndex(host, ":")
      server == Word(Before(host, colon))
      password == Before(main, LastIndex(main, "@"))
      q == IF "?" \in ToSet(Unnamed(l.tok)) THEN l.q ELSE << >>
  IN  IF "@" \notin ToSet(main) \/ colon = 0 THEN NoEntry
      ELSE Entry([type |-> "hysteria2", server |-> server, port |-> Word(After(host, colon)),
                  password |-> password, sni |-> First(<<Get(q, "sni"), server>>),
                  obfs |-> Get(q, "obfs"),
                  obfsPassword |-> IF Get(q, "obfs") # "" THEN Get(q, "obfs-password") ELSE ""],
                 password)

(* configToClashYAML *)
FormByURL(l, u) == LET q == Params(l, u)
                   IN  IF u.err THEN NoEntry
                       ELSE CASE l.proto = "vless"  -> VLessForm(u, q)
                              [] l.proto = "trojan" -> TrojanForm(u, q)
                              [] l.proto = "hy"     -> HyForm(u, q)
                              [] l.proto = "tuic"   -> TUICForm(u, q)
                              [] OTHER              -> NoEntry

ToClash(l) == CASE l.proto = "vmess" -> VMessForm(l)
                [] l.proto = "ss"    -> SSForm(l)
                [] l.proto = "hy2"   -> Hy2Form(l)
                [] OTHER -> FormByURL(l, ParseURL(Sanitize(l.tok)))

-----------------------------------------------------------------------------
(* clashProxyToURI *)

PortStr(p) == First(<<p.port, "443">>)
ClashSNI(p) == First(<<p.sni, p.server>>)
Endpoint(p) == <<"@", p.server, ":", PortStr(p)>>
Name == <<"#", "@", "name">>

(* q.Encode(): empty values are not set, and a path is escaped.            *)
Values(f) == [k \in {k \in DOMAIN f : f[k] # ""} |-> f[k]]
Query(q) == <<"?", IF Get(q, "path") # "" THEN "query%" ELSE "query">>

(* clashTransportParams *)
TransportParams(p) ==
  LET net == First(<<p.network, "tcp">>)
  IN  [type |-> net,
       path |-> CASE net = "ws" -> First(<<p.path, "/">>)
                  [] net = "grpc" -> p.service
                  [] net \in {"h2", "http", "httpupgrade", "splithttp"} -> p.path
                  [] OTHER -> "",
       host |-> IF net \in {"ws", "h2", "http", "httpupgrade", "splithttp"} THEN p.host ELSE "",
       serviceName |-> IF net = "grpc" THEN p.service ELSE ""]

URI(proto, user, p, q) ==
  Link(proto, user \o Endpoint(p) \o Query(q) \o Name, q, << >>)

VMessToURI(p) ==
  LET t == TransportParams(p)
  IN  IF p.server = "" \/ p.uuid = << >> THEN NoLink
      ELSE Link("vmess", <<"json64">>,
             [add |-> p.server, port |-> PortStr(p), id |-> Word(p.uuid), net |-> t.type,
              tls |-> IF p.tls THEN "tls" ELSE "", sni |-> ClashSNI(p), host |-> t.host,
              path |-> IF t.type = "grpc" THEN "/" ELSE First(<<t.path, "/">>),
              serviceName |-> t.serviceName], << >>)

VLessToURI(p) ==
  LET security == IF p.reality THEN "reality" ELSE IF p.tls THEN "tls" ELSE "none"
      secure == IF security = "none" THEN << >> ELSE [sni |-> ClashSNI(p), fp |-> p.fp]
  IN  IF p.server = "" \/ p.uuid = << >> THEN NoLink
      ELSE URI("vless", PathEscape(p.uuid), p,
               Values(TransportParams(p) @@ secure
                      @@ [security |-> security, pbk |-> p.pbk, sid |-> p.sid, flow |-> p.flow]))

TrojanToURI(p) ==
  IF p.server = "" \/ p.password = << >> THEN NoLink
  ELSE URI("trojan", PathEscape(p.password), p,
           Values(TransportParams(p) @@ [sni |-> ClashSNI(p), fp |-> p.fp]))

SSToURI(p) ==
  LET q == Values([plugin |-> CASE p.plugin = "obfs" -> "obfs-local"
                                [] p.plugin = "v2ray-plugin" -> p.plugin
                                [] OTHER -> ""])
  IN  IF p.server = "" \/ p.cipher = "" \/ p.password = << >> THEN NoLink
      ELSE Link("ss", <<"b64">> \o Endpoint(p) \o (IF q = << >> THEN << >> ELSE Query(q)) \o Name,
                q, Pair(<<p.cipher>>, p.password))

Hy2ToURI(p) ==
  IF p.server = "" \/ p.password = << >> THEN NoLink
  ELSE URI("hy2", PathEscape(p.password), p,
           Values([sni |-> ClashSNI(p), obfs |-> IF p.obfsPassword # "" THEN "salamander" ELSE ""]
                  @@ ("obfs-password" :> p.obfsPassword)))

HyToURI(p) ==
  IF p.server = "" \/ p.auth = << >> THEN NoLink
  ELSE URI("hy", PathEscape(p.auth), p,
           Values([peer |-> ClashSNI(p), sni |-> ClashSNI(p), obfs |-> p.obfs]))

TUICToURI(p) ==
  IF p.server = "" \/ p.uuid = << >> THEN NoLink
  ELSE URI("tuic", Pair(PathEscape(p.uuid), PathEscape(p.password)), p, Values([sni |-> ClashSNI(p)]))

(* The form of clashSSRToURI is that of every ssr link here.               *)
SSRToURI(p) ==
  IF p.server = "" \/ p.password = << >> THEN NoLink
  ELSE Link("ssr", <<"json64">>, [add |-> p.server, port |-> PortStr(p)], << >>)

ProxyToURI(p) ==
  CASE p.type = "vmess"  -> VMessToURI(p)
    [] p.type = "vless"  -> VLessToURI(p)
    [] p.type = "trojan" -> TrojanToURI(p)
    [] p.type \in {"ss", "shadowsocks"}   -> SSToURI(p)
    [] p.type \in {"ssr", "shadowsocksr"} -> SSRToURI(p)
    [] p.type \in {"hy2", "hysteria2"}    -> Hy2ToURI(p)
    [] p.type \in {"hy", "hysteria"}      -> HyToURI(p)
    [] p.type = "tuic"   -> TUICToURI(p)
    [] OTHER -> NoLink

(* parseClashYAML. The YAML decoder refuses a whole file in which one entry*)
(* has the path of its h2-opts as a text instead of a list.                *)
ParseClashYAML(entries) ==
  IF \E k \in DOMAIN entries : entries[k].network = "h2" THEN << >>
  ELSE LET links == [k \in DOMAIN entries |-> ProxyToURI(entries[k])]
       IN  Select(links, ToSet(links) \ {NoLink})
=============================================================================
