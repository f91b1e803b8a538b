------------------------------ MODULE Outbound ------------------------------
(***************************************************************************)
(* toSingBoxOutbound of src/parser.go: what sing-box is told to connect to *)
(* for a link, or that the link is rejected; and extractHostPort of        *)
(* src/validator.go: where the TCP ping dials.                             *)
(*                                                                         *)
(* Parameters are lower case and trimmed. Left out is what only tunes a    *)
(* connection: alpn, alter_id, bandwidths, congestion control, udp relay.  *)
(***************************************************************************)
EXTENDS LinkText

NoTLS == [sni |-> "", fp |-> "", pbk |-> "", sid |-> ""]
TLS(sni, fp) == [NoTLS EXCEPT !.sni = sni, !.fp = fp]

NoTransport == [net |-> "tcp", path |-> "", host |-> "", svc |-> ""]

(* cred: the tokens of the credentials, a method or a uuid before a ":".   *)
(* opt: flow, or the password or key of the obfuscation.                   *)
Out(type, server, port, cred, opt, tls, transport) ==
  [type |-> type, server |-> server, port |-> port, cred |-> cred, opt |-> opt,
   tls |-> tls, transport |-> transport]
Rejected == Out("rejected", "", "", << >>, "", NoTLS, NoTransport)
Accepted(o) == o.type # "rejected"

Pair(user, pass) == user \o <<":">> \o pass

(* buildTransportJSON *)
Transport(net, path, host, svc) ==
  CASE net = "grpc" -> [NoTransport EXCEPT !.net = "grpc", !.svc = svc]
    [] net \in {"ws", "h2", "http", "httpupgrade"} ->
         [net |-> IF net = "h2" THEN "http" ELSE net,
          path |-> First(<<path, "/">>), host |-> host, svc |-> ""]
    [] OTHER -> NoTransport

Unsupported == {"xhttp", "splithttp", "kcp", "mkcp", "quic"}

(* A server, a port and credentials there must be, or the link is rejected.*)
Checked(o) == IF o.server = "" \/ ~IsPort(o.port) \/ o.cred \in {<< >>, <<"">>}
              THEN Rejected ELSE o

-----------------------------------------------------------------------------
(* parseVMess. d is the JSON object, or what parseVMessURItoD makes of a   *)
(* URI; a missing key is printed as "<nil>".                               *)
Sprint(d, k) == IF k \in DOMAIN d THEN d[k] ELSE "<nil>"

VMessURI(u, q) ==
  [add |-> u.host, port |-> First(<<u.port, "443">>),
   net |-> First(<<Get(q, "type"), Get(q, "net"), "tcp">>),
   tls |-> IF Get(q, "security") \in {"tls", "xtls"} THEN "tls" ELSE "",
   sni |-> First(<<Get(q, "sni"), Get(q, "peer"), u.host>>),
   path |-> Get(q, "path"), host |-> Get(q, "host"), serviceName |-> Get(q, "serviceName")]

VMess(id, d) ==
  LET server == Sprint(d, "add")
      net == First(<<Get(d, "net"), "tcp">>)
  IN  IF net \in Unsupported THEN Rejected
      ELSE Checked(Out("vmess", server, Sprint(d, "port"), id, "",
             IF Get(d, "tls") = "tls" THEN TLS(First(<<Get(d, "sni"), Get(d, "host"), server>>), "")
             ELSE NoTLS,
             Transport(net, Get(d, "path"), Get(d, "host"),
                       First(<<Get(d, "serviceName"), Get(d, "path")>>))))

VMessByURI(l, u) == IF u.err \/ u.user = << >> \/ u.host = "" THEN Rejected
                    ELSE VMess(u.user, VMessURI(u, Params(l, u)))

(* Base64 is looked for in the whole text, before the last "@", and up to  *)
(* the first character base64 does not have.                               *)
ParseVMess(l) ==
  LET data == Unnamed(l.tok)
  IN  IF data = <<"json">> \/ Word(data) = "json64" THEN VMess(<<Sprint(l.q, "id")>>, l.q)
      ELSE IF Word(data) # "json" /\ "@" \in ToSet(Upto(data, "?"))
           THEN VMessByURI(l, ParseURL(Sanitize(data)))
           ELSE Rejected

-----------------------------------------------------------------------------
(* The protocols whose links are read by url.Parse(sanitizeProxyURL(raw)). *)

singboxSupportedFlows == {"", "xtls-rprx-vision", "xtls-rprx-vision-udp443"}

VlessTLS(security, sni, q) ==
  IF security = "reality"
  THEN [sni |-> sni, fp |-> First(<<Get(q, "fp"), "chrome">>), pbk |-> q.pbk, sid |-> Get(q, "sid")]
  ELSE TLS(sni, Get(q, "fp"))

ParseVLess(u, q) ==
  LET security == Get(q, "security")
      net == First(<<Get(q, "type"), "tcp">>)
      sni == First(<<Get(q, "sni"), Get(q, "peer"), u.host>>)
      flow == Get(q, "flow")
      secure == security \notin {"", "none"}
  IN  IF \/ net \in Unsupported
         \/ security \notin {"", "none", "tls", "xtls", "reality"}
         \/ security = "reality" /\ Get(q, "pbk") = ""
      THEN Rejected
      ELSE Checked(Out("vless", u.host, u.port, u.user,
             IF secure /\ flow \in singboxSupportedFlows THEN flow ELSE "",
             IF secure THEN VlessTLS(security, sni, q) ELSE NoTLS,
             Transport(net, Get(q, "path"), Get(q, "host"),
                       First(<<Get(q, "serviceName"), Get(q, "path")>>))))

ParseTrojan(u, q) ==
  IF Get(q, "type") \in Unsupported THEN Rejected
  ELSE Checked(Out("trojan", u.host, u.port, u.user, "",
         TLS(First(<<Get(q, "sni"), Get(q, "peer"), u.host>>), Get(q, "fp")),
         Transport(Get(q, "type"), Get(q, "path"), Get(q, "host"),
                   First(<<Get(q, "serviceName"), Get(q, "path")>>))))

HyAuth(u, q) == IF Get(q, "auth") # "" THEN <<q.auth>> ELSE u.user

ParseHysteria(u, q) ==
  Checked(Out("hy", u.host, u.port, HyAuth(u, q), Get(q, "obfs"),
              TLS(First(<<Get(q, "peer"), Get(q, "sni"), u.host>>), ""), NoTransport))

ParseTUIC(u, q) ==
  IF u.user = << >> THEN Rejected
  ELSE Checked(Out("tuic", u.host, u.port, Pair(u.user, u.pass), "",
                   TLS(First(<<Get(q, "sni"), u.host>>), ""), NoTransport))

-----------------------------------------------------------------------------
(* parseShadowsocks *)

singboxSupportedSSCiphers == {"aes-128-gcm", "chacha20-ietf-poly1305"}
IsUUID(s) == s = <<"uuid">>

(* ssParseUserAndHost: method:password, or nothing; a port is cut off at   *)
(* its first character that is no digit.                                   *)
SSUser(l, user) ==
  LET plain == PathUnescape(user)
      colon == Index(user, ":")
      prefix == Decode(l, Before(user, colon))
  IN  IF ":" \in ToSet(Decode(l, user)) THEN Decode(l, user)
      ELSE IF plain # user /\ ":" \in ToSet(Decode(l, plain)) THEN Decode(l, plain)
      ELSE IF plain # user /\ ":" \in ToSet(plain) THEN plain
      ELSE IF colon # 0 /\ prefix # << >> /\ ":" \notin ToSet(prefix) THEN prefix \o From(user, colon)
      ELSE user

SSOut(server, port, cred) ==
  IF Index(cred, ":") < 2 THEN Rejected ELSE Checked(Out("ss", server, port, cred, "", NoTLS, NoTransport))

SSUserAndHost(l, user, host) ==
  LET colon == LastIndex(host, ":")
  IN  IF colon = 0 \/ IsUUID(user) THEN Rejected
      ELSE SSOut(Word(Before(host, colon)), Word(After(host, colon)), SSUser(l, user))

(* The fast path: what url.Parse finds. *)
SSByURL(l, u) == SSOut(u.host, First(<<u.port, "443">>),
                       IF u.hasPass THEN Pair(u.user, u.pass) ELSE Decode(l, u.user))

(* The text behind the last "@", or all of it decoded, when that fails.    *)
SSByAt(l, tok) ==
  LET main == Upto(tok, "?")
      text == IF Index(tok, "@") # 0 THEN tok
              ELSE IF Decode(l, main) # << >> THEN Decode(l, main) ELSE tok
      at == LastIndex(text, "@")
      host == After(text, at)
  IN  IF at = 0 THEN Rejected
      ELSE SSUserAndHost(l, Before(text, at), Upto(host, "?"))

SSRead(l, u, otherwise) ==
  LET quick == ~u.err /\ u.hasUser /\ u.host # ""
  IN  IF quick /\ u.hasPass /\ IsUUID(u.user) THEN Rejected
      ELSE IF quick /\ Accepted(SSByURL(l, u)) THEN SSByURL(l, u)
      ELSE otherwise

SSSupported(o) == IF Word(o.cred) \in singboxSupportedSSCiphers THEN o ELSE Rejected
ParseSS(l) == LET tok == Unnamed(l.tok)
              IN  SSSupported(SSRead(l, ParseURL(tok), SSByAt(l, tok)))

-----------------------------------------------------------------------------
(* parseHysteria2 reads the text itself and unescapes nothing.             *)

Hy2Main(tok) == Upto(Unnamed(tok), "?")
Hy2Host(tok) == Upto(After(Hy2Main(tok), LastIndex(Hy2Main(tok), "@")), "/")

ParseHysteria2(l) ==
  LET main == Hy2Main(l.tok)
      at == LastIndex(main, "@")
      host == Hy2Host(l.tok)
      colon == LastIndex(host, ":")
      q == IF "?" \in ToSet(Unnamed(l.tok)) THEN l.q ELSE << >>
  IN  IF at = 0 THEN Rejected
      ELSE Checked(Out("hy2", Word(Before(host, colon)),
             IF colon = 0 THEN "443" ELSE Word(After(host, colon)), Before(main, at),
             IF Get(q, "obfs") = "salamander" THEN Get(q, "obfs-password") ELSE "",
             TLS(First(<<Get(q, "sni"), Word(Before(host, colon))>>), ""), NoTransport))

(* parseSSR: well-formed or not, sing-box has no ssr. *)
OutboundByURL(l, u) == LET q == Params(l, u)
                       IN  IF u.err THEN Rejected
                           ELSE CASE l.proto = "vless"  -> ParseVLess(u, q)
                                  [] l.proto = "trojan" -> ParseTrojan(u, q)
                                  [] l.proto = "hy"     -> ParseHysteria(u, q)
                                  [] l.proto = "tuic"   -> ParseTUIC(u, q)
                                  [] OTHER              -> Rejected

ToSingBoxOutbound(l) == CASE l.proto = "vmess" -> ParseVMess(l)
                          [] l.proto = "ss"    -> ParseSS(l)
                          [] l.proto = "hy2"   -> ParseHysteria2(l)
                          [] OTHER -> OutboundByURL(l, ParseURL(Sanitize(l.tok)))

-----------------------------------------------------------------------------
(* extractHostPort *)
NoAddr == <<"", "0">>
Addr(server, port) == IF server # "" /\ IsPort(port) THEN <<server, port>> ELSE NoAddr

(* Mutant: the user part is not told from the host.                        *)
ByFirstColon(l) == LET tok == Unnamed(l.tok)
                       colon == Index(tok, ":")
                   IN  Addr(Word(Before(tok, colon)), Word(After(tok, colon)))
AddrOfOutbound(o) == IF Accepted(o) THEN <<o.server, o.port>> ELSE NoAddr
AddrOfURL(u) == IF u.err THEN NoAddr ELSE Addr(u.host, First(<<u.port, "443">>))
AddrOfHost(host) == LET colon == LastIndex(host, ":")
                    IN  Addr(Word(Before(host, colon)),
                             IF colon = 0 THEN "443" ELSE Word(After(host, colon)))

ExtractHostPort(l) ==
  CASE l.proto = "vmess" -> AddrOfOutbound(ParseVMess(l))
    [] l.proto = "ssr"   -> IF Unnamed(l.tok) = <<"json64">>
                            THEN Addr(Get(l.q, "add"), Get(l.q, "port")) ELSE NoAddr
    [] l.proto = "hy2"   -> IF LastIndex(Hy2Main(l.tok), "@") = 0 THEN NoAddr
                            ELSE AddrOfHost(Hy2Host(l.tok))
    [] OTHER             -> AddrOfURL(ParseURL(Sanitize(l.tok)))
=============================================================================
