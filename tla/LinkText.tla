------------------------------ MODULE LinkText ------------------------------
(***************************************************************************)
(* Links as texts: what src/parser.go and src/writer.go find in them by    *)
(* searching for separators. A text behind "scheme://" is a sequence of    *)
(* tokens: separators, escaped separators, and words, of which some stand  *)
(* for a longer text:                                                      *)
(*   "query", "query%"   the parameters q (the second one with an escape)  *)
(*   "json", "json64"    the JSON object q, as it is and in base64         *)
(*   "b64"               base64 of the text enc; <<"b64", "/", "b64">> is  *)
(*                       base64 that happens to contain a slash            *)
(* Left out: HTML entities, white space around words, IPv6 addresses,      *)
(* invalid escapes and base64 of base64.                                   *)
(***************************************************************************)
EXTENDS Integers, Sequences, SequencesExt, Functions, TLC

Link(proto, tok, q, enc) == [proto |-> proto, tok |-> tok, q |-> q, enc |-> enc]
IsLink(l) == l = Link(l.proto, l.tok, l.q, l.enc) /\ l.tok \in Seq(STRING)
NoLink == Link("none", << >>, << >>, << >>)

(* The keys of q, after those of new have been set.                        *)
Over(new, q) == [k \in DOMAIN new \cup DOMAIN q |-> IF k \in DOMAIN new THEN new[k] ELSE q[k]]

(* url.Values.Get, and a missing key of a JSON object taken for "".        *)
Get(q, k) == IF k \in DOMAIN q THEN q[k] ELSE ""

(* first *)
First(s) == LET i == SelectInSeq(s, LAMBDA v : v # "") IN IF i = 0 THEN "" ELSE s[i]

(* toPort refuses what is no number or out of range.                       *)
IsPort(s) == s \notin {"", "0", "65536", "port", "<nil>"}

Index(s, t) == SelectInSeq(s, LAMBDA x : x = t)
LastIndex(s, t) == SelectLastInSeq(s, LAMBDA x : x = t)
Before(s, i) == IF i = 0 THEN s ELSE SubSeq(s, 1, i - 1)
From(s, i) == IF i = 0 THEN << >> ELSE SubSeq(s, i, Len(s))
After(s, i) == IF i = 0 THEN << >> ELSE SubSeq(s, i + 1, Len(s))
Word(s) == IF s = << >> THEN "" ELSE s[1]

(* Up to the first t, from it on, and behind it.                           *)
Upto(s, t) == Before(s, Index(s, t))
FromFirst(s, t) == From(s, Index(s, t))
Behind(s, t) == After(s, Index(s, t))

(* What is left of the text when the name has been cut off; and the name.  *)
Unnamed(tok) == Before(tok, LastIndex(tok, "#"))
Fragment(tok) == From(tok, LastIndex(tok, "#"))

-----------------------------------------------------------------------------
(* Escapes. encodeUserInfo leaves ":" and "+" alone, url.PathEscape "@" too.*)
Escape == [t \in {"/", "?", "#", "@", " "} |->
             CASE t = "/" -> "%2F" [] t = "?" -> "%3F" [] t = "#" -> "%23"
               [] t = "@" -> "%40" [] t = " " -> "%20"]
Escaped == {Escape[t] : t \in DOMAIN Escape}
Plain == [e \in Escaped \cup {"query%"} |->
            IF e = "query%" THEN "query" ELSE CHOOSE t \in DOMAIN Escape : Escape[t] = e]

Translate(s, f) == [i \in DOMAIN s |-> IF s[i] \in DOMAIN f THEN f[s[i]] ELSE s[i]]

EncodeUserInfo(s) == Translate(s, Escape)
PathEscape(s) == Translate(s, [t \in DOMAIN Escape \ {"@"} |-> Escape[t]])
PathUnescape(s) == Translate(s, Plain)

(* The loop of sanitizeProxyURL up to its end: QueryUnescape also makes a  *)
(* space of every "+", but only when there is something to unescape.       *)
UnescapeAll(s) == IF \E i \in DOMAIN s : s[i] \in DOMAIN Plain
                  THEN Translate(s, Over([t \in {"+"} |-> " "], Plain))
                  ELSE s

(* sanitizeProxyURL: the user part before the last "@" is escaped again.   *)
(* Mutant: it ends at the first one.                                       *)
EncodeToFirst(main) ==
  LET at == Index(main, "@")
  IN  IF at = 0 THEN main ELSE EncodeUserInfo(Before(main, at)) \o From(main, at)
EncodeUser(main) ==
  LET at == LastIndex(main, "@")
  IN  IF at = 0 THEN main ELSE EncodeUserInfo(Before(main, at)) \o From(main, at)

Encode(s) == EncodeUser(Upto(Unnamed(s), "?")) \o FromFirst(Unnamed(s), "?") \o Fragment(s)
Sanitize(tok) == Encode(UnescapeAll(tok))

(* url.Parse of Go's library. *)
URL(info, hasUser, hostPort, query) ==
  LET colon == LastIndex(hostPort, ":")
      port == Word(After(hostPort, colon))
  IN  [err |-> port = "port" \/ " " \in ToSet(info),
       user |-> PathUnescape(Upto(info, ":")), pass |-> PathUnescape(Behind(info, ":")),
       hasUser |-> hasUser, hasPass |-> ":" \in ToSet(info),
       host |-> Word(Before(hostPort, colon)), port |-> port, query |-> query]

Authority(auth, query) ==
  LET at == LastIndex(auth, "@")
  IN  URL(SubSeq(auth, 1, at - 1), at # 0, SubSeq(auth, at + 1, Len(auth)), query)

ParseURL(tok) == LET rest == Upto(tok, "#")
                 IN  Authority(Upto(Upto(rest, "?"), "/"), Word(Behind(rest, "?")))

(* u.Query() *)
Params(l, u) == IF u.query \in {"query", "query%"} THEN l.q ELSE << >>

(* decodeBase64: the text, or nothing if this is no base64.                *)
Decode(l, s) == IF s \in {<<"b64">>, <<"b64", "/", "b64">>} THEN l.enc ELSE << >>

-----------------------------------------------------------------------------
(* coreIdentity. A text that cannot be read stands for itself. The user of *)
(* a URL without "@" is a nil pointer, and u.User.String() ends the program*)
(* with a panic; of vmess links Username() is asked for, which gives "".   *)
Identity(proto, cred, host, port) ==
  [proto |-> proto, cred |-> cred, host |-> host, port |-> port, text |-> << >>, q |-> << >>]
Itself(l) == [Identity(l.proto, << >>, "", "") EXCEPT !.text = <<l.tok, l.enc>>, !.q = l.q]

(* Words that stand for a text: the text is what is compared.              *)
Meant(l, s) == <<s, IF "b64" \in ToSet(s) THEN l.enc ELSE << >>,
                 IF ToSet(s) \cap {"json", "json64"} # {} THEN l.q ELSE << >> >>

IdentityBy(l, u, cred) == IF u.err \/ u.host = "" THEN Itself(l)
                          ELSE Identity(l.proto, cred, u.host, u.port)

IdentityVMessURI(l, u) == IdentityBy(l, u, Meant(l, u.user))
IdentityVMess(l) ==
  LET data == Unnamed(l.tok)
  IN  CASE data \in {<<"json">>, <<"json64">>} /\ Get(l.q, "add") # "" ->
             Identity("vmess", Meant(l, <<Get(l.q, "id")>>), l.q.add, Get(l.q, "port"))
        [] Index(data, "@") # 0 -> IdentityVMessURI(l, ParseURL(data))
        [] OTHER -> Itself(l)

IdentitySSR(l) == IF Unnamed(l.tok) = <<"json64">>
                  THEN Identity("ssr", << >>, Get(l.q, "add"), Get(l.q, "port"))
                  ELSE Itself(l)

NilUser(u) == ~u.err /\ u.host # "" /\ ~u.hasUser
Panic == Identity("panic", << >>, "", "")

IdentityURL(l, u) ==
  IF NilUser(u) THEN Panic
  ELSE IdentityBy(l, u, <<Meant(l, u.user), u.hasPass, Meant(l, u.pass)>>)

(* Mutant: the credentials are left out. *)
IdentityOfServer(l) == IdentityBy(l, ParseURL(Sanitize(l.tok)), << >>)
CoreIdentity(l) == CASE l.proto = "vmess" -> IdentityVMess(l)
                     [] l.proto = "ssr"   -> IdentitySSR(l)
                     [] OTHER             -> IdentityURL(l, ParseURL(Sanitize(l.tok)))

-----------------------------------------------------------------------------
(* renameTo, with the one name in use, "@DeltaKroneckerGithub": PathEscape *)
(* leaves its "@" as it is.                                                *)
v2rayName == <<"@", "name">>

RenameVMess(l) ==
  LET data == Unnamed(l.tok)
  IN  CASE data \in {<<"json">>, <<"json64">>} ->
             [l EXCEPT !.tok = <<"json64">>, !.q = Over([ps |-> "@name"], l.q)]
        [] Index(data, "@") # 0 ->
             [l EXCEPT !.tok = data \o <<"#">> \o PathEscape(v2rayName)]
        [] OTHER -> l

(* Mutant: the name goes before the query. *)
RenameShort(l) ==
  IF l.proto = "vmess" THEN RenameVMess(l)
  ELSE [l EXCEPT !.tok = Upto(l.tok, "?") \o <<"#">> \o v2rayName]
RenameTo(l) ==
  IF l.proto = "vmess" THEN RenameVMess(l)
  ELSE [l EXCEPT !.tok = Upto(l.tok, "#") \o <<"#">> \o PathEscape(v2rayName)]

-----------------------------------------------------------------------------
(* toSNIConfig: the same link, to the local endpoint.                      *)
sniHost == "127.0.0.1"
sniPort == "40443"
Local == <<sniHost, ":", sniPort>>

SniVMess(l) ==
  LET data == Unnamed(l.tok)
      frag == Fragment(l.tok)
      rest == After(data, LastIndex(data, "@"))
  IN  CASE data \in {<<"json">>, <<"json64">>} ->
             [l EXCEPT !.tok = <<"json64">> \o frag,
                       !.q = Over([add |-> sniHost, port |-> sniPort], l.q)]
        [] Index(data, "@") # 0 ->
             [l EXCEPT !.tok = Before(data, LastIndex(data, "@")) \o <<"@">> \o Local
                               \o FromFirst(rest, "?") \o frag]
        [] OTHER -> NoLink

SniGeneric(l) ==
  LET rest == Unnamed(l.tok)
      main == Upto(rest, "?")
      auth == Upto(main, "/")
  IN  [l EXCEPT !.tok = SubSeq(auth, 1, LastIndex(auth, "@")) \o Local
                        \o FromFirst(main, "/") \o FromFirst(rest, "?") \o Fragment(l.tok)]

SniSSR(l) == IF l.tok = <<"json64">>
             THEN [l EXCEPT !.q = Over([add |-> sniHost, port |-> sniPort], l.q)]
             ELSE NoLink

ToSNI(l) == CASE l.proto = "vmess" -> SniVMess(l)
              [] l.proto = "ssr"   -> SniSSR(l)
              [] OTHER             -> SniGeneric(l)
=============================================================================
