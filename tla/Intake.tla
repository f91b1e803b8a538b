------------------------------- MODULE Intake -------------------------------
(***************************************************************************)
(* What main does before it validates: the sources are fetched (Fetch),    *)
(* then dedup of src/fetcher.go sorts the lines into protocols and keeps,  *)
(* of the lines with the same identity (coreIdentity of src/parser.go:     *)
(* protocol, credentials, host and port), only the first. Lines here are   *)
(* trimmed and not empty; text that is no link is NoLink. On a link whose  *)
(* identity cannot be computed dedup ends the program with a panic.        *)
(***************************************************************************)
EXTENDS Fetch

CONSTANT Protocols    \* settings.json protocols

VARIABLES pos,        \* the position of dedup's loop
          panicked,   \* the program died at this position
          seen, byProto, duplicates

dedupVars == <<pos, panicked, seen, byProto, duplicates>>
intakeVars == <<vars, dedupVars>>

IntakeInit == /\ Init
              /\ pos = 1 /\ panicked = FALSE /\ seen = {} /\ duplicates = 0
              /\ byProto = [p \in Protocols |-> << >>]

More == mpc = "done" /\ ~panicked /\ pos <= Len(lines)
Line == lines[pos]

Known == Line.proto \in Protocols

Id(l) == CoreIdentity(l)

(* A line of no known protocol is not even counted. *)
Ignore == /\ More /\ ~Known
          /\ pos' = pos + 1
          /\ UNCHANGED <<vars, panicked, seen, byProto, duplicates>>

Readable == Id(Line) # Panic

Keep == /\ More /\ Known /\ Readable /\ Id(Line) \notin seen
        /\ seen' = seen \cup {Id(Line)}
        /\ byProto' = [byProto EXCEPT ![Line.proto] = Append(@, Line)]
        /\ pos' = pos + 1
        /\ UNCHANGED <<vars, panicked, duplicates>>

(* Mutant: the newer line takes the place of the older. *)
DropOlder == /\ More /\ Known /\ Readable /\ Id(Line) \in seen
             /\ duplicates' = duplicates + 1
             /\ byProto' = [byProto EXCEPT ![Line.proto] =
                              Append(SelectSeq(@, LAMBDA l : Id(l) # Id(Line)), Line)]
             /\ pos' = pos + 1
             /\ UNCHANGED <<vars, panicked, seen>>
Drop == /\ More /\ Known /\ Readable /\ Id(Line) \in seen
        /\ duplicates' = duplicates + 1
        /\ pos' = pos + 1
        /\ UNCHANGED <<vars, panicked, seen, byProto>>

(* Nobody recovers from a panic of the main goroutine.                     *)
Crash == /\ More /\ Known /\ ~Readable
         /\ panicked' = TRUE
         /\ UNCHANGED <<vars, pos, seen, byProto, duplicates>>

Dedup == Ignore \/ Keep \/ Drop \/ Crash
Fetching == (Caller \/ \E i \in Sources : Goroutine(i)) /\ UNCHANGED dedupVars
Deduped == mpc = "done" /\ ~More /\ UNCHANGED intakeVars

IntakeNext == Fetching \/ Dedup \/ Deduped

IntakeSpec == IntakeInit /\ [][IntakeNext]_intakeVars /\ Fairness

-----------------------------------------------------------------------------
(* Properties. *)

LinksIn(s) == {s[k].link : k \in DOMAIN s} \ {NoLink}
Inner(xs) == UNION {LinksIn(x.body.lines) : x \in {x \in xs : x.kind = "base64"}}
ClashLinks(body) == {ProxyToURI(body.entries[k]) : k \in DOMAIN body.entries} \ {NoLink}

(* What a body is expected to yield: everything in it. Only that a Clash   *)
(* file with a textual h2 path cannot be read, that lines beside the       *)
(* entries of a Clash file and base64 beside plain links are passed over,  *)
(* that lines of base64 of which none needed "=" are taken for one text,   *)
(* which is sure to yield only the links of the first of them, and that    *)
(* links are lost where base64 that is decoded row by row is wrapped.      *)
HasH2(body) == \E k \in DOMAIN body.entries : body.entries[k].network = "h2"
InEntries(body) ==
  IF HasH2(body) THEN {}
  ELSE IF ClashLinks(body) # {} THEN ClashLinks(body)
  ELSE LinksIn(body.lines)
Base64In(body) == {x \in ToSet(body.lines) : x.kind = "base64"}
OnOneRow(x) == {x.body.lines[k].link : k \in DOMAIN x.body.lines \ DOMAIN x.cuts} \ {NoLink}
ByRows(body) == /\ ClashLinks(body) = {} \/ HasH2(body)
                /\ ~HasProtoPrefix(body) /\ ~Decodes(body.lines)
Expected(body) ==
  IF ByRows(body) THEN UNION {OnOneRow(x) : x \in Base64In(body)}
  ELSE IF ClashLinks(body) # {} \/ HasProtoPrefix(body) THEN InEntries(body)
  ELSE IF Len(body.lines) = 1 THEN InEntries(body.lines[1].body)
  ELSE LinksIn(body.lines[1].body.lines)

(* What may be taken for a link of a body: its links, and nothing else but *)
(* the beginnings of those that are cut, where rows are decoded one by one.*)
CutOff(body) == UNION {{Beginning(x, k) : k \in DOMAIN x.cuts} : x \in Base64In(body)}
Contained(body) == LinksIn(body.lines) \cup Inner(ToSet(body.lines)) \cup ClashLinks(body)
                   \cup (UNION {ClashLinks(x.body) : x \in Base64In(body)})
                   \cup IF ByRows(body) THEN CutOff(body) ELSE {}

(* However a source publishes its links - plain, as base64 in one piece,   *)
(* wrapped, or line by line, or as a Clash file - they are fetched, but for*)
(* the cases Expected leaves out; and no link is fetched that no source has*)
(* published, nor a piece of one but where wrapped base64 is decoded row by*)
(* row.                                                                    *)
YieldsAll ==
  LET answered == {i \in 1 .. first : Success(Decoded(i))}
      bodies == {Decoded(i).body : i \in answered}
  IN  /\ UNION {Expected(body) : body \in bodies} \subseteq ToSet(lines)
      /\ ToSet(lines) \subseteq {NoLink} \cup UNION {Contained(body) : body \in bodies}

(* The reference definition: a line is new if no earlier line, of whatever *)
(* protocol, has its identity.                                             *)
New(k) == \A j \in 1 .. k - 1 : Id(lines[j]) # Id(lines[k])

FirstOf(p) == LET ks == Select([k \in 1 .. pos - 1 |-> k],
                               {k \in 1 .. pos - 1 : New(k) /\ lines[k].proto = p})
              IN  [n \in DOMAIN ks |-> lines[ks[n]]]

(* Of the lines that dedup has looked at - all of them, unless it panics - *)
(* the first with its identity is kept, a protocol's lines keep the order  *)
(* in which they were fetched, and every other line of a known protocol is *)
(* counted as a duplicate.                                                 *)
KeepsFirst ==
  /\ \A p \in Protocols : byProto[p] = FirstOf(p)
  /\ duplicates = Cardinality({k \in 1 .. pos - 1 : lines[k].proto \in Protocols /\ ~New(k)})

SameLogin(l, m) ==
  LET o == ToSingBoxOutbound(l)
      p == ToSingBoxOutbound(m)
  IN  Accepted(o) /\ Accepted(p) => <<o.server, o.port, o.cred>> = <<p.server, p.port, p.cred>>

Auth(l) == Get(Params(l, ParseURL(Sanitize(l.tok))), "auth")
OtherAuth(l, m) == l.proto = "hy" /\ Auth(l) # Auth(m)

KeptFor(l) == {m \in ToSet(byProto[l.proto]) : Id(m) = Id(l)}

ByURL == {"vless", "trojan", "hy", "tuic"}
PassedLines(ps) == {lines[k] : k \in {k \in 1 .. pos - 1 : lines[k].proto \in Protocols \cap ps}}

(* No config that dedup gets past is dropped but for another one with the  *)
(* same server, port and credentials: coreIdentity, which reads links by   *)
(* rules of its own, never takes two logins for one. Only that it does not *)
(* see the parameters: of hysteria links, whose credentials may be a       *)
(* parameter, one may be dropped for another login at the same server, and *)
(* the link kept may be one that sing-box is not given, for its transport, *)
(* say. What dedup cannot get past is the matter of DedupReads.            *)
DropsTwins == \A l \in PassedLines(ByURL) :
  \E m \in KeptFor(l) : SameLogin(l, m) \/ OtherAuth(l, m)


(* The address the TCP ping dials for a link is the one sing-box is told to*)
(* connect to, though extractHostPort looks for it in its own way: no      *)
(* working config is filtered out for an address that is not its own.      *)
Pinged(l) == LET o == ToSingBoxOutbound(l)
             IN  Accepted(o) => ExtractHostPort(l) = <<o.server, o.port>>
AddressIsServer == \A p \in Protocols \ {"ss"} : \A l \in ToSet(byProto[p]) : Pinged(l)


(* The parser says of ss links that there are such without "@": what it    *)
(* takes, dedup, which comes before it, has to get past.                   *)
DedupReads == panicked => ~Accepted(ToSingBoxOutbound(Line))

(* Fetching ends even if no source ever answers.                           *)
Terminates == <>(mpc = "done")
=============================================================================
