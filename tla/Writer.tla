------------------------------- MODULE Writer -------------------------------
(***************************************************************************)
(* The output side of the program, src/writer.go: prepareOutputDirs, then  *)
(* writeOutputFiles with writeBatchFiles and writeTCPPassFiles, and the    *)
(* table of links and counts writeSummary puts into README.md.             *)
(*                                                                         *)
(* Everything exists twice: the configs as they are ("v2ray"), and turned  *)
(* to a local endpoint ("sni"); and each of these as plain lines and, when *)
(* a template is loaded, as Clash files, which hold the proxies and, apart *)
(* from them, the list of their names. What is written of a line is        *)
(* computed by ClashForm and the modules it extends.                       *)
(***************************************************************************)
EXTENDS ClashForm, FiniteSets

CONSTANTS
  Inputs,        \* what validateAll may return: [results, tcp]
  LinkOf,        \* the link each line is
  ProtocolOrder, \* settings.json protocol_order
  Templates,     \* the Clash templates that were loaded, of "simple", "advanced"
  BatchSize,     \* 500
  TcpBatchSize,  \* 10000
  Fragile,       \* bound: files that may fail to be written,
  MaxFails,      \* and how many of them
  Old            \* the files of an earlier run

Lines == DOMAIN LinkOf
ProtoOf == [line \in Lines |-> LinkOf[line].proto]
Variants == {"v2ray", "sni"}

(* Each line in both variants, and the texts that are written of it: a     *)
(* link that was renamed, and a Clash entry.                               *)
Form == [v2ray |-> LinkOf, sni |-> [line \in Lines |-> ToSNI(LinkOf[line])]]
Plainly == [v \in Variants |-> [line \in Lines |-> RenameTo(Form[v][line])]]
Clashly == [v \in Variants |-> [line \in Lines |-> ToClash(Form[v][line])]]
Sni == {line \in Lines : Form["sni"][line].proto # "none"}
HasEntry(v, line) == Clashly[v][line].type # ""

Sections == {"all"} \cup ToSet(ProtocolOrder)
Kinds == {"lines"} \cup Templates

ASSUME WriterAssumption ==
  /\ \A line \in Lines : IsLink(LinkOf[line])
  /\ \A x \in Inputs : /\ x.results \in Seq(Lines) /\ IsInjective(x.results)
                        /\ x.tcp \in Seq(Lines) /\ IsInjective(x.tcp)
                        /\ ToSet(x.results) \subseteq ToSet(x.tcp)
                        /\ \A line \in ToSet(x.results) : Accepted(ToSingBoxOutbound(LinkOf[line]))
  /\ ProtoOf \in [Lines -> ToSet(ProtocolOrder)] /\ IsInjective(ProtocolOrder)
  /\ {"all", "batch", "tcp"} \cap ToSet(ProtocolOrder) = {}
  /\ Templates \subseteq {"simple", "advanced"}
  /\ BatchSize \in Nat \ {0} /\ TcpBatchSize \in Nat \ {0} /\ MaxFails \in Nat
  /\ IsFiniteSet(Fragile)

VARIABLES
  stage,        \* "prepare", "collect", "whole", "batches", "sni batches",
                \* "tcp", "summary", "done"; "exit": os.Exit(1)
  in,           \* the arguments: results and tcpFailedLines
  pos,          \* position in results
  gNameCount,   \* of the one base name in use
  out,          \* the lists all, byProto, allClash, ... : out[variant][section]
  files,        \* what is under config/
  failed,       \* files that could not be created, or were cut off
  rows          \* the README's rows: a link and the count beside it

vars == <<stage, in, pos, gNameCount, out, files, failed, rows>>

(* A line or a Clash entry, with the name it was given; plain lines all get*)
(* the same. Its text is Plainly[v][line] or Clashly[v][line].             *)
Fixed == 0
Item(line, name) == [of |-> line, name |-> name]

(* An output file: "all" or a protocol with number 0, or a numbered batch. *)
Path(v, kind, s, k) == [v |-> v, kind |-> kind, s |-> s, k |-> k]
NoLists == [lines |-> << >>, entries |-> << >>, names |-> << >>]

Init == /\ stage = "prepare"
        /\ in \in Inputs
        /\ pos = 1 /\ gNameCount = 0
        /\ out = [v \in Variants |-> [s \in Sections |-> NoLists]]
        /\ files = Old /\ failed = {}
        /\ rows = {}

(* config/ is removed; then the directories are made, or the program ends. *)
(* Mutant: it is not removed.                                              *)
Kept == files
Cleared == << >>

Prepare == /\ stage = "prepare"
           /\ files' = Cleared
           /\ stage' \in {"collect", "exit"}
           /\ UNCHANGED <<in, pos, gNameCount, out, failed, rows>>

-----------------------------------------------------------------------------
(* The loop over the results. A name is used up even when the line has no  *)
(* Clash form. Mutant: the name is listed all the same.                    *)
NamedAlways(v, l, line, name) ==
  [lines |-> Append(l.lines, Item(line, Fixed)),
   entries |-> IF HasEntry(v, line) THEN Append(l.entries, Item(line, name))
               ELSE l.entries,
   names |-> Append(l.names, name)]
Extend(v, l, line, name) ==
  [lines |-> Append(l.lines, Item(line, Fixed)),
   entries |-> IF HasEntry(v, line) THEN Append(l.entries, Item(line, name))
               ELSE l.entries,
   names |-> IF HasEntry(v, line) THEN Append(l.names, name) ELSE l.names]

Add(v, line, name) ==
  [s \in Sections |-> IF s \in {"all", ProtoOf[line]}
                      THEN Extend(v, out[v][s], line, name) ELSE out[v][s]]

(* generateUniqueName, counted once for the line and once for its sni form.*)
SniName == gNameCount + 2

Collect == /\ stage = "collect" /\ pos <= Len(in.results)
           /\ LET line == in.results[pos]
              IN  IF line \in Sni
                  THEN /\ out' = [v2ray |-> Add("v2ray", line, gNameCount + 1),
                                  sni |-> Add("sni", line, SniName)]
                       /\ gNameCount' = SniName
                  ELSE /\ out' = [out EXCEPT !["v2ray"] = Add("v2ray", line, gNameCount + 1)]
                       /\ gNameCount' = gNameCount + 1
           /\ pos' = pos + 1
           /\ UNCHANGED <<stage, in, files, failed, rows>>

EndCollect == /\ stage = "collect" /\ pos > Len(in.results)
              /\ stage' = "whole"
              /\ UNCHANGED <<in, pos, gNameCount, out, files, failed, rows>>

-----------------------------------------------------------------------------
(* writeFile and the two writeClashConfig: a file that cannot be created is*)
(* left out, one that cannot be written to its end is cut off (a full disk:*)
(* errors of writing and flushing are dropped), and nobody is told.        *)
Content(items, names) == [items |-> items, names |-> names]
Cut(c) == Content(SubSeq(c.items, 1, Len(c.items) \div 2), << >>)

Write(new) ==
  \E lost \in SUBSET (DOMAIN new \cap Fragile) : \E created \in SUBSET lost :
    /\ Cardinality(failed \cup lost) <= MaxFails
    /\ files' = [f \in DOMAIN files \cup (DOMAIN new \ lost) \cup created |->
                   IF f \in created THEN Cut(new[f])
                   ELSE IF f \in DOMAIN new \ lost THEN new[f] ELSE files[f]]
    /\ failed' = failed \cup lost

Listed(l, kind) == IF kind = "lines" THEN Content(l.lines, << >>)
                   ELSE Content(l.entries, l.names)

(* The main file is written even if it is empty, no other file is.         *)
Whole ==
  [f \in {f \in {Path(v, kind, s, 0) : v \in Variants, kind \in Kinds, s \in Sections} :
            <<f.kind, f.s>> = <<"lines", "all">> \/ Listed(out[f.v][f.s], f.kind).items # << >>}
     |-> Listed(out[f.v][f.s], f.kind)]

WriteWhole == /\ stage = "whole"
              /\ Write(Whole)
              /\ stage' = "batches"
              /\ UNCHANGED <<in, pos, gNameCount, out, rows>>

NumBatches(n, size) == (n + size - 1) \div size

(* The k-th batch, from 1; the last one may be shorter. Mutant: it loses   *)
(* its last line.                                                          *)
ShortSlice(s, k, size) == SubSeq(s, (k - 1) * size + 1, Min({k * size, Len(s) - 1}))
Slice(s, k, size) == SubSeq(s, (k - 1) * size + 1, Min({k * size, Len(s)}))

Shuffle(s, p) == [k \in DOMAIN s \cap DOMAIN p |-> s[p[k]]]

(* Entries and names are shuffled as pairs, one per entry: with one        *)
(* permutation, of the entries.                                            *)
Shuffled(c, p) == Content(Shuffle(c.items, p), Shuffle(c.names, p))
Batch(c, k, size) == Content(Slice(c.items, k, size), Slice(c.names, k, size))

BatchFiles(v, p, q) ==
  LET list(kind) == Shuffled(Listed(out[v]["all"], kind), IF kind = "lines" THEN p ELSE q)
  IN  [f \in UNION {{Path(v, kind, "batch", k) :
                      k \in 1 .. NumBatches(Len(list(kind).items), BatchSize)} : kind \in Kinds}
         |-> Batch(list(f.kind), f.k, BatchSize)]

Orders(s) == Bijection(DOMAIN s, DOMAIN s)

WriteBatches(v, now, next) ==
  /\ stage = now
  /\ \E p \in Orders(out[v]["all"].lines), q \in Orders(out[v]["all"].entries) :
       Write(BatchFiles(v, p, q))
  /\ stage' = next
  /\ UNCHANGED <<in, pos, gNameCount, out, rows>>

(* writeTCPPassFiles: the lines that passed the TCP ping, in two variants. *)
TcpLines(v) == LET s == IF v = "sni" THEN Select(in.tcp, Sni) ELSE in.tcp
               IN  [k \in DOMAIN s |-> Item(s[k], Fixed)]

TcpFiles ==
  [f \in UNION {{Path(v, "lines", "tcp", k) : k \in 1 .. NumBatches(Len(TcpLines(v)), TcpBatchSize)}
                : v \in Variants}
     |-> Batch(Content(TcpLines(f.v), << >>), f.k, TcpBatchSize)]

WriteTcpPass == /\ stage = "tcp"
                /\ Write(TcpFiles)
                /\ stage' = "summary"
                /\ UNCHANGED <<in, pos, gNameCount, out, rows>>

-----------------------------------------------------------------------------
(* writeSummary. *)

CountBatchFiles(v, kind, s) ==
  Cardinality({f \in DOMAIN files : f.v = v /\ f.kind = kind /\ f.s = s})

(* min500: what the k-th batch holds of total lines. Mutant: the last batch*)
(* is taken for a full one.                                                *)
AlwaysFull(k, total) == BatchSize
Min500(k, total) == LET start == (k - 1) * BatchSize
                    IN  IF start >= total THEN 0 ELSE Min({BatchSize, total - start})

Row(path, count) == [path |-> path, count |-> count]

Total == Len(in.results)
PerProto(p) == Cardinality({k \in 1 .. Total : ProtoOf[in.results[k]] = p})

Uncounted == -1

(* All four tables count the results, whatever the linked files hold; the  *)
(* TCP-pass batches are linked without a count. The text before the tables *)
(* and the total above those links are left out.                           *)
AllRows == {Row(Path(v, kind, "all", 0), Total) : v \in Variants, kind \in {"lines", "simple"}}
ProtoRows == {Row(Path(v, kind, p, 0), PerProto(p)) :
                v \in Variants, kind \in {"lines", "simple"},
                p \in {p \in ToSet(ProtocolOrder) : PerProto(p) > 0}}
BatchRows == UNION {{Row(Path(v, kind, "batch", k), Min500(k, Total)) :
                       k \in 1 .. CountBatchFiles(v, kind, "batch")} :
                    v \in Variants, kind \in {"lines", "simple"}}
TcpRows == UNION {{Row(Path(v, "lines", "tcp", k), Uncounted) :
                     k \in 1 .. CountBatchFiles(v, "lines", "tcp")} : v \in Variants}
SummaryRows == AllRows \cup ProtoRows \cup BatchRows \cup TcpRows

Summary == /\ stage = "summary"
           /\ rows' = SummaryRows
           /\ stage' = "done"
           /\ UNCHANGED <<in, pos, gNameCount, out, files, failed>>

Ended == stage \in {"done", "exit"} /\ UNCHANGED vars

Next == \/ Prepare \/ Collect \/ EndCollect \/ WriteWhole
        \/ WriteBatches("v2ray", "batches", "sni batches")
        \/ WriteBatches("sni", "sni batches", "tcp")
        \/ WriteTcpPass \/ Summary \/ Ended

Spec == Init /\ [][Next]_vars

-----------------------------------------------------------------------------
(* Properties. *)

(* A Clash file is one Clash accepts: every proxy it defines is named in   *)
(* its list, in the same order, and no name twice - not even when the files*)
(* of the two variants are loaded together. (Unless the disk was full.)    *)
ClashFilesValid ==
  /\ \A f \in DOMAIN files \ failed : stage # "prepare" /\ f.kind # "lines" =>
       /\ files[f].names = [k \in DOMAIN files[f].items |-> files[f].items[k].name]
       /\ IsInjective(files[f].names)
  /\ \A f, g \in DOMAIN files : stage # "prepare" /\ {f.kind, g.kind} = {"simple"} /\ f.v # g.v =>
       ToSet(files[f].names) \cap ToSet(files[g].names) = {}

BatchesOf(v, kind, s) == {f \in DOMAIN files : f.v = v /\ f.kind = kind /\ f.s = s}
Held(fs) == UNION {ToSet(files[f].items) : f \in fs}
Written(fs) == SumFunctionOnSet([f \in fs |-> Len(files[f].items)], fs)
Complete(fs, items) == Held(fs) = ToSet(items) /\ Len(items) = Written(fs)

(* Once everything is written, every config is in exactly one batch, batch *)
(* numbers run from 1 and no batch is empty or too long, for the plain, the*)
(* Clash and the TCP-pass batches; a file that could not be written takes  *)
(* only its own lines with it.                                             *)
BatchesPartition ==
  stage \in {"summary", "done"} =>
    \A v \in Variants, kind \in Kinds :
      LET batches == BatchesOf(v, kind, "batch")
          items == IF kind = "lines" THEN out[v]["all"].lines ELSE out[v]["all"].entries
      IN  /\ \A f \in batches \ failed : Len(files[f].items) \in 1 .. BatchSize
          /\ \A f, g \in batches : f # g => Held({f}) \cap Held({g}) = {}
          /\ Held(batches) \subseteq ToSet(items)
          /\ \A f \in batches : \A k \in 1 .. f.k : [f EXCEPT !.k = k] \in batches \cup failed
          /\ Len(items) - Written(batches) <= BatchSize * Cardinality(failed)
          /\ failed = {} => /\ Complete(batches, items)
                            /\ kind = "lines" => Complete(BatchesOf(v, kind, "tcp"), TcpLines(v))

(* The README's rows of plain configs link files that exist and hold as    *)
(* many lines as the row says, unless a file could not be written; files an*)
(* earlier run left are not among them.                                    *)
PlainRowsHonest ==
  failed = {} => \A r \in rows : r.path.kind = "lines" /\ r.path.v = "v2ray" =>
    /\ r.path \in DOMAIN files /\ r.count \in {Uncounted, Len(files[r.path].items)}
    /\ \A k \in DOMAIN files[r.path].items : files[r.path].items[k].of \in ToSet(in.tcp)

-----------------------------------------------------------------------------
(* What is published is what was tested. *)

Outbounds(links) == [line \in Lines |-> ToSingBoxOutbound(links[line])]
Tested == Outbounds(LinkOf)
FromPlain == [v \in Variants |-> Outbounds(Plainly[v])]
FromForm == [v \in Variants |-> Outbounds(Form[v])]
LinkBack == [v \in Variants |-> [line \in Lines |-> ProxyToURI(Clashly[v][line])]]
FromClash == [v \in Variants |-> Outbounds(LinkBack[v])]

LinesIn(f) == {files[f].items[k].of : k \in DOMAIN files[f].items}

(* The tested outbound, at the local endpoint. A link without an sni asks  *)
(* for the name of its server, and is then taken to ask for the local one. *)
AtLocal(o, p) ==
  /\ p = [o EXCEPT !.server = sniHost, !.port = sniPort, !.tls.sni = p.tls.sni]
  /\ p.tls.sni = o.tls.sni \/ (o.tls.sni = o.server /\ p.tls.sni = sniHost)

(* Where renameTo cuts the name off (parser.go 1011), and where the reader *)
(* of the link does, which may unescape the text first (parser.go 801, 817)*)
End(tok, i) == IF i = 0 THEN Len(tok) + 1 ELSE i
TextRead(l) == IF l.proto \in {"ss", "hy2"} THEN l.tok ELSE UnescapeAll(l.tok)
NameCut(l) == End(l.tok, Index(l.tok, "#"))
ReadCut(l) == End(l.tok, LastIndex(TextRead(l), "#"))

(* Between the two cuts an "@" is taken for the end of the user part if no *)
(* query comes before it; ss and hy2 take what is there for a port.        *)
CutTwice(l) ==
  LET cuts == {NameCut(l), ReadCut(l)}
      Inside(t, i, k) == t \in ToSet(SubSeq(TextRead(l), i, k))
  IN  /\ l.proto # "vmess"
      /\ NameCut(l) # ReadCut(l)
      /\ \/ l.proto \in {"ss", "hy2"}
         \/ Inside("@", Min(cuts), Max(cuts) - 1) /\ ~Inside("?", 1, Min(cuts) - 1)

(* An escape in the name, which is cut off, makes spaces of the plus signs *)
(* before it (parser.go 801).                                              *)
SpacedByName(l) == /\ l.proto \notin {"vmess", "ss", "hy2"}
                   /\ UnescapeAll(Before(l.tok, NameCut(l))) # Before(TextRead(l), NameCut(l))

UserPart(l) == LET main == Before(l.tok, Index(l.tok, "?")) IN Before(main, LastIndex(main, "@"))

(* toSNIGeneric cuts at a "/" of the password (writer.go 1353), or without *)
(* any "@" (1358); toSNIVMess leaves a tail to base64 (1286), though       *)
(* parseVMess reads it.                                                    *)
SniCutWrong(l) ==
  \/ l.proto # "vmess" /\ "/" \in ToSet(UserPart(l))
  \/ l.proto = "ss" /\ "@" \notin ToSet(l.tok)
  \/ l.proto = "vmess" /\ Word(l.tok) = "json64" /\ Unnamed(l.tok) # <<"json64">>

(* The lines that can be tested and are cut at the right place, of which   *)
(* the plain form, or that of the sni variant, says something else.        *)
Renamable == {line \in Lines : /\ Accepted(Tested[line])
                               /\ ~CutTwice(LinkOf[line]) /\ ~SpacedByName(LinkOf[line])}
PlainLost == {line \in Renamable : FromPlain["v2ray"][line] # Tested[line]}
SniLost == {line \in Renamable : /\ ~SniCutWrong(LinkOf[line])
                                 /\ ~AtLocal(Tested[line], FromPlain["sni"][line])}

(* Whoever reads a published plain line gets the outbound that was tested: *)
(* renaming loses no credentials and no parameter, whatever separators and *)
(* escapes are in them, but where the two cuts differ.                     *)
PlainAsTested == \A f \in DOMAIN files :
  f.kind = "lines" /\ f.v = "v2ray" => LinesIn(f) \cap PlainLost = {}


(* Where an entry says something else than the outbound did: vmess takes   *)
(* its host for an sni and its path for a service only in the outbound     *)
(* (writer.go 432, 435), trojan has no fingerprint (516), hy2 any obfs     *)
(* (688); and the way back escapes what hy2 never unescapes (1166), or     *)
(* leaves a "+" that is read as a space (1062, parser.go 803).             *)
SaysElse(l) ==
  LET q == l.q
  IN  CASE l.proto = "vmess" -> \/ Get(q, "tls") = "tls" /\ Get(q, "sni") = "" /\ Get(q, "host") # ""
                                \/ Get(q, "net") = "grpc" /\ Get(q, "serviceName") = ""
        [] l.proto = "trojan" -> Get(q, "fp") # "" \/ "+" \in ToSet(UserPart(l))
        [] l.proto = "hy2" -> \/ Get(q, "obfs") \notin {"", "salamander"}
                              \/ PathEscape(UserPart(l)) # UserPart(l)
        [] OTHER -> FALSE

(* The lines whose entry gives another outbound, or no link at all; and    *)
(* those whose entry is of an h2 network.                                  *)
BackWrong(v) == {line \in Lines : /\ HasEntry(v, line) /\ ~SaysElse(LinkOf[line])
                                  /\ \/ LinkBack[v][line] = NoLink
                                     \/ FromClash[v][line] # FromForm[v][line]}
WrongLines == [v2ray |-> BackWrong("v2ray"), sni |-> BackWrong("sni")]
H2(v) == {line \in Lines : Clashly[v][line].network = "h2"}
H2Lines == [v2ray |-> H2("v2ray"), sni |-> H2("sni")]


(* What the README's tables say, a count beside a link: that the linked    *)
(* file exists and holds so many configs.                                  *)
RowsHonest ==
  failed = {} => \A r \in rows :
    r.path \in DOMAIN files /\ r.count \in {Uncounted, Len(files[r.path].items)}

=============================================================================
