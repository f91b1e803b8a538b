---------------------------- MODULE WriterProofs ----------------------------
(***************************************************************************)
(* Proofs about Writer, for any results, protocols, links, batch sizes,    *)
(* orders of shuffling and failing files. What a line's texts are does not *)
(* matter until the end, which is about nothing else: renaming a link cuts *)
(* its text where its reader does not, and the reader does not mind.       *)
(*                                                                         *)
(* The invariant has three parts. ListInv: the lists hold the results the  *)
(* loop has passed, once each, and beside every Clash entry the name it was*)
(* given; names grow with the counter, and those of the variants are       *)
(* apart. FileInv: the files of each stage are, once it has run, the ones  *)
(* it had to write, but those it lost are missing or cut off, and before   *)
(* that there are none of them. RowInv: the rows are those of the end.     *)
(*                                                                         *)
(* A permutation of a list has the same elements and the same length; its  *)
(* slices go with the pieces of 1 .. n, which are a partition. Hence no    *)
(* two batches share a line, the batches are as long together as the list, *)
(* and every line that is missing can be mapped to a lost file and a place *)
(* in it, no two to the same (LaidMissing): a lost file takes only its own *)
(* lines with it.                                                          *)
(***************************************************************************)
EXTENDS Writer, SelectionProofs, FiniteSetTheorems, SequenceTheorems, TLAPS

(* A list that grew in step: with one name per entry, up to the g-th, and  *)
(* of lines of R only.                                                     *)
Items == [of : Lines, name : Nat]
Lists == [lines : Seq(Items), entries : Seq(Items), names : Seq(Nat)]

(* Items beside their names, no name twice. *)
Paired(items, names) ==
  /\ Len(names) = Len(items) /\ Distinct(names)
  /\ \A k \in 1 .. Len(items) : names[k] = items[k].name

InStep(l, g, R) ==
  /\ l \in Lists
  /\ Paired(l.entries, l.names)
  /\ Distinct(l.lines)
  /\ \A k \in 1 .. Len(l.names) : l.names[k] <= g
  /\ \A k \in 1 .. Len(l.lines) : l.lines[k].of \in R /\ l.lines[k].name = Fixed
  /\ \A k \in 1 .. Len(l.entries) : l.entries[k].of \in R

(* The results the loop has passed, and those of a protocol by position.   *)
FirstLines(n) == {in.results[k] : k \in 1 .. n}
OfProto(p, n) == {k \in 1 .. n : ProtoOf[in.results[k]] = p}

ListInv ==
  /\ in \in Inputs /\ pos \in 1 .. Len(in.results) + 1 /\ gNameCount \in Nat
  /\ out \in [Variants -> [Sections -> Lists]]
  /\ \A v \in Variants, s \in Sections : InStep(out[v][s], gNameCount, FirstLines(pos - 1))
  /\ \A s, t \in Sections :
       Elements(out["v2ray"][s].names) \cap Elements(out["sni"][t].names) = {}
  /\ Len(out["v2ray"]["all"].lines) = pos - 1
  /\ \A p \in ToSet(ProtocolOrder) :
       Len(out["v2ray"][p].lines) = Cardinality(OfProto(p, pos - 1))

-----------------------------------------------------------------------------
LEMMA Given ==
  ASSUME NEW x \in Inputs
  PROVE  /\ x.results \in Seq(Lines) /\ Distinct(x.results) /\ Len(x.results) \in Nat
         /\ x.tcp \in Seq(Lines) /\ Distinct(x.tcp) /\ Len(x.tcp) \in Nat
         /\ Elements(x.results) \subseteq Elements(x.tcp)
<1>1. /\ x.results \in Seq(Lines) /\ IsInjective(x.results)
      /\ x.tcp \in Seq(Lines) /\ IsInjective(x.tcp)
      /\ ToSet(x.results) \subseteq ToSet(x.tcp)
  BY WriterAssumption
<1>2. /\ DOMAIN x.results = 1 .. Len(x.results) /\ Len(x.results) \in Nat
      /\ DOMAIN x.tcp = 1 .. Len(x.tcp) /\ Len(x.tcp) \in Nat
  BY <1>1, LenProperties
<1>3. Distinct(x.results) /\ Distinct(x.tcp)
  BY <1>1, <1>2 DEF IsInjective, Distinct
<1> QED BY <1>1, <1>2, <1>3, ElementsToSet

LEMMA Constants ==
  /\ BatchSize \in Nat \ {0} /\ TcpBatchSize \in Nat \ {0} /\ MaxFails \in Nat
  /\ IsFiniteSet(Fragile)
  /\ {"all", "batch", "tcp"} \cap ToSet(ProtocolOrder) = {}
  /\ Templates \subseteq {"simple", "advanced"}
  /\ \A line \in Lines : ProtoOf[line] \in ToSet(ProtocolOrder)
BY WriterAssumption

(* One turn of the loop keeps a list in step.                              *)
LEMMA ExtendInStep ==
  ASSUME NEW v, NEW l, NEW g \in Nat, NEW R, InStep(l, g, R),
         NEW line \in Lines \ R, NEW name \in Nat, name > g
  PROVE  /\ InStep(Extend(v, l, line, name), name, R \cup {line})
         /\ Elements(Extend(v, l, line, name).names) \subseteq Elements(l.names) \cup {name}
<1> DEFINE e == Extend(v, l, line, name)
           plain == Item(line, Fixed)
           entry == Item(line, name)
<1>1. /\ l.lines \in Seq(Items) /\ l.entries \in Seq(Items) /\ l.names \in Seq(Nat)
      /\ l = [lines |-> l.lines, entries |-> l.entries, names |-> l.names]
  BY DEF InStep, Lists
<1>2. /\ Len(l.lines) \in Nat /\ Len(l.entries) \in Nat /\ Len(l.names) \in Nat
  BY <1>1, LenProperties
<1>3. /\ plain \in Items /\ entry \in Items /\ plain.of = line /\ plain.name = Fixed
      /\ entry.of = line /\ entry.name = name
  BY DEF Item, Items, Fixed
<1> HIDE DEF plain, entry
<1>4. /\ e.lines = Append(l.lines, plain)
      /\ e.entries = IF HasEntry(v, line) THEN Append(l.entries, entry) ELSE l.entries
      /\ e.names = IF HasEntry(v, line) THEN Append(l.names, name) ELSE l.names
      /\ e = [lines |-> e.lines, entries |-> e.entries, names |-> e.names]
  BY DEF Extend, plain, entry
<1> HIDE DEF e
<1>5. /\ e.lines \in Seq(Items) /\ Len(e.lines) = Len(l.lines) + 1
      /\ e.lines[Len(l.lines) + 1] = plain
      /\ \A k \in 1 .. Len(l.lines) : e.lines[k] = l.lines[k]
  BY <1>1, <1>3, <1>4, AppendProperties
<1>6. \A k \in 1 .. Len(e.lines) : e.lines[k].of \in R \cup {line} /\ e.lines[k].name = Fixed
  <2> TAKE k \in 1 .. Len(e.lines)
  <2>1. k \in 1 .. Len(l.lines) \/ k = Len(l.lines) + 1 BY <1>2, <1>5
  <2> QED BY <1>3, <1>5, <2>1 DEF InStep
<1>7. Distinct(e.lines)
  <2>1. plain \notin Elements(l.lines) BY <1>3 DEF InStep, Elements
  <2> QED BY <1>1, <1>3, <1>4, <2>1, ElementsAppend DEF InStep
<1>8. CASE HasEntry(v, line)
  <2>1. /\ e.entries \in Seq(Items) /\ Len(e.entries) = Len(l.entries) + 1
        /\ e.entries[Len(l.entries) + 1] = entry
        /\ \A k \in 1 .. Len(l.entries) : e.entries[k] = l.entries[k]
    BY <1>1, <1>3, <1>4, <1>8, AppendProperties
  <2>2. /\ e.names \in Seq(Nat) /\ Len(e.names) = Len(l.names) + 1
        /\ e.names[Len(l.names) + 1] = name
        /\ \A k \in 1 .. Len(l.names) : e.names[k] = l.names[k]
    BY <1>1, <1>4, <1>8, AppendProperties
  <2>3. Elements(e.names) = Elements(l.names) \cup {name}
    <3>1. e.names = Append(l.names, name) BY <1>4, <1>8
    <3>2. Elements(Append(l.names, name)) = Elements(l.names) \cup {name}
      BY <1>1, ElementsAppend
    <3> QED BY <3>1, <3>2
  <2>4. name \notin Elements(l.names)
    <3>1. ASSUME NEW k \in 1 .. Len(l.names), l.names[k] = name PROVE FALSE
      BY <3>1 DEF InStep
    <3> QED BY <3>1 DEF Elements
  <2>5. Distinct(e.names)
    BY <1>1, <1>4, <1>8, <2>4, ElementsAppend DEF InStep, Paired
  <2>6. \A k \in 1 .. Len(e.entries) :
           e.names[k] = e.entries[k].name /\ e.entries[k].of \in R \cup {line}
    <3> TAKE k \in 1 .. Len(e.entries)
    <3>1. k \in 1 .. Len(l.entries) \/ k = Len(l.entries) + 1 BY <1>2, <2>1
    <3>2. Len(l.names) = Len(l.entries) BY DEF InStep, Paired
    <3> QED BY <1>3, <2>1, <2>2, <3>1, <3>2 DEF InStep, Paired
  <2>7. \A k \in 1 .. Len(e.names) : e.names[k] <= name
    <3> TAKE k \in 1 .. Len(e.names)
    <3>1. k \in 1 .. Len(l.names) \/ k = Len(l.names) + 1 BY <1>2, <2>2
    <3>2. \A j \in 1 .. Len(l.names) : l.names[j] \in Nat /\ l.names[j] <= g
      BY <1>1, ElementOfSeq DEF InStep
    <3>3. CASE k \in 1 .. Len(l.names)
      <4>1. e.names[k] = l.names[k] BY <2>2, <3>3
      <4>2. l.names[k] \in Nat /\ l.names[k] <= g BY <3>2, <3>3
      <4> QED BY <4>1, <4>2
    <3>4. CASE k = Len(l.names) + 1 BY <2>2, <3>4
    <3> QED BY <3>1, <3>3, <3>4
  <2>8. e \in Lists BY <1>4, <1>5, <2>1, <2>2 DEF Lists
  <2>9. Paired(e.entries, e.names)
    BY <2>1, <2>2, <2>5, <2>6 DEF InStep, Paired
  <2>10. InStep(e, name, R \cup {line})
    BY <1>6, <1>7, <2>6, <2>7, <2>8, <2>9 DEF InStep
  <2> QED BY <2>3, <2>10 DEF e
<1>9. CASE ~HasEntry(v, line)
  <2>1. e.entries = l.entries /\ e.names = l.names BY <1>4, <1>9
  <2>2. e \in Lists BY <1>1, <1>4, <1>5, <2>1 DEF Lists
  <2>3. \A k \in 1 .. Len(e.names) : e.names[k] <= name
    <3>1. \A j \in 1 .. Len(l.names) : l.names[j] \in Nat /\ l.names[j] <= g
      BY <1>1, ElementOfSeq DEF InStep
    <3> QED BY <2>1, <3>1
  <2>4. InStep(e, name, R \cup {line})
    BY <1>6, <1>7, <2>1, <2>2, <2>3 DEF InStep
  <2> QED BY <2>1, <2>4 DEF e
<1> QED BY <1>8, <1>9

LEMMA ExtendLen ==
  ASSUME NEW v, NEW l, l.lines \in Seq(Items), NEW line \in Lines, NEW name
  PROVE  Len(Extend(v, l, line, name).lines) = Len(l.lines) + 1
<1>1. Item(line, Fixed) \in Items BY DEF Item, Items, Fixed
<1>2. Extend(v, l, line, name).lines = Append(l.lines, Item(line, Fixed)) BY DEF Extend
<1>3. Len(Append(l.lines, Item(line, Fixed))) = Len(l.lines) + 1 BY <1>1, AppendProperties
<1> QED BY <1>2, <1>3

LEMMA InStepGrows ==
  ASSUME NEW l, NEW g \in Nat, NEW R, InStep(l, g, R), NEW h \in Nat, g <= h, NEW Q, R \subseteq Q
  PROVE  InStep(l, h, Q)
<1>1. l.names \in Seq(Nat) BY DEF InStep, Lists
<1>2. \A k \in 1 .. Len(l.names) : l.names[k] \in Nat /\ l.names[k] <= h
  BY <1>1, ElementOfSeq DEF InStep
<1> QED BY <1>2 DEF InStep

LEMMA ListInit == Init => ListInv
<1> SUFFICES ASSUME Init PROVE ListInv OBVIOUS
<1>1. in \in Inputs /\ pos = 1 /\ gNameCount = 0 BY DEF Init
<1>2. Len(in.results) \in Nat BY <1>1, Given
<1>3. /\ out = [v \in Variants |-> [s \in Sections |-> NoLists]]
  BY DEF Init
<1>4. \A v \in Variants, s \in Sections : out[v][s] = NoLists
  BY <1>3
<1>5. NoLists \in Lists /\ NoLists.lines = << >> /\ NoLists.entries = << >> /\ NoLists.names = << >>
  BY EmptySeq DEF NoLists, Lists
<1>6. Len(<< >>) = 0 BY EmptySeq
<1>7. Distinct(<< >>) /\ Elements(<< >>) = {} BY ElementsEmpty
<1>8. \A R : InStep(NoLists, 0, R)
  BY <1>5, <1>6, <1>7 DEF InStep, Paired
<1>9. out \in [Variants -> [Sections -> Lists]]
  BY <1>3, <1>5
<1>10. "v2ray" \in Variants /\ "sni" \in Variants BY DEF Variants
<1>11. "all" \in Sections /\ ToSet(ProtocolOrder) \subseteq Sections BY DEF Sections
<1>12. \A p : OfProto(p, 0) = {} BY DEF OfProto
<1>13. Cardinality({}) = 0 BY FS_EmptySet
<1> HIDE DEF Init
<1>14. /\ Len(out["v2ray"]["all"].lines) = pos - 1
       /\ \A p \in ToSet(ProtocolOrder) :
            Len(out["v2ray"][p].lines) = Cardinality(OfProto(p, pos - 1))
  <2>1. pos - 1 = 0 BY <1>1
  <2>2. \A s \in Sections : out["v2ray"][s].lines = << >> BY <1>4, <1>5, <1>10
  <2>3. \A s \in Sections : Len(out["v2ray"][s].lines) = 0 BY <1>6, <2>2
  <2>4. \A p : Cardinality(OfProto(p, pos - 1)) = 0 BY <1>12, <1>13, <2>1
  <2> QED BY <1>11, <2>1, <2>3, <2>4
<1>15. \A s, t \in Sections :
         Elements(out["v2ray"][s].names) \cap Elements(out["sni"][t].names) = {}
  <2>1. \A s \in Sections : out["v2ray"][s].names = << >> BY <1>4, <1>5, <1>10
  <2> QED BY <1>7, <2>1
<1>16. \A v \in Variants, s \in Sections : InStep(out[v][s], gNameCount, FirstLines(pos - 1))
  BY <1>1, <1>4, <1>8
<1>17. pos \in 1 .. Len(in.results) + 1 /\ gNameCount \in Nat BY <1>1, <1>2
<1> QED BY <1>1, <1>9, <1>14, <1>15, <1>16, <1>17 DEF ListInv

(* The turn of the loop that adds the next result: its line is new, and the*)
(* names it uses are.                                                      *)
LEMMA NextLine ==
  ASSUME ListInv, pos <= Len(in.results)
  PROVE  /\ in.results[pos] \in Lines \ FirstLines(pos - 1)
         /\ FirstLines(pos) = FirstLines(pos - 1) \cup {in.results[pos]}
         /\ \A p : OfProto(p, pos) = OfProto(p, pos - 1)
                     \cup (IF ProtoOf[in.results[pos]] = p THEN {pos} ELSE {})
         /\ \A p : /\ pos \notin OfProto(p, pos - 1)
                    /\ IsFiniteSet(OfProto(p, pos - 1))
<1>1. /\ in.results \in Seq(Lines) /\ Distinct(in.results) /\ Len(in.results) \in Nat
      /\ pos \in 1 .. Len(in.results)
  BY Given DEF ListInv
<1>2. in.results[pos] \in Lines BY <1>1, ElementOfSeq
<1>3. in.results[pos] \notin FirstLines(pos - 1)
  <2> SUFFICES ASSUME NEW k \in 1 .. pos - 1, in.results[k] = in.results[pos] PROVE FALSE
    BY DEF FirstLines
  <2>1. k \in 1 .. Len(in.results) /\ k # pos BY <1>1
  <2> QED BY <1>1, <2>1 DEF Distinct
<1>4. \A k \in 1 .. pos : k \in 1 .. pos - 1 \/ k = pos BY <1>1
<1>5. \A k \in 1 .. pos - 1 : k \in 1 .. pos /\ k # pos BY <1>1
<1>6. pos \in 1 .. pos BY <1>1
<1>7. FirstLines(pos) = FirstLines(pos - 1) \cup {in.results[pos]}
  BY <1>4, <1>5, <1>6 DEF FirstLines
<1>8. ASSUME NEW p
      PROVE  OfProto(p, pos) = OfProto(p, pos - 1)
                     \cup (IF ProtoOf[in.results[pos]] = p THEN {pos} ELSE {})
  BY <1>4, <1>5, <1>6 DEF OfProto
<1>9. ASSUME NEW p PROVE pos \notin OfProto(p, pos - 1) /\ IsFiniteSet(OfProto(p, pos - 1))
  <2>1. IsFiniteSet(1 .. pos - 1) BY <1>1, FS_Interval
  <2>2. OfProto(p, pos - 1) \in SUBSET (1 .. pos - 1) BY DEF OfProto
  <2> QED BY <1>5, <2>1, <2>2, FS_Subset
<1> QED BY <1>2, <1>3, <1>7, <1>8, <1>9

LEMMA AddInStep ==
  ASSUME ListInv, pos <= Len(in.results), NEW v \in Variants,
         NEW g \in Nat, NEW name \in Nat, gNameCount < name, name <= g
  PROVE  LET line == in.results[pos] IN
         /\ Add(v, line, name) \in [Sections -> Lists]
         /\ \A s \in Sections : /\ InStep(Add(v, line, name)[s], g, FirstLines(pos))
                                /\ Elements(Add(v, line, name)[s].names)
                                      \subseteq Elements(out[v][s].names) \cup {name}
         /\ \A s \in Sections : Len(Add(v, line, name)[s].lines) =
                                  IF s \in {"all", ProtoOf[line]}
                                  THEN Len(out[v][s].lines) + 1 ELSE Len(out[v][s].lines)
<1> DEFINE line == in.results[pos]
           a == Add(v, line, name)
<1>1. line \in Lines \ FirstLines(pos - 1) /\ FirstLines(pos) = FirstLines(pos - 1) \cup {line}
  BY NextLine
<1>2. gNameCount \in Nat /\ \A s \in Sections : InStep(out[v][s], gNameCount, FirstLines(pos - 1))
  BY DEF ListInv
<1>3. \A s \in Sections : a[s] = IF s \in {"all", ProtoOf[line]}
                                 THEN Extend(v, out[v][s], line, name) ELSE out[v][s]
  BY DEF Add
<1>4. a = [s \in Sections |-> a[s]] BY DEF Add
<1> HIDE DEF a, line
<1>5. ASSUME NEW s \in Sections, s \in {"all", ProtoOf[line]}
      PROVE  /\ InStep(a[s], g, FirstLines(pos))
             /\ Elements(a[s].names) \subseteq Elements(out[v][s].names) \cup {name}
             /\ Len(a[s].lines) = Len(out[v][s].lines) + 1
  <2>1. a[s] = Extend(v, out[v][s], line, name) BY <1>3, <1>5
  <2>2. InStep(out[v][s], gNameCount, FirstLines(pos - 1)) BY <1>2
  <2>3. /\ InStep(a[s], name, FirstLines(pos))
        /\ Elements(a[s].names) \subseteq Elements(out[v][s].names) \cup {name}
        /\ Len(a[s].lines) = Len(out[v][s].lines) + 1
    <3>1. PICK l, R : l = out[v][s] /\ R = FirstLines(pos - 1) OBVIOUS
    <3>2. InStep(l, gNameCount, R) /\ line \in Lines \ R /\ line \in Lines
          /\ name > gNameCount /\ l.lines \in Seq(Items)
      BY <1>1, <1>2, <2>2, <3>1 DEF InStep, Lists
    <3>3. /\ InStep(Extend(v, l, line, name), name, R \cup {line})
          /\ Elements(Extend(v, l, line, name).names) \subseteq Elements(l.names) \cup {name}
      BY <1>2, <3>2, ExtendInStep
    <3>4. Len(Extend(v, l, line, name).lines) = Len(l.lines) + 1
      BY <3>2, ExtendLen
    <3> QED BY <1>1, <2>1, <3>1, <3>3, <3>4
  <2> QED BY <2>3, InStepGrows
<1>6. ASSUME NEW s \in Sections, s \notin {"all", ProtoOf[line]}
      PROVE  InStep(a[s], g, FirstLines(pos)) /\ a[s] = out[v][s]
  <2>1. a[s] = out[v][s] BY <1>3, <1>6
  <2>2. InStep(out[v][s], gNameCount, FirstLines(pos - 1)) /\ gNameCount <= g BY <1>2
  <2>3. InStep(out[v][s], g, FirstLines(pos)) BY <1>1, <1>2, <2>2, InStepGrows
  <2> QED BY <2>1, <2>3
<1>7. a \in [Sections -> Lists]
  <2>1. \A s \in Sections : a[s] \in Lists BY <1>5, <1>6 DEF InStep
  <2> QED BY <1>4, <2>1
<1> QED BY <1>5, <1>6, <1>7 DEF a, line

LEMMA OldNames ==
  ASSUME ListInv, NEW v \in Variants, NEW s \in Sections, NEW n \in Elements(out[v][s].names)
  PROVE  n \in Nat /\ n <= gNameCount
<1>1. InStep(out[v][s], gNameCount, FirstLines(pos - 1)) BY DEF ListInv
<1>2. out[v][s].names \in Seq(Nat) BY <1>1 DEF InStep, Lists
<1>3. PICK k \in 1 .. Len(out[v][s].names) : n = out[v][s].names[k] BY DEF Elements
<1>4. out[v][s].names[k] \in Nat BY <1>2, ElementOfSeq
<1> QED BY <1>1, <1>3, <1>4 DEF InStep

LEMMA CollectStep == ListInv /\ Collect => ListInv'
<1> SUFFICES ASSUME ListInv, Collect PROVE ListInv' OBVIOUS
<1> DEFINE line == in.results[pos]
           g == gNameCount
           a == Add("v2ray", line, g + 1)
           b == Add("sni", line, g + 2)
<1>1. /\ g \in Nat /\ pos \in 1 .. Len(in.results) /\ Len(in.results) \in Nat
      /\ out \in [Variants -> [Sections -> Lists]]
  <2>1. Len(in.results) \in Nat /\ pos <= Len(in.results) BY Given DEF ListInv, Collect
  <2> QED BY <2>1 DEF ListInv
<1>2. /\ in' = in /\ pos' = pos + 1 /\ gNameCount' \in Nat
      /\ \/ /\ out' = [v2ray |-> a, sni |-> b] /\ gNameCount' = g + 2
         \/ /\ out' = [out EXCEPT !["v2ray"] = a] /\ gNameCount' = g + 1
  BY <1>1 DEF Collect, SniName
<1>3. Variants = {"v2ray", "sni"} BY DEF Variants
<1>4. /\ a \in [Sections -> Lists]
      /\ \A s \in Sections : /\ InStep(a[s], g + 1, FirstLines(pos))
                             /\ Elements(a[s].names) \subseteq
                                   Elements(out["v2ray"][s].names) \cup {g + 1}
                             /\ Len(a[s].lines) =
                                   IF s \in {"all", ProtoOf[line]}
                                   THEN Len(out["v2ray"][s].lines) + 1
                                   ELSE Len(out["v2ray"][s].lines)
  <2>1. PICK h \in Nat : h = g + 1 BY <1>1
  <2>2. gNameCount < h /\ h <= h /\ pos <= Len(in.results) /\ "v2ray" \in Variants
    BY <1>1, <1>3, <2>1
  <2>3. /\ Add("v2ray", line, h) \in [Sections -> Lists]
        /\ \A s \in Sections : /\ InStep(Add("v2ray", line, h)[s], h, FirstLines(pos))
                               /\ Elements(Add("v2ray", line, h)[s].names) \subseteq
                                     Elements(out["v2ray"][s].names) \cup {h}
    BY <2>2, AddInStep
  <2>4. \A s \in Sections : Len(Add("v2ray", line, h)[s].lines) =
                              IF s \in {"all", ProtoOf[line]}
                              THEN Len(out["v2ray"][s].lines) + 1
                              ELSE Len(out["v2ray"][s].lines)
    BY <2>2, AddInStep
  <2> QED BY <2>1, <2>3, <2>4, Zenon
<1>5. /\ b \in [Sections -> Lists]
      /\ \A s \in Sections : /\ InStep(b[s], g + 2, FirstLines(pos))
                             /\ Elements(b[s].names) \subseteq
                                   Elements(out["sni"][s].names) \cup {g + 2}
  <2>1. PICK h \in Nat : h = g + 2 BY <1>1
  <2>2. gNameCount < h /\ h <= h /\ pos <= Len(in.results) /\ "sni" \in Variants
    BY <1>1, <1>3, <2>1
  <2>3. /\ Add("sni", line, h) \in [Sections -> Lists]
        /\ \A s \in Sections : /\ InStep(Add("sni", line, h)[s], h, FirstLines(pos))
                               /\ Elements(Add("sni", line, h)[s].names) \subseteq
                                     Elements(out["sni"][s].names) \cup {h}
    BY <2>2, AddInStep
  <2> QED BY <2>1, <2>3, Zenon
<1>6. /\ "v2ray" \in Variants /\ "sni" \in Variants
      /\ \A s \in Sections : InStep(out["sni"][s], g, FirstLines(pos - 1))
      /\ \A s, t \in Sections :
           Elements(out["v2ray"][s].names) \cap Elements(out["sni"][t].names) = {}
  BY <1>3 DEF ListInv
<1>7. FirstLines(pos) = FirstLines(pos - 1) \cup {line} BY <1>1, NextLine
<1>8. /\ (pos + 1) - 1 = pos /\ pos + 1 \in 1 .. Len(in.results) + 1
      /\ g + 1 \in Nat /\ g + 2 \in Nat
  BY <1>1
<1>9. \A s \in Sections : /\ \A n \in Elements(out["v2ray"][s].names) : n \in Nat /\ n <= g
                          /\ \A n \in Elements(out["sni"][s].names) : n \in Nat /\ n <= g
  BY <1>6, OldNames
<1> HIDE DEF a, b, line
<1>10. /\ out'["v2ray"] = a
       /\ \/ out'["sni"] = b /\ gNameCount' = g + 2
          \/ out'["sni"] = out["sni"] /\ gNameCount' = g + 1
       /\ out' \in [Variants -> [Sections -> Lists]]
  BY <1>1, <1>2, <1>3, <1>4, <1>5
<1>11. ASSUME NEW s \in Sections PROVE InStep(out'["v2ray"][s], gNameCount', FirstLines(pos))
  <2>1. InStep(a[s], g + 1, FirstLines(pos)) BY <1>4
  <2>2. InStep(a[s], gNameCount', FirstLines(pos))
    <3>1. gNameCount' \in Nat /\ g + 1 <= gNameCount' BY <1>1, <1>2
    <3> QED BY <1>8, <2>1, <3>1, InStepGrows
  <2> QED BY <1>10, <2>2
<1>12. ASSUME NEW s \in Sections PROVE InStep(out'["sni"][s], gNameCount', FirstLines(pos))
  <2>1. InStep(out["sni"][s], g + 1, FirstLines(pos))
    <3>1. g <= g + 1 BY <1>1
    <3>2. InStep(out["sni"][s], g, FirstLines(pos - 1)) BY <1>6
    <3> QED BY <1>1, <1>7, <1>8, <3>1, <3>2, InStepGrows
  <2> QED BY <1>5, <1>10, <2>1
<1>13. ASSUME NEW s \in Sections, NEW t \in Sections
       PROVE  Elements(out'["v2ray"][s].names) \cap Elements(out'["sni"][t].names) = {}
  <2>1. Elements(out'["v2ray"][s].names) \subseteq Elements(out["v2ray"][s].names) \cup {g + 1}
    BY <1>4, <1>10
  <2>2. Elements(out'["sni"][t].names) \subseteq Elements(out["sni"][t].names) \cup {g + 2}
    BY <1>5, <1>10
  <2>3. Elements(out["v2ray"][s].names) \cap Elements(out["sni"][t].names) = {} BY <1>6
  <2>4. g + 1 # g + 2 BY <1>1
  <2>5. g + 1 \notin Elements(out["sni"][t].names)
    <3> SUFFICES ASSUME g + 1 \in Elements(out["sni"][t].names) PROVE FALSE OBVIOUS
    <3>1. g + 1 <= g BY <1>9
    <3> QED BY <1>1, <3>1
  <2>6. g + 2 \notin Elements(out["v2ray"][s].names)
    <3> SUFFICES ASSUME g + 2 \in Elements(out["v2ray"][s].names) PROVE FALSE OBVIOUS
    <3>1. g + 2 <= g BY <1>9
    <3> QED BY <1>1, <3>1
  <2> QED BY <2>1, <2>2, <2>3, <2>4, <2>5, <2>6
<1>14. /\ "all" \in Sections /\ ToSet(ProtocolOrder) \subseteq Sections
       /\ "all" \notin ToSet(ProtocolOrder)
  BY Constants DEF Sections
<1>15. Len(out'["v2ray"]["all"].lines) = pos
  <2>1. Len(out["v2ray"]["all"].lines) = pos - 1 BY DEF ListInv
  <2>2. Len(a["all"].lines) = Len(out["v2ray"]["all"].lines) + 1 BY <1>4, <1>14
  <2> QED BY <1>1, <1>10, <2>1, <2>2
<1>16. ASSUME NEW p \in ToSet(ProtocolOrder)
       PROVE  Len(out'["v2ray"][p].lines) = Cardinality(OfProto(p, pos))
  <2>1. Len(out["v2ray"][p].lines) = Cardinality(OfProto(p, pos - 1)) BY DEF ListInv
  <2>2. Len(a[p].lines) = IF p = ProtoOf[line] THEN Len(out["v2ray"][p].lines) + 1
                          ELSE Len(out["v2ray"][p].lines)
    BY <1>4, <1>14
  <2>3. /\ OfProto(p, pos) = OfProto(p, pos - 1) \cup (IF ProtoOf[line] = p THEN {pos} ELSE {})
        /\ pos \notin OfProto(p, pos - 1) /\ IsFiniteSet(OfProto(p, pos - 1))
    BY <1>1, NextLine DEF line
  <2>4. Cardinality(OfProto(p, pos - 1) \cup {pos}) = Cardinality(OfProto(p, pos - 1)) + 1
    BY <2>3, FS_AddElement
  <2> QED BY <1>10, <2>1, <2>2, <2>3, <2>4
<1>17. \A n : FirstLines(n)' = FirstLines(n) BY <1>2 DEF FirstLines
<1>18. \A p, n : OfProto(p, n)' = OfProto(p, n) BY <1>2 DEF OfProto
<1>19. in' \in Inputs BY <1>2 DEF ListInv
<1> HIDE DEF g
<1>20. \A v \in Variants, s \in Sections : InStep(out'[v][s], gNameCount', FirstLines(pos))
  BY <1>3, <1>11, <1>12
<1>21. pos' - 1 = pos BY <1>2, <1>8
<1> QED
  BY <1>2, <1>8, <1>10, <1>13, <1>15, <1>16, <1>17, <1>18, <1>19, <1>20, <1>21 DEF ListInv

LEMMA ListSame == ListInv /\ UNCHANGED <<in, pos, gNameCount, out>> => ListInv'
<1> SUFFICES ASSUME ListInv, UNCHANGED <<in, pos, gNameCount, out>> PROVE ListInv' OBVIOUS
<1>1. in' = in /\ pos' = pos /\ gNameCount' = gNameCount /\ out' = out OBVIOUS
<1>2. \A n : FirstLines(n)' = FirstLines(n) BY <1>1 DEF FirstLines
<1>3. \A p, n : OfProto(p, n)' = OfProto(p, n) BY <1>1 DEF OfProto
<1> QED BY <1>1, <1>2, <1>3 DEF ListInv

-----------------------------------------------------------------------------
(* Slices: the k-th has the positions of the k-th piece of 1 .. n, and the *)
(* pieces are a partition.                                                 *)
Piece(n, k, size) == {i \in 1 .. n : (k - 1) * size < i /\ i <= k * size}
SliceLen(n, k, size) == IF (k - 1) * size + size <= n THEN size ELSE n - (k - 1) * size
At(L, k, size) == {L[i] : i \in Piece(Len(L), k, size)}

LEMMA Batches ==
  ASSUME NEW n \in Nat, NEW k \in Nat, NEW size \in Nat \ {0}
  PROVE  /\ NumBatches(n, size) \in Nat
         /\ k < NumBatches(n, size) <=> k * size < n
<1> DEFINE q == NumBatches(n, size)
<1>1. q \in Int /\ q * size <= n + size - 1 /\ n + size - 1 < q * size + size
  BY DEF NumBatches
<1>2. q \in Nat BY DEF NumBatches
<1> HIDE DEF q
<1>3. ASSUME k < q PROVE k * size < n
  <2>1. (k + 1) * size <= q * size BY <1>2, <1>3
  <2> QED BY <1>1, <2>1, Products
<1>4. ASSUME k >= q PROVE k * size >= n
  <2>1. k * size >= q * size BY <1>2, <1>4
  <2> QED BY <1>1, <1>2, <2>1, Products
<1> QED BY <1>2, <1>3, <1>4, Products DEF q

(* Where the k-th begins and ends, counted from 1. *)
LEMMA Bounds ==
  ASSUME NEW n \in Nat, NEW size \in Nat \ {0}, NEW k \in 1 .. NumBatches(n, size)
  PROVE  /\ k \in Nat \ {0} /\ (k - 1) * size \in Nat /\ (k - 1) * size < n
         /\ k * size = (k - 1) * size + size
<1>1. NumBatches(n, size) \in Nat BY Batches
<1>2. PICK j \in Nat : j = k - 1 /\ k = j + 1 /\ j < NumBatches(n, size) BY <1>1
<1>3. j * size < n BY <1>2, Batches
<1>4. j * size \in Nat /\ (j + 1) * size = j * size + size BY Products
<1> QED BY <1>2, <1>3, <1>4

LEMMA PieceOne ==
  ASSUME NEW n, NEW size \in Nat, NEW j \in Nat, NEW k \in Nat, j # k
  PROVE  Piece(n, j, size) \cap Piece(n, k, size) = {}
<1>1. ASSUME NEW a \in Nat, NEW b \in Nat, a < b PROVE a * size <= (b - 1) * size
  <2>1. PICK c \in Nat : c = b - 1 /\ a <= c BY <1>1
  <2>2. a * size <= c * size BY <2>1
  <2> QED BY <2>1, <2>2
<1>2. ASSUME NEW a \in Nat, NEW b \in Nat, a < b, NEW i \in Piece(n, a, size), i \in Piece(n, b, size)
      PROVE  FALSE
  <2>1. i \in Int /\ i <= a * size /\ (b - 1) * size < i BY <1>2 DEF Piece
  <2>2. a * size \in Int /\ (b - 1) * size \in Int OBVIOUS
  <2>3. a * size <= (b - 1) * size BY <1>1, <1>2
  <2> QED BY <2>1, <2>2, <2>3
<1>3. j < k \/ k < j OBVIOUS
<1> QED BY <1>2, <1>3

LEMMA PieceAll ==
  ASSUME NEW n \in Nat, NEW size \in Nat \ {0}, NEW i \in 1 .. n
  PROVE  \E k \in 1 .. NumBatches(n, size) : i \in Piece(n, k, size)
<1> DEFINE k == NumBatches(i, size)
<1>1. i \in Nat /\ i # 0 BY DEF Piece
<1>2. k \in Nat BY <1>1, Batches
<1>3. k # 0
  <2>1. 0 < k <=> 0 * size < i
    <3> HIDE DEF k
    <3>1. NumBatches(i, size) = k BY DEF k
    <3> QED BY <1>1, <3>1, Batches
  <2> QED BY <1>1, <2>1, Products
<1>4. i <= k * size
  <2>1. ~(k < k) BY <1>2
  <2>2. ~(k * size < i)
    <3> HIDE DEF k
    <3>1. NumBatches(i, size) = k BY DEF k
    <3> QED BY <1>1, <1>2, <2>1, <3>1, Batches
  <2>3. k * size \in Nat BY <1>2, Products
  <2> QED BY <1>1, <2>2, <2>3
<1>5. PICK j \in Nat : j = k - 1 /\ j < k BY <1>2, <1>3
<1>6. j * size < i
  <2> HIDE DEF k
  <2>1. NumBatches(i, size) = k BY DEF k
  <2> QED BY <1>1, <1>5, <2>1, Batches
<1>7. j < NumBatches(n, size)
  <2>1. j * size < n BY <1>6, Products
  <2> QED BY <2>1, Batches
<1>8. k \in 1 .. NumBatches(n, size)
  <2>1. NumBatches(n, size) \in Nat BY Batches
  <2> HIDE DEF k
  <2> QED BY <1>2, <1>3, <1>5, <1>7, <2>1
<1>9. i \in Piece(n, k, size) BY <1>4, <1>5, <1>6 DEF Piece
<1> QED BY <1>8, <1>9

LEMMA SliceIs ==
  ASSUME NEW S, NEW L \in Seq(S), NEW size \in Nat \ {0},
         NEW k \in 1 .. NumBatches(Len(L), size)
  PROVE  LET a == (k - 1) * size
             m == SliceLen(Len(L), k, size)
         IN  /\ a \in Nat /\ m \in 1 .. size /\ a + m <= Len(L)
             /\ Slice(L, k, size) = SubSeq(L, a + 1, a + m)
             /\ Slice(L, k, size) \in Seq(S) /\ Len(Slice(L, k, size)) = m
             /\ \A i \in 1 .. m : Slice(L, k, size)[i] = L[a + i]
             /\ Elements(Slice(L, k, size)) = At(L, k, size)
             /\ Distinct(L) => Distinct(Slice(L, k, size))
<1> DEFINE a == (k - 1) * size
           m == SliceLen(Len(L), k, size)
           b == k * size
           n == Len(L)
<1>1. n \in Nat BY LenProperties
<1>2. /\ a \in Nat /\ a < n /\ b = a + size BY <1>1, Bounds
<1>3. Slice(L, k, size) = SubSeq(L, a + 1, Min({b, n})) BY DEF Slice
<1>4. Piece(n, k, size) = {i \in 1 .. n : a < i /\ i <= b} BY DEF Piece
<1> HIDE DEF a, b, n
<1>5. m = IF a + size <= n THEN size ELSE n - a BY DEF n, a, SliceLen
<1> HIDE DEF m
<1>6. m \in 1 .. size /\ a + m <= n BY <1>1, <1>2, <1>5
<1>7. Min({b, n}) = a + m BY <1>1, <1>2, <1>5, MinOfTwo
<1>8. PICK h, e : /\ h = a + 1 /\ e = a + m
                  /\ h \in Nat \ {0} /\ e \in h - 1 .. n
  BY <1>1, <1>2, <1>6
<1>9. /\ SubSeq(L, h, e) \in Seq(S) /\ Len(SubSeq(L, h, e)) = e - h + 1
      /\ \A i \in 1 .. e - h + 1 : SubSeq(L, h, e)[i] = L[h + i - 1]
      /\ Elements(SubSeq(L, h, e)) = {L[i] : i \in h .. e}
      /\ Distinct(L) => Distinct(SubSeq(L, h, e))
  <2>1. e \in h - 1 .. Len(L) BY <1>8 DEF n
  <2>2. /\ SubSeq(L, h, e) \in Seq(S) /\ Len(SubSeq(L, h, e)) = e - h + 1
        /\ \A i \in 1 .. e - h + 1 : SubSeq(L, h, e)[i] = L[h + i - 1]
    BY <1>8, <2>1, PartOf
  <2>3. Elements(SubSeq(L, h, e)) = {L[i] : i \in h .. e}
    BY <1>8, <2>1, PartOf
  <2>4. Distinct(L) => Distinct(SubSeq(L, h, e))
    BY <1>8, <2>1, PartOf
  <2> QED BY <2>2, <2>3, <2>4
<1>10. e - h + 1 = m /\ \A i \in 1 .. m : h + i - 1 = a + i BY <1>2, <1>6, <1>8
<1>11. h .. e = Piece(n, k, size)
  <2>1. \A i \in h .. e : i \in 1 .. n /\ a < i /\ i <= b BY <1>1, <1>2, <1>6, <1>8
  <2>2. \A i \in 1 .. n : a < i /\ i <= b => i \in h .. e BY <1>1, <1>2, <1>5, <1>8
  <2> QED BY <1>4, <2>1, <2>2
<1>12. Slice(L, k, size) = SubSeq(L, h, e) BY <1>3, <1>7, <1>8
<1>13. /\ Slice(L, k, size) = SubSeq(L, a + 1, a + m)
       /\ Slice(L, k, size) \in Seq(S) /\ Len(Slice(L, k, size)) = m
       /\ \A i \in 1 .. m : Slice(L, k, size)[i] = L[a + i]
  <2>1. Slice(L, k, size) \in Seq(S) /\ Len(Slice(L, k, size)) = m BY <1>9, <1>10, <1>12
  <2>2. \A i \in 1 .. m : Slice(L, k, size)[i] = L[a + i] BY <1>9, <1>10, <1>12
  <2> QED BY <1>8, <1>12, <2>1, <2>2
<1>14. Elements(Slice(L, k, size)) = At(L, k, size)
  BY <1>9, <1>11, <1>12 DEF n, At
<1> QED BY <1>2, <1>6, <1>9, <1>12, <1>13, <1>14 DEF a, m, n

-----------------------------------------------------------------------------
(* Numbered files that hold the slices of L, unless they were lost: then   *)
(* they may be missing, or be cut off.                                     *)
Half(t) == SubSeq(t, 1, Len(t) \div 2)

Laid(fs, d, lost, v, kind, s, L, size) ==
  LET N == 1 .. NumBatches(Len(L), size)
  IN  /\ fs \subseteq {Path(v, kind, s, k) : k \in N}
      /\ \A k \in N : Path(v, kind, s, k) \in fs \cup lost
      /\ \A k \in N : Path(v, kind, s, k) \in fs =>
           d[Path(v, kind, s, k)].items =
             IF Path(v, kind, s, k) \in lost THEN Half(Slice(L, k, size)) ELSE Slice(L, k, size)

HeldBy(d, fs) == UNION {ToSet(d[f].items) : f \in fs}
Apart(d, fs) == \A f, g \in fs : f # g => HeldBy(d, {f}) \cap HeldBy(d, {g}) = {}

LEMMA HalfOf ==
  ASSUME NEW S, NEW t \in Seq(S)
  PROVE  /\ Half(t) \in Seq(S) /\ Elements(Half(t)) \subseteq Elements(t)
         /\ Distinct(t) => Distinct(Half(t))
<1>1. Len(t) \in Nat BY LenProperties
<1>2. PICK e : e = Len(t) \div 2 /\ e \in 1 - 1 .. Len(t) /\ 1 \in Nat \ {0} BY <1>1
<1>3. /\ SubSeq(t, 1, e) \in Seq(S)
      /\ Elements(SubSeq(t, 1, e)) = {t[k] : k \in 1 .. e}
      /\ Distinct(t) => Distinct(SubSeq(t, 1, e))
  BY <1>2, PartOf
<1>4. \A k \in 1 .. e : k \in 1 .. Len(t) BY <1>1, <1>2
<1> QED BY <1>2, <1>3, <1>4 DEF Half, Elements

LEMMA PathParts ==
  ASSUME NEW v, NEW kind, NEW s, NEW k
  PROVE  /\ Path(v, kind, s, k).v = v /\ Path(v, kind, s, k).kind = kind
         /\ Path(v, kind, s, k).s = s /\ Path(v, kind, s, k).k = k
         /\ \A j : [Path(v, kind, s, k) EXCEPT !.k = j] = Path(v, kind, s, j)
BY DEF Path

(* One of the files. *)
LEMMA LaidFile ==
  ASSUME NEW S, NEW L \in Seq(S), Distinct(L), NEW size \in Nat \ {0},
         NEW fs, NEW d, NEW lost, NEW v, NEW kind, NEW s,
         Laid(fs, d, lost, v, kind, s, L, size), NEW f \in fs
  PROVE  /\ f.k \in 1 .. NumBatches(Len(L), size) /\ f = Path(v, kind, s, f.k)
         /\ d[f].items \in Seq(S) /\ Distinct(d[f].items)
         /\ ToSet(d[f].items) = Elements(d[f].items)
         /\ Elements(d[f].items) \subseteq At(L, f.k, size)
         /\ f \notin lost => /\ Elements(d[f].items) = At(L, f.k, size)
                            /\ Len(d[f].items) \in 1 .. size
<1>1. PICK k \in 1 .. NumBatches(Len(L), size) : f = Path(v, kind, s, k) BY DEF Laid
<1>2. f.k = k BY <1>1, PathParts
<1> DEFINE t == Slice(L, k, size)
<1>3. d[f].items = IF f \in lost THEN Half(t) ELSE t BY <1>1 DEF Laid
<1>4. /\ t \in Seq(S) /\ Distinct(t) /\ Elements(t) = At(L, k, size)
      /\ Len(t) \in 1 .. size
  <2>1. Slice(L, k, size) \in Seq(S) /\ Distinct(Slice(L, k, size)) BY SliceIs
  <2>2. Elements(Slice(L, k, size)) = At(L, k, size) BY SliceIs
  <2>3. /\ Len(Slice(L, k, size)) = SliceLen(Len(L), k, size)
        /\ SliceLen(Len(L), k, size) \in 1 .. size
    BY SliceIs
  <2> QED BY <2>1, <2>2, <2>3
<1> HIDE DEF t
<1>5. /\ Half(t) \in Seq(S) /\ Elements(Half(t)) \subseteq Elements(t) /\ Distinct(Half(t))
  BY <1>4, HalfOf
<1>6. d[f].items \in Seq(S) /\ Distinct(d[f].items) BY <1>3, <1>4, <1>5
<1>7. ToSet(d[f].items) = Elements(d[f].items) BY <1>6, ElementsToSet
<1> QED BY <1>1, <1>2, <1>3, <1>4, <1>5, <1>6, <1>7

(* No element is in two of them. *)
LEMMA LaidApart ==
  ASSUME NEW S, NEW L \in Seq(S), Distinct(L), NEW size \in Nat \ {0},
         NEW fs, NEW d, NEW lost, NEW v, NEW kind, NEW s,
         Laid(fs, d, lost, v, kind, s, L, size)
  PROVE  \A f, g \in fs : f # g => Elements(d[f].items) \cap Elements(d[g].items) = {}
<1>0. \A h \in fs : /\ h.k \in 1 .. NumBatches(Len(L), size) /\ h = Path(v, kind, s, h.k)
                    /\ d[h].items \in Seq(S) /\ Distinct(d[h].items)
                    /\ ToSet(d[h].items) = Elements(d[h].items)
                    /\ Elements(d[h].items) \subseteq At(L, h.k, size)
  BY LaidFile
<1> SUFFICES ASSUME NEW f \in fs, NEW g \in fs, f # g
             PROVE  Elements(d[f].items) \cap Elements(d[g].items) = {}
  OBVIOUS
<1>1. /\ f.k \in 1 .. NumBatches(Len(L), size) /\ f = Path(v, kind, s, f.k)
      /\ Elements(d[f].items) \subseteq At(L, f.k, size)
  BY <1>0
<1>2. /\ g.k \in 1 .. NumBatches(Len(L), size) /\ g = Path(v, kind, s, g.k)
      /\ Elements(d[g].items) \subseteq At(L, g.k, size)
  BY <1>0
<1>3. f.k # g.k /\ f.k \in Nat /\ g.k \in Nat BY <1>1, <1>2
<1>4. Piece(Len(L), f.k, size) \cap Piece(Len(L), g.k, size) = {} BY <1>3, PieceOne
<1>5. \A i \in Piece(Len(L), f.k, size), j \in Piece(Len(L), g.k, size) : L[i] # L[j]
  <2>1. /\ Piece(Len(L), f.k, size) \subseteq 1 .. Len(L)
        /\ Piece(Len(L), g.k, size) \subseteq 1 .. Len(L)
    BY DEF Piece
  <2> QED BY <1>4, <2>1 DEF Distinct
<1> QED BY <1>1, <1>2, <1>5 DEF At

(* The files hold of L what was not lost, and their lengths add up to it.  *)
LEMMA LaidSum ==
  ASSUME NEW S, NEW L \in Seq(S), Distinct(L), NEW size \in Nat \ {0},
         NEW fs, NEW d, NEW lost, NEW v, NEW kind, NEW s,
         Laid(fs, d, lost, v, kind, s, L, size)
  PROVE  /\ IsFiniteSet(HeldBy(d, fs)) /\ HeldBy(d, fs) \subseteq Elements(L)
         /\ SumFunctionOnSet([f \in fs |-> Len(d[f].items)], fs) = Cardinality(HeldBy(d, fs))
<1> DEFINE H == HeldBy(d, fs)
           N == NumBatches(Len(L), size)
           g == [x \in H |-> CHOOSE f \in fs : x \in Elements(d[f].items)]
           lens == [f \in fs |-> Len(d[f].items)]
<1>1. \A f \in fs : /\ f.k \in 1 .. N /\ f = Path(v, kind, s, f.k)
                    /\ d[f].items \in Seq(S) /\ Distinct(d[f].items)
                    /\ ToSet(d[f].items) = Elements(d[f].items)
                    /\ Elements(d[f].items) \subseteq At(L, f.k, size)
  BY LaidFile
<1>2. H \subseteq Elements(L)
  <2>1. \A k : Piece(Len(L), k, size) \subseteq 1 .. Len(L) BY DEF Piece
  <2>2. \A k : At(L, k, size) \subseteq Elements(L) BY <2>1 DEF Elements, At
  <2>3. \A f \in fs : ToSet(d[f].items) \subseteq Elements(L) BY <1>1, <2>2
  <2> QED BY <2>3 DEF HeldBy
<1>3. IsFiniteSet(H)
  <2>1. IsFiniteSet(Elements(L)) BY DistinctLen
  <2> HIDE DEF H
  <2> QED BY <1>2, <2>1, FS_Subset
<1>4. IsFiniteSet(fs)
  <2>1. Len(L) \in Nat BY LenProperties
  <2>2. N \in Nat BY <2>1, Batches
  <2> DEFINE n == [f \in fs |-> f.k]
  <2> HIDE DEF N
  <2>3. n \in Injection(fs, 1 .. N)
    <3>1. n \in [fs -> 1 .. N] BY <1>1
    <3>2. \A a, b \in fs : a.k = b.k => a = b BY <1>1
    <3>3. IsInjective(n) BY <3>2 DEF IsInjective
    <3> QED BY <3>1, <3>3 DEF Injection
  <2>4. IsFiniteSet(1 .. N) BY <2>2, FS_Interval
  <2> HIDE DEF n
  <2> QED BY <2>3, <2>4, FS_Injection
<1>5. ASSUME NEW x \in H PROVE g[x] \in fs /\ x \in Elements(d[g[x]].items)
  <2>1. \E f \in fs : x \in Elements(d[f].items) BY <1>1, <1>5 DEF HeldBy
  <2> QED BY <1>5, <2>1
<1>6. ASSUME NEW f \in fs PROVE Mapped(H, g, {f}) = Elements(d[f].items)
  <2>1. ASSUME NEW x \in Mapped(H, g, {f}) PROVE x \in Elements(d[f].items)
    <3>1. x \in H /\ g[x] = f BY <2>1 DEF Mapped
    <3> HIDE DEF g
    <3> QED BY <1>5, <3>1
  <2>2. ASSUME NEW x \in Elements(d[f].items) PROVE x \in Mapped(H, g, {f})
    <3>1. x \in H BY <1>1, <2>2 DEF HeldBy
    <3>2. g[x] \in fs /\ x \in Elements(d[g[x]].items) BY <1>5, <3>1
    <3> HIDE DEF g
    <3>3. g[x] = f
      <4>1. ASSUME g[x] # f PROVE Elements(d[g[x]].items) \cap Elements(d[f].items) = {}
        BY <3>2, <4>1, LaidApart
      <4> QED BY <2>2, <3>2, <4>1
    <3> QED BY <3>1, <3>3 DEF Mapped
  <2> QED BY <2>1, <2>2
<1>7. \A f \in fs : lens[f] = Cardinality(Mapped(H, g, {f}))
  <2> TAKE f \in fs
  <2>1. Cardinality(Elements(d[f].items)) = Len(d[f].items) BY <1>1, DistinctLen
  <2> QED BY <1>6, <2>1
<1>8. Mapped(H, g, fs) = H
  <2> HIDE DEF g
  <2> QED BY <1>5 DEF Mapped
<1>9. SumFunctionOnSet(lens, fs) = Cardinality(Mapped(H, g, fs))
  <2> HIDE DEF H, g, lens
  <2> QED BY <1>3, <1>4, <1>7, SumIsCount
<1> QED BY <1>2, <1>3, <1>8, <1>9

(* What is missing was in lost files, and no more in each than fits.       *)
LEMMA LaidMissing ==
  ASSUME NEW S, NEW L \in Seq(S), Distinct(L), NEW size \in Nat \ {0},
         NEW fs, NEW d, NEW lost, NEW v, NEW kind, NEW s, IsFiniteSet(lost),
         Laid(fs, d, lost, v, kind, s, L, size)
  PROVE  /\ Cardinality(Elements(L) \ HeldBy(d, fs)) <= size * Cardinality(lost)
         /\ lost = {} => Elements(L) \subseteq HeldBy(d, fs)
<1> DEFINE M == Elements(L) \ HeldBy(d, fs)
           N == NumBatches(Len(L), size)
           Has(q, x) == Slice(L, q[1].k, size)[q[2]] = x
           h == [x \in M |-> CHOOSE q \in lost \X (1 .. size) : Has(q, x)]
<1>0. \A f \in fs : /\ f.k \in 1 .. N /\ f = Path(v, kind, s, f.k)
                    /\ ToSet(d[f].items) = Elements(d[f].items)
                    /\ f \notin lost => Elements(d[f].items) = At(L, f.k, size)
  BY LaidFile
<1>1. Len(L) \in Nat BY LenProperties
<1>2. ASSUME NEW x \in M PROVE \E q \in lost \X (1 .. size) : Has(q, x)
  <2>1. PICK i \in 1 .. Len(L) : x = L[i] BY DEF Elements
  <2>2. PICK k \in 1 .. N : i \in Piece(Len(L), k, size) BY <1>1, PieceAll
  <2> DEFINE f == Path(v, kind, s, k)
             a == (k - 1) * size
  <2>3. f.k = k BY PathParts
  <2>4. x \in At(L, k, size) BY <2>1, <2>2 DEF At
  <2>5. f \in lost
    <3>1. f \in fs \cup lost BY DEF Laid
    <3> SUFFICES ASSUME f \notin lost PROVE FALSE OBVIOUS
    <3>2. f \in fs BY <3>1
    <3> HIDE DEF f
    <3>3. ToSet(d[f].items) = At(L, k, size) BY <1>0, <2>3, <3>2
    <3>4. x \in HeldBy(d, fs) BY <2>4, <3>2, <3>3 DEF HeldBy
    <3> QED BY <3>4
  <2>6. Elements(Slice(L, k, size)) = At(L, k, size) BY SliceIs
  <2>7. /\ Len(Slice(L, k, size)) = SliceLen(Len(L), k, size)
        /\ SliceLen(Len(L), k, size) \in 1 .. size
    BY SliceIs
  <2>8. PICK o \in 1 .. Len(Slice(L, k, size)) : x = Slice(L, k, size)[o]
    BY <2>4, <2>6 DEF Elements
  <2>9. o \in 1 .. size BY <2>7, <2>8
  <2> HIDE DEF f
  <2>10. <<f, o>> \in lost \X (1 .. size) /\ Has(<<f, o>>, x)
    BY <2>3, <2>5, <2>8, <2>9
  <2> QED BY <2>10
<1>3. \A x \in M : h[x] \in lost \X (1 .. size) /\ Has(h[x], x)
  <2> HIDE DEF Has, M
  <2> QED BY <1>2
<1>4. h \in Injection(M, lost \X (1 .. size))
  <2>1. h = [x \in M |-> h[x]] OBVIOUS
  <2>2. DOMAIN h = M OBVIOUS
  <2> HIDE DEF h
  <2>3. h \in [M -> lost \X (1 .. size)] BY <1>3, <2>1
  <2>4. \A x, y \in M : h[x] = h[y] => x = y BY <1>3
  <2> HIDE DEF M
  <2>5. IsInjective(h) BY <2>2, <2>4 DEF IsInjective
  <2> QED BY <2>3, <2>5 DEF Injection
<1>5. IsFiniteSet(1 .. size) /\ Cardinality(1 .. size) = size BY FS_Interval
<1>6. /\ IsFiniteSet(lost \X (1 .. size))
      /\ Cardinality(lost \X (1 .. size)) = Cardinality(lost) * size
  BY <1>5, FS_Product
<1>7. Cardinality(M) <= Cardinality(lost) * size
  <2> HIDE DEF M, h
  <2> QED BY <1>4, <1>6, FS_Injection
<1>8. Cardinality(lost) \in Nat BY FS_CardinalityType
<1>9. Cardinality(M) <= size * Cardinality(lost)
  <2> HIDE DEF M
  <2> QED BY <1>7, <1>8
<1>10. lost = {} => M = {}
  <2> SUFFICES ASSUME lost = {}, NEW x \in M PROVE FALSE OBVIOUS
  <2> HIDE DEF M, Has
  <2> QED BY <1>2
<1> QED BY <1>9, <1>10

(* All of it together. *)
LEMMA LaidWell ==
  ASSUME NEW S, NEW L \in Seq(S), Distinct(L), NEW size \in Nat \ {0},
         NEW fs, NEW d, NEW lost, NEW v, NEW kind, NEW s, IsFiniteSet(lost),
         Laid(fs, d, lost, v, kind, s, L, size)
  PROVE  /\ \A f \in fs \ lost : Len(d[f].items) \in 1 .. size
         /\ Apart(d, fs)
         /\ HeldBy(d, fs) \subseteq Elements(L)
         /\ \A f \in fs : \A k \in 1 .. f.k : [f EXCEPT !.k = k] \in fs \cup lost
         /\ Len(L) - SumFunctionOnSet([f \in fs |-> Len(d[f].items)], fs)
              <= size * Cardinality(lost)
         /\ lost = {} => /\ HeldBy(d, fs) = Elements(L)
                         /\ Len(L) = SumFunctionOnSet([f \in fs |-> Len(d[f].items)], fs)
<1> DEFINE H == HeldBy(d, fs)
           N == NumBatches(Len(L), size)
           sum == SumFunctionOnSet([f \in fs |-> Len(d[f].items)], fs)
<1>1. \A f \in fs : /\ f.k \in 1 .. N /\ f = Path(v, kind, s, f.k)
                    /\ ToSet(d[f].items) = Elements(d[f].items)
                    /\ f \notin lost => Len(d[f].items) \in 1 .. size
  BY LaidFile
<1>2. Apart(d, fs)
  <2>1. \A f \in fs : HeldBy(d, {f}) = Elements(d[f].items) BY <1>1 DEF HeldBy
  <2>2. \A f, g \in fs : f # g => Elements(d[f].items) \cap Elements(d[g].items) = {}
    BY LaidApart
  <2> QED BY <2>1, <2>2 DEF Apart
<1>3. IsFiniteSet(H) /\ H \subseteq Elements(L) /\ sum = Cardinality(H) BY LaidSum
<1>4. ASSUME NEW f \in fs, NEW k \in 1 .. f.k PROVE [f EXCEPT !.k = k] \in fs \cup lost
  <2>1. f.k \in 1 .. N /\ f = Path(v, kind, s, f.k) BY <1>1
  <2>2. [f EXCEPT !.k = k] = Path(v, kind, s, k) BY <2>1, PathParts
  <2>3. Len(L) \in Nat BY LenProperties
  <2>4. N \in Nat BY <2>3, Batches
  <2>5. k \in 1 .. N
    <3> HIDE DEF N
    <3> QED BY <2>1, <2>4
  <2> QED BY <2>2, <2>5 DEF Laid
<1> DEFINE M == Elements(L) \ H
<1>5. Cardinality(M) <= size * Cardinality(lost) /\ (lost = {} => M = {})
  BY LaidMissing
<1>6. IsFiniteSet(Elements(L)) /\ Cardinality(Elements(L)) = Len(L) BY DistinctLen
<1>7. Cardinality(H) + Cardinality(M) = Len(L)
  <2>1. IsFiniteSet(M) BY <1>6, FS_Subset
  <2>2. H \cap M = {} /\ H \cup M = Elements(L) BY <1>3
  <2> HIDE DEF H, M
  <2> QED BY <1>3, <1>6, <2>1, <2>2, DisjointCount
<1>8. Cardinality(H) \in Nat /\ Cardinality(M) \in Nat
  <2>1. IsFiniteSet(M) BY <1>6, FS_Subset
  <2> HIDE DEF H, M
  <2> QED BY <1>3, <2>1, FS_CardinalityType
<1>9. Cardinality(lost) \in Nat BY FS_CardinalityType
<1>10. Len(L) - sum <= size * Cardinality(lost)
  <2> HIDE DEF H, M, sum
  <2>1. Len(L) - sum = Cardinality(M) BY <1>3, <1>7, <1>8
  <2> QED BY <1>5, <2>1
<1>11. lost = {} => H = Elements(L) /\ Len(L) = sum
  <2> SUFFICES ASSUME lost = {} PROVE H = Elements(L) /\ Len(L) = sum OBVIOUS
  <2>1. H = Elements(L) BY <1>3, <1>5
  <2> HIDE DEF H, sum
  <2> QED BY <1>3, <1>6, <2>1
<1> QED BY <1>1, <1>2, <1>3, <1>4, <1>10, <1>11

-----------------------------------------------------------------------------
(* Pairs stay pairs when both lists are shuffled or cut alike.             *)
LEMMA ShuffleIs ==
  ASSUME NEW S, NEW L \in Seq(S), NEW p \in Bijection(1 .. Len(L), 1 .. Len(L))
  PROVE  /\ Shuffle(L, p) \in Seq(S) /\ Len(Shuffle(L, p)) = Len(L)
         /\ \A k \in 1 .. Len(L) : p[k] \in 1 .. Len(L) /\ Shuffle(L, p)[k] = L[p[k]]
         /\ Elements(Shuffle(L, p)) = Elements(L)
         /\ Distinct(L) => Distinct(Shuffle(L, p))
<1> DEFINE n == Len(L)
           t == Shuffle(L, p)
<1>1. n \in Nat /\ DOMAIN L = 1 .. n /\ \A k \in 1 .. n : L[k] \in S
  BY LenProperties, ElementOfSeq
<1>2. /\ p \in [1 .. n -> 1 .. n] /\ \A a, b \in 1 .. n : p[a] = p[b] => a = b
      /\ \A b \in 1 .. n : \E a \in 1 .. n : p[a] = b
  BY DEF Bijection, Injection, Surjection, IsInjective
<1> HIDE DEF n
<1>3. t = [k \in 1 .. n |-> L[p[k]]]
  <2>1. DOMAIN L \cap DOMAIN p = 1 .. n BY <1>1, <1>2
  <2> QED BY <2>1 DEF Shuffle
<1> HIDE DEF t
<1>4. t \in [1 .. n -> S] /\ \A k \in 1 .. n : p[k] \in 1 .. n /\ t[k] = L[p[k]]
  BY <1>1, <1>2, <1>3
<1>5. t \in Seq(S) BY <1>1, <1>4, SeqDef
<1>6. Len(t) = n
  <2>1. DOMAIN t = 1 .. n /\ DOMAIN t = 1 .. Len(t) /\ Len(t) \in Nat
    BY <1>4, <1>5, LenProperties
  <2> QED BY <1>1, <1>4, <1>5, <2>1, LenProperties
<1>7. Elements(t) = Elements(L)
  <2>1. Elements(t) \subseteq Elements(L) BY <1>4, <1>6 DEF Elements, n
  <2>2. ASSUME NEW b \in 1 .. n PROVE L[b] \in Elements(t)
    <3>1. PICK a \in 1 .. n : p[a] = b BY <1>2
    <3>2. L[b] = t[a] BY <1>4, <3>1
    <3> QED BY <1>6, <3>2 DEF Elements
  <2> QED BY <2>1, <2>2 DEF Elements, n
<1>8. Distinct(L) => Distinct(t)
  <2> SUFFICES ASSUME Distinct(L), NEW a \in 1 .. n, NEW b \in 1 .. n, t[a] = t[b] PROVE a = b
    BY <1>6 DEF Distinct
  <2>1. L[p[a]] = L[p[b]] /\ p[a] \in 1 .. n /\ p[b] \in 1 .. n BY <1>4
  <2>2. p[a] = p[b] BY <2>1 DEF Distinct, n
  <2> QED BY <1>2, <2>2
<1> QED BY <1>4, <1>5, <1>6, <1>7, <1>8 DEF n, t

LEMMA PairedShuffle ==
  ASSUME NEW items \in Seq(Items), NEW names \in Seq(Nat), Paired(items, names),
         NEW p \in Bijection(1 .. Len(items), 1 .. Len(items))
  PROVE  Paired(Shuffle(items, p), Shuffle(names, p))
<1>1. Len(names) = Len(items) /\ Distinct(names) BY DEF Paired
<1>2. /\ Len(Shuffle(items, p)) = Len(items)
      /\ \A k \in 1 .. Len(items) :
           p[k] \in 1 .. Len(items) /\ Shuffle(items, p)[k] = items[p[k]]
  BY ShuffleIs
<1>3. p \in Bijection(1 .. Len(names), 1 .. Len(names)) BY <1>1
<1>4. /\ Len(Shuffle(names, p)) = Len(names) /\ Distinct(Shuffle(names, p))
      /\ \A k \in 1 .. Len(names) : Shuffle(names, p)[k] = names[p[k]]
  <2>1. Len(Shuffle(names, p)) = Len(names) BY <1>3, ShuffleIs
  <2>2. Distinct(Shuffle(names, p)) BY <1>1, <1>3, ShuffleIs
  <2>3. \A k \in 1 .. Len(names) : Shuffle(names, p)[k] = names[p[k]] BY <1>3, ShuffleIs
  <2> QED BY <2>1, <2>2, <2>3
<1>5. \A k \in 1 .. Len(items) : names[k] = items[k].name BY DEF Paired
<1>6. \A k \in 1 .. Len(items) : Shuffle(names, p)[k] = Shuffle(items, p)[k].name
  BY <1>1, <1>2, <1>4, <1>5
<1> QED BY <1>1, <1>2, <1>4, <1>6 DEF Paired

LEMMA PairedSlice ==
  ASSUME NEW items \in Seq(Items), NEW names \in Seq(Nat), Paired(items, names),
         NEW size \in Nat \ {0}, NEW k \in 1 .. NumBatches(Len(items), size)
  PROVE  Paired(Slice(items, k, size), Slice(names, k, size))
<1> DEFINE a == (k - 1) * size
           m == SliceLen(Len(items), k, size)
<1>1. Len(names) = Len(items) /\ Distinct(names) BY DEF Paired
<1>2. /\ a \in Nat /\ m \in 1 .. size /\ a + m <= Len(items)
      /\ Len(Slice(items, k, size)) = m
      /\ \A i \in 1 .. m : Slice(items, k, size)[i] = items[a + i]
  BY SliceIs
<1>3. k \in 1 .. NumBatches(Len(names), size) /\ m = SliceLen(Len(names), k, size) BY <1>1
<1>4. Distinct(Slice(names, k, size)) BY <1>1, <1>3, SliceIs
<1>5. /\ Len(Slice(names, k, size)) = m
      /\ \A i \in 1 .. m : Slice(names, k, size)[i] = names[a + i]
  BY <1>3, SliceIs
<1> HIDE DEF a, m
<1>6. Len(items) \in Nat BY LenProperties
<1>7. \A i \in 1 .. m : a + i \in 1 .. Len(items) BY <1>2, <1>6
<1> QED BY <1>2, <1>4, <1>5, <1>7 DEF Paired

LEMMA PairedValid ==
  ASSUME NEW items \in Seq(Items), NEW names \in Seq(Nat), Paired(items, names)
  PROVE  /\ names = [k \in DOMAIN items |-> items[k].name]
         /\ IsInjective(names)
<1>1. /\ Len(items) \in Nat /\ DOMAIN items = 1 .. Len(items)
      /\ DOMAIN names = 1 .. Len(items) /\ names = [k \in DOMAIN names |-> names[k]]
  BY LenProperties DEF Paired
<1>2. \A k \in 1 .. Len(items) : names[k] = items[k].name BY DEF Paired
<1>3. names = [k \in DOMAIN items |-> items[k].name] BY <1>1, <1>2
<1>4. IsInjective(names) BY <1>1 DEF Paired, Distinct, IsInjective
<1> QED BY <1>3, <1>4

-----------------------------------------------------------------------------
(* What is under config/ once a stage has written its files, new: those of *)
(* the stage, whole, or missing or cut off if they were lost.              *)
GroupOf(f) == IF f.s = "batch" THEN f.v ELSE IF f.s = "tcp" THEN "tcp" ELSE "whole"

Saved(fs, lost, g, new) ==
  /\ \A f \in DOMAIN fs \cup lost : GroupOf(f) = g => f \in DOMAIN new
  /\ \A f \in DOMAIN new :
       /\ GroupOf(f) = g /\ f \in DOMAIN fs \cup lost
       /\ f \in DOMAIN fs => fs[f] = IF f \in lost THEN Cut(new[f]) ELSE new[f]

LEMMA WriteSaves ==
  ASSUME NEW new, Write(new), NEW g, \A f \in DOMAIN new : GroupOf(f) = g,
         Saved(files, failed, g, << >>), IsFiniteSet(failed)
  PROVE  /\ Saved(files', failed', g, new) /\ IsFiniteSet(failed')
         /\ \A h, old : h # g /\ Saved(files, failed, h, old) => Saved(files', failed', h, old)
         /\ \A f \in DOMAIN files' : f \in DOMAIN files \/ GroupOf(f) = g
<1>1. PICK lost, created :
        /\ lost \in SUBSET (DOMAIN new \cap Fragile) /\ created \in SUBSET lost
        /\ files' = [f \in DOMAIN files \cup (DOMAIN new \ lost) \cup created |->
                       IF f \in created THEN Cut(new[f])
                       ELSE IF f \in DOMAIN new \ lost THEN new[f] ELSE files[f]]
        /\ failed' = failed \cup lost
  BY DEF Write
<1>2. IsFiniteSet(failed')
  <2>1. lost \in SUBSET Fragile BY <1>1
  <2>2. IsFiniteSet(lost) BY <2>1, Constants, FS_Subset
  <2> QED BY <1>1, <2>2, FS_Union
<1>3. \A f \in DOMAIN files \cup failed : GroupOf(f) # g
  BY DEF Saved
<1>4. DOMAIN files' = DOMAIN files \cup (DOMAIN new \ lost) \cup created
  BY <1>1
<1>5. \A f \in DOMAIN new : f \notin DOMAIN files /\ f \notin failed BY <1>3
<1>6. \A f \in DOMAIN files' \cup failed' : GroupOf(f) = g => f \in DOMAIN new
  BY <1>1, <1>3, <1>4
<1>7. ASSUME NEW f \in DOMAIN new
      PROVE  /\ f \in DOMAIN files' \cup failed'
             /\ f \in DOMAIN files' =>
                  files'[f] = IF f \in failed' THEN Cut(new[f]) ELSE new[f]
  <2>1. f \in failed' <=> f \in lost BY <1>1, <1>5
  <2>2. CASE f \in lost BY <1>1, <1>4, <1>5, <2>1, <2>2
  <2>3. CASE f \notin lost BY <1>1, <1>4, <1>5, <2>1, <2>3
  <2> QED BY <2>2, <2>3
<1>8. Saved(files', failed', g, new) BY <1>6, <1>7 DEF Saved
<1>9. ASSUME NEW h, NEW old, h # g, Saved(files, failed, h, old)
      PROVE  Saved(files', failed', h, old)
  <2>1. \A f : GroupOf(f) = h => f \notin DOMAIN new BY <1>9
  <2>2. ASSUME NEW f \in DOMAIN files' \cup failed', GroupOf(f) = h PROVE f \in DOMAIN old
    <3>1. f \notin DOMAIN new BY <2>1, <2>2
    <3>2. f \in DOMAIN files \cup failed BY <1>1, <1>4, <3>1
    <3> QED BY <1>9, <2>2, <3>2 DEF Saved
  <2>3. ASSUME NEW f \in DOMAIN old
        PROVE  /\ GroupOf(f) = h /\ f \in DOMAIN files' \cup failed'
               /\ f \in DOMAIN files' =>
                    files'[f] = IF f \in failed' THEN Cut(old[f]) ELSE old[f]
    <3>1. /\ GroupOf(f) = h /\ f \in DOMAIN files \cup failed
          /\ f \in DOMAIN files => files[f] = IF f \in failed THEN Cut(old[f]) ELSE old[f]
      BY <1>9 DEF Saved
    <3>2. f \notin DOMAIN new BY <2>1, <3>1
    <3>3. f \in failed' <=> f \in failed BY <1>1, <3>2
    <3>4. f \in DOMAIN files' <=> f \in DOMAIN files BY <1>1, <1>4, <3>2
    <3>5. f \in DOMAIN files' => files'[f] = files[f] BY <1>1, <1>4, <3>2
    <3> QED BY <3>1, <3>3, <3>4, <3>5
  <2> QED BY <2>2, <2>3 DEF Saved
<1>10. \A f \in DOMAIN files' : f \in DOMAIN files \/ GroupOf(f) = g BY <1>1, <1>4
<1> QED BY <1>2, <1>8, <1>9, <1>10

(* The stages before the files of a group are written. *)
Early == {"prepare", "exit", "collect", "whole"}
Await == [v2ray |-> Early \cup {"batches"}, sni |-> Early \cup {"batches", "sni batches"}]
AwaitTcp == Early \cup {"batches", "sni batches", "tcp"}

HasBatches(v) == \E p \in Orders(out[v]["all"].lines), q \in Orders(out[v]["all"].entries) :
                   Saved(files, failed, v, BatchFiles(v, p, q))

FileInv ==
  /\ IsFiniteSet(failed)
  /\ stage = "prepare" => failed = {}
  /\ stage \in Early \ {"whole"} \/ pos > Len(in.results)
  /\ stage # "prepare" =>
       /\ Saved(files, failed, "whole", IF stage \in Early THEN << >> ELSE Whole)
       /\ \A v \in Variants : IF stage \in Await[v] THEN Saved(files, failed, v, << >>)
                              ELSE HasBatches(v)
       /\ Saved(files, failed, "tcp", IF stage \in AwaitTcp THEN << >> ELSE TcpFiles)
       /\ \A f \in DOMAIN files : GroupOf(f) \in {"whole", "tcp"} \cup Variants

LEMMA SameContents ==
  ASSUME in' = in, out' = out
  PROVE  /\ Whole' = Whole /\ TcpFiles' = TcpFiles
         /\ \A v, p, q : BatchFiles(v, p, q)' = BatchFiles(v, p, q)
<1>1. Whole' = Whole BY DEF Whole
<1>2. TcpFiles' = TcpFiles BY DEF TcpFiles, TcpLines
<1>3. \A v, p, q : BatchFiles(v, p, q)' = BatchFiles(v, p, q) BY DEF BatchFiles
<1> QED BY <1>1, <1>2, <1>3

LEMMA SameBatches ==
  ASSUME out' = out, in' = in, NEW v,
         \A old : Saved(files, failed, v, old) => Saved(files', failed', v, old)
  PROVE  HasBatches(v) => HasBatches(v)'
<1>1. \A w, p, q : BatchFiles(w, p, q)' = BatchFiles(w, p, q) BY SameContents
<1> QED BY <1>1 DEF HasBatches

LEMMA Groups ==
  /\ \A f \in DOMAIN Whole : GroupOf(f) = "whole"
  /\ \A v \in Variants : \A p, q : \A f \in DOMAIN BatchFiles(v, p, q) : GroupOf(f) = v
  /\ \A f \in DOMAIN TcpFiles : GroupOf(f) = "tcp"
  /\ Variants = {"v2ray", "sni"}
<1>1. "batch" \notin Sections /\ "tcp" \notin Sections BY Constants DEF Sections
<1>2. ASSUME NEW f \in DOMAIN Whole PROVE GroupOf(f) = "whole"
  <2>1. f.s \in Sections BY PathParts DEF Whole
  <2> QED BY <1>1, <2>1 DEF GroupOf
<1>3. ASSUME NEW v \in Variants, NEW p, NEW q, NEW f \in DOMAIN BatchFiles(v, p, q)
      PROVE  GroupOf(f) = v
  <2>1. f.s = "batch" /\ f.v = v BY PathParts DEF BatchFiles
  <2> QED BY <2>1 DEF GroupOf
<1>4. ASSUME NEW f \in DOMAIN TcpFiles PROVE GroupOf(f) = "tcp"
  <2>1. f.s = "tcp" BY PathParts DEF TcpFiles
  <2> QED BY <2>1 DEF GroupOf
<1> QED BY <1>2, <1>3, <1>4 DEF Variants

LEMMA FileInit == Init => FileInv
<1>1. IsFiniteSet({}) BY FS_EmptySet
<1> QED BY <1>1 DEF Init, FileInv, Early

LEMMA PrepareStep == FileInv /\ Prepare => FileInv'
<1> SUFFICES ASSUME FileInv, Prepare PROVE FileInv' OBVIOUS
<1>1. /\ files' = << >> /\ failed' = {} /\ stage' \in {"collect", "exit"}
      /\ IsFiniteSet(failed')
  BY DEF FileInv, Prepare, Cleared
<1>2. DOMAIN << >> = {} BY EmptySeq, LenProperties
<1>3. \A g : Saved(files', failed', g, << >>) BY <1>1, <1>2 DEF Saved
<1>4. /\ stage' \in Early /\ stage' # "whole" /\ stage' # "prepare" /\ stage' \in AwaitTcp
      /\ stage' \in Await["v2ray"] /\ stage' \in Await["sni"]
  BY <1>1 DEF Early, Await, AwaitTcp
<1>5. \A v \in Variants : stage' \in Await[v] BY <1>4, Groups
<1> QED BY <1>1, <1>3, <1>4, <1>5 DEF FileInv

LEMMA CollectFiles == FileInv /\ (Collect \/ EndCollect) => FileInv'
<1> SUFFICES ASSUME FileInv, Collect \/ EndCollect PROVE FileInv' OBVIOUS
<1>1. /\ files' = files /\ failed' = failed /\ stage = "collect"
      /\ \/ stage' = "collect"
         \/ stage' = "whole" /\ pos' > Len(in.results)' 
  BY DEF Collect, EndCollect
<1>2. /\ {stage, stage'} \subseteq Early \cap AwaitTcp
      /\ {stage, stage'} \subseteq Await["v2ray"] /\ {stage, stage'} \subseteq Await["sni"]
      /\ stage # "prepare" /\ stage' # "prepare"
  BY <1>1 DEF Early, Await, AwaitTcp
<1>3. \A v \in Variants : {stage, stage'} \subseteq Await[v] BY <1>2, Groups
<1> QED BY <1>1, <1>2, <1>3 DEF FileInv, Early

LEMMA WriteWholeStep == FileInv /\ WriteWhole => FileInv'
<1> SUFFICES ASSUME FileInv, WriteWhole PROVE FileInv' OBVIOUS
<1>1. /\ stage = "whole" /\ stage' = "batches" /\ Write(Whole)
      /\ in' = in /\ out' = out /\ pos' = pos
  BY DEF WriteWhole
<1>2. /\ stage \in Early /\ stage \in AwaitTcp /\ stage # "prepare"
      /\ stage' \notin Early /\ stage' \in AwaitTcp
      /\ \A v \in Variants : stage \in Await[v] /\ stage' \in Await[v] /\ v # "whole"
      /\ "tcp" # "whole"
  BY <1>1, Groups DEF Early, Await, AwaitTcp
<1>3. /\ Saved(files, failed, "whole", << >>) /\ IsFiniteSet(failed)
      /\ Saved(files, failed, "tcp", << >>)
      /\ \A v \in Variants : Saved(files, failed, v, << >>)
      /\ pos > Len(in.results)
      /\ \A f \in DOMAIN files : GroupOf(f) \in {"whole", "tcp"} \cup Variants
  BY <1>1, <1>2 DEF FileInv
<1>4. /\ Saved(files', failed', "whole", Whole) /\ IsFiniteSet(failed')
      /\ \A h, old : h # "whole" /\ Saved(files, failed, h, old) => Saved(files', failed', h, old)
      /\ \A f \in DOMAIN files' : GroupOf(f) \in {"whole", "tcp"} \cup Variants
  BY <1>1, <1>3, Groups, WriteSaves
<1>5. Whole' = Whole BY <1>1, SameContents
<1> QED BY <1>1, <1>2, <1>3, <1>4, <1>5 DEF FileInv

LEMMA WriteTcpStep == FileInv /\ WriteTcpPass => FileInv'
<1> SUFFICES ASSUME FileInv, WriteTcpPass PROVE FileInv' OBVIOUS
<1>1. /\ stage = "tcp" /\ stage' = "summary" /\ Write(TcpFiles)
      /\ in' = in /\ out' = out /\ pos' = pos
  BY DEF WriteTcpPass
<1>2. /\ stage \notin Early /\ stage \in AwaitTcp /\ stage # "prepare"
      /\ stage' \notin Early /\ stage' \notin AwaitTcp /\ stage' # "prepare"
      /\ \A v \in Variants : stage \notin Await[v] /\ stage' \notin Await[v] /\ v # "tcp"
      /\ "tcp" # "whole"
  BY <1>1, Groups DEF Early, Await, AwaitTcp
<1>3. /\ Saved(files, failed, "whole", Whole) /\ IsFiniteSet(failed)
      /\ Saved(files, failed, "tcp", << >>)
      /\ \A v \in Variants : HasBatches(v)
      /\ pos > Len(in.results)
      /\ \A f \in DOMAIN files : GroupOf(f) \in {"whole", "tcp"} \cup Variants
  BY <1>1, <1>2 DEF FileInv
<1>4. /\ Saved(files', failed', "tcp", TcpFiles) /\ IsFiniteSet(failed')
      /\ \A h, old : h # "tcp" /\ Saved(files, failed, h, old) => Saved(files', failed', h, old)
      /\ \A f \in DOMAIN files' : GroupOf(f) \in {"whole", "tcp"} \cup Variants
  BY <1>1, <1>3, Groups, WriteSaves
<1>5. Whole' = Whole /\ TcpFiles' = TcpFiles BY <1>1, SameContents
<1>6. \A v \in Variants : HasBatches(v)' BY <1>1, <1>2, <1>3, <1>4, SameBatches
<1>7. Saved(files', failed', "whole", Whole) BY <1>2, <1>3, <1>4
<1> QED BY <1>1, <1>2, <1>3, <1>4, <1>5, <1>6, <1>7 DEF FileInv

LEMMA WriteV2rayStep == FileInv /\ WriteBatches("v2ray", "batches", "sni batches") => FileInv'
<1> SUFFICES ASSUME FileInv, WriteBatches("v2ray", "batches", "sni batches") PROVE FileInv'
  OBVIOUS
<1>1. /\ stage = "batches" /\ stage' = "sni batches"
      /\ in' = in /\ out' = out /\ pos' = pos
  BY DEF WriteBatches
<1>2. PICK p \in Orders(out["v2ray"]["all"].lines), q \in Orders(out["v2ray"]["all"].entries) :
        Write(BatchFiles("v2ray", p, q))
  BY DEF WriteBatches
<1>3. /\ stage \notin Early /\ stage \in AwaitTcp /\ stage # "prepare"
      /\ stage' \notin Early /\ stage' \in AwaitTcp /\ stage' # "prepare"
      /\ stage \in Await["v2ray"] /\ stage' \notin Await["v2ray"]
      /\ stage \in Await["sni"] /\ stage' \in Await["sni"]
      /\ "v2ray" \in Variants /\ "sni" \in Variants
      /\ "sni" # "v2ray" /\ "tcp" # "v2ray" /\ "whole" # "v2ray"
  BY <1>1, Groups DEF Early, Await, AwaitTcp
<1>4. /\ Saved(files, failed, "whole", Whole) /\ IsFiniteSet(failed)
      /\ Saved(files, failed, "tcp", << >>)
      /\ Saved(files, failed, "v2ray", << >>) /\ Saved(files, failed, "sni", << >>)
      /\ pos > Len(in.results)
      /\ \A f \in DOMAIN files : GroupOf(f) \in {"whole", "tcp"} \cup Variants
  BY <1>1, <1>3 DEF FileInv
<1>5. \A f \in DOMAIN BatchFiles("v2ray", p, q) : GroupOf(f) = "v2ray" BY <1>3, Groups
<1>6. /\ Saved(files', failed', "v2ray", BatchFiles("v2ray", p, q)) /\ IsFiniteSet(failed')
      /\ \A h, old : h # "v2ray" /\ Saved(files, failed, h, old) => Saved(files', failed', h, old)
      /\ \A f \in DOMAIN files' : GroupOf(f) \in {"whole", "tcp"} \cup Variants
  BY <1>2, <1>3, <1>4, <1>5, WriteSaves
<1>7. Whole' = Whole /\ BatchFiles("v2ray", p, q)' = BatchFiles("v2ray", p, q)
  BY <1>1, SameContents
<1>8. HasBatches("v2ray")' BY <1>1, <1>6, <1>7 DEF HasBatches
<1>9. /\ Saved(files', failed', "whole", Whole) /\ Saved(files', failed', "sni", << >>)
      /\ Saved(files', failed', "tcp", << >>)
  BY <1>3, <1>4, <1>6
<1>10. \A v \in Variants : v = "v2ray" \/ v = "sni" BY Groups
<1> QED BY <1>1, <1>3, <1>4, <1>6, <1>7, <1>8, <1>9, <1>10 DEF FileInv

LEMMA WriteSniStep == FileInv /\ WriteBatches("sni", "sni batches", "tcp") => FileInv'
<1> SUFFICES ASSUME FileInv, WriteBatches("sni", "sni batches", "tcp") PROVE FileInv'
  OBVIOUS
<1>1. /\ stage = "sni batches" /\ stage' = "tcp"
      /\ in' = in /\ out' = out /\ pos' = pos
  BY DEF WriteBatches
<1>2. PICK p \in Orders(out["sni"]["all"].lines), q \in Orders(out["sni"]["all"].entries) :
        Write(BatchFiles("sni", p, q))
  BY DEF WriteBatches
<1>3. /\ stage \notin Early /\ stage \in AwaitTcp /\ stage # "prepare"
      /\ stage' \notin Early /\ stage' \in AwaitTcp /\ stage' # "prepare"
      /\ stage \notin Await["v2ray"] /\ stage' \notin Await["v2ray"]
      /\ stage \in Await["sni"] /\ stage' \notin Await["sni"]
      /\ "v2ray" \in Variants /\ "sni" \in Variants
      /\ "v2ray" # "sni" /\ "tcp" # "sni" /\ "whole" # "sni"
  BY <1>1, Groups DEF Early, Await, AwaitTcp
<1>4. /\ Saved(files, failed, "whole", Whole) /\ IsFiniteSet(failed)
      /\ Saved(files, failed, "tcp", << >>)
      /\ HasBatches("v2ray") /\ Saved(files, failed, "sni", << >>)
      /\ pos > Len(in.results)
      /\ \A f \in DOMAIN files : GroupOf(f) \in {"whole", "tcp"} \cup Variants
  BY <1>1, <1>3 DEF FileInv
<1>5. \A f \in DOMAIN BatchFiles("sni", p, q) : GroupOf(f) = "sni" BY <1>3, Groups
<1>6. /\ Saved(files', failed', "sni", BatchFiles("sni", p, q)) /\ IsFiniteSet(failed')
      /\ \A h, old : h # "sni" /\ Saved(files, failed, h, old) => Saved(files', failed', h, old)
      /\ \A f \in DOMAIN files' : GroupOf(f) \in {"whole", "tcp"} \cup Variants
  BY <1>2, <1>3, <1>4, <1>5, WriteSaves
<1>7. Whole' = Whole /\ BatchFiles("sni", p, q)' = BatchFiles("sni", p, q)
  BY <1>1, SameContents
<1>8. HasBatches("sni")' BY <1>1, <1>6, <1>7 DEF HasBatches
<1>9. /\ Saved(files', failed', "whole", Whole) /\ Saved(files', failed', "tcp", << >>)
      /\ HasBatches("v2ray")'
  BY <1>1, <1>3, <1>4, <1>6, SameBatches
<1>10. \A v \in Variants : v = "v2ray" \/ v = "sni" BY Groups
<1> QED BY <1>1, <1>3, <1>4, <1>6, <1>7, <1>8, <1>9, <1>10 DEF FileInv

(* The README's rows, and stuttering, leave the files alone. *)
LEMMA FileSame ==
  FileInv /\ UNCHANGED <<in, pos, out, files, failed>>
    /\ (stage' = stage \/ (stage = "summary" /\ stage' = "done")) => FileInv'
<1> SUFFICES ASSUME FileInv, UNCHANGED <<in, pos, out, files, failed>>,
                    stage' = stage \/ (stage = "summary" /\ stage' = "done")
             PROVE  FileInv'
  OBVIOUS
<1>1. in' = in /\ pos' = pos /\ out' = out /\ files' = files /\ failed' = failed OBVIOUS
<1>2. /\ stage' \in Early <=> stage \in Early
      /\ stage' \in Early \ {"whole"} <=> stage \in Early \ {"whole"}
      /\ stage' = "prepare" <=> stage = "prepare"
      /\ stage' \in AwaitTcp <=> stage \in AwaitTcp
      /\ stage' \in Await["v2ray"] <=> stage \in Await["v2ray"]
      /\ stage' \in Await["sni"] <=> stage \in Await["sni"]
  BY DEF Early, Await, AwaitTcp
<1>5. \A v \in Variants : stage' \in Await[v] <=> stage \in Await[v] BY <1>2, Groups
<1>3. Whole' = Whole /\ TcpFiles' = TcpFiles BY <1>1, SameContents
<1>4. \A v \in Variants : HasBatches(v) => HasBatches(v)' BY <1>1, SameBatches
<1> QED BY <1>1, <1>2, <1>3, <1>4, <1>5 DEF FileInv

-----------------------------------------------------------------------------
RowInv == rows = IF stage = "done" THEN SummaryRows ELSE {}

WriterInv == ListInv /\ FileInv /\ RowInv

LEMMA WriterNext == WriterInv /\ [Next]_vars => WriterInv'
<1> SUFFICES ASSUME WriterInv, [Next]_vars PROVE WriterInv' OBVIOUS
<1>0. ListInv /\ FileInv /\ RowInv BY DEF WriterInv
<1>1. CASE Prepare
  <2>1. ListInv' BY <1>0, <1>1, ListSame DEF Prepare
  <2>2. RowInv' BY <1>0, <1>1 DEF Prepare, RowInv
  <2> QED BY <1>0, <1>1, <2>1, <2>2, PrepareStep DEF WriterInv
<1>2. CASE Collect
  <2>1. RowInv' BY <1>0, <1>2 DEF Collect, RowInv
  <2> QED BY <1>0, <1>2, <2>1, CollectStep, CollectFiles DEF WriterInv
<1>3. CASE EndCollect
  <2>1. ListInv' BY <1>0, <1>3, ListSame DEF EndCollect
  <2>2. RowInv' BY <1>0, <1>3 DEF EndCollect, RowInv
  <2> QED BY <1>0, <1>3, <2>1, <2>2, CollectFiles DEF WriterInv
<1>4. CASE WriteWhole
  <2>1. ListInv' BY <1>0, <1>4, ListSame DEF WriteWhole
  <2>2. RowInv' BY <1>0, <1>4 DEF WriteWhole, RowInv
  <2> QED BY <1>0, <1>4, <2>1, <2>2, WriteWholeStep DEF WriterInv
<1>5. CASE WriteBatches("v2ray", "batches", "sni batches")
  <2>1. ListInv' BY <1>0, <1>5, ListSame DEF WriteBatches
  <2>2. RowInv' BY <1>0, <1>5 DEF WriteBatches, RowInv
  <2> QED BY <1>0, <1>5, <2>1, <2>2, WriteV2rayStep DEF WriterInv
<1>6. CASE WriteBatches("sni", "sni batches", "tcp")
  <2>1. ListInv' BY <1>0, <1>6, ListSame DEF WriteBatches
  <2>2. RowInv' BY <1>0, <1>6 DEF WriteBatches, RowInv
  <2> QED BY <1>0, <1>6, <2>1, <2>2, WriteSniStep DEF WriterInv
<1>7. CASE WriteTcpPass
  <2>1. ListInv' BY <1>0, <1>7, ListSame DEF WriteTcpPass
  <2>2. RowInv' BY <1>0, <1>7 DEF WriteTcpPass, RowInv
  <2> QED BY <1>0, <1>7, <2>1, <2>2, WriteTcpStep DEF WriterInv
<1>8. CASE Summary
  <2>1. ListInv' BY <1>0, <1>8, ListSame DEF Summary
  <2>2. SummaryRows' = SummaryRows
    BY <1>8 DEF Summary, SummaryRows, AllRows, ProtoRows, BatchRows, TcpRows,
                CountBatchFiles, Total, PerProto, Min500
  <2>3. RowInv' BY <1>8, <2>2 DEF Summary, RowInv
  <2>4. FileInv' BY <1>0, <1>8, FileSame DEF Summary
  <2> QED BY <2>1, <2>3, <2>4 DEF WriterInv
<1>9. CASE UNCHANGED vars
  <2>1. ListInv' BY <1>0, <1>9, ListSame DEF vars
  <2>2. SummaryRows' = SummaryRows
    BY <1>9 DEF vars, SummaryRows, AllRows, ProtoRows, BatchRows, TcpRows,
                CountBatchFiles, Total, PerProto, Min500
  <2>3. stage' = stage /\ rows' = rows /\ UNCHANGED <<in, pos, out, files, failed>>
    BY <1>9 DEF vars
  <2>4. RowInv' BY <1>0, <2>2, <2>3 DEF RowInv
  <2>5. FileInv'
    <3>1. FileInv /\ UNCHANGED <<in, pos, out, files, failed>>
            /\ (stage' = stage \/ (stage = "summary" /\ stage' = "done"))
      BY <1>0, <2>3
    <3> QED BY <3>1, FileSame, Zenon
  <2> QED BY <2>1, <2>4, <2>5 DEF WriterInv
<1> QED
  BY <1>1, <1>2, <1>3, <1>4, <1>5, <1>6, <1>7, <1>8, <1>9 DEF Next, Ended

(* The lists stay in step, and every file is one the stages so far wrote.  *)
THEOREM WriterInvariant == Spec => []WriterInv
<1>1. Init => WriterInv
  <2>1. Init => RowInv BY DEF Init, RowInv
  <2> QED BY <2>1, ListInit, FileInit DEF WriterInv
<1> QED BY <1>1, WriterNext, PTL DEF Spec

-----------------------------------------------------------------------------
(* What a file on disk is. *)
WrittenAs(f, new) == /\ f \in DOMAIN new
                    /\ files[f] = IF f \in failed THEN Cut(new[f]) ELSE new[f]

LEMMA OnDisk ==
  ASSUME FileInv, stage # "prepare", NEW f \in DOMAIN files
  PROVE  \/ WrittenAs(f, Whole)
         \/ /\ f.s = "batch" /\ f.v \in Variants
            /\ \E p \in Orders(out[f.v]["all"].lines), q \in Orders(out[f.v]["all"].entries) :
                 WrittenAs(f, BatchFiles(f.v, p, q))
         \/ WrittenAs(f, TcpFiles)
<1>1. DOMAIN << >> = {} BY EmptySeq, LenProperties
<1>2. \A g, new : Saved(files, failed, g, new) /\ GroupOf(f) = g => WrittenAs(f, new)
  BY DEF Saved, WrittenAs
<1>3. \A new : WrittenAs(f, new) => new # << >> BY <1>1 DEF WrittenAs
<1>4. CASE GroupOf(f) = "whole"
  <2>1. Saved(files, failed, "whole", IF stage \in Early THEN << >> ELSE Whole) BY DEF FileInv
  <2>2. WrittenAs(f, IF stage \in Early THEN << >> ELSE Whole) BY <1>2, <1>4, <2>1
  <2> QED BY <1>3, <2>2
<1>5. CASE GroupOf(f) = "tcp"
  <2>1. Saved(files, failed, "tcp", IF stage \in AwaitTcp THEN << >> ELSE TcpFiles) BY DEF FileInv
  <2>2. WrittenAs(f, IF stage \in AwaitTcp THEN << >> ELSE TcpFiles) BY <1>2, <1>5, <2>1
  <2> QED BY <1>3, <2>2
<1>6. CASE GroupOf(f) \in Variants
  <2>1. f.s = "batch" /\ f.v \in Variants /\ GroupOf(f) = f.v BY <1>6, Groups DEF GroupOf
  <2>2. IF stage \in Await[f.v] THEN Saved(files, failed, f.v, << >>) ELSE HasBatches(f.v)
    BY <2>1 DEF FileInv
  <2>3. ~Saved(files, failed, f.v, << >>)
    <3> SUFFICES ASSUME Saved(files, failed, f.v, << >>) PROVE FALSE OBVIOUS
    <3>1. WrittenAs(f, << >>) BY <1>2, <2>1
    <3> QED BY <1>3, <3>1
  <2>4. PICK p \in Orders(out[f.v]["all"].lines), q \in Orders(out[f.v]["all"].entries) :
          Saved(files, failed, f.v, BatchFiles(f.v, p, q))
    BY <2>2, <2>3 DEF HasBatches
  <2>5. WrittenAs(f, BatchFiles(f.v, p, q)) BY <1>2, <2>1, <2>4
  <2> QED BY <2>1, <2>5
<1> QED BY <1>4, <1>5, <1>6 DEF FileInv

LEMMA WholeIs ==
  ASSUME NEW f \in DOMAIN Whole
  PROVE  /\ f = Path(f.v, f.kind, f.s, 0) /\ f.v \in Variants /\ f.kind \in Kinds /\ f.s \in Sections
         /\ Whole[f] = Listed(out[f.v][f.s], f.kind)
<1> DEFINE paths == {Path(v, kind, s, 0) : v \in Variants, kind \in Kinds, s \in Sections}
<1>1. f \in paths /\ Whole[f] = Listed(out[f.v][f.s], f.kind) BY DEF Whole
<1>2. PICK v \in Variants, kind \in Kinds, s \in Sections : f = Path(v, kind, s, 0) BY <1>1
<1>3. f.v = v /\ f.kind = kind /\ f.s = s BY <1>2, PathParts
<1> QED BY <1>1, <1>2, <1>3

(* The list that a variant's batches of a kind are cut from. *)
Source(v, kind, p, q) == Shuffled(Listed(out[v]["all"], kind), IF kind = "lines" THEN p ELSE q)

LEMMA BatchIs ==
  ASSUME NEW v, NEW p, NEW q
  PROVE  /\ \A f : f \in DOMAIN BatchFiles(v, p, q) <=>
               \E kind \in Kinds :
                 \E k \in 1 .. NumBatches(Len(Source(v, kind, p, q).items), BatchSize) :
                   f = Path(v, kind, "batch", k)
         /\ \A f \in DOMAIN BatchFiles(v, p, q) :
              BatchFiles(v, p, q)[f] = Batch(Source(v, f.kind, p, q), f.k, BatchSize)
<1> DEFINE ps == UNION {{Path(v, kind, "batch", k) :
                          k \in 1 .. NumBatches(Len(Source(v, kind, p, q).items), BatchSize)} :
                        kind \in Kinds}
<1>1. BatchFiles(v, p, q) = [f \in ps |-> Batch(Source(v, f.kind, p, q), f.k, BatchSize)]
  BY DEF BatchFiles, Source
<1>2. \A f : f \in ps <=> \E kind \in Kinds :
                 \E k \in 1 .. NumBatches(Len(Source(v, kind, p, q).items), BatchSize) :
                   f = Path(v, kind, "batch", k)
  OBVIOUS
<1> HIDE DEF ps
<1> QED BY <1>1, <1>2

(* Clash files hold pairs, of names of their variant. *)
LEMMA ClashContent ==
  ASSUME ListInv, FileInv, stage # "prepare", NEW f \in DOMAIN files, f.kind # "lines"
  PROVE  /\ f.v \in Variants
         /\ \E items \in Seq(Items), names \in Seq(Nat), s \in Sections :
              /\ Paired(items, names) /\ Elements(names) \subseteq Elements(out[f.v][s].names)
              /\ files[f] = IF f \in failed THEN Cut(Content(items, names))
                            ELSE Content(items, names)
<1>0. \A v \in Variants, s \in Sections : /\ out[v][s].entries \in Seq(Items)
                                         /\ out[v][s].names \in Seq(Nat)
                                         /\ Paired(out[v][s].entries, out[v][s].names)
  BY DEF ListInv, InStep, Lists
<1>1. CASE WrittenAs(f, Whole)
  <2>1. /\ f.v \in Variants /\ f.s \in Sections
        /\ Whole[f] = Content(out[f.v][f.s].entries, out[f.v][f.s].names)
    BY <1>1, WholeIs DEF WrittenAs, Listed
  <2> QED BY <1>0, <1>1, <2>1 DEF WrittenAs
<1>2. CASE WrittenAs(f, TcpFiles)
  <2>1. f.kind = "lines" BY <1>2, PathParts DEF WrittenAs, TcpFiles
  <2> QED BY <2>1
<1>3. ASSUME f.v \in Variants, NEW p, NEW q \in Orders(out[f.v]["all"].entries),
             WrittenAs(f, BatchFiles(f.v, p, q))
      PROVE  \E items \in Seq(Items), names \in Seq(Nat), s \in Sections :
              /\ Paired(items, names) /\ Elements(names) \subseteq Elements(out[f.v][s].names)
              /\ files[f] = IF f \in failed THEN Cut(Content(items, names))
                            ELSE Content(items, names)
  <2> DEFINE E == out[f.v]["all"].entries
             M == out[f.v]["all"].names
             X == Shuffle(E, q)
             Y == Shuffle(M, q)
             I == Slice(X, f.k, BatchSize)
             J == Slice(Y, f.k, BatchSize)
  <2>1. "all" \in Sections BY DEF Sections
  <2>2. E \in Seq(Items) /\ M \in Seq(Nat) /\ Paired(E, M) BY <1>0, <1>3, <2>1
  <2>3. q \in Bijection(1 .. Len(E), 1 .. Len(E)) BY <2>2, LenProperties DEF Orders
  <2>4. /\ Source(f.v, f.kind, p, q).items = X
        /\ Source(f.v, f.kind, p, q) = Content(X, Y)
    BY DEF Source, Listed, Shuffled, Content
  <2>5. Len(M) = Len(E) BY <2>2 DEF Paired
  <2> HIDE DEF E, M
  <2>6. Paired(X, Y) BY <2>2, <2>3, PairedShuffle
  <2>7. X \in Seq(Items) BY <2>2, <2>3, ShuffleIs
  <2>8. Y \in Seq(Nat) /\ Elements(Y) = Elements(M) BY <2>2, <2>3, <2>5, ShuffleIs
  <2>9. f.k \in 1 .. NumBatches(Len(X), BatchSize)
    <3>1. PICK kind \in Kinds :
            \E k \in 1 .. NumBatches(Len(Source(f.v, kind, p, q).items), BatchSize) :
              f = Path(f.v, kind, "batch", k)
      BY <1>3, BatchIs DEF WrittenAs
    <3>2. PICK k \in 1 .. NumBatches(Len(Source(f.v, kind, p, q).items), BatchSize) :
              f = Path(f.v, kind, "batch", k)
      BY <3>1
    <3>3. f.k = k /\ f.kind = kind BY <3>2, PathParts
    <3> QED BY <2>4, <3>2, <3>3
  <2>10. BatchFiles(f.v, p, q)[f] = Content(I, J)
    <3>1. BatchFiles(f.v, p, q)[f] = Batch(Source(f.v, f.kind, p, q), f.k, BatchSize)
      BY <1>3, BatchIs DEF WrittenAs
    <3> QED BY <2>4, <3>1 DEF Batch, Content
  <2> HIDE DEF X, Y
  <2>11. Len(Y) = Len(X) BY <2>6 DEF Paired
  <2>12. BatchSize \in Nat \ {0} BY Constants
  <2>13. Paired(I, J) BY <2>6, <2>7, <2>8, <2>9, <2>12, PairedSlice
  <2>14. I \in Seq(Items) BY <2>7, <2>9, <2>12, SliceIs
  <2>15. J \in Seq(Nat) /\ Elements(J) = At(Y, f.k, BatchSize)
    <3>1. f.k \in 1 .. NumBatches(Len(Y), BatchSize) BY <2>9, <2>11
    <3>2. J \in Seq(Nat) BY <2>8, <2>12, <3>1, SliceIs
    <3>3. Elements(J) = At(Y, f.k, BatchSize) BY <2>8, <2>12, <3>1, SliceIs
    <3> QED BY <3>2, <3>3
  <2>16. At(Y, f.k, BatchSize) \subseteq Elements(Y) BY DEF At, Piece, Elements
  <2>17. Elements(J) \subseteq Elements(out[f.v]["all"].names) BY <2>8, <2>15, <2>16 DEF M
  <2>18. files[f] = IF f \in failed THEN Cut(Content(I, J)) ELSE Content(I, J)
    BY <1>3, <2>10 DEF WrittenAs
  <2> HIDE DEF I, J
  <2> QED BY <2>1, <2>13, <2>14, <2>15, <2>17, <2>18
<1> QED BY <1>1, <1>2, <1>3, OnDisk

LEMMA ClashFiles == ListInv /\ FileInv => ClashFilesValid
<1> SUFFICES ASSUME ListInv, FileInv, stage # "prepare" PROVE ClashFilesValid
  BY DEF ClashFilesValid
<1>1. ASSUME NEW f \in DOMAIN files \ failed, f.kind # "lines"
      PROVE  /\ files[f].names = [k \in DOMAIN files[f].items |-> files[f].items[k].name]
             /\ IsInjective(files[f].names)
  <2>1. PICK items \in Seq(Items), names \in Seq(Nat) :
          Paired(items, names) /\ files[f] = Content(items, names)
    BY <1>1, ClashContent
  <2>2. files[f].items = items /\ files[f].names = names BY <2>1 DEF Content
  <2> QED BY <2>1, <2>2, PairedValid
<1>2. ASSUME NEW f \in DOMAIN files, f.kind # "lines"
      PROVE  /\ f.v \in Variants
             /\ \E s \in Sections : ToSet(files[f].names) \subseteq Elements(out[f.v][s].names)
  <2>1. /\ f.v \in Variants
        /\ \E items \in Seq(Items), names \in Seq(Nat), s \in Sections :
              /\ Paired(items, names) /\ Elements(names) \subseteq Elements(out[f.v][s].names)
              /\ files[f] = IF f \in failed THEN Cut(Content(items, names))
                            ELSE Content(items, names)
    BY <1>2, ClashContent
  <2>2. PICK items \in Seq(Items), names \in Seq(Nat), s \in Sections :
              /\ Elements(names) \subseteq Elements(out[f.v][s].names)
              /\ files[f] = IF f \in failed THEN Cut(Content(items, names))
                            ELSE Content(items, names)
    BY <2>1
  <2>3. files[f].names = names \/ files[f].names = << >> BY <2>2 DEF Cut, Content
  <2>4. ToSet(names) = Elements(names) BY ElementsToSet
  <2>5. ToSet(<< >>) = {}
    <3>1. << >> \in Seq(Nat) BY EmptySeq
    <3> QED BY <3>1, ElementsToSet, ElementsEmpty
  <2> QED BY <2>1, <2>2, <2>3, <2>4, <2>5
<1>3. ASSUME NEW f \in DOMAIN files, NEW g \in DOMAIN files, {f.kind, g.kind} = {"simple"},
             f.v # g.v
      PROVE  ToSet(files[f].names) \cap ToSet(files[g].names) = {}
  <2>1. f.kind # "lines" /\ g.kind # "lines" BY <1>3
  <2>2. PICK s \in Sections : ToSet(files[f].names) \subseteq Elements(out[f.v][s].names)
    BY <1>2, <2>1
  <2>3. PICK t \in Sections : ToSet(files[g].names) \subseteq Elements(out[g.v][t].names)
    BY <1>2, <2>1
  <2>4. \/ f.v = "v2ray" /\ g.v = "sni"
        \/ f.v = "sni" /\ g.v = "v2ray"
    BY <1>2, <1>3, <2>1, Groups
  <2>5. \A x, y \in Sections :
          Elements(out["v2ray"][x].names) \cap Elements(out["sni"][y].names) = {}
    BY DEF ListInv
  <2> QED BY <2>2, <2>3, <2>4, <2>5
<1> QED BY <1>1, <1>3 DEF ClashFilesValid

(* Every Clash file holds its proxies and their names in step, no name     *)
(* twice, and no name is in files of both variants.                        *)
THEOREM ClashFilesAreValid == Spec => []ClashFilesValid
<1>1. WriterInv => ClashFilesValid BY ClashFiles DEF WriterInv
<1> QED BY <1>1, WriterInvariant, PTL

-----------------------------------------------------------------------------
(* The batches on disk are laid out as above. *)
ListOf(v, kind) == IF kind = "lines" THEN out[v]["all"].lines ELSE out[v]["all"].entries

LEMMA SourceIs ==
  ASSUME ListInv, NEW v \in Variants, NEW kind \in Kinds,
         NEW p \in Orders(out[v]["all"].lines), NEW q \in Orders(out[v]["all"].entries)
  PROVE  LET L == Source(v, kind, p, q).items
         IN  /\ L \in Seq(Items) /\ Distinct(L)
             /\ Len(L) = Len(ListOf(v, kind)) /\ Elements(L) = ToSet(ListOf(v, kind))
<1> DEFINE D == ListOf(v, kind)
           o == IF kind = "lines" THEN p ELSE q
<1>1. "all" \in Sections BY DEF Sections
<1>2. InStep(out[v]["all"], gNameCount, FirstLines(pos - 1)) BY <1>1 DEF ListInv
<1>3. /\ out[v]["all"].lines \in Seq(Items) /\ Distinct(out[v]["all"].lines)
      /\ out[v]["all"].entries \in Seq(Items)
      /\ Paired(out[v]["all"].entries, out[v]["all"].names)
  BY <1>2 DEF InStep, Lists
<1>4. Distinct(out[v]["all"].entries) BY <1>3 DEF Paired, Distinct
<1>5. D \in Seq(Items) /\ Distinct(D) BY <1>3, <1>4 DEF ListOf
<1>6. /\ p \in Bijection(DOMAIN out[v]["all"].lines, DOMAIN out[v]["all"].lines)
      /\ q \in Bijection(DOMAIN out[v]["all"].entries, DOMAIN out[v]["all"].entries)
  BY DEF Orders
<1>7. o \in Bijection(DOMAIN D, DOMAIN D) BY <1>6 DEF ListOf
<1>8. o \in Bijection(1 .. Len(D), 1 .. Len(D)) BY <1>5, <1>7, LenProperties
<1>9. Source(v, kind, p, q).items = Shuffle(D, o)
  BY DEF Source, Listed, Shuffled, Content, ListOf
<1> HIDE DEF D, o
<1>10. /\ Shuffle(D, o) \in Seq(Items) /\ Distinct(Shuffle(D, o)) /\ Len(Shuffle(D, o)) = Len(D)
       /\ Elements(Shuffle(D, o)) = Elements(D)
  BY <1>5, <1>8, ShuffleIs
<1>11. ToSet(D) = Elements(D) BY <1>5, ElementsToSet
<1> QED BY <1>9, <1>10, <1>11 DEF D

LEMMA CutIs ==
  ASSUME NEW c, NEW k, NEW size
  PROVE  /\ Batch(c, k, size).items = Slice(c.items, k, size)
         /\ Cut(c).items = Half(c.items)
BY DEF Batch, Cut, Content, Half

LEMMA BatchesLaid ==
  ASSUME NEW v \in Variants, NEW kind \in Kinds, NEW p, NEW q,
         Saved(files, failed, v, BatchFiles(v, p, q))
  PROVE  Laid(BatchesOf(v, kind, "batch"), files, failed, v, kind, "batch",
              Source(v, kind, p, q).items, BatchSize)
<1> DEFINE fs == BatchesOf(v, kind, "batch")
           new == BatchFiles(v, p, q)
           c == Source(v, kind, p, q)
           N == 1 .. NumBatches(Len(c.items), BatchSize)
<1>1. ASSUME NEW f \in fs PROVE f \in {Path(v, kind, "batch", k) : k \in N}
  <2>1. f \in DOMAIN files /\ f.v = v /\ f.kind = kind /\ f.s = "batch" BY DEF BatchesOf
  <2>2. GroupOf(f) = v BY <2>1 DEF GroupOf
  <2>3. f \in DOMAIN new BY <2>1, <2>2 DEF Saved
  <2>4. PICK x \in Kinds :
          \E k \in 1 .. NumBatches(Len(Source(v, x, p, q).items), BatchSize) :
            f = Path(v, x, "batch", k)
    BY <2>3, BatchIs
  <2>5. PICK k \in 1 .. NumBatches(Len(Source(v, x, p, q).items), BatchSize) :
          f = Path(v, x, "batch", k)
    BY <2>4
  <2>6. x = kind BY <2>1, <2>5, PathParts
  <2> QED BY <2>5, <2>6
<1>2. ASSUME NEW k \in N
      PROVE  LET f == Path(v, kind, "batch", k)
             IN  /\ f \in fs \cup failed
                 /\ f \in fs => files[f].items = IF f \in failed THEN Half(Slice(c.items, k, BatchSize))
                                                 ELSE Slice(c.items, k, BatchSize)
  <2> DEFINE f == Path(v, kind, "batch", k)
  <2>1. f \in DOMAIN new BY BatchIs
  <2>2. f.v = v /\ f.kind = kind /\ f.s = "batch" /\ f.k = k BY PathParts
  <2> HIDE DEF f
  <2>3. new[f] = Batch(c, k, BatchSize) BY <2>1, <2>2, BatchIs
  <2>4. /\ f \in DOMAIN files \cup failed
        /\ f \in DOMAIN files => files[f] = IF f \in failed THEN Cut(new[f]) ELSE new[f]
    BY <2>1 DEF Saved
  <2>5. f \in DOMAIN files <=> f \in fs BY <2>2 DEF BatchesOf
  <2>6. new[f].items = Slice(c.items, k, BatchSize)
        /\ Cut(new[f]).items = Half(Slice(c.items, k, BatchSize))
    BY <2>3, CutIs
  <2>7. f \in fs => files[f].items = IF f \in failed THEN Half(Slice(c.items, k, BatchSize))
                                    ELSE Slice(c.items, k, BatchSize)
    BY <2>4, <2>5, <2>6
  <2> QED BY <2>4, <2>5, <2>7 DEF f
<1> HIDE DEF fs, new, c
<1>3. fs \subseteq {Path(v, kind, "batch", k) : k \in N} BY <1>1
<1>4. Laid(fs, files, failed, v, kind, "batch", c.items, BatchSize)
  BY <1>2, <1>3 DEF Laid
<1> QED BY <1>4 DEF fs, c

LEMMA TcpLinesIs ==
  ASSUME ListInv, NEW v \in Variants
  PROVE  /\ TcpLines(v) \in Seq(Items) /\ Distinct(TcpLines(v))
         /\ \A x \in Elements(TcpLines(v)) : x.of \in ToSet(in.tcp)
<1> DEFINE s == IF v = "sni" THEN Select(in.tcp, Sni) ELSE in.tcp
           t == TcpLines(v)
<1>1. in.tcp \in Seq(Lines) /\ Distinct(in.tcp) BY Given DEF ListInv
<1>2. s \in Seq(Lines) /\ Distinct(s) /\ Elements(s) \subseteq ToSet(in.tcp)
  <2>1. Elements(in.tcp) = ToSet(in.tcp) BY <1>1, ElementsToSet
  <2>2. /\ Select(in.tcp, Sni) \in Seq(Lines \cap Sni)
        /\ Elements(Select(in.tcp, Sni)) = Elements(in.tcp) \cap Sni
        /\ Distinct(Select(in.tcp, Sni))
    BY <1>1, SelectType, SelectElements
  <2>3. Select(in.tcp, Sni) \in Seq(Lines) BY <2>2, SeqMonotonic
  <2> QED BY <1>1, <2>1, <2>2, <2>3
<1>3. t = [k \in DOMAIN s |-> Item(s[k], Fixed)] BY DEF TcpLines
<1> HIDE DEF s, t
<1>4. Len(s) \in Nat /\ DOMAIN s = 1 .. Len(s) /\ \A k \in 1 .. Len(s) : s[k] \in Lines
  BY <1>2, LenProperties, ElementOfSeq
<1>5. \A line \in Lines : Item(line, Fixed) \in Items /\ Item(line, Fixed).of = line
  BY DEF Item, Items, Fixed
<1>6. t \in [1 .. Len(s) -> Items] /\ \A k \in 1 .. Len(s) : t[k].of = s[k]
  BY <1>3, <1>4, <1>5
<1>7. t \in Seq(Items) BY <1>4, <1>6, SeqDef
<1>8. Len(t) = Len(s)
  <2>1. DOMAIN t = 1 .. Len(s) /\ DOMAIN t = 1 .. Len(t) /\ Len(t) \in Nat
    BY <1>6, <1>7, LenProperties
  <2> QED BY <1>4, <1>6, <1>7, <2>1, LenProperties
<1>9. Distinct(t)
  <2> SUFFICES ASSUME NEW a \in 1 .. Len(s), NEW b \in 1 .. Len(s), t[a] = t[b] PROVE a = b
    BY <1>8 DEF Distinct
  <2>1. s[a] = s[b] BY <1>6
  <2> QED BY <1>2, <2>1 DEF Distinct
<1>10. \A x \in Elements(t) : x.of \in Elements(s) BY <1>6, <1>8 DEF Elements
<1> QED BY <1>2, <1>7, <1>9, <1>10 DEF t

LEMMA TcpIs ==
  /\ \A f : f \in DOMAIN TcpFiles <=>
        \E v \in Variants : \E k \in 1 .. NumBatches(Len(TcpLines(v)), TcpBatchSize) :
          f = Path(v, "lines", "tcp", k)
  /\ \A f \in DOMAIN TcpFiles :
        TcpFiles[f] = Batch(Content(TcpLines(f.v), << >>), f.k, TcpBatchSize)
<1> DEFINE ps == UNION {{Path(v, "lines", "tcp", k) :
                         k \in 1 .. NumBatches(Len(TcpLines(v)), TcpBatchSize)} : v \in Variants}
<1>1. TcpFiles = [f \in ps |-> Batch(Content(TcpLines(f.v), << >>), f.k, TcpBatchSize)]
  BY DEF TcpFiles
<1>2. \A f : f \in ps <=>
        \E v \in Variants : \E k \in 1 .. NumBatches(Len(TcpLines(v)), TcpBatchSize) :
          f = Path(v, "lines", "tcp", k)
  OBVIOUS
<1> HIDE DEF ps
<1> QED BY <1>1, <1>2

LEMMA TcpLaid ==
  ASSUME NEW v \in Variants, Saved(files, failed, "tcp", TcpFiles)
  PROVE  Laid(BatchesOf(v, "lines", "tcp"), files, failed, v, "lines", "tcp",
              TcpLines(v), TcpBatchSize)
<1> DEFINE fs == BatchesOf(v, "lines", "tcp")
           L == TcpLines(v)
           N == 1 .. NumBatches(Len(L), TcpBatchSize)
<1>1. ASSUME NEW f \in fs PROVE f \in {Path(v, "lines", "tcp", k) : k \in N}
  <2>1. f \in DOMAIN files /\ f.v = v /\ f.kind = "lines" /\ f.s = "tcp" BY DEF BatchesOf
  <2>2. GroupOf(f) = "tcp" BY <2>1 DEF GroupOf
  <2>3. f \in DOMAIN TcpFiles BY <2>1, <2>2 DEF Saved
  <2>4. PICK x \in Variants :
          \E k \in 1 .. NumBatches(Len(TcpLines(x)), TcpBatchSize) : f = Path(x, "lines", "tcp", k)
    BY <2>3, TcpIs
  <2>5. PICK k \in 1 .. NumBatches(Len(TcpLines(x)), TcpBatchSize) : f = Path(x, "lines", "tcp", k)
    BY <2>4
  <2>6. x = v BY <2>1, <2>5, PathParts
  <2> QED BY <2>5, <2>6
<1>2. ASSUME NEW k \in N
      PROVE  LET f == Path(v, "lines", "tcp", k)
             IN  /\ f \in fs \cup failed
                 /\ f \in fs => files[f].items = IF f \in failed THEN Half(Slice(L, k, TcpBatchSize))
                                                 ELSE Slice(L, k, TcpBatchSize)
  <2> DEFINE f == Path(v, "lines", "tcp", k)
             c == Content(L, << >>)
  <2>1. f \in DOMAIN TcpFiles BY TcpIs
  <2>2. f.v = v /\ f.kind = "lines" /\ f.s = "tcp" /\ f.k = k BY PathParts
  <2> HIDE DEF f
  <2>3. TcpFiles[f] = Batch(c, k, TcpBatchSize) BY <2>1, <2>2, TcpIs
  <2>4. /\ f \in DOMAIN files \cup failed
        /\ f \in DOMAIN files =>
             files[f] = IF f \in failed THEN Cut(TcpFiles[f]) ELSE TcpFiles[f]
    BY <2>1 DEF Saved
  <2>5. f \in DOMAIN files <=> f \in fs BY <2>2 DEF BatchesOf
  <2>6. TcpFiles[f].items = Slice(L, k, TcpBatchSize)
        /\ Cut(TcpFiles[f]).items = Half(Slice(L, k, TcpBatchSize))
    <3>1. c.items = L BY DEF Content
    <3> HIDE DEF c
    <3>2. TcpFiles[f].items = Slice(L, k, TcpBatchSize) BY <2>3, <3>1, CutIs
    <3>3. Cut(TcpFiles[f]).items = Half(TcpFiles[f].items) BY CutIs
    <3> QED BY <3>2, <3>3
  <2>7. f \in fs => files[f].items = IF f \in failed THEN Half(Slice(L, k, TcpBatchSize))
                                    ELSE Slice(L, k, TcpBatchSize)
    BY <2>4, <2>5, <2>6
  <2> QED BY <2>4, <2>5, <2>7 DEF f
<1> HIDE DEF fs, L
<1>3. fs \subseteq {Path(v, "lines", "tcp", k) : k \in N} BY <1>1
<1>4. Laid(fs, files, failed, v, "lines", "tcp", L, TcpBatchSize)
  BY <1>2, <1>3 DEF Laid
<1> QED BY <1>4 DEF fs, L

LEMMA HeldIs == \A fs : Held(fs) = HeldBy(files, fs)
BY DEF Held, HeldBy

(* At the end all files have been written. *)
LEMMA AtEnd ==
  ASSUME FileInv, stage \in {"summary", "done"}
  PROVE  /\ IsFiniteSet(failed) /\ pos > Len(in.results)
         /\ Saved(files, failed, "whole", Whole) /\ Saved(files, failed, "tcp", TcpFiles)
         /\ \A v \in Variants : HasBatches(v)
<1>1. /\ stage # "prepare" /\ stage \notin Early /\ stage \notin AwaitTcp
      /\ stage \notin Await["v2ray"] /\ stage \notin Await["sni"]
  BY DEF Early, Await, AwaitTcp
<1>2. \A v \in Variants : stage \notin Await[v] BY <1>1, Groups
<1> QED BY <1>1, <1>2 DEF FileInv

LEMMA Partition == ListInv /\ FileInv => BatchesPartition
<1> SUFFICES ASSUME ListInv, FileInv, stage \in {"summary", "done"},
                    NEW v \in Variants, NEW kind \in Kinds
             PROVE  LET batches == BatchesOf(v, kind, "batch")
                        items == IF kind = "lines" THEN out[v]["all"].lines
                                 ELSE out[v]["all"].entries
                    IN  /\ \A f \in batches \ failed : Len(files[f].items) \in 1 .. BatchSize
                        /\ \A f, g \in batches : f # g => Held({f}) \cap Held({g}) = {}
                        /\ Held(batches) \subseteq ToSet(items)
                        /\ \A f \in batches : \A k \in 1 .. f.k :
                             [f EXCEPT !.k = k] \in batches \cup failed
                        /\ Len(items) - Written(batches) <= BatchSize * Cardinality(failed)
                        /\ failed = {} =>
                             /\ Complete(batches, items)
                             /\ kind = "lines" => Complete(BatchesOf(v, kind, "tcp"), TcpLines(v))
  BY DEF BatchesPartition
<1> DEFINE B == BatchesOf(v, kind, "batch")
           D == ListOf(v, kind)
<1>1. /\ IsFiniteSet(failed) /\ Saved(files, failed, "tcp", TcpFiles) /\ HasBatches(v)
  BY AtEnd
<1>2. PICK p \in Orders(out[v]["all"].lines), q \in Orders(out[v]["all"].entries) :
        Saved(files, failed, v, BatchFiles(v, p, q))
  BY <1>1 DEF HasBatches
<1> DEFINE L == Source(v, kind, p, q).items
<1>3. L \in Seq(Items) /\ Distinct(L) /\ Len(L) = Len(D) /\ Elements(L) = ToSet(D)
  BY <1>2, SourceIs
<1>4. Laid(B, files, failed, v, kind, "batch", L, BatchSize) BY <1>2, BatchesLaid
<1>5. BatchSize \in Nat \ {0} /\ TcpBatchSize \in Nat \ {0} BY Constants
<1> HIDE DEF L, B, D
<1>6. /\ \A f \in B \ failed : Len(files[f].items) \in 1 .. BatchSize
      /\ \A f, g \in B : f # g => HeldBy(files, {f}) \cap HeldBy(files, {g}) = {}
      /\ HeldBy(files, B) \subseteq Elements(L)
      /\ \A f \in B : \A k \in 1 .. f.k : [f EXCEPT !.k = k] \in B \cup failed
  <2>1. \A f \in B \ failed : Len(files[f].items) \in 1 .. BatchSize
    BY <1>1, <1>3, <1>4, <1>5, LaidWell
  <2>2. Apart(files, B)
    BY <1>1, <1>3, <1>4, <1>5, LaidWell
  <2>3. HeldBy(files, B) \subseteq Elements(L)
    BY <1>1, <1>3, <1>4, <1>5, LaidWell
  <2>4. \A f \in B : \A k \in 1 .. f.k : [f EXCEPT !.k = k] \in B \cup failed
    BY <1>1, <1>3, <1>4, <1>5, LaidWell
  <2> QED BY <2>1, <2>2, <2>3, <2>4 DEF Apart
<1>7. /\ Len(L) - SumFunctionOnSet([f \in B |-> Len(files[f].items)], B)
           <= BatchSize * Cardinality(failed)
      /\ failed = {} => /\ HeldBy(files, B) = Elements(L)
                        /\ Len(L) = SumFunctionOnSet([f \in B |-> Len(files[f].items)], B)
  BY <1>1, <1>3, <1>4, <1>5, LaidWell
<1>8. \A fs : Held(fs) = HeldBy(files, fs) BY HeldIs
<1>9. Written(B) = SumFunctionOnSet([f \in B |-> Len(files[f].items)], B) BY DEF Written
<1>10. failed = {} => Complete(B, D) BY <1>3, <1>7, <1>8, <1>9 DEF Complete
<1>11. ASSUME failed = {}, kind = "lines"
       PROVE  Complete(BatchesOf(v, kind, "tcp"), TcpLines(v))
  <2> DEFINE T == BatchesOf(v, "lines", "tcp")
             X == TcpLines(v)
  <2>1. X \in Seq(Items) /\ Distinct(X) BY TcpLinesIs
  <2>2. Laid(T, files, failed, v, "lines", "tcp", X, TcpBatchSize) BY <1>1, TcpLaid
  <2> HIDE DEF T, X
  <2>3. /\ HeldBy(files, T) = Elements(X)
        /\ Len(X) = SumFunctionOnSet([f \in T |-> Len(files[f].items)], T)
    BY <1>1, <1>5, <1>11, <2>1, <2>2, LaidWell
  <2>4. Complete(T, X) BY <1>8, <2>1, <2>3, ElementsToSet DEF Complete, Written
  <2> QED BY <1>11, <2>4 DEF T, X
<1>12. D = IF kind = "lines" THEN out[v]["all"].lines ELSE out[v]["all"].entries
  BY DEF D, ListOf
<1>13. /\ \A f, g \in B : f # g => Held({f}) \cap Held({g}) = {}
       /\ Held(B) \subseteq ToSet(D)
       /\ Len(D) - Written(B) <= BatchSize * Cardinality(failed)
  BY <1>3, <1>6, <1>7, <1>8, <1>9
<1> QED BY <1>6, <1>10, <1>11, <1>12, <1>13 DEF B

(* Whatever is lost, the batches are a partition of what is not.           *)
THEOREM BatchesArePartition == Spec => []BatchesPartition
<1>1. WriterInv => BatchesPartition BY Partition DEF WriterInv
<1> QED BY <1>1, WriterInvariant, PTL

-----------------------------------------------------------------------------
(* The README's rows of plain configs. If nothing was lost, the numbered   *)
(* files are as many as there are slices, and hold them.                   *)
LEMMA LaidRows ==
  ASSUME NEW L, Len(L) \in Nat, NEW size \in Nat \ {0}, NEW fs, NEW d, NEW v, NEW kind, NEW s,
         Laid(fs, d, {}, v, kind, s, L, size)
  PROVE  /\ Cardinality(fs) = NumBatches(Len(L), size) /\ NumBatches(Len(L), size) \in Nat
         /\ \A k \in 1 .. NumBatches(Len(L), size) :
              /\ Path(v, kind, s, k) \in fs
              /\ d[Path(v, kind, s, k)].items = Slice(L, k, size)
<1> DEFINE n == NumBatches(Len(L), size)
           h == [k \in 1 .. n |-> Path(v, kind, s, k)]
<1>1. /\ fs \subseteq {Path(v, kind, s, k) : k \in 1 .. n}
      /\ \A k \in 1 .. n : /\ Path(v, kind, s, k) \in fs
                           /\ d[Path(v, kind, s, k)].items = Slice(L, k, size)
  BY DEF Laid
<1>2. n \in Nat BY Batches
<1> HIDE DEF n
<1>3. h \in [1 .. n -> fs] BY <1>1
<1>4. \A j, k \in 1 .. n : h[j] = h[k] => j = k BY PathParts
<1>5. \A f \in fs : \E k \in 1 .. n : h[k] = f BY <1>1
<1>9. DOMAIN h = 1 .. n OBVIOUS
<1> HIDE DEF h
<1>6. h \in Bijection(1 .. n, fs)
  <2>1. h \in Injection(1 .. n, fs) BY <1>3, <1>4, <1>9 DEF Injection, IsInjective
  <2>2. h \in Surjection(1 .. n, fs) BY <1>3, <1>5 DEF Surjection
  <2> QED BY <2>1, <2>2 DEF Bijection
<1>7. ExistsBijection(1 .. n, fs) BY <1>6 DEF ExistsBijection
<1>8. Cardinality(fs) = n BY <1>2, <1>7, FS_CountingElements
<1> QED BY <1>1, <1>2, <1>8 DEF n

(* What is listed passed the ping. *)
LEMMA ListedPassed ==
  ASSUME ListInv, NEW v \in Variants, NEW s \in Sections
  PROVE  /\ out[v][s].lines \in Seq(Items)
         /\ \A x \in Elements(out[v][s].lines) : x.of \in ToSet(in.tcp)
<1>1. InStep(out[v][s], gNameCount, FirstLines(pos - 1)) BY DEF ListInv
<1>2. /\ in.tcp \in Seq(Lines) /\ Elements(in.results) \subseteq Elements(in.tcp)
      /\ Len(in.results) \in Nat /\ pos \in 1 .. Len(in.results) + 1
  BY Given DEF ListInv
<1>3. FirstLines(pos - 1) \subseteq Elements(in.results)
  <2>1. \A k \in 1 .. pos - 1 : k \in 1 .. Len(in.results) BY <1>2
  <2> QED BY <2>1 DEF FirstLines, Elements
<1>4. Elements(in.tcp) = ToSet(in.tcp) BY <1>2, ElementsToSet
<1>5. out[v][s].lines \in Seq(Items) BY <1>1 DEF InStep, Lists
<1>6. \A x \in Elements(out[v][s].lines) : x.of \in FirstLines(pos - 1)
  BY <1>1 DEF InStep, Elements
<1> QED BY <1>2, <1>3, <1>4, <1>5, <1>6

RowHonest(r) == /\ r.path \in DOMAIN files /\ r.count \in {Uncounted, Len(files[r.path].items)}
                /\ \A k \in DOMAIN files[r.path].items : files[r.path].items[k].of \in ToSet(in.tcp)

(* A row is honest when its file holds a sequence of the right length.     *)
LEMMA HonestIf ==
  ASSUME NEW r, NEW t \in Seq(Items), r.path \in DOMAIN files, files[r.path].items = t,
         r.count \in {Uncounted, Len(t)}, \A x \in Elements(t) : x.of \in ToSet(in.tcp)
  PROVE  RowHonest(r)
<1>1. DOMAIN t = 1 .. Len(t) BY LenProperties
<1>2. \A k \in DOMAIN t : t[k].of \in ToSet(in.tcp) BY <1>1 DEF Elements
<1> QED BY <1>2 DEF RowHonest

(* The files of all configs and of a protocol. *)
LEMMA WholeRow ==
  ASSUME ListInv, FileInv, stage = "done", failed = {}, NEW s \in Sections, NEW r,
         r = Row(Path("v2ray", "lines", s, 0), Len(out["v2ray"][s].lines)),
         s = "all" \/ Len(out["v2ray"][s].lines) > 0
  PROVE  RowHonest(r)
<1> DEFINE f == Path("v2ray", "lines", s, 0)
           t == out["v2ray"][s].lines
<1>1. /\ f.v = "v2ray" /\ f.kind = "lines" /\ f.s = s BY PathParts
<1>2. "v2ray" \in Variants /\ "lines" \in Kinds BY DEF Variants, Kinds
<1>3. t \in Seq(Items) /\ \A x \in Elements(t) : x.of \in ToSet(in.tcp)
  BY <1>2, ListedPassed
<1>4. Listed(out["v2ray"][s], "lines").items = t BY DEF Listed, Content
<1>5. f \in {Path(v, kind, u, 0) : v \in Variants, kind \in Kinds, u \in Sections} BY <1>2
<1>6. s = "all" \/ t # << >> BY EmptySeq
<1> HIDE DEF f, t
<1>7. f \in DOMAIN Whole /\ Whole[f].items = t BY <1>1, <1>4, <1>5, <1>6 DEF Whole
<1>8. Saved(files, failed, "whole", Whole) BY AtEnd
<1>9. f \in DOMAIN files /\ files[f].items = t BY <1>7, <1>8 DEF Saved
<1>10. r.path = f /\ r.count = Len(t) BY DEF Row, f, t
<1> QED BY <1>3, <1>9, <1>10, HonestIf

(* The numbered files: what the code works out is the length of a slice.   *)
LEMMA BatchRow ==
  ASSUME ListInv, FileInv, stage = "done", failed = {}, NEW r,
         NEW k \in 1 .. CountBatchFiles("v2ray", "lines", "batch"),
         r = Row(Path("v2ray", "lines", "batch", k), Min500(k, Total))
  PROVE  RowHonest(r)
<1>1. "v2ray" \in Variants /\ "lines" \in Kinds /\ "all" \in Sections
  BY DEF Variants, Kinds, Sections
<1>2. HasBatches("v2ray") BY <1>1, AtEnd
<1>3. PICK p \in Orders(out["v2ray"]["all"].lines), q \in Orders(out["v2ray"]["all"].entries) :
        Saved(files, failed, "v2ray", BatchFiles("v2ray", p, q))
  BY <1>2 DEF HasBatches
<1> DEFINE fs == BatchesOf("v2ray", "lines", "batch")
           L == Source("v2ray", "lines", p, q).items
           f == Path("v2ray", "lines", "batch", k)
<1>4. Laid(fs, files, {}, "v2ray", "lines", "batch", L, BatchSize)
  BY <1>1, <1>3, BatchesLaid
<1>5. /\ L \in Seq(Items) /\ Len(L) = Len(ListOf("v2ray", "lines"))
      /\ Elements(L) = ToSet(ListOf("v2ray", "lines"))
  BY <1>1, <1>3, SourceIs
<1>6. /\ out["v2ray"]["all"].lines \in Seq(Items)
      /\ \A x \in Elements(out["v2ray"]["all"].lines) : x.of \in ToSet(in.tcp)
  BY <1>1, ListedPassed
<1>7. ListOf("v2ray", "lines") = out["v2ray"]["all"].lines BY DEF ListOf
<1>8. ToSet(ListOf("v2ray", "lines")) = Elements(ListOf("v2ray", "lines"))
  BY <1>6, <1>7, ElementsToSet
<1>9. \A x \in Elements(L) : x.of \in ToSet(in.tcp) BY <1>5, <1>6, <1>7, <1>8
<1>10. Len(L) = Total /\ Total \in Nat
  <2>1. pos > Len(in.results) BY AtEnd
  <2>2. Len(in.results) \in Nat BY Given DEF ListInv
  <2>3. pos \in 1 .. Len(in.results) + 1 /\ Len(out["v2ray"]["all"].lines) = pos - 1
    BY DEF ListInv
  <2>4. pos - 1 = Len(in.results) BY <2>1, <2>2, <2>3
  <2> QED BY <1>5, <1>7, <2>2, <2>3, <2>4 DEF Total
<1>11. CountBatchFiles("v2ray", "lines", "batch") = Cardinality(fs)
  BY DEF CountBatchFiles, BatchesOf
<1>12. BatchSize \in Nat \ {0} BY Constants
<1>13. fs \subseteq DOMAIN files BY DEF BatchesOf
<1> HIDE DEF fs, L
<1>14. /\ Cardinality(fs) = NumBatches(Len(L), BatchSize)
       /\ \A j \in 1 .. NumBatches(Len(L), BatchSize) :
            /\ Path("v2ray", "lines", "batch", j) \in fs
            /\ files[Path("v2ray", "lines", "batch", j)].items = Slice(L, j, BatchSize)
  BY <1>4, <1>10, <1>12, LaidRows
<1>15. k \in 1 .. NumBatches(Len(L), BatchSize) BY <1>11, <1>14
<1> DEFINE t == Slice(L, k, BatchSize)
<1>16. f \in DOMAIN files /\ files[f].items = t BY <1>13, <1>14, <1>15
<1>17. /\ t \in Seq(Items) /\ Len(t) = SliceLen(Len(L), k, BatchSize)
       /\ Elements(t) = At(L, k, BatchSize)
  BY <1>5, <1>12, <1>15, SliceIs
<1>18. Elements(t) \subseteq Elements(L) BY <1>17 DEF At, Piece, Elements
<1>19. Min500(k, Total) = SliceLen(Total, k, BatchSize)
  <2> DEFINE a == (k - 1) * BatchSize
  <2>1. a \in Nat /\ a < Total BY <1>10, <1>12, <1>15, Bounds
  <2>2. Min500(k, Total) = IF a >= Total THEN 0 ELSE Min({BatchSize, Total - a}) BY DEF Min500
  <2>3. SliceLen(Total, k, BatchSize) = IF a + BatchSize <= Total THEN BatchSize ELSE Total - a
    BY DEF SliceLen
  <2> HIDE DEF a
  <2>4. Min({BatchSize, Total - a}) = IF BatchSize <= Total - a THEN BatchSize ELSE Total - a
    <3>1. PICK b \in Int : b = Total - a BY <1>10, <2>1
    <3> QED BY <1>12, <3>1, MinOfTwo
  <2> QED BY <1>10, <1>12, <2>1, <2>2, <2>3, <2>4
<1>20. r.path = f /\ r.count = Len(t) BY <1>10, <1>17, <1>19 DEF Row
<1> HIDE DEF t, f
<1> QED BY <1>9, <1>16, <1>17, <1>18, <1>20, HonestIf

LEMMA TcpRow ==
  ASSUME ListInv, FileInv, stage = "done", failed = {}, NEW r,
         NEW k \in 1 .. CountBatchFiles("v2ray", "lines", "tcp"),
         r = Row(Path("v2ray", "lines", "tcp", k), Uncounted)
  PROVE  RowHonest(r)
<1> DEFINE fs == BatchesOf("v2ray", "lines", "tcp")
           L == TcpLines("v2ray")
           f == Path("v2ray", "lines", "tcp", k)
<1>1. "v2ray" \in Variants BY DEF Variants
<1>2. Saved(files, failed, "tcp", TcpFiles) BY AtEnd
<1>3. Laid(fs, files, {}, "v2ray", "lines", "tcp", L, TcpBatchSize) BY <1>1, <1>2, TcpLaid
<1>4. L \in Seq(Items) /\ \A x \in Elements(L) : x.of \in ToSet(in.tcp) BY <1>1, TcpLinesIs
<1>5. CountBatchFiles("v2ray", "lines", "tcp") = Cardinality(fs)
  BY DEF CountBatchFiles, BatchesOf
<1>6. TcpBatchSize \in Nat \ {0} BY Constants
<1>7. fs \subseteq DOMAIN files BY DEF BatchesOf
<1>8. Len(L) \in Nat BY <1>4, LenProperties
<1> HIDE DEF fs, L
<1>9. /\ Cardinality(fs) = NumBatches(Len(L), TcpBatchSize)
      /\ \A j \in 1 .. NumBatches(Len(L), TcpBatchSize) :
           /\ Path("v2ray", "lines", "tcp", j) \in fs
           /\ files[Path("v2ray", "lines", "tcp", j)].items = Slice(L, j, TcpBatchSize)
  BY <1>3, <1>6, <1>8, LaidRows
<1>10. k \in 1 .. NumBatches(Len(L), TcpBatchSize) BY <1>5, <1>9
<1> DEFINE t == Slice(L, k, TcpBatchSize)
<1>11. f \in DOMAIN files /\ files[f].items = t BY <1>7, <1>9, <1>10
<1>12. t \in Seq(Items) /\ Elements(t) = At(L, k, TcpBatchSize) BY <1>4, <1>6, <1>10, SliceIs
<1>13. Elements(t) \subseteq Elements(L) BY <1>12 DEF At, Piece, Elements
<1>14. r.path = f /\ r.count = Uncounted BY DEF Row
<1> HIDE DEF t, f
<1> QED BY <1>4, <1>11, <1>12, <1>13, <1>14, HonestIf

(* The rows in question, as they were put together. *)
LEMMA PlainRows ==
  ASSUME NEW r \in SummaryRows, r.path.kind = "lines", r.path.v = "v2ray"
  PROVE  \/ r = Row(Path("v2ray", "lines", "all", 0), Total)
         \/ \E p \in ToSet(ProtocolOrder) :
              PerProto(p) > 0 /\ r = Row(Path("v2ray", "lines", p, 0), PerProto(p))
         \/ \E k \in 1 .. CountBatchFiles("v2ray", "lines", "batch") :
              r = Row(Path("v2ray", "lines", "batch", k), Min500(k, Total))
         \/ \E k \in 1 .. CountBatchFiles("v2ray", "lines", "tcp") :
              r = Row(Path("v2ray", "lines", "tcp", k), Uncounted)
<1>1. \A path, count : Row(path, count).path = path BY DEF Row
<1>2. CASE \E v \in Variants, kind \in {"lines", "simple"} :
             r = Row(Path(v, kind, "all", 0), Total)
  BY <1>1, <1>2, PathParts
<1>3. CASE \E v \in Variants, kind \in {"lines", "simple"} : \E p \in ToSet(ProtocolOrder) :
             PerProto(p) > 0 /\ r = Row(Path(v, kind, p, 0), PerProto(p))
  BY <1>1, <1>3, PathParts
<1>4. CASE \E v \in Variants, kind \in {"lines", "simple"} :
             \E k \in 1 .. CountBatchFiles(v, kind, "batch") :
               r = Row(Path(v, kind, "batch", k), Min500(k, Total))
  BY <1>1, <1>4, PathParts
<1>5. CASE \E v \in Variants : \E k \in 1 .. CountBatchFiles(v, "lines", "tcp") :
             r = Row(Path(v, "lines", "tcp", k), Uncounted)
  BY <1>1, <1>5, PathParts
<1>6. CASE r \in AllRows BY <1>2, <1>6 DEF AllRows
<1>7. CASE r \in ProtoRows BY <1>3, <1>7 DEF ProtoRows
<1>8. CASE r \in BatchRows BY <1>4, <1>8 DEF BatchRows
<1>9. CASE r \in TcpRows BY <1>5, <1>9 DEF TcpRows
<1> QED BY <1>6, <1>7, <1>8, <1>9 DEF SummaryRows

LEMMA HonestRows == ListInv /\ FileInv /\ RowInv => PlainRowsHonest
<1> SUFFICES ASSUME ListInv, FileInv, RowInv, failed = {}, NEW r \in rows,
                    r.path.kind = "lines", r.path.v = "v2ray"
             PROVE  RowHonest(r)
  BY DEF PlainRowsHonest, RowHonest
<1>1. stage = "done" /\ r \in SummaryRows BY DEF RowInv
<1>2. /\ pos - 1 = Total
      /\ Len(out["v2ray"]["all"].lines) = Total
      /\ \A p \in ToSet(ProtocolOrder) : Len(out["v2ray"][p].lines) = PerProto(p)
  <2>1. pos > Len(in.results) BY <1>1, AtEnd
  <2>2. Len(in.results) \in Nat BY Given DEF ListInv
  <2>3. /\ pos \in 1 .. Len(in.results) + 1 /\ Len(out["v2ray"]["all"].lines) = pos - 1
        /\ \A p \in ToSet(ProtocolOrder) :
             Len(out["v2ray"][p].lines) = Cardinality(OfProto(p, pos - 1))
    BY DEF ListInv
  <2>4. pos - 1 = Total BY <2>1, <2>2, <2>3 DEF Total
  <2> QED BY <2>3, <2>4 DEF PerProto, OfProto
<1>3. "all" \in Sections /\ ToSet(ProtocolOrder) \subseteq Sections BY DEF Sections
<1>4. CASE r = Row(Path("v2ray", "lines", "all", 0), Total)
  BY <1>1, <1>2, <1>3, <1>4, WholeRow
<1>5. ASSUME NEW p \in ToSet(ProtocolOrder), PerProto(p) > 0,
             r = Row(Path("v2ray", "lines", p, 0), PerProto(p))
      PROVE  RowHonest(r)
  BY <1>1, <1>2, <1>3, <1>5, WholeRow
<1>6. ASSUME NEW k \in 1 .. CountBatchFiles("v2ray", "lines", "batch"),
             r = Row(Path("v2ray", "lines", "batch", k), Min500(k, Total))
      PROVE  RowHonest(r)
  BY <1>1, <1>6, BatchRow
<1>7. ASSUME NEW k \in 1 .. CountBatchFiles("v2ray", "lines", "tcp"),
             r = Row(Path("v2ray", "lines", "tcp", k), Uncounted)
      PROVE  RowHonest(r)
  BY <1>1, <1>7, TcpRow
<1> QED BY <1>1, <1>4, <1>5, <1>6, <1>7, PlainRows

(* Unless a file was lost, the rows of plain configs link files that exist *)
(* and hold as many configs as they say, all of which passed the ping.     *)
THEOREM PlainRowsAreHonest == Spec => []PlainRowsHonest
<1>1. WriterInv => PlainRowsHonest BY HonestRows DEF WriterInv
<1> QED BY <1>1, WriterInvariant, PTL

-----------------------------------------------------------------------------
(* Texts and the separators searched for in them: renameTo and the readers *)
(* of a link cut at two places, and what is between them matters only where*)
(* CutTwice says so.                                                       *)

(* The first and the last place of a token in a text. *)
LEMMA IndexPlace ==
  ASSUME NEW S, NEW s \in Seq(S), NEW t
  PROVE  /\ Index(s, t) \in 0 .. Len(s)
         /\ Index(s, t) # 0 => s[Index(s, t)] = t
         /\ \A k \in 1 .. Len(s) : s[k] = t => Index(s, t) # 0 /\ Index(s, t) <= k
<1> DEFINE I == {i \in 1 .. Len(s) : s[i] = t}
<1>1. Len(s) \in Nat OBVIOUS
<1>2. Index(s, t) = IF I # {} THEN Min(I) ELSE 0 BY DEF Index, SelectInSeq
<1>3. ASSUME I # {} PROVE Min(I) \in I /\ \A y \in I : Min(I) <= y
  <2>1. I \in SUBSET Nat OBVIOUS
  <2> HIDE DEF I
  <2>2. \E x \in I : \A y \in I : x <= y BY <1>3, <2>1, LeastElement
  <2> QED BY <2>2 DEF Min
<1>4. CASE I = {} BY <1>1, <1>2, <1>4
<1>5. CASE I # {}
  <2> DEFINE m == Index(s, t)
  <2>1. m \in I /\ \A y \in I : m <= y BY <1>2, <1>3, <1>5
  <2> QED BY <1>1, <2>1
<1> QED BY <1>4, <1>5

LEMMA GreatestElement ==
  ASSUME NEW n \in Nat, NEW I \in SUBSET (1 .. n), I # {}
  PROVE  Max(I) \in I /\ \A y \in I : Max(I) >= y
<1> DEFINE J == {n - i : i \in I}
<1>1. J \in SUBSET Nat /\ J # {}
  <2>1. \A i \in I : n - i \in Nat OBVIOUS
  <2>2. J \in SUBSET Nat BY <2>1
  <2>3. PICK i \in I : TRUE OBVIOUS
  <2>4. n - i \in J BY <2>3
  <2> QED BY <2>2, <2>4
<1>2. PICK x \in J : \A y \in J : x <= y
  <2> HIDE DEF J
  <2> QED BY <1>1, LeastElement
<1>3. PICK i \in I : x = n - i BY <1>2
<1>4. \A y \in I : i >= y
  <2> TAKE y \in I
  <2>1. n - y \in J OBVIOUS
  <2> QED BY <1>2, <1>3, <2>1
<1>5. \E k \in I : \A y \in I : k >= y BY <1>4
<1> QED BY <1>5 DEF Max

LEMMA LastPlace ==
  ASSUME NEW S, NEW s \in Seq(S), NEW t
  PROVE  /\ LastIndex(s, t) \in 0 .. Len(s)
         /\ LastIndex(s, t) # 0 => s[LastIndex(s, t)] = t
         /\ \A k \in 1 .. Len(s) : s[k] = t => LastIndex(s, t) >= k
<1> DEFINE I == {i \in 1 .. Len(s) : s[i] = t}
<1>1. Len(s) \in Nat /\ I \in SUBSET (1 .. Len(s)) OBVIOUS
<1>2. LastIndex(s, t) = IF I # {} THEN Max(I) ELSE 0 BY DEF LastIndex, SelectLastInSeq
<1>3. CASE I = {} BY <1>1, <1>2, <1>3
<1>4. CASE I # {}
  <2> DEFINE m == LastIndex(s, t)
  <2>1. m \in I /\ \A y \in I : m >= y
    <3> HIDE DEF I
    <3> QED BY <1>1, <1>2, <1>4, GreatestElement
  <2> QED BY <1>1, <2>1
<1> QED BY <1>3, <1>4

(* Found in the first part, or only in the second. *)
LEMMA IndexConcat ==
  ASSUME NEW S, NEW x \in Seq(S), NEW y \in Seq(S), NEW t
  PROVE  Index(x \o y, t) = IF Index(x, t) # 0 THEN Index(x, t)
                            ELSE IF Index(y, t) # 0 THEN Len(x) + Index(y, t) ELSE 0
<1> DEFINE z == x \o y
<1>1. /\ z \in Seq(S) /\ Len(z) = Len(x) + Len(y) /\ Len(x) \in Nat /\ Len(y) \in Nat
      /\ \A i \in 1 .. Len(z) : z[i] = IF i <= Len(x) THEN x[i] ELSE y[i - Len(x)]
  BY ConcatProperties
<1> HIDE DEF z
<1> DEFINE i == Index(x, t)
           j == Index(y, t)
           k == Index(z, t)
<1>2. /\ i \in 0 .. Len(x) /\ (i # 0 => x[i] = t)
      /\ \A n \in 1 .. Len(x) : x[n] = t => i # 0 /\ i <= n
  BY IndexPlace
<1>3. /\ j \in 0 .. Len(y) /\ (j # 0 => y[j] = t)
      /\ \A n \in 1 .. Len(y) : y[n] = t => j # 0 /\ j <= n
  BY IndexPlace
<1>4. /\ k \in 0 .. Len(z) /\ (k # 0 => z[k] = t)
      /\ \A n \in 1 .. Len(z) : z[n] = t => k # 0 /\ k <= n
  BY <1>1, IndexPlace
<1> SUFFICES k = IF i # 0 THEN i ELSE IF j # 0 THEN Len(x) + j ELSE 0 BY DEF z
<1> HIDE DEF i, j, k
<1>5. CASE i # 0
  <2>1. z[i] = t /\ k # 0 /\ k <= i BY <1>1, <1>2, <1>4, <1>5
  <2>2. x[k] = t BY <1>1, <1>2, <1>4, <2>1
  <2> QED BY <1>1, <1>2, <1>4, <1>5, <2>1, <2>2
<1>6. CASE i = 0 /\ j # 0
  <2>1. z[Len(x) + j] = t /\ k # 0 /\ k <= Len(x) + j
    <3>1. PICK m \in 1 .. Len(z) : m = Len(x) + j BY <1>1, <1>3, <1>6
    <3>2. z[m] = y[j] BY <1>1, <1>3, <1>6, <3>1
    <3> QED BY <1>3, <1>4, <1>6, <3>1, <3>2
  <2>2. k > Len(x) BY <1>1, <1>2, <1>4, <1>6, <2>1
  <2>3. y[k - Len(x)] = t /\ k - Len(x) \in 1 .. Len(y) BY <1>1, <1>4, <2>1, <2>2
  <2>4. j <= k - Len(x) BY <1>3, <2>3
  <2>5. k \in Int /\ j \in Int /\ Len(x) \in Int BY <1>1, <1>3, <1>4
  <2>6. k = Len(x) + j BY <2>1, <2>4, <2>5
  <2> QED BY <1>6, <2>6
<1>7. CASE i = 0 /\ j = 0 BY <1>1, <1>2, <1>3, <1>4, <1>7
<1> QED BY <1>5, <1>6, <1>7

LEMMA LastConcat ==
  ASSUME NEW S, NEW x \in Seq(S), NEW y \in Seq(S), NEW t
  PROVE  LastIndex(x \o y, t) = IF LastIndex(y, t) # 0 THEN Len(x) + LastIndex(y, t)
                                ELSE LastIndex(x, t)
<1> DEFINE z == x \o y
<1>1. /\ z \in Seq(S) /\ Len(z) = Len(x) + Len(y) /\ Len(x) \in Nat /\ Len(y) \in Nat
      /\ \A i \in 1 .. Len(z) : z[i] = IF i <= Len(x) THEN x[i] ELSE y[i - Len(x)]
  BY ConcatProperties
<1> HIDE DEF z
<1> DEFINE i == LastIndex(x, t)
           j == LastIndex(y, t)
           k == LastIndex(z, t)
<1>2. /\ i \in 0 .. Len(x) /\ (i # 0 => x[i] = t)
      /\ \A n \in 1 .. Len(x) : x[n] = t => i >= n
  BY LastPlace
<1>3. /\ j \in 0 .. Len(y) /\ (j # 0 => y[j] = t)
      /\ \A n \in 1 .. Len(y) : y[n] = t => j >= n
  BY LastPlace
<1>4. /\ k \in 0 .. Len(z) /\ (k # 0 => z[k] = t)
      /\ \A n \in 1 .. Len(z) : z[n] = t => k >= n
  BY <1>1, LastPlace
<1> SUFFICES k = IF j # 0 THEN Len(x) + j ELSE i BY DEF z
<1> HIDE DEF i, j, k
<1>5. CASE j # 0
  <2>1. z[Len(x) + j] = t /\ k >= Len(x) + j BY <1>1, <1>3, <1>4, <1>5
  <2>2. y[k - Len(x)] = t /\ k - Len(x) \in 1 .. Len(y) BY <1>1, <1>3, <1>4, <1>5, <2>1
  <2>3. j >= k - Len(x) BY <1>3, <2>2
  <2>4. k \in Int /\ j \in Int /\ Len(x) \in Int BY <1>1, <1>3, <1>4
  <2>5. k = Len(x) + j BY <2>1, <2>3, <2>4
  <2> QED BY <1>5, <2>5
<1>6. CASE j = 0
  <2>1. k <= Len(x)
    <3> SUFFICES ASSUME k > Len(x) PROVE FALSE BY <1>1, <1>4
    <3> QED BY <1>1, <1>3, <1>4, <1>6
  <2>2. CASE k = 0
    <3>1. i = 0 BY <1>1, <1>2, <1>4, <2>2
    <3> QED BY <1>6, <2>2, <3>1
  <2>3. CASE k # 0
    <3>1. x[k] = t /\ i >= k BY <1>1, <1>2, <1>4, <2>1, <2>3
    <3>2. z[i] = t /\ k >= i BY <1>1, <1>2, <1>4, <2>3, <3>1
    <3> QED BY <1>1, <1>2, <1>4, <1>6, <3>1, <3>2
  <2> QED BY <2>2, <2>3
<1> QED BY <1>5, <1>6
(* Parts of two texts that are joined. *)
LEMMA PrefixConcat ==
  ASSUME NEW S, NEW x \in Seq(S), NEW y \in Seq(S), NEW n \in 0 .. Len(x)
  PROVE  SubSeq(x \o y, 1, n) = SubSeq(x, 1, n)
<1> DEFINE z == x \o y
<1>1. /\ z \in Seq(S) /\ Len(z) = Len(x) + Len(y) /\ Len(x) \in Nat /\ Len(y) \in Nat
      /\ \A i \in 1 .. Len(z) : z[i] = IF i <= Len(x) THEN x[i] ELSE y[i - Len(x)]
  BY ConcatProperties
<1> HIDE DEF z
<1>2. \A i \in 1 .. n : z[i] = x[i] /\ x[i] \in S BY <1>1
<1>3. \A i \in 1 .. n : z[i] \in S BY <1>2
<1>4. /\ SubSeq(z, 1, n) \in Seq(S) /\ Len(SubSeq(z, 1, n)) = n
      /\ \A i \in 1 .. n : SubSeq(z, 1, n)[i] = z[i]
  BY <1>3, SubSeqProperties
<1>5. /\ SubSeq(x, 1, n) \in Seq(S) /\ Len(SubSeq(x, 1, n)) = n
      /\ \A i \in 1 .. n : SubSeq(x, 1, n)[i] = x[i]
  BY <1>2, SubSeqProperties
<1>6. \A i \in 1 .. n : SubSeq(z, 1, n)[i] = SubSeq(x, 1, n)[i] BY <1>2, <1>4, <1>5
<1>7. SubSeq(z, 1, n) = SubSeq(x, 1, n) BY <1>4, <1>5, <1>6, SeqEqual
<1> QED BY <1>7 DEF z

LEMMA SuffixConcat ==
  ASSUME NEW S, NEW x \in Seq(S), NEW y \in Seq(S), NEW n \in 1 .. Len(y) + 1
  PROVE  SubSeq(x \o y, Len(x) + n, Len(x \o y)) = SubSeq(y, n, Len(y))
<1> DEFINE z == x \o y
           m == Len(x) + n
<1>1. /\ z \in Seq(S) /\ Len(z) = Len(x) + Len(y) /\ Len(x) \in Nat /\ Len(y) \in Nat
      /\ \A i \in 1 .. Len(z) : z[i] = IF i <= Len(x) THEN x[i] ELSE y[i - Len(x)]
  BY ConcatProperties
<1> SUFFICES SubSeq(z, m, Len(z)) = SubSeq(y, n, Len(y)) OBVIOUS
<1>2. m \in Int /\ n \in Int /\ Len(z) \in Int /\ Len(y) \in Int BY <1>1
<1>3. m = Len(x) + n OBVIOUS
<1> HIDE DEF z, m
<1>4. \A i \in m .. Len(z) : z[i] \in S BY <1>1, <1>2, <1>3
<1>5. \A i \in n .. Len(y) : y[i] \in S BY <1>1, <1>2
<1> DEFINE a == SubSeq(z, m, Len(z))
           b == SubSeq(y, n, Len(y))
           l == Len(y) - n + 1
<1>6. /\ a \in Seq(S) /\ Len(a) = IF m <= Len(z) THEN Len(z) - m + 1 ELSE 0
      /\ \A i \in 1 .. Len(z) - m + 1 : a[i] = z[m + i - 1]
  BY <1>2, <1>4, SubSeqProperties
<1>7. /\ b \in Seq(S) /\ Len(b) = IF n <= Len(y) THEN Len(y) - n + 1 ELSE 0
      /\ \A i \in 1 .. Len(y) - n + 1 : b[i] = y[n + i - 1]
  BY <1>2, <1>5, SubSeqProperties
<1> HIDE DEF a, b
<1>8. Len(z) - m + 1 = l BY <1>1, <1>2, <1>3
<1>9. Len(a) = Len(b) /\ Len(a) = l BY <1>1, <1>2, <1>3, <1>6, <1>7
<1>10. ASSUME NEW i \in 1 .. Len(a) PROVE a[i] = b[i]
  <2>1. i \in 1 .. Len(z) - m + 1 /\ i \in 1 .. Len(y) - n + 1 BY <1>8, <1>9
  <2>2. a[i] = z[m + i - 1] /\ b[i] = y[n + i - 1] BY <1>6, <1>7, <2>1
  <2> DEFINE k == m + i - 1
  <2>3. m >= 1 /\ i \in Int /\ i >= 1 /\ i <= Len(z) - m + 1 BY <1>1, <1>2, <1>3, <2>1
  <2>5. k \in 1 .. Len(z) BY <1>2, <2>3
  <2>4. k > Len(x) /\ k - Len(x) = n + i - 1 BY <1>1, <1>2, <1>3, <2>3
  <2>6. ~(k <= Len(x)) BY <1>1, <1>2, <2>3, <2>4
  <2> HIDE DEF k
  <2>7. z[k] = y[k - Len(x)] BY <1>1, <2>5, <2>6
  <2> QED BY <2>2, <2>4, <2>7 DEF k
<1>11. a = b BY <1>6, <1>7, <1>9, <1>10, SeqEqual
<1> QED BY <1>11 DEF a, b

LEMMA SuffixWhole ==
  ASSUME NEW S, NEW x \in Seq(S), NEW y \in Seq(S)
  PROVE  SubSeq(x \o y, Len(x) + 1, Len(x \o y)) = y
<1>1. Len(y) \in Nat /\ 1 \in 1 .. Len(y) + 1 OBVIOUS
<1> QED BY <1>1, SuffixConcat, SubSeqFull

LEMMA Parts ==
  ASSUME NEW S, NEW s \in Seq(S), NEW n \in 1 .. Len(s) + 1
  PROVE  /\ SubSeq(s, 1, n - 1) \in Seq(S) /\ SubSeq(s, n, Len(s)) \in Seq(S)
         /\ Len(SubSeq(s, 1, n - 1)) = n - 1
         /\ \A i \in 1 .. n - 1 : SubSeq(s, 1, n - 1)[i] = s[i]
         /\ s = SubSeq(s, 1, n - 1) \o SubSeq(s, n, Len(s))
<1>1. Len(s) \in Nat /\ n - 1 \in 0 .. Len(s) /\ n \in Int /\ n - 1 + 1 = n OBVIOUS
<1>2. \A i \in 1 .. n - 1 : s[i] \in S BY <1>1
<1>3. \A i \in n .. Len(s) : s[i] \in S BY <1>1
<1>4. /\ SubSeq(s, 1, n - 1) \in Seq(S)
      /\ Len(SubSeq(s, 1, n - 1)) = IF 1 <= n - 1 THEN n - 1 - 1 + 1 ELSE 0
      /\ \A i \in 1 .. n - 1 - 1 + 1 : SubSeq(s, 1, n - 1)[i] = s[1 + i - 1]
  BY <1>1, <1>2, SubSeqProperties
<1>5. SubSeq(s, n, Len(s)) \in Seq(S) BY <1>1, <1>3, SubSeqProperties
<1>6. /\ 1 \in 1 .. Len(s) + 1 /\ n - 1 \in 1 - 1 .. Len(s) /\ Len(s) \in n - 1 .. Len(s)
  BY <1>1
<1>7. SubSeq(s, 1, n - 1) \o SubSeq(s, n - 1 + 1, Len(s)) = SubSeq(s, 1, Len(s))
  BY <1>6, ConcatAdjacentSubSeq
<1>8. s = SubSeq(s, 1, n - 1) \o SubSeq(s, n, Len(s)) BY <1>1, <1>7, SubSeqFull
<1>9. Len(SubSeq(s, 1, n - 1)) = n - 1 BY <1>1, <1>4
<1>10. \A i \in 1 .. n - 1 : SubSeq(s, 1, n - 1)[i] = s[i] BY <1>1, <1>4
<1> QED BY <1>4, <1>5, <1>8, <1>9, <1>10
LEMMA CutAt ==
  ASSUME NEW S, NEW s \in Seq(S), NEW t
  PROVE  /\ Upto(s, t) \in Seq(S) /\ FromFirst(s, t) \in Seq(S)
         /\ s = Upto(s, t) \o FromFirst(s, t)
         /\ Index(s, t) = 0 => Upto(s, t) = s /\ FromFirst(s, t) = << >>
<1>1. Index(s, t) \in 0 .. Len(s) /\ Len(s) \in Nat BY IndexPlace
<1>2. CASE Index(s, t) = 0
  <2>1. Upto(s, t) = s /\ FromFirst(s, t) = << >> BY <1>2 DEF Upto, FromFirst, Before, From
  <2> QED BY <2>1, ConcatEmptySeq
<1>3. CASE Index(s, t) # 0
  <2> DEFINE i == Index(s, t)
  <2>1. i \in 1 .. Len(s) + 1 BY <1>1, <1>3
  <2>2. Upto(s, t) = SubSeq(s, 1, i - 1) /\ FromFirst(s, t) = SubSeq(s, i, Len(s))
    BY <1>3 DEF Upto, FromFirst, Before, From
  <2> HIDE DEF i
  <2>3. /\ SubSeq(s, 1, i - 1) \in Seq(S) /\ SubSeq(s, i, Len(s)) \in Seq(S)
        /\ s = SubSeq(s, 1, i - 1) \o SubSeq(s, i, Len(s))
    BY <2>1, Parts
  <2> QED BY <1>3, <2>2, <2>3
<1> QED BY <1>2, <1>3

LEMMA CutConcat ==
  ASSUME NEW S, NEW x \in Seq(S), NEW y \in Seq(S), NEW t
  PROVE  IF Index(x, t) # 0
         THEN /\ Upto(x \o y, t) = Upto(x, t)
              /\ FromFirst(x \o y, t) = FromFirst(x, t) \o y
         ELSE /\ Upto(x \o y, t) = x \o Upto(y, t)
              /\ FromFirst(x \o y, t) = FromFirst(y, t)
<1> DEFINE z == x \o y
           i == Index(x, t)
           j == Index(y, t)
<1>1. z \in Seq(S) /\ Len(x) \in Nat /\ Len(y) \in Nat BY ConcatProperties
<1>2. Index(z, t) = IF i # 0 THEN i ELSE IF j # 0 THEN Len(x) + j ELSE 0 BY IndexConcat
<1>3. i \in 0 .. Len(x) /\ j \in 0 .. Len(y) BY IndexPlace
<1>4. CASE i # 0
  <2> DEFINE a == SubSeq(x, 1, i - 1)
             b == SubSeq(x, i, Len(x))
  <2> HIDE DEF i
  <2>1. i \in 1 .. Len(x) + 1 /\ i - 1 \in 0 .. Len(x) BY <1>1, <1>3, <1>4
  <2>2. a \in Seq(S) /\ b \in Seq(S) /\ Len(a) = i - 1 /\ x = a \o b BY <2>1, Parts
  <2>3. SubSeq(z, 1, i - 1) = a BY <2>1, PrefixConcat
  <2> HIDE DEF a, b
  <2>4. b \o y \in Seq(S) BY <2>2, ConcatProperties
  <2>5. z = a \o (b \o y) BY <2>2, ConcatAssociative
  <2>6. SubSeq(a \o (b \o y), Len(a) + 1, Len(a \o (b \o y))) = b \o y
    BY <2>2, <2>4, SuffixWhole
  <2>7. Len(a) + 1 = i BY <2>1, <2>2
  <2>8. SubSeq(z, i, Len(z)) = b \o y BY <2>5, <2>6, <2>7
  <2>9. Index(z, t) = i BY <1>2, <1>4
  <2>10. Upto(z, t) = a BY <1>4, <2>3, <2>9 DEF Upto, Before
  <2>11. FromFirst(z, t) = b \o y BY <1>4, <2>8, <2>9 DEF FromFirst, From
  <2>12. Upto(x, t) = a /\ FromFirst(x, t) = b BY <1>4 DEF Upto, Before, FromFirst, From, i, a, b
  <2> QED BY <1>4, <2>10, <2>11, <2>12 DEF i
<1>5. CASE i = 0 /\ j # 0
  <2> DEFINE c == SubSeq(y, 1, j - 1)
             d == SubSeq(y, j, Len(y))
  <2> HIDE DEF j
  <2>1. j \in 1 .. Len(y) + 1 BY <1>1, <1>3, <1>5
  <2>2. c \in Seq(S) /\ d \in Seq(S) /\ Len(c) = j - 1 /\ y = c \o d BY <2>1, Parts
  <2>3. SubSeq(z, Len(x) + j, Len(z)) = d BY <2>1, SuffixConcat
  <2> HIDE DEF c, d
  <2>4. x \o c \in Seq(S) /\ z = (x \o c) \o d BY <2>2, ConcatProperties, ConcatAssociative
  <2>5. Len(x \o c) = Len(x) + (j - 1) BY <2>2, ConcatProperties
  <2>6. Len(x \o c) \in 0 .. Len(x \o c) BY <2>4
  <2>7. SubSeq(z, 1, Len(x \o c)) = SubSeq(x \o c, 1, Len(x \o c))
    BY <2>2, <2>4, <2>6, PrefixConcat
  <2>8. Len(x) + j - 1 = Len(x \o c) BY <1>1, <2>1, <2>5
  <2>9. SubSeq(z, 1, Len(x) + j - 1) = x \o c BY <2>4, <2>7, <2>8, SubSeqFull
  <2>10. Index(z, t) = Len(x) + j /\ Len(x) + j # 0 BY <1>1, <1>2, <1>5, <2>1
  <2>11. Upto(z, t) = x \o c
    <3>1. Upto(z, t) = SubSeq(z, 1, Index(z, t) - 1) BY <2>10 DEF Upto, Before
    <3>2. Len(x) \in Int /\ j \in Int BY <1>1, <2>1
    <3>3. Index(z, t) - 1 = Len(x) + j - 1 BY <2>10, <3>2
    <3> QED BY <2>9, <3>1, <3>3
  <2>12. FromFirst(z, t) = d BY <2>3, <2>10 DEF FromFirst, From
  <2>13. Upto(y, t) = c /\ FromFirst(y, t) = d BY <1>5 DEF Upto, Before, FromFirst, From, j, c, d
  <2> QED BY <1>5, <2>11, <2>12, <2>13
<1>6. CASE i = 0 /\ j = 0
  <2>1. Index(z, t) = 0 BY <1>2, <1>6
  <2> QED BY <1>6, <2>1 DEF Upto, Before, FromFirst, From
<1> QED BY <1>4, <1>5, <1>6

-----------------------------------------------------------------------------
(* Escapes. *)
Tokens == STRING \cup Escaped \cup {Plain[e] : e \in DOMAIN Plain} \cup {" ", "#", "@", "name"}

LEMMA EscapeType == \A t \in DOMAIN Escape : Escape[t] \in Tokens
BY DEF Escaped, Tokens

LEMMA PlainType ==
  /\ DOMAIN Plain = {"%2F", "%3F", "%23", "%40", "%20", "query%"}
  /\ \A e \in DOMAIN Plain : Plain[e] \in Tokens
<1>1. DOMAIN Escape = {"/", "?", "#", "@", " "} BY DEF Escape
<1>2. Escape["/"] = "%2F" /\ Escape["?"] = "%3F" /\ Escape["#"] = "%23" BY DEF Escape
<1>3. Escape["@"] = "%40" /\ Escape[" "] = "%20" BY DEF Escape
<1>4. Escaped = {"%2F", "%3F", "%23", "%40", "%20"}
  <2> SUFFICES {Escape[t] : t \in {"/", "?", "#", "@", " "}}
               = {"%2F", "%3F", "%23", "%40", "%20"}
    BY <1>1 DEF Escaped
  <2> QED BY <1>2, <1>3
<1>5. DOMAIN Plain = Escaped \cup {"query%"} BY DEF Plain
<1>6. Escaped \cup {"query%"} = {"%2F", "%3F", "%23", "%40", "%20", "query%"} BY <1>4
<1>7. \A e \in DOMAIN Plain : Plain[e] \in Tokens BY DEF Tokens
<1> QED BY <1>5, <1>6, <1>7

LEMMA TranslateType ==
  ASSUME NEW s \in Seq(Tokens), NEW f, \A t \in DOMAIN f : f[t] \in Tokens
  PROVE  /\ Translate(s, f) \in Seq(Tokens) /\ Len(Translate(s, f)) = Len(s)
         /\ \A i \in 1 .. Len(s) : Translate(s, f)[i] = IF s[i] \in DOMAIN f THEN f[s[i]] ELSE s[i]
<1>1. DOMAIN s = 1 .. Len(s) /\ Len(s) \in Nat OBVIOUS
<1>2. \A i \in 1 .. Len(s) : (IF s[i] \in DOMAIN f THEN f[s[i]] ELSE s[i]) \in Tokens BY <1>1
<1>3. Translate(s, f) = [i \in 1 .. Len(s) |-> IF s[i] \in DOMAIN f THEN f[s[i]] ELSE s[i]]
  BY <1>1 DEF Translate
<1>4. Translate(s, f) \in [1 .. Len(s) -> Tokens] BY <1>2, <1>3
<1>5. Translate(s, f) \in Seq(Tokens) BY <1>1, <1>4
<1>6. Len(Translate(s, f)) = Len(s) BY <1>1, <1>4
<1> QED BY <1>3, <1>5, <1>6

(* The user part ends where no further "@" comes.                          *)
LEMMA EncodeUserConcat ==
  ASSUME NEW x \in Seq(Tokens), NEW z \in Seq(Tokens), LastIndex(z, "@") = 0
  PROVE  EncodeUser(x \o z) = EncodeUser(x) \o z /\ EncodeUser(x) \in Seq(Tokens)
<1> DEFINE at == LastIndex(x, "@")
<1>1. LastIndex(x \o z, "@") = at BY LastConcat
<1>2. at \in 0 .. Len(x) /\ Len(x) \in Nat BY LastPlace
<1>3. CASE at = 0
  <2>1. EncodeUser(x) = x /\ EncodeUser(x \o z) = x \o z BY <1>1, <1>3 DEF EncodeUser
  <2> QED BY <2>1
<1>4. CASE at # 0
  <2> DEFINE a == SubSeq(x, 1, at - 1)
             b == SubSeq(x, at, Len(x))
             e == EncodeUserInfo(a)
  <2>1. EncodeUser(x) = e \o b BY <1>4 DEF EncodeUser, Before, From
  <2>2. EncodeUser(x \o z) = EncodeUserInfo(SubSeq(x \o z, 1, at - 1))
                             \o SubSeq(x \o z, at, Len(x \o z))
    BY <1>1, <1>4 DEF EncodeUser, Before, From
  <2> HIDE DEF at
  <2>3. at \in 1 .. Len(x) + 1 /\ at - 1 \in 0 .. Len(x) BY <1>2, <1>4
  <2>4. a \in Seq(Tokens) /\ b \in Seq(Tokens) /\ Len(a) = at - 1 /\ x = a \o b BY <2>3, Parts
  <2>5. SubSeq(x \o z, 1, at - 1) = a BY <2>3, PrefixConcat
  <2> HIDE DEF a, b
  <2>6. b \o z \in Seq(Tokens) BY <2>4, ConcatProperties
  <2>7. x \o z = a \o (b \o z) BY <2>4, ConcatAssociative
  <2>8. SubSeq(a \o (b \o z), Len(a) + 1, Len(a \o (b \o z))) = b \o z
    BY <2>4, <2>6, SuffixWhole
  <2>9. Len(a) + 1 = at BY <2>3, <2>4
  <2>10. SubSeq(x \o z, at, Len(x \o z)) = b \o z BY <2>7, <2>8, <2>9
  <2>11. e \in Seq(Tokens) BY <2>4, EscapeType, TranslateType DEF EncodeUserInfo
  <2> HIDE DEF e
  <2>12. e \o (b \o z) = (e \o b) \o z BY <2>4, <2>11, ConcatAssociative
  <2>13. e \o b \in Seq(Tokens) BY <2>4, <2>11, ConcatProperties
  <2> QED BY <2>1, <2>2, <2>5, <2>10, <2>12, <2>13 DEF e
<1> QED BY <1>3, <1>4

(* What sanitizeProxyURL makes of a text whose name has been taken off.    *)
EncodeMain(s) == EncodeUser(Upto(s, "?")) \o FromFirst(s, "?")

LEMMA EncodeMainConcat ==
  ASSUME NEW x \in Seq(Tokens), NEW y \in Seq(Tokens),
         Index(x, "?") # 0 \/ LastIndex(y, "@") = 0
  PROVE  EncodeMain(x \o y) = EncodeMain(x) \o y /\ EncodeMain(x) \in Seq(Tokens)
<1> DEFINE a == Upto(x, "?")
           b == FromFirst(x, "?")
<1>1. a \in Seq(Tokens) /\ b \in Seq(Tokens) /\ x = a \o b BY CutAt
<1>2. EncodeUser(a) \in Seq(Tokens)
  <2>1. << >> \in Seq(Tokens) /\ LastIndex(<< >>, "@") = 0
    <3>1. Len(<< >>) = 0 /\ << >> \in Seq(Tokens) OBVIOUS
    <3>2. LastIndex(<< >>, "@") \in 0 .. 0 BY <3>1, LastPlace
    <3> QED BY <3>1, <3>2
  <2> HIDE DEF a
  <2> QED BY <1>1, <2>1, EncodeUserConcat
<1>3. CASE Index(x, "?") # 0
  <2>1. Upto(x \o y, "?") = a /\ FromFirst(x \o y, "?") = b \o y BY <1>3, CutConcat
  <2> HIDE DEF a, b
  <2> DEFINE e == EncodeUser(a)
  <2>2. e \in Seq(Tokens) /\ b \in Seq(Tokens) BY <1>1, <1>2
  <2> HIDE DEF e
  <2>3. e \o (b \o y) = (e \o b) \o y BY <2>2, ConcatAssociative
  <2>4. e \o b \in Seq(Tokens) BY <2>2, ConcatProperties
  <2> QED BY <2>1, <2>3, <2>4 DEF EncodeMain, a, b, e
<1>4. CASE Index(x, "?") = 0
  <2> DEFINE c == Upto(y, "?")
             d == FromFirst(y, "?")
  <2>1. c \in Seq(Tokens) /\ d \in Seq(Tokens) /\ y = c \o d BY CutAt
  <2>2. Upto(x \o y, "?") = x \o c /\ FromFirst(x \o y, "?") = d BY <1>4, CutConcat
  <2>3. a = x /\ b = << >> BY <1>4, CutAt
  <2>4. LastIndex(y, "@") = 0 BY <1>4
  <2> HIDE DEF a, b, c, d
  <2>5. LastIndex(c, "@") = 0
    <3>1. LastIndex(y, "@") = IF LastIndex(d, "@") # 0 THEN Len(c) + LastIndex(d, "@")
                              ELSE LastIndex(c, "@")
      BY <2>1, LastConcat
    <3>2. LastIndex(d, "@") \in 0 .. Len(d) /\ Len(c) \in Nat BY <2>1, LastPlace
    <3> QED BY <2>4, <3>1, <3>2
  <2>6. EncodeUser(x \o c) = EncodeUser(x) \o c BY <2>1, <2>5, EncodeUserConcat
  <2>7. (EncodeUser(x) \o c) \o d = EncodeUser(x) \o (c \o d) BY <1>2, <2>1, <2>3, ConcatAssociative
  <2>8. EncodeMain(x) = EncodeUser(x)
    BY <1>2, <2>3, ConcatEmptySeq DEF EncodeMain, a, b
  <2>9. EncodeMain(x \o y) = EncodeUser(x \o c) \o d BY <2>2 DEF EncodeMain
  <2> QED BY <1>2, <2>1, <2>3, <2>6, <2>7, <2>8, <2>9
<1> QED BY <1>3, <1>4
-----------------------------------------------------------------------------
(* Two readers that cut a text at two places.                              *)

(* A prefix up to the cut, or the whole text. *)
LEMMA Cuts ==
  ASSUME NEW S, NEW s \in Seq(S), NEW t
  PROVE  /\ Upto(s, t) = SubSeq(s, 1, End(s, Index(s, t)) - 1)
         /\ End(s, Index(s, t)) \in 1 .. Len(s) + 1
         /\ End(s, Index(s, t)) <= Len(s) => s[End(s, Index(s, t))] = t
         /\ Before(s, LastIndex(s, t)) = SubSeq(s, 1, End(s, LastIndex(s, t)) - 1)
         /\ End(s, LastIndex(s, t)) \in 1 .. Len(s) + 1
         /\ End(s, LastIndex(s, t)) <= Len(s) => s[End(s, LastIndex(s, t))] = t
<1>1. Len(s) \in Nat /\ Len(s) + 1 - 1 = Len(s) OBVIOUS
<1>2. ASSUME NEW i \in 0 .. Len(s), i # 0 => s[i] = t
      PROVE  /\ Before(s, i) = SubSeq(s, 1, End(s, i) - 1)
             /\ End(s, i) \in 1 .. Len(s) + 1
             /\ End(s, i) <= Len(s) => s[End(s, i)] = t
  <2>1. CASE i = 0
    <3>1. End(s, i) = Len(s) + 1 BY <2>1 DEF End
    <3>2. Before(s, i) = SubSeq(s, 1, Len(s)) BY <2>1, SubSeqFull DEF Before
    <3> QED BY <1>1, <3>1, <3>2
  <2>2. CASE i # 0
    <3>1. End(s, i) = i /\ Before(s, i) = SubSeq(s, 1, i - 1) BY <2>2 DEF End, Before
    <3> QED BY <1>1, <1>2, <2>2, <3>1
  <2> QED BY <2>1, <2>2
<1>3. Index(s, t) \in 0 .. Len(s) /\ (Index(s, t) # 0 => s[Index(s, t)] = t) BY IndexPlace
<1>4. LastIndex(s, t) \in 0 .. Len(s) /\ (LastIndex(s, t) # 0 => s[LastIndex(s, t)] = t) BY LastPlace
<1>5. Upto(s, t) = Before(s, Index(s, t)) BY DEF Upto
<1> QED BY <1>2, <1>3, <1>4, <1>5

LEMMA NotInside ==
  ASSUME NEW S, NEW s \in Seq(S), NEW t
  PROVE  /\ t \notin ToSet(s) => Index(s, t) = 0 /\ LastIndex(s, t) = 0
         /\ t \in ToSet(s) => Index(s, t) # 0 /\ LastIndex(s, t) # 0
<1>1. Len(s) \in Nat /\ ToSet(s) = {s[i] : i \in 1 .. Len(s)} BY DEF ToSet
<1>2. Index(s, t) # 0 => s[Index(s, t)] = t /\ Index(s, t) \in 1 .. Len(s) BY <1>1, IndexPlace
<1>3. LastIndex(s, t) # 0 => s[LastIndex(s, t)] = t /\ LastIndex(s, t) \in 1 .. Len(s)
  BY <1>1, LastPlace
<1>4. ASSUME t \in ToSet(s) PROVE Index(s, t) # 0 /\ LastIndex(s, t) # 0
  <2>1. PICK k \in 1 .. Len(s) : s[k] = t BY <1>1, <1>4
  <2>2. Index(s, t) # 0 BY <2>1, IndexPlace
  <2>3. LastIndex(s, t) >= k BY <2>1, LastPlace
  <2> QED BY <2>1, <2>2, <2>3
<1> QED BY <1>1, <1>2, <1>3, <1>4

(* What comes behind a "#" does not matter up to the first one. *)
LEMMA BehindHash ==
  ASSUME NEW S, NEW x \in Seq(S), NEW y \in Seq(S), y = << >> \/ y[1] = "#"
  PROVE  Upto(x \o y, "#") = Upto(x, "#")
<1>1. Upto(y, "#") = << >>
  <2>1. CASE y = << >>
    <3>1. Upto(y, "#") = SubSeq(y, 1, End(y, Index(y, "#")) - 1) /\ End(y, Index(y, "#")) \in 1 .. Len(y) + 1
      BY Cuts
    <3>2. Len(y) = 0 BY <2>1
    <3>3. End(y, Index(y, "#")) = 1 BY <3>1, <3>2
    <3> QED BY <3>1, <3>3, SubSeqEmpty
  <2>2. CASE y # << >> /\ y[1] = "#"
    <3>1. 1 \in 1 .. Len(y) /\ Len(y) \in Nat BY <2>2, EmptySeq
    <3>2. Index(y, "#") # 0 /\ Index(y, "#") <= 1 /\ Index(y, "#") \in 0 .. Len(y)
      BY <2>2, <3>1, IndexPlace
    <3>3. Index(y, "#") = 1 BY <3>1, <3>2
    <3>4. Upto(y, "#") = SubSeq(y, 1, 1 - 1) BY <3>3 DEF Upto, Before
    <3> QED BY <3>4, SubSeqEmpty
  <2> QED BY <2>1, <2>2
<1>2. CASE Index(x, "#") # 0 BY <1>2, CutConcat
<1>3. CASE Index(x, "#") = 0
  <2>3. Upto(x \o y, "#") = x \o Upto(y, "#") BY <1>3, CutConcat
  <2>1. Upto(x \o y, "#") = x \o << >> BY <1>1, <2>3
  <2>2. Upto(x, "#") = x BY <1>3, CutAt
  <2> QED BY <2>1, <2>2, ConcatEmptySeq
<1> QED BY <1>2, <1>3

LEMMA CutEarlier ==
  ASSUME NEW u \in Seq(Tokens), NEW a \in 1 .. Len(u) + 1, NEW b \in a .. Len(u) + 1,
         a < b => /\ u[a] = "#"
                  /\ \/ "?" \in ToSet(SubSeq(u, 1, a - 1))
                     \/ "@" \notin ToSet(SubSeq(u, a, b - 1))
  PROVE  Upto(EncodeMain(SubSeq(u, 1, b - 1)), "#") = Upto(EncodeMain(SubSeq(u, 1, a - 1)), "#")
<1>1. CASE a = b BY <1>1
<1>2. CASE a < b
  <2> DEFINE x == SubSeq(u, 1, a - 1)
             y == SubSeq(u, a, b - 1)
  <2>1. /\ Len(u) \in Nat /\ 1 \in 1 .. Len(u) + 1 /\ a - 1 \in 1 - 1 .. Len(u)
        /\ b - 1 \in a - 1 .. Len(u) /\ a - 1 + 1 = a /\ a \in Int /\ b - 1 \in Int
    BY <1>2
  <2>2. x \o SubSeq(u, a - 1 + 1, b - 1) = SubSeq(u, 1, b - 1) BY <2>1, ConcatAdjacentSubSeq
  <2>3. x \in Seq(Tokens) BY Parts
  <2>4. \A i \in a .. b - 1 : u[i] \in Tokens BY <2>1
  <2>5. /\ y \in Seq(Tokens) /\ Len(y) = IF a <= b - 1 THEN b - 1 - a + 1 ELSE 0
        /\ \A i \in 1 .. b - 1 - a + 1 : y[i] = u[a + i - 1]
    BY <2>1, <2>4, SubSeqProperties
  <2>6. 1 \in 1 .. b - 1 - a + 1 /\ a + 1 - 1 = a BY <1>2
  <2>7. y[1] = "#" BY <1>2, <2>5, <2>6
  <2>8. SubSeq(u, 1, b - 1) = x \o y BY <2>1, <2>2
  <2>9. "?" \in ToSet(x) \/ "@" \notin ToSet(y) BY <1>2
  <2> HIDE DEF x, y
  <2>10. Index(x, "?") # 0 \/ LastIndex(y, "@") = 0 BY <2>3, <2>5, <2>9, NotInside
  <2>11. EncodeMain(x \o y) = EncodeMain(x) \o y /\ EncodeMain(x) \in Seq(Tokens)
    BY <2>3, <2>5, <2>10, EncodeMainConcat
  <2>12. Upto(EncodeMain(x) \o y, "#") = Upto(EncodeMain(x), "#")
    BY <2>5, <2>7, <2>11, BehindHash
  <2> QED BY <2>8, <2>11, <2>12 DEF x
<1> QED BY <1>1, <1>2

LEMMA EncodeMainType == ASSUME NEW x \in Seq(Tokens) PROVE EncodeMain(x) \in Seq(Tokens)
<1>1. Len(<< >>) = 0 /\ << >> \in Seq(Tokens) OBVIOUS
<1>2. LastIndex(<< >>, "@") \in 0 .. 0 BY <1>1, LastPlace
<1>3. LastIndex(<< >>, "@") = 0 BY <1>2
<1> QED BY <1>1, <1>3, EncodeMainConcat

(* The name that is left behind does not matter to url.Parse.              *)
LEMMA EncodeUptoName ==
  ASSUME NEW u \in Seq(Tokens)
  PROVE  Upto(Encode(u), "#") = Upto(EncodeMain(Unnamed(u)), "#")
<1> DEFINE i == LastIndex(u, "#")
           e == EncodeMain(Unnamed(u))
           f == Fragment(u)
<1>1. Encode(u) = e \o f BY DEF Encode, EncodeMain
<1>2. /\ Unnamed(u) = SubSeq(u, 1, End(u, i) - 1) /\ End(u, i) \in 1 .. Len(u) + 1
  BY Cuts DEF Unnamed
<1>3. SubSeq(u, 1, End(u, i) - 1) \in Seq(Tokens) BY <1>2, Parts
<1>4. e \in Seq(Tokens) BY <1>2, <1>3, EncodeMainType
<1>5. f \in Seq(Tokens) /\ (f = << >> \/ f[1] = "#")
  <2>1. CASE i = 0
    <3>1. f = << >> BY <2>1 DEF Fragment, From
    <3> QED BY <3>1
  <2>2. CASE i # 0
    <3>1. i \in 0 .. Len(u) /\ u[i] = "#" /\ Len(u) \in Nat BY <2>2, LastPlace
    <3>2. f = SubSeq(u, i, Len(u)) BY <2>2 DEF Fragment, From
    <3> HIDE DEF i
    <3>3. i \in Int /\ \A k \in i .. Len(u) : u[k] \in Tokens BY <2>2, <3>1
    <3>4. /\ SubSeq(u, i, Len(u)) \in Seq(Tokens)
          /\ \A k \in 1 .. Len(u) - i + 1 : SubSeq(u, i, Len(u))[k] = u[i + k - 1]
      BY <3>1, <3>3, SubSeqProperties
    <3>5. 1 \in 1 .. Len(u) - i + 1 /\ i + 1 - 1 = i BY <3>1
    <3> QED BY <3>1, <3>2, <3>4, <3>5
  <2> QED BY <2>1, <2>2
<1> HIDE DEF e, f
<1>6. Upto(e \o f, "#") = Upto(e, "#") BY <1>4, <1>5, BehindHash
<1> QED BY <1>1, <1>6 DEF e

-----------------------------------------------------------------------------
(* The loop of sanitizeProxyURL, and the name that renameTo writes.        *)
LEMMA Unescaped ==
  ASSUME NEW s \in Seq(Tokens)
  PROVE  /\ UnescapeAll(s) \in Seq(Tokens) /\ Len(UnescapeAll(s)) = Len(s)
         /\ \A i \in 1 .. Len(s) : s[i] \notin DOMAIN Plain \cup {"+"} => UnescapeAll(s)[i] = s[i]
<1> DEFINE f == Over([t \in {"+"} |-> " "], Plain)
<1>1. DOMAIN f = {"+"} \cup DOMAIN Plain BY DEF Over
<1>2. \A t \in DOMAIN f : f[t] \in Tokens
  <2>1. " " \in Tokens BY DEF Tokens
  <2>2. \A t \in DOMAIN f : f[t] = IF t \in {"+"} THEN " " ELSE Plain[t] BY DEF Over
  <2> QED BY <1>1, <2>1, <2>2, PlainType
<1>3. UnescapeAll(s) = IF \E i \in DOMAIN s : s[i] \in DOMAIN Plain THEN Translate(s, f) ELSE s
  BY DEF UnescapeAll
<1> HIDE DEF f
<1>4. /\ Translate(s, f) \in Seq(Tokens) /\ Len(Translate(s, f)) = Len(s)
      /\ \A i \in 1 .. Len(s) : Translate(s, f)[i] = IF s[i] \in DOMAIN f THEN f[s[i]] ELSE s[i]
  BY <1>2, TranslateType
<1> QED BY <1>1, <1>3, <1>4

LEMMA UnescapeConcat ==
  ASSUME NEW s \in Seq(Tokens), NEW r \in Seq(Tokens),
         \A i \in 1 .. Len(r) : r[i] \notin DOMAIN Plain \cup {"+"}
  PROVE  UnescapeAll(s \o r) = UnescapeAll(s) \o r
<1> DEFINE z == s \o r
           f == Over([t \in {"+"} |-> " "], Plain)
<1>1. /\ z \in Seq(Tokens) /\ Len(z) = Len(s) + Len(r) /\ Len(s) \in Nat /\ Len(r) \in Nat
      /\ \A i \in 1 .. Len(z) : z[i] = IF i <= Len(s) THEN s[i] ELSE r[i - Len(s)]
  BY ConcatProperties
<1>2. DOMAIN z = 1 .. Len(z) /\ DOMAIN s = 1 .. Len(s) BY <1>1
<1> HIDE DEF z
<1>3. (\E i \in DOMAIN z : z[i] \in DOMAIN Plain) <=> \E i \in DOMAIN s : s[i] \in DOMAIN Plain
  <2>1. ASSUME NEW i \in DOMAIN s, s[i] \in DOMAIN Plain PROVE i \in DOMAIN z /\ z[i] \in DOMAIN Plain
    BY <1>1, <1>2, <2>1
  <2>2. ASSUME NEW i \in DOMAIN z, z[i] \in DOMAIN Plain PROVE i \in DOMAIN s /\ s[i] \in DOMAIN Plain
    <3>1. CASE i <= Len(s) BY <1>1, <1>2, <2>2, <3>1
    <3>2. CASE ~(i <= Len(s))
      <4>1. i - Len(s) \in 1 .. Len(r) /\ z[i] = r[i - Len(s)] BY <1>1, <1>2, <3>2
      <4> QED BY <2>2, <4>1
    <3> QED BY <3>1, <3>2
  <2> QED BY <2>1, <2>2
<1>4. CASE ~\E i \in DOMAIN s : s[i] \in DOMAIN Plain
  <2>1. UnescapeAll(s) = s BY <1>4 DEF UnescapeAll
  <2>2. UnescapeAll(z) = z BY <1>3, <1>4 DEF UnescapeAll
  <2> QED BY <2>1, <2>2 DEF z
<1>5. CASE \E i \in DOMAIN s : s[i] \in DOMAIN Plain
  <2>1. UnescapeAll(s) = Translate(s, f) BY <1>5 DEF UnescapeAll
  <2>2. UnescapeAll(z) = Translate(z, f) BY <1>3, <1>5 DEF UnescapeAll
  <2>3. DOMAIN f = {"+"} \cup DOMAIN Plain BY DEF Over
  <2> DEFINE a == Translate(s, f)
             b == Translate(z, f)
             c == a \o r
  <2>4. a \in Seq(Tokens) /\ b \in Seq(Tokens) /\ Len(a) = Len(s) /\ Len(b) = Len(z)
    BY <1>1, <2>1, <2>2, Unescaped
  <2>5. /\ c \in Seq(Tokens) /\ Len(c) = Len(a) + Len(r)
        /\ \A i \in 1 .. Len(a) + Len(r) : c[i] = IF i <= Len(a) THEN a[i] ELSE r[i - Len(a)]
    <3> SUFFICES /\ a \o r \in Seq(Tokens) /\ Len(a \o r) = Len(a) + Len(r)
                 /\ \A i \in 1 .. Len(a) + Len(r) :
                      (a \o r)[i] = IF i <= Len(a) THEN a[i] ELSE r[i - Len(a)]
      OBVIOUS
    <3> HIDE DEF a
    <3>1. a \in Seq(Tokens) /\ r \in Seq(Tokens) BY <2>4
    <3> QED BY <3>1, ConcatProperties
  <2> HIDE DEF f
  <2>6. \A i \in 1 .. Len(z) : b[i] = IF z[i] \in DOMAIN f THEN f[z[i]] ELSE z[i]
    BY <1>2 DEF Translate
  <2>7. \A i \in 1 .. Len(s) : a[i] = IF s[i] \in DOMAIN f THEN f[s[i]] ELSE s[i]
    BY <1>2 DEF Translate
  <2> HIDE DEF a, b, c
  <2>8. ASSUME NEW i \in 1 .. Len(b) PROVE b[i] = c[i]
    <3>1. i \in 1 .. Len(z) /\ i \in 1 .. Len(a) + Len(r) BY <1>1, <2>4
    <3>2. CASE i <= Len(s)
      <4>1. i \in 1 .. Len(s) /\ z[i] = s[i] /\ c[i] = a[i] BY <1>1, <2>4, <2>5, <3>1, <3>2
      <4> QED BY <2>6, <2>7, <3>1, <4>1
    <3>3. CASE ~(i <= Len(s))
      <4>1. i - Len(s) \in 1 .. Len(r) /\ z[i] = r[i - Len(s)] /\ c[i] = r[i - Len(s)]
        BY <1>1, <2>4, <2>5, <3>1, <3>3
      <4>2. z[i] \notin DOMAIN f BY <2>3, <4>1
      <4> QED BY <2>6, <3>1, <4>1, <4>2
    <3> QED BY <3>2, <3>3
  <2>9. Len(b) = Len(c) BY <1>1, <2>4, <2>5
  <2>10. b = c BY <2>4, <2>5, <2>8, <2>9, SeqEqual
  <2> QED BY <2>1, <2>2, <2>10 DEF a, b, c, z
<1> QED BY <1>4, <1>5

NewName == <<"#">> \o <<"@", "name">>

LEMMA NameWritten ==
  /\ PathEscape(v2rayName) = <<"@", "name">>
  /\ NewName \in Seq(Tokens) /\ LastIndex(NewName, "#") = 1
  /\ \A i \in 1 .. Len(NewName) : NewName[i] \notin DOMAIN Plain \cup {"+"}
<1>1. PathEscape(v2rayName) = <<"@", "name">>
  <2> DEFINE f == [t \in DOMAIN Escape \ {"@"} |-> Escape[t]]
             n == <<"@", "name">>
  <2>1. DOMAIN Escape = {"/", "?", "#", "@", " "} BY DEF Escape
  <2>2. "@" \notin DOMAIN f /\ "name" \notin DOMAIN f BY <2>1
  <2>3. PathEscape(v2rayName) = Translate(n, f) BY DEF PathEscape, v2rayName
  <2>4. DOMAIN n = 1 .. 2 /\ n[1] = "@" /\ n[2] = "name" OBVIOUS
  <2> HIDE DEF f
  <2>5. \A i \in 1 .. 2 : n[i] \notin DOMAIN f BY <2>2, <2>4
  <2>6. Translate(n, f) = [i \in 1 .. 2 |-> n[i]] BY <2>4, <2>5 DEF Translate
  <2>7. n = [i \in 1 .. 2 |-> n[i]] OBVIOUS
  <2> QED BY <2>3, <2>6, <2>7
<1>2. "#" \in Tokens /\ "@" \in Tokens /\ "name" \in Tokens BY DEF Tokens
<1>4. /\ NewName \in Seq(Tokens) /\ Len(NewName) = 3
      /\ NewName[1] = "#" /\ NewName[2] = "@" /\ NewName[3] = "name"
  <2> DEFINE x == <<"#">>
             y == <<"@", "name">>
  <2>1. x \in Seq(Tokens) /\ Len(x) = 1 /\ x[1] = "#" BY <1>2
  <2>2. y \in Seq(Tokens) /\ Len(y) = 2 /\ y[1] = "@" /\ y[2] = "name" BY <1>2
  <2>3. NewName = x \o y BY DEF NewName
  <2> HIDE DEF x, y
  <2>4. /\ x \o y \in Seq(Tokens) /\ Len(x \o y) = 1 + 2
        /\ \A i \in 1 .. 1 + 2 : (x \o y)[i] = IF i <= 1 THEN x[i] ELSE y[i - 1]
    <3>1. x \in Seq(Tokens) /\ y \in Seq(Tokens) BY <2>1, <2>2
    <3>2. /\ x \o y \in Seq(Tokens) /\ Len(x \o y) = Len(x) + Len(y)
          /\ \A i \in 1 .. Len(x) + Len(y) : (x \o y)[i] = IF i <= Len(x) THEN x[i] ELSE y[i - Len(x)]
      BY <3>1, ConcatProperties
    <3> QED BY <2>1, <2>2, <3>2
  <2> QED BY <2>1, <2>2, <2>3, <2>4
<1>5. LastIndex(NewName, "#") = 1
  <2>1. /\ LastIndex(NewName, "#") \in 0 .. 3
        /\ LastIndex(NewName, "#") # 0 => NewName[LastIndex(NewName, "#")] = "#"
        /\ NewName[1] = "#" => LastIndex(NewName, "#") >= 1
    BY <1>4, LastPlace
  <2> QED BY <1>4, <2>1
<1>6. \A i \in 1 .. 3 : NewName[i] \in {"#", "@", "name"} BY <1>4
<1>7. \A t \in {"#", "@", "name"} : t \notin DOMAIN Plain \cup {"+"} BY PlainType
<1> QED BY <1>1, <1>4, <1>5, <1>6, <1>7

LEMMA NameTakenOff == ASSUME NEW s \in Seq(Tokens) PROVE Unnamed(s \o NewName) = s
<1>1. LastIndex(s \o NewName, "#") = Len(s) + 1 BY NameWritten, LastConcat
<1>2. Len(s) \in Nat /\ Len(s) + 1 # 0 /\ Len(s) + 1 - 1 = Len(s) OBVIOUS
<1>3. Unnamed(s \o NewName) = SubSeq(s \o NewName, 1, Len(s)) BY <1>1, <1>2 DEF Unnamed, Before
<1>4. SubSeq(s \o NewName, 1, Len(s)) = SubSeq(s, 1, Len(s)) BY <1>2, NameWritten, PrefixConcat
<1> QED BY <1>3, <1>4, SubSeqFull

-----------------------------------------------------------------------------
(* renameTo and its reader. *)
LEMMA TextOf == ASSUME NEW l, IsLink(l) PROVE l.tok \in Seq(Tokens)
<1>1. STRING \subseteq Tokens BY DEF Tokens
<1> QED BY <1>1, SeqMonotonic DEF IsLink

LEMMA NewText ==
  ASSUME NEW s \in Seq(Tokens)
  PROVE  s \o <<"#">> \o PathEscape(v2rayName) = s \o NewName
<1> DEFINE x == <<"#">>
           y == <<"@", "name">>
<1>1. "#" \in Tokens /\ "@" \in Tokens /\ "name" \in Tokens BY DEF Tokens
<1>2. x \in Seq(Tokens) /\ y \in Seq(Tokens) BY <1>1
<1>3. PathEscape(v2rayName) = y BY NameWritten
<1> HIDE DEF x, y
<1>4. (s \o x) \o y = s \o (x \o y) BY <1>2, ConcatAssociative
<1> QED BY <1>3, <1>4 DEF NewName, x, y

LEMMA TwoNumbers ==
  ASSUME NEW a \in Int, NEW b \in Int, a < b
  PROVE  Min({a, b}) = a /\ Max({a, b}) = b
<1>1. \E x \in {a, b} : \A y \in {a, b} : x <= y OBVIOUS
<1>2. \E x \in {a, b} : \A y \in {a, b} : x >= y OBVIOUS
<1>3. Min({a, b}) \in {a, b} /\ \A y \in {a, b} : Min({a, b}) <= y BY <1>1 DEF Min
<1>4. Max({a, b}) \in {a, b} /\ \A y \in {a, b} : Max({a, b}) >= y BY <1>2 DEF Max
<1>5. Min({a, b}) <= a /\ Max({a, b}) >= b BY <1>3, <1>4
<1> QED BY <1>3, <1>4, <1>5

LEMMA SanitizeName ==
  ASSUME NEW l, IsLink(l), l.proto \notin {"vmess", "ss", "hy2"},
         ~CutTwice(l), ~SpacedByName(l)
  PROVE  Upto(Sanitize(RenameTo(l).tok), "#") = Upto(Sanitize(l.tok), "#")
<1> DEFINE s == l.tok
           n == NameCut(l)
           k == ReadCut(l)
           u == UnescapeAll(s)
           a == SubSeq(s, 1, n - 1)
<1>1. s \in Seq(Tokens) BY TextOf
<1>2. TextRead(l) = u BY DEF TextRead
<1>3. u \in Seq(Tokens) /\ Len(u) = Len(s) /\ Len(s) \in Nat BY <1>1, Unescaped
<1>4. n \in 1 .. Len(s) + 1 /\ (n <= Len(s) => s[n] = "#") /\ Upto(s, "#") = a
  BY <1>1, Cuts DEF NameCut
<1>5. /\ k \in 1 .. Len(s) + 1 /\ (k <= Len(s) => u[k] = "#")
      /\ Unnamed(u) = SubSeq(u, 1, k - 1)
  BY <1>2, <1>3, Cuts DEF ReadCut, Unnamed, End
<1>6. n <= Len(s) => u[n] = "#"
  <2>1. "#" \notin DOMAIN Plain \cup {"+"} BY PlainType
  <2>2. \A i \in 1 .. Len(s) : s[i] \notin DOMAIN Plain \cup {"+"} => u[i] = s[i]
    BY <1>1, Unescaped
  <2> HIDE DEF u, n, s
  <2>3. n <= Len(s) => n \in 1 .. Len(s) BY <1>3, <1>4
  <2> QED BY <1>4, <2>1, <2>2, <2>3
<1>7. UnescapeAll(a) = SubSeq(u, 1, n - 1)
  <2>1. n # 0 BY <1>4
  <2>2. Before(s, n) = a /\ Before(u, n) = SubSeq(u, 1, n - 1) BY <2>1 DEF Before
  <2> QED BY <1>2, <2>2 DEF SpacedByName
<1>8. a \in Seq(Tokens) BY <1>1, <1>4, Parts
<1>9. RenameTo(l).tok = a \o NewName
  <2>1. RenameTo(l).tok = Upto(s, "#") \o <<"#">> \o PathEscape(v2rayName)
    BY DEF RenameTo, IsLink, Link
  <2> QED BY <1>4, <1>8, <2>1, NewText
<1> HIDE DEF s, n, k, a
<1>10. Upto(Sanitize(s), "#") = Upto(EncodeMain(SubSeq(u, 1, k - 1)), "#")
  BY <1>3, <1>5, EncodeUptoName DEF Sanitize
<1>11. Upto(Sanitize(a \o NewName), "#") = Upto(EncodeMain(SubSeq(u, 1, n - 1)), "#")
  <2> DEFINE b == SubSeq(u, 1, n - 1)
  <2>1. n \in 1 .. Len(u) + 1 BY <1>3, <1>4
  <2>2. b \in Seq(Tokens) BY <1>3, <2>1, Parts
  <2>3. UnescapeAll(a \o NewName) = b \o NewName BY <1>7, <1>8, NameWritten, UnescapeConcat
  <2> HIDE DEF b
  <2>4. b \o NewName \in Seq(Tokens) BY <2>2, NameWritten, ConcatProperties
  <2>5. Upto(Encode(b \o NewName), "#") = Upto(EncodeMain(b), "#")
    BY <2>2, <2>4, EncodeUptoName, NameTakenOff
  <2> QED BY <2>3, <2>5 DEF Sanitize, b
<1> HIDE DEF u
<1>12. ASSUME NEW lo \in 1 .. Len(s) + 1, NEW hi \in 1 .. Len(s) + 1, lo < hi, {lo, hi} = {n, k}
       PROVE  Upto(EncodeMain(SubSeq(u, 1, hi - 1)), "#") = Upto(EncodeMain(SubSeq(u, 1, lo - 1)), "#")
  <2>1. u[lo] = "#"
    <3>1. lo <= Len(s) BY <1>3, <1>12
    <3>2. lo \in {n, k} BY <1>12
    <3> QED BY <1>5, <1>6, <3>1, <3>2
  <2>2. Min({n, k}) = lo /\ Max({n, k}) = hi
    <3>1. lo \in Int /\ hi \in Int BY <1>3
    <3>2. Min({lo, hi}) = lo /\ Max({lo, hi}) = hi BY <1>12, <3>1, TwoNumbers
    <3> QED BY <1>12, <3>2
  <2>3. n # k BY <1>12
  <2>4. ~ /\ "@" \in ToSet(SubSeq(u, lo, hi - 1))
          /\ ~("?" \in ToSet(SubSeq(u, 1, lo - 1)))
    BY <1>2, <2>2, <2>3 DEF CutTwice, n, k
  <2>5. lo \in 1 .. Len(u) + 1 /\ hi \in lo .. Len(u) + 1 BY <1>3, <1>12
  <2> QED BY <1>3, <2>1, <2>4, <2>5, CutEarlier
<1>13. CASE n = k BY <1>9, <1>10, <1>11, <1>13 DEF s
<1>14. CASE n < k
  <2>1. Upto(EncodeMain(SubSeq(u, 1, k - 1)), "#") = Upto(EncodeMain(SubSeq(u, 1, n - 1)), "#")
    BY <1>4, <1>5, <1>12, <1>14
  <2> QED BY <1>9, <1>10, <1>11, <2>1 DEF s
<1>15. CASE k < n
  <2>1. Upto(EncodeMain(SubSeq(u, 1, n - 1)), "#") = Upto(EncodeMain(SubSeq(u, 1, k - 1)), "#")
    BY <1>4, <1>5, <1>12, <1>15
  <2> QED BY <1>9, <1>10, <1>11, <2>1 DEF s
<1>16. n \in Int /\ k \in Int BY <1>4, <1>5
<1> QED BY <1>13, <1>14, <1>15, <1>16

(* vmess: what the JSON object says but for its name; or a URI.            *)
LEMMA SameVMess == ASSUME NEW l, IsLink(l), l.proto = "vmess"
                   PROVE  ParseVMess(RenameTo(l)) = ParseVMess(l)
<1> DEFINE data == Unnamed(l.tok)
           r == RenameTo(l)
<1>1. r = RenameVMess(l) BY DEF RenameTo
<1>2. CASE data \in {<<"json">>, <<"json64">>}
  <2> DEFINE q == Over([ps |-> "@name"], l.q)
  <2>1. r.tok = <<"json64">> /\ r.q = q
    <3>1. r = [l EXCEPT !.tok = <<"json64">>, !.q = q]
      <4>1. r = CASE data \in {<<"json">>, <<"json64">>} -> [l EXCEPT !.tok = <<"json64">>, !.q = q]
                  [] Index(data, "@") # 0 -> [l EXCEPT !.tok = data \o <<"#">> \o PathEscape(v2rayName)]
                  [] OTHER -> l
        BY <1>1, Zenon DEF RenameVMess
      <4>2. Index(data, "@") = 0
        <5>1. PICK w \in {"json", "json64"} : data = <<w>> BY <1>2
        <5>2. <<w>> \in Seq({"json", "json64"}) /\ Len(<<w>>) = 1 /\ <<w>>[1] = w OBVIOUS
        <5>3. Index(<<w>>, "@") \in 0 .. 1 /\ (Index(<<w>>, "@") # 0 => <<w>>[Index(<<w>>, "@")] = "@")
          BY <5>2, IndexPlace
        <5>4. w # "@" OBVIOUS
        <5> QED BY <5>1, <5>2, <5>3, <5>4
      <4> HIDE DEF r, data, q
      <4> QED BY <1>2, <4>1, <4>2
    <3>2. l = [proto |-> l.proto, tok |-> l.tok, q |-> l.q, enc |-> l.enc] BY DEF IsLink, Link
    <3> HIDE DEF q, r
    <3> QED BY <3>1, <3>2
  <2>2. Unnamed(<<"json64">>) = <<"json64">> /\ Word(<<"json64">>) = "json64"
    <3> DEFINE w == <<"json64">>
    <3>1. w \in Seq({"json64"}) /\ Len(w) = 1 /\ w[1] = "json64" OBVIOUS
    <3>2. LastIndex(w, "#") \in 0 .. 1 /\ (LastIndex(w, "#") # 0 => w[LastIndex(w, "#")] = "#")
      BY <3>1, LastPlace
    <3>3. LastIndex(w, "#") = 0 BY <3>1, <3>2
    <3>4. w # << >> OBVIOUS
    <3> QED BY <3>1, <3>3, <3>4 DEF Unnamed, Before, Word
  <2>3. ASSUME NEW d, d # "ps"
        PROVE  /\ (d \in DOMAIN q <=> d \in DOMAIN l.q)
               /\ (d \in DOMAIN q => q[d] = l.q[d])
    <3>1. DOMAIN q = {"ps"} \cup DOMAIN l.q BY DEF Over
    <3>2. DOMAIN [ps |-> "@name"] = {"ps"} OBVIOUS
    <3> QED BY <2>3, <3>1, <3>2 DEF Over
  <2>4. ASSUME NEW d, d # "ps" PROVE Get(q, d) = Get(l.q, d) /\ Sprint(q, d) = Sprint(l.q, d)
    <3> HIDE DEF q
    <3> QED BY <2>3, <2>4, Zenon DEF Get, Sprint
  <2> HIDE DEF q
  <2>5. VMess(<<Sprint(q, "id")>>, q) = VMess(<<Sprint(l.q, "id")>>, l.q)
    <3>1. /\ Sprint(q, "id") = Sprint(l.q, "id") /\ Sprint(q, "add") = Sprint(l.q, "add")
          /\ Sprint(q, "port") = Sprint(l.q, "port")
      BY <2>4
    <3>2. /\ Get(q, "net") = Get(l.q, "net") /\ Get(q, "tls") = Get(l.q, "tls")
          /\ Get(q, "sni") = Get(l.q, "sni") /\ Get(q, "host") = Get(l.q, "host")
          /\ Get(q, "path") = Get(l.q, "path")
          /\ Get(q, "serviceName") = Get(l.q, "serviceName")
      BY <2>4
    <3> QED BY <3>1, <3>2, Zenon DEF VMess
  <2>6. data = <<"json">> \/ Word(data) = "json64"
    <3>1. CASE data = <<"json64">> BY <2>2, <3>1
    <3> QED BY <1>2, <3>1
  <2>7. ParseVMess(l) = VMess(<<Sprint(l.q, "id")>>, l.q) BY <2>6 DEF ParseVMess
  <2>8. ParseVMess(r) = VMess(<<Sprint(q, "id")>>, q)
    <3> HIDE DEF r
    <3> QED BY <2>1, <2>2 DEF ParseVMess
  <2> QED BY <2>5, <2>7, <2>8
<1>3. CASE data \notin {<<"json">>, <<"json64">>} /\ Index(data, "@") # 0
  <2>1. /\ r.tok = data \o <<"#">> \o PathEscape(v2rayName)
        /\ r.q = l.q /\ r.enc = l.enc /\ r.proto = l.proto
    BY <1>1, <1>3 DEF RenameVMess, IsLink, Link
  <2>2. l.tok \in Seq(Tokens) BY TextOf
  <2>3. data \in Seq(Tokens)
    <3> DEFINE k == End(l.tok, LastIndex(l.tok, "#"))
    <3>1. data = SubSeq(l.tok, 1, k - 1) /\ k \in 1 .. Len(l.tok) + 1
      BY <2>2, Cuts DEF Unnamed
    <3> HIDE DEF k, data
    <3> QED BY <2>2, <3>1, Parts
  <2>6. Unnamed(l.tok) = data OBVIOUS
  <2> HIDE DEF data, r
  <2>4. Unnamed(r.tok) = data BY <2>1, <2>3, NewText, NameTakenOff
  <2>5. \A u : VMessByURI(r, u) = VMessByURI(l, u)
    <3>1. \A u : Params(r, u) = Params(l, u) BY <2>1 DEF Params
    <3> QED BY <3>1, Zenon DEF VMessByURI
  <2>7. ParseVMess(r) = ParseVMess(l) BY <2>1, <2>4, <2>5, <2>6 DEF ParseVMess
  <2> QED BY <2>7 DEF r
<1>4. CASE data \notin {<<"json">>, <<"json64">>} /\ Index(data, "@") = 0
  <2>1. r = l BY <1>1, <1>4 DEF RenameVMess
  <2> QED BY <2>1
<1> QED BY <1>2, <1>3, <1>4

(* ss and hy2: one "#", so both cut there.                                 *)
LEMMA SameText ==
  ASSUME NEW l, IsLink(l), l.proto \in {"ss", "hy2"}, ~CutTwice(l)
  PROVE  LET r == RenameTo(l)
         IN  /\ Unnamed(r.tok) = Unnamed(l.tok)
             /\ r.proto = l.proto /\ r.q = l.q /\ r.enc = l.enc
<1> DEFINE s == l.tok
           r == RenameTo(l)
<1>1. s \in Seq(Tokens) BY TextOf
<1>2. l.proto # "vmess" OBVIOUS
<1>3. /\ r.tok = Upto(s, "#") \o <<"#">> \o PathEscape(v2rayName)
      /\ r.proto = l.proto /\ r.q = l.q /\ r.enc = l.enc
  BY <1>2 DEF RenameTo, IsLink, Link
<1>4. NameCut(l) = ReadCut(l) BY <1>2 DEF CutTwice
<1>5. TextRead(l) = s BY DEF TextRead
<1>6. Upto(s, "#") = Unnamed(s)
  <2>1. Upto(s, "#") = SubSeq(s, 1, NameCut(l) - 1) BY <1>1, Cuts DEF NameCut
  <2>2. Unnamed(s) = SubSeq(s, 1, ReadCut(l) - 1) BY <1>1, <1>5, Cuts DEF ReadCut, Unnamed
  <2> QED BY <1>4, <2>1, <2>2
<1>7. Upto(s, "#") \in Seq(Tokens) BY <1>1, CutAt
<1> HIDE DEF s, r
<1>8. Unnamed(r.tok) = Upto(s, "#") BY <1>3, <1>7, NewText, NameTakenOff
<1> QED BY <1>3, <1>6, <1>8 DEF s, r

LEMMA SameShadowsocks ==
  ASSUME NEW l, NEW r, Unnamed(r.tok) = Unnamed(l.tok), r.enc = l.enc
  PROVE  ParseSS(r) = ParseSS(l)
<1>1. \A s : Decode(r, s) = Decode(l, s) BY DEF Decode
<1>2. \A user : SSUser(r, user) = SSUser(l, user) BY <1>1 DEF SSUser
<1>3. \A user, host : SSUserAndHost(r, user, host) = SSUserAndHost(l, user, host)
  BY <1>2, Zenon DEF SSUserAndHost
<1>4. \A tok : SSByAt(r, tok) = SSByAt(l, tok) BY <1>1, <1>3 DEF SSByAt
<1>5. \A u : SSByURL(r, u) = SSByURL(l, u) BY <1>1, Zenon DEF SSByURL
<1>6. ASSUME NEW u, NEW o PROVE SSRead(r, u, o) = SSRead(l, u, o)
  <2> DEFINE quick == ~u.err /\ u.hasUser /\ u.host # ""
             Read(s) == IF quick /\ u.hasPass /\ IsUUID(u.user) THEN Rejected
                        ELSE IF quick /\ Accepted(s) THEN s
                        ELSE o
  <2>1. SSRead(r, u, o) = Read(SSByURL(r, u)) BY Zenon DEF SSRead
  <2>2. SSRead(l, u, o) = Read(SSByURL(l, u)) BY Zenon DEF SSRead
  <2> HIDE DEF quick, Read
  <2> QED BY <1>5, <2>1, <2>2
<1> QED BY <1>4, <1>6 DEF ParseSS

LEMMA SameHysteria2 ==
  ASSUME NEW l, NEW r, Unnamed(r.tok) = Unnamed(l.tok), r.q = l.q
  PROVE  ParseHysteria2(r) = ParseHysteria2(l)
<1>1. Hy2Main(r.tok) = Hy2Main(l.tok) BY DEF Hy2Main
<1>2. Hy2Host(r.tok) = Hy2Host(l.tok) BY <1>1 DEF Hy2Host
<1> QED BY <1>1, <1>2 DEF ParseHysteria2

(* Renaming changes nothing for the reader. *)
LEMMA RenamedIsSame ==
  ASSUME NEW l, IsLink(l), ~CutTwice(l), ~SpacedByName(l)
  PROVE  ToSingBoxOutbound(RenameTo(l)) = ToSingBoxOutbound(l)
<1> DEFINE r == RenameTo(l)
<1>1. CASE l.proto = "vmess"
  <2>1. r.proto = "vmess"
    <3>1. r = RenameVMess(l) BY <1>1 DEF RenameTo
    <3>2. l = [proto |-> l.proto, tok |-> l.tok, q |-> l.q, enc |-> l.enc] BY DEF IsLink, Link
    <3>3. \A q, tok : [l EXCEPT !.tok = tok, !.q = q].proto = l.proto BY <3>2
    <3>4. \A tok : [l EXCEPT !.tok = tok].proto = l.proto BY <3>2
    <3> HIDE DEF r
    <3> QED BY <1>1, <3>1, <3>3, <3>4 DEF RenameVMess
  <2>2. ToSingBoxOutbound(l) = ParseVMess(l) BY <1>1 DEF ToSingBoxOutbound
  <2>3. ToSingBoxOutbound(r) = ParseVMess(r)
    <3> HIDE DEF r
    <3> QED BY <2>1 DEF ToSingBoxOutbound
  <2> QED BY <1>1, <2>2, <2>3, SameVMess
<1>2. CASE l.proto \in {"ss", "hy2"}
  <2>1. Unnamed(r.tok) = Unnamed(l.tok) /\ r.proto = l.proto /\ r.q = l.q /\ r.enc = l.enc
    BY <1>2, SameText
  <2> HIDE DEF r
  <2>2. ParseSS(r) = ParseSS(l) /\ ParseHysteria2(r) = ParseHysteria2(l)
    BY <2>1, SameShadowsocks, SameHysteria2
  <2>3. ToSingBoxOutbound(r) = ToSingBoxOutbound(l) BY <1>2, <2>1, <2>2 DEF ToSingBoxOutbound
  <2> QED BY <2>3 DEF r
<1>3. CASE l.proto \notin {"vmess", "ss", "hy2"}
  <2>1. r.proto = l.proto /\ r.q = l.q
    <3>1. r = [l EXCEPT !.tok = Upto(l.tok, "#") \o <<"#">> \o PathEscape(v2rayName)]
      BY <1>3 DEF RenameTo
    <3>2. l = [proto |-> l.proto, tok |-> l.tok, q |-> l.q, enc |-> l.enc] BY DEF IsLink, Link
    <3> HIDE DEF r
    <3> QED BY <3>1, <3>2
  <2>2. Upto(Sanitize(r.tok), "#") = Upto(Sanitize(l.tok), "#") BY <1>3, SanitizeName
  <2> HIDE DEF r
  <2>3. ParseURL(Sanitize(r.tok)) = ParseURL(Sanitize(l.tok)) BY <2>2 DEF ParseURL
  <2>4. \A u : OutboundByURL(r, u) = OutboundByURL(l, u)
    <3>1. \A u : Params(r, u) = Params(l, u) BY <2>1 DEF Params
    <3> QED BY <2>1, <3>1, Zenon DEF OutboundByURL
  <2>5. ToSingBoxOutbound(l) = OutboundByURL(l, ParseURL(Sanitize(l.tok)))
    BY <1>3 DEF ToSingBoxOutbound
  <2>6. ToSingBoxOutbound(r) = OutboundByURL(r, ParseURL(Sanitize(r.tok)))
    BY <1>3, <2>1 DEF ToSingBoxOutbound
  <2> QED BY <2>3, <2>4, <2>5, <2>6 DEF r
<1> QED BY <1>1, <1>2, <1>3

LEMMA NothingLost == PlainLost = {}
<1> SUFFICES ASSUME NEW line \in PlainLost PROVE FALSE OBVIOUS
<1> DEFINE l == LinkOf[line]
<1>1. /\ line \in Lines /\ ~CutTwice(l) /\ ~SpacedByName(l)
      /\ FromPlain["v2ray"][line] # Tested[line]
  BY DEF PlainLost, Renamable
<1>2. IsLink(l) BY <1>1, WriterAssumption
<1>3. Tested[line] = ToSingBoxOutbound(l) BY <1>1 DEF Tested, Outbounds
<1>4. FromPlain["v2ray"][line] = ToSingBoxOutbound(RenameTo(l))
  <2>1. "v2ray" \in Variants BY DEF Variants
  <2>2. FromPlain["v2ray"] = Outbounds(Plainly["v2ray"]) BY <2>1 DEF FromPlain
  <2>3. Plainly["v2ray"] = [k \in Lines |-> RenameTo(Form["v2ray"][k])] BY <2>1 DEF Plainly
  <2>4. Form["v2ray"] = LinkOf BY DEF Form
  <2>5. Plainly["v2ray"][line] = RenameTo(l) BY <1>1, <2>3, <2>4
  <2>6. Outbounds(Plainly["v2ray"])[line] = ToSingBoxOutbound(Plainly["v2ray"][line])
    BY <1>1 DEF Outbounds
  <2> QED BY <2>2, <2>5, <2>6
<1> HIDE DEF l
<1>5. ToSingBoxOutbound(RenameTo(l)) = ToSingBoxOutbound(l) BY <1>1, <1>2, RenamedIsSame
<1> QED BY <1>1, <1>3, <1>4, <1>5

(* Whoever reads a plain line that was published gets the outbound that    *)
(* was tested, whatever the link is made of, but where the two cuts differ *)
(* or the name spaces the text.                                            *)
THEOREM PlainIsTested == Spec => []PlainAsTested
<1>1. PlainAsTested BY NothingLost DEF PlainAsTested
<1> QED BY <1>1, PTL

=============================================================================
