---------------------------- MODULE IntakeProofs ----------------------------
(***************************************************************************)
(* Proofs about Fetch, as Intake uses it, and about dedup, for any number  *)
(* of sources, any batch size, any number of retries and any texts: every  *)
(* source is asked often enough and not too often, the load is bounded, the*)
(* lines are merged in the order of the sources whatever the order of      *)
(* arrival, and of equal lines the first one is kept.                      *)
(***************************************************************************)
EXTENDS Intake, SelectionProofs, FiniteSetTheorems, SequenceTheorems, TLAPS

USE FetchAssumption

LEMMA RetriesType == Retries \in Nat
BY DEF Retries

(* The result of a goroutine: only whether it is a success matters.        *)
Types == /\ mpc \in {"start", "join", "done"}
         /\ first \in Nat
         /\ gpc \in [Sources -> {"idle", "fetch", "store", "done"}]
         /\ attempt \in [Sources -> Nat]
         /\ fetches \in [Sources -> Nat]
         /\ got = [i \in Sources |-> got[i]]

(* Sources behind the batch have not been started, none runs between two.  *)
Started == /\ mpc \in {"start", "done"} =>
                 \A i \in Sources : gpc[i] = IF i <= first THEN "done" ELSE "idle"
           /\ mpc = "join" => \A i \in Sources :
                 /\ i <= first => gpc[i] = "done"
                 /\ gpc[i] = "idle" <=> i > first + BatchSize

(* The counter of the retry loop and the requests made go together.        *)
Tries(i) ==
  /\ gpc[i] = "idle" => attempt[i] = 0 /\ fetches[i] = 0
  /\ gpc[i] = "fetch" => fetches[i] = attempt[i] /\ attempt[i] <= Retries + 1
  /\ gpc[i] \in {"idle", "fetch"} => ~Success(got[i])
  /\ gpc[i] \in {"store", "done"} =>
       /\ fetches[i] <= Retries + 1
       /\ Success(got[i]) => fetches[i] = attempt[i] + 1
       /\ ~Success(got[i]) => fetches[i] = Retries + 1

LoadInv == Types /\ Started /\ \A i \in Sources : Tries(i)

(* A batch is as long as it can be: the rest of the sources if they are    *)
(* fewer than BatchSize.                                                   *)
LEMMA BatchLength ==
  ASSUME first \in Nat
  PROVE  /\ IsFiniteSet(Batch) /\ Cardinality(Batch) \in Nat
         /\ Cardinality(Batch) <= BatchSize
         /\ \A i \in Sources : i <= first + Cardinality(Batch) <=> i <= first + BatchSize
         /\ first <= NumSources => first + Cardinality(Batch) <= NumSources
<1> DEFINE last == IF first + BatchSize <= NumSources THEN first + BatchSize ELSE NumSources
<1>1. last \in Nat /\ Batch = (first + 1) .. last
  BY DEF Batch, Sources
<1>2. /\ IsFiniteSet(Batch)
      /\ Cardinality(Batch) = IF first + 1 > last THEN 0 ELSE last - (first + 1) + 1
  BY <1>1, FS_Interval
<1> QED BY <1>1, <1>2 DEF Sources

LEMMA InitLoad == ASSUME Init PROVE LoadInv
<1>1. \A i \in Sources : ~Success(got[i])
  BY DEF Init, Empty, Result, Success
<1> QED BY <1>1 DEF Init, LoadInv, Types, Started, Tries, Sources

(* A step of goroutine i leaves the others as they are.                    *)
LEMMA OneTries ==
  ASSUME LoadInv, NEW i \in Sources, Types', Tries(i)',
         UNCHANGED <<mpc, first>>,
         gpc[i] \in {"fetch", "store"}, gpc'[i] \in {"fetch", "store", "done"},
         \A j \in Sources \ {i} : /\ gpc'[j] = gpc[j] /\ attempt'[j] = attempt[j]
                                  /\ fetches'[j] = fetches[j] /\ got'[j] = got[j]
  PROVE  LoadInv'
<1>1. \A j \in Sources : Tries(j)'
  BY DEF LoadInv, Tries, Success
<1>2. Started'
  BY DEF LoadInv, Started, Types, Sources
<1> QED BY <1>1, <1>2 DEF LoadInv

LEMMA LoadStep == ASSUME LoadInv, [Next]_vars PROVE LoadInv'
<1> USE RetriesType DEF LoadInv
<1>1. CASE StartBatch
  <2>1. Types' /\ UNCHANGED <<first, attempt, got, fetches>>
    BY <1>1 DEF StartBatch, Types
  <2>2. \A i \in Sources : gpc[i] = IF i <= first THEN "done" ELSE "idle"
    BY <1>1 DEF StartBatch, Started
  <2>3. \A i \in Sources : gpc'[i] = IF i \in Batch THEN "fetch" ELSE gpc[i]
    BY <1>1 DEF StartBatch
  <2>4. Started'
    BY <1>1, <2>1, <2>2, <2>3 DEF StartBatch, Started, Batch, Types, Sources
  <2>5. ASSUME NEW i \in Sources PROVE Tries(i)'
    <3>1. Tries(i) BY DEF Tries
    <3>2. i \in Batch => gpc[i] = "idle" BY <2>2 DEF Batch, Types, Sources
    <3> QED BY <2>1, <2>3, <3>1, <3>2 DEF Tries, Success
  <2> QED BY <2>1, <2>4, <2>5
<1>2. CASE Merge
  <2>1. Types' /\ UNCHANGED <<gpc, attempt, got, fetches>>
    BY <1>2, BatchLength DEF Merge, Types
  <2>2. \A i \in Sources : i <= first' <=> i <= first + BatchSize
    BY <1>2, BatchLength DEF Merge, Types
  <2>3. \A i \in Batch : gpc[i] = "done"
    BY <1>2 DEF Merge, Joined
  <2>4. Started'
    <3>1. mpc = "join" /\ mpc' = "start"
      BY <1>2 DEF Merge
    <3>2. ASSUME NEW i \in Sources PROVE gpc'[i] = IF i <= first' THEN "done" ELSE "idle"
      BY <2>1, <2>2, <2>3, <3>1 DEF Started, Batch, Types, Sources
    <3> QED BY <3>1, <3>2 DEF Started
  <2>5. \A i \in Sources : Tries(i)'
    BY <2>1 DEF Tries, Success
  <2> QED BY <2>1, <2>4, <2>5
<1>3. CASE Finish
  BY <1>3 DEF Finish, Types, Started, Tries, Success
<1>4. CASE UNCHANGED vars
  BY <1>4 DEF vars, Types, Started, Tries, Success
<1>5. ASSUME NEW i \in Sources, NEW r, Success(r), Request(i, r),
             gpc' = [gpc EXCEPT ![i] = "store"], UNCHANGED <<mpc, first, attempt>>
      PROVE  LoadInv'
  <2>1. Types'
    BY <1>5 DEF Types, Request
  <2>2. Tries(i)'
    BY <1>5 DEF Request, MayTry, Types, Tries, Success
  <2> QED BY <1>5, <2>1, <2>2, OneTries DEF Request, Types
<1>6. ASSUME NEW i \in Sources, NEW r, ~Success(r), Request(i, r),
             attempt' = [attempt EXCEPT ![i] = @ + 1], UNCHANGED <<mpc, first, gpc>>
      PROVE  LoadInv'
  <2>1. Types'
    BY <1>6 DEF Types, Request
  <2>2. Tries(i)'
    BY <1>6 DEF Request, MayTry, Types, Tries, Success
  <2> QED BY <1>6, <2>1, <2>2, OneTries DEF Request, Types
<1>7. ASSUME NEW i \in Sources, FetchOk(i) PROVE LoadInv'
  <2>1. \A r \in Answers(i) : Success(r)
    BY DEF Answers, Success, Result
  <2> QED BY <1>5, <1>7, <2>1 DEF FetchOk
<1>8. ASSUME NEW i \in Sources, FetchFails(i) PROVE LoadInv'
  <2>1. \A r \in Refusals : ~Success(r)
    BY DEF Refusals, Success, Result
  <2> QED BY <1>6, <1>8, <2>1 DEF FetchFails
<1>9. ASSUME NEW i \in Sources, GiveUp(i) PROVE LoadInv'
  <2>1. Types'
    BY <1>9 DEF Types, GiveUp
  <2>2. Tries(i)'
    BY <1>9 DEF GiveUp, MayTry, Types, Tries, Success
  <2> QED BY <1>9, <2>1, <2>2, OneTries DEF GiveUp, Types
<1>10. ASSUME NEW i \in Sources, Store(i) PROVE LoadInv'
  <2>1. Types'
    BY <1>10 DEF Types, Store
  <2>2. Tries(i)'
    BY <1>10 DEF Store, Types, Tries, Success
  <2> QED BY <1>10, <2>1, <2>2, OneTries DEF Store, Types
<1> QED
  BY <1>1, <1>2, <1>3, <1>4, <1>7, <1>8, <1>9, <1>10
     DEF Next, Caller, Goroutine, Finished

LEMMA IntakeStep == ASSUME LoadInv, [IntakeNext]_intakeVars PROVE LoadInv'
<1>1. [Next]_vars
  BY DEF IntakeNext, Fetching, Dedup, Ignore, Keep, Drop, Crash, Deduped, Next,
         intakeVars
<1> QED BY <1>1, LoadStep

(* What TriedEnough and BoundedLoad rest on holds in the composition.      *)
THEOREM LoadInvariant == IntakeSpec => []LoadInv
<1>1. IntakeInit => LoadInv
  BY InitLoad DEF IntakeInit
<1>2. LoadInv /\ [IntakeNext]_intakeVars => LoadInv'
  BY IntakeStep
<1> QED BY <1>1, <1>2, PTL DEF IntakeSpec

(* No source is asked more than Retries + 1 times, none again once it has  *)
(* answered, and none is given up before.                                  *)
THEOREM SourcesTried == IntakeSpec => []TriedEnough
<1>1. ASSUME LoadInv PROVE TriedEnough
  BY <1>1, RetriesType DEF LoadInv, Types, Tries, TriedEnough
<1> QED BY <1>1, LoadInvariant, PTL

(* Never do more than BatchSize requests run, and none outlives its batch. *)
THEOREM LoadBounded == IntakeSpec => []BoundedLoad
<1>1. ASSUME LoadInv PROVE BoundedLoad
  <2> DEFINE running == {i \in Sources : gpc[i] \in {"fetch", "store"}}
  <2>1. running # {} => mpc = "join"
    BY <1>1 DEF LoadInv, Types, Started
  <2>2. running \subseteq Batch
    BY <1>1 DEF LoadInv, Types, Started, Batch, Sources
  <2>3. IsFiniteSet(Batch) /\ Cardinality(Batch) \in Nat /\ Cardinality(Batch) <= BatchSize
    BY <1>1, BatchLength DEF LoadInv, Types
  <2>4. Cardinality(running) \in Nat /\ Cardinality(running) <= Cardinality(Batch)
    BY <2>2, <2>3, FS_Subset, FS_CardinalityType
  <2> QED BY <2>1, <2>2, <2>3, <2>4 DEF BoundedLoad
<1> QED BY <1>1, LoadInvariant, PTL

-----------------------------------------------------------------------------
(* Lists, and what FlattenSeq of the community modules makes of them: its  *)
(* recursive function exists, so it obeys its equation.                    *)

LEMMA SeqIsList == ASSUME NEW S, NEW s \in Seq(S) PROVE IsList(s)
<1>1. s \in [1 .. Len(s) -> ToSet(s)] /\ Len(s) \in Nat
  BY LenProperties DEF ToSet
<1> QED BY <1>1, SeqDef DEF IsList

LEMMA ListOf ==
  ASSUME NEW n \in Nat, NEW s, s = [k \in 1 .. n |-> s[k]]
  PROVE  IsList(s) /\ Len(s) = n
<1>1. s \in [1 .. n -> ToSet(s)] BY DEF ToSet
<1>2. s \in Seq(ToSet(s)) BY <1>1, SeqDef
<1> QED BY <1>1, <1>2, LenProperties DEF IsList

FlatLoop(s, f, N) == f = [i \in 1 .. N |-> IF i = 1 THEN s[i] ELSE f[i - 1] \o s[i]]

LEMMA FlatLoopExists == ASSUME NEW s PROVE \A N \in Nat : \E f : FlatLoop(s, f, N)
<1> DEFINE T == {N \in Nat : \E f : FlatLoop(s, f, N)}
<1>1. 0 \in T
  <2> DEFINE f == [i \in 1 .. 0 |-> << >>]
  <2>1. FlatLoop(s, f, 0) BY DEF FlatLoop
  <2> QED BY <2>1
<1>2. ASSUME NEW N \in Nat, N \in T PROVE N + 1 \in T
  <2>1. PICK f : FlatLoop(s, f, N) BY <1>2
  <2> DEFINE last == IF N = 0 THEN s[1] ELSE f[N] \o s[N + 1]
             g == [n \in 1 .. N + 1 |-> IF n = N + 1 THEN last ELSE f[n]]
             h == [n \in 1 .. N + 1 |-> IF n = 1 THEN s[n] ELSE g[n - 1] \o s[n]]
  <2>2. \A n \in 1 .. N : g[n] = f[n] BY <2>1
  <2>3. g[N + 1] = last OBVIOUS
  <2>4. ASSUME NEW n \in 1 .. N + 1 PROVE g[n] = h[n]
    <3> HIDE DEF g
    <3>1. CASE n = N + 1
      <4>1. N # 0 => g[n - 1] = f[N] BY <2>2, <3>1
      <4> QED BY <2>3, <3>1, <4>1
    <3>2. CASE n \in 1 .. N
      <4>1. g[n] = f[n] /\ (n # 1 => g[n - 1] = f[n - 1]) BY <2>2, <3>2
      <4>2. f[n] = IF n = 1 THEN s[n] ELSE f[n - 1] \o s[n] BY <2>1, <3>2 DEF FlatLoop
      <4> QED BY <4>1, <4>2
    <3> QED BY <3>1, <3>2
  <2>5. g = h BY <2>4
  <2>6. FlatLoop(s, g, N + 1)
    <3> HIDE DEF g
    <3> QED BY <2>5 DEF FlatLoop
  <2> QED BY <2>6
<1>3. Nat \subseteq T
  <2> HIDE DEF T
  <2> QED BY <1>1, <1>2, Induction
<1> QED BY <1>3

LEMMA FlatLoopSame ==
  ASSUME NEW s, NEW t, NEW f, NEW g, NEW N \in Nat, NEW M \in Nat, N <= M,
         FlatLoop(s, f, N), FlatLoop(t, g, M), \A n \in 1 .. N : s[n] = t[n]
  PROVE  \A n \in 1 .. N : f[n] = g[n]
<1> DEFINE T == {n \in Nat : n \in 1 .. N => f[n] = g[n]}
<1>1. 0 \in T OBVIOUS
<1>2. ASSUME NEW n \in Nat, n \in T PROVE n + 1 \in T
  <2> SUFFICES ASSUME n + 1 <= N PROVE f[n + 1] = g[n + 1] OBVIOUS
  <2> DEFINE m == n + 1
  <2>1. m \in 1 .. N /\ m \in 1 .. M /\ (m # 1 => f[m - 1] = g[m - 1]) BY <1>2
  <2>2. s[m] = t[m] BY <2>1
  <2> HIDE DEF m
  <2>3. f[m] = IF m = 1 THEN s[m] ELSE f[m - 1] \o s[m] BY <2>1 DEF FlatLoop
  <2>4. g[m] = IF m = 1 THEN t[m] ELSE g[m - 1] \o t[m] BY <2>1 DEF FlatLoop
  <2>5. f[m] = g[m] BY <2>1, <2>2, <2>3, <2>4
  <2> QED BY <2>5 DEF m
<1>3. Nat \subseteq T
  <2> HIDE DEF T
  <2> QED BY <1>1, <1>2, Induction
<1> QED BY <1>3

LEMMA FlattenEmpty == FlattenSeq(<< >>) = << >>
BY EmptySeq DEF FlattenSeq

LEMMA FlattenLoop ==
  ASSUME NEW s, NEW n \in Nat \ {0}, Len(s) = n
  PROVE  \E f : FlatLoop(s, f, n) /\ FlattenSeq(s) = f[n]
<1> DEFINE f == CHOOSE f : FlatLoop(s, f, n)
<1>1. FlatLoop(s, f, n) BY FlatLoopExists
<1>2. FlattenSeq(s) = f[n] BY DEF FlattenSeq, FlatLoop
<1> QED BY <1>1, <1>2

LEMMA FlattenAppend ==
  ASSUME NEW S, NEW s \in Seq(Seq(S)), FlattenSeq(s) \in Seq(S), NEW x \in Seq(S)
  PROVE  FlattenSeq(Append(s, x)) = FlattenSeq(s) \o x
<1> DEFINE t == Append(s, x)
           n == Len(s)
<1>1. /\ n \in Nat /\ Len(t) = n + 1 /\ t[n + 1] = x
      /\ \A k \in 1 .. n : s[k] = t[k]
  BY AppendProperties, LenProperties
<1> HIDE DEF t, n
<1>2. PICK g : FlatLoop(t, g, n + 1) /\ FlattenSeq(t) = g[n + 1]
  <2>1. n + 1 \in Nat \ {0} BY <1>1
  <2> QED BY <1>1, <2>1, FlattenLoop
<1>3. CASE n = 0
  <2>1. s = << >> BY <1>3, EmptySeq DEF n
  <2>2. g[1] = t[1] BY <1>2, <1>3 DEF FlatLoop
  <2>3. FlattenSeq(t) = x BY <1>1, <1>2, <1>3, <2>2
  <2>4. << >> \o x = x BY ConcatEmptySeq
  <2> QED BY <2>1, <2>3, <2>4, FlattenEmpty DEF t
<1>4. CASE n # 0
  <2>1. PICK f : FlatLoop(s, f, n) /\ FlattenSeq(s) = f[n]
    <3>1. n \in Nat \ {0} /\ Len(s) = n BY <1>1, <1>4 DEF n
    <3> QED BY <3>1, FlattenLoop
  <2>2. f[n] = g[n]
    <3>1. \A k \in 1 .. n : f[k] = g[k]
      <4>1. PICK M \in Nat : M = n + 1 BY <1>1
      <4>2. n <= M /\ FlatLoop(t, g, M) BY <1>1, <1>2, <4>1
      <4> QED BY <1>1, <2>1, <4>2, FlatLoopSame
    <3> QED BY <1>1, <1>4, <3>1
  <2> DEFINE m == n + 1
  <2>3. m \in 1 .. m /\ m # 1 /\ m - 1 = n BY <1>1, <1>4
  <2>4. g[m] = g[m - 1] \o t[m]
    <3>1. FlatLoop(t, g, m) BY <1>2
    <3> HIDE DEF m
    <3> QED BY <2>3, <3>1 DEF FlatLoop
  <2> QED BY <1>1, <1>2, <2>1, <2>2, <2>3, <2>4 DEF t
<1> QED BY <1>1, <1>3, <1>4

LEMMA FlattenType == ASSUME NEW S PROVE \A s \in Seq(Seq(S)) : FlattenSeq(s) \in Seq(S)
<1> DEFINE T == {s \in Seq(Seq(S)) : FlattenSeq(s) \in Seq(S)}
<1>1. << >> \in T BY FlattenEmpty, EmptySeq
<1>2. ASSUME NEW s \in Seq(Seq(S)), NEW x \in Seq(S), s \in T PROVE Append(s, x) \in T
  <2>1. Append(s, x) \in Seq(Seq(S)) BY AppendProperties
  <2>2. FlattenSeq(Append(s, x)) = FlattenSeq(s) \o x BY <1>2, FlattenAppend
  <2>3. FlattenSeq(s) \o x \in Seq(S) BY <1>2, ConcatProperties
  <2> QED BY <2>1, <2>2, <2>3
<1>3. Seq(Seq(S)) \subseteq T
  <2> HIDE DEF T
  <2> QED BY <1>1, <1>2, SeqInduction
<1> QED BY <1>3

LEMMA FlattenConcat ==
  ASSUME NEW S, NEW s \in Seq(Seq(S))
  PROVE  \A t \in Seq(Seq(S)) : FlattenSeq(s \o t) = FlattenSeq(s) \o FlattenSeq(t)
<1> DEFINE T == {t \in Seq(Seq(S)) : FlattenSeq(s \o t) = FlattenSeq(s) \o FlattenSeq(t)}
<1>0. FlattenSeq(s) \in Seq(S) BY FlattenType
<1>1. << >> \in T
  <2>1. << >> \in Seq(Seq(S)) BY EmptySeq
  <2>2. s \o << >> = s BY ConcatEmptySeq
  <2>3. FlattenSeq(s) \o << >> = FlattenSeq(s) BY <1>0, ConcatEmptySeq
  <2> QED BY <2>1, <2>2, <2>3, FlattenEmpty
<1>2. ASSUME NEW t \in Seq(Seq(S)), NEW x \in Seq(S), t \in T PROVE Append(t, x) \in T
  <2>1. Append(t, x) \in Seq(Seq(S)) /\ s \o t \in Seq(Seq(S))
    BY AppendProperties, ConcatProperties
  <2>2. PICK a \in Seq(S) : a = FlattenSeq(s) BY <1>0
  <2>3. PICK b \in Seq(S) : b = FlattenSeq(t) BY FlattenType
  <2>4. FlattenSeq(s \o t) = a \o b BY <1>2, <2>2, <2>3
  <2>5. a \o b \in Seq(S) BY ConcatProperties
  <2>6. FlattenSeq(Append(s \o t, x)) = (a \o b) \o x BY <2>1, <2>4, <2>5, FlattenAppend
  <2>7. FlattenSeq(Append(t, x)) = b \o x BY <2>3, FlattenAppend
  <2>8. (a \o b) \o x = a \o (b \o x) BY ConcatAssociative, SMTT(30)
  <2>9. s \o Append(t, x) = Append(s \o t, x) BY SMTT(30)
  <2>10. FlattenSeq(s \o Append(t, x)) = FlattenSeq(s) \o FlattenSeq(Append(t, x))
    BY <2>2, <2>6, <2>7, <2>8, <2>9
  <2> QED BY <2>1, <2>10
<1>3. Seq(Seq(S)) \subseteq T
  <2> HIDE DEF T
  <2> QED BY <1>1, <1>2, SeqInduction
<1> QED BY <1>3

(* A list of lists. *)
LEMMA FlattenLists ==
  ASSUME NEW n \in Nat, NEW s, s = [k \in 1 .. n |-> s[k]], \A k \in 1 .. n : IsList(s[k])
  PROVE  IsList(FlattenSeq(s))
<1> DEFINE S == UNION {ToSet(s[k]) : k \in 1 .. n}
<1>1. \A k \in 1 .. n : s[k] \in Seq(S)
  <2> TAKE k \in 1 .. n
  <2>1. s[k] \in Seq(ToSet(s[k])) BY DEF IsList
  <2>2. ToSet(s[k]) \subseteq S OBVIOUS
  <2> HIDE DEF S
  <2> QED BY <2>1, <2>2, SeqMonotonic
<1> HIDE DEF S
<1>2. s \in [1 .. n -> Seq(S)] BY <1>1
<1>3. s \in Seq(Seq(S)) BY <1>2, SeqDef
<1> QED BY <1>3, FlattenType, SeqIsList

(* What smartDecode makes of a text is a list. *)
LEMMA SelectList == ASSUME NEW s, IsList(s), NEW K PROVE IsList(Select(s, K))
<1>1. PICK S : s \in Seq(S) BY DEF IsList
<1>2. Select(s, K) \in Seq(S \cap K) BY <1>1, SelectType
<1> QED BY <1>2, SeqIsList

LEMMA DomainOf == ASSUME NEW s, IsList(s) PROVE Len(s) \in Nat /\ DOMAIN s = 1 .. Len(s)
BY LenProperties DEF IsList

LEMMA ClashList == ASSUME NEW entries, IsList(entries) PROVE IsList(ParseClashYAML(entries))
<1> DEFINE links == [k \in DOMAIN entries |-> ProxyToURI(entries[k])]
<1>1. Len(entries) \in Nat /\ links = [k \in 1 .. Len(entries) |-> links[k]] BY DomainOf
<1>2. IsList(links)
  <2> HIDE DEF links
  <2> QED BY <1>1, ListOf
<1>3. IsList(<< >>) BY EmptySeq, SeqIsList
<1> HIDE DEF links
<1>4. IsList(Select(links, ToSet(links) \ {NoLink})) BY <1>2, SelectList
<1> QED BY <1>3, <1>4 DEF ParseClashYAML, links

LEMMA ExtractList == ASSUME NEW body, IsList(body.lines) PROVE IsList(ExtractLines(body))
<1> DEFINE s == [k \in DOMAIN body.lines |-> body.lines[k].link]
<1>1. Len(body.lines) \in Nat /\ s = [k \in 1 .. Len(body.lines) |-> s[k]] BY DomainOf
<1>2. IsList(s)
  <2> HIDE DEF s
  <2> QED BY <1>1, ListOf
<1> QED BY <1>2 DEF ExtractLines

LEMMA LeastOf == ASSUME NEW I \in SUBSET Nat, I # {} PROVE Min(I) \in I
<1>1. \E x \in I : \A y \in I : x <= y BY LeastElement
<1> QED BY <1>1 DEF Min

LEMMA SoundType ==
  ASSUME NEW s, IsList(s) PROVE Sound(s) \in 0 .. Len(s)
<1> DEFINE I == {i \in 1 .. Len(s) : s[i].mod # 0}
<1>1. Len(s) \in Nat BY DomainOf
<1>2. I \in SUBSET Nat BY <1>1
<1>3. I # {} => Min(I) \in I
  <2> HIDE DEF I
  <2> QED BY <1>2, LeastOf
<1>4. SelectInSeq(s, LAMBDA x : x.mod # 0) = IF I # {} THEN Min(I) ELSE 0
  BY DEF SelectInSeq
<1>5. Sound(s) = LET k == IF I # {} THEN Min(I) ELSE 0 IN IF k = 0 THEN Len(s) ELSE k
  BY <1>4 DEF Sound
<1> QED BY <1>1, <1>3, <1>5

LEMMA DecodedList ==
  ASSUME NEW s, IsList(s), Decodes(s),
         \A x \in ToSet(s) : x.kind = "base64" =>
            IsList(x.body.entries) /\ IsList(x.body.lines) /\ x.body.lines # << >>
  PROVE  IsList(DecodeBase64(s).entries) /\ IsList(DecodeBase64(s).lines)
<1>1. Len(s) \in Nat /\ DOMAIN s = 1 .. Len(s) /\ Sound(s) \in 0 .. Len(s)
  BY DomainOf, SoundType
<1>2. \A k \in 1 .. Len(s) : /\ IsList(s[k].body.entries) /\ IsList(s[k].body.lines)
                             /\ s[k].body.lines # << >>
  BY <1>1 DEF Decodes, IsLikelyBase64, ToSet
<1>3. \A k \in 1 .. Len(s) : IsList(Tail(s[k].body.lines))
  <2> TAKE k \in 1 .. Len(s)
  <2>1. PICK S : s[k].body.lines \in Seq(S) BY <1>2 DEF IsList
  <2>2. Tail(s[k].body.lines) \in Seq(S) BY <1>2, <2>1, HeadTailProperties
  <2> QED BY <2>2, SeqIsList
<1> DEFINE parts == [k \in 1 .. Sound(s) |->
                       IF k = 1 \/ s[k - 1].newline THEN s[k].body.lines ELSE Tail(s[k].body.lines)]
<1>4. IsList(FlattenSeq(parts))
  <2>1. \A k \in 1 .. Sound(s) : IsList(parts[k]) BY <1>1, <1>2, <1>3
  <2>2. parts = [k \in 1 .. Sound(s) |-> parts[k]] /\ Sound(s) \in Nat BY <1>1
  <2> HIDE DEF parts
  <2> QED BY <2>1, <2>2, FlattenLists
<1>5. IsList(IF Len(s) = 1 THEN s[1].body.entries ELSE << >>)
  <2>1. IsList(<< >>) BY EmptySeq, SeqIsList
  <2> QED BY <1>1, <1>2, <2>1
<1>6. /\ DecodeBase64(s).entries = IF Len(s) = 1 THEN s[1].body.entries ELSE << >>
      /\ DecodeBase64(s).lines = FlattenSeq(parts)
  BY DEF DecodeBase64, Body
<1> QED BY <1>4, <1>5, <1>6

(* Line by line: the rows of a text in base64.                             *)
LEMMA RowsList ==
  ASSUME NEW x, NEW k
  PROVE  /\ IsList(Rows(x, k))
         /\ ToSet(Rows(x, k)) = IF k \in DOMAIN x.cuts THEN {Beginning(x, k), NoLink}
                                ELSE {x.body.lines[k].link}
<1>1. \A a, b : <<a, b>> \in Seq({a, b}) /\ <<a>> \in Seq({a}) OBVIOUS
<1>2. \A a, b : ToSet(<<a, b>>) = {a, b} /\ ToSet(<<a>>) = {a} BY DEF ToSet
<1> QED BY <1>1, <1>2, SeqIsList DEF Rows

LEMMA DecodeLineList ==
  ASSUME NEW x, x.kind = "base64" => IsList(x.body.lines) PROVE IsList(DecodeLine(x))
<1>1. CASE x.kind = "base64"
  <2> DEFINE rows == [k \in DOMAIN x.body.lines |-> Rows(x, k)]
             n == Len(x.body.lines)
  <2>1. n \in Nat /\ DOMAIN x.body.lines = 1 .. n BY <1>1, DomainOf
  <2>2. rows = [k \in 1 .. n |-> rows[k]] /\ \A k \in 1 .. n : IsList(rows[k])
    BY <2>1, RowsList
  <2>3. DecodeLine(x) = FlattenSeq(rows) BY <1>1 DEF DecodeLine
  <2> HIDE DEF rows, n
  <2> QED BY <2>1, <2>2, <2>3, FlattenLists
<1>2. CASE x.kind # "base64"
  <2>1. <<x.link>> \in Seq({x.link}) OBVIOUS
  <2> QED BY <1>2, <2>1, SeqIsList DEF DecodeLine
<1> QED BY <1>1, <1>2

LEMMA YieldsList == ASSUME NEW text, IsText(text) PROVE IsList(Yields(text))
<1>1. IsList(ParseClashYAML(text.entries)) /\ IsList(ExtractLines(text))
  BY ClashList, ExtractList DEF IsText
<1>2. ASSUME Decodes(text.lines) PROVE IsList(ClashOrLines(DecodeBase64(text.lines)))
  <2> DEFINE body == DecodeBase64(text.lines)
  <2>1. IsList(body.entries) /\ IsList(body.lines) BY <1>2, DecodedList DEF IsText
  <2> HIDE DEF body
  <2>2. IsList(ParseClashYAML(body.entries)) /\ IsList(ExtractLines(body))
    BY <2>1, ClashList, ExtractList
  <2> QED BY <2>2 DEF ClashOrLines, body
<1> DEFINE parts == [k \in DOMAIN text.lines |-> DecodeLine(text.lines[k])]
<1>3. IsList(FlattenSeq(parts))
  <2>1. Len(text.lines) \in Nat /\ DOMAIN text.lines = 1 .. Len(text.lines)
    BY DomainOf DEF IsText
  <2>2. ASSUME NEW k \in 1 .. Len(text.lines) PROVE IsList(DecodeLine(text.lines[k]))
    <3>1. text.lines[k] \in ToSet(text.lines) BY <2>1 DEF ToSet
    <3> QED BY <3>1, DecodeLineList DEF IsText
  <2>3. parts = [k \in 1 .. Len(text.lines) |-> parts[k]]
        /\ \A k \in 1 .. Len(text.lines) : IsList(parts[k])
    BY <2>1, <2>2
  <2> HIDE DEF parts
  <2> QED BY <2>1, <2>3, FlattenLists
<1> HIDE DEF parts
<1>4. \/ Yields(text) = ParseClashYAML(text.entries)
      \/ Yields(text) = ExtractLines(text)
      \/ Decodes(text.lines) /\ Yields(text) = ClashOrLines(DecodeBase64(text.lines))
      \/ Yields(text) = FlattenSeq(parts)
  BY DEF Yields, parts
<1> QED BY <1>1, <1>2, <1>3, <1>4

(* All links that can be fetched. *)
Fetchable == UNION {ToSet(Lines[text]) : text \in Texts}

LEMMA LinesType == Lines \in [Texts -> Seq(Fetchable)]
<1> SUFFICES ASSUME NEW text \in Texts PROVE Yields(text) \in Seq(Fetchable)
  BY DEF Lines
<1>1. Yields(text) \in Seq(ToSet(Yields(text))) BY YieldsList DEF IsList
<1>2. ToSet(Yields(text)) \subseteq Fetchable BY DEF Fetchable, Lines
<1> QED BY <1>1, <1>2, SeqMonotonic

-----------------------------------------------------------------------------
(* The order of the lines. A list of sources is cut where the batch begins.*)

AllSources == [k \in Sources |-> k]

LEMMA SourcesList == /\ AllSources \in Seq(Sources) /\ Len(AllSources) = NumSources
                     /\ Elements(AllSources) = Sources /\ Distinct(AllSources)
<1>1. NumSources \in Nat /\ AllSources \in [1 .. NumSources -> Sources]
  BY DEF AllSources, Sources
<1>2. AllSources \in Seq(Sources) /\ Len(AllSources) = NumSources
  BY <1>1, SeqDef, LenProperties
<1>3. \A k \in 1 .. NumSources : AllSources[k] = k BY DEF AllSources, Sources
<1> QED BY <1>2, <1>3 DEF Elements, Distinct, Sources

LEMMA InOrderType ==
  ASSUME NEW S
  PROVE  /\ InOrder(S) \in Seq(Sources \cap S)
         /\ Len(InOrder(S)) = Cardinality(Sources \cap S)
         /\ InOrder(S) = Select(AllSources, S)
<1>1. InOrder(S) = Select(AllSources, S) BY DEF InOrder, AllSources
<1> QED BY <1>1, SourcesList, SelectType, SelectLen

LEMMA InOrderSplit ==
  ASSUME NEW f \in 0 .. NumSources, NEW n \in f .. NumSources,
         NEW S, S \subseteq 1 .. n
  PROVE  InOrder(S) = InOrder(S \cap 1 .. f) \o InOrder(S \cap f + 1 .. n)
<1> DEFINE A == SubSeq(AllSources, 1, f)
           B == SubSeq(AllSources, f + 1, NumSources)
           L == S \cap 1 .. f
           R == S \cap f + 1 .. n
<1>1. /\ AllSources \in Seq(Sources) /\ Len(AllSources) = NumSources /\ NumSources \in Nat
      /\ \A k \in Sources : AllSources[k] = k
  BY SourcesList DEF AllSources
<1>2. A \in Seq(Sources) /\ Elements(A) = {AllSources[k] : k \in 1 .. f}
  <2>1. 1 \in Nat \ {0} /\ f \in 1 - 1 .. Len(AllSources) BY <1>1
  <2> QED BY <1>1, <2>1, PartOf
<1>3. B \in Seq(Sources) /\ Elements(B) = {AllSources[k] : k \in f + 1 .. NumSources}
  <2>1. PICK m \in Nat \ {0} : m = f + 1 /\ NumSources \in m - 1 .. Len(AllSources) BY <1>1
  <2>2. /\ SubSeq(AllSources, m, NumSources) \in Seq(Sources)
        /\ Elements(SubSeq(AllSources, m, NumSources)) = {AllSources[k] : k \in m .. NumSources}
    BY <1>1, <2>1, PartOf
  <2> QED BY <2>1, <2>2
<1>4. Elements(A) = 1 .. f /\ Elements(B) = f + 1 .. NumSources
  <2>1. \A k \in 1 .. f : AllSources[k] = k BY <1>1 DEF Sources
  <2>2. \A k \in f + 1 .. NumSources : AllSources[k] = k BY <1>1 DEF Sources
  <2>3. {AllSources[k] : k \in 1 .. f} = 1 .. f BY <2>1
  <2>4. {AllSources[k] : k \in f + 1 .. NumSources} = f + 1 .. NumSources BY <2>2
  <2> QED BY <1>2, <1>3, <2>3, <2>4
<1>5. AllSources = A \o B
  <2>1. AllSources = SubSeq(AllSources, 1, Len(AllSources)) BY <1>1, SubSeqFull
  <2>2. SubSeq(AllSources, 1, f) \o SubSeq(AllSources, f + 1, NumSources)
          = SubSeq(AllSources, 1, NumSources)
    BY <1>1, ConcatAdjacentSubSeq
  <2> QED BY <1>1, <2>1, <2>2
<1> HIDE DEF A, B
<1>6. \A K : Select(AllSources, K) = Select(A, K) \o Select(B, K)
  BY <1>2, <1>3, <1>5, SelectConcat
<1>7. Select(A, S) = Select(A, L)
  <2>1. Elements(A) \cap S = Elements(A) \cap L BY <1>4
  <2> HIDE DEF L
  <2> QED BY <1>2, <2>1, SelectAgree
<1>8. Select(B, S) = Select(B, R)
  <2>1. Elements(B) \cap S = Elements(B) \cap R BY <1>4
  <2> HIDE DEF R
  <2> QED BY <1>3, <2>1, SelectAgree
<1>9. Select(B, L) = << >>
  <2>1. Elements(B) \cap L = {} BY <1>4
  <2> HIDE DEF L
  <2> QED BY <1>3, <2>1, SelectNone
<1>10. Select(A, R) = << >>
  <2>1. Elements(A) \cap R = {} BY <1>4
  <2> HIDE DEF R
  <2> QED BY <1>2, <2>1, SelectNone
<1> HIDE DEF L, R
<1>11. Select(A, L) \in Seq(Sources \cap L) /\ Select(B, R) \in Seq(Sources \cap R)
  BY <1>2, <1>3, SelectType
<1>12. Select(A, L) \o << >> = Select(A, L) /\ << >> \o Select(B, R) = Select(B, R)
  BY <1>11, ConcatEmptySeq
<1>13. InOrder(S) = Select(A, L) \o Select(B, R) BY <1>6, <1>7, <1>8, InOrderType
<1>14. InOrder(L) = Select(A, L) BY <1>6, <1>9, <1>12, InOrderType
<1>15. InOrder(R) = Select(B, R) BY <1>6, <1>10, <1>12, InOrderType
<1> QED BY <1>13, <1>14, <1>15 DEF L, R

(* A list of sources, and what each of them gives. *)
Given(s, g) == [k \in DOMAIN s |-> g[s[k]]]

LEMMA GivenConcat ==
  ASSUME NEW S, NEW T, NEW s \in Seq(S), NEW t \in Seq(S), NEW g, \A x \in S : g[x] \in T
  PROVE  /\ Given(s, g) \in Seq(T)
         /\ Given(s \o t, g) = Given(s, g) \o Given(t, g)
<1>1. ASSUME NEW u \in Seq(S) PROVE Given(u, g) \in Seq(T) /\ Len(Given(u, g)) = Len(u)
  <2>1. DOMAIN u = 1 .. Len(u) /\ Len(u) \in Nat BY LenProperties
  <2>2. \A k \in 1 .. Len(u) : u[k] \in S BY LenProperties
  <2>3. Given(u, g) \in [1 .. Len(u) -> T] BY <2>1, <2>2 DEF Given
  <2>4. Given(u, g) = [k \in 1 .. Len(u) |-> Given(u, g)[k]] BY <2>3
  <2>5. Len(Given(u, g)) = Len(u) BY <2>1, <2>4, ListOf
  <2> QED BY <2>1, <2>3, <2>5, SeqDef
<1>2. s \o t \in Seq(S) BY ConcatProperties
<1>3. /\ Len(s) \in Nat /\ Len(t) \in Nat /\ Len(s \o t) = Len(s) + Len(t)
      /\ DOMAIN (s \o t) = 1 .. Len(s) + Len(t)
      /\ DOMAIN s = 1 .. Len(s) /\ DOMAIN t = 1 .. Len(t)
      /\ \A i \in 1 .. Len(s) + Len(t) : (s \o t)[i] = IF i <= Len(s) THEN s[i] ELSE t[i - Len(s)]
  BY <1>2, ConcatProperties, LenProperties
<1> DEFINE a == Given(s, g)
           b == Given(t, g)
           c == Given(s \o t, g)
<1>4. /\ a \in Seq(T) /\ b \in Seq(T) /\ c \in Seq(T)
      /\ Len(a) = Len(s) /\ Len(b) = Len(t) /\ Len(c) = Len(s) + Len(t)
  BY <1>1, <1>2, <1>3
<1>5. a \o b \in Seq(T) /\ Len(a \o b) = Len(s) + Len(t)
      /\ \A i \in 1 .. Len(s) + Len(t) : (a \o b)[i] = IF i <= Len(s) THEN a[i] ELSE b[i - Len(s)]
  <2> HIDE DEF a, b
  <2>1. a \in Seq(T) /\ b \in Seq(T) BY <1>4
  <2>2. /\ a \o b \in Seq(T) /\ Len(a \o b) = Len(a) + Len(b)
        /\ \A i \in 1 .. Len(a) + Len(b) :
             (a \o b)[i] = IF i <= Len(a) THEN a[i] ELSE b[i - Len(a)]
    BY <2>1, ConcatProperties
  <2>3. Len(a) = Len(s) /\ Len(b) = Len(t) BY <1>4
  <2> QED BY <2>2, <2>3
<1>6. \A i \in 1 .. Len(s) + Len(t) : c[i] = (a \o b)[i]
  <2> TAKE i \in 1 .. Len(s) + Len(t)
  <2>1. c[i] = g[(s \o t)[i]] BY <1>3 DEF Given
  <2>2. CASE i <= Len(s)
    <3>1. i \in DOMAIN s /\ (s \o t)[i] = s[i] BY <1>3, <2>2
    <3>2. a[i] = g[s[i]] BY <3>1 DEF Given
    <3>3. (a \o b)[i] = a[i] BY <1>5, <2>2
    <3> QED BY <2>1, <3>1, <3>2, <3>3
  <2>3. CASE ~(i <= Len(s))
    <3>1. i - Len(s) \in DOMAIN t /\ (s \o t)[i] = t[i - Len(s)] BY <1>3, <2>3
    <3>2. b[i - Len(s)] = g[t[i - Len(s)]] BY <3>1 DEF Given
    <3>3. (a \o b)[i] = b[i - Len(s)] BY <1>5, <2>3
    <3> QED BY <2>1, <3>1, <3>2, <3>3
  <2> QED BY <2>2, <2>3
<1> HIDE DEF a, b, c
<1>7. c = a \o b BY <1>4, <1>5, <1>6, SeqEqual
<1> QED BY <1>4, <1>7 DEF a, b, c

(* What the merge relies on: what a source answered with is one of its     *)
(* bodies, and the slot of a joined goroutine holds its result.            *)
Good(n) == {i \in 1 .. n : Success(Decoded(i))}
Bad(n) == {i \in 1 .. n : ~Success(Decoded(i))}
Yielded == [i \in Sources |-> Lines[Decoded(i).body]]

Slots == /\ first <= NumSources
         /\ \A i \in Sources : got[i] = Result(got[i].err, got[i].status, got[i].body)
         /\ \A i \in Sources : Success(got[i]) => got[i].body \in Served[i]
         /\ results = [i \in Sources |-> results[i]]
         /\ \A i \in Sources : gpc[i] = "done" => results[i] = Decoded(i)
Merged == /\ lines = FlattenSeq(Given(InOrder(Good(first)), Yielded))
          /\ failed = InOrder(Bad(first))
          /\ okCount = Len(InOrder(Good(first)))
          /\ failCount = Len(InOrder(Bad(first)))
MergeInv == LoadInv /\ Slots /\ Merged

LEMMA DecodedBody ==
  ASSUME Slots, NEW i \in Sources, Success(Decoded(i))
  PROVE  Decoded(i).body \in Texts
<1>1. CASE ~Success(got[i]) \/ i \notin Encoded
  <2>1. Decoded(i) = got[i] BY <1>1 DEF Decoded
  <2>2. got[i].body \in Served[i] BY <2>1 DEF Slots
  <2> QED BY <2>1, <2>2 DEF Texts, Bodies
<1>2. CASE Success(got[i]) /\ i \in Encoded /\ Decodes(got[i].body.lines)
  <2>1. Decoded(i) = [got[i] EXCEPT !.body = DecodeBase64(@.lines)] BY <1>2 DEF Decoded
  <2>2. got[i].body \in Bodies BY <1>2 DEF Slots, Bodies
  <2>3. DecodeBase64(got[i].body.lines) \in Texts BY <1>2, <2>2 DEF Texts
  <2>4. Decoded(i).body = DecodeBase64(got[i].body.lines) BY <2>1 DEF Slots, Result
  <2> QED BY <2>3, <2>4
<1>3. CASE Success(got[i]) /\ i \in Encoded /\ ~Decodes(got[i].body.lines)
  <2>1. Decoded(i) = [got[i] EXCEPT !.err = TRUE] BY <1>3 DEF Decoded
  <2>2. Decoded(i).err BY <2>1 DEF Slots, Result
  <2> QED BY <2>2 DEF Success
<1> QED BY <1>1, <1>2, <1>3


LEMMA GivenAgree ==
  ASSUME NEW S, NEW s \in Seq(S), NEW g, NEW h, \A x \in S : g[x] = h[x]
  PROVE  Given(s, g) = Given(s, h)
<1>1. DOMAIN s = 1 .. Len(s) /\ \A k \in 1 .. Len(s) : s[k] \in S BY LenProperties
<1>2. \A k \in DOMAIN s : g[s[k]] = h[s[k]] BY <1>1
<1> QED BY <1>2 DEF Given

LEMMA InitMerged == ASSUME Init PROVE MergeInv
<1>1. LoadInv BY InitLoad
<1>2. Slots
  <2>1. /\ \A i \in Sources : got[i] = Empty /\ gpc[i] = "idle"
        /\ results = [i \in Sources |-> Empty] /\ first = 0
    BY DEF Init
  <2>2. Empty.err = FALSE /\ Empty.status = 0 /\ Empty.body = NoBody
        /\ Empty = Result(FALSE, 0, NoBody)
    BY DEF Empty, Result
  <2>3. \A i \in Sources : ~Success(got[i])
    <3>1. ~Success(Empty) BY <2>2 DEF Success
    <3> QED BY <2>1, <3>1
  <2>4. \A i \in Sources : got[i] = Result(got[i].err, got[i].status, got[i].body)
    BY <2>1, <2>2
  <2>5. results = [i \in Sources |-> results[i]] BY <2>1
  <2>6. first <= NumSources BY <2>1
  <2> QED BY <2>1, <2>3, <2>4, <2>5, <2>6 DEF Slots
<1>3. Good(first) = {} /\ Bad(first) = {} BY DEF Init, Good, Bad
<1>4. InOrder({}) \in Seq(Sources \cap {}) BY InOrderType
<1>5. InOrder({}) = << >> BY <1>4, EmptySeq
<1>6. Given(<< >>, Yielded) = << >> BY EmptySeq DEF Given
<1>7. Len(<< >>) = 0 OBVIOUS
<1> QED BY <1>1, <1>2, <1>3, <1>5, <1>6, <1>7, FlattenEmpty DEF Init, MergeInv, Merged

(* What is merged stays as it is while goroutines run. *)
LEMMA MergedStays ==
  ASSUME LoadInv, Slots, Merged, UNCHANGED <<first, merged>>,
         \A j \in 1 .. first : got'[j] = got[j]
  PROVE  Merged'
<1>1. \A j \in 1 .. first : Decoded(j)' = Decoded(j) BY DEF Decoded
<1>2. Good(first)' = Good(first) /\ Bad(first)' = Bad(first)
  BY <1>1 DEF Good, Bad, Success
<1>3. \A x \in Sources \cap Good(first) : Yielded[x] = Yielded'[x]
  BY <1>1 DEF Good, Yielded
<1>4. InOrder(Good(first)) \in Seq(Sources \cap Good(first)) BY InOrderType
<1>5. Given(InOrder(Good(first)), Yielded) = Given(InOrder(Good(first)), Yielded')
  <2> DEFINE S == Sources \cap Good(first)
             s == InOrder(Good(first))
             g == Yielded
             h == Yielded'
  <2>1. s \in Seq(S) /\ \A x \in S : g[x] = h[x] BY <1>3, <1>4
  <2> HIDE DEF S, s, g, h
  <2>2. Given(s, g) = Given(s, h) BY <2>1, GivenAgree
  <2> QED BY <2>2 DEF s, g, h
<1>6. Given(InOrder(Good(first)), Yielded)' = Given(InOrder(Good(first)), Yielded')
  BY <1>2 DEF Given, InOrder
<1>7. InOrder(Good(first))' = InOrder(Good(first)) /\ InOrder(Bad(first))' = InOrder(Bad(first))
  BY <1>2 DEF InOrder
<1> QED BY <1>5, <1>6, <1>7 DEF Merged, merged

(* A goroutine that still runs is of a later source than those merged.     *)
LEMMA RunsLater ==
  ASSUME LoadInv, NEW i \in Sources, gpc[i] \in {"fetch", "store"}
  PROVE  i \notin 1 .. first
BY DEF LoadInv, Types, Started, Sources

LEMMA RequestMerges ==
  ASSUME MergeInv, LoadInv', NEW i \in Sources, NEW r, Request(i, r),
         r = Result(r.err, r.status, r.body), Success(r) => r.body \in Served[i],
         gpc'[i] # "done", \A j \in Sources \ {i} : gpc'[j] = gpc[j],
         UNCHANGED <<first, results, merged>>
  PROVE  MergeInv'
<1>1. got' = [got EXCEPT ![i] = r] /\ got = [j \in Sources |-> got[j]]
  BY DEF Request, MergeInv, LoadInv, Types
<1>2. got'[i] = r /\ \A j \in Sources \ {i} : got'[j] = got[j] BY <1>1
<1>3. \A j \in Sources \ {i} : Decoded(j)' = Decoded(j) BY <1>2 DEF Decoded
<1>4. Slots'
  <2>1. \A j \in Sources : got'[j] = Result(got'[j].err, got'[j].status, got'[j].body)
    BY <1>2 DEF MergeInv, Slots
  <2>2. \A j \in Sources : Success(got'[j]) => got'[j].body \in Served[j]
    BY <1>2 DEF MergeInv, Slots
  <2>3. \A j \in Sources : gpc'[j] = "done" => results'[j] = Decoded(j)'
    BY <1>3 DEF MergeInv, Slots
  <2> QED BY <2>1, <2>2, <2>3 DEF MergeInv, Slots, Success
<1>5. \A j \in 1 .. first : got'[j] = got[j]
  <2>1. i \notin 1 .. first BY RunsLater DEF Request, MergeInv
  <2>2. 1 .. first \subseteq Sources BY DEF MergeInv, Slots, LoadInv, Types, Sources
  <2> QED BY <1>2, <2>1, <2>2
<1> QED BY <1>4, <1>5, MergedStays DEF MergeInv

(* The batch is the stretch of sources behind those merged. *)
LEMMA BatchRange ==
  ASSUME first \in Nat, first <= NumSources
  PROVE  /\ first + Cardinality(Batch) \in first .. NumSources
         /\ Batch = first + 1 .. first + Cardinality(Batch)
<1>1. first + Cardinality(Batch) \in first .. NumSources BY BatchLength
<1>2. \A i \in Sources : i <= first + Cardinality(Batch) <=> i <= first + BatchSize
  BY BatchLength
<1>3. PICK n \in first .. NumSources : n = first + Cardinality(Batch) BY <1>1
<1>4. Batch = {i \in Sources : first < i /\ i <= first + BatchSize} BY DEF Batch
<1>5. \A i \in Sources : i <= n <=> i <= first + BatchSize BY <1>2, <1>3
<1>6. Batch = first + 1 .. n
  <2>1. ASSUME NEW i \in Batch PROVE i \in first + 1 .. n BY <1>4, <1>5 DEF Sources
  <2>2. ASSUME NEW i \in first + 1 .. n PROVE i \in Batch
    <3>1. i \in Sources /\ first < i BY <1>3 DEF Sources
    <3>2. i <= first + BatchSize BY <1>5, <3>1
    <3> QED BY <1>4, <3>1, <3>2
  <2> QED BY <2>1, <2>2
<1> QED BY <1>1, <1>3, <1>6

LEMMA MergeJoins == ASSUME MergeInv, Merge PROVE MergeInv'
<1> DEFINE n == first + Cardinality(Batch)
<1>0. first \in Nat /\ first <= NumSources BY DEF MergeInv, LoadInv, Types, Slots
<1>1. n \in first .. NumSources /\ Batch = first + 1 .. n BY <1>0, BatchRange
<1>2. first' = n /\ UNCHANGED <<gpc, got, results>> BY DEF Merge
<1> HIDE DEF n
<1>3. \A i \in Sources : Decoded(i)' = Decoded(i) BY <1>2 DEF Decoded
<1>4. \A i \in Batch : i \in Sources /\ results[i] = Decoded(i)
  BY DEF Merge, Joined, MergeInv, Slots, Batch
<1>5. Good(n) \subseteq 1 .. n /\ Bad(n) \subseteq 1 .. n BY DEF Good, Bad
<1> DEFINE good == {i \in Batch : Success(results[i])}
           bad == {i \in Batch : ~Success(results[i])}
<1>6. /\ Good(n) \cap 1 .. first = Good(first) /\ Good(n) \cap first + 1 .. n = good
      /\ Bad(n) \cap 1 .. first = Bad(first) /\ Bad(n) \cap first + 1 .. n = bad
  <2>1. \A i \in Batch : Success(results[i]) <=> Success(Decoded(i)) BY <1>4
  <2>2. 1 .. first \subseteq 1 .. n /\ first + 1 .. n \subseteq 1 .. n BY <1>0, <1>1
  <2>3. Good(n) \cap 1 .. first = Good(first) /\ Bad(n) \cap 1 .. first = Bad(first)
    BY <2>2 DEF Good, Bad
  <2>4. good = {i \in first + 1 .. n : Success(Decoded(i))}
        /\ bad = {i \in first + 1 .. n : ~Success(Decoded(i))}
    BY <1>1, <2>1
  <2>5. Good(n) \cap first + 1 .. n = good /\ Bad(n) \cap first + 1 .. n = bad
    BY <2>2, <2>4 DEF Good, Bad
  <2> QED BY <2>3, <2>5
<1>7. first \in 0 .. NumSources BY <1>0
<1> HIDE DEF good, bad
<1>8. InOrder(Good(n)) = InOrder(Good(first)) \o InOrder(good)
  BY <1>1, <1>5, <1>6, <1>7, InOrderSplit
<1>9. InOrder(Bad(n)) = InOrder(Bad(first)) \o InOrder(bad)
  BY <1>1, <1>5, <1>6, <1>7, InOrderSplit
<1>10. /\ InOrder(good) \in Seq(Sources \cap Good(n))
       /\ InOrder(Good(first)) \in Seq(Sources \cap Good(n))
  <2>1. InOrder(good) \in Seq(Sources \cap good) BY InOrderType
  <2>2. InOrder(Good(first)) \in Seq(Sources \cap Good(first)) BY InOrderType
  <2>3. Sources \cap good \subseteq Sources \cap Good(n) BY <1>6
  <2>4. Sources \cap Good(first) \subseteq Sources \cap Good(n) BY <1>6
  <2>5. InOrder(good) \in Seq(Sources \cap Good(n)) BY <2>1, <2>3, SeqMonotonic
  <2>6. InOrder(Good(first)) \in Seq(Sources \cap Good(n)) BY <2>2, <2>4, SeqMonotonic
  <2> QED BY <2>5, <2>6
<1>11. \A x \in Sources \cap Good(n) : Yielded[x] \in Seq(Fetchable)
  <2> TAKE x \in Sources \cap Good(n)
  <2>1. Decoded(x).body \in Texts BY DecodedBody DEF MergeInv, Good
  <2> QED BY <2>1, LinesType DEF Yielded
<1> DEFINE a == Given(InOrder(Good(first)), Yielded)
           b == Given(InOrder(good), Yielded)
<1>12. /\ a \in Seq(Seq(Fetchable)) /\ b \in Seq(Seq(Fetchable))
       /\ Given(InOrder(Good(n)), Yielded) = a \o b
  <2> DEFINE S == Sources \cap Good(n)
             T == Seq(Fetchable)
             s == InOrder(Good(first))
             t == InOrder(good)
             g == Yielded
  <2>1. s \in Seq(S) /\ t \in Seq(S) /\ \A x \in S : g[x] \in T BY <1>10, <1>11
  <2>2. InOrder(Good(n)) = s \o t BY <1>8
  <2> HIDE DEF S, T, s, t, g
  <2>3. Given(s, g) \in Seq(T) /\ Given(t, g) \in Seq(T)
        /\ Given(s \o t, g) = Given(s, g) \o Given(t, g)
    BY <2>1, GivenConcat
  <2> QED BY <2>2, <2>3 DEF T, s, t, g
<1> HIDE DEF a, b
<1>13. FlattenSeq(Given(InOrder(Good(n)), Yielded)) = FlattenSeq(a) \o FlattenSeq(b)
  BY <1>12, FlattenConcat
<1>14. LinesOf(InOrder(good)) = FlattenSeq(b)
  <2>1. InOrder(good) \in Seq(Sources \cap good) BY InOrderType
  <2>2. \A k \in DOMAIN InOrder(good) : InOrder(good)[k] \in Sources \cap good
    BY <2>1, LenProperties
  <2>3. \A i \in Sources \cap good : Lines[results[i].body] = Yielded[i]
    BY <1>4 DEF good, Yielded
  <2>4. [k \in DOMAIN InOrder(good) |-> Lines[results[InOrder(good)[k]].body]] = b
    BY <2>2, <2>3 DEF b, Given
  <2> QED BY <2>4 DEF LinesOf
<1>15. lines' = FlattenSeq(Given(InOrder(Good(n)), Yielded))
  <2>1. lines' = lines \o LinesOf(InOrder(good)) BY DEF Merge, good
  <2>2. lines = FlattenSeq(a) BY DEF MergeInv, Merged, a
  <2> QED BY <1>13, <1>14, <2>1, <2>2
<1>16. failed' = InOrder(Bad(n))
  BY <1>9 DEF Merge, bad, MergeInv, Merged
<1>17. okCount' = Len(InOrder(Good(n))) /\ failCount' = Len(InOrder(Bad(n)))
  <2>1. Len(InOrder(Good(n))) = Len(InOrder(Good(first))) + Len(InOrder(good))
    <3>1. PICK s \in Seq(Sources \cap Good(first)) : s = InOrder(Good(first)) BY InOrderType
    <3>2. PICK t \in Seq(Sources \cap good) : t = InOrder(good) BY InOrderType
    <3>3. Len(s \o t) = Len(s) + Len(t) OBVIOUS
    <3> QED BY <1>8, <3>1, <3>2, <3>3
  <2>2. Len(InOrder(Bad(n))) = Len(InOrder(Bad(first))) + Len(InOrder(bad))
    <3>1. PICK s \in Seq(Sources \cap Bad(first)) : s = InOrder(Bad(first)) BY InOrderType
    <3>2. PICK t \in Seq(Sources \cap bad) : t = InOrder(bad) BY InOrderType
    <3>3. Len(s \o t) = Len(s) + Len(t) OBVIOUS
    <3> QED BY <1>9, <3>1, <3>2, <3>3
  <2>3. okCount' = okCount + Len(InOrder(good)) /\ failCount' = failCount + Len(InOrder(bad))
    BY DEF Merge, good, bad
  <2> QED BY <2>1, <2>2, <2>3 DEF MergeInv, Merged
<1>18. Good(first)' = Good(n) /\ Bad(first)' = Bad(n)
  <2>1. \A i \in 1 .. n : Decoded(i)' = Decoded(i)
    BY <1>1, <1>3 DEF Sources
  <2> QED BY <1>2, <2>1 DEF Good, Bad, Success
<1>19. Yielded' = Yielded BY <1>3 DEF Yielded
<1>20. Merged'
  <2>1. InOrder(Good(first))' = InOrder(Good(n)) /\ InOrder(Bad(first))' = InOrder(Bad(n))
    BY <1>18 DEF InOrder
  <2>2. Given(InOrder(Good(first)), Yielded)' = Given(InOrder(Good(n)), Yielded)
    BY <1>19, <2>1 DEF Given
  <2> QED BY <1>15, <1>16, <1>17, <2>1, <2>2 DEF Merged
<1>21. Slots'
  <2>1. first' <= NumSources BY <1>1, <1>2
  <2> QED BY <1>2, <1>3, <2>1 DEF MergeInv, Slots, Success
<1>22. LoadInv'
  <2>1. Next BY DEF Next, Caller
  <2> QED BY <2>1, LoadStep DEF MergeInv
<1> QED BY <1>20, <1>21, <1>22 DEF MergeInv

(* What leaves the results of the goroutines and what is merged alone.     *)
LEMMA MergeFrame ==
  ASSUME MergeInv, LoadInv', UNCHANGED <<first, got, results, merged>>,
         \A i \in Sources : gpc'[i] = "done" => gpc[i] = "done"
  PROVE  MergeInv'
<1>1. \A i \in Sources : Decoded(i)' = Decoded(i) BY DEF Decoded
<1>2. Slots' BY <1>1 DEF MergeInv, Slots, Success
<1> QED BY <1>2, MergedStays DEF MergeInv

LEMMA MergeStep == ASSUME MergeInv, [IntakeNext]_intakeVars PROVE MergeInv'
<1>0. LoadInv' BY IntakeStep DEF MergeInv
<1>1. CASE StartBatch
  <2>1. UNCHANGED <<first, got, results, merged>>
        /\ \A i \in Sources : gpc'[i] = IF i \in Batch THEN "fetch" ELSE gpc[i]
    BY <1>1 DEF StartBatch
  <2> QED BY <1>0, <2>1, MergeFrame
<1>2. CASE Merge
  BY <1>2, MergeJoins
<1>3. CASE Finish
  BY <1>0, <1>3, MergeFrame DEF Finish
<1>4. CASE UNCHANGED vars
  BY <1>0, <1>4, MergeFrame DEF vars
<1>5. ASSUME NEW i \in Sources, FetchOk(i) PROVE MergeInv'
  <2>1. PICK r \in Answers(i) : Request(i, r) BY <1>5 DEF FetchOk
  <2>2. r = Result(r.err, r.status, r.body) /\ r.body \in Served[i]
    BY <2>1 DEF Answers, Result
  <2>3. gpc' = [gpc EXCEPT ![i] = "store"] /\ UNCHANGED <<first, results, merged>>
    BY <1>5 DEF FetchOk
  <2>4. gpc'[i] = "store" /\ \A j \in Sources \ {i} : gpc'[j] = gpc[j]
    BY <2>3 DEF MergeInv, LoadInv, Types
  <2> QED BY <1>0, <2>1, <2>2, <2>3, <2>4, RequestMerges
<1>6. ASSUME NEW i \in Sources, FetchFails(i) PROVE MergeInv'
  <2>1. PICK r \in Refusals : Request(i, r) BY <1>6 DEF FetchFails
  <2>2. r = Result(r.err, r.status, r.body) /\ ~Success(r)
    BY <2>1 DEF Refusals, Result, Success
  <2>3. gpc'[i] # "done" /\ UNCHANGED <<gpc, first, results, merged>>
    BY <1>6, <2>1 DEF FetchFails, Request
  <2> QED BY <1>0, <2>1, <2>2, <2>3, RequestMerges
<1>7. ASSUME NEW i \in Sources, GiveUp(i) PROVE MergeInv'
  <2>1. UNCHANGED <<first, got, results, merged>> /\ gpc' = [gpc EXCEPT ![i] = "store"]
    BY <1>7 DEF GiveUp
  <2>2. \A j \in Sources : gpc'[j] = "done" => gpc[j] = "done"
    BY <2>1 DEF MergeInv, LoadInv, Types
  <2> QED BY <1>0, <2>1, <2>2, MergeFrame
<1>8. ASSUME NEW i \in Sources, Store(i) PROVE MergeInv'
  <2>1. results' = [results EXCEPT ![i] = Decoded(i)] /\ gpc' = [gpc EXCEPT ![i] = "done"]
        /\ UNCHANGED <<first, got, merged>>
    BY <1>8 DEF Store, Slot
  <2>2. \A j \in Sources : Decoded(j)' = Decoded(j) BY <2>1 DEF Decoded
  <2>3. /\ results'[i] = Decoded(i) /\ gpc'[i] = "done"
        /\ \A j \in Sources \ {i} : results'[j] = results[j] /\ gpc'[j] = gpc[j]
        /\ results' = [j \in Sources |-> results'[j]]
    BY <2>1 DEF MergeInv, Slots, LoadInv, Types
  <2>4. Slots' BY <2>1, <2>2, <2>3 DEF MergeInv, Slots, Success
  <2> QED BY <1>0, <2>1, <2>4, MergedStays DEF MergeInv
<1>9. [Next]_vars
  BY DEF IntakeNext, Fetching, Dedup, Ignore, Keep, Drop, Crash, Deduped, Next,
         intakeVars
<1> QED
  BY <1>1, <1>2, <1>3, <1>4, <1>5, <1>6, <1>7, <1>8, <1>9
     DEF Next, Caller, Goroutine, Finished

THEOREM MergeInvariant == IntakeSpec => []MergeInv
<1>1. IntakeInit => MergeInv BY InitMerged DEF IntakeInit
<1>2. MergeInv /\ [IntakeNext]_intakeVars => MergeInv' BY MergeStep
<1> QED BY <1>1, <1>2, PTL DEF IntakeSpec

(* Whatever the order of arrival, the lines are merged in the order of the *)
(* sources, and every source that gave none is listed as failed, once.     *)
THEOREM LinesMergedInOrder == IntakeSpec => []MergedInOrder
<1>1. ASSUME MergeInv PROVE MergedInOrder
  <2> DEFINE good == InOrder(Good(first))
  <2>0. first \in Nat /\ first <= NumSources BY <1>1 DEF MergeInv, LoadInv, Types, Slots
  <2>1. Given(good, Yielded) = [k \in DOMAIN good |-> Lines[Decoded(good[k]).body]]
    <3>1. good \in Seq(Sources \cap Good(first)) BY InOrderType
    <3>2. \A k \in DOMAIN good : good[k] \in Sources BY <3>1, LenProperties
    <3> HIDE DEF good
    <3> QED BY <3>2 DEF Given, Yielded
  <2>2. okCount + failCount = first
    <3>1. okCount = Cardinality(Good(first)) /\ failCount = Cardinality(Bad(first))
      <4>1. Good(first) \subseteq Sources /\ Bad(first) \subseteq Sources
        BY <2>0 DEF Good, Bad, Sources
      <4>2. Sources \cap Good(first) = Good(first) /\ Sources \cap Bad(first) = Bad(first)
        BY <4>1
      <4> QED BY <1>1, <4>2, InOrderType DEF MergeInv, Merged
    <3>2. IsFiniteSet(1 .. first) /\ Cardinality(1 .. first) = first
      BY <2>0, FS_Interval
    <3>3. Good(first) \cup Bad(first) = 1 .. first /\ Good(first) \cap Bad(first) = {}
      BY DEF Good, Bad
    <3>4. IsFiniteSet(Good(first)) /\ IsFiniteSet(Bad(first))
      BY <3>2, <3>3, FS_Subset
    <3>5. Cardinality(Good(first)) + Cardinality(Bad(first)) = first
      BY <3>2, <3>3, <3>4, DisjointCount
    <3> QED BY <3>1, <3>5
  <2>3. lines = FlattenSeq(Given(good, Yielded)) /\ failed = InOrder(Bad(first))
    BY <1>1 DEF MergeInv, Merged
  <2> QED BY <2>1, <2>2, <2>3 DEF MergedInOrder, Good, Bad
<1> QED BY <1>1, MergeInvariant, PTL

-----------------------------------------------------------------------------
(* Deduplication. An identity names its protocol, so lines of no known     *)
(* protocol, which the loop passes over, cannot make a line look known -   *)
(* though some of them may be such that dedup would panic.                 *)
LEMMA IdentityProto == ASSUME NEW l, Id(l) # Panic PROVE Id(l).proto = l.proto
<1>1. Itself(l).proto = l.proto BY DEF Itself, Identity
<1>2. ASSUME NEW u, NEW cred PROVE IdentityBy(l, u, cred).proto = l.proto
  BY <1>1 DEF IdentityBy, Identity
<1>3. l.proto = "vmess" => IdentityVMess(l).proto = l.proto
  <2> DEFINE data == Unnamed(l.tok)
             P1 == data \in {<<"json">>, <<"json64">>} /\ Get(l.q, "add") # ""
             P2 == Index(data, "@") # 0
             r == Identity("vmess", Meant(l, <<Get(l.q, "id")>>), l.q.add, Get(l.q, "port"))
             uri == IdentityVMessURI(l, ParseURL(data))
  <2>1. IdentityVMess(l) = CASE P1 -> r [] P2 -> uri [] OTHER -> Itself(l)
    BY DEF IdentityVMess
  <2>2. r.proto = "vmess" BY DEF Identity
  <2>3. uri.proto = l.proto BY <1>2 DEF IdentityVMessURI
  <2> HIDE DEF P1, P2, r, uri
  <2>4. IdentityVMess(l) \in {r, uri, Itself(l)} BY <2>1
  <2> QED BY <1>1, <2>2, <2>3, <2>4
<1>4. l.proto = "ssr" => IdentitySSR(l).proto = l.proto
  BY <1>1 DEF IdentitySSR, Identity
<1>5. \A u : IdentityURL(l, u) # Panic => IdentityURL(l, u).proto = l.proto
  BY <1>2 DEF IdentityURL
<1> HIDE DEF Sanitize, ParseURL, IdentityURL, IdentityVMess, IdentitySSR, Panic
<1> QED BY <1>3, <1>4, <1>5 DEF Id, CoreIdentity

(* What has been kept when the loop has passed m lines.                    *)
Passed(m) == [k \in 1 .. m |-> k]
NewOf(m, p) == {k \in 1 .. m : New(k) /\ lines[k].proto = p}
Ours(m) == {k \in 1 .. m : lines[k].proto \in Protocols}
Kept(m, p) == Select(Passed(m), NewOf(m, p))
Twins(m) == {k \in 1 .. m : lines[k].proto \in Protocols /\ ~New(k)}

Order == /\ pos \in Nat \ {0}
         /\ pos <= Len(lines) + 1
         /\ mpc # "done" => pos = 1
         /\ seen = {Id(lines[j]) : j \in {j \in 1 .. pos - 1 : lines[j].proto \in Protocols}}
         /\ byProto = [p \in Protocols |-> byProto[p]]
         /\ \A j \in 1 .. pos - 1 : lines[j].proto \in Protocols => Id(lines[j]) # Panic
DedupInv == MergeInv /\ Order /\ KeepsFirst

LEMMA LinesFetched == MergeInv => lines \in Seq(Fetchable)
<1> SUFFICES ASSUME MergeInv PROVE lines \in Seq(Fetchable) OBVIOUS
<1> DEFINE s == InOrder(Good(first))
<1>1. s \in Seq(Sources \cap Good(first)) BY InOrderType
<1>2. \A x \in Sources \cap Good(first) : Yielded[x] \in Seq(Fetchable)
  <2> TAKE x \in Sources \cap Good(first)
  <2>1. Decoded(x).body \in Texts BY DecodedBody DEF MergeInv, Good
  <2> QED BY <2>1, LinesType DEF Yielded
<1>3. Given(s, Yielded) \in Seq(Seq(Fetchable))
  <2> DEFINE S == Sources \cap Good(first)
             T == Seq(Fetchable)
             g == Yielded
  <2>1. s \in Seq(S) /\ \A x \in S : g[x] \in T BY <1>1, <1>2
  <2> HIDE DEF S, T, s, g
  <2>2. Given(s, g) \in Seq(T) BY <2>1, GivenConcat
  <2> QED BY <2>2 DEF T, g
<1> QED BY <1>3, FlattenType DEF MergeInv, Merged

LEMMA PassedOne ==
  ASSUME NEW m \in Nat
  PROVE  /\ Passed(m) \in Seq(1 .. m) /\ Passed(m) \in Seq(Nat) /\ Len(Passed(m)) = m
         /\ Passed(m + 1) = Append(Passed(m), m + 1)
<1>1. ASSUME NEW n \in Nat PROVE Passed(n) \in Seq(1 .. n) /\ Len(Passed(n)) = n
  <2>1. Passed(n) \in [1 .. n -> 1 .. n] BY DEF Passed
  <2>2. Passed(n) = [k \in 1 .. n |-> Passed(n)[k]] BY DEF Passed
  <2>3. Len(Passed(n)) = n BY <2>2, ListOf
  <2> QED BY <2>1, <2>3, SeqDef
<1>2. \A n \in Nat : 1 .. n \subseteq Nat OBVIOUS
<1>3. Passed(m) \in Seq(Nat) /\ Passed(m + 1) \in Seq(Nat)
  <2>1. PICK n \in Nat : n = m + 1 OBVIOUS
  <2>2. Passed(m) \in Seq(Nat) BY <1>1, <1>2, SeqMonotonic
  <2>3. Passed(n) \in Seq(Nat) BY <1>1, <1>2, SeqMonotonic
  <2> QED BY <2>1, <2>2, <2>3
<1>4. Len(Passed(m + 1)) = m + 1 BY <1>1
<1>5. /\ Append(Passed(m), m + 1) \in Seq(Nat)
      /\ Len(Append(Passed(m), m + 1)) = m + 1
      /\ \A k \in 1 .. m : Append(Passed(m), m + 1)[k] = Passed(m)[k]
      /\ Append(Passed(m), m + 1)[m + 1] = m + 1
  <2>1. PICK M \in Nat : M = m + 1 OBVIOUS
  <2>2. PICK q \in Seq(Nat) : q = Passed(m) /\ Len(q) = m BY <1>1, <1>3
  <2>3. /\ Append(q, M) \in Seq(Nat) /\ Len(Append(q, M)) = m + 1
        /\ \A k \in 1 .. m : Append(q, M)[k] = q[k]
        /\ Append(q, M)[m + 1] = M
    BY <2>2, AppendProperties
  <2> QED BY <2>1, <2>2, <2>3
<1>6. \A k \in 1 .. m + 1 : Passed(m + 1)[k] = Append(Passed(m), m + 1)[k]
  <2>1. \A k \in 1 .. m + 1 : Passed(m + 1)[k] = k BY DEF Passed
  <2>2. \A k \in 1 .. m : Passed(m)[k] = k BY DEF Passed
  <2> QED BY <1>5, <2>1, <2>2
<1>7. Passed(m + 1) = Append(Passed(m), m + 1) BY <1>3, <1>4, <1>5, <1>6, SeqEqual
<1> QED BY <1>1, <1>3, <1>7

LEMMA KeptNext ==
  ASSUME NEW m \in Nat, NEW p
  PROVE  /\ Kept(m, p) \in Seq(Nat)
         /\ Kept(m + 1, p) = IF New(m + 1) /\ lines[m + 1].proto = p
                             THEN Append(Kept(m, p), m + 1) ELSE Kept(m, p)
<1>1. Passed(m) \in Seq(1 .. m) /\ Passed(m) \in Seq(Nat)
      /\ Passed(m + 1) = Append(Passed(m), m + 1)
  BY PassedOne
<1>2. 1 .. m \cap NewOf(m + 1, p) = 1 .. m \cap NewOf(m, p)
  BY DEF NewOf
<1>3. Select(Passed(m), NewOf(m + 1, p)) = Kept(m, p)
  <2> DEFINE S == 1 .. m
             K == NewOf(m + 1, p)
             L == NewOf(m, p)
  <2>1. Passed(m) \in Seq(S) /\ S \cap K = S \cap L BY <1>1, <1>2
  <2> HIDE DEF S, K, L
  <2>2. Select(Passed(m), K) = Select(Passed(m), L) BY <2>1, SelectSame
  <2> QED BY <2>2 DEF Kept, K, L
<1>4. m + 1 \in NewOf(m + 1, p) <=> New(m + 1) /\ lines[m + 1].proto = p
  BY DEF NewOf
<1>5. PICK M \in Nat : M = m + 1 OBVIOUS
<1>6. Select(Append(Passed(m), M), NewOf(M, p)) =
        IF M \in NewOf(M, p) THEN Append(Select(Passed(m), NewOf(M, p)), M)
        ELSE Select(Passed(m), NewOf(M, p))
  BY <1>1, SelectAppend
<1>7. Kept(m, p) \in Seq(Nat)
  <2>1. Kept(m, p) \in Seq(Nat \cap NewOf(m, p)) BY <1>1, SelectType DEF Kept
  <2>2. Nat \cap NewOf(m, p) \subseteq Nat OBVIOUS
  <2> QED BY <2>1, <2>2, SeqMonotonic
<1>8. Kept(M, p) = Select(Append(Passed(m), M), NewOf(M, p)) BY <1>1, <1>5 DEF Kept
<1> QED BY <1>3, <1>4, <1>5, <1>6, <1>7, <1>8

LEMMA GivenAppend ==
  ASSUME NEW s \in Seq(Nat), NEW x \in Nat, NEW g
  PROVE  Given(Append(s, x), g) = Append(Given(s, g), g[x])
<1> DEFINE t == Append(s, x)
           T == {g[k] : k \in Nat}
<1>1. /\ t \in Seq(Nat) /\ Len(s) \in Nat /\ Len(t) = Len(s) + 1 /\ t[Len(s) + 1] = x
      /\ \A k \in 1 .. Len(s) : t[k] = s[k]
  BY AppendProperties, LenProperties
<1> HIDE DEF t
<1>2. ASSUME NEW u \in Seq(Nat) PROVE Given(u, g) \in Seq(T) /\ Len(Given(u, g)) = Len(u)
  <2>1. DOMAIN u = 1 .. Len(u) /\ Len(u) \in Nat BY LenProperties
  <2>2. \A k \in 1 .. Len(u) : u[k] \in Nat BY LenProperties
  <2>3. Given(u, g) \in [1 .. Len(u) -> T] BY <2>1, <2>2 DEF Given
  <2>4. Given(u, g) = [k \in 1 .. Len(u) |-> Given(u, g)[k]] BY <2>3
  <2>5. Len(Given(u, g)) = Len(u) BY <2>1, <2>4, ListOf
  <2>6. Given(u, g) \in Seq(T)
    <3> HIDE DEF T
    <3> QED BY <2>1, <2>3, SeqDef, SMTT(30)
  <2> QED BY <2>5, <2>6
<1>3. Given(s, g) \in Seq(T) /\ Len(Given(s, g)) = Len(s)
      /\ Given(t, g) \in Seq(T) /\ Len(Given(t, g)) = Len(s) + 1
  BY <1>1, <1>2
<1>4. g[x] \in T OBVIOUS
<1>5. /\ \A k \in 1 .. Len(s) : Given(s, g)[k] = g[s[k]]
      /\ \A k \in 1 .. Len(s) + 1 : Given(t, g)[k] = g[t[k]]
  BY <1>1, LenProperties DEF Given
<1> DEFINE a == Given(s, g)
           b == Given(t, g)
<1> HIDE DEF T, a, b
<1>6. a \in Seq(T) /\ b \in Seq(T) /\ Len(a) = Len(s) /\ Len(b) = Len(s) + 1
  BY <1>3 DEF a, b
<1>7. /\ Append(a, g[x]) \in Seq(T) /\ Len(Append(a, g[x])) = Len(s) + 1
      /\ \A k \in 1 .. Len(s) : Append(a, g[x])[k] = a[k]
      /\ Append(a, g[x])[Len(s) + 1] = g[x]
  BY <1>4, <1>6, AppendProperties
<1>8. \A k \in 1 .. Len(s) + 1 : b[k] = Append(a, g[x])[k]
  <2>1. ASSUME NEW k \in 1 .. Len(s) PROVE b[k] = Append(a, g[x])[k]
    <3>1. k \in 1 .. Len(s) + 1 BY <1>1
    <3>2. b[k] = g[s[k]] BY <1>1, <1>5, <3>1 DEF b
    <3>3. a[k] = g[s[k]] BY <1>5 DEF a
    <3> QED BY <1>7, <3>2, <3>3
  <2>2. b[Len(s) + 1] = g[x]
    <3>1. Len(s) + 1 \in 1 .. Len(s) + 1 BY <1>1
    <3> QED BY <1>1, <1>5, <3>1 DEF b
  <2>3. \A k \in 1 .. Len(s) + 1 : k \in 1 .. Len(s) \/ k = Len(s) + 1 BY <1>1
  <2> QED BY <1>7, <2>1, <2>2, <2>3
<1>9. b = Append(a, g[x]) BY <1>6, <1>7, <1>8, SeqEqual
<1> QED BY <1>9 DEF a, b, t

(* A line is new to the loop if its identity has not been seen.            *)
LEMMA NewSeen ==
  ASSUME Order, More, Known, Readable
  PROVE  New(pos) <=> Id(Line) \notin seen
<1>1. \A j : Id(lines[j]) = Id(Line) => lines[j].proto = Line.proto
  <2> HIDE DEF Id
  <2> QED BY IdentityProto DEF Readable
<1>2. \A j \in 1 .. pos - 1 : Id(lines[j]) = Id(Line) => lines[j].proto \in Protocols
  BY <1>1 DEF Known
<1> HIDE DEF Id
<1> QED BY <1>2 DEF New, Order, Line

LEMMA FirstOfKept ==
  ASSUME NEW p PROVE FirstOf(p) = Given(Kept(pos - 1, p), lines)
BY DEF FirstOf, Given, Kept, Passed, NewOf

LEMMA NothingFirst == ASSUME pos = 1, NEW p PROVE FirstOf(p) = << >>
<1>1. pos - 1 = 0 /\ 0 \in Nat OBVIOUS
<1>2. Passed(0) \in Seq(1 .. 0) /\ Len(Passed(0)) = 0 BY PassedOne
<1>3. Passed(0) = << >> BY <1>2, EmptySeq
<1>4. Kept(0, p) = << >> BY <1>3, SelectEmpty DEF Kept
<1>5. Given(<< >>, lines) = << >> BY EmptySeq DEF Given
<1> QED BY <1>1, <1>4, <1>5, FirstOfKept

LEMMA NothingPassed ==
  pos = 1 /\ duplicates = 0 /\ byProto = [p \in Protocols |-> << >>] => KeepsFirst
<1> SUFFICES ASSUME pos = 1, duplicates = 0, byProto = [p \in Protocols |-> << >>]
             PROVE  KeepsFirst
  OBVIOUS
<1>1. pos - 1 = 0 /\ 0 \in Nat OBVIOUS
<1>2. ASSUME NEW p \in Protocols PROVE FirstOf(p) = << >> BY NothingFirst
<1>3. {k \in 1 .. pos - 1 : lines[k].proto \in Protocols /\ ~New(k)} = {} BY <1>1
<1> HIDE DEF New
<1> QED BY <1>2, <1>3, FS_EmptySet DEF KeepsFirst

LEMMA InitDedup == ASSUME IntakeInit PROVE DedupInv
<1>1. MergeInv BY InitMerged DEF IntakeInit
<1>2. pos = 1 /\ seen = {} /\ duplicates = 0 /\ byProto = [p \in Protocols |-> << >>]
      /\ lines = << >>
  BY DEF IntakeInit, Init
<1>3. Order
  <2>1. Len(lines) = 0 BY <1>2, EmptySeq
  <2>2. 1 .. pos - 1 = {} BY <1>2
  <2> HIDE DEF Id
  <2>3. seen = {Id(lines[j]) : j \in {j \in 1 .. pos - 1 : lines[j].proto \in Protocols}}
    BY <1>2, <2>2
  <2> QED BY <1>2, <2>1, <2>2, <2>3 DEF Order
<1>4. KeepsFirst BY <1>2, NothingPassed
<1> QED BY <1>1, <1>3, <1>4 DEF DedupInv

(* The loop passes one line: what happens to it is what KeepsFirst says.   *)
LEMMA PassLine ==
  ASSUME Order, KeepsFirst, More, Known => Readable, UNCHANGED vars, pos' = pos + 1,
         seen' = IF Known THEN seen \cup {Id(Line)} ELSE seen,
         byProto' = IF Known /\ New(pos)
                    THEN [byProto EXCEPT ![Line.proto] = Append(@, Line)] ELSE byProto,
         duplicates' = IF Known /\ ~New(pos) THEN duplicates + 1 ELSE duplicates
  PROVE  Order' /\ KeepsFirst'
<1> DEFINE m == pos - 1
<1>0. m \in Nat /\ m + 1 = pos /\ pos' - 1 = pos /\ lines' = lines /\ mpc' = mpc
  BY DEF Order, vars, merged
<1>1. \A k : New(k)' <=> New(k) BY <1>0 DEF New, Id
<1>2. Order'
  <2>1. pos' \in Nat \ {0} /\ pos' <= Len(lines') + 1 /\ mpc' = "done"
    BY <1>0, LenProperties DEF Order, More
  <2>2. 1 .. pos = 1 .. m \cup {pos} BY <1>0
  <2>3. Ours(pos) = IF Known THEN Ours(m) \cup {pos} ELSE Ours(m)
    BY <2>2 DEF Known, Line, Ours
  <2>4. seen = {Id(lines[j]) : j \in Ours(m)} BY DEF Order, Ours
  <2>5. seen' = {Id(lines[j]) : j \in Ours(pos)}
    <3> HIDE DEF m, Id
    <3> QED BY <2>3, <2>4 DEF Line
  <2>6. byProto' = [p \in Protocols |-> byProto'[p]] BY DEF Order
  <2>7. {Id(lines[j]) : j \in {j \in 1 .. pos - 1 : lines[j].proto \in Protocols}}'
          = {Id(lines[j]) : j \in Ours(pos)}
    BY <1>0 DEF Id, Ours
  <2>8. \A j \in 1 .. pos : lines[j].proto \in Protocols => Id(lines[j]) # Panic
    <3> HIDE DEF m, Id
    <3> QED BY <2>2 DEF Order, Known, Readable, Line, m
  <2>9. (\A j \in 1 .. pos - 1 : lines[j].proto \in Protocols => Id(lines[j]) # Panic)'
    BY <1>0, <2>8 DEF Id
  <2> QED BY <1>0, <2>1, <2>5, <2>6, <2>7, <2>9 DEF Order
<1>3. ASSUME NEW p \in Protocols PROVE byProto'[p] = FirstOf(p)'
  <2>1. byProto[p] = Given(Kept(m, p), lines) BY FirstOfKept DEF KeepsFirst
  <2>2. FirstOf(p)' = Given(Kept(pos, p), lines)
    <3>1. {k \in 1 .. pos - 1 : New(k) /\ lines[k].proto = p}' = NewOf(pos, p)
      <4> HIDE DEF m, New
      <4> QED BY <1>0, <1>1 DEF NewOf
    <3>2. Select([k \in 1 .. pos - 1 |-> k], {k \in 1 .. pos - 1 : New(k) /\ lines[k].proto = p})'
            = Kept(pos, p)
      BY <1>0, <3>1 DEF Kept, Passed
    <3> QED BY <1>0, <3>2 DEF FirstOf, Given
  <2>3. /\ Kept(m, p) \in Seq(Nat)
        /\ Kept(pos, p) = IF New(pos) /\ Line.proto = p
                          THEN Append(Kept(m, p), pos) ELSE Kept(m, p)
    BY <1>0, KeptNext DEF Line
  <2>4. CASE New(pos) /\ Line.proto = p
    <3>1. byProto'[p] = Append(byProto[p], Line) BY <2>4 DEF Known, Order
    <3>2. Given(Append(Kept(m, p), pos), lines) = Append(Given(Kept(m, p), lines), lines[pos])
      <4>1. PICK ks \in Seq(Nat) : ks = Kept(m, p) BY <2>3
      <4>2. PICK x \in Nat : x = pos BY <1>0
      <4>3. Given(Append(ks, x), lines) = Append(Given(ks, lines), lines[x]) BY GivenAppend
      <4> QED BY <4>1, <4>2, <4>3
    <3> QED BY <2>1, <2>2, <2>3, <2>4, <3>1, <3>2 DEF Line
  <2>5. CASE ~(New(pos) /\ Line.proto = p)
    <3>1. byProto'[p] = byProto[p] BY <2>5 DEF Order
    <3> QED BY <2>1, <2>2, <2>3, <2>5, <3>1
  <2> QED BY <2>4, <2>5
<1>4. duplicates' = Cardinality(Twins(pos))
  <2>1. duplicates = Cardinality(Twins(m)) BY DEF KeepsFirst, Twins
  <2>2. IsFiniteSet(Twins(m)) /\ Cardinality(Twins(m)) \in Nat
    <3>1. IsFiniteSet(1 .. m) BY <1>0, FS_Interval
    <3>2. Twins(m) \subseteq 1 .. m BY DEF Twins
    <3> QED BY <3>1, <3>2, FS_Subset, FS_CardinalityType
  <2>3. 1 .. pos = 1 .. m \cup {pos} /\ pos \notin 1 .. m BY <1>0
  <2>4. Twins(pos) = IF Known /\ ~New(pos) THEN Twins(m) \cup {pos} ELSE Twins(m)
    BY <2>3 DEF Twins, Known, Line
  <2>5. pos \notin Twins(m) BY <2>3 DEF Twins
  <2> QED BY <2>1, <2>2, <2>4, <2>5, FS_AddElement
<1>5. KeepsFirst'
  <2>1. {k \in 1 .. pos - 1 : lines[k].proto \in Protocols /\ ~New(k)}' = Twins(pos)
    BY <1>0, <1>1 DEF Twins
  <2> QED BY <1>3, <1>4, <2>1 DEF KeepsFirst
<1> QED BY <1>2, <1>5

(* The lines change only while the loop has not begun.                     *)
LEMMA DedupStep == ASSUME DedupInv, [IntakeNext]_intakeVars PROVE DedupInv'
<1>0. MergeInv' BY MergeStep DEF DedupInv
<1> HIDE DEF Id
<1>1. ASSUME Ignore \/ Keep \/ Drop PROVE DedupInv'
  <2>1. More /\ UNCHANGED vars /\ pos' = pos + 1 /\ (Known => Readable)
    BY <1>1 DEF Ignore, Keep, Drop
  <2>2. Known => (New(pos) <=> Id(Line) \notin seen) BY <2>1, NewSeen DEF DedupInv
  <2>3. seen' = IF Known THEN seen \cup {Id(Line)} ELSE seen
    BY <1>1, <2>2 DEF Ignore, Keep, Drop
  <2>4. byProto' = IF Known /\ New(pos)
                   THEN [byProto EXCEPT ![Line.proto] = Append(@, Line)] ELSE byProto
    BY <1>1, <2>2 DEF Ignore, Keep, Drop
  <2>5. duplicates' = IF Known /\ ~New(pos) THEN duplicates + 1 ELSE duplicates
    BY <1>1, <2>2 DEF Ignore, Keep, Drop
  <2> QED BY <1>0, <2>1, <2>3, <2>4, <2>5, PassLine DEF DedupInv
<1>2. ASSUME UNCHANGED <<lines, mpc, pos, seen, byProto, duplicates>> PROVE DedupInv'
  <2>1. UNCHANGED <<lines, mpc, pos, seen, byProto, duplicates>> BY <1>2
  <2>2. Order' BY <2>1 DEF DedupInv, Order, Id
  <2>3. KeepsFirst' BY <2>1 DEF DedupInv, KeepsFirst, FirstOf, New, Id
  <2> QED BY <1>0, <2>2, <2>3 DEF DedupInv
<1>3. ASSUME UNCHANGED dedupVars, mpc # "done" PROVE DedupInv'
  <2>1. pos = 1 /\ UNCHANGED <<pos, seen, byProto, duplicates>>
    BY <1>3 DEF dedupVars, DedupInv, Order
  <2>2. seen = {} /\ \A p \in Protocols : FirstOf(p) = << >>
    <3>1. 1 .. pos - 1 = {} BY <2>1
    <3>2. seen = {} BY <3>1 DEF DedupInv, Order
    <3> QED BY <2>1, <3>2, NothingFirst
  <2>3. duplicates = 0
    <3>1. {k \in 1 .. pos - 1 : lines[k].proto \in Protocols /\ ~New(k)} = {} BY <2>1
    <3> QED BY <3>1, FS_EmptySet DEF DedupInv, KeepsFirst
  <2>4. byProto = [p \in Protocols |-> << >>]
    BY <2>2 DEF DedupInv, Order, KeepsFirst
  <2>5. pos' = 1 /\ duplicates' = 0 /\ byProto' = [p \in Protocols |-> << >>] /\ seen' = {}
    BY <2>1, <2>2, <2>3, <2>4
  <2>6. KeepsFirst'
    <3>1. (pos = 1 /\ duplicates = 0 /\ byProto = [p \in Protocols |-> << >>] => KeepsFirst)'
      BY NothingPassed, PTL
    <3> QED BY <2>5, <3>1
  <2>7. Order'
    <3>1. Len(lines') \in Nat
      <4>1. (MergeInv => lines \in Seq(Fetchable))' BY LinesFetched, PTL
      <4>2. lines' \in Seq(Fetchable) BY <1>0, <4>1
      <4> QED BY <4>2, LenProperties
    <3>2. {j \in 1 .. pos' - 1 : lines'[j].proto \in Protocols} = {} BY <2>5
    <3>3. 1 .. pos' - 1 = {} BY <2>5
    <3> QED BY <2>5, <3>1, <3>2, <3>3 DEF Order
  <2> QED BY <1>0, <2>6, <2>7 DEF DedupInv
<1>4. CASE Fetching
  <2>1. mpc = "done" => UNCHANGED <<lines, mpc>>
    BY <1>4 DEF Fetching, Caller, StartBatch, Merge, Finish, Goroutine, FetchOk, FetchFails,
                GiveUp, Store, merged
  <2> QED BY <1>2, <1>3, <1>4, <2>1 DEF Fetching, dedupVars
<1>5. CASE Crash \/ Deduped \/ UNCHANGED intakeVars
  <2>1. UNCHANGED <<lines, mpc, pos, seen, byProto, duplicates>>
    BY <1>5 DEF Crash, Deduped, intakeVars, dedupVars, vars, merged
  <2> QED BY <1>2, <2>1
<1> QED BY <1>1, <1>4, <1>5 DEF IntakeNext, Dedup

THEOREM DedupInvariant == IntakeSpec => []DedupInv
<1>1. IntakeInit => DedupInv BY InitDedup
<1>2. DedupInv /\ [IntakeNext]_intakeVars => DedupInv' BY DedupStep
<1> QED BY <1>1, <1>2, PTL DEF IntakeSpec

(* As far as dedup comes, the first of the lines with an identity is kept, *)
(* in the order of fetching, and every other is counted as a duplicate.    *)
THEOREM FirstIsKept == IntakeSpec => []KeepsFirst
<1>1. DedupInv => KeepsFirst BY DEF DedupInv
<1> QED BY <1>1, DedupInvariant, PTL

-----------------------------------------------------------------------------
(* What the lines of a text contain, and what smartDecode yields of it.    *)

LEMMA ListSet == ASSUME NEW s, IsList(s) PROVE ToSet(s) = {s[k] : k \in 1 .. Len(s)}
BY DomainOf DEF ToSet

LEMMA FlattenElements ==
  ASSUME NEW S
  PROVE  \A s \in Seq(Seq(S)) : ToSet(FlattenSeq(s)) = UNION {ToSet(s[k]) : k \in 1 .. Len(s)}
<1> DEFINE T == {s \in Seq(Seq(S)) :
                   Elements(FlattenSeq(s)) = UNION {Elements(s[k]) : k \in 1 .. Len(s)}}
<1>1. << >> \in T
  <2>1. << >> \in Seq(Seq(S)) /\ Len(<< >>) = 0 /\ 1 .. 0 = {} BY EmptySeq
  <2>2. {Elements(<< >>[k]) : k \in 1 .. 0} = {} OBVIOUS
  <2>3. Elements(<< >>) = {} BY ElementsEmpty
  <2>4. Elements(FlattenSeq(<< >>)) = {} BY <2>3, FlattenEmpty
  <2> QED BY <2>1, <2>2, <2>4
<1>2. ASSUME NEW s \in Seq(Seq(S)), NEW x \in Seq(S), s \in T PROVE Append(s, x) \in T
  <2> DEFINE t == Append(s, x)
             n == Len(s)
             f == FlattenSeq(s)
  <2>1. /\ t \in Seq(Seq(S)) /\ Len(t) = n + 1 /\ n \in Nat /\ t[n + 1] = x
        /\ \A k \in 1 .. n : t[k] = s[k]
    BY AppendProperties, LenProperties
  <2>2. f \in Seq(S) /\ FlattenSeq(t) = f \o x BY FlattenType, FlattenAppend
  <2>3. Elements(f) = UNION {Elements(s[k]) : k \in 1 .. n} BY <1>2
  <2> HIDE DEF t, n, f
  <2>4. Elements(f \o x) = Elements(f) \cup Elements(x) BY <2>2, ElementsConcat
  <2>5. 1 .. n + 1 = 1 .. n \cup {n + 1} BY <2>1
  <2>6. UNION {Elements(t[k]) : k \in 1 .. n + 1}
          = (UNION {Elements(s[k]) : k \in 1 .. n}) \cup Elements(x)
    <3>1. {Elements(t[k]) : k \in 1 .. n + 1} = {Elements(s[k]) : k \in 1 .. n} \cup {Elements(x)}
      BY <2>1, <2>5
    <3> QED BY <3>1
  <2>7. Elements(FlattenSeq(t)) = UNION {Elements(t[k]) : k \in 1 .. Len(t)}
    BY <2>1, <2>2, <2>3, <2>4, <2>6
  <2> QED BY <2>1, <2>7 DEF t
<1>3. Seq(Seq(S)) \subseteq T
  <2> HIDE DEF T
  <2> QED BY <1>1, <1>2, SeqInduction
<1> TAKE s \in Seq(Seq(S))
<1>4. FlattenSeq(s) \in Seq(S) BY FlattenType
<1>5. \A k \in 1 .. Len(s) : ToSet(s[k]) = Elements(s[k])
  <2> TAKE k \in 1 .. Len(s)
  <2>1. s[k] \in Seq(S) BY LenProperties
  <2> QED BY <2>1, ElementsToSet
<1>6. {ToSet(s[k]) : k \in 1 .. Len(s)} = {Elements(s[k]) : k \in 1 .. Len(s)} BY <1>5
<1>7. ToSet(FlattenSeq(s)) = Elements(FlattenSeq(s)) BY <1>4, ElementsToSet
<1> QED BY <1>3, <1>6, <1>7

LEMMA FlattenParts ==
  ASSUME NEW n \in Nat, NEW s, s = [k \in 1 .. n |-> s[k]], \A k \in 1 .. n : IsList(s[k])
  PROVE  ToSet(FlattenSeq(s)) = UNION {ToSet(s[k]) : k \in 1 .. n}
<1> DEFINE S == UNION {ToSet(s[k]) : k \in 1 .. n}
<1>1. \A k \in 1 .. n : s[k] \in Seq(S)
  <2> TAKE k \in 1 .. n
  <2>1. s[k] \in Seq(ToSet(s[k])) BY DEF IsList
  <2>2. ToSet(s[k]) \subseteq S OBVIOUS
  <2> HIDE DEF S
  <2> QED BY <2>1, <2>2, SeqMonotonic
<1> HIDE DEF S
<1>2. s \in [1 .. n -> Seq(S)] BY <1>1
<1>3. s \in Seq(Seq(S)) BY <1>2, SeqDef
<1>4. Len(s) = n BY ListOf
<1> QED BY <1>3, <1>4, FlattenElements

(* A Clash file: its links, or none at all. *)
LEMMA ClashYields ==
  ASSUME NEW body, IsList(body.entries)
  PROVE  /\ ToSet(ParseClashYAML(body.entries)) = IF HasH2(body) THEN {} ELSE ClashLinks(body)
         /\ ParseClashYAML(body.entries) = << >> <=> HasH2(body) \/ ClashLinks(body) = {}
         /\ ClashLinks(body) # {} => IsClashYAML(body)
<1> DEFINE links == [k \in DOMAIN body.entries |-> ProxyToURI(body.entries[k])]
           n == Len(body.entries)
           kept == Select(links, ToSet(links) \ {NoLink})
<1>1. n \in Nat /\ DOMAIN body.entries = 1 .. n BY DomainOf
<1>2. ToSet(links) \ {NoLink} = ClashLinks(body) BY <1>1 DEF ToSet, ClashLinks
<1>3. IsList(links)
  <2>1. links = [k \in 1 .. n |-> links[k]] BY <1>1
  <2> HIDE DEF links
  <2> QED BY <1>1, <2>1, ListOf
<1>4. ToSet(kept) = ClashLinks(body)
  <2> HIDE DEF links
  <2>1. links \in Seq(ToSet(links)) BY <1>3 DEF IsList
  <2>2. Elements(kept) = Elements(links) \cap (ToSet(links) \ {NoLink})
    BY <2>1, SelectElements
  <2>3. kept \in Seq(ToSet(links) \cap (ToSet(links) \ {NoLink})) BY <2>1, SelectType
  <2>4. ToSet(kept) = Elements(kept) /\ ToSet(links) = Elements(links)
    BY <2>1, <2>3, ElementsToSet
  <2> QED BY <1>2, <2>2, <2>4
<1>5. kept = << >> <=> ClashLinks(body) = {}
  <2>1. IsList(kept)
    <3> HIDE DEF links
    <3> QED BY <1>3, SelectList
  <2> HIDE DEF kept
  <2>2. ToSet(kept) = {kept[k] : k \in 1 .. Len(kept)} /\ Len(kept) \in Nat
    BY <2>1, ListSet, DomainOf
  <2>3. kept = << >> <=> Len(kept) = 0 BY <2>1, EmptySeq DEF IsList
  <2>4. Len(kept) = 0 <=> ToSet(kept) = {}
    <3>1. Len(kept) # 0 => kept[1] \in ToSet(kept) BY <2>2
    <3>2. Len(kept) = 0 => 1 .. Len(kept) = {} OBVIOUS
    <3> QED BY <2>2, <3>1, <3>2
  <2> QED BY <1>4, <2>3, <2>4
<1>6. ToSet(<< >>) = {} BY DEF ToSet
<1>7. ParseClashYAML(body.entries) = IF HasH2(body) THEN << >> ELSE kept
  BY DEF ParseClashYAML, HasH2
<1>8. ClashLinks(body) # {} => IsClashYAML(body)
  <2>1. body.entries = << >> => DOMAIN body.entries = {} OBVIOUS
  <2> QED BY <2>1 DEF ClashLinks, IsClashYAML
<1> HIDE DEF kept, links
<1> QED BY <1>4, <1>5, <1>6, <1>7, <1>8

LEMMA LinesYield ==
  ASSUME NEW body, IsList(body.lines)
  PROVE  /\ LinksIn(body.lines) \subseteq ToSet(ExtractLines(body))
         /\ ToSet(ExtractLines(body)) \subseteq {NoLink} \cup LinksIn(body.lines)
<1>1. ToSet(ExtractLines(body)) = {body.lines[k].link : k \in DOMAIN body.lines}
  BY DEF ToSet, ExtractLines
<1> QED BY <1>1 DEF LinksIn

(* The parts of a text in base64, and the text that they make. *)
LEMMA DecodedLines ==
  ASSUME NEW s, IsList(s), Decodes(s),
         \A x \in ToSet(s) : x.kind = "base64" => IsList(x.body.lines) /\ x.body.lines # << >>
  PROVE  /\ Len(s) \in Nat \ {0} /\ \A k \in 1 .. Len(s) : s[k].kind = "base64"
         /\ ToSet(s[1].body.lines) \subseteq ToSet(DecodeBase64(s).lines)
         /\ \A y \in ToSet(DecodeBase64(s).lines) :
               \E k \in 1 .. Len(s) : y \in ToSet(s[k].body.lines)
         /\ Len(s) = 1 => DecodeBase64(s).lines = s[1].body.lines
<1>1. Len(s) \in Nat /\ DOMAIN s = 1 .. Len(s) /\ Sound(s) \in 0 .. Len(s)
  BY DomainOf, SoundType
<1>2. Len(s) # 0
  <2>1. s # << >> BY DEF Decodes, IsLikelyBase64
  <2> QED BY <2>1, EmptySeq DEF IsList
<1>3. Sound(s) # 0
  <2> DEFINE I == {i \in 1 .. Len(s) : s[i].mod # 0}
  <2>1. I \in SUBSET Nat BY <1>1
  <2>2. I # {} => Min(I) \in I
    <3> HIDE DEF I
    <3> QED BY <2>1, LeastOf
  <2>3. SelectInSeq(s, LAMBDA x : x.mod # 0) = IF I # {} THEN Min(I) ELSE 0
    BY DEF SelectInSeq
  <2>4. Sound(s) = LET k == IF I # {} THEN Min(I) ELSE 0 IN IF k = 0 THEN Len(s) ELSE k
    BY <2>3 DEF Sound
  <2> QED BY <1>2, <2>2, <2>4
<1>4. \A k \in 1 .. Len(s) : s[k].kind = "base64" /\ s[k] \in ToSet(s)
  BY <1>1 DEF Decodes, IsLikelyBase64, ToSet
<1>5. \A k \in 1 .. Len(s) : IsList(s[k].body.lines) /\ s[k].body.lines # << >>
  BY <1>4
<1> DEFINE part(k) == IF k = 1 \/ s[k - 1].newline THEN s[k].body.lines
                      ELSE Tail(s[k].body.lines)
           parts == [k \in 1 .. Sound(s) |-> part(k)]
<1>6. ASSUME NEW k \in 1 .. Len(s)
      PROVE  IsList(part(k)) /\ ToSet(part(k)) \subseteq ToSet(s[k].body.lines)
  <2>1. PICK S : s[k].body.lines \in Seq(S) BY <1>5 DEF IsList
  <2> DEFINE b == s[k].body.lines
  <2>2. b \in Seq(S) /\ b # << >> BY <1>5, <2>1
  <2> HIDE DEF b
  <2>3. /\ Tail(b) \in Seq(S) /\ Len(Tail(b)) = Len(b) - 1 /\ Len(b) \in Nat
        /\ \A i \in 1 .. Len(Tail(b)) : Tail(b)[i] = b[i + 1]
    BY <2>2, HeadTailProperties, LenProperties
  <2>4. ToSet(Tail(b)) \subseteq ToSet(b)
    <3>1. DOMAIN Tail(b) = 1 .. Len(Tail(b)) /\ DOMAIN b = 1 .. Len(b)
      BY <2>2, <2>3, LenProperties
    <3>2. \A i \in DOMAIN Tail(b) : i + 1 \in DOMAIN b /\ Tail(b)[i] = b[i + 1]
      BY <2>3, <3>1
    <3> QED BY <3>2 DEF ToSet
  <2>5. IsList(b) /\ IsList(Tail(b)) BY <2>2, <2>3, SeqIsList
  <2> QED BY <2>4, <2>5 DEF b
<1>7. Sound(s) \in Nat \ {0} /\ Sound(s) <= Len(s) BY <1>1, <1>3
<1> HIDE DEF part
<1>8. ToSet(FlattenSeq(parts)) = UNION {ToSet(part(k)) : k \in 1 .. Sound(s)}
  <2>1. \A k \in 1 .. Sound(s) : parts[k] = part(k) /\ IsList(parts[k]) BY <1>6, <1>7
  <2>2. parts = [k \in 1 .. Sound(s) |-> parts[k]] OBVIOUS
  <2>3. {ToSet(parts[k]) : k \in 1 .. Sound(s)} = {ToSet(part(k)) : k \in 1 .. Sound(s)}
    BY <2>1
  <2> HIDE DEF parts
  <2>4. ToSet(FlattenSeq(parts)) = UNION {ToSet(parts[k]) : k \in 1 .. Sound(s)}
    BY <1>7, <2>1, <2>2, FlattenParts
  <2> QED BY <2>3, <2>4
<1>9. DecodeBase64(s).lines = FlattenSeq(parts)
  BY DEF DecodeBase64, Body, part
<1>10. part(1) = s[1].body.lines BY DEF part
<1>11. ToSet(s[1].body.lines) \subseteq ToSet(DecodeBase64(s).lines)
  <2>1. 1 \in 1 .. Sound(s) BY <1>7
  <2> HIDE DEF parts
  <2> QED BY <1>8, <1>9, <1>10, <2>1
<1>12. ASSUME NEW y \in ToSet(DecodeBase64(s).lines)
       PROVE  \E k \in 1 .. Len(s) : y \in ToSet(s[k].body.lines)
  <2> HIDE DEF parts
  <2>1. PICK k \in 1 .. Sound(s) : y \in ToSet(part(k)) BY <1>8, <1>9, <1>12
  <2>2. k \in 1 .. Len(s) BY <1>7
  <2> QED BY <1>6, <2>1, <2>2
<1>13. ASSUME Len(s) = 1 PROVE DecodeBase64(s).lines = s[1].body.lines
  <2>1. Sound(s) = 1 BY <1>7, <1>13
  <2> DEFINE b == s[1].body.lines
  <2>2. parts = [k \in 1 .. 1 |-> b] BY <1>10, <2>1
  <2>3. PICK S : b \in Seq(S) BY <1>5, <1>13 DEF IsList
  <2> HIDE DEF b
  <2>4. << >> \in Seq(Seq(S)) /\ FlattenSeq(<< >>) = << >> /\ << >> \in Seq(S)
    BY EmptySeq, FlattenEmpty
  <2>5. Append(<< >>, b) = [k \in 1 .. 1 |-> b] BY <2>3
  <2>6. FlattenSeq(Append(<< >>, b)) = << >> \o b
    <3>1. PICK e \in Seq(Seq(S)) : e = << >> BY <2>4
    <3>2. FlattenSeq(e) \in Seq(S) BY <2>4, <3>1
    <3>3. FlattenSeq(Append(e, b)) = FlattenSeq(e) \o b BY <2>3, <3>2, FlattenAppend
    <3> QED BY <2>4, <3>1, <3>3
  <2>7. << >> \o b = b BY <2>3, ConcatEmptySeq
  <2> QED BY <1>9, <2>2, <2>5, <2>6, <2>7 DEF b
<1> HIDE DEF parts
<1> QED BY <1>1, <1>2, <1>4, <1>11, <1>12, <1>13

(* A text that is a Clash file, or else lines. *)
LEMMA FileOrLines ==
  ASSUME NEW body, IsList(body.entries), IsList(body.lines)
  PROVE  /\ InEntries(body) \subseteq ToSet(ClashOrLines(body))
         /\ ToSet(ClashOrLines(body)) \subseteq {NoLink} \cup ClashLinks(body) \cup LinksIn(body.lines)
         /\ ~IsClashYAML(body) => ClashOrLines(body) = ExtractLines(body)
<1> DEFINE links == ParseClashYAML(body.entries)
<1>1. /\ ToSet(links) = IF HasH2(body) THEN {} ELSE ClashLinks(body)
      /\ links = << >> <=> HasH2(body) \/ ClashLinks(body) = {}
      /\ ClashLinks(body) # {} => IsClashYAML(body)
  BY ClashYields
<1>2. ClashOrLines(body) = IF IsClashYAML(body) /\ links # << >> THEN links ELSE ExtractLines(body)
  BY DEF ClashOrLines
<1>3. InEntries(body) = IF HasH2(body) THEN {} ELSE IF ClashLinks(body) # {} THEN ClashLinks(body)
                       ELSE LinksIn(body.lines)
  BY DEF InEntries, HasH2
<1>4. /\ LinksIn(body.lines) \subseteq ToSet(ExtractLines(body))
      /\ ToSet(ExtractLines(body)) \subseteq {NoLink} \cup LinksIn(body.lines)
  BY LinesYield
<1> HIDE DEF links
<1> QED BY <1>1, <1>2, <1>3, <1>4

(* Base64 as a whole. *)
LEMMA WholeYields ==
  ASSUME NEW text, IsText(text), Decodes(text.lines)
  PROVE  LET s == text.lines
             yields == ToSet(ClashOrLines(DecodeBase64(s)))
         IN  /\ yields \subseteq {NoLink} \cup Contained(text)
             /\ IF Len(s) = 1 THEN InEntries(s[1].body) \subseteq yields
                ELSE LinksIn(s[1].body.lines) \subseteq yields
<1> DEFINE s == text.lines
           d == DecodeBase64(s)
           yields == ToSet(ClashOrLines(d))
<1>1. IsList(s) /\ \A x \in ToSet(s) : x.kind = "base64" =>
        IsList(x.body.entries) /\ IsList(x.body.lines) /\ x.body.lines # << >>
  BY DEF IsText
<1>2. IsList(d.entries) /\ IsList(d.lines) BY <1>1, DecodedList
<1>3. /\ Len(s) \in Nat \ {0} /\ \A k \in 1 .. Len(s) : s[k].kind = "base64"
      /\ ToSet(s[1].body.lines) \subseteq ToSet(d.lines)
      /\ \A y \in ToSet(d.lines) : \E k \in 1 .. Len(s) : y \in ToSet(s[k].body.lines)
      /\ Len(s) = 1 => d.lines = s[1].body.lines
  BY <1>1, DecodedLines
<1>4. /\ Len(s) = 1 => d.entries = s[1].body.entries
      /\ Len(s) # 1 => d.entries = << >>
  BY DEF DecodeBase64, Body
<1>5. \A k \in 1 .. Len(s) : s[k] \in {x \in ToSet(s) : x.kind = "base64"}
  BY <1>1, <1>3, ListSet
<1> HIDE DEF s, d
<1>6. \A t : LinksIn(t) = {y.link : y \in ToSet(t)} \ {NoLink} BY DEF LinksIn, ToSet
<1>7. LinksIn(d.lines) \subseteq Inner(ToSet(s))
  <2> SUFFICES ASSUME NEW y \in ToSet(d.lines), y.link # NoLink PROVE y.link \in Inner(ToSet(s))
    BY <1>6
  <2>1. PICK k \in 1 .. Len(s) : y \in ToSet(s[k].body.lines) BY <1>3
  <2>2. y.link \in LinksIn(s[k].body.lines) BY <1>6, <2>1
  <2> QED BY <1>5, <2>2 DEF Inner
<1>8. ClashLinks(d) \subseteq Contained(text)
  <2>1. CASE Len(s) = 1
    <3>1. ClashLinks(d) = ClashLinks(s[1].body) BY <1>4, <2>1 DEF ClashLinks
    <3>2. s[1] \in Base64In(text) BY <1>5, <2>1 DEF Base64In, s
    <3> QED BY <3>1, <3>2 DEF Contained
  <2>2. CASE Len(s) # 1
    <3>1. ClashLinks(d) = {} BY <1>4, <2>2 DEF ClashLinks
    <3> QED BY <3>1
  <2> QED BY <2>1, <2>2
<1>9. yields \subseteq {NoLink} \cup ClashLinks(d) \cup LinksIn(d.lines) /\ InEntries(d) \subseteq yields
  BY <1>2, FileOrLines
<1>10. Inner(ToSet(s)) \subseteq Contained(text) BY DEF Contained, s
<1>11. yields \subseteq {NoLink} \cup Contained(text)
  <2> HIDE DEF yields
  <2> QED BY <1>7, <1>8, <1>9, <1>10
<1>12. CASE Len(s) = 1
  <2>1. InEntries(d) = InEntries(s[1].body) BY <1>3, <1>4, <1>12 DEF InEntries, ClashLinks, HasH2
  <2> HIDE DEF yields
  <2> QED BY <1>9, <1>11, <1>12, <2>1 DEF yields, d, s
<1>13. CASE Len(s) # 1
  <2>1. ~IsClashYAML(d) BY <1>4, <1>13 DEF IsClashYAML
  <2>2. yields = ToSet(ExtractLines(d)) BY <1>2, <2>1, FileOrLines
  <2>3. LinksIn(d.lines) \subseteq yields BY <1>2, <2>2, LinesYield
  <2>4. LinksIn(s[1].body.lines) \subseteq LinksIn(d.lines) BY <1>3, <1>6
  <2> HIDE DEF yields
  <2> QED BY <1>11, <1>13, <2>3, <2>4 DEF yields, d, s
<1> QED BY <1>12, <1>13

(* Line by line, and row by row. *)
LEMMA LineYields ==
  ASSUME NEW x, x.kind = "base64", IsList(x.body.lines),
         \A k \in DOMAIN x.cuts : k \in DOMAIN x.body.lines
  PROVE  /\ OnOneRow(x) \subseteq ToSet(DecodeLine(x))
         /\ ToSet(DecodeLine(x)) \subseteq {NoLink} \cup LinksIn(x.body.lines)
                                        \cup {Beginning(x, k) : k \in DOMAIN x.cuts}
<1> DEFINE n == Len(x.body.lines)
           rows == [k \in DOMAIN x.body.lines |-> Rows(x, k)]
<1>1. n \in Nat /\ DOMAIN x.body.lines = 1 .. n BY DomainOf
<1>2. \A k \in 1 .. n : rows[k] = Rows(x, k) BY <1>1
<1>3. ToSet(DecodeLine(x)) = UNION {ToSet(Rows(x, k)) : k \in 1 .. n}
  <2>1. rows = [k \in 1 .. n |-> rows[k]] /\ \A k \in 1 .. n : IsList(rows[k])
    BY <1>1, RowsList
  <2>2. {ToSet(rows[k]) : k \in 1 .. n} = {ToSet(Rows(x, k)) : k \in 1 .. n} BY <1>2
  <2>3. DecodeLine(x) = FlattenSeq(rows) BY DEF DecodeLine
  <2> HIDE DEF rows, n
  <2> QED BY <1>1, <2>1, <2>2, <2>3, FlattenParts
<1>4. \A k : ToSet(Rows(x, k)) = IF k \in DOMAIN x.cuts THEN {Beginning(x, k), NoLink}
                                ELSE {x.body.lines[k].link}
  BY RowsList
<1> HIDE DEF n, rows
<1>5. ASSUME NEW y \in OnOneRow(x) PROVE y \in ToSet(DecodeLine(x))
  <2>1. PICK k \in DOMAIN x.body.lines \ DOMAIN x.cuts : y = x.body.lines[k].link
    BY <1>5 DEF OnOneRow
  <2>2. y \in ToSet(Rows(x, k)) /\ k \in 1 .. n BY <1>1, <1>4, <2>1
  <2> QED BY <1>3, <2>2
<1>6. ASSUME NEW y \in ToSet(DecodeLine(x))
      PROVE  y \in {NoLink} \cup LinksIn(x.body.lines)
                            \cup {Beginning(x, k) : k \in DOMAIN x.cuts}
  <2>1. PICK k \in 1 .. n : y \in ToSet(Rows(x, k)) BY <1>3, <1>6
  <2>2. CASE k \in DOMAIN x.cuts
    <3> HIDE DEF Beginning
    <3> QED BY <1>4, <2>1, <2>2
  <2>3. CASE k \notin DOMAIN x.cuts
    <3>1. y = x.body.lines[k].link BY <1>4, <2>1, <2>3
    <3>2. y \in {NoLink} \cup LinksIn(x.body.lines) BY <1>1, <3>1 DEF LinksIn
    <3> QED BY <3>2
  <2> QED BY <2>2, <2>3
<1> QED BY <1>5, <1>6

LEMMA EachYields ==
  ASSUME NEW text, IsText(text)
  PROVE  LET s == text.lines
             yields == ToSet(FlattenSeq([k \in DOMAIN s |-> DecodeLine(s[k])]))
         IN  /\ yields \subseteq {NoLink} \cup LinksIn(s) \cup Inner(ToSet(s)) \cup CutOff(text)
             /\ UNION {OnOneRow(x) : x \in Base64In(text)} \subseteq yields
<1> DEFINE s == text.lines
           n == Len(s)
           parts == [k \in DOMAIN s |-> DecodeLine(s[k])]
           yields == ToSet(FlattenSeq(parts))
<1>1. IsList(s) /\ \A x \in ToSet(s) : x.kind = "base64" =>
        IsList(x.body.lines) /\ \A k \in DOMAIN x.cuts : k \in DOMAIN x.body.lines
  BY DEF IsText
<1>2. n \in Nat /\ DOMAIN s = 1 .. n /\ ToSet(s) = {s[k] : k \in 1 .. n} BY <1>1, DomainOf, ListSet
<1>3. \A x \in ToSet(s) : IsList(DecodeLine(x)) BY <1>1, DecodeLineList
<1>4. yields = UNION {ToSet(DecodeLine(x)) : x \in ToSet(s)}
  <2>1. \A k \in 1 .. n : parts[k] = DecodeLine(s[k]) /\ s[k] \in ToSet(s) BY <1>2
  <2>2. parts = [k \in 1 .. n |-> parts[k]] BY <1>2
  <2>3. \A k \in 1 .. n : IsList(parts[k]) BY <1>3, <2>1
  <2>4. {ToSet(parts[k]) : k \in 1 .. n} = {ToSet(DecodeLine(x)) : x \in ToSet(s)}
    BY <1>2, <2>1
  <2> HIDE DEF parts, n
  <2>5. ToSet(FlattenSeq(parts)) = UNION {ToSet(parts[k]) : k \in 1 .. n}
    BY <1>2, <2>2, <2>3, FlattenParts
  <2> QED BY <2>4, <2>5
<1> HIDE DEF yields
<1>5. ASSUME NEW x \in ToSet(s)
      PROVE  ToSet(DecodeLine(x)) \subseteq {NoLink} \cup LinksIn(s) \cup Inner(ToSet(s)) \cup CutOff(text)
  <2>1. CASE x.kind = "base64"
    <3>1. LinksIn(x.body.lines) \subseteq Inner(ToSet(s)) BY <2>1 DEF Inner
    <3>2. {Beginning(x, k) : k \in DOMAIN x.cuts} \subseteq CutOff(text)
      BY <2>1 DEF CutOff, Base64In
    <3> QED BY <1>1, <2>1, <3>1, <3>2, LineYields
  <2>2. CASE x.kind # "base64"
    <3>1. x.link \in {NoLink} \cup LinksIn(s) BY <1>2 DEF LinksIn
    <3>2. DecodeLine(x) = <<x.link>> BY <2>2 DEF DecodeLine
    <3>3. ToSet(<<x.link>>) = {x.link} BY DEF ToSet
    <3> QED BY <3>1, <3>2, <3>3
  <2> QED BY <2>1, <2>2
<1>6. yields \subseteq {NoLink} \cup LinksIn(s) \cup Inner(ToSet(s)) \cup CutOff(text)
  BY <1>4, <1>5
<1>7. UNION {OnOneRow(x) : x \in Base64In(text)} \subseteq yields
  <2>1. \A x \in Base64In(text) : x \in ToSet(s) /\ x.kind = "base64" BY DEF Base64In
  <2>2. \A x \in Base64In(text) : OnOneRow(x) \subseteq ToSet(DecodeLine(x))
    BY <1>1, <2>1, LineYields
  <2> HIDE DEF s
  <2> QED BY <1>4, <2>1, <2>2
<1> QED BY <1>6, <1>7 DEF yields

LEMMA TextYields ==
  ASSUME NEW text, IsText(text)
  PROVE  /\ Expected(text) \subseteq ToSet(Yields(text))
         /\ ToSet(Yields(text)) \subseteq {NoLink} \cup Contained(text)
<1> DEFINE links == ParseClashYAML(text.entries)
           each == FlattenSeq([k \in DOMAIN text.lines |-> DecodeLine(text.lines[k])])
           whole == ClashOrLines(DecodeBase64(text.lines))
<1>0. IsList(text.entries) /\ IsList(text.lines) BY DEF IsText
<1>1. /\ ToSet(links) = IF HasH2(text) THEN {} ELSE ClashLinks(text)
      /\ links = << >> <=> HasH2(text) \/ ClashLinks(text) = {}
      /\ ClashLinks(text) # {} => IsClashYAML(text)
  BY <1>0, ClashYields
<1>2. Yields(text) = IF IsClashYAML(text) /\ links # << >> THEN links
                     ELSE IF HasProtoPrefix(text) THEN ExtractLines(text)
                     ELSE IF Decodes(text.lines) THEN whole ELSE each
  BY DEF Yields
<1>3. InEntries(text) = IF HasH2(text) THEN {} ELSE IF ClashLinks(text) # {} THEN ClashLinks(text)
                       ELSE LinksIn(text.lines)
  BY DEF InEntries, HasH2
<1>4. ClashLinks(text) \subseteq Contained(text) /\ LinksIn(text.lines) \subseteq Contained(text)
  BY DEF Contained
<1>5. /\ LinksIn(text.lines) \subseteq ToSet(ExtractLines(text))
      /\ ToSet(ExtractLines(text)) \subseteq {NoLink} \cup LinksIn(text.lines)
  BY <1>0, LinesYield
<1>6. Decodes(text.lines) =>
        /\ ToSet(whole) \subseteq {NoLink} \cup Contained(text)
        /\ IF Len(text.lines) = 1 THEN InEntries(text.lines[1].body) \subseteq ToSet(whole)
           ELSE LinksIn(text.lines[1].body.lines) \subseteq ToSet(whole)
  BY WholeYields
<1>7. /\ ByRows(text) => ToSet(each) \subseteq {NoLink} \cup Contained(text)
      /\ (UNION {OnOneRow(x) : x \in Base64In(text)}) \subseteq ToSet(each)
  <2>1. /\ ToSet(each) \subseteq {NoLink} \cup LinksIn(text.lines) \cup Inner(ToSet(text.lines))
                               \cup CutOff(text)
        /\ (UNION {OnOneRow(x) : x \in Base64In(text)}) \subseteq ToSet(each)
    BY EachYields
  <2>2. Inner(ToSet(text.lines)) \subseteq Contained(text) BY DEF Contained
  <2>3. ByRows(text) => CutOff(text) \subseteq Contained(text) BY DEF Contained
  <2> HIDE DEF each
  <2> QED BY <1>4, <2>1, <2>2, <2>3
<1> HIDE DEF links, each, whole
<1>8. CASE IsClashYAML(text) /\ links # << >>
  <2>1. Yields(text) = links BY <1>2, <1>8
  <2>2. ClashLinks(text) # {} /\ ~HasH2(text) BY <1>1, <1>8
  <2>3. Expected(text) = ClashLinks(text) BY <1>3, <2>2 DEF Expected, ByRows
  <2> QED BY <1>1, <1>4, <1>8, <2>1, <2>3
<1>9. CASE ~(IsClashYAML(text) /\ links # << >>) /\ HasProtoPrefix(text)
  <2>1. Yields(text) = ExtractLines(text) BY <1>2, <1>9
  <2>2. Expected(text) = InEntries(text) BY <1>9 DEF Expected, ByRows
  <2>3. InEntries(text) \subseteq LinksIn(text.lines) BY <1>1, <1>3, <1>9
  <2> QED BY <1>4, <1>5, <2>1, <2>2, <2>3
<1>10. CASE ~(IsClashYAML(text) /\ links # << >>) /\ ~HasProtoPrefix(text)
  <2>1. Yields(text) = IF Decodes(text.lines) THEN whole ELSE each BY <1>2, <1>10
  <2>2. CASE ~Decodes(text.lines)
    <3>1. ByRows(text) BY <1>1, <1>10, <2>2 DEF ByRows
    <3>2. Expected(text) = UNION {OnOneRow(x) : x \in Base64In(text)} BY <3>1 DEF Expected
    <3> QED BY <1>7, <2>1, <2>2, <3>1, <3>2
  <2>3. CASE Decodes(text.lines) /\ ClashLinks(text) # {}
    <3>1. Expected(text) = {} BY <1>1, <1>3, <1>10, <2>3 DEF Expected, ByRows
    <3> QED BY <1>6, <2>1, <2>3, <3>1
  <2>4. CASE Decodes(text.lines) /\ ClashLinks(text) = {}
    <3>1. Expected(text) = IF Len(text.lines) = 1 THEN InEntries(text.lines[1].body)
                           ELSE LinksIn(text.lines[1].body.lines)
      BY <1>10, <2>4 DEF Expected, ByRows
    <3> QED BY <1>6, <2>1, <2>4, <3>1
  <2> QED BY <2>2, <2>3, <2>4
<1> QED BY <1>8, <1>9, <1>10

(* What a source publishes is fetched, but for the cases of Expected, and  *)
(* nothing that no source has published - pieces of links only where       *)
(* wrapped base64 is decoded row by row.                                   *)
THEOREM LinksAreYielded == IntakeSpec => []YieldsAll
<1>1. ASSUME MergeInv PROVE YieldsAll
  <2> DEFINE good == InOrder(Good(first))
             given == Given(good, Yielded)
             bodies == {Decoded(i).body : i \in Good(first)}
  <2>0. first \in Nat /\ first <= NumSources /\ Good(first) \subseteq Sources
    BY <1>1 DEF MergeInv, LoadInv, Types, Slots, Good, Sources
  <2>1. good \in Seq(Sources \cap Good(first)) /\ ToSet(good) = Good(first)
    <3>1. good \in Seq(Sources \cap Good(first)) BY InOrderType
    <3>2. good = Select(AllSources, Good(first)) BY InOrderType
    <3>3. Elements(good) = Sources \cap Good(first)
      BY <3>2, SourcesList, SelectElements
    <3> QED BY <2>0, <3>1, <3>3, ElementsToSet
  <2>2. \A i \in Good(first) : /\ Decoded(i).body \in Texts
                               /\ Yielded[i] = Yields(Decoded(i).body)
    <3> TAKE i \in Good(first)
    <3>1. Decoded(i).body \in Texts
      BY <1>1, <2>0, DecodedBody DEF MergeInv, Good
    <3> QED BY <2>0, <3>1 DEF Yielded, Lines
  <2>3. ToSet(lines) = UNION {ToSet(Yields(body)) : body \in bodies}
    <3> HIDE DEF good
    <3>1. Len(good) \in Nat /\ DOMAIN good = 1 .. Len(good) /\ good = [k \in 1 .. Len(good) |-> good[k]]
      BY <2>1, LenProperties
    <3>2. given = [k \in 1 .. Len(good) |-> given[k]] BY <3>1 DEF Given
    <3>3. \A k \in 1 .. Len(good) : good[k] \in Good(first) /\ given[k] = Yields(Decoded(good[k]).body)
      BY <2>1, <2>2, <3>1 DEF Given, ToSet
    <3>4. \A k \in 1 .. Len(good) : IsList(given[k])
      BY <2>2, <3>3, YieldsList
    <3>5. {ToSet(given[k]) : k \in 1 .. Len(good)} = {ToSet(Yields(body)) : body \in bodies}
      <4>1. Good(first) = {good[k] : k \in 1 .. Len(good)} BY <2>1, <3>1 DEF ToSet
      <4> HIDE DEF given
      <4> QED BY <3>3, <4>1
    <3> HIDE DEF given
    <3>6. ToSet(FlattenSeq(given)) = UNION {ToSet(given[k]) : k \in 1 .. Len(good)}
      BY <3>1, <3>2, <3>4, FlattenParts
    <3>7. lines = FlattenSeq(given) BY <1>1 DEF MergeInv, Merged, given, good
    <3> QED BY <3>5, <3>6, <3>7
  <2>4. \A body \in bodies : /\ Expected(body) \subseteq ToSet(Yields(body))
                             /\ ToSet(Yields(body)) \subseteq {NoLink} \cup Contained(body)
    BY <2>2, TextYields
  <2> HIDE DEF good, given, bodies
  <2>5. (UNION {Expected(body) : body \in bodies}) \subseteq ToSet(lines) BY <2>3, <2>4
  <2>6. ToSet(lines) \subseteq {NoLink} \cup UNION {Contained(body) : body \in bodies}
    BY <2>3, <2>4
  <2> QED BY <2>5, <2>6 DEF YieldsAll, bodies, Good
<1> QED BY <1>1, MergeInvariant, PTL

-----------------------------------------------------------------------------
(* How the readers of one link agree: toSingBoxOutbound, extractHostPort   *)
(* and coreIdentity.                                                       *)

LEMMA LeastIsOne == ASSUME NEW I \in SUBSET (Nat \ {0}), 1 \in I PROVE Min(I) = 1
<1>1. \A y \in I : 1 <= y OBVIOUS
<1>2. \E x \in I : \A y \in I : x <= y BY <1>1
<1>3. Min(I) \in I /\ \A y \in I : Min(I) <= y BY <1>2 DEF Min
<1>4. PICK x \in Nat : x = Min(I) BY <1>3
<1> QED BY <1>1, <1>3, <1>4

LEMMA FirstIndex ==
  ASSUME NEW s, NEW none, Len(s) = 2, s[1] # none
  PROVE  LET I == {i \in 1 .. Len(s) : s[i] # none} IN I # {} /\ Min(I) = 1 /\ 1 # 0
<1> DEFINE I == {i \in 1 .. Len(s) : s[i] # none}
<1>1. 1 \in I /\ I \in SUBSET (Nat \ {0}) OBVIOUS
<1> HIDE DEF I
<1>2. Min(I) = 1 /\ I # {} BY <1>1, LeastIsOne
<1> QED BY <1>2 DEF I

LEMMA PairOf == \A x, y : Len(<<x, y>>) = 2 /\ <<x, y>>[1] = x
OBVIOUS

LEMMA FirstFound == ASSUME NEW a, NEW b, a # "" PROVE First(<<a, b>>) = a
<1> DEFINE s == <<a, b>>
           I == {i \in 1 .. Len(s) : s[i] # ""}
<1>1. Len(s) = 2 /\ s[1] = a BY PairOf, Zenon
<1> HIDE DEF s
<1>2. I # {} /\ Min(I) = 1 /\ 1 # 0
  <2>1. s[1] # "" BY <1>1, Zenon
  <2> QED BY <1>1, <2>1, FirstIndex, Zenon
<1>3. SelectInSeq(s, LAMBDA v : v # "") = IF I # {} THEN Min(I) ELSE 0
  BY DEF SelectInSeq
<1>4. First(s) = LET i == SelectInSeq(s, LAMBDA v : v # "") IN IF i = 0 THEN "" ELSE s[i]
  BY DEF First
<1> HIDE DEF I
<1>5. SelectInSeq(s, LAMBDA v : v # "") = 1 BY <1>2, <1>3, Zenon
<1>6. First(s) = s[1] BY <1>2, <1>4, <1>5, Zenon
<1> QED BY <1>1, <1>6, Zenon DEF s

(* What has passed Checked has a server and a port, and is not changed.    *)
LEMMA CheckedIsSound ==
  ASSUME NEW o, Accepted(Checked(o))
  PROVE  Checked(o) = o /\ o.server # "" /\ IsPort(o.port)
<1>1. ~Accepted(Rejected) BY DEF Accepted, Rejected, Out
<1>2. Checked(o) # Rejected BY <1>1
<1> QED BY <1>2 DEF Checked

(* Where sing-box connects for a link that url.Parse reads, and as whom.   *)
CredOf(l, u) == CASE l.proto = "vless"  -> u.user
                  [] l.proto = "trojan" -> u.user
                  [] l.proto = "hy"     -> HyAuth(u, Params(l, u))
                  [] l.proto = "tuic"   -> Pair(u.user, u.pass)

LEMMA OutboundIs ==
  ASSUME NEW l, NEW u, l.proto \in ByURL, Accepted(OutboundByURL(l, u))
  PROVE  LET o == OutboundByURL(l, u)
         IN  /\ ~u.err /\ u.host # "" /\ IsPort(u.port)
             /\ o.server = u.host /\ o.port = u.port /\ o.cred = CredOf(l, u)
<1> DEFINE q == Params(l, u)
           o == OutboundByURL(l, u)
<1>0. ~Accepted(Rejected) BY DEF Accepted, Rejected, Out
<1>1. ~u.err BY <1>0 DEF OutboundByURL
<1>2. ASSUME NEW type, NEW cred, NEW opt, NEW tls, NEW transport,
             o = Checked(Out(type, u.host, u.port, cred, opt, tls, transport))
      PROVE  u.host # "" /\ IsPort(u.port) /\ o.server = u.host /\ o.port = u.port /\ o.cred = cred
  <2> DEFINE r == Out(type, u.host, u.port, cred, opt, tls, transport)
  <2>1. r.server = u.host /\ r.port = u.port /\ r.cred = cred BY DEF Out
  <2> HIDE DEF r, o
  <2>2. o = r /\ r.server # "" /\ IsPort(r.port) BY <1>2, CheckedIsSound DEF o, r
  <2> QED BY <2>1, <2>2
<1> HIDE DEF Checked, Params
<1>3. CASE l.proto = "vless"
  <2>1. o = ParseVLess(u, q) BY <1>1, <1>3 DEF OutboundByURL
  <2>2. \E opt, tls, transport :
           o = Checked(Out("vless", u.host, u.port, u.user, opt, tls, transport))
    <3> HIDE DEF o, q
    <3>1. ParseVLess(u, q) # Rejected BY <1>0, <2>1 DEF o
    <3> QED BY <2>1, <3>1 DEF ParseVLess
  <2> QED BY <1>1, <1>2, <1>3, <2>2 DEF CredOf
<1>4. CASE l.proto = "trojan"
  <2>1. o = ParseTrojan(u, q) BY <1>1, <1>4 DEF OutboundByURL
  <2>2. \E opt, tls, transport :
           o = Checked(Out("trojan", u.host, u.port, u.user, opt, tls, transport))
    <3> HIDE DEF o, q
    <3>1. ParseTrojan(u, q) # Rejected BY <1>0, <2>1 DEF o
    <3> QED BY <2>1, <3>1 DEF ParseTrojan
  <2> QED BY <1>1, <1>2, <1>4, <2>2 DEF CredOf
<1>5. CASE l.proto = "hy"
  <2>1. o = ParseHysteria(u, q) BY <1>1, <1>5 DEF OutboundByURL
  <2> QED BY <1>1, <1>2, <1>5, <2>1 DEF CredOf, ParseHysteria
<1>6. CASE l.proto = "tuic"
  <2>1. o = ParseTUIC(u, q) BY <1>1, <1>6 DEF OutboundByURL
  <2>2. ParseTUIC(u, q) # Rejected BY <1>0, <2>1
  <2> QED BY <1>1, <1>2, <1>6, <2>1, <2>2 DEF CredOf, ParseTUIC
<1> QED BY <1>3, <1>4, <1>5, <1>6 DEF ByURL

LEMMA PingedByURL == ASSUME NEW l, l.proto \in ByURL PROVE Pinged(l)
<1> DEFINE u == ParseURL(Sanitize(l.tok))
           o == ToSingBoxOutbound(l)
<1>1. o = OutboundByURL(l, u) /\ ExtractHostPort(l) = AddrOfURL(u)
  <2> HIDE DEF u
  <2>1. o = OutboundByURL(l, ParseURL(Sanitize(l.tok)))
    BY DEF ByURL, ToSingBoxOutbound
  <2>2. ExtractHostPort(l) = AddrOfURL(ParseURL(Sanitize(l.tok)))
    BY DEF ByURL, ExtractHostPort
  <2> QED BY <2>1, <2>2 DEF u
<1> HIDE DEF u
<1>2. ASSUME Accepted(o) PROVE ExtractHostPort(l) = <<o.server, o.port>>
  <2>1. ~u.err /\ u.host # "" /\ IsPort(u.port) /\ o.server = u.host /\ o.port = u.port
    BY <1>1, <1>2, OutboundIs
  <2>2. First(<<u.port, "443">>) = u.port BY <2>1, FirstFound DEF IsPort
  <2> QED BY <1>1, <2>1, <2>2 DEF AddrOfURL, Addr
<1> QED BY <1>2 DEF Pinged

LEMMA PingedHysteria2 == ASSUME NEW l, l.proto = "hy2" PROVE Pinged(l)
<1> DEFINE main == Hy2Main(l.tok)
           host == Hy2Host(l.tok)
           colon == LastIndex(host, ":")
           server == Word(Before(host, colon))
           port == IF colon = 0 THEN "443" ELSE Word(After(host, colon))
           o == ToSingBoxOutbound(l)
<1>1. o = ParseHysteria2(l) BY DEF ToSingBoxOutbound
<1>2. ExtractHostPort(l) = IF LastIndex(main, "@") = 0 THEN NoAddr ELSE Addr(server, port)
  BY DEF ExtractHostPort, AddrOfHost
<1>3. LastIndex(main, "@") = 0 => o = Rejected BY <1>1 DEF ParseHysteria2
<1>4. LastIndex(main, "@") # 0 => \E cred, opt, tls :
        o = Checked(Out("hy2", server, port, cred, opt, tls, NoTransport))
  BY <1>1 DEF ParseHysteria2
<1> HIDE DEF main, host, colon, server, port, o
<1>5. ASSUME Accepted(o) PROVE ExtractHostPort(l) = <<o.server, o.port>>
  <2>0. ~Accepted(Rejected) BY DEF Accepted, Rejected, Out
  <2>1. LastIndex(main, "@") # 0 BY <1>3, <1>5, <2>0
  <2>2. PICK cred, opt, tls : o = Checked(Out("hy2", server, port, cred, opt, tls, NoTransport))
    BY <1>4, <2>1
  <2> DEFINE r == Out("hy2", server, port, cred, opt, tls, NoTransport)
  <2>3. r.server = server /\ r.port = port BY DEF Out
  <2> HIDE DEF r
  <2>4. o = r /\ r.server # "" /\ IsPort(r.port) BY <1>5, <2>2, CheckedIsSound DEF r
  <2> QED BY <1>2, <2>1, <2>3, <2>4 DEF Addr
<1> QED BY <1>5 DEF Pinged, o

LEMMA ElementOfFirst ==
  ASSUME Order, NEW p, NEW l \in ToSet(FirstOf(p)) PROVE l.proto = p
<1> DEFINE m == pos - 1
           ks == Kept(m, p)
<1>1. m \in Nat BY DEF Order
<1>2. ks \in Seq(Nat \cap NewOf(m, p))
  <2>1. Passed(m) \in Seq(Nat) BY <1>1, PassedOne
  <2> QED BY <2>1, SelectType DEF Kept
<1> HIDE DEF ks, m
<1>3. FirstOf(p) = Given(ks, lines) BY FirstOfKept DEF ks, m
<1>4. PICK n \in DOMAIN ks : l = lines[ks[n]] BY <1>3 DEF Given, ToSet
<1>5. ks[n] \in NewOf(m, p) BY <1>2, <1>4, LenProperties
<1> QED BY <1>4, <1>5 DEF NewOf

(* The address that is pinged is the server's: for the links read by       *)
(* url.Parse and for hy2, whose readers search the text separately; vmess  *)
(* links are read by one function, and of others sing-box gets none.       *)
THEOREM ServerIsPinged == IntakeSpec => []AddressIsServer
<1>1. ASSUME NEW l, l.proto # "ss" PROVE Pinged(l)
  <2>1. CASE l.proto \in ByURL BY <2>1, PingedByURL
  <2>2. CASE l.proto = "hy2" BY <2>2, PingedHysteria2
  <2>3. CASE l.proto = "vmess"
    <3>1. ToSingBoxOutbound(l) = ParseVMess(l) /\ ExtractHostPort(l) = AddrOfOutbound(ParseVMess(l))
      BY <2>3 DEF ToSingBoxOutbound, ExtractHostPort
    <3> QED BY <3>1 DEF Pinged, AddrOfOutbound
  <2>4. CASE l.proto \notin ByURL \cup {"hy2", "vmess", "ss"}
    <3> DEFINE u == ParseURL(Sanitize(l.tok))
    <3>1. ToSingBoxOutbound(l) = OutboundByURL(l, u) BY <2>4 DEF ToSingBoxOutbound
    <3>2. OutboundByURL(l, u) = Rejected
      <4> HIDE DEF u
      <4> QED BY <2>4 DEF OutboundByURL, ByURL
    <3>3. ~Accepted(Rejected) BY DEF Accepted, Rejected, Out
    <3> QED BY <3>1, <3>2, <3>3 DEF Pinged
  <2> QED BY <1>1, <2>1, <2>2, <2>3, <2>4
<1>2. ASSUME DedupInv PROVE AddressIsServer
  <2>1. ASSUME NEW p \in Protocols \ {"ss"}, NEW l \in ToSet(byProto[p]) PROVE Pinged(l)
    <3>1. l.proto = p BY <1>2, <2>1, ElementOfFirst DEF DedupInv, KeepsFirst
    <3> QED BY <1>1, <2>1, <3>1
  <2> QED BY <2>1 DEF AddressIsServer
<1> QED BY <1>2, DedupInvariant, PTL

(* A line of a known protocol that the loop has passed is kept, or one of  *)
(* its identity is.                                                        *)
LEMMA KeptIsThere ==
  ASSUME DedupInv, NEW l \in PassedLines(Protocols)
  PROVE  Id(l) # Panic /\ \E m \in KeptFor(l) : m.proto = l.proto
<1>1. PICK k \in 1 .. pos - 1 : lines[k] = l /\ l.proto \in Protocols BY DEF PassedLines
<1>0. Id(l) # Panic
  <2> HIDE DEF Id
  <2> QED BY <1>1 DEF DedupInv, Order
<1> DEFINE I == {j \in 1 .. k : Id(lines[j]) = Id(l)}
<1>2. k \in I /\ I \in SUBSET Nat
  <2> HIDE DEF Id
  <2> QED BY <1>1
<1>3. PICK j \in I : \A i \in I : j <= i
  <2> HIDE DEF I
  <2> QED BY <1>2, LeastElement
<1>4. New(j)
  <2>1. j \in 1 .. k /\ \A i \in 1 .. k : Id(lines[i]) = Id(l) => j <= i BY <1>3
  <2>2. Id(lines[j]) = Id(l) BY <1>3
  <2> HIDE DEF Id
  <2> QED BY <2>1, <2>2 DEF New
<1>5. lines[j].proto = l.proto
  <2>1. Id(lines[j]) = Id(l) BY <1>3
  <2> HIDE DEF Id
  <2> QED BY <1>0, <2>1, IdentityProto
<1> DEFINE p == l.proto
           n == pos - 1
           ks == Kept(n, p)
<1>6. n \in Nat /\ j \in 1 .. n BY <1>3 DEF DedupInv, Order
<1>7. j \in ToSet(ks)
  <2>1. Passed(n) \in Seq(Nat) BY <1>6, PassedOne
  <2>2. Len(Passed(n)) = n /\ Passed(n)[j] = j BY <1>6, PassedOne DEF Passed
  <2>3. j \in Elements(Passed(n)) BY <1>6, <2>2 DEF Elements
  <2>4. j \in NewOf(n, p) BY <1>4, <1>5, <1>6 DEF NewOf
  <2>5. j \in Elements(ks)
    <3> HIDE DEF n, p, ks
    <3>1. Elements(Select(Passed(n), NewOf(n, p))) = Elements(Passed(n)) \cap NewOf(n, p)
      BY <2>1, SelectElements
    <3> QED BY <2>3, <2>4, <3>1 DEF ks, Kept
  <2>6. ks \in Seq(Nat) BY <1>6, KeptNext
  <2> HIDE DEF ks
  <2> QED BY <2>5, <2>6, LenProperties DEF Elements, ToSet
<1>8. lines[j] \in ToSet(FirstOf(p)) BY <1>7, FirstOfKept DEF Given, ToSet
<1>9. byProto[p] = FirstOf(p) BY <1>1 DEF DedupInv, KeepsFirst
<1> QED BY <1>0, <1>3, <1>5, <1>8, <1>9 DEF KeptFor

LEMMA TripleParts ==
  \A a, b, c, x, y, z : <<a, b, c>> = <<x, y, z>> => a = x /\ b = y /\ c = z
OBVIOUS

(* Equal identities of links that url.Parse reads: the same user, password,*)
(* host and port.                                                          *)
LoginIdentity(l, u) ==
  Identity(l.proto, <<Meant(l, u.user), u.hasPass, Meant(l, u.pass)>>, u.host, u.port)

LEMMA EqualIdentity ==
  ASSUME NEW l, NEW m, NEW u, NEW v, LoginIdentity(l, u) = LoginIdentity(m, v)
  PROVE  u.user = v.user /\ u.pass = v.pass /\ u.host = v.host /\ u.port = v.port
<1> DEFINE c == <<Meant(l, u.user), u.hasPass, Meant(l, u.pass)>>
           d == <<Meant(m, v.user), v.hasPass, Meant(m, v.pass)>>
<1>1. c = d /\ u.host = v.host /\ u.port = v.port
  <2> HIDE DEF c, d
  <2> QED BY DEF LoginIdentity, Identity, c, d
<1>2. Meant(l, u.user) = Meant(m, v.user) /\ Meant(l, u.pass) = Meant(m, v.pass)
  <2> HIDE DEF Meant
  <2> QED BY <1>1, TripleParts
<1> QED BY <1>1, <1>2, TripleParts DEF Meant

LEMMA SameTwin ==
  ASSUME NEW l, NEW m, l.proto \in ByURL, m.proto = l.proto, Id(m) = Id(l), Id(l) # Panic,
         Accepted(ToSingBoxOutbound(l)), Accepted(ToSingBoxOutbound(m)), ~OtherAuth(l, m)
  PROVE  SameLogin(l, m)
<1> DEFINE u == ParseURL(Sanitize(l.tok))
           v == ParseURL(Sanitize(m.tok))
           o == ToSingBoxOutbound(l)
           p == ToSingBoxOutbound(m)
<1>1. \A x : x.proto \in ByURL =>
        /\ CoreIdentity(x) = IdentityURL(x, ParseURL(Sanitize(x.tok)))
        /\ ToSingBoxOutbound(x) = OutboundByURL(x, ParseURL(Sanitize(x.tok)))
  <2> HIDE DEF IdentityURL, OutboundByURL, ParseURL, Sanitize
  <2> QED BY DEF CoreIdentity, ToSingBoxOutbound, ByURL
<1>2. o = OutboundByURL(l, u) /\ p = OutboundByURL(m, v) BY <1>1
<1>3. IdentityURL(l, u) = IdentityURL(m, v) /\ IdentityURL(l, u) # Panic
  <2> HIDE DEF u, v, IdentityURL, Panic
  <2> QED BY <1>1 DEF Id, u, v
<1>4. l.proto = "hy" => Get(Params(l, u), "auth") = Get(Params(m, v), "auth")
  BY DEF OtherAuth, Auth
<1> HIDE DEF u, v
<1>5. /\ ~u.err /\ u.host # "" /\ o.server = u.host /\ o.port = u.port /\ o.cred = CredOf(l, u)
      /\ ~v.err /\ v.host # "" /\ p.server = v.host /\ p.port = v.port /\ p.cred = CredOf(m, v)
  <2> HIDE DEF o, p
  <2>1. Accepted(o) /\ Accepted(p) BY DEF o, p
  <2> QED BY <1>2, <2>1, OutboundIs
<1>6. u.user = v.user /\ u.pass = v.pass /\ u.host = v.host /\ u.port = v.port
  <2>1. ~u.err /\ u.host # "" /\ ~v.err /\ v.host # "" BY <1>5, Zenon
  <2>2. /\ IdentityURL(l, u) = LoginIdentity(l, u)
        /\ IdentityURL(m, v) = LoginIdentity(m, v)
    BY <1>3, <2>1, Zenon DEF IdentityURL, IdentityBy, LoginIdentity
  <2>3. LoginIdentity(l, u) = LoginIdentity(m, v) BY <1>3, <2>2
  <2> QED BY <2>3, EqualIdentity
<1>7. l.proto = "hy" => HyAuth(u, Params(l, u)) = HyAuth(v, Params(m, v))
  <2> DEFINE a == Params(l, u)
             b == Params(m, v)
  <2>1. \A x, y : HyAuth(x, y) = IF Get(y, "auth") # "" THEN <<Get(y, "auth")>> ELSE x.user
    BY DEF HyAuth, Get
  <2> HIDE DEF HyAuth, Get, Params
  <2> QED BY <1>4, <1>6, <2>1
<1>8. CredOf(l, u) = CredOf(m, v)
  <2> HIDE DEF HyAuth, Params, Pair
  <2> QED BY <1>6, <1>7 DEF CredOf, ByURL
<1> HIDE DEF o, p
<1>9. o.server = p.server /\ o.port = p.port /\ o.cred = p.cred BY <1>5, <1>6, <1>8
<1> QED BY <1>9 DEF SameLogin, o, p

(* Whatever is fetched, a link that url.Parse reads and dedup has got past *)
(* is dropped only for one with its server, port and credentials, but for  *)
(* those of hysteria that are a parameter, or for one that sing-box is not *)
(* given. A link without "@" is none of these: dedup panics on it.         *)
THEOREM NoLoginLost == IntakeSpec => []DropsTwins
<1>1. ASSUME DedupInv PROVE DropsTwins
  <2>1. ASSUME NEW l \in PassedLines(ByURL)
        PROVE  \E m \in KeptFor(l) : SameLogin(l, m) \/ OtherAuth(l, m)
    <3>1. l \in PassedLines(Protocols) /\ l.proto \in ByURL BY <2>1 DEF PassedLines
    <3>2. Id(l) # Panic /\ \E m \in KeptFor(l) : m.proto = l.proto BY <1>1, <3>1, KeptIsThere
    <3>3. PICK m \in KeptFor(l) : m.proto = l.proto BY <3>2
    <3>4. Id(m) = Id(l) BY <3>3 DEF KeptFor
    <3>5. CASE Accepted(ToSingBoxOutbound(l)) /\ Accepted(ToSingBoxOutbound(m))
      <4> HIDE DEF ToSingBoxOutbound, Id, OtherAuth, SameLogin
      <4> QED BY <3>1, <3>2, <3>4, <3>5, <3>3, SameTwin
    <3>6. CASE ~(Accepted(ToSingBoxOutbound(l)) /\ Accepted(ToSingBoxOutbound(m)))
      BY <3>3, <3>6 DEF SameLogin
    <3> QED BY <3>5, <3>6
  <2> QED BY <2>1 DEF DropsTwins
<1> QED BY <1>1, DedupInvariant, PTL
=============================================================================
