------------------------------ MODULE LogProofs -----------------------------
(***************************************************************************)
(* Proofs about ResultLog, for any number of protocols and of goroutines:  *)
(* no count is lost, and every line of the log is whole.                   *)
(***************************************************************************)
EXTENDS ResultLog, FiniteSetTheorems, TLAPS

USE LogAssumption

Labels == {"idle", "test", "lookup", "count", "counting", "write", "newline", "done"}
Counters == [Fields -> Int]

Types == /\ pi \in Nat \ {0}
         /\ mpc \in {"start", "join", "done"}
         /\ wpc \in [Workers -> Labels]
         /\ res \in [Workers -> Kinds \cup {"none"}]
         /\ stat \in [Workers -> Stats \cup {NoStat}]
         /\ seen \in [Workers -> Counters]
         /\ protoStats \in [Protocols -> Stats \cup {NoStat}]
         /\ fields \in [Stats -> Counters]
         /\ statMu \in [Stats -> Workers \cup {Free}]
         /\ total \in Counters

(* A protocol has one protoStat, that of logProtoStart, as soon as one of  *)
(* its goroutines runs; nobody else allocates one.                         *)
OneStat ==
  /\ \A p \in Protocols : protoStats[p] \in {p, NoStat}
  /\ \A w \in Workers : /\ wpc[w] # "idle" => protoStats[ProtoOf[w]] = ProtoOf[w]
                        /\ wpc[w] \in {"test", "lookup", "count", "counting"} => w \notin Counted
                        /\ wpc[w] \notin {"idle", "test"} => res[w] \in Kinds
                        /\ wpc[w] \in {"count", "counting"} => stat[w] = ProtoOf[w]

(* A goroutine that counts holds the mutex, and what it has read is still  *)
(* what the counters are.                                                  *)
Exclusive == \A w \in Workers : wpc[w] = "counting" =>
  statMu[stat[w]] = w /\ seen[w] = fields[stat[w]]

Of(p, k) == {w \in Counted : ProtoOf[w] = p /\ res[w] = k}

(* The counters are those of the goroutines that are past counting, and a  *)
(* protocol without a goroutine has none.                                  *)
Counts ==
  /\ \A p \in Protocols : /\ \A k \in Kinds : fields[p][k] = Cardinality(Of(p, k))
                          /\ fields[p]["tested"] = Cardinality({w \in Counted : ProtoOf[w] = p})
  /\ \A k \in Kinds : total[k] = Cardinality({w \in Counted : res[w] = k})
  /\ total["tested"] = Cardinality(Counted)

(* The protocols whose turn has not come have not been started: the order  *)
(* lists each of them once.                                                *)
Waiting(j) == \A w \in Workers : ProtoOf[w] = ProtocolOrder[j] => wpc[w] = "idle"
InTurn == \A j \in 1 .. Len(ProtocolOrder) :
            j > pi \/ (j = pi /\ mpc = "start") => Waiting(j)

LogInv == Types /\ OneStat /\ Exclusive /\ Counts /\ InTurn

(* Counts depends on what was counted, and on nothing else.                *)
LEMMA CountsSame ==
  ASSUME Counts, Counted' = Counted, \A w \in Counted : res'[w] = res[w],
         UNCHANGED <<fields, total>>
  PROVE  Counts'
<1>1. \A p \in Protocols, k \in Kinds : Of(p, k)' = Of(p, k)
  BY DEF Of
<1>2. \A k \in Kinds : {w \in Counted' : res'[w] = k} = {w \in Counted : res[w] = k}
  OBVIOUS
<1> QED BY <1>1, <1>2 DEF Counts

LEMMA CountedFinite == IsFiniteSet(Counted)
BY FS_Subset DEF Counted

(* One goroutine more is counted. *)
LEMMA OneMore ==
  ASSUME NEW w, NEW S, IsFiniteSet(S), w \notin S
  PROVE  Cardinality(S \cup {w}) = Cardinality(S) + 1
BY FS_AddElement

LEMMA InitLog == ASSUME Init PROVE LogInv
<1>1. Counted = {}
  BY DEF Init, Counted
<1>2. Counts
  <2>1. /\ \A p \in Protocols, k \in Kinds : Of(p, k) = {}
        /\ \A p \in Protocols : {w \in Counted : ProtoOf[w] = p} = {}
        /\ \A k \in Kinds : {w \in Counted : res[w] = k} = {}
    BY <1>1 DEF Of
  <2> QED BY <1>1, <2>1, FS_EmptySet DEF Counts, Init, Zero, Stats, Fields
<1>3. Types /\ OneStat /\ Exclusive /\ InTurn
  BY DEF Init, Types, OneStat, Exclusive, InTurn, Waiting, Counted, Zero, Counters, Labels,
         Stats, Kinds, Fields
<1> QED BY <1>2, <1>3 DEF LogInv

LEMMA StepProtoStart == ASSUME LogInv, ProtoStart PROVE LogInv'
<1> USE DEF LogInv
<1>1. Proto \in Protocols /\ pi \in 1 .. Len(ProtocolOrder) /\ Proto = ProtocolOrder[pi]
  BY DEF ProtoStart, Types, Proto, Protocols, ToSet
<1>2. \A w \in Goroutines : wpc[w] = "idle"
  BY <1>1 DEF ProtoStart, InTurn, Waiting, Goroutines
<1>3. /\ \A w \in Workers : wpc'[w] = IF w \in Goroutines THEN "test" ELSE wpc[w]
      /\ UNCHANGED <<pi, fields, statMu, total, res, stat, seen>>
      /\ mpc = "start" /\ mpc' = "join"
  BY DEF ProtoStart, stats, local
<1>4. Types'
  BY <1>1 DEF ProtoStart, Types, local, Stats, Labels
<1>5. Counted' = Counted
  BY <1>2, <1>3 DEF Counted
<1>6. OneStat'
  <2>1. \A p \in Protocols : protoStats'[p] = IF p = Proto /\ protoStats[p] = NoStat
                                               THEN p ELSE protoStats[p]
    BY DEF ProtoStart, Types
  <2>2. \A p \in Protocols : protoStats'[p] \in {p, NoStat}
    BY <2>1 DEF OneStat
  <2>3. protoStats'[Proto] = Proto
    BY <1>1, <2>1 DEF OneStat
  <2>4. ASSUME NEW w \in Workers, wpc'[w] # "idle" PROVE protoStats'[ProtoOf[w]] = ProtoOf[w]
    BY <1>3, <2>1, <2>3, <2>4 DEF OneStat, Goroutines
  <2>5. ASSUME NEW w \in Workers
        PROVE  /\ wpc'[w] \in {"test", "lookup", "count", "counting"} => w \notin Counted'
               /\ wpc'[w] \notin {"idle", "test"} => res'[w] \in Kinds
               /\ wpc'[w] \in {"count", "counting"} => stat'[w] = ProtoOf[w]
    BY <1>2, <1>3, <1>5 DEF OneStat, Counted
  <2> QED BY <2>2, <2>4, <2>5 DEF OneStat
<1>7. Exclusive'
  BY <1>2, <1>3 DEF Exclusive
<1>8. InTurn'
  <2> SUFFICES ASSUME NEW j \in 1 .. Len(ProtocolOrder), j > pi, NEW w \in Workers,
                      ProtoOf[w] = ProtocolOrder[j]
               PROVE  wpc'[w] = "idle"
    BY <1>3 DEF InTurn, Waiting
  <2>1. ProtocolOrder[j] # ProtocolOrder[pi]
    BY <1>1 DEF IsInjective, Types
  <2> QED BY <1>1, <1>3, <2>1 DEF InTurn, Waiting, Goroutines
<1> QED BY <1>3, <1>4, <1>5, <1>6, <1>7, <1>8, CountsSame DEF Counted

LEMMA StepJoin == ASSUME LogInv, Join PROVE LogInv'
<1> USE DEF LogInv
<1>1. /\ UNCHANGED <<wpc, protoStats, fields, statMu, total, res, stat, seen>>
      /\ mpc' = "start" /\ pi' = pi + 1
  BY DEF Join, stats, local
<1>2. Types' /\ OneStat' /\ Exclusive' /\ Counted' = Counted
  BY <1>1 DEF Types, OneStat, Exclusive, Counted
<1>3. InTurn'
  BY <1>1 DEF InTurn, Waiting, Types
<1> QED BY <1>1, <1>2, <1>3, CountsSame

(* What remains to be shown of a step of goroutine w that does not count.  *)
LEMMA StepQuiet ==
  ASSUME LogInv, NEW w \in Workers, wpc[w] # "idle", wpc'[w] # "idle",
         Types', OneStat', Exclusive', UNCHANGED <<mpc, pi, fields, total>>,
         w \in Counted' <=> w \in Counted, w \in Counted => res'[w] = res[w],
         \A v \in Workers \ {w} : wpc'[v] = wpc[v] /\ res'[v] = res[v]
  PROVE  LogInv'
<1>1. Counted' = Counted
  BY DEF Counted
<1>2. Counts'
  BY <1>1, CountsSame DEF LogInv, Counted
<1>3. InTurn'
  BY DEF LogInv, InTurn, Waiting
<1> QED BY <1>2, <1>3 DEF LogInv

LEMMA StepTest == ASSUME LogInv, NEW w \in Workers, Test(w) PROVE LogInv'
<1> USE DEF LogInv
<1>1. PICK k \in Kinds : res' = [res EXCEPT ![w] = k]
  BY DEF Test
<1>2. Types'
  BY <1>1 DEF Test, Types, stats, Labels
<1>3. OneStat' /\ Exclusive'
  BY <1>1 DEF Test, Types, OneStat, Exclusive, Counted, stats
<1> QED BY <1>1, <1>2, <1>3, StepQuiet DEF Test, Types, Counted, stats

LEMMA StepLookup == ASSUME LogInv, NEW w \in Workers, Lookup(w) PROVE LogInv'
<1> USE DEF LogInv
<1>1. StatFor(w) = ProtoOf[w] /\ ProtoOf[w] \in Protocols
  BY DEF Lookup, StatFor, OneStat
<1>2. Types'
  BY <1>1 DEF Lookup, Types, Labels, Stats
<1>3. OneStat' /\ Exclusive'
  BY <1>1 DEF Lookup, Types, OneStat, Exclusive, Counted
<1> QED BY <1>2, <1>3, StepQuiet DEF Lookup, Types, Counted

LEMMA StepLockStat == ASSUME LogInv, NEW w \in Workers, LockStat(w) PROVE LogInv'
<1> USE DEF LogInv
<1>1. stat[w] = ProtoOf[w] /\ ProtoOf[w] \in Protocols /\ stat[w] \in Stats
  BY DEF LockStat, OneStat, Stats
<1>2. Types'
  BY <1>1 DEF LockStat, Types, Labels
<1>3. OneStat'
  BY <1>1 DEF LockStat, Types, OneStat, Counted
<1>4. Exclusive'
  BY <1>1 DEF LockStat, StatFree, Types, Exclusive
<1> QED BY <1>2, <1>3, <1>4, StepQuiet DEF LockStat, Types, Counted

LEMMA StepWriteText == ASSUME LogInv, NEW w \in Workers, WriteText(w) PROVE LogInv'
<1> USE DEF LogInv
<1>1. Types' /\ OneStat' /\ Exclusive'
  BY DEF WriteText, Types, OneStat, Exclusive, Counted, Labels, stats, local
<1> QED BY <1>1, StepQuiet DEF WriteText, Types, Counted, stats, local

LEMMA StepEndLine == ASSUME LogInv, NEW w \in Workers, EndLine(w) PROVE LogInv'
<1> USE DEF LogInv
<1>1. Types' /\ OneStat' /\ Exclusive'
  BY DEF EndLine, Types, OneStat, Exclusive, Counted, Labels, stats, local
<1> QED BY <1>1, StepQuiet DEF EndLine, Types, Counted, stats, local

(* Both its kind and the number tested grow by one.                        *)
LEMMA Incremented ==
  ASSUME NEW c \in Counters, NEW kind \in Kinds
  PROVE  /\ Increment(c, kind) \in Counters
         /\ \A k \in Kinds : Increment(c, kind)[k] = IF k = kind THEN c[k] + 1 ELSE c[k]
         /\ Increment(c, kind)["tested"] = c["tested"] + 1
BY DEF Increment, Counters, Fields, Kinds

LEMMA StepCountResult == ASSUME LogInv, NEW w \in Workers, CountResult(w) PROVE LogInv'
<1> USE DEF LogInv
<1> DEFINE q == ProtoOf[w]
           kind == res[w]
<1>1. /\ q \in Protocols /\ q \in Stats /\ kind \in Kinds /\ stat[w] = q
      /\ w \notin Counted /\ statMu[q] = w /\ seen[w] = fields[q]
  BY DEF CountResult, OneStat, Exclusive, Stats
<1>2. /\ fields' = [fields EXCEPT ![q] = Increment(fields[q], kind)]
      /\ total' = Increment(total, kind)
      /\ statMu' = [statMu EXCEPT ![q] = Free]
      /\ wpc' = [wpc EXCEPT ![w] = "write"] /\ wpc[w] = "counting"
      /\ UNCHANGED <<mpc, pi, protoStats, res, stat, seen>>
  BY <1>1 DEF CountResult, local
<1>3. fields[q] \in Counters /\ total \in Counters
  BY <1>1 DEF Types
<1>4. Increment(fields[q], kind) \in Counters /\ total' \in Counters
  BY <1>1, <1>2, <1>3, Incremented
<1>5. Types'
  BY <1>2, <1>4 DEF Types, Labels
<1>6. Counted' = Counted \cup {w} /\ IsFiniteSet(Counted)
  BY <1>2, CountedFinite DEF Counted, Types
<1>7. OneStat'
  BY <1>2, <1>6 DEF OneStat, Types
<1>8. Exclusive'
  <2> SUFFICES ASSUME NEW v \in Workers, wpc'[v] = "counting"
               PROVE  statMu'[stat'[v]] = v /\ seen'[v] = fields'[stat'[v]]
    BY DEF Exclusive
  <2>1. v # w /\ wpc[v] = "counting" /\ stat[v] # q /\ stat[v] \in Stats
    BY <1>1, <1>2 DEF Types, Exclusive, OneStat, Stats
  <2> QED BY <1>2, <2>1 DEF Exclusive, Types
<1>9. InTurn'
  BY <1>2 DEF InTurn, Waiting, Types
<1>10. Counts'
  <2>1. ASSUME NEW p \in Protocols, NEW k \in Kinds
        PROVE  fields'[p][k] = Cardinality(Of(p, k)')
    <3>1. CASE p = q /\ k = kind
      <4>1. Of(p, k)' = Of(p, k) \cup {w} /\ w \notin Of(p, k) /\ IsFiniteSet(Of(p, k))
        BY <1>1, <1>2, <1>6, <3>1, FS_Subset DEF Of
      <4>2. Cardinality(Of(p, k)') = Cardinality(Of(p, k)) + 1
        BY <4>1, OneMore
      <4>3. fields'[p][k] = fields[p][k] + 1
        BY <1>1, <1>2, <1>3, <3>1, Incremented DEF Types
      <4> QED BY <4>2, <4>3 DEF Counts
    <3>2. CASE ~(p = q /\ k = kind)
      <4>1. Of(p, k)' = Of(p, k)
        BY <1>2, <1>6, <3>2 DEF Of
      <4>2. fields'[p][k] = fields[p][k]
        BY <1>1, <1>2, <1>3, <3>2, Incremented DEF Types, Stats
      <4> QED BY <4>1, <4>2 DEF Counts
    <3> QED BY <3>1, <3>2
  <2>2. ASSUME NEW p \in Protocols
        PROVE  fields'[p]["tested"] = Cardinality({v \in Counted' : ProtoOf[v] = p})
    <3> DEFINE S == {v \in Counted : ProtoOf[v] = p}
    <3>1. CASE p = q
      <4>1. /\ {v \in Counted' : ProtoOf[v] = p} = S \cup {w} /\ w \notin S
            /\ IsFiniteSet(S)
        BY <1>1, <1>6, <3>1, FS_Subset
      <4>2. Cardinality(S \cup {w}) = Cardinality(S) + 1
        BY <4>1, OneMore
      <4>3. fields'[p]["tested"] = fields[p]["tested"] + 1
        BY <1>1, <1>2, <1>3, <3>1, Incremented DEF Types
      <4> QED BY <4>1, <4>2, <4>3 DEF Counts
    <3>2. CASE p # q
      <4>1. {v \in Counted' : ProtoOf[v] = p} = S
        BY <1>6, <3>2
      <4>2. fields'[p] = fields[p]
        BY <1>2, <3>2 DEF Types, Stats
      <4> QED BY <4>1, <4>2 DEF Counts
    <3> QED BY <3>1, <3>2
  <2>3. ASSUME NEW k \in Kinds
        PROVE  total'[k] = Cardinality({v \in Counted' : res'[v] = k})
    <3> DEFINE S == {v \in Counted : res[v] = k}
    <3>1. CASE k = kind
      <4>1. /\ {v \in Counted' : res'[v] = k} = S \cup {w} /\ w \notin S
            /\ IsFiniteSet(S)
        BY <1>1, <1>2, <1>6, <3>1, FS_Subset
      <4>2. Cardinality(S \cup {w}) = Cardinality(S) + 1
        BY <4>1, OneMore
      <4>3. total'[k] = total[k] + 1
        BY <1>1, <1>2, <1>3, <3>1, Incremented
      <4> QED BY <4>1, <4>2, <4>3 DEF Counts
    <3>2. CASE k # kind
      <4>1. {v \in Counted' : res'[v] = k} = S
        BY <1>2, <1>6, <3>2
      <4>2. total'[k] = total[k]
        BY <1>1, <1>2, <1>3, <3>2, Incremented
      <4> QED BY <4>1, <4>2 DEF Counts
    <3> QED BY <3>1, <3>2
  <2>4. total'["tested"] = Cardinality(Counted')
    <3>1. Cardinality(Counted') = Cardinality(Counted) + 1
      BY <1>1, <1>6, OneMore
    <3>2. total'["tested"] = total["tested"] + 1
      BY <1>1, <1>2, <1>3, Incremented
    <3> QED BY <3>1, <3>2 DEF Counts
  <2> QED BY <2>1, <2>2, <2>3, <2>4 DEF Counts
<1> QED BY <1>5, <1>7, <1>8, <1>9, <1>10

LEMMA LogStep == ASSUME LogInv, [Next]_vars PROVE LogInv'
<1>1. CASE Summary
  <2>1. /\ UNCHANGED <<pi, wpc, protoStats, fields, statMu, total, res, stat, seen>>
        /\ mpc' = "done"
    BY <1>1 DEF Summary, stats, local
  <2>2. Types' /\ OneStat' /\ Exclusive' /\ InTurn' /\ Counted' = Counted
    BY <2>1 DEF LogInv, Types, OneStat, Exclusive, InTurn, Waiting, Counted
  <2> QED BY <2>1, <2>2, CountsSame DEF LogInv
<1>2. CASE UNCHANGED vars
  <2>1. UNCHANGED <<mpc, pi, wpc, protoStats, fields, statMu, total, res, stat, seen>>
    BY <1>2 DEF vars, stats, local
  <2>2. Types' /\ OneStat' /\ Exclusive' /\ InTurn' /\ Counted' = Counted
    BY <2>1 DEF LogInv, Types, OneStat, Exclusive, InTurn, Waiting, Counted
  <2> QED BY <2>1, <2>2, CountsSame DEF LogInv
<1> QED
  BY <1>1, <1>2, StepProtoStart, StepJoin, StepTest, StepLookup, StepLockStat,
     StepCountResult, StepWriteText, StepEndLine DEF Next, Goroutine, Finished

THEOREM LogInvariant == Spec => []LogInv
<1> QED BY InitLog, LogStep, PTL DEF Spec

(* No result is lost or counted twice, whichever goroutines count at once: *)
(* the log's counters and totals are those of the results counted so far.  *)
THEOREM NoCountLost == Spec => []NothingLost
<1>1. ASSUME LogInv PROVE NothingLost
  <2>1. ASSUME NEW p \in Protocols
        PROVE  /\ \A k \in Kinds : StatOf(p)[k] = Cardinality(Of(p, k))
               /\ StatOf(p)["tested"] = Cardinality({w \in Counted : ProtoOf[w] = p})
    <3>1. CASE protoStats[p] = NoStat
      <4>1. {w \in Counted : ProtoOf[w] = p} = {}
        BY <1>1, <3>1 DEF LogInv, OneStat, Counted
      <4>2. \A k \in Kinds : Of(p, k) = {}
        BY <4>1 DEF Of
      <4> QED BY <3>1, <4>1, <4>2, FS_EmptySet DEF StatOf, Zero, Fields
    <3>2. CASE protoStats[p] # NoStat
      <4>1. StatOf(p) = fields[p]
        BY <1>1, <3>2 DEF LogInv, OneStat, StatOf
      <4> QED BY <1>1, <4>1 DEF LogInv, Counts
    <3> QED BY <3>1, <3>2
  <2> QED BY <1>1, <2>1 DEF NothingLost, LogInv, Counts, Of
<1> QED BY <1>1, LogInvariant, PTL

-----------------------------------------------------------------------------
(* The log's lines. *)

Written == {w \in Workers : wpc[w] \in {"newline", "done"}}
Ended == {w \in Workers : wpc[w] = "done"}
Numbered == {w \in Workers : wpc[w] \notin {"idle", "test"}}
Headers == IF mpc = "join" THEN pi ELSE pi - 1

Tokens == {"protocol", "result", "newline"} \X Nat

LineTypes == /\ buf \in Seq(Tokens)
             /\ mu \in Workers \cup {Free}
             /\ idx \in [Workers -> Nat]
             /\ testedCount \in Nat
             /\ pi <= Len(ProtocolOrder) + 1
             /\ mpc = "join" => pi <= Len(ProtocolOrder)
             /\ mpc = "done" => pi = Len(ProtocolOrder) + 1

(* The protocols before the present one are done with.                     *)
Past == \A j \in 1 .. Len(ProtocolOrder) : j < pi =>
          \A w \in Workers : ProtoOf[w] = ProtocolOrder[j] => wpc[w] = "done"

(* Only the holder of the mutex is in the middle of a line, so the length  *)
(* of the buffer is odd only then.                                         *)
Holder == \A w \in Workers : wpc[w] = "newline" <=> mu = w
Length == Len(buf) = 2 * Headers + Cardinality(Written) + Cardinality(Ended)
Alternate == \A k \in 1 .. Len(buf) : buf[k] = NewLine <=> k % 2 = 0

(* Every number that was given out is a goroutine's; what it was given it  *)
(* writes.                                                                 *)
Numbers == /\ testedCount = Cardinality(Numbered)
           /\ \A n \in 1 .. testedCount : \E w \in Numbered : idx[w] = n
Texts == \A w \in Written : \E k \in 1 .. Len(buf) : buf[k] = <<"result", idx[w]>>

LineInv == /\ LogInv /\ LineTypes /\ Past /\ Holder /\ Length /\ Alternate
           /\ Numbers /\ Texts

LEMMA FiniteParts ==
  /\ IsFiniteSet(Written) /\ IsFiniteSet(Ended) /\ IsFiniteSet(Numbered)
  /\ Cardinality(Written) \in Nat /\ Cardinality(Ended) \in Nat
  /\ Cardinality(Numbered) \in Nat
<1>1. Written \in SUBSET Workers /\ Ended \in SUBSET Workers /\ Numbered \in SUBSET Workers
  BY DEF Written, Ended, Numbered
<1> QED BY <1>1, FS_Subset, FS_CardinalityType

(* The buffer after a text or a line's end.                                *)
LEMMA Appended ==
  ASSUME NEW b \in Seq(Tokens), NEW x \in Tokens
  PROVE  /\ Append(b, x) \in Seq(Tokens) /\ Len(b) \in Nat
         /\ Len(Append(b, x)) = Len(b) + 1 /\ Append(b, x)[Len(b) + 1] = x
         /\ \A k \in 1 .. Len(b) : Append(b, x)[k] = b[k]
OBVIOUS

LEMMA Parity ==
  ASSUME LineInv
  PROVE  Len(buf) % 2 = IF mu = Free THEN 0 ELSE 1
<1> USE DEF LineInv
<1>1. Headers \in Nat
  BY DEF Headers, LogInv, Types
<1>2. CASE mu = Free
  <2>1. Written = Ended
    BY <1>2 DEF Holder, Written, Ended
  <2>2. Len(buf) = 2 * (Headers + Cardinality(Ended))
    BY <1>1, <2>1, FiniteParts DEF Length
  <2> QED BY <1>1, <1>2, <2>2, FiniteParts
<1>3. CASE mu # Free
  <2>1. Written = Ended \cup {mu} /\ mu \notin Ended
    BY <1>3 DEF Holder, Written, Ended, LineTypes
  <2>2. Cardinality(Written) = Cardinality(Ended) + 1
    BY <2>1, FiniteParts, OneMore
  <2>3. Len(buf) = 2 * (Headers + Cardinality(Ended)) + 1
    BY <1>1, <2>2, FiniteParts DEF Length
  <2> QED BY <1>1, <1>3, <2>3, FiniteParts
<1> QED BY <1>2, <1>3

(* Between two protocols each goroutine has not begun or has ended, as have*)
(* those of other protocols when one is under way.                         *)
LEMMA Idle ==
  ASSUME LineInv, NEW w \in Workers, mpc # "join"
  PROVE  wpc[w] \in {"idle", "done"}
<1>1. PICK j \in 1 .. Len(ProtocolOrder) : ProtoOf[w] = ProtocolOrder[j]
  BY DEF Protocols, ToSet
<1>2. CASE j < pi
  BY <1>1, <1>2 DEF LineInv, Past
<1>3. CASE ~(j < pi)
  <2>1. mpc = "start" /\ j >= pi
    BY <1>3 DEF LineInv, LineTypes, LogInv, Types
  <2> QED BY <1>1, <2>1 DEF LineInv, LogInv, InTurn, Waiting, Types
<1> QED BY <1>2, <1>3

LEMMA InitLines == ASSUME Init PROVE LineInv
<1>1. Written = {} /\ Ended = {} /\ Numbered = {}
  BY DEF Init, Written, Ended, Numbered
<1>2. Length /\ Numbers
  BY <1>1, FS_EmptySet DEF Init, Length, Numbers, Headers
<1>3. LineTypes /\ Past /\ Holder /\ Alternate /\ Texts
  BY <1>1 DEF Init, LineTypes, Past, Holder, Alternate, Texts
<1> QED BY <1>2, <1>3, InitLog DEF LineInv

(* A step of goroutine w that writes nothing and takes no number.          *)
LEMMA QuietLines ==
  ASSUME LineInv, LogInv', NEW w \in Workers, UNCHANGED <<buf, mu, idx, testedCount, mpc, pi>>,
         wpc[w] \in {"lookup", "count", "counting"},
         wpc'[w] \in {"count", "counting", "write"},
         \A v \in Workers \ {w} : wpc'[v] = wpc[v]
  PROVE  LineInv'
<1> USE DEF LineInv
<1>1. Written' = Written /\ Ended' = Ended /\ Numbered' = Numbered
  BY DEF Written, Ended, Numbered
<1>2. Length' /\ Alternate' /\ Numbers' /\ Texts' /\ LineTypes'
  BY <1>1 DEF Length, Headers, Alternate, Numbers, Texts, LineTypes
<1>3. Past' /\ Holder'
  BY DEF Past, Holder
<1> QED BY <1>2, <1>3

LEMMA LinesTest == ASSUME LineInv, LogInv', NEW w \in Workers, Test(w) PROVE LineInv'
<1> USE DEF LineInv
<1>1. /\ UNCHANGED <<buf, mu, mpc, pi>> /\ wpc[w] = "test" /\ wpc'[w] = "lookup"
      /\ \A v \in Workers \ {w} : wpc'[v] = wpc[v]
      /\ testedCount' = testedCount + 1 /\ idx' = [idx EXCEPT ![w] = testedCount + 1]
  BY DEF Test, LogInv, Types
<1>2. Written' = Written /\ Ended' = Ended /\ Numbered' = Numbered \cup {w}
  BY <1>1 DEF Written, Ended, Numbered
<1>3. w \notin Numbered /\ w \notin Written
  BY <1>1 DEF Numbered, Written
<1>4. Numbers'
  <2>1. Cardinality(Numbered') = Cardinality(Numbered) + 1
    BY <1>2, <1>3, FiniteParts, OneMore
  <2>2. ASSUME NEW n \in 1 .. testedCount' PROVE \E v \in Numbered' : idx'[v] = n
    <3>1. CASE n \in 1 .. testedCount
      BY <1>1, <1>2, <1>3, <3>1 DEF Numbers, LineTypes, Numbered
    <3>2. CASE n = testedCount + 1
      BY <1>1, <1>2, <3>2 DEF LineTypes
    <3> QED BY <1>1, <3>1, <3>2 DEF LineTypes
  <2> QED BY <1>1, <2>1, <2>2 DEF Numbers
<1>5. Length' /\ Alternate'
  BY <1>1, <1>2 DEF Length, Headers, Alternate
<1>6. Texts'
  BY <1>1, <1>2, <1>3 DEF Texts, LineTypes, Written
<1>7. LineTypes'
  BY <1>1 DEF LineTypes
<1>8. Past' /\ Holder'
  BY <1>1 DEF Past, Holder
<1> QED BY <1>4, <1>5, <1>6, <1>7, <1>8

LEMMA LinesWriteText == ASSUME LineInv, LogInv', NEW w \in Workers, WriteText(w) PROVE LineInv'
<1> USE DEF LineInv
<1>1. /\ UNCHANGED <<idx, testedCount, mpc, pi>> /\ wpc[w] = "write" /\ wpc'[w] = "newline"
      /\ \A v \in Workers \ {w} : wpc'[v] = wpc[v]
      /\ mu = Free /\ mu' = w
  BY DEF WriteText, LogFree, LogInv, Types, local
<1>2. Written' = Written \cup {w} /\ Ended' = Ended /\ Numbered' = Numbered /\ w \notin Written
  BY <1>1 DEF Written, Ended, Numbered
<1>3. /\ buf' \in Seq(Tokens) /\ Len(buf) \in Nat
      /\ Len(buf') = Len(buf) + 1 /\ buf'[Len(buf) + 1] = <<"result", idx[w]>>
      /\ \A k \in 1 .. Len(buf) : buf'[k] = buf[k]
  <2>1. <<"result", idx[w]>> \in Tokens
    BY DEF LineTypes, Tokens
  <2>2. buf' = Append(buf, <<"result", idx[w]>>)
    BY DEF WriteText, Text
  <2> QED BY <2>1, <2>2, Appended DEF LineTypes
<1>4. Length'
  <2>1. Cardinality(Written') = Cardinality(Written) + 1 /\ Cardinality(Ended') = Cardinality(Ended)
    BY <1>2, FiniteParts, OneMore
  <2>2. Headers' = Headers
    BY <1>1 DEF Headers
  <2>3. Headers \in Nat
    BY DEF Headers, LogInv, Types
  <2>4. Len(buf') = Len(buf) + 1
    BY <1>3
  <2>5. Cardinality(Written) \in Nat /\ Cardinality(Ended) \in Nat
    BY FiniteParts
  <2>6. Len(buf) = 2 * Headers + Cardinality(Written) + Cardinality(Ended)
    BY DEF Length
  <2>7. Len(buf') = 2 * Headers' + Cardinality(Written') + Cardinality(Ended')
    BY <2>1, <2>2, <2>3, <2>4, <2>5, <2>6
  <2> QED BY <2>7 DEF Length
<1>5. Alternate'
  <2>1. (Len(buf) + 1) % 2 = 1
    BY <1>1, <1>3, Parity
  <2>2. buf'[Len(buf) + 1] # NewLine
    BY <1>3 DEF NewLine
  <2>3. ASSUME NEW k \in 1 .. Len(buf) PROVE buf'[k] = NewLine' <=> k % 2 = 0
    BY <1>3 DEF Alternate, NewLine
  <2>4. \A k \in 1 .. Len(buf') : k \in 1 .. Len(buf) \/ k = Len(buf) + 1
    BY <1>3
  <2> QED BY <2>1, <2>2, <2>3, <2>4 DEF Alternate, NewLine
<1>6. Texts'
  <2> SUFFICES ASSUME NEW v \in Written'
               PROVE  \E k \in 1 .. Len(buf') : buf'[k] = <<"result", idx[v]>>
    BY <1>1 DEF Texts
  <2>1. CASE v = w
    BY <1>3, <2>1
  <2>2. CASE v \in Written
    <3>1. PICK k \in 1 .. Len(buf) : buf[k] = <<"result", idx[v]>>
      BY <2>2 DEF Texts
    <3> QED BY <1>3, <3>1
  <2> QED BY <1>2, <2>1, <2>2
<1>7. Numbers'
  BY <1>1, <1>2 DEF Numbers
<1>8. LineTypes'
  BY <1>1, <1>3 DEF LineTypes
<1>9. Past' /\ Holder'
  BY <1>1 DEF Past, Holder
<1> QED BY <1>4, <1>5, <1>6, <1>7, <1>8, <1>9

LEMMA LinesEndLine == ASSUME LineInv, LogInv', NEW w \in Workers, EndLine(w) PROVE LineInv'
<1> USE DEF LineInv
<1>1. /\ UNCHANGED <<idx, testedCount, mpc, pi>> /\ wpc[w] = "newline" /\ wpc'[w] = "done"
      /\ \A v \in Workers \ {w} : wpc'[v] = wpc[v]
      /\ mu = w /\ mu' = Free
  BY DEF EndLine, LogInv, Types, local, Holder
<1>2. Written' = Written /\ Ended' = Ended \cup {w} /\ Numbered' = Numbered /\ w \notin Ended
  BY <1>1 DEF Written, Ended, Numbered
<1>3. /\ buf' \in Seq(Tokens) /\ Len(buf) \in Nat
      /\ Len(buf') = Len(buf) + 1 /\ buf'[Len(buf) + 1] = NewLine
      /\ \A k \in 1 .. Len(buf) : buf'[k] = buf[k]
  <2>1. NewLine \in Tokens
    BY DEF NewLine, Tokens
  <2>2. buf' = Append(buf, NewLine)
    BY DEF EndLine
  <2> QED BY <2>1, <2>2, Appended DEF LineTypes
<1>4. Length'
  <2>1. Cardinality(Ended') = Cardinality(Ended) + 1 /\ Cardinality(Written') = Cardinality(Written)
    BY <1>2, FiniteParts, OneMore
  <2>2. Headers' = Headers
    BY <1>1 DEF Headers
  <2>3. Headers \in Nat
    BY DEF Headers, LogInv, Types
  <2>4. Len(buf') = Len(buf) + 1
    BY <1>3
  <2>5. Cardinality(Written) \in Nat /\ Cardinality(Ended) \in Nat
    BY FiniteParts
  <2>6. Len(buf) = 2 * Headers + Cardinality(Written) + Cardinality(Ended)
    BY DEF Length
  <2>7. Len(buf') = 2 * Headers' + Cardinality(Written') + Cardinality(Ended')
    BY <2>1, <2>2, <2>3, <2>4, <2>5, <2>6
  <2> QED BY <2>7 DEF Length
<1>5. Alternate'
  <2>1. (Len(buf) + 1) % 2 = 0
    BY <1>1, <1>3, Parity
  <2>2. ASSUME NEW k \in 1 .. Len(buf) PROVE buf'[k] = NewLine' <=> k % 2 = 0
    BY <1>3 DEF Alternate, NewLine
  <2>3. \A k \in 1 .. Len(buf') : k \in 1 .. Len(buf) \/ k = Len(buf) + 1
    BY <1>3
  <2> QED BY <1>3, <2>1, <2>2, <2>3 DEF Alternate, NewLine
<1>6. Texts'
  <2> SUFFICES ASSUME NEW v \in Written
               PROVE  \E k \in 1 .. Len(buf') : buf'[k] = <<"result", idx[v]>>
    BY <1>1, <1>2 DEF Texts
  <2>1. PICK k \in 1 .. Len(buf) : buf[k] = <<"result", idx[v]>>
    BY DEF Texts
  <2> QED BY <1>3, <2>1
<1>7. Numbers'
  BY <1>1, <1>2 DEF Numbers
<1>8. LineTypes'
  BY <1>1, <1>3 DEF LineTypes
<1>9. Past' /\ Holder'
  BY <1>1 DEF Past, Holder
<1> QED BY <1>4, <1>5, <1>6, <1>7, <1>8, <1>9

LEMMA LinesProtoStart == ASSUME LineInv, LogInv', ProtoStart PROVE LineInv'
<1> USE DEF LineInv
<1>1. /\ UNCHANGED <<idx, testedCount, mu, pi>> /\ mpc = "start" /\ mpc' = "join"
      /\ pi <= Len(ProtocolOrder) /\ buf' = buf \o <<Header, NewLine>>
      /\ \A w \in Workers : wpc'[w] = IF w \in Goroutines THEN "test" ELSE wpc[w]
  BY DEF ProtoStart, local
<1>2. \A w \in Goroutines : wpc[w] = "idle" /\ w \in Workers
  BY <1>1, Idle DEF LogInv, InTurn, Waiting, Goroutines, Proto, Types
<1>3. Written' = Written /\ Ended' = Ended /\ Numbered' = Numbered
  BY <1>1, <1>2 DEF Written, Ended, Numbered
<1>4. mu = Free
  BY <1>1, Idle DEF Holder, LineTypes
<1>5. /\ buf' \in Seq(Tokens) /\ Len(buf) \in Nat /\ Len(buf') = Len(buf) + 2
      /\ buf'[Len(buf) + 1] = Header /\ buf'[Len(buf) + 2] = NewLine
      /\ \A k \in 1 .. Len(buf) : buf'[k] = buf[k]
  <2>1. Header \in Tokens /\ NewLine \in Tokens
    BY DEF Header, NewLine, LogInv, Types, Tokens
  <2> QED BY <1>1, <2>1 DEF LineTypes
<1>6. Length'
  BY <1>1, <1>3, <1>5, FiniteParts DEF Length, Headers, LogInv, Types
<1>7. Alternate'
  <2>1. (Len(buf) + 1) % 2 = 1 /\ (Len(buf) + 2) % 2 = 0
    BY <1>4, <1>5, Parity
  <2>2. ASSUME NEW k \in 1 .. Len(buf) PROVE buf'[k] = NewLine' <=> k % 2 = 0
    BY <1>5 DEF Alternate, NewLine
  <2>3. \A k \in 1 .. Len(buf') : k \in 1 .. Len(buf) \/ k = Len(buf) + 1 \/ k = Len(buf) + 2
    BY <1>5
  <2>4. Header # NewLine
    BY DEF Header, NewLine
  <2> QED BY <1>5, <2>1, <2>2, <2>3, <2>4 DEF Alternate, NewLine
<1>8. Texts'
  <2> SUFFICES ASSUME NEW v \in Written
               PROVE  \E k \in 1 .. Len(buf') : buf'[k] = <<"result", idx[v]>>
    BY <1>1, <1>3 DEF Texts
  <2>1. PICK k \in 1 .. Len(buf) : buf[k] = <<"result", idx[v]>>
    BY DEF Texts
  <2> QED BY <1>5, <2>1
<1>9. LineTypes'
  BY <1>1, <1>5 DEF LineTypes
<1>10. Past' /\ Holder'
  BY <1>1, <1>2 DEF Past, Holder
<1>11. Numbers'
  BY <1>1, <1>3 DEF Numbers
<1> QED BY <1>6, <1>7, <1>8, <1>9, <1>10, <1>11

LEMMA LinesJoin == ASSUME LineInv, LogInv', Join PROVE LineInv'
<1> USE DEF LineInv
<1>1. /\ UNCHANGED <<idx, testedCount, mu, wpc, buf>> /\ mpc = "join" /\ mpc' = "start"
      /\ pi' = pi + 1 /\ pi \in Nat /\ \A w \in Goroutines : wpc[w] = "done"
  BY DEF Join, local, LogInv, Types
<1>2. Past'
  BY <1>1 DEF Past, Goroutines, Proto
<1>3. Written' = Written /\ Ended' = Ended /\ Numbered' = Numbered /\ Headers' = Headers
  BY <1>1 DEF Written, Ended, Numbered, Headers
<1>4. LineTypes'
  BY <1>1 DEF LineTypes
<1>5. Holder' /\ Length' /\ Alternate' /\ Numbers' /\ Texts'
  BY <1>1, <1>3 DEF Holder, Length, Alternate, Numbers, Texts, NewLine
<1> QED BY <1>2, <1>4, <1>5

LEMMA LinesRest ==
  ASSUME LineInv, LogInv', UNCHANGED <<idx, testedCount, mu, wpc, buf, pi>>,
         UNCHANGED mpc \/ Summary
  PROVE  LineInv'
<1> USE DEF LineInv
<1>1. Written' = Written /\ Ended' = Ended /\ Numbered' = Numbered /\ Headers' = Headers
  BY DEF Written, Ended, Numbered, Headers, Summary
<1>2. LineTypes' /\ Past'
  BY DEF LineTypes, Past, Summary, LogInv, Types
<1>3. Holder' /\ Length' /\ Alternate' /\ Numbers' /\ Texts'
  BY <1>1 DEF Holder, Length, Alternate, Numbers, Texts, NewLine
<1> QED BY <1>2, <1>3

LEMMA LineStep == ASSUME LineInv, [Next]_vars PROVE LineInv'
<1>1. LogInv'
  BY LogStep DEF LineInv
<1>2. ASSUME NEW w \in Workers, Lookup(w) \/ LockStat(w) \/ CountResult(w) PROVE LineInv'
  <2>1. /\ UNCHANGED <<buf, mu, idx, testedCount, mpc, pi>>
        /\ wpc[w] \in {"lookup", "count", "counting"}
        /\ wpc'[w] \in {"count", "counting", "write"}
        /\ \A v \in Workers \ {w} : wpc'[v] = wpc[v]
    BY <1>2 DEF Lookup, LockStat, CountResult, local, LineInv, LogInv, Types
  <2> QED BY <1>1, <2>1, QuietLines
<1>3. CASE Summary \/ UNCHANGED vars
  <2>1. UNCHANGED <<idx, testedCount, mu, wpc, buf, pi>> /\ (UNCHANGED mpc \/ Summary)
    BY <1>3 DEF Summary, vars, local
  <2> QED BY <1>1, <2>1, LinesRest
<1> QED
  BY <1>1, <1>2, <1>3, LinesTest, LinesWriteText, LinesEndLine, LinesProtoStart, LinesJoin
     DEF Next, Goroutine, Finished

(* Every line of the log is whole, whoever writes at the same time, and at *)
(* the end each tested line has one, with a number of its own.             *)
THEOREM LinesAreWhole == Spec => []LinesWhole
<1>1. ASSUME LineInv PROVE LinesWhole
  <2> USE <1>1 DEF LineInv
  <2>1. DOMAIN buf = 1 .. Len(buf)
    BY DEF LineTypes
  <2>2. ASSUME mpc = "done"
        PROVE  /\ Len(buf) = 2 * (Len(ProtocolOrder) + Cardinality(Workers))
               /\ \A n \in 1 .. Cardinality(Workers) : Contains(buf, <<"result", n>>)
    <3>1. \A w \in Workers : wpc[w] = "done"
      <4> SUFFICES ASSUME NEW w \in Workers PROVE wpc[w] = "done"
        OBVIOUS
      <4>1. PICK j \in 1 .. Len(ProtocolOrder) : ProtoOf[w] = ProtocolOrder[j]
        BY DEF Protocols, ToSet
      <4>2. j < pi
        BY <2>2 DEF LineTypes
      <4> QED BY <4>1, <4>2 DEF Past
    <3>2. Written = Workers /\ Ended = Workers /\ Numbered = Workers
      BY <3>1 DEF Written, Ended, Numbered
    <3>3. Headers = Len(ProtocolOrder) /\ Len(ProtocolOrder) \in Nat
      BY <2>2 DEF Headers, LineTypes
    <3>4. Len(buf) = 2 * (Len(ProtocolOrder) + Cardinality(Workers))
      BY <3>2, <3>3, FiniteParts DEF Length
    <3>5. ASSUME NEW n \in 1 .. Cardinality(Workers) PROVE Contains(buf, <<"result", n>>)
      <4>1. PICK w \in Written : idx[w] = n
        BY <3>2 DEF Numbers
      <4>2. PICK k \in 1 .. Len(buf) : buf[k] = <<"result", idx[w]>>
        BY <4>1 DEF Texts
      <4> QED BY <4>1, <4>2 DEF Contains
    <3> QED BY <3>4, <3>5
  <2> QED BY <2>1, <2>2 DEF LinesWhole, Alternate
<1>2. Init => LineInv
  BY InitLines
<1>3. LineInv /\ [Next]_vars => LineInv'
  BY LineStep
<1> QED BY <1>1, <1>2, <1>3, PTL DEF Spec
=============================================================================
