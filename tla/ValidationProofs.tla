-------------------------- MODULE ValidationProofs --------------------------
(***************************************************************************)
(* Proofs about Validation, for any protocols, lines, batch sizes, reasons *)
(* and outcomes.                                                           *)
(*                                                                         *)
(* JudgeInv ties positions to outcomes: in every stage it is known of each *)
(* line, by where it stands in order, pingPassed and tcpAll, whether it    *)
(* has been judged. Every batch is a part of what has not been, hence no   *)
(* line comes twice. CountInv, on top of it, says of every counter which   *)
(* set of lines it is the cardinality of; that counters and sums agree is  *)
(* then that sets are equal or disjoint.                                   *)
(***************************************************************************)
EXTENDS Validation, SelectionProofs, FiniteSetTheorems, SequenceTheorems, TLAPS

(* How many of n lines the first k batches have. *)
Reach(n, k, size) == IF k * size <= n THEN k * size ELSE n

(* The lines not found unreachable, and those that have been tested. *)
Answering == {l \in Lines : outcome[l] # Unreachable}
Judged == {l \in Lines : outcome[l] \in Outcomes}

(* Where the loops may be, and that the shuffle is a permutation. *)
Control ==
  /\ stage \in {"ping", "test"} =>
       /\ pi <= Len(ProtocolOrder)
       /\ Distinct(order) /\ Elements(order) = ToSet(Unique[Proto]) /\ Len(order) > 0
  /\ stage = "done" => pi = Len(ProtocolOrder) + 1
  /\ stage = "ping" => pb <= NumBatches(Len(order), PingSize)
  /\ stage = "test" => batchIdx <= NumBatches(Len(pingPassed), BatchSize)

Pinged == Reach(Len(order), pb, PingSize)

(* The lines of the batches done are judged and the reachable ones kept in *)
(* order; those of the batches to come are not.                            *)
PingInv == stage = "ping" =>
  /\ pingPassed = Select(SubSeq(order, 1, Pinged), Answering)
  /\ Len(pingPassed) + pingFailed = Pinged
  /\ \A k \in 1 .. Len(order) :
        outcome[order[k]] = NotYet \/ (k <= Pinged /\ outcome[order[k]] = Unreachable)

(* What tcpAll held before this protocol's reachable lines were appended.  *)
Earlier == Len(tcpAll) - Len(pingPassed)

(* pingPassed is the end of tcpAll, and as much of it is tested as the     *)
(* batches done have.                                                      *)
TestInv == stage = "test" =>
  /\ Distinct(pingPassed)
  /\ Len(pingPassed) + pingFailed = Len(Unique[Proto])
  /\ ToSet(pingPassed) = {l \in ToSet(Unique[Proto]) : outcome[l] # Unreachable}
  /\ Earlier >= 0
  /\ tested = Earlier + Reach(Len(pingPassed), batchIdx, BatchSize)
  /\ \A k \in 1 .. Len(pingPassed) : tcpAll[Earlier + k] = pingPassed[k]

(* A first part of tcpAll has been tested and the rest not, and out is     *)
(* what passed of it.                                                      *)
TcpInv ==
  /\ Distinct(tcpAll)
  /\ tested <= Len(tcpAll)
  /\ stage # "test" => tested = Len(tcpAll)
  /\ \A k \in 1 .. Len(tcpAll) :
       IF k <= tested THEN outcome[tcpAll[k]] \in Outcomes ELSE outcome[tcpAll[k]] = NotYet
  /\ out = Select(tcpAll, {l \in Lines : outcome[l] = Pass})

(* The protocols begun; those before this one have been judged, those      *)
(* after it not.                                                           *)
Reached == IF stage \in {"ping", "test"} THEN pi ELSE pi - 1

ProtoInv == \A k \in 1 .. Len(ProtocolOrder) : \A l \in ToSet(Unique[ProtocolOrder[k]]) :
  /\ k < pi => outcome[l] # NotYet
  /\ k > Reached => outcome[l] = NotYet

(* The lines of a protocol that failed, those that failed for a cause, and *)
(* the lines a counter counts.                                             *)
FailedOf(p) == {l \in ToSet(Unique[p]) : outcome[l] \in Reasons}
FailedFor(p, c) == {l \in FailedOf(p) : Classify(outcome[l]) = c}
Counted(x) == {l \in Judged : CounterOf(outcome[l]) = x}

CountInv ==
  /\ \A x \in Counters : count[x] = Cardinality(Counted(x))
  /\ \A p \in Protocols : \A c \in Causes : fails[p][c] = Cardinality(FailedFor(p, c))
  /\ count["passed"] = Len(out)
  /\ tested = Cardinality(Judged)

JudgeInv == TypeOK /\ Control /\ PingInv /\ TestInv /\ TcpInv /\ ProtoInv

-----------------------------------------------------------------------------
(* A batch is left as long as lines are.                                   *)
LEMMA Batches ==
  ASSUME NEW n \in Nat, NEW k \in Nat, NEW size \in Nat \ {0}
  PROVE  /\ NumBatches(n, size) \in Nat
         /\ k < NumBatches(n, size) <=> k * size < n
<1> DEFINE q == NumBatches(n, size)
<1>1. q \in Int /\ q * size <= n + size - 1 /\ n + size - 1 < q * size + size
  BY DEF NumBatches
<1>2. q \in Nat BY DEF NumBatches
<1> HIDE DEF q
<1>3. ASSUME k < q PROVE k * size < n
  <2>1. (k + 1) * size <= q * size BY <1>2, <1>3
  <2> QED BY <1>1, <2>1, Products
<1>4. ASSUME k >= q PROVE k * size >= n
  <2>1. k * size >= q * size BY <1>2, <1>4
  <2> QED BY <1>1, <1>2, <2>1, Products
<1> QED BY <1>2, <1>3, <1>4, Products DEF q

LEMMA ReachBounds ==
  ASSUME NEW n \in Nat, NEW k \in Nat, NEW size \in Nat \ {0}
  PROVE  /\ Reach(n, k, size) \in 0 .. n
         /\ Reach(n, 0, size) = 0
         /\ k = NumBatches(n, size) => Reach(n, k, size) = n
<1>1. k * size \in Nat /\ 0 * size = 0 BY Products
<1>2. k = NumBatches(n, size) => k * size >= n BY <1>1, Batches
<1> QED BY <1>1, <1>2 DEF Reach

(* A batch begins where the one before it ended, and is not empty.         *)
LEMMA SliceStep ==
  ASSUME NEW s, Len(s) \in Nat, NEW k \in Nat, NEW size \in Nat \ {0},
         k < NumBatches(Len(s), size)
  PROVE  LET d == Reach(Len(s), k, size)
             e == Reach(Len(s), k + 1, size)
         IN  /\ d \in 0 .. Len(s) /\ e \in d + 1 .. Len(s)
             /\ Slice(s, k, size) = SubSeq(s, d + 1, e)
<1> DEFINE a == k * size
           b == (k + 1) * size
<1>1. a \in Nat /\ b = a + size /\ a < Len(s) BY Products, Batches
<1> HIDE DEF a, b
<1>2. Min({b, Len(s)}) = IF b <= Len(s) THEN b ELSE Len(s) BY <1>1, MinOfTwo
<1>3. Reach(Len(s), k, size) = a BY <1>1 DEF Reach, a
<1>4. Reach(Len(s), k + 1, size) = IF b <= Len(s) THEN b ELSE Len(s) BY DEF Reach, b
<1>5. Slice(s, k, size) = SubSeq(s, a + 1, Min({b, Len(s)})) BY DEF Slice, a, b
<1> DEFINE d == Reach(Len(s), k, size)
           e == Reach(Len(s), k + 1, size)
<1>6. d = a /\ e = IF b <= Len(s) THEN b ELSE Len(s) BY <1>3, <1>4
<1>7. d \in 0 .. Len(s) /\ e \in d + 1 .. Len(s) /\ e = Min({b, Len(s)})
  <2> HIDE DEF d, e
  <2> QED BY <1>1, <1>2, <1>6
<1>8. Slice(s, k, size) = SubSeq(s, d + 1, e) BY <1>3, <1>5, <1>7
<1> QED BY <1>7, <1>8

(* A shuffle has the same elements, each once: a sequence of as many       *)
(* distinct elements as the set has leaves none of them out.               *)
LEMMA Permutation ==
  ASSUME NEW S, IsFiniteSet(S), NEW f \in SetToSeqs(S)
  PROVE  f \in Seq(S) /\ Distinct(f) /\ Elements(f) = S /\ Len(f) = Cardinality(S)
<1>1. Cardinality(S) \in Nat BY FS_CardinalityType
<1>2. /\ f \in [1 .. Cardinality(S) -> S]
      /\ \A i, j \in 1 .. Cardinality(S) : i # j => f[i] # f[j]
  BY DEF SetToSeqs
<1>3. f \in Seq(S) BY <1>1, <1>2, SeqDef
<1>4. Len(f) = Cardinality(S) BY <1>1, <1>2, <1>3, LenProperties
<1>5. Distinct(f) BY <1>2, <1>4 DEF Distinct
<1>6. Elements(f) \in SUBSET S BY <1>3, ElementsType
<1>7. Cardinality(Elements(f)) = Len(f) BY <1>3, <1>5, DistinctLen
<1>8. S = Elements(f) BY <1>4, <1>6, <1>7, FS_Subset
<1> QED BY <1>3, <1>4, <1>5, <1>8

(* The outcomes are told apart by the kind of the reason. *)
LEMMA Kinds == /\ Pass \notin Reasons /\ NotYet \notin Outcomes /\ Unreachable \notin Outcomes
               /\ NotYet # Unreachable
<1>1. /\ Pass.kind = "PASS" /\ NotYet.kind = "not yet" /\ Unreachable.kind = "unreachable"
  BY DEF Pass, NotYet, Unreachable, OtherReason
<1> QED BY <1>1, ValidationAssumption DEF Outcomes

(* The lines of the protocols are finitely many, and those of different    *)
(* protocols different.                                                    *)
LEMMA LinesOf ==
  /\ \A p \in Protocols :
       /\ Unique[p] \in Seq(Lines) /\ ToSet(Unique[p]) = Elements(Unique[p])
       /\ ToSet(Unique[p]) \subseteq Lines
       /\ IsFiniteSet(ToSet(Unique[p])) /\ Cardinality(ToSet(Unique[p])) = Len(Unique[p])
  /\ IsFiniteSet(Lines)
<1>1. ASSUME NEW p \in Protocols
      PROVE  /\ Unique[p] \in Seq(Lines) /\ ToSet(Unique[p]) = Elements(Unique[p])
             /\ ToSet(Unique[p]) \subseteq Lines
             /\ IsFiniteSet(ToSet(Unique[p])) /\ Cardinality(ToSet(Unique[p])) = Len(Unique[p])
  <2>1. Unique[p] \in Seq(Lines) /\ IsInjective(Unique[p]) BY ValidationAssumption
  <2>2. DOMAIN Unique[p] = 1 .. Len(Unique[p]) BY <2>1, LenProperties
  <2>3. Distinct(Unique[p]) BY <2>1, <2>2 DEF IsInjective, Distinct
  <2>4. ToSet(Unique[p]) = Elements(Unique[p]) BY <2>1, ElementsToSet
  <2>5. Elements(Unique[p]) \subseteq Lines BY <2>1, ElementsType
  <2> QED BY <2>1, <2>3, <2>4, <2>5, DistinctLen
<1>2. IsFiniteSet(Lines)
  <2> DEFINE f == [p \in Protocols |-> ToSet(Unique[p])]
             T == {ToSet(Unique[p]) : p \in Protocols}
  <2>1. f \in Surjection(Protocols, T) BY DEF Surjection
  <2>2. IsFiniteSet(T)
    <3> HIDE DEF f, T
    <3> QED BY <2>1, ValidationAssumption, FS_Surjection
  <2>3. \A t \in T : IsFiniteSet(t) BY <1>1
  <2> HIDE DEF f, T
  <2>4. IsFiniteSet(UNION T) BY <2>2, <2>3, FS_UNION
  <2> QED BY <2>4 DEF Lines, T
<1> QED BY <1>1, <1>2

LEMMA CausesFinite == IsFiniteSet(Causes)
<1> DEFINE f == [r \in Reasons |-> Classify(r)]
<1>1. f \in Surjection(Reasons, Causes) BY DEF Surjection, Causes
<1> HIDE DEF f
<1> QED BY <1>1, ValidationAssumption, FS_Surjection

LEMMA OrderTypes ==
  /\ Len(ProtocolOrder) \in Nat
  /\ \A k \in 1 .. Len(ProtocolOrder) : ProtocolOrder[k] \in Protocols
  /\ \A k, l \in 1 .. Len(ProtocolOrder) : ProtocolOrder[k] = ProtocolOrder[l] => k = l
  /\ DOMAIN ProtocolOrder = 1 .. Len(ProtocolOrder)
  /\ \A k, l \in 1 .. Len(ProtocolOrder) : k # l =>
       ToSet(Unique[ProtocolOrder[k]]) \cap ToSet(Unique[ProtocolOrder[l]]) = {}
<1>1. /\ Len(ProtocolOrder) \in Nat /\ DOMAIN ProtocolOrder = 1 .. Len(ProtocolOrder)
      /\ \A k \in 1 .. Len(ProtocolOrder) : ProtocolOrder[k] \in Protocols
  BY ValidationAssumption, LenProperties
<1>2. \A k, l \in 1 .. Len(ProtocolOrder) : ProtocolOrder[k] = ProtocolOrder[l] => k = l
  BY <1>1, ValidationAssumption DEF IsInjective
<1> QED BY <1>1, <1>2, ValidationAssumption

LEMMA Sizes == /\ BatchSize \in Nat \ {0}
               /\ Len(order) \in Nat \ {0} => PingSize \in Nat \ {0}
BY ValidationAssumption DEF BatchSize, PingSize

-----------------------------------------------------------------------------
LEMMA JudgeInit == Init => JudgeInv
<1> SUFFICES ASSUME Init PROVE JudgeInv OBVIOUS
<1>1. TypeOK BY EmptySeq, OrderTypes DEF Init, TypeOK
<1>2. Control /\ PingInv /\ TestInv BY DEF Init, Control, PingInv, TestInv
<1>3. TcpInv BY ElementsEmpty, SelectEmpty, EmptySeq DEF Init, TcpInv
<1>4. ProtoInv
  <2>1. Reached = 0 /\ pi = 1 BY DEF Init, Reached
  <2>2. \A k \in 1 .. Len(ProtocolOrder) : \A l \in ToSet(Unique[ProtocolOrder[k]]) :
          outcome[l] = NotYet
    BY OrderTypes, LinesOf DEF Init
  <2> QED BY <2>1, <2>2 DEF ProtoInv
<1> QED BY <1>1, <1>2, <1>3, <1>4 DEF JudgeInv

LEMMA SkipProtoStep == JudgeInv /\ SkipProto => JudgeInv'
<1> SUFFICES ASSUME JudgeInv, SkipProto PROVE JudgeInv' OBVIOUS
<1>1. /\ stage = "proto" /\ stage' = "proto" /\ pi' = pi + 1 /\ pi <= Len(ProtocolOrder)
      /\ Unique[Proto] = << >>
      /\ UNCHANGED <<pingVars, batchIdx, tcpAll, tally, rows, outcome>>
  BY DEF SkipProto
<1>2. pi \in 1 .. Len(ProtocolOrder) BY <1>1 DEF JudgeInv, TypeOK
<1>3. TypeOK' BY <1>1, <1>2, OrderTypes DEF JudgeInv, TypeOK, pingVars, tally
<1>4. Control' /\ PingInv' /\ TestInv' BY <1>1 DEF Control, PingInv, TestInv
<1>5. TcpInv' BY <1>1 DEF JudgeInv, TcpInv, tally
<1>6. ProtoInv'
  <2>1. ToSet(Unique[Proto]) = {} BY <1>1, <1>2, OrderTypes, LinesOf, ElementsEmpty DEF Proto
  <2>2. Reached = pi - 1 /\ Reached' = pi BY <1>1, <1>2 DEF Reached
  <2>3. ProtoInv BY DEF JudgeInv
  <2> QED BY <1>1, <1>2, <2>1, <2>2, <2>3 DEF ProtoInv, Proto
<1> QED BY <1>3, <1>4, <1>5, <1>6 DEF JudgeInv

LEMMA StartProtoStep == JudgeInv /\ StartProto => JudgeInv'
<1> SUFFICES ASSUME JudgeInv, StartProto PROVE JudgeInv' OBVIOUS
<1>1. /\ stage = "proto" /\ stage' = "ping" /\ pi' = pi /\ pi <= Len(ProtocolOrder)
      /\ Unique[Proto] # << >> /\ order' \in SetToSeqs(ToSet(Unique[Proto]))
      /\ pb' = 0 /\ pingPassed' = << >> /\ pingFailed' = 0
      /\ UNCHANGED <<pi, batchIdx, tcpAll, tally, rows, outcome>>
  BY DEF StartProto
<1>2. pi \in 1 .. Len(ProtocolOrder) /\ Proto \in Protocols /\ Proto' = Proto
  BY <1>1, OrderTypes DEF JudgeInv, TypeOK, Proto
<1>3. /\ Unique[Proto] \in Seq(Lines) /\ ToSet(Unique[Proto]) \subseteq Lines
      /\ IsFiniteSet(ToSet(Unique[Proto])) /\ Cardinality(ToSet(Unique[Proto])) = Len(Unique[Proto])
  BY <1>2, LinesOf
<1>4. Len(Unique[Proto]) \in Nat \ {0} BY <1>1, <1>3, EmptySeq
<1>5. /\ order' \in Seq(ToSet(Unique[Proto])) /\ Distinct(order')
      /\ Elements(order') = ToSet(Unique[Proto]) /\ Len(order') = Len(Unique[Proto])
  BY <1>1, <1>3, Permutation
<1>6. order' \in Seq(Lines) BY <1>3, <1>5, SeqMonotonic
<1>7. TypeOK' BY <1>1, <1>6, EmptySeq DEF JudgeInv, TypeOK, tally
<1>8. (PingSize \in Nat \ {0})' BY <1>4, <1>5, ValidationAssumption DEF PingSize
<1>9. 0 <= NumBatches(Len(order'), PingSize') /\ Reach(Len(order'), 0, PingSize') = 0
  <2>1. PICK n \in Nat, size \in Nat \ {0} : n = Len(order') /\ size = PingSize'
    BY <1>4, <1>5, <1>8
  <2>2. 0 <= NumBatches(n, size) /\ Reach(n, 0, size) = 0
    <3>1. NumBatches(n, size) \in Nat BY Batches
    <3>2. Reach(n, 0, size) = 0 BY ReachBounds
    <3> QED BY <3>1, <3>2
  <2> QED BY <2>1, <2>2
<1>14. Control' BY <1>1, <1>2, <1>4, <1>5, <1>9 DEF Control
<1>10. PingInv'
  <2>1. Pinged' = 0 BY <1>1, <1>9 DEF Pinged
  <2>2. Select(SubSeq(order', 1, 0), Answering') = << >>
    <3>1. SubSeq(order', 1, 0) = << >> BY SubSeqEmpty
    <3>2. Select(<< >>, Answering') = << >> BY SelectEmpty
    <3> QED BY <3>1, <3>2, Zenon
  <2>3. \A k \in 1 .. Len(order') : order'[k] \in ToSet(Unique[Proto])
    BY <1>5 DEF Elements
  <2>4. \A l \in ToSet(Unique[Proto]) : outcome[l] = NotYet
    <3>1. Reached = pi - 1 BY <1>1 DEF Reached
    <3> QED BY <1>2, <3>1 DEF JudgeInv, ProtoInv, Proto
  <2> QED BY <1>1, <2>1, <2>2, <2>3, <2>4, EmptySeq DEF PingInv
<1>11. TestInv' BY <1>1 DEF TestInv
<1>12. TcpInv' BY <1>1 DEF JudgeInv, TcpInv, tally
<1>13. ProtoInv'
  <2>1. Reached = pi - 1 /\ Reached' = pi BY <1>1 DEF Reached
  <2>2. ProtoInv BY DEF JudgeInv
  <2> QED BY <1>1, <1>2, <2>1, <2>2 DEF ProtoInv
<1> QED BY <1>7, <1>10, <1>11, <1>12, <1>13, <1>14 DEF JudgeInv

(* While a protocol is pinged, the batch that comes next is a part of its  *)
(* lines, and all of it has yet to be judged.                              *)
LEMMA PingPart ==
  ASSUME JudgeInv, stage = "ping", pb < NumBatches(Len(order), PingSize)
  PROVE  LET lines == Slice(order, pb, PingSize)
             e == Reach(Len(order), pb + 1, PingSize)
         IN  /\ Pinged \in 0 .. Len(order) /\ e \in Pinged + 1 .. Len(order)
             /\ lines = SubSeq(order, Pinged + 1, e)
             /\ lines \in Seq(Lines) /\ Distinct(lines) /\ Len(lines) = e - Pinged
             /\ ToSet(lines) = Elements(lines) /\ ToSet(lines) \subseteq Lines
             /\ Elements(lines) = {order[k] : k \in Pinged + 1 .. e}
             /\ Elements(lines) \subseteq ToSet(Unique[Proto])
             /\ \A l \in Elements(lines) : outcome[l] = NotYet
<1> DEFINE n == Len(order)
           size == PingSize
           d == Pinged
           e == Reach(n, pb + 1, size)
           lines == Slice(order, pb, size)
<1>1. /\ order \in Seq(Lines) /\ n \in Nat \ {0} /\ pb \in Nat /\ size \in Nat \ {0}
      /\ Distinct(order) /\ Elements(order) = ToSet(Unique[Proto])
  <2>1. order \in Seq(Lines) /\ pb \in Nat BY DEF JudgeInv, TypeOK
  <2>2. Distinct(order) /\ Elements(order) = ToSet(Unique[Proto]) /\ n > 0
    BY DEF JudgeInv, Control
  <2>3. n \in Nat \ {0} BY <2>1, <2>2, LenProperties
  <2> QED BY <2>1, <2>2, <2>3, Sizes
<1> HIDE DEF size
<1>2. d = Reach(n, pb, size) BY DEF Pinged, size
<1>3. pb < NumBatches(n, size) BY DEF size
<1> HIDE DEF n
<1>4. d \in 0 .. n /\ e \in d + 1 .. n /\ lines = SubSeq(order, d + 1, e)
  BY <1>1, <1>2, <1>3, SliceStep DEF n
<1> HIDE DEF d, e, lines
<1>5. /\ lines \in Seq(Lines) /\ Distinct(lines) /\ Len(lines) = e - d
      /\ Elements(lines) = {order[k] : k \in d + 1 .. e}
  <2>1. d + 1 \in Nat \ {0} /\ e \in (d + 1) - 1 .. Len(order) BY <1>1, <1>4 DEF n
  <2>2. /\ lines \in Seq(Lines) /\ Distinct(lines) /\ Len(lines) = e - (d + 1) + 1
        /\ Elements(lines) = {order[k] : k \in d + 1 .. e}
    <3>1. PICK m \in Nat \ {0} : m = d + 1 /\ e \in m - 1 .. Len(order) BY <2>1
    <3>2. /\ SubSeq(order, m, e) \in Seq(Lines) /\ Distinct(SubSeq(order, m, e))
          /\ Len(SubSeq(order, m, e)) = e - m + 1
          /\ Elements(SubSeq(order, m, e)) = {order[k] : k \in m .. e}
      BY <1>1, <3>1, PartOf
    <3>3. lines = SubSeq(order, m, e) BY <1>4, <3>1
    <3> QED BY <3>1, <3>2, <3>3
  <2>3. e - (d + 1) + 1 = e - d BY <1>1, <1>4
  <2> QED BY <2>2, <2>3, Zenon
<1>6. ToSet(lines) = Elements(lines) /\ Elements(lines) \subseteq Lines
  BY <1>5, ElementsToSet, ElementsType
<1>7. Elements(lines) \subseteq Elements(order)
  <2>1. \A k \in d + 1 .. e : k \in 1 .. n BY <1>1, <1>4
  <2>2. Elements(order) = {order[k] : k \in 1 .. n} BY DEF Elements, n
  <2> QED BY <1>5, <2>1, <2>2
<1>8. \A l \in Elements(lines) : outcome[l] = NotYet
  <2>1. \A k \in 1 .. n : outcome[order[k]] = NotYet \/ k <= d
    BY DEF JudgeInv, PingInv, n, d
  <2> TAKE l \in Elements(lines)
  <2>2. PICK k \in d + 1 .. e : l = order[k] BY <1>5
  <2>3. k \in 1 .. n /\ ~(k <= d) BY <1>1, <1>4
  <2> QED BY <2>1, <2>2, <2>3
<1> QED BY <1>1, <1>4, <1>5, <1>6, <1>7, <1>8 DEF n, size, d, e, lines

LEMMA PingBatchStep == JudgeInv /\ PingBatch => JudgeInv'
<1> SUFFICES ASSUME JudgeInv, PingBatch PROVE JudgeInv' OBVIOUS
<1> DEFINE n == Len(order)
           d == Pinged
           e == Reach(n, pb + 1, PingSize)
           lines == Slice(order, pb, PingSize)
<1>1. PICK up \in SUBSET ToSet(lines) :
        /\ pingPassed' = pingPassed \o Select(lines, up)
        /\ pingFailed' = pingFailed + Len(lines) - Len(Select(lines, up))
        /\ outcome' = [l \in Lines |-> IF l \in ToSet(lines) \ up THEN Unreachable ELSE outcome[l]]
  BY DEF PingBatch
<1>2. /\ stage = "ping" /\ pb < NumBatches(n, PingSize) /\ pb' = pb + 1
      /\ UNCHANGED <<stage, pi, order, batchIdx, tcpAll, out, tested, count, fails, samples, rows>>
  BY DEF PingBatch, loop, tally
<1>3. /\ d \in 0 .. n /\ e \in d + 1 .. n /\ lines = SubSeq(order, d + 1, e)
      /\ lines \in Seq(Lines) /\ Distinct(lines) /\ Len(lines) = e - d
      /\ ToSet(lines) = Elements(lines) /\ ToSet(lines) \subseteq Lines
      /\ Elements(lines) = {order[k] : k \in d + 1 .. e}
      /\ Elements(lines) \subseteq ToSet(Unique[Proto])
      /\ \A l \in Elements(lines) : outcome[l] = NotYet
  BY <1>2, PingPart
<1>4. TypeOK BY DEF JudgeInv
<1>5. order \in Seq(Lines) /\ n \in Nat /\ Distinct(order)
  BY <1>2, <1>4, LenProperties DEF TypeOK, JudgeInv, Control
<1>6. Pinged' = e BY <1>2 DEF Pinged, PingSize
<1>7. /\ pb \in Nat
      /\ pb' <= NumBatches(Len(order'), PingSize')
  <2>1. pb \in Nat BY <1>4 DEF TypeOK
  <2>2. PingSize' = PingSize BY <1>2 DEF PingSize
  <2>3. NumBatches(n, PingSize) \in Nat
    <3>1. n \in Nat /\ n > 0 BY <1>2, <1>5 DEF JudgeInv, Control
    <3>2. PingSize \in Nat \ {0} BY <3>1, Sizes
    <3> HIDE DEF n
    <3> QED BY <2>1, <3>1, <3>2, Batches
  <2> QED BY <1>2, <2>1, <2>2, <2>3
<1> HIDE DEF n, d, e, lines
<1> DEFINE kept == Select(lines, up)
<1>8. kept \in Seq(Lines) /\ Len(kept) \in 0 .. Len(lines)
  <2>1. kept \in Seq(Lines \cap up) BY <1>3, SelectType
  <2> QED BY <1>3, <2>1, SeqMonotonic, SelectShorter
<1> HIDE DEF kept
<1>9. /\ pingPassed' = pingPassed \o kept
      /\ pingFailed' = pingFailed + Len(lines) - Len(kept)
  BY <1>1 DEF kept
<1>10. \A l \in Lines : outcome'[l] = IF l \in Elements(lines) \ up THEN Unreachable ELSE outcome[l]
  BY <1>1, <1>3
<1>11. \A l \in Lines \ Elements(lines) : outcome'[l] = outcome[l] BY <1>10
<1>12. \A l \in Elements(lines) : outcome'[l] = IF l \in up THEN NotYet ELSE Unreachable
  BY <1>3, <1>10
<1>13. pingPassed \in Seq(Lines) /\ pingFailed \in Nat BY <1>4 DEF TypeOK
<1>14. /\ pingPassed' \in Seq(Lines) /\ pingFailed' \in Nat
       /\ Len(pingPassed') + pingFailed' = Len(pingPassed) + pingFailed + (e - d)
  <2>1. pingPassed' \in Seq(Lines) /\ Len(pingPassed') = Len(pingPassed) + Len(kept)
    BY <1>8, <1>9, <1>13, ConcatProperties
  <2>2. Len(pingPassed) \in Nat BY <1>13, LenProperties
  <2> QED BY <1>3, <1>5, <1>8, <1>9, <1>13, <2>1, <2>2
<1>15. outcome' \in [Lines -> Outcomes \cup {NotYet, Unreachable}]
  BY <1>1, <1>4 DEF TypeOK
<1>16. TypeOK' BY <1>2, <1>4, <1>7, <1>14, <1>15 DEF TypeOK
<1>17. Control' BY <1>2, <1>7 DEF JudgeInv, Control, Proto
<1>18. PingInv'
  <2> DEFINE before == SubSeq(order, 1, d)
  <2>1. PingInv BY DEF JudgeInv
  <2>2. /\ before \in Seq(Lines) /\ Elements(before) = {order[k] : k \in 1 .. d}
    BY <1>3, <1>5, PartOf DEF n
  <2>3. SubSeq(order, 1, e) = before \o lines
    BY <1>3, <1>5, ConcatAdjacentSubSeq DEF n
  <2> HIDE DEF before
  <2>4. \A k \in 1 .. n : /\ order[k] \in Lines
                          /\ order[k] \in Elements(lines) <=> k \in d + 1 .. e
    <3>1. \A k \in 1 .. n : order[k] \in Lines BY <1>5, LenProperties DEF n
    <3>2. \A k, l \in 1 .. n : order[k] = order[l] => k = l BY <1>5 DEF Distinct, n
    <3> QED BY <1>3, <1>5, <3>1, <3>2
  <2>5. Elements(before) \cap Elements(lines) = {} /\ Elements(before) \subseteq Lines
    BY <1>3, <1>5, <2>2, <2>4
  <2>6. Elements(before) \cap Answering' = Elements(before) \cap Answering
    BY <1>11, <2>5 DEF Answering
  <2>7. Elements(lines) \cap Answering' = Elements(lines) \cap up
    BY <1>3, <1>12, Kinds DEF Answering
  <2>8. Select(before, Answering') = pingPassed
    <3>1. pingPassed = Select(before, Answering) BY <1>2, <2>1 DEF PingInv, before, d
    <3> QED BY <2>2, <2>6, <3>1, SelectAgree
  <2>9. Select(lines, Answering') = kept BY <1>3, <2>7, SelectAgree DEF kept
  <2>10. Select(before \o lines, Answering') = pingPassed'
    <3>1. Select(before \o lines, Answering') = Select(before, Answering') \o Select(lines, Answering')
      BY <1>3, <2>2, SelectConcat, ZenonT(60)
    <3> QED BY <1>9, <2>8, <2>9, <3>1
  <2>11. Len(pingPassed') + pingFailed' = e
    <3>1. Len(pingPassed) + pingFailed = d BY <1>2, <2>1 DEF PingInv, d
    <3> QED BY <1>3, <1>5, <1>14, <3>1
  <2>12. \A k \in 1 .. n :
           outcome'[order[k]] = NotYet \/ (k <= e /\ outcome'[order[k]] = Unreachable)
    <3> SUFFICES ASSUME NEW k \in 1 .. n
                 PROVE outcome'[order[k]] = NotYet \/ (k <= e /\ outcome'[order[k]] = Unreachable)
      OBVIOUS
    <3>1. CASE k \in d + 1 .. e
      <4>1. order[k] \in Elements(lines) BY <2>4, <3>1
      <4> QED BY <1>12, <3>1, <4>1
    <3>2. CASE k \notin d + 1 .. e
      <4>1. outcome'[order[k]] = outcome[order[k]] BY <1>11, <2>4, <3>2
      <4>2. outcome[order[k]] = NotYet \/ (k <= d /\ outcome[order[k]] = Unreachable)
        BY <1>2, <2>1 DEF PingInv, d, n
      <4> QED BY <1>3, <1>5, <4>1, <4>2
    <3> QED BY <3>1, <3>2
  <2> QED BY <1>2, <1>6, <2>3, <2>10, <2>11, <2>12 DEF PingInv, n
<1>19. TestInv' BY <1>2 DEF TestInv
<1>20. TcpInv'
  <2>1. TcpInv /\ tested = Len(tcpAll) BY <1>2 DEF JudgeInv, TcpInv
  <2>2. tcpAll \in Seq(Lines) /\ Len(tcpAll) \in Nat BY <1>4, LenProperties DEF TypeOK
  <2>3. \A k \in 1 .. Len(tcpAll) : outcome'[tcpAll[k]] = outcome[tcpAll[k]]
    <3>1. \A k \in 1 .. Len(tcpAll) : tcpAll[k] \in Lines BY <2>2, LenProperties
    <3>2. \A k \in 1 .. Len(tcpAll) : outcome[tcpAll[k]] \in Outcomes BY <2>1, <2>2 DEF TcpInv
    <3> QED BY <1>3, <1>11, <3>1, <3>2, Kinds
  <2>4. {l \in Lines : outcome'[l] = Pass} = {l \in Lines : outcome[l] = Pass}
    <3>1. Pass # NotYet /\ Pass # Unreachable BY Kinds DEF Outcomes
    <3> QED BY <1>3, <1>11, <1>12, <3>1
  <2> QED BY <1>2, <2>1, <2>3, <2>4 DEF TcpInv
<1>21. ProtoInv'
  <2>1. ProtoInv /\ pi \in 1 .. Len(ProtocolOrder) BY <1>2, <1>4, OrderTypes DEF JudgeInv, Control, TypeOK
  <2>2. Reached = pi /\ Reached' = pi BY <1>2 DEF Reached
  <2>3. \A k \in 1 .. Len(ProtocolOrder) : \A l \in ToSet(Unique[ProtocolOrder[k]]) :
          k # pi => l \in Lines \ Elements(lines)
    BY <1>3, <2>1, OrderTypes, LinesOf DEF Proto
  <2>4. \A k \in 1 .. Len(ProtocolOrder) : \A l \in ToSet(Unique[ProtocolOrder[k]]) :
          k # pi => outcome'[l] = outcome[l]
    BY <1>11, <2>3
  <2> QED BY <1>2, <2>1, <2>2, <2>4 DEF ProtoInv
<1> QED BY <1>16, <1>17, <1>18, <1>19, <1>20, <1>21 DEF JudgeInv

LEMMA EndPingStep == JudgeInv /\ EndPing => JudgeInv'
<1> SUFFICES ASSUME JudgeInv, EndPing PROVE JudgeInv' OBVIOUS
<1> DEFINE n == Len(order)
           P == {l \in Lines : outcome[l] = Pass}
<1>1. /\ stage = "ping" /\ pb = NumBatches(n, PingSize)
      /\ tcpAll' = tcpAll \o pingPassed /\ batchIdx' = 0
      /\ UNCHANGED <<order, pb, pingPassed, pingFailed, out, tested, count, fails, samples, rows, outcome>>
      /\ IF pingPassed = << >> THEN stage' = "proto" /\ pi' = pi + 1
         ELSE stage' = "test" /\ pi' = pi
  BY DEF EndPing, pingVars, tally
<1>2. TypeOK /\ PingInv /\ TcpInv /\ ProtoInv BY DEF JudgeInv
<1>3. /\ pi \in 1 .. Len(ProtocolOrder) /\ Proto \in Protocols
      /\ Distinct(order) /\ Elements(order) = ToSet(Unique[Proto]) /\ n > 0
  BY <1>1, <1>2, OrderTypes DEF JudgeInv, Control, TypeOK, Proto
<1>4. order \in Seq(Lines) /\ n \in Nat \ {0} /\ pb \in Nat
  <2>1. order \in Seq(Lines) /\ pb \in Nat BY <1>2 DEF TypeOK
  <2> QED BY <1>3, <2>1, LenProperties
<1>5. Pinged = n
  <2>1. PingSize \in Nat \ {0} BY <1>4, Sizes
  <2> HIDE DEF n
  <2> QED BY <1>1, <1>4, <2>1, ReachBounds DEF Pinged, n
<1>6. pingPassed = Select(order, Answering) /\ Len(pingPassed) + pingFailed = n
  <2>1. SubSeq(order, 1, n) = order BY <1>4, SubSeqFull
  <2> QED BY <1>1, <1>2, <1>5, <2>1 DEF PingInv
<1>7. /\ Distinct(pingPassed)
      /\ Elements(pingPassed) = ToSet(Unique[Proto]) \cap Answering
      /\ pingPassed \in Seq(Lines) /\ Len(pingPassed) \in Nat
  <2>1. pingPassed \in Seq(Lines) BY <1>2 DEF TypeOK
  <2> QED BY <1>3, <1>4, <1>6, <2>1, SelectElements, LenProperties
<1>8. n = Len(Unique[Proto]) BY <1>3, <1>4, DistinctLen, LinesOf
<1>9. /\ \A l \in ToSet(Unique[Proto]) : outcome[l] = NotYet \/ outcome[l] = Unreachable
      /\ \A l \in Elements(pingPassed) : outcome[l] = NotYet
  <2>1. \A k \in 1 .. n : outcome[order[k]] = NotYet \/ outcome[order[k]] = Unreachable
    BY <1>1, <1>2 DEF PingInv
  <2>2. Elements(order) = {order[k] : k \in 1 .. n} BY DEF Elements
  <2> QED BY <1>3, <1>7, <2>1, <2>2 DEF Answering
<1> HIDE DEF n
<1>10. /\ tcpAll \in Seq(Lines) /\ Len(tcpAll) \in Nat /\ tested = Len(tcpAll)
       /\ Distinct(tcpAll) /\ out = Select(tcpAll, P)
       /\ \A k \in 1 .. Len(tcpAll) : outcome[tcpAll[k]] \in Outcomes
  BY <1>1, <1>2, LenProperties DEF TypeOK, TcpInv
<1> HIDE DEF P
<1>11. /\ tcpAll' \in Seq(Lines) /\ Len(tcpAll') = Len(tcpAll) + Len(pingPassed)
       /\ \A k \in 1 .. Len(tcpAll) + Len(pingPassed) :
            tcpAll'[k] = IF k <= Len(tcpAll) THEN tcpAll[k] ELSE pingPassed[k - Len(tcpAll)]
  BY <1>1, <1>7, <1>10, ConcatProperties
<1>12. Elements(tcpAll) \cap Elements(pingPassed) = {}
  BY <1>9, <1>10, Kinds DEF Elements
<1>13. Distinct(tcpAll') BY <1>1, <1>7, <1>10, <1>12, ElementsConcat
<1>14. Select(tcpAll', P) = out
  <2>1. Elements(pingPassed) \cap P = {} BY <1>9, Kinds DEF P, Outcomes
  <2>2. Select(pingPassed, P) = << >> BY <1>7, <2>1, SelectNone
  <2>3. Select(tcpAll', P) = Select(tcpAll, P) \o Select(pingPassed, P)
    BY <1>1, <1>7, <1>10, SelectConcat
  <2>4. out \in Seq(Lines) BY <1>2 DEF TypeOK
  <2>5. out \o << >> = out BY <2>4, ConcatEmptySeq
  <2> QED BY <1>10, <2>2, <2>3, <2>5
<1>15. TypeOK'
  <2>1. pi' \in 1 .. Len(ProtocolOrder) + 1 /\ stage' \in {"proto", "test"}
    BY <1>1, <1>3, OrderTypes
  <2> QED BY <1>1, <1>2, <1>11, <2>1 DEF TypeOK
<1>16. PingInv' BY <1>1 DEF PingInv
<1>17. \A k \in 1 .. Len(tcpAll') :
          IF k <= tested THEN outcome[tcpAll'[k]] \in Outcomes ELSE outcome[tcpAll'[k]] = NotYet
  <2>1. \A k \in 1 .. Len(pingPassed) : outcome[pingPassed[k]] = NotYet
    BY <1>9 DEF Elements
  <2> QED BY <1>7, <1>10, <1>11, <2>1, SMTT(30)
<1>18. CASE pingPassed = << >>
  <2>1. stage' = "proto" /\ pi' = pi + 1 BY <1>1, <1>18
  <2>2. tcpAll' = tcpAll BY <1>1, <1>10, <1>18, ConcatEmptySeq
  <2>3. Control' /\ TestInv' BY <2>1 DEF Control, TestInv
  <2>4. TcpInv' BY <1>1, <1>10, <2>2 DEF TcpInv, P
  <2>5. \A l \in ToSet(Unique[Proto]) : outcome[l] # NotYet
    <3>1. Elements(pingPassed) = {} BY <1>18, ElementsEmpty
    <3> QED BY <1>3, <1>7, <1>9, <3>1, Kinds, LinesOf DEF Answering
  <2>6. ProtoInv'
    <3>1. Reached = pi /\ Reached' = pi BY <1>1, <1>3, <2>1 DEF Reached
    <3> QED BY <1>1, <1>2, <1>3, <2>1, <2>5, <3>1 DEF ProtoInv, Proto
  <2> QED BY <1>15, <1>16, <2>3, <2>4, <2>6 DEF JudgeInv
<1>19. CASE pingPassed # << >>
  <2>1. stage' = "test" /\ pi' = pi BY <1>1, <1>19
  <2>2. /\ NumBatches(Len(pingPassed), BatchSize) \in Nat
        /\ Reach(Len(pingPassed), 0, BatchSize) = 0
    <3>1. NumBatches(Len(pingPassed), BatchSize) \in Nat BY <1>4, <1>7, Sizes, Batches
    <3>2. Reach(Len(pingPassed), 0, BatchSize) = 0 BY <1>4, <1>7, Sizes, ReachBounds
    <3> QED BY <3>1, <3>2
  <2>3. Control' BY <1>1, <1>3, <2>1, <2>2, OrderTypes DEF Control, Proto, n, BatchSize
  <2>4. TestInv'
    <3>1. Earlier' = Len(tcpAll) BY <1>1, <1>7, <1>10, <1>11 DEF Earlier
    <3>2. \A k \in 1 .. Len(pingPassed) : tcpAll'[Len(tcpAll) + k] = pingPassed[k]
      BY <1>7, <1>10, <1>11
    <3>3. ToSet(pingPassed) = {l \in ToSet(Unique[Proto]) : outcome[l] # Unreachable}
      BY <1>3, <1>7, ElementsToSet, LinesOf DEF Answering
    <3>4. Proto' = Proto BY <2>1 DEF Proto
    <3>5. tested = Len(tcpAll) + 0 BY <1>10
    <3> QED BY <1>1, <1>6, <1>7, <1>8, <1>10, <2>2, <3>1, <3>2, <3>3, <3>4, <3>5 DEF TestInv
  <2>5. TcpInv' BY <1>1, <1>7, <1>10, <1>11, <1>13, <1>14, <1>17, <2>1 DEF TcpInv, P
  <2>6. ProtoInv'
    <3>1. Reached = pi /\ Reached' = pi BY <1>1, <1>3, <2>1 DEF Reached
    <3> QED BY <1>1, <1>2, <2>1, <3>1 DEF ProtoInv
  <2> QED BY <1>15, <1>16, <2>3, <2>4, <2>5, <2>6 DEF JudgeInv
<1> QED BY <1>18, <1>19

-----------------------------------------------------------------------------
(* The batch that is tested next is a part of the reachable lines, the     *)
(* part of tcpAll behind what was tested, and all of it has yet to be.     *)
LEMMA TestPart ==
  ASSUME JudgeInv, stage = "test", batchIdx < NumBatches(Len(pingPassed), BatchSize)
  PROVE  LET batch == Slice(pingPassed, batchIdx, BatchSize)
             e == Reach(Len(pingPassed), batchIdx + 1, BatchSize)
         IN  /\ batch \in Seq(Lines) /\ Distinct(batch) /\ Len(batch) \in Nat
             /\ ToSet(batch) = Elements(batch) /\ Elements(batch) \subseteq Lines
             /\ Elements(batch) \subseteq ToSet(Unique[Proto])
             /\ tested + Len(batch) \in tested + 1 .. Len(tcpAll)
             /\ tested + Len(batch) = Earlier + e
             /\ batch = SubSeq(tcpAll, tested + 1, tested + Len(batch))
             /\ Elements(batch) = {tcpAll[k] : k \in tested + 1 .. tested + Len(batch)}
             /\ \A l \in Elements(batch) : outcome[l] = NotYet
<1> DEFINE n == Len(pingPassed)
           m == Earlier
           d == Reach(n, batchIdx, BatchSize)
           e == Reach(n, batchIdx + 1, BatchSize)
           batch == Slice(pingPassed, batchIdx, BatchSize)
           N == Len(tcpAll)
<1>1. /\ pingPassed \in Seq(Lines) /\ batchIdx \in Nat /\ n \in Nat
      /\ tcpAll \in Seq(Lines) /\ N \in Nat /\ tested \in Nat
  BY LenProperties DEF JudgeInv, TypeOK
<1>2. /\ Distinct(pingPassed) /\ m >= 0 /\ tested = m + d /\ m = N - n
      /\ ToSet(pingPassed) = {l \in ToSet(Unique[Proto]) : outcome[l] # Unreachable}
      /\ \A k \in 1 .. n : tcpAll[m + k] = pingPassed[k]
  BY DEF JudgeInv, TestInv, Earlier
<1>3. d \in 0 .. n /\ e \in d + 1 .. n /\ batch = SubSeq(pingPassed, d + 1, e)
  BY <1>1, Sizes, SliceStep
<1> HIDE DEF n, m, d, e, batch, N
<1>4. /\ batch \in Seq(Lines) /\ Distinct(batch) /\ Len(batch) = e - d
      /\ \A i \in 1 .. e - d : batch[i] = pingPassed[d + i]
  <2>1. d + 1 \in Nat \ {0} /\ e \in (d + 1) - 1 .. Len(pingPassed) BY <1>1, <1>3 DEF n
  <2>2. /\ batch \in Seq(Lines) /\ Distinct(batch) /\ Len(batch) = e - (d + 1) + 1
        /\ \A i \in 1 .. e - (d + 1) + 1 : batch[i] = pingPassed[(d + 1) + i - 1]
    BY <1>1, <1>2, <1>3, <2>1, PartOf
  <2> QED BY <1>1, <1>3, <2>2
<1> DEFINE t == tested + Len(batch)
<1>5. t = m + e /\ t \in tested + 1 .. N /\ m \in Nat BY <1>1, <1>2, <1>3, <1>4
<1> DEFINE part == SubSeq(tcpAll, tested + 1, t)
<1>6. /\ part \in Seq(Lines) /\ Len(part) = t - tested
      /\ \A i \in 1 .. t - tested : part[i] = tcpAll[tested + i]
      /\ Elements(part) = {tcpAll[k] : k \in tested + 1 .. t}
  <2>1. tested + 1 \in Nat \ {0} /\ t \in (tested + 1) - 1 .. Len(tcpAll) BY <1>1, <1>5 DEF N
  <2> HIDE DEF t
  <2>2. /\ part \in Seq(Lines) /\ Len(part) = t - (tested + 1) + 1
        /\ \A i \in 1 .. t - (tested + 1) + 1 : part[i] = tcpAll[(tested + 1) + i - 1]
        /\ Elements(part) = {tcpAll[k] : k \in tested + 1 .. t}
    BY <1>1, <2>1, PartOf
  <2> HIDE DEF part
  <2> QED BY <1>1, <1>5, <2>2, SMTT(30)
<1> HIDE DEF t, part
<1>7. batch = part
  <2>1. Len(batch) = Len(part) BY <1>1, <1>4, <1>6 DEF t
  <2>2. \A i \in 1 .. Len(batch) : batch[i] = part[i]
    <3> SUFFICES ASSUME NEW i \in 1 .. Len(batch) PROVE batch[i] = part[i] OBVIOUS
    <3>1. d + i \in 1 .. n /\ m + (d + i) = tested + i
      BY <1>1, <1>2, <1>3, <1>4, <1>5
    <3>2. batch[i] = pingPassed[d + i] BY <1>4
    <3>3. tcpAll[m + (d + i)] = pingPassed[d + i] BY <1>2, <3>1
    <3>4. part[i] = tcpAll[tested + i] BY <1>6, <2>1
    <3> QED BY <3>1, <3>2, <3>3, <3>4
  <2> QED BY <1>4, <1>6, <2>1, <2>2, SeqEqual
<1>8. ToSet(batch) = Elements(batch) /\ Elements(batch) \subseteq Lines
  BY <1>4, ElementsToSet, ElementsType
<1>9. Elements(batch) \subseteq ToSet(Unique[Proto])
  <2>1. Elements(pingPassed) \subseteq ToSet(Unique[Proto]) BY <1>1, <1>2, ElementsToSet
  <2>2. \A i \in 1 .. Len(batch) : batch[i] = pingPassed[d + i] /\ d + i \in 1 .. n
    BY <1>1, <1>3, <1>4
  <2> QED BY <2>1, <2>2 DEF Elements, n
<1>10. \A l \in Elements(batch) : outcome[l] = NotYet
  <2>1. \A k \in 1 .. N : IF k <= tested THEN outcome[tcpAll[k]] \in Outcomes
                                         ELSE outcome[tcpAll[k]] = NotYet
    BY DEF JudgeInv, TcpInv, N
  <2>2. \A k \in tested + 1 .. t : k \in 1 .. N /\ ~(k <= tested) BY <1>1, <1>5
  <2> QED BY <1>6, <1>7, <2>1, <2>2
<1> QED BY <1>1, <1>4, <1>5, <1>6, <1>7, <1>8, <1>9, <1>10, LenProperties DEF n, m, e, batch, N, t, part

(* What a test batch does to the outcomes. *)
LEMMA TestOutcomes ==
  ASSUME JudgeInv, TestBatch
  PROVE  \E res :
    LET batch == Slice(pingPassed, batchIdx, BatchSize)
    IN  /\ res \in [Elements(batch) -> Outcomes]
        /\ \A l \in Elements(batch) : outcome'[l] = res[l]
        /\ \A l \in Lines \ Elements(batch) : outcome'[l] = outcome[l]
        /\ outcome' \in [Lines -> Outcomes \cup {NotYet, Unreachable}]
        /\ out' = out \o Select(batch, Passing(res))
        /\ count' = [c \in Counters |-> count[c] + Len(Select(batch, CountedAs(res, c)))]
        /\ fails' = [fails EXCEPT ![Proto] =
                       [c \in Causes |-> @[c] + Len(Select(batch, FailingFor(res, c)))]]
        /\ samples' = [samples EXCEPT ![Proto] =
                       [c \in Causes |-> FirstSamples(@[c] \o Select(batch, FailingFor(res, c)))]]
<1> DEFINE batch == Slice(pingPassed, batchIdx, BatchSize)
<1>1. PICK res \in [ToSet(batch) -> Outcomes] :
        /\ out' = out \o Select(batch, Passing(res))
        /\ count' = [c \in Counters |-> count[c] + Len(Select(batch, CountedAs(res, c)))]
        /\ fails' = [fails EXCEPT ![Proto] =
                       [c \in Causes |-> @[c] + Len(Select(batch, FailingFor(res, c)))]]
        /\ samples' = [samples EXCEPT ![Proto] =
                       [c \in Causes |-> FirstSamples(@[c] \o Select(batch, FailingFor(res, c)))]]
        /\ outcome' = [l \in Lines |-> IF l \in ToSet(batch) THEN res[l] ELSE outcome[l]]
  BY DEF TestBatch
<1>2. ToSet(batch) = Elements(batch) /\ Elements(batch) \subseteq Lines
  BY TestPart DEF TestBatch
<1>3. outcome \in [Lines -> Outcomes \cup {NotYet, Unreachable}] BY DEF JudgeInv, TypeOK
<1> HIDE DEF batch
<1>4. outcome' = [l \in Lines |-> IF l \in Elements(batch) THEN res[l] ELSE outcome[l]]
  BY <1>1, <1>2
<1>5. /\ res \in [Elements(batch) -> Outcomes]
      /\ \A l \in Elements(batch) : outcome'[l] = res[l]
      /\ \A l \in Lines \ Elements(batch) : outcome'[l] = outcome[l]
      /\ outcome' \in [Lines -> Outcomes \cup {NotYet, Unreachable}]
  BY <1>1, <1>2, <1>3, <1>4
<1> QED BY <1>1, <1>5 DEF batch

LEMMA TestBatchStep == JudgeInv /\ TestBatch => JudgeInv'
<1> SUFFICES ASSUME JudgeInv, TestBatch PROVE JudgeInv' OBVIOUS
<1> DEFINE n == Len(pingPassed)
           e == Reach(n, batchIdx + 1, BatchSize)
           batch == Slice(pingPassed, batchIdx, BatchSize)
           t == tested + Len(batch)
           N == Len(tcpAll)
<1>1. /\ stage = "test" /\ batchIdx < NumBatches(n, BatchSize) /\ batchIdx' = batchIdx + 1
      /\ tested' = t
      /\ UNCHANGED <<stage, pi, order, pb, pingPassed, pingFailed, tcpAll, rows>>
  BY DEF TestBatch, loop, pingVars
<1>2. PICK res :
        /\ res \in [Elements(batch) -> Outcomes]
        /\ \A l \in Elements(batch) : outcome'[l] = res[l]
        /\ \A l \in Lines \ Elements(batch) : outcome'[l] = outcome[l]
        /\ outcome' \in [Lines -> Outcomes \cup {NotYet, Unreachable}]
        /\ out' = out \o Select(batch, Passing(res))
        /\ count' = [c \in Counters |-> count[c] + Len(Select(batch, CountedAs(res, c)))]
        /\ fails' = [fails EXCEPT ![Proto] =
                       [c \in Causes |-> @[c] + Len(Select(batch, FailingFor(res, c)))]]
        /\ samples' = [samples EXCEPT ![Proto] =
                       [c \in Causes |-> FirstSamples(@[c] \o Select(batch, FailingFor(res, c)))]]
  BY TestOutcomes
<1>3. /\ batch \in Seq(Lines) /\ Distinct(batch) /\ Len(batch) \in Nat
      /\ Elements(batch) \subseteq Lines /\ Elements(batch) \subseteq ToSet(Unique[Proto])
      /\ t \in tested + 1 .. N /\ t = Earlier + e
      /\ batch = SubSeq(tcpAll, tested + 1, t)
      /\ Elements(batch) = {tcpAll[k] : k \in tested + 1 .. t}
      /\ \A l \in Elements(batch) : outcome[l] = NotYet
  BY <1>1, TestPart
<1>16. batch \in Seq(Lines) /\ t \in tested + 1 .. N BY <1>3
<1>4. TypeOK /\ TestInv /\ TcpInv /\ ProtoInv BY DEF JudgeInv
<1>5. /\ pi \in 1 .. Len(ProtocolOrder) /\ Proto \in Protocols
  BY <1>1, <1>4, OrderTypes DEF JudgeInv, Control, TypeOK, Proto
<1>6. /\ pingPassed \in Seq(Lines) /\ n \in Nat /\ batchIdx \in Nat
      /\ tcpAll \in Seq(Lines) /\ N \in Nat /\ tested \in Nat /\ out \in Seq(Lines)
  BY <1>4, LenProperties DEF TypeOK
<1>7. Earlier' = Earlier BY <1>1 DEF Earlier
<1>8. batchIdx' <= NumBatches(n, BatchSize)
  <2>1. NumBatches(n, BatchSize) \in Nat BY <1>6, Sizes, Batches
  <2> QED BY <1>1, <1>6, <2>1
<1> HIDE DEF n, e, batch, t, N
<1>9. \A K : Select(batch, K) \in Seq(Lines) /\ Len(Select(batch, K)) \in Nat
  <2> SUFFICES ASSUME NEW K PROVE Select(batch, K) \in Seq(Lines) OBVIOUS
  <2>1. Select(batch, K) \in Seq(Lines \cap K) BY <1>3, SelectType
  <2> QED BY <2>1, SeqMonotonic
<1>10. TypeOK'
  <2>1. out' \in Seq(Lines) BY <1>2, <1>6, <1>9, ConcatProperties
  <2>2. count' \in [Counters -> Nat] BY <1>2, <1>4, <1>9 DEF TypeOK
  <2>3. fails' \in [Protocols -> [Causes -> Nat]]
    <3>1. fails[Proto] \in [Causes -> Nat] BY <1>4, <1>5 DEF TypeOK
    <3>2. [c \in Causes |-> fails[Proto][c] + Len(Select(batch, FailingFor(res, c)))]
            \in [Causes -> Nat]
      BY <1>9, <3>1
    <3> QED BY <1>2, <1>4, <1>5, <3>2 DEF TypeOK
  <2>4. samples' \in [Protocols -> [Causes -> Seq(Lines)]]
    <3>1. \A c \in Causes : samples[Proto][c] \in Seq(Lines) BY <1>4, <1>5 DEF TypeOK
    <3>2. \A s \in Seq(Lines) : FirstSamples(s) \in Seq(Lines)
      <4> SUFFICES ASSUME NEW s \in Seq(Lines) PROVE FirstSamples(s) \in Seq(Lines) OBVIOUS
      <4>1. Len(s) \in Nat /\ SampleCap \in Nat /\ \A i \in 1 .. Len(s) : s[i] \in Lines
        BY ValidationAssumption, LenProperties
      <4>2. Min({SampleCap, Len(s)}) \in 0 .. Len(s) BY <4>1, MinOfTwo
      <4> DEFINE c == Min({SampleCap, Len(s)})
      <4> HIDE DEF c
      <4>3. c \in 0 .. Len(s) BY <4>2 DEF c
      <4>4. \A i \in 1 .. c : s[i] \in Lines BY <4>1, <4>3
      <4>5. SubSeq(s, 1, c) \in Seq(Lines) BY <4>1, <4>3, <4>4, SubSeqProperties
      <4> QED BY <4>5 DEF FirstSamples, c
    <3>3. \A c \in Causes :
            samples[Proto][c] \o Select(batch, FailingFor(res, c)) \in Seq(Lines)
      BY <1>9, <3>1, ConcatProperties
    <3>4. [c \in Causes |-> FirstSamples(samples[Proto][c] \o Select(batch, FailingFor(res, c)))]
            \in [Causes -> Seq(Lines)]
      BY <3>2, <3>3
    <3> QED BY <1>2, <1>4, <1>5, <3>4 DEF TypeOK
  <2>5. tested' \in Nat
    <3>1. t \in Nat BY <1>6, <1>16
    <3> QED BY <1>1, <3>1
  <2> QED BY <1>1, <1>2, <1>4, <1>6, <2>1, <2>2, <2>3, <2>4, <2>5 DEF TypeOK
<1>11. Control' BY <1>1, <1>8 DEF JudgeInv, Control, Proto, n
<1>12. PingInv' BY <1>1 DEF PingInv
<1>13. TestInv'
  <2>1. \A l \in ToSet(Unique[Proto]) : outcome'[l] # Unreachable <=> outcome[l] # Unreachable
    <3> SUFFICES ASSUME NEW l \in ToSet(Unique[Proto])
                 PROVE  outcome'[l] # Unreachable <=> outcome[l] # Unreachable
      OBVIOUS
    <3>1. l \in Lines BY <1>5, LinesOf
    <3> QED BY <1>2, <1>3, <3>1, Kinds
  <2>2. ToSet(pingPassed) = {l \in ToSet(Unique[Proto]) : outcome'[l] # Unreachable}
    BY <1>1, <1>4, <2>1 DEF TestInv
  <2> QED BY <1>1, <1>3, <1>4, <1>7, <2>2 DEF TestInv, Proto, n, e
<1>14. TcpInv'
  <2> DEFINE P == {l \in Lines : outcome[l] = Pass}
             Q == {l \in Lines : outcome'[l] = Pass}
             A == SubSeq(tcpAll, 1, tested)
             C == SubSeq(tcpAll, t + 1, N)
  <2>1. /\ Distinct(tcpAll) /\ tested <= N /\ out = Select(tcpAll, P)
        /\ \A k \in 1 .. N : IF k <= tested THEN outcome[tcpAll[k]] \in Outcomes
                                            ELSE outcome[tcpAll[k]] = NotYet
    BY <1>4 DEF TcpInv, N
  <2>2. \A k \in 1 .. N : tcpAll[k] \in Lines BY <1>6, LenProperties DEF N
  <2>3. \A k \in 1 .. N : tcpAll[k] \in Elements(batch) <=> k \in tested + 1 .. t
    <3>1. \A k, l \in 1 .. N : tcpAll[k] = tcpAll[l] => k = l BY <2>1 DEF Distinct, N
    <3>2. \A k \in tested + 1 .. t : k \in 1 .. N BY <1>6, <1>16
    <3>3. Elements(batch) = {tcpAll[k] : k \in tested + 1 .. t} BY <1>3
    <3> QED BY <3>1, <3>2, <3>3
  <2>4. \A k \in 1 .. N : IF k <= t THEN outcome'[tcpAll[k]] \in Outcomes
                                    ELSE outcome'[tcpAll[k]] = NotYet
    <3> SUFFICES ASSUME NEW k \in 1 .. N
                 PROVE IF k <= t THEN outcome'[tcpAll[k]] \in Outcomes
                                 ELSE outcome'[tcpAll[k]] = NotYet
      OBVIOUS
    <3>1. CASE k \in tested + 1 .. t
      <4>1. tcpAll[k] \in Elements(batch) BY <2>3, <3>1
      <4>2. outcome'[tcpAll[k]] \in Outcomes BY <1>2, <4>1
      <4> QED BY <3>1, <4>2
    <3>2. CASE k \notin tested + 1 .. t
      <4>1. outcome'[tcpAll[k]] = outcome[tcpAll[k]] BY <1>2, <2>2, <2>3, <3>2
      <4>2. k <= tested <=> k <= t BY <1>3, <1>6, <3>2
      <4> QED BY <2>1, <4>1, <4>2
    <3> QED BY <3>1, <3>2
  <2>5. /\ A \in Seq(Lines) /\ Elements(A) = {tcpAll[k] : k \in 1 .. tested}
        /\ C \in Seq(Lines) /\ Elements(C) = {tcpAll[k] : k \in t + 1 .. N}
    <3>1. tested \in 1 - 1 .. Len(tcpAll) /\ t + 1 \in Nat \ {0} /\ N \in (t + 1) - 1 .. Len(tcpAll)
      BY <1>3, <1>6, <2>1, SMTT(30) DEF N
    <3>2. A \in Seq(Lines) /\ Elements(A) = {tcpAll[k] : k \in 1 .. tested}
      BY <1>6, <3>1, PartOf
    <3>3. C \in Seq(Lines) /\ Elements(C) = {tcpAll[k] : k \in t + 1 .. N}
      BY <1>6, <3>1, PartOf
    <3> QED BY <3>2, <3>3
  <2>6. tcpAll = (A \o batch) \o C
    <3>1. /\ 1 \in 1 .. Len(tcpAll) + 1 /\ tested \in 1 - 1 .. Len(tcpAll)
          /\ t \in tested .. Len(tcpAll) /\ t \in 1 - 1 .. Len(tcpAll)
          /\ N \in t .. Len(tcpAll)
      BY <1>3, <1>6, <2>1 DEF N
    <3>2. A \o batch = SubSeq(tcpAll, 1, t) BY <1>3, <1>6, <3>1, ConcatAdjacentSubSeq
    <3>3. SubSeq(tcpAll, 1, t) \o C = SubSeq(tcpAll, 1, N)
      BY <1>6, <3>1, ConcatAdjacentSubSeq
    <3>4. SubSeq(tcpAll, 1, N) = tcpAll BY <1>6, SubSeqFull DEF N
    <3> QED BY <3>2, <3>3, <3>4
  <2> HIDE DEF A, C
  <2>7. Elements(A) \cap Q = Elements(A) \cap P
    <3>1. \A k \in 1 .. tested : k \in 1 .. N /\ k \notin tested + 1 .. t
      BY <1>6, <2>1
    <3>2. \A k \in 1 .. tested : tcpAll[k] \in Lines \ Elements(batch)
      BY <2>2, <2>3, <3>1
    <3> QED BY <1>2, <2>5, <3>2
  <2>8. Elements(C) \cap Q = {} /\ Elements(C) \cap P = {}
    <3>1. \A k \in t + 1 .. N : k \in 1 .. N /\ ~(k <= t) /\ ~(k <= tested)
      BY <1>3, <1>6
    <3>2. \A k \in t + 1 .. N : outcome[tcpAll[k]] = NotYet /\ outcome'[tcpAll[k]] = NotYet
      BY <2>1, <2>4, <3>1
    <3> QED BY <2>5, <3>2, Kinds DEF Outcomes
  <2>9. Elements(batch) \cap P = {} BY <1>3, Kinds DEF Outcomes
  <2>10. Elements(batch) \cap Q = Elements(batch) \cap Passing(res)
    BY <1>2, <1>3 DEF Passing
  <2> HIDE DEF P, Q
  <2>11. /\ Select(A, Q) = Select(A, P) /\ Select(batch, P) = << >>
         /\ Select(C, Q) = << >> /\ Select(C, P) = << >>
         /\ Select(batch, Q) = Select(batch, Passing(res))
    <3>1. Select(A, Q) = Select(A, P) BY <2>5, <2>7, SelectAgree
    <3>2. Select(batch, P) = << >> BY <1>3, <2>9, SelectNone
    <3>3. Select(C, Q) = << >> BY <2>5, <2>8, SelectNone
    <3>4. Select(C, P) = << >> BY <2>5, <2>8, SelectNone
    <3>5. Select(batch, Q) = Select(batch, Passing(res)) BY <1>3, <2>10, SelectAgree, ZenonT(60)
    <3> QED BY <3>1, <3>2, <3>3, <3>4, <3>5
  <2>12. A \o batch \in Seq(Lines) BY <1>3, <2>5, ConcatProperties
  <2>13. \A K : Select(tcpAll, K) = (Select(A, K) \o Select(batch, K)) \o Select(C, K)
    <3> SUFFICES ASSUME NEW K
                 PROVE Select(tcpAll, K) = (Select(A, K) \o Select(batch, K)) \o Select(C, K)
      OBVIOUS
    <3>1. Select((A \o batch) \o C, K) = Select(A \o batch, K) \o Select(C, K)
      BY <2>5, <2>12, SelectConcat
    <3>2. Select(A \o batch, K) = Select(A, K) \o Select(batch, K)
      <4>1. A \in Seq(Lines) BY <2>5
      <4> QED BY <1>16, <4>1, SelectConcat
    <3> QED BY <2>6, <3>1, <3>2
  <2>14. Select(A, P) \in Seq(Lines)
    <3>1. Select(A, P) \in Seq(Lines \cap P) BY <2>5, SelectType
    <3> QED BY <3>1, SeqMonotonic
  <2>15. out = Select(A, P)
    <3>1. out = (Select(A, P) \o << >>) \o << >> BY <2>1, <2>11, <2>13
    <3> QED BY <2>14, <3>1, ConcatEmptySeq
  <2>16. Select(tcpAll, Q) = out \o Select(batch, Passing(res))
    <3>1. Select(tcpAll, Q) = (Select(A, P) \o Select(batch, Passing(res))) \o << >>
      BY <2>11, <2>13
    <3>2. Select(A, P) \o Select(batch, Passing(res)) \in Seq(Lines)
      BY <1>9, <2>14, ConcatProperties
    <3> QED BY <2>15, <3>1, <3>2, ConcatEmptySeq
  <2>17. t <= N BY <1>3, <1>6
  <2> QED BY <1>1, <1>2, <2>1, <2>4, <2>16, <2>17 DEF TcpInv, Q, N
<1>15. ProtoInv'
  <2>1. Reached = pi /\ Reached' = pi BY <1>1 DEF Reached
  <2>2. \A k \in 1 .. Len(ProtocolOrder) : \A l \in ToSet(Unique[ProtocolOrder[k]]) :
          k # pi => l \in Lines \ Elements(batch)
    BY <1>3, <1>5, OrderTypes, LinesOf DEF Proto
  <2>3. \A k \in 1 .. Len(ProtocolOrder) : \A l \in ToSet(Unique[ProtocolOrder[k]]) :
          k # pi => outcome'[l] = outcome[l]
    BY <1>2, <2>2
  <2> QED BY <1>1, <1>4, <1>5, <2>1, <2>3 DEF ProtoInv
<1> QED BY <1>10, <1>11, <1>12, <1>13, <1>14, <1>15 DEF JudgeInv

(* At the end of its tests every line of the protocol has been judged.     *)
LEMMA TestsComplete ==
  ASSUME JudgeInv, stage = "test", batchIdx = NumBatches(Len(pingPassed), BatchSize)
  PROVE  /\ tested = Len(tcpAll)
         /\ \A l \in ToSet(Unique[Proto]) : outcome[l] # NotYet
<1> DEFINE n == Len(pingPassed)
<1>1. /\ n \in Nat /\ Len(tcpAll) \in Nat /\ batchIdx \in Nat /\ pingPassed \in Seq(Lines)
  BY LenProperties DEF JudgeInv, TypeOK
<1>2. Reach(n, batchIdx, BatchSize) = n BY <1>1, Sizes, ReachBounds
<1>3. /\ Earlier >= 0 /\ tested = Earlier + Reach(n, batchIdx, BatchSize)
      /\ ToSet(pingPassed) = {l \in ToSet(Unique[Proto]) : outcome[l] # Unreachable}
      /\ \A k \in 1 .. n : tcpAll[Earlier + k] = pingPassed[k]
  BY DEF JudgeInv, TestInv
<1>4. tested = Len(tcpAll) /\ Earlier + n = Len(tcpAll) /\ Earlier \in Nat
  BY <1>1, <1>2, <1>3 DEF Earlier
<1>5. \A k \in 1 .. Len(tcpAll) : outcome[tcpAll[k]] \in Outcomes
  BY <1>4 DEF JudgeInv, TcpInv
<1> HIDE DEF n
<1>6. \A k \in 1 .. n : Earlier + k \in 1 .. Len(tcpAll) BY <1>1, <1>4
<1>7. \A k \in 1 .. n : outcome[pingPassed[k]] \in Outcomes BY <1>3, <1>5, <1>6
<1>8. \A l \in ToSet(pingPassed) : outcome[l] \in Outcomes
  BY <1>1, <1>7, ElementsToSet DEF Elements, n
<1> QED BY <1>3, <1>4, <1>8, Kinds

LEMMA EndTestStep == JudgeInv /\ EndTest => JudgeInv'
<1> SUFFICES ASSUME JudgeInv, EndTest PROVE JudgeInv' OBVIOUS
<1>1. /\ stage = "test" /\ batchIdx = NumBatches(Len(pingPassed), BatchSize)
      /\ stage' = "proto" /\ pi' = pi + 1
      /\ UNCHANGED <<pingVars, batchIdx, tcpAll, tally, rows, outcome>>
  BY DEF EndTest
<1>2. pi \in 1 .. Len(ProtocolOrder)
  BY <1>1, OrderTypes DEF JudgeInv, Control, TypeOK
<1>3. tested = Len(tcpAll) /\ \A l \in ToSet(Unique[Proto]) : outcome[l] # NotYet
  BY <1>1, TestsComplete
<1>4. TypeOK' BY <1>1, <1>2, OrderTypes DEF JudgeInv, TypeOK, pingVars, tally
<1>5. Control' /\ PingInv' /\ TestInv' BY <1>1 DEF Control, PingInv, TestInv
<1>6. TcpInv' BY <1>1, <1>3 DEF JudgeInv, TcpInv, tally
<1>7. ProtoInv'
  <2>1. Reached = pi /\ Reached' = pi BY <1>1, <1>2 DEF Reached
  <2>2. ProtoInv BY DEF JudgeInv
  <2> QED BY <1>1, <1>2, <1>3, <2>1, <2>2 DEF ProtoInv, Proto
<1> QED BY <1>4, <1>5, <1>6, <1>7 DEF JudgeInv

LEMMA ReportStep == JudgeInv /\ Report => JudgeInv'
<1> SUFFICES ASSUME JudgeInv, Report PROVE JudgeInv' OBVIOUS
<1>1. /\ stage = "proto" /\ stage' = "done" /\ pi > Len(ProtocolOrder)
      /\ UNCHANGED <<pi, pingVars, batchIdx, tcpAll, tally, outcome>>
  BY DEF Report
<1>2. TypeOK' BY <1>1 DEF JudgeInv, TypeOK, pingVars, tally
<1>3. Control' BY <1>1, OrderTypes DEF JudgeInv, TypeOK, Control
<1>4. PingInv' /\ TestInv' BY <1>1 DEF PingInv, TestInv
<1>5. TcpInv' BY <1>1 DEF JudgeInv, TcpInv, tally
<1>6. ProtoInv' BY <1>1 DEF JudgeInv, ProtoInv, Reached
<1> QED BY <1>2, <1>3, <1>4, <1>5, <1>6 DEF JudgeInv

LEMMA JudgeStutter == JudgeInv /\ UNCHANGED vars => JudgeInv'
<1> SUFFICES ASSUME JudgeInv, UNCHANGED vars PROVE JudgeInv' OBVIOUS
<1> USE DEF vars, loop, pingVars, tally
<1>1. TypeOK' BY DEF JudgeInv, TypeOK
<1>2. Control' BY DEF JudgeInv, Control, Proto, PingSize
<1>3. PingInv' BY DEF JudgeInv, PingInv, Pinged, PingSize, Answering
<1>4. TestInv' BY DEF JudgeInv, TestInv, Earlier, Proto
<1>5. TcpInv' BY DEF JudgeInv, TcpInv
<1>6. ProtoInv' BY DEF JudgeInv, ProtoInv, Reached
<1> QED BY <1>1, <1>2, <1>3, <1>4, <1>5, <1>6 DEF JudgeInv

LEMMA JudgeNext == JudgeInv /\ [Next]_vars => JudgeInv'
BY SkipProtoStep, StartProtoStep, PingBatchStep, EndPingStep, TestBatchStep, EndTestStep,
   ReportStep, JudgeStutter DEF Next, Finished

(* The positions tell what has been judged, in every state. *)
THEOREM JudgeInvariant == Spec => []JudgeInv
BY JudgeInit, JudgeNext, PTL DEF Spec

(* The variables of validateAll keep their types, for any protocols, batch *)
(* sizes and reasons.                                                      *)
THEOREM TypeCorrect == Spec => []TypeOK
<1>1. JudgeInv => TypeOK BY DEF JudgeInv
<1> QED BY <1>1, JudgeInvariant, PTL

(* The hand-made batches of both phases lose nothing and do nothing twice, *)
(* and what is published are the lines that passed, in the order in which  *)
(* they answered.                                                          *)
THEOREM LinesJudgedOnce == Spec => []JudgedOnce
<1>1. JudgeInv => JudgedOnce
  <2> SUFFICES ASSUME JudgeInv PROVE JudgedOnce OBVIOUS
  <2>1. CASE stage = "test" BY <2>1 DEF JudgeInv, TestInv, JudgedOnce
  <2>2. CASE stage = "done"
    <3>1. tested = Len(tcpAll) /\ out = Select(tcpAll, {l \in Lines : outcome[l] = Pass})
      BY <2>2 DEF JudgeInv, TcpInv
    <3>2. ASSUME NEW p \in Reported, NEW l \in ToSet(Unique[p]) PROVE outcome[l] # NotYet
      <4>1. PICK k \in 1 .. Len(ProtocolOrder) : p = ProtocolOrder[k]
        BY OrderTypes DEF Reported, ToSet
      <4>2. pi = Len(ProtocolOrder) + 1 BY <2>2 DEF JudgeInv, Control
      <4>3. k < pi BY <4>1, <4>2, OrderTypes
      <4> QED BY <4>1, <4>3 DEF JudgeInv, ProtoInv
    <3> QED BY <2>2, <3>1, <3>2 DEF JudgedOnce
  <2> QED BY <2>1, <2>2 DEF JudgedOnce
<1> QED BY <1>1, JudgeInvariant, PTL

-----------------------------------------------------------------------------
(* Every counter is the number of lines with the outcomes it counts.       *)

(* What a batch adds to a counter is what it adds to the set of lines.     *)
LEMMA Grows ==
  ASSUME NEW S, NEW s \in Seq(S), Distinct(s), NEW K,
         NEW old, IsFiniteSet(old), old \cap Elements(s) = {}
  PROVE  Cardinality(old \cup (Elements(s) \cap K)) = Cardinality(old) + Len(Select(s, K))
<1> DEFINE more == Elements(s) \cap K
<1>1. Len(Select(s, K)) = Cardinality(more) BY SelectLen
<1>2. IsFiniteSet(Elements(s)) /\ more \in SUBSET Elements(s) BY DistinctLen
<1>3. IsFiniteSet(more) /\ old \cap more = {} BY <1>2, FS_Subset
<1> HIDE DEF more
<1>4. Cardinality(old \cup more) = Cardinality(old) + Cardinality(more) BY <1>3, DisjointCount
<1> QED BY <1>1, <1>4 DEF more

(* The counter and the section of a reason. *)
LEMMA Sections ==
  /\ \A r \in Reasons :
       /\ Classify(r)[1] \in {"PARSE", "START", "CONN", "OTHER"}
       /\ CounterOf(r) = CASE Classify(r)[1] = "PARSE" -> "parse"
                           [] Classify(r)[1] = "START" -> "start"
                           [] OTHER -> "conn"
  /\ CounterOf(Pass) = "passed"
  /\ \A r \in Outcomes : CounterOf(r) = "passed" => r = Pass
<1>1. ASSUME NEW r \in Reasons
      PROVE  /\ Classify(r)[1] \in {"PARSE", "START", "CONN", "OTHER"}
             /\ CounterOf(r) = CASE Classify(r)[1] = "PARSE" -> "parse"
                                 [] Classify(r)[1] = "START" -> "start"
                                 [] OTHER -> "conn"
             /\ CounterOf(r) # "passed"
  <2>1. r # Pass BY Kinds
  <2>2. r.kind \in {"PARSE", "FILE", "START", "SINGBOX_START", "CONN"} BY ValidationAssumption
  <2>3. CASE r.kind = "PARSE"
    <3>1. Classify(r)[1] = "PARSE" BY <2>3 DEF Classify
    <3>2. CounterOf(r) = "parse" BY <2>1, <2>3 DEF CounterOf, Counter
    <3> QED BY <3>1, <3>2
  <2>4. CASE r.kind \in {"START", "SINGBOX_START"}
    <3>1. Classify(r)[1] = "START" BY <2>4 DEF Classify
    <3>2. CounterOf(r) = "start" BY <2>1, <2>4 DEF CounterOf, Counter
    <3> QED BY <3>1, <3>2
  <2>5. CASE r.kind = "CONN"
    <3>1. Classify(r)[1] = "CONN" BY <2>5 DEF Classify
    <3>2. CounterOf(r) = "conn" BY <2>1, <2>5 DEF CounterOf, Counter
    <3> QED BY <3>1, <3>2
  <2>6. CASE r.kind = "FILE"
    <3>1. Classify(r)[1] = "OTHER" BY <2>6 DEF Classify
    <3>2. CounterOf(r) = "conn" BY <2>1, <2>6 DEF CounterOf, Counter
    <3> QED BY <3>1, <3>2
  <2> QED BY <2>2, <2>3, <2>4, <2>5, <2>6
<1>2. CounterOf(Pass) = "passed" BY DEF CounterOf
<1> QED BY <1>1, <1>2 DEF Outcomes

LEMMA FiniteParts ==
  /\ IsFiniteSet(Judged)
  /\ \A x : IsFiniteSet(Counted(x))
  /\ \A p \in Protocols : IsFiniteSet(FailedOf(p)) /\ FailedOf(p) \subseteq ToSet(Unique[p])
  /\ \A p \in Protocols : \A c : IsFiniteSet(FailedFor(p, c))
<1>1. Judged \in SUBSET Lines BY DEF Judged
<1>2. IsFiniteSet(Judged) BY <1>1, LinesOf, FS_Subset
<1>3. \A x : Counted(x) \in SUBSET Judged BY DEF Counted
<1>4. \A p : FailedOf(p) \in SUBSET ToSet(Unique[p]) BY DEF FailedOf
<1>5. \A p \in Protocols : IsFiniteSet(FailedOf(p)) BY <1>4, LinesOf, FS_Subset
<1>6. \A p, c : FailedFor(p, c) \in SUBSET FailedOf(p) BY DEF FailedFor
<1> QED BY <1>2, <1>3, <1>4, <1>5, <1>6, FS_Subset

LEMMA CountInit == Init => CountInv
<1> SUFFICES ASSUME Init PROVE CountInv OBVIOUS
<1>1. Judged = {} BY Kinds DEF Init, Judged
<1>2. \A x : Counted(x) = {} BY <1>1 DEF Counted
<1>3. \A p \in Protocols : \A c : FailedFor(p, c) = {}
  <2>1. \A p \in Protocols : FailedOf(p) = {} BY Kinds, LinesOf DEF Init, FailedOf, Outcomes
  <2> QED BY <2>1 DEF FailedFor
<1>4. Cardinality({}) = 0 BY FS_EmptySet
<1>5. \A x \in Counters : count[x] = Cardinality(Counted(x)) BY <1>2, <1>4 DEF Init
<1>6. \A p \in Protocols : \A c \in Causes : fails[p][c] = Cardinality(FailedFor(p, c))
  BY <1>3, <1>4 DEF Init
<1>7. count["passed"] = Len(out) /\ tested = 0 BY EmptySeq DEF Init, Counters
<1> QED BY <1>1, <1>4, <1>5, <1>6, <1>7 DEF CountInv

(* A step after which the same lines have been tested, with the same       *)
(* results, and that leaves the counters alone.                            *)
LEMMA CountSame ==
  ASSUME CountInv, UNCHANGED <<count, fails, out, tested>>,
         \A l \in Lines : \/ outcome'[l] = outcome[l]
                          \/ outcome[l] \notin Outcomes /\ outcome'[l] \notin Outcomes
  PROVE  CountInv'
<1>1. Judged' = Judged BY DEF Judged
<1>2. \A x : Counted(x)' = Counted(x) BY <1>1 DEF Counted, Judged
<1>3. \A p \in Protocols : \A c : FailedFor(p, c)' = FailedFor(p, c)
  <2> SUFFICES ASSUME NEW p \in Protocols, NEW c PROVE FailedFor(p, c)' = FailedFor(p, c)
    OBVIOUS
  <2>1. ToSet(Unique[p]) \subseteq Lines BY LinesOf
  <2>2. FailedOf(p)' = FailedOf(p) BY <2>1 DEF FailedOf, Outcomes
  <2>3. \A l \in FailedOf(p) : outcome'[l] = outcome[l] BY <2>1 DEF FailedOf, Outcomes
  <2> QED BY <2>2, <2>3 DEF FailedFor
<1> QED BY <1>1, <1>2, <1>3 DEF CountInv

LEMMA CountPing == JudgeInv /\ CountInv /\ PingBatch => CountInv'
<1> SUFFICES ASSUME JudgeInv, CountInv, PingBatch PROVE CountInv' OBVIOUS
<1> DEFINE lines == Slice(order, pb, PingSize)
<1>1. PICK up \in SUBSET ToSet(lines) :
        outcome' = [l \in Lines |-> IF l \in ToSet(lines) \ up THEN Unreachable ELSE outcome[l]]
  BY DEF PingBatch
<1>2. \A l \in ToSet(lines) : outcome[l] = NotYet
  <2>1. stage = "ping" /\ pb < NumBatches(Len(order), PingSize) BY DEF PingBatch
  <2> QED BY <2>1, PingPart
<1>3. UNCHANGED <<count, fails, out, tested>> BY DEF PingBatch, tally
<1> HIDE DEF lines
<1>4. \A l \in Lines : \/ outcome'[l] = outcome[l]
                       \/ outcome[l] \notin Outcomes /\ outcome'[l] \notin Outcomes
  BY <1>1, <1>2, Kinds
<1> QED BY <1>3, <1>4, CountSame

LEMMA CountTest == JudgeInv /\ CountInv /\ TestBatch => CountInv'
<1> SUFFICES ASSUME JudgeInv, CountInv, TestBatch PROVE CountInv' OBVIOUS
<1> DEFINE batch == Slice(pingPassed, batchIdx, BatchSize)
<1>1. PICK res :
        /\ res \in [Elements(batch) -> Outcomes]
        /\ \A l \in Elements(batch) : outcome'[l] = res[l]
        /\ \A l \in Lines \ Elements(batch) : outcome'[l] = outcome[l]
        /\ outcome' \in [Lines -> Outcomes \cup {NotYet, Unreachable}]
        /\ out' = out \o Select(batch, Passing(res))
        /\ count' = [c \in Counters |-> count[c] + Len(Select(batch, CountedAs(res, c)))]
        /\ fails' = [fails EXCEPT ![Proto] =
                       [c \in Causes |-> @[c] + Len(Select(batch, FailingFor(res, c)))]]
  BY TestOutcomes
<1>2. /\ stage = "test" /\ batchIdx < NumBatches(Len(pingPassed), BatchSize)
      /\ tested' = tested + Len(batch) /\ pi' = pi
  BY DEF TestBatch, loop
<1>3. /\ batch \in Seq(Lines) /\ Distinct(batch) /\ Len(batch) \in Nat
      /\ Elements(batch) \subseteq Lines /\ Elements(batch) \subseteq ToSet(Unique[Proto])
      /\ \A l \in Elements(batch) : outcome[l] = NotYet
  BY <1>2, TestPart
<1>4. TypeOK BY DEF JudgeInv
<1>5. Proto \in Protocols
  BY <1>2, <1>4, OrderTypes DEF JudgeInv, Control, TypeOK, Proto
<1> HIDE DEF batch
<1>6. batch \in Seq(Lines) /\ Distinct(batch) BY <1>3
<1> DEFINE B == Elements(batch)
<1>7. \A l \in B : l \notin Judged /\ l \in Judged' /\ l \in Lines
  BY <1>1, <1>3, Kinds DEF Judged
<1>8. \A l \in Lines : l \in Judged' <=> l \in Judged \/ l \in B
  BY <1>1, <1>7 DEF Judged
<1>9. Judged' = Judged \cup B BY <1>7, <1>8 DEF Judged
<1>10. Cardinality(Judged') = Cardinality(Judged) + Len(batch)
  <2>1. Judged \cap B = {} BY <1>7
  <2>2. IsFiniteSet(B) /\ Cardinality(B) = Len(batch) BY <1>6, DistinctLen
  <2> HIDE DEF B
  <2>3. Cardinality(Judged \cup B) = Cardinality(Judged) + Cardinality(B)
    BY <2>1, <2>2, FiniteParts, DisjointCount
  <2> QED BY <1>9, <2>2, <2>3
<1>11. ASSUME NEW x \in Counters PROVE count'[x] = Cardinality(Counted(x)')
  <2>1. Counted(x)' = Counted(x) \cup (B \cap CountedAs(res, x))
    <3>1. \A l \in Judged : outcome'[l] = outcome[l] BY <1>1, <1>7 DEF Judged
    <3>2. \A l \in B : l \in CountedAs(res, x) <=> CounterOf(outcome'[l]) = x
      BY <1>1 DEF CountedAs
    <3> QED BY <1>9, <3>1, <3>2 DEF Counted
  <2>2. Counted(x) \cap B = {} BY <1>7 DEF Counted
  <2>3. Cardinality(Counted(x) \cup (B \cap CountedAs(res, x)))
          = Cardinality(Counted(x)) + Len(Select(batch, CountedAs(res, x)))
    BY <1>6, <2>2, FiniteParts, Grows
  <2>4. count'[x] = count[x] + Len(Select(batch, CountedAs(res, x))) BY <1>1
  <2> QED BY <2>1, <2>3, <2>4 DEF CountInv
<1>12. ASSUME NEW c \in Causes PROVE fails'[Proto][c] = Cardinality(FailedFor(Proto, c)')
  <2>10. PICK p \in Protocols : p = Proto BY <1>5
  <2>1. p \in Protocols /\ B \subseteq ToSet(Unique[p]) /\ ToSet(Unique[p]) \subseteq Lines
    BY <1>3, <2>10, LinesOf
  <2>2. fails'[p][c] = fails[p][c] + Len(Select(batch, FailingFor(res, c)))
    BY <1>1, <1>4, <2>10 DEF TypeOK
  <2>3. Proto' = p BY <1>2, <2>10 DEF Proto
  <2>4. \A l \in ToSet(Unique[p]) : l \in FailedFor(p, c)' <=>
          l \in FailedFor(p, c) \/ l \in B \cap FailingFor(res, c)
    <3> SUFFICES ASSUME NEW l \in ToSet(Unique[p])
                 PROVE l \in FailedFor(p, c)' <=> l \in FailedFor(p, c) \/ l \in B \cap FailingFor(res, c)
      OBVIOUS
    <3>1. CASE l \in B
      <4>1. outcome'[l] = res[l] /\ res[l] \in Outcomes /\ outcome[l] = NotYet
        BY <1>1, <1>3, <3>1
      <4>2. l \notin FailedFor(p, c) BY <4>1, Kinds DEF FailedFor, FailedOf, Outcomes
      <4>3. l \in FailingFor(res, c) <=> res[l] # Pass /\ Classify(res[l]) = c
        BY <1>1, <3>1 DEF FailingFor
      <4>4. res[l] # Pass <=> res[l] \in Reasons BY <4>1, Kinds DEF Outcomes
      <4> QED BY <3>1, <4>1, <4>2, <4>3, <4>4 DEF FailedFor, FailedOf
    <3>2. CASE l \notin B
      <4>1. outcome'[l] = outcome[l] BY <1>1, <2>1, <3>2
      <4> QED BY <3>2, <4>1 DEF FailedFor, FailedOf
    <3> QED BY <3>1, <3>2
  <2>5. FailedFor(p, c)' = FailedFor(p, c) \cup (B \cap FailingFor(res, c))
    <3>1. FailedFor(p, c)' \subseteq ToSet(Unique[p]) /\ FailedFor(p, c) \subseteq ToSet(Unique[p])
      BY DEF FailedFor, FailedOf
    <3> QED BY <2>1, <2>4, <3>1
  <2>6. FailedFor(p, c) \cap B = {}
    BY <1>3, Kinds DEF FailedFor, FailedOf, Outcomes
  <2>7. Cardinality(FailedFor(p, c) \cup (B \cap FailingFor(res, c)))
          = Cardinality(FailedFor(p, c)) + Len(Select(batch, FailingFor(res, c)))
    BY <1>6, <2>1, <2>6, FiniteParts, Grows
  <2>8. fails[p][c] = Cardinality(FailedFor(p, c)) BY <2>1 DEF CountInv
  <2>9. fails'[p][c] = Cardinality(FailedFor(p, c)') BY <2>2, <2>5, <2>7, <2>8
  <2> QED BY <2>3, <2>9, <2>10
<1>13. ASSUME NEW p \in Protocols, p # Proto, NEW c \in Causes
       PROVE  fails'[p][c] = Cardinality(FailedFor(p, c)')
  <2>1. ToSet(Unique[p]) \subseteq Lines /\ ToSet(Unique[p]) \cap B = {}
    BY <1>3, <1>5, <1>13, LinesOf, ValidationAssumption
  <2>2. \A l \in ToSet(Unique[p]) : outcome'[l] = outcome[l] BY <1>1, <2>1
  <2>3. FailedFor(p, c)' = FailedFor(p, c) BY <2>2 DEF FailedFor, FailedOf
  <2>4. fails'[p][c] = fails[p][c] BY <1>1, <1>4, <1>5, <1>13 DEF TypeOK
  <2> QED BY <2>3, <2>4 DEF CountInv
<1>14. count'["passed"] = Len(out')
  <2>1. Passing(res) = CountedAs(res, "passed")
    BY <1>1, Sections DEF Passing, CountedAs
  <2>2. count'["passed"] = count["passed"] + Len(Select(batch, CountedAs(res, "passed")))
    BY <1>1 DEF Counters
  <2>3. out \in Seq(Lines) BY <1>4 DEF TypeOK
  <2>4. Select(batch, Passing(res)) \in Seq(Lines)
    <3>1. Select(batch, Passing(res)) \in Seq(Lines \cap Passing(res)) BY <1>6, SelectType
    <3> QED BY <3>1, SeqMonotonic
  <2>5. Len(out') = Len(out) + Len(Select(batch, Passing(res)))
    BY <1>1, <2>3, <2>4, ConcatProperties
  <2> QED BY <2>1, <2>2, <2>5 DEF CountInv
<1>15. tested' = Cardinality(Judged') BY <1>2, <1>10 DEF CountInv
<1>16. \A p \in Protocols : \A c \in Causes : fails'[p][c] = Cardinality(FailedFor(p, c)')
  <2>1. Proto' = Proto BY <1>2 DEF Proto
  <2> QED BY <1>12, <1>13, <2>1
<1> QED BY <1>11, <1>14, <1>15, <1>16 DEF CountInv

LEMMA CountNext == JudgeInv /\ CountInv /\ [Next]_vars => CountInv'
<1> SUFFICES ASSUME JudgeInv, CountInv, [Next]_vars PROVE CountInv' OBVIOUS
<1>1. CASE UNCHANGED <<tally, outcome>>
  <2>1. UNCHANGED <<count, fails, out, tested>> /\ outcome' = outcome BY <1>1 DEF tally
  <2> QED BY <2>1, CountSame
<1>2. SkipProto \/ StartProto \/ EndPing \/ EndTest \/ Report \/ UNCHANGED vars =>
        UNCHANGED <<tally, outcome>>
  BY DEF SkipProto, StartProto, EndPing, EndTest, Report, vars
<1> QED BY <1>1, <1>2, CountPing, CountTest DEF Next, Finished

(* The counters are the numbers of lines with the outcomes they count. *)
THEOREM CountInvariant == Spec => []CountInv
BY JudgeInvariant, CountInit, CountNext, PTL DEF Spec

-----------------------------------------------------------------------------
(* What the sums of the report stand for: the lines that failed for a      *)
(* cause in one of its sections.                                           *)
InSec(p, section) == {l \in FailedOf(p) : Classify(outcome[l])[1] = section}
AllIn(section) == {l \in Lines : /\ outcome[l] \in Reasons
                                 /\ Classify(outcome[l])[1] = section}

LEMMA SectionSum ==
  ASSUME JudgeInv, CountInv, NEW p \in Protocols, NEW C \in SUBSET Causes
  PROVE  SumFunctionOnSet(fails[p], C) = Cardinality({l \in FailedOf(p) : Classify(outcome[l]) \in C})
<1> DEFINE L == FailedOf(p)
           g == [l \in L |-> Classify(outcome[l])]
<1>1. IsFiniteSet(L) /\ IsFiniteSet(C) BY FiniteParts, CausesFinite, FS_Subset
<1>2. \A c \in C : FailedFor(p, c) = Mapped(L, g, {c}) BY DEF FailedFor, Mapped
<1>3. \A c \in C : fails[p][c] = Cardinality(Mapped(L, g, {c}))
  BY <1>2 DEF CountInv
<1>4. Mapped(L, g, C) = {l \in FailedOf(p) : Classify(outcome[l]) \in C} BY DEF Mapped
<1> HIDE DEF L, g
<1>5. SumFunctionOnSet(fails[p], C) = Cardinality(Mapped(L, g, C))
  BY <1>1, <1>3, SumIsCount
<1> QED BY <1>4, <1>5

LEMMA FailCause ==
  \A p \in Protocols : \A l \in FailedOf(p) :
    /\ Classify(outcome[l]) \in Causes
    /\ Classify(outcome[l])[1] \in {"PARSE", "START", "CONN", "OTHER"}
BY Sections DEF FailedOf, Causes

LEMMA SectionCount ==
  ASSUME JudgeInv, CountInv, NEW p \in Protocols, NEW section
  PROVE  InSection(p, section) = Cardinality(InSec(p, section))
<1> DEFINE C == {c \in Causes : c[1] = section}
<1>1. InSection(p, section) = SumFunctionOnSet(fails[p], C) BY DEF InSection
<1>2. {l \in FailedOf(p) : Classify(outcome[l]) \in C} = InSec(p, section)
  BY FailCause DEF InSec
<1>3. C \in SUBSET Causes OBVIOUS
<1> HIDE DEF C
<1> QED BY <1>1, <1>2, <1>3, SectionSum

LEMMA AllSectionCount ==
  ASSUME JudgeInv, CountInv, NEW section
  PROVE  /\ AllInSection(section) = Cardinality(AllIn(section))
         /\ IsFiniteSet(AllIn(section))
<1> DEFINE L == AllIn(section)
           owner == [l \in Lines |-> CHOOSE p \in Protocols : l \in ToSet(Unique[p])]
           f == [p \in Protocols |-> InSection(p, section)]
<1>1. L \in SUBSET Lines BY DEF AllIn
<1>2. IsFiniteSet(L) BY <1>1, LinesOf, FS_Subset
<1>3. ASSUME NEW l \in Lines
      PROVE  /\ owner[l] \in Protocols
             /\ \A p \in Protocols : owner[l] = p <=> l \in ToSet(Unique[p])
  <2>1. \E p \in Protocols : l \in ToSet(Unique[p]) BY DEF Lines
  <2>2. owner[l] \in Protocols /\ l \in ToSet(Unique[owner[l]]) BY <2>1
  <2> HIDE DEF owner
  <2> QED BY <2>2, ValidationAssumption
<1> HIDE DEF owner
<1>4. \A p \in Protocols : f[p] = Cardinality(Mapped(L, owner, {p}))
  <2> SUFFICES ASSUME NEW p \in Protocols PROVE f[p] = Cardinality(Mapped(L, owner, {p}))
    OBVIOUS
  <2>1. Mapped(L, owner, {p}) = InSec(p, section)
    BY <1>3, LinesOf DEF AllIn, InSec, FailedOf, Mapped
  <2> QED BY <2>1, SectionCount
<1>5. AllInSection(section) = SumFunctionOnSet(f, Protocols)
  <2>1. DOMAIN f = Protocols OBVIOUS
  <2>2. AllInSection(section) = SumFunction(f) BY DEF AllInSection
  <2> HIDE DEF f
  <2> QED BY <2>1, <2>2 DEF SumFunction
<1>6. Mapped(L, owner, Protocols) = L BY <1>1, <1>3 DEF Mapped
<1> HIDE DEF f, L
<1>7. SumFunctionOnSet(f, Protocols) = Cardinality(Mapped(L, owner, Protocols))
  <2>1. IsFiniteSet(Protocols) BY ValidationAssumption
  <2> QED BY <1>2, <1>4, <2>1, SumIsCount
<1> QED BY <1>2, <1>5, <1>6, <1>7 DEF L

(* The counters of the log line, by prefix, and the sections of the        *)
(* failure report, by cause, agree at all times and account for every line *)
(* tested.                                                                 *)
THEOREM TalliesAgree == Spec => []CountersAgree
<1>1. ASSUME JudgeInv, CountInv PROVE CountersAgree
  <2> DEFINE Ps == AllIn("PARSE")
             St == AllIn("START")
             Cn == AllIn("CONN")
             Ot == AllIn("OTHER")
             Pa == Counted("passed")
  <2>1. /\ Counted("parse") = Ps /\ Counted("start") = St /\ Counted("conn") = Cn \cup Ot
    <3>1. ASSUME NEW l \in Lines
          PROVE  /\ l \in Counted("parse") <=> l \in Ps
                 /\ l \in Counted("start") <=> l \in St
                 /\ l \in Counted("conn") <=> l \in Cn \cup Ot
      <4>1. CASE outcome[l] \in Reasons
        BY <4>1, Sections DEF Counted, Judged, AllIn, Outcomes
      <4>2. CASE outcome[l] \notin Reasons
        BY <4>2, Sections DEF Counted, Judged, AllIn, Outcomes
      <4> QED BY <4>1, <4>2
    <3>2. \A x : Counted(x) \subseteq Lines BY DEF Counted, Judged
    <3>3. \A s : AllIn(s) \subseteq Lines BY DEF AllIn
    <3> QED BY <3>1, <3>2, <3>3
  <2>2. Judged = Pa \cup (Ps \cup (St \cup (Cn \cup Ot)))
    <3>1. ASSUME NEW l \in Lines
          PROVE  l \in Judged <=> l \in Pa \cup (Ps \cup (St \cup (Cn \cup Ot)))
      <4>1. CASE outcome[l] \in Reasons
        BY <4>1, Sections DEF Judged, AllIn, Outcomes
      <4>2. CASE outcome[l] = Pass
        BY <4>2, Sections DEF Counted, Judged, Outcomes
      <4>3. CASE outcome[l] \notin Outcomes
        BY <4>3 DEF Counted, Judged, AllIn, Outcomes
      <4> QED BY <4>1, <4>2, <4>3 DEF Outcomes
    <3>2. \A x : Counted(x) \subseteq Lines BY DEF Counted, Judged
    <3>3. \A s : AllIn(s) \subseteq Lines BY DEF AllIn
    <3>4. Judged \subseteq Lines BY DEF Judged
    <3> QED BY <3>1, <3>2, <3>3, <3>4
  <2>3. /\ Cn \cap Ot = {} /\ St \cap (Cn \cup Ot) = {} /\ Ps \cap (St \cup (Cn \cup Ot)) = {}
    BY DEF AllIn
  <2>4. Pa \cap (Ps \cup (St \cup (Cn \cup Ot))) = {}
    BY Sections, Kinds DEF Counted, Judged, AllIn, Outcomes
  <2>5. /\ IsFiniteSet(Pa) /\ IsFiniteSet(Ps) /\ IsFiniteSet(St) /\ IsFiniteSet(Cn) /\ IsFiniteSet(Ot)
    BY <1>1, FiniteParts, AllSectionCount
  <2>6. /\ count["passed"] = Cardinality(Pa) /\ count["parse"] = Cardinality(Counted("parse"))
        /\ count["start"] = Cardinality(Counted("start")) /\ count["conn"] = Cardinality(Counted("conn"))
        /\ count["passed"] = Len(out) /\ tested = Cardinality(Judged)
    BY <1>1 DEF CountInv, Counters
  <2>7. /\ AllInSection("PARSE") = Cardinality(Ps) /\ AllInSection("START") = Cardinality(St)
        /\ AllInSection("CONN") = Cardinality(Cn) /\ AllInSection("OTHER") = Cardinality(Ot)
    BY <1>1, AllSectionCount
  <2> HIDE DEF Ps, St, Cn, Ot, Pa
  <2>8. IsFiniteSet(Cn \cup Ot) /\ Cardinality(Cn \cup Ot) = Cardinality(Cn) + Cardinality(Ot)
    BY <2>3, <2>5, DisjointCount
  <2>9. /\ IsFiniteSet(St \cup (Cn \cup Ot))
        /\ Cardinality(St \cup (Cn \cup Ot)) = Cardinality(St) + Cardinality(Cn \cup Ot)
    BY <2>3, <2>5, <2>8, DisjointCount
  <2>10. /\ IsFiniteSet(Ps \cup (St \cup (Cn \cup Ot)))
         /\ Cardinality(Ps \cup (St \cup (Cn \cup Ot))) = Cardinality(Ps) + Cardinality(St \cup (Cn \cup Ot))
    BY <2>3, <2>5, <2>9, DisjointCount
  <2>11. Cardinality(Judged) = Cardinality(Pa) + Cardinality(Ps \cup (St \cup (Cn \cup Ot)))
    BY <2>2, <2>4, <2>5, <2>10, DisjointCount
  <2>12. /\ Cardinality(Pa) \in Nat /\ Cardinality(Ps) \in Nat /\ Cardinality(St) \in Nat
         /\ Cardinality(Cn) \in Nat /\ Cardinality(Ot) \in Nat
    BY <2>5, FS_CardinalityType
  <2>13. tested = Cardinality(Pa) + Cardinality(Ps) + Cardinality(St) + Cardinality(Cn \cup Ot)
    <3>1. PICK pa \in Nat, ps \in Nat, st \in Nat, cn \in Nat, ot \in Nat :
            /\ pa = Cardinality(Pa) /\ ps = Cardinality(Ps) /\ st = Cardinality(St)
            /\ cn = Cardinality(Cn) /\ ot = Cardinality(Ot)
      BY <2>12
    <3>2. Cardinality(Cn \cup Ot) = cn + ot BY <2>8, <3>1
    <3>3. Cardinality(St \cup (Cn \cup Ot)) = st + (cn + ot) BY <2>9, <3>1, <3>2
    <3>4. Cardinality(Ps \cup (St \cup (Cn \cup Ot))) = ps + (st + (cn + ot)) BY <2>10, <3>1, <3>3
    <3>5. tested = pa + (ps + (st + (cn + ot))) BY <2>6, <2>11, <3>1, <3>4
    <3>6. pa + (ps + (st + (cn + ot))) = pa + ps + st + (cn + ot) OBVIOUS
    <3> QED BY <3>1, <3>2, <3>5, <3>6
  <2> QED BY <2>1, <2>6, <2>7, <2>8, <2>13 DEF CountersAgree
<1> QED BY <1>1, JudgeInvariant, CountInvariant, PTL

-----------------------------------------------------------------------------
(* The row of a protocol adds up, and its bar has 0 to 20 cells.           *)
LEMMA RowHolds ==
  ASSUME JudgeInv, CountInv, NEW p \in Reported
  PROVE  LET row == Row(p)
         IN  /\ row.barLen \in 0 .. 20
             /\ row.total = row.passed + row.parseFail + row.startFail + row.connFail + row.otherFail
<1> DEFINE F == FailedOf(p)
           Ps == InSec(p, "PARSE")
           St == InSec(p, "START")
           Cn == InSec(p, "CONN")
           Ot == InSec(p, "OTHER")
           n == Len(Unique[p])
           failed == TotalFails(p)
<1>1. p \in Protocols
  <2>1. PICK k \in 1 .. Len(ProtocolOrder) : p = ProtocolOrder[k]
    BY OrderTypes DEF Reported, ToSet
  <2> QED BY <2>1, OrderTypes
<1>2. n \in Nat \ {0} BY <1>1, LinesOf, EmptySeq DEF Reported
<1>3. failed = Cardinality(F)
  <2>1. DOMAIN fails[p] = Causes BY <1>1 DEF JudgeInv, TypeOK
  <2>2. failed = SumFunctionOnSet(fails[p], Causes) BY <2>1 DEF TotalFails, SumFunction
  <2>3. {l \in FailedOf(p) : Classify(outcome[l]) \in Causes} = F BY <1>1, FailCause
  <2> QED BY <1>1, <2>2, <2>3, SectionSum
<1>4. /\ F = Ps \cup (St \cup (Cn \cup Ot))
      /\ Cn \cap Ot = {} /\ St \cap (Cn \cup Ot) = {} /\ Ps \cap (St \cup (Cn \cup Ot)) = {}
  BY <1>1, FailCause DEF InSec
<1>5. IsFiniteSet(F) /\ Cardinality(F) <= n
  <2>1. F \in SUBSET ToSet(Unique[p]) BY <1>1, FiniteParts
  <2>2. IsFiniteSet(ToSet(Unique[p])) /\ Cardinality(ToSet(Unique[p])) = n BY <1>1, LinesOf
  <2> HIDE DEF F, n
  <2> QED BY <2>1, <2>2, FS_Subset
<1>6. Ps \in SUBSET F /\ St \in SUBSET F /\ Cn \in SUBSET F /\ Ot \in SUBSET F BY DEF InSec
<1>7. /\ InSection(p, "PARSE") = Cardinality(Ps) /\ InSection(p, "START") = Cardinality(St)
      /\ InSection(p, "CONN") = Cardinality(Cn) /\ InSection(p, "OTHER") = Cardinality(Ot)
  BY <1>1, SectionCount
<1> HIDE DEF F, Ps, St, Cn, Ot, n, failed
<1>8. IsFiniteSet(Ps) /\ IsFiniteSet(St) /\ IsFiniteSet(Cn) /\ IsFiniteSet(Ot)
  BY <1>5, <1>6, FS_Subset
<1>9. IsFiniteSet(Cn \cup Ot) /\ Cardinality(Cn \cup Ot) = Cardinality(Cn) + Cardinality(Ot)
  BY <1>4, <1>8, DisjointCount
<1>10. /\ IsFiniteSet(St \cup (Cn \cup Ot))
       /\ Cardinality(St \cup (Cn \cup Ot)) = Cardinality(St) + Cardinality(Cn \cup Ot)
  BY <1>4, <1>8, <1>9, DisjointCount
<1>11. Cardinality(F) = Cardinality(Ps) + Cardinality(St \cup (Cn \cup Ot))
  BY <1>4, <1>8, <1>10, DisjointCount
<1>12. /\ Cardinality(F) \in Nat /\ Cardinality(Ps) \in Nat /\ Cardinality(St) \in Nat
       /\ Cardinality(Cn) \in Nat /\ Cardinality(Ot) \in Nat
  BY <1>5, <1>8, FS_CardinalityType
<1> DEFINE row == Row(p)
<1>13. /\ row.total = n /\ row.passed = n - failed
       /\ row.parseFail = Cardinality(Ps) /\ row.startFail = Cardinality(St)
       /\ row.connFail = Cardinality(Cn) /\ row.otherFail = Cardinality(Ot)
       /\ row.barLen = BarLen(n - failed, n)
  BY <1>7 DEF Row, AllLines, n, failed
<1> HIDE DEF row
<1>14. BarLen(n - failed, n) \in 0 .. 20
  <2> DEFINE a == (n - failed) * 20
  <2>1. a \in Nat /\ a <= 20 * n BY <1>2, <1>3, <1>5, <1>12
  <2> HIDE DEF a
  <2>2. a \div n \in 0 .. 20 BY <1>2, <2>1
  <2> QED BY <2>2 DEF BarLen, a
<1>15. n = (n - failed) + Cardinality(Ps) + Cardinality(St) + Cardinality(Cn) + Cardinality(Ot)
  BY <1>2, <1>3, <1>9, <1>10, <1>11, <1>12
<1> QED BY <1>13, <1>14, <1>15 DEF row

(* No repeat count of the report is negative, for any number of lines and  *)
(* failures, and every row adds up.                                        *)
THEOREM ReportIsPrinted == Spec => []ReportPrints
<1>1. Init => ReportPrints BY DEF Init, ReportPrints
<1>2. ASSUME JudgeInv, CountInv, ReportPrints, [Next]_vars PROVE ReportPrints'
  <2>1. CASE Report
    <3>1. rows' = [p \in Reported |-> Row(p)] BY <2>1 DEF Report
    <3> QED BY <1>2, <3>1, RowHolds DEF ReportPrints
  <2>2. CASE UNCHANGED vars BY <1>2, <2>2 DEF ReportPrints, vars, loop
  <2>3. SkipProto \/ StartProto \/ PingBatch \/ EndPing \/ TestBatch \/ EndTest => stage' # "done"
    BY DEF SkipProto, StartProto, PingBatch, EndPing, TestBatch, EndTest, loop
  <2>4. stage' # "done" => ReportPrints' BY DEF ReportPrints
  <2> QED BY <1>2, <2>1, <2>2, <2>3, <2>4 DEF Next, Finished
<1> QED BY <1>1, <1>2, JudgeInvariant, CountInvariant, PTL DEF Spec
=============================================================================
