-------------------------- MODULE SelectionProofs ---------------------------
(***************************************************************************)
(* Lemmas about sequences that the proofs of the components need, by       *)
(* induction over their length: what Select keeps, in which order, and how *)
(* much of it; what a part of a sequence holds; and when a sum over a set  *)
(* is a count.                                                             *)
(***************************************************************************)
EXTENDS Selection, SequencesExt, FiniteSets, FiniteSetTheorems, SequenceTheorems,
        WellFoundedInduction, TLAPS

(* Every nonempty set of naturals has a least element. *)
LEMMA LeastElement ==
  ASSUME NEW T \in SUBSET Nat, T # {}
  PROVE  \E x \in T : \A y \in T : x <= y
<1> DEFINE R == {ss \in Nat \X Nat : ss[1] < ss[2]}
<1>1. IsWellFoundedOn(R, Nat)
  BY NatLessThanWellFounded DEF OpToRel
<1>2. \A x, y \in Nat : <<y, x>> \in R <=> y < x
  OBVIOUS
<1>3. \E x \in T : \A y \in T : ~(<<y, x>> \in R)
  <2> HIDE DEF R
  <2> QED BY <1>1, WFMin
<1>4. PICK x \in T : \A y \in T : ~(<<y, x>> \in R)
  BY <1>3
<1>5. \A y \in T : ~(y < x)
  BY <1>2, <1>4
<1> QED BY <1>5

(* Induction, about a set instead of a predicate. *)
LEMMA Induction ==
  ASSUME NEW T, 0 \in T, \A n \in Nat : n \in T => n + 1 \in T
  PROVE  Nat \subseteq T
<1> SUFFICES ASSUME Nat \ T # {} PROVE FALSE OBVIOUS
<1>1. PICK x \in Nat \ T : \A y \in Nat \ T : x <= y
  BY LeastElement
<1>2. x # 0 /\ x - 1 \in Nat /\ x - 1 \in T
  BY <1>1
<1> QED BY <1>1, <1>2

(* The same over sequences, which end in their last element. *)
LEMMA SeqInduction ==
  ASSUME NEW S, NEW T, << >> \in T,
         \A s \in Seq(S), x \in S : s \in T => Append(s, x) \in T
  PROVE  Seq(S) \subseteq T
<1> DEFINE N == {n \in Nat : \A s \in Seq(S) : Len(s) = n => s \in T}
<1>1. 0 \in N
  BY EmptySeq
<1>2. ASSUME NEW n \in Nat, n \in N PROVE n + 1 \in N
  <2> SUFFICES ASSUME NEW s \in Seq(S), Len(s) = n + 1 PROVE s \in T
    OBVIOUS
  <2>1. s # << >>
    BY EmptySeq
  <2>2. PICK r \in Seq(S), x \in S : s = Append(r, x)
    BY <2>1, SequenceEmptyOrAppend
  <2>3. Len(r) = n
    BY <2>2, AppendProperties
  <2> QED BY <1>2, <2>2, <2>3
<1>3. Nat \subseteq N
  <2> HIDE DEF N
  <2> QED BY <1>1, <1>2, Induction
<1> QED BY <1>3, LenProperties

-----------------------------------------------------------------------------
(* The recursive function of Select exists, so it obeys its equation.      *)
Loop(s, kept, f, N) ==
  f = [n \in 0 .. N |-> IF n = 0 THEN << >>
                        ELSE IF s[n] \in kept THEN Append(f[n - 1], s[n]) ELSE f[n - 1]]

LEMMA LoopExists == ASSUME NEW s, NEW kept PROVE \A N \in Nat : \E f : Loop(s, kept, f, N)
<1> DEFINE T == {N \in Nat : \E f : Loop(s, kept, f, N)}
<1>1. 0 \in T
  <2> DEFINE f == [n \in 0 .. 0 |-> << >>]
  <2>1. Loop(s, kept, f, 0) BY DEF Loop
  <2> QED BY <2>1
<1>2. ASSUME NEW N \in Nat, N \in T PROVE N + 1 \in T
  <2>1. PICK f : Loop(s, kept, f, N) BY <1>2
  <2> DEFINE last == IF s[N + 1] \in kept THEN Append(f[N], s[N + 1]) ELSE f[N]
             g == [n \in 0 .. N + 1 |-> IF n = N + 1 THEN last ELSE f[n]]
  <2>2. \A n \in 0 .. N : g[n] = f[n] BY <2>1
  <2>3. ASSUME NEW n \in 0 .. N + 1
        PROVE  g[n] = IF n = 0 THEN << >>
                      ELSE IF s[n] \in kept THEN Append(g[n - 1], s[n]) ELSE g[n - 1]
    <3>1. CASE n = N + 1
      <4>1. g[N] = f[N] /\ n # 0 /\ n - 1 = N BY <2>2, <3>1
      <4>2. g[n] = last BY <3>1
      <4> HIDE DEF g
      <4> QED BY <3>1, <4>1, <4>2
    <3>2. CASE n \in 0 .. N
      <4>1. g[n] = f[n] /\ (n # 0 => g[n - 1] = f[n - 1]) BY <2>2, <3>2
      <4>2. f[n] = IF n = 0 THEN << >>
                   ELSE IF s[n] \in kept THEN Append(f[n - 1], s[n]) ELSE f[n - 1]
        BY <2>1, <3>2 DEF Loop
      <4> HIDE DEF g
      <4> QED BY <4>1, <4>2
    <3> QED BY <3>1, <3>2
  <2>4. Loop(s, kept, g, N + 1)
    <3> DEFINE h == [n \in 0 .. N + 1 |-> IF n = 0 THEN << >>
                     ELSE IF s[n] \in kept THEN Append(g[n - 1], s[n]) ELSE g[n - 1]]
    <3>1. \A n \in 0 .. N + 1 : g[n] = h[n]
      <4> HIDE DEF g
      <4> QED BY <2>3
    <3>2. g = h
      BY <3>1
    <3> HIDE DEF g
    <3> QED BY <3>2 DEF Loop
  <2> QED BY <2>4
<1>3. Nat \subseteq T
  <2> HIDE DEF T
  <2> QED BY <1>1, <1>2, Induction
<1> QED BY <1>3

(* Two such functions agree as far as their sequences do. *)
LEMMA LoopSame ==
  ASSUME NEW s, NEW t, NEW kept, NEW f, NEW g, NEW N \in Nat, NEW M \in Nat, N <= M,
         Loop(s, kept, f, N), Loop(t, kept, g, M), \A n \in 1 .. N : s[n] = t[n]
  PROVE  \A n \in 0 .. N : f[n] = g[n]
<1> DEFINE T == {n \in Nat : n <= N => f[n] = g[n]}
<1>1. 0 \in T
  BY DEF Loop
<1>2. ASSUME NEW n \in Nat, n \in T PROVE n + 1 \in T
  <2> SUFFICES ASSUME n + 1 <= N PROVE f[n + 1] = g[n + 1] OBVIOUS
  <2>1. n + 1 \in 0 .. N /\ n + 1 \in 0 .. M /\ f[n] = g[n] /\ n + 1 # 0 /\ (n + 1) - 1 = n
    BY <1>2
  <2>2. f[n + 1] = IF s[n + 1] \in kept THEN Append(f[n], s[n + 1]) ELSE f[n]
    BY <2>1 DEF Loop
  <2>3. g[n + 1] = IF t[n + 1] \in kept THEN Append(g[n], t[n + 1]) ELSE g[n]
    BY <2>1 DEF Loop
  <2>4. s[n + 1] = t[n + 1] BY <2>1
  <2> QED BY <2>1, <2>2, <2>3, <2>4
<1>3. Nat \subseteq T
  <2> HIDE DEF T
  <2> QED BY <1>1, <1>2, Induction
<1> QED BY <1>3

LEMMA SelectLoop ==
  ASSUME NEW S, NEW s \in Seq(S), NEW kept
  PROVE  \E f : Loop(s, kept, f, Len(s)) /\ Select(s, kept) = f[Len(s)]
<1> DEFINE f == CHOOSE f : Loop(s, kept, f, Len(s))
<1>1. Loop(s, kept, f, Len(s))
  <2>1. Len(s) \in Nat BY LenProperties
  <2> QED BY <2>1, LoopExists
<1>2. Select(s, kept) = f[Len(s)]
  BY DEF Select, Loop
<1> QED BY <1>1, <1>2

(* The two equations from which all the rest follows. *)
LEMMA SelectEmpty == ASSUME NEW kept PROVE Select(<< >>, kept) = << >>
<1>1. << >> \in Seq({}) /\ Len(<< >>) = 0 BY EmptySeq
<1>2. PICK f : Loop(<< >>, kept, f, 0) /\ Select(<< >>, kept) = f[0]
  BY <1>1, SelectLoop
<1> QED BY <1>2 DEF Loop

LEMMA SelectAppend ==
  ASSUME NEW S, NEW s \in Seq(S), NEW x \in S, NEW kept
  PROVE  Select(Append(s, x), kept) =
           IF x \in kept THEN Append(Select(s, kept), x) ELSE Select(s, kept)
<1> DEFINE t == Append(s, x)
<1>1. /\ t \in Seq(S) /\ Len(s) \in Nat /\ Len(t) = Len(s) + 1 /\ t[Len(s) + 1] = x
      /\ \A n \in 1 .. Len(s) : s[n] = t[n]
  BY AppendProperties, LenProperties
<1> HIDE DEF t
<1>2. PICK f : Loop(s, kept, f, Len(s)) /\ Select(s, kept) = f[Len(s)]
  BY SelectLoop
<1>3. PICK g : Loop(t, kept, g, Len(s) + 1) /\ Select(t, kept) = g[Len(s) + 1]
  BY <1>1, SelectLoop
<1>4. f[Len(s)] = g[Len(s)]
  BY <1>1, <1>2, <1>3, LoopSame
<1>5. g[Len(s) + 1] = IF t[Len(s) + 1] \in kept THEN Append(g[Len(s)], t[Len(s) + 1])
                      ELSE g[Len(s)]
  <2> DEFINE m == Len(s) + 1
  <2>1. m \in 0 .. m /\ m # 0 /\ m - 1 = Len(s)
    BY <1>1
  <2>2. g[m] = IF t[m] \in kept THEN Append(g[m - 1], t[m]) ELSE g[m - 1]
    <3> HIDE DEF m
    <3> QED BY <1>3, <2>1 DEF Loop, m
  <2> QED BY <2>1, <2>2
<1> QED BY <1>1, <1>2, <1>3, <1>4, <1>5 DEF t

(* What is kept: elements of the sequence and of the set, in order. *)
LEMMA SelectType ==
  ASSUME NEW S, NEW kept
  PROVE  \A s \in Seq(S) : Select(s, kept) \in Seq(S \cap kept)
<1> DEFINE T == {s \in Seq(S) : Select(s, kept) \in Seq(S \cap kept)}
<1>1. << >> \in T
  BY SelectEmpty, EmptySeq
<1>2. ASSUME NEW s \in Seq(S), NEW x \in S, s \in T PROVE Append(s, x) \in T
  <2>1. Append(s, x) \in Seq(S) BY AppendProperties
  <2>2. CASE x \in kept
    <3>1. Append(Select(s, kept), x) \in Seq(S \cap kept)
      BY <1>2, <2>2, AppendProperties
    <3>2. Select(Append(s, x), kept) = Append(Select(s, kept), x)
      BY <2>2, SelectAppend
    <3> QED BY <2>1, <3>1, <3>2
  <2>3. CASE x \notin kept
    BY <1>2, <2>1, <2>3, SelectAppend
  <2> QED BY <2>2, <2>3
<1>3. Seq(S) \subseteq T
  <2> HIDE DEF T
  <2> QED BY <1>1, <1>2, SeqInduction
<1> QED BY <1>3

LEMMA SelectConcat ==
  ASSUME NEW S, NEW kept, NEW s \in Seq(S)
  PROVE  \A t \in Seq(S) : Select(s \o t, kept) = Select(s, kept) \o Select(t, kept)
<1> DEFINE T == {t \in Seq(S) : Select(s \o t, kept) = Select(s, kept) \o Select(t, kept)}
<1>0. Select(s, kept) \in Seq(S \cap kept)
  BY SelectType
<1>1. << >> \in T
  BY <1>0, SelectEmpty, EmptySeq, ConcatEmptySeq
<1>2. ASSUME NEW t \in Seq(S), NEW x \in S, t \in T PROVE Append(t, x) \in T
  <2>1. /\ Append(t, x) \in Seq(S) /\ s \o t \in Seq(S) /\ Select(t, kept) \in Seq(S \cap kept)
    BY AppendProperties, ConcatProperties, SelectType
  <2>2. s \o Append(t, x) = Append(s \o t, x)
    OBVIOUS
  <2>3. CASE x \in kept
    <3>1. Select(Append(s \o t, x), kept) = Append(Select(s, kept) \o Select(t, kept), x)
      BY <1>2, <2>1, <2>3, SelectAppend
    <3>2. Select(Append(t, x), kept) = Append(Select(t, kept), x)
      BY <2>3, SelectAppend
    <3>3. Select(s, kept) \in Seq(S) /\ Select(t, kept) \in Seq(S)
      BY <1>0, <2>1, SeqMonotonic
    <3>4. Append(Select(s, kept) \o Select(t, kept), x) = Select(s, kept) \o Append(Select(t, kept), x)
      <4>1. PICK a \in Seq(S) : a = Select(s, kept) BY <3>3, Zenon
      <4>2. PICK b \in Seq(S) : b = Select(t, kept) BY <3>3, Zenon
      <4>3. <<x>> \in Seq(S) /\ a \o b \in Seq(S) BY ConcatProperties
      <4>4. Append(b, x) = b \o <<x>> BY AppendIsConcat
      <4>5. Append(a \o b, x) = (a \o b) \o <<x>> BY <4>3, AppendIsConcat
      <4>6. (a \o b) \o <<x>> = a \o (b \o <<x>>) BY <4>3, ConcatAssociative, SMTT(30)
      <4> QED BY <4>1, <4>2, <4>4, <4>5, <4>6, Zenon
    <3>5. Select(s \o Append(t, x), kept) = Select(s, kept) \o Select(Append(t, x), kept)
      BY <2>2, <3>1, <3>2, <3>4
    <3> QED BY <2>1, <3>5
  <2>4. CASE x \notin kept
    <3>1. Select(Append(s \o t, x), kept) = Select(s \o t, kept)
      BY <2>1, <2>4, SelectAppend
    <3>2. Select(Append(t, x), kept) = Select(t, kept)
      BY <2>4, SelectAppend
    <3> QED BY <1>2, <2>1, <2>2, <3>1, <3>2
  <2> QED BY <2>3, <2>4
<1>3. Seq(S) \subseteq T
  <2> HIDE DEF T
  <2> QED BY <1>1, <1>2, SeqInduction
<1> QED BY <1>3

(* Only which elements of the sequence are kept matters. *)
LEMMA SelectSame ==
  ASSUME NEW S, NEW K, NEW L, S \cap K = S \cap L
  PROVE  \A s \in Seq(S) : Select(s, K) = Select(s, L)
<1> DEFINE T == {s \in Seq(S) : Select(s, K) = Select(s, L)}
<1>1. << >> \in T
  BY SelectEmpty, EmptySeq
<1>2. ASSUME NEW s \in Seq(S), NEW x \in S, s \in T PROVE Append(s, x) \in T
  <2>1. x \in K <=> x \in L OBVIOUS
  <2>2. Append(s, x) \in Seq(S) BY AppendProperties
  <2>3. Select(Append(s, x), K) = IF x \in K THEN Append(Select(s, K), x) ELSE Select(s, K)
    BY SelectAppend
  <2>4. Select(Append(s, x), L) = IF x \in L THEN Append(Select(s, L), x) ELSE Select(s, L)
    BY SelectAppend
  <2> QED BY <1>2, <2>1, <2>2, <2>3, <2>4
<1>3. Seq(S) \subseteq T
  <2> HIDE DEF T
  <2> QED BY <1>1, <1>2, SeqInduction
<1> QED BY <1>3

(* Nothing, or all, is kept. *)
LEMMA SelectAll ==
  ASSUME NEW S, NEW K, S \subseteq K
  PROVE  \A s \in Seq(S) : Select(s, K) = s
<1> DEFINE T == {s \in Seq(S) : Select(s, K) = s}
<1>1. << >> \in T
  BY SelectEmpty, EmptySeq
<1>2. ASSUME NEW s \in Seq(S), NEW x \in S, s \in T PROVE Append(s, x) \in T
  <2>1. x \in K OBVIOUS
  <2>2. Append(s, x) \in Seq(S) BY AppendProperties
  <2> QED BY <1>2, <2>1, <2>2, SelectAppend
<1>3. Seq(S) \subseteq T
  <2> HIDE DEF T
  <2> QED BY <1>1, <1>2, SeqInduction
<1> QED BY <1>3

(* Selecting twice is selecting once. *)
LEMMA SelectTwice ==
  ASSUME NEW S, NEW K, NEW L
  PROVE  \A s \in Seq(S) : Select(Select(s, K), L) = Select(s, K \cap L)
<1> DEFINE T == {s \in Seq(S) : Select(Select(s, K), L) = Select(s, K \cap L)}
<1>1. << >> \in T
  BY SelectEmpty, EmptySeq
<1>2. ASSUME NEW s \in Seq(S), NEW x \in S, s \in T PROVE Append(s, x) \in T
  <2>1. Append(s, x) \in Seq(S) /\ Select(s, K) \in Seq(S \cap K)
    BY AppendProperties, SelectType
  <2>2. CASE x \in K
    <3>1. Select(Append(Select(s, K), x), L) =
            IF x \in L THEN Append(Select(Select(s, K), L), x) ELSE Select(Select(s, K), L)
      <4> DEFINE r == Select(s, K)
                 Q == S \cap K
      <4>1. r \in Seq(Q) /\ x \in Q BY <2>1, <2>2
      <4> HIDE DEF r, Q
      <4>2. Select(Append(r, x), L) = IF x \in L THEN Append(Select(r, L), x) ELSE Select(r, L)
        BY <4>1, SelectAppend
      <4> QED BY <4>2 DEF r
    <3>2. Select(Append(s, x), K) = Append(Select(s, K), x)
      BY <2>2, SelectAppend
    <3>3. Select(Append(s, x), K \cap L) =
            IF x \in L THEN Append(Select(s, K \cap L), x) ELSE Select(s, K \cap L)
      <4>1. x \in K \cap L <=> x \in L BY <2>2
      <4> QED BY <4>1, SelectAppend
    <3>4. Select(Select(Append(s, x), K), L) = Select(Append(s, x), K \cap L)
      BY <1>2, <3>1, <3>2, <3>3
    <3> QED BY <2>1, <3>4
  <2>3. CASE x \notin K
    <3>1. Select(Append(s, x), K) = Select(s, K)
      BY <2>3, SelectAppend
    <3>2. Select(Append(s, x), K \cap L) = Select(s, K \cap L)
      BY <2>3, SelectAppend
    <3> QED BY <1>2, <2>1, <3>1, <3>2
  <2> QED BY <2>2, <2>3
<1>3. Seq(S) \subseteq T
  <2> HIDE DEF T
  <2> QED BY <1>1, <1>2, SeqInduction
<1> QED BY <1>3

-----------------------------------------------------------------------------
(* The elements of a sequence, and sequences in which none comes twice.    *)
Elements(s) == {s[k] : k \in 1 .. Len(s)}
Distinct(s) == \A k, l \in 1 .. Len(s) : s[k] = s[l] => k = l

LEMMA ElementsEmpty == Elements(<< >>) = {} /\ Distinct(<< >>)
BY EmptySeq DEF Elements, Distinct

LEMMA ElementsAppend ==
  ASSUME NEW S, NEW s \in Seq(S), NEW x \in S
  PROVE  /\ Elements(Append(s, x)) = Elements(s) \cup {x}
         /\ Distinct(Append(s, x)) <=> Distinct(s) /\ x \notin Elements(s)
<1> DEFINE t == Append(s, x)
<1>1. /\ Len(s) \in Nat /\ Len(t) = Len(s) + 1 /\ t[Len(s) + 1] = x
      /\ \A k \in 1 .. Len(s) : t[k] = s[k]
  BY AppendProperties, LenProperties
<1> HIDE DEF t
<1>2. Elements(t) = Elements(s) \cup {x}
  <2>1. \A k \in 1 .. Len(t) : k \in 1 .. Len(s) \/ k = Len(s) + 1 BY <1>1
  <2>2. \A k \in 1 .. Len(s) : k \in 1 .. Len(t) BY <1>1
  <2>3. Len(s) + 1 \in 1 .. Len(t) BY <1>1
  <2> QED BY <1>1, <2>1, <2>2, <2>3 DEF Elements
<1>3. ASSUME Distinct(t) PROVE Distinct(s) /\ x \notin Elements(s)
  <2>1. \A k \in 1 .. Len(s) : k \in 1 .. Len(t) /\ k # Len(s) + 1 BY <1>1
  <2>2. Len(s) + 1 \in 1 .. Len(t) BY <1>1
  <2> QED BY <1>1, <1>3, <2>1, <2>2 DEF Elements, Distinct
<1>4. ASSUME Distinct(s), x \notin Elements(s) PROVE Distinct(t)
  <2> SUFFICES ASSUME NEW k \in 1 .. Len(t), NEW l \in 1 .. Len(t), t[k] = t[l] PROVE k = l
    BY DEF Distinct
  <2>1. CASE k \in 1 .. Len(s) /\ l \in 1 .. Len(s) BY <1>1, <1>4, <2>1 DEF Distinct
  <2>2. CASE k \in 1 .. Len(s) /\ l = Len(s) + 1 BY <1>1, <1>4, <2>2 DEF Elements
  <2>3. CASE k = Len(s) + 1 /\ l \in 1 .. Len(s) BY <1>1, <1>4, <2>3 DEF Elements
  <2>4. CASE k = Len(s) + 1 /\ l = Len(s) + 1 BY <2>4
  <2> QED BY <1>1, <2>1, <2>2, <2>3, <2>4
<1> QED BY <1>2, <1>3, <1>4 DEF t

LEMMA ElementsType == ASSUME NEW S, NEW s \in Seq(S) PROVE Elements(s) \subseteq S
BY LenProperties DEF Elements

(* A sequence without repetitions is as long as the set of its elements.   *)
LEMMA DistinctLen ==
  ASSUME NEW S
  PROVE  \A s \in Seq(S) : /\ IsFiniteSet(Elements(s))
                           /\ Distinct(s) => Cardinality(Elements(s)) = Len(s)
<1> DEFINE P(s) == /\ IsFiniteSet(Elements(s))
                   /\ Distinct(s) => Cardinality(Elements(s)) = Len(s)
           T == {s \in Seq(S) : P(s)}
<1>1. << >> \in T
  BY ElementsEmpty, EmptySeq, FS_EmptySet
<1>2. ASSUME NEW s \in Seq(S), NEW x \in S, s \in T PROVE Append(s, x) \in T
  <2>1. Append(s, x) \in Seq(S) /\ Len(Append(s, x)) = Len(s) + 1 BY AppendProperties
  <2>2. /\ Elements(Append(s, x)) = Elements(s) \cup {x}
        /\ Distinct(Append(s, x)) <=> Distinct(s) /\ x \notin Elements(s)
    BY ElementsAppend
  <2>0. P(s)
    <3> HIDE DEF P
    <3> QED BY <1>2
  <2>3. /\ IsFiniteSet(Elements(s) \cup {x})
        /\ Cardinality(Elements(s) \cup {x}) =
             IF x \in Elements(s) THEN Cardinality(Elements(s)) ELSE Cardinality(Elements(s)) + 1
    BY <2>0, FS_AddElement
  <2>4. P(Append(s, x)) BY <2>0, <2>1, <2>2, <2>3
  <2> HIDE DEF P
  <2> QED BY <2>1, <2>4
<1>3. Seq(S) \subseteq T
  <2> HIDE DEF T
  <2> QED BY <1>1, <1>2, SeqInduction
<1>4. \A s \in Seq(S) : P(s)
  <2> HIDE DEF P
  <2> QED BY <1>3
<1> QED BY <1>4

(* What is kept are the elements that are in the set, none twice if none   *)
(* came twice.                                                             *)
LEMMA SelectElements ==
  ASSUME NEW S, NEW K
  PROVE  \A s \in Seq(S) : /\ Elements(Select(s, K)) = Elements(s) \cap K
                           /\ Distinct(s) => Distinct(Select(s, K))
<1> DEFINE P(s) == /\ Elements(Select(s, K)) = Elements(s) \cap K
                   /\ Distinct(s) => Distinct(Select(s, K))
           T == {s \in Seq(S) : P(s)}
<1>1. << >> \in T
  BY SelectEmpty, EmptySeq, ElementsEmpty
<1>2. ASSUME NEW s \in Seq(S), NEW x \in S, s \in T PROVE Append(s, x) \in T
  <2>1. Append(s, x) \in Seq(S) BY AppendProperties
  <2>2. /\ Elements(Append(s, x)) = Elements(s) \cup {x}
        /\ Distinct(Append(s, x)) <=> Distinct(s) /\ x \notin Elements(s)
    BY ElementsAppend
  <2>0. P(s)
    <3> HIDE DEF P
    <3> QED BY <1>2
  <2>3. ASSUME x \in K PROVE P(Append(s, x))
    <3>1. Select(Append(s, x), K) = Append(Select(s, K), x) BY <2>3, SelectAppend
    <3> DEFINE r == Select(s, K)
               Q == S \cap K
    <3>2. r \in Seq(Q) /\ x \in Q BY <2>3, SelectType
    <3>3. /\ Elements(Append(r, x)) = Elements(r) \cup {x}
          /\ Distinct(Append(r, x)) <=> Distinct(r) /\ x \notin Elements(r)
      <4> HIDE DEF r, Q
      <4> QED BY <3>2, ElementsAppend
    <3> QED BY <2>0, <2>2, <2>3, <3>1, <3>3
  <2>4. ASSUME x \notin K PROVE P(Append(s, x))
    <3>1. Select(Append(s, x), K) = Select(s, K) BY <2>4, SelectAppend
    <3> QED BY <2>0, <2>2, <2>4, <3>1
  <2>5. P(Append(s, x)) BY <2>3, <2>4
  <2> HIDE DEF P
  <2> QED BY <2>1, <2>5
<1>3. Seq(S) \subseteq T
  <2> HIDE DEF T
  <2> QED BY <1>1, <1>2, SeqInduction
<1>4. \A s \in Seq(S) : P(s)
  <2> HIDE DEF P
  <2> QED BY <1>3
<1> QED BY <1>4

(* How many are kept of a sequence without repetitions.                    *)
LEMMA SelectLen ==
  ASSUME NEW S, NEW K, NEW s \in Seq(S), Distinct(s)
  PROVE  Len(Select(s, K)) = Cardinality(Elements(s) \cap K)
<1> DEFINE Q == S \cap K
           r == Select(s, K)
<1>1. r \in Seq(Q) BY SelectType
<1>2. Elements(r) = Elements(s) \cap K /\ Distinct(r) BY SelectElements
<1>3. Cardinality(Elements(r)) = Len(r)
  <2> HIDE DEF Q, r
  <2> QED BY <1>1, <1>2, DistinctLen
<1> QED BY <1>2, <1>3

(* The elements of a part of a sequence. *)
LEMMA PartOf ==
  ASSUME NEW S, NEW s \in Seq(S), NEW m \in Nat \ {0}, NEW n \in m - 1 .. Len(s)
  PROVE  /\ SubSeq(s, m, n) \in Seq(S)
         /\ Len(SubSeq(s, m, n)) = n - m + 1
         /\ \A i \in 1 .. n - m + 1 : SubSeq(s, m, n)[i] = s[m + i - 1]
         /\ Elements(SubSeq(s, m, n)) = {s[k] : k \in m .. n}
         /\ Distinct(s) => Distinct(SubSeq(s, m, n))
<1> DEFINE t == SubSeq(s, m, n)
<1>1. Len(s) \in Nat /\ \A i \in m .. n : s[i] \in S BY LenProperties
<1>2. /\ t \in Seq(S) /\ Len(t) = n - m + 1
      /\ \A i \in 1 .. n - m + 1 : t[i] = s[m + i - 1]
  BY <1>1, SubSeqProperties
<1> HIDE DEF t
<1>3. Elements(t) = {s[k] : k \in m .. n}
  <2>1. \A k \in m .. n : k - m + 1 \in 1 .. n - m + 1 /\ s[k] = t[k - m + 1]
    BY <1>1, <1>2
  <2>2. \A i \in 1 .. n - m + 1 : m + i - 1 \in m .. n BY <1>1
  <2>3. {s[k] : k \in m .. n} \subseteq {t[i] : i \in 1 .. n - m + 1} BY <2>1
  <2>4. {t[i] : i \in 1 .. n - m + 1} \subseteq {s[k] : k \in m .. n} BY <1>2, <2>2
  <2> QED BY <1>2, <2>3, <2>4 DEF Elements
<1>4. Distinct(s) => Distinct(t)
  <2> SUFFICES ASSUME Distinct(s), NEW k \in 1 .. Len(t), NEW l \in 1 .. Len(t), t[k] = t[l]
               PROVE  k = l
    BY DEF Distinct
  <2>1. /\ m + k - 1 \in 1 .. Len(s) /\ m + l - 1 \in 1 .. Len(s)
        /\ s[m + k - 1] = s[m + l - 1]
    BY <1>1, <1>2
  <2>2. m + k - 1 = m + l - 1 BY <2>1 DEF Distinct
  <2> QED BY <1>1, <1>2, <2>2
<1> QED BY <1>2, <1>3, <1>4 DEF t

LEMMA ElementsConcat ==
  ASSUME NEW S, NEW s \in Seq(S), NEW t \in Seq(S)
  PROVE  /\ Elements(s \o t) = Elements(s) \cup Elements(t)
         /\ Distinct(s) /\ Distinct(t) /\ Elements(s) \cap Elements(t) = {} => Distinct(s \o t)
<1> DEFINE u == s \o t
<1>1. Len(s) \in Nat /\ Len(t) \in Nat BY LenProperties
<1>2. /\ u \in Seq(S) /\ Len(u) = Len(s) + Len(t)
      /\ \A i \in 1 .. Len(s) + Len(t) : u[i] = IF i <= Len(s) THEN s[i] ELSE t[i - Len(s)]
  BY ConcatProperties
<1> HIDE DEF u
<1>3. \A i \in 1 .. Len(t) : u[i + Len(s)] = t[i] /\ i + Len(s) \in 1 .. Len(u)
  BY <1>1, <1>2
<1>4. \A i \in 1 .. Len(s) : u[i] = s[i] /\ i \in 1 .. Len(u) BY <1>1, <1>2
<1>5. \A i \in 1 .. Len(u) : \/ i \in 1 .. Len(s) /\ u[i] = s[i]
                             \/ i - Len(s) \in 1 .. Len(t) /\ u[i] = t[i - Len(s)]
  BY <1>1, <1>2
<1>6. Elements(u) = Elements(s) \cup Elements(t)
  <2>1. Elements(u) \subseteq Elements(s) \cup Elements(t) BY <1>5 DEF Elements
  <2>2. Elements(s) \subseteq Elements(u) BY <1>4 DEF Elements
  <2>3. Elements(t) \subseteq Elements(u) BY <1>3 DEF Elements
  <2> QED BY <2>1, <2>2, <2>3
<1>7. ASSUME Distinct(s), Distinct(t), Elements(s) \cap Elements(t) = {} PROVE Distinct(u)
  <2>1. \A i \in 1 .. Len(s), j \in 1 .. Len(t) : s[i] # t[j] BY <1>7 DEF Elements
  <2> SUFFICES ASSUME NEW k \in 1 .. Len(u), NEW l \in 1 .. Len(u), u[k] = u[l] PROVE k = l
    BY DEF Distinct
  <2>2. CASE k \in 1 .. Len(s) /\ u[k] = s[k]
    <3>1. l \in 1 .. Len(s) /\ u[l] = s[l] BY <1>5, <2>1, <2>2
    <3> QED BY <1>7, <2>2, <3>1 DEF Distinct
  <2>3. CASE k - Len(s) \in 1 .. Len(t) /\ u[k] = t[k - Len(s)]
    <3>1. l - Len(s) \in 1 .. Len(t) /\ u[l] = t[l - Len(s)] BY <1>5, <2>1, <2>3
    <3>2. k - Len(s) = l - Len(s) BY <1>7, <2>3, <3>1 DEF Distinct
    <3> QED BY <1>1, <1>2, <3>2
  <2> QED BY <1>5, <2>2, <2>3
<1> QED BY <1>6, <1>7 DEF u

LEMMA SelectNone ==
  ASSUME NEW S, NEW s \in Seq(S), NEW K, Elements(s) \cap K = {}
  PROVE  Select(s, K) = << >>
<1>1. Select(s, K) \in Seq(S \cap K) BY SelectType
<1>2. Elements(Select(s, K)) = {} BY SelectElements
<1>3. Select(s, K) # << >> => 1 \in 1 .. Len(Select(s, K)) BY <1>1, EmptySeq
<1> QED BY <1>2, <1>3 DEF Elements

LEMMA SelectShorter ==
  ASSUME NEW S, NEW s \in Seq(S), Distinct(s), NEW K
  PROVE  Len(Select(s, K)) \in 0 .. Len(s)
<1>1. Len(Select(s, K)) = Cardinality(Elements(s) \cap K) BY SelectLen
<1>2. IsFiniteSet(Elements(s)) /\ Cardinality(Elements(s)) = Len(s) BY DistinctLen
<1>3. Elements(s) \cap K \in SUBSET Elements(s) OBVIOUS
<1>4. /\ IsFiniteSet(Elements(s) \cap K)
      /\ Cardinality(Elements(s) \cap K) <= Cardinality(Elements(s))
  BY <1>2, <1>3, FS_Subset
<1> QED BY <1>1, <1>2, <1>4, FS_CardinalityType, LenProperties

LEMMA SelectAgree ==
  ASSUME NEW S, NEW s \in Seq(S), NEW K, NEW L, Elements(s) \cap K = Elements(s) \cap L
  PROVE  Select(s, K) = Select(s, L)
<1>1. \A k \in 1 .. Len(s) : s[k] \in Elements(s) BY DEF Elements
<1>2. s \in Seq(Elements(s)) BY <1>1, LenProperties, SeqDef
<1> QED BY <1>2, SelectSame

LEMMA DisjointCount ==
  ASSUME NEW A, NEW B, IsFiniteSet(A), IsFiniteSet(B), A \cap B = {}
  PROVE  /\ IsFiniteSet(A \cup B)
         /\ Cardinality(A \cup B) = Cardinality(A) + Cardinality(B)
<1>1. /\ IsFiniteSet(A \cup B)
      /\ Cardinality(A \cup B) = Cardinality(A) + Cardinality(B) - Cardinality(A \cap B)
  BY FS_Union
<1>2. Cardinality(A) \in Nat /\ Cardinality(B) \in Nat BY FS_CardinalityType
<1>3. Cardinality(A \cap B) = 0 BY FS_EmptySet
<1> QED BY <1>1, <1>2, <1>3

LEMMA ElementsToSet == ASSUME NEW S, NEW s \in Seq(S) PROVE ToSet(s) = Elements(s)
BY LenProperties DEF ToSet, Elements

LEMMA MinOfTwo == ASSUME NEW a \in Int, NEW b \in Int
                  PROVE  Min({a, b}) = IF a <= b THEN a ELSE b
<1> DEFINE m == IF a <= b THEN a ELSE b
<1>1. m \in {a, b} /\ \A y \in {a, b} : m <= y OBVIOUS
<1>2. \A x \in {a, b} : (\A y \in {a, b} : x <= y) => x = m OBVIOUS
<1> HIDE DEF m
<1>3. Min({a, b}) = m BY <1>1, <1>2 DEF Min
<1> QED BY <1>3 DEF m

LEMMA Products == ASSUME NEW k \in Nat, NEW size \in Nat
                  PROVE  k * size \in Nat /\ (k + 1) * size = k * size + size /\ 0 * size = 0
OBVIOUS

(* The elements of L that g maps into C. *)
Mapped(L, g, C) == {l \in L : g[l] \in C}

(* The community modules' sum over a function of counts is the count of    *)
(* the union: what the fold computes is shown to be the cardinality by     *)
(* induction on the size of the set it runs over.                          *)
LEMMA SumIsCount ==
  ASSUME NEW L, IsFiniteSet(L), NEW g, NEW f, NEW T, IsFiniteSet(T),
         \A c \in T : f[c] = Cardinality(Mapped(L, g, {c}))
  PROVE  SumFunctionOnSet(f, T) = Cardinality(Mapped(L, g, T))
<1> DEFINE Of(s) == Cardinality({l \in L : g[l] \in s})
           One(s) == CHOOSE x \in s : TRUE
           Rule(it) == it = [s \in SUBSET T |-> IF s = {} THEN 0
                                                ELSE f[One(s)] + it[s \ {One(s)}]]
<1>1. SumFunctionOnSet(f, T) = (CHOOSE it : Rule(it))[T]
  BY DEF SumFunctionOnSet, FoldFunctionOnSet, MapThenFoldSet
<1>2. Of({}) = 0
  <2>1. {l \in L : g[l] \in {}} = {} OBVIOUS
  <2> QED BY <2>1, FS_EmptySet
<1>3. ASSUME NEW s \in SUBSET T, s # {}
      PROVE  /\ One(s) \in s
             /\ Of(s) = f[One(s)] + Of(s \ {One(s)})
  <2>1. One(s) \in s BY <1>3
  <2> DEFINE x == One(s)
             A == {l \in L : g[l] = x}
             B == {l \in L : g[l] \in s \ {x}}
  <2> HIDE DEF x
  <2>2. x \in s BY <2>1 DEF x
  <2>3. IsFiniteSet(A) /\ IsFiniteSet(B) BY FS_Subset
  <2>4. A \cup B = {l \in L : g[l] \in s} /\ A \cap B = {} BY <2>2
  <2>5. Cardinality(A) \in Nat /\ Cardinality(B) \in Nat BY <2>3, FS_CardinalityType
  <2>6. f[x] = Cardinality(A)
    <3>1. Mapped(L, g, {x}) = A BY DEF Mapped
    <3> QED BY <2>2, <3>1
  <2>7. Cardinality(A \cup B) = Cardinality(A) + Cardinality(B)
    <3> HIDE DEF A, B
    <3>1. Cardinality(A \cup B) = Cardinality(A) + Cardinality(B) - Cardinality(A \cap B)
      BY <2>3, FS_Union
    <3>2. Cardinality(A \cap B) = 0 BY <2>4, FS_EmptySet
    <3> QED BY <2>5, <3>1, <3>2
  <2>8. Of(s) = f[x] + Of(s \ {x}) BY <2>4, <2>6, <2>7
  <2> QED BY <2>1, <2>8 DEF x
<1>4. Rule([s \in SUBSET T |-> Of(s)])
  <2> HIDE DEF Of, One
  <2> QED BY <1>2, <1>3
<1>5. ASSUME NEW it, Rule(it) PROVE \A s \in SUBSET T : it[s] = Of(s)
  <2> DEFINE N == {n \in Nat : \A s \in SUBSET T : Cardinality(s) = n => it[s] = Of(s)}
  <2> HIDE DEF Of, One
  <2>1. \A s \in SUBSET T : it[s] = IF s = {} THEN 0 ELSE f[One(s)] + it[s \ {One(s)}]
    BY <1>5
  <2> HIDE DEF Rule
  <2>2. \A s \in SUBSET T : IsFiniteSet(s) /\ Cardinality(s) \in Nat
    BY FS_Subset, FS_CardinalityType
  <2>3. 0 \in N
    <3> SUFFICES ASSUME NEW s \in SUBSET T, Cardinality(s) = 0 PROVE it[s] = Of(s) OBVIOUS
    <3>1. s = {} BY <2>2, FS_EmptySet
    <3> QED BY <3>1, <2>1, <1>2
  <2>4. ASSUME NEW n \in Nat, n \in N PROVE n + 1 \in N
    <3> SUFFICES ASSUME NEW s \in SUBSET T, Cardinality(s) = n + 1 PROVE it[s] = Of(s)
      OBVIOUS
    <3>1. s # {} BY FS_EmptySet
    <3>2. One(s) \in s /\ Of(s) = f[One(s)] + Of(s \ {One(s)}) BY <3>1, <1>3
    <3>3. Cardinality(s \ {One(s)}) = n BY <2>2, <3>2, FS_RemoveElement
    <3>4. it[s \ {One(s)}] = Of(s \ {One(s)}) BY <2>4, <3>3
    <3> QED BY <2>1, <3>1, <3>2, <3>4
  <2>5. Nat \subseteq N
    <3> HIDE DEF N
    <3> QED BY <2>3, <2>4, Induction
  <2> QED BY <2>2, <2>5
<1> HIDE DEF Rule, Of
<1>6. Rule(CHOOSE it : Rule(it)) BY <1>4
<1>7. T \in SUBSET T OBVIOUS
<1>8. (CHOOSE it : Rule(it))[T] = Of(T) BY <1>5, <1>6, <1>7
<1> QED BY <1>1, <1>8 DEF Of, Mapped
=============================================================================
