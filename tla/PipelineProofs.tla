--------------------------- MODULE PipelineProofs ---------------------------
(***************************************************************************)
(* What TLAPS proves of Pipeline, for any number of overlapping runs and   *)
(* any set of configs.                                                     *)
(***************************************************************************)
EXTENDS Pipeline, FiniteSetTheorems, SequenceTheorems, TLAPS

Labels == {"idle", "prepare", "fetch", "validate", "write", "summary", "pull", "push",
           "done", "failed"}
Lines == Configs \cup {Torn}
Trees == [configs : SUBSET Lines, by : SUBSET (Runs \cup {Setup}),
          readme : SUBSET (Runs \cup {Setup})]

TypeInv == /\ branch \in Seq(Trees) /\ branch # << >>
           /\ pc \in [Runs -> Labels]
           /\ base \in [Runs -> 0 .. Len(branch)]
           /\ work \in [Runs -> Trees]
           /\ fetched \in [Runs -> SUBSET Lines]
           /\ passed \in [Runs -> SUBSET Lines]
           /\ moved \subseteq Runs /\ short \subseteq Runs

(* The runs whose working tree holds what they wrote and nothing else, and *)
(* what writing may make of what passed.                                   *)
Own(r) == pc[r] \in {"summary", "pull"} \/ (pc[r] = "push" /\ r \notin moved)
OfRun(r) == /\ work[r].by = {r} /\ work[r].configs \subseteq passed[r] \cup Damaged(r)
            /\ r \notin short => work[r].configs = passed[r]
Unmerged(r) == pc[r] \in {"prepare", "fetch", "validate", "write"} \/ Own(r)

(* What a run carries towards its push, relative to the commit it is based *)
(* on: this is what PublishedWhole, OneRun and NoReturn rest on.           *)
RunInv == \A r \in Runs :
  /\ pc[r] # "idle" => base[r] >= 1
  /\ pc[r] \in {"write", "summary", "pull", "push"} => passed[r] \subseteq fetched[r]
  /\ pc[r] \in {"summary", "pull", "push"} => r \in work[r].by
  /\ pc[r] \in {"idle", "prepare", "fetch", "validate", "write"} => r \notin short
  /\ Own(r) => OfRun(r)
  /\ Unmerged(r) => work[r].readme \in {{r}, branch[base[r]].readme}
  /\ pc[r] = "push" =>
       work[r].configs \subseteq passed[r] \cup Damaged(r)
                                \cup IF r \in moved THEN branch[base[r]].configs ELSE {}
  /\ r \in short => passed[r] # {}

(* The part of PublishedWhole about one commit and one run.                *)
Whole(r, k) == /\ pc[r] = "done" /\ r \in branch[k].by
               /\ branch[k].configs \subseteq passed[r] \cup Foreign(r, k) \cup Damaged(r)
               /\ r \notin moved \cup short => branch[k].configs = passed[r]

Inv == TypeInv /\ RunInv /\ PublishedWhole /\ OneRun

(* A branch only grows at its end.                                         *)
LEMMA Grown == ASSUME NEW S, NEW s \in Seq(S), s # << >>, NEW x \in S
               PROVE  /\ Append(s, x) \in Seq(S) /\ Append(s, x) # << >>
                      /\ Len(Append(s, x)) = Len(s) + 1
                      /\ Append(s, x)[Len(s) + 1] = x
                      /\ \A k \in 1 .. Len(s) : Append(s, x)[k] = s[k]
                      /\ Len(s) \in Nat /\ Len(s) >= 1 /\ s[Len(s)] \in S
BY AppendProperties, EmptySeq, SMT

LEMMA InitInv == ASSUME Init PROVE Inv
<1>1. branch = <<Tree(Configs, {Setup}, {Setup})>> /\ Len(branch) = 1
      /\ branch[1] = Tree(Configs, {Setup}, {Setup}) /\ Tree(Configs, {Setup}, {Setup}) \in Trees
  BY DEF Init, Tree, Trees, Lines
<1>2. branch \in Seq(Trees) /\ branch # << >>
  BY <1>1
<1>3. TypeInv
  BY <1>1, <1>2 DEF Init, TypeInv, Labels, Lines
<1>4. RunInv
  BY DEF Init, RunInv, Own, Unmerged, OfRun, Damaged
<1>5. PublishedWhole /\ OneRun
  BY <1>1 DEF PublishedWhole, OneRun
<1> QED BY <1>3, <1>4, <1>5 DEF Inv

(* What is published is not touched by a step of a run that is not a push, *)
(* nor is the step one of a run that is done.                              *)
LEMMA Untouched ==
  ASSUME Inv, NEW r \in Runs, branch' = branch, pc' = [pc EXCEPT ![r] = pc'[r]],
         pc[r] # "done", moved \subseteq moved', moved' \subseteq moved \cup {r},
         short \subseteq short', short' \subseteq short \cup {r},
         \A s \in Runs \ {r} : passed'[s] = passed[s]
  PROVE  PublishedWhole' /\ OneRun'
<1>1. PublishedWhole'
  <2> SUFFICES ASSUME NEW k \in 2 .. Len(branch)
               PROVE  \E s \in Runs : Whole(s, k)'
    BY DEF PublishedWhole, Whole
  <2>1. PICK s \in Runs : Whole(s, k)
    BY DEF Inv, PublishedWhole, Whole
  <2>2. s # r /\ pc'[s] = pc[s]
    BY <2>1 DEF Inv, TypeInv, Whole
  <2>3. (s \in moved' <=> s \in moved) /\ (s \in short' <=> s \in short)
        /\ passed'[s] = passed[s]
    BY <2>2
  <2>4. Whole(s, k)'
    BY <2>1, <2>2, <2>3 DEF Whole, Foreign, Damaged
  <2> QED BY <2>4
<1>2. OneRun'
  BY DEF Inv, OneRun
<1> QED BY <1>1, <1>2

LEMMA CheckoutInv == ASSUME Inv, NEW r \in Runs, Checkout(r) PROVE Inv'
<1>1. Main \in Trees /\ Len(branch) \in Nat /\ Len(branch) >= 1 /\ Main = branch[Len(branch)]
  BY DEF Inv, TypeInv, Main, Last
<1>2. TypeInv'
  BY <1>1 DEF Inv, TypeInv, Checkout, Goto, Labels
<1>3. RunInv'
  BY <1>1 DEF Inv, TypeInv, RunInv, Checkout, Goto, Own, Unmerged, OfRun, Damaged, Labels
<1>4. PublishedWhole' /\ OneRun'
  BY Untouched DEF Checkout, Goto, Inv, TypeInv
<1> QED BY <1>2, <1>3, <1>4 DEF Inv

LEMMA PrepareInv == ASSUME Inv, NEW r \in Runs, Prepare(r) PROVE Inv'
<1>1. TypeInv'
  BY DEF Inv, TypeInv, Prepare, Goto, Labels, Trees
<1>2. RunInv'
  BY DEF Inv, TypeInv, RunInv, Prepare, Goto, Own, Unmerged, OfRun, Damaged, Labels, Trees
<1>3. PublishedWhole' /\ OneRun'
  BY Untouched DEF Prepare, Goto, Inv, TypeInv
<1> QED BY <1>1, <1>2, <1>3 DEF Inv

LEMMA FetchInv == ASSUME Inv, NEW r \in Runs, Fetch(r) PROVE Inv'
<1>1. Main \in Trees
  BY DEF Inv, TypeInv, Main, Last
<1>2. TypeInv'
  BY <1>1 DEF Inv, TypeInv, Fetch, Goto, Labels, Trees
<1>3. RunInv'
  BY DEF Inv, TypeInv, RunInv, Fetch, Goto, Own, Unmerged, OfRun, Damaged, Labels
<1>4. PublishedWhole' /\ OneRun'
  BY Untouched DEF Fetch, Goto, Inv, TypeInv
<1> QED BY <1>2, <1>3, <1>4 DEF Inv

LEMMA ValidateInv == ASSUME Inv, NEW r \in Runs, Validate(r) PROVE Inv'
<1>1. PICK good \in SUBSET fetched[r] : passed' = [passed EXCEPT ![r] = good]
  BY DEF Validate
<1>2. TypeInv'
  BY <1>1 DEF Inv, TypeInv, Validate, Goto, Labels
<1>3. RunInv'
  BY <1>1 DEF Inv, TypeInv, RunInv, Validate, Goto, Own, Unmerged, OfRun, Damaged, Labels
<1>4. PublishedWhole' /\ OneRun'
  BY <1>1, Untouched DEF Validate, Goto, Inv, TypeInv
<1> QED BY <1>2, <1>3, <1>4 DEF Inv

LEMMA WriteOutputFilesInv == ASSUME Inv, NEW r \in Runs, WriteOutputFiles(r) PROVE Inv'
<1>1. PICK files \in Written(passed[r]) :
        /\ work' = [work EXCEPT ![r].configs = files, ![r].by = {r}]
        /\ short' = IF files = passed[r] THEN short ELSE short \cup {r}
  BY DEF WriteOutputFiles
<1>2. files \in SUBSET Lines /\ files \subseteq passed[r] \cup {Torn}
      /\ (files # passed[r] => passed[r] # {})
  <2>1. passed[r] \subseteq Lines /\ Torn \in Lines
    BY DEF Inv, TypeInv, Lines
  <2>2. CASE files = passed[r]
    BY <2>1, <2>2
  <2>3. CASE \E rest \in (SUBSET passed[r]) \ {passed[r]}, end \in SUBSET {Torn} :
               files = rest \cup end
    <3>1. PICK rest \in (SUBSET passed[r]) \ {passed[r]}, end \in SUBSET {Torn} :
                 files = rest \cup end
      BY <2>3
    <3>2. rest \subseteq passed[r] /\ rest # passed[r] /\ end \subseteq {Torn}
      BY <3>1
    <3>3. files \subseteq passed[r] \cup {Torn}
      BY <3>1, <3>2
    <3>4. passed[r] # {}
      BY <3>2
    <3> QED BY <2>1, <3>3, <3>4
  <2> QED BY <1>1, <2>2, <2>3 DEF Written
<1>3. /\ work'[r].configs = files /\ work'[r].by = {r} /\ work'[r].readme = work[r].readme
      /\ \A s \in Runs \ {r} : work'[s] = work[s]
      /\ work' \in [Runs -> Trees]
  BY <1>1, <1>2 DEF Inv, TypeInv, Trees
<1>4. /\ pc[r] = "write" /\ pc' = [pc EXCEPT ![r] = "summary"] /\ r \notin short
      /\ UNCHANGED <<branch, base, fetched, passed, moved>>
  BY DEF WriteOutputFiles, Goto, Inv, RunInv
<1>5. TypeInv'
  BY <1>1, <1>3, <1>4 DEF Inv, TypeInv, Labels
<1>6. RunInv'
  <2>1. OfRun(r)'
    BY <1>1, <1>2, <1>3, <1>4 DEF OfRun, Damaged
  <2>2. r \in short' => passed[r] # {}
    BY <1>1, <1>2, <1>4
  <2>3. pc'[r] = "summary" /\ \A s \in Runs \ {r} : pc'[s] = pc[s] /\ (s \in short' <=> s \in short)
    BY <1>1, <1>4 DEF Inv, TypeInv
  <2> QED BY <1>3, <1>4, <2>1, <2>2, <2>3 DEF Inv, RunInv, Own, Unmerged, OfRun, Damaged
<1>7. PublishedWhole' /\ OneRun'
  BY <1>1, <1>4, Untouched DEF Inv, TypeInv
<1> QED BY <1>5, <1>6, <1>7 DEF Inv

LEMMA WriteSummaryInv == ASSUME Inv, NEW r \in Runs, WriteSummary(r) PROVE Inv'
<1>1. /\ work'[r].configs = work[r].configs /\ work'[r].by = work[r].by
      /\ work'[r].readme \in {{r}, work[r].readme}
      /\ \A s \in Runs \ {r} : work'[s] = work[s]
      /\ work' \in [Runs -> Trees]
  <2>1. CASE work' = [work EXCEPT ![r].readme = {r}]
    BY <2>1 DEF Inv, TypeInv, Trees
  <2>2. CASE work' = work
    BY <2>2 DEF Inv, TypeInv, Trees
  <2> QED BY <2>1, <2>2 DEF WriteSummary, Replaced
<1>2. TypeInv'
  BY <1>1 DEF Inv, TypeInv, WriteSummary, Goto, Labels
<1>3. RunInv'
  BY <1>1 DEF Inv, TypeInv, RunInv, WriteSummary, Goto, Own, Unmerged, OfRun, Damaged, Labels
<1>4. PublishedWhole' /\ OneRun'
  BY Untouched DEF WriteSummary, Goto, Inv, TypeInv
<1> QED BY <1>2, <1>3, <1>4 DEF Inv

LEMMA FailInv == ASSUME Inv, NEW r \in Runs, Fail(r) PROVE Inv'
<1>1. TypeInv'
  BY DEF Inv, TypeInv, Fail, Goto, Labels
<1>2. RunInv'
  BY DEF Inv, TypeInv, RunInv, Fail, Goto, Own, Unmerged, OfRun, Damaged, Labels
<1>3. PublishedWhole' /\ OneRun'
  BY Untouched DEF Fail, Goto, Inv, TypeInv
<1> QED BY <1>1, <1>2, <1>3 DEF Inv

(* What the pull leaves comes from one of the two sides, whichever way git *)
(* put them together.                                                      *)
LEMMA MergedTree ==
  ASSUME Inv, NEW r \in Runs, pc[r] = "pull", NEW tree \in Merged(r)
  PROVE  /\ tree \in Trees /\ r \in tree.by
         /\ tree.configs \subseteq passed[r] \cup Damaged(r) \cup Main.configs
<1>1. Main \in Trees /\ work[r] \in Trees /\ r \in work[r].by
      /\ work[r].configs \subseteq passed[r] \cup Damaged(r)
  BY DEF Inv, TypeInv, RunInv, Own, OfRun, Main, Last
<1>2. /\ tree.configs \in {Merge3(branch[base[r]].configs, Main.configs, work[r].configs),
                            Main.configs \cup work[r].configs}
      /\ tree.by = Main.by \cup work[r].by
      /\ tree.readme \in {Main.readme, work[r].readme, Main.readme \cup work[r].readme}
      /\ tree = Tree(tree.configs, tree.by, tree.readme)
  BY DEF Merged, Tree
<1>3. tree.configs \subseteq Main.configs \cup work[r].configs
  BY <1>2 DEF Merge3
<1>4. tree \in Trees
  BY <1>1, <1>2, <1>3 DEF Tree, Trees
<1> QED BY <1>1, <1>2, <1>3, <1>4

LEMMA PullInv == ASSUME Inv, NEW r \in Runs, Pull(r) PROVE Inv'
<1>1. Main \in Trees /\ Len(branch) \in Nat /\ Len(branch) >= 1 /\ Main = branch[Len(branch)]
  BY DEF Inv, TypeInv, Main, Last
<1>2. /\ pc[r] = "pull" /\ pc' = [pc EXCEPT ![r] = "push"]
      /\ base' = [base EXCEPT ![r] = Len(branch)]
      /\ UNCHANGED <<branch, fetched, passed, short>>
  BY DEF Pull, Goto
<1>3. CASE work' = work /\ moved' = moved /\ base[r] = Len(branch)
  <2>1. TypeInv'
    BY <1>1, <1>2, <1>3 DEF Inv, TypeInv, Labels
  <2>2. RunInv'
    BY <1>1, <1>2, <1>3 DEF Inv, TypeInv, RunInv, Own, Unmerged, OfRun, Damaged, Labels
  <2>3. PublishedWhole' /\ OneRun'
    BY <1>2, <1>3, Untouched DEF Inv, TypeInv
  <2> QED BY <2>1, <2>2, <2>3 DEF Inv
<1>4. CASE \E tree \in Merged(r) : work' = [work EXCEPT ![r] = tree] /\ moved' = moved \cup {r}
  <2>1. PICK tree \in Merged(r) : work' = [work EXCEPT ![r] = tree]
    BY <1>4
  <2>2. /\ tree \in Trees /\ r \in tree.by
        /\ tree.configs \subseteq passed[r] \cup Damaged(r) \cup Main.configs
    BY <1>2, MergedTree
  <2>3. TypeInv'
    BY <1>1, <1>2, <1>4, <2>1, <2>2 DEF Inv, TypeInv, Labels
  <2>4. RunInv'
    BY <1>1, <1>2, <1>4, <2>1, <2>2 DEF Inv, TypeInv, RunInv, Own, Unmerged, OfRun, Damaged, Labels
  <2>5. PublishedWhole' /\ OneRun'
    BY <1>2, <1>4, Untouched DEF Inv, TypeInv
  <2> QED BY <2>3, <2>4, <2>5 DEF Inv
<1> QED BY <1>3, <1>4 DEF Pull

LEMMA PushInv == ASSUME Inv, NEW r \in Runs, Push(r) PROVE Inv'
<1>1. /\ branch \in Seq(Trees) /\ branch # << >> /\ work[r] \in Trees
      /\ Len(branch) \in Nat /\ Len(branch) >= 1 /\ Main = branch[Len(branch)]
  BY DEF Inv, TypeInv, Main, Last
<1>2. /\ pc[r] = "push" /\ pc' = [pc EXCEPT ![r] = "done"] /\ base[r] = Len(branch)
      /\ UNCHANGED <<base, work, fetched, passed, moved, short>>
  BY DEF Push, Goto
<1>3. CASE branch' = branch
  <2>1. TypeInv' /\ RunInv'
    BY <1>2, <1>3 DEF Inv, TypeInv, RunInv, Own, Unmerged, OfRun, Damaged, Labels
  <2>2. PublishedWhole' /\ OneRun'
    BY <1>2, <1>3, Untouched DEF Inv, TypeInv
  <2> QED BY <2>1, <2>2 DEF Inv
<1>4. CASE branch' = Append(branch, work[r])
  <2>1. /\ branch' \in Seq(Trees) /\ branch' # << >> /\ Len(branch') = Len(branch) + 1
        /\ branch'[Len(branch) + 1] = work[r]
        /\ \A k \in 1 .. Len(branch) : branch'[k] = branch[k]
    BY <1>1, <1>4, Grown
  <2>2. TypeInv'
    BY <1>1, <1>2, <2>1 DEF Inv, TypeInv, Labels
  <2>3. RunInv'
    BY <1>1, <1>2, <2>1 DEF Inv, TypeInv, RunInv, Own, Unmerged, OfRun, Damaged, Labels
  <2>4. PublishedWhole'
    <3> SUFFICES ASSUME NEW k \in 2 .. Len(branch) + 1
                 PROVE  \E s \in Runs : Whole(s, k)'
      BY <2>1 DEF PublishedWhole, Whole
    <3>1. CASE k = Len(branch) + 1
      <4>1. branch'[k] = work[r] /\ branch'[k - 1] = branch[base[r]] /\ pc'[r] = "done"
        BY <3>1, <1>1, <1>2, <2>1 DEF Inv, TypeInv
      <4>2. /\ r \in work[r].by
            /\ work[r].configs \subseteq passed[r] \cup Damaged(r) \cup
                                        IF r \in moved THEN branch[base[r]].configs ELSE {}
            /\ r \notin moved \cup short => work[r].configs = passed[r]
        BY <1>2 DEF Inv, RunInv, Own, OfRun
      <4>3. Whole(r, k)'
        BY <4>1, <4>2, <1>2 DEF Whole, Foreign, Damaged
      <4> QED BY <4>3
    <3>2. CASE k \in 2 .. Len(branch)
      <4>1. branch'[k] = branch[k] /\ branch'[k - 1] = branch[k - 1]
        BY <3>2, <1>1, <2>1
      <4>2. PICK s \in Runs : Whole(s, k)
        BY <3>2 DEF Inv, PublishedWhole, Whole
      <4>3. pc'[s] = "done"
        BY <4>2, <1>2 DEF Inv, TypeInv, Whole
      <4>4. Whole(s, k)'
        BY <4>1, <4>2, <4>3, <1>2 DEF Whole, Foreign, Damaged
      <4> QED BY <4>4
    <3> QED BY <3>1, <3>2, <1>1
  <2>5. OneRun'
    <3> SUFFICES ASSUME moved = {}, NEW k \in 2 .. Len(branch) + 1
                 PROVE  /\ Cardinality(branch'[k].by) = 1
                        /\ branch'[k].readme \in {branch'[k].by, branch'[k - 1].readme}
      BY <1>2, <2>1 DEF OneRun
    <3>1. CASE k = Len(branch) + 1
      <4>1. work[r].by = {r} /\ work[r].readme \in {{r}, branch[Len(branch)].readme}
        BY <1>2 DEF Inv, RunInv, Own, Unmerged, OfRun
      <4>2. Cardinality({r}) = 1
        BY FS_Singleton
      <4>3. branch'[k] = work[r] /\ branch'[k - 1] = branch[Len(branch)]
        BY <3>1, <1>1, <2>1
      <4> QED BY <4>1, <4>2, <4>3
    <3>2. CASE k \in 2 .. Len(branch)
      BY <3>2, <1>1, <2>1 DEF Inv, OneRun
    <3> QED BY <3>1, <3>2, <1>1
  <2> QED BY <2>2, <2>3, <2>4, <2>5 DEF Inv
<1> QED BY <1>3, <1>4 DEF Push

LEMMA NextInv == Inv /\ [Next]_vars => Inv'
<1> SUFFICES ASSUME Inv, [Next]_vars PROVE Inv'
  OBVIOUS
<1>1. CASE \E r \in Runs : Step(r)
  BY <1>1, CheckoutInv, PrepareInv, FetchInv, ValidateInv, WriteOutputFilesInv,
     WriteSummaryInv, FailInv, PullInv, PushInv DEF Step
<1>2. CASE UNCHANGED vars
  <2>1. TypeInv' /\ OneRun'
    BY <1>2 DEF vars, Inv, TypeInv, OneRun
  <2>2. RunInv'
    BY <1>2 DEF vars, Inv, RunInv, Own, Unmerged, OfRun, Damaged
  <2>3. PublishedWhole'
    BY <1>2 DEF vars, Inv, PublishedWhole, Foreign, Damaged
  <2> QED BY <2>1, <2>2, <2>3 DEF Inv
<1> QED BY <1>1, <1>2 DEF Next, Finished

-----------------------------------------------------------------------------
(* The results. *)

(* Whatever fails, is cancelled or overlaps, a published tree is that of a *)
(* run that came to its end and holds nothing but what passed in it, what  *)
(* was published before and merged by its pull, and a line cut off where a *)
(* file could not be filled; and all that passed, if neither happened.     *)
THEOREM PublishesWholeRuns == Spec => []PublishedWhole
<1>1. Inv => PublishedWhole
  BY DEF Inv
<1> QED BY InitInv, NextInv, <1>1, PTL DEF Spec

(* Without overlaps every published tree is one run's, and its README.md   *)
(* tells of that run, or is the one published before.                      *)
THEOREM PublishesOneRun == Spec => []OneRun
<1>1. Inv => OneRun
  BY DEF Inv
<1> QED BY InitInv, NextInv, <1>1, PTL DEF Spec

LEMMA StaysExtinct == ASSUME Inv, [Next]_vars, Extinct PROVE Extinct'
<1>1. Main.configs = {} /\ \A r \in Runs : pc[r] \in Carrying => fetched[r] = {}
  BY DEF Extinct
<1>2. CASE UNCHANGED vars
  BY <1>2, <1>1 DEF vars, Extinct, Main
<1>3. CASE \E r \in Runs : Step(r)
  <2>1. PICK r \in Runs : Step(r)
    BY <1>3
  <2>2. CASE Push(r)
    <3>1. /\ work[r].configs \subseteq passed[r] \cup Damaged(r) \cup branch[Len(branch)].configs
          /\ passed[r] \subseteq fetched[r] /\ fetched[r] = {} /\ r \notin short
      BY <1>1, <2>2 DEF Push, Inv, RunInv, Carrying
    <3>2. work[r].configs = {}
      BY <3>1, <1>1 DEF Main, Last, Damaged
    <3>3. Main'.configs = {}
      <4>1. CASE branch' = branch
        BY <4>1, <1>1 DEF Main
      <4>2. CASE branch' = Append(branch, work[r])
        <5>1. branch'[Len(branch')] = work[r]
          BY <4>2, Grown DEF Inv, TypeInv
        <5> QED BY <5>1, <3>2 DEF Main, Last
      <4> QED BY <2>2, <4>1, <4>2 DEF Push
    <3>4. \A s \in Runs : pc'[s] \in Carrying => fetched'[s] = {}
      BY <2>2, <1>1 DEF Push, Goto, Carrying, Inv, TypeInv
    <3> QED BY <3>3, <3>4 DEF Extinct
  <2>3. CASE ~Push(r)
    <3>1. branch' = branch /\ Main' = Main
      BY <2>1, <2>3 DEF Step, Checkout, Prepare, Fetch, Validate, WriteOutputFiles,
         WriteSummary, Fail, Pull, Main
    <3>2. \A s \in Runs : pc'[s] \in Carrying => fetched'[s] = {}
      BY <2>1, <2>3, <1>1 DEF Step, Checkout, Prepare, Fetch, Validate, WriteOutputFiles,
         WriteSummary, Fail, Pull, Goto, Carrying, Inv, TypeInv
    <3> QED BY <1>1, <3>1, <3>2 DEF Extinct
  <2> QED BY <2>2, <2>3
<1> QED BY <1>2, <1>3 DEF Next, Finished

(* Once nothing is published and no run carries anything, no run will ever *)
(* publish a config again.                                                 *)
THEOREM NothingReturns == Spec => NoReturn
<1>1. Inv /\ [Next]_vars => [Extinct => Extinct']_vars
  BY StaysExtinct
<1> QED BY InitInv, NextInv, <1>1, PTL DEF Spec, NoReturn
=============================================================================
