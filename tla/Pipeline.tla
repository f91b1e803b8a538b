------------------------------ MODULE Pipeline -------------------------------
(***************************************************************************)
(* Publication: runs of the workflow .github/workflows/update-configs.yml, *)
(* and in each of them main of src/main.go. A run checks the repository out*)
(* and lets the program delete config/, fetch, validate and write; then it *)
(* commits config/ and README.md and pushes. The only source in sub.txt is *)
(* config/protocols/vless.txt of the branch the runs push to (the one that *)
(* writeSummary links, writer.go 1473), so what a run publishes is what the*)
(* next one fetches. The workflow has a schedule and a button and nothing  *)
(* that keeps two runs apart.                                              *)
(*                                                                         *)
(* A tree is the configs in it, the runs that wrote them, and the runs its *)
(* README.md tells of. What git does to two of them is what git 2.39 does. *)
(***************************************************************************)
EXTENDS Integers, Sequences, FiniteSets, SequencesExt

CONSTANTS Runs, Configs,
          Setup,    \* stands for whoever published before
          Torn      \* what is left of a line where a file has been cut off

ASSUME PipelineAssumption == Setup \notin Runs /\ Torn \notin Configs

VARIABLES
  branch,     \* the trees of branch main, the last one is its head
  pc,         \* each run
  base,       \* the commit its checkout, and later its pull, ended at
  work,       \* its working tree
  fetched,    \* lines of vless.txt it got
  passed,     \* results of validateAll
  moved,      \* history: runs whose pull found new commits
  short       \* history: runs whose files do not hold all that passed

vars == <<branch, pc, base, work, fetched, passed, moved, short>>

Tree(configs, by, readme) == [configs |-> configs, by |-> by, readme |-> readme]
Main == Last(branch)

Init == /\ branch = <<Tree(Configs, {Setup}, {Setup})>>
        /\ pc = [r \in Runs |-> "idle"]
        /\ base = [r \in Runs |-> 0]
        /\ work = [r \in Runs |-> branch[1]]
        /\ fetched = [r \in Runs |-> {}] /\ passed = [r \in Runs |-> {}]
        /\ moved = {} /\ short = {}

Goto(r, l) == pc' = [pc EXCEPT ![r] = l]

Checkout(r) == /\ pc[r] = "idle"
               /\ work' = [work EXCEPT ![r] = Main]
               /\ base' = [base EXCEPT ![r] = Len(branch)]
               /\ Goto(r, "prepare")
               /\ UNCHANGED <<branch, fetched, passed, moved, short>>

(* prepareOutputDirs deletes config/ before anything is known.             *)
Prepare(r) == /\ pc[r] = "prepare"
              /\ work' = [work EXCEPT ![r].configs = {}]
              /\ Goto(r, "fetch")
              /\ UNCHANGED <<branch, base, fetched, passed, moved, short>>

(* Without configs there is no vless.txt, and no answer but 404; and the   *)
(* server may fail to answer. Mutant: there are other sources.             *)
FetchOthers(r) == /\ pc[r] = "fetch"
                  /\ \E lines \in SUBSET Configs : fetched' = [fetched EXCEPT ![r] = lines]
                  /\ Goto(r, "validate")
                  /\ UNCHANGED <<branch, base, work, passed, moved, short>>
Fetch(r) == /\ pc[r] = "fetch"
            /\ \E lines \in {Main.configs, {}} : fetched' = [fetched EXCEPT ![r] = lines]
            /\ Goto(r, "validate")
            /\ UNCHANGED <<branch, base, work, passed, moved, short>>

(* Any config may fail the validation, whatever happened yesterday.        *)
Validate(r) == /\ pc[r] = "validate"
               /\ \E good \in SUBSET fetched[r] : passed' = [passed EXCEPT ![r] = good]
               /\ Goto(r, "write")
               /\ UNCHANGED <<branch, base, work, fetched, moved, short>>

(* A file that cannot be created or filled is passed over: lines are left *)
(* out, and the last one may be cut off in the middle.                     *)
Written(good) == {good} \cup {rest \cup end : rest \in (SUBSET good) \ {good},
                                            end \in SUBSET {Torn}}

WriteOutputFiles(r) == /\ pc[r] = "write"
                       /\ \E files \in Written(passed[r]) :
                            /\ work' = [work EXCEPT ![r].configs = files, ![r].by = {r}]
                            /\ short' = IF files = passed[r] THEN short ELSE short \cup {r}
                       /\ Goto(r, "summary")
                       /\ UNCHANGED <<branch, base, fetched, passed, moved>>

(* If README.md cannot be created it stays as it was checked out. Mutant:  *)
(* the new text is appended to the old.                                    *)
Appended(r) == work[r].readme \cup {r}
Replaced(r) == {r}

WriteSummary(r) == /\ pc[r] = "summary"
                   /\ \/ work' = [work EXCEPT ![r].readme = Replaced(r)]
                      \/ UNCHANGED work
                   /\ Goto(r, "pull")
                   /\ UNCHANGED <<branch, base, fetched, passed, moved, short>>

(* A step fails (os.Exit in main among them), the run is cancelled, or its *)
(* 350 minutes are over. Mutant: the last step runs nevertheless.          *)
CommitAnyway(r) == /\ pc[r] \in {"prepare", "fetch", "validate", "write", "summary"}
                   /\ Goto(r, "pull")
                   /\ UNCHANGED <<branch, base, work, fetched, passed, moved, short>>
Fail(r) == /\ pc[r] \notin {"idle", "failed", "done"}
           /\ Goto(r, "failed")
           /\ UNCHANGED <<branch, base, work, fetched, passed, moved, short>>

(* git pull --rebase --autostash. If the head has moved, the local changes *)
(* are stashed, the branch is brought forward and they are applied again:  *)
(* what both sides changed is merged line by line, or left with both texts *)
(* between conflict markers; both end the command without an error, and git*)
(* add then takes the files as they are. A new file that both sides have   *)
(* makes the pull fail (Fail).                                             *)
Merge3(old, ours, theirs) == ((ours \cap theirs) \cup ((ours \cup theirs) \ old))

Merged(r) ==
  LET old == branch[base[r]]
  IN  {Tree(configs, Main.by \cup work[r].by,
            IF work[r].readme = old.readme THEN Main.readme
            ELSE IF Main.readme = old.readme THEN work[r].readme
            ELSE Main.readme \cup work[r].readme) :
       configs \in {Merge3(old.configs, Main.configs, work[r].configs),
                    Main.configs \cup work[r].configs}}

Pull(r) == /\ pc[r] = "pull"
           /\ IF base[r] = Len(branch) THEN UNCHANGED <<work, moved>>
              ELSE /\ \E tree \in Merged(r) : work' = [work EXCEPT ![r] = tree]
                   /\ moved' = moved \cup {r}
           /\ base' = [base EXCEPT ![r] = Len(branch)]
           /\ Goto(r, "push")
           /\ UNCHANGED <<branch, fetched, passed, short>>

(* git commit, if there are changes, and git push, which is rejected (Fail)*)
(* when the head has moved again.                                          *)
Push(r) == /\ pc[r] = "push" /\ base[r] = Len(branch)
           /\ branch' = IF work[r] = Main THEN branch ELSE Append(branch, work[r])
           /\ Goto(r, "done")
           /\ UNCHANGED <<base, work, fetched, passed, moved, short>>

Step(r) == \/ Checkout(r) \/ Prepare(r) \/ Fetch(r) \/ Validate(r)
           \/ WriteOutputFiles(r) \/ WriteSummary(r) \/ Fail(r) \/ Pull(r) \/ Push(r)
Finished == (\A r \in Runs : pc[r] \in {"done", "failed"}) /\ UNCHANGED vars

Next == (\E r \in Runs : Step(r)) \/ Finished

Spec == Init /\ [][Next]_vars

-----------------------------------------------------------------------------
(* Properties. *)

(* Nothing of a run is published unless it came to its end: an empty or   *)
(* half-written config/ of a run that failed or was cancelled stays where  *)
(* it is. What is published then has passed in that run, or was published  *)
(* just before and merged with it by a pull that found new commits, or is  *)
(* a line cut off in the middle; and it is all that passed, unless a file  *)
(* could not be written in full, which no error tells, or was merged.      *)
Foreign(r, k) == IF r \in moved THEN branch[k - 1].configs ELSE {}
Damaged(r) == IF r \in short THEN {Torn} ELSE {}

PublishedWhole == \A k \in 2 .. Len(branch) : \E r \in Runs :
  /\ pc[r] = "done" /\ r \in branch[k].by
  /\ branch[k].configs \subseteq passed[r] \cup Foreign(r, k) \cup Damaged(r)
  /\ r \notin moved \cup short => branch[k].configs = passed[r]

(* A published README.md tells of the run whose configs are published with *)
(* it - or of earlier ones, if it could not be written - as long as no two *)
(* runs overlapped.                                                        *)
OneRun == moved = {} => \A k \in 2 .. Len(branch) :
  /\ Cardinality(branch[k].by) = 1
  /\ branch[k].readme \in {branch[k].by, branch[k - 1].readme}

(* No configs are published, and no run is on its way to publish any.      *)
Carrying == {"validate", "write", "summary", "pull", "push"}
Extinct == Main.configs = {} /\ \A r \in Runs : pc[r] \in Carrying => fetched[r] = {}

(* The program feeds on what it published: when all configs are lost once -*)
(* a single run that cannot fetch is enough - no run publishes one again.  *)
NoReturn == [][Extinct => Extinct']_vars
=============================================================================
