----------------------------- MODULE Validation -----------------------------
(***************************************************************************)
(* validateAll of src/validator.go around its two phases: protocols in     *)
(* order, each shuffled, pinged in batches, the reachable ones tested in   *)
(* batches; then the tallies and printFailureReport.                       *)
(*                                                                         *)
(* A ping batch is one step (it is PingFilter, which TcpPing implements)   *)
(* and so is a test batch (SingBoxBatch has its inside).                   *)
(***************************************************************************)
EXTENDS Integers, Sequences, FiniteSets, FailReason, Selection, SequencesExt

CONSTANTS
  ProtocolOrder,   \* settings.json protocol_order
  Unique,          \* byProto: each protocol's lines, duplicates removed
  PingBatchSize,   \* settings.json tcp_ping_batch_size, 0 or less: no batches
  NumWorkers,      \* settings.json num_workers, 0 or less: 50
  SampleCap,       \* 100: samples kept per cause
  Reasons          \* the reasons a test may fail for

Protocols == DOMAIN Unique
Lines == UNION {ToSet(Unique[p]) : p \in Protocols}
Pass == OtherReason("PASS", {})
NotYet == OtherReason("not yet", {})
Unreachable == OtherReason("unreachable", {})
Outcomes == Reasons \cup {Pass}
Causes == {Classify(r) : r \in Reasons}
Counters == {"passed", "parse", "start", "conn"}

(* A kind of reason for every place validateWithTracker fails at; a text   *)
(* is one of finitely many sets of markers.                                *)
ASSUME ValidationAssumption ==
  /\ IsFiniteSet(Protocols) /\ IsFiniteSet(Reasons)
  /\ ProtocolOrder \in Seq(Protocols) /\ IsInjective(ProtocolOrder)
  /\ \A p \in Protocols : Unique[p] \in Seq(Lines) /\ IsInjective(Unique[p])
  /\ \A p, q \in Protocols : p # q => ToSet(Unique[p]) \cap ToSet(Unique[q]) = {}
  /\ PingBatchSize \in Int /\ NumWorkers \in Int /\ SampleCap \in Nat
  /\ \A r \in Reasons : r.kind \in {"PARSE", "FILE", "START", "SINGBOX_START", "CONN"}

VARIABLES
  stage,       \* "proto", "ping", "test", "done"
  pi,          \* position in ProtocolOrder
  order,       \* protoLines after the shuffle
  pb,          \* ping batches done
  pingPassed,
  pingFailed,  \* pingTotalFailed
  batchIdx,
  tcpAll,      \* tcpPingPassedAll
  out,
  tested, count,
  fails,       \* protoFails[p].reasons, a count per cause
  samples,     \* protoFails[p].samples
  rows,        \* the report's table, a row per protocol
  outcome      \* history: what was found out about each line

loop == <<stage, pi>>
pingVars == <<order, pb, pingPassed, pingFailed>>
tally == <<out, tested, count, fails, samples>>
vars == <<loop, pingVars, batchIdx, tcpAll, tally, rows, outcome>>

Init == /\ stage = "proto" /\ pi = 1
        /\ order = << >> /\ pb = 0 /\ pingPassed = << >> /\ pingFailed = 0
        /\ batchIdx = 0
        /\ tcpAll = << >> /\ out = << >>
        /\ tested = 0 /\ count = [c \in Counters |-> 0]
        /\ fails = [p \in Protocols |-> [c \in Causes |-> 0]]
        /\ samples = [p \in Protocols |-> [c \in Causes |-> << >>]]
        /\ rows = << >>
        /\ outcome = [l \in Lines |-> NotYet]

Proto == ProtocolOrder[pi]

(* ceil(n / size) batches of size; the k-th one, from 0, cut at the end.   *)
(* Mutant: the slices overlap.                                             *)
NumBatches(n, size) == (n + size - 1) \div size
Overlapping(s, k, size) == SubSeq(s, k * size + 1, Min({(k + 1) * size + 1, Len(s)}))
Slice(s, k, size) == SubSeq(s, k * size + 1, Min({(k + 1) * size, Len(s)}))

-----------------------------------------------------------------------------
(* A protocol without lines is passed over. *)
SkipProto == /\ stage = "proto" /\ pi <= Len(ProtocolOrder)
             /\ Unique[Proto] = << >>
             /\ pi' = pi + 1
             /\ UNCHANGED <<stage, pingVars, batchIdx, tcpAll, tally, rows, outcome>>

StartProto == /\ stage = "proto" /\ pi <= Len(ProtocolOrder)
              /\ Unique[Proto] # << >>
              /\ order' \in SetToSeqs(ToSet(Unique[Proto]))
              /\ pb' = 0 /\ pingPassed' = << >> /\ pingFailed' = 0
              /\ stage' = "ping"
              /\ UNCHANGED <<pi, batchIdx, tcpAll, tally, rows, outcome>>

(* effBatchSize; a size of 0, or one past the end, means a single pass.    *)
PingSize == IF PingBatchSize <= 0 \/ PingBatchSize >= Len(order)
            THEN Len(order) ELSE PingBatchSize

PingBatch == /\ stage = "ping" /\ pb < NumBatches(Len(order), PingSize)
             /\ LET lines == Slice(order, pb, PingSize)
                IN  \E up \in SUBSET ToSet(lines) :
                      LET passed == Select(lines, up)
                      IN  /\ pingPassed' = pingPassed \o passed
                          /\ pingFailed' = pingFailed + Len(lines) - Len(passed)
                          /\ outcome' = [l \in Lines |->
                               IF l \in ToSet(lines) \ up THEN Unreachable
                               ELSE outcome[l]]
             /\ pb' = pb + 1
             /\ UNCHANGED <<loop, order, batchIdx, tcpAll, tally, rows>>

EndPing == /\ stage = "ping" /\ pb = NumBatches(Len(order), PingSize)
           /\ tcpAll' = tcpAll \o pingPassed
           /\ batchIdx' = 0
           /\ IF pingPassed = << >> THEN stage' = "proto" /\ pi' = pi + 1
              ELSE stage' = "test" /\ pi' = pi
           /\ UNCHANGED <<pingVars, tally, rows, outcome>>

-----------------------------------------------------------------------------
BatchSize == IF NumWorkers <= 0 THEN 50 ELSE NumWorkers

(* The counter of a result. Mutant: the SINGBOX_START prefix is missed.    *)
CounterMissed(r) == CASE r = Pass -> "passed"
                      [] r.kind = "SINGBOX_START" -> "conn"
                      [] OTHER -> Counter(r)
CounterOf(r) == IF r = Pass THEN "passed" ELSE Counter(r)

(* The lines of a batch that passed, that failed for a cause, that a       *)
(* counter counts.                                                         *)
Passing(res) == {l \in DOMAIN res : res[l] = Pass}
FailingFor(res, c) == {l \in DOMAIN res : res[l] # Pass /\ Classify(res[l]) = c}
CountedAs(res, c) == {l \in DOMAIN res : CounterOf(res[l]) = c}

(* The first lines that failed for a cause. *)
FirstSamples(s) == SubSeq(s, 1, Min({SampleCap, Len(s)}))

TestBatch ==
  /\ stage = "test" /\ batchIdx < NumBatches(Len(pingPassed), BatchSize)
  /\ LET batch == Slice(pingPassed, batchIdx, BatchSize)
     IN  \E res \in [ToSet(batch) -> Outcomes] :
           LET Failing(c) == Select(batch, FailingFor(res, c))
           IN  /\ out' = out \o Select(batch, Passing(res))
               /\ count' = [c \in Counters |->
                    count[c] + Len(Select(batch, CountedAs(res, c)))]
               /\ fails' = [fails EXCEPT ![Proto] =
                    [c \in Causes |-> @[c] + Len(Failing(c))]]
               /\ samples' = [samples EXCEPT ![Proto] =
                    [c \in Causes |-> FirstSamples(@[c] \o Failing(c))]]
               /\ tested' = tested + Len(batch)
               /\ outcome' = [l \in Lines |->
                    IF l \in ToSet(batch) THEN res[l] ELSE outcome[l]]
  /\ batchIdx' = batchIdx + 1
  /\ UNCHANGED <<loop, pingVars, tcpAll, rows>>

EndTest == /\ stage = "test" /\ batchIdx = NumBatches(Len(pingPassed), BatchSize)
           /\ stage' = "proto" /\ pi' = pi + 1
           /\ UNCHANGED <<pingVars, batchIdx, tcpAll, tally, rows, outcome>>

-----------------------------------------------------------------------------
(* printFailureReport. *)

InSection(p, section) == SumFunctionOnSet(fails[p], {c \in Causes : c[1] = section})
TotalFails(p) == SumFunction(fails[p])

(* What a pass rate is relative to. Mutant: the lines that were tested.    *)
TestedLines(p) == Max({1, Len(Select(tcpAll, ToSet(Unique[p])))})
AllLines(p) == Len(Unique[p])

(* The bar has 20 cells: strings.Repeat is called with its length and with *)
(* 20 minus its length, and panics on a negative count.                    *)
BarLen(passed, total) == (passed * 20) \div total

Row(p) == LET passed == Len(Unique[p]) - TotalFails(p)
          IN  [total |-> Len(Unique[p]), passed |-> passed,
               parseFail |-> InSection(p, "PARSE"), startFail |-> InSection(p, "START"),
               connFail |-> InSection(p, "CONN"), otherFail |-> InSection(p, "OTHER"),
               barLen |-> BarLen(passed, AllLines(p))]

Reported == {p \in ToSet(ProtocolOrder) : Unique[p] # << >>}

Report == /\ stage = "proto" /\ pi > Len(ProtocolOrder)
          /\ rows' = [p \in Reported |-> Row(p)]
          /\ stage' = "done"
          /\ UNCHANGED <<pi, pingVars, batchIdx, tcpAll, tally, outcome>>

Finished == stage = "done" /\ UNCHANGED vars

Next == \/ SkipProto \/ StartProto \/ PingBatch \/ EndPing
        \/ TestBatch \/ EndTest \/ Report \/ Finished

Spec == Init /\ [][Next]_vars

-----------------------------------------------------------------------------
(* Properties. *)

(* The variables keep their types, outcome holds what was found out.       *)
TypeOK == /\ stage \in {"proto", "ping", "test", "done"}
          /\ pi \in 1 .. Len(ProtocolOrder) + 1
          /\ order \in Seq(Lines) /\ pingPassed \in Seq(Lines)
          /\ pb \in Nat /\ pingFailed \in Nat /\ batchIdx \in Nat
          /\ tcpAll \in Seq(Lines) /\ out \in Seq(Lines)
          /\ tested \in Nat /\ count \in [Counters -> Nat]
          /\ fails \in [Protocols -> [Causes -> Nat]]
          /\ samples \in [Protocols -> [Causes -> Seq(Lines)]]
          /\ outcome \in [Lines -> Outcomes \cup {NotYet, Unreachable}]

(* When a protocol's pings are over every line has been pinged once and    *)
(* the reachable ones are kept, whatever the batch size; at the end every  *)
(* line of every protocol has been judged, each reachable one tested       *)
(* exactly once, and what is published are the passing ones in the order   *)
(* in which they answered the ping.                                        *)
JudgedOnce ==
   /\ stage = "test" =>
        /\ Len(pingPassed) + pingFailed = Len(Unique[Proto])
        /\ ToSet(pingPassed) = {l \in ToSet(Unique[Proto]) : outcome[l] # Unreachable}
   /\ stage = "done" =>
        /\ \A p \in Reported : \A l \in ToSet(Unique[p]) : outcome[l] # NotYet
        /\ tested = Len(tcpAll)
        /\ out = Select(tcpAll, {l \in Lines : outcome[l] = Pass})

AllInSection(section) ==
  SumFunction([p \in Protocols |-> InSection(p, section)])

(* Two independent classifications of the same reasons agree at all times: *)
(* the counters by prefix and the report's sections by cause, except that  *)
(* the counters put temp file errors under connection failures.            *)
CountersAgree ==
   /\ count["passed"] = Len(out)
   /\ count["parse"] = AllInSection("PARSE")
   /\ count["start"] = AllInSection("START")
   /\ count["conn"] = AllInSection("CONN") + AllInSection("OTHER")
   /\ tested = count["passed"] + count["parse"] + count["start"] + count["conn"]

(* The report can be printed, no repeat count is negative, and its columns *)
(* add up.                                                                 *)
ReportPrints == stage = "done" => \A p \in Reported :
   /\ rows[p].barLen \in 0 .. 20
   /\ rows[p].total = rows[p].passed + rows[p].parseFail + rows[p].startFail
                      + rows[p].connFail + rows[p].otherFail

(* "Detailed breakdown of why each config failed": what the table shows as *)
(* passed is what validateAll returned as passing.                         *)
ReportedPassed == stage = "done" => \A p \in Reported :
   rows[p].passed = Len(Select(out, ToSet(Unique[p])))

(* "connection refused (proxy died)": configs listed under this cause had  *)
(* their request refused by the local proxy.                               *)
Died == <<"CONN", "connection refused (proxy died)">>
DiedWasRefused == Died \in Causes => \A p \in Protocols :
   \A k \in DOMAIN samples[p][Died] :
      "connection refused" \in outcome[samples[p][Died][k]].says
=============================================================================
