---------------------------- MODULE TestBatches -----------------------------
(***************************************************************************)
(* What validateAll (src/validator.go) promises of the configs of one      *)
(* protocol, with goroutines, ports and processes left out: the configs are*)
(* tested batch by batch; every config of the batch gets one result, which *)
(* is PARSE exactly when toSingBoxOutbound rejects it, and keeps it; when  *)
(* the whole batch has its results, the published list holds the passing   *)
(* configs of all batches so far, in order, and each counter the number of *)
(* results that belong to it. The code adds a batch to what it has; here   *)
(* list and counters are told anew from the results.                       *)
(***************************************************************************)
EXTENDS Selection, FiniteSets

CONSTANTS
  NumConfigs,      \* len(pingPassed)
  BatchSize,       \* batchSize
  Unparsable       \* configs toSingBoxOutbound rejects

Configs == 0 .. NumConfigs - 1

VARIABLES
  result,          \* "none" until config i has been tested
  first,           \* index of the first config of the batch
  count,           \* passedCount, failedParse, failedStart, failedConn
  published        \* out, as indices

vars == <<result, first, count, published>>

Counters == {"passed", "parse", "start", "conn"}
Causes(c) == CASE c = "passed" -> {"PASS"}
               [] c = "parse"  -> {"PARSE"}
               [] c = "start"  -> {"START", "SINGBOX_START"}
               [] c = "conn"   -> {"FILE", "CONN"}
Tested == {"PASS", "FILE", "START", "SINGBOX_START", "CONN"}

InOrder(n) == [k \in 1 .. n |-> k - 1]
Below(n) == IF n > NumConfigs THEN NumConfigs ELSE n
Passing == {i \in Configs : result[i] = "PASS"}
CountedAs(c, n) == {i \in Configs : i < n /\ result[i] \in Causes(c)}

Init == /\ result = [i \in Configs |-> "none"]
        /\ first = 0
        /\ count = [c \in Counters |-> 0]
        /\ published = << >>

Judge(i) == /\ first <= i /\ i < first + BatchSize
            /\ result[i] = "none"
            /\ \E r \in IF i \in Unparsable THEN {"PARSE"} ELSE Tested :
                 result' = [result EXCEPT ![i] = r]
            /\ UNCHANGED <<first, count, published>>

Tally == /\ first < NumConfigs
         /\ \A i \in Configs : i < first + BatchSize => result[i] # "none"
         /\ first' = first + BatchSize
         /\ published' = Select(InOrder(Below(first + BatchSize)), Passing)
         /\ count' = [c \in Counters |-> Cardinality(CountedAs(c, first + BatchSize))]
         /\ UNCHANGED result

Next == Tally \/ \E i \in Configs : Judge(i)

Spec == Init /\ [][Next]_vars /\ WF_vars(Next)
=============================================================================
