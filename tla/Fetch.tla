------------------------------- MODULE Fetch --------------------------------
(***************************************************************************)
(* fetchAll and fetchAllFromSubs of src/fetcher.go: the sources are fetched*)
(* in batches, one goroutine per source, each trying up to Retries + 1     *)
(* times; when the batch is joined its results are merged in the order of  *)
(* the sources. The two functions differ in that fetchAll also has sources *)
(* whose body is base64 as a whole (Encoded; none for fetchAllFromSubs).   *)
(***************************************************************************)
EXTENDS SmartDecode, FiniteSets

CONSTANTS
  NumSources,    \* the sources are numbered from 1
  BatchSize,     \* batchSize, 20
  RetryCount,    \* settings.json fetch_retry_count, less than 0: none
  Encoded,       \* sources of settings.json base64_links
  Served         \* what each source may answer with status 200

Sources == 1 .. NumSources
Retries == IF RetryCount < 0 THEN 0 ELSE RetryCount

(* What smartDecode takes each text for that a source may answer with, and *)
(* that may be left when the body of an encoded source is decoded.         *)
Bodies == UNION {Served[i] : i \in Sources}
Texts == Bodies \cup {DecodeBase64(body.lines) : body \in {body \in Bodies : Decodes(body.lines)}}
Lines == [text \in Texts |-> Yields(text)]

ASSUME FetchAssumption ==
  /\ NumSources \in Nat /\ BatchSize \in Nat \ {0} /\ RetryCount \in Int
  /\ Encoded \subseteq Sources /\ DOMAIN Served = Sources
  /\ \A text \in Texts : IsText(text)

(* fetchResult: statusCode is 0 when no answer came; an error may also come*)
(* with a status, when the body breaks off.                                *)
NoBody == Body(<< >>, << >>)
Result(err, status, body) == [err |-> err, status |-> status, body |-> body]
Empty == Result(FALSE, 0, NoBody)
Answers(i) == {Result(FALSE, 200, body) : body \in Served[i]}
Refusals == {Result(TRUE, 0, NoBody), Result(TRUE, 200, NoBody), Result(FALSE, 500, NoBody)}
Success(r) == ~r.err /\ r.status = 200

VARIABLES
  mpc,         \* the caller: "start", "join", "done"
  first,       \* sources merged so far
  gpc,         \* each source's goroutine: "idle", "fetch", "store", "done"
  attempt,
  got,         \* its local result
  results,     \* the batch's slice, here of all sources
  lines,
  failed,      \* sources listed as failed
  okCount, failCount,
  fetches      \* history: requests made for each source

merged == <<lines, failed, okCount, failCount>>
vars == <<mpc, first, gpc, attempt, got, results, merged, fetches>>

Init == /\ mpc = "start" /\ first = 0
        /\ gpc = [i \in Sources |-> "idle"]
        /\ attempt = [i \in Sources |-> 0]
        /\ got = [i \in Sources |-> Empty]
        /\ results = [i \in Sources |-> Empty]
        /\ lines = << >> /\ failed = << >> /\ okCount = 0 /\ failCount = 0
        /\ fetches = [i \in Sources |-> 0]

(* jobs[start:end], the last batch may be shorter. *)
Batch == {i \in Sources : first < i /\ i <= first + BatchSize}

StartBatch == /\ mpc = "start" /\ Batch # {}
              /\ gpc' = [i \in Sources |-> IF i \in Batch THEN "fetch" ELSE gpc[i]]
              /\ mpc' = "join"
              /\ UNCHANGED <<first, attempt, got, results, merged, fetches>>

-----------------------------------------------------------------------------
(* A source's goroutine. *)

(* for attempt := 0; attempt <= retryCount. Mutants: one less, no bound.   *)
OneLess(i) == attempt[i] < Retries
NoBound(i) == TRUE
MayTry(i) == attempt[i] <= Retries

Request(i, r) == /\ gpc[i] = "fetch" /\ MayTry(i)
                 /\ got' = [got EXCEPT ![i] = r]
                 /\ fetches' = [fetches EXCEPT ![i] = @ + 1]

FetchOk(i) == /\ \E r \in Answers(i) : Request(i, r)
              /\ gpc' = [gpc EXCEPT ![i] = "store"]
              /\ UNCHANGED <<mpc, first, attempt, results, merged>>

(* Mutant: the counter is not advanced, a dead source is tried for ever.   *)
FetchForEver(i) == /\ gpc[i] = "fetch"
                   /\ \E r \in Refusals : got' = [got EXCEPT ![i] = r]
                   /\ UNCHANGED <<mpc, first, gpc, attempt, results, merged, fetches>>
FetchFails(i) == /\ \E r \in Refusals : Request(i, r)
                 /\ attempt' = [attempt EXCEPT ![i] = @ + 1]
                 /\ UNCHANGED <<mpc, first, gpc, results, merged>>

GiveUp(i) == /\ gpc[i] = "fetch" /\ ~MayTry(i)
             /\ gpc' = [gpc EXCEPT ![i] = "store"]
             /\ UNCHANGED <<mpc, first, attempt, got, results, merged, fetches>>

(* The body of an encoded source is decoded; if it is not base64 the       *)
(* answer becomes a failure, which keeps its status 200.                   *)
Decoded(i) ==
  IF ~Success(got[i]) \/ i \notin Encoded THEN got[i]
  ELSE IF Decodes(got[i].body.lines) THEN [got[i] EXCEPT !.body = DecodeBase64(@.lines)]
  ELSE [got[i] EXCEPT !.err = TRUE]

(* results[idx]. Mutant: the results are kept in order of arrival.         *)
ByArrival(i) == first + Cardinality({j \in Batch : gpc[j] = "done"}) + 1
Slot(i) == i

Store(i) == /\ gpc[i] = "store"
            /\ results' = [results EXCEPT ![Slot(i)] = Decoded(i)]
            /\ gpc' = [gpc EXCEPT ![i] = "done"]
            /\ UNCHANGED <<mpc, first, attempt, got, merged, fetches>>

-----------------------------------------------------------------------------
(* wg.Wait. Mutant: it waits for one goroutine only. *)
SomeDone == \E i \in Batch : gpc[i] = "done"
Joined == \A i \in Batch : gpc[i] = "done"

InOrder(S) == Select([k \in Sources |-> k], S)

LinesOf(s) == FlattenSeq([k \in DOMAIN s |-> Lines[results[s[k]].body]])

Merge == /\ mpc = "join" /\ Joined
         /\ LET good == InOrder({i \in Batch : Success(results[i])})
                bad == InOrder({i \in Batch : ~Success(results[i])})
            IN  /\ lines' = lines \o LinesOf(good)
                /\ failed' = failed \o bad
                /\ okCount' = okCount + Len(good)
                /\ failCount' = failCount + Len(bad)
         /\ first' = first + Cardinality(Batch)
         /\ mpc' = "start"
         /\ UNCHANGED <<gpc, attempt, got, results, fetches>>

Finish == /\ mpc = "start" /\ Batch = {}
          /\ mpc' = "done"
          /\ UNCHANGED <<first, gpc, attempt, got, results, merged, fetches>>

Goroutine(i) == FetchOk(i) \/ FetchFails(i) \/ GiveUp(i) \/ Store(i)
Caller == StartBatch \/ Merge \/ Finish
Finished == mpc = "done" /\ UNCHANGED vars

Next == Caller \/ (\E i \in Sources : Goroutine(i)) \/ Finished

(* Every request ends by its timeout and goroutines are scheduled fairly.  *)
Fairness == WF_vars(Caller) /\ \A i \in Sources : WF_vars(Goroutine(i))

Spec == Init /\ [][Next]_vars /\ Fairness

-----------------------------------------------------------------------------
(* Properties. *)

(* Whatever the order of arrival, the lines are those of the answered      *)
(* sources in the order of the sources (dedup keeps the first of equal     *)
(* lines, so the order decides what is tested), and every other source is  *)
(* listed as failed, once.                                                 *)
MergedInOrder ==
  LET done == 1 .. first
      good == InOrder({i \in done : Success(Decoded(i))})
  IN  /\ lines = FlattenSeq([k \in DOMAIN good |-> Lines[Decoded(good[k]).body]])
      /\ failed = InOrder({i \in done : ~Success(Decoded(i))})
      /\ okCount + failCount = first

(* A source is given up only after Retries + 1 requests, is not asked again*)
(* once it answered, and a listed failure is one of every request or a body*)
(* that cannot be decoded.                                                 *)
TriedEnough == \A i \in Sources :
   /\ fetches[i] <= Retries + 1
   /\ gpc[i] \in {"store", "done"} /\ ~Success(got[i]) => fetches[i] = Retries + 1
   /\ Success(got[i]) => fetches[i] = attempt[i] + 1

(* No more than BatchSize requests run at once, all of them of one batch:  *)
(* a straggler never outlives the join of its batch.                       *)
BoundedLoad == LET running == {i \in Sources : gpc[i] \in {"fetch", "store"}}
               IN  /\ Cardinality(running) <= BatchSize
                   /\ running # {} => mpc = "join" /\ running \subseteq Batch
=============================================================================
