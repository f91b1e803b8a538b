------------------------------ MODULE TcpPing -------------------------------
(***************************************************************************)
(* tcpPingBatch and tcpPingConfig of src/validator.go: a pool of goroutines*)
(* takes line numbers from a closed-when-empty job channel, dials each     *)
(* line's server up to Retries + 1 times and sends the verdict back; a     *)
(* closer goroutine closes the result channel when the WaitGroup is done;  *)
(* the caller places each verdict at its own index and then filters.       *)
(*                                                                         *)
(* The job channel is FIFO and the caller sends 0, 1, 2, ... so its content*)
(* is exactly taken .. fed - 1: two counters stand for it. The WaitGroup's *)
(* counter is the set of workers that have not yet called Done.            *)
(***************************************************************************)
EXTENDS Selection, FiniteSets

CONSTANTS NumLines,      \* len(lines)
          TCPWorkers,    \* settings.json tcp_ping_workers, 0 or less: default
          Retries,       \* settings.json tcp_ping_retries
          NoAddr         \* lines whose host or port cannot be extracted

Lines == 0 .. NumLines - 1

ASSUME PingAssumption == /\ NumLines \in Nat
                         /\ TCPWorkers \in Int
                         /\ Retries \in Nat
                         /\ NoAddr \subseteq Lines

NumWorkers == LET wanted == IF TCPWorkers <= 0 THEN 500 ELSE TCPWorkers
              IN  IF wanted > NumLines THEN NumLines ELSE wanted
Workers == 1 .. NumWorkers
NoLine == -1

VARIABLES
  main,           \* the caller: "feed", "drain", "collect", "done"
  fed,            \* jobs sent to the job channel
  taken,          \* jobs received from it
  jobsClosed,
  wpc,            \* each worker: "recv", "dial", "send", "exited"
  wline,          \* the job a worker holds
  attempt,        \* its local loop counter in tcpPingConfig
  wok,            \* the verdict it is about to send
  resultsCh,      \* the result channel, a sequence of [idx, ok]
  resultsClosed,
  wg,             \* workers that have not called wg.Done
  ordered,        \* the caller's slots, "unset" is Go's zero value
  passed, failed, \* the call's results
  dials,          \* history: dials made for each line
  reached         \* history: lines one of whose dials was answered

chanVars == <<fed, taken, jobsClosed, resultsCh, resultsClosed>>
callerVars == <<ordered, passed, failed>>
workerVars == <<wpc, wline, attempt, wok, wg>>
history == <<dials, reached>>
vars == <<main, chanVars, workerVars, callerVars, history>>

Init == /\ main = "feed"
        /\ fed = 0 /\ taken = 0 /\ jobsClosed = FALSE
        /\ wpc = [w \in Workers |-> "recv"]
        /\ wline = [w \in Workers |-> NoLine]
        /\ attempt = [w \in Workers |-> 0]
        /\ wok = [w \in Workers |-> FALSE]
        /\ resultsCh = << >> /\ resultsClosed = FALSE
        /\ wg = Workers
        /\ ordered = [i \in Lines |-> "unset"]
        /\ passed = << >> /\ failed = 0
        /\ dials = [i \in Lines |-> 0]
        /\ reached = {}

-----------------------------------------------------------------------------
(* The caller. *)

(* jobs <- job{...}: the channel holds at most len(lines) jobs. *)
Feed == /\ main = "feed"
        /\ fed < NumLines
        /\ fed - taken < NumLines
        /\ fed' = fed + 1
        /\ UNCHANGED <<main, taken, jobsClosed, resultsCh, resultsClosed,
                       workerVars, callerVars, history>>

CloseJobs == /\ main = "feed"
             /\ fed = NumLines
             /\ jobsClosed' = TRUE
             /\ main' = "drain"
             /\ UNCHANGED <<fed, taken, resultsCh, resultsClosed,
                            workerVars, callerVars, history>>

(* Where a received verdict goes. Mutant: the next free slot. *)
ArrivalSlot(r) == CHOOSE i \in Lines : /\ ordered[i] = "unset"
                                       /\ \A j \in 0 .. i - 1 : ordered[j] # "unset"
Slot(r) == r.idx

Drain == /\ main = "drain"
         /\ resultsCh # << >>
         /\ LET r == Head(resultsCh)
            IN  ordered' = [ordered EXCEPT ![Slot(r)] = IF r.ok THEN "up" ELSE "down"]
         /\ resultsCh' = Tail(resultsCh)
         /\ UNCHANGED <<main, fed, taken, jobsClosed, resultsClosed, workerVars,
                        passed, failed, history>>

(* range over resultsCh ends when it is closed and empty. Mutant: empty.   *)
ResultsEmpty == resultsCh = << >>
ResultsEnd == resultsCh = << >> /\ resultsClosed

EndDrain == /\ main = "drain"
            /\ ResultsEnd
            /\ main' = "collect"
            /\ UNCHANGED <<chanVars, workerVars, callerVars, history>>

InOrder == [k \in 1 .. NumLines |-> k - 1]
UpIn(v) == {i \in Lines : v[i] = "up"}
Reachable(v) == Select(InOrder, UpIn(v))

(* Mutant: the count is taken from the slice before it is filled. *)
FailedEarly == NumLines - Len(passed)
Failed == NumLines - Len(Reachable(ordered))

Collect == /\ main = "collect"
           /\ passed' = Reachable(ordered)
           /\ failed' = Failed
           /\ main' = "done"
           /\ UNCHANGED <<chanVars, workerVars, ordered, history>>

-----------------------------------------------------------------------------
(* The goroutine that waits for the pool and closes the result channel. It *)
(* is started after the job channel is closed. Mutant: it waits only until *)
(* every job has been taken.                                               *)
AllTaken == taken = fed
PoolDone == wg = {}

CloseResults == /\ jobsClosed
                /\ ~resultsClosed
                /\ PoolDone
                /\ resultsClosed' = TRUE
                /\ UNCHANGED <<main, fed, taken, jobsClosed, resultsCh,
                               workerVars, callerVars, history>>

-----------------------------------------------------------------------------
(* A worker. *)

Receive(w) == /\ wpc[w] = "recv"
              /\ taken < fed
              /\ wline' = [wline EXCEPT ![w] = taken]
              /\ taken' = taken + 1
              /\ attempt' = [attempt EXCEPT ![w] = 0]
              /\ wpc' = [wpc EXCEPT ![w] = "dial"]
              /\ UNCHANGED <<main, fed, jobsClosed, resultsCh, resultsClosed,
                             wok, wg, callerVars, history>>

(* The job channel is closed and empty: the range loop ends, wg.Done runs. *)
Exit(w) == /\ wpc[w] = "recv"
           /\ taken = fed
           /\ jobsClosed
           /\ wpc' = [wpc EXCEPT ![w] = "exited"]
           /\ wg' = wg \ {w}
           /\ UNCHANGED <<main, chanVars, wline, attempt, wok, callerVars, history>>

Verdict(w, ok) == /\ wok' = [wok EXCEPT ![w] = ok]
                  /\ wpc' = [wpc EXCEPT ![w] = "send"]

(* No host or no port in the line: it is let through undialled. *)
LetThrough(w) == /\ wpc[w] = "dial"
                 /\ wline[w] \in NoAddr
                 /\ Verdict(w, TRUE)
                 /\ UNCHANGED <<main, chanVars, wline, attempt, wg, callerVars, history>>

(* for attempt := 0; attempt <= retries. Mutants: one dial more, one less. *)
OneDialMore(w) == attempt[w] <= Retries + 1
OneDialLess(w) == attempt[w] < Retries
DialsLeft(w) == attempt[w] <= Retries

Dial(w) == /\ wpc[w] = "dial"
           /\ wline[w] \notin NoAddr
           /\ DialsLeft(w)
           /\ dials' = [dials EXCEPT ![wline[w]] = @ + 1]

DialAnswered(w) == /\ Dial(w)
                   /\ reached' = reached \cup {wline[w]}
                   /\ Verdict(w, TRUE)
                   /\ UNCHANGED <<main, chanVars, wline, attempt, wg, callerVars>>

(* Mutant: the loop counter starts again, the line is dialled for ever. *)
DialForEver(w) == /\ wpc[w] = "dial"
                  /\ wline[w] \notin NoAddr
                  /\ attempt' = [attempt EXCEPT ![w] = IF @ = Retries THEN 0 ELSE @ + 1]
                  /\ UNCHANGED <<main, chanVars, wpc, wline, wok, wg, callerVars, history>>
DialFailed(w) == /\ Dial(w)
                 /\ attempt' = [attempt EXCEPT ![w] = @ + 1]
                 /\ UNCHANGED <<main, chanVars, wpc, wline, wok, wg, callerVars, reached>>

GiveUp(w) == /\ wpc[w] = "dial"
             /\ wline[w] \notin NoAddr
             /\ ~DialsLeft(w)
             /\ Verdict(w, FALSE)
             /\ UNCHANGED <<main, chanVars, wline, attempt, wg, callerVars, history>>

(* resultsCh <- result{...}: blocks when full; on a closed channel Go      *)
(* panics, which NoSendOnClosed excludes.                                  *)
Send(w) == /\ wpc[w] = "send"
           /\ ~resultsClosed
           /\ Len(resultsCh) < NumLines
           /\ resultsCh' = Append(resultsCh, [idx |-> wline[w], ok |-> wok[w]])
           /\ wpc' = [wpc EXCEPT ![w] = "recv"]
           /\ UNCHANGED <<main, fed, taken, jobsClosed, resultsClosed, wline,
                          attempt, wok, wg, callerVars, history>>

Caller == Feed \/ CloseJobs \/ Drain \/ EndDrain \/ Collect
Worker(w) == \/ Receive(w) \/ Exit(w) \/ LetThrough(w) \/ DialAnswered(w)
             \/ DialFailed(w) \/ GiveUp(w) \/ Send(w)
Returned == main = "done" /\ UNCHANGED vars

Next == Caller \/ CloseResults \/ (\E w \in Workers : Worker(w)) \/ Returned

(* Goroutines are scheduled fairly and net.DialTimeout returns in bounded  *)
(* time, so a goroutine that can go on does.                               *)
Fairness == /\ WF_vars(Caller)
            /\ WF_vars(CloseResults)
            /\ \A w \in Workers : WF_vars(Worker(w))

Spec == Init /\ [][Next]_vars /\ Fairness

-----------------------------------------------------------------------------
(* Properties. *)

Verdicts == {"unset", "up", "down"}

(* The variables keep their types. *)
TypeOK == /\ main \in {"feed", "drain", "collect", "done"}
          /\ fed \in 0 .. NumLines
          /\ taken \in 0 .. fed
          /\ jobsClosed \in BOOLEAN
          /\ resultsClosed \in BOOLEAN
          /\ wpc \in [Workers -> {"recv", "dial", "send", "exited"}]
          /\ wline \in [Workers -> Lines \cup {NoLine}]
          /\ attempt \in [Workers -> 0 .. Retries + 1]
          /\ wok \in [Workers -> BOOLEAN]
          /\ resultsCh \in Seq([idx : Lines, ok : BOOLEAN])
          /\ wg \subseteq Workers
          /\ ordered \in [Lines -> Verdicts]
          /\ passed \in Seq(Lines)
          /\ failed \in 0 .. NumLines
          /\ dials \in [Lines -> Nat]
          /\ reached \subseteq Lines

Busy(w) == wpc[w] \in {"dial", "send"}

InChannel(i) == \E k \in DOMAIN resultsCh : resultsCh[k].idx = i
HeldBy(i, w) == Busy(w) /\ wline[w] = i

(* Every line that left the job channel is in exactly one place, with one  *)
(* worker, at one position of the result channel, or in its slot: the pool *)
(* neither loses a line nor judges one twice.                              *)
OnePlace ==
  /\ \A i \in Lines : i < taken <=>
        \/ \E w \in Workers : HeldBy(i, w)
        \/ InChannel(i)
        \/ ordered[i] # "unset"
  /\ \A i \in Lines, w \in Workers : HeldBy(i, w) =>
        /\ ~InChannel(i)
        /\ ordered[i] = "unset"
        /\ \A v \in Workers : HeldBy(i, v) => v = w
  /\ \A k \in DOMAIN resultsCh :
        /\ ordered[resultsCh[k].idx] = "unset"
        /\ \A l \in DOMAIN resultsCh : resultsCh[k].idx = resultsCh[l].idx => k = l

(* No worker is left holding a verdict when the result channel is closed:  *)
(* sending on a closed channel would panic the whole program.              *)
NoSendOnClosed == resultsClosed => \A w \in Workers : ~Busy(w)

(* The caller filters only after every slot has been filled, so that a     *)
(* zero-valued slot is never counted as an unreachable line.               *)
CollectComplete == main \in {"collect", "done"} =>
                      \A i \in Lines : ordered[i] # "unset"

(* A line is called unreachable only after all Retries + 1 dials failed,   *)
(* and reachable only when a dial was answered or there is nothing to dial.*)
VerdictEarned == \A i \in Lines :
   /\ ordered[i] = "down" => dials[i] = Retries + 1 /\ i \notin reached
   /\ ordered[i] = "up" => i \in reached \cup NoAddr
   /\ dials[i] <= Retries + 1

(* The call is the filter of PingFilter.                                   *)
Filter == INSTANCE PingFilter WITH verdict <- ordered,
                                   returned <- (main = "done")
ImplementsFilter == Filter!Spec

(* The call returns: nobody waits for ever on a channel or the WaitGroup.  *)
Terminates == <>(main = "done" /\ \A w \in Workers : wpc[w] = "exited")
=============================================================================
