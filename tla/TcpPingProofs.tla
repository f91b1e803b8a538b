---------------------------- MODULE TcpPingProofs ---------------------------
(***************************************************************************)
(* Proofs about TcpPing for any number of lines, workers and retries: no   *)
(* line is lost or judged twice, nothing is sent on the closed channel, the*)
(* caller filters complete slots, verdicts are earned by the dials made,   *)
(* and the pool implements PingFilter.                                     *)
(***************************************************************************)
EXTENDS TcpPing, SelectionProofs, SequenceTheorems, TLAPS

USE DEF Lines, Workers

LEMMA NumWorkersType ==
  NumWorkers \in Nat /\ (NumWorkers = 0 => NumLines = 0)
BY PingAssumption DEF NumWorkers

(* The result channel as a receiver sees it after a send and a receive.    *)
LEMMA Received ==
  ASSUME NEW S, NEW s \in Seq(S), s # << >>
  PROVE  /\ Head(s) = s[1] /\ Head(s) \in S /\ Tail(s) \in Seq(S)
         /\ 1 \in DOMAIN s /\ DOMAIN Tail(s) = 1 .. Len(s) - 1
         /\ DOMAIN s = 1 .. Len(s) /\ Len(s) \in Nat
         /\ \A k \in DOMAIN Tail(s) : Tail(s)[k] = s[k + 1] /\ k + 1 \in DOMAIN s
<1>1. Len(s) \in Nat \ {0} /\ DOMAIN s = 1 .. Len(s) BY LenProperties, EmptySeq
<1>2. /\ Head(s) \in S /\ Tail(s) \in Seq(S) /\ Len(Tail(s)) = Len(s) - 1
      /\ \A k \in 1 .. Len(Tail(s)) : Tail(s)[k] = s[k + 1]
  BY HeadTailProperties
<1>3. DOMAIN Tail(s) = 1 .. Len(s) - 1 BY <1>2, LenProperties
<1> QED BY <1>1, <1>2, <1>3

LEMMA Sent ==
  ASSUME NEW S, NEW s \in Seq(S), NEW e \in S
  PROVE  /\ Append(s, e) \in Seq(S)
         /\ DOMAIN s = 1 .. Len(s) /\ Len(s) \in Nat
         /\ DOMAIN Append(s, e) = 1 .. Len(s) + 1
         /\ \A k \in DOMAIN s : Append(s, e)[k] = s[k]
         /\ Append(s, e)[Len(s) + 1] = e
BY AppendProperties, LenProperties

-----------------------------------------------------------------------------
(* The types of everything but the returned slice, whose content is what   *)
(* the filter makes of the slots.                                          *)
Types == /\ main \in {"feed", "drain", "collect", "done"}
         /\ fed \in 0 .. NumLines
         /\ taken \in 0 .. fed
         /\ jobsClosed \in BOOLEAN
         /\ resultsClosed \in BOOLEAN
         /\ wpc \in [Workers -> {"recv", "dial", "send", "exited"}]
         /\ wline \in [Workers -> Lines \cup {NoLine}]
         /\ wok \in [Workers -> BOOLEAN]
         /\ resultsCh \in Seq([idx : Lines, ok : BOOLEAN])
         /\ wg \subseteq Workers
         /\ ordered \in [Lines -> Verdicts]

(* A busy worker holds a line that was taken from the job channel.         *)
Holds == \A w \in Workers : Busy(w) => wline[w] \in Lines

(* The order in which channels are closed and the pool winds down.         *)
Closing ==
  /\ jobsClosed <=> main # "feed"
  /\ jobsClosed => fed = NumLines
  /\ \A w \in Workers : w \notin wg <=> wpc[w] = "exited"
  /\ \A w \in Workers : wpc[w] = "exited" => jobsClosed /\ taken = NumLines
  /\ resultsClosed => jobsClosed /\ wg = {}
  /\ main \in {"collect", "done"} => resultsClosed /\ resultsCh = << >>

PoolInv == Types /\ Holds /\ Closing /\ OnePlace

LEMMA PoolInit == Init => PoolInv
<1> SUFFICES ASSUME Init PROVE PoolInv OBVIOUS
<1>1. Types
  <2>1. resultsCh \in Seq([idx : Lines, ok : BOOLEAN]) BY EmptySeq DEF Init
  <2>2. fed \in 0 .. NumLines /\ taken \in 0 .. fed BY PingAssumption DEF Init
  <2> QED BY <2>1, <2>2 DEF Init, Types, Verdicts
<1>2. Holds BY DEF Init, Holds, Busy
<1>3. Closing BY DEF Init, Closing
<1>4. OnePlace BY DEF Init, OnePlace, HeldBy, Busy, InChannel
<1> QED BY <1>1, <1>2, <1>3, <1>4 DEF PoolInv

(* Steps that move no line from one place to another. *)
LEMMA PlacesSame ==
  ASSUME OnePlace, UNCHANGED <<taken, resultsCh, ordered>>,
         \A i \in Lines, w \in Workers : HeldBy(i, w)' <=> HeldBy(i, w)
  PROVE  OnePlace'
BY DEF OnePlace, InChannel

LEMMA ReceiveStep ==
  ASSUME PoolInv, NEW w \in Workers, Receive(w)
  PROVE  PoolInv'
<1> USE DEF PoolInv
<1>1. /\ taken \in Lines /\ taken \in Nat /\ ~Busy(w)
      /\ UNCHANGED <<resultsCh, ordered>>
      /\ taken' = taken + 1
      /\ wpc'[w] = "dial" /\ wline'[w] = taken
      /\ \A v \in Workers : v # w => wpc'[v] = wpc[v] /\ wline'[v] = wline[v]
  BY PingAssumption DEF Receive, Types, Busy, callerVars
<1>2. Types'
  BY <1>1 DEF Receive, Types, callerVars, history
<1>3. Holds' BY <1>1 DEF Holds, Busy
<1>4. Closing' BY <1>1 DEF Closing, Receive, Types, callerVars
<1>5. /\ \A i \in Lines, v \in Workers :
            HeldBy(i, v)' <=> HeldBy(i, v) \/ (v = w /\ i = taken)
      /\ \A i \in Lines : InChannel(i)' <=> InChannel(i)
  BY <1>1 DEF HeldBy, Busy, InChannel
<1>6. /\ ~InChannel(taken) /\ ordered[taken] = "unset"
      /\ \A v \in Workers : ~HeldBy(taken, v)
  BY <1>1 DEF OnePlace
<1>7. OnePlace'
  <2>1. \A i \in Lines : i < taken' <=>
          (\E v \in Workers : HeldBy(i, v)') \/ InChannel(i)' \/ ordered'[i] # "unset"
    BY <1>1, <1>5 DEF OnePlace
  <2>2. \A i \in Lines, v \in Workers : HeldBy(i, v)' =>
          /\ ~InChannel(i)' /\ ordered'[i] = "unset"
          /\ \A u \in Workers : HeldBy(i, u)' => u = v
    BY <1>1, <1>5, <1>6 DEF OnePlace
  <2> QED BY <1>1, <2>1, <2>2 DEF OnePlace
<1> QED BY <1>2, <1>3, <1>4, <1>7

LEMMA SendStep ==
  ASSUME PoolInv, NEW w \in Workers, Send(w)
  PROVE  PoolInv'
<1> USE DEF PoolInv
<1> DEFINE r == [idx |-> wline[w], ok |-> wok[w]]
<1>1. /\ HeldBy(wline[w], w) /\ wline[w] \in Lines
      /\ r \in [idx : Lines, ok : BOOLEAN] /\ r.idx = wline[w]
  BY DEF Send, HeldBy, Busy, Holds, Types
<1>2. /\ resultsCh' \in Seq([idx : Lines, ok : BOOLEAN])
      /\ DOMAIN resultsCh = 1 .. Len(resultsCh) /\ Len(resultsCh) \in Nat
      /\ DOMAIN resultsCh' = 1 .. Len(resultsCh) + 1
      /\ \A k \in DOMAIN resultsCh : resultsCh'[k] = resultsCh[k]
      /\ resultsCh'[Len(resultsCh) + 1] = r
  BY <1>1, Sent DEF Send, Types
<1>3. /\ wpc'[w] = "recv" /\ UNCHANGED <<taken, ordered, wline>>
      /\ \A v \in Workers : v # w => wpc'[v] = wpc[v]
  BY DEF Send, Types, callerVars
<1>4. Types' BY <1>2 DEF Send, Types, callerVars
<1>5. Holds' BY <1>3 DEF Holds, Busy
<1>6. Closing'
  <2>1. ~resultsClosed /\ main \notin {"collect", "done"} BY DEF Send, Closing
  <2> QED BY <2>1 DEF Closing, Send, Types, callerVars
<1>7. \A i \in Lines, v \in Workers : HeldBy(i, v)' <=> HeldBy(i, v) /\ v # w
  BY <1>3 DEF HeldBy, Busy
<1>8. \A i \in Lines : InChannel(i)' <=> InChannel(i) \/ i = wline[w]
  BY <1>1, <1>2, SMTT(30) DEF InChannel
<1>9. OnePlace'
  <2>1. \A i \in Lines : i < taken' <=>
          (\E v \in Workers : HeldBy(i, v)') \/ InChannel(i)' \/ ordered'[i] # "unset"
    <3> TAKE i \in Lines
    <3>1. CASE i = wline[w] BY <1>1, <1>3, <1>7, <1>8, <3>1 DEF OnePlace
    <3>2. CASE i # wline[w]
      <4>1. ~HeldBy(i, w) BY <3>2 DEF HeldBy
      <4> QED BY <1>3, <1>7, <1>8, <3>2, <4>1 DEF OnePlace
    <3> QED BY <3>1, <3>2
  <2>2. \A i \in Lines, v \in Workers : HeldBy(i, v)' =>
          /\ ~InChannel(i)' /\ ordered'[i] = "unset"
          /\ \A u \in Workers : HeldBy(i, u)' => u = v
    BY <1>1, <1>3, <1>7, <1>8 DEF OnePlace
  <2>3. \A k \in DOMAIN resultsCh' : ordered'[resultsCh'[k].idx] = "unset"
    BY <1>1, <1>2, <1>3 DEF OnePlace
  <2>4. \A k, l \in DOMAIN resultsCh' : resultsCh'[k].idx = resultsCh'[l].idx => k = l
    <3>1. \A k \in DOMAIN resultsCh : resultsCh[k].idx # wline[w]
      BY <1>1 DEF OnePlace, InChannel
    <3> QED BY <1>1, <1>2, <3>1, SMTT(30) DEF OnePlace
  <2> QED BY <2>1, <2>2, <2>3, <2>4 DEF OnePlace
<1> QED BY <1>4, <1>5, <1>6, <1>9

LEMMA DrainStep ==
  ASSUME PoolInv, Drain
  PROVE  /\ PoolInv'
         /\ \E i \in Lines : /\ ordered[i] = "unset"
                             /\ \E v \in {"up", "down"} :
                                  ordered' = [ordered EXCEPT ![i] = v]
<1> USE DEF PoolInv
<1> DEFINE r == Head(resultsCh)
           v == IF r.ok THEN "up" ELSE "down"
<1>1. /\ r = resultsCh[1] /\ r \in [idx : Lines, ok : BOOLEAN]
      /\ resultsCh' \in Seq([idx : Lines, ok : BOOLEAN])
      /\ 1 \in DOMAIN resultsCh /\ DOMAIN resultsCh' = 1 .. Len(resultsCh) - 1
      /\ DOMAIN resultsCh = 1 .. Len(resultsCh) /\ Len(resultsCh) \in Nat
      /\ \A k \in DOMAIN resultsCh' :
            resultsCh'[k] = resultsCh[k + 1] /\ k + 1 \in DOMAIN resultsCh
  BY Received DEF Drain, Types
<1>2. /\ r.idx \in Lines /\ ordered[r.idx] = "unset" /\ v \in {"up", "down"}
      /\ ordered' = [ordered EXCEPT ![r.idx] = v]
  BY <1>1 DEF Drain, Slot, OnePlace
<1>3. /\ UNCHANGED <<main, taken, wpc, wline>>
      /\ ordered \in [Lines -> Verdicts]
      /\ ordered'[r.idx] # "unset"
      /\ \A i \in Lines : i # r.idx => ordered'[i] = ordered[i]
  BY <1>2 DEF Drain, Types, workerVars
<1>4. Types' BY <1>1, <1>2 DEF Drain, Types, Verdicts, workerVars
<1>5. Holds' BY <1>3 DEF Holds, Busy
<1>6. Closing' BY DEF Closing, Drain, workerVars
<1>7. \A i \in Lines, w \in Workers : HeldBy(i, w)' <=> HeldBy(i, w)
  BY <1>3 DEF HeldBy, Busy
<1>8. \A k \in DOMAIN resultsCh' : resultsCh'[k].idx # r.idx
  <2> TAKE k \in DOMAIN resultsCh'
  <2>1. k + 1 # 1 /\ k + 1 \in DOMAIN resultsCh BY <1>1
  <2> QED BY <1>1, <2>1 DEF OnePlace
<1>9. \A i \in Lines : InChannel(i) <=> InChannel(i)' \/ i = r.idx
  <2> TAKE i \in Lines
  <2>1. InChannel(i)' => InChannel(i) BY <1>1 DEF InChannel
  <2>2. i = r.idx => InChannel(i) BY <1>1 DEF InChannel
  <2>3. ASSUME InChannel(i), i # r.idx PROVE InChannel(i)'
    <3>1. PICK k \in DOMAIN resultsCh : resultsCh[k].idx = i BY <2>3 DEF InChannel
    <3>2. k # 1 BY <1>1, <2>3, <3>1
    <3>3. k - 1 \in DOMAIN resultsCh' /\ (k - 1) + 1 = k BY <1>1, <3>2
    <3> QED BY <1>1, <3>1, <3>3 DEF InChannel
  <2> QED BY <2>1, <2>2, <2>3
<1>10. OnePlace'
  <2>1. \A i \in Lines : i < taken' <=>
          (\E w \in Workers : HeldBy(i, w)') \/ InChannel(i)' \/ ordered'[i] # "unset"
    <3> TAKE i \in Lines
    <3>1. CASE i = r.idx BY <1>3, <1>9, <3>1 DEF OnePlace
    <3>2. CASE i # r.idx BY <1>3, <1>7, <1>9, <3>2 DEF OnePlace
    <3> QED BY <3>1, <3>2
  <2>2. \A i \in Lines, w \in Workers : HeldBy(i, w)' =>
          /\ ~InChannel(i)' /\ ordered'[i] = "unset"
          /\ \A u \in Workers : HeldBy(i, u)' => u = w
    <3> TAKE i \in Lines, w \in Workers
    <3> HAVE HeldBy(i, w)'
    <3>1. ~InChannel(i) /\ ordered[i] = "unset" BY <1>7 DEF OnePlace
    <3>2. ~InChannel(i)' /\ i # r.idx BY <1>9, <3>1
    <3>3. \A u \in Workers : HeldBy(i, u)' => u = w BY <1>7 DEF OnePlace
    <3> QED BY <1>3, <3>1, <3>2, <3>3
  <2>3. \A k \in DOMAIN resultsCh' : ordered'[resultsCh'[k].idx] = "unset"
    <3> TAKE k \in DOMAIN resultsCh'
    <3>1. k + 1 \in DOMAIN resultsCh /\ resultsCh'[k] = resultsCh[k + 1] BY <1>1
    <3>2. resultsCh[k + 1] \in [idx : Lines, ok : BOOLEAN]
      BY <3>1, ElementOfSeq, <1>1 DEF Types
    <3>3. resultsCh'[k].idx \in Lines BY <3>1, <3>2
    <3>4. ordered[resultsCh'[k].idx] = "unset" BY <1>1 DEF OnePlace
    <3> QED BY <1>3, <1>8, <3>3, <3>4
  <2>4. \A k, l \in DOMAIN resultsCh' : resultsCh'[k].idx = resultsCh'[l].idx => k = l
    <3> TAKE k, l \in DOMAIN resultsCh'
    <3> HAVE resultsCh'[k].idx = resultsCh'[l].idx
    <3>1. k + 1 = l + 1 BY <1>1 DEF OnePlace
    <3> QED BY <1>1, <3>1
  <2> QED BY <2>1, <2>2, <2>3, <2>4 DEF OnePlace
<1> QED BY <1>2, <1>4, <1>5, <1>6, <1>10

(* The other steps of a worker. *)
LEMMA WorkerStep ==
  ASSUME PoolInv, NEW w \in Workers, Worker(w)
  PROVE  PoolInv'
<1> USE DEF PoolInv, callerVars, history, chanVars
<1>1. CASE Receive(w) BY <1>1, ReceiveStep
<1>2. CASE Send(w) BY <1>2, SendStep
<1>3. CASE Exit(w)
  <2>1. Types' BY <1>3 DEF Exit, Types
  <2>2. Holds' BY <1>3 DEF Exit, Types, Holds, Busy
  <2>3. Closing' BY <1>3 DEF Exit, Types, Closing
  <2>4. OnePlace'
    <3>1. \A i \in Lines, v \in Workers : HeldBy(i, v)' <=> HeldBy(i, v)
      BY <1>3 DEF Exit, Types, HeldBy, Busy
    <3> QED BY <1>3, <3>1, PlacesSame DEF Exit
  <2> QED BY <2>1, <2>2, <2>3, <2>4
<1>4. CASE LetThrough(w) \/ DialAnswered(w) \/ DialFailed(w) \/ GiveUp(w)
  <2> USE DEF LetThrough, DialAnswered, DialFailed, GiveUp, Dial, Verdict
  <2>1. Types' BY <1>4 DEF Types
  <2>2. Holds' BY <1>4 DEF Types, Holds, Busy
  <2>3. Closing'
    <3>1. /\ UNCHANGED <<main, fed, taken, jobsClosed, resultsClosed, resultsCh, wg>>
          /\ wpc[w] = "dial" /\ wpc'[w] \in {"dial", "send"}
          /\ \A v \in Workers : v # w => wpc'[v] = wpc[v]
      BY <1>4 DEF Types
    <3>2. \A v \in Workers : wpc'[v] = "exited" <=> wpc[v] = "exited" BY <3>1
    <3> QED BY <3>1, <3>2 DEF Closing
  <2>4. OnePlace'
    <3>1. \A i \in Lines, v \in Workers : HeldBy(i, v)' <=> HeldBy(i, v)
      BY <1>4 DEF Types, HeldBy, Busy
    <3> QED BY <1>4, <3>1, PlacesSame
  <2> QED BY <2>1, <2>2, <2>3, <2>4
<1> QED BY <1>1, <1>2, <1>3, <1>4 DEF Worker

(* The caller's other steps and the closer's. *)
LEMMA CallerStep ==
  ASSUME PoolInv, Feed \/ CloseJobs \/ EndDrain \/ Collect \/ CloseResults
  PROVE  PoolInv'
<1> USE DEF PoolInv, callerVars, history, workerVars, chanVars
<1>1. UNCHANGED <<taken, resultsCh, ordered, wpc, wline>>
  BY DEF Feed, CloseJobs, EndDrain, Collect, CloseResults
<1>2. Types'
  <2>1. CASE Feed
    <3>1. fed' \in 0 .. NumLines /\ taken' \in 0 .. fed'
      BY <2>1, PingAssumption DEF Feed, Types
    <3> QED BY <2>1, <3>1 DEF Feed, Types
  <2>2. CASE CloseJobs \/ EndDrain \/ Collect \/ CloseResults
    BY <2>2 DEF Types, CloseJobs, EndDrain, Collect, CloseResults
  <2> QED BY <2>1, <2>2
<1>3. Holds' BY <1>1 DEF Holds, Busy
<1>4. Closing'
  <2>1. CASE Feed BY <2>1 DEF Feed, Closing, Types
  <2>2. CASE CloseJobs BY <2>2 DEF CloseJobs, Closing, Types
  <2>3. CASE EndDrain BY <2>3 DEF EndDrain, ResultsEnd, Closing, Types
  <2>4. CASE Collect BY <2>4 DEF Collect, Closing, Types
  <2>5. CASE CloseResults
    <3>1. main \notin {"collect", "done"} BY <2>5 DEF CloseResults, Closing
    <3> QED BY <2>5, <3>1 DEF CloseResults, PoolDone, Closing, Types
  <2> QED BY <2>1, <2>2, <2>3, <2>4, <2>5
<1>5. OnePlace' BY <1>1, PlacesSame DEF HeldBy, Busy
<1> QED BY <1>2, <1>3, <1>4, <1>5

LEMMA PoolStep ==
  ASSUME PoolInv, [Next]_vars
  PROVE  PoolInv'
<1>1. CASE UNCHANGED vars
  <2>1. Types' BY <1>1 DEF PoolInv, Types, vars, chanVars, workerVars, callerVars
  <2>2. Holds' /\ Closing'
    BY <1>1 DEF PoolInv, Holds, Closing, Busy, vars, chanVars, workerVars, callerVars
  <2>3. OnePlace'
    BY <1>1, PlacesSame
    DEF PoolInv, HeldBy, Busy, vars, chanVars, workerVars, callerVars
  <2> QED BY <2>1, <2>2, <2>3 DEF PoolInv
<1>2. CASE Drain BY <1>2, DrainStep
<1>3. CASE \E w \in Workers : Worker(w) BY <1>3, WorkerStep
<1>4. CASE Feed \/ CloseJobs \/ EndDrain \/ Collect \/ CloseResults
  BY <1>4, CallerStep
<1> QED BY <1>1, <1>2, <1>3, <1>4 DEF Next, Caller, Returned

THEOREM PoolInvariant == Spec => []PoolInv
<1> QED BY PoolInit, PoolStep, PTL DEF Spec

-----------------------------------------------------------------------------
(* Every line is in one place at a time: none is lost, none judged twice.  *)
THEOREM LinesInOnePlace == Spec => []OnePlace
<1>1. PoolInv => OnePlace BY DEF PoolInv
<1> QED BY <1>1, PoolInvariant, PTL

(* The result channel is closed only when no worker will send again.       *)
THEOREM ChannelClosedSafely == Spec => []NoSendOnClosed
<1>1. PoolInv => NoSendOnClosed
  BY DEF PoolInv, Closing, NoSendOnClosed, Busy
<1> QED BY <1>1, PoolInvariant, PTL

(* When the caller filters the slots, every one has been filled.           *)
LEMMA SlotsFilled == PoolInv => CollectComplete
<1> SUFFICES ASSUME PoolInv, main \in {"collect", "done"}, NEW i \in Lines
             PROVE  ordered[i] # "unset"
  BY DEF CollectComplete
<1>1. wg = {} /\ resultsCh = << >> BY DEF PoolInv, Closing
<1>2. \A w \in Workers : wpc[w] = "exited" BY <1>1 DEF PoolInv, Closing
<1>3. 1 \in Workers
  <2>1. NumLines # 0 BY PingAssumption
  <2> QED BY <2>1, NumWorkersType
<1>4. i < taken
  <2>1. taken = NumLines BY <1>2, <1>3 DEF PoolInv, Closing
  <2> QED BY <2>1, PingAssumption
<1>5. ~InChannel(i)
  <2>1. DOMAIN resultsCh = {} BY <1>1
  <2> QED BY <2>1 DEF InChannel
<1>6. \A w \in Workers : ~HeldBy(i, w) BY <1>2 DEF HeldBy, Busy
<1> QED BY <1>4, <1>5, <1>6 DEF PoolInv, OnePlace

THEOREM CollectsCompleteSlots == Spec => []CollectComplete
<1> QED BY SlotsFilled, PoolInvariant, PTL

(* The pool computes the filter that its caller expects: each step of the  *)
(* pool is a judgement, the return, or invisible.                          *)
THEOREM PoolImplementsFilter == Spec => Filter!Init /\ [][Filter!Next]_(Filter!vars)
<1>1. ASSUME Init PROVE Filter!Init
  <2>1. (main = "done") = FALSE BY <1>1 DEF Init
  <2>2. ordered = [i \in Filter!Lines |-> "unset"] BY <1>1 DEF Init, Filter!Lines
  <2>3. passed = << >> /\ failed = 0 BY <1>1 DEF Init
  <2> QED BY <2>1, <2>2, <2>3 DEF Filter!Init
<1>2. ASSUME PoolInv, [Next]_vars PROVE [Filter!Next]_(Filter!vars)
  <2> USE DEF Filter!vars, chanVars, workerVars, callerVars, history
  <2>1. CASE Drain
    <3>1. PICK i \in Lines : /\ ordered[i] = "unset"
                             /\ \E v \in {"up", "down"} :
                                   ordered' = [ordered EXCEPT ![i] = v]
      BY <1>2, <2>1, DrainStep
    <3>2. UNCHANGED <<passed, failed, main = "done">> BY <2>1 DEF Drain
    <3>3. Filter!Judge(i) BY <3>1, <3>2 DEF Filter!Judge
    <3> QED BY <3>3 DEF Filter!Next, Filter!Lines
  <2>2. CASE Collect
    <3>1. \A i \in Lines : ordered[i] # "unset"
      BY <1>2, <2>2, SlotsFilled DEF Collect, CollectComplete
    <3>2. Filter!Return
      BY <2>2, <3>1
      DEF Collect, Failed, Reachable, InOrder, UpIn, Select,
          Filter!Return, Filter!Reachable, Filter!InOrder, Filter!UpIn, Filter!Select,
          Filter!Lines
    <3> QED BY <3>2 DEF Filter!Next
  <2>3. CASE UNCHANGED <<passed, failed, ordered>> /\ (main' = "done" <=> main = "done")
    BY <2>3
  <2>4. Feed \/ CloseJobs \/ EndDrain \/ CloseResults \/ UNCHANGED vars =>
          UNCHANGED <<passed, failed, ordered>> /\ (main' = "done" <=> main = "done")
    BY DEF Feed, CloseJobs, EndDrain, CloseResults, vars
  <2>5. ASSUME NEW w \in Workers, Worker(w)
        PROVE  UNCHANGED <<passed, failed, ordered, main>>
    BY <2>5 DEF Worker, Receive, Exit, LetThrough, DialAnswered, DialFailed, Dial,
                GiveUp, Send
  <2> QED BY <1>2, <2>1, <2>2, <2>3, <2>4, <2>5 DEF Next, Caller, Returned
<1> QED BY <1>1, <1>2, PoolInvariant, PTL DEF Spec

-----------------------------------------------------------------------------
(* Verdicts are earned. A verdict on its way, with a worker or in the      *)
(* result channel, is already what VerdictEarned asks of one in its slot,  *)
(* and a line in the hands of a worker that dials was dialled as often as  *)
(* the worker counts, each time in vain.                                   *)
Up(i) == i \in reached \cup NoAddr
Down(i) == dials[i] = Retries + 1 /\ i \notin reached
Deserved(r) == (r.ok => Up(r.idx)) /\ (~r.ok => Down(r.idx))
Found(w) == [idx |-> wline[w], ok |-> wok[w]]

DialTypes == /\ attempt \in [Workers -> 0 .. Retries + 1]
             /\ dials \in [Lines -> 0 .. Retries + 1]
             /\ reached \subseteq Lines

Untouched(i) == dials[i] = 0 /\ i \notin reached
Counted(w) == dials[wline[w]] = attempt[w] /\ wline[w] \notin reached

EarnInv == /\ DialTypes
           /\ \A i \in Lines : i >= taken => Untouched(i)
           /\ \A w \in Workers : wpc[w] = "dial" => Counted(w)
           /\ \A w \in Workers : wpc[w] = "send" => Deserved(Found(w))
           /\ \A k \in DOMAIN resultsCh : Deserved(resultsCh[k])
           /\ \A i \in Lines : /\ ordered[i] = "down" => Down(i)
                               /\ ordered[i] = "up" => Up(i)

LEMMA EarnInit == Init => EarnInv
BY PingAssumption DEF Init, EarnInv, DialTypes, Untouched

(* A line that a worker dials is nowhere else, so that a dial disturbs no  *)
(* verdict.                                                                *)
LEMMA DialledAlone ==
  ASSUME PoolInv, NEW w \in Workers, wpc[w] = "dial"
  PROVE  /\ wline[w] \in Lines /\ wline[w] < taken /\ ordered[wline[w]] = "unset"
         /\ \A v \in Workers : Busy(v) /\ v # w => wline[v] # wline[w]
         /\ \A k \in DOMAIN resultsCh : resultsCh[k].idx # wline[w]
BY DEF PoolInv, Holds, OnePlace, HeldBy, Busy, InChannel

LEMMA EarnSame ==
  ASSUME EarnInv, UNCHANGED <<taken, wpc, wline, attempt, wok, resultsCh, ordered, history>>
  PROVE  EarnInv'
BY DEF EarnInv, DialTypes, Untouched, Counted, Deserved, Found, Up, Down, history

LEMMA EarnDrain ==
  ASSUME PoolInv, EarnInv, Drain
  PROVE  EarnInv'
<1>1. /\ UNCHANGED <<taken, wpc, wline, attempt, wok, dials, reached>>
      /\ resultsCh # << >> /\ resultsCh' = Tail(resultsCh)
      /\ ordered' = [ordered EXCEPT ![Head(resultsCh).idx] =
                       IF Head(resultsCh).ok THEN "up" ELSE "down"]
  BY DEF Drain, workerVars, history, Slot
<1>2. /\ Head(resultsCh) = resultsCh[1] /\ Head(resultsCh) \in [idx : Lines, ok : BOOLEAN]
      /\ 1 \in DOMAIN resultsCh
      /\ \A k \in DOMAIN Tail(resultsCh) : /\ Tail(resultsCh)[k] = resultsCh[k + 1]
                                           /\ k + 1 \in DOMAIN resultsCh
  BY <1>1, Received DEF PoolInv, Types
<1>3. Deserved(Head(resultsCh))
  BY <1>2 DEF EarnInv
<1>4. \A i \in Lines : /\ ordered'[i] = "down" => Down(i)
                       /\ ordered'[i] = "up" => Up(i)
  BY <1>1, <1>2, <1>3 DEF EarnInv, Deserved, PoolInv, Types
<1>5. \A k \in DOMAIN resultsCh' : Deserved(resultsCh'[k])
  BY <1>1, <1>2 DEF EarnInv
<1>6. \A i : (Up(i)' <=> Up(i)) /\ (Down(i)' <=> Down(i))
  BY <1>1 DEF Deserved, Found, Up, Down
<1> QED BY <1>1, <1>4, <1>5, <1>6 DEF EarnInv, DialTypes, Untouched, Counted, Deserved, Found

LEMMA EarnReceive ==
  ASSUME PoolInv, EarnInv, NEW w \in Workers, Receive(w)
  PROVE  EarnInv'
<1>1. /\ taken \in Lines /\ taken' = taken + 1
      /\ UNCHANGED <<wok, resultsCh, ordered, dials, reached>>
      /\ wpc' = [wpc EXCEPT ![w] = "dial"] /\ wline' = [wline EXCEPT ![w] = taken]
      /\ attempt' = [attempt EXCEPT ![w] = 0]
  BY PingAssumption DEF Receive, PoolInv, Types, callerVars, history
<1>2. Untouched(taken)
  BY <1>1 DEF EarnInv
<1>3. DialTypes'
  BY <1>1, PingAssumption DEF EarnInv, DialTypes
<1>4. \A i \in Lines : i >= taken' => Untouched(i)'
  BY <1>1 DEF EarnInv, Untouched
<1>5. \A v \in Workers : /\ wpc'[v] = "dial" => Counted(v)'
                         /\ wpc'[v] = "send" => Deserved(Found(v))'
  BY <1>1, <1>2 DEF EarnInv, DialTypes, Untouched, Counted, Deserved, Found, Up, Down, PoolInv, Types
<1>6. /\ \A k \in DOMAIN resultsCh' : Deserved(resultsCh[k])'
      /\ \A i \in Lines : (ordered'[i] = "down" => Down(i)') /\ (ordered'[i] = "up" => Up(i)')
  BY <1>1 DEF EarnInv, Deserved, Up, Down
<1> QED BY <1>3, <1>4, <1>5, <1>6 DEF EarnInv

LEMMA EarnExit ==
  ASSUME PoolInv, EarnInv, NEW w \in Workers, Exit(w)
  PROVE  EarnInv'
BY DEF Exit, EarnInv, DialTypes, Untouched, Counted, Deserved, Found, Up, Down, PoolInv, Types,
       chanVars, callerVars, history

LEMMA EarnLetThrough ==
  ASSUME PoolInv, EarnInv, NEW w \in Workers, LetThrough(w)
  PROVE  EarnInv'
BY DEF LetThrough, Verdict, EarnInv, DialTypes, Untouched, Counted, Deserved, Found, Up, Down, PoolInv, Types,
       chanVars, callerVars, history

LEMMA EarnGiveUp ==
  ASSUME PoolInv, EarnInv, NEW w \in Workers, GiveUp(w)
  PROVE  EarnInv'
<1>1. attempt[w] = Retries + 1
  BY PingAssumption DEF GiveUp, DialsLeft, EarnInv, DialTypes
<1> QED BY <1>1 DEF GiveUp, Verdict, EarnInv, DialTypes, Untouched, Counted, Deserved, Found, Up, Down, PoolInv, Types,
       chanVars, callerVars, history

LEMMA EarnDialAnswered ==
  ASSUME PoolInv, EarnInv, NEW w \in Workers, DialAnswered(w)
  PROVE  EarnInv'
<1>1. /\ wpc[w] = "dial" /\ attempt[w] <= Retries
      /\ dials' = [dials EXCEPT ![wline[w]] = @ + 1]
      /\ reached' = reached \cup {wline[w]}
      /\ wok' = [wok EXCEPT ![w] = TRUE] /\ wpc' = [wpc EXCEPT ![w] = "send"]
      /\ UNCHANGED <<taken, wline, attempt, resultsCh, ordered>>
  BY DEF DialAnswered, Dial, DialsLeft, Verdict, chanVars, callerVars
<1>2. /\ wline[w] \in Lines /\ wline[w] < taken /\ ordered[wline[w]] = "unset"
      /\ \A v \in Workers : Busy(v) /\ v # w => wline[v] # wline[w]
      /\ \A k \in DOMAIN resultsCh : resultsCh[k].idx # wline[w]
  BY <1>1, DialledAlone
<1>3. dials[wline[w]] = attempt[w]
  BY <1>1 DEF EarnInv, Counted
<1>4. DialTypes'
  <2>1. attempt[w] \in Nat /\ attempt[w] + 1 \in 0 .. Retries + 1
    BY <1>1, PingAssumption DEF EarnInv, DialTypes
  <2>2. dials' \in [Lines -> 0 .. Retries + 1]
    BY <1>1, <1>2, <1>3, <2>1 DEF EarnInv, DialTypes
  <2> QED BY <1>1, <1>2, <2>1, <2>2 DEF EarnInv, DialTypes
<1>5. \A i \in Lines : i # wline[w] => /\ (Up(i)' <=> Up(i)) /\ (Down(i)' <=> Down(i))
                                       /\ Untouched(i)' <=> Untouched(i)
  BY <1>1, <1>2 DEF Deserved, Found, Up, Down, Untouched, EarnInv, DialTypes
<1>6. \A v \in Workers : v # w /\ wpc[v] = "dial" => Counted(v)'
  BY <1>1, <1>2 DEF EarnInv, DialTypes, Counted, Busy
<1>7. \A v \in Workers : v # w /\ wpc[v] = "send" => Deserved(Found(v))'
  BY <1>1, <1>2, <1>5 DEF EarnInv, Busy, PoolInv, Holds, Types, Deserved, Found, Up, Down
<1>8. \A k \in DOMAIN resultsCh' : Deserved(resultsCh[k])'
  BY <1>1, <1>2 DEF EarnInv, DialTypes, Deserved, Found, Up, Down
<1>9. \A i \in Lines : /\ ordered'[i] = "down" => Down(i)'
                       /\ ordered'[i] = "up" => Up(i)'
  <2>1. SUFFICES ASSUME NEW i \in Lines, i # wline[w]
                 PROVE  /\ ordered[i] = "down" => Down(i)'
                        /\ ordered[i] = "up" => Up(i)'
    BY <1>1, <1>2
  <2> QED BY <2>1, <1>5 DEF EarnInv
<1>10. \A v \in Workers : /\ wpc'[v] = "dial" => Counted(v)'
                          /\ wpc'[v] = "send" => Deserved(Found(v))'
  BY <1>1, <1>2, <1>6, <1>7 DEF Deserved, Found, Up, Down, PoolInv, Types
<1>11. \A i \in Lines : i >= taken' => Untouched(i)'
  <2> SUFFICES ASSUME NEW i \in Lines, i >= taken' PROVE Untouched(i)'
    OBVIOUS
  <2>1. i # wline[w] /\ i >= taken
    BY <1>1, <1>2, PingAssumption DEF PoolInv, Types
  <2> QED BY <2>1, <1>5 DEF EarnInv
<1> QED BY <1>4, <1>8, <1>9, <1>10, <1>11 DEF EarnInv

LEMMA EarnDialFailed ==
  ASSUME PoolInv, EarnInv, NEW w \in Workers, DialFailed(w)
  PROVE  EarnInv'
<1>1. /\ wpc[w] = "dial" /\ attempt[w] <= Retries
      /\ dials' = [dials EXCEPT ![wline[w]] = @ + 1]
      /\ attempt' = [attempt EXCEPT ![w] = @ + 1]
      /\ UNCHANGED <<taken, wpc, wline, wok, reached, resultsCh, ordered>>
  BY DEF DialFailed, Dial, DialsLeft, chanVars, callerVars
<1>2. /\ wline[w] \in Lines /\ wline[w] < taken /\ ordered[wline[w]] = "unset"
      /\ \A v \in Workers : Busy(v) /\ v # w => wline[v] # wline[w]
      /\ \A k \in DOMAIN resultsCh : resultsCh[k].idx # wline[w]
  BY <1>1, DialledAlone
<1>3. dials[wline[w]] = attempt[w] /\ wline[w] \notin reached
  BY <1>1 DEF EarnInv, Counted
<1>4. DialTypes'
  <2>1. attempt[w] \in Nat /\ attempt[w] + 1 \in 0 .. Retries + 1
    BY <1>1, PingAssumption, SMTT(30) DEF EarnInv, DialTypes
  <2>2. dials' \in [Lines -> 0 .. Retries + 1]
    BY <1>1, <1>2, <1>3, <2>1 DEF EarnInv, DialTypes
  <2> QED BY <1>1, <1>2, <2>1, <2>2 DEF EarnInv, DialTypes
<1>5. \A i \in Lines : i # wline[w] => /\ (Up(i)' <=> Up(i)) /\ (Down(i)' <=> Down(i))
                                       /\ Untouched(i)' <=> Untouched(i)
  BY <1>1, <1>2 DEF Deserved, Found, Up, Down, Untouched, EarnInv, DialTypes
<1>6. \A v \in Workers : wpc[v] = "dial" => Counted(v)'
  BY <1>1, <1>2, <1>3 DEF EarnInv, DialTypes, Counted, Busy
<1>7. \A v \in Workers : wpc[v] = "send" => Deserved(Found(v))'
  BY <1>1, <1>2 DEF EarnInv, DialTypes, Busy, Deserved, Found, Up, Down
<1>8. \A k \in DOMAIN resultsCh' : Deserved(resultsCh[k])'
  BY <1>1, <1>2 DEF EarnInv, DialTypes, Deserved, Found, Up, Down
<1>9. \A i \in Lines : /\ ordered'[i] = "down" => Down(i)'
                       /\ ordered'[i] = "up" => Up(i)'
  <2>1. SUFFICES ASSUME NEW i \in Lines, i # wline[w]
                 PROVE  /\ ordered[i] = "down" => Down(i)'
                        /\ ordered[i] = "up" => Up(i)'
    BY <1>1, <1>2
  <2> QED BY <2>1, <1>5 DEF EarnInv
<1>10. \A i \in Lines : i >= taken' => Untouched(i)'
  <2> SUFFICES ASSUME NEW i \in Lines, i >= taken' PROVE Untouched(i)'
    OBVIOUS
  <2>1. i # wline[w] /\ i >= taken
    BY <1>1, <1>2, PingAssumption DEF PoolInv, Types
  <2> QED BY <2>1, <1>5 DEF EarnInv
<1> QED BY <1>1, <1>4, <1>6, <1>7, <1>8, <1>9, <1>10 DEF EarnInv

LEMMA EarnSend ==
  ASSUME PoolInv, EarnInv, NEW w \in Workers, Send(w)
  PROVE  EarnInv'
<1> DEFINE e == [idx |-> wline[w], ok |-> wok[w]]
<1>1. /\ wpc[w] = "send" /\ resultsCh' = Append(resultsCh, e)
      /\ wpc' = [wpc EXCEPT ![w] = "recv"]
      /\ UNCHANGED <<taken, wline, attempt, wok, ordered, dials, reached>>
  BY DEF Send, callerVars, history
<1>2. e \in [idx : Lines, ok : BOOLEAN]
  BY <1>1 DEF PoolInv, Types, Holds, Busy
<1>3. /\ DOMAIN resultsCh' = 1 .. Len(resultsCh) + 1 /\ DOMAIN resultsCh = 1 .. Len(resultsCh)
      /\ Len(resultsCh) \in Nat
      /\ \A k \in DOMAIN resultsCh : resultsCh'[k] = resultsCh[k]
      /\ resultsCh'[Len(resultsCh) + 1] = e
  BY <1>1, <1>2, Sent DEF PoolInv, Types
<1>4. Deserved(e)
  BY <1>1 DEF EarnInv, Found
<1>5. \A k \in DOMAIN resultsCh' : Deserved(resultsCh'[k])
  BY <1>3, <1>4 DEF EarnInv
<1>6. \A i : (Up(i)' <=> Up(i)) /\ (Down(i)' <=> Down(i))
  BY <1>1 DEF Deserved, Found, Up, Down
<1>7. \A v \in Workers : wpc'[v] = "send" => Deserved(Found(v))'
  BY <1>1, <1>6 DEF EarnInv, PoolInv, Types, Deserved, Found
<1> QED BY <1>1, <1>5, <1>6, <1>7 DEF EarnInv, DialTypes, Untouched, Counted, Deserved, PoolInv, Types

LEMMA EarnNext == PoolInv /\ EarnInv /\ [Next]_vars => EarnInv'
<1> SUFFICES ASSUME PoolInv, EarnInv, [Next]_vars PROVE EarnInv'
  OBVIOUS
<1>1. CASE Feed \/ CloseJobs \/ EndDrain \/ Collect \/ CloseResults \/ UNCHANGED vars
  <2>1. UNCHANGED <<taken, wpc, wline, attempt, wok, resultsCh, ordered, history>>
    BY <1>1 DEF Feed, CloseJobs, EndDrain, Collect, CloseResults, vars, chanVars, workerVars,
                callerVars
  <2> QED BY <2>1, EarnSame
<1>2. ASSUME NEW w \in Workers, Worker(w) PROVE EarnInv'
  BY <1>2, EarnReceive, EarnExit, EarnLetThrough, EarnDialAnswered, EarnDialFailed, EarnGiveUp,
     EarnSend DEF Worker
<1> QED BY <1>1, <1>2, EarnDrain DEF Next, Caller, Returned

(* Every verdict in its slot is earned: a server is dropped only after     *)
(* Retries + 1 dials that all failed.                                      *)
THEOREM VerdictsEarned == Spec => []VerdictEarned
<1>1. ASSUME EarnInv PROVE VerdictEarned
  <2> SUFFICES ASSUME NEW i \in Lines
               PROVE  /\ ordered[i] = "down" => dials[i] = Retries + 1 /\ i \notin reached
                      /\ ordered[i] = "up" => i \in reached \cup NoAddr
                      /\ dials[i] <= Retries + 1
    BY DEF VerdictEarned
  <2>1. dials[i] \in 0 .. Retries + 1
    BY <1>1 DEF EarnInv, DialTypes
  <2>2. ordered[i] = "down" => Down(i)
    BY <1>1 DEF EarnInv
  <2>3. ordered[i] = "up" => Up(i)
    BY <1>1 DEF EarnInv
  <2> QED BY <2>1, <2>2, <2>3, PingAssumption DEF Deserved, Found, Up, Down
<1> QED BY EarnInit, EarnNext, PoolInvariant, <1>1, PTL DEF Spec

-----------------------------------------------------------------------------
(* What the caller returns, once it has: the reachable lines, each once, in*)
(* the order of the lines, and how many the others are.                    *)

LEMMA LinesInOrder ==
  /\ InOrder \in Seq(Lines) /\ Len(InOrder) = NumLines
  /\ Distinct(InOrder) /\ Elements(InOrder) = Lines
<1>1. \A k \in 1 .. NumLines : k - 1 \in Lines BY PingAssumption
<1>2. [k \in 1 .. NumLines |-> k - 1] \in Seq(Lines) BY <1>1, PingAssumption, IsASeq
<1>3. /\ InOrder \in Seq(Lines) /\ Len(InOrder) = NumLines
      /\ \A k \in 1 .. NumLines : InOrder[k] = k - 1
  BY <1>2, PingAssumption DEF InOrder
<1>4. Distinct(InOrder) BY <1>3 DEF Distinct
<1>5. \A i \in Lines : i + 1 \in 1 .. NumLines /\ InOrder[i + 1] = i
  BY <1>3, PingAssumption
<1>6. Elements(InOrder) = Lines BY <1>1, <1>3, <1>5 DEF Elements
<1> QED BY <1>3, <1>4, <1>6

HIDE DEF Lines, Workers

LEMMA ReachableLen ==
  ASSUME NEW v
  PROVE  /\ Reachable(v) \in Seq(Lines)
         /\ Len(Reachable(v)) = Cardinality(UpIn(v)) /\ Len(Reachable(v)) \in 0 .. NumLines
         /\ Elements(Reachable(v)) = UpIn(v) /\ Distinct(Reachable(v))
<1>1. UpIn(v) \subseteq Lines /\ Lines \cap UpIn(v) = UpIn(v) BY DEF UpIn
<1>2. Reachable(v) \in Seq(Lines \cap UpIn(v)) BY LinesInOrder, SelectType DEF Reachable
<1>3. Len(Reachable(v)) = Cardinality(UpIn(v))
  <2>1. Len(Reachable(v)) = Cardinality(Elements(InOrder) \cap UpIn(v))
    BY LinesInOrder, SelectLen DEF Reachable
  <2>2. Elements(InOrder) \cap UpIn(v) = UpIn(v) BY <1>1, LinesInOrder
  <2> QED BY <2>1, <2>2
<1>4. Elements(Reachable(v)) = UpIn(v) /\ Distinct(Reachable(v))
  BY <1>1, LinesInOrder, SelectElements DEF Reachable
<1>5. Cardinality(UpIn(v)) \in 0 .. NumLines
  <2>1. IsFiniteSet(Lines) /\ Cardinality(Lines) = NumLines
    BY PingAssumption, FS_Interval DEF Lines
  <2>2. IsFiniteSet(UpIn(v)) /\ Cardinality(UpIn(v)) <= NumLines
    BY <1>1, <2>1, FS_Subset
  <2>3. Cardinality(UpIn(v)) \in Nat BY <2>2, FS_CardinalityType
  <2> QED BY <2>2, <2>3, PingAssumption
<1>6. Reachable(v) \in Seq(Lines) BY <1>1, <1>2, SeqMonotonic
<1> QED BY <1>3, <1>4, <1>5, <1>6

(* Type correctness: EarnInv has the types of the dials, PoolInv those of  *)
(* the channels, and only Collect sets the results.                        *)
THEOREM TypeCorrect == Spec => []TypeOK
<1> DEFINE ResultTypes == passed \in Seq(Lines) /\ failed \in 0 .. NumLines
<1>1. Init => ResultTypes BY EmptySeq, PingAssumption DEF Init
<1>2. ASSUME ResultTypes, [Next]_vars PROVE ResultTypes'
  <2>1. CASE Collect
    <3>1. passed' = Reachable(ordered) /\ failed' = NumLines - Len(Reachable(ordered))
      BY <2>1 DEF Collect, Failed
    <3> QED BY <3>1, ReachableLen, PingAssumption
  <2>2. CASE UNCHANGED <<passed, failed>> BY <1>2, <2>2
  <2>3. Feed \/ CloseJobs \/ Drain \/ EndDrain \/ CloseResults \/ UNCHANGED vars =>
          UNCHANGED <<passed, failed>>
    BY DEF Feed, CloseJobs, Drain, EndDrain, CloseResults, vars, callerVars
  <2>4. ASSUME NEW w \in Workers, Worker(w) PROVE UNCHANGED <<passed, failed>>
    BY <2>4 DEF Worker, Receive, Exit, LetThrough, DialAnswered, DialFailed, Dial,
                GiveUp, Send, callerVars
  <2> QED BY <1>2, <2>1, <2>2, <2>3, <2>4 DEF Next, Caller, Returned
<1>3. ASSUME PoolInv, EarnInv, ResultTypes PROVE TypeOK
  BY <1>3, PingAssumption DEF PoolInv, Types, EarnInv, DialTypes, TypeOK
<1> HIDE DEF ResultTypes
<1> QED BY <1>1, <1>2, <1>3, PoolInvariant, EarnInit, EarnNext, PTL DEF Spec

(* What the call returns is the set of lines judged reachable, each once,  *)
(* and the others are counted: nothing else can be read off its results.   *)
ReturnedLines == main = "done" =>
  /\ passed = Select(InOrder, UpIn(ordered))
  /\ Elements(passed) = UpIn(ordered) /\ Distinct(passed)
  /\ Len(passed) + failed = NumLines

THEOREM ReturnsReachable == Spec => []ReturnedLines
<1>1. Init => ReturnedLines BY DEF Init, ReturnedLines
<1>2. ASSUME PoolInv, ReturnedLines, [Next]_vars PROVE ReturnedLines'
  <2>1. CASE Collect
    <3>1. /\ passed' = Reachable(ordered) /\ failed' = NumLines - Len(Reachable(ordered))
          /\ ordered' = ordered
      BY <2>1 DEF Collect, Failed
    <3>2. Len(passed') + failed' = NumLines
      BY <3>1, ReachableLen, PingAssumption
    <3> QED BY <3>1, <3>2, ReachableLen DEF ReturnedLines, Reachable, UpIn
  <2>2. CASE UNCHANGED <<passed, failed, ordered>> /\ (main' = "done" => main = "done")
    BY <1>2, <2>2 DEF ReturnedLines, UpIn
  <2>3. Feed \/ CloseJobs \/ Drain \/ EndDrain => main' # "done"
    BY DEF Feed, CloseJobs, Drain, EndDrain
  <2>4. CloseResults \/ UNCHANGED vars => UNCHANGED <<main, passed, failed, ordered>>
    BY DEF CloseResults, vars, callerVars
  <2>5. ASSUME NEW w \in Workers, Worker(w) PROVE UNCHANGED <<main, passed, failed, ordered>>
    BY <2>5 DEF Worker, Receive, Exit, LetThrough, DialAnswered, DialFailed, Dial,
                GiveUp, Send, callerVars
  <2>6. main' # "done" => ReturnedLines' BY DEF ReturnedLines
  <2> QED BY <1>2, <2>1, <2>2, <2>3, <2>4, <2>5, <2>6 DEF Next, Caller, Returned
<1> QED BY <1>1, <1>2, PoolInvariant, PTL DEF Spec
=============================================================================
