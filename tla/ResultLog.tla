----------------------------- MODULE ResultLog ------------------------------
(***************************************************************************)
(* The logger of src/logger.go as validateAll uses it: logProtoStart when a*)
(* protocol begins, logResult from every goroutine of its batches, and     *)
(* logSummary when all is done. Two kinds of mutex are at work: l.mu guards*)
(* the map of statistics and the buffer, each protoStat's mu its counters; *)
(* the totals are atomics. A read-modify-write under a mutex is two steps, *)
(* so that it is the mutex that keeps it whole.                            *)
(***************************************************************************)
EXTENDS Integers, Sequences, FiniteSets, SequencesExt

CONSTANTS
  ProtocolOrder,   \* settings.json protocol_order, those with lines to test
  Workers,         \* the goroutines that call logResult, one per tested line
  ProtoOf,         \* the protocol each tests
  Free, NoStat

Protocols == ToSet(ProtocolOrder)
Kinds == {"passed", "parseFail", "startFail", "connFail"}
Fields == Kinds \cup {"tested"}

ASSUME LogAssumption == /\ ProtocolOrder \in Seq(Protocols) /\ IsInjective(ProtocolOrder)
                        /\ IsFiniteSet(Workers)
                        /\ ProtoOf \in [Workers -> Protocols]
                        /\ Free \notin Workers
                        /\ Protocols \cap Workers = {}
                        /\ NoStat \notin Protocols \cup Workers

(* A protoStat is named after whoever allocated it. *)
Stats == Protocols \cup Workers

VARIABLES
  mpc, pi,      \* validateAll: "start", "join", "done"; the protocol's position
  wpc,          \* each goroutine's position
  res,          \* the kind of its result
  idx,          \* its globalIdx
  testedCount,
  protoStats,   \* the logger's map
  stat,         \* a goroutine's local st
  fields,       \* the counters of each protoStat
  seen,         \* the counters a goroutine read before it updates them
  statMu,       \* holder of each protoStat's mu
  total,        \* the logger's atomics
  mu,           \* holder of the logger's mu
  buf           \* what was written: texts and line ends

stats == <<protoStats, fields, statMu, total>>
local == <<res, idx, stat, seen>>
vars == <<mpc, pi, wpc, testedCount, stats, local, mu, buf>>

Header == <<"protocol", pi>>
Text(w) == <<"result", idx[w]>>
NewLine == <<"newline", 0>>
Zero == [f \in Fields |-> 0]

Init == /\ mpc = "start" /\ pi = 1
        /\ wpc = [w \in Workers |-> "idle"]
        /\ res = [w \in Workers |-> "none"]
        /\ idx = [w \in Workers |-> 0]
        /\ testedCount = 0
        /\ protoStats = [p \in Protocols |-> NoStat]
        /\ stat = [w \in Workers |-> NoStat]
        /\ fields = [s \in Stats |-> Zero]
        /\ seen = [w \in Workers |-> Zero]
        /\ statMu = [s \in Stats |-> Free]
        /\ total = Zero
        /\ mu = Free /\ buf = << >>

Proto == ProtocolOrder[pi]
Goroutines == {w \in Workers : ProtoOf[w] = Proto}

(* logProtoStart, while no goroutine runs. *)
ProtoStart == /\ mpc = "start" /\ pi <= Len(ProtocolOrder)
              /\ protoStats' = [protoStats EXCEPT ![Proto] =
                                  IF @ = NoStat THEN Proto ELSE @]
              /\ buf' = buf \o <<Header, NewLine>>
              /\ wpc' = [w \in Workers |-> IF w \in Goroutines THEN "test" ELSE wpc[w]]
              /\ mpc' = "join"
              /\ UNCHANGED <<pi, testedCount, fields, statMu, total, local, mu>>

Join == /\ mpc = "join" /\ \A w \in Goroutines : wpc[w] = "done"
        /\ mpc' = "start" /\ pi' = pi + 1
        /\ UNCHANGED <<wpc, testedCount, stats, local, mu, buf>>

-----------------------------------------------------------------------------
(* atomic.AddInt64(&testedCount, 1), then the test itself. *)
Test(w) == /\ wpc[w] = "test"
           /\ testedCount' = testedCount + 1
           /\ idx' = [idx EXCEPT ![w] = testedCount + 1]
           /\ \E k \in Kinds : res' = [res EXCEPT ![w] = k]
           /\ wpc' = [wpc EXCEPT ![w] = "lookup"]
           /\ UNCHANGED <<mpc, pi, stats, stat, seen, mu, buf>>

(* The protocol's statistics, allocated if nobody has done so. *)
StatFor(w) == IF protoStats[ProtoOf[w]] = NoStat THEN w ELSE protoStats[ProtoOf[w]]

Lookup(w) == /\ wpc[w] = "lookup" /\ mu = Free
             /\ stat' = [stat EXCEPT ![w] = StatFor(w)]
             /\ protoStats' = [protoStats EXCEPT ![ProtoOf[w]] = StatFor(w)]
             /\ wpc' = [wpc EXCEPT ![w] = "count"]
             /\ UNCHANGED <<mpc, pi, testedCount, fields, statMu, total, res, idx,
                            seen, mu, buf>>

(* Mutants: st.mu or l.mu is not taken. *)
NoMutex(w) == TRUE
StatFree(w) == statMu[stat[w]] = Free
LogFree(w) == mu = Free

LockStat(w) == /\ wpc[w] = "count" /\ StatFree(w)
               /\ statMu' = [statMu EXCEPT ![stat[w]] = w]
               /\ seen' = [seen EXCEPT ![w] = fields[stat[w]]]
               /\ wpc' = [wpc EXCEPT ![w] = "counting"]
               /\ UNCHANGED <<mpc, pi, testedCount, protoStats, fields, total, res,
                              idx, stat, mu, buf>>

Increment(c, kind) == [c EXCEPT !["tested"] = @ + 1, ![kind] = @ + 1]

CountResult(w) == /\ wpc[w] = "counting"
                  /\ fields' = [fields EXCEPT ![stat[w]] = Increment(seen[w], res[w])]
                  /\ total' = Increment(total, res[w])
                  /\ statMu' = [statMu EXCEPT ![stat[w]] = Free]
                  /\ wpc' = [wpc EXCEPT ![w] = "write"]
                  /\ UNCHANGED <<mpc, pi, testedCount, protoStats, local, mu, buf>>

(* writeLine: the text, then the line's end. *)
WriteText(w) == /\ wpc[w] = "write" /\ LogFree(w)
                /\ mu' = w
                /\ buf' = Append(buf, Text(w))
                /\ wpc' = [wpc EXCEPT ![w] = "newline"]
                /\ UNCHANGED <<mpc, pi, testedCount, stats, local>>

EndLine(w) == /\ wpc[w] = "newline"
              /\ buf' = Append(buf, NewLine)
              /\ mu' = Free
              /\ wpc' = [wpc EXCEPT ![w] = "done"]
              /\ UNCHANGED <<mpc, pi, testedCount, stats, local>>

(* logSummary only reads the counters; its own lines are left out. *)
Summary == /\ mpc = "start" /\ pi > Len(ProtocolOrder)
           /\ mpc' = "done"
           /\ UNCHANGED <<pi, wpc, testedCount, stats, local, mu, buf>>

Goroutine(w) == Test(w) \/ Lookup(w) \/ LockStat(w) \/ CountResult(w)
                \/ WriteText(w) \/ EndLine(w)
Finished == mpc = "done" /\ UNCHANGED vars

Next == ProtoStart \/ Join \/ Summary \/ (\E w \in Workers : Goroutine(w)) \/ Finished

Spec == Init /\ [][Next]_vars

-----------------------------------------------------------------------------
(* Properties. *)

StatOf(p) == IF protoStats[p] = NoStat THEN Zero ELSE fields[protoStats[p]]

Counted == {w \in Workers : wpc[w] \in {"write", "newline", "done"}}

(* No result is lost between the two mutexes and the atomics: every        *)
(* protocol's counters, and the totals of the summary, are exactly the     *)
(* results counted so far.                                                 *)
NothingLost ==
  /\ \A p \in Protocols, k \in Kinds :
        StatOf(p)[k] = Cardinality({w \in Counted : ProtoOf[w] = p /\ res[w] = k})
  /\ \A p \in Protocols :
        StatOf(p)["tested"] = Cardinality({w \in Counted : ProtoOf[w] = p})
  /\ \A k \in Kinds : total[k] = Cardinality({w \in Counted : res[w] = k})
  /\ total["tested"] = Cardinality(Counted)

(* The log's lines are whole: each text is followed by its own line end,   *)
(* never by another goroutine's text; and when all is done every tested    *)
(* line has one, with a number of its own.                                 *)
LinesWhole ==
  /\ \A k \in DOMAIN buf : buf[k] = NewLine <=> k % 2 = 0
  /\ mpc = "done" => /\ Len(buf) = 2 * (Len(ProtocolOrder) + Cardinality(Workers))
                     /\ \A n \in 1 .. Cardinality(Workers) : Contains(buf, <<"result", n>>)
=============================================================================
