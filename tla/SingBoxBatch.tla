---------------------------- MODULE SingBoxBatch ----------------------------
(***************************************************************************)
(* Phase 2 of validateAll for one protocol (src/validator.go): the configs *)
(* that passed the TCP ping are tested in batches. One goroutine per config*)
(* of the batch takes a local port from a shared channel, starts a sing-box*)
(* process that must listen on that port, sends test requests through it,  *)
(* kills the process group and gives the port back. When the batch has been*)
(* joined, killAll of src/sysproc.go kills once more every process the     *)
(* batch started, and the results are tallied.                             *)
(*                                                                         *)
(* The operating system is part of the model: processes start, bind, exit, *)
(* die some time after SIGKILL and stay zombies until cmd.Wait reaps them; *)
(* a pid is handed out again once its process is reaped. A config starts at*)
(* most one process, so a process is named by its config.                  *)
(***************************************************************************)
EXTENDS Selection, FiniteSets

CONSTANTS
  NumConfigs,    \* len(pingPassed)
  BatchSize,     \* settings.json num_workers (50 when not positive)
  BasePort,      \* settings.json base_port
  Tries,         \* requests tryHTTP may send: max_retries + 1 times the distinct test_urls
  Unparsable,    \* configs toSingBoxOutbound rejects
  Pids,          \* process ids the operating system hands out
  Stale,         \* ports on which something foreign listens: another program,
                 \* or a sing-box that a crashed run left behind
  Free, NoPid, NoPort, Foreign, Nobody

Configs == 0 .. NumConfigs - 1
Ports == BasePort .. BasePort + BatchSize - 1

ASSUME BatchAssumption ==
  /\ NumConfigs \in Nat
  /\ BatchSize \in Nat \ {0}
  /\ BasePort \in Nat
  /\ Tries \in Nat
  /\ Unparsable \subseteq Configs
  /\ Stale \subseteq Ports
  /\ Free \notin Configs /\ Foreign \notin Configs /\ Nobody \notin Configs
  /\ Foreign # Nobody
  /\ NoPid \notin Pids /\ NoPort \notin Ports

VARIABLES
  mpc,        \* validateAll: "batch", "join", "sweep", "tally", "done"
  first,      \* start: index of the batch's first config
  pc,         \* each config's goroutine
  pool,       \* the channel localPorts
  port,       \* the local variable port of validateWithTracker
  res,        \* validationResult: "none", "PASS" or the failReason's prefix
  tries,      \* requests sent by tryHTTP
  expired,    \* goroutines whose context has expired
  files,      \* temporary config files that exist
  tracked,    \* bt.cmds
  sweep,      \* killAll's goroutines: "idle", "signal", "reap", "done"
  waiting,    \* commands some goroutine is in cmd.Wait for
  tested,     \* testedCount
  count,      \* passedCount, failedParse, failedStart, failedConn
  published,  \* out, as indices
  proc,       \* process: "none", "starting", "listening", "dying", "zombie", "reaped"
  binds,      \* the port a process listens on
  pid,        \* cmd.Process.Pid
  holder,     \* which process has a pid
  via,        \* history: the process that carried a config's successful request
  stray,      \* history: processes struck by a signal meant for another one
  late        \* history: killGroup gave up waiting for some process

mainVars == <<mpc, first, tested, count, published>>
osVars == <<proc, binds, pid, holder, stray>>
localVars == <<port, res, tries, expired, via>>
vars == <<mainVars, pc, pool, localVars, files, tracked, sweep, waiting, late, osVars>>

Batch == {i \in Configs : first <= i /\ i < first + BatchSize}
BatchLen == IF first + BatchSize > NumConfigs THEN NumConfigs - first ELSE BatchSize

Live(i) == proc[i] \in {"starting", "listening"}

Init ==
  /\ mpc = IF NumConfigs = 0 THEN "done" ELSE "batch"
  /\ first = 0
  /\ pc = [i \in Configs |-> "idle"]
  /\ pool = << >>
  /\ port = [i \in Configs |-> NoPort]
  /\ res = [i \in Configs |-> "none"]
  /\ tries = [i \in Configs |-> 0]
  /\ expired = {} /\ files = {} /\ tracked = {} /\ waiting = {}
  /\ sweep = [i \in Configs |-> "idle"]
  /\ tested = 0
  /\ count = [c \in {"passed", "parse", "start", "conn"} |-> 0]
  /\ published = << >>
  /\ proc = [i \in Configs |-> "none"]
  /\ binds = [i \in Configs |-> NoPort]
  /\ pid = [i \in Configs |-> NoPid]
  /\ holder = [p \in Pids |-> Free]
  /\ via = [i \in Configs |-> Nobody]
  /\ stray = {} /\ late = FALSE

-----------------------------------------------------------------------------
(* The operating system. *)

(* A port can be bound while no process, dying ones included, has it.      *)
PortInUse(p) == p \in Stale \/ \E j \in Configs : binds[j] = p

Bind(i) == /\ proc[i] = "starting"
           /\ ~PortInUse(port[i])
           /\ proc' = [proc EXCEPT ![i] = "listening"]
           /\ binds' = [binds EXCEPT ![i] = port[i]]
           /\ UNCHANGED <<mainVars, pc, pool, localVars, files, tracked, sweep,
                          waiting, pid, holder, stray, late>>

(* sing-box gives up by itself (a rejected configuration, a taken port, a  *)
(* crash), or a killed process is finally gone.                            *)
Exit(i) == /\ proc[i] \in {"starting", "listening", "dying"}
           /\ proc' = [proc EXCEPT ![i] = "zombie"]
           /\ binds' = [binds EXCEPT ![i] = NoPort]
           /\ UNCHANGED <<mainVars, pc, pool, localVars, files, tracked, sweep,
                          waiting, pid, holder, stray, late>>

(* cmd.Wait, called in a goroutine of its own, reaps the process. *)
WaitReturns(i) == /\ i \in waiting
                  /\ proc[i] = "zombie"
                  /\ proc' = [proc EXCEPT ![i] = "reaped"]
                  /\ holder' = [holder EXCEPT ![pid[i]] = Free]
                  /\ waiting' = waiting \ {i}
                  /\ UNCHANGED <<mainVars, pc, pool, localVars, files, tracked,
                                 sweep, binds, pid, stray, late>>

(* SIGKILL to a set of processes: no user code of theirs runs any more. *)
Killed(struck) == [j \in Configs |-> IF j \in struck /\ Live(j) THEN "dying" ELSE proc[j]]

(* syscall.Kill(-pgid, SIGKILL), where Getpgid found who has the pid now.  *)
PidOwner(i) == IF pid[i] \in Pids THEN {holder[pid[i]]} \cap Configs ELSE {}
Signal(struck, i) == /\ proc' = Killed(struck)
                     /\ stray' = stray \cup {j \in struck \ {i} : Live(j)}
                     /\ UNCHANGED <<binds, pid, holder>>

(* cmd.Process.Kill() reaches the command's own process, whatever its pid. *)
KillNow(i) == Signal(PidOwner(i) \cup {i}, i)
KillAgain(i) == Signal(PidOwner(i), i)

-----------------------------------------------------------------------------
(* validateWithTracker, one goroutine per config. *)

Holding == {"write", "launch", "register", "wait", "http", "kill", "reap", "return"}

Goto(i, l) == pc' = [pc EXCEPT ![i] = l]
Verdict(i, r) == res' = [res EXCEPT ![i] = r]

Parse(i) == /\ pc[i] = "spawned"
            /\ tested' = tested + 1
            /\ IF i \in Unparsable THEN Verdict(i, "PARSE") /\ Goto(i, "done")
                                   ELSE Goto(i, "take") /\ UNCHANGED res
            /\ UNCHANGED <<mpc, first, count, published, pool, port, tries, expired,
                           via, files, tracked, sweep, waiting, osVars, late>>

(* A receive removes the port from the channel. Mutant: it does not. *)
PoolKept == pool
PoolLeft == Tail(pool)

TakePort(i) == /\ pc[i] = "take"
               /\ pool # << >>
               /\ port' = [port EXCEPT ![i] = Head(pool)]
               /\ pool' = PoolLeft
               /\ Goto(i, "write")
               /\ UNCHANGED <<mainVars, res, tries, expired, via, files, tracked,
                              sweep, waiting, osVars, late>>

WriteConfig(i) == /\ pc[i] = "write"
                  /\ files' = files \cup {i}
                  /\ Goto(i, "launch")
                  /\ UNCHANGED <<mainVars, pool, localVars, tracked, sweep,
                                 waiting, osVars, late>>

(* CreateTemp fails, or WriteFile fails and the file is removed at once. *)
WriteFails(i) == /\ pc[i] = "write"
                 /\ Verdict(i, "FILE")
                 /\ Goto(i, "return")
                 /\ UNCHANGED <<mainVars, pool, port, tries, expired, via, files,
                                tracked, sweep, waiting, osVars, late>>

Launch(i) == /\ pc[i] = "launch"
             /\ \E p \in Pids :
                  /\ holder[p] = Free
                  /\ holder' = [holder EXCEPT ![p] = i]
                  /\ pid' = [pid EXCEPT ![i] = p]
             /\ proc' = [proc EXCEPT ![i] = "starting"]
             /\ Goto(i, "register")
             /\ UNCHANGED <<mainVars, pool, localVars, files, tracked, sweep,
                            waiting, binds, stray, late>>

LaunchFails(i) == /\ pc[i] = "launch"
                  /\ Verdict(i, "START")
                  /\ Goto(i, "return")
                  /\ UNCHANGED <<mainVars, pool, port, tries, expired, via, files,
                                 tracked, sweep, waiting, osVars, late>>

Register(i) == /\ pc[i] = "register"
               /\ tracked' = tracked \cup {i}
               /\ Goto(i, "wait")
               /\ UNCHANGED <<mainVars, pool, localVars, files, sweep, waiting, osVars, late>>

(* waitForPort: any listener will do. A dying process that has not yet     *)
(* released its socket still completes the TCP handshake.                  *)
PortOpens(i) == /\ pc[i] = "wait"
                /\ PortInUse(port[i])
                /\ Goto(i, "http")
                /\ UNCHANGED <<mainVars, pool, localVars, files, tracked, sweep,
                               waiting, osVars, late>>

(* The deadline passed after a dial failed, which a loaded host's dial may *)
(* do at any time.                                                         *)
LeaveRunning(i) == /\ pc[i] = "wait"      \* mutant: cleans up by hand, forgets
                   /\ Verdict(i, "SINGBOX_START")            \* the process
                   /\ pool' = Append(pool, port[i])
                   /\ files' = files \ {i}
                   /\ Goto(i, "done")
                   /\ UNCHANGED <<mainVars, port, tries, expired, via, tracked,
                                  sweep, waiting, osVars, late>>
PortStaysClosed(i) == /\ pc[i] = "wait"
                      /\ Verdict(i, "SINGBOX_START")
                      /\ Goto(i, "kill")
                      /\ UNCHANGED <<mainVars, pool, port, tries, expired, via, files,
                                     tracked, sweep, waiting, osVars, late>>

(* The context's deadline: os/exec kills the command's process. Later than *)
(* "http" it would only repeat what killGroup does. Mutant: a late expiry  *)
(* overwrites the verdict.                                                 *)
ExpiresLate(i) == /\ pc[i] \in {"register", "wait", "http", "done"}
                  /\ i \notin expired
                  /\ expired' = expired \cup {i}
                  /\ proc' = Killed({i})
                  /\ Verdict(i, "CONN")
                  /\ UNCHANGED <<mainVars, pc, pool, port, tries, via, files,
                                 tracked, sweep, waiting, binds, pid, holder, stray, late>>
ContextExpires(i) == /\ pc[i] \in {"register", "wait", "http"}
                     /\ i \notin expired
                     /\ expired' = expired \cup {i}
                     /\ proc' = Killed({i})
                     /\ UNCHANGED <<mainVars, pc, pool, port, res, tries, via, files,
                                    tracked, sweep, waiting, binds, pid, holder, stray, late>>

(* Who can answer an HTTP request sent to local port p: a process that runs*)
(* and listens there, or whatever holds a stale port.                      *)
Servers(p) == {j \in Configs : proc[j] = "listening" /\ binds[j] = p}
              \cup (IF p \in Stale THEN {Foreign} ELSE {})

(* tryHTTP's two loops, URLs within attempts. Mutant: one request more. *)
OneTryMore(i) == tries[i] <= Tries
TriesLeft(i) == tries[i] < Tries

(* An accepted status code came back through the proxy. *)
Answered(i) == /\ pc[i] = "http"
               /\ i \notin expired
               /\ TriesLeft(i)
               /\ \E s \in Servers(port[i]) : via' = [via EXCEPT ![i] = s]
               /\ Verdict(i, "PASS")
               /\ Goto(i, "kill")
               /\ UNCHANGED <<mainVars, pool, port, tries, expired, files, tracked,
                              sweep, waiting, osVars, late>>

(* A timeout or another status code: tryHTTP goes on to its next URL. *)
TryForEver(i) == /\ pc[i] = "http"         \* mutant: the loop never ends
                 /\ tries' = [tries EXCEPT ![i] = 1 - @]
                 /\ UNCHANGED <<mainVars, pc, pool, port, res, expired, via, files,
                                tracked, sweep, waiting, osVars, late>>
Unanswered(i) == /\ pc[i] = "http"
                 /\ i \notin expired
                 /\ TriesLeft(i)
                 /\ tries' = [tries EXCEPT ![i] = @ + 1]
                 /\ UNCHANGED <<mainVars, pc, pool, port, res, expired, via, files,
                                tracked, sweep, waiting, osVars, late>>

(* Refused or reset (at once), context expired, or no URL left to try. *)
RequestsFail(i) == /\ pc[i] = "http"
                   /\ Verdict(i, "CONN")
                   /\ Goto(i, "kill")
                   /\ UNCHANGED <<mainVars, pool, port, tries, expired, via, files,
                                  tracked, sweep, waiting, osVars, late>>

(* killGroup up to its select. *)
KillGroup(i) == /\ pc[i] = "kill"
                /\ KillNow(i)
                /\ waiting' = waiting \cup {i}
                /\ Goto(i, "reap")
                /\ UNCHANGED <<mainVars, pool, localVars, files, tracked, sweep, late>>

(* case <-done. Mutant: one more signal, to make sure. *)
SignalReaped(i) == /\ pc[i] = "reap"
                   /\ proc[i] = "reaped"
                   /\ KillAgain(i)
                   /\ Goto(i, "return")
                   /\ UNCHANGED <<mainVars, pool, localVars, files, tracked, sweep,
                                  waiting, late>>
Reaped(i) == /\ pc[i] = "reap"
             /\ proc[i] = "reaped"
             /\ Goto(i, "return")
             /\ UNCHANGED <<mainVars, pool, localVars, files, tracked, sweep,
                            waiting, osVars, late>>

(* case <-time.After(2s), which may be chosen although done is ready too. *)
KillTimesOut(i) == /\ pc[i] = "reap"
                   /\ KillAgain(i)
                   /\ Goto(i, "return")
                   /\ late' = TRUE
                   /\ UNCHANGED <<mainVars, pool, localVars, files, tracked, sweep,
                                  waiting>>

(* The deferred calls, last first: cancel (which kills a process that has  *)
(* not been reaped), os.Remove, and the port goes back to the channel.     *)
Return(i) == /\ pc[i] = "return"
             /\ proc' = Killed({i})
             /\ files' = files \ {i}
             /\ pool' = Append(pool, port[i])
             /\ Goto(i, "done")
             /\ UNCHANGED <<mainVars, localVars, tracked, sweep, waiting, binds,
                            pid, holder, stray, late>>

-----------------------------------------------------------------------------
(* validateAll, the batch loop. *)

(* One port per config of the batch. Mutants: the same one, one too few. *)
PortsEqual == [k \in 1 .. BatchLen |-> BasePort]
PortsShort == [k \in 1 .. BatchLen - 1 |-> BasePort + k - 1]
LocalPorts == [k \in 1 .. BatchLen |-> BasePort + k - 1]

StartBatch == /\ mpc = "batch"
              /\ pool' = LocalPorts
              /\ tracked' = {}
              /\ pc' = [i \in Configs |-> IF i \in Batch THEN "spawned" ELSE pc[i]]
              /\ mpc' = "join"
              /\ UNCHANGED <<first, tested, count, published, localVars, files,
                             sweep, waiting, osVars, late>>

(* wg.Wait() returns; killAll takes the registered commands. Mutant: the   *)
(* WaitGroup misses a goroutine.                                           *)
SomeDone == \E i \in Batch : pc[i] = "done"
Joined == \A i \in Batch : pc[i] = "done"

Join == /\ mpc = "join"
        /\ Joined
        /\ sweep' = [i \in Configs |-> IF i \in tracked THEN "signal" ELSE "idle"]
        /\ tracked' = {}
        /\ mpc' = "sweep"
        /\ UNCHANGED <<first, tested, count, published, pc, pool, localVars, files,
                       waiting, osVars, late>>

(* killAll's goroutines repeat killGroup's sequence for each command. A    *)
(* Wait that has already returned makes the second one return at once.     *)
SweepSignal(i) == /\ sweep[i] = "signal"
                  /\ KillNow(i)
                  /\ waiting' = IF proc[i] = "reaped" THEN waiting ELSE waiting \cup {i}
                  /\ sweep' = [sweep EXCEPT ![i] = "reap"]
                  /\ UNCHANGED <<mainVars, pc, pool, localVars, files, tracked, late>>

SweepReaped(i) == /\ sweep[i] = "reap"
                  /\ proc[i] = "reaped"
                  /\ sweep' = [sweep EXCEPT ![i] = "done"]
                  /\ UNCHANGED <<mainVars, pc, pool, localVars, files, tracked,
                                 waiting, osVars, late>>

SweepTimesOut(i) == /\ sweep[i] = "reap"
                    /\ KillAgain(i)
                    /\ sweep' = [sweep EXCEPT ![i] = "done"]
                    /\ late' = TRUE
                    /\ UNCHANGED <<mainVars, pc, pool, localVars, files, tracked,
                                   waiting>>

(* killAll returns. The processes and busy ports that are then counted are *)
(* only reported: nothing waits for them.                                  *)
SweepEnds == /\ mpc = "sweep"
             /\ \A i \in Configs : sweep[i] \in {"idle", "done"}
             /\ mpc' = "tally"
             /\ UNCHANGED <<first, tested, count, published, pc, pool, localVars,
                            files, tracked, sweep, waiting, osVars, late>>

(* The counter a result is added to, by its failReason's prefix. *)
Counter(r) == IF r = "PASS" THEN "passed"
              ELSE IF r = "PARSE" THEN "parse"
              ELSE IF r \in {"START", "SINGBOX_START"} THEN "start"
              ELSE "conn"

InBatchOrder == [k \in 1 .. BatchLen |-> first + k - 1]
Passing == {i \in Configs : res[i] = "PASS"}

Tally == /\ mpc = "tally"
         /\ published' = published \o Select(InBatchOrder, Passing)
         /\ count' = [c \in DOMAIN count |->
                        count[c] + Cardinality({i \in Batch : Counter(res[i]) = c})]
         /\ first' = first + BatchSize
         /\ mpc' = IF first + BatchSize >= NumConfigs THEN "done" ELSE "batch"
         /\ UNCHANGED <<tested, pc, pool, localVars, files, tracked, sweep, waiting,
                        osVars, late>>

-----------------------------------------------------------------------------
Goroutine(i) ==
  \/ Parse(i) \/ TakePort(i) \/ WriteConfig(i) \/ WriteFails(i)
  \/ Launch(i) \/ LaunchFails(i) \/ Register(i)
  \/ PortOpens(i) \/ PortStaysClosed(i)
  \/ Answered(i) \/ Unanswered(i) \/ RequestsFail(i)
  \/ KillGroup(i) \/ Reaped(i) \/ KillTimesOut(i) \/ Return(i)
Sweeper(i) == SweepSignal(i) \/ SweepReaped(i) \/ SweepTimesOut(i)
Main == StartBatch \/ Join \/ SweepEnds \/ Tally
System(i) == Bind(i) \/ Exit(i) \/ WaitReturns(i) \/ ContextExpires(i)
Finished == mpc = "done" /\ UNCHANGED vars

Next == \/ Main
        \/ \E i \in Configs : Goroutine(i) \/ Sweeper(i) \/ System(i)
        \/ Finished

(* Goroutines are scheduled fairly, every blocking call in them has a      *)
(* timeout, and a process that has been killed dies and is reaped.         *)
Fairness == /\ WF_vars(Main)
            /\ \A i \in Configs :
                 /\ WF_vars(Goroutine(i))
                 /\ WF_vars(Sweeper(i))
                 /\ WF_vars(proc[i] = "dying" /\ Exit(i))
                 /\ WF_vars(WaitReturns(i))

Spec == Init /\ [][Next]_vars /\ Fairness

-----------------------------------------------------------------------------
(* Properties. *)

Labels == {"idle", "spawned", "take", "done"} \cup Holding
Results == {"none", "PASS", "PARSE", "FILE", "START", "SINGBOX_START", "CONN"}
ProcStates == {"none", "starting", "listening", "dying", "zombie", "reaped"}

(* The variables keep their types (Accounted says what published is). *)
TypeOK ==
  /\ mpc \in {"batch", "join", "sweep", "tally", "done"}
  /\ first \in Nat
  /\ pc \in [Configs -> Labels]
  /\ pool \in Seq(Ports)
  /\ port \in [Configs -> Ports \cup {NoPort}]
  /\ res \in [Configs -> Results]
  /\ tries \in [Configs -> 0 .. Tries]
  /\ expired \subseteq Configs /\ files \subseteq Configs
  /\ tracked \subseteq Configs /\ waiting \subseteq Configs
  /\ sweep \in [Configs -> {"idle", "signal", "reap", "done"}]
  /\ tested \in Nat
  /\ count \in [{"passed", "parse", "start", "conn"} -> Nat]
  /\ proc \in [Configs -> ProcStates]
  /\ binds \in [Configs -> Ports \cup {NoPort}]
  /\ pid \in [Configs -> Pids \cup {NoPid}]
  /\ holder \in [Pids -> Configs \cup {Free}]
  /\ via \in [Configs -> Configs \cup {Foreign, Nobody}]
  /\ stray \subseteq Configs /\ late \in BOOLEAN

HoldsPort(i) == pc[i] \in Holding

(* Two goroutines never use the same local port at the same time, nor does *)
(* the channel offer a port that is in use or offer one twice.             *)
PortsExclusive ==
  /\ \A i, j \in Configs : HoldsPort(i) /\ HoldsPort(j) /\ port[i] = port[j] => i = j
  /\ \A i \in Configs, k \in DOMAIN pool : HoldsPort(i) => pool[k] # port[i]
  /\ \A k, l \in DOMAIN pool : pool[k] = pool[l] => k = l

(* Within a batch no port is used twice, not even one after the other: the *)
(* channel is FIFO and holds a port for every goroutine, so ports that come*)
(* back queue behind those still unused.                                   *)
PortOncePerBatch == \A i, j \in Batch :
   port[i] # NoPort /\ port[i] = port[j] => i = j

(* Receiving from localPorts never blocks: whoever comes for a port finds  *)
(* one, because there are as many ports as goroutines.                     *)
PortAvailable == \A i \in Configs : pc[i] = "take" => pool # << >>

(* A config is recorded as passing only when the answer came through its   *)
(* own sing-box: never through the process of another config, of an earlier*)
(* batch, or one already killed. Only a port on which something foreign    *)
(* listened all along escapes.                                             *)
SoundPass == \A i \in Configs :
   res[i] = "PASS" => via[i] = i \/ (via[i] = Foreign /\ port[i] \in Stale)

(* A sing-box that has not been killed belongs to a goroutine that still   *)
(* has the process' port: no exit path returns a port before the kill.     *)
NoServerWithoutPort == \A i \in Configs : Live(i) => HoldsPort(i)

(* A batch leaves no process behind when the next one begins, as long as   *)
(* killed processes die within the 2 seconds killGroup and killAll wait.   *)
QuietBetweenBatches == ~late /\ mpc \in {"tally", "batch", "done"} =>
   \A i \in Configs : proc[i] \in {"none", "reaped"}

(* Up to then a signal sent to a pid never strikes a process that got that *)
(* pid after the intended one was reaped.                                  *)
NoStraySignal == ~late => stray = {}

(* Between batches the published list is exactly the passing configs so    *)
(* far, in order, and the counters add up to the configs tested.           *)
Accounted == mpc \in {"batch", "done"} =>
   LET upto == IF first > NumConfigs THEN NumConfigs ELSE first
   IN  /\ tested = upto
       /\ published = Select([k \in 1 .. upto |-> k - 1], Passing)
       /\ count["passed"] = Len(published)
       /\ count["passed"] + count["parse"] + count["start"] + count["conn"] = upto

(* A result is final: what wg.Wait hands to the tally is not changed later.*)
ResultsFinal == [][\A i \in Configs : pc[i] = "done" => res'[i] = res[i]]_vars

(* Goroutines, ports, processes and kills that come late give what the     *)
(* caller relies on: the batches of TestBatches.                           *)
Tests == INSTANCE TestBatches WITH result <- res
ImplementsTests == Tests!Spec

(* Every batch is joined and validateAll's loop ends. *)
Terminates == <>(mpc = "done")
=============================================================================
