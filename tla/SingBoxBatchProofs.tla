------------------------- MODULE SingBoxBatchProofs -------------------------
(***************************************************************************)
(* Proofs about SingBoxBatch for any number of configs, any batch size, any*)
(* set of pids and stale ports, and however slowly killed processes die:   *)
(* the types, the exclusive use of local ports, and that a config passes   *)
(* only through its own sing-box. On these stand three more invariants:    *)
(* ProcInv, about processes and pids as long as no kill was late; FifoInv, *)
(* about the order in which the channel hands out ports; and AccountInv,   *)
(* about the counters and the published list.                              *)
(***************************************************************************)
EXTENDS SingBoxBatch, SelectionProofs, FiniteSetTheorems, SequenceTheorems, TLAPS

USE DEF Configs, Ports

(* The cardinality that Tally adds to a counter is a number. *)
LEMMA BatchCountType ==
  ASSUME NEW S \in SUBSET Configs
  PROVE  Cardinality(S) \in Nat
<1>1. IsFiniteSet(Configs) BY BatchAssumption, FS_Interval
<1>2. IsFiniteSet(S) BY <1>1, FS_Subset
<1> QED BY <1>2, FS_CardinalityType

(* SIGKILL changes only running processes, and only to "dying". *)
LEMMA KilledType ==
  ASSUME proc \in [Configs -> ProcStates], NEW S
  PROVE  /\ Killed(S) \in [Configs -> ProcStates]
         /\ \A j \in Configs : Killed(S)[j] = proc[j] \/ Killed(S)[j] = "dying"
         /\ \A j \in Configs : j \in S => Killed(S)[j] \notin {"starting", "listening"}
BY DEF Killed, Live, ProcStates

(* The effect of a SIGKILL on the variables of the operating system. *)
LEMMA SignalType ==
  ASSUME proc \in [Configs -> ProcStates], stray \subseteq Configs,
         NEW S \in SUBSET Configs, NEW i \in Configs, Signal(S, i)
  PROVE  proc' \in [Configs -> ProcStates] /\ stray' \subseteq Configs
<1>1. proc' = Killed(S) BY DEF Signal
<1>2. Killed(S) \in [Configs -> ProcStates] BY KilledType
<1>3. stray' \subseteq Configs BY DEF Signal
<1> QED BY <1>1, <1>2, <1>3

-----------------------------------------------------------------------------
(* Type correctness. A goroutine past TakePort has a port in its variable, *)
(* which Return needs, and a batch that begins is not empty.               *)

PortTaken == \A i \in Configs : HoldsPort(i) => port[i] \in Ports
BatchNotEmpty == mpc = "batch" => first < NumConfigs

LEMMA TypeInit == Init => TypeOK
<1> SUFFICES ASSUME Init PROVE TypeOK OBVIOUS
<1>1. late \in BOOLEAN BY DEF Init
<1>2. pool \in Seq(Ports) /\ first \in Nat /\ mpc \in {"batch", "join", "sweep", "tally", "done"}
  BY DEF Init
<1>3. tries \in [Configs -> 0 .. Tries] BY BatchAssumption DEF Init
<1>4. /\ pc \in [Configs -> Labels] /\ res \in [Configs -> Results]
      /\ proc \in [Configs -> ProcStates]
  BY DEF Init, Labels, Results, ProcStates
<1> QED BY <1>1, <1>2, <1>3, <1>4 DEF Init, TypeOK

LEMMA TypeGoroutine ==
  ASSUME TypeOK, PortTaken, NEW i \in Configs, Goroutine(i)
  PROVE  TypeOK'
<1> USE DEF TypeOK, mainVars, osVars, localVars, Goto, Verdict, Labels, Holding,
            Results
<1>1. CASE Parse(i)
  <2>1. pc' \in [Configs -> Labels] /\ res' \in [Configs -> Results] /\ tested' \in Nat
    BY <1>1 DEF Parse
  <2>2. UNCHANGED <<mpc, first, count, pool, port, tries, expired, via, files, tracked, sweep,
                    waiting, osVars, late>>
    BY <1>1 DEF Parse
  <2> QED BY <2>1, <2>2
<1>2. CASE TakePort(i)
  <2>1. Head(pool) \in Ports /\ Tail(pool) \in Seq(Ports)
    BY <1>2, HeadTailProperties DEF TakePort, PoolLeft
  <2> QED BY <1>2, <2>1 DEF TakePort, PoolLeft
<1>3. CASE WriteConfig(i) BY <1>3 DEF WriteConfig
<1>4. CASE WriteFails(i) BY <1>4 DEF WriteFails
<1>5. CASE Launch(i) BY <1>5, SMTT(30) DEF Launch, ProcStates
<1>6. CASE LaunchFails(i) BY <1>6 DEF LaunchFails
<1>7. CASE Register(i) BY <1>7 DEF Register
<1>8. CASE PortOpens(i) BY <1>8 DEF PortOpens
<1>9. CASE PortStaysClosed(i) BY <1>9 DEF PortStaysClosed
<1>10. CASE Answered(i) BY <1>10, SMTT(30) DEF Answered, Servers
<1>11. CASE Unanswered(i)
  <2>1. tries[i] + 1 \in 0 .. Tries BY <1>11, BatchAssumption DEF Unanswered, TriesLeft
  <2> QED BY <1>11, <2>1 DEF Unanswered
<1>12. CASE RequestsFail(i) BY <1>12 DEF RequestsFail
<1>13. CASE KillGroup(i)
  <2>1. proc' \in [Configs -> ProcStates] /\ stray' \subseteq Configs
    BY <1>13, SignalType DEF KillGroup, KillNow, PidOwner
  <2> QED BY <1>13, <2>1 DEF KillGroup, KillNow, Signal
<1>14. CASE Reaped(i) BY <1>14 DEF Reaped
<1>15. CASE KillTimesOut(i)
  <2>1. proc' \in [Configs -> ProcStates] /\ stray' \subseteq Configs
    BY <1>15, SignalType DEF KillTimesOut, KillAgain, PidOwner
  <2> QED BY <1>15, <2>1 DEF KillTimesOut, KillAgain, Signal
<1>16. CASE Return(i)
  <2>1. Append(pool, port[i]) \in Seq(Ports)
    BY <1>16, AppendProperties DEF Return, PortTaken, HoldsPort
  <2>2. proc' \in [Configs -> ProcStates] BY <1>16, KilledType DEF Return
  <2> QED BY <1>16, <2>1, <2>2 DEF Return
<1> QED BY <1>1, <1>2, <1>3, <1>4, <1>5, <1>6, <1>7, <1>8, <1>9, <1>10, <1>11,
           <1>12, <1>13, <1>14, <1>15, <1>16 DEF Goroutine

LEMMA TypeSweeper ==
  ASSUME TypeOK, NEW i \in Configs, Sweeper(i)
  PROVE  TypeOK'
<1> USE DEF TypeOK, mainVars, osVars, localVars
<1>1. CASE SweepSignal(i)
  <2>1. proc' \in [Configs -> ProcStates] /\ stray' \subseteq Configs
    BY <1>1, SignalType DEF SweepSignal, KillNow, PidOwner
  <2> QED BY <1>1, <2>1 DEF SweepSignal, KillNow, Signal
<1>2. CASE SweepReaped(i) BY <1>2 DEF SweepReaped
<1>3. CASE SweepTimesOut(i)
  <2>1. proc' \in [Configs -> ProcStates] /\ stray' \subseteq Configs
    BY <1>3, SignalType DEF SweepTimesOut, KillAgain, PidOwner
  <2> QED BY <1>3, <2>1 DEF SweepTimesOut, KillAgain, Signal
<1> QED BY <1>1, <1>2, <1>3 DEF Sweeper

LEMMA TypeSystem ==
  ASSUME TypeOK, NEW i \in Configs, System(i)
  PROVE  TypeOK'
<1> USE DEF TypeOK, mainVars, osVars, localVars
<1>1. CASE Bind(i)
  <2>1. \A p \in {port[i]} : p \in Ports \cup {NoPort} OBVIOUS
  <2> QED BY <1>1, <2>1 DEF Bind, ProcStates
<1>2. CASE Exit(i) BY <1>2 DEF Exit, ProcStates
<1>3. CASE WaitReturns(i) BY <1>3 DEF WaitReturns, ProcStates
<1>4. CASE ContextExpires(i)
  <2>1. proc' = Killed({i}) BY <1>4 DEF ContextExpires
  <2>2. Killed({i}) \in [Configs -> ProcStates] BY KilledType
  <2> QED BY <1>4, <2>1, <2>2 DEF ContextExpires
<1> QED BY <1>1, <1>2, <1>3, <1>4 DEF System

LEMMA TypeMain ==
  ASSUME TypeOK, BatchNotEmpty, Main
  PROVE  TypeOK'
<1> USE DEF TypeOK, mainVars, osVars, localVars
<1>1. CASE StartBatch
  <2>1. BatchLen \in Nat /\ BatchLen <= BatchSize
    BY <1>1, BatchAssumption DEF BatchLen, BatchNotEmpty, StartBatch
  <2>2. \A k \in 1 .. BatchLen : BasePort + k - 1 \in Ports
    BY <2>1, BatchAssumption
  <2>3. [k \in 1 .. BatchLen |-> BasePort + k - 1] \in Seq(Ports)
    BY <2>1, <2>2, IsASeq
  <2> QED BY <1>1, <2>3 DEF StartBatch, LocalPorts, Labels
<1>2. CASE Join BY <1>2 DEF Join
<1>3. CASE SweepEnds BY <1>3 DEF SweepEnds
<1>4. CASE Tally
  <2>1. \A c \in DOMAIN count :
          count[c] + Cardinality({i \in Batch : Counter(res[i]) = c}) \in Nat
    <3> TAKE c \in DOMAIN count
    <3>1. {i \in Batch : Counter(res[i]) = c} \in SUBSET Configs BY DEF Batch
    <3>2. Cardinality({i \in Batch : Counter(res[i]) = c}) \in Nat
      BY <3>1, BatchCountType
    <3> QED BY <3>2
  <2>2. count' \in [{"passed", "parse", "start", "conn"} -> Nat]
    BY <1>4, <2>1 DEF Tally
  <2>3. first' \in Nat BY <1>4, BatchAssumption DEF Tally
  <2>4. mpc' \in {"batch", "done"} BY <1>4 DEF Tally
  <2> QED BY <1>4, <2>2, <2>3, <2>4 DEF Tally
<1> QED BY <1>1, <1>2, <1>3, <1>4 DEF Main

-----------------------------------------------------------------------------
(***************************************************************************)
(* The inductive invariant. A goroutine runs only while its batch is being *)
(* joined, so no port is held and no sing-box runs when localPorts is made *)
(* anew; ports are exclusive; a running sing-box belongs to a goroutine    *)
(* that holds its port; so the only running server on a goroutine's port is*)
(* its own.                                                                *)
(***************************************************************************)

Running(i) == pc[i] \notin {"idle", "done"}
InItsBatch == \A i \in Configs : Running(i) => mpc = "join" /\ i \in Batch
Started == \A i \in Configs : pc[i] # "idle" =>
              i < first \/ (mpc # "batch" /\ i < first + BatchSize)
Serving == \A i \in Configs : Live(i) => pc[i] \in {"register", "wait", "http", "kill"}
OwnPort == \A i \in Configs : proc[i] = "listening" => binds[i] = port[i]
Undecided == {"idle", "spawned", "take", "write", "launch", "register", "wait", "http"}
Fresh == \A i \in Configs : pc[i] \in Undecided => res[i] = "none"

Control == BatchNotEmpty /\ InItsBatch /\ Started
PortInv == PortTaken /\ PortsExclusive
ServeInv == Serving /\ OwnPort
PassInv == Fresh /\ SoundPass

IInv == TypeOK /\ Control /\ PortInv /\ ServeInv /\ PassInv

LEMMA IInvInit == Init => IInv
<1> SUFFICES ASSUME Init PROVE IInv OBVIOUS
<1>1. TypeOK BY TypeInit
<1>2. Control BY BatchAssumption
  DEF Init, Control, BatchNotEmpty, InItsBatch, Started, Running
<1>3. PortInv BY DEF Init, PortInv, PortTaken, PortsExclusive, HoldsPort, Holding
<1>4. ServeInv BY DEF Init, ServeInv, Serving, OwnPort, Live
<1>5. PassInv BY DEF Init, PassInv, Fresh, SoundPass
<1> QED BY <1>1, <1>2, <1>3, <1>4, <1>5 DEF IInv

(* What every step of a goroutine does to the control state. *)
LEMMA GoroutineControl ==
  ASSUME TypeOK, NEW i \in Configs, Goroutine(i)
  PROVE  /\ UNCHANGED <<mpc, first>>
         /\ pc' \in [Configs -> Labels]
         /\ \A j \in Configs : j # i => pc'[j] = pc[j]
         /\ Running(i)
         /\ pc'[i] # "idle"
<1> USE DEF TypeOK, Goto, Labels, Holding, mainVars, Running
<1> QED BY ZenonT(60) DEF Goroutine, Parse, TakePort, WriteConfig, WriteFails, Launch, LaunchFails,
     Register, PortOpens, PortStaysClosed, Answered, Unanswered, RequestsFail,
     KillGroup, Reaped, KillTimesOut, Return

LEMMA ControlStep ==
  ASSUME IInv, [Next]_vars
  PROVE  Control'
<1> USE DEF IInv, Control
<1>1. CASE UNCHANGED <<mpc, first, pc>>
  BY <1>1 DEF BatchNotEmpty, InItsBatch, Started, Running, Batch
<1>2. ASSUME NEW i \in Configs, Goroutine(i) PROVE Control'
  BY <1>2, GoroutineControl DEF BatchNotEmpty, InItsBatch, Started, Running, Batch
<1>3. CASE StartBatch
  <2>1. first \in Nat /\ pc \in [Configs -> Labels] BY DEF TypeOK
  <2> QED BY <1>3, <2>1, BatchAssumption
        DEF StartBatch, BatchNotEmpty, InItsBatch, Started, Running, Batch
<1>4. CASE Join
  <2>1. \A j \in Configs : ~Running(j)
    BY <1>4 DEF Join, Joined, InItsBatch, Running
  <2> QED BY <1>4, <2>1
        DEF Join, BatchNotEmpty, InItsBatch, Started, Running
<1>5. CASE SweepEnds
  BY <1>5 DEF SweepEnds, BatchNotEmpty, InItsBatch, Started, Running
<1>6. CASE Tally
  <2>1. first \in Nat /\ \A j \in Configs : ~Running(j)
    BY <1>6 DEF Tally, InItsBatch, TypeOK
  <2>2. \A j \in Configs : pc[j] # "idle" => j < first + BatchSize
    BY <1>6, <2>1, BatchAssumption DEF Tally, Started
  <2> QED BY <1>6, <2>1, <2>2, BatchAssumption
        DEF Tally, BatchNotEmpty, InItsBatch, Started, Running
<1>7. ASSUME NEW i \in Configs, Sweeper(i) \/ System(i) PROVE UNCHANGED <<mpc, first, pc>>
  BY <1>7 DEF Sweeper, System, SweepSignal, SweepReaped, SweepTimesOut, Bind, Exit,
              WaitReturns, ContextExpires, mainVars
<1>8. UNCHANGED vars => UNCHANGED <<mpc, first, pc>> BY DEF vars, mainVars
<1> QED BY <1>1, <1>2, <1>3, <1>4, <1>5, <1>6, <1>7, <1>8 DEF Next, Main, Finished

(* The steps that leave ports alone: the others are TakePort, Return and   *)
(* StartBatch.                                                             *)
LEMMA PortSame ==
  ASSUME PortInv, UNCHANGED <<pool, port>>,
         \A j \in Configs : HoldsPort(j)' => HoldsPort(j)
  PROVE  PortInv'
BY DEF PortInv, PortTaken, PortsExclusive, HoldsPort

LEMMA PortTake ==
  ASSUME IInv, NEW i \in Configs, TakePort(i)
  PROVE  PortInv'
<1> DEFINE p == Head(pool)
<1>1. /\ pool \in Seq(Ports) /\ pool # << >>
      /\ port \in [Configs -> Ports \cup {NoPort}]
      /\ pc \in [Configs -> Labels]
  BY DEF IInv, TypeOK, TakePort
<1>2. /\ p = pool[1] /\ p \in Ports /\ 1 \in DOMAIN pool
      /\ DOMAIN pool' = 1 .. Len(pool) - 1
      /\ \A k \in DOMAIN pool' : k + 1 \in DOMAIN pool /\ pool'[k] = pool[k + 1]
  <2>1. Len(pool) \in Nat \ {0} /\ DOMAIN pool = 1 .. Len(pool)
    BY <1>1, LenProperties, EmptySeq
  <2>2. /\ Head(pool) \in Ports /\ Tail(pool) \in Seq(Ports)
        /\ Len(Tail(pool)) = Len(pool) - 1
        /\ \A k \in 1 .. Len(Tail(pool)) : Tail(pool)[k] = pool[k + 1]
    BY <1>1, HeadTailProperties
  <2>3. DOMAIN Tail(pool) = 1 .. Len(pool) - 1 BY <2>2, LenProperties
  <2>4. pool' = Tail(pool) BY DEF TakePort, PoolLeft
  <2>5. Head(pool) = pool[1] BY <1>1
  <2> QED BY <2>1, <2>2, <2>3, <2>4, <2>5
<1>3. /\ port'[i] = p /\ ~HoldsPort(i)
      /\ \A j \in Configs : j # i => port'[j] = port[j] /\ (HoldsPort(j)' <=> HoldsPort(j))
  BY <1>1 DEF TakePort, Goto, HoldsPort, Holding
<1>4. PortTaken' BY <1>2, <1>3 DEF IInv, PortInv, PortTaken
<1>5. \A j \in Configs : HoldsPort(j) => port[j] # p
  BY <1>2 DEF IInv, PortInv, PortsExclusive
<1>6. \A j, k \in Configs : HoldsPort(j)' /\ HoldsPort(k)' /\ port'[j] = port'[k] => j = k
  BY <1>3, <1>5 DEF IInv, PortInv, PortsExclusive
<1>7. \A k \in DOMAIN pool' : pool'[k] # p
  <2> TAKE k \in DOMAIN pool'
  <2>1. k \in Nat /\ k + 1 # 1 /\ k + 1 \in DOMAIN pool BY <1>2
  <2> QED BY <1>2, <2>1 DEF IInv, PortInv, PortsExclusive
<1>8. \A j \in Configs, k \in DOMAIN pool' : HoldsPort(j)' => pool'[k] # port'[j]
  BY <1>2, <1>3, <1>7 DEF IInv, PortInv, PortsExclusive
<1>9. \A k, l \in DOMAIN pool' : pool'[k] = pool'[l] => k = l
  <2> TAKE k, l \in DOMAIN pool'
  <2> HAVE pool'[k] = pool'[l]
  <2>1. k + 1 = l + 1 BY <1>2 DEF IInv, PortInv, PortsExclusive
  <2> QED BY <1>2, <2>1
<1> QED BY <1>4, <1>6, <1>8, <1>9 DEF PortInv, PortsExclusive

LEMMA PortReturn ==
  ASSUME IInv, NEW i \in Configs, Return(i)
  PROVE  PortInv'
<1>1. /\ pool \in Seq(Ports) /\ port \in [Configs -> Ports \cup {NoPort}]
      /\ pc \in [Configs -> Labels]
  BY DEF IInv, TypeOK
<1>2. HoldsPort(i) /\ port[i] \in Ports
  BY DEF IInv, PortInv, PortTaken, Return, HoldsPort, Holding
<1>3. /\ DOMAIN pool = 1 .. Len(pool) /\ Len(pool) \in Nat
      /\ DOMAIN pool' = 1 .. Len(pool) + 1
      /\ \A k \in DOMAIN pool : pool'[k] = pool[k]
      /\ pool'[Len(pool) + 1] = port[i]
  BY <1>1, <1>2, AppendProperties, LenProperties DEF Return
<1>4. /\ port' = port /\ ~HoldsPort(i)'
      /\ \A j \in Configs : j # i => (HoldsPort(j)' <=> HoldsPort(j))
  BY <1>1 DEF Return, Goto, HoldsPort, Holding, localVars
<1>5. \A k \in DOMAIN pool : pool[k] # port[i]
  BY <1>2 DEF IInv, PortInv, PortsExclusive
<1>6. PortTaken' BY <1>4 DEF IInv, PortInv, PortTaken
<1>7. \A j, k \in Configs : HoldsPort(j)' /\ HoldsPort(k)' /\ port'[j] = port'[k] => j = k
  BY <1>4 DEF IInv, PortInv, PortsExclusive
<1>8. \A j \in Configs, k \in DOMAIN pool' : HoldsPort(j)' => pool'[k] # port'[j]
  <2> TAKE j \in Configs, k \in DOMAIN pool'
  <2> HAVE HoldsPort(j)'
  <2>1. j # i /\ HoldsPort(j) /\ port[j] # port[i]
    BY <1>2, <1>4 DEF IInv, PortInv, PortsExclusive
  <2>2. CASE k \in DOMAIN pool
    BY <1>3, <1>4, <2>1, <2>2 DEF IInv, PortInv, PortsExclusive
  <2>3. CASE k = Len(pool) + 1 BY <1>3, <1>4, <2>1, <2>3
  <2> QED BY <1>3, <2>2, <2>3
<1>9. \A k, l \in DOMAIN pool' : pool'[k] = pool'[l] => k = l
  <2> TAKE k, l \in DOMAIN pool'
  <2> HAVE pool'[k] = pool'[l]
  <2>1. CASE k \in DOMAIN pool /\ l \in DOMAIN pool
    BY <1>3, <2>1 DEF IInv, PortInv, PortsExclusive
  <2>2. CASE k = Len(pool) + 1 \/ l = Len(pool) + 1 BY <1>3, <1>5, <2>2
  <2> QED BY <1>3, <2>1, <2>2
<1> QED BY <1>6, <1>7, <1>8, <1>9 DEF PortInv, PortsExclusive

LEMMA PortBatch ==
  ASSUME IInv, StartBatch
  PROVE  PortInv'
<1>1. BatchLen \in Nat /\ BatchLen <= BatchSize
  BY BatchAssumption DEF IInv, TypeOK, Control, BatchNotEmpty, StartBatch, BatchLen
<1>2. \A j \in Configs : ~HoldsPort(j)'
  BY DEF IInv, Control, InItsBatch, Running, StartBatch, HoldsPort, Holding
<1>3. \A k, l \in DOMAIN pool' : pool'[k] = pool'[l] => k = l
  BY <1>1, BatchAssumption DEF StartBatch, LocalPorts
<1> QED BY <1>2, <1>3 DEF PortInv, PortTaken, PortsExclusive

LEMMA PortStep ==
  ASSUME IInv, [Next]_vars
  PROVE  PortInv'
<1> USE DEF mainVars, localVars
<1>1. CASE UNCHANGED <<pool, port, pc>> BY <1>1, PortSame DEF HoldsPort, IInv
<1>2. ASSUME NEW i \in Configs, Goroutine(i) PROVE PortInv'
  <2>1. CASE TakePort(i) BY <2>1, PortTake
  <2>2. CASE Return(i) BY <2>2, PortReturn
  <2>3. CASE ~TakePort(i) /\ ~Return(i)
    <3>1. UNCHANGED <<pool, port>>
      BY <1>2, <2>3
      DEF Goroutine, Parse, WriteConfig, WriteFails, Launch, LaunchFails, Register,
          PortOpens, PortStaysClosed, Answered, Unanswered, RequestsFail, KillGroup,
          Reaped, KillTimesOut
    <3>2. \A j \in Configs : HoldsPort(j)' => HoldsPort(j)
      BY <1>2, <2>3, ZenonT(60)
      DEF Goroutine, Parse, WriteConfig, WriteFails, Launch, LaunchFails, Register,
          PortOpens, PortStaysClosed, Answered, Unanswered, RequestsFail, KillGroup,
          Reaped, KillTimesOut, Goto, HoldsPort, Holding, IInv, TypeOK
    <3> QED BY <3>1, <3>2, PortSame DEF IInv
  <2> QED BY <2>1, <2>2, <2>3
<1>3. CASE StartBatch BY <1>3, PortBatch
<1>4. Join \/ SweepEnds \/ Tally => UNCHANGED <<pool, port, pc>>
  BY DEF Join, SweepEnds, Tally
<1>5. ASSUME NEW i \in Configs, Sweeper(i) \/ System(i) PROVE UNCHANGED <<pool, port, pc>>
  BY <1>5 DEF Sweeper, System, SweepSignal, SweepReaped, SweepTimesOut, Bind, Exit,
              WaitReturns, ContextExpires
<1>6. UNCHANGED vars => UNCHANGED <<pool, port, pc>> BY DEF vars
<1> QED BY <1>1, <1>2, <1>3, <1>4, <1>5, <1>6 DEF Next, Main, Finished

-----------------------------------------------------------------------------
(* The servers. *)

LEMMA ServeSame ==
  ASSUME ServeInv, UNCHANGED <<proc, binds, port>>,
         \A j \in Configs : Live(j) => pc'[j] = pc[j] \/
            pc'[j] \in {"register", "wait", "http", "kill"}
  PROVE  ServeInv'
BY DEF ServeInv, Serving, OwnPort, Live

LEMMA ServeGoroutine ==
  ASSUME IInv, NEW i \in Configs, Goroutine(i)
  PROVE  ServeInv'
<1> USE DEF IInv, TypeOK, Goto, mainVars, localVars, osVars
<1>1. CASE TakePort(i) BY <1>1 DEF TakePort, ServeInv, Serving, OwnPort, Live
<1>2. CASE Launch(i) BY <1>2 DEF Launch, ServeInv, Serving, OwnPort, Live
<1>3. CASE KillGroup(i)
  <2>1. proc' = Killed(PidOwner(i) \cup {i}) BY <1>3 DEF KillGroup, KillNow, Signal
  <2>2. \A j \in Configs : proc'[j] = proc[j] \/ ~Live(j)'
    BY <2>1 DEF Killed, Live
  <2>3. ~Live(i)' BY <2>1 DEF Killed, Live
  <2> QED BY <1>3, <2>2, <2>3
        DEF KillGroup, KillNow, Signal, ServeInv, Serving, OwnPort, Live
<1>4. CASE KillTimesOut(i)
  <2>1. proc' = Killed(PidOwner(i)) BY <1>4 DEF KillTimesOut, KillAgain, Signal
  <2>2. \A j \in Configs : proc'[j] = proc[j] \/ ~Live(j)'
    BY <2>1 DEF Killed, Live
  <2> QED BY <1>4, <2>2
        DEF KillTimesOut, KillAgain, Signal, ServeInv, Serving, OwnPort, Live
<1>5. CASE Return(i)
  <2>1. \A j \in Configs : proc'[j] = proc[j] \/ ~Live(j)'
    BY <1>5 DEF Return, Killed, Live
  <2> QED BY <1>5, <2>1 DEF Return, ServeInv, Serving, OwnPort, Live
<1>6. CASE Parse(i) \/ WriteConfig(i) \/ WriteFails(i) \/ LaunchFails(i) \/ Register(i)
  BY <1>6, ServeSame
  DEF Parse, WriteConfig, WriteFails, LaunchFails, Register, ServeInv, Serving
<1>7. CASE PortOpens(i) \/ PortStaysClosed(i) \/ Answered(i) \/ Unanswered(i)
           \/ RequestsFail(i)
  BY <1>7, ServeSame
  DEF PortOpens, PortStaysClosed, Answered, Unanswered, RequestsFail
<1>8. CASE Reaped(i)
  BY <1>8, ServeSame DEF Reaped, Live
<1> QED BY <1>1, <1>2, <1>3, <1>4, <1>5, <1>6, <1>7, <1>8 DEF Goroutine

LEMMA ServeStep ==
  ASSUME IInv, [Next]_vars
  PROVE  ServeInv'
<1> USE DEF mainVars, localVars, osVars
<1>1. CASE UNCHANGED <<proc, binds, port, pc>>
  BY <1>1, ServeSame DEF IInv
<1>2. ASSUME NEW i \in Configs, Goroutine(i) PROVE ServeInv'
  BY <1>2, ServeGoroutine
<1>3. ASSUME NEW i \in Configs, Sweeper(i) PROVE ServeInv'
  <2>1. CASE SweepReaped(i) BY <1>1, <2>1 DEF SweepReaped
  <2>2. CASE SweepSignal(i)
    <3>1. proc' = Killed(PidOwner(i) \cup {i}) /\ UNCHANGED <<pc, binds, port>>
      BY <2>2 DEF SweepSignal, KillNow, Signal
    <3>2. \A j \in Configs : proc'[j] = proc[j] \/ ~Live(j)' BY <3>1 DEF Killed, Live
    <3> QED BY <3>1, <3>2 DEF IInv, ServeInv, Serving, OwnPort, Live
  <2>3. CASE SweepTimesOut(i)
    <3>1. proc' = Killed(PidOwner(i)) /\ UNCHANGED <<pc, binds, port>>
      BY <2>3 DEF SweepTimesOut, KillAgain, Signal
    <3>2. \A j \in Configs : proc'[j] = proc[j] \/ ~Live(j)' BY <3>1 DEF Killed, Live
    <3> QED BY <3>1, <3>2 DEF IInv, ServeInv, Serving, OwnPort, Live
  <2> QED BY <1>3, <2>1, <2>2, <2>3 DEF Sweeper
<1>4. ASSUME NEW i \in Configs, System(i) PROVE ServeInv'
  <2> USE DEF IInv, TypeOK
  <2>1. CASE Bind(i) BY <2>1 DEF Bind, ServeInv, Serving, OwnPort, Live
  <2>2. CASE Exit(i) BY <2>2 DEF Exit, ServeInv, Serving, OwnPort, Live
  <2>3. CASE WaitReturns(i) BY <2>3 DEF WaitReturns, ServeInv, Serving, OwnPort, Live
  <2>4. CASE ContextExpires(i)
    BY <2>4 DEF ContextExpires, Killed, ServeInv, Serving, OwnPort, Live
  <2> QED BY <1>4, <2>1, <2>2, <2>3, <2>4 DEF System
<1>5. CASE StartBatch
  <2>1. \A j \in Configs : ~Live(j)
    BY <1>5 DEF StartBatch, IInv, Control, InItsBatch, Running, ServeInv, Serving
  <2> QED BY <1>5, <2>1, ServeSame DEF StartBatch, IInv
<1>6. Join \/ SweepEnds \/ Tally => UNCHANGED <<proc, binds, port, pc>>
  BY DEF Join, SweepEnds, Tally
<1>7. UNCHANGED vars => UNCHANGED <<proc, binds, port, pc>> BY DEF vars
<1> QED BY <1>1, <1>2, <1>3, <1>4, <1>5, <1>6, <1>7 DEF Next, Main, Finished

-----------------------------------------------------------------------------
(* The verdicts. *)

(* Whoever answers on the port a goroutine holds is its own sing-box.      *)
LEMMA OwnServer ==
  ASSUME IInv, NEW i \in Configs, HoldsPort(i), NEW s \in Servers(port[i])
  PROVE  s = i \/ (s = Foreign /\ port[i] \in Stale)
<1>1. CASE s \in Configs /\ proc[s] = "listening" /\ binds[s] = port[i]
  <2>1. Live(s) /\ port[s] = port[i] BY <1>1 DEF IInv, ServeInv, OwnPort, Live
  <2>2. HoldsPort(s)
    BY <1>1, <2>1 DEF IInv, ServeInv, Serving, HoldsPort, Holding
  <2> QED BY <1>1, <2>1, <2>2 DEF IInv, PortInv, PortsExclusive
<1>2. CASE s = Foreign /\ port[i] \in Stale BY <1>2
<1> QED BY <1>1, <1>2 DEF Servers

LEMMA PassSame ==
  ASSUME PassInv, UNCHANGED <<res, via, port>>,
         \A j \in Configs : pc'[j] \in Undecided => pc[j] \in Undecided
  PROVE  PassInv'
BY DEF PassInv, Fresh, SoundPass

LEMMA PassGoroutine ==
  ASSUME IInv, NEW i \in Configs, Goroutine(i)
  PROVE  PassInv'
<1> USE DEF IInv, TypeOK, Goto, Verdict, mainVars, localVars, osVars, Undecided
<1>1. CASE Answered(i)
  <2>1. PICK s \in Servers(port[i]) : via' = [via EXCEPT ![i] = s]
    BY <1>1 DEF Answered
  <2>2. s = i \/ (s = Foreign /\ port[i] \in Stale)
    BY <1>1, OwnServer DEF Answered, HoldsPort, Holding
  <2> QED BY <1>1, <2>1, <2>2 DEF Answered, PassInv, Fresh, SoundPass
<1>2. CASE TakePort(i) BY <1>2 DEF TakePort, PassInv, Fresh, SoundPass
<1>3. CASE Parse(i) BY <1>3, ZenonT(60) DEF Parse, PassInv, Fresh, SoundPass
<1>4. CASE WriteFails(i) \/ LaunchFails(i) \/ PortStaysClosed(i) \/ RequestsFail(i)
  <2>1. UNCHANGED <<via, port>>
    BY <1>4 DEF WriteFails, LaunchFails, PortStaysClosed, RequestsFail
  <2>2. \E r \in Results \ {"PASS"} : res' = [res EXCEPT ![i] = r]
    BY <1>4 DEF WriteFails, LaunchFails, PortStaysClosed, RequestsFail, Results
  <2>3. \E l \in {"return", "kill"} : pc' = [pc EXCEPT ![i] = l]
    BY <1>4 DEF WriteFails, LaunchFails, PortStaysClosed, RequestsFail
  <2> QED BY <2>1, <2>2, <2>3 DEF PassInv, Fresh, SoundPass
<1>5. CASE WriteConfig(i) \/ Launch(i) \/ Register(i) \/ PortOpens(i) \/ Unanswered(i)
  BY <1>5, PassSame DEF WriteConfig, Launch, Register, PortOpens, Unanswered
<1>6. CASE KillGroup(i) \/ Reaped(i) \/ KillTimesOut(i) \/ Return(i)
  BY <1>6, PassSame DEF KillGroup, Reaped, KillTimesOut, Return
<1> QED BY <1>1, <1>2, <1>3, <1>4, <1>5, <1>6 DEF Goroutine

LEMMA PassStep ==
  ASSUME IInv, [Next]_vars
  PROVE  PassInv'
<1> USE DEF mainVars, localVars, osVars
<1>1. CASE UNCHANGED <<res, via, port, pc>> BY <1>1, PassSame DEF IInv
<1>2. ASSUME NEW i \in Configs, Goroutine(i) PROVE PassInv'
  BY <1>2, PassGoroutine
<1>3. CASE StartBatch
  <2>1. \A j \in Configs : pc'[j] \in Undecided => pc[j] \in Undecided
    BY <1>3 DEF StartBatch, IInv, Control, Started, Batch, Undecided, TypeOK, Labels
  <2> QED BY <1>3, <2>1, PassSame DEF StartBatch, IInv
<1>4. Join \/ SweepEnds \/ Tally => UNCHANGED <<res, via, port, pc>>
  BY DEF Join, SweepEnds, Tally
<1>5. ASSUME NEW i \in Configs, Sweeper(i) \/ System(i)
      PROVE UNCHANGED <<res, via, port, pc>>
  BY <1>5 DEF Sweeper, System, SweepSignal, SweepReaped, SweepTimesOut, Bind, Exit,
              WaitReturns, ContextExpires
<1>6. UNCHANGED vars => UNCHANGED <<res, via, port, pc>> BY DEF vars
<1> QED BY <1>1, <1>2, <1>3, <1>4, <1>5, <1>6 DEF Next, Main, Finished

LEMMA TypeStep ==
  ASSUME IInv, [Next]_vars
  PROVE  TypeOK'
<1>1. CASE UNCHANGED vars
  BY <1>1 DEF IInv, TypeOK, vars, mainVars, localVars, osVars
<1>2. ASSUME NEW i \in Configs, Goroutine(i) \/ Sweeper(i) \/ System(i) PROVE TypeOK'
  BY <1>2, TypeGoroutine, TypeSweeper, TypeSystem DEF IInv, PortInv
<1>3. CASE Main BY <1>3, TypeMain DEF IInv, Control
<1> QED BY <1>1, <1>2, <1>3 DEF Next, Finished

-----------------------------------------------------------------------------
(* The theorems. *)

THEOREM IInvInvariant == Spec => []IInv
<1>1. Init => IInv BY IInvInit
<1>2. IInv /\ [Next]_vars => IInv'
  BY TypeStep, ControlStep, PortStep, ServeStep, PassStep DEF IInv
<1> QED BY <1>1, <1>2, PTL DEF Spec

(* Type correctness, for every instance. *)
THEOREM TypeCorrect == Spec => []TypeOK
<1>1. IInv => TypeOK BY DEF IInv
<1> QED BY <1>1, IInvInvariant, PTL

(* No two goroutines of validateAll ever test on the same local port. *)
THEOREM PortsAreExclusive == Spec => []PortsExclusive
<1>1. IInv => PortsExclusive BY DEF IInv, PortInv
<1> QED BY <1>1, IInvInvariant, PTL

(* Every way out of validateWithTracker kills the process before the port  *)
(* is given back.                                                          *)
THEOREM ServersHoldPorts == Spec => []NoServerWithoutPort
<1>1. IInv => NoServerWithoutPort
  BY DEF IInv, ServeInv, Serving, NoServerWithoutPort, HoldsPort, Holding
<1> QED BY <1>1, IInvInvariant, PTL

(* A config is published only if its own sing-box answered, however slowly *)
(* processes die, unless its port was occupied by something foreign.       *)
THEOREM PassesAreSound == Spec => []SoundPass
<1>1. IInv => SoundPass BY DEF IInv, PassInv
<1> QED BY <1>1, IInvInvariant, PTL
-----------------------------------------------------------------------------
HIDE DEF Configs, Ports

(***************************************************************************)
(* The processes, which the theorems above need not know: they hold however*)
(* slowly processes die. Here a process has its pid to itself until it is  *)
(* reaped, and a goroutine goes past its kill with the process reaped or   *)
(* killGroup late; so as long as nothing was late, a batch that has been   *)
(* joined has no process left, and a signal meets the process it is for.   *)
(***************************************************************************)

Unlaunched == {"idle", "spawned", "take", "write", "launch"}
Launched == {"register", "wait", "http", "kill", "reap"}

OwnPid(i) == proc[i] \notin {"none", "reaped"} => pid[i] \in Pids /\ holder[pid[i]] = i
HasStarted(i) == pc[i] \in Launched => proc[i] # "none"
Unstarted(i) == pc[i] \in Unlaunched => proc[i] = "none" /\ i \notin tracked /\ sweep[i] = "idle"
ReapedLast(i) == proc[i] = "reaped" \/ i \in waiting => pc[i] \in {"reap", "return", "done"}
Sweeping(i) == sweep[i] \in {"signal", "reap"} => mpc = "sweep"
Gone(i) == ~late /\ pc[i] \in {"return", "done"} => proc[i] \in {"none", "reaped"}

ProcOf(i) == /\ OwnPid(i) /\ HasStarted(i) /\ Unstarted(i)
             /\ ReapedLast(i) /\ Sweeping(i) /\ Gone(i)
ProcInv == NoStraySignal /\ \A i \in Configs : ProcOf(i)

LEMMA ProcInit == Init => ProcInv
BY DEF Init, ProcInv, ProcOf, OwnPid, HasStarted, Unstarted, ReapedLast, Sweeping, Gone,
       NoStraySignal, Unlaunched, Launched

(* A signal changes a process only from running to dying, keeps its pid,   *)
(* and is no stray when the pid is still that of the intended process.     *)
LEMMA SignalEffect ==
  ASSUME TypeOK, NEW S, NEW i \in Configs, Signal(S, i)
  PROVE  /\ \A j \in Configs : proc'[j] = proc[j] \/ (Live(j) /\ proc'[j] = "dying")
         /\ pid' = pid /\ holder' = holder
         /\ (\A j \in S : j = i \/ ~Live(j)) => stray' = stray
BY DEF Signal, Killed, TypeOK, Live

(* A step that kills, launches and reaps nothing. *)
LEMMA ProcSame ==
  ASSUME ProcInv, pid' = pid, holder' = holder, late' = late, stray' = stray,
         waiting' = waiting,
         \A j \in Configs : proc'[j] = proc[j] \/ (Live(j) /\ proc'[j] = "dying"),
         NEW i \in Configs, tracked' = tracked, sweep' = sweep, mpc' = mpc,
         \A j \in Configs : j # i => pc'[j] = pc[j],
         pc[i] \in Unlaunched => \/ pc'[i] \in Unlaunched \cup {"return", "done"},
         pc[i] \in Launched => \/ pc'[i] \in Launched
                               \/ pc'[i] = "return" /\ proc[i] = "reaped",
         pc[i] \in {"return", "done"} => pc'[i] \in {"return", "done"},
         pc[i] \in {"reap", "return", "done"} => pc'[i] \in {"reap", "return", "done"},
         pc[i] \in Unlaunched \cup Launched \cup {"return", "done"}
  PROVE  ProcInv'
<1> USE DEF ProcOf, OwnPid, HasStarted, Unstarted, ReapedLast, Sweeping, Gone,
            Unlaunched, Launched, Live
<1>1. NoStraySignal' BY DEF ProcInv, NoStraySignal
<1>2. ASSUME NEW j \in Configs PROVE ProcOf(j)'
  <2>1. ProcOf(j) BY DEF ProcInv
  <2>2. CASE j = i BY <2>1, <2>2
  <2>3. CASE j # i BY <2>1, <2>3
  <2> QED BY <2>2, <2>3
<1> QED BY <1>1, <1>2 DEF ProcInv

LEMMA ProcGoroutine ==
  ASSUME IInv, ProcInv, NEW i \in Configs, Goroutine(i)
  PROVE  ProcInv'
<1> USE DEF IInv, TypeOK, Goto, Verdict, mainVars, localVars, osVars
<1>1. CASE \/ Parse(i) \/ TakePort(i) \/ WriteConfig(i) \/ WriteFails(i) \/ LaunchFails(i)
           \/ PortOpens(i) \/ PortStaysClosed(i) \/ Answered(i) \/ Unanswered(i)
           \/ RequestsFail(i) \/ Reaped(i)
  <2> USE DEF Unlaunched, Launched
  <2>1. CASE Parse(i) \/ TakePort(i) \/ WriteConfig(i) \/ WriteFails(i) \/ LaunchFails(i)
    BY <2>1, ProcSame DEF Parse, TakePort, WriteConfig, WriteFails, LaunchFails
  <2>2. CASE PortOpens(i) \/ PortStaysClosed(i) \/ Answered(i) \/ Unanswered(i)
             \/ RequestsFail(i) \/ Reaped(i)
    BY <2>2, ProcSame
    DEF PortOpens, PortStaysClosed, Answered, Unanswered, RequestsFail, Reaped
  <2> QED BY <1>1, <2>1, <2>2
<1> USE DEF ProcOf, OwnPid, HasStarted, Unstarted, ReapedLast, Sweeping, Gone,
            Unlaunched, Launched
<1>2. CASE Launch(i)
  <2>1. PICK p \in Pids : /\ holder[p] = Free
                          /\ holder' = [holder EXCEPT ![p] = i]
                          /\ pid' = [pid EXCEPT ![i] = p]
    BY <1>2 DEF Launch
  <2>2. ProcOf(i)'
    <3>1. ProcOf(i) /\ pc[i] = "launch" BY <1>2 DEF Launch, ProcInv
    <3>2. pid'[i] = p /\ holder'[p] = i BY <2>1
    <3> QED BY <1>2, <3>1, <3>2 DEF Launch
  <2>3. ASSUME NEW j \in Configs, j # i PROVE ProcOf(j)'
    <3>1. ProcOf(j) BY DEF ProcInv
    <3>2. pid'[j] = pid[j] BY <2>1, <2>3
    <3>3. pid[j] \in Pids /\ holder[pid[j]] = j => holder'[pid[j]] = j
      BY <2>1, BatchAssumption
    <3> QED BY <1>2, <2>3, <3>1, <3>2, <3>3 DEF Launch
  <2>4. NoStraySignal' BY <1>2 DEF Launch, ProcInv, NoStraySignal
  <2> QED BY <2>2, <2>3, <2>4 DEF ProcInv
<1>3. CASE Register(i)
  <2>1. ASSUME NEW j \in Configs PROVE ProcOf(j)'
    <3>1. ProcOf(j) BY DEF ProcInv
    <3>2. CASE j = i BY <1>3, <3>1, <3>2 DEF Register
    <3>3. CASE j # i BY <1>3, <3>1, <3>3 DEF Register
    <3> QED BY <3>2, <3>3
  <2>2. NoStraySignal' BY <1>3 DEF Register, ProcInv, NoStraySignal
  <2> QED BY <2>1, <2>2 DEF ProcInv
<1>4. CASE KillGroup(i)
  <2>1. ProcOf(i) BY DEF ProcInv
  <2>2. proc[i] \notin {"none", "reaped"} BY <1>4, <2>1 DEF KillGroup
  <2>3. PidOwner(i) = {i} BY <2>1, <2>2 DEF PidOwner
  <2>4. Signal({i}, i)
    <3>1. PidOwner(i) \cup {i} = {i} BY <2>3
    <3> QED BY <1>4, <3>1 DEF KillGroup, KillNow
  <2>5. /\ \A j \in Configs : proc'[j] = proc[j] \/ (Live(j) /\ proc'[j] = "dying")
        /\ pid' = pid /\ holder' = holder /\ stray' = stray
    BY <2>4, SignalEffect
  <2>6. ASSUME NEW j \in Configs PROVE ProcOf(j)'
    <3>1. ProcOf(j) BY DEF ProcInv
    <3>2. CASE j = i BY <1>4, <2>2, <2>5, <3>1, <3>2 DEF KillGroup, Live
    <3>3. CASE j # i BY <1>4, <2>5, <3>1, <3>3 DEF KillGroup, Live
    <3> QED BY <3>2, <3>3
  <2>7. NoStraySignal' BY <1>4, <2>5 DEF KillGroup, ProcInv, NoStraySignal
  <2> QED BY <2>6, <2>7 DEF ProcInv
<1>5. CASE KillTimesOut(i)
  <2>1. /\ \A j \in Configs : proc'[j] = proc[j] \/ (Live(j) /\ proc'[j] = "dying")
        /\ pid' = pid /\ holder' = holder
    BY <1>5, SignalEffect DEF KillTimesOut, KillAgain
  <2>2. ASSUME NEW j \in Configs PROVE ProcOf(j)'
    <3>1. ProcOf(j) BY DEF ProcInv
    <3>2. CASE j = i BY <1>5, <2>1, <3>1, <3>2 DEF KillTimesOut, Live
    <3>3. CASE j # i BY <1>5, <2>1, <3>1, <3>3 DEF KillTimesOut, Live
    <3> QED BY <3>2, <3>3
  <2>3. NoStraySignal' BY <1>5 DEF KillTimesOut, NoStraySignal
  <2> QED BY <2>2, <2>3 DEF ProcInv
<1>6. CASE Return(i)
  <2>1. \A j \in Configs : proc'[j] = proc[j] \/ (Live(j) /\ proc'[j] = "dying")
    BY <1>6 DEF Return, Killed, Live
  <2> QED BY <1>6, <2>1, ProcSame DEF Return
<1> QED BY <1>1, <1>2, <1>3, <1>4, <1>5, <1>6 DEF Goroutine

(* Nothing runs once the goroutines have been joined in time. *)
LEMMA QuietOnceJoined ==
  ASSUME IInv, ProcInv, mpc # "join", ~late
  PROVE  \A i \in Configs : proc[i] \in {"none", "reaped"}
<1> TAKE i \in Configs
<1>1. pc[i] \in {"idle", "done"} BY DEF IInv, Control, InItsBatch, Running
<1> QED BY <1>1 DEF ProcInv, ProcOf, Unstarted, Gone, Unlaunched

LEMMA ProcSweeper ==
  ASSUME IInv, ProcInv, NEW i \in Configs, Sweeper(i)
  PROVE  ProcInv'
<1> USE DEF ProcOf, OwnPid, HasStarted, Unstarted, ReapedLast, Sweeping, Gone,
            Unlaunched, Launched, mainVars, osVars, localVars
<1>0. TypeOK BY DEF IInv
<1>1. CASE SweepSignal(i)
  <2>1. ProcOf(i) BY DEF ProcInv
  <2>2. mpc # "join" /\ pc[i] = "done"
    <3>1. mpc = "sweep" BY <1>1, <2>1 DEF SweepSignal
    <3>2. pc[i] \in {"idle", "done"} BY <3>1 DEF IInv, Control, InItsBatch, Running
    <3> QED BY <1>1, <2>1, <3>1, <3>2 DEF SweepSignal
  <2>3. /\ \A j \in Configs : proc'[j] = proc[j] \/ (Live(j) /\ proc'[j] = "dying")
        /\ pid' = pid /\ holder' = holder
        /\ ~late => stray' = stray
    <3> DEFINE S == PidOwner(i) \cup {i}
    <3>1. Signal(S, i) BY <1>1 DEF SweepSignal, KillNow
    <3>2. ~late => \A j \in S : j = i \/ ~Live(j)
      BY <2>2, QuietOnceJoined DEF Live, PidOwner
    <3> HIDE DEF S
    <3> QED BY <1>0, <3>1, <3>2, SignalEffect
  <2>4. ASSUME NEW j \in Configs PROVE ProcOf(j)'
    <3>1. ProcOf(j) BY DEF ProcInv
    <3>2. CASE j = i BY <1>0, <1>1, <2>1, <2>2, <2>3, <3>2 DEF SweepSignal, Live, TypeOK
    <3>3. CASE j # i BY <1>0, <1>1, <2>3, <3>1, <3>3 DEF SweepSignal, Live, TypeOK
    <3> QED BY <3>2, <3>3
  <2>5. NoStraySignal' BY <1>1, <2>3 DEF SweepSignal, ProcInv, NoStraySignal
  <2> QED BY <2>4, <2>5 DEF ProcInv
<1>2. CASE SweepReaped(i)
  <2>1. ASSUME NEW j \in Configs PROVE ProcOf(j)'
    BY <1>0, <1>2 DEF SweepReaped, ProcInv, TypeOK
  <2> QED BY <1>2, <2>1 DEF SweepReaped, ProcInv, NoStraySignal
<1>3. CASE SweepTimesOut(i)
  <2>1. /\ \A j \in Configs : proc'[j] = proc[j] \/ (Live(j) /\ proc'[j] = "dying")
        /\ pid' = pid /\ holder' = holder
    BY <1>0, <1>3, SignalEffect DEF SweepTimesOut, KillAgain
  <2>2. ASSUME NEW j \in Configs PROVE ProcOf(j)'
    <3>1. ProcOf(j) BY DEF ProcInv
    <3> QED BY <1>0, <1>3, <2>1, <3>1 DEF SweepTimesOut, Live, TypeOK
  <2> QED BY <1>3, <2>2 DEF SweepTimesOut, ProcInv, NoStraySignal
<1> QED BY <1>1, <1>2, <1>3 DEF Sweeper

LEMMA ProcSystem ==
  ASSUME IInv, ProcInv, NEW i \in Configs, System(i)
  PROVE  ProcInv'
<1> USE DEF ProcOf, OwnPid, HasStarted, Unstarted, ReapedLast, Sweeping, Gone,
            Unlaunched, Launched, mainVars, osVars, localVars, IInv, TypeOK
<1>0. ProcOf(i) BY DEF ProcInv
<1>1. CASE Bind(i) \/ Exit(i)
  <2>1. ASSUME NEW j \in Configs PROVE ProcOf(j)'
    <3>1. ProcOf(j) BY DEF ProcInv
    <3> QED BY <1>1, <3>1 DEF Bind, Exit
  <2> QED BY <1>1, <2>1 DEF Bind, Exit, ProcInv, NoStraySignal
<1>2. CASE WaitReturns(i)
  <2>1. ProcOf(i)' BY <1>0, <1>2 DEF WaitReturns
  <2>2. ASSUME NEW j \in Configs, j # i PROVE ProcOf(j)'
    <3>1. ProcOf(j) BY DEF ProcInv
    <3>2. OwnPid(j)' BY <1>0, <1>2, <2>2, <3>1 DEF WaitReturns
    <3> QED BY <1>2, <2>2, <3>1, <3>2 DEF WaitReturns
  <2> QED BY <1>2, <2>1, <2>2 DEF WaitReturns, ProcInv, NoStraySignal
<1>3. CASE ContextExpires(i)
  <2>1. \A j \in Configs : proc'[j] = proc[j] \/ (Live(j) /\ proc'[j] = "dying")
    BY <1>3 DEF ContextExpires, Killed, Live
  <2>2. ASSUME NEW j \in Configs PROVE ProcOf(j)'
    <3>1. ProcOf(j) BY DEF ProcInv
    <3> QED BY <1>3, <2>1, <3>1 DEF ContextExpires, Live
  <2> QED BY <1>3, <2>2 DEF ContextExpires, ProcInv, NoStraySignal
<1> QED BY <1>1, <1>2, <1>3 DEF System

LEMMA ProcMain ==
  ASSUME IInv, ProcInv, Main
  PROVE  ProcInv'
<1> USE DEF ProcOf, OwnPid, HasStarted, Unstarted, ReapedLast, Sweeping, Gone,
            Unlaunched, Launched, mainVars, osVars, localVars
<1>1. CASE StartBatch
  <2>1. ASSUME NEW j \in Configs PROVE ProcOf(j)'
    <3>1. ProcOf(j) BY DEF ProcInv
    <3>2. pc[j] \in {"idle", "done"} BY <1>1 DEF StartBatch, IInv, Control, InItsBatch, Running
    <3>3. pc'[j] = IF j \in Batch THEN "spawned" ELSE pc[j] BY <1>1 DEF StartBatch
    <3>4. j \in Batch => pc[j] = "idle"
      <4>1. first \in Nat /\ mpc = "batch" BY <1>1 DEF StartBatch, IInv, TypeOK
      <4>2. pc[j] # "idle" => j < first BY <4>1 DEF IInv, Control, Started
      <4> QED BY <4>1, <4>2, BatchAssumption DEF Batch, Configs
    <3> QED BY <1>1, <3>1, <3>2, <3>3, <3>4 DEF StartBatch
  <2> QED BY <1>1, <2>1 DEF StartBatch, ProcInv, NoStraySignal
<1>2. CASE Join
  <2>1. ASSUME NEW j \in Configs PROVE ProcOf(j)'
    <3>1. ProcOf(j) BY DEF ProcInv
    <3> QED BY <1>2, <3>1 DEF Join
  <2> QED BY <1>2, <2>1 DEF Join, ProcInv, NoStraySignal
<1>3. CASE SweepEnds \/ Tally
  <2>1. ASSUME NEW j \in Configs PROVE ProcOf(j)'
    <3>1. ProcOf(j) BY DEF ProcInv
    <3> QED BY <1>3, <3>1 DEF SweepEnds, Tally
  <2> QED BY <1>3, <2>1 DEF SweepEnds, Tally, ProcInv, NoStraySignal
<1> QED BY <1>1, <1>2, <1>3 DEF Main

THEOREM ProcInvariant == Spec => []ProcInv
<1>1. Init => ProcInv BY ProcInit
<1>2. ASSUME IInv, ProcInv, [Next]_vars PROVE ProcInv'
  <2>1. CASE UNCHANGED vars
    BY <1>2, <2>1
    DEF vars, mainVars, osVars, localVars, ProcInv, NoStraySignal, ProcOf, OwnPid,
        HasStarted, Unstarted, ReapedLast, Sweeping, Gone
  <2> QED BY <1>2, <2>1, ProcGoroutine, ProcSweeper, ProcSystem, ProcMain DEF Next, Finished
<1> QED BY <1>1, <1>2, IInvInvariant, PTL DEF Spec

(* No process is left behind between batches, unless killGroup or killAll  *)
(* gave up waiting for one.                                                *)
THEOREM BatchesAreQuiet == Spec => []QuietBetweenBatches
<1>1. IInv /\ ProcInv => QuietBetweenBatches
  BY QuietOnceJoined DEF QuietBetweenBatches
<1> QED BY <1>1, IInvInvariant, ProcInvariant, PTL

(* No signal strikes a process that got a reused pid, up to the same.      *)
THEOREM SignalsAreOwn == Spec => []NoStraySignal
<1>1. ProcInv => NoStraySignal BY DEF ProcInv
<1> QED BY <1>1, ProcInvariant, PTL

(* A verdict is given once: only by a goroutine that is not done.          *)
THEOREM ResultsAreFinal == Spec => ResultsFinal
<1>1. ASSUME TypeOK, [Next]_vars, NEW i \in Configs, pc[i] = "done"
      PROVE  res'[i] = res[i]
  <2> USE DEF TypeOK, Verdict, mainVars, localVars, osVars
  <2>1. ASSUME NEW j \in Configs, Goroutine(j) PROVE res'[i] = res[i]
    BY <1>1, <2>1
    DEF Goroutine, Parse, TakePort, WriteConfig, WriteFails, Launch, LaunchFails,
        Register, PortOpens, PortStaysClosed, Answered, Unanswered, RequestsFail,
        KillGroup, Reaped, KillTimesOut, Return
  <2>2. ASSUME NEW j \in Configs, Sweeper(j) \/ System(j) PROVE res' = res
    BY <2>2 DEF Sweeper, System, SweepSignal, SweepReaped, SweepTimesOut, Bind, Exit,
                WaitReturns, ContextExpires
  <2>3. Main \/ UNCHANGED vars => res' = res
    BY DEF Main, StartBatch, Join, SweepEnds, Tally, vars
  <2> QED BY <1>1, <2>1, <2>2, <2>3 DEF Next, Finished
<1>2. TypeOK /\ [Next]_vars => [\A i \in Configs : pc[i] = "done" => res'[i] = res[i]]_vars
  BY <1>1
<1> QED BY <1>2, TypeCorrect, PTL DEF Spec, ResultsFinal

-----------------------------------------------------------------------------
(***************************************************************************)
(* The channel of local ports is FIFO and full when a batch begins: until  *)
(* every port of the batch has been taken once, it begins with those that  *)
(* have not, in order, and the ports given back queue behind them.         *)
(***************************************************************************)

Taken == {i \in Batch : port[i] # NoPort}
NoPortYet == \A i \in Configs : pc[i] \in {"idle", "spawned", "take"} => port[i] = NoPort
EndsAtEnd == mpc = "done" <=> first >= NumConfigs
UnusedFirst == mpc = "join" =>
   LET t == Cardinality(Taken)
   IN  /\ \A k \in 1 .. BatchLen - t :
            k <= Len(pool) /\ pool[k] = BasePort + t + k - 1
       /\ \A i \in Taken : port[i] < BasePort + t

FifoInv == NoPortYet /\ EndsAtEnd /\ UnusedFirst /\ PortOncePerBatch

(* A batch is an interval of configs, of length BatchLen. *)
LEMMA BatchIsInterval ==
  ASSUME first \in Nat, first < NumConfigs
  PROVE  /\ Batch = first .. first + BatchLen - 1
         /\ BatchLen \in Nat /\ BatchLen >= 1 /\ BatchLen <= BatchSize
         /\ first + BatchLen <= NumConfigs
         /\ IsFiniteSet(Batch) /\ Cardinality(Batch) = BatchLen
<1>1. /\ BatchLen \in Nat /\ BatchLen >= 1 /\ BatchLen <= BatchSize
      /\ first + BatchLen <= NumConfigs
  BY BatchAssumption DEF BatchLen
<1>2. Batch = first .. first + BatchLen - 1
  BY BatchAssumption DEF Batch, BatchLen, Configs
<1>3. IsFiniteSet(Batch) /\ Cardinality(Batch) = BatchLen
  <2> DEFINE last == first + BatchLen - 1
  <2>1. last \in Int /\ first <= last /\ last - first + 1 = BatchLen BY <1>1
  <2>2. IsFiniteSet(first .. last)
        /\ Cardinality(first .. last) = IF first > last THEN 0 ELSE last - first + 1
    BY <2>1, FS_Interval
  <2> QED BY <1>2, <2>1, <2>2
<1> QED BY <1>1, <1>2, <1>3

LEMMA FifoInit == Init => FifoInv
<1> SUFFICES ASSUME Init PROVE FifoInv OBVIOUS
<1>1. EndsAtEnd BY BatchAssumption DEF Init, EndsAtEnd
<1>2. NoPortYet /\ PortOncePerBatch BY DEF Init, NoPortYet, PortOncePerBatch, Batch
<1>3. UnusedFirst BY DEF Init, UnusedFirst
<1> QED BY <1>1, <1>2, <1>3 DEF FifoInv

(* Steps that neither take nor move a port that is yet to be used. *)
LEMMA FifoSame ==
  ASSUME IInv, FifoInv, UNCHANGED <<mpc, first, port>>,
         \A k \in 1 .. Len(pool) : k <= Len(pool') /\ pool'[k] = pool[k],
         \A i \in Configs : pc'[i] \in {"idle", "spawned", "take"} =>
                            pc[i] \in {"idle", "spawned", "take"}
  PROVE  FifoInv'
<1>1. NoPortYet' /\ EndsAtEnd' /\ PortOncePerBatch'
  BY DEF FifoInv, NoPortYet, EndsAtEnd, PortOncePerBatch, Batch
<1>2. Taken' = Taken /\ BatchLen' = BatchLen BY DEF Taken, Batch, BatchLen
<1>3. SUFFICES ASSUME mpc = "join" PROVE UnusedFirst'
  BY <1>1 DEF FifoInv, UnusedFirst
<1> DEFINE t == Cardinality(Taken)
<1>4. /\ \A k \in 1 .. BatchLen - t : k <= Len(pool) /\ pool[k] = BasePort + t + k - 1
      /\ \A i \in Taken : port[i] < BasePort + t
  BY <1>3 DEF FifoInv, UnusedFirst
<1>5. \A k \in 1 .. BatchLen - t : k <= Len(pool') /\ pool'[k] = BasePort + t + k - 1
  <2> TAKE k \in 1 .. BatchLen - t
  <2>1. Len(pool) \in Nat BY LenProperties DEF IInv, TypeOK
  <2>2. k \in 1 .. Len(pool) BY <1>4, <2>1
  <2> QED BY <1>4, <2>2
<1> HIDE DEF t
<1> QED BY <1>2, <1>4, <1>5 DEF UnusedFirst, t

LEMMA FifoTake ==
  ASSUME IInv, FifoInv, NEW i \in Configs, TakePort(i)
  PROVE  FifoInv'
<1> DEFINE t == Cardinality(Taken)
<1>1. /\ pool \in Seq(Ports) /\ port \in [Configs -> Ports \cup {NoPort}]
      /\ pc \in [Configs -> Labels] /\ first \in Nat
  BY DEF IInv, TypeOK
<1>2. /\ mpc = "join" /\ i \in Batch /\ port[i] = NoPort
      /\ first < NumConfigs
  <2>1. mpc = "join" /\ i \in Batch
    BY DEF TakePort, IInv, Control, InItsBatch, Running
  <2>2. first < NumConfigs BY <1>1, <2>1, BatchAssumption DEF FifoInv, EndsAtEnd
  <2> QED BY <2>1, <2>2 DEF TakePort, FifoInv, NoPortYet
<1>3. /\ UNCHANGED <<mpc, first>> /\ Batch' = Batch /\ BatchLen' = BatchLen
      /\ pool' = Tail(pool) /\ pool # << >>
      /\ port' = [port EXCEPT ![i] = Head(pool)]
      /\ pc' = [pc EXCEPT ![i] = "write"]
  BY DEF TakePort, mainVars, Batch, BatchLen, PoolLeft, Goto
<1>4. /\ BatchLen \in Nat /\ IsFiniteSet(Batch) /\ Cardinality(Batch) = BatchLen
  BY <1>1, <1>2, BatchIsInterval
<1>5. /\ t \in Nat /\ t + 1 <= BatchLen /\ IsFiniteSet(Taken)
      /\ Cardinality(Taken \cup {i}) = t + 1
  <2>1. Taken \subseteq Batch /\ i \notin Taken BY <1>2 DEF Taken
  <2>2. IsFiniteSet(Taken) BY <1>4, <2>1, FS_Subset
  <2>3. Cardinality(Taken \cup {i}) = t + 1 BY <2>1, <2>2, FS_AddElement
  <2>4. Cardinality(Taken \cup {i}) <= BatchLen
    <3>1. Taken \cup {i} \in SUBSET Batch BY <1>2, <2>1
    <3> QED BY <1>4, <3>1, FS_Subset
  <2>5. t \in Nat BY <2>2, FS_CardinalityType
  <2> QED BY <2>2, <2>3, <2>4, <2>5
<1>6. /\ Len(pool) \in Nat /\ Len(pool') = Len(pool) - 1
      /\ \A k \in 1 .. Len(pool) - 1 : pool'[k] = pool[k + 1]
      /\ Head(pool) = pool[1] /\ Head(pool) \in Ports
  BY <1>1, <1>3, HeadTailProperties, LenProperties
<1>7. /\ \A k \in 1 .. BatchLen - t : k <= Len(pool) /\ pool[k] = BasePort + t + k - 1
      /\ \A j \in Taken : port[j] < BasePort + t
  BY <1>2 DEF FifoInv, UnusedFirst
<1>8. /\ port'[i] = BasePort + t /\ port'[i] # NoPort
      /\ \A j \in Configs : j # i => port'[j] = port[j]
  <2>1. 1 \in 1 .. BatchLen - t BY <1>4, <1>5
  <2>2. pool[1] = BasePort + t + 1 - 1 BY <1>7, <2>1
  <2> QED BY <1>1, <1>3, <1>5, <1>6, <2>2, BatchAssumption
<1>9. Taken' = Taken \cup {i}
  BY <1>2, <1>3, <1>8 DEF Taken, Batch
<1>10. \A k \in 1 .. BatchLen - (t + 1) :
          k <= Len(pool') /\ pool'[k] = BasePort + (t + 1) + k - 1
  <2> TAKE k \in 1 .. BatchLen - (t + 1)
  <2>1. k + 1 \in 1 .. BatchLen - t BY <1>4, <1>5
  <2>2. k + 1 <= Len(pool) /\ pool[k + 1] = BasePort + t + (k + 1) - 1 BY <1>7, <2>1
  <2>3. k \in 1 .. Len(pool) - 1 BY <1>6, <2>2
  <2> QED BY <1>5, <1>6, <2>2, <2>3, BatchAssumption
<1>11. \A j \in Taken' : port'[j] < BasePort + (t + 1)
  <2> TAKE j \in Taken'
  <2>1. CASE j = i BY <1>5, <1>8, <2>1, BatchAssumption
  <2>2. CASE j # i
    <3>1. j \in Taken /\ port'[j] = port[j] BY <1>8, <1>9, <2>2 DEF Taken, Batch
    <3>2. port[j] \in Ports BY <1>1, <3>1 DEF Taken, Batch
    <3> QED BY <1>5, <1>7, <3>1, <3>2, BatchAssumption DEF Ports
  <2> QED BY <2>1, <2>2
<1>12. UnusedFirst'
  BY <1>3, <1>5, <1>9, <1>10, <1>11 DEF UnusedFirst
<1>13. PortOncePerBatch'
  <2> SUFFICES ASSUME NEW j \in Batch, NEW k \in Batch, port'[j] # NoPort, port'[j] = port'[k]
               PROVE  j = k
    BY <1>3 DEF PortOncePerBatch
  <2>0. j \in Configs /\ k \in Configs BY DEF Batch
  <2>1. \A l \in Batch : l # i /\ port'[l] # NoPort => port'[l] # BasePort + t
    <3> SUFFICES ASSUME NEW l \in Batch, l # i, port'[l] # NoPort
                 PROVE  port'[l] # BasePort + t
      OBVIOUS
    <3>1. l \in Taken /\ port'[l] = port[l] BY <1>8 DEF Taken, Batch
    <3>2. port[l] \in Ports BY <1>1, <3>1 DEF Taken, Batch
    <3> QED BY <1>5, <1>7, <3>1, <3>2, BatchAssumption DEF Ports
  <2>2. CASE j = i \/ k = i BY <1>8, <2>1, <2>2
  <2>3. CASE j # i /\ k # i BY <1>8, <2>0, <2>3 DEF FifoInv, PortOncePerBatch
  <2> QED BY <2>2, <2>3
<1>14. NoPortYet' /\ EndsAtEnd'
  BY <1>1, <1>3, <1>8 DEF FifoInv, NoPortYet, EndsAtEnd
<1> QED BY <1>12, <1>13, <1>14 DEF FifoInv

LEMMA FifoGoroutine ==
  ASSUME IInv, FifoInv, NEW i \in Configs, Goroutine(i)
  PROVE  FifoInv'
<1>0. /\ UNCHANGED <<mpc, first>>
      /\ \A j \in Configs : j # i => pc'[j] = pc[j]
  BY GoroutineControl DEF IInv
<1>1. CASE TakePort(i) BY <1>1, FifoTake
<1>2. CASE Return(i)
  <2>1. pool \in Seq(Ports) /\ port[i] \in Ports
    BY <1>2 DEF IInv, TypeOK, PortInv, PortTaken, Return, HoldsPort, Holding
  <2>2. \A k \in 1 .. Len(pool) : k <= Len(pool') /\ pool'[k] = pool[k]
    <3>1. pool' = Append(pool, port[i]) BY <1>2 DEF Return
    <3>2. Len(pool) \in Nat /\ Len(pool') = Len(pool) + 1
          /\ \A k \in 1 .. Len(pool) : pool'[k] = pool[k]
      BY <2>1, <3>1, AppendProperties, LenProperties
    <3> QED BY <3>2
  <2>3. \A j \in Configs : pc'[j] \in {"idle", "spawned", "take"} =>
                            pc[j] \in {"idle", "spawned", "take"}
    BY <1>2, <1>0 DEF Return, Goto, IInv, TypeOK
  <2> QED BY <1>0, <1>2, <2>2, <2>3, FifoSame DEF Return, localVars
<1>3. CASE ~TakePort(i) /\ ~Return(i)
  <2>1. UNCHANGED <<pool, port>>
    BY <1>3
    DEF Goroutine, Parse, WriteConfig, WriteFails, Launch, LaunchFails, Register,
        PortOpens, PortStaysClosed, Answered, Unanswered, RequestsFail, KillGroup,
        Reaped, KillTimesOut, localVars
  <2>2. pc'[i] \in {"idle", "spawned", "take"} => pc[i] \in {"idle", "spawned", "take"}
    BY <1>3
    DEF Goroutine, Parse, WriteConfig, WriteFails, Launch, LaunchFails, Register,
        PortOpens, PortStaysClosed, Answered, Unanswered, RequestsFail, KillGroup,
        Reaped, KillTimesOut, Goto, IInv, TypeOK
  <2> QED BY <1>0, <2>1, <2>2, FifoSame
<1> QED BY <1>1, <1>2, <1>3

LEMMA FifoMain ==
  ASSUME IInv, FifoInv, Main
  PROVE  FifoInv'
<1>0. /\ first \in Nat /\ pc \in [Configs -> Labels]
      /\ first' \in Nat /\ \A i \in Configs : i \in Nat
  BY BatchAssumption DEF IInv, TypeOK, Main, StartBatch, Join, SweepEnds, Tally, Configs
<1>1. CASE StartBatch
  <2>1. /\ mpc = "batch" /\ mpc' = "join" /\ UNCHANGED <<first, port>>
        /\ pool' = [k \in 1 .. BatchLen |-> BasePort + k - 1]
        /\ pc' = [i \in Configs |-> IF i \in Batch THEN "spawned" ELSE pc[i]]
        /\ Batch' = Batch /\ BatchLen' = BatchLen
    BY <1>1 DEF StartBatch, LocalPorts, localVars, Batch, BatchLen
  <2>2. first < NumConfigs BY <2>1 DEF IInv, Control, BatchNotEmpty
  <2>3. BatchLen \in Nat BY <1>0, <2>2, BatchIsInterval
  <2>4. \A i \in Batch : i \in Configs /\ pc[i] = "idle" /\ port[i] = NoPort
    <3> TAKE i \in Batch
    <3>1. i \in Configs /\ first <= i BY DEF Batch
    <3>2. pc[i] = "idle" BY <1>0, <2>1, <3>1 DEF IInv, Control, Started
    <3> QED BY <3>1, <3>2 DEF FifoInv, NoPortYet
  <2>5. Taken' = {} BY <2>1, <2>4 DEF Taken
  <2>6. /\ Len(pool') = BatchLen /\ \A k \in 1 .. BatchLen : pool'[k] = BasePort + k - 1
    BY <2>1, <2>3
  <2>7. UnusedFirst'
    <3>1. Cardinality(Taken') = 0 BY <2>5, FS_EmptySet
    <3>2. \A k \in 1 .. BatchLen' - 0 : k <= Len(pool') /\ pool'[k] = BasePort + 0 + k - 1
      BY <2>1, <2>3, <2>6, BatchAssumption
    <3> QED BY <2>5, <3>1, <3>2 DEF UnusedFirst
  <2>8. NoPortYet' BY <1>0, <2>1, <2>4 DEF FifoInv, NoPortYet
  <2>9. PortOncePerBatch' BY <2>1, <2>4 DEF PortOncePerBatch
  <2>10. EndsAtEnd' BY <1>0, <2>1, <2>2, BatchAssumption DEF EndsAtEnd
  <2> QED BY <2>7, <2>8, <2>9, <2>10 DEF FifoInv
<1>2. CASE Join \/ SweepEnds
  <2>1. /\ UNCHANGED <<first, port, pc>> /\ Batch' = Batch
        /\ mpc \in {"join", "sweep"} /\ mpc' \in {"sweep", "tally"}
    BY <1>2 DEF Join, SweepEnds, localVars, Batch
  <2> QED BY <2>1 DEF FifoInv, NoPortYet, EndsAtEnd, UnusedFirst, PortOncePerBatch
<1>3. CASE Tally
  <2>1. /\ UNCHANGED <<port, pc>> /\ mpc = "tally" /\ first' = first + BatchSize
        /\ mpc' = IF first + BatchSize >= NumConfigs THEN "done" ELSE "batch"
    BY <1>3 DEF Tally, localVars
  <2>2. EndsAtEnd' BY <2>1 DEF EndsAtEnd
  <2>3. \A i \in Batch' : port'[i] = NoPort
    <3> TAKE i \in Batch'
    <3>1. i \in Configs /\ i >= first + BatchSize BY <2>1 DEF Batch
    <3>2. pc[i] = "idle" BY <1>0, <2>1, <3>1, BatchAssumption DEF IInv, Control, Started
    <3> QED BY <2>1, <3>1, <3>2 DEF FifoInv, NoPortYet
  <2>4. PortOncePerBatch' BY <2>3 DEF PortOncePerBatch
  <2> QED BY <2>1, <2>2, <2>4 DEF FifoInv, NoPortYet, UnusedFirst
<1> QED BY <1>1, <1>2, <1>3 DEF Main

THEOREM FifoInvariant == Spec => []FifoInv
<1>1. Init => FifoInv BY FifoInit
<1>2. ASSUME IInv, FifoInv, [Next]_vars PROVE FifoInv'
  <2>1. CASE UNCHANGED vars
    BY <2>1, <1>2, FifoSame DEF vars, mainVars, localVars
  <2>2. ASSUME NEW i \in Configs, Sweeper(i) \/ System(i) PROVE FifoInv'
    <3>1. UNCHANGED <<mpc, first, port, pool, pc>>
      BY <2>2 DEF Sweeper, System, SweepSignal, SweepReaped, SweepTimesOut, Bind, Exit,
                  WaitReturns, ContextExpires, mainVars, localVars
    <3> QED BY <1>2, <3>1, FifoSame
  <2> QED BY <1>2, <2>1, <2>2, FifoGoroutine, FifoMain DEF Next, Finished
<1> QED BY <1>1, <1>2, IInvInvariant, PTL DEF Spec

(* Within a batch no local port is used twice.                             *)
THEOREM PortsUsedOnce == Spec => []PortOncePerBatch
<1>1. FifoInv => PortOncePerBatch BY DEF FifoInv
<1> QED BY <1>1, FifoInvariant, PTL

(* A goroutine that comes for a port finds one: it never blocks there.     *)
THEOREM PortsSuffice == Spec => []PortAvailable
<1>1. ASSUME IInv, FifoInv, NEW i \in Configs, pc[i] = "take" PROVE pool # << >>
  <2>1. /\ mpc = "join" /\ i \in Batch /\ port[i] = NoPort
    BY <1>1 DEF IInv, Control, InItsBatch, Running, FifoInv, NoPortYet
  <2>2. first \in Nat /\ first < NumConfigs
    <3>1. first \in Nat BY <1>1 DEF IInv, TypeOK
    <3> QED BY <1>1, <2>1, <3>1, BatchAssumption DEF FifoInv, EndsAtEnd
  <2>3. IsFiniteSet(Batch) /\ Cardinality(Batch) = BatchLen /\ BatchLen \in Nat
    BY <2>2, BatchIsInterval
  <2>4. Taken \subseteq Batch /\ Taken # Batch BY <2>1 DEF Taken
  <2>5. Cardinality(Taken) \in Nat /\ Cardinality(Taken) < BatchLen
    <3>1. IsFiniteSet(Taken) /\ Cardinality(Taken) <= BatchLen
          /\ Cardinality(Taken) # BatchLen
      BY <2>3, <2>4, FS_Subset
    <3>2. Cardinality(Taken) \in Nat BY <3>1, FS_CardinalityType
    <3> QED BY <2>3, <3>1, <3>2
  <2>6. 1 \in 1 .. BatchLen - Cardinality(Taken) BY <2>3, <2>5
  <2>7. 1 <= Len(pool)
    <3>1. UnusedFirst BY <1>1 DEF FifoInv
    <3> QED BY <2>1, <2>6, <3>1 DEF UnusedFirst
  <2> QED BY <2>7, EmptySeq
<1>2. IInv /\ FifoInv => PortAvailable BY <1>1 DEF PortAvailable
<1> QED BY <1>2, IInvInvariant, FifoInvariant, PTL

-----------------------------------------------------------------------------
(***************************************************************************)
(* The accounts: what is published are the passing configs of the batches  *)
(* so far, in order, and every config of theirs is in one counter.         *)
(***************************************************************************)

Upto == IF first > NumConfigs THEN NumConfigs ELSE first
UpTo(n) == [k \in 1 .. n |-> k - 1]
Parsed == {i \in Batch : pc[i] \notin {"idle", "spawned"}}
JoinedInv == mpc \in {"sweep", "tally"} => \A i \in Batch : pc[i] = "done"
TestedInv == tested = Upto + Cardinality(Parsed)
PublishedInv == published = Select(UpTo(Upto), Passing)
CountedInv == /\ count["passed"] = Len(published)
              /\ count["passed"] + count["parse"] + count["start"] + count["conn"] = Upto

AccountInv == JoinedInv /\ TestedInv /\ PublishedInv /\ CountedInv

LEMMA UpToType ==
  ASSUME NEW n \in Nat
  PROVE  /\ UpTo(n) \in Seq(0 .. n - 1) /\ Len(UpTo(n)) = n
         /\ \A k \in 1 .. n : UpTo(n)[k] = k - 1
<1>1. \A k \in 1 .. n : k - 1 \in 0 .. n - 1 OBVIOUS
<1>2. [k \in 1 .. n |-> k - 1] \in Seq(0 .. n - 1) BY <1>1, IsASeq
<1> QED BY <1>2 DEF UpTo

LEMMA AccountInit == Init => AccountInv
<1> SUFFICES ASSUME Init PROVE AccountInv OBVIOUS
<1>1. /\ first = 0 /\ tested = 0 /\ published = << >> /\ mpc \in {"done", "batch"}
      /\ count["passed"] = 0 /\ count["parse"] = 0 /\ count["start"] = 0 /\ count["conn"] = 0
      /\ Parsed = {}
  BY DEF Init, Parsed, Batch
<1>2. Upto = 0 BY <1>1, BatchAssumption DEF Upto
<1>3. UpTo(0) = << >> BY UpToType, EmptySeq
<1>4. PublishedInv BY <1>1, <1>2, <1>3, SelectEmpty DEF PublishedInv
<1>5. TestedInv BY <1>1, <1>2, FS_EmptySet DEF TestedInv
<1>6. JoinedInv /\ CountedInv BY <1>1, <1>2, EmptySeq DEF JoinedInv, CountedInv
<1> QED BY <1>4, <1>5, <1>6 DEF AccountInv

(* What is selected below first does not change while only the results of  *)
(* the batch do.                                                           *)
LEMMA PublishedSame ==
  ASSUME IInv, first' = first, \A j \in Configs : j < first => res'[j] = res[j]
  PROVE  Upto' = Upto /\ Select(UpTo(Upto), Passing)' = Select(UpTo(Upto), Passing)
<1> DEFINE S == 0 .. Upto - 1
<1>1. Upto \in Nat /\ Upto' = Upto /\ Upto <= first
  BY BatchAssumption DEF Upto, IInv, TypeOK
<1>2. \A j \in S : j \in Configs => res'[j] = res[j]
  <2> TAKE j \in S
  <2>1. j < first BY <1>1 DEF IInv, TypeOK
  <2> QED BY <2>1
<1>3. S \cap Passing' = S \cap Passing
  BY <1>2 DEF Passing
<1>4. UpTo(Upto) \in Seq(S) BY <1>1, UpToType
<1>5. Select(UpTo(Upto), Passing') = Select(UpTo(Upto), Passing)
  <2> HIDE DEF S
  <2> QED BY <1>3, <1>4, SelectSame
<1>6. UpTo(Upto)' = UpTo(Upto) BY <1>1 DEF UpTo
<1> QED BY <1>1, <1>5, <1>6

(* A step that is not Parse, StartBatch or Tally. *)
LEMMA AccountSame ==
  ASSUME IInv, AccountInv, UNCHANGED <<first, tested, count, published>>,
         \A j \in Configs : j < first => res'[j] = res[j],
         \A j \in Configs : pc'[j] \in {"idle", "spawned"} <=> pc[j] \in {"idle", "spawned"},
         JoinedInv'
  PROVE  AccountInv'
<1>1. Upto' = Upto /\ Select(UpTo(Upto), Passing)' = Select(UpTo(Upto), Passing)
  BY PublishedSame
<1>2. Parsed' = Parsed BY DEF Parsed, Batch
<1>3. TestedInv' BY <1>1, <1>2 DEF AccountInv, TestedInv
<1>4. PublishedInv' BY <1>1 DEF AccountInv, PublishedInv
<1>5. CountedInv' BY <1>1 DEF AccountInv, CountedInv
<1> QED BY <1>3, <1>4, <1>5 DEF AccountInv

(* Only the goroutine's own result and label change, and it is in the batch. *)
LEMMA AccountGoroutine ==
  ASSUME IInv, AccountInv, NEW i \in Configs, Goroutine(i)
  PROVE  AccountInv'
<1>0. /\ UNCHANGED <<mpc, first, count, published>> /\ mpc = "join" /\ i \in Batch
      /\ \A j \in Configs : j # i => pc'[j] = pc[j] /\ res'[j] = res[j]
  <2>1. /\ UNCHANGED <<mpc, first>> /\ Running(i)
        /\ \A j \in Configs : j # i => pc'[j] = pc[j]
    BY GoroutineControl DEF IInv
  <2>2. \A j \in Configs : j # i => res'[j] = res[j]
    BY DEF Goroutine, Parse, TakePort, WriteConfig, WriteFails, Launch, LaunchFails,
           Register, PortOpens, PortStaysClosed, Answered, Unanswered, RequestsFail,
           KillGroup, Reaped, KillTimesOut, Return, Verdict, localVars, IInv, TypeOK
  <2>3. UNCHANGED <<count, published>>
    BY DEF Goroutine, Parse, TakePort, WriteConfig, WriteFails, Launch, LaunchFails,
           Register, PortOpens, PortStaysClosed, Answered, Unanswered, RequestsFail,
           KillGroup, Reaped, KillTimesOut, Return, mainVars
  <2> QED BY <2>1, <2>2, <2>3 DEF IInv, Control, InItsBatch
<1>1. \A j \in Configs : j < first => res'[j] = res[j]
  <2>1. first \in Nat /\ i \in Nat /\ first <= i
    BY <1>0, BatchAssumption DEF IInv, TypeOK, Batch, Configs
  <2> QED BY <1>0, <2>1
<1>2. JoinedInv' BY <1>0 DEF JoinedInv
<1>3. CASE Parse(i)
  <2>1. /\ tested' = tested + 1 /\ pc[i] = "spawned" /\ pc'[i] \notin {"idle", "spawned"}
    BY <1>3 DEF Parse, Goto, IInv, TypeOK
  <2>2. Parsed' = Parsed \cup {i} /\ i \notin Parsed
    BY <1>0, <2>1 DEF Parsed, Batch
  <2>3. IsFiniteSet(Parsed)
    <3>1. Parsed \in SUBSET Configs BY DEF Parsed, Batch
    <3>2. IsFiniteSet(Configs) BY BatchAssumption, FS_Interval DEF Configs
    <3> QED BY <3>1, <3>2, FS_Subset
  <2>4. Cardinality(Parsed') = Cardinality(Parsed) + 1 /\ Cardinality(Parsed) \in Nat
    BY <2>2, <2>3, FS_AddElement, FS_CardinalityType
  <2>5. Upto' = Upto /\ Select(UpTo(Upto), Passing)' = Select(UpTo(Upto), Passing)
    BY <1>0, <1>1, PublishedSame
  <2>6. Upto \in Nat BY BatchAssumption DEF Upto, IInv, TypeOK
  <2>7. TestedInv' BY <2>1, <2>4, <2>5, <2>6 DEF AccountInv, TestedInv
  <2>8. PublishedInv' /\ CountedInv' BY <1>0, <2>5 DEF AccountInv, PublishedInv, CountedInv
  <2> QED BY <1>2, <2>7, <2>8 DEF AccountInv
<1>4. CASE ~Parse(i)
  <2>1. tested' = tested
    BY <1>4
    DEF Goroutine, TakePort, WriteConfig, WriteFails, Launch, LaunchFails,
        Register, PortOpens, PortStaysClosed, Answered, Unanswered, RequestsFail,
        KillGroup, Reaped, KillTimesOut, Return, mainVars
  <2>2. pc'[i] \notin {"idle", "spawned"} /\ pc[i] \notin {"idle", "spawned"}
    BY <1>4
    DEF Goroutine, TakePort, WriteConfig, WriteFails, Launch, LaunchFails,
        Register, PortOpens, PortStaysClosed, Answered, Unanswered, RequestsFail,
        KillGroup, Reaped, KillTimesOut, Return, Goto, IInv, TypeOK
  <2>3. \A j \in Configs : pc'[j] \in {"idle", "spawned"} <=> pc[j] \in {"idle", "spawned"}
    BY <1>0, <2>2
  <2> QED BY <1>0, <1>1, <1>2, <2>1, <2>3, AccountSame
<1> QED BY <1>3, <1>4

(* The batch in order: what the tally goes through. *)
LEMMA BatchInOrder ==
  ASSUME first \in Nat, first < NumConfigs
  PROVE  /\ InBatchOrder \in Seq(Configs) /\ Distinct(InBatchOrder)
         /\ Elements(InBatchOrder) = Batch
         /\ UpTo(first) \in Seq(Configs)
         /\ UpTo(first) \o InBatchOrder = UpTo(first + BatchLen)
<1>1. /\ BatchLen \in Nat /\ first + BatchLen <= NumConfigs
      /\ Batch = first .. first + BatchLen - 1
  BY BatchIsInterval
<1>2. \A k \in 1 .. BatchLen : first + k - 1 \in Configs
  BY <1>1, BatchAssumption DEF Configs
<1>3. /\ InBatchOrder \in Seq(Configs) /\ Len(InBatchOrder) = BatchLen
      /\ \A k \in 1 .. BatchLen : InBatchOrder[k] = first + k - 1
  <2>1. [k \in 1 .. BatchLen |-> first + k - 1] \in Seq(Configs) BY <1>1, <1>2, IsASeq
  <2> QED BY <1>1, <2>1 DEF InBatchOrder
<1>4. Distinct(InBatchOrder) BY <1>1, <1>3 DEF Distinct
<1>5. Elements(InBatchOrder) = Batch
  <2>1. \A j \in Batch : j - first + 1 \in 1 .. BatchLen /\ InBatchOrder[j - first + 1] = j
    BY <1>1, <1>3
  <2>2. \A k \in 1 .. BatchLen : InBatchOrder[k] \in Batch BY <1>1, <1>3
  <2> QED BY <1>3, <2>1, <2>2 DEF Elements
<1>6. /\ UpTo(first) \in Seq(Configs) /\ Len(UpTo(first)) = first
      /\ \A k \in 1 .. first : UpTo(first)[k] = k - 1
  <2>1. UpTo(first) \in Seq(0 .. first - 1) /\ Len(UpTo(first)) = first
        /\ \A k \in 1 .. first : UpTo(first)[k] = k - 1
    BY UpToType
  <2>2. 0 .. first - 1 \subseteq Configs BY BatchAssumption DEF Configs
  <2> QED BY <2>1, <2>2, SeqMonotonic
<1>7. UpTo(first) \o InBatchOrder = UpTo(first + BatchLen)
  <2> DEFINE c == UpTo(first) \o InBatchOrder
             u == UpTo(first + BatchLen)
  <2>1. /\ c \in Seq(Configs) /\ Len(c) = first + BatchLen
        /\ \A k \in 1 .. first + BatchLen :
             c[k] = IF k <= first THEN UpTo(first)[k] ELSE InBatchOrder[k - first]
    <3> DEFINE a == UpTo(first)
               b == InBatchOrder
    <3>1. a \in Seq(Configs) /\ b \in Seq(Configs) /\ Len(a) = first /\ Len(b) = BatchLen
      BY <1>3, <1>6
    <3> HIDE DEF a, b
    <3>2. /\ a \o b \in Seq(Configs) /\ Len(a \o b) = Len(a) + Len(b)
          /\ \A k \in 1 .. Len(a) + Len(b) :
               (a \o b)[k] = IF k <= Len(a) THEN a[k] ELSE b[k - Len(a)]
      BY <3>1, ConcatProperties
    <3> QED BY <3>1, <3>2 DEF a, b
  <2>2. /\ u \in Seq(0 .. first + BatchLen - 1) /\ Len(u) = first + BatchLen
        /\ \A k \in 1 .. first + BatchLen : u[k] = k - 1
    BY <1>1, UpToType
  <2>3. \A k \in 1 .. first + BatchLen : c[k] = u[k]
    <3> TAKE k \in 1 .. first + BatchLen
    <3>1. CASE k <= first
      <4>1. k \in 1 .. first BY <3>1
      <4> HIDE DEF c, u
      <4> QED BY <1>6, <2>1, <2>2, <3>1, <4>1
    <3>2. CASE ~(k <= first)
      <4>1. k - first \in 1 .. BatchLen BY <1>1, <3>2
      <4>2. InBatchOrder[k - first] = k - 1 BY <1>3, <4>1
      <4> HIDE DEF c, u
      <4> QED BY <2>1, <2>2, <3>2, <4>2
    <3> QED BY <3>1, <3>2
  <2>4. u \in Seq(Int) /\ c \in Seq(Int)
    <3>1. 0 .. first + BatchLen - 1 \subseteq Int /\ Configs \subseteq Int
      BY <1>1, BatchAssumption DEF Configs
    <3> HIDE DEF c, u
    <3> QED BY <2>1, <2>2, <3>1, SeqMonotonic
  <2> HIDE DEF c, u
  <2>5. c = u BY <2>1, <2>2, <2>3, <2>4, SeqEqual
  <2> QED BY <2>5 DEF c, u
<1> QED BY <1>3, <1>4, <1>5, <1>6, <1>7

LEMMA DisjointUnion ==
  ASSUME NEW A, NEW B, IsFiniteSet(A), IsFiniteSet(B), A \cap B = {}
  PROVE  /\ IsFiniteSet(A \cup B)
         /\ Cardinality(A \cup B) = Cardinality(A) + Cardinality(B)
         /\ Cardinality(A) \in Nat /\ Cardinality(B) \in Nat
<1>1. /\ IsFiniteSet(A \cup B)
      /\ Cardinality(A \cup B) = Cardinality(A) + Cardinality(B) - Cardinality(A \cap B)
  BY FS_Union
<1>2. Cardinality(A \cap B) = 0 BY FS_EmptySet
<1>3. Cardinality(A) \in Nat /\ Cardinality(B) \in Nat BY FS_CardinalityType
<1> QED BY <1>1, <1>2, <1>3

(* Every config of the batch is in one of the four counters. *)
LEMMA BatchIsCounted ==
  ASSUME IsFiniteSet(Batch)
  PROVE  LET C(c) == Cardinality({i \in Batch : Counter(res[i]) = c})
         IN  /\ \A c \in {"passed", "parse", "start", "conn"} : C(c) \in Nat
             /\ C("passed") + C("parse") + C("start") + C("conn") = Cardinality(Batch)
<1> DEFINE A == {i \in Batch : Counter(res[i]) = "passed"}
           B == {i \in Batch : Counter(res[i]) = "parse"}
           C == {i \in Batch : Counter(res[i]) = "start"}
           D == {i \in Batch : Counter(res[i]) = "conn"}
<1>1. \A i \in Batch : Counter(res[i]) \in {"passed", "parse", "start", "conn"}
  BY DEF Counter
<1>2. /\ Batch = ((A \cup B) \cup C) \cup D
      /\ A \cap B = {} /\ (A \cup B) \cap C = {} /\ ((A \cup B) \cup C) \cap D = {}
  BY <1>1
<1>3. IsFiniteSet(A) /\ IsFiniteSet(B) /\ IsFiniteSet(C) /\ IsFiniteSet(D)
  BY FS_Subset
<1> HIDE DEF A, B, C, D
<1>4. /\ IsFiniteSet(A \cup B)
      /\ Cardinality(A \cup B) = Cardinality(A) + Cardinality(B)
      /\ Cardinality(A) \in Nat /\ Cardinality(B) \in Nat
  BY <1>2, <1>3, DisjointUnion
<1>5. /\ IsFiniteSet((A \cup B) \cup C)
      /\ Cardinality((A \cup B) \cup C) = Cardinality(A \cup B) + Cardinality(C)
      /\ Cardinality(C) \in Nat
  BY <1>2, <1>3, <1>4, DisjointUnion
<1>6. /\ Cardinality(((A \cup B) \cup C) \cup D) = Cardinality((A \cup B) \cup C) + Cardinality(D)
      /\ Cardinality(D) \in Nat
  BY <1>2, <1>3, <1>5, DisjointUnion
<1>7. Cardinality(Batch) = Cardinality(A) + Cardinality(B) + Cardinality(C) + Cardinality(D)
  BY <1>2, <1>4, <1>5, <1>6
<1>8. \A c \in {"passed", "parse", "start", "conn"} :
         Cardinality({i \in Batch : Counter(res[i]) = c}) \in Nat
  BY <1>4, <1>5, <1>6 DEF A, B, C, D
<1> QED BY <1>7, <1>8 DEF A, B, C, D

LEMMA AccountTally ==
  ASSUME IInv, FifoInv, AccountInv, Tally
  PROVE  AccountInv'
<1>1. first \in Nat /\ first < NumConfigs /\ mpc = "tally"
  <2>1. first \in Nat /\ mpc = "tally" BY DEF IInv, TypeOK, Tally
  <2> QED BY <2>1, BatchAssumption DEF FifoInv, EndsAtEnd
<1>2. /\ Batch = first .. first + BatchLen - 1 /\ BatchLen \in Nat
      /\ IsFiniteSet(Batch) /\ Cardinality(Batch) = BatchLen
  BY <1>1, BatchIsInterval
<1>3. Upto = first /\ Upto' = first + BatchLen
  BY <1>1, BatchAssumption DEF Upto, BatchLen, Tally
<1>4. UNCHANGED <<tested, pc, res>> /\ mpc' \in {"done", "batch"} BY DEF Tally, localVars
<1>5. JoinedInv' BY <1>4 DEF JoinedInv
<1>6. TestedInv'
  <2>1. Parsed = Batch BY <1>1 DEF AccountInv, JoinedInv, Parsed
  <2>2. tested = first + BatchLen BY <1>2, <1>3, <2>1 DEF AccountInv, TestedInv
  <2>3. Parsed' = {}
    <3> SUFFICES ASSUME NEW j \in Batch' PROVE pc'[j] = "idle" BY DEF Parsed
    <3>1. j \in Configs /\ j \in Nat /\ ~(j < first + BatchSize)
      BY <1>1, BatchAssumption DEF Batch, Tally, Configs
    <3>2. ~(j < first) BY <1>1, <3>1, BatchAssumption
    <3> QED BY <1>4, <3>1, <3>2 DEF IInv, Control, Started
  <2>4. Cardinality(Parsed') = 0 BY <2>3, FS_EmptySet
  <2> QED BY <1>1, <1>2, <1>3, <1>4, <2>2, <2>4 DEF TestedInv
<1> DEFINE new == Select(InBatchOrder, Passing)
<1>7. /\ InBatchOrder \in Seq(Configs) /\ Distinct(InBatchOrder)
      /\ Elements(InBatchOrder) = Batch /\ UpTo(first) \in Seq(Configs)
      /\ UpTo(first) \o InBatchOrder = UpTo(first + BatchLen)
  BY <1>1, BatchInOrder
<1>8. published = Select(UpTo(first), Passing) /\ published' = published \o new
  BY <1>3 DEF AccountInv, PublishedInv, Tally
<1>9. PublishedInv'
  <2>1. Select(UpTo(first) \o InBatchOrder, Passing) = Select(UpTo(first), Passing) \o new
    BY <1>7, SelectConcat
  <2>2. Passing' = Passing BY <1>4 DEF Passing
  <2>3. published' = Select(UpTo(first + BatchLen), Passing) BY <1>7, <1>8, <2>1
  <2>4. UpTo(Upto)' = UpTo(first + BatchLen) BY <1>3 DEF UpTo
  <2> QED BY <2>2, <2>3, <2>4 DEF PublishedInv
<1>10. Len(published') = Len(published) + Cardinality({i \in Batch : Counter(res[i]) = "passed"})
       /\ Len(published) \in Nat
  <2>1. Len(new) = Cardinality(Batch \cap Passing) BY <1>7, SelectLen
  <2>2. Batch \cap Passing = {i \in Batch : Counter(res[i]) = "passed"}
    BY DEF Passing, Counter, Batch
  <2>3. published \in Seq(Configs \cap Passing) /\ new \in Seq(Configs \cap Passing)
    BY <1>7, <1>8, SelectType
  <2>4. Len(published \o new) = Len(published) + Len(new) /\ Len(published) \in Nat
    <3> DEFINE Q == Configs \cap Passing
    <3> HIDE DEF Q, new
    <3>1. published \in Seq(Q) /\ new \in Seq(Q) BY <2>3 DEF Q
    <3> QED BY <3>1, ConcatProperties, LenProperties
  <2> QED BY <1>8, <2>1, <2>2, <2>4
<1>11. CountedInv'
  <2> DEFINE C(c) == Cardinality({i \in Batch : Counter(res[i]) = c})
  <2>1. /\ count'["passed"] = count["passed"] + C("passed")
        /\ count'["parse"] = count["parse"] + C("parse")
        /\ count'["start"] = count["start"] + C("start")
        /\ count'["conn"] = count["conn"] + C("conn")
    BY DEF Tally, IInv, TypeOK
  <2>2. /\ count["passed"] \in Nat /\ count["parse"] \in Nat
        /\ count["start"] \in Nat /\ count["conn"] \in Nat
    BY DEF IInv, TypeOK
  <2>3. /\ C("passed") \in Nat /\ C("parse") \in Nat /\ C("start") \in Nat /\ C("conn") \in Nat
        /\ C("passed") + C("parse") + C("start") + C("conn") = BatchLen
    BY <1>2, BatchIsCounted
  <2>4. count["passed"] + count["parse"] + count["start"] + count["conn"] = first
        /\ count["passed"] = Len(published)
    BY <1>3 DEF AccountInv, CountedInv
  <2> HIDE DEF C
  <2>5. count'["passed"] = Len(published') BY <1>10, <2>1, <2>4 DEF C
  <2>6. \A p, q, r, s, w, x, y, z \in Nat :
          (p + w) + (q + x) + (r + y) + (s + z) = (p + q + r + s) + (w + x + y + z)
    OBVIOUS
  <2>7. (count["passed"] + C("passed")) + (count["parse"] + C("parse"))
          + (count["start"] + C("start")) + (count["conn"] + C("conn"))
        = (count["passed"] + count["parse"] + count["start"] + count["conn"])
          + (C("passed") + C("parse") + C("start") + C("conn"))
    BY <2>2, <2>3, <2>6
  <2>8. count'["passed"] + count'["parse"] + count'["start"] + count'["conn"] = first + BatchLen
    BY <2>1, <2>3, <2>4, <2>7, Zenon
  <2> QED BY <1>3, <2>5, <2>8 DEF CountedInv
<1> QED BY <1>5, <1>6, <1>9, <1>11 DEF AccountInv

LEMMA AccountMain ==
  ASSUME IInv, FifoInv, AccountInv, Main
  PROVE  AccountInv'
<1>1. CASE StartBatch
  <2>1. /\ UNCHANGED <<first, tested, count, published, res>> /\ mpc = "batch" /\ mpc' = "join"
        /\ pc' = [i \in Configs |-> IF i \in Batch THEN "spawned" ELSE pc[i]]
    BY <1>1 DEF StartBatch, localVars
  <2>2. \A j \in Batch : pc[j] = "idle"
    <3> TAKE j \in Batch
    <3>1. first \in Nat /\ j \in Nat /\ j \in Configs /\ first <= j
      BY BatchAssumption DEF IInv, TypeOK, Batch, Configs
    <3>2. ~(j < first) BY <3>1
    <3> QED BY <2>1, <3>1, <3>2 DEF IInv, Control, Started
  <2>3. \A j \in Configs : pc'[j] \in {"idle", "spawned"} <=> pc[j] \in {"idle", "spawned"}
    BY <2>1, <2>2
  <2> QED BY <2>1, <2>3, AccountSame DEF JoinedInv
<1>2. CASE Join \/ SweepEnds
  <2>1. UNCHANGED <<first, tested, count, published, res, pc>>
    BY <1>2 DEF Join, SweepEnds, localVars
  <2>2. JoinedInv' BY <1>2, <2>1 DEF Join, SweepEnds, Joined, AccountInv, JoinedInv, Batch
  <2> QED BY <2>1, <2>2, AccountSame
<1> QED BY <1>1, <1>2, AccountTally DEF Main

THEOREM AccountInvariant == Spec => []AccountInv
<1>1. Init => AccountInv BY AccountInit
<1>2. ASSUME IInv, FifoInv, AccountInv, [Next]_vars PROVE AccountInv'
  <2>1. CASE UNCHANGED vars
    <3>1. UNCHANGED <<mpc, first, tested, count, published, res, pc>>
      BY <2>1 DEF vars, mainVars, localVars
    <3>2. JoinedInv' BY <1>2, <3>1 DEF AccountInv, JoinedInv, Batch
    <3> QED BY <1>2, <3>1, <3>2, AccountSame
  <2>2. ASSUME NEW i \in Configs, Sweeper(i) \/ System(i) PROVE AccountInv'
    <3>1. UNCHANGED <<mpc, first, tested, count, published, res, pc>>
      BY <2>2 DEF Sweeper, System, SweepSignal, SweepReaped, SweepTimesOut, Bind, Exit,
                  WaitReturns, ContextExpires, mainVars, localVars
    <3>2. JoinedInv' BY <1>2, <3>1 DEF AccountInv, JoinedInv, Batch
    <3> QED BY <1>2, <3>1, <3>2, AccountSame
  <2> QED BY <1>2, <2>1, <2>2, AccountGoroutine, AccountMain DEF Next, Finished
<1> QED BY <1>1, <1>2, IInvInvariant, FifoInvariant, PTL DEF Spec

(* Between batches the published list and the counters are exactly those   *)
(* of the configs tested so far.                                           *)
THEOREM AccountsBalance == Spec => []Accounted
<1>1. ASSUME IInv, FifoInv, AccountInv PROVE Accounted
  <2> SUFFICES ASSUME mpc \in {"batch", "done"} PROVE
        /\ tested = Upto
        /\ published = Select(UpTo(Upto), Passing)
        /\ count["passed"] = Len(published)
        /\ count["passed"] + count["parse"] + count["start"] + count["conn"] = Upto
    BY DEF Accounted, Upto, UpTo
  <2>1. Parsed = {}
    <3> SUFFICES ASSUME NEW j \in Batch PROVE pc[j] = "idle" BY DEF Parsed
    <3>1. first \in Nat /\ j \in Nat /\ j \in Configs /\ first <= j /\ j < NumConfigs
      BY <1>1, BatchAssumption DEF IInv, TypeOK, Batch, Configs
    <3>2. mpc = "batch" BY <1>1, <3>1, BatchAssumption DEF FifoInv, EndsAtEnd
    <3>3. ~(j < first) BY <3>1
    <3> QED BY <1>1, <3>1, <3>2, <3>3 DEF IInv, Control, Started
  <2>2. Cardinality(Parsed) = 0 BY <2>1, FS_EmptySet
  <2>3. Upto \in Nat BY <1>1, BatchAssumption DEF Upto, IInv, TypeOK
  <2> QED BY <1>1, <2>2, <2>3 DEF AccountInv, TestedInv, PublishedInv, CountedInv
<1> QED BY <1>1, IInvInvariant, FifoInvariant, AccountInvariant, PTL

-----------------------------------------------------------------------------
(***************************************************************************)
(* The goroutines and processes implement TestBatches. TestsInv is what    *)
(* the refinement needs besides IInv, FifoInv and AccountInv: a goroutine  *)
(* past its verdict has a result and one that asks for a port has an       *)
(* outbound; the configs before the batch are done; each counter is the    *)
(* number of their results that belong to it.                              *)
(***************************************************************************)

Judged == \A i \in Configs :
   /\ pc[i] \notin Undecided => res[i] # "none"
   /\ pc[i] \notin {"idle", "spawned", "done"} => i \notin Unparsable
Handled == \A i \in Configs : i < first => pc[i] = "done"
CountsAnew == \A c \in Tests!Counters : count[c] = Cardinality(Tests!CountedAs(c, first))

TestsInv == Judged /\ Handled /\ CountsAnew

USE DEF Configs, Tests!Configs

(* The two ways to say which counter a result belongs to. *)
LEMMA CounterIsCause ==
  ASSUME NEW r \in Results, r # "none", NEW c \in Tests!Counters
  PROVE  Counter(r) = c <=> r \in Tests!Causes(c)
BY DEF Counter, Results, Tests!Causes, Tests!Counters

LEMMA NoneIsNoCause ==
  ASSUME NEW c \in Tests!Counters
  PROVE  "none" \notin Tests!Causes(c)
BY DEF Tests!Causes, Tests!Counters

LEMMA TestsInit == Init => TestsInv
<1> SUFFICES ASSUME Init PROVE TestsInv OBVIOUS
<1>1. Judged BY DEF Init, Judged, Undecided
<1>2. Handled
  <2>1. first = 0 BY DEF Init
  <2> QED BY <2>1, BatchAssumption DEF Handled
<1>3. CountsAnew
  <2> SUFFICES ASSUME NEW c \in Tests!Counters
               PROVE  count[c] = Cardinality(Tests!CountedAs(c, first))
    BY DEF CountsAnew
  <2>1. count[c] = 0 BY DEF Init, Tests!Counters
  <2>2. \A i \in Configs : res[i] = "none" BY DEF Init
  <2>3. Tests!CountedAs(c, first) = {}
    BY <2>2, NoneIsNoCause DEF Tests!CountedAs
  <2> QED BY <2>1, <2>3, FS_EmptySet
<1> QED BY <1>1, <1>2, <1>3 DEF TestsInv

(* Steps that give no verdict, or one to a config of the batch. *)
LEMMA CountsSame ==
  ASSUME CountsAnew, UNCHANGED <<first, count>>,
         \A j \in Configs : j < first => res'[j] = res[j]
  PROVE  CountsAnew'
<1>1. \A c \in Tests!Counters : Tests!CountedAs(c, first)' = Tests!CountedAs(c, first)
  BY DEF Tests!CountedAs
<1> QED BY <1>1 DEF CountsAnew

(* A step of a goroutine is invisible or gives its config a result.        *)
LEMMA GoroutineJudges ==
  ASSUME IInv, TestsInv, NEW i \in Configs, Goroutine(i)
  PROVE  /\ UNCHANGED <<first, count, published>>
         /\ res' = res \/ Tests!Judge(i)
         /\ Judged'
<1>0. /\ mpc = "join" /\ i \in Batch /\ pc \in [Configs -> Labels]
      /\ res \in [Configs -> Results] /\ first \in Nat
  BY GoroutineControl DEF IInv, Control, InItsBatch, TypeOK
<1>1. UNCHANGED <<first, count, published>>
  BY DEF Goroutine, Parse, TakePort, WriteConfig, WriteFails, Launch, LaunchFails,
         Register, PortOpens, PortStaysClosed, Answered, Unanswered, RequestsFail,
         KillGroup, Reaped, KillTimesOut, Return, mainVars
<1>2. first <= i /\ i < first + BatchSize BY <1>0 DEF Batch
<1>3. ASSUME pc[i] \in Undecided,
             NEW r \in IF i \in Unparsable THEN {"PARSE"} ELSE Tests!Tested,
             res' = [res EXCEPT ![i] = r]
      PROVE  Tests!Judge(i) /\ r # "none"
  <2>1. res[i] = "none" BY <1>3 DEF IInv, PassInv, Fresh
  <2> QED BY <1>1, <1>2, <1>3, <2>1 DEF Tests!Judge, Tests!Tested
<1>4. CASE Parse(i)
  <2>1. CASE i \in Unparsable
    <3>1. res' = [res EXCEPT ![i] = "PARSE"] /\ pc' = [pc EXCEPT ![i] = "done"]
          /\ pc[i] \in Undecided
      BY <1>4, <2>1 DEF Parse, Verdict, Goto, Undecided
    <3>2. Tests!Judge(i) BY <1>3, <2>1, <3>1
    <3>3. Judged' BY <1>0, <3>1 DEF TestsInv, Judged
    <3> QED BY <1>1, <3>2, <3>3
  <2>2. CASE i \notin Unparsable
    <3>1. res' = res /\ pc' = [pc EXCEPT ![i] = "take"]
      BY <1>4, <2>2 DEF Parse, Goto
    <3>2. Judged' BY <1>0, <2>2, <3>1 DEF TestsInv, Judged, Undecided
    <3> QED BY <1>1, <3>1, <3>2
  <2> QED BY <2>1, <2>2
<1>5. CASE WriteFails(i) \/ LaunchFails(i) \/ PortStaysClosed(i) \/ Answered(i) \/ RequestsFail(i)
  <2> DEFINE R == {"FILE", "START", "SINGBOX_START", "PASS", "CONN"}
  <2>1. /\ pc[i] \in {"write", "launch", "wait", "http"}
        /\ \E r \in R : res' = [res EXCEPT ![i] = r]
        /\ \E l \in {"return", "kill"} : pc' = [pc EXCEPT ![i] = l]
    BY <1>5 DEF WriteFails, LaunchFails, PortStaysClosed, Answered, RequestsFail, Verdict, Goto
  <2>2. PICK r \in R : res' = [res EXCEPT ![i] = r] BY <2>1
  <2>3. PICK l \in {"return", "kill"} : pc' = [pc EXCEPT ![i] = l] BY <2>1
  <2>4. i \notin Unparsable BY <2>1 DEF TestsInv, Judged
  <2>5. pc[i] \in Undecided /\ r \in Tests!Tested BY <2>1 DEF Undecided, Tests!Tested
  <2>6. Tests!Judge(i) /\ r # "none" BY <1>3, <2>2, <2>4, <2>5
  <2>7. Judged' BY <1>0, <2>2, <2>3, <2>4, <2>6 DEF TestsInv, Judged
  <2> QED BY <1>1, <2>6, <2>7
<1>6. CASE TakePort(i) \/ WriteConfig(i) \/ Launch(i) \/ Register(i) \/ PortOpens(i)
  <2>1. /\ res' = res /\ pc[i] \in {"take", "write", "launch", "register", "wait"}
        /\ \E l \in {"write", "launch", "register", "wait", "http"} : pc' = [pc EXCEPT ![i] = l]
    BY <1>6 DEF TakePort, WriteConfig, Launch, Register, PortOpens, Goto, localVars
  <2>2. PICK l \in {"write", "launch", "register", "wait", "http"} : pc' = [pc EXCEPT ![i] = l]
    BY <2>1
  <2>3. Judged' BY <1>0, <2>1, <2>2 DEF TestsInv, Judged, Undecided
  <2> QED BY <1>1, <2>1, <2>3
<1>7. CASE KillGroup(i) \/ Reaped(i) \/ KillTimesOut(i) \/ Return(i)
  <2>1. /\ res' = res /\ pc[i] \in {"kill", "reap", "return"}
        /\ \E l \in {"reap", "return", "done"} : pc' = [pc EXCEPT ![i] = l]
    BY <1>7 DEF KillGroup, Reaped, KillTimesOut, Return, Goto, localVars
  <2>2. PICK l \in {"reap", "return", "done"} : pc' = [pc EXCEPT ![i] = l] BY <2>1
  <2>3. Judged' BY <1>0, <2>1, <2>2 DEF TestsInv, Judged, Undecided
  <2> QED BY <1>1, <2>1, <2>3
<1>8. CASE Unanswered(i)
  <2>1. res' = res /\ pc' = pc BY <1>8 DEF Unanswered
  <2>2. Judged' BY <2>1 DEF TestsInv, Judged
  <2> QED BY <1>1, <2>1, <2>2
<1> QED BY <1>4, <1>5, <1>6, <1>7, <1>8 DEF Goroutine

LEMMA TestsGoroutine ==
  ASSUME IInv, TestsInv, NEW i \in Configs, Goroutine(i)
  PROVE  TestsInv'
<1>1. UNCHANGED <<first, count>> /\ (res' = res \/ Tests!Judge(i)) /\ Judged'
  BY GoroutineJudges
<1>2. /\ i \in Batch /\ first \in Nat /\ \A j \in Configs : j # i => pc'[j] = pc[j]
  BY GoroutineControl DEF IInv, Control, InItsBatch, TypeOK
<1>3. i \in Nat /\ ~(i < first) BY <1>2, BatchAssumption DEF Batch
<1>4. Handled' BY <1>1, <1>2, <1>3 DEF TestsInv, Handled
<1>5. \A j \in Configs : j < first => res'[j] = res[j]
  BY <1>1, <1>3 DEF Tests!Judge, IInv, TypeOK
<1>6. CountsAnew' BY <1>1, <1>5, CountsSame DEF TestsInv
<1> QED BY <1>1, <1>4, <1>6 DEF TestsInv

(* When a batch is tallied all its configs and those before are judged.    *)
LEMMA TallyWhenJudged ==
  ASSUME IInv, AccountInv, TestsInv, Tally, NEW j \in Configs, j < first + BatchSize
  PROVE  pc[j] = "done" /\ res[j] # "none"
<1>1. first \in Nat /\ j \in Nat /\ mpc = "tally"
  BY BatchAssumption DEF IInv, TypeOK, Tally
<1>2. CASE j < first BY <1>2 DEF TestsInv, Handled, Judged, Undecided
<1>3. CASE ~(j < first)
  <2>1. j \in Batch BY <1>1, <1>3 DEF Batch
  <2> QED BY <1>1, <2>1 DEF AccountInv, JoinedInv, TestsInv, Judged, Undecided
<1> QED BY <1>2, <1>3

LEMMA CountsTally ==
  ASSUME IInv, AccountInv, TestsInv, Tally, NEW c \in Tests!Counters
  PROVE  count'[c] = Cardinality(Tests!CountedAs(c, first + BatchSize))
<1> DEFINE Old == Tests!CountedAs(c, first)
           New == {i \in Batch : Counter(res[i]) = c}
<1>1. first \in Nat /\ res \in [Configs -> Results] /\ c \in DOMAIN count
  BY DEF IInv, TypeOK, Tests!Counters
<1>2. \A i \in Configs : i < first + BatchSize => (Counter(res[i]) = c <=> res[i] \in Tests!Causes(c))
  BY <1>1, TallyWhenJudged, CounterIsCause
<1>3. Tests!CountedAs(c, first + BatchSize) = Old \cup New
  BY <1>1, <1>2, BatchAssumption DEF Tests!CountedAs, Batch
<1>4. Old \cap New = {}
  BY <1>1, BatchAssumption DEF Tests!CountedAs, Batch
<1>5. IsFiniteSet(Old) /\ IsFiniteSet(New)
  <2>1. IsFiniteSet(Configs) BY BatchAssumption, FS_Interval
  <2>2. Old \in SUBSET Configs /\ New \in SUBSET Configs
    BY DEF Tests!CountedAs, Batch
  <2> HIDE DEF Old, New
  <2> QED BY <2>1, <2>2, FS_Subset
<1>6. Cardinality(Old \cup New) = Cardinality(Old) + Cardinality(New)
  <2> HIDE DEF Old, New
  <2> QED BY <1>4, <1>5, DisjointUnion
<1>7. count[c] = Cardinality(Old) BY DEF TestsInv, CountsAnew
<1>8. count'[c] = count[c] + Cardinality(New) BY <1>1 DEF Tally
<1> HIDE DEF Old, New
<1> QED BY <1>3, <1>6, <1>7, <1>8

LEMMA TestsTally ==
  ASSUME IInv, FifoInv, AccountInv, TestsInv, Tally
  PROVE  TestsInv'
<1>1. UNCHANGED <<pc, res>> /\ first' = first + BatchSize BY DEF Tally, localVars
<1>2. Judged' BY <1>1 DEF TestsInv, Judged
<1>3. Handled' BY <1>1, TallyWhenJudged DEF Handled
<1>4. CountsAnew'
  <2>1. \A c \in Tests!Counters :
          Tests!CountedAs(c, first)' = Tests!CountedAs(c, first + BatchSize)
    BY <1>1 DEF Tests!CountedAs
  <2> QED BY <2>1, CountsTally DEF CountsAnew
<1> QED BY <1>2, <1>3, <1>4 DEF TestsInv

LEMMA TestsSame ==
  ASSUME TestsInv, UNCHANGED <<first, count, res, pc>>
  PROVE  TestsInv'
<1>1. CountsAnew' BY CountsSame DEF TestsInv
<1>2. Judged' /\ Handled' BY DEF TestsInv, Judged, Handled
<1> QED BY <1>1, <1>2 DEF TestsInv

THEOREM TestsInvariant == Spec => []TestsInv
<1>1. Init => TestsInv BY TestsInit
<1>2. ASSUME IInv, FifoInv, AccountInv, TestsInv, [Next]_vars PROVE TestsInv'
  <2>1. CASE UNCHANGED vars
    <3>1. UNCHANGED <<first, count, res, pc>> BY <2>1 DEF vars, mainVars, localVars
    <3> QED BY <1>2, <3>1, TestsSame
  <2>2. ASSUME NEW i \in Configs, Sweeper(i) \/ System(i) PROVE TestsInv'
    <3>1. UNCHANGED <<first, count, res, pc>>
      BY <2>2 DEF Sweeper, System, SweepSignal, SweepReaped, SweepTimesOut, Bind, Exit,
                  WaitReturns, ContextExpires, mainVars, localVars
    <3> QED BY <1>2, <3>1, TestsSame
  <2>3. CASE StartBatch
    <3>1. /\ UNCHANGED <<first, count, res>>
          /\ pc' = [i \in Configs |-> IF i \in Batch THEN "spawned" ELSE pc[i]]
      BY <2>3 DEF StartBatch, localVars
    <3>2. CountsAnew' BY <1>2, <3>1, CountsSame DEF TestsInv
    <3>3. Judged' BY <1>2, <3>1 DEF TestsInv, Judged, Undecided
    <3>4. Handled'
      <4>1. first \in Nat BY <1>2 DEF IInv, TypeOK
      <4>2. \A j \in Configs : j < first => j \notin Batch
        BY <4>1, BatchAssumption DEF Batch
      <4> QED BY <1>2, <3>1, <4>2 DEF TestsInv, Handled
    <3> QED BY <3>2, <3>3, <3>4 DEF TestsInv
  <2>4. CASE Join \/ SweepEnds
    <3>1. UNCHANGED <<first, count, res, pc>> BY <2>4 DEF Join, SweepEnds, localVars
    <3> QED BY <1>2, <3>1, TestsSame
  <2> QED BY <1>2, <2>1, <2>2, <2>3, <2>4, TestsGoroutine, TestsTally
        DEF Next, Main, Finished
<1> QED BY <1>1, <1>2, IInvInvariant, FifoInvariant, AccountInvariant, PTL DEF Spec

LEMMA SelectOfTests ==
  ASSUME NEW s, NEW kept
  PROVE  Tests!Select(s, kept) = Select(s, kept)
BY DEF Select, Tests!Select

LEMMA CardinalityOfTests ==
  ASSUME NEW S
  PROVE  Tests!Cardinality(S) = Cardinality(S)
BY DEF Cardinality, Tests!Cardinality, IsFiniteSet, Tests!IsFiniteSet

(* Goroutines, ports, processes and late kills give what validateAll       *)
(* promises of a protocol's configs: each step is a verdict for one config *)
(* of the batch, the tally of a batch that has all its results, or         *)
(* invisible.                                                              *)
THEOREM BatchesImplementTests == Spec => Tests!Init /\ [][Tests!Next]_(Tests!vars)
<1>1. ASSUME Init PROVE Tests!Init
  BY <1>1 DEF Init, Tests!Init, Tests!Counters
<1>2. ASSUME IInv, FifoInv, AccountInv, TestsInv, [Next]_vars
      PROVE  [Tests!Next]_(Tests!vars)
  <2> USE DEF Tests!vars
  <2>1. CASE UNCHANGED <<res, first, count, published>> BY <2>1
  <2>2. ASSUME NEW i \in Configs, Goroutine(i) PROVE [Tests!Next]_(Tests!vars)
    <3>1. UNCHANGED <<first, count, published>> /\ (res' = res \/ Tests!Judge(i))
      BY <1>2, <2>2, GoroutineJudges
    <3> QED BY <3>1 DEF Tests!Next
  <2>3. CASE Tally
    <3>1. first \in Nat /\ first < NumConfigs /\ first' = first + BatchSize /\ res' = res
      <4>1. first \in Nat /\ mpc = "tally" BY <1>2, <2>3 DEF IInv, TypeOK, Tally
      <4>2. first' = first + BatchSize /\ res' = res BY <2>3 DEF Tally, localVars
      <4> QED BY <1>2, <4>1, <4>2, BatchAssumption DEF FifoInv, EndsAtEnd
    <3>2. \A i \in Configs : i < first + BatchSize => res[i] # "none"
      BY <1>2, <2>3, TallyWhenJudged
    <3>3. published' = Tests!Select(Tests!InOrder(Tests!Below(first + BatchSize)), Tests!Passing)
      <4>1. PublishedInv' BY <1>2, <2>3, AccountTally DEF AccountInv
      <4>2. Upto' = Tests!Below(first + BatchSize) BY <3>1 DEF Upto, Tests!Below
      <4>3. Passing' = Tests!Passing BY <3>1 DEF Passing, Tests!Passing
      <4>4. published' = Select(UpTo(Upto)', Passing') BY <4>1 DEF PublishedInv
      <4>5. UpTo(Upto)' = Tests!InOrder(Tests!Below(first + BatchSize))
        BY <4>2 DEF UpTo, Tests!InOrder
      <4> QED BY <4>3, <4>4, <4>5, SelectOfTests
    <3>4. count' = [c \in Tests!Counters |-> Cardinality(Tests!CountedAs(c, first + BatchSize))]
      <4>1. \A c \in Tests!Counters :
              count'[c] = Cardinality(Tests!CountedAs(c, first + BatchSize))
        BY <1>2, <2>3, CountsTally
      <4>2. count' = [c \in Tests!Counters |-> count'[c]]
        BY <1>2, <2>3 DEF Tally, IInv, TypeOK, Tests!Counters
      <4> QED BY <4>1, <4>2
    <3>5. Tests!Tally BY <3>1, <3>2, <3>3, <3>4, CardinalityOfTests DEF Tests!Tally
    <3> QED BY <3>5 DEF Tests!Next
  <2>4. StartBatch \/ Join \/ SweepEnds \/ UNCHANGED vars =>
          UNCHANGED <<res, first, count, published>>
    BY DEF StartBatch, Join, SweepEnds, vars, mainVars, localVars
  <2>5. ASSUME NEW i \in Configs, Sweeper(i) \/ System(i)
        PROVE  UNCHANGED <<res, first, count, published>>
    BY <2>5 DEF Sweeper, System, SweepSignal, SweepReaped, SweepTimesOut, Bind, Exit,
                WaitReturns, ContextExpires, mainVars, localVars
  <2> QED BY <1>2, <2>1, <2>2, <2>3, <2>4, <2>5 DEF Next, Main, Finished
<1> QED BY <1>1, <1>2, IInvInvariant, FifoInvariant, AccountInvariant, TestsInvariant,
     PTL DEF Spec
=============================================================================
