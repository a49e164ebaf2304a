----------------------------- MODULE PoolProofs -----------------------------
(* The daemon implements module ProcessPool, proved with TLAPS: each step of *)
(* each thread is one action of the pool, or one the pool does not see. The  *)
(* argument needs what LifeInv says of signals and deleted rows, and what    *)
(* UseInv says of idle processes. What the pool promises then shows that the *)
(* daemon exits only when all it told to end have ended (ExitInv).           *)
EXTENDS UseProofs

PoolInv == TypeInv /\ LifeInv /\ UseInv

PoolTypes == LifeTypes /\ hpid \in [Conn -> Pid \cup {NoPid}]

(* A step of the pool, or none. *)
PoolStep == [Pool!Next]_(Pool!poolVars)

-----------------------------------------------------------------------------
(* What the pool sees of a step. *)

(* The types the mapping needs follow from the type invariant. *)
LEMMA PoolInvTypes == PoolInv => PoolTypes
BY TypeInvLifeTypes DEF PoolInv, TypeInv, TypeOK, ConnTypeOK, PoolTypes

(* The thread that initialises a child goes on after it inserted the row. *)
IpcSame == \A p \in Pid : \/ ipc'[p] = ipc[p]
                          \/ ipc[p] \notin {"none", "add"} /\ ipc'[p] \notin {"none", "add"}

(* A step the pool does not see. *)
LEMMA PoolStutter ==
    ASSUME UNCHANGED <<os, plist, hpid>>, IpcSame
    PROVE  PoolStep
<1>1. UNCHANGED poolLife
      BY DEF poolLife
<1>2. UNCHANGED poolStage
      BY DEF poolStage, RowlessStage, IpcSame
<1> QED BY <1>1, <1>2 DEF PoolStep, Pool!poolVars

(* A step that leaves alone what the mapping is built from. *)
poolSeen == <<os, plist, ipc, hpid>>

(* The pool does not see such a step. *)
LEMMA PoolQuiet == UNCHANGED poolSeen => PoolStep
BY PoolStutter DEF poolSeen, IpcSame

(* fork() *)
LEMMA PoolFork ==
    ASSUME PoolTypes, LifeInv, NEW p \in Pid, Forked(p),
           ipc' = [ipc EXCEPT ![p] = "add"], UNCHANGED <<plist, hpid>>
    PROVE  PoolStep
<1>1. poolLife' = [poolLife EXCEPT ![p] = "running"]
      BY DEF poolLife, LifeOf, Forked, PoolTypes, LifeTypes
<1>2. poolStage' = [q \in Pid |-> IF q \in {p} THEN "starting" ELSE poolStage[q]]
      BY DEF poolStage, RowlessStage, Forked, PoolTypes, LifeTypes, LifeInv
<1>3. poolStage[p] = "none"
      BY DEF poolStage, RowlessStage, Forked, LifeInv
<1>4. Pool!Fork(p)
      BY <1>1, <1>2, <1>3 DEF Pool!Fork, Pool!Stage
<1> QED BY <1>4 DEF PoolStep, Pool!Next

(* Rows of a project move from the init list to the active list. *)
LEMMA PoolJoin ==
    ASSUME PoolTypes, NEW pr, MoveProjectList(pr, "init", "active"),
           UNCHANGED <<os, ipc, hpid>>
    PROVE  PoolStep
<1> DEFINE S == {p \in Pid : plist[p] = "init" /\ pproj[p] = pr}
<1>1. UNCHANGED poolLife
      BY DEF poolLife
<1>2. S \subseteq Pool!At({"starting"})
      BY DEF Pool!At, poolStage, StageOf
<1>3. poolStage' = [p \in Pid |-> IF p \in S THEN "serving" ELSE poolStage[p]]
      BY DEF MoveProjectList, poolStage, StageOf, RowlessStage, PoolTypes, LifeTypes
<1>4. Pool!Join(S)
      BY <1>1, <1>2, <1>3 DEF Pool!Join, Pool!Stage
<1> QED BY <1>4 DEF PoolStep, Pool!Next

(* Rows move to the shutdown list, those in it stay. *)
LEMMA PoolRetire ==
    ASSUME PoolTypes, NEW S \in SUBSET Pid,
           \A p \in S : plist[p] \in {"init", "active"},
           plist' = [p \in Pid |-> IF p \in S THEN "shutdown" ELSE plist[p]],
           UNCHANGED <<os, ipc, hpid>>
    PROVE  PoolStep
<1>1. UNCHANGED poolLife
      BY DEF poolLife
<1>2. S \subseteq Pool!At({"starting", "serving"})
      BY DEF Pool!At, poolStage, StageOf
<1>3. poolStage' = [p \in Pid |-> IF p \in S THEN "retiring" ELSE poolStage[p]]
      BY DEF poolStage, StageOf, RowlessStage, PoolTypes, LifeTypes
<1>4. Pool!Retire(S)
      BY <1>1, <1>2, <1>3 DEF Pool!Retire, Pool!Stage
<1> QED BY <1>4 DEF PoolStep, Pool!Next

(* All the processes of a project that are in one list are retired. *)
LEMMA PoolRetireList ==
    ASSUME PoolTypes, NEW pr, NEW from \in {"init", "active"},
           MoveProjectList(pr, from, "shutdown"), UNCHANGED <<os, ipc, hpid>>
    PROVE  PoolStep
<1> DEFINE S == {p \in Pid : plist[p] = from /\ pproj[p] = pr}
<1>1. plist' = [p \in Pid |-> IF p \in S THEN "shutdown" ELSE plist[p]]
      BY DEF MoveProjectList
<1>2. \A p \in S : plist[p] \in {"init", "active"}
      OBVIOUS
<1> HIDE DEF S
<1>3. S \in SUBSET Pid
      BY DEF S
<1> QED BY <1>1, <1>2, <1>3, PoolRetire

(* A connection takes an idle process of the active list. *)
LEMMA PoolLend ==
    ASSUME PoolTypes, UseInv, NEW h \in Conn, hpid[h] = NoPid, TakeIdle(h)
    PROVE  PoolStep
<1> PICK p \in Pid : /\ plist[p] = "active" /\ pstate[p] = "IDLE"
                     /\ hpid' = [hpid EXCEPT ![h] = p]
    BY DEF TakeIdle, IdleProcesses, InList
<1>1. UNCHANGED <<poolLife, poolStage>>
      BY DEF TakeIdle, db_process_set_state, poolLife, poolStage, RowlessStage, kernelVars,
             managerVars, initVars
<1>2. poolStage[p] = "serving"
      BY DEF poolStage, StageOf
<1>3. \A g \in Conn : hpid[g] # p
      BY DEF UseInv
<1>4. Pool!Lend(h, p)
      BY <1>1, <1>2, <1>3 DEF Pool!Lend
<1> QED BY <1>4 DEF PoolStep, Pool!Next

(* A connection gives its process back, or gives it up. *)
LEMMA PoolGiveBack ==
    ASSUME NEW h \in Conn, hpid' = [hpid EXCEPT ![h] = NoPid], UNCHANGED <<os, plist, ipc>>
    PROVE  PoolStep
<1>1. UNCHANGED <<poolLife, poolStage>>
      BY DEF poolLife, poolStage, RowlessStage
<1>2. Pool!GiveBack(h)
      BY <1>1 DEF Pool!GiveBack
<1> QED BY <1>2 DEF PoolStep, Pool!Next

(* SIGTERM *)
LEMMA PoolTell ==
    ASSUME PoolTypes, NEW p \in Pid, os[p] = "alive", plist[p] = "shutdown",
           os' = [os EXCEPT ![p] = "termed"], UNCHANGED <<plist, ipc, hpid>>
    PROVE  PoolStep
<1>1. \A q \in Pid : os'[q] = IF q = p THEN "termed" ELSE os[q]
      BY DEF PoolTypes, LifeTypes
<1>2. LifeOf["alive"] = "running" /\ LifeOf["termed"] = "told"
      BY DEF LifeOf
<1>3. poolLife[p] = "running"
      BY <1>2 DEF poolLife
<1>4. \A q \in Pid : poolLife'[q] = IF q = p THEN "told" ELSE poolLife[q]
      BY <1>1, <1>2 DEF poolLife
<1>5. poolLife' = [poolLife EXCEPT ![p] = "told"]
      BY <1>4 DEF poolLife
<1>6. UNCHANGED poolStage /\ poolStage[p] = "retiring"
      BY DEF poolStage, RowlessStage, StageOf
<1>7. Pool!Tell(p)
      BY <1>3, <1>5, <1>6 DEF Pool!Tell
<1> QED BY <1>7 DEF PoolStep, Pool!Next

(* A process ends, or gets SIGKILL; if it got that before nothing is new. *)
LEMMA PoolEnd ==
    ASSUME PoolTypes, NEW p \in Pid, NEW end \in {"killed", "dead"}, Exists(p),
           os' = [os EXCEPT ![p] = end], UNCHANGED <<plist, ipc, hpid>>
    PROVE  PoolStep
<1>1. UNCHANGED poolStage
      BY DEF poolStage, RowlessStage
<1>2. CASE os[p] = "killed"
  <2>1. \A q \in Pid : LifeOf[os'[q]] = LifeOf[os[q]]
        BY <1>2 DEF LifeOf, PoolTypes, LifeTypes
  <2>2. UNCHANGED poolLife
        BY <2>1 DEF poolLife
  <2> QED BY <1>1, <2>2 DEF PoolStep, Pool!poolVars
<1>3. CASE os[p] \in {"alive", "termed"}
  <2>1. \A q \in Pid : os'[q] = IF q = p THEN end ELSE os[q]
        BY DEF PoolTypes, LifeTypes
  <2>2. LifeOf[end] = "ended" /\ LifeOf["alive"] = "running" /\ LifeOf["termed"] = "told"
        BY DEF LifeOf
  <2>3. poolLife[p] \in {"running", "told"}
        BY <1>3, <2>2 DEF poolLife
  <2>4. \A q \in Pid : poolLife'[q] = IF q = p THEN "ended" ELSE poolLife[q]
        BY <2>1, <2>2 DEF poolLife
  <2>5. poolLife' = [poolLife EXCEPT ![p] = "ended"]
        BY <2>4 DEF poolLife
  <2>6. Pool!End(p)
        BY <1>1, <2>3, <2>5 DEF Pool!End
  <2> QED BY <2>6 DEF PoolStep, Pool!Next
<1> QED BY <1>2, <1>3 DEF Exists

(* The rows in state EXIT are deleted. *)
LEMMA PoolForget ==
    ASSUME PoolTypes, LifeInv, db_remove_process_with_state_exit, UNCHANGED <<os, ipc, hpid>>
    PROVE  PoolStep
<1>1. UNCHANGED poolLife
      BY DEF poolLife
<1>2. \A p \in ExitRows : /\ p \in Pid /\ plist[p] = "shutdown" /\ os[p] \in {"killed", "dead"}
                          /\ ipc[p] \notin {"none", "add"}
      BY DEF ExitRows, Rows, LifeInv
<1>3. ExitRows \subseteq Pool!At({"retiring"}) /\ \A p \in ExitRows : poolLife[p] = "ended"
      BY <1>2 DEF Pool!At, poolStage, StageOf, poolLife, LifeOf
<1>4. poolStage' = [p \in Pid |-> IF p \in ExitRows THEN "gone" ELSE poolStage[p]]
  <2>1. \A p \in Pid \ ExitRows : plist'[p] = plist[p]
        BY DEF db_remove_process_with_state_exit
  <2>2. \A p \in ExitRows : plist'[p] = "none"
        BY <1>2 DEF db_remove_process_with_state_exit
  <2> QED BY <1>2, <2>1, <2>2 DEF poolStage, RowlessStage
<1>5. ExitRows \in SUBSET Pid
      BY <1>2
<1>6. Pool!Forget(ExitRows)
      BY <1>1, <1>3, <1>4 DEF Pool!Forget, Pool!Stage
<1> QED BY <1>5, <1>6 DEF PoolStep, Pool!Next

-----------------------------------------------------------------------------
(* The steps of the threads. *)

(* The shutdown thread (qgis_shutdown_queue.c) makes a step of the pool. *)
LEMMA ShutdownThreadPool == PoolInv /\ ShutdownThread => PoolStep
<1> SUFFICES ASSUME PoolInv, ShutdownThread
             PROVE  PoolStep
    OBVIOUS
<1> PoolTypes
    BY PoolInvTypes
<1> USE DEF QueueStep, ManagerStep, ConnStep, kernelVars, dbVars, processVars, queueVars,
            managerVars, initVars, connVars, lowerVars
<1>1. CASE BeginScan /\ QueueStep
      BY <1>1, PoolQuiet DEF BeginScan, poolSeen
<1>2. CASE \E p \in Pid : CheckProcess(p) /\ QueueStep
  <2> PICK p \in Pid : CheckProcess(p) /\ QueueStep
      BY <1>2
  <2>1. plist[p] = "shutdown" /\ os[p] # "none"
        BY DEF CheckProcess, PoolInv, LifeInv
  <2>2. CASE PassProcess(p) \/ process_manager_cleanup_process(p)
        BY <2>2, PoolQuiet DEF CheckProcess, PassProcess, process_manager_cleanup_process, poolSeen
  <2>3. CASE SignalProcess(p) /\ Verdict(p) = "TERM"
    <3>1. CASE os[p] = "alive"
      <4>1. os' = [os EXCEPT ![p] = "termed"]
            BY <2>3, <3>1 DEF SignalProcess, AfterTerm, PoolTypes, LifeTypes
      <4> QED BY <2>1, <3>1, <4>1, PoolTell DEF CheckProcess
    <3>2. CASE os[p] # "alive"
      <4>1. os' = os
            BY <2>3, <3>2 DEF SignalProcess, AfterTerm, PoolTypes, LifeTypes
      <4> QED BY <4>1, PoolQuiet DEF CheckProcess, poolSeen
    <3> QED BY <3>1, <3>2
  <2>4. CASE SignalProcess(p) /\ Verdict(p) = "KILL"
    <3>1. Exists(p)
          BY <2>4 DEF Verdict, PoolTypes, LifeTypes, State
    <3> QED BY <2>4, <3>1, PoolEnd DEF CheckProcess, SignalProcess, AfterKill
  <2> QED BY <2>2, <2>3, <2>4 DEF CheckProcess, SignalProcess
<1>3. CASE WeedOut /\ QueueStep
      BY <1>3, PoolForget DEF WeedOut, PoolInv
<1>4. CASE Decide /\ QueueStep
      BY <1>4, PoolQuiet DEF Decide, poolSeen
<1>5. CASE WaitTimesOut /\ QueueStep
      BY <1>5, PoolQuiet DEF WaitTimesOut, poolSeen
<1>6. CASE WakeUp /\ QueueStep
      BY <1>6, PoolQuiet DEF WakeUp, poolSeen
<1>7. CASE DrainCheck /\ QueueStep
      BY <1>7, PoolQuiet DEF DrainCheck, poolSeen
<1> QED BY <1>1, <1>2, <1>3, <1>4, <1>5, <1>6, <1>7 DEF ShutdownThread

(* A starter thread (process_manager_start_new_process_wait) makes a step of the pool. *)
LEMMA StarterThreadPool == PoolInv /\ (\E s \in Starter : StarterThread(s)) => PoolStep
<1> SUFFICES ASSUME PoolInv, NEW s \in Starter, StarterThread(s)
             PROVE  PoolStep
    OBVIOUS
<1> PoolTypes
    BY PoolInvTypes
<1> USE DEF QueueStep, ManagerStep, ConnStep, kernelVars, dbVars, processVars, queueVars,
            managerVars, initVars, connVars, lowerVars
<1>1. CASE StartCheck(s) /\ ManagerStep
      BY <1>1, PoolQuiet DEF StartCheck, poolSeen
<1>2. CASE \E p \in Pid : StartNewChild(s, p) /\ ManagerStep
      BY <1>2, PoolFork DEF StartNewChild, PoolInv
<1>3. CASE StartNothing(s) /\ ManagerStep
      BY <1>3, PoolQuiet DEF StartNothing, poolSeen
<1>4. CASE ExchangeProcesses(s) /\ ManagerStep
      BY <1>4, PoolRetireList
         DEF ExchangeProcesses, db_move_all_process_from_active_to_shutdown_list
<1>5. CASE ExchangeNotify(s) /\ ManagerStep
      BY <1>5, PoolQuiet DEF ExchangeNotify, qgis_shutdown_notify_changes, poolSeen
<1>6. CASE ExchangeReset(s) /\ ManagerStep
      BY <1>6, PoolQuiet DEF ExchangeReset, poolSeen
<1>7. CASE Activate(s) /\ ManagerStep
      BY <1>7, PoolJoin DEF Activate, db_move_all_idle_process_from_init_to_active_list
<1>8. CASE ActivateNotify(s) /\ ManagerStep
      BY <1>8, PoolQuiet DEF ActivateNotify, qgis_shutdown_notify_changes, poolSeen
<1> QED BY <1>1, <1>2, <1>3, <1>4, <1>5, <1>6, <1>7, <1>8 DEF StarterThread

(* A call of process_manager_restart_process makes a step of the pool. *)
LEMMA RestartProcessPool == PoolInv /\ (\E a \in Actor : RestartProcess(a)) => PoolStep
<1> SUFFICES ASSUME PoolInv, NEW a \in Actor, RestartProcess(a)
             PROVE  PoolStep
    OBVIOUS
<1> PoolTypes
    BY PoolInvTypes
<1> USE DEF QueueStep, ManagerStep, ConnStep, kernelVars, dbVars, processVars, queueVars,
            managerVars, initVars, connVars, lowerVars
<1>1. CASE RestartStart(a) /\ ManagerStep
      BY <1>1, PoolQuiet DEF RestartStart, RestartStays, poolSeen
<1>2. CASE AddProcessMove(a) /\ ManagerStep
  <2>1. rpid[a] \in Pid
        BY <1>2 DEF AddProcessMove, PoolInv, TypeInv, CallFacts
  <2> DEFINE S == {rpid[a]} \cap {p \in Pid : plist[p] \in {"init", "active"}}
  <2>2. plist' = [p \in Pid |-> IF p \in S THEN "shutdown" ELSE plist[p]]
        BY <1>2, <2>1 DEF AddProcessMove, db_move_process_to_list, Rows, PoolTypes, LifeTypes, List
  <2>3. S \in SUBSET Pid /\ \A p \in S : plist[p] \in {"init", "active"}
        BY <2>1
  <2> HIDE DEF S
  <2> QED BY <1>2, <2>2, <2>3, PoolRetire DEF AddProcessMove, RestartStays
<1>3. CASE AddProcessAssertFails(a) /\ ManagerStep
      BY <1>3, PoolQuiet DEF AddProcessAssertFails, RestartStays, poolSeen
<1>4. CASE AddProcessNotify(a) /\ ManagerStep
      BY <1>4, PoolQuiet DEF AddProcessNotify, RestartStays, qgis_shutdown_notify_changes, poolSeen
<1> QED BY <1>1, <1>2, <1>3, <1>4 DEF RestartProcess

(* The thread that initialises a child (process_manager.c) makes a step of the pool. *)
LEMMA InitThreadPool == PoolInv /\ (\E p \in Pid : InitThread(p)) => PoolStep
<1> SUFFICES ASSUME PoolInv, NEW p \in Pid, InitThread(p)
             PROVE  PoolStep
    OBVIOUS
<1> PoolTypes
    BY PoolInvTypes
<1> USE DEF QueueStep, ManagerStep, ConnStep, kernelVars, dbVars, processVars, queueVars,
            managerVars, initVars, connVars, lowerVars
<1>1. CASE AddProcess(p) /\ ManagerStep
  <2>1. /\ plist[p] = "none" /\ ipc[p] = "add"
        /\ plist' = [plist EXCEPT ![p] = "init"]
        BY <1>1 DEF AddProcess, InitStep, db_add_process, PoolInv, LifeInv
  <2>2. UNCHANGED poolLife
        BY <1>1 DEF AddProcess, poolLife
  <2>3. \A q \in Pid \ {p} : plist'[q] = plist[q] /\ ipc'[q] = ipc[q]
        BY <1>1, <2>1 DEF AddProcess, InitStep, PoolTypes, LifeTypes
  <2>4. UNCHANGED poolStage
        BY <2>1, <2>3 DEF poolStage, RowlessStage, StageOf, PoolTypes, LifeTypes
  <2> QED BY <1>1, <2>2, <2>4 DEF AddProcess, PoolStep, Pool!poolVars
<1>2. CASE ConnectInit(p) /\ ManagerStep
  <2>1. IpcSame
        BY <1>2 DEF IpcSame, PoolTypes, LifeTypes, ConnectInit, InitStep
  <2> QED BY <1>2, <2>1, PoolStutter DEF ConnectInit, db_process_set_state
<1>3. CASE InitDone(p) /\ ManagerStep
  <2>1. IpcSame
        BY <1>3 DEF IpcSame, PoolTypes, LifeTypes, InitDone, ReadDone
  <2> QED BY <1>3, <2>1, PoolStutter DEF InitDone
<1>4. CASE ReadTimesOut(p) /\ ManagerStep
  <2>1. IpcSame
        BY <1>4 DEF IpcSame, PoolTypes, LifeTypes, ReadTimesOut, InitStep
  <2> QED BY <1>4, <2>1, PoolStutter DEF ReadTimesOut
<1>5. CASE DiedDuringInit(p) /\ ManagerStep
  <2>1. IpcSame
        BY <1>5 DEF IpcSame, PoolTypes, LifeTypes, DiedDuringInit, ReadDone
  <2> QED BY <1>5, <2>1, PoolStutter DEF DiedDuringInit
<1>6. CASE InitSetIdle(p) /\ ConnStep
  <2>1. IpcSame
        BY <1>6 DEF IpcSame, PoolTypes, LifeTypes, InitSetIdle, InitStep
  <2> QED BY <1>6, <2>1, PoolStutter DEF InitSetIdle, db_process_set_state
<1>7. CASE InitEndsDaemon(p) /\ ManagerStep
      BY <1>7, PoolQuiet DEF InitEndsDaemon, poolSeen
<1> QED BY <1>1, <1>2, <1>3, <1>4, <1>5, <1>6, <1>7 DEF InitThread

(* A connection thread (connection_manager.c) makes a step of the pool. *)
LEMMA ConnectionThreadPool == PoolInv /\ (\E h \in Conn : ConnectionThread(h)) => PoolStep
<1> SUFFICES ASSUME PoolInv, NEW h \in Conn, ConnectionThread(h)
             PROVE  PoolStep
    OBVIOUS
<1> PoolTypes
    BY PoolInvTypes
<1> USE DEF QueueStep, ManagerStep, ConnStep, kernelVars, dbVars, processVars, queueVars,
            managerVars, initVars, connVars, lowerVars
<1>1. CASE CountProcesses(h) /\ ConnStep
      BY <1>1, PoolQuiet DEF CountProcesses, poolSeen
<1>2. CASE NoProjectFound(h) /\ ConnStep
      BY <1>2, PoolQuiet DEF NoProjectFound, poolSeen
<1>3. CASE TakeProcess(h) /\ ConnStep
  <2>1. CASE TakeIdle(h)
    <3>1. hpid[h] = NoPid
          BY <1>3 DEF TakeProcess, PoolInv, TypeInv, ConnFacts, PoolTypes
    <3> QED BY <2>1, <3>1, PoolLend DEF PoolInv
  <2>2. CASE UNCHANGED <<lowerVars, hpid>>
        BY <2>2, PoolQuiet DEF poolSeen
  <2> QED BY <1>3, <2>1, <2>2 DEF TakeProcess
<1>4. CASE IdleTimesOut(h) /\ ConnStep
      BY <1>4, PoolQuiet DEF IdleTimesOut, poolSeen
<1>5. CASE RecheckProcess(h) /\ ConnStep
  <2>1. CASE TakeIdle(h)
    <3>1. hpid[h] = NoPid
          BY <1>5 DEF RecheckProcess, PoolInv, TypeInv, ConnFacts, PoolTypes
    <3> QED BY <2>1, <3>1, PoolLend DEF PoolInv
  <2>2. CASE UNCHANGED <<lowerVars, hpid>>
        BY <2>2, PoolQuiet DEF poolSeen
  <2> QED BY <1>5, <2>1, <2>2 DEF RecheckProcess
<1>6. CASE ConnectChild(h) /\ ConnStep
      BY <1>6, PoolQuiet DEF ConnectChild, poolSeen
<1>7. CASE ConnectFails(h) /\ ConnStep
      BY <1>7, PoolQuiet DEF ConnectFails, poolSeen
<1>8. CASE ConnRestarted(h) /\ ConnStep
      BY <1>8, PoolGiveBack DEF ConnRestarted, FaultyChildRetry
<1>9. CASE SocketFails(h) /\ ConnStep
      BY <1>9, PoolGiveBack DEF SocketFails, FaultyChildRetry
<1>10. CASE ConnSetIdle(h) /\ ConnStep
      BY <1>10, PoolGiveBack DEF ConnSetIdle, db_process_set_state
<1>11. CASE EndConnection(h) /\ ConnStep
      BY <1>11, PoolQuiet DEF EndConnection, poolSeen
<1>12. CASE RetriesOver(h) /\ ConnStep
      BY <1>12, PoolQuiet DEF RetriesOver, poolSeen
<1> QED BY <1>1, <1>2, <1>3, <1>4, <1>5, <1>6, <1>7, <1>8, <1>9, <1>10, <1>11,
   <1>12 DEF ConnectionThread

(* main (qgis-schedulerd.c) makes a step of the pool. *)
LEMMA MainThreadPool == PoolInv /\ MainThread => PoolStep
<1> SUFFICES ASSUME PoolInv, MainThread
             PROVE  PoolStep
    OBVIOUS
<1> PoolTypes
    BY PoolInvTypes
<1> USE DEF QueueStep, ManagerStep, ConnStep, kernelVars, dbVars, processVars, queueVars,
            managerVars, initVars, connVars, lowerVars
<1>1. CASE \E pr \in Project : StartProject(pr) /\ Running
      BY <1>1, PoolQuiet DEF StartProject, poolSeen
<1>2. CASE StartupDone /\ Running
      BY <1>2, PoolQuiet DEF StartupDone, poolSeen
<1>3. CASE SigChld /\ Running
      BY <1>3, PoolQuiet DEF SigChld, poolSeen
<1>4. CASE \E p \in Pid : ProbeProcess(p) /\ Running
      BY <1>4, PoolQuiet DEF ProbeProcess, poolSeen
<1>5. CASE ProbesDone /\ Running
      BY <1>5, PoolQuiet DEF ProbesDone, poolSeen
<1>6. CASE SigTerm /\ Running
      BY <1>6, PoolQuiet DEF SigTerm, poolSeen
<1>7. CASE \E pr \in Project : ShutdownProject(pr) /\ Running
      BY <1>7, PoolRetireList DEF ShutdownProject, db_move_all_process_from_init_to_shutdown_list
<1>8. CASE ActiveToShutdown /\ Running
      BY <1>8, PoolRetireList DEF ActiveToShutdown, db_move_all_process_from_active_to_shutdown_list
<1>9. CASE NotifyMoved /\ Running
      BY <1>9, PoolQuiet DEF NotifyMoved, qgis_shutdown_notify_changes, poolSeen
<1>10. CASE RemoveProject /\ Running
      BY <1>10, PoolQuiet DEF RemoveProject, poolSeen
<1>11. CASE RestartProject /\ Running
      BY <1>11, PoolQuiet DEF RestartProject, poolSeen
<1>12. CASE \E pr \in Project : FillProject(pr) /\ Running
      BY <1>12, PoolQuiet DEF FillProject, poolSeen
<1>13. CASE HupDone /\ Running
      BY <1>13, PoolQuiet DEF HupDone, poolSeen
<1>14. CASE WaitEmpty /\ Running
      BY <1>14, PoolQuiet DEF WaitEmpty, qgis_shutdown_wait_empty, poolSeen
<1>15. CASE JoinInotify /\ Running
      BY <1>15, PoolQuiet DEF JoinInotify, poolSeen
<1>16. CASE Exit /\ Running
      BY <1>16, PoolQuiet DEF Exit, poolSeen
<1> QED BY <1>1, <1>2, <1>3, <1>4, <1>5, <1>6, <1>7, <1>8, <1>9, <1>10, <1>11, <1>12, <1>13,
       <1>14, <1>15, <1>16 DEF MainThread

(* The inotify thread (qgis_inotify.c) makes a step of the pool. *)
LEMMA InotifyThreadPool == PoolInv /\ InotifyThread => PoolStep
<1> SUFFICES ASSUME PoolInv, InotifyThread
             PROVE  PoolStep
    OBVIOUS
<1> PoolTypes
    BY PoolInvTypes
<1> USE DEF QueueStep, ManagerStep, ConnStep, kernelVars, dbVars, processVars, queueVars,
            managerVars, initVars, connVars, lowerVars
<1>1. CASE \E pr \in Project : ReadConfigEvent(pr) /\ Running
      BY <1>1, PoolQuiet DEF ReadConfigEvent, poolSeen
<1>2. CASE RestartProcesses /\ Running
      BY <1>2, PoolQuiet DEF RestartProcesses, poolSeen
<1>3. CASE \E d \in Dir : ReadIgnored(d) /\ Running
      BY <1>3, PoolQuiet DEF ReadIgnored, poolSeen
<1> QED BY <1>1, <1>2, <1>3 DEF InotifyThread

(* The outside world makes a step of the pool. *)
LEMMA EnvironmentPool == PoolInv /\ Environment => PoolStep
<1> SUFFICES ASSUME PoolInv, Environment
             PROVE  PoolStep
    OBVIOUS
<1> PoolTypes
    BY PoolInvTypes
<1> USE DEF QueueStep, ManagerStep, ConnStep, kernelVars, dbVars, processVars, queueVars,
            managerVars, initVars, connVars, lowerVars
<1>1. CASE \E p \in Pid : Die(p) /\ UNCHANGED <<dbVars, queueVars>> /\ QueueStep
      BY <1>1, PoolEnd DEF Die
<1>2. CASE \E p \in Pid : TimeoutPasses(p) /\ QueueStep
      BY <1>2, PoolQuiet DEF TimeoutPasses, poolSeen
<1>3. CASE SpuriousWakeup /\ QueueStep
      BY <1>3, PoolQuiet DEF SpuriousWakeup, poolSeen
<1>4. CASE \E h \in Conn : IdleSpuriousWakeup(h) /\ ConnStep
      BY <1>4, PoolQuiet DEF IdleSpuriousWakeup, poolSeen
<1>5. CASE \E h \in Conn : RelayEnds(h) /\ ConnStep
      BY <1>5, PoolQuiet DEF RelayEnds, poolSeen
<1>6. CASE \E h \in Conn : AcceptConnection(h) /\ Running
      BY <1>6, PoolQuiet DEF AcceptConnection, Accept, poolSeen
<1>7. CASE \E h \in Conn, pr \in Project \cup {NoProject} : ChooseProject(h, pr) /\ ConnStep
      BY <1>7, PoolQuiet DEF ChooseProject, poolSeen
<1>8. CASE \E new \in ConfigFiles : SigHup(new) /\ Running
      BY <1>8, PoolQuiet DEF SigHup, poolSeen
<1>9. CASE \E pr \in Project : ConfigWritten(pr) /\ Running
      BY <1>9, PoolQuiet DEF ConfigWritten, poolSeen
<1>10. CASE TermArrives /\ Running
      BY <1>10, PoolQuiet DEF TermArrives, poolSeen
<1>11. CASE \E h \in Conn : ConnEndsDaemon(h) /\ ConnStep
      BY <1>11, PoolQuiet DEF ConnEndsDaemon, poolSeen
<1> QED BY <1>1, <1>2, <1>3, <1>4, <1>5, <1>6, <1>7, <1>8, <1>9, <1>10, <1>11 DEF Environment

(* Every step of the daemon is a step of the pool, or one it does not see. *)
LEMMA NextPool == PoolInv /\ [Next]_vars => PoolStep
<1> SUFFICES ASSUME PoolInv, [Next]_vars
             PROVE  PoolStep
    OBVIOUS
<1>1. CASE UNCHANGED vars
      BY <1>1, PoolQuiet DEF vars, poolSeen, kernelVars, dbVars, processVars, managerVars,
                initVars, connVars
<1>2. CASE Next
      BY <1>1, <1>2, ShutdownThreadPool, StarterThreadPool, RestartProcessPool, InitThreadPool,
         ConnectionThreadPool, MainThreadPool, InotifyThreadPool, EnvironmentPool
         DEF Next, Terminated
<1> QED BY <1>1, <1>2

(* The daemon starts where the pool starts. *)
LEMMA InitPool == Init => Pool!Init
BY DEF Init, KernelInit, DatabaseInit, ManagerInit, ConnInit, Pool!Init, poolLife, poolStage,
       LifeOf, RowlessStage

(* The daemon implements the pool, for every number of children, clients,    *)
(* projects and threads.                                                     *)
THEOREM PoolImplemented == Spec => ImplementsPool
<1>1. PoolInv /\ [Next]_vars => [Pool!Next]_(Pool!poolVars)
      BY NextPool DEF PoolStep
<1>2. Spec => []PoolInv
      BY TypeInvariance, LifeInvariance, UseInvariance, PTL DEF PoolInv
<1> QED BY <1>1, <1>2, InitPool, PTL DEF Spec, ImplementsPool, Pool!Spec

(* The abstract pool keeps its promise, by its own rules. *)
LEMMA PoolKeepsPromise == Pool!Spec => []Pool!Promise
<1> DEFINE Typed == /\ poolLife \in [Pid -> {"none", "running", "told", "ended"}]
                    /\ poolStage \in [Pid -> {"none", "starting", "serving", "retiring", "gone"}]
                    /\ hpid \in [Conn -> Pid \cup {NoPid}]
           Kept == Typed /\ Pool!Promise
<1>1. Pool!Init => Kept
      BY PidAssumption DEF Pool!Init, Pool!Promise
<1>2. Kept /\ [Pool!Next]_(Pool!poolVars) => Kept'
  <2> SUFFICES ASSUME Kept, [Pool!Next]_(Pool!poolVars)
               PROVE  Kept'
      OBVIOUS
  <2> USE PidAssumption DEF Pool!Promise, Pool!Stage, Pool!At
  <2>1. CASE UNCHANGED Pool!poolVars
        BY <2>1 DEF Pool!poolVars
  <2>2. ASSUME NEW p \in Pid, Pool!Fork(p)
        PROVE  Kept'
        BY <2>2 DEF Pool!Fork
  <2>3. ASSUME NEW p \in Pid, Pool!Tell(p)
        PROVE  Kept'
        BY <2>3 DEF Pool!Tell
  <2>4. ASSUME NEW p \in Pid, Pool!End(p)
        PROVE  Kept'
        BY <2>4 DEF Pool!End
  <2>5. ASSUME NEW S \in SUBSET Pid, Pool!Join(S)
        PROVE  Kept'
        BY <2>5 DEF Pool!Join
  <2>6. ASSUME NEW S \in SUBSET Pid, Pool!Retire(S)
        PROVE  Kept'
        BY <2>6 DEF Pool!Retire
  <2>7. ASSUME NEW S \in SUBSET Pid, Pool!Forget(S)
        PROVE  Kept'
        BY <2>7 DEF Pool!Forget
  <2>8. ASSUME NEW h \in Conn, Pool!GiveBack(h)
        PROVE  Kept'
        BY <2>8 DEF Pool!GiveBack
  <2>9. ASSUME NEW h \in Conn, NEW p \in Pid, Pool!Lend(h, p)
        PROVE  Kept'
        BY <2>9 DEF Pool!Lend
  <2> QED BY <2>1, <2>2, <2>3, <2>4, <2>5, <2>6, <2>7, <2>8, <2>9 DEF Pool!Next
<1> QED BY <1>1, <1>2, PTL DEF Pool!Spec

(* So what the pool promises holds for the daemon's children: one at a time, *)
(* none told to end while it serves, none forgotten that has not ended.      *)
THEOREM PromiseKept == Spec => []Pool!Promise
BY PoolImplemented, PoolKeepsPromise, PTL DEF ImplementsPool

-----------------------------------------------------------------------------
(* The end of the daemon. *)

(* main acts upon SIGTERM: in a reload the project it shuts down is in one   *)
(* of the lists.                                                             *)
TermWork ==
    \/ mpc = "shutdown"
    \/ /\ mpc \in {"notify1", "act2sd", "notify2", "rmproj"}
       /\ mproj \notin sectionchange \cup sectiondelete

(* Every child whose row was deleted has ended. *)
RowlessEnded == \A p \in Pid : plist[p] = "none" /\ ipc[p] \notin {"none", "add"}
                                   => os[p] \in {"killed", "dead"}

(* The order of the end: SIGTERM, qgis_shutdown_wait_empty, the last look at *)
(* an empty list, exit(). After that look nobody is signalled any more.      *)
ExitInv ==
    /\ TermWork \/ do_shutdown_thread => program_shutdown
    /\ spc \in {"drained", "done"} => do_shutdown_thread
    /\ spc = "done" => \A p \in Pid : os[p] # "termed"
    /\ exited = "success" => spc = "done"

termVars == <<program_shutdown, mpc, mproj, sectionchange, sectiondelete>>
exitVars == <<os, spc, do_shutdown_thread, exited, termVars>>
ExitTypes == LifeTypes /\ spc \in SpcLabel

(* The types ExitInv needs follow from the type invariant. *)
LEMMA TypeInvExitTypes == TypeInv => ExitTypes
BY TypeInvLifeTypes DEF TypeInv, TypeOK, QueueTypeOK, ExitTypes

(* The promise of the pool, in the daemon's words. *)
LEMMA PromiseRowless == TypeInv /\ Pool!Promise => RowlessEnded
<1> SUFFICES ASSUME TypeInv, Pool!Promise, NEW p \in Pid, plist[p] = "none",
                    ipc[p] \notin {"none", "add"}
             PROVE  os[p] \in {"killed", "dead"}
    BY DEF RowlessEnded
<1>1. poolStage[p] = "gone"
      BY DEF poolStage, RowlessStage
<1>2. poolLife[p] = "ended"
      BY <1>1 DEF Pool!Promise
<1>3. os[p] \in OsState
      BY TypeInvLifeTypes DEF LifeTypes
<1> QED BY <1>2, <1>3 DEF poolLife, LifeOf, OsState

(* A step that leaves exitVars alone keeps ExitInv. *)
LEMMA ExitStutter == ExitInv /\ UNCHANGED exitVars => ExitInv'
BY DEF ExitInv, TermWork, exitVars, termVars

(* So does one that signals nobody and does not bring the thread to its end. *)
LEMMA ExitQuiet ==
    ASSUME ExitInv, UNCHANGED <<do_shutdown_thread, exited, termVars>>,
           spc' = spc \/ (spc # "done" /\ spc' \notin {"drained", "done"}),
           \A p \in Pid : os'[p] = "termed" => os[p] = "termed"
    PROVE  ExitInv'
BY DEF ExitInv, TermWork, termVars

(* So does an announcement, *)
LEMMA ExitNotify ==
    ASSUME ExitInv, ExitTypes, SignalQueue, UNCHANGED <<os, do_shutdown_thread, exited, termVars>>
    PROVE  ExitInv'
BY ExitQuiet DEF SignalQueue, Sleeping, ExitTypes

(* and a step of main that does not begin to act upon SIGTERM. *)
LEMMA ExitMain ==
    ASSUME ExitInv, UNCHANGED <<os, spc, do_shutdown_thread, program_shutdown>>,
           exited' # "success", TermWork' => TermWork
    PROVE  ExitInv'
BY DEF ExitInv

(* ExitInv holds when the daemon starts. *)
LEMMA InitExit == Init => ExitInv
BY DEF Init, KernelInit, QueueInit, ExitInv, TermWork

(* The shutdown thread (qgis_shutdown_queue.c) keeps ExitInv. *)
LEMMA ShutdownThreadExit ==
    TypeInv /\ LifeInv /\ RowlessEnded /\ ExitInv /\ ShutdownThread => ExitInv'
<1> SUFFICES ASSUME TypeInv, LifeInv, RowlessEnded, ExitInv, ShutdownThread
             PROVE  ExitInv'
    OBVIOUS
<1> ExitTypes
    BY TypeInvExitTypes
<1> USE DEF QueueStep, ManagerStep, ConnStep, kernelVars, dbVars, processVars, queueVars,
            managerVars, connVars, mainVars, reloadVars, sectionVars, lowerVars
<1>1. CASE BeginScan /\ QueueStep
      BY <1>1, ExitQuiet DEF BeginScan, termVars
<1>2. CASE \E p \in Pid : CheckProcess(p) /\ QueueStep
      BY <1>2 DEF CheckProcess, ExitInv, TermWork
<1>3. CASE WeedOut /\ QueueStep
      BY <1>3, ExitQuiet DEF WeedOut, termVars
<1>4. CASE Decide /\ QueueStep
      BY <1>4 DEF Decide, AfterWait, WaitMode, ExitInv, TermWork
<1>5. CASE WaitTimesOut /\ QueueStep
      BY <1>5, ExitQuiet DEF WaitTimesOut, termVars
<1>6. CASE WakeUp /\ QueueStep
      BY <1>6 DEF WakeUp, AfterWait, ExitInv, TermWork
<1>7. CASE DrainCheck /\ QueueStep
  <2>1. CASE NoShutdownProcesses
    <3>1. \A p \in Pid : os[p] # "termed"
          BY <2>1 DEF NoShutdownProcesses, InList, LifeInv, RowlessEnded
    <3> QED BY <1>7, <3>1 DEF DrainCheck, ExitInv, TermWork
  <2>2. CASE ~NoShutdownProcesses
        BY <1>7, <2>2, ExitQuiet DEF DrainCheck, termVars
  <2> QED BY <2>1, <2>2
<1> QED BY <1>1, <1>2, <1>3, <1>4, <1>5, <1>6, <1>7 DEF ShutdownThread

(* A starter thread (process_manager_start_new_process_wait) keeps ExitInv. *)
LEMMA StarterThreadExit ==
    TypeInv /\ LifeInv /\ RowlessEnded /\ ExitInv /\ (\E s \in Starter : StarterThread(s))
        => ExitInv'
<1> SUFFICES ASSUME TypeInv, LifeInv, RowlessEnded, ExitInv, NEW s \in Starter, StarterThread(s)
             PROVE  ExitInv'
    OBVIOUS
<1> ExitTypes
    BY TypeInvExitTypes
<1> USE DEF QueueStep, ManagerStep, ConnStep, kernelVars, dbVars, processVars, queueVars,
            managerVars, connVars, mainVars, reloadVars, sectionVars, lowerVars
<1>1. CASE StartCheck(s) /\ ManagerStep
      BY <1>1, ExitMain DEF StartCheck, ExitInv, TermWork, Running
<1>2. CASE \E p \in Pid : StartNewChild(s, p) /\ ManagerStep
      BY <1>2, ExitQuiet DEF StartNewChild, Forked, termVars, ExitTypes, LifeTypes
<1>3. CASE StartNothing(s) /\ ManagerStep
      BY <1>3, ExitStutter DEF StartNothing, exitVars, termVars
<1>4. CASE ExchangeProcesses(s) /\ ManagerStep
      BY <1>4, ExitStutter DEF ExchangeProcesses, MoveProjectList,
         db_move_all_process_from_active_to_shutdown_list, exitVars, termVars
<1>5. CASE ExchangeNotify(s) /\ ManagerStep
      BY <1>5, ExitNotify DEF ExchangeNotify, qgis_shutdown_notify_changes, termVars
<1>6. CASE ExchangeReset(s) /\ ManagerStep
      BY <1>6, ExitStutter DEF ExchangeReset, exitVars, termVars
<1>7. CASE Activate(s) /\ ManagerStep
      BY <1>7, ExitStutter DEF Activate, MoveProjectList,
         db_move_all_idle_process_from_init_to_active_list, exitVars, termVars
<1>8. CASE ActivateNotify(s) /\ ManagerStep
      BY <1>8, ExitNotify DEF ActivateNotify, qgis_shutdown_notify_changes, termVars
<1> QED BY <1>1, <1>2, <1>3, <1>4, <1>5, <1>6, <1>7, <1>8 DEF StarterThread

(* A call of process_manager_restart_process keeps ExitInv. *)
LEMMA RestartProcessExit ==
    TypeInv /\ LifeInv /\ RowlessEnded /\ ExitInv /\ (\E a \in Actor : RestartProcess(a))
        => ExitInv'
<1> SUFFICES ASSUME TypeInv, LifeInv, RowlessEnded, ExitInv, NEW a \in Actor, RestartProcess(a)
             PROVE  ExitInv'
    OBVIOUS
<1> ExitTypes
    BY TypeInvExitTypes
<1> USE DEF QueueStep, ManagerStep, ConnStep, kernelVars, dbVars, processVars, queueVars,
            managerVars, connVars, mainVars, reloadVars, sectionVars, lowerVars
<1>1. CASE RestartStart(a) /\ ManagerStep
      BY <1>1, ExitStutter DEF RestartStart, RestartStays, exitVars, termVars
<1>2. CASE AddProcessMove(a) /\ ManagerStep
      BY <1>2, ExitStutter DEF AddProcessMove, RestartStays, db_move_process_to_list, exitVars,
         termVars
<1>3. CASE AddProcessAssertFails(a) /\ ManagerStep
      BY <1>3, ExitMain DEF AddProcessAssertFails, RestartStays, TermWork
<1>4. CASE AddProcessNotify(a) /\ ManagerStep
      BY <1>4, ExitNotify DEF AddProcessNotify, qgis_shutdown_notify_changes, RestartStays, termVars
<1> QED BY <1>1, <1>2, <1>3, <1>4 DEF RestartProcess

(* The thread that initialises a child (process_manager.c) keeps ExitInv. *)
LEMMA InitThreadExit ==
    TypeInv /\ LifeInv /\ RowlessEnded /\ ExitInv /\ (\E p \in Pid : InitThread(p)) => ExitInv'
<1> SUFFICES ASSUME TypeInv, LifeInv, RowlessEnded, ExitInv, NEW p \in Pid, InitThread(p)
             PROVE  ExitInv'
    OBVIOUS
<1> ExitTypes
    BY TypeInvExitTypes
<1> USE DEF QueueStep, ManagerStep, ConnStep, kernelVars, dbVars, processVars, queueVars,
            managerVars, connVars, mainVars, reloadVars, sectionVars, lowerVars
<1>1. CASE AddProcess(p) /\ ManagerStep
      BY <1>1, ExitStutter DEF AddProcess, exitVars, termVars
<1>2. CASE ConnectInit(p) /\ ManagerStep
      BY <1>2, ExitStutter DEF ConnectInit, exitVars, termVars
<1>3. CASE InitDone(p) /\ ManagerStep
      BY <1>3, ExitStutter DEF InitDone, exitVars, termVars
<1>4. CASE ReadTimesOut(p) /\ ManagerStep
      BY <1>4, ExitStutter DEF ReadTimesOut, exitVars, termVars
<1>5. CASE DiedDuringInit(p) /\ ManagerStep
      BY <1>5, ExitStutter DEF DiedDuringInit, exitVars, termVars
<1>6. CASE InitSetIdle(p) /\ ConnStep
      BY <1>6, ExitStutter DEF InitSetIdle, exitVars, termVars
<1>7. CASE InitEndsDaemon(p) /\ ManagerStep
      BY <1>7, ExitMain DEF InitEndsDaemon, TermWork
<1> QED BY <1>1, <1>2, <1>3, <1>4, <1>5, <1>6, <1>7 DEF InitThread

(* A connection thread (connection_manager.c) keeps ExitInv. *)
LEMMA ConnectionThreadExit ==
    TypeInv /\ LifeInv /\ RowlessEnded /\ ExitInv /\ (\E h \in Conn : ConnectionThread(h))
        => ExitInv'
<1> SUFFICES ASSUME TypeInv, LifeInv, RowlessEnded, ExitInv, NEW h \in Conn, ConnectionThread(h)
             PROVE  ExitInv'
    OBVIOUS
<1> ExitTypes
    BY TypeInvExitTypes
<1> USE DEF QueueStep, ManagerStep, ConnStep, kernelVars, dbVars, processVars, queueVars,
            managerVars, connVars, mainVars, reloadVars, sectionVars, lowerVars
<1>1. CASE CountProcesses(h) /\ ConnStep
      BY <1>1, ExitStutter DEF CountProcesses, exitVars, termVars
<1>2. CASE NoProjectFound(h) /\ ConnStep
      BY <1>2, ExitStutter DEF NoProjectFound, exitVars, termVars
<1>3. CASE TakeProcess(h) /\ ConnStep
      BY <1>3, ExitStutter DEF TakeProcess, TakeIdle, exitVars, termVars
<1>4. CASE IdleTimesOut(h) /\ ConnStep
      BY <1>4, ExitStutter DEF IdleTimesOut, exitVars, termVars
<1>5. CASE RecheckProcess(h) /\ ConnStep
      BY <1>5, ExitStutter DEF RecheckProcess, TakeIdle, exitVars, termVars
<1>6. CASE ConnectChild(h) /\ ConnStep
      BY <1>6, ExitStutter DEF ConnectChild, exitVars, termVars
<1>7. CASE ConnectFails(h) /\ ConnStep
      BY <1>7, ExitStutter DEF ConnectFails, exitVars, termVars
<1>8. CASE ConnRestarted(h) /\ ConnStep
      BY <1>8, ExitStutter DEF ConnRestarted, exitVars, termVars
<1>9. CASE SocketFails(h) /\ ConnStep
      BY <1>9, ExitStutter DEF SocketFails, exitVars, termVars
<1>10. CASE ConnSetIdle(h) /\ ConnStep
      BY <1>10, ExitStutter DEF ConnSetIdle, exitVars, termVars
<1>11. CASE EndConnection(h) /\ ConnStep
      BY <1>11, ExitStutter DEF EndConnection, exitVars, termVars
<1>12. CASE RetriesOver(h) /\ ConnStep
      BY <1>12, ExitStutter DEF RetriesOver, exitVars, termVars
<1> QED BY <1>1, <1>2, <1>3, <1>4, <1>5, <1>6, <1>7, <1>8, <1>9, <1>10, <1>11,
   <1>12 DEF ConnectionThread

(* main (qgis-schedulerd.c) keeps ExitInv. *)
LEMMA MainThreadExit == TypeInv /\ LifeInv /\ RowlessEnded /\ ExitInv /\ MainThread => ExitInv'
<1> SUFFICES ASSUME TypeInv, LifeInv, RowlessEnded, ExitInv, MainThread
             PROVE  ExitInv'
    OBVIOUS
<1> ExitTypes
    BY TypeInvExitTypes
<1> USE DEF QueueStep, ManagerStep, ConnStep, kernelVars, dbVars, processVars, queueVars,
            managerVars, connVars, mainVars, reloadVars, sectionVars, lowerVars
<1>1. CASE \E pr \in Project : StartProject(pr) /\ Running
      BY <1>1, ExitMain DEF StartProject, project_manager_start_project, TermWork, Running
<1>2. CASE StartupDone /\ Running
      BY <1>2, ExitMain DEF StartupDone, TermWork, Running
<1>3. CASE SigChld /\ Running
      BY <1>3, ExitMain DEF SigChld, TermWork, Running
<1>4. CASE \E p \in Pid : ProbeProcess(p) /\ Running
      BY <1>4, ExitStutter DEF ProbeProcess, exitVars, termVars
<1>5. CASE ProbesDone /\ Running
      BY <1>5, ExitMain DEF ProbesDone, TermWork, Running
<1>6. CASE SigTerm /\ Running
      BY <1>6 DEF SigTerm, ExitInv
<1>7. CASE \E pr \in Project : ShutdownProject(pr) /\ Running
      BY <1>7, ExitMain DEF ShutdownProject, TermWork, Running
<1>8. CASE ActiveToShutdown /\ Running
      BY <1>8, ExitMain DEF ActiveToShutdown, TermWork, Running, MainStep
<1>9. CASE NotifyMoved /\ Running
  <2>1. TermWork' => TermWork
        BY <1>9 DEF NotifyMoved, MainStep, TermWork
  <2>2. spc' = spc \/ (spc # "done" /\ spc' \notin {"drained", "done"})
        BY <1>9 DEF NotifyMoved, qgis_shutdown_notify_changes, SignalQueue, Sleeping, ExitTypes
  <2> QED BY <1>9, <2>1, <2>2 DEF NotifyMoved, qgis_shutdown_notify_changes, ExitInv
<1>10. CASE RemoveProject /\ Running
      BY <1>10, ExitMain DEF RemoveProject, TermWork, Running
<1>11. CASE RestartProject /\ Running
      BY <1>11, ExitMain DEF RestartProject, project_manager_start_project, TermWork, Running,
         MainStep
<1>12. CASE \E pr \in Project : FillProject(pr) /\ Running
      BY <1>12, ExitStutter DEF FillProject, exitVars, termVars
<1>13. CASE HupDone /\ Running
      BY <1>13, ExitMain DEF HupDone, TermWork, Running, MainStep
<1>14. CASE WaitEmpty /\ Running
      BY <1>14 DEF WaitEmpty, qgis_shutdown_wait_empty, SignalQueue, Sleeping, MainStep, ExitInv,
         TermWork
<1>15. CASE JoinInotify /\ Running
      BY <1>15, ExitMain DEF JoinInotify, TermWork, Running, MainStep
<1>16. CASE Exit /\ Running
      BY <1>16 DEF Exit, ExitInv, TermWork
<1> QED BY <1>1, <1>2, <1>3, <1>4, <1>5, <1>6, <1>7, <1>8, <1>9, <1>10, <1>11, <1>12, <1>13,
   <1>14, <1>15, <1>16 DEF MainThread

(* The inotify thread (qgis_inotify.c) keeps ExitInv. *)
LEMMA InotifyThreadExit ==
    TypeInv /\ LifeInv /\ RowlessEnded /\ ExitInv /\ InotifyThread => ExitInv'
<1> SUFFICES ASSUME TypeInv, LifeInv, RowlessEnded, ExitInv, InotifyThread
             PROVE  ExitInv'
    OBVIOUS
<1> ExitTypes
    BY TypeInvExitTypes
<1> USE DEF QueueStep, ManagerStep, ConnStep, kernelVars, dbVars, processVars, queueVars,
            managerVars, connVars, mainVars, reloadVars, sectionVars, lowerVars
<1>1. CASE \E pr \in Project : ReadConfigEvent(pr) /\ Running
      BY <1>1, ExitStutter DEF ReadConfigEvent, exitVars, termVars
<1>2. CASE RestartProcesses /\ Running
      BY <1>2, ExitStutter DEF RestartProcesses, exitVars, termVars
<1>3. CASE \E d \in Dir : ReadIgnored(d) /\ Running
      BY <1>3, ExitStutter DEF ReadIgnored, exitVars, termVars
<1> QED BY <1>1, <1>2, <1>3 DEF InotifyThread

(* The outside world (deaths, time, clients, files, signals) keeps ExitInv. *)
LEMMA EnvironmentExit == TypeInv /\ LifeInv /\ RowlessEnded /\ ExitInv /\ Environment => ExitInv'
<1> SUFFICES ASSUME TypeInv, LifeInv, RowlessEnded, ExitInv, Environment
             PROVE  ExitInv'
    OBVIOUS
<1> ExitTypes
    BY TypeInvExitTypes
<1> USE DEF QueueStep, ManagerStep, ConnStep, kernelVars, dbVars, processVars, queueVars,
            managerVars, connVars, mainVars, reloadVars, sectionVars, lowerVars
<1>1. CASE \E p \in Pid : Die(p) /\ UNCHANGED <<dbVars, queueVars>> /\ QueueStep
      BY <1>1, ExitQuiet DEF Die, termVars, ExitTypes, LifeTypes
<1>2. CASE \E p \in Pid : TimeoutPasses(p) /\ QueueStep
      BY <1>2, ExitStutter DEF TimeoutPasses, exitVars, termVars
<1>3. CASE SpuriousWakeup /\ QueueStep
      BY <1>3, ExitQuiet DEF SpuriousWakeup, Sleeping, termVars
<1>4. CASE \E h \in Conn : IdleSpuriousWakeup(h) /\ ConnStep
      BY <1>4, ExitStutter DEF IdleSpuriousWakeup, exitVars, termVars
<1>5. CASE \E h \in Conn : RelayEnds(h) /\ ConnStep
      BY <1>5, ExitStutter DEF RelayEnds, exitVars, termVars
<1>6. CASE \E h \in Conn : AcceptConnection(h) /\ Running
      BY <1>6, ExitStutter DEF AcceptConnection, Accept, exitVars, termVars
<1>7. CASE \E h \in Conn, pr \in Project \cup {NoProject} : ChooseProject(h, pr) /\ ConnStep
      BY <1>7, ExitStutter DEF ChooseProject, exitVars, termVars
<1>8. CASE \E new \in ConfigFiles : SigHup(new) /\ Running
      BY <1>8, ExitMain DEF SigHup, TermWork, Running, MainStep
<1>9. CASE \E pr \in Project : ConfigWritten(pr) /\ Running
      BY <1>9, ExitStutter DEF ConfigWritten, exitVars, termVars
<1>10. CASE TermArrives /\ Running
      BY <1>10, ExitStutter DEF TermArrives, exitVars, termVars
<1>11. CASE \E h \in Conn : ConnEndsDaemon(h) /\ ConnStep
      BY <1>11, ExitMain DEF ConnEndsDaemon, TermWork
<1> QED BY <1>1, <1>2, <1>3, <1>4, <1>5, <1>6, <1>7, <1>8, <1>9, <1>10, <1>11 DEF Environment

(* Every step of the daemon keeps ExitInv. *)
LEMMA NextExit == TypeInv /\ LifeInv /\ RowlessEnded /\ ExitInv /\ [Next]_vars => ExitInv'
<1> SUFFICES ASSUME TypeInv, LifeInv, RowlessEnded, ExitInv, [Next]_vars
             PROVE  ExitInv'
    OBVIOUS
<1>1. CASE UNCHANGED vars
      BY <1>1, ExitStutter DEF vars, exitVars, termVars, kernelVars, queueVars, mainVars,
         reloadVars, sectionVars
<1>2. CASE Next
      BY <1>1, <1>2, ShutdownThreadExit, StarterThreadExit, RestartProcessExit, InitThreadExit,
         ConnectionThreadExit, MainThreadExit, InotifyThreadExit, EnvironmentExit
         DEF Next, Terminated
<1> QED BY <1>1, <1>2

(* The daemon exits normally only after SIGTERM, and leaves nobody behind it *)
(* has told to end.                                                          *)
THEOREM ExitsDrained == Spec => []ExitAfterDrain
<1>1. Spec => [](TypeInv /\ LifeInv /\ RowlessEnded)
      BY TypeInvariance, LifeInvariance, PromiseKept, PromiseRowless, PTL
<1>2. ExitInv => ExitAfterDrain
      BY DEF ExitInv, ExitAfterDrain
<1> QED BY <1>1, <1>2, InitExit, NextExit, PTL DEF Spec
=============================================================================
