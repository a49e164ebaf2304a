---------------------------- MODULE LifeProofs ----------------------------
(* What happens to the rows of table processes, proved with TLAPS for every  *)
(* number of pids, projects, threads and connections.                        *)
(*                                                                          *)
(* The inductive invariant, LifeInv, builds on TypeInv. It ties what the     *)
(* kernel knows of a child to its row and to the thread that initialises it. *)
(* SleepInv, on top of it, says how long the shutdown thread waits.          *)
EXTENDS SchedulerTypeProofs

(* The life of a child, as the kernel, its row and its initialising thread   *)
(* see it: no row before db_add_process, no signal without a row in the      *)
(* shutdown list, and a state TERM, KILL or EXIT only there, and only after  *)
(* the signal was sent and timed or the listening socket was closed.         *)
LifeInv ==
    \A p \in Pid :
        /\ ipc[p] = "none" <=> os[p] = "none"
        /\ ipc[p] \in {"none", "add"} => plist[p] = "none" /\ os[p] \notin {"termed", "killed"}
        /\ p \in sscan => plist[p] = "shutdown"
        /\ os[p] \in {"termed", "killed"} => plist[p] \in {"shutdown", "none"}
        /\ pstate[p] = "TERM" => os[p] \in {"termed", "killed", "dead"}
        /\ pstate[p] \in {"KILL", "EXIT"} => os[p] \in {"killed", "dead"}
        /\ pstate[p] \in {"TERM", "KILL", "EXIT"} => plist[p] \in {"shutdown", "none"}
        /\ pstate[p] \in {"TERM", "KILL"} => psig[p] # "zero"
        /\ pstate[p] = "EXIT" => fd[p] = "closed"

(* What a step may do to the row of p: only its initialising thread inserts  *)
(* it, once.                                                                 *)
RowStep(p) ==
    /\ \/ plist'[p] = plist[p]
       \/ plist[p] = "none" /\ plist'[p] = "init" /\ ipc[p] = "add"
       \/ plist[p] = "init" /\ plist'[p] = "active"
       \/ plist[p] \in {"init", "active"} /\ plist'[p] = "shutdown"
       \/ plist[p] = "shutdown" /\ plist'[p] = "none" /\ os[p] \in {"killed", "dead"}
    /\ ipc[p] \notin {"none", "add"} => ipc'[p] \notin {"none", "add"}

LifeStep == LifeInv' /\ \A p \in Pid : RowStep(p)

(* The variables LifeInv speaks of, and their types. *)
lifeVars == <<os, fd, plist, pstate, psig, ipc, sscan>>
LifeTypes ==
    /\ os \in [Pid -> OsState]
    /\ fd \in [Pid -> {"none", "open", "closed"}]
    /\ plist \in [Pid -> List]
    /\ pstate \in [Pid -> State]
    /\ psig \in [Pid -> SignalTime]
    /\ ipc \in [Pid -> IpcLabel]
    /\ sscan \subseteq Pid

-----------------------------------------------------------------------------
(* Life of a child. *)

(* The types LifeInv needs follow from the type invariant. *)
LEMMA TypeInvLifeTypes == TypeInv => LifeTypes
BY DEF TypeInv, TypeOK, KernelTypeOK, DatabaseTypeOK, QueueTypeOK, ManagerTypeOK, LifeTypes

(* A step that leaves lifeVars alone keeps LifeInv. *)
LEMMA LifeStutter == LifeInv /\ UNCHANGED lifeVars => LifeStep
BY DEF LifeInv, LifeStep, RowStep, lifeVars

(* LifeInv holds when the daemon starts. *)
LEMMA InitLife == Init => LifeInv
BY DEF Init, KernelInit, DatabaseInit, QueueInit, ManagerInit, LifeInv

(* Moving rows of a project between lists, in the direction of life. *)
LEMMA MoveLife ==
    ASSUME LifeTypes, LifeInv, NEW pr,
           \/ MoveProjectList(pr, "init", "active")
           \/ MoveProjectList(pr, "init", "shutdown")
           \/ MoveProjectList(pr, "active", "shutdown"),
           UNCHANGED <<os, fd, ipc, sscan>>
    PROVE  LifeStep
BY DEF LifeTypes, LifeInv, LifeStep, RowStep, MoveProjectList

(* Writing START, INIT, IDLE or BUSY. *)
LEMMA SetStateLife ==
    ASSUME LifeTypes, LifeInv, NEW p \in Pid, NEW st \in {"START", "INIT", "IDLE", "BUSY"},
           db_process_set_state(p, st),
           UNCHANGED <<os, fd, psig, sscan>>,
           \A q \in Pid : \/ ipc'[q] = ipc[q]
                          \/ ipc[q] \notin {"none", "add"} /\ ipc'[q] \notin {"none", "add"}
    PROVE  LifeStep
BY DEF LifeTypes, LifeInv, LifeStep, RowStep, db_process_set_state

(* The shutdown thread (qgis_shutdown_queue.c) makes a LifeStep. *)
LEMMA ShutdownThreadLife == TypeInv /\ LifeInv /\ ShutdownThread => LifeStep
<1> SUFFICES ASSUME TypeInv, LifeInv, ShutdownThread
             PROVE  LifeStep
    OBVIOUS
<1> LifeTypes
    BY TypeInvLifeTypes
<1> USE DEF QueueStep, ManagerStep, ConnStep, kernelVars, dbVars, processVars, queueVars,
            managerVars, initVars, lowerVars
<1>1. CASE BeginScan /\ QueueStep
      BY <1>1 DEF LifeTypes, LifeInv, LifeStep, RowStep, BeginScan, InList
<1>2. CASE \E p \in Pid : CheckProcess(p) /\ QueueStep
  <2> USE DEF LifeTypes, LifeInv, LifeStep, RowStep
  <2> PICK p \in Pid : CheckProcess(p) /\ QueueStep
      BY <1>2
  <2>1. plist[p] = "shutdown" /\ os[p] # "none"
        BY DEF CheckProcess
  <2>2. CASE PassProcess(p)
        BY <2>2 DEF CheckProcess, PassProcess
  <2>3. CASE SignalProcess(p)
    <3>1. psig'[p] # "zero"
          BY <2>3, ClockAssumption DEF SignalProcess
    <3> QED BY <2>1, <2>3, <3>1 DEF CheckProcess, SignalProcess, Verdict, AfterTerm, AfterKill,
                Exists
  <2>4. CASE process_manager_cleanup_process(p)
    <3>1. os[p] \in {"killed", "dead"}
          BY <2>1, <2>4 DEF process_manager_cleanup_process, Verdict, Exists, OsState
    <3> QED BY <2>4, <3>1 DEF CheckProcess, process_manager_cleanup_process
  <2> QED BY <2>2, <2>3, <2>4 DEF CheckProcess
<1>3. CASE WeedOut /\ QueueStep
      BY <1>3 DEF LifeTypes, LifeInv, LifeStep, RowStep, WeedOut,
                db_remove_process_with_state_exit, ExitRows, Rows
<1>4. CASE Decide /\ QueueStep
      BY <1>4, LifeStutter DEF Decide, lifeVars
<1>5. CASE WaitTimesOut /\ QueueStep
      BY <1>5, LifeStutter DEF WaitTimesOut, lifeVars
<1>6. CASE WakeUp /\ QueueStep
      BY <1>6, LifeStutter DEF WakeUp, lifeVars
<1>7. CASE DrainCheck /\ QueueStep
      BY <1>7, LifeStutter DEF DrainCheck, lifeVars
<1> QED BY <1>1, <1>2, <1>3, <1>4, <1>5, <1>6, <1>7 DEF ShutdownThread

(* A starter thread (process_manager_start_new_process_wait) makes a LifeStep. *)
LEMMA StarterThreadLife == TypeInv /\ LifeInv /\ (\E s \in Starter : StarterThread(s)) => LifeStep
<1> SUFFICES ASSUME TypeInv, LifeInv, NEW s \in Starter, StarterThread(s)
             PROVE  LifeStep
    OBVIOUS
<1> LifeTypes
    BY TypeInvLifeTypes
<1> USE DEF QueueStep, ManagerStep, ConnStep, kernelVars, dbVars, processVars, queueVars,
            managerVars, initVars, lowerVars
<1>1. CASE StartCheck(s) /\ ManagerStep
      BY <1>1, LifeStutter DEF StartCheck, lifeVars
<1>2. CASE \E p \in Pid : StartNewChild(s, p) /\ ManagerStep
      BY <1>2 DEF LifeTypes, LifeInv, LifeStep, RowStep, StartNewChild, Forked
<1>3. CASE StartNothing(s) /\ ManagerStep
      BY <1>3, LifeStutter DEF StartNothing, lifeVars
<1>4. CASE ExchangeProcesses(s) /\ ManagerStep
      BY <1>4, MoveLife DEF ExchangeProcesses, db_move_all_process_from_active_to_shutdown_list
<1>5. CASE ExchangeNotify(s) /\ ManagerStep
      BY <1>5, LifeStutter DEF ExchangeNotify, qgis_shutdown_notify_changes, lifeVars
<1>6. CASE ExchangeReset(s) /\ ManagerStep
      BY <1>6, LifeStutter DEF ExchangeReset, lifeVars
<1>7. CASE Activate(s) /\ ManagerStep
      BY <1>7, MoveLife DEF Activate, db_move_all_idle_process_from_init_to_active_list
<1>8. CASE ActivateNotify(s) /\ ManagerStep
      BY <1>8, LifeStutter DEF ActivateNotify, qgis_shutdown_notify_changes, lifeVars
<1> QED BY <1>1, <1>2, <1>3, <1>4, <1>5, <1>6, <1>7, <1>8 DEF StarterThread

(* A call of process_manager_restart_process makes a LifeStep. *)
LEMMA RestartProcessLife == TypeInv /\ LifeInv /\ (\E a \in Actor : RestartProcess(a)) => LifeStep
<1> SUFFICES ASSUME TypeInv, LifeInv, NEW a \in Actor, RestartProcess(a)
             PROVE  LifeStep
    OBVIOUS
<1> LifeTypes
    BY TypeInvLifeTypes
<1> USE DEF QueueStep, ManagerStep, ConnStep, kernelVars, dbVars, processVars, queueVars,
            managerVars, initVars, lowerVars
<1>1. CASE RestartStart(a) /\ ManagerStep
      BY <1>1, LifeStutter DEF RestartStart, RestartStays, lifeVars
<1>2. CASE AddProcessMove(a) /\ ManagerStep
      BY <1>2 DEF LifeTypes, LifeInv, LifeStep, RowStep, AddProcessMove, db_move_process_to_list,
                Rows, List, RestartStays
<1>3. CASE AddProcessAssertFails(a) /\ ManagerStep
      BY <1>3, LifeStutter DEF AddProcessAssertFails, RestartStays, lifeVars
<1>4. CASE AddProcessNotify(a) /\ ManagerStep
      BY <1>4, LifeStutter DEF AddProcessNotify, qgis_shutdown_notify_changes, RestartStays,
                lifeVars
<1> QED BY <1>1, <1>2, <1>3, <1>4 DEF RestartProcess

(* The thread that initialises a child (process_manager.c) makes a LifeStep. *)
LEMMA InitThreadLife == TypeInv /\ LifeInv /\ (\E p \in Pid : InitThread(p)) => LifeStep
<1> SUFFICES ASSUME TypeInv, LifeInv, NEW p \in Pid, InitThread(p)
             PROVE  LifeStep
    OBVIOUS
<1> LifeTypes
    BY TypeInvLifeTypes
<1> USE DEF QueueStep, ManagerStep, ConnStep, kernelVars, dbVars, processVars, queueVars,
            managerVars, initVars, lowerVars
<1>1. CASE AddProcess(p) /\ ManagerStep
      BY <1>1 DEF LifeTypes, LifeInv, LifeStep, RowStep, AddProcess, InitStep, db_add_process
<1>2. CASE ConnectInit(p) /\ ManagerStep
  <2>1. \A q \in Pid : \/ ipc'[q] = ipc[q]
                       \/ ipc[q] \notin {"none", "add"} /\ ipc'[q] \notin {"none", "add"}
        BY <1>2 DEF ConnectInit, InitStep, LifeTypes
  <2> QED BY <1>2, <2>1, SetStateLife DEF ConnectInit
<1>3. CASE InitDone(p) /\ ManagerStep
      BY <1>3 DEF LifeTypes, LifeInv, LifeStep, RowStep, InitDone, ReadDone
<1>4. CASE ReadTimesOut(p) /\ ManagerStep
      BY <1>4 DEF LifeTypes, LifeInv, LifeStep, RowStep, ReadTimesOut, InitStep
<1>5. CASE DiedDuringInit(p) /\ ManagerStep
      BY <1>5 DEF LifeTypes, LifeInv, LifeStep, RowStep, DiedDuringInit, ReadDone
<1>6. CASE InitSetIdle(p) /\ ConnStep
      BY <1>6, SetStateLife DEF InitSetIdle, InitStep
<1>7. CASE InitEndsDaemon(p) /\ ManagerStep
      BY <1>7, LifeStutter DEF InitEndsDaemon, lifeVars
<1> QED BY <1>1, <1>2, <1>3, <1>4, <1>5, <1>6, <1>7 DEF InitThread

(* A connection thread (connection_manager.c) makes a LifeStep. *)
LEMMA ConnectionThreadLife ==
    TypeInv /\ LifeInv /\ (\E h \in Conn : ConnectionThread(h)) => LifeStep
<1> SUFFICES ASSUME TypeInv, LifeInv, NEW h \in Conn, ConnectionThread(h)
             PROVE  LifeStep
    OBVIOUS
<1> LifeTypes
    BY TypeInvLifeTypes
<1> USE DEF QueueStep, ManagerStep, ConnStep, kernelVars, dbVars, processVars, queueVars,
            managerVars, initVars, lowerVars
<1>1. CASE CountProcesses(h) /\ ConnStep
      BY <1>1, LifeStutter DEF CountProcesses, lifeVars
<1>2. CASE NoProjectFound(h) /\ ConnStep
      BY <1>2, LifeStutter DEF NoProjectFound, lifeVars
<1>3. CASE TakeProcess(h) /\ ConnStep
  <2>1. CASE TakeIdle(h)
        BY <1>3, <2>1, SetStateLife DEF TakeProcess, TakeIdle, IdleProcesses, InList
  <2>2. CASE UNCHANGED lowerVars
        BY <1>3, <2>2, LifeStutter DEF lifeVars
  <2> QED BY <1>3, <2>1, <2>2 DEF TakeProcess
<1>4. CASE IdleTimesOut(h) /\ ConnStep
      BY <1>4, LifeStutter DEF IdleTimesOut, lifeVars
<1>5. CASE RecheckProcess(h) /\ ConnStep
  <2>1. CASE TakeIdle(h)
        BY <1>5, <2>1, SetStateLife DEF RecheckProcess, TakeIdle, IdleProcesses, InList
  <2>2. CASE UNCHANGED lowerVars
        BY <1>5, <2>2, LifeStutter DEF lifeVars
  <2> QED BY <1>5, <2>1, <2>2 DEF RecheckProcess
<1>6. CASE ConnectChild(h) /\ ConnStep
      BY <1>6, LifeStutter DEF ConnectChild, lifeVars
<1>7. CASE ConnectFails(h) /\ ConnStep
      BY <1>7, LifeStutter DEF ConnectFails, lifeVars
<1>8. CASE ConnRestarted(h) /\ ConnStep
      BY <1>8, LifeStutter DEF ConnRestarted, lifeVars
<1>9. CASE SocketFails(h) /\ ConnStep
      BY <1>9, LifeStutter DEF SocketFails, lifeVars
<1>10. CASE ConnSetIdle(h) /\ ConnStep
  <2>1. hpid[h] \in Pid
        BY <1>10 DEF ConnSetIdle, TypeInv, ConnFacts
  <2> QED BY <1>10, <2>1, SetStateLife DEF ConnSetIdle
<1>11. CASE EndConnection(h) /\ ConnStep
      BY <1>11, LifeStutter DEF EndConnection, lifeVars
<1>12. CASE RetriesOver(h) /\ ConnStep
      BY <1>12, LifeStutter DEF RetriesOver, lifeVars
<1> QED BY <1>1, <1>2, <1>3, <1>4, <1>5, <1>6, <1>7, <1>8, <1>9, <1>10, <1>11,
   <1>12 DEF ConnectionThread

(* main (qgis-schedulerd.c) makes a LifeStep. *)
LEMMA MainThreadLife == TypeInv /\ LifeInv /\ MainThread => LifeStep
<1> SUFFICES ASSUME TypeInv, LifeInv, MainThread
             PROVE  LifeStep
    OBVIOUS
<1> LifeTypes
    BY TypeInvLifeTypes
<1> USE DEF QueueStep, ManagerStep, ConnStep, kernelVars, dbVars, processVars, queueVars,
            managerVars, initVars, lowerVars
<1>1. CASE \E pr \in Project : StartProject(pr) /\ Running
      BY <1>1, LifeStutter DEF StartProject, lifeVars
<1>2. CASE StartupDone /\ Running
      BY <1>2, LifeStutter DEF StartupDone, lifeVars
<1>3. CASE SigChld /\ Running
      BY <1>3, LifeStutter DEF SigChld, lifeVars
<1>4. CASE \E p \in Pid : ProbeProcess(p) /\ Running
      BY <1>4, LifeStutter DEF ProbeProcess, lifeVars
<1>5. CASE ProbesDone /\ Running
      BY <1>5, LifeStutter DEF ProbesDone, lifeVars
<1>6. CASE SigTerm /\ Running
      BY <1>6, LifeStutter DEF SigTerm, lifeVars
<1>7. CASE \E pr \in Project : ShutdownProject(pr) /\ Running
      BY <1>7, MoveLife DEF ShutdownProject, db_move_all_process_from_init_to_shutdown_list
<1>8. CASE ActiveToShutdown /\ Running
      BY <1>8, MoveLife DEF ActiveToShutdown, db_move_all_process_from_active_to_shutdown_list
<1>9. CASE NotifyMoved /\ Running
      BY <1>9, LifeStutter DEF NotifyMoved, qgis_shutdown_notify_changes, lifeVars
<1>10. CASE RemoveProject /\ Running
      BY <1>10, LifeStutter DEF RemoveProject, lifeVars
<1>11. CASE RestartProject /\ Running
      BY <1>11, LifeStutter DEF RestartProject, lifeVars
<1>12. CASE \E pr \in Project : FillProject(pr) /\ Running
      BY <1>12, LifeStutter DEF FillProject, lifeVars
<1>13. CASE HupDone /\ Running
      BY <1>13, LifeStutter DEF HupDone, lifeVars
<1>14. CASE WaitEmpty /\ Running
      BY <1>14, LifeStutter DEF WaitEmpty, qgis_shutdown_wait_empty, lifeVars
<1>15. CASE JoinInotify /\ Running
      BY <1>15, LifeStutter DEF JoinInotify, lifeVars
<1>16. CASE Exit /\ Running
      BY <1>16, LifeStutter DEF Exit, lifeVars
<1> QED BY <1>1, <1>2, <1>3, <1>4, <1>5, <1>6, <1>7, <1>8, <1>9, <1>10, <1>11, <1>12,
           <1>13, <1>14, <1>15, <1>16 DEF MainThread

(* The inotify thread (qgis_inotify.c) makes a LifeStep. *)
LEMMA InotifyThreadLife == TypeInv /\ LifeInv /\ InotifyThread => LifeStep
<1> SUFFICES ASSUME TypeInv, LifeInv, InotifyThread
             PROVE  LifeStep
    OBVIOUS
<1> LifeTypes
    BY TypeInvLifeTypes
<1> USE DEF QueueStep, ManagerStep, ConnStep, kernelVars, dbVars, processVars, queueVars,
            managerVars, initVars, lowerVars
<1>1. CASE \E pr \in Project : ReadConfigEvent(pr) /\ Running
      BY <1>1, LifeStutter DEF ReadConfigEvent, lifeVars
<1>2. CASE RestartProcesses /\ Running
      BY <1>2, LifeStutter DEF RestartProcesses, lifeVars
<1>3. CASE \E d \in Dir : ReadIgnored(d) /\ Running
      BY <1>3, LifeStutter DEF ReadIgnored, lifeVars
<1> QED BY <1>1, <1>2, <1>3 DEF InotifyThread

(* The outside world (deaths, time, clients, files, signals) makes a LifeStep. *)
LEMMA EnvironmentLife == TypeInv /\ LifeInv /\ Environment => LifeStep
<1> SUFFICES ASSUME TypeInv, LifeInv, Environment
             PROVE  LifeStep
    OBVIOUS
<1> LifeTypes
    BY TypeInvLifeTypes
<1> USE DEF QueueStep, ManagerStep, ConnStep, kernelVars, dbVars, processVars, queueVars,
            managerVars, initVars, lowerVars
<1>1. CASE \E p \in Pid : Die(p) /\ UNCHANGED <<dbVars, queueVars>> /\ QueueStep
      BY <1>1 DEF LifeTypes, LifeInv, LifeStep, RowStep, Die, Exists
<1>2. CASE \E p \in Pid : TimeoutPasses(p) /\ QueueStep
      BY <1>2, LifeStutter DEF TimeoutPasses, lifeVars
<1>3. CASE SpuriousWakeup /\ QueueStep
      BY <1>3, LifeStutter DEF SpuriousWakeup, lifeVars
<1>4. CASE \E h \in Conn : IdleSpuriousWakeup(h) /\ ConnStep
      BY <1>4, LifeStutter DEF IdleSpuriousWakeup, lifeVars
<1>5. CASE \E h \in Conn : RelayEnds(h) /\ ConnStep
      BY <1>5, LifeStutter DEF RelayEnds, lifeVars
<1>6. CASE \E h \in Conn : AcceptConnection(h) /\ Running
      BY <1>6, LifeStutter DEF AcceptConnection, Accept, lifeVars
<1>7. CASE \E h \in Conn, pr \in Project \cup {NoProject} : ChooseProject(h, pr) /\ ConnStep
      BY <1>7, LifeStutter DEF ChooseProject, lifeVars
<1>8. CASE \E new \in ConfigFiles : SigHup(new) /\ Running
      BY <1>8, LifeStutter DEF SigHup, lifeVars
<1>9. CASE \E pr \in Project : ConfigWritten(pr) /\ Running
      BY <1>9, LifeStutter DEF ConfigWritten, lifeVars
<1>10. CASE TermArrives /\ Running
      BY <1>10, LifeStutter DEF TermArrives, lifeVars
<1>11. CASE \E h \in Conn : ConnEndsDaemon(h) /\ ConnStep
      BY <1>11, LifeStutter DEF ConnEndsDaemon, lifeVars
<1> QED BY <1>1, <1>2, <1>3, <1>4, <1>5, <1>6, <1>7, <1>8, <1>9, <1>10, <1>11 DEF Environment

(* Every step of the daemon makes a LifeStep. *)
LEMMA NextLife == TypeInv /\ LifeInv /\ [Next]_vars => LifeStep
<1> SUFFICES ASSUME TypeInv, LifeInv, [Next]_vars
             PROVE  LifeStep
    OBVIOUS
<1>1. CASE UNCHANGED vars
      BY <1>1, LifeStutter DEF vars, lifeVars, kernelVars, dbVars, processVars, queueVars,
                managerVars, initVars
<1>2. CASE Next
      BY <1>1, <1>2, ShutdownThreadLife, StarterThreadLife, RestartProcessLife, InitThreadLife,
         ConnectionThreadLife, MainThreadLife, InotifyThreadLife, EnvironmentLife
         DEF Next, Terminated
<1> QED BY <1>1, <1>2

(* What a child's row, its initialising thread and the kernel agree on. *)
THEOREM LifeInvariance == Spec => []LifeInv
<1>1. TypeInv /\ LifeInv /\ [Next]_vars => LifeInv'
      BY NextLife DEF LifeStep
<1> QED BY <1>1, InitLife, TypeInvariance, PTL DEF Spec

(* A signalled process is never again taken for a request: whatever the      *)
(* threads do at the same time, the shutdown thread signals rows of the      *)
(* shutdown list only and no row leaves that list but by its removal.        *)
THEOREM SignalledRetired == Spec => []SignalledIsRetired
<1>1. LifeInv => SignalledIsRetired
      BY DEF LifeInv, SignalledIsRetired
<1> QED BY <1>1, LifeInvariance, PTL

(* The shutdown thread deletes only rows of processes that are dead or got   *)
(* SIGKILL.                                                                  *)
THEOREM RowRemoval == Spec => RowRemovedOnlyWhenGone
<1>1. TypeInv /\ LifeInv /\ [Next]_vars =>
          [\A p \in Pid :
              plist[p] # "none" /\ plist'[p] = "none" => os[p] \in {"killed", "dead"}]_vars
      BY NextLife DEF LifeStep, RowStep
<1> QED BY <1>1, TypeInvariance, LifeInvariance, PTL DEF Spec, RowRemovedOnlyWhenGone

(* No thread moves a row back in the life cycle of database.h. *)
THEOREM ListsForward == Spec => ListsForwardOnly
<1>1. TypeInv /\ LifeInv /\ [Next]_vars =>
          [\A p \in Pid : plist[p] # "none" => ListRank[plist[p]] <= ListRank[plist'[p]]]_vars
  <2> SUFFICES ASSUME TypeInv, LifeInv, [Next]_vars, NEW p \in Pid, plist[p] # "none"
               PROVE  ListRank[plist[p]] <= ListRank[plist'[p]]
      OBVIOUS
  <2>1. RowStep(p)
        BY NextLife DEF LifeStep
  <2>2. plist[p] \in {"init", "active", "shutdown"}
        BY TypeInvLifeTypes DEF LifeTypes, List
  <2> QED BY <2>1, <2>2 DEF RowStep, ListRank
<1> QED BY <1>1, TypeInvariance, LifeInvariance, PTL DEF Spec, ListsForwardOnly

-----------------------------------------------------------------------------
(* How long the shutdown thread waits. *)

(* A signalled process with a row has a signal time, and the thread sleeps   *)
(* without a timeout only if the query sees no signal time and nobody waits  *)
(* for the list to drain. Only the thread itself deletes rows and writes     *)
(* signal times, and it does neither while it waits.                         *)
SleepInv ==
    /\ \A p \in Rows : os[p] \in {"termed", "killed"} => psig[p] # "zero"
    /\ spc = "sleep" => MinSignalTimerEmpty /\ ~do_shutdown_thread
    /\ spc = "timed" => ~MinSignalTimerEmpty

sleepVars == <<os, plist, psig, spc, do_shutdown_thread>>
SleepTypes ==
    /\ LifeTypes
    /\ spc \in SpcLabel
    /\ do_shutdown_thread \in BOOLEAN

(* The types SleepInv needs follow from the type invariant. *)
LEMMA TypeInvSleepTypes == TypeInv => SleepTypes
BY TypeInvLifeTypes DEF TypeInv, TypeOK, DatabaseTypeOK, QueueTypeOK, SleepTypes

(* A step that leaves sleepVars alone keeps SleepInv. *)
LEMMA SleepStutter == SleepInv /\ UNCHANGED sleepVars => SleepInv'
BY DEF SleepInv, sleepVars, Rows, MinSignalTimerEmpty

(* So does one that moves rows from list to list, *)
LEMMA MoveSleep ==
    ASSUME SleepInv, UNCHANGED <<os, psig, spc, do_shutdown_thread>>,
           \A p \in Pid : plist'[p] = "none" <=> plist[p] = "none"
    PROVE  SleepInv'
BY DEF SleepInv, Rows, MinSignalTimerEmpty

(* and one that wakes the thread. *)
LEMMA SignalSleep ==
    ASSUME SleepInv, SignalQueue, UNCHANGED <<os, plist, psig>>,
           do_shutdown_thread' => do_shutdown_thread \/ spc' # "sleep"
    PROVE  SleepInv'
BY DEF SleepInv, Rows, MinSignalTimerEmpty, SignalQueue, Sleeping

(* SleepInv holds when the daemon starts. *)
LEMMA InitSleep == Init => SleepInv
BY DEF Init, DatabaseInit, QueueInit, SleepInv, Rows

(* The shutdown thread (qgis_shutdown_queue.c) keeps SleepInv. *)
LEMMA ShutdownThreadSleep == TypeInv /\ LifeInv /\ SleepInv /\ ShutdownThread => SleepInv'
<1> SUFFICES ASSUME TypeInv, LifeInv, SleepInv, ShutdownThread
             PROVE  SleepInv'
    OBVIOUS
<1> SleepTypes
    BY TypeInvSleepTypes
<1> USE DEF QueueStep, ManagerStep, ConnStep, kernelVars, dbVars, processVars, queueVars,
            managerVars, connVars, mainVars, lowerVars
<1>1. CASE BeginScan /\ QueueStep
      BY <1>1 DEF SleepTypes, SleepInv, Rows, MinSignalTimerEmpty, LifeTypes, BeginScan
<1>2. CASE \E p \in Pid : CheckProcess(p) /\ QueueStep
  <2> PICK p \in Pid : CheckProcess(p) /\ QueueStep
      BY <1>2
  <2>1. CASE PassProcess(p)
        BY <2>1, SleepStutter DEF CheckProcess, PassProcess, sleepVars
  <2>2. CASE SignalProcess(p)
    <3>1. psig'[p] # "zero"
          BY <2>2, ClockAssumption DEF SignalProcess, SleepTypes, LifeTypes
    <3> QED BY <2>2, <3>1 DEF CheckProcess, SignalProcess, AfterTerm, AfterKill, SleepTypes,
       SleepInv, Rows, MinSignalTimerEmpty, LifeTypes
  <2>3. CASE process_manager_cleanup_process(p)
        BY <2>3, SleepStutter DEF CheckProcess, process_manager_cleanup_process, sleepVars
  <2> QED BY <2>1, <2>2, <2>3 DEF CheckProcess
<1>3. CASE WeedOut /\ QueueStep
      BY <1>3 DEF SleepTypes, SleepInv, Rows, MinSignalTimerEmpty, LifeTypes, WeedOut,
         db_remove_process_with_state_exit
<1>4. CASE Decide /\ QueueStep
      BY <1>4 DEF SleepTypes, SleepInv, Rows, MinSignalTimerEmpty, LifeTypes, Decide, AfterWait,
         WaitMode
<1>5. CASE WaitTimesOut /\ QueueStep
      BY <1>5 DEF SleepTypes, SleepInv, Rows, MinSignalTimerEmpty, LifeTypes, WaitTimesOut
<1>6. CASE WakeUp /\ QueueStep
      BY <1>6 DEF SleepTypes, SleepInv, Rows, MinSignalTimerEmpty, LifeTypes, WakeUp, AfterWait
<1>7. CASE DrainCheck /\ QueueStep
      BY <1>7 DEF SleepTypes, SleepInv, Rows, MinSignalTimerEmpty, LifeTypes, DrainCheck
<1> QED BY <1>1, <1>2, <1>3, <1>4, <1>5, <1>6, <1>7 DEF ShutdownThread

(* A starter thread (process_manager_start_new_process_wait) keeps SleepInv. *)
LEMMA StarterThreadSleep ==
    TypeInv /\ LifeInv /\ SleepInv /\ (\E s \in Starter : StarterThread(s)) => SleepInv'
<1> SUFFICES ASSUME TypeInv, LifeInv, SleepInv, NEW s \in Starter, StarterThread(s)
             PROVE  SleepInv'
    OBVIOUS
<1> SleepTypes
    BY TypeInvSleepTypes
<1> USE DEF QueueStep, ManagerStep, ConnStep, kernelVars, dbVars, processVars, queueVars,
            managerVars, connVars, mainVars, lowerVars
<1>1. CASE StartCheck(s) /\ ManagerStep
      BY <1>1, SleepStutter DEF StartCheck, sleepVars
<1>2. CASE \E p \in Pid : StartNewChild(s, p) /\ ManagerStep
      BY <1>2 DEF SleepTypes, SleepInv, Rows, MinSignalTimerEmpty, LifeTypes, StartNewChild, Forked
<1>3. CASE StartNothing(s) /\ ManagerStep
      BY <1>3, SleepStutter DEF StartNothing, sleepVars
<1>4. CASE ExchangeProcesses(s) /\ ManagerStep
      BY <1>4, MoveSleep DEF SleepTypes, LifeTypes, ExchangeProcesses, MoveProjectList,
         db_move_all_process_from_active_to_shutdown_list
<1>5. CASE ExchangeNotify(s) /\ ManagerStep
      BY <1>5, SignalSleep DEF ExchangeNotify, qgis_shutdown_notify_changes
<1>6. CASE ExchangeReset(s) /\ ManagerStep
      BY <1>6, SleepStutter DEF ExchangeReset, sleepVars
<1>7. CASE Activate(s) /\ ManagerStep
      BY <1>7, MoveSleep DEF SleepTypes, LifeTypes, Activate, MoveProjectList,
         db_move_all_idle_process_from_init_to_active_list
<1>8. CASE ActivateNotify(s) /\ ManagerStep
      BY <1>8, SignalSleep DEF ActivateNotify, qgis_shutdown_notify_changes
<1> QED BY <1>1, <1>2, <1>3, <1>4, <1>5, <1>6, <1>7, <1>8 DEF StarterThread

(* A call of process_manager_restart_process keeps SleepInv. *)
LEMMA RestartProcessSleep ==
    TypeInv /\ LifeInv /\ SleepInv /\ (\E a \in Actor : RestartProcess(a)) => SleepInv'
<1> SUFFICES ASSUME TypeInv, LifeInv, SleepInv, NEW a \in Actor, RestartProcess(a)
             PROVE  SleepInv'
    OBVIOUS
<1> SleepTypes
    BY TypeInvSleepTypes
<1> USE DEF QueueStep, ManagerStep, ConnStep, kernelVars, dbVars, processVars, queueVars,
            managerVars, connVars, mainVars, lowerVars
<1>1. CASE RestartStart(a) /\ ManagerStep
      BY <1>1, SleepStutter DEF RestartStart, RestartStays, sleepVars
<1>2. CASE AddProcessMove(a) /\ ManagerStep
      BY <1>2, MoveSleep DEF SleepTypes, LifeTypes, Rows, AddProcessMove, RestartStays,
         db_move_process_to_list
<1>3. CASE AddProcessAssertFails(a) /\ ManagerStep
      BY <1>3, SleepStutter DEF AddProcessAssertFails, RestartStays, sleepVars
<1>4. CASE AddProcessNotify(a) /\ ManagerStep
      BY <1>4, SignalSleep DEF AddProcessNotify, qgis_shutdown_notify_changes, RestartStays
<1> QED BY <1>1, <1>2, <1>3, <1>4 DEF RestartProcess

(* The thread that initialises a child (process_manager.c) keeps SleepInv. *)
LEMMA InitThreadSleep ==
    TypeInv /\ LifeInv /\ SleepInv /\ (\E p \in Pid : InitThread(p)) => SleepInv'
<1> SUFFICES ASSUME TypeInv, LifeInv, SleepInv, NEW p \in Pid, InitThread(p)
             PROVE  SleepInv'
    OBVIOUS
<1> SleepTypes
    BY TypeInvSleepTypes
<1> USE DEF QueueStep, ManagerStep, ConnStep, kernelVars, dbVars, processVars, queueVars,
            managerVars, connVars, mainVars, lowerVars
<1>1. CASE AddProcess(p) /\ ManagerStep
      BY <1>1 DEF SleepTypes, SleepInv, Rows, MinSignalTimerEmpty, LifeTypes, LifeInv,
         AddProcess, InitStep, db_add_process
<1>2. CASE ConnectInit(p) /\ ManagerStep
      BY <1>2, SleepStutter DEF ConnectInit, db_process_set_state, sleepVars
<1>3. CASE InitDone(p) /\ ManagerStep
      BY <1>3, SleepStutter DEF InitDone, sleepVars
<1>4. CASE ReadTimesOut(p) /\ ManagerStep
      BY <1>4, SleepStutter DEF ReadTimesOut, sleepVars
<1>5. CASE DiedDuringInit(p) /\ ManagerStep
      BY <1>5, SleepStutter DEF DiedDuringInit, sleepVars
<1>6. CASE InitSetIdle(p) /\ ConnStep
      BY <1>6, SleepStutter DEF InitSetIdle, db_process_set_state, sleepVars
<1>7. CASE InitEndsDaemon(p) /\ ManagerStep
      BY <1>7, SleepStutter DEF InitEndsDaemon, sleepVars
<1> QED BY <1>1, <1>2, <1>3, <1>4, <1>5, <1>6, <1>7 DEF InitThread

(* A connection thread (connection_manager.c) keeps SleepInv. *)
LEMMA ConnectionThreadSleep ==
    TypeInv /\ LifeInv /\ SleepInv /\ (\E h \in Conn : ConnectionThread(h)) => SleepInv'
<1> SUFFICES ASSUME TypeInv, LifeInv, SleepInv, NEW h \in Conn, ConnectionThread(h)
             PROVE  SleepInv'
    OBVIOUS
<1> SleepTypes
    BY TypeInvSleepTypes
<1> USE DEF QueueStep, ManagerStep, ConnStep, kernelVars, dbVars, processVars, queueVars,
            managerVars, connVars, mainVars, lowerVars
<1>1. CASE CountProcesses(h) /\ ConnStep
      BY <1>1, SleepStutter DEF CountProcesses, sleepVars
<1>2. CASE NoProjectFound(h) /\ ConnStep
      BY <1>2, SleepStutter DEF NoProjectFound, sleepVars
<1>3. CASE TakeProcess(h) /\ ConnStep
      BY <1>3, SleepStutter DEF TakeProcess, TakeIdle, db_process_set_state, sleepVars
<1>4. CASE IdleTimesOut(h) /\ ConnStep
      BY <1>4, SleepStutter DEF IdleTimesOut, sleepVars
<1>5. CASE RecheckProcess(h) /\ ConnStep
      BY <1>5, SleepStutter DEF RecheckProcess, TakeIdle, db_process_set_state, sleepVars
<1>6. CASE ConnectChild(h) /\ ConnStep
      BY <1>6, SleepStutter DEF ConnectChild, sleepVars
<1>7. CASE ConnectFails(h) /\ ConnStep
      BY <1>7, SleepStutter DEF ConnectFails, sleepVars
<1>8. CASE ConnRestarted(h) /\ ConnStep
      BY <1>8, SleepStutter DEF ConnRestarted, sleepVars
<1>9. CASE SocketFails(h) /\ ConnStep
      BY <1>9, SleepStutter DEF SocketFails, sleepVars
<1>10. CASE ConnSetIdle(h) /\ ConnStep
      BY <1>10, SleepStutter DEF ConnSetIdle, db_process_set_state, sleepVars
<1>11. CASE EndConnection(h) /\ ConnStep
      BY <1>11, SleepStutter DEF EndConnection, sleepVars
<1>12. CASE RetriesOver(h) /\ ConnStep
      BY <1>12, SleepStutter DEF RetriesOver, sleepVars
<1> QED BY <1>1, <1>2, <1>3, <1>4, <1>5, <1>6, <1>7, <1>8, <1>9, <1>10, <1>11,
   <1>12 DEF ConnectionThread

(* main (qgis-schedulerd.c) keeps SleepInv. *)
LEMMA MainThreadSleep == TypeInv /\ LifeInv /\ SleepInv /\ MainThread => SleepInv'
<1> SUFFICES ASSUME TypeInv, LifeInv, SleepInv, MainThread
             PROVE  SleepInv'
    OBVIOUS
<1> SleepTypes
    BY TypeInvSleepTypes
<1> USE DEF QueueStep, ManagerStep, ConnStep, kernelVars, dbVars, processVars, queueVars,
            managerVars, connVars, mainVars, lowerVars
<1>1. CASE \E pr \in Project : StartProject(pr) /\ Running
      BY <1>1, SleepStutter DEF StartProject, sleepVars
<1>2. CASE StartupDone /\ Running
      BY <1>2, SleepStutter DEF StartupDone, sleepVars
<1>3. CASE SigChld /\ Running
      BY <1>3, SleepStutter DEF SigChld, sleepVars
<1>4. CASE \E p \in Pid : ProbeProcess(p) /\ Running
      BY <1>4, SleepStutter DEF ProbeProcess, sleepVars
<1>5. CASE ProbesDone /\ Running
      BY <1>5, SleepStutter DEF ProbesDone, sleepVars
<1>6. CASE SigTerm /\ Running
      BY <1>6, SleepStutter DEF SigTerm, sleepVars
<1>7. CASE \E pr \in Project : ShutdownProject(pr) /\ Running
      BY <1>7, MoveSleep DEF SleepTypes, LifeTypes, ShutdownProject, MoveProjectList,
         db_move_all_process_from_init_to_shutdown_list
<1>8. CASE ActiveToShutdown /\ Running
      BY <1>8, MoveSleep DEF SleepTypes, LifeTypes, ActiveToShutdown, MoveProjectList,
         db_move_all_process_from_active_to_shutdown_list, MainStep
<1>9. CASE NotifyMoved /\ Running
      BY <1>9, SignalSleep DEF NotifyMoved, qgis_shutdown_notify_changes
<1>10. CASE RemoveProject /\ Running
      BY <1>10, SleepStutter DEF RemoveProject, sleepVars
<1>11. CASE RestartProject /\ Running
      BY <1>11, SleepStutter DEF RestartProject, sleepVars
<1>12. CASE \E pr \in Project : FillProject(pr) /\ Running
      BY <1>12, SleepStutter DEF FillProject, sleepVars
<1>13. CASE HupDone /\ Running
      BY <1>13, SleepStutter DEF HupDone, sleepVars
<1>14. CASE WaitEmpty /\ Running
  <2>1. spc' # "sleep"
        BY <1>14 DEF WaitEmpty, qgis_shutdown_wait_empty, SignalQueue, Sleeping
  <2> QED BY <1>14, <2>1, SignalSleep DEF WaitEmpty, qgis_shutdown_wait_empty
<1>15. CASE JoinInotify /\ Running
      BY <1>15, SleepStutter DEF JoinInotify, sleepVars
<1>16. CASE Exit /\ Running
      BY <1>16, SleepStutter DEF Exit, sleepVars
<1> QED BY <1>1, <1>2, <1>3, <1>4, <1>5, <1>6, <1>7, <1>8, <1>9, <1>10, <1>11, <1>12, <1>13,
   <1>14, <1>15, <1>16 DEF MainThread

(* The inotify thread (qgis_inotify.c) keeps SleepInv. *)
LEMMA InotifyThreadSleep == TypeInv /\ LifeInv /\ SleepInv /\ InotifyThread => SleepInv'
<1> SUFFICES ASSUME TypeInv, LifeInv, SleepInv, InotifyThread
             PROVE  SleepInv'
    OBVIOUS
<1> SleepTypes
    BY TypeInvSleepTypes
<1> USE DEF QueueStep, ManagerStep, ConnStep, kernelVars, dbVars, processVars, queueVars,
            managerVars, connVars, mainVars, lowerVars
<1>1. CASE \E pr \in Project : ReadConfigEvent(pr) /\ Running
      BY <1>1, SleepStutter DEF ReadConfigEvent, sleepVars
<1>2. CASE RestartProcesses /\ Running
      BY <1>2, SleepStutter DEF RestartProcesses, sleepVars
<1>3. CASE \E d \in Dir : ReadIgnored(d) /\ Running
      BY <1>3, SleepStutter DEF ReadIgnored, sleepVars
<1> QED BY <1>1, <1>2, <1>3 DEF InotifyThread

(* The outside world (deaths, time, clients, files, signals) keeps SleepInv. *)
LEMMA EnvironmentSleep == TypeInv /\ LifeInv /\ SleepInv /\ Environment => SleepInv'
<1> SUFFICES ASSUME TypeInv, LifeInv, SleepInv, Environment
             PROVE  SleepInv'
    OBVIOUS
<1> SleepTypes
    BY TypeInvSleepTypes
<1> USE DEF QueueStep, ManagerStep, ConnStep, kernelVars, dbVars, processVars, queueVars,
            managerVars, connVars, mainVars, lowerVars
<1>1. CASE \E p \in Pid : Die(p) /\ UNCHANGED <<dbVars, queueVars>> /\ QueueStep
      BY <1>1 DEF SleepTypes, SleepInv, Rows, MinSignalTimerEmpty, LifeTypes, Die
<1>2. CASE \E p \in Pid : TimeoutPasses(p) /\ QueueStep
      BY <1>2, SleepStutter DEF TimeoutPasses, sleepVars
<1>3. CASE SpuriousWakeup /\ QueueStep
      BY <1>3 DEF SleepTypes, SleepInv, Rows, MinSignalTimerEmpty, LifeTypes, SpuriousWakeup
<1>4. CASE \E h \in Conn : IdleSpuriousWakeup(h) /\ ConnStep
      BY <1>4, SleepStutter DEF IdleSpuriousWakeup, sleepVars
<1>5. CASE \E h \in Conn : RelayEnds(h) /\ ConnStep
      BY <1>5, SleepStutter DEF RelayEnds, sleepVars
<1>6. CASE \E h \in Conn : AcceptConnection(h) /\ Running
      BY <1>6, SleepStutter DEF AcceptConnection, Accept, sleepVars
<1>7. CASE \E h \in Conn, pr \in Project \cup {NoProject} : ChooseProject(h, pr) /\ ConnStep
      BY <1>7, SleepStutter DEF ChooseProject, sleepVars
<1>8. CASE \E new \in ConfigFiles : SigHup(new) /\ Running
      BY <1>8, SleepStutter DEF SigHup, sleepVars
<1>9. CASE \E pr \in Project : ConfigWritten(pr) /\ Running
      BY <1>9, SleepStutter DEF ConfigWritten, sleepVars
<1>10. CASE TermArrives /\ Running
      BY <1>10, SleepStutter DEF TermArrives, sleepVars
<1>11. CASE \E h \in Conn : ConnEndsDaemon(h) /\ ConnStep
      BY <1>11, SleepStutter DEF ConnEndsDaemon, sleepVars
<1> QED BY <1>1, <1>2, <1>3, <1>4, <1>5, <1>6, <1>7, <1>8, <1>9, <1>10, <1>11 DEF Environment

(* Every step of the daemon keeps SleepInv. *)
LEMMA NextSleep == TypeInv /\ LifeInv /\ SleepInv /\ [Next]_vars => SleepInv'
<1> SUFFICES ASSUME TypeInv, LifeInv, SleepInv, [Next]_vars
             PROVE  SleepInv'
    OBVIOUS
<1>1. CASE UNCHANGED vars
      BY <1>1, SleepStutter DEF vars, sleepVars, kernelVars, dbVars, processVars, queueVars
<1>2. CASE Next
      BY <1>1, <1>2, ShutdownThreadSleep, StarterThreadSleep, RestartProcessSleep, InitThreadSleep,
         ConnectionThreadSleep, MainThreadSleep, InotifyThreadSleep, EnvironmentSleep
         DEF Next, Terminated
<1> QED BY <1>1, <1>2

(* Every step of the daemon keeps SleepInv, which holds at the start. *)
LEMMA SleepInvariance == Spec => []SleepInv
BY InitSleep, NextSleep, TypeInvariance, LifeInvariance, PTL DEF Spec

(* Whatever the other threads do between a scan and the wait, the shutdown   *)
(* thread sleeps without a timeout only over signalled processes whose time  *)
(* of the signal db_shutdown_get_min_signaltimer does not see.               *)
THEOREM SignalledRemembered == Spec => []KillNotForgotten
<1>1. TypeInv /\ SleepInv => KillNotForgotten
      BY TypeInvSleepTypes
         DEF SleepInv, SleepTypes, LifeTypes, SignalTime, MinSignalTimerEmpty, Rows,
             KillNotForgotten
<1> QED BY <1>1, SleepInvariance, TypeInvariance, PTL

(* From qgis_shutdown_wait_empty on, each wait of the shutdown thread ends.  *)
THEOREM DrainContinues == Spec => []DrainGoesOn
<1>1. SleepInv => DrainGoesOn
      BY DEF SleepInv, MinSignalTimerEmpty, DrainGoesOn
<1> QED BY <1>1, SleepInvariance, PTL
=============================================================================
