------------------------ MODULE SchedulerTypeProofs ------------------------
(* Type correctness of the daemon, for every number of pids, projects,       *)
(* threads and connections, proved with TLAPS.                               *)
(*                                                                          *)
(* TypeOK alone is not inductive: a step that uses the project of a starter  *)
(* or of a row, or the pid of a call or of a connection, is well typed only  *)
(* because of where its thread is. TypeInv adds those facts.                 *)
EXTENDS SchedulerProperties, FiniteSetTheorems, TLAPS

(* A starter thread knows its project, and outlives the threads it joins. *)
StarterFacts ==
    /\ \A s \in Starter : tpc[s] # "free" => tproj[s] \in Project
    /\ \A p \in Pid : ipc[p] \notin {"none", "ended", "overlooked"} =>
                          owner[p] \in Starter /\ tpc[owner[p]] = "spawn"

(* The part of ManagerTypeOK that a new starter thread concerns. *)
StarterTypes ==
    /\ tpc \in [Starter -> TpcLabel]
    /\ tproj \in [Starter -> Project \cup {NoProject}]
    /\ tnum \in [Starter -> Nat]
    /\ texch \in [Starter -> BOOLEAN]

(* What the arguments of a running call are. *)
CallFacts ==
    /\ \A p \in Pid : plist[p] # "none" => pproj[p] \in Project
    /\ \A a \in Actor : rpc[a] # "no" => rpid[a] \in Pid
    /\ npc = "count" => nproj \in Project
    /\ mpc \in {"notify1", "act2sd", "notify2", "rmproj", "restart"} => mproj \in Project

(* Where a connection thread holds a process. *)
ConnFacts ==
    \A h \in Conn :
        hpc[h] \in {"connect", "restart", "serve", "setidle"} <=> hpid[h] \in Pid

TypeInv == TypeOK /\ StarterFacts /\ CallFacts /\ ConnFacts

-----------------------------------------------------------------------------

(* The type invariant holds when the daemon starts. *)
LEMMA InitType == Init => TypeInv
<1> SUFFICES ASSUME Init
             PROVE  TypeInv
    OBVIOUS
<1> USE DEF Init, KernelInit, DatabaseInit, ConfigInit, QueueInit, ManagerInit, ConnInit
<1>1. KernelTypeOK
      BY DEF KernelTypeOK, OsState
<1>2. DatabaseTypeOK
      BY DEF DatabaseTypeOK, List, State, SignalTime
<1>3. QueueTypeOK
      BY DEF QueueTypeOK, SpcLabel
<1>4. ManagerTypeOK
      BY DEF ManagerTypeOK, TpcLabel, IpcLabel, RpcLabel
<1>5. ConnTypeOK
      BY RetryAssumption DEF ConnTypeOK, HpcLabel, Answer
<1>6. SchedulerTypeOK
  <2>1. changes \in 0..MaxConfigChanges /\ reloads \in 0..MaxReloads
        BY TermAssumption
  <2> QED BY <2>1 DEF SchedulerTypeOK, MpcLabel
<1>7. StarterFacts /\ CallFacts
      BY DEF StarterFacts, CallFacts
<1>8. ConnFacts
      BY PidAssumption DEF ConnFacts
<1>9. ConfigTypeOK
      BY ConfigAssumption DEF ConfigTypeOK, Config, Sections
<1> QED BY <1>1, <1>2, <1>3, <1>4, <1>5, <1>6, <1>7, <1>8, <1>9 DEF TypeInv, TypeOK

(* The shutdown thread (qgis_shutdown_queue.c) keeps the type invariant. *)
LEMMA ShutdownThreadType == TypeInv /\ ShutdownThread => TypeInv'
<1> SUFFICES ASSUME TypeInv, ShutdownThread
             PROVE  TypeInv'
    OBVIOUS
<1> USE DEF TypeInv, TypeOK, StarterFacts, CallFacts, ConnFacts, KernelTypeOK, DatabaseTypeOK,
            QueueTypeOK, ManagerTypeOK, ConnTypeOK,
            ConfigTypeOK, SchedulerTypeOK, QueueStep, kernelVars,
            dbVars, processVars, projectVars, queueVars, managerVars, starterVars, initVars,
            restartVars, connVars, mainVars, reloadVars,
            sectionVars, inotifyVars
<1>1. CASE BeginScan /\ QueueStep
      BY <1>1 DEF BeginScan, InList, SpcLabel
<1>2. CASE \E p \in Pid : CheckProcess(p) /\ QueueStep
  <2> PICK p \in Pid : CheckProcess(p) /\ QueueStep
      BY <1>2
  <2>1. CASE PassProcess(p)
        BY <2>1 DEF CheckProcess, PassProcess
  <2>2. CASE SignalProcess(p)
        BY <2>2, ClockAssumption
           DEF CheckProcess, SignalProcess, AfterTerm, AfterKill, OsState, State, SignalTime
  <2>3. CASE process_manager_cleanup_process(p)
        BY <2>3 DEF CheckProcess, process_manager_cleanup_process, State
  <2> QED BY <2>1, <2>2, <2>3 DEF CheckProcess
<1>3. CASE WeedOut /\ QueueStep
      BY <1>3 DEF WeedOut, db_remove_process_with_state_exit, ExitRows, Rows, SpcLabel, List,
                State, SignalTime
<1>4. CASE Decide /\ QueueStep
  <2>1. WaitMode \in SpcLabel /\ AfterWait \in SpcLabel
        BY DEF WaitMode, AfterWait, SpcLabel, Sleeping
  <2>2. spc' \in SpcLabel /\ has_list_change' = FALSE
        BY <1>4, <2>1 DEF Decide
  <2> QED BY <1>4, <2>2 DEF Decide
<1>5. CASE WaitTimesOut /\ QueueStep
      BY <1>5 DEF WaitTimesOut, SpcLabel
<1>6. CASE WakeUp /\ QueueStep
      BY <1>6 DEF WakeUp, AfterWait, SpcLabel
<1>7. CASE DrainCheck /\ QueueStep
      BY <1>7 DEF DrainCheck, SpcLabel
<1> QED BY <1>1, <1>2, <1>3, <1>4, <1>5, <1>6, <1>7 DEF ShutdownThread

(* Starting a thread for a project keeps the facts about starter threads. *)
LEMMA StartType ==
    ASSUME TypeInv, NEW num \in Nat, NEW pr \in Project, NEW exchange \in BOOLEAN,
           process_manager_start_new_process_detached(num, pr, exchange),
           UNCHANGED initVars
    PROVE  StarterTypes' /\ StarterFacts'
<1> USE DEF TypeInv, TypeOK, ManagerTypeOK, StarterTypes, StarterFacts, initVars
<1>1. CASE FreeStarters = {} /\ UNCHANGED starterVars
      BY <1>1 DEF starterVars
<1>2. ASSUME NEW s \in FreeStarters,
             /\ tpc' = [tpc EXCEPT ![s] = "check"]
             /\ tproj' = [tproj EXCEPT ![s] = pr]
             /\ tnum' = [tnum EXCEPT ![s] = num]
             /\ texch' = [texch EXCEPT ![s] = exchange]
      PROVE  StarterTypes' /\ StarterFacts'
  <2>1. s \in Starter /\ tpc[s] = "free"
        BY DEF FreeStarters
  <2>2. tpc' \in [Starter -> TpcLabel] /\ tproj' \in [Starter -> Project \cup {NoProject}]
        BY <1>2, <2>1 DEF TpcLabel
  <2>3. tnum' \in [Starter -> Nat] /\ texch' \in [Starter -> BOOLEAN]
        BY <1>2, <2>1
  <2>4. StarterFacts'
        BY <1>2, <2>1
  <2> QED BY <2>2, <2>3, <2>4
<1> QED BY <1>1, <1>2 DEF process_manager_start_new_process_detached

(* A starter thread (process_manager_start_new_process_wait) keeps the type invariant. *)
LEMMA StarterThreadType == TypeInv /\ (\E s \in Starter : StarterThread(s)) => TypeInv'
<1> SUFFICES ASSUME TypeInv, NEW s \in Starter, StarterThread(s)
             PROVE  TypeInv'
    OBVIOUS
<1> USE DEF TypeInv, TypeOK, StarterFacts, CallFacts, ConnFacts, KernelTypeOK, DatabaseTypeOK,
            QueueTypeOK, ManagerTypeOK, ConnTypeOK,
            ConfigTypeOK, SchedulerTypeOK, ManagerStep, kernelVars,
            dbVars, processVars, projectVars, queueVars, managerVars, starterVars, initVars,
            restartVars, connVars, mainVars, reloadVars,
            sectionVars, inotifyVars
<1>1. CASE StartCheck(s) /\ ManagerStep
  <2>1. CASE ~StarterGoesOn(s) /\ exited' = "failure" /\ UNCHANGED starterVars
        BY <1>1, <2>1 DEF StartCheck
  <2>2. CASE tpc' = [tpc EXCEPT ![s] = "spawn"] /\ UNCHANGED <<exited, tproj, tnum, texch>>
        BY <1>1, <2>2 DEF StartCheck, TpcLabel
  <2>3. CASE EndStarter(s) /\ UNCHANGED exited
        BY <1>1, <2>3 DEF StartCheck, EndStarter, TpcLabel
  <2> QED BY <1>1, <2>1, <2>2, <2>3 DEF StartCheck
<1>2. CASE \E p \in Pid : StartNewChild(s, p) /\ ManagerStep
      BY <1>2 DEF StartNewChild, Forked, OsState, IpcLabel
<1>3. CASE StartNothing(s) /\ ManagerStep
      BY <1>3 DEF StartNothing
<1>4. CASE ExchangeProcesses(s) /\ ManagerStep
      BY <1>4 DEF ExchangeProcesses, Joined, Disown,
                db_move_all_process_from_active_to_shutdown_list, MoveProjectList, List, TpcLabel
<1>5. CASE ExchangeNotify(s) /\ ManagerStep
      BY <1>5 DEF ExchangeNotify, qgis_shutdown_notify_changes, SignalQueue, SpcLabel, Sleeping,
                TpcLabel
<1>6. CASE ExchangeReset(s) /\ ManagerStep
      BY <1>6 DEF ExchangeReset, db_reset_startup_failures, TpcLabel
<1>7. CASE Activate(s) /\ ManagerStep
      BY <1>7 DEF Activate, Joined, Disown, db_move_all_idle_process_from_init_to_active_list,
                MoveProjectList, List, TpcLabel
<1>8. CASE ActivateNotify(s) /\ ManagerStep
      BY <1>8 DEF ActivateNotify, EndStarter, qgis_shutdown_notify_changes, SignalQueue,
                SpcLabel, Sleeping, TpcLabel
<1> QED BY <1>1, <1>2, <1>3, <1>4, <1>5, <1>6, <1>7, <1>8 DEF StarterThread

(* A call of process_manager_restart_process keeps the type invariant. *)
LEMMA RestartProcessType == TypeInv /\ (\E a \in Actor : RestartProcess(a)) => TypeInv'
<1> SUFFICES ASSUME TypeInv, NEW a \in Actor, RestartProcess(a)
             PROVE  TypeInv'
    OBVIOUS
<1> USE DEF TypeInv, TypeOK, StarterFacts, CallFacts, ConnFacts, KernelTypeOK, DatabaseTypeOK,
            QueueTypeOK, ManagerTypeOK, ConnTypeOK,
            ConfigTypeOK, SchedulerTypeOK, ManagerStep, kernelVars,
            dbVars, processVars, projectVars, queueVars, managerVars, starterVars, initVars,
            restartVars, connVars, mainVars, reloadVars,
            sectionVars, inotifyVars, RestartStays
<1>1. CASE RestartStart(a) /\ ManagerStep
  <2>1. rpid[a] \in Pid
        BY <1>1 DEF RestartStart
  <2>2. CASE UNCHANGED starterVars
        BY <1>1, <2>2 DEF RestartStart, RpcLabel
  <2>3. CASE /\ InService(rpid[a])
             /\ process_manager_start_new_process_detached(1, pproj[rpid[a]], FALSE)
    <3>1. pproj[rpid[a]] \in Project
          BY <2>1, <2>3 DEF InService
    <3> HIDE DEF StarterFacts
    <3>2. StarterTypes' /\ StarterFacts'
          BY <1>1, <2>3, <3>1, StartType DEF RestartStart
    <3> QED BY <1>1, <3>2 DEF RestartStart, RpcLabel, StarterTypes
  <2> QED BY <1>1, <2>1, <2>2, <2>3 DEF RestartStart, StartReplacement
<1>2. CASE AddProcessMove(a) /\ ManagerStep
      BY <1>2 DEF AddProcessMove, db_move_process_to_list, Rows, List, RpcLabel
<1>3. CASE AddProcessAssertFails(a) /\ ManagerStep
      BY <1>3 DEF AddProcessAssertFails
<1>4. CASE AddProcessNotify(a) /\ ManagerStep
      BY <1>4 DEF AddProcessNotify, qgis_shutdown_notify_changes, SignalQueue, SpcLabel,
                Sleeping, RpcLabel
<1> QED BY <1>1, <1>2, <1>3, <1>4 DEF RestartProcess

(* The thread that initialises a child (process_manager.c) keeps the type invariant. *)
LEMMA InitThreadType == TypeInv /\ (\E p \in Pid : InitThread(p)) => TypeInv'
<1> SUFFICES ASSUME TypeInv, NEW p \in Pid, InitThread(p)
             PROVE  TypeInv'
    OBVIOUS
<1> USE DEF TypeInv, TypeOK, StarterFacts, CallFacts, ConnFacts, KernelTypeOK, DatabaseTypeOK,
            QueueTypeOK, ManagerTypeOK, ConnTypeOK,
            ConfigTypeOK, SchedulerTypeOK, ManagerStep, ConnStep,
            kernelVars, dbVars, processVars, projectVars, queueVars, managerVars, starterVars,
            initVars, restartVars, connVars, mainVars, reloadVars,
            sectionVars, inotifyVars
<1>1. CASE AddProcess(p) /\ ManagerStep
      BY <1>1 DEF AddProcess, InitStep, db_add_process, List, State, SignalTime, IpcLabel
<1>2. CASE ConnectInit(p) /\ ManagerStep
  <2>1. /\ ipc[p] = "connect"
        /\ ipc' \in [Pid -> IpcLabel]
        /\ \A q \in Pid : q # p => ipc'[q] = ipc[q]
        BY <1>2 DEF ConnectInit, InitStep, IpcLabel
  <2>2. /\ rpc' \in [Actor -> RpcLabel] /\ rpid' \in [Actor -> Pid \cup {NoPid}]
        /\ \A a \in Actor : rpc'[a] # "no" => rpid'[a] \in Pid
        BY <1>2 DEF ConnectInit, CallRestart, RpcLabel, Actor
  <2>3. DatabaseTypeOK' /\ UNCHANGED <<plist, pproj>>
        BY <1>2 DEF ConnectInit, db_process_set_state, State
  <2> QED BY <1>2, <2>1, <2>2, <2>3 DEF ConnectInit
<1>3. CASE InitDone(p) /\ ManagerStep
      BY <1>3 DEF InitDone, ReadDone, IpcLabel
<1>4. CASE ReadTimesOut(p) /\ ManagerStep
  <2>1. ipc[p] \in {"read", "readdead"} /\ ipc' = [ipc EXCEPT ![p] = "crash"]
        BY <1>4 DEF ReadTimesOut, InitStep
  <2> QED BY <1>4, <2>1 DEF ReadTimesOut, CallRestart, IpcLabel, RpcLabel, Actor
<1>5. CASE DiedDuringInit(p) /\ ManagerStep
      BY <1>5 DEF DiedDuringInit, ReadDone, db_inc_startup_failures, IpcLabel
<1>6. CASE InitSetIdle(p) /\ ConnStep
      BY <1>6 DEF InitSetIdle, InitStep, db_process_set_state, IdleSignalled, Waiting, State,
                IpcLabel, HpcLabel
<1>7. CASE InitEndsDaemon(p) /\ ManagerStep
      BY <1>7 DEF InitEndsDaemon
<1> QED BY <1>1, <1>2, <1>3, <1>4, <1>5, <1>6, <1>7 DEF InitThread

(* A connection thread (connection_manager.c) keeps the type invariant. *)
LEMMA ConnectionThreadType == TypeInv /\ (\E h \in Conn : ConnectionThread(h)) => TypeInv'
<1> SUFFICES ASSUME TypeInv, NEW h \in Conn, ConnectionThread(h)
             PROVE  TypeInv'
    OBVIOUS
<1> USE DEF TypeInv, TypeOK, StarterFacts, CallFacts, ConnFacts, KernelTypeOK, DatabaseTypeOK,
            QueueTypeOK, ManagerTypeOK, ConnTypeOK,
            ConfigTypeOK, SchedulerTypeOK, ConnStep, lowerVars,
            kernelVars, dbVars, processVars, projectVars, queueVars, managerVars, starterVars,
            initVars, restartVars, connVars, mainVars, reloadVars,
            sectionVars, inotifyVars
<1>1. CASE CountProcesses(h) /\ ConnStep
  <2>1. hproj[h] \in Project
        BY <1>1 DEF CountProcesses
  <2>2. hret' \in [Conn -> 0..MAX_CHILD_COMMUNICATION_RETRY]
        BY <1>1, RetryAssumption DEF CountProcesses, RetriesLeft
  <2>3. CASE UNCHANGED starterVars
        BY <1>1, <2>2, <2>3 DEF CountProcesses, HpcLabel
  <2>4. CASE process_manager_start_new_process_detached(1, hproj[h], FALSE)
    <3> HIDE DEF StarterFacts
    <3>1. StarterTypes' /\ StarterFacts'
          BY <1>1, <2>1, <2>4, StartType DEF CountProcesses
    <3> QED BY <1>1, <2>2, <3>1 DEF CountProcesses, HpcLabel, StarterTypes
  <2> QED BY <1>1, <2>3, <2>4 DEF CountProcesses
<1>2. CASE NoProjectFound(h) /\ ConnStep
      BY <1>2, RetryAssumption DEF NoProjectFound, Abort, send_fcgi_abort_to_web_client,
                Answer, HpcLabel
<1>a. ASSUME TakeIdle(h), ConnStep, hpc[h] \in {"take", "recheck"}
       PROVE  TypeInv'
  <2> PICK p \in Pid : /\ db_process_set_state(p, "BUSY")
                      /\ hpid' = [hpid EXCEPT ![h] = p]
                      /\ hpc' = [hpc EXCEPT ![h] = "connect"]
      BY <1>a DEF TakeIdle, IdleProcesses, InList
  <2>1. /\ UNCHANGED <<kernelVars, psig, projectVars, queueVars, managerVars, hproj, hret, hans>>
        /\ UNCHANGED <<mainVars, inotifyVars>>
        BY <1>a DEF TakeIdle
  <2>2. DatabaseTypeOK' /\ ConnTypeOK'
        BY <2>1 DEF db_process_set_state, State, HpcLabel
  <2>3. ConnFacts'
        BY <1>a, <2>1
  <2>4. StarterFacts' /\ CallFacts'
        BY <2>1 DEF db_process_set_state
  <2>5. KernelTypeOK' /\ ConfigTypeOK' /\ QueueTypeOK' /\ ManagerTypeOK' /\ SchedulerTypeOK'
        BY <2>1
  <2> QED BY <2>2, <2>3, <2>4, <2>5
<1>3. CASE TakeProcess(h) /\ ConnStep
  <2>1. CASE TakeIdle(h)
        BY <1>3, <1>a, <2>1 DEF TakeProcess
  <2>2. CASE ~TakeIdle(h)
        BY <1>3, <2>2 DEF TakeProcess, HpcLabel
  <2> QED BY <2>1, <2>2
<1>4. CASE IdleTimesOut(h) /\ ConnStep
      BY <1>4, RetryAssumption DEF IdleTimesOut, Abort, send_fcgi_abort_to_web_client,
                Answer, HpcLabel
<1>5. CASE RecheckProcess(h) /\ ConnStep
  <2>1. CASE TakeIdle(h)
        BY <1>5, <1>a, <2>1 DEF RecheckProcess
  <2>2. CASE ~TakeIdle(h)
        BY <1>5, <2>2, RetryAssumption DEF RecheckProcess, Abort,
            send_fcgi_abort_to_web_client, Answer, HpcLabel
  <2> QED BY <2>1, <2>2
<1>6. CASE ConnectChild(h) /\ ConnStep
      BY <1>6 DEF ConnectChild, HpcLabel
<1>7. CASE ConnectFails(h) /\ ConnStep
      BY <1>7 DEF ConnectFails, CallRestart, HpcLabel, RpcLabel, Actor
<1>8. CASE ConnRestarted(h) /\ ConnStep
      BY <1>8, PidAssumption DEF ConnRestarted, FaultyChildRetry,
                send_fcgi_abort_to_web_client, Answer, HpcLabel
<1>9. CASE SocketFails(h) /\ ConnStep
      BY <1>9, PidAssumption DEF SocketFails, FaultyChildRetry,
                send_fcgi_abort_to_web_client, Answer, HpcLabel
<1>10. CASE ConnSetIdle(h) /\ ConnStep
  <2>1. /\ UNCHANGED <<kernelVars, psig, projectVars, queueVars, managerVars, hproj, hret, hans>>
        /\ UNCHANGED <<mainVars, inotifyVars>>
        /\ hpc[h] = "setidle" /\ hpid' = [hpid EXCEPT ![h] = NoPid]
        /\ db_process_set_state(hpid[h], "IDLE")
        BY <1>10 DEF ConnSetIdle
  <2>2. PICK f \in {[hpc EXCEPT ![h] = "closed"]} \cup
                   {[[hpc EXCEPT ![h] = "closed"] EXCEPT ![g] = "recheck"] : g \in Waiting} :
           hpc' = f
        BY <1>10 DEF ConnSetIdle, IdleSignalled
  <2>3. hpc' \in [Conn -> HpcLabel]
        BY <2>2 DEF Waiting, HpcLabel
  <2>4. ConnFacts'
        BY <2>1, <2>2, PidAssumption DEF Waiting
  <2>5. DatabaseTypeOK' /\ ConnTypeOK'
        BY <2>1, <2>3 DEF db_process_set_state, State
  <2>6. StarterFacts' /\ CallFacts'
        BY <2>1 DEF db_process_set_state
  <2>7. KernelTypeOK' /\ ConfigTypeOK' /\ QueueTypeOK' /\ ManagerTypeOK' /\ SchedulerTypeOK'
        BY <2>1
  <2> QED BY <2>4, <2>5, <2>6, <2>7
<1>11. CASE EndConnection(h) /\ ConnStep
      BY <1>11, RetryAssumption DEF EndConnection, Answer, HpcLabel
<1>12. CASE RetriesOver(h) /\ ConnStep
      BY <1>12 DEF RetriesOver, HpcLabel
<1> QED BY <1>1, <1>2, <1>3, <1>4, <1>5, <1>6, <1>7, <1>8, <1>9, <1>10, <1>11, <1>12
        DEF ConnectionThread

(* project_manager_start_project keeps the facts about projects and starters. *)
LEMMA StartProjectType ==
    ASSUME TypeInv, NEW pr \in Project, project_manager_start_project(pr),
           UNCHANGED <<processVars, initVars>>
    PROVE  /\ DatabaseTypeOK' /\ StarterTypes' /\ StarterFacts'
           /\ exited' \in {"no", "success", "failure"}
<1> USE DEF TypeInv, TypeOK, KernelTypeOK, DatabaseTypeOK, processVars, projectVars
<1>1. CASE exited' = "failure" /\ UNCHANGED <<projectVars, starterVars>>
      BY <1>1 DEF ManagerTypeOK, StarterTypes, StarterFacts, starterVars, initVars
<1>2. CASE /\ db_add_project(pr) /\ qgis_inotify_watch_file(pr) /\ UNCHANGED exited
           /\ process_manager_start_new_process_detached(MinProc[pr], pr, FALSE)
  <2>1. MinProc[pr] \in Nat
        BY MinProcAssumption
  <2>2. StarterTypes' /\ StarterFacts'
        BY <1>2, <2>1, StartType
  <2>3. DatabaseTypeOK'
        BY <1>2, WatchAssumption DEF db_add_project, qgis_inotify_watch_file
  <2> QED BY <1>2, <2>2, <2>3
<1> QED BY <1>1, <1>2 DEF project_manager_start_project

(* main (qgis-schedulerd.c) keeps the type invariant. *)
LEMMA MainThreadType == TypeInv /\ MainThread => TypeInv'
<1> SUFFICES ASSUME TypeInv, MainThread
             PROVE  TypeInv'
    OBVIOUS
<1> USE DEF TypeInv, TypeOK, StarterFacts, CallFacts, ConnFacts, KernelTypeOK, DatabaseTypeOK,
            QueueTypeOK, ManagerTypeOK, ConnTypeOK,
            ConfigTypeOK, SchedulerTypeOK, kernelVars, dbVars,
            processVars, projectVars, queueVars, managerVars, starterVars, initVars, restartVars,
            connVars, mainVars, reloadVars,
            sectionVars, inotifyVars, lowerVars
<1>1. CASE \E pr \in Project : StartProject(pr) /\ Running
  <2> PICK pr \in Project : StartProject(pr)
      BY <1>1
  <2> HIDE DEF StarterFacts
  <2>1. /\ DatabaseTypeOK' /\ StarterTypes' /\ StarterFacts'
        /\ exited' \in {"no", "success", "failure"}
        BY StartProjectType DEF StartProject
  <2> QED BY <2>1 DEF StartProject, StarterTypes
<1>2. CASE StartupDone /\ Running
      BY <1>2 DEF StartupDone, MpcLabel
<1>3. CASE SigChld /\ Running
      BY <1>3 DEF SigChld, Rows, MpcLabel
<1>4. CASE \E p \in Pid : ProbeProcess(p) /\ Running
      BY <1>4 DEF ProbeProcess, CallRestart, RpcLabel, Actor
<1>5. CASE ProbesDone /\ Running
      BY <1>5 DEF ProbesDone, MpcLabel
<1>6. CASE SigTerm /\ Running
      BY <1>6 DEF SigTerm, MainStep, MpcLabel
<1>7. CASE \E pr \in Project : ShutdownProject(pr) /\ Running
      BY <1>7 DEF ShutdownProject, qgis_inotify_delete_watch, MainStep,
                db_move_all_process_from_init_to_shutdown_list, MoveProjectList, List, MpcLabel
<1>8. CASE ActiveToShutdown /\ Running
      BY <1>8 DEF ActiveToShutdown, MainStep, db_move_all_process_from_active_to_shutdown_list,
                MoveProjectList, List, MpcLabel
<1>9. CASE NotifyMoved /\ Running
      BY <1>9 DEF NotifyMoved, MainStep, qgis_shutdown_notify_changes, SignalQueue, SpcLabel,
                Sleeping, MpcLabel
<1>10. CASE RemoveProject /\ Running
      BY <1>10 DEF RemoveProject, db_remove_project, MpcLabel
<1>11. CASE WaitEmpty /\ Running
      BY <1>11 DEF WaitEmpty, MainStep, qgis_shutdown_wait_empty, SignalQueue, SpcLabel,
                Sleeping, MpcLabel
<1>12. CASE JoinInotify /\ Running
      BY <1>12 DEF JoinInotify, MainStep, MpcLabel
<1>13. CASE Exit /\ Running
      BY <1>13 DEF Exit
<1>14. CASE RestartProject /\ Running
  <2>1. mproj \in Project
        BY <1>14 DEF RestartProject, MainStep
  <2> HIDE DEF StarterFacts
  <2>2. /\ DatabaseTypeOK' /\ StarterTypes' /\ StarterFacts'
        /\ exited' \in {"no", "success", "failure"}
        BY <1>14, <2>1, StartProjectType DEF RestartProject
  <2> QED BY <1>14, <2>2 DEF RestartProject, MainStep, MpcLabel, StarterTypes
<1>15. CASE \E pr \in Project : FillProject(pr) /\ Running
  <2> PICK pr \in Project : FillProject(pr)
      BY <1>15
  <2> DEFINE num == db_get_num_start_init_idle_process(pr)
  <2>1. num \in Nat
        BY PidAssumption, FS_Subset, FS_CardinalityType
           DEF db_get_num_start_init_idle_process, Rows
  <2>2. MinProc[pr] \in Nat
        BY MinProcAssumption
  <2>3. CASE num < MinProc[pr]
    <3>1. MinProc[pr] - num \in Nat
          BY <2>1, <2>2, <2>3
    <3>2. process_manager_start_new_process_detached(MinProc[pr] - num, pr, FALSE)
          BY <2>3 DEF FillProject
    <3> HIDE DEF StarterFacts, num
    <3>3. StarterTypes' /\ StarterFacts'
          BY <3>1, <3>2, StartType DEF FillProject
    <3> QED BY <3>3 DEF FillProject, StarterTypes
  <2>4. CASE ~(num < MinProc[pr])
        BY <2>4 DEF FillProject
  <2> QED BY <2>3, <2>4
<1>16. CASE HupDone /\ Running
      BY <1>16 DEF HupDone, MainStep, MpcLabel
<1> QED BY <1>1, <1>2, <1>3, <1>4, <1>5, <1>6, <1>7, <1>8, <1>9, <1>10, <1>11, <1>12,
    <1>13, <1>14, <1>15, <1>16 DEF MainThread

(* The inotify thread (qgis_inotify.c) keeps the type invariant. *)
LEMMA InotifyThreadType == TypeInv /\ InotifyThread => TypeInv'
<1> SUFFICES ASSUME TypeInv, InotifyThread
             PROVE  TypeInv'
    OBVIOUS
<1> USE DEF TypeInv, TypeOK, StarterFacts, CallFacts, ConnFacts, KernelTypeOK, DatabaseTypeOK,
            QueueTypeOK, ManagerTypeOK, ConnTypeOK,
            ConfigTypeOK, SchedulerTypeOK, kernelVars, dbVars,
            processVars, projectVars, queueVars, managerVars, starterVars, initVars, restartVars,
            connVars, mainVars, reloadVars,
            sectionVars, inotifyVars, lowerVars
<1>1. CASE \E pr \in Project : ReadConfigEvent(pr) /\ Running
      BY <1>1 DEF ReadConfigEvent, db_reset_startup_failures
<1>2. CASE RestartProcesses /\ Running
  <2> DEFINE busy == db_get_num_active_process(nproj)
             num == IF busy > MinProc[nproj] THEN busy ELSE MinProc[nproj]
  <2>1. nproj \in Project
        BY <1>2 DEF RestartProcesses
  <2>2. busy \in Nat
        BY PidAssumption, FS_Subset, FS_CardinalityType DEF db_get_num_active_process, Rows
  <2>3. num \in Nat
        BY <2>1, <2>2, MinProcAssumption
  <2>4. process_manager_start_new_process_detached(num, nproj, TRUE)
        BY <1>2 DEF RestartProcesses
  <2> HIDE DEF StarterFacts, num, busy
  <2>5. StarterTypes' /\ StarterFacts'
        BY <1>2, <2>1, <2>3, <2>4, StartType DEF RestartProcesses
  <2> QED BY <1>2, <2>5 DEF RestartProcesses, StarterTypes
<1>3. CASE \E d \in Dir : ReadIgnored(d) /\ Running
      BY <1>3 DEF ReadIgnored
<1> QED BY <1>1, <1>2, <1>3 DEF InotifyThread

(* The outside world: deaths, time, clients, files, signals keeps the type invariant. *)
LEMMA EnvironmentType == TypeInv /\ Environment => TypeInv'
<1> SUFFICES ASSUME TypeInv, Environment
             PROVE  TypeInv'
    OBVIOUS
<1> USE DEF TypeInv, TypeOK, StarterFacts, CallFacts, ConnFacts, KernelTypeOK, DatabaseTypeOK,
            QueueTypeOK, ManagerTypeOK, ConnTypeOK,
            ConfigTypeOK, SchedulerTypeOK, QueueStep, ConnStep,
            kernelVars, dbVars, processVars, projectVars, queueVars, managerVars, starterVars,
            initVars, restartVars, connVars, mainVars, reloadVars,
            sectionVars, inotifyVars, lowerVars
<1>1. CASE \E p \in Pid : Die(p) /\ UNCHANGED <<dbVars, queueVars>> /\ QueueStep
      BY <1>1 DEF Die, OsState
<1>2. CASE \E p \in Pid : TimeoutPasses(p) /\ QueueStep
      BY <1>2 DEF TimeoutPasses
<1>3. CASE SpuriousWakeup /\ QueueStep
      BY <1>3 DEF SpuriousWakeup, SpcLabel
<1>4. CASE \E h \in Conn : IdleSpuriousWakeup(h) /\ ConnStep
      BY <1>4 DEF IdleSpuriousWakeup, HpcLabel
<1>5. CASE \E h \in Conn : RelayEnds(h) /\ ConnStep
      BY <1>5 DEF RelayEnds, send_fcgi_abort_to_web_client, Answer, HpcLabel
<1>6. CASE \E h \in Conn : AcceptConnection(h) /\ Running
      BY <1>6 DEF AcceptConnection, Accept, HpcLabel
<1>7. CASE \E pr \in Project : ConfigWritten(pr) /\ Running
  <2> PICK pr \in Project : ConfigWritten(pr)
      BY <1>7
  <2>1. changes' \in 0..MaxConfigChanges
        BY TermAssumption DEF ConfigWritten
  <2> QED BY <2>1 DEF ConfigWritten
<1>8. CASE TermArrives /\ Running
      BY <1>8 DEF TermArrives
<1>9. CASE \E h \in Conn, pr \in Project \cup {NoProject} : ChooseProject(h, pr) /\ ConnStep
      BY <1>9, RetryAssumption DEF ChooseProject, HpcLabel
<1>10. CASE \E new \in ConfigFiles : SigHup(new) /\ Running
  <2> PICK new \in ConfigFiles : SigHup(new)
      BY <1>10
  <2>1. new \in Config
        BY DEF ConfigFiles
  <2>2. \A list \in SUBSET Project :
            config_convert_list_to_array(list) \subseteq SUBSET Project
        BY DEF config_convert_list_to_array
  <2>3. ConfigTypeOK'
        BY <2>1, <2>2 DEF SigHup, config_load, SectionNew, SectionChanged, SectionDeleted, Sections
  <2>4. reloads' \in 0..MaxReloads
        BY TermAssumption DEF SigHup
  <2>5. mprojs' \subseteq Project
        BY DEF SigHup, Sections
  <2> QED BY <2>3, <2>4, <2>5 DEF SigHup, MainStep, MpcLabel
<1>11. CASE \E h \in Conn : ConnEndsDaemon(h) /\ ConnStep
      BY <1>11 DEF ConnEndsDaemon
<1> QED BY <1>1, <1>2, <1>3, <1>4, <1>5, <1>6, <1>7, <1>8, <1>9, <1>10, <1>11 DEF Environment

(* Every step of the daemon keeps the type invariant. *)
LEMMA NextType == TypeInv /\ [Next]_vars => TypeInv'
<1> SUFFICES ASSUME TypeInv, [Next]_vars
             PROVE  TypeInv'
    OBVIOUS
<1>1. CASE UNCHANGED vars
      BY <1>1 DEF TypeInv, TypeOK, StarterFacts, CallFacts, ConnFacts, KernelTypeOK,
                DatabaseTypeOK, QueueTypeOK, ManagerTypeOK, ConnTypeOK,
            ConfigTypeOK, SchedulerTypeOK, vars,
                kernelVars, dbVars, processVars, projectVars, queueVars, managerVars,
                starterVars, initVars, restartVars, connVars, mainVars, reloadVars,
            sectionVars, inotifyVars
<1>2. CASE Next
      BY <1>1, <1>2, ShutdownThreadType, StarterThreadType, RestartProcessType, InitThreadType,
         ConnectionThreadType, MainThreadType, InotifyThreadType, EnvironmentType
         DEF Next, Terminated
<1> QED BY <1>1, <1>2

(* Every variable of the daemon keeps its type, and every running thread     *)
(* knows the project or the process it works for.                            *)
THEOREM TypeInvariance == Spec => []TypeInv
BY InitType, NextType, PTL DEF Spec

(* In particular TypeOK, the type invariant of the runs: among other things  *)
(* no connection thread of connection_manager.c makes more than              *)
(* MAX_CHILD_COMMUNICATION_RETRY attempts.                                   *)
THEOREM TypeCorrect == Spec => []TypeOK
<1>1. TypeInv => TypeOK
      BY DEF TypeInv
<1> QED BY <1>1, TypeInvariance, PTL
=============================================================================
