--------------------------- MODULE NoticeProofs ---------------------------
(* Nothing is missed, proved with TLAPS: what is moved to the shutdown list  *)
(* between the snapshot of the shutdown thread and pthread_cond_wait keeps   *)
(* it from going to sleep (NoticeInv); a death goes unnoticed in one case    *)
(* only, and a child found faulty is out of service when its replacement is  *)
(* asked for (DeathInv).                                                     *)
EXTENDS LifeProofs

(* A thread that is inside restart_process() does nothing else meanwhile, so *)
(* a call that is about to notify is not lost.                               *)
CallInv ==
    /\ \A p \in Pid : rpc[p] # "no" => ipc[p] = "crash"
    /\ \A h \in Conn : rpc[h] # "no" => hpc[h] = "restart"

(* The shutdown thread has neither signalled the process nor cleaned up      *)
(* after it.                                                                 *)
Untouched(p) ==
    \/ os[p] = "alive"
    \/ fd[p] # "closed" /\ psig[p] = "zero"

(* Such a process in the shutdown list: its arrival is about to be announced *)
(* or has_list_change is set, or the shutdown thread is on its way to a      *)
(* scan, or has it in its snapshot.                                          *)
SeenInv ==
    \A p \in Pid : plist[p] = "shutdown" /\ Untouched(p) =>
        \/ NotifyPending
        \/ spc \in {"scan", "woken", "drained", "done"}
        \/ spc = "check" /\ p \in sscan

NoticeInv == CallInv /\ SeenInv

noticeVars == <<plist, os, fd, psig, spc, sscan, has_list_change, rpc, tpc, mpc, ipc, hpc>>
NoticeTypes ==
    /\ LifeTypes
    /\ rpc \in [Actor -> RpcLabel]
    /\ tpc \in [Starter -> TpcLabel]
    /\ hpc \in [Conn -> HpcLabel]

-----------------------------------------------------------------------------

(* The types NoticeInv needs follow from the type invariant. *)
LEMMA TypeInvNoticeTypes == TypeInv => NoticeTypes
BY TypeInvLifeTypes DEF TypeInv, TypeOK, ManagerTypeOK, ConnTypeOK, NoticeTypes

(* A step that leaves noticeVars alone keeps NoticeInv. *)
LEMMA NoticeStutter == NoticeInv /\ UNCHANGED noticeVars => NoticeInv'
BY DEF NoticeInv, CallInv, SeenInv, Untouched, NotifyPending, noticeVars

(* NoticeInv holds when the daemon starts. *)
LEMMA InitNotice == Init => NoticeInv
BY DEF Init, DatabaseInit, ManagerInit, NoticeInv, CallInv, SeenInv, Actor

(* Whoever announces a change makes up for every process at once. *)
LEMMA NotifySeen == qgis_shutdown_notify_changes => SeenInv'
BY DEF qgis_shutdown_notify_changes, SeenInv, NotifyPending

(* A step that moves no row, signals nobody and keeps the announcements. *)
LEMMA QuietSeen ==
    ASSUME SeenInv, UNCHANGED <<plist, os, fd, psig, spc, sscan, has_list_change>>,
           NotifyPending => NotifyPending'
    PROVE  SeenInv'
BY DEF SeenInv, Untouched

(* Starting a thread takes no announcement away. *)
LEMMA StartSeen ==
    ASSUME NoticeTypes, NEW num, NEW pr, NEW exchange,
           process_manager_start_new_process_detached(num, pr, exchange),
           UNCHANGED has_list_change,
           mpc' = mpc \/ mpc \notin {"notify1", "notify2"},
           \A a \in Actor : rpc[a] = "notify" => rpc'[a] = "notify",
           NotifyPending
    PROVE  NotifyPending'
BY DEF NoticeTypes, NotifyPending, process_manager_start_new_process_detached, FreeStarters,
       starterVars

(* Nor does starting a project, whether it succeeds or ends the daemon. *)
LEMMA StartProjectSeen ==
    ASSUME NoticeTypes, NEW pr, project_manager_start_project(pr),
           UNCHANGED <<has_list_change, restartVars>>,
           mpc' = mpc \/ mpc \notin {"notify1", "notify2"},
           NotifyPending
    PROVE  NotifyPending'
<1>1. CASE UNCHANGED starterVars
      BY <1>1 DEF NotifyPending, starterVars, restartVars
<1>2. CASE process_manager_start_new_process_detached(MinProc[pr], pr, FALSE)
      BY <1>2, StartSeen DEF restartVars
<1> QED BY <1>1, <1>2 DEF project_manager_start_project

(* The shutdown thread (qgis_shutdown_queue.c) keeps NoticeInv. *)
LEMMA ShutdownThreadNotice == TypeInv /\ LifeInv /\ NoticeInv /\ ShutdownThread => NoticeInv'
<1> SUFFICES ASSUME TypeInv, LifeInv, NoticeInv, ShutdownThread
             PROVE  NoticeInv'
    OBVIOUS
<1> NoticeTypes
    BY TypeInvNoticeTypes
<1> USE DEF QueueStep, ManagerStep, ConnStep, kernelVars, dbVars, processVars, queueVars,
            managerVars, starterVars, initVars, restartVars, connVars, mainVars, lowerVars
<1>1. CASE BeginScan /\ QueueStep
      BY <1>1 DEF NoticeTypes, NoticeInv, CallInv, SeenInv, Untouched, NotifyPending, BeginScan,
         InList
<1>2. CASE \E p \in Pid : CheckProcess(p) /\ QueueStep
  <2> PICK p \in Pid : CheckProcess(p) /\ QueueStep
      BY <1>2
  <2>1. ~Untouched(p)'
    <3>1. CASE SignalProcess(p)
      <4>1. psig'[p] # "zero" /\ os'[p] # "alive"
            BY <3>1, ClockAssumption DEF SignalProcess, AfterTerm, AfterKill, NoticeTypes, LifeTypes
      <4> QED BY <4>1 DEF Untouched
    <3>2. CASE process_manager_cleanup_process(p)
      <4>1. fd'[p] = "closed" /\ os'[p] = os[p]
            BY <3>2 DEF process_manager_cleanup_process, NoticeTypes, LifeTypes
      <4>2. os[p] # "alive"
            BY <3>2 DEF process_manager_cleanup_process, Verdict, Exists, LifeInv
      <4> QED BY <4>1, <4>2 DEF Untouched
    <3>3. CASE PassProcess(p)
      <4>1. pstate[p] \in {"TERM", "KILL", "EXIT"}
            BY <3>3 DEF PassProcess, Verdict, Exists, NoticeTypes, LifeTypes, State
      <4>2. UNCHANGED <<os, fd, psig>>
            BY <3>3 DEF PassProcess
      <4> QED BY <4>1, <4>2 DEF LifeInv, Untouched
    <3> QED BY <3>1, <3>2, <3>3 DEF CheckProcess
  <2>2. \A q \in Pid \ {p} : os'[q] = os[q] /\ fd'[q] = fd[q] /\ psig'[q] = psig[q]
        BY DEF CheckProcess, PassProcess, SignalProcess, AfterTerm, AfterKill,
               process_manager_cleanup_process, NoticeTypes, LifeTypes
  <2> QED BY <2>1, <2>2 DEF CheckProcess, NoticeInv, CallInv, SeenInv, Untouched, NotifyPending
<1>3. CASE WeedOut /\ QueueStep
      BY <1>3 DEF NoticeTypes, NoticeInv, CallInv, SeenInv, Untouched, NotifyPending, WeedOut,
                db_remove_process_with_state_exit
<1>4. CASE Decide /\ QueueStep
      BY <1>4 DEF NoticeTypes, NoticeInv, CallInv, SeenInv, Untouched, NotifyPending, Decide,
         AfterWait
<1>5. CASE WaitTimesOut /\ QueueStep
      BY <1>5 DEF NoticeTypes, NoticeInv, CallInv, SeenInv, Untouched, NotifyPending, WaitTimesOut
<1>6. CASE WakeUp /\ QueueStep
      BY <1>6 DEF NoticeTypes, NoticeInv, CallInv, SeenInv, Untouched, NotifyPending, WakeUp,
         AfterWait
<1>7. CASE DrainCheck /\ QueueStep
      BY <1>7 DEF NoticeTypes, NoticeInv, CallInv, SeenInv, Untouched, NotifyPending, DrainCheck
<1> QED BY <1>1, <1>2, <1>3, <1>4, <1>5, <1>6, <1>7 DEF ShutdownThread

(* A starter thread (process_manager_start_new_process_wait) keeps NoticeInv. *)
LEMMA StarterThreadNotice ==
    TypeInv /\ LifeInv /\ NoticeInv /\ (\E s \in Starter : StarterThread(s)) => NoticeInv'
<1> SUFFICES ASSUME TypeInv, LifeInv, NoticeInv, NEW s \in Starter, StarterThread(s)
             PROVE  NoticeInv'
    OBVIOUS
<1> NoticeTypes
    BY TypeInvNoticeTypes
<1> USE DEF QueueStep, ManagerStep, ConnStep, kernelVars, dbVars, processVars, queueVars,
            managerVars, starterVars, initVars, restartVars, connVars, mainVars, lowerVars
<1>1. CASE StartCheck(s) /\ ManagerStep
  <2>1. NotifyPending => NotifyPending'
        BY <1>1 DEF NoticeTypes, NotifyPending, StartCheck, EndStarter
  <2> QED BY <1>1, <2>1, QuietSeen DEF StartCheck, NoticeInv, CallInv
<1>2. CASE \E p \in Pid : StartNewChild(s, p) /\ ManagerStep
      BY <1>2 DEF NoticeTypes, NoticeInv, CallInv, SeenInv, Untouched, NotifyPending,
         StartNewChild, Forked,
                LifeInv, LifeTypes
<1>3. CASE StartNothing(s) /\ ManagerStep
      BY <1>3, NoticeStutter DEF StartNothing, noticeVars
<1>4. CASE ExchangeProcesses(s) /\ ManagerStep
      BY <1>4 DEF NoticeTypes, NoticeInv, CallInv, SeenInv, Untouched, NotifyPending,
         ExchangeProcesses, Joined
<1>5. CASE ExchangeNotify(s) /\ ManagerStep
      BY <1>5, NotifySeen DEF NoticeInv, CallInv, ExchangeNotify
<1>6. CASE ExchangeReset(s) /\ ManagerStep
  <2>1. NotifyPending => NotifyPending'
        BY <1>6 DEF NoticeTypes, NotifyPending, ExchangeReset
  <2> QED BY <1>6, <2>1, QuietSeen DEF ExchangeReset, NoticeInv, CallInv
<1>7. CASE Activate(s) /\ ManagerStep
  <2>1. UNCHANGED psig /\ \A p \in Pid : plist'[p] = "shutdown" => plist[p] = "shutdown"
        BY <1>7 DEF Activate, db_move_all_idle_process_from_init_to_active_list, MoveProjectList
  <2>2. NotifyPending => NotifyPending'
        BY <1>7 DEF NoticeTypes, NotifyPending, Activate, Joined
  <2> QED BY <1>7, <2>1, <2>2 DEF NoticeInv, CallInv, SeenInv, Untouched, Activate
<1>8. CASE ActivateNotify(s) /\ ManagerStep
      BY <1>8, NotifySeen DEF NoticeInv, CallInv, ActivateNotify
<1> QED BY <1>1, <1>2, <1>3, <1>4, <1>5, <1>6, <1>7, <1>8 DEF StarterThread

(* A call of process_manager_restart_process keeps NoticeInv. *)
LEMMA RestartProcessNotice ==
    TypeInv /\ LifeInv /\ NoticeInv /\ (\E a \in Actor : RestartProcess(a)) => NoticeInv'
<1> SUFFICES ASSUME TypeInv, LifeInv, NoticeInv, NEW a \in Actor, RestartProcess(a)
             PROVE  NoticeInv'
    OBVIOUS
<1> NoticeTypes
    BY TypeInvNoticeTypes
<1> USE DEF QueueStep, ManagerStep, ConnStep, kernelVars, dbVars, processVars, queueVars,
            managerVars, starterVars, initVars, restartVars, connVars, mainVars, lowerVars
<1>1. CASE RestartStart(a) /\ ManagerStep
  <2>1. NotifyPending => NotifyPending'
    <3>1. \A b \in Actor : rpc[b] = "notify" => rpc'[b] = "notify"
          BY <1>1 DEF NoticeTypes, RestartStart
    <3>2. CASE UNCHANGED starterVars
          BY <1>1, <3>1, <3>2 DEF NotifyPending, RestartStart, starterVars
    <3>3. CASE process_manager_start_new_process_detached(1, pproj[rpid[a]], FALSE)
          BY <1>1, <3>1, <3>3, StartSeen DEF RestartStart
    <3> QED BY <1>1, <3>2, <3>3 DEF RestartStart, StartReplacement
  <2>2. CallInv'
        BY <1>1 DEF NoticeTypes, NoticeInv, CallInv, RestartStart, RestartStays
  <2> QED BY <1>1, <2>1, <2>2, QuietSeen DEF NoticeInv, RestartStart, RestartStays
<1>2. CASE AddProcessMove(a) /\ ManagerStep
      BY <1>2 DEF NoticeTypes, NoticeInv, CallInv, SeenInv, Untouched, NotifyPending,
         AddProcessMove,
                RestartStays
<1>3. CASE AddProcessAssertFails(a) /\ ManagerStep
      BY <1>3, NoticeStutter DEF AddProcessAssertFails, RestartStays, noticeVars
<1>4. CASE AddProcessNotify(a) /\ ManagerStep
  <2>1. CallInv'
        BY <1>4 DEF NoticeTypes, NoticeInv, CallInv, AddProcessNotify, RestartStays
  <2> QED BY <1>4, <2>1, NotifySeen DEF NoticeInv, AddProcessNotify
<1> QED BY <1>1, <1>2, <1>3, <1>4 DEF RestartProcess

(* The thread that initialises a child (process_manager.c) keeps NoticeInv. *)
LEMMA InitThreadNotice ==
    TypeInv /\ LifeInv /\ NoticeInv /\ (\E p \in Pid : InitThread(p)) => NoticeInv'
<1> SUFFICES ASSUME TypeInv, LifeInv, NoticeInv, NEW p \in Pid, InitThread(p)
             PROVE  NoticeInv'
    OBVIOUS
<1> NoticeTypes
    BY TypeInvNoticeTypes
<1> USE DEF QueueStep, ManagerStep, ConnStep, kernelVars, dbVars, processVars, queueVars,
            managerVars, starterVars, initVars, restartVars, connVars, mainVars, lowerVars
<1>1. CASE AddProcess(p) /\ ManagerStep
  <2>1. \A q \in Pid : plist'[q] = "shutdown" => plist[q] = "shutdown" /\ psig'[q] = psig[q]
        BY <1>1 DEF AddProcess, db_add_process, NoticeTypes, LifeTypes
  <2> QED BY <1>1, <2>1 DEF NoticeTypes, NoticeInv, CallInv, SeenInv, Untouched, NotifyPending,
     LifeTypes,
                AddProcess, InitStep
<1>2. CASE ConnectInit(p) /\ ManagerStep
  <2>1. rpc[p] = "no"
        BY <1>2 DEF ConnectInit, InitStep, NoticeInv, CallInv, NoticeTypes, Actor
  <2>2. CallInv'
        BY <1>2, <2>1, ActorAssumption
           DEF NoticeTypes, LifeTypes, NoticeInv, CallInv, ConnectInit, InitStep, CallRestart, Actor
  <2>3. NotifyPending => NotifyPending'
        BY <1>2, <2>1 DEF NoticeTypes, NotifyPending, ConnectInit, CallRestart
  <2> QED BY <1>2, <2>2, <2>3, QuietSeen DEF NoticeInv, ConnectInit, db_process_set_state
<1>3. CASE InitDone(p) /\ ManagerStep
  <2>1. CallInv'
        BY <1>3 DEF NoticeTypes, LifeTypes, NoticeInv, CallInv, InitDone, ReadDone
  <2> QED BY <1>3, <2>1, QuietSeen DEF NoticeInv, NotifyPending, InitDone
<1>4. CASE ReadTimesOut(p) /\ ManagerStep
  <2>1. rpc[p] = "no"
        BY <1>4 DEF ReadTimesOut, InitStep, NoticeInv, CallInv, NoticeTypes, Actor
  <2>2. CallInv'
        BY <1>4, <2>1, ActorAssumption
           DEF NoticeTypes, LifeTypes, NoticeInv, CallInv, ReadTimesOut, InitStep, CallRestart,
               Actor
  <2>3. NotifyPending => NotifyPending'
        BY <1>4, <2>1 DEF NoticeTypes, NotifyPending, ReadTimesOut, CallRestart
  <2> QED BY <1>4, <2>2, <2>3, QuietSeen DEF NoticeInv, ReadTimesOut
<1>5. CASE DiedDuringInit(p) /\ ManagerStep
  <2>1. CallInv'
        BY <1>5 DEF NoticeTypes, LifeTypes, NoticeInv, CallInv, DiedDuringInit, ReadDone
  <2> QED BY <1>5, <2>1, QuietSeen DEF NoticeInv, NotifyPending, DiedDuringInit
<1>6. CASE InitSetIdle(p) /\ ConnStep
  <2>1. CallInv'
        BY <1>6 DEF NoticeTypes, LifeTypes, NoticeInv, CallInv, InitSetIdle, InitStep,
                IdleSignalled, Waiting
  <2> QED BY <1>6, <2>1, QuietSeen DEF NoticeInv, NotifyPending, InitSetIdle, db_process_set_state
<1>7. CASE InitEndsDaemon(p) /\ ManagerStep
      BY <1>7, NoticeStutter DEF InitEndsDaemon, noticeVars
<1> QED BY <1>1, <1>2, <1>3, <1>4, <1>5, <1>6, <1>7 DEF InitThread

(* A connection thread (connection_manager.c) keeps NoticeInv. *)
LEMMA ConnectionThreadNotice ==
    TypeInv /\ LifeInv /\ NoticeInv /\ (\E h \in Conn : ConnectionThread(h)) => NoticeInv'
<1> SUFFICES ASSUME TypeInv, LifeInv, NoticeInv, NEW h \in Conn, ConnectionThread(h)
             PROVE  NoticeInv'
    OBVIOUS
<1> NoticeTypes
    BY TypeInvNoticeTypes
<1> USE DEF QueueStep, ManagerStep, ConnStep, kernelVars, dbVars, processVars, queueVars,
            managerVars, starterVars, initVars, restartVars, connVars, mainVars, lowerVars
<1>1. CASE CountProcesses(h) /\ ConnStep
  <2>1. CallInv'
        BY <1>1 DEF NoticeTypes, NoticeInv, CallInv, CountProcesses, Actor
  <2>2. NotifyPending => NotifyPending'
    <3>1. CASE UNCHANGED starterVars
          BY <1>1, <3>1 DEF NotifyPending, CountProcesses, starterVars
    <3>2. CASE process_manager_start_new_process_detached(1, hproj[h], FALSE)
          BY <1>1, <3>2, StartSeen DEF CountProcesses
    <3> QED BY <1>1, <3>1, <3>2 DEF CountProcesses
  <2> QED BY <1>1, <2>1, <2>2, QuietSeen DEF NoticeInv, CountProcesses
<1>2. CASE NoProjectFound(h) /\ ConnStep
  <2>1. CallInv'
        BY <1>2 DEF NoticeTypes, NoticeInv, CallInv, NoProjectFound, Abort, Actor
  <2> QED BY <1>2, <2>1, QuietSeen DEF NoticeInv, NotifyPending, NoProjectFound
<1>3. CASE TakeProcess(h) /\ ConnStep
  <2>1. CallInv'
        BY <1>3 DEF NoticeTypes, NoticeInv, CallInv, TakeProcess, TakeIdle, Actor
  <2> QED BY <1>3, <2>1, QuietSeen DEF NoticeInv, NotifyPending, TakeProcess, TakeIdle,
                db_process_set_state
<1>4. CASE IdleTimesOut(h) /\ ConnStep
  <2>1. CallInv'
        BY <1>4 DEF NoticeTypes, NoticeInv, CallInv, IdleTimesOut, Abort, Actor
  <2> QED BY <1>4, <2>1, QuietSeen DEF NoticeInv, NotifyPending, IdleTimesOut
<1>5. CASE RecheckProcess(h) /\ ConnStep
  <2>1. CallInv'
        BY <1>5 DEF NoticeTypes, NoticeInv, CallInv, RecheckProcess, TakeIdle, Abort, Actor
  <2> QED BY <1>5, <2>1, QuietSeen DEF NoticeInv, NotifyPending, RecheckProcess, TakeIdle,
                db_process_set_state
<1>6. CASE ConnectChild(h) /\ ConnStep
  <2>1. CallInv'
        BY <1>6 DEF NoticeTypes, NoticeInv, CallInv, ConnectChild, Actor
  <2> QED BY <1>6, <2>1, QuietSeen DEF NoticeInv, NotifyPending, ConnectChild
<1>7. CASE ConnectFails(h) /\ ConnStep
  <2>1. rpc[h] = "no"
        BY <1>7 DEF ConnectFails, NoticeInv, CallInv, NoticeTypes, Actor
  <2>2. CallInv'
        BY <1>7, <2>1, ActorAssumption
           DEF NoticeTypes, NoticeInv, CallInv, ConnectFails, CallRestart, Actor
  <2>3. NotifyPending => NotifyPending'
        BY <1>7, <2>1 DEF NoticeTypes, NotifyPending, ConnectFails, CallRestart
  <2> QED BY <1>7, <2>2, <2>3, QuietSeen DEF NoticeInv, ConnectFails
<1>8. CASE ConnRestarted(h) /\ ConnStep
  <2>1. CallInv'
        BY <1>8 DEF NoticeTypes, NoticeInv, CallInv, ConnRestarted, FaultyChildRetry, Abort, Actor
  <2> QED BY <1>8, <2>1, QuietSeen DEF NoticeInv, NotifyPending, ConnRestarted
<1>9. CASE SocketFails(h) /\ ConnStep
  <2>1. CallInv'
        BY <1>9 DEF NoticeTypes, NoticeInv, CallInv, SocketFails, FaultyChildRetry, Abort, Actor
  <2> QED BY <1>9, <2>1, QuietSeen DEF NoticeInv, NotifyPending, SocketFails
<1>10. CASE ConnSetIdle(h) /\ ConnStep
  <2>1. CallInv'
        BY <1>10 DEF NoticeTypes, NoticeInv, CallInv, ConnSetIdle, IdleSignalled, Waiting, Actor
  <2> QED BY <1>10, <2>1, QuietSeen DEF NoticeInv, NotifyPending, ConnSetIdle, db_process_set_state
<1>11. CASE EndConnection(h) /\ ConnStep
  <2>1. CallInv'
        BY <1>11 DEF NoticeTypes, NoticeInv, CallInv, EndConnection, Actor
  <2> QED BY <1>11, <2>1, QuietSeen DEF NoticeInv, NotifyPending, EndConnection
<1>12. CASE RetriesOver(h) /\ ConnStep
  <2>1. CallInv'
        BY <1>12 DEF NoticeTypes, NoticeInv, CallInv, RetriesOver, Actor
  <2> QED BY <1>12, <2>1, QuietSeen DEF NoticeInv, NotifyPending, RetriesOver
<1> QED BY <1>1, <1>2, <1>3, <1>4, <1>5, <1>6, <1>7, <1>8, <1>9, <1>10, <1>11,
   <1>12 DEF ConnectionThread

(* main (qgis-schedulerd.c) keeps NoticeInv. *)
LEMMA MainThreadNotice == TypeInv /\ LifeInv /\ NoticeInv /\ MainThread => NoticeInv'
<1> SUFFICES ASSUME TypeInv, LifeInv, NoticeInv, MainThread
             PROVE  NoticeInv'
    OBVIOUS
<1> NoticeTypes
    BY TypeInvNoticeTypes
<1> USE DEF QueueStep, ManagerStep, ConnStep, kernelVars, dbVars, processVars, queueVars,
            managerVars, starterVars, initVars, restartVars, connVars, mainVars, lowerVars
<1>1. CASE \E pr \in Project : StartProject(pr) /\ Running
  <2> PICK pr \in Project : StartProject(pr)
      BY <1>1
  <2>1. NotifyPending => NotifyPending'
        BY StartProjectSeen DEF StartProject
  <2> QED BY <2>1, QuietSeen DEF NoticeInv, CallInv, StartProject
<1>2. CASE StartupDone /\ Running
      BY <1>2, QuietSeen DEF NoticeInv, CallInv, NotifyPending, StartupDone
<1>3. CASE SigChld /\ Running
      BY <1>3, QuietSeen DEF NoticeInv, CallInv, NotifyPending, SigChld
<1>4. CASE \E p \in Pid : ProbeProcess(p) /\ Running
  <2>1. CallInv'
        BY <1>4, ActorAssumption DEF NoticeTypes, NoticeInv, CallInv, ProbeProcess, CallRestart,
                Actor
  <2>2. NotifyPending => NotifyPending'
        BY <1>4 DEF NoticeTypes, NotifyPending, ProbeProcess, CallRestart
  <2> QED BY <1>4, <2>1, <2>2, QuietSeen DEF NoticeInv, ProbeProcess
<1>5. CASE ProbesDone /\ Running
      BY <1>5, QuietSeen DEF NoticeInv, CallInv, NotifyPending, ProbesDone
<1>6. CASE SigTerm /\ Running
      BY <1>6, QuietSeen DEF NoticeInv, CallInv, NotifyPending, SigTerm, MainStep
<1>7. CASE \E pr \in Project : ShutdownProject(pr) /\ Running
      BY <1>7 DEF NoticeTypes, NoticeInv, CallInv, SeenInv, Untouched, NotifyPending,
         ShutdownProject
<1>8. CASE ActiveToShutdown /\ Running
      BY <1>8 DEF NoticeTypes, NoticeInv, CallInv, SeenInv, Untouched, NotifyPending,
         ActiveToShutdown,
                MainStep
<1>9. CASE NotifyMoved /\ Running
      BY <1>9, NotifySeen DEF NoticeInv, CallInv, NotifyMoved
<1>10. CASE RemoveProject /\ Running
      BY <1>10, QuietSeen DEF NoticeInv, CallInv, NotifyPending, RemoveProject
<1>11. CASE RestartProject /\ Running
  <2>1. NotifyPending => NotifyPending'
        BY <1>11, StartProjectSeen DEF RestartProject, MainStep
  <2> QED BY <1>11, <2>1, QuietSeen DEF NoticeInv, CallInv, RestartProject
<1>12. CASE \E pr \in Project : FillProject(pr) /\ Running
  <2> PICK pr \in Project : FillProject(pr)
      BY <1>12
  <2>1. NotifyPending => NotifyPending'
    <3>1. CASE UNCHANGED starterVars
          BY <3>1 DEF NotifyPending, FillProject
    <3>2. CASE \E num : process_manager_start_new_process_detached(num, pr, FALSE)
          BY <3>2, StartSeen DEF FillProject
    <3> QED BY <3>1, <3>2 DEF FillProject
  <2> QED BY <2>1, QuietSeen DEF NoticeInv, CallInv, FillProject
<1>13. CASE HupDone /\ Running
      BY <1>13, QuietSeen DEF NoticeInv, CallInv, NotifyPending, HupDone, MainStep
<1>14. CASE WaitEmpty /\ Running
      BY <1>14 DEF NoticeTypes, NoticeInv, CallInv, SeenInv, Untouched, NotifyPending, WaitEmpty,
         MainStep,
                qgis_shutdown_wait_empty, SignalQueue
<1>15. CASE JoinInotify /\ Running
      BY <1>15, QuietSeen DEF NoticeInv, CallInv, NotifyPending, JoinInotify, MainStep
<1>16. CASE Exit /\ Running
      BY <1>16, NoticeStutter DEF Exit, noticeVars
<1> QED BY <1>1, <1>2, <1>3, <1>4, <1>5, <1>6, <1>7, <1>8, <1>9, <1>10, <1>11, <1>12,
           <1>13, <1>14, <1>15, <1>16 DEF MainThread

(* The inotify thread (qgis_inotify.c) keeps NoticeInv. *)
LEMMA InotifyThreadNotice == TypeInv /\ LifeInv /\ NoticeInv /\ InotifyThread => NoticeInv'
<1> SUFFICES ASSUME TypeInv, LifeInv, NoticeInv, InotifyThread
             PROVE  NoticeInv'
    OBVIOUS
<1> NoticeTypes
    BY TypeInvNoticeTypes
<1> USE DEF QueueStep, ManagerStep, ConnStep, kernelVars, dbVars, processVars, queueVars,
            managerVars, starterVars, initVars, restartVars, connVars, mainVars, lowerVars
<1>1. CASE \E pr \in Project : ReadConfigEvent(pr) /\ Running
      BY <1>1, NoticeStutter DEF ReadConfigEvent, db_reset_startup_failures, noticeVars
<1>2. CASE RestartProcesses /\ Running
  <2>1. NotifyPending => NotifyPending'
        BY <1>2, StartSeen DEF RestartProcesses
  <2> QED BY <1>2, <2>1, QuietSeen DEF NoticeInv, CallInv, RestartProcesses
<1>3. CASE \E d \in Dir : ReadIgnored(d) /\ Running
      BY <1>3, NoticeStutter DEF ReadIgnored, noticeVars
<1> QED BY <1>1, <1>2, <1>3 DEF InotifyThread

(* The outside world (deaths, time, clients, files, signals) keeps NoticeInv. *)
LEMMA EnvironmentNotice == TypeInv /\ LifeInv /\ NoticeInv /\ Environment => NoticeInv'
<1> SUFFICES ASSUME TypeInv, LifeInv, NoticeInv, Environment
             PROVE  NoticeInv'
    OBVIOUS
<1> NoticeTypes
    BY TypeInvNoticeTypes
<1> USE DEF QueueStep, ManagerStep, ConnStep, kernelVars, dbVars, processVars, queueVars,
            managerVars, starterVars, initVars, restartVars, connVars, mainVars, lowerVars
<1>1. CASE \E p \in Pid : Die(p) /\ UNCHANGED <<dbVars, queueVars>> /\ QueueStep
      BY <1>1 DEF NoticeTypes, NoticeInv, CallInv, SeenInv, Untouched, NotifyPending, Die, LifeTypes
<1>2. CASE \E p \in Pid : TimeoutPasses(p) /\ QueueStep
      BY <1>2, NoticeStutter DEF TimeoutPasses, noticeVars
<1>3. CASE SpuriousWakeup /\ QueueStep
      BY <1>3 DEF NoticeTypes, NoticeInv, CallInv, SeenInv, Untouched, NotifyPending, SpuriousWakeup
<1>4. CASE \E h \in Conn : IdleSpuriousWakeup(h) /\ ConnStep
  <2>1. CallInv'
        BY <1>4 DEF NoticeTypes, NoticeInv, CallInv, IdleSpuriousWakeup, Actor
  <2> QED BY <1>4, <2>1, QuietSeen DEF NoticeInv, NotifyPending, IdleSpuriousWakeup
<1>5. CASE \E h \in Conn : RelayEnds(h) /\ ConnStep
  <2>1. CallInv'
        BY <1>5 DEF NoticeTypes, NoticeInv, CallInv, RelayEnds, Actor
  <2> QED BY <1>5, <2>1, QuietSeen DEF NoticeInv, NotifyPending, RelayEnds
<1>6. CASE \E h \in Conn : AcceptConnection(h) /\ Running
  <2>1. CallInv'
        BY <1>6 DEF NoticeTypes, NoticeInv, CallInv, AcceptConnection, Accept, Actor
  <2> QED BY <1>6, <2>1, QuietSeen DEF NoticeInv, NotifyPending, AcceptConnection, Accept
<1>7. CASE \E h \in Conn, pr \in Project \cup {NoProject} : ChooseProject(h, pr) /\ ConnStep
  <2>1. CallInv'
        BY <1>7 DEF NoticeTypes, NoticeInv, CallInv, ChooseProject, Actor
  <2> QED BY <1>7, <2>1, QuietSeen DEF NoticeInv, NotifyPending, ChooseProject
<1>8. CASE \E new \in ConfigFiles : SigHup(new) /\ Running
      BY <1>8, QuietSeen DEF NoticeInv, CallInv, NotifyPending, SigHup, MainStep
<1>9. CASE \E pr \in Project : ConfigWritten(pr) /\ Running
      BY <1>9, NoticeStutter DEF ConfigWritten, noticeVars
<1>10. CASE TermArrives /\ Running
      BY <1>10, NoticeStutter DEF TermArrives, noticeVars
<1>11. CASE \E h \in Conn : ConnEndsDaemon(h) /\ ConnStep
      BY <1>11, NoticeStutter DEF ConnEndsDaemon, noticeVars
<1> QED BY <1>1, <1>2, <1>3, <1>4, <1>5, <1>6, <1>7, <1>8, <1>9, <1>10, <1>11 DEF Environment

(* Every step of the daemon keeps NoticeInv. *)
LEMMA NextNotice == TypeInv /\ LifeInv /\ NoticeInv /\ [Next]_vars => NoticeInv'
<1> SUFFICES ASSUME TypeInv, LifeInv, NoticeInv, [Next]_vars
             PROVE  NoticeInv'
    OBVIOUS
<1>1. CASE UNCHANGED vars
      BY <1>1, NoticeStutter DEF vars, noticeVars, kernelVars, dbVars, processVars, queueVars,
                managerVars, starterVars, initVars, restartVars, connVars, mainVars
<1>2. CASE Next
      BY <1>1, <1>2, ShutdownThreadNotice, StarterThreadNotice, RestartProcessNotice,
         InitThreadNotice, ConnectionThreadNotice, MainThreadNotice, InotifyThreadNotice,
         EnvironmentNotice
         DEF Next, Terminated
<1> QED BY <1>1, <1>2

(* What is announced, and that it is seen, throughout every run. *)
LEMMA NoticeInvariance == Spec => []NoticeInv
BY InitNotice, NextNotice, TypeInvariance, LifeInvariance, PTL DEF Spec

(* The shutdown thread never sleeps without a timeout over a process nobody  *)
(* is going to tell it about: whatever has got into the list it has          *)
(* signalled, or has found dead and cleaned up.                              *)
THEOREM NothingForgotten == Spec => []NoForgottenProcess
<1>1. TypeInv /\ SleepInv /\ NoticeInv => NoForgottenProcess
  <2> SUFFICES ASSUME TypeInv, SleepInv, NoticeInv, spc = "sleep", ~NotifyPending,
                      NEW p \in Pid, plist[p] = "shutdown"
               PROVE  os[p] # "alive" /\ (fd[p] = "closed" \/ psig[p] = "wholesec")
      BY DEF NoForgottenProcess, InList
  <2>1. ~Untouched(p)
        BY DEF NoticeInv, SeenInv
  <2>2. psig[p] \in SignalTime /\ psig[p] # "time"
        BY TypeInvLifeTypes DEF LifeTypes, SleepInv, MinSignalTimerEmpty, Rows
  <2> QED BY <2>1, <2>2 DEF Untouched, SignalTime
<1> QED BY <1>1, NoticeInvariance, SleepInvariance, TypeInvariance, PTL

-----------------------------------------------------------------------------
(* Deaths are noticed, and who was found faulty is retired. *)

(* Whoever is restarted, probed or taken by a connection has been in the     *)
(* table, and the threads restart the child they were working with.          *)
RestartedInv ==
    /\ \A a \in Actor : rpc[a] # "no" => ipc[rpid[a]] \notin {"none", "add"}
    /\ \A p \in Pid : rpc[p] # "no" => rpid[p] = p
    /\ \A h \in Conn : rpc[h] # "no" => rpid[h] = hpid[h]
    /\ \A h \in Conn : hpid[h] \in Pid => ipc[hpid[h]] \notin {"none", "add"}
    /\ \A p \in mscan : ipc[p] \notin {"none", "add"}

(* Out of service for good: the row has left the lists from which requests   *)
(* are served, and the thread that inserts it has done so.                   *)
Retired(p) == ~InService(p) /\ ipc[p] \notin {"none", "add"}

RetiredInv ==
    /\ \A p \in Pid : fd[p] = "closed" => Retired(p)
    /\ \A a \in Actor : rpc[a] = "notify" => Retired(rpid[a])
    /\ \A p \in Pid : ipc[p] = "crash" /\ rpc[p] = "no" => Retired(p)
    /\ \A h \in Conn : hpc[h] = "restart" /\ rpc[h] = "no" => Retired(hpid[h])

DeathInv == RestartedInv /\ RetiredInv /\ DeathNoticed

(* Everything but the lists, of which LifeStep says enough. *)
deathVars == <<os, fd, sigchld, ipc, rpc, rpid, hpc, hpid, mpc, mscan>>
DeathTypes ==
    /\ LifeTypes
    /\ sigchld \in Nat
    /\ rpc \in [Actor -> RpcLabel]
    /\ rpid \in [Actor -> Pid \cup {NoPid}]
    /\ \A a \in Actor : rpc[a] # "no" => rpid[a] \in Pid
    /\ hpc \in [Conn -> HpcLabel]
    /\ hpid \in [Conn -> Pid \cup {NoPid}]
    /\ \A h \in Conn : hpc[h] \in {"connect", "restart", "serve", "setidle"} <=> hpid[h] \in Pid
    /\ mscan \subseteq Pid

(* The types DeathInv needs follow from the type invariant. *)
LEMMA TypeInvDeathTypes == TypeInv => DeathTypes
BY TypeInvLifeTypes
   DEF TypeInv, TypeOK, KernelTypeOK, ManagerTypeOK, ConnTypeOK, SchedulerTypeOK, CallFacts,
       ConnFacts, DeathTypes

(* Nothing brings a retired process back. *)
LEMMA RetiredForGood ==
    ASSUME LifeStep, NEW p \in Pid, Retired(p)
    PROVE  Retired(p)'
BY DEF LifeStep, RowStep, Retired, InService

(* No row is in service that was not, or was not about to be inserted. *)
LEMMA NewInService ==
    ASSUME LifeStep, NEW p \in Pid, InService(p)'
    PROVE  InService(p) \/ (ipc[p] = "add" /\ ipc'[p] # "add")
BY DEF LifeStep, LifeInv, RowStep, InService

(* A step that leaves deathVars alone keeps DeathInv, whatever it moves. *)
LEMMA DeathStutter == DeathTypes /\ LifeStep /\ DeathInv /\ UNCHANGED deathVars => DeathInv'
<1> SUFFICES ASSUME DeathTypes, LifeStep, DeathInv, UNCHANGED deathVars
             PROVE  DeathInv'
    OBVIOUS
<1>1. RestartedInv'
      BY DEF DeathInv, RestartedInv, deathVars
<1>2. RetiredInv'
      BY RetiredForGood DEF DeathTypes, DeathInv, RetiredInv, deathVars
<1>3. DeathNoticed'
      BY NewInService DEF DeathInv, DeathNoticed, deathVars
<1> QED BY <1>1, <1>2, <1>3 DEF DeathInv

(* DeathInv holds when the daemon starts. *)
LEMMA InitDeath == Init => DeathInv
BY PidAssumption DEF Init, KernelInit, DatabaseInit, ManagerInit, ConnInit, DeathInv,
   RestartedInv, RetiredInv,
       Retired, InService, DeathNoticed, Actor

(* The shutdown thread (qgis_shutdown_queue.c) keeps DeathInv. *)
LEMMA ShutdownThreadDeath ==
    TypeInv /\ LifeInv /\ NoticeInv /\ DeathInv /\ ShutdownThread => DeathInv'
<1> SUFFICES ASSUME TypeInv, LifeInv, NoticeInv, DeathInv, ShutdownThread
             PROVE  DeathInv'
    OBVIOUS
<1> DeathTypes /\ LifeStep
    BY TypeInvDeathTypes, NextLife DEF Next
<1> USE DEF QueueStep, ManagerStep, ConnStep, kernelVars, dbVars, processVars, queueVars,
            managerVars, initVars, restartVars, connVars, mainVars, lowerVars
<1>1. CASE BeginScan /\ QueueStep
      BY <1>1, DeathStutter DEF BeginScan, deathVars
<1>2. CASE \E p \in Pid : CheckProcess(p) /\ QueueStep
  <2> PICK p \in Pid : CheckProcess(p) /\ QueueStep
      BY <1>2
  <2>1. plist[p] = "shutdown" /\ UNCHANGED <<sigchld, ipc, rpc, rpid, hpc, hpid, mpc, mscan, plist>>
        BY DEF CheckProcess, LifeInv
  <2>2. \A q \in Pid : q # p => os'[q] = os[q] /\ fd'[q] = fd[q]
        BY DEF DeathTypes, LifeTypes, CheckProcess, PassProcess, SignalProcess, AfterTerm,
           AfterKill,
               process_manager_cleanup_process
  <2>3. Retired(p)
        BY <2>1 DEF LifeInv, Retired, InService
  <2>a. RestartedInv'
        BY <2>1 DEF DeathInv, RestartedInv
  <2>b. RetiredInv'
        BY <2>1, <2>2, <2>3, RetiredForGood DEF DeathTypes, DeathInv, RetiredInv
  <2>c. DeathNoticed'
        BY <2>1, <2>2, <2>3 DEF DeathInv, DeathNoticed, Retired, InService
  <2> QED BY <2>a, <2>b, <2>c DEF DeathInv
<1>3. CASE WeedOut /\ QueueStep
      BY <1>3, DeathStutter DEF WeedOut, deathVars
<1>4. CASE Decide /\ QueueStep
      BY <1>4, DeathStutter DEF Decide, deathVars
<1>5. CASE WaitTimesOut /\ QueueStep
      BY <1>5, DeathStutter DEF WaitTimesOut, deathVars
<1>6. CASE WakeUp /\ QueueStep
      BY <1>6, DeathStutter DEF WakeUp, deathVars
<1>7. CASE DrainCheck /\ QueueStep
      BY <1>7, DeathStutter DEF DrainCheck, deathVars
<1> QED BY <1>1, <1>2, <1>3, <1>4, <1>5, <1>6, <1>7 DEF ShutdownThread

(* A starter thread (process_manager_start_new_process_wait) keeps DeathInv. *)
LEMMA StarterThreadDeath ==
    TypeInv /\ LifeInv /\ NoticeInv /\ DeathInv /\ (\E s \in Starter : StarterThread(s))
        => DeathInv'
<1> SUFFICES ASSUME TypeInv, LifeInv, NoticeInv, DeathInv, NEW s \in Starter, StarterThread(s)
             PROVE  DeathInv'
    OBVIOUS
<1> DeathTypes /\ LifeStep
    BY TypeInvDeathTypes, NextLife DEF Next
<1> USE DEF QueueStep, ManagerStep, ConnStep, kernelVars, dbVars, processVars, queueVars,
            managerVars, initVars, restartVars, connVars, mainVars, lowerVars
<1>1. CASE StartCheck(s) /\ ManagerStep
      BY <1>1, DeathStutter DEF StartCheck, deathVars
<1>2. CASE \E p \in Pid : StartNewChild(s, p) /\ ManagerStep
  <2> PICK p \in Pid : StartNewChild(s, p)
      BY <1>2
  <2>1. ipc[p] = "none"
        BY DEF StartNewChild, Forked, LifeInv
  <2>2. fd'[p] = "open" /\ os'[p] = "alive" /\ ipc'[p] = "add"
        BY DEF DeathTypes, LifeTypes, StartNewChild, Forked
  <2>3. \A q \in Pid : q # p => ipc'[q] = ipc[q] /\ os'[q] = os[q] /\ fd'[q] = fd[q]
        BY DEF DeathTypes, LifeTypes, StartNewChild, Forked
  <2>4. UNCHANGED <<plist, rpc, rpid, hpc, hpid, mpc, mscan, sigchld>>
        BY <1>2 DEF StartNewChild
  <2>a. RestartedInv'
        BY <2>1, <2>2, <2>3, <2>4 DEF DeathTypes, DeathInv, RestartedInv
  <2>b. RetiredInv'
        BY <2>1, <2>2, <2>3, <2>4, RetiredForGood DEF DeathTypes, DeathInv, RetiredInv
  <2>c. DeathNoticed'
        BY <2>1, <2>2, <2>3, <2>4, NewInService DEF DeathInv, DeathNoticed
  <2> QED BY <2>a, <2>b, <2>c DEF DeathInv
<1>3. CASE StartNothing(s) /\ ManagerStep
      BY <1>3, DeathStutter DEF StartNothing, deathVars
<1>4. CASE ExchangeProcesses(s) /\ ManagerStep
      BY <1>4, DeathStutter DEF ExchangeProcesses, MoveProjectList,
         db_move_all_process_from_active_to_shutdown_list, deathVars
<1>5. CASE ExchangeNotify(s) /\ ManagerStep
      BY <1>5, DeathStutter DEF ExchangeNotify, qgis_shutdown_notify_changes, deathVars
<1>6. CASE ExchangeReset(s) /\ ManagerStep
      BY <1>6, DeathStutter DEF ExchangeReset, deathVars
<1>7. CASE Activate(s) /\ ManagerStep
      BY <1>7, DeathStutter DEF Activate, MoveProjectList,
         db_move_all_idle_process_from_init_to_active_list, deathVars
<1>8. CASE ActivateNotify(s) /\ ManagerStep
      BY <1>8, DeathStutter DEF ActivateNotify, qgis_shutdown_notify_changes, deathVars
<1> QED BY <1>1, <1>2, <1>3, <1>4, <1>5, <1>6, <1>7, <1>8 DEF StarterThread

(* A call of process_manager_restart_process keeps DeathInv. *)
LEMMA RestartProcessDeath ==
    TypeInv /\ LifeInv /\ NoticeInv /\ DeathInv /\ (\E a \in Actor : RestartProcess(a))
        => DeathInv'
<1> SUFFICES ASSUME TypeInv, LifeInv, NoticeInv, DeathInv, NEW a \in Actor, RestartProcess(a)
             PROVE  DeathInv'
    OBVIOUS
<1> DeathTypes /\ LifeStep
    BY TypeInvDeathTypes, NextLife DEF Next
<1> USE DEF QueueStep, ManagerStep, ConnStep, kernelVars, dbVars, processVars, queueVars,
            managerVars, initVars, restartVars, connVars, mainVars, lowerVars
<1>1. CASE RestartStart(a) /\ ManagerStep
  <2>a. RestartedInv'
        BY <1>1 DEF DeathTypes, LifeTypes, DeathInv, RestartedInv, Actor, RestartStart, RestartStays
  <2>b. RetiredInv'
        BY <1>1, RetiredForGood DEF DeathTypes, LifeTypes, DeathInv, RetiredInv, Actor,
           RestartStart, RestartStays
  <2>c. DeathNoticed'
        BY <1>1, NewInService DEF DeathTypes, LifeTypes, DeathInv, DeathNoticed, Actor,
           RestartStart, RestartStays
  <2> QED BY <2>a, <2>b, <2>c DEF DeathInv
<1>2. CASE AddProcessMove(a) /\ ManagerStep
  <2>1. ~InService(rpid[a])'
        BY <1>2 DEF DeathTypes, LifeTypes, AddProcessMove, db_move_process_to_list, InService, Rows
  <2>a. RestartedInv'
        BY <1>2 DEF DeathTypes, LifeTypes, DeathInv, RestartedInv, Actor, AddProcessMove,
           RestartStays
  <2>b. RetiredInv'
        BY <1>2, RetiredForGood, <2>1 DEF DeathTypes, LifeTypes, DeathInv, RetiredInv, Actor,
           AddProcessMove, RestartStays, RestartedInv, Retired
  <2>c. DeathNoticed'
        BY <1>2, NewInService, <2>1 DEF DeathTypes, LifeTypes, DeathInv, DeathNoticed, Actor,
           AddProcessMove, RestartStays
  <2> QED BY <2>a, <2>b, <2>c DEF DeathInv
<1>3. CASE AddProcessAssertFails(a) /\ ManagerStep
      BY <1>3, DeathStutter DEF AddProcessAssertFails, RestartStays, deathVars
<1>4. CASE AddProcessNotify(a) /\ ManagerStep
  <2>1. Retired(rpid[a])
        BY <1>4 DEF DeathInv, RetiredInv, AddProcessNotify
  <2>2. \A p \in Pid : a = p => rpid[a] = p
        BY <1>4 DEF DeathInv, RestartedInv, AddProcessNotify
  <2>3. \A h \in Conn : a = h => rpid[a] = hpid[h]
        BY <1>4 DEF DeathInv, RestartedInv, AddProcessNotify
  <2>a. RestartedInv'
        BY <1>4 DEF DeathTypes, LifeTypes, DeathInv, RestartedInv, Actor, AddProcessNotify,
           RestartStays
  <2>b. RetiredInv'
        BY <1>4, RetiredForGood, <2>1, <2>2, <2>3 DEF DeathTypes, LifeTypes, DeathInv,
           RetiredInv, Actor, AddProcessNotify, RestartStays
  <2>c. DeathNoticed'
        BY <1>4, NewInService DEF DeathTypes, LifeTypes, DeathInv, DeathNoticed, Actor,
           AddProcessNotify, RestartStays
  <2> QED BY <2>a, <2>b, <2>c DEF DeathInv
<1> QED BY <1>1, <1>2, <1>3, <1>4 DEF RestartProcess

(* The thread that initialises a child (process_manager.c) keeps DeathInv. *)
LEMMA InitThreadDeath ==
    TypeInv /\ LifeInv /\ NoticeInv /\ DeathInv /\ (\E p \in Pid : InitThread(p))
        => DeathInv'
<1> SUFFICES ASSUME TypeInv, LifeInv, NoticeInv, DeathInv, NEW p \in Pid, InitThread(p)
             PROVE  DeathInv'
    OBVIOUS
<1> DeathTypes /\ LifeStep
    BY TypeInvDeathTypes, NextLife DEF Next
<1> USE DEF QueueStep, ManagerStep, ConnStep, kernelVars, dbVars, processVars, queueVars,
            managerVars, initVars, restartVars, connVars, mainVars, lowerVars
<1>1. CASE AddProcess(p) /\ ManagerStep
  <2>a. RestartedInv'
        BY <1>1 DEF DeathTypes, LifeTypes, DeathInv, RestartedInv, Actor, AddProcess, InitStep
  <2>b. RetiredInv'
        BY <1>1, RetiredForGood DEF DeathTypes, LifeTypes, DeathInv, RetiredInv, Actor,
           AddProcess, InitStep
  <2>c. DeathNoticed'
        BY <1>1, NewInService DEF DeathTypes, LifeTypes, DeathInv, DeathNoticed, Actor,
           AddProcess, InitStep
  <2> QED BY <2>a, <2>b, <2>c DEF DeathInv
<1>2. CASE ConnectInit(p) /\ ManagerStep
  <2>0. rpc[p] = "no"
        BY <1>2 DEF ConnectInit, InitStep, NoticeInv, CallInv, DeathTypes, Actor
  <2>1. \A q \in Pid : q # p => ipc'[q] = ipc[q] /\ rpc'[q] = rpc[q] /\ rpid'[q] = rpid[q]
        BY <1>2 DEF ConnectInit, InitStep, CallRestart, DeathTypes, LifeTypes, Actor
  <2>2. \A h \in Conn : rpc'[h] = rpc[h] /\ rpid'[h] = rpid[h]
        BY <1>2, ActorAssumption DEF ConnectInit, CallRestart, DeathTypes, Actor
  <2>3. ipc[p] \notin {"none", "add", "crash"} /\ ipc'[p] \notin {"none", "add"}
        BY <1>2 DEF ConnectInit, InitStep, DeathTypes, LifeTypes
  <2>a. RestartedInv'
        BY <1>2, <2>0, <2>1, <2>2, <2>3 DEF DeathTypes, LifeTypes, DeathInv, RestartedInv, Actor,
           ConnectInit, InitStep, CallRestart, db_process_set_state
  <2>b. RetiredInv'
        BY <1>2, RetiredForGood, <2>0, <2>1, <2>2, <2>3 DEF DeathTypes, LifeTypes, DeathInv,
           RetiredInv, Actor, ConnectInit, InitStep, CallRestart, db_process_set_state
  <2>c. DeathNoticed'
        BY <1>2, NewInService, <2>0, <2>1, <2>2, <2>3 DEF DeathTypes, LifeTypes, DeathInv,
           DeathNoticed, Actor, ConnectInit, InitStep, CallRestart, db_process_set_state,
           HasSocket, Exists, Rows, InService
  <2> QED BY <2>a, <2>b, <2>c DEF DeathInv
<1>3. CASE InitDone(p) /\ ManagerStep
  <2>a. RestartedInv'
        BY <1>3 DEF DeathTypes, LifeTypes, DeathInv, RestartedInv, Actor, InitDone, ReadDone
  <2>b. RetiredInv'
        BY <1>3, RetiredForGood DEF DeathTypes, LifeTypes, DeathInv, RetiredInv, Actor, InitDone,
           ReadDone
  <2>c. DeathNoticed'
        BY <1>3, NewInService DEF DeathTypes, LifeTypes, DeathInv, DeathNoticed, Actor, InitDone,
           ReadDone, Exists
  <2> QED BY <2>a, <2>b, <2>c DEF DeathInv
<1>4. CASE ReadTimesOut(p) /\ ManagerStep
  <2>0. rpc[p] = "no"
        BY <1>4 DEF ReadTimesOut, InitStep, NoticeInv, CallInv, DeathTypes, Actor
  <2>1. \A q \in Pid : q # p => ipc'[q] = ipc[q] /\ rpc'[q] = rpc[q] /\ rpid'[q] = rpid[q]
        BY <1>4 DEF ReadTimesOut, InitStep, CallRestart, DeathTypes, LifeTypes, Actor
  <2>2. \A h \in Conn : rpc'[h] = rpc[h] /\ rpid'[h] = rpid[h]
        BY <1>4, ActorAssumption DEF ReadTimesOut, CallRestart, DeathTypes, Actor
  <2>3. ipc[p] \notin {"none", "add", "crash"} /\ ipc'[p] \notin {"none", "add"}
        BY <1>4 DEF ReadTimesOut, InitStep, DeathTypes, LifeTypes
  <2>a. RestartedInv'
        BY <1>4, <2>0, <2>1, <2>2, <2>3 DEF DeathTypes, LifeTypes, DeathInv, RestartedInv, Actor,
           ReadTimesOut, InitStep, CallRestart
  <2>b. RetiredInv'
        BY <1>4, RetiredForGood, <2>0, <2>1, <2>2, <2>3 DEF DeathTypes, LifeTypes, DeathInv,
           RetiredInv, Actor, ReadTimesOut, InitStep, CallRestart
  <2>c. DeathNoticed'
        BY <1>4, NewInService, <2>0, <2>1, <2>2, <2>3 DEF DeathTypes, LifeTypes, DeathInv,
           DeathNoticed, Actor, ReadTimesOut, InitStep, CallRestart
  <2> QED BY <2>a, <2>b, <2>c DEF DeathInv
<1>5. CASE DiedDuringInit(p) /\ ManagerStep
  <2>a. RestartedInv'
        BY <1>5 DEF DeathTypes, LifeTypes, DeathInv, RestartedInv, Actor, DiedDuringInit, ReadDone
  <2>b. RetiredInv'
        BY <1>5, RetiredForGood DEF DeathTypes, LifeTypes, DeathInv, RetiredInv, Actor,
           DiedDuringInit, ReadDone
  <2>c. DeathNoticed'
        BY <1>5, NewInService DEF DeathTypes, LifeTypes, DeathInv, DeathNoticed, Actor,
           DiedDuringInit, ReadDone, RetiredInv, Retired
  <2> QED BY <2>a, <2>b, <2>c DEF DeathInv
<1>6. CASE InitSetIdle(p) /\ ConnStep
  <2>a. RestartedInv'
        BY <1>6 DEF DeathTypes, LifeTypes, DeathInv, RestartedInv, Actor, InitSetIdle, InitStep,
           IdleSignalled, Waiting
  <2>b. RetiredInv'
        BY <1>6, RetiredForGood DEF DeathTypes, LifeTypes, DeathInv, RetiredInv, Actor,
           InitSetIdle, InitStep, IdleSignalled, Waiting
  <2>c. DeathNoticed'
        BY <1>6, NewInService DEF DeathTypes, LifeTypes, DeathInv, DeathNoticed, Actor,
           InitSetIdle, InitStep, IdleSignalled, Waiting
  <2> QED BY <2>a, <2>b, <2>c DEF DeathInv
<1>7. CASE InitEndsDaemon(p) /\ ManagerStep
      BY <1>7, DeathStutter DEF InitEndsDaemon, deathVars
<1> QED BY <1>1, <1>2, <1>3, <1>4, <1>5, <1>6, <1>7 DEF InitThread

(* A connection thread (connection_manager.c) keeps DeathInv. *)
LEMMA ConnectionThreadDeath ==
    TypeInv /\ LifeInv /\ NoticeInv /\ DeathInv /\ (\E h \in Conn : ConnectionThread(h))
        => DeathInv'
<1> SUFFICES ASSUME TypeInv, LifeInv, NoticeInv, DeathInv, NEW h \in Conn, ConnectionThread(h)
             PROVE  DeathInv'
    OBVIOUS
<1> DeathTypes /\ LifeStep
    BY TypeInvDeathTypes, NextLife DEF Next
<1> USE DEF QueueStep, ManagerStep, ConnStep, kernelVars, dbVars, processVars, queueVars,
            managerVars, initVars, restartVars, connVars, mainVars, lowerVars
<1>1. CASE CountProcesses(h) /\ ConnStep
  <2>a. RestartedInv'
        BY <1>1 DEF DeathTypes, LifeTypes, DeathInv, RestartedInv, Actor, CountProcesses
  <2>b. RetiredInv'
        BY <1>1, RetiredForGood DEF DeathTypes, LifeTypes, DeathInv, RetiredInv, Actor,
           CountProcesses
  <2>c. DeathNoticed'
        BY <1>1, NewInService DEF DeathTypes, LifeTypes, DeathInv, DeathNoticed, Actor,
           CountProcesses
  <2> QED BY <2>a, <2>b, <2>c DEF DeathInv
<1>2. CASE NoProjectFound(h) /\ ConnStep
  <2>a. RestartedInv'
        BY <1>2 DEF DeathTypes, LifeTypes, DeathInv, RestartedInv, Actor, NoProjectFound, Abort
  <2>b. RetiredInv'
        BY <1>2, RetiredForGood DEF DeathTypes, LifeTypes, DeathInv, RetiredInv, Actor,
           NoProjectFound, Abort
  <2>c. DeathNoticed'
        BY <1>2, NewInService DEF DeathTypes, LifeTypes, DeathInv, DeathNoticed, Actor,
           NoProjectFound, Abort
  <2> QED BY <2>a, <2>b, <2>c DEF DeathInv
<1>3. CASE TakeProcess(h) /\ ConnStep
  <2>a. RestartedInv'
        BY <1>3 DEF DeathTypes, LifeTypes, DeathInv, RestartedInv, Actor, TakeProcess, TakeIdle,
           IdleProcesses, InList, LifeInv
  <2>b. RetiredInv'
        BY <1>3, RetiredForGood DEF DeathTypes, LifeTypes, DeathInv, RetiredInv, Actor,
           TakeProcess, TakeIdle, IdleProcesses, InList
  <2>c. DeathNoticed'
        BY <1>3, NewInService DEF DeathTypes, LifeTypes, DeathInv, DeathNoticed, Actor,
           TakeProcess, TakeIdle, IdleProcesses, InList
  <2> QED BY <2>a, <2>b, <2>c DEF DeathInv
<1>4. CASE IdleTimesOut(h) /\ ConnStep
  <2>a. RestartedInv'
        BY <1>4 DEF DeathTypes, LifeTypes, DeathInv, RestartedInv, Actor, IdleTimesOut, Abort
  <2>b. RetiredInv'
        BY <1>4, RetiredForGood DEF DeathTypes, LifeTypes, DeathInv, RetiredInv, Actor,
           IdleTimesOut, Abort
  <2>c. DeathNoticed'
        BY <1>4, NewInService DEF DeathTypes, LifeTypes, DeathInv, DeathNoticed, Actor,
           IdleTimesOut, Abort
  <2> QED BY <2>a, <2>b, <2>c DEF DeathInv
<1>5. CASE RecheckProcess(h) /\ ConnStep
  <2>a. RestartedInv'
        BY <1>5 DEF DeathTypes, LifeTypes, DeathInv, RestartedInv, Actor, RecheckProcess,
           TakeIdle, IdleProcesses, InList, Abort, LifeInv
  <2>b. RetiredInv'
        BY <1>5, RetiredForGood DEF DeathTypes, LifeTypes, DeathInv, RetiredInv, Actor,
           RecheckProcess, TakeIdle, IdleProcesses, InList, Abort
  <2>c. DeathNoticed'
        BY <1>5, NewInService DEF DeathTypes, LifeTypes, DeathInv, DeathNoticed, Actor,
           RecheckProcess, TakeIdle, IdleProcesses, InList, Abort
  <2> QED BY <2>a, <2>b, <2>c DEF DeathInv
<1>6. CASE ConnectChild(h) /\ ConnStep
  <2>a. RestartedInv'
        BY <1>6 DEF DeathTypes, LifeTypes, DeathInv, RestartedInv, Actor, ConnectChild
  <2>b. RetiredInv'
        BY <1>6, RetiredForGood DEF DeathTypes, LifeTypes, DeathInv, RetiredInv, Actor, ConnectChild
  <2>c. DeathNoticed'
        BY <1>6, NewInService DEF DeathTypes, LifeTypes, DeathInv, DeathNoticed, Actor, ConnectChild
  <2> QED BY <2>a, <2>b, <2>c DEF DeathInv
<1>7. CASE ConnectFails(h) /\ ConnStep
  <2>1. rpc[h] = "no"
        BY <1>7 DEF ConnectFails, NoticeInv, CallInv, DeathTypes, Actor
  <2>a. RestartedInv'
        BY <1>7, <2>1, ActorAssumption DEF DeathTypes, LifeTypes, DeathInv, RestartedInv, Actor,
           ConnectFails, CallRestart
  <2>b. RetiredInv'
        BY <1>7, RetiredForGood, <2>1, ActorAssumption DEF DeathTypes, LifeTypes, DeathInv,
           RetiredInv, Actor, ConnectFails, CallRestart
  <2>c. DeathNoticed'
        BY <1>7, NewInService, <2>1 DEF DeathTypes, LifeTypes, DeathInv, DeathNoticed, Actor,
           ConnectFails, CallRestart
  <2> QED BY <2>a, <2>b, <2>c DEF DeathInv
<1>8. CASE ConnRestarted(h) /\ ConnStep
  <2>a. RestartedInv'
        BY <1>8, PidAssumption DEF DeathTypes, LifeTypes, DeathInv, RestartedInv, Actor,
           ConnRestarted, FaultyChildRetry, Abort, NoticeInv, CallInv
  <2>b. RetiredInv'
        BY <1>8, RetiredForGood DEF DeathTypes, LifeTypes, DeathInv, RetiredInv, Actor,
           ConnRestarted, FaultyChildRetry, Abort
  <2>c. DeathNoticed'
        BY <1>8, NewInService DEF DeathTypes, LifeTypes, DeathInv, DeathNoticed, Actor,
           ConnRestarted, FaultyChildRetry, Abort
  <2> QED BY <2>a, <2>b, <2>c DEF DeathInv
<1>9. CASE SocketFails(h) /\ ConnStep
  <2>a. RestartedInv'
        BY <1>9, PidAssumption DEF DeathTypes, LifeTypes, DeathInv, RestartedInv, Actor,
           SocketFails, FaultyChildRetry, Abort, NoticeInv, CallInv
  <2>b. RetiredInv'
        BY <1>9, RetiredForGood DEF DeathTypes, LifeTypes, DeathInv, RetiredInv, Actor,
           SocketFails, FaultyChildRetry, Abort
  <2>c. DeathNoticed'
        BY <1>9, NewInService DEF DeathTypes, LifeTypes, DeathInv, DeathNoticed, Actor,
           SocketFails, FaultyChildRetry, Abort
  <2> QED BY <2>a, <2>b, <2>c DEF DeathInv
<1>10. CASE ConnSetIdle(h) /\ ConnStep
  <2>a. RestartedInv'
        BY <1>10, PidAssumption DEF DeathTypes, LifeTypes, DeathInv, RestartedInv, Actor,
           ConnSetIdle, IdleSignalled, Waiting, NoticeInv, CallInv
  <2>b. RetiredInv'
        BY <1>10, RetiredForGood DEF DeathTypes, LifeTypes, DeathInv, RetiredInv, Actor,
           ConnSetIdle, IdleSignalled, Waiting
  <2>c. DeathNoticed'
        BY <1>10, NewInService DEF DeathTypes, LifeTypes, DeathInv, DeathNoticed, Actor,
           ConnSetIdle, IdleSignalled, Waiting
  <2> QED BY <2>a, <2>b, <2>c DEF DeathInv
<1>11. CASE EndConnection(h) /\ ConnStep
  <2>a. RestartedInv'
        BY <1>11 DEF DeathTypes, LifeTypes, DeathInv, RestartedInv, Actor, EndConnection
  <2>b. RetiredInv'
        BY <1>11, RetiredForGood DEF DeathTypes, LifeTypes, DeathInv, RetiredInv, Actor,
           EndConnection
  <2>c. DeathNoticed'
        BY <1>11, NewInService DEF DeathTypes, LifeTypes, DeathInv, DeathNoticed, Actor,
           EndConnection
  <2> QED BY <2>a, <2>b, <2>c DEF DeathInv
<1>12. CASE RetriesOver(h) /\ ConnStep
  <2>a. RestartedInv'
        BY <1>12 DEF DeathTypes, LifeTypes, DeathInv, RestartedInv, Actor, RetriesOver
  <2>b. RetiredInv'
        BY <1>12, RetiredForGood DEF DeathTypes, LifeTypes, DeathInv, RetiredInv, Actor, RetriesOver
  <2>c. DeathNoticed'
        BY <1>12, NewInService DEF DeathTypes, LifeTypes, DeathInv, DeathNoticed, Actor, RetriesOver
  <2> QED BY <2>a, <2>b, <2>c DEF DeathInv
<1> QED BY <1>1, <1>2, <1>3, <1>4, <1>5, <1>6, <1>7, <1>8, <1>9, <1>10, <1>11,
   <1>12 DEF ConnectionThread

(* main (qgis-schedulerd.c) keeps DeathInv. *)
LEMMA MainThreadDeath == TypeInv /\ LifeInv /\ NoticeInv /\ DeathInv /\ MainThread => DeathInv'
<1> SUFFICES ASSUME TypeInv, LifeInv, NoticeInv, DeathInv, MainThread
             PROVE  DeathInv'
    OBVIOUS
<1> DeathTypes /\ LifeStep
    BY TypeInvDeathTypes, NextLife DEF Next
<1> USE DEF QueueStep, ManagerStep, ConnStep, kernelVars, dbVars, processVars, queueVars,
            managerVars, initVars, restartVars, connVars, mainVars, lowerVars
<1>1. CASE \E pr \in Project : StartProject(pr) /\ Running
      BY <1>1, DeathStutter DEF StartProject, deathVars
<1>2. CASE StartupDone /\ Running
  <2>a. RestartedInv'
        BY <1>2 DEF DeathTypes, LifeTypes, DeathInv, RestartedInv, Actor, StartupDone
  <2>b. RetiredInv'
        BY <1>2, RetiredForGood DEF DeathTypes, LifeTypes, DeathInv, RetiredInv, Actor, StartupDone
  <2>c. DeathNoticed'
        BY <1>2, NewInService DEF DeathTypes, LifeTypes, DeathInv, DeathNoticed, Actor, StartupDone
  <2> QED BY <2>a, <2>b, <2>c DEF DeathInv
<1>3. CASE SigChld /\ Running
  <2>a. RestartedInv'
        BY <1>3 DEF DeathTypes, LifeTypes, DeathInv, RestartedInv, Actor, SigChld, Rows, LifeInv
  <2>b. RetiredInv'
        BY <1>3, RetiredForGood DEF DeathTypes, LifeTypes, DeathInv, RetiredInv, Actor, SigChld,
           Rows
  <2>c. DeathNoticed'
        BY <1>3, NewInService DEF DeathTypes, LifeTypes, DeathInv, DeathNoticed, Actor, SigChld,
           Rows, InService
  <2> QED BY <2>a, <2>b, <2>c DEF DeathInv
<1>4. CASE \E p \in Pid : ProbeProcess(p) /\ Running
  <2> PICK p \in Pid : ProbeProcess(p)
      BY <1>4
  <2>a. RestartedInv'
        BY <1>4, ActorAssumption DEF DeathTypes, LifeTypes, DeathInv, RestartedInv, Actor,
           ProbeProcess, CallRestart
  <2>b. RetiredInv'
        BY <1>4, RetiredForGood, ActorAssumption DEF DeathTypes, LifeTypes, DeathInv, RetiredInv,
           Actor, ProbeProcess, CallRestart
  <2>c. DeathNoticed'
        BY <1>4, NewInService, ActorAssumption DEF DeathTypes, LifeTypes, DeathInv, DeathNoticed,
           Actor, ProbeProcess, CallRestart, Exists
  <2> QED BY <2>a, <2>b, <2>c DEF DeathInv
<1>5. CASE ProbesDone /\ Running
  <2>a. RestartedInv'
        BY <1>5 DEF DeathTypes, LifeTypes, DeathInv, RestartedInv, Actor, ProbesDone
  <2>b. RetiredInv'
        BY <1>5, RetiredForGood DEF DeathTypes, LifeTypes, DeathInv, RetiredInv, Actor, ProbesDone
  <2>c. DeathNoticed'
        BY <1>5, NewInService DEF DeathTypes, LifeTypes, DeathInv, DeathNoticed, Actor, ProbesDone
  <2> QED BY <2>a, <2>b, <2>c DEF DeathInv
<1>6. CASE SigTerm /\ Running
  <2>a. RestartedInv'
        BY <1>6 DEF DeathTypes, LifeTypes, DeathInv, RestartedInv, Actor, SigTerm, MainStep
  <2>b. RetiredInv'
        BY <1>6, RetiredForGood DEF DeathTypes, LifeTypes, DeathInv, RetiredInv, Actor, SigTerm,
           MainStep
  <2>c. DeathNoticed'
        BY <1>6, NewInService DEF DeathTypes, LifeTypes, DeathInv, DeathNoticed, Actor, SigTerm,
           MainStep
  <2> QED BY <2>a, <2>b, <2>c DEF DeathInv
<1>7. CASE \E pr \in Project : ShutdownProject(pr) /\ Running
  <2>a. RestartedInv'
        BY <1>7 DEF DeathTypes, LifeTypes, DeathInv, RestartedInv, Actor, ShutdownProject
  <2>b. RetiredInv'
        BY <1>7, RetiredForGood DEF DeathTypes, LifeTypes, DeathInv, RetiredInv, Actor,
           ShutdownProject
  <2>c. DeathNoticed'
        BY <1>7, NewInService DEF DeathTypes, LifeTypes, DeathInv, DeathNoticed, Actor,
           ShutdownProject
  <2> QED BY <2>a, <2>b, <2>c DEF DeathInv
<1>8. CASE ActiveToShutdown /\ Running
  <2>a. RestartedInv'
        BY <1>8 DEF DeathTypes, LifeTypes, DeathInv, RestartedInv, Actor, ActiveToShutdown, MainStep
  <2>b. RetiredInv'
        BY <1>8, RetiredForGood DEF DeathTypes, LifeTypes, DeathInv, RetiredInv, Actor,
           ActiveToShutdown, MainStep
  <2>c. DeathNoticed'
        BY <1>8, NewInService DEF DeathTypes, LifeTypes, DeathInv, DeathNoticed, Actor,
           ActiveToShutdown, MainStep
  <2> QED BY <2>a, <2>b, <2>c DEF DeathInv
<1>9. CASE NotifyMoved /\ Running
  <2>a. RestartedInv'
        BY <1>9 DEF DeathTypes, LifeTypes, DeathInv, RestartedInv, Actor, NotifyMoved, MainStep
  <2>b. RetiredInv'
        BY <1>9, RetiredForGood DEF DeathTypes, LifeTypes, DeathInv, RetiredInv, Actor,
           NotifyMoved, MainStep
  <2>c. DeathNoticed'
        BY <1>9, NewInService DEF DeathTypes, LifeTypes, DeathInv, DeathNoticed, Actor,
           NotifyMoved, MainStep
  <2> QED BY <2>a, <2>b, <2>c DEF DeathInv
<1>10. CASE RemoveProject /\ Running
  <2>a. RestartedInv'
        BY <1>10 DEF DeathTypes, LifeTypes, DeathInv, RestartedInv, Actor, RemoveProject
  <2>b. RetiredInv'
        BY <1>10, RetiredForGood DEF DeathTypes, LifeTypes, DeathInv, RetiredInv, Actor,
           RemoveProject
  <2>c. DeathNoticed'
        BY <1>10, NewInService DEF DeathTypes, LifeTypes, DeathInv, DeathNoticed, Actor,
           RemoveProject
  <2> QED BY <2>a, <2>b, <2>c DEF DeathInv
<1>11. CASE RestartProject /\ Running
  <2>a. RestartedInv'
        BY <1>11 DEF DeathTypes, LifeTypes, DeathInv, RestartedInv, Actor, RestartProject, MainStep
  <2>b. RetiredInv'
        BY <1>11, RetiredForGood DEF DeathTypes, LifeTypes, DeathInv, RetiredInv, Actor,
           RestartProject, MainStep
  <2>c. DeathNoticed'
        BY <1>11, NewInService DEF DeathTypes, LifeTypes, DeathInv, DeathNoticed, Actor,
           RestartProject, MainStep
  <2> QED BY <2>a, <2>b, <2>c DEF DeathInv
<1>12. CASE \E pr \in Project : FillProject(pr) /\ Running
      BY <1>12, DeathStutter DEF FillProject, deathVars
<1>13. CASE HupDone /\ Running
  <2>a. RestartedInv'
        BY <1>13 DEF DeathTypes, LifeTypes, DeathInv, RestartedInv, Actor, HupDone, MainStep
  <2>b. RetiredInv'
        BY <1>13, RetiredForGood DEF DeathTypes, LifeTypes, DeathInv, RetiredInv, Actor, HupDone,
           MainStep
  <2>c. DeathNoticed'
        BY <1>13, NewInService DEF DeathTypes, LifeTypes, DeathInv, DeathNoticed, Actor, HupDone,
           MainStep
  <2> QED BY <2>a, <2>b, <2>c DEF DeathInv
<1>14. CASE WaitEmpty /\ Running
  <2>a. RestartedInv'
        BY <1>14 DEF DeathTypes, LifeTypes, DeathInv, RestartedInv, Actor, WaitEmpty, MainStep
  <2>b. RetiredInv'
        BY <1>14, RetiredForGood DEF DeathTypes, LifeTypes, DeathInv, RetiredInv, Actor,
           WaitEmpty, MainStep
  <2>c. DeathNoticed'
        BY <1>14, NewInService DEF DeathTypes, LifeTypes, DeathInv, DeathNoticed, Actor,
           WaitEmpty, MainStep
  <2> QED BY <2>a, <2>b, <2>c DEF DeathInv
<1>15. CASE JoinInotify /\ Running
  <2>a. RestartedInv'
        BY <1>15 DEF DeathTypes, LifeTypes, DeathInv, RestartedInv, Actor, JoinInotify, MainStep
  <2>b. RetiredInv'
        BY <1>15, RetiredForGood DEF DeathTypes, LifeTypes, DeathInv, RetiredInv, Actor,
           JoinInotify, MainStep
  <2>c. DeathNoticed'
        BY <1>15, NewInService DEF DeathTypes, LifeTypes, DeathInv, DeathNoticed, Actor,
           JoinInotify, MainStep
  <2> QED BY <2>a, <2>b, <2>c DEF DeathInv
<1>16. CASE Exit /\ Running
      BY <1>16, DeathStutter DEF Exit, deathVars
<1> QED BY <1>1, <1>2, <1>3, <1>4, <1>5, <1>6, <1>7, <1>8, <1>9, <1>10, <1>11, <1>12, <1>13,
   <1>14, <1>15, <1>16 DEF MainThread

(* The inotify thread (qgis_inotify.c) keeps DeathInv. *)
LEMMA InotifyThreadDeath ==
    TypeInv /\ LifeInv /\ NoticeInv /\ DeathInv /\ InotifyThread => DeathInv'
<1> SUFFICES ASSUME TypeInv, LifeInv, NoticeInv, DeathInv, InotifyThread
             PROVE  DeathInv'
    OBVIOUS
<1> DeathTypes /\ LifeStep
    BY TypeInvDeathTypes, NextLife DEF Next
<1> USE DEF QueueStep, ManagerStep, ConnStep, kernelVars, dbVars, processVars, queueVars,
            managerVars, initVars, restartVars, connVars, mainVars, lowerVars
<1>1. CASE \E pr \in Project : ReadConfigEvent(pr) /\ Running
      BY <1>1, DeathStutter DEF ReadConfigEvent, deathVars
<1>2. CASE RestartProcesses /\ Running
      BY <1>2, DeathStutter DEF RestartProcesses, deathVars
<1>3. CASE \E d \in Dir : ReadIgnored(d) /\ Running
      BY <1>3, DeathStutter DEF ReadIgnored, deathVars
<1> QED BY <1>1, <1>2, <1>3 DEF InotifyThread

(* The outside world (deaths, time, clients, files, signals) keeps DeathInv. *)
LEMMA EnvironmentDeath == TypeInv /\ LifeInv /\ NoticeInv /\ DeathInv /\ Environment => DeathInv'
<1> SUFFICES ASSUME TypeInv, LifeInv, NoticeInv, DeathInv, Environment
             PROVE  DeathInv'
    OBVIOUS
<1> DeathTypes /\ LifeStep
    BY TypeInvDeathTypes, NextLife DEF Next
<1> USE DEF QueueStep, ManagerStep, ConnStep, kernelVars, dbVars, processVars, queueVars,
            managerVars, initVars, restartVars, connVars, mainVars, lowerVars
<1>1. CASE \E p \in Pid : Die(p) /\ UNCHANGED <<dbVars, queueVars>> /\ QueueStep
  <2> PICK p \in Pid : Die(p) /\ UNCHANGED <<dbVars, queueVars>>
      BY <1>1
  <2>a. RestartedInv'
        BY <1>1 DEF DeathTypes, LifeTypes, DeathInv, RestartedInv, Actor, Die
  <2>b. RetiredInv'
        BY <1>1, RetiredForGood DEF DeathTypes, LifeTypes, DeathInv, RetiredInv, Actor, Die
  <2>c. DeathNoticed'
        BY <1>1, NewInService DEF DeathTypes, LifeTypes, DeathInv, DeathNoticed, Actor, Die
  <2> QED BY <2>a, <2>b, <2>c DEF DeathInv
<1>2. CASE \E p \in Pid : TimeoutPasses(p) /\ QueueStep
      BY <1>2, DeathStutter DEF TimeoutPasses, deathVars
<1>3. CASE SpuriousWakeup /\ QueueStep
      BY <1>3, DeathStutter DEF SpuriousWakeup, deathVars
<1>4. CASE \E h \in Conn : IdleSpuriousWakeup(h) /\ ConnStep
  <2>a. RestartedInv'
        BY <1>4 DEF DeathTypes, LifeTypes, DeathInv, RestartedInv, Actor, IdleSpuriousWakeup
  <2>b. RetiredInv'
        BY <1>4, RetiredForGood DEF DeathTypes, LifeTypes, DeathInv, RetiredInv, Actor,
           IdleSpuriousWakeup
  <2>c. DeathNoticed'
        BY <1>4, NewInService DEF DeathTypes, LifeTypes, DeathInv, DeathNoticed, Actor,
           IdleSpuriousWakeup
  <2> QED BY <2>a, <2>b, <2>c DEF DeathInv
<1>5. CASE \E h \in Conn : RelayEnds(h) /\ ConnStep
  <2>a. RestartedInv'
        BY <1>5 DEF DeathTypes, LifeTypes, DeathInv, RestartedInv, Actor, RelayEnds
  <2>b. RetiredInv'
        BY <1>5, RetiredForGood DEF DeathTypes, LifeTypes, DeathInv, RetiredInv, Actor, RelayEnds
  <2>c. DeathNoticed'
        BY <1>5, NewInService DEF DeathTypes, LifeTypes, DeathInv, DeathNoticed, Actor, RelayEnds
  <2> QED BY <2>a, <2>b, <2>c DEF DeathInv
<1>6. CASE \E h \in Conn : AcceptConnection(h) /\ Running
  <2>a. RestartedInv'
        BY <1>6 DEF DeathTypes, LifeTypes, DeathInv, RestartedInv, Actor, AcceptConnection, Accept
  <2>b. RetiredInv'
        BY <1>6, RetiredForGood DEF DeathTypes, LifeTypes, DeathInv, RetiredInv, Actor,
           AcceptConnection, Accept
  <2>c. DeathNoticed'
        BY <1>6, NewInService DEF DeathTypes, LifeTypes, DeathInv, DeathNoticed, Actor,
           AcceptConnection, Accept
  <2> QED BY <2>a, <2>b, <2>c DEF DeathInv
<1>7. CASE \E h \in Conn, pr \in Project \cup {NoProject} : ChooseProject(h, pr) /\ ConnStep
  <2>a. RestartedInv'
        BY <1>7 DEF DeathTypes, LifeTypes, DeathInv, RestartedInv, Actor, ChooseProject
  <2>b. RetiredInv'
        BY <1>7, RetiredForGood DEF DeathTypes, LifeTypes, DeathInv, RetiredInv, Actor,
           ChooseProject
  <2>c. DeathNoticed'
        BY <1>7, NewInService DEF DeathTypes, LifeTypes, DeathInv, DeathNoticed, Actor,
           ChooseProject
  <2> QED BY <2>a, <2>b, <2>c DEF DeathInv
<1>8. CASE \E new \in ConfigFiles : SigHup(new) /\ Running
  <2>a. RestartedInv'
        BY <1>8 DEF DeathTypes, LifeTypes, DeathInv, RestartedInv, Actor, SigHup, MainStep
  <2>b. RetiredInv'
        BY <1>8, RetiredForGood DEF DeathTypes, LifeTypes, DeathInv, RetiredInv, Actor, SigHup,
           MainStep
  <2>c. DeathNoticed'
        BY <1>8, NewInService DEF DeathTypes, LifeTypes, DeathInv, DeathNoticed, Actor, SigHup,
           MainStep
  <2> QED BY <2>a, <2>b, <2>c DEF DeathInv
<1>9. CASE \E pr \in Project : ConfigWritten(pr) /\ Running
      BY <1>9, DeathStutter DEF ConfigWritten, deathVars
<1>10. CASE TermArrives /\ Running
      BY <1>10, DeathStutter DEF TermArrives, deathVars
<1>11. CASE \E h \in Conn : ConnEndsDaemon(h) /\ ConnStep
      BY <1>11, DeathStutter DEF ConnEndsDaemon, deathVars
<1> QED BY <1>1, <1>2, <1>3, <1>4, <1>5, <1>6, <1>7, <1>8, <1>9, <1>10, <1>11 DEF Environment

(* Every step of the daemon keeps DeathInv. *)
LEMMA NextDeath == TypeInv /\ LifeInv /\ NoticeInv /\ DeathInv /\ [Next]_vars => DeathInv'
<1> SUFFICES ASSUME TypeInv, LifeInv, NoticeInv, DeathInv, [Next]_vars
             PROVE  DeathInv'
    OBVIOUS
<1>1. CASE UNCHANGED vars
      BY <1>1, DeathStutter, TypeInvDeathTypes, NextLife DEF vars, deathVars, kernelVars,
         initVars, restartVars, managerVars, connVars,
          mainVars
<1>2. CASE Next
      BY <1>1, <1>2, ShutdownThreadDeath, StarterThreadDeath, RestartProcessDeath, InitThreadDeath,
         ConnectionThreadDeath, MainThreadDeath, InotifyThreadDeath, EnvironmentDeath
         DEF Next, Terminated
<1> QED BY <1>1, <1>2

(* Every step of the daemon keeps DeathInv, which holds at the start. *)
LEMMA DeathInvariance == Spec => []DeathInv
<1>1. TypeInv /\ LifeInv /\ NoticeInv /\ DeathInv /\ [Next]_vars => DeathInv'
      BY NextDeath
<1> QED BY <1>1, InitDeath, NoticeInvariance, TypeInvariance, LifeInvariance, PTL DEF Spec

(* No order of fork, death, SIGCHLD and db_add_process leaves a dead process *)
(* in service that nobody is going to notice, for any number of children     *)
(* and threads; but for the child whose initialising thread was interrupted  *)
(* (NoDeathOverlooked of module SchedulerProperties is what that breaks).    *)
THEOREM DeathsNoticed == Spec => []DeathNoticed
<1>1. DeathInv => DeathNoticed
      BY DEF DeathInv
<1> QED BY <1>1, DeathInvariance, PTL

(* When process_manager_restart_process returns to the thread that found a   *)
(* child faulty, no thread can hand that child to a request any more.        *)
THEOREM FaultyRetired == Spec => []FaultyChildRetired
<1>1. DeathInv => FaultyChildRetired
      BY DEF DeathInv, RetiredInv, Retired, FaultyChildRetired
<1> QED BY <1>1, DeathInvariance, PTL
=============================================================================
