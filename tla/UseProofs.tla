----------------------------- MODULE UseProofs -----------------------------
(* What the connection threads may rely on, proved with TLAPS: nobody else   *)
(* talks to the process they took, and every client gets an answer.          *)
EXTENDS LifeProofs

(* Why nobody else takes the process of a connection: the process is         *)
(* initialised, and its state is IDLE only while no connection has it. The   *)
(* state alone decides (db_get_next_idle_process_for_busy_work); the threads *)
(* that write IDLE are the initialising thread with its last step and the    *)
(* connection that gives the process back.                                   *)
UseInv ==
    /\ \A h, g \in Conn : hpid[h] = hpid[g] /\ hpid[h] \in Pid => h = g
    /\ \A h \in Conn, p \in Pid : hpid[h] = p => ipc[p] = "ended"
    /\ \A p \in Pid : pstate[p] = "IDLE" => ipc[p] = "ended" /\ \A h \in Conn : hpid[h] # p

useVars == <<pstate, ipc, hpid>>
UseTypes ==
    /\ pstate \in [Pid -> State]
    /\ ipc \in [Pid -> IpcLabel]
    /\ hpid \in [Conn -> Pid \cup {NoPid}]

-----------------------------------------------------------------------------
(* Exclusive use. *)

(* The types UseInv needs follow from the type invariant. *)
LEMMA TypeInvUseTypes == TypeInv => UseTypes
BY DEF TypeInv, TypeOK, DatabaseTypeOK, ManagerTypeOK, ConnTypeOK, UseTypes

(* A step that leaves useVars alone keeps UseInv. *)
LEMMA UseStutter == UseInv /\ UNCHANGED useVars => UseInv'
BY DEF UseInv, useVars

(* UseInv holds when the daemon starts. *)
LEMMA InitUse == Init => UseInv
BY PidAssumption DEF Init, DatabaseInit, ManagerInit, ConnInit, UseInv

(* The step that takes an idle process. *)
LEMMA TakeUse ==
    ASSUME UseTypes, UseInv, NEW h \in Conn, TakeIdle(h)
    PROVE  UseInv'
BY DEF UseTypes, UseInv, TakeIdle, IdleProcesses, InList, Rows, db_process_set_state,
       managerVars, initVars

(* The shutdown thread (qgis_shutdown_queue.c) keeps UseInv. *)
LEMMA ShutdownThreadUse == TypeInv /\ LifeInv /\ UseInv /\ ShutdownThread => UseInv'
<1> SUFFICES ASSUME TypeInv, LifeInv, UseInv, ShutdownThread
             PROVE  UseInv'
    OBVIOUS
<1> UseTypes
    BY TypeInvUseTypes
<1> USE DEF QueueStep, ManagerStep, ConnStep, dbVars, processVars, managerVars, initVars,
            connVars, lowerVars
<1>1. CASE BeginScan /\ QueueStep
      BY <1>1, UseStutter DEF BeginScan, useVars
<1>2. CASE \E p \in Pid : CheckProcess(p) /\ QueueStep
  <2> PICK p \in Pid : CheckProcess(p) /\ QueueStep
      BY <1>2
  <2>1. CASE PassProcess(p)
        BY <2>1, UseStutter DEF PassProcess, useVars
  <2>2. CASE SignalProcess(p)
        BY <2>2 DEF UseTypes, UseInv, SignalProcess
  <2>3. CASE process_manager_cleanup_process(p)
        BY <2>3 DEF UseTypes, UseInv, process_manager_cleanup_process
  <2> QED BY <2>1, <2>2, <2>3 DEF CheckProcess
<1>3. CASE WeedOut /\ QueueStep
      BY <1>3 DEF UseTypes, UseInv, WeedOut, db_remove_process_with_state_exit
<1>4. CASE Decide /\ QueueStep
      BY <1>4, UseStutter DEF Decide, useVars
<1>5. CASE WaitTimesOut /\ QueueStep
      BY <1>5, UseStutter DEF WaitTimesOut, useVars
<1>6. CASE WakeUp /\ QueueStep
      BY <1>6, UseStutter DEF WakeUp, useVars
<1>7. CASE DrainCheck /\ QueueStep
      BY <1>7, UseStutter DEF DrainCheck, useVars
<1> QED BY <1>1, <1>2, <1>3, <1>4, <1>5, <1>6, <1>7 DEF ShutdownThread

(* A starter thread (process_manager_start_new_process_wait) keeps UseInv. *)
LEMMA StarterThreadUse ==
    TypeInv /\ LifeInv /\ UseInv /\ (\E s \in Starter : StarterThread(s)) => UseInv'
<1> SUFFICES ASSUME TypeInv, LifeInv, UseInv, NEW s \in Starter, StarterThread(s)
             PROVE  UseInv'
    OBVIOUS
<1> UseTypes
    BY TypeInvUseTypes
<1> USE DEF QueueStep, ManagerStep, ConnStep, dbVars, processVars, managerVars, initVars,
            connVars, lowerVars
<1>1. CASE StartCheck(s) /\ ManagerStep
      BY <1>1, UseStutter DEF StartCheck, useVars
<1>2. CASE \E p \in Pid : StartNewChild(s, p) /\ ManagerStep
      BY <1>2 DEF UseTypes, UseInv, LifeInv, StartNewChild, Forked
<1>3. CASE StartNothing(s) /\ ManagerStep
      BY <1>3, UseStutter DEF StartNothing, useVars
<1>4. CASE ExchangeProcesses(s) /\ ManagerStep
      BY <1>4, UseStutter DEF ExchangeProcesses, MoveProjectList,
                db_move_all_process_from_active_to_shutdown_list, useVars
<1>5. CASE ExchangeNotify(s) /\ ManagerStep
      BY <1>5, UseStutter DEF ExchangeNotify, qgis_shutdown_notify_changes, useVars
<1>6. CASE ExchangeReset(s) /\ ManagerStep
      BY <1>6, UseStutter DEF ExchangeReset, useVars
<1>7. CASE Activate(s) /\ ManagerStep
      BY <1>7, UseStutter DEF Activate, MoveProjectList,
                db_move_all_idle_process_from_init_to_active_list, useVars
<1>8. CASE ActivateNotify(s) /\ ManagerStep
      BY <1>8, UseStutter DEF ActivateNotify, qgis_shutdown_notify_changes, useVars
<1> QED BY <1>1, <1>2, <1>3, <1>4, <1>5, <1>6, <1>7, <1>8 DEF StarterThread

(* A call of process_manager_restart_process keeps UseInv. *)
LEMMA RestartProcessUse ==
    TypeInv /\ LifeInv /\ UseInv /\ (\E a \in Actor : RestartProcess(a)) => UseInv'
<1> SUFFICES ASSUME TypeInv, LifeInv, UseInv, NEW a \in Actor, RestartProcess(a)
             PROVE  UseInv'
    OBVIOUS
<1> UseTypes
    BY TypeInvUseTypes
<1> USE DEF QueueStep, ManagerStep, ConnStep, dbVars, processVars, managerVars, initVars,
            connVars, lowerVars
<1>1. CASE RestartStart(a) /\ ManagerStep
      BY <1>1, UseStutter DEF RestartStart, RestartStays, useVars
<1>2. CASE AddProcessMove(a) /\ ManagerStep
      BY <1>2, UseStutter DEF AddProcessMove, RestartStays, db_move_process_to_list, useVars
<1>3. CASE AddProcessAssertFails(a) /\ ManagerStep
      BY <1>3, UseStutter DEF AddProcessAssertFails, RestartStays, useVars
<1>4. CASE AddProcessNotify(a) /\ ManagerStep
      BY <1>4, UseStutter DEF AddProcessNotify, qgis_shutdown_notify_changes, RestartStays, useVars
<1> QED BY <1>1, <1>2, <1>3, <1>4 DEF RestartProcess

(* The thread that initialises a child (process_manager.c) keeps UseInv. *)
LEMMA InitThreadUse == TypeInv /\ LifeInv /\ UseInv /\ (\E p \in Pid : InitThread(p)) => UseInv'
<1> SUFFICES ASSUME TypeInv, LifeInv, UseInv, NEW p \in Pid, InitThread(p)
             PROVE  UseInv'
    OBVIOUS
<1> UseTypes
    BY TypeInvUseTypes
<1> USE DEF QueueStep, ManagerStep, ConnStep, dbVars, processVars, managerVars, initVars,
            connVars, lowerVars
<1>1. CASE AddProcess(p) /\ ManagerStep
      BY <1>1 DEF UseTypes, UseInv, AddProcess, InitStep, db_add_process
<1>2. CASE ConnectInit(p) /\ ManagerStep
      BY <1>2 DEF UseTypes, UseInv, ConnectInit, InitStep, db_process_set_state
<1>3. CASE InitDone(p) /\ ManagerStep
      BY <1>3 DEF UseTypes, UseInv, InitDone, ReadDone
<1>4. CASE ReadTimesOut(p) /\ ManagerStep
      BY <1>4 DEF UseTypes, UseInv, ReadTimesOut, InitStep
<1>5. CASE DiedDuringInit(p) /\ ManagerStep
      BY <1>5 DEF UseTypes, UseInv, DiedDuringInit, ReadDone
<1>6. CASE InitSetIdle(p) /\ ConnStep
      BY <1>6 DEF UseTypes, UseInv, InitSetIdle, InitStep, db_process_set_state
<1>7. CASE InitEndsDaemon(p) /\ ManagerStep
      BY <1>7, UseStutter DEF InitEndsDaemon, useVars
<1> QED BY <1>1, <1>2, <1>3, <1>4, <1>5, <1>6, <1>7 DEF InitThread

(* A connection thread (connection_manager.c) keeps UseInv. *)
LEMMA ConnectionThreadUse ==
    TypeInv /\ LifeInv /\ UseInv /\ (\E h \in Conn : ConnectionThread(h)) => UseInv'
<1> SUFFICES ASSUME TypeInv, LifeInv, UseInv, NEW h \in Conn, ConnectionThread(h)
             PROVE  UseInv'
    OBVIOUS
<1> UseTypes
    BY TypeInvUseTypes
<1> USE DEF QueueStep, ManagerStep, ConnStep, dbVars, processVars, managerVars, initVars,
            connVars, lowerVars
<1>1. CASE CountProcesses(h) /\ ConnStep
      BY <1>1, UseStutter DEF CountProcesses, useVars
<1>2. CASE NoProjectFound(h) /\ ConnStep
      BY <1>2, UseStutter DEF NoProjectFound, useVars
<1>3. CASE TakeProcess(h) /\ ConnStep
  <2>1. CASE TakeIdle(h)
        BY <2>1, TakeUse
  <2>2. CASE UNCHANGED <<lowerVars, hpid>>
        BY <2>2, UseStutter DEF useVars
  <2> QED BY <1>3, <2>1, <2>2 DEF TakeProcess
<1>4. CASE IdleTimesOut(h) /\ ConnStep
      BY <1>4, UseStutter DEF IdleTimesOut, useVars
<1>5. CASE RecheckProcess(h) /\ ConnStep
  <2>1. CASE TakeIdle(h)
        BY <2>1, TakeUse
  <2>2. CASE UNCHANGED <<lowerVars, hpid>>
        BY <2>2, UseStutter DEF useVars
  <2> QED BY <1>5, <2>1, <2>2 DEF RecheckProcess
<1>6. CASE ConnectChild(h) /\ ConnStep
      BY <1>6, UseStutter DEF ConnectChild, useVars
<1>7. CASE ConnectFails(h) /\ ConnStep
      BY <1>7, UseStutter DEF ConnectFails, useVars
<1>8. CASE ConnRestarted(h) /\ ConnStep
      BY <1>8, PidAssumption DEF UseTypes, UseInv, ConnRestarted, FaultyChildRetry
<1>9. CASE SocketFails(h) /\ ConnStep
      BY <1>9, PidAssumption DEF UseTypes, UseInv, SocketFails, FaultyChildRetry
<1>10. CASE ConnSetIdle(h) /\ ConnStep
  <2>1. hpid[h] \in Pid
        BY <1>10 DEF ConnSetIdle, TypeInv, ConnFacts
  <2> QED BY <1>10, <2>1, PidAssumption DEF UseTypes, UseInv, ConnSetIdle, db_process_set_state
<1>11. CASE EndConnection(h) /\ ConnStep
      BY <1>11, UseStutter DEF EndConnection, useVars
<1>12. CASE RetriesOver(h) /\ ConnStep
      BY <1>12, UseStutter DEF RetriesOver, useVars
<1> QED BY <1>1, <1>2, <1>3, <1>4, <1>5, <1>6, <1>7, <1>8, <1>9, <1>10, <1>11, <1>12
        DEF ConnectionThread

(* main (qgis-schedulerd.c) keeps UseInv. *)
LEMMA MainThreadUse == TypeInv /\ LifeInv /\ UseInv /\ MainThread => UseInv'
<1> SUFFICES ASSUME TypeInv, LifeInv, UseInv, MainThread
             PROVE  UseInv'
    OBVIOUS
<1> UseTypes
    BY TypeInvUseTypes
<1> USE DEF QueueStep, ManagerStep, ConnStep, dbVars, processVars, managerVars, initVars,
            connVars, lowerVars
<1>1. CASE \E pr \in Project : StartProject(pr) /\ Running
      BY <1>1, UseStutter DEF StartProject, useVars
<1>2. CASE StartupDone /\ Running
      BY <1>2, UseStutter DEF StartupDone, useVars
<1>3. CASE SigChld /\ Running
      BY <1>3, UseStutter DEF SigChld, useVars
<1>4. CASE \E p \in Pid : ProbeProcess(p) /\ Running
      BY <1>4, UseStutter DEF ProbeProcess, useVars
<1>5. CASE ProbesDone /\ Running
      BY <1>5, UseStutter DEF ProbesDone, useVars
<1>6. CASE SigTerm /\ Running
      BY <1>6, UseStutter DEF SigTerm, useVars
<1>7. CASE \E pr \in Project : ShutdownProject(pr) /\ Running
      BY <1>7, UseStutter DEF ShutdownProject, MoveProjectList,
                db_move_all_process_from_init_to_shutdown_list, useVars
<1>8. CASE ActiveToShutdown /\ Running
      BY <1>8, UseStutter DEF ActiveToShutdown, MoveProjectList,
                db_move_all_process_from_active_to_shutdown_list, useVars
<1>9. CASE NotifyMoved /\ Running
      BY <1>9, UseStutter DEF NotifyMoved, qgis_shutdown_notify_changes, useVars
<1>10. CASE RemoveProject /\ Running
      BY <1>10, UseStutter DEF RemoveProject, useVars
<1>11. CASE RestartProject /\ Running
      BY <1>11, UseStutter DEF RestartProject, useVars
<1>12. CASE \E pr \in Project : FillProject(pr) /\ Running
      BY <1>12, UseStutter DEF FillProject, useVars
<1>13. CASE HupDone /\ Running
      BY <1>13, UseStutter DEF HupDone, useVars
<1>14. CASE WaitEmpty /\ Running
      BY <1>14, UseStutter DEF WaitEmpty, qgis_shutdown_wait_empty, useVars
<1>15. CASE JoinInotify /\ Running
      BY <1>15, UseStutter DEF JoinInotify, useVars
<1>16. CASE Exit /\ Running
      BY <1>16, UseStutter DEF Exit, useVars
<1> QED BY <1>1, <1>2, <1>3, <1>4, <1>5, <1>6, <1>7, <1>8, <1>9, <1>10, <1>11, <1>12,
           <1>13, <1>14, <1>15, <1>16 DEF MainThread

(* The inotify thread (qgis_inotify.c) keeps UseInv. *)
LEMMA InotifyThreadUse == TypeInv /\ LifeInv /\ UseInv /\ InotifyThread => UseInv'
<1> SUFFICES ASSUME TypeInv, LifeInv, UseInv, InotifyThread
             PROVE  UseInv'
    OBVIOUS
<1> UseTypes
    BY TypeInvUseTypes
<1> USE DEF QueueStep, ManagerStep, ConnStep, dbVars, processVars, managerVars, initVars,
            connVars, lowerVars
<1>1. CASE \E pr \in Project : ReadConfigEvent(pr) /\ Running
      BY <1>1, UseStutter DEF ReadConfigEvent, useVars
<1>2. CASE RestartProcesses /\ Running
      BY <1>2, UseStutter DEF RestartProcesses, useVars
<1>3. CASE \E d \in Dir : ReadIgnored(d) /\ Running
      BY <1>3, UseStutter DEF ReadIgnored, useVars
<1> QED BY <1>1, <1>2, <1>3 DEF InotifyThread

(* The outside world (deaths, time, clients, files, signals) keeps UseInv. *)
LEMMA EnvironmentUse == TypeInv /\ LifeInv /\ UseInv /\ Environment => UseInv'
<1> SUFFICES ASSUME TypeInv, LifeInv, UseInv, Environment
             PROVE  UseInv'
    OBVIOUS
<1> UseTypes
    BY TypeInvUseTypes
<1> USE DEF QueueStep, ManagerStep, ConnStep, dbVars, processVars, managerVars, initVars,
            connVars, lowerVars
<1>1. CASE \E p \in Pid : Die(p) /\ UNCHANGED <<dbVars, queueVars>> /\ QueueStep
      BY <1>1, UseStutter DEF Die, useVars
<1>2. CASE \E p \in Pid : TimeoutPasses(p) /\ QueueStep
      BY <1>2, UseStutter DEF TimeoutPasses, useVars
<1>3. CASE SpuriousWakeup /\ QueueStep
      BY <1>3, UseStutter DEF SpuriousWakeup, useVars
<1>4. CASE \E h \in Conn : IdleSpuriousWakeup(h) /\ ConnStep
      BY <1>4, UseStutter DEF IdleSpuriousWakeup, useVars
<1>5. CASE \E h \in Conn : RelayEnds(h) /\ ConnStep
      BY <1>5, UseStutter DEF RelayEnds, useVars
<1>6. CASE \E h \in Conn : AcceptConnection(h) /\ Running
      BY <1>6, UseStutter DEF AcceptConnection, Accept, useVars
<1>7. CASE \E h \in Conn, pr \in Project \cup {NoProject} : ChooseProject(h, pr) /\ ConnStep
      BY <1>7, UseStutter DEF ChooseProject, useVars
<1>8. CASE \E new \in ConfigFiles : SigHup(new) /\ Running
      BY <1>8, UseStutter DEF SigHup, useVars
<1>9. CASE \E pr \in Project : ConfigWritten(pr) /\ Running
      BY <1>9, UseStutter DEF ConfigWritten, useVars
<1>10. CASE TermArrives /\ Running
      BY <1>10, UseStutter DEF TermArrives, useVars
<1>11. CASE \E h \in Conn : ConnEndsDaemon(h) /\ ConnStep
      BY <1>11, UseStutter DEF ConnEndsDaemon, useVars
<1> QED BY <1>1, <1>2, <1>3, <1>4, <1>5, <1>6, <1>7, <1>8, <1>9, <1>10, <1>11 DEF Environment

(* Every step of the daemon keeps UseInv. *)
LEMMA NextUse == TypeInv /\ LifeInv /\ UseInv /\ [Next]_vars => UseInv'
<1> SUFFICES ASSUME TypeInv, LifeInv, UseInv, [Next]_vars
             PROVE  UseInv'
    OBVIOUS
<1>1. CASE UNCHANGED vars
      BY <1>1, UseStutter DEF vars, useVars, dbVars, processVars, managerVars, initVars, connVars
<1>2. CASE Next
      BY <1>1, <1>2, ShutdownThreadUse, StarterThreadUse, RestartProcessUse, InitThreadUse,
         ConnectionThreadUse, MainThreadUse, InotifyThreadUse, EnvironmentUse
         DEF Next, Terminated
<1> QED BY <1>1, <1>2

(* Only the thread that has a process, or has just initialised it, makes it  *)
(* IDLE.                                                                     *)
THEOREM UseInvariance == Spec => []UseInv
BY InitUse, NextUse, TypeInvariance, LifeInvariance, PTL DEF Spec

(* A child works for one thread at a time, with any number of clients,       *)
(* children and threads that move rows between the lists.                    *)
THEOREM ExclusiveUseHolds == Spec => []ExclusiveUse
<1>1. TypeInv /\ UseInv => ExclusiveUse
      BY DEF UseInv, ExclusiveUse, Users, InitUser
<1> QED BY <1>1, UseInvariance, TypeInvariance, PTL

-----------------------------------------------------------------------------
(* Answers. *)

(* Back at the loop head a thread has sent its abort exactly if no attempt   *)
(* is left, so that it neither leaves the loop in silence nor tries again    *)
(* after the abort.                                                          *)
AnswerInv ==
    \A h \in Conn :
        /\ hpc[h] \in {"free", "read"} => hret[h] = 0
        /\ hpc[h] \in {"free", "read", "take", "wait", "recheck", "connect", "restart", "serve"}
              => hans[h] = "none"
        /\ hpc[h] = "count" => hans[h] = IF RetriesLeft(h) THEN "none" ELSE "abort"
        /\ hpc[h] \in {"setidle", "closed"} => hans[h] \in {"abort", "relayed", "cut"}

answerVars == <<hpc, hret, hans>>
AnswerTypes ==
    /\ hpc \in [Conn -> HpcLabel]
    /\ hret \in [Conn -> 0..MAX_CHILD_COMMUNICATION_RETRY]
    /\ hans \in [Conn -> Answer]

(* The types AnswerInv needs follow from the type invariant. *)
LEMMA TypeInvAnswerTypes == TypeInv => AnswerTypes
BY DEF TypeInv, TypeOK, ConnTypeOK, AnswerTypes

(* A step that leaves answerVars alone keeps AnswerInv. *)
LEMMA AnswerStutter == AnswerInv /\ UNCHANGED answerVars => AnswerInv'
BY DEF AnswerInv, RetriesLeft, answerVars

(* AnswerInv holds when the daemon starts. *)
LEMMA InitAnswer == Init => AnswerInv
BY DEF Init, ConnInit, AnswerInv, RetriesLeft

(* The thread that initialises a child (process_manager.c) keeps AnswerInv. *)
LEMMA InitThreadAnswer == TypeInv /\ AnswerInv /\ (\E p \in Pid : InitThread(p)) => AnswerInv'
<1> SUFFICES ASSUME TypeInv, AnswerInv, NEW p \in Pid, InitThread(p)
             PROVE  AnswerInv'
    OBVIOUS
<1> AnswerTypes
    BY TypeInvAnswerTypes
<1> USE DEF QueueStep, ManagerStep, ConnStep, connVars
<1>1. CASE AddProcess(p) /\ ManagerStep
      BY <1>1, AnswerStutter DEF AddProcess, answerVars
<1>2. CASE ConnectInit(p) /\ ManagerStep
      BY <1>2, AnswerStutter DEF ConnectInit, answerVars
<1>3. CASE InitDone(p) /\ ManagerStep
      BY <1>3, AnswerStutter DEF InitDone, answerVars
<1>4. CASE ReadTimesOut(p) /\ ManagerStep
      BY <1>4, AnswerStutter DEF ReadTimesOut, answerVars
<1>5. CASE DiedDuringInit(p) /\ ManagerStep
      BY <1>5, AnswerStutter DEF DiedDuringInit, answerVars
<1>6. CASE InitSetIdle(p) /\ ConnStep
      BY <1>6, RetryAssumption DEF AnswerTypes, AnswerInv, RetriesLeft, InitSetIdle,
         IdleSignalled, Waiting
<1>7. CASE InitEndsDaemon(p) /\ ManagerStep
      BY <1>7, AnswerStutter DEF InitEndsDaemon, answerVars
<1> QED BY <1>1, <1>2, <1>3, <1>4, <1>5, <1>6, <1>7 DEF InitThread

(* A connection thread (connection_manager.c) keeps AnswerInv. *)
LEMMA ConnectionThreadAnswer ==
    TypeInv /\ AnswerInv /\ (\E h \in Conn : ConnectionThread(h)) => AnswerInv'
<1> SUFFICES ASSUME TypeInv, AnswerInv, NEW h \in Conn, ConnectionThread(h)
             PROVE  AnswerInv'
    OBVIOUS
<1> AnswerTypes
    BY TypeInvAnswerTypes
<1> USE DEF QueueStep, ManagerStep, ConnStep, connVars
<1>1. CASE CountProcesses(h) /\ ConnStep
      BY <1>1, RetryAssumption DEF AnswerTypes, AnswerInv, RetriesLeft, CountProcesses
<1>2. CASE NoProjectFound(h) /\ ConnStep
      BY <1>2, RetryAssumption DEF AnswerTypes, AnswerInv, RetriesLeft, NoProjectFound, Abort,
          send_fcgi_abort_to_web_client
<1>3. CASE TakeProcess(h) /\ ConnStep
      BY <1>3, RetryAssumption DEF AnswerTypes, AnswerInv, RetriesLeft, TakeProcess, TakeIdle
<1>4. CASE IdleTimesOut(h) /\ ConnStep
      BY <1>4, RetryAssumption DEF AnswerTypes, AnswerInv, RetriesLeft, IdleTimesOut, Abort,
          send_fcgi_abort_to_web_client
<1>5. CASE RecheckProcess(h) /\ ConnStep
      BY <1>5, RetryAssumption DEF AnswerTypes, AnswerInv, RetriesLeft, RecheckProcess, TakeIdle,
         Abort,
          send_fcgi_abort_to_web_client
<1>6. CASE ConnectChild(h) /\ ConnStep
      BY <1>6, RetryAssumption DEF AnswerTypes, AnswerInv, RetriesLeft, ConnectChild
<1>7. CASE ConnectFails(h) /\ ConnStep
      BY <1>7, RetryAssumption DEF AnswerTypes, AnswerInv, RetriesLeft, ConnectFails
<1>8. CASE ConnRestarted(h) /\ ConnStep
      BY <1>8, RetryAssumption DEF AnswerTypes, AnswerInv, RetriesLeft, ConnRestarted,
         FaultyChildRetry,
          send_fcgi_abort_to_web_client
<1>9. CASE SocketFails(h) /\ ConnStep
      BY <1>9, RetryAssumption DEF AnswerTypes, AnswerInv, RetriesLeft, SocketFails,
         FaultyChildRetry,
          send_fcgi_abort_to_web_client
<1>10. CASE ConnSetIdle(h) /\ ConnStep
      BY <1>10, RetryAssumption DEF AnswerTypes, AnswerInv, RetriesLeft, ConnSetIdle,
         IdleSignalled, Waiting
<1>11. CASE EndConnection(h) /\ ConnStep
      BY <1>11, RetryAssumption DEF AnswerTypes, AnswerInv, RetriesLeft, EndConnection
<1>12. CASE RetriesOver(h) /\ ConnStep
      BY <1>12, RetryAssumption DEF AnswerTypes, AnswerInv, RetriesLeft, RetriesOver
<1> QED BY <1>1, <1>2, <1>3, <1>4, <1>5, <1>6, <1>7, <1>8, <1>9, <1>10, <1>11, <1>12
        DEF ConnectionThread

(* The outside world (deaths, time, clients, files, signals) keeps AnswerInv. *)
LEMMA EnvironmentAnswer == TypeInv /\ AnswerInv /\ Environment => AnswerInv'
<1> SUFFICES ASSUME TypeInv, AnswerInv, Environment
             PROVE  AnswerInv'
    OBVIOUS
<1> AnswerTypes
    BY TypeInvAnswerTypes
<1> USE DEF QueueStep, ManagerStep, ConnStep, connVars
<1>1. CASE \E p \in Pid : Die(p) /\ UNCHANGED <<dbVars, queueVars>> /\ QueueStep
      BY <1>1, AnswerStutter DEF Die, answerVars
<1>2. CASE \E p \in Pid : TimeoutPasses(p) /\ QueueStep
      BY <1>2, AnswerStutter DEF TimeoutPasses, answerVars
<1>3. CASE SpuriousWakeup /\ QueueStep
      BY <1>3, AnswerStutter DEF SpuriousWakeup, answerVars
<1>4. CASE \E h \in Conn : IdleSpuriousWakeup(h) /\ ConnStep
      BY <1>4, RetryAssumption DEF AnswerTypes, AnswerInv, RetriesLeft, IdleSpuriousWakeup
<1>5. CASE \E h \in Conn : RelayEnds(h) /\ ConnStep
      BY <1>5, RetryAssumption DEF AnswerTypes, AnswerInv, RetriesLeft, RelayEnds,
          send_fcgi_abort_to_web_client
<1>6. CASE \E h \in Conn : AcceptConnection(h) /\ Running
      BY <1>6, RetryAssumption DEF AnswerTypes, AnswerInv, RetriesLeft, AcceptConnection, Accept
<1>7. CASE \E h \in Conn, pr \in Project \cup {NoProject} : ChooseProject(h, pr) /\ ConnStep
      BY <1>7, RetryAssumption DEF AnswerTypes, AnswerInv, RetriesLeft, ChooseProject
<1>8. CASE \E new \in ConfigFiles : SigHup(new) /\ Running
      BY <1>8, AnswerStutter DEF SigHup, answerVars
<1>9. CASE \E pr \in Project : ConfigWritten(pr) /\ Running
      BY <1>9, AnswerStutter DEF ConfigWritten, answerVars
<1>10. CASE TermArrives /\ Running
      BY <1>10, AnswerStutter DEF TermArrives, answerVars
<1>11. CASE \E h \in Conn : ConnEndsDaemon(h) /\ ConnStep
      BY <1>11, AnswerStutter DEF ConnEndsDaemon, answerVars
<1> QED BY <1>1, <1>2, <1>3, <1>4, <1>5, <1>6, <1>7, <1>8, <1>9, <1>10, <1>11 DEF Environment

(* The other threads do not touch the connections. *)
LEMMA OthersAnswer ==
    AnswerInv /\ ( \/ ShutdownThread
                   \/ \E s \in Starter : StarterThread(s)
                   \/ \E a \in Actor : RestartProcess(a)
                   \/ MainThread
                   \/ InotifyThread )
      => AnswerInv'
<1>1. ShutdownThread => UNCHANGED connVars
      BY DEF ShutdownThread, QueueStep
<1>2. (\E s \in Starter : StarterThread(s)) => UNCHANGED connVars
      BY DEF StarterThread, ManagerStep
<1>3. (\E a \in Actor : RestartProcess(a)) => UNCHANGED connVars
      BY DEF RestartProcess, ManagerStep
<1>4. MainThread => UNCHANGED connVars
      BY DEF MainThread, StartProject, StartupDone, SigChld, ProbeProcess, ProbesDone, SigTerm,
             ShutdownProject, ActiveToShutdown, NotifyMoved, RemoveProject, RestartProject,
             FillProject, HupDone, WaitEmpty, JoinInotify, Exit
<1>5. InotifyThread => UNCHANGED connVars
      BY DEF InotifyThread, ReadConfigEvent, RestartProcesses, ReadIgnored
<1> QED BY <1>1, <1>2, <1>3, <1>4, <1>5, AnswerStutter DEF connVars, answerVars

(* Every step of the daemon keeps AnswerInv. *)
LEMMA NextAnswer == TypeInv /\ AnswerInv /\ [Next]_vars => AnswerInv'
<1> SUFFICES ASSUME TypeInv, AnswerInv, [Next]_vars
             PROVE  AnswerInv'
    OBVIOUS
<1>1. CASE UNCHANGED vars
      BY <1>1, AnswerStutter DEF vars, answerVars, connVars
<1>2. CASE Next
      BY <1>1, <1>2, OthersAnswer, InitThreadAnswer, ConnectionThreadAnswer, EnvironmentAnswer
         DEF Next, Terminated
<1> QED BY <1>1, <1>2

(* A client gets one abort or had a child, and never a second abort, for     *)
(* every number of attempts and whatever children fail meanwhile.            *)
THEOREM RequestsAnswered == Spec => []AnsweredOnce
<1>1. TypeInv /\ AnswerInv => AnsweredOnce
      BY DEF TypeInv, TypeOK, ConnTypeOK, HpcLabel, AnswerInv, AnsweredOnce
<1>2. Spec => []AnswerInv
      BY InitAnswer, NextAnswer, TypeInvariance, PTL DEF Spec
<1> QED BY <1>1, <1>2, TypeInvariance, PTL
=============================================================================
