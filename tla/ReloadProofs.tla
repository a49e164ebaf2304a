---------------------------- MODULE ReloadProofs ----------------------------
(* Which projects the threads may work for, proved with TLAPS: a reload of   *)
(* one section of each kind leaves the table with the projects of the        *)
(* configuration; so main never joins the inotify thread without its last    *)
(* event, if a config file is watched; and every thread that starts          *)
(* processes finds its project before the daemon is asked to stop or to      *)
(* reload.                                                                   *)
EXTENDS SchedulerTypeProofs

(* What main still has to do of a reload. *)

ReloadLists ==
    /\ sectionnew \subseteq Sections(config)
    /\ sectionchange \subseteq Sections(config) \ sectionnew
    /\ sectiondelete \cap Sections(config) = {}

(* The project whose row main has deleted and not yet added again. *)
Between == IF mpc = "restart" THEN {mproj} ELSE {}

ReloadMain ==
    /\ mpc \notin {"shutdown", "join"}
    /\ mpc \in {"loop", "chld"} => ListsDone
    /\ mpc \in {"notify1", "act2sd", "notify2", "rmproj"} =>
           mproj \in sectiondelete \cup sectionchange
    /\ mpc = "restart" => mproj \in sectionchange

(* The table lists what is configured, as far as main has come. *)
ReloadTable == projects = ((Sections(config) \ sectionnew) \cup sectiondelete) \ Between

ReloadFacts == ReloadLists /\ ReloadMain /\ ReloadTable
ReloadInv == ~program_shutdown => ReloadFacts

-----------------------------------------------------------------------------
(* Only main, and the signals it reads, change what the table should list. *)

reloadSeen ==
    <<program_shutdown, reloads, projects, watchd, config, sectionVars, mpc, mprojs, mproj>>

(* The shutdown thread leaves the projects alone. *)
LEMMA ShutdownThreadFrame == ShutdownThread => UNCHANGED reloadSeen
<1> SUFFICES ASSUME ShutdownThread
             PROVE  UNCHANGED reloadSeen
    OBVIOUS
<1> USE DEF reloadSeen, QueueStep,
            kernelVars, dbVars, processVars, projectVars, queueVars, managerVars, starterVars,
            initVars, restartVars, connVars, mainVars, reloadVars, sectionVars, inotifyVars,
            lowerVars
<1>1. CASE \E p \in Pid : CheckProcess(p) /\ QueueStep
      BY <1>1 DEF CheckProcess
<1>2. CASE (BeginScan \/ WeedOut \/ Decide) /\ QueueStep
      BY <1>2 DEF BeginScan, WeedOut, Decide
<1>3. CASE (WaitTimesOut \/ WakeUp \/ DrainCheck) /\ QueueStep
      BY <1>3 DEF WaitTimesOut, WakeUp, DrainCheck
<1> QED BY <1>1, <1>2, <1>3 DEF ShutdownThread

(* So do the threads that start processes, and calls of restart_process. *)
LEMMA StarterThreadFrame == (\E s \in Starter : StarterThread(s)) => UNCHANGED reloadSeen
<1> SUFFICES ASSUME NEW s \in Starter, StarterThread(s)
             PROVE  UNCHANGED reloadSeen
    OBVIOUS
<1> USE DEF reloadSeen, ManagerStep,
            kernelVars, dbVars, processVars, projectVars, queueVars, managerVars, starterVars,
            initVars, restartVars, connVars, mainVars, reloadVars, sectionVars, inotifyVars,
            lowerVars
<1>1. CASE StartCheck(s) /\ ManagerStep
      BY <1>1 DEF StartCheck
<1>2. CASE \E p \in Pid : StartNewChild(s, p) /\ ManagerStep
      BY <1>2 DEF StartNewChild
<1>3. CASE (StartNothing(s) \/ ExchangeProcesses(s) \/ ExchangeNotify(s)) /\ ManagerStep
      BY <1>3 DEF StartNothing, ExchangeProcesses, ExchangeNotify
<1>4. CASE (ExchangeReset(s) \/ Activate(s) \/ ActivateNotify(s)) /\ ManagerStep
      BY <1>4 DEF ExchangeReset, db_reset_startup_failures, Activate, ActivateNotify
<1> QED BY <1>1, <1>2, <1>3, <1>4 DEF StarterThread

(* Calls of process_manager_restart_process. *)
LEMMA RestartProcessFrame == (\E a \in Actor : RestartProcess(a)) => UNCHANGED reloadSeen
<1> SUFFICES ASSUME NEW a \in Actor, RestartProcess(a)
             PROVE  UNCHANGED reloadSeen
    OBVIOUS
<1> USE DEF reloadSeen, ManagerStep, RestartStays,
            kernelVars, dbVars, processVars, projectVars, queueVars, managerVars, starterVars,
            initVars, restartVars, connVars, mainVars, reloadVars, sectionVars, inotifyVars,
            lowerVars
<1> QED BY DEF RestartProcess, RestartStart, AddProcessMove, AddProcessAssertFails,
               AddProcessNotify

(* The threads that initialise children count failures, no more. *)
LEMMA InitThreadFrame == (\E p \in Pid : InitThread(p)) => UNCHANGED reloadSeen
<1> SUFFICES ASSUME NEW p \in Pid, InitThread(p)
             PROVE  UNCHANGED reloadSeen
    OBVIOUS
<1> USE DEF reloadSeen, ManagerStep, ConnStep,
            kernelVars, dbVars, processVars, projectVars, queueVars, managerVars, starterVars,
            initVars, restartVars, connVars, mainVars, reloadVars, sectionVars, inotifyVars,
            lowerVars
<1>1. CASE (AddProcess(p) \/ ConnectInit(p) \/ InitDone(p) \/ ReadTimesOut(p)) /\ ManagerStep
      BY <1>1 DEF AddProcess, ConnectInit, InitDone, ReadTimesOut
<1>2. CASE DiedDuringInit(p) /\ ManagerStep
      BY <1>2 DEF DiedDuringInit, db_inc_startup_failures
<1>3. CASE InitSetIdle(p) /\ ConnStep
      BY <1>3 DEF InitSetIdle
<1>4. CASE InitEndsDaemon(p) /\ ManagerStep
      BY <1>4 DEF InitEndsDaemon
<1> QED BY <1>1, <1>2, <1>3, <1>4 DEF InitThread

(* The connection threads. *)
LEMMA ConnectionThreadFrame == (\E h \in Conn : ConnectionThread(h)) => UNCHANGED reloadSeen
<1> SUFFICES ASSUME NEW h \in Conn, ConnectionThread(h)
             PROVE  UNCHANGED reloadSeen
    OBVIOUS
<1> USE DEF reloadSeen, ConnStep,
            kernelVars, dbVars, processVars, projectVars, queueVars, managerVars, starterVars,
            initVars, restartVars, connVars, mainVars, reloadVars, sectionVars, inotifyVars,
            lowerVars
<1>1. CASE (CountProcesses(h) \/ NoProjectFound(h) \/ IdleTimesOut(h)) /\ ConnStep
      BY <1>1 DEF CountProcesses, NoProjectFound, IdleTimesOut
<1>2. CASE (TakeProcess(h) \/ RecheckProcess(h)) /\ ConnStep
      BY <1>2 DEF TakeProcess, TakeIdle, RecheckProcess
<1>3. CASE (ConnectChild(h) \/ ConnectFails(h) \/ ConnRestarted(h) \/ SocketFails(h)) /\ ConnStep
      BY <1>3 DEF ConnectChild, ConnectFails, ConnRestarted, SocketFails
<1>4. CASE (ConnSetIdle(h) \/ EndConnection(h) \/ RetriesOver(h)) /\ ConnStep
      BY <1>4 DEF ConnSetIdle, EndConnection, RetriesOver
<1> QED BY <1>1, <1>2, <1>3, <1>4 DEF ConnectionThread

(* The inotify thread resets failures, no more. *)
LEMMA InotifyThreadFrame == InotifyThread => UNCHANGED reloadSeen
BY DEF InotifyThread, ReadConfigEvent, db_reset_startup_failures, RestartProcesses, ReadIgnored,
       reloadSeen,
            kernelVars, dbVars, processVars, projectVars, queueVars, managerVars, starterVars,
            initVars, restartVars, connVars, mainVars, reloadVars, sectionVars, inotifyVars,
            lowerVars

(* What happens outside, except SIGHUP. *)
LEMMA EnvironmentFrame ==
    Environment /\ ~(\E new \in ConfigFiles : SigHup(new)) => UNCHANGED reloadSeen
<1> SUFFICES ASSUME Environment, ~(\E new \in ConfigFiles : SigHup(new))
             PROVE  UNCHANGED reloadSeen
    OBVIOUS
<1> USE DEF reloadSeen, QueueStep, ConnStep,
            kernelVars, dbVars, processVars, projectVars, queueVars, managerVars, starterVars,
            initVars, restartVars, connVars, mainVars, reloadVars, sectionVars, inotifyVars,
            lowerVars
<1>1. CASE \E p \in Pid : Die(p) /\ UNCHANGED <<dbVars, queueVars>> /\ QueueStep
      BY <1>1 DEF Die
<1>2. CASE \E p \in Pid : TimeoutPasses(p) /\ QueueStep
      BY <1>2 DEF TimeoutPasses
<1>3. CASE SpuriousWakeup /\ QueueStep
      BY <1>3 DEF SpuriousWakeup
<1>4. CASE \E h \in Conn :
              (IdleSpuriousWakeup(h) \/ RelayEnds(h) \/ ConnEndsDaemon(h)) /\ ConnStep
      BY <1>4 DEF IdleSpuriousWakeup, RelayEnds, ConnEndsDaemon
<1>5. CASE \E h \in Conn : AcceptConnection(h)
      BY <1>5 DEF AcceptConnection, Accept
<1>6. CASE \E h \in Conn, pr \in Project \cup {NoProject} : ChooseProject(h, pr) /\ ConnStep
      BY <1>6 DEF ChooseProject
<1>7. CASE \E pr \in Project : ConfigWritten(pr)
      BY <1>7 DEF ConfigWritten
<1>8. CASE TermArrives
      BY <1>8 DEF TermArrives
<1> QED BY <1>1, <1>2, <1>3, <1>4, <1>5, <1>6, <1>7, <1>8 DEF Environment

(* The threads other than main, together. *)
Others == \/ ShutdownThread
          \/ \E s \in Starter : StarterThread(s)
          \/ \E a \in Actor : RestartProcess(a)
          \/ \E p \in Pid : InitThread(p)
          \/ \E h \in Conn : ConnectionThread(h)
          \/ InotifyThread
          \/ Environment /\ ~(\E new \in ConfigFiles : SigHup(new))
          \/ UNCHANGED vars

(* All of them leave the projects alone. *)
LEMMA OthersFrame == Others => UNCHANGED reloadSeen
<1>1. UNCHANGED vars => UNCHANGED reloadSeen
      BY DEF vars, reloadSeen,
            kernelVars, dbVars, processVars, projectVars, queueVars, managerVars, starterVars,
            initVars, restartVars, connVars, mainVars, reloadVars, sectionVars, inotifyVars,
            lowerVars
<1> QED BY <1>1, ShutdownThreadFrame, StarterThreadFrame, RestartProcessFrame, InitThreadFrame,
           ConnectionThreadFrame, InotifyThreadFrame, EnvironmentFrame DEF Others

(* A step is one of main, a SIGHUP, or one of these. *)
LEMMA NextSplit ==
    [Next]_vars => \/ MainThread \/ (\E new \in ConfigFiles : SigHup(new)) \/ Others
BY DEF Next, Others, Environment, Terminated

-----------------------------------------------------------------------------
(* Reloads are applied. *)

(* When the daemon starts every section is new and no project has a row. *)
LEMMA InitReload == Init => ReloadInv
BY ConfigAssumption
   DEF Init, DatabaseInit, ConfigInit, KernelInit, ReloadInv, ReloadFacts, ReloadLists, ReloadMain,
       ReloadTable, Between, Sections, ListsDone

(* A step that leaves the projects alone. *)
LEMMA FrameReload == ReloadInv /\ UNCHANGED reloadSeen => ReloadInv'
BY DEF ReloadInv, ReloadFacts, ReloadLists, ReloadMain, ReloadTable, Between, Sections, ListsDone,
       reloadSeen, sectionVars

(* project_manager_start_project for a project without a row. *)
LEMMA StartAdds ==
    ASSUME NEW pr \in Project, pr \notin projects, ~program_shutdown,
           project_manager_start_project(pr)
    PROVE  /\ projects' = projects \cup {pr}
           /\ UNCHANGED exited
           /\ process_manager_start_new_process_detached(MinProc[pr], pr, FALSE)
BY DEF project_manager_start_project, db_add_project

(* main (project_manager_manage_project_changes) acts upon the lists one      *)
(* project at a time.                                                        *)
LEMMA MainThreadReload == TypeInv /\ ReloadInv /\ MainThread => ReloadInv'
<1> SUFFICES ASSUME TypeInv, ReloadInv, MainThread, ~program_shutdown'
             PROVE  ReloadFacts'
    BY DEF ReloadInv
<1> USE DEF ReloadFacts, ReloadLists, ReloadMain, ReloadTable, Between, Sections, ListsDone,
            kernelVars, dbVars, processVars, projectVars, queueVars, managerVars, starterVars,
            initVars, restartVars, connVars, mainVars, reloadVars, sectionVars, inotifyVars,
            lowerVars
<1>f. ASSUME UNCHANGED reloadSeen
      PROVE  ReloadFacts'
      BY <1>f, FrameReload DEF ReloadInv
<1>1. CASE \E pr \in Project : StartProject(pr)
  <2> PICK pr \in Project : StartProject(pr)
      BY <1>1
  <2>1. ~program_shutdown /\ ReloadFacts
        BY DEF StartProject, ReloadInv
  <2>2. pr \notin projects /\ mpc # "restart" /\ mpc' = mpc
        BY <2>1 DEF StartProject
  <2>3. projects' = projects \cup {pr}
        BY <2>1, <2>2, StartAdds DEF StartProject
  <2> QED BY <2>1, <2>2, <2>3 DEF StartProject
<1>2. CASE StartupDone \/ HupDone
      BY <1>2 DEF StartupDone, HupDone, MainStep, ReloadInv
<1>3. CASE SigChld \/ ProbesDone
      BY <1>3 DEF SigChld, ProbesDone, ReloadInv
<1>4. CASE \E p \in Pid : ProbeProcess(p)
      BY <1>4, <1>f DEF ProbeProcess, reloadSeen
<1>5. CASE SigTerm
      BY <1>5 DEF SigTerm
<1>6. CASE \E pr \in Project : ShutdownProject(pr)
      BY <1>6 DEF ShutdownProject, ReloadInv
<1>7. CASE ActiveToShutdown \/ NotifyMoved
      BY <1>7 DEF ActiveToShutdown, NotifyMoved, MainStep, ReloadInv
<1>8. CASE RemoveProject
      BY <1>8 DEF RemoveProject, db_remove_project, ReloadInv
<1>9. CASE RestartProject
  <2>1. ~program_shutdown /\ ReloadFacts /\ mpc = "restart" /\ mpc' = "hup"
        BY <1>9 DEF RestartProject, MainStep, ReloadInv
  <2>2. mproj \in Project /\ mproj \notin projects
        BY <2>1 DEF TypeInv, CallFacts
  <2>3. projects' = projects \cup {mproj}
        BY <1>9, <2>1, <2>2, StartAdds DEF RestartProject
  <2> QED BY <1>9, <2>1, <2>2, <2>3 DEF RestartProject
<1>10. CASE \E pr \in Project : FillProject(pr)
      BY <1>10 DEF FillProject, ReloadInv
<1>11. CASE WaitEmpty \/ JoinInotify
      BY <1>11 DEF WaitEmpty, JoinInotify, MainStep, ReloadInv
<1>12. CASE Exit
      BY <1>12, <1>f DEF Exit, reloadSeen
<1> QED BY <1>1, <1>2, <1>3, <1>4, <1>5, <1>6, <1>7, <1>8, <1>9, <1>10, <1>11, <1>12
    DEF MainThread

(* config_convert_list_to_array reports a list of one section as it is. *)
LEMMA ShortListExact ==
    ASSUME NEW list, IsFiniteSet(list), Cardinality(list) <= 1
    PROVE  config_convert_list_to_array(list) = {list}
<1>1. Cardinality(list) = 0 \/ Cardinality(list) = 1
      BY FS_CardinalityType
<1>2. CASE Cardinality(list) = 0
  <2>1. list = {}
        BY <1>2, FS_EmptySet
  <2> QED BY <2>1 DEF config_convert_list_to_array
<1>3. CASE Cardinality(list) = 1
  <2> PICK x : list = {x}
      BY <1>3, FS_Singleton
  <2> QED BY DEF config_convert_list_to_array
<1> QED BY <1>1, <1>2, <1>3

(* SIGHUP with at most one section of each kind: nothing is lost on the way  *)
(* from config_load to main.                                                 *)
LEMMA SigHupReload ==
    ASSUME TypeInv, ReloadInv, IsFiniteSet(Project), MaxSectionChanges <= 1,
           NEW new \in ConfigFiles, SigHup(new)
    PROVE  ReloadInv'
<1> SUFFICES ASSUME ~program_shutdown'
             PROVE  ReloadFacts'
    BY DEF ReloadInv
<1>1. ~program_shutdown /\ UNCHANGED projects /\ mpc = "loop" /\ mpc' = "hup"
      BY DEF SigHup, MainStep, lowerVars, kernelVars, dbVars, projectVars
<1>2. projects = Sections(config)
      BY <1>1 DEF ReloadInv, ReloadFacts, ReloadMain, ReloadTable, Between, ListsDone
<1>3. /\ IsFiniteSet(SectionNew(new)) /\ IsFiniteSet(SectionChanged(new))
      /\ IsFiniteSet(SectionDeleted(new))
      BY FS_Subset DEF SectionNew, SectionChanged, SectionDeleted, Sections
<1>4. /\ Cardinality(SectionNew(new)) <= 1 /\ Cardinality(SectionChanged(new)) <= 1
      /\ Cardinality(SectionDeleted(new)) <= 1
  <2>1. /\ Cardinality(SectionNew(new)) \in Nat /\ Cardinality(SectionChanged(new)) \in Nat
        /\ Cardinality(SectionDeleted(new)) \in Nat
        BY <1>3, FS_CardinalityType
  <2>2. /\ Cardinality(SectionNew(new)) <= MaxSectionChanges
        /\ Cardinality(SectionChanged(new)) <= MaxSectionChanges
        /\ Cardinality(SectionDeleted(new)) <= MaxSectionChanges
        BY DEF ConfigFiles
  <2> QED BY <2>1, <2>2, ConfigAssumption
<1>5. /\ sectionnew' = SectionNew(new) /\ sectionchange' = SectionChanged(new)
      /\ sectiondelete' = SectionDeleted(new)
      BY <1>3, <1>4, ShortListExact DEF SigHup, config_load
<1>6. Sections(config)' = Sections(new)
      BY DEF SigHup, config_load, Sections
<1>7. ReloadLists'
      BY <1>5, <1>6 DEF ReloadLists, SectionNew, SectionChanged, SectionDeleted
<1>8. ReloadTable'
      BY <1>1, <1>2, <1>5, <1>6 DEF ReloadTable, Between, SectionNew, SectionDeleted
<1> QED BY <1>1, <1>7, <1>8 DEF ReloadFacts, ReloadMain

(* ReloadInv holds throughout every run, with one section of each kind. *)
LEMMA ReloadInvariance ==
    ASSUME IsFiniteSet(Project), MaxSectionChanges <= 1
    PROVE  Spec => []ReloadInv
<1>1. TypeInv /\ ReloadInv /\ [Next]_vars => ReloadInv'
      BY NextSplit, OthersFrame, FrameReload, MainThreadReload, SigHupReload
<1> QED BY <1>1, InitReload, TypeInvariance, PTL DEF Spec

(* Whenever main is back in its loop after a SIGHUP that reports at most one *)
(* new, one changed and one deleted section, table projects lists exactly    *)
(* the configured projects (project_manager_manage_project_changes), for any *)
(* number of projects, reloads and threads. The bound on the sections is     *)
(* needed: the loop of config_convert_list_to_array does not advance.        *)
THEOREM ReloadsApplied ==
    ASSUME IsFiniteSet(Project), MaxSectionChanges <= 1
    PROVE  Spec => []ReloadApplied
<1>1. ReloadInv => ReloadApplied
      BY DEF ReloadInv, ReloadFacts, ReloadMain, ReloadTable, Between, ListsDone, ReloadApplied
<1> QED BY <1>1, ReloadInvariance, PTL

-----------------------------------------------------------------------------
(* The inotify thread ends. *)

(* main shuts down the projects because of SIGTERM: unlike in a reload the   *)
(* project is in none of the lists it acts upon.                             *)
Moving == {"notify1", "act2sd", "notify2", "rmproj"}
Stopping ==
    \/ mpc = "shutdown"
    \/ mpc \in Moving /\ mproj \notin sectionchange \cup sectiondelete

Watched(prs) == \E pr \in prs : WatchDir[pr] # NoDir
InotifyEnds == npc = "ended" \/ ignored # {}

(* The table knows the watch of every project, except for the one that is    *)
(* being shut down.                                                          *)
WatchTable ==
    \A pr \in projects : \/ watchd[pr] = WatchDir[pr]
                         \/ mpc \in Moving /\ mproj = pr

(* While main stops, a watch is left to delete as long as no IN_IGNORED      *)
(* event came: the last project that uses a directory drops its watch.       *)
StoppingFacts ==
    /\ program_shutdown
    /\ sectionchange = {} /\ sectiondelete = {}
    /\ projects \subseteq mprojs \cup {mproj}
    /\ mpc = "shutdown" => projects \subseteq mprojs
    /\ mpc # "shutdown" => mproj \notin mprojs
    /\ \A pr \in mprojs : watchd[pr] = WatchDir[pr]
    /\ Watched(Sections(config)) => InotifyEnds \/ Watched(mprojs)

StopInv ==
    /\ sigterm => ~program_shutdown
    /\ npc = "ended" => program_shutdown
    /\ ~program_shutdown => WatchTable /\ mpc # "join"
    /\ Stopping => StoppingFacts
    /\ JoinReturns

stopVars == <<reloadSeen, sigterm, npc, ignored>>

(* No watch exists and no thread has ended when the daemon starts. *)
LEMMA InitStop == Init => StopInv
BY DEF Init, KernelInit, DatabaseInit, StopInv, Stopping, Moving, WatchTable, JoinReturns

(* A step of another thread: only the inotify thread takes an IN_IGNORED     *)
(* event, and ends with it if the daemon stops.                              *)
LEMMA OthersStop ==
    Others => /\ UNCHANGED reloadSeen
              /\ sigterm' => sigterm \/ ~program_shutdown
              /\ npc' = "ended" => npc = "ended" \/ program_shutdown
              /\ program_shutdown /\ InotifyEnds => InotifyEnds'
<1> SUFFICES ASSUME Others
             PROVE  /\ sigterm' => sigterm \/ ~program_shutdown
                    /\ npc' = "ended" => npc = "ended" \/ program_shutdown
                    /\ program_shutdown /\ InotifyEnds => InotifyEnds'
    BY OthersFrame
<1> USE DEF InotifyEnds, mainVars, inotifyVars
<1>1. CASE UNCHANGED <<mainVars, inotifyVars>>
      BY <1>1
<1>2. CASE InotifyThread
  <2>1. CASE \E pr \in Project : ReadConfigEvent(pr)
        BY <2>1 DEF ReadConfigEvent
  <2>2. CASE RestartProcesses
        BY <2>2 DEF RestartProcesses
  <2>3. CASE \E d \in Dir : ReadIgnored(d)
        BY <2>3 DEF ReadIgnored
  <2> QED BY <1>2, <2>1, <2>2, <2>3 DEF InotifyThread
<1>3. CASE Environment /\ ~(\E new \in ConfigFiles : SigHup(new))
      BY <1>3 DEF Environment, QueueStep, ConnStep, AcceptConnection, ConfigWritten, TermArrives
<1>4. CASE ShutdownThread
      BY <1>1, <1>4 DEF ShutdownThread, QueueStep
<1>5. CASE \E s \in Starter : StarterThread(s)
      BY <1>1, <1>5 DEF StarterThread, ManagerStep
<1>6. CASE \E a \in Actor : RestartProcess(a)
      BY <1>1, <1>6 DEF RestartProcess, ManagerStep
<1>7. CASE \E p \in Pid : InitThread(p)
      BY <1>1, <1>7 DEF InitThread, ManagerStep, ConnStep
<1>8. CASE \E h \in Conn : ConnectionThread(h)
      BY <1>1, <1>8 DEF ConnectionThread, ConnStep
<1>9. CASE UNCHANGED vars
      BY <1>1, <1>9 DEF vars
<1> QED BY <1>2, <1>3, <1>4, <1>5, <1>6, <1>7, <1>8, <1>9 DEF Others

(* The other threads keep StopInv. *)
LEMMA FrameStop == StopInv /\ Others => StopInv'
<1> SUFFICES ASSUME StopInv, Others
             PROVE  StopInv'
    OBVIOUS
<1> USE DEF StopInv, reloadSeen, sectionVars
<1>1. WatchTable' <=> WatchTable
      BY OthersStop DEF WatchTable
<1>2. Stopping' <=> Stopping
      BY OthersStop DEF Stopping
<1>3. UNCHANGED <<program_shutdown, mpc>> /\ Watched(Sections(config))' = Watched(Sections(config))
      BY OthersStop DEF Watched, Sections
<1>4. StoppingFacts => StoppingFacts'
      BY <1>3, OthersStop DEF StoppingFacts, Watched
<1>5. JoinReturns'
      BY <1>3, OthersStop DEF JoinReturns, Watched, InotifyEnds
<1> QED BY <1>1, <1>2, <1>3, <1>4, <1>5, OthersStop

(* Shutting down one more project for SIGTERM: either the kernel drops its   *)
(* watch, or another project that is left has the same one.                  *)
LEMMA ShutdownWatch ==
    ASSUME TypeInv, Stopping, StoppingFacts, NEW pr \in mprojs, mpc = "shutdown",
           qgis_inotify_delete_watch(pr), mprojs' = mprojs \ {pr}, UNCHANGED <<config, npc>>
    PROVE  Watched(Sections(config))' => InotifyEnds' \/ Watched(mprojs)'
<1> SUFFICES ASSUME Watched(Sections(config)), ~InotifyEnds', ~Watched(mprojs)'
             PROVE  FALSE
    BY DEF Watched, Sections
<1>1. npc # "ended" /\ ignored' = {}
      BY DEF InotifyEnds
<1>2. ignored = {} /\ ~(watchd[pr] # NoDir /\ ~WatchShared(pr))
      BY <1>1 DEF qgis_inotify_delete_watch
<1>3. Watched(mprojs)
      BY <1>1, <1>2 DEF StoppingFacts, InotifyEnds
<1>4. WatchDir[pr] # NoDir
      BY <1>3 DEF Watched
<1>5. watchd[pr] = WatchDir[pr]
      BY DEF StoppingFacts
<1>6. PICK q \in projects \ {pr} : watchd[q] = watchd[pr]
      BY <1>2, <1>4, <1>5 DEF WatchShared
<1>7. q \in mprojs' /\ WatchDir[q] # NoDir
      BY <1>4, <1>5, <1>6 DEF StoppingFacts
<1> QED BY <1>7 DEF Watched

(* main keeps StopInv. *)
LEMMA MainThreadStop == TypeInv /\ ReloadInv /\ StopInv /\ MainThread => StopInv'
<1> SUFFICES ASSUME TypeInv, ReloadInv, StopInv, MainThread
             PROVE  StopInv'
    OBVIOUS
<1> USE DEF StopInv, MainStep,
            kernelVars, dbVars, processVars, projectVars, queueVars, managerVars, starterVars,
            initVars, restartVars, connVars, mainVars, reloadVars, sectionVars, inotifyVars,
            lowerVars
<1>f. ASSUME UNCHANGED <<program_shutdown, sigterm, npc, ignored, projects, watchd>>,
             ~Stopping', mpc' # "join", mpc \in Moving => mpc' \in Moving /\ mproj' = mproj
      PROVE  StopInv'
      BY <1>f DEF WatchTable, JoinReturns
<1>1. CASE \E pr \in Project : StartProject(pr)
  <2> PICK pr \in Project : StartProject(pr)
      BY <1>1
  <2>1. mpc \notin Moving /\ mpc' \notin Moving \cup {"join", "shutdown"}
        BY DEF StartProject, Moving
  <2>2. WatchTable => WatchTable'
        BY <2>1 DEF StartProject, project_manager_start_project, db_add_project, WatchTable,
              qgis_inotify_watch_file, TypeInv, TypeOK, DatabaseTypeOK
  <2> QED BY <2>1, <2>2 DEF StartProject, Stopping, JoinReturns
<1>2. CASE StartupDone \/ HupDone \/ SigChld \/ ProbesDone
  <2>1. mpc \notin Moving /\ mpc' \notin Moving \cup {"join", "shutdown"}
        BY <1>2 DEF StartupDone, HupDone, SigChld, ProbesDone, Moving
  <2> QED BY <1>2, <2>1, <1>f DEF StartupDone, HupDone, SigChld, ProbesDone, Stopping
<1>3. CASE \E p \in Pid : ProbeProcess(p)
  <2>1. mpc' = "chld" /\ mpc = "chld"
        BY <1>3 DEF ProbeProcess
  <2> QED BY <1>3, <2>1, <1>f DEF ProbeProcess, Stopping, Moving
<1>4. CASE SigTerm
  <2>1. ~program_shutdown /\ mpc = "loop" /\ mpc' = "shutdown"
        BY <1>4 DEF SigTerm
  <2>2. projects = Sections(config) /\ ListsDone
        BY <2>1 DEF ReloadInv, ReloadFacts, ReloadMain, ReloadTable, Between, ListsDone
  <2>3. \A pr \in projects : watchd[pr] = WatchDir[pr]
        BY <2>1 DEF WatchTable, Moving
  <2>4. StoppingFacts'
        BY <1>4, <2>1, <2>2, <2>3 DEF SigTerm, StoppingFacts, Watched, Sections, ListsDone
  <2> QED BY <1>4, <2>1, <2>4 DEF SigTerm, JoinReturns
<1>5. CASE \E pr \in Project : ShutdownProject(pr)
  <2> PICK pr \in Project : ShutdownProject(pr)
      BY <1>5
  <2>1. mpc' = "notify1" /\ mproj' = pr /\ mpc \in {"shutdown", "hup"} /\ mprojs' = mprojs \ {pr}
        BY DEF ShutdownProject
  <2>2. UNCHANGED <<program_shutdown, sigterm, npc, projects, config, sectionVars>>
        BY DEF ShutdownProject
  <2>3. \A q \in Project \ {pr} : watchd'[q] = watchd[q]
        BY DEF ShutdownProject, qgis_inotify_delete_watch
  <2>4. ~program_shutdown => WatchTable'
        BY <2>1, <2>2, <2>3 DEF WatchTable, Moving, TypeInv, TypeOK, DatabaseTypeOK
  <2>5. CASE mpc = "hup"
    <3>1. ~Stopping'
          BY <2>1, <2>2, <2>5 DEF ShutdownProject, Stopping
    <3> QED BY <2>1, <2>2, <2>4, <3>1 DEF JoinReturns
  <2>6. CASE mpc = "shutdown"
    <3>1. Stopping /\ StoppingFacts /\ pr \in mprojs
          BY <2>6 DEF Stopping, ShutdownProject
    <3>2. Watched(Sections(config))' => InotifyEnds' \/ Watched(mprojs)'
          BY <2>1, <2>2, <2>6, <3>1, ShutdownWatch DEF ShutdownProject
    <3>3. StoppingFacts'
          BY <2>1, <2>2, <2>3, <2>6, <3>1, <3>2
             DEF StoppingFacts, TypeInv, TypeOK, SchedulerTypeOK
    <3> QED BY <2>1, <2>2, <2>4, <3>3 DEF JoinReturns
  <2> QED BY <2>1, <2>5, <2>6
<1>6. CASE ActiveToShutdown \/ NotifyMoved
  <2>1. mpc \in Moving /\ mpc' \in Moving
        BY <1>6 DEF ActiveToShutdown, NotifyMoved, Moving
  <2>2. UNCHANGED <<program_shutdown, sigterm, npc, ignored, projects, watchd, mproj, mprojs,
                    config, sectionchange, sectiondelete>>
        BY <1>6 DEF ActiveToShutdown, NotifyMoved
  <2>3. mpc # "shutdown" /\ mpc' # "shutdown" /\ mpc' # "join"
        BY <2>1 DEF Moving
  <2>4. Stopping' => StoppingFacts'
        BY <2>1, <2>2, <2>3 DEF Stopping, StoppingFacts, Watched, InotifyEnds, Sections
  <2> QED BY <2>1, <2>2, <2>3, <2>4 DEF WatchTable, JoinReturns
<1>7. CASE RemoveProject
  <2>1. /\ mpc = "rmproj" /\ mpc' \notin Moving /\ mpc' # "join"
        /\ projects' = projects \ {mproj}
        /\ \A q \in Project \ {mproj} : watchd'[q] = watchd[q]
        /\ UNCHANGED <<program_shutdown, sigterm, npc, ignored, mprojs, config, sectionchange>>
        BY <1>7 DEF RemoveProject, db_remove_project, Moving
  <2>2. WatchTable => WatchTable'
        BY <2>1 DEF WatchTable, TypeInv, TypeOK, DatabaseTypeOK
  <2>3. CASE mpc' = "shutdown"
    <3>1. Stopping /\ StoppingFacts
          BY <1>7, <2>1, <2>3 DEF RemoveProject, Stopping, Moving
    <3>2. sectiondelete' = {}
          BY <1>7, <3>1 DEF RemoveProject, StoppingFacts
    <3>3. StoppingFacts'
          BY <2>1, <2>3, <3>1, <3>2
             DEF StoppingFacts, Watched, InotifyEnds, Sections, TypeInv, TypeOK, SchedulerTypeOK
    <3> QED BY <2>1, <2>2, <3>3 DEF JoinReturns
  <2>4. CASE mpc' # "shutdown"
        BY <2>1, <2>2, <2>4 DEF Stopping, JoinReturns
  <2> QED BY <2>3, <2>4
<1>8. CASE RestartProject
  <2>1. mpc = "restart" /\ mpc' = "hup" /\ mproj \in Project
        BY <1>8 DEF RestartProject, TypeInv, CallFacts
  <2>2. WatchTable => WatchTable'
        BY <1>8, <2>1 DEF RestartProject, project_manager_start_project, db_add_project,
              WatchTable, Moving, qgis_inotify_watch_file, TypeInv, TypeOK, DatabaseTypeOK
  <2> QED BY <1>8, <2>1, <2>2 DEF RestartProject, Stopping, Moving, JoinReturns
<1>9. CASE \E pr \in Project : FillProject(pr)
  <2>1. mpc' = "hup" /\ mpc = "hup"
        BY <1>9 DEF FillProject
  <2> QED BY <1>9, <2>1, <1>f DEF FillProject, Stopping, Moving
<1>10. CASE WaitEmpty
  <2>1. mpc = "shutdown" /\ mpc' = "join" /\ mprojs = {}
        BY <1>10 DEF WaitEmpty
  <2>2. StoppingFacts
        BY <2>1 DEF Stopping
  <2>3. Watched(Sections(config)) => InotifyEnds
        BY <2>1, <2>2 DEF StoppingFacts, Watched
  <2> QED BY <1>10, <2>1, <2>2, <2>3
          DEF WaitEmpty, StoppingFacts, Stopping, Moving, JoinReturns, Watched, InotifyEnds,
              Sections
<1>11. CASE JoinInotify
  <2>1. mpc' = "loop" /\ mpc = "join"
        BY <1>11 DEF JoinInotify
  <2> QED BY <1>11, <2>1, <1>f DEF JoinInotify, Stopping, Moving
<1>12. CASE Exit
  <2>1. mpc' = "loop" /\ mpc = "loop"
        BY <1>12 DEF Exit
  <2> QED BY <1>12, <2>1, <1>f DEF Exit, Stopping, Moving
<1> QED BY <1>1, <1>2, <1>3, <1>4, <1>5, <1>6, <1>7, <1>8, <1>9, <1>10, <1>11, <1>12
    DEF MainThread

(* So does a SIGHUP, which main reads in its loop. *)
LEMMA SigHupStop ==
    ASSUME StopInv, NEW new \in ConfigFiles, SigHup(new)
    PROVE  StopInv'
<1>1. mpc = "loop" /\ mpc' = "hup"
      BY DEF SigHup, MainStep
<1>2. UNCHANGED <<program_shutdown, projects, watchd, sigterm, npc, ignored>>
      BY DEF SigHup, lowerVars, kernelVars, dbVars, projectVars, inotifyVars
<1> QED BY <1>1, <1>2 DEF StopInv, Stopping, Moving, WatchTable, JoinReturns

(* main does not wait for ever in qgis_inotify_delete: with a watched config *)
(* file the inotify thread has ended or has the event that ends it before    *)
(* it, however the projects share directories and whatever reloads came      *)
(* before, as long as these were applied. The run unwatched shows that the   *)
(* watched file is needed.                                                   *)
THEOREM InotifyJoined ==
    ASSUME IsFiniteSet(Project), MaxSectionChanges <= 1
    PROVE  Spec => []JoinReturns
<1>1. TypeInv /\ ReloadInv /\ StopInv /\ [Next]_vars => StopInv'
      BY NextSplit, FrameStop, MainThreadStop, SigHupStop
<1>2. StopInv => JoinReturns
      BY DEF StopInv
<1> QED BY <1>1, <1>2, InitStop, ReloadInvariance, TypeInvariance, PTL DEF Spec

-----------------------------------------------------------------------------
(* Before any reload. *)

(* Neither SIGTERM nor SIGHUP has been handled yet. *)
Calm == ~program_shutdown /\ reloads = 0

(* Then main starts projects or runs its loop, and the table lists exactly   *)
(* the projects it has started.                                              *)
CalmMain ==
    /\ mpc \in {"startup", "loop", "chld"}
    /\ sectionchange = {} /\ sectiondelete = {}
    /\ projects \cap sectionnew = {}
    /\ Sections(config) = projects \cup sectionnew
    /\ mpc # "startup" => sectionnew = {}

(* Every thread, and every row, belongs to a project of the table. *)
StarterProjects == \A s \in Starter : tpc[s] # "free" => tproj[s] \in projects
RowProjects == \A p \in Pid : plist[p] # "none" => pproj[p] \in projects
ClientProjects ==
    \A h \in Conn : /\ hproj[h] \in projects \cup {NoProject}
                    /\ hpc[h] # "free" => mpc # "startup"
InotifyProject == npc = "count" => nproj \in projects

CalmFacts ==
    CalmMain /\ StarterProjects /\ RowProjects /\ ClientProjects /\ InotifyProject
CalmInv == Calm => CalmFacts

(* Nothing runs yet when the daemon starts. *)
LEMMA InitCalm == Init => CalmInv
BY ConfigAssumption
   DEF Init, KernelInit, DatabaseInit, ConfigInit, QueueInit, ManagerInit, ConnInit, CalmInv,
       CalmFacts, CalmMain, StarterProjects, RowProjects, ClientProjects, InotifyProject, Sections

(* A thread that is started for a project of the table. *)
LEMMA StartCalm ==
    ASSUME TypeInv, StarterProjects, projects \subseteq projects', NEW num, NEW pr \in projects',
           NEW exchange, process_manager_start_new_process_detached(num, pr, exchange)
    PROVE  StarterProjects'
<1> USE DEF StarterProjects, TypeInv, TypeOK, ManagerTypeOK
<1>1. CASE UNCHANGED starterVars
      BY <1>1 DEF starterVars
<1>2. ASSUME NEW s \in FreeStarters,
             tpc' = [tpc EXCEPT ![s] = "check"], tproj' = [tproj EXCEPT ![s] = pr]
      PROVE  StarterProjects'
      BY <1>2
<1> QED BY <1>1, <1>2 DEF process_manager_start_new_process_detached

(* The other threads leave CalmMain alone.                                   *)
LEMMA FrameCalm == CalmMain /\ UNCHANGED reloadSeen => CalmMain'
BY DEF CalmMain, Sections, reloadSeen, sectionVars

(* The shutdown thread deletes rows, no more. *)
LEMMA ShutdownThreadCalm == TypeInv /\ CalmFacts /\ ShutdownThread => CalmFacts'
<1> SUFFICES ASSUME TypeInv, CalmFacts, ShutdownThread
             PROVE  CalmFacts'
    OBVIOUS
<1> USE DEF kernelVars, dbVars, processVars, projectVars, queueVars, managerVars, starterVars,
            initVars, restartVars, connVars, mainVars, reloadVars, sectionVars, inotifyVars,
            lowerVars
<1>1. UNCHANGED <<tpc, tproj, hproj, hpc, npc, nproj, pproj>>
  <2>1. CASE \E p \in Pid : CheckProcess(p) /\ QueueStep
        BY <2>1 DEF CheckProcess, QueueStep
  <2>2. CASE (BeginScan \/ WeedOut \/ Decide) /\ QueueStep
        BY <2>2 DEF BeginScan, WeedOut, db_remove_process_with_state_exit, Decide, QueueStep
  <2>3. CASE (WaitTimesOut \/ WakeUp \/ DrainCheck) /\ QueueStep
        BY <2>3 DEF WaitTimesOut, WakeUp, DrainCheck, QueueStep
  <2> QED BY <2>1, <2>2, <2>3 DEF ShutdownThread
<1>2. \A p \in Pid : plist'[p] # "none" => plist[p] # "none"
  <2>1. CASE \E p \in Pid : CheckProcess(p) /\ QueueStep
        BY <2>1 DEF CheckProcess
  <2>2. CASE (BeginScan \/ WeedOut \/ Decide) /\ QueueStep
        BY <2>2 DEF BeginScan, WeedOut, db_remove_process_with_state_exit, Decide
  <2>3. CASE (WaitTimesOut \/ WakeUp \/ DrainCheck) /\ QueueStep
        BY <2>3 DEF WaitTimesOut, WakeUp, DrainCheck
  <2> QED BY <2>1, <2>2, <2>3 DEF ShutdownThread
<1>3. UNCHANGED reloadSeen
      BY ShutdownThreadFrame
<1>4. CalmMain'
      BY <1>3, FrameCalm DEF CalmFacts
<1>5. RowProjects'
      BY <1>1, <1>2, <1>3 DEF CalmFacts, RowProjects, reloadSeen
<1> QED BY <1>1, <1>3, <1>4, <1>5
        DEF CalmFacts, StarterProjects, ClientProjects, InotifyProject, reloadSeen

(* A starter finds the project it was created for. *)
LEMMA StarterThreadCalm ==
    TypeInv /\ CalmFacts /\ (\E s \in Starter : StarterThread(s)) => CalmFacts'
<1> SUFFICES ASSUME TypeInv, CalmFacts, NEW s \in Starter, StarterThread(s)
             PROVE  CalmFacts'
    OBVIOUS
<1> USE DEF ManagerStep, TypeInv, TypeOK, ManagerTypeOK, DatabaseTypeOK,
            kernelVars, dbVars, processVars, projectVars, queueVars, managerVars, starterVars,
            initVars, restartVars, connVars, mainVars, reloadVars, sectionVars, inotifyVars,
            lowerVars
<1>1. UNCHANGED reloadSeen
      BY StarterThreadFrame
<1>2. UNCHANGED <<hproj, hpc, npc, nproj>>
      BY DEF StarterThread
<1>4. CalmMain'
      BY <1>1, FrameCalm DEF CalmFacts
<1>5. \A t \in Starter : tpc'[t] # "free" => tpc[t] # "free" /\ tproj'[t] = tproj[t]
  <2>1. CASE StartCheck(s) /\ ManagerStep
        BY <2>1 DEF StartCheck, EndStarter
  <2>2. CASE \E p \in Pid : StartNewChild(s, p) /\ ManagerStep
        BY <2>2 DEF StartNewChild
  <2>3. CASE (StartNothing(s) \/ ExchangeProcesses(s) \/ ExchangeNotify(s)) /\ ManagerStep
        BY <2>3 DEF StartNothing, ExchangeProcesses, Joined, ExchangeNotify
  <2>4. CASE (ExchangeReset(s) \/ Activate(s) \/ ActivateNotify(s)) /\ ManagerStep
        BY <2>4 DEF ExchangeReset, Activate, Joined, ActivateNotify, EndStarter
  <2> QED BY <2>1, <2>2, <2>3, <2>4 DEF StarterThread
<1>6. UNCHANGED pproj /\ \A p \in Pid : plist'[p] # "none" => plist[p] # "none"
  <2>1. CASE StartCheck(s) /\ ManagerStep
        BY <2>1 DEF StartCheck
  <2>2. CASE \E p \in Pid : StartNewChild(s, p) /\ ManagerStep
        BY <2>2 DEF StartNewChild
  <2>3. CASE (StartNothing(s) \/ ExchangeProcesses(s) \/ ExchangeNotify(s)) /\ ManagerStep
        BY <2>3 DEF StartNothing, ExchangeProcesses, ExchangeNotify,
                  db_move_all_process_from_active_to_shutdown_list, MoveProjectList
  <2>4. CASE (ExchangeReset(s) \/ Activate(s) \/ ActivateNotify(s)) /\ ManagerStep
        BY <2>4 DEF ExchangeReset, Activate, ActivateNotify,
                  db_move_all_idle_process_from_init_to_active_list, MoveProjectList
  <2> QED BY <2>1, <2>2, <2>3, <2>4 DEF StarterThread
<1> QED BY <1>1, <1>2, <1>4, <1>5, <1>6
        DEF CalmFacts, StarterProjects, RowProjects, ClientProjects, InotifyProject, reloadSeen

(* A replacement is started for the project of the row that is restarted.    *)
LEMMA RestartProcessCalm ==
    TypeInv /\ CalmFacts /\ (\E a \in Actor : RestartProcess(a)) => CalmFacts'
<1> SUFFICES ASSUME TypeInv, CalmFacts, NEW a \in Actor, RestartProcess(a)
             PROVE  CalmFacts'
    OBVIOUS
<1> USE DEF ManagerStep, RestartStays,
            kernelVars, dbVars, processVars, projectVars, queueVars, managerVars, starterVars,
            initVars, restartVars, connVars, mainVars, reloadVars, sectionVars, inotifyVars,
            lowerVars
<1>1. UNCHANGED reloadSeen
      BY RestartProcessFrame
<1>2. UNCHANGED <<hproj, hpc, npc, nproj>>
      BY DEF RestartProcess
<1>3. CalmMain'
      BY <1>1, FrameCalm DEF CalmFacts
<1>4. CASE RestartStart(a) /\ ManagerStep
  <2>1. UNCHANGED <<plist, pproj>> /\ rpid[a] \in Pid
        BY <1>4 DEF RestartStart, TypeInv, CallFacts
  <2>2. StarterProjects'
    <3>1. CASE UNCHANGED starterVars
          BY <1>1, <3>1 DEF CalmFacts, StarterProjects, reloadSeen
    <3>2. CASE /\ InService(rpid[a])
               /\ process_manager_start_new_process_detached(1, pproj[rpid[a]], FALSE)
      <4>1. pproj[rpid[a]] \in projects' /\ projects' = projects
            BY <1>1, <2>1, <3>2 DEF InService, CalmFacts, RowProjects, reloadSeen
      <4> QED BY <3>2, <4>1, StartCalm DEF CalmFacts
    <3> QED BY <1>4, <3>1, <3>2 DEF RestartStart, StartReplacement
  <2> QED BY <1>1, <1>2, <1>3, <2>1, <2>2
          DEF CalmFacts, RowProjects, ClientProjects, InotifyProject, reloadSeen
<1>5. CASE (AddProcessMove(a) \/ AddProcessAssertFails(a) \/ AddProcessNotify(a)) /\ ManagerStep
  <2>1. UNCHANGED <<tpc, tproj>>
        BY <1>5 DEF AddProcessMove, AddProcessAssertFails, AddProcessNotify
  <2>2. UNCHANGED pproj /\ \A p \in Pid : plist'[p] # "none" => plist[p] # "none"
        BY <1>5 DEF AddProcessMove, AddProcessAssertFails, AddProcessNotify,
                  db_move_process_to_list, Rows, TypeInv, TypeOK, DatabaseTypeOK
  <2> QED BY <1>1, <1>2, <1>3, <2>1, <2>2
          DEF CalmFacts, StarterProjects, RowProjects, ClientProjects, InotifyProject, reloadSeen
<1> QED BY <1>4, <1>5 DEF RestartProcess

(* The row of a new child gets the project of the starter that forked it. *)
LEMMA InitThreadCalm ==
    TypeInv /\ CalmFacts /\ (\E p \in Pid : InitThread(p)) => CalmFacts'
<1> SUFFICES ASSUME TypeInv, CalmFacts, NEW p \in Pid, InitThread(p)
             PROVE  CalmFacts'
    OBVIOUS
<1> USE DEF ManagerStep, ConnStep,
            kernelVars, dbVars, processVars, projectVars, queueVars, managerVars, starterVars,
            initVars, restartVars, connVars, mainVars, reloadVars, sectionVars, inotifyVars,
            lowerVars
<1>1. UNCHANGED reloadSeen
      BY InitThreadFrame
<1>2. UNCHANGED <<hproj, npc, nproj, tpc, tproj>>
      BY DEF InitThread, AddProcess, ConnectInit, InitEndsDaemon, InitDone, ReadTimesOut,
         DiedDuringInit,
             InitSetIdle
<1>3. CalmMain'
      BY <1>1, FrameCalm DEF CalmFacts
<1>4. RowProjects'
  <2>1. CASE AddProcess(p)
    <3>1. owner[p] \in Starter /\ tpc[owner[p]] # "free"
          BY <2>1 DEF AddProcess, InitStep, TypeInv, StarterFacts
    <3>2. tproj[owner[p]] \in projects
          BY <3>1 DEF CalmFacts, StarterProjects
    <3> QED BY <1>1, <2>1, <3>2 DEF AddProcess, db_add_process, CalmFacts, RowProjects, TypeInv,
                   TypeOK, DatabaseTypeOK, reloadSeen
  <2>2. CASE UNCHANGED <<plist, pproj>>
        BY <1>1, <2>2 DEF CalmFacts, RowProjects, reloadSeen
  <2> QED BY <2>1, <2>2 DEF InitThread, ConnectInit, InitEndsDaemon, InitDone, ReadTimesOut,
                 DiedDuringInit, InitSetIdle, db_process_set_state
<1>5. \A h \in Conn : hpc'[h] # "free" => hpc[h] # "free"
  <2>1. CASE UNCHANGED hpc
        BY <2>1
  <2>2. CASE InitSetIdle(p)
        BY <2>2 DEF InitSetIdle, IdleSignalled, Waiting, TypeInv, TypeOK, ConnTypeOK
  <2> QED BY <2>1, <2>2 DEF InitThread
<1> QED BY <1>1, <1>2, <1>3, <1>4, <1>5
        DEF CalmFacts, StarterProjects, ClientProjects, InotifyProject, reloadSeen

(* A connection thread starts processes for the project of its request. *)
LEMMA ConnectionThreadCalm ==
    TypeInv /\ CalmFacts /\ (\E h \in Conn : ConnectionThread(h)) => CalmFacts'
<1> SUFFICES ASSUME TypeInv, CalmFacts, NEW h \in Conn, ConnectionThread(h)
             PROVE  CalmFacts'
    OBVIOUS
<1> USE DEF ConnStep,
            kernelVars, dbVars, processVars, projectVars, queueVars, managerVars, starterVars,
            initVars, restartVars, connVars, mainVars, reloadVars, sectionVars, inotifyVars,
            lowerVars
<1>1. UNCHANGED reloadSeen
      BY ConnectionThreadFrame
<1>2. UNCHANGED <<npc, nproj, plist, pproj>>
  <2>1. CASE CountProcesses(h) \/ NoProjectFound(h) \/ IdleTimesOut(h)
        BY <2>1 DEF ConnectionThread, CountProcesses, NoProjectFound, IdleTimesOut
  <2>2. CASE TakeProcess(h) \/ RecheckProcess(h)
        BY <2>2 DEF ConnectionThread, TakeProcess, TakeIdle, RecheckProcess, db_process_set_state
  <2>3. CASE ConnectChild(h) \/ ConnectFails(h) \/ ConnRestarted(h) \/ SocketFails(h)
        BY <2>3 DEF ConnectionThread, ConnectChild, ConnectFails, ConnRestarted, SocketFails
  <2>4. CASE ConnSetIdle(h) \/ EndConnection(h) \/ RetriesOver(h)
        BY <2>4 DEF ConnectionThread, ConnSetIdle, EndConnection, RetriesOver,
                  db_process_set_state
  <2> QED BY <2>1, <2>2, <2>3, <2>4 DEF ConnectionThread
<1>3. CalmMain'
      BY <1>1, FrameCalm DEF CalmFacts
<1>4. StarterProjects'
  <2>1. CASE UNCHANGED starterVars
        BY <1>1, <2>1 DEF CalmFacts, StarterProjects, reloadSeen
  <2>2. CASE /\ hproj[h] # NoProject
             /\ process_manager_start_new_process_detached(1, hproj[h], FALSE)
    <3>1. hproj[h] \in projects' /\ projects' = projects
          BY <1>1, <2>2 DEF CalmFacts, ClientProjects, reloadSeen
    <3> QED BY <2>2, <3>1, StartCalm DEF CalmFacts
  <2>3. CASE CountProcesses(h)
        BY <2>1, <2>2, <2>3 DEF CountProcesses
  <2>4. CASE ~CountProcesses(h)
    <3>1. CASE NoProjectFound(h) \/ IdleTimesOut(h) \/ TakeProcess(h) \/ RecheckProcess(h)
          BY <2>1, <3>1 DEF NoProjectFound, IdleTimesOut, TakeProcess, TakeIdle, RecheckProcess
    <3>2. CASE ConnectChild(h) \/ ConnectFails(h) \/ ConnRestarted(h) \/ SocketFails(h)
          BY <2>1, <3>2 DEF ConnectChild, ConnectFails, ConnRestarted, SocketFails
    <3>3. CASE ConnSetIdle(h) \/ EndConnection(h) \/ RetriesOver(h)
          BY <2>1, <3>3 DEF ConnSetIdle, EndConnection, RetriesOver
    <3> QED BY <2>4, <3>1, <3>2, <3>3 DEF ConnectionThread
  <2> QED BY <2>3, <2>4
<1>5. \A g \in Conn : /\ hpc'[g] # "free" => hpc[g] # "free"
                      /\ hproj'[g] \in {hproj[g], NoProject}
  <2> USE DEF TypeInv, TypeOK, ConnTypeOK
  <2>1. CASE CountProcesses(h) \/ NoProjectFound(h) \/ IdleTimesOut(h)
        BY <2>1 DEF CountProcesses, NoProjectFound, IdleTimesOut, Abort
  <2>2. CASE TakeProcess(h) \/ RecheckProcess(h)
        BY <2>2 DEF TakeProcess, TakeIdle, RecheckProcess, Abort
  <2>3. CASE ConnectChild(h) \/ ConnectFails(h) \/ ConnRestarted(h) \/ SocketFails(h)
        BY <2>3 DEF ConnectChild, ConnectFails, ConnRestarted, SocketFails, FaultyChildRetry, Abort
  <2>4. CASE ConnSetIdle(h)
        BY <2>4 DEF ConnSetIdle, IdleSignalled, Waiting
  <2>5. CASE EndConnection(h) \/ RetriesOver(h)
        BY <2>5 DEF EndConnection, RetriesOver
  <2> QED BY <2>1, <2>2, <2>3, <2>4, <2>5 DEF ConnectionThread
<1> QED BY <1>1, <1>2, <1>3, <1>4, <1>5
        DEF CalmFacts, RowProjects, ClientProjects, InotifyProject, reloadSeen

(* The inotify thread restarts processes of projects the table lists. *)
LEMMA InotifyThreadCalm == TypeInv /\ CalmFacts /\ InotifyThread => CalmFacts'
<1> SUFFICES ASSUME TypeInv, CalmFacts, InotifyThread
             PROVE  CalmFacts'
    OBVIOUS
<1> USE DEF kernelVars, dbVars, processVars, projectVars, queueVars, managerVars, starterVars,
            initVars, restartVars, connVars, mainVars, reloadVars, sectionVars, inotifyVars,
            lowerVars
<1>1. UNCHANGED reloadSeen
      BY InotifyThreadFrame
<1>2. UNCHANGED <<hpc, hproj, plist, pproj>>
      BY DEF InotifyThread, ReadConfigEvent, RestartProcesses, ReadIgnored
<1>3. CalmMain'
      BY <1>1, FrameCalm DEF CalmFacts
<1>4. StarterProjects' /\ InotifyProject'
  <2>1. CASE RestartProcesses
    <3>1. PICK num : process_manager_start_new_process_detached(num, nproj, TRUE)
          BY <2>1 DEF RestartProcesses
    <3>2. nproj \in projects' /\ projects' = projects
          BY <1>1, <2>1 DEF RestartProcesses, CalmFacts, InotifyProject, reloadSeen
    <3> QED BY <2>1, <3>1, <3>2, StartCalm DEF RestartProcesses, CalmFacts, InotifyProject
  <2>2. CASE \E pr \in Project : ReadConfigEvent(pr)
        BY <1>1, <2>2 DEF ReadConfigEvent, WatchedProjects, CalmFacts, StarterProjects,
                  InotifyProject, reloadSeen
  <2>3. CASE \E d \in Dir : ReadIgnored(d)
        BY <1>1, <2>3 DEF ReadIgnored, CalmFacts, StarterProjects, InotifyProject, reloadSeen
  <2> QED BY <2>1, <2>2, <2>3 DEF InotifyThread
<1> QED BY <1>1, <1>2, <1>3, <1>4 DEF CalmFacts, RowProjects, ClientProjects, reloadSeen

(* A request names a project of the configuration, and main accepts requests *)
(* when every section of it has its row.                                     *)
LEMMA EnvironmentCalm ==
    ASSUME TypeInv, CalmFacts, Environment, ~(\E new \in ConfigFiles : SigHup(new))
    PROVE  CalmFacts'
<1> USE DEF QueueStep, ConnStep,
            kernelVars, dbVars, processVars, projectVars, queueVars, managerVars, starterVars,
            initVars, restartVars, connVars, mainVars, reloadVars, sectionVars, inotifyVars,
            lowerVars
<1>1. UNCHANGED reloadSeen
      BY EnvironmentFrame
<1>2. UNCHANGED <<plist, pproj, tpc, tproj, npc, nproj>>
  <2>1. CASE \E p \in Pid : Die(p) /\ UNCHANGED <<dbVars, queueVars>> /\ QueueStep
        BY <2>1 DEF Die
  <2>2. CASE \E p \in Pid : TimeoutPasses(p) /\ QueueStep
        BY <2>2 DEF TimeoutPasses
  <2>3. CASE SpuriousWakeup /\ QueueStep
        BY <2>3 DEF SpuriousWakeup
  <2>4. CASE \E h \in Conn :
                (IdleSpuriousWakeup(h) \/ RelayEnds(h) \/ ConnEndsDaemon(h)) /\ ConnStep
        BY <2>4 DEF IdleSpuriousWakeup, RelayEnds, ConnEndsDaemon
  <2>5. CASE \E h \in Conn : AcceptConnection(h)
        BY <2>5 DEF AcceptConnection, Accept
  <2>6. CASE \E h \in Conn, pr \in Project \cup {NoProject} : ChooseProject(h, pr) /\ ConnStep
        BY <2>6 DEF ChooseProject
  <2>7. CASE (\E pr \in Project : ConfigWritten(pr)) \/ TermArrives
        BY <2>7 DEF ConfigWritten, TermArrives
  <2> QED BY <2>1, <2>2, <2>3, <2>4, <2>5, <2>6, <2>7 DEF Environment
<1>3. CalmMain'
      BY <1>1, FrameCalm DEF CalmFacts
<1>4. ClientProjects'
  <2> USE DEF TypeInv, TypeOK, ConnTypeOK, CalmFacts, ClientProjects, reloadSeen
  <2>1. CASE UNCHANGED <<hpc, hproj>>
        BY <1>1, <2>1
  <2>2. CASE \E h \in Conn : IdleSpuriousWakeup(h) \/ RelayEnds(h) \/ ConnEndsDaemon(h)
        BY <1>1, <2>2 DEF IdleSpuriousWakeup, RelayEnds, ConnEndsDaemon
  <2>3. CASE \E h \in Conn : AcceptConnection(h)
        BY <1>1, <2>3 DEF AcceptConnection, Accept
  <2>4. CASE \E h \in Conn, pr \in Project \cup {NoProject} : ChooseProject(h, pr)
    <3> PICK h \in Conn, pr \in Project \cup {NoProject} : ChooseProject(h, pr)
        BY <2>4
    <3>1. pr \in projects \cup {NoProject}
          BY DEF ChooseProject, CalmMain
    <3> QED BY <1>1, <3>1 DEF ChooseProject
  <2> QED BY <2>1, <2>2, <2>3, <2>4 DEF Environment, ConfigWritten, TermArrives
<1> QED BY <1>1, <1>2, <1>3, <1>4
        DEF CalmFacts, StarterProjects, RowProjects, InotifyProject, reloadSeen

(* main adds each project before it starts its processes. *)
LEMMA MainThreadCalm ==
    ASSUME TypeInv, CalmInv, MainThread, Calm'
    PROVE  CalmFacts'
<1> USE DEF kernelVars, dbVars, processVars, projectVars, queueVars, managerVars, starterVars,
            initVars, restartVars, connVars, mainVars, reloadVars, sectionVars, inotifyVars,
            lowerVars
<1>1. CASE \E pr \in Project : StartProject(pr)
  <2> PICK pr \in Project : StartProject(pr)
      BY <1>1
  <2>1. CalmFacts /\ ~program_shutdown
        BY DEF StartProject, CalmInv, Calm
  <2>2. pr \notin projects
        BY <2>1 DEF StartProject, CalmFacts, CalmMain
  <2>3. /\ projects' = projects \cup {pr} /\ UNCHANGED exited
        /\ process_manager_start_new_process_detached(MinProc[pr], pr, FALSE)
        BY <2>1, <2>2, StartAdds DEF StartProject
  <2>4. StarterProjects'
        BY <2>1, <2>3, StartCalm DEF CalmFacts
  <2>5. CalmMain'
        BY <2>1, <2>3 DEF StartProject, CalmFacts, CalmMain, Sections
  <2> QED BY <2>1, <2>3, <2>4, <2>5
          DEF StartProject, CalmFacts, RowProjects, ClientProjects, InotifyProject
<1>2. CASE StartupDone \/ SigChld \/ ProbesDone
  <2>1. CalmFacts
        BY <1>2 DEF StartupDone, SigChld, ProbesDone, CalmInv, Calm
  <2> QED BY <1>2, <2>1
          DEF StartupDone, SigChld, ProbesDone, CalmFacts, CalmMain, Sections, ListsDone,
              StarterProjects, RowProjects, ClientProjects, InotifyProject
<1>3. CASE \E p \in Pid : ProbeProcess(p)
  <2>1. CalmFacts
        BY <1>3 DEF ProbeProcess, CalmInv, Calm
  <2> QED BY <1>3, <2>1
          DEF ProbeProcess, CalmFacts, CalmMain, Sections, StarterProjects, RowProjects,
              ClientProjects, InotifyProject
<1>4. CASE Exit
  <2>1. CalmFacts
        BY <1>4 DEF Exit, CalmInv, Calm
  <2> QED BY <1>4, <2>1
          DEF Exit, CalmFacts, CalmMain, Sections, StarterProjects, RowProjects,
              ClientProjects, InotifyProject
<1>5. ~SigTerm
      BY DEF SigTerm, Calm
<1>6. ASSUME mpc \notin {"startup", "loop", "chld"}, UNCHANGED <<program_shutdown, reloads>>
      PROVE  FALSE
      BY <1>6 DEF CalmInv, Calm, CalmFacts, CalmMain
<1>7. ~(\E pr \in Project : ShutdownProject(pr) \/ FillProject(pr))
      BY <1>6 DEF ShutdownProject, FillProject
<1>8. ~(ActiveToShutdown \/ NotifyMoved \/ RemoveProject)
      BY <1>6 DEF ActiveToShutdown, NotifyMoved, RemoveProject, MainStep
<1>9. ~(RestartProject \/ HupDone \/ WaitEmpty \/ JoinInotify)
      BY <1>6 DEF RestartProject, HupDone, WaitEmpty, JoinInotify, MainStep
<1> QED BY <1>1, <1>2, <1>3, <1>4, <1>5, <1>7, <1>8, <1>9 DEF MainThread

(* Every step keeps the invariant. *)
LEMMA NextCalm == TypeInv /\ CalmInv /\ [Next]_vars => CalmInv'
<1> SUFFICES ASSUME TypeInv, CalmInv, [Next]_vars, Calm'
             PROVE  CalmFacts'
    BY DEF CalmInv
<1>1. CASE MainThread
      BY <1>1, MainThreadCalm
<1>2. CASE \E new \in ConfigFiles : SigHup(new)
      BY <1>2 DEF SigHup, Calm, TypeInv, TypeOK, SchedulerTypeOK
<1>3. CASE Others
  <2>1. CalmFacts
        BY <1>3, OthersFrame DEF CalmInv, Calm, reloadSeen
  <2>2. CASE UNCHANGED vars
        BY <2>1, <2>2 DEF CalmFacts, CalmMain, Sections, StarterProjects, RowProjects,
                  ClientProjects, InotifyProject, vars,
            kernelVars, dbVars, processVars, projectVars, queueVars, managerVars, starterVars,
            initVars, restartVars, connVars, mainVars, reloadVars, sectionVars, inotifyVars,
            lowerVars
  <2> QED BY <1>3, <2>1, <2>2, ShutdownThreadCalm, StarterThreadCalm, RestartProcessCalm,
             InitThreadCalm, ConnectionThreadCalm, InotifyThreadCalm, EnvironmentCalm DEF Others
<1> QED BY <1>1, <1>2, <1>3, NextSplit

(* Until the first SIGTERM or SIGHUP every thread that is about to start      *)
(* processes finds its project in the table, however many children crash,    *)
(* clients come and config files change: each thread that asks for one works *)
(* with a row, a request or an event of a project the table lists.           *)
THEOREM StarterHasProject == Spec => []StarterFindsProject
<1>1. CalmInv => StarterFindsProject
      BY DEF CalmInv, CalmFacts, StarterProjects, Calm, StarterFindsProject
<1> QED BY <1>1, InitCalm, NextCalm, TypeInvariance, PTL DEF Spec
=============================================================================
