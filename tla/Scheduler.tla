------------------------------ MODULE Scheduler ------------------------------
(* The whole daemon: main's event loop (qgis-schedulerd.c), the project      *)
(* manager calls it and the inotify thread make (project_manager.c,          *)
(* qgis_inotify.c), and the composition with the threads of the modules      *)
(* below.                                                                    *)
EXTENDS ConnectionManager

CONSTANTS WatchDir,          \* where each project's config file is, NoDir: not watched
          MaxConfigChanges,  \* bound: config files written
          MaxReloads,        \* bound: SIGHUPs
          TermAllowed        \* whether the daemon may be asked to stop

ASSUME WatchAssumption == WatchDir \in [Project -> Dir \cup {NoDir}]
ASSUME TermAssumption ==
    TermAllowed \in BOOLEAN /\ MaxConfigChanges \in Nat /\ MaxReloads \in Nat

VARIABLES mpc,      \* where main is
          mscan,    \* SIGCHLD: pids left to probe
          mprojs,   \* projects left to shut down, or to provide with processes
          mproj,    \* the project being shut down
          reloads,  \* SIGHUPs so far
          sigterm,  \* a SIGTERM, SIGINT or SIGQUIT record in the signal pipe
          npc,      \* where the inotify thread is
          nproj,    \* the project whose config change it handles
          events,   \* file events not read yet, by project
          ignored,  \* IN_IGNORED events not read yet, by directory
          changes   \* config files written so far

reloadVars == <<config, sectionVars, reloads>>
mainVars == <<mpc, mscan, mprojs, mproj, sigterm, reloadVars>>
inotifyVars == <<npc, nproj, events, ignored, changes>>
vars == <<kernelVars, dbVars, queueVars, managerVars, connVars, mainVars, inotifyVars>>

MpcLabel == {"startup", "loop", "chld", "shutdown", "notify1", "act2sd", "notify2", "rmproj",
             "join", "hup", "restart"}

SchedulerTypeOK ==
    /\ mpc \in MpcLabel
    /\ mscan \subseteq Pid
    /\ mprojs \subseteq Project
    /\ mproj \in Project \cup {NoProject}
    /\ reloads \in 0..MaxReloads
    /\ sigterm \in BOOLEAN
    /\ npc \in {"read", "count", "ended"}
    /\ nproj \in Project \cup {NoProject}
    /\ events \subseteq Project
    /\ ignored \subseteq Dir
    /\ changes \in 0..MaxConfigChanges

Init ==
    /\ KernelInit /\ DatabaseInit /\ ConfigInit /\ QueueInit /\ ManagerInit /\ ConnInit
    /\ mpc = "startup"
    /\ mscan = {} /\ mprojs = {} /\ mproj = NoProject /\ reloads = 0
    /\ sigterm = FALSE
    /\ npc = "read" /\ nproj = NoProject
    /\ events = {} /\ ignored = {} /\ changes = 0

-----------------------------------------------------------------------------
(* main: starting up. *)

(* Watch the directory of the config file; inotify returns the same           *)
(* descriptor for the same directory. A project without a readable config     *)
(* file has none.                                                             *)
qgis_inotify_watch_file(pr) == watchd' = [watchd EXCEPT ![pr] = WatchDir[pr]]

(* Add the row, watch the config file, and start the first processes in a    *)
(* thread of their own. It ends the daemon if the row is there already       *)
(* (projects.name is unique, and db_add_project exits on errors), or if the  *)
(* inotify descriptor is closed.                                             *)
project_manager_start_project(pr) ==
    IF pr \in projects \/ (program_shutdown /\ WatchDir[pr] # NoDir)
      THEN exited' = "failure" /\ UNCHANGED <<projectVars, starterVars>>
      ELSE /\ db_add_project(pr)
           /\ qgis_inotify_watch_file(pr)
           /\ process_manager_start_new_process_detached(MinProc[pr], pr, FALSE)
           /\ UNCHANGED exited

(* project_manager_manage_project_changes, at startup and after SIGHUP:      *)
(* deleted projects first, then changed ones, then the new ones.             *)
StartProject(pr) ==
    /\ mpc \in {"startup", "hup"}
    /\ sectiondelete = {} /\ sectionchange = {} /\ pr \in sectionnew
    /\ project_manager_start_project(pr)
    /\ sectionnew' = sectionnew \ {pr}
    /\ UNCHANGED <<os, fd, sigchld, program_shutdown, processVars, queueVars, initVars,
                   restartVars, connVars, mpc, mscan, mprojs, mproj, sigterm, config,
                   sectionchange, sectiondelete, reloads, inotifyVars>>

(* At startup every section was new, and no project is left to look at. *)
StartupDone ==
    /\ mpc = "startup" /\ ListsDone
    /\ mpc' = "loop"
    /\ UNCHANGED <<lowerVars, connVars, mscan, mprojs, mproj, sigterm, reloadVars, inotifyVars>>

-----------------------------------------------------------------------------
(* main: SIGCHLD, process_manager_process_died. *)

SigChld ==
    /\ mpc = "loop" /\ sigchld > 0
    /\ sigchld' = sigchld - 1
    /\ mpc' = "chld"
    /\ mscan' = Rows
    /\ UNCHANGED <<os, fd, program_shutdown, exited, dbVars, queueVars, managerVars, connVars,
                   mprojs, mproj, sigterm, reloadVars, inotifyVars>>

(* Mutant: it leaves the init list to the initialising threads. *)
ProbeOnlyActive(p) ==
    /\ mpc = "chld" /\ rpc[Main] = "no" /\ p \in mscan
    /\ mscan' = mscan \ {p}
    /\ IF Exists(p) \/ plist[p] = "init" THEN UNCHANGED restartVars
                                         ELSE CallRestart(Main, p)
    /\ UNCHANGED <<kernelVars, dbVars, queueVars, starterVars, initVars, connVars,
                   mpc, mprojs, mproj, sigterm, reloadVars, inotifyVars>>

(* kill(pid, 0) on one process of the snapshot; restart it if it is gone. *)
ProbeProcess(p) ==
    /\ mpc = "chld" /\ rpc[Main] = "no" /\ p \in mscan
    /\ mscan' = mscan \ {p}
    /\ IF Exists(p) THEN UNCHANGED restartVars
                    ELSE CallRestart(Main, p)
    /\ UNCHANGED <<kernelVars, dbVars, queueVars, starterVars, initVars, connVars,
                   mpc, mprojs, mproj, sigterm, reloadVars, inotifyVars>>

ProbesDone ==
    /\ mpc = "chld" /\ rpc[Main] = "no" /\ mscan = {}
    /\ mpc' = "loop"
    /\ UNCHANGED <<lowerVars, connVars, mscan, mprojs, mproj, sigterm, reloadVars, inotifyVars>>

-----------------------------------------------------------------------------
(* main: the termination signal. *)

MainStep(from, to) == mpc = from /\ mpc' = to

(* set_program_shutdown(1), and the names of all projects. *)
SigTerm ==
    /\ sigterm
    /\ MainStep("loop", "shutdown")
    /\ sigterm' = FALSE
    /\ program_shutdown' = TRUE
    /\ mprojs' = projects
    /\ UNCHANGED <<os, fd, sigchld, exited, dbVars, queueVars, managerVars, connVars, mscan,
                   mproj, reloadVars, inotifyVars>>

(* The kernel drops the watch, and queues an IN_IGNORED event, when no other *)
(* project shares the directory. A new watch on it gets another descriptor,  *)
(* under which the table does not find the file events still in the queue.   *)
qgis_inotify_delete_watch(pr) ==
    LET d == watchd[pr]
        drop == d # NoDir /\ ~WatchShared(pr)
    IN  /\ watchd' = [watchd EXCEPT ![pr] = NoDir]
        /\ ignored' = IF drop THEN ignored \cup {d} ELSE ignored
        /\ events' = IF drop THEN {q \in events : WatchDir[q] # d} ELSE events

(* project_manager_shutdown_project, for SIGTERM, or for a section that was  *)
(* deleted or changed. Only main writes the watch column, so deleting the    *)
(* watch and the first move are one step.                                    *)
ShutdownProject(pr) ==
    /\ \/ mpc = "shutdown" /\ pr \in mprojs
       \/ mpc = "hup" /\ pr \in sectiondelete
       \/ mpc = "hup" /\ sectiondelete = {} /\ pr \in sectionchange
    /\ mpc' = "notify1"
    /\ mproj' = pr
    /\ mprojs' = mprojs \ {pr}
    /\ qgis_inotify_delete_watch(pr)
    /\ db_move_all_process_from_init_to_shutdown_list(pr)
    /\ UNCHANGED <<kernelVars, projects, nr_crashs, queueVars, managerVars,
                   connVars, mscan, sigterm, reloadVars, npc, nproj, changes>>

ActiveToShutdown ==
    /\ MainStep("act2sd", "notify2")
    /\ db_move_all_process_from_active_to_shutdown_list(mproj)
    /\ UNCHANGED <<kernelVars, projectVars, queueVars, managerVars, connVars, mscan, mprojs,
                   mproj, sigterm, reloadVars, inotifyVars>>

NotifyMoved ==
    /\ MainStep("notify1", "act2sd") \/ MainStep("notify2", "rmproj")
    /\ qgis_shutdown_notify_changes
    /\ UNCHANGED <<kernelVars, dbVars, managerVars, connVars, mscan, mprojs, mproj, sigterm,
                   reloadVars, inotifyVars>>

(* Mutant: a changed project is shut down like a deleted one. *)
RemoveProjectOnly ==
    /\ mpc = "rmproj"
    /\ db_remove_project(mproj)
    /\ mpc' = IF mproj \in sectionchange \cup sectiondelete THEN "hup" ELSE "shutdown"
    /\ mproj' = NoProject
    /\ sectiondelete' = sectiondelete \ {mproj}
    /\ sectionchange' = sectionchange \ {mproj}
    /\ UNCHANGED <<kernelVars, processVars, queueVars, managerVars, connVars, mscan, mprojs,
                   sigterm, config, sectionnew, reloads, inotifyVars>>

(* A changed project starts anew. *)
RemoveProject ==
    /\ mpc = "rmproj"
    /\ db_remove_project(mproj)
    /\ mpc' = IF mproj \in sectionchange THEN "restart"
              ELSE IF mproj \in sectiondelete THEN "hup" ELSE "shutdown"
    /\ mproj' = IF mproj \in sectionchange THEN mproj ELSE NoProject
    /\ sectiondelete' = sectiondelete \ {mproj}
    /\ UNCHANGED <<kernelVars, processVars, queueVars, managerVars, connVars, mscan, mprojs,
                   sigterm, config, sectionnew, sectionchange, reloads, inotifyVars>>

(* qgis_shutdown_wait_empty() asks the shutdown thread to finish, *)
WaitEmpty ==
    /\ mprojs = {}
    /\ MainStep("shutdown", "join")
    /\ qgis_shutdown_wait_empty
    /\ UNCHANGED <<kernelVars, dbVars, managerVars, connVars, mscan, mprojs, mproj, sigterm,
                   reloadVars, inotifyVars>>

(* and qgis_inotify_delete() joins the inotify thread. *)
JoinInotify ==
    /\ npc = "ended"
    /\ MainStep("join", "loop")
    /\ UNCHANGED <<lowerVars, connVars, mscan, mprojs, mproj, sigterm, reloadVars, inotifyVars>>

(* The is_shutdown record: join the shutdown thread and exit. *)
Exit ==
    /\ mpc = "loop" /\ spc = "done"
    /\ exited' = "success"
    /\ UNCHANGED <<os, fd, sigchld, program_shutdown, dbVars, queueVars, managerVars, connVars,
                   mainVars, inotifyVars>>

-----------------------------------------------------------------------------
(* main: SIGHUP. The record is read from the pipe like any other, also while *)
(* the shutdown list drains after SIGTERM.                                   *)

SigHup(new) ==
    /\ reloads < MaxReloads
    /\ MainStep("loop", "hup")
    /\ config_load(new)
    /\ mprojs' = Sections(new) \ (sectionnew' \cup sectionchange' \cup sectiondelete')
    /\ reloads' = reloads + 1
    /\ UNCHANGED <<lowerVars, connVars, mscan, mproj, sigterm, inotifyVars>>

(* The second half of project_manager_restart_project. *)
RestartProject ==
    /\ MainStep("restart", "hup")
    /\ project_manager_start_project(mproj)
    /\ sectionchange' = sectionchange \ {mproj}
    /\ mproj' = NoProject
    /\ UNCHANGED <<os, fd, sigchld, program_shutdown, processVars, queueVars, initVars,
                   restartVars, connVars, mscan, mprojs, sigterm, config, sectionnew,
                   sectiondelete, reloads, inotifyVars>>

(* A project in none of the lists may need more processes than it has. *)
FillProject(pr) ==
    /\ mpc = "hup" /\ ListsDone /\ pr \in mprojs
    /\ LET num == db_get_num_start_init_idle_process(pr)
       IN  IF num < MinProc[pr]
             THEN process_manager_start_new_process_detached(MinProc[pr] - num, pr, FALSE)
             ELSE UNCHANGED starterVars
    /\ mprojs' = mprojs \ {pr}
    /\ UNCHANGED <<kernelVars, dbVars, queueVars, initVars, restartVars, connVars, mpc, mscan,
                   mproj, sigterm, reloadVars, inotifyVars>>

HupDone ==
    /\ ListsDone /\ mprojs = {}
    /\ MainStep("hup", "loop")
    /\ UNCHANGED <<lowerVars, connVars, mscan, mprojs, mproj, sigterm, reloadVars, inotifyVars>>

-----------------------------------------------------------------------------
(* The inotify thread. *)

(* db_get_projects_for_watchd_and_config: the projects whose file the table  *)
(* still lists under a watch.                                                *)
WatchedProjects == {pr \in projects : watchd[pr] # NoDir}

(* IN_CLOSE_WRITE or IN_MOVED_TO for the config file of pr. The projects to  *)
(* restart are the ones the table still lists with that watch;               *)
(* project_manager_projectname_configfile_changed first forgets failures.    *)
ReadConfigEvent(pr) ==
    /\ npc = "read" /\ pr \in events /\ WatchDir[pr] \notin ignored
    /\ events' = events \ {pr}
    /\ IF pr \in WatchedProjects
         THEN /\ db_reset_startup_failures(pr)
              /\ npc' = "count" /\ nproj' = pr
         ELSE UNCHANGED <<projectVars, npc, nproj>>
    /\ UNCHANGED <<kernelVars, processVars, queueVars, managerVars, connVars, mainVars,
                   ignored, changes>>

(* project_manager_restart_processes *)
RestartProcesses ==
    /\ npc = "count"
    /\ LET busy == db_get_num_active_process(nproj)
           num == IF busy > MinProc[nproj] THEN busy ELSE MinProc[nproj]
       IN  process_manager_start_new_process_detached(num, nproj, TRUE)
    /\ npc' = "read" /\ nproj' = NoProject
    /\ UNCHANGED <<kernelVars, dbVars, queueVars, initVars, restartVars, connVars, mainVars,
                   events, ignored, changes>>

(* IN_IGNORED: the watch is gone. The thread ends if the daemon stops. *)
ReadIgnored(d) ==
    /\ npc = "read" /\ d \in ignored
    /\ ignored' = ignored \ {d}
    /\ npc' = IF program_shutdown THEN "ended" ELSE npc
    /\ UNCHANGED <<lowerVars, connVars, mainVars, nproj, events, changes>>

-----------------------------------------------------------------------------
(* The outside world. *)

(* Somebody writes the config file of pr while the kernel watches it. *)
ConfigWritten(pr) ==
    /\ changes < MaxConfigChanges
    /\ watchd[pr] # NoDir /\ pr \notin events
    /\ events' = events \cup {pr}
    /\ changes' = changes + 1
    /\ UNCHANGED <<lowerVars, connVars, mainVars, npc, nproj, ignored>>

(* A termination signal arrives; main restores the default handlers after    *)
(* the first one.                                                            *)
TermArrives ==
    /\ TermAllowed /\ ~sigterm /\ ~program_shutdown
    /\ sigterm' = TRUE
    /\ UNCHANGED <<lowerVars, connVars, mpc, mscan, mprojs, mproj, reloadVars, inotifyVars>>

(* main accepts only while the daemon is not stopping. *)
AcceptConnection(h) ==
    /\ mpc = "loop" /\ ~program_shutdown
    /\ Accept(h)
    /\ UNCHANGED <<mainVars, inotifyVars>>

-----------------------------------------------------------------------------
(* The threads, each the alternatives of its actions. exit() ends every      *)
(* thread at once. The frames say what a step of a lower module leaves alone. *)

Running == exited = "no"
QueueStep == Running /\ UNCHANGED <<managerVars, connVars, mainVars, inotifyVars>>
ManagerStep == Running /\ UNCHANGED <<connVars, mainVars, inotifyVars>>
ConnStep == Running /\ UNCHANGED <<mainVars, inotifyVars>>

ShutdownThread ==
    \/ BeginScan /\ QueueStep
    \/ \E p \in Pid : CheckProcess(p) /\ QueueStep
    \/ WeedOut /\ QueueStep
    \/ Decide /\ QueueStep
    \/ WaitTimesOut /\ QueueStep
    \/ WakeUp /\ QueueStep
    \/ DrainCheck /\ QueueStep

StarterThread(s) ==
    \/ StartCheck(s) /\ ManagerStep
    \/ \E p \in Pid : StartNewChild(s, p) /\ ManagerStep
    \/ StartNothing(s) /\ ManagerStep
    \/ ExchangeProcesses(s) /\ ManagerStep
    \/ ExchangeNotify(s) /\ ManagerStep
    \/ ExchangeReset(s) /\ ManagerStep
    \/ Activate(s) /\ ManagerStep
    \/ ActivateNotify(s) /\ ManagerStep

(* A restart_process() call is part of the thread that makes it. *)
RestartProcess(a) ==
    \/ RestartStart(a) /\ ManagerStep
    \/ AddProcessMove(a) /\ ManagerStep
    \/ AddProcessAssertFails(a) /\ ManagerStep
    \/ AddProcessNotify(a) /\ ManagerStep

InitThread(p) ==
    \/ AddProcess(p) /\ ManagerStep
    \/ ConnectInit(p) /\ ManagerStep
    \/ InitEndsDaemon(p) /\ ManagerStep
    \/ InitDone(p) /\ ManagerStep
    \/ ReadTimesOut(p) /\ ManagerStep
    \/ DiedDuringInit(p) /\ ManagerStep
    \/ InitSetIdle(p) /\ ConnStep

ConnectionThread(h) ==
    \/ CountProcesses(h) /\ ConnStep
    \/ NoProjectFound(h) /\ ConnStep
    \/ RetriesOver(h) /\ ConnStep
    \/ TakeProcess(h) /\ ConnStep
    \/ IdleTimesOut(h) /\ ConnStep
    \/ RecheckProcess(h) /\ ConnStep
    \/ ConnectChild(h) /\ ConnStep
    \/ ConnectFails(h) /\ ConnStep
    \/ ConnRestarted(h) /\ ConnStep
    \/ SocketFails(h) /\ ConnStep
    \/ ConnSetIdle(h) /\ ConnStep
    \/ EndConnection(h) /\ ConnStep

(* main's thread without accept(): it is fair, clients may stop coming. *)
MainThread ==
    \/ \E pr \in Project : StartProject(pr) /\ Running
    \/ StartupDone /\ Running
    \/ SigChld /\ Running
    \/ \E p \in Pid : ProbeProcess(p) /\ Running
    \/ ProbesDone /\ Running
    \/ SigTerm /\ Running
    \/ \E pr \in Project : ShutdownProject(pr) /\ Running
    \/ ActiveToShutdown /\ Running
    \/ NotifyMoved /\ Running
    \/ RemoveProject /\ Running
    \/ RestartProject /\ Running
    \/ \E pr \in Project : FillProject(pr) /\ Running
    \/ HupDone /\ Running
    \/ WaitEmpty /\ Running
    \/ JoinInotify /\ Running
    \/ Exit /\ Running

InotifyThread ==
    \/ \E pr \in Project : ReadConfigEvent(pr) /\ Running
    \/ RestartProcesses /\ Running
    \/ \E d \in Dir : ReadIgnored(d) /\ Running

Environment ==
    \/ \E p \in Pid : Die(p) /\ UNCHANGED <<dbVars, queueVars>> /\ QueueStep
    \/ \E p \in Pid : TimeoutPasses(p) /\ QueueStep
    \/ SpuriousWakeup /\ QueueStep
    \/ \E h \in Conn : IdleSpuriousWakeup(h) /\ ConnStep
    \/ \E h \in Conn : RelayEnds(h) /\ ConnStep
    \/ \E h \in Conn : ConnEndsDaemon(h) /\ ConnStep
    \/ \E h \in Conn : AcceptConnection(h) /\ Running
    \/ \E h \in Conn, pr \in Project \cup {NoProject} : ChooseProject(h, pr) /\ ConnStep
    \/ \E new \in ConfigFiles : SigHup(new) /\ Running
    \/ \E pr \in Project : ConfigWritten(pr) /\ Running
    \/ TermArrives /\ Running

Terminated == ~Running /\ UNCHANGED vars

Next ==
    \/ ShutdownThread
    \/ \E s \in Starter : StarterThread(s)
    \/ \E a \in Actor : RestartProcess(a)
    \/ \E p \in Pid : InitThread(p)
    \/ \E h \in Conn : ConnectionThread(h)
    \/ MainThread
    \/ InotifyThread
    \/ Environment
    \/ Terminated

Spec == Init /\ [][Next]_vars
=============================================================================
