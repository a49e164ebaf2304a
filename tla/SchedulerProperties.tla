------------------------- MODULE SchedulerProperties -------------------------
(* What the daemon promises about its processes, stated over module          *)
(* Scheduler, and the fairness under which its liveness is judged.           *)
EXTENDS Scheduler

(* Type invariant of all components. *)
TypeOK ==
    /\ KernelTypeOK /\ DatabaseTypeOK /\ ConfigTypeOK /\ QueueTypeOK
    /\ ManagerTypeOK /\ ConnTypeOK /\ SchedulerTypeOK

-----------------------------------------------------------------------------
(* Safety. *)

(* The threads that talk to process p, or are about to: the thread that      *)
(* initialises it and the connection threads that took it.                   *)
Users(p) == {h \in Conn : hpid[h] = p}
InitUser(p) == ipc[p] \in {"add", "connect", "read", "readdead", "setidle"}

(* A process works for one thread at a time: a connection never takes a      *)
(* process that is still being initialised, and two connections never share  *)
(* one (db_get_next_idle_process_for_busy_work, connection_manager.c), even  *)
(* though a state may be written late and the lists are moved by others.     *)
ExclusiveUse ==
    \A p \in Pid : /\ \A h, g \in Users(p) : h = g
                   /\ InitUser(p) => Users(p) = {}

(* A process that got SIGTERM or SIGKILL from the shutdown thread is out of  *)
(* reach of new requests for good: its row is in the shutdown list or gone,  *)
(* whichever thread moves rows between the lists at the time.                *)
SignalledIsRetired ==
    \A p \in Pid : os[p] \in {"termed", "killed"} => plist[p] \in {"shutdown", "none"}

(* Some thread has moved rows to the shutdown list and is about to call      *)
(* pthread_cond_signal, or has just announced the change.                    *)
NotifyPending ==
    \/ has_list_change
    \/ \E a \in Actor : rpc[a] = "notify"
    \/ \E s \in Starter : tpc[s] = "xnotify"
    \/ mpc \in {"notify1", "notify2"}

(* The shutdown thread never goes to sleep without a timeout over a process  *)
(* in the shutdown list that it has not looked after, dead or alive:         *)
(* has_list_change covers what is added between the snapshot and             *)
(* pthread_cond_wait. A live process got its signal (on a whole second, or   *)
(* the wait would have a timeout), and the listening socket of one that was  *)
(* dead at the time is closed.                                               *)
NoForgottenProcess ==
    spc = "sleep" /\ ~NotifyPending =>
        \A p \in InList("shutdown") :
            /\ os[p] # "alive"
            /\ fd[p] = "closed" \/ psig[p] = "wholesec"

(* The death of a child is noticed: while the row of a dead process is in     *)
(* service, its SIGCHLD is still unread, or main has it in the snapshot it   *)
(* probes (process_manager_process_died), or some thread is about to retire  *)
(* it, or its initialising thread is about to find out. No order of fork,    *)
(* death, SIGCHLD and db_add_process leaves a gap but one: a child that was  *)
(* dead before its row was inserted is overlooked if a signal interrupts the *)
(* poll() of its initialising thread.                                        *)
DeathNoticed ==
    \A p \in Pid : os[p] = "dead" /\ InService(p) /\ ipc[p] # "overlooked" =>
        \/ sigchld > 0
        \/ mpc = "chld" /\ p \in mscan
        \/ \E a \in Actor : rpc[a] \in {"list", "move", "moveassert"} /\ rpid[a] = p
        \/ ipc[p] \in {"connect", "readdead"}

(* A child that a thread found faulty is out of service for good when        *)
(* process_manager_restart_process returns to that thread: neither a starter *)
(* that activates what is in the init list at the same time, nor a second    *)
(* thread that restarts the same child, brings it back before the retry.     *)
FaultyChildRetired ==
    /\ \A p \in Pid : ipc[p] = "crash" /\ rpc[p] = "no" => ~InService(p)
    /\ \A h \in Conn : hpc[h] = "restart" /\ rpc[h] = "no" => ~InService(hpid[h])

(* The shutdown thread never sleeps without a timeout over a process that it *)
(* signalled and whose row it still keeps, so that no SIGKILL and no cleanup *)
(* is forgotten; except for a signal sent on a whole second, which           *)
(* db_shutdown_get_min_signaltimer ("signaltime_nsec != 0") does not see.    *)
KillNotForgotten ==
    spc = "sleep" => \A p \in Rows : os[p] \in {"termed", "killed"} => psig[p] = "wholesec"

(* Once main waits for the shutdown list to drain the shutdown thread does   *)
(* not sleep without a timeout, although nobody is left to signal it; and    *)
(* when it waits for the timeout of a process, that process still has a row. *)
DrainGoesOn ==
    /\ do_shutdown_thread => spc # "sleep"
    /\ spc = "timed" => \E p \in Rows : psig[p] = "time"

(* qgis_inotify_delete joins a thread that ends only after an IN_IGNORED     *)
(* event: if a config file is watched, that event is queued or was read by   *)
(* the time main joins, although projects that share a directory share its   *)
(* watch and reloads came before.                                            *)
JoinReturns ==
    mpc = "join" /\ (\E pr \in Sections(config) : WatchDir[pr] # NoDir)
        => npc = "ended" \/ ignored # {}

(* main exits normally only after a SIGTERM, and after the shutdown module   *)
(* "has closed all its processes" (qgis-schedulerd.c): no process that got a *)
(* SIGTERM is left running, whatever the other threads add to the lists      *)
(* between the last look at the shutdown list and exit().                    *)
ExitAfterDrain ==
    exited = "success" => program_shutdown /\ \A p \in Pid : os[p] # "termed"

(* A client is answered exactly once. When its thread ends, the request was  *)
(* carried to a child until one side closed the connection, or the client    *)
(* was sent one FCGI_END_REQUEST: never none, even if the attempts run out   *)
(* while children fail, and never a second one, although the retry macros    *)
(* send the message and go back to the loop head. Only a session that had a  *)
(* child may be "cut" without a word, by an error on the client's own socket *)
(* (connection_manager.c:711-726) or by a signal (782-788).                  *)
AnsweredOnce ==
    \A h \in Conn : /\ hpc[h] = "closed" => hans[h] \in {"abort", "relayed", "cut"}
                    /\ hans[h] # "aborts"

(* As long as there was neither SIGTERM nor SIGHUP, every starter thread     *)
(* finds the row of its project in table projects, whoever created it: main  *)
(* at startup, a connection for a request, the inotify thread, or whoever    *)
(* replaces a dead child. process_manager_start_new_process_wait ends the    *)
(* daemon for one that does not (process_manager.c:695); a thread that       *)
(* crosses with the removal of its project does get there.                   *)
StarterFindsProject ==
    ~program_shutdown /\ reloads = 0 => \A s \in Starter : tpc[s] = "check" => tproj[s] \in projects

(* Back in its loop after SIGHUP, main has acted upon every section: the     *)
(* table lists the projects of the configuration, whatever was added,        *)
(* changed or deleted (qgis-schedulerd.man: "Projekts which have been        *)
(* removed from the config files will be shut down [...], projekts which     *)
(* have been created in the config files get started"). Broken when one      *)
(* reload adds or deletes more than one section.                             *)
ReloadApplied == mpc = "loop" /\ ~program_shutdown => projects = Sections(config)

(* The row of a process goes away only when the process is gone or SIGKILL   *)
(* has been sent to it: the scheduler never loses track of a process it did  *)
(* not end.                                                                  *)
RowRemovedOnlyWhenGone ==
    [][\A p \in Pid : plist[p] # "none" /\ plist'[p] = "none" => os[p] \in {"killed", "dead"}]_vars

(* The life cycle of database.h: init list, active list, shutdown list, no   *)
(* row. No step moves a process back.                                        *)
ListRank == [init |-> 1, active |-> 2, shutdown |-> 3, none |-> 4]
ListsForwardOnly ==
    [][\A p \in Pid : plist[p] # "none" => ListRank[plist[p]] <= ListRank[plist'[p]]]_vars

-----------------------------------------------------------------------------
(* Refinement. *)

(* What the abstract pool sees of a child: a process that got SIGKILL counts *)
(* as ended, and one that was forked is starting before it has a row.        *)
LifeOf == [none |-> "none", alive |-> "running", termed |-> "told",
           killed |-> "ended", dead |-> "ended"]
StageOf == [init |-> "starting", active |-> "serving", shutdown |-> "retiring"]
RowlessStage(p) == IF ipc[p] = "none" THEN "none"
                   ELSE IF ipc[p] = "add" THEN "starting" ELSE "gone"

poolLife == [p \in Pid |-> LifeOf[os[p]]]
poolStage == [p \in Pid |-> IF plist[p] = "none" THEN RowlessStage(p) ELSE StageOf[plist[p]]]

Pool == INSTANCE ProcessPool WITH life <- poolLife, stage <- poolStage, user <- hpid

(* The daemon implements the pool: whatever its threads do at the same time, *)
(* each step is one of the pool's or none. A process is lent to one client   *)
(* at a time and only while it serves, signalled only when retired, and its  *)
(* row is deleted only when it has ended.                                    *)
ImplementsPool == Pool!Spec

-----------------------------------------------------------------------------
(* What the comments of the repository promise and the code does not keep.   *)

(* connection_manager.c answers overload with the words "Found no idle       *)
(* processes ... All busy": a client that waited is refused only if no       *)
(* process of its project idles in the active list. Broken: a process that   *)
(* reaches the active list is not announced to the waiting threads.          *)
OverloadOnlyWhenBusy ==
    [][\A h \in Conn : hpc[h] \in {"wait", "recheck"} /\ hpc'[h] = "count"
                          => IdleProcesses(hproj[h]) = {}]_vars

(* process_manager.c, behind the read of the initialising thread: "if the    *)
(* child process died during the initialization we need to figure this out.  *)
(* there may be a race condition between the signal handler and this thread  *)
(* so we test the existence of the child process after the read". A child    *)
(* that the test finds dead is retired like any other dead child, or main    *)
(* still has its SIGCHLD. Broken: the test only counts the failure.          *)
NoDeathOverlooked ==
    \A p \in Pid : ipc[p] = "overlooked" /\ InService(p) => sigchld > 0 \/ mpc = "chld"

(* qgis-schedulerd.c on SIGTERM: "kill all child processes". When the daemon *)
(* has exited normally no child runs that never got a signal. Broken: a      *)
(* starter thread forks after the lists were emptied.                        *)
NoOrphans == exited = "success" => \A p \in Pid : os[p] # "alive"

-----------------------------------------------------------------------------
(* Liveness. Threads are scheduled fairly and time passes (strongly fair:  *)
(* the shutdown thread may be in a scan whenever a timeout ends; the         *)
(* clock runs on). Nothing forces a child to die, a relay to end, a client   *)
(* to come or a config file to change.                                       *)

FairThreads ==
    /\ WF_vars(ShutdownThread)
    /\ \A p \in Pid : SF_vars(TimeoutPasses(p) /\ QueueStep)
    /\ \A s \in Starter : WF_vars(StarterThread(s))
    /\ \A a \in Actor : WF_vars(RestartProcess(a))
    /\ \A p \in Pid : WF_vars(InitThread(p))
    /\ \A h \in Conn : WF_vars(ConnectionThread(h))
    /\ WF_vars(MainThread)
    /\ WF_vars(InotifyThread)

FairSpec == Spec /\ FairThreads

(* A child that died is noticed: its row leaves the lists from which         *)
(* requests are served, even if it died before its row was inserted and its  *)
(* SIGCHLD was handled too early to see it. Here, too, a signal that         *)
(* interrupts the initialising thread is the one exception.                  *)
DeadIsNoticed ==
    \A p \in Pid : (os[p] = "dead" /\ InService(p))
                     ~> (~InService(p) \/ ipc[p] = "overlooked" \/ ~Running)

(* The row of a dead process is removed, and with it its listening socket    *)
(* and its pid: even if the process dies while its initialising thread is    *)
(* about to write IDLE over the EXIT of the shutdown thread. The starter     *)
(* that joins that thread announces a change and so causes another scan.     *)
(* A connection thread that does the same announces nothing: without         *)
(* connections (Conn = {}) this holds, with them the row of a dead process   *)
(* may stay, its socket closed (NoForgottenProcess), until another scan.     *)
DeadRowRemoved ==
    \A p \in Pid : (plist[p] = "shutdown" /\ os[p] = "dead") ~> (plist[p] = "none" \/ ~Running)

(* A process on the shutdown list ends, whatever it does with its SIGTERM:   *)
(* no notification of the shutdown thread is lost, and "If the process has   *)
(* been signalled 10 seconds ago then send a SIGKILL signal"                 *)
(* (qgis_shutdown_queue.c). This fails when ClockReadings has "wholesec": a  *)
(* SIGTERM sent on a whole second is invisible to the query for the next     *)
(* timeout, and the shutdown thread sleeps without one.                      *)
RetiredEnds ==
    \A p \in Pid : plist[p] = "shutdown" ~> (os[p] \in {"killed", "dead"} \/ ~Running)

(* A SIGTERM ends the daemon if a config file is watched: the shutdown list  *)
(* drains whatever the children do with their signals, the inotify thread    *)
(* ends and main leaves its loop.                                            *)
TermExits == program_shutdown ~> ~Running

(* The same promise (qgis-schedulerd.c: "wait for the shutdown module so it  *)
(* has closed all its processes. Then clean up") for a configuration without *)
(* watched files. Broken: the inotify thread only ends after an IN_IGNORED   *)
(* event, which never comes, and main waits for it in pthread_join.          *)
TermExitsUnwatched == (\A pr \in Project : WatchDir[pr] = NoDir) => TermExits
=============================================================================
