--------------------------- MODULE ProcessManager ---------------------------
(* process_manager.c: the threads that start children, the thread that       *)
(* initialises each child, and process_manager_restart_process(), which the  *)
(* initialising threads, the connection threads and main all call.           *)
EXTENDS ShutdownQueue

CONSTANTS Starter,      \* slots for process_manager_start_new_process_* threads
          NoStarter,
          Conn,         \* slots for connection threads
          Main,         \* the main thread
          MinProc,      \* config: min_proc of each project
          WithCommand,  \* the projects whose configuration names a process
          max_nr_process_crashes

ASSUME ActorAssumption ==
    /\ NoStarter \notin Starter
    /\ Conn \cap Pid = {} /\ Main \notin Pid \cup Conn
ASSUME MinProcAssumption == MinProc \in [Project -> Nat]
ASSUME CrashAssumption == max_nr_process_crashes \in Nat

VARIABLES tpc, tproj, tnum, texch,  \* starter threads and their arguments
          ipc,                      \* the thread initialising each child
          owner,                    \* the starter that joins that thread
          rpc, rpid                 \* restart_process() calls, by calling thread

starterVars == <<tpc, tproj, tnum, texch>>
initVars == <<ipc, owner>>
restartVars == <<rpc, rpid>>
managerVars == <<starterVars, initVars, restartVars>>

(* A child's initialising thread calls restart_process() under the child's   *)
(* own name.                                                                 *)
Actor == Pid \cup Conn \cup {Main}

TpcLabel == {"free", "check", "spawn", "xnotify", "xreset", "activate", "anotify"}
(* "overlooked" is "ended" for a thread that found a dead child without       *)
(* replacing it: the code goes on alike, only properties tell them apart.     *)
IpcLabel == {"none", "add", "connect", "read", "readdead", "setidle", "crash", "ended",
             "overlooked"}
RpcLabel == {"no", "list", "move", "moveassert", "notify"}

ManagerTypeOK ==
    /\ tpc \in [Starter -> TpcLabel]
    /\ tproj \in [Starter -> Project \cup {NoProject}]
    /\ tnum \in [Starter -> Nat]
    /\ texch \in [Starter -> BOOLEAN]
    /\ ipc \in [Pid -> IpcLabel]
    /\ owner \in [Pid -> Starter \cup {NoStarter}]
    /\ rpc \in [Actor -> RpcLabel]
    /\ rpid \in [Actor -> Pid \cup {NoPid}]

ManagerInit ==
    /\ tpc = [s \in Starter |-> "free"]
    /\ tproj = [s \in Starter |-> NoProject]
    /\ tnum = [s \in Starter |-> 0]
    /\ texch = [s \in Starter |-> FALSE]
    /\ ipc = [p \in Pid |-> "none"]
    /\ owner = [p \in Pid |-> NoStarter]
    /\ rpc = [a \in Actor |-> "no"]
    /\ rpid = [a \in Actor |-> NoPid]

-----------------------------------------------------------------------------
(* Starting processes. *)

FreeStarters == {s \in Starter : tpc[s] = "free"}

(* Create the thread that runs start_new_process_wait(num, pr, exchange).    *)
(* Bound: a thread created while all slots are taken is never scheduled.     *)
process_manager_start_new_process_detached(num, pr, exchange) ==
    \/ /\ FreeStarters = {}
       /\ UNCHANGED starterVars
    \/ \E s \in FreeStarters :
         /\ tpc' = [tpc EXCEPT ![s] = "check"]
         /\ tproj' = [tproj EXCEPT ![s] = pr]
         /\ tnum' = [tnum EXCEPT ![s] = num]
         /\ texch' = [texch EXCEPT ![s] = exchange]

EndStarter(s) ==
    /\ tpc' = [tpc EXCEPT ![s] = "free"]
    /\ tproj' = [tproj EXCEPT ![s] = NoProject]
    /\ tnum' = [tnum EXCEPT ![s] = 0]
    /\ texch' = [texch EXCEPT ![s] = FALSE]

(* assert(num > 0), and a row of table projects to look up, or else qexit(). *)
StarterGoesOn(s) == tnum[s] > 0 /\ tproj[s] \in projects

(* Give up after too many startup failures.                                  *)
StartCheck(s) ==
    /\ tpc[s] = "check"
    /\ \/ /\ ~StarterGoesOn(s)
          /\ exited' = "failure"
          /\ UNCHANGED starterVars
       \/ /\ StarterGoesOn(s)
          /\ max_nr_process_crashes > nr_crashs[tproj[s]] + 1
          /\ tpc' = [tpc EXCEPT ![s] = "spawn"]
          /\ UNCHANGED <<exited, tproj, tnum, texch>>
       \/ /\ StarterGoesOn(s)
          /\ ~(max_nr_process_crashes > nr_crashs[tproj[s]] + 1)
          /\ EndStarter(s)
          /\ UNCHANGED exited
    /\ UNCHANGED <<os, fd, sigchld, program_shutdown, dbVars, queueVars, initVars,
                   restartVars>>

(* One of the num threads binds a listening socket and forks. *)
StartNewChild(s, p) ==
    /\ tpc[s] = "spawn" /\ tnum[s] > 0
    /\ tproj[s] \in WithCommand
    /\ Forked(p)
    /\ tnum' = [tnum EXCEPT ![s] = @ - 1]
    /\ ipc' = [ipc EXCEPT ![p] = "add"]
    /\ owner' = [owner EXCEPT ![p] = s]
    /\ UNCHANGED <<sigchld, program_shutdown, exited, dbVars, queueVars, tpc, tproj, texch,
                   restartVars>>

(* No process path configured: the thread ends without a child. *)
StartNothing(s) ==
    /\ tpc[s] = "spawn" /\ tnum[s] > 0
    /\ tproj[s] \notin WithCommand
    /\ tnum' = [tnum EXCEPT ![s] = @ - 1]
    /\ UNCHANGED <<kernelVars, dbVars, queueVars, tpc, tproj, texch, initVars, restartVars>>

(* All pthread_join() calls have returned. *)
Joined(s) == /\ tpc[s] = "spawn" /\ tnum[s] = 0
             /\ \A p \in Pid : owner[p] = s => ipc[p] \in {"ended", "overlooked"}

Disown(s) == owner' = [p \in Pid |-> IF owner[p] = s THEN NoStarter ELSE owner[p]]

(* do_exchange_processes: the old processes go to the shutdown list. *)
ExchangeProcesses(s) ==
    /\ Joined(s) /\ texch[s]
    /\ db_move_all_process_from_active_to_shutdown_list(tproj[s])
    /\ tpc' = [tpc EXCEPT ![s] = "xnotify"]
    /\ Disown(s)
    /\ UNCHANGED <<kernelVars, projectVars, queueVars, tproj, tnum, texch, ipc, restartVars>>

ExchangeNotify(s) ==
    /\ tpc[s] = "xnotify"
    /\ qgis_shutdown_notify_changes
    /\ tpc' = [tpc EXCEPT ![s] = "xreset"]
    /\ UNCHANGED <<kernelVars, dbVars, tproj, tnum, texch, initVars, restartVars>>

ExchangeReset(s) ==
    /\ tpc[s] = "xreset"
    /\ db_reset_startup_failures(tproj[s])
    /\ tpc' = [tpc EXCEPT ![s] = "activate"]
    /\ UNCHANGED <<kernelVars, processVars, queueVars, tproj, tnum, texch, initVars,
                   restartVars>>

(* The new processes go to the active list, with whatever else of the        *)
(* project is in the init list; then the thread ends.                        *)
Activate(s) ==
    /\ tpc[s] = "activate" \/ (Joined(s) /\ ~texch[s])
    /\ db_move_all_idle_process_from_init_to_active_list(tproj[s])
    /\ tpc' = [tpc EXCEPT ![s] = "anotify"]
    /\ Disown(s)
    /\ UNCHANGED <<kernelVars, projectVars, queueVars, tproj, tnum, texch, ipc, restartVars>>

(* Mutant: the thread ends without announcing the change. *)
ActivateQuietly(s) ==
    /\ tpc[s] = "anotify"
    /\ EndStarter(s)
    /\ UNCHANGED <<kernelVars, dbVars, queueVars, initVars, restartVars>>

ActivateNotify(s) ==
    /\ tpc[s] = "anotify"
    /\ qgis_shutdown_notify_changes
    /\ EndStarter(s)
    /\ UNCHANGED <<kernelVars, dbVars, initVars, restartVars>>

-----------------------------------------------------------------------------
(* process_manager_restart_process(pid), called by thread a.                 *)

(* The caller goes on when rpc[a] is "no" again. *)
CallRestart(a, p) ==
    /\ rpc' = [rpc EXCEPT ![a] = "list"]
    /\ rpid' = [rpid EXCEPT ![a] = p]

RestartStays == UNCHANGED <<os, fd, sigchld, program_shutdown, projectVars, initVars>>

(* Start a replacement unless the daemon stops, or p is retired already, or  *)
(* it has no row and thereby no project name. The flag and the list only     *)
(* move one way, so reading them in one step loses no outcome.               *)
StartReplacement(p) ==
    IF program_shutdown \/ ~InService(p)
      THEN UNCHANGED starterVars
      ELSE process_manager_start_new_process_detached(1, pproj[p], FALSE)

RestartStart(a) ==
    /\ rpc[a] = "list"
    /\ StartReplacement(rpid[a])
    /\ rpc' = [rpc EXCEPT ![a] = IF program_shutdown THEN "move" ELSE "moveassert"]
    /\ RestartStays /\ UNCHANGED <<exited, processVars, queueVars, rpid>>

(* Mutant: only a row of the active list is moved. *)
AddProcessMoveActive(a) ==
    /\ rpc[a] \in {"move", "moveassert"}
    /\ plist' = [plist EXCEPT ![rpid[a]] = IF @ = "active" THEN "shutdown" ELSE @]
    /\ rpc' = [rpc EXCEPT ![a] = "notify"]
    /\ RestartStays /\ UNCHANGED <<exited, pstate, pproj, psig, queueVars, starterVars, rpid>>

(* qgis_shutdown_add_process moves the row ... *)
AddProcessMove(a) ==
    /\ rpc[a] \in {"move", "moveassert"}
    /\ db_move_process_to_list("shutdown", rpid[a])
    /\ rpc' = [rpc EXCEPT ![a] = "notify"]
    /\ RestartStays /\ UNCHANGED <<exited, queueVars, starterVars, rpid>>

(* ... unless it read program_shutdown before main set it and                *)
(* do_shutdown_thread after main set that: assert(!do_shutdown_thread).      *)
AddProcessAssertFails(a) ==
    /\ rpc[a] = "moveassert" /\ do_shutdown_thread
    /\ exited' = "failure"
    /\ RestartStays /\ UNCHANGED <<processVars, queueVars, starterVars, restartVars>>

(* Then it wakes the shutdown thread. *)
AddProcessNotify(a) ==
    /\ rpc[a] = "notify"
    /\ qgis_shutdown_notify_changes
    /\ rpc' = [rpc EXCEPT ![a] = "no"]
    /\ rpid' = [rpid EXCEPT ![a] = NoPid]
    /\ RestartStays /\ UNCHANGED <<exited, processVars, starterVars>>

-----------------------------------------------------------------------------
(* The thread that initialises child p. States START and INIT mean the same  *)
(* to every reader, so writing INIT and connecting are one step; a process   *)
(* that is gone stays gone, so probing it and noting the failure are one.    *)

InitStep(p, from, to) == ipc[p] = from /\ ipc' = [ipc EXCEPT ![p] = to]

(* The parent of fork() inserts the row. *)
AddProcess(p) ==
    /\ InitStep(p, "add", "connect")
    /\ db_add_process(tproj[owner[p]], p)
    /\ UNCHANGED <<kernelVars, projectVars, queueVars, starterVars, owner, restartVars>>

(* Look up the listening socket, connect to it and write the request. The    *)
(* parent keeps the listening socket open, so connecting to a child that has *)
(* died succeeds as well. Any call on the way may fail.                      *)
ConnectInit(p) ==
    /\ db_process_set_state(p, "INIT")
    /\ \/ /\ HasSocket(p)
          /\ InitStep(p, "connect", IF Exists(p) THEN "read" ELSE "readdead")
          /\ UNCHANGED restartVars
       \/ /\ InitStep(p, "connect", "crash")
          /\ CallRestart(p, p)
    /\ UNCHANGED <<kernelVars, psig, projectVars, queueVars, starterVars, owner>>

(* The encoder's buffer is too small or one of its assertions fails          *)
(* (qexit, abort), or a child that has closed its end makes write() raise    *)
(* SIGPIPE: the daemon ends.                                                 *)
InitEndsDaemon(p) ==
    /\ ipc[p] = "connect"
    /\ exited' = "failure"
    /\ UNCHANGED <<os, fd, sigchld, program_shutdown, dbVars, queueVars, managerVars>>

(* Read until the stream ends. The loop ends on every error of read_timeout, *)
(* and only a timeout counts as a crash. A child that was dead when the      *)
(* thread connected ("readdead") never answers: without a timeout the read   *)
(* fails only when the cleanup closes the listening socket, or when poll()   *)
(* is interrupted by a signal that the kernel delivers to this thread        *)
(* (EINTR; no thread blocks SIGCHLD or SIGHUP), which may happen any time.   *)
ReadDone(p) == ipc[p] \in {"read", "readdead"}

(* kill(pid, 0) finds the child, whether or not its answer was complete.     *)
InitDone(p) ==
    /\ ReadDone(p) /\ Exists(p)
    /\ ipc' = [ipc EXCEPT ![p] = "setidle"]
    /\ UNCHANGED <<kernelVars, dbVars, queueVars, starterVars, owner, restartVars>>

ReadTimesOut(p) ==
    /\ InitStep(p, "read", "crash") \/ InitStep(p, "readdead", "crash")
    /\ CallRestart(p, p)
    /\ UNCHANGED <<kernelVars, dbVars, queueVars, starterVars, owner>>

(* process_manager_process_died_during_init, after restart_process() or when *)
(* kill(pid, 0) does not find the child: in the latter case it counts the    *)
(* failure, and leaves the row where it is. The thread then closes its side  *)
(* of the connection.                                                        *)
DiedDuringInit(p) ==
    /\ (ReadDone(p) /\ ~Exists(p)) \/ (ipc[p] = "crash" /\ rpc[p] = "no")
    /\ ipc' = [ipc EXCEPT ![p] = IF @ = "readdead" THEN "overlooked" ELSE "ended"]
    /\ IF program_shutdown THEN UNCHANGED projectVars
                           ELSE db_inc_startup_failures(tproj[owner[p]])
    /\ UNCHANGED <<kernelVars, processVars, queueVars, starterVars, owner, restartVars>>

(* The thread's last step, db_process_set_state_idle(p), wakes a waiting     *)
(* connection thread: InitSetIdle of module ConnectionManager.               *)
=============================================================================
