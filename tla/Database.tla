------------------------------ MODULE Database ------------------------------
(* database.c: the in-memory SQLite tables. Every db_* function is one      *)
(* critical section under db_mutex_lock, so each operator below is (part    *)
(* of) one atomic step. An UPDATE ... WHERE pid = x changes nothing when    *)
(* there is no such row; the list "none" stands for "no row".               *)
EXTENDS Kernel

CONSTANTS Project,        \* the project names of the configuration
          NoProject,      \* NULL
          Dir, NoDir,     \* inotify watch descriptors, and the column default 0
          ClockReadings   \* shapes a clock reading may have, see SignalTime

ASSUME NoProjectAssumption == NoProject \notin Project
ASSUME NoDirAssumption == NoDir \notin Dir

(* A stored signal time is the default {0,0}, a time with a fractional part, *)
(* or a time that fell on a whole second (tv_nsec = 0).                      *)
SignalTime == {"zero", "time", "wholesec"}
ASSUME ClockAssumption == /\ ClockReadings \subseteq SignalTime \ {"zero"}
                          /\ ClockReadings # {}

VARIABLES plist,     \* processes.list
          pstate,    \* processes.state
          pproj,     \* processes.projectname
          psig,      \* processes.signaltime_sec, signaltime_nsec
          projects,  \* the rows of table projects
          watchd,    \* projects.watchd
          nr_crashs  \* projects.nr_crashs

processVars == <<plist, pstate, pproj, psig>>
projectVars == <<projects, watchd, nr_crashs>>
dbVars == <<processVars, projectVars>>

List == {"none", "init", "active", "shutdown"}
State == {"START", "INIT", "IDLE", "BUSY", "TERM", "KILL", "EXIT"}

DatabaseTypeOK ==
    /\ plist \in [Pid -> List]
    /\ pstate \in [Pid -> State]
    /\ pproj \in [Pid -> Project \cup {NoProject}]
    /\ psig \in [Pid -> SignalTime]
    /\ projects \subseteq Project
    /\ watchd \in [Project -> Dir \cup {NoDir}]
    /\ nr_crashs \in [Project -> Nat]

DatabaseInit ==
    /\ plist = [p \in Pid |-> "none"]
    /\ pstate = [p \in Pid |-> "START"]
    /\ pproj = [p \in Pid |-> NoProject]
    /\ psig = [p \in Pid |-> "zero"]
    /\ projects = {}
    /\ watchd = [pr \in Project |-> NoDir]
    /\ nr_crashs = [pr \in Project |-> 0]

Rows == {p \in Pid : plist[p] # "none"}
InList(l) == {p \in Pid : plist[p] = l}

-----------------------------------------------------------------------------
(* Queries. *)

(* SELECT pid ... WHERE projectname AND list = ACTIVE AND state = IDLE LIMIT 1: *)
(* any of these pids.                                                           *)
IdleProcesses(pr) ==
    {p \in InList("active") : pproj[p] = pr /\ pstate[p] = "IDLE"}

db_get_num_start_init_idle_process(pr) ==
    Cardinality({p \in Rows : pproj[p] = pr /\ pstate[p] \in {"START", "INIT", "IDLE"}})

(* Counts the busy processes, of every list. *)
db_get_num_active_process(pr) ==
    Cardinality({p \in Rows : pproj[p] = pr /\ pstate[p] = "BUSY"})

(* db_get_process_socket finds a descriptor, and it is still open. The model *)
(* has one descriptor per child: that the number of a closed one, which the  *)
(* row keeps, may be reused, or closed again after IDLE was written over     *)
(* EXIT, is not in it.                                                       *)
HasSocket(p) == p \in Rows /\ fd[p] = "open"

(* db_get_process_list and db_get_project_for_this_process: p has a row, and *)
(* nobody retired it yet.                                                    *)
InService(p) == plist[p] \in {"init", "active"}

(* db_get_num_shutdown_processes() is 0. *)
NoShutdownProcesses == InList("shutdown") = {}

(* Mutant: every project shares a watch with itself. *)
WatchSharedByAny(pr) == \E q \in projects : watchd[q] = watchd[pr]

(* Another project has the same watch descriptor. *)
WatchShared(pr) == \E q \in projects \ {pr} : watchd[q] = watchd[pr]

(* Mutant: it asks for the processes that wait for their SIGKILL only. *)
MinSignalTimerOfTerm == \A p \in Rows : pstate[p] = "TERM" => psig[p] # "time"

(* The query of db_shutdown_get_min_signaltimer finds no row: it asks for    *)
(* signaltime_sec != 0 AND signaltime_nsec != 0.                             *)
MinSignalTimerEmpty == \A p \in Rows : psig[p] # "time"

-----------------------------------------------------------------------------
(* Updates of table processes. *)

db_add_process(pr, p) ==
    /\ plist' = [plist EXCEPT ![p] = "init"]
    /\ pstate' = [pstate EXCEPT ![p] = "START"]
    /\ pproj' = [pproj EXCEPT ![p] = pr]
    /\ psig' = [psig EXCEPT ![p] = "zero"]

db_process_set_state(p, s) ==
    /\ pstate' = [pstate EXCEPT ![p] = IF p \in Rows THEN s ELSE @]
    /\ UNCHANGED <<plist, pproj>>

db_move_process_to_list(l, p) ==
    /\ plist' = [plist EXCEPT ![p] = IF p \in Rows THEN l ELSE @]
    /\ UNCHANGED <<pstate, pproj, psig>>

(* UPDATE processes SET list = to WHERE projectname = pr AND list = from *)
MoveProjectList(pr, from, to) ==
    /\ plist' = [p \in Pid |-> IF plist[p] = from /\ pproj[p] = pr THEN to ELSE plist[p]]
    /\ UNCHANGED <<pstate, pproj, psig>>

(* Mutant: it forgets list = INIT in its WHERE clause. *)
MoveAllToActive(pr) ==
    /\ plist' = [p \in Pid |-> IF p \in Rows /\ pproj[p] = pr THEN "active" ELSE plist[p]]
    /\ UNCHANGED <<pstate, pproj, psig>>

(* Despite its name it moves the processes of every state. *)
db_move_all_idle_process_from_init_to_active_list(pr) ==
    MoveProjectList(pr, "init", "active")
db_move_all_process_from_active_to_shutdown_list(pr) ==
    MoveProjectList(pr, "active", "shutdown")
db_move_all_process_from_init_to_shutdown_list(pr) ==
    MoveProjectList(pr, "init", "shutdown")

ExitRows == {p \in Rows : pstate[p] = "EXIT"}

(* DELETE FROM processes WHERE state = EXIT *)
db_remove_process_with_state_exit ==
    /\ plist' = [p \in Pid |-> IF p \in ExitRows THEN "none" ELSE plist[p]]
    /\ pstate' = [p \in Pid |-> IF p \in ExitRows THEN "START" ELSE pstate[p]]
    /\ psig' = [p \in Pid |-> IF p \in ExitRows THEN "zero" ELSE psig[p]]
    /\ UNCHANGED pproj

-----------------------------------------------------------------------------
(* Updates of table projects; an UPDATE of a missing row changes nothing. *)

db_add_project(pr) ==
    /\ projects' = projects \cup {pr}
    /\ nr_crashs' = [nr_crashs EXCEPT ![pr] = 0]

db_remove_project(pr) ==
    /\ projects' = projects \ {pr}
    /\ nr_crashs' = [nr_crashs EXCEPT ![pr] = 0]
    /\ watchd' = [watchd EXCEPT ![pr] = NoDir]

db_inc_startup_failures(pr) ==
    /\ nr_crashs' = [nr_crashs EXCEPT ![pr] = IF pr \in projects THEN @ + 1 ELSE @]
    /\ UNCHANGED <<projects, watchd>>

db_reset_startup_failures(pr) ==
    /\ nr_crashs' = [nr_crashs EXCEPT ![pr] = 0]
    /\ UNCHANGED <<projects, watchd>>
=============================================================================
