-------------------------- MODULE ConnectionManager --------------------------
(* connection_manager.c: one thread per client connection, up to the relay   *)
(* (modules FcgiSession and Relay say what it reads and relays); and the     *)
(* idle_process condition of database.c on which it waits for a process.     *)
EXTENDS ProcessManager, Configuration

CONSTANT MAX_CHILD_COMMUNICATION_RETRY

ASSUME RetryAssumption == MAX_CHILD_COMMUNICATION_RETRY \in Nat \ {0}

VARIABLES hpc,    \* where each connection thread is
          hproj,  \* request_project_name
          hpid,   \* mypid
          hret,   \* child_connect_retries
          hans    \* what the client has got: nothing, an abort, a second one,
                  \* the relay, or a relay cut short without a word

connVars == <<hpc, hproj, hpid, hret, hans>>

HpcLabel == {"free", "read", "count", "take", "wait", "recheck", "connect", "restart",
             "serve", "setidle", "closed"}

Answer == {"none", "abort", "aborts", "relayed", "cut"}

ConnTypeOK ==
    /\ hpc \in [Conn -> HpcLabel]
    /\ hproj \in [Conn -> Project \cup {NoProject}]
    /\ hpid \in [Conn -> Pid \cup {NoPid}]
    /\ hret \in [Conn -> 0..MAX_CHILD_COMMUNICATION_RETRY]
    /\ hans \in [Conn -> Answer]

ConnInit ==
    /\ hpc = [h \in Conn |-> "free"]
    /\ hproj = [h \in Conn |-> NoProject]
    /\ hpid = [h \in Conn |-> NoPid]
    /\ hret = [h \in Conn |-> 0]
    /\ hans = [h \in Conn |-> "none"]

lowerVars == <<kernelVars, dbVars, queueVars, managerVars>>

-----------------------------------------------------------------------------
(* pthread_cond_signal(&idle_process_condition): one of the waiting threads, *)
(* whatever its project. f holds the program counters without the signal.    *)
Waiting == {h \in Conn : hpc[h] = "wait"}
IdleSignalled(f) == IF Waiting = {} THEN {f}
                    ELSE {[f EXCEPT ![h] = "recheck"] : h \in Waiting}

(* db_process_set_state_idle at the end of a child's initialisation. *)
InitSetIdle(p) ==
    /\ InitStep(p, "setidle", "ended")
    /\ db_process_set_state(p, "IDLE")
    /\ hpc' \in IdleSignalled(hpc)
    /\ UNCHANGED <<kernelVars, psig, projectVars, queueVars, starterVars, owner, restartVars,
                   hproj, hpid, hret, hans>>

-----------------------------------------------------------------------------
(* main accepted a connection, *)
Accept(h) ==
    /\ hpc[h] = "free"
    /\ hpc' = [hpc EXCEPT ![h] = "read"]
    /\ UNCHANGED <<lowerVars, hproj, hpid, hret, hans>>

(* Mutant: the project named in the request need not be configured. *)
ChooseAnyProject(h, pr) ==
    /\ hpc[h] = "read"
    /\ hpc' = [hpc EXCEPT ![h] = "count"]
    /\ hproj' = [hproj EXCEPT ![h] = pr]
    /\ UNCHANGED <<lowerVars, hpid, hret, hans>>

(* and its thread has read the request: it is for a project pr of the        *)
(* configuration, or for none. See module FcgiSession for the reading, and   *)
(* ConnEndsDaemon for the requests that the daemon does not survive.         *)
ChooseProject(h, pr) ==
    /\ hpc[h] = "read"
    /\ pr \in Sections(config) \cup {NoProject}
    /\ hpc' = [hpc EXCEPT ![h] = "count"]
    /\ hproj' = [hproj EXCEPT ![h] = pr]
    /\ UNCHANGED <<lowerVars, hpid, hret, hans>>

(* Reading or parsing the request, an expression that does not compile, the  *)
(* begin record that is not in the first chunk, connecting, poll(), or       *)
(* SIGPIPE at a peer that is gone, be it for an abort: an assertion, a       *)
(* qexit() or the signal ends the daemon. Modules FcgiSession and Relay tell *)
(* these cases apart.                                                        *)
ConnEndsDaemon(h) ==
    /\ hpc[h] \notin {"free", "take", "setidle", "closed"}
    /\ exited' = "failure"
    /\ UNCHANGED <<os, fd, sigchld, program_shutdown, dbVars, queueVars, managerVars, connVars>>

(* Mutant: one attempt too many. *)
RetriesLeftOnceMore(h) == MAX_CHILD_COMMUNICATION_RETRY >= hret[h]

(* The loop head "while (MAX_CHILD_COMMUNICATION_RETRY >                     *)
(* child_connect_retries++)"; the counter's last increment, in the test that *)
(* ends the loop, is left out.                                               *)
RetriesLeft(h) == MAX_CHILD_COMMUNICATION_RETRY > hret[h]

RetriesOver(h) ==
    /\ hpc[h] = "count" /\ ~RetriesLeft(h)
    /\ hpc' = [hpc EXCEPT ![h] = "closed"]
    /\ UNCHANGED <<lowerVars, hproj, hpid, hret, hans>>

(* One more attempt: start a process if too few are starting or idle. *)
CountProcesses(h) ==
    /\ hpc[h] = "count" /\ RetriesLeft(h) /\ hproj[h] # NoProject
    /\ hret' = [hret EXCEPT ![h] = @ + 1]
    /\ IF db_get_num_start_init_idle_process(hproj[h]) < MinProc[hproj[h]]
         THEN process_manager_start_new_process_detached(1, hproj[h], FALSE)
         ELSE UNCHANGED starterVars
    /\ hpc' = [hpc EXCEPT ![h] = "take"]
    /\ UNCHANGED <<kernelVars, dbVars, queueVars, initVars, restartVars, hproj, hpid, hans>>

(* One more FCGI_END_REQUEST. *)
send_fcgi_abort_to_web_client(h) ==
    hans' = [hans EXCEPT ![h] = IF @ = "none" THEN "abort" ELSE "aborts"]

(* No process: send an abort, and use up the attempts                        *)
(* (FAULTY_NET_CLIENT_STOP).                                                 *)
Abort(h) ==
    /\ send_fcgi_abort_to_web_client(h)
    /\ hret' = [hret EXCEPT ![h] = MAX_CHILD_COMMUNICATION_RETRY]
    /\ hpc' = [hpc EXCEPT ![h] = "count"]

NoProjectFound(h) ==
    /\ hpc[h] = "count" /\ RetriesLeft(h) /\ hproj[h] = NoProject
    /\ Abort(h)
    /\ UNCHANGED <<lowerVars, hproj, hpid>>

(* Mutant: the state BUSY is not written. *)
TakeIdleUnmarked(h) ==
    \E p \in IdleProcesses(hproj[h]) :
        /\ hpid' = [hpid EXCEPT ![h] = p]
        /\ hpc' = [hpc EXCEPT ![h] = "connect"]
        /\ UNCHANGED <<lowerVars, hproj, hret, hans>>

(* An idle process of the active list becomes BUSY and belongs to h. *)
TakeIdle(h) ==
    \E p \in IdleProcesses(hproj[h]) :
        /\ db_process_set_state(p, "BUSY")
        /\ hpid' = [hpid EXCEPT ![h] = p]
        /\ hpc' = [hpc EXCEPT ![h] = "connect"]
        /\ UNCHANGED <<kernelVars, psig, projectVars, queueVars, managerVars,
                       hproj, hret, hans>>

(* db_get_next_idle_process_for_busy_work: take one, or wait once. *)
TakeProcess(h) ==
    /\ hpc[h] = "take"
    /\ \/ TakeIdle(h)
       \/ /\ IdleProcesses(hproj[h]) = {}
          /\ hpc' = [hpc EXCEPT ![h] = "wait"]
          /\ UNCHANGED <<lowerVars, hproj, hpid, hret, hans>>

(* Five seconds are over: overload. *)
IdleTimesOut(h) ==
    /\ hpc[h] = "wait"
    /\ Abort(h)
    /\ UNCHANGED <<lowerVars, hproj, hpid>>

IdleSpuriousWakeup(h) ==
    /\ hpc[h] = "wait"
    /\ hpc' = [hpc EXCEPT ![h] = "recheck"]
    /\ UNCHANGED <<lowerVars, hproj, hpid, hret, hans>>

(* Woken: look once more, do not wait again. *)
RecheckProcess(h) ==
    /\ hpc[h] = "recheck"
    /\ \/ TakeIdle(h)
       \/ /\ IdleProcesses(hproj[h]) = {}
          /\ Abort(h)
          /\ UNCHANGED <<lowerVars, hproj, hpid>>

(* Mutant: the last attempt ends without the abort message. *)
FaultyChildRetryEarly(h) ==
    /\ hpid' = [hpid EXCEPT ![h] = NoPid]
    /\ hpc' = [hpc EXCEPT ![h] = "count"]
    /\ IF MAX_CHILD_COMMUNICATION_RETRY < hret[h] THEN send_fcgi_abort_to_web_client(h)
                                                  ELSE UNCHANGED hans
    /\ UNCHANGED hret

(* FAULTY_CHILD_RETRY: abort after the last attempt, then to the loop head. *)
FaultyChildRetry(h) ==
    /\ hpid' = [hpid EXCEPT ![h] = NoPid]
    /\ hpc' = [hpc EXCEPT ![h] = "count"]
    /\ IF MAX_CHILD_COMMUNICATION_RETRY <= hret[h] THEN send_fcgi_abort_to_web_client(h)
                                                   ELSE UNCHANGED hans
    /\ UNCHANGED hret

(* Look up the listening socket of the process and connect to it. *)
ConnectChild(h) ==
    /\ hpc[h] = "connect"
    /\ HasSocket(hpid[h])
    /\ hpc' = [hpc EXCEPT ![h] = "serve"]
    /\ UNCHANGED <<lowerVars, hproj, hpid, hret, hans>>

(* No socket in the table, getsockname(), connect() or getsockopt() failed: *)
(* the child is no good, replace it.                                        *)
ConnectFails(h) ==
    /\ hpc[h] = "connect"
    /\ CallRestart(h, hpid[h])
    /\ hpc' = [hpc EXCEPT ![h] = "restart"]
    /\ UNCHANGED <<kernelVars, dbVars, queueVars, starterVars, initVars,
                   hproj, hpid, hret, hans>>

ConnRestarted(h) ==
    /\ hpc[h] = "restart" /\ rpc[h] = "no"
    /\ FaultyChildRetry(h)
    /\ UNCHANGED <<lowerVars, hproj>>

(* socket() fails: another attempt, and the process stays BUSY. *)
SocketFails(h) ==
    /\ hpc[h] = "connect"
    /\ HasSocket(hpid[h])
    /\ FaultyChildRetry(h)
    /\ UNCHANGED <<lowerVars, hproj>>

(* The session ends. "relayed": the child closed the stream or the client    *)
(* went away. "abort": poll() or a socket of the child failed, and the       *)
(* client is told. "cut": getsockopt() failed on the client's socket before  *)
(* anything was sent, or a signal interrupted poll(), and the client is not  *)
(* told. All of them take the same way out.                                  *)
RelayEnds(h) ==
    /\ hpc[h] = "serve"
    /\ hpc' = [hpc EXCEPT ![h] = "setidle"]
    /\ \/ \E end \in {"relayed", "cut"} : hans' = [hans EXCEPT ![h] = end]
       \/ send_fcgi_abort_to_web_client(h)
    /\ UNCHANGED <<lowerVars, hproj, hpid, hret>>

ConnSetIdle(h) ==
    /\ hpc[h] = "setidle"
    /\ db_process_set_state(hpid[h], "IDLE")
    /\ hpc' \in IdleSignalled([hpc EXCEPT ![h] = "closed"])
    /\ hpid' = [hpid EXCEPT ![h] = NoPid]
    /\ UNCHANGED <<kernelVars, psig, projectVars, queueVars, managerVars, hproj, hret, hans>>

EndConnection(h) ==
    /\ hpc[h] = "closed"
    /\ hpc' = [hpc EXCEPT ![h] = "free"]
    /\ hproj' = [hproj EXCEPT ![h] = NoProject]
    /\ hret' = [hret EXCEPT ![h] = 0]
    /\ hans' = [hans EXCEPT ![h] = "none"]
    /\ UNCHANGED <<lowerVars, hpid>>
=============================================================================
