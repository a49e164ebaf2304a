---------------------------- MODULE ShutdownQueue ----------------------------
(* qgis_shutdown_queue.c: the shutdown thread and the three calls that talk  *)
(* to it. The thread scans the shutdown list, signals each process, removes  *)
(* the rows of the ones that are gone, and sleeps on shutdowncondition.      *)
(*                                                                          *)
(* Steps are cut at critical sections, and merged where nothing can tell the *)
(* difference. Only this thread reads and writes signal times, so the UPDATE *)
(* of a row's state and of its time are one step, and the least signal time  *)
(* is read where it is used. A scanned row is in the shutdown list, where    *)
(* others at most overwrite its state, so looking at it, sending the signal  *)
(* and recording that are one step.                                          *)
EXTENDS Database

VARIABLES spc,                \* where the shutdown thread is
          sscan,              \* pidlist: what is left of the scan's snapshot
          expired,            \* rows whose signal time + timeout has passed
          has_list_change,
          do_shutdown_thread

queueVars == <<spc, sscan, expired, has_list_change, do_shutdown_thread>>

(* "sleep": pthread_cond_wait. "short": timedwait of 0.2 seconds. "timed":   *)
(* timedwait until the least signal time plus the timeout.                   *)
Sleeping == {"sleep", "short", "timed"}
SpcLabel == {"scan", "check", "decide", "woken", "drained", "done"} \cup Sleeping

QueueTypeOK ==
    /\ spc \in SpcLabel
    /\ sscan \subseteq Pid
    /\ expired \subseteq Pid
    /\ has_list_change \in BOOLEAN
    /\ do_shutdown_thread \in BOOLEAN

QueueInit ==
    /\ spc = "scan"
    /\ sscan = {} /\ expired = {}
    /\ has_list_change = FALSE
    /\ do_shutdown_thread = FALSE

-----------------------------------------------------------------------------
(* The calls of the other threads, each one section under shutdownmutex.     *)

(* pthread_cond_signal(&shutdowncondition) *)
SignalQueue == spc' = IF spc \in Sleeping THEN "woken" ELSE spc

(* Mutant: it signals without setting has_list_change. *)
NotifyQuietly ==
    /\ SignalQueue
    /\ UNCHANGED <<sscan, expired, has_list_change, do_shutdown_thread>>

qgis_shutdown_notify_changes ==
    /\ has_list_change' = TRUE
    /\ SignalQueue
    /\ UNCHANGED <<sscan, expired, do_shutdown_thread>>

(* Mutant: it sets the flag without waking the thread. *)
WaitEmptyQuietly ==
    /\ do_shutdown_thread' = TRUE
    /\ UNCHANGED <<spc, sscan, expired, has_list_change>>

qgis_shutdown_wait_empty ==
    /\ do_shutdown_thread' = TRUE
    /\ SignalQueue
    /\ UNCHANGED <<sscan, expired, has_list_change>>

-----------------------------------------------------------------------------
(* The thread. *)

(* Read the clock and take the snapshot of the shutdown list. *)
BeginScan ==
    /\ spc = "scan"
    /\ spc' = "check"
    /\ sscan' = InList("shutdown")
    /\ UNCHANGED <<kernelVars, dbVars, expired, has_list_change, do_shutdown_thread>>

(* Mutant: an unanswered SIGTERM counts as the end of the process. *)
VerdictImpatient(p) ==
    CASE pstate[p] \in {"START", "INIT", "IDLE", "BUSY"} -> IF Exists(p) THEN "TERM" ELSE "EXIT"
      [] pstate[p] \in {"TERM", "KILL"} /\ p \in expired -> "EXIT"
      [] OTHER -> "unchanged"

(* Mutant: there is no SIGKILL after the timeout. *)
VerdictPatient(p) ==
    CASE pstate[p] \in {"START", "INIT", "IDLE", "BUSY"} -> IF Exists(p) THEN "TERM" ELSE "EXIT"
      [] pstate[p] = "TERM" /\ p \in expired /\ ~Exists(p) -> "EXIT"
      [] OTHER -> "unchanged"

(* What the switch over the row's state decides for p: the state it gets. *)
Verdict(p) ==
    CASE pstate[p] \in {"START", "INIT", "IDLE", "BUSY"} -> IF Exists(p) THEN "TERM" ELSE "EXIT"
      [] pstate[p] = "TERM" /\ p \in expired -> IF Exists(p) THEN "KILL" ELSE "EXIT"
      [] pstate[p] = "KILL" /\ p \in expired -> "EXIT"
      [] OTHER -> "unchanged"

(* Not its turn yet, or a dead row that WeedOut deletes. *)
PassProcess(p) ==
    /\ Verdict(p) = "unchanged"
    /\ UNCHANGED <<os, fd, pstate, psig, expired>>

(* Send the signal, note it in the state and restart the signal time. *)
SignalProcess(p) ==
    /\ Verdict(p) \in {"TERM", "KILL"}
    /\ os' = IF Verdict(p) = "TERM" THEN AfterTerm(p) ELSE AfterKill(p)
    /\ pstate' = [pstate EXCEPT ![p] = Verdict(p)]
    /\ \E t \in ClockReadings : psig' = [psig EXCEPT ![p] = t]
    /\ expired' = expired \ {p}
    /\ UNCHANGED fd

(* Close the listening socket of a process that is gone, or given up. *)
process_manager_cleanup_process(p) ==
    /\ Verdict(p) = "EXIT"
    /\ fd' = [fd EXCEPT ![p] = "closed"]
    /\ pstate' = [pstate EXCEPT ![p] = "EXIT"]
    /\ UNCHANGED <<os, psig, expired>>

(* One process of the snapshot; only this thread deletes rows. *)
CheckProcess(p) ==
    /\ spc = "check" /\ p \in sscan
    /\ sscan' = sscan \ {p}
    /\ PassProcess(p) \/ SignalProcess(p) \/ process_manager_cleanup_process(p)
    /\ UNCHANGED <<sigchld, program_shutdown, exited, plist, pproj, projectVars, spc,
                   has_list_change, do_shutdown_thread>>

(* The scan is over: delete the dead rows. *)
WeedOut ==
    /\ spc = "check" /\ sscan = {}
    /\ db_remove_process_with_state_exit
    /\ expired' = expired \ ExitRows
    /\ spc' = "decide"
    /\ UNCHANGED <<kernelVars, projectVars, sscan, has_list_change, do_shutdown_thread>>

AfterWait == IF do_shutdown_thread THEN "drained" ELSE "scan"

(* How long to wait: until the least signal time plus the timeout, or a      *)
(* fifth of a second during shutdown, or for a signal only.                  *)
WaitMode == CASE ~MinSignalTimerEmpty -> "timed"
              [] MinSignalTimerEmpty /\ do_shutdown_thread -> "short"
              [] MinSignalTimerEmpty /\ ~do_shutdown_thread -> "sleep"

(* Mutant: it waits whether or not has_list_change is set. *)
DecideDeaf ==
    /\ spc = "decide"
    /\ spc' = WaitMode
    /\ has_list_change' = FALSE
    /\ UNCHANGED <<kernelVars, dbVars, sscan, expired, do_shutdown_thread>>

(* Under shutdownmutex: wait, unless somebody announced a change meanwhile. *)
Decide ==
    /\ spc = "decide"
    /\ IF has_list_change
         THEN spc' = AfterWait
         ELSE spc' = WaitMode
    /\ has_list_change' = FALSE
    /\ UNCHANGED <<kernelVars, dbVars, sscan, expired, do_shutdown_thread>>

(* pthread_cond_timedwait returns ETIMEDOUT: after 0.2 seconds, or when the  *)
(* least signal time that the query can see has run out.                     *)
WaitTimesOut ==
    /\ \/ spc = "short"
       \/ spc = "timed" /\ \E p \in expired \cap Rows : psig[p] = "time"
    /\ spc' = "woken"
    /\ UNCHANGED <<kernelVars, dbVars, sscan, expired, has_list_change, do_shutdown_thread>>

(* POSIX lets a wait return without a signal. *)
SpuriousWakeup ==
    /\ spc \in Sleeping
    /\ spc' = "woken"
    /\ UNCHANGED <<kernelVars, dbVars, sscan, expired, has_list_change, do_shutdown_thread>>

(* The wait returns with the mutex: clear the flag, copy do_shutdown_thread. *)
WakeUp ==
    /\ spc = "woken"
    /\ has_list_change' = FALSE
    /\ spc' = AfterWait
    /\ UNCHANGED <<kernelVars, dbVars, sscan, expired, do_shutdown_thread>>

(* Mutant: it leaves after its next scan. *)
DrainCheckOnce ==
    /\ spc = "drained"
    /\ spc' = "done"
    /\ UNCHANGED <<kernelVars, dbVars, sscan, expired, has_list_change, do_shutdown_thread>>

(* Shutting down: leave once the shutdown list is empty. Leaving writes the  *)
(* is_shutdown record to the signal pipe; spc = "done" stands for it.        *)
DrainCheck ==
    /\ spc = "drained"
    /\ spc' = IF NoShutdownProcesses THEN "done" ELSE "scan"
    /\ UNCHANGED <<kernelVars, dbVars, sscan, expired, has_list_change, do_shutdown_thread>>

(* Time passes: the timeout of a signalled process runs out. A scan judges    *)
(* by the clock it read at its start, so what runs out later waits for the    *)
(* next scan.                                                                 *)
TimeoutPasses(p) ==
    /\ p \in Rows /\ psig[p] # "zero" /\ p \notin expired
    /\ p \notin sscan
    /\ expired' = expired \cup {p}
    /\ UNCHANGED <<kernelVars, dbVars, spc, sscan, has_list_change, do_shutdown_thread>>
=============================================================================
