------------------------------- MODULE Kernel -------------------------------
(* The facts the scheduler shares with the operating system, and the two    *)
(* process-wide variables every thread reads.                               *)
(*                                                                          *)
(* The kernel is outside the repository: processes, descriptors and signals *)
(* are modelled from the system calls the code makes (fork, kill, close,    *)
(* sigaction with SA_NOCLDWAIT). A child that dies is reaped at once, so    *)
(* kill(pid, 0) on it answers ESRCH. A pid is never handed out twice: the   *)
(* model has as many forks as it has pids.                                  *)
EXTENDS Integers, FiniteSets

CONSTANTS Pid,          \* the pids fork() may return, one per fork
          NoPid,        \* "no pid", the -1 of the code
          Crashing      \* bound: the children that may end without a signal

ASSUME PidAssumption == IsFiniteSet(Pid) /\ NoPid \notin Pid /\ Crashing \subseteq Pid

VARIABLES os,               \* what the kernel knows of each child
          fd,               \* the listening socket the parent keeps per child
          sigchld,          \* SIGCHLD records waiting in the signal pipe
          program_shutdown, \* qgis_config.c: set once, by the SIGTERM handler
          exited            \* "no", or the status qexit() was called with

kernelVars == <<os, fd, sigchld, program_shutdown, exited>>

OsState == {"none", "alive", "termed", "killed", "dead"}

KernelTypeOK ==
    /\ os \in [Pid -> OsState]
    /\ fd \in [Pid -> {"none", "open", "closed"}]
    /\ sigchld \in Nat
    /\ program_shutdown \in BOOLEAN
    /\ exited \in {"no", "success", "failure"}

KernelInit ==
    /\ os = [p \in Pid |-> "none"]
    /\ fd = [p \in Pid |-> "none"]
    /\ sigchld = 0
    /\ program_shutdown = FALSE
    /\ exited = "no"

(* kill(p, sig) succeeds, with any signal; otherwise errno is ESRCH. *)
Exists(p) == os[p] \in {"alive", "termed", "killed"}

(* What kill(p, SIGTERM) and kill(p, SIGKILL) leave behind. A child may take *)
(* its time to die of either: the model keeps only that it was sent.         *)
AfterTerm(p) == [os EXCEPT ![p] = IF @ = "alive" THEN "termed" ELSE @]
AfterKill(p) == [os EXCEPT ![p] = "killed"]

(* fork() in a thread whose listening socket is already bound. *)
Forked(p) == /\ os[p] = "none"
             /\ os' = [os EXCEPT ![p] = "alive"]
             /\ fd' = [fd EXCEPT ![p] = "open"]

(* A child ends, by itself or because of a signal. Its SIGCHLD adds a record *)
(* to the pipe, unless it merges with one that is still pending.             *)
Die(p) ==
    /\ Exists(p) /\ (os[p] = "alive" => p \in Crashing)
    /\ os' = [os EXCEPT ![p] = "dead"]
    /\ \/ sigchld' = sigchld + 1
       \/ sigchld > 0 /\ sigchld' = sigchld
    /\ UNCHANGED <<fd, program_shutdown, exited>>
=============================================================================
