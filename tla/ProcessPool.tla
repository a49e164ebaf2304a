----------------------------- MODULE ProcessPool -----------------------------
(* What the scheduler promises about its child processes, without saying how:*)
(* no threads, no lists, no states, no notifications. A child is forked,     *)
(* serves one connection at a time, is retired, told to end only once it is  *)
(* retired, and forgotten only once it has ended. Module Scheduler is shown  *)
(* to implement this specification. It does not promise that an exchange is  *)
(* one step ("atomically move the old processes to shutdown list and new     *)
(* processes to active list", project_manager.c): the code retires the old   *)
(* children in one critical section and lets the new ones join in another,   *)
(* and so do Retire and Join.                                                *)
CONSTANTS Pid, NoPid, Conn

VARIABLES life,   \* of each child: what the scheduler did to it and what became of it
          stage,  \* of each child: what the scheduler uses it for
          user    \* of each connection: the child it has to itself

poolVars == <<life, stage, user>>

Init ==
    /\ life = [p \in Pid |-> "none"]
    /\ stage = [p \in Pid |-> "none"]
    /\ user = [h \in Conn |-> NoPid]

(* The processes of S move on to another stage. *)
Stage(S, to) == stage' = [p \in Pid |-> IF p \in S THEN to ELSE stage[p]]
At(stages) == {p \in Pid : stage[p] \in stages}

Fork(p) ==
    /\ stage[p] = "none"
    /\ life' = [life EXCEPT ![p] = "running"]
    /\ Stage({p}, "starting")
    /\ UNCHANGED user

(* Children join the pool, those of a project together. *)
Join(S) ==
    /\ S \subseteq At({"starting"})
    /\ Stage(S, "serving")
    /\ UNCHANGED <<life, user>>

(* A connection without a child gets one nobody else has. *)
Lend(h, p) ==
    /\ stage[p] = "serving"
    /\ user[h] = NoPid /\ \A g \in Conn : user[g] # p
    /\ user' = [user EXCEPT ![h] = p]
    /\ UNCHANGED <<life, stage>>

GiveBack(h) ==
    /\ user' = [user EXCEPT ![h] = NoPid]
    /\ UNCHANGED <<life, stage>>

(* Children get no more requests; a connection may still have them. *)
Retire(S) ==
    /\ S \subseteq At({"starting", "serving"})
    /\ Stage(S, "retiring")
    /\ UNCHANGED <<life, user>>

Tell(p) ==
    /\ life[p] = "running" /\ stage[p] = "retiring"
    /\ life' = [life EXCEPT ![p] = "told"]
    /\ UNCHANGED <<stage, user>>

(* A child ends by itself, or after it was told to, or it is killed. *)
End(p) ==
    /\ life[p] \in {"running", "told"}
    /\ life' = [life EXCEPT ![p] = "ended"]
    /\ UNCHANGED <<stage, user>>

Forget(S) ==
    /\ S \subseteq At({"retiring"}) /\ \A p \in S : life[p] = "ended"
    /\ Stage(S, "gone")
    /\ UNCHANGED <<life, user>>

Next ==
    \/ \E p \in Pid : Fork(p) \/ Tell(p) \/ End(p)
    \/ \E S \in SUBSET Pid : Join(S) \/ Retire(S) \/ Forget(S)
    \/ \E h \in Conn : GiveBack(h) \/ \E p \in Pid : Lend(h, p)

Spec == Init /\ [][Next]_poolVars

-----------------------------------------------------------------------------
(* What follows for whoever uses the pool: a child works for one connection, *)
(* which got it in service; one that was told to end is neither in service   *)
(* nor forgotten before it has ended; and the children forgotten have ended. *)
Promise ==
    /\ \A h, g \in Conn : user[h] # NoPid /\ user[h] = user[g] => h = g
    /\ \A h \in Conn : user[h] # NoPid => stage[user[h]] \notin {"none", "starting"}
    /\ \A p \in Pid : life[p] = "told" => stage[p] = "retiring"
    /\ \A p \in Pid : stage[p] = "gone" => life[p] = "ended"
    /\ \A p \in Pid : life[p] = "none" <=> stage[p] = "none"
=============================================================================
