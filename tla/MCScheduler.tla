----------------------------- MODULE MCScheduler -----------------------------
(* Instances of the daemon for TLC. *)
EXTENDS SchedulerProperties, TLC

MCMinOne == [pr \in Project |-> 1]
MCAll == [pr \in Project |-> CHOOSE v \in Setting : TRUE]
MCFirst == [pr \in Project |-> IF pr = CHOOSE q \in Project : TRUE
                                 THEN CHOOSE v \in Setting : TRUE ELSE NoSection]
MCWatched == [pr \in Project |-> CHOOSE d \in Dir : TRUE]
MCUnwatched == [pr \in Project |-> NoDir]

(* Children are alike as far as they may crash alike. *)
Symmetry == Permutations(Crashing) \cup Permutations(Pid \ Crashing)
              \cup Permutations(Starter) \cup Permutations(Conn)
=============================================================================
