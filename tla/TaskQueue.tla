------------------------------ MODULE TaskQueue ------------------------------
(* What NanoAsyncDispatcher.h promises: tasks accepted before the queue was    *)
(* closed are all run, one after the other, in the order of acceptance; none   *)
(* is accepted afterwards.                                                     *)
EXTENDS Naturals, Sequences, SequencesExt

CONSTANT Tasks   \* the tasks that may be posted, each at most once

VARIABLES accepted,  \* the accepted tasks, in order of acceptance
          begun,     \* how many of them have begun to run
          open       \* whether tasks are still accepted

vars == <<accepted, begun, open>>

Init == accepted = <<>> /\ begun = 0 /\ open = TRUE

Accept ==
    /\ open
    /\ \E t \in Tasks \ ToSet(accepted) : accepted' = Append(accepted, t)
    /\ UNCHANGED <<begun, open>>

Begin ==
    /\ begun < Len(accepted)
    /\ begun' = begun + 1
    /\ UNCHANGED <<accepted, open>>

Close == open /\ open' = FALSE /\ UNCHANGED <<accepted, begun>>

Next == Accept \/ Begin \/ Close

Spec == Init /\ [][Next]_vars

\* Whatever was accepted is begun in the end.
FairSpec == Spec /\ WF_vars(Begin)
=============================================================================
