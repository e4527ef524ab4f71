------------------------- MODULE NanoAsyncDispatcher -------------------------
(***************************************************************************)
(* NanoAsyncDispatcher (Source/internal/NanoAsyncDispatcher.{h,cpp}): the  *)
(* single-worker task queue on which a connection runs its callbacks.      *)
(*                                                                         *)
(* Agents are outside threads and the worker; the worker calls post() and  *)
(* stop() from inside a task.  Sections under m_mutex are one step each;   *)
(* m_cv.notify_one() comes after the unlock and is a step of its own, so   *)
(* that a wake-up could be lost if the code allowed it.                    *)
(***************************************************************************)
EXTENDS Naturals, Sequences, SequencesExt

CONSTANTS Threads,      \* outside threads
          Worker,       \* the thread that runs the tasks
          Tasks,        \* the tasks that may be posted, each at most once
          Stoppers,     \* agents that may call stop()
          Destroyers,   \* agents that may run the destructor
          None          \* nobody, nothing

ASSUME AgentAssumption == Worker \notin Threads /\ None \notin Threads \cup {Worker}
ASSUME TaskAssumption == None \notin Tasks
ASSUME StopperAssumption ==
    Stoppers \subseteq Threads \cup {Worker} /\ Destroyers \subseteq Threads \cup {Worker}

VARIABLES queue,      \* m_queue
          accepting,  \* m_accepting
          handle,     \* m_thread: "joinable", "joined" or "detached"
          destroyer,  \* the agent that runs, or ran, the destructor
          started,    \* history: the tasks taken from m_queue, in that order
          pc          \* where each agent is

vars == <<queue, accepting, handle, destroyer, started, pc>>

Agents == Threads \cup {Worker}

\* The worker is about to lock and test the queue ("check"), sleeps in m_cv.wait
\* ("asleep"), runs a task ("run") or has returned from run() ("exited").  Any
\* agent is inside post() at "postNotify", inside stop() at "stop" (before the
\* lock), "stopNotify" or "join".
CallPC == {"postNotify", "stop", "stopNotify", "join"}
WorkerPC == {"check", "asleep", "run", "exited"}

Rest(a) == IF a = Worker THEN "run" ELSE "idle"
Goto(a, where) == pc' = [pc EXCEPT ![a] = where]

\* The destructor has returned: the members do not exist any more.
Destroyed == destroyer # None /\ pc[destroyer] = Rest(destroyer)

\* Outside threads leave an object alone that is being destroyed; a task
\* does not know.
MayCall(a) == pc[a] = Rest(a) /\ (a = Worker \/ destroyer = None) /\ ~Destroyed

\* m_cv.notify_one() by a: a sleeping worker gets up to look at the queue.
NotifyOne(a) ==
    pc' = [b \in Agents |-> IF b = a THEN (IF pc[a] = "stopNotify" THEN "join" ELSE Rest(a))
                            ELSE IF b = Worker /\ pc[b] = "asleep" THEN "check" ELSE pc[b]]

Init ==
    /\ queue = <<>>
    /\ accepting = TRUE
    /\ handle = "joinable"
    /\ destroyer = None
    /\ started = <<>>
    /\ pc = [a \in Agents |-> IF a = Worker THEN "check" ELSE "idle"]

-----------------------------------------------------------------------------
(* post *)
\* Faulty variant: an empty function is queued instead of the task.
PostPush_Empty(a) ==
    /\ MayCall(a)
    /\ accepting
    /\ queue' = Append(queue, None)
    /\ Goto(a, "postNotify")
    /\ UNCHANGED <<accepting, handle, destroyer, started>>

\* A task that is rejected (line 38) leaves no trace.
PostPush(a) ==
    /\ MayCall(a)
    /\ accepting
    /\ \E t \in Tasks \ (ToSet(queue) \cup ToSet(started)) : queue' = Append(queue, t)
    /\ Goto(a, "postNotify")
    /\ UNCHANGED <<accepting, handle, destroyer, started>>
\* Faulty variant: nobody is notified.
PostNotify_Skipped(a) ==
    /\ pc[a] = "postNotify"
    /\ Goto(a, Rest(a))
    /\ UNCHANGED <<queue, accepting, handle, destroyer, started>>

PostNotify(a) ==
    /\ pc[a] = "postNotify"
    /\ NotifyOne(a)
    /\ UNCHANGED <<queue, accepting, handle, destroyer, started>>

-----------------------------------------------------------------------------
(* stop *)

StopCall(a) ==
    /\ a \in Stoppers
    /\ MayCall(a)
    /\ Goto(a, "stop")
    /\ UNCHANGED <<queue, accepting, handle, destroyer, started>>

\* The destructor is a call of stop().  No outside thread is inside a member
\* function any more: that is the caller's duty.
Destroy(a) ==
    /\ a \in Destroyers
    /\ destroyer = None
    /\ MayCall(a)
    /\ \A t \in Threads : pc[t] = "idle"
    /\ destroyer' = a
    /\ Goto(a, "stop")
    /\ UNCHANGED <<queue, accepting, handle, started>>
\* The first stop() closes the queue, every later one returns here.
StopClose(a) ==
    /\ pc[a] = "stop"
    /\ accepting' = FALSE
    /\ Goto(a, IF accepting THEN "stopNotify" ELSE Rest(a))
    /\ UNCHANGED <<queue, handle, destroyer, started>>
\* Faulty variant: the worker is not notified of the end.
StopNotify_Skipped(a) ==
    /\ pc[a] = "stopNotify"
    /\ Goto(a, "join")
    /\ UNCHANGED <<queue, accepting, handle, destroyer, started>>

StopNotify(a) ==
    /\ pc[a] = "stopNotify"
    /\ NotifyOne(a)
    /\ UNCHANGED <<queue, accepting, handle, destroyer, started>>
\* Faulty variant: the worker is always detached.
StopJoin_Detaches(a) ==
    /\ pc[a] = "join"
    /\ handle' = "detached"
    /\ Goto(a, Rest(a))
    /\ UNCHANGED <<queue, accepting, destroyer, started>>

\* An outside thread waits for the worker, the worker lets go of itself.
StopJoin(a) ==
    /\ pc[a] = "join"
    /\ IF a = Worker THEN handle' = "detached"
       ELSE pc[Worker] = "exited" /\ handle' = "joined"
    /\ Goto(a, Rest(a))
    /\ UNCHANGED <<queue, accepting, destroyer, started>>

-----------------------------------------------------------------------------
(* run *)

\* Faulty variant: the task posted last is run first.
Check_Lifo ==
    /\ pc[Worker] = "check"
    /\ \/ queue = <<>> /\ accepting /\ Goto(Worker, "asleep") /\ UNCHANGED <<queue, started>>
       \/ queue = <<>> /\ ~accepting /\ Goto(Worker, "exited") /\ UNCHANGED <<queue, started>>
       \/ /\ queue # <<>>
          /\ started' = Append(started, Last(queue))
          /\ queue' = Front(queue)
          /\ Goto(Worker, "run")
    /\ UNCHANGED <<accepting, handle, destroyer>>

\* The worker holds m_mutex: it sleeps, takes the next task, or returns once the
\* queue is closed and empty.
Check ==
    /\ pc[Worker] = "check"
    /\ \/ queue = <<>> /\ accepting /\ Goto(Worker, "asleep") /\ UNCHANGED <<queue, started>>
       \/ queue = <<>> /\ ~accepting /\ Goto(Worker, "exited") /\ UNCHANGED <<queue, started>>
       \/ /\ queue # <<>>
          /\ started' = Append(started, Head(queue))
          /\ queue' = Tail(queue)
          /\ Goto(Worker, "run")
    /\ UNCHANGED <<accepting, handle, destroyer>>

TaskReturn ==
    /\ pc[Worker] = "run"
    /\ Goto(Worker, "check")
    /\ UNCHANGED <<queue, accepting, handle, destroyer, started>>

-----------------------------------------------------------------------------

Next ==
    \/ \E a \in Agents : PostPush(a) \/ PostNotify(a) \/ StopCall(a) \/ Destroy(a)
                         \/ StopClose(a) \/ StopNotify(a) \/ StopJoin(a)
    \/ Check \/ TaskReturn

Spec == Init /\ [][Next]_vars

\* Threads are scheduled and tasks return, even those that post and stop again
\* and again; nobody has to call anything.
Fairness ==
    /\ \A a \in Agents : /\ WF_vars(PostNotify(a)) /\ WF_vars(StopClose(a))
                         /\ WF_vars(StopNotify(a)) /\ WF_vars(StopJoin(a))
    /\ WF_vars(Check)
    /\ SF_vars(TaskReturn)

FairSpec == Spec /\ Fairness

-----------------------------------------------------------------------------
(* Properties *)

TypeOK ==
    /\ queue \in Seq(Tasks)
    /\ started \in Seq(Tasks)
    /\ accepting \in BOOLEAN
    /\ handle \in {"joinable", "joined", "detached"}
    /\ destroyer \in Agents \cup {None}
    /\ pc \in [Agents -> {"idle"} \cup CallPC \cup WorkerPC]

\* The dispatcher implements the abstract task queue: FIFO, nothing dropped once
\* accepted, nothing accepted after stop() began, everything accepted is run
\* (NanoAsyncDispatcher.h lines 43-45).
Queue == INSTANCE TaskQueue WITH accepted <- started \o queue,
                                 begun <- Len(started), open <- accepting
ImplementsTaskQueue == Queue!FairSpec

\* No wake-up is lost: while the worker sleeps although there is something for it
\* to do, some agent is still about to notify it (lines 42 and 53 notify after
\* the lock is released).
NoLostWakeup ==
    (pc[Worker] = "asleep" /\ (queue # <<>> \/ ~accepting))
        => \E a \in Threads : pc[a] \in {"postNotify", "stopNotify"}

\* The worker leaves only for good: nothing is queued behind its back.
ExitedIsFinal == pc[Worker] = "exited" => queue = <<>> /\ ~accepting

\* The std::thread is let go exactly once, by the one stop() that closed the
\* queue, and never joined by the worker itself.
LetGoOnce ==
    /\ \A a, b \in Agents :
         (pc[a] \in {"stopNotify", "join"} /\ pc[b] \in {"stopNotify", "join"}) => a = b
    /\ (\E a \in Agents : pc[a] \in {"stopNotify", "join"})
         => handle = "joinable" /\ ~accepting

\* Nobody touches the members once the destructor has returned: the worker has
\* left run() by then, having run everything.
DestroyedIsQuiet == Destroyed => pc[Worker] = "exited" /\ queue = <<>>

\* Every stop() returns, the one that waits for the tasks still queued included.
StopReturns == \A a \in Agents : (pc[a] = "stop") ~> (pc[a] \notin CallPC)
=============================================================================
