------------------------------ MODULE NanoTimer ------------------------------
(***************************************************************************)
(* NanoTimer (Source/internal/NanoTimer.{h,cpp}): the periodic timer that  *)
(* drives the reconnect attempts of NanoOcp1Client and the GetValue        *)
(* retries of Ocp1Controller.                                              *)
(*                                                                         *)
(* Agents are the threads that call startTimer()/stopTimer() from outside  *)
(* (Callers) and the timer's own worker threads (Workers), which make such *)
(* calls from inside timerCallback().  m_lifecycleMutex is modelled by its *)
(* holder.  m_mutex is never held across a blocking operation, so each     *)
(* section under it is one step.                                           *)
(*                                                                         *)
(* Time is abstracted: a deadline may pass at any moment.  Of the value    *)
(* of m_deadline only what the worker compares is kept, namely whether it  *)
(* is still the one the worker sampled (waitedDeadline): moved[w].         *)
(***************************************************************************)
EXTENDS Naturals

CONSTANTS Callers,         \* threads that use the timer from outside
          Workers,         \* identities of the std::threads it may create
          None,            \* no thread
          ReentrantCalls   \* what timerCallback() may call: {"start", "stop"}

ASSUME CallersAssumption == Callers \cap Workers = {}
ASSUME NoneAssumption == None \notin Callers \cup Workers
ASSUME ReentrantAssumption == ReentrantCalls \subseteq {"start", "stop"}

VARIABLES mStop,      \* m_stop
          mThread,    \* the thread m_thread refers to, None: not joinable
          lifecycle,  \* the holder of m_lifecycleMutex
          moved,      \* moved[w]: m_deadline # the waitedDeadline of w
          pc          \* where each agent is

vars == <<mStop, mThread, lifecycle, moved, pc>>

Agents == Callers \cup Workers

\* A caller outside the timer is "idle"; an agent inside startTimer() is at
\* "start" (before the lifecycle lock), "reap" (line 47) or "spawn" (line 55);
\* inside stopTimer() it is at "stop" (before the lock) or "join" (line 96).
CallPC == {"start", "reap", "spawn", "stop", "join"}

\* A worker does not exist ("none"), sits in wait_until ("wait"), runs user code
\* ("callback") or has left its loop and is still joinable ("ended").
WorkerPC == {"none", "wait", "callback", "ended"}

\* Where an agent stands between two calls.
Rest(a) == IF a \in Callers THEN "idle" ELSE "callback"

Alive(w) == pc[w] # "none"

Goto(a, where) == pc' = [pc EXCEPT ![a] = where]

\* m_deadline gets a new value: every worker but w is now waiting on an old one.
MoveDeadlineExcept(w) == moved' = [v \in Workers |-> v # w /\ Alive(v)]

Init ==
    /\ mStop = TRUE
    /\ mThread = None
    /\ lifecycle = None
    /\ moved = [w \in Workers |-> FALSE]
    /\ pc = [a \in Agents |-> IF a \in Callers THEN "idle" ELSE "none"]

-----------------------------------------------------------------------------
(* startTimer *)

StartCall(a) ==
    /\ pc[a] = Rest(a)
    /\ a \in Workers => "start" \in ReentrantCalls
    /\ Goto(a, "start")
    /\ UNCHANGED <<mStop, mThread, lifecycle, moved>>

\* The timer runs: push the deadline out, wake the worker and return.
StartRearm(a) ==
    /\ pc[a] = "start"
    /\ lifecycle = None
    /\ ~mStop /\ mThread # None
    /\ MoveDeadlineExcept(None)
    /\ Goto(a, Rest(a))
    /\ UNCHANGED <<mStop, mThread, lifecycle>>

\* Faulty variant: m_stop is left set.
StartFresh_KeepsStop(a) ==
    /\ pc[a] = "start"
    /\ lifecycle = None
    /\ mStop \/ mThread = None
    /\ MoveDeadlineExcept(None)
    /\ lifecycle' = a
    /\ Goto(a, "reap")
    /\ UNCHANGED <<mStop, mThread>>

\* The timer is stopped: clear m_stop and go on, holding m_lifecycleMutex.
StartFresh(a) ==
    /\ pc[a] = "start"
    /\ lifecycle = None
    /\ mStop \/ mThread = None
    /\ MoveDeadlineExcept(None)
    /\ mStop' = FALSE
    /\ lifecycle' = a
    /\ Goto(a, "reap")
    /\ UNCHANGED mThread
\* Faulty variant: a previous worker is always detached.
StartReap_Detaches(a) ==
    /\ pc[a] = "reap"
    /\ mThread' = None
    /\ Goto(a, "spawn")
    /\ UNCHANGED <<mStop, lifecycle, moved>>

\* Faulty variant: a previous worker is neither joined nor detached.
StartReap_Skipped(a) ==
    /\ pc[a] = "reap"
    /\ Goto(a, "spawn")
    /\ UNCHANGED <<mStop, mThread, lifecycle, moved>>

\* The previous worker is joined (once it ended), or detached by itself.
StartReap(a) ==
    /\ pc[a] = "reap"
    /\ \/ /\ mThread \in {None, a}
          /\ Goto(a, "spawn")
       \/ /\ mThread \notin {None, a}
          /\ pc[mThread] = "ended"
          /\ pc' = [pc EXCEPT ![a] = "spawn", ![mThread] = "none"]
    /\ mThread' = None
    /\ UNCHANGED <<mStop, lifecycle, moved>>

\* m_thread = std::thread(...); the new worker samples m_deadline and waits.
StartSpawn(a) ==
    /\ pc[a] = "spawn"
    /\ \E w \in Workers :
         /\ ~Alive(w)
         /\ mThread' = w
         /\ moved' = [moved EXCEPT ![w] = FALSE]
         /\ pc' = [pc EXCEPT ![a] = Rest(a), ![w] = "wait"]
    /\ lifecycle' = None
    /\ UNCHANGED mStop

-----------------------------------------------------------------------------
(* stopTimer *)

StopCall(a) ==
    /\ pc[a] = Rest(a)
    /\ a \in Workers => "stop" \in ReentrantCalls
    /\ Goto(a, "stop")
    /\ UNCHANGED <<mStop, mThread, lifecycle, moved>>
\* Faulty variant: the worker is told to stop but not waited for.
StopSignal_Detaches(a) ==
    /\ pc[a] = "stop"
    /\ lifecycle = None
    /\ mStop' = TRUE
    /\ mThread' = None
    /\ Goto(a, Rest(a))
    /\ UNCHANGED <<lifecycle, moved>>

\* Faulty variant: joins a worker that was never told to stop.
StopSignal_KeepsRunning(a) ==
    /\ pc[a] = "stop"
    /\ lifecycle = None
    /\ IF mThread \in {None, a}
       THEN mStop' = TRUE /\ Goto(a, Rest(a)) /\ UNCHANGED lifecycle
       ELSE Goto(a, "join") /\ lifecycle' = a /\ UNCHANGED mStop
    /\ UNCHANGED <<mThread, moved>>

\* Set m_stop under both mutexes; only an outside caller goes on to join.
StopSignal(a) ==
    /\ pc[a] = "stop"
    /\ lifecycle = None
    /\ mStop' = TRUE
    /\ IF mThread \in {None, a}
       THEN /\ Goto(a, Rest(a))
            /\ UNCHANGED lifecycle
       ELSE /\ Goto(a, "join")
            /\ lifecycle' = a
    /\ UNCHANGED <<mThread, moved>>

StopJoin(a) ==
    /\ pc[a] = "join"
    /\ pc[mThread] = "ended"
    /\ pc' = [pc EXCEPT ![a] = Rest(a), ![mThread] = "none"]
    /\ mThread' = None
    /\ lifecycle' = None
    /\ UNCHANGED <<mStop, moved>>

-----------------------------------------------------------------------------
(* The worker's loop *)
\* Faulty variant: the worker ends as if it were an outside caller.
Exit_Idle(w) == Goto(w, "idle")

\* The worker leaves its loop.  Nobody joins a detached worker: it is gone.
Exit(w) == Goto(w, IF mThread = w THEN "ended" ELSE "none")
\* Faulty variant: a moved deadline is noticed but not sampled.
Wake_KeepsDeadline(w) ==
    /\ pc[w] = "wait"
    /\ \/ mStop /\ Exit(w)
       \/ ~mStop /\ ~moved[w] /\ Goto(w, "callback")
    /\ UNCHANGED <<mStop, mThread, lifecycle, moved>>

\* wait_until returns: m_stop ends the loop, a moved deadline is waited for
\* anew, a deadline that passed runs the callback.
Wake(w) ==
    /\ pc[w] = "wait"
    /\ \/ mStop /\ Exit(w) /\ UNCHANGED moved
       \/ /\ ~mStop /\ moved[w]
          /\ moved' = [moved EXCEPT ![w] = FALSE]
          /\ UNCHANGED pc
       \/ ~mStop /\ ~moved[w] /\ Goto(w, "callback") /\ UNCHANGED moved
    /\ UNCHANGED <<mStop, mThread, lifecycle>>

\* timerCallback() returns: leave, or reschedule unless it was restarted, and
\* in both cases sample m_deadline again at the head of the loop.
CallbackReturn(w) ==
    /\ pc[w] = "callback"
    /\ \/ mStop /\ Exit(w) /\ UNCHANGED moved
       \/ /\ ~mStop
          /\ IF moved[w] THEN moved' = [moved EXCEPT ![w] = FALSE]
                         ELSE MoveDeadlineExcept(w)
          /\ Goto(w, "wait")
    /\ UNCHANGED <<mStop, mThread, lifecycle>>

-----------------------------------------------------------------------------

Next ==
    \/ \E a \in Agents : StartCall(a) \/ StartRearm(a) \/ StartFresh(a)
                         \/ StartReap(a) \/ StartSpawn(a)
                         \/ StopCall(a) \/ StopSignal(a) \/ StopJoin(a)
    \/ \E w \in Workers : Wake(w) \/ CallbackReturn(w)

Spec == Init /\ [][Next]_vars

\* Threads are scheduled, deadlines pass and callbacks return.  A call that has
\* begun goes on once it can, but a mutex is not assumed to be handed out fairly,
\* and nobody has to call anything.
Fairness ==
    /\ \A a \in Agents :
         /\ WF_vars(StartRearm(a) \/ StartFresh(a))
         /\ WF_vars(StartReap(a))
         /\ WF_vars(StartSpawn(a))
         /\ WF_vars(StopSignal(a))
         /\ WF_vars(StopJoin(a))
    /\ \A w \in Workers : WF_vars(Wake(w)) /\ SF_vars(CallbackReturn(w))

FairSpec == Spec /\ Fairness

-----------------------------------------------------------------------------
(* Properties *)

TypeOK ==
    /\ mStop \in BOOLEAN
    /\ mThread \in Workers \cup {None}
    /\ lifecycle \in Agents \cup {None}
    /\ moved \in [Workers -> BOOLEAN]
    /\ pc \in [Agents -> {"idle"} \cup CallPC \cup WorkerPC]
    /\ \A c \in Callers : pc[c] \notin WorkerPC
    /\ \A w \in Workers : pc[w] # "idle"

\* std::thread aborts the program when a joinable object is assigned to, when a
\* thread joins itself, and when a thread that is not joinable is joined.  None
\* of these happens, whatever timerCallback() calls (lines 47-55 and 95).
NoThreadMisuse ==
    \A a \in Agents :
        /\ pc[a] = "spawn" => mThread = None
        /\ pc[a] = "join" => mThread \notin {None, a}

\* Every worker that exists is the one m_thread refers to, so at most one thread
\* runs the callback.  It holds as long as callbacks do not restart the timer
\* (line 52 gives a thread up that may still be running).
NoOrphan == \A w \in Workers : Alive(w) => mThread = w

\* A timer that is armed and not being changed has a worker that will serve it.
ArmedHasWorker ==
    (~mStop /\ lifecycle = None) => mThread # None /\ pc[mThread] # "ended"

\* The holder of m_lifecycleMutex never waits for a worker that waits for
\* m_lifecycleMutex (the comment of lines 26-28: joining can never deadlock).
NoJoinDeadlock ==
    \A a \in Agents :
        (pc[a] \in {"reap", "join"} /\ mThread \notin {None, a})
            => pc[mThread] \notin {"start", "stop"}

\* When stopTimer() has returned to an outside caller the timer is quiet: no
\* worker exists any more, so no callback runs and none is about to.
StopQuiesces ==
    [][\A c \in Callers :
         (pc[c] \in {"stop", "join"} /\ pc'[c] = "idle")
             => mStop' /\ \A w \in Workers : pc'[w] = "none"]_vars

\* When startTimer() has returned to an outside caller the timer is armed: m_stop
\* is clear and m_thread runs, whatever other threads did in between.
StartArms ==
    [][\A c \in Callers :
         (pc[c] \in {"start", "spawn"} /\ pc'[c] = "idle")
             => ~mStop' /\ mThread' # None /\ pc'[mThread'] \notin {"none", "ended"}]_vars

\* The join inside stopTimer() (line 96) ends, unless it ran into the deadlock that
\* NoJoinDeadlock describes: no worker misses that it was told to stop.
StopTerminates ==
    \A a \in Agents : (pc[a] = "join") ~> (pc[a] # "join" \/ ~NoJoinDeadlock)

\* A timer that stays armed and is left alone fires again and again: a deadline
\* pushed out by startTimer() is never lost (lines 35-41, 61-65 and 75).
ArmedFires ==
    <>[](~mStop /\ \A c \in Callers : pc[c] = "idle")
        => []<>(\E w \in Workers : pc[w] = "callback")
=============================================================================
