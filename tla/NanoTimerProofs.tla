--------------------------- MODULE NanoTimerProofs ---------------------------
(* What NanoTimer guarantees for any number of outside threads and any number *)
(* of thread identities: NoThreadMisuse whatever timerCallback() calls;       *)
(* NoOrphan, ArmedHasWorker, StopQuiesces and StartArms as long as            *)
(* timerCallback() does not restart the timer (it may stop it).               *)
EXTENDS NanoTimer, TLAPS

\* Whoever is in a section that touches m_thread holds m_lifecycleMutex.
HoldsLifecycle == \A a \in Agents : pc[a] \in {"reap", "spawn", "join"} => lifecycle = a

\* The part of the inductive invariant that needs no assumption on callbacks.
MutexInv == TypeOK /\ HoldsLifecycle /\ NoThreadMisuse

\* The type invariant and the discipline of m_lifecycleMutex are inductive.
LEMMA MutexInvInit == Init => MutexInv
<1> SUFFICES ASSUME Init PROVE MutexInv
    OBVIOUS
<1> USE CallersAssumption, NoneAssumption DEF Agents, CallPC, WorkerPC
<1>1. TypeOK
    BY DEF Init, TypeOK
<1>2. HoldsLifecycle
    BY DEF Init, HoldsLifecycle
<1>3. NoThreadMisuse
    BY DEF Init, NoThreadMisuse
<1> QED BY <1>1, <1>2, <1>3 DEF MutexInv

LEMMA MutexInvStep == MutexInv /\ [Next]_vars => MutexInv'
<1> SUFFICES ASSUME MutexInv, [Next]_vars PROVE MutexInv'
    OBVIOUS
<1> USE CallersAssumption, NoneAssumption
        DEF MutexInv, TypeOK, HoldsLifecycle, NoThreadMisuse, Agents, CallPC, WorkerPC,
            Goto, Rest
<1>1. ASSUME NEW a \in Agents, StartCall(a) PROVE MutexInv'
    BY <1>1 DEF StartCall
<1>2. ASSUME NEW a \in Agents, StartRearm(a) PROVE MutexInv'
    BY <1>2 DEF StartRearm, MoveDeadlineExcept, Alive
<1>3. ASSUME NEW a \in Agents, StartFresh(a) PROVE MutexInv'
    BY <1>3 DEF StartFresh, MoveDeadlineExcept, Alive
<1>4. ASSUME NEW a \in Agents, StartReap(a) PROVE MutexInv'
    BY <1>4 DEF StartReap
<1>5. ASSUME NEW a \in Agents, StartSpawn(a) PROVE MutexInv'
    BY <1>5 DEF StartSpawn, Alive
<1>6. ASSUME NEW a \in Agents, StopCall(a) PROVE MutexInv'
    BY <1>6 DEF StopCall
<1>7. ASSUME NEW a \in Agents, StopSignal(a) PROVE MutexInv'
    BY <1>7 DEF StopSignal
<1>8. ASSUME NEW a \in Agents, StopJoin(a) PROVE MutexInv'
    BY <1>8 DEF StopJoin
<1>9. ASSUME NEW w \in Workers, Wake(w) PROVE MutexInv'
    BY <1>9 DEF Wake, Exit
<1>10. ASSUME NEW w \in Workers, CallbackReturn(w) PROVE MutexInv'
    BY <1>10 DEF CallbackReturn, Exit, MoveDeadlineExcept, Alive
<1>11. CASE UNCHANGED vars
    BY <1>11 DEF vars
<1> QED
    BY <1>1, <1>2, <1>3, <1>4, <1>5, <1>6, <1>7, <1>8, <1>9, <1>10, <1>11 DEF Next

\* Type correctness, for every value of the constants.
THEOREM TypeCorrect == Spec => []TypeOK
<1>1. MutexInv => TypeOK
    BY DEF MutexInv
<1> QED BY <1>1, MutexInvInit, MutexInvStep, PTL DEF Spec

\* No std::thread is overwritten while joinable, joined by itself or joined when
\* it is not joinable (NanoTimer.cpp lines 47-55 and 95), whatever callbacks do.
THEOREM ThreadsUsedCorrectly == Spec => []NoThreadMisuse
<1>1. MutexInv => NoThreadMisuse
    BY DEF MutexInv
<1> QED BY <1>1, MutexInvInit, MutexInvStep, PTL DEF Spec

-----------------------------------------------------------------------------
(* Callbacks that do not restart the timer *)

\* A worker is inside startTimer() or in a join only if callbacks restart it.
WorkersDoNotManage == \A w \in Workers : pc[w] \notin {"start", "reap", "spawn", "join"}

\* m_stop is what the holder of the lifecycle lock made it.
FlagHeld ==
    \A a \in Agents :
        /\ pc[a] \in {"reap", "spawn"} => ~mStop
        /\ pc[a] = "join" => mStop

HandleAlive == mThread # None => Alive(mThread)

OwnInv == WorkersDoNotManage /\ FlagHeld /\ HandleAlive /\ NoOrphan /\ ArmedHasWorker

LEMMA OwnInvInit == Init => OwnInv
BY CallersAssumption, NoneAssumption
   DEF Init, OwnInv, WorkersDoNotManage, FlagHeld, HandleAlive, NoOrphan,
       ArmedHasWorker, Agents, Alive

\* One step per action: only StartReap, StartSpawn and StopJoin change m_thread,
\* and each holds the lifecycle lock; only Exit ends a worker, and it needs m_stop.
LEMMA OwnInvStep ==
    ASSUME "start" \notin ReentrantCalls, MutexInv, OwnInv, [Next]_vars
    PROVE  OwnInv'
<1> USE CallersAssumption, NoneAssumption
        DEF MutexInv, TypeOK, HoldsLifecycle, NoThreadMisuse, Agents, CallPC, WorkerPC,
            Goto, Rest, OwnInv, WorkersDoNotManage, FlagHeld, HandleAlive, NoOrphan,
            ArmedHasWorker, Alive
<1>1. ASSUME NEW a \in Agents, StartCall(a) PROVE OwnInv'
    BY <1>1 DEF StartCall
<1>2. ASSUME NEW a \in Agents, StartRearm(a) PROVE OwnInv'
    BY <1>2 DEF StartRearm, MoveDeadlineExcept
<1>3. ASSUME NEW a \in Agents, StartFresh(a) PROVE OwnInv'
    BY <1>3 DEF StartFresh, MoveDeadlineExcept
<1>4. ASSUME NEW a \in Agents, StartReap(a) PROVE OwnInv'
    BY <1>4 DEF StartReap
<1>5. ASSUME NEW a \in Agents, StartSpawn(a) PROVE OwnInv'
    BY <1>5 DEF StartSpawn
<1>6. ASSUME NEW a \in Agents, StopCall(a) PROVE OwnInv'
    BY <1>6 DEF StopCall
<1>7. ASSUME NEW a \in Agents, StopSignal(a) PROVE OwnInv'
    BY <1>7 DEF StopSignal
<1>8. ASSUME NEW a \in Agents, StopJoin(a) PROVE OwnInv'
    BY <1>8 DEF StopJoin
<1>9. ASSUME NEW w \in Workers, Wake(w) PROVE OwnInv'
    BY <1>9 DEF Wake, Exit
<1>10. ASSUME NEW w \in Workers, CallbackReturn(w) PROVE OwnInv'
    BY <1>10 DEF CallbackReturn, Exit, MoveDeadlineExcept
<1>11. CASE UNCHANGED vars
    BY <1>11 DEF vars
<1> QED
    BY <1>1, <1>2, <1>3, <1>4, <1>5, <1>6, <1>7, <1>8, <1>9, <1>10, <1>11 DEF Next

\* Every thread the timer ever created and that still exists is m_thread: the
\* callback never runs on two threads, and stopTimer() knows whom to wait for.
THEOREM WorkersOwned ==
    ASSUME "start" \notin ReentrantCalls
    PROVE  Spec => [](NoOrphan /\ ArmedHasWorker)
<1>1. Init => MutexInv /\ OwnInv
    BY MutexInvInit, OwnInvInit
<1>2. (MutexInv /\ OwnInv) /\ [Next]_vars => (MutexInv /\ OwnInv)'
    BY MutexInvStep, OwnInvStep
<1>3. MutexInv /\ OwnInv => NoOrphan /\ ArmedHasWorker
    BY DEF OwnInv
<1> QED BY <1>1, <1>2, <1>3, PTL DEF Spec

\* stopTimer() leaves nothing behind: when it has returned to an outside thread
\* no worker exists.  It returns at once only if m_thread is not joinable, and
\* then NoOrphan says there is no worker; otherwise it joined the only one.
THEOREM StopLeavesNothing ==
    ASSUME "start" \notin ReentrantCalls
    PROVE  Spec => StopQuiesces
<1> DEFINE Quiesces(c) == (pc[c] \in {"stop", "join"} /\ pc'[c] = "idle")
                             => mStop' /\ \A w \in Workers : pc'[w] = "none"
<1>1. ASSUME MutexInv, OwnInv, [Next]_vars, NEW c \in Callers PROVE Quiesces(c)
  <2> USE <1>1, CallersAssumption, NoneAssumption
          DEF MutexInv, TypeOK, HoldsLifecycle, NoThreadMisuse, Agents, CallPC, WorkerPC,
              Goto, Rest, OwnInv, WorkersDoNotManage, FlagHeld, NoOrphan, Alive
  <2> SUFFICES ASSUME pc[c] \in {"stop", "join"}, pc'[c] = "idle"
               PROVE  mStop' /\ \A w \in Workers : pc'[w] = "none"
      OBVIOUS
  <2>1. CASE StopSignal(c)
      BY <2>1 DEF StopSignal
  <2>2. CASE StopJoin(c)
      BY <2>2 DEF StopJoin
  <2>3. ASSUME NEW a \in Agents,
               \/ StartCall(a) \/ StartRearm(a) \/ StartFresh(a) \/ StartReap(a)
               \/ StartSpawn(a) \/ StopCall(a)
               \/ a # c /\ (StopSignal(a) \/ StopJoin(a))
        PROVE  FALSE
      BY <2>3 DEF StartCall, StartRearm, StartFresh, StartReap, StartSpawn, StopCall,
                  StopSignal, StopJoin
  <2>4. ASSUME NEW w \in Workers, Wake(w) \/ CallbackReturn(w) PROVE FALSE
      BY <2>4 DEF Wake, CallbackReturn, Exit
  <2>5. CASE UNCHANGED vars
      BY <2>5 DEF vars
  <2> QED BY <2>1, <2>2, <2>3, <2>4, <2>5 DEF Next
<1>2. MutexInv /\ OwnInv /\ [Next]_vars => [\A c \in Callers : Quiesces(c)]_vars
    BY <1>1
<1>3. Init => MutexInv /\ OwnInv
    BY MutexInvInit, OwnInvInit
<1>4. (MutexInv /\ OwnInv) /\ [Next]_vars => (MutexInv /\ OwnInv)'
    BY MutexInvStep, OwnInvStep
<1> QED BY <1>2, <1>3, <1>4, PTL DEF Spec, StopQuiesces

\* startTimer() takes effect: when it has returned to an outside thread m_stop is
\* clear and m_thread has not left its loop, so a callback is due.
THEOREM StartTakesEffect ==
    ASSUME "start" \notin ReentrantCalls
    PROVE  Spec => StartArms
<1> DEFINE Arms(c) == (pc[c] \in {"start", "spawn"} /\ pc'[c] = "idle")
                         => ~mStop' /\ mThread' # None /\ pc'[mThread'] \notin {"none", "ended"}
<1>1. ASSUME MutexInv, OwnInv, [Next]_vars, NEW c \in Callers PROVE Arms(c)
  <2> USE <1>1, CallersAssumption, NoneAssumption
          DEF MutexInv, TypeOK, HoldsLifecycle, NoThreadMisuse, Agents, CallPC, WorkerPC,
              Goto, Rest, OwnInv, WorkersDoNotManage, FlagHeld, HandleAlive,
              ArmedHasWorker, Alive
  <2> SUFFICES ASSUME pc[c] \in {"start", "spawn"}, pc'[c] = "idle"
               PROVE  ~mStop' /\ mThread' # None /\ pc'[mThread'] \notin {"none", "ended"}
      OBVIOUS
  <2>1. CASE StartRearm(c)
      BY <2>1 DEF StartRearm
  <2>2. CASE StartSpawn(c)
      BY <2>2 DEF StartSpawn
  <2>3. ASSUME NEW a \in Agents,
               \/ StartCall(a) \/ StartFresh(a) \/ StartReap(a)
               \/ StopCall(a) \/ StopSignal(a) \/ StopJoin(a)
               \/ a # c /\ (StartRearm(a) \/ StartSpawn(a))
        PROVE  FALSE
      BY <2>3 DEF StartCall, StartRearm, StartFresh, StartReap, StartSpawn, StopCall,
                  StopSignal, StopJoin
  <2>4. ASSUME NEW w \in Workers, Wake(w) \/ CallbackReturn(w) PROVE FALSE
      BY <2>4 DEF Wake, CallbackReturn, Exit
  <2>5. CASE UNCHANGED vars
      BY <2>5 DEF vars
  <2> QED BY <2>1, <2>2, <2>3, <2>4, <2>5 DEF Next
<1>2. MutexInv /\ OwnInv /\ [Next]_vars => [\A c \in Callers : Arms(c)]_vars
    BY <1>1
<1>3. Init => MutexInv /\ OwnInv
    BY MutexInvInit, OwnInvInit
<1>4. (MutexInv /\ OwnInv) /\ [Next]_vars => (MutexInv /\ OwnInv)'
    BY MutexInvStep, OwnInvStep
<1> QED BY <1>2, <1>3, <1>4, PTL DEF Spec, StartArms
=============================================================================
