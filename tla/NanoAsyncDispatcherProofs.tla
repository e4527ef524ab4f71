---------------------- MODULE NanoAsyncDispatcherProofs ----------------------
(* What NanoAsyncDispatcher guarantees for any number of threads and tasks:    *)
(* it implements TaskQueue step by step (safety), no wake-up is lost, the      *)
(* thread handle is let go once, and a destructor run by an outside thread     *)
(* leaves nothing running.                                                     *)
EXTENDS NanoAsyncDispatcher, SequenceTheorems, TLAPS

\* Stronger than TypeOK about where each kind of agent can be.
PlacesOK ==
    /\ \A t \in Threads : pc[t] \in {"idle"} \cup CallPC
    /\ pc[Worker] \in CallPC \cup WorkerPC

\* The thread is let go only after the queue was closed.
OpenIsJoinable == accepting => handle = "joinable"

Inv == TypeOK /\ PlacesOK /\ OpenIsJoinable /\ NoLostWakeup /\ ExitedIsFinal /\ LetGoOnce

LEMMA InvInit == Init => Inv
<1> SUFFICES ASSUME Init PROVE Inv
    OBVIOUS
<1> USE AgentAssumption DEF Init, Agents, CallPC, WorkerPC
<1>1. TypeOK
    BY DEF TypeOK
<1>2. PlacesOK /\ OpenIsJoinable /\ NoLostWakeup /\ ExitedIsFinal /\ LetGoOnce
    BY DEF PlacesOK, OpenIsJoinable, NoLostWakeup, ExitedIsFinal, LetGoOnce
<1> QED BY <1>1, <1>2 DEF Inv

LEMMA InvStep == Inv /\ [Next]_vars => Inv'
<1> SUFFICES ASSUME Inv, [Next]_vars PROVE Inv'
    OBVIOUS
<1> USE AgentAssumption, TaskAssumption
        DEF Inv, TypeOK, PlacesOK, OpenIsJoinable, NoLostWakeup, ExitedIsFinal, LetGoOnce, Agents,
            CallPC, WorkerPC, Goto, Rest
<1>1. ASSUME NEW a \in Agents, PostPush(a) PROVE Inv'
    BY <1>1 DEF PostPush, MayCall
<1>2. ASSUME NEW a \in Agents, PostNotify(a) PROVE Inv'
    BY <1>2 DEF PostNotify, NotifyOne
<1>3. ASSUME NEW a \in Agents, StopCall(a) PROVE Inv'
    BY <1>3 DEF StopCall, MayCall
<1>4. ASSUME NEW a \in Agents, Destroy(a) PROVE Inv'
    BY <1>4 DEF Destroy, MayCall
<1>5. ASSUME NEW a \in Agents, StopClose(a) PROVE Inv'
    BY <1>5 DEF StopClose
<1>6. ASSUME NEW a \in Agents, StopNotify(a) PROVE Inv'
    BY <1>6 DEF StopNotify, NotifyOne
<1>7. ASSUME NEW a \in Agents, StopJoin(a) PROVE Inv'
    BY <1>7 DEF StopJoin
<1>8. CASE Check
  <2>1. queue # <<>> => Head(queue) \in Tasks /\ Tail(queue) \in Seq(Tasks)
      BY HeadTailProperties
  <2>2. TypeOK'
    <3>1. queue' \in Seq(Tasks)
        BY <1>8, <2>1 DEF Check
    <3>2. started' \in Seq(Tasks)
      <4>1. CASE queue = <<>>
          BY <1>8, <4>1 DEF Check
      <4>2. CASE queue # <<>>
        <5>1. started' = Append(started, Head(queue))
            BY <1>8, <4>2 DEF Check
        <5>2. started \in Seq(Tasks) /\ Head(queue) \in Tasks
            BY <2>1, <4>2
        <5> HIDE DEF Inv, TypeOK
        <5> QED BY <5>1, <5>2, AppendProperties
      <4> QED BY <4>1, <4>2
    <3>3. pc' \in [Agents -> {"idle"} \cup CallPC \cup WorkerPC]
        BY <1>8 DEF Check
    <3> QED BY <1>8, <3>1, <3>2, <3>3 DEF Check
  <2>3. PlacesOK' /\ OpenIsJoinable'
      BY <1>8 DEF Check
  <2>4. NoLostWakeup' /\ ExitedIsFinal'
      BY <1>8 DEF Check
  <2>5. LetGoOnce'
      BY <1>8 DEF Check
  <2> QED BY <2>2, <2>3, <2>4, <2>5
<1>9. CASE TaskReturn
    BY <1>9 DEF TaskReturn
<1>10. CASE UNCHANGED vars
    BY <1>10 DEF vars
<1> QED
    BY <1>1, <1>2, <1>3, <1>4, <1>5, <1>6, <1>7, <1>8, <1>9, <1>10 DEF Next

\* Type correctness, for every value of the constants.
THEOREM TypeCorrect == Spec => []TypeOK
<1>1. Inv => TypeOK
    BY DEF Inv
<1> QED BY <1>1, InvInit, InvStep, PTL DEF Spec

\* However many agents post, stop and get notified at the same time: a worker
\* that sleeps on something to do is about to be woken (post() and stop() notify
\* after the unlock), it leaves only an empty and closed queue behind, and one
\* stop() alone decides about the thread.
THEOREM DispatcherSafe == Spec => [](NoLostWakeup /\ ExitedIsFinal /\ LetGoOnce)
<1>1. Inv => NoLostWakeup /\ ExitedIsFinal /\ LetGoOnce
    BY DEF Inv
<1> QED BY <1>1, InvInit, InvStep, PTL DEF Spec

-----------------------------------------------------------------------------
(* Refinement: every step of the dispatcher is a step of TaskQueue or none.    *)

LEMMA ToSetOfConcat ==
    ASSUME NEW S, NEW s \in Seq(S), NEW t \in Seq(S)
    PROVE  ToSet(s \o t) = ToSet(s) \cup ToSet(t)
<1>1. ASSUME NEW x \in ToSet(s \o t) PROVE x \in ToSet(s) \cup ToSet(t)
  <2>1. PICK i \in DOMAIN (s \o t) : x = (s \o t)[i]
      BY <1>1 DEF ToSet
  <2>2. i \in 1 .. Len(s) + Len(t)
      BY <2>1, ConcatProperties
  <2>3. CASE i <= Len(s)
      BY <2>1, <2>2, <2>3, ConcatProperties DEF ToSet
  <2>4. CASE i > Len(s)
      BY <2>1, <2>2, <2>4, ConcatProperties DEF ToSet
  <2> QED BY <2>2, <2>3, <2>4
<1>2. ASSUME NEW x \in ToSet(s) PROVE x \in ToSet(s \o t)
  <2>1. PICK i \in 1 .. Len(s) : x = s[i]
      BY <1>2 DEF ToSet
  <2>2. i \in DOMAIN (s \o t) /\ (s \o t)[i] = x
      BY <2>1, ConcatProperties
  <2> QED BY <2>2 DEF ToSet
<1>3. ASSUME NEW x \in ToSet(t) PROVE x \in ToSet(s \o t)
  <2>1. PICK i \in 1 .. Len(t) : x = t[i]
      BY <1>3 DEF ToSet
  <2>2. Len(s) + i \in DOMAIN (s \o t) /\ (s \o t)[Len(s) + i] = x
      BY <2>1, ConcatProperties
  <2> QED BY <2>2 DEF ToSet
<1> QED BY <1>1, <1>2, <1>3

\* Taking the head of the queue moves the boundary between begun and queued.
LEMMA MoveHead ==
    ASSUME NEW S, NEW s \in Seq(S), NEW q \in Seq(S), q # <<>>
    PROVE  Append(s, Head(q)) \o Tail(q) = s \o q
BY SMTT(30)

LEMMA AppendToSecond ==
    ASSUME NEW S, NEW s \in Seq(S), NEW q \in Seq(S), NEW x \in S
    PROVE  s \o Append(q, x) = Append(s \o q, x)
BY SMTT(30)

\* The dispatcher implements the abstract task queue (its safety part; that every
\* accepted task is begun in the end is checked by TLC): FIFO order, nothing
\* dropped, nothing accepted after stop() began.
THEOREM RefinesTaskQueue == Spec => Queue!Spec
<1>1. Init => Queue!Init
    BY ConcatEmptySeq DEF Init, Queue!Init
<1>2. Inv /\ [Next]_vars => [Queue!Next]_(Queue!vars)
  <2> SUFFICES ASSUME Inv, [Next]_vars PROVE [Queue!Next]_(Queue!vars)
      OBVIOUS
  <2>1. queue \in Seq(Tasks) /\ started \in Seq(Tasks) /\ accepting \in BOOLEAN
      BY DEF Inv, TypeOK
  <2>2. ASSUME NEW a \in Agents, PostPush(a) PROVE Queue!Accept
    <3>1. PICK t \in Tasks \ (ToSet(queue) \cup ToSet(started)) : queue' = Append(queue, t)
        BY <2>2 DEF PostPush
    <3>2. t \in Tasks \ ToSet(started \o queue)
        BY <2>1, <3>1, ToSetOfConcat
    <3>3. (started \o queue)' = Append(started \o queue, t)
        BY <2>1, <2>2, <3>1, AppendToSecond DEF PostPush
    <3>4. ToSet(started \o queue) = Queue!ToSet(started \o queue)
        BY DEF ToSet, Queue!ToSet
    <3> QED BY <2>2, <3>2, <3>3, <3>4 DEF PostPush, Queue!Accept
  <2>3. ASSUME queue # <<>>, Check PROVE Queue!Begin
    <3>1. started' = Append(started, Head(queue)) /\ queue' = Tail(queue)
        BY <2>3 DEF Check
    <3>2. (started \o queue)' = started \o queue
        BY <2>1, <2>3, <3>1, MoveHead
    <3>3. Head(queue) \in Tasks
        BY <2>1, <2>3, HeadTailProperties
    <3>4. Len(started') = Len(started) + 1
        BY <2>1, <3>1, <3>3, AppendProperties
    <3>5. Len(started \o queue) = Len(started) + Len(queue)
        BY <2>1, ConcatProperties
    <3>6. Len(started) \in Nat /\ Len(queue) \in Nat
        BY <2>1, LenProperties
    <3>7. Len(queue) # 0
        BY <2>1, <2>3, EmptySeq
    <3> QED BY <2>3, <3>2, <3>4, <3>5, <3>6, <3>7 DEF Check, Queue!Begin
  <2>4. ASSUME NEW a \in Agents, StopClose(a) PROVE [Queue!Close]_(Queue!vars)
      BY <2>1, <2>4 DEF StopClose, Queue!Close, Queue!vars
  <2>5. ASSUME \/ queue = <<>> /\ Check
               \/ TaskReturn
               \/ UNCHANGED vars
               \/ \E a \in Agents : \/ PostNotify(a) \/ StopCall(a) \/ Destroy(a)
                                   \/ StopNotify(a) \/ StopJoin(a)
        PROVE  UNCHANGED Queue!vars
      BY <2>5 DEF Check, TaskReturn, vars, PostNotify, StopCall, Destroy, StopNotify,
                  StopJoin, Queue!vars
  <2> QED BY <2>2, <2>3, <2>4, <2>5 DEF Next, Queue!Next
<1> QED BY <1>1, <1>2, InvInit, InvStep, PTL DEF Spec, Queue!Spec

-----------------------------------------------------------------------------
(* The way Ocp1Connection uses it: stop() is called by the destructor alone,   *)
(* and an outside thread runs that.                                            *)

InStop == {"stop", "stopNotify", "join"}

\* Until the destructor runs nobody is inside stop(); from then on the destroyer
\* alone is active outside, and it is back only once the worker is gone.
OneDestroyer ==
    /\ pc[Worker] \notin InStop
    /\ \A t \in Threads : pc[t] # "idle" /\ destroyer # None => t = destroyer
    /\ \A t \in Threads : pc[t] \in InStop => t = destroyer
    /\ destroyer = None => accepting
    /\ destroyer # None =>
         /\ destroyer \in Threads
         /\ pc[destroyer] \in InStop \cup {"idle"}
         /\ pc[destroyer] = "stop" => accepting
         /\ pc[destroyer] = "idle" => pc[Worker] = "exited"

LEMMA OneDestroyerStep ==
    ASSUME Stoppers = {}, Worker \notin Destroyers, Inv, OneDestroyer, [Next]_vars
    PROVE  OneDestroyer'
<1> USE AgentAssumption, StopperAssumption
        DEF Inv, TypeOK, PlacesOK, ExitedIsFinal, OneDestroyer, InStop, Agents, CallPC,
            WorkerPC, Goto, Rest
<1>1. ASSUME NEW a \in Agents, PostPush(a) PROVE OneDestroyer'
    BY <1>1 DEF PostPush, MayCall
<1>2. ASSUME NEW a \in Agents, PostNotify(a) PROVE OneDestroyer'
    BY <1>2 DEF PostNotify, NotifyOne
<1>3. ASSUME NEW a \in Agents, StopCall(a) PROVE OneDestroyer'
    BY <1>3 DEF StopCall
<1>4. ASSUME NEW a \in Agents, Destroy(a) PROVE OneDestroyer'
    BY <1>4 DEF Destroy, MayCall
<1>5. ASSUME NEW a \in Agents, StopClose(a) PROVE OneDestroyer'
    BY <1>5 DEF StopClose
<1>6. ASSUME NEW a \in Agents, StopNotify(a) PROVE OneDestroyer'
    BY <1>6 DEF StopNotify, NotifyOne
<1>7. ASSUME NEW a \in Agents, StopJoin(a) PROVE OneDestroyer'
    BY <1>7 DEF StopJoin
<1>8. CASE Check
    BY <1>8 DEF Check
<1>9. CASE TaskReturn
    BY <1>9 DEF TaskReturn
<1>10. CASE UNCHANGED vars
    BY <1>10 DEF vars
<1> QED
    BY <1>1, <1>2, <1>3, <1>4, <1>5, <1>6, <1>7, <1>8, <1>9, <1>10 DEF Next

\* When an outside thread has destroyed the dispatcher, the worker has run every
\* task and is gone: nothing touches the members afterwards.
THEOREM DestructionIsQuiet ==
    ASSUME Stoppers = {}, Worker \notin Destroyers
    PROVE  Spec => []DestroyedIsQuiet
<1>1. Init => OneDestroyer
    BY AgentAssumption DEF Init, OneDestroyer, InStop, Agents
<1>2. Inv /\ OneDestroyer /\ [Next]_vars => OneDestroyer'
    BY OneDestroyerStep
<1>3. Inv /\ OneDestroyer => DestroyedIsQuiet
    BY AgentAssumption
       DEF Inv, ExitedIsFinal, OneDestroyer, DestroyedIsQuiet, Destroyed, Rest
<1> QED BY <1>1, <1>2, <1>3, InvInit, InvStep, PTL DEF Spec
=============================================================================
