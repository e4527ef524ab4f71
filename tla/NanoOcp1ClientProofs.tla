------------------------- MODULE NanoOcp1ClientProofs -------------------------
(***************************************************************************)
(* What NanoOcp1Client guarantees for any number of calls, of frames and   *)
(* of ends of a connection: for any timing, for a timer that redials while *)
(* nothing else is going on, and for sessions that do not overlap.         *)
(***************************************************************************)
EXTENDS NanoOcp1Client, TLAPS

Callbacks == {"made", "data", "lost"}

AppPlaces == {"idle", "stop", "join", "start", "reap", "close", "joinReader", "delete", "unsafe",
              "dial", "initialise", "spawn", "enter", "callback", "runningCheck", "leave",
              "notify", "release", "drain", "gone"}
TmPlaces == {"none", "wait", "check", "return", "stop", "start", "close", "joinReader", "delete",
             "unsafe", "dial", "initialise", "spawn", "enter", "callback", "runningCheck",
             "leave"}
RdPlaces == {"none", "loop", "select", "header", "more", "body", "deliver", "lose", "exit",
             "ended", "enter", "callback", "runningCheck", "start", "reap", "leave"}
CbPlaces == {"idle", "enter", "stop", "join", "callback", "runningCheck", "start", "reap",
             "leave"}

(* Thread t is inside ifSafe().                                            *)
InCallback(t) ==
  \/ pc[t] \in {"callback", "runningCheck", "leave"}
  \/ pc[t] \in {"stop", "join"} /\ next[t] = "callback"
  \/ pc[t] \in {"start", "reap"} /\ t # App

-----------------------------------------------------------------------------
(* For any timing and any calls.                                           *)

DataInv ==
  /\ mode \in Modes /\ running \in BOOLEAN /\ alive \in BOOLEAN
  /\ mStop \in BOOLEAN /\ lock \in Threads \cup {None}
  /\ socket \in {"null", "open", "ended", "closed"}
  /\ reading \in BOOLEAN /\ shouldExit \in BOOLEAN /\ cbState \in BOOLEAN
  /\ safe \in BOOLEAN /\ safeLock \in Threads \cup {None}
  /\ queue \in Seq(Callbacks)
  /\ task \in [Threads -> Callbacks \cup {None}]
  /\ told \in {"up", "down"}

PlaceInv ==
  /\ pc \in [Threads -> Places] /\ next \in [Threads -> Places]
  /\ pc[App] \in AppPlaces /\ pc[Tm] \in TmPlaces /\ pc[Rd] \in RdPlaces /\ pc[Cb] \in CbPlaces
  /\ next[App] \in {"idle", "callback", "close", "release"}
  /\ next[Tm] \in {"idle", "callback"} /\ next[Cb] \in {"idle", "callback"}
  /\ \A t \in {Tm, Cb} : pc[t] \in {"stop", "join"} => next[t] = "callback"
  /\ pc[App] \in {"stop", "join"} => next[App] # "idle"

(* Which callbacks each thread runs, in each mode.                         *)
TaskInv ==
  /\ task[App] # "data" /\ task[Tm] # "data" /\ task[Rd] # "made"
  /\ \A t \in Threads : pc[t] \in {"stop", "join"} /\ next[t] = "callback" => task[t] = "made"
  /\ mode = "async" =>
       /\ pc[App] \notin {"enter", "callback", "runningCheck", "leave"} /\ next[App] # "callback"
       /\ pc[Tm] \notin {"stop", "start", "enter", "callback", "runningCheck", "leave"}
       /\ pc[Rd] \notin {"start", "reap", "enter", "callback", "runningCheck", "leave"}
       /\ safeLock \in {Cb, None}
  /\ mode = "sync" => queue = <<>> /\ pc[Cb] = "idle"

(* Who waits for the timer's worker holds the mutex of the timer, and has  *)
(* told it to stop if it stops the timer; and who is inside a callback     *)
(* holds the mutex of the safe action.                                     *)
LockInv ==
  /\ \A t \in Threads : pc[t] \in {"join", "reap"} => lock = t
  /\ \A t \in {App, Tm, Cb} : lock = t => pc[t] \in {"join", "reap"}
  /\ \A t \in Threads : pc[t] = "join" => mStop
  /\ \A t \in Threads : InCallback(t) => safeLock = t
  /\ safeLock = App => InCallback(App) \/ pc[App] \in {"start", "reap"}

(* The destructors: once the first disconnect() is over nobody starts the  *)
(* timer any more, once the timer's destructor is over it has no worker,   *)
(* and after the second disconnect() there is no reader.                   *)
DestroyInv ==
  /\ ~ alive => /\ ~ running /\ next[App] \in {"close", "release"}
                /\ pc[App] \in {"stop", "join", "close", "joinReader", "delete", "unsafe",
                                "release", "drain", "gone"}
  /\ alive => next[App] # "release" /\ pc[App] \notin {"release", "drain", "gone"}
  /\ pc[App] \in {"release", "drain", "gone"} => next[App] = "release"
  /\ next[App] = "release" =>
       /\ pc[Tm] # "start" /\ pc[Rd] \notin {"start", "reap"} /\ pc[Cb] \notin {"start", "reap"}
       /\ pc[App] \notin {"stop", "join"} => pc[Tm] = "none" /\ lock = None
       /\ pc[App] \in {"delete", "unsafe", "drain", "gone"} => pc[Rd] = "none"
  /\ pc[App] \in {"drain", "gone"} => ~ safe
  /\ pc[App] = "gone" => queue = <<>> /\ pc[Cb] = "idle"

(* The inductive invariant of any client.                                  *)
Inv == DataInv /\ PlaceInv /\ TaskInv /\ LockInv /\ DestroyInv

(* dispatchOrCall() keeps the types. *)
LEMMA DispatchTypes ==
  ASSUME DataInv, NEW t \in Threads, NEW callback \in Callbacks, NEW where,
         Dispatch(t, callback, where)
  PROVE  queue' \in Seq(Callbacks) /\ task' \in [Threads -> Callbacks \cup {None}]
<1>1. queue \in Seq(Callbacks) /\ task \in [Threads -> Callbacks \cup {None}]
  BY DEF DataInv
<1>2. CASE queue' = Append(queue, callback) /\ task' = task
  BY <1>1, <1>2
<1>3. CASE queue' = queue /\ task' = [task EXCEPT ![t] = callback]
  BY <1>1, <1>3
<1> QED
  BY <1>2, <1>3, Zenon DEF Dispatch

(* What dispatchOrCall() by t does to the queue, to the tasks and to the   *)
(* places of the threads.                                                  *)
LEMMA Dispatched ==
  ASSUME DataInv, PlaceInv, NEW t \in Threads, NEW callback \in Callbacks, NEW where \in Places,
         Dispatch(t, callback, where)
  PROVE  /\ mode = "async" =>
              /\ task' = task
              /\ pc' = [s \in Threads |-> IF s = t THEN where ELSE pc[s]]
              /\ Len(queue') = Len(queue) + 1
              /\ \A i \in 1..Len(queue) : queue'[i] = queue[i]
              /\ queue'[Len(queue) + 1] = callback
         /\ mode # "async" =>
              /\ task' = [s \in Threads |-> IF s = t THEN callback ELSE task[s]]
              /\ pc' = [s \in Threads |-> IF s = t THEN "enter" ELSE pc[s]]
              /\ queue' = queue
BY DEF DataInv, PlaceInv, Dispatch, Goto, Callbacks

-----------------------------------------------------------------------------
(* For a timer that redials while nothing else is going on.                *)

(* Two premises on the timing, which the code does not ensure.  First, the *)
(* worker of the timer begins to redial only while no callback is queued   *)
(* or run by the dispatcher, and the application is in no call but a       *)
(* stop() or the destructor that is about to wait for the worker.          *)
RedialsAlone ==
  TimerChecks /\ ~ IsConnected =>
    /\ pc[App] = "idle" \/ (pc[App] \in {"stop", "join"} /\ next[App] = "close")
    /\ pc[Cb] = "idle" /\ queue = <<>>

(* Second, the application calls start() only when the last session has    *)
(* left no worker of the timer, no reader and no callback to be made.      *)
StartsAlone ==
  Start => pc[Tm] = "none" /\ pc[Rd] = "none" /\ pc[Cb] = "idle" /\ queue = <<>>

(* The worker of the timer is not dialing.                                 *)
Asleep == {"none", "wait", "check", "return"}

(* A thread is where callbacks are made, from ifSafe() on.                 *)
InSafe == {"enter", "callback", "runningCheck", "leave"}

(* Once stop() or the destructor has stopped the timer, its worker dials   *)
(* no more, and disconnect() leaves no reader and no socket.               *)
StopInv ==
  /\ pc[App] = "notify" => ~ running
  /\ ~ running =>
       /\ pc[App] \notin {"dial", "initialise", "spawn", "start", "reap"}
       /\ pc[App] \in {"stop", "join"} => next[App] # "callback"
       /\ pc[App] \in InSafe => task[App] = "lost" /\ ~ cbState
       /\ pc[App] \notin {"idle", "stop", "join"} => pc[Tm] \in Asleep
       /\ pc[App] \in InSafe \cup {"delete", "unsafe", "notify"} => pc[Rd] = "none"
       /\ pc[App] \in InSafe \cup {"unsafe", "notify"} => socket = "null"
       /\ pc[App] = "notify" => ~ safe /\ safeLock = None

(* After the destructor's first disconnect() nothing is left to stop.      *)
ReleaseInv == next[App] = "release" => pc[Tm] \in Asleep /\ pc[Rd] = "none" /\ ~ safe

Stopped == StopInv /\ ReleaseInv

-----------------------------------------------------------------------------
(* For sessions that do not overlap, besides.                              *)

(* The places of disconnect() and connectToSocket().                       *)
Before == {"close", "joinReader", "delete", "unsafe", "dial", "initialise"}
Reading == {"loop", "select", "header", "more", "body", "deliver"}
Making == {"enter", "stop", "callback", "leave"}

(* While start() runs it has no company but the dispatcher, which has the  *)
(* one callback of the connection made.                                    *)
FirstInv ==
  running /\ pc[App] # "idle" =>
    /\ pc[Tm] = "none" /\ pc[Rd] = "none"
    /\ pc[App] \in Before \cup {"start"} =>
         ~ cbState /\ told = "down" /\ pc[Cb] = "idle" /\ queue = <<>>
    /\ \A i \in 1..Len(queue) : queue[i] = "made"
    /\ pc[Cb] # "idle" => task[Cb] = "made"
    /\ pc[App] \in Making => task[App] = "made"
    /\ pc[App] = "stop" => next[App] = "callback"
    /\ pc[App] = "start" => safeLock # App
    /\ pc[App] \notin {"join", "reap", "runningCheck"}

(* One socket at a time, and one reader of it.                             *)
SocketInv ==
  /\ pc[Tm] \in {"delete", "unsafe", "dial", "initialise", "spawn"} \cup Making => pc[Rd] = "none"
  /\ pc[Tm] \in Making => task[Tm] = "made"
  /\ pc[Tm] \notin {"runningCheck", "start"}
  /\ \A d \in {App, Tm} :
       /\ pc[d] \in {"unsafe", "dial"} => socket = "null"
       /\ pc[d] = "initialise" => socket = "open"
       /\ \/ pc[d] = "spawn"
          \/ pc[d] \in {"enter", "callback", "leave"} /\ task[d] = "made"
          \/ pc[d] = "stop" /\ next[d] = "callback"
          => socket = "open" /\ cbState
  /\ pc[Rd] \in Reading => socket \in {"open", "closed"}
  /\ pc[Rd] \in Reading \cup {"lose"} => cbState
  /\ pc[Rd] \in {"enter", "callback", "leave"} /\ task[Rd] = "data" =>
       cbState /\ socket \in {"open", "closed"}

(* The loss of the connection has been reported.                           *)
Quiet ==
  /\ ~ cbState /\ told = "down" /\ queue = <<>>
  /\ pc[Cb] \in {"idle", "start", "reap", "leave"} /\ (pc[Cb] = "leave" => task[Cb] = "lost")
  /\ pc[Rd] \in {"none", "start", "reap", "leave", "exit", "ended"}
  /\ pc[Rd] = "leave" => task[Rd] = "lost"

(* The timer's worker redials when the application has no call under way   *)
(* but one that waits for it, and the last loss has been reported.         *)
WorkerInv ==
  pc[Tm] \notin Asleep =>
    /\ pc[App] \in {"idle", "stop", "join"} /\ next[App] # "release"
    /\ pc[App] # "idle" => next[App] = "close"
    /\ pc[Tm] \in Before => Quiet /\ pc[Cb] = "idle"

(* A connectionMade() that has not stopped the timer yet, and one that the *)
(* user has not heard of.                                                  *)
Waits(t) == task[t] = "made" /\ (pc[t] = "enter" \/ (pc[t] = "stop" /\ next[t] = "callback"))
MadeWaits == (\E i \in 1..Len(queue) : queue[i] = "made") \/ \E t \in Threads : Waits(t)
Unheard(t) ==
  /\ task[t] = "made"
  /\ pc[t] \in {"enter", "callback"} \/ (pc[t] \in {"stop", "join"} /\ next[t] = "callback")
MadeUnheard == (\E i \in 1..Len(queue) : queue[i] = "made") \/ \E t \in Threads : Unheard(t)

(* The timer runs, and its worker looks at the connection, only while      *)
(* connectionMade() is still to stop it or the connection is gone.         *)
ArmedInv ==
  /\ ~ mStop => MadeWaits \/ Quiet
  /\ pc[Tm] = "check" => MadeWaits \/ pc[Cb] = "join" \/ Quiet \/ ~ safe
  /\ MadeWaits /\ (~ safe \/ (~ running /\ pc[App] \notin {"idle", "stop", "join"})) => mStop

(* The queue holds the callbacks of one connection, in their order.        *)
Handles(t, what) ==
  task[t] = what /\ (pc[t] \in InSafe \cup {"start", "reap"} \/ InCallback(t))
QueueInv ==
  /\ \A i \in 1..Len(queue) : queue[i] = "made" => i = 1 /\ pc[Cb] = "idle"
  /\ \A i \in 1..Len(queue) : queue[i] = "lost" => i = Len(queue)
  /\ Handles(Cb, "lost") => queue = <<>>
  /\ cbState => /\ \A i \in 1..Len(queue) : queue[i] # "lost"
                /\ \A t \in {Rd, Cb} : ~ Handles(t, "lost")

(* What the user has been told, and what is still to be told.              *)
HeardInv ==
  /\ MadeUnheard => told = "down"
  /\ \A t \in {Cb, Rd} :
       task[t] = "lost" /\ pc[t] \in {"runningCheck", "start", "reap", "leave"} => told = "down"
  /\ \A t \in Threads :
       pc[t] \in {"runningCheck", "start", "reap"} /\ t # App => task[t] = "lost"
  /\ \A t \in Threads : InCallback(t) => safe
  /\ safe /\ ~ MadeUnheard
     /\ (cbState \/ (\E i \in 1..Len(queue) : queue[i] = "data")
                 \/ \E t \in {Cb, Rd} : task[t] = "data" /\ pc[t] \in {"enter", "callback"})
     => told = "up"

(* A loss that the user is still to be told of.                            *)
LostWaits ==
  \/ \E i \in 1..Len(queue) : queue[i] = "lost"
  \/ \E t \in Threads : task[t] = "lost" /\ pc[t] \in {"enter", "callback"}

(* A connection has a reader but while it is made or ended by a call of    *)
(* App or Tm.                                                              *)
ReaderInv ==
  cbState /\ pc[Rd] = "none" =>
    \/ pc[App] \in {"delete", "unsafe", "spawn", "enter", "callback", "leave"}
    \/ pc[App] = "stop" /\ next[App] = "callback"
    \/ pc[Tm] \in {"spawn"} \cup Making

(* Callbacks are let through as long as there is one to be made.           *)
SafeInv ==
  /\ told = "up" /\ next[App] # "release" /\ pc[App] # "notify" => safe
  /\ cbState \/ pc[Rd] # "none" => safe

(* A connection that the user has been told of, or is about to be, is      *)
(* still there, or the user is about to be told of its loss.               *)
TellInv == safe /\ (told = "up" \/ MadeUnheard) => cbState \/ LostWaits

RestInv == ReaderInv /\ SafeInv /\ TellInv

Session ==
  RestInv /\ FirstInv /\ SocketInv /\ WorkerInv /\ ArmedInv /\ QueueInv /\ HeardInv

(* Telling the timer to stop preserves the invariant of any client.        *)
LEMMA StopTimerStep ==
  ASSUME Inv, NEW t \in Threads, StopTimer(t)
  PROVE  Inv'
<1> USE DEF Inv, App, Tm, Rd, Cb, Threads, None
<1>1. DataInv'
  BY DEF DataInv, Callbacks, StopTimer, Goto, conn, guard, peer
<1>2. PlaceInv'
  BY DEF PlaceInv, AppPlaces, TmPlaces, RdPlaces, CbPlaces, Places, StopTimer, Goto, conn,
      guard, peer
<1>3. TaskInv'
  BY DEF TaskInv, PlaceInv, AppPlaces, TmPlaces, RdPlaces, CbPlaces, StopTimer, Goto, conn,
      guard, peer
<1>4. LockInv'
  BY DEF LockInv, PlaceInv, TaskInv, InCallback, AppPlaces, TmPlaces, RdPlaces, CbPlaces,
      StopTimer, Goto, conn, guard, peer
<1>5. DestroyInv'
  BY DEF DestroyInv, PlaceInv, TaskInv, AppPlaces, TmPlaces, RdPlaces, CbPlaces, StopTimer,
      Goto, conn, guard, peer
<1> QED
  BY <1>1, <1>2, <1>3, <1>4, <1>5

(* Joining the timer's worker preserves the invariant of any client.       *)
LEMMA JoinTimerStep ==
  ASSUME Inv, NEW t \in Threads, JoinTimer(t)
  PROVE  Inv'
<1> USE DEF Inv, App, Tm, Rd, Cb, Threads, None
<1>1. DataInv'
  BY DEF DataInv, Callbacks, JoinTimer, Goto, conn, guard, peer
<1>2. PlaceInv'
  BY DEF PlaceInv, AppPlaces, TmPlaces, RdPlaces, CbPlaces, Places, JoinTimer, Goto, conn,
      guard, peer
<1>3. TaskInv'
  BY DEF TaskInv, PlaceInv, AppPlaces, TmPlaces, RdPlaces, CbPlaces, JoinTimer, Goto, conn,
      guard, peer
<1>4. LockInv'
  BY DEF LockInv, PlaceInv, TaskInv, InCallback, AppPlaces, TmPlaces, RdPlaces, CbPlaces,
      JoinTimer, Goto, conn, guard, peer
<1>5. DestroyInv'
  BY DEF DestroyInv, PlaceInv, TaskInv, AppPlaces, TmPlaces, RdPlaces, CbPlaces, JoinTimer,
      Goto, conn, guard, peer
<1> QED
  BY <1>1, <1>2, <1>3, <1>4, <1>5

(* Starting the timer preserves the invariant of any client.               *)
LEMMA StartTimerStep ==
  ASSUME Inv, NEW t \in Threads, StartTimer(t)
  PROVE  Inv'
<1> USE DEF Inv, App, Tm, Rd, Cb, Threads, None
<1>1. DataInv'
  <2>1. mStop' \in BOOLEAN
    BY Zenon DEF StartTimer
  <2>2. lock' \in Threads \cup {None}
    BY SMT DEF DataInv, StartTimer
  <2> QED
    BY <2>1, <2>2, SMT DEF DataInv, StartTimer, conn, guard
<1>2. PlaceInv'
  <2>1. /\ pc' \in [Threads -> Places] /\ next' = next
        /\ pc'[t] \in {"reap", Started(t)}
        /\ \A s \in Threads : s # t => pc'[s] = pc[s] \/ (s = Tm /\ pc'[s] = "wait")
    BY SMT DEF PlaceInv, Places, StartTimer, Goto, Started
  <2>2. t = Rd => Started(t) = "leave"
    BY SMT DEF PlaceInv, StartTimer, LockInv, InCallback, Started
  <2>3. t # Tm /\ pc[t] = "start"
    BY DEF StartTimer
  <2> QED
    BY <2>1, <2>2, <2>3, SMT DEF PlaceInv, AppPlaces, TmPlaces, RdPlaces, CbPlaces, Started
<1>3. TaskInv'
  <2>1. /\ pc'[t] \in {"reap", "leave", "idle"}
        /\ \A s \in Threads : s # t => pc'[s] = pc[s] \/ (s = Tm /\ pc'[s] = "wait")
    BY SMT DEF PlaceInv, StartTimer, Goto, Started
  <2>2. t # Tm /\ pc[t] = "start"
    BY DEF StartTimer
  <2>3. mode = "async" => pc'[App] # "leave"
    BY SMT DEF PlaceInv, TaskInv, StartTimer, Goto, Started
  <2> QED
    BY <2>1, <2>2, <2>3, SMT DEF PlaceInv, TaskInv, StartTimer, guard
<1>4. LockInv'
  BY DEF LockInv, PlaceInv, TaskInv, InCallback, AppPlaces, TmPlaces, RdPlaces, CbPlaces,
      StartTimer, Goto, Started, conn, guard, peer
<1>5. DestroyInv'
  BY DEF DestroyInv, PlaceInv, TaskInv, AppPlaces, TmPlaces, RdPlaces, CbPlaces, StartTimer,
      Goto, Started, conn, guard, peer
<1> QED
  BY <1>1, <1>2, <1>3, <1>4, <1>5

(* The expiry of the timer preserves the invariant of any client.          *)
LEMMA TimerFiresStep ==
  ASSUME Inv, TimerFires
  PROVE  Inv'
<1> USE DEF Inv, App, Tm, Rd, Cb, Threads, None
<1>1. DataInv'
  BY DEF DataInv, Callbacks, TimerFires, Steps, Goto, timer, conn, guard, peer, OthersIdle
<1>2. PlaceInv'
  BY DEF PlaceInv, AppPlaces, TmPlaces, RdPlaces, CbPlaces, Places, TimerFires, Steps, Goto,
      timer, conn, guard, peer, OthersIdle
<1>3. TaskInv'
  BY DEF TaskInv, TimerFires, Steps, Goto, timer, conn, guard, peer, OthersIdle
<1>4. LockInv'
  BY DEF LockInv, InCallback, TimerFires, Steps, Goto, timer, conn, guard, peer, OthersIdle
<1>5. DestroyInv'
  BY DEF DestroyInv, TimerFires, Steps, Goto, timer, conn, guard, peer, OthersIdle
<1> QED
  BY <1>1, <1>2, <1>3, <1>4, <1>5

(* The timer worker's return to its loop, or its end, preserves the        *)
(* invariant of any client.                                                *)
LEMMA TimerLoopsStep ==
  ASSUME Inv, TimerLoops
  PROVE  Inv'
<1> USE DEF Inv, App, Tm, Rd, Cb, Threads, None
<1>1. DataInv'
  BY DEF DataInv, Callbacks, TimerLoops, Steps, Goto, timer, conn, guard, peer
<1>2. PlaceInv'
  BY DEF PlaceInv, AppPlaces, TmPlaces, RdPlaces, CbPlaces, Places, TimerLoops, Steps, Goto,
      timer, conn, guard, peer
<1>3. TaskInv'
  BY DEF TaskInv, PlaceInv, AppPlaces, TmPlaces, RdPlaces, CbPlaces, TimerLoops, Steps, Goto,
      timer, conn, guard, peer
<1>4. LockInv'
  BY DEF LockInv, PlaceInv, InCallback, TimerLoops, Steps, Goto, timer, guard
<1>5. DestroyInv'
  BY DEF DestroyInv, PlaceInv, TaskInv, AppPlaces, TmPlaces, RdPlaces, CbPlaces, TimerLoops,
      Steps, Goto, timer, conn, guard, peer
<1> QED
  BY <1>1, <1>2, <1>3, <1>4, <1>5

(* The timer's check whether the socket is connected preserves the         *)
(* invariant of any client.                                                *)
LEMMA TimerChecksStep ==
  ASSUME Inv, TimerChecks
  PROVE  Inv'
<1> USE DEF Inv, App, Tm, Rd, Cb, Threads, None
<1>1. DataInv'
  BY DEF DataInv, Callbacks, TimerChecks, Steps, Goto, timer, conn, guard, peer, IsConnected
<1>2. PlaceInv'
  BY DEF PlaceInv, AppPlaces, TmPlaces, RdPlaces, CbPlaces, Places, TimerChecks, Steps, Goto,
      timer, conn, guard, peer, IsConnected
<1>3. TaskInv'
  BY DEF TaskInv, TimerChecks, Steps, Goto, timer, conn, guard, peer, IsConnected
<1>4. LockInv'
  BY DEF LockInv, InCallback, TimerChecks, Steps, Goto, timer, conn, guard, peer, IsConnected
<1>5. DestroyInv'
  BY DEF DestroyInv, TimerChecks, Steps, Goto, timer, conn, guard, peer, IsConnected
<1> QED
  BY <1>1, <1>2, <1>3, <1>4, <1>5

(* Closing the socket under the reader preserves the invariant of any      *)
(* client.                                                                 *)
LEMMA CloseStep ==
  ASSUME Inv, NEW d \in {App, Tm}, Close(d)
  PROVE  Inv'
<1> USE DEF Inv, App, Tm, Rd, Cb, Threads, None
<1>1. DataInv'
  BY DEF DataInv, Callbacks, Close, Goto, timer, guard, peer
<1>2. PlaceInv'
  BY DEF PlaceInv, AppPlaces, TmPlaces, RdPlaces, CbPlaces, Places, Close, Goto, timer, guard,
      peer
<1>3. TaskInv'
  BY DEF TaskInv, Close, Goto, timer, guard, peer
<1>4. LockInv'
  BY DEF LockInv, InCallback, Close, Goto, timer, guard, peer
<1>5. DestroyInv'
  BY DEF DestroyInv, Close, Goto, timer, guard, peer
<1> QED
  BY <1>1, <1>2, <1>3, <1>4, <1>5

(* Joining the reader preserves the invariant of any client.               *)
LEMMA JoinReaderStep ==
  ASSUME Inv, NEW d \in {App, Tm}, JoinReader(d)
  PROVE  Inv'
<1> USE DEF Inv, App, Tm, Rd, Cb, Threads, None
<1>1. DataInv'
  BY DEF DataInv, Callbacks, JoinReader, timer, conn, guard, peer
<1>2. PlaceInv'
  BY DEF PlaceInv, AppPlaces, TmPlaces, RdPlaces, CbPlaces, Places, JoinReader, timer, conn,
      guard, peer
<1>3. TaskInv'
  BY DEF TaskInv, PlaceInv, AppPlaces, TmPlaces, RdPlaces, CbPlaces, JoinReader, timer, conn,
      guard, peer
<1>4. LockInv'
  BY DEF LockInv, PlaceInv, TaskInv, InCallback, AppPlaces, TmPlaces, RdPlaces, CbPlaces,
      JoinReader, timer, conn, guard, peer
<1>5. DestroyInv'
  BY DEF DestroyInv, PlaceInv, TaskInv, AppPlaces, TmPlaces, RdPlaces, CbPlaces, JoinReader,
      timer, conn, guard, peer
<1> QED
  BY <1>1, <1>2, <1>3, <1>4, <1>5

(* Deleting the socket, which may report the loss, preserves the invariant *)
(* of any client.                                                          *)
LEMMA DeleteStep ==
  ASSUME Inv, NEW d \in {App, Tm}, Delete(d)
  PROVE  Inv'
<1> USE DEF Inv, App, Tm, Rd, Cb, Threads, None
<1>1. DataInv'
  <2>1. "lost" \in Callbacks /\ d \in Threads
    BY DEF Callbacks
  <2>2. Dispatch(d, "lost", "unsafe") \/ UNCHANGED << queue, task >>
    BY Zenon DEF Delete
  <2>3. queue' \in Seq(Callbacks) /\ task' \in [Threads -> Callbacks \cup {None}]
    BY <2>1, <2>2, DispatchTypes, Zenon DEF DataInv
  <2>4. cbState' \in BOOLEAN
    BY Zenon DEF DataInv, Delete
  <2> QED
    BY <2>3, <2>4, SMT DEF DataInv, Delete, timer, guard
<1>2. PlaceInv'
  BY DEF PlaceInv, AppPlaces, TmPlaces, RdPlaces, CbPlaces, Places, Delete, Goto, Dispatch,
      timer, guard, peer
<1>3. TaskInv'
  <2>1. "lost" \in Callbacks /\ "unsafe" \in Places /\ d \in Threads
    BY DEF Callbacks, Places
  <2>2. /\ mode = "async" => task' = task
        /\ mode # "async" => /\ queue' = queue
                             /\ \A s \in Threads :
                                  task'[s] = task[s] \/ (s = d /\ task'[s] = "lost")
        /\ \A s \in Threads : pc'[s] = pc[s] \/ (s = d /\ pc'[s] \in {"unsafe", "enter"})
        /\ mode = "async" => pc'[d] = "unsafe"
    <3>1. CASE Dispatch(d, "lost", "unsafe")
      <4>1. /\ mode = "async" =>
                 task' = task /\ pc' = [s \in Threads |-> IF s = d THEN "unsafe" ELSE pc[s]]
            /\ mode # "async" =>
                 /\ task' = [s \in Threads |-> IF s = d THEN "lost" ELSE task[s]]
                 /\ pc' = [s \in Threads |-> IF s = d THEN "enter" ELSE pc[s]]
                 /\ queue' = queue
        BY <2>1, <3>1, Dispatched DEF Inv
      <4> QED
        BY <4>1, Zenon
    <3>2. CASE UNCHANGED << queue, task >> /\ Goto(d, "unsafe")
      <4>1. pc' = [s \in Threads |-> IF s = d THEN "unsafe" ELSE pc[s]]
        BY <3>2, Zenon DEF PlaceInv, Goto
      <4> QED
        BY <3>2, <4>1, Zenon
    <3> QED
      BY <3>1, <3>2, Zenon DEF Delete
  <2>3. UNCHANGED << mode, next, safeLock >>
    BY DEF Delete, guard
  <2> QED
    BY <2>2, <2>3, ModesAssumption, SMT DEF DataInv, PlaceInv, TaskInv, RdPlaces, Delete
<1>4. LockInv'
  BY DEF LockInv, PlaceInv, TaskInv, InCallback, AppPlaces, TmPlaces, RdPlaces, CbPlaces,
      Delete, Goto, Dispatch, timer, guard, peer
<1>5. DestroyInv'
  BY DEF DestroyInv, PlaceInv, TaskInv, AppPlaces, TmPlaces, RdPlaces, CbPlaces, Delete, Goto,
      Dispatch, timer, guard, peer
<1> QED
  BY <1>1, <1>2, <1>3, <1>4, <1>5

(* The end of disconnect() preserves the invariant of any client.          *)
LEMMA UnsafeStep ==
  ASSUME Inv, NEW d \in {App, Tm}, Unsafe(d)
  PROVE  Inv'
<1> USE DEF Inv, App, Tm, Rd, Cb, Threads, None
<1>1. DataInv'
  BY DEF DataInv, Callbacks, Unsafe, AfterDisconnect, Goto, CallStop, timer, peer
<1>2. PlaceInv'
  BY DEF PlaceInv, AppPlaces, TmPlaces, RdPlaces, CbPlaces, Places, Unsafe, AfterDisconnect,
      Goto, CallStop, timer, peer
<1>3. TaskInv'
  BY DEF TaskInv, PlaceInv, AppPlaces, TmPlaces, RdPlaces, CbPlaces, Unsafe, AfterDisconnect,
      Goto, CallStop, timer, peer
<1>4. LockInv'
  BY DEF LockInv, PlaceInv, TaskInv, InCallback, AppPlaces, TmPlaces, RdPlaces, CbPlaces,
      Unsafe, AfterDisconnect, Goto, CallStop, timer, peer
<1>5. DestroyInv'
  BY DEF DestroyInv, PlaceInv, LockInv, InCallback, Unsafe, AfterDisconnect, Goto, CallStop,
      timer
<1> QED
  BY <1>1, <1>2, <1>3, <1>4, <1>5

(* A dial that fails preserves the invariant of any client.                *)
LEMMA DialFailsStep ==
  ASSUME Inv, NEW d \in {App, Tm}, DialFails(d)
  PROVE  Inv'
<1> USE DEF Inv, App, Tm, Rd, Cb, Threads, None
<1>1. DataInv'
  BY DEF DataInv, Callbacks, DialFails, Steps, Goto, timer, conn, guard, peer
<1>2. PlaceInv'
  BY DEF PlaceInv, AppPlaces, TmPlaces, RdPlaces, CbPlaces, Places, DialFails, Steps, Goto,
      timer, conn, guard, peer
<1>3. TaskInv'
  BY DEF TaskInv, DialFails, Steps, Goto, timer, conn, guard, peer
<1>4. LockInv'
  BY DEF LockInv, InCallback, DialFails, Steps, Goto, timer, conn, guard, peer
<1>5. DestroyInv'
  BY DEF DestroyInv, DialFails, Steps, Goto, timer, conn, guard, peer
<1> QED
  BY <1>1, <1>2, <1>3, <1>4, <1>5

(* A dial that succeeds preserves the invariant of any client.             *)
LEMMA DialSucceedsStep ==
  ASSUME Inv, NEW d \in {App, Tm}, DialSucceeds(d)
  PROVE  Inv'
<1> USE DEF Inv, App, Tm, Rd, Cb, Threads, None
<1>1. DataInv'
  BY DEF DataInv, Callbacks, DialSucceeds, Goto, timer, guard
<1>2. PlaceInv'
  BY DEF PlaceInv, AppPlaces, TmPlaces, RdPlaces, CbPlaces, Places, DialSucceeds, Goto, timer,
      guard
<1>3. TaskInv'
  BY DEF TaskInv, DialSucceeds, Goto, timer, guard
<1>4. LockInv'
  BY DEF LockInv, InCallback, DialSucceeds, Goto, timer, guard
<1>5. DestroyInv'
  BY DEF DestroyInv, DialSucceeds, Goto, timer, guard
<1> QED
  BY <1>1, <1>2, <1>3, <1>4, <1>5

(* initialise(), which reports the connection, preserves the invariant of  *)
(* any client.                                                             *)
LEMMA InitialiseStep ==
  ASSUME Inv, NEW d \in {App, Tm}, Initialise(d)
  PROVE  Inv'
<1> USE DEF Inv, App, Tm, Rd, Cb, Threads, None
<1>1. DataInv'
  BY DEF DataInv, Callbacks, Initialise, Dispatch, Goto, timer, peer
<1>2. PlaceInv'
  BY DEF PlaceInv, AppPlaces, TmPlaces, RdPlaces, CbPlaces, Places, Initialise, Dispatch, Goto,
      timer, peer
<1>3. TaskInv'
  <2>1. CASE mode = "async"
    BY <2>1, SMT DEF PlaceInv, TaskInv, Initialise, Dispatch, Goto, guard
  <2>2. CASE mode # "async"
    BY <2>2, ModesAssumption DEF DataInv, PlaceInv, TaskInv, Initialise, Dispatch, Goto
  <2> QED
    BY <2>1, <2>2
<1>4. LockInv'
  BY DEF LockInv, PlaceInv, TaskInv, InCallback, AppPlaces, TmPlaces, RdPlaces, CbPlaces,
      Initialise, Dispatch, Goto, timer, peer
<1>5. DestroyInv'
  BY DEF DestroyInv, PlaceInv, TaskInv, AppPlaces, TmPlaces, RdPlaces, CbPlaces, Initialise,
      Dispatch, Goto, timer, peer
<1> QED
  BY <1>1, <1>2, <1>3, <1>4, <1>5

(* Creating the reader preserves the invariant of any client.              *)
LEMMA SpawnStep ==
  ASSUME Inv, NEW d \in {App, Tm}, Spawn(d)
  PROVE  Inv'
<1> USE DEF Inv, App, Tm, Rd, Cb, Threads, None
<1>1. DataInv'
  <2>1. shouldExit' \in BOOLEAN
    BY Zenon DEF Spawn
  <2> QED
    BY <2>1, SMT DEF DataInv, Spawn, timer, guard
<1>2. PlaceInv'
  BY DEF PlaceInv, AppPlaces, TmPlaces, RdPlaces, CbPlaces, Places, Spawn, timer, guard, peer
<1>3. TaskInv'
  BY DEF TaskInv, PlaceInv, AppPlaces, TmPlaces, RdPlaces, CbPlaces, Spawn, timer, guard, peer
<1>4. LockInv'
  BY DEF LockInv, PlaceInv, TaskInv, InCallback, AppPlaces, TmPlaces, RdPlaces, CbPlaces, Spawn,
      timer, guard, peer
<1>5. DestroyInv'
  BY DEF DestroyInv, PlaceInv, TaskInv, AppPlaces, TmPlaces, RdPlaces, CbPlaces, Spawn, timer,
      guard, peer
<1> QED
  BY <1>1, <1>2, <1>3, <1>4, <1>5

(* The reader's check whether it is to exit preserves the invariant of any *)
(* client.                                                                 *)
LEMMA LoopStep ==
  ASSUME Inv, Loop
  PROVE  Inv'
<1> USE DEF Inv, App, Tm, Rd, Cb, Threads, None
<1>1. DataInv'
  BY DEF DataInv, Callbacks, Loop, Steps, Goto, timer, conn, guard, peer
<1>2. PlaceInv'
  BY DEF PlaceInv, AppPlaces, TmPlaces, RdPlaces, CbPlaces, Places, Loop, Steps, Goto, timer,
      conn, guard, peer
<1>3. TaskInv'
  BY DEF TaskInv, Loop, Steps, Goto, timer, conn, guard, peer
<1>4. LockInv'
  BY DEF LockInv, InCallback, Loop, Steps, Goto, timer, conn, guard, peer
<1>5. DestroyInv'
  BY DEF DestroyInv, Loop, Steps, Goto, timer, conn, guard, peer
<1> QED
  BY <1>1, <1>2, <1>3, <1>4, <1>5

(* The reader's wait for data preserves the invariant of any client.       *)
LEMMA SelectStep ==
  ASSUME Inv, Select
  PROVE  Inv'
<1> USE DEF Inv, App, Tm, Rd, Cb, Threads, None
<1>1. DataInv'
  BY DEF DataInv, Callbacks, Select, Steps, Goto, timer, conn, guard, peer, Readable
<1>2. PlaceInv'
  BY DEF PlaceInv, AppPlaces, TmPlaces, RdPlaces, CbPlaces, Places, Select, Steps, Goto, timer,
      conn, guard, peer, Readable
<1>3. TaskInv'
  BY DEF TaskInv, PlaceInv, AppPlaces, TmPlaces, RdPlaces, CbPlaces, Select, Steps, Goto, timer,
      conn, guard, peer, Readable
<1>4. LockInv'
  BY DEF LockInv, PlaceInv, InCallback, Select, Steps, Goto, timer, guard
<1>5. DestroyInv'
  BY DEF DestroyInv, PlaceInv, Select, Steps, Goto, timer
<1> QED
  BY <1>1, <1>2, <1>3, <1>4, <1>5

(* Reading a header preserves the invariant of any client.                 *)
LEMMA ReadHeaderStep ==
  ASSUME Inv, ReadHeader
  PROVE  Inv'
<1> USE DEF Inv, App, Tm, Rd, Cb, Threads, None
<1>1. DataInv'
  BY DEF DataInv, Callbacks, ReadHeader, Goto, timer, guard, peer
<1>2. PlaceInv'
  BY DEF PlaceInv, AppPlaces, TmPlaces, RdPlaces, CbPlaces, Places, ReadHeader, Goto, timer,
      guard, peer
<1>3. TaskInv'
  BY DEF TaskInv, PlaceInv, AppPlaces, TmPlaces, RdPlaces, CbPlaces, ReadHeader, Goto, timer,
      guard, peer
<1>4. LockInv'
  BY DEF LockInv, PlaceInv, TaskInv, InCallback, AppPlaces, TmPlaces, RdPlaces, CbPlaces,
      ReadHeader, Goto, timer, guard, peer
<1>5. DestroyInv'
  BY DEF DestroyInv, PlaceInv, TaskInv, AppPlaces, TmPlaces, RdPlaces, CbPlaces, ReadHeader,
      Goto, timer, guard, peer
<1> QED
  BY <1>1, <1>2, <1>3, <1>4, <1>5

(* The check before a part of the body preserves the invariant of any      *)
(* client.                                                                 *)
LEMMA MoreStep ==
  ASSUME Inv, More
  PROVE  Inv'
<1> USE DEF Inv, App, Tm, Rd, Cb, Threads, None
<1>1. DataInv'
  BY DEF DataInv, Callbacks, More, Steps, Goto, timer, conn, guard, peer
<1>2. PlaceInv'
  BY DEF PlaceInv, AppPlaces, TmPlaces, RdPlaces, CbPlaces, Places, More, Steps, Goto, timer,
      conn, guard, peer
<1>3. TaskInv'
  BY DEF TaskInv, More, Steps, Goto, timer, conn, guard, peer
<1>4. LockInv'
  BY DEF LockInv, InCallback, More, Steps, Goto, timer, conn, guard, peer
<1>5. DestroyInv'
  BY DEF DestroyInv, More, Steps, Goto, timer, conn, guard, peer
<1> QED
  BY <1>1, <1>2, <1>3, <1>4, <1>5

(* Reading a body preserves the invariant of any client.                   *)
LEMMA ReadBodyStep ==
  ASSUME Inv, ReadBody
  PROVE  Inv'
<1> USE DEF Inv, App, Tm, Rd, Cb, Threads, None
<1>1. DataInv'
  BY DEF DataInv, Callbacks, ReadBody, Goto, timer, guard
<1>2. PlaceInv'
  BY DEF PlaceInv, AppPlaces, TmPlaces, RdPlaces, CbPlaces, Places, ReadBody, Goto, timer, guard
<1>3. TaskInv'
  BY DEF TaskInv, PlaceInv, AppPlaces, TmPlaces, RdPlaces, CbPlaces, ReadBody, Goto, timer, guard
<1>4. LockInv'
  BY DEF LockInv, PlaceInv, TaskInv, InCallback, AppPlaces, TmPlaces, RdPlaces, CbPlaces,
      ReadBody, Goto, timer, guard
<1>5. DestroyInv'
  BY DEF DestroyInv, PlaceInv, TaskInv, AppPlaces, TmPlaces, RdPlaces, CbPlaces, ReadBody, Goto,
      timer, guard
<1> QED
  BY <1>1, <1>2, <1>3, <1>4, <1>5

(* Reporting a message preserves the invariant of any client.              *)
LEMMA DeliverStep ==
  ASSUME Inv, Deliver
  PROVE  Inv'
<1> USE DEF Inv, App, Tm, Rd, Cb, Threads, None
<1>1. DataInv'
  <2>1. "data" \in Callbacks /\ Rd \in Threads
    BY DEF Callbacks
  <2>2. Dispatch(Rd, "data", "loop")
    BY Zenon DEF Deliver
  <2>3. queue' \in Seq(Callbacks) /\ task' \in [Threads -> Callbacks \cup {None}]
    BY <2>1, <2>2, DispatchTypes, Zenon DEF DataInv
  <2> QED
    BY <2>3, SMT DEF DataInv, Deliver, timer, conn, guard, peer
<1>2. PlaceInv'
  BY DEF PlaceInv, AppPlaces, TmPlaces, RdPlaces, CbPlaces, Places, Deliver, Dispatch, Goto,
      timer, conn, guard, peer
<1>3. TaskInv'
  <2>1. "data" \in Callbacks /\ "loop" \in Places
    BY DEF Callbacks, Places
  <2>2. /\ mode = "async" => task' = task
        /\ mode # "async" => /\ queue' = queue
                             /\ \A s \in Threads :
                                  task'[s] = task[s] \/ (s = Rd /\ task'[s] = "data")
        /\ \A s \in Threads : pc'[s] = pc[s] \/ (s = Rd /\ pc'[s] \in {"loop", "enter"})
        /\ mode = "async" => pc'[Rd] = "loop"
    <3>1. Dispatch(Rd, "data", "loop")
      BY Zenon DEF Deliver
    <3> QED
      <4>1. /\ mode = "async" =>
                 task' = task /\ pc' = [s \in Threads |-> IF s = Rd THEN "loop" ELSE pc[s]]
            /\ mode # "async" =>
                 /\ task' = [s \in Threads |-> IF s = Rd THEN "data" ELSE task[s]]
                 /\ pc' = [s \in Threads |-> IF s = Rd THEN "enter" ELSE pc[s]]
                 /\ queue' = queue
        BY <2>1, <3>1, Dispatched, Zenon DEF Inv
      <4> QED
        BY <4>1, Zenon
  <2>3. UNCHANGED << mode, next, safeLock >>
    BY DEF Deliver, guard
  <2> QED
    BY <2>2, <2>3, ModesAssumption, SMT DEF DataInv, PlaceInv, TaskInv, RdPlaces, Deliver
<1>4. LockInv'
  BY DEF LockInv, PlaceInv, InCallback, Deliver, Dispatch, Goto, timer, guard
<1>5. DestroyInv'
  BY DEF DestroyInv, PlaceInv, TaskInv, AppPlaces, TmPlaces, RdPlaces, CbPlaces, Deliver,
      Dispatch, Goto, timer, conn, guard, peer
<1> QED
  BY <1>1, <1>2, <1>3, <1>4, <1>5

(* The reader's report of the loss preserves the invariant of any client.  *)
LEMMA LoseStep ==
  ASSUME Inv, Lose
  PROVE  Inv'
<1> USE DEF Inv, App, Tm, Rd, Cb, Threads, None
<1>1. DataInv'
  <2>1. "lost" \in Callbacks /\ Rd \in Threads
    BY DEF Callbacks
  <2>2. Dispatch(Rd, "lost", "exit") \/ UNCHANGED << queue, task >>
    BY Zenon DEF Lose
  <2>3. queue' \in Seq(Callbacks) /\ task' \in [Threads -> Callbacks \cup {None}]
    BY <2>1, <2>2, DispatchTypes, Zenon DEF DataInv
  <2>4. cbState' \in BOOLEAN
    BY Zenon DEF DataInv, Lose
  <2> QED
    BY <2>3, <2>4, SMT DEF DataInv, Lose, timer, guard
<1>2. PlaceInv'
  BY DEF PlaceInv, AppPlaces, TmPlaces, RdPlaces, CbPlaces, Places, Lose, Goto, Dispatch, timer,
      guard, peer
<1>3. TaskInv'
  <2>1. "lost" \in Callbacks /\ "exit" \in Places
    BY DEF Callbacks, Places
  <2>2. /\ mode = "async" => task' = task
        /\ mode # "async" => /\ queue' = queue
                             /\ \A s \in Threads :
                                  task'[s] = task[s] \/ (s = Rd /\ task'[s] = "lost")
        /\ \A s \in Threads : pc'[s] = pc[s] \/ (s = Rd /\ pc'[s] \in {"exit", "enter"})
        /\ mode = "async" => pc'[Rd] = "exit"
    <3>1. CASE Dispatch(Rd, "lost", "exit")
      <4>1. /\ mode = "async" =>
                 task' = task /\ pc' = [s \in Threads |-> IF s = Rd THEN "exit" ELSE pc[s]]
            /\ mode # "async" =>
                 /\ task' = [s \in Threads |-> IF s = Rd THEN "lost" ELSE task[s]]
                 /\ pc' = [s \in Threads |-> IF s = Rd THEN "enter" ELSE pc[s]]
                 /\ queue' = queue
        BY <2>1, <3>1, Dispatched, Zenon DEF Inv
      <4> QED
        BY <4>1, Zenon
    <3>2. CASE UNCHANGED << queue, task >> /\ Goto(Rd, "exit")
      <4>1. pc' = [s \in Threads |-> IF s = Rd THEN "exit" ELSE pc[s]]
        BY <3>2, Zenon DEF PlaceInv, Goto
      <4> QED
        BY <3>2, <4>1, Zenon
    <3> QED
      BY <3>1, <3>2, Zenon DEF Lose
  <2>3. UNCHANGED << mode, next, safeLock >>
    BY DEF Lose, guard
  <2> QED
    BY <2>2, <2>3, ModesAssumption, SMT DEF DataInv, PlaceInv, TaskInv, RdPlaces, Lose
<1>4. LockInv'
  BY DEF LockInv, PlaceInv, TaskInv, InCallback, AppPlaces, TmPlaces, RdPlaces, CbPlaces, Lose,
      Goto, Dispatch, timer, guard, peer
<1>5. DestroyInv'
  BY DEF DestroyInv, PlaceInv, TaskInv, AppPlaces, TmPlaces, RdPlaces, CbPlaces, Lose, Goto,
      Dispatch, timer, guard, peer
<1> QED
  BY <1>1, <1>2, <1>3, <1>4, <1>5

(* The end of the reader preserves the invariant of any client.            *)
LEMMA ExitStep ==
  ASSUME Inv, Exit
  PROVE  Inv'
<1> USE DEF Inv, App, Tm, Rd, Cb, Threads, None
<1>1. DataInv'
  <2>1. reading' \in BOOLEAN
    BY Zenon DEF Exit
  <2> QED
    BY <2>1, SMT DEF DataInv, Exit, timer, guard
<1>2. PlaceInv'
  BY DEF PlaceInv, AppPlaces, TmPlaces, RdPlaces, CbPlaces, Places, Exit, Goto, timer, guard,
      peer
<1>3. TaskInv'
  BY DEF TaskInv, Exit, Goto, timer, guard, peer
<1>4. LockInv'
  BY DEF LockInv, InCallback, Exit, Goto, timer, guard, peer
<1>5. DestroyInv'
  BY DEF DestroyInv, Exit, Goto, timer, guard, peer
<1> QED
  BY <1>1, <1>2, <1>3, <1>4, <1>5

(* The dispatcher's next task preserves the invariant of any client.       *)
LEMMA TakeStep ==
  ASSUME Inv, Take
  PROVE  Inv'
<1> USE DEF Inv, App, Tm, Rd, Cb, Threads, None
<1>1. DataInv'
  BY DEF DataInv, Callbacks, Take, Goto, timer, conn, guard, peer
<1>2. PlaceInv'
  BY DEF PlaceInv, AppPlaces, TmPlaces, RdPlaces, CbPlaces, Places, Take, Goto, timer, conn,
      guard, peer
<1>3. TaskInv'
  BY DEF TaskInv, Take, Goto, timer, conn, guard, peer
<1>4. LockInv'
  BY DEF LockInv, InCallback, Take, Goto, timer, conn, guard, peer
<1>5. DestroyInv'
  BY DEF DestroyInv, Take, Goto, timer, conn, guard, peer
<1> QED
  BY <1>1, <1>2, <1>3, <1>4, <1>5

(* Entering ifSafe(), or being turned away, preserves the invariant of any *)
(* client.                                                                 *)
LEMMA EnterStep ==
  ASSUME Inv, NEW t \in Threads, Enter(t)
  PROVE  Inv'
<1> USE DEF Inv, App, Tm, Rd, Cb, Threads, None
<1>1. DataInv'
  BY DEF DataInv, Callbacks, Enter, Goto, CallStop, After, timer, conn, peer
<1>2. PlaceInv'
  BY DEF PlaceInv, TaskInv, AppPlaces, TmPlaces, RdPlaces, CbPlaces, Places, Enter, Goto,
      CallStop, After, timer, conn, peer
<1>3. TaskInv'
  BY DEF TaskInv, PlaceInv, AppPlaces, TmPlaces, RdPlaces, CbPlaces, Enter, Goto, CallStop,
      After, timer, conn, peer
<1>4. LockInv'
  BY DEF LockInv, PlaceInv, InCallback, Enter, Goto, CallStop, After, timer
<1>5. DestroyInv'
  BY DEF DestroyInv, PlaceInv, TaskInv, AppPlaces, TmPlaces, RdPlaces, CbPlaces, Enter, Goto,
      CallStop, After, timer, conn, peer
<1> QED
  BY <1>1, <1>2, <1>3, <1>4, <1>5

(* The user's callback preserves the invariant of any client.              *)
LEMMA CallbackStep ==
  ASSUME Inv, NEW t \in Threads, Callback(t)
  PROVE  Inv'
<1> USE DEF Inv, App, Tm, Rd, Cb, Threads, None
<1>1. DataInv'
  BY DEF DataInv, Callbacks, Callback, Goto, timer, conn, guard, peer
<1>2. PlaceInv'
  BY DEF PlaceInv, AppPlaces, TmPlaces, RdPlaces, CbPlaces, Places, Callback, Goto, timer, conn,
      guard, peer
<1>3. TaskInv'
  BY DEF TaskInv, Callback, Goto, timer, conn, guard, peer
<1>4. LockInv'
  BY DEF LockInv, InCallback, Callback, Goto, timer, conn, guard, peer
<1>5. DestroyInv'
  BY DEF DestroyInv, Callback, Goto, timer, conn, guard, peer
<1> QED
  BY <1>1, <1>2, <1>3, <1>4, <1>5

(* connectionLost()'s check whether to redial preserves the invariant of   *)
(* any client.                                                             *)
LEMMA RunningCheckStep ==
  ASSUME Inv, NEW t \in Threads, RunningCheck(t)
  PROVE  Inv'
<1> USE DEF Inv, App, Tm, Rd, Cb, Threads, None
<1>1. DataInv'
  BY DEF DataInv, Callbacks, RunningCheck, Steps, Goto, timer, conn, guard, peer
<1>2. PlaceInv'
  BY DEF PlaceInv, AppPlaces, TmPlaces, RdPlaces, CbPlaces, Places, RunningCheck, Steps, Goto,
      timer, conn, guard, peer
<1>3. TaskInv'
  BY DEF TaskInv, RunningCheck, Steps, Goto, timer, conn, guard, peer
<1>4. LockInv'
  BY DEF LockInv, InCallback, RunningCheck, Steps, Goto, timer, conn, guard, peer
<1>5. DestroyInv'
  BY DEF DestroyInv, RunningCheck, Steps, Goto, timer, conn, guard, peer
<1> QED
  BY <1>1, <1>2, <1>3, <1>4, <1>5

(* Leaving ifSafe() preserves the invariant of any client.                 *)
LEMMA LeaveStep ==
  ASSUME Inv, NEW t \in Threads, Leave(t)
  PROVE  Inv'
<1> USE DEF Inv, App, Tm, Rd, Cb, Threads, None
<1>1. DataInv'
  BY DEF DataInv, Callbacks, Leave, Goto, After, timer, conn, peer
<1>2. PlaceInv'
  BY DEF PlaceInv, AppPlaces, TmPlaces, RdPlaces, CbPlaces, Places, Leave, Goto, After, timer,
      conn, peer
<1>3. TaskInv'
  BY DEF TaskInv, Leave, Goto, After, timer, conn, peer
<1>4. LockInv'
  BY DEF LockInv, PlaceInv, TaskInv, InCallback, AppPlaces, TmPlaces, RdPlaces, CbPlaces, Leave,
      Goto, After, timer, conn, peer
<1>5. DestroyInv'
  BY DEF DestroyInv, Leave, Goto, After, timer, conn, peer
<1> QED
  BY <1>1, <1>2, <1>3, <1>4, <1>5

(* start() preserves the invariant of any client.                          *)
LEMMA StartStep ==
  ASSUME Inv, Start
  PROVE  Inv'
<1> USE DEF Inv, App, Tm, Rd, Cb, Threads, None
<1>1. DataInv'
  BY DEF DataInv, Callbacks, Start, Goto, Spend, timer, conn, guard, peer
<1>2. PlaceInv'
  BY DEF PlaceInv, AppPlaces, TmPlaces, RdPlaces, CbPlaces, Places, Start, Goto, Spend, timer,
      conn, guard, peer
<1>3. TaskInv'
  BY DEF TaskInv, Start, Goto, Spend, timer, conn, guard, peer
<1>4. LockInv'
  BY DEF LockInv, InCallback, Start, Goto, Spend, timer, conn, guard, peer
<1>5. DestroyInv'
  BY DEF DestroyInv, Start, Goto, Spend, timer, conn, guard, peer
<1> QED
  BY <1>1, <1>2, <1>3, <1>4, <1>5

(* stop() preserves the invariant of any client.                           *)
LEMMA StopStep ==
  ASSUME Inv, Stop
  PROVE  Inv'
<1> USE DEF Inv, App, Tm, Rd, Cb, Threads, None
<1>1. DataInv'
  <2>1. running' \in BOOLEAN
    BY Zenon DEF Stop
  <2> QED
    BY <2>1, SMT DEF DataInv, Stop, timer, conn, guard
<1>2. PlaceInv'
  BY DEF PlaceInv, AppPlaces, TmPlaces, RdPlaces, CbPlaces, Places, Stop, Spend, CallStop, Goto,
      timer, conn, guard, peer
<1>3. TaskInv'
  BY DEF TaskInv, PlaceInv, AppPlaces, TmPlaces, RdPlaces, CbPlaces, Stop, Spend, CallStop,
      Goto, timer, conn, guard, peer
<1>4. LockInv'
  BY DEF LockInv, PlaceInv, InCallback, Stop, CallStop, Goto, timer, guard
<1>5. DestroyInv'
  BY DEF DestroyInv, Stop, Spend, CallStop, Goto, timer, conn, guard, peer
<1> QED
  BY <1>1, <1>2, <1>3, <1>4, <1>5

(* The last line of stop() preserves the invariant of any client.          *)
LEMMA NotifyStep ==
  ASSUME Inv, Notify
  PROVE  Inv'
<1> USE DEF Inv, App, Tm, Rd, Cb, Threads, None
<1>1. DataInv'
  BY DEF DataInv, Callbacks, Notify, Goto, IsConnected, timer, conn, guard, peer
<1>2. PlaceInv'
  BY DEF PlaceInv, AppPlaces, TmPlaces, RdPlaces, CbPlaces, Places, Notify, Goto, IsConnected,
      timer, conn, guard, peer
<1>3. TaskInv'
  BY DEF TaskInv, Notify, Goto, IsConnected, timer, conn, guard, peer
<1>4. LockInv'
  BY DEF LockInv, InCallback, Notify, Goto, IsConnected, timer, conn, guard, peer
<1>5. DestroyInv'
  BY DEF DestroyInv, Notify, Goto, IsConnected, timer, conn, guard, peer
<1> QED
  BY <1>1, <1>2, <1>3, <1>4, <1>5

(* The beginning of the client's destructor preserves the invariant of any *)
(* client.                                                                 *)
LEMMA DestroyStep ==
  ASSUME Inv, Destroy
  PROVE  Inv'
<1> USE DEF Inv, App, Tm, Rd, Cb, Threads, None
<1>1. DataInv'
  <2>1. alive' \in BOOLEAN /\ running' \in BOOLEAN
    BY Zenon DEF Destroy
  <2> QED
    BY <2>1, SMT DEF DataInv, Destroy, timer, conn, guard, peer
<1>2. PlaceInv'
  BY DEF PlaceInv, AppPlaces, TmPlaces, RdPlaces, CbPlaces, Places, Destroy, CallStop, Goto,
      timer, conn, guard, peer
<1>3. TaskInv'
  BY DEF TaskInv, PlaceInv, AppPlaces, TmPlaces, RdPlaces, CbPlaces, Destroy, CallStop, Goto,
      timer, conn, guard, peer
<1>4. LockInv'
  BY DEF LockInv, PlaceInv, InCallback, Destroy, CallStop, Goto, timer, guard
<1>5. DestroyInv'
  BY DEF DestroyInv, PlaceInv, TaskInv, AppPlaces, TmPlaces, RdPlaces, CbPlaces, Destroy,
      CallStop, Goto, timer, conn, guard, peer
<1> QED
  BY <1>1, <1>2, <1>3, <1>4, <1>5

(* The beginning of the connection's destructor preserves the invariant of *)
(* any client.                                                             *)
LEMMA ReleaseStep ==
  ASSUME Inv, Release
  PROVE  Inv'
<1> USE DEF Inv, App, Tm, Rd, Cb, Threads, None
<1>1. DataInv'
  <2>1. cbState' \in BOOLEAN
    BY Zenon DEF Release
  <2> QED
    BY <2>1, SMT DEF DataInv, Release, timer, guard
<1>2. PlaceInv'
  BY DEF PlaceInv, AppPlaces, TmPlaces, RdPlaces, CbPlaces, Places, Release, Goto, timer, guard,
      peer
<1>3. TaskInv'
  BY DEF TaskInv, Release, Goto, timer, guard, peer
<1>4. LockInv'
  BY DEF LockInv, InCallback, Release, Goto, timer, guard, peer
<1>5. DestroyInv'
  BY DEF DestroyInv, Release, Goto, timer, guard, peer
<1> QED
  BY <1>1, <1>2, <1>3, <1>4, <1>5

(* The end of the dispatcher's destructor preserves the invariant of any   *)
(* client.                                                                 *)
LEMMA DrainedStep ==
  ASSUME Inv, Drained
  PROVE  Inv'
<1> USE DEF Inv, App, Tm, Rd, Cb, Threads, None
<1>1. DataInv'
  BY DEF DataInv, Callbacks, Drained, Steps, Goto, timer, conn, guard, peer
<1>2. PlaceInv'
  BY DEF PlaceInv, AppPlaces, TmPlaces, RdPlaces, CbPlaces, Places, Drained, Steps, Goto, timer,
      conn, guard, peer
<1>3. TaskInv'
  BY DEF TaskInv, Drained, Steps, Goto, timer, conn, guard, peer
<1>4. LockInv'
  BY DEF LockInv, InCallback, Drained, Steps, Goto, timer, conn, guard, peer
<1>5. DestroyInv'
  BY DEF DestroyInv, Drained, Steps, Goto, timer, conn, guard, peer
<1> QED
  BY <1>1, <1>2, <1>3, <1>4, <1>5

(* A frame of the peer, or a part of one, preserves the invariant of any   *)
(* client.                                                                 *)
LEMMA PeerSendsStep ==
  ASSUME Inv, PeerSends
  PROVE  Inv'
<1> USE DEF Inv, App, Tm, Rd, Cb, Threads, None
<1>1. DataInv'
  BY DEF DataInv, Callbacks, PeerSends, Spend, timer, conn, guard
<1>2. PlaceInv'
  BY DEF PlaceInv, AppPlaces, TmPlaces, RdPlaces, CbPlaces, Places, PeerSends, Spend, timer,
      conn, guard
<1>3. TaskInv'
  BY DEF TaskInv, PeerSends, Spend, timer, conn, guard
<1>4. LockInv'
  BY DEF LockInv, InCallback, PeerSends, Spend, timer, conn, guard
<1>5. DestroyInv'
  BY DEF DestroyInv, PeerSends, Spend, timer, conn, guard
<1> QED
  BY <1>1, <1>2, <1>3, <1>4, <1>5

(* The peer's end of the connection preserves the invariant of any client. *)
LEMMA PeerEndsStep ==
  ASSUME Inv, PeerEnds
  PROVE  Inv'
<1> USE DEF Inv, App, Tm, Rd, Cb, Threads, None
<1>1. DataInv'
  BY DEF DataInv, Callbacks, PeerEnds, Spend, timer, conn, guard
<1>2. PlaceInv'
  BY DEF PlaceInv, AppPlaces, TmPlaces, RdPlaces, CbPlaces, Places, PeerEnds, Spend, timer,
      conn, guard
<1>3. TaskInv'
  BY DEF TaskInv, PeerEnds, Spend, timer, conn, guard
<1>4. LockInv'
  BY DEF LockInv, InCallback, PeerEnds, Spend, timer, conn, guard
<1>5. DestroyInv'
  BY DEF DestroyInv, PeerEnds, Spend, timer, conn, guard
<1> QED
  BY <1>1, <1>2, <1>3, <1>4, <1>5

(* Telling the timer to stop preserves what a stop has brought about.      *)
LEMMA StopTimerStops ==
  ASSUME Inv, Stopped, NEW t \in Threads, StopTimer(t)
  PROVE  Stopped'
<1> USE DEF Inv, Stopped, Asleep, App, Tm, Rd, Cb, Threads, None
<1>1. StopInv'
  BY DEF StopInv, PlaceInv, TaskInv, AppPlaces, TmPlaces, RdPlaces, CbPlaces, InSafe, StopTimer,
      Goto, conn, guard, peer
<1>2. ReleaseInv'
  BY DEF ReleaseInv, PlaceInv, TaskInv, AppPlaces, TmPlaces, RdPlaces, CbPlaces, StopTimer,
      Goto, conn, guard, peer
<1> QED
  BY <1>1, <1>2

(* Joining the timer's worker preserves what a stop has brought about.     *)
LEMMA JoinTimerStops ==
  ASSUME Inv, Stopped, NEW t \in Threads, JoinTimer(t)
  PROVE  Stopped'
<1> USE DEF Inv, Stopped, Asleep, App, Tm, Rd, Cb, Threads, None
<1>1. StopInv'
  BY DEF StopInv, PlaceInv, TaskInv, AppPlaces, TmPlaces, RdPlaces, CbPlaces, InSafe, JoinTimer,
      Goto, conn, guard, peer
<1>2. ReleaseInv'
  BY DEF ReleaseInv, JoinTimer, Goto, conn, guard, peer
<1> QED
  BY <1>1, <1>2

(* Starting the timer preserves what a stop has brought about.             *)
LEMMA StartTimerStops ==
  ASSUME Inv, Stopped, NEW t \in Threads, StartTimer(t)
  PROVE  Stopped'
<1> USE DEF Inv, Stopped, Asleep, App, Tm, Rd, Cb, Threads, None
<1>1. StopInv'
  BY DEF StopInv, PlaceInv, TaskInv, AppPlaces, TmPlaces, RdPlaces, CbPlaces, InSafe,
      StartTimer, Goto, Started, conn, guard, peer
<1>2. ReleaseInv'
  BY DEF ReleaseInv, PlaceInv, TaskInv, AppPlaces, TmPlaces, RdPlaces, CbPlaces, StartTimer,
      Goto, Started, conn, guard, peer
<1> QED
  BY <1>1, <1>2

(* The expiry of the timer preserves what a stop has brought about.        *)
LEMMA TimerFiresStops ==
  ASSUME Inv, Stopped, TimerFires
  PROVE  Stopped'
<1> USE DEF Inv, Stopped, Asleep, App, Tm, Rd, Cb, Threads, None
<1>1. StopInv'
  BY SMT DEF StopInv, PlaceInv, InSafe, TimerFires, Steps, Goto, timer, conn, guard
<1>2. ReleaseInv'
  BY SMT DEF ReleaseInv, PlaceInv, TimerFires, Steps, Goto, timer, conn, guard
<1> QED
  BY <1>1, <1>2

(* The timer worker's return to its loop, or its end, preserves what a     *)
(* stop has brought about.                                                 *)
LEMMA TimerLoopsStops ==
  ASSUME Inv, Stopped, TimerLoops
  PROVE  Stopped'
<1> USE DEF Inv, Stopped, Asleep, App, Tm, Rd, Cb, Threads, None
<1>1. StopInv'
  BY DEF StopInv, PlaceInv, TimerLoops, Steps, Goto, conn, guard
<1>2. ReleaseInv'
  BY DEF ReleaseInv, PlaceInv, TaskInv, AppPlaces, TmPlaces, RdPlaces, CbPlaces, TimerLoops,
      Steps, Goto, timer, conn, guard, peer
<1> QED
  BY <1>1, <1>2

(* The timer's check whether the socket is connected preserves what a stop *)
(* has brought about.                                                      *)
LEMMA TimerChecksStops ==
  ASSUME Inv, Stopped, RedialsAlone, TimerChecks
  PROVE  Stopped'
<1> USE DEF Inv, Stopped, Asleep, App, Tm, Rd, Cb, Threads, None
<1>1. StopInv'
  BY DEF StopInv, RedialsAlone, InSafe, TimerChecks, Steps, Goto, timer, conn, guard, peer,
      IsConnected
<1>2. ReleaseInv'
  BY DEF ReleaseInv, RedialsAlone, DestroyInv, PlaceInv, TimerChecks, Steps, Goto, timer, conn,
      guard, peer, IsConnected
<1> QED
  BY <1>1, <1>2

(* Closing the socket under the reader preserves what a stop has brought   *)
(* about.                                                                  *)
LEMMA CloseStops ==
  ASSUME Inv, Stopped, NEW d \in {App, Tm}, Close(d)
  PROVE  Stopped'
<1> USE DEF Inv, Stopped, Asleep, App, Tm, Rd, Cb, Threads, None
<1>1. StopInv'
  BY DEF StopInv, InSafe, Close, Goto, timer, guard, peer
<1>2. ReleaseInv'
  BY DEF ReleaseInv, Close, Goto, timer, guard, peer
<1> QED
  BY <1>1, <1>2

(* Joining the reader preserves what a stop has brought about.             *)
LEMMA JoinReaderStops ==
  ASSUME Inv, Stopped, NEW d \in {App, Tm}, JoinReader(d)
  PROVE  Stopped'
<1> USE DEF Inv, Stopped, Asleep, App, Tm, Rd, Cb, Threads, None
<1>1. StopInv'
  BY DEF StopInv, PlaceInv, TaskInv, AppPlaces, TmPlaces, RdPlaces, CbPlaces, InSafe,
      JoinReader, timer, conn, guard, peer
<1>2. ReleaseInv'
  BY DEF ReleaseInv, PlaceInv, TaskInv, AppPlaces, TmPlaces, RdPlaces, CbPlaces, JoinReader,
      timer, conn, guard, peer
<1> QED
  BY <1>1, <1>2

(* Deleting the socket, which may report the loss, preserves what a stop   *)
(* has brought about.                                                      *)
LEMMA DeleteStops ==
  ASSUME Inv, Stopped, NEW d \in {App, Tm}, Delete(d)
  PROVE  Stopped'
<1> USE DEF Inv, Stopped, Asleep, App, Tm, Rd, Cb, Threads, None
<1>1. StopInv'
  BY DEF StopInv, PlaceInv, DataInv, InSafe, Delete, Goto, Dispatch
<1>2. ReleaseInv'
  BY DEF ReleaseInv, PlaceInv, TaskInv, AppPlaces, TmPlaces, RdPlaces, CbPlaces, Delete, Goto,
      Dispatch, timer, guard, peer
<1> QED
  BY <1>1, <1>2

(* The end of disconnect() preserves what a stop has brought about.        *)
LEMMA UnsafeStops ==
  ASSUME Inv, Stopped, NEW d \in {App, Tm}, Unsafe(d)
  PROVE  Stopped'
<1> USE DEF Inv, Stopped, Asleep, App, Tm, Rd, Cb, Threads, None
<1>1. StopInv'
  BY DEF StopInv, PlaceInv, TaskInv, AppPlaces, TmPlaces, RdPlaces, CbPlaces, InSafe, Unsafe,
      AfterDisconnect, Goto, CallStop, timer, peer
<1>2. ReleaseInv'
  BY DEF ReleaseInv, PlaceInv, StopInv, Unsafe, AfterDisconnect, Goto, CallStop
<1> QED
  BY <1>1, <1>2

(* A dial that fails preserves what a stop has brought about.              *)
LEMMA DialFailsStops ==
  ASSUME Inv, Stopped, NEW d \in {App, Tm}, DialFails(d)
  PROVE  Stopped'
<1> USE DEF Inv, Stopped, Asleep, App, Tm, Rd, Cb, Threads, None
<1>1. StopInv'
  BY DEF StopInv, InSafe, DialFails, Steps, Goto, timer, conn, guard, peer
<1>2. ReleaseInv'
  BY DEF ReleaseInv, DialFails, Steps, Goto, timer, conn, guard, peer
<1> QED
  BY <1>1, <1>2

(* A dial that succeeds preserves what a stop has brought about.           *)
LEMMA DialSucceedsStops ==
  ASSUME Inv, Stopped, NEW d \in {App, Tm}, DialSucceeds(d)
  PROVE  Stopped'
<1> USE DEF Inv, Stopped, Asleep, App, Tm, Rd, Cb, Threads, None
<1>1. StopInv'
  BY DEF StopInv, InSafe, DialSucceeds, Goto, timer, guard
<1>2. ReleaseInv'
  BY DEF ReleaseInv, DialSucceeds, Goto, timer, guard
<1> QED
  BY <1>1, <1>2

(* initialise(), which reports the connection, preserves what a stop has   *)
(* brought about.                                                          *)
LEMMA InitialiseStops ==
  ASSUME Inv, Stopped, NEW d \in {App, Tm}, Initialise(d)
  PROVE  Stopped'
<1> USE DEF Inv, Stopped, Asleep, App, Tm, Rd, Cb, Threads, None
<1>1. StopInv'
  BY DEF StopInv, PlaceInv, TaskInv, AppPlaces, TmPlaces, RdPlaces, CbPlaces, InSafe,
      Initialise, Dispatch, Goto, timer, peer
<1>2. ReleaseInv'
  BY DEF ReleaseInv, DestroyInv, Initialise
<1> QED
  BY <1>1, <1>2

(* Creating the reader preserves what a stop has brought about.            *)
LEMMA SpawnStops ==
  ASSUME Inv, Stopped, NEW d \in {App, Tm}, Spawn(d)
  PROVE  Stopped'
<1> USE DEF Inv, Stopped, Asleep, App, Tm, Rd, Cb, Threads, None
<1>1. StopInv'
  BY DEF StopInv, PlaceInv, TaskInv, AppPlaces, TmPlaces, RdPlaces, CbPlaces, InSafe, Spawn,
      timer, guard, peer
<1>2. ReleaseInv'
  BY DEF ReleaseInv, DestroyInv, Spawn
<1> QED
  BY <1>1, <1>2

(* The reader's check whether it is to exit preserves what a stop has      *)
(* brought about.                                                          *)
LEMMA LoopStops ==
  ASSUME Inv, Stopped, Loop
  PROVE  Stopped'
<1> USE DEF Inv, Stopped, Asleep, App, Tm, Rd, Cb, Threads, None
<1>1. StopInv'
  BY DEF StopInv, InSafe, Loop, Steps, Goto, timer, conn, guard, peer
<1>2. ReleaseInv'
  BY DEF ReleaseInv, Loop, Steps, Goto, timer, conn, guard, peer
<1> QED
  BY <1>1, <1>2

(* The reader's wait for data preserves what a stop has brought about.     *)
LEMMA SelectStops ==
  ASSUME Inv, Stopped, Select
  PROVE  Stopped'
<1> USE DEF Inv, Stopped, Asleep, App, Tm, Rd, Cb, Threads, None
<1>1. StopInv'
  BY DEF StopInv, PlaceInv, Select, Steps, Goto
<1>2. ReleaseInv'
  BY DEF ReleaseInv, Select, Steps, Goto, timer, conn, guard, peer, Readable
<1> QED
  BY <1>1, <1>2

(* Reading a header preserves what a stop has brought about.               *)
LEMMA ReadHeaderStops ==
  ASSUME Inv, Stopped, ReadHeader
  PROVE  Stopped'
<1> USE DEF Inv, Stopped, Asleep, App, Tm, Rd, Cb, Threads, None
<1>1. StopInv'
  BY DEF StopInv, PlaceInv, TaskInv, AppPlaces, TmPlaces, RdPlaces, CbPlaces, InSafe,
      ReadHeader, Goto, timer, guard, peer
<1>2. ReleaseInv'
  BY DEF ReleaseInv, ReadHeader, Goto, timer, guard, peer
<1> QED
  BY <1>1, <1>2

(* The check before a part of the body preserves what a stop has brought   *)
(* about.                                                                  *)
LEMMA MoreStops ==
  ASSUME Inv, Stopped, More
  PROVE  Stopped'
<1> USE DEF Inv, Stopped, Asleep, App, Tm, Rd, Cb, Threads, None
<1>1. StopInv'
  BY DEF StopInv, InSafe, More, Steps, Goto, timer, conn, guard, peer
<1>2. ReleaseInv'
  BY DEF ReleaseInv, More, Steps, Goto, timer, conn, guard, peer
<1> QED
  BY <1>1, <1>2

(* Reading a body preserves what a stop has brought about.                 *)
LEMMA ReadBodyStops ==
  ASSUME Inv, Stopped, ReadBody
  PROVE  Stopped'
<1> USE DEF Inv, Stopped, Asleep, App, Tm, Rd, Cb, Threads, None
<1>1. StopInv'
  BY DEF StopInv, PlaceInv, TaskInv, AppPlaces, TmPlaces, RdPlaces, CbPlaces, InSafe, ReadBody,
      Goto, timer, guard
<1>2. ReleaseInv'
  BY DEF ReleaseInv, ReadBody, Goto, timer, guard
<1> QED
  BY <1>1, <1>2

(* Reporting a message preserves what a stop has brought about.            *)
LEMMA DeliverStops ==
  ASSUME Inv, Stopped, Deliver
  PROVE  Stopped'
<1> USE DEF Inv, Stopped, Asleep, App, Tm, Rd, Cb, Threads, None
<1>1. StopInv'
  BY DEF StopInv, PlaceInv, Deliver, Dispatch, Goto
<1>2. ReleaseInv'
  BY DEF ReleaseInv, Deliver, Dispatch, Goto, timer, conn, guard, peer
<1> QED
  BY <1>1, <1>2

(* The reader's report of the loss preserves what a stop has brought       *)
(* about.                                                                  *)
LEMMA LoseStops ==
  ASSUME Inv, Stopped, Lose
  PROVE  Stopped'
<1> USE DEF Inv, Stopped, Asleep, App, Tm, Rd, Cb, Threads, None
<1>1. StopInv'
  BY DEF StopInv, PlaceInv, TaskInv, AppPlaces, TmPlaces, RdPlaces, CbPlaces, InSafe, Lose,
      Goto, Dispatch, timer, guard, peer
<1>2. ReleaseInv'
  BY DEF ReleaseInv, Lose, Goto, Dispatch, timer, guard, peer
<1> QED
  BY <1>1, <1>2

(* The end of the reader preserves what a stop has brought about.          *)
LEMMA ExitStops ==
  ASSUME Inv, Stopped, Exit
  PROVE  Stopped'
<1> USE DEF Inv, Stopped, Asleep, App, Tm, Rd, Cb, Threads, None
<1>1. StopInv'
  BY DEF StopInv, InSafe, Exit, Goto, timer, guard, peer
<1>2. ReleaseInv'
  BY DEF ReleaseInv, Exit, Goto, timer, guard, peer
<1> QED
  BY <1>1, <1>2

(* The dispatcher's next task preserves what a stop has brought about.     *)
LEMMA TakeStops ==
  ASSUME Inv, Stopped, Take
  PROVE  Stopped'
<1> USE DEF Inv, Stopped, Asleep, App, Tm, Rd, Cb, Threads, None
<1>1. StopInv'
  BY DEF StopInv, InSafe, Take, Goto, timer, conn, guard, peer
<1>2. ReleaseInv'
  BY DEF ReleaseInv, Take, Goto, timer, conn, guard, peer
<1> QED
  BY <1>1, <1>2

(* Entering ifSafe(), or being turned away, preserves what a stop has      *)
(* brought about.                                                          *)
LEMMA EnterStops ==
  ASSUME Inv, Stopped, NEW t \in Threads, Enter(t)
  PROVE  Stopped'
<1> USE DEF Inv, Stopped, Asleep, App, Tm, Rd, Cb, Threads, None
<1>1. StopInv'
  BY DEF StopInv, PlaceInv, InSafe, Enter, Goto, CallStop, After, conn
<1>2. ReleaseInv'
  BY DEF ReleaseInv, PlaceInv, TaskInv, AppPlaces, TmPlaces, RdPlaces, CbPlaces, Enter, Goto,
      CallStop, After, timer, conn, peer
<1> QED
  BY <1>1, <1>2

(* The user's callback preserves what a stop has brought about.            *)
LEMMA CallbackStops ==
  ASSUME Inv, Stopped, NEW t \in Threads, Callback(t)
  PROVE  Stopped'
<1> USE DEF Inv, Stopped, Asleep, App, Tm, Rd, Cb, Threads, None
<1>1. StopInv'
  BY DEF StopInv, InSafe, Callback, Goto, timer, conn, guard, peer
<1>2. ReleaseInv'
  BY DEF ReleaseInv, Callback, Goto, timer, conn, guard, peer
<1> QED
  BY <1>1, <1>2

(* connectionLost()'s check whether to redial preserves what a stop has    *)
(* brought about.                                                          *)
LEMMA RunningCheckStops ==
  ASSUME Inv, Stopped, NEW t \in Threads, RunningCheck(t)
  PROVE  Stopped'
<1> USE DEF Inv, Stopped, Asleep, App, Tm, Rd, Cb, Threads, None
<1>1. StopInv'
  BY DEF StopInv, InSafe, RunningCheck, Steps, Goto, timer, conn, guard, peer
<1>2. ReleaseInv'
  BY DEF ReleaseInv, RunningCheck, Steps, Goto, timer, conn, guard, peer
<1> QED
  BY <1>1, <1>2

(* Leaving ifSafe() preserves what a stop has brought about.               *)
LEMMA LeaveStops ==
  ASSUME Inv, Stopped, NEW t \in Threads, Leave(t)
  PROVE  Stopped'
<1> USE DEF Inv, Stopped, Asleep, App, Tm, Rd, Cb, Threads, None
<1>1. StopInv'
  BY DEF StopInv, InSafe, Leave, Goto, After, timer, conn, peer
<1>2. ReleaseInv'
  BY DEF ReleaseInv, Leave, Goto, After, timer, conn, peer
<1> QED
  BY <1>1, <1>2

(* start() preserves what a stop has brought about.                        *)
LEMMA StartStops ==
  ASSUME Inv, Stopped, Start
  PROVE  Stopped'
<1> USE DEF Inv, Stopped, Asleep, App, Tm, Rd, Cb, Threads, None
<1>1. StopInv'
  BY DEF StopInv, InSafe, Start, Goto, Spend, timer, conn, guard, peer
<1>2. ReleaseInv'
  BY DEF ReleaseInv, Start, Goto, Spend, timer, conn, guard, peer
<1> QED
  BY <1>1, <1>2

(* stop() preserves what a stop has brought about.                         *)
LEMMA StopStops ==
  ASSUME Inv, Stopped, Stop
  PROVE  Stopped'
<1> USE DEF Inv, Stopped, Asleep, App, Tm, Rd, Cb, Threads, None
<1>1. StopInv'
  BY DEF StopInv, PlaceInv, InSafe, Stop, CallStop, Goto
<1>2. ReleaseInv'
  BY DEF ReleaseInv, Stop, Spend, CallStop, Goto, timer, conn, guard, peer
<1> QED
  BY <1>1, <1>2

(* The last line of stop() preserves what a stop has brought about.        *)
LEMMA NotifyStops ==
  ASSUME Inv, Stopped, Notify
  PROVE  Stopped'
<1> USE DEF Inv, Stopped, Asleep, App, Tm, Rd, Cb, Threads, None
<1>1. StopInv'
  BY DEF StopInv, InSafe, Notify, Goto, IsConnected, timer, conn, guard, peer
<1>2. ReleaseInv'
  BY DEF ReleaseInv, Notify, Goto, IsConnected, timer, conn, guard, peer
<1> QED
  BY <1>1, <1>2

(* The beginning of the client's destructor preserves what a stop has      *)
(* brought about.                                                          *)
LEMMA DestroyStops ==
  ASSUME Inv, Stopped, Destroy
  PROVE  Stopped'
<1> USE DEF Inv, Stopped, Asleep, App, Tm, Rd, Cb, Threads, None
<1>1. StopInv'
  BY DEF StopInv, PlaceInv, InSafe, Destroy, CallStop, Goto
<1>2. ReleaseInv'
  BY DEF ReleaseInv, Destroy, CallStop, Goto, timer, conn, guard, peer
<1> QED
  BY <1>1, <1>2

(* The beginning of the connection's destructor preserves what a stop has  *)
(* brought about.                                                          *)
LEMMA ReleaseStops ==
  ASSUME Inv, Stopped, Release
  PROVE  Stopped'
<1> USE DEF Inv, Stopped, Asleep, App, Tm, Rd, Cb, Threads, None
<1>1. StopInv'
  BY DEF StopInv, InSafe, Release, Goto, timer, guard, peer
<1>2. ReleaseInv'
  BY DEF ReleaseInv, DestroyInv, Release, Goto, guard
<1> QED
  BY <1>1, <1>2

(* The end of the dispatcher's destructor preserves what a stop has        *)
(* brought about.                                                          *)
LEMMA DrainedStops ==
  ASSUME Inv, Stopped, Drained
  PROVE  Stopped'
<1> USE DEF Inv, Stopped, Asleep, App, Tm, Rd, Cb, Threads, None
<1>1. StopInv'
  BY DEF StopInv, InSafe, Drained, Steps, Goto, timer, conn, guard, peer
<1>2. ReleaseInv'
  BY DEF ReleaseInv, Drained, Steps, Goto, timer, conn, guard, peer
<1> QED
  BY <1>1, <1>2

(* A frame of the peer, or a part of one, preserves what a stop has        *)
(* brought about.                                                          *)
LEMMA PeerSendsStops ==
  ASSUME Inv, Stopped, PeerSends
  PROVE  Stopped'
<1> USE DEF Inv, Stopped, Asleep, App, Tm, Rd, Cb, Threads, None
<1>1. StopInv'
  BY DEF StopInv, InSafe, PeerSends, Spend, timer, conn, guard
<1>2. ReleaseInv'
  BY DEF ReleaseInv, PeerSends, Spend, timer, conn, guard
<1> QED
  BY <1>1, <1>2

(* The peer's end of the connection preserves what a stop has brought      *)
(* about.                                                                  *)
LEMMA PeerEndsStops ==
  ASSUME Inv, Stopped, PeerEnds
  PROVE  Stopped'
<1> USE DEF Inv, Stopped, Asleep, App, Tm, Rd, Cb, Threads, None
<1>1. StopInv'
  BY DEF StopInv, InSafe, PeerEnds, Spend, timer, conn, guard
<1>2. ReleaseInv'
  BY DEF ReleaseInv, PeerEnds, Spend, timer, conn, guard
<1> QED
  BY <1>1, <1>2

(* Telling the timer to stop preserves the order of the session.           *)
LEMMA StopTimerServes ==
  ASSUME Inv, Stopped, Session, NEW t \in Threads, StopTimer(t)
  PROVE  Session'
<1> USE DEF Inv, Stopped, Session, Asleep, App, Tm, Rd, Cb, Threads, None
<1>1. RestInv'
  <2>1. ReaderInv'
    <3>1. CASE t = App
      BY <3>1, SMT DEF RestInv, ReaderInv, PlaceInv, FirstInv, StopInv, Making, StopTimer, Goto,
          conn
    <3>2. CASE t # App
      BY <3>2, SMT DEF RestInv, ReaderInv, PlaceInv, RdPlaces, Making, StopTimer, Goto, conn
    <3> QED
      BY <3>1, <3>2
  <2>2. SafeInv'
    BY SMT DEF RestInv, SafeInv, PlaceInv, RdPlaces, StopTimer, Goto, conn, guard
  <2>3. TellInv'
    BY SMT DEF RestInv, TellInv, MadeUnheard, Unheard, LostWaits, PlaceInv, TaskInv, StopTimer,
        Goto, conn, guard
  <2> QED
    BY <2>1, <2>2, <2>3 DEF RestInv
<1>2. FirstInv'
  BY DEF FirstInv, PlaceInv, TaskInv, Before, StopTimer, Goto
<1>3. SocketInv'
  BY DEF SocketInv, PlaceInv, RdPlaces, Making, StopTimer, Goto, conn
<1>4. WorkerInv'
  BY DEF WorkerInv, PlaceInv, Quiet, Before, StopTimer, Goto, conn
<1>5. ArmedInv'
  BY SMT DEF ArmedInv, PlaceInv, TaskInv, HeardInv, FirstInv, StopInv, InCallback, Quiet,
      MadeWaits, Waits, StopTimer, Goto, conn, guard, peer
<1>6. QueueInv'
  BY DEF QueueInv, PlaceInv, RdPlaces, Handles, InCallback, StopTimer, Goto, conn
<1>7. HeardInv'
  BY DEF HeardInv, PlaceInv, TaskInv, InCallback, RdPlaces, MadeUnheard, Unheard, StopTimer,
      Goto, conn, guard
<1> QED
  BY <1>1, <1>2, <1>3, <1>4, <1>5, <1>6, <1>7

(* Joining the timer's worker preserves the order of the session.          *)
LEMMA JoinTimerServes ==
  ASSUME Inv, Stopped, Session, NEW t \in Threads, JoinTimer(t)
  PROVE  Session'
<1> USE DEF Inv, Stopped, Session, Asleep, App, Tm, Rd, Cb, Threads, None
<1>1. RestInv'
  <2>1. ReaderInv'
    <3>1. CASE t = App
      BY <3>1, SMT DEF RestInv, ReaderInv, PlaceInv, FirstInv, StopInv, Making, JoinTimer, Goto,
          conn
    <3>2. CASE t # App
      BY <3>2, SMT DEF RestInv, ReaderInv, PlaceInv, RdPlaces, Making, JoinTimer, Goto, conn
    <3> QED
      BY <3>1, <3>2
  <2>2. SafeInv'
    BY SMT DEF RestInv, SafeInv, PlaceInv, RdPlaces, JoinTimer, Goto, conn, guard
  <2>3. TellInv'
    BY SMT DEF RestInv, TellInv, MadeUnheard, Unheard, LostWaits, PlaceInv, TaskInv, JoinTimer,
        Goto, conn, guard
  <2> QED
    BY <2>1, <2>2, <2>3 DEF RestInv
<1>2. FirstInv'
  BY DEF FirstInv, Before, Making, JoinTimer, Goto, conn, guard, peer
<1>3. SocketInv'
  BY DEF SocketInv, PlaceInv, StopInv, FirstInv, RdPlaces, MadeUnheard, JoinTimer, Goto, conn
<1>4. WorkerInv'
  BY DEF WorkerInv, Quiet, Before, JoinTimer, Goto, conn, guard, peer
<1>5. ArmedInv'
  BY SMT DEF ArmedInv, PlaceInv, LockInv, JoinTimer, Goto
<1>6. QueueInv'
  BY DEF QueueInv, PlaceInv, RdPlaces, Handles, InCallback, JoinTimer, Goto, conn
<1>7. HeardInv'
  BY DEF HeardInv, PlaceInv, TaskInv, InCallback, RdPlaces, MadeUnheard, Unheard, Before,
      Reading, JoinTimer, Goto, conn, guard
<1> QED
  BY <1>1, <1>2, <1>3, <1>4, <1>5, <1>6, <1>7

(* Starting the timer preserves the order of the session.                  *)
LEMMA StartTimerServes ==
  ASSUME Inv, Stopped, Session, NEW t \in Threads, StartTimer(t)
  PROVE  Session'
<1> USE DEF Inv, Stopped, Session, Asleep, App, Tm, Rd, Cb, Threads, None
<1>1. RestInv'
  <2>1. ReaderInv'
    BY SMT DEF RestInv, ReaderInv, PlaceInv, FirstInv, StopInv, Before, Making, StartTimer,
        Goto, Started, conn, guard
  <2>2. SafeInv'
    BY SMT DEF RestInv, SafeInv, PlaceInv, RdPlaces, LockInv, InCallback, StartTimer, Goto,
        Started, conn, guard
  <2>3. TellInv'
    BY SMT DEF RestInv, TellInv, MadeUnheard, Unheard, LostWaits, PlaceInv, StartTimer, Goto,
        Started, conn, guard
  <2> QED
    BY <2>1, <2>2, <2>3 DEF RestInv
<1>2. FirstInv'
  BY DEF FirstInv, PlaceInv, HeardInv, StartTimer, Goto, Started
<1>3. SocketInv'
  BY DEF SocketInv, PlaceInv, StopInv, FirstInv, HeardInv, Reading, Making, StartTimer, Goto,
      Started, conn
<1>4. WorkerInv'
  BY DEF WorkerInv, PlaceInv, LockInv, HeardInv, InCallback, Quiet, StartTimer, Goto, Started,
      conn
<1>5. ArmedInv'
  <2>1. /\ pc[t] = "start" /\ t # Tm
        /\ pc'[t] \in {"reap", "leave", "idle"} /\ (pc'[t] = "idle" => t = App)
        /\ \A s \in Threads : s # t => pc'[s] = pc[s] \/ (s = Tm /\ pc'[s] = "wait")
    BY SMT DEF PlaceInv, StartTimer, LockInv, InCallback, Started, Goto
  <2>2. UNCHANGED <<mode, running, safe, cbState, told, queue, task, next>>
    BY DEF StartTimer, conn, guard
  <2>3. CASE t = App
    <3>1. running /\ pc[App] = "start"
      BY <2>1, <2>3 DEF StopInv
    <3>2. /\ ~ cbState /\ told = "down" /\ queue = <<>> /\ pc[Cb] = "idle"
          /\ pc[Rd] = "none" /\ pc[Tm] = "none"
      BY <3>1 DEF FirstInv, Before
    <3> QED
      BY <2>1, <2>2, <2>3, <3>2, SMT DEF ArmedInv, Quiet, MadeWaits, Waits
  <2>4. CASE t # App
    <3>1. task[t] = "lost" /\ told = "down"
      BY <2>1, <2>4, SMT DEF HeardInv
    <3>2. ~ cbState /\ queue = <<>>
      BY <2>1, <2>4, <3>1, ModesAssumption,
         SMT DEF QueueInv, Handles, InSafe, TaskInv, DataInv, PlaceInv,
        CbPlaces, RdPlaces
    <3>3. ~ running \/ pc[App] = "idle"
      BY <2>1, <2>4, <3>1, SMT DEF FirstInv
    <3> QED
      BY <2>1, <2>2, <2>4, <3>1, <3>2, <3>3, ModesAssumption, SMT DEF ArmedInv, Quiet, MadeWaits,
        Waits, StopInv, InSafe, SocketInv, Making, Reading, TaskInv, DataInv, PlaceInv, RdPlaces,
        CbPlaces
  <2> QED
    BY <2>3, <2>4
<1>6. QueueInv'
  BY DEF QueueInv, PlaceInv, Handles, InCallback, StartTimer, Goto, conn
<1>7. HeardInv'
  BY DEF HeardInv, PlaceInv, StopInv, FirstInv, InCallback, MadeUnheard, Unheard, StartTimer,
      Goto, Started, conn, guard
<1> QED
  BY <1>1, <1>2, <1>3, <1>4, <1>5, <1>6, <1>7

(* The expiry of the timer preserves the order of the session.             *)
LEMMA TimerFiresServes ==
  ASSUME Inv, Stopped, Session, TimerFires
  PROVE  Session'
<1> USE DEF Inv, Stopped, Session, Asleep, App, Tm, Rd, Cb, Threads, None
<1>1. RestInv'
  BY DEF RestInv, ReaderInv, SafeInv, TellInv, MadeUnheard, Unheard, LostWaits, Making,
      PlaceInv, TimerFires, Steps, Goto, timer, conn, guard, peer, OthersIdle
<1>2. FirstInv'
  BY DEF FirstInv, Before, Making, TimerFires, Steps, Goto, timer, conn, guard, peer, OthersIdle
<1>3. SocketInv'
  BY DEF SocketInv, Reading, Making, TimerFires, Steps, Goto, timer, conn, guard, peer,
      OthersIdle
<1>4. WorkerInv'
  BY DEF WorkerInv, TaskInv, DestroyInv, ArmedInv, Quiet, MadeWaits, Waits, TimerFires, Steps,
      Goto, conn, OthersIdle
<1>5. ArmedInv'
  BY DEF ArmedInv, Quiet, MadeWaits, Waits, TimerFires, Steps, Goto, timer, conn, guard, peer,
      OthersIdle
<1>6. QueueInv'
  BY DEF QueueInv, Handles, InCallback, InSafe, TimerFires, Steps, Goto, timer, conn, guard,
      peer, OthersIdle
<1>7. HeardInv'
  BY DEF HeardInv, InCallback, MadeUnheard, Unheard, TimerFires, Steps, Goto, timer, conn,
      guard, peer, OthersIdle
<1> QED
  BY <1>1, <1>2, <1>3, <1>4, <1>5, <1>6, <1>7

(* The timer worker's return to its loop, or its end, preserves the order  *)
(* of the session.                                                         *)
LEMMA TimerLoopsServes ==
  ASSUME Inv, Stopped, Session, TimerLoops
  PROVE  Session'
<1> USE DEF Inv, Stopped, Session, Asleep, App, Tm, Rd, Cb, Threads, None
<1>1. RestInv'
  BY DEF RestInv, ReaderInv, SafeInv, TellInv, MadeUnheard, Unheard, LostWaits, Making,
      PlaceInv, TimerLoops, Steps, Goto, timer, conn, guard, peer
<1>2. FirstInv'
  BY DEF FirstInv, PlaceInv, TimerLoops, Steps, Goto
<1>3. SocketInv'
  BY DEF SocketInv, PlaceInv, Making, TimerLoops, Steps, Goto, conn
<1>4. WorkerInv'
  BY DEF WorkerInv, PlaceInv, TimerLoops, Steps, Goto
<1>5. ArmedInv'
  BY DEF ArmedInv, PlaceInv, Quiet, MadeWaits, Waits, TimerLoops, Steps, Goto, timer, conn, guard
<1>6. QueueInv'
  BY DEF QueueInv, PlaceInv, Handles, InCallback, TimerLoops, Steps, Goto, conn
<1>7. HeardInv'
  BY DEF HeardInv, PlaceInv, InCallback, MadeUnheard, Unheard, TimerLoops, Steps, Goto, conn,
      guard
<1> QED
  BY <1>1, <1>2, <1>3, <1>4, <1>5, <1>6, <1>7

(* The timer's check whether the socket is connected preserves the order   *)
(* of the session.                                                         *)
LEMMA TimerChecksServes ==
  ASSUME Inv, Stopped, Session, RedialsAlone, TimerChecks
  PROVE  Session'
<1> USE DEF Inv, Stopped, Session, Asleep, App, Tm, Rd, Cb, Threads, None
<1>1. RestInv'
  BY DEF RestInv, ReaderInv, SafeInv, TellInv, MadeUnheard, Unheard, LostWaits, Making,
      PlaceInv, TimerChecks, Steps, Goto, timer, conn, guard, peer, IsConnected
<1>2. FirstInv'
  BY DEF FirstInv, Before, Making, TimerChecks, Steps, Goto, timer, conn, guard, peer,
      IsConnected
<1>3. SocketInv'
  BY DEF SocketInv, Reading, Making, TimerChecks, Steps, Goto, timer, conn, guard, peer,
      IsConnected
<1>4. WorkerInv'
  <2>1. CASE IsConnected
    BY <2>1, SMT DEF WorkerInv, PlaceInv, Quiet, Before, TimerChecks, Steps, Goto, conn, guard
  <2>2. CASE ~ IsConnected
    <3>1. /\ pc[App] = "idle" \/ (pc[App] \in {"stop", "join"} /\ next[App] = "close")
          /\ pc[Cb] = "idle" /\ queue = <<>> /\ pc[Tm] = "check"
      BY <2>2 DEF RedialsAlone, TimerChecks
    <3>2. ~ MadeWaits
      BY <3>1, SMT DEF MadeWaits, Waits, PlaceInv, RdPlaces, TaskInv
    <3>3. ASSUME ~ safe PROVE Quiet
      <4>1. ~ cbState /\ pc[Rd] = "none" /\ told = "down"
        BY <3>1, <3>3, SMT DEF RestInv, SafeInv, DataInv, DestroyInv
      <4> QED
        BY <3>1, <4>1 DEF Quiet
    <3>4. Quiet
      BY <3>1, <3>2, <3>3 DEF ArmedInv
    <3> QED
      BY <3>1, <3>4, SMT DEF WorkerInv, DestroyInv, PlaceInv, Quiet, Before, TimerChecks, Steps,
          Goto, conn, guard
  <2> QED
    BY <2>1, <2>2
<1>5. ArmedInv'
  BY DEF ArmedInv, Quiet, MadeWaits, Waits, TimerChecks, Steps, Goto, timer, conn, guard, peer,
      IsConnected
<1>6. QueueInv'
  BY DEF QueueInv, Handles, InCallback, InSafe, TimerChecks, Steps, Goto, timer, conn, guard,
      peer, IsConnected
<1>7. HeardInv'
  BY DEF HeardInv, InCallback, MadeUnheard, Unheard, TimerChecks, Steps, Goto, timer, conn,
      guard, peer, IsConnected
<1> QED
  BY <1>1, <1>2, <1>3, <1>4, <1>5, <1>6, <1>7

(* Closing the socket under the reader preserves the order of the session. *)
LEMMA CloseServes ==
  ASSUME Inv, Stopped, Session, NEW d \in {App, Tm}, Close(d)
  PROVE  Session'
<1> USE DEF Inv, Stopped, Session, Asleep, App, Tm, Rd, Cb, Threads, None
<1>1. RestInv'
  BY DEF RestInv, ReaderInv, SafeInv, TellInv, MadeUnheard, Unheard, LostWaits, Making,
      PlaceInv, Close, Goto, timer, guard, peer
<1>2. FirstInv'
  BY DEF FirstInv, Before, Making, Close, Goto, timer, guard, peer
<1>3. SocketInv'
  BY DEF SocketInv, WorkerInv, Making, Close, Goto
<1>4. WorkerInv'
  BY DEF WorkerInv, Quiet, Before, Close, Goto, timer, guard, peer
<1>5. ArmedInv'
  BY DEF ArmedInv, Quiet, MadeWaits, Waits, Close, Goto, timer, guard, peer
<1>6. QueueInv'
  BY DEF QueueInv, Handles, InCallback, InSafe, Close, Goto, timer, guard, peer
<1>7. HeardInv'
  BY DEF HeardInv, InCallback, MadeUnheard, Unheard, Close, Goto, timer, guard, peer
<1> QED
  BY <1>1, <1>2, <1>3, <1>4, <1>5, <1>6, <1>7

(* Joining the reader preserves the order of the session.                  *)
LEMMA JoinReaderServes ==
  ASSUME Inv, Stopped, Session, NEW d \in {App, Tm}, JoinReader(d)
  PROVE  Session'
<1> USE DEF Inv, Stopped, Session, Asleep, App, Tm, Rd, Cb, Threads, None
<1>1. RestInv'
  <2>1. ReaderInv'
    BY SMT DEF RestInv, ReaderInv, PlaceInv, WorkerInv, Quiet, Before, Making, JoinReader, conn,
        guard
  <2>2. SafeInv'
    BY SMT DEF RestInv, SafeInv, PlaceInv, JoinReader, conn, guard
  <2>3. TellInv'
    BY SMT DEF RestInv, TellInv, MadeUnheard, Unheard, LostWaits, PlaceInv, RdPlaces,
        JoinReader, conn, guard
  <2> QED
    BY <2>1, <2>2, <2>3 DEF RestInv
<1>2. FirstInv'
  BY DEF FirstInv, PlaceInv, Before, Making, JoinReader, conn
<1>3. SocketInv'
  BY DEF SocketInv, PlaceInv, WorkerInv, Reading, Making, JoinReader
<1>4. WorkerInv'
  BY DEF WorkerInv, PlaceInv, Quiet, Before, JoinReader, conn
<1>5. ArmedInv'
  BY SMT DEF ArmedInv, PlaceInv, FirstInv, WorkerInv, Quiet, MadeWaits, Waits, Before,
      JoinReader, timer, conn, guard
<1>6. QueueInv'
  BY DEF QueueInv, PlaceInv, Handles, InCallback, InSafe, JoinReader, conn
<1>7. HeardInv'
  BY DEF HeardInv, PlaceInv, InCallback, MadeUnheard, Unheard, JoinReader, conn, guard
<1> QED
  BY <1>1, <1>2, <1>3, <1>4, <1>5, <1>6, <1>7

(* Deleting the socket, which may report the loss, preserves the order of  *)
(* the session.                                                            *)
LEMMA DeleteServes ==
  ASSUME Inv, Stopped, Session, NEW d \in {App, Tm}, Delete(d)
  PROVE  Session'
<1> USE DEF Inv, Stopped, Session, Asleep, App, Tm, Rd, Cb, Threads, None
<1>frame. UNCHANGED <<mode, running, mStop, lock, safe, safeLock, next, told>>
  BY DEF Delete, timer, guard
<1>call. cbState /\ (alive \/ d = Tm) => Dispatch(d, "lost", "unsafe") /\ cbState' = FALSE
  BY DEF Delete
<1>async. ASSUME mode = "async" /\ cbState /\ (alive \/ d = Tm)
         PROVE  /\ task' = task
                /\ pc' = [s \in Threads |-> IF s = d THEN "unsafe" ELSE pc[s]]
                /\ Len(queue) \in Nat /\ Len(queue') = Len(queue) + 1
                /\ \A i \in 1..Len(queue) : queue'[i] = queue[i]
                /\ queue'[Len(queue) + 1] = "lost"
                /\ \A i \in 1..Len(queue') : i \in 1..Len(queue) \/ i = Len(queue) + 1
  <2>1. /\ task' = task
        /\ pc' = [s \in Threads |-> IF s = d THEN "unsafe" ELSE pc[s]]
        /\ Len(queue') = Len(queue) + 1
        /\ \A i \in 1..Len(queue) : queue'[i] = queue[i]
        /\ queue'[Len(queue) + 1] = "lost"
    BY <1>call, <1>async, Dispatched DEF Callbacks, Places
  <2>2. Len(queue) \in Nat
    BY DEF DataInv
  <2>3. \A i \in 1..Len(queue') : i \in 1..Len(queue) \/ i = Len(queue) + 1
    BY <2>1, <2>2, SMT
  <2> QED
    BY <2>1, <2>2, <2>3
<1>sync. ASSUME mode # "async" /\ cbState /\ (alive \/ d = Tm)
        PROVE  /\ task' = [s \in Threads |-> IF s = d THEN "lost" ELSE task[s]]
               /\ pc' = [s \in Threads |-> IF s = d THEN "enter" ELSE pc[s]]
               /\ queue' = queue /\ queue = <<>> /\ pc[Cb] = "idle"
  <2>1. "lost" \in Callbacks /\ "unsafe" \in Places /\ d \in Threads
    BY DEF Callbacks, Places
  <2>2. Dispatch(d, "lost", "unsafe") /\ mode # "async"
    BY <1>call, <1>sync, Zenon
  <2>3. /\ task' = [s \in Threads |-> IF s = d THEN "lost" ELSE task[s]]
        /\ pc' = [s \in Threads |-> IF s = d THEN "enter" ELSE pc[s]]
        /\ queue' = queue
    BY <2>1, <2>2, Dispatched
  <2>4. mode = "sync"
    BY <1>sync, ModesAssumption, Zenon DEF DataInv
  <2>5. queue = <<>> /\ pc[Cb] = "idle"
    BY <2>4, Zenon DEF TaskInv
  <2> QED
    BY <2>3, <2>5
<1>place. pc[d] = "delete"
  BY DEF Delete
<1>none. ASSUME ~ (cbState /\ (alive \/ d = Tm))
        PROVE  /\ pc' = [s \in Threads |-> IF s = d THEN "unsafe" ELSE pc[s]]
               /\ cbState' = cbState /\ task' = task /\ queue' = queue
  BY <1>none, SMT DEF Delete, PlaceInv, Goto
<1>1. RestInv'
  <2>1. ReaderInv'
    <3>1. cbState' => ~ (cbState /\ (alive \/ d = Tm)) /\ cbState
      BY <1>call, <1>none, Zenon
    <3>3. d = Tm => ~ cbState
      BY <1>place, Zenon DEF WorkerInv, Quiet, Before
    <3>2. cbState' => pc'[App] = "unsafe"
      BY <3>1, <3>3, <1>none, Zenon
    <3> QED
      BY <3>2 DEF ReaderInv
  <2>2. SafeInv'
    BY <1>frame, <1>async, <1>sync, <1>call, <1>place, <1>none, SMT DEF RestInv, SafeInv, PlaceInv
  <2>3. TellInv'
    BY <1>frame, <1>async, <1>sync, <1>call, <1>place, <1>none, SMT DEF RestInv, TellInv,
        MadeUnheard, Unheard, LostWaits, PlaceInv
  <2> QED
    BY <2>1, <2>2, <2>3 DEF RestInv
<1>2. FirstInv'
  BY DEF FirstInv, PlaceInv, WorkerInv, Quiet, Before, Making, Delete, Goto
<1>3. SocketInv'
  BY DEF SocketInv, DataInv, PlaceInv, StopInv, FirstInv, WorkerInv, Quiet, Before, Reading,
      Making, Delete, Goto, Dispatch
<1>4. WorkerInv'
  BY DEF WorkerInv, PlaceInv, Quiet, Before, Delete, Goto, Dispatch
<1>5. ArmedInv'
  <2>1. CASE mode = "async" /\ cbState /\ (alive \/ d = Tm)
    <3>1. MadeWaits' <=> MadeWaits
      <4>1. \A s \in Threads : Waits(s)' <=> Waits(s)
        BY <2>1, <1>async, <1>frame, <1>place, SMT DEF Waits, PlaceInv
      <4>2. (\E i \in 1..Len(queue) : queue[i] = "made")'
              <=> \E i \in 1..Len(queue) : queue[i] = "made"
        BY <2>1, <1>async
      <4> QED
        BY <4>1, <4>2 DEF MadeWaits
    <3> QED
      BY <3>1, <2>1, <1>async, <1>frame, <1>call, <1>place, SMT DEF PlaceInv, TaskInv,
        SocketInv, Reading, ArmedInv, QueueInv, HeardInv, FirstInv, MadeWaits, Waits, Quiet,
        Before, Making
  <2>2. CASE mode # "async" /\ cbState /\ (alive \/ d = Tm)
    BY <2>2, <1>sync, <1>frame, <1>call, <1>place, SMT DEF PlaceInv, TaskInv, SocketInv,
        Reading, ArmedInv, QueueInv, HeardInv, FirstInv, MadeWaits, Waits, Quiet, Before, Making
  <2>3. CASE ~ (cbState /\ (alive \/ d = Tm))
    BY <2>3, <1>none, <1>frame, <1>place, SMT DEF PlaceInv, TaskInv, SocketInv, Reading,
        ArmedInv, QueueInv, HeardInv, FirstInv, MadeWaits, Waits, Quiet, Before, Making
  <2> QED
    BY <2>1, <2>2, <2>3
<1>6. QueueInv'
  <2>1. CASE mode = "async" /\ cbState /\ (alive \/ d = Tm)
    <3>1. /\ (\A i \in 1..Len(queue) : queue[i] = "made" => i = 1 /\ pc[Cb] = "idle")'
          /\ (\A i \in 1..Len(queue) : queue[i] = "lost" => i = Len(queue))'
      BY <2>1, <1>async, <1>place, SMT DEF QueueInv
    <3> QED
      BY <3>1, <2>1, <1>async, <1>frame, <1>call, <1>place, SMT DEF PlaceInv, TaskInv,
        SocketInv, Reading, QueueInv, Handles, InCallback, InSafe
  <2>2. CASE mode # "async" /\ cbState /\ (alive \/ d = Tm)
    BY <2>2, <1>sync, <1>frame, <1>call, <1>place, SMT DEF PlaceInv, TaskInv, SocketInv,
        Reading, QueueInv, Handles, InCallback, InSafe
  <2>3. CASE ~ (cbState /\ (alive \/ d = Tm))
    BY <2>3, <1>none, <1>frame, <1>place, SMT DEF PlaceInv, TaskInv, SocketInv, Reading,
        QueueInv, Handles, InCallback, InSafe
  <2> QED
    BY <2>1, <2>2, <2>3
<1>7. HeardInv'
  <2>1. CASE mode = "async" /\ cbState /\ (alive \/ d = Tm)
    <3>1. MadeUnheard' <=> MadeUnheard
      <4>1. \A s \in Threads : Unheard(s)' <=> Unheard(s)
        BY <2>1, <1>async, <1>frame, <1>place, SMT DEF Unheard, PlaceInv
      <4>2. (\E i \in 1..Len(queue) : queue[i] = "made")'
              <=> \E i \in 1..Len(queue) : queue[i] = "made"
        BY <2>1, <1>async
      <4> QED
        BY <4>1, <4>2 DEF MadeUnheard
    <3> QED
      BY <3>1, <2>1, <1>async, <1>frame, <1>call, <1>place, SMT DEF PlaceInv, TaskInv,
        SocketInv, Reading, HeardInv, QueueInv, MadeUnheard, Unheard, Handles, InCallback, InSafe
  <2>2. CASE mode # "async" /\ cbState /\ (alive \/ d = Tm)
    BY <2>2, <1>sync, <1>frame, <1>call, <1>place, SMT DEF PlaceInv, TaskInv, SocketInv,
        Reading, HeardInv, QueueInv, MadeUnheard, Unheard, Handles, InCallback, InSafe
  <2>3. CASE ~ (cbState /\ (alive \/ d = Tm))
    BY <2>3, <1>none, <1>frame, <1>place, SMT DEF PlaceInv, TaskInv, SocketInv, Reading,
        HeardInv, QueueInv, MadeUnheard, Unheard, Handles, InCallback, InSafe
  <2> QED
    BY <2>1, <2>2, <2>3
<1> QED
  BY <1>1, <1>2, <1>3, <1>4, <1>5, <1>6, <1>7

(* The end of disconnect() preserves the order of the session.             *)
LEMMA UnsafeServes ==
  ASSUME Inv, Stopped, Session, NEW d \in {App, Tm}, Unsafe(d)
  PROVE  Session'
<1> USE DEF Inv, Stopped, Session, Asleep, App, Tm, Rd, Cb, Threads, None
<1>1. RestInv'
  <2>1. ReaderInv'
    BY SMT DEF RestInv, ReaderInv, PlaceInv, Unsafe, AfterDisconnect, CallStop, Goto
  <2>2. SafeInv'
    BY SMT DEF RestInv, SafeInv, PlaceInv, FirstInv, StopInv, WorkerInv, SocketInv, Quiet,
        Before, InSafe, Unsafe, AfterDisconnect, CallStop, Goto
  <2>3. TellInv'
    BY SMT DEF RestInv, TellInv, MadeUnheard, Unheard, LostWaits, PlaceInv, Unsafe,
        AfterDisconnect, CallStop, Goto
  <2> QED
    BY <2>1, <2>2, <2>3 DEF RestInv
<1>2. FirstInv'
  BY DEF FirstInv, PlaceInv, Before, Making, Unsafe, AfterDisconnect, Goto
<1>3. SocketInv'
  BY DEF SocketInv, PlaceInv, StopInv, FirstInv, Making, Unsafe, AfterDisconnect, Goto, CallStop
<1>4. WorkerInv'
  BY DEF WorkerInv, PlaceInv, Quiet, Before, Unsafe, AfterDisconnect, Goto, CallStop
<1>5. ArmedInv'
  BY DEF ArmedInv, PlaceInv, FirstInv, WorkerInv, Quiet, MadeWaits, Waits, Before, Unsafe,
      AfterDisconnect, Goto, CallStop, timer
<1>6. QueueInv'
  BY DEF QueueInv, PlaceInv, Handles, InCallback, Unsafe, AfterDisconnect, Goto, CallStop
<1>7. HeardInv'
  BY DEF HeardInv, PlaceInv, LockInv, InCallback, MadeUnheard, Unheard, Unsafe, AfterDisconnect,
      Goto, CallStop
<1> QED
  BY <1>1, <1>2, <1>3, <1>4, <1>5, <1>6, <1>7

(* A dial that fails preserves the order of the session.                   *)
LEMMA DialFailsServes ==
  ASSUME Inv, Stopped, Session, NEW d \in {App, Tm}, DialFails(d)
  PROVE  Session'
<1> USE DEF Inv, Stopped, Session, Asleep, App, Tm, Rd, Cb, Threads, None
<1>1. RestInv'
  BY DEF RestInv, ReaderInv, SafeInv, TellInv, MadeUnheard, Unheard, LostWaits, Making,
      PlaceInv, DialFails, Steps, Goto, timer, conn, guard, peer
<1>2. FirstInv'
  BY DEF FirstInv, LockInv, InCallback, Before, Making, DialFails, Steps, Goto, conn, guard
<1>3. SocketInv'
  BY DEF SocketInv, Reading, Making, DialFails, Steps, Goto, timer, conn, guard, peer
<1>4. WorkerInv'
  BY DEF WorkerInv, Quiet, Before, DialFails, Steps, Goto, timer, conn, guard, peer
<1>5. ArmedInv'
  BY DEF ArmedInv, Quiet, MadeWaits, Waits, DialFails, Steps, Goto, timer, conn, guard, peer
<1>6. QueueInv'
  BY DEF QueueInv, Handles, InCallback, InSafe, DialFails, Steps, Goto, timer, conn, guard, peer
<1>7. HeardInv'
  BY DEF HeardInv, InCallback, MadeUnheard, Unheard, DialFails, Steps, Goto, timer, conn, guard,
      peer
<1> QED
  BY <1>1, <1>2, <1>3, <1>4, <1>5, <1>6, <1>7

(* A dial that succeeds preserves the order of the session.                *)
LEMMA DialSucceedsServes ==
  ASSUME Inv, Stopped, Session, NEW d \in {App, Tm}, DialSucceeds(d)
  PROVE  Session'
<1> USE DEF Inv, Stopped, Session, Asleep, App, Tm, Rd, Cb, Threads, None
<1>1. RestInv'
  <2>1. ReaderInv'
    BY SMT DEF RestInv, ReaderInv, PlaceInv, Making, DialSucceeds, Goto, guard
  <2>2. SafeInv'
    BY SMT DEF RestInv, SafeInv, PlaceInv, DialSucceeds, Goto, guard
  <2>3. TellInv'
    BY SMT DEF RestInv, TellInv, MadeUnheard, Unheard, LostWaits, PlaceInv, DialSucceeds, Goto,
        guard
  <2> QED
    BY <2>1, <2>2, <2>3 DEF RestInv
<1>2. FirstInv'
  BY DEF FirstInv, Before, Making, DialSucceeds, Goto, timer, guard
<1>3. SocketInv'
  BY DEF SocketInv, PlaceInv, WorkerInv, Making, DialSucceeds, Goto
<1>4. WorkerInv'
  BY DEF WorkerInv, Quiet, Before, DialSucceeds, Goto, timer, guard
<1>5. ArmedInv'
  BY DEF ArmedInv, Quiet, MadeWaits, Waits, DialSucceeds, Goto, timer, guard
<1>6. QueueInv'
  BY DEF QueueInv, Handles, InCallback, InSafe, DialSucceeds, Goto, timer, guard
<1>7. HeardInv'
  BY DEF HeardInv, InCallback, MadeUnheard, Unheard, DialSucceeds, Goto, timer, guard
<1> QED
  BY <1>1, <1>2, <1>3, <1>4, <1>5, <1>6, <1>7

(* initialise(), which reports the connection, preserves the order of the  *)
(* session.                                                                *)
LEMMA InitialiseServes ==
  ASSUME Inv, Stopped, Session, NEW d \in {App, Tm}, Initialise(d)
  PROVE  Session'
<1> USE DEF Inv, Stopped, Session, Asleep, App, Tm, Rd, Cb, Threads, None
<1>1. RestInv'
  <2>1. ReaderInv'
    BY SMT DEF RestInv, ReaderInv, PlaceInv, Making, Initialise, Dispatch, Goto
  <2>2. SafeInv'
    BY SMT DEF RestInv, SafeInv, PlaceInv, Initialise, Dispatch, Goto
  <2>3. TellInv'
    BY SMT DEF RestInv, TellInv, MadeUnheard, Unheard, LostWaits, PlaceInv, SocketInv,
        Initialise, Dispatch, Goto
  <2> QED
    BY <2>1, <2>2, <2>3 DEF RestInv
<1>2. FirstInv'
  BY DEF FirstInv, DataInv, PlaceInv, Before, Making, Initialise, Dispatch, Goto
<1>3. SocketInv'
  BY DEF SocketInv, DataInv, PlaceInv, Making, Initialise, Dispatch, Goto
<1>4. WorkerInv'
  BY DEF WorkerInv, PlaceInv, Before, Initialise, Dispatch, Goto
<1>5. ArmedInv'
  BY DEF ArmedInv, DataInv, PlaceInv, StopInv, MadeWaits, Waits, Initialise, Dispatch, Goto
<1>6. QueueInv'
  BY DEF QueueInv, PlaceInv, LockInv, StopInv, FirstInv, WorkerInv, InCallback, Quiet, Handles,
      InSafe, Before, Initialise, Dispatch, Goto
<1>7. HeardInv'
  BY DEF HeardInv, DataInv, PlaceInv, StopInv, FirstInv, WorkerInv, Quiet, MadeUnheard, Unheard,
      Before, Initialise, Dispatch, Goto
<1> QED
  BY <1>1, <1>2, <1>3, <1>4, <1>5, <1>6, <1>7

(* Creating the reader preserves the order of the session.                 *)
LEMMA SpawnServes ==
  ASSUME Inv, Stopped, Session, NEW d \in {App, Tm}, Spawn(d)
  PROVE  Session'
<1> USE DEF Inv, Stopped, Session, Asleep, App, Tm, Rd, Cb, Threads, None
<1>1. RestInv'
  <2>1. ReaderInv'
    BY SMT DEF RestInv, ReaderInv, PlaceInv, Making, Spawn, Goto, guard
  <2>2. SafeInv'
    BY SMT DEF RestInv, SafeInv, PlaceInv, SocketInv, Spawn, Goto, guard
  <2>3. TellInv'
    BY SMT DEF RestInv, TellInv, MadeUnheard, Unheard, LostWaits, PlaceInv, SocketInv, FirstInv,
        StopInv, Spawn, Goto, guard
  <2> QED
    BY <2>1, <2>2, <2>3 DEF RestInv
<1>2. FirstInv'
  BY DEF FirstInv, PlaceInv, Spawn
<1>3. SocketInv'
  BY DEF SocketInv, PlaceInv, StopInv, FirstInv, Handles, InSafe, Making, Spawn
<1>4. WorkerInv'
  BY DEF WorkerInv, PlaceInv, Before, Spawn
<1>5. ArmedInv'
  BY DEF ArmedInv, PlaceInv, TaskInv, SocketInv, Quiet, MadeWaits, Waits, InSafe, Before, Spawn,
      timer, guard
<1>6. QueueInv'
  BY DEF QueueInv, PlaceInv, Handles, InCallback, InSafe, Spawn
<1>7. HeardInv'
  BY DEF HeardInv, PlaceInv, TaskInv, InCallback, MadeUnheard, Unheard, Spawn, guard
<1> QED
  BY <1>1, <1>2, <1>3, <1>4, <1>5, <1>6, <1>7

(* The reader's check whether it is to exit preserves the order of the     *)
(* session.                                                                *)
LEMMA LoopServes ==
  ASSUME Inv, Stopped, Session, Loop
  PROVE  Session'
<1> USE DEF Inv, Stopped, Session, Asleep, App, Tm, Rd, Cb, Threads, None
<1>1. RestInv'
  BY DEF RestInv, ReaderInv, SafeInv, TellInv, MadeUnheard, Unheard, LostWaits, Making,
      PlaceInv, Loop, Steps, Goto, timer, conn, guard, peer
<1>2. FirstInv'
  BY DEF FirstInv, Before, Making, Loop, Steps, Goto, timer, conn, guard, peer
<1>3. SocketInv'
  BY DEF SocketInv, Reading, Making, Loop, Steps, Goto, timer, conn, guard, peer
<1>4. WorkerInv'
  BY DEF WorkerInv, Quiet, Before, Loop, Steps, Goto, timer, conn, guard, peer
<1>5. ArmedInv'
  BY DEF ArmedInv, Quiet, MadeWaits, Waits, Loop, Steps, Goto, timer, conn, guard, peer
<1>6. QueueInv'
  BY DEF QueueInv, Handles, InCallback, InSafe, Loop, Steps, Goto, timer, conn, guard, peer
<1>7. HeardInv'
  BY DEF HeardInv, InCallback, MadeUnheard, Unheard, Loop, Steps, Goto, timer, conn, guard, peer
<1> QED
  BY <1>1, <1>2, <1>3, <1>4, <1>5, <1>6, <1>7

(* The reader's wait for data preserves the order of the session.          *)
LEMMA SelectServes ==
  ASSUME Inv, Stopped, Session, Select
  PROVE  Session'
<1> USE DEF Inv, Stopped, Session, Asleep, App, Tm, Rd, Cb, Threads, None
<1>1. RestInv'
  <2>1. /\ pc[Rd] = "select" /\ pc'[Rd] \in {"lose", "loop", "exit", "header"}
        /\ \A t \in Threads : t # Rd => pc'[t] = pc[t]
    BY SMT DEF Select, Steps, Goto, PlaceInv
  <2>2. UNCHANGED <<cbState, safe, told, next, task, queue>>
    BY SMT DEF Select, Steps, conn, guard
  <2>3. ReaderInv'
    BY <2>1, <2>2, SMT DEF RestInv, ReaderInv, Making
  <2>4. SafeInv'
    BY <2>1, <2>2, SMT DEF RestInv, SafeInv
  <2>5. TellInv'
    BY <2>1, <2>2, SMT DEF RestInv, TellInv, MadeUnheard, Unheard, LostWaits
  <2> QED
    BY <2>3, <2>4, <2>5 DEF RestInv
<1>2. FirstInv'
  BY DEF FirstInv, PlaceInv, Select, Steps, Goto
<1>3. SocketInv'
  <2>1. /\ pc[Rd] = "select" /\ pc'[Rd] \in {"loop", "lose", "exit", "header"}
        /\ pc'[App] = pc[App] /\ pc'[Tm] = pc[Tm]
    BY SMT DEF PlaceInv, Select, Steps, Goto
  <2>2. UNCHANGED <<socket, cbState, task, next>>
    BY DEF Select, Steps, conn
  <2> QED
    BY <2>1, <2>2, SMT DEF SocketInv, Making, Reading
<1>4. WorkerInv'
  BY DEF WorkerInv, PlaceInv, Quiet, Select, Steps, Goto
<1>5. ArmedInv'
  BY DEF ArmedInv, PlaceInv, Quiet, MadeWaits, Waits, Select, Steps, Goto, timer, guard
<1>6. QueueInv'
  BY DEF QueueInv, PlaceInv, Handles, InCallback, InSafe, Select, Steps, Goto, conn
<1>7. HeardInv'
  BY DEF HeardInv, PlaceInv, InCallback, MadeUnheard, Unheard, Select, Steps, Goto, conn, guard
<1> QED
  BY <1>1, <1>2, <1>3, <1>4, <1>5, <1>6, <1>7

(* Reading a header preserves the order of the session.                    *)
LEMMA ReadHeaderServes ==
  ASSUME Inv, Stopped, Session, ReadHeader
  PROVE  Session'
<1> USE DEF Inv, Stopped, Session, Asleep, App, Tm, Rd, Cb, Threads, None
<1>1. RestInv'
  BY DEF RestInv, ReaderInv, SafeInv, TellInv, MadeUnheard, Unheard, LostWaits, Making,
      PlaceInv, ReadHeader, Goto, timer, guard, peer
<1>2. FirstInv'
  BY DEF FirstInv, PlaceInv, ReadHeader, Goto
<1>3. SocketInv'
  BY DEF SocketInv, PlaceInv, StopInv, FirstInv, InSafe, Reading, Making, ReadHeader, Goto
<1>4. WorkerInv'
  BY DEF WorkerInv, PlaceInv, Quiet, ReadHeader, Goto
<1>5. ArmedInv'
  BY DEF ArmedInv, PlaceInv, Quiet, MadeWaits, Waits, ReadHeader, Goto, timer, guard
<1>6. QueueInv'
  BY DEF QueueInv, PlaceInv, Handles, InCallback, InSafe, ReadHeader, Goto
<1>7. HeardInv'
  BY DEF HeardInv, PlaceInv, InCallback, MadeUnheard, Unheard, ReadHeader, Goto, guard
<1> QED
  BY <1>1, <1>2, <1>3, <1>4, <1>5, <1>6, <1>7

(* The check before a part of the body preserves the order of the session. *)
LEMMA MoreServes ==
  ASSUME Inv, Stopped, Session, More
  PROVE  Session'
<1> USE DEF Inv, Stopped, Session, Asleep, App, Tm, Rd, Cb, Threads, None
<1>1. RestInv'
  BY DEF RestInv, ReaderInv, SafeInv, TellInv, MadeUnheard, Unheard, LostWaits, Making,
      PlaceInv, More, Steps, Goto, timer, conn, guard, peer
<1>2. FirstInv'
  BY DEF FirstInv, Before, Making, More, Steps, Goto, timer, conn, guard, peer
<1>3. SocketInv'
  BY DEF SocketInv, Reading, Making, More, Steps, Goto, timer, conn, guard, peer
<1>4. WorkerInv'
  BY DEF WorkerInv, Quiet, Before, More, Steps, Goto, timer, conn, guard, peer
<1>5. ArmedInv'
  BY DEF ArmedInv, Quiet, MadeWaits, Waits, More, Steps, Goto, timer, conn, guard, peer
<1>6. QueueInv'
  BY DEF QueueInv, Handles, InCallback, InSafe, More, Steps, Goto, timer, conn, guard, peer
<1>7. HeardInv'
  BY DEF HeardInv, InCallback, MadeUnheard, Unheard, More, Steps, Goto, timer, conn, guard, peer
<1> QED
  BY <1>1, <1>2, <1>3, <1>4, <1>5, <1>6, <1>7

(* Reading a body preserves the order of the session.                      *)
LEMMA ReadBodyServes ==
  ASSUME Inv, Stopped, Session, ReadBody
  PROVE  Session'
<1> USE DEF Inv, Stopped, Session, Asleep, App, Tm, Rd, Cb, Threads, None
<1>1. RestInv'
  BY DEF RestInv, ReaderInv, SafeInv, TellInv, MadeUnheard, Unheard, LostWaits, Making,
      PlaceInv, ReadBody, Goto, timer, guard
<1>2. FirstInv'
  BY DEF FirstInv, PlaceInv, ReadBody, Goto
<1>3. SocketInv'
  BY DEF SocketInv, PlaceInv, StopInv, FirstInv, InSafe, Reading, Making, ReadBody, Goto
<1>4. WorkerInv'
  BY DEF WorkerInv, PlaceInv, Quiet, ReadBody, Goto
<1>5. ArmedInv'
  BY DEF ArmedInv, PlaceInv, Quiet, MadeWaits, Waits, ReadBody, Goto, timer, guard
<1>6. QueueInv'
  BY DEF QueueInv, PlaceInv, Handles, InCallback, InSafe, ReadBody, Goto
<1>7. HeardInv'
  BY DEF HeardInv, PlaceInv, InCallback, MadeUnheard, Unheard, ReadBody, Goto, guard
<1> QED
  BY <1>1, <1>2, <1>3, <1>4, <1>5, <1>6, <1>7

(* Reporting a message preserves the order of the session.                 *)
LEMMA DeliverServes ==
  ASSUME Inv, Stopped, Session, Deliver
  PROVE  Session'
<1> USE DEF Inv, Stopped, Session, Asleep, App, Tm, Rd, Cb, Threads, None
<1>frame. UNCHANGED <<mode, running, mStop, lock, safe, safeLock, next, told>>
  BY DEF Deliver, timer, guard, conn
<1>call. Dispatch(Rd, "data", "loop") /\ cbState' = cbState
  BY DEF Deliver, conn
<1>async. ASSUME mode = "async"
         PROVE  /\ task' = task
                /\ pc' = [s \in Threads |-> IF s = Rd THEN "loop" ELSE pc[s]]
                /\ Len(queue) \in Nat /\ Len(queue') = Len(queue) + 1
                /\ \A i \in 1..Len(queue) : queue'[i] = queue[i]
                /\ queue'[Len(queue) + 1] = "data"
                /\ \A i \in 1..Len(queue') : i \in 1..Len(queue) \/ i = Len(queue) + 1
  <2>1. /\ task' = task
        /\ pc' = [s \in Threads |-> IF s = Rd THEN "loop" ELSE pc[s]]
        /\ Len(queue') = Len(queue) + 1
        /\ \A i \in 1..Len(queue) : queue'[i] = queue[i]
        /\ queue'[Len(queue) + 1] = "data"
    BY <1>call, <1>async, Dispatched DEF Callbacks, Places
  <2>2. Len(queue) \in Nat
    BY DEF DataInv
  <2>3. \A i \in 1..Len(queue') : i \in 1..Len(queue) \/ i = Len(queue) + 1
    BY <2>1, <2>2, SMT
  <2> QED
    BY <2>1, <2>2, <2>3
<1>sync. ASSUME mode # "async"
        PROVE  /\ task' = [s \in Threads |-> IF s = Rd THEN "data" ELSE task[s]]
               /\ pc' = [s \in Threads |-> IF s = Rd THEN "enter" ELSE pc[s]]
               /\ queue' = queue /\ queue = <<>> /\ pc[Cb] = "idle"
  <2>1. "data" \in Callbacks /\ "loop" \in Places /\ Rd \in Threads
    BY DEF Callbacks, Places
  <2>2. Dispatch(Rd, "data", "loop") /\ mode # "async"
    BY <1>call, <1>sync, Zenon
  <2>3. /\ task' = [s \in Threads |-> IF s = Rd THEN "data" ELSE task[s]]
        /\ pc' = [s \in Threads |-> IF s = Rd THEN "enter" ELSE pc[s]]
        /\ queue' = queue
    BY <2>1, <2>2, Dispatched
  <2>4. mode = "sync"
    BY <1>sync, ModesAssumption, Zenon DEF DataInv
  <2>5. queue = <<>> /\ pc[Cb] = "idle"
    BY <2>4, Zenon DEF TaskInv
  <2> QED
    BY <2>3, <2>5
<1>place. pc[Rd] = "deliver"
  BY DEF Deliver
<1>state. cbState
  BY <1>place DEF SocketInv, Reading
<1>1. RestInv'
  <2>1. ReaderInv'
    BY <1>frame, <1>async, <1>sync, <1>call, <1>place, SMT DEF RestInv, ReaderInv, PlaceInv,
        Making, WorkerInv, Quiet, Before
  <2>2. SafeInv'
    BY <1>frame, <1>async, <1>sync, <1>call, <1>place, SMT DEF RestInv, SafeInv, PlaceInv
  <2>3. TellInv'
    BY <1>frame, <1>async, <1>sync, <1>call, <1>place, SMT DEF RestInv, TellInv, MadeUnheard,
        Unheard, LostWaits, PlaceInv
  <2> QED
    BY <2>1, <2>2, <2>3 DEF RestInv
<1>2. FirstInv'
  BY DEF FirstInv, PlaceInv, Deliver, Dispatch, Goto
<1>3. SocketInv'
  BY DEF SocketInv, DataInv, PlaceInv, Reading, Making, Deliver, Dispatch, Goto, conn
<1>4. WorkerInv'
  BY DEF WorkerInv, PlaceInv, Quiet, Deliver, Dispatch, Goto
<1>5. ArmedInv'
  <2>1. CASE mode = "async"
    <3>1. MadeWaits' <=> MadeWaits
      <4>1. \A s \in Threads : Waits(s)' <=> Waits(s)
        BY <2>1, <1>async, <1>frame, <1>place, SMT DEF Waits, PlaceInv
      <4>2. (\E i \in 1..Len(queue) : queue[i] = "made")'
              <=> \E i \in 1..Len(queue) : queue[i] = "made"
        BY <2>1, <1>async
      <4> QED
        BY <4>1, <4>2 DEF MadeWaits
    <3> QED
      BY <3>1, <2>1, <1>async, <1>frame, <1>call, <1>place, <1>state, SMT DEF PlaceInv, TaskInv,
        SocketInv, Reading, ArmedInv, QueueInv, HeardInv, FirstInv, MadeWaits, Waits, Quiet,
        Before, Making
  <2>2. CASE mode # "async"
    BY <2>2, <1>sync, <1>frame, <1>call, <1>place, <1>state, SMT DEF PlaceInv, TaskInv,
        SocketInv, Reading, ArmedInv, QueueInv, HeardInv, FirstInv, MadeWaits, Waits, Quiet,
        Before, Making
  <2> QED
    BY <2>1, <2>2
<1>6. QueueInv'
  <2>1. CASE mode = "async"
    <3>1. /\ (\A i \in 1..Len(queue) : queue[i] = "made" => i = 1 /\ pc[Cb] = "idle")'
          /\ (\A i \in 1..Len(queue) : queue[i] # "lost")'
      BY <2>1, <1>async, <1>place, <1>state, SMT DEF QueueInv
    <3>2. ~ Handles(Cb, "lost")'
      BY <2>1, <1>async, <1>frame, <1>place, <1>state, SMT DEF QueueInv, Handles, InCallback
    <3> QED
      BY <3>1, <3>2, <2>1, <1>async, <1>frame, <1>call, <1>place, <1>state, SMT DEF PlaceInv,
        TaskInv, SocketInv, Reading, QueueInv, Handles, InCallback, InSafe
  <2>2. CASE mode # "async"
    BY <2>2, <1>sync, <1>frame, <1>call, <1>place, <1>state, SMT DEF PlaceInv, TaskInv,
        SocketInv, Reading, QueueInv, Handles, InCallback, InSafe
  <2> QED
    BY <2>1, <2>2
<1>7. HeardInv'
  <2>1. CASE mode = "async"
    <3>1. MadeUnheard' <=> MadeUnheard
      <4>1. \A s \in Threads : Unheard(s)' <=> Unheard(s)
        BY <2>1, <1>async, <1>frame, <1>place, SMT DEF Unheard, PlaceInv
      <4>2. (\E i \in 1..Len(queue) : queue[i] = "made")'
              <=> \E i \in 1..Len(queue) : queue[i] = "made"
        BY <2>1, <1>async
      <4> QED
        BY <4>1, <4>2 DEF MadeUnheard
    <3> QED
      BY <3>1, <2>1, <1>async, <1>frame, <1>call, <1>place, <1>state, SMT DEF PlaceInv, TaskInv,
        SocketInv, Reading, HeardInv, QueueInv, MadeUnheard, Unheard, Handles, InCallback, InSafe
  <2>2. CASE mode # "async"
    BY <2>2, <1>sync, <1>frame, <1>call, <1>place, <1>state, SMT DEF PlaceInv, TaskInv,
        SocketInv, Reading, HeardInv, QueueInv, MadeUnheard, Unheard, Handles, InCallback, InSafe
  <2> QED
    BY <2>1, <2>2
<1> QED
  BY <1>1, <1>2, <1>3, <1>4, <1>5, <1>6, <1>7

(* The reader's report of the loss preserves the order of the session.     *)
LEMMA LoseServes ==
  ASSUME Inv, Stopped, Session, Lose
  PROVE  Session'
<1> USE DEF Inv, Stopped, Session, Asleep, App, Tm, Rd, Cb, Threads, None
<1>frame. UNCHANGED <<mode, running, mStop, lock, safe, safeLock, next, told>>
  BY DEF Lose, timer, guard
<1>call. cbState => Dispatch(Rd, "lost", "exit") /\ cbState' = FALSE
  BY DEF Lose
<1>async. ASSUME mode = "async" /\ cbState
         PROVE  /\ task' = task
                /\ pc' = [s \in Threads |-> IF s = Rd THEN "exit" ELSE pc[s]]
                /\ Len(queue) \in Nat /\ Len(queue') = Len(queue) + 1
                /\ \A i \in 1..Len(queue) : queue'[i] = queue[i]
                /\ queue'[Len(queue) + 1] = "lost"
                /\ \A i \in 1..Len(queue') : i \in 1..Len(queue) \/ i = Len(queue) + 1
  <2>1. /\ task' = task
        /\ pc' = [s \in Threads |-> IF s = Rd THEN "exit" ELSE pc[s]]
        /\ Len(queue') = Len(queue) + 1
        /\ \A i \in 1..Len(queue) : queue'[i] = queue[i]
        /\ queue'[Len(queue) + 1] = "lost"
    BY <1>call, <1>async, Dispatched DEF Callbacks, Places
  <2>2. Len(queue) \in Nat
    BY DEF DataInv
  <2>3. \A i \in 1..Len(queue') : i \in 1..Len(queue) \/ i = Len(queue) + 1
    BY <2>1, <2>2, SMT
  <2> QED
    BY <2>1, <2>2, <2>3
<1>sync. ASSUME mode # "async" /\ cbState
        PROVE  /\ task' = [s \in Threads |-> IF s = Rd THEN "lost" ELSE task[s]]
               /\ pc' = [s \in Threads |-> IF s = Rd THEN "enter" ELSE pc[s]]
               /\ queue' = queue /\ queue = <<>> /\ pc[Cb] = "idle"
  <2>1. "lost" \in Callbacks /\ "exit" \in Places /\ Rd \in Threads
    BY DEF Callbacks, Places
  <2>2. Dispatch(Rd, "lost", "exit") /\ mode # "async"
    BY <1>call, <1>sync, Zenon
  <2>3. /\ task' = [s \in Threads |-> IF s = Rd THEN "lost" ELSE task[s]]
        /\ pc' = [s \in Threads |-> IF s = Rd THEN "enter" ELSE pc[s]]
        /\ queue' = queue
    BY <2>1, <2>2, Dispatched
  <2>4. mode = "sync"
    BY <1>sync, ModesAssumption, Zenon DEF DataInv
  <2>5. queue = <<>> /\ pc[Cb] = "idle"
    BY <2>4, Zenon DEF TaskInv
  <2> QED
    BY <2>3, <2>5
<1>place. pc[Rd] = "lose"
  BY DEF Lose
<1>none. ASSUME ~ (cbState)
        PROVE  /\ pc' = [s \in Threads |-> IF s = Rd THEN "exit" ELSE pc[s]]
               /\ cbState' = cbState /\ task' = task /\ queue' = queue
  BY <1>none, SMT DEF Lose, PlaceInv, Goto
<1>1. RestInv'
  <2>1. ReaderInv'
    <3>1. ~ cbState'
      BY <1>place, <1>call, SMT DEF SocketInv, Reading
    <3> QED
      BY <3>1 DEF ReaderInv
  <2>2. SafeInv'
    BY <1>frame, <1>async, <1>sync, <1>call, <1>place, <1>none, SMT DEF RestInv, SafeInv, PlaceInv
  <2>3. TellInv'
    BY <1>frame, <1>async, <1>sync, <1>call, <1>place, <1>none, SMT DEF RestInv, TellInv,
        MadeUnheard, Unheard, LostWaits, PlaceInv
  <2> QED
    BY <2>1, <2>2, <2>3 DEF RestInv
<1>2. FirstInv'
  BY DEF FirstInv, PlaceInv, Lose, Goto, Dispatch
<1>3. SocketInv'
  BY DEF SocketInv, DataInv, PlaceInv, StopInv, FirstInv, InSafe, Reading, Making, Lose, Goto,
      Dispatch
<1>4. WorkerInv'
  BY DEF WorkerInv, PlaceInv, Quiet, Lose, Goto, Dispatch
<1>5. ArmedInv'
  <2>1. CASE mode = "async" /\ cbState
    <3>1. MadeWaits' <=> MadeWaits
      <4>1. \A s \in Threads : Waits(s)' <=> Waits(s)
        BY <2>1, <1>async, <1>frame, <1>place, SMT DEF Waits, PlaceInv
      <4>2. (\E i \in 1..Len(queue) : queue[i] = "made")'
              <=> \E i \in 1..Len(queue) : queue[i] = "made"
        BY <2>1, <1>async
      <4> QED
        BY <4>1, <4>2 DEF MadeWaits
    <3> QED
      BY <3>1, <2>1, <1>async, <1>frame, <1>call, <1>place, SMT DEF PlaceInv, TaskInv,
        SocketInv, Reading, ArmedInv, QueueInv, HeardInv, FirstInv, MadeWaits, Waits, Quiet,
        Before, Making
  <2>2. CASE mode # "async" /\ cbState
    BY <2>2, <1>sync, <1>frame, <1>call, <1>place, SMT DEF PlaceInv, TaskInv, SocketInv,
        Reading, ArmedInv, QueueInv, HeardInv, FirstInv, MadeWaits, Waits, Quiet, Before, Making
  <2>3. CASE ~ (cbState)
    BY <2>3, <1>none, <1>frame, <1>place, SMT DEF PlaceInv, TaskInv, SocketInv, Reading,
        ArmedInv, QueueInv, HeardInv, FirstInv, MadeWaits, Waits, Quiet, Before, Making
  <2> QED
    BY <2>1, <2>2, <2>3
<1>6. QueueInv'
  <2>1. CASE mode = "async" /\ cbState
    <3>1. /\ (\A i \in 1..Len(queue) : queue[i] = "made" => i = 1 /\ pc[Cb] = "idle")'
          /\ (\A i \in 1..Len(queue) : queue[i] = "lost" => i = Len(queue))'
      BY <2>1, <1>async, <1>place, SMT DEF QueueInv
    <3> QED
      BY <3>1, <2>1, <1>async, <1>frame, <1>call, <1>place, SMT DEF PlaceInv, TaskInv,
        SocketInv, Reading, QueueInv, Handles, InCallback, InSafe
  <2>2. CASE mode # "async" /\ cbState
    BY <2>2, <1>sync, <1>frame, <1>call, <1>place, SMT DEF PlaceInv, TaskInv, SocketInv,
        Reading, QueueInv, Handles, InCallback, InSafe
  <2>3. CASE ~ (cbState)
    BY <2>3, <1>none, <1>frame, <1>place, SMT DEF PlaceInv, TaskInv, SocketInv, Reading,
        QueueInv, Handles, InCallback, InSafe
  <2> QED
    BY <2>1, <2>2, <2>3
<1>7. HeardInv'
  <2>1. CASE mode = "async" /\ cbState
    <3>1. MadeUnheard' <=> MadeUnheard
      <4>1. \A s \in Threads : Unheard(s)' <=> Unheard(s)
        BY <2>1, <1>async, <1>frame, <1>place, SMT DEF Unheard, PlaceInv
      <4>2. (\E i \in 1..Len(queue) : queue[i] = "made")'
              <=> \E i \in 1..Len(queue) : queue[i] = "made"
        BY <2>1, <1>async
      <4> QED
        BY <4>1, <4>2 DEF MadeUnheard
    <3> QED
      BY <3>1, <2>1, <1>async, <1>frame, <1>call, <1>place, SMT DEF PlaceInv, TaskInv,
        SocketInv, Reading, HeardInv, QueueInv, MadeUnheard, Unheard, Handles, InCallback, InSafe
  <2>2. CASE mode # "async" /\ cbState
    BY <2>2, <1>sync, <1>frame, <1>call, <1>place, SMT DEF PlaceInv, TaskInv, SocketInv,
        Reading, HeardInv, QueueInv, MadeUnheard, Unheard, Handles, InCallback, InSafe
  <2>3. CASE ~ (cbState)
    BY <2>3, <1>none, <1>frame, <1>place, SMT DEF PlaceInv, TaskInv, SocketInv, Reading,
        HeardInv, QueueInv, MadeUnheard, Unheard, Handles, InCallback, InSafe
  <2> QED
    BY <2>1, <2>2, <2>3
<1> QED
  BY <1>1, <1>2, <1>3, <1>4, <1>5, <1>6, <1>7

(* The end of the reader preserves the order of the session.               *)
LEMMA ExitServes ==
  ASSUME Inv, Stopped, Session, Exit
  PROVE  Session'
<1> USE DEF Inv, Stopped, Session, Asleep, App, Tm, Rd, Cb, Threads, None
<1>1. RestInv'
  BY DEF RestInv, ReaderInv, SafeInv, TellInv, MadeUnheard, Unheard, LostWaits, Making,
      PlaceInv, Exit, Goto, timer, guard, peer
<1>2. FirstInv'
  BY DEF FirstInv, Before, Making, Exit, Goto, timer, guard, peer
<1>3. SocketInv'
  BY DEF SocketInv, Reading, Making, Exit, Goto, timer, guard, peer
<1>4. WorkerInv'
  BY DEF WorkerInv, Quiet, Before, Exit, Goto, timer, guard, peer
<1>5. ArmedInv'
  BY DEF ArmedInv, Quiet, MadeWaits, Waits, Exit, Goto, timer, guard, peer
<1>6. QueueInv'
  BY DEF QueueInv, Handles, InCallback, InSafe, Exit, Goto, timer, guard, peer
<1>7. HeardInv'
  BY DEF HeardInv, InCallback, MadeUnheard, Unheard, Exit, Goto, timer, guard, peer
<1> QED
  BY <1>1, <1>2, <1>3, <1>4, <1>5, <1>6, <1>7

(* The dispatcher's next task preserves the order of the session.          *)
LEMMA TakeServes ==
  ASSUME Inv, Stopped, Session, Take
  PROVE  Session'
<1> USE DEF Inv, Stopped, Session, Asleep, App, Tm, Rd, Cb, Threads, None
<1>1. RestInv'
  <2>1. ReaderInv'
    BY SMT DEF RestInv, ReaderInv, PlaceInv, Making, Take, Goto, conn, guard
  <2>2. SafeInv'
    BY SMT DEF RestInv, SafeInv, PlaceInv, Take, Goto, conn, guard
  <2>3. TellInv'
    BY SMT DEF RestInv, TellInv, MadeUnheard, Unheard, LostWaits, PlaceInv, DataInv, QueueInv,
        TaskInv, Take, Goto, conn, guard
  <2> QED
    BY <2>1, <2>2, <2>3 DEF RestInv
<1>2. FirstInv'
  BY DEF FirstInv, DataInv, Take, Goto
<1>3. SocketInv'
  BY DEF SocketInv, Reading, Making, Take, Goto, timer, conn, guard, peer
<1>4. WorkerInv'
  BY DEF WorkerInv, Quiet, Before, Take, Goto, timer, conn, guard, peer
<1>5. ArmedInv'
  BY DEF ArmedInv, DataInv, PlaceInv, QueueInv, Quiet, MadeWaits, Waits, Making, Take, Goto,
      timer, guard
<1>6. QueueInv'
  BY DEF QueueInv, DataInv, InCallback, Handles, Reading, Take, Goto, conn
<1>7. HeardInv'
  BY DEF HeardInv, DataInv, PlaceInv, QueueInv, InCallback, Quiet, MadeUnheard, Unheard, Making,
      Take, Goto, conn, guard
<1> QED
  BY <1>1, <1>2, <1>3, <1>4, <1>5, <1>6, <1>7

(* Entering ifSafe(), or being turned away, preserves the order of the     *)
(* session.                                                                *)
LEMMA EnterServes ==
  ASSUME Inv, Stopped, Session, NEW t \in Threads, Enter(t)
  PROVE  Session'
<1> USE DEF Inv, Stopped, Session, Asleep, App, Tm, Rd, Cb, Threads, None
<1>1. RestInv'
  <2>1. ReaderInv'
    BY SMT DEF RestInv, ReaderInv, PlaceInv, TaskInv, FirstInv, StopInv, SocketInv, InSafe,
        Making, Enter, After, CallStop, Goto, conn
  <2>2. SafeInv'
    BY SMT DEF RestInv, SafeInv, PlaceInv, Enter, After, CallStop, Goto, conn
  <2>3. TellInv'
    BY SMT DEF RestInv, TellInv, MadeUnheard, Unheard, LostWaits, PlaceInv, Enter, After,
        CallStop, Goto, conn
  <2> QED
    BY <2>1, <2>2, <2>3 DEF RestInv
<1>2. FirstInv'
  BY DEF FirstInv, PlaceInv, Before, Making, Enter, Goto, CallStop, After
<1>3. SocketInv'
  BY DEF SocketInv, PlaceInv, StopInv, FirstInv, InSafe, Reading, Making, Enter, Goto, CallStop,
      After, conn
<1>4. WorkerInv'
  BY DEF WorkerInv, PlaceInv, SocketInv, Quiet, Before, Making, Enter, Goto, CallStop, After
<1>5. ArmedInv'
  BY DEF ArmedInv, PlaceInv, Quiet, MadeWaits, Waits, Enter, Goto, CallStop, timer, conn
<1>6. QueueInv'
  BY DEF QueueInv, PlaceInv, Handles, InCallback, InSafe, Enter, Goto, CallStop, conn
<1>7. HeardInv'
  BY DEF HeardInv, PlaceInv, InCallback, MadeUnheard, Unheard, Enter, Goto, CallStop, After, conn
<1> QED
  BY <1>1, <1>2, <1>3, <1>4, <1>5, <1>6, <1>7

(* The user's callback preserves the order of the session.                 *)
LEMMA CallbackServes ==
  ASSUME Inv, Stopped, Session, NEW t \in Threads, Callback(t)
  PROVE  Session'
<1> USE DEF Inv, Stopped, Session, Asleep, App, Tm, Rd, Cb, Threads, None
<1>1. RestInv'
  <2>1. ReaderInv'
    BY SMT DEF RestInv, ReaderInv, PlaceInv, TaskInv, FirstInv, StopInv, SocketInv, InSafe,
        Making, Callback, Goto, conn, guard
  <2>2. SafeInv'
    BY SMT DEF RestInv, SafeInv, PlaceInv, HeardInv, InCallback, Callback, Goto, conn, guard
  <2>3. TellInv'
    <3>1. pc[t] = "callback" /\ safe
      BY SMT DEF Callback, HeardInv, InCallback
    <3>2. /\ UNCHANGED <<cbState, safe, queue, task, next>>
          /\ \A s \in Threads : s # t => pc'[s] = pc[s]
          /\ pc'[t] \in {"runningCheck", "leave"}
      BY SMT DEF Callback, Goto, PlaceInv, conn, guard
    <3>3. CASE task[t] # "lost"
      <4>1. LostWaits => LostWaits'
        BY <3>2, <3>3, SMT DEF LostWaits
      <4>2. MadeUnheard' => MadeUnheard
        BY <3>2, SMT DEF MadeUnheard, Unheard
      <4>3. told' = told \/ MadeUnheard
        BY <3>1, <3>3, SMT DEF Callback, MadeUnheard, Unheard
      <4> QED
        BY <3>1, <3>2, <4>1, <4>2, <4>3 DEF RestInv, TellInv
    <3>4. CASE task[t] = "lost"
      <4>1. told' = "down"
        BY <3>1, <3>4 DEF Callback
      <4>2. \A i \in 1..Len(queue') : queue'[i] # "made"
        BY <3>1, <3>2, <3>4, ModesAssumption,
           SMT DEF QueueInv, Handles, InSafe, TaskInv, DataInv, PlaceInv
      <4>3. \A s \in Threads : ~ Unheard(s)'
        BY <3>1, <3>2, <3>4, ModesAssumption, SMT DEF Unheard, TaskInv, DataInv, FirstInv,
          WorkerInv, Quiet, Before, StopInv, InSafe, PlaceInv, CbPlaces, RdPlaces, TmPlaces,
          SocketInv, Making
      <4> QED
        BY <4>1, <4>2, <4>3 DEF TellInv, MadeUnheard
    <3> QED
      BY <3>3, <3>4
  <2> QED
    BY <2>1, <2>2, <2>3 DEF RestInv
<1>2. FirstInv'
  BY DEF FirstInv, Before, Making, Callback, Goto, timer, conn, guard, peer
<1>3. SocketInv'
  BY DEF SocketInv, Reading, Making, Callback, Goto, timer, conn, guard, peer
<1>4. WorkerInv'
  BY DEF WorkerInv, Quiet, Before, Callback, Goto, timer, conn, guard, peer
<1>5. ArmedInv'
  BY DEF ArmedInv, SocketInv, Quiet, MadeWaits, Waits, InSafe, Callback, Goto, timer, conn, guard
<1>6. QueueInv'
  BY DEF QueueInv, Handles, InCallback, InSafe, Callback, Goto, timer, conn, guard, peer
<1>7. HeardInv'
  <2>1. /\ pc[t] = "callback" /\ pc'[t] \in {"runningCheck", "leave"}
        /\ pc'[t] = "runningCheck" <=> task[t] = "lost"
        /\ \A s \in Threads : s # t => pc'[s] = pc[s]
    BY SMT DEF PlaceInv, Callback, Goto
  <2>2. /\ UNCHANGED <<mode, running, safe, cbState, queue, task, next>>
        /\ task[t] = "made" => told' = "up"
        /\ task[t] = "lost" => told' = "down"
        /\ task[t] \notin {"made", "lost"} => told' = told
    BY DEF Callback, conn, guard
  <2>3. safe /\ safeLock = t
    BY <2>1 DEF HeardInv, LockInv, InCallback
  <2>4. \A s \in Threads :
           /\ InCallback(s) => s = t
           /\ InCallback(s)' => s = t
    BY <2>1, <2>2, <2>3, SMT DEF InCallback, LockInv
  <2>5. CASE task[t] = "made"
    <3>1. \A i \in 1..Len(queue) : queue[i] # "made"
      BY <2>1, <2>5, ModesAssumption, SMT DEF QueueInv, TaskInv, DataInv
    <3>2. \A s \in Threads : s # t => ~ Unheard(s)
      BY <2>1, <2>5, ModesAssumption, SMT DEF Unheard, TaskInv, DataInv, FirstInv, WorkerInv,
        PlaceInv, CbPlaces, TmPlaces
    <3>3. ~ MadeUnheard'
      BY <2>1, <2>2, <2>5, <3>1, <3>2, SMT DEF MadeUnheard, Unheard
    <3> QED
      BY <2>1, <2>2, <2>3, <2>4, <2>5, <3>3, SMT DEF HeardInv, InCallback
  <2>6. CASE task[t] = "lost"
    <3>1. ~ cbState /\ queue = <<>>
      BY <2>1, <2>6, ModesAssumption, SMT DEF QueueInv, Handles, InSafe, TaskInv, DataInv,
        StopInv, FirstInv, SocketInv, Making
    <3>2. \A s \in {Cb, Rd} : ~ (task[s] = "data" /\ pc[s] \in {"enter", "callback"})
      BY <2>1, <2>6, ModesAssumption, SMT DEF TaskInv, DataInv, StopInv, InSafe, FirstInv,
        SocketInv, Making
    <3> QED
      BY <2>1, <2>2, <2>3, <2>4, <2>6, <3>1, <3>2, SMT DEF HeardInv, InCallback
  <2>7. CASE task[t] \notin {"made", "lost"}
    <3>1. MadeUnheard' <=> MadeUnheard
      <4>1. \A s \in Threads : Unheard(s)' <=> Unheard(s)
        BY <2>1, <2>2, <2>7, SMT DEF Unheard
      <4> QED
        BY <2>2, <4>1 DEF MadeUnheard
    <3> QED
      BY <2>1, <2>2, <2>3, <2>4, <2>7, <3>1, SMT DEF HeardInv, InCallback
  <2> QED
    BY <2>5, <2>6, <2>7
<1> QED
  BY <1>1, <1>2, <1>3, <1>4, <1>5, <1>6, <1>7

(* connectionLost()'s check whether to redial preserves the order of the   *)
(* session.                                                                *)
LEMMA RunningCheckServes ==
  ASSUME Inv, Stopped, Session, NEW t \in Threads, RunningCheck(t)
  PROVE  Session'
<1> USE DEF Inv, Stopped, Session, Asleep, App, Tm, Rd, Cb, Threads, None
<1>1. RestInv'
  BY DEF RestInv, ReaderInv, SafeInv, TellInv, MadeUnheard, Unheard, LostWaits, Making,
      PlaceInv, RunningCheck, Steps, Goto, timer, conn, guard, peer
<1>2. FirstInv'
  BY DEF FirstInv, Before, Making, RunningCheck, Steps, Goto, timer, conn, guard, peer
<1>3. SocketInv'
  BY DEF SocketInv, StopInv, HeardInv, InSafe, Reading, RunningCheck, Steps, Goto, conn
<1>4. WorkerInv'
  BY DEF WorkerInv, Quiet, Before, RunningCheck, Steps, Goto, timer, conn, guard, peer
<1>5. ArmedInv'
  BY DEF ArmedInv, Quiet, MadeWaits, Waits, RunningCheck, Steps, Goto, timer, conn, guard, peer
<1>6. QueueInv'
  BY DEF QueueInv, Handles, InCallback, InSafe, RunningCheck, Steps, Goto, timer, conn, guard,
      peer
<1>7. HeardInv'
  BY DEF HeardInv, InCallback, MadeUnheard, Unheard, RunningCheck, Steps, Goto, timer, conn,
      guard, peer
<1> QED
  BY <1>1, <1>2, <1>3, <1>4, <1>5, <1>6, <1>7

(* Leaving ifSafe() preserves the order of the session.                    *)
LEMMA LeaveServes ==
  ASSUME Inv, Stopped, Session, NEW t \in Threads, Leave(t)
  PROVE  Session'
<1> USE DEF Inv, Stopped, Session, Asleep, App, Tm, Rd, Cb, Threads, None
<1>1. RestInv'
  <2>1. ReaderInv'
    BY SMT DEF RestInv, ReaderInv, PlaceInv, TaskInv, FirstInv, StopInv, SocketInv, InSafe,
        Making, Leave, After, Goto, conn
  <2>2. SafeInv'
    BY SMT DEF RestInv, SafeInv, PlaceInv, Leave, After, Goto, conn
  <2>3. TellInv'
    BY SMT DEF RestInv, TellInv, MadeUnheard, Unheard, LostWaits, PlaceInv, Leave, After, Goto,
        conn
  <2> QED
    BY <2>1, <2>2, <2>3 DEF RestInv
<1>2. FirstInv'
  BY DEF FirstInv, Before, Making, Leave, Goto, After, timer, conn, peer
<1>3. SocketInv'
  BY DEF SocketInv, StopInv, FirstInv, Handles, InSafe, Reading, Making, Leave, Goto, After, conn
<1>4. WorkerInv'
  BY DEF WorkerInv, SocketInv, Quiet, Before, Making, Leave, Goto, After, conn
<1>5. ArmedInv'
  BY DEF ArmedInv, Quiet, MadeWaits, Waits, Leave, Goto, After, timer, conn, peer
<1>6. QueueInv'
  BY DEF QueueInv, Handles, InCallback, InSafe, Leave, Goto, After, timer, conn, peer
<1>7. HeardInv'
  BY DEF HeardInv, InCallback, MadeUnheard, Unheard, Leave, Goto, After, timer, conn, peer
<1> QED
  BY <1>1, <1>2, <1>3, <1>4, <1>5, <1>6, <1>7

(* start() preserves the order of the session.                             *)
LEMMA StartServes ==
  ASSUME Inv, Stopped, Session, StartsAlone, Start
  PROVE  Session'
<1> USE DEF Inv, Stopped, Session, Asleep, App, Tm, Rd, Cb, Threads, None
<1>1. RestInv'
  <2>1. ReaderInv'
    BY SMT DEF RestInv, ReaderInv, PlaceInv, StartsAlone, Making, Start, Goto, conn, guard
  <2>2. SafeInv'
    BY SMT DEF RestInv, SafeInv, PlaceInv, DestroyInv, Start, Goto, conn, guard
  <2>3. TellInv'
    BY SMT DEF RestInv, TellInv, MadeUnheard, Unheard, LostWaits, PlaceInv, Start, Goto, conn,
        guard
  <2> QED
    BY <2>1, <2>2, <2>3 DEF RestInv
<1>2. FirstInv'
  <2>1. ~ cbState /\ told = "down"
    BY SMT DEF RestInv, ReaderInv, SafeInv, TellInv, LostWaits, StartsAlone, DestroyInv,
        DataInv, PlaceInv, Making, Start, Goto
  <2> QED
    BY <2>1, SMT DEF FirstInv, StartsAlone, PlaceInv, Making, Before, Start, Goto, conn
<1>3. SocketInv'
  BY DEF SocketInv, Reading, Making, Start, Goto, Spend, timer, conn, guard, peer
<1>4. WorkerInv'
  BY DEF WorkerInv, StartsAlone, Start, Goto, Spend
<1>5. ArmedInv'
  BY DEF ArmedInv, Quiet, MadeWaits, Waits, Start, Goto, Spend, timer, conn, guard, peer
<1>6. QueueInv'
  BY DEF QueueInv, Handles, InCallback, InSafe, Start, Goto, Spend, timer, conn, guard, peer
<1>7. HeardInv'
  BY DEF HeardInv, InCallback, MadeUnheard, Unheard, Start, Goto, Spend, timer, conn, guard, peer
<1> QED
  BY <1>1, <1>2, <1>3, <1>4, <1>5, <1>6, <1>7

(* stop() preserves the order of the session.                              *)
LEMMA StopServes ==
  ASSUME Inv, Stopped, Session, Stop
  PROVE  Session'
<1> USE DEF Inv, Stopped, Session, Asleep, App, Tm, Rd, Cb, Threads, None
<1>1. RestInv'
  <2>1. ReaderInv'
    BY SMT DEF RestInv, ReaderInv, PlaceInv, Making, Stop, CallStop, Goto, conn, guard
  <2>2. SafeInv'
    BY SMT DEF RestInv, SafeInv, PlaceInv, DestroyInv, Stop, CallStop, Goto, conn, guard
  <2>3. TellInv'
    BY SMT DEF RestInv, TellInv, MadeUnheard, Unheard, LostWaits, PlaceInv, Stop, CallStop,
        Goto, conn, guard
  <2> QED
    BY <2>1, <2>2, <2>3 DEF RestInv
<1>2. FirstInv'
  BY DEF FirstInv, Before, Making, Stop, Spend, CallStop, Goto, timer, conn, guard, peer
<1>3. SocketInv'
  BY DEF SocketInv, PlaceInv, Stop, CallStop, Goto, conn
<1>4. WorkerInv'
  BY DEF WorkerInv, PlaceInv, Quiet, Stop, CallStop, Goto, conn
<1>5. ArmedInv'
  BY DEF ArmedInv, PlaceInv, Quiet, MadeWaits, Waits, Stop, CallStop, Goto, timer, conn, guard
<1>6. QueueInv'
  BY DEF QueueInv, Handles, InCallback, InSafe, Stop, Spend, CallStop, Goto, timer, conn, guard,
      peer
<1>7. HeardInv'
  BY DEF HeardInv, PlaceInv, InCallback, MadeUnheard, Unheard, Stop, CallStop, Goto, conn, guard
<1> QED
  BY <1>1, <1>2, <1>3, <1>4, <1>5, <1>6, <1>7

(* The last line of stop() preserves the order of the session.             *)
LEMMA NotifyServes ==
  ASSUME Inv, Stopped, Session, Notify
  PROVE  Session'
<1> USE DEF Inv, Stopped, Session, Asleep, App, Tm, Rd, Cb, Threads, None
<1>1. RestInv'
  <2>1. ReaderInv'
    BY SMT DEF RestInv, ReaderInv, PlaceInv, Making, Notify, IsConnected, Goto, conn, guard
  <2>2. SafeInv'
    BY SMT DEF RestInv, SafeInv, PlaceInv, StopInv, Notify, IsConnected, Goto, conn, guard
  <2>3. TellInv'
    BY SMT DEF RestInv, TellInv, MadeUnheard, Unheard, LostWaits, PlaceInv, StopInv, Notify,
        IsConnected, Goto, conn, guard
  <2> QED
    BY <2>1, <2>2, <2>3 DEF RestInv
<1>2. FirstInv'
  BY DEF FirstInv, Before, Making, Notify, Goto, IsConnected, timer, conn, guard, peer
<1>3. SocketInv'
  BY DEF SocketInv, Reading, Making, Notify, Goto, IsConnected, timer, conn, guard, peer
<1>4. WorkerInv'
  BY DEF WorkerInv, Quiet, Before, Notify, Goto, IsConnected, timer, conn, guard, peer
<1>5. ArmedInv'
  BY DEF ArmedInv, Quiet, MadeWaits, Waits, Notify, Goto, IsConnected, timer, conn, guard, peer
<1>6. QueueInv'
  BY DEF QueueInv, Handles, InCallback, InSafe, Notify, Goto, IsConnected, timer, conn, guard,
      peer
<1>7. HeardInv'
  BY DEF HeardInv, StopInv, InCallback, InSafe, Before, Reading, Making, Notify, Goto,
      IsConnected, guard
<1> QED
  BY <1>1, <1>2, <1>3, <1>4, <1>5, <1>6, <1>7

(* The beginning of the client's destructor preserves the order of the     *)
(* session.                                                                *)
LEMMA DestroyServes ==
  ASSUME Inv, Stopped, Session, Destroy
  PROVE  Session'
<1> USE DEF Inv, Stopped, Session, Asleep, App, Tm, Rd, Cb, Threads, None
<1>1. RestInv'
  <2>1. ReaderInv'
    BY SMT DEF RestInv, ReaderInv, PlaceInv, Making, Destroy, CallStop, Goto, conn, guard
  <2>2. SafeInv'
    BY SMT DEF RestInv, SafeInv, PlaceInv, DestroyInv, Destroy, CallStop, Goto, conn, guard
  <2>3. TellInv'
    BY SMT DEF RestInv, TellInv, MadeUnheard, Unheard, LostWaits, PlaceInv, Destroy, CallStop,
        Goto, conn, guard
  <2> QED
    BY <2>1, <2>2, <2>3 DEF RestInv
<1>2. FirstInv'
  BY DEF FirstInv, Before, Making, Destroy, CallStop, Goto, timer, conn, guard, peer
<1>3. SocketInv'
  BY DEF SocketInv, PlaceInv, Destroy, CallStop, Goto, conn
<1>4. WorkerInv'
  BY DEF WorkerInv, PlaceInv, Quiet, Destroy, CallStop, Goto, conn
<1>5. ArmedInv'
  BY DEF ArmedInv, PlaceInv, Quiet, MadeWaits, Waits, Destroy, CallStop, Goto, timer, conn, guard
<1>6. QueueInv'
  BY DEF QueueInv, Handles, InCallback, InSafe, Destroy, CallStop, Goto, timer, conn, guard, peer
<1>7. HeardInv'
  BY DEF HeardInv, PlaceInv, InCallback, MadeUnheard, Unheard, Destroy, CallStop, Goto, conn,
      guard
<1> QED
  BY <1>1, <1>2, <1>3, <1>4, <1>5, <1>6, <1>7

(* The beginning of the connection's destructor preserves the order of the *)
(* session.                                                                *)
LEMMA ReleaseServes ==
  ASSUME Inv, Stopped, Session, Release
  PROVE  Session'
<1> USE DEF Inv, Stopped, Session, Asleep, App, Tm, Rd, Cb, Threads, None
<1>1. RestInv'
  <2>1. ReaderInv'
    BY SMT DEF RestInv, ReaderInv, PlaceInv, Making, Release, Goto, guard
  <2>2. SafeInv'
    BY SMT DEF RestInv, SafeInv, PlaceInv, Release, Goto, guard
  <2>3. TellInv'
    BY SMT DEF RestInv, TellInv, MadeUnheard, Unheard, LostWaits, PlaceInv, ReleaseInv,
        DestroyInv, Release, Goto, guard
  <2> QED
    BY <2>1, <2>2, <2>3 DEF RestInv
<1>2. FirstInv'
  BY DEF FirstInv, DestroyInv, Release
<1>3. SocketInv'
  BY DEF SocketInv, DestroyInv, ReleaseInv, Waits, MadeUnheard, Unheard, Handles, InSafe,
      Before, Reading, Release, Goto
<1>4. WorkerInv'
  BY DEF WorkerInv, Quiet, Before, Release, Goto, timer, guard, peer
<1>5. ArmedInv'
  BY DEF ArmedInv, Quiet, MadeWaits, Waits, Release, Goto, timer, guard, peer
<1>6. QueueInv'
  BY DEF QueueInv, Handles, InCallback, InSafe, Release, Goto, timer, guard, peer
<1>7. HeardInv'
  BY DEF HeardInv, InCallback, MadeUnheard, Unheard, Release, Goto, timer, guard, peer
<1> QED
  BY <1>1, <1>2, <1>3, <1>4, <1>5, <1>6, <1>7

(* The end of the dispatcher's destructor preserves the order of the       *)
(* session.                                                                *)
LEMMA DrainedServes ==
  ASSUME Inv, Stopped, Session, Drained
  PROVE  Session'
<1> USE DEF Inv, Stopped, Session, Asleep, App, Tm, Rd, Cb, Threads, None
<1>1. RestInv'
  BY DEF RestInv, ReaderInv, SafeInv, TellInv, MadeUnheard, Unheard, LostWaits, Making,
      PlaceInv, Drained, Steps, Goto, timer, conn, guard, peer
<1>2. FirstInv'
  BY DEF FirstInv, Before, Making, Drained, Steps, Goto, timer, conn, guard, peer
<1>3. SocketInv'
  BY DEF SocketInv, Reading, Making, Drained, Steps, Goto, timer, conn, guard, peer
<1>4. WorkerInv'
  BY DEF WorkerInv, Quiet, Before, Drained, Steps, Goto, timer, conn, guard, peer
<1>5. ArmedInv'
  BY DEF ArmedInv, Quiet, MadeWaits, Waits, Drained, Steps, Goto, timer, conn, guard, peer
<1>6. QueueInv'
  BY DEF QueueInv, Handles, InCallback, InSafe, Drained, Steps, Goto, timer, conn, guard, peer
<1>7. HeardInv'
  BY DEF HeardInv, InCallback, MadeUnheard, Unheard, Drained, Steps, Goto, timer, conn, guard,
      peer
<1> QED
  BY <1>1, <1>2, <1>3, <1>4, <1>5, <1>6, <1>7

(* A frame of the peer, or a part of one, preserves the order of the       *)
(* session.                                                                *)
LEMMA PeerSendsServes ==
  ASSUME Inv, Stopped, Session, PeerSends
  PROVE  Session'
<1> USE DEF Inv, Stopped, Session, Asleep, App, Tm, Rd, Cb, Threads, None
<1>1. RestInv'
  BY DEF RestInv, ReaderInv, SafeInv, TellInv, MadeUnheard, Unheard, LostWaits, Making,
      PlaceInv, PeerSends, Spend, timer, conn, guard
<1>2. FirstInv'
  BY DEF FirstInv, Before, Making, PeerSends, Spend, timer, conn, guard
<1>3. SocketInv'
  BY DEF SocketInv, Reading, Making, PeerSends, Spend, timer, conn, guard
<1>4. WorkerInv'
  BY DEF WorkerInv, Quiet, Before, PeerSends, Spend, timer, conn, guard
<1>5. ArmedInv'
  BY DEF ArmedInv, Quiet, MadeWaits, Waits, PeerSends, Spend, timer, conn, guard
<1>6. QueueInv'
  BY DEF QueueInv, Handles, InCallback, InSafe, PeerSends, Spend, timer, conn, guard
<1>7. HeardInv'
  BY DEF HeardInv, InCallback, MadeUnheard, Unheard, PeerSends, Spend, timer, conn, guard
<1> QED
  BY <1>1, <1>2, <1>3, <1>4, <1>5, <1>6, <1>7

(* The peer's end of the connection preserves the order of the session.    *)
LEMMA PeerEndsServes ==
  ASSUME Inv, Stopped, Session, PeerEnds
  PROVE  Session'
<1> USE DEF Inv, Stopped, Session, Asleep, App, Tm, Rd, Cb, Threads, None
<1>1. RestInv'
  BY DEF RestInv, ReaderInv, SafeInv, TellInv, MadeUnheard, Unheard, LostWaits, Making,
      PlaceInv, PeerEnds, Spend, timer, conn, guard
<1>2. FirstInv'
  BY DEF FirstInv, Before, Making, PeerEnds, Spend, timer, conn, guard
<1>3. SocketInv'
  BY DEF SocketInv, Reading, Making, PeerEnds, Spend, timer, conn, guard
<1>4. WorkerInv'
  BY DEF WorkerInv, Quiet, Before, PeerEnds, Spend, timer, conn, guard
<1>5. ArmedInv'
  BY DEF ArmedInv, Quiet, MadeWaits, Waits, PeerEnds, Spend, timer, conn, guard
<1>6. QueueInv'
  BY DEF QueueInv, Handles, InCallback, InSafe, PeerEnds, Spend, timer, conn, guard
<1>7. HeardInv'
  BY DEF HeardInv, InCallback, MadeUnheard, Unheard, PeerEnds, Spend, timer, conn, guard
<1> QED
  BY <1>1, <1>2, <1>3, <1>4, <1>5, <1>6, <1>7

-----------------------------------------------------------------------------
(* The theorems.                                                           *)

(* A client that has just been made satisfies the first invariant.         *)
LEMMA InitInv == Init => Inv
<1> SUFFICES ASSUME Init PROVE Inv
  OBVIOUS
<1> USE DEF Init, App, Tm, Rd, Cb, Threads, None
<1>1. DataInv
  <2>1. /\ running \in BOOLEAN /\ alive \in BOOLEAN /\ mStop \in BOOLEAN /\ safe \in BOOLEAN
        /\ reading \in BOOLEAN /\ shouldExit \in BOOLEAN /\ cbState \in BOOLEAN
    BY Zenon
  <2>2. queue \in Seq(Callbacks) /\ task \in [Threads -> Callbacks \cup {None}]
    BY DEF Callbacks
  <2> QED
    BY <2>1, <2>2 DEF DataInv
<1>2. PlaceInv
  BY DEF PlaceInv, AppPlaces, TmPlaces, RdPlaces, CbPlaces, Places
<1>3. TaskInv /\ LockInv /\ DestroyInv
  BY DEF TaskInv, LockInv, DestroyInv, InCallback
<1> QED
  BY <1>1, <1>2, <1>3 DEF Inv

(* Every step preserves it. *)
LEMMA NextInv ==
  ASSUME Inv, [Next]_vars
  PROVE  Inv'
<1>1. ASSUME NEW t \in Threads, CallStep(t) PROVE Inv'
  BY <1>1, StopTimerStep, JoinTimerStep, StartTimerStep, EnterStep, CallbackStep,
      RunningCheckStep, LeaveStep DEF CallStep
<1>2. ASSUME NEW d \in {App, Tm}, ConnectStep(d) PROVE Inv'
  BY <1>2, CloseStep, JoinReaderStep, DeleteStep, UnsafeStep, DialFailsStep, DialSucceedsStep,
      InitialiseStep, SpawnStep DEF ConnectStep
<1>3. ASSUME ReaderStep PROVE Inv'
  BY <1>3, LoopStep, SelectStep, ReadHeaderStep, MoreStep, ReadBodyStep, DeliverStep, LoseStep,
      ExitStep DEF ReaderStep
<1>4. ASSUME NEW t \in Threads, Step(t) PROVE Inv'
  BY <1>1, <1>2, <1>3, <1>4, NotifyStep, ReleaseStep, DrainedStep, TimerLoopsStep,
      TimerChecksStep, TakeStep, Zenon DEF Step
<1>5. ASSUME UNCHANGED vars PROVE Inv'
  <2> USE <1>5 DEF vars, timer, conn, guard
  <2>1. DataInv'
    BY SMT DEF Inv, DataInv
  <2>2. PlaceInv'
    BY Zenon DEF Inv, PlaceInv
  <2>3. TaskInv'
    BY Zenon DEF Inv, TaskInv
  <2>4. LockInv'
    BY Zenon DEF Inv, LockInv, InCallback
  <2>5. DestroyInv'
    BY Zenon DEF Inv, DestroyInv
  <2> QED
    BY <2>1, <2>2, <2>3, <2>4, <2>5 DEF Inv
<1> QED
  BY <1>4, <1>5, StartStep, StopStep, DestroyStep, TimerFiresStep, PeerSendsStep, PeerEndsStep
      DEF Next

(* Any client, however often it is started and stopped, satisfies it.      *)
THEOREM InvHolds == Spec => []Inv
BY InitInv, NextInv, PTL DEF Spec

(* Once the destructors are over no thread is left, no callback is queued, *)
(* none can be made, and the timer's mutex is free: for any timing.        *)
THEOREM GoneLeavesNothing == Spec => []GoneIsQuiet
<1>1. Inv => GoneIsQuiet
  BY DEF Inv, DestroyInv, GoneIsQuiet, App, Tm, Rd, Cb, None
<1> QED
  BY <1>1, InvHolds, PTL

(* In the default mode the types are right and timerCallback() never       *)
(* starts its own timer: for any timing and any calls.                     *)
THEOREM AsyncTypes == Spec => [](mode = "async" => TypeOK)
<1>1. Inv => (mode = "async" => TypeOK)
  BY DEF Inv, DataInv, PlaceInv, TaskInv, TypeOK, Callbacks, Tm, Cb
<1> QED
  BY <1>1, InvHolds, PTL

(* For a client that has just been made there is nothing to stop.          *)
LEMMA InitStopped == Init => Stopped
BY DEF Init, Stopped, StopInv, ReleaseInv, InSafe, Asleep, App, Tm, Rd, Cb, Threads

(* Every step preserves what a stop has brought about. *)
LEMMA NextStopped ==
  ASSUME Inv, Stopped, [Next]_vars, [RedialsAlone]_vars
  PROVE  Stopped'
<1>1. ASSUME NEW t \in Threads, CallStep(t) PROVE Stopped'
  BY <1>1, StopTimerStops, JoinTimerStops, StartTimerStops, EnterStops, CallbackStops,
      RunningCheckStops, LeaveStops DEF CallStep
<1>2. ASSUME NEW d \in {App, Tm}, ConnectStep(d) PROVE Stopped'
  BY <1>2, CloseStops, JoinReaderStops, DeleteStops, UnsafeStops, DialFailsStops,
      DialSucceedsStops, InitialiseStops, SpawnStops DEF ConnectStep
<1>3. ASSUME ReaderStep PROVE Stopped'
  BY <1>3, LoopStops, SelectStops, ReadHeaderStops, MoreStops, ReadBodyStops, DeliverStops,
      LoseStops, ExitStops DEF ReaderStep
<1>4. ASSUME RedialsAlone, NEW t \in Threads, Step(t) PROVE Stopped'
  BY <1>1, <1>2, <1>3, <1>4, NotifyStops, ReleaseStops, DrainedStops, TimerLoopsStops,
      TimerChecksStops, TakeStops DEF Step
<1>5. ASSUME UNCHANGED vars PROVE Stopped'
  BY <1>5, Zenon DEF vars, timer, conn, guard, Stopped, StopInv, ReleaseInv, InSafe, Asleep
<1> QED
  BY <1>4, <1>5, StartStops, StopStops, DestroyStops, TimerFiresStops, PeerSendsStops,
      PeerEndsStops DEF Next

(* What a stop brings about stays so, if the timer's worker redials alone. *)
THEOREM StoppedHolds == Spec /\ [][RedialsAlone]_vars => []Stopped
<1>1. Inv /\ Stopped /\ [Next]_vars /\ [RedialsAlone]_vars => Stopped'
  BY NextStopped
<1> QED
  BY <1>1, InitStopped, InvHolds, PTL DEF Spec

(* When stop() comes to its last line there is no reader and no socket,    *)
(* and no callback is under way or can begin: for any number of calls, if  *)
(* the timer's worker redials alone.                                       *)
THEOREM StopIsQuiet == Spec /\ [][RedialsAlone]_vars => []StopReturnsQuiet
<1>1. Stopped => StopReturnsQuiet
  BY DEF Stopped, StopInv, StopReturnsQuiet, InSafe, App, Rd, None
<1> QED
  BY <1>1, StoppedHolds, PTL

(* Nothing of a session is there before the start.                         *)
LEMMA InitSession == Init => Session
<1> SUFFICES ASSUME Init PROVE Session
  OBVIOUS
<1> USE DEF Init, App, Tm, Rd, Cb, Threads, None
<1>1. Quiet /\ ~ MadeWaits /\ ~ MadeUnheard
  BY DEF Quiet, MadeWaits, Waits, MadeUnheard, Unheard
<1>2. RestInv /\ FirstInv
  BY <1>1 DEF RestInv, ReaderInv, SafeInv, TellInv, FirstInv
<1>3. SocketInv /\ WorkerInv
  BY DEF SocketInv, WorkerInv, Asleep, Making, Reading
<1>4. ArmedInv
  BY <1>1 DEF ArmedInv
<1>5. QueueInv
  BY DEF QueueInv, Handles, InCallback, InSafe
<1>6. HeardInv
  BY <1>1 DEF HeardInv, InCallback
<1> QED
  BY <1>2, <1>3, <1>4, <1>5, <1>6 DEF Session

(* Every step preserves the order of the session. *)
LEMMA NextSession ==
  ASSUME Inv, Stopped, Session, [Next]_vars, [RedialsAlone /\ StartsAlone]_vars
  PROVE  Session'
<1>1. ASSUME NEW t \in Threads, CallStep(t) PROVE Session'
  BY <1>1, StopTimerServes, JoinTimerServes, StartTimerServes, EnterServes, CallbackServes,
      RunningCheckServes, LeaveServes DEF CallStep
<1>2. ASSUME NEW d \in {App, Tm}, ConnectStep(d) PROVE Session'
  BY <1>2, CloseServes, JoinReaderServes, DeleteServes, UnsafeServes, DialFailsServes,
      DialSucceedsServes, InitialiseServes, SpawnServes DEF ConnectStep
<1>3. ASSUME ReaderStep PROVE Session'
  BY <1>3, LoopServes, SelectServes, ReadHeaderServes, MoreServes, ReadBodyServes,
      DeliverServes, LoseServes, ExitServes DEF ReaderStep
<1>4. ASSUME RedialsAlone, NEW t \in Threads, Step(t) PROVE Session'
  BY <1>1, <1>2, <1>3, <1>4, NotifyServes, ReleaseServes, DrainedServes, TimerLoopsServes,
      TimerChecksServes, TakeServes DEF Step
<1>5. ASSUME UNCHANGED vars PROVE Session'
  <2> USE <1>5 DEF vars, timer, conn, guard
  <2>1. RestInv'
    BY Zenon DEF Session, RestInv, ReaderInv, SafeInv, TellInv, MadeUnheard, Unheard, LostWaits
  <2>2. FirstInv'
    BY Zenon DEF Session, FirstInv
  <2>3. SocketInv'
    BY Zenon DEF Session, SocketInv
  <2>4. WorkerInv'
    BY Zenon DEF Session, WorkerInv, Asleep, Quiet
  <2>5. ArmedInv'
    BY Zenon DEF Session, ArmedInv, Quiet, MadeWaits, Waits
  <2>6. QueueInv'
    BY Zenon DEF Session, QueueInv, Handles, InCallback
  <2>7. HeardInv'
    BY Zenon DEF Session, HeardInv, MadeUnheard, Unheard, InCallback
  <2> QED
    BY <2>1, <2>2, <2>3, <2>4, <2>5, <2>6, <2>7 DEF Session
<1> QED
  BY <1>4, <1>5, StartServes, StopServes, DestroyServes, TimerFiresServes, PeerSendsServes,
      PeerEndsServes DEF Next

(* Sessions are orderly if the timer's worker redials alone and each of    *)
(* them is started when nothing of the last one is left.                   *)
THEOREM SessionHolds == Spec /\ [][RedialsAlone /\ StartsAlone]_vars => []Session
<1>1. Inv /\ Stopped /\ Session /\ [Next]_vars /\ [RedialsAlone /\ StartsAlone]_vars => Session'
  BY NextSession
<1>2. [RedialsAlone /\ StartsAlone]_vars => [RedialsAlone]_vars
  OBVIOUS
<1> QED
  BY <1>1, <1>2, InitSession, InvHolds, StoppedHolds, PTL DEF Spec

(* The types are right in either mode, nothing is posted in "sync" mode,   *)
(* and timerCallback() never starts its own timer, under both premises.    *)
THEOREM TypeCorrect ==
  Spec /\ [][RedialsAlone /\ StartsAlone]_vars => []TypeOK
<1>1. Inv /\ Session => TypeOK
  BY DEF Inv, DataInv, PlaceInv, TaskInv, Session, SocketInv, TypeOK, Callbacks, Tm, Cb
<1> QED
  BY <1>1, InvHolds, SessionHolds, PTL

(* The assertions of Ocp1Connection.cpp hold, and no reader is created     *)
(* over one that was not joined: for any number of calls and of losses, if *)
(* the timer's worker redials alone and sessions do not overlap.           *)
THEOREM NoAssertionFails ==
  Spec /\ [][RedialsAlone /\ StartsAlone]_vars => []AssertionsHold
<1>1. Inv /\ Stopped /\ Session => AssertionsHold
  <2> SUFFICES ASSUME Inv, Stopped, Session PROVE AssertionsHold
    OBVIOUS
  <2> USE DEF Inv, Stopped, Session, App, Tm, Rd, Cb
  <2>1. \A d \in {App, Tm} : pc[d] = "dial" => socket = "null"
    BY DEF SocketInv
  <2>2. \A d \in {App, Tm} : pc[d] = "spawn" => pc[Rd] = "none"
    BY DEF SocketInv, FirstInv, StopInv
  <2>3. /\ pc[Rd] = "deliver" => cbState
        /\ pc[Rd] \in {"select", "header", "more", "body"} => socket # "null"
    BY DEF SocketInv, Reading
  <2>4. pc[App] = "release" => ~ safe
    BY DEF ReleaseInv, DestroyInv
  <2> QED
    BY <2>1, <2>2, <2>3, <2>4 DEF AssertionsHold
<1> QED
  BY <1>1, InvHolds, StoppedHolds, SessionHolds, PTL

(* The user hears of a connection before its data, of no data after its    *)
(* loss, and of no connection before the loss of the last one: for any     *)
(* number of calls and of losses, under the same premises.                 *)
THEOREM CallbacksInOrder ==
  Spec /\ [][RedialsAlone /\ StartsAlone]_vars => []CallbackOrder
<1>1. Inv /\ Stopped /\ Session => CallbackOrder
  <2> SUFFICES ASSUME Inv, Stopped, Session, NEW t \in Threads, pc[t] = "callback"
               PROVE  /\ task[t] = "made" => told = "down"
                      /\ task[t] = "data" => told = "up"
    BY DEF CallbackOrder
  <2> USE DEF Inv, Stopped, Session, App, Tm, Rd, Cb, Threads
  <2>1. CASE task[t] = "made"
    BY <2>1 DEF HeardInv, MadeUnheard, Unheard
  <2>2. CASE task[t] = "data"
    <3>1. t \in {Cb, Rd} /\ safe
      BY <2>2, SMT DEF TaskInv, HeardInv, InCallback
    <3>2. \A i \in 1..Len(queue) : queue[i] # "made"
      BY <2>2, <3>1, ModesAssumption, SMT DEF QueueInv, TaskInv, DataInv
    <3>3. \A s \in Threads : ~ Unheard(s)
      BY <2>2, <3>1, ModesAssumption, SMT DEF Unheard, TaskInv, DataInv, FirstInv, WorkerInv,
        StopInv, InSafe, PlaceInv, CbPlaces, RdPlaces, TmPlaces, SocketInv, Making
    <3> QED
      BY <2>2, <3>1, <3>2, <3>3 DEF HeardInv, MadeUnheard
  <2> QED
    BY <2>1, <2>2
<1> QED
  BY <1>1, InvHolds, StoppedHolds, SessionHolds, PTL

=============================================================================
