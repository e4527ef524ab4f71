---------------------------- MODULE NanoOcp1Client ----------------------------
(***************************************************************************)
(* NanoOcp1Client (Source/NanoOcp1.{h,cpp}) with the Ocp1Connection it     *)
(* inherits (Source/Ocp1Connection.{h,cpp}) and its reconnect timer.       *)
(*                                                                         *)
(* Four threads: the application (App), the worker of the reconnect timer  *)
(* (Tm), the thread that reads the socket (Rd), and in "async" mode the    *)
(* worker of the dispatcher (Cb), which runs the callbacks.  In "sync"     *)
(* mode each callback runs on the thread that has something to report.     *)
(* Every callback runs under the mutex of the safe action.                 *)
(*                                                                         *)
(* The peer sends frames and may end the connection between two of them    *)
(* or within one, in its header or in its body.                            *)
(***************************************************************************)
EXTENDS Naturals, Sequences

CONSTANTS Modes,   \* the callback modes of the clients: "async", "sync"
          Cuts,    \* where the peer may stop within a frame: "header", "body"
          Prompt,  \* TRUE: no timer expires while other threads have work to do
          Budget   \* bounds: starts, stops, frames, ends of a connection

ASSUME ModesAssumption == Modes \subseteq {"async", "sync"}
ASSUME CutsAssumption == Cuts \subseteq {"header", "body"}
ASSUME PromptAssumption == Prompt \in BOOLEAN
ASSUME BudgetAssumption == Budget \in [{"start", "stop", "frame", "end"} -> Nat]

App == "App"
Tm == "Tm"
Rd == "Rd"
Cb == "Cb"
Threads == {App, Tm, Rd, Cb}
None == "none"

VARIABLES mode,        \* useMessageThread: "async" or "sync", never changes
          running,     \* m_running
          alive,       \* the destructor has not begun
          mStop,       \* m_stop of the timer
          lock,        \* the holder of the timer's m_lifecycleMutex
          socket,      \* "null", "open", "ended" (m_connected is false), "closed"
          reading,     \* threadIsRunning
          shouldExit,  \* m_shouldExit of the reader thread
          cbState,     \* callbackConnectionState
          safe,        \* the safe action lets callbacks through
          safeLock,    \* the holder of its mutex
          queue,       \* the callbacks posted to the dispatcher
          task,        \* the callback each thread is to run
          pc,          \* where each thread is
          next,        \* where it goes on after stopTimer()
          whole,       \* frames that can be read from the socket
          part,        \* what follows them: part of a "header", of a "body", "none"
          end,         \* the peer's side: "open", "fin", "reset"
          told,        \* history: what the user was told last, "up" or "down"
          budget       \* what is left of Budget

timer == <<mStop, lock>>
conn == <<socket, reading, shouldExit, cbState>>
guard == <<safe, safeLock>>
peer == <<whole, part, end>>
vars == <<mode, running, alive, timer, conn, guard, queue, task, pc, next, peer, told, budget>>

Init ==
    /\ mode \in Modes
    /\ running = FALSE /\ alive = TRUE
    /\ mStop = TRUE /\ lock = None
    /\ socket = "null" /\ reading = FALSE /\ shouldExit = FALSE /\ cbState = FALSE
    /\ safe = FALSE /\ safeLock = None
    /\ queue = <<>>
    /\ task = [t \in Threads |-> None]
    /\ pc = [t \in Threads |-> IF t \in {App, Cb} THEN "idle" ELSE "none"]
    /\ next = [t \in Threads |-> "idle"]
    /\ whole = 0 /\ part = "none" /\ end = "open"
    /\ told = "down"
    /\ budget = Budget

Goto(t, where) == pc' = [pc EXCEPT ![t] = where]

\* All that changes is the place of t.
Steps(t, where) ==
    Goto(t, where)
    /\ UNCHANGED <<mode, running, alive, timer, conn, guard, queue, task, next, peer, told, budget>>

Spend(what) == budget[what] > 0 /\ budget' = [budget EXCEPT ![what] = @ - 1]
CallStop(t, where) == Goto(t, "stop") /\ next' = [next EXCEPT ![t] = where]

IsConnected == socket = "open" /\ reading

\* Faulty: posts in either mode.
Dispatch_Posts(t, callback, where) ==
    queue' = Append(queue, callback) /\ Goto(t, where) /\ UNCHANGED task

\* dispatchOrCall() by t, which goes on at where.
Dispatch(t, callback, where) ==
    IF mode = "async"
    THEN queue' = Append(queue, callback) /\ Goto(t, where) /\ UNCHANGED task
    ELSE task' = [task EXCEPT ![t] = callback] /\ Goto(t, "enter") /\ UNCHANGED queue

\* Where t goes on after a callback.
After(t) ==
    CASE t = Cb -> "idle"
      [] t = Rd -> IF task[t] = "data" THEN "loop" ELSE "exit"
      [] t \in {App, Tm} -> IF task[t] = "made" THEN "spawn" ELSE "unsafe"

-----------------------------------------------------------------------------
(* The reconnect timer, as NanoTimer does it: its worker is Tm, or "none"      *)

StopTimer(t) ==
    /\ pc[t] = "stop"
    /\ lock = None
    /\ mStop' = TRUE
    /\ IF t = Tm \/ pc[Tm] = "none"
       THEN Goto(t, next[t]) /\ UNCHANGED lock
       ELSE Goto(t, "join") /\ lock' = t
    /\ UNCHANGED <<mode, running, alive, conn, guard, queue, task, next, peer, told, budget>>

JoinTimer(t) ==
    /\ pc[t] = "join"
    /\ pc[Tm] = "none"
    /\ lock' = None
    /\ Goto(t, next[t])
    /\ UNCHANGED <<mode, running, alive, mStop, conn, guard, queue, task, next, peer, told, budget>>

\* startTimer(), called by connectionLost() or start(), never from Tm: see TypeOK.
Started(t) == IF safeLock = t THEN "leave" ELSE "idle"

\* At "reap" it joins a worker that was told to stop and has not looked yet, after it has
\* cleared the flag: the worker stays, and so does the thread that holds the mutex.
StartTimer(t) ==
    /\ pc[t] = "start" /\ t # Tm
    /\ lock = None
    /\ mStop' = FALSE
    /\ IF mStop /\ pc[Tm] # "none"
       THEN Goto(t, "reap") /\ lock' = t
       ELSE /\ pc' = [pc EXCEPT ![t] = Started(t), ![Tm] = IF @ = "none" THEN "wait" ELSE @]
            /\ UNCHANGED lock
    /\ UNCHANGED <<mode, running, alive, conn, guard, queue, task, next, peer, told, budget>>

OthersIdle == pc[App] \in {"idle", "gone"} /\ pc[Cb] = "idle" /\ queue = <<>>

TimerFires ==
    /\ pc[Tm] = "wait" /\ ~mStop
    /\ Prompt => OthersIdle
    /\ Steps(Tm, "check")

\* Back in the worker's loop after the callback, or woken to leave it.
TimerLoops ==
    \/ pc[Tm] = "return" /\ Steps(Tm, IF mStop THEN "none" ELSE "wait")
    \/ pc[Tm] = "wait" /\ mStop /\ Steps(Tm, "none")

\* timerCallback()
TimerChecks ==
    /\ pc[Tm] = "check"
    /\ Steps(Tm, IF IsConnected THEN "return" ELSE "close")

-----------------------------------------------------------------------------
(* disconnect() and connectToSocket(), by App or Tm *)

\* Faulty: leaves the socket open until the reader has been joined.
Close_Late(d) ==
    /\ pc[d] = "close"
    /\ shouldExit' = TRUE
    /\ Goto(d, "joinReader")
    /\ UNCHANGED <<mode, running, alive, timer, socket, reading, cbState, guard, queue, task, next,
                   peer, told, budget>>

\* The reader is told to exit and the socket is closed under it.
Close(d) ==
    /\ pc[d] = "close"
    /\ shouldExit' = TRUE
    /\ socket' = IF socket = "null" THEN "null" ELSE "closed"
    /\ Goto(d, "joinReader")
    /\ UNCHANGED <<mode, running, alive, timer, reading, cbState, guard, queue, task, next, peer, told, budget>>

\* Faulty: gives up when the timeout is over.
JoinReader_TimesOut(d) ==
    /\ pc[d] = "joinReader"
    /\ Steps(d, "delete")

\* stopThread(), which joins whatever its timeout says.
JoinReader(d) ==
    /\ pc[d] = "joinReader"
    /\ pc[Rd] \in {"none", "ended"}
    /\ pc' = [pc EXCEPT ![d] = "delete", ![Rd] = "none"]
    /\ UNCHANGED <<mode, running, alive, timer, conn, guard, queue, task, next, peer, told, budget>>

\* deleteSocket() and connectionLostInt(), but for the destructor.
Delete(d) ==
    /\ pc[d] = "delete"
    /\ socket' = "null"
    /\ IF cbState /\ (alive \/ d = Tm)
       THEN cbState' = FALSE /\ Dispatch(d, "lost", "unsafe")
       ELSE Goto(d, "unsafe") /\ UNCHANGED <<cbState, queue, task>>
    /\ UNCHANGED <<mode, running, alive, timer, reading, shouldExit, guard, next, peer, told, budget>>

\* Faulty: the timer is stopped by the client's destructor, and not once more by its own.
AfterDisconnect_StopsOnce(d) ==
    Goto(d, IF d = Tm \/ running THEN "dial" ELSE IF alive THEN "notify"
            ELSE IF next[d] = "release" THEN "drain" ELSE "release")
    /\ UNCHANGED next

\* disconnect() was called by connectToSocket(), which dials next, by stop(), or by the
\* destructors of the client and then of the connection; that of the timer is in between.
AfterDisconnect(d) ==
    IF d = Tm \/ running THEN Goto(d, "dial") /\ UNCHANGED next
    ELSE IF alive THEN Goto(d, "notify") /\ UNCHANGED next
    ELSE IF next[d] = "release" THEN Goto(d, "drain") /\ UNCHANGED next
    ELSE CallStop(d, "release")

\* Faulty: does not take the mutex.
Unsafe_NoWait(d) ==
    /\ pc[d] = "unsafe"
    /\ safe' = FALSE /\ cbState' = FALSE
    /\ AfterDisconnect(d)
    /\ UNCHANGED <<mode, running, alive, timer, socket, reading, shouldExit, safeLock, queue, task,
                   peer, told, budget>>

\* The end of disconnect(): setSafe(false), which waits for the callback under way.
Unsafe(d) ==
    /\ pc[d] = "unsafe"
    /\ safeLock = None
    /\ safe' = FALSE /\ cbState' = FALSE
    /\ AfterDisconnect(d)
    /\ UNCHANGED <<mode, running, alive, timer, socket, reading, shouldExit, safeLock, queue, task,
                   peer, told, budget>>

DialFails(d) ==
    /\ pc[d] = "dial"
    /\ Steps(d, IF d = Tm THEN "return" ELSE "start")

DialSucceeds(d) ==
    /\ pc[d] = "dial"
    /\ socket' = "open"
    /\ whole' = 0 /\ part' = "none" /\ end' = "open"
    /\ Goto(d, "initialise")
    /\ UNCHANGED <<mode, running, alive, timer, reading, shouldExit, cbState, guard, queue, task, next,
                   told, budget>>

\* initialise(): the callback comes before the reader.
Initialise(d) ==
    /\ pc[d] = "initialise"
    /\ safeLock = None
    /\ safe' = TRUE /\ reading' = TRUE /\ cbState' = TRUE
    /\ Dispatch(d, "made", "spawn")
    /\ UNCHANGED <<mode, running, alive, timer, socket, shouldExit, safeLock, next, peer, told, budget>>

Spawn(d) ==
    /\ pc[d] = "spawn"
    /\ shouldExit' = FALSE
    /\ pc' = [pc EXCEPT ![d] = IF d = Tm THEN "return" ELSE "idle", ![Rd] = "loop"]
    /\ UNCHANGED <<mode, running, alive, timer, socket, reading, cbState, guard, queue, task, next, peer,
                   told, budget>>

-----------------------------------------------------------------------------
(* The reader: runThread() and readNextMessage() *)

Loop ==
    /\ pc[Rd] = "loop"
    /\ Steps(Rd, IF shouldExit THEN "exit" ELSE "select")

\* There is something to read, or an end.
Readable == whole > 0 \/ part # "none" \/ end # "open"

\* waitUntilReady(): an error if the socket was closed before, a timeout if it is
\* closed meanwhile or nothing comes.
Select ==
    /\ pc[Rd] = "select"
    /\ \/ socket = "closed" /\ Steps(Rd, "lose")
       \/ (socket = "closed" \/ ~Readable) /\ Steps(Rd, "loop")
       \/ socket = "open" /\ Readable /\ Steps(Rd, IF shouldExit THEN "exit" ELSE "header")

\* The header: blocks on a part of it, unless the socket is closed.  A part that is
\* followed by the end of the stream is neither an error nor the end of it.
ReadHeader ==
    /\ pc[Rd] = "header"
    /\ \/ socket = "closed" /\ Goto(Rd, "lose") /\ UNCHANGED socket
       \/ /\ socket = "open"
          /\ \/ (whole > 0 \/ part = "body") /\ Goto(Rd, "more") /\ UNCHANGED socket
             \/ /\ (whole = 0 /\ part # "body" /\ end = "fin") \/ end = "reset"
                /\ socket' = "ended"
                /\ Goto(Rd, IF part = "header" /\ end = "fin" THEN "exit" ELSE "lose")
    /\ UNCHANGED <<mode, running, alive, timer, reading, shouldExit, cbState, guard, queue, task, next,
                   peer, told, budget>>

\* Before each part of the body.
More ==
    /\ pc[Rd] = "more"
    /\ Steps(Rd, IF shouldExit THEN "exit" ELSE "body")

\* Faulty: the end of the stream within a frame ends the reader only.
ReadBody_Silent ==
    /\ pc[Rd] = "body"
    /\ \/ socket = "open" /\ whole > 0 /\ whole' = whole - 1 /\ Goto(Rd, "deliver")
       \/ (socket = "closed" \/ end # "open") /\ Goto(Rd, "exit") /\ UNCHANGED whole
    /\ UNCHANGED <<mode, running, alive, timer, conn, guard, queue, task, next, part, end, told,
                   budget>>

ReadBody ==
    /\ pc[Rd] = "body"
    /\ \/ socket = "closed" /\ Goto(Rd, "lose") /\ UNCHANGED <<socket, whole>>
       \/ socket = "open" /\ whole > 0 /\ whole' = whole - 1 /\ Goto(Rd, "deliver") /\ UNCHANGED socket
       \/ /\ socket = "open"
          /\ (whole = 0 /\ end = "fin") \/ end = "reset"
          /\ socket' = "ended" /\ Goto(Rd, "lose") /\ UNCHANGED whole
    /\ UNCHANGED <<mode, running, alive, timer, reading, shouldExit, cbState, guard, queue, task, next,
                   part, end, told, budget>>

Deliver ==
    /\ pc[Rd] = "deliver"
    /\ Dispatch(Rd, "data", "loop")
    /\ UNCHANGED <<mode, running, alive, timer, conn, guard, next, peer, told, budget>>

Lose ==
    /\ pc[Rd] = "lose"
    /\ socket' = "null"
    /\ IF cbState THEN cbState' = FALSE /\ Dispatch(Rd, "lost", "exit")
                  ELSE Goto(Rd, "exit") /\ UNCHANGED <<cbState, queue, task>>
    /\ UNCHANGED <<mode, running, alive, timer, reading, shouldExit, guard, next, peer, told, budget>>

Exit ==
    /\ pc[Rd] = "exit"
    /\ reading' = FALSE
    /\ Goto(Rd, "ended")
    /\ UNCHANGED <<mode, running, alive, timer, socket, shouldExit, cbState, guard, queue, task, next,
                   peer, told, budget>>

-----------------------------------------------------------------------------
(* The callbacks *)

\* Faulty: the newest task first.
Take_Newest ==
    /\ pc[Cb] = "idle" /\ queue # <<>>
    /\ task' = [task EXCEPT ![Cb] = queue[Len(queue)]]
    /\ queue' = SubSeq(queue, 1, Len(queue) - 1)
    /\ Goto(Cb, "enter")
    /\ UNCHANGED <<mode, running, alive, timer, conn, guard, next, peer, told, budget>>

\* The dispatcher's worker takes the next task.
Take ==
    /\ pc[Cb] = "idle" /\ queue # <<>>
    /\ task' = [task EXCEPT ![Cb] = Head(queue)]
    /\ queue' = Tail(queue)
    /\ Goto(Cb, "enter")
    /\ UNCHANGED <<mode, running, alive, timer, conn, guard, next, peer, told, budget>>

\* ifSafe(): the mutex is held while the callback runs.  connectionMade() stops the
\* timer first.
Enter(t) ==
    /\ pc[t] = "enter"
    /\ safeLock = None
    /\ \/ ~safe /\ Goto(t, After(t)) /\ UNCHANGED <<safeLock, next>>
       \/ /\ safe /\ safeLock' = t
          /\ IF task[t] = "made" THEN CallStop(t, "callback")
                                 ELSE Goto(t, "callback") /\ UNCHANGED next
    /\ UNCHANGED <<mode, running, alive, timer, conn, safe, queue, task, peer, told, budget>>

\* The user's callback.
Callback(t) ==
    /\ pc[t] = "callback"
    /\ told' = CASE task[t] = "made" -> "up" [] task[t] = "lost" -> "down" [] OTHER -> told
    /\ Goto(t, IF task[t] = "lost" THEN "runningCheck" ELSE "leave")
    /\ UNCHANGED <<mode, running, alive, timer, conn, guard, queue, task, next, peer, budget>>

\* Faulty: leaves it to the application to start again.
RunningCheck_NoRedial(t) ==
    /\ pc[t] = "runningCheck"
    /\ Steps(t, "leave")

\* connectionLost() goes on to redial.
RunningCheck(t) ==
    /\ pc[t] = "runningCheck"
    /\ Steps(t, IF running THEN "start" ELSE "leave")

Leave(t) ==
    /\ pc[t] = "leave"
    /\ safeLock' = None
    /\ Goto(t, After(t))
    /\ UNCHANGED <<mode, running, alive, timer, conn, safe, queue, task, next, peer, told, budget>>

-----------------------------------------------------------------------------
(* The application's calls *)

Start ==
    /\ pc[App] = "idle" /\ ~running
    /\ Spend("start")
    /\ running' = TRUE
    /\ Goto(App, "close")
    /\ next' = [next EXCEPT ![App] = "idle"]
    /\ UNCHANGED <<mode, alive, timer, conn, guard, queue, task, peer, told>>

Stop ==
    /\ pc[App] = "idle" /\ running
    /\ Spend("stop")
    /\ running' = FALSE
    /\ CallStop(App, "close")
    /\ UNCHANGED <<mode, alive, timer, conn, guard, queue, task, peer, told>>

\* The last thing stop() does is to call onConnectionLost itself.
Notify ==
    /\ pc[App] = "notify"
    /\ told' = IF IsConnected THEN told ELSE "down"
    /\ Goto(App, "idle")
    /\ UNCHANGED <<mode, running, alive, timer, conn, guard, queue, task, next, peer, budget>>

\* The destructors: of the client, of the timer, of the connection, and last of the
\* dispatcher, whose worker ends when the queue is empty.
Destroy ==
    /\ pc[App] = "idle" /\ alive
    /\ alive' = FALSE /\ running' = FALSE
    /\ CallStop(App, "close")
    /\ UNCHANGED <<mode, timer, conn, guard, queue, task, peer, told, budget>>

\* The connection's destructor disconnects again.
Release ==
    /\ pc[App] = "release"
    /\ Goto(App, "close")
    /\ next' = [next EXCEPT ![App] = "release"]
    /\ cbState' = FALSE
    /\ UNCHANGED <<mode, running, alive, timer, socket, reading, shouldExit, guard, queue, task,
                   peer, told, budget>>

Drained ==
    /\ pc[App] = "drain"
    /\ queue = <<>> /\ pc[Cb] = "idle"
    /\ Steps(App, "gone")

-----------------------------------------------------------------------------
(* The peer *)

PeerSends ==
    /\ end = "open" /\ socket \in {"open", "closed"}
    /\ Spend("frame")
    /\ \/ part' \in Cuts /\ part = "none" /\ UNCHANGED whole
       \/ part' = "none" /\ whole' = whole + 1
    /\ UNCHANGED <<mode, running, alive, timer, conn, guard, queue, task, pc, next, end, told>>

PeerEnds ==
    /\ end = "open" /\ socket \in {"open", "closed"}
    /\ Spend("end")
    /\ end' \in {"fin", "reset"}
    /\ UNCHANGED <<mode, running, alive, timer, conn, guard, queue, task, pc, next, whole, part, told>>

-----------------------------------------------------------------------------
(* The specification *)

ReaderStep == Loop \/ Select \/ ReadHeader \/ More \/ ReadBody \/ Deliver \/ Lose \/ Exit

\* A call of the timer or of a callback by thread t.
CallStep(t) ==
    StopTimer(t) \/ JoinTimer(t) \/ StartTimer(t)
    \/ Enter(t) \/ Callback(t) \/ RunningCheck(t) \/ Leave(t)

\* disconnect() and connectToSocket() by App or Tm.
ConnectStep(d) ==
    Close(d) \/ JoinReader(d) \/ Delete(d) \/ Unsafe(d) \/ DialFails(d) \/ DialSucceeds(d)
    \/ Initialise(d) \/ Spawn(d)

Step(t) ==
    \/ CallStep(t)
    \/ t \in {App, Tm} /\ ConnectStep(t)
    \/ t = App /\ (Notify \/ Release \/ Drained)
    \/ t = Tm /\ (TimerLoops \/ TimerChecks)
    \/ t = Rd /\ ReaderStep
    \/ t = Cb /\ Take

Next ==
    \/ Start \/ Stop \/ Destroy
    \/ \E t \in Threads : Step(t)
    \/ TimerFires
    \/ PeerSends \/ PeerEnds

Spec == Init /\ [][Next]_vars

\* Threads run, a timer that is started fires, and a dial that is repeated succeeds.
\* The application and the peer need do nothing.
Fairness ==
    /\ \A t \in Threads : WF_vars(Step(t))
    /\ WF_vars(TimerFires)
    /\ SF_vars(DialSucceeds(Tm))

FairSpec == Spec /\ Fairness

-----------------------------------------------------------------------------
(* Properties *)

Places == {"none", "idle", "stop", "join", "start", "reap", "wait", "check", "return", "close",
           "joinReader", "delete", "unsafe", "dial", "initialise", "spawn", "loop", "select",
           "header", "more", "body", "deliver", "lose", "exit", "ended", "enter", "callback",
           "runningCheck", "leave", "notify", "release", "drain", "gone"}

\* Types; in "sync" mode nothing is posted; and timerCallback() never restarts its own timer,
\* so that StartTimer needs no case for it.
TypeOK ==
    /\ mode \in Modes /\ running \in BOOLEAN /\ alive \in BOOLEAN
    /\ mStop \in BOOLEAN /\ lock \in Threads \cup {None}
    /\ socket \in {"null", "open", "ended", "closed"}
    /\ reading \in BOOLEAN /\ shouldExit \in BOOLEAN /\ cbState \in BOOLEAN
    /\ safe \in BOOLEAN /\ safeLock \in Threads \cup {None}
    /\ \A i \in DOMAIN queue : queue[i] \in {"made", "data", "lost"}
    /\ mode = "sync" => queue = <<>> /\ pc[Cb] = "idle"
    /\ pc \in [Threads -> Places] /\ pc[Tm] # "start" /\ next \in [Threads -> Places]
    /\ task \in [Threads -> {"made", "data", "lost", None}]
    /\ told \in {"up", "down"}

\* The assertions of Ocp1Connection.cpp (lines 220, 269, 283, 110) hold, and no thread is
\* created over one that was not joined (NanoThread::startThread would terminate).
AssertionsHold ==
    /\ \A d \in {App, Tm} : pc[d] = "dial" => socket = "null"
    /\ \A d \in {App, Tm} : pc[d] = "spawn" => pc[Rd] = "none"
    /\ pc[Rd] = "deliver" => cbState
    /\ pc[Rd] \in {"select", "header", "more", "body"} => socket # "null"
    /\ pc[App] = "release" => ~safe

\* The user hears of a connection before its data, and of no data after its loss.
CallbackOrder ==
    \A t \in Threads : pc[t] = "callback" =>
        /\ task[t] = "made" => told = "down"
        /\ task[t] = "data" => told = "up"

\* When stop() comes to its last line, the connection is gone: no reader, no socket, and
\* no callback can begin any more.
StopReturnsQuiet ==
    pc[App] = "notify" => pc[Rd] = "none" /\ socket = "null" /\ ~safe /\ safeLock = None

\* The destroyed client leaves no thread behind and no callback to be made.
GoneIsQuiet ==
    pc[App] = "gone" => /\ pc[Tm] = "none" /\ pc[Rd] = "none" /\ pc[Cb] = "idle"
                        /\ queue = <<>> /\ ~safe /\ lock = None

\* What an application sees that has stopped the client: no dialing (the documentation of
\* stop(), NanoOcp1.h line 194).
StopEndsDialing == pc[App] = "idle" /\ ~running => pc[Tm] = "none"

\* In the default mode, calls of start(), stop() and the destructor return.
CallsReturn == mode = "async" /\ pc[App] \notin {"idle", "gone"} ~> pc[App] \in {"idle", "gone"}

\* If the peer ends a connection that the user was told of, the user is told of its loss.
LossReported ==
    mode = "async" /\ end # "open" /\ told = "up" ~> told = "down" \/ ~alive

\* A client that stays started is connected in the end, whatever happened before.
SessionResumes == mode = "async" /\ <>[]running => <>[](told = "up" /\ IsConnected)

=============================================================================
