--------------------------- MODULE NanoOcp1Server ---------------------------
(***************************************************************************)
(* NanoOcp1Server and Ocp1ConnectionServer: an owner that starts, stops,   *)
(* uses and destroys the server, the accept thread that replaces the       *)
(* connection in use by each new one, and the callbacks of the connections,*)
(* which answer what they receive through the server's sendData.           *)
(*                                                                         *)
(* A connection is the NanoOcp1Client made for an accepted socket, reduced *)
(* to what the server's threads do to it: its socket, its reader thread and*)
(* the safe action (the module of that name has the rest).  Its m_running  *)
(* is false and only onDataReceived is wired to it, so it neither dials nor*)
(* tells anyone of its beginning and end.                                  *)
(*                                                                         *)
(* A step that touches a destroyed object, calls a pure virtual function or*)
(* joins a thread that is already joined ends the behaviour: fault.        *)
(***************************************************************************)
EXTENDS Integers

CONSTANTS
  MaxPeers,          \* peers that dial
  MaxMessages,       \* messages each peer sends
  MaxCalls           \* calls of the owner

ASSUME ServerAssumption ==
  MaxPeers \in Nat /\ MaxMessages \in Nat /\ MaxCalls \in Nat

Owner == "owner"
Acceptor == "acceptor"
Threads == {Owner, Acceptor}
Peers == 1 .. MaxPeers
NoPeer == 0

VARIABLES
  onMessageThread,   \* m_callbacksonMessageThread, as constructed
  at,           \* where each thread is
  on,           \* the connection each works on
  after,        \* where each goes on once it has disconnected that one
  listener,     \* Ocp1ConnectionServer::socket
  shouldExit,   \* of the accept thread
  active,       \* m_activeConnection
  object,       \* what is left of the server
  backlog,      \* peers that have dialled and are not accepted
  dialled,      \* peers that have dialled
  conn,         \* the connections, by the peer
  replies,      \* pairs of a connection and the one its message was answered on
  calls,        \* calls of the owner
  fault

vars == << onMessageThread, at, on, after, listener, shouldExit, active, object, backlog, dialled, conn,
           replies, calls, fault >>
threadVars == << at, on, after >>
serverVars == << listener, shouldExit, active, object, backlog, dialled >>
countVars == << onMessageThread, replies, calls, fault >>

Unborn == [phase |-> "unborn", socket |-> "none", exit |-> FALSE, reader |-> "none",
           safe |-> FALSE, sent |-> 0, queued |-> 0, callback |-> "none", replyTo |-> NoPeer]

Go(t, where) == at' = [at EXCEPT ![t] = where]
Fault ==
  /\ fault' = TRUE
  /\ UNCHANGED << threadVars, serverVars, conn, onMessageThread, replies, calls >>

----------------------------------------------------------------------------
(* disconnect() of the connection a thread works on, in its steps: signal  *)
(* and close, stopThread (which signals again and, if the thread can be    *)
(* joined, joins it), delete the socket and wait for the callback under    *)
(* way.                                                                    *)
Disconnecting(t, c, then) ==
  /\ at' = [at EXCEPT ![t] = "close"]
  /\ on' = [on EXCEPT ![t] = c]
  /\ after' = [after EXCEPT ![t] = then]

IsGone(c) == conn[c].phase = "gone"

CloseSocket(t) ==
  /\ at[t] = "close"
  /\ ~ IsGone(on[t])
  /\ conn' = [conn EXCEPT ![on[t]].exit = TRUE,
                          ![on[t]].socket = IF @ = "open" THEN "closed" ELSE @]
  /\ Go(t, "signal")
  /\ UNCHANGED << on, after, serverVars, countVars >>

SignalReader(t) ==
  /\ at[t] = "signal"
  /\ ~ IsGone(on[t])
  /\ conn' = [conn EXCEPT ![on[t]].exit = TRUE]
  /\ Go(t, IF conn[on[t]].reader \in {"running", "ended"} THEN "join" ELSE "unsafe")
  /\ UNCHANGED << on, after, serverVars, countVars >>

JoinReader(t) ==
  /\ at[t] = "join"
  /\ ~ IsGone(on[t])
  /\ conn[on[t]].reader = "ended"
  /\ conn' = [conn EXCEPT ![on[t]].reader = "joined"]
  /\ Go(t, "unsafe")
  /\ UNCHANGED << on, after, serverVars, countVars >>

SetUnsafe(t) ==
  /\ at[t] = "unsafe"
  /\ ~ IsGone(on[t])
  /\ conn[on[t]].callback = "none"
  /\ conn' = [conn EXCEPT ![on[t]].safe = FALSE, ![on[t]].socket = "none"]
  /\ Go(t, after[t])
  /\ UNCHANGED << on, after, serverVars, countVars >>

(* The connection was destroyed meanwhile, or its reader was joined by the *)
(* other thread after this one had found it joinable.                      *)
UseGone(t) ==
  /\ \/ /\ at[t] \in {"sending", "asking", "lastAsking", "close", "signal", "join", "unsafe"}
        /\ IsGone(on[t])
     \/ at[t] = "join" /\ conn[on[t]].reader = "joined"
  /\ Fault

DisconnectStep(t) ==
  CloseSocket(t) \/ SignalReader(t) \/ JoinReader(t) \/ SetUnsafe(t) \/ UseGone(t)

(* What is left of a connection after its destructor.                      *)
Gone(c) == [conn EXCEPT ![c] = [Unborn EXCEPT !.phase = "gone", !.sent = conn[c].sent]]

----------------------------------------------------------------------------
(* Ocp1ConnectionServer::run, on the accept thread.                        *)

\* Faulty: only the end of the listener ends the loop.
CheckExit_Unflagged ==
  /\ at[Acceptor] = "check"
  /\ Go(Acceptor, IF listener = "none" THEN "ended" ELSE "wait")
  /\ UNCHANGED << on, after, serverVars, conn, countVars >>

CheckExit ==
  /\ at[Acceptor] = "check"
  /\ Go(Acceptor, IF shouldExit \/ listener = "none" THEN "ended" ELSE "wait")
  /\ UNCHANGED << on, after, serverVars, conn, countVars >>

(* The wait times out after 100 ms, so that a closed listener or a request *)
(* to exit is seen even if nobody dials.                                   *)
WaitTimesOut ==
  /\ at[Acceptor] = "wait"
  /\ Go(Acceptor, "check")
  /\ UNCHANGED << on, after, serverVars, conn, countVars >>

(* The peers are numbered in the order in which they are accepted.         *)
IsNext(c) ==
  /\ conn[c].phase = "unborn"
  /\ \A d \in Peers : conn[d].phase = "unborn" => c <= d

Accept ==
  /\ at[Acceptor] = "wait"
  /\ listener = "open" /\ backlog > 0
  /\ backlog' = backlog - 1
  /\ \E c \in Peers :
       /\ IsNext(c)
       /\ conn' = [conn EXCEPT ![c].phase = "accepted"]
       /\ on' = [on EXCEPT ![Acceptor] = c]
  /\ Go(Acceptor, "create")
  /\ UNCHANGED << after, listener, shouldExit, active, object, dialled, countVars >>

\* Faulty: the connection that is replaced is never destroyed.
Create_KeepsOld ==
  /\ at[Acceptor] = "create"
  /\ object = "whole"
  /\ conn' = [conn EXCEPT ![on[Acceptor]].phase = "created"]
  /\ active' = on[Acceptor]
  /\ Go(Acceptor, "assign")
  /\ UNCHANGED << on, after, listener, shouldExit, object, backlog, dialled, countVars >>

(* createConnectionObject: the new connection is in place before the one it*)
(* replaces is destroyed, and has no socket until that is over.            *)
Create ==
  /\ at[Acceptor] = "create"
  /\ object = "whole"
  /\ conn' = [conn EXCEPT ![on[Acceptor]].phase = "created"]
  /\ active' = on[Acceptor]
  /\ IF active = NoPeer THEN Go(Acceptor, "assign") /\ UNCHANGED << on, after >>
     ELSE Disconnecting(Acceptor, active, "release")
  /\ UNCHANGED << listener, shouldExit, object, backlog, dialled, countVars >>

Release ==
  /\ at[Acceptor] = "release"
  /\ object = "whole"
  /\ conn' = Gone(on[Acceptor])
  /\ on' = [on EXCEPT ![Acceptor] = active]
  /\ Go(Acceptor, "assign")
  /\ UNCHANGED << after, serverVars, countVars >>

(* initialiseWithSocket.                                                   *)
AssignSocket ==
  /\ at[Acceptor] = "assign"
  /\ ~ IsGone(on[Acceptor])
  /\ conn' = [conn EXCEPT ![on[Acceptor]].socket = "open"]
  /\ Go(Acceptor, "initialise")
  /\ UNCHANGED << on, after, serverVars, countVars >>

Initialise ==
  /\ at[Acceptor] = "initialise"
  /\ ~ IsGone(on[Acceptor])
  /\ conn' = [conn EXCEPT ![on[Acceptor]].safe = TRUE, ![on[Acceptor]].reader = "running",
                          ![on[Acceptor]].exit = FALSE]
  /\ Go(Acceptor, "check")
  /\ UNCHANGED << on, after, serverVars, countVars >>

(* A peer that is accepted while the server is being destroyed.            *)
AcceptAfterDestruction ==
  /\ \/ at[Acceptor] \in {"create", "release"} /\ object # "whole"
     \/ at[Acceptor] \in {"assign", "initialise"} /\ IsGone(on[Acceptor])
  /\ Fault

AcceptorStep ==
  \/ CheckExit \/ WaitTimesOut \/ Accept \/ Create \/ Release
  \/ AssignSocket \/ Initialise \/ AcceptAfterDestruction
  \/ DisconnectStep(Acceptor)

----------------------------------------------------------------------------
(* The owner: one call after another.                                      *)
Call(where) ==
  /\ at[Owner] = "idle" /\ object = "whole" /\ calls < MaxCalls
  /\ calls' = calls + 1
  /\ Go(Owner, where)
  /\ UNCHANGED << on, after, serverVars, conn, onMessageThread, replies, fault >>

Start   == Call("start")
Stop    == Call("stop")
Send    == Call("send")
Destroy == Call("destroy")

\* Faulty: does not close the listener.
StopListening_LeavesOpen(from, to) ==
  /\ at[Owner] = from
  /\ shouldExit' = TRUE
  /\ Go(Owner, to)
  /\ UNCHANGED << on, after, listener, active, object, backlog, dialled, conn, countVars >>

(* Ocp1ConnectionServer::stop, which start() and the base destructor call: *)
(* signal and close the listener (peers that wait there are turned away),  *)
(* then join the accept thread and let go of the listener.                 *)
StopListening(from, to) ==
  /\ at[Owner] = from
  /\ shouldExit' = TRUE
  /\ listener' = IF listener = "none" THEN "none" ELSE "closed"
  /\ backlog' = 0
  /\ Go(Owner, to)
  /\ UNCHANGED << on, after, active, object, dialled, conn, countVars >>

JoinAcceptor(from, to) ==
  /\ at[Owner] = from
  /\ at[Acceptor] \in {"none", "ended"}
  /\ listener' = "none"
  /\ at' = [at EXCEPT ![Owner] = to, ![Acceptor] = "none"]
  /\ UNCHANGED << on, after, shouldExit, active, object, backlog, dialled, conn, countVars >>

(* createListener fails where the port or the address cannot be bound.     *)
Listen ==
  /\ at[Owner] = "listen"
  /\ \/ /\ listener' = "open" /\ shouldExit' = FALSE
        /\ at' = [at EXCEPT ![Owner] = "idle", ![Acceptor] = "check"]
     \/ /\ Go(Owner, "idle")
        /\ UNCHANGED << listener, shouldExit >>
  /\ UNCHANGED << on, after, active, object, backlog, dialled, conn, countVars >>

(* NanoOcp1Server::stop: the connection only.  The accept loop goes on.    *)
StopActive(from, stopped, to) ==
  /\ at[Owner] = from
  /\ IF active = NoPeer THEN Go(Owner, to) /\ UNCHANGED << on, after >>
     ELSE Disconnecting(Owner, active, stopped)
  /\ UNCHANGED << serverVars, conn, countVars >>

(* sendData, and stop when it has disconnected, use the connection that is *)
(* in use by now, on the owner's thread: as PickConnection and Answer.     *)
PickActive(from, using, to) ==
  /\ at[Owner] = from
  /\ on' = [on EXCEPT ![Owner] = active]
  /\ Go(Owner, IF active = NoPeer THEN to ELSE using)
  /\ UNCHANGED << after, serverVars, conn, countVars >>

UseActive(from, to) ==
  /\ at[Owner] = from
  /\ ~ IsGone(on[Owner])
  /\ Go(Owner, to)
  /\ UNCHANGED << on, after, serverVars, conn, countVars >>

(* ~NanoOcp1Server ends with its members: the connection is disconnected   *)
(* once more and gone, and the base part of the object is left.            *)
DestroyMembers ==
  /\ at[Owner] = "members"
  /\ object' = "base"
  /\ IF active = NoPeer THEN Go(Owner, "baseStop") /\ UNCHANGED << on, after >>
     ELSE Disconnecting(Owner, active, "free")
  /\ UNCHANGED << listener, shouldExit, active, backlog, dialled, conn, countVars >>

Free ==
  /\ at[Owner] = "free"
  /\ conn' = Gone(on[Owner])
  /\ active' = NoPeer
  /\ Go(Owner, "baseStop")
  /\ UNCHANGED << on, after, listener, shouldExit, object, backlog, dialled, countVars >>

Destroyed ==
  /\ at[Owner] = "destroyed"
  /\ object' = "none"
  /\ Go(Owner, "idle")
  /\ UNCHANGED << on, after, listener, shouldExit, active, backlog, dialled, conn, countVars >>

OwnerStep ==
  \/ StopListening("start", "joinForStart") \/ JoinAcceptor("joinForStart", "listen") \/ Listen
  \/ PickActive("send", "sending", "idle") \/ UseActive("sending", "idle")
  \/ StopActive("stop", "stopped", "idle")
  \/ PickActive("stopped", "asking", "idle") \/ UseActive("asking", "idle")
  \/ StopActive("destroy", "lastStopped", "members")
  \/ PickActive("lastStopped", "lastAsking", "members") \/ UseActive("lastAsking", "members")
  \/ DestroyMembers \/ Free
  \/ StopListening("baseStop", "joinForEnd") \/ JoinAcceptor("joinForEnd", "destroyed")
  \/ Destroyed
  \/ DisconnectStep(Owner)

----------------------------------------------------------------------------
(* Peers, readers and callbacks.                                           *)
Dial ==
  /\ listener = "open" /\ dialled < MaxPeers
  /\ backlog' = backlog + 1
  /\ dialled' = dialled + 1
  /\ UNCHANGED << threadVars, listener, shouldExit, active, object, conn, countVars >>

(* The reader waits for a callback that is made on it.                     *)
ReaderIsFree(c) == onMessageThread \/ conn[c].callback = "none"

(* The callback is made under the lock of the safe action, which a         *)
(* disconnect() that has reached that lock keeps out.                      *)
Begun(record) ==
  IF record.safe THEN [record EXCEPT !.callback = "begun"] ELSE record

Receive(c) ==
  /\ conn[c].reader = "running" /\ conn[c].socket = "open" /\ ~ conn[c].exit
  /\ ReaderIsFree(c)
  /\ conn[c].sent < MaxMessages
  /\ LET record == [conn[c] EXCEPT !.sent = @ + 1]
     IN  conn' = [conn EXCEPT ![c] = IF onMessageThread THEN [record EXCEPT !.queued = @ + 1]
                                     ELSE Begun(record)]
  /\ UNCHANGED << threadVars, serverVars, countVars >>

Dispatch(c) ==
  /\ conn[c].queued > 0 /\ conn[c].callback = "none"
  /\ conn' = [conn EXCEPT ![c] = Begun([conn[c] EXCEPT !.queued = @ - 1])]
  /\ UNCHANGED << threadVars, serverVars, countVars >>

ReaderEnds(c) ==
  /\ conn[c].reader = "running" /\ ReaderIsFree(c)
  /\ conn[c].exit \/ conn[c].socket # "open"
  /\ conn' = [conn EXCEPT ![c].reader = "ended"]
  /\ UNCHANGED << threadVars, serverVars, countVars >>

PeerCloses(c) ==
  /\ conn[c].reader = "running" /\ ReaderIsFree(c) /\ conn[c].socket = "open"
  /\ conn' = [conn EXCEPT ![c].socket = "none", ![c].reader = "ended"]
  /\ UNCHANGED << threadVars, serverVars, countVars >>

(* onDataReceived answers through the server's sendData: it picks the      *)
(* connection in use, then sends if that one is connected.                 *)
PickConnection(c) ==
  /\ conn[c].callback = "begun"
  /\ conn' = [conn EXCEPT ![c].callback = "picked", ![c].replyTo = active]
  /\ UNCHANGED << threadVars, serverVars, countVars >>

IsConnected(c) == conn[c].socket = "open" /\ conn[c].reader = "running"

Answer(c) ==
  /\ conn[c].callback = "picked"
  /\ replies' = IF conn[c].replyTo \in Peers /\ IsConnected(conn[c].replyTo)
                THEN replies \cup {<< c, conn[c].replyTo >>} ELSE replies
  /\ conn' = [conn EXCEPT ![c].callback = "none", ![c].replyTo = NoPeer]
  /\ UNCHANGED << threadVars, serverVars, onMessageThread, calls, fault >>

Runs(c) == ReaderEnds(c) \/ Dispatch(c) \/ PickConnection(c) \/ Answer(c)

----------------------------------------------------------------------------
Init ==
  /\ onMessageThread \in BOOLEAN
  /\ at = [t \in Threads |-> IF t = Owner THEN "idle" ELSE "none"]
  /\ on = [t \in Threads |-> NoPeer]
  /\ after = [t \in Threads |-> "idle"]
  /\ listener = "none"
  /\ shouldExit = FALSE
  /\ active = NoPeer
  /\ object = "whole"
  /\ backlog = 0
  /\ dialled = 0
  /\ conn = [c \in Peers |-> Unborn]
  /\ replies = {}
  /\ calls = 0
  /\ fault = FALSE

Next ==
  /\ ~ fault
  /\ \/ Start \/ Stop \/ Send \/ Destroy \/ OwnerStep \/ AcceptorStep \/ Dial
     \/ \E c \in Peers : Receive(c) \/ PeerCloses(c) \/ Runs(c)

(* Threads that can go on do; the owner need not call, nor peers dial.     *)
Fairness ==
  /\ WF_vars(~ fault /\ OwnerStep)
  /\ WF_vars(~ fault /\ AcceptorStep)
  /\ \A c \in Peers : WF_vars(~ fault /\ Runs(c))

Spec == Init /\ [][Next]_vars /\ Fairness

----------------------------------------------------------------------------
(***************************************************************************)
(* Properties.                                                             *)
(***************************************************************************)

(* Every variable has its type, and only a server that listens has peers   *)
(* waiting.                                                                *)
Places == {"none", "idle", "check", "wait", "create", "release", "assign", "initialise", "ended",
           "close", "signal", "join", "unsafe", "start", "joinForStart", "listen", "stop",
           "send", "sending", "stopped", "asking", "lastStopped", "lastAsking", "destroy",
           "members", "free", "baseStop", "joinForEnd", "destroyed"}
Connections ==
  [phase : {"unborn", "accepted", "created", "gone"}, socket : {"none", "open", "closed"},
   exit : BOOLEAN, reader : {"none", "running", "ended", "joined"}, safe : BOOLEAN,
   sent : 0 .. MaxMessages, queued : 0 .. MaxMessages,
   callback : {"none", "begun", "picked"}, replyTo : 0 .. MaxPeers]
TypeOK ==
  /\ onMessageThread \in BOOLEAN
  /\ at \in [Threads -> Places]
  /\ on \in [Threads -> 0 .. MaxPeers]
  /\ after \in [Threads -> Places]
  /\ listener \in {"none", "open", "closed"}
  /\ shouldExit \in BOOLEAN
  /\ active \in 0 .. MaxPeers
  /\ object \in {"whole", "base", "none"}
  /\ backlog \in 0 .. MaxPeers /\ dialled \in 0 .. MaxPeers
  /\ backlog > 0 => listener = "open"
  /\ conn \in [Peers -> Connections]
  /\ replies \subseteq Peers \X Peers
  /\ calls \in 0 .. MaxCalls
  /\ fault \in BOOLEAN

(* An answer goes to the peer whose message is answered, or to nobody: the *)
(* connection that replaces one is not usable before the callback of the   *)
(* other has returned; and until the server is destroyed no connection is  *)
(* destroyed under a callback that has picked it.                          *)
RepliesReachTheirPeer ==
  /\ \A reply \in replies : reply[1] = reply[2]
  /\ object = "whole" =>
       \A c \in Peers : conn[c].replyTo # NoPeer => ~ IsGone(conn[c].replyTo)

(* start(), stop() and the destructor return, whatever the accept thread,  *)
(* the readers and the callbacks are doing.                                *)
CallsReturn == at[Owner] # "idle" ~> at[Owner] = "idle" \/ fault
============================================================================
