------------------------- MODULE NanoOcp1ServerProofs -------------------------
(***************************************************************************)
(* What NanoOcp1Server guarantees for any number of peers, of messages and *)
(* of calls of its owner.                                                  *)
(***************************************************************************)
EXTENDS NanoOcp1Server, TLAPS

Disconnects == {"close", "signal", "join", "unsafe"}

(* The accept thread is disconnecting c, which another has replaced.       *)
Replacing(c) == at[Acceptor] \in Disconnects /\ on[Acceptor] = c

(* Peers wait at an open listener only, and nobody else opens one while    *)
(* the owner waits for the accept thread.                                  *)
ListenerInv ==
  /\ backlog <= dialled
  /\ at[Owner] \in {"joinForStart", "joinForEnd"} => listener # "open"
  /\ at[Owner] = "listen" => at[Acceptor] = "none"

(* The owner destroys the connection in use, and only when the members of  *)
(* the server are being destroyed.                                         *)
OwnerInv ==
  /\ after[Owner] \in {"idle", "stopped", "lastStopped", "free"}
  /\ at[Owner] = "free" \/ (at[Owner] \in Disconnects /\ after[Owner] = "free") =>
       object = "base" /\ on[Owner] = active /\ active \in Peers

(* The accept thread makes the new connection the one in use, disconnects  *)
(* and destroys the old, and only then gives the new one its socket.       *)
AcceptorInv ==
  /\ at[Acceptor] = "create" => on[Acceptor] \in Peers /\ conn[on[Acceptor]].phase = "accepted"
  /\ at[Acceptor] \in Disconnects => after[Acceptor] = "release"
  /\ at[Acceptor] \in Disconnects \cup {"release"} =>
       /\ on[Acceptor] \in Peers /\ on[Acceptor] # active
       /\ object = "whole" => active \in Peers
       /\ active \in Peers => conn[active].socket = "none"
  /\ at[Acceptor] = "release" =>
       ~ conn[on[Acceptor]].safe /\ conn[on[Acceptor]].callback = "none"
  /\ at[Acceptor] \in {"assign", "initialise"} =>
       on[Acceptor] \in Peers /\ (on[Acceptor] = active \/ IsGone(on[Acceptor]))
  /\ active \in Peers => conn[active].phase = "created"

(* Callbacks are made for the connection in use and for the one that is    *)
(* being replaced; what the latter picks instead of itself has no socket.  *)
ConnectionInv ==
  \A c \in Peers :
    /\ conn[c].queued <= conn[c].sent
    /\ conn[c].replyTo # NoPeer => conn[c].callback = "picked"
    /\ conn[c].phase # "created" =>
         conn[c].socket = "none" /\ ~ conn[c].safe /\ conn[c].callback = "none"
    /\ conn[c].safe \/ conn[c].callback # "none" => c = active \/ Replacing(c)
    /\ conn[c].replyTo \notin {NoPeer, c} =>
         Replacing(c) /\ conn[conn[c].replyTo].socket = "none"

(* The inductive invariant.                                               *)
IInv ==
  TypeOK /\ ListenerInv /\ OwnerInv /\ AcceptorInv /\ ConnectionInv /\ RepliesReachTheirPeer

(* A function that is changed at one point keeps its type if the new value *)
(* has it.                                                                 *)
LEMMA Updated ==
  ASSUME NEW S, NEW T, NEW f \in [S -> T], NEW x, NEW r, x \in S => r \in T
  PROVE  [f EXCEPT ![x] = r] \in [S -> T]
  BY Zenon

(* The fields of a connection that are numbers.                            *)
LEMMA ConnectionFields ==
  ASSUME NEW r \in Connections
  PROVE  /\ r.sent \in 0 .. MaxMessages /\ r.queued \in 0 .. MaxMessages
         /\ r.replyTo \in 0 .. MaxPeers
  BY Zenon DEF Connections

-----------------------------------------------------------------------------
(* The steps, each of which keeps the inductive invariant: one lemma for   *)
(* each action, and in it one step for each part of the invariant.         *)

(* A call of the owner begins.                                           *)
LEMMA CallStep ==
  ASSUME IInv, NEW where \in {"start", "stop", "send", "destroy"}, Call(where)
  PROVE  IInv'
<1> USE ServerAssumption DEF IInv, Owner, Acceptor, Threads, Peers, NoPeer, Disconnects
<1>1. TypeOK'
  BY DEF TypeOK, Places, Call, Go, serverVars
<1>2. ListenerInv'
  BY DEF ListenerInv, Call, Go, serverVars
<1>3. OwnerInv'
  BY DEF OwnerInv, Call, Go, serverVars
<1>4. AcceptorInv'
  BY DEF AcceptorInv, IsGone, Call, Go, serverVars
<1>5. ConnectionInv'
  BY DEF ConnectionInv, Replacing, Call, Go, serverVars
<1>6. RepliesReachTheirPeer'
  BY DEF RepliesReachTheirPeer, IsGone, Call, Go, serverVars
<1> QED
  BY <1>1, <1>2, <1>3, <1>4, <1>5, <1>6

(* disconnect() signals the reader and closes the socket.                *)
LEMMA CloseSocketStep ==
  ASSUME IInv, NEW t \in Threads, CloseSocket(t)
  PROVE  IInv'
<1> USE ServerAssumption DEF IInv, Owner, Acceptor, Threads, Peers, NoPeer, Disconnects
<1>1. TypeOK'
  <2>1. conn' \in [Peers -> Connections]
    <3> DEFINE record == [conn[on[t]] EXCEPT !.exit = TRUE,
                 !.socket = IF conn[on[t]].socket = "open" THEN "closed" ELSE conn[on[t]].socket]
    <3>1. ASSUME on[t] \in Peers PROVE conn[on[t]] \in Connections
      BY <3>1 DEF TypeOK
    <3>2. ASSUME on[t] \in Peers PROVE record \in Connections
      BY <3>1, <3>2, Zenon DEF Connections
    <3>3. conn' = [conn EXCEPT ![on[t]] = record]
      BY Zenon DEF CloseSocket
    <3> HIDE DEF record
    <3> QED
      BY <3>2, <3>3, Updated, Zenon DEF TypeOK
  <2>2. at' \in [Threads -> Places] /\ after' \in [Threads -> Places]
    BY DEF TypeOK, Places, CloseSocket, IsGone, Go, serverVars, countVars
  <2> QED
    BY <2>1, <2>2 DEF TypeOK, CloseSocket, IsGone, Go, serverVars, countVars
<1>2. ListenerInv'
  BY DEF ListenerInv, CloseSocket, IsGone, Go, serverVars, countVars
<1>3. OwnerInv'
  BY DEF OwnerInv, CloseSocket, IsGone, Go, serverVars, countVars
<1>4. AcceptorInv'
  BY DEF TypeOK, AcceptorInv, IsGone, CloseSocket, Go, serverVars, countVars
<1>fields. \A d \in Peers :
        /\ conn'[d].phase = conn[d].phase
        /\ conn'[d].socket =
             IF d = on[t] THEN (IF conn[d].socket = "open" THEN "closed"
             ELSE conn[d].socket)
             ELSE conn[d].socket
        /\ conn'[d].safe <=> conn[d].safe
        /\ conn'[d].sent = conn[d].sent
        /\ conn'[d].queued = conn[d].queued
        /\ conn'[d].callback = conn[d].callback
        /\ conn'[d].replyTo = conn[d].replyTo
  <2> DEFINE record == [conn[on[t]] EXCEPT !.exit = TRUE,
              !.socket = IF conn[on[t]].socket = "open" THEN "closed" ELSE conn[on[t]].socket]
  <2>1. \A d \in Peers : conn'[d] = IF d = on[t] THEN record ELSE conn[d]
    BY Zenon DEF TypeOK, CloseSocket
  <2>2. ASSUME on[t] \in Peers PROVE conn[on[t]] \in Connections
    BY <2>2 DEF TypeOK
  <2>3. ASSUME on[t] \in Peers
        PROVE  /\ record.phase = conn[on[t]].phase
               /\ record.socket = (IF conn[on[t]].socket = "open" THEN "closed" ELSE conn[on[t]].socket)
               /\ record.safe <=> conn[on[t]].safe
               /\ record.sent = conn[on[t]].sent
               /\ record.queued = conn[on[t]].queued
               /\ record.callback = conn[on[t]].callback
               /\ record.replyTo = conn[on[t]].replyTo
    BY <2>2, <2>3, Zenon DEF Connections
  <2> HIDE DEF record
  <2> QED
    BY <2>1, <2>3, SMT
<1>frame. /\ UNCHANGED << on, active, object, replies >>
      /\ at'[Acceptor] = (IF t = Acceptor THEN "signal" ELSE at[Acceptor]) /\ at[t] = "close"
  BY SMT DEF TypeOK, CloseSocket, Go, serverVars, countVars
<1>range. \A d \in Peers : conn[d].replyTo \in 0 .. MaxPeers
  BY ConnectionFields DEF TypeOK
<1>5. ConnectionInv'
  BY <1>fields, <1>frame, <1>range, SMT DEF ConnectionInv, Replacing
<1>6. RepliesReachTheirPeer'
  BY <1>fields, <1>frame, <1>range, SMT DEF RepliesReachTheirPeer, IsGone
<1> QED
  BY <1>1, <1>2, <1>3, <1>4, <1>5, <1>6

(* stopThread() signals the reader again.                                *)
LEMMA SignalReaderStep ==
  ASSUME IInv, NEW t \in Threads, SignalReader(t)
  PROVE  IInv'
<1> USE ServerAssumption DEF IInv, Owner, Acceptor, Threads, Peers, NoPeer, Disconnects
<1>1. TypeOK'
  <2>1. conn' \in [Peers -> Connections]
    <3> DEFINE record == [conn[on[t]] EXCEPT !.exit = TRUE]
    <3>1. ASSUME on[t] \in Peers PROVE conn[on[t]] \in Connections
      BY <3>1 DEF TypeOK
    <3>2. ASSUME on[t] \in Peers PROVE record \in Connections
      BY <3>1, <3>2, Zenon DEF Connections
    <3>3. conn' = [conn EXCEPT ![on[t]] = record]
      BY Zenon DEF SignalReader
    <3> HIDE DEF record
    <3> QED
      BY <3>2, <3>3, Updated, Zenon DEF TypeOK
  <2>2. at' \in [Threads -> Places] /\ after' \in [Threads -> Places]
    BY DEF TypeOK, Places, SignalReader, IsGone, Go, serverVars, countVars
  <2> QED
    BY <2>1, <2>2 DEF TypeOK, SignalReader, IsGone, Go, serverVars, countVars
<1>2. ListenerInv'
  BY DEF ListenerInv, SignalReader, IsGone, Go, serverVars, countVars
<1>3. OwnerInv'
  BY DEF OwnerInv, SignalReader, IsGone, Go, serverVars, countVars
<1>4. AcceptorInv'
  BY DEF AcceptorInv, IsGone, SignalReader, Go, serverVars, countVars
<1>5. ConnectionInv'
  BY DEF ConnectionInv, Replacing, SignalReader, IsGone, Go, serverVars, countVars
<1>6. RepliesReachTheirPeer'
  BY DEF RepliesReachTheirPeer, IsGone, SignalReader, Go, serverVars, countVars
<1> QED
  BY <1>1, <1>2, <1>3, <1>4, <1>5, <1>6

(* stopThread() joins the reader.                                        *)
LEMMA JoinReaderStep ==
  ASSUME IInv, NEW t \in Threads, JoinReader(t)
  PROVE  IInv'
<1> USE ServerAssumption DEF IInv, Owner, Acceptor, Threads, Peers, NoPeer, Disconnects
<1>1. TypeOK'
  <2>1. conn' \in [Peers -> Connections]
    <3> DEFINE record == [conn[on[t]] EXCEPT !.reader = "joined"]
    <3>1. ASSUME on[t] \in Peers PROVE conn[on[t]] \in Connections
      BY <3>1 DEF TypeOK
    <3>2. ASSUME on[t] \in Peers PROVE record \in Connections
      BY <3>1, <3>2, Zenon DEF Connections
    <3>3. conn' = [conn EXCEPT ![on[t]] = record]
      BY Zenon DEF JoinReader
    <3> HIDE DEF record
    <3> QED
      BY <3>2, <3>3, Updated, Zenon DEF TypeOK
  <2>2. at' \in [Threads -> Places] /\ after' \in [Threads -> Places]
    BY DEF TypeOK, Places, JoinReader, IsGone, Go, serverVars, countVars
  <2> QED
    BY <2>1, <2>2 DEF TypeOK, JoinReader, IsGone, Go, serverVars, countVars
<1>2. ListenerInv'
  BY DEF ListenerInv, JoinReader, IsGone, Go, serverVars, countVars
<1>3. OwnerInv'
  BY DEF OwnerInv, JoinReader, IsGone, Go, serverVars, countVars
<1>4. AcceptorInv'
  BY DEF AcceptorInv, IsGone, JoinReader, Go, serverVars, countVars
<1>5. ConnectionInv'
  BY DEF ConnectionInv, Replacing, JoinReader, IsGone, Go, serverVars, countVars
<1>6. RepliesReachTheirPeer'
  BY DEF RepliesReachTheirPeer, IsGone, JoinReader, Go, serverVars, countVars
<1> QED
  BY <1>1, <1>2, <1>3, <1>4, <1>5, <1>6

(* disconnect() waits for the callback under way and lets go of the socket. *)
LEMMA SetUnsafeStep ==
  ASSUME IInv, NEW t \in Threads, SetUnsafe(t)
  PROVE  IInv'
<1> USE ServerAssumption DEF IInv, Owner, Acceptor, Threads, Peers, NoPeer, Disconnects
<1>1. TypeOK'
  <2>1. conn' \in [Peers -> Connections]
    <3> DEFINE record == [conn[on[t]] EXCEPT !.safe = FALSE, !.socket = "none"]
    <3>1. ASSUME on[t] \in Peers PROVE conn[on[t]] \in Connections
      BY <3>1 DEF TypeOK
    <3>2. ASSUME on[t] \in Peers PROVE record \in Connections
      BY <3>1, <3>2, Zenon DEF Connections
    <3>3. conn' = [conn EXCEPT ![on[t]] = record]
      BY Zenon DEF SetUnsafe
    <3> HIDE DEF record
    <3> QED
      BY <3>2, <3>3, Updated, Zenon DEF TypeOK
  <2>2. at' \in [Threads -> Places] /\ after' \in [Threads -> Places]
    BY DEF TypeOK, SetUnsafe, IsGone, Go, serverVars, countVars
  <2> QED
    BY <2>1, <2>2 DEF TypeOK, SetUnsafe, IsGone, Go, serverVars, countVars
<1>2. ListenerInv'
  BY DEF TypeOK, ListenerInv, OwnerInv, SetUnsafe, IsGone, Go, serverVars, countVars
<1>3. OwnerInv'
  BY DEF OwnerInv, SetUnsafe, IsGone, Go, serverVars, countVars
<1>4. AcceptorInv'
  BY DEF TypeOK, AcceptorInv, IsGone, SetUnsafe, Go, serverVars, countVars
<1>fields. \A d \in Peers :
        /\ conn'[d].phase = conn[d].phase
        /\ conn'[d].socket = IF d = on[t] THEN "none" ELSE conn[d].socket
        /\ conn'[d].safe <=> d # on[t] /\ conn[d].safe
        /\ conn'[d].sent = conn[d].sent
        /\ conn'[d].queued = conn[d].queued
        /\ conn'[d].callback = conn[d].callback
        /\ conn'[d].replyTo = conn[d].replyTo
  <2> DEFINE record == [conn[on[t]] EXCEPT !.safe = FALSE, !.socket = "none"]
  <2>1. \A d \in Peers : conn'[d] = IF d = on[t] THEN record ELSE conn[d]
    BY Zenon DEF TypeOK, SetUnsafe
  <2>2. ASSUME on[t] \in Peers PROVE conn[on[t]] \in Connections
    BY <2>2 DEF TypeOK
  <2>3. ASSUME on[t] \in Peers
        PROVE  /\ record.phase = conn[on[t]].phase
               /\ record.socket = "none"
               /\ ~ record.safe
               /\ record.sent = conn[on[t]].sent
               /\ record.queued = conn[on[t]].queued
               /\ record.callback = conn[on[t]].callback
               /\ record.replyTo = conn[on[t]].replyTo
    BY <2>2, <2>3, Zenon DEF Connections
  <2> HIDE DEF record
  <2> QED
    BY <2>1, <2>3, SMT
<1>frame. /\ UNCHANGED << on, active, object, replies >>
      /\ at'[Acceptor] = (IF t = Acceptor THEN after[t] ELSE at[Acceptor]) /\ at[t] = "unsafe"
      /\ conn[on[t]].callback = "none"
  BY SMT DEF TypeOK, SetUnsafe, Go, serverVars, countVars
<1>range. \A d \in Peers : conn[d].replyTo \in 0 .. MaxPeers
  BY ConnectionFields DEF TypeOK
<1>5. ConnectionInv'
  BY <1>fields, <1>frame, <1>range, SMT DEF ConnectionInv, Replacing, AcceptorInv
<1>6. RepliesReachTheirPeer'
  BY <1>fields, <1>frame, <1>range, SMT DEF RepliesReachTheirPeer, IsGone
<1> QED
  BY <1>1, <1>2, <1>3, <1>4, <1>5, <1>6

(* A step of undefined behaviour is the last and changes nothing else.   *)
LEMMA FaultStep ==
  ASSUME IInv, Fault
  PROVE  IInv'
<1> USE ServerAssumption DEF IInv, Owner, Acceptor, Threads, Peers, NoPeer, Disconnects
<1>1. TypeOK'
  BY DEF TypeOK, Fault, threadVars, serverVars
<1>2. ListenerInv'
  BY DEF ListenerInv, Fault, threadVars, serverVars
<1>3. OwnerInv'
  BY DEF OwnerInv, Fault, threadVars, serverVars
<1>4. AcceptorInv'
  BY DEF AcceptorInv, IsGone, Fault, threadVars, serverVars
<1>5. ConnectionInv'
  BY DEF ConnectionInv, Replacing, Fault, threadVars, serverVars
<1>6. RepliesReachTheirPeer'
  BY DEF RepliesReachTheirPeer, IsGone, Fault, threadVars, serverVars
<1> QED
  BY <1>1, <1>2, <1>3, <1>4, <1>5, <1>6

(* The accept loop tests whether to go on.                               *)
LEMMA CheckExitStep ==
  ASSUME IInv, CheckExit
  PROVE  IInv'
<1> USE ServerAssumption DEF IInv, Owner, Acceptor, Threads, Peers, NoPeer, Disconnects
<1>1. TypeOK'
  BY DEF TypeOK, Places, CheckExit, Go, serverVars, countVars
<1>2. ListenerInv'
  BY DEF ListenerInv, CheckExit, Go, serverVars, countVars
<1>3. OwnerInv'
  BY DEF OwnerInv, CheckExit, Go, serverVars, countVars
<1>4. AcceptorInv'
  BY DEF AcceptorInv, IsGone, CheckExit, Go, serverVars, countVars
<1>5. ConnectionInv'
  BY DEF ConnectionInv, Replacing, CheckExit, Go, serverVars, countVars
<1>6. RepliesReachTheirPeer'
  BY DEF RepliesReachTheirPeer, IsGone, CheckExit, Go, serverVars, countVars
<1> QED
  BY <1>1, <1>2, <1>3, <1>4, <1>5, <1>6

(* Nobody dials for 100 ms.                                              *)
LEMMA WaitTimesOutStep ==
  ASSUME IInv, WaitTimesOut
  PROVE  IInv'
<1> USE ServerAssumption DEF IInv, Owner, Acceptor, Threads, Peers, NoPeer, Disconnects
<1>1. TypeOK'
  BY DEF TypeOK, Places, WaitTimesOut, Go, serverVars, countVars
<1>2. ListenerInv'
  BY DEF ListenerInv, WaitTimesOut, Go, serverVars, countVars
<1>3. OwnerInv'
  BY DEF OwnerInv, WaitTimesOut, Go, serverVars, countVars
<1>4. AcceptorInv'
  BY DEF AcceptorInv, IsGone, WaitTimesOut, Go, serverVars, countVars
<1>5. ConnectionInv'
  BY DEF ConnectionInv, Replacing, WaitTimesOut, Go, serverVars, countVars
<1>6. RepliesReachTheirPeer'
  BY DEF RepliesReachTheirPeer, IsGone, WaitTimesOut, Go, serverVars, countVars
<1> QED
  BY <1>1, <1>2, <1>3, <1>4, <1>5, <1>6

(* A peer is accepted.                                                   *)
LEMMA AcceptStep ==
  ASSUME IInv, Accept
  PROVE  IInv'
<1> USE ServerAssumption DEF IInv, Owner, Acceptor, Threads, Peers, NoPeer, Disconnects
<1>1. TypeOK'
  <2>1. conn' \in [Peers -> Connections]
    <3>1. PICK c \in Peers : conn' = [conn EXCEPT ![c] = [conn[c] EXCEPT !.phase = "accepted"]]
      BY Zenon DEF Accept
    <3>2. conn[c] \in Connections
      BY DEF TypeOK
    <3>3. [conn[c] EXCEPT !.phase = "accepted"] \in Connections
      BY <3>2, Zenon DEF Connections
    <3> QED
      BY <3>1, <3>3, Updated, Zenon DEF TypeOK
  <2>2. at' \in [Threads -> Places] /\ after' \in [Threads -> Places]
    BY DEF TypeOK, Places, Accept, IsNext, Go, countVars
  <2> QED
    BY <2>1, <2>2 DEF TypeOK, Accept, IsNext, Go, countVars
<1>2. ListenerInv'
  BY DEF TypeOK, ListenerInv, Accept, IsNext, Go, countVars
<1>3. OwnerInv'
  BY DEF OwnerInv, Accept, IsNext, Go, countVars
<1>4. AcceptorInv'
  BY DEF TypeOK, AcceptorInv, IsGone, Accept, IsNext, Go, countVars
<1>5. ConnectionInv'
  BY DEF ConnectionInv, Replacing, Accept, IsNext, Go, countVars
<1>6. RepliesReachTheirPeer'
  BY DEF RepliesReachTheirPeer, IsGone, Accept, IsNext, Go, countVars
<1> QED
  BY <1>1, <1>2, <1>3, <1>4, <1>5, <1>6

(* The new connection takes the place of the one in use.                 *)
LEMMA CreateStep ==
  ASSUME IInv, Create
  PROVE  IInv'
<1> USE ServerAssumption DEF IInv, Owner, Acceptor, Threads, Peers, NoPeer, Disconnects
<1>1. TypeOK'
  <2>1. conn' \in [Peers -> Connections]
    <3> DEFINE record == [conn[on[Acceptor]] EXCEPT !.phase = "created"]
    <3>1. ASSUME on[Acceptor] \in Peers PROVE conn[on[Acceptor]] \in Connections
      BY <3>1 DEF TypeOK
    <3>2. ASSUME on[Acceptor] \in Peers PROVE record \in Connections
      BY <3>1, <3>2, Zenon DEF Connections
    <3>3. conn' = [conn EXCEPT ![on[Acceptor]] = record]
      BY Zenon DEF Create
    <3> HIDE DEF record
    <3> QED
      BY <3>2, <3>3, Updated, Zenon DEF TypeOK
  <2>2. at' \in [Threads -> Places] /\ after' \in [Threads -> Places]
    BY DEF TypeOK, Places, Create, Disconnecting, Go, countVars
  <2> QED
    BY <2>1, <2>2 DEF TypeOK, Create, Disconnecting, Go, countVars
<1>2. ListenerInv'
  BY DEF TypeOK, ListenerInv, Create, Disconnecting, Go, countVars
<1>3. OwnerInv'
  BY DEF TypeOK, OwnerInv, Create, Disconnecting, Go, countVars
<1>4. AcceptorInv'
  BY DEF TypeOK, AcceptorInv, ConnectionInv, IsGone, Create, Disconnecting, Go, countVars
<1>5. ConnectionInv'
  BY DEF TypeOK, ConnectionInv, Replacing, Create, Disconnecting, Go, countVars
<1>6. RepliesReachTheirPeer'
  BY DEF RepliesReachTheirPeer, IsGone, Create, Disconnecting, Go, countVars
<1> QED
  BY <1>1, <1>2, <1>3, <1>4, <1>5, <1>6

(* The connection that was replaced is destroyed.                        *)
LEMMA ReleaseStep ==
  ASSUME IInv, Release
  PROVE  IInv'
<1> USE ServerAssumption DEF IInv, Owner, Acceptor, Threads, Peers, NoPeer, Disconnects
<1>1. TypeOK'
  <2>1. conn' \in [Peers -> Connections]
    <3> DEFINE record == [Unborn EXCEPT !.phase = "gone", !.sent = conn[on[Acceptor]].sent]
    <3>1. ASSUME on[Acceptor] \in Peers PROVE conn[on[Acceptor]] \in Connections
      BY <3>1 DEF TypeOK
    <3>2. ASSUME on[Acceptor] \in Peers PROVE 0 \in 0 .. MaxMessages /\ 0 \in 0 .. MaxPeers
      BY <3>1, <3>2, ConnectionFields, SMT DEF TypeOK, ConnectionInv, Release
    <3>3. ASSUME on[Acceptor] \in Peers PROVE record \in Connections
      BY <3>1, <3>2, <3>3, Zenon DEF Connections, Unborn
    <3>4. conn' = [conn EXCEPT ![on[Acceptor]] = record]
      BY Zenon DEF Release, Gone
    <3> HIDE DEF record
    <3> QED
      BY <3>3, <3>4, Updated, Zenon DEF TypeOK
  <2>2. at' \in [Threads -> Places] /\ after' \in [Threads -> Places]
    BY DEF TypeOK, Places, Release, Gone, Unborn, Go, serverVars, countVars
  <2> QED
    BY <2>1, <2>2 DEF TypeOK, Release, Gone, Unborn, Go, serverVars, countVars
<1>2. ListenerInv'
  BY DEF ListenerInv, Release, Gone, Unborn, Go, serverVars, countVars
<1>3. OwnerInv'
  BY DEF OwnerInv, Release, Gone, Unborn, Go, serverVars, countVars
<1>4. AcceptorInv'
  BY DEF TypeOK, AcceptorInv, IsGone, Release, Gone, Unborn, Go, serverVars, countVars
<1>5. ConnectionInv'
  BY DEF TypeOK, Connections, ConnectionInv, Replacing, Release, Gone, Unborn, Go, serverVars,
      countVars
<1>6. RepliesReachTheirPeer'
  BY DEF TypeOK, AcceptorInv, ConnectionInv, Replacing, RepliesReachTheirPeer, IsGone, Release,
      Gone, Unborn, Go, serverVars, countVars
<1> QED
  BY <1>1, <1>2, <1>3, <1>4, <1>5, <1>6

(* The new connection gets its socket.                                   *)
LEMMA AssignSocketStep ==
  ASSUME IInv, AssignSocket
  PROVE  IInv'
<1> USE ServerAssumption DEF IInv, Owner, Acceptor, Threads, Peers, NoPeer, Disconnects
<1>1. TypeOK'
  <2>1. conn' \in [Peers -> Connections]
    <3> DEFINE record == [conn[on[Acceptor]] EXCEPT !.socket = "open"]
    <3>1. ASSUME on[Acceptor] \in Peers PROVE conn[on[Acceptor]] \in Connections
      BY <3>1 DEF TypeOK
    <3>2. ASSUME on[Acceptor] \in Peers PROVE record \in Connections
      BY <3>1, <3>2, Zenon DEF Connections
    <3>3. conn' = [conn EXCEPT ![on[Acceptor]] = record]
      BY Zenon DEF AssignSocket
    <3> HIDE DEF record
    <3> QED
      BY <3>2, <3>3, Updated, Zenon DEF TypeOK
  <2>2. at' \in [Threads -> Places] /\ after' \in [Threads -> Places]
    BY DEF TypeOK, Places, AssignSocket, IsGone, Go, serverVars, countVars
  <2> QED
    BY <2>1, <2>2 DEF TypeOK, AssignSocket, IsGone, Go, serverVars, countVars
<1>2. ListenerInv'
  BY DEF ListenerInv, AssignSocket, IsGone, Go, serverVars, countVars
<1>3. OwnerInv'
  BY DEF OwnerInv, AssignSocket, IsGone, Go, serverVars, countVars
<1>4. AcceptorInv'
  BY DEF AcceptorInv, IsGone, AssignSocket, Go, serverVars, countVars
<1>5. ConnectionInv'
  BY DEF TypeOK, AcceptorInv, ConnectionInv, Replacing, AssignSocket, IsGone, Go, serverVars,
      countVars
<1>6. RepliesReachTheirPeer'
  BY DEF RepliesReachTheirPeer, IsGone, AssignSocket, Go, serverVars, countVars
<1> QED
  BY <1>1, <1>2, <1>3, <1>4, <1>5, <1>6

(* The reader of the new connection is started.                          *)
LEMMA InitialiseStep ==
  ASSUME IInv, Initialise
  PROVE  IInv'
<1> USE ServerAssumption DEF IInv, Owner, Acceptor, Threads, Peers, NoPeer, Disconnects
<1>1. TypeOK'
  <2>1. conn' \in [Peers -> Connections]
    <3> DEFINE record == [conn[on[Acceptor]] EXCEPT !.safe = TRUE, !.reader = "running",
                                           !.exit = FALSE]
    <3>1. ASSUME on[Acceptor] \in Peers PROVE conn[on[Acceptor]] \in Connections
      BY <3>1 DEF TypeOK
    <3>2. ASSUME on[Acceptor] \in Peers PROVE record \in Connections
      BY <3>1, <3>2, Zenon DEF Connections
    <3>3. conn' = [conn EXCEPT ![on[Acceptor]] = record]
      BY Zenon DEF Initialise
    <3> HIDE DEF record
    <3> QED
      BY <3>2, <3>3, Updated, Zenon DEF TypeOK
  <2>2. at' \in [Threads -> Places] /\ after' \in [Threads -> Places]
    BY DEF TypeOK, Places, Initialise, IsGone, Go, serverVars, countVars
  <2> QED
    BY <2>1, <2>2 DEF TypeOK, Initialise, IsGone, Go, serverVars, countVars
<1>2. ListenerInv'
  BY DEF ListenerInv, Initialise, IsGone, Go, serverVars, countVars
<1>3. OwnerInv'
  BY DEF OwnerInv, Initialise, IsGone, Go, serverVars, countVars
<1>4. AcceptorInv'
  BY DEF TypeOK, AcceptorInv, IsGone, Initialise, Go, serverVars, countVars
<1>fields. \A d \in Peers :
        /\ conn'[d].phase = conn[d].phase
        /\ conn'[d].socket = conn[d].socket
        /\ conn'[d].safe <=> d = on[Acceptor] \/ conn[d].safe
        /\ conn'[d].sent = conn[d].sent
        /\ conn'[d].queued = conn[d].queued
        /\ conn'[d].callback = conn[d].callback
        /\ conn'[d].replyTo = conn[d].replyTo
  <2> DEFINE record == [conn[on[Acceptor]] EXCEPT !.safe = TRUE, !.reader = "running",
              !.exit = FALSE]
  <2>1. \A d \in Peers : conn'[d] = IF d = on[Acceptor] THEN record ELSE conn[d]
    BY Zenon DEF TypeOK, Initialise
  <2>2. ASSUME on[Acceptor] \in Peers PROVE conn[on[Acceptor]] \in Connections
    BY <2>2 DEF TypeOK
  <2>3. ASSUME on[Acceptor] \in Peers
        PROVE  /\ record.phase = conn[on[Acceptor]].phase
               /\ record.socket = conn[on[Acceptor]].socket
               /\ record.safe
               /\ record.sent = conn[on[Acceptor]].sent
               /\ record.queued = conn[on[Acceptor]].queued
               /\ record.callback = conn[on[Acceptor]].callback
               /\ record.replyTo = conn[on[Acceptor]].replyTo
    BY <2>2, <2>3, Zenon DEF Connections
  <2> HIDE DEF record
  <2> QED
    BY <2>1, <2>3, SMT
<1>frame. /\ UNCHANGED << on, active, object, replies >>
      /\ at'[Acceptor] = "check" /\ at[Acceptor] = "initialise"
      /\ conn[on[Acceptor]].phase # "gone"
  BY SMT DEF TypeOK, Initialise, IsGone, Go, serverVars, countVars
<1>range. \A d \in Peers : conn[d].replyTo \in 0 .. MaxPeers
  BY ConnectionFields DEF TypeOK
<1>5. ConnectionInv'
  BY <1>fields, <1>frame, <1>range, SMT DEF ConnectionInv, Replacing, AcceptorInv, IsGone
<1>6. RepliesReachTheirPeer'
  BY <1>fields, <1>frame, <1>range, SMT DEF RepliesReachTheirPeer, IsGone
<1> QED
  BY <1>1, <1>2, <1>3, <1>4, <1>5, <1>6

(* The listener is closed.                                               *)
LEMMA StopListeningStep ==
  ASSUME IInv, NEW from \in {"start", "baseStop"}, NEW to \in {"joinForStart", "joinForEnd"},
         StopListening(from, to)
  PROVE  IInv'
<1> USE ServerAssumption DEF IInv, Owner, Acceptor, Threads, Peers, NoPeer, Disconnects
<1>1. TypeOK'
  BY DEF TypeOK, Places, StopListening, Go, countVars
<1>2. ListenerInv'
  BY DEF TypeOK, ListenerInv, StopListening, Go, countVars
<1>3. OwnerInv'
  BY DEF OwnerInv, StopListening, Go, countVars
<1>4. AcceptorInv'
  BY DEF AcceptorInv, IsGone, StopListening, Go, countVars
<1>5. ConnectionInv'
  BY DEF ConnectionInv, Replacing, StopListening, Go, countVars
<1>6. RepliesReachTheirPeer'
  BY DEF RepliesReachTheirPeer, IsGone, StopListening, Go, countVars
<1> QED
  BY <1>1, <1>2, <1>3, <1>4, <1>5, <1>6

(* The accept thread is joined.                                          *)
LEMMA JoinAcceptorStep ==
  ASSUME IInv, NEW from \in {"joinForStart", "joinForEnd"}, NEW to \in {"listen", "destroyed"},
         JoinAcceptor(from, to)
  PROVE  IInv'
<1> USE ServerAssumption DEF IInv, Owner, Acceptor, Threads, Peers, NoPeer, Disconnects
<1>1. TypeOK'
  BY DEF TypeOK, Places, ListenerInv, JoinAcceptor, countVars
<1>2. ListenerInv'
  BY DEF TypeOK, ListenerInv, JoinAcceptor, countVars
<1>3. OwnerInv'
  BY DEF TypeOK, OwnerInv, JoinAcceptor, countVars
<1>4. AcceptorInv'
  BY DEF TypeOK, AcceptorInv, IsGone, JoinAcceptor, countVars
<1>5. ConnectionInv'
  BY DEF ConnectionInv, Replacing, JoinAcceptor, countVars
<1>6. RepliesReachTheirPeer'
  BY DEF RepliesReachTheirPeer, IsGone, JoinAcceptor, countVars
<1> QED
  BY <1>1, <1>2, <1>3, <1>4, <1>5, <1>6

(* The server listens again, or fails to.                                *)
LEMMA ListenStep ==
  ASSUME IInv, Listen
  PROVE  IInv'
<1> USE ServerAssumption DEF IInv, Owner, Acceptor, Threads, Peers, NoPeer, Disconnects
<1>1. TypeOK'
  <2>1. listener' \in {"none", "open", "closed"} /\ shouldExit' \in BOOLEAN
    BY Zenon DEF Listen, TypeOK
  <2>2. backlog' > 0 => listener' = "open"
    BY SMT DEF Listen, TypeOK, serverVars
  <2>3. at' \in [Threads -> Places]
    BY SMT DEF Listen, Go, TypeOK, Places
  <2> QED
    BY <2>1, <2>2, <2>3, Zenon DEF Listen, TypeOK, countVars
<1>2. ListenerInv'
  BY DEF TypeOK, ListenerInv, Listen, Go, countVars
<1>3. OwnerInv'
  BY DEF TypeOK, OwnerInv, Listen, Go, countVars
<1>4. AcceptorInv'
  BY DEF TypeOK, AcceptorInv, IsGone, Listen, Go, countVars
<1>5. ConnectionInv'
  BY DEF TypeOK, ListenerInv, ConnectionInv, Replacing, Listen, Go, countVars
<1>6. RepliesReachTheirPeer'
  BY DEF RepliesReachTheirPeer, IsGone, Listen, Go, countVars
<1> QED
  BY <1>1, <1>2, <1>3, <1>4, <1>5, <1>6

(* stop(), which the destructor calls, disconnects the connection in use.*)
LEMMA StopActiveStep ==
  ASSUME IInv, NEW from \in {"stop", "destroy"}, NEW stopped \in {"stopped", "lastStopped"},
         NEW to \in {"idle", "members"}, StopActive(from, stopped, to)
  PROVE  IInv'
<1> USE ServerAssumption DEF IInv, Owner, Acceptor, Threads, Peers, NoPeer, Disconnects
<1>1. TypeOK'
  BY DEF TypeOK, Places, StopActive, Disconnecting, Go, serverVars, countVars
<1>2. ListenerInv'
  BY DEF TypeOK, ListenerInv, StopActive, Disconnecting, Go, serverVars, countVars
<1>3. OwnerInv'
  BY DEF TypeOK, OwnerInv, StopActive, Disconnecting, Go, serverVars, countVars
<1>4. AcceptorInv'
  BY DEF TypeOK, AcceptorInv, IsGone, StopActive, Disconnecting, Go, serverVars, countVars
<1>5. ConnectionInv'
  BY DEF TypeOK, ConnectionInv, Replacing, StopActive, Disconnecting, Go, serverVars, countVars
<1>6. RepliesReachTheirPeer'
  BY DEF RepliesReachTheirPeer, IsGone, StopActive, Disconnecting, Go, serverVars, countVars
<1> QED
  BY <1>1, <1>2, <1>3, <1>4, <1>5, <1>6

(* sendData() and stop() of the owner take the connection in use.        *)
LEMMA PickActiveStep ==
  ASSUME IInv, NEW from \in {"send", "stopped", "lastStopped"},
         NEW using \in {"sending", "asking", "lastAsking"}, NEW to \in {"idle", "members"},
         PickActive(from, using, to)
  PROVE  IInv'
<1> USE ServerAssumption DEF IInv, Owner, Acceptor, Threads, Peers, NoPeer, Disconnects
<1>1. TypeOK'
  BY DEF TypeOK, Places, PickActive, Go, serverVars, countVars
<1>2. ListenerInv'
  BY DEF ListenerInv, PickActive, Go, serverVars, countVars
<1>3. OwnerInv'
  BY DEF OwnerInv, PickActive, Go, serverVars, countVars
<1>4. AcceptorInv'
  BY DEF AcceptorInv, IsGone, PickActive, Go, serverVars, countVars
<1>5. ConnectionInv'
  BY DEF ConnectionInv, Replacing, PickActive, Go, serverVars, countVars
<1>6. RepliesReachTheirPeer'
  BY DEF RepliesReachTheirPeer, IsGone, PickActive, Go, serverVars, countVars
<1> QED
  BY <1>1, <1>2, <1>3, <1>4, <1>5, <1>6

(* The owner has sent, or asked whether the connection is up.            *)
LEMMA UseActiveStep ==
  ASSUME IInv, NEW from \in {"sending", "asking", "lastAsking"},
         NEW to \in {"idle", "members"}, UseActive(from, to)
  PROVE  IInv'
<1> USE ServerAssumption DEF IInv, Owner, Acceptor, Threads, Peers, NoPeer, Disconnects
<1>1. TypeOK'
  BY DEF TypeOK, Places, UseActive, IsGone, Go, serverVars, countVars
<1>2. ListenerInv'
  BY DEF ListenerInv, UseActive, IsGone, Go, serverVars, countVars
<1>3. OwnerInv'
  BY DEF OwnerInv, UseActive, IsGone, Go, serverVars, countVars
<1>4. AcceptorInv'
  BY DEF AcceptorInv, IsGone, UseActive, Go, serverVars, countVars
<1>5. ConnectionInv'
  BY DEF ConnectionInv, Replacing, UseActive, IsGone, Go, serverVars, countVars
<1>6. RepliesReachTheirPeer'
  BY DEF RepliesReachTheirPeer, IsGone, UseActive, Go, serverVars, countVars
<1> QED
  BY <1>1, <1>2, <1>3, <1>4, <1>5, <1>6

(* The destructor goes on to the members.                                *)
LEMMA DestroyMembersStep ==
  ASSUME IInv, DestroyMembers
  PROVE  IInv'
<1> USE ServerAssumption DEF IInv, Owner, Acceptor, Threads, Peers, NoPeer, Disconnects
<1>1. TypeOK'
  BY DEF TypeOK, Places, DestroyMembers, Disconnecting, Go, countVars
<1>2. ListenerInv'
  BY DEF TypeOK, ListenerInv, DestroyMembers, Disconnecting, Go, countVars
<1>3. OwnerInv'
  BY DEF TypeOK, OwnerInv, DestroyMembers, Disconnecting, Go, countVars
<1>4. AcceptorInv'
  BY DEF TypeOK, AcceptorInv, IsGone, DestroyMembers, Disconnecting, Go, countVars
<1>5. ConnectionInv'
  BY DEF TypeOK, ConnectionInv, Replacing, DestroyMembers, Disconnecting, Go, countVars
<1>6. RepliesReachTheirPeer'
  BY DEF RepliesReachTheirPeer, IsGone, DestroyMembers, Disconnecting, Go, countVars
<1> QED
  BY <1>1, <1>2, <1>3, <1>4, <1>5, <1>6

(* The destructor destroys the connection in use.                        *)
LEMMA FreeStep ==
  ASSUME IInv, Free
  PROVE  IInv'
<1> USE ServerAssumption DEF IInv, Owner, Acceptor, Threads, Peers, NoPeer, Disconnects
<1>1. TypeOK'
  <2>1. conn' \in [Peers -> Connections]
    <3> DEFINE record == [Unborn EXCEPT !.phase = "gone", !.sent = conn[on[Owner]].sent]
    <3>1. ASSUME on[Owner] \in Peers PROVE conn[on[Owner]] \in Connections
      BY <3>1 DEF TypeOK
    <3>2. ASSUME on[Owner] \in Peers PROVE 0 \in 0 .. MaxMessages /\ 0 \in 0 .. MaxPeers
      BY <3>1, <3>2, ConnectionFields, SMT DEF TypeOK, ConnectionInv, Free
    <3>3. ASSUME on[Owner] \in Peers PROVE record \in Connections
      BY <3>1, <3>2, <3>3, Zenon DEF Connections, Unborn
    <3>4. conn' = [conn EXCEPT ![on[Owner]] = record]
      BY Zenon DEF Free, Gone
    <3> HIDE DEF record
    <3> QED
      BY <3>3, <3>4, Updated, Zenon DEF TypeOK
  <2>2. at' \in [Threads -> Places] /\ after' \in [Threads -> Places]
    BY DEF TypeOK, Places, Free, Gone, Unborn, Go, countVars
  <2> QED
    BY <2>1, <2>2 DEF TypeOK, Free, Gone, Unborn, Go, countVars
<1>2. ListenerInv'
  BY DEF ListenerInv, Free, Gone, Unborn, Go, countVars
<1>3. OwnerInv'
  BY DEF TypeOK, OwnerInv, Free, Gone, Unborn, Go, countVars
<1>4. AcceptorInv'
  BY DEF TypeOK, OwnerInv, AcceptorInv, IsGone, Free, Gone, Unborn, Go, countVars
<1>fields. \A d \in Peers :
        /\ conn'[d].phase = IF d = on[Owner] THEN "gone" ELSE conn[d].phase
        /\ conn'[d].socket = IF d = on[Owner] THEN "none" ELSE conn[d].socket
        /\ conn'[d].safe <=> d # on[Owner] /\ conn[d].safe
        /\ conn'[d].sent = conn[d].sent
        /\ conn'[d].queued = IF d = on[Owner] THEN 0 ELSE conn[d].queued
        /\ conn'[d].callback = IF d = on[Owner] THEN "none" ELSE conn[d].callback
        /\ conn'[d].replyTo = IF d = on[Owner] THEN NoPeer ELSE conn[d].replyTo
  <2> DEFINE record == [Unborn EXCEPT !.phase = "gone", !.sent = conn[on[Owner]].sent]
  <2>1. \A d \in Peers : conn'[d] = IF d = on[Owner] THEN record ELSE conn[d]
    BY Zenon DEF TypeOK, Free, Gone
  <2>2. ASSUME on[Owner] \in Peers PROVE conn[on[Owner]] \in Connections
    BY <2>2 DEF TypeOK
  <2>3. ASSUME on[Owner] \in Peers
        PROVE  /\ record.phase = "gone"
               /\ record.socket = "none"
               /\ ~ record.safe
               /\ record.sent = conn[on[Owner]].sent
               /\ record.queued = 0
               /\ record.callback = "none"
               /\ record.replyTo = NoPeer
    BY <2>2, <2>3, Zenon DEF Connections, Unborn
  <2> HIDE DEF record
  <2> QED
    BY <2>1, <2>3, SMT
<1>frame. /\ UNCHANGED << on, object, replies >> /\ active' = NoPeer
      /\ at'[Acceptor] = at[Acceptor] /\ at[Owner] = "free"
  BY SMT DEF TypeOK, Free, Go, serverVars, countVars
<1>range. \A d \in Peers : conn[d].replyTo \in 0 .. MaxPeers
  BY ConnectionFields DEF TypeOK
<1>counts. \A d \in Peers : conn[d].sent \in 0 .. MaxMessages 
  BY ConnectionFields DEF TypeOK
<1>5. ConnectionInv'
  BY <1>fields, <1>frame, <1>range, <1>counts, SMT DEF ConnectionInv, Replacing, OwnerInv
<1>6. RepliesReachTheirPeer'
  BY <1>fields, <1>frame, <1>range, SMT DEF RepliesReachTheirPeer, IsGone, OwnerInv
<1> QED
  BY <1>1, <1>2, <1>3, <1>4, <1>5, <1>6

(* The server is gone.                                                   *)
LEMMA DestroyedStep ==
  ASSUME IInv, Destroyed
  PROVE  IInv'
<1> USE ServerAssumption DEF IInv, Owner, Acceptor, Threads, Peers, NoPeer, Disconnects
<1>1. TypeOK'
  BY DEF TypeOK, Places, Destroyed, Go, countVars
<1>2. ListenerInv'
  BY DEF ListenerInv, Destroyed, Go, countVars
<1>3. OwnerInv'
  BY DEF OwnerInv, Destroyed, Go, countVars
<1>4. AcceptorInv'
  BY DEF AcceptorInv, IsGone, Destroyed, Go, countVars
<1>5. ConnectionInv'
  BY DEF ConnectionInv, Replacing, Destroyed, Go, countVars
<1>6. RepliesReachTheirPeer'
  BY DEF RepliesReachTheirPeer, IsGone, Destroyed, Go, countVars
<1> QED
  BY <1>1, <1>2, <1>3, <1>4, <1>5, <1>6

(* A peer dials.                                                         *)
LEMMA DialStep ==
  ASSUME IInv, Dial
  PROVE  IInv'
<1> USE ServerAssumption DEF IInv, Owner, Acceptor, Threads, Peers, NoPeer, Disconnects
<1>1. TypeOK'
  BY DEF TypeOK, Places, ListenerInv, Dial, threadVars, countVars
<1>2. ListenerInv'
  BY DEF TypeOK, ListenerInv, Dial, threadVars, countVars
<1>3. OwnerInv'
  BY DEF OwnerInv, Dial, threadVars, countVars
<1>4. AcceptorInv'
  BY DEF AcceptorInv, IsGone, Dial, threadVars, countVars
<1>5. ConnectionInv'
  BY DEF ConnectionInv, Replacing, Dial, threadVars, countVars
<1>6. RepliesReachTheirPeer'
  BY DEF RepliesReachTheirPeer, IsGone, Dial, threadVars, countVars
<1> QED
  BY <1>1, <1>2, <1>3, <1>4, <1>5, <1>6

(* The reader gets a message.                                            *)
LEMMA ReceiveStep ==
  ASSUME IInv, NEW c \in Peers, Receive(c)
  PROVE  IInv'
<1> USE ServerAssumption DEF IInv, Owner, Acceptor, Threads, Peers, NoPeer, Disconnects
<1>1. TypeOK'
  <2>1. conn' \in [Peers -> Connections]
    <3> DEFINE record == IF onMessageThread
                THEN [conn[c] EXCEPT !.sent = conn[c].sent + 1, !.queued = conn[c].queued + 1]
                ELSE Begun([conn[c] EXCEPT !.sent = conn[c].sent + 1])
    <3>1. ASSUME c \in Peers PROVE conn[c] \in Connections
      BY <3>1 DEF TypeOK
    <3>2. ASSUME c \in Peers
          PROVE  conn[c].sent + 1 \in 0 .. MaxMessages /\ conn[c].queued + 1 \in 0 .. MaxMessages
      <4>1. /\ conn[c].sent \in 0 .. MaxMessages /\ conn[c].queued \in 0 .. MaxMessages
            /\ conn[c].queued <= conn[c].sent
        BY <3>1, <3>2, ConnectionFields, Zenon DEF ConnectionInv
      <4>2. conn[c].sent < MaxMessages
        BY Zenon DEF Receive
      <4> QED
        BY <4>1, <4>2, SMT
    <3>3. ASSUME c \in Peers PROVE record \in Connections
      BY <3>1, <3>2, <3>3, Zenon DEF Connections, Begun
    <3>4. conn' = [conn EXCEPT ![c] = record]
      BY Zenon DEF Receive
    <3> HIDE DEF record
    <3> QED
      BY <3>3, <3>4, Updated, Zenon DEF TypeOK
  <2>2. at' \in [Threads -> Places] /\ after' \in [Threads -> Places]
    BY DEF TypeOK, Receive, Begun, ReaderIsFree, threadVars, serverVars, countVars
  <2> QED
    BY <2>1, <2>2 DEF TypeOK, Receive, Begun, ReaderIsFree, threadVars, serverVars, countVars
<1>2. ListenerInv'
  BY DEF ListenerInv, Receive, Begun, ReaderIsFree, threadVars, serverVars, countVars
<1>3. OwnerInv'
  BY DEF OwnerInv, Receive, Begun, ReaderIsFree, threadVars, serverVars, countVars
<1>4. AcceptorInv'
  BY DEF AcceptorInv, IsGone, Receive, Begun, ReaderIsFree, threadVars, serverVars, countVars
<1>free. onMessageThread \/ conn[c].callback = "none"
  BY DEF Receive, ReaderIsFree
<1>fields. \A d \in Peers :
        /\ conn'[d].phase = conn[d].phase
        /\ conn'[d].socket = conn[d].socket
        /\ conn'[d].safe <=> conn[d].safe
        /\ conn'[d].sent = IF d = c THEN conn[c].sent + 1 ELSE conn[d].sent
        /\ \/ conn'[d].queued = conn[d].queued
           \/ d = c /\ conn'[d].queued = conn[d].queued + 1
        /\ \/ conn'[d].callback = conn[d].callback
           \/ d = c /\ conn[d].safe /\ conn[d].callback = "none" /\ conn'[d].callback = "begun"
        /\ conn'[d].replyTo = conn[d].replyTo
  <2> DEFINE record == IF onMessageThread
              THEN [conn[c] EXCEPT !.sent = conn[c].sent + 1, !.queued = conn[c].queued + 1]
              ELSE Begun([conn[c] EXCEPT !.sent = conn[c].sent + 1])
  <2>1. \A d \in Peers : conn'[d] = IF d = c THEN record ELSE conn[d]
    BY Zenon DEF TypeOK, Receive
  <2>2. ASSUME c \in Peers PROVE conn[c] \in Connections
    BY <2>2 DEF TypeOK
  <2>3. ASSUME c \in Peers
        PROVE  /\ record.phase = conn[c].phase
               /\ record.socket = conn[c].socket
               /\ record.safe <=> conn[c].safe
               /\ record.sent = conn[c].sent + 1
               /\ record.queued = conn[c].queued \/ record.queued = conn[c].queued + 1
               /\ \/ record.callback = conn[c].callback
                  \/ conn[c].safe /\ conn[c].callback = "none" /\ record.callback = "begun"
               /\ record.replyTo = conn[c].replyTo
    BY <1>free, <2>2, <2>3, Zenon DEF Connections, Begun
  <2> HIDE DEF record
  <2> QED
    BY <2>1, <2>3, SMT
<1>frame. UNCHANGED << at, on, active, object, replies >>
  BY SMT DEF Receive, ReaderIsFree, threadVars, serverVars, countVars
<1>range. \A d \in Peers : conn[d].replyTo \in 0 .. MaxPeers
  BY ConnectionFields DEF TypeOK
<1>counts. \A d \in Peers : conn[d].sent \in 0 .. MaxMessages /\ conn[d].queued \in 0 .. MaxMessages
  BY ConnectionFields DEF TypeOK
<1>5. ConnectionInv'
  BY <1>fields, <1>frame, <1>range, <1>counts, SMT DEF ConnectionInv, Replacing
<1>6. RepliesReachTheirPeer'
  BY <1>fields, <1>frame, <1>range, SMT DEF RepliesReachTheirPeer, IsGone
<1> QED
  BY <1>1, <1>2, <1>3, <1>4, <1>5, <1>6

(* The peer closes its end.                                              *)
LEMMA PeerClosesStep ==
  ASSUME IInv, NEW c \in Peers, PeerCloses(c)
  PROVE  IInv'
<1> USE ServerAssumption DEF IInv, Owner, Acceptor, Threads, Peers, NoPeer, Disconnects
<1>1. TypeOK'
  <2>1. conn' \in [Peers -> Connections]
    <3> DEFINE record == [conn[c] EXCEPT !.socket = "none", !.reader = "ended"]
    <3>1. ASSUME c \in Peers PROVE conn[c] \in Connections
      BY <3>1 DEF TypeOK
    <3>2. ASSUME c \in Peers PROVE record \in Connections
      BY <3>1, <3>2, Zenon DEF Connections
    <3>3. conn' = [conn EXCEPT ![c] = record]
      BY Zenon DEF PeerCloses
    <3> HIDE DEF record
    <3> QED
      BY <3>2, <3>3, Updated, Zenon DEF TypeOK
  <2>2. at' \in [Threads -> Places] /\ after' \in [Threads -> Places]
    BY DEF TypeOK, PeerCloses, ReaderIsFree, threadVars, serverVars, countVars
  <2> QED
    BY <2>1, <2>2 DEF TypeOK, PeerCloses, ReaderIsFree, threadVars, serverVars, countVars
<1>2. ListenerInv'
  BY DEF ListenerInv, PeerCloses, ReaderIsFree, threadVars, serverVars, countVars
<1>3. OwnerInv'
  BY DEF OwnerInv, PeerCloses, ReaderIsFree, threadVars, serverVars, countVars
<1>4. AcceptorInv'
  BY DEF TypeOK, AcceptorInv, IsGone, PeerCloses, ReaderIsFree, threadVars, serverVars, countVars
<1>fields. \A d \in Peers :
        /\ conn'[d].phase = conn[d].phase
        /\ conn'[d].socket = IF d = c THEN "none" ELSE conn[d].socket
        /\ conn'[d].safe <=> conn[d].safe
        /\ conn'[d].sent = conn[d].sent
        /\ conn'[d].queued = conn[d].queued
        /\ conn'[d].callback = conn[d].callback
        /\ conn'[d].replyTo = conn[d].replyTo
  <2> DEFINE record == [conn[c] EXCEPT !.socket = "none", !.reader = "ended"]
  <2>1. \A d \in Peers : conn'[d] = IF d = c THEN record ELSE conn[d]
    BY Zenon DEF TypeOK, PeerCloses
  <2>2. ASSUME c \in Peers PROVE conn[c] \in Connections
    BY <2>2 DEF TypeOK
  <2>3. ASSUME c \in Peers
        PROVE  /\ record.phase = conn[c].phase
               /\ record.socket = "none"
               /\ record.safe <=> conn[c].safe
               /\ record.sent = conn[c].sent
               /\ record.queued = conn[c].queued
               /\ record.callback = conn[c].callback
               /\ record.replyTo = conn[c].replyTo
    BY <2>2, <2>3, Zenon DEF Connections
  <2> HIDE DEF record
  <2> QED
    BY <2>1, <2>3, SMT
<1>frame. UNCHANGED << at, on, active, object, replies >>
  BY SMT DEF PeerCloses, threadVars, serverVars, countVars
<1>range. \A d \in Peers : conn[d].replyTo \in 0 .. MaxPeers
  BY ConnectionFields DEF TypeOK
<1>5. ConnectionInv'
  BY <1>fields, <1>frame, <1>range, SMT DEF ConnectionInv, Replacing
<1>6. RepliesReachTheirPeer'
  BY <1>fields, <1>frame, <1>range, SMT DEF RepliesReachTheirPeer, IsGone
<1> QED
  BY <1>1, <1>2, <1>3, <1>4, <1>5, <1>6

(* The reader sees the request to exit.                                  *)
LEMMA ReaderEndsStep ==
  ASSUME IInv, NEW c \in Peers, ReaderEnds(c)
  PROVE  IInv'
<1> USE ServerAssumption DEF IInv, Owner, Acceptor, Threads, Peers, NoPeer, Disconnects
<1>1. TypeOK'
  <2>1. conn' \in [Peers -> Connections]
    <3> DEFINE record == [conn[c] EXCEPT !.reader = "ended"]
    <3>1. ASSUME c \in Peers PROVE conn[c] \in Connections
      BY <3>1 DEF TypeOK
    <3>2. ASSUME c \in Peers PROVE record \in Connections
      BY <3>1, <3>2, Zenon DEF Connections
    <3>3. conn' = [conn EXCEPT ![c] = record]
      BY Zenon DEF ReaderEnds
    <3> HIDE DEF record
    <3> QED
      BY <3>2, <3>3, Updated, Zenon DEF TypeOK
  <2>2. at' \in [Threads -> Places] /\ after' \in [Threads -> Places]
    BY DEF TypeOK, ReaderEnds, ReaderIsFree, threadVars, serverVars, countVars
  <2> QED
    BY <2>1, <2>2 DEF TypeOK, ReaderEnds, ReaderIsFree, threadVars, serverVars, countVars
<1>2. ListenerInv'
  BY DEF ListenerInv, ReaderEnds, ReaderIsFree, threadVars, serverVars, countVars
<1>3. OwnerInv'
  BY DEF OwnerInv, ReaderEnds, ReaderIsFree, threadVars, serverVars, countVars
<1>4. AcceptorInv'
  BY DEF AcceptorInv, IsGone, ReaderEnds, ReaderIsFree, threadVars, serverVars, countVars
<1>5. ConnectionInv'
  BY DEF ConnectionInv, Replacing, ReaderEnds, ReaderIsFree, threadVars, serverVars, countVars
<1>6. RepliesReachTheirPeer'
  BY DEF RepliesReachTheirPeer, IsGone, ReaderEnds, ReaderIsFree, threadVars, serverVars,
      countVars
<1> QED
  BY <1>1, <1>2, <1>3, <1>4, <1>5, <1>6

(* A queued callback is made.                                            *)
LEMMA DispatchStep ==
  ASSUME IInv, NEW c \in Peers, Dispatch(c)
  PROVE  IInv'
<1> USE ServerAssumption DEF IInv, Owner, Acceptor, Threads, Peers, NoPeer, Disconnects
<1>1. TypeOK'
  <2>1. conn' \in [Peers -> Connections]
    <3> DEFINE record == Begun([conn[c] EXCEPT !.queued = conn[c].queued - 1])
    <3>1. ASSUME c \in Peers PROVE conn[c] \in Connections
      BY <3>1 DEF TypeOK
    <3>2. ASSUME c \in Peers PROVE conn[c].queued - 1 \in 0 .. MaxMessages
      BY <3>1, <3>2, ConnectionFields, SMT DEF TypeOK, ConnectionInv, Dispatch
    <3>3. ASSUME c \in Peers PROVE record \in Connections
      BY <3>1, <3>2, <3>3, Zenon DEF Connections, Begun
    <3>4. conn' = [conn EXCEPT ![c] = record]
      BY Zenon DEF Dispatch
    <3> HIDE DEF record
    <3> QED
      BY <3>3, <3>4, Updated, Zenon DEF TypeOK
  <2>2. at' \in [Threads -> Places] /\ after' \in [Threads -> Places]
    BY DEF TypeOK, Dispatch, Begun, threadVars, serverVars, countVars
  <2> QED
    BY <2>1, <2>2 DEF TypeOK, Dispatch, Begun, threadVars, serverVars, countVars
<1>2. ListenerInv'
  BY DEF ListenerInv, Dispatch, Begun, threadVars, serverVars, countVars
<1>3. OwnerInv'
  BY DEF OwnerInv, Dispatch, Begun, threadVars, serverVars, countVars
<1>4. AcceptorInv'
  BY DEF AcceptorInv, IsGone, Dispatch, Begun, threadVars, serverVars, countVars
<1>fields. \A d \in Peers :
        /\ conn'[d].phase = conn[d].phase
        /\ conn'[d].socket = conn[d].socket
        /\ conn'[d].safe <=> conn[d].safe
        /\ conn'[d].sent = conn[d].sent
        /\ conn'[d].queued = IF d = c THEN conn[c].queued - 1 ELSE conn[d].queued
        /\ conn'[d].callback =
             IF d = c THEN (IF conn[c].safe THEN "begun" ELSE conn[c].callback)
             ELSE conn[d].callback
        /\ conn'[d].replyTo = conn[d].replyTo
  <2> DEFINE record == Begun([conn[c] EXCEPT !.queued = conn[c].queued - 1])
  <2>1. \A d \in Peers : conn'[d] = IF d = c THEN record ELSE conn[d]
    BY Zenon DEF TypeOK, Dispatch
  <2>2. ASSUME c \in Peers PROVE conn[c] \in Connections
    BY <2>2 DEF TypeOK
  <2>3. ASSUME c \in Peers
        PROVE  /\ record.phase = conn[c].phase
               /\ record.socket = conn[c].socket
               /\ record.safe <=> conn[c].safe
               /\ record.sent = conn[c].sent
               /\ record.queued = conn[c].queued - 1
               /\ record.callback = (IF conn[c].safe THEN "begun" ELSE conn[c].callback)
               /\ record.replyTo = conn[c].replyTo
    BY <2>2, <2>3, Zenon DEF Connections, Begun
  <2> HIDE DEF record
  <2> QED
    BY <2>1, <2>3, SMT
<1>frame. UNCHANGED << at, on, active, object, replies >> /\ conn[c].callback = "none"
  BY SMT DEF Dispatch, threadVars, serverVars, countVars
<1>range. \A d \in Peers : conn[d].replyTo \in 0 .. MaxPeers
  BY ConnectionFields DEF TypeOK
<1>counts. \A d \in Peers : conn[d].sent \in 0 .. MaxMessages /\ conn[d].queued \in 0 .. MaxMessages
  BY ConnectionFields DEF TypeOK
<1>5. ConnectionInv'
  BY <1>fields, <1>frame, <1>range, <1>counts, SMT DEF ConnectionInv, Replacing
<1>6. RepliesReachTheirPeer'
  BY <1>fields, <1>frame, <1>range, SMT DEF RepliesReachTheirPeer, IsGone
<1> QED
  BY <1>1, <1>2, <1>3, <1>4, <1>5, <1>6

(* A callback picks the connection to answer on.                         *)
LEMMA PickConnectionStep ==
  ASSUME IInv, NEW c \in Peers, PickConnection(c)
  PROVE  IInv'
<1> USE ServerAssumption DEF IInv, Owner, Acceptor, Threads, Peers, NoPeer, Disconnects
<1>1. TypeOK'
  <2>1. conn' \in [Peers -> Connections]
    <3> DEFINE record == [conn[c] EXCEPT !.callback = "picked", !.replyTo = active]
    <3>1. ASSUME c \in Peers PROVE conn[c] \in Connections
      BY <3>1 DEF TypeOK
    <3>2. ASSUME c \in Peers PROVE active \in 0 .. MaxPeers
      BY <3>1, <3>2, ConnectionFields, SMT DEF TypeOK, ConnectionInv, PickConnection
    <3>3. ASSUME c \in Peers PROVE record \in Connections
      BY <3>1, <3>2, <3>3, Zenon DEF Connections
    <3>4. conn' = [conn EXCEPT ![c] = record]
      BY Zenon DEF PickConnection
    <3> HIDE DEF record
    <3> QED
      BY <3>3, <3>4, Updated, Zenon DEF TypeOK
  <2>2. at' \in [Threads -> Places] /\ after' \in [Threads -> Places]
    BY DEF TypeOK, PickConnection, threadVars, serverVars, countVars
  <2> QED
    BY <2>1, <2>2 DEF TypeOK, PickConnection, threadVars, serverVars, countVars
<1>2. ListenerInv'
  BY DEF ListenerInv, PickConnection, threadVars, serverVars, countVars
<1>3. OwnerInv'
  BY DEF OwnerInv, PickConnection, threadVars, serverVars, countVars
<1>4. AcceptorInv'
  BY DEF TypeOK, AcceptorInv, IsGone, PickConnection, threadVars, serverVars, countVars
<1>fields. \A d \in Peers :
        /\ conn'[d].phase = conn[d].phase
        /\ conn'[d].socket = conn[d].socket
        /\ conn'[d].safe <=> conn[d].safe
        /\ conn'[d].sent = conn[d].sent
        /\ conn'[d].queued = conn[d].queued
        /\ conn'[d].callback = IF d = c THEN "picked" ELSE conn[d].callback
        /\ conn'[d].replyTo = IF d = c THEN active ELSE conn[d].replyTo
  <2> DEFINE record == [conn[c] EXCEPT !.callback = "picked", !.replyTo = active]
  <2>1. \A d \in Peers : conn'[d] = IF d = c THEN record ELSE conn[d]
    BY Zenon DEF TypeOK, PickConnection
  <2>2. ASSUME c \in Peers PROVE conn[c] \in Connections
    BY <2>2 DEF TypeOK
  <2>3. ASSUME c \in Peers
        PROVE  /\ record.phase = conn[c].phase
               /\ record.socket = conn[c].socket
               /\ record.safe <=> conn[c].safe
               /\ record.sent = conn[c].sent
               /\ record.queued = conn[c].queued
               /\ record.callback = "picked"
               /\ record.replyTo = active
    BY <2>2, <2>3, Zenon DEF Connections
  <2> HIDE DEF record
  <2> QED
    BY <2>1, <2>3, SMT
<1>frame. /\ UNCHANGED << at, on, active, object, replies >>
      /\ conn[c].callback = "begun" /\ active \in 0 .. MaxPeers
  BY SMT DEF TypeOK, PickConnection, threadVars, serverVars, countVars
<1>range. \A d \in Peers : conn[d].replyTo \in 0 .. MaxPeers
  BY ConnectionFields DEF TypeOK
<1>5. ConnectionInv'
  BY <1>fields, <1>frame, <1>range, SMT DEF ConnectionInv, Replacing, AcceptorInv
<1>6. RepliesReachTheirPeer'
  BY <1>fields, <1>frame, <1>range, SMT DEF RepliesReachTheirPeer, IsGone, AcceptorInv
<1> QED
  BY <1>1, <1>2, <1>3, <1>4, <1>5, <1>6

(* A callback answers, if the connection that it picked is connected: only its own can be. *)
LEMMA AnswerStep ==
  ASSUME IInv, NEW c \in Peers, Answer(c)
  PROVE  IInv'
<1> USE ServerAssumption DEF IInv, Owner, Acceptor, Threads, Peers, NoPeer, Disconnects
<1>1. TypeOK'
  <2>1. conn' \in [Peers -> Connections]
    <3> DEFINE record == [conn[c] EXCEPT !.callback = "none", !.replyTo = NoPeer]
    <3>1. ASSUME c \in Peers PROVE conn[c] \in Connections
      BY <3>1 DEF TypeOK
    <3>2. ASSUME c \in Peers PROVE 0 \in 0 .. MaxPeers
      BY <3>1, <3>2, ConnectionFields, SMT DEF TypeOK, ConnectionInv, Answer
    <3>3. ASSUME c \in Peers PROVE record \in Connections
      BY <3>1, <3>2, <3>3, Zenon DEF Connections
    <3>4. conn' = [conn EXCEPT ![c] = record]
      BY Zenon DEF Answer
    <3> HIDE DEF record
    <3> QED
      BY <3>3, <3>4, Updated, Zenon DEF TypeOK
  <2>2. at' \in [Threads -> Places] /\ after' \in [Threads -> Places]
    BY DEF TypeOK, Answer, IsConnected, threadVars, serverVars
  <2> QED
    BY <2>1, <2>2 DEF TypeOK, Answer, IsConnected, threadVars, serverVars
<1>2. ListenerInv'
  BY DEF ListenerInv, Answer, IsConnected, threadVars, serverVars
<1>3. OwnerInv'
  BY DEF OwnerInv, Answer, IsConnected, threadVars, serverVars
<1>4. AcceptorInv'
  BY DEF TypeOK, AcceptorInv, IsGone, Answer, IsConnected, threadVars, serverVars
<1>fields. \A d \in Peers :
        /\ conn'[d].phase = conn[d].phase
        /\ conn'[d].socket = conn[d].socket
        /\ conn'[d].safe <=> conn[d].safe
        /\ conn'[d].sent = conn[d].sent
        /\ conn'[d].queued = conn[d].queued
        /\ conn'[d].callback = IF d = c THEN "none" ELSE conn[d].callback
        /\ conn'[d].replyTo = IF d = c THEN NoPeer ELSE conn[d].replyTo
  <2> DEFINE record == [conn[c] EXCEPT !.callback = "none", !.replyTo = NoPeer]
  <2>1. \A d \in Peers : conn'[d] = IF d = c THEN record ELSE conn[d]
    BY Zenon DEF TypeOK, Answer
  <2>2. ASSUME c \in Peers PROVE conn[c] \in Connections
    BY <2>2 DEF TypeOK
  <2>3. ASSUME c \in Peers
        PROVE  /\ record.phase = conn[c].phase
               /\ record.socket = conn[c].socket
               /\ record.safe <=> conn[c].safe
               /\ record.sent = conn[c].sent
               /\ record.queued = conn[c].queued
               /\ record.callback = "none"
               /\ record.replyTo = NoPeer
    BY <2>2, <2>3, Zenon DEF Connections
  <2> HIDE DEF record
  <2> QED
    BY <2>1, <2>3, SMT
<1>frame. UNCHANGED << at, on, active, object >> /\ conn[c].callback = "picked"
  BY SMT DEF Answer, threadVars, serverVars
<1>range. \A d \in Peers : conn[d].replyTo \in 0 .. MaxPeers
  BY ConnectionFields DEF TypeOK
<1>5. ConnectionInv'
  BY <1>fields, <1>frame, <1>range, SMT DEF ConnectionInv, Replacing
<1>6. RepliesReachTheirPeer'
  <2>1. ASSUME conn[c].replyTo \in Peers, IsConnected(conn[c].replyTo)
        PROVE  conn[c].replyTo = c
    BY <2>1, SMT DEF ConnectionInv, IsConnected
  <2>2. \A reply \in replies' : reply[1] = reply[2]
    <3>1. CASE conn[c].replyTo \in Peers /\ IsConnected(conn[c].replyTo)
      <4>1. replies' = replies \cup {<< c, c >>}
        BY <2>1, <3>1, Zenon DEF Answer
      <4> QED
        BY <4>1, SMT DEF RepliesReachTheirPeer
    <3>2. CASE ~ (conn[c].replyTo \in Peers /\ IsConnected(conn[c].replyTo))
      BY <3>2, Zenon DEF Answer, RepliesReachTheirPeer
    <3> QED
      BY <3>1, <3>2
  <2>3. object' = "whole" =>
          \A d \in Peers : conn'[d].replyTo # NoPeer => ~ IsGone(conn[d].replyTo)'
    <3> SUFFICES ASSUME object' = "whole", NEW d \in Peers, conn'[d].replyTo # NoPeer
                 PROVE  conn'[conn'[d].replyTo].phase # "gone"
      BY Zenon DEF IsGone
    <3>3. conn'[d].replyTo = conn[d].replyTo /\ conn[d].replyTo \in Peers
      BY <1>range, <1>fields, SMT
    <3>4. conn[conn[d].replyTo].phase # "gone"
      BY <3>3, SMT DEF RepliesReachTheirPeer, Answer, IsGone, serverVars
    <3> QED
      BY <1>fields, <3>3, <3>4
  <2> QED
    BY <2>2, <2>3 DEF RepliesReachTheirPeer
<1> QED
  BY <1>1, <1>2, <1>3, <1>4, <1>5, <1>6

-----------------------------------------------------------------------------
(* In the first state nobody is connected and nothing is under way.        *)
LEMMA IInvInit == Init => IInv
<1> SUFFICES ASSUME Init PROVE IInv
  OBVIOUS
<1> USE ServerAssumption DEF Owner, Acceptor, Threads, Peers, NoPeer, Disconnects
<1>1. TypeOK
  <2>1. 0 \in 0 .. MaxMessages /\ 0 \in 0 .. MaxPeers /\ 0 \in 0 .. MaxCalls
    BY SMT
  <2>2. Unborn \in Connections
    BY <2>1, Zenon DEF Unborn, Connections
  <2>3. conn \in [Peers -> Connections]
    BY <2>2, Zenon DEF Init
  <2>4. at \in [Threads -> Places] /\ after \in [Threads -> Places]
    BY SMT DEF Init, Places
  <2>5. on \in [Threads -> 0 .. MaxPeers]
    BY <2>1, Zenon DEF Init
  <2>6. ~ (backlog > 0)
    BY SMT DEF Init
  <2> QED
    BY <2>1, <2>3, <2>4, <2>5, <2>6, Zenon DEF Init, TypeOK
<1>2. \A c \in Peers : conn[c] = Unborn
  BY DEF Init
<1>3. ListenerInv /\ OwnerInv /\ AcceptorInv
  BY DEF Init, ListenerInv, OwnerInv, AcceptorInv
<1>4. ConnectionInv
  BY <1>2, SMT DEF Unborn, ConnectionInv
<1>5. RepliesReachTheirPeer
  BY <1>2, SMT DEF Init, Unborn, RepliesReachTheirPeer
<1> QED
  BY <1>1, <1>3, <1>4, <1>5 DEF IInv

(* A step of disconnect(), on either thread.                               *)
LEMMA DisconnectStepKeeps ==
  ASSUME IInv, NEW t \in Threads, DisconnectStep(t)
  PROVE  IInv'
<1>1. CASE UseGone(t)
  BY <1>1, FaultStep DEF UseGone
<1> QED
  BY <1>1, CloseSocketStep, SignalReaderStep, JoinReaderStep, SetUnsafeStep DEF DisconnectStep

(* A step of the owner's thread.                                           *)
LEMMA OwnerStepKeeps == IInv /\ OwnerStep => IInv'
<1> SUFFICES ASSUME IInv, OwnerStep PROVE IInv'
  OBVIOUS
<1>1. CASE DisconnectStep(Owner)
  BY <1>1, DisconnectStepKeeps DEF Threads
<1>2. CASE StopListening("start", "joinForStart") \/ StopListening("baseStop", "joinForEnd")
  BY <1>2, StopListeningStep
<1>3. CASE JoinAcceptor("joinForStart", "listen") \/ JoinAcceptor("joinForEnd", "destroyed")
  BY <1>3, JoinAcceptorStep
<1>4. CASE \/ StopActive("stop", "stopped", "idle")
          \/ StopActive("destroy", "lastStopped", "members")
  BY <1>4, StopActiveStep
<1> QED
  BY <1>1, <1>2, <1>3, <1>4, ListenStep, PickActiveStep, UseActiveStep, DestroyMembersStep, FreeStep,
     DestroyedStep DEF OwnerStep

(* A step of the accept thread.                                            *)
LEMMA AcceptorStepKeeps == IInv /\ AcceptorStep => IInv'
<1> SUFFICES ASSUME IInv, AcceptorStep PROVE IInv'
  OBVIOUS
<1>1. CASE DisconnectStep(Acceptor)
  BY <1>1, DisconnectStepKeeps DEF Threads
<1>2. CASE AcceptAfterDestruction
  BY <1>2, FaultStep DEF AcceptAfterDestruction
<1> QED
  BY <1>1, <1>2, CheckExitStep, WaitTimesOutStep, AcceptStep, CreateStep, ReleaseStep,
     AssignSocketStep, InitialiseStep DEF AcceptorStep

(* The inductive invariant is kept by every step.                          *)
LEMMA IInvStep == IInv /\ [Next]_vars => IInv'
<1> SUFFICES ASSUME IInv, [Next]_vars PROVE IInv'
  OBVIOUS
<1>1. CASE Start \/ Stop \/ Send \/ Destroy
  BY <1>1, CallStep DEF Start, Stop, Send, Destroy
<1>2. ASSUME NEW c \in Peers, Receive(c) \/ PeerCloses(c) \/ Runs(c)
      PROVE  IInv'
  BY <1>2, ReceiveStep, PeerClosesStep, ReaderEndsStep, DispatchStep, PickConnectionStep,
     AnswerStep DEF Runs
<1>3. CASE UNCHANGED vars
  BY <1>3 DEF vars, IInv, TypeOK, ListenerInv, OwnerInv, AcceptorInv, ConnectionInv,
              RepliesReachTheirPeer, Replacing, IsGone
<1> QED
  BY <1>1, <1>2, <1>3, OwnerStepKeeps, AcceptorStepKeeps, DialStep DEF Next

(* Type correctness for any numbers of peers, messages and calls.          *)
THEOREM TypeCorrect == Spec => []TypeOK
<1>1. IInv => TypeOK
  BY DEF IInv
<1> QED
  BY <1>1, IInvInit, IInvStep, PTL DEF Spec

(* An answer reaches the peer that is answered or nobody, and no callback  *)
(* has picked a connection that is destroyed as long as the server is not: *)
(* whatever the accept thread replaces (NanoOcp1.cpp:215-222), and whenever*)
(* callbacks call sendData() (:207-213).                                   *)
THEOREM AnswersGoBack == Spec => []RepliesReachTheirPeer
<1>1. IInv => RepliesReachTheirPeer
  BY DEF IInv
<1> QED
  BY <1>1, IInvInit, IInvStep, PTL DEF Spec
=============================================================================
