------------------------- MODULE Ocp1ControllerProofs -------------------------
(***************************************************************************)
(* What the controller guarantees for any number of tracked objects, of    *)
(* calls, losses and ticks of its timer, and for whatever a device answers:*)
(* first of its threads, then of a session that is not interrupted.        *)
(***************************************************************************)
EXTENDS Ocp1Controller, TLAPS, WellFoundedInduction

Events == {Made, Lost} \cup {Response(h, s) : h \in Handles, s \in {"ok", "odd", "error"}}

AppPlaces == {"idle", "clientStop", "clientUnsafe", "stop", "join", "clear", "lost",
              "setConnecting", "lostDone", "clearAll", "addSet"}
CbPlaces == {"idle", "askGuid", "subscribe", "sendSub", "query", "sendGet", "queried", "start",
             "subscribed", "valuesPending", "gotValue", "setGetValues", "setConnected",
             "setSubscribing", "stop", "join", "clear", "lost", "setConnecting", "lostDone"}
TmPlaces == {"none", "wait", "return", "stop", "retry", "retryCheck", "resend", "addGet",
             "setConnected", "setSubscribing"}

\* The thread is at where, or goes there once it has stopped the timer.
Towards(t, where) == pc[t] = where \/ (pc[t] \in {"stop", "join"} /\ next[t] = where)

TimerGone == mStop /\ pc[Tm] = "none"

\* The client reports nothing any more.
Off == link = "none" /\ ~ safe /\ events = <<>> /\ wire = {} /\ pc[Cb] = "idle"

(* Types, where each thread can be, and what it is about to record.        *)
DataInv ==
  /\ kind \in Kinds /\ state \in States
  /\ client \in BOOLEAN /\ safe \in BOOLEAN /\ mStop \in BOOLEAN /\ inGuid \in BOOLEAN
  /\ link \in {"none", "dialing", "up", "lost"}
  /\ events \in Seq(Events)
  /\ wire \subseteq [h : Handles, ono : Onos]
  /\ subs \subseteq Handles /\ gets \subseteq Handles \X Onos /\ sets \subseteq Handles
  /\ todo \in [Threads -> SUBSET Objects]
  /\ asked \subseteq Objects

PlaceInv ==
  /\ pc \in [Threads -> Places] /\ next \in [Threads -> Places]
  /\ pc[App] \in AppPlaces /\ pc[Cb] \in CbPlaces /\ pc[Tm] \in TmPlaces
  /\ pc[App] \in {"stop", "join"} => next[App] \in {"clear", "clearAll"}
  /\ pc[Cb] \in {"stop", "join"} =>
       next[Cb] \in {"queried", "setConnected", "setSubscribing", "clear"}
  /\ pc[Tm] = "stop" => next[Tm] = "retryCheck"

SentInv ==
  /\ sent \in [Threads -> [h : Handles \cup {0}, ono : Onos]]
  /\ pc[App] = "addSet" => sent[App].h \in Handles
  /\ pc[Tm] = "addGet" => sent[Tm].h \in Handles /\ sent[Tm].ono \in Objects

(* The timer has a worker unless it is stopped; who waits for the worker   *)
(* has stopped it and keeps everyone else from starting it.                *)
TimerInv ==
  /\ pc[Tm] = "none" => mStop
  /\ lock \in {App, Cb, "none"}
  /\ \A t \in {App, Cb} : pc[t] = "join" <=> lock = t
  /\ lock # "none" => mStop

(* The calls of the application: in disconnect() the client is silent when *)
(* it reports its loss itself, the timer is gone when that is handled, and *)
(* only then does the client go.                                           *)
CallInv ==
  /\ pc[App] \in {"lost", "setConnecting", "lostDone"} \/ Towards(App, "clear") => Off /\ client
  /\ pc[App] \in {"clear", "lost", "setConnecting", "lostDone", "clearAll"} => TimerGone
  /\ pc[App] \in {"clientStop", "clientUnsafe", "addSet"} => client
  /\ Towards(App, "clearAll") => ~ client
  /\ pc[App] = "clientUnsafe" => link = "none"
  /\ ~ client => Off /\ TimerGone
  /\ ~ client /\ pc[App] = "idle" => subs = {} /\ gets = {} /\ sets = {}
  /\ client /\ pc[App] \in {"idle", "addSet"} => state # "Disconnected"

(* What is queued: the connection's beginning first, its end last.         *)
QueueInv ==
  /\ wire # {} => link = "up"
  /\ \A i \in 1 .. Len(events) : events[i] = Made => i = 1
  /\ \A i \in 1 .. Len(events) : events[i] = Lost => i = Len(events) /\ link # "up"
  /\ pc[Cb] \in {"lost", "setConnecting", "lostDone"} \/ Towards(Cb, "clear") =>
       events = <<>> /\ link # "up"
  /\ link = "dialing" => events = <<>>

(* A session starts afresh, and is not taken for complete before its       *)
(* subscriptions are sent; nothing else goes on while the GUID is awaited. *)
Fresher ==
  /\ pc[Cb] = "idle" /\ TimerGone /\ state # "Connected" /\ subs = {} /\ gets = {}

StartInv ==
  /\ link = "dialing" => Fresher
  /\ \A i \in 1 .. Len(events) : events[i] = Made => Fresher
  /\ pc[Cb] = "askGuid" => subs = {} /\ gets = {}
  /\ pc[Cb] \in {"askGuid", "subscribe", "sendSub"} => state # "Connected"
  /\ pc[Cb] \in {"askGuid", "subscribe", "sendSub", "query", "sendGet", "start"} => TimerGone
  /\ \A p \in gets : p[2] = Guid =>
       /\ gets = {p} /\ subs = {} /\ TimerGone /\ state # "Connected"
       /\ pc[Cb] = "idle" \/ Towards(Cb, "clear")

LossInv ==
  /\ pc[Cb] \in {"clear", "lost", "setConnecting", "lostDone"} => TimerGone
  /\ pc[Cb] \in {"lost", "setConnecting", "lostDone"} => subs = {} /\ gets = {}
  /\ pc[Cb] = "lostDone" => state # "Connected"

(* Whoever is about to report Connected has seen no subscription pending.  *)
ConnectedInv ==
  /\ state = "Connected" => subs = {}
  /\ pc[Cb] \in {"subscribed", "valuesPending"} \/ Towards(Cb, "setConnected") => subs = {}
  /\ pc[Tm] = "setConnected" => subs = {}

(* The inductive invariant.                                                *)
IInv ==
  /\ DataInv /\ PlaceInv /\ SentInv /\ TimerInv /\ CallInv /\ QueueInv /\ StartInv
  /\ LossInv /\ ConnectedInv
-----------------------------------------------------------------------------
(* Facts about the values.                                                *)

(* A set of numbers that is not empty has a smallest member.              *)
LEMMA MinIn ==
  ASSUME NEW S \in SUBSET Nat, S # {}
  PROVE  Min(S) \in S
<1> DEFINE R == OpToRel(<, Nat)
<1>1. PICK x \in S : \A y \in S : <<y, x>> \notin R
  BY NatLessThanWellFounded, WFMin
<1>2. ASSUME NEW y \in S, y < x
      PROVE  FALSE
  <2>1. <<y, x>> \in R
    BY <1>2, Zenon DEF OpToRel
  <2> QED BY <1>1, <2>1
<1>3. \A y \in S : x =< y
  BY <1>2
<1> QED BY <1>3 DEF Min

(* A request gets one of the handles.                                     *)
LEMMA NewHandleIn ==
  ASSUME Fresh # {}
  PROVE  NewHandle \in Handles
<1>1. Fresh \in SUBSET Nat /\ Fresh \subseteq Handles
  BY SizeAssumption DEF Fresh, Handles
<1> QED BY <1>1, MinIn DEF NewHandle

(* The callbacks differ by what they report.                              *)
LEMMA EventsDiffer ==
  /\ Made # Lost /\ Made \in Events /\ Lost \in Events
  /\ Made.e # "response" /\ Lost.e # "response"
  /\ \A h \in Handles, s \in {"ok", "odd", "error"} :
       /\ Response(h, s) \in Events
       /\ Response(h, s) # Made /\ Response(h, s) # Lost
<1>1. Made.e = "made" /\ Lost.e = "lost" /\ \A h, s : Response(h, s).e = "response"
  BY DEF Made, Lost, Response
<1>2. ASSUME NEW h \in Handles, NEW s \in {"ok", "odd", "error"}
      PROVE  Response(h, s) \in Events
  BY DEF Events
<1>3. Made \in Events /\ Lost \in Events
  BY SMT DEF Events
<1> QED BY <1>1, <1>2, <1>3

(* What becomes of the queue when a callback is taken.                    *)
LEMMA Taken ==
  ASSUME NEW s \in Seq(Events), s # <<>>
  PROVE  /\ Head(s) = s[1] /\ 1 \in 1 .. Len(s)
         /\ Tail(s) \in Seq(Events) /\ Len(Tail(s)) = Len(s) - 1
         /\ \A i \in 1 .. Len(Tail(s)) : Tail(s)[i] = s[i + 1] /\ i + 1 \in 1 .. Len(s)
  OBVIOUS

(* What becomes of it when one is added.                                  *)
LEMMA Added ==
  ASSUME NEW s \in Seq(Events), NEW e \in Events
  PROVE  /\ Append(s, e) \in Seq(Events) /\ Len(Append(s, e)) = Len(s) + 1
         /\ \A i \in 1 .. Len(Append(s, e)) :
              Append(s, e)[i] = IF i = Len(s) + 1 THEN e ELSE s[i]
  OBVIOUS

-----------------------------------------------------------------------------
(* The steps, each of which keeps the inductive invariant: one lemma for   *)
(* each action, and in it one step for each part of the invariant.         *)

(* stopTimer() by any thread, the timer's worker among them.               *)
LEMMA StopTimerStep ==
  ASSUME IInv, NEW t \in Threads, StopTimer(t)
  PROVE  IInv'
<1> USE DEF IInv, StopTimer, conn, pending, locals, App, Cb, Tm, Threads
<1>1. DataInv'
  BY DEF DataInv, States, Goto
<1>2. PlaceInv'
  BY DEF PlaceInv, Places, AppPlaces, CbPlaces, TmPlaces, Goto
<1>3. SentInv'
  BY DEF SentInv, PlaceInv, Goto
<1>4. TimerInv'
  BY DEF TimerInv, PlaceInv, Goto
<1>5. CallInv'
  BY DEF CallInv, PlaceInv, Towards, TimerGone, Off, Goto
<1>6. QueueInv'
  BY DEF QueueInv, PlaceInv, Towards, Goto
<1>7. StartInv'
  BY DEF StartInv, PlaceInv, Towards, TimerGone, Fresher, Goto
<1>8. LossInv'
  BY DEF LossInv, PlaceInv, TimerGone, Goto
<1>9. ConnectedInv'
  BY DEF ConnectedInv, PlaceInv, Towards, Goto
<1> QED BY <1>1, <1>2, <1>3, <1>4, <1>5, <1>6, <1>7, <1>8, <1>9

(* The worker that stopTimer() waits for is gone.                          *)
LEMMA JoinTimerStep ==
  ASSUME IInv, NEW t \in {App, Cb}, JoinTimer(t)
  PROVE  IInv'
<1> USE DEF IInv, JoinTimer, conn, pending, locals, App, Cb, Tm, Threads
<1>1. DataInv'
  BY DEF DataInv, States, Goto
<1>2. PlaceInv'
  BY DEF PlaceInv, Places, AppPlaces, CbPlaces, TmPlaces, Goto
<1>3. SentInv'
  BY DEF SentInv, PlaceInv, Goto
<1>4. TimerInv'
  BY DEF TimerInv, PlaceInv, Goto
<1>5. CallInv'
  BY DEF CallInv, PlaceInv, TimerInv, Towards, TimerGone, Off, Goto
<1>6. QueueInv'
  BY DEF QueueInv, PlaceInv, Towards, Goto
<1>7. StartInv'
  BY DEF StartInv, PlaceInv, Towards, TimerGone, Fresher, Goto
<1>8. LossInv'
  BY DEF LossInv, PlaceInv, TimerInv, TimerGone, Goto
<1>9. ConnectedInv'
  BY DEF ConnectedInv, PlaceInv, Towards, Goto
<1> QED BY <1>1, <1>2, <1>3, <1>4, <1>5, <1>6, <1>7, <1>8, <1>9

(* The timer is started, which nobody has started before.                  *)
LEMMA StartTimerStep ==
  ASSUME IInv, StartTimer
  PROVE  IInv'
<1> USE DEF IInv, StartTimer, conn, pending, locals, App, Cb, Tm, Threads
<1>1. DataInv'
  BY DEF DataInv, States
<1>2. PlaceInv'
  BY DEF PlaceInv, Places, AppPlaces, CbPlaces, TmPlaces
<1>3. SentInv'
  BY DEF SentInv, PlaceInv
<1>4. TimerInv'
  BY DEF TimerInv, PlaceInv
<1>5. CallInv'
  BY DEF CallInv, PlaceInv, Towards, Off
<1>6. QueueInv'
  BY DEF QueueInv, PlaceInv, Towards
<1>7. StartInv'
  BY DEF StartInv, PlaceInv, Towards, Fresher
<1>8. LossInv'
  BY DEF LossInv, PlaceInv
<1>9. ConnectedInv'
  BY DEF ConnectedInv, PlaceInv, Towards
<1> QED BY <1>1, <1>2, <1>3, <1>4, <1>5, <1>6, <1>7, <1>8, <1>9

(* The timer's worker begins a callback.                                   *)
LEMMA TimerFiresStep ==
  ASSUME IInv, TimerFires
  PROVE  IInv'
<1> USE DEF IInv, TimerFires, conn, pending, timer, locals, App, Cb, Tm, Threads
<1>1. DataInv'
  BY DEF DataInv, States, Goto, Spend
<1>2. PlaceInv'
  BY DEF PlaceInv, Places, AppPlaces, CbPlaces, TmPlaces, Goto, Spend
<1>3. SentInv'
  BY DEF SentInv, Goto, Spend
<1>4. TimerInv'
  BY DEF TimerInv, Goto, Spend
<1>5. CallInv'
  BY DEF CallInv, Towards, TimerGone, Off, Goto, Spend
<1>6. QueueInv'
  BY DEF QueueInv, Towards, Goto, Spend
<1>7. StartInv'
  BY DEF StartInv, Towards, TimerGone, Fresher, Goto, Spend
<1>8. LossInv'
  BY DEF LossInv, TimerGone, Goto, Spend
<1>9. ConnectedInv'
  BY DEF ConnectedInv, Towards, Goto, Spend
<1> QED BY <1>1, <1>2, <1>3, <1>4, <1>5, <1>6, <1>7, <1>8, <1>9

(* The timer's worker leaves its loop.                                     *)
LEMMA TimerLeavesStep ==
  ASSUME IInv, TimerLeaves
  PROVE  IInv'
<1> USE DEF IInv, TimerLeaves, conn, pending, timer, locals, App, Cb, Tm, Threads
<1>1. DataInv'
  BY DEF DataInv, States, Goto
<1>2. PlaceInv'
  BY DEF PlaceInv, Places, AppPlaces, CbPlaces, TmPlaces, Goto
<1>3. SentInv'
  BY DEF SentInv, Goto
<1>4. TimerInv'
  BY DEF TimerInv, Goto
<1>5. CallInv'
  BY DEF CallInv, Towards, TimerGone, Off, Goto
<1>6. QueueInv'
  BY DEF QueueInv, Towards, Goto
<1>7. StartInv'
  BY DEF StartInv, Towards, TimerGone, Fresher, Goto
<1>8. LossInv'
  BY DEF LossInv, TimerGone, Goto
<1>9. ConnectedInv'
  BY DEF ConnectedInv, Towards, Goto
<1> QED BY <1>1, <1>2, <1>3, <1>4, <1>5, <1>6, <1>7, <1>8, <1>9

(* The timer's worker waits again.                                         *)
LEMMA TimerWaitsStep ==
  ASSUME IInv, TimerWaits
  PROVE  IInv'
<1> USE DEF IInv, TimerWaits, conn, pending, timer, locals, App, Cb, Tm, Threads
<1>1. DataInv'
  BY DEF DataInv, States, Goto
<1>2. PlaceInv'
  BY DEF PlaceInv, Places, AppPlaces, CbPlaces, TmPlaces, Goto
<1>3. SentInv'
  BY DEF SentInv, Goto
<1>4. TimerInv'
  BY DEF TimerInv, Goto
<1>5. CallInv'
  BY DEF CallInv, Towards, TimerGone, Off, Goto
<1>6. QueueInv'
  BY DEF QueueInv, Towards, Goto
<1>7. StartInv'
  BY DEF StartInv, Towards, TimerGone, Fresher, Goto
<1>8. LossInv'
  BY DEF LossInv, TimerGone, Goto
<1>9. ConnectedInv'
  BY DEF ConnectedInv, Towards, Goto
<1> QED BY <1>1, <1>2, <1>3, <1>4, <1>5, <1>6, <1>7, <1>8, <1>9

(* The connection is made, after all that was left of the last one is gone. *)
LEMMA LinkUpStep ==
  ASSUME IInv, LinkUp
  PROVE  IInv'
<1> USE DEF IInv, LinkUp, pending, timer, locals, App, Cb, Tm, Threads
<1>1. DataInv'
  BY EventsDiffer, Added DEF DataInv, States
<1>2. PlaceInv'
  BY DEF PlaceInv, Places, AppPlaces, CbPlaces, TmPlaces
<1>3. SentInv'
  BY DEF SentInv
<1>4. TimerInv'
  BY DEF TimerInv
<1>5. CallInv'
  BY DEF CallInv, Towards, TimerGone, Off
<1>6. QueueInv'
  BY EventsDiffer, Added DEF QueueInv, StartInv, Towards, Fresher
<1>7. StartInv'
  BY EventsDiffer, Added DEF StartInv, Towards, TimerGone, Fresher
<1>8. LossInv'
  BY DEF LossInv, TimerGone
<1>9. ConnectedInv'
  BY DEF ConnectedInv, Towards
<1> QED BY <1>1, <1>2, <1>3, <1>4, <1>5, <1>6, <1>7, <1>8, <1>9

(* The connection is lost.                                                 *)
LEMMA LinkLostStep ==
  ASSUME IInv, LinkLost
  PROVE  IInv'
<1> USE DEF IInv, LinkLost, pending, timer, locals, App, Cb, Tm, Threads
<1>1. DataInv'
  BY EventsDiffer, Added DEF DataInv, States, Spend
<1>2. PlaceInv'
  BY DEF PlaceInv, Places, AppPlaces, CbPlaces, TmPlaces, Spend
<1>3. SentInv'
  BY DEF SentInv, Spend
<1>4. TimerInv'
  BY DEF TimerInv, Spend
<1>5. CallInv'
  BY DEF CallInv, Towards, TimerGone, Off, Spend
<1>6. QueueInv'
  BY EventsDiffer, Added DEF QueueInv, Towards, Spend
<1>7. StartInv'
  BY EventsDiffer, Added DEF StartInv, Towards, TimerGone, Fresher, Spend
<1>8. LossInv'
  BY DEF LossInv, TimerGone, Spend
<1>9. ConnectedInv'
  BY DEF ConnectedInv, Towards, Spend
<1> QED BY <1>1, <1>2, <1>3, <1>4, <1>5, <1>6, <1>7, <1>8, <1>9

(* The device answers a request.                                           *)
LEMMA DeviceAnswersStep ==
  ASSUME IInv, NEW r \in wire, DeviceAnswers(r)
  PROVE  IInv'
<1> USE DEF IInv, DeviceAnswers, pending, timer, locals, App, Cb, Tm, Threads
<1>1. DataInv'
  <2>1. PICK s \in {"ok", "odd", "error"} : events' = Append(events, Response(r.h, s))
    BY AnswerAssumption DEF DeviceAnswers
  <2>2. r.h \in Handles
    BY DEF DataInv
  <2> QED BY <2>1, <2>2, EventsDiffer, Added DEF DataInv, States
<1>2. PlaceInv'
  BY DEF PlaceInv, Places, AppPlaces, CbPlaces, TmPlaces
<1>3. SentInv'
  BY DEF SentInv
<1>4. TimerInv'
  BY DEF TimerInv
<1>5. CallInv'
  BY DEF CallInv, Towards, TimerGone, Off
<1>6. QueueInv'
  <2>1. PICK s \in {"ok", "odd", "error"} : events' = Append(events, Response(r.h, s))
    BY AnswerAssumption DEF DeviceAnswers
  <2>2. r.h \in Handles
    BY DEF DataInv
  <2>3. link = "up" /\ events \in Seq(Events)
    BY DEF DataInv, QueueInv
  <2>4. \A i \in 1 .. Len(events') : events'[i] = Made => i = 1
    BY <2>1, <2>2, <2>3, EventsDiffer, Added DEF QueueInv
  <2>5. \A i \in 1 .. Len(events') : events'[i] # Lost
    BY <2>1, <2>2, <2>3, EventsDiffer, Added DEF QueueInv
  <2> QED BY <2>3, <2>4, <2>5 DEF DataInv, QueueInv, Towards
<1>7. StartInv'
  <2>1. PICK s \in {"ok", "odd", "error"} : events' = Append(events, Response(r.h, s))
    BY AnswerAssumption DEF DeviceAnswers
  <2>2. r.h \in Handles
    BY DEF DataInv
  <2>3. \A i \in 1 .. Len(events') : events'[i] = Made => events[i] = Made /\ i \in 1 .. Len(events)
    BY <2>1, <2>2, EventsDiffer, Added DEF DataInv
  <2> QED BY <2>3 DEF DataInv, StartInv, Fresher, Towards, TimerGone
<1>8. LossInv'
  BY DEF LossInv, TimerGone
<1>9. ConnectedInv'
  BY DEF ConnectedInv, Towards
<1> QED BY <1>1, <1>2, <1>3, <1>4, <1>5, <1>6, <1>7, <1>8, <1>9

(* The controller hears of the connection.                                 *)
LEMMA EstablishedStep ==
  ASSUME IInv, Established
  PROVE  IInv'
<1> USE DEF IInv, Established, pending, timer, App, Cb, Tm, Threads
<1>1. DataInv'
  BY EventsDiffer, Taken DEF DataInv, States, Goto
<1>2. PlaceInv'
  BY DEF PlaceInv, Places, AppPlaces, CbPlaces, TmPlaces, Goto
<1>3. SentInv'
  BY DEF SentInv, Goto
<1>4. TimerInv'
  BY DEF TimerInv, Goto
<1>5. CallInv'
  BY DEF CallInv, Towards, TimerGone, Off, Goto
<1>6. QueueInv'
  BY EventsDiffer, Taken DEF QueueInv, Towards, Goto
<1>7. StartInv'
  BY EventsDiffer, Taken DEF QueueInv, StartInv, TimerGone, Fresher, Goto
<1>8. LossInv'
  BY DEF LossInv, TimerGone, Goto
<1>9. ConnectedInv'
  BY DEF ConnectedInv, Towards, Goto
<1> QED BY <1>1, <1>2, <1>3, <1>4, <1>5, <1>6, <1>7, <1>8, <1>9

(* The GUID is asked for, before anything else.                            *)
LEMMA AskGuidStep ==
  ASSUME IInv, AskGuid
  PROVE  IInv'
<1> USE DEF IInv, AskGuid, timer, locals, App, Cb, Tm, Threads
<1>1. DataInv'
  BY NewHandleIn DEF DataInv, States, Onos, Objects, Goto, Send, Guid
<1>2. PlaceInv'
  BY DEF PlaceInv, Places, AppPlaces, CbPlaces, TmPlaces, Goto
<1>3. SentInv'
  BY NewHandleIn DEF SentInv, Onos, Objects, Goto, Send
<1>4. TimerInv'
  BY DEF TimerInv, Goto
<1>5. CallInv'
  BY DEF CallInv, Towards, TimerGone, Off, Goto, Send
<1>6. QueueInv'
  BY DEF QueueInv, Towards, Goto, Send
<1>7. StartInv'
  BY DEF StartInv, PlaceInv, TimerGone, Fresher, Goto
<1>8. LossInv'
  BY DEF LossInv, TimerGone, Goto
<1>9. ConnectedInv'
  BY DEF ConnectedInv, Towards, Goto
<1> QED BY <1>1, <1>2, <1>3, <1>4, <1>5, <1>6, <1>7, <1>8, <1>9

(* The subscriptions begin.                                                *)
LEMMA SubscribeStep ==
  ASSUME IInv, Subscribe
  PROVE  IInv'
<1> USE DEF IInv, Subscribe, conn, pending, timer, App, Cb, Tm, Threads
<1>1. DataInv'
  BY DEF DataInv, States, Goto
<1>2. PlaceInv'
  BY DEF PlaceInv, Places, AppPlaces, CbPlaces, TmPlaces, Goto
<1>3. SentInv'
  BY DEF SentInv, PlaceInv, Goto
<1>4. TimerInv'
  BY DEF TimerInv, PlaceInv, Goto
<1>5. CallInv'
  BY DEF CallInv, PlaceInv, Towards, Off, Goto
<1>6. QueueInv'
  BY DEF QueueInv, PlaceInv, Towards, Goto
<1>7. StartInv'
  BY DEF StartInv, PlaceInv, Towards, TimerGone, Fresher, Goto
<1>8. LossInv'
  BY DEF LossInv, PlaceInv, Goto
<1>9. ConnectedInv'
  BY DEF ConnectedInv, PlaceInv, Towards, Goto
<1> QED BY <1>1, <1>2, <1>3, <1>4, <1>5, <1>6, <1>7, <1>8, <1>9

(* A subscription is sent.                                                 *)
LEMMA SendSubscriptionStep ==
  ASSUME IInv, SendSubscription
  PROVE  IInv'
<1> USE DEF IInv, SendSubscription, timer, App, Cb, Tm, Threads
<1>1. DataInv'
  <2> DEFINE o == Min(todo[Cb])
  <2>1. o \in Objects /\ NewHandle \in Handles
    BY MinIn, NewHandleIn DEF DataInv, Objects
  <2>2. wire' \subseteq [h : Handles, ono : Onos]
    BY <2>1 DEF DataInv, Send, Onos
  <2>3. asked' \subseteq Objects /\ subs' \subseteq Handles
    BY <2>1 DEF DataInv
  <2>4. todo' \in [Threads -> SUBSET Objects]
    BY DEF DataInv
  <2> QED BY <2>2, <2>3, <2>4 DEF DataInv
<1>2. PlaceInv'
  BY DEF PlaceInv, Places, AppPlaces, CbPlaces, TmPlaces
<1>3. SentInv'
  BY NewHandleIn DEF SentInv, Onos, Objects, Send
<1>4. TimerInv'
  BY DEF TimerInv
<1>5. CallInv'
  BY DEF CallInv, Towards, TimerGone, Off, Send
<1>6. QueueInv'
  BY DEF QueueInv, Towards, Send
<1>7. StartInv'
  BY DEF StartInv, Towards, TimerGone, Fresher, Guid, Send
<1>8. LossInv'
  BY DEF LossInv, TimerGone
<1>9. ConnectedInv'
  BY DEF StartInv, ConnectedInv, Towards, TimerGone
<1> QED BY <1>1, <1>2, <1>3, <1>4, <1>5, <1>6, <1>7, <1>8, <1>9

(* The last of the subscriptions is sent.                                  *)
LEMMA SubscriptionsSentStep ==
  ASSUME IInv, SubscriptionsSent
  PROVE  IInv'
<1> USE DEF IInv, SubscriptionsSent, conn, pending, timer, locals, App, Cb, Tm, Threads
<1>1. DataInv'
  BY DEF DataInv, States, Goto
<1>2. PlaceInv'
  BY DEF PlaceInv, Places, AppPlaces, CbPlaces, TmPlaces, Goto
<1>3. SentInv'
  BY DEF SentInv, Goto
<1>4. TimerInv'
  BY DEF TimerInv, Goto
<1>5. CallInv'
  BY DEF CallInv, Towards, TimerGone, Off, Goto
<1>6. QueueInv'
  BY DEF QueueInv, Towards, Goto
<1>7. StartInv'
  BY DEF StartInv, Towards, TimerGone, Fresher, Goto
<1>8. LossInv'
  BY DEF LossInv, TimerGone, Goto
<1>9. ConnectedInv'
  BY DEF ConnectedInv, Towards, Goto
<1> QED BY <1>1, <1>2, <1>3, <1>4, <1>5, <1>6, <1>7, <1>8, <1>9

(* The queries begin.                                                      *)
LEMMA QueryStep ==
  ASSUME IInv, Query
  PROVE  IInv'
<1> USE DEF IInv, Query, conn, pending, timer, App, Cb, Tm, Threads
<1>1. DataInv'
  BY DEF DataInv, States, Goto
<1>2. PlaceInv'
  BY DEF PlaceInv, Places, AppPlaces, CbPlaces, TmPlaces, Goto
<1>3. SentInv'
  BY DEF SentInv, PlaceInv, Goto
<1>4. TimerInv'
  BY DEF TimerInv, PlaceInv, Goto
<1>5. CallInv'
  BY DEF CallInv, PlaceInv, Towards, Off, Goto
<1>6. QueueInv'
  BY DEF QueueInv, PlaceInv, Towards, Goto
<1>7. StartInv'
  BY DEF StartInv, PlaceInv, Towards, TimerGone, Fresher, Goto
<1>8. LossInv'
  BY DEF LossInv, PlaceInv, Goto
<1>9. ConnectedInv'
  BY DEF ConnectedInv, PlaceInv, Towards, Goto
<1> QED BY <1>1, <1>2, <1>3, <1>4, <1>5, <1>6, <1>7, <1>8, <1>9

(* A query is sent.                                                        *)
LEMMA SendQueryStep ==
  ASSUME IInv, SendQuery
  PROVE  IInv'
<1> USE DEF IInv, SendQuery, timer, App, Cb, Tm, Threads
<1>1. DataInv'
  <2> DEFINE o == Min(todo[Cb])
  <2>1. o \in Objects /\ NewHandle \in Handles
    BY MinIn, NewHandleIn DEF DataInv, Objects
  <2>2. wire' \subseteq [h : Handles, ono : Onos]
    BY <2>1 DEF DataInv, Send, Onos
  <2>3. gets' \subseteq Handles \X Onos
    BY <2>1 DEF DataInv, Onos
  <2>4. todo' \in [Threads -> SUBSET Objects]
    BY DEF DataInv
  <2> QED BY <2>2, <2>3, <2>4 DEF DataInv
<1>2. PlaceInv'
  BY DEF PlaceInv, Places, AppPlaces, CbPlaces, TmPlaces
<1>3. SentInv'
  BY NewHandleIn DEF SentInv, Onos, Objects, Send
<1>4. TimerInv'
  BY DEF TimerInv
<1>5. CallInv'
  BY DEF CallInv, Towards, TimerGone, Off, Send
<1>6. QueueInv'
  BY DEF QueueInv, Towards, Send
<1>7. StartInv'
  <2> DEFINE o == Min(todo[Cb])
  <2>1. o # Guid
    BY MinIn DEF DataInv, Objects, Guid
  <2>2. \A p \in gets' : p[2] # Guid
    BY <2>1 DEF StartInv, Towards
  <2> QED BY <2>2 DEF StartInv, Fresher, QueueInv, TimerGone, DataInv
<1>8. LossInv'
  BY DEF LossInv, TimerGone
<1>9. ConnectedInv'
  BY DEF ConnectedInv, Towards
<1> QED BY <1>1, <1>2, <1>3, <1>4, <1>5, <1>6, <1>7, <1>8, <1>9

(* The last of the queries is sent.                                        *)
LEMMA QueriesSentStep ==
  ASSUME IInv, QueriesSent
  PROVE  IInv'
<1> USE DEF IInv, QueriesSent, conn, pending, timer, locals, App, Cb, Tm, Threads
<1>1. DataInv'
  BY DEF DataInv, States, Goto, CallStop
<1>2. PlaceInv'
  BY DEF PlaceInv, Places, AppPlaces, CbPlaces, TmPlaces, Goto, CallStop
<1>3. SentInv'
  BY DEF SentInv, PlaceInv, Goto, CallStop
<1>4. TimerInv'
  BY DEF TimerInv, PlaceInv, Goto, CallStop
<1>5. CallInv'
  BY DEF CallInv, PlaceInv, Towards, Off, Goto, CallStop
<1>6. QueueInv'
  BY DEF QueueInv, PlaceInv, Towards, Goto, CallStop
<1>7. StartInv'
  BY DEF StartInv, PlaceInv, Towards, TimerGone, Fresher, Goto, CallStop
<1>8. LossInv'
  BY DEF LossInv, PlaceInv, Goto, CallStop
<1>9. ConnectedInv'
  BY DEF ConnectedInv, PlaceInv, Towards, Goto, CallStop
<1> QED BY <1>1, <1>2, <1>3, <1>4, <1>5, <1>6, <1>7, <1>8, <1>9

(* There was nothing to query.                                             *)
LEMMA NothingQueriedStep ==
  ASSUME IInv, NothingQueried
  PROVE  IInv'
<1> USE DEF IInv, NothingQueried, conn, pending, timer, locals, App, Cb, Tm, Threads
<1>1. DataInv'
  BY DEF DataInv, States, Goto
<1>2. PlaceInv'
  BY DEF PlaceInv, Places, AppPlaces, CbPlaces, TmPlaces, Goto
<1>3. SentInv'
  BY DEF SentInv, Goto
<1>4. TimerInv'
  BY DEF TimerInv, Goto
<1>5. CallInv'
  BY DEF CallInv, Towards, TimerGone, Off, Goto
<1>6. QueueInv'
  BY DEF QueueInv, Towards, Goto
<1>7. StartInv'
  BY DEF StartInv, Towards, TimerGone, Fresher, Goto
<1>8. LossInv'
  BY DEF LossInv, TimerGone, Goto
<1>9. ConnectedInv'
  BY DEF ConnectedInv, Towards, Goto
<1> QED BY <1>1, <1>2, <1>3, <1>4, <1>5, <1>6, <1>7, <1>8, <1>9

(* A response is handled: the GUID's, a subscription's, a value's or another. *)
LEMMA RespondStep ==
  ASSUME IInv, Respond
  PROVE  IInv'
<1> USE DEF IInv, Respond, timer, App, Cb, Tm, Threads
<1>1. DataInv'
  BY EventsDiffer, Taken DEF DataInv, States, Goto
<1>2. PlaceInv'
  BY DEF PlaceInv, Places, AppPlaces, CbPlaces, TmPlaces, Goto
<1>3. SentInv'
  BY DEF SentInv, Goto
<1>4. TimerInv'
  BY DEF TimerInv, Goto
<1>5. CallInv'
  BY DEF CallInv, Towards, TimerGone, Off, Goto
<1>6. QueueInv'
  BY EventsDiffer, Taken DEF QueueInv, Towards, Goto
<1>7. StartInv'
  <2> DEFINE r == Head(events)
             values == {p \in gets : p[1] = r.h}
  <2>1. /\ events # <<>> /\ events \in Seq(Events) /\ r # Made
        /\ pc[Cb] = "idle" /\ TimerGone' = TimerGone
    BY EventsDiffer DEF DataInv, PlaceInv, Goto, TimerGone
  <2>2. \A i \in 1 .. Len(events') : events'[i] # Made
    BY <2>1, Taken DEF QueueInv
  <2>3. subs' \subseteq subs /\ gets' \subseteq gets /\ state' = state /\ link' = link
    OBVIOUS
  <2>4. link = "dialing" => FALSE
    BY <2>1 DEF QueueInv
  <2>5. pc'[Cb] \in {"subscribed", "idle", "subscribe", "gotValue"}
    BY DEF PlaceInv, Goto
  <2>6. pc'[Cb] = "subscribe" => <<r.h, Guid>> \in gets
    BY DEF PlaceInv, Goto
  <2>7. ASSUME NEW p \in gets', p[2] = Guid
        PROVE  pc'[Cb] = "idle" /\ gets = {p}
    <3>1. p \in gets /\ gets = {p} /\ subs = {}
      BY <2>7, <2>3 DEF StartInv
    <3>2. p \notin values
      BY <2>7
    <3>3. values = {}
      BY <3>1, <3>2
    <3>4. ~ inGuid' /\ r.h \notin subs
      BY <3>1, <3>3
    <3> HIDE DEF values
    <3> QED BY <3>1, <3>3, <3>4 DEF PlaceInv, Goto
  <2> QED BY <2>1, <2>2, <2>3, <2>4, <2>5, <2>6, <2>7 DEF StartInv
<1>8. LossInv'
  BY DEF LossInv, TimerGone, Goto
<1>9. ConnectedInv'
  BY DEF ConnectedInv, Towards, Goto
<1> QED BY <1>1, <1>2, <1>3, <1>4, <1>5, <1>6, <1>7, <1>8, <1>9

(* The last subscription is answered.                                      *)
LEMMA AllSubscribedStep ==
  ASSUME IInv, AllSubscribed
  PROVE  IInv'
<1> USE DEF IInv, AllSubscribed, conn, pending, timer, locals, App, Cb, Tm, Threads
<1>1. DataInv'
  BY DEF DataInv, States, Goto
<1>2. PlaceInv'
  BY DEF PlaceInv, Places, AppPlaces, CbPlaces, TmPlaces, Goto
<1>3. SentInv'
  BY DEF SentInv, Goto
<1>4. TimerInv'
  BY DEF TimerInv, Goto
<1>5. CallInv'
  BY DEF CallInv, Towards, TimerGone, Off, Goto
<1>6. QueueInv'
  BY DEF QueueInv, Towards, Goto
<1>7. StartInv'
  BY DEF StartInv, Towards, TimerGone, Fresher, Goto
<1>8. LossInv'
  BY DEF LossInv, TimerGone, Goto
<1>9. ConnectedInv'
  BY DEF ConnectedInv, Towards, Goto
<1> QED BY <1>1, <1>2, <1>3, <1>4, <1>5, <1>6, <1>7, <1>8, <1>9

(* It is seen whether values are pending.                                  *)
LEMMA ValuesPendingStep ==
  ASSUME IInv, ValuesPending
  PROVE  IInv'
<1> USE DEF IInv, ValuesPending, conn, pending, timer, locals, App, Cb, Tm, Threads
<1>1. DataInv'
  BY DEF DataInv, States, Goto, CallStop
<1>2. PlaceInv'
  BY DEF PlaceInv, Places, AppPlaces, CbPlaces, TmPlaces, Goto, CallStop
<1>3. SentInv'
  BY DEF SentInv, PlaceInv, Goto, CallStop
<1>4. TimerInv'
  BY DEF TimerInv, PlaceInv, Goto, CallStop
<1>5. CallInv'
  BY DEF CallInv, PlaceInv, Towards, Off, Goto, CallStop
<1>6. QueueInv'
  BY DEF QueueInv, PlaceInv, Towards, Goto, CallStop
<1>7. StartInv'
  BY DEF StartInv, PlaceInv, Towards, Fresher, Goto, CallStop
<1>8. LossInv'
  BY DEF LossInv, PlaceInv, Goto, CallStop
<1>9. ConnectedInv'
  BY DEF ConnectedInv, Towards, Goto, CallStop
<1> QED BY <1>1, <1>2, <1>3, <1>4, <1>5, <1>6, <1>7, <1>8, <1>9

(* It is seen whether that was the last value.                             *)
LEMMA GotValueStep ==
  ASSUME IInv, GotValue
  PROVE  IInv'
<1> USE DEF IInv, GotValue, conn, pending, timer, locals, App, Cb, Tm, Threads
<1>1. DataInv'
  BY DEF DataInv, States, Goto, CallStop
<1>2. PlaceInv'
  BY DEF PlaceInv, Places, AppPlaces, CbPlaces, TmPlaces, Goto, CallStop
<1>3. SentInv'
  BY DEF SentInv, PlaceInv, Goto, CallStop
<1>4. TimerInv'
  BY DEF TimerInv, PlaceInv, Goto, CallStop
<1>5. CallInv'
  BY DEF CallInv, PlaceInv, Towards, Off, Goto, CallStop
<1>6. QueueInv'
  BY DEF QueueInv, PlaceInv, Towards, Goto, CallStop
<1>7. StartInv'
  BY DEF StartInv, PlaceInv, TimerGone, Fresher, Goto, CallStop
<1>8. LossInv'
  BY DEF LossInv, PlaceInv, Goto, CallStop
<1>9. ConnectedInv'
  BY DEF ConnectedInv, PlaceInv, Towards, Goto, CallStop
<1> QED BY <1>1, <1>2, <1>3, <1>4, <1>5, <1>6, <1>7, <1>8, <1>9

(* A decision made earlier becomes the state.                              *)
LEMMA SetStateStep ==
  ASSUME IInv, NEW t \in {Cb, Tm}, SetState(t)
  PROVE  IInv'
<1> USE DEF IInv, SetState, conn, pending, timer, locals, App, Cb, Tm, Threads
<1>1. DataInv'
  BY DEF DataInv, States, Goto, Done
<1>2. PlaceInv'
  BY DEF PlaceInv, Places, AppPlaces, CbPlaces, TmPlaces, Goto, Done
<1>3. SentInv'
  BY DEF SentInv, Goto, Done
<1>4. TimerInv'
  BY DEF TimerInv, Goto, Done
<1>5. CallInv'
  BY DEF CallInv, Towards, TimerGone, Off, Goto, Done
<1>6. QueueInv'
  BY DEF QueueInv, Towards, Goto, Done
<1>7. StartInv'
  BY DEF StartInv, Towards, TimerGone, Fresher, Goto, Done
<1>8. LossInv'
  BY DEF LossInv, TimerGone, Goto, Done
<1>9. ConnectedInv'
  BY DEF ConnectedInv, Towards, Goto, Done
<1> QED BY <1>1, <1>2, <1>3, <1>4, <1>5, <1>6, <1>7, <1>8, <1>9

(* The controller hears of the loss.                                       *)
LEMMA ConnectionLostStep ==
  ASSUME IInv, ConnectionLost
  PROVE  IInv'
<1> USE DEF IInv, ConnectionLost, pending, timer, locals, App, Cb, Tm, Threads
<1>1. DataInv'
  BY EventsDiffer, Taken DEF DataInv, States, Goto, CallStop
<1>2. PlaceInv'
  BY DEF PlaceInv, Places, AppPlaces, CbPlaces, TmPlaces, Goto, CallStop
<1>3. SentInv'
  BY DEF SentInv, Goto, CallStop
<1>4. TimerInv'
  BY DEF TimerInv, Goto, CallStop
<1>5. CallInv'
  BY DEF CallInv, Towards, TimerGone, Off, Goto, CallStop
<1>6. QueueInv'
  BY EventsDiffer, Taken DEF QueueInv, Towards, Goto, CallStop
<1>7. StartInv'
  BY EventsDiffer, Taken DEF PlaceInv, QueueInv, StartInv, Towards, TimerGone, Goto, CallStop
<1>8. LossInv'
  BY DEF LossInv, TimerGone, Goto, CallStop
<1>9. ConnectedInv'
  BY DEF ConnectedInv, PlaceInv, Towards, Goto, CallStop
<1> QED BY <1>1, <1>2, <1>3, <1>4, <1>5, <1>6, <1>7, <1>8, <1>9

(* The pending requests are forgotten.                                     *)
LEMMA ClearPendingStep ==
  ASSUME IInv, NEW t \in {App, Cb}, ClearPending(t)
  PROVE  IInv'
<1> USE DEF IInv, ClearPending, conn, timer, locals, App, Cb, Tm, Threads
<1>1. DataInv'
  BY DEF DataInv, States, Goto
<1>2. PlaceInv'
  BY DEF PlaceInv, Places, AppPlaces, CbPlaces, TmPlaces, Goto
<1>3. SentInv'
  BY DEF SentInv, Goto
<1>4. TimerInv'
  BY DEF TimerInv, Goto
<1>5. CallInv'
  BY DEF CallInv, Towards, TimerGone, Off, Goto
<1>6. QueueInv'
  BY DEF QueueInv, Towards, Goto
<1>7. StartInv'
  BY DEF StartInv, Towards, TimerGone, Fresher, Goto
<1>8. LossInv'
  BY DEF LossInv, TimerGone, Goto
<1>9. ConnectedInv'
  BY DEF ConnectedInv, Towards, Goto
<1> QED BY <1>1, <1>2, <1>3, <1>4, <1>5, <1>6, <1>7, <1>8, <1>9

(* It is seen whether the application has disconnected.                    *)
LEMMA LostCheckStep ==
  ASSUME IInv, NEW t \in {App, Cb}, LostCheck(t)
  PROVE  IInv'
<1> USE DEF IInv, LostCheck, conn, pending, timer, locals, App, Cb, Tm, Threads
<1>1. DataInv'
  BY DEF DataInv, States, Goto
<1>2. PlaceInv'
  BY DEF PlaceInv, Places, AppPlaces, CbPlaces, TmPlaces, Goto
<1>3. SentInv'
  BY DEF SentInv, Goto
<1>4. TimerInv'
  BY DEF TimerInv, Goto
<1>5. CallInv'
  BY DEF CallInv, Towards, TimerGone, Off, Goto
<1>6. QueueInv'
  BY DEF QueueInv, Towards, Goto
<1>7. StartInv'
  BY DEF StartInv, Towards, TimerGone, Fresher, Goto
<1>8. LossInv'
  BY DEF LossInv, TimerGone, Goto
<1>9. ConnectedInv'
  BY DEF ConnectedInv, Towards, Goto
<1> QED BY <1>1, <1>2, <1>3, <1>4, <1>5, <1>6, <1>7, <1>8, <1>9

(* It has not.                                                             *)
LEMMA LostSetConnectingStep ==
  ASSUME IInv, NEW t \in {App, Cb}, LostSetConnecting(t)
  PROVE  IInv'
<1> USE DEF IInv, LostSetConnecting, conn, pending, timer, locals, App, Cb, Tm, Threads
<1>1. DataInv'
  BY DEF DataInv, States, Goto
<1>2. PlaceInv'
  BY DEF PlaceInv, Places, AppPlaces, CbPlaces, TmPlaces, Goto
<1>3. SentInv'
  BY DEF SentInv, Goto
<1>4. TimerInv'
  BY DEF TimerInv, Goto
<1>5. CallInv'
  BY DEF CallInv, Towards, TimerGone, Off, Goto
<1>6. QueueInv'
  BY DEF QueueInv, Towards, Goto
<1>7. StartInv'
  BY DEF StartInv, Towards, TimerGone, Fresher, Goto
<1>8. LossInv'
  BY DEF LossInv, TimerGone, Goto
<1>9. ConnectedInv'
  BY DEF ConnectedInv, Towards, Goto
<1> QED BY <1>1, <1>2, <1>3, <1>4, <1>5, <1>6, <1>7, <1>8, <1>9

(* The client dials again.                                                 *)
LEMMA LostReturnsStep ==
  ASSUME IInv, LostReturns
  PROVE  IInv'
<1> USE DEF IInv, LostReturns, pending, timer, locals, App, Cb, Tm, Threads
<1>1. DataInv'
  BY DEF DataInv, States, Goto
<1>2. PlaceInv'
  BY DEF PlaceInv, Places, AppPlaces, CbPlaces, TmPlaces, Goto
<1>3. SentInv'
  BY DEF SentInv, Goto
<1>4. TimerInv'
  BY DEF TimerInv, Goto
<1>5. CallInv'
  BY DEF CallInv, Towards, TimerGone, Off, Goto
<1>6. QueueInv'
  BY DEF QueueInv, Towards, Goto
<1>7. StartInv'
  <2>1. events = <<>> /\ events' = events /\ pc'[Cb] = "idle" /\ pc'[Tm] = pc[Tm]
    BY DEF PlaceInv, Goto, QueueInv
  <2>2. Fresher'
    BY <2>1 DEF Fresher, LossInv, TimerGone, PlaceInv
  <2>3. gets' = {} /\ Len(events') = 0
    BY <2>1 DEF LossInv
  <2> QED BY <2>1, <2>2, <2>3 DEF StartInv
<1>8. LossInv'
  BY DEF LossInv, TimerGone, Goto
<1>9. ConnectedInv'
  BY DEF ConnectedInv, Towards, Goto
<1> QED BY <1>1, <1>2, <1>3, <1>4, <1>5, <1>6, <1>7, <1>8, <1>9

(* connect().                                                              *)
LEMMA ConnectStep ==
  ASSUME IInv, Connect
  PROVE  IInv'
<1> USE DEF IInv, Connect, pending, timer, locals, App, Cb, Tm, Threads
<1>1. DataInv'
  BY DEF DataInv, States, Spend
<1>2. PlaceInv'
  BY DEF PlaceInv, Places, AppPlaces, CbPlaces, TmPlaces, Spend
<1>3. SentInv'
  BY DEF SentInv, Spend
<1>4. TimerInv'
  BY DEF TimerInv, Spend
<1>5. CallInv'
  BY DEF CallInv, Towards, TimerGone, Off, Spend
<1>6. QueueInv'
  BY DEF CallInv, QueueInv, Off
<1>7. StartInv'
  BY DEF CallInv, StartInv, TimerGone, Off, Fresher
<1>8. LossInv'
  BY DEF LossInv, TimerGone, Spend
<1>9. ConnectedInv'
  BY DEF ConnectedInv, Towards, Spend
<1> QED BY <1>1, <1>2, <1>3, <1>4, <1>5, <1>6, <1>7, <1>8, <1>9

(* disconnect() begins.                                                    *)
LEMMA DisconnectStep ==
  ASSUME IInv, Disconnect
  PROVE  IInv'
<1> USE DEF IInv, Disconnect, conn, pending, timer, locals, App, Cb, Tm, Threads
<1>1. DataInv'
  BY DEF DataInv, States, Goto, CallStop, Spend
<1>2. PlaceInv'
  BY DEF PlaceInv, Places, AppPlaces, CbPlaces, TmPlaces, Goto, CallStop, Spend
<1>3. SentInv'
  BY DEF SentInv, PlaceInv, Goto, CallStop
<1>4. TimerInv'
  BY DEF TimerInv, PlaceInv, Goto, CallStop
<1>5. CallInv'
  BY DEF CallInv, PlaceInv, Towards, TimerGone, Off, Goto, CallStop
<1>6. QueueInv'
  BY DEF QueueInv, PlaceInv, Towards, Goto, CallStop
<1>7. StartInv'
  BY DEF StartInv, PlaceInv, Towards, TimerGone, Fresher, Goto, CallStop
<1>8. LossInv'
  BY DEF LossInv, PlaceInv, TimerGone, Goto, CallStop
<1>9. ConnectedInv'
  BY DEF ConnectedInv, PlaceInv, Towards, Goto, CallStop
<1> QED BY <1>1, <1>2, <1>3, <1>4, <1>5, <1>6, <1>7, <1>8, <1>9

(* disconnect() closes the connection.                                     *)
LEMMA ClientStopStep ==
  ASSUME IInv, ClientStop
  PROVE  IInv'
<1> USE DEF IInv, ClientStop, pending, timer, locals, App, Cb, Tm, Threads
<1>1. DataInv'
  BY EventsDiffer, Added DEF DataInv, States, Goto
<1>2. PlaceInv'
  BY DEF PlaceInv, Places, AppPlaces, CbPlaces, TmPlaces, Goto
<1>3. SentInv'
  BY DEF SentInv, Goto
<1>4. TimerInv'
  BY DEF TimerInv, Goto
<1>5. CallInv'
  BY DEF CallInv, Towards, TimerGone, Off, Goto
<1>6. QueueInv'
  BY EventsDiffer, Added DEF QueueInv, Towards, Goto
<1>7. StartInv'
  BY EventsDiffer, Added DEF StartInv, Towards, TimerGone, Fresher, Goto
<1>8. LossInv'
  BY DEF LossInv, TimerGone, Goto
<1>9. ConnectedInv'
  BY DEF ConnectedInv, Towards, Goto
<1> QED BY <1>1, <1>2, <1>3, <1>4, <1>5, <1>6, <1>7, <1>8, <1>9

(* disconnect() silences the client.                                       *)
LEMMA ClientUnsafeStep ==
  ASSUME IInv, ClientUnsafe
  PROVE  IInv'
<1> USE DEF IInv, ClientUnsafe, pending, timer, locals, App, Cb, Tm, Threads
<1>1. DataInv'
  <2>1. events' \in Seq(Events)
    OBVIOUS
  <2> QED BY <2>1 DEF DataInv
<1>2. PlaceInv'
  BY DEF PlaceInv, Places, AppPlaces, CbPlaces, TmPlaces, Goto, CallStop
<1>3. SentInv'
  BY DEF SentInv, Goto, CallStop
<1>4. TimerInv'
  BY DEF TimerInv, Goto, CallStop
<1>5. CallInv'
  BY DEF PlaceInv, CallInv, QueueInv, Towards, Off, Goto, CallStop
<1>6. QueueInv'
  BY DEF QueueInv, Towards, Goto, CallStop
<1>7. StartInv'
  BY DEF StartInv, Towards, TimerGone, Fresher, Goto, CallStop
<1>8. LossInv'
  BY DEF LossInv, TimerGone, Goto, CallStop
<1>9. ConnectedInv'
  BY DEF ConnectedInv, Towards, Goto, CallStop
<1> QED BY <1>1, <1>2, <1>3, <1>4, <1>5, <1>6, <1>7, <1>8, <1>9

(* disconnect() lets the client go.                                        *)
LEMMA ClientResetStep ==
  ASSUME IInv, ClientReset
  PROVE  IInv'
<1> USE DEF IInv, ClientReset, pending, timer, locals, App, Cb, Tm, Threads
<1>1. DataInv'
  BY DEF DataInv, States, Goto, CallStop
<1>2. PlaceInv'
  BY DEF PlaceInv, Places, AppPlaces, CbPlaces, TmPlaces, Goto, CallStop
<1>3. SentInv'
  BY DEF SentInv, Goto, CallStop
<1>4. TimerInv'
  BY DEF TimerInv, Goto, CallStop
<1>5. CallInv'
  BY DEF CallInv, PlaceInv, Towards, TimerGone, Off, Goto, CallStop
<1>6. QueueInv'
  BY DEF QueueInv, Towards, Goto, CallStop
<1>7. StartInv'
  BY DEF StartInv, Towards, TimerGone, Fresher, Goto, CallStop
<1>8. LossInv'
  BY DEF LossInv, TimerGone, Goto, CallStop
<1>9. ConnectedInv'
  BY DEF ConnectedInv, Towards, Goto, CallStop
<1> QED BY <1>1, <1>2, <1>3, <1>4, <1>5, <1>6, <1>7, <1>8, <1>9

(* disconnect() returns.                                                   *)
LEMMA DisconnectedStep ==
  ASSUME IInv, Disconnected
  PROVE  IInv'
<1> USE DEF IInv, Disconnected, conn, timer, locals, App, Cb, Tm, Threads
<1>1. DataInv'
  BY DEF DataInv, States, Goto
<1>2. PlaceInv'
  BY DEF PlaceInv, Places, AppPlaces, CbPlaces, TmPlaces, Goto
<1>3. SentInv'
  BY DEF SentInv, Goto
<1>4. TimerInv'
  BY DEF TimerInv, Goto
<1>5. CallInv'
  BY DEF CallInv, Towards, TimerGone, Off, Goto
<1>6. QueueInv'
  BY DEF QueueInv, Towards, Goto
<1>7. StartInv'
  BY DEF StartInv, Towards, TimerGone, Fresher, Goto
<1>8. LossInv'
  BY DEF LossInv, TimerGone, Goto
<1>9. ConnectedInv'
  BY DEF ConnectedInv, Towards, Goto
<1> QED BY <1>1, <1>2, <1>3, <1>4, <1>5, <1>6, <1>7, <1>8, <1>9

(* A value is set.                                                         *)
LEMMA SetValueStep ==
  ASSUME IInv, SetValue
  PROVE  IInv'
<1> USE DEF IInv, SetValue, pending, timer, App, Cb, Tm, Threads
<1>1. DataInv'
  <2>1. NewHandle \in Handles
    BY NewHandleIn
  <2>2. wire' \subseteq [h : Handles, ono : Onos]
    BY <2>1 DEF DataInv, Send, Onos
  <2> QED BY <2>2 DEF DataInv, Spend
<1>2. PlaceInv'
  BY DEF PlaceInv, Places, AppPlaces, CbPlaces, TmPlaces, Goto, Spend
<1>3. SentInv'
  <2>1. PICK o \in Objects : sent' = [sent EXCEPT ![App] = [h |-> NewHandle, ono |-> o]]
    OBVIOUS
  <2>2. [h |-> NewHandle, ono |-> o] \in [h : Handles \cup {0}, ono : Onos]
    BY NewHandleIn DEF Onos
  <2>3. sent' \in [Threads -> [h : Handles \cup {0}, ono : Onos]]
    BY <2>1, <2>2, Zenon DEF SentInv
  <2>4. sent'[App].h \in Handles
    BY <2>1, NewHandleIn DEF SentInv
  <2> QED BY <2>1, <2>3, <2>4 DEF SentInv, PlaceInv, Goto
<1>4. TimerInv'
  BY DEF TimerInv, Goto, Spend
<1>5. CallInv'
  BY DEF CallInv, Towards, TimerGone, Off, Goto, Spend, Send
<1>6. QueueInv'
  BY DEF QueueInv, Towards, Goto, Spend, Send
<1>7. StartInv'
  BY DEF StartInv, Towards, TimerGone, Fresher, Guid, Goto, Spend, Send
<1>8. LossInv'
  BY DEF LossInv, TimerGone, Goto, Spend
<1>9. ConnectedInv'
  BY DEF ConnectedInv, Towards, Goto, Spend
<1> QED BY <1>1, <1>2, <1>3, <1>4, <1>5, <1>6, <1>7, <1>8, <1>9

(* The handle of that request is recorded.                                 *)
LEMMA AddSetHandleStep ==
  ASSUME IInv, AddSetHandle
  PROVE  IInv'
<1> USE DEF IInv, AddSetHandle, conn, timer, App, Cb, Tm, Threads
<1>1. DataInv'
  BY DEF DataInv, SentInv, States, Onos, Objects, Goto
<1>2. PlaceInv'
  BY DEF PlaceInv, Places, AppPlaces, CbPlaces, TmPlaces, Goto
<1>3. SentInv'
  BY DEF SentInv, PlaceInv, Onos, Goto, Nothing
<1>4. TimerInv'
  BY DEF TimerInv, Goto
<1>5. CallInv'
  BY DEF CallInv, Towards, TimerGone, Off, Goto
<1>6. QueueInv'
  BY DEF QueueInv, Towards, Goto
<1>7. StartInv'
  BY DEF StartInv, Towards, TimerGone, Fresher, Guid, Goto
<1>8. LossInv'
  BY DEF LossInv, TimerGone, Goto
<1>9. ConnectedInv'
  BY DEF ConnectedInv, Towards, Goto
<1> QED BY <1>1, <1>2, <1>3, <1>4, <1>5, <1>6, <1>7, <1>8, <1>9

(* The timer forgets the pending queries.                                  *)
LEMMA RetryStep ==
  ASSUME IInv, Retry
  PROVE  IInv'
<1> USE DEF IInv, Retry, conn, timer, App, Cb, Tm, Threads
<1>1. DataInv'
  BY DEF DataInv, States, Onos, Objects, Goto, CallStop
<1>2. PlaceInv'
  BY DEF PlaceInv, Places, AppPlaces, CbPlaces, TmPlaces, Goto, CallStop
<1>3. SentInv'
  BY DEF SentInv, PlaceInv, Goto, CallStop
<1>4. TimerInv'
  BY DEF TimerInv, PlaceInv, Goto, CallStop
<1>5. CallInv'
  BY DEF CallInv, PlaceInv, Towards, TimerGone, Off, Goto, CallStop
<1>6. QueueInv'
  BY DEF QueueInv, PlaceInv, Towards, Goto, CallStop
<1>7. StartInv'
  BY DEF StartInv, PlaceInv, TimerGone, Fresher, Goto, CallStop
<1>8. LossInv'
  BY DEF LossInv, PlaceInv, TimerGone, Goto, CallStop
<1>9. ConnectedInv'
  BY DEF ConnectedInv, PlaceInv, Towards, Goto, CallStop
<1> QED BY <1>1, <1>2, <1>3, <1>4, <1>5, <1>6, <1>7, <1>8, <1>9

(* There were none: it is seen whether subscriptions are pending.          *)
LEMMA RetryCheckStep ==
  ASSUME IInv, RetryCheck
  PROVE  IInv'
<1> USE DEF IInv, RetryCheck, conn, pending, timer, locals, App, Cb, Tm, Threads
<1>1. DataInv'
  BY DEF DataInv, States, Goto
<1>2. PlaceInv'
  BY DEF PlaceInv, Places, AppPlaces, CbPlaces, TmPlaces, Goto
<1>3. SentInv'
  BY DEF SentInv, Goto
<1>4. TimerInv'
  BY DEF TimerInv, Goto
<1>5. CallInv'
  BY DEF CallInv, Towards, TimerGone, Off, Goto
<1>6. QueueInv'
  BY DEF QueueInv, Towards, Goto
<1>7. StartInv'
  BY DEF StartInv, Towards, TimerGone, Fresher, Goto
<1>8. LossInv'
  BY DEF LossInv, TimerGone, Goto
<1>9. ConnectedInv'
  BY DEF ConnectedInv, Towards, Goto
<1> QED BY <1>1, <1>2, <1>3, <1>4, <1>5, <1>6, <1>7, <1>8, <1>9

(* The timer sends a query again.                                          *)
LEMMA ResendStep ==
  ASSUME IInv, Resend
  PROVE  IInv'
<1> USE DEF IInv, Resend, pending, timer, App, Cb, Tm, Threads
<1>1. DataInv'
  BY NewHandleIn DEF DataInv, States, Onos, Objects, Goto, Send
<1>2. PlaceInv'
  BY DEF PlaceInv, Places, AppPlaces, CbPlaces, TmPlaces, Goto
<1>3. SentInv'
  BY NewHandleIn DEF SentInv, PlaceInv, DataInv, Onos, Goto
<1>4. TimerInv'
  BY DEF TimerInv, PlaceInv, Goto
<1>5. CallInv'
  BY DEF CallInv, PlaceInv, Towards, TimerGone, Off, Goto, Send
<1>6. QueueInv'
  BY DEF QueueInv, PlaceInv, Towards, Goto, Send
<1>7. StartInv'
  BY DEF StartInv, PlaceInv, TimerGone, Fresher, Goto
<1>8. LossInv'
  BY DEF LossInv, PlaceInv, TimerGone, Goto
<1>9. ConnectedInv'
  BY DEF ConnectedInv, PlaceInv, Towards, Goto
<1> QED BY <1>1, <1>2, <1>3, <1>4, <1>5, <1>6, <1>7, <1>8, <1>9

(* The handle of that query is recorded.                                   *)
LEMMA AddGetHandleStep ==
  ASSUME IInv, AddGetHandle
  PROVE  IInv'
<1> USE DEF IInv, AddGetHandle, conn, timer, App, Cb, Tm, Threads
<1>1. DataInv'
  BY DEF DataInv, SentInv, States, Onos, Objects, Goto
<1>2. PlaceInv'
  BY DEF PlaceInv, Places, AppPlaces, CbPlaces, TmPlaces, Goto
<1>3. SentInv'
  BY DEF SentInv, PlaceInv, Onos, Goto, Nothing
<1>4. TimerInv'
  BY DEF TimerInv, Goto
<1>5. CallInv'
  BY DEF CallInv, Towards, TimerGone, Off, Goto
<1>6. QueueInv'
  BY DEF QueueInv, Towards, Goto
<1>7. StartInv'
  BY DEF SentInv, StartInv, TimerGone, Fresher, Objects, Guid, Goto
<1>8. LossInv'
  BY DEF LossInv, TimerGone, Goto
<1>9. ConnectedInv'
  BY DEF ConnectedInv, Towards, Goto
<1> QED BY <1>1, <1>2, <1>3, <1>4, <1>5, <1>6, <1>7, <1>8, <1>9

(* The last of them is sent.                                               *)
LEMMA ResentStep ==
  ASSUME IInv, Resent
  PROVE  IInv'
<1> USE DEF IInv, Resent, conn, pending, timer, locals, App, Cb, Tm, Threads
<1>1. DataInv'
  BY DEF DataInv, States, Goto
<1>2. PlaceInv'
  BY DEF PlaceInv, Places, AppPlaces, CbPlaces, TmPlaces, Goto
<1>3. SentInv'
  BY DEF SentInv, Goto
<1>4. TimerInv'
  BY DEF TimerInv, Goto
<1>5. CallInv'
  BY DEF CallInv, Towards, TimerGone, Off, Goto
<1>6. QueueInv'
  BY DEF QueueInv, Towards, Goto
<1>7. StartInv'
  BY DEF StartInv, Towards, TimerGone, Fresher, Goto
<1>8. LossInv'
  BY DEF LossInv, TimerGone, Goto
<1>9. ConnectedInv'
  BY DEF ConnectedInv, Towards, Goto
<1> QED BY <1>1, <1>2, <1>3, <1>4, <1>5, <1>6, <1>7, <1>8, <1>9

-----------------------------------------------------------------------------
(* The invariant holds, and what follows from it.                         *)

(* The initial states.                                                    *)
LEMMA InitStep == Init => IInv
<1> SUFFICES ASSUME Init PROVE IInv
  OBVIOUS
<1> USE DEF Init, App, Cb, Tm, Threads
<1>1. DataInv
  <2>1. events \in Seq(Events)
    BY SMT
  <2>2. todo \in [Threads -> SUBSET Objects]
    BY SMT
  <2> QED BY <2>1, <2>2 DEF DataInv, States
<1>2. PlaceInv
  BY DEF PlaceInv, Places, AppPlaces, CbPlaces, TmPlaces
<1>3. SentInv
  BY DEF SentInv, Nothing, Guid, Onos
<1>4. TimerInv
  BY DEF TimerInv
<1>5. CallInv
  BY DEF CallInv, Towards, Off, TimerGone
<1>6. QueueInv
  BY DEF QueueInv, Towards
<1>7. StartInv
  BY DEF StartInv
<1>8. LossInv
  BY DEF LossInv
<1>9. ConnectedInv
  BY DEF ConnectedInv, Towards
<1> QED BY <1>1, <1>2, <1>3, <1>4, <1>5, <1>6, <1>7, <1>8, <1>9 DEF IInv

(* No change.                                                             *)
LEMMA StutterStep ==
  ASSUME IInv, UNCHANGED vars
  PROVE  IInv'
<1> USE DEF IInv, vars, conn, pending, timer, locals
<1>1. DataInv' /\ PlaceInv' /\ SentInv' /\ TimerInv'
  BY DEF DataInv, PlaceInv, SentInv, TimerInv
<1>2. CallInv' /\ QueueInv'
  BY DEF CallInv, QueueInv, Towards, Off, TimerGone
<1>3. StartInv' /\ LossInv' /\ ConnectedInv'
  BY DEF StartInv, LossInv, ConnectedInv, Towards, TimerGone, Fresher
<1> QED BY <1>1, <1>2, <1>3

(* The threads of the application and of the timer's worker.              *)
LEMMA ThreadStep ==
  ASSUME IInv, AppStep \/ TmStep
  PROVE  IInv'
<1>1. CASE AppStep
  BY <1>1, ClientStopStep, ClientUnsafeStep, ClearPendingStep, LostCheckStep,
     LostSetConnectingStep, ClientResetStep, DisconnectedStep, AddSetHandleStep,
     StopTimerStep, JoinTimerStep
     DEF AppStep, Threads
<1>2. CASE TmStep
  BY <1>2, TimerLeavesStep, TimerWaitsStep, RetryStep, RetryCheckStep, ResendStep,
     AddGetHandleStep, ResentStep, SetStateStep, StopTimerStep
     DEF TmStep, Threads
<1> QED BY <1>1, <1>2

(* The thread of the callbacks.                                           *)
LEMMA CallbackStep ==
  ASSUME IInv, CbStep
  PROVE  IInv'
<1>1. CASE \/ Established \/ AskGuid \/ Subscribe \/ SendSubscription \/ SubscriptionsSent
           \/ Query \/ SendQuery \/ QueriesSent \/ NothingQueried \/ StartTimer
  BY <1>1, EstablishedStep, AskGuidStep, SubscribeStep, SendSubscriptionStep,
     SubscriptionsSentStep, QueryStep, SendQueryStep, QueriesSentStep, NothingQueriedStep,
     StartTimerStep
<1>2. CASE Respond \/ AllSubscribed \/ ValuesPending \/ GotValue \/ SetState(Cb)
  BY <1>2, RespondStep, AllSubscribedStep, ValuesPendingStep, GotValueStep, SetStateStep
<1>3. CASE \/ ConnectionLost \/ ClearPending(Cb) \/ LostCheck(Cb) \/ LostSetConnecting(Cb)
           \/ LostReturns \/ StopTimer(Cb) \/ JoinTimer(Cb)
  BY <1>3, ConnectionLostStep, ClearPendingStep, LostCheckStep, LostSetConnectingStep,
     LostReturnsStep, StopTimerStep, JoinTimerStep
     DEF Threads
<1> QED BY <1>1, <1>2, <1>3 DEF CbStep

(* In every state the inductive invariant holds.                          *)
THEOREM Invariance == Spec => []IInv
<1>1. Init => IInv
  BY InitStep
<1>2. IInv /\ [Next]_vars => IInv'
  <2> SUFFICES ASSUME IInv, [Next]_vars PROVE IInv'
    OBVIOUS
  <2>1. CASE Connect \/ Disconnect \/ SetValue \/ AppStep \/ TmStep \/ CbStep
    BY <2>1, ConnectStep, DisconnectStep, SetValueStep, ThreadStep, CallbackStep
  <2>2. CASE TimerFires \/ LinkUp \/ LinkLost \/ \E r \in wire : DeviceAnswers(r)
    BY <2>2, TimerFiresStep, LinkUpStep, LinkLostStep, DeviceAnswersStep
  <2>3. CASE UNCHANGED vars
    BY <2>3, StutterStep
  <2> QED BY <2>1, <2>2, <2>3 DEF Next
<1> QED BY <1>1, <1>2, PTL DEF Spec

(* Every variable keeps its type: a handle that is sent, queued or         *)
(* remembered is one of the handles that are given out.                    *)
THEOREM TypeCorrect == Spec => []TypeOK
<1>1. IInv => TypeOK
  <2> SUFFICES ASSUME IInv PROVE TypeOK
    OBVIOUS
  <2>1. \A e \in ToSet(events) : e \in {Made, Lost} \/ e.h \in Handles
    <3>1. SUFFICES ASSUME NEW i \in DOMAIN events
                   PROVE  events[i] \in {Made, Lost} \/ events[i].h \in Handles
      BY DEF ToSet
    <3>2. events[i] \in Events
      BY DEF IInv, DataInv
    <3>3. ASSUME NEW h \in Handles, NEW s \in {"ok", "odd", "error"}
          PROVE  Response(h, s).h \in Handles
      BY DEF Response
    <3> QED BY <3>2, <3>3 DEF Events
  <2>2. lock \in Threads \cup {"none"}
    BY DEF IInv, TimerInv, Threads
  <2> QED BY <2>1, <2>2 DEF IInv, DataInv, PlaceInv, TypeOK
<1> QED BY <1>1, Invariance, PTL

(* disconnect() leaves nothing behind: no callback, no worker of the timer *)
(* and no request that is remembered (Ocp1Controller::disconnect()).       *)
THEOREM DisconnectIsClean == Spec => []DisconnectLeavesNothing
<1>1. IInv => DisconnectLeavesNothing
  BY DEF IInv, CallInv, Off, TimerGone, DisconnectLeavesNothing
<1> QED BY <1>1, Invariance, PTL

(* No thread uses the client after disconnect() has let it go.            *)
THEOREM ClientIsThere == Spec => []ClientOutlivesUse
<1>1. IInv => ClientOutlivesUse
  BY DEF IInv, CallInv, Off, TimerGone, ClientOutlivesUse
<1> QED BY <1>1, Invariance, PTL

(* The controller is not Connected while a subscription is unanswered,     *)
(* whatever the timer and the application do meanwhile.                    *)
THEOREM ConnectedHasSubscribed == Spec => []ConnectedIsSubscribed
<1>1. IInv => ConnectedIsSubscribed
  BY DEF IInv, ConnectedInv, ConnectedIsSubscribed
<1> QED BY <1>1, Invariance, PTL

(* startTimer() never finds its timer running or its last worker alive.   *)
THEOREM StartsAfresh == Spec => []TimerStartsAfresh
<1>1. IInv => TimerStartsAfresh
  BY DEF IInv, StartInv, TimerGone, TimerStartsAfresh
<1> QED BY <1>1, Invariance, PTL

-----------------------------------------------------------------------------
(* A session: its subscriptions can be answered, Connected means that every*)
(* object was subscribed to, and until the retry timer fires for the first *)
(* time that every value was answered and that the timer watches those that*)
(* were not.                                                               *)

(* The link is up and the application is not about to take it down.        *)
Live == link = "up" /\ pc[App] \in {"idle", "addSet"}

(* A subscription that is awaited is with the device, or its answer is     *)
(* queued.                                                                 *)
AliveInv ==
  link = "up" =>
    \A h \in subs : (\E r \in wire : r.h = h) \/ \E i \in 1 .. Len(events) : events[i].h = h

(* The query of the GUID gets a usable answer: its handle is that of no    *)
(* other request, and the generic controller makes no such query.          *)
GuidAnswered == kind = "generic" \/ GuidAnswers \subseteq {"ok"}

GuidInv ==
  /\ \A r \in wire : <<r.h, Guid>> \in gets => r.ono = Guid
  /\ GuidAnswered =>
       \A i \in 1 .. Len(events) :
          events[i].e = "response" /\ <<events[i].h, Guid>> \in gets => events[i].status = "ok"
  /\ kind = "generic" => pc[Cb] # "askGuid" /\ \A p \in gets : p[2] # Guid

(* Every object was subscribed to, unless the subscriptions are still to   *)
(* be sent: once the connection is handled, or the GUID is known.          *)
AskedInv ==
  GuidAnswered /\ Live =>
    \/ asked = Objects
    \/ \E i \in 1 .. Len(events) : events[i] = Made
    \/ pc[Cb] \in {"askGuid", "subscribe"}
    \/ pc[Cb] = "sendSub" /\ Objects \ todo[Cb] \subseteq asked
    \/ \E p \in gets : p[2] = Guid

(* The retry timer has not fired.                                          *)
Unticked == budget["tick"] = Budget["tick"]

TickInv ==
  /\ budget \in [{"connect", "disconnect", "loss", "tick", "set"} -> Nat]
  /\ budget["tick"] =< Budget["tick"]
  /\ Unticked => pc[Tm] \in {"none", "wait", "return"}

(* Until then no value is pending when the controller is Connected, nor    *)
(* when it has seen that none is.                                          *)
CompleteInv ==
  Unticked =>
    /\ state = "Connected" => gets = {}
    /\ \/ Towards(Cb, "queried") \/ Towards(Cb, "setConnected") \/ Towards(Cb, "setSubscribing")
       => gets = {}
    /\ pc[Cb] \in {"query", "sendGet"} => state # "Connected"

(* And a value that is pending is watched, or will be when all are asked   *)
(* for.                                                                    *)
WatchedInv ==
  Unticked /\ Live /\ (\E p \in gets : p[2] \in Objects) =>
    ~ mStop \/ pc[Cb] \in {"sendGet", "start"}

SessionInv == AliveInv /\ GuidInv /\ AskedInv /\ TickInv /\ CompleteInv /\ WatchedInv

-----------------------------------------------------------------------------
(* Facts about the values.                                                 *)

(* A new handle is that of no request that is with the device, of no       *)
(* answer that is queued, and of no value that is pending.                 *)
LEMMA NewHandleUnused ==
  ASSUME Fresh # {}, events \in Seq(Events)
  PROVE  /\ \A r \in wire : r.h # NewHandle
         /\ \A i \in 1 .. Len(events) : events[i].h # NewHandle
         /\ \A p \in gets : p[1] # NewHandle
<1>1. NewHandle \notin Used
  <2>1. Fresh \in SUBSET Nat
    BY SizeAssumption DEF Fresh, Handles
  <2> QED BY <2>1, MinIn DEF NewHandle, Fresh
<1>2. \A i \in 1 .. Len(events) : events[i] \in ToSet(events)
  BY DEF ToSet
<1> QED BY <1>1, <1>2, Zenon DEF Used

(* What a callback reports.                                                *)
LEMMA Fields ==
  /\ Made.e = "made" /\ Lost.e = "lost"
  /\ \A h, s : Response(h, s).h = h /\ Response(h, s).status = s /\ Response(h, s).e = "response"
BY DEF Made, Lost, Response

(* Guid is not the number of a tracked object.                             *)
LEMMA GuidIsNoObject == Guid \notin Objects
BY DEF Guid, Objects

-----------------------------------------------------------------------------
(* The steps: one lemma for each action.                                   *)

(* stopTimer() by any thread, the timer's worker among them.               *)
LEMMA StopTimerServes ==
  ASSUME IInv, SessionInv, NEW t \in Threads, StopTimer(t)
  PROVE  SessionInv'
<1> USE DEF IInv, SessionInv, App, Cb, Tm, Threads
<1>1. AliveInv'
  BY DEF AliveInv, Goto, conn, pending, locals, StopTimer
<1>2. GuidInv'
  BY DEF GuidInv, DataInv, PlaceInv, GuidAnswered, AppPlaces, CbPlaces, TmPlaces, Goto, conn,
     pending, locals, StopTimer
<1>3. AskedInv'
  BY DEF AskedInv, DataInv, PlaceInv, Live, GuidAnswered, AppPlaces, CbPlaces, TmPlaces, Goto,
     conn, pending, locals, StopTimer
<1>4. TickInv'
  BY DEF TickInv, DataInv, PlaceInv, Unticked, AppPlaces, CbPlaces, TmPlaces, Goto, conn,
     pending, locals, StopTimer
<1>5. CompleteInv'
  BY DEF CompleteInv, DataInv, PlaceInv, Unticked, Towards, AppPlaces, CbPlaces, TmPlaces, Goto,
     conn, pending, locals, StopTimer
<1>6. WatchedInv'
  BY DEF WatchedInv, DataInv, PlaceInv, SentInv, TimerInv, CallInv, QueueInv, StartInv, LossInv,
     ConnectedInv, AliveInv, GuidInv, AskedInv, TickInv, CompleteInv, Live, Unticked, AppPlaces,
     CbPlaces, TmPlaces, Towards, TimerGone, Off, Fresher, GuidAnswered, Goto, conn, pending,
     locals, StopTimer
<1> QED BY <1>1, <1>2, <1>3, <1>4, <1>5, <1>6

(* The worker that stopTimer() waits for is gone.                          *)
LEMMA JoinTimerServes ==
  ASSUME IInv, SessionInv, NEW t \in Threads, JoinTimer(t)
  PROVE  SessionInv'
<1> USE DEF IInv, SessionInv, App, Cb, Tm, Threads
<1>1. AliveInv'
  BY DEF AliveInv, Goto, conn, pending, locals, JoinTimer
<1>2. GuidInv'
  BY DEF GuidInv, DataInv, PlaceInv, GuidAnswered, AppPlaces, CbPlaces, TmPlaces, Goto, conn,
     pending, locals, JoinTimer
<1>3. AskedInv'
  BY DEF AskedInv, DataInv, PlaceInv, Live, GuidAnswered, AppPlaces, CbPlaces, TmPlaces, Goto,
     conn, pending, locals, JoinTimer
<1>4. TickInv'
  BY DEF TickInv, Unticked, Goto, conn, pending, locals, JoinTimer
<1>5. CompleteInv'
  BY DEF CompleteInv, DataInv, PlaceInv, Unticked, Towards, AppPlaces, CbPlaces, TmPlaces, Goto,
     conn, pending, locals, JoinTimer
<1>6. WatchedInv'
  BY DEF WatchedInv, DataInv, PlaceInv, Live, Unticked, AppPlaces, CbPlaces, TmPlaces, Goto,
     conn, pending, locals, JoinTimer
<1> QED BY <1>1, <1>2, <1>3, <1>4, <1>5, <1>6

(* The timer is started, which nobody has started before.                  *)
LEMMA StartTimerServes ==
  ASSUME IInv, SessionInv, StartTimer
  PROVE  SessionInv'
<1> USE DEF IInv, SessionInv, App, Cb, Tm, Threads
<1>1. AliveInv'
  BY DEF AliveInv, conn, pending, locals, StartTimer
<1>2. GuidInv'
  BY DEF GuidInv, DataInv, PlaceInv, GuidAnswered, AppPlaces, CbPlaces, TmPlaces, conn, pending,
     locals, StartTimer
<1>3. AskedInv'
  BY DEF AskedInv, DataInv, PlaceInv, Live, GuidAnswered, AppPlaces, CbPlaces, TmPlaces, conn,
     pending, locals, StartTimer
<1>4. TickInv'
  BY DEF TickInv, DataInv, PlaceInv, Unticked, AppPlaces, CbPlaces, TmPlaces, conn, pending,
     locals, StartTimer
<1>5. CompleteInv'
  BY DEF CompleteInv, DataInv, PlaceInv, Unticked, Towards, AppPlaces, CbPlaces, TmPlaces, conn,
     pending, locals, StartTimer
<1>6. WatchedInv'
  BY DEF WatchedInv, Live, Unticked, conn, pending, locals, StartTimer
<1> QED BY <1>1, <1>2, <1>3, <1>4, <1>5, <1>6

(* The timer's worker begins a callback.                                   *)
LEMMA TimerFiresServes ==
  ASSUME IInv, SessionInv, TimerFires
  PROVE  SessionInv'
<1> USE DEF IInv, SessionInv, App, Cb, Tm, Threads
<1>1. AliveInv'
  BY DEF AliveInv, Goto, Spend, conn, pending, timer, locals, TimerFires
<1>2. GuidInv'
  BY DEF GuidInv, GuidAnswered, Goto, Spend, conn, pending, timer, locals, TimerFires
<1>3. AskedInv'
  BY DEF AskedInv, Live, GuidAnswered, Goto, Spend, conn, pending, timer, locals, TimerFires
<1>4. TickInv'
  <2>1. /\ budget["tick"] \in Nat /\ budget["tick"] =< Budget["tick"] /\ Budget["tick"] \in Nat
        /\ budget["tick"] > 0 /\ budget' = [budget EXCEPT !["tick"] = @ - 1]
    BY BudgetAssumption DEF TickInv, TimerFires, Spend
  <2>2. budget' \in [{"connect", "disconnect", "loss", "tick", "set"} -> Nat]
    BY <2>1 DEF TickInv
  <2>3. budget'["tick"] = budget["tick"] - 1
    BY <2>1 DEF TickInv
  <2> QED BY <2>1, <2>2, <2>3 DEF TickInv, Unticked
<1>5. CompleteInv'
  BY DEF CompleteInv, DataInv, PlaceInv, SentInv, TimerInv, CallInv, QueueInv, StartInv,
     LossInv, ConnectedInv, AliveInv, GuidInv, AskedInv, TickInv, WatchedInv, Unticked, Towards,
     AppPlaces, CbPlaces, TmPlaces, TimerGone, Off, Fresher, GuidAnswered, Live, Goto, Spend,
     conn, pending, timer, locals, TimerFires
<1>6. WatchedInv'
  BY DEF WatchedInv, Live, Unticked, Goto, Spend, conn, pending, timer, locals, TimerFires
<1> QED BY <1>1, <1>2, <1>3, <1>4, <1>5, <1>6

(* The timer's worker leaves its loop.                                     *)
LEMMA TimerLeavesServes ==
  ASSUME IInv, SessionInv, TimerLeaves
  PROVE  SessionInv'
<1> USE DEF IInv, SessionInv, App, Cb, Tm, Threads
<1>1. AliveInv'
  BY DEF AliveInv, Goto, conn, pending, timer, locals, TimerLeaves
<1>2. GuidInv'
  BY DEF GuidInv, GuidAnswered, Goto, conn, pending, timer, locals, TimerLeaves
<1>3. AskedInv'
  BY DEF AskedInv, Live, GuidAnswered, Goto, conn, pending, timer, locals, TimerLeaves
<1>4. TickInv'
  BY DEF TickInv, Unticked, Goto, conn, pending, timer, locals, TimerLeaves
<1>5. CompleteInv'
  BY DEF CompleteInv, Unticked, Towards, Goto, conn, pending, timer, locals, TimerLeaves
<1>6. WatchedInv'
  BY DEF WatchedInv, Live, Unticked, Goto, conn, pending, timer, locals, TimerLeaves
<1> QED BY <1>1, <1>2, <1>3, <1>4, <1>5, <1>6

(* The timer's worker waits again.                                         *)
LEMMA TimerWaitsServes ==
  ASSUME IInv, SessionInv, TimerWaits
  PROVE  SessionInv'
<1> USE DEF IInv, SessionInv, App, Cb, Tm, Threads
<1>1. AliveInv'
  BY DEF AliveInv, Goto, conn, pending, timer, locals, TimerWaits
<1>2. GuidInv'
  BY DEF GuidInv, GuidAnswered, Goto, conn, pending, timer, locals, TimerWaits
<1>3. AskedInv'
  BY DEF AskedInv, Live, GuidAnswered, Goto, conn, pending, timer, locals, TimerWaits
<1>4. TickInv'
  BY DEF TickInv, Unticked, Goto, conn, pending, timer, locals, TimerWaits
<1>5. CompleteInv'
  BY DEF CompleteInv, Unticked, Towards, Goto, conn, pending, timer, locals, TimerWaits
<1>6. WatchedInv'
  BY DEF WatchedInv, Live, Unticked, Goto, conn, pending, timer, locals, TimerWaits
<1> QED BY <1>1, <1>2, <1>3, <1>4, <1>5, <1>6

(* The connection is made, after all that was left of the last one is gone. *)
LEMMA LinkUpServes ==
  ASSUME IInv, SessionInv, LinkUp
  PROVE  SessionInv'
<1> USE DEF IInv, SessionInv, App, Cb, Tm, Threads
<1>1. AliveInv'
  BY DEF AliveInv, DataInv, PlaceInv, CallInv, QueueInv, StartInv, AppPlaces, CbPlaces,
     TmPlaces, Towards, TimerGone, Off, Fresher, pending, timer, locals, LinkUp
<1>2. GuidInv'
  BY DEF GuidInv, DataInv, PlaceInv, CallInv, QueueInv, StartInv, GuidAnswered, AppPlaces,
     CbPlaces, TmPlaces, Towards, TimerGone, Off, Fresher, pending, timer, locals, LinkUp
<1>3. AskedInv'
  BY DEF AskedInv, Live, GuidAnswered, pending, timer, locals, LinkUp
<1>4. TickInv'
  BY DEF TickInv, Unticked, pending, timer, locals, LinkUp
<1>5. CompleteInv'
  BY DEF CompleteInv, Unticked, Towards, pending, timer, locals, LinkUp
<1>6. WatchedInv'
  BY DEF WatchedInv, DataInv, PlaceInv, CallInv, QueueInv, StartInv, Live, Unticked, AppPlaces,
     CbPlaces, TmPlaces, Towards, TimerGone, Off, Fresher, pending, timer, locals, LinkUp
<1> QED BY <1>1, <1>2, <1>3, <1>4, <1>5, <1>6

(* The connection is lost.                                                 *)
LEMMA LinkLostServes ==
  ASSUME IInv, SessionInv, LinkLost
  PROVE  SessionInv'
<1> USE DEF IInv, SessionInv, App, Cb, Tm, Threads
<1>1. AliveInv'
  BY DEF AliveInv, Spend, pending, timer, locals, LinkLost
<1>2. GuidInv'
  <2>1. events \in Seq(Events) /\ events' = Append(events, Lost) /\ Lost \in Events
    BY EventsDiffer DEF DataInv, LinkLost
  <2>2. \A i \in 1 .. Len(events') :
           events'[i] = Lost \/ (i \in 1 .. Len(events) /\ events'[i] = events[i])
    BY <2>1, Added
  <2> QED BY <2>2, Fields DEF GuidInv, GuidAnswered, LinkLost, pending
<1>3. AskedInv'
  BY DEF AskedInv, Live, GuidAnswered, Spend, pending, timer, locals, LinkLost
<1>4. TickInv'
  BY DEF TickInv, Unticked, Spend, pending, timer, locals, LinkLost
<1>5. CompleteInv'
  BY DEF CompleteInv, Unticked, Towards, Spend, pending, timer, locals, LinkLost
<1>6. WatchedInv'
  BY DEF WatchedInv, Live, Unticked, Spend, pending, timer, locals, LinkLost
<1> QED BY <1>1, <1>2, <1>3, <1>4, <1>5, <1>6

(* The device answers a request.                                           *)
LEMMA DeviceAnswersServes ==
  ASSUME IInv, SessionInv, NEW r \in wire, DeviceAnswers(r)
  PROVE  SessionInv'
<1> USE DEF IInv, SessionInv, App, Cb, Tm, Threads
<1>1. AliveInv'
  <2>1. PICK s \in IF r.ono = Guid THEN GuidAnswers ELSE Answers :
           events' = Append(events, Response(r.h, s))
    BY DEF DeviceAnswers
  <2>2. events \in Seq(Events) /\ Response(r.h, s) \in Events
    <3>1. s \in {"ok", "odd", "error"}
      BY <2>1, AnswerAssumption
    <3>2. r.h \in Handles
      BY DEF DataInv
    <3> QED BY <3>1, <3>2, EventsDiffer DEF DataInv
  <2>3. /\ Len(events') = Len(events) + 1 /\ Len(events) \in Nat
        /\ events'[Len(events) + 1] = Response(r.h, s)
        /\ \A i \in 1 .. Len(events') :
             i # Len(events) + 1 => i \in 1 .. Len(events) /\ events'[i] = events[i]
        /\ \A i \in 1 .. Len(events) : i \in 1 .. Len(events') /\ events'[i] = events[i]
    BY <2>1, <2>2, Added
  <2>4. UNCHANGED <<subs, gets, kind, pc, link>> /\ wire' = wire \ {r}
    BY DEF DeviceAnswers, pending
  <2>5. ASSUME link = "up", NEW h \in subs
        PROVE  (\E q \in wire' : q.h = h) \/ \E i \in 1 .. Len(events') : events'[i].h = h
    <3>1. CASE r.h = h
      <4>1. Len(events) + 1 \in 1 .. Len(events')
        BY <2>3
      <4> QED BY <3>1, <4>1, <2>3, Fields
    <3>2. CASE \E q \in wire : q.h = h /\ q # r
      BY <3>2, <2>4
    <3>3. CASE \E i \in 1 .. Len(events) : events[i].h = h
      BY <3>3, <2>3
    <3> QED BY <2>5, <3>1, <3>2, <3>3 DEF AliveInv
  <2> QED BY <2>4, <2>5 DEF AliveInv
<1>2. GuidInv'
  <2>1. PICK s \in IF r.ono = Guid THEN GuidAnswers ELSE Answers :
           events' = Append(events, Response(r.h, s))
    BY DEF DeviceAnswers
  <2>2. events \in Seq(Events) /\ Response(r.h, s) \in Events
    <3>1. s \in {"ok", "odd", "error"}
      BY <2>1, AnswerAssumption
    <3>2. r.h \in Handles
      BY DEF DataInv
    <3> QED BY <3>1, <3>2, EventsDiffer DEF DataInv
  <2>3. /\ Len(events') = Len(events) + 1 /\ Len(events) \in Nat
        /\ events'[Len(events) + 1] = Response(r.h, s)
        /\ \A i \in 1 .. Len(events') :
             i # Len(events) + 1 => i \in 1 .. Len(events) /\ events'[i] = events[i]
        /\ \A i \in 1 .. Len(events) : i \in 1 .. Len(events') /\ events'[i] = events[i]
    BY <2>1, <2>2, Added
  <2>4. UNCHANGED <<subs, gets, kind, pc, link>> /\ wire' = wire \ {r}
    BY DEF DeviceAnswers, pending
  <2>5. ASSUME GuidAnswered, <<r.h, Guid>> \in gets
        PROVE  s = "ok"
    BY <2>1, <2>5 DEF GuidInv, GuidAnswered, DataInv
  <2>6. ASSUME GuidAnswered, NEW i \in 1 .. Len(events'), <<events'[i].h, Guid>> \in gets,
               events'[i].e = "response"
        PROVE  events'[i].status = "ok"
    <3>1. CASE i = Len(events) + 1
      BY <2>3, <2>5, <2>6, <3>1, Fields
    <3>2. CASE i # Len(events) + 1
      BY <2>3, <2>6, <3>2 DEF GuidInv
    <3> QED BY <3>1, <3>2
  <2> QED BY <2>4, <2>6 DEF GuidInv, GuidAnswered
<1>3. AskedInv'
  BY DEF AskedInv, Live, GuidAnswered, pending, timer, locals, DeviceAnswers
<1>4. TickInv'
  BY DEF TickInv, Unticked, pending, timer, locals, DeviceAnswers
<1>5. CompleteInv'
  BY DEF CompleteInv, Unticked, Towards, pending, timer, locals, DeviceAnswers
<1>6. WatchedInv'
  BY DEF WatchedInv, Live, Unticked, pending, timer, locals, DeviceAnswers
<1> QED BY <1>1, <1>2, <1>3, <1>4, <1>5, <1>6

(* The controller hears of the connection.                                 *)
LEMMA EstablishedServes ==
  ASSUME IInv, SessionInv, Established
  PROVE  SessionInv'
<1> USE DEF IInv, SessionInv, App, Cb, Tm, Threads
<1>1. AliveInv'
  BY DEF AliveInv, DataInv, PlaceInv, CallInv, QueueInv, StartInv, AppPlaces, CbPlaces,
     TmPlaces, Towards, TimerGone, Off, Fresher, Goto, pending, timer, Established
<1>2. GuidInv'
  BY DEF GuidInv, GuidAnswered, Goto, pending, timer, Established
<1>3. AskedInv'
  BY DEF AskedInv, DataInv, PlaceInv, Live, GuidAnswered, AppPlaces, CbPlaces, TmPlaces, Goto,
     pending, timer, Established
<1>4. TickInv'
  BY DEF TickInv, Unticked, Goto, pending, timer, Established
<1>5. CompleteInv'
  BY DEF CompleteInv, Unticked, Towards, Goto, pending, timer, Established
<1>6. WatchedInv'
  BY DEF WatchedInv, Live, Unticked, Goto, pending, timer, Established
<1> QED BY <1>1, <1>2, <1>3, <1>4, <1>5, <1>6

(* The GUID is asked for, before anything else.                            *)
LEMMA AskGuidServes ==
  ASSUME IInv, SessionInv, AskGuid
  PROVE  SessionInv'
<1> USE DEF IInv, SessionInv, App, Cb, Tm, Threads
<1>1. AliveInv'
  BY DEF AliveInv, Goto, Send, timer, locals, AskGuid
<1>2. GuidInv'
  <2>1. /\ Fresh # {} /\ events' = events /\ kind' = kind /\ pc[Cb] = "askGuid"
        /\ link' = link /\ state' = state /\ asked' = asked /\ pc'[Cb] = "idle"
        /\ gets' = IF link = "up" THEN gets \cup {<<NewHandle, Guid>>} ELSE gets
        /\ wire' = IF link = "up" THEN wire \cup {[h |-> NewHandle, ono |-> Guid]} ELSE wire
        /\ gets = {}
    BY DEF AskGuid, Send, PlaceInv, StartInv, Goto
  <2>2. \A r \in wire : r.h # NewHandle
    BY <2>1, NewHandleUnused DEF DataInv
  <2>3. \A i \in 1 .. Len(events) : events[i].h # NewHandle
    BY <2>1, NewHandleUnused DEF DataInv
  <2>4. kind # "generic"
    BY <2>1 DEF GuidInv
  <2>5. \A r \in wire' : <<r.h, Guid>> \in gets' => r.ono = Guid
    BY <2>1, <2>2
  <2>6. \A i \in 1 .. Len(events') : <<events'[i].h, Guid>> \notin gets'
    BY <2>1, <2>3
  <2> QED BY <2>1, <2>4, <2>5, <2>6 DEF GuidInv
<1>3. AskedInv'
  <2>1. /\ Fresh # {} /\ events' = events /\ kind' = kind /\ pc[Cb] = "askGuid"
        /\ link' = link /\ state' = state /\ asked' = asked /\ pc'[Cb] = "idle"
        /\ gets' = IF link = "up" THEN gets \cup {<<NewHandle, Guid>>} ELSE gets
        /\ wire' = IF link = "up" THEN wire \cup {[h |-> NewHandle, ono |-> Guid]} ELSE wire
        /\ gets = {}
    BY DEF AskGuid, Send, PlaceInv, StartInv, Goto
  <2>2. link = "up" => <<NewHandle, Guid>> \in gets' /\ <<NewHandle, Guid>>[2] = Guid
    BY <2>1
  <2> QED BY <2>1, <2>2 DEF AskedInv, Live
<1>4. TickInv'
  BY DEF TickInv, Unticked, Goto, Send, timer, locals, AskGuid
<1>5. CompleteInv'
  BY DEF CompleteInv, DataInv, PlaceInv, CallInv, QueueInv, StartInv, Unticked, Towards,
     AppPlaces, CbPlaces, TmPlaces, TimerGone, Off, Fresher, Goto, Send, timer, locals, AskGuid
<1>6. WatchedInv'
  <2>1. /\ Fresh # {} /\ events' = events /\ kind' = kind /\ pc[Cb] = "askGuid"
        /\ link' = link /\ state' = state /\ asked' = asked /\ pc'[Cb] = "idle"
        /\ gets' = IF link = "up" THEN gets \cup {<<NewHandle, Guid>>} ELSE gets
        /\ wire' = IF link = "up" THEN wire \cup {[h |-> NewHandle, ono |-> Guid]} ELSE wire
        /\ gets = {}
    BY DEF AskGuid, Send, PlaceInv, StartInv, Goto
  <2>2. \A p \in gets' : p[2] = Guid
    BY <2>1
  <2> QED BY <2>2, GuidIsNoObject DEF WatchedInv
<1> QED BY <1>1, <1>2, <1>3, <1>4, <1>5, <1>6

(* The subscriptions begin.                                                *)
LEMMA SubscribeServes ==
  ASSUME IInv, SessionInv, Subscribe
  PROVE  SessionInv'
<1> USE DEF IInv, SessionInv, App, Cb, Tm, Threads
<1>1. AliveInv'
  BY DEF AliveInv, Goto, conn, pending, timer, Subscribe
<1>2. GuidInv'
  BY DEF GuidInv, DataInv, PlaceInv, GuidAnswered, AppPlaces, CbPlaces, TmPlaces, Goto, conn,
     pending, timer, Subscribe
<1>3. AskedInv'
  BY DEF AskedInv, DataInv, PlaceInv, CallInv, QueueInv, StartInv, Live, GuidAnswered,
     AppPlaces, CbPlaces, TmPlaces, Towards, TimerGone, Off, Fresher, Goto, conn, pending,
     timer, Subscribe
<1>4. TickInv'
  BY DEF TickInv, DataInv, PlaceInv, Unticked, AppPlaces, CbPlaces, TmPlaces, Goto, conn,
     pending, timer, Subscribe
<1>5. CompleteInv'
  BY DEF CompleteInv, DataInv, PlaceInv, CallInv, QueueInv, StartInv, Unticked, Towards,
     AppPlaces, CbPlaces, TmPlaces, TimerGone, Off, Fresher, Goto, conn, pending, timer,
     Subscribe
<1>6. WatchedInv'
  BY DEF WatchedInv, DataInv, PlaceInv, Live, Unticked, AppPlaces, CbPlaces, TmPlaces, Goto,
     conn, pending, timer, Subscribe
<1> QED BY <1>1, <1>2, <1>3, <1>4, <1>5, <1>6

(* A subscription is sent.                                                 *)
LEMMA SendSubscriptionServes ==
  ASSUME IInv, SessionInv, SendSubscription
  PROVE  SessionInv'
<1> USE DEF IInv, SessionInv, App, Cb, Tm, Threads
<1>1. AliveInv'
  <2>1. PICK o \in Objects : Send(o)
    <3>1. todo[Cb] \in SUBSET Nat /\ todo[Cb] \subseteq Objects /\ todo[Cb] # {}
      BY DEF DataInv, SendSubscription, Objects
    <3> QED BY <3>1, MinIn DEF SendSubscription
  <2>2. UNCHANGED <<link, events>> /\ subs' = subs \cup {NewHandle}
    BY DEF SendSubscription
  <2>3. ASSUME link = "up"
        PROVE  /\ wire \subseteq wire'
               /\ \E r \in wire' : r.h = NewHandle
    <3> DEFINE q == [h |-> NewHandle, ono |-> o]
    <3>1. wire' = wire \cup {q}
      BY <2>1, <2>3 DEF Send
    <3>2. q.h = NewHandle
      OBVIOUS
    <3> HIDE DEF q
    <3> QED BY <3>1, <3>2
  <2> QED BY <2>2, <2>3 DEF AliveInv
<1>2. GuidInv'
  BY DEF GuidInv, DataInv, PlaceInv, CallInv, QueueInv, StartInv, GuidAnswered, AppPlaces,
     CbPlaces, TmPlaces, Towards, TimerGone, Off, Fresher, Send, timer, SendSubscription
<1>3. AskedInv'
  BY DEF AskedInv, Live, GuidAnswered, Send, timer, SendSubscription
<1>4. TickInv'
  BY DEF TickInv, Unticked, Send, timer, SendSubscription
<1>5. CompleteInv'
  BY DEF CompleteInv, Unticked, Towards, Send, timer, SendSubscription
<1>6. WatchedInv'
  BY DEF WatchedInv, Live, Unticked, Send, timer, SendSubscription
<1> QED BY <1>1, <1>2, <1>3, <1>4, <1>5, <1>6

(* The last of the subscriptions is sent.                                  *)
LEMMA SubscriptionsSentServes ==
  ASSUME IInv, SessionInv, SubscriptionsSent
  PROVE  SessionInv'
<1> USE DEF IInv, SessionInv, App, Cb, Tm, Threads
<1>1. AliveInv'
  BY DEF AliveInv, Goto, conn, pending, timer, locals, SubscriptionsSent
<1>2. GuidInv'
  BY DEF GuidInv, GuidAnswered, Goto, conn, pending, timer, locals, SubscriptionsSent
<1>3. AskedInv'
  BY DEF AskedInv, DataInv, PlaceInv, Live, GuidAnswered, AppPlaces, CbPlaces, TmPlaces, Goto,
     conn, pending, timer, locals, SubscriptionsSent
<1>4. TickInv'
  BY DEF TickInv, Unticked, Goto, conn, pending, timer, locals, SubscriptionsSent
<1>5. CompleteInv'
  BY DEF CompleteInv, DataInv, PlaceInv, CallInv, QueueInv, StartInv, Unticked, Towards,
     AppPlaces, CbPlaces, TmPlaces, TimerGone, Off, Fresher, Goto, conn, pending, timer, locals,
     SubscriptionsSent
<1>6. WatchedInv'
  BY DEF WatchedInv, Live, Unticked, Goto, conn, pending, timer, locals, SubscriptionsSent
<1> QED BY <1>1, <1>2, <1>3, <1>4, <1>5, <1>6

(* The queries begin.                                                      *)
LEMMA QueryServes ==
  ASSUME IInv, SessionInv, Query
  PROVE  SessionInv'
<1> USE DEF IInv, SessionInv, App, Cb, Tm, Threads
<1>1. AliveInv'
  BY DEF AliveInv, Goto, conn, pending, timer, Query
<1>2. GuidInv'
  BY DEF GuidInv, DataInv, PlaceInv, GuidAnswered, AppPlaces, CbPlaces, TmPlaces, Goto, conn,
     pending, timer, Query
<1>3. AskedInv'
  BY DEF AskedInv, DataInv, PlaceInv, Live, GuidAnswered, AppPlaces, CbPlaces, TmPlaces, Goto,
     conn, pending, timer, Query
<1>4. TickInv'
  BY DEF TickInv, DataInv, PlaceInv, Unticked, AppPlaces, CbPlaces, TmPlaces, Goto, conn,
     pending, timer, Query
<1>5. CompleteInv'
  BY DEF CompleteInv, DataInv, PlaceInv, Unticked, Towards, AppPlaces, CbPlaces, TmPlaces, Goto,
     conn, pending, timer, Query
<1>6. WatchedInv'
  BY DEF WatchedInv, DataInv, PlaceInv, Live, Unticked, AppPlaces, CbPlaces, TmPlaces, Goto,
     conn, pending, timer, Query
<1> QED BY <1>1, <1>2, <1>3, <1>4, <1>5, <1>6

(* A query is sent.                                                        *)
LEMMA SendQueryServes ==
  ASSUME IInv, SessionInv, SendQuery
  PROVE  SessionInv'
<1> USE DEF IInv, SessionInv, App, Cb, Tm, Threads
<1>1. AliveInv'
  BY DEF AliveInv, Send, timer, SendQuery
<1>2. GuidInv'
  <2>1. PICK o \in Objects : /\ Send(o)
                            /\ gets' = IF link = "up" THEN gets \cup {<<NewHandle, o>>} ELSE gets
    <3>1. todo[Cb] \in SUBSET Nat /\ todo[Cb] \subseteq Objects /\ todo[Cb] # {}
      BY DEF DataInv, SendQuery, Objects
    <3> QED BY <3>1, MinIn DEF SendQuery
  <2>2. UNCHANGED <<events, kind, pc>> /\ Fresh # {}
    BY DEF SendQuery
  <2>3. \A h : <<h, Guid>> \in gets' <=> <<h, Guid>> \in gets
    BY <2>1, GuidIsNoObject
  <2>4. \A p \in gets : p[1] # NewHandle
    BY <2>2, NewHandleUnused DEF DataInv
  <2>5. \A r \in wire' : <<r.h, Guid>> \in gets' => r.ono = Guid
    BY <2>1, <2>3, <2>4 DEF Send, GuidInv
  <2>6. \A p \in gets' : p[2] = Guid => p \in gets
    BY <2>1, GuidIsNoObject
  <2> QED BY <2>2, <2>3, <2>5, <2>6 DEF GuidInv, GuidAnswered
<1>3. AskedInv'
  BY DEF AskedInv, Live, GuidAnswered, Send, timer, SendQuery
<1>4. TickInv'
  BY DEF TickInv, Unticked, Send, timer, SendQuery
<1>5. CompleteInv'
  BY DEF CompleteInv, Unticked, Towards, Send, timer, SendQuery
<1>6. WatchedInv'
  BY DEF WatchedInv, Live, Unticked, Send, timer, SendQuery
<1> QED BY <1>1, <1>2, <1>3, <1>4, <1>5, <1>6

(* The last of the queries is sent.                                        *)
LEMMA QueriesSentServes ==
  ASSUME IInv, SessionInv, QueriesSent
  PROVE  SessionInv'
<1> USE DEF IInv, SessionInv, App, Cb, Tm, Threads
<1>1. AliveInv'
  BY DEF AliveInv, Goto, CallStop, conn, pending, timer, locals, QueriesSent
<1>2. GuidInv'
  BY DEF GuidInv, DataInv, PlaceInv, GuidAnswered, AppPlaces, CbPlaces, TmPlaces, Goto,
     CallStop, conn, pending, timer, locals, QueriesSent
<1>3. AskedInv'
  BY DEF AskedInv, DataInv, PlaceInv, Live, GuidAnswered, AppPlaces, CbPlaces, TmPlaces, Goto,
     CallStop, conn, pending, timer, locals, QueriesSent
<1>4. TickInv'
  BY DEF TickInv, DataInv, PlaceInv, Unticked, AppPlaces, CbPlaces, TmPlaces, Goto, CallStop,
     conn, pending, timer, locals, QueriesSent
<1>5. CompleteInv'
  BY DEF CompleteInv, DataInv, PlaceInv, Unticked, Towards, AppPlaces, CbPlaces, TmPlaces, Goto,
     CallStop, conn, pending, timer, locals, QueriesSent
<1>6. WatchedInv'
  BY DEF WatchedInv, DataInv, PlaceInv, Live, Unticked, AppPlaces, CbPlaces, TmPlaces, Goto,
     CallStop, conn, pending, timer, locals, QueriesSent
<1> QED BY <1>1, <1>2, <1>3, <1>4, <1>5, <1>6

(* There was nothing to query.                                             *)
LEMMA NothingQueriedServes ==
  ASSUME IInv, SessionInv, NothingQueried
  PROVE  SessionInv'
<1> USE DEF IInv, SessionInv, App, Cb, Tm, Threads
<1>1. AliveInv'
  BY DEF AliveInv, Goto, conn, pending, timer, locals, NothingQueried
<1>2. GuidInv'
  BY DEF GuidInv, GuidAnswered, Goto, conn, pending, timer, locals, NothingQueried
<1>3. AskedInv'
  BY DEF AskedInv, Live, GuidAnswered, Goto, conn, pending, timer, locals, NothingQueried
<1>4. TickInv'
  BY DEF TickInv, Unticked, Goto, conn, pending, timer, locals, NothingQueried
<1>5. CompleteInv'
  BY DEF CompleteInv, Unticked, Towards, Goto, conn, pending, timer, locals, NothingQueried
<1>6. WatchedInv'
  BY DEF WatchedInv, Live, Unticked, Goto, conn, pending, timer, locals, NothingQueried
<1> QED BY <1>1, <1>2, <1>3, <1>4, <1>5, <1>6

(* A response is handled: the GUID's, a subscription's, a value's or another. *)
LEMMA RespondServes ==
  ASSUME IInv, SessionInv, Respond
  PROVE  SessionInv'
<1> USE DEF IInv, SessionInv, App, Cb, Tm, Threads
<1>1. AliveInv'
  <2> DEFINE r == Head(events)
  <2>1. /\ events # <<>> /\ events \in Seq(Events) /\ r = events[1] /\ r.e = "response"
        /\ pc[Cb] = "idle" /\ events' = Tail(events)
        /\ UNCHANGED <<kind, state, link, wire, asked>> /\ pc'[App] = pc[App]
        /\ subs' = subs \ {r.h} /\ gets' = gets \ {p \in gets : p[1] = r.h}
    BY Taken DEF DataInv, PlaceInv, Respond, Goto
  <2>2. /\ Len(events) \in Nat \ {0} /\ Len(events') = Len(events) - 1
        /\ \A i \in 1 .. Len(events') : events'[i] = events[i + 1] /\ i + 1 \in 1 .. Len(events)
        /\ \A i \in 1 .. Len(events) :
             i = 1 \/ (i - 1 \in 1 .. Len(events') /\ events'[i - 1] = events[i])
    BY <2>1, Taken
  <2>3. ASSUME link = "up", NEW h \in subs, h # r.h
        PROVE  (\E q \in wire : q.h = h) \/ \E i \in 1 .. Len(events') : events'[i].h = h
    <3>1. CASE \E q \in wire : q.h = h
      BY <3>1
    <3>2. CASE \E i \in 1 .. Len(events) : events[i].h = h
      <4>1. PICK i \in 1 .. Len(events) : events[i].h = h
        BY <3>2
      <4>2. i # 1
        BY <2>1, <2>3, <4>1
      <4>3. i - 1 \in 1 .. Len(events') /\ events'[i - 1].h = h
        BY <2>2, <4>1, <4>2
      <4> QED BY <4>3
    <3> QED BY <2>3, <3>1, <3>2 DEF AliveInv
  <2> QED BY <2>1, <2>3 DEF AliveInv
<1>2. GuidInv'
  BY DEF GuidInv, GuidAnswered, Goto, timer, Respond
<1>3. AskedInv'
  <2> DEFINE r == Head(events)
  <2>1. /\ events # <<>> /\ events \in Seq(Events) /\ r = events[1] /\ r.e = "response"
        /\ pc[Cb] = "idle" /\ events' = Tail(events)
        /\ UNCHANGED <<kind, state, link, wire, asked>> /\ pc'[App] = pc[App]
        /\ subs' = subs \ {r.h} /\ gets' = gets \ {p \in gets : p[1] = r.h}
    BY Taken DEF DataInv, PlaceInv, Respond, Goto
  <2>2. /\ Len(events) \in Nat \ {0} /\ Len(events') = Len(events) - 1
        /\ \A i \in 1 .. Len(events') : events'[i] = events[i + 1] /\ i + 1 \in 1 .. Len(events)
        /\ \A i \in 1 .. Len(events) :
             i = 1 \/ (i - 1 \in 1 .. Len(events') /\ events'[i - 1] = events[i])
    BY <2>1, Taken
  <2>3. \A i \in 1 .. Len(events) : events[i] # Made
    BY <2>1, EventsDiffer DEF QueueInv
  <2>4. ASSUME NEW p \in gets, p[2] = Guid, p \notin gets', GuidAnswered
        PROVE  pc'[Cb] = "subscribe"
    <3>1. p = <<r.h, Guid>> /\ gets = {p} /\ subs = {}
      BY <2>1, <2>4 DEF DataInv, StartInv
    <3>2. r.status = "ok"
      BY <2>1, <2>2, <2>4, <3>1 DEF GuidInv
    <3>3. inGuid'
      BY <3>1, <3>2 DEF Respond
    <3> QED BY <3>1, <3>3 DEF Respond, PlaceInv, Goto
  <2> QED BY <2>1, <2>3, <2>4 DEF AskedInv, Live, GuidAnswered
<1>4. TickInv'
  BY DEF TickInv, Unticked, Goto, timer, Respond
<1>5. CompleteInv'
  BY DEF CompleteInv, Unticked, Towards, Goto, timer, Respond
<1>6. WatchedInv'
  BY DEF WatchedInv, Live, Unticked, Goto, timer, Respond
<1> QED BY <1>1, <1>2, <1>3, <1>4, <1>5, <1>6

(* The last subscription is answered.                                      *)
LEMMA AllSubscribedServes ==
  ASSUME IInv, SessionInv, AllSubscribed
  PROVE  SessionInv'
<1> USE DEF IInv, SessionInv, App, Cb, Tm, Threads
<1>1. AliveInv'
  BY DEF AliveInv, Goto, conn, pending, timer, locals, AllSubscribed
<1>2. GuidInv'
  BY DEF GuidInv, GuidAnswered, Goto, conn, pending, timer, locals, AllSubscribed
<1>3. AskedInv'
  BY DEF AskedInv, Live, GuidAnswered, Goto, conn, pending, timer, locals, AllSubscribed
<1>4. TickInv'
  BY DEF TickInv, Unticked, Goto, conn, pending, timer, locals, AllSubscribed
<1>5. CompleteInv'
  BY DEF CompleteInv, Unticked, Towards, Goto, conn, pending, timer, locals, AllSubscribed
<1>6. WatchedInv'
  BY DEF WatchedInv, Live, Unticked, Goto, conn, pending, timer, locals, AllSubscribed
<1> QED BY <1>1, <1>2, <1>3, <1>4, <1>5, <1>6

(* It is seen whether values are pending.                                  *)
LEMMA ValuesPendingServes ==
  ASSUME IInv, SessionInv, ValuesPending
  PROVE  SessionInv'
<1> USE DEF IInv, SessionInv, App, Cb, Tm, Threads
<1>1. AliveInv'
  BY DEF AliveInv, Goto, CallStop, conn, pending, timer, locals, ValuesPending
<1>2. GuidInv'
  BY DEF GuidInv, DataInv, PlaceInv, GuidAnswered, AppPlaces, CbPlaces, TmPlaces, Goto,
     CallStop, conn, pending, timer, locals, ValuesPending
<1>3. AskedInv'
  BY DEF AskedInv, DataInv, PlaceInv, Live, GuidAnswered, AppPlaces, CbPlaces, TmPlaces, Goto,
     CallStop, conn, pending, timer, locals, ValuesPending
<1>4. TickInv'
  BY DEF TickInv, DataInv, PlaceInv, Unticked, AppPlaces, CbPlaces, TmPlaces, Goto, CallStop,
     conn, pending, timer, locals, ValuesPending
<1>5. CompleteInv'
  BY DEF CompleteInv, DataInv, PlaceInv, Unticked, Towards, AppPlaces, CbPlaces, TmPlaces, Goto,
     CallStop, conn, pending, timer, locals, ValuesPending
<1>6. WatchedInv'
  BY DEF WatchedInv, DataInv, PlaceInv, Live, Unticked, AppPlaces, CbPlaces, TmPlaces, Goto,
     CallStop, conn, pending, timer, locals, ValuesPending
<1> QED BY <1>1, <1>2, <1>3, <1>4, <1>5, <1>6

(* It is seen whether that was the last value.                             *)
LEMMA GotValueServes ==
  ASSUME IInv, SessionInv, GotValue
  PROVE  SessionInv'
<1> USE DEF IInv, SessionInv, App, Cb, Tm, Threads
<1>1. AliveInv'
  BY DEF AliveInv, Goto, CallStop, conn, pending, timer, locals, GotValue
<1>2. GuidInv'
  BY DEF GuidInv, DataInv, PlaceInv, GuidAnswered, AppPlaces, CbPlaces, TmPlaces, Goto,
     CallStop, conn, pending, timer, locals, GotValue
<1>3. AskedInv'
  BY DEF AskedInv, DataInv, PlaceInv, Live, GuidAnswered, AppPlaces, CbPlaces, TmPlaces, Goto,
     CallStop, conn, pending, timer, locals, GotValue
<1>4. TickInv'
  BY DEF TickInv, DataInv, PlaceInv, Unticked, AppPlaces, CbPlaces, TmPlaces, Goto, CallStop,
     conn, pending, timer, locals, GotValue
<1>5. CompleteInv'
  BY DEF CompleteInv, DataInv, PlaceInv, Unticked, Towards, AppPlaces, CbPlaces, TmPlaces, Goto,
     CallStop, conn, pending, timer, locals, GotValue
<1>6. WatchedInv'
  BY DEF WatchedInv, DataInv, PlaceInv, Live, Unticked, AppPlaces, CbPlaces, TmPlaces, Goto,
     CallStop, conn, pending, timer, locals, GotValue
<1> QED BY <1>1, <1>2, <1>3, <1>4, <1>5, <1>6

(* A decision made earlier becomes the state.                              *)
LEMMA SetStateServes ==
  ASSUME IInv, SessionInv, NEW t \in Threads, SetState(t)
  PROVE  SessionInv'
<1> USE DEF IInv, SessionInv, App, Cb, Tm, Threads
<1>1. AliveInv'
  BY DEF AliveInv, Goto, Done, conn, pending, timer, locals, SetState
<1>2. GuidInv'
  BY DEF GuidInv, GuidAnswered, Goto, Done, conn, pending, timer, locals, SetState
<1>3. AskedInv'
  BY DEF AskedInv, DataInv, PlaceInv, Live, GuidAnswered, AppPlaces, CbPlaces, TmPlaces, Goto,
     Done, conn, pending, timer, locals, SetState
<1>4. TickInv'
  BY DEF TickInv, Unticked, Goto, Done, conn, pending, timer, locals, SetState
<1>5. CompleteInv'
  BY DEF CompleteInv, DataInv, PlaceInv, SentInv, TimerInv, CallInv, QueueInv, StartInv,
     LossInv, ConnectedInv, AliveInv, GuidInv, AskedInv, TickInv, WatchedInv, Unticked, Towards,
     AppPlaces, CbPlaces, TmPlaces, TimerGone, Off, Fresher, GuidAnswered, Live, Goto, Done,
     conn, pending, timer, locals, SetState
<1>6. WatchedInv'
  BY DEF WatchedInv, DataInv, PlaceInv, Live, Unticked, AppPlaces, CbPlaces, TmPlaces, Goto,
     Done, conn, pending, timer, locals, SetState
<1> QED BY <1>1, <1>2, <1>3, <1>4, <1>5, <1>6

(* The controller hears of the loss.                                       *)
LEMMA ConnectionLostServes ==
  ASSUME IInv, SessionInv, ConnectionLost
  PROVE  SessionInv'
<1> USE DEF IInv, SessionInv, App, Cb, Tm, Threads
<1>1. AliveInv'
  BY DEF AliveInv, DataInv, PlaceInv, CallInv, QueueInv, StartInv, AppPlaces, CbPlaces,
     TmPlaces, Towards, TimerGone, Off, Fresher, CallStop, Goto, pending, timer, locals,
     ConnectionLost
<1>2. GuidInv'
  BY DEF GuidInv, GuidAnswered, CallStop, Goto, pending, timer, locals, ConnectionLost
<1>3. AskedInv'
  BY DEF AskedInv, DataInv, PlaceInv, CallInv, QueueInv, StartInv, Live, GuidAnswered,
     AppPlaces, CbPlaces, TmPlaces, Towards, TimerGone, Off, Fresher, CallStop, Goto, pending,
     timer, locals, ConnectionLost
<1>4. TickInv'
  BY DEF TickInv, Unticked, CallStop, Goto, pending, timer, locals, ConnectionLost
<1>5. CompleteInv'
  BY DEF CompleteInv, DataInv, PlaceInv, Unticked, Towards, AppPlaces, CbPlaces, TmPlaces,
     CallStop, Goto, pending, timer, locals, ConnectionLost
<1>6. WatchedInv'
  BY DEF WatchedInv, Live, Unticked, CallStop, Goto, pending, timer, locals, ConnectionLost
<1> QED BY <1>1, <1>2, <1>3, <1>4, <1>5, <1>6

(* The pending requests are forgotten.                                     *)
LEMMA ClearPendingServes ==
  ASSUME IInv, SessionInv, NEW t \in Threads, ClearPending(t)
  PROVE  SessionInv'
<1> USE DEF IInv, SessionInv, App, Cb, Tm, Threads
<1>1. AliveInv'
  BY DEF AliveInv, Goto, conn, timer, locals, ClearPending
<1>2. GuidInv'
  BY DEF GuidInv, GuidAnswered, Goto, conn, timer, locals, ClearPending
<1>3. AskedInv'
  BY DEF AskedInv, DataInv, PlaceInv, CallInv, QueueInv, StartInv, Live, GuidAnswered,
     AppPlaces, CbPlaces, TmPlaces, Towards, TimerGone, Off, Fresher, Goto, conn, timer, locals,
     ClearPending
<1>4. TickInv'
  BY DEF TickInv, Unticked, Goto, conn, timer, locals, ClearPending
<1>5. CompleteInv'
  BY DEF CompleteInv, Unticked, Towards, Goto, conn, timer, locals, ClearPending
<1>6. WatchedInv'
  BY DEF WatchedInv, Live, Unticked, Goto, conn, timer, locals, ClearPending
<1> QED BY <1>1, <1>2, <1>3, <1>4, <1>5, <1>6

(* It is seen whether the application has disconnected.                    *)
LEMMA LostCheckServes ==
  ASSUME IInv, SessionInv, NEW t \in Threads, LostCheck(t)
  PROVE  SessionInv'
<1> USE DEF IInv, SessionInv, App, Cb, Tm, Threads
<1>1. AliveInv'
  BY DEF AliveInv, Goto, conn, pending, timer, locals, LostCheck
<1>2. GuidInv'
  BY DEF GuidInv, GuidAnswered, Goto, conn, pending, timer, locals, LostCheck
<1>3. AskedInv'
  BY DEF AskedInv, Live, GuidAnswered, Goto, conn, pending, timer, locals, LostCheck
<1>4. TickInv'
  BY DEF TickInv, Unticked, Goto, conn, pending, timer, locals, LostCheck
<1>5. CompleteInv'
  BY DEF CompleteInv, Unticked, Towards, Goto, conn, pending, timer, locals, LostCheck
<1>6. WatchedInv'
  BY DEF WatchedInv, Live, Unticked, Goto, conn, pending, timer, locals, LostCheck
<1> QED BY <1>1, <1>2, <1>3, <1>4, <1>5, <1>6

(* It has not.                                                             *)
LEMMA LostSetConnectingServes ==
  ASSUME IInv, SessionInv, NEW t \in Threads, LostSetConnecting(t)
  PROVE  SessionInv'
<1> USE DEF IInv, SessionInv, App, Cb, Tm, Threads
<1>1. AliveInv'
  BY DEF AliveInv, Goto, conn, pending, timer, locals, LostSetConnecting
<1>2. GuidInv'
  BY DEF GuidInv, GuidAnswered, Goto, conn, pending, timer, locals, LostSetConnecting
<1>3. AskedInv'
  BY DEF AskedInv, Live, GuidAnswered, Goto, conn, pending, timer, locals, LostSetConnecting
<1>4. TickInv'
  BY DEF TickInv, Unticked, Goto, conn, pending, timer, locals, LostSetConnecting
<1>5. CompleteInv'
  BY DEF CompleteInv, Unticked, Towards, Goto, conn, pending, timer, locals, LostSetConnecting
<1>6. WatchedInv'
  BY DEF WatchedInv, Live, Unticked, Goto, conn, pending, timer, locals, LostSetConnecting
<1> QED BY <1>1, <1>2, <1>3, <1>4, <1>5, <1>6

(* The client dials again.                                                 *)
LEMMA LostReturnsServes ==
  ASSUME IInv, SessionInv, LostReturns
  PROVE  SessionInv'
<1> USE DEF IInv, SessionInv, App, Cb, Tm, Threads
<1>1. AliveInv'
  BY DEF AliveInv, Goto, pending, timer, locals, LostReturns
<1>2. GuidInv'
  BY DEF GuidInv, GuidAnswered, Goto, pending, timer, locals, LostReturns
<1>3. AskedInv'
  BY DEF AskedInv, Live, GuidAnswered, Goto, pending, timer, locals, LostReturns
<1>4. TickInv'
  BY DEF TickInv, Unticked, Goto, pending, timer, locals, LostReturns
<1>5. CompleteInv'
  BY DEF CompleteInv, Unticked, Towards, Goto, pending, timer, locals, LostReturns
<1>6. WatchedInv'
  BY DEF WatchedInv, Live, Unticked, Goto, pending, timer, locals, LostReturns
<1> QED BY <1>1, <1>2, <1>3, <1>4, <1>5, <1>6

(* connect().                                                              *)
LEMMA ConnectServes ==
  ASSUME IInv, SessionInv, Connect
  PROVE  SessionInv'
<1> USE DEF IInv, SessionInv, App, Cb, Tm, Threads
<1>1. AliveInv'
  BY DEF AliveInv, Spend, pending, timer, locals, Connect
<1>2. GuidInv'
  BY DEF GuidInv, GuidAnswered, Spend, pending, timer, locals, Connect
<1>3. AskedInv'
  BY DEF AskedInv, Live, GuidAnswered, Spend, pending, timer, locals, Connect
<1>4. TickInv'
  BY DEF TickInv, Unticked, Spend, pending, timer, locals, Connect
<1>5. CompleteInv'
  BY DEF CompleteInv, Unticked, Towards, Spend, pending, timer, locals, Connect
<1>6. WatchedInv'
  BY DEF WatchedInv, Live, Unticked, Spend, pending, timer, locals, Connect
<1> QED BY <1>1, <1>2, <1>3, <1>4, <1>5, <1>6

(* disconnect() begins.                                                    *)
LEMMA DisconnectServes ==
  ASSUME IInv, SessionInv, Disconnect
  PROVE  SessionInv'
<1> USE DEF IInv, SessionInv, App, Cb, Tm, Threads
<1>1. AliveInv'
  BY DEF AliveInv, Goto, CallStop, Spend, conn, pending, timer, locals, Disconnect
<1>2. GuidInv'
  BY DEF GuidInv, DataInv, PlaceInv, GuidAnswered, AppPlaces, CbPlaces, TmPlaces, Goto,
     CallStop, Spend, conn, pending, timer, locals, Disconnect
<1>3. AskedInv'
  BY DEF AskedInv, DataInv, PlaceInv, Live, GuidAnswered, AppPlaces, CbPlaces, TmPlaces, Goto,
     CallStop, Spend, conn, pending, timer, locals, Disconnect
<1>4. TickInv'
  BY DEF TickInv, DataInv, PlaceInv, Unticked, AppPlaces, CbPlaces, TmPlaces, Goto, CallStop,
     Spend, conn, pending, timer, locals, Disconnect
<1>5. CompleteInv'
  BY DEF CompleteInv, DataInv, PlaceInv, Unticked, Towards, AppPlaces, CbPlaces, TmPlaces, Goto,
     CallStop, Spend, conn, pending, timer, locals, Disconnect
<1>6. WatchedInv'
  BY DEF WatchedInv, DataInv, PlaceInv, Live, Unticked, AppPlaces, CbPlaces, TmPlaces, Goto,
     CallStop, Spend, conn, pending, timer, locals, Disconnect
<1> QED BY <1>1, <1>2, <1>3, <1>4, <1>5, <1>6

(* disconnect() closes the connection.                                     *)
LEMMA ClientStopServes ==
  ASSUME IInv, SessionInv, ClientStop
  PROVE  SessionInv'
<1> USE DEF IInv, SessionInv, App, Cb, Tm, Threads
<1>1. AliveInv'
  BY DEF AliveInv, Goto, pending, timer, locals, ClientStop
<1>2. GuidInv'
  <2>1. \A i \in 1 .. Len(events') :
           events'[i] = Lost \/ (i \in 1 .. Len(events) /\ events'[i] = events[i])
    BY EventsDiffer, Added DEF DataInv, ClientStop
  <2>2. wire' = {} /\ gets' = gets /\ kind' = kind /\ pc'[Cb] = pc[Cb]
    BY DEF PlaceInv, ClientStop, Goto, pending
  <2> QED BY <2>1, <2>2, Fields DEF GuidInv, GuidAnswered
<1>3. AskedInv'
  BY DEF AskedInv, Live, GuidAnswered, Goto, pending, timer, locals, ClientStop
<1>4. TickInv'
  BY DEF TickInv, Unticked, Goto, pending, timer, locals, ClientStop
<1>5. CompleteInv'
  BY DEF CompleteInv, Unticked, Towards, Goto, pending, timer, locals, ClientStop
<1>6. WatchedInv'
  BY DEF WatchedInv, Live, Unticked, Goto, pending, timer, locals, ClientStop
<1> QED BY <1>1, <1>2, <1>3, <1>4, <1>5, <1>6

(* disconnect() silences the client.                                       *)
LEMMA ClientUnsafeServes ==
  ASSUME IInv, SessionInv, ClientUnsafe
  PROVE  SessionInv'
<1> USE DEF IInv, SessionInv, App, Cb, Tm, Threads
<1>1. AliveInv'
  BY DEF AliveInv, DataInv, PlaceInv, CallInv, QueueInv, StartInv, AppPlaces, CbPlaces,
     TmPlaces, Towards, TimerGone, Off, Fresher, CallStop, Goto, pending, timer, locals,
     ClientUnsafe
<1>2. GuidInv'
  BY DEF GuidInv, GuidAnswered, CallStop, Goto, pending, timer, locals, ClientUnsafe
<1>3. AskedInv'
  BY DEF AskedInv, Live, GuidAnswered, CallStop, Goto, pending, timer, locals, ClientUnsafe
<1>4. TickInv'
  BY DEF TickInv, Unticked, CallStop, Goto, pending, timer, locals, ClientUnsafe
<1>5. CompleteInv'
  BY DEF CompleteInv, Unticked, Towards, CallStop, Goto, pending, timer, locals, ClientUnsafe
<1>6. WatchedInv'
  BY DEF WatchedInv, Live, Unticked, CallStop, Goto, pending, timer, locals, ClientUnsafe
<1> QED BY <1>1, <1>2, <1>3, <1>4, <1>5, <1>6

(* disconnect() lets the client go.                                        *)
LEMMA ClientResetServes ==
  ASSUME IInv, SessionInv, ClientReset
  PROVE  SessionInv'
<1> USE DEF IInv, SessionInv, App, Cb, Tm, Threads
<1>1. AliveInv'
  BY DEF AliveInv, CallStop, Goto, pending, timer, locals, ClientReset
<1>2. GuidInv'
  BY DEF GuidInv, GuidAnswered, CallStop, Goto, pending, timer, locals, ClientReset
<1>3. AskedInv'
  BY DEF AskedInv, Live, GuidAnswered, CallStop, Goto, pending, timer, locals, ClientReset
<1>4. TickInv'
  BY DEF TickInv, Unticked, CallStop, Goto, pending, timer, locals, ClientReset
<1>5. CompleteInv'
  BY DEF CompleteInv, Unticked, Towards, CallStop, Goto, pending, timer, locals, ClientReset
<1>6. WatchedInv'
  BY DEF WatchedInv, Live, Unticked, CallStop, Goto, pending, timer, locals, ClientReset
<1> QED BY <1>1, <1>2, <1>3, <1>4, <1>5, <1>6

(* disconnect() returns.                                                   *)
LEMMA DisconnectedServes ==
  ASSUME IInv, SessionInv, Disconnected
  PROVE  SessionInv'
<1> USE DEF IInv, SessionInv, App, Cb, Tm, Threads
<1>1. AliveInv'
  BY DEF AliveInv, Goto, conn, timer, locals, Disconnected
<1>2. GuidInv'
  BY DEF GuidInv, GuidAnswered, Goto, conn, timer, locals, Disconnected
<1>3. AskedInv'
  BY DEF AskedInv, DataInv, PlaceInv, CallInv, QueueInv, StartInv, Live, GuidAnswered,
     AppPlaces, CbPlaces, TmPlaces, Towards, TimerGone, Off, Fresher, Goto, conn, timer, locals,
     Disconnected
<1>4. TickInv'
  BY DEF TickInv, Unticked, Goto, conn, timer, locals, Disconnected
<1>5. CompleteInv'
  BY DEF CompleteInv, Unticked, Towards, Goto, conn, timer, locals, Disconnected
<1>6. WatchedInv'
  BY DEF WatchedInv, Live, Unticked, Goto, conn, timer, locals, Disconnected
<1> QED BY <1>1, <1>2, <1>3, <1>4, <1>5, <1>6

(* A value is set.                                                         *)
LEMMA SetValueServes ==
  ASSUME IInv, SessionInv, SetValue
  PROVE  SessionInv'
<1> USE DEF IInv, SessionInv, App, Cb, Tm, Threads
<1>1. AliveInv'
  BY DEF AliveInv, Goto, Spend, Send, pending, timer, SetValue
<1>2. GuidInv'
  BY DEF GuidInv, DataInv, PlaceInv, CallInv, QueueInv, StartInv, GuidAnswered, AppPlaces,
     CbPlaces, TmPlaces, Towards, TimerGone, Off, Fresher, Goto, Spend, Send, pending, timer,
     SetValue
<1>3. AskedInv'
  BY DEF AskedInv, Live, GuidAnswered, Goto, Spend, Send, pending, timer, SetValue
<1>4. TickInv'
  BY DEF TickInv, Unticked, Goto, Spend, Send, pending, timer, SetValue
<1>5. CompleteInv'
  BY DEF CompleteInv, Unticked, Towards, Goto, Spend, Send, pending, timer, SetValue
<1>6. WatchedInv'
  BY DEF WatchedInv, Live, Unticked, Goto, Spend, Send, pending, timer, SetValue
<1> QED BY <1>1, <1>2, <1>3, <1>4, <1>5, <1>6

(* The handle of that request is recorded.                                 *)
LEMMA AddSetHandleServes ==
  ASSUME IInv, SessionInv, AddSetHandle
  PROVE  SessionInv'
<1> USE DEF IInv, SessionInv, App, Cb, Tm, Threads
<1>1. AliveInv'
  BY DEF AliveInv, Goto, conn, timer, AddSetHandle
<1>2. GuidInv'
  BY DEF GuidInv, GuidAnswered, Goto, conn, timer, AddSetHandle
<1>3. AskedInv'
  BY DEF AskedInv, Live, GuidAnswered, Goto, conn, timer, AddSetHandle
<1>4. TickInv'
  BY DEF TickInv, Unticked, Goto, conn, timer, AddSetHandle
<1>5. CompleteInv'
  BY DEF CompleteInv, Unticked, Towards, Goto, conn, timer, AddSetHandle
<1>6. WatchedInv'
  BY DEF WatchedInv, Live, Unticked, Goto, conn, timer, AddSetHandle
<1> QED BY <1>1, <1>2, <1>3, <1>4, <1>5, <1>6

(* The timer forgets the pending queries.                                  *)
LEMMA RetryServes ==
  ASSUME IInv, SessionInv, Retry
  PROVE  SessionInv'
<1> USE DEF IInv, SessionInv, App, Cb, Tm, Threads
<1>1. AliveInv'
  BY DEF AliveInv, Goto, CallStop, conn, timer, Retry
<1>2. GuidInv'
  BY DEF GuidInv, DataInv, PlaceInv, GuidAnswered, AppPlaces, CbPlaces, TmPlaces, Goto,
     CallStop, conn, timer, Retry
<1>3. AskedInv'
  BY DEF AskedInv, DataInv, PlaceInv, CallInv, QueueInv, StartInv, Live, GuidAnswered,
     AppPlaces, CbPlaces, TmPlaces, Towards, TimerGone, Off, Fresher, Goto, CallStop, conn,
     timer, Retry
<1>4. TickInv'
  BY DEF TickInv, Unticked, Goto, CallStop, conn, timer, Retry
<1>5. CompleteInv'
  BY DEF CompleteInv, DataInv, PlaceInv, Unticked, Towards, AppPlaces, CbPlaces, TmPlaces, Goto,
     CallStop, conn, timer, Retry
<1>6. WatchedInv'
  BY DEF WatchedInv, Live, Unticked, Goto, CallStop, conn, timer, Retry
<1> QED BY <1>1, <1>2, <1>3, <1>4, <1>5, <1>6

(* There were none: it is seen whether subscriptions are pending.          *)
LEMMA RetryCheckServes ==
  ASSUME IInv, SessionInv, RetryCheck
  PROVE  SessionInv'
<1> USE DEF IInv, SessionInv, App, Cb, Tm, Threads
<1>1. AliveInv'
  BY DEF AliveInv, Goto, conn, pending, timer, locals, RetryCheck
<1>2. GuidInv'
  BY DEF GuidInv, GuidAnswered, Goto, conn, pending, timer, locals, RetryCheck
<1>3. AskedInv'
  BY DEF AskedInv, Live, GuidAnswered, Goto, conn, pending, timer, locals, RetryCheck
<1>4. TickInv'
  BY DEF TickInv, Unticked, Goto, conn, pending, timer, locals, RetryCheck
<1>5. CompleteInv'
  BY DEF CompleteInv, Unticked, Towards, Goto, conn, pending, timer, locals, RetryCheck
<1>6. WatchedInv'
  BY DEF WatchedInv, Live, Unticked, Goto, conn, pending, timer, locals, RetryCheck
<1> QED BY <1>1, <1>2, <1>3, <1>4, <1>5, <1>6

(* The timer sends a query again.                                          *)
LEMMA ResendServes ==
  ASSUME IInv, SessionInv, Resend
  PROVE  SessionInv'
<1> USE DEF IInv, SessionInv, App, Cb, Tm, Threads
<1>1. AliveInv'
  BY DEF AliveInv, Goto, Send, pending, timer, Resend
<1>2. GuidInv'
  BY DEF GuidInv, DataInv, PlaceInv, CallInv, QueueInv, StartInv, GuidAnswered, AppPlaces,
     CbPlaces, TmPlaces, Towards, TimerGone, Off, Fresher, Goto, Send, pending, timer, Resend
<1>3. AskedInv'
  BY DEF AskedInv, DataInv, PlaceInv, Live, GuidAnswered, AppPlaces, CbPlaces, TmPlaces, Goto,
     Send, pending, timer, Resend
<1>4. TickInv'
  BY DEF TickInv, Unticked, Goto, Send, pending, timer, Resend
<1>5. CompleteInv'
  BY DEF CompleteInv, DataInv, PlaceInv, Unticked, Towards, AppPlaces, CbPlaces, TmPlaces, Goto,
     Send, pending, timer, Resend
<1>6. WatchedInv'
  BY DEF WatchedInv, DataInv, PlaceInv, Live, Unticked, AppPlaces, CbPlaces, TmPlaces, Goto,
     Send, pending, timer, Resend
<1> QED BY <1>1, <1>2, <1>3, <1>4, <1>5, <1>6

(* The handle of that query is recorded.                                   *)
LEMMA AddGetHandleServes ==
  ASSUME IInv, SessionInv, AddGetHandle
  PROVE  SessionInv'
<1> USE DEF IInv, SessionInv, App, Cb, Tm, Threads
<1>1. AliveInv'
  BY DEF AliveInv, Goto, conn, timer, AddGetHandle
<1>2. GuidInv'
  <2>1. /\ gets' = gets \cup {<<sent[Tm].h, sent[Tm].ono>>} /\ sent[Tm].ono \in Objects
        /\ UNCHANGED <<wire, events, kind>> /\ pc'[Cb] = pc[Cb]
    BY DEF AddGetHandle, SentInv, PlaceInv, Goto, conn
  <2>2. \A h : <<h, Guid>> \in gets' <=> <<h, Guid>> \in gets
    BY <2>1, GuidIsNoObject
  <2>3. \A p \in gets' : p[2] = Guid => p \in gets
    BY <2>1, GuidIsNoObject
  <2> QED BY <2>1, <2>2, <2>3 DEF GuidInv, GuidAnswered
<1>3. AskedInv'
  BY DEF AskedInv, Live, GuidAnswered, Goto, conn, timer, AddGetHandle
<1>4. TickInv'
  BY DEF TickInv, Unticked, Goto, conn, timer, AddGetHandle
<1>5. CompleteInv'
  BY DEF CompleteInv, DataInv, PlaceInv, SentInv, TimerInv, CallInv, QueueInv, StartInv,
     LossInv, ConnectedInv, AliveInv, GuidInv, AskedInv, TickInv, WatchedInv, Unticked, Towards,
     AppPlaces, CbPlaces, TmPlaces, TimerGone, Off, Fresher, GuidAnswered, Live, Goto, conn,
     timer, AddGetHandle
<1>6. WatchedInv'
  BY DEF WatchedInv, DataInv, PlaceInv, SentInv, TimerInv, CallInv, QueueInv, StartInv, LossInv,
     ConnectedInv, AliveInv, GuidInv, AskedInv, TickInv, CompleteInv, Live, Unticked, AppPlaces,
     CbPlaces, TmPlaces, Towards, TimerGone, Off, Fresher, GuidAnswered, Goto, conn, timer,
     AddGetHandle
<1> QED BY <1>1, <1>2, <1>3, <1>4, <1>5, <1>6

(* The last of them is sent.                                               *)
LEMMA ResentServes ==
  ASSUME IInv, SessionInv, Resent
  PROVE  SessionInv'
<1> USE DEF IInv, SessionInv, App, Cb, Tm, Threads
<1>1. AliveInv'
  BY DEF AliveInv, Goto, conn, pending, timer, locals, Resent
<1>2. GuidInv'
  BY DEF GuidInv, GuidAnswered, Goto, conn, pending, timer, locals, Resent
<1>3. AskedInv'
  BY DEF AskedInv, Live, GuidAnswered, Goto, conn, pending, timer, locals, Resent
<1>4. TickInv'
  BY DEF TickInv, Unticked, Goto, conn, pending, timer, locals, Resent
<1>5. CompleteInv'
  BY DEF CompleteInv, Unticked, Towards, Goto, conn, pending, timer, locals, Resent
<1>6. WatchedInv'
  BY DEF WatchedInv, Live, Unticked, Goto, conn, pending, timer, locals, Resent
<1> QED BY <1>1, <1>2, <1>3, <1>4, <1>5, <1>6

-----------------------------------------------------------------------------
(* The invariants hold, and what follows from them.                        *)

(* The initial states.                                                     *)
LEMMA InitServes == Init => SessionInv
<1> SUFFICES ASSUME Init PROVE SessionInv
  OBVIOUS
<1> USE DEF Init, App, Cb, Tm, Threads
<1>1. AliveInv /\ GuidInv /\ AskedInv
  BY DEF AliveInv, GuidInv, AskedInv, Live
<1>2. TickInv
  BY BudgetAssumption DEF TickInv
<1>3. CompleteInv /\ WatchedInv
  BY DEF CompleteInv, WatchedInv
<1> QED BY <1>1, <1>2, <1>3 DEF SessionInv

(* No change.                                                              *)
LEMMA StutterServes ==
  ASSUME SessionInv, UNCHANGED vars
  PROVE  SessionInv'
<1> USE DEF SessionInv, vars, conn, pending, timer, locals
<1>1. AliveInv' /\ GuidInv' /\ AskedInv'
  BY DEF AliveInv, GuidInv, AskedInv, Live, GuidAnswered
<1>2. TickInv' /\ CompleteInv' /\ WatchedInv'
  BY DEF TickInv, CompleteInv, WatchedInv, Unticked, Towards, Live
<1> QED BY <1>1, <1>2

(* The threads of the application and of the timer's worker.               *)
LEMMA ThreadServes ==
  ASSUME IInv, SessionInv, AppStep \/ TmStep
  PROVE  SessionInv'
<1>1. CASE AppStep
  BY <1>1, ClientStopServes, ClientUnsafeServes, ClearPendingServes, LostCheckServes,
     LostSetConnectingServes, ClientResetServes, DisconnectedServes, AddSetHandleServes,
     StopTimerServes, JoinTimerServes
     DEF AppStep, Threads
<1>2. CASE TmStep
  BY <1>2, TimerLeavesServes, TimerWaitsServes, RetryServes, RetryCheckServes, ResendServes,
     AddGetHandleServes, ResentServes, SetStateServes, StopTimerServes
     DEF TmStep, Threads
<1> QED BY <1>1, <1>2

(* The thread of the callbacks.                                            *)
LEMMA CallbackServes ==
  ASSUME IInv, SessionInv, CbStep
  PROVE  SessionInv'
<1>1. CASE \/ Established \/ AskGuid \/ Subscribe \/ SendSubscription \/ SubscriptionsSent
           \/ Query \/ SendQuery \/ QueriesSent \/ NothingQueried \/ StartTimer
  BY <1>1, EstablishedServes, AskGuidServes, SubscribeServes, SendSubscriptionServes,
     SubscriptionsSentServes, QueryServes, SendQueryServes, QueriesSentServes,
     NothingQueriedServes, StartTimerServes
<1>2. CASE Respond \/ AllSubscribed \/ ValuesPending \/ GotValue \/ SetState(Cb)
  BY <1>2, RespondServes, AllSubscribedServes, ValuesPendingServes, GotValueServes,
     SetStateServes DEF Threads
<1>3. CASE \/ ConnectionLost \/ ClearPending(Cb) \/ LostCheck(Cb) \/ LostSetConnecting(Cb)
           \/ LostReturns \/ StopTimer(Cb) \/ JoinTimer(Cb)
  BY <1>3, ConnectionLostServes, ClearPendingServes, LostCheckServes, LostSetConnectingServes,
     LostReturnsServes, StopTimerServes, JoinTimerServes
     DEF Threads
<1> QED BY <1>1, <1>2, <1>3 DEF CbStep

(* In every state the invariants hold.                                     *)
THEOREM SessionInvariance == Spec => []SessionInv
<1>1. IInv /\ SessionInv /\ [Next]_vars => SessionInv'
  <2> SUFFICES ASSUME IInv, SessionInv, [Next]_vars PROVE SessionInv'
    OBVIOUS
  <2>1. CASE Connect \/ Disconnect \/ SetValue \/ AppStep \/ TmStep \/ CbStep
    BY <2>1, ConnectServes, DisconnectServes, SetValueServes, ThreadServes, CallbackServes
  <2>2. CASE TimerFires \/ LinkUp \/ LinkLost \/ \E r \in wire : DeviceAnswers(r)
    BY <2>2, TimerFiresServes, LinkUpServes, LinkLostServes, DeviceAnswersServes
  <2>3. CASE UNCHANGED vars
    BY <2>3, StutterServes
  <2> QED BY <2>1, <2>2, <2>3 DEF Next
<1> QED BY <1>1, InitServes, Invariance, PTL DEF Spec

(* A subscription that is awaited can still be answered, whatever the      *)
(* device answers and whenever the timer fires: no request is forgotten    *)
(* that the state machine waits for.                                       *)
THEOREM SubscriptionsCanBeAnswered == Spec => []SubscriptionsAreAlive
<1>1. SessionInv => SubscriptionsAreAlive
  BY DEF SessionInv, AliveInv, SubscriptionsAreAlive
<1> QED BY <1>1, SessionInvariance, PTL

(* Connected means that the device was asked to report every tracked       *)
(* object: for any generic controller, and for one that asks for the GUID  *)
(* if the answer is usable.                                                *)
THEOREM ConnectedHasAsked == Spec => [](GuidAnswered => ConnectedIsAsked)
<1>1. IInv /\ SessionInv => (GuidAnswered => ConnectedIsAsked)
  <2> SUFFICES ASSUME IInv, SessionInv, GuidAnswered, state = "Connected", Quiet, link = "up"
               PROVE  asked = Objects
    BY DEF ConnectedIsAsked
  <2>1. Live /\ pc[Cb] = "idle" /\ events = <<>>
    BY DEF Live, Quiet, Still
  <2>2. \A p \in gets : p[2] # Guid
    BY DEF IInv, StartInv
  <2> QED BY <2>1, <2>2 DEF SessionInv, AskedInv
<1> QED BY <1>1, Invariance, SessionInvariance, PTL

(* Until the retry timer fires for the first time, Connected means that    *)
(* every subscription and every value was answered.                        *)
THEOREM ConnectedHasAll == Spec => [](Unticked => ConnectedIsComplete)
<1>1. IInv /\ SessionInv => (Unticked => ConnectedIsComplete)
  BY DEF IInv, ConnectedInv, SessionInv, CompleteInv, ConnectedIsComplete
<1> QED BY <1>1, Invariance, SessionInvariance, PTL

(* Until then the timer runs while the value of a tracked object is        *)
(* awaited, so that a query that stays unanswered is repeated.             *)
THEOREM OutstandingHasTimer == Spec => [](Unticked => OutstandingIsWatched)
<1>1. SessionInv => (Unticked => OutstandingIsWatched)
  <2> SUFFICES ASSUME SessionInv, Unticked, Quiet, link = "up", \E p \in gets : p[2] \in Objects
               PROVE  ~ mStop
    BY DEF OutstandingIsWatched
  <2>1. Live /\ pc[Cb] = "idle"
    BY DEF Live, Quiet, Still
  <2> QED BY <2>1 DEF SessionInv, WatchedInv
<1> QED BY <1>1, SessionInvariance, PTL
=============================================================================
