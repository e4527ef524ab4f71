---------------------------- MODULE Ocp1Controller ----------------------------
(***************************************************************************)
(* Ocp1Controller (Source/Ocp1Controller.{h,cpp}), as it is or with the    *)
(* GUID query that SoundscapeController puts before the subscriptions.     *)
(*                                                                         *)
(* Three threads share the controller: the application (App), the thread   *)
(* that runs the client's callbacks one after the other (Cb, the           *)
(* dispatcher's worker), and the worker of the controller's NanoTimer (Tm).*)
(* Each access to m_state, to the pending maps and to the timer is a step, *)
(* unless the other threads cannot tell two of them apart.                 *)
(*                                                                         *)
(* The client is modelled by what it does for the controller: it dials     *)
(* until the link is up, queues its callbacks in order, and stop() waits   *)
(* for the callback that runs and drops those that are queued.  A device   *)
(* answers requests in any order, with any status, or never.               *)
(***************************************************************************)
EXTENDS Naturals, Sequences, SequencesExt

CONSTANTS NumObjects,  \* tracked objects are 1..NumObjects
          MaxHandle,   \* bound on the requests that are remembered anywhere
          Kinds,       \* "generic": Ocp1Controller, "soundscape": its subclass
          Answers,     \* the statuses the device answers with
          GuidAnswers, \* those it answers the query of the GUID with
          Budget       \* bounds: connects, disconnects, losses, ticks, sets

ASSUME SizeAssumption == NumObjects \in Nat /\ MaxHandle \in Nat \ {0}
ASSUME KindsAssumption == Kinds \subseteq {"generic", "soundscape"}
\* "ok": status 0 with a usable value; "odd": status 0 without one; "error".
ASSUME AnswerAssumption == Answers \cup GuidAnswers \subseteq {"ok", "odd", "error"}
ASSUME BudgetAssumption ==
    Budget \in [{"connect", "disconnect", "loss", "tick", "set"} -> Nat]

App == "App"
Cb == "Cb"
Tm == "Tm"
Threads == {App, Cb, Tm}

Objects == 1..NumObjects
Guid == 0                    \* Fixed_GUID, queried but never tracked
Handles == 1..MaxHandle

VARIABLES kind,      \* the class of the controller, which never changes
          state,     \* m_state
          client,    \* m_client # nullptr
          link,      \* the client: "none", "dialing", "up", "lost"
          safe,      \* callbacks of the client are let through
          events,    \* the client's callbacks that are queued for Cb
          wire,      \* requests the device got and has not answered
          subs,      \* m_pendingSubscriptionHandles
          gets,      \* m_pendingGetValueHandles: pairs <<handle, ono>>
          sets,      \* m_pendingSetValueHandles
          mStop,     \* m_stop of the controller's timer
          lock,      \* holder of the timer's m_lifecycleMutex, or "none"
          pc,        \* where each thread is
          next,      \* where each thread goes on after stopTimer()
          todo,      \* the objects a sending loop still has to serve
          sent,      \* the request a thread sent and has not recorded yet
          inGuid,    \* Cb subscribes from within the GUID response
          asked,     \* history: objects whose subscription this link sent
          budget     \* what is left of Budget

conn == <<client, link, safe, events, wire>>
pending == <<subs, gets, sets>>
timer == <<mStop, lock>>
locals == <<todo, sent, inGuid>>
vars == <<kind, state, conn, pending, timer, pc, next, locals, asked, budget>>

Nothing == [h |-> 0, ono |-> Guid]
\* Faulty: the handle of the response is not parsed.
Response_NoHandle(h, status) == [e |-> "response", h |-> 0, status |-> status]

Response(h, status) == [e |-> "response", h |-> h, status |-> status]
Made == [e |-> "made", h |-> 0, status |-> "ok"]
Lost == [e |-> "lost", h |-> 0, status |-> "ok"]

Init ==
    /\ kind \in Kinds
    /\ state = "Disconnected"
    /\ client = FALSE /\ link = "none" /\ safe = FALSE
    /\ events = <<>> /\ wire = {}
    /\ subs = {} /\ gets = {} /\ sets = {}
    /\ mStop = TRUE /\ lock = "none"
    /\ pc = [t \in Threads |-> IF t = Tm THEN "none" ELSE "idle"]
    /\ next = [t \in Threads |-> "idle"]
    /\ todo = [t \in Threads |-> {}]
    /\ sent = [t \in Threads |-> Nothing]
    /\ inGuid = FALSE
    /\ asked = {}
    /\ budget = Budget

Goto(t, where) == pc' = [pc EXCEPT ![t] = where]
Spend(what) == budget[what] > 0 /\ budget' = [budget EXCEPT ![what] = @ - 1]

\* stopTimer() is called by t, which goes on at where.
CallStop(t, where) == Goto(t, "stop") /\ next' = [next EXCEPT ![t] = where]

\* A handle that is remembered nowhere: m_nextHandle never repeats one that is.
Used == subs \cup sets \cup {p[1] : p \in gets} \cup {r.h : r \in wire}
        \cup {e.h : e \in ToSet(events)} \cup {sent[t].h : t \in Threads}
Fresh == Handles \ Used
NewHandle == Min(Fresh)

\* The thread is done with its callback, timer callback or call.
Done(t) == IF t = Tm THEN "return" ELSE "idle"

-----------------------------------------------------------------------------
(* The controller's timer, as NanoTimer does it: worker Tm, "none" when it     *)
(* does not exist or has left its loop.                                        *)

\* Faulty: the worker is not joined.
StopTimer_NoJoin(t) ==
    /\ pc[t] = "stop"
    /\ lock = "none"
    /\ mStop' = TRUE
    /\ Goto(t, next[t])
    /\ UNCHANGED <<kind, state, conn, pending, lock, next, locals, asked, budget>>

StopTimer(t) ==
    /\ pc[t] = "stop"
    /\ lock = "none"
    /\ mStop' = TRUE
    /\ IF t = Tm \/ pc[Tm] = "none"
       THEN Goto(t, next[t]) /\ UNCHANGED lock
       ELSE Goto(t, "join") /\ lock' = t
    /\ UNCHANGED <<kind, state, conn, pending, next, locals, asked, budget>>

\* Faulty: the mutex is not given back.
JoinTimer_KeepsLock(t) ==
    /\ pc[t] = "join"
    /\ pc[Tm] = "none"
    /\ Goto(t, next[t])
    /\ UNCHANGED <<kind, state, conn, pending, timer, next, locals, asked, budget>>

JoinTimer(t) ==
    /\ pc[t] = "join"
    /\ pc[Tm] = "none"
    /\ lock' = "none"
    /\ Goto(t, next[t])
    /\ UNCHANGED <<kind, state, conn, pending, mStop, next, locals, asked, budget>>

\* Line 197, as the last thing queryObjectValues() does.  The cases of startTimer()
\* that re-arm or reap a worker do not come up: TimerStartsAfresh.
StartTimer ==
    /\ pc[Cb] = "start"
    /\ lock = "none" /\ mStop /\ pc[Tm] = "none"
    /\ mStop' = FALSE
    /\ pc' = [pc EXCEPT ![Cb] = IF inGuid THEN "gotValue" ELSE "idle", ![Tm] = "wait"]
    /\ UNCHANGED <<kind, state, conn, pending, lock, next, locals, asked, budget>>

TimerFires ==
    /\ pc[Tm] = "wait" /\ ~mStop
    /\ Spend("tick")
    /\ Goto(Tm, "retry")
    /\ UNCHANGED <<kind, state, conn, pending, timer, next, locals, asked>>

TimerLeaves ==
    /\ pc[Tm] \in {"wait", "return"} /\ mStop
    /\ Goto(Tm, "none")
    /\ UNCHANGED <<kind, state, conn, pending, timer, next, locals, asked, budget>>

TimerWaits ==
    /\ pc[Tm] = "return" /\ ~mStop
    /\ Goto(Tm, "wait")
    /\ UNCHANGED <<kind, state, conn, pending, timer, next, locals, asked, budget>>

-----------------------------------------------------------------------------
(* The client and the device *)

\* The client's TCP connection is made: onConnectionEstablished is queued.
LinkUp ==
    /\ link = "dialing"
    /\ link' = "up" /\ safe' = TRUE
    /\ events' = Append(events, Made)
    /\ UNCHANGED <<kind, state, client, wire, pending, timer, pc, next, locals, asked, budget>>

\* It is lost: unanswered requests are gone, onConnectionLost is queued.
LinkLost ==
    /\ link = "up"
    /\ Spend("loss")
    /\ link' = "lost" /\ wire' = {}
    /\ events' = Append(events, Lost)
    /\ UNCHANGED <<kind, state, client, safe, pending, timer, pc, next, locals, asked>>

DeviceAnswers(r) ==
    /\ r \in wire
    /\ wire' = wire \ {r}
    /\ \E status \in IF r.ono = Guid THEN GuidAnswers ELSE Answers :
         events' = Append(events, Response(r.h, status))
    /\ UNCHANGED <<kind, state, client, link, safe, pending, timer, pc, next, locals, asked, budget>>

\* sendData() of a request about ono; it fails unless the link is up.
Send(ono) == wire' = IF link = "up" THEN wire \cup {[h |-> NewHandle, ono |-> ono]} ELSE wire

-----------------------------------------------------------------------------
(* onConnectionEstablished: afterConnected() *)

Established ==
    /\ pc[Cb] = "idle" /\ safe
    /\ events # <<>> /\ Head(events) = Made
    /\ events' = Tail(events)
    /\ inGuid' = FALSE
    /\ asked' = {}
    /\ Goto(Cb, IF kind = "soundscape" THEN "askGuid" ELSE "subscribe")
    /\ UNCHANGED <<kind, state, client, link, safe, wire, pending, timer, next, todo, sent, budget>>

\* Faulty: the query of the GUID is not recorded.
AskGuid_Unrecorded ==
    /\ pc[Cb] = "askGuid"
    /\ Fresh # {}
    /\ Send(Guid)
    /\ Goto(Cb, "idle")
    /\ UNCHANGED <<kind, state, client, link, safe, events, pending, timer, next, locals, asked, budget>>

\* SoundscapeController::afterConnected(): one GetValue, no timer.
AskGuid ==
    /\ pc[Cb] = "askGuid"
    /\ Fresh # {}
    /\ Send(Guid)
    /\ gets' = IF link = "up" THEN gets \cup {<<NewHandle, Guid>>} ELSE gets
    /\ Goto(Cb, "idle")
    /\ UNCHANGED <<kind, state, client, link, safe, events, subs, sets, timer, next, locals, asked, budget>>

\* Faulty: the subscriptions are left out.
Subscribe_Skipped ==
    /\ pc[Cb] = "subscribe"
    /\ Goto(Cb, "query")
    /\ UNCHANGED <<kind, state, conn, pending, timer, next, locals, asked, budget>>

\* createObjectSubscriptions(), lines 165-166.
Subscribe ==
    /\ pc[Cb] = "subscribe"
    /\ IF client /\ state # "Disconnected"
       THEN Goto(Cb, "sendSub") /\ todo' = [todo EXCEPT ![Cb] = Objects]
       ELSE Goto(Cb, "query") /\ UNCHANGED todo
    /\ UNCHANGED <<kind, state, conn, pending, timer, next, sent, inGuid, asked, budget>>

\* Lines 169-177.  The handle is recorded even if nothing was sent.
SendSubscription ==
    /\ pc[Cb] = "sendSub" /\ todo[Cb] # {}
    /\ Fresh # {}
    /\ LET o == Min(todo[Cb]) IN
         /\ Send(o)
         /\ asked' = IF link = "up" THEN asked \cup {o} ELSE asked
         /\ todo' = [todo EXCEPT ![Cb] = @ \ {o}]
    /\ subs' = subs \cup {NewHandle}
    /\ UNCHANGED <<kind, state, client, link, safe, events, gets, sets, timer, pc, next, sent, inGuid, budget>>

\* Lines 179-180.
SubscriptionsSent ==
    /\ pc[Cb] = "sendSub" /\ todo[Cb] = {}
    /\ state' = IF subs # {} THEN "Subscribing" ELSE state
    /\ Goto(Cb, "query")
    /\ UNCHANGED <<kind, conn, pending, timer, next, locals, asked, budget>>

\* queryObjectValues(), lines 187-188.
Query ==
    /\ pc[Cb] = "query"
    /\ IF client /\ state # "Disconnected"
       THEN Goto(Cb, "sendGet") /\ todo' = [todo EXCEPT ![Cb] = Objects]
       ELSE Goto(Cb, IF inGuid THEN "gotValue" ELSE "idle") /\ UNCHANGED todo
    /\ UNCHANGED <<kind, state, conn, pending, timer, next, sent, inGuid, asked, budget>>

\* Lines 191-192: queryObjectValue(), recorded only if it was sent.
SendQuery ==
    /\ pc[Cb] = "sendGet" /\ todo[Cb] # {}
    /\ Fresh # {}
    /\ LET o == Min(todo[Cb]) IN
         /\ Send(o)
         /\ gets' = IF link = "up" THEN gets \cup {<<NewHandle, o>>} ELSE gets
         /\ todo' = [todo EXCEPT ![Cb] = @ \ {o}]
    /\ UNCHANGED <<kind, state, client, link, safe, events, subs, sets, timer, pc, next, sent, inGuid, asked, budget>>

\* Faulty: the timer is not started.
QueriesSent_Unwatched ==
    /\ pc[Cb] = "sendGet" /\ todo[Cb] = {}
    /\ \/ gets # {} /\ state' = "GetValues" /\ Goto(Cb, IF inGuid THEN "gotValue" ELSE "idle")
          /\ UNCHANGED next
       \/ gets = {} /\ CallStop(Cb, "queried") /\ UNCHANGED state
    /\ UNCHANGED <<kind, conn, pending, timer, locals, asked, budget>>

\* Lines 194-204: collect the values under the timer's watch, or be done.
QueriesSent ==
    /\ pc[Cb] = "sendGet" /\ todo[Cb] = {}
    /\ \/ gets # {} /\ state' = "GetValues" /\ Goto(Cb, "start") /\ UNCHANGED next
       \/ gets = {} /\ CallStop(Cb, "queried") /\ UNCHANGED state
    /\ UNCHANGED <<kind, conn, pending, timer, locals, asked, budget>>

NothingQueried ==
    /\ pc[Cb] = "queried"
    /\ state' = IF subs = {} THEN "Connected" ELSE state
    /\ Goto(Cb, IF inGuid THEN "gotValue" ELSE "idle")
    /\ UNCHANGED <<kind, conn, pending, timer, next, locals, asked, budget>>

-----------------------------------------------------------------------------
(* onDataReceived: processMessage() for a response *)

\* The handle is taken from the map it is in.  After the last subscription was
\* answered, with whatever status, the state advances; after a value it does if
\* none is pending; an acknowledged SetValue changes nothing else.
Respond ==
    /\ pc[Cb] = "idle" /\ safe
    /\ events # <<>> /\ Head(events).e = "response"
    /\ events' = Tail(events)
    /\ LET r == Head(events)
            values == {p \in gets : p[1] = r.h}
       IN /\ subs' = subs \ {r.h}
          /\ gets' = gets \ values
          /\ sets' = sets \ {r.h}
          /\ inGuid' = (r.status = "ok" /\ <<r.h, Guid>> \in values)
          /\ Goto(Cb, IF r.h \in subs THEN (IF subs' = {} THEN "subscribed" ELSE "idle")
                      ELSE IF inGuid' THEN "subscribe"
                      ELSE IF values # {} THEN "gotValue" ELSE "idle")
    /\ UNCHANGED <<kind, state, client, link, safe, wire, timer, next, todo, sent, asked, budget>>

\* Lines 310 and 332.
AllSubscribed ==
    /\ pc[Cb] = "subscribed"
    /\ state' = "Subscribed"
    /\ Goto(Cb, "valuesPending")
    /\ UNCHANGED <<kind, conn, pending, timer, next, locals, asked, budget>>

\* Faulty: the values that are pending are not looked at.
ValuesPending_Skipped ==
    /\ pc[Cb] = "valuesPending"
    /\ CallStop(Cb, "setConnected")
    /\ UNCHANGED <<kind, state, conn, pending, timer, locals, asked, budget>>

\* Lines 311-317 and 333-339.
ValuesPending ==
    /\ pc[Cb] = "valuesPending"
    /\ \/ gets # {} /\ Goto(Cb, "setGetValues") /\ UNCHANGED next
       \/ gets = {} /\ CallStop(Cb, "setConnected")
    /\ UNCHANGED <<kind, state, conn, pending, timer, locals, asked, budget>>

\* Lines 319-322 and 365-369.
GotValue ==
    /\ pc[Cb] = "gotValue"
    /\ \/ gets # {} /\ Goto(Cb, "idle") /\ UNCHANGED next
       \/ gets = {} /\ CallStop(Cb, IF subs = {} THEN "setConnected" ELSE "setSubscribing")
    /\ UNCHANGED <<kind, state, conn, pending, timer, locals, asked, budget>>

\* setState(), called by Cb or the timer's worker after a decision made earlier.
SetState(t) ==
    /\ \/ pc[t] = "setGetValues" /\ state' = "GetValues"
       \/ pc[t] = "setConnected" /\ state' = "Connected"
       \/ pc[t] = "setSubscribing" /\ state' = "Subscribing"
    /\ Goto(t, Done(t))
    /\ UNCHANGED <<kind, conn, pending, timer, next, locals, asked, budget>>

-----------------------------------------------------------------------------
(* onConnectionLost, on Cb, or on App at the end of the client's stop() *)

\* Faulty: the timer is not stopped.
ConnectionLost_KeepsTimer ==
    /\ pc[Cb] = "idle" /\ safe
    /\ events # <<>> /\ Head(events) = Lost
    /\ events' = Tail(events)
    /\ Goto(Cb, "clear")
    /\ UNCHANGED <<kind, state, client, link, safe, wire, pending, timer, next, locals, asked, budget>>

ConnectionLost ==
    /\ pc[Cb] = "idle" /\ safe
    /\ events # <<>> /\ Head(events) = Lost
    /\ events' = Tail(events)
    /\ CallStop(Cb, "clear")
    /\ UNCHANGED <<kind, state, client, link, safe, wire, pending, timer, locals, asked, budget>>

\* Faulty: the subscription handles survive the connection.
ClearPending_KeepsSubs(t) ==
    /\ pc[t] = "clear"
    /\ gets' = {} /\ sets' = {}
    /\ Goto(t, "lost")
    /\ UNCHANGED <<kind, state, conn, subs, timer, next, locals, asked, budget>>

ClearPending(t) ==
    /\ pc[t] = "clear"
    /\ subs' = {} /\ gets' = {} /\ sets' = {}
    /\ Goto(t, "lost")
    /\ UNCHANGED <<kind, state, conn, timer, next, locals, asked, budget>>

\* Line 85; the client dials again once its own callback returns.
LostCheck(t) ==
    /\ pc[t] = "lost"
    /\ Goto(t, IF state # "Disconnected" THEN "setConnecting" ELSE "lostDone")
    /\ UNCHANGED <<kind, state, conn, pending, timer, next, locals, asked, budget>>

LostSetConnecting(t) ==
    /\ pc[t] = "setConnecting"
    /\ state' = "Connecting"
    /\ Goto(t, "lostDone")
    /\ UNCHANGED <<kind, conn, pending, timer, next, locals, asked, budget>>

LostReturns ==
    /\ pc[Cb] = "lostDone"
    /\ link' = IF link = "lost" THEN "dialing" ELSE link
    /\ Goto(Cb, "idle")
    /\ UNCHANGED <<kind, state, client, safe, events, wire, pending, timer, next, locals, asked, budget>>

-----------------------------------------------------------------------------
(* The application's calls *)

\* connect(): a no-op unless Disconnected.
Connect ==
    /\ pc[App] = "idle" /\ state = "Disconnected"
    /\ Spend("connect")
    /\ client' = TRUE /\ link' = "dialing"
    /\ state' = "Connecting"
    /\ UNCHANGED <<kind, safe, events, wire, pending, timer, pc, next, locals, asked>>

\* disconnect(): first of all the state.
Disconnect ==
    /\ pc[App] = "idle"
    /\ Spend("disconnect")
    /\ state' = "Disconnected"
    /\ IF client THEN Goto(App, "clientStop") /\ UNCHANGED next
                 ELSE CallStop(App, "clearAll")
    /\ UNCHANGED <<kind, conn, pending, timer, locals, asked>>

\* m_client->stop() ends dialing and closes the link; the loss is queued.
ClientStop ==
    /\ pc[App] = "clientStop"
    /\ link' = "none" /\ wire' = {}
    /\ events' = IF link = "up" THEN Append(events, Lost) ELSE events
    /\ Goto(App, "clientUnsafe")
    /\ UNCHANGED <<kind, state, client, safe, pending, timer, next, locals, asked, budget>>

\* It waits for the callback that runs, lets no other through, and then calls
\* onConnectionLost itself.
ClientUnsafe ==
    /\ pc[App] = "clientUnsafe"
    /\ pc[Cb] = "idle"
    /\ safe' = FALSE /\ events' = <<>>
    /\ CallStop(App, "clear")
    /\ UNCHANGED <<kind, state, client, link, wire, pending, timer, locals, asked, budget>>

\* Lines 121-129.
ClientReset ==
    /\ pc[App] = "lostDone"
    /\ client' = FALSE
    /\ CallStop(App, "clearAll")
    /\ UNCHANGED <<kind, state, link, safe, events, wire, pending, timer, locals, asked, budget>>

Disconnected ==
    /\ pc[App] = "clearAll"
    /\ subs' = {} /\ gets' = {} /\ sets' = {}
    /\ Goto(App, "idle")
    /\ UNCHANGED <<kind, state, conn, timer, next, locals, asked, budget>>

\* setValue(): the request is sent, and recorded in a step of its own.
SetValue ==
    /\ pc[App] = "idle" /\ client /\ state = "Connected" /\ link = "up"
    /\ Spend("set")
    /\ Fresh # {}
    /\ \E o \in Objects :
         /\ Send(o)
         /\ sent' = [sent EXCEPT ![App] = [h |-> NewHandle, ono |-> o]]
    /\ Goto(App, "addSet")
    /\ UNCHANGED <<kind, state, client, link, safe, events, pending, timer, next, todo, inGuid, asked>>

AddSetHandle ==
    /\ pc[App] = "addSet"
    /\ sets' = sets \cup {sent[App].h}
    /\ sent' = [sent EXCEPT ![App] = Nothing]
    /\ Goto(App, "idle")
    /\ UNCHANGED <<kind, state, conn, subs, gets, timer, next, todo, inGuid, asked, budget>>

-----------------------------------------------------------------------------
(* timerCallback(): retryPendingGetValues() *)

\* Lines 246-253: the pending queries are collected and forgotten.
Retry ==
    /\ pc[Tm] = "retry"
    /\ gets' = {}
    /\ todo' = [todo EXCEPT ![Tm] = {p[2] : p \in gets} \cap Objects]
    /\ IF gets = {} THEN CallStop(Tm, "retryCheck") ELSE Goto(Tm, "resend") /\ UNCHANGED next
    /\ UNCHANGED <<kind, state, conn, subs, sets, timer, sent, inGuid, asked, budget>>

\* Faulty: the subscriptions that are pending are not looked at.
RetryCheck_Unsubscribed ==
    /\ pc[Tm] = "retryCheck"
    /\ Goto(Tm, "setConnected")
    /\ UNCHANGED <<kind, state, conn, pending, timer, next, locals, asked, budget>>

\* Lines 258-261.
RetryCheck ==
    /\ pc[Tm] = "retryCheck"
    /\ Goto(Tm, IF subs = {} THEN "setConnected" ELSE "setSubscribing")
    /\ UNCHANGED <<kind, state, conn, pending, timer, next, locals, asked, budget>>

\* Lines 265-270; a query that cannot be sent is not retried any more.
Resend ==
    /\ pc[Tm] = "resend" /\ todo[Tm] # {}
    /\ Fresh # {}
    /\ \E o \in todo[Tm] :
         /\ Send(o)
         /\ todo' = [todo EXCEPT ![Tm] = @ \ {o}]
         /\ IF link = "up"
            THEN sent' = [sent EXCEPT ![Tm] = [h |-> NewHandle, ono |-> o]] /\ Goto(Tm, "addGet")
            ELSE UNCHANGED <<sent, pc>>
    /\ UNCHANGED <<kind, state, client, link, safe, events, pending, timer, next, inGuid, asked, budget>>

AddGetHandle ==
    /\ pc[Tm] = "addGet"
    /\ gets' = gets \cup {<<sent[Tm].h, sent[Tm].ono>>}
    /\ sent' = [sent EXCEPT ![Tm] = Nothing]
    /\ Goto(Tm, "resend")
    /\ UNCHANGED <<kind, state, conn, subs, sets, timer, next, todo, inGuid, asked, budget>>

Resent ==
    /\ pc[Tm] = "resend" /\ todo[Tm] = {}
    /\ Goto(Tm, "return")
    /\ UNCHANGED <<kind, state, conn, pending, timer, next, locals, asked, budget>>

-----------------------------------------------------------------------------

CbStep ==
    \/ Established \/ AskGuid \/ Subscribe \/ SendSubscription \/ SubscriptionsSent
    \/ Query \/ SendQuery \/ QueriesSent \/ NothingQueried \/ StartTimer
    \/ Respond \/ AllSubscribed \/ ValuesPending \/ GotValue \/ SetState(Cb)
    \/ ConnectionLost \/ ClearPending(Cb) \/ LostCheck(Cb) \/ LostSetConnecting(Cb)
    \/ LostReturns \/ StopTimer(Cb) \/ JoinTimer(Cb)

\* What a call of the application does once it has begun.
AppStep ==
    \/ ClientStop \/ ClientUnsafe \/ ClearPending(App) \/ LostCheck(App)
    \/ LostSetConnecting(App) \/ ClientReset \/ Disconnected \/ AddSetHandle
    \/ StopTimer(App) \/ JoinTimer(App)

TmStep ==
    \/ TimerLeaves \/ TimerWaits \/ Retry \/ RetryCheck \/ Resend \/ AddGetHandle
    \/ Resent \/ SetState(Tm) \/ StopTimer(Tm)

Next ==
    \/ Connect \/ Disconnect \/ SetValue \/ AppStep
    \/ CbStep
    \/ TimerFires \/ TmStep
    \/ LinkUp \/ LinkLost \/ \E r \in wire : DeviceAnswers(r)

Spec == Init /\ [][Next]_vars

\* Threads run, dialing succeeds in the end, and the device answers every request
\* that reaches it.  The application need not call, the timer need not fire.
Fairness ==
    /\ WF_vars(CbStep) /\ WF_vars(AppStep) /\ WF_vars(TmStep)
    /\ WF_vars(LinkUp)
    /\ WF_vars(\E r \in wire : DeviceAnswers(r))

FairSpec == Spec /\ Fairness

-----------------------------------------------------------------------------
(* Properties *)

States == {"Disconnected", "Connecting", "Subscribing", "Subscribed", "GetValues", "Connected"}
Places == {"none", "idle", "wait", "return", "stop", "join", "start", "askGuid",
           "subscribe", "sendSub", "query", "sendGet", "queried", "subscribed",
           "valuesPending", "gotValue", "setGetValues", "setConnected", "setSubscribing",
           "clear", "lost", "setConnecting", "lostDone", "clientStop", "clientUnsafe",
           "clearAll", "addSet", "retry", "retryCheck", "resend", "addGet"}
Onos == Objects \cup {Guid}

TypeOK ==
    /\ kind \in Kinds /\ state \in States
    /\ client \in BOOLEAN /\ safe \in BOOLEAN /\ mStop \in BOOLEAN /\ inGuid \in BOOLEAN
    /\ link \in {"none", "dialing", "up", "lost"}
    /\ \A e \in ToSet(events) : e \in {Made, Lost} \/ e.h \in Handles
    /\ wire \subseteq [h : Handles, ono : Onos]
    /\ subs \subseteq Handles /\ gets \subseteq Handles \X Onos /\ sets \subseteq Handles
    /\ lock \in Threads \cup {"none"}
    /\ pc \in [Threads -> Places] /\ next \in [Threads -> Places]
    /\ \A t \in Threads : todo[t] \subseteq Objects
    /\ asked \subseteq Objects

\* The application is not inside a call, Cb not inside a callback.
Still == pc[App] = "idle" /\ pc[Cb] = "idle"

\* No callback is queued either, and the timer's worker is not retrying.
Quiet == Still /\ events = <<>> /\ pc[Tm] \in {"none", "wait"}

\* disconnect() leaves nothing behind: once it has returned no callback is under
\* way or queued, the timer's worker is gone and no request is remembered.
DisconnectLeavesNothing ==
    (pc[App] = "idle" /\ ~client) =>
        /\ pc[Cb] = "idle" /\ ~safe /\ events = <<>>
        /\ pc[Tm] = "none" /\ mStop
        /\ subs = {} /\ gets = {} /\ sets = {}

\* The client is there whenever another thread is about to use it (the order of
\* the calls in disconnect(), comment of lines 105-118).
ClientOutlivesUse ==
    ~client => pc[Cb] = "idle" /\ pc[Tm] \notin {"resend", "addGet"}

\* Connected is not reported while a subscription is unanswered, whatever the
\* timer does meanwhile.
ConnectedIsSubscribed == state = "Connected" => subs = {} \/ link # "up"

\* Connected means that every value was answered too (Ocp1Controller.h line 82).
ConnectedIsComplete == (state = "Connected" /\ Still) => subs = {} /\ gets = {}

\* Connected means that the device was asked to report every tracked object.
ConnectedIsAsked == (state = "Connected" /\ Quiet /\ link = "up") => asked = Objects

\* Outstanding values of tracked objects are watched by the timer: nothing else
\* would ask for them again.
OutstandingIsWatched ==
    (Quiet /\ link = "up" /\ client /\ \E p \in gets : p[2] \in Objects) => ~mStop

\* A subscription that is awaited can still be answered: its request is with the
\* device or the answer is queued.  Nothing retries a subscription, so that any
\* other would keep the session from Connected for ever.
SubscriptionsAreAlive ==
    (Still /\ link = "up" /\ events = <<>>) => \A h \in subs : \E r \in wire : r.h = h

\* After disconnect() the state is Disconnected, so that connect() works again
\* (Ocp1Controller.h line 130).
DisconnectedWithoutClient == (pc[App] = "idle" /\ ~client) => state = "Disconnected"

\* The timer is only ever started when it is stopped and its last worker is gone.
TimerStartsAfresh == pc[Cb] = "start" => mStop /\ pc[Tm] = "none"

\* A thread that joins the timer's worker is not waited for by the worker.
NoTimerDeadlock == pc[Tm] = "stop" => lock = "none"

\* If the link stays up and the application stays away, the session becomes
\* Connected, from wherever the last loss interrupted it.
SessionCompletes == <>[](link = "up" /\ pc[App] = "idle") => <>[](state = "Connected")

\* disconnect() returns.
DisconnectReturns == (pc[App] # "idle") ~> (pc[App] = "idle")
=============================================================================
