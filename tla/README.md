# NanoOcp1: TLA+ models, model checking and proofs

NanoOcp1 is a C++ library for OCP.1 (AES70 over TCP): it dials a device, keeps
the connection alive by dialing again, frames binary messages, and runs a session
(subscribe to objects, query their values, set values) on top. Nearly all of its
difficulty is in the threads: a timer thread, a socket thread, a dispatcher thread
and the application share a few objects guarded by mutexes, atomics and a fixed
order of calls. The repository's tests cover the pure parts (messages, data types,
variants, object definitions) call by call and none of the concurrency. This directory
models both in TLA+: the threads of the timer, the dispatcher, the client, the controller
and the server, and the sessions of the controllers with a device down to the bytes of
their messages. TLC checks small instances, and TLAPS proves for all of them the safety of
the threads, the uniqueness of object numbers, that the streams of a session stay in step, and
that the conversions keep the values they convert.

All paths are relative to `src/Source/`.

## Inventory

| Component | State | Operations | Correct when |
|---|---|---|---|
| `internal/NanoTimer` | `m_thread`, `m_stop`, `m_deadline`, `m_lifecycleMutex` | `startTimer`, `stopTimer`, the worker loop with `timerCallback` | after a stop no callback runs, after a start it fires again and again, a `std::thread` is never overwritten, joined twice or joined by itself, no call blocks for ever |
| `internal/NanoAsyncDispatcher` | `m_queue`, `m_accepting`, `m_thread` | `post`, `stop`, destructor, `run` | tasks run once, in order, none is dropped; stopping ends; the worker never touches a destroyed object |
| `internal/NanoThread` | `m_thread`, `m_running`, `m_shouldExit` | `startThread`, `stopThread`, `signalThreadShouldExit` | a stopped thread has ended; `stopThread` joins whatever its timeout says |
| `internal/NanoSocket` | descriptor, connected flag | `connect`, `read`, `write`, `close`, `waitUntilReady`, listener | external behaviour of the operating system; `close()` ends a blocked read |
| `Ocp1Connection` | `socket` (shared mutex), `callbackConnectionState`, `safeAction`, reader thread, dispatcher | `connectToSocket`, `initialiseWithSocket`, `disconnect`, `sendMessage`, `runThread`, `readNextMessage`, the callback dispatch | callbacks come as made, data..., lost; none after `disconnect()`; no frame is cut; every loss is reported |
| `NanoOcp1Client` | `m_running`, reconnect timer | `start`, `stop`, `timerCallback`, `connectionMade`, `connectionLost`, `sendData` | it dials until it is connected, again after each loss, never after `stop()` |
| `NanoOcp1Server`, `Ocp1ConnectionServer` | listener, accept thread, active connection | `start`, `stop`, `run`, `createConnectionObject`, `sendData` | one active connection; `stop()` ends accepting |
| `Ocp1Controller` | `m_state`, `m_client`, maps of pending handles, tracked objects, retry timer | `connect`, `disconnect`, `setValue`, the client's callbacks, `processMessage`, `retryPendingGetValues` | Connected means subscribed and complete; every session gets there; `disconnect()` leaves nothing behind |
| `SoundscapeController` | GUID, model, definition maps | GUID handshake, `setActiveRemoteObjects`, `setObjectValue` | no subscription before the device is known; object numbers belong to the right channel |
| `AmpController` | tracked objects by amplifier type | `setAmpType`, setters | each channel is mapped to its own objects |
| `Ocp1Message`, `Ocp1Header` | next handle (static counter) | marshal, unmarshal, sizes | a message read back is the message written; sizes agree with the bytes |
| `Ocp1DataTypes`, `Variant`, object definitions | none | conversions, `GetONo` | conversions invert each other; object numbers are distinct |
| `NanoOcp1Demo`, tests, build | - | - | not modelled |

How they interact: the controller owns a client and is itself a `NanoTimer` (retry of
queries); the client is an `Ocp1Connection` and itself a `NanoTimer` (reconnect).
A connection owns a reader thread and, in the default mode
(`callbacksOnMessageThread = true`), a dispatcher to whose worker the reader posts
the callbacks connectionMade, messageReceived and connectionLost. The controller's
code therefore runs on three threads: the application, the dispatcher's worker, and
its own timer's worker.

What is hard: joining threads while mutexes are held; callbacks that call back into
the object that runs them; a check of a state and its use on either side of another
thread's step; answers in any order and with errors, across lost connections; a retry
racing a late answer. `PROJECT.json` lists every such place ("hazards") with
its line and the properties that watch it.

## Modules

| Module | Models |
|---|---|
| `NanoTimer` | `internal/NanoTimer.{h,cpp}`; `NanoTimerProofs` its theorems |
| `TaskQueue` | the abstract promise of the dispatcher: an open or closed FIFO of tasks |
| `NanoAsyncDispatcher` | `internal/NanoAsyncDispatcher.{h,cpp}`; `NanoAsyncDispatcherProofs` its theorems |
| `NanoOcp1Client` | `NanoOcp1Client` (`NanoOcp1.{h,cpp}`) with the `Ocp1Connection` it is; `MCNanoOcp1Client` its bounds, `NanoOcp1ClientProofs` its theorems |
| `Ocp1Controller` | the threads of `Ocp1Controller.{h,cpp}` and the GUID handshake of `SoundscapeController`; `MCOcp1Controller` its bounds, `Ocp1ControllerProofs` the theorems about its threads and about a session |
| `Ocp1DataTypes` | the conversions and the packing of object numbers of `Ocp1DataTypes.cpp`; `MarshallingProofs` the theorems about them, `Variant` and `Ocp1Message` |
| `Ocp1Message` | `Ocp1Message.{h,cpp}`: headers, the four messages, writing and reading them |
| `Ocp1ObjectDefinitions` | `Ocp1ObjectDefinitions.h` and `Ocp1DS100ObjectDefinitions.h`: the commands of each class, the objects of a DS100 |
| `Variant` | `Variant.{h,cpp}`: values with their types and every conversion between them |
| `SoundscapeController`, `AmpController` | the tables of the two controllers: which definition belongs to which remote object, channel and firmware |
| `DeviceSession` | a session in bytes of each of the three controllers with a device, composed of the six modules above; `MCDeviceSession` its setups, `DeviceSessionProofs` its theorems, `DeviceHeardProofs` those of what Connected and a set are worth |
| `NanoOcp1Server` | `NanoOcp1Server` and `Ocp1ConnectionServer`; `NanoOcp1ServerProofs` its theorems |

Operators with a name `X_Something` and a comment "Faulty" are deliberate mistakes
in the definition `X`; nothing uses them. Putting one in the place of `X` makes the
property fail that is listed beside it in `PROJECT.json` ("mutants"), which shows
that the property depends on the code.

### NanoTimer

`pc` says where each caller and each worker is. A call that takes the lifecycle
mutex and does all its work under it without blocking is one step; a `join()` under
the mutex is a step of its own (`StartReap`, `StopJoin`) which keeps `lifecycle` taken.
`moved` is what the code does with `m_deadline`: a worker that wakes compares the
deadline it slept for with the present one and goes on sleeping if it was moved.
Workers are numbered because `startTimer()` may create a second one beside a detached
first. The callback is a state ("callback"), in which the worker may itself call
`startTimer`/`stopTimer`, as the constant
`ReentrantCalls` allows: the two users in the repository stop the timer from its own
callback, and none restarts it.

| Run | Shows |
|---|---|
| `NanoTimer_calls` | callback may stop the timer: `TypeOK`, `NoThreadMisuse`, `NoOrphan`, `StopQuiesces`, `StartArms`, and under fairness `StopTerminates` (only as long as no worker is inside a stop of its own), `ArmedFires` |

Three outside callers and two workers suffice: each race is between one caller that
holds the mutex in a join, one that waits for it and the worker joined; the second worker
is created after the first was reaped.

### NanoAsyncDispatcher and TaskQueue

A post is two steps, because `notify_one()` comes after the unlock; a stop is up to four.
The worker sleeps in a state of its own, so that a notification that comes too early is
seen to be lost. `TaskQueue` is what a user may rely on: tasks accepted while the queue
is open begin one by one in order. The refinement maps accepted tasks to those started
followed by those queued, and `open` to `accepting` or tasks left.

| Run | Shows |
|---|---|
| `Dispatcher_queue` | two outside threads and the tasks post, the threads stop, and either may be the destructor: refinement of `TaskQueue` with fairness, no lost wake-up, one owner of the join, `DestroyedIsQuiet`, `StopReturns` |

Two outside threads and three tasks give two posts, a stop and a task that posts at once.
The constants leave stops to the threads: `StopReturns` and `DestroyedIsQuiet` say nothing of a
`stop()` or a destructor called by a task. `DispatcherSafe` does (exactly one stop lets the thread go,
`Stoppers` being any set). Not kept as runs: a second `stop()` returns while tasks still run, and a task that
destroys the dispatcher leaves its worker using freed members; the repository's one user
does neither.

### NanoOcp1Client

Four threads: `App` (start, stop, the destructor), `Tm` (the worker of the reconnect
timer), `Rd` (the reader of the socket) and in the "async" mode, the default, `Cb` (the
dispatcher's worker, here reduced to the FIFO that `NanoAsyncDispatcher` is shown to
implement). `mode` is chosen in `Init`. In "sync" mode a callback runs on the thread that has
something to report.

`disconnect()` and `connectToSocket()` are run by `App` or `Tm`; their steps are those at
which another thread can act: closing the socket, the join, deleting it and reporting the
loss, waiting for the safe action's mutex, dialing, connectionMade, starting the reader.
`socket` is null, open, ended (`m_connected` is false) or closed under the reader. `safe`
and `safeLock` are `SafeActionImpl`: its mutex is held during a callback. The timer is
`mStop`, `lock` and the place of its only worker; of `startTimer()` only the cases are
modelled that its callers reach, which `TypeOK` watches (`pc[Tm] # "start"`). `told` is a
history variable: what the user heard last.

The peer sends frames (`whole` of them are readable, `part` says what part of the next is)
and may end the connection gracefully or with a reset, between frames or within one.
`Cuts` says where within a frame it may stop. `Prompt` is the one timing assumption: a
timer of 500 ms does not expire while the application is in a call or a callback is
pending. It is an assumption about speed, not about the code; without it (`Prompt = FALSE`)
a stop and a connect wait for each other in the "async" mode too (see the observations), and
`StopReturnsQuiet`, `AssertionsHold` and `CallbackOrder` fail, because the
worker may then dial while a call or a callback is still under way. The theorems of these
three need less (`RedialsAlone` and `StartsAlone`, see Proofs); the schedule of the run satisfies both.

| Run | Shows |
|---|---|
| `Client_reconnect` | both modes: `AssertionsHold` (those of the source, and no reader created over another), `CallbackOrder`, `StopReturnsQuiet`, `GoneIsQuiet`; in the "async" mode `CallsReturn`, `LossReported`, `SessionResumes` |
| `Client_cut` | violation: a connection that ends within a header is never reported |
| `Client_rearmed` | violation: a stopped client dials |

Bounds: two frames (one is read while the next arrives or is cut), one end of a connection
(so two connections), one start and one stop, and the destructor at any time. A second
`start()` is left out: callbacks still queued at `stop()` are then made after all, which
breaks `CallbackOrder` and is listed under the hazards, and two threads may dial at once (see the
observations). What closing a socket does to a
blocked `recv()` differs between systems; the model takes the comment at
`Ocp1Connection.cpp:138` at its word, that it returns.

### Ocp1Controller

Three threads: `App`, `Cb` (the dispatcher's worker, which runs the client's callbacks),
`Tm` (the worker of the controller's timer). `subs`, `gets` and `sets` are the three maps of
pending handles; each access under `m_pendingMutex` is a step, merged with a neighbour
only if no other thread can act on what is between them. The timer is modelled as
`NanoTimer` has it: `mStop`, the mutex holder `lock` and the worker's place `pc[Tm]`. The
cases of `startTimer()` that re-arm or reap are left out, and the property
`TimerStartsAfresh` shows that they are not reached.

The client is abstracted to what the controller sees: `link` is dialed until it is up;
`events` are the callbacks queued for `Cb` in order; `ClientStop` and `ClientUnsafe` are
`NanoOcp1Client::stop()`, which ends the link, then waits for the running callback,
drops the queued ones, and finally runs onConnectionLost on the caller's thread. The device keeps
the requests it got (`wire`) and answers them in any order with success, with an error, or with a status 0 answer that carries no usable value, as `Answers` and, for the GUID,
`GuidAnswers` allow. `kind`, chosen in `Init` from `Kinds`, is the class of the controller: with
"soundscape" the GUID query of `SoundscapeController` comes before the subscriptions.

What a value is, the notifications (they reach a user callback and change nothing in
the controller's state) and the object definitions are left out: `DeviceSession` has them. Handles are the least one that
is remembered nowhere: the code counts up, and all that matters is that a handle in use
is not given out again. `asked` is a history variable.

| Run | Shows |
|---|---|
| `Controller_session` | both kinds, two objects, two connects, one disconnect, one loss, errors, the timer armed but never firing: `TypeOK`, `ConnectedIsAsked`, `ConnectedIsComplete`, `OutstandingIsWatched`, `SubscriptionsAreAlive`, `SessionCompletes`, `DisconnectReturns` |
| `Controller_retry` | the timer fires at any moment: `DisconnectLeavesNothing`, `ClientOutlivesUse`, `ConnectedIsSubscribed`, `TimerStartsAfresh` |
| `Controller_after_disconnect` | violation: a callback overwrites Disconnected |
| `Controller_retry_deadlock` | violation: timer callback and response stop the timer at once |

`OutstandingIsWatched` is of a session whose timer has not fired yet, and so is every property of
`Controller_session`: what a tick does to them is in `Controller_retry` and its deadlock, which
`DisconnectReturns` does not meet.
Not kept as runs: while the retry re-issues its queries their map is empty for a moment, and
a subscription acknowledged then makes the state Connected too early; and GetValues is set
before Subscribed, against the order `Ocp1Controller.h:49` documents.

Bounds: two objects make a first and a last answer of each kind; one loss
interrupts a session anywhere and one more connection follows; a second connect shows that
what the first left behind does no harm; one tick of the timer meets every state of a
session. `MaxHandle = 8` is never reached.

### DeviceSession and the modules under it

Where `Ocp1Controller` follows the threads and leaves the data out, `DeviceSession` follows
the data: each message is handled in one step, and what travels are the bytes that
`Ocp1Message` writes and reads. The two agree on the order of a session (connect, GUID query,
subscriptions, queries, Connected). The retry timer is left out here.

`toDevice` and `toController` are byte streams, cut only by the sizes in their headers, so that a
wrong size loses everything behind it. The controller's side is `known` (`m_ROIsToDefsMap`),
`tracked`, the three sets of pending handles, `stackIdent` and `deviceGuid`, in the order in which
`ProcessMessage` takes a notification, a keep-alive, an acknowledgement, a value or a GUID.
`heard` is what the application's callback was given last, `asked` the last set since which the
device changed nothing by itself, `reading` the last conversion of a heard value.

The device is external and modelled by what the code expects of it: it holds bytes per property
(`held`), subscribes, answers a query with those bytes (positions with their bounds, 36 bytes, or
with the alignment, 24, on old firmware), takes a set whose width fits and refuses any other, notifies its
subscriber of every change (12 bytes for a position), refuses a number it does not have with a
`BadONo`, and may change a property by itself. Which numbers it has depends on the firmware it
reports in its GUID; a reconnection may find other firmware. `Cut` loses what was under way.

Data is scaled, never cut short: a byte has `ByteSize` = 8 values and the widths keep their
number of bytes, so that every boundary (signed, unsigned, a value too wide) is there with small numbers;
floating-point numbers are halves of integers, which keeps rounding apart from exactness;
a text is a sequence of characters or a numeral; the GUID is read by its hexadecimal
digits. The fields of object numbers have their real widths.

`ReadAs` asks for every conversion of every value that was heard, `SetObjectValue` sends every value of a
setup to every target.

| Run | Shows |
|---|---|
| `Devices_values` | the setups of `MCDeviceSession`: `TypeOK`, `ConnectedMeansHeard`, `SetReachesItsObject`, `WellFramed`, `OneNumberPerObject`, `ReadingsAreFaithful` |
| `Devices_guid_tracked` | violation of `ConnectedMeansHeard`: an application that asks for the GUID too gets it in place of the handshake |

Bounds: a setup tracks one object, or two where mixing them up is possible, at addresses (1,2) and (2,1)
or channel 2 of 2, so that a swapped, missing or shifted index meets another object; every remote
object of a DS100 is a setup of its own, speakers are met on old and new firmware with a
reconnection between and a change of the device size, every type of amplifier has one channel, and a plain
controller tracks one object of each data type (one of them aiming angles with a position, 24
bytes) and is set from a value of each type. One set and one
report follow the first values, because the handling of a message depends on the maps and
not on how many came before. The steps may stop when the bounds are used up (`CHECK_DEADLOCK
FALSE`).

### NanoOcp1Server

Two threads and the readers: the owner (`start`, `stop`, `sendData`, the destructor), the accept thread
(`Ocp1ConnectionServer::run`) and for each connection its reader, which makes its callbacks or queues them
(`onMessageThread`, chosen in `Init`). `at` says where a thread is, `on` which connection it
works on, `after` where it goes on once it has disconnected it. `disconnect()` is in its steps, because
the owner and the accept thread may run it at once on one connection. A callback picks the connection in
use and answers on it in two steps, as `sendData()` does. `stop()` picks it twice: to disconnect it, and
once more to ask whether it is still connected (`PickActive`, `UseActive`).

A step that touches a destroyed object, calls a pure virtual function or joins a thread that
another has joined ends the behaviour (`fault`): the model does not say what happens then. The
observations list how it is reached. Nothing restarts a stopped owner: it need not call, nor peers dial
(`CHECK_DEADLOCK FALSE`).

| Run | Shows |
|---|---|
| `Server_accept` | two peers that send one message each, three calls of the owner: `TypeOK`, `RepliesReachTheirPeer`, `CallsReturn` |

Two peers make one replacement at every moment of the first connection's life; the invariants
hold with three peers too (337274 states), and are proved for any number. Three calls are a start, a
use or another start, and the destructor.

## Fairness

Threads run: a thread that can take its next step does so in the end (weak fairness of
each thread's steps), which is what an operating system gives. An armed timer fires
(`NanoTimer`). The callback returns. For the controller: dialing succeeds in the end and the
device answers each request that reaches it, both as premises of `SessionCompletes`,
because the code has no answer to a device that stays silent during the subscriptions.
For the client: a dial that is repeated for ever succeeds at last (strong fairness), without
which nothing can be connected. No fairness is assumed of the peer, of the application's calls, of losses or of the retry timer.
For the server: the owner's call, the accept thread and the callbacks go on when they can; peers
need not dial, send or close, and the owner need not call. `DeviceSession` has safety properties only.

## Proofs

`NanoTimerProofs`: for any sets of callers and workers, `TypeOK`, `NoThreadMisuse`, and, as
long as callbacks do not restart the timer, `NoOrphan`, `StopQuiesces`, `StartArms`. The
inductive invariant ties the mutex to the place of its holder (who is inside a join holds it),
`m_thread` to the only worker that is alive, and the stop flag to the places between the
signal and the join. Without the first part a second caller could take the handle away
from a joining one, which no step's guard excludes by itself.

`NanoAsyncDispatcherProofs`: for any threads and tasks, `TypeOK`, `NoLostWakeup`, the
single owner of the join, the safety part of the refinement (`Spec => Queue!Spec`), and
`DestructionIsQuiet` for the way `Ocp1Connection` uses it. The invariant says that a
sleeping worker has an empty open queue or somebody who is still going to notify it.

`NanoOcp1ServerProofs`: for any numbers of peers, messages and calls, `TypeOK` and
`RepliesReachTheirPeer`. That an answer goes to the peer it answers is not inductive: a callback
picks whatever connection is in use, which may be another by then. The invariant adds why that one
cannot be used yet. Callbacks are made for the connection in use and for the one that the accept thread is
disconnecting (`ConnectionInv`), and as long as it is at that, the connection that takes its place
has no socket (`AcceptorInv`). `OwnerInv` and `ListenerInv` say the same of the owner's destruction
and of the listener. The proof has one lemma for each action and one step for each part.

`Ocp1ControllerProofs`: for either class of controller, any numbers of objects, handles, calls, losses and
ticks, and any answers, `TypeOK`, `DisconnectLeavesNothing`, `ClientOutlivesUse`,
`ConnectedIsSubscribed` and `TimerStartsAfresh`. The last three look local and are not: whether a subscription can
be sent while the timer's worker is about to report Connected depends on where that worker was when
the link was lost. The invariant follows a session. The queue of callbacks begins with the connection and ends
with its loss (`QueueInv`); what is left of a session when its loss has been handled is no worker,
no pending handle and not the state Connected (`LossInv`), and that is what the next one starts from,
until it has started the timer itself (`StartInv`; the pending GUID keeps all else from happening).
`CallInv` says the same of `disconnect()`: the client is silent before its loss is handled
and the worker is gone before the client is let go. One lemma for each action, one step for each part.

The module goes on with what the controller promises of a session, for the same constants. `SubscriptionsAreAlive` holds always: a subscription that the state machine waits for is with the
device or its answer is queued, whatever is lost, refused or repeated. The others need the
premises that the run has too, as premises on the state and not on the constants. `ConnectedIsAsked`
holds if the GUID, where it is asked for, is answered usably (`GuidAnswered`; a refusal makes the controller
Connected with nothing subscribed, see the observations). `ConnectedIsComplete` and
`OutstandingIsWatched` hold until the retry timer fires for the first time (`Unticked`): a retry
empties the map of queries for a moment. The invariant `SessionInv` follows what is still to be asked
(`AskedInv`: the connection, the GUID or the subscriptions are still to be handled), and what of it has been answered
(`CompleteInv`, `WatchedInv`); `GuidInv` tells the query of the GUID from all other requests by its handle.

`NanoOcp1ClientProofs`: for any numbers of calls, frames and ends of connections, in three layers. `Inv`
holds of any client: where a thread may be in which mode, who holds which mutex (`LockInv`), and what the
destructors have ended (`DestroyInv`). It gives `GoneIsQuiet`, and `TypeOK` in the default mode, for any timing.
The other two need premises on the timing, which the code does not ensure. They are stated as what a
step may do, and not of the constants: `Prompt` may be FALSE, and starts, stops, frames and losses are any number.
`RedialsAlone`: the worker of the timer begins to redial only while no callback is queued or run by
the dispatcher, and the application is in no call, or in a stop that is about to wait for the worker.
`StartsAlone`: `start()` is called only when the last session has left no worker, reader or callback to be made.
`Stopped` needs the first. It says that once
`running` is false the worker dials no more, which is only true because `stop()` joins it before it
disconnects; it gives `StopReturnsQuiet`. `Session` needs both,
and gives `AssertionsHold`, `CallbackOrder` and `TypeOK` in either mode. What a session leaves to the next is
`RestInv`: a connection has a reader (`ReaderInv`), callbacks are let through while there are any (`SafeInv`),
and a user who was told of a connection has it still or is about to hear of its loss (`TellInv`), so that
the next session begins with a user who believes in none. Whether an assertion of
`initialiseWithSocket()` can fail depends on whether the timer may be armed while a connection is up, and that on
whether `connectionMade()` is still to stop it: `ArmedInv` says that the timer runs only while a
connectionMade() is queued or on its way, or the last loss has been reported and nothing is under way (`Quiet`),
where the worker may be about to look whether it has to redial;
`QueueInv` that the queue holds the callbacks of one connection in their order; `HeardInv` what the user has heard
against what is still queued; `SocketInv` and `WorkerInv` who may touch the socket.
Both premises are needed: without them TLC finds counterexamples, which the observations describe. With
`Prompt` and one start, as in `Client_reconnect`, TLC finds both kept by every step, in either mode; with
`Prompt = FALSE` and up to three starts it finds the invariants kept by the steps that satisfy them.

`MarshallingProofs`, for any size of a byte: a number in range is read back from its bytes, and bytes are those of the
number in them, for every width, signed and unsigned (`UnsignedIsRead`, `SignedIsRead`, `BytesOfNumberIn`); a
variant of any scalar type, a text or a byte vector is what is made of its own data (`VariantTravels`);
`GetONoTy2` and `GetONo` are injective on fields in their ranges. `MessageTravels` puts them together: a message
written in front of any stream is the stream's first frame, has the size its header says, is understood as the message that
was sent, and leaves the rest of the stream. "As it was sent" has two exceptions (`Received`): a notification
is given two parameters, and a keep-alive in milliseconds loses its lower half. The numbers and texts are bounded by
what their fields hold (`IsSent`): 16 and 32 bits, and `LongestText` for a text with its length before it.
What a recursive function computes is had from well-foundedness (`SetInduction`, `PrimitiveRecursion`):
the library's rules of induction take an operator.

`DeviceSessionProofs` carries this to a whole session, in four layers, for any setups, any values of
the device, any reports, cuts and reconnections.

`OneNumberPerObject`: the invariant `KnownInv` says that the map holds entries of the table at addresses that
a DS100 has, each under the number of the newer or of the older firmware; what remains is that the table's
classes have distinct boxes and objects, and that the legacy numbers of the speakers' positions are those of no other entry.

`TypeOK` with the invariant `Inv`, which adds to `KnownInv` that whatever is tracked is a property a message can name
(`TrackedOK`: numbers of 32 bits, levels and indexes of 16, none of them 0), that a request is pending once and under a
handle that was given to it (`HandlesOK`), and what the state and the bounds allow (`StateOK`, `HeardOK`,
`SpentOK`). That every table entry is such a property is a proof about all objects of a DS100
and every type of amplifier.

`WellFramed`, the theorem `StreamsAreFramed`: the two streams are members of `Streams(Requests)` and `Streams(Frames)`, the
smallest sets that contain the empty stream and are closed under appending one serialised message. A step
appends messages or takes the first away, and `MessageTravels` says that what is taken is what was put. The
invariant `FramedInv` says besides that what the device holds is data that fits a message (`HeldOK`); the parameters of
what the application sets are so whatever value it sets (`ParamsAreData`). A handle must not be 0: this is the premise
`HandlesFit` of the theorem, since the code's 32-bit counter (`Ocp1Message.h:426`) runs over to 0 in the end and
`UnmarshalOcp1Message` refuses a command or response with handle 0 (observations).

`ReadingsAreFaithful`, the theorem `ConversionsAreFaithful`: `ReadingInv` says that what was heard has the type it is taken for,
because what arrives are sequences of numbers (`DataArrives`), and that the last reading is the
conversion of a heard value. The rest is about `Variant` alone: every number to every type of number
(`NumbersAreKept`) and to text (`NumbersArePrinted`), and positions, aiming angles, flags and lists of strings,
which give back the bytes they came from. The reader of a list of strings is a recursive function over the
places in the data; `ParseExists` shows that there is one, from well-foundedness, and
`ListIsRead` that it gives back its bytes, from the end of the data to the front. The premise is `HandlesFit` again, and `IsBytes`:
a binary value that is read as a position or as a list is made of bytes. In the model a text is made of symbols that need not
be bytes (a numeral, say), and nothing in it keeps the device from reporting symbols where a
blob is expected; in the code both are bytes.

`DeviceHeardProofs` proves `ConnectedMeansHeard` (`ConnectedHasHeard`). The streams are read as sequences of messages
(`Speaks`, the smallest relation that relates the empty stream to none and a stream with a frame more to one
message more). The invariant `SessionInv` says that there are such sequences, the requests and what the device says, for which:
no handle occurs twice among the requests, among the responses, or in both (`Numbered`); until the GUID is known
there is no request but its query, and no answer but the GUID (`Greets`); from then on every object that is tracked
either has its query among the requests, behind its subscription or with that taken already (`IsAsked`), or
is subscribed, and the last message that tells of it, or if there is none the value heard last, agrees
with what the device holds at this moment (`IsTold`). The order is what makes it true: a device that changes between the
query's answer and the subscription would leave the application with the old value, so that `AfterIn` asks for the subscription
first; and a notification that follows the answer in the stream is heard after it. A set replaces what
is held, and the device's notification of it is then the last that tells of the object, before or behind the response to the set,
which tells nothing. When nothing is under way both sequences are empty, and what remains of `IsTold` is the property.
The rest is that the controller and the device mean the same by the bytes: an answer with minimum and maximum is
read as the value itself (`AnswerAgrees`), since what is read as a text or as bytes is not answered so (`MatchedOK`,
an invariant about the tables).

The theorem has the premise `DeviceServes` beside `HandlesFit`: no two tracked objects have one number, and no object
is tracked twice (`Distinct`); the device has each tracked object under the definition it is tracked by, its
value can be read as what the controller takes it for, and a level has four bytes (`Willing`, from the time the revision
is known); and a DS100 answers the query of its GUID with the one it has, which is not itself
tracked. It is what the code counts on: values are routed by number alone (`Ocp1Controller.cpp:287`), and
`Devices_guid_tracked` shows what a tracked GUID does. In the run `Devices_values` it holds of all setups.

The same module proves `SetReachesItsObject` (`SetsReachTheirObject`). Two facts carry it. One is about the tables
(`NamedOK`, `SizedOK`, `ListedOK`): the map that tracks and the `switch` that sets have the same definition
for every object and address of the map except the speakers' positions on old firmware (`TablesAgree`), and
the GUID, which both depend on, patches just these (`PatchedIsListed`); from then on what is tracked has the definition
it would be set through. The other, `SetsInv`, is about the requests under way: the set that was asked for last is
behind every other set of its object, or there is none left and the device holds what it carried, unless its width was
wrong. The premises are `HandlesFit`, `DeviceServes`, and for a plain controller `SetsFirst`: what it sets is the first
property of an object, since a set names a level and no property (`Ocp1Message.cpp:61`). That the tables of the
amplifiers and the DS100 list no other property is proved (`AmpIsFirst`, `MapIsFirst`). The invariants `NamedOK`, `SizedOK`,
`ListedOK` and the premise `SetsFirst` hold in all states of `Devices_values`.

`Ocp1DataTypes` assumes that a byte has more than one value (256 in the code). `SetupsAssumption` states what the
types of the code give: the application sends `setDeviceIOSize()` numbers and begins with a supported size (the default is
the maximum); what it tracks and sets are remote objects of the enumeration at integer addresses; definitions of its own
(`plain`) name a property in 32 and 16 bits; values that it sends fit their type (a `Variant` cannot hold another), and
texts the 16 bits of their length. `DeviceAssumption` states that the device holds and reports data of
the length a field can announce.

The other assumptions are the named `ASSUME`s of the modules: agents and tasks are distinct
from the null values, bounds are natural numbers. TLC evaluates all of them in the runs.

Model-checked only: all liveness and the liveness part of the refinement (the prover has no rules for
them here). Every invariant that a passing run of `DeviceSession` checks is proved; what the two theorems of
`DeviceHeardProofs` ask of the device is a premise, since the device is not part of this code.

## Observations

What the models show of the code beside the findings, with the constants that show it where the
kept runs do not.

Timer and client:

- A `startTimer()` between a stop from the timer's own callback and the return of that callback clears `m_stop`
  and then joins a worker that goes on for ever (`NanoTimer.cpp:43,50`); the comment at `:91-94` says
  that the thread "will exit its loop naturally after the callback returns". With `ReentrantCalls = {"stop", "start"}` a restart from
  the callback leaves two workers.
- With callbacks on the connection's own thread a stop and a connect wait for each other: `stop()`
  joins the timer's worker with the lifecycle mutex held, while the worker, in `connectionMade()`, stops
  the timer (`NanoOcp1.cpp:105,130`). The comment at `NanoOcp1.cpp:152` knows the danger.
- Callbacks queued at `stop()` are made after all when a second `start()` makes the safe action
  safe again.
- A `start()` after a `stop()` does not stop the timer. If the callback of a loss armed it once more during that
  `stop()` (the finding of `Client_rearmed`), its worker and the application are in `connectToSocket()` at
  once, and the assertion of `Ocp1Connection.cpp:220` fails: `AssertionsHold` with
  `Budget <- Only(2, 1, 0, 1)`.

Controller:

- A device that refuses the GUID query, or one of another make, leaves the controller
  Connected with nothing subscribed (`Ocp1Controller.cpp:322`).
- While the retry asks again the map of queries is empty for a moment, and a subscription
  acknowledged then makes the state Connected too early; and GetValues is set
  before Subscribed, against the order `Ocp1Controller.h:49` documents.
- Notifications are told apart by object number only (`Ocp1Controller.cpp:287-293`); `MatchesObject`
  is used by the tests alone. Of two tracked objects with one number the last hears (`:50`).
- `setDeviceIOSize()` may be called in any state and does not rebuild what is tracked. `m_ONoToROIMap`
  is written and never read.
- The header says that the speakers' positions start with the legacy definition and are patched to the
  new (`Ocp1DS100ObjectDefinitions.h:601`), the code starts with the new (`SoundscapeController.cpp:607`)
  and patches back; `Positioning_SpeakerGroup` keeps its new number on old firmware.
- `setObjectValue()` sends the scene commands Previous, Next and Recall as SetValue, method 2,
  and not as methods 8, 9 and 7; a float for one coordinate of a position goes out as four
  bytes, which the device refuses and nobody is told; a channel that does not fit its field aliases
  another (257 and 1).

Data:

- A conversion of `Variant` that fails sends 0 and `setValue()` returns true. `ToUInt16` and `ToUInt32`
  of large numerals fail, because they go through `stoi`. `ToBool`, `ToString` and `ToUInt8` differ from
  their comments in `Variant.h` ("non-zero = true", "Only succeeds if TypeString", "truncates").
  `DataToBool` is true for 1 only, against `Ocp1DataTypes.h:70`.
- A position that was heard in answer to a query has 36 bytes and sends 36 when it is set.
- `ToStringVector` takes anything after an empty list, and one byte after any other.
- `ToPositionAndRotation` gives angles before positions, as `ToAimingAndPosition` does (`Variant.h:247`), while
  `DataFromPositionAndRotation` takes the position first (`Ocp1DataTypes.h:267`): the output of one is not
  the input of the other. Both are deprecated aliases, have no caller, and are left out; the pair that replaces them
  is modelled and `AimingIsKept` is proved of it.
- The counter of handles has 32 bits and runs over to 0 in the end; `UnmarshalOcp1Message` takes neither the
  command with the handle 0 nor its answer (`Ocp1Message.cpp:268,329`).
- A keep-alive in milliseconds is read back as its upper half. Nothing sends a keep-alive, although the
  repository's `README.md:200` says that both sides do, and nothing removes a subscription. A command with
  `paramCount` 0 drops its data.

Server:

- `NanoOcp1Server::stop()` disconnects the active connection and leaves the accept loop running; `NanoOcp1.h:270`
  says "Stops the accept loop and closes any active connection."
- The accept thread is stopped by the base destructor, when `createConnectionObject()` and the
  active connection of `NanoOcp1Server` are gone: a peer accepted in between is a fault.
- `stop()` and `sendData()` use the active connection without a lock while the accept thread may
  destroy it, `stop()` twice (`NanoOcp1.cpp:198,201`). Only `onDataReceived` is wired to a server's connections (`NanoOcp1.h:230-233`
  promises the three callbacks of the client).

## Not modelled

- `NanoOcp1Demo`: rendering and dialogs, without logic of its own.
- The tests and the build files.
- `NanoSocket`'s system calls, socket options and name resolution: external, modelled by what
  they return to their callers.
- The texts shown for states, types, levels and errors; the scene agent's commands and `RemoveSubscription`,
  which nothing in the library sends; `MatchesObject`; the deprecated aliases of `Variant` and `Ocp1DataTypes`.
- The threads and the bytes of a session in one module: the product is out of TLC's reach. The
  order in which `Ocp1Controller` and `DeviceSession` handle a session is the same.
