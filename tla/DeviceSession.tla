--------------------------- MODULE DeviceSession ---------------------------
(***************************************************************************)
(* A session between a controller and a device, with the bytes that travel *)
(* between them: what is subscribed, asked and set, under which object     *)
(* numbers and in which encodings, what the device makes of it, and what   *)
(* the application hears.  It composes the tables of SoundscapeController  *)
(* and AmpController, or a plain Ocp1Controller with objects of the        *)
(* application's own, with the messages of Ocp1Message.                    *)
(*                                                                         *)
(* Each message is handled in one step; the threads and the retry timer of *)
(* Ocp1Controller have the module of that name.  The device is external.   *)
(***************************************************************************)
EXTENDS AmpController, Ocp1Message

Seqs == INSTANCE SequencesExt

CONSTANTS
  Setups,                \* what the application configures, and its bounds
  InitialValue(_, _, _), \* the bytes of a property at first, by type, level and index
  Reports(_, _, _)       \* the bytes it may come to hold

(***************************************************************************)
(* A setup is a record of the kind of controller and                       *)
(*   amp:        ampType, channels                                         *)
(*   soundscape: active (a sequence of remote objects), sizes (pairs of    *)
(*               inputs and outputs; the first is in place at the start)   *)
(*   plain:      defs (a sequence of definitions)                          *)
(* with targets and values (what is set), reads (the conversions asked     *)
(* for), guids (the firmware that may answer), and the bounds sessions,    *)
(* sets, reports and beats.                                                *)
(***************************************************************************)

MaxUint16 == 65535

(* A text is as long as its length can say, 16 bits.                       *)
LongestText == MaxUint16
IsData(data) == data \in Seq(Int) /\ data # << >> /\ Len(data) <= LongestText + 2
IsSetValue(v) ==
  IsTyped(v) /\ (v[1] \in {"STRING", "BLOB"} => Len(v[2]) <= LongestText)

(* A definition has a number of 32 bits, a level, index and getter of 16,  *)
(* none of them zero.                                                      *)
IsProperty(def) ==
  /\ def.ono \in Nat \ {0} /\ def.ono \div (MaxUint16 + 1) <= MaxUint16
  /\ {def.level, def.index, def.getter} \subseteq 1 .. MaxUint16
  /\ def.type \in DataTypes

ObjectAddresses == Int \X Int

(* What an application may ask for, through the types of the interface:    *)
(* addresses and sizes are numbers, a plain controller is given proper     *)
(* definitions, and a SoundscapeController is made for a size it supports. *)
ASSUME SetupsAssumption ==
  \A s \in Setups :
    /\ s.kind \in {"amp", "soundscape", "plain"}
    /\ {s.sessions, s.sets, s.reports, s.beats} \subseteq Nat
    /\ s.guids # {} /\ \A guid \in s.guids : guid \in Seq(Int) /\ Len(guid) <= LongestText
    /\ s.kind = "amp" =>
         /\ s.ampType \in AmpTypes /\ s.channels \in Nat
         /\ s.targets \subseteq AmpQuantities \X ObjectAddresses
         /\ \A object \in s.targets, value \in s.values :
              IsSetValue(AmpSetVariant(object[1], value))
    /\ s.kind = "soundscape" =>
         /\ s.active \in Seq(RemObjIdents \X ObjectAddresses)
         /\ s.targets \subseteq RemObjIdents \X ObjectAddresses
         /\ \A value \in s.values : IsSetValue(value)
         /\ s.sizes \in Seq(Nat \X Nat) /\ s.sizes # << >>
         /\ s.sizes[1] \in (1 .. MaxInputs) \X (1 .. MaxOutputs)
    /\ s.kind = "plain" =>
         /\ s.defs \in Seq(Seqs!ToSet(s.defs)) /\ \A def \in Seqs!ToSet(s.defs) : IsProperty(def)
         /\ s.targets \subseteq {"Plain"} \X ((1 .. Len(s.defs)) \X Int)
         /\ \A value \in s.values : IsSetValue(value)

(* The properties of the device that a setup may speak of, one for all     *)
(* channels, and what the device holds of them: some bytes.                *)
Properties(s) ==
  CASE s.kind = "plain" -> Seqs!ToSet(s.defs)
    [] s.kind = "amp"   ->
         {AmpObjectDefinition(s.ampType, quantity, 0) : quantity \in AmpQuantities}
    [] s.kind = "soundscape" ->
         {OcaObject(name, 0, 0) : name \in UNION {DOMAIN group.objects : group \in DS100Groups}}

ASSUME DeviceAssumption ==
  \A s \in Setups : \A def \in Properties(s) :
    /\ IsData(InitialValue(def.type, def.level, def.index))
    /\ \A data \in Reports(def.type, def.level, def.index) : IsData(data)

VARIABLES
  setup,
  state,         \* m_state
  linked,        \* the TCP connection is up
  known,         \* m_ROIsToDefsMap
  ioSize,        \* m_activeInputChannelCount, m_activeOutputChannelCount
  stackIdent,    \* m_stackIdent
  deviceGuid,    \* m_deviceGuid
  tracked,       \* m_trackedObjects: sequence of object and definition
  pendingSubs,   \* m_pendingSubscriptionHandles
  pendingGets,   \* m_pendingGetValueHandles: handle to object number
  pendingSets,   \* m_pendingSetValueHandles
  nextHandle,    \* the global handle counter
  heard,         \* per object, the last value given to the application
  asked,         \* the last set since which the device did nothing itself
  reading,       \* the last conversion of a value heard
  toDevice, toController,   \* bytes under way
  held,          \* per property, the bytes the device holds (if changed)
  subscribed,    \* object numbers the device notifies of
  guid,          \* of the device that answers
  spent          \* how often each bounded step was taken

controllerVars == << state, linked, known, ioSize, stackIdent, deviceGuid, tracked,
                     pendingSubs, pendingGets, pendingSets, nextHandle >>
appVars == << setup, heard, asked >>
deviceVars == << held, subscribed, guid >>
vars == << controllerVars, appVars, reading, deviceVars, toDevice, toController, spent >>

IsSoundscape == setup.kind = "soundscape"
NoGuid == << >>
NotAsked == [object |-> << "none", Unindexed >>, ono |-> 0, data |-> << >>]
NotRead == [variant |-> NoVariant, type |-> "NONE", read |-> Read(FALSE, 0)]
EmptyMap == [x \in {} |-> x]
Without(f, x) == [y \in DOMAIN f \ {x} |-> f[y]]
With(f, x, v) == [y \in DOMAIN f \cup {x} |-> IF y = x THEN v ELSE f[y]]

Entry(object, def) == [object |-> object, def |-> def]

(* trackObject keeps every object, but a number leads to the last of them. *)
TrackedAt(ono) == {i \in 1 .. Len(tracked) : tracked[i].def.ono = ono}
OnoIndex(ono) == CHOOSE i \in TrackedAt(ono) : \A j \in TrackedAt(ono) : j <= i

----------------------------------------------------------------------------
(* The device: external.  It has the objects its firmware has, takes a     *)
(* value of the width it holds (or any text), answers, and notifies.       *)
OK == 0
BadFormat == 4
BadONo == 5

DS100Names(ono) ==
  {name \in DOMAIN ObjectNumber :
     /\ ObjectNumber[name] = ono % 128
     /\ GroupOf(name).box = (ono \div 128) % 32
     /\ IF StackIdentOf(guid) >= 1 THEN name # "Positioning_Source_Speaker_Position"
        ELSE name \notin DOMAIN PositioningSpeakerObjects.objects}

DeviceDefinitions(ono) ==
  CASE setup.kind = "plain" -> {def \in Seqs!ToSet(setup.defs) : def.ono = ono}
    [] setup.kind = "amp"   ->
         {def \in {AmpObjectDefinition(setup.ampType, obj[1], obj[2][1]) :
                     obj \in Seqs!ToSet(AmpObjects(setup.channels))} : def.ono = ono}
    [] IsSoundscape ->
         IF (ono \div 268435456) % 16 # 2 THEN {}
         ELSE {OcaObject(name, (ono \div 1048576) % 256, (ono \div 4096) % 256) :
                 name \in DS100Names(ono)}

GuidDefinition == OcaObject("Fixed_GUID", 0, 0)

Held(def) ==
  IF << def.ono, def.index >> \in DOMAIN held THEN held[<< def.ono, def.index >>]
  ELSE IF IsSoundscape /\ def.ono = GuidDefinition.ono THEN DataFromString(guid)
  ELSE InitialValue(def.type, def.level, def.index)

(* Positions and levels are answered with their minimum and maximum.       *)
Answer(def) ==
  IF def.type = "FLOAT32" \/ (def.type = "DB_POSITION" /\ Len(Held(def)) = 12)
  THEN Held(def) \o Held(def) \o Held(def)
  ELSE Held(def)

Respond(msg, status, paramCount, data) ==
  GetSerializedData(ResponseMessage(msg.handle, status, paramCount, data))
Notify(def, data) ==
  IF def.ono \in subscribed
  THEN GetSerializedData(NotificationMessage(def.ono, def.level, def.index, 1, data))
  ELSE << >>

DeviceSubscribes(msg) ==
  LET emitter == U32At(msg.data, 0)
      exists  == DeviceDefinitions(emitter) # {}
  IN  /\ msg.ono = SubscriptionManager
      /\ subscribed' = IF exists THEN subscribed \cup {emitter} ELSE subscribed
      /\ toController' = toController \o Respond(msg, IF exists THEN OK ELSE BadONo, 0, << >>)
      /\ UNCHANGED held

DeviceAnswers(msg) ==
  LET asks == {def \in DeviceDefinitions(msg.ono) :
                 def.getter = msg.index /\ def.level = msg.defLevel}
  IN  /\ msg.ono # SubscriptionManager /\ msg.paramCount = 0
      /\ toController' = toController \o
           IF asks = {} THEN Respond(msg, BadONo, 0, << >>)
           ELSE Respond(msg, OK, 1, Answer(CHOOSE def \in asks : TRUE))
      /\ UNCHANGED << held, subscribed >>

(* The response to a set and its notification come in either order.        *)
DeviceSets(msg) ==
  LET meant == {def \in DeviceDefinitions(msg.ono) :
                  def.index = 1 /\ def.level = msg.defLevel}
      def   == CHOOSE d \in meant : TRUE
      fits  == meant # {} /\ (def.type = "STRING" \/ Len(msg.data) = Len(Held(def)))
  IN  /\ msg.ono # SubscriptionManager /\ msg.paramCount > 0
      /\ held' = IF fits THEN With(held, << def.ono, def.index >>, msg.data) ELSE held
      /\ \/ /\ ~ fits
            /\ toController' = toController \o Respond(msg, BadFormat, 0, << >>)
         \/ /\ fits
            /\ toController' =
                 toController \o Respond(msg, OK, 0, << >>) \o Notify(def, msg.data)
         \/ /\ fits
            /\ toController' =
                 toController \o Notify(def, msg.data) \o Respond(msg, OK, 0, << >>)
      /\ UNCHANGED subscribed

DeviceTakes ==
  /\ toDevice # << >>
  /\ toDevice' = AfterFirstFrame(toDevice)
  /\ LET msg == UnmarshalOcp1Message(FirstFrame(toDevice))
     IN  DeviceSubscribes(msg) \/ DeviceAnswers(msg) \/ DeviceSets(msg)
  /\ reading' = NotRead
  /\ UNCHANGED << controllerVars, appVars, guid, spent >>

(* The value of an object the controller tracks changes on the device, but *)
(* for its GUID.                                                           *)
DeviceReports ==
  /\ spent.reports < setup.reports
  /\ \E i \in 1 .. Len(tracked) : \E def \in DeviceDefinitions(tracked[i].def.ono) :
       \E data \in Reports(def.type, def.level, def.index) \ {Held(def)} :
         /\ def # GuidDefinition
         /\ held' = With(held, << def.ono, def.index >>, data)
         /\ toController' = toController \o Notify(def, data)
  /\ asked' = NotAsked
  /\ spent' = [spent EXCEPT !.reports = @ + 1]
  /\ reading' = NotRead
  /\ UNCHANGED << controllerVars, setup, heard, subscribed, guid, toDevice >>

(* A heartbeat, in seconds or in milliseconds.                             *)
DeviceBeats ==
  /\ linked /\ spent.beats < setup.beats
  /\ \E time \in {U16(5), U32(5000)} :
       toController' = toController \o GetSerializedData(KeepAliveMessage(time))
  /\ spent' = [spent EXCEPT !.beats = @ + 1]
  /\ reading' = NotRead
  /\ UNCHANGED << controllerVars, appVars, deviceVars, toDevice >>

----------------------------------------------------------------------------
(* Configuration, while disconnected.                                      *)

(* The active objects in turn: what the map does not have is skipped.      *)
ActiveEntries(map) ==
  LET active == setup.active
      entries[i \in 0 .. Len(active)] ==
        IF i = 0 THEN << >>
        ELSE IF active[i] \in DOMAIN map
             THEN Append(entries[i - 1], Entry(active[i], map[active[i]]))
             ELSE entries[i - 1]
  IN  entries[Len(active)]

SetActiveRemoteObjects ==
  /\ IsSoundscape /\ state = "Disconnected"
  /\ tracked' = ActiveEntries(known)
  /\ UNCHANGED << known, ioSize >>

SetAmpType ==
  /\ setup.kind = "amp" /\ state = "Disconnected"
  /\ LET objects == AmpObjects(setup.channels)
     IN  tracked' = [i \in 1 .. Len(objects) |->
                       Entry(objects[i], AmpObjectDefinition(setup.ampType, objects[i][1],
                                                             objects[i][2][1]))]
  /\ UNCHANGED << known, ioSize >>

TrackObject ==
  /\ setup.kind = "plain" /\ state = "Disconnected"
  /\ Len(tracked) < Len(setup.defs)
  /\ LET i == Len(tracked) + 1
     IN  tracked' = Append(tracked, Entry(<< "Plain", At(i) >>, setup.defs[i]))
  /\ UNCHANGED << known, ioSize >>

(* Not checked against the state: the map is rebuilt, what is tracked is   *)
(* not.                                                                    *)
SetDeviceIOSize ==
  /\ IsSoundscape
  /\ \E size \in Seqs!ToSet(setup.sizes) :
       /\ ioSize' = << Clamp(size[1], MaxInputs), Clamp(size[2], MaxOutputs) >>
       /\ ioSize' # ioSize
       /\ known' = KnownONosMap(ioSize'[1], ioSize'[2])
  /\ UNCHANGED tracked

Configure ==
  /\ SetActiveRemoteObjects \/ SetAmpType \/ TrackObject \/ SetDeviceIOSize
  /\ reading' = NotRead
  /\ UNCHANGED << appVars, deviceVars, state, linked, stackIdent, deviceGuid, pendingSubs,
                  pendingGets, pendingSets, nextHandle, toDevice, toController, spent >>

----------------------------------------------------------------------------
(* Messages to the device.                                                 *)
Concatenated(messages) ==
  Seqs!FlattenSeq([i \in DOMAIN messages |-> GetSerializedData(messages[i])])

(* createObjectSubscriptions and queryObjectValues: all subscriptions, then*)
(* all queries, each with the next handle.  With nothing to wait for the   *)
(* controller is connected.                                                *)
SubscribeAndQuery(entries, gets) ==
  LET n == Len(entries)
      subscribing == nextHandle .. nextHandle + n - 1
      querying == nextHandle + n .. nextHandle + 2 * n - 1
  IN  /\ toDevice' = toDevice
           \o Concatenated([i \in 1 .. n |->
                AddSubscriptionCommand(entries[i].def, nextHandle + i - 1)])
           \o Concatenated([i \in 1 .. n |->
                GetValueCommand(entries[i].def, nextHandle + n + i - 1)])
      /\ pendingSubs' = pendingSubs \cup subscribing
      /\ pendingGets' = [h \in DOMAIN gets \cup querying |->
                           IF h \in querying THEN entries[h - nextHandle - n + 1].def.ono
                           ELSE gets[h]]
      /\ nextHandle' = nextHandle + 2 * n
      /\ state' = IF DOMAIN pendingGets' # {} THEN "GetValues"
                  ELSE IF pendingSubs' # {} THEN "Subscribing" ELSE "Connected"

Connect ==
  /\ state = "Disconnected"
  /\ spent.sessions < setup.sessions
  /\ state' = "Connecting"
  /\ reading' = NotRead
  /\ UNCHANGED << appVars, deviceVars, linked, known, ioSize, stackIdent, deviceGuid, tracked,
                  pendingSubs, pendingGets, pendingSets, nextHandle, toDevice,
                  toController, spent >>

\* Faulty: the handle is not used up.
AskForGuid_Unnumbered ==
  /\ deviceGuid' = NoGuid
  /\ stackIdent' = -1
  /\ toDevice' = toDevice \o GetSerializedData(GetValueCommand(GuidDefinition, nextHandle))
  /\ pendingGets' = With(pendingGets, nextHandle, GuidDefinition.ono)
  /\ UNCHANGED << state, pendingSubs, nextHandle >>

(* afterConnected: a DS100 is asked for its GUID and nothing else yet.     *)
AskForGuid ==
  /\ deviceGuid' = NoGuid
  /\ stackIdent' = -1
  /\ toDevice' = toDevice \o GetSerializedData(GetValueCommand(GuidDefinition, nextHandle))
  /\ pendingGets' = With(pendingGets, nextHandle, GuidDefinition.ono)
  /\ nextHandle' = nextHandle + 1
  /\ UNCHANGED << state, pendingSubs >>

Established ==
  /\ state = "Connecting" /\ ~ linked
  /\ spent.sessions < setup.sessions
  /\ linked' = TRUE
  /\ guid' \in setup.guids
  /\ spent' = [spent EXCEPT !.sessions = @ + 1]
  /\ IF IsSoundscape THEN AskForGuid
     ELSE SubscribeAndQuery(tracked, pendingGets) /\ UNCHANGED << deviceGuid, stackIdent >>
  /\ reading' = NotRead
  /\ UNCHANGED << appVars, held, subscribed, known, ioSize, tracked, pendingSets,
                  toController >>

(* The connection is gone: bytes under way and the device's subscriptions  *)
(* with it.  onConnectionLost and disconnect both clear what is pending.   *)
Cut ==
  /\ linked' = FALSE
  /\ pendingSubs' = {}
  /\ pendingGets' = EmptyMap
  /\ pendingSets' = {}
  /\ toDevice' = << >>
  /\ toController' = << >>
  /\ subscribed' = {}
  /\ asked' = NotAsked
  /\ reading' = NotRead
  /\ UNCHANGED << setup, heard, held, guid, known, ioSize, stackIdent, deviceGuid,
                  tracked, nextHandle, spent >>

ConnectionLost ==
  /\ linked /\ state' = "Connecting" /\ Cut

Disconnect ==
  /\ state # "Disconnected" /\ state' = "Disconnected" /\ Cut

----------------------------------------------------------------------------
(* Messages from the device.                                               *)
Decoded(object, data) ==
  CASE setup.kind = "amp" -> Read(TRUE, AmpDecoded(object[1], data))
    [] IsSoundscape       -> VariantFromData(data, DataTypeForRoi(object[1]))
    [] OTHER              -> VariantFromData(data, setup.defs[object[2][1]].type)

Deliver(ono, data) ==
  LET object == tracked[OnoIndex(ono)].object
  IN  heard' = With(heard, object, Decoded(object, data))

(* The state once an answer has been taken off the pending ones.           *)
StateAfter(subs, gets, wasSubscription, wasGet) ==
  CASE wasSubscription /\ subs = {}  -> IF gets # {} THEN "GetValues" ELSE "Connected"
    [] wasSubscription /\ subs # {}  -> state
    [] wasGet /\ gets = {}           -> IF subs # {} THEN "Subscribing" ELSE "Connected"
    [] OTHER                         -> state

TakeNotification(msg) ==
  /\ msg.type = Notification
  /\ IF TrackedAt(msg.ono) # {} THEN Deliver(msg.ono, msg.data) ELSE UNCHANGED heard
  /\ UNCHANGED << state, known, stackIdent, deviceGuid, tracked, pendingSubs, pendingGets,
                  pendingSets, nextHandle, toDevice >>

TakeKeepAlive(msg) ==
  /\ msg.type = KeepAlive
  /\ UNCHANGED << state, known, stackIdent, deviceGuid, tracked, pendingSubs, pendingGets,
                  pendingSets, nextHandle, heard, toDevice >>

(* An acknowledged or refused request, and a query refused or answered     *)
(* without a value.                                                        *)
TakeAcknowledgement(msg) ==
  LET subs == pendingSubs \ {msg.handle}
      gets == DOMAIN pendingGets \ {msg.handle}
  IN  /\ msg.type = Response
      /\ msg.handle \in DOMAIN pendingGets => msg.status # OK \/ msg.paramCount = 0
      /\ pendingSubs' = subs
      /\ pendingGets' = Without(pendingGets, msg.handle)
      /\ pendingSets' = pendingSets \ {msg.handle}
      /\ state' = StateAfter(subs, gets, msg.handle \in pendingSubs,
                             msg.handle \in DOMAIN pendingGets)
      /\ UNCHANGED << known, stackIdent, deviceGuid, tracked, nextHandle, heard, toDevice >>

TakeValue(msg) ==
  /\ msg.type = Response /\ msg.status = OK /\ msg.paramCount > 0
  /\ msg.handle \in DOMAIN pendingGets
  /\ TrackedAt(pendingGets[msg.handle]) # {}
  /\ Deliver(pendingGets[msg.handle], msg.data)
  /\ pendingGets' = Without(pendingGets, msg.handle)
  /\ state' = StateAfter(pendingSubs, DOMAIN pendingGets', FALSE, TRUE)
  /\ UNCHANGED << known, stackIdent, deviceGuid, tracked, pendingSubs, pendingSets,
                  nextHandle, toDevice >>

(* onUntrackedGetValueResponse: the GUID.  A new and valid one settles the *)
(* revision, patches the map, rebuilds what is tracked and subscribes;     *)
(* after that the message counts as answered like any other.               *)
TakeGuid(msg) ==
  LET value == DataToString(msg.data)
      others == Without(pendingGets, msg.handle)
      stack == StackIdentOf(value.value)
  IN  /\ IsSoundscape
      /\ msg.type = Response /\ msg.status = OK /\ msg.paramCount > 0
      /\ msg.handle \in DOMAIN pendingGets
      /\ TrackedAt(pendingGets[msg.handle]) = {}
      /\ IF /\ pendingGets[msg.handle] = GuidDefinition.ono
            /\ value.ok /\ value.value # deviceGuid /\ IsAcceptedGuid(value.value)
         THEN /\ deviceGuid' = value.value
              /\ stackIdent' = stack
              /\ known' = PatchedONosMap(known, stack, ioSize[2])
              /\ tracked' = ActiveEntries(known')
              /\ SubscribeAndQuery(tracked', others)
         ELSE /\ pendingGets' = others
              /\ state' = StateAfter(pendingSubs, DOMAIN others, FALSE, TRUE)
              /\ UNCHANGED << deviceGuid, stackIdent, known, tracked, toDevice, pendingSubs,
                              nextHandle >>
      /\ UNCHANGED << pendingSets, heard >>

ProcessMessage ==
  /\ toController # << >>
  /\ toController' = AfterFirstFrame(toController)
  /\ LET msg == UnmarshalOcp1Message(FirstFrame(toController))
     IN  TakeNotification(msg) \/ TakeKeepAlive(msg) \/ TakeAcknowledgement(msg)
           \/ TakeValue(msg) \/ TakeGuid(msg)
  /\ reading' = NotRead
  /\ UNCHANGED << deviceVars, setup, asked, linked, ioSize, spent >>

----------------------------------------------------------------------------
(* The application.                                                        *)
TargetDefinition(object) ==
  CASE setup.kind = "amp" -> AmpObjectDefinition(setup.ampType, object[1], object[2][1])
    [] IsSoundscape       -> GetObjectDefinition(object[1], object[2], TRUE, stackIdent)
    [] OTHER              -> setup.defs[object[2][1]]

(* setObjectValue, setValue, setPower, setChannelGain, setChannelMute.     *)
SetObjectValue ==
  /\ state = "Connected" /\ linked
  /\ spent.sets < setup.sets
  /\ \E object \in setup.targets : \E value \in setup.values :
       LET def == TargetDefinition(object)
           variant == IF setup.kind = "amp" THEN AmpSetVariant(object[1], value) ELSE value
           data == ToParamData(variant, def.type).value
       IN  /\ def # NoDefinition
           /\ toDevice' = toDevice \o GetSerializedData(SetValueCommand(def, nextHandle, data))
           /\ asked' = [object |-> object, ono |-> def.ono, data |-> data]
  /\ pendingSets' = pendingSets \cup {nextHandle}
  /\ nextHandle' = nextHandle + 1
  /\ spent' = [spent EXCEPT !.sets = @ + 1]
  /\ reading' = NotRead
  /\ UNCHANGED << deviceVars, setup, heard, state, linked, known, ioSize, stackIdent,
                  deviceGuid, tracked, pendingSubs, pendingGets, toController >>

Conversion(v, type) ==
  CASE type = "BOOLEAN" -> ToBool(v)
    [] type = "INT32"   -> ToInt32(v)
    [] type = "UINT8"   -> ToUInt8(v)
    [] type = "UINT16"  -> ToUInt16(v)
    [] type = "UINT32"  -> ToUInt32(v)
    [] type = "UINT64"  -> ToUInt64(v)
    [] type = "FLOAT32" -> ToFloat(v)
    [] type = "FLOAT64" -> ToDouble(v)
    [] type = "STRING"  -> ToString(v)
    [] type = "Position" -> ToPosition(v)
    [] type = "Aiming"   -> ToAimingAndPosition(v)
    [] type = "Bools"    -> ToBoolVector(v)
    [] type = "Strings"  -> ToStringVector(v)

Quiet == state = "Connected" /\ linked /\ toDevice = << >> /\ toController = << >>

ReadAs(type) ==
  /\ Quiet /\ type \in setup.reads
  /\ \E object \in DOMAIN heard :
       reading' = [variant |-> heard[object].value, type |-> type,
                   read |-> Conversion(heard[object].value, type)]
  /\ UNCHANGED << controllerVars, deviceVars, setup, heard, asked, toDevice, toController,
                  spent >>

----------------------------------------------------------------------------
Init ==
  /\ setup \in Setups
  /\ state = "Disconnected"
  /\ linked = FALSE
  /\ ioSize = IF IsSoundscape THEN setup.sizes[1] ELSE << 1, 1 >>
  /\ known = IF IsSoundscape THEN KnownONosMap(ioSize[1], ioSize[2]) ELSE EmptyMap
  /\ stackIdent = -1
  /\ deviceGuid = NoGuid
  /\ tracked = << >>
  /\ pendingSubs = {}
  /\ pendingGets = EmptyMap
  /\ pendingSets = {}
  /\ nextHandle = FirstHandle
  /\ heard = EmptyMap
  /\ asked = NotAsked
  /\ reading = NotRead
  /\ toDevice = << >>
  /\ toController = << >>
  /\ held = EmptyMap
  /\ subscribed = {}
  /\ guid = CHOOSE g \in setup.guids : TRUE
  /\ spent = [sessions |-> 0, sets |-> 0, reports |-> 0, beats |-> 0]

Next ==
  \/ Configure \/ Connect \/ Established \/ ConnectionLost \/ Disconnect
  \/ DeviceTakes \/ DeviceReports \/ DeviceBeats
  \/ ProcessMessage \/ SetObjectValue
  \/ \E type \in setup.reads : ReadAs(type)

Spec == Init /\ [][Next]_vars

----------------------------------------------------------------------------
(***************************************************************************)
(* Properties.                                                             *)
(***************************************************************************)

States == {"Disconnected", "Connecting", "Subscribing", "Subscribed", "GetValues", "Connected"}

(* Every variable has its type; a request is pending at most once.         *)
TypeOK ==
  /\ setup \in Setups
  /\ state \in States
  /\ linked \in BOOLEAN
  /\ stackIdent \in -1 .. 1
  /\ \A obj \in DOMAIN known : obj[1] \in RemObjIdents
  /\ nextHandle \in Nat
  /\ pendingSubs \cup DOMAIN pendingGets \cup pendingSets \subseteq FirstHandle .. nextHandle - 1
  /\ pendingSubs \cap DOMAIN pendingGets = {} /\ pendingSets \cap DOMAIN pendingGets = {}
  /\ \A obj \in DOMAIN heard : heard[obj].ok \in BOOLEAN
  /\ spent \in [sessions : 0 .. setup.sessions, sets : 0 .. setup.sets,
                reports : 0 .. setup.reports, beats : 0 .. setup.beats]

(* What is heard of an object, whichever message brought it: a position    *)
(* comes alone or with its bounds.  A GUID that is refused leaves nothing  *)
(* tracked or subscribed that these properties speak of.                   *)
Essence(def, variant) ==
  IF def.type = "DB_POSITION"
  THEN SubSeq(variant[2], 1, IF Len(variant[2]) = 24 THEN 24 ELSE 12)
  ELSE variant

(* "All subscriptions and initial values confirmed" (Ocp1Controller.h:82): *)
(* when a connected controller and its device have nothing more to say,    *)
(* each object the application named is subscribed at the device, and the  *)
(* application has heard the value the device now holds.                   *)
RevisionIsKnown == IsSoundscape => IsAcceptedGuid(guid)

ConnectedMeansHeard ==
  Quiet /\ RevisionIsKnown =>
    \A i \in 1 .. Len(tracked) :
      LET object == tracked[i].object
          def == tracked[i].def
      IN  /\ def.ono \in subscribed
          /\ object \in DOMAIN heard
          /\ heard[object].ok
          /\ Essence(def, heard[object].value) = Essence(def, Decoded(object, Held(def)).value)

(* A set reaches the object it names: unless the device refused the bytes  *)
(* for their width, the object the application listens to under that name  *)
(* holds what was sent once all is quiet.  The definition it was set       *)
(* through and the one it was tracked under come from different tables.    *)
SetReachesItsObject ==
  Quiet /\ RevisionIsKnown =>
    \A i \in 1 .. Len(tracked) :
      tracked[i].object = asked.object =>
        \/ Held(tracked[i].def) = asked.data
        \/ /\ asked.ono = tracked[i].def.ono
           /\ Len(asked.data) # Len(Held(tracked[i].def))

(* The first bytes under way are a whole message the receiver understands, *)
(* so that the size in each header is the size of what was sent.           *)
StreamIsFramed(stream) ==
  stream = << >> \/ /\ Ocp1HeaderSize <= Len(stream)
                    /\ MessageSize(stream) < Len(stream)
                    /\ UnmarshalOcp1Message(FirstFrame(stream)) # NoMessage
WellFramed == StreamIsFramed(toDevice) /\ StreamIsFramed(toController)

(* No two objects of the map have one number, before and after a GUID      *)
(* patches it: a number that came with a notification names one object.    *)
OneNumberPerObject ==
  Cardinality({known[obj].ono : obj \in DOMAIN known}) = Cardinality(DOMAIN known)

----------------------------------------------------------------------------
(* What a conversion may answer, by what the variant says.                 *)
NumberTypes == Integral \cup Floating

IsNumber(v) == v[1] \in NumberTypes \cup {"BOOLEAN"} \/ (v[1] = "STRING" /\ IsNumeral(v[2]))

(* The number a variant stands for, in halves.                             *)
InHalves(v) ==
  CASE v[1] = "BOOLEAN"   -> IF v[2] THEN 2 ELSE 0
    [] v[1] \in Integral  -> 2 * v[2]
    [] v[1] \in Floating  -> v[2]
    [] v[1] = "STRING"    -> IF v[2][1] = IntMark THEN 2 * v[2][2] ELSE v[2][2]

Width == [UINT8 |-> 1, UINT16 |-> 2, UINT32 |-> 4, UINT64 |-> 8, INT32 |-> 4,
          FLOAT32 |-> 4, FLOAT64 |-> 8]

(* The target can hold it, and the whole number above it, to which a float *)
(* may be rounded.                                                         *)
Holds(type, h) ==
  CASE type \in Floating -> FitsSigned(Width[type], h)
    [] type = "INT32"    -> FitsSigned(4, h \div 2) /\ FitsSigned(4, (h + 1) \div 2)
    [] OTHER             -> 0 <= h /\ (h + 1) \div 2 < Power[Width[type]]

Difference(a, b) == IF a < b THEN b - a ELSE a - b

(* A number stays what it was where the target can hold it, a whole number *)
(* exactly, another to within the unit it is rounded to; and one that is   *)
(* no text always converts.                                                *)
NumberIsKept(v, type, r) ==
  /\ v[1] # "STRING" => r.ok
  /\ r.ok /\ Holds(type, InHalves(v)) =>
       LET gap == Difference(InHalves(<< type, r.value >>), InHalves(v))
       IN  gap <= 1 /\ (type \in Floating \/ InHalves(v) % 2 = 0 => gap = 0)

NumberIsPrinted(v, r) == r.ok /\ InHalves(<< "STRING", r.value >>) = InHalves(v)

(* A position or a list gives back the bytes it was read from (but for what*)
(* follows an empty list of strings, and one byte after another).          *)
PositionIsKept(v, r) ==
  DataFromPosition(r.value[1], r.value[2], r.value[3]) = SubSeq(v[2], 1, 12)
AimingIsKept(v, r) ==
  DataFromAimingAndPosition(r.value[1], r.value[2], r.value[3],
                            r.value[4], r.value[5], r.value[6]) = v[2]
BoolsAreKept(v, r) ==
  Len(v[2]) = 2 + Len(r.value) /\ \A i \in 1 .. Len(r.value) : r.value[i] <=> v[2][i + 2] = 1
StringsAreKept(v, r) ==
  LET bytes == BytesOf(2, Len(r.value)) \o
                 Seqs!FlattenSeq([i \in 1 .. Len(r.value) |-> DataFromString(r.value[i])])
  IN  Seqs!IsPrefix(bytes, v[2]) /\ (Len(v[2]) - Len(bytes) <= 1 \/ r.value = << >>)

(* A conversion that succeeds keeps the value, whatever type was heard and *)
(* whatever type is asked for.                                             *)
ReadingsAreFaithful ==
  LET v == reading.variant
      r == reading.read
      type == reading.type
  IN  /\ type \in NumberTypes /\ IsNumber(v) => NumberIsKept(v, type, r)
      /\ type = "STRING" /\ IsNumber(v) /\ v[1] # "BOOLEAN" => NumberIsPrinted(v, r)
      /\ type = "Position" /\ r.ok => PositionIsKept(v, r)
      /\ type = "Aiming" /\ r.ok => AimingIsKept(v, r)
      /\ type = "Bools" /\ r.ok => BoolsAreKept(v, r)
      /\ type = "Strings" /\ r.ok => StringsAreKept(v, r)
============================================================================
