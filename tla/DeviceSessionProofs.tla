------------------------ MODULE DeviceSessionProofs ------------------------
(***************************************************************************)
(* Proofs about DeviceSession: the object numbers of SoundscapeController's*)
(* map name one object each, for every size of the matrix, every firmware, *)
(* and through any number of connections and changes of size; every        *)
(* variable keeps its type, with every object tracked a property a message *)
(* can name; what is under way is always a sequence of whole messages,     *)
(* which the receiver takes apart as the sender put it together; and a     *)
(* conversion that succeeds keeps the value that was heard.                *)
(***************************************************************************)
EXTENDS DeviceSession, MarshallingProofs, FiniteSetTheorems

-----------------------------------------------------------------------------
(* The tables of the DS100.                                                *)

(* The objects of each group.                                              *)
LEMMA GroupNames ==
  /\ DOMAIN FixedObjects.objects =
       {"Fixed_HardwareVariant", "Fixed_SerNr", "Fixed_GUID"}
  /\ DOMAIN SettingsObjects.objects =
       {"Settings_DeviceName"}
  /\ DOMAIN MatrixSettingsObjects.objects =
       {"MatrixSettings_PositioningEnable", "MatrixSettings_ReverbEnable",
        "MatrixSettings_ReverbRoomId"}
  /\ DOMAIN ReverbSettingsObjects.objects =
       {"MatrixSettings_ReverbPredelayFactor", "MatrixSettings_ReverbRearLevel"}
  /\ DOMAIN StatusObjects.objects =
       {"Status_StatusText", "Status_AudioNetworkSampleStatus"}
  /\ DOMAIN ErrorObjects.objects =
       {"Error_GnrlErr", "Error_ErrorText"}
  /\ DOMAIN MatrixInputObjects.objects =
       {"MatrixInput_Mute", "MatrixInput_Gain", "MatrixInput_Delay",
        "MatrixInput_DelayEnable", "MatrixInput_EqEnable", "MatrixInput_Polarity",
        "MatrixInput_ChannelName", "MatrixInput_LevelMeterIn",
        "MatrixInput_LevelMeterPreMute", "MatrixInput_LevelMeterPostMute",
        "MatrixInput_ISP", "MatrixInput_ReverbSendGain"}
  /\ DOMAIN MatrixNodeObjects.objects =
       {"MatrixNode_Enable", "MatrixNode_Gain", "MatrixNode_Delay",
        "MatrixNode_DelayEnable"}
  /\ DOMAIN MatrixOutputObjects.objects =
       {"MatrixOutput_Mute", "MatrixOutput_Gain", "MatrixOutput_Delay",
        "MatrixOutput_DelayEnable", "MatrixOutput_EqEnable", "MatrixOutput_Polarity",
        "MatrixOutput_ChannelName", "MatrixOutput_LevelMeterIn",
        "MatrixOutput_LevelMeterPreMute", "MatrixOutput_LevelMeterPostMute",
        "MatrixOutput_OSP"}
  /\ DOMAIN PositioningSourceObjects.objects =
       {"Positioning_Source_Position", "Positioning_Source_Enable",
        "Positioning_Source_Spread", "Positioning_Source_Speaker_Group",
        "Positioning_Source_Speaker_Position", "Positioning_Source_DelayMode"}
  /\ DOMAIN FunctionGroupObjects.objects =
       {"FunctionGroup_Name", "FunctionGroup_Delay", "FunctionGroup_Mode",
        "FunctionGroup_SpreadFactor"}
  /\ DOMAIN ReverbInputObjects.objects =
       {"ReverbInput_Gain"}
  /\ DOMAIN ReverbInputProcessingObjects.objects =
       {"ReverbInputProcessing_Mute", "ReverbInputProcessing_Gain",
        "ReverbInputProcessing_EqEnable", "ReverbInputProcessing_LevelMeter"}
  /\ DOMAIN CoordinateMappingSettingsObjects.objects =
       {"CoordinateMappingSettings_Name", "CoordinateMappingSettings_Type",
        "CoordinateMappingSettings_Flip", "CoordinateMappingSettings_P1_real",
        "CoordinateMappingSettings_P2_real", "CoordinateMappingSettings_P3_real",
        "CoordinateMappingSettings_P4_real", "CoordinateMappingSettings_P1_virtual",
        "CoordinateMappingSettings_P3_virtual"}
  /\ DOMAIN CoordinateMappingObjects.objects =
       {"CoordinateMapping_Source_Position"}
  /\ DOMAIN SceneObjects.objects =
       {"Scene_SceneIndex", "Scene_SceneName", "Scene_SceneComment"}
  /\ DOMAIN SoundObjectRoutingObjects.objects =
       {"SoundObjectRouting_Mute", "SoundObjectRouting_Gain"}
  /\ DOMAIN PositioningSpeakerObjects.objects =
       {"Positioning_Speaker_Group", "Positioning_Speaker_Position"}
BY DEF
   FixedObjects, SettingsObjects, MatrixSettingsObjects, ReverbSettingsObjects, StatusObjects,
   ErrorObjects, MatrixInputObjects, MatrixNodeObjects, MatrixOutputObjects,
   PositioningSourceObjects, FunctionGroupObjects, ReverbInputObjects,
   ReverbInputProcessingObjects, CoordinateMappingSettingsObjects, CoordinateMappingObjects,
   SceneObjects, SoundObjectRoutingObjects, PositioningSpeakerObjects

(* No name is in two groups, so that GroupOf finds the group of a name.    *)
LEMMA GroupsAreDisjoint ==
  ASSUME NEW g \in DS100Groups, NEW h \in DS100Groups,
         NEW name, name \in DOMAIN g.objects, name \in DOMAIN h.objects
  PROVE  g = h
BY GroupNames DEF DS100Groups

(* A box has one group, but for the settings of the matrix, which have two.*)
LEMMA Boxes ==
  /\ \A g \in DS100Groups : g.box \in 0 .. Ty2Boxes - 1
  /\ \A g \in DS100Groups, h \in DS100Groups :
       g.box = h.box => g = h \/ {g, h} = {MatrixSettingsObjects, ReverbSettingsObjects}
BY DEF DS100Groups, Ty2Boxes,
   FixedObjects, SettingsObjects, MatrixSettingsObjects, ReverbSettingsObjects, StatusObjects,
   ErrorObjects, MatrixInputObjects, MatrixNodeObjects, MatrixOutputObjects,
   PositioningSourceObjects, FunctionGroupObjects, ReverbInputObjects,
   ReverbInputProcessingObjects, CoordinateMappingSettingsObjects, CoordinateMappingObjects,
   SceneObjects, SoundObjectRoutingObjects, PositioningSpeakerObjects

(* The objects of a group have numbers of their own.                       *)
LEMMA Numbers ==
  ASSUME NEW g \in DS100Groups, NEW a \in DOMAIN g.objects, NEW b \in DOMAIN g.objects
  PROVE  /\ ObjectNumber[a] \in 0 .. Ty2Objects - 1
         /\ ObjectNumber[a] = ObjectNumber[b] => a = b
BY GroupNames DEF DS100Groups, ObjectNumber, Ty2Objects

(* The name of an object of a DS100.                                       *)
ObjectNames == UNION {DOMAIN g.objects : g \in DS100Groups}

LEMMA GroupOfName ==
  ASSUME NEW name \in ObjectNames
  PROVE  GroupOf(name) \in DS100Groups /\ name \in DOMAIN GroupOf(name).objects
BY DEF ObjectNames, GroupOf

(* A box and a number in it lead to one name.                              *)
LEMMA PlaceNamesObject ==
  ASSUME NEW a \in ObjectNames, NEW b \in ObjectNames,
         GroupOf(a).box = GroupOf(b).box, ObjectNumber[a] = ObjectNumber[b]
  PROVE  a = b
<1>1. /\ GroupOf(a) \in DS100Groups /\ a \in DOMAIN GroupOf(a).objects
      /\ GroupOf(b) \in DS100Groups /\ b \in DOMAIN GroupOf(b).objects
  BY GroupOfName
<1>2. CASE GroupOf(a) = GroupOf(b)
  BY <1>1, <1>2, Numbers
<1>3. CASE {GroupOf(a), GroupOf(b)} = {MatrixSettingsObjects, ReverbSettingsObjects}
  <2>1. \A x \in DOMAIN MatrixSettingsObjects.objects,
           y \in DOMAIN ReverbSettingsObjects.objects : ObjectNumber[x] # ObjectNumber[y]
    BY GroupNames DEF ObjectNumber
  <2> QED
    BY <1>1, <1>2, <1>3, <2>1
<1> QED
  BY <1>1, <1>2, <1>3, Boxes

(* The number of an object tells its name, its record and its channel.     *)
LEMMA NumberNamesObject ==
  ASSUME NEW a \in ObjectNames, NEW r \in 0 .. Records - 1, NEW c \in 0 .. Ty2Channels - 1,
         NEW b \in ObjectNames, NEW s \in 0 .. Records - 1, NEW d \in 0 .. Ty2Channels - 1,
         OcaObject(a, r, c).ono = OcaObject(b, s, d).ono
  PROVE  a = b /\ r = s /\ c = d
<1>1. /\ GroupOf(a) \in DS100Groups /\ a \in DOMAIN GroupOf(a).objects
      /\ GroupOf(b) \in DS100Groups /\ b \in DOMAIN GroupOf(b).objects
  BY GroupOfName
<1>2. /\ GroupOf(a).box \in 0 .. Ty2Boxes - 1 /\ ObjectNumber[a] \in 0 .. Ty2Objects - 1
      /\ GroupOf(b).box \in 0 .. Ty2Boxes - 1 /\ ObjectNumber[b] \in 0 .. Ty2Objects - 1
  BY <1>1, Boxes, Numbers
<1>3. 2 \in 0 .. Types - 1
  BY DEF Types
<1>4. GetONoTy2(2, r, c, GroupOf(a).box, ObjectNumber[a])
        = GetONoTy2(2, s, d, GroupOf(b).box, ObjectNumber[b])
  BY Zenon DEF OcaObject, DS100Definition, Definition
<1>5. /\ r = s /\ c = d
      /\ GroupOf(a).box = GroupOf(b).box /\ ObjectNumber[a] = ObjectNumber[b]
  <2> HIDE DEF Types
  <2> QED
    BY <1>2, <1>3, <1>4, GetONoTy2Injective
<1> QED
  BY <1>5, PlaceNamesObject

(* There is a largest number.                                              *)
LEMMA FieldIsBounded ==
  ASSUME NEW m \in {Types, Records, Ty2Channels, Ty2Boxes, Ty2Objects}, NEW n \in Nat
  PROVE  \E k \in Nat : \A p \in 0 .. n, x \in Int : Field(p, m, x) \in 0 .. k
<1>1. m \in {16, 256, 32, 128}
  BY DEF Types, Records, Ty2Channels, Ty2Boxes, Ty2Objects
<1>2. \A p \in 0 .. n, x \in Int : Field(p, m, x) \in 0 .. n * m + m
  <2> SUFFICES ASSUME NEW p \in 0 .. n, NEW x \in Int PROVE Field(p, m, x) \in 0 .. n * m + m
    OBVIOUS
  <2>1. CASE m = 16
    BY <2>1, SMT DEF Field
  <2>2. CASE m = 32
    BY <2>2, SMT DEF Field
  <2>3. CASE m = 128
    BY <2>3, SMT DEF Field
  <2>4. CASE m = 256
    BY <2>4, SMT DEF Field
  <2> QED
    BY <1>1, <2>1, <2>2, <2>3, <2>4
<1>3. n * m + m \in Nat
  BY <1>1, SMT
<1> QED
  BY <1>2, <1>3, Zenon

LEMMA NumbersAreBounded ==
  \E k \in Nat : \A a \in ObjectNames, r \in 0 .. Records - 1, c \in 0 .. Ty2Channels - 1 :
    OcaObject(a, r, c).ono \in 0 .. k
<1>1. PICK k1 \in Nat : \A p \in 0 .. 0, x \in Int : Field(p, Types, x) \in 0 .. k1
  BY FieldIsBounded, 0 \in Nat, Zenon
<1>2. PICK k2 \in Nat : \A p \in 0 .. k1, x \in Int : Field(p, Records, x) \in 0 .. k2
  BY FieldIsBounded, Zenon
<1>3. PICK k3 \in Nat : \A p \in 0 .. k2, x \in Int : Field(p, Ty2Channels, x) \in 0 .. k3
  BY FieldIsBounded, Zenon
<1>4. PICK k4 \in Nat : \A p \in 0 .. k3, x \in Int : Field(p, Ty2Boxes, x) \in 0 .. k4
  BY FieldIsBounded, Zenon
<1>5. PICK k5 \in Nat : \A p \in 0 .. k4, x \in Int : Field(p, Ty2Objects, x) \in 0 .. k5
  BY FieldIsBounded, Zenon
<1>6. ASSUME NEW a \in ObjectNames, NEW r \in 0 .. Records - 1, NEW c \in 0 .. Ty2Channels - 1
      PROVE  OcaObject(a, r, c).ono \in 0 .. k5
  <2>1. GroupOf(a).box \in Int /\ ObjectNumber[a] \in Int
    BY GroupOfName, Boxes, Numbers DEF Ty2Boxes, Ty2Objects
  <2>2. 0 \in 0 .. 0 /\ 2 \in Int /\ r \in Int /\ c \in Int
    BY SMT DEF Records, Ty2Channels
  <2>3. GetONoTy2(2, r, c, GroupOf(a).box, ObjectNumber[a]) \in 0 .. k5
    BY <1>1, <1>2, <1>3, <1>4, <1>5, <2>1, <2>2, Zenon DEF GetONoTy2
  <2> QED
    BY <2>3, Zenon DEF OcaObject, DS100Definition, Definition
<1> QED
  BY <1>6, Zenon

-----------------------------------------------------------------------------
(* The map of the largest device.                                          *)
LargestMap == KnownObjects(MaxInputs, MaxOutputs)

(* The identifiers it has objects for.                                     *)
MapIdents ==
  DeviceObjects \cup InputObjects \cup NodeObjects \cup RoutingObjects \cup SpeakerObjects
    \cup OutputObjects \cup GroupObjects \cup ZoneObjects \cup AreaObjects
    \cup {"CoordinateMapping_SourcePosition", "ReverbInput_Gain"}

LegacyName == "Positioning_Source_Speaker_Position"

(* Each identifier stands for an object of its own, which is not the       *)
(* speaker position of old firmware.                                       *)
LEMMA NamesOfIdents ==
  ASSUME NEW a \in MapIdents, NEW b \in MapIdents
  PROVE  /\ OcaName(a) \in ObjectNames /\ OcaName(a) # LegacyName
         /\ OcaName(a) = OcaName(b) => a = b
<1>1. /\ DOMAIN Renamed =
           {"Positioning_SourcePosition", "Positioning_SourceSpread",
            "Positioning_SourceDelayMode", "Positioning_SourceEnable",
            "Positioning_SpeakerPosition", "Positioning_SpeakerGroup",
            "CoordinateMapping_SourcePosition", "CoordinateMappingSettings_P1real",
            "CoordinateMappingSettings_P2real", "CoordinateMappingSettings_P3real",
            "CoordinateMappingSettings_P4real", "CoordinateMappingSettings_P1virtual",
            "CoordinateMappingSettings_P3virtual"}
      /\ \A x \in DOMAIN Renamed, y \in DOMAIN Renamed : Renamed[x] = Renamed[y] => x = y
      /\ \A x \in DOMAIN Renamed : Renamed[x] \notin MapIdents /\ Renamed[x] # LegacyName
  BY DEF Renamed, LegacyName, MapIdents, DeviceObjects, InputObjects, NodeObjects,
     RoutingObjects, SpeakerObjects, OutputObjects, GroupObjects, ZoneObjects, AreaObjects
<1>2. \A x \in DOMAIN Renamed : Renamed[x] \in ObjectNames
  BY GroupNames DEF Renamed, ObjectNames, DS100Groups
<1>3. \A x \in MapIdents : x \notin DOMAIN Renamed => x \in ObjectNames /\ x # LegacyName
  BY <1>1, GroupNames DEF ObjectNames, DS100Groups, LegacyName, MapIdents, DeviceObjects,
     InputObjects, NodeObjects, RoutingObjects, SpeakerObjects, OutputObjects, GroupObjects,
     ZoneObjects, AreaObjects
<1> QED
  BY <1>1, <1>2, <1>3 DEF OcaName

LEMMA LegacyIsObject == LegacyName \in ObjectNames
BY GroupNames DEF LegacyName, ObjectNames, DS100Groups

(* The record and the channel at an address.                               *)
RecordAt(roi, addr) == IF roi \in NodeObjects \cup AreaObjects THEN addr[1] ELSE addr[2]
ChannelAt(roi, addr) ==
  IF roi \in AreaObjects THEN 0 ELSE IF roi \in NodeObjects THEN addr[2] ELSE addr[1]

LEMMA MappedObject ==
  ASSUME NEW roi, NEW addr
  PROVE  MappedDefinition(roi, addr)
           = OcaObject(OcaName(roi), RecordAt(roi, addr), ChannelAt(roi, addr))
<1>1. ~ (roi \in NodeObjects /\ roi \in AreaObjects)
  BY DEF NodeObjects, AreaObjects
<1> QED
  BY <1>1 DEF MappedDefinition, RemoteDefinition, RecordAt, ChannelAt

(* The addresses in the map: one channel, or two numbers, or none.         *)
SingleIdents ==
  InputObjects \cup OutputObjects \cup SpeakerObjects \cup GroupObjects \cup ZoneObjects
    \cup AreaObjects
PairedIdents ==
  RoutingObjects \cup NodeObjects
    \cup {"CoordinateMapping_SourcePosition", "ReverbInput_Gain"}

LEMMA Addresses ==
  ASSUME NEW inputs \in 1 .. MaxInputs, NEW outputs \in 1 .. MaxOutputs,
         NEW obj \in KnownObjects(inputs, outputs)
  PROVE  \/ obj \in DeviceObjects \X {Unindexed}
         \/ obj \in SingleIdents \X {At(ch) : ch \in 1 .. 128}
         \/ obj \in PairedIdents \X ((1 .. 128) \X (1 .. 128))
<1> DEFINE groups == FunctionGroupCount(outputs)
           single(rois, count) == rois \X {At(ch) : ch \in 1 .. count}
           paired(rois, count1, count2) == rois \X ((1 .. count1) \X (1 .. count2))
<1>1. \A count \in {groups, inputs, outputs, 4} : 1 .. count \subseteq 1 .. 128
  BY SMT DEF FunctionGroupCount, MaxFunctionGroups, MaxInputs, MaxOutputs
<1> HIDE DEF groups
<1>2. ASSUME NEW rois, NEW count \in {groups, inputs, outputs, 4}, rois \subseteq SingleIdents
      PROVE  single(rois, count) \subseteq SingleIdents \X {At(ch) : ch \in 1 .. 128}
  BY <1>1, <1>2
<1>3. ASSUME NEW rois, NEW count1 \in {groups, inputs, outputs, 4},
             NEW count2 \in {groups, inputs, outputs, 4}, rois \subseteq PairedIdents
      PROVE  paired(rois, count1, count2) \subseteq PairedIdents \X ((1 .. 128) \X (1 .. 128))
  BY <1>1, <1>3
<1>4. \/ obj \in DeviceObjects \X {Unindexed}
      \/ \E rois \in SUBSET SingleIdents, count \in {groups, inputs, outputs, 4} :
           obj \in single(rois, count)
      \/ \E rois \in SUBSET PairedIdents, count1 \in {groups, inputs, outputs, 4},
            count2 \in {groups, inputs, outputs, 4} : obj \in paired(rois, count1, count2)
  <2> HIDE DEF single, paired
  <2> SUFFICES ASSUME obj \notin DeviceObjects \X {Unindexed}
               PROVE  \/ \E rois \in SUBSET SingleIdents, count \in {groups, inputs, outputs, 4} :
                           obj \in single(rois, count)
                      \/ \E rois \in SUBSET PairedIdents,
                            count1 \in {groups, inputs, outputs, 4},
                            count2 \in {groups, inputs, outputs, 4} :
                              obj \in paired(rois, count1, count2)
    OBVIOUS
  <2>1. \/ obj \in single(InputObjects, inputs)
        \/ obj \in paired({"CoordinateMapping_SourcePosition"}, inputs, 4)
        \/ obj \in paired(RoutingObjects, inputs, groups)
        \/ obj \in paired(NodeObjects, inputs, outputs)
        \/ obj \in single(OutputObjects \cup SpeakerObjects, outputs)
        \/ obj \in single(GroupObjects, groups)
        \/ obj \in single(ZoneObjects, 4)
        \/ obj \in paired({"ReverbInput_Gain"}, 4, inputs)
        \/ obj \in single(AreaObjects, 4)
    BY Zenon DEF KnownObjects, MaxReverbZones, groups, single, paired
  <2> QED
    BY <2>1, Zenon DEF SingleIdents, PairedIdents
<1>5. ASSUME NEW rois \in SUBSET SingleIdents, NEW count \in {groups, inputs, outputs, 4},
             obj \in single(rois, count)
      PROVE  obj \in SingleIdents \X {At(ch) : ch \in 1 .. 128}
  <2> HIDE DEF single
  <2> QED BY <1>2, <1>5
<1>6. ASSUME NEW rois \in SUBSET PairedIdents, NEW count1 \in {groups, inputs, outputs, 4},
             NEW count2 \in {groups, inputs, outputs, 4}, obj \in paired(rois, count1, count2)
      PROVE  obj \in PairedIdents \X ((1 .. 128) \X (1 .. 128))
  <2> HIDE DEF paired
  <2> QED BY <1>3, <1>6
<1> HIDE DEF single, paired
<1> QED
  BY <1>4, <1>5, <1>6

(* Identifiers of one kind of address are of no other.                     *)
LEMMA Kinds ==
  /\ DeviceObjects \cap SingleIdents = {} /\ DeviceObjects \cap PairedIdents = {}
  /\ SingleIdents \cap PairedIdents = {} /\ AreaObjects \subseteq SingleIdents
  /\ NodeObjects \subseteq PairedIdents /\ SpeakerObjects \subseteq SingleIdents
  /\ AreaObjects \cap NodeObjects = {}
  /\ MapIdents = DeviceObjects \cup SingleIdents \cup PairedIdents
BY DEF SingleIdents, PairedIdents, MapIdents, DeviceObjects, InputObjects, NodeObjects,
   RoutingObjects, SpeakerObjects, OutputObjects, GroupObjects, ZoneObjects, AreaObjects

(* An entry of the map has an identifier and an address, whose numbers are *)
(* within the fields of an object number and which is no longer than the   *)
(* identifier asks for.                                                    *)
IsEntry(obj) ==
  /\ obj = << obj[1], << obj[2][1], obj[2][2] >> >> /\ obj[1] \in MapIdents
  /\ obj[2][1] \in 0 .. 128 /\ obj[2][2] \in 0 .. 128
  /\ obj[1] \in AreaObjects \cup SpeakerObjects => obj[2][2] = 0

LEMMA KnownObjectsAreEntries ==
  ASSUME NEW inputs \in 1 .. MaxInputs, NEW outputs \in 1 .. MaxOutputs,
         NEW obj \in KnownObjects(inputs, outputs)
  PROVE  IsEntry(obj)
<1>1. CASE obj \in DeviceObjects \X {Unindexed}
  BY <1>1, Kinds, SMT DEF IsEntry, Unindexed, NotUsed
<1>2. CASE obj \in SingleIdents \X {At(ch) : ch \in 1 .. 128}
  BY <1>2, Kinds, SMT DEF IsEntry, At, NotUsed
<1>3. CASE obj \in PairedIdents \X ((1 .. 128) \X (1 .. 128))
  BY <1>3, Kinds, SMT DEF IsEntry
<1> QED
  BY <1>1, <1>2, <1>3, Addresses

LEMMA SpeakersAreEntries ==
  ASSUME NEW outputs \in 1 .. MaxOutputs,
         NEW obj \in SpeakerObjects \X {At(ch) : ch \in 1 .. outputs}
  PROVE  IsEntry(obj)
<1>1. obj \in SingleIdents \X {At(ch) : ch \in 1 .. 128}
  BY Kinds, SMT DEF MaxOutputs
<1> QED
  BY <1>1, Kinds, SMT DEF IsEntry, At, NotUsed

(* The fields of its number.                                               *)
LEMMA EntryFields ==
  ASSUME NEW obj, IsEntry(obj)
  PROVE  /\ OcaName(obj[1]) \in ObjectNames
         /\ RecordAt(obj[1], obj[2]) \in 0 .. Records - 1
         /\ ChannelAt(obj[1], obj[2]) \in 0 .. Ty2Channels - 1
<1>1. OcaName(obj[1]) \in ObjectNames
  BY NamesOfIdents DEF IsEntry
<1>2. obj[2][1] \in 0 .. 128 /\ obj[2][2] \in 0 .. 128
  BY DEF IsEntry
<1> QED
  BY <1>1, <1>2, SMT DEF RecordAt, ChannelAt, Records, Ty2Channels

(* The number of an entry is that of no other.                             *)
LEMMA EntriesDiffer ==
  ASSUME NEW a, IsEntry(a), NEW b, IsEntry(b),
         MappedDefinition(a[1], a[2]).ono = MappedDefinition(b[1], b[2]).ono
  PROVE  a = b
<1>1. /\ OcaName(a[1]) = OcaName(b[1])
      /\ RecordAt(a[1], a[2]) = RecordAt(b[1], b[2])
      /\ ChannelAt(a[1], a[2]) = ChannelAt(b[1], b[2])
  BY EntryFields, MappedObject, NumberNamesObject
<1>2. a[1] = b[1]
  BY <1>1, NamesOfIdents DEF IsEntry
<1> QED
  BY <1>1, <1>2, Kinds DEF IsEntry, RecordAt, ChannelAt

(* Only the legacy speaker positions have the numbers that they have.      *)
LEMMA LegacyNumberNamesObject ==
  ASSUME NEW n \in ObjectNames, NEW r \in 0 .. Records - 1, NEW c \in 0 .. Ty2Channels - 1,
         NEW ch \in 0 .. Ty2Channels - 1,
         OcaObject(n, r, c).ono = OcaObject(LegacyName, 0, ch).ono
  PROVE  n = LegacyName
<1>1. 0 \in 0 .. Records - 1
  BY SMT DEF Records
<1> QED
  BY <1>1, NumberNamesObject, LegacyIsObject

(* Nor is it that of a speaker position of old firmware, which have        *)
(* numbers of their own.                                                   *)
LEMMA LegacyDiffers ==
  ASSUME NEW ch \in 0 .. 128
  PROVE  /\ \A a : IsEntry(a) => MappedDefinition(a[1], a[2]).ono # LegacySpeakerPosition(ch).ono
         /\ \A d \in 0 .. 128 :
              LegacySpeakerPosition(ch).ono = LegacySpeakerPosition(d).ono => ch = d
<1>1. 0 \in 0 .. Records - 1 /\ \A d \in 0 .. 128 : d \in 0 .. Ty2Channels - 1
  BY SMT DEF Records, Ty2Channels
<1>2. \A d : LegacySpeakerPosition(d) = OcaObject(LegacyName, 0, d)
  BY DEF LegacySpeakerPosition, LegacyName
<1>3. ASSUME NEW a, IsEntry(a),
             MappedDefinition(a[1], a[2]).ono = LegacySpeakerPosition(ch).ono
      PROVE  FALSE
  <2>1. /\ OcaObject(OcaName(a[1]), RecordAt(a[1], a[2]), ChannelAt(a[1], a[2])).ono
             = OcaObject(LegacyName, 0, ch).ono
        /\ ch \in 0 .. Ty2Channels - 1
    BY <1>1, <1>2, <1>3, MappedObject, Zenon
  <2>2. /\ OcaName(a[1]) \in ObjectNames
        /\ RecordAt(a[1], a[2]) \in 0 .. Records - 1
        /\ ChannelAt(a[1], a[2]) \in 0 .. Ty2Channels - 1
    BY <1>3, EntryFields, Zenon
  <2>3. OcaName(a[1]) = LegacyName
    BY <2>1, <2>2, LegacyNumberNamesObject, Zenon
  <2> QED
    BY <1>3, <2>3, NamesOfIdents DEF IsEntry
<1>4. ASSUME NEW d \in 0 .. 128,
             LegacySpeakerPosition(ch).ono = LegacySpeakerPosition(d).ono
      PROVE  ch = d
  <2>1. ch \in 0 .. Ty2Channels - 1 /\ d \in 0 .. Ty2Channels - 1
        /\ OcaObject(LegacyName, 0, ch).ono = OcaObject(LegacyName, 0, d).ono
    BY <1>1, <1>2, <1>4, Zenon
  <2> QED
    BY <1>1, <2>1, NumberNamesObject, LegacyIsObject
<1> QED
  BY <1>3, <1>4

-----------------------------------------------------------------------------
(* The session.                                                            *)

(* What the map may say of an entry: the definition by which the newer     *)
(* firmware knows the object, or for a speaker position the older one's.   *)
KnownAs(obj, def) ==
  \/ def = MappedDefinition(obj[1], obj[2])
  \/ obj[1] = "Positioning_SpeakerPosition" /\ def = LegacySpeakerPosition(obj[2][1])

KnownInv ==
  /\ setup \in Setups
  /\ IsSoundscape => ioSize \in (1 .. MaxInputs) \X (1 .. MaxOutputs)
  /\ ~ IsSoundscape => known = EmptyMap
  /\ \A obj \in DOMAIN known : IsEntry(obj) /\ KnownAs(obj, known[obj])

(* A new map, and one that the GUID has patched.                           *)
LEMMA NewMap ==
  ASSUME NEW inputs \in 1 .. MaxInputs, NEW outputs \in 1 .. MaxOutputs,
         NEW obj \in DOMAIN KnownONosMap(inputs, outputs)
  PROVE  IsEntry(obj) /\ KnownAs(obj, KnownONosMap(inputs, outputs)[obj])
BY KnownObjectsAreEntries DEF KnownONosMap, KnownAs

LEMMA PatchedMap ==
  ASSUME NEW map, NEW stack, NEW outputs \in 1 .. MaxOutputs,
         \A obj \in DOMAIN map : IsEntry(obj) /\ KnownAs(obj, map[obj]),
         NEW obj \in DOMAIN PatchedONosMap(map, stack, outputs)
  PROVE  IsEntry(obj) /\ KnownAs(obj, PatchedONosMap(map, stack, outputs)[obj])
<1> DEFINE ids == IF stack >= 1 THEN SpeakerObjects ELSE {"Positioning_SpeakerPosition"}
           patched == ids \X {At(ch) : ch \in 1 .. outputs}
<1>1. CASE obj \notin patched
  BY <1>1 DEF PatchedONosMap
<1>2. CASE obj \in patched
  <2>1. obj \in SpeakerObjects \X {At(ch) : ch \in 1 .. outputs}
    BY <1>2 DEF SpeakerObjects
  <2>2. ~ (stack >= 1) => obj[1] = "Positioning_SpeakerPosition"
    BY <1>2
  <2>3. PatchedONosMap(map, stack, outputs)[obj] =
          IF stack >= 1 THEN MappedDefinition(obj[1], obj[2])
          ELSE LegacySpeakerPosition(obj[2][1])
    BY <1>2 DEF PatchedONosMap
  <2> QED
    BY <2>1, <2>2, <2>3, SpeakersAreEntries DEF KnownAs
<1> QED
  BY <1>1, <1>2

LEMMA InitKnown == Init => KnownInv
<1> SUFFICES ASSUME Init PROVE KnownInv
  OBVIOUS
<1>1. setup \in Setups
  BY DEF Init
<1>2. CASE IsSoundscape
  <2>1. ioSize \in (1 .. MaxInputs) \X (1 .. MaxOutputs)
    BY <1>1, <1>2, SetupsAssumption DEF Init, IsSoundscape
  <2>2. ioSize[1] \in 1 .. MaxInputs /\ ioSize[2] \in 1 .. MaxOutputs
    BY <2>1
  <2>3. known = KnownONosMap(ioSize[1], ioSize[2])
    BY <1>2 DEF Init
  <2> QED
    BY <1>1, <1>2, <2>1, <2>2, <2>3, NewMap DEF KnownInv
<1>3. CASE ~ IsSoundscape
  BY <1>1, <1>3 DEF Init, KnownInv, EmptyMap
<1> QED
  BY <1>2, <1>3

(* setDeviceIOSize() makes a new map of a size that it clamps.             *)
LEMMA SizeKnown ==
  ASSUME KnownInv, SetDeviceIOSize, setup' = setup
  PROVE  KnownInv'
<1>1. PICK size \in Seqs!ToSet(setup.sizes) :
        /\ ioSize' = << Clamp(size[1], MaxInputs), Clamp(size[2], MaxOutputs) >>
        /\ known' = KnownONosMap(ioSize'[1], ioSize'[2])
  BY DEF SetDeviceIOSize
<1>2. IsSoundscape /\ IsSoundscape'
  BY DEF SetDeviceIOSize, IsSoundscape
<1>3. size[1] \in Nat /\ size[2] \in Nat
  <2>1. setup.sizes \in Seq(Nat \X Nat)
    BY <1>2, SetupsAssumption, Zenon DEF KnownInv, IsSoundscape
  <2>2. size \in Nat \X Nat
    BY <1>1, <2>1 DEF Seqs!ToSet
  <2> QED
    BY <2>2
<1>4. ioSize'[1] \in 1 .. MaxInputs /\ ioSize'[2] \in 1 .. MaxOutputs
  BY <1>1, <1>3, SMT DEF Clamp, MaxInputs, MaxOutputs
<1>5. ioSize' \in (1 .. MaxInputs) \X (1 .. MaxOutputs)
  BY <1>1, <1>4
<1> QED
  BY <1>1, <1>2, <1>4, <1>5, NewMap DEF KnownInv

(* A GUID patches it.                                                      *)
LEMMA GuidKnown ==
  ASSUME KnownInv, NEW msg, TakeGuid(msg), setup' = setup, ioSize' = ioSize
  PROVE  KnownInv'
<1>1. IsSoundscape /\ IsSoundscape'
  BY DEF TakeGuid, IsSoundscape
<1>2. ioSize[2] \in 1 .. MaxOutputs
  BY <1>1 DEF KnownInv
<1>3. \/ known' = known
      \/ \E stack : known' = PatchedONosMap(known, stack, ioSize[2])
  BY DEF TakeGuid
<1>4. CASE known' = known
  BY <1>4, Zenon DEF KnownInv, IsSoundscape
<1>5. ASSUME NEW stack, known' = PatchedONosMap(known, stack, ioSize[2]) PROVE KnownInv'
  BY <1>1, <1>2, <1>5, PatchedMap DEF KnownInv
<1> QED
  BY <1>3, <1>4, <1>5

LEMMA NextKnown == KnownInv /\ [Next]_vars => KnownInv'
<1> SUFFICES ASSUME KnownInv, [Next]_vars PROVE KnownInv'
  OBVIOUS
<1>1. ASSUME UNCHANGED << setup, ioSize, known >> PROVE KnownInv'
  BY <1>1, Zenon DEF KnownInv, IsSoundscape
<1>2. CASE Configure
  <2>1. setup' = setup
    BY <1>2 DEF Configure, appVars
  <2>2. CASE SetDeviceIOSize
    BY <2>1, <2>2, SizeKnown
  <2>3. CASE SetActiveRemoteObjects \/ SetAmpType \/ TrackObject
    BY <1>1, <2>1, <2>3 DEF SetActiveRemoteObjects, SetAmpType, TrackObject
  <2> QED
    BY <1>2, <2>2, <2>3 DEF Configure
<1>3. CASE ProcessMessage
  <2>1. setup' = setup /\ ioSize' = ioSize
    BY <1>3 DEF ProcessMessage
  <2>2. PICK msg : TakeNotification(msg) \/ TakeKeepAlive(msg) \/ TakeAcknowledgement(msg)
                     \/ TakeValue(msg) \/ TakeGuid(msg)
    BY <1>3 DEF ProcessMessage
  <2>3. CASE TakeGuid(msg)
    BY <2>1, <2>3, GuidKnown
  <2>4. CASE TakeNotification(msg) \/ TakeKeepAlive(msg) \/ TakeAcknowledgement(msg)
               \/ TakeValue(msg)
    BY <1>1, <2>1, <2>4
        DEF TakeNotification, TakeKeepAlive, TakeAcknowledgement, TakeValue
  <2> QED
    BY <2>2, <2>3, <2>4
<1>4. CASE Connect \/ Established \/ ConnectionLost \/ Disconnect
  BY <1>1, <1>4 DEF Connect, Established, ConnectionLost, Disconnect, Cut, appVars
<1>5. CASE DeviceTakes \/ DeviceReports \/ DeviceBeats
  BY <1>1, <1>5 DEF DeviceTakes, DeviceReports, DeviceBeats, controllerVars, appVars
<1>6. CASE SetObjectValue \/ \E type \in setup.reads : ReadAs(type)
  BY <1>1, <1>6 DEF SetObjectValue, ReadAs, controllerVars
<1>7. CASE UNCHANGED vars
  BY <1>1, <1>7 DEF vars, controllerVars, appVars
<1> QED
  BY <1>2, <1>3, <1>4, <1>5, <1>6, <1>7 DEF Next

(* The map holds objects that exist, under the numbers of either firmware. *)
THEOREM KnownHolds == Spec => []KnownInv
BY InitKnown, NextKnown, PTL DEF Spec

(* No two objects of the map have one number: for every size of matrix,    *)
(* every sequence of connections, GUIDs and changes of size.               *)
THEOREM NumbersAreUnique == Spec => []OneNumberPerObject
<1>1. ASSUME KnownInv PROVE OneNumberPerObject
  <2> DEFINE S == DOMAIN known
             f == [obj \in S |-> known[obj].ono]
             T == {known[obj].ono : obj \in S}
  <2>1. ASSUME NEW a \in S, NEW b \in S, known[a].ono = known[b].ono PROVE a = b
    <3>1. /\ IsEntry(a) /\ KnownAs(a, known[a])
          /\ IsEntry(b) /\ KnownAs(b, known[b])
      BY <1>1 DEF KnownInv
    <3>2. CASE /\ known[a].ono = MappedDefinition(a[1], a[2]).ono
               /\ known[b].ono = MappedDefinition(b[1], b[2]).ono
      BY <2>1, <3>1, <3>2, EntriesDiffer
    <3>3. CASE /\ a[1] = "Positioning_SpeakerPosition"
               /\ known[a].ono = LegacySpeakerPosition(a[2][1]).ono
      <4>1. a[2][1] \in 0 .. 128 /\ b[2][1] \in 0 .. 128
        BY <3>1 DEF IsEntry
      <4>2. /\ b[1] = "Positioning_SpeakerPosition"
            /\ known[b].ono = LegacySpeakerPosition(b[2][1]).ono
        BY <2>1, <3>1, <3>3, <4>1, LegacyDiffers DEF KnownAs
      <4>3. a[2][1] = b[2][1]
        BY <2>1, <3>3, <4>1, <4>2, LegacyDiffers
      <4> QED
        BY <3>1, <3>3, <4>2, <4>3 DEF IsEntry, SpeakerObjects
    <3>4. CASE /\ b[1] = "Positioning_SpeakerPosition"
               /\ known[b].ono = LegacySpeakerPosition(b[2][1]).ono
               /\ known[a].ono = MappedDefinition(a[1], a[2]).ono
      BY <2>1, <3>1, <3>4, LegacyDiffers DEF IsEntry
    <3> QED
      BY <3>1, <3>2, <3>3, <3>4 DEF KnownAs
  <2>2. f \in Bijection(S, T)
    BY <2>1 DEF Bijection, Injection, Surjection, IsInjective
  <2>3. IsFiniteSet(T)
    <3>1. PICK k \in Nat :
            \A a \in ObjectNames, r \in 0 .. Records - 1, c \in 0 .. Ty2Channels - 1 :
              OcaObject(a, r, c).ono \in 0 .. k
      BY NumbersAreBounded
    <3>2. ASSUME NEW obj \in S PROVE known[obj].ono \in 0 .. k
      <4>1. IsEntry(obj) /\ KnownAs(obj, known[obj])
        BY <1>1 DEF KnownInv
      <4>2. MappedDefinition(obj[1], obj[2]).ono \in 0 .. k
        BY <3>1, <4>1, EntryFields, MappedObject
      <4>3. LegacySpeakerPosition(obj[2][1]).ono \in 0 .. k
        <5>1. /\ 0 \in 0 .. Records - 1 /\ obj[2][1] \in 0 .. Ty2Channels - 1
          BY <4>1, SMT DEF IsEntry, Records, Ty2Channels
        <5>2. LegacySpeakerPosition(obj[2][1]) = OcaObject(LegacyName, 0, obj[2][1])
          BY DEF LegacySpeakerPosition, LegacyName
        <5> QED
          BY <3>1, <5>1, <5>2, LegacyIsObject, Zenon
      <4> QED
        BY <4>1, <4>2, <4>3 DEF KnownAs
    <3>3. T \in SUBSET (0 .. k)
      BY <3>2
    <3> QED
      BY <3>1, <3>3, FS_Interval, FS_Subset, 0 \in Int, k \in Int
  <2>4. IsFiniteSet(S) /\ Cardinality(S) = Cardinality(T)
    BY <2>2, <2>3, FS_Injection, FS_Surjection, FS_Bijection DEF Bijection, ExistsBijection
  <2> QED
    BY <2>4 DEF OneNumberPerObject
<1> QED
  BY <1>1, KnownHolds, PTL
-----------------------------------------------------------------------------
(* The definitions of the tables are proper.                               *)

(* The number of a field and what is above it, in the room of both.        *)
LEMMA FieldInRoom ==
  ASSUME NEW m \in {Types, Records, Channels, BoxesAndObjects, Ty2Channels, Ty2Boxes, Ty2Objects},
         NEW room \in Nat, NEW p \in 1 .. room - 1, NEW x \in Int
  PROVE  room * m \in Nat /\ Field(p, m, x) \in 1 .. (room * m) - 1
<1>1. m \in {16, 256, 32, 32768, 128}
  BY SMT DEF Types, Records, Channels, BoxesAndObjects, Ty2Channels, Ty2Boxes, Ty2Objects
<1>2. CASE m = 16
  BY <1>2, SMT DEF Field
<1>3. CASE m = 32
  BY <1>3, SMT DEF Field
<1>4. CASE m = 128
  BY <1>4, SMT DEF Field
<1>5. CASE m = 256
  BY <1>5, SMT DEF Field
<1>6. CASE m = 32768
  BY <1>6, SMT DEF Field
<1> QED
  BY <1>1, <1>2, <1>3, <1>4, <1>5, <1>6, SMT

(* The numbers of a device are of 32 bits, whatever channel is asked for.  *)
IsNumber32(ono) == ono \in Nat \ {0} /\ ono \div (MaxUint16 + 1) <= MaxUint16

LEMMA Below32 ==
  ASSUME NEW m \in Nat, NEW n \in Nat \ {0}, n < (m + 1) * (m + 1)
  PROVE  n \div (m + 1) <= m
<1> DEFINE q == n \div (m + 1)
<1>1. q \in Nat /\ q * (m + 1) <= n
  <2>1. m + 1 \in Nat \ {0} /\ n \in Int
    OBVIOUS
  <2>2. q \in Nat /\ n % (m + 1) \in 0 .. (m + 1) - 1 /\ n = (m + 1) * q + (n % (m + 1))
    BY <2>1, DivMod, DivPositive
  <2> HIDE DEF q
  <2> QED
    BY <2>1, <2>2
<1> HIDE DEF q
<1>2. q < m + 1
  <2> SUFFICES ASSUME q >= m + 1 PROVE FALSE
    BY <1>1
  <2>1. q * (m + 1) >= (m + 1) * (m + 1)
    BY <1>1
  <2> QED
    BY <1>1, <2>1
<1> QED
  BY <1>1, <1>2 DEF q

LEMMA Ty2Number ==
  ASSUME NEW r \in Int, NEW c \in Int, NEW b \in Int, NEW o \in Int
  PROVE  IsNumber32(GetONoTy2(2, r, c, b, o))
<1> DEFINE p1 == Field(0, Types, 2)
           p2 == Field(p1, Records, r)
           p3 == Field(p2, Ty2Channels, c)
           p4 == Field(p3, Ty2Boxes, b)
           p5 == Field(p4, Ty2Objects, o)
           r2 == Types * Records
           r3 == r2 * Ty2Channels
           r4 == r3 * Ty2Boxes
           r5 == r4 * Ty2Objects
<1>1. Types \in Nat /\ p1 \in 1 .. Types - 1
  BY SMT DEF Field, Types
<1> HIDE DEF p1
<1>2. r2 \in Nat /\ p2 \in 1 .. r2 - 1
  BY <1>1, FieldInRoom, Zenon
<1> HIDE DEF p2, r2
<1>3. r3 \in Nat /\ p3 \in 1 .. r3 - 1
  BY <1>2, FieldInRoom, Zenon
<1> HIDE DEF p3, r3
<1>4. r4 \in Nat /\ p4 \in 1 .. r4 - 1
  BY <1>3, FieldInRoom, Zenon
<1> HIDE DEF p4, r4
<1>5. r5 \in Nat /\ p5 \in 1 .. r5 - 1
  BY <1>4, FieldInRoom, Zenon
<1> HIDE DEF p5, r5
<1>6. r5 - 1 < (MaxUint16 + 1) * (MaxUint16 + 1)
  BY SMT DEF MaxUint16, r5, r4, r3, r2, Types, Records, Ty2Channels, Ty2Boxes, Ty2Objects
<1>7. GetONoTy2(2, r, c, b, o) = p5
  BY Zenon DEF GetONoTy2, p1, p2, p3, p4, p5
<1> QED
  <2>1. MaxUint16 \in Nat
    BY SMT DEF MaxUint16
  <2>2. p5 \in Nat \ {0} /\ p5 < (MaxUint16 + 1) * (MaxUint16 + 1)
    BY <1>5, <1>6, <2>1, SMT
  <2> QED
    BY <1>7, <2>1, <2>2, Below32, Zenon DEF IsNumber32

LEMMA Ty1Number ==
  ASSUME NEW c \in Int, NEW o \in Int
  PROVE  IsNumber32(GetONo(1, 0, c, o))
<1> DEFINE p1 == Field(0, Types, 1)
           p2 == Field(p1, Records, 0)
           p3 == Field(p2, Channels, c)
           p4 == Field(p3, BoxesAndObjects, o)
           r2 == Types * Records
           r3 == r2 * Channels
           r4 == r3 * BoxesAndObjects
<1>1. Types \in Nat /\ p1 \in 1 .. Types - 1
  BY SMT DEF Field, Types
<1> HIDE DEF p1
<1>2. r2 \in Nat /\ p2 \in 1 .. r2 - 1
  BY <1>1, 0 \in Int, FieldInRoom, Zenon
<1> HIDE DEF p2, r2
<1>3. r3 \in Nat /\ p3 \in 1 .. r3 - 1
  BY <1>2, FieldInRoom, Zenon
<1> HIDE DEF p3, r3
<1>4. r4 \in Nat /\ p4 \in 1 .. r4 - 1
  BY <1>3, FieldInRoom, Zenon
<1> HIDE DEF p4, r4
<1>5. r4 - 1 < (MaxUint16 + 1) * (MaxUint16 + 1)
  BY SMT DEF MaxUint16, r4, r3, r2, Types, Records, Channels, BoxesAndObjects
<1>6. GetONo(1, 0, c, o) = p4
  BY Zenon DEF GetONo, p1, p2, p3, p4
<1> QED
  <2>1. MaxUint16 \in Nat
    BY SMT DEF MaxUint16
  <2>2. p4 \in Nat \ {0} /\ p4 < (MaxUint16 + 1) * (MaxUint16 + 1)
    BY <1>4, <1>5, <2>1, SMT
  <2> QED
    BY <1>6, <2>1, <2>2, Below32, Zenon DEF IsNumber32

(* The classes of the objects, and the types of their values.              *)
LEMMA LevelsOfClasses ==
  ASSUME NEW class \in DOMAIN DefLevel
  PROVE  DefLevel[class] \in 3 .. 5
BY DEF DefLevel

IsKind(kind) == kind[1] \in DataTypes /\ kind[2] \in DOMAIN DefLevel

LEMMA KindsOfObjects ==
  /\ IsKind(SwitchObject) /\ IsKind(GainObject) /\ IsKind(DelayObject) /\ IsKind(LevelObject)
  /\ IsKind(FactorObject) /\ IsKind(MuteObject) /\ IsKind(PolarityObject)
  /\ IsKind(TextObject) /\ IsKind(TextSensor) /\ IsKind(FlagSensor) /\ IsKind(NumberSensor)
  /\ IsKind(NumberObject) /\ IsKind(PositionObject) /\ IsKind(SpeakerObject)
BY DEF IsKind, DataTypes, Integral, Floating, DefLevel, SwitchObject, GainObject, DelayObject,
   LevelObject, FactorObject, MuteObject, PolarityObject, TextObject, TextSensor, FlagSensor,
   NumberSensor, NumberObject, PositionObject, SpeakerObject

LEMMA KindsInGroups ==
  ASSUME NEW g \in DS100Groups, NEW name \in DOMAIN g.objects
  PROVE  IsKind(g.objects[name])
BY KindsOfObjects DEF DS100Groups,
   FixedObjects, SettingsObjects, MatrixSettingsObjects, ReverbSettingsObjects, StatusObjects,
   ErrorObjects, MatrixInputObjects, MatrixNodeObjects, MatrixOutputObjects,
   PositioningSourceObjects, FunctionGroupObjects, ReverbInputObjects,
   ReverbInputProcessingObjects, CoordinateMappingSettingsObjects, CoordinateMappingObjects,
   SceneObjects, SoundObjectRoutingObjects, PositioningSpeakerObjects

(* The levels of the classes' properties are positive 16-bit numbers.      *)
LEMMA LevelsFit == 1 .. 5 \subseteq 1 .. MaxUint16
  BY SMTT(30) DEF MaxUint16

LEMMA DefinitionIsProper ==
  ASSUME NEW ono, IsNumber32(ono), NEW kind, IsKind(kind)
  PROVE  IsProperty(Definition(ono, kind[1], kind[2], 1))
<1> DEFINE def == Definition(ono, kind[1], kind[2], 1)
<1>1. DefLevel[kind[2]] \in 3 .. 5
  BY LevelsOfClasses, Zenon DEF IsKind
<1>2. kind[1] \in DataTypes
  BY Zenon DEF IsKind
<1>3. /\ def.ono = ono /\ def.level = DefLevel[kind[2]] /\ def.index = 1 /\ def.getter = 1
      /\ def.type = kind[1]
  BY DEF Definition
<1> HIDE DEF def
<1>4. \A n \in 3 .. 5 : n \in 1 .. MaxUint16
  BY LevelsFit
<1>5. 1 \in 1 .. MaxUint16
  BY LevelsFit
<1>6. def.ono \in Nat \ {0} /\ def.ono \div (MaxUint16 + 1) <= MaxUint16
  BY <1>3, Zenon DEF IsNumber32
<1>7. {def.level, def.index, def.getter} \subseteq 1 .. MaxUint16
  BY <1>1, <1>3, <1>4, <1>5, Zenon
<1>8. IsProperty(def)
  BY <1>2, <1>3, <1>6, <1>7, Zenon DEF IsProperty
<1> QED
  BY <1>8 DEF def

(* Every object of a DS100, at any address,                                *)
LEMMA OcaObjectIsProper ==
  ASSUME NEW name \in ObjectNames, NEW r \in Int, NEW c \in Int
  PROVE  IsProperty(OcaObject(name, r, c))
<1> DEFINE g == GroupOf(name)
<1>1. g \in DS100Groups /\ name \in DOMAIN g.objects
  BY GroupOfName
<1>2. g.box \in Int /\ ObjectNumber[name] \in Int
  BY <1>1, Boxes, Numbers DEF Ty2Boxes, Ty2Objects
<1>3. IsNumber32(GetONoTy2(2, r, c, g.box, ObjectNumber[name])) /\ IsKind(g.objects[name])
  BY <1>1, <1>2, Ty2Number, KindsInGroups
<1> HIDE DEF g
<1> QED
  BY <1>3, DefinitionIsProper, Zenon DEF OcaObject, DS100Definition, g

(* and every object of an amplifier.                                       *)
LEMMA AmpObjectIsProper ==
  ASSUME NEW ampType \in AmpTypes, NEW quantity \in AmpQuantities, NEW ch \in Int
  PROVE  IsProperty(AmpObjectDefinition(ampType, quantity, ch))
<1>1. \A o \in Int, c \in Int : IsNumber32(GetONo(1, 0, c, o))
  BY Ty1Number
<1>2. /\ IsKind(<< "UINT16", "OcaSwitch" >>) /\ IsKind(<< "UINT8", "OcaMute" >>)
      /\ IsKind(<< "FLOAT32", "OcaGain" >>) /\ IsKind(<< "BOOLEAN", "OcaBooleanSensor" >>)
      /\ IsKind(<< "FLOAT32", "OcaAudioLevelSensor" >>)
  BY DEF IsKind, DataTypes, Integral, Floating, DefLevel
<1>3. \A o \in Int, c \in Int : \A kind : IsKind(kind) =>
        IsProperty(AmpDefinition(c, o, kind[1], kind[2]))
  BY <1>1, DefinitionIsProper, Zenon DEF AmpDefinition
<1>4. /\ AmpNumber(ampType).PwrOn \in Int /\ AmpNumber(ampType)["Isp"] \in Int
      /\ AmpNumber(ampType)["Gr"] \in Int /\ AmpNumber(ampType)["Ovl"] \in Int
      /\ GrHeadNumber[ampType] \in Int /\ Config_PotiLevel \in Int /\ Config_Mute \in Int
  BY SMT DEF AmpTypes, AmpNumber, FiveDNumber, DxDyNumber, GrHeadNumber, Config_Mute,
     Config_PotiLevel
<1>5. IsProperty(PowerDefinition(ampType))
  <2>1. IsProperty(AmpDefinition(0, AmpNumber(ampType).PwrOn, << "UINT16", "OcaSwitch" >>[1],
                                 << "UINT16", "OcaSwitch" >>[2]))
    BY <1>2, <1>3, <1>4, 0 \in Int, Zenon
  <2> QED
    BY <2>1 DEF PowerDefinition
<1>6. IsProperty(GainDefinition(ch))
  <2>1. IsProperty(AmpDefinition(ch, Config_PotiLevel, << "FLOAT32", "OcaGain" >>[1],
                                 << "FLOAT32", "OcaGain" >>[2]))
    BY <1>2, <1>3, <1>4, Zenon
  <2> QED
    BY <2>1 DEF GainDefinition
<1>7. IsProperty(MuteDefinition(ch))
  <2>1. IsProperty(AmpDefinition(ch, Config_Mute, << "UINT8", "OcaMute" >>[1],
                                 << "UINT8", "OcaMute" >>[2]))
    BY <1>2, <1>3, <1>4, Zenon
  <2> QED
    BY <2>1 DEF MuteDefinition
<1>8. ASSUME NEW status \in {"Isp", "Gr", "Ovl"}
      PROVE  IsProperty(StatusDefinition(ampType, ch, status))
  <2>0. AmpNumber(ampType)[status] \in Int
    BY <1>4
  <2>1. IsProperty(AmpDefinition(ch, AmpNumber(ampType)[status],
                                 << "BOOLEAN", "OcaBooleanSensor" >>[1],
                                 << "BOOLEAN", "OcaBooleanSensor" >>[2]))
    BY <1>2, <1>3, <2>0, Zenon
  <2> QED
    BY <2>1 DEF StatusDefinition
<1>9. IsProperty(GrHeadDefinition(ampType, ch))
  <2>1. IsProperty(AmpDefinition(ch, GrHeadNumber[ampType],
                                 << "FLOAT32", "OcaAudioLevelSensor" >>[1],
                                 << "FLOAT32", "OcaAudioLevelSensor" >>[2]))
    BY <1>2, <1>3, <1>4, Zenon
  <2> QED
    BY <2>1 DEF GrHeadDefinition
<1> QED
  BY <1>5, <1>6, <1>7, <1>8, <1>9 DEF AmpObjectDefinition, AmpQuantities

(* Whatever the channel, the kind of the object is the same.               *)
LEMMA AmpKinds ==
  ASSUME NEW ampType, NEW quantity \in AmpQuantities, NEW a \in Int, NEW b \in Int
  PROVE  LET def == AmpObjectDefinition(ampType, quantity, a)
             other == AmpObjectDefinition(ampType, quantity, b)
         IN  def.type = other.type /\ def.level = other.level /\ def.index = other.index
<1>1. \A o, type, class :
        LET def == AmpDefinition(a, o, type, class)
            other == AmpDefinition(b, o, type, class)
        IN  def.type = other.type /\ def.level = other.level /\ def.index = other.index
  BY DEF AmpDefinition, Definition
<1> QED
  BY <1>1 DEF AmpObjectDefinition, AmpQuantities, PowerDefinition, GainDefinition,
     MuteDefinition, StatusDefinition, GrHeadDefinition

-----------------------------------------------------------------------------
(* What is tracked.                                                        *)

(* A sequence of entries with proper definitions.                          *)
AreProper(entries) == \E S : entries \in Seq(S) /\ \A e \in S : IsProperty(e.def)

LEMMA ProperEntries ==
  ASSUME NEW entries, AreProper(entries)
  PROVE  Len(entries) \in Nat /\ \A i \in 1 .. Len(entries) : IsProperty(entries[i].def)
<1>1. PICK S : entries \in Seq(S) /\ \A e \in S : IsProperty(e.def)
  BY DEF AreProper
<1>2. \A i \in 1 .. Len(entries) : entries[i] \in S
  BY <1>1
<1>3. Len(entries) \in Nat
  BY <1>1
<1> QED
  BY <1>1, <1>2, <1>3, Zenon

(* The active objects that a map has,                                      *)
LEMMA ActiveAreEntries ==
  ASSUME NEW map, Len(setup.active) \in Nat
  PROVE  ActiveEntries(map) \in Seq({Entry(obj, map[obj]) : obj \in DOMAIN map})
<1> DEFINE active == setup.active
           n == Len(active)
           S == {Entry(obj, map[obj]) : obj \in DOMAIN map}
           T == Seq(S)
           Taken(i, x) == IF active[i] \in DOMAIN map
                          THEN Append(x, Entry(active[i], map[active[i]])) ELSE x
           f == [i \in Nat |-> [x \in T |-> Taken(i + 1, x)]]
<1>1. ASSUME NEW i, NEW x \in T PROVE Taken(i, x) \in T
  <2>1. CASE active[i] \in DOMAIN map
    <3>1. Entry(active[i], map[active[i]]) \in S
      BY <2>1
    <3> HIDE DEF S
    <3> QED
      BY <2>1, <3>1
  <2> QED
    BY <2>1
<1>2. f \in Steps(T)
  <2> HIDE DEF Taken, T
  <2> QED
    BY <1>1 DEF Steps
<1>3. \A i \in Nat, x \in T : f[i][x] = Taken(i + 1, x)
  OBVIOUS
<1>4. << >> \in T
  OBVIOUS
<1> HIDE DEF f, T, Taken
<1>5. PICK g : Follows(g, T, << >>, f)
  BY <1>2, <1>4, PrimitiveRecursion
<1>6. n \in Nat
  OBVIOUS
<1> DEFINE h == [i \in 0 .. n |-> g[i]]
<1> HIDE DEF n
<1>7. ASSUME NEW i \in 0 .. n
      PROVE  h[i] = IF i = 0 THEN << >> ELSE Taken(i, h[i - 1])
  <2>1. CASE i = 0
    BY <1>5, <1>6, <2>1 DEF Follows
  <2>2. CASE i # 0
    <3>1. i - 1 \in 0 .. n /\ (i - 1) + 1 = i /\ i - 1 \in Nat
      BY <1>6, <2>2
    <3>2. g[i] = f[i - 1][g[i - 1]] /\ g[i - 1] \in T
      BY <1>5, <3>1 DEF Follows
    <3>3. f[i - 1][g[i - 1]] = Taken(i, g[i - 1])
      BY <1>3, <3>1, <3>2, Zenon
    <3>4. h[i] = g[i] /\ h[i - 1] = g[i - 1]
      BY <3>1
    <3> QED
      BY <2>2, <3>2, <3>3, <3>4, Zenon
  <2> QED
    BY <2>1, <2>2
<1>8. h = [i \in 0 .. n |-> IF i = 0 THEN << >> ELSE Taken(i, h[i - 1])]
  BY <1>7
<1> DEFINE u == CHOOSE u : u = [i \in 0 .. n |-> IF i = 0 THEN << >> ELSE Taken(i, u[i - 1])]
<1>9. u = [i \in 0 .. n |-> IF i = 0 THEN << >> ELSE Taken(i, u[i - 1])]
  <2> HIDE DEF h
  <2> QED
    BY <1>8, Zenon
<1>10. ActiveEntries(map) = u[n]
  BY Zenon DEF ActiveEntries, n, Taken
<1> HIDE DEF u
<1> DEFINE P == {i \in Nat : i =< n => u[i] \in T}
<1>11. Nat \subseteq P
  <2>1. 0 \in P
    BY <1>4, <1>6, <1>9
  <2>2. ASSUME NEW i \in Nat, i \in P PROVE i + 1 \in P
    <3> SUFFICES ASSUME i + 1 =< n PROVE u[i + 1] \in T
      OBVIOUS
    <3>1. i + 1 \in 0 .. n /\ i + 1 # 0 /\ (i + 1) - 1 = i /\ i =< n
      BY <1>6
    <3>2. u[i + 1] = Taken(i + 1, u[i])
      BY <1>9, <3>1
    <3> QED
      BY <1>1, <2>2, <3>1, <3>2, Zenon
  <2> HIDE DEF P
  <2> QED
    BY <2>1, <2>2, SetInduction
<1>12. u[n] \in T
  BY <1>6, <1>11
<1> QED
  BY <1>10, <1>12, Zenon DEF T, S

(* which are proper if its definitions are.                                *)
LEMMA ActiveAreProper ==
  ASSUME NEW map, \A obj \in DOMAIN map : IsProperty(map[obj]), Len(setup.active) \in Nat
  PROVE  AreProper(ActiveEntries(map))
<1> DEFINE S == {Entry(obj, map[obj]) : obj \in DOMAIN map}
<1>1. ActiveEntries(map) \in Seq(S)
  BY ActiveAreEntries
<1>2. \A e \in S : IsProperty(e.def)
  BY DEF Entry
<1> HIDE DEF S
<1> QED
  BY <1>1, <1>2, Zenon DEF AreProper

(* The objects of a map are, through the tables.                           *)
LEMMA KnownAreProper ==
  ASSUME NEW map, \A obj \in DOMAIN map : IsEntry(obj) /\ KnownAs(obj, map[obj])
  PROVE  \A obj \in DOMAIN map : IsProperty(map[obj])
<1> SUFFICES ASSUME NEW obj \in DOMAIN map PROVE IsProperty(map[obj])
  OBVIOUS
<1>1. IsEntry(obj) /\ KnownAs(obj, map[obj])
  OBVIOUS
<1>2. CASE map[obj] = MappedDefinition(obj[1], obj[2])
  <2>1. /\ OcaName(obj[1]) \in ObjectNames
        /\ RecordAt(obj[1], obj[2]) \in Int /\ ChannelAt(obj[1], obj[2]) \in Int
    BY <1>1, EntryFields
  <2> QED
    BY <1>2, <2>1, MappedObject, OcaObjectIsProper, Zenon
<1>3. CASE map[obj] = LegacySpeakerPosition(obj[2][1])
  <2>1. obj[2][1] \in Int /\ 0 \in Int
    BY <1>1 DEF IsEntry
  <2> QED
    BY <1>3, <2>1, LegacyIsObject, OcaObjectIsProper, Zenon DEF LegacySpeakerPosition, LegacyName
<1> QED
  BY <1>1, <1>2, <1>3 DEF KnownAs

(* What a setup gives each kind of controller.                             *)
LEMMA SetupIsProper ==
  ASSUME setup \in Setups
  PROVE  /\ setup.kind \in {"amp", "soundscape", "plain"}
         /\ {setup.sessions, setup.sets, setup.reports, setup.beats} \subseteq Nat
         /\ setup.guids # {}
         /\ \A g \in setup.guids : g \in Seq(Int) /\ Len(g) <= LongestText
         /\ IsSoundscape => Len(setup.active) \in Nat
         /\ setup.kind = "amp" => setup.ampType \in AmpTypes /\ setup.channels \in Nat
         /\ setup.kind = "plain" =>
              Len(setup.defs) \in Nat /\ \A i \in 1 .. Len(setup.defs) : IsProperty(setup.defs[i])
<1>1. /\ setup.kind \in {"amp", "soundscape", "plain"}
      /\ {setup.sessions, setup.sets, setup.reports, setup.beats} \subseteq Nat
      /\ setup.guids # {} /\ \A g \in setup.guids : g \in Seq(Int) /\ Len(g) <= LongestText
      /\ setup.kind = "amp" => setup.ampType \in AmpTypes /\ setup.channels \in Nat
  BY SetupsAssumption, Zenon
<1>2. ASSUME IsSoundscape PROVE Len(setup.active) \in Nat
  <2>1. setup.active \in Seq(RemObjIdents \X ObjectAddresses)
    BY <1>2, SetupsAssumption, Zenon DEF IsSoundscape
  <2> QED
    BY <2>1
<1>3. ASSUME setup.kind = "plain"
      PROVE  Len(setup.defs) \in Nat /\ \A i \in 1 .. Len(setup.defs) : IsProperty(setup.defs[i])
  <2>1. /\ setup.defs \in Seq(Seqs!ToSet(setup.defs))
        /\ \A def \in Seqs!ToSet(setup.defs) : IsProperty(def)
    BY <1>3, SetupsAssumption, Zenon
  <2>2. Len(setup.defs) \in Nat
        /\ \A i \in 1 .. Len(setup.defs) : setup.defs[i] \in Seqs!ToSet(setup.defs)
    BY <2>1
  <2> QED
    BY <2>1, <2>2, Zenon
<1> QED
  BY <1>1, <1>2, <1>3, Zenon

-----------------------------------------------------------------------------
(* Every variable has its type.                                            *)
TrackedOK == AreProper(tracked)
StateOK == state \in States /\ linked \in BOOLEAN /\ stackIdent \in -1 .. 1
HandlesOK ==
  /\ nextHandle \in Nat /\ FirstHandle <= nextHandle
  /\ pendingSubs \cup DOMAIN pendingGets \cup pendingSets \subseteq FirstHandle .. nextHandle - 1
  /\ pendingSubs \cap DOMAIN pendingGets = {} /\ pendingSets \cap DOMAIN pendingGets = {}
HeardOK == \A obj \in DOMAIN heard : heard[obj].ok \in BOOLEAN
SpentOK ==
  spent \in [sessions : 0 .. setup.sessions, sets : 0 .. setup.sets,
             reports : 0 .. setup.reports, beats : 0 .. setup.beats]

(* What every step leaves true.                                            *)
Inv == KnownInv /\ TrackedOK /\ StateOK /\ HandlesOK /\ HeardOK /\ SpentOK

LEMMA EmptyIsProper == AreProper(<< >>)
<1> DEFINE S == {}
<1>1. << >> \in Seq(S)
  OBVIOUS
<1>2. \A e \in S : IsProperty(e.def)
  OBVIOUS
<1> HIDE DEF S
<1> QED
  BY <1>1, <1>2 DEF AreProper

LEMMA InitInv == Init => Inv
<1> SUFFICES ASSUME Init PROVE Inv
  OBVIOUS
<1>1. KnownInv
  BY InitKnown
<1>2. TrackedOK
  BY EmptyIsProper DEF Init, TrackedOK
<1>3. StateOK
  <2>1. state \in States
    BY DEF Init, States
  <2>2. linked \in BOOLEAN
    BY Zenon DEF Init
  <2>3. stackIdent \in -1 .. 1
    BY DEF Init
  <2> QED
    BY <2>1, <2>2, <2>3, Zenon DEF StateOK
<1>4. HandlesOK
  BY DEF Init, HandlesOK, FirstHandle, EmptyMap
<1>5. HeardOK
  BY DEF Init, HeardOK, EmptyMap
<1>6. SpentOK
  <2>1. setup.sessions \in Nat /\ setup.sets \in Nat /\ setup.reports \in Nat
        /\ setup.beats \in Nat
    BY <1>1, SetupIsProper DEF KnownInv
  <2>2. spent = [sessions |-> 0, sets |-> 0, reports |-> 0, beats |-> 0]
    BY DEF Init
  <2> QED
    BY <2>1, <2>2 DEF SpentOK
<1> QED
  BY <1>1, <1>2, <1>3, <1>4, <1>5, <1>6 DEF Inv

(* The objects of an amplifier.                                            *)
LEMMA AmpObjectsAreQuantities ==
  ASSUME NEW channels \in Nat
  PROVE  AmpObjects(channels) \in Seq(AmpQuantities \X (Int \X Int))
<1> DEFINE objects == AmpObjects(channels)
           n == 6 * channels
           first == << << "Power", Unindexed >> >>
           others == [i \in 1 .. n |-> << ChannelQuantities[((i - 1) % 6) + 1],
                                          At(((i - 1) \div 6) + 1) >>]
           O == AmpQuantities \X (Int \X Int)
<1>1. n \in Nat
  OBVIOUS
<1>2. others \in Seq(O)
  <2>1. ASSUME NEW i \in 1 .. n
        PROVE  << ChannelQuantities[((i - 1) % 6) + 1], At(((i - 1) \div 6) + 1) >> \in O
    <3>1. ((i - 1) % 6) + 1 \in 1 .. 6 /\ ((i - 1) \div 6) + 1 \in Int
      BY <1>1
    <3>2. \A k \in 1 .. 6 : ChannelQuantities[k] \in AmpQuantities
      BY DEF ChannelQuantities, AmpQuantities
    <3>3. \A k \in Int : At(k) \in Int \X Int
      BY DEF At, NotUsed
    <3> QED
      BY <3>1, <3>2, <3>3
  <2>2. others \in [1 .. n -> O]
    <3> HIDE DEF O, n
    <3> QED
      BY <2>1
  <2> HIDE DEF O, n, others
  <2> QED
    BY <1>1, <2>2, FunctionIsSeq
<1>3. first \in Seq(O)
  <2>1. << "Power", Unindexed >> \in O
    BY DEF Unindexed, NotUsed, AmpQuantities
  <2> HIDE DEF O
  <2> QED
    BY <2>1
<1> QED
  <2>1. objects = first \o others
    BY Zenon DEF AmpObjects
  <2> HIDE DEF first, others, objects
  <2>2. objects \in Seq(O)
    <3> HIDE DEF O
    <3> QED
      BY <1>2, <1>3, <2>1, ConcatProperties
  <2> QED
    BY <2>2 DEF objects

(* The entries of an amplifier, and one more of a plain controller.        *)
LEMMA AmpTracked ==
  ASSUME setup \in Setups, SetAmpType
  PROVE  AreProper(tracked')
<1> DEFINE objects == AmpObjects(setup.channels)
           entry(i) == Entry(objects[i], AmpObjectDefinition(setup.ampType, objects[i][1],
                                                             objects[i][2][1]))
           O == AmpQuantities \X (Int \X Int)
<1>1. setup.ampType \in AmpTypes /\ setup.channels \in Nat
  BY SetupIsProper DEF SetAmpType
<1>4. objects \in Seq(O)
  BY <1>1, AmpObjectsAreQuantities
<1>5. \A i \in 1 .. Len(objects) : IsProperty(entry(i).def)
  <2> SUFFICES ASSUME NEW i \in 1 .. Len(objects) PROVE IsProperty(entry(i).def)
    OBVIOUS
  <2>1. objects[i] \in O
    <3> HIDE DEF O, objects
    <3> QED
      BY <1>4
  <2>2. objects[i][1] \in AmpQuantities /\ objects[i][2][1] \in Int
    <3> HIDE DEF objects
    <3> QED
      BY <2>1
  <2> HIDE DEF objects
  <2>3. entry(i).def = AmpObjectDefinition(setup.ampType, objects[i][1], objects[i][2][1])
    BY DEF Entry
  <2> QED
    BY <1>1, <2>2, <2>3, AmpObjectIsProper, Zenon
<1>6. tracked' = [i \in 1 .. Len(objects) |-> entry(i)]
  BY Zenon DEF SetAmpType
<1>7. Len(objects) \in Nat
  <2> HIDE DEF O, objects
  <2> QED
    BY <1>4
<1> DEFINE S == {entry(i) : i \in 1 .. Len(objects)}
<1> HIDE DEF objects, entry
<1>8. tracked' \in [1 .. Len(objects) -> S]
  BY <1>6
<1>9. \A e \in S : IsProperty(e.def)
  BY <1>5
<1> HIDE DEF S
<1>10. tracked' \in Seq(S)
  BY <1>7, <1>8, FunctionIsSeq
<1> QED
  BY <1>9, <1>10, Zenon DEF AreProper

LEMMA PlainTracked ==
  ASSUME setup \in Setups, TrackedOK, TrackObject
  PROVE  AreProper(tracked')
<1>1. PICK S : tracked \in Seq(S) /\ \A e \in S : IsProperty(e.def)
  BY DEF TrackedOK, AreProper
<1> DEFINE i == Len(tracked) + 1
           e == Entry(<< "Plain", At(i) >>, setup.defs[i])
<1>2. tracked' = Append(tracked, e)
  BY Zenon DEF TrackObject
<1>3. IsProperty(e.def)
  <2>1. i \in 1 .. Len(setup.defs)
    BY <1>1, SetupIsProper DEF TrackObject
  <2>2. IsProperty(setup.defs[i])
    BY <2>1, SetupIsProper DEF TrackObject
  <2> HIDE DEF i
  <2> QED
    BY <2>2 DEF Entry
<1> HIDE DEF e
<1> DEFINE T == S \cup {e}
<1>4. tracked \in Seq(T)
  BY <1>1
<1>5. e \in T /\ \A x \in T : IsProperty(x.def)
  BY <1>1, <1>3
<1> HIDE DEF T
<1>6. tracked' \in Seq(T)
  BY <1>2, <1>4, <1>5
<1> QED
  BY <1>5, <1>6, Zenon DEF AreProper

(* Subscribing and asking takes new handles.                               *)
LEMMA SubscribesAndQueries ==
  ASSUME HandlesOK, NEW entries, Len(entries) \in Nat,
         NEW gets, DOMAIN gets \subseteq DOMAIN pendingGets,
         SubscribeAndQuery(entries, gets), pendingSets' = pendingSets
  PROVE  HandlesOK' /\ state' \in States /\ nextHandle' >= nextHandle
<1> DEFINE n == Len(entries)
           subscribing == nextHandle .. nextHandle + n - 1
           querying == nextHandle + n .. nextHandle + 2 * n - 1
<1>1. /\ pendingSubs' = pendingSubs \cup subscribing
      /\ DOMAIN pendingGets' = DOMAIN gets \cup querying
      /\ nextHandle' = nextHandle + 2 * n
  BY DEF SubscribeAndQuery
<1>2. state' \in States
  BY DEF SubscribeAndQuery, States
<1>3. nextHandle' \in Nat /\ FirstHandle <= nextHandle' /\ nextHandle' >= nextHandle
      /\ nextHandle <= nextHandle'
  BY <1>1 DEF HandlesOK, FirstHandle
<1>4. \A h \in pendingSubs \cup DOMAIN gets \cup pendingSets :
        h \in FirstHandle .. nextHandle - 1
  BY DEF HandlesOK
<1>5. \A h \in pendingSubs \cup DOMAIN gets \cup pendingSets :
        h \notin subscribing /\ h \notin querying /\ h \in FirstHandle .. nextHandle' - 1
  BY <1>3, <1>4 DEF HandlesOK, FirstHandle
<1>6. \A h \in subscribing \cup querying : h \in FirstHandle .. nextHandle' - 1
  BY <1>1 DEF HandlesOK, FirstHandle
<1>7. subscribing \cap querying = {}
  BY DEF HandlesOK
<1>8. pendingSubs \cap DOMAIN gets = {} /\ pendingSets \cap DOMAIN gets = {}
  BY Zenon DEF HandlesOK
<1> HIDE DEF n, subscribing, querying
<1>9. pendingSubs' \cup DOMAIN pendingGets' \cup pendingSets' \subseteq
        FirstHandle .. nextHandle' - 1
  BY <1>1, <1>5, <1>6, Zenon
<1>10. pendingSubs' \cap DOMAIN pendingGets' = {} /\ pendingSets' \cap DOMAIN pendingGets' = {}
  BY <1>1, <1>5, <1>7, <1>8
<1> QED
  BY <1>2, <1>3, <1>9, <1>10, Zenon DEF HandlesOK

(* So does asking for the GUID.                                            *)
LEMMA AsksForGuid ==
  ASSUME HandlesOK, AskForGuid, pendingSets' = pendingSets
  PROVE  HandlesOK' /\ state' = state /\ stackIdent' \in -1 .. 1
<1>1. /\ pendingSubs' = pendingSubs /\ nextHandle' = nextHandle + 1
      /\ DOMAIN pendingGets' = DOMAIN pendingGets \cup {nextHandle}
  BY DEF AskForGuid, With
<1>2. nextHandle \notin pendingSubs \cup DOMAIN pendingGets \cup pendingSets
  BY DEF HandlesOK
<1>3. state' = state /\ stackIdent' \in -1 .. 1
  BY DEF AskForGuid
<1> QED
  BY <1>1, <1>2, <1>3 DEF HandlesOK, FirstHandle

(* An answer takes a handle off, and never leaves the states there are.    *)
LEMMA Answered ==
  ASSUME HandlesOK, nextHandle' = nextHandle,
         pendingSubs' \subseteq pendingSubs, DOMAIN pendingGets' \subseteq DOMAIN pendingGets,
         pendingSets' \subseteq pendingSets
  PROVE  HandlesOK'
BY DEF HandlesOK

LEMMA StatesAfter ==
  ASSUME state \in States, NEW subs, NEW gets, NEW wasSubscription \in BOOLEAN,
         NEW wasGet \in BOOLEAN
  PROVE  StateAfter(subs, gets, wasSubscription, wasGet) \in States
BY DEF StateAfter, States

(* What a GUID does: it is only answered, or everything is subscribed anew.*)
LEMMA TakesGuid ==
  ASSUME NEW msg, TakeGuid(msg)
  PROVE  /\ IsSoundscape /\ pendingSets' = pendingSets /\ heard' = heard
         /\ \/ /\ tracked' = ActiveEntries(known')
               /\ stackIdent' \in 0 .. 1
               /\ SubscribeAndQuery(tracked', Without(pendingGets, msg.handle))
            \/ /\ UNCHANGED << stackIdent, tracked, pendingSubs, nextHandle, toDevice >>
               /\ pendingGets' = Without(pendingGets, msg.handle)
               /\ state' = StateAfter(pendingSubs, DOMAIN pendingGets', FALSE, TRUE)
<1>1. \A g : StackIdentOf(g) \in 0 .. 1
  BY DEF StackIdentOf
<1> QED
  BY <1>1, Zenon DEF TakeGuid

(* One step per action of the handles,                                     *)
LEMMA HandlesStep == Inv /\ TrackedOK' /\ [Next]_vars => HandlesOK'
<1> SUFFICES ASSUME Inv, TrackedOK', [Next]_vars PROVE HandlesOK'
  OBVIOUS
<1>0. HandlesOK
  BY DEF Inv
<1>1. ASSUME UNCHANGED << nextHandle, pendingSubs, pendingGets, pendingSets >> PROVE HandlesOK'
  BY <1>0, <1>1, Zenon DEF HandlesOK
<1>2. CASE Established
  <2>1. CASE IsSoundscape
    BY <1>0, <1>2, <2>1, AsksForGuid DEF Established
  <2>2. CASE ~ IsSoundscape
    <3>1. Len(tracked) \in Nat
      BY ProperEntries DEF Inv, TrackedOK
    <3> QED
      BY <1>0, <1>2, <2>2, <3>1, SubscribesAndQueries DEF Established
  <2> QED
    BY <2>1, <2>2
<1>3. CASE ConnectionLost \/ Disconnect
  BY <1>0, <1>3 DEF ConnectionLost, Disconnect, Cut, EmptyMap, HandlesOK
<1>4. CASE ProcessMessage
  <2>1. PICK msg : TakeNotification(msg) \/ TakeKeepAlive(msg) \/ TakeAcknowledgement(msg)
                     \/ TakeValue(msg) \/ TakeGuid(msg)
    BY <1>4 DEF ProcessMessage
  <2>2. CASE TakeNotification(msg) \/ TakeKeepAlive(msg)
    BY <1>1, <2>2 DEF TakeNotification, TakeKeepAlive
  <2>3. CASE TakeAcknowledgement(msg)
    BY <1>0, <2>3, Answered DEF TakeAcknowledgement, Without
  <2>4. CASE TakeValue(msg)
    BY <1>0, <2>4, Answered DEF TakeValue, Without
  <2>5. CASE TakeGuid(msg)
    <3>1. DOMAIN Without(pendingGets, msg.handle) \subseteq DOMAIN pendingGets
      BY DEF Without
    <3>2. CASE SubscribeAndQuery(tracked', Without(pendingGets, msg.handle))
      <4>1. Len(tracked') \in Nat
        BY ProperEntries DEF TrackedOK
      <4>2. pendingSets' = pendingSets
        BY <2>5, TakesGuid
      <4> QED
        BY <1>0, <3>1, <3>2, <4>1, <4>2, SubscribesAndQueries
    <3>3. CASE /\ UNCHANGED << pendingSubs, nextHandle >>
               /\ pendingGets' = Without(pendingGets, msg.handle)
      <4>1. pendingSets' = pendingSets
        BY <2>5, TakesGuid
      <4> QED
        BY <1>0, <3>1, <3>3, <4>1, Answered
    <3> QED
      BY <2>5, <3>2, <3>3, TakesGuid
  <2> QED
    BY <2>1, <2>2, <2>3, <2>4, <2>5
<1>5. CASE SetObjectValue
  <2>1. /\ UNCHANGED << pendingSubs, pendingGets >>
        /\ pendingSets' = pendingSets \cup {nextHandle} /\ nextHandle' = nextHandle + 1
    BY <1>5 DEF SetObjectValue
  <2> QED
    BY <1>0, <2>1 DEF HandlesOK, FirstHandle
<1>6. CASE Configure \/ Connect
  BY <1>1, <1>6 DEF Configure, Connect
<1>7. CASE DeviceTakes \/ DeviceReports \/ DeviceBeats
  BY <1>1, <1>7 DEF DeviceTakes, DeviceReports, DeviceBeats, controllerVars
<1>8. CASE \E type \in setup.reads : ReadAs(type)
  BY <1>1, <1>8 DEF ReadAs, controllerVars
<1>9. CASE UNCHANGED vars
  BY <1>1, <1>9 DEF vars, controllerVars
<1> QED
  BY <1>2, <1>3, <1>4, <1>5, <1>6, <1>7, <1>8, <1>9 DEF Next

(* of what is tracked,                                                     *)
LEMMA TrackedStep == Inv /\ KnownInv' /\ [Next]_vars => TrackedOK'
<1> SUFFICES ASSUME Inv, KnownInv', [Next]_vars PROVE TrackedOK'
  OBVIOUS
<1>0. TrackedOK /\ KnownInv /\ setup \in Setups
  BY DEF Inv, KnownInv
<1>1. ASSUME UNCHANGED tracked PROVE TrackedOK'
  BY <1>0, <1>1, Zenon DEF TrackedOK
<1>2. CASE Configure
  <2>1. CASE SetActiveRemoteObjects
    <3>1. \A obj \in DOMAIN known : IsProperty(known[obj])
      BY <1>0, KnownAreProper, Zenon DEF KnownInv
    <3>2. Len(setup.active) \in Nat
      BY <1>0, <2>1, SetupIsProper DEF SetActiveRemoteObjects
    <3> QED
      BY <2>1, <3>1, <3>2, ActiveAreProper DEF SetActiveRemoteObjects, TrackedOK
  <2>2. CASE SetAmpType
    BY <1>0, <2>2, AmpTracked DEF TrackedOK
  <2>3. CASE TrackObject
    BY <1>0, <2>3, PlainTracked DEF TrackedOK
  <2>4. CASE SetDeviceIOSize
    BY <1>1, <2>4 DEF SetDeviceIOSize
  <2> QED
    BY <1>2, <2>1, <2>2, <2>3, <2>4 DEF Configure
<1>3. CASE ProcessMessage
  <2>1. PICK msg : TakeNotification(msg) \/ TakeKeepAlive(msg) \/ TakeAcknowledgement(msg)
                     \/ TakeValue(msg) \/ TakeGuid(msg)
    BY <1>3 DEF ProcessMessage
  <2>2. CASE TakeNotification(msg) \/ TakeKeepAlive(msg) \/ TakeAcknowledgement(msg)
               \/ TakeValue(msg)
    BY <1>1, <2>2 DEF TakeNotification, TakeKeepAlive, TakeAcknowledgement, TakeValue
  <2>3. CASE TakeGuid(msg)
    <3>1. CASE tracked' = ActiveEntries(known')
      <4>1. \A obj \in DOMAIN known' : IsProperty(known'[obj])
        <5>1. \A obj \in DOMAIN known' : IsEntry(obj) /\ KnownAs(obj, known'[obj])
          BY DEF KnownInv
        <5> QED
          BY <5>1, KnownAreProper, Zenon
      <4>2. Len(setup.active) \in Nat
        BY <1>0, <2>3, SetupIsProper, TakesGuid
      <4> QED
        BY <3>1, <4>1, <4>2, ActiveAreProper DEF TrackedOK
    <3> QED
      BY <1>1, <2>3, <3>1, TakesGuid
  <2> QED
    BY <2>1, <2>2, <2>3
<1>4. CASE Connect \/ Established \/ ConnectionLost \/ Disconnect
  BY <1>1, <1>4 DEF Connect, Established, ConnectionLost, Disconnect, Cut
<1>5. CASE DeviceTakes \/ DeviceReports \/ DeviceBeats
  BY <1>1, <1>5 DEF DeviceTakes, DeviceReports, DeviceBeats, controllerVars
<1>6. CASE SetObjectValue \/ \E type \in setup.reads : ReadAs(type)
  BY <1>1, <1>6 DEF SetObjectValue, ReadAs, controllerVars
<1>7. CASE UNCHANGED vars
  BY <1>1, <1>7 DEF vars, controllerVars
<1> QED
  BY <1>2, <1>3, <1>4, <1>5, <1>6, <1>7 DEF Next

(* of the state,                                                           *)
LEMMA StateStep == Inv /\ TrackedOK' /\ [Next]_vars => StateOK'
<1> SUFFICES ASSUME Inv, TrackedOK', [Next]_vars PROVE StateOK'
  OBVIOUS
<1>0. StateOK /\ HandlesOK
  BY DEF Inv
<1>1. ASSUME UNCHANGED << state, linked, stackIdent >> PROVE StateOK'
  BY <1>0, <1>1, Zenon DEF StateOK
<1>2. ASSUME state' \in States, linked' \in BOOLEAN, stackIdent' \in -1 .. 1 PROVE StateOK'
  BY <1>2, Zenon DEF StateOK
<1>3. CASE Connect
  <2>1. UNCHANGED << linked, stackIdent >> /\ state' = "Connecting"
    BY <1>3 DEF Connect
  <2>2. "Connecting" \in States
    BY DEF States
  <2> QED
    BY <1>0, <1>2, <2>1, <2>2, Zenon DEF StateOK
<1>4. CASE Established
  <2>1. linked' \in BOOLEAN /\ pendingSets' = pendingSets
    BY <1>4, Zenon DEF Established
  <2>2. CASE IsSoundscape
    <3>1. AskForGuid
      BY <1>4, <2>2, Zenon DEF Established
    <3>2. state' = state /\ stackIdent' \in -1 .. 1
      BY <1>0, <2>1, <3>1, AsksForGuid, Zenon
    <3> QED
      BY <1>0, <1>2, <2>1, <3>2, Zenon DEF StateOK
  <2>3. CASE ~ IsSoundscape
    <3>1. SubscribeAndQuery(tracked, pendingGets) /\ stackIdent' = stackIdent
      BY <1>4, <2>3, Zenon DEF Established
    <3>2. Len(tracked) \in Nat
      BY ProperEntries DEF Inv, TrackedOK
    <3>3. state' \in States
      BY <1>0, <2>1, <3>1, <3>2, SubscribesAndQueries
    <3> QED
      BY <1>0, <1>2, <2>1, <3>1, <3>3, Zenon DEF StateOK
  <2> QED
    BY <2>2, <2>3
<1>5. CASE ConnectionLost \/ Disconnect
  <2>1. linked' \in BOOLEAN /\ stackIdent' = stackIdent
    BY <1>5, Zenon DEF ConnectionLost, Disconnect, Cut
  <2>2. state' \in States
    BY <1>5 DEF ConnectionLost, Disconnect, States
  <2> QED
    BY <1>0, <1>2, <2>1, <2>2, Zenon DEF StateOK
<1>6. CASE ProcessMessage
  <2>1. PICK msg : TakeNotification(msg) \/ TakeKeepAlive(msg) \/ TakeAcknowledgement(msg)
                     \/ TakeValue(msg) \/ TakeGuid(msg)
    BY <1>6 DEF ProcessMessage
  <2>2. linked' = linked /\ state \in States
    BY <1>0, <1>6, Zenon DEF ProcessMessage, StateOK
  <2>3. CASE TakeNotification(msg) \/ TakeKeepAlive(msg)
    BY <1>1, <2>2, <2>3, Zenon DEF TakeNotification, TakeKeepAlive
  <2>4. CASE TakeAcknowledgement(msg)
    <3>1. /\ state' = StateAfter(pendingSubs \ {msg.handle}, DOMAIN pendingGets \ {msg.handle},
                                 msg.handle \in pendingSubs, msg.handle \in DOMAIN pendingGets)
          /\ stackIdent' = stackIdent
      BY <2>4, Zenon DEF TakeAcknowledgement
    <3>2. /\ (msg.handle \in pendingSubs) \in BOOLEAN
          /\ (msg.handle \in DOMAIN pendingGets) \in BOOLEAN
      OBVIOUS
    <3>3. state' \in States
      BY <2>2, <3>1, <3>2, StatesAfter, Zenon
    <3> QED
      BY <1>0, <1>2, <2>2, <3>1, <3>3, Zenon DEF StateOK
  <2>5. CASE TakeValue(msg)
    <3>1. /\ state' = StateAfter(pendingSubs, DOMAIN pendingGets', FALSE, TRUE)
          /\ stackIdent' = stackIdent
      BY <2>5, Zenon DEF TakeValue
    <3>2. state' \in States
      BY <2>2, <3>1, StatesAfter, Zenon
    <3> QED
      BY <1>0, <1>2, <2>2, <3>1, <3>2, Zenon DEF StateOK
  <2>6. CASE TakeGuid(msg)
    <3>1. CASE /\ stackIdent' \in 0 .. 1
               /\ SubscribeAndQuery(tracked', Without(pendingGets, msg.handle))
      <4>1. DOMAIN Without(pendingGets, msg.handle) \subseteq DOMAIN pendingGets
        BY DEF Without
      <4>2. Len(tracked') \in Nat
        BY ProperEntries DEF TrackedOK
      <4>3. pendingSets' = pendingSets
        BY <2>6, TakesGuid
      <4>4. state' \in States
        BY <1>0, <3>1, <4>1, <4>2, <4>3, SubscribesAndQueries
      <4>5. stackIdent' \in -1 .. 1
        BY <3>1
      <4> QED
        BY <1>0, <1>2, <2>2, <4>4, <4>5, Zenon DEF StateOK
    <3>2. CASE /\ stackIdent' = stackIdent
               /\ state' = StateAfter(pendingSubs, DOMAIN pendingGets', FALSE, TRUE)
      <4>1. state' \in States
        BY <2>2, <3>2, StatesAfter, Zenon
      <4> QED
        BY <1>0, <1>2, <2>2, <3>2, <4>1, Zenon DEF StateOK
    <3> QED
      BY <2>6, <3>1, <3>2, TakesGuid
  <2> QED
    BY <2>1, <2>3, <2>4, <2>5, <2>6
<1>7. CASE Configure \/ SetObjectValue
  BY <1>1, <1>7, Zenon DEF Configure, SetObjectValue
<1>8. CASE DeviceTakes \/ DeviceReports \/ DeviceBeats
  <2>1. UNCHANGED << state, linked, stackIdent >>
    BY <1>8 DEF DeviceTakes, DeviceReports, DeviceBeats, controllerVars
  <2> QED
    BY <1>1, <2>1
<1>9. CASE \E type \in setup.reads : ReadAs(type)
  BY <1>1, <1>9, Zenon DEF ReadAs, controllerVars
<1>10. CASE UNCHANGED vars
  BY <1>1, <1>10, Zenon DEF vars, controllerVars
<1>11. \/ Configure \/ Connect \/ Established \/ ConnectionLost \/ Disconnect
       \/ DeviceTakes \/ DeviceReports \/ DeviceBeats
       \/ ProcessMessage \/ SetObjectValue
       \/ \E type \in setup.reads : ReadAs(type)
       \/ UNCHANGED vars
  BY Zenon DEF Next
<1> QED
  BY <1>3, <1>4, <1>5, <1>6, <1>7, <1>8, <1>9, <1>10, <1>11, Zenon

(* A value is heard as it was converted, or not.                           *)
LEMMA ReadsAreTyped ==
  ASSUME NEW data, NEW type
  PROVE  VariantFromData(data, type).ok \in BOOLEAN
<1>1. \A n \in Nat : /\ ReadUnsigned(n, data).ok \in BOOLEAN
                    /\ ReadSigned(n, data).ok \in BOOLEAN
  BY Zenon DEF ReadUnsigned, ReadSigned, Read
<1>2. 1 \in Nat /\ 2 \in Nat /\ 4 \in Nat /\ 8 \in Nat
  OBVIOUS
<1>3. /\ DataToInt32(data).ok \in BOOLEAN /\ DataToUint8(data).ok \in BOOLEAN
      /\ DataToUint16(data).ok \in BOOLEAN /\ DataToUint32(data).ok \in BOOLEAN
      /\ DataToUint64(data).ok \in BOOLEAN /\ DataToFloat(data).ok \in BOOLEAN
      /\ DataToDouble(data).ok \in BOOLEAN
  BY <1>1, <1>2, Zenon DEF DataToInt32, DataToUint8, DataToUint16, DataToUint32, DataToUint64,
     DataToFloat, DataToDouble
<1>4. DataToString(data).ok \in BOOLEAN
  BY Zenon DEF DataToString, Read
<1>5. DataToBool(data).ok \in BOOLEAN
  BY Zenon DEF DataToBool, Read
<1>6. \A t, r : FromRead(t, r).ok = r.ok
  BY Zenon DEF FromRead, Read
<1>7. \A v : Read(TRUE, v).ok \in BOOLEAN /\ Read(FALSE, v).ok \in BOOLEAN
  BY Zenon DEF Read
<1> QED
  BY <1>3, <1>4, <1>5, <1>6, <1>7, ZenonT(60) DEF VariantFromData

LEMMA HeardStep == Inv /\ [Next]_vars => HeardOK'
<1> SUFFICES ASSUME Inv, [Next]_vars PROVE HeardOK'
  OBVIOUS
<1>0. HeardOK
  BY DEF Inv
<1>1. ASSUME UNCHANGED heard PROVE HeardOK'
  BY <1>0, <1>1, Zenon DEF HeardOK
<1>2. \A object, data : Decoded(object, data).ok \in BOOLEAN
  <2>1. \A v : Read(TRUE, v).ok \in BOOLEAN
    BY Zenon DEF Read
  <2> QED
    BY <2>1, ReadsAreTyped, Zenon DEF Decoded
<1>3. ASSUME NEW ono, NEW data, Deliver(ono, data) PROVE HeardOK'
  <2>1. PICK object : heard' = With(heard, object, Decoded(object, data))
    BY <1>3, Zenon DEF Deliver
  <2>2. /\ DOMAIN heard' = DOMAIN heard \cup {object}
        /\ \A obj \in DOMAIN heard' :
             heard'[obj] = IF obj = object THEN Decoded(object, data) ELSE heard[obj]
    BY <2>1, Zenon DEF With
  <2> SUFFICES ASSUME NEW obj \in DOMAIN heard' PROVE heard'[obj].ok \in BOOLEAN
    BY Zenon DEF HeardOK
  <2>3. CASE obj = object
    BY <1>2, <2>2, <2>3, Zenon
  <2>4. CASE obj # object
    <3>1. obj \in DOMAIN heard /\ heard'[obj] = heard[obj]
      BY <2>2, <2>4, Zenon
    <3> QED
      BY <1>0, <3>1, Zenon DEF HeardOK
  <2> QED
    BY <2>3, <2>4
<1>4. CASE ProcessMessage
  <2>1. PICK msg : TakeNotification(msg) \/ TakeKeepAlive(msg) \/ TakeAcknowledgement(msg)
                     \/ TakeValue(msg) \/ TakeGuid(msg)
    BY <1>4 DEF ProcessMessage
  <2>2. CASE TakeNotification(msg)
    BY <1>1, <1>3, <2>2, Zenon DEF TakeNotification
  <2>3. CASE TakeValue(msg)
    BY <1>3, <2>3, Zenon DEF TakeValue
  <2>4. CASE TakeKeepAlive(msg) \/ TakeAcknowledgement(msg) \/ TakeGuid(msg)
    BY <1>1, <2>4, Zenon DEF TakeKeepAlive, TakeAcknowledgement, TakeGuid
  <2> QED
    BY <2>1, <2>2, <2>3, <2>4
<1>5. CASE Configure \/ SetObjectValue
  BY <1>1, <1>5, Zenon DEF Configure, SetObjectValue, appVars
<1>6. CASE Connect \/ Established \/ ConnectionLost \/ Disconnect
  BY <1>1, <1>6, Zenon DEF Connect, Established, ConnectionLost, Disconnect, Cut, appVars
<1>7. CASE DeviceTakes \/ DeviceReports \/ DeviceBeats
  <2>1. UNCHANGED heard
    BY <1>7 DEF DeviceTakes, DeviceReports, DeviceBeats, appVars
  <2> QED
    BY <1>1, <2>1
<1>8. CASE \E type \in setup.reads : ReadAs(type)
  BY <1>1, <1>8, Zenon DEF ReadAs
<1>9. CASE UNCHANGED vars
  BY <1>1, <1>9, Zenon DEF vars, appVars
<1> QED
  BY <1>4, <1>5, <1>6, <1>7, <1>8, <1>9 DEF Next

(* and of the counts of bounded steps.                                     *)
LEMMA SpentStep == Inv /\ [Next]_vars => SpentOK'
<1> SUFFICES ASSUME Inv, [Next]_vars PROVE SpentOK'
  OBVIOUS
<1>0. SpentOK
  BY DEF Inv
<1>1. ASSUME UNCHANGED << setup, spent >> PROVE SpentOK'
  BY <1>0, <1>1, Zenon DEF SpentOK
<1>2. /\ setup.sessions \in Nat /\ setup.sets \in Nat /\ setup.reports \in Nat
      /\ setup.beats \in Nat
  BY SetupIsProper DEF Inv, KnownInv
<1>3. CASE Established
  <2>1. /\ setup' = setup /\ spent.sessions < setup.sessions
        /\ spent' = [spent EXCEPT !.sessions = @ + 1]
    BY <1>3 DEF Established, appVars
  <2> QED
    BY <1>0, <1>2, <2>1 DEF SpentOK
<1>4. CASE SetObjectValue
  <2>1. /\ setup' = setup /\ spent.sets < setup.sets
        /\ spent' = [spent EXCEPT !.sets = @ + 1]
    BY <1>4 DEF SetObjectValue
  <2> QED
    BY <1>0, <1>2, <2>1 DEF SpentOK
<1>5. CASE DeviceReports
  <2>1. /\ setup' = setup /\ spent.reports < setup.reports
        /\ spent' = [spent EXCEPT !.reports = @ + 1]
    BY <1>5 DEF DeviceReports
  <2> QED
    BY <1>0, <1>2, <2>1 DEF SpentOK
<1>6. CASE DeviceBeats
  <2>1. /\ setup' = setup /\ spent.beats < setup.beats
        /\ spent' = [spent EXCEPT !.beats = @ + 1]
    BY <1>6 DEF DeviceBeats, appVars
  <2> QED
    BY <1>0, <1>2, <2>1 DEF SpentOK
<1>7. CASE Configure \/ Connect \/ ConnectionLost \/ Disconnect
  BY <1>1, <1>7, Zenon DEF Configure, Connect, ConnectionLost, Disconnect, Cut, appVars
<1>8. CASE DeviceTakes \/ ProcessMessage \/ \E type \in setup.reads : ReadAs(type)
  BY <1>1, <1>8, Zenon DEF DeviceTakes, ProcessMessage, ReadAs, appVars
<1>9. CASE UNCHANGED vars
  BY <1>1, <1>9, Zenon DEF vars, appVars
<1> QED
  BY <1>3, <1>4, <1>5, <1>6, <1>7, <1>8, <1>9 DEF Next

LEMMA NextInv == Inv /\ [Next]_vars => Inv'
<1> SUFFICES ASSUME Inv, [Next]_vars PROVE Inv'
  OBVIOUS
<1>1. KnownInv'
  BY NextKnown DEF Inv
<1>2. TrackedOK'
  BY <1>1, TrackedStep
<1>3. HandlesOK' /\ StateOK' /\ HeardOK' /\ SpentOK'
  BY <1>2, HandlesStep, StateStep, HeardStep, SpentStep
<1> QED
  BY <1>1, <1>2, <1>3, Zenon DEF Inv

(* So it holds always.                                                     *)
THEOREM InvHolds == Spec => []Inv
BY InitInv, NextInv, PTL DEF Spec

(* Every variable has its type, and the handles that a connection waits    *)
(* for are each of one kind and among those it was given: whatever is      *)
(* tracked, however often it reconnects, and in whichever order a device   *)
(* answers.                                                                *)
THEOREM TypeCorrect == Spec => []TypeOK
<1>1. ASSUME Inv PROVE TypeOK
  <2>1. \A obj \in DOMAIN known : obj[1] \in RemObjIdents
    <3>1. MapIdents \subseteq RemObjIdents
      BY Zenon DEF MapIdents, RemObjIdents
    <3> QED
      BY <1>1, <3>1 DEF Inv, KnownInv, IsEntry
  <2>2. setup \in Setups
    BY <1>1, Zenon DEF Inv, KnownInv
  <2> QED
    BY <1>1, <2>1, <2>2, Zenon DEF Inv, StateOK, HandlesOK, HeardOK, SpentOK, TypeOK
<1> QED
  BY <1>1, InvHolds, PTL

-----------------------------------------------------------------------------
(* What is under way.                                                      *)

(* A set of streams that has the empty one, and with each stream the one   *)
(* that a frame more makes of it.                                          *)
IsClosed(S, frames) == << >> \in S /\ \A s \in S, frame \in frames : s \o frame \in S

(* The streams that frames make, one after another: the smallest such set. *)
Streams(frames) ==
  {s \in Seq(Int) : \A S \in SUBSET Seq(Int) : IsClosed(S, frames) => s \in S}

LEMMA StreamsAreClosed ==
  ASSUME NEW frames \in SUBSET Seq(Int)
  PROVE  IsClosed(Streams(frames), frames)
<1>1. << >> \in Streams(frames)
  BY DEF Streams, IsClosed
<1>2. ASSUME NEW s \in Streams(frames), NEW frame \in frames
      PROVE  s \o frame \in Streams(frames)
  <2>1. s \in Seq(Int) /\ frame \in Seq(Int)
    BY DEF Streams
  <2>2. s \o frame \in Seq(Int)
    BY <2>1, ConcatProperties
  <2>3. ASSUME NEW S \in SUBSET Seq(Int), IsClosed(S, frames) PROVE s \o frame \in S
    BY <2>3, Zenon DEF Streams, IsClosed
  <2> QED
    BY <2>2, <2>3, Zenon DEF Streams
<1> QED
  BY <1>1, <1>2, Zenon DEF IsClosed

LEMMA SmallestClosed ==
  ASSUME NEW frames, NEW S \in SUBSET Seq(Int), IsClosed(S, frames)
  PROVE  Streams(frames) \subseteq S
BY Zenon DEF Streams

LEMMA JoinsAssociate ==
  ASSUME NEW a \in Seq(Int), NEW b \in Seq(Int), NEW c \in Seq(Int)
  PROVE  (a \o b) \o c = a \o (b \o c)
BY ConcatAssociative

LEMMA EmptyConcat ==
  ASSUME NEW s \in Seq(Int)
  PROVE  << >> \o s = s /\ s \o << >> = s
BY ConcatSimplifications

(* A stream is empty, or a frame and a stream.                             *)
LEMMA FirstOfStream ==
  ASSUME NEW frames \in SUBSET Seq(Int), NEW s \in Streams(frames), s # << >>
  PROVE  \E frame \in frames, rest \in Streams(frames) : s = frame \o rest
<1> DEFINE S == {t \in Seq(Int) : t = << >> \/ \E frame \in frames, rest \in Streams(frames) :
                                                  t = frame \o rest}
<1>1. IsClosed(Streams(frames), frames)
  BY StreamsAreClosed
<1>2. Streams(frames) \in SUBSET Seq(Int)
  BY Zenon DEF Streams
<1>3. << >> \in S
  OBVIOUS
<1>4. ASSUME NEW t \in S, NEW last \in frames PROVE t \o last \in S
  <2>1. t \o last \in Seq(Int)
    BY ConcatProperties
  <2>2. CASE t = << >>
    <3>1. t \o last = last /\ last = last \o << >>
      BY <2>2, EmptyConcat
    <3>2. << >> \in Streams(frames)
      BY <1>1, Zenon DEF IsClosed
    <3> QED
      BY <2>1, <3>1, <3>2, Zenon
  <2>3. ASSUME NEW frame \in frames, NEW rest \in Streams(frames), t = frame \o rest
        PROVE  t \o last \in S
    <3>1. frame \in Seq(Int) /\ rest \in Seq(Int) /\ last \in Seq(Int)
      BY <1>2
    <3>2. t \o last = frame \o (rest \o last)
      <4>1. (frame \o rest) \o last = frame \o (rest \o last)
        BY <3>1, JoinsAssociate, Zenon
      <4> QED
        BY <2>3, <4>1, Zenon
    <3>3. rest \o last \in Streams(frames)
      BY <1>1, Zenon DEF IsClosed
    <3> QED
      BY <2>1, <3>2, <3>3, Zenon
  <2> QED
    BY <2>2, <2>3, Zenon
<1>5. IsClosed(S, frames) /\ S \in SUBSET Seq(Int)
  <2>1. S \in SUBSET Seq(Int)
    OBVIOUS
  <2> HIDE DEF S
  <2> QED
    BY <1>3, <1>4, <2>1, Zenon DEF IsClosed
<1>6. s \in S
  <2> HIDE DEF S
  <2> QED
    BY <1>5, SmallestClosed, Zenon
<1> QED
  BY <1>6, Zenon

(* Several frames more make a stream of it too (FlattenSeq of the          *)
(* community module SequencesExt).                                         *)
LEMMA StreamExtended ==
  ASSUME NEW frames \in SUBSET Seq(Int), NEW s \in Streams(frames),
         NEW n \in Nat, NEW more, more = [i \in 1 .. n |-> more[i]],
         \A i \in 1 .. n : more[i] \in frames
  PROVE  s \o Seqs!FlattenSeq(more) \in Streams(frames)
<1>0. s \in Seq(Int) /\ \A i \in 1 .. n : more[i] \in Seq(Int)
  BY Zenon DEF Streams
<1>a. IsClosed(Streams(frames), frames)
  BY StreamsAreClosed
<1>b. Len(more) = n
  <2>1. more \in [1 .. n -> frames]
    <3> DEFINE f == [i \in 1 .. n |-> more[i]]
    <3>1. f \in [1 .. n -> frames]
      OBVIOUS
    <3> QED
      BY <3>1, Zenon
  <2> QED
    BY <2>1, FunctionIsSeq, Zenon
<1>1. CASE n = 0
  <2>1. more = << >>
    BY <1>b, <1>1
  <2>2. Seqs!FlattenSeq(more) = << >>
    BY <2>1, Len(<< >>) = 0, Zenon DEF Seqs!FlattenSeq
  <2> QED
    BY <1>0, <2>2, EmptyConcat
<1>2. CASE n # 0
  <2> DEFINE T == Seq(Int)
             f == [i \in Nat |-> [x \in T |-> IF i + 1 \in 1 .. n THEN x \o more[i + 1] ELSE x]]
  <2>1. f \in Steps(T)
    <3>1. ASSUME NEW i \in Nat, NEW x \in T
          PROVE  (IF i + 1 \in 1 .. n THEN x \o more[i + 1] ELSE x) \in T
      <4>1. CASE i + 1 \in 1 .. n
        BY <1>0, <4>1, ConcatProperties
      <4> QED
        BY <4>1
    <3> HIDE DEF T
    <3> QED
      BY <3>1 DEF Steps
  <2>2. \A i \in 0 .. n - 1, x \in T : f[i][x] = x \o more[i + 1]
    OBVIOUS
  <2>3. << >> \in T
    OBVIOUS
  <2> HIDE DEF f, T
  <2>4. PICK g : Follows(g, T, << >>, f)
    BY <2>1, <2>3, PrimitiveRecursion
  <2>5. ASSUME NEW i \in 1 .. n
        PROVE  g[i] = IF i = 1 THEN more[i] ELSE g[i - 1] \o more[i]
    <3>1. i - 1 \in 0 .. n - 1 /\ (i - 1) + 1 = i /\ i - 1 \in Nat
      OBVIOUS
    <3>2. g[i] = f[i - 1][g[i - 1]] /\ g[i - 1] \in T
      BY <2>4, <3>1 DEF Follows
    <3>3. g[i] = g[i - 1] \o more[i]
      BY <2>2, <3>1, <3>2, Zenon
    <3>4. CASE i = 1
      <4>1. i - 1 = 0
        BY <3>4
      <4>2. g[i - 1] = << >>
        BY <2>4, <4>1, Zenon DEF Follows
      <4> QED
        BY <1>0, <3>3, <3>4, <4>2, EmptyConcat
    <3> QED
      BY <3>3, <3>4
  <2> DEFINE h == [i \in 1 .. n |-> g[i]]
             u == CHOOSE u : u = [i \in 1 .. n |-> IF i = 1 THEN more[i] ELSE u[i - 1] \o more[i]]
  <2>6. h = [i \in 1 .. n |-> IF i = 1 THEN more[i] ELSE h[i - 1] \o more[i]]
    <3>1. ASSUME NEW i \in 1 .. n
          PROVE  h[i] = IF i = 1 THEN more[i] ELSE h[i - 1] \o more[i]
      <4>1. CASE i = 1
        BY <2>5, <4>1
      <4>2. CASE i # 1
        <5>1. i - 1 \in 1 .. n
          BY <4>2
        <5> QED
          BY <2>5, <4>2, <5>1, Zenon
      <4> QED
        BY <4>1, <4>2
    <3> QED
      BY <3>1
  <2>7. u = [i \in 1 .. n |-> IF i = 1 THEN more[i] ELSE u[i - 1] \o more[i]]
    <3> HIDE DEF h
    <3> QED
      BY <2>6, Zenon
  <2>8. Seqs!FlattenSeq(more) = u[n]
    <3>1. Len(more) # 0
      BY <1>2, <1>b
    <3> QED
      BY <1>b, <3>1, Zenon DEF Seqs!FlattenSeq
  <2> HIDE DEF u
  <2> DEFINE S == {i \in Nat : i + 1 <= n =>
                      u[i + 1] \in Seq(Int) /\ s \o u[i + 1] \in Streams(frames)}
  <2>9. Nat \subseteq S
    <3>1. 0 \in S
      <4>1. 0 + 1 = 1 /\ 1 \in 1 .. n
        BY <1>2
      <4>2. u[1] = more[1]
        BY <2>7, <4>1
      <4>3. more[1] \in frames /\ more[1] \in Seq(Int)
        BY <1>0, <4>1
      <4>4. s \o more[1] \in Streams(frames)
        BY <1>a, <4>3, Zenon DEF IsClosed
      <4> QED
        BY <4>1, <4>2, <4>3, <4>4, 0 \in Nat, Zenon
    <3>2. ASSUME NEW i \in Nat, i \in S PROVE i + 1 \in S
      <4> SUFFICES ASSUME (i + 1) + 1 <= n
                   PROVE  /\ u[(i + 1) + 1] \in Seq(Int)
                          /\ s \o u[(i + 1) + 1] \in Streams(frames)
        OBVIOUS
      <4> DEFINE j == (i + 1) + 1
      <4>1. j \in 1 .. n /\ j # 1 /\ j - 1 = i + 1 /\ i + 1 <= n
        OBVIOUS
      <4>2. u[i + 1] \in Seq(Int) /\ s \o u[i + 1] \in Streams(frames)
        BY <3>2, <4>1, Zenon
      <4>3. u[j] = u[j - 1] \o more[j]
        BY <2>7, <4>1
      <4> HIDE DEF j
      <4>4. more[j] \in frames /\ more[j] \in Seq(Int)
        BY <1>0, <4>1, Zenon
      <4>5. u[j] \in Seq(Int)
        BY <4>1, <4>2, <4>3, <4>4, ConcatProperties
      <4>6. s \o u[j] = (s \o u[i + 1]) \o more[j]
        <5>1. u[j] = u[i + 1] \o more[j]
          BY <4>1, <4>3, Zenon
        <5> DEFINE a == u[i + 1]
                   b == more[j]
        <5>2. a \in Seq(Int) /\ b \in Seq(Int)
          BY <4>2, <4>4
        <5> HIDE DEF a, b
        <5>3. (s \o a) \o b = s \o (a \o b)
          BY <1>0, <5>2, JoinsAssociate, Zenon
        <5> QED
          BY <5>1, <5>3, Zenon DEF a, b
      <4>7. s \o u[j] \in Streams(frames)
        BY <1>a, <4>2, <4>4, <4>6, Zenon DEF IsClosed
      <4> QED
        BY <4>5, <4>7 DEF j
    <3> HIDE DEF S
    <3> QED
      BY <3>1, <3>2, SetInduction
  <2>10. n - 1 \in Nat /\ (n - 1) + 1 = n /\ (n - 1) + 1 <= n
    BY <1>2
  <2> QED
    BY <2>8, <2>9, <2>10, Zenon
<1> QED
  BY <1>1, <1>2
-----------------------------------------------------------------------------
(* The bytes a set sends.                                                  *)

(* The bytes of a number.                                                  *)
LEMMA BytesAreData ==
  ASSUME NEW n \in {1, 2, 4, 8}, NEW v \in Int
  PROVE  IsData(BytesOf(n, v))
<1> DEFINE bytes == BytesOf(n, v)
<1>1. bytes \in Seq(Digits) /\ Len(bytes) = n /\ Digits \subseteq Int
  BY n \in Nat, BytesOfIsSeq, ByteSizeAssumption DEF Digits
<1>2. bytes \in Seq(Int)
  BY <1>1, SeqMonotonic
<1> HIDE DEF bytes
<1>3. bytes # << >> /\ n <= LongestText + 2
  BY <1>1, SMT DEF LongestText, MaxUint16
<1> QED
  BY <1>1, <1>2, <1>3, Zenon DEF IsData, bytes

(* What is read of some bytes is a number.                                 *)
LEMMA NumberIsInt ==
  ASSUME NEW n \in {1, 2, 4, 8}, NEW data \in Seq(Int)
  PROVE  ReadUnsigned(n, data).value \in Int /\ ReadSigned(n, data).value \in Int
<1>1. CASE Len(data) >= n
  <2>1. n \in Nat /\ \A i \in 1 .. n : data[i] \in Int
    BY <1>1
  <2>2. PICK upTo : RunsTo(ByteSize, upTo, n, data) /\ NumberOf(ByteSize, n, data) = upTo[n]
    BY <2>1, ByteSizeIsPositive, NumberIsDefined
  <2>3. NumberIn(n, data) \in Int
    BY <2>1, <2>2, BytesAreDigits DEF RunsTo
  <2>4. Power[n] \in Nat \ {0}
    BY <2>1, PowerIsDefined
  <2> QED
    BY <2>3, <2>4 DEF ReadUnsigned, ReadSigned, Read, AsSigned
<1>2. CASE ~ (Len(data) >= n)
  BY <1>2 DEF ReadUnsigned, ReadSigned, Read
<1> QED
  BY <1>1, <1>2

(* A type is of one kind.                                                  *)
LEMMA KindOfType ==
  ASSUME NEW type
  PROVE  /\ type = "BOOLEAN" =>
              /\ type \notin Integral /\ type \notin Floating
              /\ type \notin Integral \cup Floating
              /\ type # "STRING" /\ type # "BLOB"
         /\ type \in Integral =>
              type # "BOOLEAN" /\ type \notin Floating /\ type # "STRING" /\ type # "BLOB"
         /\ type \in Floating =>
              type # "BOOLEAN" /\ type \notin Integral /\ type # "STRING" /\ type # "BLOB"
         /\ type = "STRING" =>
              type # "BOOLEAN" /\ type \notin Integral /\ type \notin Floating /\ type # "BLOB"
         /\ type = "BLOB" =>
              type # "BOOLEAN" /\ type \notin Integral /\ type \notin Floating /\ type # "STRING"
BY DEF Integral, Floating

(* The number that a variant stands for, whatever its type.                *)
LEMMA WholeIsInt ==
  ASSUME NEW v, IsTyped(v), v[1] # "BLOB", NEW n \in {4, 8}
  PROVE  \E ok \in BOOLEAN, value \in Int : WholeNumber(v, n) = Read(ok, value)
<1>0. \A k \in {1, 2, 4, 8} : Power[k] \in Nat \ {0}
  BY PowerIsDefined
<1>1. CASE v[1] = "BOOLEAN"
  <2>1. WholeNumber(v, n) = Read(TRUE, IF v[2] THEN 1 ELSE 0)
    BY <1>1, KindOfType, Zenon DEF WholeNumber
  <2>2. (IF v[2] THEN 1 ELSE 0) \in Int
    OBVIOUS
  <2> QED
    BY <2>1, <2>2, Zenon
<1>2. CASE v[1] \in Integral
  <2>1. WholeNumber(v, n) = Read(TRUE, v[2])
    BY <1>2, KindOfType, Zenon DEF WholeNumber
  <2>2. v[2] \in Int
    BY <1>0, <1>2 DEF IsTyped, Integral
  <2> QED
    BY <2>1, <2>2, Zenon
<1>3. CASE v[1] \in Floating
  <2>1. WholeNumber(v, n) = Read(TRUE, LRound(v[2]))
    BY <1>3, KindOfType, Zenon DEF WholeNumber
  <2>2. v[2] \in Int
    BY <1>3 DEF IsTyped, Floating
  <2>3. LRound(v[2]) \in Int
    BY <2>2 DEF LRound
  <2> QED
    BY <2>1, <2>3, Zenon
<1>4. CASE v[1] = "STRING"
  <2>1. WholeNumber(v, n) = ParsedWhole(v[2], n)
    BY <1>4, KindOfType, Zenon DEF WholeNumber
  <2>2. v[2] \in Seq(Int)
    BY <1>4 DEF IsTyped
  <2>3. CASE IsNumeral(v[2]) /\ FitsSigned(n, WholePart(v[2]))
    <3>1. ParsedWhole(v[2], n) = Read(TRUE, WholePart(v[2]))
      BY <2>3, Zenon DEF ParsedWhole
    <3>2. v[2][2] \in Int
      BY <2>2, <2>3 DEF IsNumeral
    <3>3. WholePart(v[2]) \in Int
      BY <3>2 DEF WholePart, Halved
    <3> QED
      BY <2>1, <3>1, <3>3, Zenon
  <2>4. CASE ~ (IsNumeral(v[2]) /\ FitsSigned(n, WholePart(v[2])))
    <3>1. ParsedWhole(v[2], n) = Read(FALSE, 0)
      BY <2>4, Zenon DEF ParsedWhole
    <3> QED
      BY <2>1, <3>1, 0 \in Int, Zenon
  <2> QED
    BY <2>3, <2>4
<1> QED
  BY <1>1, <1>2, <1>3, <1>4 DEF IsTyped, Integral, Floating

(* Its cast to any type.                                                   *)
LEMMA CastIsInt ==
  ASSUME NEW n \in {1, 2, 4, 8}, NEW ok, NEW value \in Int
  PROVE  Unsigned(n, Read(ok, value)).value \in Int /\ Signed(n, Read(ok, value)).value \in Int
<1>1. Power[n] \in Nat \ {0}
  BY PowerIsDefined
<1> DEFINE p == Power[n]
<1>2. value % p \in Int /\ p \div 2 \in Int
  BY <1>1
<1>3. AsSigned(n, value % p) \in Int
  BY <1>1, <1>2 DEF AsSigned
<1>4. Unsigned(n, Read(ok, value)).value = value % p
  BY DEF Unsigned, Read
<1>5. Signed(n, Read(ok, value)).value = AsSigned(n, value % p)
  BY DEF Signed, Read
<1> QED
  BY <1>2, <1>3, <1>4, <1>5, Zenon

LEMMA ConvertedIsInt ==
  ASSUME NEW v, IsTyped(v)
  PROVE  /\ ToInt32(v).value \in Int /\ ToUInt8(v).value \in Int /\ ToUInt16(v).value \in Int
         /\ ToUInt32(v).value \in Int /\ ToUInt64(v).value \in Int
<1>1. CASE v[1] = "BLOB"
  <2>1. v[2] \in Seq(Int)
    BY <1>1 DEF IsTyped
  <2>2. \A n \in {1, 2, 4, 8} : /\ ReadUnsigned(n, v[2]).value \in Int
                                /\ ReadSigned(n, v[2]).value \in Int
    BY <2>1, NumberIsInt
  <2> QED
    BY <1>1, <2>2 DEF ToInt32, ToUInt8, ToUInt16, ToUInt32, ToUInt64, DataToInt32, DataToUint8,
       DataToUint16, DataToUint32, DataToUint64
<1>2. CASE v[1] # "BLOB"
  <2>1. ASSUME NEW n \in {1, 2, 4, 8}, NEW k \in {4, 8}
        PROVE  /\ Unsigned(n, WholeNumber(v, k)).value \in Int
               /\ Signed(n, WholeNumber(v, k)).value \in Int
    <3>1. PICK ok \in BOOLEAN, value \in Int : WholeNumber(v, k) = Read(ok, value)
      BY <1>2, WholeIsInt, Zenon
    <3>2. /\ Unsigned(n, Read(ok, value)).value \in Int
          /\ Signed(n, Read(ok, value)).value \in Int
      BY CastIsInt, Zenon
    <3> QED
      BY <3>1, <3>2, Zenon
  <2>2. 1 \in {1, 2, 4, 8} /\ 2 \in {1, 2, 4, 8} /\ 4 \in {1, 2, 4, 8} /\ 8 \in {1, 2, 4, 8}
        /\ 4 \in {4, 8} /\ 8 \in {4, 8}
    OBVIOUS
  <2> QED
    BY <1>2, <2>1, <2>2, Zenon DEF ToInt32, ToUInt8, ToUInt16, ToUInt32, ToUInt64
<1> QED
  BY <1>1, <1>2

LEMMA FloatIsInt ==
  ASSUME NEW v, IsTyped(v)
  PROVE  ToFloat(v).value \in Int /\ ToDouble(v).value \in Int
<1> SUFFICES ASSUME NEW n \in {4, 8} PROVE ToFloating(n, v).value \in Int
  BY 4 \in {4, 8}, 8 \in {4, 8}, Zenon DEF ToFloat, ToDouble
<1>0. \A k \in {1, 2, 4, 8} : Power[k] \in Nat \ {0}
  BY PowerIsDefined
<1>1. \A h \in Int : NearestFloat(n, h) \in Int
  <2>1. Power[n] \div 2 \in Int
    BY <1>0
  <2> QED
    BY <2>1 DEF NearestFloat
<1>2. \A h : Read(TRUE, h).value = h /\ Read(FALSE, h).value = h
  BY DEF Read
<1>3. CASE v[1] = "BOOLEAN"
  <2>1. ToFloating(n, v) = Read(TRUE, IF v[2] THEN 2 ELSE 0)
    BY <1>3, KindOfType, Zenon DEF ToFloating
  <2>2. (IF v[2] THEN 2 ELSE 0) \in Int
    OBVIOUS
  <2>3. ToFloating(n, v).value = IF v[2] THEN 2 ELSE 0
    BY <1>2, <2>1, Zenon
  <2> QED
    BY <2>2, <2>3, Zenon
<1>4. CASE v[1] \in Integral
  <2>1. ToFloating(n, v) = Read(TRUE, NearestFloat(n, 2 * v[2]))
    BY <1>4, KindOfType, Zenon DEF ToFloating
  <2>2. ToFloating(n, v).value = NearestFloat(n, 2 * v[2])
    BY <1>2, <2>1, Zenon
  <2>3. 2 * v[2] \in Int
    BY <1>0, <1>4 DEF IsTyped, Integral
  <2> QED
    BY <1>1, <2>2, <2>3, Zenon
<1>5. CASE v[1] \in Floating
  <2>1. ToFloating(n, v) = Read(TRUE, NearestFloat(n, v[2]))
    BY <1>5, KindOfType, Zenon DEF ToFloating
  <2>2. ToFloating(n, v).value = NearestFloat(n, v[2])
    BY <1>2, <2>1, Zenon
  <2>3. v[2] \in Int
    BY <1>5 DEF IsTyped, Floating
  <2> QED
    BY <1>1, <2>2, <2>3, Zenon
<1>6. CASE v[1] = "STRING"
  <2>1. CASE IsNumeral(v[2])
    <3> DEFINE h == IF v[2][1] = IntMark THEN 2 * v[2][2] ELSE v[2][2]
    <3>1. ToFloating(n, v) = Read(TRUE, NearestFloat(n, h))
      BY <1>6, <2>1, KindOfType, Zenon DEF ToFloating
    <3>2. v[2][2] \in Int
      BY <1>6, <2>1 DEF IsTyped, IsNumeral
    <3>3. h \in Int
      BY <3>2
    <3>4. ToFloating(n, v).value = NearestFloat(n, h)
      BY <1>2, <3>1, Zenon
    <3> QED
      BY <1>1, <3>3, <3>4, Zenon
  <2>2. CASE ~ IsNumeral(v[2])
    <3>1. ToFloating(n, v) = Read(FALSE, 0)
      BY <1>6, <2>2, KindOfType, Zenon DEF ToFloating
    <3>2. ToFloating(n, v).value = 0
      BY <1>2, <3>1, Zenon
    <3> QED
      BY <3>2
  <2> QED
    BY <2>1, <2>2
<1>7. CASE v[1] = "BLOB"
  <2>1. ToFloating(n, v) = ReadSigned(n, v[2])
    BY <1>7, KindOfType, Zenon DEF ToFloating
  <2>2. v[2] \in Seq(Int) /\ n \in {1, 2, 4, 8}
    BY <1>7 DEF IsTyped
  <2> QED
    BY <2>1, <2>2, NumberIsInt
<1> QED
  BY <1>3, <1>4, <1>5, <1>6, <1>7 DEF IsTyped, Integral, Floating

(* A text with its length.                                                 *)
LEMMA TextIsData ==
  ASSUME NEW s \in Seq(Int), Len(s) <= LongestText
  PROVE  IsData(DataFromString(s))
<1> DEFINE bytes == BytesOf(2, Len(s))
<1>0. Digits \subseteq Int /\ Len(s) \in Int
  BY ByteSizeAssumption DEF Digits
<1>1. bytes \in Seq(Digits) /\ Len(bytes) = 2
  BY <1>0, 2 \in Nat, BytesOfIsSeq
<1>2. bytes \in Seq(Int)
  BY <1>0, <1>1, SeqMonotonic
<1>3. DataFromString(s) = bytes \o s
  BY DEF DataFromString
<1> HIDE DEF bytes
<1>4. bytes \o s \in Seq(Int) /\ Len(bytes \o s) = 2 + Len(s)
  <2>1. bytes \o s \in Seq(Int) /\ Len(bytes \o s) = Len(bytes) + Len(s)
    BY <1>2, ConcatProperties
  <2> QED
    BY <1>1, <2>1
<1>5. LongestText \in Nat
  BY SMT DEF LongestText, MaxUint16
<1>6. bytes \o s # << >>
  BY <1>4
<1>7. Len(bytes \o s) <= LongestText + 2
  BY <1>4, <1>5
<1> QED
  BY <1>3, <1>4, <1>6, <1>7, Zenon DEF IsData

LEMMA PrintedIsText ==
  ASSUME NEW v, IsSetValue(v)
  PROVE  ToString(v).value \in Seq(Int) /\ Len(ToString(v).value) <= LongestText
<1>0. \A k \in {1, 2, 4, 8} : Power[k] \in Nat \ {0}
  BY PowerIsDefined
<1>1. IsTyped(v) /\ (v[1] \in {"STRING", "BLOB"} => Len(v[2]) <= LongestText)
  BY Zenon DEF IsSetValue
<1>2. 2 <= LongestText /\ LongestText \in Nat
  BY SMT DEF LongestText, MaxUint16
<1>3. \A text : Read(TRUE, text).value = text
  BY DEF Read
<1>4. CASE v[1] = "BOOLEAN"
  <2>1. ToString(v) = Read(TRUE, IF v[2] THEN TrueText ELSE FalseText)
    BY <1>4, KindOfType, Zenon DEF ToString
  <2>2. /\ TrueText \in Seq(Int) /\ Len(TrueText) = 1
        /\ FalseText \in Seq(Int) /\ Len(FalseText) = 1
    BY DEF TrueText, FalseText
  <2>3. 1 <= LongestText
    BY <1>2
  <2> QED
    BY <1>3, <2>1, <2>2, <2>3, Zenon
<1>5. \A h \in Int : /\ Numeral(h) \in Seq(Int) /\ Len(Numeral(h)) = 2
                    /\ Decimal(h) \in Seq(Int) /\ Len(Decimal(h)) = 2
  BY DEF Numeral, Decimal, IntMark, DecMark
<1>6. CASE v[1] \in Integral
  <2>1. ToString(v) = Read(TRUE, Numeral(v[2]))
    BY <1>6, KindOfType, Zenon DEF ToString
  <2>2. v[2] \in Int
    BY <1>0, <1>1, <1>6 DEF IsTyped, Integral
  <2>3. ToString(v).value = Numeral(v[2])
    BY <1>3, <2>1, Zenon
  <2> QED
    BY <1>2, <1>5, <2>2, <2>3, Zenon
<1>7. CASE v[1] \in Floating
  <2>1. ToString(v) = Read(TRUE, Decimal(v[2]))
    BY <1>7, KindOfType, Zenon DEF ToString
  <2>2. v[2] \in Int
    BY <1>1, <1>7 DEF IsTyped, Floating
  <2>3. ToString(v).value = Decimal(v[2])
    BY <1>3, <2>1, Zenon
  <2> QED
    BY <1>2, <1>5, <2>2, <2>3, Zenon
<1>8. CASE v[1] = "STRING"
  <2>1. ToString(v) = Read(TRUE, v[2])
    BY <1>8, KindOfType, Zenon DEF ToString
  <2>2. v[2] \in Seq(Int) /\ Len(v[2]) <= LongestText
    BY <1>1, <1>8 DEF IsTyped
  <2>3. ToString(v).value = v[2]
    BY <1>3, <2>1, Zenon
  <2> QED
    BY <2>2, <2>3, Zenon
<1>9. CASE v[1] = "BLOB"
  <2>1. ToString(v) = DataToString(v[2])
    BY <1>9, KindOfType, Zenon DEF ToString
  <2>2. v[2] \in Seq(Int) /\ Len(v[2]) <= LongestText /\ Len(v[2]) >= 2
    BY <1>1, <1>9 DEF IsTyped
  <2>3. DataToString(v[2]) = Read(TRUE, SubSeq(v[2], 3, Len(v[2])))
    BY <2>2, Zenon DEF DataToString
  <2>4. /\ SubSeq(v[2], 3, Len(v[2])) \in Seq(Int)
        /\ Len(SubSeq(v[2], 3, Len(v[2]))) <= LongestText
    BY <1>2, <2>2
  <2> QED
    BY <1>3, <2>1, <2>3, <2>4, Zenon
<1> QED
  BY <1>1, <1>4, <1>6, <1>7, <1>8, <1>9 DEF IsTyped, Integral, Floating

(* Whatever is set to whatever type, some bytes are sent: a number or a    *)
(* text that cannot be converted is sent as zero or as an empty one.       *)
LEMMA ParamsAreData ==
  ASSUME NEW v, IsSetValue(v), NEW type \in DataTypes
  PROVE  IsData(ToParamData(v, type).value)
<1>0. IsTyped(v) /\ \A ok, value : Read(ok, value).value = value
  BY DEF IsSetValue, Read
<1>1. \A n \in {1, 2, 4, 8}, x \in Int : IsData(BytesOf(n, x))
  BY BytesAreData
<1>2. 1 \in {1, 2, 4, 8} /\ 2 \in {1, 2, 4, 8} /\ 4 \in {1, 2, 4, 8} /\ 8 \in {1, 2, 4, 8}
  OBVIOUS
<1>3. \A b : IsData(DataFromBool(b))
  <2> SUFFICES ASSUME NEW b PROVE IsData(DataFromBool(b))
    OBVIOUS
  <2>1. DataFromBool(b) = << 1 >> \/ DataFromBool(b) = << 0 >>
    BY DEF DataFromBool
  <2>2. 1 <= LongestText + 2
    BY SMT DEF LongestText, MaxUint16
  <2>3. \A x \in Int : << x >> \in Seq(Int) /\ << x >> # << >> /\ Len(<< x >>) = 1
    OBVIOUS
  <2>4. \A x \in Int : IsData(<< x >>)
    BY <2>2, <2>3, Zenon DEF IsData
  <2> QED
    BY <2>1, <2>4, 0 \in Int, 1 \in Int, Zenon
<1>4. CASE type = "BOOLEAN"
  <2>1. ToParamData(v, type).value = DataFromBool(ToBool(v).value)
    BY <1>0, <1>4, Zenon DEF ToParamData
  <2> QED
    BY <1>3, <2>1, Zenon
<1>5. CASE type = "INT32"
  <2>1. ToParamData(v, type).value = DataFromInt32(ToInt32(v).value)
    BY <1>0, <1>5, Zenon DEF ToParamData
  <2>2. ToInt32(v).value \in Int
    BY <1>0, ConvertedIsInt
  <2> QED
    BY <1>1, <1>2, <2>1, <2>2, Zenon DEF DataFromInt32
<1>6. CASE type = "UINT8"
  <2>1. ToParamData(v, type).value = DataFromUint8(ToUInt8(v).value)
    BY <1>0, <1>6, Zenon DEF ToParamData
  <2>2. ToUInt8(v).value \in Int
    BY <1>0, ConvertedIsInt
  <2> QED
    BY <1>1, <1>2, <2>1, <2>2, Zenon DEF DataFromUint8
<1>7. CASE type = "UINT16"
  <2>1. ToParamData(v, type).value = DataFromUint16(ToUInt16(v).value)
    BY <1>0, <1>7, Zenon DEF ToParamData
  <2>2. ToUInt16(v).value \in Int
    BY <1>0, ConvertedIsInt
  <2> QED
    BY <1>1, <1>2, <2>1, <2>2, Zenon DEF DataFromUint16
<1>8. CASE type = "UINT32"
  <2>1. ToParamData(v, type).value = DataFromUint32(ToUInt32(v).value)
    BY <1>0, <1>8, Zenon DEF ToParamData
  <2>2. ToUInt32(v).value \in Int
    BY <1>0, ConvertedIsInt
  <2> QED
    BY <1>1, <1>2, <2>1, <2>2, Zenon DEF DataFromUint32
<1>9. CASE type = "UINT64"
  <2>1. ToParamData(v, type).value = DataFromUint64(ToUInt64(v).value)
    BY <1>0, <1>9, Zenon DEF ToParamData
  <2>2. ToUInt64(v).value \in Int
    BY <1>0, ConvertedIsInt
  <2> QED
    BY <1>1, <1>2, <2>1, <2>2, Zenon DEF DataFromUint64
<1>10. CASE type = "FLOAT32"
  <2>1. ToParamData(v, type).value = DataFromFloat(ToFloat(v).value)
    BY <1>0, <1>10, Zenon DEF ToParamData
  <2>2. ToFloat(v).value \in Int
    BY <1>0, FloatIsInt
  <2> QED
    BY <1>1, <1>2, <2>1, <2>2, Zenon DEF DataFromFloat
<1>11. CASE type = "FLOAT64"
  <2>1. ToParamData(v, type).value = DataFromDouble(ToDouble(v).value)
    BY <1>0, <1>11, Zenon DEF ToParamData
  <2>2. ToDouble(v).value \in Int
    BY <1>0, FloatIsInt
  <2> QED
    BY <1>1, <1>2, <2>1, <2>2, Zenon DEF DataFromDouble
<1>12. CASE type = "STRING"
  <2>1. ToParamData(v, type).value = DataFromString(ToString(v).value)
    BY <1>0, <1>12, Zenon DEF ToParamData
  <2>2. ToString(v).value \in Seq(Int) /\ Len(ToString(v).value) <= LongestText
    BY PrintedIsText
  <2> QED
    BY <2>1, <2>2, TextIsData
<1>13. CASE type \in {"BLOB", "DB_POSITION"}
  <2>1. ToParamData(v, type) = ToByteVector(v)
    BY <1>13 DEF ToParamData
  <2>2. CASE v[1] = "BOOLEAN"
    <3>1. ToByteVector(v).value = DataFromBool(v[2])
      BY <1>0, <2>2, Zenon DEF ToByteVector
    <3> QED
      BY <1>3, <2>1, <3>1, Zenon
  <2>3. CASE v[1] = "INT32"
    <3>1. ToByteVector(v).value = DataFromInt32(v[2])
      BY <1>0, <2>3, Zenon DEF ToByteVector
    <3>2. v[2] \in Int
      BY <1>0, <2>3, PowerIsDefined DEF IsTyped
    <3> QED
      BY <1>1, <1>2, <2>1, <3>1, <3>2, Zenon DEF DataFromInt32
  <2>4. CASE v[1] = "UINT8"
    <3>1. ToByteVector(v).value = DataFromUint8(v[2])
      BY <1>0, <2>4, Zenon DEF ToByteVector
    <3>2. v[2] \in Int
      BY <1>0, <2>4, PowerIsDefined DEF IsTyped
    <3> QED
      BY <1>1, <1>2, <2>1, <3>1, <3>2, Zenon DEF DataFromUint8
  <2>5. CASE v[1] = "UINT16"
    <3>1. ToByteVector(v).value = DataFromUint16(v[2])
      BY <1>0, <2>5, Zenon DEF ToByteVector
    <3>2. v[2] \in Int
      BY <1>0, <2>5, PowerIsDefined DEF IsTyped
    <3> QED
      BY <1>1, <1>2, <2>1, <3>1, <3>2, Zenon DEF DataFromUint16
  <2>6. CASE v[1] = "UINT32"
    <3>1. ToByteVector(v).value = DataFromUint32(v[2])
      BY <1>0, <2>6, Zenon DEF ToByteVector
    <3>2. v[2] \in Int
      BY <1>0, <2>6, PowerIsDefined DEF IsTyped
    <3> QED
      BY <1>1, <1>2, <2>1, <3>1, <3>2, Zenon DEF DataFromUint32
  <2>7. CASE v[1] = "UINT64"
    <3>1. ToByteVector(v).value = DataFromUint64(v[2])
      BY <1>0, <2>7, Zenon DEF ToByteVector
    <3>2. v[2] \in Int
      BY <1>0, <2>7, PowerIsDefined DEF IsTyped
    <3> QED
      BY <1>1, <1>2, <2>1, <3>1, <3>2, Zenon DEF DataFromUint64
  <2>8. CASE v[1] = "FLOAT32"
    <3>1. ToByteVector(v).value = DataFromFloat(v[2])
      BY <1>0, <2>8, Zenon DEF ToByteVector
    <3>2. v[2] \in Int
      BY <1>0, <2>8, PowerIsDefined DEF IsTyped
    <3> QED
      BY <1>1, <1>2, <2>1, <3>1, <3>2, Zenon DEF DataFromFloat
  <2>9. CASE v[1] = "FLOAT64"
    <3>1. ToByteVector(v).value = DataFromDouble(v[2])
      BY <1>0, <2>9, Zenon DEF ToByteVector
    <3>2. v[2] \in Int
      BY <1>0, <2>9, PowerIsDefined DEF IsTyped
    <3> QED
      BY <1>1, <1>2, <2>1, <3>1, <3>2, Zenon DEF DataFromDouble
  <2>10. CASE v[1] = "STRING"
    <3>1. ToByteVector(v).value = DataFromString(v[2])
      BY <1>0, <2>10, Zenon DEF ToByteVector
    <3>2. v[2] \in Seq(Int) /\ Len(v[2]) <= LongestText
      BY <1>0, <2>10 DEF IsTyped, IsSetValue
    <3> QED
      BY <2>1, <3>1, <3>2, TextIsData
  <2>11. CASE v[1] = "BLOB"
    <3>1. ToByteVector(v).value = v[2]
      BY <1>0, <2>11, Zenon DEF ToByteVector
    <3>2. v[2] \in Seq(Int) /\ Len(v[2]) >= 2
      BY <1>0, <2>11 DEF IsTyped
    <3>3. Len(v[2]) <= LongestText /\ LongestText \in Nat
      <4>1. Len(v[2]) <= LongestText
        BY <2>11 DEF IsSetValue
      <4> QED
        BY <4>1, SMT DEF LongestText, MaxUint16
    <3>4. v[2] # << >> /\ Len(v[2]) <= LongestText + 2
      BY <3>2, <3>3
    <3> QED
      BY <2>1, <3>1, <3>2, <3>4, Zenon DEF IsData
  <2>12. v[1] \in Integral \cup Floating \cup {"BOOLEAN", "STRING", "BLOB"}
    BY <1>0 DEF IsTyped, Integral, Floating
  <2> QED
    BY <2>12, <2>2, <2>3, <2>4, <2>5, <2>6, <2>7, <2>8, <2>9, <2>10, <2>11, Zenon
       DEF Integral, Floating
<1> QED
  BY <1>4, <1>5, <1>6, <1>7, <1>8, <1>9, <1>10, <1>11, <1>12, <1>13
     DEF DataTypes, Integral, Floating

-----------------------------------------------------------------------------
(* The frames of a session.                                                *)

(* What the controller sends: a command without parameters, or with some.  *)
IsRequest(msg) ==
  \E handle \in Long \ {0}, ono \in Long \ {0}, defLevel \in Word \ {0},
     index \in Word \ {0}, paramCount \in Octet, data \in Seq(Int) :
    /\ IF paramCount = 0 THEN data = << >> ELSE IsData(data)
    /\ msg = CommandMessage(handle, ono, defLevel, index, paramCount, data)

Requests == {frame \in Seq(Int) : \E msg : IsRequest(msg) /\ frame = GetSerializedData(msg)}
Frames == {frame \in Seq(Int) : \E msg : IsSent(msg) /\ frame = GetSerializedData(msg)}

(* Data, and an answer of three values, fit in a message.                  *)
LEMMA DataFits ==
  ASSUME NEW data \in Seq(Int), Len(data) <= 3 * (LongestText + 2)
  PROVE  Len(data) + 19 \in Long /\ Len(data) + 26 \in Long /\ Len(data) + 37 \in Long
<1> DEFINE n == Len(data)
<1>1. n \in Nat
  OBVIOUS
<1> HIDE DEF n
<1>2. n <= 3 * (LongestText + 2)
  BY DEF n
<1>3. n + 19 \in Long /\ n + 26 \in Long /\ n + 37 \in Long
  <2> DEFINE most == 3 * (LongestText + 2)
             last == ((OctetSize * OctetSize) * (OctetSize * OctetSize)) - 1
  <2>1. most \in Nat /\ last \in Nat /\ most + 37 <= last
    BY SMT DEF OctetSize, LongestText, MaxUint16
  <2>2. n <= most /\ Long = 0 .. last
    BY <1>2 DEF Long
  <2> HIDE DEF most, last
  <2> QED
    BY <1>1, <2>1, <2>2, SMT
<1> QED
  BY <1>3 DEF n

LEMMA OneDataFits ==
  ASSUME NEW data, IsData(data) \/ data = << >>
  PROVE  data \in Seq(Int) /\ Len(data) <= 3 * (LongestText + 2)
<1>1. data \in Seq(Int)
  <2>1. << >> \in Seq(Int)
    OBVIOUS
  <2> QED
    BY <2>1, Zenon DEF IsData
<1>2. Len(data) <= LongestText + 2
  <2>1. CASE IsData(data)
    BY <2>1, Zenon DEF IsData
  <2>2. CASE data = << >>
    <3>1. Len(data) = 0
      BY <2>2
    <3>2. 0 <= LongestText + 2
      BY SMT DEF LongestText, MaxUint16
    <3> QED
      BY <3>1, <3>2, Zenon
  <2> QED
    BY <2>1, <2>2
<1>3. LongestText \in Nat
  BY SMT DEF LongestText, MaxUint16
<1>4. Len(data) \in Nat
  BY <1>1
<1> QED
  BY <1>1, <1>2, <1>3, <1>4

(* A request is such a message, and the receiver has it as it was sent.    *)
LEMMA RequestIsSent ==
  ASSUME NEW msg, IsRequest(msg)
  PROVE  /\ IsSent(msg) /\ Received(msg) = msg
         /\ msg.handle \in Long \ {0} /\ msg.paramCount \in Octet
         /\ msg.ono \in Long \ {0}
         /\ msg.paramCount = 0 \/ IsData(msg.data)
<1>1. PICK handle \in Long \ {0}, ono \in Long \ {0}, defLevel \in Word \ {0},
           index \in Word \ {0}, paramCount \in Octet, data \in Seq(Int) :
        /\ IF paramCount = 0 THEN data = << >> ELSE IsData(data)
        /\ msg = CommandMessage(handle, ono, defLevel, index, paramCount, data)
  BY Zenon DEF IsRequest
<1>2. Len(data) + 26 \in Long
  BY <1>1, DataFits, OneDataFits, Zenon
<1>3. paramCount = 0 => data = << >>
  BY <1>1
<1>4. IsSent(msg)
  BY <1>1, <1>2, <1>3, Zenon DEF IsSent
<1>5. /\ msg.type = 1 /\ msg.handle = handle /\ msg.paramCount = paramCount /\ msg.data = data
      /\ msg.ono = ono
  BY <1>1 DEF CommandMessage, CommandResponseRequired
<1>6. Received(msg) = msg
  BY <1>5 DEF Received, Notification, KeepAlive
<1> QED
  BY <1>1, <1>4, <1>5, <1>6, Zenon

LEMMA SentIsFrame ==
  ASSUME NEW msg, IsSent(msg)
  PROVE  GetSerializedData(msg) \in Frames
<1>1. GetSerializedData(msg) \in Seq(Int)
  BY SentArrives, Zenon DEF Arrives
<1> QED
  BY <1>1, Zenon DEF Frames

LEMMA RequestIsFrame ==
  ASSUME NEW msg, IsRequest(msg)
  PROVE  GetSerializedData(msg) \in Requests
<1>1. GetSerializedData(msg) \in Seq(Int)
  BY RequestIsSent, SentArrives, Zenon DEF Arrives
<1> QED
  BY <1>1, Zenon DEF Requests

LEMMA FramesAreSequences == Frames \in SUBSET Seq(Int) /\ Requests \in SUBSET Seq(Int)
BY Zenon DEF Frames, Requests

LEMMA RequestsAreFrames == Requests \subseteq Frames
BY RequestIsSent, Zenon DEF Requests, Frames

(* A stream starts with a whole message, and what follows it is a stream.  *)
LEMMA FrameTaken ==
  ASSUME NEW stream \in Streams(Frames), stream # << >>
  PROVE  AfterFirstFrame(stream) \in Streams(Frames) /\ StreamIsFramed(stream)
<1>1. PICK frame \in Frames, rest \in Streams(Frames) : stream = frame \o rest
  BY FirstOfStream, FramesAreSequences
<1>2. PICK msg : IsSent(msg) /\ frame = GetSerializedData(msg)
  BY Zenon DEF Frames
<1>3. rest \in Seq(Int)
  BY Zenon DEF Streams
<1>4. /\ Ocp1HeaderSize <= Len(stream) /\ MessageSize(stream) < Len(stream)
      /\ AfterFirstFrame(stream) = rest
      /\ UnmarshalOcp1Message(FirstFrame(stream)) # NoMessage
  BY <1>1, <1>2, <1>3, MessageTravels
<1> QED
  BY <1>4, Zenon DEF StreamIsFramed

LEMMA RequestTaken ==
  ASSUME NEW stream \in Streams(Requests), stream # << >>
  PROVE  /\ AfterFirstFrame(stream) \in Streams(Requests) /\ StreamIsFramed(stream)
         /\ IsRequest(UnmarshalOcp1Message(FirstFrame(stream)))
<1>1. PICK frame \in Requests, rest \in Streams(Requests) : stream = frame \o rest
  BY FirstOfStream, FramesAreSequences
<1>2. PICK msg : IsRequest(msg) /\ frame = GetSerializedData(msg)
  BY Zenon DEF Requests
<1>3. rest \in Seq(Int)
  BY Zenon DEF Streams
<1>4. IsSent(msg) /\ Received(msg) = msg
  BY <1>2, RequestIsSent
<1>5. /\ Ocp1HeaderSize <= Len(stream) /\ MessageSize(stream) < Len(stream)
      /\ AfterFirstFrame(stream) = rest
      /\ UnmarshalOcp1Message(FirstFrame(stream)) = Received(msg)
      /\ Received(msg) # NoMessage
  BY <1>1, <1>2, <1>3, <1>4, MessageTravels
<1>6. UnmarshalOcp1Message(FirstFrame(stream)) = msg
  BY <1>4, <1>5, Zenon
<1> QED
  BY <1>2, <1>5, <1>6, Zenon DEF StreamIsFramed

(* The answers of the device are messages.                                 *)
LEMMA ResponseIsFrame ==
  ASSUME NEW msg, msg.handle \in Long \ {0}, NEW status \in Octet, NEW paramCount \in Octet,
         NEW data \in Seq(Int), Len(data) <= 3 * (LongestText + 2)
  PROVE  Respond(msg, status, paramCount, data) \in Frames
<1>1. Len(data) + 19 \in Long
  BY DataFits
<1>2. IsSent(ResponseMessage(msg.handle, status, paramCount, data))
  BY <1>1, Zenon DEF IsSent
<1> QED
  BY <1>2, SentIsFrame, Zenon DEF Respond

-----------------------------------------------------------------------------
(* The requests of a controller.                                           *)

(* What a set is sent through: a property, or the scene agent, which is    *)
(* only ever set.                                                          *)
IsTarget(def) ==
  IsNumber32(def.ono) /\ def.level \in 1 .. MaxUint16 /\ def.type \in DataTypes

LEMMA PropertyIsTarget ==
  ASSUME NEW def, IsProperty(def)
  PROVE  IsTarget(def)
<1>1. IsNumber32(def.ono)
  BY Zenon DEF IsProperty, IsNumber32
<1>2. def.level \in 1 .. MaxUint16 /\ def.type \in DataTypes
  BY Zenon DEF IsProperty
<1> QED
  BY <1>1, <1>2, Zenon DEF IsTarget

LEMMA Within32 ==
  ASSUME NEW m \in Nat \ {0}, NEW n \in Nat, n \div m <= m - 1
  PROVE  n <= (m * m) - 1
<1> DEFINE q == n \div m
           r == n % m
<1>1. q \in Int /\ r \in 0 .. m - 1 /\ n = m * q + r
  BY DivMod
<1>2. q <= m - 1
  OBVIOUS
<1> HIDE DEF q, r
<1>3. m * q <= m * (m - 1)
  BY <1>1, <1>2
<1>4. m * (m - 1) = (m * m) - m
  OBVIOUS
<1> QED
  BY <1>1, <1>3, <1>4

(* Its fields are those of a message.                                      *)
LEMMA NumbersFit ==
  /\ \A ono : IsNumber32(ono) => ono \in Long \ {0}
  /\ \A n \in 1 .. MaxUint16 : n \in Word \ {0}
<1> DEFINE m == MaxUint16 + 1
<1>1. m = OctetSize * OctetSize /\ m \in Nat \ {0} /\ m - 1 = MaxUint16
  BY SMT DEF MaxUint16, OctetSize
<1>2. Word = 0 .. m - 1 /\ Long = 0 .. (m * m) - 1
  BY <1>1, Zenon DEF Word, Long
<1>3. ASSUME NEW ono, IsNumber32(ono) PROVE ono \in Nat \ {0} /\ ono \div m <= m - 1
  BY <1>1, <1>3, Zenon DEF IsNumber32
<1>4. ASSUME NEW n \in 1 .. MaxUint16 PROVE n \in 1 .. m - 1
  BY <1>1, <1>4, Zenon
<1> HIDE DEF m
<1>5. ASSUME NEW ono, IsNumber32(ono) PROVE ono \in Long \ {0}
  <2>1. ono \in 0 .. (m * m) - 1
    BY <1>1, <1>3, <1>5, Within32
  <2> QED
    BY <1>2, <1>3, <1>5, <2>1, Zenon
<1>6. ASSUME NEW n \in 1 .. MaxUint16 PROVE n \in Word \ {0}
  BY <1>1, <1>2, <1>4, <1>6
<1> QED
  BY <1>5, <1>6, Zenon

LEMMA SmallNumbers ==
  /\ {3, 4, 1, 2} \subseteq Word \ {0} /\ 4 \in Long \ {0} /\ {0, 1, 4, 5} \subseteq Octet
<1>1. 3 \in Word /\ 4 \in Word /\ 1 \in Word /\ 2 \in Word
  BY SMT DEF Word, OctetSize
<1>2. 4 \in Long
  <2>1. 4 \div (MaxUint16 + 1) = 0 /\ 0 <= MaxUint16
    BY SMT DEF MaxUint16
  <2>2. IsNumber32(4)
    BY <2>1 DEF IsNumber32
  <2> QED
    BY <2>2, NumbersFit
<1>3. 0 \in Octet /\ 1 \in Octet /\ 4 \in Octet /\ 5 \in Octet
  BY SMT DEF Octet, OctetSize
<1> QED
  BY <1>1, <1>2, <1>3

LEMMA JoinedLength ==
  ASSUME NEW s \in Seq(Int), NEW t \in Seq(Int)
  PROVE  s \o t \in Seq(Int) /\ Len(s \o t) = Len(s) + Len(t)
BY FieldAdded, Zenon

(* The parameters of a subscription.                                       *)
LEMMA SubscriptionIsData ==
  ASSUME NEW ono \in Int
  PROVE  IsData(Octets!DataFromOnoForSubscription(ono))
<1> DEFINE a == U32(ono)
           b == << 0, 1, 0, 1 >>
           c == << 0, 3, 0, 1 >>
           d == << 0, 0, 1, 0, 4, 0, 0, 0, 0 >>
<1>1. a \in Seq(Int) /\ Len(a) = 4
  BY FieldsOfNumbers
<1>2. b \in Seq(Int) /\ Len(b) = 4 /\ c \in Seq(Int) /\ Len(c) = 4 /\ d \in Seq(Int) /\ Len(d) = 9
  OBVIOUS
<1>3. Octets!DataFromOnoForSubscription(ono) = (((a \o b) \o a) \o c) \o d
  BY Zenon DEF Octets!DataFromOnoForSubscription, U32, Octets!DataFromUint32
<1> HIDE DEF a, b, c, d
<1> DEFINE ab == a \o b
           aba == ab \o a
           abac == aba \o c
           all == abac \o d
<1>4. all \in Seq(Int) /\ Len(all) = 25
  <2>1. ab \in Seq(Int) /\ Len(ab) = 4 + 4
    BY <1>1, <1>2, JoinedLength, Zenon
  <2> HIDE DEF ab
  <2>2. aba \in Seq(Int) /\ Len(aba) = (4 + 4) + 4
    BY <1>1, <2>1, JoinedLength, Zenon
  <2> HIDE DEF aba
  <2>3. abac \in Seq(Int) /\ Len(abac) = ((4 + 4) + 4) + 4
    BY <1>2, <2>2, JoinedLength, Zenon
  <2> HIDE DEF abac
  <2>4. all \in Seq(Int) /\ Len(all) = (((4 + 4) + 4) + 4) + 9
    BY <1>2, <2>3, JoinedLength, Zenon
  <2> HIDE DEF all
  <2> QED
    BY <2>4
<1>5. 25 <= LongestText + 2
  BY SMT DEF LongestText, MaxUint16
<1>6. all # << >>
  <2> HIDE DEF ab, aba, abac, all
  <2>1. Len(all) = 25
    BY <1>4, Zenon
  <2>2. Len(<< >>) # 25
    OBVIOUS
  <2> QED
    BY <2>1, <2>2, Zenon
<1> QED
  BY <1>3, <1>4, <1>5, <1>6, Zenon DEF IsData

(* The commands.                                                           *)
LEMMA CommandsAreRequests ==
  ASSUME NEW def, IsTarget(def), NEW handle \in Long \ {0}
  PROVE  /\ IsRequest(AddSubscriptionCommand(def, handle))
         /\ def.getter \in 1 .. MaxUint16 => IsRequest(GetValueCommand(def, handle))
         /\ \A data : IsData(data) => IsRequest(SetValueCommand(def, handle, data))
<1>1. def.ono \in Long \ {0} /\ def.level \in Word \ {0}
  BY NumbersFit, Zenon DEF IsTarget
<1>2. IsRequest(AddSubscriptionCommand(def, handle))
  <2> DEFINE data == Octets!DataFromOnoForSubscription(def.ono)
  <2>1. def.ono \in Int
    BY DEF IsTarget, IsNumber32
  <2>2. IsData(data) /\ data \in Seq(Int)
    BY <2>1, SubscriptionIsData, Zenon DEF IsData
  <2>3. AddSubscriptionCommand(def, handle) = CommandMessage(handle, 4, 3, 1, 5, data)
    BY DEF AddSubscriptionCommand, SubscriptionManager
  <2> HIDE DEF data
  <2>4. 4 \in Long \ {0} /\ 3 \in Word \ {0} /\ 1 \in Word \ {0} /\ 5 \in Octet /\ ~ (5 = 0)
    BY SmallNumbers
  <2> QED
    BY <2>2, <2>3, <2>4, Zenon DEF IsRequest
<1>3. ASSUME def.getter \in 1 .. MaxUint16 PROVE IsRequest(GetValueCommand(def, handle))
  <2>1. def.getter \in Word \ {0}
    BY <1>3, NumbersFit, Zenon
  <2>2. << >> \in Seq(Int)
    OBVIOUS
  <2>3. 0 \in Octet
    BY SmallNumbers
  <2> QED
    BY <1>1, <2>1, <2>2, <2>3, Zenon DEF IsRequest, GetValueCommand
<1>4. ASSUME NEW data, IsData(data) PROVE IsRequest(SetValueCommand(def, handle, data))
  <2>1. data \in Seq(Int)
    BY <1>4, Zenon DEF IsData
  <2>2. 2 \in Word \ {0} /\ 1 \in Octet /\ ~ (1 = 0)
    BY SmallNumbers
  <2> QED
    BY <1>1, <1>4, <2>1, <2>2, Zenon DEF IsRequest, SetValueCommand
<1> QED
  BY <1>2, <1>3, <1>4, Zenon

(* What an object is set through.                                          *)
LEMMA RemoteIsTarget ==
  ASSUME NEW roi \in RemObjIdents, NEW addr \in Int \X Int, NEW stack,
         GetObjectDefinition(roi, addr, TRUE, stack) # NoDefinition
  PROVE  IsTarget(GetObjectDefinition(roi, addr, TRUE, stack))
<1> DEFINE first == addr[1]
           second == addr[2]
           def == GetObjectDefinition(roi, addr, TRUE, stack)
<1>0. first \in Int /\ second \in Int /\ 0 \in Int
  OBVIOUS
<1>1. ASSUME NEW name \in MapIdents, NEW r \in Int, NEW c \in Int
      PROVE  IsTarget(RemoteDefinition(name, r, c))
  <2>1. OcaName(name) \in ObjectNames
    BY NamesOfIdents
  <2> QED
    BY <2>1, OcaObjectIsProper, PropertyIsTarget, Zenon DEF RemoteDefinition
<1>2. ASSUME NEW c \in Int PROVE IsTarget(LegacySpeakerPosition(c))
  BY <1>0, LegacyIsObject, OcaObjectIsProper, PropertyIsTarget, Zenon
     DEF LegacySpeakerPosition, LegacyName
<1>3. IsTarget(SceneAgent)
  <2>1. /\ SceneAgent.ono = 10004 /\ SceneAgent.type = "UINT32" /\ SceneAgent.level = 4
    BY SMT DEF SceneAgent, Definition, DefLevel
  <2>2. 4 \in 1 .. MaxUint16
    BY SMT DEF MaxUint16
  <2>4. IsNumber32(SceneAgent.ono)
    BY <2>1, SMT DEF IsNumber32, MaxUint16
  <2>3. "UINT32" \in DataTypes
    BY DEF DataTypes, Integral
  <2>5. SceneAgent.level \in 1 .. MaxUint16 /\ SceneAgent.type \in DataTypes
    BY <2>1, <2>2, <2>3
  <2> QED
    BY <2>4, <2>5, Zenon DEF IsTarget
<1> DEFINE Known(d) == d # NoDefinition => IsTarget(d)
<1>4. Known(def)
  <2>1. "Positioning_SourcePosition" \in MapIdents
        /\ "CoordinateMapping_SourcePosition" \in MapIdents
    BY DEF MapIdents, InputObjects
  <2>2. /\ \A x \in DeviceObjects : x \in MapIdents
        /\ \A x \in AreaObjects : x \in MapIdents
        /\ \A x \in NodeObjects : x \in MapIdents
        /\ \A x \in InputObjects \cup OutputObjects \cup SpeakerObjects
                     \cup GroupObjects \cup ZoneObjects : x \in MapIdents
        /\ \A x \in RoutingObjects \cup {"CoordinateMapping_SourcePosition", "ReverbInput_Gain"} :
             x \in MapIdents
    BY Zenon DEF MapIdents
  <2> HIDE DEF first, second
  <2>3. \A name \in MapIdents : /\ Known(RemoteDefinition(name, 0, 0))
                                /\ Known(RemoteDefinition(name, first, 0))
                                /\ Known(RemoteDefinition(name, 0, first))
                                /\ Known(RemoteDefinition(name, first, second))
                                /\ Known(RemoteDefinition(name, second, first))
    BY <1>0, <1>1, Zenon
  <2>4. Known(LegacySpeakerPosition(first)) /\ Known(SceneAgent) /\ Known(NoDefinition)
    BY <1>0, <1>2, <1>3, Zenon
  <2> HIDE DEF Known
  <2> QED
    BY <2>1, <2>2, <2>3, <2>4, Zenon DEF GetObjectDefinition, first, second
<1> QED
  BY <1>4, Zenon

-----------------------------------------------------------------------------
(* The device.                                                             *)

(* Every object with a number is in a group.                               *)
LEMMA NumberedNames == DOMAIN ObjectNumber \subseteq ObjectNames
<1>1. \A name \in DOMAIN ObjectNumber : \E g \in DS100Groups : name \in DOMAIN g.objects
  BY GroupNames, SMTT(60) DEF ObjectNumber, DS100Groups
<1> QED
  BY <1>1, Zenon DEF ObjectNames

(* What the device has are properties that a setup may speak of, and what  *)
(* it holds of them, and may come to hold, are bytes.                      *)
IsHeld(def) ==
  /\ IsProperty(def)
  /\ IsData(InitialValue(def.type, def.level, def.index))
  /\ \A data \in Reports(def.type, def.level, def.index) : IsData(data)

LEMMA KindIsHeld ==
  ASSUME setup \in Setups, NEW def, IsProperty(def), NEW other \in Properties(setup),
         def.type = other.type, def.level = other.level, def.index = other.index
  PROVE  IsHeld(def)
BY DeviceAssumption, Zenon DEF IsHeld

LEMMA DeviceHolds ==
  ASSUME setup \in Setups, NEW ono \in Int, NEW def \in DeviceDefinitions(ono)
  PROVE  IsHeld(def)
<1>1. CASE setup.kind = "plain"
  <2>1. def \in Seqs!ToSet(setup.defs)
    BY <1>1, SMT DEF DeviceDefinitions, IsSoundscape
  <2>2. def \in Properties(setup)
    BY <1>1, <2>1 DEF Properties
  <2>3. IsProperty(def)
    BY <1>1, <2>1, SetupsAssumption, Zenon
  <2> QED
    BY <2>2, <2>3, KindIsHeld, Zenon
<1>2. CASE setup.kind = "amp"
  <2>1. PICK obj \in Seqs!ToSet(AmpObjects(setup.channels)) :
          def = AmpObjectDefinition(setup.ampType, obj[1], obj[2][1])
    BY <1>2, SMT DEF DeviceDefinitions, IsSoundscape
  <2> DEFINE q == obj[1]
             c == obj[2][1]
  <2>2. q \in AmpQuantities /\ c \in Int
    <3>1. obj \in AmpQuantities \X (Int \X Int)
      <4>1. AmpObjects(setup.channels) \in Seq(AmpQuantities \X (Int \X Int))
        BY <1>2, SetupIsProper, AmpObjectsAreQuantities
      <4> QED
        BY <2>1, <4>1 DEF Seqs!ToSet
    <3> QED
      BY <3>1
  <2>3. setup.ampType \in AmpTypes
    BY <1>2, SetupIsProper
  <2>4. IsProperty(def)
    BY <2>1, <2>2, <2>3, AmpObjectIsProper, Zenon
  <2> DEFINE other == AmpObjectDefinition(setup.ampType, q, 0)
  <2>5. other \in Properties(setup)
    BY <1>2, <2>2 DEF Properties
  <2>6. def = AmpObjectDefinition(setup.ampType, q, c)
    BY <2>1, Zenon
  <2> HIDE DEF q, c
  <2>7. def.type = other.type /\ def.level = other.level /\ def.index = other.index
    BY <2>2, <2>6, 0 \in Int, AmpKinds, Zenon
  <2> HIDE DEF other
  <2> QED
    BY <2>4, <2>5, <2>7, KindIsHeld, Zenon
<1>3. CASE IsSoundscape
  <2>1. PICK name \in DS100Names(ono) :
          def = OcaObject(name, (ono \div 1048576) % 256, (ono \div 4096) % 256)
    BY <1>3, SMT DEF DeviceDefinitions, IsSoundscape
  <2> DEFINE r == (ono \div 1048576) % 256
             c == (ono \div 4096) % 256
  <2>2. r \in Int /\ c \in Int
    BY SMT
  <2>3. def = OcaObject(name, r, c)
    BY <2>1, SMT
  <2> HIDE DEF r, c
  <2>4. name \in ObjectNames
    BY NumberedNames, Zenon DEF DS100Names
  <2>5. IsProperty(def)
    BY <2>2, <2>3, <2>4, OcaObjectIsProper, Zenon
  <2> DEFINE other == OcaObject(name, 0, 0)
  <2>6. other \in Properties(setup)
    BY <1>3, <2>4 DEF Properties, IsSoundscape, ObjectNames
  <2>7. def.type = other.type /\ def.level = other.level /\ def.index = other.index
    BY <2>3 DEF OcaObject, DS100Definition, Definition
  <2> HIDE DEF other
  <2> QED
    BY <2>5, <2>6, <2>7, KindIsHeld, Zenon
<1> QED
  BY <1>1, <1>2, <1>3, SetupIsProper DEF IsSoundscape

(* What the device holds.                                                  *)
HeldOK == \A k \in DOMAIN held : IsData(held[k])

LEMMA HeldIsData ==
  ASSUME setup \in Setups, guid \in setup.guids, HeldOK, NEW def, IsHeld(def)
  PROVE  IsData(Held(def))
<1>1. IsData(DataFromString(guid))
  BY SetupIsProper, TextIsData
<1> QED
  BY <1>1, Zenon DEF Held, HeldOK, IsHeld

LEMMA HeldWith ==
  ASSUME HeldOK, NEW k, NEW data, IsData(data), held' = With(held, k, data)
  PROVE  HeldOK'
<1>1. ASSUME NEW x \in DOMAIN held' PROVE IsData(held'[x])
  <2>1. DOMAIN held' = DOMAIN held \cup {k}
        /\ held'[x] = IF x = k THEN data ELSE held[x]
    BY DEF With
  <2> QED
    BY <2>1, Zenon DEF HeldOK
<1> QED
  BY <1>1, Zenon DEF HeldOK

(* What it answers, once or three times over, fits in a message.           *)
LEMMA AnswerFits ==
  ASSUME setup \in Setups, guid \in setup.guids, HeldOK, NEW def, IsHeld(def)
  PROVE  Answer(def) \in Seq(Int) /\ Len(Answer(def)) <= 3 * (LongestText + 2)
<1> DEFINE data == Held(def)
<1>1. IsData(data)
  BY HeldIsData
<1> HIDE DEF data
<1>2. data \in Seq(Int) /\ Len(data) <= LongestText + 2 /\ Len(data) <= 3 * (LongestText + 2)
  BY <1>1, OneDataFits, Zenon DEF IsData
<1> DEFINE twice == data \o data
           all == twice \o data
<1>3. twice \in Seq(Int) /\ Len(twice) = Len(data) + Len(data)
  BY <1>2, JoinedLength, Zenon
<1> HIDE DEF twice
<1>4. all \in Seq(Int) /\ Len(all) = (Len(data) + Len(data)) + Len(data)
  BY <1>2, <1>3, JoinedLength, Zenon
<1>5. Answer(def) = all \/ Answer(def) = data
  BY Zenon DEF Answer, data, twice
<1> HIDE DEF all
<1>6. Len(all) <= 3 * (LongestText + 2)
  <2>1. LongestText \in Nat
    BY SMT DEF LongestText, MaxUint16
  <2>2. Len(data) \in Nat
    BY <1>2
  <2> QED
    BY <1>2, <1>4, <2>1, <2>2
<1> QED
  BY <1>2, <1>4, <1>5, <1>6, Zenon

(* A stream with one message more, or none.                                *)
LEMMA StreamLonger ==
  ASSUME NEW frames \in SUBSET Seq(Int), NEW s \in Streams(frames), NEW frame,
         frame = << >> \/ frame \in frames
  PROVE  s \o frame \in Streams(frames)
<1>1. CASE frame = << >>
  <2>1. s \in Seq(Int)
    BY Zenon DEF Streams
  <2> QED
    BY <1>1, <2>1, EmptyConcat
<1>2. CASE frame \in frames
  BY <1>2, StreamsAreClosed, Zenon DEF IsClosed
<1> QED
  BY <1>1, <1>2

LEMMA NotifyIsFrame ==
  ASSUME NEW def, IsProperty(def), NEW data, IsData(data)
  PROVE  Notify(def, data) = << >> \/ Notify(def, data) \in Frames
<1>1. IsTarget(def)
  BY PropertyIsTarget
<1>2. def.index \in 1 .. MaxUint16
  BY Zenon DEF IsProperty
<1>3. /\ def.ono \in Long \ {0} /\ def.level \in Word \ {0} /\ def.index \in Word \ {0}
  BY <1>1, <1>2, NumbersFit, Zenon DEF IsTarget
<1>4. data \in Seq(Int) /\ data # << >> /\ Len(data) + 37 \in Long
  BY OneDataFits, DataFits, Zenon DEF IsData
<1>5. IsSent(NotificationMessage(def.ono, def.level, def.index, 1, data))
  <2>1. 1 \in Octet
    BY SmallNumbers
  <2> QED
    BY <1>3, <1>4, <2>1, Zenon DEF IsSent
<1> QED
  BY <1>5, SentIsFrame, Zenon DEF Notify

-----------------------------------------------------------------------------
(* Both streams are framed.                                                *)

(* The counter of the code has 32 bits: so far it has not run over.        *)
HandlesFit == nextHandle - 1 \in Long

Framed ==
  toDevice \in Streams(Requests) /\ toController \in Streams(Frames) /\ HeldOK

FramedInv == guid \in setup.guids /\ (HandlesFit => Framed)

LEMMA HandlesOfStep ==
  ASSUME HandlesOK, nextHandle' \in Nat, nextHandle' >= nextHandle, HandlesFit'
  PROVE  HandlesFit /\ \A h \in nextHandle .. nextHandle' - 1 : h \in Long \ {0}
<1> DEFINE last == nextHandle' - 1
<1>1. last \in Long /\ last \in Nat
  BY NumbersOfFields, Zenon DEF HandlesFit
<1>2. nextHandle \in Nat /\ 2 <= nextHandle
  BY DEF HandlesOK, FirstHandle
<1>a. nextHandle - 1 <= last
  <2>1. \A a \in Nat, b \in Nat : b >= a => a - 1 <= b - 1
    OBVIOUS
  <2> QED
    BY <1>2, <2>1, Zenon
<1> HIDE DEF last
<1>3. nextHandle - 1 \in 0 .. last
  BY <1>1, <1>2, <1>a
<1>4. \A h \in nextHandle .. last : h \in 0 .. last /\ h # 0
  BY <1>1, <1>2
<1>5. \A u \in 0 .. last : u \in Long
  BY <1>1, NumbersOfFields, Zenon
<1>6. nextHandle - 1 \in Long
  BY <1>3, <1>5, Zenon
<1>7. \A h \in nextHandle .. last : h \in Long \ {0}
  BY <1>4, <1>5
<1> QED
  BY <1>6, <1>7, Zenon DEF HandlesFit, last

(* Requests for each of some entries.                                      *)
LEMMA ConcatenatedSent ==
  ASSUME NEW s \in Streams(Requests), NEW n \in Nat, NEW messages, DOMAIN messages = 1 .. n,
         \A i \in 1 .. n : IsRequest(messages[i])
  PROVE  s \o Concatenated(messages) \in Streams(Requests)
<1> DEFINE more == [i \in DOMAIN messages |-> GetSerializedData(messages[i])]
<1>1. more = [i \in 1 .. n |-> more[i]]
  OBVIOUS
<1>2. \A i \in 1 .. n : more[i] \in Requests
  BY RequestIsFrame
<1>3. Concatenated(messages) = Seqs!FlattenSeq(more)
  BY Zenon DEF Concatenated
<1> HIDE DEF more
<1> QED
  BY <1>1, <1>2, <1>3, FramesAreSequences, StreamExtended, Zenon

LEMMA SubscriptionsSent ==
  ASSUME HandlesOK, NEW entries, AreProper(entries), NEW gets, SubscribeAndQuery(entries, gets),
         HandlesFit', toDevice \in Streams(Requests)
  PROVE  toDevice' \in Streams(Requests)
<1> DEFINE n == Len(entries)
           subs == [i \in 1 .. n |-> AddSubscriptionCommand(entries[i].def, nextHandle + i - 1)]
           queries == [i \in 1 .. n |-> GetValueCommand(entries[i].def, nextHandle + n + i - 1)]
<1>1. n \in Nat /\ \A i \in 1 .. n : IsProperty(entries[i].def)
  BY ProperEntries
<1>2. /\ toDevice' = (toDevice \o Concatenated(subs)) \o Concatenated(queries)
      /\ nextHandle' = nextHandle + 2 * n
  BY Zenon DEF SubscribeAndQuery
<1>3. nextHandle \in Nat
  BY DEF HandlesOK
<1> HIDE DEF n
<1>4. nextHandle' \in Nat /\ nextHandle' >= nextHandle
  BY <1>1, <1>2, <1>3
<1>5. \A h \in nextHandle .. nextHandle' - 1 : h \in Long \ {0}
  BY <1>4, HandlesOfStep, Zenon
<1>6. ASSUME NEW i \in 1 .. n
      PROVE  /\ IsRequest(AddSubscriptionCommand(entries[i].def, nextHandle + i - 1))
             /\ IsRequest(GetValueCommand(entries[i].def, nextHandle + n + i - 1))
  <2> DEFINE def == entries[i].def
             a == nextHandle + i - 1
             b == nextHandle + n + i - 1
  <2>1. IsTarget(def) /\ def.getter \in 1 .. MaxUint16
    <3>1. IsProperty(def)
      BY <1>1
    <3> HIDE DEF def
    <3> QED
      BY <3>1, PropertyIsTarget, Zenon DEF IsProperty
  <2>2. a \in nextHandle .. nextHandle' - 1 /\ b \in nextHandle .. nextHandle' - 1
    BY <1>1, <1>2, <1>3
  <2> HIDE DEF def, a, b
  <2>3. a \in Long \ {0} /\ b \in Long \ {0}
    BY <1>5, <2>2, Zenon
  <2>4. IsRequest(AddSubscriptionCommand(def, a)) /\ IsRequest(GetValueCommand(def, b))
    BY <2>1, <2>3, CommandsAreRequests, Zenon
  <2> QED
    BY <2>4 DEF def, a, b
<1>7. DOMAIN subs = 1 .. n /\ \A i \in 1 .. n : IsRequest(subs[i])
  BY <1>6
<1>8. DOMAIN queries = 1 .. n /\ \A i \in 1 .. n : IsRequest(queries[i])
  BY <1>6
<1> HIDE DEF subs, queries
<1>9. toDevice \o Concatenated(subs) \in Streams(Requests)
  BY <1>1, <1>7, ConcatenatedSent
<1> QED
  BY <1>1, <1>2, <1>8, <1>9, ConcatenatedSent, Zenon

LEMMA GuidQuerySent ==
  ASSUME HandlesOK, AskForGuid, HandlesFit', toDevice \in Streams(Requests)
  PROVE  toDevice' \in Streams(Requests)
<1> DEFINE msg == GetValueCommand(GuidDefinition, nextHandle)
<1>1. toDevice' = toDevice \o GetSerializedData(msg) /\ nextHandle' = nextHandle + 1
  BY Zenon DEF AskForGuid
<1>2. nextHandle \in Nat
  BY DEF HandlesOK
<1>3. nextHandle' \in Nat /\ nextHandle' >= nextHandle
      /\ nextHandle \in nextHandle .. nextHandle' - 1
  BY <1>1, <1>2
<1>4. nextHandle \in Long \ {0}
  BY <1>3, HandlesOfStep, Zenon
<1>5. IsProperty(GuidDefinition)
  <2>1. "Fixed_GUID" \in ObjectNames
    BY GroupNames DEF ObjectNames, DS100Groups
  <2> QED
    BY <2>1, 0 \in Int, OcaObjectIsProper, Zenon DEF GuidDefinition
<1>6. IsTarget(GuidDefinition) /\ GuidDefinition.getter \in 1 .. MaxUint16
  BY <1>5, PropertyIsTarget, Zenon DEF IsProperty
<1>7. IsRequest(msg)
  BY <1>4, <1>6, CommandsAreRequests, Zenon
<1> HIDE DEF msg
<1> QED
  BY <1>1, <1>7, RequestIsFrame, FramesAreSequences, StreamLonger, Zenon

(* A set, of a value the interface has, through the definition of a target.*)
LEMMA SetIsTarget ==
  ASSUME setup \in Setups, NEW object \in setup.targets, NEW value \in setup.values,
         TargetDefinition(object) # NoDefinition
  PROVE  /\ IsTarget(TargetDefinition(object))
         /\ IsSetValue(IF setup.kind = "amp" THEN AmpSetVariant(object[1], value) ELSE value)
<1>1. CASE setup.kind = "amp"
  <2>1. /\ setup.ampType \in AmpTypes /\ setup.targets \subseteq AmpQuantities \X ObjectAddresses
        /\ IsSetValue(AmpSetVariant(object[1], value))
    BY <1>1, SetupsAssumption, Zenon
  <2>2. object[1] \in AmpQuantities /\ object[2][1] \in Int
    BY <2>1 DEF ObjectAddresses
  <2>3. TargetDefinition(object) = AmpObjectDefinition(setup.ampType, object[1], object[2][1])
    BY <1>1 DEF TargetDefinition, IsSoundscape
  <2> QED
    BY <1>1, <2>1, <2>2, <2>3, AmpObjectIsProper, PropertyIsTarget, Zenon
<1>2. CASE setup.kind = "soundscape"
  <2>1. setup.targets \subseteq RemObjIdents \X ObjectAddresses /\ IsSetValue(value)
    BY <1>2, SetupsAssumption, Zenon
  <2>2. object[1] \in RemObjIdents /\ object[2] \in Int \X Int
    BY <2>1 DEF ObjectAddresses
  <2>3. TargetDefinition(object) = GetObjectDefinition(object[1], object[2], TRUE, stackIdent)
        /\ setup.kind # "amp"
    BY <1>2 DEF TargetDefinition, IsSoundscape
  <2> QED
    BY <2>1, <2>2, <2>3, RemoteIsTarget, Zenon
<1>3. CASE setup.kind = "plain"
  <2>1. setup.targets \subseteq {"Plain"} \X ((1 .. Len(setup.defs)) \X Int) /\ IsSetValue(value)
    BY <1>3, SetupsAssumption, Zenon
  <2>2. object[2][1] \in 1 .. Len(setup.defs)
    BY <2>1
  <2>3. TargetDefinition(object) = setup.defs[object[2][1]] /\ setup.kind # "amp"
    BY <1>3 DEF TargetDefinition, IsSoundscape
  <2>4. IsProperty(setup.defs[object[2][1]])
    BY <1>3, <2>2, SetupIsProper, Zenon
  <2> QED
    BY <2>1, <2>3, <2>4, PropertyIsTarget, Zenon
<1> QED
  BY <1>1, <1>2, <1>3, SetupIsProper

LEMMA SetSent ==
  ASSUME setup \in Setups, HandlesOK, SetObjectValue, HandlesFit', toDevice \in Streams(Requests)
  PROVE  toDevice' \in Streams(Requests)
<1> DEFINE Variant(object, value) ==
             IF setup.kind = "amp" THEN AmpSetVariant(object[1], value) ELSE value
<1>1. PICK object \in setup.targets, value \in setup.values :
        LET def == TargetDefinition(object)
            data == ToParamData(Variant(object, value), def.type).value
        IN  /\ def # NoDefinition
            /\ toDevice' = toDevice \o GetSerializedData(SetValueCommand(def, nextHandle, data))
  BY Zenon DEF SetObjectValue
<1> DEFINE def == TargetDefinition(object)
           data == ToParamData(Variant(object, value), def.type).value
<1>2. IsTarget(def) /\ IsSetValue(Variant(object, value))
  BY <1>1, SetIsTarget
<1>3. IsData(data)
  <2> HIDE DEF Variant
  <2>1. def.type \in DataTypes
    BY <1>2, Zenon DEF IsTarget
  <2> QED
    BY <1>2, <2>1, ParamsAreData, Zenon
<1>4. toDevice' = toDevice \o GetSerializedData(SetValueCommand(def, nextHandle, data))
  BY <1>1, Zenon
<1>5. nextHandle \in Nat /\ nextHandle' = nextHandle + 1
  BY Zenon DEF SetObjectValue, HandlesOK
<1>6. nextHandle' \in Nat /\ nextHandle' >= nextHandle
      /\ nextHandle \in nextHandle .. nextHandle' - 1
  BY <1>5
<1>7. nextHandle \in Long \ {0}
  BY <1>6, HandlesOfStep, Zenon
<1> HIDE DEF def, data
<1>8. IsRequest(SetValueCommand(def, nextHandle, data))
  BY <1>2, <1>3, <1>7, CommandsAreRequests, Zenon
<1> QED
  BY <1>4, <1>8, RequestIsFrame, FramesAreSequences, StreamLonger, Zenon

(* One step per action of the handles, which only grow,                    *)
LEMMA HandlesGrow ==
  Inv /\ Inv' /\ [Next]_vars => nextHandle' \in Nat /\ nextHandle' >= nextHandle
<1> SUFFICES ASSUME Inv, Inv', [Next]_vars PROVE nextHandle' \in Nat /\ nextHandle' >= nextHandle
  OBVIOUS
<1>0. HandlesOK /\ nextHandle \in Nat /\ nextHandle' \in Nat
  BY Zenon DEF Inv, HandlesOK
<1> SUFFICES nextHandle' >= nextHandle
  BY <1>0, Zenon
<1>1. ASSUME UNCHANGED nextHandle PROVE nextHandle' >= nextHandle
  BY <1>0, <1>1
<1>a. ASSUME nextHandle' = nextHandle + 1 PROVE nextHandle' >= nextHandle
  BY <1>0, <1>a
<1>2. CASE Established
  <2>1. CASE IsSoundscape
    BY <1>2, <1>a, <2>1, Zenon DEF Established, AskForGuid
  <2>2. CASE ~ IsSoundscape
    <3>1. Len(tracked) \in Nat
      BY ProperEntries, Zenon DEF Inv, TrackedOK
    <3> QED
      BY <1>0, <1>2, <2>2, <3>1, SubscribesAndQueries DEF Established
  <2> QED
    BY <2>1, <2>2
<1>3. CASE ConnectionLost \/ Disconnect
  BY <1>1, <1>3, Zenon DEF ConnectionLost, Disconnect, Cut
<1>4. CASE ProcessMessage
  <2>1. PICK msg : TakeNotification(msg) \/ TakeKeepAlive(msg) \/ TakeAcknowledgement(msg)
                     \/ TakeValue(msg) \/ TakeGuid(msg)
    BY <1>4 DEF ProcessMessage
  <2>2. CASE TakeNotification(msg) \/ TakeKeepAlive(msg) \/ TakeAcknowledgement(msg)
               \/ TakeValue(msg)
    BY <1>1, <2>2, Zenon DEF TakeNotification, TakeKeepAlive, TakeAcknowledgement, TakeValue
  <2>3. CASE TakeGuid(msg)
    <3>1. CASE SubscribeAndQuery(tracked', Without(pendingGets, msg.handle))
      <4>1. Len(tracked') \in Nat
        BY ProperEntries, Zenon DEF Inv, TrackedOK
      <4>2. pendingSets' = pendingSets
        BY <2>3, TakesGuid, Zenon
      <4>3. DOMAIN Without(pendingGets, msg.handle) \subseteq DOMAIN pendingGets
        BY DEF Without
      <4> QED
        BY <1>0, <3>1, <4>1, <4>2, <4>3, SubscribesAndQueries, Zenon
    <3>2. CASE UNCHANGED nextHandle
      BY <1>1, <3>2
    <3> QED
      BY <2>3, <3>1, <3>2, TakesGuid, Zenon
  <2> QED
    BY <2>1, <2>2, <2>3
<1>5. CASE SetObjectValue
  BY <1>5, <1>a, Zenon DEF SetObjectValue
<1>6. CASE Configure \/ Connect
  BY <1>1, <1>6, Zenon DEF Configure, Connect
<1>7. CASE DeviceTakes \/ DeviceReports \/ DeviceBeats
  BY <1>1, <1>7 DEF DeviceTakes, DeviceReports, DeviceBeats, controllerVars
<1>8. CASE \E type \in setup.reads : ReadAs(type)
  BY <1>1, <1>8 DEF ReadAs, controllerVars
<1>9. CASE UNCHANGED vars
  BY <1>1, <1>9 DEF vars, controllerVars
<1> QED
  BY <1>2, <1>3, <1>4, <1>5, <1>6, <1>7, <1>8, <1>9 DEF Next

(* what the controller sends,                                              *)
LEMMA RequestsStep ==
  ASSUME Inv, Inv', HandlesFit', toDevice \in Streams(Requests), [Next]_vars
  PROVE  toDevice' \in Streams(Requests)
<1>0. HandlesOK /\ setup \in Setups /\ AreProper(tracked) /\ AreProper(tracked')
  BY Zenon DEF Inv, KnownInv, TrackedOK
<1>1. ASSUME UNCHANGED toDevice PROVE toDevice' \in Streams(Requests)
  BY <1>1, Zenon
<1>2. CASE Established
  <2>1. CASE IsSoundscape
    BY <1>0, <1>2, <2>1, GuidQuerySent, Zenon DEF Established
  <2>2. CASE ~ IsSoundscape
    BY <1>0, <1>2, <2>2, SubscriptionsSent, Zenon DEF Established
  <2> QED
    BY <2>1, <2>2
<1>3. CASE ConnectionLost \/ Disconnect
  <2>1. toDevice' = << >>
    BY <1>3, Zenon DEF ConnectionLost, Disconnect, Cut
  <2> QED
    BY <2>1, FramesAreSequences, StreamsAreClosed, Zenon DEF IsClosed
<1>4. CASE ProcessMessage
  <2>1. PICK msg : TakeNotification(msg) \/ TakeKeepAlive(msg) \/ TakeAcknowledgement(msg)
                     \/ TakeValue(msg) \/ TakeGuid(msg)
    BY <1>4 DEF ProcessMessage
  <2>2. CASE TakeNotification(msg) \/ TakeKeepAlive(msg) \/ TakeAcknowledgement(msg)
               \/ TakeValue(msg)
    BY <1>1, <2>2, Zenon DEF TakeNotification, TakeKeepAlive, TakeAcknowledgement, TakeValue
  <2>3. CASE TakeGuid(msg)
    <3>1. CASE SubscribeAndQuery(tracked', Without(pendingGets, msg.handle))
      BY <1>0, <3>1, SubscriptionsSent, Zenon
    <3>2. CASE UNCHANGED toDevice
      BY <1>1, <3>2
    <3> QED
      BY <2>3, <3>1, <3>2, TakesGuid, Zenon
  <2> QED
    BY <2>1, <2>2, <2>3
<1>5. CASE SetObjectValue
  BY <1>0, <1>5, SetSent, Zenon
<1>6. CASE Configure \/ Connect
  BY <1>1, <1>6, Zenon DEF Configure, Connect
<1>7. CASE DeviceTakes
  <2>1. toDevice # << >> /\ toDevice' = AfterFirstFrame(toDevice)
    BY <1>7, Zenon DEF DeviceTakes
  <2> QED
    BY <2>1, RequestTaken, Zenon
<1>8. CASE DeviceReports \/ DeviceBeats
  <2>1. CASE DeviceReports
    BY <1>1, <2>1, Zenon DEF DeviceReports
  <2>2. CASE DeviceBeats
    BY <1>1, <2>2, SMT DEF DeviceBeats
  <2> QED
    BY <1>8, <2>1, <2>2
<1>9. CASE \E type \in setup.reads : ReadAs(type)
  BY <1>1, <1>9, Zenon DEF ReadAs
<1>10. CASE UNCHANGED vars
  BY <1>1, <1>10, Zenon DEF vars
<1> QED
  BY <1>2, <1>3, <1>4, <1>5, <1>6, <1>7, <1>8, <1>9, <1>10 DEF Next

(* The device, whatever it makes of a request, answers with messages and   *)
(* holds bytes.                                                            *)
LEMMA DeviceAnswersRequest ==
  ASSUME setup \in Setups, guid \in setup.guids, HeldOK, NEW msg, IsRequest(msg),
         toController \in Streams(Frames),
         DeviceSubscribes(msg) \/ DeviceAnswers(msg) \/ DeviceSets(msg)
  PROVE  HeldOK' /\ toController' \in Streams(Frames)
<1>0. /\ msg.handle \in Long \ {0} /\ msg.paramCount \in Octet /\ msg.ono \in Int
      /\ msg.paramCount = 0 \/ IsData(msg.data)
  <2>1. msg.ono \in Long
    BY RequestIsSent, Zenon
  <2>2. msg.ono \in Int
    BY <2>1, NumbersOfFields
  <2> QED
    BY <2>2, RequestIsSent, Zenon
<1>1. /\ << >> \in Seq(Int) /\ Len(<< >>) <= 3 * (LongestText + 2)
  BY OneDataFits
<1>2. {0, 1, 4, 5} \subseteq Octet
  BY SmallNumbers
<1>3. \A status \in {0, 4, 5} : Respond(msg, status, 0, << >>) \in Frames
  <2>1. \A status \in {0, 4, 5} : status \in Octet
    BY <1>2
  <2>2. 0 \in Octet
    BY <1>2
  <2> QED
    BY <1>0, <1>1, <2>1, <2>2, ResponseIsFrame, Zenon
<1>4. OK = 0 /\ BadFormat = 4 /\ BadONo = 5
  BY DEF OK, BadFormat, BadONo
<1>5. Respond(msg, OK, 0, << >>) \in Frames /\ Respond(msg, BadFormat, 0, << >>) \in Frames
      /\ Respond(msg, BadONo, 0, << >>) \in Frames
  BY <1>3, <1>4
<1>6. ASSUME NEW frame, frame = << >> \/ frame \in Frames, NEW s \in Streams(Frames)
      PROVE  s \o frame \in Streams(Frames)
  BY <1>6, FramesAreSequences, StreamLonger, Zenon
<1>7. ASSUME held' = held PROVE HeldOK'
  BY <1>7, Zenon DEF HeldOK
<1>8. CASE DeviceSubscribes(msg)
  <2>1. held' = held
    BY <1>8, Zenon DEF DeviceSubscribes
  <2>2. toController' = toController \o Respond(msg, OK, 0, << >>)
        \/ toController' = toController \o Respond(msg, BadONo, 0, << >>)
    BY <1>8, Zenon DEF DeviceSubscribes
  <2> QED
    BY <1>5, <1>6, <1>7, <2>1, <2>2, Zenon
<1>9. CASE DeviceAnswers(msg)
  <2>1. held' = held
    BY <1>9, Zenon DEF DeviceAnswers
  <2> DEFINE asks == {def \in DeviceDefinitions(msg.ono) :
                        def.getter = msg.index /\ def.level = msg.defLevel}
             def == CHOOSE def \in asks : TRUE
  <2>2. \/ toController' = toController \o Respond(msg, BadONo, 0, << >>)
        \/ /\ asks # {}
           /\ toController' = toController \o Respond(msg, OK, 1, Answer(def))
    BY <1>9, Zenon DEF DeviceAnswers
  <2>3. CASE asks # {}
    <3>1. def \in DeviceDefinitions(msg.ono)
      BY <2>3, Zenon
    <3> HIDE DEF def
    <3>2. IsHeld(def)
      BY <1>0, <3>1, DeviceHolds, Zenon
    <3>3. Answer(def) \in Seq(Int) /\ Len(Answer(def)) <= 3 * (LongestText + 2)
      BY <3>2, AnswerFits
    <3>4. OK \in Octet /\ 1 \in Octet
      BY <1>2, <1>4
    <3>5. Respond(msg, OK, 1, Answer(def)) \in Frames
      BY <1>0, <3>3, <3>4, ResponseIsFrame, Zenon
    <3> HIDE DEF asks
    <3> QED
      BY <1>5, <1>6, <1>7, <2>1, <2>2, <3>5, Zenon
  <2> HIDE DEF asks, def
  <2> QED
    BY <1>5, <1>6, <1>7, <2>1, <2>2, <2>3, Zenon
<1>10. CASE DeviceSets(msg)
  <2>1. IsData(msg.data)
    <3>1. msg.paramCount > 0
      BY <1>10, Zenon DEF DeviceSets
    <3>2. ~ (msg.paramCount = 0)
      BY <1>0, <3>1
    <3> QED
      BY <1>0, <3>2, Zenon
  <2> DEFINE meant == {def \in DeviceDefinitions(msg.ono) :
                         def.index = 1 /\ def.level = msg.defLevel}
             def == CHOOSE d \in meant : TRUE
             fits == meant # {} /\ (def.type = "STRING" \/ Len(msg.data) = Len(Held(def)))
  <2>2. /\ held' = IF fits THEN With(held, << def.ono, def.index >>, msg.data) ELSE held
        /\ \/ /\ ~ fits
              /\ toController' = toController \o Respond(msg, BadFormat, 0, << >>)
           \/ /\ fits
              /\ toController' =
                   (toController \o Respond(msg, OK, 0, << >>)) \o Notify(def, msg.data)
           \/ /\ fits
              /\ toController' =
                   (toController \o Notify(def, msg.data)) \o Respond(msg, OK, 0, << >>)
    BY <1>10, Zenon DEF DeviceSets
  <2>3. CASE ~ fits
    <3> HIDE DEF meant, def, fits
    <3> QED
      BY <1>5, <1>6, <1>7, <2>2, <2>3, Zenon
  <2>4. CASE fits
    <3>1. def \in DeviceDefinitions(msg.ono)
      BY <2>4, Zenon
    <3> HIDE DEF meant, def, fits
    <3>2. IsProperty(def)
      BY <1>0, <3>1, DeviceHolds, Zenon DEF IsHeld
    <3>3. Notify(def, msg.data) = << >> \/ Notify(def, msg.data) \in Frames
      BY <2>1, <3>2, NotifyIsFrame, Zenon
    <3>4. held' = With(held, << def.ono, def.index >>, msg.data)
      BY <2>2, <2>4, Zenon
    <3>5. HeldOK'
      BY <2>1, <3>4, HeldWith, Zenon
    <3>6. toController' \in Streams(Frames)
      <4>1. \/ toController' =
                 (toController \o Respond(msg, OK, 0, << >>)) \o Notify(def, msg.data)
            \/ toController' =
                 (toController \o Notify(def, msg.data)) \o Respond(msg, OK, 0, << >>)
        BY <2>2, <2>4, Zenon
      <4> QED
        BY <1>5, <1>6, <3>3, <4>1, Zenon
    <3> QED
      BY <3>5, <3>6
  <2> QED
    BY <2>3, <2>4
<1> QED
  BY <1>8, <1>9, <1>10

(* what the device sends, and what it holds,                               *)
LEMMA FramesStep ==
  ASSUME Inv, guid \in setup.guids, toDevice \in Streams(Requests),
         toController \in Streams(Frames), HeldOK, [Next]_vars
  PROVE  toController' \in Streams(Frames) /\ HeldOK'
<1>0. setup \in Setups
  BY Zenon DEF Inv, KnownInv
<1>1. ASSUME UNCHANGED held PROVE HeldOK'
  BY <1>1, Zenon DEF HeldOK
<1>2. ASSUME UNCHANGED toController PROVE toController' \in Streams(Frames)
  BY <1>2, Zenon
<1>3. CASE DeviceTakes
  <2>1. toDevice # << >>
    BY <1>3, Zenon DEF DeviceTakes
  <2> DEFINE msg == UnmarshalOcp1Message(FirstFrame(toDevice))
  <2>2. DeviceSubscribes(msg) \/ DeviceAnswers(msg) \/ DeviceSets(msg)
    BY <1>3, Zenon DEF DeviceTakes
  <2>3. IsRequest(msg)
    BY <2>1, RequestTaken, Zenon
  <2> HIDE DEF msg
  <2> QED
    BY <1>0, <2>2, <2>3, DeviceAnswersRequest, Zenon
<1>4. CASE DeviceReports
  <2>1. PICK i \in 1 .. Len(tracked) : \E def \in DeviceDefinitions(tracked[i].def.ono) :
          \E data \in Reports(def.type, def.level, def.index) :
            /\ held' = With(held, << def.ono, def.index >>, data)
            /\ toController' = toController \o Notify(def, data)
    BY <1>4, Zenon DEF DeviceReports
  <2>a. PICK def \in DeviceDefinitions(tracked[i].def.ono) :
          \E data \in Reports(def.type, def.level, def.index) :
            /\ held' = With(held, << def.ono, def.index >>, data)
            /\ toController' = toController \o Notify(def, data)
    BY <2>1
  <2>b. PICK data \in Reports(def.type, def.level, def.index) :
          /\ held' = With(held, << def.ono, def.index >>, data)
          /\ toController' = toController \o Notify(def, data)
    BY <2>a
  <2>2. tracked[i].def.ono \in Int
    <3>1. IsProperty(tracked[i].def)
      BY ProperEntries, Zenon DEF Inv, TrackedOK
    <3> QED
      BY <3>1 DEF IsProperty
  <2>3. IsProperty(def) /\ IsData(data)
    BY <1>0, <2>2, DeviceHolds, Zenon DEF IsHeld
  <2>4. Notify(def, data) = << >> \/ Notify(def, data) \in Frames
    BY <2>3, NotifyIsFrame, Zenon
  <2>5. toController' \in Streams(Frames)
    BY <2>b, <2>4, FramesAreSequences, StreamLonger, Zenon
  <2>6. HeldOK'
    BY <2>b, <2>3, HeldWith, Zenon
  <2> QED
    BY <2>5, <2>6
<1>5. CASE DeviceBeats
  <2>1. U16(5) \in Seq(Octet) /\ Len(U16(5)) = 2 /\ U32(5000) \in Seq(Octet) /\ Len(U32(5000)) = 4
    BY FieldSizes, SMT
  <2>2. PICK time \in Seq(Octet) :
          /\ Len(time) \in {2, 4}
          /\ toController' = toController \o GetSerializedData(KeepAliveMessage(time))
    <3> DEFINE times == {U16(5), U32(5000)}
    <3>1. \E time \in times :
            toController' = toController \o GetSerializedData(KeepAliveMessage(time))
      BY <1>5, SMT DEF DeviceBeats
    <3>2. \A time \in times : time \in Seq(Octet) /\ Len(time) \in {2, 4}
      BY <2>1, SMT
    <3> HIDE DEF times
    <3> QED
      BY <3>1, <3>2, Zenon
  <2>3. IsSent(KeepAliveMessage(time))
    BY <2>2, Zenon DEF IsSent
  <2>4. toController' \in Streams(Frames)
    BY <2>2, <2>3, SentIsFrame, FramesAreSequences, StreamLonger, Zenon
  <2>5. held' = held
    BY <1>5, SMT DEF DeviceBeats, deviceVars
  <2> QED
    BY <1>1, <2>4, <2>5
<1>6. CASE ProcessMessage
  <2>1. toController # << >> /\ toController' = AfterFirstFrame(toController)
    BY <1>6, Zenon DEF ProcessMessage
  <2>2. toController' \in Streams(Frames)
    BY <2>1, FrameTaken, Zenon
  <2>3. held' = held
    BY <1>6 DEF ProcessMessage, deviceVars
  <2> QED
    BY <1>1, <2>2, <2>3
<1>7. CASE ConnectionLost \/ Disconnect
  <2>1. toController' = << >> /\ held' = held
    BY <1>7, Zenon DEF ConnectionLost, Disconnect, Cut
  <2>2. toController' \in Streams(Frames)
    BY <2>1, FramesAreSequences, StreamsAreClosed, Zenon DEF IsClosed
  <2> QED
    BY <1>1, <2>1, <2>2
<1>8. ASSUME UNCHANGED << held, toController >>
      PROVE  toController' \in Streams(Frames) /\ HeldOK'
  BY <1>1, <1>2, <1>8
<1>9. CASE Configure \/ Connect
  BY <1>8, <1>9 DEF Configure, Connect, deviceVars
<1>10. CASE Established \/ SetObjectValue
  BY <1>8, <1>10, SMT DEF Established, SetObjectValue, deviceVars
<1>11. CASE \E type \in setup.reads : ReadAs(type)
  BY <1>8, <1>11 DEF ReadAs, deviceVars
<1>12. CASE UNCHANGED vars
  BY <1>8, <1>12 DEF vars, deviceVars
<1> QED
  BY <1>3, <1>4, <1>5, <1>6, <1>7, <1>9, <1>10, <1>11, <1>12 DEF Next

(* and of the firmware that answers.                                       *)
LEMMA GuidStep == Inv /\ guid \in setup.guids /\ [Next]_vars => guid' \in setup'.guids
<1> SUFFICES ASSUME Inv, guid \in setup.guids, [Next]_vars PROVE guid' \in setup'.guids
  OBVIOUS
<1>1. ASSUME UNCHANGED << setup, guid >> PROVE guid' \in setup'.guids
  BY <1>1
<1>2. CASE Established
  BY <1>2 DEF Established, appVars
<1>3. CASE Configure \/ Connect
  BY <1>1, <1>3 DEF Configure, Connect, deviceVars, appVars
<1>4. CASE ConnectionLost \/ Disconnect
  BY <1>1, <1>4 DEF ConnectionLost, Disconnect, Cut
<1>5. CASE DeviceTakes \/ DeviceReports
  BY <1>1, <1>5 DEF DeviceTakes, DeviceReports, appVars
<1>6. CASE DeviceBeats
  BY <1>1, <1>6, SMT DEF DeviceBeats, appVars, deviceVars
<1>7. CASE ProcessMessage
  BY <1>1, <1>7 DEF ProcessMessage, deviceVars
<1>8. CASE SetObjectValue \/ \E type \in setup.reads : ReadAs(type)
  BY <1>1, <1>8 DEF SetObjectValue, ReadAs, deviceVars
<1>9. CASE UNCHANGED vars
  BY <1>1, <1>9 DEF vars, deviceVars, appVars
<1> QED
  BY <1>2, <1>3, <1>4, <1>5, <1>6, <1>7, <1>8, <1>9 DEF Next

(* What every step leaves true of the streams, while the counter lasts.    *)
LEMMA InitFramed == Init => FramedInv
<1> SUFFICES ASSUME Init PROVE FramedInv
  OBVIOUS
<1>1. setup \in Setups
  BY Zenon DEF Init
<1>2. guid \in setup.guids
  <2>1. setup.guids # {}
    BY <1>1, SetupIsProper, Zenon
  <2> QED
    BY <2>1, Zenon DEF Init
<1>3. toDevice = << >> /\ toController = << >> /\ DOMAIN held = {}
  BY DEF Init, EmptyMap
<1>4. toDevice \in Streams(Requests) /\ toController \in Streams(Frames)
  BY <1>3, FramesAreSequences, StreamsAreClosed, Zenon DEF IsClosed
<1>5. HeldOK
  BY <1>3, Zenon DEF HeldOK
<1> QED
  BY <1>2, <1>4, <1>5, Zenon DEF FramedInv, Framed

LEMMA NextFramed == Inv /\ Inv' /\ FramedInv /\ [Next]_vars => FramedInv'
<1> SUFFICES ASSUME Inv, Inv', FramedInv, [Next]_vars PROVE FramedInv'
  OBVIOUS
<1>1. guid' \in setup'.guids
  BY GuidStep, Zenon DEF FramedInv
<1>2. ASSUME HandlesFit' PROVE Framed'
  <2>1. HandlesFit
    BY <1>2, HandlesGrow, HandlesOfStep, Zenon DEF Inv
  <2>2. Framed /\ guid \in setup.guids
    BY <2>1, Zenon DEF FramedInv
  <2>3. toDevice' \in Streams(Requests)
    BY <1>2, <2>2, RequestsStep, Zenon DEF Framed
  <2>4. toController' \in Streams(Frames) /\ HeldOK'
    BY <2>2, FramesStep, Zenon DEF Framed
  <2> QED
    BY <2>3, <2>4, Zenon DEF Framed
<1> QED
  BY <1>1, <1>2, Zenon DEF FramedInv

(* Whatever is under way, in either direction, starts with a whole message *)
(* that its receiver understands, of the size its header announces: with   *)
(* every kind of controller and device, through any number of sets,        *)
(* reports, heartbeats and reconnects, until the counter of handles, whose *)
(* 32 bits UnmarshalOcp1Message wants to be more than zero, has run over.  *)
THEOREM StreamsAreFramed == Spec => [](HandlesFit => WellFramed)
<1>1. Spec => []FramedInv
  BY InitFramed, NextFramed, InvHolds, PTL DEF Spec
<1>2. FramedInv => (HandlesFit => WellFramed)
  <2> SUFFICES ASSUME FramedInv, HandlesFit PROVE WellFramed
    OBVIOUS
  <2>1. toDevice \in Streams(Requests) /\ toController \in Streams(Frames)
    BY Zenon DEF FramedInv, Framed
  <2>2. StreamIsFramed(toDevice)
    BY <2>1, RequestTaken, Zenon DEF StreamIsFramed
  <2>3. StreamIsFramed(toController)
    BY <2>1, FrameTaken, Zenon DEF StreamIsFramed
  <2> QED
    BY <2>2, <2>3, Zenon DEF WellFramed
<1> QED
  BY <1>1, <1>2, PTL

(* A value that a conversion starts from: a number, a truth value or a text*)
(* that stands for one.                                                    *)
IsOfType(v) ==
  /\ v[1] = "BOOLEAN" => v[2] \in BOOLEAN
  /\ v[1] \in NumberTypes => v[2] \in Int
  /\ v[1] \in {"STRING", "BLOB"} => v[2] \in Seq(Int)

LEMMA NumberKinds ==
  ASSUME NEW v, IsOfType(v), IsNumber(v)
  PROVE  \/ v[1] = "BOOLEAN" /\ v[2] \in BOOLEAN
         \/ v[1] \in Integral /\ v[2] \in Int
         \/ v[1] \in Floating /\ v[2] \in Int
         \/ v[1] = "STRING" /\ IsNumeral(v[2]) /\ v[2][2] \in Int
<1>1. CASE v[1] = "STRING"
  <2>1. v[1] \notin NumberTypes \cup {"BOOLEAN"}
    BY <1>1 DEF NumberTypes, Integral, Floating
  <2>2. IsNumeral(v[2])
    BY <2>1 DEF IsNumber
  <2>3. v[2][2] \in Int
    BY <1>1, <2>2 DEF IsOfType, IsNumeral
  <2> QED
    BY <1>1, <2>2, <2>3
<1>2. CASE v[1] # "STRING"
  <2>1. v[1] \in Integral \cup Floating \cup {"BOOLEAN"}
    BY <1>2, Zenon DEF IsNumber, NumberTypes
  <2>2. v[1] \in Integral \cup Floating => v[2] \in Int
    BY Zenon DEF IsOfType, NumberTypes
  <2>3. v[1] = "BOOLEAN" => v[2] \in BOOLEAN
    BY Zenon DEF IsOfType
  <2> QED
    BY <2>1, <2>2, <2>3, Zenon
<1> QED
  BY <1>1, <1>2

(* The number a variant stands for is one, and the whole number that is    *)
(* read of it is that number, or a neighbour if it is not whole.           *)
LEMMA WholeIsNear ==
  ASSUME NEW v, IsOfType(v), IsNumber(v), NEW n
  PROVE  /\ InHalves(v) \in Int
         /\ \E ok \in BOOLEAN, w \in Int :
              /\ WholeNumber(v, n) = Read(ok, w)
              /\ v[1] # "STRING" => ok
              /\ ok => w \in {InHalves(v) \div 2, (InHalves(v) + 1) \div 2}
<1> DEFINE Near == {InHalves(v) \div 2, (InHalves(v) + 1) \div 2}
<1>1. CASE v[1] = "BOOLEAN" /\ v[2] \in BOOLEAN
  <2>1. WholeNumber(v, n) = Read(TRUE, IF v[2] THEN 1 ELSE 0)
    BY <1>1, KindOfType, Zenon DEF WholeNumber
  <2>2. InHalves(v) = IF v[2] THEN 2 ELSE 0
    BY <1>1, KindOfType, Zenon DEF InHalves
  <2>3. InHalves(v) \in Int /\ (IF v[2] THEN 1 ELSE 0) = InHalves(v) \div 2
    BY <1>1, <2>2
  <2>4. (IF v[2] THEN 1 ELSE 0) \in Int /\ (IF v[2] THEN 1 ELSE 0) \in Near
    BY <2>3
  <2> QED
    BY <2>1, <2>3, <2>4, Zenon
<1>2. CASE v[1] \in Integral /\ v[2] \in Int
  <2>1. WholeNumber(v, n) = Read(TRUE, v[2])
    BY <1>2, KindOfType, Zenon DEF WholeNumber
  <2>2. InHalves(v) = 2 * v[2]
    BY <1>2, KindOfType, Zenon DEF InHalves
  <2>3. InHalves(v) \in Int /\ v[2] = InHalves(v) \div 2
    BY <1>2, <2>2
  <2> QED
    BY <1>2, <2>1, <2>3, Zenon
<1>3. CASE v[1] \in Floating /\ v[2] \in Int
  <2>1. WholeNumber(v, n) = Read(TRUE, LRound(v[2]))
    BY <1>3, KindOfType, Zenon DEF WholeNumber
  <2>2. InHalves(v) = v[2]
    BY <1>3, KindOfType, Zenon DEF InHalves
  <2>3. LRound(v[2]) \in Int /\ LRound(v[2]) \in {v[2] \div 2, (v[2] + 1) \div 2}
    BY <1>3 DEF LRound
  <2> QED
    BY <1>3, <2>1, <2>2, <2>3, Zenon
<1>4. CASE v[1] = "STRING" /\ IsNumeral(v[2]) /\ v[2][2] \in Int
  <2>1. WholeNumber(v, n) = ParsedWhole(v[2], n)
    BY <1>4, KindOfType, Zenon DEF WholeNumber
  <2>2. InHalves(v) = IF v[2][1] = IntMark THEN 2 * v[2][2] ELSE v[2][2]
    BY <1>4, KindOfType, Zenon DEF InHalves
  <2>3. InHalves(v) \in Int
    BY <1>4, <2>2
  <2>4. WholePart(v[2]) \in {InHalves(v) \div 2, (InHalves(v) + 1) \div 2}
    BY <1>4, <2>2 DEF WholePart, Halved
  <2>5. WholePart(v[2]) \in Int
    BY <1>4 DEF WholePart, Halved
  <2>6. \/ ParsedWhole(v[2], n) = Read(TRUE, WholePart(v[2]))
        \/ ParsedWhole(v[2], n) = Read(FALSE, 0)
    BY Zenon DEF ParsedWhole
  <2> QED
    BY <1>4, <2>1, <2>3, <2>4, <2>5, <2>6, 0 \in Int, Zenon
<1> QED
  BY <1>1, <1>2, <1>3, <1>4, NumberKinds, Zenon

(* A cast keeps what its type can hold.                                    *)
LEMMA CastKeeps ==
  ASSUME NEW n \in Nat, NEW w \in Int, NEW ok \in BOOLEAN
  PROVE  /\ 0 <= w /\ w < Power[n] => Unsigned(n, Read(ok, w)) = Read(ok, w)
         /\ FitsSigned(n, w) => Signed(n, Read(ok, w)) = Read(ok, w)
         /\ Unsigned(n, Read(ok, w)).ok = ok /\ Signed(n, Read(ok, w)).ok = ok
<1>1. Power[n] \in Nat
  BY PowerIsDefined
<1>2. 0 <= w /\ w < Power[n] => w % Power[n] = w
  BY <1>1, Remainder
<1>3. FitsSigned(n, w) => AsSigned(n, w % Power[n]) = w
  BY SignedRemainder
<1>4. Unsigned(n, Read(ok, w)) = Read(ok, w % Power[n])
  BY DEF Unsigned, Read
<1>5. Signed(n, Read(ok, w)) = Read(ok, AsSigned(n, w % Power[n]))
  BY DEF Signed, Read
<1>6. \A x : Read(ok, x).ok = ok
  BY DEF Read
<1> QED
  BY <1>2, <1>3, <1>4, <1>5, <1>6, Zenon

(* To a whole number.                                                      *)
LEMMA IntegralKept ==
  ASSUME NEW v, IsOfType(v), IsNumber(v), NEW type \in Integral, NEW k, NEW r,
         LET n == Width[type]
         IN  r = IF type = "INT32" THEN Signed(n, WholeNumber(v, k))
                 ELSE Unsigned(n, WholeNumber(v, k))
  PROVE  NumberIsKept(v, type, r)
<1> DEFINE h == InHalves(v)
           n == Width[type]
<1>1. h \in Int
  BY WholeIsNear
<1>2. type \notin Floating
  BY KindOfType, Zenon
<1>3. n \in Nat
  BY DEF Width, Integral
<1>4. PICK ok \in BOOLEAN, w \in Int :
        /\ WholeNumber(v, k) = Read(ok, w)
        /\ v[1] # "STRING" => ok
        /\ ok => w \in {h \div 2, (h + 1) \div 2}
  BY WholeIsNear
<1> HIDE DEF n
<1>5. r.ok = ok
  BY <1>3, <1>4, CastKeeps DEF n
<1>6. ASSUME ok, Holds(type, h) PROVE r.value = w
  <2>1. w \in {h \div 2, (h + 1) \div 2}
    BY <1>4, <1>6
  <2>2. CASE type = "INT32"
    <3>1. n = 4
      BY <2>2 DEF n, Width
    <3>2. FitsSigned(4, h \div 2) /\ FitsSigned(4, (h + 1) \div 2)
      BY <1>2, <1>6, <2>2, Zenon DEF Holds
    <3>3. r = Read(ok, w)
      BY <1>3, <1>4, <2>1, <2>2, <3>1, <3>2, CastKeeps DEF n
    <3> QED
      BY <3>3 DEF Read
  <2>3. CASE type # "INT32"
    <3>1. 0 <= h /\ (h + 1) \div 2 < Power[n]
      BY <1>2, <1>6, <2>3, Zenon DEF Holds, n
    <3>2. Power[n] \in Nat
      BY <1>3, PowerIsDefined
    <3>3. 0 <= w /\ w < Power[n]
      BY <1>1, <2>1, <3>1, <3>2
    <3>4. r = Read(ok, w)
      BY <1>3, <1>4, <2>3, <3>3, CastKeeps DEF n
    <3> QED
      BY <3>4 DEF Read
  <2> QED
    BY <2>2, <2>3
<1>7. InHalves(<< type, r.value >>) = 2 * r.value
  <2>1. << type, r.value >>[1] = type /\ << type, r.value >>[2] = r.value
    OBVIOUS
  <2> QED
    BY <2>1, KindOfType, Zenon DEF InHalves
<1>8. ASSUME ok, Holds(type, h)
      PROVE  LET gap == Difference(InHalves(<< type, r.value >>), h)
             IN  gap <= 1 /\ (h % 2 = 0 => gap = 0)
  <2>1. InHalves(<< type, r.value >>) = 2 * w
    BY <1>6, <1>7, <1>8
  <2>2. w \in {h \div 2, (h + 1) \div 2}
    BY <1>4, <1>8
  <2>3. Difference(2 * w, h) <= 1 /\ (h % 2 = 0 => Difference(2 * w, h) = 0)
    BY <1>1, <2>2 DEF Difference
  <2> QED
    BY <2>1, <2>3
<1> HIDE DEF h
<1> QED
  BY <1>2, <1>4, <1>5, <1>8, Zenon DEF NumberIsKept, h

(* To a float.                                                             *)
LEMMA FloatingKept ==
  ASSUME NEW v, IsOfType(v), IsNumber(v), NEW type \in Floating, NEW r,
         r = ToFloating(Width[type], v)
  PROVE  NumberIsKept(v, type, r)
<1> DEFINE h == InHalves(v)
           n == Width[type]
<1>1. h \in Int
  BY WholeIsNear
<1>2. r = Read(TRUE, h) \/ r = Read(TRUE, NearestFloat(n, h))
  <2>1. CASE v[1] = "BOOLEAN"
    BY <2>1, KindOfType, Zenon DEF ToFloating, InHalves
  <2>2. CASE v[1] \in Integral
    BY <2>2, KindOfType, Zenon DEF ToFloating, InHalves
  <2>3. CASE v[1] \in Floating
    BY <2>3, KindOfType, Zenon DEF ToFloating, InHalves
  <2>4. CASE v[1] = "STRING" /\ IsNumeral(v[2])
    BY <2>4, KindOfType, Zenon DEF ToFloating, InHalves
  <2> QED
    BY <2>1, <2>2, <2>3, <2>4, NumberKinds, Zenon
<1>3. r.ok = TRUE /\ r.value \in {h, NearestFloat(n, h)}
  BY <1>2 DEF Read
<1>4. InHalves(<< type, r.value >>) = r.value
  <2>1. << type, r.value >>[1] = type /\ << type, r.value >>[2] = r.value
    OBVIOUS
  <2> QED
    BY <2>1, KindOfType, Zenon DEF InHalves
<1>5. Holds(type, h) => NearestFloat(n, h) = h
  <2>1. type # "INT32"
    BY DEF Floating
  <2>2. Holds(type, h) => FitsSigned(n, h)
    BY <2>1, Zenon DEF Holds
  <2> QED
    BY <2>2, Zenon DEF NearestFloat
<1>6. Difference(h, h) = 0
  BY <1>1 DEF Difference
<1> HIDE DEF h, n
<1>7. ASSUME Holds(type, h)
      PROVE  LET gap == Difference(InHalves(<< type, r.value >>), h) IN gap <= 1 /\ gap = 0
  BY <1>3, <1>4, <1>5, <1>6, <1>7
<1> QED
  BY <1>3, <1>7, Zenon DEF NumberIsKept, h

(* To any number; and to text.                                             *)
LEMMA NumbersAreKept ==
  ASSUME NEW v, IsOfType(v), IsNumber(v), NEW type \in NumberTypes
  PROVE  NumberIsKept(v, type, Conversion(v, type))
<1>1. v[1] # "BLOB"
  BY NumberKinds, KindOfType, Zenon
<1>2. CASE type = "INT32"
  <2>1. Conversion(v, type) = Signed(Width[type], WholeNumber(v, 8))
    BY <1>1, <1>2 DEF Conversion, ToInt32, Width
  <2>2. type \in Integral
    BY <1>2 DEF Integral
  <2> QED
    BY <1>2, <2>1, <2>2, IntegralKept
<1>3. CASE type \in {"UINT8", "UINT64"}
  <2>1. Conversion(v, type) = Unsigned(Width[type], WholeNumber(v, 8))
    BY <1>1, <1>3 DEF Conversion, ToUInt8, ToUInt64, Width
  <2>2. type \in Integral /\ type # "INT32"
    BY <1>3 DEF Integral
  <2> QED
    BY <2>1, <2>2, IntegralKept
<1>4. CASE type \in {"UINT16", "UINT32"}
  <2>1. Conversion(v, type) = Unsigned(Width[type], WholeNumber(v, 4))
    BY <1>1, <1>4 DEF Conversion, ToUInt16, ToUInt32, Width
  <2>2. type \in Integral /\ type # "INT32"
    BY <1>4 DEF Integral
  <2> QED
    BY <2>1, <2>2, IntegralKept
<1>5. CASE type \in Floating
  <2>1. Conversion(v, type) = ToFloating(Width[type], v)
    BY <1>5 DEF Conversion, ToFloat, ToDouble, Width, Floating
  <2> QED
    BY <1>5, <2>1, FloatingKept
<1> QED
  BY <1>2, <1>3, <1>4, <1>5 DEF NumberTypes, Integral

(* A number becomes the text of the same number.                           *)
LEMMA NumbersArePrinted ==
  ASSUME NEW v, IsOfType(v), IsNumber(v), v[1] # "BOOLEAN"
  PROVE  NumberIsPrinted(v, ToString(v))
<1>1. \A x : Read(TRUE, x).ok = TRUE /\ Read(TRUE, x).value = x
  BY DEF Read
<1>2. \A x : InHalves(<< "STRING", x >>) = IF x[1] = IntMark THEN 2 * x[2] ELSE x[2]
  <2>1. \A x : << "STRING", x >>[1] = "STRING" /\ << "STRING", x >>[2] = x
    OBVIOUS
  <2> QED
    BY <2>1, KindOfType, Zenon DEF InHalves
<1>3. CASE v[1] \in Integral
  <2>1. ToString(v) = Read(TRUE, Numeral(v[2]))
    BY <1>3, KindOfType, Zenon DEF ToString
  <2>2. InHalves(v) = 2 * v[2]
    BY <1>3, KindOfType, Zenon DEF InHalves
  <2>3. Numeral(v[2])[1] = IntMark /\ Numeral(v[2])[2] = v[2]
    BY DEF Numeral
  <2> QED
    BY <1>1, <1>2, <2>1, <2>2, <2>3, ZenonT(60) DEF NumberIsPrinted
<1>4. CASE v[1] \in Floating
  <2>1. ToString(v) = Read(TRUE, Decimal(v[2]))
    BY <1>4, KindOfType, Zenon DEF ToString
  <2>2. InHalves(v) = v[2]
    BY <1>4, KindOfType, Zenon DEF InHalves
  <2>3. Decimal(v[2])[1] # IntMark /\ Decimal(v[2])[2] = v[2]
    BY DEF Decimal, DecMark, IntMark
  <2> QED
    BY <1>1, <1>2, <2>1, <2>2, <2>3, ZenonT(60) DEF NumberIsPrinted
<1>5. CASE v[1] = "STRING"
  <2>1. ToString(v) = Read(TRUE, v[2])
    BY <1>5, KindOfType, Zenon DEF ToString
  <2>2. InHalves(v) = IF v[2][1] = IntMark THEN 2 * v[2][2] ELSE v[2][2]
    BY <1>5, KindOfType, Zenon DEF InHalves
  <2> QED
    BY <1>1, <1>2, <2>1, <2>2, Zenon DEF NumberIsPrinted
<1> QED
  BY <1>3, <1>4, <1>5, NumberKinds, Zenon

-----------------------------------------------------------------------------
(* Parts of a sequence.                                                    *)
LEMMA PartOf ==
  ASSUME NEW S, NEW data \in Seq(S), NEW a \in 1 .. Len(data) + 1, NEW b \in a - 1 .. Len(data)
  PROVE  /\ SubSeq(data, a, b) \in Seq(S) /\ Len(SubSeq(data, a, b)) = b + 1 - a
         /\ \A i \in 1 .. b + 1 - a : SubSeq(data, a, b)[i] = data[a + i - 1]
OBVIOUS

LEMMA PartsJoin ==
  ASSUME NEW S, NEW data \in Seq(S), NEW a \in 1 .. Len(data) + 1, NEW b \in a - 1 .. Len(data),
         NEW c \in b .. Len(data)
  PROVE  SubSeq(data, a, b) \o SubSeq(data, b + 1, c) = SubSeq(data, a, c)
<1> DEFINE s == SubSeq(data, a, b)
           t == SubSeq(data, b + 1, c)
           u == SubSeq(data, a, c)
<1>1. s \in Seq(S) /\ Len(s) = b + 1 - a /\ \A i \in 1 .. b + 1 - a : s[i] = data[a + i - 1]
  BY PartOf
<1>2. t \in Seq(S) /\ Len(t) = c - b /\ \A i \in 1 .. c - b : t[i] = data[b + i]
  BY PartOf
<1>3. u \in Seq(S) /\ Len(u) = c + 1 - a /\ \A i \in 1 .. c + 1 - a : u[i] = data[a + i - 1]
  BY PartOf
<1> HIDE DEF s, t, u
<1>0. a \in Int /\ b \in Int /\ c \in Int /\ a - 1 <= b /\ b <= c
  OBVIOUS
<1>4. s \o t \in Seq(S) /\ Len(s \o t) = c + 1 - a
  <2>1. s \o t \in Seq(S) /\ Len(s \o t) = Len(s) + Len(t)
    BY <1>1, <1>2, ConcatProperties
  <2> QED
    BY <1>0, <1>1, <1>2, <2>1
<1>5. ASSUME NEW i \in 1 .. c + 1 - a PROVE (s \o t)[i] = u[i]
  <2>1. CASE i <= b + 1 - a
    BY <1>1, <1>2, <1>3, <2>1
  <2>2. CASE ~ (i <= b + 1 - a)
    <3>1. i - (b + 1 - a) \in 1 .. c - b /\ ~ (i <= Len(s)) /\ i \in 1 .. Len(s) + Len(t)
      BY <1>0, <1>1, <1>2, <2>2
    <3>4. (s \o t)[i] = t[i - Len(s)]
      BY <1>1, <1>2, <3>1, ConcatProperties
    <3>2. t[i - (b + 1 - a)] = data[b + (i - (b + 1 - a))]
      BY <1>2, <3>1, Zenon
    <3>3. b + (i - (b + 1 - a)) = a + i - 1
      OBVIOUS
    <3> QED
      BY <1>1, <1>3, <3>2, <3>3, <3>4
  <2> QED
    BY <2>1, <2>2
<1> QED
  BY <1>3, <1>4, <1>5, SeqEqual DEF s, t, u

-----------------------------------------------------------------------------
(* Bytes that were read as a number are written again.                     *)
LEMMA SignedIsWritten ==
  ASSUME NEW n \in Nat, NEW data, \A i \in 1 .. n : data[i] \in Digits
  PROVE  /\ AsSigned(n, NumberIn(n, data)) \in Int
         /\ BytesOf(n, AsSigned(n, NumberIn(n, data))) = [i \in 1 .. n |-> data[i]]
<1> DEFINE p == Power[n]
           x == NumberIn(n, data)
           y == AsSigned(n, x)
           bytes == BytesOf(n, y)
<1>1. p \in Nat \ {0}
  BY PowerIsDefined
<1>2. x \in 0 .. p - 1 /\ BytesOf(n, x) = [i \in 1 .. n |-> data[i]]
  BY BytesOfNumberIn
<1>3. y \in {x, x - p}
  BY Zenon DEF AsSigned
<1> HIDE DEF p, x, y
<1>4. y \in Int
  BY <1>1, <1>2, <1>3
<1>5. y % p = x
  <2>1. CASE y = x
    BY <1>1, <1>2, <2>1
  <2>2. CASE y = x - p
    <3>1. p * (-1) + x = y
      BY <1>1, <1>2, <2>2
    <3>2. (p * (-1) + x) % p = x
      BY <1>1, <1>2, -1 \in Int, DivModUnique, Zenon
    <3> QED
      BY <3>1, <3>2
  <2> QED
    BY <1>3, <2>1, <2>2
<1>6. bytes \in Seq(Digits) /\ Len(bytes) = n
  BY <1>4, BytesOfIsSeq
<1>7. NumberIn(n, bytes) = x
  <2>1. NumberIn(n, bytes) = y % p
    BY <1>4, NumberInBytesOf DEF p
  <2> QED
    BY <1>5, <2>1
<1>8. BytesOf(n, NumberIn(n, bytes)) = [i \in 1 .. n |-> bytes[i]]
  <2>1. \A i \in 1 .. n : bytes[i] \in Digits
    BY <1>6
  <2> HIDE DEF bytes
  <2> QED
    BY <2>1, BytesOfNumberIn
<1>9. [i \in 1 .. n |-> bytes[i]] = bytes
  BY <1>6
<1> HIDE DEF bytes
<1> QED
  BY <1>2, <1>4, <1>7, <1>8, <1>9 DEF bytes, x, y

(* The float in four bytes of a vector.                                    *)
LEMMA FloatIsWritten ==
  ASSUME NEW data \in Seq(Digits), NEW a \in 1 .. Len(data), a + 3 <= Len(data)
  PROVE  DataFromFloat(DataToFloat(SubSeq(data, a, a + 3)).value) = SubSeq(data, a, a + 3)
<1> DEFINE part == SubSeq(data, a, a + 3)
<1>1. part \in Seq(Digits) /\ Len(part) = 4
  BY PartOf
<1> HIDE DEF part
<1>2. \A i \in 1 .. 4 : part[i] \in Digits
  BY <1>1, ElementOfSeq
<1>3. DataToFloat(part).value = AsSigned(4, NumberIn(4, part))
  BY <1>1 DEF DataToFloat, ReadSigned, Read
<1>4. BytesOf(4, AsSigned(4, NumberIn(4, part))) = [i \in 1 .. 4 |-> part[i]]
  BY <1>2, 4 \in Nat, SignedIsWritten
<1>5. [i \in 1 .. 4 |-> part[i]] = part
  BY <1>1
<1> QED
  BY <1>3, <1>4, <1>5 DEF DataFromFloat, part

LEMMA ThreeFloatsAreWritten ==
  ASSUME NEW data \in Seq(Digits), NEW a \in 1 .. Len(data), a + 11 <= Len(data), NEW f,
         \A i \in 0 .. 2 :
           f[i] = DataToFloat(SubSeq(data, a + 4 * i, (a + 4 * i) + 3)).value
  PROVE  DataFromPosition(f[0], f[1], f[2]) = SubSeq(data, a, a + 11)
<1>1. /\ a + 4 * 0 = a /\ a + 4 * 1 = a + 4 /\ a + 4 * 2 = a + 8
      /\ (a + 4) + 3 = a + 7 /\ (a + 8) + 3 = a + 11
      /\ 0 \in 0 .. 2 /\ 1 \in 0 .. 2 /\ 2 \in 0 .. 2
  OBVIOUS
<1>2. /\ DataFromFloat(f[0]) = SubSeq(data, a, a + 3)
      /\ DataFromFloat(f[1]) = SubSeq(data, a + 4, a + 7)
      /\ DataFromFloat(f[2]) = SubSeq(data, a + 8, a + 11)
  <2>1. a + 4 \in 1 .. Len(data) /\ a + 8 \in 1 .. Len(data) /\ a + 3 <= Len(data)
        /\ (a + 4) + 3 <= Len(data) /\ (a + 8) + 3 <= Len(data)
    OBVIOUS
  <2>2. /\ f[0] = DataToFloat(SubSeq(data, a, a + 3)).value
        /\ f[1] = DataToFloat(SubSeq(data, a + 4, (a + 4) + 3)).value
        /\ f[2] = DataToFloat(SubSeq(data, a + 8, (a + 8) + 3)).value
    BY <1>1
  <2> QED
    BY <1>1, <2>1, <2>2, FloatIsWritten
<1>3. SubSeq(data, a, a + 3) \o SubSeq(data, a + 4, a + 7) = SubSeq(data, a, a + 7)
  <2>1. a + 3 \in a - 1 .. Len(data) /\ a + 7 \in a + 3 .. Len(data) /\ (a + 3) + 1 = a + 4
        /\ a \in 1 .. Len(data) + 1
    OBVIOUS
  <2>2. SubSeq(data, a, a + 3) \o SubSeq(data, (a + 3) + 1, a + 7) = SubSeq(data, a, a + 7)
    BY <2>1, PartsJoin
  <2> QED
    BY <2>1, <2>2
<1>4. SubSeq(data, a, a + 7) \o SubSeq(data, a + 8, a + 11) = SubSeq(data, a, a + 11)
  <2>1. a + 7 \in a - 1 .. Len(data) /\ a + 11 \in a + 7 .. Len(data) /\ (a + 7) + 1 = a + 8
        /\ a \in 1 .. Len(data) + 1
    OBVIOUS
  <2>2. SubSeq(data, a, a + 7) \o SubSeq(data, (a + 7) + 1, a + 11) = SubSeq(data, a, a + 11)
    BY <2>1, PartsJoin
  <2> QED
    BY <2>1, <2>2
<1> QED
  BY <1>2, <1>3, <1>4, Zenon DEF DataFromPosition

(* What a binary value is made of, unlike the symbols of a text.           *)
IsBytes(v) == v[1] = "BLOB" => v[2] \in Seq(Digits)

(* A position of 12 or 36 bytes gives back its first three numbers.        *)
LEMMA PositionsAreKept ==
  ASSUME NEW v, IsBytes(v), ToPosition(v).ok
  PROVE  PositionIsKept(v, ToPosition(v))
<1> DEFINE data == v[2]
           f == FloatsIn(data, 3)
<1>1. v[1] = "BLOB" /\ Len(data) \in {12, 36} /\ ToPosition(v).value = f
  BY DEF ToPosition, ToFloats, Read
<1>2. data \in Seq(Digits)
  BY <1>1 DEF IsBytes
<1>3. \A i \in 1 .. 3 : f[i] = DataToFloat(SubSeq(data, 4 * i - 3, 4 * i)).value
  BY DEF FloatsIn
<1> HIDE DEF f, data
<1> DEFINE g == [i \in 0 .. 2 |-> f[i + 1]]
<1>4. ASSUME NEW i \in 0 .. 2
      PROVE  g[i] = DataToFloat(SubSeq(data, 1 + 4 * i, (1 + 4 * i) + 3)).value
  <2>1. i + 1 \in 1 .. 3 /\ 4 * (i + 1) - 3 = 1 + 4 * i /\ 4 * (i + 1) = (1 + 4 * i) + 3
    OBVIOUS
  <2>2. f[i + 1] = DataToFloat(SubSeq(data, 4 * (i + 1) - 3, 4 * (i + 1))).value
    BY <1>3, <2>1
  <2> QED
    BY <2>1, <2>2
<1>5. g[0] = f[1] /\ g[1] = f[2] /\ g[2] = f[3]
  OBVIOUS
<1> HIDE DEF g
<1>6. 1 \in 1 .. Len(data) /\ 1 + 11 <= Len(data) /\ 1 + 11 = 12
  <2>1. CASE Len(data) = 12
    BY <2>1
  <2>2. CASE Len(data) = 36
    BY <2>2
  <2> QED
    BY <1>1, <2>1, <2>2
<1>7. DataFromPosition(g[0], g[1], g[2]) = SubSeq(data, 1, 1 + 11)
  BY <1>2, <1>4, <1>6, ThreeFloatsAreWritten
<1> QED
  BY <1>1, <1>5, <1>6, <1>7 DEF PositionIsKept, data

(* Aiming angles and a position give back the bytes they came from.        *)
LEMMA AimingsAreKept ==
  ASSUME NEW v, IsBytes(v), ToAimingAndPosition(v).ok
  PROVE  AimingIsKept(v, ToAimingAndPosition(v))
<1> DEFINE data == v[2]
           f == FloatsIn(data, 6)
<1>1. v[1] = "BLOB" /\ Len(data) = 24 /\ ToAimingAndPosition(v).value = f
  BY DEF ToAimingAndPosition, ToFloats, Read
<1>2. data \in Seq(Digits)
  BY <1>1 DEF IsBytes
<1>3. \A i \in 1 .. 6 : f[i] = DataToFloat(SubSeq(data, 4 * i - 3, 4 * i)).value
  BY DEF FloatsIn
<1> HIDE DEF f, data
<1>4. ASSUME NEW j \in {0, 3}
      PROVE  DataFromPosition(f[j + 1], f[j + 2], f[j + 3])
               = SubSeq(data, 4 * j + 1, 4 * j + 12)
  <2> DEFINE g == [i \in 0 .. 2 |-> f[j + 1 + i]]
             a == 4 * j + 1
  <2>1. ASSUME NEW i \in 0 .. 2
        PROVE  g[i] = DataToFloat(SubSeq(data, a + 4 * i, (a + 4 * i) + 3)).value
    <3>1. /\ j + 1 + i \in 1 .. 6 /\ 4 * (j + 1 + i) - 3 = a + 4 * i
          /\ 4 * (j + 1 + i) = (a + 4 * i) + 3
      OBVIOUS
    <3>2. f[j + 1 + i] = DataToFloat(SubSeq(data, 4 * (j + 1 + i) - 3, 4 * (j + 1 + i))).value
      BY <1>3, <3>1
    <3> QED
      BY <3>1, <3>2
  <2>2. g[0] = f[j + 1] /\ g[1] = f[j + 2] /\ g[2] = f[j + 3]
    OBVIOUS
  <2>3. a \in 1 .. Len(data) /\ a + 11 <= Len(data) /\ a + 11 = 4 * j + 12
    BY <1>1
  <2> HIDE DEF g, a
  <2>4. DataFromPosition(g[0], g[1], g[2]) = SubSeq(data, a, a + 11)
    BY <1>2, <2>1, <2>3, ThreeFloatsAreWritten
  <2> QED
    BY <2>2, <2>3, <2>4 DEF a
<1>5. /\ DataFromPosition(f[1], f[2], f[3]) = SubSeq(data, 1, 12)
      /\ DataFromPosition(f[4], f[5], f[6]) = SubSeq(data, 13, 24)
  <2>1. 0 \in {0, 3} /\ 3 \in {0, 3}
    OBVIOUS
  <2>2. DataFromPosition(f[0 + 1], f[0 + 2], f[0 + 3]) = SubSeq(data, 4 * 0 + 1, 4 * 0 + 12)
    BY <1>4, <2>1
  <2>3. DataFromPosition(f[3 + 1], f[3 + 2], f[3 + 3]) = SubSeq(data, 4 * 3 + 1, 4 * 3 + 12)
    BY <1>4, <2>1
  <2> QED
    BY <2>2, <2>3
<1>6. SubSeq(data, 1, 12) \o SubSeq(data, 13, 24) = data
  <2>1. 1 \in 1 .. Len(data) + 1 /\ 12 \in 1 - 1 .. Len(data) /\ 24 \in 12 .. Len(data)
        /\ 12 + 1 = 13
    BY <1>1
  <2>2. SubSeq(data, 1, 12) \o SubSeq(data, 12 + 1, 24) = SubSeq(data, 1, 24)
    BY <1>2, <2>1, PartsJoin
  <2>3. SubSeq(data, 1, 24) = data
    BY <1>1, <1>2
  <2> QED
    BY <2>1, <2>2, <2>3
<1> QED
  BY <1>1, <1>5, <1>6 DEF AimingIsKept, DataFromAimingAndPosition, data

LEMMA ListSizeIsNumber ==
  ASSUME NEW data \in Seq(Digits), Len(data) >= 2
  PROVE  /\ ListSize(data) = NumberIn(2, data) /\ ListSize(data) \in Nat
         /\ BytesOf(2, ListSize(data)) = SubSeq(data, 1, 2)
<1>1. ListSize(data) = NumberIn(2, data)
  BY DEF ListSize, DataToUint16, ReadUnsigned, Read
<1>2. \A i \in 1 .. 2 : data[i] \in Digits
  OBVIOUS
<1>3. /\ NumberIn(2, data) \in 0 .. Power[2] - 1
      /\ BytesOf(2, NumberIn(2, data)) = [i \in 1 .. 2 |-> data[i]]
  BY <1>2, 2 \in Nat, BytesOfNumberIn
<1>4. [i \in 1 .. 2 |-> data[i]] = SubSeq(data, 1, 2)
  OBVIOUS
<1>5. Power[2] \in Nat
  BY PowerIsDefined
<1> QED
  BY <1>1, <1>3, <1>4, <1>5

(* A list of flags has one byte for each flag behind its length.           *)
LEMMA ListsOfBoolsAreKept ==
  ASSUME NEW v, IsBytes(v), ToBoolVector(v).ok
  PROVE  BoolsAreKept(v, ToBoolVector(v))
<1> DEFINE data == v[2]
           n == ListSize(data)
           value == [i \in 1 .. n |-> DataToBool(SubSeq(data, i + 2, i + 2)).value]
<1>1. v[1] = "BLOB" /\ Len(data) >= 2 /\ Len(data) = n + 2 /\ ToBoolVector(v).value = value
  BY Zenon DEF ToBoolVector, Read
<1>2. data \in Seq(Digits)
  BY <1>1 DEF IsBytes
<1>3. n \in Nat
  BY <1>1, <1>2, ListSizeIsNumber
<1> HIDE DEF data, n
<1>4. Len(value) = n
  BY <1>3
<1>5. ASSUME NEW i \in 1 .. n PROVE value[i] <=> data[i + 2] = 1
  <2> DEFINE part == SubSeq(data, i + 2, i + 2)
  <2>1. Len(part) = 1 /\ part[1] = data[i + 2]
    BY <1>1, <1>2, <1>3
  <2> HIDE DEF part
  <2>2. DataToBool(part).value <=> part[1] = 1
    BY <2>1 DEF DataToBool, Read
  <2> QED
    BY <2>1, <2>2 DEF part
<1> HIDE DEF value
<1>6. Len(data) = 2 + n
  BY <1>1, <1>3
<1> QED
  BY <1>1, <1>4, <1>5, <1>6, Zenon DEF BoolsAreKept, data

-----------------------------------------------------------------------------
(* Sequences put behind each other.                                        *)
RunsOver(u, n, more) == u[0] = << >> /\ \A i \in 1 .. n : u[i] = u[i - 1] \o more[i]

LEMMA Flattened ==
  ASSUME NEW n \in Nat, NEW more, more = [i \in 1 .. n |-> more[i]],
         \A i \in 1 .. n : more[i] \in Seq(Int)
  PROVE  \E u : /\ RunsOver(u, n, more) /\ Seqs!FlattenSeq(more) = u[n]
                /\ \A i \in 0 .. n : u[i] \in Seq(Int)
<1>1. Len(more) = n
  <2>1. more \in [1 .. n -> Seq(Int)]
    <3> DEFINE f == [i \in 1 .. n |-> more[i]]
    <3>1. f \in [1 .. n -> Seq(Int)]
      OBVIOUS
    <3> QED
      BY <3>1, Zenon
  <2> QED
    BY <2>1, FunctionIsSeq, Zenon
<1>2. CASE n = 0
  <2>1. more = << >>
    BY <1>1, <1>2
  <2>2. Seqs!FlattenSeq(more) = << >>
    BY <2>1, Len(<< >>) = 0, Zenon DEF Seqs!FlattenSeq
  <2> DEFINE u == [i \in 0 .. n |-> << >>]
  <2>3. u[0] = << >> /\ u[n] = << >> /\ \A i \in 0 .. n : u[i] \in Seq(Int)
    OBVIOUS
  <2>4. 1 .. n = {}
    BY <1>2
  <2> QED
    BY <2>2, <2>3, <2>4, Zenon DEF RunsOver
<1>3. CASE n # 0
  <2> DEFINE T == Seq(Int)
             f == [i \in Nat |-> [x \in T |-> IF i + 1 \in 1 .. n THEN x \o more[i + 1] ELSE x]]
  <2>1. f \in Steps(T)
    <3>1. ASSUME NEW i \in Nat, NEW x \in T
          PROVE  (IF i + 1 \in 1 .. n THEN x \o more[i + 1] ELSE x) \in T
      <4>1. CASE i + 1 \in 1 .. n
        BY <4>1, ConcatProperties
      <4> QED
        BY <4>1
    <3> HIDE DEF T
    <3> QED
      BY <3>1 DEF Steps
  <2>2. \A i \in 0 .. n - 1, x \in T : f[i][x] = x \o more[i + 1]
    OBVIOUS
  <2>3. << >> \in T
    OBVIOUS
  <2> HIDE DEF f, T
  <2>4. PICK g : Follows(g, T, << >>, f)
    BY <2>1, <2>3, PrimitiveRecursion
  <2>5. ASSUME NEW i \in 1 .. n
        PROVE  g[i] \in T /\ g[i] = g[i - 1] \o more[i]
    <3>1. i - 1 \in 0 .. n - 1 /\ (i - 1) + 1 = i /\ i - 1 \in Nat
      OBVIOUS
    <3>2. g[i] = f[i - 1][g[i - 1]] /\ g[i - 1] \in T /\ g[i] \in T
      BY <2>4, <3>1 DEF Follows
    <3> QED
      BY <2>2, <3>1, <3>2, Zenon
  <2>6. g[0] = << >>
    BY <2>4, Zenon DEF Follows
  <2> DEFINE h == [i \in 1 .. n |-> g[i]]
             u == CHOOSE u : u = [i \in 1 .. n |-> IF i = 1 THEN more[i] ELSE u[i - 1] \o more[i]]
  <2>7. ASSUME NEW i \in 1 .. n
        PROVE  h[i] = IF i = 1 THEN more[i] ELSE h[i - 1] \o more[i]
    <3>1. h[i] = g[i - 1] \o more[i]
      BY <2>5
    <3>2. CASE i = 1
      <4>1. g[i - 1] = << >>
        BY <2>6, <3>2
      <4> QED
        BY <3>1, <3>2, <4>1, EmptyConcat
    <3>3. CASE i # 1
      <4>1. i - 1 \in 1 .. n
        BY <3>3
      <4> QED
        BY <3>1, <3>3, <4>1
    <3> QED
      BY <3>2, <3>3
  <2>8. h = [i \in 1 .. n |-> IF i = 1 THEN more[i] ELSE h[i - 1] \o more[i]]
    BY <2>7
  <2>9. u = [i \in 1 .. n |-> IF i = 1 THEN more[i] ELSE u[i - 1] \o more[i]]
    <3> HIDE DEF h
    <3> QED
      BY <2>8, Zenon
  <2>10. Seqs!FlattenSeq(more) = u[n]
    <3>1. Len(more) # 0
      BY <1>1, <1>3
    <3> QED
      BY <1>1, <3>1, Zenon DEF Seqs!FlattenSeq
  <2> HIDE DEF u, h
  <2> DEFINE w == [i \in 0 .. n |-> IF i = 0 THEN << >> ELSE u[i]]
  <2>11. w[0] = << >> /\ w[n] = u[n]
    BY <1>3
  <2>12. ASSUME NEW i \in 1 .. n PROVE w[i] = w[i - 1] \o more[i]
    <3>3. w[i] = u[i]
      OBVIOUS
    <3>4. u[i] = IF i = 1 THEN more[i] ELSE u[i - 1] \o more[i]
      BY <2>9, Zenon
    <3>1. w[i] = IF i = 1 THEN more[i] ELSE u[i - 1] \o more[i]
      BY <3>3, <3>4, Zenon
    <3>2. w[i - 1] = IF i = 1 THEN << >> ELSE u[i - 1]
      OBVIOUS
    <3> QED
      BY <3>1, <3>2, EmptyConcat
  <2> HIDE DEF w
  <2> DEFINE S == {i \in Nat : i <= n => w[i] \in Seq(Int)}
  <2>13. Nat \subseteq S
    <3>1. 0 \in S
      <4>1. << >> \in Seq(Int) /\ 0 \in Nat
        OBVIOUS
      <4> QED
        BY <2>11, <4>1, Zenon
    <3>2. ASSUME NEW i \in Nat, i \in S PROVE i + 1 \in S
      <4> SUFFICES ASSUME i + 1 <= n PROVE w[i + 1] \in Seq(Int)
        OBVIOUS
      <4>1. i + 1 \in 1 .. n /\ (i + 1) - 1 = i /\ i <= n
        OBVIOUS
      <4>2. w[i + 1] = w[i] \o more[i + 1]
        BY <2>12, <4>1
      <4>3. w[i] \in Seq(Int) /\ more[i + 1] \in Seq(Int)
        BY <3>2, <4>1
      <4> QED
        BY <4>2, <4>3, ConcatProperties
    <3> HIDE DEF S
    <3> QED
      BY <3>1, <3>2, SetInduction
  <2>14. \A i \in 0 .. n : w[i] \in Seq(Int)
    BY <2>13
  <2> QED
    BY <2>10, <2>11, <2>12, <2>14, Zenon DEF RunsOver
<1> QED
  BY <1>2, <1>3

(* The first of them stands in front of what the others make.              *)
LEMMA FlattenedWithFirst ==
  ASSUME NEW n \in Nat, NEW more, more = [i \in 1 .. n |-> more[i]],
         \A i \in 1 .. n : more[i] \in Seq(Int),
         NEW all, all = [i \in 1 .. n + 1 |-> all[i]], all[1] \in Seq(Int),
         \A i \in 1 .. n : all[i + 1] = more[i]
  PROVE  Seqs!FlattenSeq(all) = all[1] \o Seqs!FlattenSeq(more)
<1>1. PICK u : /\ RunsOver(u, n, more) /\ Seqs!FlattenSeq(more) = u[n]
               /\ \A i \in 0 .. n : u[i] \in Seq(Int)
  BY Flattened
<1>2. \A i \in 1 .. n + 1 : all[i] \in Seq(Int)
  <2>1. ASSUME NEW i \in 1 .. n + 1, i # 1 PROVE all[i] \in Seq(Int)
    <3>1. i - 1 \in 1 .. n /\ (i - 1) + 1 = i
      BY <2>1
    <3>2. all[(i - 1) + 1] = more[i - 1]
      BY <3>1
    <3> QED
      BY <3>1, <3>2
  <2> QED
    BY <2>1
<1>3. PICK w : /\ RunsOver(w, n + 1, all) /\ Seqs!FlattenSeq(all) = w[n + 1]
               /\ \A i \in 0 .. n + 1 : w[i] \in Seq(Int)
  <2>1. n + 1 \in Nat
    OBVIOUS
  <2> QED
    BY <1>2, <2>1, Flattened
<1> DEFINE S == {i \in Nat : i <= n => w[i + 1] = all[1] \o u[i]}
<1>4. Nat \subseteq S
  <2>1. 0 \in S
    <3>1. 1 \in 1 .. n + 1 /\ 1 - 1 = 0 /\ 0 + 1 = 1
      OBVIOUS
    <3>2. w[1] = << >> \o all[1] /\ u[0] = << >>
      BY <1>1, <1>3, <3>1 DEF RunsOver
    <3>3. << >> \o all[1] = all[1] /\ all[1] \o << >> = all[1]
      BY EmptyConcat
    <3> QED
      BY <3>1, <3>2, <3>3
  <2>2. ASSUME NEW i \in Nat, i \in S PROVE i + 1 \in S
    <3> SUFFICES ASSUME i + 1 <= n PROVE w[(i + 1) + 1] = all[1] \o u[i + 1]
      BY i + 1 \in Nat, Zenon
    <3> DEFINE j == (i + 1) + 1
    <3>1. /\ j \in 1 .. n + 1 /\ j - 1 = i + 1 /\ i + 1 \in 1 .. n /\ (i + 1) - 1 = i
          /\ i \in 0 .. n /\ i <= n
      OBVIOUS
    <3>2. w[j] = w[i + 1] \o all[j]
      BY <1>3, <3>1 DEF RunsOver
    <3>3. all[j] = more[i + 1]
      BY <3>1
    <3>4. u[i + 1] = u[i] \o more[i + 1]
      BY <1>1, <3>1 DEF RunsOver
    <3>5. w[i + 1] = all[1] \o u[i]
      BY <2>2, <3>1
    <3> DEFINE a == u[i]
               b == more[i + 1]
               first == all[1]
    <3>6. a \in Seq(Int) /\ b \in Seq(Int) /\ first \in Seq(Int)
      BY <1>1, <3>1
    <3> HIDE DEF a, b, first, j
    <3>7. (first \o a) \o b = first \o (a \o b)
      BY <3>6, JoinsAssociate
    <3> QED
      BY <3>2, <3>3, <3>4, <3>5, <3>7 DEF a, b, first, j
  <2> HIDE DEF S
  <2> QED
    BY <2>1, <2>2, SetInduction
<1>5. w[n + 1] = all[1] \o u[n]
  BY <1>4, n <= n, Zenon
<1> QED
  BY <1>1, <1>3, <1>5

-----------------------------------------------------------------------------
(* Lists of strings.                                                       *)

(* A step of the reader, from byte p.                                      *)
Parsed(data, parse, p) ==
  IF p + 1 > Len(data) THEN Read(TRUE, << >>)
  ELSE LET last == p + 1 + NumberIn(2, SubSeq(data, p, p + 1))
       IN  IF last > Len(data) THEN Read(FALSE, << >>)
           ELSE [parse[last + 1] EXCEPT !.value = << SubSeq(data, p + 2, last) >> \o @]

Parses(parse, data) == parse = [p \in 3 .. Len(data) + 1 |-> Parsed(data, parse, p)]

(* The length of a string, and where it ends.                              *)
LEMMA LengthIsRead ==
  ASSUME NEW data \in Seq(Digits), NEW p \in 1 .. Len(data), p + 1 <= Len(data)
  PROVE  /\ NumberIn(2, SubSeq(data, p, p + 1)) \in Nat
         /\ BytesOf(2, NumberIn(2, SubSeq(data, p, p + 1))) = SubSeq(data, p, p + 1)
<1> DEFINE part == SubSeq(data, p, p + 1)
<1>1. part \in Seq(Digits) /\ Len(part) = 2
  BY PartOf
<1> HIDE DEF part
<1>2. \A i \in 1 .. 2 : part[i] \in Digits
  BY <1>1, ElementOfSeq
<1>3. /\ NumberIn(2, part) \in 0 .. Power[2] - 1
      /\ BytesOf(2, NumberIn(2, part)) = [i \in 1 .. 2 |-> part[i]]
  BY <1>2, 2 \in Nat, BytesOfNumberIn
<1>4. [i \in 1 .. 2 |-> part[i]] = part
  BY <1>1
<1>5. Power[2] \in Nat
  BY 2 \in Nat, PowerIsDefined
<1> QED
  BY <1>3, <1>4, <1>5 DEF part

(* The reader looks ahead only.                                            *)
LEMMA ParsedAhead ==
  ASSUME NEW data \in Seq(Digits), NEW p \in 1 .. Len(data) + 1, NEW f, NEW g,
         \A i \in p + 1 .. Len(data) + 1 : f[i] = g[i]
  PROVE  Parsed(data, f, p) = Parsed(data, g, p)
<1>1. CASE p + 1 > Len(data)
  BY <1>1, Zenon DEF Parsed
<1>2. CASE ~ (p + 1 > Len(data))
  <2> DEFINE last == p + 1 + NumberIn(2, SubSeq(data, p, p + 1))
  <2>1. p \in 1 .. Len(data) /\ p + 1 <= Len(data)
    BY <1>2
  <2>2. NumberIn(2, SubSeq(data, p, p + 1)) \in Nat
    BY <2>1, LengthIsRead
  <2>3. last > Len(data) \/ last + 1 \in p + 1 .. Len(data) + 1
    BY <2>2
  <2>4. \A x : Parsed(data, x, p) =
                 IF last > Len(data) THEN Read(FALSE, << >>)
                 ELSE [x[last + 1] EXCEPT !.value = << SubSeq(data, p + 2, last) >> \o @]
    BY <1>2, Zenon DEF Parsed
  <2> HIDE DEF last
  <2> QED
    BY <2>3, <2>4, Zenon
<1> QED
  BY <1>1, <1>2

(* So there is such a reader.                                              *)
LEMMA ParseExists ==
  ASSUME NEW data \in Seq(Digits), Len(data) >= 2
  PROVE  \E parse : Parses(parse, data)
<1> DEFINE N == Len(data)
           Part(f, k) == f = [p \in N + 1 - k .. N + 1 |-> Parsed(data, f, p)]
           S == {k \in Nat : k <= N - 2 => \E f : Part(f, k)}
<1>0. N \in Nat /\ N - 2 \in Nat
  OBVIOUS
<1>1. 0 \in S
  <2> DEFINE f == [p \in N + 1 - 0 .. N + 1 |-> Read(TRUE, << >>)]
  <2>1. ASSUME NEW p \in N + 1 - 0 .. N + 1, NEW x PROVE Parsed(data, x, p) = Read(TRUE, << >>)
    <3>1. p + 1 > Len(data)
      BY <1>0
    <3> QED
      BY <3>1, Zenon DEF Parsed
  <2>2. Part(f, 0)
    BY <2>1, Zenon
  <2> HIDE DEF f
  <2> QED
    BY <2>2, 0 \in Nat, Zenon
<1>2. ASSUME NEW k \in Nat, k \in S PROVE k + 1 \in S
  <2> SUFFICES ASSUME k + 1 <= N - 2 PROVE \E g : Part(g, k + 1)
    BY k + 1 \in Nat, Zenon
  <2>1. k <= N - 2
    BY <1>0
  <2>2. PICK f : Part(f, k)
    BY <1>2, <2>1, Zenon
  <2> DEFINE g == [p \in N + 1 - (k + 1) .. N + 1 |->
                     IF p >= N + 1 - k THEN f[p] ELSE Parsed(data, f, p)]
  <2>3. ASSUME NEW i \in N + 1 - k .. N + 1
        PROVE  g[i] = f[i] /\ f[i] = Parsed(data, f, i)
    <3>1. i \in N + 1 - (k + 1) .. N + 1 /\ i >= N + 1 - k
      BY <1>0
    <3>2. g[i] = f[i]
      BY <3>1, Zenon
    <3>3. f[i] = Parsed(data, f, i)
      BY <2>2, Zenon
    <3> QED
      BY <3>2, <3>3
  <2>4. ASSUME NEW p \in N + 1 - (k + 1) .. N + 1 PROVE g[p] = Parsed(data, g, p)
    <3>1. g[p] = Parsed(data, f, p)
      <4>1. CASE p >= N + 1 - k
        <5>1. p \in N + 1 - k .. N + 1
          BY <1>0, <4>1
        <5> HIDE DEF g
        <5> QED
          BY <2>3, <5>1, Zenon
      <4>2. CASE ~ (p >= N + 1 - k)
        BY <4>2, Zenon
      <4> QED
        BY <4>1, <4>2, Zenon
    <3>2. p \in 1 .. Len(data) + 1
      BY <1>0
    <3>3. \A i \in p + 1 .. Len(data) + 1 : f[i] = g[i]
      <4> HIDE DEF g
      <4>1. \A i \in p + 1 .. Len(data) + 1 : i \in N + 1 - k .. N + 1
        BY <1>0
      <4> QED
        BY <2>3, <4>1, Zenon
    <3> HIDE DEF g
    <3>4. Parsed(data, f, p) = Parsed(data, g, p)
      BY <3>2, <3>3, ParsedAhead
    <3> QED
      BY <3>1, <3>4
  <2>5. Part(g, k + 1)
    <3>1. g = [p \in N + 1 - (k + 1) .. N + 1 |-> g[p]]
      BY Zenon
    <3> HIDE DEF g
    <3> QED
      BY <2>4, <3>1, Zenon
  <2> HIDE DEF g
  <2> QED
    BY <2>5, Zenon
<1>3. N - 2 \in S
  <2> HIDE DEF S
  <2>1. Nat \subseteq S
    BY <1>1, <1>2, SetInduction
  <2> QED
    BY <1>0, <2>1
<1>4. PICK f : Part(f, N - 2)
  BY <1>0, <1>3, N - 2 <= N - 2, Zenon
<1>5. N + 1 - (N - 2) = 3
  BY <1>0
<1> QED
  BY <1>4, <1>5, Zenon DEF Parses

(* The bytes of a list, but for its size.                                  *)
Written(list) == Seqs!FlattenSeq([i \in 1 .. Len(list) |-> DataFromString(list[i])])

LEMMA StringIsSeq ==
  ASSUME NEW s \in Seq(Int)
  PROVE  DataFromString(s) \in Seq(Int)
<1>1. Len(s) \in Int /\ Digits \subseteq Int /\ 2 \in Nat
  BY ByteSizeAssumption DEF Digits
<1>2. BytesOf(2, Len(s)) \in Seq(Digits)
  BY <1>1, BytesOfIsSeq
<1>3. BytesOf(2, Len(s)) \in Seq(Int)
  BY <1>1, <1>2, SeqMonotonic
<1> QED
  BY <1>3, ConcatProperties DEF DataFromString

LEMMA WrittenFirst ==
  ASSUME NEW list \in Seq(Seq(Int)), NEW s \in Seq(Int)
  PROVE  Written(<< s >> \o list) = DataFromString(s) \o Written(list)
<1> DEFINE n == Len(list)
           longer == << s >> \o list
           more == [i \in 1 .. n |-> DataFromString(list[i])]
           all == [i \in 1 .. n + 1 |-> DataFromString(longer[i])]
<1>1. n \in Nat /\ << s >> \in Seq(Seq(Int)) /\ Len(<< s >>) = 1 /\ << s >>[1] = s
  OBVIOUS
<1>2. /\ longer \in Seq(Seq(Int)) /\ Len(longer) = 1 + n
      /\ \A i \in 1 .. 1 + n : longer[i] = IF i <= 1 THEN << s >>[i] ELSE list[i - 1]
  BY <1>1, ConcatProperties
<1>3. longer[1] = s
  BY <1>1, <1>2
<1>4. \A i \in 1 .. n : longer[i + 1] = list[i]
  BY <1>1, <1>2
<1> HIDE DEF longer
<1>5. more = [i \in 1 .. n |-> more[i]] /\ all = [i \in 1 .. n + 1 |-> all[i]]
  BY Zenon
<1>6. \A i \in 1 .. n : more[i] \in Seq(Int)
  <2>1. ASSUME NEW i \in 1 .. n PROVE list[i] \in Seq(Int)
    BY ElementOfSeq
  <2> QED
    BY <2>1, StringIsSeq
<1>7. all[1] = DataFromString(s) /\ all[1] \in Seq(Int)
  <2>1. 1 \in 1 .. n + 1
    BY <1>1
  <2> QED
    BY <1>3, <2>1, StringIsSeq, Zenon
<1>8. \A i \in 1 .. n : all[i + 1] = more[i]
  <2>1. \A i \in 1 .. n : i + 1 \in 1 .. n + 1
    BY <1>1
  <2> QED
    BY <1>4, <2>1, Zenon
<1>9. Written(list) = Seqs!FlattenSeq(more)
  BY Zenon DEF Written
<1>10. Written(longer) = Seqs!FlattenSeq(all)
  <2>1. Len(longer) = n + 1
    BY <1>1, <1>2
  <2> QED
    BY <2>1, Zenon DEF Written
<1> HIDE DEF more, all
<1>11. Seqs!FlattenSeq(all) = all[1] \o Seqs!FlattenSeq(more)
  BY <1>1, <1>5, <1>6, <1>7, <1>8, FlattenedWithFirst, Zenon
<1> QED
  BY <1>7, <1>9, <1>10, <1>11, Zenon DEF longer

LEMMA NothingIsWritten == Written(<< >>) = << >>
<1>1. [i \in 1 .. Len(<< >>) |-> DataFromString(<< >>[i])] = << >>
  OBVIOUS
<1> QED
  BY <1>1, Len(<< >>) = 0, Zenon DEF Written, Seqs!FlattenSeq

(* A list that was read from byte p has the bytes from there, but for one  *)
(* at most at the end.                                                     *)
IsReadFrom(data, p, list) ==
  /\ list \in Seq(Seq(Int))
  /\ \E q \in p - 1 .. Len(data) :
       Len(data) - q <= 1 /\ Written(list) = SubSeq(data, p, q)

LEMMA StringInFront ==
  ASSUME NEW data \in Seq(Digits), NEW p \in 1 .. Len(data), p + 1 <= Len(data), NEW last,
         last = p + 1 + NumberIn(2, SubSeq(data, p, p + 1)), last <= Len(data),
         NEW list, IsReadFrom(data, last + 1, list)
  PROVE  IsReadFrom(data, p, << SubSeq(data, p + 2, last) >> \o list)
<1> DEFINE s == SubSeq(data, p + 2, last)
           n == NumberIn(2, SubSeq(data, p, p + 1))
<1>1. n \in Nat /\ BytesOf(2, n) = SubSeq(data, p, p + 1)
  BY LengthIsRead
<1>0. last = (p + 1) + n
  OBVIOUS
<1> HIDE DEF n
<1>2. last \in p + 1 .. Len(data) /\ last - (p + 1) = n
  BY <1>0, <1>1
<1>3. s \in Seq(Digits) /\ Len(s) = n
  <2>1. p + 2 \in 1 .. Len(data) + 1 /\ last \in (p + 2) - 1 .. Len(data)
        /\ last + 1 - (p + 2) = n
    BY <1>2
  <2>2. s \in Seq(Digits) /\ Len(s) = last + 1 - (p + 2)
    BY <2>1, PartOf
  <2> QED
    BY <2>1, <2>2
<1>4. DataFromString(s) = SubSeq(data, p, last)
  <2>1. DataFromString(s) = SubSeq(data, p, p + 1) \o s
    BY <1>1, <1>3 DEF DataFromString
  <2>2. p \in 1 .. Len(data) + 1 /\ p + 1 \in p - 1 .. Len(data) /\ (p + 1) + 1 = p + 2
        /\ last \in p + 1 .. Len(data)
    BY <1>2
  <2>3. SubSeq(data, p, p + 1) \o SubSeq(data, (p + 1) + 1, last) = SubSeq(data, p, last)
    BY <2>2, PartsJoin
  <2> QED
    BY <2>1, <2>2, <2>3
<1>5. s \in Seq(Int)
  <2>1. Digits \subseteq Int
    BY ByteSizeAssumption DEF Digits
  <2> HIDE DEF s
  <2> QED
    BY <1>3, <2>1, SeqMonotonic
<1>6. PICK q \in (last + 1) - 1 .. Len(data) :
        Len(data) - q <= 1 /\ Written(list) = SubSeq(data, last + 1, q)
  BY Zenon DEF IsReadFrom
<1>7. list \in Seq(Seq(Int))
  BY Zenon DEF IsReadFrom
<1> HIDE DEF s
<1>8. Written(<< s >> \o list) = DataFromString(s) \o Written(list)
  BY <1>5, <1>7, WrittenFirst
<1>9. Written(<< s >> \o list) = SubSeq(data, p, q)
  <2>1. p \in 1 .. Len(data) + 1 /\ last \in p - 1 .. Len(data) /\ q \in last .. Len(data)
    BY <1>2, <1>6
  <2>2. SubSeq(data, p, last) \o SubSeq(data, last + 1, q) = SubSeq(data, p, q)
    BY <2>1, PartsJoin
  <2> QED
    BY <1>4, <1>6, <1>8, <2>2
<1>10. q \in p - 1 .. Len(data)
  BY <1>2, <1>6
<1>11. << s >> \o list \in Seq(Seq(Int))
  <2>1. << s >> \in Seq(Seq(Int))
    BY <1>5
  <2> QED
    BY <1>7, <2>1, ConcatProperties
<1> QED
  BY <1>6, <1>9, <1>10, <1>11, Zenon DEF IsReadFrom, s

(* The reader of a list of strings returns what the bytes hold, or fails.  *)
LEMMA ListIsRead ==
  ASSUME NEW data \in Seq(Digits), Len(data) >= 2, NEW parse, Parses(parse, data)
  PROVE  \E ok \in BOOLEAN : \E list : /\ parse[3] = Read(ok, list)
                                       /\ ok => IsReadFrom(data, 3, list)
<1> DEFINE N == Len(data)
           Fine(p) == \E ok \in BOOLEAN : \E list : /\ parse[p] = Read(ok, list)
                                                    /\ ok => IsReadFrom(data, p, list)
           S == {k \in Nat : k <= N - 2 => \A p \in N + 1 - k .. N + 1 : Fine(p)}
<1>0. N \in Nat /\ N - 2 \in Nat
  OBVIOUS
<1>1. ASSUME NEW p \in 3 .. N + 1, \A i \in p + 1 .. N + 1 : Fine(i) PROVE Fine(p)
  <2>0. parse[p] = Parsed(data, parse, p)
    BY Zenon DEF Parses
  <2>1. CASE p + 1 > Len(data)
    <3>1. parse[p] = Read(TRUE, << >>)
      BY <2>0, <2>1, Zenon DEF Parsed
    <3>2. SubSeq(data, p, p - 1) = << >> /\ p - 1 \in p - 1 .. Len(data)
          /\ Len(data) - (p - 1) <= 1 /\ << >> \in Seq(Seq(Int))
      BY <2>1
    <3>3. IsReadFrom(data, p, << >>)
      BY <3>2, NothingIsWritten, Zenon DEF IsReadFrom
    <3> QED
      BY <3>1, <3>3, Zenon
  <2>2. CASE ~ (p + 1 > Len(data))
    <3> DEFINE last == p + 1 + NumberIn(2, SubSeq(data, p, p + 1))
               s == SubSeq(data, p + 2, last)
    <3>1. p \in 1 .. Len(data) /\ p + 1 <= Len(data)
      BY <2>2
    <3>2. NumberIn(2, SubSeq(data, p, p + 1)) \in Nat
      BY <3>1, LengthIsRead
    <3>3. parse[p] = IF last > Len(data) THEN Read(FALSE, << >>)
                     ELSE [parse[last + 1] EXCEPT !.value = << s >> \o @]
      BY <2>0, <2>2, Zenon DEF Parsed
    <3>4. CASE last > Len(data)
      BY <3>3, <3>4, Zenon
    <3>5. CASE ~ (last > Len(data))
      <4>1. last <= Len(data) /\ last + 1 \in p + 1 .. N + 1
        BY <3>2, <3>5
      <4>0. PICK ok \in BOOLEAN : \E list : /\ parse[last + 1] = Read(ok, list)
                                            /\ ok => IsReadFrom(data, last + 1, list)
        BY <1>1, <4>1, Zenon
      <4>2. PICK list : /\ parse[last + 1] = Read(ok, list)
                        /\ ok => IsReadFrom(data, last + 1, list)
        BY <4>0, Zenon
      <4>3. parse[p] = [Read(ok, list) EXCEPT !.value = << s >> \o @]
        BY <3>3, <3>5, <4>2, Zenon
      <4>4. parse[p] = Read(ok, << s >> \o list)
        BY <4>3 DEF Read
      <4>5. ok => IsReadFrom(data, p, << s >> \o list)
        BY <3>1, <4>1, <4>2, StringInFront
      <4> QED
        BY <4>4, <4>5, Zenon
    <3> QED
      BY <3>4, <3>5
  <2> QED
    BY <2>1, <2>2
<1> HIDE DEF Fine
<1>2. 0 \in S
  <2> SUFFICES ASSUME 0 <= N - 2, NEW p \in N + 1 - 0 .. N + 1 PROVE Fine(p)
    BY 0 \in Nat, Zenon
  <2>1. p \in 3 .. N + 1 /\ p + 1 .. N + 1 = {}
    BY <1>0
  <2> QED
    BY <1>1, <2>1, Zenon
<1>3. ASSUME NEW k \in Nat, k \in S PROVE k + 1 \in S
  <2> SUFFICES ASSUME k + 1 <= N - 2, NEW p \in N + 1 - (k + 1) .. N + 1 PROVE Fine(p)
    BY k + 1 \in Nat, Zenon
  <2>1. k <= N - 2 /\ p \in 3 .. N + 1
        /\ \A i \in p + 1 .. N + 1 : i \in N + 1 - k .. N + 1
    BY <1>0
  <2>2. \A i \in N + 1 - k .. N + 1 : Fine(i)
    BY <1>3, <2>1, Zenon
  <2> QED
    BY <1>1, <2>1, <2>2, Zenon
<1>4. N - 2 \in S
  <2> HIDE DEF S
  <2>1. Nat \subseteq S
    BY <1>2, <1>3, SetInduction
  <2> QED
    BY <1>0, <2>1
<1>5. 3 \in N + 1 - (N - 2) .. N + 1
  BY <1>0
<1>6. Fine(3)
  BY <1>4, <1>5, <1>0, N - 2 <= N - 2, Zenon
<1> QED
  BY <1>6, Zenon DEF Fine

(* So a list of strings that was read is written in front of its bytes.    *)
LEMMA ListsOfStringsAreKept ==
  ASSUME NEW v, IsBytes(v), ToStringVector(v).ok
  PROVE  StringsAreKept(v, ToStringVector(v))
<1> DEFINE data == v[2]
           n == ListSize(data)
           parse == CHOOSE parse : Parses(parse, data)
           strings == IF n = 0 THEN Read(TRUE, << >>) ELSE parse[3]
<1>1. ToStringVector(v) =
        IF v[1] # "BLOB" \/ Len(data) < 2 \/ Len(data) < 2 * n + 2 THEN Read(FALSE, << >>)
        ELSE Read(strings.ok /\ Len(strings.value) = n, strings.value)
  BY Zenon DEF ToStringVector, Parses, Parsed
<1>2. /\ v[1] = "BLOB" /\ ~ (Len(data) < 2)
      /\ ToStringVector(v).value = strings.value /\ strings.ok /\ Len(strings.value) = n
  <2> HIDE DEF strings, data, n
  <2>1. \A x, y : Read(x, y).ok = x /\ Read(x, y).value = y
    BY DEF Read
  <2>2. ~ (v[1] # "BLOB" \/ Len(data) < 2 \/ Len(data) < 2 * n + 2)
    BY <1>1, <2>1, Zenon
  <2>3. ToStringVector(v) = Read(strings.ok /\ Len(strings.value) = n, strings.value)
    BY <1>1, <2>2, Zenon
  <2>4. ToStringVector(v).ok = (strings.ok /\ Len(strings.value) = n)
    BY <2>1, <2>3, Zenon
  <2>5. strings.ok /\ Len(strings.value) = n
    BY <2>4, Zenon
  <2> DEFINE whole == strings.ok /\ Len(strings.value) = n
             list == strings.value
  <2>6. ToStringVector(v).value = strings.value
    <3>1. ToStringVector(v) = Read(whole, list)
      BY <2>3
    <3> HIDE DEF whole, list
    <3>2. ToStringVector(v).value = list
      BY <2>1, <3>1
    <3> QED
      BY <3>2 DEF list
  <2> QED
    BY <2>2, <2>5, <2>6, Zenon
<1>3. data \in Seq(Digits)
  BY <1>2 DEF IsBytes
<1> HIDE DEF data
<1>4. Len(data) >= 2
  BY <1>2, <1>3
<1>5. n \in Nat /\ BytesOf(2, n) = SubSeq(data, 1, 2)
  BY <1>3, <1>4, ListSizeIsNumber
<1>6. Parses(parse, data)
  BY <1>3, <1>4, ParseExists, Zenon
<1> HIDE DEF parse, n
<1>7. /\ strings.value \in Seq(Seq(Int))
      /\ \E q \in 2 .. Len(data) :
           /\ Written(strings.value) = SubSeq(data, 3, q)
           /\ Len(data) - q <= 1 \/ strings.value = << >>
  <2>1. CASE n = 0
    <3>1. strings.value = << >>
      BY <2>1 DEF Read
    <3>2. << >> \in Seq(Seq(Int)) /\ SubSeq(data, 3, 2) = << >> /\ 2 \in 2 .. Len(data)
      BY <1>3, <1>4
    <3> HIDE DEF strings
    <3> QED
      BY <3>1, <3>2, NothingIsWritten, Zenon
  <2>2. CASE n # 0
    <3>0. PICK ok \in BOOLEAN : \E list : /\ parse[3] = Read(ok, list)
                                          /\ ok => IsReadFrom(data, 3, list)
      BY <1>3, <1>4, <1>6, ListIsRead, Zenon
    <3>1. PICK list : parse[3] = Read(ok, list) /\ (ok => IsReadFrom(data, 3, list))
      BY <3>0, Zenon
    <3>2. strings = Read(ok, list)
      BY <2>2, <3>1, Zenon
    <3> HIDE DEF strings
    <3>3. strings.ok = ok /\ strings.value = list
      BY <3>2 DEF Read
    <3>4. IsReadFrom(data, 3, list)
      BY <1>2, <3>1, <3>3, Zenon
    <3>5. 3 - 1 = 2
      OBVIOUS
    <3> QED
      BY <3>3, <3>4, <3>5, Zenon DEF IsReadFrom
  <2> QED
    BY <2>1, <2>2
<1> HIDE DEF strings
<1> DEFINE list == strings.value
           bytes == BytesOf(2, Len(list)) \o Written(list)
<1>8. PICK q \in 2 .. Len(data) : /\ Written(list) = SubSeq(data, 3, q)
                                  /\ Len(data) - q <= 1 \/ list = << >>
  BY <1>7, Zenon
<1>9. bytes = SubSeq(data, 1, q)
  <2>1. bytes = SubSeq(data, 1, 2) \o SubSeq(data, 3, q)
    BY <1>2, <1>5, <1>8, Zenon
  <2>2. 1 \in 1 .. Len(data) + 1 /\ 2 \in 1 - 1 .. Len(data) /\ q \in 2 .. Len(data) /\ 2 + 1 = 3
    BY <1>3, <1>4
  <2>3. SubSeq(data, 1, 2) \o SubSeq(data, 2 + 1, q) = SubSeq(data, 1, q)
    BY <1>3, <2>2, PartsJoin
  <2> QED
    BY <2>1, <2>2, <2>3
<1>10. Len(bytes) = q /\ Seqs!IsPrefix(bytes, data)
  <2>1. Len(SubSeq(data, 1, q)) = q
    BY <1>3
  <2>2. Len(bytes) = q
    BY <1>9, <2>1
  <2>3. q <= Len(data)
    OBVIOUS
  <2>4. SubSeq(bytes, 1, q) = bytes
    <3>0. 1 \in 1 .. Len(data) + 1 /\ q \in 1 - 1 .. Len(data)
      BY <1>3, <1>4
    <3>1. bytes \in Seq(Digits)
      BY <1>3, <1>9, <3>0, PartOf
    <3> HIDE DEF bytes
    <3> QED
      BY <2>2, <3>1
  <2> HIDE DEF bytes
  <2> QED
    BY <1>9, <2>2, <2>3, <2>4, Zenon DEF Seqs!IsPrefix
<1>11. ToStringVector(v).value = list
  BY <1>2
<1> DEFINE read == ToStringVector(v)
<1> HIDE DEF list, read
<1>12. StringsAreKept(v, read)
  <2>1. read.value = list
    BY <1>11 DEF read
  <2>2. bytes = BytesOf(2, Len(list)) \o
                  Seqs!FlattenSeq([i \in 1 .. Len(list) |-> DataFromString(list[i])])
    BY Zenon DEF Written
  <2> HIDE DEF bytes
  <2> QED
    BY <1>8, <1>10, <2>1, <2>2, Zenon DEF StringsAreKept, data
<1> QED
  BY <1>12, Zenon DEF read

-----------------------------------------------------------------------------
(* What is heard.                                                          *)

(* What a conversion makes of a value whose bytes are bytes.               *)
LEMMA ConversionIsFaithful ==
  ASSUME NEW v, IsOfType(v), IsBytes(v), NEW type, NEW r, r = Conversion(v, type)
  PROVE  /\ type \in NumberTypes /\ IsNumber(v) => NumberIsKept(v, type, r)
         /\ type = "STRING" /\ IsNumber(v) /\ v[1] # "BOOLEAN" => NumberIsPrinted(v, r)
         /\ type = "Position" /\ r.ok => PositionIsKept(v, r)
         /\ type = "Aiming" /\ r.ok => AimingIsKept(v, r)
         /\ type = "Bools" /\ r.ok => BoolsAreKept(v, r)
         /\ type = "Strings" /\ r.ok => StringsAreKept(v, r)
<1>1. type \in NumberTypes /\ IsNumber(v) => NumberIsKept(v, type, r)
  BY NumbersAreKept
<1>2. ASSUME type = "STRING", IsNumber(v), v[1] # "BOOLEAN" PROVE NumberIsPrinted(v, r)
  <2>1. r = ToString(v)
    BY <1>2 DEF Conversion
  <2> QED
    BY <1>2, <2>1, NumbersArePrinted
<1>3. ASSUME type = "Position", r.ok PROVE PositionIsKept(v, r)
  <2>1. r = ToPosition(v)
    BY <1>3 DEF Conversion
  <2> QED
    BY <1>3, <2>1, PositionsAreKept
<1>4. ASSUME type = "Aiming", r.ok PROVE AimingIsKept(v, r)
  <2>1. r = ToAimingAndPosition(v)
    BY <1>4 DEF Conversion
  <2> QED
    BY <1>4, <2>1, AimingsAreKept
<1>5. ASSUME type = "Bools", r.ok PROVE BoolsAreKept(v, r)
  <2>1. r = ToBoolVector(v)
    BY <1>5 DEF Conversion
  <2> QED
    BY <1>5, <2>1, ListsOfBoolsAreKept
<1>6. ASSUME type = "Strings", r.ok PROVE StringsAreKept(v, r)
  <2>1. r = ToStringVector(v)
    BY <1>6 DEF Conversion
  <2> QED
    BY <1>6, <2>1, ListsOfStringsAreKept
<1> QED
  BY <1>1, <1>2, <1>3, <1>4, <1>5, <1>6, Zenon

(* The data of an answer or a notification, once more in the controller.   *)
LEMMA DataArrives ==
  ASSUME NEW stream \in Streams(Frames), stream # << >>, NEW msg,
         msg = UnmarshalOcp1Message(FirstFrame(stream))
  PROVE  msg.type \in {Notification, Response} => msg.data \in Seq(Int)
<1>1. PICK frame \in Frames, rest \in Streams(Frames) : stream = frame \o rest
  BY FirstOfStream, FramesAreSequences
<1>2. PICK sent : IsSent(sent) /\ frame = GetSerializedData(sent)
  BY Zenon DEF Frames
<1>3. rest \in Seq(Int)
  BY Zenon DEF Streams
<1>4. msg = Received(sent)
  BY <1>1, <1>2, <1>3, MessageTravels
<1>5. CASE sent.type = Notification
  <2>0. msg = NotificationMessage(sent.ono, sent.defLevel, sent.index, 2, sent.data)
    BY <1>4, <1>5 DEF Received, Notification, KeepAlive
  <2>1. msg.data = sent.data
    BY <2>0 DEF NotificationMessage
  <2>2. sent.data \in Seq(Int)
    BY <1>2, <1>5 DEF IsSent, CommandMessage, ResponseMessage, NotificationMessage,
       KeepAliveMessage, CommandResponseRequired, Notification, Response, KeepAlive
  <2> QED
    BY <2>1, <2>2
<1>6. CASE sent.type = KeepAlive
  BY <1>4, <1>6 DEF Received, KeepAliveMessage, Notification, Response, KeepAlive
<1>7. CASE sent.type \notin {Notification, KeepAlive}
  <2>1. msg = sent
    BY <1>4, <1>7 DEF Received
  <2>2. sent.type = Response => sent.data \in Seq(Int)
    BY <1>2 DEF IsSent, CommandMessage, ResponseMessage, NotificationMessage,
       KeepAliveMessage, CommandResponseRequired, Notification, Response, KeepAlive
  <2> QED
    BY <1>7, <2>1, <2>2
<1> QED
  BY <1>5, <1>6, <1>7

(* It is a value of the type it is taken for.                              *)
LEMMA FromDataIsOfType ==
  ASSUME NEW data \in Seq(Int), NEW type
  PROVE  IsOfType(VariantFromData(data, type).value)
<1>0. IsOfType(NoVariant)
  BY DEF IsOfType, NoVariant, NumberTypes, Integral, Floating
<1>1. \A x, y : Read(x, y).value = y
  BY DEF Read
<1>2. \A n \in {1, 2, 4, 8} : /\ ReadUnsigned(n, data).value \in Int
                             /\ ReadSigned(n, data).value \in Int
  BY NumberIsInt
<1>3. ASSUME NEW t \in NumberTypes, NEW x \in Int PROVE IsOfType(<< t, x >>)
  BY DEF IsOfType, NumberTypes, Integral, Floating
<1>4. ASSUME NEW t \in {"STRING", "BLOB"}, NEW x \in Seq(Int) PROVE IsOfType(<< t, x >>)
  BY DEF IsOfType, NumberTypes, Integral, Floating
<1>5. ASSUME NEW x \in BOOLEAN PROVE IsOfType(<< "BOOLEAN", x >>)
  BY DEF IsOfType, NumberTypes, Integral, Floating
<1>6. \A t, r : FromRead(t, r).value = << t, r.value >>
  BY DEF FromRead, Read
<1>7. CASE type = "BOOLEAN"
  <2>1. VariantFromData(data, type) = FromRead(type, DataToBool(data))
    BY <1>7 DEF VariantFromData
  <2>2. DataToBool(data).value \in BOOLEAN
    BY DEF DataToBool, Read
  <2> QED
    BY <1>5, <1>6, <1>7, <2>1, <2>2, Zenon
<1>8. CASE type \in NumberTypes
  <2>1. \E r : VariantFromData(data, type) = FromRead(type, r) /\ r.value \in Int
    <3>1. CASE type = "INT32"
      BY <1>2, <3>1 DEF VariantFromData, DataToInt32
    <3>2. CASE type = "UINT8"
      BY <1>2, <3>2 DEF VariantFromData, DataToUint8
    <3>3. CASE type = "UINT16"
      BY <1>2, <3>3 DEF VariantFromData, DataToUint16
    <3>4. CASE type = "UINT32"
      BY <1>2, <3>4 DEF VariantFromData, DataToUint32
    <3>5. CASE type = "UINT64"
      BY <1>2, <3>5 DEF VariantFromData, DataToUint64
    <3>6. CASE type = "FLOAT32"
      BY <1>2, <3>6 DEF VariantFromData, DataToFloat
    <3>7. CASE type = "FLOAT64"
      BY <1>2, <3>7 DEF VariantFromData, DataToDouble
    <3> QED
      BY <1>8, <3>1, <3>2, <3>3, <3>4, <3>5, <3>6, <3>7 DEF NumberTypes, Integral, Floating
  <2> QED
    BY <1>3, <1>6, <1>8, <2>1
<1>9. CASE type = "STRING"
  <2>1. VariantFromData(data, type) = FromRead(type, DataToString(data))
    BY <1>9 DEF VariantFromData
  <2>2. DataToString(data).value \in Seq(Int)
    <3>1. CASE Len(data) >= 2
      <4>1. SubSeq(data, 3, Len(data)) \in Seq(Int)
        BY <3>1
      <4> QED
        BY <1>1, <3>1, <4>1, Zenon DEF DataToString
    <3>2. CASE ~ (Len(data) >= 2)
      BY <1>1, <3>2, << >> \in Seq(Int), Zenon DEF DataToString
    <3> QED
      BY <3>1, <3>2
  <2>3. type \in {"STRING", "BLOB"}
    BY <1>9
  <2> QED
    BY <1>4, <1>6, <2>1, <2>2, <2>3, Zenon
<1>10. CASE type \notin NumberTypes \cup {"BOOLEAN", "STRING"}
  <2>1. \/ VariantFromData(data, type) = Read(TRUE, << "BLOB", data >>)
        \/ VariantFromData(data, type) = Read(FALSE, NoVariant)
    BY <1>10 DEF VariantFromData, NumberTypes, Integral, Floating
  <2>2. IsOfType(<< "BLOB", data >>)
    BY <1>4
  <2> QED
    BY <1>0, <1>1, <2>1, <2>2, Zenon
<1> QED
  BY <1>7, <1>8, <1>9, <1>10

LEMMA DecodedIsOfType ==
  ASSUME NEW object, NEW data \in Seq(Int)
  PROVE  IsOfType(Decoded(object, data).value)
<1>1. \A x, y : Read(x, y).value = y
  BY DEF Read
<1>2. \A x \in BOOLEAN : IsOfType(BoolVariant(x))
  BY DEF IsOfType, BoolVariant, NumberTypes, Integral, Floating
<1>3. \A x \in Int : IsOfType(FloatVariant(x))
  BY DEF IsOfType, FloatVariant, NumberTypes, Integral, Floating
<1>4. IsOfType(AmpDecoded(object[1], data))
  <2>1. DataToFloat(data).value \in Int
    BY NumberIsInt DEF DataToFloat
  <2>2. DataToBool(data).value \in BOOLEAN
    BY DEF DataToBool, Read
  <2>3. /\ (DataToUint16(data).value > 0) \in BOOLEAN
        /\ (DataToUint8(data).value = 1) \in BOOLEAN
    OBVIOUS
  <2> QED
    BY <1>2, <1>3, <2>1, <2>2, <2>3, Zenon DEF AmpDecoded
<1> QED
  BY <1>1, <1>4, FromDataIsOfType, Zenon DEF Decoded

HeardIsTyped == \A obj \in DOMAIN heard : IsOfType(heard[obj].value)
ReadingIsTyped ==
  \/ reading = NotRead
  \/ /\ IsOfType(reading.variant)
     /\ reading.read = Conversion(reading.variant, reading.type)

ReadingInv == HandlesFit => HeardIsTyped /\ ReadingIsTyped

(* One step per action of what is heard,                                   *)
LEMMA HeardTypedStep ==
  ASSUME toController \in Streams(Frames), HeardIsTyped, [Next]_vars
  PROVE  HeardIsTyped'
<1>1. ASSUME UNCHANGED heard PROVE HeardIsTyped'
  BY <1>1, Zenon DEF HeardIsTyped
<1>2. ASSUME NEW ono, NEW data \in Seq(Int), Deliver(ono, data) PROVE HeardIsTyped'
  <2>1. PICK object : heard' = With(heard, object, Decoded(object, data))
    BY <1>2, Zenon DEF Deliver
  <2>2. /\ DOMAIN heard' = DOMAIN heard \cup {object}
        /\ \A obj \in DOMAIN heard' :
             heard'[obj] = IF obj = object THEN Decoded(object, data) ELSE heard[obj]
    BY <2>1, Zenon DEF With
  <2> SUFFICES ASSUME NEW obj \in DOMAIN heard' PROVE IsOfType(heard'[obj].value)
    BY Zenon DEF HeardIsTyped
  <2>3. CASE obj = object
    BY <2>2, <2>3, DecodedIsOfType, Zenon
  <2>4. CASE obj # object
    <3>1. obj \in DOMAIN heard /\ heard'[obj] = heard[obj]
      BY <2>2, <2>4, Zenon
    <3> QED
      BY <3>1, Zenon DEF HeardIsTyped
  <2> QED
    BY <2>3, <2>4
<1>3. CASE ProcessMessage
  <2> DEFINE msg == UnmarshalOcp1Message(FirstFrame(toController))
  <2>1. toController # << >>
    BY <1>3, Zenon DEF ProcessMessage
  <2>2. TakeNotification(msg) \/ TakeKeepAlive(msg) \/ TakeAcknowledgement(msg)
          \/ TakeValue(msg) \/ TakeGuid(msg)
    BY <1>3, Zenon DEF ProcessMessage
  <2>3. msg.type \in {Notification, Response} => msg.data \in Seq(Int)
    BY <2>1, DataArrives
  <2> HIDE DEF msg
  <2>4. CASE TakeNotification(msg)
    <3>1. msg.type = Notification
      BY <2>4, Zenon DEF TakeNotification
    <3>2. msg.data \in Seq(Int)
      BY <2>3, <3>1
    <3> QED
      BY <1>1, <1>2, <2>4, <3>2, Zenon DEF TakeNotification
  <2>5. CASE TakeValue(msg)
    <3>1. msg.type = Response
      BY <2>5, Zenon DEF TakeValue
    <3>2. msg.data \in Seq(Int)
      BY <2>3, <3>1
    <3> QED
      BY <1>2, <2>5, <3>2, Zenon DEF TakeValue
  <2>6. CASE TakeKeepAlive(msg) \/ TakeAcknowledgement(msg) \/ TakeGuid(msg)
    BY <1>1, <2>6, Zenon DEF TakeKeepAlive, TakeAcknowledgement, TakeGuid
  <2> QED
    BY <2>2, <2>4, <2>5, <2>6, Zenon
<1>5. CASE Configure \/ SetObjectValue
  BY <1>1, <1>5, Zenon DEF Configure, SetObjectValue, appVars
<1>6. CASE Connect \/ Established \/ ConnectionLost \/ Disconnect
  BY <1>1, <1>6, Zenon DEF Connect, Established, ConnectionLost, Disconnect, Cut, appVars
<1>7. CASE DeviceTakes \/ DeviceReports \/ DeviceBeats
  <2>1. UNCHANGED heard
    BY <1>7 DEF DeviceTakes, DeviceReports, DeviceBeats, appVars
  <2> QED
    BY <1>1, <2>1
<1>8. CASE \E type \in setup.reads : ReadAs(type)
  BY <1>1, <1>8, Zenon DEF ReadAs
<1>9. CASE UNCHANGED vars
  BY <1>1, <1>9, Zenon DEF vars, appVars
<1> QED
  BY <1>3, <1>5, <1>6, <1>7, <1>8, <1>9 DEF Next

(* and of what is read.                                                    *)
LEMMA ReadingStep ==
  ASSUME HeardIsTyped, ReadingIsTyped, [Next]_vars
  PROVE  ReadingIsTyped'
<1>1. ASSUME reading' = NotRead PROVE ReadingIsTyped'
  BY <1>1, Zenon DEF ReadingIsTyped, NotRead
<1>2. CASE \E type \in setup.reads : ReadAs(type)
  <2>1. PICK type : ReadAs(type)
    BY <1>2, Zenon
  <2>2. PICK object \in DOMAIN heard :
          reading' = [variant |-> heard[object].value, type |-> type,
                      read |-> Conversion(heard[object].value, type)]
    BY <2>1, Zenon DEF ReadAs
  <2> DEFINE v == heard[object].value
  <2>3. IsOfType(v)
    BY Zenon DEF HeardIsTyped
  <2> HIDE DEF v
  <2>4. /\ reading'.variant = v /\ reading'.type = type
        /\ reading'.read = Conversion(v, type)
    BY <2>2 DEF v
  <2> QED
    BY <2>3, <2>4, Zenon DEF ReadingIsTyped
<1>3. CASE UNCHANGED vars
  BY <1>3, Zenon DEF vars, ReadingIsTyped, NotRead
<1>4. CASE Configure \/ Connect \/ Established
  BY <1>1, <1>4, Zenon DEF Configure, Connect, Established
<1>5. CASE ConnectionLost \/ Disconnect
  BY <1>1, <1>5, Zenon DEF ConnectionLost, Disconnect, Cut
<1>6. CASE DeviceTakes \/ DeviceReports \/ DeviceBeats
  <2>1. reading' = NotRead
    BY <1>6 DEF DeviceTakes, DeviceReports, DeviceBeats
  <2> QED
    BY <1>1, <2>1
<1>7. CASE ProcessMessage \/ SetObjectValue
  <2>1. reading' = NotRead
    BY <1>7 DEF ProcessMessage, SetObjectValue
  <2> QED
    BY <1>1, <2>1
<1> QED
  BY <1>2, <1>3, <1>4, <1>5, <1>6, <1>7 DEF Next

(* Every step keeps what was heard of its type, and the last reading true. *)
LEMMA NextReading == Inv /\ Inv' /\ FramedInv /\ ReadingInv /\ [Next]_vars => ReadingInv'
<1> SUFFICES ASSUME Inv, Inv', FramedInv, ReadingInv, [Next]_vars, HandlesFit'
             PROVE  (HeardIsTyped /\ ReadingIsTyped)'
  BY Zenon DEF ReadingInv
<1>1. HandlesFit
  BY HandlesGrow, HandlesOfStep, Zenon DEF Inv
<1>2. toController \in Streams(Frames) /\ HeardIsTyped /\ ReadingIsTyped
  BY <1>1, Zenon DEF FramedInv, Framed, ReadingInv
<1> QED
  BY <1>2, HeardTypedStep, ReadingStep, Zenon

(* A conversion that succeeds keeps the value that was heard, whatever type*)
(* it came as and whatever type is asked for (Variant.cpp): a number where *)
(* the target can hold it, a position, and a list of flags or strings by   *)
(* its bytes.  The bytes of a position or a list are bytes, unlike the     *)
(* symbols of a text.                                                      *)
THEOREM ConversionsAreFaithful ==
  Spec => [](HandlesFit /\ IsBytes(reading.variant) => ReadingsAreFaithful)
<1>1. Init => ReadingInv
  <2> SUFFICES ASSUME Init PROVE HeardIsTyped /\ ReadingIsTyped
    BY Zenon DEF ReadingInv
  <2>1. DOMAIN heard = {} /\ reading = NotRead
    BY DEF Init, EmptyMap
  <2> QED
    BY <2>1, Zenon DEF HeardIsTyped, ReadingIsTyped
<1>2. Spec => []ReadingInv
  <2>1. Spec => []FramedInv
    BY InitFramed, NextFramed, InvHolds, PTL DEF Spec
  <2> QED
    BY <1>1, <2>1, NextReading, InvHolds, PTL DEF Spec
<1>3. ReadingInv => (HandlesFit /\ IsBytes(reading.variant) => ReadingsAreFaithful)
  <2> SUFFICES ASSUME ReadingInv, HandlesFit, IsBytes(reading.variant) PROVE ReadingsAreFaithful
    OBVIOUS
  <2>1. CASE reading = NotRead
    <3>1. reading.type = "NONE"
      BY <2>1 DEF NotRead
    <3>2. reading.type \notin NumberTypes
      BY <3>1 DEF NumberTypes, Integral, Floating
    <3> QED
      BY <3>1, <3>2 DEF ReadingsAreFaithful
  <2>2. CASE reading # NotRead
    <3>1. /\ IsOfType(reading.variant)
          /\ reading.read = Conversion(reading.variant, reading.type)
      BY <2>2, Zenon DEF ReadingInv, ReadingIsTyped
    <3> QED
      BY <3>1, ConversionIsFaithful, Zenon DEF ReadingsAreFaithful
  <2> QED
    BY <2>1, <2>2
<1> QED
  BY <1>2, <1>3, PTL

=============================================================================
