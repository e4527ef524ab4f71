------------------------ MODULE SoundscapeController ------------------------
(***************************************************************************)
(* The tables of SoundscapeController: which OCA object stands behind each *)
(* remote object and address, both in the map built in advance             *)
(* (createKnownONosMap, patched by the GUID) from which objects are        *)
(* tracked, and in getObjectDefinition, from which they are set; the type  *)
(* a received value is decoded with; and what a GUID says of a device.     *)
(*                                                                         *)
(* A remote object is <<identifier, <<primary, secondary>>>>; identifiers  *)
(* have the names of the source.  A GUID is a sequence of eight hex digits.*)
(***************************************************************************)
EXTENDS Variant, FiniteSets

MaxInputs == 128
MaxOutputs == 64
MaxFunctionGroups == 32
MaxReverbZones == 4

NotUsed == 0
Unindexed == << NotUsed, NotUsed >>
At(ch) == << ch, NotUsed >>

(* The identifiers, by what their address means.                           *)
DeviceObjects ==
  {"Fixed_GUID", "Settings_DeviceName", "Status_StatusText", "Status_AudioNetworkSampleStatus",
   "Error_GnrlErr", "Error_ErrorText", "MatrixSettings_ReverbRoomId",
   "MatrixSettings_ReverbPredelayFactor", "MatrixSettings_ReverbRearLevel",
   "Scene_SceneIndex", "Scene_SceneName", "Scene_SceneComment"}
InputObjects ==
  {"Positioning_SourcePosition", "Positioning_SourceSpread", "Positioning_SourceDelayMode",
   "Positioning_SourceEnable", "MatrixInput_Mute", "MatrixInput_Gain", "MatrixInput_Delay",
   "MatrixInput_DelayEnable", "MatrixInput_EqEnable", "MatrixInput_Polarity",
   "MatrixInput_ChannelName", "MatrixInput_LevelMeterPreMute", "MatrixInput_LevelMeterPostMute",
   "MatrixInput_ReverbSendGain"}
NodeObjects ==
  {"MatrixNode_Enable", "MatrixNode_Gain", "MatrixNode_Delay", "MatrixNode_DelayEnable"}
RoutingObjects == {"SoundObjectRouting_Mute", "SoundObjectRouting_Gain"}
SpeakerObjects == {"Positioning_SpeakerPosition", "Positioning_SpeakerGroup"}
OutputObjects ==
  {"MatrixOutput_Mute", "MatrixOutput_Gain", "MatrixOutput_Delay", "MatrixOutput_DelayEnable",
   "MatrixOutput_EqEnable", "MatrixOutput_Polarity", "MatrixOutput_ChannelName",
   "MatrixOutput_LevelMeterPreMute", "MatrixOutput_LevelMeterPostMute"}
GroupObjects ==
  {"FunctionGroup_Name", "FunctionGroup_Delay", "FunctionGroup_Mode", "FunctionGroup_SpreadFactor"}
ZoneObjects ==
  {"ReverbInputProcessing_Mute", "ReverbInputProcessing_Gain", "ReverbInputProcessing_EqEnable",
   "ReverbInputProcessing_LevelMeter"}
AreaObjects ==
  {"CoordinateMappingSettings_P1real", "CoordinateMappingSettings_P2real",
   "CoordinateMappingSettings_P3real", "CoordinateMappingSettings_P4real",
   "CoordinateMappingSettings_P1virtual", "CoordinateMappingSettings_P3virtual",
   "CoordinateMappingSettings_Flip", "CoordinateMappingSettings_Name"}
SourceSplits ==
  {"Positioning_SourcePosition_XY", "Positioning_SourcePosition_X", "Positioning_SourcePosition_Y"}
MappedSplits ==
  {"CoordinateMapping_SourcePosition_XY", "CoordinateMapping_SourcePosition_X",
   "CoordinateMapping_SourcePosition_Y"}
SceneCommands == {"Scene_Previous", "Scene_Next", "Scene_Recall"}
PseudoObjects == {"HeartbeatPing", "HeartbeatPong", "Invalid", "Device_Clear"}

RemObjIdents ==
  DeviceObjects \cup InputObjects \cup NodeObjects \cup RoutingObjects \cup SpeakerObjects
    \cup OutputObjects \cup GroupObjects \cup ZoneObjects \cup AreaObjects
    \cup {"CoordinateMapping_SourcePosition", "ReverbInput_Gain"}
    \cup SourceSplits \cup MappedSplits \cup SceneCommands \cup PseudoObjects

----------------------------------------------------------------------------
(* The OCA object of an identifier, where the names differ.                *)
Renamed ==
  [Positioning_SourcePosition |-> "Positioning_Source_Position",
   Positioning_SourceSpread |-> "Positioning_Source_Spread",
   Positioning_SourceDelayMode |-> "Positioning_Source_DelayMode",
   Positioning_SourceEnable |-> "Positioning_Source_Enable",
   Positioning_SpeakerPosition |-> "Positioning_Speaker_Position",
   Positioning_SpeakerGroup |-> "Positioning_Speaker_Group",
   CoordinateMapping_SourcePosition |-> "CoordinateMapping_Source_Position",
   CoordinateMappingSettings_P1real |-> "CoordinateMappingSettings_P1_real",
   CoordinateMappingSettings_P2real |-> "CoordinateMappingSettings_P2_real",
   CoordinateMappingSettings_P3real |-> "CoordinateMappingSettings_P3_real",
   CoordinateMappingSettings_P4real |-> "CoordinateMappingSettings_P4_real",
   CoordinateMappingSettings_P1virtual |-> "CoordinateMappingSettings_P1_virtual",
   CoordinateMappingSettings_P3virtual |-> "CoordinateMappingSettings_P3_virtual"]

OcaName(roi) == IF roi \in DOMAIN Renamed THEN Renamed[roi] ELSE roi

DS100Groups ==
  {FixedObjects, SettingsObjects, MatrixSettingsObjects, ReverbSettingsObjects, StatusObjects,
   ErrorObjects, MatrixInputObjects, MatrixNodeObjects, MatrixOutputObjects,
   PositioningSourceObjects, FunctionGroupObjects, ReverbInputObjects,
   ReverbInputProcessingObjects, CoordinateMappingSettingsObjects, CoordinateMappingObjects,
   SceneObjects, SoundObjectRoutingObjects, PositioningSpeakerObjects}

GroupOf(name) == CHOOSE group \in DS100Groups : name \in DOMAIN group.objects
OcaObject(name, record, channel) == DS100Definition(GroupOf(name), name, record, channel)
RemoteDefinition(roi, record, channel) == OcaObject(OcaName(roi), record, channel)

LegacySpeakerPosition(ch) == OcaObject("Positioning_Source_Speaker_Position", 0, ch)

(* The definition the map holds.  It always starts with the speaker        *)
(* objects of the newer firmware.                                          *)
MappedDefinition(roi, addr) ==
  CASE roi \in NodeObjects -> RemoteDefinition(roi, addr[1], addr[2])
    [] roi \in AreaObjects -> RemoteDefinition(roi, addr[1], 0)
    [] OTHER               -> RemoteDefinition(roi, addr[2], addr[1])

FunctionGroupCount(outputs) == IF outputs < MaxFunctionGroups THEN outputs ELSE MaxFunctionGroups

KnownObjects(inputs, outputs) ==
  LET groups == FunctionGroupCount(outputs)
      single(rois, count) == rois \X {At(ch) : ch \in 1 .. count}
      paired(rois, count1, count2) == rois \X ((1 .. count1) \X (1 .. count2))
  IN  (DeviceObjects \X {Unindexed})
        \cup single(InputObjects, inputs)
        \cup paired({"CoordinateMapping_SourcePosition"}, inputs, 4)
        \cup paired(RoutingObjects, inputs, groups)
        \cup paired(NodeObjects, inputs, outputs)
        \cup single(OutputObjects \cup SpeakerObjects, outputs)
        \cup single(GroupObjects, groups)
        \cup single(ZoneObjects, MaxReverbZones)
        \cup paired({"ReverbInput_Gain"}, MaxReverbZones, inputs)
        \cup single(AreaObjects, 4)

KnownONosMap(inputs, outputs) ==
  [obj \in KnownObjects(inputs, outputs) |-> MappedDefinition(obj[1], obj[2])]

Clamp(n, max) == IF n < 1 THEN 1 ELSE IF n > max THEN max ELSE n

\* Faulty: keeps the speaker objects the map was made with.
PatchedONosMap_Unpatched(known, stackIdent, outputs) == known

(* The map once the revision is known: every output's speaker position is  *)
(* replaced, and for the newer revision its speaker group too.             *)
PatchedONosMap(known, stackIdent, outputs) ==
  LET patchedIds == IF stackIdent >= 1 THEN SpeakerObjects ELSE {"Positioning_SpeakerPosition"}
      patched == patchedIds \X {At(ch) : ch \in 1 .. outputs}
  IN  [obj \in DOMAIN known \cup patched |->
         IF obj \notin patched THEN known[obj]
         ELSE IF stackIdent >= 1 THEN MappedDefinition(obj[1], obj[2])
         ELSE LegacySpeakerPosition(obj[2][1])]

----------------------------------------------------------------------------
(* The definition an object is set through.  The address is not checked;   *)
(* the split positions and the scene commands only exist here.             *)
NoDefinition == [ono |-> 0]

\* Faulty: takes every device for one of the newer revision.
GetObjectDefinition_Latest(roi, addr, useRemapping, stackIdent) ==
  LET first == addr[1]
      second == addr[2]
  IN  CASE roi \in DeviceObjects -> RemoteDefinition(roi, 0, 0)
        [] roi \in AreaObjects   -> RemoteDefinition(roi, first, 0)
        [] roi \in NodeObjects   -> RemoteDefinition(roi, first, second)
        [] roi \in InputObjects \cup OutputObjects \cup SpeakerObjects
                     \cup GroupObjects \cup ZoneObjects -> RemoteDefinition(roi, 0, first)
        [] roi \in RoutingObjects \cup {"CoordinateMapping_SourcePosition", "ReverbInput_Gain"} ->
             RemoteDefinition(roi, second, first)
        [] roi \in SourceSplits /\ useRemapping ->
             RemoteDefinition("Positioning_SourcePosition", 0, first)
        [] roi \in MappedSplits /\ useRemapping ->
             RemoteDefinition("CoordinateMapping_SourcePosition", second, first)
        [] roi \in SceneCommands /\ useRemapping -> SceneAgent
        [] OTHER -> NoDefinition

GetObjectDefinition(roi, addr, useRemapping, stackIdent) ==
  LET first == addr[1]
      second == addr[2]
  IN  CASE roi \in DeviceObjects -> RemoteDefinition(roi, 0, 0)
        [] roi \in AreaObjects   -> RemoteDefinition(roi, first, 0)
        [] roi \in NodeObjects   -> RemoteDefinition(roi, first, second)
        [] roi \in SpeakerObjects ->
             IF roi = "Positioning_SpeakerPosition" /\ stackIdent < 1
             THEN LegacySpeakerPosition(first) ELSE RemoteDefinition(roi, 0, first)
        [] roi \in InputObjects \cup OutputObjects \cup GroupObjects \cup ZoneObjects ->
             RemoteDefinition(roi, 0, first)
        [] roi \in RoutingObjects \cup {"CoordinateMapping_SourcePosition", "ReverbInput_Gain"} ->
             RemoteDefinition(roi, second, first)
        [] roi \in SourceSplits /\ useRemapping ->
             RemoteDefinition("Positioning_SourcePosition", 0, first)
        [] roi \in MappedSplits /\ useRemapping ->
             RemoteDefinition("CoordinateMapping_SourcePosition", second, first)
        [] roi \in SceneCommands /\ useRemapping -> SceneAgent
        [] OTHER -> NoDefinition

(* The type a received value is decoded with.                              *)
PolaritiesAndMutes ==
  {"MatrixInput_Polarity", "MatrixOutput_Polarity", "MatrixInput_Mute", "MatrixOutput_Mute",
   "ReverbInputProcessing_Mute", "SoundObjectRouting_Mute"}
Switches ==
  {"CoordinateMappingSettings_Flip", "MatrixNode_Enable", "MatrixNode_DelayEnable",
   "MatrixInput_DelayEnable", "MatrixInput_EqEnable", "MatrixOutput_DelayEnable",
   "MatrixOutput_EqEnable", "Positioning_SourceDelayMode", "Positioning_SourceEnable",
   "MatrixSettings_ReverbRoomId", "FunctionGroup_Mode", "ReverbInputProcessing_EqEnable"}
Whole == {"Status_AudioNetworkSampleStatus", "Positioning_SpeakerGroup"}
Levels ==
  {"MatrixNode_Delay", "MatrixInput_Delay", "MatrixOutput_Delay", "FunctionGroup_Delay",
   "MatrixNode_Gain", "Positioning_SourceSpread", "MatrixInput_ReverbSendGain",
   "MatrixInput_Gain", "MatrixInput_LevelMeterPreMute", "MatrixInput_LevelMeterPostMute",
   "MatrixOutput_Gain", "MatrixOutput_LevelMeterPreMute", "MatrixOutput_LevelMeterPostMute",
   "MatrixSettings_ReverbPredelayFactor", "MatrixSettings_ReverbRearLevel",
   "FunctionGroup_SpreadFactor", "ReverbInput_Gain", "ReverbInputProcessing_Gain",
   "ReverbInputProcessing_LevelMeter", "SoundObjectRouting_Gain"}
Texts ==
  {"CoordinateMappingSettings_Name", "Settings_DeviceName", "Status_StatusText",
   "Error_ErrorText", "MatrixInput_ChannelName", "MatrixOutput_ChannelName",
   "Scene_SceneIndex", "Scene_SceneName", "Scene_SceneComment", "FunctionGroup_Name",
   "Fixed_GUID"}
Positions ==
  (AreaObjects \ {"CoordinateMappingSettings_Flip", "CoordinateMappingSettings_Name"})
    \cup {"CoordinateMapping_SourcePosition", "Positioning_SpeakerPosition",
          "Positioning_SourcePosition"}

DataTypeForRoi(roi) ==
  CASE roi \in PolaritiesAndMutes \cup {"Error_GnrlErr"} -> "UINT8"
    [] roi \in Switches  -> "UINT16"
    [] roi \in Whole     -> "INT32"
    [] roi \in Levels    -> "FLOAT32"
    [] roi \in Texts     -> "STRING"
    [] roi \in Positions -> "DB_POSITION"
    [] OTHER             -> "NONE"

----------------------------------------------------------------------------
(* What a GUID says: "DB00", two digits of firmware version, two of model. *)
(* A GUID that is not one leaves the revision unknown.                     *)
GuidModel == [DS100 |-> << 13, 0 >>, DS110 |-> << 13, 1 >>,
              DS100M |-> << 13, 2 >>, vCore |-> << 13, 10 >>]

IsAcceptedGuid(guid) ==
  /\ Len(guid) = 8
  /\ SubSeq(guid, 1, 4) = << 13, 11, 0, 0 >>
  /\ \E model \in DOMAIN GuidModel : GuidModel[model] = SubSeq(guid, 7, 8)

ModelOf(guid) == CHOOSE model \in DOMAIN GuidModel : GuidModel[model] = SubSeq(guid, 7, 8)

(* The first firmware with the newer objects; digits compare as text.      *)
StackIdentOf(guid) ==
  LET version == 16 * guid[5] + guid[6]
      first == CASE ModelOf(guid) = "DS100"  -> 12
                 [] ModelOf(guid) = "DS100M" -> 2
                 [] OTHER                    -> 0
  IN  IF version >= first THEN 1 ELSE 0
=============================================================================
