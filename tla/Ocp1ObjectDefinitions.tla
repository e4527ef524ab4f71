----------------------- MODULE Ocp1ObjectDefinitions -----------------------
(***************************************************************************)
(* The object definitions of the devices: for every object of a d&b        *)
(* amplifier (Ocp1ObjectDefinitions.h) and of a DS100                      *)
(* (Ocp1DS100ObjectDefinitions.h) its number, the type of its value and    *)
(* the level and index of its property.  Objects have the names of the     *)
(* source without the prefix dbOcaObjectDef_; a group is one box of the    *)
(* device, and gives each of its objects its data type and AES70 class.    *)
(***************************************************************************)
EXTENDS Ocp1DataTypes

DefLevel ==
  [OcaPolarity |-> 4, OcaSwitch |-> 4, OcaGain |-> 4, OcaMute |-> 4, OcaDelay |-> 4,
   OcaInt32Actuator |-> 5, OcaFloat32Actuator |-> 5, OcaStringActuator |-> 5,
   OcaLevelSensor |-> 4, OcaAudioLevelSensor |-> 5, OcaBooleanSensor |-> 5,
   OcaInt32Sensor |-> 5, OcaStringSensor |-> 5,
   dbOcaSceneAgent |-> 4, dbOcaPositionAgentDeprecated |-> 3,
   dbOcaSpeakerPositionAgentDeprecated |-> 4]

(* An Ocp1CommandDefinition; getter is the method its GetValueCommand uses.*)
Definition(ono, type, class, index) ==
  [ono |-> ono, type |-> type, level |-> DefLevel[class], index |-> index, getter |-> 1]

----------------------------------------------------------------------------
(* Amplifiers: type 1, fifteen bits of box and object number.              *)
AmpDefinition(channel, boxAndObjNo, type, class) ==
  Definition(GetONo(1, 0, channel, boxAndObjNo), type, class, 1)

Config_Mute      == 517      \* 0x205
Config_PotiLevel == 518      \* 0x206
MuteDefinition(channel) == AmpDefinition(channel, Config_Mute, "UINT8", "OcaMute")
GainDefinition(channel) == AmpDefinition(channel, Config_PotiLevel, "FLOAT32", "OcaGain")

DxDyNumber  == [PwrOn |-> 256, Isp |-> 1024, Gr |-> 1025, Ovl |-> 1026]
FiveDNumber == [PwrOn |-> 257, Isp |-> 1025, Gr |-> 1026, Ovl |-> 1027]

AmpNumber(ampType) == IF ampType = "FiveD" THEN FiveDNumber ELSE DxDyNumber
GrHeadNumber == [Dx |-> 1036, Dy |-> 1034, FiveD |-> 1028]

PowerDefinition(ampType) == AmpDefinition(0, AmpNumber(ampType).PwrOn, "UINT16", "OcaSwitch")
StatusDefinition(ampType, channel, status) ==
  AmpDefinition(channel, AmpNumber(ampType)[status], "BOOLEAN", "OcaBooleanSensor")
GrHeadDefinition(ampType, channel) ==
  AmpDefinition(channel, GrHeadNumber[ampType], "FLOAT32", "OcaAudioLevelSensor")

----------------------------------------------------------------------------
(* DS100: type 2, a record and a channel, five bits of box number.         *)
ObjectNumber ==
  [Fixed_HardwareVariant |-> 2, Fixed_SerNr |-> 10, Fixed_GUID |-> 15, Settings_DeviceName |-> 13,
   Status_StatusText |-> 3, Status_AudioNetworkSampleStatus |-> 48,
   Error_GnrlErr |-> 1, Error_ErrorText |-> 3,
   MatrixSettings_PositioningEnable |-> 2, MatrixSettings_ReverbEnable |-> 3,
   MatrixSettings_ReverbRoomId |-> 10, MatrixSettings_ReverbPredelayFactor |-> 20,
   MatrixSettings_ReverbRearLevel |-> 21,
   CoordinateMappingSettings_Name |-> 1, CoordinateMappingSettings_Type |-> 2,
   CoordinateMappingSettings_Flip |-> 3, CoordinateMappingSettings_P1_real |-> 4,
   CoordinateMappingSettings_P2_real |-> 5, CoordinateMappingSettings_P3_real |-> 6,
   CoordinateMappingSettings_P4_real |-> 7, CoordinateMappingSettings_P1_virtual |-> 8,
   CoordinateMappingSettings_P3_virtual |-> 9, CoordinateMapping_Source_Position |-> 1,
   MatrixInput_Mute |-> 1, MatrixInput_Gain |-> 2, MatrixInput_Delay |-> 3,
   MatrixInput_DelayEnable |-> 4, MatrixInput_EqEnable |-> 5, MatrixInput_Polarity |-> 6,
   MatrixInput_ChannelName |-> 7, MatrixInput_LevelMeterIn |-> 8,
   MatrixInput_LevelMeterPreMute |-> 9, MatrixInput_LevelMeterPostMute |-> 10,
   MatrixInput_ISP |-> 11, MatrixInput_ReverbSendGain |-> 13,
   MatrixNode_Enable |-> 1, MatrixNode_Gain |-> 2, MatrixNode_Delay |-> 3,
   MatrixNode_DelayEnable |-> 4,
   MatrixOutput_Mute |-> 1, MatrixOutput_Gain |-> 2, MatrixOutput_Delay |-> 3,
   MatrixOutput_DelayEnable |-> 4, MatrixOutput_EqEnable |-> 5, MatrixOutput_Polarity |-> 6,
   MatrixOutput_ChannelName |-> 7, MatrixOutput_LevelMeterIn |-> 8,
   MatrixOutput_LevelMeterPreMute |-> 9, MatrixOutput_LevelMeterPostMute |-> 10,
   MatrixOutput_OSP |-> 11,
   Positioning_Source_Position |-> 2, Positioning_Source_Enable |-> 3,
   Positioning_Source_Spread |-> 4, Positioning_Source_Speaker_Group |-> 6,
   Positioning_Source_Speaker_Position |-> 7, Positioning_Source_DelayMode |-> 11,
   FunctionGroup_Name |-> 1, FunctionGroup_Delay |-> 2, FunctionGroup_Mode |-> 3,
   FunctionGroup_SpreadFactor |-> 6, ReverbInput_Gain |-> 1,
   ReverbInputProcessing_Mute |-> 1, ReverbInputProcessing_Gain |-> 2,
   ReverbInputProcessing_EqEnable |-> 3, ReverbInputProcessing_LevelMeter |-> 5,
   Scene_SceneIndex |-> 1, Scene_SceneName |-> 3, Scene_SceneComment |-> 4,
   SoundObjectRouting_Mute |-> 1, SoundObjectRouting_Gain |-> 2,
   Positioning_Speaker_Group |-> 1, Positioning_Speaker_Position |-> 2]

SwitchObject == << "UINT16", "OcaSwitch" >>
GainObject   == << "FLOAT32", "OcaGain" >>
DelayObject  == << "FLOAT32", "OcaDelay" >>
LevelObject  == << "FLOAT32", "OcaLevelSensor" >>
FactorObject == << "FLOAT32", "OcaFloat32Actuator" >>
MuteObject   == << "UINT8", "OcaMute" >>
PolarityObject == << "UINT8", "OcaPolarity" >>
TextObject   == << "STRING", "OcaStringActuator" >>
TextSensor   == << "STRING", "OcaStringSensor" >>
FlagSensor   == << "BOOLEAN", "OcaBooleanSensor" >>
NumberSensor == << "INT32", "OcaInt32Sensor" >>
NumberObject == << "INT32", "OcaInt32Actuator" >>
PositionObject == << "DB_POSITION", "dbOcaPositionAgentDeprecated" >>
SpeakerObject  == << "DB_POSITION", "dbOcaSpeakerPositionAgentDeprecated" >>

FixedObjects ==
  [box |-> 0,
   objects |-> [Fixed_HardwareVariant |-> NumberSensor, Fixed_SerNr |-> TextObject,
                Fixed_GUID |-> TextObject]]

SettingsObjects == [box |-> 1, objects |-> [Settings_DeviceName |-> TextObject]]

MatrixSettingsObjects ==
  [box |-> 2,
   objects |-> [MatrixSettings_PositioningEnable |-> SwitchObject,
                MatrixSettings_ReverbEnable |-> SwitchObject,
                MatrixSettings_ReverbRoomId |-> SwitchObject]]

ReverbSettingsObjects ==
  [box |-> 2,
   objects |-> [MatrixSettings_ReverbPredelayFactor |-> FactorObject,
                MatrixSettings_ReverbRearLevel |-> GainObject]]

StatusObjects ==
  [box |-> 3,
   objects |-> [Status_StatusText |-> TextSensor, Status_AudioNetworkSampleStatus |-> NumberSensor]]

ErrorObjects ==
  [box |-> 4, objects |-> [Error_GnrlErr |-> FlagSensor, Error_ErrorText |-> TextSensor]]

MatrixInputObjects ==
  [box |-> 5,
   objects |-> [MatrixInput_Mute |-> MuteObject, MatrixInput_Gain |-> GainObject,
                MatrixInput_Delay |-> DelayObject, MatrixInput_DelayEnable |-> SwitchObject,
                MatrixInput_EqEnable |-> SwitchObject, MatrixInput_Polarity |-> PolarityObject,
                MatrixInput_ChannelName |-> TextObject, MatrixInput_LevelMeterIn |-> LevelObject,
                MatrixInput_LevelMeterPreMute |-> LevelObject,
                MatrixInput_LevelMeterPostMute |-> LevelObject,
                MatrixInput_ISP |-> FlagSensor, MatrixInput_ReverbSendGain |-> GainObject]]

MatrixNodeObjects ==
  [box |-> 7,
   objects |-> [MatrixNode_Enable |-> SwitchObject, MatrixNode_Gain |-> GainObject,
                MatrixNode_Delay |-> DelayObject, MatrixNode_DelayEnable |-> SwitchObject]]

MatrixOutputObjects ==
  [box |-> 8,
   objects |-> [MatrixOutput_Mute |-> MuteObject, MatrixOutput_Gain |-> GainObject,
                MatrixOutput_Delay |-> DelayObject, MatrixOutput_DelayEnable |-> SwitchObject,
                MatrixOutput_EqEnable |-> SwitchObject, MatrixOutput_Polarity |-> PolarityObject,
                MatrixOutput_ChannelName |-> TextObject, MatrixOutput_LevelMeterIn |-> LevelObject,
                MatrixOutput_LevelMeterPreMute |-> LevelObject,
                MatrixOutput_LevelMeterPostMute |-> LevelObject, MatrixOutput_OSP |-> FlagSensor]]

PositioningSourceObjects ==
  [box |-> 13,
   objects |-> [Positioning_Source_Position |-> PositionObject,
                Positioning_Source_Enable |-> SwitchObject,
                Positioning_Source_Spread |-> FactorObject,
                Positioning_Source_Speaker_Group |-> NumberObject,
                Positioning_Source_Speaker_Position |-> SpeakerObject,
                Positioning_Source_DelayMode |-> SwitchObject]]

FunctionGroupObjects ==
  [box |-> 14,
   objects |-> [FunctionGroup_Name |-> TextObject, FunctionGroup_Delay |-> DelayObject,
                FunctionGroup_Mode |-> SwitchObject, FunctionGroup_SpreadFactor |-> FactorObject]]

ReverbInputObjects == [box |-> 16, objects |-> [ReverbInput_Gain |-> GainObject]]

ReverbInputProcessingObjects ==
  [box |-> 17,
   objects |-> [ReverbInputProcessing_Mute |-> MuteObject, ReverbInputProcessing_Gain |-> GainObject,
                ReverbInputProcessing_EqEnable |-> SwitchObject,
                ReverbInputProcessing_LevelMeter |-> LevelObject]]

CoordinateMappingSettingsObjects ==
  [box |-> 21,
   objects |-> [CoordinateMappingSettings_Name |-> TextObject,
                CoordinateMappingSettings_Type |-> SwitchObject,
                CoordinateMappingSettings_Flip |-> SwitchObject,
                CoordinateMappingSettings_P1_real |-> PositionObject,
                CoordinateMappingSettings_P2_real |-> PositionObject,
                CoordinateMappingSettings_P3_real |-> PositionObject,
                CoordinateMappingSettings_P4_real |-> PositionObject,
                CoordinateMappingSettings_P1_virtual |-> PositionObject,
                CoordinateMappingSettings_P3_virtual |-> PositionObject]]

CoordinateMappingObjects ==
  [box |-> 22, objects |-> [CoordinateMapping_Source_Position |-> PositionObject]]

SceneObjects ==
  [box |-> 23,
   objects |-> [Scene_SceneIndex |-> TextSensor, Scene_SceneName |-> TextSensor,
                Scene_SceneComment |-> TextSensor]]

SoundObjectRoutingObjects ==
  [box |-> 24,
   objects |-> [SoundObjectRouting_Mute |-> MuteObject, SoundObjectRouting_Gain |-> GainObject]]

PositioningSpeakerObjects ==
  [box |-> 26,
   objects |-> [Positioning_Speaker_Group |-> NumberObject,
                Positioning_Speaker_Position |-> SpeakerObject]]

(* The definition of an object of a group: every constructor packs its     *)
(* record and channel (0 where it has none) with the box and the object.   *)
DS100Definition(group, name, record, channel) ==
  Definition(GetONoTy2(2, record, channel, group.box, ObjectNumber[name]),
             group.objects[name][1], group.objects[name][2], 1)

(* The room names and enabled flags of the reverb switch: other properties *)
(* of the object that MatrixSettings_ReverbRoomId names, with other getters.*)
ReverbRoomProperty(index, getter) ==
  [DS100Definition(MatrixSettingsObjects, "MatrixSettings_ReverbRoomId", 0, 0)
     EXCEPT !.type = "BLOB", !.index = index, !.getter = getter]
ReverbRoomIdNames    == ReverbRoomProperty(2, 5)
ReverbRoomIdEnableds == ReverbRoomProperty(3, 9)

SceneAgent == Definition(10004, "UINT32", "dbOcaSceneAgent", 0)
============================================================================
