-------------------------- MODULE MCDeviceSession --------------------------
(***************************************************************************)
(* Small sessions: every remote object of a DS100 by itself, speakers on   *)
(* old and new firmware across a reconnection, a few pairs, each type of   *)
(* amplifier, and objects of every data type tracked by a plain controller.*)
(***************************************************************************)
EXTENDS DeviceSession

Zeros(n) == [i \in 1 .. n |-> 0]

(* Lists as the reverb switch has them: two names, three flags.            *)
Names == BytesOf(2, 2) \o DataFromString(<< 20, 21 >>) \o DataFromString(<< 22 >>)
Flags == << 0, 3, 1, 0, 1 >>

MCInitialValue(type, level, index) ==
  CASE type \in {"BOOLEAN", "UINT8"} -> << 0 >>
    [] type = "UINT16"               -> Zeros(2)
    [] type \in {"INT32", "UINT32", "FLOAT32"} -> Zeros(4)
    [] type \in {"UINT64", "FLOAT64"} -> Zeros(8)
    [] type = "STRING"               -> DataFromString(<< 20 >>)
    [] type = "BLOB"                 -> IF index = 2 THEN Names ELSE Flags
    [] type = "DB_POSITION"          ->
         IF level = DefLevel["dbOcaSpeakerPositionAgentDeprecated"] THEN Zeros(24) ELSE Zeros(12)

MCReports(type, level, index) ==
  CASE type = "BOOLEAN" -> {<< 1 >>}
    [] type = "UINT8"   -> {<< 2 >>, << 7 >>}
    [] type = "UINT16"  -> {<< 0, 1 >>, << 7, 7 >>}
    [] type = "INT32"   -> {BytesOf(4, -3), BytesOf(4, 2047)}
    [] type = "UINT32"  -> {BytesOf(4, 70), BytesOf(4, 4095)}
    [] type = "UINT64"  -> {BytesOf(8, 5000), BytesOf(8, 16777215)}
    [] type \in {"FLOAT32", "FLOAT64"} ->
         {BytesOf(Width[type], h) : h \in {-3, 5, 126, 127, 140}}
    [] type = "STRING"  -> {DataFromString(Numeral(3)), DataFromString(Decimal(-5)),
                            DataFromString(Numeral(3000)), << 0, 0 >>}
    [] type = "BLOB"    -> {<< 0, 0 >>, SubSeq(Names, 1, 6), Names \o << 0 >>,
                                Names \o << 0, 0 >>, Flags \o << 1 >>, << 0, 2, 2, 1 >>}
    [] type = "DB_POSITION" ->
         IF Len(MCInitialValue(type, level, index)) = 24
         THEN {DataFromAimingAndPosition(1, 2, 3, 4, 5, 6)}
         ELSE {DataFromPosition(1, -2, 3)}

(* "DB000BD0", "DB000CD0", "DB0001D2", "DB0003DA" and a GUID of no d&b.    *)
Guid(b, a, c, d, e) == << 13, b, 0, 0, a, c, d, e >>
OldDS100 == Guid(11, 0, 11, 13, 0)
NewDS100 == Guid(11, 0, 12, 13, 0)
OldDS100M == Guid(11, 0, 1, 13, 2)
NewDS110 == Guid(11, 0, 0, 13, 1)
VCore == Guid(11, 0, 3, 13, 10)
OtherMake == Guid(12, 0, 12, 13, 0)

AnyValues ==
  {UInt8Variant(1), FloatVariant(5), TextVariant(<< 21, 22 >>), PositionVariant(3, 2, -1),
   << "BLOB", DataFromAimingAndPosition(6, 5, 4, 3, 2, 1) >>}

DS100(active, targets, guids, sessions) ==
  [kind |-> "soundscape", active |-> active, sizes |-> << << 2, 2 >> >>, targets |-> targets,
   values |-> AnyValues, reads |-> {}, guids |-> guids, sessions |-> sessions,
   sets |-> 1, reports |-> 1, beats |-> 0]

(* One object by itself, at an address where mixing up the two numbers, or *)
(* leaving one out, leads to another object.                               *)
AddressOf(roi) ==
  CASE roi \in DeviceObjects \cup SceneCommands -> Unindexed
    [] roi \in NodeObjects \cup RoutingObjects \cup MappedSplits
                 \cup {"CoordinateMapping_SourcePosition", "ReverbInput_Gain"} -> << 1, 2 >>
    [] OTHER -> At(2)
Object(roi) == << roi, AddressOf(roi) >>

SingleObjects ==
  {DS100(<< Object(roi) >>, {Object(roi)}, {NewDS100}, 1) :
     roi \in RemObjIdents \ (PseudoObjects \cup {"Fixed_GUID"})}

SpeakerSessions ==
  {[DS100(<< Object("Positioning_SpeakerPosition") >>, {Object("Positioning_SpeakerPosition")},
          {OldDS100, VCore}, 2)
      EXCEPT !.sizes = << << 2, 2 >>, << 1, 1 >> >>,
             !.values = {<< "BLOB", DataFromAimingAndPosition(6, 5, 4, 3, 2, 1) >>}],
   DS100(<< Object("Positioning_SpeakerPosition") >>, {Object("Positioning_SpeakerPosition")},
         {OldDS100M, NewDS110, OtherMake}, 1)}

PairedObjects ==
  {[DS100(<< << "CoordinateMapping_SourcePosition", << 1, 2 >> >>,
             << "CoordinateMapping_SourcePosition", << 2, 1 >> >> >>,
          {<< "CoordinateMapping_SourcePosition_XY", << 2, 1 >> >>}, {NewDS100}, 1)
      EXCEPT !.values = {PositionVariant(3, 2, -1)}],
   [DS100(<< << "MatrixNode_Gain", << 1, 2 >> >>, << "MatrixNode_Gain", << 2, 1 >> >> >>,
          {<< "MatrixNode_Gain", << 2, 1 >> >>}, {NewDS100}, 1)
      EXCEPT !.values = {FloatVariant(7)}]}

Amp(ampType, channels) ==
  [kind |-> "amp", ampType |-> ampType, channels |-> channels, targets |-> {},
   values |-> {}, reads |-> {}, guids |-> {NewDS100}, sessions |-> 1, sets |-> 0, reports |-> 1, beats |-> 0]
AmpSets(quantity, values) ==
  [Amp("Dx", 1) EXCEPT !.targets = {<< quantity, IF quantity = "Power" THEN Unindexed ELSE At(1) >>},
                       !.values = values, !.sets = 1, !.reports = 0]
Amps == {Amp(ampType, 1) : ampType \in AmpTypes}
          \cup {[AmpSets("Power", BOOLEAN) EXCEPT !.ampType = "FiveD"],
                AmpSets("Mute", BOOLEAN), AmpSets("Gain", {-7, 3})}

(* Plain controllers: one object of each type, set from every type.        *)
Class(type) ==
  CASE type = "BLOB" -> "OcaSwitch" [] type = "DB_POSITION" -> "dbOcaPositionAgentDeprecated"
    [] OTHER -> "OcaInt32Actuator"
SampleValues ==
  {BoolVariant(TRUE), UInt8Variant(6), UInt16Variant(40), FloatVariant(-3), FloatVariant(9),
   << "INT32", -2 >>, << "UINT32", 130 >>, << "UINT64", 70000 >>, << "FLOAT64", 131 >>,
   TextVariant(Numeral(2)), TextVariant(Decimal(7)), TextVariant(<< 20 >>), TextVariant(TrueText),
   << "BLOB", << 1, 2 >> >>, PositionVariant(1, 2, 3)}
Plain(defs, values, reports) ==
  [kind |-> "plain", defs |-> defs, targets |-> {<< "Plain", At(1) >>}, values |-> values,
   reads |-> NumberTypes \cup {"BOOLEAN", "STRING", "Position", "Aiming", "Bools", "Strings"},
   guids |-> {NewDS100}, sessions |-> 1, sets |-> 1, reports |-> reports,
   beats |-> 0]
PlainObjects ==
  {Plain(<< Definition(4096, type, Class(type), 1) >>, SampleValues, 1) :
     type \in NumberTypes \cup {"BOOLEAN", "STRING", "DB_POSITION"}}
    \cup {[Plain(<< ReverbRoomIdNames >>, {}, 1) EXCEPT !.beats = 1],
          Plain(<< ReverbRoomIdEnableds >>, {}, 1),
          Plain(<< Definition(4096, "DB_POSITION", "dbOcaSpeakerPositionAgentDeprecated", 1) >>,
                {<< "BLOB", DataFromAimingAndPosition(6, 5, 4, 3, 2, -1) >>}, 1)}

MCSetups ==
  SingleObjects \cup SpeakerSessions \cup PairedObjects \cup Amps \cup PlainObjects

(* The GUID among the objects an application asks to be told of.           *)
GuidSetups ==
  {DS100(<< Object("Fixed_GUID"), Object("MatrixInput_Mute") >>, {}, {NewDS100}, 1)}
============================================================================
