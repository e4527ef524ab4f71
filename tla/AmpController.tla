--------------------------- MODULE AmpController ---------------------------
(***************************************************************************)
(* The tables of AmpController: the objects it tracks for a type of        *)
(* amplifier and a number of channels, how it decodes the value of each,   *)
(* and what its typed setters send.                                        *)
(*                                                                         *)
(* An object is <<quantity, <<channel, 0>>>>, one quantity per callback    *)
(* (onPower, onChannelGain, ...).                                          *)
(***************************************************************************)
EXTENDS SoundscapeController

AmpTypes == {"Dx", "Dy", "FiveD"}

ChannelQuantities == << "Gain", "Mute", "ISP", "GR", "OVL", "Headroom" >>
AmpQuantities == {"Power", "Gain", "Mute", "ISP", "GR", "OVL", "Headroom"}

AmpObjectDefinition(ampType, quantity, ch) ==
  CASE quantity = "Power"    -> PowerDefinition(ampType)
    [] quantity = "Gain"     -> GainDefinition(ch)
    [] quantity = "Mute"     -> MuteDefinition(ch)
    [] quantity = "ISP"      -> StatusDefinition(ampType, ch, "Isp")
    [] quantity = "GR"       -> StatusDefinition(ampType, ch, "Gr")
    [] quantity = "OVL"      -> StatusDefinition(ampType, ch, "Ovl")
    [] quantity = "Headroom" -> GrHeadDefinition(ampType, ch)

(* Power first, then the quantities of each channel in turn.               *)
AmpObjects(channelCount) ==
  << << "Power", Unindexed >> >> \o
    [i \in 1 .. 6 * channelCount |->
       << ChannelQuantities[((i - 1) % 6) + 1], At(((i - 1) \div 6) + 1) >>]

(* What the callbacks are given.  A mute travels as 1 or 2.                *)
AmpDecoded(quantity, data) ==
  CASE quantity = "Power" -> BoolVariant(DataToUint16(data).value > 0)
    [] quantity = "Mute"  -> BoolVariant(DataToUint8(data).value = 1)
    [] quantity \in {"Gain", "Headroom"} -> FloatVariant(DataToFloat(data).value)
    [] OTHER -> BoolVariant(DataToBool(data).value)

(* setPower(on), setChannelGain(channel, gain), setChannelMute(ch, mute).  *)
AmpSetVariant(quantity, value) ==
  CASE quantity = "Power" -> UInt16Variant(IF value THEN 1 ELSE 0)
    [] quantity = "Gain"  -> FloatVariant(value)
    [] quantity = "Mute"  -> UInt8Variant(IF value THEN 1 ELSE 2)
============================================================================
