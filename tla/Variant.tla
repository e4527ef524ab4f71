------------------------------ MODULE Variant ------------------------------
(***************************************************************************)
(* The Variant class (Variant.cpp): a value of one of ten types, or none,  *)
(* and its conversions to every other type and to and from parameter data. *)
(*                                                                         *)
(* A variant is a pair of a data type and a value.  Floats are whole       *)
(* numbers of halves (see Ocp1DataTypes).  A text is a sequence of         *)
(* symbols; a numeral is two symbols, a mark that says whether it has      *)
(* decimals and its number, so that parsing and printing keep their        *)
(* effect and lose their spelling.                                         *)
(***************************************************************************)
EXTENDS Ocp1ObjectDefinitions

IntMark == -1
DecMark == -2
Numeral(n) == << IntMark, n >>          \* "12"
Decimal(h) == << DecMark, h >>          \* "12.5", h halves
TrueText  == << -3 >>
FalseText == << -4 >>

NoVariant == << "NONE", 0 >>
BoolVariant(b)   == << "BOOLEAN", b >>
UInt8Variant(n)  == << "UINT8", n >>
UInt16Variant(n) == << "UINT16", n >>
FloatVariant(h)  == << "FLOAT32", h >>
TextVariant(s)   == << "STRING", s >>
PositionVariant(x, y, z) == << "BLOB", DataFromPosition(x, y, z) >>

IsValid(v) == v[1] # "NONE"
GetDataType(v) == v[1]

Integral == {"INT32", "UINT8", "UINT16", "UINT32", "UINT64"}
Floating == {"FLOAT32", "FLOAT64"}
DataTypes == Integral \cup Floating \cup {"BOOLEAN", "STRING", "BLOB", "DB_POSITION"}

----------------------------------------------------------------------------
(* To numbers.  std::lround rounds halves away from zero; std::stol and its*)
(* kin read the whole part of a numeral and throw on any other text and on *)
(* a number their type cannot hold.                                        *)
Halved(h) == IF h >= 0 THEN h \div 2 ELSE -((-h) \div 2)
LRound(h) == IF h >= 0 THEN (h + 1) \div 2 ELSE -((1 - h) \div 2)

IsNumeral(s) == Len(s) = 2 /\ s[1] \in {IntMark, DecMark}
WholePart(s) == IF s[1] = IntMark THEN s[2] ELSE Halved(s[2])
FitsSigned(n, i) == -(Power[n] \div 2) <= i /\ i < Power[n] \div 2

(* What each type of variant may hold.                                     *)
IsTyped(v) ==
  CASE v[1] = "BOOLEAN" -> v[2] \in BOOLEAN
    [] v[1] = "UINT8"   -> v[2] \in 0 .. Power[1] - 1
    [] v[1] = "UINT16"  -> v[2] \in 0 .. Power[2] - 1
    [] v[1] = "UINT32"  -> v[2] \in 0 .. Power[4] - 1
    [] v[1] = "UINT64"  -> v[2] \in 0 .. Power[8] - 1
    [] v[1] \in {"INT32", "FLOAT32"} -> v[2] \in Int /\ FitsSigned(4, v[2])
    [] v[1] = "FLOAT64" -> v[2] \in Int /\ FitsSigned(8, v[2])
    [] v[1] = "STRING"  -> v[2] \in Seq(Int)
    [] v[1] = "BLOB"    -> v[2] \in Seq(Int) /\ Len(v[2]) >= 2
    [] OTHER            -> FALSE

ParsedWhole(s, bytes) ==
  IF IsNumeral(s) /\ FitsSigned(bytes, WholePart(s)) THEN Read(TRUE, WholePart(s))
  ELSE Read(FALSE, 0)

(* The number before the cast to the type asked for; a text is parsed as a *)
(* number of textBytes bytes.                                              *)
WholeNumber(v, textBytes) ==
  CASE v[1] = "BOOLEAN"    -> Read(TRUE, IF v[2] THEN 1 ELSE 0)
    [] v[1] \in Integral   -> Read(TRUE, v[2])
    [] v[1] \in Floating   -> Read(TRUE, LRound(v[2]))
    [] v[1] = "STRING"     -> ParsedWhole(v[2], textBytes)
    [] OTHER               -> Read(FALSE, 0)

(* static_cast to an unsigned type of n bytes, and to a signed one.        *)
Unsigned(n, read) == [read EXCEPT !.value = @ % Power[n]]
Signed(n, read)   == [read EXCEPT !.value = AsSigned(n, @ % Power[n])]

\* Faulty: casts to one byte.
ToUInt16_Narrow(v) == IF v[1] = "BLOB" THEN DataToUint16(v[2]) ELSE Unsigned(1, WholeNumber(v, 4))

(* long and long long have eight bytes, int has four.                      *)
ToInt32(v)  == IF v[1] = "BLOB" THEN DataToInt32(v[2])  ELSE Signed(4, WholeNumber(v, 8))
ToUInt8(v)  == IF v[1] = "BLOB" THEN DataToUint8(v[2])  ELSE Unsigned(1, WholeNumber(v, 8))
ToUInt16(v) == IF v[1] = "BLOB" THEN DataToUint16(v[2]) ELSE Unsigned(2, WholeNumber(v, 4))
ToUInt32(v) == IF v[1] = "BLOB" THEN DataToUint32(v[2]) ELSE Unsigned(4, WholeNumber(v, 4))
ToUInt64(v) == IF v[1] = "BLOB" THEN DataToUint64(v[2]) ELSE Unsigned(8, WholeNumber(v, 8))

(* Only what is greater than zero is true, and only the text "true".       *)
ToBool(v) ==
  CASE v[1] = "BOOLEAN" -> Read(TRUE, v[2])
    [] v[1] \in Integral \cup Floating -> Read(TRUE, v[2] > 0)
    [] v[1] = "STRING"  -> Read(TRUE, v[2] = TrueText)
    [] v[1] = "BLOB"    -> DataToBool(v[2])
    [] OTHER            -> Read(FALSE, FALSE)

(* To a float of n bytes.  A number beyond the floats of the model becomes *)
(* the nearest of them (where the code's float keeps the exponent and loses*)
(* low bits).                                                              *)
NearestFloat(n, h) ==
  IF FitsSigned(n, h) THEN h ELSE IF h < 0 THEN -(Power[n] \div 2) ELSE (Power[n] \div 2) - 1

ToFloating(n, v) ==
  CASE v[1] = "BOOLEAN"  -> Read(TRUE, IF v[2] THEN 2 ELSE 0)
    [] v[1] \in Integral -> Read(TRUE, NearestFloat(n, 2 * v[2]))
    [] v[1] \in Floating -> Read(TRUE, NearestFloat(n, v[2]))
    [] v[1] = "STRING" /\ IsNumeral(v[2]) ->
         Read(TRUE, NearestFloat(n, IF v[2][1] = IntMark THEN 2 * v[2][2] ELSE v[2][2]))
    [] v[1] = "BLOB"     -> ReadSigned(n, v[2])
    [] OTHER             -> Read(FALSE, 0)
ToFloat(v)  == ToFloating(4, v)
ToDouble(v) == ToFloating(8, v)

----------------------------------------------------------------------------
(* To text and to bytes.                                                   *)
ToString(v) ==
  CASE v[1] = "BOOLEAN"  -> Read(TRUE, IF v[2] THEN TrueText ELSE FalseText)
    [] v[1] \in Integral -> Read(TRUE, Numeral(v[2]))
    [] v[1] \in Floating -> Read(TRUE, Decimal(v[2]))
    [] v[1] = "STRING"   -> Read(TRUE, v[2])
    [] v[1] = "BLOB"     -> DataToString(v[2])
    [] OTHER             -> Read(FALSE, << >>)

ToByteVector(v) ==
  CASE v[1] = "BOOLEAN" -> Read(TRUE, DataFromBool(v[2]))
    [] v[1] = "INT32"   -> Read(TRUE, DataFromInt32(v[2]))
    [] v[1] = "UINT8"   -> Read(TRUE, DataFromUint8(v[2]))
    [] v[1] = "UINT16"  -> Read(TRUE, DataFromUint16(v[2]))
    [] v[1] = "UINT32"  -> Read(TRUE, DataFromUint32(v[2]))
    [] v[1] = "UINT64"  -> Read(TRUE, DataFromUint64(v[2]))
    [] v[1] = "FLOAT32" -> Read(TRUE, DataFromFloat(v[2]))
    [] v[1] = "FLOAT64" -> Read(TRUE, DataFromDouble(v[2]))
    [] v[1] = "STRING"  -> Read(TRUE, DataFromString(v[2]))
    [] v[1] = "BLOB"    -> Read(TRUE, v[2])
    [] OTHER            -> Read(FALSE, << >>)

(* The parameter data that sets an object of the given type.  A failed     *)
(* conversion clears ok, and yields the bytes of zero all the same.        *)
ToParamData(v, type) ==
  LET native == IF type = "NONE" THEN GetDataType(v) ELSE type
  IN  CASE native = "BOOLEAN" -> Read(ToBool(v).ok,   DataFromBool(ToBool(v).value))
        [] native = "INT32"   -> Read(ToInt32(v).ok,  DataFromInt32(ToInt32(v).value))
        [] native = "UINT8"   -> Read(ToUInt8(v).ok,  DataFromUint8(ToUInt8(v).value))
        [] native = "UINT16"  -> Read(ToUInt16(v).ok, DataFromUint16(ToUInt16(v).value))
        [] native = "UINT32"  -> Read(ToUInt32(v).ok, DataFromUint32(ToUInt32(v).value))
        [] native = "UINT64"  -> Read(ToUInt64(v).ok, DataFromUint64(ToUInt64(v).value))
        [] native = "FLOAT32" -> Read(ToFloat(v).ok,  DataFromFloat(ToFloat(v).value))
        [] native = "FLOAT64" -> Read(ToDouble(v).ok, DataFromDouble(ToDouble(v).value))
        [] native = "STRING"  -> Read(ToString(v).ok, DataFromString(ToString(v).value))
        [] native \in {"BLOB", "DB_POSITION"} -> ToByteVector(v)
        [] OTHER              -> Read(FALSE, << >>)

(* The variant built from received data of the given type.  ok is what the *)
(* constructor asserts; a scalar is set to zero when it fails.             *)
FromRead(type, read) == Read(read.ok, << type, read.value >>)

VariantFromData(data, type) ==
  CASE type = "BOOLEAN" -> FromRead(type, DataToBool(data))
    [] type = "INT32"   -> FromRead(type, DataToInt32(data))
    [] type = "UINT8"   -> FromRead(type, DataToUint8(data))
    [] type = "UINT16"  -> FromRead(type, DataToUint16(data))
    [] type = "UINT32"  -> FromRead(type, DataToUint32(data))
    [] type = "UINT64"  -> FromRead(type, DataToUint64(data))
    [] type = "FLOAT32" -> FromRead(type, DataToFloat(data))
    [] type = "FLOAT64" -> FromRead(type, DataToDouble(data))
    [] type = "STRING"  -> FromRead(type, DataToString(data))
    [] type = "BLOB" /\ Len(data) >= 2 -> Read(TRUE, << "BLOB", data >>)
    [] type = "DB_POSITION" /\ Len(data) \in {12, 24, 36} -> Read(TRUE, << "BLOB", data >>)
    [] OTHER            -> Read(FALSE, NoVariant)

----------------------------------------------------------------------------
(* To positions and to lists: byte vectors only, of the right sizes.       *)
FloatsIn(data, count) ==
  [i \in 1 .. count |-> DataToFloat(SubSeq(data, 4 * i - 3, 4 * i)).value]

ToFloats(v, count, sizes) ==
  IF v[1] = "BLOB" /\ Len(v[2]) \in sizes THEN Read(TRUE, FloatsIn(v[2], count))
  ELSE Read(FALSE, [i \in 1 .. count |-> 0])
ToPosition(v) == ToFloats(v, 3, {12, 36})
ToAimingAndPosition(v) == ToFloats(v, 6, {24})

ListSize(data) == DataToUint16(data).value

(* One byte per element, each 0 or 1 or anything else: only 1 is true.     *)
ToBoolVector(v) ==
  IF v[1] = "BLOB" /\ Len(v[2]) >= 2 /\ Len(v[2]) = ListSize(v[2]) + 2
  THEN Read(TRUE, [i \in 1 .. ListSize(v[2]) |-> DataToBool(SubSeq(v[2], i + 2, i + 2)).value])
  ELSE Read(FALSE, << >>)

(* Strings, each after its length, while at least a length is left; the    *)
(* count must be the one announced.  parse[p] is what is read from byte p. *)
ToStringVector(v) ==
  LET data == v[2]
      parse[p \in 3 .. Len(data) + 1] ==
        IF p + 1 > Len(data) THEN Read(TRUE, << >>)
        ELSE LET last == p + 1 + NumberIn(2, SubSeq(data, p, p + 1))
             IN  IF last > Len(data) THEN Read(FALSE, << >>)
                 ELSE [parse[last + 1] EXCEPT !.value = << SubSeq(data, p + 2, last) >> \o @]
      strings == IF ListSize(data) = 0 THEN Read(TRUE, << >>) ELSE parse[3]
  IN  IF v[1] # "BLOB" \/ Len(data) < 2 \/ Len(data) < 2 * ListSize(data) + 2
      THEN Read(FALSE, << >>)
      ELSE Read(strings.ok /\ Len(strings.value) = ListSize(data), strings.value)
============================================================================
