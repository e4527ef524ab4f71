--------------------------- MODULE Ocp1DataTypes ---------------------------
(***************************************************************************)
(* The marshalling of OCA values (Ocp1DataTypes.cpp): big-endian integers, *)
(* floats, strings and positions to and from byte vectors, and the packing *)
(* of object numbers.                                                      *)
(*                                                                         *)
(* ByteSize is the number of values of a byte.  The headers of messages    *)
(* use 256; the payloads may use a smaller one, so that every width is     *)
(* scaled down while wrapping, sign and truncation work as in the code.    *)
(*                                                                         *)
(* A float is a whole number of halves, and its bit pattern the two's      *)
(* complement of that number: an injective code of the values the model    *)
(* uses (which code it is does not matter to any property).  A string is a *)
(* sequence of symbols, and each symbol travels as one byte.               *)
(***************************************************************************)
EXTENDS Integers, Sequences

CONSTANT ByteSize

ASSUME ByteSizeAssumption == ByteSize \in Nat /\ ByteSize > 1

(* What a DataTo function returns: *pOk and the value.                     *)
Read(ok, value) == [ok |-> ok, value |-> value]

Power[n \in Nat] == IF n = 0 THEN 1 ELSE ByteSize * Power[n - 1]

(* The n bytes of v, most significant first.                               *)
BytesOf(n, v) == [i \in 1 .. n |-> (v \div Power[n - i]) % ByteSize]

(* The unsigned number in the first n bytes of data.                       *)
NumberIn(n, data) ==
  LET upTo[i \in 0 .. n] ==
        IF i = 0 THEN 0 ELSE upTo[i - 1] * ByteSize + data[i]
  IN  upTo[n]

(* The same bits read as a signed number (two's complement).               *)
AsSigned(n, v) == IF v < Power[n] \div 2 THEN v ELSE v - Power[n]

(* A fixed-width reader takes at least its width: responses may carry more *)
(* (the minimum and the maximum of the value).                             *)
ReadUnsigned(n, data) ==
  IF Len(data) >= n THEN Read(TRUE, NumberIn(n, data)) ELSE Read(FALSE, 0)
ReadSigned(n, data) ==
  IF Len(data) >= n THEN Read(TRUE, AsSigned(n, NumberIn(n, data))) ELSE Read(FALSE, 0)

----------------------------------------------------------------------------
DataToBool(data) == Read(Len(data) = 1, Len(data) = 1 /\ data[1] = 1)
DataFromBool(b)  == << IF b THEN 1 ELSE 0 >>

DataToInt32(data)  == ReadSigned(4, data)
DataFromInt32(v)   == BytesOf(4, v)
DataToUint8(data)  == ReadUnsigned(1, data)
DataFromUint8(v)   == BytesOf(1, v)
DataToUint16(data) == ReadUnsigned(2, data)
DataFromUint16(v)  == BytesOf(2, v)
DataToUint32(data) == ReadUnsigned(4, data)
DataFromUint32(v)  == BytesOf(4, v)
DataToUint64(data) == ReadUnsigned(8, data)
DataFromUint64(v)  == BytesOf(8, v)

(* The float whose bit pattern the bytes are.                              *)
DataToFloat(data)   == ReadSigned(4, data)
DataFromFloat(h)    == BytesOf(4, h)
DataToDouble(data)  == ReadSigned(8, data)
DataFromDouble(h)   == BytesOf(8, h)

(* A string is preceded by its length, which the reader does not look at:  *)
(* it takes all the bytes that follow.                                     *)
DataToString(data) ==
  IF Len(data) >= 2 THEN Read(TRUE, SubSeq(data, 3, Len(data))) ELSE Read(FALSE, << >>)
DataFromString(s) == BytesOf(2, Len(s)) \o s

DataFromPosition(x, y, z) == DataFromFloat(x) \o DataFromFloat(y) \o DataFromFloat(z)
DataFromAimingAndPosition(hor, vert, rot, x, y, z) ==
  DataFromPosition(hor, vert, rot) \o DataFromPosition(x, y, z)

(* The parameters of AddSubscription: the emitter and its PropertyChanged  *)
(* event, the subscriber and its method, an empty context, the delivery    *)
(* mode and an empty destination.  (Nothing removes a subscription.)       *)
DataFromOnoForSubscription(ono) ==
  BytesOf(4, ono) \o << 0, 1, 0, 1 >> \o BytesOf(4, ono) \o << 0, 3, 0, 1 >>
    \o << 0, 0, 1, 0, 4, 0, 0, 0, 0 >>

ReadUint16(data, offset) == NumberIn(2, SubSeq(data, offset + 1, offset + 2))
ReadUint32(data, offset) == NumberIn(4, SubSeq(data, offset + 1, offset + 4))

----------------------------------------------------------------------------
(* Object numbers: fields packed from the top, each of which keeps only the*)
(* bits that fit: its value modulo the number of values it has room for.   *)
Types == 16
Records == 256
Channels == 32
BoxesAndObjects == 32768
Ty2Channels == 256
Ty2Boxes == 32
Ty2Objects == 128

Field(above, room, value) == above * room + (value % room)

GetONo(type, record, channel, boxAndObjectNumber) ==
  Field(Field(Field(Field(0, Types, type), Records, record), Channels, channel),
        BoxesAndObjects, boxAndObjectNumber)

\* Faulty: leaves the record out.
GetONoTy2_NoRecord(type, record, channel, boxNumber, objectNumber) ==
  Field(Field(Field(Field(Field(0, Types, type), Records, 0), Ty2Channels, channel),
              Ty2Boxes, boxNumber), Ty2Objects, objectNumber)

GetONoTy2(type, record, channel, boxNumber, objectNumber) ==
  Field(Field(Field(Field(Field(0, Types, type), Records, record), Ty2Channels, channel),
              Ty2Boxes, boxNumber), Ty2Objects, objectNumber)
============================================================================
