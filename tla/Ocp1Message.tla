---------------------------- MODULE Ocp1Message ----------------------------
(***************************************************************************)
(* The OCP.1 messages of Ocp1Message.h/.cpp: the header with its size      *)
(* field, the serialised form of each message, what UnmarshalOcp1Message   *)
(* makes of the bytes, and the commands an object definition yields.       *)
(*                                                                         *)
(* Header fields are octets; parameter data is copied as it is.  An object *)
(* definition is a record of object number, data type, level and index.    *)
(***************************************************************************)
EXTENDS Integers, Sequences

Octets == INSTANCE Ocp1DataTypes WITH ByteSize <- 256

U8(v)  == Octets!DataFromUint8(v)
U16(v) == Octets!DataFromUint16(v)
U32(v) == Octets!DataFromUint32(v)
U16At(data, offset) == Octets!ReadUint16(data, offset)
U32At(data, offset) == Octets!ReadUint32(data, offset)

----------------------------------------------------------------------------
(* MessageType.                                                            *)
Command == 0
CommandResponseRequired == 1
Notification == 2
Response == 3
KeepAlive == 4

Ocp1HeaderSize == 10

\* Faulty: forgets the parameter count of a response.
CalculateMessageSize_Short(msgType, parameterDataLength) ==
  parameterDataLength +
    CASE msgType \in {Command, CommandResponseRequired} -> 26
      [] msgType = Notification -> 37
      [] msgType = Response     -> 18
      [] msgType = KeepAlive    -> 9

(* The size field: everything after the sync byte.  It counts the bytes    *)
(* the serialisers below put around the parameter data.                    *)
CalculateMessageSize(msgType, parameterDataLength) ==
  parameterDataLength +
    CASE msgType \in {Command, CommandResponseRequired} -> 26
      [] msgType = Notification -> 37
      [] msgType = Response     -> 19
      [] msgType = KeepAlive    -> 9

(* Sync value, protocol version, size, type and message count.             *)
Header(msgType, parameterDataLength) ==
  U8(59) \o U16(1) \o U32(CalculateMessageSize(msgType, parameterDataLength))
         \o U8(msgType) \o U16(1)

SyncValue(data)   == data[1]
ProtoVers(data)   == U16At(data, 1)
MessageSize(data) == U32At(data, 3)
MessageType(data) == data[8]
MessageCount(data) == U16At(data, 8)

IsValidHeader(data) ==
  /\ SyncValue(data) = 59
  /\ ProtoVers(data) = 1
  /\ MessageSize(data) >= Ocp1HeaderSize
  /\ MessageType(data) <= KeepAlive
  /\ MessageCount(data) > 0

(* The messages, as records, and their serialised forms.  The size inside  *)
(* a message is that of its header without the header's own nine bytes.    *)
CommandMessage(handle, ono, defLevel, index, paramCount, data) ==
  [type |-> CommandResponseRequired, handle |-> handle, ono |-> ono,
   defLevel |-> defLevel, index |-> index, paramCount |-> paramCount, data |-> data]
ResponseMessage(handle, status, paramCount, data) ==
  [type |-> Response, handle |-> handle, status |-> status,
   paramCount |-> paramCount, data |-> data]
NotificationMessage(ono, defLevel, index, paramCount, data) ==
  [type |-> Notification, ono |-> ono, defLevel |-> defLevel, index |-> index,
   paramCount |-> paramCount, data |-> data]
KeepAliveMessage(data) == [type |-> KeepAlive, data |-> data]

InnerSize(msg) == U32(CalculateMessageSize(msg.type, Len(msg.data)) - 9)

SerializedCommand(msg) ==
  Header(msg.type, Len(msg.data)) \o InnerSize(msg) \o U32(msg.handle) \o U32(msg.ono)
    \o U16(msg.defLevel) \o U16(msg.index) \o U8(msg.paramCount) \o msg.data
SerializedResponse(msg) ==
  Header(msg.type, Len(msg.data)) \o InnerSize(msg) \o U32(msg.handle)
    \o U8(msg.status) \o U8(msg.paramCount) \o msg.data
(* Always two parameters, an empty context, the event PropertyChanged of   *)
(* OcaRoot and a closing byte, whatever the message was built with.        *)
SerializedNotification(msg) ==
  Header(msg.type, Len(msg.data)) \o InnerSize(msg) \o U32(msg.ono) \o U16(3) \o U16(1)
    \o U8(2) \o U16(0) \o U32(msg.ono) \o U16(1) \o U16(1)
    \o U16(msg.defLevel) \o U16(msg.index) \o msg.data \o U8(1)
SerializedKeepAlive(msg) == Header(msg.type, Len(msg.data)) \o msg.data

GetSerializedData(msg) ==
  CASE msg.type = CommandResponseRequired -> SerializedCommand(msg)
    [] msg.type = Response     -> SerializedResponse(msg)
    [] msg.type = Notification -> SerializedNotification(msg)
    [] msg.type = KeepAlive    -> SerializedKeepAlive(msg)

----------------------------------------------------------------------------
(* UnmarshalOcp1Message: the message, or NoMessage where the code returns  *)
(* a null pointer.  The sizes in the data are the peer's: each read is     *)
(* preceded by a check of the length received.                             *)
NoMessage == [type |-> "none"]

From(data, offset, length) == SubSeq(data, offset + 1, offset + length)

UnmarshalNotification(data) ==
  LET newValueSize == U32At(data, 10) - 28
      context      == U16At(data, 23)
  IN  IF /\ Len(data) >= 25
         /\ newValueSize >= 1
         /\ U32At(data, 14) # 0                    \* target object
         /\ U16At(data, 18) >= 1                   \* method level
         /\ U16At(data, 20) >= 1                   \* method index
         /\ data[23] >= 1                          \* parameter count
         /\ Len(data) >= 37 + context
         /\ U32At(data, 25 + context) # 0          \* emitter
         /\ U16At(data, 29 + context) = 1          \* event level
         /\ U16At(data, 31 + context) = 1          \* event index
         /\ U16At(data, 33 + context) # 0          \* property level
         /\ U16At(data, 35 + context) # 0          \* property index
         /\ Len(data) >= 37 + context + newValueSize
      THEN NotificationMessage(U32At(data, 25 + context), U16At(data, 33 + context),
             U16At(data, 35 + context), data[23], From(data, 37 + context, newValueSize))
      ELSE NoMessage

UnmarshalResponse(data) ==
  IF /\ Len(data) >= 20
     /\ U32At(data, 10) >= 10
     /\ U32At(data, 14) # 0                        \* handle
     /\ Len(data) >= 20 + (U32At(data, 10) - 10)
  THEN ResponseMessage(U32At(data, 14), data[19], data[20],
         From(data, 20, U32At(data, 10) - 10))
  ELSE NoMessage

(* Only the first two bytes are read, so a heartbeat in milliseconds loses *)
(* its lower half.                                                         *)
UnmarshalKeepAlive(data) ==
  IF Len(data) >= 12 THEN KeepAliveMessage(U16(U16At(data, 10))) ELSE NoMessage

(* A command without parameters has no data, whatever follows.             *)
UnmarshalCommand(data) ==
  IF /\ Len(data) >= 14
     /\ U32At(data, 10) >= 17
     /\ Len(data) >= Ocp1HeaderSize + U32At(data, 10)
     /\ U32At(data, 14) # 0                        \* handle
     /\ U32At(data, 18) # 0                        \* target object
     /\ U16At(data, 22) >= 1                       \* method level
     /\ U16At(data, 24) >= 1                       \* method index
  THEN CommandMessage(U32At(data, 14), U32At(data, 18), U16At(data, 22), U16At(data, 24),
         data[27], IF data[27] = 0 THEN << >> ELSE From(data, 27, Len(data) - 27))
  ELSE NoMessage

UnmarshalOcp1Message(data) ==
  IF Len(data) < Ocp1HeaderSize \/ ~ IsValidHeader(data) THEN NoMessage
  ELSE CASE MessageType(data) = Notification -> UnmarshalNotification(data)
         [] MessageType(data) = Response     -> UnmarshalResponse(data)
         [] MessageType(data) = KeepAlive    -> UnmarshalKeepAlive(data)
         [] MessageType(data) = CommandResponseRequired -> UnmarshalCommand(data)
         [] OTHER -> NoMessage

(* The first message of a stream of bytes: as many as its header announces *)
(* after the sync byte.                                                    *)
FirstFrame(stream) == SubSeq(stream, 1, MessageSize(stream) + 1)
AfterFirstFrame(stream) == SubSeq(stream, MessageSize(stream) + 2, Len(stream))

----------------------------------------------------------------------------
(* What is sent about an object: the definition's commands, each with the  *)
(* handle the message takes from the global counter.                       *)
FirstHandle == 2

SubscriptionManager == 4

AddSubscriptionCommand(def, handle) ==
  CommandMessage(handle, SubscriptionManager, 3, 1, 5,
                 Octets!DataFromOnoForSubscription(def.ono))
GetValueCommand(def, handle) ==
  CommandMessage(handle, def.ono, def.level, def.getter, 0, << >>)
SetValueCommand(def, handle, paramData) ==
  CommandMessage(handle, def.ono, def.level, 2, 1, paramData)
============================================================================
