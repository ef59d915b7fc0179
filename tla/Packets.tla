------------------------------ MODULE Packets ------------------------------
(***************************************************************************)
(* kknet/kkpacket: a packet is [length, head, body].  The length field     *)
(* says how long [head, body] is, the first part of the head is the        *)
(* message id, the router knows which type the id stands for.  A byte is a *)
(* number below Base, and the codec of the body is the identity on         *)
(* sequences of bytes: what the model is about is the framing.             *)
(***************************************************************************)
EXTENDS Integers, Sequences, FiniteSets, SequencesExt

CONSTANTS
    Base,           \* values of a byte
    LengthBytes,    \* lfbCount: bytes of the length field
    MaxPacketSize,  \* maxPacketSize, of the whole packet
    MsgTypes,       \* the message types of the program
    MsgIDs,         \* the ids they are registered under, 0 included
    PartSizes,      \* the parts of the head, by their size in bytes
    MsgBodies       \* bodies of messages (bound)

VARIABLE router     \* typeToId and idToType, 0 and NoType where there is nothing

NoType == "none"
Error == <<-1>>       \* no bytes: an operation that returned an error

Digits(n, w) == [i \in 1 .. w |-> (n \div Base ^ (w - i)) % Base]
Number(bytes) == FoldLeft(LAMBDA acc, d : acc * Base + d, 0, bytes)
From(bytes, i) == SubSeq(bytes, i, Len(bytes))
---------------------------------------------------------------------------
(* LengthFieldStreamPacket *)
ReadMessageSize(bytes) == Number(SubSeq(bytes, 1, LengthBytes))
WriteMessageSize(bytes, size) == Digits(size, LengthBytes) \o From(bytes, LengthBytes + 1)
MessageBytes(bytes) == IF Len(bytes) < LengthBytes THEN Error ELSE From(bytes, LengthBytes + 1)

CheckPacket(bytes) ==
    /\ LengthBytes <= Len(bytes) /\ Len(bytes) <= MaxPacketSize
    /\ Len(bytes) = ReadMessageSize(bytes) + LengthBytes

Pack(message) ==
    IF Len(message) > MaxPacketSize - LengthBytes THEN Error
    ELSE Digits(Len(message), LengthBytes) \o message
Unpack(bytes) ==
    IF Len(bytes) < LengthBytes THEN Error
    ELSE IF Len(bytes) < LengthBytes + ReadMessageSize(bytes) THEN Error
    ELSE SubSeq(bytes, LengthBytes + 1, LengthBytes + ReadMessageSize(bytes))

(* Split: where the packets of the bytes lie, how many bytes are left over *)
(* and whether a length field asks for more than a packet may have.        *)
Split(bytes) ==
    LET from[p \in 1 .. Len(bytes) + 1] ==
            LET rest == Len(bytes) - p + 1
                total == LengthBytes + ReadMessageSize(From(bytes, p))
                stop(bad) == [packets |-> <<>>, left |-> rest, err |-> bad]
            IN  IF rest < LengthBytes THEN stop(FALSE)
                ELSE IF total > MaxPacketSize THEN stop(TRUE)
                ELSE IF rest < total THEN stop(FALSE)
                ELSE [from[p + total] EXCEPT !.packets = <<<<p, total>>>> \o @]
    IN  from[1]
Cut(bytes, packets) == [i \in DOMAIN packets |-> SubSeq(bytes, packets[i][1], packets[i][1] + packets[i][2] - 1)]

(* SplitSR: the next packet of a stream reader, if it is there. *)
SplitSR(bytes) ==
    LET total == LengthBytes + ReadMessageSize(bytes)
        none(bad) == [packet |-> <<>>, ok |-> FALSE, err |-> bad]
    IN  IF Len(bytes) < LengthBytes THEN none(FALSE)
        ELSE IF total > MaxPacketSize THEN none(TRUE)
        ELSE IF Len(bytes) < total THEN none(FALSE)
        ELSE [packet |-> SubSeq(bytes, 1, total), ok |-> TRUE, err |-> FALSE]
---------------------------------------------------------------------------
(* PacketHead: Marshal writes one value for every part.  A part of one     *)
(* byte refuses a value that it cannot hold, the others cut it off.        *)
HeadSize == FoldLeft(LAMBDA acc, n : acc + n, 0, PartSizes)
PartOffset(i) == FoldLeft(LAMBDA acc, n : acc + n, 0, SubSeq(PartSizes, 1, i - 1))
PartMarshals(size, value) == size > 1 \/ value < Base
HeadMarshal(values) ==
    IF Len(values) < Len(PartSizes) \/ \E i \in DOMAIN PartSizes : ~PartMarshals(PartSizes[i], values[i])
    THEN Error
    ELSE FlattenSeq([i \in DOMAIN PartSizes |-> Digits(values[i], PartSizes[i])])
HeadUnmarshal(bytes) ==
    IF Len(bytes) < HeadSize THEN Error
    ELSE [i \in DOMAIN PartSizes |-> Number(SubSeq(bytes, PartOffset(i) + 1, PartOffset(i) + PartSizes[i]))]
(* ReadValueByName of "msgID", which names the first part if there is one. *)
GetMsgID(message) == IF PartSizes = <<>> THEN -1 ELSE Number(SubSeq(message, 1, PartSizes[1]))
BodyBytesShort(message) == From(message, HeadSize)
BodyBytes(message) == IF Len(message) < HeadSize THEN Error ELSE From(message, HeadSize + 1)

(* codec.go.  EncodeStream does not look at the size of what it made. *)
EncodeStream(type, body) ==
    LET id == router.typeToId[type]
        head == HeadMarshal(<<id>>)
    IN  IF id = 0 \/ head = Error THEN Error
        ELSE WriteMessageSize(Digits(0, LengthBytes) \o head \o body, HeadSize + Len(body))
DecodePacket(bytes) ==
    LET message == MessageBytes(bytes)
    IN  IF message = Error THEN Error
        ELSE IF BodyBytes(message) = Error THEN Error
        ELSE LET type == IF GetMsgID(message) \in MsgIDs THEN router.idToType[GetMsgID(message)] ELSE NoType
             IN  IF type = NoType THEN Error ELSE <<type, BodyBytes(message)>>
---------------------------------------------------------------------------
PacketsInit == router = [typeToId |-> [t \in MsgTypes |-> 0], idToType |-> [i \in MsgIDs |-> NoType],
                         idToRoute |-> [i \in MsgIDs |-> ""]]
(* MsgRouter.Register: an id keeps its type; a type may get another id. *)
RouterRegister(id, type, route) ==
    /\ id # 0 /\ router.idToType[id] \in {NoType, type}
    /\ router' = [typeToId |-> [router.typeToId EXCEPT ![type] = id],
                  idToType |-> [router.idToType EXCEPT ![id] = type],
                  idToRoute |-> [router.idToRoute EXCEPT ![id] = route]]
PacketsNext == \E id \in MsgIDs, type \in MsgTypes, route \in {"gate", "game"} : RouterRegister(id, type, route)
PacketsSpec == PacketsInit /\ [][PacketsNext]_router
---------------------------------------------------------------------------
Fits(type, body) ==
    /\ LengthBytes + HeadSize + Len(body) <= MaxPacketSize
    /\ PartSizes # <<>> => router.typeToId[type] < Base ^ PartSizes[1]

(* Whatever types were registered under whatever ids, and in what order: a *)
(* message that EncodeStream accepts passes CheckPacket, decodes to itself *)
(* and is cut out of a stream of two by Split and by SplitSR alike, if it  *)
(* fits the largest packet and its id the head.                            *)
PacketsRoundTrip ==
    \A t, u \in {m \in MsgTypes : router.typeToId[m] # 0}, b, c \in MsgBodies :
        LET p == EncodeStream(t, b)
            q == EncodeStream(u, c)
        IN  p # Error /\ q # Error /\ Fits(t, b) /\ Fits(u, c) =>
              /\ CheckPacket(p) /\ Unpack(p) = MessageBytes(p) /\ Pack(Unpack(p)) = p
              /\ DecodePacket(p) = <<t, b>>
              /\ HeadUnmarshal(MessageBytes(p)) = <<router.typeToId[t]>>
              /\ \A k \in 0 .. Len(q) :
                    LET bytes == p \o SubSeq(q, 1, k)
                        s == Split(bytes)
                        whole == IF k = Len(q) THEN <<p, q>> ELSE <<p>>
                    IN  /\ ~s.err /\ Cut(bytes, s.packets) = whole
                        /\ s.left = Len(bytes) - Len(FlattenSeq(whole))
                        /\ SplitSR(bytes).packet = p
=============================================================================
