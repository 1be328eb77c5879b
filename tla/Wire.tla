-------------------------------- MODULE Wire --------------------------------
(***************************************************************************)
(* The two wire formats the forward preamble needs, as operators on        *)
(* sequences of bytes: pkg/mcproto (VarInt, string, frame, handshake) and  *)
(* pkg/ppv2 (the PROXY v2 header). Widths are those of the code: 32-bit    *)
(* signed VarInts of at most five bytes, 16-bit big-endian ports.          *)
(*                                                                         *)
(* A parser takes the bytes that are there and returns [ok, val, rest].    *)
(***************************************************************************)
EXTENDS Integers, Sequences, SequencesExt

Drop(s, n) == SubSeq(s, n + 1, Len(s))
Parsed(v, s) == [ok |-> TRUE, val |-> v, rest |-> s]
Malformed == [ok |-> FALSE, val |-> 0, rest |-> <<>>]

-----------------------------------------------------------------------------
(* VarInts. Bit 7 says that another byte follows; the other seven are a    *)
(* digit. Of the fifth digit four bits are left in an int32, the top one   *)
(* its sign.                                                               *)

MaxVarint == 5
Continues(b) == b >= 128

(* The byte that ends a VarInt at the start of s, 0 when none does.        *)
VarintEnd(s) ==
    LET ends == {i \in 1..MaxVarint : i <= Len(s) /\ ~Continues(s[i])}
    IN IF ends = {} THEN 0 ELSE Min(ends)

(* int32(b & 0x7F) << (7 * (i - 1))                                        *)
Shifted(b, i) ==
    IF i < MaxVarint THEN (b % 128) * 128^(i - 1)
                     ELSE ((((b % 128) + 8) % 16) - 8) * 128^4

VarintValue(s) ==
    SumFunction([i \in 1..VarintEnd(s) |-> Shifted(s[i], i)])

(* decodeVarint answers a malformed VarInt with (0, 0): value 0 of no      *)
(* bytes.                                                                  *)
decodeVarint(s) == [val |-> VarintValue(s), len |-> VarintEnd(s)]

readVarint(s) ==
    IF VarintEnd(s) = 0 THEN Malformed
                        ELSE Parsed(VarintValue(s), Drop(s, VarintEnd(s)))

Digit(v, i) == (v \div 128^(i - 1)) % (IF i < MaxVarint THEN 128 ELSE 16)

(* What appendVarint appends: as few bytes as the value, taken as a        *)
(* uint32, needs. (128^5 is beyond 32 bits: what does not fit in four      *)
(* digits has five.)                                                       *)
marshalVarint(v) ==
    LET fits == {n \in 1..4 : 0 <= v /\ v < 128^n}
        n == IF fits = {} THEN MaxVarint ELSE Min(fits)
    IN [i \in 1..n |-> Digit(v, i) + (IF i < n THEN 128 ELSE 0)]

readString(s) ==
    LET n == readVarint(s)
    IN IF n.ok /\ n.val \in 0..Len(n.rest)
         THEN Parsed(SubSeq(n.rest, 1, n.val), Drop(n.rest, n.val))
         ELSE Malformed

marshalString(s) == marshalVarint(Len(s)) \o s

BigEndian(n) == <<n \div 256, n % 256>>
Uint16(s) == s[1] * 256 + s[2]

-----------------------------------------------------------------------------
(* Frames.                                                                 *)

MaxFrame == 65536

(* What ReadFrame makes of the bytes s: "more" of them are needed, the     *)
(* length is "bad", or there is a frame.                                   *)
FrameStatus(s) ==
    LET n == VarintEnd(s)
    IN IF n = 0 THEN IF Len(s) >= MaxVarint THEN "bad" ELSE "more"
       ELSE IF VarintValue(s) \notin 1..MaxFrame THEN "bad"
       ELSE IF Len(s) < n + VarintValue(s) THEN "more"
       ELSE "frame"

(* The frame at the start of s, when there is one.                         *)
ReadFrame(s) ==
    LET n == VarintEnd(s)
        raw == SubSeq(s, 1, n + VarintValue(s))
        id == decodeVarint(Drop(raw, n))
    IN [ID |-> id.val, Body |-> Drop(raw, n + id.len), Raw |-> raw]

ParseHandshake(f) ==
    LET protocol == readVarint(f.Body)
        host == readString(protocol.rest)
        intent == readVarint(Drop(host.rest, 2))
    IN IF f.ID = 0 /\ protocol.ok /\ host.ok /\ Len(host.rest) >= 2 /\ intent.ok
         THEN Parsed([Protocol |-> protocol.val, Host |-> host.val,
                      Port |-> Uint16(host.rest), Intent |-> intent.val], intent.rest)
         ELSE Malformed

(* The bytes of the handshake h with the host in place of its own.         *)
MarshalHandshake(h, host) ==
    LET body == marshalVarint(h.Protocol) \o marshalString(host)
                  \o BigEndian(h.Port) \o marshalVarint(h.Intent)
        payload == marshalVarint(0) \o body
    IN marshalVarint(Len(payload)) \o payload

ParseLoginName(f) == IF f.ID = 0 THEN readString(f.Body) ELSE Malformed

-----------------------------------------------------------------------------
(* The PROXY v2 header. An address is its bytes, 4 or 16 of them (To4 has  *)
(* been applied), and none for nil.                                        *)

Signature == <<13, 10, 13, 10, 0, 13, 10, 81, 85, 73, 84, 10>>
CommandProxy == 1
FamilyUnspec == 0
FamilyINET == 1
FamilyINET6 == 2
ProtocolUnspec == 0
ProtocolStream == 1
ProtocolDGRAM == 2

minHeaderSize == 16
MaxBlock == 36

addressBlockLen(family) ==
    CASE family = FamilyINET -> 12 [] family = FamilyINET6 -> 36 [] OTHER -> 0

AddressLen(family) ==
    CASE family = FamilyINET -> 4 [] family = FamilyINET6 -> 16 [] OTHER -> 0

Valid(h) ==
    /\ h.Command \in {0, CommandProxy}
    /\ h.Protocol \in {ProtocolUnspec, ProtocolStream, ProtocolDGRAM}
    /\ h.Protocol = ProtocolUnspec => h.Family = FamilyUnspec
    /\ h.Family \in {FamilyUnspec, FamilyINET, FamilyINET6}
    /\ Len(h.SourceAddr) = AddressLen(h.Family)
    /\ Len(h.DestAddr) = AddressLen(h.Family)

(* Variant: the length field counts the fixed part as well.                *)
MarshalTotal(h) ==
    Signature \o <<32 + h.Command, 16 * h.Family + h.Protocol>>
        \o BigEndian(minHeaderSize + addressBlockLen(h.Family))
        \o h.SourceAddr \o h.DestAddr
        \o BigEndian(h.SourcePort) \o BigEndian(h.DestPort)

(* Marshal of a valid header. With an unspecified family the buffer has no *)
(* room for the ports and the code panics; both ends of one TCP socket     *)
(* have the same family, so its caller never asks for that.                *)
Marshal(h) ==
    Signature \o <<32 + h.Command, 16 * h.Family + h.Protocol>>
        \o BigEndian(addressBlockLen(h.Family))
        \o h.SourceAddr \o h.DestAddr
        \o BigEndian(h.SourcePort) \o BigEndian(h.DestPort)

(* ReadHeader on all the bytes of a stream. A block that is longer than    *)
(* its family needs is read and its end ignored.                           *)
ReadHeader(s) ==
    LET blockLen == Uint16(Drop(s, 14))
        family == s[14] \div 16
        n == AddressLen(family)
        block == SubSeq(s, minHeaderSize + 1, minHeaderSize + blockLen)
        known == n > 0 /\ blockLen >= addressBlockLen(family)
        Field(from, len) == IF known THEN SubSeq(block, from, from + len - 1) ELSE <<>>
        Port(from) == IF known THEN Uint16(Drop(block, from - 1)) ELSE 0
    IN IF /\ Len(s) >= minHeaderSize
          /\ SubSeq(s, 1, 12) = Signature
          /\ blockLen <= MaxBlock
          /\ Len(s) >= minHeaderSize + blockLen
         THEN Parsed([Command |-> s[13] % 16, Family |-> family, Protocol |-> s[14] % 16,
                      SourceAddr |-> Field(1, n), DestAddr |-> Field(n + 1, n),
                      SourcePort |-> Port(2 * n + 1), DestPort |-> Port(2 * n + 3)],
                     Drop(s, minHeaderSize + blockLen))
         ELSE Malformed
=============================================================================
