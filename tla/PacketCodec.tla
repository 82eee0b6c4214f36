----------------------------- MODULE PacketCodec -----------------------------
(***************************************************************************)
(* Packets and their bytes: the parser and the serialisers of              *)
(* src/src/net/tftp_packet.cpp.  A datagram is a sequence of bytes         *)
(* 0 .. Base - 1 (256 in the code), a string one without NUL (0).          *)
(***************************************************************************)
EXTENDS Integers, Sequences, SequencesExt, FiniteSets

CONSTANT Bits       \* the bits of a byte (8)

ASSUME BitsAssumption == Bits \in Nat /\ Bits >= 3

PowerOfTwo[k \in 0 .. Bits] == IF k = 0 THEN 1 ELSE 2 * PowerOfTwo[k - 1]
Base == PowerOfTwo[Bits]

RRQ == 1
WRQ == 2
DATA == 3
ACK == 4
ERROR == 5
OACK == 6

AppendU16(value) == <<value \div Base, value % Base>>
ReadU16(bytes, at) == bytes[at] * Base + bytes[at + 1]

AppendString(text) == Append(text, 0)
AppendOptions(options) ==
    FlattenSeq([i \in DOMAIN options |->
        AppendString(options[i].name) \o AppendString(options[i].value)])

(* TftpPacket: the fields an opcode does not use keep their defaults.      *)
TftpPacket(opcode) ==
    [opcode |-> opcode, filename |-> <<>>, mode |-> <<>>, options |-> <<>>,
     number |-> 0, data |-> <<>>]

Failure == TftpPacket(0)

(* The serialisers.  number is the block number or the error code, data    *)
(* the payload or the error message.                                       *)
SerializePacket(packet) ==
    AppendU16(packet.opcode) \o
    (CASE packet.opcode \in {RRQ, WRQ} ->
              AppendString(packet.filename) \o AppendString(packet.mode)
              \o AppendOptions(packet.options)
       [] packet.opcode = DATA  -> AppendU16(packet.number) \o packet.data
       [] packet.opcode = ACK   -> AppendU16(packet.number)
       [] packet.opcode = ERROR -> AppendU16(packet.number) \o AppendString(packet.data)
       [] packet.opcode = OACK  -> AppendOptions(packet.options))

-----------------------------------------------------------------------------
(* Reading NUL-terminated strings: those of the bytes from position at on, *)
(* up to the last NUL, and whether a NUL ends the bytes.                   *)
Nuls(bytes, at) ==
    FlattenSeq([i \in DOMAIN bytes |->
        IF at <= i /\ bytes[i] = 0 THEN <<i>> ELSE <<>>])

CStrings(bytes, at) ==
    LET nuls == Nuls(bytes, at)
    IN  [k \in DOMAIN nuls |->
            SubSeq(bytes, IF k = 1 THEN at ELSE nuls[k - 1] + 1, nuls[k] - 1)]

AllTerminated(bytes, at) == at > Len(bytes) \/ Last(bytes) = 0

(* A plausible bug: a trailing name without a value is dropped.            *)
LenientOptionList(bytes, at, strings) == TRUE

(* parse_option_list: names and values alternate, each is terminated, and  *)
(* no name is empty.  The first strings belong to the request.             *)
IsOptionList(bytes, at, strings) ==
    /\ AllTerminated(bytes, at)
    /\ Len(strings) % 2 = 0
    /\ \A k \in DOMAIN strings : k % 2 = 1 => strings[k] # <<>>

OptionList(strings) ==
    [k \in 1 .. Len(strings) \div 2 |->
        [name |-> strings[2 * k - 1], value |-> strings[2 * k]]]

ParseRequest(bytes, opcode) ==
    LET strings == CStrings(bytes, 3)
        options == SubSeq(strings, 3, Len(strings))
    IN  IF Len(strings) >= 2 /\ IsOptionList(bytes, 3, options)
        THEN [TftpPacket(opcode) EXCEPT !.filename = strings[1],
                !.mode = strings[2], !.options = OptionList(options)]
        ELSE Failure

(* A plausible bug: an ERROR needs no message.                             *)
ParseErrorUnterminated(bytes) ==
    [TftpPacket(ERROR) EXCEPT !.number = ReadU16(bytes, 3)]

ParseError(bytes) ==
    LET strings == CStrings(bytes, 5)
    IN  IF strings = <<>> THEN Failure
        ELSE [TftpPacket(ERROR) EXCEPT !.number = ReadU16(bytes, 3),
                                       !.data = strings[1]]

ParseOack(bytes) ==
    LET strings == CStrings(bytes, 3)
    IN  IF IsOptionList(bytes, 3, strings)
        THEN [TftpPacket(OACK) EXCEPT !.options = OptionList(strings)]
        ELSE Failure

(* parse_tftp_packet. *)
ParsePacket(bytes) ==
    IF Len(bytes) < 2 THEN Failure
    ELSE LET opcode == ReadU16(bytes, 1)
             short == Len(bytes) < 4
         IN  CASE opcode \in {RRQ, WRQ} -> ParseRequest(bytes, opcode)
               [] opcode = DATA /\ ~short ->
                    [TftpPacket(DATA) EXCEPT !.number = ReadU16(bytes, 3),
                                             !.data = SubSeq(bytes, 5, Len(bytes))]
               [] opcode = ACK /\ ~short ->
                    [TftpPacket(ACK) EXCEPT !.number = ReadU16(bytes, 3)]
               [] opcode = ERROR /\ ~short -> ParseError(bytes)
               [] opcode = OACK -> ParseOack(bytes)
               [] OTHER -> Failure

-----------------------------------------------------------------------------
(* maybe_corrupt flips one bit of one byte.                                *)
FlipBit(byte, bit) ==
    IF (byte \div PowerOfTwo[bit]) % 2 = 0 THEN byte + PowerOfTwo[bit]
    ELSE byte - PowerOfTwo[bit]

Flip(bytes, at, bit) == [bytes EXCEPT ![at] = FlipBit(@, bit)]

(* What parses is written back byte for byte, but for what an ACK and an   *)
(* ERROR carry after their end, and parses to the same packet again: no    *)
(* field is lost, invented or moved to another.                            *)
PacketRoundTrip(bytes) ==
    LET packet == ParsePacket(bytes)
    IN  packet # Failure =>
          /\ IsPrefix(SerializePacket(packet), bytes)
          /\ packet.opcode \notin {ACK, ERROR} => SerializePacket(packet) = bytes
          /\ ParsePacket(SerializePacket(packet)) = packet

(* A flipped opcode bit cannot turn the data plane against itself: DATA    *)
(* becomes a request or nothing, an ACK (of four bytes) nothing at all, so *)
(* neither can acknowledge, end or renegotiate a transfer.                 *)
OpcodeFlipIsHarmless(bytes) ==
    LET opcode == ParsePacket(bytes).opcode
        After(at, bit) == ParsePacket(Flip(bytes, at, bit)).opcode
    IN  \A at \in {1, 2}, bit \in 0 .. Bits - 1 :
            /\ opcode = DATA => After(at, bit) \in {0, RRQ, WRQ}
            /\ opcode = ACK /\ Len(bytes) = 4 => After(at, bit) = 0
=============================================================================
