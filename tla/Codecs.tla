------------------------------- MODULE Codecs -------------------------------
(***************************************************************************)
(* The packet and the netascii codec on every input up to a bound: it      *)
(* grows symbol by symbol, and is a datagram or a text file.               *)
(***************************************************************************)
EXTENDS PacketCodec, Netascii

CONSTANTS
    PayloadBytes,           \* the values of the bytes after the opcode
    Letters,                \* the bytes of a text that are no CR, LF or NUL
    MaxDatagram, MaxText    \* bounds on the lengths

ASSUME PayloadAssumption == PayloadBytes \subseteq 0 .. Base - 1

VARIABLES subject, input

vars == <<subject, input>>

Symbols ==
    IF subject = "text" THEN {CR, LF, NUL} \cup Letters
    ELSE IF Len(input) < 2 THEN 0 .. Base - 1 ELSE PayloadBytes

Bound == IF subject = "text" THEN MaxText ELSE MaxDatagram

Init == subject \in {"datagram", "text"} /\ input = <<>>

Grow ==
    /\ Len(input) < Bound
    /\ \E symbol \in Symbols : input' = Append(input, symbol)
    /\ UNCHANGED subject

Spec == Init /\ [][Grow]_vars

-----------------------------------------------------------------------------
(* Every datagram that tftp_packet.cpp parses is written back as it was.   *)
ParsedPacketsRoundTrip == subject = "datagram" => PacketRoundTrip(input)

(* No flip of an opcode bit turns DATA or an ACK into another packet of    *)
(* the data plane or into an ERROR.                                        *)
FlippedOpcodeIsHarmless ==
    subject = "datagram" => OpcodeFlipIsHarmless(input)

(* netascii.cpp puts only legal netascii on the wire, and content_oracle   *)
(* accepts a faithful transfer of any text.                                *)
NetasciiFaithful == subject = "text" => NetasciiIsFaithful(input)
=============================================================================
