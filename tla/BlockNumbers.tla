---------------------------- MODULE BlockNumbers ----------------------------
(***************************************************************************)
(* The arithmetic of DATA and ACK block numbers in the reference engine    *)
(* (adapters/reference/tftp_reference_engine.cpp, anonymous namespace).    *)
(* The engine counts blocks with absolute indices 1, 2, 3, ... and puts    *)
(* only their low 16 bits on the wire; the two Resolve operators undo that *)
(* truncation from what the endpoint already knows.  Modulus is 2^16 in    *)
(* the code and a parameter here, so that small instances wrap around.     *)
(***************************************************************************)
EXTENDS Integers, FiniteSetsExt

CONSTANTS
    Modulus,        \* number of distinct block numbers on the wire: 2^16
    PayloadSize,    \* bytes in the file being transferred
    BlockSize       \* bytes in every DATA block but the last

ASSUME ModulusAssumption == Modulus \in Nat \ {0}
ASSUME PayloadAssumption == PayloadSize \in Nat
ASSUME BlockSizeAssumption == BlockSize \in Nat \ {0}

(* wire_block_number: natural uint16 overflow.                             *)
WireBlock(absolute) == absolute % Modulus

(* A plausible bug: the terminating empty block is forgotten.              *)
TotalBlockCountRoundsUp == (PayloadSize + BlockSize - 1) \div BlockSize

(* total_block_count: a payload that is an exact multiple of the block     *)
(* size is terminated by an empty block.                                   *)
TotalBlockCount == PayloadSize \div BlockSize + 1

(* The number of bytes block_payload returns for a 1-based block index.    *)
BlockLength(absolute) ==
    LET start == (absolute - 1) * BlockSize IN
    IF start >= PayloadSize THEN 0
    ELSE IF BlockSize <= PayloadSize - start THEN BlockSize
    ELSE PayloadSize - start

(* The receiver's end-of-transfer test on a block: data.size() < block_size *)
IsShort(absolute) == BlockLength(absolute) < BlockSize

-----------------------------------------------------------------------------
(* A plausible bug: the distance on the wire from lastAcked is trusted, so *)
(* that an ACK for a block that is not in flight moves the window as well. *)
ResolveAckUnchecked(wire, lastAcked, highestSent) ==
    lastAcked + ((wire - WireBlock(lastAcked)) % Modulus)

(* resolve_ack_to_absolute: the highest index in flight with this block    *)
(* number, else lastAcked (the ACK is a duplicate or stale).               *)
ResolveAck(wire, lastAcked, highestSent) ==
    LET hits == {c \in lastAcked + 1 .. highestSent : WireBlock(c) = wire} IN
    IF hits = {} THEN lastAcked ELSE Max(hits)

(* A plausible bug: every block but a copy of the last one is the next.    *)
ResolveDataAnyNew(wire, lastInSequence, window) ==
    IF wire = WireBlock(lastInSequence) THEN lastInSequence ELSE lastInSequence + 1

(* resolve_data_to_absolute: the nearest index ahead within one window,    *)
(* else the nearest one at or behind lastInSequence within one window,     *)
(* else 0 (the block cannot be placed).                                    *)
ResolveData(wire, lastInSequence, window) ==
    LET span     == IF window >= 1 THEN window ELSE 1
        backSpan == IF lastInSequence <= span THEN lastInSequence ELSE span
        ahead  == {o \in 1 .. span : WireBlock(lastInSequence + o) = wire}
        behind == {o \in 0 .. backSpan : WireBlock(lastInSequence - o) = wire}
    IN  IF ahead # {} THEN lastInSequence + Min(ahead)
        ELSE IF behind # {} THEN lastInSequence - Min(behind)
        ELSE 0

=============================================================================
