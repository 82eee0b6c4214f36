---------------------------- MODULE DataTransfer ----------------------------
(***************************************************************************)
(* The data plane of the reference engine: run_data_sender and             *)
(* run_data_receiver (adapters/reference/tftp_reference_engine.cpp) and    *)
(* the datagrams between them.  Both run after option negotiation, with    *)
(* the same block size and window (RFC 7440; window 1 is RFC 1350 lock     *)
(* step), and stop with one TransferOutcome each.                          *)
(*                                                                         *)
(* A step is what an endpoint does from one return of                      *)
(* receive_from_locked_peer to its next call: it handles the packet or the *)
(* timeout and sends whatever the next turn of its loop sends.  A DATA     *)
(* payload is the index of its block in the file, so that a block accepted *)
(* in the wrong place is visible in the sink.                              *)
(*                                                                         *)
(* The network (UDP and the impairment proxy) loses datagrams (it need not *)
(* deliver them), reorders them (it delivers any of them) and duplicates   *)
(* them: a transmission puts MaxCopies copies in flight.  MaxLag bounds    *)
(* how late it may be: a datagram more than MaxLag blocks behind its       *)
(* reader's position is not delivered any more.                            *)
(***************************************************************************)
EXTENDS BlockNumbers, Sequences

CONSTANTS
    Window,                     \* negotiated window size, in blocks
    MaxRetransmissions,         \* EngineConfig::maximum_retransmissions
    DallyLimit,                 \* packets answered after the final ACK
    MaxCopies,                  \* copies of one datagram in flight
    MaxLag,                     \* how many blocks late a datagram may be
    OmitTerminatingEmptyBlock,  \* EngineQuirks, all FALSE in the correct
    RetransmitOnDuplicateAck,   \* engine and TRUE in the buggy one
    AcceptOutOfSequenceData

ASSUME EngineAssumption ==
    /\ Window \in Nat \ {0}
    /\ MaxRetransmissions \in Nat
    /\ DallyLimit \in Nat \ {0}

ASSUME NetworkAssumption ==
    /\ MaxCopies \in Nat \ {0}
    /\ MaxLag \in Nat

ASSUME QuirksAssumption ==
    /\ OmitTerminatingEmptyBlock \in BOOLEAN
    /\ RetransmitOnDuplicateAck \in BOOLEAN
    /\ AcceptOutOfSequenceData \in BOOLEAN

VARIABLES
    sender,             \* control state of run_data_sender, or its outcome
    lastAcked,
    highestSent,
    senderTimeouts,     \* consecutive_timeouts of the sender
    receiver,           \* control state of run_data_receiver, or its outcome
    lastInSequence,
    blocksSinceAck,
    receiverTimeouts,   \* consecutive_timeouts of the receiver
    dally,              \* packets handled while dallying
    sink,               \* the blocks received, by index in the sender's file
    dataInFlight,       \* copies in flight of DATA, by absolute index
    acksInFlight        \* copies in flight of ACKs, by absolute index

senderVars == <<sender, lastAcked, highestSent, senderTimeouts>>
receiverVars == <<receiver, lastInSequence, blocksSinceAck, receiverTimeouts,
                  dally, sink>>
networkVars == <<dataInFlight, acksInFlight>>
vars == <<senderVars, receiverVars, networkVars>>

-----------------------------------------------------------------------------
SenderStates == {"starting", "waiting", "succeeded", "timed_out", "aborted"}
ReceiverStates == {"receiving", "dallying", "succeeded", "timed_out", "aborted"}

(* A plausible slip in the buggy engine: the quirk has no effect.          *)
TotalBlocksUnquirked == TotalBlockCount

(* The blocks the sender will send: the quirk drops the terminating empty  *)
(* block of a non-empty payload that is a multiple of the block size.      *)
TotalBlocks ==
    IF /\ OmitTerminatingEmptyBlock
       /\ PayloadSize # 0
       /\ PayloadSize % BlockSize = 0
    THEN TotalBlockCount - 1
    ELSE TotalBlockCount

SenderTypeOK ==
    /\ sender \in SenderStates
    /\ lastAcked \in 0 .. TotalBlocks
    /\ highestSent \in 0 .. TotalBlocks
    /\ senderTimeouts \in 0 .. MaxRetransmissions + 1

ReceiverTypeOK ==
    /\ receiver \in ReceiverStates
    /\ lastInSequence \in Nat
    /\ blocksSinceAck \in Nat
    /\ receiverTimeouts \in 0 .. MaxRetransmissions + 1
    /\ dally \in 0 .. DallyLimit
    /\ sink \in Seq(1 .. TotalBlockCount)

NetworkTypeOK ==
    /\ dataInFlight \in [1 .. TotalBlockCount -> 0 .. MaxCopies]
    /\ acksInFlight \in [0 .. TotalBlockCount -> 0 .. MaxCopies]

(* The type invariant, with the ranges of the engine's loop counters: no   *)
(* count passes the limit at which its loop ends.                          *)
TypeOK == SenderTypeOK /\ ReceiverTypeOK /\ NetworkTypeOK

Init ==
    /\ sender = "starting"
    /\ lastAcked = 0
    /\ highestSent = 0
    /\ senderTimeouts = 0
    /\ receiver = "receiving"
    /\ lastInSequence = 0
    /\ blocksSinceAck = 0
    /\ receiverTimeouts = 0
    /\ dally = 0
    /\ sink = << >>
    /\ dataInFlight = [b \in 1 .. TotalBlockCount |-> 0]
    /\ acksInFlight = [a \in 0 .. TotalBlockCount |-> 0]

-----------------------------------------------------------------------------
(* The network.                                                            *)

(* Put DATA blocks first .. last on the network, in one burst.             *)
Transmit(first, last) ==
    dataInFlight' = [b \in DOMAIN dataInFlight |->
                        IF b \in first .. last THEN MaxCopies
                        ELSE dataInFlight[b]]

(* Put an ACK of block a on the network.                                   *)
Acknowledge(block) ==
    acksInFlight' = [a \in DOMAIN acksInFlight |->
                        IF a = block THEN MaxCopies ELSE acksInFlight[a]]

(* The receiver gets a copy of DATA b, no later than MaxLag allows.        *)
TakeData(b) ==
    /\ dataInFlight[b] > 0
    /\ b + MaxLag >= lastInSequence
    /\ dataInFlight' = [dataInFlight EXCEPT ![b] = @ - 1]

(* The sender gets a copy of ACK a, no later than MaxLag allows.           *)
TakeAck(a) ==
    /\ acksInFlight[a] > 0
    /\ a + MaxLag >= lastAcked
    /\ acksInFlight' = [acksInFlight EXCEPT ![a] = @ - 1]

-----------------------------------------------------------------------------
(* run_data_sender.                                                        *)

(* The end of the window that opens when the sender has seen an ACK of     *)
(* acked: min(last_acked + window, total_blocks).                          *)
WindowEdge(acked) ==
    IF acked + Window <= TotalBlocks THEN acked + Window ELSE TotalBlocks

(* Action::SendNew: the blocks the window admits that were never sent.     *)
SendNew(acked) ==
    /\ Transmit(highestSent + 1, WindowEdge(acked))
    /\ highestSent' = IF highestSent >= WindowEdge(acked) THEN highestSent
                      ELSE WindowEdge(acked)

(* Action::Rollback: everything sent and not yet acknowledged.             *)
Rollback == Transmit(lastAcked + 1, highestSent)

SenderStart ==
    /\ sender = "starting"
    /\ sender' = "waiting"
    /\ SendNew(lastAcked)
    /\ UNCHANGED <<lastAcked, senderTimeouts, receiverVars, acksInFlight>>

(* An ACK that advances the window either ends the loop or opens it wider. *)
AckAdvances(acked) ==
    /\ lastAcked' = acked
    /\ senderTimeouts' = 0
    /\ \/ /\ acked < TotalBlocks
          /\ SendNew(acked)
          /\ UNCHANGED sender
       \/ /\ acked >= TotalBlocks
          /\ sender' = "succeeded"
          /\ UNCHANGED <<highestSent, dataInFlight>>

(* Plausible bugs in the treatment of a duplicate ACK: retransmitting at   *)
(* once, and taking it for a sign of life that restarts the give-up count. *)
DuplicateAckRollsBack ==
    /\ Rollback
    /\ UNCHANGED senderVars

DuplicateAckResetsTimeouts ==
    /\ senderTimeouts' = 0
    /\ UNCHANGED <<sender, lastAcked, highestSent, dataInFlight>>

(* A duplicate or stale ACK is ignored (Action::WaitOnly), unless the      *)
(* sorcerer's apprentice quirk answers it with a rollback.                 *)
AckIsDuplicate ==
    /\ IF RetransmitOnDuplicateAck THEN Rollback ELSE UNCHANGED dataInFlight
    /\ UNCHANGED senderVars

SenderGetsAck(a) ==
    LET acked == ResolveAck(WireBlock(a), lastAcked, highestSent) IN
    /\ sender = "waiting"
    /\ TakeAck(a)
    /\ \/ acked > lastAcked /\ AckAdvances(acked)
       \/ acked <= lastAcked /\ AckIsDuplicate
    /\ UNCHANGED receiverVars

(* A plausible bug: the give-up bound is off by one.                       *)
SenderGivesUpLate ==
    /\ sender = "waiting"
    /\ senderTimeouts' = senderTimeouts + 1
    /\ \/ /\ senderTimeouts <= MaxRetransmissions
          /\ Rollback
          /\ UNCHANGED sender
       \/ /\ senderTimeouts > MaxRetransmissions
          /\ sender' = "timed_out"
          /\ UNCHANGED dataInFlight
    /\ UNCHANGED <<lastAcked, highestSent, receiverVars, acksInFlight>>

(* Others: it comes one timeout too soon, or timeouts are not counted.     *)
SenderGivesUpEarly ==
    /\ sender = "waiting"
    /\ senderTimeouts' = senderTimeouts + 1
    /\ \/ /\ senderTimeouts + 1 < MaxRetransmissions
          /\ Rollback
          /\ UNCHANGED sender
       \/ /\ senderTimeouts + 1 >= MaxRetransmissions
          /\ sender' = "timed_out"
          /\ UNCHANGED dataInFlight
    /\ UNCHANGED <<lastAcked, highestSent, receiverVars, acksInFlight>>

SenderNeverGivesUp ==
    /\ sender = "waiting"
    /\ Rollback
    /\ UNCHANGED <<senderVars, receiverVars, acksInFlight>>

SenderTimesOut ==
    /\ sender = "waiting"
    /\ senderTimeouts' = senderTimeouts + 1
    /\ \/ /\ senderTimeouts < MaxRetransmissions
          /\ Rollback
          /\ UNCHANGED sender
       \/ /\ senderTimeouts >= MaxRetransmissions
          /\ sender' = "timed_out"
          /\ UNCHANGED dataInFlight
    /\ UNCHANGED <<lastAcked, highestSent, receiverVars, acksInFlight>>

(* A socket error, or an ERROR packet from the peer's address.             *)
SenderAborts ==
    /\ sender = "waiting"
    /\ sender' = "aborted"
    /\ UNCHANGED <<lastAcked, highestSent, senderTimeouts, receiverVars,
                   networkVars>>

-----------------------------------------------------------------------------
(* run_data_receiver.                                                      *)

(* A plausible bug: the ACK of a window is due one block too late.         *)
AcksPastWindow(b) ==
    /\ sink' = Append(sink, b)
    /\ lastInSequence' = lastInSequence + 1
    /\ \/ /\ IsShort(b)
          /\ receiver' = "dallying"
          /\ blocksSinceAck' = blocksSinceAck + 1
          /\ Acknowledge(lastInSequence + 1)
       \/ /\ ~IsShort(b)
          /\ blocksSinceAck + 1 > Window
          /\ blocksSinceAck' = 0
          /\ Acknowledge(lastInSequence + 1)
          /\ UNCHANGED receiver
       \/ /\ ~IsShort(b)
          /\ blocksSinceAck + 1 <= Window
          /\ blocksSinceAck' = blocksSinceAck + 1
          /\ UNCHANGED <<receiver, acksInFlight>>

(* The in-sequence block b: keep it; ACK it when it is the last of the     *)
(* file or of a window.                                                    *)
AcceptBlock(b) ==
    /\ sink' = Append(sink, b)
    /\ lastInSequence' = lastInSequence + 1
    /\ \/ /\ IsShort(b)
          /\ receiver' = "dallying"
          /\ blocksSinceAck' = blocksSinceAck + 1
          /\ Acknowledge(lastInSequence + 1)
       \/ /\ ~IsShort(b)
          /\ blocksSinceAck + 1 >= Window
          /\ blocksSinceAck' = 0
          /\ Acknowledge(lastInSequence + 1)
          /\ UNCHANGED receiver
       \/ /\ ~IsShort(b)
          /\ blocksSinceAck + 1 < Window
          /\ blocksSinceAck' = blocksSinceAck + 1
          /\ UNCHANGED <<receiver, acksInFlight>>

(* A duplicate, a gap or a block that cannot be placed: drop it and ACK    *)
(* the last block received in sequence.                                    *)
ReAcknowledge ==
    /\ Acknowledge(lastInSequence)
    /\ blocksSinceAck' = 0
    /\ UNCHANGED <<receiver, lastInSequence, sink>>

(* The quirk as its comment has it: the block counts as the next one.      *)
KeepsGapBlockAsNext(b, absolute) ==
    /\ sink' = Append(sink, b)
    /\ lastInSequence' = lastInSequence + 1
    /\ Acknowledge(lastInSequence + 1)
    /\ receiver' = IF IsShort(b) THEN "dallying" ELSE receiver
    /\ UNCHANGED blocksSinceAck

(* The quirk: keep a block from beyond a gap and carry on after it.        *)
AcceptAcrossGap(b, absolute) ==
    /\ sink' = Append(sink, b)
    /\ lastInSequence' = absolute
    /\ Acknowledge(absolute)
    /\ receiver' = IF IsShort(b) THEN "dallying" ELSE receiver
    /\ UNCHANGED blocksSinceAck

ReceiverGetsData(b) ==
    LET absolute == ResolveData(WireBlock(b), lastInSequence, Window)
        isNext   == absolute = lastInSequence + 1
        isGap    == absolute = 0 \/ absolute > lastInSequence + 1
        isKept   == isGap /\ absolute # 0 /\ AcceptOutOfSequenceData
    IN
    /\ receiver = "receiving"
    /\ TakeData(b)
    /\ receiverTimeouts' = 0
    /\ \/ isNext /\ AcceptBlock(b)
       \/ isKept /\ AcceptAcrossGap(b, absolute)
       \/ ~isNext /\ ~isKept /\ ReAcknowledge
    /\ UNCHANGED <<senderVars, dally>>

(* A plausible bug: the receiver's prod names the block it waits for.      *)
ProdsWithNextBlock ==
    /\ receiver = "receiving"
    /\ receiverTimeouts' = receiverTimeouts + 1
    /\ \/ /\ receiverTimeouts < MaxRetransmissions
          /\ Acknowledge(lastInSequence + 1)
          /\ UNCHANGED receiver
       \/ /\ receiverTimeouts >= MaxRetransmissions
          /\ receiver' = "timed_out"
          /\ UNCHANGED acksInFlight
    /\ UNCHANGED <<senderVars, lastInSequence, blocksSinceAck, dally, sink,
                   dataInFlight>>

ReceiverTimesOut ==
    /\ receiver = "receiving"
    /\ receiverTimeouts' = receiverTimeouts + 1
    /\ \/ /\ receiverTimeouts < MaxRetransmissions
          /\ Acknowledge(lastInSequence)
          /\ UNCHANGED receiver
       \/ /\ receiverTimeouts >= MaxRetransmissions
          /\ receiver' = "timed_out"
          /\ UNCHANGED acksInFlight
    /\ UNCHANGED <<senderVars, lastInSequence, blocksSinceAck, dally, sink,
                   dataInFlight>>

(* A plausible bug: an ERROR packet also fails a transfer that is already  *)
(* complete and only dallies.                                              *)
DallyAborts ==
    /\ receiver \in {"receiving", "dallying"}
    /\ receiver' = "aborted"
    /\ UNCHANGED <<senderVars, lastInSequence, blocksSinceAck,
                   receiverTimeouts, dally, sink, networkVars>>

(* A socket error, or an ERROR packet from the peer's address.             *)
ReceiverAborts ==
    /\ receiver = "receiving"
    /\ receiver' = "aborted"
    /\ UNCHANGED <<senderVars, lastInSequence, blocksSinceAck,
                   receiverTimeouts, dally, sink, networkVars>>

(* One packet handled while dallying; DallyLimit of them end the transfer. *)
DallyTurn ==
    /\ receiver = "dallying"
    /\ dally' = dally + 1
    /\ receiver' = IF dally + 1 >= DallyLimit THEN "succeeded" ELSE receiver
    /\ UNCHANGED <<senderVars, lastInSequence, blocksSinceAck,
                   receiverTimeouts, sink>>

DallyGetsData(b) ==
    /\ DallyTurn
    /\ TakeData(b)
    /\ Acknowledge(lastInSequence)

(* Any other packet, an ERROR included, only uses up a turn.               *)
DallyGetsOther ==
    /\ DallyTurn
    /\ UNCHANGED networkVars

(* A timeout or a socket error ends the dally.                             *)
DallyEnds ==
    /\ receiver = "dallying"
    /\ receiver' = "succeeded"
    /\ UNCHANGED <<senderVars, lastInSequence, blocksSinceAck,
                   receiverTimeouts, dally, sink, networkVars>>

-----------------------------------------------------------------------------
SenderStep ==
    \/ SenderStart
    \/ \E a \in 0 .. TotalBlockCount : SenderGetsAck(a)
    \/ SenderTimesOut
    \/ SenderAborts

ReceiverStep ==
    \/ \E b \in 1 .. TotalBlockCount : ReceiverGetsData(b) \/ DallyGetsData(b)
    \/ ReceiverTimesOut
    \/ ReceiverAborts
    \/ DallyGetsOther
    \/ DallyEnds

SenderDone == sender \in {"succeeded", "timed_out", "aborted"}
ReceiverDone == receiver \in {"succeeded", "timed_out", "aborted"}

(* Both endpoints have returned their outcome.                             *)
Finished ==
    /\ SenderDone
    /\ ReceiverDone
    /\ UNCHANGED vars

Next == SenderStep \/ ReceiverStep \/ Finished

Spec == Init /\ [][Next]_vars

(* An endpoint that waits always moves on: its socket has a receive        *)
(* timeout (open_client_socket, handle_request), and the blocking receive  *)
(* returns a datagram or the timeout.                                      *)
FairSpec == Spec /\ WF_vars(SenderStep) /\ WF_vars(ReceiverStep)

-----------------------------------------------------------------------------
(* Properties.                                                             *)

NoQuirks ==
    /\ ~OmitTerminatingEmptyBlock
    /\ ~RetransmitOnDuplicateAck
    /\ ~AcceptOutOfSequenceData

(* Block numbers are unambiguous: either a file's block numbers do not     *)
(* wrap around, or a window and the network's lag fit into the modulus.    *)
WrapSafe == TotalBlockCount < Modulus \/ Window + MaxLag < Modulus

(* The same of blocks beyond a gap, which resolve_data_to_absolute looks   *)
(* for up to a window ahead of the last block received.                    *)
WrapSafeAcrossGaps ==
    TotalBlockCount + Window <= Modulus \/ Window + MaxLag < Modulus

(* The receiver's file is the sender's file up to the last block accepted  *)
(* in sequence: no hole, no repetition, no block in the wrong place,       *)
(* whatever the network reorders, duplicates and loses, and across         *)
(* wraparound (run_data_receiver accepts only the next block).             *)
SinkIsPrefix ==
    /\ Len(sink) = lastInSequence
    /\ \A i \in 1 .. Len(sink) : sink[i] = i

(* The window rules tie the two endpoints together: a block acknowledged   *)
(* was received, a block received was sent, and no more than one window is *)
(* outstanding (resolve_ack_to_absolute never mistakes an old ACK for a    *)
(* new one).                                                               *)
WindowInv ==
    /\ lastAcked <= lastInSequence
    /\ lastInSequence <= highestSent
    /\ highestSent <= lastAcked + Window

(* An endpoint that reports success tells the truth: when run_data_sender  *)
(* or run_data_receiver returns completed_successfully, the receiver holds *)
(* the whole file.                                                         *)
HonestSuccess ==
    (sender = "succeeded" \/ receiver = "succeeded") =>
        Len(sink) = TotalBlockCount

(* The receiver recognises the end of the file by its short block exactly  *)
(* when it has the whole file, neither before nor after.                   *)
DalliesOnWholeFile ==
    (receiver \in {"dallying", "succeeded"}) <=> (lastInSequence = TotalBlockCount)

(* Nothing on the network is from the future: a DATA block in flight was   *)
(* sent, an ACK in flight acknowledges a block that was received.          *)
InFlightInv ==
    /\ \A b \in 1 .. TotalBlockCount : dataInFlight[b] > 0 => b <= highestSent
    /\ \A a \in 0 .. TotalBlockCount : acksInFlight[a] > 0 => a <= lastInSequence

(* An endpoint that still runs has not used up its patience.               *)
SenderPatience ==
    sender \in {"starting", "waiting"} => senderTimeouts <= MaxRetransmissions

ReceiverPatience ==
    /\ receiver = "receiving" => receiverTimeouts <= MaxRetransmissions
    /\ receiver \in {"receiving", "dallying"} => dally < DallyLimit

PatienceInv == SenderPatience /\ ReceiverPatience

(* The sender reports success only with every block acknowledged.          *)
AllAckedInv == sender = "succeeded" => lastAcked = TotalBlocks

(* The inductive invariant of the engine without quirks (it holds under    *)
(* NoQuirks and WrapSafe; DataTransferProofs shows that it is inductive).  *)
TransferInv ==
    /\ TypeOK
    /\ PatienceInv
    /\ WindowInv
    /\ InFlightInv
    /\ SinkIsPrefix
    /\ DalliesOnWholeFile
    /\ AllAckedInv

(* The buggy engine loses blocks but never repeats or reorders them: the   *)
(* blocks kept across a gap are in file order, so that a corrupted file    *)
(* that is reported complete is also too short (which the content oracle   *)
(* sees by its size).                                                      *)
QuirkOnlySkipsBlocks ==
    /\ \A i, j \in 1 .. Len(sink) : i < j => sink[i] < sink[j]
    /\ Len(sink) <= lastInSequence

(* What was sent before is sent again only after a timeout: a duplicate    *)
(* ACK or DATA never makes the two endpoints answer each other for ever    *)
(* (RFC 1123 section 4.2.3.1, the sorcerer's apprentice).                  *)
ResendOnlyOnTimeout ==
    [][\A b \in 1 .. TotalBlockCount :
          dataInFlight'[b] > dataInFlight[b] =>
              b > highestSent \/ senderTimeouts' = senderTimeouts + 1]_vars

(* Both endpoints return an outcome, whatever the network does.            *)
Termination == <>(SenderDone /\ ReceiverDone)

(* The data plane implements FileDelivery: dallying is over for the        *)
(* abstract target only when the engine reports success.                   *)
Reported(state) ==
    IF state = "succeeded" THEN "succeeded"
    ELSE IF state \in {"timed_out", "aborted"} THEN "failed"
    ELSE "running"

Abstract == INSTANCE FileDelivery WITH
    TotalBlocks <- TotalBlockCount,
    delivered   <- sink,
    source      <- Reported(sender),
    target      <- Reported(receiver)

ImplementsFileDelivery == Abstract!FDSpec
=============================================================================
