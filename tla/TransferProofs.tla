--------------------------- MODULE TransferProofs ---------------------------
(***************************************************************************)
(* Theorems about the data plane for every payload, block size, window,    *)
(* retransmission bound and modulus.                                       *)
(*                                                                         *)
(* DataTransfer: type correctness of every engine, and for the engine      *)
(* without quirks on a network that keeps block numbers unambiguous        *)
(* (WrapSafe) the integrity of the received file, the honesty of reported  *)
(* success and the refinement of FileDelivery.  TimedTransfer: it          *)
(* implements DataTransfer, inherits these theorems, and on a timely       *)
(* network never times out.                                                *)
(***************************************************************************)
EXTENDS TimedTransfer, NaturalSets, TLAPS

-----------------------------------------------------------------------------
(* Arithmetic of block numbers.                                            *)

(* Two indices with the same block number that are less than the modulus   *)
(* apart are the same.                                                     *)
LEMMA WireBlockIsInjective ==
    ASSUME NEW a \in Nat, NEW b \in Nat,
           WireBlock(a) = WireBlock(b), a <= b, b - a < Modulus
    PROVE  a = b
<1> USE ModulusAssumption
<1>1. a = Modulus * (a \div Modulus) + (a % Modulus)
    OBVIOUS
<1>2. b = Modulus * (b \div Modulus) + (b % Modulus)
    OBVIOUS
<1> DEFINE k == (b \div Modulus) - (a \div Modulus)
<1>3. b - a = Modulus * k
    BY <1>1, <1>2 DEF WireBlock
<1>4. k \in Int
    OBVIOUS
<1>5. k < 1
    BY <1>3, <1>4
<1>6. k > -1
    BY <1>3, <1>4
<1>7. k = 0
    BY <1>4, <1>5, <1>6
<1> QED BY <1>3, <1>7

(* resolve_ack_to_absolute answers lastAcked or a block in flight that has *)
(* the ACK's block number.                                                 *)
LEMMA ResolveAckSound ==
    ASSUME NEW wire, NEW la \in Nat, NEW hs \in Nat
    PROVE  LET r == ResolveAck(wire, la, hs) IN
           \/ r = la
           \/ r \in la + 1 .. hs /\ WireBlock(r) = wire
<1> DEFINE hits == {c \in la + 1 .. hs : WireBlock(c) = wire}
<1>1. CASE hits = {}
    BY <1>1 DEF ResolveAck
<1>2. CASE hits # {}
    <2>1. hits \in SUBSET (0 .. hs)
        OBVIOUS
    <2>2. Max(hits) \in hits
        <3> HIDE DEF hits
        <3> QED BY <1>2, <2>1, MaxOfNaturals
    <2>3. ResolveAck(wire, la, hs) = Max(hits)
        BY <1>2 DEF ResolveAck
    <2> QED BY <2>2, <2>3
<1> QED BY <1>1, <1>2

(* resolve_data_to_absolute answers an index ahead only for its own block  *)
(* number, and never one beyond the window.                                *)
LEMMA ResolveDataAhead ==
    ASSUME NEW wire, NEW last \in Nat,
           ResolveData(wire, last, Window) > last
    PROVE  LET r == ResolveData(wire, last, Window) IN
           r \in last + 1 .. last + Window /\ WireBlock(r) = wire
<1> USE EngineAssumption
<1> DEFINE span     == IF Window >= 1 THEN Window ELSE 1
           backSpan == IF last <= span THEN last ELSE span
           ahead  == {o \in 1 .. span : WireBlock(last + o) = wire}
           behind == {o \in 0 .. backSpan : WireBlock(last - o) = wire}
<1>1. ResolveData(wire, last, Window) =
        IF ahead # {} THEN last + Min(ahead)
        ELSE IF behind # {} THEN last - Min(behind)
        ELSE 0
    BY DEF ResolveData
<1>2. span = Window /\ backSpan \in Nat
    OBVIOUS
<1>3. ahead \in SUBSET Nat /\ behind \in SUBSET Nat
    BY <1>2
<1>4. ahead # {} => Min(ahead) \in ahead
    <2> HIDE DEF ahead, behind
    <2> QED BY <1>3, MinOfNaturals
<1>5. behind # {} => Min(behind) \in Nat
    <2> HIDE DEF ahead, behind
    <2> QED BY <1>3, MinOfNaturals
<1>6. ahead # {}
    <2> HIDE DEF ahead, behind
    <2> QED BY <1>1, <1>5
<1>7. Min(ahead) \in 1 .. Window /\ WireBlock(last + Min(ahead)) = wire
    BY <1>2, <1>4, <1>6
<1> HIDE DEF ahead, behind
<1> QED BY <1>1, <1>6, <1>7

(* It always answers an absolute index or 0.                               *)
LEMMA ResolveDataType ==
    ASSUME NEW wire, NEW last \in Nat
    PROVE  ResolveData(wire, last, Window) \in Nat
<1> USE EngineAssumption
<1> DEFINE span     == IF Window >= 1 THEN Window ELSE 1
           backSpan == IF last <= span THEN last ELSE span
           ahead  == {o \in 1 .. span : WireBlock(last + o) = wire}
           behind == {o \in 0 .. backSpan : WireBlock(last - o) = wire}
<1>1. ResolveData(wire, last, Window) =
        IF ahead # {} THEN last + Min(ahead)
        ELSE IF behind # {} THEN last - Min(behind)
        ELSE 0
    BY DEF ResolveData
<1>2. span \in Nat /\ backSpan \in Nat /\ backSpan <= last
    OBVIOUS
<1>3. ahead \in SUBSET Nat /\ behind \in SUBSET (0 .. backSpan)
    BY <1>2
<1>4. ahead # {} => Min(ahead) \in Nat
    <2> HIDE DEF ahead, behind
    <2> QED BY <1>3, MinOfNaturals
<1>5. behind # {} => Min(behind) \in 0 .. backSpan
    <2> HIDE DEF ahead, behind, backSpan
    <2>1. behind \in SUBSET Nat
        BY <1>2, <1>3
    <2> QED BY <1>3, <2>1, MinOfNaturals
<1> HIDE DEF ahead, behind, backSpan
<1> QED BY <1>1, <1>2, <1>4, <1>5

(* The file has at least one block, and its last block is the short one:   *)
(* the final-block rule of RFC 1350 as total_block_count implements it.    *)
LEMMA TotalBlockCountType == TotalBlockCount \in Nat \ {0}
BY PayloadAssumption, BlockSizeAssumption DEF TotalBlockCount

LEMMA FinalBlockRule ==
    ASSUME NEW b \in 1 .. TotalBlockCount
    PROVE  IsShort(b) <=> b = TotalBlockCount
<1> USE PayloadAssumption, BlockSizeAssumption
<1> DEFINE q == PayloadSize \div BlockSize
           r == PayloadSize % BlockSize
           start == (b - 1) * BlockSize
<1>1. PayloadSize = BlockSize * q + r /\ q \in Nat /\ r \in 0 .. BlockSize - 1
    OBVIOUS
<1>2. TotalBlockCount = q + 1
    BY DEF TotalBlockCount
<1> HIDE DEF q, r
<1>3. CASE b = q + 1
    <2>1. start = BlockSize * q
        BY <1>1, <1>3
    <2>2. BlockLength(b) = r
        BY <1>1, <2>1 DEF BlockLength
    <2> QED BY <1>1, <1>2, <1>3, <2>2 DEF IsShort
<1>4. CASE b <= q
    <2>1. PICK d \in Nat : q = b + d
        <3>1. q - b \in Nat /\ q = b + (q - b)
            BY <1>1, <1>2, <1>4
        <3> QED BY <3>1
    <2>2. BlockSize * q = BlockSize * b + BlockSize * d
        BY <1>2, <2>1
    <2>3. BlockSize * d >= 0
        OBVIOUS
    <2>4. start + BlockSize = BlockSize * b
        BY <1>2
    <2>5. start + BlockSize <= PayloadSize
        <3> DEFINE x == BlockSize * q
                   y == BlockSize * d
                   z == BlockSize * b
        <3>1. x \in Int /\ y \in Int /\ z \in Int /\ start \in Int
            BY <1>1, <1>2
        <3> HIDE DEF x, y, z, start
        <3> QED BY <1>1, <2>2, <2>3, <2>4, <3>1 DEF x, y, z
    <2>6. BlockLength(b) = BlockSize
        <3>1. start \in Int
            BY <1>2
        <3> HIDE DEF start
        <3> QED BY <2>5, <3>1 DEF BlockLength, start
    <2> QED BY <1>1, <1>2, <1>4, <2>6 DEF IsShort
<1> QED BY <1>1, <1>2, <1>3, <1>4

LEMMA TotalBlocksType == TotalBlocks \in 0 .. TotalBlockCount
BY TotalBlockCountType DEF TotalBlocks

-----------------------------------------------------------------------------
(* Type correctness, of every engine: quirks and ambiguous block numbers   *)
(* included.  PatienceInv makes the bounds on the counters inductive.      *)

LEMMA InitTypeOK == Init => TypeOK /\ PatienceInv
BY TotalBlocksType, EngineAssumption, NetworkAssumption
   DEF Init, TypeOK, SenderTypeOK, ReceiverTypeOK, NetworkTypeOK,
       PatienceInv, SenderPatience, ReceiverPatience, SenderStates, ReceiverStates

LEMMA TransmitType ==
    ASSUME NEW first, NEW last, NetworkTypeOK, Transmit(first, last)
    PROVE  dataInFlight' \in [1 .. TotalBlockCount -> 0 .. MaxCopies]
BY NetworkAssumption DEF NetworkTypeOK, Transmit

LEMMA AcknowledgeType ==
    ASSUME NEW a \in Nat, NetworkTypeOK, Acknowledge(a)
    PROVE  acksInFlight' \in [0 .. TotalBlockCount -> 0 .. MaxCopies]
BY NetworkAssumption DEF NetworkTypeOK, Acknowledge

LEMMA TakeDataType ==
    ASSUME NEW b \in 1 .. TotalBlockCount, NetworkTypeOK, TakeData(b)
    PROVE  dataInFlight' \in [1 .. TotalBlockCount -> 0 .. MaxCopies]
BY NetworkAssumption DEF NetworkTypeOK, TakeData

LEMMA TakeAckType ==
    ASSUME NEW a \in 0 .. TotalBlockCount, NetworkTypeOK, TakeAck(a)
    PROVE  acksInFlight' \in [0 .. TotalBlockCount -> 0 .. MaxCopies]
BY NetworkAssumption DEF NetworkTypeOK, TakeAck

LEMMA SendNewType ==
    ASSUME NEW acked \in 0 .. TotalBlocks, TypeOK, SendNew(acked)
    PROVE  /\ highestSent' \in 0 .. TotalBlocks
           /\ dataInFlight' \in [1 .. TotalBlockCount -> 0 .. MaxCopies]
<1>1. WindowEdge(acked) \in 0 .. TotalBlocks
    BY TotalBlocksType, TotalBlockCountType, EngineAssumption DEF WindowEdge
<1>2. highestSent' \in 0 .. TotalBlocks
    BY <1>1 DEF SendNew, TypeOK, SenderTypeOK
<1> QED BY <1>2, TransmitType DEF SendNew, TypeOK

(* A step of one endpoint leaves the other one's variables alone.          *)
LEMMA SenderUnchangedType ==
    ASSUME SenderTypeOK, SenderPatience, UNCHANGED senderVars
    PROVE  SenderTypeOK' /\ SenderPatience'
BY DEF SenderTypeOK, SenderPatience, senderVars

LEMMA ReceiverUnchangedType ==
    ASSUME ReceiverTypeOK, ReceiverPatience, UNCHANGED receiverVars
    PROVE  ReceiverTypeOK' /\ ReceiverPatience'
BY DEF ReceiverTypeOK, ReceiverPatience, receiverVars

LEMMA SenderStepType ==
    ASSUME TypeOK, PatienceInv, SenderStep
    PROVE  SenderTypeOK' /\ SenderPatience' /\ NetworkTypeOK'
<1> USE EngineAssumption, NetworkAssumption, TotalBlocksType, TotalBlockCountType
<1> USE DEF TypeOK, PatienceInv
<1>1. CASE SenderStart
    <2>1. lastAcked \in 0 .. TotalBlocks /\ SendNew(lastAcked)
        BY <1>1 DEF SenderStart, SenderTypeOK
    <2> QED BY <1>1, <2>1, SendNewType
            DEF SenderStart, SenderTypeOK, NetworkTypeOK, SenderPatience, SenderStates
<1>2. ASSUME NEW a \in 0 .. TotalBlockCount, SenderGetsAck(a)
      PROVE  SenderTypeOK' /\ SenderPatience' /\ NetworkTypeOK'
    <2> DEFINE acked == ResolveAck(WireBlock(a), lastAcked, highestSent)
    <2>1. acksInFlight' \in [0 .. TotalBlockCount -> 0 .. MaxCopies]
        BY <1>2, TakeAckType DEF SenderGetsAck
    <2>2. acked \in 0 .. TotalBlocks
        BY ResolveAckSound DEF SenderTypeOK
    <2> HIDE DEF acked
    <2>3. CASE AckAdvances(acked)
        <3>1. /\ highestSent' \in 0 .. TotalBlocks
              /\ dataInFlight' \in [1 .. TotalBlockCount -> 0 .. MaxCopies]
            BY <2>2, <2>3, SendNewType DEF AckAdvances, SenderTypeOK, NetworkTypeOK
        <3>2. sender' \in SenderStates /\ lastAcked' = acked /\ senderTimeouts' = 0
            BY <2>3 DEF AckAdvances, SenderTypeOK, SenderStates
        <3> QED BY <2>1, <2>2, <3>1, <3>2
                DEF SenderTypeOK, NetworkTypeOK, SenderPatience
    <2>4. CASE AckIsDuplicate
        <3>1. dataInFlight' \in [1 .. TotalBlockCount -> 0 .. MaxCopies]
            BY <2>4, TransmitType DEF AckIsDuplicate, Rollback, NetworkTypeOK
        <3>2. SenderTypeOK' /\ SenderPatience'
            BY <2>4, SenderUnchangedType DEF AckIsDuplicate
        <3> QED BY <2>1, <3>1, <3>2 DEF NetworkTypeOK
    <2> QED BY <1>2, <2>3, <2>4 DEF SenderGetsAck, acked
<1>3. CASE SenderTimesOut
    <2>1. dataInFlight' \in [1 .. TotalBlockCount -> 0 .. MaxCopies]
        BY <1>3, TransmitType DEF SenderTimesOut, Rollback, NetworkTypeOK
    <2> QED BY <1>3, <2>1
            DEF SenderTimesOut, SenderTypeOK, NetworkTypeOK, SenderPatience, SenderStates
<1>4. CASE SenderAborts
    BY <1>4 DEF SenderAborts, SenderTypeOK, NetworkTypeOK, SenderPatience,
                SenderStates, networkVars
<1> QED BY <1>1, <1>2, <1>3, <1>4 DEF SenderStep

LEMMA ReceiverStepType ==
    ASSUME TypeOK, PatienceInv, ReceiverStep
    PROVE  ReceiverTypeOK' /\ ReceiverPatience' /\ NetworkTypeOK'
<1> USE EngineAssumption, NetworkAssumption, TotalBlockCountType
<1> USE DEF TypeOK, PatienceInv
<1>1. ASSUME NEW b \in 1 .. TotalBlockCount, ReceiverGetsData(b)
      PROVE  ReceiverTypeOK' /\ ReceiverPatience' /\ NetworkTypeOK'
    <2> DEFINE absolute == ResolveData(WireBlock(b), lastInSequence, Window)
    <2>1. dataInFlight' \in [1 .. TotalBlockCount -> 0 .. MaxCopies]
        BY <1>1, TakeDataType DEF ReceiverGetsData
    <2>2. absolute \in Nat /\ lastInSequence \in Nat /\ lastInSequence + 1 \in Nat
        BY ResolveDataType DEF ReceiverTypeOK
    <2>3. receiver = "receiving" /\ receiverTimeouts' = 0 /\ dally' = dally
        BY <1>1 DEF ReceiverGetsData
    <2>4. Append(sink, b) \in Seq(1 .. TotalBlockCount)
        BY DEF ReceiverTypeOK
    <2>5. ReceiverPatience' /\ ReceiverTypeOK' /\ NetworkTypeOK'
        <3> SUFFICES /\ receiver' \in {"receiving", "dallying"}
                     /\ lastInSequence' \in Nat
                     /\ blocksSinceAck' \in Nat
                     /\ sink' \in Seq(1 .. TotalBlockCount)
                     /\ acksInFlight' \in [0 .. TotalBlockCount -> 0 .. MaxCopies]
                     /\ receiver' = "dallying" => dally < DallyLimit
            <4>1. ReceiverPatience'
                BY <2>3 DEF ReceiverPatience
            <4>2. ReceiverTypeOK'
                BY <2>3 DEF ReceiverTypeOK, ReceiverStates
            <4>3. NetworkTypeOK'
                BY <2>1 DEF NetworkTypeOK
            <4> QED BY <4>1, <4>2, <4>3
        <3> HIDE DEF absolute
        <3>0. dally < DallyLimit
            BY <2>3 DEF ReceiverPatience
        <3>1. CASE AcceptBlock(b)
            <4>1. acksInFlight' \in [0 .. TotalBlockCount -> 0 .. MaxCopies]
                BY <2>2, <3>1, AcknowledgeType DEF AcceptBlock, NetworkTypeOK
            <4> QED BY <2>2, <2>3, <2>4, <3>0, <3>1, <4>1 DEF AcceptBlock, ReceiverTypeOK
        <3>2. CASE AcceptAcrossGap(b, absolute)
            <4>1. acksInFlight' \in [0 .. TotalBlockCount -> 0 .. MaxCopies]
                BY <2>2, <3>2, AcknowledgeType DEF AcceptAcrossGap
            <4> QED BY <2>2, <2>3, <2>4, <3>0, <3>2, <4>1 DEF AcceptAcrossGap, ReceiverTypeOK
        <3>3. CASE ReAcknowledge
            <4>1. acksInFlight' \in [0 .. TotalBlockCount -> 0 .. MaxCopies]
                BY <2>2, <3>3, AcknowledgeType DEF ReAcknowledge
            <4> QED BY <2>2, <2>3, <3>3, <4>1 DEF ReAcknowledge, ReceiverTypeOK
        <3> QED BY <1>1, <3>1, <3>2, <3>3 DEF ReceiverGetsData, absolute
    <2> QED BY <2>5
<1>2. CASE ReceiverTimesOut
    <2>1. acksInFlight' \in [0 .. TotalBlockCount -> 0 .. MaxCopies]
        BY <1>2, AcknowledgeType DEF ReceiverTimesOut, ReceiverTypeOK, NetworkTypeOK
    <2> QED BY <1>2, <2>1
            DEF ReceiverTimesOut, ReceiverTypeOK, NetworkTypeOK, ReceiverPatience, ReceiverStates
<1>3. CASE ReceiverAborts
    BY <1>3 DEF ReceiverAborts, ReceiverTypeOK, NetworkTypeOK, ReceiverPatience,
                ReceiverStates, networkVars
<1>4. ASSUME NEW b \in 1 .. TotalBlockCount, DallyGetsData(b)
      PROVE  ReceiverTypeOK' /\ ReceiverPatience' /\ NetworkTypeOK'
    <2>1. NetworkTypeOK'
        BY <1>4, TakeDataType, AcknowledgeType DEF DallyGetsData, NetworkTypeOK, ReceiverTypeOK
    <2>2. ReceiverTypeOK' /\ ReceiverPatience'
        BY <1>4 DEF DallyGetsData, DallyTurn, ReceiverTypeOK, ReceiverPatience, ReceiverStates
    <2> QED BY <2>1, <2>2
<1>5. CASE DallyGetsOther
    BY <1>5 DEF DallyGetsOther, DallyTurn, ReceiverTypeOK, NetworkTypeOK,
                ReceiverPatience, ReceiverStates, networkVars
<1>6. CASE DallyEnds
    BY <1>6 DEF DallyEnds, ReceiverTypeOK, NetworkTypeOK, ReceiverPatience,
                ReceiverStates, networkVars
<1> QED BY <1>1, <1>2, <1>3, <1>4, <1>5, <1>6 DEF ReceiverStep

LEMMA SenderStepFrame == SenderStep => UNCHANGED receiverVars
BY DEF SenderStep, SenderStart, SenderGetsAck, SenderTimesOut, SenderAborts

LEMMA ReceiverStepFrame == ReceiverStep => UNCHANGED senderVars
BY DEF ReceiverStep, ReceiverGetsData, ReceiverTimesOut, ReceiverAborts,
       DallyGetsData, DallyGetsOther, DallyTurn, DallyEnds

LEMMA NextTypeOK ==
    ASSUME TypeOK, PatienceInv, [Next]_vars
    PROVE  TypeOK' /\ PatienceInv'
<1> USE DEF TypeOK, PatienceInv
<1>1. CASE SenderStep
    BY <1>1, SenderStepType, SenderStepFrame, ReceiverUnchangedType
<1>2. CASE ReceiverStep
    BY <1>2, ReceiverStepType, ReceiverStepFrame, SenderUnchangedType
<1>3. CASE UNCHANGED vars
    <2>1. UNCHANGED senderVars /\ UNCHANGED receiverVars /\ UNCHANGED networkVars
        BY <1>3 DEF vars
    <2>2. NetworkTypeOK'
        BY <2>1 DEF NetworkTypeOK, networkVars
    <2> QED BY <2>1, <2>2, SenderUnchangedType, ReceiverUnchangedType
<1> QED BY <1>1, <1>2, <1>3 DEF Next, Finished

(* Every reachable state of every engine, the buggy one included, has its  *)
(* counters, windows and buffers in their ranges: the retransmission and   *)
(* dally counts of the engine's loops never pass their limits.             *)
THEOREM TypeCorrect == Spec => []TypeOK
<1>1. Init => TypeOK /\ PatienceInv
    BY InitTypeOK
<1>2. TypeOK /\ PatienceInv /\ [Next]_vars => TypeOK' /\ PatienceInv'
    BY NextTypeOK
<1> QED BY <1>1, <1>2, PTL DEF Spec

-----------------------------------------------------------------------------
(* Integrity, of the engine without quirks on a network that keeps block   *)
(* numbers unambiguous.                                                    *)

(* The two windows and what is in flight between them; it holds of the     *)
(* engine with its quirks, too.                                            *)
ChannelInv == TypeOK /\ WindowInv /\ InFlightInv

(* An ACK that advances the window is taken for exactly the block it       *)
(* acknowledges, across wraparound too.                                    *)
LEMMA AckIsUnderstood ==
    ASSUME ChannelInv, WrapSafe,
           NEW a \in 0 .. TotalBlockCount, TakeAck(a),
           ResolveAck(WireBlock(a), lastAcked, highestSent) > lastAcked
    PROVE  /\ ResolveAck(WireBlock(a), lastAcked, highestSent) = a
           /\ a <= lastInSequence
<1> USE EngineAssumption, NetworkAssumption, ModulusAssumption,
        TotalBlocksType, TotalBlockCountType
<1> DEFINE r == ResolveAck(WireBlock(a), lastAcked, highestSent)
<1>1. /\ lastAcked \in Nat /\ highestSent \in Nat /\ lastInSequence \in Nat
      /\ highestSent <= TotalBlockCount
      /\ highestSent <= lastAcked + Window
    BY DEF ChannelInv, TypeOK, SenderTypeOK, ReceiverTypeOK, WindowInv
<1>2. r \in lastAcked + 1 .. highestSent /\ WireBlock(r) = WireBlock(a)
    BY <1>1, ResolveAckSound
<1>3. a <= lastInSequence /\ a <= highestSent /\ a + MaxLag >= lastAcked
    BY <1>1 DEF TakeAck, ChannelInv, InFlightInv, WindowInv
<1>4. r \in Nat /\ a \in Nat
    BY <1>1, <1>2
<1> HIDE DEF r
<1>5. CASE r <= a
    <2>1. a - r < Modulus
        BY <1>1, <1>2, <1>3, <1>4 DEF WrapSafe
    <2> QED BY <1>2, <1>3, <1>4, <1>5, <2>1, WireBlockIsInjective DEF r
<1>6. CASE a <= r
    <2>1. r - a < Modulus
        BY <1>1, <1>2, <1>3, <1>4 DEF WrapSafe
    <2> QED BY <1>2, <1>3, <1>4, <1>6, <2>1, WireBlockIsInjective DEF r
<1> QED BY <1>4, <1>5, <1>6

(* A DATA block taken for the next one is the next one.                    *)
LEMMA DataIsUnderstood ==
    ASSUME ChannelInv, WrapSafe,
           NEW b \in 1 .. TotalBlockCount, TakeData(b),
           ResolveData(WireBlock(b), lastInSequence, Window) = lastInSequence + 1
    PROVE  b = lastInSequence + 1 /\ b <= highestSent
<1> USE EngineAssumption, NetworkAssumption, ModulusAssumption,
        TotalBlocksType, TotalBlockCountType
<1>1. /\ lastAcked \in Nat /\ highestSent \in Nat /\ lastInSequence \in Nat
      /\ lastInSequence <= highestSent /\ highestSent <= TotalBlockCount
      /\ highestSent <= lastAcked + Window /\ lastAcked <= lastInSequence
    BY DEF ChannelInv, TypeOK, SenderTypeOK, ReceiverTypeOK, WindowInv
<1>2. WireBlock(lastInSequence + 1) = WireBlock(b)
    BY <1>1, ResolveDataAhead
<1>3. b <= highestSent /\ b + MaxLag >= lastInSequence
    BY <1>1 DEF TakeData, ChannelInv, InFlightInv
<1> DEFINE n == lastInSequence + 1
<1>4. n \in Nat /\ b \in Nat
    BY <1>1
<1>5. CASE b <= n
    <2>1. n - b < Modulus
        BY <1>1, <1>3, <1>4 DEF WrapSafe
    <2> QED BY <1>2, <1>3, <1>4, <1>5, <2>1, WireBlockIsInjective
<1>6. CASE n <= b
    <2>1. b - n < Modulus
        BY <1>1, <1>3, <1>4 DEF WrapSafe
    <2> QED BY <1>2, <1>3, <1>4, <1>6, <2>1, WireBlockIsInjective
<1> QED BY <1>4, <1>5, <1>6

(* Nor is one taken for a block beyond a gap that is another block.        *)
LEMMA GapIsUnderstood ==
    ASSUME ChannelInv, WrapSafeAcrossGaps,
           NEW b \in 1 .. TotalBlockCount, TakeData(b),
           ResolveData(WireBlock(b), lastInSequence, Window) > lastInSequence
    PROVE  /\ ResolveData(WireBlock(b), lastInSequence, Window) = b
           /\ b <= highestSent
<1> USE EngineAssumption, NetworkAssumption, ModulusAssumption,
        TotalBlocksType, TotalBlockCountType
<1> DEFINE r == ResolveData(WireBlock(b), lastInSequence, Window)
<1>1. /\ lastAcked \in Nat /\ highestSent \in Nat /\ lastInSequence \in Nat
      /\ lastInSequence <= highestSent /\ highestSent <= TotalBlockCount
      /\ highestSent <= lastAcked + Window /\ lastAcked <= lastInSequence
    BY DEF ChannelInv, TypeOK, SenderTypeOK, ReceiverTypeOK, WindowInv
<1>2. r \in lastInSequence + 1 .. lastInSequence + Window /\ WireBlock(r) = WireBlock(b)
    BY <1>1, ResolveDataAhead
<1>3. b <= highestSent /\ b + MaxLag >= lastInSequence
    BY <1>1 DEF TakeData, ChannelInv, InFlightInv
<1>4. r \in Nat /\ b \in Nat
    BY <1>1, <1>2
<1> HIDE DEF r
<1>5. CASE b <= r
    <2>1. r - b < Modulus
        BY <1>1, <1>2, <1>3, <1>4 DEF WrapSafeAcrossGaps
    <2> QED BY <1>2, <1>3, <1>4, <1>5, <2>1, WireBlockIsInjective DEF r
<1>6. CASE r <= b
    <2>1. b - r < Modulus
        BY <1>1, <1>2, <1>3, <1>4 DEF WrapSafeAcrossGaps
    <2> QED BY <1>2, <1>3, <1>4, <1>6, <2>1, WireBlockIsInjective DEF r
<1> QED BY <1>4, <1>5, <1>6

LEMMA InitTransferInv == Init => TransferInv
<1> SUFFICES ASSUME Init PROVE TransferInv
    OBVIOUS
<1>1. TypeOK /\ PatienceInv
    BY InitTypeOK
<1>2. WindowInv /\ InFlightInv /\ SinkIsPrefix /\ DalliesOnWholeFile /\ AllAckedInv
    BY TotalBlockCountType, EngineAssumption
    DEF Init, WindowInv, InFlightInv, SinkIsPrefix, DalliesOnWholeFile, AllAckedInv
<1> QED BY <1>1, <1>2 DEF TransferInv

(* Sending new blocks or sending old ones again leaves only sent blocks in *)
(* flight.                                                                 *)
LEMMA SendNewInFlight ==
    ASSUME ChannelInv, NEW acked \in lastAcked .. highestSent, SendNew(acked)
    PROVE  /\ highestSent' >= highestSent
           /\ highestSent' <= acked + Window
           /\ \A b \in 1 .. TotalBlockCount : dataInFlight'[b] > 0 => b <= highestSent'
<1> USE EngineAssumption, TotalBlocksType, TotalBlockCountType
<1>1. /\ lastAcked \in 0 .. TotalBlocks /\ highestSent \in 0 .. TotalBlocks
      /\ highestSent <= lastAcked + Window
      /\ WindowEdge(acked) \in Nat /\ WindowEdge(acked) <= acked + Window
    BY DEF ChannelInv, TypeOK, SenderTypeOK, WindowInv, WindowEdge
<1>2. /\ highestSent' >= highestSent /\ highestSent' >= WindowEdge(acked)
      /\ highestSent' <= acked + Window /\ highestSent' \in Nat
    BY <1>1 DEF SendNew
<1>3. ASSUME NEW b \in 1 .. TotalBlockCount, dataInFlight'[b] > 0
      PROVE  b <= highestSent'
    <2>1. CASE b \in highestSent + 1 .. WindowEdge(acked)
        BY <1>1, <1>2, <2>1
    <2>2. CASE b \notin highestSent + 1 .. WindowEdge(acked)
        <3>1. dataInFlight'[b] = dataInFlight[b]
            BY <2>2 DEF SendNew, Transmit, ChannelInv, TypeOK, NetworkTypeOK
        <3>2. b <= highestSent
            BY <1>3, <3>1 DEF ChannelInv, InFlightInv
        <3> QED BY <1>1, <1>2, <3>2
    <2> QED BY <2>1, <2>2
<1> QED BY <1>2, <1>3

LEMMA RollbackInFlight ==
    ASSUME ChannelInv, Rollback
    PROVE  \A b \in 1 .. TotalBlockCount : dataInFlight'[b] > 0 => b <= highestSent
<1> SUFFICES ASSUME NEW b \in 1 .. TotalBlockCount, dataInFlight'[b] > 0
             PROVE  b <= highestSent
    OBVIOUS
<1>1. CASE b \in lastAcked + 1 .. highestSent
    BY <1>1
<1>2. CASE b \notin lastAcked + 1 .. highestSent
    <2>1. dataInFlight'[b] = dataInFlight[b]
        BY <1>2 DEF Rollback, Transmit, ChannelInv, TypeOK, NetworkTypeOK
    <2> QED BY <2>1 DEF ChannelInv, InFlightInv
<1> QED BY <1>1, <1>2

LEMMA AcknowledgeInFlight ==
    ASSUME ChannelInv, NEW block \in Nat, block >= lastInSequence, Acknowledge(block)
    PROVE  \A a \in 0 .. TotalBlockCount : acksInFlight'[a] > 0 => a <= block
<1> SUFFICES ASSUME NEW a \in 0 .. TotalBlockCount, acksInFlight'[a] > 0, a # block
             PROVE  a <= block
    OBVIOUS
<1>1. acksInFlight'[a] = acksInFlight[a]
    BY DEF Acknowledge, ChannelInv, TypeOK, NetworkTypeOK
<1>2. a <= lastInSequence /\ lastInSequence \in Nat
    BY <1>1 DEF ChannelInv, InFlightInv, TypeOK, ReceiverTypeOK
<1> QED BY <1>2

LEMMA TakeDataInFlight ==
    ASSUME ChannelInv, NEW b \in 1 .. TotalBlockCount, TakeData(b)
    PROVE  \A c \in 1 .. TotalBlockCount : dataInFlight'[c] > 0 => dataInFlight[c] > 0
BY DEF TakeData, ChannelInv, TypeOK, NetworkTypeOK

LEMMA TakeAckInFlight ==
    ASSUME ChannelInv, NEW a \in 0 .. TotalBlockCount, TakeAck(a)
    PROVE  \A c \in 0 .. TotalBlockCount : acksInFlight'[c] > 0 => acksInFlight[c] > 0
BY DEF TakeAck, ChannelInv, TypeOK, NetworkTypeOK

(* A step of the sender keeps the windows in step, whatever its quirks.    *)
LEMMA SenderStepChannel ==
    ASSUME ChannelInv, WrapSafe, SenderStep
    PROVE  WindowInv' /\ InFlightInv' /\ (AllAckedInv => AllAckedInv')
<1> USE EngineAssumption, NetworkAssumption, TotalBlocksType, TotalBlockCountType
<1>1. UNCHANGED receiverVars
    BY SenderStepFrame
<1>3. lastInSequence' = lastInSequence /\ lastInSequence \in Nat
    BY <1>1 DEF receiverVars, ChannelInv, TypeOK, ReceiverTypeOK
<1>4. /\ lastAcked \in Nat /\ highestSent \in Nat
      /\ lastAcked <= TotalBlocks /\ highestSent <= TotalBlocks
      /\ lastAcked <= lastInSequence /\ lastInSequence <= highestSent
      /\ highestSent <= lastAcked + Window
    BY DEF ChannelInv, TypeOK, SenderTypeOK, WindowInv
<1>5. CASE SenderStart
    <2>1. lastAcked' = lastAcked /\ acksInFlight' = acksInFlight /\ SendNew(lastAcked)
          /\ sender' # "succeeded"
        BY <1>5 DEF SenderStart
    <2>2. /\ highestSent' >= highestSent
          /\ highestSent' <= lastAcked + Window
          /\ \A b \in 1 .. TotalBlockCount : dataInFlight'[b] > 0 => b <= highestSent'
        <3>1. lastAcked \in lastAcked .. highestSent
            BY <1>3, <1>4
        <3> QED BY <2>1, <3>1, SendNewInFlight
    <2>3. highestSent' \in Nat
        BY <1>4, <2>1 DEF SendNew, WindowEdge
    <2>4. WindowInv'
        BY <1>3, <1>4, <2>1, <2>2, <2>3 DEF WindowInv
    <2>5. InFlightInv'
        BY <1>3, <2>1, <2>2 DEF ChannelInv, InFlightInv
    <2> QED BY <2>1, <2>4, <2>5 DEF AllAckedInv
<1>6. ASSUME NEW a \in 0 .. TotalBlockCount, SenderGetsAck(a)
      PROVE  WindowInv' /\ InFlightInv' /\ (AllAckedInv => AllAckedInv')
    <2> DEFINE acked == ResolveAck(WireBlock(a), lastAcked, highestSent)
    <2>1. TakeAck(a) /\ sender = "waiting"
        BY <1>6 DEF SenderGetsAck
    <2>2. \A c \in 0 .. TotalBlockCount : acksInFlight'[c] > 0 => c <= lastInSequence'
        BY <1>3, <2>1, TakeAckInFlight DEF ChannelInv, InFlightInv
    <2>3. CASE acked > lastAcked /\ AckAdvances(acked)
        <3>1. acked = a /\ a <= lastInSequence
            BY <2>1, <2>3, AckIsUnderstood
        <3> HIDE DEF acked
        <3>2. acked \in lastAcked .. highestSent /\ acked <= lastInSequence
              /\ acked > lastAcked /\ acked \in Nat
            BY <1>3, <1>4, <2>3, <3>1
        <3>3. CASE acked < TotalBlocks
            <4>1. SendNew(acked) /\ lastAcked' = acked /\ sender' = sender
                BY <2>3, <3>2, <3>3, <1>4 DEF AckAdvances
            <4>2. /\ highestSent' >= highestSent
                  /\ highestSent' <= acked + Window
                  /\ \A b \in 1 .. TotalBlockCount :
                        dataInFlight'[b] > 0 => b <= highestSent'
                BY <3>2, <4>1, SendNewInFlight
            <4>3. highestSent' \in Nat
                BY <1>4, <3>2, <4>1 DEF SendNew, WindowEdge
            <4>4. WindowInv'
                BY <1>3, <1>4, <3>2, <4>1, <4>2, <4>3 DEF WindowInv
            <4> QED BY <2>1, <2>2, <4>1, <4>2, <4>4 DEF InFlightInv, AllAckedInv
        <3>4. CASE acked >= TotalBlocks
            <4>1. /\ lastAcked' = acked /\ highestSent' = highestSent
                  /\ dataInFlight' = dataInFlight
                BY <2>3, <3>2, <3>4, <1>4 DEF AckAdvances
            <4>2. acked = TotalBlocks
                BY <1>4, <3>2, <3>4
            <4>3. WindowInv'
                BY <1>3, <1>4, <3>2, <4>1 DEF WindowInv
            <4>4. InFlightInv'
                BY <2>2, <4>1 DEF ChannelInv, InFlightInv
            <4> QED BY <4>1, <4>2, <4>3, <4>4 DEF AllAckedInv
        <3> QED BY <1>4, <3>2, <3>3, <3>4
    <2>4. CASE AckIsDuplicate
        <3>1. UNCHANGED <<sender, lastAcked, highestSent>>
            BY <2>4 DEF AckIsDuplicate, senderVars
        <3>2. \A b \in 1 .. TotalBlockCount : dataInFlight'[b] > 0 => b <= highestSent'
            BY <2>4, <3>1, RollbackInFlight DEF AckIsDuplicate, ChannelInv, InFlightInv
        <3> QED BY <1>3, <2>2, <3>1, <3>2 DEF ChannelInv, WindowInv, InFlightInv, AllAckedInv
    <2> QED BY <1>6, <2>3, <2>4 DEF SenderGetsAck
<1>7. CASE SenderTimesOut
    <2>1. UNCHANGED <<lastAcked, highestSent, acksInFlight>> /\ sender' # "succeeded"
        BY <1>7 DEF SenderTimesOut
    <2>2. \A b \in 1 .. TotalBlockCount : dataInFlight'[b] > 0 => b <= highestSent'
        BY <1>7, <2>1, RollbackInFlight DEF SenderTimesOut, ChannelInv, InFlightInv
    <2> QED BY <1>3, <2>1, <2>2 DEF ChannelInv, WindowInv, InFlightInv, AllAckedInv
<1>8. CASE SenderAborts
    BY <1>3, <1>8
    DEF SenderAborts, ChannelInv, WindowInv, InFlightInv, AllAckedInv, networkVars
<1> QED BY <1>5, <1>6, <1>7, <1>8 DEF SenderStep

(* The conjuncts of TransferInv that are not about types.                  *)
LEMMA SenderStepInv ==
    ASSUME TransferInv, WrapSafe, SenderStep
    PROVE  WindowInv' /\ InFlightInv' /\ SinkIsPrefix' /\ DalliesOnWholeFile' /\ AllAckedInv'
<1>1. SinkIsPrefix' /\ DalliesOnWholeFile'
    BY SenderStepFrame DEF TransferInv, SinkIsPrefix, DalliesOnWholeFile, receiverVars
<1>2. WindowInv' /\ InFlightInv' /\ AllAckedInv'
    BY SenderStepChannel DEF TransferInv, ChannelInv
<1> QED BY <1>1, <1>2

(* Steps of the receiver that keep no block leave its file alone and       *)
(* acknowledge nothing new; the windows stay in step.                      *)
KeepsNothing ==
    /\ UNCHANGED <<lastInSequence, sink>>
    /\ receiver' \in {"dallying", "succeeded"} <=> receiver \in {"dallying", "succeeded"}
    /\ \A b \in 1 .. TotalBlockCount : dataInFlight'[b] > 0 => dataInFlight[b] > 0
    /\ \A a \in 0 .. TotalBlockCount : acksInFlight'[a] > 0 => a <= lastInSequence

LEMMA KeepsNothingChannel ==
    ASSUME ChannelInv, KeepsNothing, UNCHANGED <<lastAcked, highestSent>>
    PROVE  WindowInv' /\ InFlightInv'
BY DEF ChannelInv, KeepsNothing, WindowInv, InFlightInv

(* A block kept as number n, which was sent: the windows stay in step.     *)
KeepsAs(b, n) ==
    /\ sink' = Append(sink, b)
    /\ lastInSequence' = n
    /\ UNCHANGED acksInFlight \/ Acknowledge(n)

LEMMA KeepsChannel ==
    ASSUME ChannelInv, NEW b \in 1 .. TotalBlockCount, NEW n \in Nat,
           TakeData(b), KeepsAs(b, n), n > lastInSequence, n <= highestSent,
           UNCHANGED <<lastAcked, highestSent>>
    PROVE  WindowInv' /\ InFlightInv'
<1>1. /\ lastAcked \in Nat /\ highestSent \in Nat /\ lastInSequence \in Nat
      /\ lastAcked <= lastInSequence
    BY TotalBlocksType, TotalBlockCountType
    DEF ChannelInv, TypeOK, SenderTypeOK, ReceiverTypeOK, WindowInv
<1>2. WindowInv'
    BY <1>1 DEF ChannelInv, WindowInv, KeepsAs
<1>3. \A a \in 0 .. TotalBlockCount : acksInFlight'[a] > 0 => a <= lastInSequence'
    <2>1. CASE Acknowledge(n)
        BY <1>1, <2>1, AcknowledgeInFlight DEF KeepsAs
    <2>2. CASE UNCHANGED acksInFlight
        BY <1>1, <2>2, TotalBlockCountType DEF ChannelInv, InFlightInv, KeepsAs
    <2> QED BY <2>1, <2>2 DEF KeepsAs
<1>4. \A c \in 1 .. TotalBlockCount : dataInFlight'[c] > 0 => dataInFlight[c] > 0
    BY TakeDataInFlight
<1> QED BY <1>2, <1>3, <1>4 DEF ChannelInv, InFlightInv

(* What a step of the receiver can do: keep the next block, keep a block   *)
(* from beyond a gap (a quirk), or keep nothing.                           *)
LEMMA ReceiverStepCases ==
    ASSUME ChannelInv, WrapSafe, ReceiverStep
    PROVE  \/ \E b \in 1 .. TotalBlockCount :
                 /\ TakeData(b) /\ receiver = "receiving"
                 /\ b = lastInSequence + 1 /\ b <= highestSent
                 /\ AcceptBlock(b)
           \/ \E b \in 1 .. TotalBlockCount :
                 LET absolute == ResolveData(WireBlock(b), lastInSequence, Window) IN
                 /\ TakeData(b) /\ receiver = "receiving"
                 /\ absolute > lastInSequence
                 /\ AcceptAcrossGap(b, absolute)
                 /\ AcceptOutOfSequenceData
           \/ KeepsNothing
<1> USE EngineAssumption, NetworkAssumption, TotalBlocksType, TotalBlockCountType
<1>1. lastInSequence \in Nat
    BY DEF ChannelInv, TypeOK, ReceiverTypeOK
<1>2. \A a \in 0 .. TotalBlockCount : acksInFlight[a] > 0 => a <= lastInSequence
    BY DEF ChannelInv, InFlightInv
<1>3. ASSUME NEW b \in 1 .. TotalBlockCount, ReceiverGetsData(b)
      PROVE  \/ /\ TakeData(b) /\ receiver = "receiving"
                /\ b = lastInSequence + 1 /\ b <= highestSent
                /\ AcceptBlock(b)
             \/ LET absolute == ResolveData(WireBlock(b), lastInSequence, Window) IN
                /\ TakeData(b) /\ receiver = "receiving"
                /\ absolute > lastInSequence
                /\ AcceptAcrossGap(b, absolute)
                /\ AcceptOutOfSequenceData
             \/ KeepsNothing
    <2> DEFINE absolute == ResolveData(WireBlock(b), lastInSequence, Window)
    <2>1. TakeData(b) /\ receiver = "receiving"
        BY <1>3 DEF ReceiverGetsData
    <2>2. CASE absolute = lastInSequence + 1 /\ AcceptBlock(b)
        BY <2>1, <2>2, DataIsUnderstood
    <2>3. CASE /\ absolute = 0 \/ absolute > lastInSequence + 1
               /\ absolute # 0 /\ AcceptOutOfSequenceData
               /\ AcceptAcrossGap(b, absolute)
        <3>1. absolute > lastInSequence
            <4>1. absolute \in Nat
                BY <1>1, ResolveDataType
            <4> QED BY <1>1, <2>3, <4>1
        <3> QED BY <2>1, <2>3, <3>1
    <2>4. CASE ReAcknowledge
        <3>1. \A a \in 0 .. TotalBlockCount : acksInFlight'[a] > 0 => a <= lastInSequence
            BY <1>1, <2>4, AcknowledgeInFlight DEF ReAcknowledge
        <3>2. \A c \in 1 .. TotalBlockCount : dataInFlight'[c] > 0 => dataInFlight[c] > 0
            BY <2>1, TakeDataInFlight
        <3> QED BY <2>4, <3>1, <3>2 DEF ReAcknowledge, KeepsNothing
    <2> QED BY <1>3, <2>2, <2>3, <2>4 DEF ReceiverGetsData
<1>4. CASE ReceiverTimesOut
    <2>1. \A a \in 0 .. TotalBlockCount : acksInFlight'[a] > 0 => a <= lastInSequence
        BY <1>1, <1>2, <1>4, AcknowledgeInFlight DEF ReceiverTimesOut
    <2> QED BY <1>4, <2>1 DEF ReceiverTimesOut, KeepsNothing
<1>5. CASE ReceiverAborts
    BY <1>2, <1>5 DEF ReceiverAborts, KeepsNothing, networkVars
<1>6. ASSUME NEW b \in 1 .. TotalBlockCount, DallyGetsData(b)
      PROVE  KeepsNothing
    <2>1. \A a \in 0 .. TotalBlockCount : acksInFlight'[a] > 0 => a <= lastInSequence
        BY <1>1, <1>6, AcknowledgeInFlight DEF DallyGetsData
    <2>2. \A c \in 1 .. TotalBlockCount : dataInFlight'[c] > 0 => dataInFlight[c] > 0
        BY <1>6, TakeDataInFlight DEF DallyGetsData
    <2> QED BY <1>6, <2>1, <2>2 DEF DallyGetsData, DallyTurn, KeepsNothing
<1>7. CASE DallyGetsOther \/ DallyEnds
    BY <1>2, <1>7 DEF DallyGetsOther, DallyTurn, DallyEnds, KeepsNothing, networkVars
<1> QED BY <1>3, <1>4, <1>5, <1>6, <1>7 DEF ReceiverStep

LEMMA ReceiverStepInv ==
    ASSUME TransferInv, NoQuirks, WrapSafe, ReceiverStep
    PROVE  WindowInv' /\ InFlightInv' /\ SinkIsPrefix' /\ DalliesOnWholeFile' /\ AllAckedInv'
<1>1. UNCHANGED <<sender, lastAcked, highestSent>>
    BY ReceiverStepFrame DEF senderVars
<1>2. AllAckedInv'
    BY <1>1 DEF TransferInv, AllAckedInv
<1>3. ChannelInv /\ lastInSequence \in Nat
    BY DEF TransferInv, ChannelInv, TypeOK, ReceiverTypeOK
<1>4. ASSUME NEW b \in 1 .. TotalBlockCount,
             TakeData(b), receiver = "receiving",
             b = lastInSequence + 1, b <= highestSent, AcceptBlock(b)
      PROVE  WindowInv' /\ InFlightInv' /\ SinkIsPrefix' /\ DalliesOnWholeFile'
    <2>1. lastInSequence' = lastInSequence + 1 /\ sink' = Append(sink, b)
        BY <1>4 DEF AcceptBlock
    <2>2. WindowInv' /\ InFlightInv'
        <3>1. KeepsAs(b, lastInSequence + 1)
            BY <1>4 DEF AcceptBlock, KeepsAs
        <3> QED BY <1>1, <1>3, <1>4, <3>1, KeepsChannel
    <2>3. SinkIsPrefix'
        <3>1. /\ sink \in Seq(1 .. TotalBlockCount)
              /\ Len(sink) = lastInSequence
              /\ \A i \in 1 .. Len(sink) : sink[i] = i
            BY DEF TransferInv, TypeOK, ReceiverTypeOK, SinkIsPrefix
        <3>2. Len(sink') = lastInSequence + 1
            BY <2>1, <3>1
        <3>3. \A i \in 1 .. lastInSequence + 1 : sink'[i] = i
            BY <1>3, <1>4, <2>1, <3>1
        <3> QED BY <2>1, <3>2, <3>3 DEF SinkIsPrefix
    <2>4. DalliesOnWholeFile'
        <3>1. IsShort(b) <=> lastInSequence + 1 = TotalBlockCount
            BY <1>4, FinalBlockRule
        <3>2. (receiver' = "dallying" /\ IsShort(b)) \/ (receiver' = "receiving" /\ ~IsShort(b))
            BY <1>4 DEF AcceptBlock
        <3> QED BY <2>1, <3>1, <3>2 DEF DalliesOnWholeFile
    <2> QED BY <2>2, <2>3, <2>4
<1>5. ASSUME KeepsNothing
      PROVE  WindowInv' /\ InFlightInv' /\ SinkIsPrefix' /\ DalliesOnWholeFile'
    <2>1. WindowInv' /\ InFlightInv'
        BY <1>1, <1>3, <1>5, KeepsNothingChannel
    <2>2. SinkIsPrefix' /\ DalliesOnWholeFile'
        BY <1>5 DEF KeepsNothing, TransferInv, SinkIsPrefix, DalliesOnWholeFile
    <2> QED BY <2>1, <2>2
<1> QED BY <1>2, <1>3, <1>4, <1>5, ReceiverStepCases DEF NoQuirks

LEMMA NextTransferInv ==
    ASSUME TransferInv, NoQuirks, WrapSafe, [Next]_vars
    PROVE  TransferInv'
<1>1. TypeOK' /\ PatienceInv'
    BY NextTypeOK DEF TransferInv
<1>2. CASE SenderStep
    BY <1>1, <1>2, SenderStepInv DEF TransferInv
<1>3. CASE ReceiverStep
    BY <1>1, <1>3, ReceiverStepInv DEF TransferInv
<1>4. CASE UNCHANGED vars
    <2>1. WindowInv' /\ InFlightInv'
        BY <1>4 DEF vars, senderVars, receiverVars, networkVars, TransferInv,
                    WindowInv, InFlightInv
    <2>2. SinkIsPrefix' /\ DalliesOnWholeFile' /\ AllAckedInv'
        BY <1>4 DEF vars, senderVars, receiverVars, TransferInv,
                    SinkIsPrefix, DalliesOnWholeFile, AllAckedInv
    <2> QED BY <1>1, <2>1, <2>2 DEF TransferInv
<1> QED BY <1>2, <1>3, <1>4 DEF Next, Finished

LEMMA TransferInvariant == NoQuirks /\ WrapSafe /\ Spec => []TransferInv
<1> SUFFICES ASSUME NoQuirks, WrapSafe
             PROVE  Spec => []TransferInv
    OBVIOUS
<1>1. Init => TransferInv
    BY InitTransferInv
<1>2. TransferInv /\ [Next]_vars => TransferInv'
    BY NextTransferInv
<1> QED BY <1>1, <1>2, PTL DEF Spec

(* For every file, block size, window, retransmission bound and network    *)
(* that duplicates, reorders, delays and loses, the file received is a     *)
(* prefix of the file sent, also when block numbers wrap around, as long   *)
(* as a window and the network's lag together stay below 2^16 blocks.      *)
THEOREM FileIntegrity == NoQuirks /\ WrapSafe /\ Spec => []SinkIsPrefix
<1>1. TransferInv => SinkIsPrefix
    BY DEF TransferInv
<1> QED BY <1>1, TransferInvariant, PTL

(* The two endpoints' windows stay in step: the sender never believes      *)
(* acknowledged what was not received, and never has more than one window  *)
(* outstanding.                                                            *)
THEOREM WindowsInStep == NoQuirks /\ WrapSafe /\ Spec => []WindowInv
<1>1. TransferInv => WindowInv
    BY DEF TransferInv
<1> QED BY <1>1, TransferInvariant, PTL

(* The receiver's end-of-transfer test, a block shorter than the block     *)
(* size, comes true exactly when the whole file has been received, for     *)
(* every file size (exact multiples, the empty file) and every network.    *)
THEOREM EndIsRecognised == NoQuirks /\ WrapSafe /\ Spec => []DalliesOnWholeFile
<1>1. TransferInv => DalliesOnWholeFile
    BY DEF TransferInv
<1> QED BY <1>1, TransferInvariant, PTL

LEMMA TransferInvIsHonest == NoQuirks /\ TransferInv => HonestSuccess
<1> SUFFICES ASSUME NoQuirks, TransferInv,
                    sender = "succeeded" \/ receiver = "succeeded"
             PROVE  Len(sink) = TotalBlockCount
    BY DEF HonestSuccess
<1>1. Len(sink) = lastInSequence /\ lastInSequence \in Nat
    BY DEF TransferInv, SinkIsPrefix, TypeOK, ReceiverTypeOK
<1>2. CASE sender = "succeeded"
    <2>1. TotalBlocks = TotalBlockCount
        BY DEF NoQuirks, TotalBlocks
    <2>2. lastAcked = TotalBlockCount
        BY <1>2, <2>1 DEF TransferInv, AllAckedInv
    <2>3. lastInSequence >= TotalBlockCount /\ lastInSequence <= TotalBlockCount
        BY <1>1, <2>1, <2>2, TotalBlockCountType
        DEF TransferInv, WindowInv, TypeOK, SenderTypeOK
    <2> QED BY <1>1, <2>3, TotalBlockCountType
<1>3. CASE receiver = "succeeded"
    BY <1>1, <1>3 DEF TransferInv, DalliesOnWholeFile
<1> QED BY <1>2, <1>3

LEMMA HonestNext == NoQuirks /\ TransferInv' => HonestSuccess'
<1> SUFFICES ASSUME NoQuirks PROVE TransferInv' => HonestSuccess'
    OBVIOUS
<1>1. TransferInv => HonestSuccess
    BY TransferInvIsHonest
<1> QED BY <1>1, PTL

(* An endpoint that reports success does so with the whole file delivered. *)
THEOREM SuccessIsHonest == NoQuirks /\ WrapSafe /\ Spec => []HonestSuccess
<1> SUFFICES ASSUME NoQuirks
             PROVE  WrapSafe /\ Spec => []HonestSuccess
    OBVIOUS
<1>1. TransferInv => HonestSuccess
    BY TransferInvIsHonest
<1>2. WrapSafe /\ Spec => []TransferInv
    BY TransferInvariant
<1> QED BY <1>1, <1>2, PTL

-----------------------------------------------------------------------------
(* Refinement of FileDelivery.                                             *)

LEMMA InitRefines == Init => Abstract!FDInit
BY DEF Init, Abstract!FDInit, Reported

LEMMA SenderStepRefines ==
    ASSUME TransferInv, TransferInv', NoQuirks, WrapSafe, SenderStep
    PROVE  [Abstract!FDNext]_(Abstract!fdVars)
<1>1. UNCHANGED <<sink, receiver>> /\ Reported(receiver)' = Reported(receiver)
    BY SenderStepFrame DEF receiverVars, Reported
<1>2. CASE Reported(sender)' = Reported(sender)
    BY <1>1, <1>2 DEF Abstract!fdVars
<1>3. CASE sender = "waiting" /\ sender' = "succeeded"
    <2>1. Len(sink') = TotalBlockCount
        BY <1>3, HonestNext DEF HonestSuccess
    <2>2. Abstract!SourceSucceeds
        BY <1>1, <1>3, <2>1 DEF Abstract!SourceSucceeds, Abstract!Whole, Reported
    <2> QED BY <2>2 DEF Abstract!FDNext
<1>4. CASE sender = "waiting" /\ sender' \in {"timed_out", "aborted"}
    <2>1. Abstract!SourceFails
        BY <1>1, <1>4 DEF Abstract!SourceFails, Reported
    <2> QED BY <2>1 DEF Abstract!FDNext
<1>5. \/ Reported(sender)' = Reported(sender)
      \/ sender = "waiting" /\ sender' \in {"succeeded", "timed_out", "aborted"}
    BY DEF SenderStep, SenderStart, SenderGetsAck, AckAdvances, AckIsDuplicate,
           SenderTimesOut, SenderAborts, senderVars, Reported
<1> QED BY <1>2, <1>3, <1>4, <1>5

LEMMA ReceiverStepRefines ==
    ASSUME TransferInv, NoQuirks, WrapSafe, ReceiverStep
    PROVE  [Abstract!FDNext]_(Abstract!fdVars)
<1>1. Reported(sender)' = Reported(sender)
    BY ReceiverStepFrame DEF senderVars, Reported
<1>2. Len(sink) = lastInSequence /\ lastInSequence \in Nat
    BY DEF TransferInv, SinkIsPrefix, TypeOK, ReceiverTypeOK
<1>3. receiver \in {"dallying", "succeeded"} <=> Len(sink) = TotalBlockCount
    BY <1>2 DEF TransferInv, DalliesOnWholeFile
<1>4. CASE UNCHANGED sink
    <2>1. CASE Reported(receiver)' = Reported(receiver)
        BY <1>1, <1>4, <2>1 DEF Abstract!fdVars
    <2>2. CASE receiver = "receiving" /\ receiver' \in {"timed_out", "aborted"}
        <3>1. Abstract!TargetFails
            BY <1>1, <1>3, <1>4, <2>2 DEF Abstract!TargetFails, Abstract!Whole, Reported
        <3> QED BY <3>1 DEF Abstract!FDNext
    <2>3. CASE receiver = "dallying" /\ receiver' = "succeeded"
        <3>1. Abstract!TargetSucceeds
            BY <1>1, <1>3, <1>4, <2>3 DEF Abstract!TargetSucceeds, Abstract!Whole, Reported
        <3> QED BY <3>1 DEF Abstract!FDNext
    <2>4. \/ Reported(receiver)' = Reported(receiver)
          \/ receiver = "receiving" /\ receiver' \in {"timed_out", "aborted"}
          \/ receiver = "dallying" /\ receiver' = "succeeded"
        <3>1. ASSUME NEW b \in 1 .. TotalBlockCount, ReceiverGetsData(b)
              PROVE  Reported(receiver)' = Reported(receiver)
            BY <3>1 DEF ReceiverGetsData, AcceptBlock, AcceptAcrossGap, ReAcknowledge, Reported
        <3>2. ASSUME NEW b \in 1 .. TotalBlockCount, DallyGetsData(b)
              PROVE  \/ Reported(receiver)' = Reported(receiver)
                     \/ receiver = "dallying" /\ receiver' = "succeeded"
            BY <3>2 DEF DallyGetsData, DallyTurn, Reported
        <3>3. CASE ReceiverTimesOut \/ ReceiverAborts \/ DallyGetsOther \/ DallyEnds
            BY <3>3 DEF ReceiverTimesOut, ReceiverAborts, DallyGetsOther, DallyTurn,
                        DallyEnds, Reported
        <3> QED BY <3>1, <3>2, <3>3 DEF ReceiverStep
    <2> QED BY <2>1, <2>2, <2>3, <2>4
<1>5. ASSUME NEW b \in 1 .. TotalBlockCount, ReceiverGetsData(b), AcceptBlock(b),
             ResolveData(WireBlock(b), lastInSequence, Window) = lastInSequence + 1
      PROVE  [Abstract!FDNext]_(Abstract!fdVars)
    <2>1. b = lastInSequence + 1
        BY <1>5, DataIsUnderstood DEF ReceiverGetsData, TransferInv, ChannelInv
    <2>2. /\ sink' = Append(sink, Len(sink) + 1)
          /\ Reported(receiver) = "running" /\ Reported(receiver)' = "running"
          /\ receiver = "receiving"
        BY <1>2, <1>5, <2>1 DEF ReceiverGetsData, AcceptBlock, Reported
    <2>3. Abstract!Deliver
        BY <1>1, <1>3, <2>2 DEF Abstract!Deliver, Abstract!Whole
    <2> QED BY <2>3 DEF Abstract!FDNext
<1>6. UNCHANGED sink \/ \E b \in 1 .. TotalBlockCount :
         /\ ReceiverGetsData(b) /\ AcceptBlock(b)
         /\ ResolveData(WireBlock(b), lastInSequence, Window) = lastInSequence + 1
    <2>1. ASSUME NEW b \in 1 .. TotalBlockCount, ReceiverGetsData(b)
          PROVE  \/ UNCHANGED sink
                 \/ /\ AcceptBlock(b)
                    /\ ResolveData(WireBlock(b), lastInSequence, Window) = lastInSequence + 1
        BY <2>1 DEF ReceiverGetsData, ReAcknowledge, NoQuirks
    <2>2. (\E b \in 1 .. TotalBlockCount : DallyGetsData(b)) => UNCHANGED sink
        BY DEF DallyGetsData, DallyTurn
    <2>3. ReceiverTimesOut \/ ReceiverAborts \/ DallyGetsOther \/ DallyEnds => UNCHANGED sink
        BY DEF ReceiverTimesOut, ReceiverAborts, DallyGetsOther, DallyTurn, DallyEnds
    <2> QED BY <2>1, <2>2, <2>3 DEF ReceiverStep
<1> QED BY <1>4, <1>5, <1>6

(* The data plane implements FileDelivery: whatever the network does, what *)
(* the two endpoints show is an in-order delivery of the file.             *)
THEOREM ImplementsDelivery == NoQuirks /\ WrapSafe /\ Spec => ImplementsFileDelivery
<1> SUFFICES ASSUME NoQuirks, WrapSafe
             PROVE  Spec => ImplementsFileDelivery
    OBVIOUS
<1>1. Init => Abstract!FDInit
    BY InitRefines
<1>2. TransferInv /\ TransferInv' /\ [Next]_vars => [Abstract!FDNext]_(Abstract!fdVars)
    <2> SUFFICES ASSUME TransferInv, TransferInv', [Next]_vars
                 PROVE  [Abstract!FDNext]_(Abstract!fdVars)
        OBVIOUS
    <2>1. CASE SenderStep
        BY <2>1, SenderStepRefines
    <2>2. CASE ReceiverStep
        BY <2>2, ReceiverStepRefines
    <2>3. CASE UNCHANGED vars
        BY <2>3 DEF vars, senderVars, receiverVars, Abstract!fdVars, Reported
    <2> QED BY <2>1, <2>2, <2>3 DEF Next, Finished
<1>3. Spec => []TransferInv
    BY TransferInvariant
<1> QED BY <1>1, <1>2, <1>3, PTL DEF Spec, ImplementsFileDelivery, Abstract!FDSpec

(* Nothing but a timeout makes the sender send a block a second time: the  *)
(* sorcerer's apprentice cascade cannot start, on any network.             *)
THEOREM NoSorcerersApprentice ==
    ~RetransmitOnDuplicateAck /\ Spec => ResendOnlyOnTimeout
<1> SUFFICES ASSUME ~RetransmitOnDuplicateAck
             PROVE  Spec => ResendOnlyOnTimeout
    OBVIOUS
<1> DEFINE A == \A b \in 1 .. TotalBlockCount :
                    dataInFlight'[b] > dataInFlight[b] =>
                        b > highestSent \/ senderTimeouts' = senderTimeouts + 1
<1>1. TypeOK /\ [Next]_vars => [A]_vars
    <2> SUFFICES ASSUME TypeOK, Next PROVE A
        OBVIOUS
    <2>1. ASSUME NEW b \in 1 .. TotalBlockCount, dataInFlight'[b] > dataInFlight[b]
          PROVE  b > highestSent \/ senderTimeouts' = senderTimeouts + 1
        <3> DEFINE old == dataInFlight[b]
        <3>0. old \in Nat
            BY NetworkAssumption DEF TypeOK, NetworkTypeOK
        <3>1. old \in Nat /\ dataInFlight' # dataInFlight
            BY <2>1, <3>0
        <3>2. ASSUME NEW acked, SendNew(acked) PROVE b > highestSent
            BY <2>1, <3>1, <3>2 DEF SendNew, Transmit, TypeOK, NetworkTypeOK, SenderTypeOK
        <3>3. CASE SenderStep
            <4>1. ASSUME NEW a \in 0 .. TotalBlockCount, SenderGetsAck(a)
                  PROVE  b > highestSent
                BY <3>1, <3>2, <4>1 DEF SenderGetsAck, AckAdvances, AckIsDuplicate
            <4> QED BY <3>1, <3>2, <3>3, <4>1
                    DEF SenderStep, SenderStart, SenderTimesOut, SenderAborts, networkVars
        <3>4. ASSUME NEW c \in 1 .. TotalBlockCount, TakeData(c) PROVE FALSE
            BY <2>1, <3>4, NetworkAssumption DEF TakeData, TypeOK, NetworkTypeOK
        <3>5. CASE ReceiverStep
            BY <3>1, <3>4, <3>5
            DEF ReceiverStep, ReceiverGetsData, DallyGetsData, ReceiverTimesOut,
                ReceiverAborts, DallyGetsOther, DallyEnds, networkVars
        <3>6. CASE Finished
            BY <3>1, <3>6 DEF Finished, vars, networkVars
        <3> QED BY <3>3, <3>5, <3>6 DEF Next
    <2> QED BY <2>1
<1>2. Spec => []TypeOK
    BY TypeCorrect
<1> QED BY <1>1, <1>2, PTL DEF Spec, ResendOnlyOnTimeout


-----------------------------------------------------------------------------
(* The engine with its quirks.                                             *)

(* Every block kept is one the sender cut later in the file, and none is   *)
(* beyond the receiver's position.                                         *)
SkippingInv ==
    /\ QuirkOnlySkipsBlocks
    /\ \A i \in 1 .. Len(sink) : sink[i] <= lastInSequence

LEMMA SkippingKeeps ==
    ASSUME TypeOK, SkippingInv, NEW b \in 1 .. TotalBlockCount,
           b > lastInSequence, KeepsAs(b, b)
    PROVE  SkippingInv'
<1>1. /\ sink \in Seq(1 .. TotalBlockCount) /\ lastInSequence \in Nat
      /\ Len(sink) <= lastInSequence
      /\ \A i, j \in 1 .. Len(sink) : i < j => sink[i] < sink[j]
      /\ \A i \in 1 .. Len(sink) : sink[i] <= lastInSequence
    BY DEF TypeOK, ReceiverTypeOK, SkippingInv, QuirkOnlySkipsBlocks
<1>2. /\ sink' = Append(sink, b) /\ lastInSequence' = b
      /\ Len(sink') = Len(sink) + 1 /\ Len(sink) \in Nat
      /\ sink'[Len(sink) + 1] = b
      /\ \A i \in 1 .. Len(sink) : sink'[i] = sink[i]
    BY <1>1 DEF KeepsAs
<1>3. \A i \in 1 .. Len(sink) : sink[i] \in Nat
    BY <1>1, TotalBlockCountType
<1>4. \A i \in 1 .. Len(sink') : i \in 1 .. Len(sink) \/ i = Len(sink) + 1
    BY <1>2
<1>5. \A i \in 1 .. Len(sink') : sink'[i] <= lastInSequence'
    BY <1>1, <1>2, <1>3, <1>4, TotalBlockCountType
<1>6. ASSUME NEW i \in 1 .. Len(sink'), NEW j \in 1 .. Len(sink'), i < j
      PROVE  sink'[i] < sink'[j]
    <2>1. i \in 1 .. Len(sink)
        BY <1>2, <1>6
    <2>2. CASE j \in 1 .. Len(sink)
        BY <1>1, <1>2, <1>6, <2>1, <2>2
    <2>3. CASE j = Len(sink) + 1
        <3>1. sink[i] <= lastInSequence /\ sink[i] \in Nat
            BY <1>1, <1>3, <2>1
        <3> QED BY <1>1, <1>2, <2>1, <2>3, <3>1, TotalBlockCountType
    <2> QED BY <1>4, <2>2, <2>3
<1>7. Len(sink') <= lastInSequence'
    BY <1>1, <1>2, TotalBlockCountType
<1> QED BY <1>5, <1>6, <1>7 DEF SkippingInv, QuirkOnlySkipsBlocks

LEMMA NextSkippingInv ==
    ASSUME ChannelInv, PatienceInv, SkippingInv, WrapSafeAcrossGaps, [Next]_vars
    PROVE  ChannelInv' /\ PatienceInv' /\ SkippingInv'
<1> USE EngineAssumption
<1>1. TypeOK' /\ PatienceInv'
    BY NextTypeOK DEF ChannelInv
<1>2. WrapSafe
    BY NetworkAssumption, ModulusAssumption, TotalBlockCountType
    DEF WrapSafe, WrapSafeAcrossGaps
<1>3. lastInSequence \in Nat
    BY DEF ChannelInv, TypeOK, ReceiverTypeOK
<1>4. CASE SenderStep
    <2>1. WindowInv' /\ InFlightInv'
        BY <1>2, <1>4, SenderStepChannel
    <2>2. SkippingInv'
        BY <1>4, SenderStepFrame DEF receiverVars, SkippingInv, QuirkOnlySkipsBlocks
    <2> QED BY <1>1, <2>1, <2>2 DEF ChannelInv
<1>5. CASE ReceiverStep
    <2>1. UNCHANGED <<lastAcked, highestSent>>
        BY <1>5, ReceiverStepFrame DEF senderVars
    <2>2. ASSUME NEW b \in 1 .. TotalBlockCount,
                 TakeData(b), b > lastInSequence, b <= highestSent, KeepsAs(b, b)
          PROVE  WindowInv' /\ InFlightInv' /\ SkippingInv'
        <3>1. b \in Nat
            BY TotalBlockCountType
        <3>2. WindowInv' /\ InFlightInv'
            BY <2>1, <2>2, <3>1, KeepsChannel
        <3>3. SkippingInv'
            BY <2>2, SkippingKeeps DEF ChannelInv
        <3> QED BY <3>2, <3>3
    <2>3. ASSUME NEW b \in 1 .. TotalBlockCount, TakeData(b),
                 b = lastInSequence + 1, b <= highestSent, AcceptBlock(b)
          PROVE  WindowInv' /\ InFlightInv' /\ SkippingInv'
        <3>1. KeepsAs(b, b)
            BY <2>3 DEF AcceptBlock, KeepsAs
        <3>2. b > lastInSequence
            BY <1>3, <2>3
        <3> QED BY <2>2, <2>3, <3>1, <3>2
    <2>4. ASSUME NEW b \in 1 .. TotalBlockCount, TakeData(b),
                 ResolveData(WireBlock(b), lastInSequence, Window) > lastInSequence,
                 AcceptAcrossGap(b, ResolveData(WireBlock(b), lastInSequence, Window))
          PROVE  WindowInv' /\ InFlightInv' /\ SkippingInv'
        <3>1. /\ ResolveData(WireBlock(b), lastInSequence, Window) = b
              /\ b <= highestSent
            BY <2>4, GapIsUnderstood
        <3>2. KeepsAs(b, b)
            BY <2>4, <3>1 DEF AcceptAcrossGap, KeepsAs
        <3> QED BY <2>2, <2>4, <3>1, <3>2
    <2>5. ASSUME KeepsNothing
          PROVE  WindowInv' /\ InFlightInv' /\ SkippingInv'
        <3>1. WindowInv' /\ InFlightInv'
            BY <2>1, <2>5, KeepsNothingChannel
        <3>2. SkippingInv'
            BY <2>5 DEF KeepsNothing, SkippingInv, QuirkOnlySkipsBlocks
        <3> QED BY <3>1, <3>2
    <2> QED BY <1>1, <1>2, <1>5, <2>3, <2>4, <2>5, ReceiverStepCases DEF ChannelInv
<1>6. CASE UNCHANGED vars
    BY <1>1, <1>6 DEF vars, senderVars, receiverVars, networkVars, ChannelInv, WindowInv,
                      InFlightInv, SkippingInv, QuirkOnlySkipsBlocks
<1> QED BY <1>4, <1>5, <1>6 DEF Next, Finished

(* Whatever quirks are switched on, and their combination, the file the    *)
(* receiver keeps misses blocks but has none twice, out of order or of     *)
(* another position: accept_out_of_sequence_data corrupts a file only by   *)
(* leaving out what was in the gap.                                        *)
THEOREM QuirksOnlySkip == WrapSafeAcrossGaps /\ Spec => []QuirkOnlySkipsBlocks
<1> SUFFICES ASSUME WrapSafeAcrossGaps PROVE Spec => []QuirkOnlySkipsBlocks
    OBVIOUS
<1> DEFINE Inv == ChannelInv /\ PatienceInv /\ SkippingInv
<1>1. Init => Inv
    <2> SUFFICES ASSUME Init PROVE Inv
        OBVIOUS
    <2>1. TypeOK /\ PatienceInv /\ WindowInv /\ InFlightInv
        BY InitTransferInv DEF TransferInv
    <2>2. SkippingInv
        BY DEF Init, SkippingInv, QuirkOnlySkipsBlocks
    <2> QED BY <2>1, <2>2 DEF ChannelInv
<1>2. Inv /\ [Next]_vars => Inv'
    BY NextSkippingInv
<1>3. Inv => QuirkOnlySkipsBlocks
    BY DEF SkippingInv
<1> QED BY <1>1, <1>2, <1>3, PTL DEF Spec

-----------------------------------------------------------------------------
(* The transfer in time.                                                   *)

(* A step in time is a step of the transfer or leaves it alone.            *)
LEMMA TimedStepRefines == [TimedNext]_timedVars => [Next]_vars
<1> SUFFICES ASSUME [TimedNext]_timedVars PROVE [Next]_vars
    OBVIOUS
<1>1. CASE TimedStart \/ TimedSenderTimeout
    BY <1>1 DEF TimedStart, TimedSenderTimeout, Next, SenderStep
<1>2. ASSUME NEW a \in 0 .. TotalBlockCount, NEW d \in 0 .. Delay, TimedAck(a, d)
      PROVE  Next
    BY <1>2 DEF TimedAck, Next, SenderStep
<1>3. ASSUME NEW b \in 1 .. TotalBlockCount, NEW d \in 0 .. Delay,
             TimedData(b, d) \/ TimedDallyData(b, d)
      PROVE  Next
    BY <1>3 DEF TimedData, TimedDallyData, Next, ReceiverStep
<1>4. CASE TimedReceiverTimeout \/ TimedDallyEnd
    BY <1>4 DEF TimedReceiverTimeout, TimedDallyEnd, Next, ReceiverStep
<1>5. ASSUME NEW a, NEW d, LoseAck(a, d) \/ LoseData(a, d)
      PROVE  UNCHANGED vars
    BY <1>5 DEF LoseAck, LoseData
<1>6. CASE Tick \/ TimedFinished
    BY <1>6 DEF Tick, TimedFinished, Finished
<1>7. CASE UNCHANGED timedVars
    BY <1>7 DEF timedVars
<1> QED BY <1>1, <1>2, <1>3, <1>4, <1>5, <1>6, <1>7 DEF TimedNext

(* Whatever the timeouts, delays and losses, the timed transfer is a       *)
(* behaviour of DataTransfer.                                              *)
THEOREM TimedImplementsTransfer == TimedSpec => Spec
<1>1. TimedInit => Init
    BY DEF TimedInit
<1> QED BY <1>1, TimedStepRefines, PTL DEF TimedSpec, Spec

-----------------------------------------------------------------------------
(* Types of the clocks.                                                    *)

ClocksOK ==
    /\ senderClock \in 0 .. RetransmissionTimeout
    /\ receiverClock \in 0 .. RetransmissionTimeout \cup 0 .. DallyTimeout
    /\ dataDue \in [1 .. TotalBlockCount -> SUBSET (0 .. Delay)]
    /\ acksDue \in [0 .. TotalBlockCount -> SUBSET (0 .. Delay)]
    /\ dataLosses \in 0 .. MaxDataLosses
    /\ ackLosses \in 0 .. MaxAckLosses
    /\ inOrder \in BOOLEAN

LEMMA SendingType ==
    ASSUME NEW S, NEW due \in [S -> SUBSET (0 .. Delay)], NEW ids
    PROVE  Sending(due, ids) \in [S -> SUBSET (0 .. Delay)]
BY ClockAssumption DEF Sending

LEMMA WithoutType ==
    ASSUME NEW S, NEW due \in [S -> SUBSET (0 .. Delay)], NEW i \in S, NEW d
    PROVE  Without(due, i, d) \in [S -> SUBSET (0 .. Delay)]
BY DEF Without

LEMMA AgeingType ==
    ASSUME NEW S, NEW due \in [S -> SUBSET (0 .. Delay)],
           \A i \in DOMAIN due : 0 \notin due[i]
    PROVE  [i \in DOMAIN due |-> {d - 1 : d \in due[i]}] \in [S -> SUBSET (0 .. Delay)]
<1>1. ASSUME NEW i \in S PROVE {d - 1 : d \in due[i]} \in SUBSET (0 .. Delay)
    <2>1. ASSUME NEW d \in due[i] PROVE d - 1 \in 0 .. Delay
        <3>1. d \in 0 .. Delay /\ d # 0
            BY <2>1
        <3> QED BY <3>1, ClockAssumption
    <2> QED BY <2>1
<1> QED BY <1>1

LEMMA NextClocksOK ==
    ASSUME TypeOK, ClocksOK, [TimedNext]_timedVars
    PROVE  ClocksOK'
<1> USE ClockAssumption, TotalBlockCountType DEF ClocksOK, lossVars
<1>1. CASE TimedStart
    BY <1>1, SendingType DEF TimedStart
<1>2. ASSUME NEW a \in 0 .. TotalBlockCount, NEW d \in 0 .. Delay,
             TimedAck(a, d) \/ LoseAck(a, d)
      PROVE  ClocksOK'
    <2>1. acksDue' = Without(acksDue, a, d)
        BY <1>2 DEF TimedAck, LoseAck
    <2>2. acksDue' \in [0 .. TotalBlockCount -> SUBSET (0 .. Delay)]
        BY <2>1, WithoutType
    <2>3. CASE TimedAck(a, d)
        BY <2>2, <2>3, SendingType DEF TimedAck
    <2>4. CASE LoseAck(a, d)
        BY <2>2, <2>4 DEF LoseAck
    <2> QED BY <1>2, <2>3, <2>4
<1>3. CASE TimedSenderTimeout
    BY <1>3, SendingType DEF TimedSenderTimeout
<1>4. ASSUME NEW b \in 1 .. TotalBlockCount, NEW d \in 0 .. Delay,
             TimedData(b, d) \/ TimedDallyData(b, d) \/ LoseData(b, d)
      PROVE  ClocksOK'
    <2>1. dataDue' = Without(dataDue, b, d)
        BY <1>4 DEF TimedData, TimedDallyData, LoseData
    <2>2. dataDue' \in [1 .. TotalBlockCount -> SUBSET (0 .. Delay)]
        BY <2>1, WithoutType
    <2>3. CASE TimedData(b, d)
        BY <2>2, <2>3, SendingType DEF TimedData, RestartReceiver
    <2>4. CASE TimedDallyData(b, d)
        BY <2>2, <2>4, SendingType DEF TimedDallyData, RestartReceiver
    <2>5. CASE LoseData(b, d)
        BY <2>2, <2>5 DEF LoseData
    <2> QED BY <1>4, <2>3, <2>4, <2>5
<1>5. CASE TimedReceiverTimeout
    BY <1>5, SendingType DEF TimedReceiverTimeout, RestartReceiver
<1>6. CASE TimedDallyEnd
    BY <1>6 DEF TimedDallyEnd, clockVars
<1>7. CASE Tick
    <2>1. /\ dataDue' \in [1 .. TotalBlockCount -> SUBSET (0 .. Delay)]
          /\ acksDue' \in [0 .. TotalBlockCount -> SUBSET (0 .. Delay)]
        BY <1>7, AgeingType DEF Tick
    <2>2. senderClock' \in 0 .. RetransmissionTimeout
        BY <1>7 DEF Tick
    <2>3. receiverClock' \in 0 .. RetransmissionTimeout \cup 0 .. DallyTimeout
        BY <1>7 DEF Tick, ReceiverDone, TypeOK, ReceiverTypeOK, ReceiverStates
    <2> QED BY <1>7, <2>1, <2>2, <2>3 DEF Tick
<1>8. CASE TimedFinished
    BY <1>8 DEF TimedFinished, clockVars
<1>9. CASE UNCHANGED timedVars
    BY <1>9 DEF timedVars, clockVars
<1> QED BY <1>1, <1>2, <1>3, <1>4, <1>5, <1>6, <1>7, <1>8, <1>9 DEF TimedNext

(* Clocks, arrival times and loss counts stay in their ranges; in          *)
(* particular time never runs past a timeout or an arrival that is due.    *)
THEOREM TimedTypeCorrect == TimedSpec => []TimedTypeOK
<1>1. TimedInit => ClocksOK
    BY ClockAssumption DEF TimedInit, ClocksOK
<1>2. TypeOK /\ ClocksOK /\ [TimedNext]_timedVars => ClocksOK'
    BY NextClocksOK
<1>3. TimedSpec => []TypeOK
    BY TimedImplementsTransfer, TypeCorrect, PTL
<1>4. TypeOK /\ ClocksOK => TimedTypeOK
    BY DEF ClocksOK, TimedTypeOK
<1> QED BY <1>1, <1>2, <1>3, <1>4, PTL DEF TimedSpec

(* The timed transfer inherits the integrity of the received file.         *)
THEOREM TimedIntegrity == NoQuirks /\ WrapSafe /\ TimedSpec => []SinkIsPrefix
BY TimedImplementsTransfer, FileIntegrity, PTL

-----------------------------------------------------------------------------
(* No spurious timeout.                                                    *)

(* The datagrams in flight are those in ids, and all are due in d ticks.   *)
OnlyDue(due, ids, d) ==
    \A i \in DOMAIN due : due[i] = IF i \in ids THEN {d} ELSE {}

(* Before the sender starts; the receiver has waited Delay ticks at most.  *)
Opening ==
    /\ sender = "starting" /\ receiver = "receiving"
    /\ lastAcked = 0 /\ highestSent = 0 /\ lastInSequence = 0 /\ blocksSinceAck = 0
    /\ OnlyDue(dataDue, {}, 0) /\ OnlyDue(acksDue, {}, 0)
    /\ receiverClock >= RetransmissionTimeout - Delay

(* The rest of a window is under way, d ticks from the receiver; its first *)
(* blocks have been received.                                              *)
WindowUnderWay(d) ==
    /\ sender = "waiting" /\ receiver = "receiving"
    /\ lastAcked <= lastInSequence /\ lastInSequence < highestSent
    /\ highestSent = WindowEdge(lastAcked)
    /\ blocksSinceAck = lastInSequence - lastAcked
    /\ OnlyDue(dataDue, lastInSequence + 1 .. highestSent, d)
    /\ OnlyDue(acksDue, {}, d)
    /\ senderClock >= RetransmissionTimeout - Delay + d
    /\ receiverClock >= RetransmissionTimeout - 2 * Delay + d

(* The window has been received and its ACK is e ticks from the sender.    *)
AckUnderWay(e) ==
    /\ sender = "waiting"
    /\ lastAcked < highestSent /\ lastInSequence = highestSent
    /\ OnlyDue(dataDue, {}, e)
    /\ OnlyDue(acksDue, {highestSent}, e)
    /\ senderClock >= RetransmissionTimeout - 2 * Delay + e
    /\ \/ /\ receiver = "receiving"
          /\ highestSent < TotalBlockCount
          /\ blocksSinceAck = 0
          /\ receiverClock >= RetransmissionTimeout - Delay + e
       \/ /\ receiver \in {"dallying", "succeeded"}
          /\ highestSent = TotalBlockCount

(* The sender has its last ACK.                                            *)
Acknowledged ==
    /\ sender = "succeeded" /\ receiver \in {"dallying", "succeeded"}
    /\ OnlyDue(dataDue, {}, 0) /\ OnlyDue(acksDue, {}, 0)

(* The two endpoints take turns, and no time is lost.                      *)
InStep ==
    /\ senderTimeouts = 0 /\ receiverTimeouts = 0
    /\ \/ Opening
       \/ \E d \in 0 .. Delay : WindowUnderWay(d) \/ AckUnderWay(d)
       \/ Acknowledged

InStepInv == CleanNetwork => InStep

(* resolve_data_to_absolute finds the next block, whatever the modulus:    *)
(* it looks at the nearest index first.                                    *)
LEMMA NextBlockResolves ==
    ASSUME NEW last \in Nat
    PROVE  ResolveData(WireBlock(last + 1), last, Window) = last + 1
<1> USE EngineAssumption
<1> DEFINE wire     == WireBlock(last + 1)
           span     == IF Window >= 1 THEN Window ELSE 1
           backSpan == IF last <= span THEN last ELSE span
           ahead  == {o \in 1 .. span : WireBlock(last + o) = wire}
           behind == {o \in 0 .. backSpan : WireBlock(last - o) = wire}
<1>1. ResolveData(wire, last, Window) =
        IF ahead # {} THEN last + Min(ahead)
        ELSE IF behind # {} THEN last - Min(behind)
        ELSE 0
    BY DEF ResolveData
<1>2. 1 \in ahead /\ ahead \in SUBSET Nat /\ \A o \in ahead : o >= 1
    OBVIOUS
<1> HIDE DEF ahead, behind, wire
<1>3. Min(ahead) \in ahead /\ Min(ahead) <= 1
    BY <1>2, MinOfNaturals
<1>4. \A o \in ahead : o <= 1 => o = 1
    BY <1>2
<1>5. Min(ahead) = 1
    BY <1>3, <1>4, Zenon
<1> QED BY <1>1, <1>2, <1>5 DEF wire

(* resolve_ack_to_absolute finds the newest block in flight: it looks at   *)
(* the highest index first.                                                *)
LEMMA NewestAckResolves ==
    ASSUME NEW la \in Nat, NEW hs \in Nat, la < hs
    PROVE  ResolveAck(WireBlock(hs), la, hs) = hs
<1> DEFINE hits == {c \in la + 1 .. hs : WireBlock(c) = WireBlock(hs)}
<1>1. hs \in hits /\ hits \in SUBSET (0 .. hs)
    OBVIOUS
<1>2. ResolveAck(WireBlock(hs), la, hs) = Max(hits)
    BY <1>1 DEF ResolveAck
<1> HIDE DEF hits
<1>3. Max(hits) \in hits /\ Max(hits) >= hs
    BY <1>1, MaxOfNaturals
<1>4. \A c \in hits : c >= hs => c = hs
    BY <1>1
<1>5. Max(hits) = hs
    BY <1>3, <1>4, Zenon
<1> QED BY <1>2, <1>5

(* How the due times change: sending into an empty network, the first      *)
(* datagram arriving, time passing.                                        *)
LEMMA SendingOnly ==
    ASSUME NEW due, NEW ids, NEW d, OnlyDue(due, {}, d)
    PROVE  OnlyDue(Sending(due, ids), ids, Delay)
BY DEF OnlyDue, Sending

LEMMA WithoutOnly ==
    ASSUME NEW due, NEW ids, NEW d, NEW i \in DOMAIN due, OnlyDue(due, ids, d)
    PROVE  OnlyDue(Without(due, i, d), ids \ {i}, d)
BY DEF OnlyDue, Without

LEMMA AgeingOnly ==
    ASSUME NEW due, NEW ids, NEW d, OnlyDue(due, ids, d)
    PROVE  OnlyDue([i \in DOMAIN due |-> {e - 1 : e \in due[i]}], ids, d - 1)
BY DEF OnlyDue

LEMMA NoneDue ==
    ASSUME NEW due, NEW d, NEW e, OnlyDue(due, {}, d)
    PROVE  OnlyDue(due, {}, e)
BY DEF OnlyDue

(* When all are due at once, in-order delivery takes the first.            *)
LEMMA FirstArrives ==
    ASSUME NEW due, NEW first \in Int, NEW last \in Int, NEW c \in Nat, NEW i, NEW d,
           first .. last \subseteq DOMAIN due, DOMAIN due \subseteq Int,
           OnlyDue(due, first .. last, c), i \in DOMAIN due, Arrives(due, i, d), inOrder
    PROVE  i = first /\ d = c /\ first <= last
<1>1. i \in first .. last /\ d = c
    BY DEF OnlyDue, Arrives
<1>2. first \in DOMAIN due /\ c \in due[first]
    BY <1>1 DEF OnlyDue
<1>3. ~ (first < i)
    BY <1>1, <1>2 DEF Arrives
<1> QED BY <1>1, <1>3

-----------------------------------------------------------------------------
(* The facts about types that every step of the proof needs.               *)
InRange ==
    /\ lastAcked \in Nat /\ highestSent \in Nat /\ lastInSequence \in Nat
    /\ highestSent <= TotalBlockCount
    /\ senderClock \in Int /\ receiverClock \in Int
    /\ DOMAIN dataDue = 1 .. TotalBlockCount /\ DOMAIN acksDue = 0 .. TotalBlockCount
    /\ Window \in Nat \ {0} /\ TotalBlockCount \in Nat \ {0}
    /\ Delay \in Nat /\ RetransmissionTimeout \in Nat /\ 2 * Delay < RetransmissionTimeout
    /\ TotalBlocks = TotalBlockCount

LEMMA TypesInRange ==
    ASSUME TypeOK, ClocksOK, ~OmitTerminatingEmptyBlock, TimelyNetwork
    PROVE  InRange
<1>1. TotalBlocks = TotalBlockCount
    BY DEF TotalBlocks
<1>2. senderClock \in Int /\ receiverClock \in Int
    BY ClockAssumption DEF ClocksOK
<1> QED BY <1>1, <1>2, ClockAssumption, EngineAssumption, TotalBlockCountType
       DEF InRange, TypeOK, SenderTypeOK, ReceiverTypeOK, ClocksOK, TimelyNetwork

(* The sender begins: the first window is under way.                       *)
LEMMA StartInStep ==
    ASSUME InRange, InStep, TimedStart
    PROVE  InStep'
<1>1. /\ Opening /\ senderTimeouts = 0 /\ receiverTimeouts = 0
    BY DEF TimedStart, SenderStart, InStep, WindowUnderWay, AckUnderWay, Acknowledged
<1>2. /\ sender' = "waiting" /\ receiver' = "receiving"
      /\ lastAcked' = 0 /\ lastInSequence' = 0 /\ blocksSinceAck' = 0
      /\ senderTimeouts' = 0 /\ receiverTimeouts' = 0
      /\ senderClock' = RetransmissionTimeout /\ receiverClock' = receiverClock
      /\ acksDue' = acksDue
    BY <1>1 DEF TimedStart, SenderStart, Opening, receiverVars
<1>3. highestSent' = WindowEdge(0) /\ WindowEdge(0) \in Nat /\ WindowEdge(0) > 0
    BY <1>1 DEF TimedStart, SenderStart, SendNew, Opening, InRange, WindowEdge
<1>4. WindowEdge(lastAcked)' = WindowEdge(0)
    BY <1>2 DEF WindowEdge
<1>5. OnlyDue(dataDue', 1 .. highestSent', Delay)
    BY <1>1, SendingOnly DEF TimedStart, Opening
<1>6. OnlyDue(acksDue', {}, Delay)
    BY <1>1, <1>2, NoneDue DEF Opening
<1>7. /\ senderClock' >= RetransmissionTimeout - Delay + Delay
      /\ receiverClock' >= RetransmissionTimeout - 2 * Delay + Delay
    BY <1>1, <1>2 DEF Opening, InRange
<1>8. WindowUnderWay(Delay)'
    BY <1>2, <1>3, <1>4, <1>5, <1>6, <1>7 DEF WindowUnderWay
<1>9. Delay \in 0 .. Delay
    BY DEF InRange
<1> QED BY <1>2, <1>8, <1>9 DEF InStep

(* The ACK of a window arrives: the next window is under way, or the       *)
(* transfer is over.                                                       *)
LEMMA AckInStep ==
    ASSUME InRange, InStep, inOrder,
           NEW a \in 0 .. TotalBlockCount, NEW d \in 0 .. Delay, TimedAck(a, d)
    PROVE  InStep'
<1>0. sender = "waiting" /\ d \in acksDue[a] /\ a \in DOMAIN acksDue
    BY DEF TimedAck, SenderGetsAck, Arrives, InRange
<1>1. /\ AckUnderWay(d) /\ a = highestSent
      /\ senderTimeouts = 0 /\ receiverTimeouts = 0
    <2>1. PICK e \in 0 .. Delay : WindowUnderWay(e) \/ AckUnderWay(e)
        BY <1>0 DEF InStep, Opening, Acknowledged
    <2>2. AckUnderWay(e)
        BY <1>0, <2>1 DEF WindowUnderWay, OnlyDue
    <2>3. a = highestSent /\ d = e
        BY <1>0, <2>2 DEF AckUnderWay, OnlyDue
    <2> QED BY <2>2, <2>3 DEF InStep
<1>2. ResolveAck(WireBlock(a), lastAcked, highestSent) = highestSent
    BY <1>1, NewestAckResolves DEF AckUnderWay, InRange
<1>3. /\ AckAdvances(highestSent) /\ UNCHANGED receiverVars
      /\ senderClock' = RetransmissionTimeout /\ receiverClock' = receiverClock
      /\ acksDue' = Without(acksDue, a, d)
      /\ dataDue' = Sending(dataDue, highestSent + 1 .. highestSent')
    BY <1>1, <1>2 DEF TimedAck, SenderGetsAck, AckUnderWay, InRange
<1>4. /\ lastAcked' = highestSent /\ lastInSequence' = highestSent
      /\ senderTimeouts' = 0 /\ receiverTimeouts' = 0
    BY <1>1, <1>3 DEF AckAdvances, AckUnderWay, receiverVars
<1>5. OnlyDue(acksDue', {}, Delay) /\ OnlyDue(acksDue', {}, 0)
    <2>1. OnlyDue(acksDue', {highestSent} \ {highestSent}, d)
        BY <1>0, <1>1, <1>3, WithoutOnly DEF AckUnderWay
    <2>2. {highestSent} \ {highestSent} = {}
        OBVIOUS
    <2> QED BY <2>1, <2>2, NoneDue
<1>6. OnlyDue(dataDue', highestSent + 1 .. highestSent', Delay)
    BY <1>1, <1>3, SendingOnly DEF AckUnderWay
<1>7. CASE highestSent < TotalBlockCount
    <2>1. /\ sender' = "waiting" /\ receiver' = "receiving" /\ blocksSinceAck' = 0
          /\ receiverClock >= RetransmissionTimeout - Delay + d
        BY <1>0, <1>1, <1>3, <1>7 DEF AckUnderWay, InRange, AckAdvances, receiverVars
    <2>2. highestSent' = WindowEdge(highestSent) /\ highestSent' > highestSent
        BY <1>3, <1>7 DEF InRange, AckAdvances, SendNew, WindowEdge
    <2>3. WindowEdge(lastAcked)' = WindowEdge(highestSent)
        BY <1>4 DEF WindowEdge
    <2>4. /\ senderClock' >= RetransmissionTimeout - Delay + Delay
          /\ receiverClock' >= RetransmissionTimeout - 2 * Delay + Delay
        BY <1>3, <2>1 DEF InRange
    <2>5. WindowUnderWay(Delay)'
        <3>1. blocksSinceAck' = lastInSequence' - lastAcked' /\ lastAcked' <= lastInSequence'
            BY <1>4, <2>1 DEF InRange
        <3> QED BY <1>4, <1>5, <1>6, <2>1, <2>2, <2>3, <2>4, <3>1 DEF WindowUnderWay
    <2>6. Delay \in 0 .. Delay
        BY DEF InRange
    <2> QED BY <1>4, <2>5, <2>6 DEF InStep
<1>8. CASE highestSent = TotalBlockCount
    <2>1. /\ sender' = "succeeded" /\ highestSent' = highestSent
          /\ receiver' \in {"dallying", "succeeded"}
        BY <1>1, <1>3, <1>8 DEF AckUnderWay, InRange, AckAdvances, receiverVars
    <2>2. highestSent + 1 .. highestSent' = {}
        BY <2>1 DEF InRange
    <2>3. OnlyDue(dataDue', {}, 0)
        BY <1>6, <2>2, NoneDue
    <2> QED BY <1>4, <1>5, <2>1, <2>3 DEF InStep, Acknowledged
<1> QED BY <1>7, <1>8 DEF InRange

(* The next block of a window arrives: the rest of the window is still     *)
(* under way, or the block was the last and its ACK is.                    *)
LEMMA DataInStep ==
    ASSUME InRange, InStep, inOrder,
           NEW b \in 1 .. TotalBlockCount, NEW d \in 0 .. Delay, TimedData(b, d)
    PROVE  InStep'
<1>0. receiver = "receiving" /\ d \in dataDue[b] /\ b \in DOMAIN dataDue
    BY DEF TimedData, ReceiverGetsData, Arrives, InRange
<1>1. /\ WindowUnderWay(d)
      /\ senderTimeouts = 0 /\ receiverTimeouts = 0
      /\ b = lastInSequence + 1 /\ d \in Nat
    <2>1. PICK c \in 0 .. Delay : WindowUnderWay(c)
        BY <1>0 DEF InStep, Opening, AckUnderWay, Acknowledged, OnlyDue
    <2>2. lastInSequence + 1 .. highestSent \subseteq DOMAIN dataDue
        BY DEF InRange
    <2>3. b = lastInSequence + 1 /\ d = c
        BY <1>0, <2>1, <2>2, FirstArrives DEF WindowUnderWay, TimedData, InRange
    <2> QED BY <2>1, <2>3 DEF InStep, InRange
<1>2. ResolveData(WireBlock(b), lastInSequence, Window) = lastInSequence + 1
    BY <1>1, NextBlockResolves DEF InRange
<1>3. /\ AcceptBlock(b) /\ receiverTimeouts' = 0 /\ UNCHANGED senderVars
      /\ senderClock' = senderClock /\ RestartReceiver
      /\ dataDue' = Without(dataDue, b, d)
      /\ acksDue' = IF blocksSinceAck' = 0 \/ receiver' = "dallying"
                    THEN Sending(acksDue, {lastInSequence'})
                    ELSE acksDue
    <2>1. lastInSequence + 1 # 0 /\ ~ (lastInSequence + 1 > lastInSequence + 1)
        BY DEF InRange
    <2> QED BY <1>2, <2>1 DEF TimedData, ReceiverGetsData
<1>4. /\ sender' = "waiting" /\ lastAcked' = lastAcked /\ highestSent' = highestSent
      /\ senderTimeouts' = 0
      /\ lastInSequence' = lastInSequence + 1
    BY <1>1, <1>3 DEF WindowUnderWay, senderVars, AcceptBlock
<1>5. OnlyDue(dataDue', lastInSequence + 2 .. highestSent, d)
    <2>1. OnlyDue(dataDue', (lastInSequence + 1 .. highestSent) \ {b}, d)
        BY <1>0, <1>1, <1>3, WithoutOnly DEF WindowUnderWay
    <2>2. (lastInSequence + 1 .. highestSent) \ {b} = lastInSequence + 2 .. highestSent
        BY <1>1 DEF InRange
    <2> QED BY <2>1, <2>2
<1>6. /\ lastAcked <= lastInSequence /\ lastInSequence < highestSent
      /\ highestSent = WindowEdge(lastAcked)
      /\ blocksSinceAck = lastInSequence - lastAcked
      /\ OnlyDue(acksDue, {}, d)
      /\ senderClock >= RetransmissionTimeout - Delay + d
    BY <1>1 DEF WindowUnderWay
<1>7. OnlyDue(Sending(acksDue, {lastInSequence'}), {lastInSequence'}, Delay)
    BY <1>6, SendingOnly
<1>8. IsShort(b) <=> lastInSequence + 1 = TotalBlockCount
    BY <1>1, FinalBlockRule
<1>9. Delay \in 0 .. Delay /\ senderClock' >= RetransmissionTimeout - 2 * Delay + Delay
    BY <1>1, <1>3, <1>6 DEF InRange
<1>10. ASSUME lastInSequence + 1 = highestSent, acksDue' = Sending(acksDue, {lastInSequence'})
       PROVE  /\ lastAcked' < highestSent' /\ lastInSequence' = highestSent'
              /\ OnlyDue(dataDue', {}, Delay)
              /\ OnlyDue(acksDue', {highestSent'}, Delay)
    <2>1. lastInSequence + 2 .. highestSent = {}
        BY <1>10 DEF InRange
    <2>2. OnlyDue(dataDue', {}, Delay)
        BY <1>5, <2>1, NoneDue
    <2>3. lastAcked' < highestSent' /\ lastInSequence' = highestSent'
        BY <1>4, <1>6, <1>10 DEF InRange
    <2>4. OnlyDue(acksDue', {highestSent'}, Delay)
        BY <1>7, <1>10, <2>3
    <2> QED BY <2>2, <2>3, <2>4
<1>11. CASE IsShort(b)
    <2>1. receiver' = "dallying" /\ acksDue' = Sending(acksDue, {lastInSequence'})
        BY <1>3, <1>11 DEF AcceptBlock
    <2>2. lastInSequence + 1 = highestSent /\ highestSent = TotalBlockCount
        BY <1>6, <1>8, <1>11 DEF InRange
    <2>3. AckUnderWay(Delay)'
        BY <1>4, <1>9, <1>10, <2>1, <2>2 DEF AckUnderWay
    <2> QED BY <1>3, <1>4, <1>9, <2>3 DEF InStep
<1>12. CASE ~IsShort(b) /\ blocksSinceAck + 1 >= Window
    <2>1. /\ receiver' = "receiving" /\ blocksSinceAck' = 0
          /\ acksDue' = Sending(acksDue, {lastInSequence'})
          /\ receiverClock' = RetransmissionTimeout
        BY <1>0, <1>3, <1>6, <1>12 DEF AcceptBlock, RestartReceiver, InRange
    <2>2. lastInSequence + 1 = highestSent /\ highestSent < TotalBlockCount
        BY <1>6, <1>8, <1>12 DEF InRange, WindowEdge
    <2>3. receiverClock' >= RetransmissionTimeout - Delay + Delay
        BY <2>1 DEF InRange
    <2>4. AckUnderWay(Delay)'
        BY <1>4, <1>9, <1>10, <2>1, <2>2, <2>3 DEF AckUnderWay
    <2> QED BY <1>3, <1>4, <1>9, <2>4 DEF InStep
<1>13. CASE ~IsShort(b) /\ blocksSinceAck + 1 < Window
    <2>1. /\ receiver' = "receiving" /\ blocksSinceAck' = blocksSinceAck + 1
          /\ receiverClock' = RetransmissionTimeout
        BY <1>0, <1>3, <1>6, <1>13 DEF AcceptBlock, RestartReceiver, InRange
    <2>2. acksDue' = acksDue
        BY <1>3, <1>6, <2>1 DEF InRange
    <2>3. lastInSequence + 1 < highestSent
        BY <1>6, <1>8, <1>13 DEF InRange, WindowEdge
    <2>4. WindowEdge(lastAcked)' = WindowEdge(lastAcked)
        BY <1>4 DEF WindowEdge
    <2>5. /\ receiverClock' >= RetransmissionTimeout - 2 * Delay + d
          /\ senderClock' >= RetransmissionTimeout - Delay + d
          /\ lastAcked' <= lastInSequence' /\ lastInSequence' < highestSent'
          /\ blocksSinceAck' = lastInSequence' - lastAcked'
          /\ lastInSequence' + 1 = lastInSequence + 2
        BY <1>1, <1>3, <1>4, <1>6, <2>1, <2>3 DEF InRange
    <2>6. WindowUnderWay(d)'
        BY <1>4, <1>5, <1>6, <2>1, <2>2, <2>4, <2>5 DEF WindowUnderWay
    <2> QED BY <1>3, <1>4, <2>6 DEF InStep
<1> QED BY <1>3, <1>11, <1>12, <1>13 DEF AcceptBlock

(* Time passes: what is under way comes nearer by as much as the clocks    *)
(* run down.                                                               *)
LEMMA TickInStep ==
    ASSUME InRange, InStep, Tick
    PROVE  InStep'
<1>1. UNCHANGED vars
    BY DEF Tick
<1>2. /\ UNCHANGED <<sender, receiver, lastAcked, highestSent, lastInSequence>>
      /\ UNCHANGED <<blocksSinceAck, senderTimeouts, receiverTimeouts>>
      /\ WindowEdge(lastAcked)' = WindowEdge(lastAcked)
    BY <1>1 DEF vars, senderVars, receiverVars, WindowEdge
<1>3. CASE Opening
    <2>1. receiverClock' >= RetransmissionTimeout - Delay
        BY <1>3 DEF Opening, Tick, InRange, ReceiverDone
    <2>2. OnlyDue(dataDue', {}, 0) /\ OnlyDue(acksDue', {}, 0)
        BY <1>3, AgeingOnly, NoneDue DEF Opening, Tick
    <2> QED BY <1>2, <1>3, <2>1, <2>2 DEF Opening, InStep
<1>4. ASSUME NEW d \in 0 .. Delay, WindowUnderWay(d)
      PROVE  InStep'
    <2>1. d # 0
        <3>1. /\ lastInSequence + 1 \in DOMAIN dataDue
              /\ lastInSequence + 1 \in lastInSequence + 1 .. highestSent
            BY <1>4 DEF WindowUnderWay, InRange
        <3> QED BY <1>4, <3>1 DEF WindowUnderWay, OnlyDue, Tick
    <2>2. d - 1 \in 0 .. Delay /\ d \in Nat
        BY <2>1 DEF InRange
    <2>3. /\ OnlyDue(dataDue', lastInSequence + 1 .. highestSent, d - 1)
          /\ OnlyDue(acksDue', {}, d - 1)
        BY <1>4, AgeingOnly DEF WindowUnderWay, Tick
    <2>4. /\ senderClock' >= RetransmissionTimeout - Delay + (d - 1)
          /\ receiverClock' >= RetransmissionTimeout - 2 * Delay + (d - 1)
        BY <1>4, <2>2 DEF WindowUnderWay, Tick, InRange, ReceiverDone
    <2>5. WindowUnderWay(d - 1)'
        BY <1>2, <1>4, <2>3, <2>4 DEF WindowUnderWay
    <2> QED BY <1>2, <2>2, <2>5 DEF InStep
<1>5. ASSUME NEW e \in 0 .. Delay, AckUnderWay(e)
      PROVE  InStep'
    <2>1. e # 0
        <3>1. highestSent \in DOMAIN acksDue
            BY DEF InRange
        <3> QED BY <1>5, <3>1 DEF AckUnderWay, OnlyDue, Tick
    <2>2. e - 1 \in 0 .. Delay /\ e \in Nat
        BY <2>1 DEF InRange
    <2>3. /\ OnlyDue(dataDue', {}, e - 1)
          /\ OnlyDue(acksDue', {highestSent}, e - 1)
        BY <1>5, AgeingOnly DEF AckUnderWay, Tick
    <2>4. /\ senderClock' >= RetransmissionTimeout - 2 * Delay + (e - 1)
          /\ \/ /\ receiver = "receiving"
                /\ highestSent < TotalBlockCount
                /\ blocksSinceAck = 0
                /\ receiverClock' >= RetransmissionTimeout - Delay + (e - 1)
             \/ /\ receiver \in {"dallying", "succeeded"}
                /\ highestSent = TotalBlockCount
        BY <1>5, <2>2 DEF AckUnderWay, Tick, InRange, ReceiverDone
    <2>5. AckUnderWay(e - 1)'
        BY <1>2, <1>5, <2>3, <2>4 DEF AckUnderWay
    <2> QED BY <1>2, <2>2, <2>5 DEF InStep
<1>6. CASE Acknowledged
    <2>1. OnlyDue(dataDue', {}, 0) /\ OnlyDue(acksDue', {}, 0)
        BY <1>6, AgeingOnly, NoneDue DEF Acknowledged, Tick
    <2> QED BY <1>2, <1>6, <2>1 DEF Acknowledged, InStep
<1> QED BY <1>3, <1>4, <1>5, <1>6 DEF InStep

(* No clock of an endpoint that waits has run out.                         *)
LEMMA ClocksRun ==
    ASSUME InRange, InStep
    PROVE  /\ sender = "waiting" => senderClock > 0
           /\ receiver = "receiving" => receiverClock > 0
BY DEF InRange, InStep, Opening, WindowUnderWay, AckUnderWay, Acknowledged

(* What is not under way cannot be lost or arrive.                         *)
LEMMA NothingElseInStep ==
    ASSUME InRange, InStep
    PROVE  /\ receiver # "receiving" =>
                  \A b \in 1 .. TotalBlockCount : dataDue[b] = {}
           /\ sender # "waiting" =>
                  \A a \in 0 .. TotalBlockCount : acksDue[a] = {}
BY DEF InRange, InStep, Opening, WindowUnderWay, AckUnderWay, Acknowledged, OnlyDue

LEMMA NextInStep ==
    ASSUME TypeOK, ClocksOK, ~OmitTerminatingEmptyBlock, TimelyNetwork,
           InStepInv, [TimedNext]_timedVars
    PROVE  InStepInv'
<1> SUFFICES ASSUME CleanNetwork' PROVE InStep'
    BY DEF InStepInv
<1>1. InRange
    BY TypesInRange
<1>2. CleanNetwork /\ UNCHANGED <<dataLosses, ackLosses>>
    <2>1. dataLosses \in Nat /\ ackLosses \in Nat
        BY ClockAssumption DEF ClocksOK
    <2>2. inOrder' = inOrder
        BY DEF TimedNext, TimedStart, TimedAck, LoseAck, TimedSenderTimeout, TimedData,
               TimedDallyData, LoseData, TimedReceiverTimeout, TimedDallyEnd, Tick,
               TimedFinished, timedVars, clockVars, lossVars
    <2>3. dataLosses' \in {dataLosses, dataLosses + 1} /\ ackLosses' \in {ackLosses, ackLosses + 1}
        BY DEF TimedNext, TimedStart, TimedAck, LoseAck, TimedSenderTimeout, TimedData,
               TimedDallyData, LoseData, TimedReceiverTimeout, TimedDallyEnd, Tick,
               TimedFinished, timedVars, clockVars, lossVars
    <2>4. inOrder' /\ dataLosses' = 0 /\ ackLosses' = 0
        BY DEF CleanNetwork
    <2> QED BY <2>1, <2>2, <2>3, <2>4 DEF CleanNetwork
<1>3. InStep /\ inOrder
    BY <1>2 DEF InStepInv, CleanNetwork
<1>4. CASE TimedStart
    BY <1>1, <1>3, <1>4, StartInStep
<1>5. ASSUME NEW a \in 0 .. TotalBlockCount, NEW d \in 0 .. Delay, TimedAck(a, d)
      PROVE  InStep'
    BY <1>1, <1>3, <1>5, AckInStep
<1>6. ASSUME NEW a \in 0 .. TotalBlockCount, NEW d \in 0 .. Delay, LoseAck(a, d)
      PROVE  FALSE
    <2>1. ackLosses \in Nat
        BY ClockAssumption DEF ClocksOK
    <2>2. SenderDone /\ d \in acksDue[a]
        BY <1>2, <1>6, <2>1 DEF LoseAck
    <2> QED BY <1>1, <1>3, <2>2, NothingElseInStep DEF SenderDone
<1>7. ASSUME NEW b \in 1 .. TotalBlockCount, NEW d \in 0 .. Delay, TimedData(b, d)
      PROVE  InStep'
    BY <1>1, <1>3, <1>7, DataInStep
<1>8. ASSUME NEW b \in 1 .. TotalBlockCount, NEW d \in 0 .. Delay,
             TimedDallyData(b, d) \/ LoseData(b, d)
      PROVE  FALSE
    <2>1. dataLosses \in Nat
        BY ClockAssumption DEF ClocksOK
    <2>2. receiver # "receiving" /\ d \in dataDue[b]
        BY <1>2, <1>8, <2>1
        DEF TimedDallyData, DallyGetsData, DallyTurn, Arrives, LoseData, ReceiverDone
    <2> QED BY <1>1, <1>3, <2>2, NothingElseInStep
<1>9. CASE TimedSenderTimeout \/ TimedReceiverTimeout
    BY <1>1, <1>3, <1>9, ClocksRun
    DEF TimedSenderTimeout, SenderTimesOut, TimedReceiverTimeout, ReceiverTimesOut, InRange
<1>10. CASE TimedDallyEnd
    <2>1. /\ receiver = "dallying" /\ receiver' = "succeeded"
          /\ UNCHANGED <<sender, lastAcked, highestSent, lastInSequence>>
          /\ UNCHANGED <<senderTimeouts, receiverTimeouts, senderClock, dataDue, acksDue>>
        BY <1>10 DEF TimedDallyEnd, DallyEnds, senderVars, networkVars, clockVars
    <2>2. CASE Acknowledged
        BY <1>3, <2>1, <2>2 DEF Acknowledged, InStep
    <2>3. ASSUME NEW e \in 0 .. Delay, AckUnderWay(e) PROVE InStep'
        <3>1. AckUnderWay(e)'
            BY <2>1, <2>3 DEF AckUnderWay
        <3> QED BY <1>3, <2>1, <3>1 DEF InStep
    <2> QED BY <1>3, <2>1, <2>2, <2>3 DEF InStep, Opening, WindowUnderWay
<1>11. CASE Tick
    BY <1>1, <1>3, <1>11, TickInStep
<1>12. CASE TimedFinished \/ UNCHANGED timedVars
    <2>1. /\ UNCHANGED vars /\ UNCHANGED clockVars
        BY <1>12 DEF TimedFinished, Finished, timedVars
    <2> QED BY <1>3, <2>1
           DEF vars, senderVars, receiverVars, clockVars, InStep, Opening, WindowUnderWay,
               AckUnderWay, Acknowledged, WindowEdge
<1> QED BY <1>4, <1>5, <1>6, <1>7, <1>8, <1>9, <1>10, <1>11, <1>12 DEF TimedNext

(* On a network that loses and reorders nothing and takes less than half a *)
(* retransmission timeout each way, run_data_sender and run_data_receiver  *)
(* never time out, for every file, window and modulus, even one so small   *)
(* that block numbers repeat within a window.  TLC finds the timeout when  *)
(* the round trip takes exactly the retransmission timeout.                *)
THEOREM TimelyNetworkNeverTimesOut ==
    ~OmitTerminatingEmptyBlock /\ TimelyNetwork /\ TimedSpec => []NoSpuriousTimeout
<1> SUFFICES ASSUME ~OmitTerminatingEmptyBlock, TimelyNetwork
             PROVE  TimedSpec => []NoSpuriousTimeout
    OBVIOUS
<1>1. TimedInit => ClocksOK /\ InStepInv
    <2> SUFFICES ASSUME TimedInit PROVE ClocksOK /\ InStep
        BY DEF InStepInv
    <2>1. OnlyDue(dataDue, {}, 0) /\ OnlyDue(acksDue, {}, 0)
        BY DEF TimedInit, OnlyDue
    <2>2. receiverClock >= RetransmissionTimeout - Delay
        BY ClockAssumption DEF TimedInit
    <2> QED BY <2>1, <2>2, ClockAssumption DEF TimedInit, Init, ClocksOK, InStep, Opening
<1>2. TypeOK /\ ClocksOK /\ InStepInv /\ [TimedNext]_timedVars => ClocksOK' /\ InStepInv'
    BY NextClocksOK, NextInStep
<1>3. TimedSpec => []TypeOK
    BY TimedImplementsTransfer, TypeCorrect, PTL
<1>4. InStepInv => NoSpuriousTimeout
    BY DEF InStepInv, InStep, NoSpuriousTimeout
<1> QED BY <1>1, <1>2, <1>3, <1>4, PTL DEF TimedSpec
=============================================================================
