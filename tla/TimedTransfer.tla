--------------------------- MODULE TimedTransfer ---------------------------
(***************************************************************************)
(* DataTransfer in real time.  A timeout happens when the socket's receive *)
(* timeout has run out and not before: RetransmissionTimeout ticks after   *)
(* the last datagram was received or the last timeout (every receive_from  *)
(* call starts the full timeout anew), DallyTimeout ticks while dallying.  *)
(* A datagram arrives Delay ticks after it was sent, or up to Jitter ticks *)
(* earlier, unless it is one of the few the network loses; inOrder says    *)
(* whether datagrams may overtake each other.  Two things due at the same  *)
(* tick, a timeout and a datagram for instance, happen in either order.    *)
(*                                                                         *)
(* Every step but the passing of time and a loss is a step of DataTransfer *)
(* (a lost datagram stays there as one that is never delivered), so that   *)
(* every safety property proved there holds here.                          *)
(***************************************************************************)
EXTENDS DataTransfer

CONSTANTS
    RetransmissionTimeout,  \* EngineConfig::retransmission_timeout, in ticks
    DallyTimeout,           \* the 150 ms of run_data_receiver, in ticks
    Delay,                  \* the longest time a datagram is under way
    Jitter,                 \* how much earlier it may arrive
    MaxDataLosses,          \* how many DATA datagrams the network loses
    MaxAckLosses            \* how many ACKs it loses

ASSUME ClockAssumption ==
    /\ RetransmissionTimeout \in Nat \ {0}
    /\ DallyTimeout \in Nat \ {0}
    /\ Delay \in Nat
    /\ Jitter \in 0 .. Delay
    /\ MaxDataLosses \in Nat
    /\ MaxAckLosses \in Nat

VARIABLES
    senderClock,    \* ticks until the sender's receive_from times out
    receiverClock,  \* ticks until the receiver's receive_from times out
    dataDue,        \* for each block, when its copies in flight are due
    acksDue,        \* for each ACK, when its copies in flight are due
    dataLosses,     \* DATA datagrams lost so far
    ackLosses,      \* ACKs lost so far
    inOrder         \* no datagram overtakes another; chosen once for all

lossVars == <<dataLosses, ackLosses, inOrder>>
clockVars == <<senderClock, receiverClock, dataDue, acksDue, lossVars>>
timedVars == <<vars, clockVars>>

TimedTypeOK ==
    /\ TypeOK
    /\ senderClock \in 0 .. RetransmissionTimeout
    /\ receiverClock \in 0 .. RetransmissionTimeout \cup 0 .. DallyTimeout
    /\ dataDue \in [1 .. TotalBlockCount -> SUBSET (0 .. Delay)]
    /\ acksDue \in [0 .. TotalBlockCount -> SUBSET (0 .. Delay)]
    /\ dataLosses \in 0 .. MaxDataLosses
    /\ ackLosses \in 0 .. MaxAckLosses
    /\ inOrder \in BOOLEAN

TimedInit ==
    /\ Init
    /\ senderClock = RetransmissionTimeout
    /\ receiverClock = RetransmissionTimeout
    /\ dataDue = [b \in 1 .. TotalBlockCount |-> {}]
    /\ acksDue = [a \in 0 .. TotalBlockCount |-> {}]
    /\ dataLosses = 0
    /\ ackLosses = 0
    /\ inOrder \in BOOLEAN

-----------------------------------------------------------------------------
(* The datagrams in flight, with the copies in ids sent just now.          *)
Sending(due, ids) ==
    [i \in DOMAIN due |-> IF i \in ids THEN due[i] \cup {Delay} ELSE due[i]]

(* A copy of datagram i, due in d ticks, that may arrive now.              *)
Arrives(due, i, d) ==
    /\ d \in due[i]
    /\ d <= Jitter
    /\ inOrder => \A j \in DOMAIN due : j < i => \A e \in due[j] : e > d

Without(due, i, d) == [due EXCEPT ![i] = @ \ {d}]

(* The receive timeout in force in the receiver's next receive_from.       *)
RestartReceiver ==
    receiverClock' = IF receiver' = "dallying" THEN DallyTimeout
                     ELSE RetransmissionTimeout

(* Steps of run_data_sender; each ends in a new receive_from.              *)
TimedStart ==
    /\ SenderStart
    /\ senderClock' = RetransmissionTimeout
    /\ dataDue' = Sending(dataDue, 1 .. highestSent')
    /\ UNCHANGED <<receiverClock, acksDue, lossVars>>

TimedAck(a, d) ==
    /\ Arrives(acksDue, a, d)
    /\ SenderGetsAck(a)
    /\ senderClock' = RetransmissionTimeout
    /\ acksDue' = Without(acksDue, a, d)
    /\ dataDue' = Sending(dataDue, highestSent + 1 .. highestSent')
    /\ UNCHANGED <<receiverClock, lossVars>>

TimedSenderTimeout ==
    /\ senderClock = 0
    /\ SenderTimesOut
    /\ senderClock' = RetransmissionTimeout
    /\ dataDue' = IF sender' = "waiting"
                  THEN Sending(dataDue, lastAcked + 1 .. highestSent)
                  ELSE dataDue
    /\ UNCHANGED <<receiverClock, acksDue, lossVars>>

(* Steps of run_data_receiver.  An accepted block leaves blocksSinceAck    *)
(* above 0 exactly when it is not acknowledged at once.                    *)
TimedData(b, d) ==
    /\ Arrives(dataDue, b, d)
    /\ ReceiverGetsData(b)
    /\ RestartReceiver
    /\ dataDue' = Without(dataDue, b, d)
    /\ acksDue' = IF blocksSinceAck' = 0 \/ receiver' = "dallying"
                  THEN Sending(acksDue, {lastInSequence'})
                  ELSE acksDue
    /\ UNCHANGED <<senderClock, lossVars>>

TimedReceiverTimeout ==
    /\ receiverClock = 0
    /\ ReceiverTimesOut
    /\ RestartReceiver
    /\ acksDue' = IF receiver' = "receiving"
                  THEN Sending(acksDue, {lastInSequence})
                  ELSE acksDue
    /\ UNCHANGED <<senderClock, dataDue, lossVars>>

TimedDallyData(b, d) ==
    /\ Arrives(dataDue, b, d)
    /\ DallyGetsData(b)
    /\ RestartReceiver
    /\ dataDue' = Without(dataDue, b, d)
    /\ acksDue' = Sending(acksDue, {lastInSequence})
    /\ UNCHANGED <<senderClock, lossVars>>

TimedDallyEnd ==
    /\ receiverClock = 0
    /\ DallyEnds
    /\ UNCHANGED clockVars

-----------------------------------------------------------------------------
(* The network loses a datagram, or delivers it to a socket that its owner *)
(* has closed.                                                             *)
LoseData(b, d) ==
    /\ d \in dataDue[b]
    /\ \/ dataLosses < MaxDataLosses /\ dataLosses' = dataLosses + 1
       \/ ReceiverDone /\ d = 0 /\ UNCHANGED dataLosses
    /\ dataDue' = Without(dataDue, b, d)
    /\ UNCHANGED <<vars, senderClock, receiverClock, acksDue, ackLosses, inOrder>>

LoseAck(a, d) ==
    /\ d \in acksDue[a]
    /\ \/ ackLosses < MaxAckLosses /\ ackLosses' = ackLosses + 1
       \/ SenderDone /\ d = 0 /\ UNCHANGED ackLosses
    /\ acksDue' = Without(acksDue, a, d)
    /\ UNCHANGED <<vars, senderClock, receiverClock, dataDue, dataLosses, inOrder>>

(* Time passes unless something is due now.  The sender starts when the    *)
(* receiver's last word of the handshake (OACK or ACK 0) has arrived, at   *)
(* most Delay ticks after the receiver began to wait.                      *)
Tick ==
    /\ sender = "waiting" => senderClock > 0
    /\ receiver \in {"receiving", "dallying"} => receiverClock > 0
    /\ \A b \in DOMAIN dataDue : 0 \notin dataDue[b]
    /\ \A a \in DOMAIN acksDue : 0 \notin acksDue[a]
    /\ sender = "starting" => receiverClock > RetransmissionTimeout - Delay
    /\ ~(SenderDone /\ ReceiverDone)
    /\ senderClock' = IF sender = "waiting" THEN senderClock - 1 ELSE senderClock
    /\ receiverClock' = IF ReceiverDone THEN receiverClock ELSE receiverClock - 1
    /\ dataDue' = [b \in DOMAIN dataDue |-> {d - 1 : d \in dataDue[b]}]
    /\ acksDue' = [a \in DOMAIN acksDue |-> {d - 1 : d \in acksDue[a]}]
    /\ UNCHANGED <<vars, lossVars>>

TimedFinished == Finished /\ UNCHANGED clockVars

TimedNext ==
    \/ TimedStart
    \/ \E a \in 0 .. TotalBlockCount, d \in 0 .. Delay : TimedAck(a, d) \/ LoseAck(a, d)
    \/ TimedSenderTimeout
    \/ \E b \in 1 .. TotalBlockCount, d \in 0 .. Delay :
          TimedData(b, d) \/ TimedDallyData(b, d) \/ LoseData(b, d)
    \/ TimedReceiverTimeout
    \/ TimedDallyEnd
    \/ Tick
    \/ TimedFinished

TimedSpec == TimedInit /\ [][TimedNext]_timedVars

(* Time passes, and what is due happens.                                   *)
FairTimedSpec == TimedSpec /\ WF_timedVars(TimedNext)

-----------------------------------------------------------------------------
CleanNetwork == inOrder /\ dataLosses = 0 /\ ackLosses = 0

(* A datagram there and one back take less than a retransmission timeout.  *)
TimelyNetwork == 2 * Delay < RetransmissionTimeout

(* As long as the network loses and reorders nothing and answers within    *)
(* the retransmission timeout, neither endpoint times out: the ACK clock   *)
(* of the window (blocks_since_ack, SendNew) never leaves both sides       *)
(* waiting for each other.                                                 *)
NoSpuriousTimeout == CleanNetwork => senderTimeouts = 0 /\ receiverTimeouts = 0

(* On a network that keeps the order, lost ACKs alone do not keep the file *)
(* from arriving: the sender's retransmissions and the receiver's prods    *)
(* bring a transfer back in step before either gives up.                   *)
FileArrives == inOrder => <>(dataLosses > 0 \/ receiver = "succeeded")

(* After a lost final ACK the dally still answers the sender: a sender     *)
(* never gives up on a receiver that has the whole file (the comments on   *)
(* run_data_receiver and on its dally loop).                               *)
FinalAckIsRepaired == ~(sender = "timed_out" /\ lastInSequence = TotalBlockCount)
=============================================================================
