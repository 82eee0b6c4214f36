---------------------------- MODULE MCLostBlock ----------------------------
(***************************************************************************)
(* TimedTransfer with a history variable that remembers whether the        *)
(* receiver saw a gap and said so, to ask whether a lost block is ever     *)
(* sent again.                                                             *)
(***************************************************************************)
EXTENDS TimedTransfer

VARIABLE gapSeen    \* the receiver acknowledged a block because a later one came in

(* The step in which the receiver drops a block from beyond a gap.         *)
DropsAcrossGap ==
    /\ receiver = "receiving"
    /\ \E b \in lastInSequence + 2 .. TotalBlockCount : ReceiverGetsData(b)

InitGap == TimedInit /\ gapSeen = FALSE

NextGap == TimedNext /\ gapSeen' = (gapSeen \/ DropsAcrossGap)

SpecGap == InitGap /\ [][NextGap]_<<timedVars, gapSeen>>

(* A lost block is sent again, at the latest by the sender's timeout: when *)
(* the receiver has reported the gap, it does not run out of patience      *)
(* while the sender has resent nothing (the comment on run_data_receiver,  *)
(* after RFC 7440 section 4, and A-30 and E-03 of the conformance matrix). *)
LostBlockIsResent ==
    gapSeen /\ receiver = "timed_out" /\ sender = "waiting" => senderTimeouts > 0
=============================================================================
