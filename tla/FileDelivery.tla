---------------------------- MODULE FileDelivery ----------------------------
(***************************************************************************)
(* What one TFTP transfer promises, whatever the network does: the target  *)
(* collects the blocks of the source's file, in order, without a hole, a   *)
(* repetition or a foreign block; an endpoint reports success only when    *)
(* the target holds the whole file; an endpoint that has not yet           *)
(* succeeded may fail, but a target that holds the whole file may not      *)
(* (it only lingers to answer retransmissions, and then succeeds).         *)
(***************************************************************************)
EXTENDS Integers, Sequences

CONSTANT TotalBlocks    \* blocks in the file, the terminating one included

VARIABLES
    delivered,  \* the blocks the target has accepted, by index in the file
    source,     \* what the sending endpoint reports
    target      \* what the receiving endpoint reports

fdVars == <<delivered, source, target>>

Outcomes == {"running", "succeeded", "failed"}

Whole == Len(delivered) = TotalBlocks

FDInit ==
    /\ delivered = << >>
    /\ source = "running"
    /\ target = "running"

Deliver ==
    /\ target = "running"
    /\ ~Whole
    /\ delivered' = Append(delivered, Len(delivered) + 1)
    /\ UNCHANGED <<source, target>>

SourceSucceeds ==
    /\ source = "running"
    /\ Whole
    /\ source' = "succeeded"
    /\ UNCHANGED <<delivered, target>>

SourceFails ==
    /\ source = "running"
    /\ source' = "failed"
    /\ UNCHANGED <<delivered, target>>

TargetSucceeds ==
    /\ target = "running"
    /\ Whole
    /\ target' = "succeeded"
    /\ UNCHANGED <<delivered, source>>

TargetFails ==
    /\ target = "running"
    /\ ~Whole
    /\ target' = "failed"
    /\ UNCHANGED <<delivered, source>>

FDNext ==
    \/ Deliver
    \/ SourceSucceeds
    \/ SourceFails
    \/ TargetSucceeds
    \/ TargetFails

FDSpec == FDInit /\ [][FDNext]_fdVars
=============================================================================
