--------------------------- MODULE MCDataTransfer ---------------------------
(***************************************************************************)
(* DataTransfer for TLC.  The configurations of this module give the       *)
(* constants of one instance each: a window without wraparound, block      *)
(* numbers that wrap around, and the engine with its quirks switched on.   *)
(***************************************************************************)
EXTENDS DataTransfer

(* Without the terminating empty block the receiver of an exact multiple   *)
(* never sees the end of the transfer (EngineQuirks): it always gives up,  *)
(* however well the network behaves, and the defect cannot hide.           *)
MissingFinalBlockIsFatal == <>(receiver \in {"timed_out", "aborted"})
=============================================================================
