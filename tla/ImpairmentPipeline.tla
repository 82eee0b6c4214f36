------------------------- MODULE ImpairmentPipeline -------------------------
(***************************************************************************)
(* The impairment pipeline of src/src/net/impairments.cpp: what the proxy  *)
(* does to one datagram.  The pipeline keeps a state (two Gilbert-Elliott  *)
(* channels, a count of DATA packets, a token bucket) that every datagram  *)
(* of every session shares.  The draws of the seeded generator are         *)
(* nondeterministic, so a stage is an operator that returns the set of its *)
(* possible outcomes.                                                      *)
(*                                                                         *)
(* Probabilities are per cent.  Time is counted in ticks (the code's       *)
(* milliseconds), and the throttle's rate in bytes per tick.               *)
(***************************************************************************)
EXTENDS Integers

CONSTANT TicksPerSecond   \* how many ticks the token bucket may save up

ASSUME TicksAssumption == TicksPerSecond \in Nat \ {0}

Directions == {"ClientToServer", "ServerToClient"}
CorruptionTargets == {"AnyByte", "OpcodeField", "BlockNumber", "DataPayload"}

(* ImpairmentConfig; a throttle rate of 0 stands for throttle_enabled off. *)
ImpairmentConfig ==
  [uniformLoss: 0..100, gilbertElliott: BOOLEAN, goodToBad: 0..100,
   badToGood: 0..100, lossInGood: 0..100, lossInBad: 0..100,
   duplication: 0..100, reorder: 0..100, reorderExtraDelay: Nat,
   fixedDelay: Nat, jitter: Nat, corruption: 0..100,
   target: CorruptionTargets, throttle: Nat,
   blackout: BOOLEAN, blackoutAfter: Nat]

PipelineState ==
  [bad: [Directions -> BOOLEAN], data: Nat, bucket: Int, refilled: Nat]

FreshPipeline ==
  [bad |-> [d \in Directions |-> FALSE], data |-> 0, bucket |-> 0, refilled |-> 0]

(* A draw with the given probability. *)
Bernoulli(probability) ==
  IF probability <= 0 THEN {FALSE}
  ELSE IF probability >= 100 THEN {TRUE} ELSE BOOLEAN

-----------------------------------------------------------------------------
(* The loss stages: uniform loss first; otherwise the channel of this      *)
(* direction moves, and its new state decides.                             *)
NextBad(cfg, bad) ==
  IF bad THEN {~back : back \in Bernoulli(cfg.badToGood)}
         ELSE Bernoulli(cfg.goodToBad)

DecideLoss(cfg, bad) ==
  LET Burst(b) == Bernoulli(IF b THEN cfg.lossInBad ELSE cfg.lossInGood)
      Spared   == IF cfg.gilbertElliott
                  THEN UNION {{[lost |-> l, bad |-> b] : l \in Burst(b)}
                               : b \in NextBad(cfg, bad)}
                  ELSE {[lost |-> FALSE, bad |-> bad]}
  IN  UNION {IF u THEN {[lost |-> TRUE, bad |-> bad]} ELSE Spared
              : u \in Bernoulli(cfg.uniformLoss)}

(* The byte maybe_corrupt flips a bit of; an index past the end flips none. *)
TargetBytes(target, size) ==
  CASE target = "OpcodeField" -> 0..1
    [] target = "BlockNumber" -> 2..3
    [] target = "DataPayload" -> IF size > 4 THEN 4..(size - 1) ELSE {size - 1}
    [] target = "AnyByte"     -> 0..(size - 1)

MaybeCorrupt(cfg, size) ==
  IF size = 0 THEN {FALSE}
  ELSE {c \in BOOLEAN :
          \E flips \in Bernoulli(cfg.corruption), i \in TargetBytes(cfg.target, size) :
              c = (flips /\ i < size)}

(* The token bucket: refill, cap at one second of traffic, charge.         *)
Smaller(a, b) == IF a <= b THEN a ELSE b

(* A plausible bug: the bucket saves up without end.                       *)
ChargedUncapped(cfg, p, size, now) ==
  p.bucket + (now - p.refilled) * cfg.throttle - size

ChargedBucket(cfg, p, size, now) ==
  Smaller(p.bucket + (now - p.refilled) * cfg.throttle,
          cfg.throttle * TicksPerSecond) - size

ThrottleDelay(cfg, bucket) ==
  IF cfg.throttle = 0 \/ bucket >= 0 THEN 0 ELSE (-bucket) \div cfg.throttle

(* What happens to a datagram the loss stages spare: it is counted if it   *)
(* is DATA, perhaps corrupted, delayed, held back and duplicated (the copy *)
(* follows one tick later with the same bytes and is not charged).         *)
Survives(cfg, p, size, isData, now) ==
  LET bucket == IF cfg.throttle = 0 THEN p.bucket
                ELSE ChargedBucket(cfg, p, size, now)
      after  == [p EXCEPT !.data = IF isData THEN @ + 1 ELSE @,
                          !.bucket = bucket,
                          !.refilled = IF cfg.throttle = 0 THEN @ ELSE now]
      Delays == {cfg.fixedDelay + j + ThrottleDelay(cfg, bucket)
                   + (IF held THEN cfg.reorderExtraDelay ELSE 0)
                   : j \in 0..cfg.jitter, held \in Bernoulli(cfg.reorder)}
  IN  {[state |-> after, dropped |-> FALSE, corrupted |-> c, delay |-> d,
        copies |-> IF twice THEN {0, 1} ELSE {0}]
        : c \in MaybeCorrupt(cfg, size), d \in Delays,
          twice \in Bernoulli(cfg.duplication)}

Discarded(p) ==
  [state |-> p, dropped |-> TRUE, corrupted |-> FALSE, delay |-> 0, copies |-> {}]

(* A plausible bug: one DATA packet too many before the blackout.          *)
InBlackoutLate(cfg, p) == cfg.blackout /\ p.data > cfg.blackoutAfter

InBlackout(cfg, p) == cfg.blackout /\ p.data >= cfg.blackoutAfter

(* process: the outcomes of one datagram.                                  *)
Process(cfg, p, direction, size, isData, now) ==
  IF InBlackout(cfg, p) THEN {Discarded(p)}
  ELSE UNION {LET q == [p EXCEPT !.bad[direction] = o.bad]
              IN  IF o.lost THEN {Discarded(q)}
                  ELSE Survives(cfg, q, size, isData, now)
              : o \in DecideLoss(cfg, p.bad[direction])}
=============================================================================
