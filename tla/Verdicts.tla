------------------------------ MODULE Verdicts ------------------------------
(***************************************************************************)
(* How the test cases of src/src/runner/test_registry.cpp judge what       *)
(* drive_transfer brings back.  A judge is the list of its rules in the    *)
(* order the code tries them; the first that applies decides.              *)
(*                                                                         *)
(* A result abstracts DriveResult to what the judges read: setupFailed,    *)
(* watchdog, completed, unsupported, error (0 when none was reported),     *)
(* integrity, and of the observer shortBlock, freshTid and retransmitted.  *)
(***************************************************************************)
EXTENDS Naturals, Sequences, FiniteSetsExt

Kinds == {"byte_exact", "churn", "final_block", "file_not_found", "file_exists",
          "access_violation", "malformed", "stray_tid", "fresh_tid", "apprentice",
          "sweep", "blackout"}
DeliveryKinds == {"byte_exact", "churn", "final_block", "malformed", "stray_tid"}
Outcomes == {"Pass", "Fail", "Skipped"}
Severities == {"Critical", "Major", "Minor", "Info"}
FileNotFound == 1
FileAlreadyExists == 6

(* The fields of a MetricRecord that a judge decides.                      *)
Verdict(outcome, severity) ==
    [outcome |-> outcome, severity |-> severity,
     integrityViolation |-> FALSE, ungraceful |-> FALSE]
Passed(severity) == Verdict("Pass", severity)
Failed(severity) == Verdict("Fail", severity)
SkippedAs(severity) == Verdict("Skipped", severity)
Corrupted(severity) == [Failed(severity) EXCEPT !.integrityViolation = TRUE]
Hung(severity) == [Failed(severity) EXCEPT !.ungraceful = TRUE]

FirstOf(rules) == rules[Min({i \in DOMAIN rules : rules[i][1]})][2]

ByteExact(r) == r.completed /\ r.integrity = "Match"
Corrupt(r) == r.completed /\ r.integrity = "Mismatch"

(* A plausible bug: a transfer that reports success is believed.           *)
TrustTheClient(r, severity) == FirstOf(<<
    <<r.unsupported,               SkippedAs(severity)>>,
    <<r.setupFailed \/ r.watchdog, Hung(severity)>>,
    <<r.completed,                 Passed(severity)>>,
    <<TRUE,                        Failed(severity)>> >>)

JudgeByteExact(r, severity) == FirstOf(<<
    <<r.unsupported,               SkippedAs(severity)>>,
    <<r.setupFailed \/ r.watchdog, Hung(severity)>>,
    <<Corrupt(r),                  Corrupted("Critical")>>,
    <<~r.completed,                Failed(severity)>>,
    <<~ByteExact(r),               Corrupted(severity)>>,
    <<TRUE,                        Passed(severity)>> >>)

FinalBlockRule(r, severity) == FirstOf(<<
    <<r.watchdog \/ r.setupFailed,    Hung(severity)>>,
    <<~r.shortBlock,                  Failed("Critical")>>,
    <<r.completed /\ ~ByteExact(r),   Corrupted(severity)>>,
    <<~r.completed,                   Failed(severity)>>,
    <<TRUE,                           Passed(severity)>> >>)

JudgeFileNotFound(r, severity) == FirstOf(<<
    <<r.watchdog,              Hung(severity)>>,
    <<r.error = FileNotFound,  Passed(severity)>>,
    <<~r.completed,            Passed("Minor")>>,
    <<TRUE,                    Failed(severity)>> >>)

JudgeFileExists(r, severity) == FirstOf(<<
    <<r.watchdog,                   Hung(severity)>>,
    <<r.error = FileAlreadyExists,  Passed(severity)>>,
    <<TRUE,                         Passed("Minor")>> >>)

JudgeAccessViolation(r, severity) == FirstOf(<<
    <<r.watchdog,   Hung(severity)>>,
    <<~r.completed, Passed(severity)>>,
    <<TRUE,         Failed("Critical")>> >>)

(* illegal_opcode and malformed_packet.                                    *)
JudgeMalformed(r, severity) == FirstOf(<<
    <<r.watchdog,   Hung(severity)>>,
    <<ByteExact(r), Passed(severity)>>,
    <<TRUE,         Failed(severity)>> >>)

JudgeStrayTid(r, severity) == FirstOf(<<
    <<r.watchdog,   Hung(severity)>>,
    <<ByteExact(r), Passed(severity)>>,
    <<TRUE,         Failed("Critical")>> >>)

JudgeFreshTid(r, severity) ==
    IF r.freshTid THEN Passed(severity) ELSE Failed(severity)

SorcerersApprentice(r, severity) == FirstOf(<<
    <<r.watchdog,       Hung(severity)>>,
    <<~r.retransmitted, Passed(severity)>>,
    <<TRUE,             Failed("Critical")>> >>)

(* resilience_sweep and integrity_under_corruption: a transfer that did    *)
(* not complete is a clean failure, which passes.                          *)
JudgeSweep(r, severity) == FirstOf(<<
    <<Corrupt(r), Corrupted("Critical")>>,
    <<r.watchdog, Hung(severity)>>,
    <<TRUE,       Passed(severity)>> >>)

JudgeBlackout(r, severity) ==
    IF r.watchdog THEN Hung(severity) ELSE Passed(severity)

Judge(kind, r, severity) ==
    CASE kind \in {"byte_exact", "churn"} -> JudgeByteExact(r, severity)
      [] kind = "final_block"      -> FinalBlockRule(r, severity)
      [] kind = "file_not_found"   -> JudgeFileNotFound(r, severity)
      [] kind = "file_exists"      -> JudgeFileExists(r, severity)
      [] kind = "access_violation" -> JudgeAccessViolation(r, severity)
      [] kind = "malformed"        -> JudgeMalformed(r, severity)
      [] kind = "stray_tid"        -> JudgeStrayTid(r, severity)
      [] kind = "fresh_tid"        -> JudgeFreshTid(r, severity)
      [] kind = "apprentice"       -> SorcerersApprentice(r, severity)
      [] kind = "sweep"            -> JudgeSweep(r, severity)
      [] kind = "blackout"         -> JudgeBlackout(r, severity)

(* H-03 collapses its iterations into one record: all must have passed.    *)
Collapse(verdicts, severity) ==
    IF \A i \in DOMAIN verdicts : verdicts[i].outcome = "Pass"
    THEN Passed(severity) ELSE Failed(severity)
=============================================================================
