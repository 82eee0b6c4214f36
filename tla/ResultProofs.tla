---------------------------- MODULE ResultProofs ----------------------------
(***************************************************************************)
(* Proofs about how the result of a transfer is judged (Verdicts), about   *)
(* what MetricsStore::load makes of a file to which a line is appended,    *)
(* and about what the reports say of the records (Scorecard).              *)
(***************************************************************************)
EXTENDS Verdicts, MetricsStore, Scorecard, NaturalSets

-----------------------------------------------------------------------------
(* The first rule that applies decides, whatever comes after it.           *)
LEMMA FirstDecides ==
    ASSUME NEW rules, NEW n \in Nat, DOMAIN rules = 1 .. n,
           NEW k \in 1 .. n, rules[k][1], \A i \in 1 .. k - 1 : ~rules[i][1]
    PROVE  FirstOf(rules) = rules[k][2]
<1> DEFINE applying == {i \in DOMAIN rules : rules[i][1]}
<1>1. k \in applying /\ applying \in SUBSET Nat /\ \A i \in applying : i >= k
  OBVIOUS
<1> HIDE DEF applying
<1>2. Min(applying) \in applying /\ Min(applying) <= k
  BY <1>1, MinOfNaturals
<1>3. \A i \in applying : i <= k => i = k
  BY <1>1
<1>4. Min(applying) = k
  BY <1>2, <1>3, Zenon
<1> QED  BY <1>4 DEF FirstOf, applying

LEMMA FirstOf3 ==
    ASSUME NEW rules, DOMAIN rules = 1 .. 3, rules[3][1]
    PROVE  FirstOf(rules) =
             IF rules[1][1] THEN rules[1][2]
             ELSE IF rules[2][1] THEN rules[2][2] ELSE rules[3][2]
<1>1. ASSUME NEW k \in 1 .. 3, rules[k][1], \A i \in 1 .. k - 1 : ~rules[i][1]
      PROVE  FirstOf(rules) = rules[k][2]
  BY <1>1, FirstDecides
<1>2. CASE rules[1][1]
  BY <1>1, <1>2
<1>3. CASE ~rules[1][1] /\ rules[2][1]
  BY <1>1, <1>3
<1>4. CASE ~rules[1][1] /\ ~rules[2][1]
  BY <1>1, <1>4
<1> QED  BY <1>2, <1>3, <1>4

LEMMA FirstOf4 ==
    ASSUME NEW rules, DOMAIN rules = 1 .. 4, rules[4][1]
    PROVE  FirstOf(rules) =
             IF rules[1][1] THEN rules[1][2]
             ELSE IF rules[2][1] THEN rules[2][2]
             ELSE IF rules[3][1] THEN rules[3][2] ELSE rules[4][2]
<1>1. ASSUME NEW k \in 1 .. 4, rules[k][1], \A i \in 1 .. k - 1 : ~rules[i][1]
      PROVE  FirstOf(rules) = rules[k][2]
  BY <1>1, FirstDecides
<1>2. CASE rules[1][1]
  BY <1>1, <1>2
<1>3. CASE ~rules[1][1] /\ rules[2][1]
  BY <1>1, <1>3
<1>4. CASE ~rules[1][1] /\ ~rules[2][1] /\ rules[3][1]
  BY <1>1, <1>4
<1>5. CASE ~rules[1][1] /\ ~rules[2][1] /\ ~rules[3][1]
  BY <1>1, <1>5
<1> QED  BY <1>2, <1>3, <1>4, <1>5

LEMMA FirstOf5 ==
    ASSUME NEW rules, DOMAIN rules = 1 .. 5, rules[5][1]
    PROVE  FirstOf(rules) =
             IF rules[1][1] THEN rules[1][2]
             ELSE IF rules[2][1] THEN rules[2][2]
             ELSE IF rules[3][1] THEN rules[3][2]
             ELSE IF rules[4][1] THEN rules[4][2] ELSE rules[5][2]
<1>1. ASSUME NEW k \in 1 .. 5, rules[k][1], \A i \in 1 .. k - 1 : ~rules[i][1]
      PROVE  FirstOf(rules) = rules[k][2]
  BY <1>1, FirstDecides
<1>2. CASE rules[1][1]
  BY <1>1, <1>2
<1>3. CASE ~rules[1][1] /\ rules[2][1]
  BY <1>1, <1>3
<1>4. CASE ~rules[1][1] /\ ~rules[2][1] /\ rules[3][1]
  BY <1>1, <1>4
<1>5. CASE ~rules[1][1] /\ ~rules[2][1] /\ ~rules[3][1] /\ rules[4][1]
  BY <1>1, <1>5
<1>6. CASE ~rules[1][1] /\ ~rules[2][1] /\ ~rules[3][1] /\ ~rules[4][1]
  BY <1>1, <1>6
<1> QED  BY <1>2, <1>3, <1>4, <1>5, <1>6

LEMMA FirstOf6 ==
    ASSUME NEW rules, DOMAIN rules = 1 .. 6, rules[6][1]
    PROVE  FirstOf(rules) =
             IF rules[1][1] THEN rules[1][2]
             ELSE IF rules[2][1] THEN rules[2][2]
             ELSE IF rules[3][1] THEN rules[3][2]
             ELSE IF rules[4][1] THEN rules[4][2]
             ELSE IF rules[5][1] THEN rules[5][2] ELSE rules[6][2]
<1>1. ASSUME NEW k \in 1 .. 6, rules[k][1], \A i \in 1 .. k - 1 : ~rules[i][1]
      PROVE  FirstOf(rules) = rules[k][2]
  BY <1>1, FirstDecides
<1>2. CASE rules[1][1]
  BY <1>1, <1>2
<1>3. CASE ~rules[1][1] /\ rules[2][1]
  BY <1>1, <1>3
<1>4. CASE ~rules[1][1] /\ ~rules[2][1] /\ rules[3][1]
  BY <1>1, <1>4
<1>5. CASE ~rules[1][1] /\ ~rules[2][1] /\ ~rules[3][1] /\ rules[4][1]
  BY <1>1, <1>5
<1>6. CASE ~rules[1][1] /\ ~rules[2][1] /\ ~rules[3][1] /\ ~rules[4][1] /\ rules[5][1]
  BY <1>1, <1>6
<1>7. CASE ~rules[1][1] /\ ~rules[2][1] /\ ~rules[3][1] /\ ~rules[4][1] /\ ~rules[5][1]
  BY <1>1, <1>7
<1> QED  BY <1>2, <1>3, <1>4, <1>5, <1>6, <1>7

(* What a verdict of each constructor says.                                *)
LEMMA OutcomesOfVerdicts ==
    ASSUME NEW severity
    PROVE  /\ Passed(severity).outcome = "Pass" /\ Failed(severity).outcome = "Fail"
           /\ SkippedAs(severity).outcome = "Skipped"
           /\ Corrupted(severity).outcome = "Fail" /\ Hung(severity).outcome = "Fail"
BY DEF Passed, Failed, SkippedAs, Corrupted, Hung, Verdict

(* What any judge owes to the transfer it judges.                          *)
Deserved(kind, r, outcome) ==
    /\ outcome \in Outcomes
    /\ outcome = "Pass" /\ kind \in DeliveryKinds => ByteExact(r) /\ ~r.watchdog
    /\ Corrupt(r) /\ kind \in DeliveryKinds \cup {"sweep"} => outcome # "Pass"
    /\ r.watchdog /\ kind # "fresh_tid" => outcome # "Pass"
    /\ r.unsupported /\ kind = "byte_exact" => outcome = "Skipped"

LEMMA JudgesDeserve ==
    ASSUME NEW kind \in Kinds, NEW r, NEW severity
    PROVE  Deserved(kind, r, Judge(kind, r, severity).outcome)
<1> DEFINE verdict == Judge(kind, r, severity)
<1>1. ~(Corrupt(r) /\ ByteExact(r))
  BY DEF Corrupt, ByteExact
<1>2. CASE kind \in {"byte_exact", "churn"}
  <2> DEFINE hung == r.setupFailed \/ r.watchdog
         inexact == ~ByteExact(r)
         incomplete == ~r.completed
  <2> DEFINE rules == << <<r.unsupported, SkippedAs(severity)>>,
                         <<hung, Hung(severity)>>,
                         <<Corrupt(r), Corrupted("Critical")>>,
                         <<incomplete, Failed(severity)>>,
                         <<inexact, Corrupted(severity)>>,
                         <<TRUE, Passed(severity)>> >>
  <2>1. verdict = FirstOf(rules)
    BY <1>2 DEF Judge, JudgeByteExact
  <2> HIDE DEF hung, inexact, incomplete
  <2>2. /\ DOMAIN rules = 1 .. 6
        /\ (rules[1][1] <=> r.unsupported) /\ rules[1][2] = SkippedAs(severity)
        /\ (rules[2][1] <=> hung) /\ rules[2][2] = Hung(severity)
        /\ (rules[3][1] <=> Corrupt(r)) /\ rules[3][2] = Corrupted("Critical")
        /\ (rules[4][1] <=> incomplete) /\ rules[4][2] = Failed(severity)
        /\ (rules[5][1] <=> inexact) /\ rules[5][2] = Corrupted(severity)
        /\ (rules[6][1] <=> TRUE) /\ rules[6][2] = Passed(severity)
    OBVIOUS
  <2> HIDE DEF rules
  <2> QED  BY <1>1, <1>2, <2>1, <2>2, FirstOf6, OutcomesOfVerdicts
          DEF Deserved, Outcomes, DeliveryKinds, hung, inexact, incomplete
<1>3. CASE kind = "final_block"
  <2> DEFINE altered == r.completed /\ ~ByteExact(r)
         hung == r.watchdog \/ r.setupFailed
         noShortBlock == ~r.shortBlock
         incomplete == ~r.completed
  <2> DEFINE rules == << <<hung, Hung(severity)>>,
                         <<noShortBlock, Failed("Critical")>>,
                         <<altered, Corrupted(severity)>>,
                         <<incomplete, Failed(severity)>>,
                         <<TRUE, Passed(severity)>> >>
  <2>1. verdict = FirstOf(rules)
    BY <1>3 DEF Judge, FinalBlockRule
  <2> HIDE DEF altered, hung, noShortBlock, incomplete
  <2>2. /\ DOMAIN rules = 1 .. 5
        /\ (rules[1][1] <=> hung) /\ rules[1][2] = Hung(severity)
        /\ (rules[2][1] <=> noShortBlock) /\ rules[2][2] = Failed("Critical")
        /\ (rules[3][1] <=> altered) /\ rules[3][2] = Corrupted(severity)
        /\ (rules[4][1] <=> incomplete) /\ rules[4][2] = Failed(severity)
        /\ (rules[5][1] <=> TRUE) /\ rules[5][2] = Passed(severity)
    OBVIOUS
  <2> HIDE DEF rules
  <2> QED  BY <1>1, <1>3, <2>1, <2>2, FirstOf5, OutcomesOfVerdicts
          DEF Deserved, Outcomes, DeliveryKinds, altered, hung, noShortBlock, incomplete
<1>4. CASE kind = "file_not_found"
  <2> DEFINE expected == r.error = FileNotFound
         incomplete == ~r.completed
  <2> DEFINE rules == << <<r.watchdog, Hung(severity)>>,
                         <<expected, Passed(severity)>>,
                         <<incomplete, Passed("Minor")>>,
                         <<TRUE, Failed(severity)>> >>
  <2>1. verdict = FirstOf(rules)
    BY <1>4 DEF Judge, JudgeFileNotFound
  <2> HIDE DEF expected, incomplete
  <2>2. /\ DOMAIN rules = 1 .. 4
        /\ (rules[1][1] <=> r.watchdog) /\ rules[1][2] = Hung(severity)
        /\ (rules[2][1] <=> expected) /\ rules[2][2] = Passed(severity)
        /\ (rules[3][1] <=> incomplete) /\ rules[3][2] = Passed("Minor")
        /\ (rules[4][1] <=> TRUE) /\ rules[4][2] = Failed(severity)
    OBVIOUS
  <2> HIDE DEF rules
  <2> QED  BY <1>4, <2>1, <2>2, FirstOf4, OutcomesOfVerdicts
          DEF Deserved, Outcomes, DeliveryKinds, expected, incomplete
<1>5. CASE kind = "file_exists"
  <2> DEFINE expected == r.error = FileAlreadyExists
  <2> DEFINE rules == << <<r.watchdog, Hung(severity)>>,
                         <<expected, Passed(severity)>>,
                         <<TRUE, Passed("Minor")>> >>
  <2>1. verdict = FirstOf(rules)
    BY <1>5 DEF Judge, JudgeFileExists
  <2> HIDE DEF expected
  <2>2. /\ DOMAIN rules = 1 .. 3
        /\ (rules[1][1] <=> r.watchdog) /\ rules[1][2] = Hung(severity)
        /\ (rules[2][1] <=> expected) /\ rules[2][2] = Passed(severity)
        /\ (rules[3][1] <=> TRUE) /\ rules[3][2] = Passed("Minor")
    OBVIOUS
  <2> HIDE DEF rules
  <2> QED  BY <1>5, <2>1, <2>2, FirstOf3, OutcomesOfVerdicts
          DEF Deserved, Outcomes, DeliveryKinds, expected
<1>6. CASE kind = "access_violation"
  <2> DEFINE incomplete == ~r.completed
  <2> DEFINE rules == << <<r.watchdog, Hung(severity)>>,
                         <<incomplete, Passed(severity)>>,
                         <<TRUE, Failed("Critical")>> >>
  <2>1. verdict = FirstOf(rules)
    BY <1>6 DEF Judge, JudgeAccessViolation
  <2> HIDE DEF incomplete
  <2>2. /\ DOMAIN rules = 1 .. 3
        /\ (rules[1][1] <=> r.watchdog) /\ rules[1][2] = Hung(severity)
        /\ (rules[2][1] <=> incomplete) /\ rules[2][2] = Passed(severity)
        /\ (rules[3][1] <=> TRUE) /\ rules[3][2] = Failed("Critical")
    OBVIOUS
  <2> HIDE DEF rules
  <2> QED  BY <1>6, <2>1, <2>2, FirstOf3, OutcomesOfVerdicts
          DEF Deserved, Outcomes, DeliveryKinds, incomplete
<1>7. CASE kind = "malformed"
  <2> DEFINE rules == << <<r.watchdog, Hung(severity)>>,
                         <<ByteExact(r), Passed(severity)>>,
                         <<TRUE, Failed(severity)>> >>
  <2>1. verdict = FirstOf(rules)
    BY <1>7 DEF Judge, JudgeMalformed
  <2>2. /\ DOMAIN rules = 1 .. 3
        /\ (rules[1][1] <=> r.watchdog) /\ rules[1][2] = Hung(severity)
        /\ (rules[2][1] <=> ByteExact(r)) /\ rules[2][2] = Passed(severity)
        /\ (rules[3][1] <=> TRUE) /\ rules[3][2] = Failed(severity)
    OBVIOUS
  <2> HIDE DEF rules
  <2> QED  BY <1>1, <1>7, <2>1, <2>2, FirstOf3, OutcomesOfVerdicts
          DEF Deserved, Outcomes, DeliveryKinds
<1>8. CASE kind = "stray_tid"
  <2> DEFINE rules == << <<r.watchdog, Hung(severity)>>,
                         <<ByteExact(r), Passed(severity)>>,
                         <<TRUE, Failed("Critical")>> >>
  <2>1. verdict = FirstOf(rules)
    BY <1>8 DEF Judge, JudgeStrayTid
  <2>2. /\ DOMAIN rules = 1 .. 3
        /\ (rules[1][1] <=> r.watchdog) /\ rules[1][2] = Hung(severity)
        /\ (rules[2][1] <=> ByteExact(r)) /\ rules[2][2] = Passed(severity)
        /\ (rules[3][1] <=> TRUE) /\ rules[3][2] = Failed("Critical")
    OBVIOUS
  <2> HIDE DEF rules
  <2> QED  BY <1>1, <1>8, <2>1, <2>2, FirstOf3, OutcomesOfVerdicts
          DEF Deserved, Outcomes, DeliveryKinds
<1>9. CASE kind = "fresh_tid"
  BY <1>9, OutcomesOfVerdicts DEF Deserved, Outcomes, DeliveryKinds, Judge, JudgeFreshTid
<1>10. CASE kind = "apprentice"
  <2> DEFINE noRepeat == ~r.retransmitted
  <2> DEFINE rules == << <<r.watchdog, Hung(severity)>>,
                         <<noRepeat, Passed(severity)>>,
                         <<TRUE, Failed("Critical")>> >>
  <2>1. verdict = FirstOf(rules)
    BY <1>10 DEF Judge, SorcerersApprentice
  <2> HIDE DEF noRepeat
  <2>2. /\ DOMAIN rules = 1 .. 3
        /\ (rules[1][1] <=> r.watchdog) /\ rules[1][2] = Hung(severity)
        /\ (rules[2][1] <=> noRepeat) /\ rules[2][2] = Passed(severity)
        /\ (rules[3][1] <=> TRUE) /\ rules[3][2] = Failed("Critical")
    OBVIOUS
  <2> HIDE DEF rules
  <2> QED  BY <1>10, <2>1, <2>2, FirstOf3, OutcomesOfVerdicts
          DEF Deserved, Outcomes, DeliveryKinds, noRepeat
<1>11. CASE kind = "sweep"
  <2> DEFINE rules == << <<Corrupt(r), Corrupted("Critical")>>,
                         <<r.watchdog, Hung(severity)>>,
                         <<TRUE, Passed(severity)>> >>
  <2>1. verdict = FirstOf(rules)
    BY <1>11 DEF Judge, JudgeSweep
  <2>2. /\ DOMAIN rules = 1 .. 3
        /\ (rules[1][1] <=> Corrupt(r)) /\ rules[1][2] = Corrupted("Critical")
        /\ (rules[2][1] <=> r.watchdog) /\ rules[2][2] = Hung(severity)
        /\ (rules[3][1] <=> TRUE) /\ rules[3][2] = Passed(severity)
    OBVIOUS
  <2> HIDE DEF rules
  <2> QED  BY <1>11, <2>1, <2>2, FirstOf3, OutcomesOfVerdicts DEF Deserved, Outcomes, DeliveryKinds
<1>12. CASE kind = "blackout"
  BY <1>12, OutcomesOfVerdicts DEF Deserved, Outcomes, DeliveryKinds, Judge, JudgeBlackout
<1> QED  BY <1>2, <1>3, <1>4, <1>5, <1>6, <1>7, <1>8, <1>9, <1>10, <1>11, <1>12 DEF Kinds

(* The severities of a verdict's constructors, and of the first rule.      *)
LEMMA GradesOfVerdicts ==
    ASSUME NEW severity
    PROVE  /\ Passed(severity).severity = severity /\ Failed(severity).severity = severity
           /\ SkippedAs(severity).severity = severity
           /\ Corrupted(severity).severity = severity /\ Hung(severity).severity = severity
BY DEF Passed, Failed, SkippedAs, Corrupted, Hung, Verdict

LEMMA FirstOfGrades ==
    ASSUME NEW rules, DOMAIN rules \in SUBSET Nat,
           \A k \in DOMAIN rules : rules[k][2].severity \in Severities,
           NEW last \in DOMAIN rules, rules[last][1]
    PROVE  FirstOf(rules).severity \in Severities
<1> DEFINE applying == {i \in DOMAIN rules : rules[i][1]}
<1>1. applying # {} /\ applying \in SUBSET Nat /\ applying \in SUBSET DOMAIN rules
  OBVIOUS
<1>2. Min(applying) \in DOMAIN rules
  <2> HIDE DEF applying
  <2> QED  BY <1>1, MinOfNaturals
<1> QED  BY <1>2 DEF FirstOf

(* Every judge grades its verdict.                                         *)
LEMMA JudgesGrade ==
    ASSUME NEW kind \in Kinds, NEW r, NEW severity \in Severities
    PROVE  Judge(kind, r, severity).severity \in Severities
<1> DEFINE verdict == Judge(kind, r, severity)
<1>1. CASE kind \in {"byte_exact", "churn"}
  <2> DEFINE hung == r.setupFailed \/ r.watchdog
         incomplete == ~r.completed
         inexact == ~ByteExact(r)
  <2> DEFINE rules == << <<r.unsupported, SkippedAs(severity)>>,
                         <<hung, Hung(severity)>>,
                         <<Corrupt(r), Corrupted("Critical")>>,
                         <<incomplete, Failed(severity)>>,
                         <<inexact, Corrupted(severity)>>,
                         <<TRUE, Passed(severity)>> >>
  <2>1. verdict = FirstOf(rules)
    BY <1>1 DEF Judge, JudgeByteExact
  <2> HIDE DEF hung, incomplete, inexact
  <2>2. /\ DOMAIN rules = 1 .. 6 /\ rules[6][1]
        /\ rules[1][2] = SkippedAs(severity)
        /\ rules[2][2] = Hung(severity)
        /\ rules[3][2] = Corrupted("Critical")
        /\ rules[4][2] = Failed(severity)
        /\ rules[5][2] = Corrupted(severity)
        /\ rules[6][2] = Passed(severity)
    OBVIOUS
  <2> HIDE DEF rules
  <2>3. /\ DOMAIN rules \in SUBSET Nat /\ 6 \in DOMAIN rules
        /\ \A k \in DOMAIN rules : rules[k][2].severity \in Severities
    BY <2>2, GradesOfVerdicts DEF Severities
  <2> QED  BY <2>1, <2>2, <2>3, FirstOfGrades
<1>2. CASE kind = "final_block"
  <2> DEFINE hung == r.watchdog \/ r.setupFailed
         noShortBlock == ~r.shortBlock
         altered == r.completed /\ ~ByteExact(r)
         incomplete == ~r.completed
  <2> DEFINE rules == << <<hung, Hung(severity)>>,
                         <<noShortBlock, Failed("Critical")>>,
                         <<altered, Corrupted(severity)>>,
                         <<incomplete, Failed(severity)>>,
                         <<TRUE, Passed(severity)>> >>
  <2>1. verdict = FirstOf(rules)
    BY <1>2 DEF Judge, FinalBlockRule
  <2> HIDE DEF hung, noShortBlock, altered, incomplete
  <2>2. /\ DOMAIN rules = 1 .. 5 /\ rules[5][1]
        /\ rules[1][2] = Hung(severity)
        /\ rules[2][2] = Failed("Critical")
        /\ rules[3][2] = Corrupted(severity)
        /\ rules[4][2] = Failed(severity)
        /\ rules[5][2] = Passed(severity)
    OBVIOUS
  <2> HIDE DEF rules
  <2>3. /\ DOMAIN rules \in SUBSET Nat /\ 5 \in DOMAIN rules
        /\ \A k \in DOMAIN rules : rules[k][2].severity \in Severities
    BY <2>2, GradesOfVerdicts DEF Severities
  <2> QED  BY <2>1, <2>2, <2>3, FirstOfGrades
<1>3. CASE kind = "file_not_found"
  <2> DEFINE expected == r.error = FileNotFound
         incomplete == ~r.completed
  <2> DEFINE rules == << <<r.watchdog, Hung(severity)>>,
                         <<expected, Passed(severity)>>,
                         <<incomplete, Passed("Minor")>>,
                         <<TRUE, Failed(severity)>> >>
  <2>1. verdict = FirstOf(rules)
    BY <1>3 DEF Judge, JudgeFileNotFound
  <2> HIDE DEF expected, incomplete
  <2>2. /\ DOMAIN rules = 1 .. 4 /\ rules[4][1]
        /\ rules[1][2] = Hung(severity)
        /\ rules[2][2] = Passed(severity)
        /\ rules[3][2] = Passed("Minor")
        /\ rules[4][2] = Failed(severity)
    OBVIOUS
  <2> HIDE DEF rules
  <2>3. /\ DOMAIN rules \in SUBSET Nat /\ 4 \in DOMAIN rules
        /\ \A k \in DOMAIN rules : rules[k][2].severity \in Severities
    BY <2>2, GradesOfVerdicts DEF Severities
  <2> QED  BY <2>1, <2>2, <2>3, FirstOfGrades
<1>4. CASE kind = "file_exists"
  <2> DEFINE expected == r.error = FileAlreadyExists
  <2> DEFINE rules == << <<r.watchdog, Hung(severity)>>,
                         <<expected, Passed(severity)>>,
                         <<TRUE, Passed("Minor")>> >>
  <2>1. verdict = FirstOf(rules)
    BY <1>4 DEF Judge, JudgeFileExists
  <2> HIDE DEF expected
  <2>2. /\ DOMAIN rules = 1 .. 3 /\ rules[3][1]
        /\ rules[1][2] = Hung(severity)
        /\ rules[2][2] = Passed(severity)
        /\ rules[3][2] = Passed("Minor")
    OBVIOUS
  <2> HIDE DEF rules
  <2>3. /\ DOMAIN rules \in SUBSET Nat /\ 3 \in DOMAIN rules
        /\ \A k \in DOMAIN rules : rules[k][2].severity \in Severities
    BY <2>2, GradesOfVerdicts DEF Severities
  <2> QED  BY <2>1, <2>2, <2>3, FirstOfGrades
<1>5. CASE kind = "access_violation"
  <2> DEFINE incomplete == ~r.completed
  <2> DEFINE rules == << <<r.watchdog, Hung(severity)>>,
                         <<incomplete, Passed(severity)>>,
                         <<TRUE, Failed("Critical")>> >>
  <2>1. verdict = FirstOf(rules)
    BY <1>5 DEF Judge, JudgeAccessViolation
  <2> HIDE DEF incomplete
  <2>2. /\ DOMAIN rules = 1 .. 3 /\ rules[3][1]
        /\ rules[1][2] = Hung(severity)
        /\ rules[2][2] = Passed(severity)
        /\ rules[3][2] = Failed("Critical")
    OBVIOUS
  <2> HIDE DEF rules
  <2>3. /\ DOMAIN rules \in SUBSET Nat /\ 3 \in DOMAIN rules
        /\ \A k \in DOMAIN rules : rules[k][2].severity \in Severities
    BY <2>2, GradesOfVerdicts DEF Severities
  <2> QED  BY <2>1, <2>2, <2>3, FirstOfGrades
<1>6. CASE kind = "malformed"
  <2> DEFINE rules == << <<r.watchdog, Hung(severity)>>,
                         <<ByteExact(r), Passed(severity)>>,
                         <<TRUE, Failed(severity)>> >>
  <2>1. verdict = FirstOf(rules)
    BY <1>6 DEF Judge, JudgeMalformed
  <2>2. /\ DOMAIN rules = 1 .. 3 /\ rules[3][1]
        /\ rules[1][2] = Hung(severity)
        /\ rules[2][2] = Passed(severity)
        /\ rules[3][2] = Failed(severity)
    OBVIOUS
  <2> HIDE DEF rules
  <2>3. /\ DOMAIN rules \in SUBSET Nat /\ 3 \in DOMAIN rules
        /\ \A k \in DOMAIN rules : rules[k][2].severity \in Severities
    BY <2>2, GradesOfVerdicts DEF Severities
  <2> QED  BY <2>1, <2>2, <2>3, FirstOfGrades
<1>7. CASE kind = "stray_tid"
  <2> DEFINE rules == << <<r.watchdog, Hung(severity)>>,
                         <<ByteExact(r), Passed(severity)>>,
                         <<TRUE, Failed("Critical")>> >>
  <2>1. verdict = FirstOf(rules)
    BY <1>7 DEF Judge, JudgeStrayTid
  <2>2. /\ DOMAIN rules = 1 .. 3 /\ rules[3][1]
        /\ rules[1][2] = Hung(severity)
        /\ rules[2][2] = Passed(severity)
        /\ rules[3][2] = Failed("Critical")
    OBVIOUS
  <2> HIDE DEF rules
  <2>3. /\ DOMAIN rules \in SUBSET Nat /\ 3 \in DOMAIN rules
        /\ \A k \in DOMAIN rules : rules[k][2].severity \in Severities
    BY <2>2, GradesOfVerdicts DEF Severities
  <2> QED  BY <2>1, <2>2, <2>3, FirstOfGrades
<1>8. CASE kind = "apprentice"
  <2> DEFINE noRepeat == ~r.retransmitted
  <2> DEFINE rules == << <<r.watchdog, Hung(severity)>>,
                         <<noRepeat, Passed(severity)>>,
                         <<TRUE, Failed("Critical")>> >>
  <2>1. verdict = FirstOf(rules)
    BY <1>8 DEF Judge, SorcerersApprentice
  <2> HIDE DEF noRepeat
  <2>2. /\ DOMAIN rules = 1 .. 3 /\ rules[3][1]
        /\ rules[1][2] = Hung(severity)
        /\ rules[2][2] = Passed(severity)
        /\ rules[3][2] = Failed("Critical")
    OBVIOUS
  <2> HIDE DEF rules
  <2>3. /\ DOMAIN rules \in SUBSET Nat /\ 3 \in DOMAIN rules
        /\ \A k \in DOMAIN rules : rules[k][2].severity \in Severities
    BY <2>2, GradesOfVerdicts DEF Severities
  <2> QED  BY <2>1, <2>2, <2>3, FirstOfGrades
<1>9. CASE kind = "sweep"
  <2> DEFINE rules == << <<Corrupt(r), Corrupted("Critical")>>,
                         <<r.watchdog, Hung(severity)>>,
                         <<TRUE, Passed(severity)>> >>
  <2>1. verdict = FirstOf(rules)
    BY <1>9 DEF Judge, JudgeSweep
  <2>2. /\ DOMAIN rules = 1 .. 3 /\ rules[3][1]
        /\ rules[1][2] = Corrupted("Critical")
        /\ rules[2][2] = Hung(severity)
        /\ rules[3][2] = Passed(severity)
    OBVIOUS
  <2> HIDE DEF rules
  <2>3. /\ DOMAIN rules \in SUBSET Nat /\ 3 \in DOMAIN rules
        /\ \A k \in DOMAIN rules : rules[k][2].severity \in Severities
    BY <2>2, GradesOfVerdicts DEF Severities
  <2> QED  BY <2>1, <2>2, <2>3, FirstOfGrades
<1>10. CASE kind = "fresh_tid"
  BY <1>10, GradesOfVerdicts DEF Judge, JudgeFreshTid
<1>11. CASE kind = "blackout"
  BY <1>11, GradesOfVerdicts DEF Judge, JudgeBlackout
<1> QED  BY <1>1, <1>2, <1>3, <1>4, <1>5, <1>6, <1>7, <1>8, <1>9, <1>10, <1>11 DEF Kinds

-----------------------------------------------------------------------------
IsSeq(s) == \E S : s \in Seq(S)

(* The equation of the recursive function in Load, for the first n lines.  *)
LoadedFrom(lines, records, i) ==
    IF i = 0 THEN <<>>
    ELSE IF lines[i].type = "metric" THEN Append(records[i - 1], lines[i].record)
    ELSE records[i - 1]

IsLoaded(lines, n, records) ==
    records = [i \in 0 .. n |-> LoadedFrom(lines, records, i)]

(* There is such a function ...                                            *)
LEMMA LoadedExists ==
    ASSUME NEW lines, NEW n \in Nat
    PROVE  \E records : IsLoaded(lines, n, records)
<1> DEFINE S == {k \in Nat : \E records : IsLoaded(lines, k, records)}
<1>1. 0 \in S
    <2>1. IsLoaded(lines, 0, [i \in 0 .. 0 |-> <<>>])
        BY DEF IsLoaded, LoadedFrom
    <2> QED BY <2>1
<1>2. ASSUME NEW k \in Nat, k \in S PROVE k + 1 \in S
    <2>1. PICK records : IsLoaded(lines, k, records)
        BY <1>2
    <2> DEFINE longer == [i \in 0 .. k + 1 |-> LoadedFrom(lines, records, i)]
    <2>2. \A i \in 0 .. k : longer[i] = records[i]
        BY <2>1 DEF IsLoaded
    <2>3. ASSUME NEW i \in 0 .. k + 1
          PROVE  LoadedFrom(lines, records, i) = LoadedFrom(lines, longer, i)
        <3>1. CASE i = 0
            BY <3>1 DEF LoadedFrom
        <3>2. CASE i # 0
            <4>1. i - 1 \in 0 .. k
                BY <3>2
            <4>2. longer[i - 1] = records[i - 1]
                BY <2>2, <4>1
            <4> HIDE DEF longer
            <4> QED BY <4>2 DEF LoadedFrom
        <3> QED BY <3>1, <3>2
    <2>4. IsLoaded(lines, k + 1, longer)
        BY <2>3 DEF IsLoaded
    <2> QED BY <2>4
<1> HIDE DEF S
<1>3. n \in S
    BY <1>1, <1>2, NaturalsAreInductive
<1> QED BY <1>3 DEF S

LEMMA LoadedAt ==
    ASSUME NEW lines, NEW n, NEW records, IsLoaded(lines, n, records), NEW i \in 0 .. n
    PROVE  records[i] = LoadedFrom(lines, records, i)
<1> DEFINE value(j) == LoadedFrom(lines, records, j)
<1>1. records = [j \in 0 .. n |-> value(j)]
    BY DEF IsLoaded
<1> HIDE DEF value
<1>2. records[i] = value(i)
    BY <1>1
<1> QED BY <1>2 DEF value

(* ... and it depends on those lines only.                                 *)
LEMMA LoadedIsDetermined ==
    ASSUME NEW lines, NEW others, NEW n \in Nat, NEW m \in Nat, n <= m,
           \A i \in 1 .. n : lines[i] = others[i],
           NEW f, IsLoaded(lines, n, f), NEW g, IsLoaded(others, m, g)
    PROVE  \A i \in 0 .. n : f[i] = g[i]
<1> DEFINE S == {i \in Nat : i <= n => f[i] = g[i]}
<1>1. 0 \in S
    BY DEF IsLoaded, LoadedFrom
<1>2. ASSUME NEW k \in Nat, k \in S PROVE k + 1 \in S
    <2> SUFFICES ASSUME k + 1 <= n PROVE f[k + 1] = g[k + 1]
        OBVIOUS
    <2>1. /\ f[k + 1] = LoadedFrom(lines, f, k + 1)
          /\ g[k + 1] = LoadedFrom(others, g, k + 1)
        <3>1. k + 1 \in 0 .. n /\ k + 1 \in 0 .. m
            OBVIOUS
        <3> QED BY <3>1, LoadedAt
    <2>2. lines[k + 1] = others[k + 1] /\ f[k] = g[k]
        BY <1>2
    <2> QED BY <2>1, <2>2 DEF LoadedFrom
<1> HIDE DEF S
<1>3. \A i \in Nat : i \in S
    BY <1>1, <1>2, NaturalsAreInductive
<1> QED BY <1>3 DEF S

(* So Load is the last value of any such function.                         *)
LEMMA LoadUnfolds ==
    ASSUME NEW lines, Len(lines) \in Nat
    PROVE  \E records : IsLoaded(lines, Len(lines), records)
                        /\ Load(lines) = records[Len(lines)]
<1> DEFINE loaded ==
        CHOOSE records : records = [i \in 0 .. Len(lines) |->
            IF i = 0 THEN <<>>
            ELSE IF lines[i].type = "metric" THEN Append(records[i - 1], lines[i].record)
            ELSE records[i - 1]]
<1>1. Load(lines) = loaded[Len(lines)]
    BY DEF Load
<1>2. \E records : records = [i \in 0 .. Len(lines) |->
            IF i = 0 THEN <<>>
            ELSE IF lines[i].type = "metric" THEN Append(records[i - 1], lines[i].record)
            ELSE records[i - 1]]
    <2>1. \E records : IsLoaded(lines, Len(lines), records)
        BY LoadedExists
    <2> QED BY <2>1, Zenon DEF IsLoaded, LoadedFrom
<1>3. IsLoaded(lines, Len(lines), loaded)
    BY <1>2 DEF IsLoaded, LoadedFrom
<1> QED BY <1>1, <1>3

(* A line that is appended to the file adds its record, if it has one.     *)
LEMMA LoadAppend ==
    ASSUME NEW lines, IsSeq(lines), NEW line
    PROVE  Load(Append(lines, line)) =
             IF line.type = "metric" THEN Append(Load(lines), line.record) ELSE Load(lines)
<1> DEFINE n == Len(lines)
           longer == Append(lines, line)
<1>1. /\ n \in Nat /\ Len(longer) = n + 1 /\ longer[n + 1] = line
      /\ \A i \in 1 .. n : lines[i] = longer[i]
    <2>1. PICK S : lines \in Seq(S)
        BY DEF IsSeq
    <2>2. lines \in Seq(S \cup {line}) /\ line \in S \cup {line}
        BY <2>1
    <2> QED BY <2>2
<1> HIDE DEF n, longer
<1>2. PICK f : IsLoaded(lines, n, f) /\ Load(lines) = f[n]
    BY <1>1, LoadUnfolds DEF n
<1>3. PICK g : IsLoaded(longer, n + 1, g) /\ Load(longer) = g[n + 1]
    BY <1>1, LoadUnfolds
<1>4. f[n] = g[n]
    <2>1. n \in Nat /\ n + 1 \in Nat /\ n <= n + 1 /\ n \in 0 .. n
        BY <1>1
    <2>2. IsLoaded(lines, n, f) /\ IsLoaded(longer, n + 1, g)
        BY <1>2, <1>3
    <2>3. \A i \in 1 .. n : lines[i] = longer[i]
        BY <1>1
    <2>4. \A i \in 0 .. n : f[i] = g[i]
        BY ONLY <2>1, <2>2, <2>3, LoadedIsDetermined
    <2> QED BY <2>1, <2>4
<1>5. g[n + 1] = LoadedFrom(longer, g, n + 1)
    BY <1>1, <1>3 DEF IsLoaded
<1> QED BY <1>1, <1>2, <1>3, <1>4, <1>5 DEF LoadedFrom, longer

LEMMA LoadHeader == Load(<<Header>>) = <<>>
<1> DEFINE lines == <<Header>>
<1>1. Len(lines) = 1
    OBVIOUS
<1>2. PICK f : IsLoaded(lines, Len(lines), f) /\ Load(lines) = f[Len(lines)]
    BY <1>1, LoadUnfolds
<1> QED BY <1>1, <1>2 DEF IsLoaded, LoadedFrom, Header

-----------------------------------------------------------------------------
(* The points of a resilience curve.                                       *)
Labelled(records, P) == IsFiniteSet(P) /\ \A i \in P : records[i].label \in Nat
IsHighest(records, P, t) == t \in P /\ \A j \in P : records[j].label <= records[t].label
IsLowest(records, P, b) == b \in P /\ \A j \in P : records[b].label <= records[j].label

LEMMA HighestOfLabelled ==
    ASSUME NEW records, NEW P, Labelled(records, P), P # {}
    PROVE  IsHighest(records, P, Highest(records, P))
<1> DEFINE Has(n) == \A Q \in SUBSET P :
                        Q # {} /\ Cardinality(Q) = n => \E t : IsHighest(records, Q, t)
       Done == {n \in Nat : Has(n)}
<1>0. \A Q \in SUBSET P : /\ IsFiniteSet(Q) /\ Cardinality(Q) \in Nat
                          /\ Cardinality(Q) = 0 => Q = {}
  BY FS_Subset, FS_CardinalityType, FS_EmptySet DEF Labelled
<1>1. 0 \in Done
  BY <1>0
<1>2. ASSUME NEW n \in Nat, n \in Done PROVE n + 1 \in Done
  <2> SUFFICES ASSUME NEW Q \in SUBSET P, Q # {}, Cardinality(Q) = n + 1
               PROVE  \E t : IsHighest(records, Q, t)
    OBVIOUS
  <2>1. PICK x \in Q : TRUE
    OBVIOUS
  <2> DEFINE R == Q \ {x}
  <2>2. R \in SUBSET P /\ Cardinality(R) = n
    BY <1>0, <2>1, FS_RemoveElement
  <2>3. CASE R = {}
    <3>1. Q = {x} /\ records[x].label \in Nat
      BY <2>1, <2>3 DEF Labelled
    <3>2. IsHighest(records, Q, x)
      BY <3>1 DEF IsHighest
    <3> QED  BY <3>2
  <2>4. CASE R # {}
    <3>1. PICK t : IsHighest(records, R, t)
      BY <1>2, <2>2, <2>4
    <3>2. t \in Q /\ \A j \in Q : records[j].label \in Nat /\ (j = x \/ j \in R)
      BY <3>1 DEF IsHighest, Labelled
    <3>3. CASE records[x].label <= records[t].label
      <4>1. IsHighest(records, Q, t)
        BY <3>1, <3>2, <3>3 DEF IsHighest
      <4> QED  BY <4>1
    <3>4. CASE ~(records[x].label <= records[t].label)
      <4>1. \A j \in R : records[j].label <= records[x].label
        BY <2>1, <3>1, <3>2, <3>4 DEF IsHighest
      <4>2. IsHighest(records, Q, x)
        BY <2>1, <3>2, <4>1 DEF IsHighest
      <4> QED  BY <4>2
    <3> QED  BY <3>3, <3>4
  <2> QED  BY <2>3, <2>4
<1> HIDE DEF Done
<1>3. \A n \in Nat : n \in Done
  BY <1>1, <1>2, NaturalsAreInductive
<1>4. \E t : IsHighest(records, P, t)
  <2>1. P \in SUBSET P /\ Cardinality(P) \in Nat
    BY <1>0
  <2> QED  BY <1>3, <2>1 DEF Done
<1> QED  BY <1>4 DEF IsHighest, Highest

LEMMA LowestOfLabelled ==
    ASSUME NEW records, NEW P, Labelled(records, P), P # {}
    PROVE  IsLowest(records, P, Lowest(records, P))
<1> DEFINE labels == {records[i].label : i \in P}
<1>1. labels \in SUBSET Nat /\ labels # {}
  BY DEF Labelled
<1>2. PICK l \in labels : \A y \in labels : l <= y
  <2> HIDE DEF labels
  <2> QED  BY <1>1, MinOfNaturals
<1>3. PICK b \in P : l = records[b].label
  BY <1>2
<1>4. IsLowest(records, P, b)
  BY <1>2, <1>3 DEF IsLowest
<1> QED  BY <1>4 DEF IsLowest, Lowest

(* The area under a curve.                                                 *)
Strips(records, P) == [i \in P |-> Strip(records, P, i)]
Distinct(records, P) == \A i, j \in P : records[i].label = records[j].label => i = j

(* Twice the width of the curve, and what it has of the area above it.     *)
Covers(records, P, area, t, b) ==
    LET width == records[t].label - records[b].label
    IN  /\ width \in Nat /\ (t # b => width > 0)
        /\ area \in Nat /\ area <= 2 * width
        /\ area = 2 * width <=> t = b \/ \A i \in P : records[i].success

(* The strip from the highest point to the next.                           *)
LEMMA StripOfHighest ==
    ASSUME NEW records, NEW P, Labelled(records, P), Distinct(records, P),
           NEW t, IsHighest(records, P, t), P \ {t} # {}
    PROVE  LET s == Highest(records, P \ {t})
               width == records[t].label - records[s].label
           IN  /\ IsHighest(records, P \ {t}, s)
               /\ width \in Nat \ {0}
               /\ Strip(records, P, t) = width * (Height(records[t]) + Height(records[s]))
<1> DEFINE Q == P \ {t}
       s == Highest(records, Q)
       below == {j \in P : records[j].label < records[t].label}
<1>1. Labelled(records, Q)
  BY FS_Subset DEF Labelled
<1>2. IsHighest(records, Q, s)
  BY <1>1, HighestOfLabelled
<1>3. t \in P /\ \A j \in P : records[j].label \in Nat /\ records[j].label <= records[t].label
  BY DEF IsHighest, Labelled
<1>4. \A j \in Q : records[j].label # records[t].label
  BY <1>3 DEF Distinct
<1>5. \A j \in P : records[j].label < records[t].label <=> j \in Q
  BY <1>3, <1>4
<1>6. below = Q
  BY <1>5
<1>7. Strip(records, P, t) =
         (records[t].label - records[s].label) * (Height(records[t]) + Height(records[s]))
  <2> HIDE DEF Q
  <2>1. Q # {}
    BY DEF Q
  <2> QED  BY <1>6, <2>1, Zenon DEF Strip
<1>8. records[t].label - records[s].label \in Nat \ {0}
  <2>1. s \in Q
    BY <1>2 DEF IsHighest
  <2> HIDE DEF s
  <2>2. records[s].label < records[t].label /\ records[s].label \in Nat /\ records[t].label \in Nat
    BY <1>3, <1>5, <2>1
  <2> QED  BY <2>2
<1> QED  BY <1>2, <1>7, <1>8

(* Below the highest point nothing changes without it.                     *)
LEMMA StripsBelow ==
    ASSUME NEW records, NEW P, Labelled(records, P), NEW t, IsHighest(records, P, t),
           NEW i \in P \ {t}
    PROVE  Strip(records, P \ {t}, i) = Strip(records, P, i)
<1>1. ~(records[t].label < records[i].label)
  BY DEF IsHighest, Labelled
<1>2. {j \in P \ {t} : records[j].label < records[i].label}
        = {j \in P : records[j].label < records[i].label}
  BY <1>1
<1> QED  BY <1>2, Zenon DEF Strip

(* A strip more, of full height or not.                                    *)
LEMMA StripMore ==
    ASSUME NEW area \in Nat, NEW width \in Nat, area <= 2 * width,
           NEW d \in Nat \ {0}, NEW h \in {0, 1}, NEW k \in {0, 1}
    PROVE  /\ d * (h + k) \in Nat /\ area + d * (h + k) <= 2 * (width + d)
           /\ area + d * (h + k) = 2 * (width + d) <=> area = 2 * width /\ h = 1 /\ k = 1
<1>1. h + k = 0 \/ h + k = 1 \/ h + k = 2
  OBVIOUS
<1>2. CASE h + k = 0
  BY <1>2
<1>3. CASE h + k = 1
  BY <1>3
<1>4. CASE h + k = 2
  BY <1>4
<1> QED  BY <1>1, <1>2, <1>3, <1>4

(* The area under a curve is at most that of its width, and all of it only *)
(* if every point succeeded.                                               *)
LEMMA AreaIsCovered ==
    ASSUME NEW records, NEW P, Labelled(records, P), Distinct(records, P),
           NEW t, IsHighest(records, P, t), NEW b, IsLowest(records, P, b)
    PROVE  /\ Strips(records, P) \in [P -> Nat]
           /\ Covers(records, P, Total(Strips(records, P), P), t, b)
<1> DEFINE Claim(Q, u, v) ==
             /\ Strips(records, Q) \in [Q -> Nat]
             /\ Covers(records, Q, Total(Strips(records, Q), Q), u, v)
       C == {Q \in SUBSET P : \A u, v \in Q :
                IsHighest(records, Q, u) /\ IsLowest(records, Q, v) => Claim(Q, u, v)}
<1>1. ASSUME NEW Q \in SUBSET P, \A R \in SUBSET Q : R # Q => R \in C,
             NEW u \in Q, NEW v \in Q, IsHighest(records, Q, u), IsLowest(records, Q, v)
      PROVE  Claim(Q, u, v)
  <2> DEFINE R == Q \ {u}
  <2>1. /\ Labelled(records, Q) /\ Labelled(records, R)
        /\ Distinct(records, Q) /\ Distinct(records, R)
    BY FS_Subset DEF Labelled, Distinct
  <2>2. Q = R \cup {u} /\ u \notin R
    OBVIOUS
  <2>3. CASE R = {}
    <3>1. Q = {u} /\ v = u
      BY <2>2, <2>3
    <3>2. Strip(records, Q, u) = 0
      <4>1. {j \in Q : records[j].label < records[u].label} = {}
        BY <2>1, <3>1 DEF Labelled
      <4> QED  BY <4>1 DEF Strip
    <3>3. Strips(records, Q) \in [Q -> Nat] /\ Strips(records, Q)[u] = 0
      BY <3>1, <3>2 DEF Strips
    <3>4. Total(Strips(records, Q), Q) = 0
      <4> DEFINE f == [x \in {} |-> 0]
                 g == Strips(records, Q)
      <4>1. f \in [{} -> Nat] /\ IsFiniteSet({}) /\ {} \cup {u} = Q
        BY <3>1, FS_EmptySet
      <4> HIDE DEF f, g
      <4>2. g \in [{} \cup {u} -> Nat]
        BY <3>3, <4>1 DEF g
      <4>3. Total(g, {} \cup {u}) = Total(f, {}) + g[u]
        BY <4>1, <4>2, TotalOfOneMore
      <4>4. Total(f, {}) = 0
        BY <4>1, TotalOfNothing
      <4>5. g[u] = 0
        BY <3>3 DEF g
      <4>6. Total(g, Q) = Total(g, {} \cup {u})
        BY <4>1
      <4>7. Total(g, Q) = 0
        BY <4>3, <4>4, <4>5, <4>6
      <4> QED  BY <4>7 DEF g
    <3>5. records[u].label - records[u].label = 0
      BY <2>1 DEF Labelled
    <3>6. Covers(records, Q, 0, u, u)
      BY <3>5 DEF Covers
    <3> QED  BY <3>1, <3>3, <3>4, <3>6
  <2>4. CASE R # {}
    <3> DEFINE s == Highest(records, R)
               d == records[u].label - records[s].label
               strip == d * (Height(records[u]) + Height(records[s]))
               f == Strips(records, R)
               g == Strips(records, Q)
               area == Total(f, R)
               width == records[s].label - records[v].label
    <3>1. IsHighest(records, R, s) /\ d \in Nat \ {0} /\ Strip(records, Q, u) = strip
      BY <2>1, <1>1, <2>4, StripOfHighest
    <3>2. v \in R /\ IsLowest(records, R, v)
      <4>1. s \in Q /\ s # u /\ records[v].label <= records[s].label
        BY <1>1, <3>1 DEF IsHighest, IsLowest
      <4>2. records[v].label \in Nat /\ records[s].label \in Nat /\ records[u].label \in Nat
        BY <2>1, <4>1 DEF Labelled
      <4> HIDE DEF s
      <4>3. v # u
        BY <3>1, <4>1, <4>2
      <4> QED  BY <1>1, <4>3 DEF IsLowest
    <3>3. f \in [R -> Nat] /\ Covers(records, R, area, s, v)
      <4>1. R \in C /\ s \in R
        BY <1>1, <2>2, <3>1 DEF IsHighest
      <4> HIDE DEF R, s
      <4> QED  BY <3>1, <3>2, <4>1
    <3>4. Height(records[u]) \in {0, 1} /\ Height(records[s]) \in {0, 1}
      BY DEF Height
    <3>5. area \in Nat /\ width \in Nat /\ area <= 2 * width
      BY <3>3 DEF Covers
    <3>6. /\ strip \in Nat /\ area + strip <= 2 * (width + d)
          /\ area + strip = 2 * (width + d) <=>
                area = 2 * width /\ Height(records[u]) = 1 /\ Height(records[s]) = 1
      <4> HIDE DEF area, width, d, s
      <4> QED  BY <3>1, <3>4, <3>5, StripMore
    <3>7. /\ g \in [Q -> Nat] /\ g[u] = strip
          /\ \A i \in R : g[i] = f[i]
      <4>1. \A i \in R : Strip(records, Q, i) = Strip(records, R, i)
        BY <1>1, <2>1, StripsBelow
      <4>2. \A i \in Q : g[i] = Strip(records, Q, i)
        BY DEF Strips
      <4>3. \A i \in R : f[i] = Strip(records, R, i)
        BY DEF Strips
      <4>4. g = [i \in Q |-> Strip(records, Q, i)]
        BY DEF Strips
      <4> HIDE DEF R, f, g, strip
      <4>5. \A i \in R : Strip(records, Q, i) \in Nat
        BY <3>3, <4>1, <4>3
      <4>6. \A i \in Q : Strip(records, Q, i) \in Nat
        BY <2>2, <3>1, <3>6, <4>5
      <4> QED  BY <2>2, <3>1, <4>1, <4>2, <4>3, <4>4, <4>6
    <3>8. Total(g, Q) = area + strip
      <4>1. IsFiniteSet(R)
        BY <2>1 DEF Labelled
      <4> HIDE DEF R, f, g, strip
      <4>2. Total(g, R \cup {u}) = Total(f, R) + g[u]
        BY <2>2, <3>3, <3>7, <4>1, TotalOfOneMore
      <4> QED  BY <2>2, <3>7, <4>2
    <3>9. records[u].label - records[v].label = width + d
      <4>1. records[v].label \in Nat /\ records[s].label \in Nat /\ records[u].label \in Nat
        BY <2>1, <3>1 DEF Labelled, IsHighest
      <4> HIDE DEF s
      <4> QED  BY <4>1
    <3>10. (s = v \/ \A i \in R : records[i].success) /\ records[u].success
              /\ records[s].success <=> \A i \in Q : records[i].success
      <4>1. s \in R /\ (s = v => R = {s})
        <5>1. s = v => \A j \in R : records[j].label = records[s].label
          <6>1. \A j \in R : /\ records[j].label <= records[s].label
                              /\ records[v].label <= records[j].label
                              /\ records[j].label \in Nat
            BY <2>1, <3>1, <3>2 DEF IsHighest, IsLowest, Labelled
          <6>2. records[s].label \in Nat
            BY <2>1, <3>1 DEF IsHighest, Labelled
          <6> HIDE DEF R, s
          <6> QED  BY <6>1, <6>2
        <5>2. s \in R
          BY <3>1 DEF IsHighest
        <5> HIDE DEF R, s
        <5> QED  BY <2>1, <5>1, <5>2 DEF Distinct
      <4> HIDE DEF R, s
      <4> QED  BY <2>2, <4>1
    <3>11. Covers(records, Q, area + strip, u, v)
      <4>1. area = 2 * width <=> s = v \/ \A i \in R : records[i].success
        BY <3>3 DEF Covers
      <4>2. (Height(records[u]) = 1 <=> records[u].success)
            /\ (Height(records[s]) = 1 <=> records[s].success)
        BY DEF Height
      <4>3. u # v /\ width + d \in Nat /\ width + d > 0 /\ area + strip \in Nat
        <5>1. u # v
          BY <3>2
        <5> HIDE DEF area, width, d, strip
        <5> QED  BY <3>1, <3>5, <3>6, <5>1
      <4>4. area + strip = 2 * (width + d) <=> u = v \/ \A i \in Q : records[i].success
        <5> HIDE DEF R, s, area, width, d, strip
        <5> QED  BY <3>6, <3>10, <4>1, <4>2, <4>3
      <4> HIDE DEF R, s, area, width, d, strip
      <4> QED  BY <3>6, <3>9, <4>3, <4>4 DEF Covers
    <3> QED  BY <3>7, <3>8, <3>11
  <2> QED  BY <2>3, <2>4
<1>2. P \in C
  <2>1. \A Q \in SUBSET P : (\A R \in SUBSET Q : R # Q => R \in C) => Q \in C
    BY <1>1
  <2> HIDE DEF C
  <2> QED  BY <2>1, SubsetsAreInductive DEF Labelled
<1> QED  BY <1>2 DEF IsHighest, IsLowest


(* The trapezoids add up.                                                  *)
LEMMA StripsAddUp ==
    ASSUME NEW records, NEW P, IsFiniteSet(P), Strips(records, P) \in [P -> Nat]
    PROVE  MapThenSumSet(LAMBDA i : Strip(records, P, i), P) = Total(Strips(records, P), P)
<1> DEFINE f == Strips(records, P)
           n == Cardinality(P)
           Equation(h) == h = [V \in SUBSET P |->
                                 IF V = {} THEN 0
                                 ELSE LET x == CHOOSE x \in V : TRUE
                                      IN  Strip(records, P, x) + h[V \ {x}]]
           sum == MapThenSumSet(LAMBDA i : Strip(records, P, i), P)
<1>1. sum = (CHOOSE h : Equation(h))[P]
  BY Zenon DEF MapThenSumSet, MapThenFoldSet
<1>2. ASSUME NEW h  PROVE Equation(h) <=> IsSum(P, n, f, h)
  <2> DEFINE F(V) == SumOf(f, h, V)
             G(V) == IF V = {} THEN 0
                     ELSE LET x == CHOOSE x \in V : TRUE IN Strip(records, P, x) + h[V \ {x}]
  <2>1. Small(P, n) = SUBSET P
    BY SmallSets
  <2>2. \A V \in SUBSET P : F(V) = G(V)
    <3>1. \A i \in P : f[i] = Strip(records, P, i)
      BY DEF Strips
    <3>2. \A V \in SUBSET P : V # {} => (CHOOSE x \in V : TRUE) \in P
      OBVIOUS
    <3> HIDE DEF f
    <3> QED  BY <3>1, <3>2 DEF SumOf
  <2>3. Equation(h) <=> h = [V \in SUBSET P |-> G(V)]
    OBVIOUS
  <2>4. IsSum(P, n, f, h) <=> h = [V \in SUBSET P |-> F(V)]
    BY <2>1 DEF IsSum
  <2> HIDE DEF F, G, Equation, f, n
  <2> QED  BY <2>2, <2>3, <2>4
<1>3. f \in [P -> Nat] /\ n \in Nat
  BY SmallSets
<1>4. \E h : IsSum(P, n, f, h)
  <2> HIDE DEF n, f
  <2> QED  BY <1>3, SumExists
<1> HIDE DEF Equation, f
<1>5. Equation(CHOOSE h : Equation(h))
  BY <1>2, <1>4
<1> HIDE DEF sum
<1>6. IsTotal(f, P, sum)
  BY <1>1, <1>2, <1>5 DEF IsTotal
<1>7. sum = Total(f, P)
  BY <1>3, <1>6, TotalExists
<1> QED  BY <1>7 DEF f, sum

(* A fraction of natural numbers.                                          *)
IsFraction(x) == x[1] \in Nat /\ x[2] \in Nat \ {0}

LEMMA FractionsOfNaturals ==
    ASSUME NEW n \in Nat, NEW d \in Nat
    PROVE  IsFraction(Fraction(n, d))
BY DEF Fraction, IsFraction

(* The area under a curve is a part of the whole, and the whole only if    *)
(* all of its points succeeded.                                            *)
THEOREM CurvesAreHonest ==
    ASSUME NEW records, NEW test, Labelled(records, CurvePoints(records, test)),
           Distinct(records, CurvePoints(records, test)), CurvePoints(records, test) # {}
    PROVE  LET area == CurveArea(records, test)
           IN  /\ IsFraction(area) /\ area[1] <= area[2]
               /\ area[1] = area[2] <=>
                     \A i \in CurvePoints(records, test) : records[i].success
<1> DEFINE P == CurvePoints(records, test)
       t == Highest(records, P)
       b == Lowest(records, P)
       total == Total(Strips(records, P), P)
       width == records[t].label - records[b].label
       area == CurveArea(records, test)
<1> SUFFICES IsFraction(area) /\ area[1] <= area[2]
             /\ (area[1] = area[2] <=> \A i \in P : records[i].success)
  OBVIOUS
<1>1. IsHighest(records, P, t) /\ IsLowest(records, P, b)
  BY HighestOfLabelled, LowestOfLabelled
<1>2. Strips(records, P) \in [P -> Nat] /\ Covers(records, P, total, t, b)
  BY <1>1, AreaIsCovered
<1>3. IsFiniteSet(P) /\ t \in P /\ b \in P
  BY <1>1 DEF Labelled, IsHighest, IsLowest
<1>4. area = IF Cardinality(P) = 1 THEN <<Height(records[t]), 1>>
             ELSE Fraction(total, 2 * width)
  <2>1. MapThenSumSet(LAMBDA i : Strip(records, P, i), P) = total
    BY <1>2, <1>3, StripsAddUp
  <2> QED  BY <2>1 DEF CurveArea
<1> HIDE DEF P, t, b, total, area
<1>5. width \in Nat /\ total \in Nat /\ total <= 2 * width
      /\ (t # b => width > 0)
      /\ (total = 2 * width <=> t = b \/ \A i \in P : records[i].success)
  BY <1>2 DEF Covers
<1>6. CASE Cardinality(P) = 1
  <2>1. P = {t}
    BY <1>3, <1>6, FS_Singleton
  <2>2. area = <<Height(records[t]), 1>>
    BY <1>4, <1>6
  <2>3. Height(records[t]) \in {0, 1} /\ (Height(records[t]) = 1 <=> records[t].success)
    BY DEF Height
  <2> QED  BY <2>1, <2>2, <2>3 DEF IsFraction
<1>7. CASE Cardinality(P) # 1
  <2>1. t # b
    <3> SUFFICES ASSUME t = b PROVE FALSE
      OBVIOUS
    <3>1. \A j \in P : records[j].label \in Nat /\ records[j].label = records[t].label
      <4>1. \A j \in P : records[j].label \in Nat
        BY DEF Labelled, P
      <4>2. \A j \in P : /\ records[j].label <= records[t].label
                        /\ records[t].label <= records[j].label
        BY <1>1 DEF IsHighest, IsLowest
      <4> QED  BY <1>3, <4>1, <4>2
    <3>2. \A j \in P : j = t
      BY <1>3, <3>1 DEF Distinct, P
    <3>3. P = {t}
      BY <1>3, <3>2
    <3> QED  BY <1>7, <3>3, FS_Singleton
  <2>2. width > 0 /\ 2 * width \in Nat /\ 2 * width # 0
    <3> HIDE DEF width
    <3> QED  BY <1>5, <2>1
  <2>3. area = <<total, 2 * width>>
    <3>1. area = Fraction(total, 2 * width)
      BY <1>4, <1>7
    <3> HIDE DEF width
    <3> QED  BY <2>2, <3>1 DEF Fraction
  <2>4. total = 2 * width <=> \A i \in P : records[i].success
    <3> HIDE DEF width
    <3> QED  BY <1>5, <2>1
  <2> HIDE DEF width
  <2> QED  BY <1>5, <2>2, <2>3, <2>4 DEF IsFraction
<1> QED  BY <1>6, <1>7

-----------------------------------------------------------------------------
(* Scores.                                                                 *)

(* Records of which scores can be computed: no two points of a curve are   *)
(* at the same intensity.                                                  *)
SamePoint(x, y) == x.test = y.test /\ x.label = y.label /\ x.label > 0

Scored(records) ==
    /\ Len(records) \in Nat /\ DOMAIN records = 1 .. Len(records)
    /\ \A i \in DOMAIN records :
          records[i].label \in Nat /\ records[i].severity \in Severities
    /\ \A i, j \in DOMAIN records : SamePoint(records[i], records[j]) => i = j

LEMMA IndicesAreFinite ==
    ASSUME NEW records, Scored(records), NEW S \in SUBSET DOMAIN records
    PROVE  IsFiniteSet(S) /\ Cardinality(S) \in Nat
<1>1. IsFiniteSet(1 .. Len(records))
  BY FS_Interval DEF Scored
<1> QED  BY <1>1, FS_Subset, FS_CardinalityType DEF Scored

LEMMA PointsOfScored ==
    ASSUME NEW records, Scored(records), NEW test
    PROVE  /\ Labelled(records, CurvePoints(records, test))
           /\ Distinct(records, CurvePoints(records, test))
<1>1. CurvePoints(records, test) \in SUBSET DOMAIN records
  BY DEF CurvePoints, Points
<1>2. \A i \in CurvePoints(records, test) : records[i].test = test /\ records[i].label > 0
  BY DEF CurvePoints, Points
<1>3. IsFiniteSet(CurvePoints(records, test))
  BY <1>1, IndicesAreFinite
<1> QED  BY <1>1, <1>2, <1>3 DEF Scored, SamePoint, Labelled, Distinct

(* The weights of a set of records add up to a natural number.             *)
LEMMA WeightsAddUp ==
    ASSUME NEW records, Scored(records), NEW P \in SUBSET DOMAIN records
    PROVE  Weight(records, P) \in Nat
<1> DEFINE f == [i \in P |-> SeverityWeight(records[i].severity)]
           n == Cardinality(P)
           Equation(h) == h = [V \in SUBSET P |->
                                 IF V = {} THEN 0
                                 ELSE LET x == CHOOSE x \in V : TRUE
                                      IN  SeverityWeight(records[x].severity) + h[V \ {x}]]
           sum == Weight(records, P)
<1>1. sum = (CHOOSE h : Equation(h))[P]
  BY Zenon DEF Weight, MapThenSumSet, MapThenFoldSet
<1>2. ASSUME NEW h  PROVE Equation(h) <=> IsSum(P, n, f, h)
  <2> DEFINE F(V) == SumOf(f, h, V)
             G(V) == IF V = {} THEN 0
                     ELSE LET x == CHOOSE x \in V : TRUE
                          IN  SeverityWeight(records[x].severity) + h[V \ {x}]
  <2>1. Small(P, n) = SUBSET P
    BY IndicesAreFinite, SmallSets
  <2>2. \A V \in SUBSET P : F(V) = G(V)
    <3>1. \A i \in P : f[i] = SeverityWeight(records[i].severity)
      OBVIOUS
    <3>2. \A V \in SUBSET P : V # {} => (CHOOSE x \in V : TRUE) \in P
      OBVIOUS
    <3> HIDE DEF f
    <3> QED  BY <3>1, <3>2 DEF SumOf
  <2>3. Equation(h) <=> h = [V \in SUBSET P |-> G(V)]
    OBVIOUS
  <2>4. IsSum(P, n, f, h) <=> h = [V \in SUBSET P |-> F(V)]
    BY <2>1 DEF IsSum
  <2> HIDE DEF F, G, Equation, f, n
  <2> QED  BY <2>2, <2>3, <2>4
<1>3. f \in [P -> Nat] /\ n \in Nat /\ IsFiniteSet(P)
  <2>1. \A i \in P : SeverityWeight(records[i].severity) \in Nat
    BY DEF Scored, Severities, SeverityWeight
  <2> QED  BY <2>1, IndicesAreFinite
<1>4. \E h : IsSum(P, n, f, h)
  <2> HIDE DEF n, f
  <2> QED  BY <1>3, SumExists
<1> HIDE DEF Equation, f
<1>5. Equation(CHOOSE h : Equation(h))
  BY <1>2, <1>4
<1> HIDE DEF sum
<1>6. IsTotal(f, P, sum)
  BY <1>1, <1>2, <1>5 DEF IsTotal
<1>7. sum = Total(f, P) /\ Total(f, P) \in Nat
  BY <1>3, <1>6, TotalExists
<1> QED  BY <1>7 DEF sum

LEMMA ConformanceIsFraction ==
    ASSUME NEW records, Scored(records)
    PROVE  IsFraction(ConformanceScore(records))
<1>1. \A P \in SUBSET DOMAIN records : Weight(records, P) \in Nat
  BY WeightsAddUp
<1> DEFINE counted == {i \in DOMAIN records :
                          records[i].section \in ConformanceSections
                          /\ records[i].outcome # "Skipped"}
<1>2. counted \in SUBSET DOMAIN records
      /\ counted \cap WithOutcome(records, "Pass") \in SUBSET DOMAIN records
  OBVIOUS
<1>3. ConformanceScore(records) =
        Fraction(Weight(records, counted \cap WithOutcome(records, "Pass")),
                 Weight(records, counted))
  BY DEF ConformanceScore, ScoreOf
<1> HIDE DEF counted
<1> QED  BY <1>1, <1>2, <1>3, FractionsOfNaturals

(* The sum of the areas of some curves, as FoldSet has it.                 *)
AreasOf(records, h, V) ==
    IF V = {} THEN <<0, 1>>
    ELSE LET test == CHOOSE t \in V : TRUE
         IN  Plus(CurveArea(records, test), h[V \ {test}])

AddsAreas(records, S, n, h) == h = [V \in Small(S, n) |-> AreasOf(records, h, V)]

LEMMA AreasExist ==
    ASSUME NEW records, NEW S, IsFiniteSet(S), NEW n \in Nat
    PROVE  \E h : AddsAreas(records, S, n, h)
<1> DEFINE R == {k \in Nat : \E h : AddsAreas(records, S, k, h)}
<1>1. 0 \in R
  <2> DEFINE h == [V \in Small(S, 0) |-> <<0, 1>>]
  <2>1. \A V \in Small(S, 0) : AreasOf(records, h, V) = <<0, 1>>
    BY NothingSmall DEF AreasOf
  <2>2. AddsAreas(records, S, 0, h)
    BY <2>1 DEF AddsAreas
  <2> QED  BY <2>2
<1>2. ASSUME NEW k \in Nat, k \in R  PROVE k + 1 \in R
  <2>1. PICK h : AddsAreas(records, S, k, h)
    BY <1>2
  <2> DEFINE longer == [V \in Small(S, k + 1) |-> AreasOf(records, h, V)]
  <2>2. \A V \in Small(S, k) : longer[V] = h[V]
    BY <2>1, SmallGrows DEF AddsAreas
  <2>3. ASSUME NEW V \in Small(S, k + 1)
        PROVE  AreasOf(records, h, V) = AreasOf(records, longer, V)
    <3> HIDE DEF longer
    <3>1. CASE V = {}
      BY <3>1 DEF AreasOf
    <3>2. CASE V # {}
      <4> DEFINE x == CHOOSE y \in V : TRUE
      <4>1. V \ {x} \in Small(S, k)
        BY <3>2, RemoveChosen
      <4>2. longer[V \ {x}] = h[V \ {x}]
        BY <2>2, <4>1
      <4> QED  BY <4>2 DEF AreasOf
    <3> QED  BY <3>1, <3>2
  <2>4. AddsAreas(records, S, k + 1, longer)
    BY <2>3 DEF AddsAreas
  <2> QED  BY <2>4
<1> HIDE DEF R
<1>3. n \in R
  BY <1>1, <1>2, NaturalsAreInductive
<1> QED  BY <1>3 DEF R

LEMMA SumsOfFractions ==
    ASSUME NEW x, IsFraction(x), NEW y, IsFraction(y)
    PROVE  IsFraction(Plus(x, y))
<1>1. \A a, b \in Nat : a * b \in Nat /\ a + b \in Nat
  OBVIOUS
<1>2. \A a, b \in Nat \ {0} : a * b # 0
  OBVIOUS
<1> QED  BY <1>1, <1>2 DEF IsFraction, Plus

LEMMA AreasAreFractions ==
    ASSUME NEW records, NEW S, IsFiniteSet(S), NEW h, AddsAreas(records, S, Cardinality(S), h),
           \A test \in S : IsFraction(CurveArea(records, test))
    PROVE  IsFraction(h[S])
<1> DEFINE C == {V \in SUBSET S : IsFraction(h[V])}
<1>1. ASSUME NEW V \in SUBSET S, \A U \in SUBSET V : U # V => U \in C
      PROVE  V \in C
  <2>1. h[V] = AreasOf(records, h, V)
    BY SmallSets DEF AddsAreas
  <2>2. CASE V = {}
    BY <2>1, <2>2 DEF AreasOf, IsFraction
  <2>3. CASE V # {}
    <3>1. PICK test : test = CHOOSE t \in V : TRUE
      OBVIOUS
    <3>2. test \in V
      BY <2>3, <3>1
    <3>3. IsFraction(h[V \ {test}])
      BY <1>1, <3>2
    <3>4. h[V] = Plus(CurveArea(records, test), h[V \ {test}])
      BY <2>1, <2>3, <3>1 DEF AreasOf
    <3> QED  BY <3>2, <3>3, <3>4, SumsOfFractions
  <2> QED  BY <2>2, <2>3
<1> HIDE DEF C
<1>2. S \in C
  BY <1>1, SubsetsAreInductive
<1> QED  BY <1>2 DEF C

LEMMA ResilienceIsFraction ==
    ASSUME NEW records, Scored(records)
    PROVE  IsFraction(ResilienceIndex(records))
<1> DEFINE S == Curves(records)
           n == Cardinality(S)
           Equation(h) == h = [V \in SUBSET S |->
                                 IF V = {} THEN <<0, 1>>
                                 ELSE LET test == CHOOSE t \in V : TRUE
                                      IN  Plus(CurveArea(records, test), h[V \ {test}])]
           sum == FoldSet(LAMBDA test, acc : Plus(CurveArea(records, test), acc), <<0, 1>>, S)
<1>1. IsFiniteSet(S) /\ n \in Nat
  <2>1. S = {records[i].test : i \in Points(records)}
    BY DEF Curves
  <2>2. IsFiniteSet(Points(records))
    BY IndicesAreFinite DEF Points
  <2>3. IsFiniteSet(S)
    <3> DEFINE f == [i \in Points(records) |-> records[i].test]
    <3>1. f \in Surjection(Points(records), S)
      BY <2>1 DEF Surjection
    <3> QED  BY <2>2, <3>1, FS_Surjection
  <2> QED  BY <2>3, FS_CardinalityType
<1>2. \A test \in S : IsFraction(CurveArea(records, test))
  <2> TAKE test \in S
  <2>1. CurvePoints(records, test) # {}
    BY DEF Curves, CurvePoints
  <2> QED  BY <2>1, PointsOfScored, CurvesAreHonest
<1>3. sum = (CHOOSE h : Equation(h))[S]
  BY Zenon DEF FoldSet, MapThenFoldSet
<1>4. ASSUME NEW h  PROVE Equation(h) <=> AddsAreas(records, S, n, h)
  BY <1>1, SmallSets DEF AddsAreas, AreasOf
<1>5. \E h : AddsAreas(records, S, n, h)
  BY <1>1, AreasExist
<1> HIDE DEF Equation
<1>6. Equation(CHOOSE h : Equation(h))
  BY <1>4, <1>5
<1>7. IsFraction(sum)
  BY <1>1, <1>2, <1>3, <1>4, <1>6, AreasAreFractions
<1>8. ResilienceIndex(records) = Fraction(sum[1], sum[2] * n)
  BY DEF ResilienceIndex
<1> HIDE DEF sum, n
<1>9. sum[1] \in Nat /\ sum[2] * n \in Nat
  <2>1. \A a, b \in Nat : a * b \in Nat
    OBVIOUS
  <2> QED  BY <1>1, <1>7, <2>1 DEF IsFraction
<1> QED  BY <1>8, <1>9, FractionsOfNaturals

-----------------------------------------------------------------------------
(* The comparison of two runs.                                             *)
Mirror(winner) ==
    CASE winner = "A" -> "B"
      [] winner = "B" -> "A"
      [] winner = "tie" -> "tie"

AxisValues == {"A", "B", "tie"}

LEMMA WinnersMirror ==
    ASSUME NEW ahead, NEW behind, ~(ahead /\ behind)
    PROVE  /\ Winner(ahead, behind) \in AxisValues
           /\ Winner(behind, ahead) = Mirror(Winner(ahead, behind))
BY DEF Winner, Mirror, AxisValues

LEMMA CountsMirror ==
    ASSUME NEW x, NEW y, Cardinality(x) \in Nat, Cardinality(y) \in Nat
    PROVE  /\ Winner(Fewer(x, y), Fewer(y, x)) \in AxisValues
           /\ Winner(Fewer(y, x), Fewer(x, y)) = Mirror(Winner(Fewer(x, y), Fewer(y, x)))
<1>1. ~(Fewer(x, y) /\ Fewer(y, x))
  BY DEF Fewer
<1> QED  BY <1>1, WinnersMirror

LEMMA FractionsMirror ==
    ASSUME NEW x, IsFraction(x), NEW y, IsFraction(y), NEW tolerance \in Nat
    PROVE  /\ Beyond(x, y, tolerance) \in AxisValues
           /\ Beyond(y, x, tolerance) = Mirror(Beyond(x, y, tolerance))
<1>1. ~(Above(x, y, tolerance) /\ Above(y, x, tolerance))
  <2> DEFINE p == x[1] * y[2]
             q == y[1] * x[2]
             d == x[2] * y[2]
  <2>1. \A a, b \in Nat : a * b \in Nat /\ a * b = b * a
    OBVIOUS
  <2>2. p \in Nat /\ q \in Nat /\ d \in Nat /\ y[2] * x[2] = d
    BY <2>1 DEF IsFraction
  <2>3. \A a, b, c, t \in Nat : ~(t * (a - b) > c /\ t * (b - a) > c)
    <3>1. \A a, b, t \in Nat : t * (b - a) = -(t * (a - b)) /\ t * (a - b) \in Int
      OBVIOUS
    <3> QED  BY <3>1
  <2>4. /\ Above(x, y, tolerance) <=> tolerance * (p - q) > d
        /\ Above(y, x, tolerance) <=> tolerance * (q - p) > d
    BY <2>2 DEF Above
  <2> HIDE DEF p, q, d
  <2> QED  BY <2>2, <2>3, <2>4
<1> QED  BY <1>1, WinnersMirror DEF Beyond

LEMMA FirstDecidedOf4 ==
    ASSUME NEW w, NEW x, NEW y, NEW z
    PROVE  FirstDecided(<<w, x, y, z>>) =
             IF w # "tie" THEN w ELSE IF x # "tie" THEN x
             ELSE IF y # "tie" THEN y ELSE IF z # "tie" THEN z ELSE "even"
<1> DEFINE axes == <<w, x, y, z>>
           decided == {i \in DOMAIN axes : axes[i] # "tie"}
           first == FirstDecided(axes)
<1>1. /\ DOMAIN axes = {1, 2, 3, 4}
      /\ axes[1] = w /\ axes[2] = x /\ axes[3] = y /\ axes[4] = z
  OBVIOUS
<1>2. first = IF decided = {} THEN "even" ELSE axes[Min(decided)]
  BY DEF FirstDecided
<1> SUFFICES first = IF w # "tie" THEN w ELSE IF x # "tie" THEN x
                     ELSE IF y # "tie" THEN y ELSE IF z # "tie" THEN z ELSE "even"
  OBVIOUS
<1> HIDE DEF axes, first
<1>3. decided \in SUBSET {1, 2, 3, 4} /\ decided \in SUBSET Nat
      /\ \A i \in {1, 2, 3, 4} : i \in decided <=> axes[i] # "tie"
  BY <1>1
<1> HIDE DEF decided
<1>4. CASE decided = {}
  BY <1>1, <1>2, <1>3, <1>4
<1>5. CASE decided # {}
  <2>1. Min(decided) \in decided /\ \A i \in decided : Min(decided) <= i
    BY <1>3, <1>5, MinOfNaturals
  <2>2. PICK m : m = Min(decided)
    OBVIOUS
  <2>3. first = axes[m] /\ m \in {1, 2, 3, 4} /\ axes[m] # "tie"
        /\ \A i \in {1, 2, 3, 4} : axes[i] # "tie" => m <= i
    BY <1>2, <1>3, <1>5, <2>1, <2>2
  <2> QED  BY <1>1, <2>3
<1> QED  BY <1>4, <1>5

LEMMA VerdictsMirror ==
    ASSUME NEW a, Scored(a), NEW b, Scored(b)
    PROVE  /\ AxisTable(a, b).integrity # "tie" =>
                 OverallVerdict(a, b) = AxisTable(a, b).integrity
           /\ OverallVerdict(a, b) = OverallVerdict(b, a) => OverallVerdict(a, b) = "even"
<1> DEFINE Integrity1 == Winner(Fewer(IntegrityLedger(a), IntegrityLedger(b)),
                                Fewer(IntegrityLedger(b), IntegrityLedger(a)))
           Integrity2 == Winner(Fewer(IntegrityLedger(b), IntegrityLedger(a)),
                                Fewer(IntegrityLedger(a), IntegrityLedger(b)))
           Must1 == Winner(Fewer(MustFailures(a), MustFailures(b)),
                           Fewer(MustFailures(b), MustFailures(a)))
           Must2 == Winner(Fewer(MustFailures(b), MustFailures(a)),
                           Fewer(MustFailures(a), MustFailures(b)))
           Score1 == Beyond(ConformanceScore(a), ConformanceScore(b), 2000)
           Score2 == Beyond(ConformanceScore(b), ConformanceScore(a), 2000)
           Index1 == Beyond(ResilienceIndex(a), ResilienceIndex(b), 1000)
           Index2 == Beyond(ResilienceIndex(b), ResilienceIndex(a), 1000)
<1>1. /\ AxisTable(a, b).integrity = Integrity1 /\ AxisTable(b, a).integrity = Integrity2
      /\ AxisTable(a, b).must = Must1 /\ AxisTable(b, a).must = Must2
  BY DEF AxisTable
<1>2. Integrity1 \in AxisValues /\ Integrity2 = Mirror(Integrity1)
  <2>1. IntegrityLedger(a) \in SUBSET DOMAIN a /\ IntegrityLedger(b) \in SUBSET DOMAIN b
    BY DEF IntegrityLedger
  <2> QED  BY <2>1, IndicesAreFinite, CountsMirror
<1>3. Must1 \in AxisValues /\ Must2 = Mirror(Must1)
  <2>1. MustFailures(a) \in SUBSET DOMAIN a /\ MustFailures(b) \in SUBSET DOMAIN b
    BY DEF MustFailures, WithOutcome
  <2> QED  BY <2>1, IndicesAreFinite, CountsMirror
<1>4. Score1 \in AxisValues /\ Score2 = Mirror(Score1)
  BY ConformanceIsFraction, FractionsMirror
<1>5. Index1 \in AxisValues /\ Index2 = Mirror(Index1)
  BY ResilienceIsFraction, FractionsMirror
<1>6. OverallVerdict(a, b) = FirstDecided(<<Integrity1, Must1, Score1, Index1>>)
      /\ OverallVerdict(b, a) = FirstDecided(<<Integrity2, Must2, Score2, Index2>>)
  BY <1>1 DEF OverallVerdict
<1> HIDE DEF Integrity1, Integrity2, Must1, Must2, Score1, Score2, Index1, Index2
<1> QED  BY <1>1, <1>2, <1>3, <1>4, <1>5, <1>6, FirstDecidedOf4 DEF AxisValues, Mirror

(* A divergence is shown exactly if no later record has its key.           *)
LastOfKey(records, i) ==
    \A j \in i + 1 .. Len(records) : RecordKey(records[j]) # RecordKey(records[i])

LEMMA LastRecordOfKey ==
    ASSUME NEW records, Scored(records), NEW key \in Keys(records)
    PROVE  LET m == Max({i \in DOMAIN records : RecordKey(records[i]) = key})
           IN  /\ m \in DOMAIN records /\ RecordKey(records[m]) = key
               /\ LastOfKey(records, m)
               /\ \A i \in DOMAIN records :
                     RecordKey(records[i]) = key /\ LastOfKey(records, i) => i = m
<1> DEFINE S == {i \in DOMAIN records : RecordKey(records[i]) = key}
           m == Max(S)
<1>1. Len(records) \in Nat /\ DOMAIN records = 1 .. Len(records)
  BY DEF Scored
<1>2. S # {} /\ S \in SUBSET (0 .. Len(records))
  BY <1>1 DEF Keys
<1>3. m \in S /\ \A i \in S : m >= i
  BY <1>1, <1>2, MaxOfNaturals
<1> SUFFICES /\ m \in DOMAIN records /\ RecordKey(records[m]) = key
             /\ LastOfKey(records, m)
             /\ \A i \in DOMAIN records :
                   RecordKey(records[i]) = key /\ LastOfKey(records, i) => i = m
  OBVIOUS
<1>4. \A i \in DOMAIN records : i \in S <=> RecordKey(records[i]) = key
  OBVIOUS
<1>5. m \in DOMAIN records /\ RecordKey(records[m]) = key
  BY <1>3
<1> HIDE DEF m, S
<1>6. LastOfKey(records, m)
  <2> SUFFICES ASSUME NEW j \in m + 1 .. Len(records), RecordKey(records[j]) = key
               PROVE  FALSE
    BY <1>5 DEF LastOfKey
  <2>1. m \in Nat /\ j \in DOMAIN records /\ j > m
    BY <1>1, <1>5
  <2> QED  BY <1>3, <1>4, <2>1
<1>7. ASSUME NEW i \in DOMAIN records, RecordKey(records[i]) = key, LastOfKey(records, i),
             i # m
      PROVE  FALSE
  <2>1. m >= i /\ m \in Nat /\ i \in Nat
    BY <1>1, <1>3, <1>4, <1>5, <1>7
  <2>2. m \in i + 1 .. Len(records)
    BY <1>1, <1>5, <1>7, <2>1
  <2> QED  BY <1>5, <1>7, <2>2 DEF LastOfKey
<1> QED  BY <1>5, <1>6, <1>7

LEMMA DivergencesAreShown ==
    ASSUME NEW records, Scored(records), NEW rival, DOMAIN rival = DOMAIN records,
           \A i \in DOMAIN records : RecordKey(rival[i]) = RecordKey(records[i])
    PROVE  Divergences(records, rival) =
             {RecordKey(records[i]) :
                i \in {i \in DOMAIN records : /\ Diverge(records[i], rival[i])
                                              /\ LastOfKey(records, i)}}
<1>1. Keys(rival) = Keys(records)
  BY DEF Keys
<1> DEFINE Of(key) == {i \in DOMAIN records : RecordKey(records[i]) = key}
<1>2. ASSUME NEW key \in Keys(records)
      PROVE  /\ ByKey(records, key) = records[Max(Of(key))]
             /\ ByKey(rival, key) = rival[Max(Of(key))]
  <2>1. {i \in DOMAIN rival : RecordKey(rival[i]) = key} = Of(key)
    OBVIOUS
  <2> QED  BY <2>1 DEF ByKey
<1>3. \A key \in Keys(records) :
         /\ Max(Of(key)) \in DOMAIN records /\ RecordKey(records[Max(Of(key))]) = key
         /\ LastOfKey(records, Max(Of(key)))
         /\ \A i \in DOMAIN records :
               RecordKey(records[i]) = key /\ LastOfKey(records, i) => i = Max(Of(key))
  BY LastRecordOfKey
<1>4. \A i \in DOMAIN records : RecordKey(records[i]) \in Keys(records)
  BY DEF Keys
<1> HIDE DEF Of
<1>5. Divergences(records, rival) =
         {key \in Keys(records) : Diverge(records[Max(Of(key))], rival[Max(Of(key))])}
  BY <1>1, <1>2 DEF Divergences
<1> QED  BY <1>3, <1>4, <1>5
=============================================================================
