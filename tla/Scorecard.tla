------------------------------ MODULE Scorecard ------------------------------
(***************************************************************************)
(* What the reports say of a store's records: analyze of                   *)
(* src/src/report/report_model.cpp and the comparison of two scorecards in *)
(* src/src/report/comparison_report.cpp.  A score is a fraction            *)
(* <<numerator, denominator>>; the throughput axis and the rendering are   *)
(* left out.                                                               *)
(*                                                                         *)
(* A record has the fields of a verdict and test, section, label (0: no    *)
(* intensity label, else the sweep's intensity), success (the counter of   *)
(* the sweeps) and missing (the capability its narrative names).           *)
(***************************************************************************)
EXTENDS Integers, Sequences, FiniteSetsExt

CONSTANT Capabilities   \* those of the capability matrix

(* The empty string is the name of none.                                   *)
ASSUME CapabilityAssumption == "" \notin Capabilities

SeverityWeight(severity) ==
    CASE severity = "Critical" -> 9
      [] severity = "Major" -> 3
      [] severity = "Minor" -> 1
      [] severity = "Info" -> 0

ConformanceSections == {"A", "B", "C", "D", "E", "G"}

-----------------------------------------------------------------------------
(* analyze.                                                                *)
WithOutcome(records, outcome) ==
    {i \in DOMAIN records : records[i].outcome = outcome}

(* The failures a report never averages away, and the integrity ledger.    *)
MustFailures(records) ==
    {i \in WithOutcome(records, "Fail") : records[i].severity = "Critical"}
IntegrityLedger(records) == {i \in DOMAIN records : records[i].integrityViolation}

Weight(records, indices) ==
    MapThenSumSet(LAMBDA i : SeverityWeight(records[i].severity), indices)

(* A section's weighted score, and the score over several sections; 0 of 0 *)
(* counts as 0 of 1.                                                       *)
Fraction(n, d) == IF d = 0 THEN <<0, 1>> ELSE <<n, d>>

ScoreOf(records, sections) ==
    LET counted == {i \in DOMAIN records :
                       records[i].section \in sections /\ records[i].outcome # "Skipped"}
    IN  Fraction(Weight(records, counted \cap WithOutcome(records, "Pass")),
                 Weight(records, counted))

ConformanceScore(records) == ScoreOf(records, ConformanceSections)

(* A resilience curve: the success at each intensity of an F test, and the *)
(* area under it by the trapezoidal rule over the observed range.          *)
Points(records) == {i \in DOMAIN records : records[i].section = "F" /\ records[i].label > 0}

CurvePoints(records, test) == {i \in Points(records) : records[i].test = test}

Highest(records, points) ==
    CHOOSE i \in points : \A j \in points : records[j].label <= records[i].label
Lowest(records, points) ==
    CHOOSE i \in points : \A j \in points : records[i].label <= records[j].label

Height(record) == IF record.success THEN 1 ELSE 0

(* Twice the trapezoid between a point and the next one below it (a run    *)
(* has one record of a test at each intensity).                            *)
Strip(records, points, i) ==
    LET below == {j \in points : records[j].label < records[i].label}
        previous == records[Highest(records, below)]
    IN  IF below = {} THEN 0
        ELSE (records[i].label - previous.label) * (Height(records[i]) + Height(previous))

CurveArea(records, test) ==
    LET points == CurvePoints(records, test)
        first == records[Lowest(records, points)]
        last == records[Highest(records, points)]
    IN  IF Cardinality(points) = 1 THEN <<Height(last), 1>>
        ELSE Fraction(MapThenSumSet(LAMBDA i : Strip(records, points, i), points),
                      2 * (last.label - first.label))

Curves(records) == {records[i].test : i \in Points(records)}

Plus(x, y) == <<x[1] * y[2] + y[1] * x[2], x[2] * y[2]>>

ResilienceIndex(records) ==
    LET tests == Curves(records)
        sum == FoldSet(LAMBDA test, acc : Plus(CurveArea(records, test), acc), <<0, 1>>, tests)
    IN  Fraction(sum[1], sum[2] * Cardinality(tests))

(* The share of the failures that ended in order.                          *)
GracefulRate(records) ==
    LET failed == WithOutcome(records, "Fail")
        clean == {i \in failed : ~records[i].ungraceful}
    IN  IF failed = {} THEN <<1, 1>> ELSE <<Cardinality(clean), Cardinality(failed)>>

(* A capability is reported unsupported if the narrative of a skipped      *)
(* record names it.                                                        *)
ReportedUnsupported(records) ==
    {records[i].missing : i \in WithOutcome(records, "Skipped")} \cap Capabilities

-----------------------------------------------------------------------------
(* The comparison of two runs.                                             *)
RecordKey(record) == <<record.test, record.label>>
Keys(records) == {RecordKey(records[i]) : i \in DOMAIN records}

(* A map keeps the last record of a key.                                   *)
ByKey(records, key) ==
    records[Max({i \in DOMAIN records : RecordKey(records[i]) = key})]

Diverge(ra, rb) ==
    \/ ra.outcome # rb.outcome
    \/ ra.integrityViolation # rb.integrityViolation

Divergences(a, b) ==
    {key \in Keys(a) \cap Keys(b) : Diverge(ByKey(a, key), ByKey(b, key))}

(* Whether the fractions differ by more than one in the tolerance.         *)
Above(x, y, tolerance) ==
    tolerance * (x[1] * y[2] - y[1] * x[2]) > x[2] * y[2]

Fewer(x, y) == Cardinality(x) < Cardinality(y)
Larger(x, y) == x[1] * y[2] > y[1] * x[2]

(* The scoring axes of the table; any difference makes a winner.           *)
Winner(ahead, behind) == IF ahead THEN "A" ELSE IF behind THEN "B" ELSE "tie"

AxisTable(a, b) ==
    LET ByScore(Score(_)) == Winner(Larger(Score(a), Score(b)), Larger(Score(b), Score(a)))
        ByCount(Set(_)) == Winner(Fewer(Set(a), Set(b)), Fewer(Set(b), Set(a)))
    IN  [conformance |-> ByScore(ConformanceScore), must |-> ByCount(MustFailures),
         resilience |-> ByScore(ResilienceIndex), integrity |-> ByCount(IntegrityLedger),
         graceful |-> ByScore(GracefulRate)]

Beyond(x, y, tolerance) == Winner(Above(x, y, tolerance), Above(y, x, tolerance))

FirstDecided(axes) ==
    LET decided == {i \in DOMAIN axes : axes[i] # "tie"}
    IN  IF decided = {} THEN "even" ELSE axes[Min(decided)]

(* A plausible bug: the must failures are looked at before the integrity.  *)
MustFailuresFirst(a, b) ==
    FirstDecided(<<AxisTable(a, b).must, AxisTable(a, b).integrity,
                   Beyond(ConformanceScore(a), ConformanceScore(b), 2000),
                   Beyond(ResilienceIndex(a), ResilienceIndex(b), 1000)>>)

(* The verdict: integrity first, then the must failures, the score and the *)
(* resilience, which must differ by more than their tolerance.             *)
OverallVerdict(a, b) ==
    FirstDecided(<<AxisTable(a, b).integrity, AxisTable(a, b).must,
                   Beyond(ConformanceScore(a), ConformanceScore(b), 2000),
                   Beyond(ResilienceIndex(a), ResilienceIndex(b), 1000)>>)
=============================================================================
