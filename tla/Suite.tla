------------------------------- MODULE Suite -------------------------------
(***************************************************************************)
(* run_suite of src/src/runner/runner.cpp with all that it drives: it      *)
(* walks the test registry, runs the transfers of each test through        *)
(* TransferDriver, judges them (Verdicts), appends the records to the      *)
(* MetricsStore, and the reports (Scorecard) read the store.  The process  *)
(* may die at any step.                                                    *)
(*                                                                         *)
(* The tests are those of TestRegistry.                                    *)
(***************************************************************************)
EXTENDS TransferDriver, Verdicts, MetricsStore, Scorecard

CONSTANTS
    Configs   \* [plan, client, supported]: the tests that the filter leaves,
              \* the client adapter, and what both adapters support

(* The tests that are left are some, each once; they are of the known      *)
(* kinds and severities, and each drives at least one transfer, of a       *)
(* fixture; the intensities of a sweep differ (0 is none).  "earlier" is   *)
(* the test of an earlier run.                                             *)
IsPlan(plan) ==
    /\ Len(plan) \in Nat \ {0} /\ DOMAIN plan = 1 .. Len(plan)
    /\ \A i, j \in DOMAIN plan : plan[i].id = plan[j].id => i = j
    /\ \A i \in DOMAIN plan :
          /\ plan[i].kind \in Kinds /\ plan[i].direction \in {"Download", "Upload"}
          /\ plan[i].severity \in Severities /\ plan[i].id # "earlier"
          /\ DOMAIN plan[i].capabilities \subseteq Nat
          /\ Len(plan[i].fixtures) \in Nat \ {0}
          /\ DOMAIN plan[i].fixtures = 1 .. Len(plan[i].fixtures)
          /\ \A k \in DOMAIN plan[i].fixtures :
                /\ plan[i].fixtures[k] \notin {"none", "old", "other"}
                /\ plan[i].points[k] \in Nat
                /\ \A l \in DOMAIN plan[i].fixtures :
                      plan[i].points[k] = plan[i].points[l] => plan[i].points[k] = 0 \/ k = l

ASSUME ConfigAssumption == \A c \in Configs : IsPlan(c.plan)

VARIABLES
    config,
    pc,       \* "opening", "testing", "driving", "recording", "closed", "dead"
    at,       \* the number of the test
    judged,   \* the records of the test not yet appended
    summary   \* RunSummary

runnerVars == <<config, pc, at, judged, summary>>
vars == <<runnerVars, driverVars, storeVars>>

Test == config.plan[at]

Record(test, label, verdict, success, missing) ==
    [test |-> test.id, section |-> test.section, label |-> label,
     outcome |-> verdict.outcome, severity |-> verdict.severity,
     integrityViolation |-> verdict.integrityViolation, ungraceful |-> verdict.ungraceful,
     success |-> success, missing |-> missing]

EarlierRun ==
    <<Header, Metric(Record([id |-> "earlier", section |-> "A"], 0, Passed("Major"), FALSE, ""))>>

Init ==
    /\ config \in Configs
    /\ pc = "opening" /\ at = 1 /\ judged = <<>>
    /\ summary = [total |-> 0, Pass |-> 0, Fail |-> 0, Skipped |-> 0]
    /\ DriverInit
    /\ StoreInit(EarlierRun)

-----------------------------------------------------------------------------
(* Nobody looks whether the store could be opened.                         *)
OpenStore ==
    /\ pc = "opening" /\ Open
    /\ pc' = "testing"
    /\ UNCHANGED <<config, at, judged, summary, driverVars>>

(* The capabilities are resolved first; the record names the first that    *)
(* is missing.                                                             *)
Lacking(test, supported) ==
    {i \in DOMAIN test.capabilities : test.capabilities[i] \notin supported}
FirstMissing(test, supported) == test.capabilities[Min(Lacking(test, supported))]
Missing == Lacking(Test, config.supported)

SkipUnsupported ==
    /\ pc = "testing" /\ Missing # {}
    /\ judged' = <<Record(Test, 0, SkippedAs("Info"), FALSE,
                         FirstMissing(Test, config.supported))>>
    /\ pc' = "recording"
    /\ UNCHANGED <<config, at, summary, driverVars, storeVars>>

(* The facts of the observer that the judge of a kind reads.               *)
ReadFacts ==
    CASE Test.kind = "final_block" -> {"shortBlock"}
      [] Test.kind = "fresh_tid" -> {"freshTid"}
      [] Test.kind = "apprentice" -> {"retransmitted"}
      [] OTHER -> {}

(* The seed index, which also names the work directory: that of the point  *)
(* in a sweep, and otherwise the same for all transfers of a test.         *)
SeedIndex == IF Test.kind = "sweep" THEN Len(judged) ELSE 0
Label == Test.points[Len(judged) + 1]

(* make_request.                                                           *)
Request ==
    [client |-> config.client, direction |-> Test.direction,
     fixture |-> Test.fixtures[Len(judged) + 1],
     dir |-> <<Test.id, SeedIndex>>,
     plant |-> Test.kind = "file_exists",
     stage |-> Test.kind \notin {"file_not_found", "access_violation"},
     outside |-> Test.kind = "access_violation",
     faulty |-> Test.faulty, unsupported |-> Test.unsupported,
     reads |-> ReadFacts]

BeginTransfer ==
    /\ pc = "testing" /\ Missing = {}
    /\ DriveTransfer(Request) \/ SetupFails(Request)
    /\ pc' = "driving"
    /\ UNCHANGED <<config, at, judged, summary, storeVars>>

(* A test that throws leaves one record, and none of the points of its     *)
(* sweep that were driven before.                                          *)
TestThrows ==
    /\ pc = "testing" /\ Missing = {}
    /\ ServerThrows(Request)
    /\ judged' = <<Record(Test, 0, Hung(Test.severity), FALSE, "")>>
    /\ pc' = "recording"
    /\ UNCHANGED <<config, at, summary, storeVars>>

CurrentVerdict == Judge(Test.kind, result, Test.severity)

(* The transfer is judged; after the last one the test returns.            *)
JudgeTransfer ==
    /\ pc = "driving" /\ driver = "compared"
    /\ LET records == Append(judged, Record(Test, Label, CurrentVerdict,
                                            Test.kind = "sweep" /\ ByteExact(result), ""))
           done == Len(records) = Len(Test.fixtures)
       IN  /\ judged' = IF done /\ Test.kind = "churn"
                        THEN <<Record(Test, 0, Collapse(records, Test.severity), FALSE, "")>>
                        ELSE records
           /\ pc' = IF done THEN "recording" ELSE "testing"
    /\ UNCHANGED <<config, at, summary, driverVars, storeVars>>

(* A plausible bug: a skipped record is not a result.                      *)
CountUnlessSkipped(record) ==
    IF record.outcome = "Skipped" THEN summary
    ELSE [summary EXCEPT !.total = @ + 1, ![record.outcome] = @ + 1]

CountRecord(record) == [summary EXCEPT !.total = @ + 1, ![record.outcome] = @ + 1]

RecordResult ==
    /\ pc = "recording" /\ judged # <<>>
    /\ AppendRecord(Head(judged))
    /\ summary' = CountRecord(Head(judged))
    /\ judged' = Tail(judged)
    /\ UNCHANGED <<config, pc, at, driverVars>>

NextTest ==
    /\ pc = "recording" /\ judged = <<>> /\ at < Len(config.plan)
    /\ at' = at + 1 /\ pc' = "testing"
    /\ UNCHANGED <<config, judged, summary, driverVars, storeVars>>

CloseStore ==
    /\ pc = "recording" /\ judged = <<>> /\ at = Len(config.plan)
    /\ Close
    /\ pc' = "closed"
    /\ UNCHANGED <<config, at, judged, summary, driverVars>>

RunnerStep ==
    \/ OpenStore
    \/ SkipUnsupported
    \/ BeginTransfer
    \/ TestThrows
    \/ JudgeTransfer
    \/ RecordResult
    \/ NextTest
    \/ CloseStore

(* The process dies with all its threads.                                  *)
Die ==
    /\ pc \in {"testing", "driving", "recording"}
    /\ pc' = "dead"
    /\ IF pc = "recording" /\ judged # <<>> THEN DieAppending(Head(judged))
       ELSE UNCHANGED storeVars
    /\ UNCHANGED <<config, at, judged, summary, driverVars>>

(* The threads and the child of the transfer that is driven.               *)
During(Step) == pc = "driving" /\ Step /\ UNCHANGED <<runnerVars, storeVars>>

Driver == During(DriverStep)
Server == During(ServerStep)
Worker == During(WorkerStep)
ChildEnds == During(ChildExits)
ChildActs == During(ChildWrites \/ ChildDetaches)

Over == pc \in {"closed", "dead"}
Ended == Over /\ UNCHANGED vars

Next ==
    \/ RunnerStep
    \/ Die
    \/ Driver
    \/ Server
    \/ Worker
    \/ ChildEnds
    \/ ChildActs
    \/ Ended

(* The threads are scheduled; a child process need not ever end.           *)
ThreadFairness ==
    /\ WF_vars(RunnerStep) /\ WF_vars(Driver) /\ WF_vars(Server) /\ WF_vars(Worker)

StuckSpec == Init /\ [][Next]_vars /\ ThreadFairness

(* The clients that end, in order or not.                                  *)
Spec == StuckSpec /\ WF_vars(ChildEnds)

-----------------------------------------------------------------------------
(* The variables have their types; the summary is that of the records, and *)
(* nothing of a transfer runs unless the runner is driving it.             *)
SuiteTypeOK ==
    /\ config \in Configs /\ at \in DOMAIN config.plan
    /\ pc \in {"opening", "testing", "driving", "recording", "closed", "dead"}
    /\ driver \in {"idle", "watching", "stopping", "draining", "joining", "compared"}
    /\ worker \in {"none", "running", "returned"}
    /\ child \in {"none", "running", "detached", "exited"}
    /\ acceptor \in {"off", "accepting", "draining"}
    /\ handlers \in [Handlers -> {"none", "started", "serving", "dallying", "stored", "ended"}]
    /\ isOpen \in BOOLEAN /\ watchdog \in BOOLEAN
    /\ summary.total = Len(memory)
    /\ \A outcome \in Outcomes :
          summary[outcome] = Cardinality(WithOutcome(memory, outcome))
    /\ pc \in {"opening", "testing", "recording", "closed"} =>
          worker = "none" /\ acceptor = "off" /\ Active = {}

(* Nothing that could still write the files of a transfer is left when     *)
(* they are compared: neither the client nor its child nor a handler of    *)
(* the server, also if the watchdog fired; the verdict is of what the      *)
(* files are from then on.                                                 *)
ComparedFilesAreFinal ==
    driver = "compared" =>
        /\ worker = "none" /\ child \in {"none", "exited"}
        /\ acceptor = "off" /\ Active = {}
        /\ ~result.setupFailed => result.integrity = Integrity(Here)

(* What a test of delivery passes was reported as complete, within the     *)
(* watchdog, and left the fixture at its destination - written by this     *)
(* transfer, or by an earlier one of the test that moved the same fixture; *)
(* corruption that was reported as a success never passes, nor does a hang *)
(* (but for the test of the TID, which looks at nothing else), and what    *)
(* the client cannot express is skipped.                                   *)
VerdictIsDeserved ==
    pc = "driving" /\ driver = "compared" =>
        LET delivered == IF Download THEN Here.local ELSE Here.served
            passed == CurrentVerdict.outcome = "Pass"
        IN  /\ passed /\ Test.kind \in DeliveryKinds =>
                  /\ result.completed /\ ~watchdog
                  /\ delivered = request.fixture
                  /\ Download /\ ~app.wrote =>
                        \E k \in DOMAIN judged : Test.fixtures[k] = request.fixture
            /\ Corrupt(result) /\ Test.kind \in DeliveryKinds \cup {"sweep"} => ~passed
            /\ watchdog /\ Test.kind # "fresh_tid" => ~passed
            /\ result.unsupported /\ Test.kind = "byte_exact" =>
                  CurrentVerdict.outcome = "Skipped"

(* Once the store is open, what load finds in the file is what was written *)
(* to it, in order and nothing of an earlier run, also after a death: of   *)
(* the records that were appended it costs at most the one that was being  *)
(* written.  The points of a sweep that are judged and not yet appended    *)
(* are lost with it, and so is a record whose append could not open the    *)
(* file.                                                                   *)
CrashKeepsResults ==
    isOpen =>
        \/ Load(file) = written
        \/ /\ pc = "dead" /\ judged # <<>>
           /\ Load(file) = Append(written, Head(judged))

(* The runs that differ from one in a record's verdict.                    *)
Judged(record, verdict) ==
    [record EXCEPT !.outcome = verdict.outcome, !.severity = verdict.severity,
        !.integrityViolation = verdict.integrityViolation,
        !.ungraceful = verdict.ungraceful]

Rivals(records) ==
    {[records EXCEPT ![i] = Judged(@, verdict)] :
        i \in DOMAIN records,
        verdict \in {Passed("Major"), Hung("Critical"), Corrupted("Critical")}}

(* The recorded tests that cannot run.                                     *)
SkippedTests(records) ==
    {i \in DOMAIN config.plan : /\ Lacking(config.plan[i], config.supported) # {}
                                /\ \E k \in DOMAIN records :
                                      records[k].test = config.plan[i].id}

ReportIsTrueOf(records) ==
    /\ ReportedUnsupported(records) =
          Capabilities \cap {FirstMissing(config.plan[i], config.supported) :
                                i \in SkippedTests(records)}
    /\ \A test \in Curves(records) :
          LET area == CurveArea(records, test)
              points == {i \in DOMAIN records : records[i].test = test /\ records[i].label > 0}
          IN  /\ 0 <= area[1] /\ area[1] <= area[2]
              /\ area[1] = area[2] <=> \A i \in points : records[i].success
    /\ \A rival \in Rivals(records) :
          LET differ == {i \in DOMAIN records : Diverge(records[i], rival[i])}
              latest == {i \in differ : \A j \in i + 1 .. Len(records) :
                                           RecordKey(records[j]) # RecordKey(records[i])}
              table == AxisTable(records, rival)
              verdict == OverallVerdict(records, rival)
          IN  /\ Divergences(records, rival) = {RecordKey(records[i]) : i \in latest}
              /\ table.integrity # "tie" => verdict = table.integrity
              /\ verdict = OverallVerdict(rival, records) => verdict = "even"

(* What is reported of a run that ended follows from what is in its file:  *)
(* the matrix calls unsupported exactly what a recorded test was skipped   *)
(* for, its first missing capability (one that is never the first is not   *)
(* called unsupported); every curve has its area between nothing and       *)
(* everything, everything only if all of its points succeeded; and against *)
(* a run that differs in one record, a divergence is shown exactly if that *)
(* is the latest record of its key, the verdict follows integrity first,   *)
(* and is not the same for the runs in either order unless it is even.     *)
ReportIsHonest == Over => ReportIsTrueOf(Load(file))

(* The comparison shows every record in which two runs differ, as the docs *)
(* have it.                                                                *)
EveryDivergenceIsTraced ==
    pc = "closed" =>
        LET records == Load(file)
        IN  \A rival \in Rivals(records) : \A i \in DOMAIN records :
                Diverge(records[i], rival[i])
                    => RecordKey(records[i]) \in Divergences(records, rival)

(* The suite ends, whatever the transfers do, if the clients end.          *)
SuiteEnds == <>Over

(* A sweep's finished points reach the store, whatever a later point does, *)
(* as the docs have it: none waits for ever in a run that goes on.         *)
FinishedPointsReachTheStore == judged # <<>> ~> (judged = <<>> \/ Over)
=============================================================================
