---------------------------- MODULE SuiteProofs ----------------------------
(***************************************************************************)
(* Proofs about the suite: when drive_transfer compares the files of a     *)
(* transfer, nothing that could still write them is left; a crash at any   *)
(* moment costs no result that was recorded; the variables keep their      *)
(* types, the counts of the summary among them; every verdict that is      *)
(* recorded is the one the transfer deserved; and the reports are true to  *)
(* what is loaded.  They need no fairness, so they hold of StuckSpec and,  *)
(* with it, of Spec.                                                       *)
(***************************************************************************)
EXTENDS Suite, ResultProofs, FiniteSetTheorems, TLAPS

(* Between two transfers nothing of the last one runs.                     *)
Quiet ==
    /\ worker = "none" /\ child \in {"none", "exited"}
    /\ acceptor = "off" /\ Active = {}

QuietBetween == driver \in {"idle", "compared"} => Quiet

(* accept_loop returns only when no handler is left, stop joins it ...     *)
AcceptorLast ==
    /\ acceptor = "off" => Active = {}
    /\ driver = "joining" => acceptor = "off"

(* ... and the worker returns only when there is no child any more.        *)
WorkerLast ==
    /\ worker = "returned" => child \in {"none", "exited"}
    /\ worker = "running" /\ request.client = "reference" => child = "none"

(* What was compared is what the files are.                                *)
VerdictStands ==
    driver = "compared" /\ ~result.setupFailed => result.integrity = Integrity(Here)

TeardownInv == QuietBetween /\ AcceptorLast /\ WorkerLast /\ VerdictStands

LEMMA InitTeardown == Init => TeardownInv
BY DEF Init, DriverInit, Idle, TeardownInv, QuietBetween, Quiet, AcceptorLast,
       WorkerLast, VerdictStands, Active

(* A transfer begins or fails to when the last one was compared.           *)
LEMMA BeginPreserves ==
    ASSUME TeardownInv, NEW r, DriveTransfer(r) \/ SetupFails(r) \/ ServerThrows(r)
    PROVE  TeardownInv'
<1> USE DEF TeardownInv, QuietBetween, Quiet, AcceptorLast, WorkerLast, VerdictStands
<1>1. CASE DriveTransfer(r)
  BY <1>1 DEF DriveTransfer, Idle, Active
<1>2. CASE SetupFails(r)
  BY <1>2 DEF SetupFails, processVars, Active, NoResult
<1>3. CASE ServerThrows(r)
  BY <1>3 DEF ServerThrows, processVars, Active
<1> QED  BY <1>1, <1>2, <1>3

(* A step of the server happens before stop has joined accept_loop.        *)
LEMMA ServerPreserves ==
    ASSUME TeardownInv, ServerStep
    PROVE  TeardownInv'
<1> USE DEF TeardownInv, QuietBetween, Quiet, AcceptorLast, WorkerLast, VerdictStands
<1>1. CASE AcceptRequest
  BY <1>1 DEF AcceptRequest
<1>2. CASE AcceptorLeaves
  BY <1>2 DEF AcceptorLeaves
<1>3. CASE AcceptorEnds
  BY <1>3 DEF AcceptorEnds, Drained, Active
<1>4. ASSUME NEW h \in Handlers,
             HandlerAnswers(h) \/ HandlerReceives(h) \/ HandlerStores(h) \/ HandlerEnds(h)
      PROVE  TeardownInv'
  <2>1. h \in Active
    BY <1>4 DEF HandlerAnswers, HandlerReceives, HandlerStores, HandlerEnds, Active
  <2>2. acceptor # "off" /\ driver \notin {"idle", "joining", "compared"}
    BY <2>1
  <2>3. UNCHANGED <<request, driver, worker, child, acceptor>>
    BY <1>4 DEF HandlerAnswers, HandlerReceives, HandlerStores, HandlerEnds
  <2> QED  BY <2>2, <2>3
<1> QED  BY <1>1, <1>2, <1>3, <1>4 DEF ServerStep

(* A step of the worker happens while it runs, one of the child before the *)
(* worker has returned.                                                    *)
LEMMA ClientPreserves ==
    ASSUME TeardownInv, WorkerStep \/ ChildWrites \/ ChildExits \/ ChildDetaches
    PROVE  TeardownInv'
<1> USE DEF TeardownInv, QuietBetween, Quiet, AcceptorLast, WorkerLast, VerdictStands
<1>1. CASE WorkerStep
  <2>1. /\ worker = "running" /\ worker' = "returned" /\ child' \in {"none", "exited"}
        /\ UNCHANGED <<request, driver, acceptor, handlers>>
    <3>1. CASE ClientCompletes
      BY <3>1 DEF ClientCompletes, Return
    <3>2. CASE ClientGivesUp
      BY <3>2 DEF ClientGivesUp, Return
    <3>3. CASE SubprocessExited
      BY <3>3 DEF SubprocessExited, Return
    <3>4. CASE SubprocessTimesOut
      BY <3>4 DEF SubprocessTimesOut, Return
    <3> QED  BY <1>1, <3>1, <3>2, <3>3, <3>4 DEF WorkerStep
  <2>2. driver \notin {"idle", "compared"}
    BY <2>1
  <2> QED  BY <2>1, <2>2 DEF Active
<1>2. CASE ChildWrites \/ ChildExits \/ ChildDetaches
  <2>1. /\ child \in {"running", "detached"}
        /\ child' \in {"running", "detached", "exited"}
        /\ UNCHANGED <<request, driver, worker, acceptor, handlers>>
    BY <1>2 DEF ChildWrites, ChildExits, ChildDetaches, ChildStops
  <2>2. driver \notin {"idle", "compared"} /\ worker # "returned"
    BY <2>1
  <2> QED  BY <2>1, <2>2 DEF Active
<1> QED  BY <1>1, <1>2

(* drive_transfer compares after it joined the server and the worker.      *)
LEMMA DriverPreserves ==
    ASSUME TeardownInv, DriverStep
    PROVE  TeardownInv'
<1> USE DEF TeardownInv, QuietBetween, Quiet, AcceptorLast, WorkerLast, VerdictStands
<1>1. CASE SeeFinished \/ WatchdogFires
  BY <1>1 DEF SeeFinished, WatchdogFires, processVars, Active
<1>2. CASE StopProxy
  BY <1>2 DEF StopProxy, Active
<1>3. CASE JoinServer
  BY <1>3 DEF JoinServer, processVars, Active
<1>4. CASE Compare
  <2>1. /\ driver = "joining" /\ worker = "returned"
        /\ driver' = "compared" /\ worker' = "none"
        /\ UNCHANGED <<request, child, acceptor, handlers, disk>>
        /\ result'.integrity = Integrity(Here)
    BY <1>4 DEF Compare
  <2>2. Integrity(Here)' = Integrity(Here)
    BY <2>1 DEF Integrity, Here, Download
  <2> QED  BY <2>1, <2>2 DEF Active
<1> QED  BY <1>1, <1>2, <1>3, <1>4 DEF DriverStep

LEMMA NextTeardown == TeardownInv /\ [Next]_vars => TeardownInv'
<1> SUFFICES ASSUME TeardownInv, [Next]_vars  PROVE TeardownInv'
  OBVIOUS
<1>1. ASSUME UNCHANGED driverVars  PROVE TeardownInv'
  BY <1>1 DEF driverVars, processVars, TeardownInv, QuietBetween, Quiet, AcceptorLast,
              WorkerLast, VerdictStands, Active, Integrity, Here, Download
<1>2. CASE RunnerStep
  <2>1. CASE BeginTransfer
    BY <2>1, BeginPreserves DEF BeginTransfer
  <2>2. CASE TestThrows
    BY <2>2, BeginPreserves DEF TestThrows
  <2>3. CASE OpenStore \/ SkipUnsupported \/ JudgeTransfer \/ RecordResult
             \/ NextTest \/ CloseStore
    BY <2>3, <1>1 DEF OpenStore, SkipUnsupported, JudgeTransfer, RecordResult,
                      NextTest, CloseStore
  <2> QED  BY <1>2, <2>1, <2>2, <2>3 DEF RunnerStep
<1>3. CASE Die
  BY <1>3, <1>1 DEF Die
<1>4. CASE Driver
  BY <1>4, DriverPreserves DEF Driver, During
<1>5. CASE Server
  BY <1>5, ServerPreserves DEF Server, During
<1>6. CASE Worker \/ ChildEnds \/ ChildActs
  BY <1>6, ClientPreserves DEF Worker, ChildEnds, ChildActs, During
<1>7. CASE Ended \/ UNCHANGED vars
  BY <1>7, <1>1 DEF Ended, vars
<1> QED  BY <1>2, <1>3, <1>4, <1>5, <1>6, <1>7 DEF Next

(* When the files of a transfer are compared, the client, its child and    *)
(* every handler of the server are done with them, also after the watchdog *)
(* fired and also if clients may hang (drive_transfer's teardown order).   *)
THEOREM TeardownIsComplete == StuckSpec => []ComparedFilesAreFinal
<1>1. TeardownInv => ComparedFilesAreFinal
  BY DEF TeardownInv, QuietBetween, Quiet, VerdictStands, ComparedFilesAreFinal
<1> QED  BY <1>1, InitTeardown, NextTeardown, PTL DEF StuckSpec

-----------------------------------------------------------------------------
(* An open store's file is a sequence of lines.                            *)
StoreInv == isOpen => IsSeq(file) /\ CrashKeepsResults

LEMMA OpenStoreInv == Open /\ isOpen' => IsSeq(file') /\ Load(file') = written'
<1> SUFFICES ASSUME Open, isOpen' PROVE IsSeq(file') /\ Load(file') = written'
  OBVIOUS
<1>1. file' = <<Header>> /\ written' = <<>>
  BY DEF Open
<1>2. <<Header>> \in Seq({Header})
  OBVIOUS
<1> QED  BY <1>1, <1>2, LoadHeader DEF IsSeq

LEMMA AppendIsSeq ==
    ASSUME NEW s, IsSeq(s), NEW e
    PROVE  IsSeq(Append(s, e))
<1>1. PICK S : s \in Seq(S)
  BY DEF IsSeq
<1>2. Append(s, e) \in Seq(S \cup {e})
  <2>1. s \in Seq(S \cup {e})
    BY <1>1
  <2> QED  BY <2>1
<1> QED  BY <1>2 DEF IsSeq

(* A record that is appended whole is loaded after the others, a torn line *)
(* is not.                                                                 *)
LEMMA LoadAppended ==
    ASSUME IsSeq(file), NEW record
    PROVE  /\ IsSeq(Append(file, Metric(record))) /\ IsSeq(Append(file, Torn))
           /\ Load(Append(file, Metric(record))) = Append(Load(file), record)
           /\ Load(Append(file, Torn)) = Load(file)
BY AppendIsSeq, LoadAppend DEF Metric, Torn

LEMMA NextStoreInv == StoreInv /\ [Next]_vars => StoreInv'
<1> SUFFICES ASSUME StoreInv, [Next]_vars, isOpen'
             PROVE  IsSeq(file') /\ CrashKeepsResults'
  BY DEF StoreInv
<1>1. ASSUME UNCHANGED storeVars, pc # "dead"
      PROVE  IsSeq(file') /\ CrashKeepsResults'
  BY <1>1 DEF StoreInv, CrashKeepsResults, storeVars
<1>2. CASE OpenStore
  BY <1>2, OpenStoreInv DEF OpenStore, CrashKeepsResults
<1>3. CASE RecordResult
  <2>1. /\ isOpen /\ pc = "recording"
        /\ \/ /\ written' = Append(written, Head(judged))
              /\ file' = Append(file, Metric(Head(judged)))
           \/ UNCHANGED <<file, written>>
    BY <1>3 DEF RecordResult, AppendRecord, Write
  <2>2. IsSeq(file) /\ Load(file) = written
    BY <2>1 DEF StoreInv, CrashKeepsResults
  <2> QED  BY <2>1, <2>2, LoadAppended DEF CrashKeepsResults
<1>4. CASE CloseStore
  BY <1>4 DEF CloseStore, Close
<1>5. CASE Die
  <2>1. CASE UNCHANGED storeVars
    BY <1>5, <2>1, <1>1 DEF Die
  <2>2. CASE pc = "recording" /\ judged # <<>> /\ DieAppending(Head(judged))
    <3>1. /\ isOpen /\ written' = written /\ judged' = judged /\ pc' = "dead"
          /\ file' \in {file, Append(file, Torn), Append(file, Metric(Head(judged)))}
      BY <1>5, <2>2 DEF Die, DieAppending
    <3>2. IsSeq(file) /\ Load(file) = written
      BY <2>2, <3>1 DEF StoreInv, CrashKeepsResults
    <3> QED  BY <2>2, <3>1, <3>2, LoadAppended DEF CrashKeepsResults
  <2> QED  BY <1>5, <2>1, <2>2 DEF Die
<1>6. CASE SkipUnsupported \/ BeginTransfer \/ TestThrows \/ JudgeTransfer \/ NextTest
  BY <1>6, <1>1 DEF SkipUnsupported, BeginTransfer, TestThrows, JudgeTransfer, NextTest
<1>7. CASE Driver \/ Server \/ Worker \/ ChildEnds \/ ChildActs
  BY <1>7, <1>1 DEF Driver, Server, Worker, ChildEnds, ChildActs, During
<1>8. CASE Ended \/ UNCHANGED vars
  BY <1>8 DEF Ended, vars, runnerVars, storeVars, StoreInv, CrashKeepsResults
<1> QED  BY <1>2, <1>3, <1>4, <1>5, <1>6, <1>7, <1>8 DEF Next, RunnerStep

(* What load finds in the file of an open store is what append wrote to    *)
(* it: of that, a process that dies loses nothing, and it may leave the    *)
(* record that was being written, whole or not at all (open, append and    *)
(* load of the MetricsStore, for every plan).                              *)
THEOREM ResultsSurviveACrash == StuckSpec => []CrashKeepsResults
<1>1. Init => StoreInv
  BY DEF Init, StoreInit, StoreInv
<1>2. StoreInv => CrashKeepsResults
  BY DEF StoreInv, CrashKeepsResults
<1> QED  BY <1>1, <1>2, NextStoreInv, PTL DEF StuckSpec

-----------------------------------------------------------------------------
(* Where the runner and the driver are.                                    *)
PlacesInv ==
    /\ config \in Configs /\ at \in DOMAIN config.plan
    /\ pc \in {"opening", "testing", "driving", "recording", "closed", "dead"}
    /\ pc \in {"opening", "testing", "recording", "closed"} => driver \in {"idle", "compared"}
    /\ driver \in {"idle", "watching", "stopping", "draining", "joining", "compared"}
    /\ worker \in {"none", "running", "returned"}
    /\ child \in {"none", "running", "detached", "exited"}
    /\ acceptor \in {"off", "accepting", "draining"}
    /\ handlers \in [Handlers -> {"none", "started", "serving", "dallying", "stored", "ended"}]
    /\ isOpen \in BOOLEAN /\ watchdog \in BOOLEAN

(* What the summary says of the records, which are results.                *)
CountsOf(records) ==
    [total |-> Len(records),
     Pass |-> Cardinality(WithOutcome(records, "Pass")),
     Fail |-> Cardinality(WithOutcome(records, "Fail")),
     Skipped |-> Cardinality(WithOutcome(records, "Skipped"))]

CountsInv ==
    /\ IsSeq(memory) /\ IsSeq(judged)
    /\ \A i \in DOMAIN judged : judged[i].outcome \in Outcomes
    /\ summary = CountsOf(memory)
    /\ pc = "opening" => memory = <<>> /\ judged = <<>> /\ DOMAIN disk = {}

(* The transfer that is driven is the next of the test's.                  *)
TurnInv ==
    /\ pc \in {"testing", "driving"} => Len(judged) < Len(Test.fixtures)
    /\ pc = "driving" => request = Request

(* The work directories are those of the tests there have been.            *)
DiskInv ==
    \A dir \in DOMAIN disk :
        /\ DOMAIN disk[dir] = {"served", "local"}
        /\ \E j \in 1 .. at : dir[1] = config.plan[j].id

(* The fixture is where the transfer takes it from, and stays there.       *)
StagedInv ==
    pc = "driving" =>
        /\ request.dir \in DOMAIN disk
        /\ Download => \A h \in Handlers : handlers[h] \notin {"dallying", "stored"}
        /\ \/ driver = "compared" /\ result.setupFailed
           \/ (IF Download THEN request.stage => Here.served = request.fixture
               ELSE Here.local = request.fixture)

(* A fixture that a download left in the work directory was moved by it or *)
(* by an earlier one of the same test.                                     *)
Earlier == {"none", "other"} \cup {Test.fixtures[k] : k \in DOMAIN judged}
TestDir == <<Test.id, 0>>

LocalInv ==
    /\ "wrote" \in DOMAIN app
    /\ worker = "running" /\ request.client = "reference" => ~app.wrote
    /\ /\ pc \in {"testing", "driving"} /\ TestDir \in DOMAIN disk
       /\ Test.kind \in DeliveryKinds /\ Test.direction = "Download"
       => \/ disk[TestDir].local \in Earlier
          \/ pc = "driving" /\ app.wrote /\ disk[TestDir].local = request.fixture

(* What was compared is what the transfer brought back.                    *)
ResultInv ==
    driver = "compared" =>
        /\ result.watchdog = watchdog
        /\ result.setupFailed => ~result.completed

(* A plan's tests, as ConfigAssumption has them.                           *)
LEMMA PlannedTest ==
    ASSUME NEW c \in Configs, NEW i \in DOMAIN c.plan
    PROVE  /\ c.plan[i].kind \in Kinds /\ c.plan[i].direction \in {"Download", "Upload"}
           /\ Len(c.plan[i].fixtures) \in Nat \ {0}
           /\ DOMAIN c.plan[i].fixtures = 1 .. Len(c.plan[i].fixtures)
           /\ \A k \in DOMAIN c.plan[i].fixtures :
                 c.plan[i].fixtures[k] \notin {"none", "old", "other"}
           /\ c.plan[i].id # "earlier"
           /\ i \in Nat /\ i >= 1
           /\ \A j \in 1 .. i : j \in DOMAIN c.plan
           /\ \A j \in DOMAIN c.plan : c.plan[j].id = c.plan[i].id => j = i
BY ConfigAssumption DEF IsPlan

LEMMA AppendFacts ==
    ASSUME NEW s, IsSeq(s), NEW e
    PROVE  /\ Len(s) \in Nat /\ DOMAIN s = 1 .. Len(s)
           /\ Len(Append(s, e)) = Len(s) + 1
           /\ DOMAIN Append(s, e) = 1 .. Len(s) + 1
           /\ \A i \in DOMAIN s : Append(s, e)[i] = s[i]
           /\ Append(s, e)[Len(s) + 1] = e
<1>1. PICK S : s \in Seq(S)
  BY DEF IsSeq
<1>2. s \in Seq(S \cup {e}) /\ e \in S \cup {e}
  BY <1>1
<1> QED  BY <1>2

LEMMA TailFacts ==
    ASSUME NEW s, IsSeq(s), s # <<>>
    PROVE  /\ IsSeq(Tail(s)) /\ 1 \in DOMAIN s /\ Head(s) = s[1]
           /\ \A i \in DOMAIN Tail(s) : i + 1 \in DOMAIN s /\ Tail(s)[i] = s[i + 1]
<1>1. PICK S : s \in Seq(S)
  BY DEF IsSeq
<1>2. Tail(s) \in Seq(S)
  BY <1>1
<1> QED  BY <1>1, <1>2 DEF IsSeq

LEMMA EmptyIsSeq == IsSeq(<<>>)
<1>1. <<>> \in Seq({})
  OBVIOUS
<1> QED  BY <1>1 DEF IsSeq

LEMMA OneElement ==
    ASSUME NEW e
    PROVE  IsSeq(<<e>>) /\ DOMAIN <<e>> = {1} /\ <<e>>[1] = e
<1>1. <<e>> \in Seq({e})
  OBVIOUS
<1>2. IsSeq(<<e>>)
  BY <1>1 DEF IsSeq
<1>3. DOMAIN <<e>> = 1 .. 1 /\ <<e>>[1] = e
  OBVIOUS
<1> QED  BY <1>2, <1>3

(* A step of the transfer leaves the runner and the store alone.           *)
LEMMA StepsOfTheTransfer ==
    ASSUME Driver \/ Server \/ Worker \/ ChildEnds \/ ChildActs
    PROVE  /\ pc = "driving"
           /\ UNCHANGED <<config, pc, at, judged, summary, memory, file, isOpen, written,
                          request>>
<1>1. /\ pc = "driving" /\ UNCHANGED <<runnerVars, storeVars>>
      /\ DriverStep \/ ServerStep \/ WorkerStep \/ ChildExits \/ ChildWrites \/ ChildDetaches
  BY DEF Driver, Server, Worker, ChildEnds, ChildActs, During
<1>2. CASE DriverStep
  BY <1>1, <1>2 DEF DriverStep, SeeFinished, WatchdogFires, StopProxy, JoinServer, Compare,
                    runnerVars, storeVars
<1>3. CASE ServerStep
  BY <1>1, <1>3 DEF ServerStep, AcceptRequest, AcceptorLeaves, AcceptorEnds, HandlerAnswers,
                    HandlerReceives, HandlerStores, HandlerEnds, runnerVars, storeVars
<1>4. CASE WorkerStep
  BY <1>1, <1>4 DEF WorkerStep, ClientCompletes, ClientGivesUp, SubprocessExited,
                    SubprocessTimesOut, Return, runnerVars, storeVars
<1>5. CASE ChildExits \/ ChildWrites \/ ChildDetaches
  BY <1>1, <1>5 DEF ChildExits, ChildWrites, ChildDetaches, ChildStops, runnerVars, storeVars
<1> QED  BY <1>1, <1>2, <1>3, <1>4, <1>5

LEMMA NextPlaces == PlacesInv /\ [Next]_vars => PlacesInv'
<1> SUFFICES ASSUME PlacesInv, [Next]_vars PROVE PlacesInv'
  OBVIOUS
<1> USE DEF PlacesInv
<1>1. ASSUME NEW r, DriveTransfer(r) \/ SetupFails(r) \/ ServerThrows(r)
      PROVE  /\ driver' \in {"idle", "watching", "compared"}
             /\ worker' \in {"none", "running", "returned"}
             /\ child' \in {"none", "running", "detached", "exited"}
             /\ acceptor' \in {"off", "accepting", "draining"}
             /\ handlers' \in [Handlers -> {"none", "started", "serving", "dallying",
                                            "stored", "ended"}]
             /\ watchdog' \in BOOLEAN
             /\ ServerThrows(r) => driver' = "idle"
  BY <1>1 DEF DriveTransfer, SetupFails, ServerThrows, processVars, Idle
<1>2. CASE OpenStore
  BY <1>2 DEF OpenStore, Open, driverVars, processVars
<1>3. CASE SkipUnsupported \/ JudgeTransfer
  BY <1>3 DEF SkipUnsupported, JudgeTransfer, driverVars, processVars, storeVars
<1>4. CASE BeginTransfer
  <2>1. DriveTransfer(Request) \/ SetupFails(Request)
    BY <1>4 DEF BeginTransfer
  <2> QED  BY <1>1, <1>4, <2>1 DEF BeginTransfer, storeVars
<1>5. CASE TestThrows
  BY <1>1, <1>5 DEF TestThrows, storeVars
<1>6. CASE RecordResult
  BY <1>6 DEF RecordResult, AppendRecord, driverVars, processVars
<1>7. CASE NextTest
  <2>1. at + 1 \in DOMAIN config.plan
    BY <1>7, ConfigAssumption DEF NextTest, IsPlan
  <2> QED  BY <1>7, <2>1 DEF NextTest, driverVars, processVars, storeVars
<1>8. CASE CloseStore
  BY <1>8 DEF CloseStore, Close, driverVars, processVars
<1>9. CASE Die
  BY <1>9 DEF Die, DieAppending, driverVars, processVars, storeVars
<1>10. CASE Driver
  BY <1>10 DEF Driver, During, DriverStep, SeeFinished, WatchdogFires, StopProxy, JoinServer,
               Compare, runnerVars, storeVars, processVars
<1>11. CASE Server
  BY <1>11 DEF Server, During, ServerStep, AcceptRequest, AcceptorLeaves, AcceptorEnds,
               HandlerAnswers, HandlerReceives, HandlerStores, HandlerEnds, runnerVars, storeVars
<1>12. CASE Worker
  BY <1>12 DEF Worker, During, WorkerStep, ClientCompletes, ClientGivesUp, SubprocessExited,
               SubprocessTimesOut, Return, runnerVars, storeVars
<1>13. CASE ChildEnds \/ ChildActs
  BY <1>13 DEF ChildEnds, ChildActs, During, ChildExits, ChildWrites, ChildDetaches,
               ChildStops, runnerVars, storeVars
<1>14. CASE Ended \/ UNCHANGED vars
  BY <1>14 DEF Ended, vars, runnerVars, driverVars, processVars, storeVars
<1> QED  BY <1>2, <1>3, <1>4, <1>5, <1>6, <1>7, <1>8, <1>9, <1>10, <1>11, <1>12, <1>13, <1>14
         DEF Next, RunnerStep

(* A record that is appended is counted where it belongs, and only there.  *)
LEMMA CountOfAppended ==
    ASSUME NEW records, IsSeq(records), NEW record, NEW outcome
    PROVE  /\ Cardinality(WithOutcome(records, outcome)) \in Nat
           /\ Cardinality(WithOutcome(Append(records, record), outcome)) =
                Cardinality(WithOutcome(records, outcome))
                  + (IF record.outcome = outcome THEN 1 ELSE 0)
<1> DEFINE n == Len(records)
           before == WithOutcome(records, outcome)
           after == WithOutcome(Append(records, record), outcome)
<1>1. before \in SUBSET (1 .. n) /\ n \in Nat
  BY AppendFacts DEF WithOutcome
<1>2. IsFiniteSet(before) /\ n + 1 \notin before
  <2> HIDE DEF n, before
  <2>1. IsFiniteSet(1 .. n)
    BY <1>1, FS_Interval
  <2>2. IsFiniteSet(before)
    BY <1>1, <2>1, FS_Subset
  <2>3. n + 1 \notin before
    BY <1>1
  <2> QED  BY <2>2, <2>3
<1>3. after = IF record.outcome = outcome THEN before \cup {n + 1} ELSE before
  <2>1. /\ DOMAIN records = 1 .. n /\ DOMAIN Append(records, record) = 1 .. n + 1
        /\ \A i \in 1 .. n : Append(records, record)[i] = records[i]
        /\ Append(records, record)[n + 1] = record
    BY AppendFacts
  <2> HIDE DEF n
  <2> QED  BY <1>1, <2>1 DEF WithOutcome, n
<1>4. Cardinality(before \cup {n + 1}) = Cardinality(before) + 1
  BY <1>2, FS_AddElement
<1> QED  BY <1>2, <1>3, <1>4, FS_CardinalityType

LEMMA CountRecordCounts ==
    ASSUME IsSeq(memory), summary = CountsOf(memory), NEW record, record.outcome \in Outcomes
    PROVE  CountRecord(record) = CountsOf(Append(memory, record))
<1> DEFINE count(outcome) == Cardinality(WithOutcome(memory, outcome))
           more(outcome) == Cardinality(WithOutcome(Append(memory, record), outcome))
<1>1. \A outcome : /\ count(outcome) \in Nat
                   /\ more(outcome) = count(outcome) +
                                        (IF record.outcome = outcome THEN 1 ELSE 0)
  BY CountOfAppended
<1>2. Len(memory) \in Nat /\ Len(Append(memory, record)) = Len(memory) + 1
  BY AppendFacts
<1> HIDE DEF count, more
<1>3. summary = [total |-> Len(memory), Pass |-> count("Pass"), Fail |-> count("Fail"),
                 Skipped |-> count("Skipped")]
  BY DEF CountsOf, count
<1>4. CountsOf(Append(memory, record)) =
        [total |-> Len(memory) + 1, Pass |-> more("Pass"), Fail |-> more("Fail"),
         Skipped |-> more("Skipped")]
  BY <1>2 DEF CountsOf, more
<1>5. /\ more("Pass") = IF record.outcome = "Pass" THEN count("Pass") + 1 ELSE count("Pass")
      /\ more("Fail") = IF record.outcome = "Fail" THEN count("Fail") + 1 ELSE count("Fail")
      /\ more("Skipped") = IF record.outcome = "Skipped" THEN count("Skipped") + 1
                           ELSE count("Skipped")
  BY <1>1
<1>6. CASE record.outcome = "Pass"
  <2>1. CountRecord(record) = [summary EXCEPT !.total = @ + 1, !.Pass = @ + 1]
    BY <1>6 DEF CountRecord
  <2>2. CountRecord(record) =
          [total |-> Len(memory) + 1, Pass |-> count("Pass") + 1,
           Fail |-> count("Fail"), Skipped |-> count("Skipped")]
    BY ONLY <1>3, <2>1
  <2> QED  BY ONLY <1>4, <1>5, <1>6, <2>2
<1>7. CASE record.outcome = "Fail"
  <2>1. CountRecord(record) = [summary EXCEPT !.total = @ + 1, !.Fail = @ + 1]
    BY <1>7 DEF CountRecord
  <2>2. CountRecord(record) =
          [total |-> Len(memory) + 1, Pass |-> count("Pass"),
           Fail |-> count("Fail") + 1, Skipped |-> count("Skipped")]
    BY ONLY <1>3, <2>1
  <2> QED  BY ONLY <1>4, <1>5, <1>7, <2>2
<1>8. CASE record.outcome = "Skipped"
  <2>1. CountRecord(record) = [summary EXCEPT !.total = @ + 1, !.Skipped = @ + 1]
    BY <1>8 DEF CountRecord
  <2>2. CountRecord(record) =
          [total |-> Len(memory) + 1, Pass |-> count("Pass"),
           Fail |-> count("Fail"), Skipped |-> count("Skipped") + 1]
    BY ONLY <1>3, <2>1
  <2> QED  BY ONLY <1>4, <1>5, <1>8, <2>2
<1> QED  BY <1>6, <1>7, <1>8 DEF Outcomes

LEMMA NextCounts == PlacesInv /\ CountsInv /\ [Next]_vars => CountsInv'
<1> SUFFICES ASSUME PlacesInv, CountsInv, [Next]_vars PROVE CountsInv'
  OBVIOUS
<1>1. ASSUME pc' # "opening", UNCHANGED <<memory, judged, summary>>
      PROVE  CountsInv'
  BY <1>1 DEF CountsInv, CountsOf
<1>2. ASSUME pc' # "opening", UNCHANGED <<memory, summary>>, IsSeq(judged'),
             \A i \in DOMAIN judged' : judged'[i].outcome \in Outcomes
      PROVE  CountsInv'
  BY <1>2 DEF CountsInv, CountsOf
<1>3. ASSUME NEW record, record.outcome \in Outcomes, judged' = <<record>>,
             pc' # "opening", UNCHANGED <<memory, summary>>
      PROVE  CountsInv'
  BY <1>2, <1>3, OneElement
<1>4. CASE OpenStore
  BY <1>1, <1>4 DEF OpenStore, Open, CountsInv
<1>5. CASE SkipUnsupported
  <2> DEFINE record == Record(Test, 0, SkippedAs("Info"), FALSE,
                              FirstMissing(Test, config.supported))
  <2>1. record.outcome \in Outcomes
    BY OutcomesOfVerdicts DEF Record, Outcomes
  <2>2. judged' = <<record>> /\ pc' # "opening" /\ UNCHANGED <<memory, summary>>
    BY <1>5 DEF SkipUnsupported, storeVars
  <2> HIDE DEF record
  <2> QED  BY <1>3, <2>1, <2>2
<1>6. CASE TestThrows
  <2> DEFINE record == Record(Test, 0, Hung(Test.severity), FALSE, "")
  <2>1. record.outcome \in Outcomes
    BY OutcomesOfVerdicts DEF Record, Outcomes
  <2>2. judged' = <<record>> /\ pc' # "opening" /\ UNCHANGED <<memory, summary>>
    BY <1>6 DEF TestThrows, storeVars
  <2> HIDE DEF record
  <2> QED  BY <1>3, <2>1, <2>2
<1>7. CASE JudgeTransfer
  <2> DEFINE record == Record(Test, Label, CurrentVerdict,
                              Test.kind = "sweep" /\ ByteExact(result), "")
             records == Append(judged, record)
             collapsed == Record(Test, 0, Collapse(records, Test.severity), FALSE, "")
  <2>1. CurrentVerdict.outcome \in Outcomes
    BY PlannedTest, JudgesDeserve DEF PlacesInv, CurrentVerdict, Deserved, Test
  <2>2. IsSeq(records) /\ \A i \in DOMAIN records : records[i].outcome \in Outcomes
    <3>1. IsSeq(records)
      BY AppendIsSeq DEF CountsInv
    <3>2. record.outcome \in Outcomes
      BY <2>1 DEF Record
    <3> HIDE DEF record
    <3> QED  BY <3>1, <3>2, AppendFacts DEF CountsInv
  <2>3. collapsed.outcome \in Outcomes
    <3>1. Collapse(records, Test.severity).outcome \in Outcomes
      BY OutcomesOfVerdicts DEF Collapse, Outcomes
    <3> QED  BY <3>1 DEF Record
  <2>4. /\ pc' # "opening" /\ UNCHANGED <<memory, summary>>
        /\ judged' = records \/ judged' = <<collapsed>>
    BY <1>7 DEF JudgeTransfer, storeVars
  <2> HIDE DEF records, collapsed
  <2> QED  BY <1>2, <1>3, <2>2, <2>3, <2>4
<1>8. CASE RecordResult
  <2>1. /\ judged # <<>> /\ pc' = "recording"
        /\ memory' = Append(memory, Head(judged)) /\ summary' = CountRecord(Head(judged))
        /\ judged' = Tail(judged)
    BY <1>8 DEF RecordResult, AppendRecord
  <2>2. /\ IsSeq(Tail(judged)) /\ Head(judged).outcome \in Outcomes
        /\ \A i \in DOMAIN Tail(judged) : Tail(judged)[i].outcome \in Outcomes
    BY <2>1, TailFacts DEF CountsInv
  <2>3. IsSeq(memory') /\ summary' = CountsOf(memory')
    BY <2>1, <2>2, AppendIsSeq, CountRecordCounts DEF CountsInv
  <2> QED  BY <2>1, <2>2, <2>3 DEF CountsInv, CountsOf
<1>9. CASE BeginTransfer \/ NextTest
  BY <1>1, <1>9 DEF BeginTransfer, NextTest, storeVars
<1>10. CASE CloseStore
  BY <1>1, <1>10 DEF CloseStore, Close
<1>11. CASE Die
  BY <1>1, <1>11 DEF Die, DieAppending, storeVars
<1>12. CASE Driver \/ Server \/ Worker \/ ChildEnds \/ ChildActs
  BY <1>1, <1>12, StepsOfTheTransfer
<1>13. CASE Ended \/ UNCHANGED vars
  BY <1>13 DEF Ended, vars, runnerVars, driverVars, storeVars, CountsInv, CountsOf
<1> QED  BY <1>4, <1>5, <1>6, <1>7, <1>8, <1>9, <1>10, <1>11, <1>12, <1>13
         DEF Next, RunnerStep

LEMMA InitPlacesCounts == Init => PlacesInv /\ CountsInv
<1> SUFFICES ASSUME Init PROVE PlacesInv /\ CountsInv
  OBVIOUS
<1>1. PlacesInv
  <2>1. at \in DOMAIN config.plan
    BY ConfigAssumption DEF Init, IsPlan
  <2> QED  BY <2>1 DEF Init, DriverInit, StoreInit, Idle, PlacesInv
<1>2. IsSeq(<<>>) /\ CountsOf(<<>>) = [total |-> 0, Pass |-> 0, Fail |-> 0, Skipped |-> 0]
  <2>1. <<>> \in Seq({})
    OBVIOUS
  <2>2. \A outcome : WithOutcome(<<>>, outcome) = {}
    BY DEF WithOutcome
  <2> QED  BY <2>1, <2>2, FS_EmptySet DEF IsSeq, CountsOf
<1> QED  BY <1>1, <1>2 DEF Init, DriverInit, StoreInit, CountsInv

(* The runner, the driver and the threads are where they may be; the       *)
(* summary that run_suite returns counts each record of the store once,    *)
(* with its outcome; and between two transfers no thread of one is left.   *)
THEOREM SuiteTypeCorrect == StuckSpec => []SuiteTypeOK
<1>1. TeardownInv /\ PlacesInv /\ CountsInv => SuiteTypeOK
  BY DEF TeardownInv, QuietBetween, Quiet, PlacesInv, CountsInv, CountsOf, SuiteTypeOK, Outcomes
<1> QED  BY <1>1, InitPlacesCounts, InitTeardown, NextTeardown, NextPlaces, NextCounts,
            PTL DEF StuckSpec

-----------------------------------------------------------------------------
DeliveryInv == TurnInv /\ DiskInv /\ StagedInv /\ LocalInv /\ ResultInv

(* A file is written into a work directory there is.                       *)
LEMMA WriteLocal ==
    ASSUME NEW files, NEW dir \in DOMAIN files, DOMAIN files[dir] = {"served", "local"}, NEW c
    PROVE  LET changed == [files EXCEPT ![dir].local = c]
           IN  /\ DOMAIN changed = DOMAIN files
               /\ \A d \in DOMAIN files : d # dir => changed[d] = files[d]
               /\ DOMAIN changed[dir] = {"served", "local"}
               /\ changed[dir].local = c /\ changed[dir].served = files[dir].served
OBVIOUS

LEMMA WriteServed ==
    ASSUME NEW files, NEW dir \in DOMAIN files, DOMAIN files[dir] = {"served", "local"}, NEW c
    PROVE  LET changed == [files EXCEPT ![dir].served = c]
           IN  /\ DOMAIN changed = DOMAIN files
               /\ \A d \in DOMAIN files : d # dir => changed[d] = files[d]
               /\ DOMAIN changed[dir] = {"served", "local"}
               /\ changed[dir].served = c /\ changed[dir].local = files[dir].local
OBVIOUS

(* What drive_transfer puts there before it starts the peers: nothing but  *)
(* the fixture, and a planted file for an upload.                          *)
LocalBefore(dir) == IF dir \in DOMAIN disk THEN disk[dir].local ELSE "none"

LEMMA CreatedFiles ==
    ASSUME DiskInv, NEW dir
    PROVE  /\ DOMAIN Created(dir) = DOMAIN disk \cup {dir}
           /\ \A d \in DOMAIN Created(dir) : DOMAIN Created(dir)[d] = {"served", "local"}
           /\ \A d \in DOMAIN disk : Created(dir)[d] = disk[d]
           /\ Created(dir)[dir].local = LocalBefore(dir)
BY DEF DiskInv, Created, LocalBefore

LEMMA StagedFiles ==
    ASSUME DiskInv, NEW r
    PROVE  /\ DOMAIN Staged(r) = DOMAIN disk \cup {r.dir}
           /\ \A d \in DOMAIN Staged(r) : DOMAIN Staged(r)[d] = {"served", "local"}
           /\ \A d \in DOMAIN disk : d # r.dir => Staged(r)[d] = disk[d]
           /\ r.direction = "Upload" => Staged(r)[r.dir].local = r.fixture
           /\ r.direction # "Upload" =>
                 /\ r.stage => Staged(r)[r.dir].served = r.fixture
                 /\ Staged(r)[r.dir].local = LocalBefore(r.dir)
<1> DEFINE files == Created(r.dir)
<1>1. /\ DOMAIN files = DOMAIN disk \cup {r.dir}
      /\ \A d \in DOMAIN files : DOMAIN files[d] = {"served", "local"}
      /\ \A d \in DOMAIN disk : files[d] = disk[d]
      /\ files[r.dir].local = LocalBefore(r.dir)
  BY CreatedFiles
<1> HIDE DEF files
<1>2. CASE r.direction = "Upload"
  <2> DEFINE c == IF r.plant THEN "old" ELSE files[r.dir].served
             step == [files EXCEPT ![r.dir].local = r.fixture]
  <2>1. Staged(r) = [step EXCEPT ![r.dir].served = c]
    BY <1>1, <1>2 DEF Staged, files
  <2>2. /\ DOMAIN step = DOMAIN files
        /\ \A d \in DOMAIN files : d # r.dir => step[d] = files[d]
        /\ DOMAIN step[r.dir] = {"served", "local"} /\ step[r.dir].local = r.fixture
    BY <1>1, WriteLocal
  <2> HIDE DEF step, c
  <2>3. /\ DOMAIN Staged(r) = DOMAIN step
        /\ \A d \in DOMAIN step : d # r.dir => Staged(r)[d] = step[d]
        /\ DOMAIN Staged(r)[r.dir] = {"served", "local"}
        /\ Staged(r)[r.dir].local = step[r.dir].local
    BY <1>1, <2>1, <2>2, WriteServed
  <2> QED  BY <1>1, <1>2, <2>2, <2>3
<1>3. CASE r.direction # "Upload" /\ r.stage
  <2>1. Staged(r) = [files EXCEPT ![r.dir].served = r.fixture]
    BY <1>3 DEF Staged, files
  <2> QED  BY <1>1, <1>3, <2>1, WriteServed
<1>4. CASE r.direction # "Upload" /\ ~r.stage
  <2>1. Staged(r) = files
    BY <1>4 DEF Staged, files
  <2> QED  BY <1>1, <1>4, <2>1
<1> QED  BY <1>2, <1>3, <1>4

(* The request of the next transfer.                                       *)
LEMMA RequestFields ==
    /\ Request.direction = Test.direction
    /\ Request.fixture = Test.fixtures[Len(judged) + 1]
    /\ Request.dir[1] = Test.id
    /\ Test.kind \in DeliveryKinds => Request.dir = TestDir /\ Request.stage
BY DEF Request, SeedIndex, TestDir, DeliveryKinds

(* Between two transfers no handler is at work.                            *)
LEMMA NoHandler ==
    ASSUME PlacesInv, TeardownInv, pc = "testing"
    PROVE  /\ driver \in {"idle", "compared"} /\ worker = "none"
           /\ \A h \in Handlers : handlers[h] \notin {"dallying", "stored"}
BY DEF PlacesInv, TeardownInv, QuietBetween, Quiet, Active

LEMMA BeginDelivery ==
    ASSUME PlacesInv, CountsInv, TeardownInv, DeliveryInv, BeginTransfer
    PROVE  DeliveryInv'
<1> USE DEF DeliveryInv
<1> DEFINE dir == Request.dir
<1>1. /\ pc = "testing" /\ pc' = "driving" /\ UNCHANGED <<config, at, judged>>
      /\ DriveTransfer(Request) \/ SetupFails(Request)
  BY DEF BeginTransfer
<1>2. request' = Request /\ disk' \in {Created(dir), Staged(Request)}
  BY <1>1 DEF DriveTransfer, SetupFails
<1>3. /\ DOMAIN disk' = DOMAIN disk \cup {dir}
      /\ \A d \in DOMAIN disk' : DOMAIN disk'[d] = {"served", "local"}
      /\ \A d \in DOMAIN disk : d # dir => disk'[d] = disk[d]
      /\ Request.direction # "Upload" => disk'[dir].local = LocalBefore(dir)
  <2>1. CASE disk' = Created(dir)
    <3> HIDE DEF dir
    <3> QED  BY <2>1, CreatedFiles
  <2>2. CASE disk' = Staged(Request)
    BY <2>2, StagedFiles
  <2> QED  BY <1>2, <2>1, <2>2
<1>4. Test' = Test /\ Request' = Request /\ TestDir' = TestDir /\ Earlier' = Earlier
  BY <1>1 DEF Test, Request, SeedIndex, ReadFacts, TestDir, Earlier
<1>5. at \in 1 .. at /\ Test = config.plan[at] /\ Test.direction \in {"Download", "Upload"}
  BY PlannedTest DEF PlacesInv, Test
<1>6. TurnInv'
  BY <1>1, <1>2, <1>4 DEF TurnInv
<1>7. DiskInv'
  BY <1>1, <1>3, <1>5, RequestFields DEF DiskInv
<1>8. StagedInv'
  <2>1. \A h \in Handlers : handlers'[h] \notin {"dallying", "stored"}
    BY <1>1, NoHandler DEF DriveTransfer, SetupFails, Idle, processVars
  <2>2. request'.dir \in DOMAIN disk'
    BY <1>2, <1>3
  <2>3. CASE SetupFails(Request)
    BY <2>1, <2>2, <2>3 DEF SetupFails, StagedInv, NoResult
  <2>4. CASE DriveTransfer(Request)
    <3>1. disk' = Staged(Request) /\ Request.direction \in {"Download", "Upload"}
      BY <1>5, <2>4, RequestFields DEF DriveTransfer
    <3>2. IF Request.direction = "Download"
          THEN Request.stage => Staged(Request)[dir].served = Request.fixture
          ELSE Staged(Request)[dir].local = Request.fixture
      BY <3>1, StagedFiles
    <3> QED  BY <1>2, <2>1, <2>2, <3>1, <3>2 DEF StagedInv, Download, Here
  <2> QED  BY <1>1, <2>3, <2>4
<1>9. LocalInv'
  <2>1. "wrote" \in DOMAIN app' /\ (worker' = "running" => ~app'.wrote)
    BY <1>1, NoHandler DEF DriveTransfer, SetupFails, processVars, LocalInv, NoApp
  <2>2. ASSUME Test.kind \in DeliveryKinds, Test.direction = "Download"
        PROVE  disk'[TestDir].local \in Earlier
    <3>1. dir = TestDir /\ Request.direction # "Upload"
      BY <2>2, RequestFields
    <3>2. LocalBefore(TestDir) \in Earlier
      BY <1>1, <2>2 DEF LocalInv, LocalBefore, Earlier
    <3> QED  BY <1>3, <3>1, <3>2
  <2> QED  BY <1>4, <2>1, <2>2 DEF LocalInv
<1>10. ResultInv'
  BY <1>1 DEF DriveTransfer, SetupFails, ResultInv, NoResult
<1> QED  BY <1>6, <1>7, <1>8, <1>9, <1>10

(* What a step of the transfer does to the files and to the report.        *)
DiskStep ==
    \/ disk' = disk /\ (app.wrote => app'.wrote)
    \/ /\ ~Download /\ app' = app
       /\ \E c : disk' = [disk EXCEPT ![request.dir].served = c]
    \/ /\ Download
       /\ \E c : /\ disk' = [disk EXCEPT ![request.dir].local = c]
                 /\ c = "other" \/ (c = Here.served /\ app'.wrote)

TransferStep ==
    /\ DiskStep /\ "wrote" \in DOMAIN app'
    /\ worker' = "running" /\ request.client = "reference" => ~app'.wrote
    /\ Download => \A h \in Handlers : handlers'[h] \in {"dallying", "stored"}
                                       => handlers[h] \in {"dallying", "stored"}
    /\ driver # "compared"
    /\ driver' = "compared" => result'.watchdog = watchdog' /\ ~result'.setupFailed

(* A transfer that was compared has come to rest.                          *)
LEMMA ComparedIsOver ==
    ASSUME TeardownInv, Driver \/ Server \/ Worker \/ ChildEnds \/ ChildActs
    PROVE  driver # "compared"
<1> SUFFICES ASSUME Quiet, driver = "compared"  PROVE FALSE
  BY DEF TeardownInv, QuietBetween
<1>1. DriverStep \/ ServerStep \/ WorkerStep \/ ChildExits \/ ChildWrites \/ ChildDetaches
  BY DEF Driver, Server, Worker, ChildEnds, ChildActs, During
<1>2. ~DriverStep
  BY DEF DriverStep, SeeFinished, WatchdogFires, StopProxy, JoinServer, Compare
<1>3. ~ServerStep
  BY DEF Quiet, Active, ServerStep, AcceptRequest, AcceptorLeaves, AcceptorEnds,
         HandlerAnswers, HandlerReceives, HandlerStores, HandlerEnds
<1>4. ~WorkerStep
  BY DEF Quiet, WorkerStep, ClientCompletes, ClientGivesUp, SubprocessExited,
         SubprocessTimesOut, Return
<1>5. ~(ChildExits \/ ChildWrites \/ ChildDetaches)
  BY DEF Quiet, ChildExits, ChildWrites, ChildDetaches
<1> QED  BY <1>1, <1>2, <1>3, <1>4, <1>5

LEMMA EffectsOfTheTransfer ==
    ASSUME PlacesInv, TeardownInv, StagedInv, LocalInv,
           Driver \/ Server \/ Worker \/ ChildEnds \/ ChildActs
    PROVE  TransferStep
<1> USE DEF TransferStep, DiskStep
<1>1. /\ DriverStep \/ ServerStep \/ WorkerStep \/ ChildExits \/ ChildWrites \/ ChildDetaches
      /\ "wrote" \in DOMAIN app
      /\ worker = "running" /\ request.client = "reference" => ~app.wrote /\ child = "none"
      /\ Download => \A h \in Handlers : handlers[h] \notin {"dallying", "stored"}
      /\ driver # "compared"
  BY ComparedIsOver DEF Driver, Server, Worker, ChildEnds, ChildActs, During, LocalInv,
                        StagedInv, TeardownInv, WorkerLast
<1>2. CASE DriverStep
  BY <1>1, <1>2 DEF DriverStep, SeeFinished, WatchdogFires, StopProxy, JoinServer, Compare,
                    processVars
<1>3. CASE AcceptRequest \/ AcceptorLeaves \/ AcceptorEnds
  BY <1>1, <1>3 DEF AcceptRequest, AcceptorLeaves, AcceptorEnds, PlacesInv
<1>4. ASSUME NEW h \in Handlers, HandlerAnswers(h) \/ HandlerEnds(h)
      PROVE  TransferStep
  BY <1>1, <1>4 DEF HandlerAnswers, HandlerEnds, PlacesInv
<1>5. ASSUME NEW h \in Handlers, HandlerReceives(h) \/ HandlerStores(h)
      PROVE  TransferStep
  <2>1. CASE HandlerReceives(h)
    BY <1>1, <2>1 DEF HandlerReceives
  <2>2. CASE HandlerStores(h)
    <3>1. CASE ~Download
      BY <1>1, <2>2, <3>1 DEF HandlerStores
    <3>2. CASE Download
      BY <1>1, <2>2, <3>2 DEF HandlerStores
    <3> QED  BY <3>1, <3>2
  <2> QED  BY <1>5, <2>1, <2>2
<1>6. CASE ClientCompletes
  BY <1>1, <1>6 DEF ClientCompletes, Return, NoApp
<1>7. CASE ClientGivesUp
  BY <1>1, <1>7 DEF ClientGivesUp, Return, NoApp
<1>8. CASE SubprocessExited \/ SubprocessTimesOut
  BY <1>1, <1>8 DEF SubprocessExited, SubprocessTimesOut, Return
<1>9. CASE ChildWrites
  BY <1>1, <1>9 DEF ChildWrites
<1>10. CASE ChildExits \/ ChildDetaches
  BY <1>1, <1>10 DEF ChildExits, ChildDetaches, ChildStops
<1> QED  BY <1>1, <1>2, <1>3, <1>4, <1>5, <1>6, <1>7, <1>8, <1>9, <1>10
         DEF ServerStep, WorkerStep

LEMMA TransferDelivery ==
    ASSUME PlacesInv, CountsInv, TeardownInv, DeliveryInv,
           Driver \/ Server \/ Worker \/ ChildEnds \/ ChildActs
    PROVE  DeliveryInv'
<1> USE DEF DeliveryInv
<1> DEFINE dir == request.dir
<1>1. /\ pc = "driving" /\ UNCHANGED <<config, pc, at, judged, request>>
      /\ TransferStep
  BY StepsOfTheTransfer, EffectsOfTheTransfer
<1>2. /\ Test' = Test /\ Request' = Request /\ TestDir' = TestDir /\ Earlier' = Earlier
      /\ Download' = Download /\ dir' = dir
  BY <1>1 DEF Test, Request, SeedIndex, ReadFacts, TestDir, Earlier, Download
<1>3. dir \in DOMAIN disk /\ DOMAIN disk[dir] = {"served", "local"} /\ Here = disk[dir]
  BY <1>1 DEF StagedInv, DiskInv, Here
<1> DEFINE Effect ==
             /\ DOMAIN disk' = DOMAIN disk
             /\ \A d \in DOMAIN disk : DOMAIN disk'[d] = DOMAIN disk[d]
             /\ \A d \in DOMAIN disk : d # dir => disk'[d] = disk[d]
             /\ Download => disk'[dir].served = disk[dir].served
             /\ ~Download => disk'[dir].local = disk[dir].local
             /\ \/ disk'[dir].local = disk[dir].local /\ (app.wrote => app'.wrote)
                \/ disk'[dir].local = "other"
                \/ Download /\ disk'[dir].local = disk[dir].served /\ app'.wrote
<1>4. Effect
  <2>1. CASE disk' = disk /\ (app.wrote => app'.wrote)
    BY <2>1
  <2>2. ASSUME ~Download, app' = app, NEW c, disk' = [disk EXCEPT ![dir].served = c]
        PROVE  Effect
    BY <1>3, <2>2, WriteServed
  <2>3. ASSUME Download, NEW c, disk' = [disk EXCEPT ![dir].local = c],
               c = "other" \/ (c = Here.served /\ app'.wrote)
        PROVE  Effect
    BY <1>3, <2>3, WriteLocal
  <2>4. \/ disk' = disk /\ (app.wrote => app'.wrote)
        \/ ~Download /\ app' = app /\ \E c : disk' = [disk EXCEPT ![dir].served = c]
        \/ Download /\ \E c : /\ disk' = [disk EXCEPT ![dir].local = c]
                              /\ c = "other" \/ (c = Here.served /\ app'.wrote)
    BY <1>1 DEF TransferStep, DiskStep
  <2> HIDE DEF dir, Effect
  <2> QED  BY <2>1, <2>2, <2>3, <2>4
<1> HIDE DEF dir
<1>5. TurnInv'
  BY <1>1, <1>2 DEF TurnInv
<1>6. DiskInv'
  BY <1>1, <1>4 DEF DiskInv
<1>7. StagedInv'
  <2>1. Download => \A h \in Handlers : handlers'[h] \notin {"dallying", "stored"}
    BY <1>1 DEF StagedInv, TransferStep
  <2>2. /\ IF Download THEN request.stage => disk[dir].served = request.fixture
           ELSE disk[dir].local = request.fixture
        /\ IF Download THEN request.stage => disk'[dir].served = request.fixture
           ELSE disk'[dir].local = request.fixture
    BY <1>1, <1>3, <1>4 DEF StagedInv, TransferStep
  <2>3. Here' = disk'[dir]
    BY <1>1 DEF Here, dir
  <2> QED  BY <1>1, <1>2, <1>3, <1>4, <2>1, <2>2, <2>3 DEF StagedInv, dir
<1>8. LocalInv'
  <2>1. /\ "wrote" \in DOMAIN app'
        /\ worker' = "running" /\ request'.client = "reference" => ~app'.wrote
    BY <1>1 DEF TransferStep
  <2>2. ASSUME TestDir \in DOMAIN disk, Test.kind \in DeliveryKinds, Test.direction = "Download"
        PROVE  \/ disk'[TestDir].local \in Earlier
               \/ app'.wrote /\ disk'[TestDir].local = request.fixture
    <3>1. dir = TestDir /\ request.stage /\ Download
      BY <1>1, <2>2, RequestFields DEF TurnInv, Download, dir
    <3>2. \/ disk[dir].local \in Earlier
          \/ app.wrote /\ disk[dir].local = request.fixture
      BY <1>1, <2>2, <3>1 DEF LocalInv
    <3>3. "other" \in Earlier
      BY DEF Earlier
    <3>4. disk[dir].served = request.fixture
      BY <1>1, <1>3, <3>1 DEF StagedInv, TransferStep
    <3> QED  BY <1>4, <3>1, <3>2, <3>3, <3>4
  <2> QED  BY <1>1, <1>2, <1>4, <2>1, <2>2 DEF LocalInv
<1>9. ResultInv'
  BY <1>1 DEF TransferStep, ResultInv
<1> QED  BY <1>5, <1>6, <1>7, <1>8, <1>9

(* A step of the runner that drives no transfer.                           *)
LEMMA RestsDelivery ==
    ASSUME DeliveryInv, UNCHANGED <<config, at, driverVars>>, pc' \notin {"testing", "driving"}
    PROVE  DeliveryInv'
BY DEF DeliveryInv, TurnInv, DiskInv, StagedInv, LocalInv, ResultInv, driverVars, processVars

LEMMA ThrowDelivery ==
    ASSUME PlacesInv, TeardownInv, DeliveryInv, TestThrows
    PROVE  DeliveryInv'
<1> USE DEF DeliveryInv
<1>1. /\ pc = "testing" /\ pc' = "recording" /\ UNCHANGED <<config, at, worker, app>>
      /\ disk' = Staged(Request) /\ driver' = "idle"
  BY DEF TestThrows, ServerThrows, processVars
<1>2. worker = "none" /\ "wrote" \in DOMAIN app
  BY <1>1, NoHandler DEF LocalInv
<1>3. /\ DOMAIN disk' = DOMAIN disk \cup {Request.dir}
      /\ \A d \in DOMAIN disk' : DOMAIN disk'[d] = {"served", "local"}
  BY <1>1, StagedFiles
<1>4. at \in 1 .. at /\ Request.dir[1] = config.plan[at].id
  BY PlannedTest, RequestFields DEF PlacesInv, Test
<1>5. DiskInv'
  BY <1>1, <1>3, <1>4 DEF DiskInv
<1> QED  BY <1>1, <1>2, <1>5 DEF TurnInv, StagedInv, LocalInv, ResultInv

(* The next test has a work directory of its own.                          *)
LEMMA StartDelivery ==
    ASSUME PlacesInv, CountsInv, DeliveryInv, OpenStore \/ NextTest
    PROVE  DeliveryInv'
<1> USE DEF DeliveryInv
<1>1. /\ pc' = "testing" /\ judged = <<>> /\ UNCHANGED <<config, judged, driverVars>>
      /\ \/ at' = at /\ DOMAIN disk = {}
         \/ at' = at + 1
      /\ at' \in DOMAIN config.plan
  <2>1. CASE OpenStore
    BY <2>1 DEF OpenStore, CountsInv, PlacesInv
  <2>2. CASE NextTest
    <3>1. at + 1 \in DOMAIN config.plan
      BY <2>2, ConfigAssumption DEF NextTest, PlacesInv, IsPlan
    <3> QED  BY <2>2, <3>1 DEF NextTest
  <2> QED  BY <2>1, <2>2
<1>2. /\ at \in Nat /\ \A j \in 1 .. at : j \in DOMAIN config.plan
      /\ Len(config.plan[at'].fixtures) \in Nat \ {0}
      /\ \A j \in DOMAIN config.plan : config.plan[j].id = config.plan[at'].id => j = at'
  BY <1>1, PlannedTest DEF PlacesInv
<1>3. UNCHANGED <<request, driver, watchdog, worker, app, disk, result>>
  BY <1>1 DEF driverVars, processVars
<1>4. Test' = config.plan[at'] /\ TestDir' = <<config.plan[at'].id, 0>>
  BY <1>1 DEF Test, TestDir
<1>5. TurnInv'
  <2>1. Len(judged') = 0
    BY <1>1
  <2> QED  BY <1>1, <1>2, <1>4, <2>1 DEF TurnInv
<1>6. DiskInv'
  BY <1>1, <1>2, <1>3 DEF DiskInv
<1>7. TestDir' \notin DOMAIN disk'
  <2>1. CASE DOMAIN disk = {}
    BY <1>3, <2>1
  <2>2. CASE at' = at + 1
    <3> SUFFICES ASSUME TestDir' \in DOMAIN disk  PROVE FALSE
      BY <1>3
    <3>1. PICK j \in 1 .. at : TestDir'[1] = config.plan[j].id
      BY DEF DiskInv
    <3>2. TestDir'[1] = config.plan[at'].id
      BY <1>4
    <3>3. j = at'
      BY <1>2, <3>1, <3>2
    <3> QED  BY <1>2, <2>2, <3>3
  <2> QED  BY <1>1, <2>1, <2>2
<1> QED  BY <1>1, <1>3, <1>5, <1>6, <1>7 DEF StagedInv, LocalInv, ResultInv

(* The fixture of a judged transfer is one of the earlier ones.            *)
LEMMA JudgeDelivery ==
    ASSUME PlacesInv, CountsInv, DeliveryInv, JudgeTransfer
    PROVE  DeliveryInv'
<1> USE DEF DeliveryInv
<1>1. pc = "driving" /\ UNCHANGED <<config, at, driverVars>>
  BY DEF JudgeTransfer
<1>2. CASE pc' = "recording"
  BY <1>1, <1>2, RestsDelivery
<1>3. CASE pc' = "testing"
  <2>1. PICK record : judged' = Append(judged, record)
                      /\ Len(judged') # Len(Test.fixtures)
    BY <1>3 DEF JudgeTransfer
  <2>2. UNCHANGED <<request, driver, watchdog, worker, app, disk, result, Test, TestDir>>
    BY <1>1 DEF driverVars, processVars, Test, TestDir
  <2>3. /\ Len(judged) \in Nat /\ Len(judged') = Len(judged) + 1
        /\ DOMAIN judged = 1 .. Len(judged) /\ DOMAIN judged' = 1 .. Len(judged) + 1
    BY <2>1, AppendFacts DEF CountsInv
  <2>4. Len(Test.fixtures) \in Nat
    BY PlannedTest DEF PlacesInv, Test
  <2>5. TurnInv'
    BY <1>1, <1>3, <2>1, <2>2, <2>3, <2>4 DEF TurnInv
  <2>6. DiskInv'
    BY <1>1, <2>2 DEF DiskInv
  <2>7. Earlier' = Earlier \cup {request.fixture}
    <3>1. request.fixture = Test.fixtures[Len(judged) + 1]
      BY <1>1, RequestFields DEF TurnInv
    <3>2. DOMAIN judged' = DOMAIN judged \cup {Len(judged) + 1}
      BY <2>3
    <3> QED  BY <2>2, <3>1, <3>2 DEF Earlier
  <2>8. LocalInv'
    BY <1>1, <2>2, <2>7 DEF LocalInv
  <2> QED  BY <1>3, <2>2, <2>5, <2>6, <2>8 DEF StagedInv, ResultInv
<1> QED  BY <1>2, <1>3 DEF JudgeTransfer

LEMMA NextDelivery ==
    PlacesInv /\ CountsInv /\ TeardownInv /\ DeliveryInv /\ [Next]_vars => DeliveryInv'
<1> SUFFICES ASSUME PlacesInv, CountsInv, TeardownInv, DeliveryInv, [Next]_vars
             PROVE  DeliveryInv'
  OBVIOUS
<1>1. CASE BeginTransfer
  BY <1>1, BeginDelivery
<1>2. CASE TestThrows
  BY <1>2, ThrowDelivery
<1>3. CASE OpenStore \/ NextTest
  BY <1>3, StartDelivery
<1>4. CASE JudgeTransfer
  BY <1>4, JudgeDelivery
<1>5. CASE SkipUnsupported \/ RecordResult \/ CloseStore \/ Die
  BY <1>5, RestsDelivery DEF SkipUnsupported, RecordResult, CloseStore, Die
<1>6. CASE Driver \/ Server \/ Worker \/ ChildEnds \/ ChildActs
  BY <1>6, TransferDelivery
<1>7. CASE Ended \/ UNCHANGED vars
  <2>1. UNCHANGED <<config, pc, at, judged, request, driver, watchdog, worker, app, handlers,
                    disk, result>>
    BY <1>7 DEF Ended, vars, runnerVars, driverVars, processVars
  <2>2. UNCHANGED <<Test, SeedIndex, ReadFacts, TestDir, Earlier, Download, Here>>
    BY <2>1 DEF Test, SeedIndex, ReadFacts, TestDir, Earlier, Download, Here
  <2>3. UNCHANGED Request
    BY <2>1, <2>2 DEF Request
  <2>4. TurnInv' /\ DiskInv' /\ ResultInv'
    BY <2>1, <2>2, <2>3 DEF DeliveryInv, TurnInv, DiskInv, ResultInv
  <2>5. StagedInv'
    BY <2>1, <2>2 DEF DeliveryInv, StagedInv
  <2>6. LocalInv'
    BY <2>1, <2>2 DEF DeliveryInv, LocalInv
  <2> QED  BY <2>4, <2>5, <2>6 DEF DeliveryInv
<1> QED  BY <1>1, <1>2, <1>3, <1>4, <1>5, <1>6, <1>7 DEF Next, RunnerStep

(* What was judged a match is the fixture, moved by this transfer or by an *)
(* earlier one.                                                            *)
LEMMA MatchIsTheFixture ==
    ASSUME PlacesInv, CountsInv, TeardownInv, DeliveryInv,
           pc = "driving", driver = "compared", Test.kind \in DeliveryKinds, ByteExact(result)
    PROVE  /\ (IF Download THEN Here.local ELSE Here.served) = request.fixture
           /\ Download /\ ~app.wrote =>
                 \E k \in DOMAIN judged : Test.fixtures[k] = request.fixture
<1> USE DEF DeliveryInv
<1>1. result.completed /\ ~result.setupFailed /\ result.integrity = "Match"
  BY DEF ByteExact, ResultInv
<1>2. Integrity(Here) = "Match"
  BY <1>1 DEF TeardownInv, VerdictStands
<1>3. Here.local = Here.served
  BY <1>2 DEF Integrity
<1>4. request.dir = TestDir /\ request.stage /\ TestDir \in DOMAIN disk
      /\ request.direction = Test.direction
      /\ request.fixture = Test.fixtures[Len(judged) + 1]
  BY RequestFields DEF TurnInv, StagedInv
<1>5. (IF Download THEN Here.served ELSE Here.local) = request.fixture
  BY <1>1, <1>4 DEF StagedInv
<1>6. request.fixture \notin {"none", "other"}
  <2>1. Len(judged) \in Nat /\ Len(judged) < Len(Test.fixtures)
    BY AppendFacts DEF CountsInv, TurnInv
  <2>2. /\ Len(Test.fixtures) \in Nat /\ DOMAIN Test.fixtures = 1 .. Len(Test.fixtures)
        /\ \A k \in DOMAIN Test.fixtures : Test.fixtures[k] \notin {"none", "old", "other"}
    BY PlannedTest DEF PlacesInv, Test
  <2>3. Len(judged) + 1 \in DOMAIN Test.fixtures
    BY <2>1, <2>2
  <2> QED  BY <1>4, <2>2, <2>3
<1>7. ASSUME Download, ~app.wrote
      PROVE  \E k \in DOMAIN judged : Test.fixtures[k] = request.fixture
  <2>1. disk[TestDir].local \in Earlier
    BY <1>4, <1>7 DEF LocalInv, Download
  <2>2. disk[TestDir].local = request.fixture
    BY <1>3, <1>4, <1>5 DEF Here
  <2> QED  BY <1>6, <2>1, <2>2 DEF Earlier
<1> QED  BY <1>3, <1>5, <1>7

(* A verdict is deserved: what a test of delivery passes completed within  *)
(* the watchdog and left the fixture at its destination, corruption and    *)
(* hangs never pass, what a client cannot express is skipped - whatever    *)
(* the plan, the clients and the order of the threads (drive_transfer and  *)
(* the judges of the test registry).                                       *)
THEOREM VerdictsAreDeserved == StuckSpec => []VerdictIsDeserved
<1>1. Init => DeliveryInv
  BY DEF Init, DriverInit, DeliveryInv, TurnInv, DiskInv, StagedInv, LocalInv, ResultInv, NoApp
<1>2. PlacesInv /\ CountsInv /\ TeardownInv /\ DeliveryInv => VerdictIsDeserved
  <2> SUFFICES ASSUME PlacesInv, CountsInv, TeardownInv, DeliveryInv,
                      pc = "driving", driver = "compared"
               PROVE  VerdictIsDeserved
    BY DEF VerdictIsDeserved
  <2>1. Deserved(Test.kind, result, CurrentVerdict.outcome)
    BY PlannedTest, JudgesDeserve DEF PlacesInv, CurrentVerdict, Test
  <2>2. result.watchdog = watchdog
    BY DEF DeliveryInv, ResultInv
  <2>3. CurrentVerdict.outcome = "Pass" /\ Test.kind \in DeliveryKinds =>
           /\ ByteExact(result) /\ result.completed /\ ~watchdog
    BY <2>1, <2>2 DEF Deserved, ByteExact
  <2> QED  BY <2>1, <2>2, <2>3, MatchIsTheFixture DEF VerdictIsDeserved, Deserved
<1> QED  BY <1>1, <1>2, InitPlacesCounts, InitTeardown, NextTeardown, NextPlaces, NextCounts,
            NextDelivery, PTL DEF StuckSpec

-----------------------------------------------------------------------------
(* The records that the suite makes: those of a test carry its name and    *)
(* section and its first missing capability, for which it was skipped, and *)
(* no two of them are points of a curve at the same intensity.             *)
RecordFields == {"test", "section", "label", "outcome", "severity", "integrityViolation",
                 "ungraceful", "success", "missing"}

WellFormed(record) ==
    /\ DOMAIN record = RecordFields
    /\ record.label \in Nat /\ record.outcome \in Outcomes /\ record.severity \in Severities

MadeBy(record, test, supported) ==
    /\ record.test = test.id /\ record.section = test.section
    /\ IF Lacking(test, supported) = {} THEN record.missing = ""
       ELSE record.missing = FirstMissing(test, supported) /\ record.outcome = "Skipped"

NoSharedPoints(records) ==
    \A i, j \in DOMAIN records : SamePoint(records[i], records[j]) => i = j

RowsInv ==
    /\ \A i \in DOMAIN judged : WellFormed(judged[i]) /\ MadeBy(judged[i], Test, config.supported)
    /\ \A i \in DOMAIN written :
          /\ WellFormed(written[i])
          /\ \E j \in 1 .. at : /\ MadeBy(written[i], config.plan[j], config.supported)
                                /\ pc \in {"testing", "driving"} => j < at
    /\ IsSeq(written) /\ NoSharedPoints(judged) /\ NoSharedPoints(written)
    /\ \A i \in DOMAIN written, j \in DOMAIN judged : ~SamePoint(written[i], judged[j])
    /\ pc \in {"testing", "driving"} =>
          \A k \in DOMAIN judged : judged[k].label = Test.points[k]
    /\ pc = "driving" => Missing = {}

(* A store that could not be opened leaves the earlier run's file.         *)
FileInv ==
    /\ pc = "opening" => ~isOpen
    /\ ~isOpen => \/ file = EarlierRun
                  \/ pc = "closed" /\ Load(file) = written

(* A record of the run was made by a planned test.                         *)
OfTheRun(record) ==
    \/ \E j \in DOMAIN config.plan : MadeBy(record, config.plan[j], config.supported)
    \/ record.test = "earlier" /\ record.missing = ""

(* Records of which the reports tell the truth.                            *)
Reportable(records) ==
    /\ Len(records) \in Nat /\ DOMAIN records = 1 .. Len(records)
    /\ \A i \in DOMAIN records : WellFormed(records[i]) /\ OfTheRun(records[i])
    /\ NoSharedPoints(records)
    /\ \A i, j \in DOMAIN records :
          records[i].test = records[j].test => records[i].section = records[j].section

LEMMA RivalsAreScored ==
    ASSUME NEW records, Reportable(records), NEW rival \in Rivals(records)
    PROVE  /\ Scored(records) /\ Scored(rival) /\ DOMAIN rival = DOMAIN records
           /\ \A i \in DOMAIN records : RecordKey(rival[i]) = RecordKey(records[i])
<1>1. PICK i \in DOMAIN records, verdict \in {Passed("Major"), Hung("Critical"),
                                              Corrupted("Critical")} :
        rival = [records EXCEPT ![i] = Judged(@, verdict)]
  BY DEF Rivals
<1>2. verdict.severity \in Severities
  BY GradesOfVerdicts DEF Severities
<1>3. Scored(records)
  BY DEF Reportable, Scored, WellFormed, NoSharedPoints
<1>4. PICK changed : changed = Judged(records[i], verdict)
  OBVIOUS
<1>5. /\ changed.test = records[i].test /\ changed.label = records[i].label
      /\ changed.severity = verdict.severity
  <2>1. DOMAIN records[i] = RecordFields
    BY DEF Reportable, WellFormed
  <2> QED  BY <1>4, <2>1 DEF Judged, RecordFields
<1>6. /\ DOMAIN rival = DOMAIN records /\ rival[i] = changed
      /\ \A j \in DOMAIN records : j # i => rival[j] = records[j]
  BY <1>1, <1>4
<1>7. \A j \in DOMAIN records : /\ rival[j].test = records[j].test
                                /\ rival[j].label = records[j].label
                                /\ rival[j].severity \in Severities
  BY <1>2, <1>3, <1>5, <1>6 DEF Scored
<1>8. Len(rival) = Len(records)
  <2>1. DOMAIN rival = 1 .. Len(records) /\ Len(records) \in Nat
    BY <1>6 DEF Reportable
  <2>2. rival = [j \in 1 .. Len(records) |-> rival[j]]
    BY <1>1, <2>1
  <2> QED  BY <2>1, <2>2
<1>9. Scored(rival)
  BY <1>3, <1>6, <1>7, <1>8 DEF Scored, SamePoint
<1> QED  BY <1>3, <1>6, <1>7, <1>9 DEF RecordKey

(* The capability matrix calls unsupported what a recorded test was        *)
(* skipped for, and nothing else.                                          *)
LEMMA MatrixIsTrue ==
    ASSUME PlacesInv, NEW records, Reportable(records)
    PROVE  ReportedUnsupported(records) =
             Capabilities \cap {FirstMissing(config.plan[i], config.supported) :
                                   i \in SkippedTests(records)}
<1>1. ASSUME NEW i \in WithOutcome(records, "Skipped"), records[i].missing \in Capabilities
      PROVE  \E j \in SkippedTests(records) :
                records[i].missing = FirstMissing(config.plan[j], config.supported)
  <2>1. i \in DOMAIN records /\ OfTheRun(records[i]) /\ records[i].missing # ""
    BY <1>1, CapabilityAssumption DEF WithOutcome, Reportable
  <2>2. PICK j \in DOMAIN config.plan :
                MadeBy(records[i], config.plan[j], config.supported)
    BY <2>1 DEF OfTheRun
  <2> QED  BY <2>1, <2>2 DEF MadeBy, SkippedTests
<1>2. ASSUME NEW j \in SkippedTests(records)
      PROVE  \E i \in WithOutcome(records, "Skipped") :
                records[i].missing = FirstMissing(config.plan[j], config.supported)
  <2>1. /\ j \in DOMAIN config.plan /\ Lacking(config.plan[j], config.supported) # {}
        /\ \E i \in DOMAIN records : records[i].test = config.plan[j].id
    BY <1>2 DEF SkippedTests
  <2>2. PICK i \in DOMAIN records : records[i].test = config.plan[j].id
    BY <2>1
  <2>3. config.plan[j].id # "earlier"
    BY <2>1, PlannedTest DEF PlacesInv
  <2>4. PICK l \in DOMAIN config.plan :
                MadeBy(records[i], config.plan[l], config.supported)
    BY <2>2, <2>3 DEF Reportable, OfTheRun
  <2>5. l = j
    BY <2>1, <2>2, <2>4, PlannedTest DEF PlacesInv, MadeBy
  <2> QED  BY <2>1, <2>2, <2>4, <2>5 DEF MadeBy, WithOutcome
<1> DEFINE skipped == WithOutcome(records, "Skipped")
           tests == SkippedTests(records)
           first(j) == FirstMissing(config.plan[j], config.supported)
<1>3. /\ \A i \in skipped : records[i].missing \in Capabilities =>
               \E j \in tests : records[i].missing = first(j)
      /\ \A j \in tests : \E i \in skipped : records[i].missing = first(j)
  BY <1>1, <1>2
<1>4. ReportedUnsupported(records) = {records[i].missing : i \in skipped} \cap Capabilities
  BY DEF ReportedUnsupported
<1> HIDE DEF skipped, tests, first
<1>5. {records[i].missing : i \in skipped} \cap Capabilities =
        Capabilities \cap {first(j) : j \in tests}
  BY <1>3
<1> QED  BY <1>4, <1>5 DEF first, tests

LEMMA ReportsAreTrue ==
    ASSUME PlacesInv, NEW records, Reportable(records)
    PROVE  ReportIsTrueOf(records)
<1>1. Scored(records)
  BY DEF Reportable, Scored, WellFormed, NoSharedPoints
<1>2. ReportedUnsupported(records) =
        Capabilities \cap {FirstMissing(config.plan[i], config.supported) :
                              i \in SkippedTests(records)}
  BY MatrixIsTrue
<1>3. ASSUME NEW test \in Curves(records)
      PROVE  LET area == CurveArea(records, test)
                 points == {i \in DOMAIN records :
                               records[i].test = test /\ records[i].label > 0}
             IN  /\ 0 <= area[1] /\ area[1] <= area[2]
                 /\ area[1] = area[2] <=> \A i \in points : records[i].success
  <2> DEFINE points == {i \in DOMAIN records :
                               records[i].test = test /\ records[i].label > 0}
  <2>1. PICK k \in Points(records) : records[k].test = test
    BY DEF Curves
  <2>2. CurvePoints(records, test) = points /\ CurvePoints(records, test) # {}
    BY <2>1 DEF CurvePoints, Points, Reportable
  <2>3. LET area == CurveArea(records, test)
        IN  /\ IsFraction(area) /\ area[1] <= area[2]
            /\ area[1] = area[2] <=> \A i \in CurvePoints(records, test) : records[i].success
    BY <1>1, <2>2, PointsOfScored, CurvesAreHonest
  <2> QED  BY <2>2, <2>3 DEF IsFraction
<1>4. ASSUME NEW rival \in Rivals(records)
      PROVE  LET differ == {i \in DOMAIN records : Diverge(records[i], rival[i])}
                 latest == {i \in differ : \A j \in i + 1 .. Len(records) :
                                              RecordKey(records[j]) # RecordKey(records[i])}
                 table == AxisTable(records, rival)
                 verdict == OverallVerdict(records, rival)
             IN  /\ Divergences(records, rival) = {RecordKey(records[i]) : i \in latest}
                 /\ table.integrity # "tie" => verdict = table.integrity
                 /\ verdict = OverallVerdict(rival, records) => verdict = "even"
  <2>1. /\ Scored(rival) /\ DOMAIN rival = DOMAIN records
        /\ \A i \in DOMAIN records : RecordKey(rival[i]) = RecordKey(records[i])
    BY RivalsAreScored
  <2>2. /\ AxisTable(records, rival).integrity # "tie" =>
             OverallVerdict(records, rival) = AxisTable(records, rival).integrity
        /\ OverallVerdict(records, rival) = OverallVerdict(rival, records) =>
             OverallVerdict(records, rival) = "even"
    BY <1>1, <2>1, VerdictsMirror
  <2>3. Divergences(records, rival) =
          {RecordKey(records[i]) :
             i \in {i \in DOMAIN records : /\ Diverge(records[i], rival[i])
                                           /\ LastOfKey(records, i)}}
    BY <1>1, <2>1, DivergencesAreShown
  <2> DEFINE differ == {i \in DOMAIN records : Diverge(records[i], rival[i])}
             latest == {i \in differ : \A j \in i + 1 .. Len(records) :
                                          RecordKey(records[j]) # RecordKey(records[i])}
  <2>4. latest = {i \in DOMAIN records : /\ Diverge(records[i], rival[i])
                                        /\ LastOfKey(records, i)}
    BY DEF LastOfKey
  <2> QED  BY <2>2, <2>3, <2>4
<1> QED  BY <1>2, <1>3, <1>4 DEF ReportIsTrueOf

-----------------------------------------------------------------------------
(* The records and the file, step by step.                                 *)

(* The points of a planned test.                                           *)
LEMMA PlannedPoints ==
    ASSUME NEW c \in Configs, NEW i \in DOMAIN c.plan
    PROVE  /\ c.plan[i].severity \in Severities
           /\ DOMAIN c.plan[i].capabilities \in SUBSET Nat
           /\ \A k \in DOMAIN c.plan[i].fixtures :
                 /\ c.plan[i].points[k] \in Nat
                 /\ \A l \in DOMAIN c.plan[i].fixtures :
                       c.plan[i].points[k] = c.plan[i].points[l] =>
                          c.plan[i].points[k] = 0 \/ k = l
BY ConfigAssumption DEF IsPlan

(* One record with no intensity replaces those of the test.                *)
LEMMA OneRow ==
    ASSUME PlacesInv, RowsInv,
           NEW record, WellFormed(record), MadeBy(record, Test, config.supported),
           record.label = 0, judged' = <<record>>, pc' = "recording",
           UNCHANGED <<config, at, written>>
    PROVE  RowsInv'
<1>1. DOMAIN judged' = {1} /\ judged'[1] = record
  BY OneElement
<1>2. Test' = Test
  BY DEF Test
<1>3. \A i \in DOMAIN judged' :
         WellFormed(judged'[i]) /\ MadeBy(judged'[i], Test, config.supported)
  BY <1>1
<1>4. \A i \in DOMAIN written :
         /\ WellFormed(written[i])
         /\ \E j \in 1 .. at : MadeBy(written[i], config.plan[j], config.supported)
  BY DEF RowsInv
<1>5. NoSharedPoints(judged') /\ NoSharedPoints(written)
  BY <1>1 DEF RowsInv, NoSharedPoints
<1>6. \A i \in DOMAIN written, j \in DOMAIN judged' : ~SamePoint(written[i], judged'[j])
  <2>1. \A i \in DOMAIN written : written[i].label \in Nat
    BY DEF RowsInv, WellFormed
  <2> QED  BY <1>1, <2>1 DEF SamePoint
<1> QED  BY <1>2, <1>3, <1>4, <1>5, <1>6 DEF RowsInv

LEMMA SkipRows ==
    ASSUME PlacesInv, RowsInv, SkipUnsupported
    PROVE  RowsInv'
<1> DEFINE record == Record(Test, 0, SkippedAs("Info"), FALSE,
                            FirstMissing(Test, config.supported))
<1>1. Lacking(Test, config.supported) # {}
  BY DEF SkipUnsupported, Missing
<1>2. WellFormed(record) /\ MadeBy(record, Test, config.supported) /\ record.label = 0
  <2>1. /\ SkippedAs("Info").outcome = "Skipped" /\ SkippedAs("Info").outcome \in Outcomes
        /\ SkippedAs("Info").severity \in Severities
    BY OutcomesOfVerdicts, GradesOfVerdicts DEF Outcomes, Severities
  <2> QED  BY <1>1, <2>1 DEF Record, WellFormed, MadeBy, RecordFields
<1>3. judged' = <<record>> /\ pc' = "recording" /\ UNCHANGED <<config, at, written>>
  BY DEF SkipUnsupported, storeVars
<1> HIDE DEF record
<1> QED  BY <1>2, <1>3, OneRow

LEMMA ThrowRows ==
    ASSUME PlacesInv, RowsInv, TestThrows
    PROVE  RowsInv'
<1> DEFINE record == Record(Test, 0, Hung(Test.severity), FALSE, "")
<1>1. WellFormed(record) /\ MadeBy(record, Test, config.supported) /\ record.label = 0
  <2>1. Test.severity \in Severities
    BY PlannedPoints DEF PlacesInv, Test
  <2>2. Hung(Test.severity).outcome \in Outcomes /\ Hung(Test.severity).severity \in Severities
    BY <2>1, OutcomesOfVerdicts, GradesOfVerdicts DEF Outcomes
  <2>3. Lacking(Test, config.supported) = {}
    BY DEF TestThrows, Missing
  <2> QED  BY <2>2, <2>3 DEF Record, WellFormed, MadeBy, RecordFields
<1>2. judged' = <<record>> /\ pc' = "recording" /\ UNCHANGED <<config, at, written>>
  BY DEF TestThrows, storeVars
<1> HIDE DEF record
<1> QED  BY <1>1, <1>2, OneRow

LEMMA JudgeRows ==
    ASSUME PlacesInv, CountsInv, TurnInv, RowsInv, JudgeTransfer
    PROVE  RowsInv'
<1> DEFINE record == Record(Test, Label, CurrentVerdict,
                            Test.kind = "sweep" /\ ByteExact(result), "")
           records == Append(judged, record)
           collapsed == Record(Test, 0, Collapse(records, Test.severity), FALSE, "")
           n == Len(judged)
<1>1. /\ pc = "driving" /\ pc' \in {"testing", "recording"}
      /\ UNCHANGED <<config, at, written>>
      /\ \/ judged' = records
         \/ judged' = <<collapsed>> /\ pc' = "recording"
      /\ Lacking(Test, config.supported) = {}
  BY DEF JudgeTransfer, storeVars, RowsInv, Missing
<1>2. /\ Test.severity \in Severities /\ Test.kind \in Kinds
      /\ n + 1 \in DOMAIN Test.fixtures /\ DOMAIN Test.fixtures = 1 .. Len(Test.fixtures)
      /\ n < Len(Test.fixtures) /\ Len(Test.fixtures) \in Nat /\ n \in Nat
      /\ \A k \in DOMAIN Test.fixtures :
            /\ Test.points[k] \in Nat
            /\ \A l \in DOMAIN Test.fixtures :
                  Test.points[k] = Test.points[l] => Test.points[k] = 0 \/ k = l
  <2>1. /\ Test.severity \in Severities /\ Test.kind \in Kinds
        /\ Len(Test.fixtures) \in Nat /\ DOMAIN Test.fixtures = 1 .. Len(Test.fixtures)
    BY PlannedTest, PlannedPoints DEF PlacesInv, Test
  <2>2. n \in Nat /\ n < Len(Test.fixtures)
    BY <1>1, AppendFacts DEF TurnInv, CountsInv
  <2>3. \A k \in DOMAIN Test.fixtures :
            /\ Test.points[k] \in Nat
            /\ \A l \in DOMAIN Test.fixtures :
                  Test.points[k] = Test.points[l] => Test.points[k] = 0 \/ k = l
    BY PlannedPoints DEF PlacesInv, Test
  <2> HIDE DEF n
  <2>4. n + 1 \in 1 .. Len(Test.fixtures)
    BY <2>1, <2>2
  <2> QED  BY <2>1, <2>2, <2>3, <2>4
<1>3. /\ WellFormed(record) /\ MadeBy(record, Test, config.supported)
      /\ record.label = Test.points[n + 1]
  <2>1. CurrentVerdict.outcome \in Outcomes /\ CurrentVerdict.severity \in Severities
    BY <1>2, JudgesDeserve, JudgesGrade DEF CurrentVerdict, Deserved
  <2>2. Label = Test.points[n + 1] /\ Label \in Nat
    BY <1>2 DEF Label
  <2> QED  BY <1>1, <2>1, <2>2 DEF Record, WellFormed, MadeBy, RecordFields
<1>4. WellFormed(collapsed) /\ MadeBy(collapsed, Test, config.supported) /\ collapsed.label = 0
  <2>1. /\ Collapse(records, Test.severity).outcome \in Outcomes
        /\ Collapse(records, Test.severity).severity \in Severities
    <3> HIDE DEF records
    <3> QED  BY <1>2, OutcomesOfVerdicts, GradesOfVerdicts DEF Collapse, Outcomes
  <2> HIDE DEF records
  <2> QED  BY <1>1, <2>1 DEF Record, WellFormed, MadeBy, RecordFields
<1> HIDE DEF record, collapsed
<1>5. CASE judged' = <<collapsed>> /\ pc' = "recording"
  BY <1>1, <1>4, <1>5, OneRow
<1>6. CASE judged' = records
  <2>1. /\ DOMAIN judged = 1 .. n /\ DOMAIN records = 1 .. n + 1
        /\ \A k \in 1 .. n : records[k] = judged[k]
        /\ records[n + 1] = record
    BY AppendFacts DEF CountsInv
  <2> HIDE DEF records, n
  <2>2. Test' = Test
    BY <1>1 DEF Test
  <2>3. \A k \in 1 .. n + 1 : k \in 1 .. n \/ k = n + 1
    BY <1>2
  <2>4. \A k \in DOMAIN records :
           /\ WellFormed(records[k]) /\ MadeBy(records[k], Test, config.supported)
           /\ records[k].label = Test.points[k] /\ k \in DOMAIN Test.fixtures
    <3>1. \A k \in 1 .. n :
             /\ WellFormed(judged[k]) /\ MadeBy(judged[k], Test, config.supported)
             /\ judged[k].label = Test.points[k] /\ k \in DOMAIN Test.fixtures
      <4>1. \A k \in 1 .. n : k \in DOMAIN Test.fixtures
        BY <1>2
      <4> QED  BY <1>1, <2>1, <4>1 DEF RowsInv
    <3> QED  BY <1>2, <1>3, <2>1, <2>3, <3>1
  <2>5. NoSharedPoints(records)
    <3> SUFFICES ASSUME NEW k \in DOMAIN records, NEW l \in DOMAIN records,
                        SamePoint(records[k], records[l])
                 PROVE  k = l
      BY DEF NoSharedPoints
    <3>1. Test.points[k] = Test.points[l] /\ Test.points[k] > 0
      BY <2>4 DEF SamePoint
    <3> QED  BY <1>2, <2>4, <3>1
  <2>6. ASSUME NEW i \in DOMAIN written, NEW k \in DOMAIN records
        PROVE  ~SamePoint(written[i], records[k])
    <3>1. PICK j \in 1 .. at : MadeBy(written[i], config.plan[j], config.supported) /\ j < at
      BY <1>1 DEF RowsInv
    <3>2. config.plan[j].id # config.plan[at].id
      BY <3>1, PlannedTest DEF PlacesInv
    <3> QED  BY <2>4, <3>1, <3>2 DEF SamePoint, MadeBy, Test
  <2> QED  BY <1>1, <1>6, <2>2, <2>4, <2>5, <2>6 DEF RowsInv
<1> QED  BY <1>1, <1>5, <1>6

LEMMA RecordRows ==
    ASSUME PlacesInv, CountsInv, RowsInv, RecordResult
    PROVE  RowsInv'
<1> DEFINE records == Append(written, Head(judged))
           n == Len(written)
<1>1. /\ pc = "recording" /\ pc' = "recording" /\ judged # <<>>
      /\ written' = records \/ written' = written
      /\ judged' = Tail(judged) /\ UNCHANGED <<config, at>>
  BY DEF RecordResult, AppendRecord, Write
<1>2. /\ IsSeq(judged) /\ 1 \in DOMAIN judged /\ Head(judged) = judged[1]
      /\ \A i \in DOMAIN Tail(judged) : i + 1 \in DOMAIN judged /\ Tail(judged)[i] = judged[i + 1]
      /\ \A i \in DOMAIN Tail(judged) : i \in Nat \ {0}
  <2>1. IsSeq(Tail(judged))
    BY <1>1, TailFacts DEF CountsInv
  <2>2. \A i \in DOMAIN Tail(judged) : i \in Nat \ {0}
    BY <2>1, AppendFacts
  <2> QED  BY <1>1, <2>2, TailFacts DEF CountsInv
<1>3. /\ DOMAIN written = 1 .. n /\ DOMAIN records = 1 .. n + 1 /\ n \in Nat
      /\ \A i \in 1 .. n : records[i] = written[i]
      /\ records[n + 1] = Head(judged) /\ IsSeq(records)
  BY AppendFacts, AppendIsSeq DEF RowsInv
<1> HIDE DEF records, n
<1>4. \A i \in DOMAIN records : i \in DOMAIN written \/ i = n + 1
  BY <1>3
<1>5. Test' = Test /\ at \in 1 .. at /\ Test = config.plan[at]
  BY <1>1, PlannedTest DEF Test, PlacesInv
<1>6. \A i \in DOMAIN judged' : WellFormed(judged'[i]) /\ MadeBy(judged'[i], Test, config.supported)
  BY <1>1, <1>2 DEF RowsInv
<1>7. \A i \in DOMAIN records :
         /\ WellFormed(records[i])
         /\ \E j \in 1 .. at : MadeBy(records[i], config.plan[j], config.supported)
  BY <1>2, <1>3, <1>4, <1>5 DEF RowsInv
<1>8. NoSharedPoints(judged')
  <2> SUFFICES ASSUME NEW i \in DOMAIN judged', NEW j \in DOMAIN judged',
                      SamePoint(judged'[i], judged'[j])
               PROVE  i = j
    BY DEF NoSharedPoints
  <2>1. i + 1 = j + 1
    BY <1>1, <1>2 DEF RowsInv, NoSharedPoints
  <2> QED  BY <1>1, <1>2, <2>1
<1>9. NoSharedPoints(records)
  <2>1. \A i \in DOMAIN written : /\ ~SamePoint(written[i], judged[1])
                                 /\ ~SamePoint(judged[1], written[i])
    BY <1>2 DEF RowsInv, SamePoint
  <2> QED  BY <1>2, <1>3, <1>4, <2>1 DEF RowsInv, NoSharedPoints
<1>10. \A i \in DOMAIN records, j \in DOMAIN judged' : ~SamePoint(records[i], judged'[j])
  <2>1. \A j \in DOMAIN judged' : judged'[j] = judged[j + 1] /\ j + 1 \in DOMAIN judged /\ j + 1 # 1
    BY <1>1, <1>2
  <2>2. \A j \in DOMAIN judged : j # 1 => ~SamePoint(judged[1], judged[j])
    BY <1>2 DEF RowsInv, NoSharedPoints
  <2> QED  BY <1>2, <1>3, <1>4, <2>1, <2>2 DEF RowsInv
<1>11. /\ \A i \in DOMAIN written :
             /\ WellFormed(written[i])
             /\ \E j \in 1 .. at : MadeBy(written[i], config.plan[j], config.supported)
       /\ IsSeq(written) /\ NoSharedPoints(written)
       /\ \A i \in DOMAIN written, j \in DOMAIN judged' : ~SamePoint(written[i], judged'[j])
  <2>1. \A j \in DOMAIN judged' : judged'[j] = judged[j + 1] /\ j + 1 \in DOMAIN judged
    BY <1>1, <1>2
  <2> QED  BY <2>1 DEF RowsInv
<1>12. CASE written' = records
  BY <1>1, <1>3, <1>5, <1>6, <1>7, <1>8, <1>9, <1>10, <1>12 DEF RowsInv
<1>13. CASE written' = written
  BY <1>1, <1>5, <1>6, <1>8, <1>11, <1>13 DEF RowsInv
<1> QED  BY <1>1, <1>12, <1>13

LEMMA NextRows == PlacesInv /\ CountsInv /\ TurnInv /\ RowsInv /\ [Next]_vars => RowsInv'
<1> SUFFICES ASSUME PlacesInv, CountsInv, TurnInv, RowsInv, [Next]_vars PROVE RowsInv'
  OBVIOUS
<1>1. ASSUME UNCHANGED <<config, at, judged, written>>,
             pc' \in {"testing", "driving"} => pc \in {"testing", "driving"},
             pc' = "driving" => pc = "driving" \/ Missing = {}
      PROVE  RowsInv'
  <2>1. Test' = Test /\ Missing' = Missing
    BY <1>1 DEF Test, Missing
  <2> QED  BY <1>1, <2>1 DEF RowsInv
<1>2. CASE OpenStore
  <2>1. written' = <<>> /\ judged' = <<>>
    BY <1>2 DEF OpenStore, Open, CountsInv
  <2>2. /\ DOMAIN written' = {} /\ DOMAIN judged' = {} /\ IsSeq(written')
        /\ pc' = "testing"
    BY <1>2, <2>1, EmptyIsSeq DEF OpenStore
  <2> HIDE <2>1
  <2> QED  BY <2>2 DEF RowsInv, NoSharedPoints
<1>3. CASE NextTest
  <2>1. /\ pc = "recording" /\ judged = <<>> /\ at' = at + 1 /\ at \in Nat
        /\ UNCHANGED <<config, judged, written>>
    BY <1>3, PlannedTest DEF NextTest, storeVars, PlacesInv
  <2>2. DOMAIN judged' = {} /\ NoSharedPoints(judged')
    BY <2>1 DEF NoSharedPoints
  <2>3. \A i \in DOMAIN written' :
           /\ WellFormed(written'[i])
           /\ \E j \in 1 .. at' : MadeBy(written'[i], config'.plan[j], config'.supported) /\ j < at'
    <3> TAKE i \in DOMAIN written'
    <3>1. PICK j \in 1 .. at : MadeBy(written[i], config.plan[j], config.supported)
      BY <2>1 DEF RowsInv
    <3>2. j \in 1 .. at' /\ j < at'
      BY <2>1
    <3> QED  BY <2>1, <3>1, <3>2 DEF RowsInv
  <2>4. NoSharedPoints(written') /\ IsSeq(written') /\ pc' = "testing"
    BY <1>3, <2>1 DEF RowsInv, NextTest
  <2> QED  BY <2>2, <2>3, <2>4 DEF RowsInv
<1>4. CASE BeginTransfer
  BY <1>1, <1>4 DEF BeginTransfer, storeVars
<1>5. CASE CloseStore
  BY <1>1, <1>5 DEF CloseStore, Close
<1>6. CASE Die
  BY <1>1, <1>6 DEF Die, DieAppending, storeVars
<1>7. CASE Driver \/ Server \/ Worker \/ ChildEnds \/ ChildActs
  BY <1>1, <1>7, StepsOfTheTransfer
<1>8. CASE Ended \/ UNCHANGED vars
  BY <1>1, <1>8 DEF Ended, vars, runnerVars, storeVars
<1> QED  BY <1>2, <1>3, <1>4, <1>5, <1>6, <1>7, <1>8, SkipRows, ThrowRows, JudgeRows, RecordRows
         DEF Next, RunnerStep

LEMMA NextFile == PlacesInv /\ StoreInv /\ FileInv /\ [Next]_vars => FileInv'
<1> SUFFICES ASSUME PlacesInv, StoreInv, FileInv, [Next]_vars PROVE FileInv'
  OBVIOUS
<1>1. ASSUME UNCHANGED storeVars, pc' # "opening", pc = "closed" => pc' = "closed"
      PROVE  FileInv'
  BY <1>1 DEF FileInv, storeVars
<1>2. CASE OpenStore
  BY <1>2 DEF OpenStore, Open, FileInv
<1>3. CASE RecordResult
  BY <1>3 DEF RecordResult, AppendRecord, Write, FileInv
<1>4. CASE CloseStore
  BY <1>4 DEF CloseStore, Close, FileInv, StoreInv, CrashKeepsResults
<1>5. CASE Die
  BY <1>5 DEF Die, DieAppending, FileInv, storeVars
<1>6. CASE SkipUnsupported \/ BeginTransfer \/ TestThrows \/ JudgeTransfer \/ NextTest
  BY <1>1, <1>6 DEF SkipUnsupported, BeginTransfer, TestThrows, JudgeTransfer, NextTest
<1>7. CASE Driver \/ Server \/ Worker \/ ChildEnds \/ ChildActs
  <2>1. pc = "driving" /\ pc' = pc /\ UNCHANGED storeVars
    BY <1>7 DEF Driver, Server, Worker, ChildEnds, ChildActs, During, runnerVars
  <2> QED  BY <1>1, <2>1
<1>8. CASE Ended \/ UNCHANGED vars
  BY <1>8 DEF Ended, vars, runnerVars, storeVars, FileInv
<1> QED  BY <1>2, <1>3, <1>4, <1>5, <1>6, <1>7, <1>8 DEF Next, RunnerStep

(* What is left of a run is reportable: its records, with the one that was *)
(* being written when it died, or the record of the earlier run.           *)
LEMMA RowsAreReportable ==
    ASSUME PlacesInv, CountsInv, RowsInv
    PROVE  Reportable(written)
<1>1. Len(written) \in Nat /\ DOMAIN written = 1 .. Len(written)
  BY AppendFacts DEF RowsInv
<1>2. \A j \in 1 .. at : j \in DOMAIN config.plan
  BY PlannedTest DEF PlacesInv
<1>3. \A i \in DOMAIN written : OfTheRun(written[i])
  BY <1>2 DEF RowsInv, OfTheRun
<1>4. ASSUME NEW i \in DOMAIN written, NEW k \in DOMAIN written,
             written[i].test = written[k].test
      PROVE  written[i].section = written[k].section
  <2>1. PICK j \in 1 .. at : MadeBy(written[i], config.plan[j], config.supported)
    BY DEF RowsInv
  <2>2. PICK l \in 1 .. at : MadeBy(written[k], config.plan[l], config.supported)
    BY DEF RowsInv
  <2>3. j \in DOMAIN config.plan /\ l \in DOMAIN config.plan
    BY <1>2
  <2>4. j = l
    BY <1>4, <2>1, <2>2, <2>3, PlannedTest DEF PlacesInv, MadeBy
  <2> QED  BY <2>1, <2>2, <2>4 DEF MadeBy
<1> QED  BY <1>1, <1>3, <1>4 DEF Reportable, RowsInv

LEMMA TornRowIsReportable ==
    ASSUME PlacesInv, CountsInv, RowsInv, judged # <<>>
    PROVE  Reportable(Append(written, Head(judged)))
<1> DEFINE records == Append(written, Head(judged))
           n == Len(written)
<1>1. /\ DOMAIN written = 1 .. n /\ DOMAIN records = 1 .. n + 1 /\ n \in Nat
      /\ Len(records) = n + 1
      /\ \A i \in 1 .. n : records[i] = written[i]
      /\ records[n + 1] = Head(judged)
  BY AppendFacts DEF RowsInv
<1>2. 1 \in DOMAIN judged /\ Head(judged) = judged[1]
  BY TailFacts DEF CountsInv
<1> HIDE DEF records, n
<1>3. \A i \in DOMAIN records : i \in DOMAIN written \/ i = n + 1
  BY <1>1
<1>4. at \in 1 .. at /\ Test = config.plan[at]
  BY PlannedTest DEF Test, PlacesInv
<1>5. \A i \in DOMAIN records :
         /\ WellFormed(records[i])
         /\ \E j \in 1 .. at : MadeBy(records[i], config.plan[j], config.supported)
  BY <1>1, <1>2, <1>3, <1>4 DEF RowsInv
<1>6. NoSharedPoints(records)
  <2>1. \A i \in DOMAIN written : /\ ~SamePoint(written[i], judged[1])
                                 /\ ~SamePoint(judged[1], written[i])
    BY <1>2 DEF RowsInv, SamePoint
  <2> QED  BY <1>1, <1>2, <1>3, <2>1 DEF RowsInv, NoSharedPoints
<1>7. ASSUME NEW i \in DOMAIN records, NEW k \in DOMAIN records,
             records[i].test = records[k].test
      PROVE  records[i].section = records[k].section
  <2>1. PICK j \in 1 .. at : MadeBy(records[i], config.plan[j], config.supported)
    BY <1>5
  <2>2. PICK l \in 1 .. at : MadeBy(records[k], config.plan[l], config.supported)
    BY <1>5
  <2>3. j \in DOMAIN config.plan /\ l \in DOMAIN config.plan
    BY PlannedTest DEF PlacesInv
  <2>4. j = l
    BY <1>7, <2>1, <2>2, <2>3, PlannedTest DEF PlacesInv, MadeBy
  <2> QED  BY <2>1, <2>2, <2>4 DEF MadeBy
<1>8. Len(records) \in Nat /\ DOMAIN records = 1 .. Len(records)
  BY <1>1
<1>9. \A i \in DOMAIN records : OfTheRun(records[i])
  <2>1. \A j \in 1 .. at : j \in DOMAIN config.plan
    BY PlannedTest DEF PlacesInv
  <2> QED  BY <1>5, <2>1 DEF OfTheRun
<1> QED  BY <1>5, <1>6, <1>7, <1>8, <1>9 DEF Reportable, records

LEMMA EarlierRunIsReportable == Reportable(Load(EarlierRun))
<1> DEFINE record == Record([id |-> "earlier", section |-> "A"], 0, Passed("Major"), FALSE, "")
<1>1. WellFormed(record) /\ OfTheRun(record)
  <2>1. Passed("Major").outcome = "Pass" /\ Passed("Major").severity = "Major"
    BY OutcomesOfVerdicts, GradesOfVerdicts
  <2>2. WellFormed(record)
    BY <2>1 DEF Record, WellFormed, RecordFields, Outcomes, Severities
  <2>3. record.test = "earlier" /\ record.missing = ""
    BY DEF Record
  <2> HIDE DEF record
  <2> QED  BY <2>2, <2>3 DEF OfTheRun
<1> HIDE DEF record
<1>2. EarlierRun = Append(<<Header>>, Metric(record))
  <2>1. \A h, m : Append(<<h>>, m) = <<h, m>>
    <3> TAKE h, m
    <3> DEFINE s == Append(<<h>>, m)
    <3>1. /\ DOMAIN s = 1 .. 2 /\ s[1] = h /\ s[2] = m
          /\ s = [i \in 1 .. 2 |-> s[i]]
      <4>1. <<h>> \in Seq({h, m}) /\ m \in {h, m} /\ Len(<<h>>) = 1 /\ <<h>>[1] = h
        OBVIOUS
      <4>2. s \in Seq({h, m}) /\ Len(s) = 2 /\ s[1] = h /\ s[2] = m
        BY <4>1
      <4> HIDE DEF s
      <4> QED  BY <4>2
    <3>2. <<h, m>> = [i \in 1 .. 2 |-> <<h, m>>[i]]
      OBVIOUS
    <3>3. \A i \in 1 .. 2 : i = 1 \/ i = 2
      OBVIOUS
    <3> SUFFICES s = <<h, m>>
      OBVIOUS
    <3>4. \A i \in 1 .. 2 : s[i] = <<h, m>>[i]
      <4>1. <<h, m>>[1] = h /\ <<h, m>>[2] = m
        OBVIOUS
      <4> HIDE DEF s
      <4> QED  BY <3>1, <3>3, <4>1
    <3> HIDE DEF s
    <3> QED  BY <3>1, <3>2, <3>4
  <2> QED  BY <2>1 DEF EarlierRun, record
<1>3. Load(EarlierRun) = <<record>>
  <2>1. IsSeq(<<Header>>)
    BY OneElement
  <2>2. Load(EarlierRun) = Append(<<>>, record)
    BY <1>2, <2>1, LoadAppend, LoadHeader DEF Metric
  <2> QED  BY <2>2
<1>4. Len(<<record>>) = 1 /\ DOMAIN <<record>> = 1 .. 1 /\ <<record>>[1] = record
  OBVIOUS
<1> QED  BY <1>1, <1>3, <1>4 DEF Reportable, NoSharedPoints

(* Whatever is loaded after a run, complete or cut off by a crash, the     *)
(* scorecard and the comparison that analyze and comparison_report make of *)
(* it are true to it, for every plan and all capabilities.                 *)
THEOREM ReportsAreHonest == StuckSpec => []ReportIsHonest
<1>1. Init => DeliveryInv
  BY DEF Init, DriverInit, DeliveryInv, TurnInv, DiskInv, StagedInv, LocalInv, ResultInv, NoApp
<1>2. Init => RowsInv /\ FileInv
  <2> SUFFICES ASSUME Init PROVE RowsInv /\ FileInv
    OBVIOUS
  <2>1. DOMAIN written = {} /\ DOMAIN judged = {} /\ pc = "opening" /\ isOpen = FALSE
        /\ file = EarlierRun /\ IsSeq(written)
    BY EmptyIsSeq DEF Init, StoreInit
  <2> QED  BY <2>1 DEF RowsInv, FileInv, NoSharedPoints
<1>3. PlacesInv /\ CountsInv /\ StoreInv /\ RowsInv /\ FileInv => ReportIsHonest
  <2> SUFFICES ASSUME PlacesInv, CountsInv, StoreInv, RowsInv, FileInv, Over
               PROVE  ReportIsTrueOf(Load(file))
    BY DEF ReportIsHonest
  <2>1. \/ Load(file) = written
        \/ judged # <<>> /\ Load(file) = Append(written, Head(judged))
        \/ file = EarlierRun
    BY DEF StoreInv, FileInv, CrashKeepsResults, PlacesInv
  <2> QED  BY <2>1, RowsAreReportable, TornRowIsReportable, EarlierRunIsReportable, ReportsAreTrue
<1>4. Init => StoreInv
  BY DEF Init, StoreInit, StoreInv
<1> QED  BY <1>1, <1>2, <1>3, <1>4, InitPlacesCounts, InitTeardown, NextTeardown,
            NextPlaces, NextCounts, NextDelivery, NextStoreInv, NextRows, NextFile,
            PTL DEF StuckSpec, DeliveryInv
=============================================================================
