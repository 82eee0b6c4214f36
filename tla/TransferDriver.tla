--------------------------- MODULE TransferDriver ---------------------------
(***************************************************************************)
(* One transfer of drive_transfer (src/src/runner/transfer_driver.cpp) and *)
(* what runs concurrently with it: the worker thread with the client       *)
(* adapter (the reference client, or a child process that run_subprocess   *)
(* watches), the accept loop of the reference server and the handler       *)
(* thread of every request it took.  What the peers say to each other is   *)
(* the matter of Session; here a transfer is what it does to the files of  *)
(* its work directory and what the client reports of it.                   *)
(*                                                                         *)
(* The contents of a file: "none", the name of a fixture, "old" (planted), *)
(* or "other" (anything else: a part, altered bytes).                      *)
(***************************************************************************)
EXTENDS Naturals, FiniteSets, TLC

CONSTANTS
    Handlers,   \* bound: the requests the server takes in a transfer
    NoRequest

VARIABLES
    request,     \* what is driven
    driver,      \* where drive_transfer is
    watchdog,    \* watchdog_fired
    proxyUp,
    worker,      \* the worker thread: "none", "running", "returned"
    app,         \* app_result, and whether the client wrote its file
    child,       \* the subprocess: "none", "running", "detached", "exited"
    serverUp,    \* running_ of the server
    acceptor,    \* its accept_loop: "off", "accepting", "draining"
    handlers,    \* the handler threads
    heard,       \* the answers the handlers gave
    disk,        \* [served, local] of each work directory there is
    result       \* the DriveResult

processVars == <<proxyUp, worker, app, child, serverUp, acceptor, handlers, heard>>
driverVars == <<request, driver, watchdog, processVars, disk, result>>

NoApp == [completed |-> FALSE, unsupported |-> FALSE, error |-> 0, wrote |-> FALSE]

NoResult ==
    [setupFailed |-> FALSE, watchdog |-> FALSE, completed |-> FALSE,
     unsupported |-> FALSE, error |-> 0, integrity |-> "Missing",
     shortBlock |-> FALSE, freshTid |-> FALSE, retransmitted |-> FALSE]

Idle == [h \in Handlers |-> "none"]

DriverInit ==
    /\ request = NoRequest
    /\ driver = "idle" /\ watchdog = FALSE /\ proxyUp = FALSE
    /\ worker = "none" /\ app = NoApp /\ child = "none"
    /\ serverUp = FALSE /\ acceptor = "off" /\ handlers = Idle /\ heard = {}
    /\ disk = <<>>
    /\ result = NoResult

Download == request.direction = "Download"
Here == disk[request.dir]

-----------------------------------------------------------------------------
(* The start of drive_transfer.  The work directory is that of the test    *)
(* and seed index: what an earlier transfer left there stays.              *)
Created(dir) ==
    [d \in DOMAIN disk \cup {dir} |->
        IF d \in DOMAIN disk THEN disk[d] ELSE [served |-> "none", local |-> "none"]]

Staged(r) ==
    LET files == Created(r.dir)
    IN  IF r.direction = "Upload"
        THEN [files EXCEPT ![r.dir].local = r.fixture,
                           ![r.dir].served = IF r.plant THEN "old" ELSE @]
        ELSE IF r.stage THEN [files EXCEPT ![r.dir].served = r.fixture]
        ELSE files

(* The server and the proxy come up, and the worker starts.                *)
DriveTransfer(r) ==
    /\ driver \in {"idle", "compared"}
    /\ request' = r /\ disk' = Staged(r)
    /\ driver' = "watching" /\ watchdog' = FALSE /\ proxyUp' = TRUE
    /\ worker' = "running" /\ app' = NoApp
    /\ child' = IF r.client = "subprocess" THEN "running" ELSE "none"
    /\ serverUp' = TRUE /\ acceptor' = "accepting"
    /\ handlers' = Idle /\ heard' = {}
    /\ result' = NoResult

(* The fixture cannot be staged, the server's endpoint is no endpoint or   *)
(* the proxy cannot bind: the server is stopped again.                     *)
SetupFails(r) ==
    /\ driver \in {"idle", "compared"}
    /\ request' = r /\ disk' \in {Created(r.dir), Staged(r)}
    /\ driver' = "compared"
    /\ result' = [NoResult EXCEPT !.setupFailed = TRUE]
    /\ watchdog' = FALSE
    /\ UNCHANGED processVars

(* An adapter that cannot start its server throws; run_suite catches it.   *)
ServerThrows(r) ==
    /\ driver \in {"idle", "compared"}
    /\ request' = r /\ disk' = Staged(r)
    /\ driver' = "idle" /\ result' = NoResult /\ watchdog' = FALSE
    /\ UNCHANGED processVars

-----------------------------------------------------------------------------
(* The reference server.  A handler refuses with an error code, or not (0).*)
Refusal ==
    IF Download THEN IF request.outside THEN 2 ELSE IF Here.served = "none" THEN 1 ELSE 0
    ELSE IF Here.served # "none" THEN 6 ELSE 0

(* accept_loop takes a request, which may have reached the socket before   *)
(* the proxy or the server was told to stop.                               *)
AcceptRequest ==
    /\ acceptor = "accepting" /\ worker # "none"
    /\ \E h \in Handlers :
          /\ handlers[h] = "none"
          /\ \A g \in Handlers : g < h => handlers[g] # "none"
          /\ handlers' = [handlers EXCEPT ![h] = "started"]
    /\ UNCHANGED <<request, driver, watchdog, proxyUp, worker, app, child,
                   serverUp, acceptor, heard, disk, result>>

(* A plausible bug: a handler that refuses returns without being counted   *)
(* out of active_handlers_.                                                *)
LeakOnRefusal(h) ==
    /\ handlers[h] = "started"
    /\ handlers' = [handlers EXCEPT ![h] = IF Refusal = 0 THEN "serving" ELSE "refused"]
    /\ heard' = heard \cup {IF Refusal = 0 THEN "served" ELSE "refused"}
    /\ UNCHANGED <<request, driver, watchdog, proxyUp, worker, app, child,
                   serverUp, acceptor, disk, result>>

(* handle_request answers, or refuses and ends.                            *)
HandlerAnswers(h) ==
    /\ handlers[h] = "started"
    /\ handlers' = [handlers EXCEPT ![h] = IF Refusal = 0 THEN "serving" ELSE "ended"]
    /\ heard' = heard \cup {IF Refusal = 0 THEN "served" ELSE "refused"}
    /\ UNCHANGED <<request, driver, watchdog, proxyUp, worker, app, child,
                   serverUp, acceptor, disk, result>>

(* The last block of an upload arrived at the handler the client locked on *)
(* to: it is acknowledged, and the handler dallies before it writes.       *)
HandlerReceives(h) ==
    /\ ~Download /\ handlers[h] = "serving"
    /\ \A g \in Handlers : handlers[g] \notin {"dallying", "stored"}
    /\ handlers' = [handlers EXCEPT ![h] = "dallying"]
    /\ heard' = heard \cup {"received"}
    /\ UNCHANGED <<request, driver, watchdog, proxyUp, worker, app, child,
                   serverUp, acceptor, disk, result>>

(* The file of a completed upload is written; a child process may have     *)
(* sent anything.  Nobody looks whether write_entire_file succeeded.       *)
HandlerStores(h) ==
    /\ handlers[h] = "dallying"
    /\ handlers' = [handlers EXCEPT ![h] = "stored"]
    /\ \E content \in {request.fixture, Here.served, "other"} :
          disk' = [disk EXCEPT ![request.dir].served = content]
    /\ UNCHANGED <<request, driver, watchdog, proxyUp, worker, app, child,
                   serverUp, acceptor, heard, result>>

(* A handler that is done with its request, or gives up on its client.     *)
HandlerEnds(h) ==
    /\ handlers[h] \in {"serving", "stored"}
    /\ handlers' = [handlers EXCEPT ![h] = "ended"]
    /\ UNCHANGED <<request, driver, watchdog, proxyUp, worker, app, child,
                   serverUp, acceptor, heard, disk, result>>

Active == {h \in Handlers : handlers[h] \notin {"none", "ended"}}

(* accept_loop sees that running_ was cleared and drains the handlers.     *)
AcceptorLeaves ==
    /\ acceptor = "accepting" /\ ~serverUp
    /\ acceptor' = "draining"
    /\ UNCHANGED <<request, driver, watchdog, proxyUp, worker, app, child,
                   serverUp, handlers, heard, disk, result>>

(* A plausible bug: stop does not wait for the handlers.                   *)
NothingToDrain == TRUE

Drained == Active = {}

AcceptorEnds ==
    /\ acceptor = "draining" /\ Drained
    /\ acceptor' = "off"
    /\ UNCHANGED <<request, driver, watchdog, proxyUp, worker, app, child,
                   serverUp, handlers, heard, disk, result>>

ServerStep ==
    \/ AcceptRequest
    \/ AcceptorLeaves
    \/ AcceptorEnds
    \/ \E h \in Handlers :
          HandlerAnswers(h) \/ HandlerReceives(h) \/ HandlerStores(h) \/ HandlerEnds(h)

-----------------------------------------------------------------------------
(* The worker with the reference client: it reports success only for a     *)
(* file it received to its end and wrote, or for an upload whose last      *)
(* block was acknowledged, and otherwise an error it was sent, or none.    *)
Return(report) ==
    /\ worker = "running"
    /\ worker' = "returned" /\ app' = report
    /\ UNCHANGED <<request, driver, watchdog, proxyUp, serverUp, acceptor,
                   handlers, heard, result>>

Errors == {0} \cup (IF "refused" \in heard THEN {Refusal} ELSE {})

ClientCompletes ==
    /\ request.client = "reference"
    /\ (IF Download THEN "served" ELSE "received") \in heard
    /\ Return([NoApp EXCEPT !.completed = TRUE, !.wrote = TRUE])
    /\ UNCHANGED child
    /\ IF Download
       THEN \E content \in {Here.served, "other"} :
                /\ content = Here.served \/ request.faulty
                /\ disk' = [disk EXCEPT ![request.dir].local = content]
       ELSE UNCHANGED disk

ClientGivesUp ==
    /\ request.client = "reference"
    /\ \E error \in Errors : Return([NoApp EXCEPT !.error = error])
    /\ UNCHANGED child
    /\ \/ UNCHANGED disk
       \/ Download /\ "served" \in heard \* the file could not be written
          /\ disk' = [disk EXCEPT ![request.dir].local = "other"]

(* The worker with a child process, which may write its file in parts and  *)
(* exit with any code, or close its output and go on.                      *)
ChildWrites ==
    /\ child \in {"running", "detached"} /\ Download /\ "served" \in heard
    /\ \E content \in {Here.served, "other"} :
          disk' = [disk EXCEPT ![request.dir].local = content]
    /\ app' = [app EXCEPT !.wrote = TRUE]
    /\ UNCHANGED <<request, driver, watchdog, proxyUp, worker, child, serverUp,
                   acceptor, handlers, heard, result>>

ChildStops(how) ==
    /\ child' = how
    /\ UNCHANGED <<request, driver, watchdog, proxyUp, worker, app, serverUp,
                   acceptor, handlers, heard, disk, result>>
ChildExits == child \in {"running", "detached"} /\ ChildStops("exited")
ChildDetaches == child = "running" /\ ChildStops("detached")

(* run_subprocess: its read returns when the output is closed, and then it *)
(* sees that the child exited, with 0 or another code ...                  *)
SubprocessExited ==
    /\ child = "exited"
    /\ \E completed, unsupported \in BOOLEAN, error \in Errors :
          /\ unsupported => ~completed /\ request.unsupported
          /\ completed => error = 0
          /\ Return([app EXCEPT !.completed = completed, !.unsupported = unsupported,
                                !.error = error])
    /\ UNCHANGED <<child, disk>>

(* ... or kills it when the time is up.  Only the direct child is killed:  *)
(* what a process that it started, or the long-lived window of Tftpd64,    *)
(* might write afterwards is outside the model.                            *)
SubprocessTimesOut ==
    /\ child = "detached"
    /\ Return(app)
    /\ child' = "exited"
    /\ UNCHANGED disk

WorkerStep ==
    \/ ClientCompletes
    \/ ClientGivesUp
    \/ SubprocessExited
    \/ SubprocessTimesOut

-----------------------------------------------------------------------------
(* drive_transfer waits for the worker ...                                 *)
SeeFinished ==
    /\ driver = "watching" /\ worker = "returned"
    /\ driver' = "stopping"
    /\ UNCHANGED <<request, watchdog, processVars, disk, result>>

(* ... or for the watchdog, which may see the worker just before it ends.  *)
WatchdogFires ==
    /\ driver = "watching"
    /\ driver' = "stopping" /\ watchdog' = TRUE
    /\ UNCHANGED <<request, processVars, disk, result>>

StopProxy ==
    /\ driver = "stopping"
    /\ driver' = "draining" /\ proxyUp' = FALSE /\ serverUp' = FALSE
    /\ UNCHANGED <<request, watchdog, worker, app, child, acceptor, handlers,
                   heard, disk, result>>

(* server->stop joins the accept thread; then the worker is joined.        *)
JoinServer ==
    /\ driver = "draining" /\ acceptor = "off"
    /\ driver' = "joining"
    /\ UNCHANGED <<request, watchdog, processVars, disk, result>>

Integrity(files) ==
    LET source == IF Download THEN files.served ELSE files.local
        delivered == IF Download THEN files.local ELSE files.served
    IN  IF "none" \in {source, delivered} THEN "Missing"
        ELSE IF source = delivered THEN "Match" ELSE "Mismatch"

(* What the observer saw, as far as the request's test reads it.           *)
Observed == {[shortBlock |-> s, freshTid |-> f, retransmitted |-> t] :
                s, f, t \in BOOLEAN}
Facts == {o \in Observed : \A fact \in DOMAIN o : o[fact] => fact \in request.reads}

Compare ==
    /\ driver = "joining" /\ worker = "returned"
    /\ driver' = "compared" /\ worker' = "none"
    /\ \E facts \in Facts :
          result' = [setupFailed |-> FALSE, watchdog |-> watchdog,
                     completed |-> app.completed, unsupported |-> app.unsupported,
                     error |-> app.error, integrity |-> Integrity(Here),
                     shortBlock |-> facts.shortBlock, freshTid |-> facts.freshTid,
                     retransmitted |-> facts.retransmitted]
    /\ UNCHANGED <<request, watchdog, proxyUp, app, child, serverUp, acceptor,
                   handlers, heard, disk>>

DriverStep ==
    \/ SeeFinished
    \/ WatchdogFires
    \/ StopProxy
    \/ JoinServer
    \/ Compare
=============================================================================
