--------------------------- MODULE ImpairmentProxy ---------------------------
(***************************************************************************)
(* The relay of src/src/net/impairment_proxy.cpp: clients send to its      *)
(* listen socket, each client gets a session with a socket of its own      *)
(* towards the server, and what one of them reads is traced, put through   *)
(* the impairment pipeline and scheduled for the other side.  Its thread   *)
(* is relay_loop; the peers and the driver that stops it run concurrently. *)
(*                                                                         *)
(* A datagram is abstracted to [kind, number, size]; what a corrupted one  *)
(* turns into is the matter of PacketCodec.  A flush hands the kernel all  *)
(* the sends that are due in one step: their order within a flush is left  *)
(* out (UDP promises none).                                                *)
(***************************************************************************)
EXTENDS ImpairmentPipeline, PacketObserver

CONSTANTS
    Clients, Handlers,            \* TIDs of the clients and of the server
    WellKnown,                    \* the server's well-known port
    ClientPackets, ServerPackets, \* what the peers send
    StrayReplyPackets,            \* what a peer answers to a stray TID
    Configs,                      \* [impairment, injection, sockets], with the
                                  \* bounds datagrams (the peers send) and ticks
    MaxDatagrams                  \* bound: the largest of those datagrams

ASSUME ProxyAssumption ==
    /\ Clients \subseteq 1 .. 99 /\ Handlers \subseteq 1 .. 99
    /\ WellKnown \in 1 .. 99
    /\ IsFiniteSet(Clients)
    /\ MaxDatagrams \in Nat
    /\ \A p \in ClientPackets \cup ServerPackets \cup StrayReplyPackets : p.size \in Nat
    /\ \A c \in Configs : /\ c.impairment \in ImpairmentConfig
                         /\ c.ticks \in Nat /\ c.datagrams \in 0 .. MaxDatagrams

(* The ports of the proxy's own sockets; relay_loop serves the ready ones  *)
(* in this order.                                                          *)
Listen == 100
SessionSocket(i) == 100 + i
StraySocket(k) == 200 + k
Sockets == {Listen} \cup {SessionSocket(i) : i \in 1 .. Cardinality(Clients)}
           \cup {StraySocket(k) : k \in 1 .. MaxDatagrams}

VARIABLES
    config,     \* what start was given
    running,    \* running_, cleared by stop_and_take_trace
    pc,         \* where relay_loop is: "top", "select", "handling", "done"
    ready,      \* the sockets select reported and that are not read yet
    now,
    inbox,      \* the kernel's receive buffer of each socket
    sessions,   \* sessions_: the client and the server's TID
    strays,     \* how many stray sockets were opened
    pipeline,
    scheduled,  \* scheduled_: the sends not yet due
    trace,
    sent,       \* history: the sends handed to the kernel
    arrived     \* history: the datagrams read, in order

loopVars == <<running, pc, ready, now>>
relayVars == <<sessions, strays, pipeline, scheduled, trace, sent, arrived>>
vars == <<config, loopVars, inbox, relayVars>>

SessionCount == Len(sessions)

Init ==
    /\ config \in Configs
    /\ running = TRUE /\ pc = "top" /\ ready = {} /\ now = 0
    /\ inbox = [s \in Sockets |-> <<>>]
    /\ sessions = <<>> /\ strays = 0
    /\ pipeline = FreshPipeline
    /\ scheduled = {} /\ trace = <<>>
    /\ sent = {} /\ arrived = <<>>

-----------------------------------------------------------------------------
(* The peers and the driver run at any time; their steps are taken while   *)
(* the loop is at select, because a datagram that arrives, or a stop that  *)
(* is called, elsewhere in the loop has no effect before the next select.  *)
(*                                                                         *)
(* A client begins with a request; the server answers on a session's       *)
(* socket once something was sent from it, from the port that was          *)
(* addressed or, when that is the well-known one, from any handler.        *)
Waiting(socket) == Len(inbox[socket])
SoFar == Len(arrived) + MapThenSumSet(Waiting, Sockets)

Post(socket, from, packet) ==
    /\ pc = "select"
    /\ SoFar < config.datagrams
    /\ inbox' = [inbox EXCEPT ![socket] =
                   Append(@, [from |-> from, packet |-> packet])]
    /\ UNCHANGED <<config, loopVars, relayVars>>

KnownClients == {sessions[i].client : i \in 1 .. SessionCount}

ClientSends ==
    \E c \in Clients, packet \in ClientPackets :
        /\ packet.kind \in {"RRQ", "WRQ"} \/ c \in KnownClients
        /\ Post(Listen, c, packet)

ServerSends ==
    \E h \in Handlers, i \in 1 .. SessionCount, packet \in ServerPackets :
        /\ \E s \in sent : /\ s.socket = SessionSocket(i)
                           /\ s.destination \in {h, WellKnown}
        /\ Post(SessionSocket(i), h, packet)

StrayVictimReplies ==
    \E s \in sent, packet \in StrayReplyPackets :
        /\ s.socket > StraySocket(0)
        /\ Post(s.socket, s.destination, packet)

-----------------------------------------------------------------------------
(* relay_loop.                                                             *)
Due == {s \in scheduled : s.deadline <= now}

(* flush_due_sends, then select. *)
Flush ==
    /\ pc = "top" /\ running
    /\ sent' = sent \cup Due
    /\ scheduled' = scheduled \ Due
    /\ pc' = "select"
    /\ UNCHANGED <<config, running, ready, now, inbox, sessions, strays,
                   pipeline, trace, arrived>>

(* select reports every socket with a datagram; on a timeout it reports    *)
(* none and the loop starts again.                                         *)
Select ==
    /\ pc = "select"
    /\ ready' = {s \in Sockets : inbox[s] # <<>>}
    /\ pc' = IF ready' = {} THEN "top" ELSE "handling"
    /\ UNCHANGED <<config, running, now, inbox, relayVars>>

(* The next ready socket is read; after the last one the loop goes on.     *)
Reads(socket) ==
    /\ pc = "handling" /\ socket = Min(ready)
    /\ ready' = ready \ {socket}
    /\ pc' = IF ready' = {} THEN "top" ELSE "handling"
    /\ inbox' = [inbox EXCEPT ![socket] = Tail(@)]
    /\ arrived' = Append(arrived, Head(inbox[socket]).packet)
    /\ UNCHANGED <<config, running, now>>

(* What the injection script of the test cases returns for a datagram:     *)
(* one packet, on the first DATA or on every DATA from the server.         *)
IsDataSend(record) == IsPeerSend(record) /\ record.packet.kind = "DATA"

Injections(record) ==
    LET script == config.injection
    IN  IF /\ script.when # "never"
           /\ IsDataSend(record)
           /\ CASE script.when = "once" -> \A i \in DOMAIN trace : ~IsDataSend(trace[i])
                [] script.when = "always" -> record.direction = "ServerToClient"
        THEN {script} ELSE {}

InjectionSocket(injected, i) ==
    IF injected.stray THEN StraySocket(strays + 1)
    ELSE IF injected.towardClient THEN Listen ELSE SessionSocket(i)

InjectionTarget(injected, session) ==
    IF injected.towardClient THEN session.client ELSE session.server

InjectedRecord(injected, i, session) ==
    [direction |-> IF injected.towardClient THEN "ServerToClient" ELSE "ClientToServer",
     session |-> i, from |-> InjectionSocket(injected, i),
     source |-> InjectionSocket(injected, i),
     destination |-> InjectionTarget(injected, session),
     packet |-> injected.packet, disposition |-> "Injected",
     duplicated |-> FALSE, reply |-> FALSE]

(* A plausible bug: the copy is put on the schedule only when the original *)
(* was not corrupted.                                                      *)
CopiesUnlessCorrupted(r) == IF r.corrupted THEN {0} ELSE r.copies

(* The deliveries that are scheduled: the original and its duplicate.      *)
Copies(r) == r.copies

(* observe_and_relay and run_injection: the outcome of the pipeline is     *)
(* traced and scheduled, with the destination the session has now.         *)
ObserveAndRelay(i, session, direction, message, socket, destination) ==
    \E r \in Process(config.impairment, pipeline, direction, message.packet.size,
                     message.packet.kind = "DATA", now) :
        LET id == Len(trace) + 1
            record ==
                [direction |-> direction, session |-> i, from |-> message.from,
                 source |-> IF direction = "ClientToServer" THEN session.client
                                                            ELSE session.server,
                 destination |-> IF direction = "ClientToServer" THEN session.server
                                                                 ELSE session.client,
                 packet |-> message.packet,
                 disposition |-> IF r.dropped THEN "Dropped"
                                 ELSE IF r.corrupted THEN "Corrupted" ELSE "Delivered",
                 duplicated |-> r.copies = {0, 1}, reply |-> FALSE]
            injections == Injections(record)
        IN  /\ pipeline' = r.state
            /\ trace' = Append(trace, record)
                        \o (IF injections = {} THEN <<>>
                            ELSE <<InjectedRecord(config.injection, i, session)>>)
            /\ scheduled' = scheduled
                 \cup {[id |-> id, copy |-> c, deadline |-> now + r.delay + c,
                        socket |-> socket, destination |-> destination,
                        damaged |-> r.corrupted] : c \in Copies(r)}
                 \cup {[id |-> id + 1, copy |-> 0, deadline |-> now,
                        socket |-> InjectionSocket(j, i),
                        destination |-> InjectionTarget(j, session),
                        damaged |-> FALSE] : j \in injections}
            /\ strays' = strays + Cardinality({j \in injections : j.stray})
            /\ UNCHANGED sent

(* A plausible bug: every datagram gets a session.                         *)
SessionPerDatagram(client) == SessionCount + 1

(* find_or_create_session: a client the proxy has not seen gets a session  *)
(* towards the well-known port, if a socket can be opened for it.          *)
SessionOf(client) ==
    IF client \in KnownClients
    THEN CHOOSE i \in 1 .. SessionCount : sessions[i].client = client
    ELSE SessionCount + 1

HandleClientDatagram ==
    /\ Reads(Listen)
    /\ LET message == Head(inbox[Listen])
           i == SessionOf(message.from)
           session == IF i <= SessionCount THEN sessions[i]
                      ELSE [client |-> message.from, server |-> WellKnown,
                            locked |-> FALSE]
       IN  /\ i <= SessionCount \/ TRUE \in config.sockets
           /\ sessions' = IF i <= SessionCount THEN sessions
                           ELSE Append(sessions, session)
           /\ ObserveAndRelay(i, session, "ClientToServer", message,
                              SessionSocket(i), session.server)

(* No socket for a new client: its datagram is ignored.                    *)
RefuseClientDatagram ==
    /\ Reads(Listen)
    /\ SessionOf(Head(inbox[Listen]).from) > SessionCount
    /\ FALSE \in config.sockets
    /\ UNCHANGED <<sessions, strays, pipeline, scheduled, trace, sent>>

(* A plausible bug: every reply moves the session to its sender.           *)
FollowReplier(session, from) == [session EXCEPT !.server = from, !.locked = TRUE]

(* The first reply decides the server's TID.                               *)
LockTid(session, from) ==
    IF session.locked THEN session
    ELSE [session EXCEPT !.server = from, !.locked = TRUE]

HandleServerDatagram ==
    \E i \in 1 .. SessionCount :
        /\ Reads(SessionSocket(i))
        /\ LET message == Head(inbox[SessionSocket(i)])
               session == LockTid(sessions[i], message.from)
           IN  /\ sessions' = [sessions EXCEPT ![i] = session]
               /\ ObserveAndRelay(i, session, "ServerToClient", message,
                                  Listen, session.client)

(* What a peer answers to a stray TID is traced and goes nowhere.          *)
HandleStrayReply ==
    \E k \in 1 .. strays :
        /\ Reads(StraySocket(k))
        /\ LET message == Head(inbox[StraySocket(k)])
           IN  trace' = Append(trace,
                 [direction |-> "ClientToServer", session |-> 0,
                  from |-> message.from, source |-> message.from,
                  destination |-> StraySocket(k), packet |-> message.packet,
                  disposition |-> "Injected", duplicated |-> FALSE, reply |-> TRUE])
        /\ UNCHANGED <<sessions, strays, pipeline, scheduled, sent>>

(* stop_and_take_trace clears running_ from the driver's thread ...        *)
Stop ==
    /\ pc = "select" /\ running
    /\ running' = FALSE
    /\ UNCHANGED <<config, pc, ready, now, inbox, relayVars>>

(* A plausible bug: the last flush sends only what is due.                 *)
FinalDue == Due

(* The last flush looks an hour ahead: everything is due.                  *)
FinalSends == scheduled

(* A plausible bug: the loop ends and forgets what is still scheduled.     *)
ForgetSchedule ==
    /\ pc = "top" /\ ~running
    /\ scheduled' = {}
    /\ pc' = "done"
    /\ UNCHANGED <<config, running, ready, now, inbox, sessions, strays,
                   pipeline, trace, sent, arrived>>

(* ... and the loop ends with a last flush.                                *)
FinalFlush ==
    /\ pc = "top" /\ ~running
    /\ sent' = sent \cup FinalSends
    /\ scheduled' = scheduled \ FinalSends
    /\ pc' = "done"
    /\ UNCHANGED <<config, running, ready, now, inbox, sessions, strays,
                   pipeline, trace, arrived>>

(* Time passes while the loop waits in select.                             *)
Tick ==
    /\ pc = "select" /\ now < config.ticks
    /\ now' = now + 1
    /\ UNCHANGED <<config, running, pc, ready, inbox, relayVars>>

(* The trace was taken: nothing more happens.                              *)
Stopped == pc = "done" /\ UNCHANGED vars

RelayLoop ==
    \/ Flush
    \/ Select
    \/ HandleClientDatagram
    \/ RefuseClientDatagram
    \/ HandleServerDatagram
    \/ HandleStrayReply
    \/ FinalFlush

Next ==
    \/ ClientSends
    \/ ServerSends
    \/ StrayVictimReplies
    \/ RelayLoop
    \/ Stop
    \/ Tick
    \/ Stopped

Spec == Init /\ [][Next]_vars /\ WF_vars(RelayLoop)

-----------------------------------------------------------------------------
Sends == scheduled \cup sent

SendType ==
    [id: 1 .. 2 * MaxDatagrams, copy: {0, 1}, deadline: Nat, socket: Sockets,
     destination: 1 .. 99, damaged: BOOLEAN]

(* The variables have their types, and the sockets fit their numbering: a  *)
(* session per client, and a stray socket per injection at most.           *)
ProxyTypeOK ==
    /\ config \in Configs /\ running \in BOOLEAN
    /\ pc \in {"top", "select", "handling", "done"}
    /\ ready \subseteq Sockets /\ now \in 0 .. config.ticks
    /\ (pc = "handling") = (ready # {})
    /\ SessionCount <= Cardinality(Clients) /\ strays <= Len(arrived)
    /\ \A i \in 1 .. SessionCount :
          sessions[i] \in [client: Clients, server: 1 .. 99, locked: BOOLEAN]
    /\ pipeline \in PipelineState
    /\ Sends \subseteq SendType

(* The trace tells what was sent: a delivered or corrupted datagram went   *)
(* out once, or twice if it is marked as duplicated; a dropped one and a   *)
(* reply to a stray TID never did; nothing else is sent, nothing twice,    *)
(* and nothing is left behind when the trace is taken.                     *)
TraceTellsWhatWasSent ==
    /\ scheduled \cap sent = {}
    /\ \A s \in Sends : s.id \in DOMAIN trace
    /\ \A i \in DOMAIN trace :
          LET r == trace[i] IN
          {<<s.copy, s.damaged>> : s \in {t \in Sends : t.id = i}} =
            IF r.disposition = "Dropped" \/ r.reply THEN {}
            ELSE {0, IF r.duplicated THEN 1 ELSE 0} \X {r.disposition = "Corrupted"}
    /\ pc = "done" => scheduled = {}

(* A session never loses its peers: what goes to the client's side of a    *)
(* session goes to that client, and what goes to the server's side goes to *)
(* the well-known port until the server has answered, and ever after to    *)
(* the TID of the first answer, also when a second handler answers or the  *)
(* request is repeated.                                                    *)
Answers(k, before) ==
    {i \in DOMAIN trace : /\ IsPeerSend(trace[i])
                          /\ trace[i].direction = "ServerToClient"
                          /\ trace[i].session = k /\ i < before}

RelayedToOwnPeer ==
    \A s \in Sends :
        LET r == trace[s.id]
            answers == Answers(r.session, s.id)
        IN  IF r.direction = "ServerToClient"
            THEN s.destination = sessions[r.session].client
            ELSE s.destination = IF answers = {} THEN WellKnown
                                 ELSE trace[Min(answers)].from

(* Once N DATA packets have survived, on whichever session and in          *)
(* whichever direction, no datagram of a peer gets through any more.       *)
BlackoutIsTotal ==
    config.impairment.blackout =>
        \A i \in DOMAIN trace :
            LET spared == {j \in 1 .. i - 1 : /\ IsDataSend(trace[j])
                                             /\ trace[j].disposition # "Dropped"}
            IN  Cardinality(spared) >= config.impairment.blackoutAfter
                  => trace[i].disposition \in {"Dropped", "Injected"}

(* With a throttle, what is due in any interval (duplicates are not        *)
(* charged) stays within the rate plus one burst (a second's traffic, or   *)
(* the largest datagram), whatever the arrival times.                      *)
ThrottledRate ==
    LET rate == config.impairment.throttle
        charged == {s \in Sends : s.copy = 0 /\ IsPeerSend(trace[s.id])}
        Bytes(s) == trace[s.id].packet.size
        burst == Max({rate * TicksPerSecond} \cup {Bytes(s) : s \in charged})
        DueIn(from, to) == {s \in charged : s.deadline \in from .. to}
    IN  rate > 0 =>
          \A from, to \in {s.deadline : s \in charged} :
              MapThenSumSet(Bytes, DueIn(from, to)) <=
                  IF from <= to THEN burst + rate * (to - from + 1) ELSE 0

(* Nothing but the throttle and the fixed delay decides when a datagram is *)
(* due: the throttled configurations have neither jitter nor hold-back.    *)
(* With either, what the bucket spread out may be due together again.      *)
SteadyThrottle ==
    \A c \in Configs :
        c.impairment.throttle > 0 => c.impairment.reorder = 0 /\ c.impairment.jitter = 0

(* A download's traffic: only the server sends DATA, and what it sends     *)
(* under one block number is one packet.                                   *)
DownloadTraffic ==
    /\ \A p \in ClientPackets \cup StrayReplyPackets : p.kind # "DATA"
    /\ \A p \in ServerPackets : p.number \in Nat
    /\ \A p, q \in ServerPackets :
          p.kind = "DATA" /\ q.kind = "DATA" /\ p.number = q.number => p = q

(* The observer counts as retransmissions the DATA packets the sender sent *)
(* again, and neither the copies nor the packets the proxy made; it sees   *)
(* numbers on the wire only, so that a block whose number wraps around to  *)
(* one that was used counts as a retransmission as well, and nothing else. *)
RetransmissionsAreThePeers ==
    LET data == {i \in DOMAIN arrived : arrived[i].kind = "DATA"}
        again == {i \in data : \E j \in 1 .. i - 1 : arrived[j] = arrived[i]}
        numbers == {arrived[i].number : i \in data}
        onTheWire == {n % Modulus : n \in numbers}
    IN  Observe(trace, "Download", 2).retransmitted =
          Cardinality(again) + (Cardinality(numbers) - Cardinality(onTheWire))

(* What the observer's fresh TID says: the first answer in the session of  *)
(* the first DATA or OACK did not come from the well-known port.  It is    *)
(* the TID the session is locked on to, also when that DATA came from      *)
(* another port, when a second handler answers, when the well-known port   *)
(* answers beside a handler, or when a request is repeated.                *)
FreshTidIsTrue ==
    LET replies == PeerSends(trace, "ServerToClient", {"DATA", "OACK"})
        first == Min(replies)
        opener == Min(Answers(trace[first].session, first + 1))
    IN  Observe(trace, "Download", 2).freshTid
          <=> replies # {} /\ trace[opener].from # WellKnown

(* After stop_and_take_trace was called the loop ends, with nothing owed.  *)
StopDrains == ~running ~> (pc = "done" /\ scheduled = {})

(* The proxy is a datagram relay: the sends it has scheduled are what the  *)
(* relay owes.                                                             *)
Delivery(s) == [id |-> s.id, copy |-> s.copy, to |-> s.destination]

Relay == INSTANCE DatagramRelay WITH
    taken <- Len(trace),
    owed <- {Delivery(s) : s \in scheduled},
    delivered <- {Delivery(s) : s \in sent},
    closed <- pc = "done"

ImplementsRelay == Relay!RelaySpec
=============================================================================
