---------------------------- MODULE ProxyProofs ----------------------------
(***************************************************************************)
(* Proofs about the impairment proxy, for every configuration, any number  *)
(* of clients, handlers and datagrams and whatever the peers send: the     *)
(* trace tells what was sent, the blackout is total, and the proxy         *)
(* implements DatagramRelay.                                               *)
(***************************************************************************)
EXTENDS ImpairmentProxy, NaturalSets, FiniteSetTheorems, TLAPS

-----------------------------------------------------------------------------
(* What the pipeline decides about a datagram.                             *)

LEMMA CorruptIsBoolean ==
    ASSUME NEW cfg, NEW size, NEW c \in MaybeCorrupt(cfg, size)
    PROVE  c \in BOOLEAN
BY DEF MaybeCorrupt

HasCounter(p) == "data" \in DOMAIN p /\ p.data \in Nat

(* A datagram that survives is counted if it is DATA, and goes out once or *)
(* twice.                                                                  *)
Survived(r, p, isData) ==
    /\ r.dropped = FALSE /\ r.corrupted \in BOOLEAN
    /\ r.copies \in {{0}, {0, 1}}
    /\ HasCounter(r.state)
    /\ r.state.data = p.data + (IF isData THEN 1 ELSE 0)

LEMMA SurvivorOutcome ==
    ASSUME NEW cfg, NEW p, HasCounter(p), NEW size, NEW isData \in BOOLEAN, NEW time,
           NEW r \in Survives(cfg, p, size, isData, time)
    PROVE  Survived(r, p, isData)
<1> DEFINE bucket == IF cfg.throttle = 0 THEN p.bucket
                     ELSE ChargedBucket(cfg, p, size, time)
           after == [p EXCEPT !.data = IF isData THEN @ + 1 ELSE @,
                              !.bucket = bucket,
                              !.refilled = IF cfg.throttle = 0 THEN @ ELSE time]
<1>1. /\ r.dropped = FALSE /\ r.corrupted \in BOOLEAN
      /\ r.copies \in {{0}, {0, 1}}
      /\ r.state = after
  <2>1. PICK c, d, twice :
        /\ c \in MaybeCorrupt(cfg, size)
        /\ r = [state |-> after, dropped |-> FALSE, corrupted |-> c, delay |-> d,
                copies |-> IF twice THEN {0, 1} ELSE {0}]
    BY DEF Survives
  <2> HIDE DEF after
  <2> QED  BY <2>1, CorruptIsBoolean
<1>2. HasCounter(after) /\ after.data = p.data + (IF isData THEN 1 ELSE 0)
  BY DEF HasCounter
<1> QED  BY <1>1, <1>2 DEF Survived

(* An outcome is a drop that counts nothing, or a survival; in a blackout  *)
(* it is a drop.                                                           *)
IsOutcome(r, cfg, p, isData) ==
    /\ r.dropped \in BOOLEAN /\ r.corrupted \in BOOLEAN
    /\ r.dropped => r.copies = {} /\ ~r.corrupted
    /\ ~r.dropped => r.copies \in {{0}, {0, 1}}
    /\ HasCounter(r.state)
    /\ r.state.data = p.data + (IF isData /\ ~r.dropped THEN 1 ELSE 0)
    /\ InBlackout(cfg, p) => r.dropped

LEMMA ProcessOutcome ==
    ASSUME NEW cfg, NEW p, HasCounter(p), NEW d, NEW size, NEW isData \in BOOLEAN,
           NEW time, NEW r \in Process(cfg, p, d, size, isData, time)
    PROVE  IsOutcome(r, cfg, p, isData)
<1>1. CASE InBlackout(cfg, p)
  <2>1. r = Discarded(p)
    BY <1>1 DEF Process
  <2> QED  BY <2>1, <1>1 DEF Discarded, HasCounter, IsOutcome
<1>2. CASE ~InBlackout(cfg, p)
  <2>1. PICK o \in DecideLoss(cfg, p.bad[d]) :
           r \in (LET q == [p EXCEPT !.bad[d] = o.bad]
                  IN  IF o.lost THEN {Discarded(q)}
                      ELSE Survives(cfg, q, size, isData, time))
    BY <1>2 DEF Process
  <2> DEFINE q == [p EXCEPT !.bad[d] = o.bad]
  <2>2. HasCounter(q) /\ q.data = p.data
    BY DEF HasCounter
  <2>3. r \in {Discarded(q)} \/ r \in Survives(cfg, q, size, isData, time)
    BY <2>1
  <2> HIDE DEF q
  <2>4. CASE r = Discarded(q)
    BY <2>2, <2>4, <1>2 DEF Discarded, HasCounter, IsOutcome
  <2>5. CASE r \in Survives(cfg, q, size, isData, time)
    <3>1. Survived(r, q, isData)
      BY <2>2, <2>5, SurvivorOutcome, Zenon
    <3> QED  BY <3>1, <2>2, <1>2 DEF Survived, IsOutcome
  <2> QED  BY <2>3, <2>4, <2>5
<1> QED  BY <1>1, <1>2

-----------------------------------------------------------------------------
(* The trace grows at its end.                                             *)

IsSequence(t) == \E R : t \in Seq(R)

(* t with what is in added (one or two records) at its end.                *)
Extends(longer, t, added) ==
    /\ IsSequence(longer) /\ DOMAIN longer = 1 .. Len(longer)
    /\ Len(longer) = Len(t) + Len(added)
    /\ \A i \in 1 .. Len(t) : longer[i] = t[i]
    /\ \A k \in 1 .. Len(added) : longer[Len(t) + k] = added[k]

LEMMA TraceBasics ==
    ASSUME NEW t, IsSequence(t)
    PROVE  Len(t) \in Nat /\ DOMAIN t = 1 .. Len(t)
BY DEF IsSequence

LEMMA ExtendByOne ==
    ASSUME NEW t, IsSequence(t), NEW x
    PROVE  Extends(Append(t, x), t, <<x>>)
<1>1. PICK R : t \in Seq(R)
  BY DEF IsSequence
<1>2. t \in Seq(R \cup {x}) /\ x \in R \cup {x}
  BY <1>1
<1> QED  BY <1>2 DEF Extends, IsSequence

LEMMA ExtendByTwo ==
    ASSUME NEW t, IsSequence(t), NEW x, NEW y
    PROVE  Extends(Append(t, x) \o <<y>>, t, <<x, y>>)
<1>1. PICK R : t \in Seq(R)
  BY DEF IsSequence
<1>2. t \in Seq(R \cup {x, y}) /\ x \in R \cup {x, y} /\ y \in R \cup {x, y}
  BY <1>1
<1> QED  BY <1>2 DEF Extends, IsSequence

LEMMA ConcatNothing ==
    ASSUME NEW t, IsSequence(t), NEW x
    PROVE  Append(t, x) \o <<>> = Append(t, x)
<1>1. PICK R : t \in Seq(R)
  BY DEF IsSequence
<1>2. Append(t, x) \in Seq(R \cup {x})
  BY <1>1
<1> QED  BY <1>2
-----------------------------------------------------------------------------
(* What one datagram adds.                                                 *)

(* The sends that belong to a record of the trace, and those it tells of.  *)
SendsOf(i, sends) == {<<s.copy, s.damaged>> : s \in {t \in sends : t.id = i}}

Promised(r) ==
    IF r.disposition = "Dropped" \/ r.reply THEN {}
    ELSE {0, IF r.duplicated THEN 1 ELSE 0} \X {r.disposition = "Corrupted"}

(* The sends in new are those of the records added to the trace.           *)
SendsMatch(new, t, added) ==
    /\ \A s \in new : s.id \in Len(t) + 1 .. Len(t) + Len(added) /\ s.copy \in {0, 1}
    /\ \A s, u \in new : s.id = u.id /\ s.copy = u.copy => s = u
    /\ \A k \in 1 .. Len(added) :
          /\ SendsOf(Len(t) + k, new) = Promised(added[k])
          /\ \A s \in new : s.id = Len(t) + k => s.destination = added[k].destination

IsSpared(r) == IsDataSend(r) /\ r.disposition # "Dropped"

(* The count of DATA that the blackout looks at, and what it does.         *)
CountMatches(before, after, added) ==
    /\ HasCounter(after)
    /\ after.data = before.data + (IF IsSpared(added[1]) THEN 1 ELSE 0)
    /\ InBlackout(config.impairment, before) =>
          added[1].disposition \in {"Dropped", "Injected"}
    /\ Len(added) = 2 => added[2].disposition = "Injected"

Grows(added) ==
    /\ Extends(trace', trace, added)
    /\ Len(added) \in {1, 2}
    /\ CountMatches(pipeline, pipeline', added)
    /\ \E new : /\ SendsMatch(new, trace, added)
                /\ scheduled' = scheduled \cup new
    /\ UNCHANGED sent

(* A record with the sends it is scheduled for, alone ...                  *)
CopySets == {{}, {0}, {0, 1}}

Originals(t, r, delay, socket, damaged, copies) ==
    {[id |-> Len(t) + 1, copy |-> c, deadline |-> delay + c, socket |-> socket,
      destination |-> r.destination, damaged |-> damaged] : c \in copies}

LEMMA SendsOfOne ==
    ASSUME NEW t, IsSequence(t), NEW r, NEW delay, NEW socket, NEW damaged,
           NEW copies \in CopySets,
           copies \X {damaged} = Promised(r)
    PROVE  SendsMatch(Originals(t, r, delay, socket, damaged, copies), t, <<r>>)
<1> DEFINE Send(c) == [id |-> Len(t) + 1, copy |-> c, deadline |-> delay + c,
                       socket |-> socket, destination |-> r.destination,
                       damaged |-> damaged]
           new == {Send(c) : c \in copies}
<1>1. Len(t) \in Nat
  BY TraceBasics
<1>2. \A s \in new : s.id \in Len(t) + 1 .. Len(t) + 1 /\ s.copy \in {0, 1}
  BY <1>1 DEF CopySets
<1>3. /\ \A s, u \in new : s.copy = u.copy => s = u
      /\ \A s \in new : s.destination = r.destination
  OBVIOUS
<1>4. SendsOf(Len(t) + 1, new) = copies \X {damaged}
  <2>1. {s \in new : s.id = Len(t) + 1} = new
    OBVIOUS
  <2>2. SendsOf(Len(t) + 1, new) = {<<s.copy, s.damaged>> : s \in new}
    BY <2>1 DEF SendsOf
  <2>3. \A s \in new : s.copy \in copies /\ s.damaged = damaged
    OBVIOUS
  <2>4. \A c \in copies : \E s \in new : s.copy = c /\ s.damaged = damaged
    <3> TAKE c \in copies
    <3>1. Send(c) \in new /\ Send(c).copy = c /\ Send(c).damaged = damaged
      OBVIOUS
    <3> QED  BY <3>1
  <2> HIDE DEF new
  <2> QED  BY <2>2, <2>3, <2>4
<1> HIDE DEF new
<1>5. SendsMatch(new, t, <<r>>)
  <2> DEFINE added == <<r>>
  <2>1. Len(added) = 1 /\ added[1] = r
    OBVIOUS
  <2> HIDE DEF added
  <2>2. ASSUME NEW k \in 1 .. Len(added)
        PROVE  /\ SendsOf(Len(t) + k, new) = Promised(added[k])
               /\ \A s \in new : s.id = Len(t) + k => s.destination = added[k].destination
    <3>1. k = 1
      BY <2>1
    <3> QED  BY <2>1, <3>1, <1>3, <1>4
  <2>3. SendsMatch(new, t, added)
    BY <1>2, <1>3, <2>1, <2>2 DEF SendsMatch
  <2> QED  BY <2>3 DEF added
<1> QED  BY <1>5 DEF new, Originals
(* ... or with an injected one after it.                                   *)
LEMMA SendsOfTwo ==
    ASSUME NEW t, IsSequence(t), NEW r, NEW injected, NEW new, SendsMatch(new, t, <<r>>),
           NEW s, s.id = Len(t) + 2, s.copy = 0,
           s.destination = injected.destination,
           Promised(injected) = {<<0, s.damaged>>}
    PROVE  SendsMatch(new \cup {s}, t, <<r, injected>>)
<1> DEFINE both == new \cup {s}
<1>1. Len(t) \in Nat
  BY TraceBasics
<1>2. /\ \A u \in new : u.id = Len(t) + 1 /\ u.copy \in {0, 1}
      /\ \A u, v \in new : u.copy = v.copy => u = v
      /\ \A u \in new : u.destination = r.destination
      /\ SendsOf(Len(t) + 1, new) = Promised(r)
  BY <1>1 DEF SendsMatch
<1>3. \A u \in both : u.id \in Len(t) + 1 .. Len(t) + 2 /\ u.copy \in {0, 1}
  BY <1>1, <1>2
<1>4. /\ \A u, v \in both : u.id = v.id /\ u.copy = v.copy => u = v
      /\ \A u \in both : u.id = Len(t) + 1 => u.destination = r.destination
      /\ \A u \in both : u.id = Len(t) + 2 => u.destination = injected.destination
  BY <1>1, <1>2
<1>5. SendsOf(Len(t) + 1, both) = Promised(r)
  <2>1. {u \in both : u.id = Len(t) + 1} = {u \in new : u.id = Len(t) + 1}
    BY <1>1, <1>2
  <2> QED  BY <2>1, <1>2 DEF SendsOf
<1>6. SendsOf(Len(t) + 2, both) = Promised(injected)
  <2>1. {u \in both : u.id = Len(t) + 2} = {s}
    BY <1>1, <1>2
  <2> QED  BY <2>1 DEF SendsOf
<1> HIDE DEF both
<1>7. SendsMatch(both, t, <<r, injected>>)
  <2> DEFINE added == <<r, injected>>
  <2>1. Len(added) = 2 /\ added[1] = r /\ added[2] = injected
    OBVIOUS
  <2> HIDE DEF added
  <2>2. ASSUME NEW k \in 1 .. Len(added)
        PROVE  /\ SendsOf(Len(t) + k, both) = Promised(added[k])
               /\ \A u \in both : u.id = Len(t) + k => u.destination = added[k].destination
    <3>1. k = 1 \/ k = 2
      BY <2>1
    <3> QED  BY <2>1, <3>1, <1>4, <1>5, <1>6
  <2>3. SendsMatch(both, t, added)
    BY <1>3, <1>4, <2>1, <2>2 DEF SendsMatch
  <2> QED  BY <2>3 DEF added
<1> QED  BY <1>7 DEF both
(* observe_and_relay adds the record of the datagram, and the injected one *)
(* if the script asks for it, with the sends they tell of.                 *)
RecordOf(i, session, direction, message, r) ==
    [direction |-> direction, session |-> i, from |-> message.from,
     source |-> IF direction = "ClientToServer" THEN session.client ELSE session.server,
     destination |-> IF direction = "ClientToServer" THEN session.server ELSE session.client,
     packet |-> message.packet,
     disposition |-> IF r.dropped THEN "Dropped"
                     ELSE IF r.corrupted THEN "Corrupted" ELSE "Delivered",
     duplicated |-> r.copies = {0, 1}, reply |-> FALSE]

LEMMA PromisedOfRecord ==
    ASSUME NEW i, NEW session, NEW direction, NEW message, NEW r,
           r.dropped \in BOOLEAN, r.corrupted \in BOOLEAN,
           r.dropped => r.copies = {} /\ ~r.corrupted,
           ~r.dropped => r.copies \in {{0}, {0, 1}}
    PROVE  /\ r.copies \in {{}, {0}, {0, 1}}
           /\ r.copies \X {r.corrupted} = Promised(RecordOf(i, session, direction, message, r))
<1>1. CASE r.dropped
  BY <1>1 DEF Promised, RecordOf
<1>2. CASE ~r.dropped
  <2> DEFINE record == RecordOf(i, session, direction, message, r)
  <2>1. /\ ~record.reply
        /\ record.disposition # "Dropped"
        /\ (record.disposition = "Corrupted") = r.corrupted
        /\ record.duplicated = (r.copies = {0, 1})
    BY <1>2 DEF RecordOf
  <2>2. {0, IF record.duplicated THEN 1 ELSE 0} = r.copies
    BY <1>2, <2>1
  <2> HIDE DEF record
  <2>3. Promised(record) = {0, IF record.duplicated THEN 1 ELSE 0}
                           \X {record.disposition = "Corrupted"}
    BY <2>1 DEF Promised
  <2>4. Promised(record) = r.copies \X {r.corrupted}
    BY <2>1, <2>2, <2>3
  <2> QED  BY <1>2, <2>4 DEF record
<1> QED  BY <1>1, <1>2
LEMMA InjectionIsTheScript ==
    \A record : Injections(record) \in {{}, {config.injection}}
BY DEF Injections

LEMMA PromisedOfInjected ==
    ASSUME NEW j, NEW i, NEW session
    PROVE  /\ Promised(InjectedRecord(j, i, session)) = {<<0, FALSE>>}
           /\ InjectedRecord(j, i, session).destination = InjectionTarget(j, session)
           /\ InjectedRecord(j, i, session).disposition = "Injected"
<1> DEFINE record == InjectedRecord(j, i, session)
<1>1. /\ record.reply = FALSE /\ record.duplicated = FALSE
      /\ record.disposition = "Injected"
      /\ record.destination = InjectionTarget(j, session)
  BY DEF InjectedRecord
<1> HIDE DEF record
<1>2. Promised(record) = {0, 0} \X {FALSE}
  BY <1>1 DEF Promised
<1>3. {0, 0} \X {FALSE} = {<<0, FALSE>>}
  <2>1. \A x, y : {x, x} \X {y} = {<<x, y>>}
    OBVIOUS
  <2> QED  BY <2>1, Zenon
<1>4. /\ Promised(record) = {<<0, FALSE>>}
      /\ record.destination = InjectionTarget(j, session)
      /\ record.disposition = "Injected"
  BY <1>1, <1>2, <1>3
<1> QED  BY <1>4 DEF record

Relays(i, session, direction, message) ==
    \E r :
        LET record == RecordOf(i, session, direction, message, r)
        IN  \/ Grows(<<record>>)
            \/ Grows(<<record, InjectedRecord(config.injection, i, session)>>)

LEMMA Relayed ==
    ASSUME IsSequence(trace), HasCounter(pipeline),
           NEW i, NEW session, NEW direction, NEW message, NEW socket, NEW destination,
           destination = IF direction = "ClientToServer" THEN session.server
                                                         ELSE session.client,
           ObserveAndRelay(i, session, direction, message, socket, destination)
    PROVE  Relays(i, session, direction, message)
<1> DEFINE isData == message.packet.kind = "DATA"
           injected == InjectedRecord(config.injection, i, session)
<1>1. PICK r \in Process(config.impairment, pipeline, direction, message.packet.size,
                         isData, now) :
        LET id == Len(trace) + 1
            record == RecordOf(i, session, direction, message, r)
            injections == Injections(record)
        IN  /\ pipeline' = r.state
            /\ trace' = Append(trace, record)
                        \o (IF injections = {} THEN <<>> ELSE <<injected>>)
            /\ scheduled' = scheduled
                 \cup {[id |-> id, copy |-> c, deadline |-> now + r.delay + c,
                        socket |-> socket, destination |-> destination,
                        damaged |-> r.corrupted] : c \in Copies(r)}
                 \cup {[id |-> id + 1, copy |-> 0, deadline |-> now,
                        socket |-> InjectionSocket(j, i),
                        destination |-> InjectionTarget(j, session),
                        damaged |-> FALSE] : j \in injections}
            /\ UNCHANGED sent
  BY Zenon DEF ObserveAndRelay, RecordOf
<1> DEFINE record == RecordOf(i, session, direction, message, r)
           injections == Injections(record)
           originals == {[id |-> Len(trace) + 1, copy |-> c, deadline |-> now + r.delay + c,
                          socket |-> socket, destination |-> record.destination,
                          damaged |-> r.corrupted] : c \in r.copies}
           s == [id |-> Len(trace) + 2, copy |-> 0, deadline |-> now,
                 socket |-> InjectionSocket(config.injection, i),
                 destination |-> InjectionTarget(config.injection, session),
                 damaged |-> FALSE]
<1>2. isData \in BOOLEAN
  OBVIOUS
<1> HIDE DEF isData
<1>3. IsOutcome(r, config.impairment, pipeline, isData)
  BY <1>1, <1>2, ProcessOutcome, Zenon
<1>4. record.destination = destination
  BY DEF RecordOf
<1>5. SendsMatch(originals, trace, <<record>>)
  <2>1. /\ r.copies \in {{}, {0}, {0, 1}}
        /\ r.copies \X {r.corrupted} = Promised(record)
    BY <1>3, PromisedOfRecord DEF IsOutcome
  <2> DEFINE copies == r.copies
             damaged == r.corrupted
             delay == now + r.delay
  <2> HIDE DEF record, copies, damaged, delay
  <2>2. copies \in CopySets /\ copies \X {damaged} = Promised(record)
    BY <2>1 DEF copies, damaged, CopySets
  <2>3. SendsMatch(Originals(trace, record, delay, socket, damaged, copies),
                   trace, <<record>>)
    BY <2>2, SendsOfOne, Zenon
  <2> QED  BY <2>3, Zenon DEF Originals, copies, damaged, delay
<1>6. CountMatches(pipeline, pipeline', <<record>>)
  BY <1>1, <1>3 DEF CountMatches, IsSpared, IsDataSend, IsPeerSend, RecordOf, isData, IsOutcome
<1>7. CASE injections = {}
  BY <1>1, <1>4, <1>5, <1>6, <1>7, ExtendByOne, ConcatNothing DEF Grows, Copies, Relays
<1>8. CASE injections = {config.injection}
  <2>1. SendsMatch(originals \cup {s}, trace, <<record, injected>>)
    <3>1. /\ s.id = Len(trace) + 2 /\ s.copy = 0 /\ s.damaged = FALSE
          /\ s.destination = InjectionTarget(config.injection, session)
      OBVIOUS
    <3>2. /\ s.destination = injected.destination
          /\ Promised(injected) = {<<0, s.damaged>>}
      <4> HIDE DEF s
      <4>1. /\ Promised(injected) = {<<0, FALSE>>}
            /\ injected.destination = InjectionTarget(config.injection, session)
        BY PromisedOfInjected
      <4> HIDE DEF injected
      <4> QED  BY <3>1, <4>1
    <3> HIDE DEF record, injected, originals, s
    <3> QED  BY <1>5, <3>1, <3>2, SendsOfTwo
  <2>2. CountMatches(pipeline, pipeline', <<record, injected>>)
    <3>1. injected.disposition = "Injected"
      BY PromisedOfInjected
    <3> HIDE DEF record, injected
    <3> QED  BY <1>6, <3>1 DEF CountMatches
  <2>3. scheduled' = scheduled \cup (originals \cup {s})
    BY <1>1, <1>4, <1>8, TraceBasics DEF Copies
  <2> QED  BY <1>1, <1>8, <2>1, <2>2, <2>3, ExtendByTwo DEF Grows, Relays
<1> QED  BY <1>7, <1>8, InjectionIsTheScript
-----------------------------------------------------------------------------
(* The steps, as far as they concern the trace and the sends.              *)

Idles ==
    /\ UNCHANGED <<config, sessions, pipeline, scheduled, trace, sent>>
    /\ pc' = "done" <=> pc = "done"

Flushes ==
    /\ UNCHANGED <<config, sessions, pipeline, trace>> /\ pc # "done"
    /\ \E due \in SUBSET scheduled :
          /\ sent' = sent \cup due /\ scheduled' = scheduled \ due
          /\ pc' = "done" => due = scheduled

(* A datagram of a client, of a session that is or becomes known ...       *)
TakesFromClient ==
    \E message, session, i :
        /\ i \in 1 .. Len(sessions') /\ sessions'[i] = session
        /\ \/ UNCHANGED sessions
           \/ /\ Extends(sessions', sessions, <<session>>) /\ i = Len(sessions) + 1
              /\ session = [client |-> message.from, server |-> WellKnown,
                            locked |-> FALSE]
        /\ Relays(i, session, "ClientToServer", message)

(* ... of the server, which may lock its TID ...                           *)
TakesFromServer ==
    \E message, session, i :
        /\ i \in 1 .. Len(sessions)
        /\ session = LockTid(sessions[i], message.from)
        /\ sessions' = [sessions EXCEPT ![i] = session]
        /\ Relays(i, session, "ServerToClient", message)

(* ... or a reply to a stray TID.                                          *)
TakesReply ==
    /\ UNCHANGED sessions
    /\ \E reply :
          /\ reply.reply = TRUE /\ reply.direction = "ClientToServer"
          /\ reply.disposition = "Injected"
          /\ Grows(<<reply>>)

Takes ==
    /\ UNCHANGED config /\ pc = "handling" /\ pc' # "done"
    /\ TakesFromClient \/ TakesFromServer \/ TakesReply

ShapeInv == IsSequence(trace) /\ IsSequence(sessions) /\ HasCounter(pipeline)

LEMMA IdleSteps ==
    ASSUME \/ ClientSends \/ ServerSends \/ StrayVictimReplies \/ Select
           \/ RefuseClientDatagram \/ Stop \/ Tick \/ Stopped \/ UNCHANGED vars
    PROVE  Idles
BY DEF ClientSends, ServerSends, StrayVictimReplies, Post, Select, RefuseClientDatagram,
       Reads, Stop, Tick, Stopped, vars, loopVars, relayVars, Idles

LEMMA FlushSteps ==
    ASSUME Flush \/ FinalFlush
    PROVE  Flushes
<1>1. CASE Flush
  <2>1. Due \in SUBSET scheduled
    BY DEF Due
  <2> QED  BY <1>1, <2>1 DEF Flush, Flushes
<1>2. CASE FinalFlush
  BY <1>2 DEF FinalFlush, FinalSends, Flushes
<1> QED  BY <1>1, <1>2

LEMMA ReadSteps ==
    ASSUME NEW socket, Reads(socket)
    PROVE  UNCHANGED config /\ pc = "handling" /\ pc' # "done"
BY DEF Reads

LEMMA ClientDatagramSteps ==
    ASSUME ShapeInv, HandleClientDatagram
    PROVE  Takes
<1> DEFINE message == Head(inbox[Listen])
           i == SessionOf(message.from)
           session == IF i <= SessionCount THEN sessions[i]
                      ELSE [client |-> message.from, server |-> WellKnown,
                            locked |-> FALSE]
<1>1. /\ Reads(Listen)
      /\ sessions' = IF i <= SessionCount THEN sessions ELSE Append(sessions, session)
      /\ ObserveAndRelay(i, session, "ClientToServer", message,
                         SessionSocket(i), session.server)
  BY Zenon DEF HandleClientDatagram
<1>2. SessionCount \in Nat /\ SessionCount = Len(sessions)
  BY TraceBasics DEF ShapeInv, SessionCount
<1>3. i \in 1 .. SessionCount + 1
  BY <1>2 DEF SessionOf, KnownClients
<1>4. Relays(i, session, "ClientToServer", message)
  BY <1>1, Relayed DEF ShapeInv
<1> HIDE DEF i, message
<1>5. CASE i <= SessionCount
  <2>1. /\ UNCHANGED sessions /\ i \in 1 .. Len(sessions')
        /\ sessions'[i] = session
    BY <1>1, <1>2, <1>3, <1>5
  <2> HIDE DEF session
  <2> QED  BY <1>1, <1>4, <2>1, ReadSteps DEF Takes, TakesFromClient
<1>6. CASE ~(i <= SessionCount)
  <2>1. Extends(sessions', sessions, <<session>>)
    BY <1>1, <1>6, ExtendByOne DEF ShapeInv
  <2>2. i = Len(sessions) + 1 /\ Len(sessions') = i /\ sessions'[i] = session
    BY <1>2, <1>3, <1>6, <2>1 DEF Extends
  <2>3. session = [client |-> message.from, server |-> WellKnown, locked |-> FALSE]
    BY <1>6
  <2> HIDE DEF session
  <2>4. i \in 1 .. Len(sessions')
    BY <1>2, <2>2
  <2> QED  BY <1>1, <1>4, <2>1, <2>2, <2>3, <2>4, ReadSteps DEF Takes, TakesFromClient
<1> QED  BY <1>5, <1>6

LEMMA ServerDatagramSteps ==
    ASSUME ShapeInv, HandleServerDatagram
    PROVE  Takes
<1>1. PICK i \in 1 .. SessionCount :
        /\ Reads(SessionSocket(i))
        /\ LET message == Head(inbox[SessionSocket(i)])
               session == LockTid(sessions[i], message.from)
           IN  /\ sessions' = [sessions EXCEPT ![i] = session]
               /\ ObserveAndRelay(i, session, "ServerToClient", message,
                                  Listen, session.client)
  BY Zenon DEF HandleServerDatagram
<1> DEFINE message == Head(inbox[SessionSocket(i)])
           session == LockTid(sessions[i], message.from)
<1>2. Relays(i, session, "ServerToClient", message)
  BY <1>1, Relayed DEF ShapeInv
<1> HIDE DEF message
<1> QED  BY <1>1, <1>2, ReadSteps DEF Takes, TakesFromServer, SessionCount, message

LEMMA StrayReplySteps ==
    ASSUME ShapeInv, HandleStrayReply
    PROVE  Takes
<1>1. PICK k \in 1 .. strays :
        /\ Reads(StraySocket(k))
        /\ LET message == Head(inbox[StraySocket(k)])
           IN  trace' = Append(trace,
                 [direction |-> "ClientToServer", session |-> 0,
                  from |-> message.from, source |-> message.from,
                  destination |-> StraySocket(k), packet |-> message.packet,
                  disposition |-> "Injected", duplicated |-> FALSE, reply |-> TRUE])
        /\ UNCHANGED <<sessions, strays, pipeline, scheduled, sent>>
  BY Zenon DEF HandleStrayReply
<1> DEFINE message == Head(inbox[StraySocket(k)])
           reply == [direction |-> "ClientToServer", session |-> 0,
                     from |-> message.from, source |-> message.from,
                     destination |-> StraySocket(k), packet |-> message.packet,
                     disposition |-> "Injected", duplicated |-> FALSE, reply |-> TRUE]
<1>2. /\ reply.reply = TRUE /\ reply.direction = "ClientToServer"
      /\ reply.disposition = "Injected"
  OBVIOUS
<1>3. trace' = Append(trace, reply)
  BY <1>1
<1> HIDE DEF reply
<1>4. Extends(trace', trace, <<reply>>)
  BY <1>3, ExtendByOne DEF ShapeInv
<1>5. CountMatches(pipeline, pipeline', <<reply>>)
  BY <1>1, <1>2 DEF CountMatches, ShapeInv, HasCounter, IsSpared, IsDataSend, IsPeerSend
<1>6. SendsMatch({}, trace, <<reply>>)
  BY <1>2 DEF SendsMatch, SendsOf, Promised
<1>7. Grows(<<reply>>)
  BY <1>1, <1>4, <1>5, <1>6 DEF Grows
<1> QED  BY <1>1, <1>2, <1>7, ReadSteps DEF Takes, TakesReply

LEMMA StepKinds ==
    ASSUME ShapeInv, [Next]_vars
    PROVE  Idles \/ Flushes \/ Takes
BY IdleSteps, FlushSteps, ClientDatagramSteps, ServerDatagramSteps, StrayReplySteps
   DEF Next, RelayLoop
-----------------------------------------------------------------------------
(* The sends are those the trace tells of.                                 *)

Numbered ==
    /\ scheduled \cap sent = {}
    /\ \A s \in Sends : /\ s.id \in 1 .. Len(trace) /\ s.copy \in {0, 1}
                        /\ s.destination = trace[s.id].destination
    /\ \A s, u \in Sends : s.id = u.id /\ s.copy = u.copy => s = u

Accounted ==
    /\ \A i \in 1 .. Len(trace) : SendsOf(i, Sends) = Promised(trace[i])
    /\ pc = "done" => scheduled = {}

TraceInv == ShapeInv /\ Numbered /\ Accounted

(* What a record adds concerns no record before it.                        *)
LEMMA GrowsTrace ==
    ASSUME TraceInv, NEW added, Grows(added), pc' # "done", IsSequence(sessions')
    PROVE  TraceInv'
<1>1. PICK new : SendsMatch(new, trace, added) /\ scheduled' = scheduled \cup new
  BY DEF Grows
<1>2. /\ Extends(trace', trace, added) /\ Len(added) \in {1, 2}
      /\ sent' = sent /\ HasCounter(pipeline')
  BY DEF Grows, CountMatches
<1>3. /\ Len(trace) \in Nat /\ Len(trace') = Len(trace) + Len(added)
      /\ \A i \in 1 .. Len(trace) : trace'[i] = trace[i]
      /\ \A k \in 1 .. Len(added) : trace'[Len(trace) + k] = added[k]
      /\ IsSequence(trace')
  BY <1>2, TraceBasics DEF Extends, TraceInv, ShapeInv
<1>4. Sends' = Sends \cup new
  BY <1>1, <1>2 DEF Sends
<1>5. /\ \A s \in Sends : s.id \in 1 .. Len(trace)
      /\ \A s \in new : s.id \in Len(trace) + 1 .. Len(trace')
  BY <1>1, <1>3 DEF TraceInv, Numbered, SendsMatch
<1>6. ShapeInv'
  BY <1>2, <1>3 DEF ShapeInv
<1>7. Numbered'
  <2>1. scheduled' \cap sent' = {}
    BY <1>1, <1>2, <1>3, <1>5 DEF TraceInv, Numbered, Sends
  <2>2. ASSUME NEW s \in Sends'
        PROVE  /\ s.id \in 1 .. Len(trace') /\ s.copy \in {0, 1}
               /\ s.destination = trace'[s.id].destination
    <3>1. CASE s \in Sends
      BY <1>2, <1>3, <3>1 DEF TraceInv, Numbered
    <3>2. CASE s \in new
      <4>1. PICK k \in 1 .. Len(added) : s.id = Len(trace) + k
        <5>1. s.id - Len(trace) \in 1 .. Len(added)
              /\ s.id = Len(trace) + (s.id - Len(trace))
          BY <1>2, <1>3, <1>5, <3>2
        <5> QED  BY <5>1
      <4>2. s.destination = added[k].destination /\ s.copy \in {0, 1}
        BY <1>1, <3>2, <4>1 DEF SendsMatch
      <4> QED  BY <1>2, <1>3, <1>5, <3>2, <4>1, <4>2
    <3> QED  BY <1>4, <3>1, <3>2
  <2>3. \A s, u \in Sends' : s.id = u.id /\ s.copy = u.copy => s = u
    BY <1>1, <1>3, <1>4, <1>5 DEF TraceInv, Numbered, SendsMatch
  <2> QED  BY <2>1, <2>2, <2>3 DEF Numbered
<1>8. Accounted'
  <2>1. ASSUME NEW i \in 1 .. Len(trace')
        PROVE  SendsOf(i, Sends') = Promised(trace'[i])
    <3>1. CASE i \in 1 .. Len(trace)
      <4>1. {s \in Sends' : s.id = i} = {s \in Sends : s.id = i}
        BY <1>3, <1>4, <1>5, <3>1
      <4>2. SendsOf(i, Sends') = SendsOf(i, Sends)
        BY <4>1 DEF SendsOf
      <4> QED  BY <4>2, <1>3, <3>1 DEF TraceInv, Accounted
    <3>2. CASE i \notin 1 .. Len(trace)
      <4>1. {s \in Sends' : s.id = i} = {s \in new : s.id = i}
        BY <1>3, <1>4, <1>5, <3>2
      <4>2. SendsOf(i, Sends') = SendsOf(i, new)
        BY <4>1 DEF SendsOf
      <4>3. PICK k \in 1 .. Len(added) : i = Len(trace) + k
        <5>1. i - Len(trace) \in 1 .. Len(added) /\ i = Len(trace) + (i - Len(trace))
          BY <1>2, <1>3, <3>2
        <5> QED  BY <5>1
      <4> QED  BY <1>1, <1>3, <4>2, <4>3 DEF SendsMatch
    <3> QED  BY <3>1, <3>2
  <2> QED  BY <2>1 DEF Accounted
<1> QED  BY <1>6, <1>7, <1>8 DEF TraceInv

(* A session that is found, made or locked leaves a sequence of them.      *)
LEMMA TakesGrow ==
    ASSUME ShapeInv, Takes
    PROVE  IsSequence(sessions') /\ pc' # "done" /\ \E added : Grows(added)
<1>1. CASE TakesFromClient
  BY <1>1 DEF Takes, TakesFromClient, Relays, Extends, ShapeInv
<1>2. CASE TakesFromServer
  <2>1. PICK session, i : i \in 1 .. Len(sessions) /\ sessions' = [sessions EXCEPT ![i] = session]
    BY <1>2 DEF TakesFromServer
  <2>2. IsSequence(sessions')
    <3>1. PICK R : sessions \in Seq(R)
      BY DEF ShapeInv, IsSequence
    <3>2. sessions \in Seq(R \cup {session}) /\ session \in R \cup {session}
      BY <3>1
    <3>3. sessions' \in Seq(R \cup {session})
      BY <2>1, <3>2
    <3> QED  BY <3>3 DEF IsSequence
  <2> QED  BY <1>2, <2>2 DEF Takes, TakesFromServer, Relays
<1>3. CASE TakesReply
  BY <1>3 DEF Takes, TakesReply, ShapeInv
<1> QED  BY <1>1, <1>2, <1>3 DEF Takes

LEMMA FlushesTrace ==
    ASSUME TraceInv, Flushes
    PROVE  TraceInv'
<1>1. PICK due \in SUBSET scheduled :
        /\ sent' = sent \cup due /\ scheduled' = scheduled \ due
        /\ pc' = "done" => due = scheduled
  BY DEF Flushes
<1>2. Sends' = Sends
  BY <1>1 DEF Sends
<1>3. UNCHANGED <<sessions, pipeline, trace>>
  BY DEF Flushes
<1>4. ShapeInv'
  BY <1>3 DEF TraceInv, ShapeInv
<1>5. Numbered'
  BY <1>1, <1>2, <1>3 DEF TraceInv, Numbered
<1>6. Accounted'
  BY <1>1, <1>2, <1>3 DEF TraceInv, Accounted
<1> QED  BY <1>4, <1>5, <1>6 DEF TraceInv

LEMMA InitTrace == Init => TraceInv
<1> SUFFICES ASSUME Init  PROVE TraceInv
  OBVIOUS
<1>1. ShapeInv
  <2>1. <<>> \in Seq({})
    OBVIOUS
  <2> QED  BY <2>1 DEF Init, ShapeInv, IsSequence, HasCounter, FreshPipeline
<1>2. Numbered /\ Accounted
  BY DEF Init, Numbered, Accounted, Sends
<1> QED  BY <1>1, <1>2 DEF TraceInv

LEMMA NextTrace == TraceInv /\ [Next]_vars => TraceInv'
<1> SUFFICES ASSUME TraceInv, [Next]_vars  PROVE TraceInv'
  OBVIOUS
<1>1. CASE Idles
  BY <1>1 DEF Idles, TraceInv, ShapeInv, Numbered, Accounted, Sends
<1>2. CASE Flushes
  BY <1>2, FlushesTrace
<1>3. CASE Takes
  BY <1>3, TakesGrow, GrowsTrace DEF TraceInv
<1> QED  BY <1>1, <1>2, <1>3, StepKinds DEF TraceInv

LEMMA TraceIsKept == Spec => []TraceInv
<1> QED  BY InitTrace, NextTrace, PTL DEF Spec

(* What the trace says of a datagram - delivered, duplicated, corrupted,   *)
(* dropped - is what observe_and_relay and flush_due_sends did with it,    *)
(* and the final flush leaves nothing of it behind.                        *)
THEOREM TraceIsTrue == Spec => []TraceTellsWhatWasSent
<1>1. TraceInv => TraceTellsWhatWasSent
  BY TraceBasics DEF TraceInv, ShapeInv, Numbered, Accounted, TraceTellsWhatWasSent,
                     SendsOf, Promised
<1> QED  BY <1>1, TraceIsKept, PTL
-----------------------------------------------------------------------------
(* The proxy is a datagram relay.                                          *)

Owed(sends) == {Delivery(s) : s \in sends}

LEMMA TakesImplement ==
    ASSUME TraceInv, Takes
    PROVE  Relay!Take
<1>1. PICK added : Grows(added)
  BY TakesGrow DEF TraceInv
<1>2. PICK new : SendsMatch(new, trace, added) /\ scheduled' = scheduled \cup new
  BY <1>1 DEF Grows
<1>3. /\ sent' = sent /\ Len(trace) \in Nat
      /\ Len(added) \in {1, 2} /\ Len(trace') = Len(trace) + Len(added)
  BY <1>1, TraceBasics DEF Grows, Extends, TraceInv, ShapeInv
<1>4. pc # "done" /\ pc' # "done"
  BY DEF Takes
<1>5. \A s \in new : /\ s.id \in Len(trace) + 1 .. Len(trace') /\ s.copy \in {0, 1}
                     /\ \A u \in new : s.id = u.id => s.destination = u.destination
  <2> TAKE s \in new
  <2>1. s.id \in Len(trace) + 1 .. Len(trace') /\ s.copy \in {0, 1}
    BY <1>2, <1>3 DEF SendsMatch
  <2>2. s.id - Len(trace) \in 1 .. Len(added) /\ s.id = Len(trace) + (s.id - Len(trace))
    BY <1>3, <2>1
  <2>3. \A u \in new : u.id = Len(trace) + (s.id - Len(trace)) =>
                          u.destination = added[s.id - Len(trace)].destination
    BY <1>2, <2>2 DEF SendsMatch
  <2> QED  BY <2>1, <2>2, <2>3
<1>6. Owed(scheduled)' = Owed(scheduled) \cup Owed(new) /\ Owed(sent)' = Owed(sent)
  BY <1>2, <1>3 DEF Owed, Delivery
<1>7. \A d \in Owed(new) :
         /\ d.id \in Len(trace) + 1 .. Len(trace') /\ d.copy \in {0, 1}
         /\ \A e \in Owed(new) : d.id = e.id => d.to = e.to
  BY <1>5 DEF Owed, Delivery
<1>8. Len(trace') \in Len(trace) .. Len(trace) + 2
  <2>1. \A n \in Nat, m \in {1, 2} : n + m \in n .. n + 2
    OBVIOUS
  <2> QED  BY <1>3, <2>1, Zenon
<1> DEFINE owed == Owed(scheduled)
           after == Owed(scheduled)'
           fresh == Owed(new)
<1> HIDE DEF owed, after, fresh
<1>10. after = owed \cup fresh
  BY <1>6, Zenon DEF owed, after, fresh
<1>11. \A d \in fresh :
          /\ d.id \in Len(trace) + 1 .. Len(trace') /\ d.copy \in {0, 1}
          /\ \A e \in fresh : d.id = e.id => d.to = e.to
  BY <1>7, Zenon DEF fresh
<1>12. /\ owed \subseteq after
       /\ \A d \in after \ owed :
             d.id \in Len(trace) + 1 .. Len(trace') /\ d.copy \in {0, 1}
       /\ \A d, e \in after \ owed : d.id = e.id => d.to = e.to
  BY <1>10, <1>11
<1>9. Owed(sent)' = Owed(sent) /\ (pc = "done")' = (pc = "done") /\ ~(pc = "done")
  BY <1>4, <1>6, Zenon
<1> QED  BY <1>8, <1>9, <1>12, Zenon DEF Relay!Take, Owed, owed, after

LEMMA FlushesImplement ==
    ASSUME TraceInv, Flushes
    PROVE  Relay!Deliver \/ Relay!Close
<1>1. PICK due \in SUBSET scheduled :
        /\ sent' = sent \cup due /\ scheduled' = scheduled \ due
        /\ pc' = "done" => due = scheduled
  BY DEF Flushes
<1>2. UNCHANGED trace /\ pc # "done"
  BY DEF Flushes
<1>3. \A s \in scheduled, u \in scheduled : Delivery(s) = Delivery(u) => s = u
  <2> SUFFICES ASSUME NEW s \in scheduled, NEW u \in scheduled, Delivery(s) = Delivery(u)
               PROVE  s = u
    OBVIOUS
  <2>1. s.id = u.id /\ s.copy = u.copy
    BY DEF Delivery
  <2> QED  BY <2>1 DEF TraceInv, Numbered, Sends
<1>4. /\ Owed(scheduled)' = Owed(scheduled) \ Owed(due)
      /\ Owed(sent)' = Owed(sent) \cup Owed(due)
      /\ Owed(due) \subseteq Owed(scheduled)
  <2> HIDE DEF Delivery
  <2> QED  BY <1>1, <1>3 DEF Owed
<1>5. CASE pc' = "done"
  BY <1>1, <1>2, <1>4, <1>5 DEF Relay!Close, Owed
<1>6. CASE pc' # "done"
  BY <1>2, <1>4, <1>6 DEF Relay!Deliver, Owed
<1> QED  BY <1>5, <1>6

(* Whatever the impairments, the scripts and the peers do, the proxy is a  *)
(* relay: relay_loop hands over what it took, to one endpoint, at most     *)
(* twice, and leaves nothing behind when it is stopped.                    *)
THEOREM ImplementsDatagramRelay == Spec => ImplementsRelay
<1>1. Init => Relay!RelayInit
  BY DEF Init, Relay!RelayInit
<1>2. TraceInv /\ [Next]_vars
        => [Relay!Take \/ Relay!Deliver \/ Relay!Close]_(Relay!relayVars)
  <2> SUFFICES ASSUME TraceInv, [Next]_vars
               PROVE  \/ Relay!Take \/ Relay!Deliver \/ Relay!Close
                      \/ UNCHANGED Relay!relayVars
    OBVIOUS
  <2>1. CASE Idles
    BY <2>1 DEF Idles, Relay!relayVars
  <2> QED  BY <2>1, TakesImplement, FlushesImplement, StepKinds DEF TraceInv
<1> QED  BY <1>1, <1>2, TraceIsKept, PTL DEF Spec, ImplementsRelay, Relay!RelaySpec
-----------------------------------------------------------------------------
(* The blackout.                                                           *)

SparedBefore(i) == {j \in 1 .. i - 1 : IsSpared(trace[j])}

(* The pipeline has counted the DATA packets that survived, and the trace  *)
(* shows no survivor where the count was reached before.                   *)
BlackoutInv ==
    /\ pipeline.data = Cardinality(SparedBefore(Len(trace) + 1))
    /\ \A i \in 1 .. Len(trace) :
          /\ config.impairment.blackout
          /\ Cardinality(SparedBefore(i)) >= config.impairment.blackoutAfter
          => trace[i].disposition \in {"Dropped", "Injected"}

LEMMA GrowsBlackout ==
    ASSUME ShapeInv, BlackoutInv, UNCHANGED config, NEW added, Grows(added)
    PROVE  BlackoutInv'
<1> DEFINE n == Len(trace)
<1>1. /\ n \in Nat /\ Len(added) \in {1, 2} /\ Len(trace') = n + Len(added)
      /\ \A i \in 1 .. n : trace'[i] = trace[i]
      /\ \A k \in 1 .. Len(added) : trace'[n + k] = added[k]
  BY TraceBasics DEF Grows, Extends, ShapeInv
<1>2. CountMatches(pipeline, pipeline', added)
  BY DEF Grows
<1> HIDE DEF n
<1>3. /\ trace'[n + 1] = added[1]
      /\ Len(added) = 2 => trace'[n + 2] = added[2]
  BY <1>1
<1>4. \A i \in 1 .. n + 1 : SparedBefore(i)' = SparedBefore(i)
  BY <1>1 DEF SparedBefore
<1>5. \A i \in 1 .. Len(trace') : i \in 1 .. n \/ i = n + 1 \/ (i = n + 2 /\ Len(added) = 2)
  BY <1>1
<1>6. ASSUME NEW i \in 1 .. Len(trace'), config.impairment.blackout,
             Cardinality(SparedBefore(i)') >= config.impairment.blackoutAfter
      PROVE  trace'[i].disposition \in {"Dropped", "Injected"}
  <2>1. CASE i \in 1 .. n
    BY <1>1, <1>4, <1>6, <2>1 DEF BlackoutInv, n
  <2>2. CASE i = n + 1
    <3>1. pipeline.data = Cardinality(SparedBefore(i)')
      BY <1>1, <1>4, <2>2 DEF BlackoutInv, n
    <3>2. InBlackout(config.impairment, pipeline)
      BY <1>6, <3>1 DEF InBlackout
    <3> QED  BY <1>2, <1>3, <2>2, <3>2 DEF CountMatches
  <2>3. CASE i = n + 2 /\ Len(added) = 2
    BY <1>2, <1>3, <2>3 DEF CountMatches
  <2> QED  BY <1>5, <2>1, <2>2, <2>3
<1>7. pipeline'.data = Cardinality(SparedBefore(Len(trace) + 1)')
  <2> DEFINE before == SparedBefore(n + 1)
             after == SparedBefore(Len(trace) + 1)'
  <2>1. IsFiniteSet(before) /\ before \subseteq 1 .. n
    <3>1. before \subseteq 1 .. n
      BY <1>1 DEF SparedBefore
    <3> HIDE DEF before
    <3>2. IsFiniteSet(1 .. n)
      BY <1>1, FS_Interval
    <3> QED  BY <3>1, <3>2, FS_Subset
  <2>2. Len(added) = 2 => ~IsSpared(trace'[n + 2])
    BY <1>2, <1>3 DEF CountMatches, IsSpared, IsDataSend, IsPeerSend
  <2>3. after = before \cup (IF IsSpared(trace'[n + 1]) THEN {n + 1} ELSE {})
    <3>1. after = {j \in 1 .. Len(trace') : IsSpared(trace'[j])}
      BY <1>1 DEF SparedBefore
    <3>2. before = {j \in 1 .. n : IsSpared(trace[j])}
      BY <1>1 DEF SparedBefore
    <3> HIDE DEF after, before
    <3>3. n + 1 \in 1 .. Len(trace')
      BY <1>1
    <3>4. \A j \in 1 .. n : j \in 1 .. Len(trace')
      BY <1>1
    <3> QED  BY <1>1, <1>5, <2>2, <3>1, <3>2, <3>3, <3>4
  <2>4. pipeline.data = Cardinality(before)
    BY DEF BlackoutInv, n
  <2>5. pipeline'.data = pipeline.data + (IF IsSpared(trace'[n + 1]) THEN 1 ELSE 0)
    BY <1>2, <1>3 DEF CountMatches
  <2>6. n + 1 \notin before
    BY <1>1, <2>1
  <2> HIDE DEF after, before
  <2>7. ASSUME IsSpared(trace'[n + 1])  PROVE pipeline'.data = Cardinality(after)
    BY <2>1, <2>3, <2>4, <2>5, <2>6, <2>7, FS_AddElement
  <2>8. ASSUME ~IsSpared(trace'[n + 1])  PROVE pipeline'.data = Cardinality(after)
    <3>1. after = before
      BY <2>3, <2>8
    <3>2. Cardinality(before) \in Nat
      BY <2>1, FS_CardinalityType
    <3> QED  BY <2>4, <2>5, <2>8, <3>1, <3>2
  <2> QED  BY <2>7, <2>8 DEF after
<1> QED  BY <1>6, <1>7 DEF BlackoutInv

LEMMA InitBlackout == Init => BlackoutInv
<1> SUFFICES ASSUME Init  PROVE BlackoutInv
  OBVIOUS
<1>1. trace = <<>> /\ Len(trace) = 0 /\ pipeline.data = 0
  BY DEF Init, FreshPipeline
<1>2. SparedBefore(Len(trace) + 1) = {}
  BY <1>1 DEF SparedBefore
<1> QED  BY <1>1, <1>2, FS_EmptySet DEF BlackoutInv

LEMMA NextBlackout == ShapeInv /\ BlackoutInv /\ [Next]_vars => BlackoutInv'
<1> SUFFICES ASSUME ShapeInv, BlackoutInv, [Next]_vars  PROVE BlackoutInv'
  OBVIOUS
<1>1. CASE Idles
  BY <1>1 DEF Idles, BlackoutInv, SparedBefore
<1>2. CASE Flushes
  BY <1>2 DEF Flushes, BlackoutInv, SparedBefore
<1>3. CASE Takes
  BY <1>3, TakesGrow, GrowsBlackout DEF Takes
<1> QED  BY <1>1, <1>2, <1>3, StepKinds

(* Once as many DATA packets have survived as the blackout allows, on all  *)
(* sessions and both directions together, the pipeline lets nothing        *)
(* through any more (impairments.cpp, blackout stage).                     *)
THEOREM BlackoutEndsTheTransfer == Spec => []BlackoutIsTotal
<1>1. ShapeInv /\ BlackoutInv => BlackoutIsTotal
  BY TraceBasics DEF ShapeInv, BlackoutInv, BlackoutIsTotal, SparedBefore, IsSpared
<1>2. TraceInv => ShapeInv
  BY DEF TraceInv
<1> QED  BY <1>1, <1>2, InitBlackout, NextBlackout, TraceIsKept, PTL DEF Spec
-----------------------------------------------------------------------------
(* The peers of a session.                                                 *)

IsAnswer(r, k) == IsPeerSend(r) /\ r.direction = "ServerToClient" /\ r.session = k

AnswersIn(t, k, before) == {i \in 1 .. Len(t) : IsAnswer(t[i], k) /\ i < before}

(* Where the first answer on session k came from.                          *)
Answerer(t, k, before) ==
    IF AnswersIn(t, k, before) = {} THEN WellKnown
    ELSE t[Min(AnswersIn(t, k, before))].from

LEMMA MinIsFirst ==
    ASSUME NEW S \in SUBSET Nat, NEW m \in S, \A y \in S : m <= y
    PROVE  Min(S) = m
<1>1. Min(S) \in S /\ \A y \in S : Min(S) <= y
  BY MinOfNaturals
<1>2. Min(S) <= m /\ m <= Min(S) /\ Min(S) \in Nat /\ m \in Nat
  BY <1>1
<1>3. \A x, y \in Nat : x <= y /\ y <= x => x = y
  OBVIOUS
<1> QED  BY <1>2, <1>3, Zenon

(* What is added to the trace changes no answer before it ...              *)
LEMMA EarlierAnswers ==
    ASSUME NEW t, IsSequence(t), NEW longer, NEW added, Extends(longer, t, added),
           Len(added) \in {1, 2}, NEW k, NEW j \in 1 .. Len(t) + 1
    PROVE  /\ AnswersIn(longer, k, j) = AnswersIn(t, k, j)
           /\ Answerer(longer, k, j) = Answerer(t, k, j)
<1> DEFINE n == Len(t)
           S == AnswersIn(t, k, j)
<1>1. /\ n \in Nat /\ Len(longer) = n + Len(added)
      /\ \A i \in 1 .. n : longer[i] = t[i]
  BY TraceBasics DEF Extends
<1>2. AnswersIn(longer, k, j) = S
  BY <1>1 DEF AnswersIn
<1>3. S \in SUBSET Nat /\ S \subseteq 1 .. n
  BY <1>1 DEF AnswersIn
<1> HIDE DEF n, S
<1>4. CASE S = {}
  BY <1>2, <1>4 DEF Answerer, S
<1>5. CASE S # {}
  <2>1. Min(S) \in 1 .. n
    BY <1>3, <1>5, MinOfNaturals
  <2>2. longer[Min(S)] = t[Min(S)]
    BY <1>1, <2>1
  <2> QED  BY <1>2, <1>5, <2>2 DEF Answerer, S
<1> QED  BY <1>2, <1>4, <1>5 DEF S

LEMMA OneOrTwoMore ==
    ASSUME NEW n \in Nat, NEW m \in {1, 2}, NEW j \in {n + 2, n + m + 1}
    PROVE  /\ \A i \in 1 .. n + m : i \in 1 .. n \/ i = n + 1 \/ (i = n + 2 /\ m = 2)
           /\ n + 1 \in 1 .. n + m /\ n + 1 < j
           /\ \A i \in 1 .. n : i < j /\ i < n + 1 /\ i \in 1 .. n + m
<1>1. CASE m = 1
  BY <1>1
<1>2. CASE m = 2
  BY <1>2
<1> QED  BY <1>1, <1>2

(* ... and the answer it may be itself is the first if there was none.     *)
LEMMA NextAnswer ==
    ASSUME NEW t, IsSequence(t), NEW longer, NEW added, Extends(longer, t, added),
           Len(added) \in {1, 2}, Len(added) = 2 => added[2].disposition = "Injected",
           NEW k, NEW j \in {Len(t) + 2, Len(longer) + 1}
    PROVE  LET last == Len(t) + 1
           IN  /\ IsAnswer(added[1], k) =>
                    /\ AnswersIn(longer, k, j) # {}
                    /\ Answerer(longer, k, j) =
                         IF AnswersIn(t, k, last) = {} THEN added[1].from
                         ELSE Answerer(t, k, last)
               /\ ~IsAnswer(added[1], k) =>
                    /\ AnswersIn(longer, k, j) = AnswersIn(t, k, last)
                    /\ Answerer(longer, k, j) = Answerer(t, k, last)
<1> DEFINE n == Len(t)
           S == AnswersIn(t, k, n + 1)
           U == AnswersIn(longer, k, j)
<1>1. /\ n \in Nat /\ Len(longer) = n + Len(added)
      /\ \A i \in 1 .. n : longer[i] = t[i]
      /\ \A i \in 1 .. Len(added) : longer[n + i] = added[i]
  BY TraceBasics DEF Extends
<1>2. longer[n + 1] = added[1]
  BY <1>1
<1>3. Len(added) = 2 => ~IsAnswer(longer[n + 2], k)
  BY <1>1 DEF IsAnswer, IsPeerSend
<1>4. /\ \A i \in 1 .. Len(longer) : i \in 1 .. n \/ i = n + 1
                                    \/ (i = n + 2 /\ Len(added) = 2)
      /\ n + 1 \in 1 .. Len(longer) /\ n + 1 < j
      /\ \A i \in 1 .. n : i < j /\ i < n + 1 /\ i \in 1 .. Len(longer)
  <2> DEFINE m == Len(added)
  <2>1. m \in {1, 2} /\ j \in {n + 2, n + m + 1} /\ Len(longer) = n + m
    BY <1>1
  <2> HIDE DEF n, m
  <2> QED  BY <1>1, <2>1, OneOrTwoMore DEF m
<1>5. S \in SUBSET Nat /\ S \subseteq 1 .. n
  BY <1>1 DEF AnswersIn
<1>6. U = S \cup (IF IsAnswer(added[1], k) THEN {n + 1} ELSE {})
  <2>1. S = {i \in 1 .. n : IsAnswer(t[i], k) /\ i < n + 1}
    BY DEF AnswersIn
  <2>2. U = {i \in 1 .. Len(longer) : IsAnswer(longer[i], k) /\ i < j}
    BY DEF AnswersIn
  <2> HIDE DEF n, S, U
  <2> QED  BY <1>1, <1>2, <1>3, <1>4, <2>1, <2>2
<1> HIDE DEF n, S, U
<1>7. CASE IsAnswer(added[1], k) /\ S = {}
  <2>1. U = {n + 1}
    BY <1>6, <1>7
  <2>2. Min(U) = n + 1
    BY <1>1, <2>1, MinIsFirst
  <2> QED  BY <1>2, <1>7, <2>1, <2>2 DEF Answerer, S, U, n
<1>8. CASE IsAnswer(added[1], k) /\ S # {}
  <2>1. Min(S) \in S /\ \A y \in S : Min(S) <= y
    BY <1>5, <1>8, MinOfNaturals
  <2>2. U \in SUBSET Nat /\ Min(S) \in U /\ \A y \in U : Min(S) <= y
    <3>1. U = S \cup {n + 1} /\ Min(S) \in 1 .. n
      BY <1>5, <1>6, <1>8, <2>1
    <3>2. Min(S) <= n + 1 /\ n + 1 \in Nat
      BY <1>1, <3>1
    <3> QED  BY <1>5, <2>1, <3>1, <3>2
  <2>3. Min(U) = Min(S)
    BY <2>2, MinIsFirst
  <2>4. longer[Min(S)] = t[Min(S)]
    BY <1>1, <1>5, <2>1
  <2> QED  BY <1>8, <2>2, <2>3, <2>4 DEF Answerer, S, U, n
<1>9. CASE ~IsAnswer(added[1], k)
  <2>1. U = S
    BY <1>6, <1>9
  <2>2. S # {} => longer[Min(S)] = t[Min(S)]
    <3> SUFFICES ASSUME S # {}  PROVE longer[Min(S)] = t[Min(S)]
      OBVIOUS
    <3>1. Min(S) \in 1 .. n
      BY <1>5, MinOfNaturals
    <3> QED  BY <1>1, <3>1
  <2> QED  BY <1>9, <2>1, <2>2 DEF Answerer, S, U, n
<1> QED  BY <1>7, <1>8, <1>9
IsSession(s) == DOMAIN s = {"client", "server", "locked"} /\ s.locked \in BOOLEAN

(* A session is locked once the trace has an answer on it, and to the TID  *)
(* of the first one.                                                       *)
ServerIsKnown(t, s, k) ==
    /\ s.locked = (AnswersIn(t, k, Len(t) + 1) # {})
    /\ s.server = Answerer(t, k, Len(t) + 1)

(* The record at i was addressed to the peer its session had then.         *)
ToOwnPeer(t, known, i) ==
    /\ t[i].reply = FALSE
    /\ t[i].session \in 1 .. Len(known)
    /\ t[i].direction = "ServerToClient" =>
          t[i].destination = known[t[i].session].client
    /\ t[i].direction # "ServerToClient" =>
          t[i].destination = Answerer(t, t[i].session, i)

SessionsInv ==
    \A k \in 1 .. Len(sessions) :
        IsSession(sessions[k]) /\ ServerIsKnown(trace, sessions[k], k)

RecordsInv ==
    \A i \in 1 .. Len(trace) :
        \/ trace[i].reply = TRUE /\ trace[i].direction = "ClientToServer"
        \/ ToOwnPeer(trace, sessions, i)

(* The records before stay addressed, and those that are added are, if     *)
(* their session has the server it has after them.                         *)
LEMMA GrowsRecords ==
    ASSUME ShapeInv, RecordsInv, NEW added, Grows(added),
           Len(sessions) \in Nat, Len(sessions') \in Nat, Len(sessions) <= Len(sessions'),
           \A k \in 1 .. Len(sessions) : sessions'[k].client = sessions[k].client,
           NEW i \in 1 .. Len(sessions'),
           added[1].reply = FALSE, added[1].session = i,
           added[1].direction = "ServerToClient" =>
               added[1].destination = sessions'[i].client,
           added[1].direction # "ServerToClient" =>
               added[1].destination = Answerer(trace, i, Len(trace) + 1),
           Len(added) = 2 => added[2] = InjectedRecord(config.injection, i, sessions'[i]),
           sessions'[i].server = Answerer(trace', i, Len(trace) + 2)
    PROVE  RecordsInv'
<1> DEFINE n == Len(trace)
<1>1. /\ n \in Nat /\ Len(added) \in {1, 2} /\ Len(trace') = n + Len(added)
      /\ \A j \in 1 .. n : trace'[j] = trace[j]
      /\ \A k \in 1 .. Len(added) : trace'[n + k] = added[k]
      /\ Extends(trace', trace, added)
  BY TraceBasics DEF Grows, Extends, ShapeInv
<1>2. trace'[n + 1] = added[1] /\ (Len(added) = 2 => trace'[n + 2] = added[2])
  BY <1>1
<1>3. \A k : \A j \in 1 .. n + 1 : Answerer(trace', k, j) = Answerer(trace, k, j)
  BY <1>1, EarlierAnswers DEF ShapeInv
<1>4. ASSUME NEW j \in 1 .. n
      PROVE  \/ trace'[j].reply = TRUE /\ trace'[j].direction = "ClientToServer"
             \/ ToOwnPeer(trace', sessions', j)
  <2>1. trace'[j] = trace[j] /\ j \in 1 .. n + 1
    BY <1>1
  <2>2. CASE ToOwnPeer(trace, sessions, j)
    <3>1. trace[j].session \in 1 .. Len(sessions)
          /\ trace[j].session \in 1 .. Len(sessions')
      BY <2>2 DEF ToOwnPeer
    <3>2. Answerer(trace', trace[j].session, j) = Answerer(trace, trace[j].session, j)
      BY <1>3, <2>1
    <3> QED  BY <2>1, <2>2, <3>1, <3>2 DEF ToOwnPeer
  <2> QED  BY <2>1, <2>2 DEF RecordsInv
<1>5. ToOwnPeer(trace', sessions', n + 1)
  <2>1. Answerer(trace', i, n + 1) = Answerer(trace, i, n + 1)
    BY <1>1, <1>3
  <2> QED  BY <1>2, <2>1 DEF ToOwnPeer
<1>6. ASSUME Len(added) = 2  PROVE ToOwnPeer(trace', sessions', n + 2)
  <2>1. trace'[n + 2] = InjectedRecord(config.injection, i, sessions'[i])
    BY <1>2, <1>6
  <2>2. /\ trace'[n + 2].reply = FALSE /\ trace'[n + 2].session = i
        /\ trace'[n + 2].direction = "ServerToClient" =>
              trace'[n + 2].destination = sessions'[i].client
        /\ trace'[n + 2].direction # "ServerToClient" =>
              trace'[n + 2].destination = sessions'[i].server
    BY <2>1 DEF InjectedRecord, InjectionTarget
  <2> QED  BY <2>2 DEF ToOwnPeer
<1>7. \A j \in 1 .. Len(trace') : j \in 1 .. n \/ j = n + 1 \/ (j = n + 2 /\ Len(added) = 2)
  <2> DEFINE m == Len(added)
  <2>1. n \in Nat /\ m \in {1, 2} /\ n + 2 \in {n + 2, n + m + 1} /\ Len(trace') = n + m
    BY <1>1
  <2> HIDE DEF n, m
  <2> QED  BY <2>1, OneOrTwoMore DEF m
<1> HIDE DEF n
<1> QED  BY <1>4, <1>5, <1>6, <1>7 DEF RecordsInv

(* On a session nobody has, nobody has answered.                           *)
LEMMA NewSessionHasNoAnswer ==
    ASSUME ShapeInv, RecordsInv, NEW k, k \notin 1 .. Len(sessions)
    PROVE  AnswersIn(trace, k, Len(trace) + 1) = {}
BY DEF AnswersIn, IsAnswer, RecordsInv, ToOwnPeer

(* What Relays adds, in terms of its records.                              *)
IsAdded(added, i, session, direction, message) ==
    /\ Grows(added) /\ Len(added) \in {1, 2}
    /\ added[1].reply = FALSE /\ added[1].session = i
    /\ added[1].direction = direction /\ IsPeerSend(added[1])
    /\ added[1].from = message.from
    /\ added[1].destination = IF direction = "ServerToClient"
                              THEN session.client ELSE session.server
    /\ Len(added) = 2 => /\ added[2] = InjectedRecord(config.injection, i, session)
                         /\ added[2].disposition = "Injected"

LEMMA RelaysAdds ==
    ASSUME NEW i, NEW session, NEW direction, NEW message,
           direction \in {"ClientToServer", "ServerToClient"},
           Relays(i, session, direction, message)
    PROVE  \E added : IsAdded(added, i, session, direction, message)
<1>1. PICK r : LET record == RecordOf(i, session, direction, message, r)
               IN  \/ Grows(<<record>>)
                   \/ Grows(<<record, InjectedRecord(config.injection, i, session)>>)
  BY DEF Relays
<1> DEFINE record == RecordOf(i, session, direction, message, r)
           injected == InjectedRecord(config.injection, i, session)
<1>2. /\ record.reply = FALSE /\ record.session = i
      /\ record.direction = direction /\ IsPeerSend(record)
      /\ record.from = message.from
      /\ record.destination = IF direction = "ServerToClient"
                              THEN session.client ELSE session.server
  BY DEF RecordOf, IsPeerSend
<1>3. injected.disposition = "Injected"
  BY PromisedOfInjected
<1>4. Grows(<<record>>) \/ Grows(<<record, injected>>)
  BY <1>1
<1> HIDE DEF record, injected
<1>5. CASE Grows(<<record>>)
  <2> DEFINE added == <<record>>
  <2>1. Len(added) = 1 /\ added[1] = record
    OBVIOUS
  <2>2. Grows(added)
    BY <1>5
  <2> HIDE DEF added
  <2> QED  BY <1>2, <2>1, <2>2 DEF IsAdded
<1>6. CASE Grows(<<record, injected>>)
  <2> DEFINE added == <<record, injected>>
  <2>1. Len(added) = 2 /\ added[1] = record /\ added[2] = injected
    OBVIOUS
  <2>2. Grows(added)
    BY <1>6
  <2> HIDE DEF added
  <2> QED  BY <1>2, <1>3, <2>1, <2>2 DEF injected, IsAdded
<1> QED  BY <1>4, <1>5, <1>6
LEMMA ClientKeepsPeers ==
    ASSUME ShapeInv, SessionsInv, RecordsInv, TakesFromClient
    PROVE  SessionsInv' /\ RecordsInv'
<1>1. PICK message, session, i :
        /\ i \in 1 .. Len(sessions') /\ sessions'[i] = session
        /\ \/ UNCHANGED sessions
           \/ /\ Extends(sessions', sessions, <<session>>) /\ i = Len(sessions) + 1
              /\ session = [client |-> message.from, server |-> WellKnown,
                            locked |-> FALSE]
        /\ Relays(i, session, "ClientToServer", message)
  BY DEF TakesFromClient
<1>2. PICK added : IsAdded(added, i, session, "ClientToServer", message)
  BY <1>1, RelaysAdds
<1>3. Len(sessions) \in Nat /\ Len(trace) \in Nat /\ Extends(trace', trace, added)
  BY <1>2, TraceBasics DEF ShapeInv, Grows, IsAdded
<1>4. /\ Len(sessions') \in Nat /\ Len(sessions) <= Len(sessions')
      /\ \A k \in 1 .. Len(sessions) : sessions'[k] = sessions[k]
      /\ \A k \in 1 .. Len(sessions') :
            k \in 1 .. Len(sessions) \/ (k = i /\ k \notin 1 .. Len(sessions))
  <2>1. CASE UNCHANGED sessions
    BY <1>3, <2>1
  <2>2. CASE Extends(sessions', sessions, <<session>>) /\ i = Len(sessions) + 1
    <3>1. Len(<<session>>) = 1
      OBVIOUS
    <3>2. Len(sessions') = Len(sessions) + 1
          /\ \A k \in 1 .. Len(sessions) : sessions'[k] = sessions[k]
      BY <2>2, <3>1 DEF Extends
    <3> QED  BY <1>3, <2>2, <3>2
  <2> QED  BY <1>1, <2>1, <2>2
<1>5. \A k : /\ AnswersIn(trace', k, Len(trace) + 2) = AnswersIn(trace, k, Len(trace) + 1)
             /\ AnswersIn(trace', k, Len(trace') + 1) = AnswersIn(trace, k, Len(trace) + 1)
             /\ Answerer(trace', k, Len(trace) + 2) = Answerer(trace, k, Len(trace) + 1)
             /\ Answerer(trace', k, Len(trace') + 1) = Answerer(trace, k, Len(trace) + 1)
  <2> TAKE k
  <2>1. ~IsAnswer(added[1], k)
    BY <1>2 DEF IsAnswer, IsAdded
  <2> QED  BY <1>2, <1>3, <2>1, NextAnswer DEF ShapeInv, IsAdded
<1>6. IsSession(session) /\ ServerIsKnown(trace, session, i)
  <2>1. CASE i \in 1 .. Len(sessions)
    BY <1>1, <1>4, <2>1 DEF SessionsInv
  <2>2. CASE i \notin 1 .. Len(sessions)
    <3>1. session = [client |-> message.from, server |-> WellKnown, locked |-> FALSE]
      BY <1>1, <2>2
    <3>2. AnswersIn(trace, i, Len(trace) + 1) = {}
      BY <2>2, NewSessionHasNoAnswer
    <3> QED  BY <3>1, <3>2 DEF IsSession, ServerIsKnown, Answerer
  <2> QED  BY <2>1, <2>2
<1>7. SessionsInv'
  <2> SUFFICES ASSUME NEW k \in 1 .. Len(sessions')
               PROVE  IsSession(sessions'[k]) /\ ServerIsKnown(trace', sessions'[k], k)
    BY DEF SessionsInv
  <2>1. IsSession(sessions'[k]) /\ ServerIsKnown(trace, sessions'[k], k)
    BY <1>1, <1>4, <1>6 DEF SessionsInv
  <2> QED  BY <1>5, <2>1 DEF ServerIsKnown
<1>8. RecordsInv'
  <2>1. session.server = Answerer(trace, i, Len(trace) + 1)
    BY <1>6 DEF ServerIsKnown
  <2>2. sessions'[i].server = Answerer(trace', i, Len(trace) + 2)
    BY <1>1, <1>5, <2>1
  <2>3. \A k \in 1 .. Len(sessions) : sessions'[k].client = sessions[k].client
    BY <1>4
  <2>4. /\ added[1].direction # "ServerToClient"
        /\ added[1].destination = Answerer(trace, i, Len(trace) + 1)
        /\ Len(added) = 2 => added[2] = InjectedRecord(config.injection, i, sessions'[i])
    BY <1>1, <1>2, <2>1 DEF IsAdded
  <2> QED  BY <1>1, <1>2, <1>3, <1>4, <2>2, <2>3, <2>4, GrowsRecords DEF IsAdded
<1> QED  BY <1>7, <1>8

LEMMA ServerKeepsPeers ==
    ASSUME ShapeInv, SessionsInv, RecordsInv, TakesFromServer
    PROVE  SessionsInv' /\ RecordsInv'
<1>1. PICK message, session, i :
        /\ i \in 1 .. Len(sessions)
        /\ session = LockTid(sessions[i], message.from)
        /\ sessions' = [sessions EXCEPT ![i] = session]
        /\ Relays(i, session, "ServerToClient", message)
  BY DEF TakesFromServer
<1>2. PICK added : IsAdded(added, i, session, "ServerToClient", message)
  BY <1>1, RelaysAdds
<1>3. Len(sessions) \in Nat /\ Len(trace) \in Nat /\ Extends(trace', trace, added)
      /\ DOMAIN sessions = 1 .. Len(sessions)
  BY <1>2, TraceBasics DEF ShapeInv, Grows, IsAdded
<1>4. /\ Len(sessions') = Len(sessions) /\ sessions'[i] = session
      /\ \A k \in 1 .. Len(sessions) : k # i => sessions'[k] = sessions[k]
  <2>1. Len(sessions') = Len(sessions)
    <3>1. PICK R : sessions \in Seq(R)
      BY DEF ShapeInv, IsSequence
    <3>2. sessions \in Seq(R \cup {session}) /\ session \in R \cup {session}
      BY <3>1
    <3> QED  BY <1>1, <3>2
  <2> QED  BY <1>1, <1>3, <2>1
<1>5. IsSession(sessions[i]) /\ ServerIsKnown(trace, sessions[i], i)
  BY <1>1 DEF SessionsInv
<1>6. /\ IsSession(session) /\ session.client = sessions[i].client
      /\ session.locked = TRUE
      /\ session.server = IF sessions[i].locked THEN sessions[i].server ELSE message.from
  BY <1>1, <1>5 DEF LockTid, IsSession
<1>7. /\ AnswersIn(trace', i, Len(trace') + 1) # {}
      /\ session.server = Answerer(trace', i, Len(trace) + 2)
      /\ session.server = Answerer(trace', i, Len(trace') + 1)
  <2>1. IsAnswer(added[1], i)
    BY <1>2 DEF IsAnswer, IsAdded
  <2>2. ASSUME NEW j \in {Len(trace) + 2, Len(trace') + 1}
        PROVE  /\ AnswersIn(trace', i, j) # {}
               /\ Answerer(trace', i, j) =
                    IF AnswersIn(trace, i, Len(trace) + 1) = {} THEN added[1].from
                    ELSE Answerer(trace, i, Len(trace) + 1)
    BY <1>2, <1>3, <2>1, NextAnswer DEF ShapeInv, IsAdded
  <2> QED  BY <1>2, <1>5, <1>6, <2>2 DEF ServerIsKnown, IsAdded
<1>8. SessionsInv'
  <2> SUFFICES ASSUME NEW k \in 1 .. Len(sessions')
               PROVE  IsSession(sessions'[k]) /\ ServerIsKnown(trace', sessions'[k], k)
    BY DEF SessionsInv
  <2>1. CASE k = i
    BY <1>4, <1>6, <1>7, <2>1 DEF ServerIsKnown
  <2>2. CASE k # i
    <3>1. IsSession(sessions'[k]) /\ ServerIsKnown(trace, sessions'[k], k)
      BY <1>4, <2>2 DEF SessionsInv
    <3>2. ~IsAnswer(added[1], k)
      BY <1>2, <2>2 DEF IsAnswer, IsAdded
    <3>3. /\ AnswersIn(trace', k, Len(trace') + 1) = AnswersIn(trace, k, Len(trace) + 1)
          /\ Answerer(trace', k, Len(trace') + 1) = Answerer(trace, k, Len(trace) + 1)
      BY <1>2, <1>3, <3>2, NextAnswer DEF ShapeInv, IsAdded
    <3> QED  BY <3>1, <3>3 DEF ServerIsKnown
  <2> QED  BY <2>1, <2>2
<1>9. RecordsInv'
  <2>1. /\ Len(sessions') \in Nat /\ Len(sessions) <= Len(sessions')
        /\ i \in 1 .. Len(sessions')
    BY <1>1, <1>3, <1>4
  <2>2. \A k \in 1 .. Len(sessions) : sessions'[k].client = sessions[k].client
    BY <1>4, <1>6
  <2>3. /\ added[1].direction = "ServerToClient"
        /\ added[1].destination = sessions'[i].client
        /\ Len(added) = 2 => added[2] = InjectedRecord(config.injection, i, sessions'[i])
    BY <1>2, <1>4 DEF IsAdded
  <2>4. sessions'[i].server = Answerer(trace', i, Len(trace) + 2)
    BY <1>4, <1>7
  <2> QED  BY <1>2, <1>3, <2>1, <2>2, <2>3, <2>4, GrowsRecords DEF IsAdded
<1> QED  BY <1>8, <1>9
LEMMA ReplyKeepsPeers ==
    ASSUME ShapeInv, SessionsInv, RecordsInv, TakesReply
    PROVE  SessionsInv' /\ RecordsInv'
<1>1. PICK reply : /\ reply.reply = TRUE /\ reply.direction = "ClientToServer"
                   /\ Grows(<<reply>>)
  BY DEF TakesReply
<1> DEFINE added == <<reply>>
<1>2. Len(added) = 1 /\ added[1] = reply
  OBVIOUS
<1>3. Extends(trace', trace, added)
  BY <1>1 DEF Grows
<1> HIDE DEF added
<1>4. /\ Len(trace) \in Nat /\ Len(trace') = Len(trace) + 1
      /\ trace'[Len(trace) + 1] = reply
      /\ \A j \in 1 .. Len(trace) : trace'[j] = trace[j]
  BY <1>2, <1>3, TraceBasics DEF Extends, ShapeInv
<1>6. UNCHANGED sessions
  BY DEF TakesReply
<1>7. SessionsInv'
  <2> SUFFICES ASSUME NEW k \in 1 .. Len(sessions)
               PROVE  IsSession(sessions[k]) /\ ServerIsKnown(trace', sessions[k], k)
    BY <1>6 DEF SessionsInv
  <2>1. ~IsAnswer(added[1], k)
    BY <1>1, <1>2 DEF IsAnswer
  <2>2. /\ AnswersIn(trace', k, Len(trace') + 1) = AnswersIn(trace, k, Len(trace) + 1)
        /\ Answerer(trace', k, Len(trace') + 1) = Answerer(trace, k, Len(trace) + 1)
    <3>1. Len(added) \in {1, 2} /\ Len(added) # 2
      BY <1>2
    <3> QED  BY <1>3, <2>1, <3>1, NextAnswer DEF ShapeInv
  <2> QED  BY <2>2 DEF SessionsInv, ServerIsKnown
<1>8. RecordsInv'
  <2>1. \A k : \A j \in 1 .. Len(trace) : Answerer(trace', k, j) = Answerer(trace, k, j)
    <3>1. Len(added) \in {1, 2} /\ \A j \in 1 .. Len(trace) : j \in 1 .. Len(trace) + 1
      BY <1>2, <1>4
    <3> QED  BY <1>3, <3>1, EarlierAnswers DEF ShapeInv
  <2>2. ASSUME NEW j \in 1 .. Len(trace)
        PROVE  \/ trace'[j].reply = TRUE /\ trace'[j].direction = "ClientToServer"
               \/ ToOwnPeer(trace', sessions', j)
    BY <1>4, <1>6, <2>1, <2>2 DEF RecordsInv, ToOwnPeer
  <2>3. \A j \in 1 .. Len(trace') : j \in 1 .. Len(trace) \/ j = Len(trace) + 1
    BY <1>4
  <2> QED  BY <1>1, <1>4, <2>2, <2>3 DEF RecordsInv
<1> QED  BY <1>7, <1>8

LEMMA InitPeers == Init => SessionsInv /\ RecordsInv
<1> SUFFICES ASSUME Init  PROVE SessionsInv /\ RecordsInv
  OBVIOUS
<1>1. Len(sessions) = 0 /\ Len(trace) = 0
  BY DEF Init
<1> QED  BY <1>1 DEF SessionsInv, RecordsInv

LEMMA NextPeers == ShapeInv /\ SessionsInv /\ RecordsInv /\ [Next]_vars
                     => SessionsInv' /\ RecordsInv'
<1> SUFFICES ASSUME ShapeInv, SessionsInv, RecordsInv, [Next]_vars
             PROVE  SessionsInv' /\ RecordsInv'
  OBVIOUS
<1>1. ASSUME UNCHANGED <<sessions, trace>>  PROVE SessionsInv' /\ RecordsInv'
  <2>1. sessions' = sessions /\ trace' = trace
    BY <1>1
  <2>2. SessionsInv'
    BY <2>1 DEF SessionsInv
  <2>3. RecordsInv'
    BY <2>1 DEF RecordsInv
  <2> QED  BY <2>2, <2>3
<1>2. CASE Idles
  BY <1>1, <1>2 DEF Idles
<1>3. CASE Flushes
  BY <1>1, <1>3 DEF Flushes
<1>4. CASE Takes
  BY <1>4, ClientKeepsPeers, ServerKeepsPeers, ReplyKeepsPeers DEF Takes
<1> QED  BY <1>2, <1>3, <1>4, StepKinds

(* find_or_create_session and the locking of the server's TID keep every   *)
(* session to its two peers: what was sent to the client's side went to    *)
(* its client, what was sent to the server's side to the well-known port   *)
(* before the first answer and to its TID ever after.                      *)
THEOREM SessionsKeepTheirPeers == Spec => []RelayedToOwnPeer
<1>1. ASSUME TraceInv, RecordsInv  PROVE RelayedToOwnPeer
  <2> SUFFICES ASSUME NEW s \in Sends
               PROVE  LET r == trace[s.id]
                          answers == Answers(r.session, s.id)
                      IN  IF r.direction = "ServerToClient"
                          THEN s.destination = sessions[r.session].client
                          ELSE s.destination = IF answers = {} THEN WellKnown
                                               ELSE trace[Min(answers)].from
    BY DEF RelayedToOwnPeer
  <2>1. s.id \in 1 .. Len(trace) /\ s.destination = trace[s.id].destination
    BY <1>1 DEF TraceInv, Numbered
  <2>2. SendsOf(s.id, Sends) # {}
    <3>1. <<s.copy, s.damaged>> \in SendsOf(s.id, Sends)
      BY DEF SendsOf
    <3> QED  BY <3>1
  <2>3. trace[s.id].reply # TRUE
    BY <1>1, <2>1, <2>2 DEF TraceInv, Accounted, Promised
  <2>4. ToOwnPeer(trace, sessions, s.id)
    BY <1>1, <2>1, <2>3 DEF RecordsInv
  <2>5. \A k : Answers(k, s.id) = AnswersIn(trace, k, s.id)
    BY <1>1, TraceBasics DEF TraceInv, ShapeInv, Answers, AnswersIn, IsAnswer
  <2> QED  BY <2>1, <2>4, <2>5 DEF ToOwnPeer, Answerer
<1>2. TraceInv => ShapeInv
  BY DEF TraceInv
<1> QED  BY <1>1, <1>2, InitPeers, NextPeers, TraceIsKept, PTL DEF Spec
=============================================================================
