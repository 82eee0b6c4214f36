--------------------------- MODULE ObserverProofs ---------------------------
(***************************************************************************)
(* More proofs about the impairment proxy: what its variables may be; that *)
(* two facts the packet observer derives from the trace are true of what   *)
(* the peers did - the TID the server answered from, and how often DATA    *)
(* was sent again; and that the throttle keeps to its rate.                *)
(***************************************************************************)
EXTENDS ProxyProofs

-----------------------------------------------------------------------------
(* The datagrams that wait in the kernel's buffers.                        *)
Buffered == MapThenSumSet(Waiting, Sockets)

LEMMA SocketsAreFinite == IsFiniteSet(Sockets)
<1> DEFINE n == Cardinality(Clients)
<1>1. n \in Nat
  BY ProxyAssumption, FS_CardinalityType
<1>2. Sockets \in SUBSET Nat /\ \A s \in Sockets : s <= 200 + n + MaxDatagrams
  <2> HIDE DEF n
  <2> QED  BY <1>1, ProxyAssumption DEF Sockets, Listen, SessionSocket, StraySocket, n
<1> QED  BY <1>1, <1>2, ProxyAssumption, FS_BoundedSetOfNaturals

BufferedSum ==
    \E h : /\ IsSum(Sockets, Cardinality(Sockets), [s \in Sockets |-> Len(inbox[s])], h)
           /\ Buffered = h[Sockets]

LEMMA BufferedIsSum == BufferedSum
<1> USE SocketsAreFinite
<1> DEFINE f == [s \in Sockets |-> Len(inbox[s])]
           n == Cardinality(Sockets)
           Equation(h) == h = [T \in SUBSET Sockets |->
                                 IF T = {} THEN 0
                                 ELSE LET x == CHOOSE x \in T : TRUE
                                      IN  Waiting(x) + h[T \ {x}]]
<1>1. Buffered = (CHOOSE h : Equation(h))[Sockets]
  BY Zenon DEF Buffered, MapThenSumSet, MapThenFoldSet
<1>2. ASSUME NEW h  PROVE Equation(h) <=> IsSum(Sockets, n, f, h)
  <2> DEFINE F(T) == SumOf(f, h, T)
             G(T) == IF T = {} THEN 0
                     ELSE LET x == CHOOSE x \in T : TRUE IN Waiting(x) + h[T \ {x}]
  <2>1. Small(Sockets, n) = SUBSET Sockets
    BY SmallSets
  <2>2. \A T \in SUBSET Sockets : F(T) = G(T)
    BY DEF SumOf, Waiting
  <2>3. Equation(h) <=> h = [T \in SUBSET Sockets |-> G(T)]
    OBVIOUS
  <2>4. IsSum(Sockets, n, f, h) <=> h = [T \in SUBSET Sockets |-> F(T)]
    BY <2>1 DEF IsSum
  <2> HIDE DEF F, G, Equation, f, n
  <2> QED  BY <2>2, <2>3, <2>4
<1>3. \E h : IsSum(Sockets, n, f, h)
  <2>1. n \in Nat
    BY SmallSets
  <2> HIDE DEF n, f
  <2> QED  BY <2>1, SumExists
<1> HIDE DEF Equation
<1>4. Equation(CHOOSE h : Equation(h))
  BY <1>2, <1>3
<1> QED  BY <1>1, <1>2, <1>4 DEF BufferedSum

Packets == ClientPackets \cup ServerPackets \cup StrayReplyPackets
Message == [from: 1 .. 99, packet: Packets]

(* A datagram that comes or is read changes the number that wait.          *)
LEMMA BufferedChanges ==
    ASSUME inbox \in [Sockets -> Seq(Message)], NEW s \in Sockets, NEW q \in Seq(Message),
           inbox' = [inbox EXCEPT ![s] = q]
    PROVE  /\ Buffered \in Nat /\ Buffered >= Len(inbox[s])
           /\ Buffered' \in Nat /\ Buffered' = Buffered - Len(inbox[s]) + Len(q)
<1> DEFINE f == [t \in Sockets |-> Len(inbox[t])]
           g == [t \in Sockets |-> Len(inbox'[t])]
           n == Cardinality(Sockets)
<1>1. BufferedSum /\ BufferedSum'
  BY BufferedIsSum, PTL
<1>2. PICK h : IsSum(Sockets, n, f, h) /\ Buffered = h[Sockets]
  BY <1>1 DEF BufferedSum
<1>3. PICK k : IsSum(Sockets, n, g, k) /\ Buffered' = k[Sockets]
  BY <1>1 DEF BufferedSum
<1>4. /\ f \in [Sockets -> Nat] /\ g \in [Sockets -> Nat]
      /\ \A x \in Sockets : x # s => g[x] = f[x]
      /\ f[s] = Len(inbox[s]) /\ g[s] = Len(q)
  OBVIOUS
<1>5. n \in Nat /\ Sockets \in Small(Sockets, n) /\ s \in Sockets
  BY SocketsAreFinite, SmallSets
<1> HIDE DEF f, g, n
<1>6. /\ h[Sockets] \in Nat /\ k[Sockets] \in Nat
      /\ h[Sockets] >= f[s] /\ k[Sockets] = h[Sockets] - f[s] + g[s]
  <2>1. \A T \in Small(Sockets, n) :
           /\ h[T] \in Nat /\ k[T] \in Nat
           /\ s \in T => h[T] >= f[s] /\ k[T] = h[T] - f[s] + g[s]
           /\ s \notin T => k[T] = h[T]
    BY ONLY <1>2, <1>3, <1>4, <1>5, SocketsAreFinite, SumOfChanged
  <2> QED  BY ONLY <1>5, <2>1
<1> QED  BY <1>2, <1>3, <1>4, <1>6

-----------------------------------------------------------------------------
(* What the pipeline makes of a datagram, as far as it is typed.           *)
LEMMA BernoulliIsBoolean ==
    ASSUME NEW p, NEW b \in Bernoulli(p)
    PROVE  b \in BOOLEAN
BY DEF Bernoulli

LEMMA LossIsTyped ==
    ASSUME NEW cfg, NEW bad \in BOOLEAN, NEW o \in DecideLoss(cfg, bad)
    PROVE  o.bad \in BOOLEAN
<1>1. \A b \in NextBad(cfg, bad) : b \in BOOLEAN
  BY BernoulliIsBoolean DEF NextBad
<1> DEFINE Burst(b) == Bernoulli(IF b THEN cfg.lossInBad ELSE cfg.lossInGood)
           Spared == IF cfg.gilbertElliott
                     THEN UNION {{[lost |-> l, bad |-> b] : l \in Burst(b)}
                                  : b \in NextBad(cfg, bad)}
                     ELSE {[lost |-> FALSE, bad |-> bad]}
<1>2. o \in UNION {IF u THEN {[lost |-> TRUE, bad |-> bad]} ELSE Spared
                   : u \in Bernoulli(cfg.uniformLoss)}
  BY DEF DecideLoss
<1>3. ASSUME o \in Spared  PROVE o.bad \in BOOLEAN
  <2> HIDE DEF Burst
  <2>1. CASE cfg.gilbertElliott
    <3>1. PICK b \in NextBad(cfg, bad) : o \in {[lost |-> l, bad |-> b] : l \in Burst(b)}
      BY <1>3, <2>1
    <3>2. PICK l : o = [lost |-> l, bad |-> b]
      BY <3>1
    <3> QED  BY <1>1, <3>2
  <2>2. CASE ~cfg.gilbertElliott
    BY <1>3, <2>2
  <2> QED  BY <2>1, <2>2
<1> HIDE DEF Spared
<1>4. o = [lost |-> TRUE, bad |-> bad] \/ o \in Spared
  BY <1>2
<1> QED  BY <1>3, <1>4

LEMMA ThrottleIsTyped ==
    ASSUME NEW cfg \in ImpairmentConfig, NEW p \in PipelineState, NEW size \in Nat,
           NEW time \in Nat
    PROVE  /\ ChargedBucket(cfg, p, size, time) \in Int
           /\ \A bucket \in Int : ThrottleDelay(cfg, bucket) \in Nat
<1>1. /\ cfg.throttle \in Nat /\ p.bucket \in Int /\ p.refilled \in Nat
      /\ TicksPerSecond \in Nat
  BY TicksAssumption DEF ImpairmentConfig, PipelineState
<1>2. \A a, b \in Int : a * b \in Int
  OBVIOUS
<1>3. /\ (time - p.refilled) * cfg.throttle \in Int
      /\ cfg.throttle * TicksPerSecond \in Int
  BY <1>1, <1>2
<1>4. ChargedBucket(cfg, p, size, time) \in Int
  <2> DEFINE a == p.bucket + (time - p.refilled) * cfg.throttle
             b == cfg.throttle * TicksPerSecond
  <2>1. a \in Int /\ b \in Int
    BY <1>1, <1>3
  <2> HIDE DEF a, b
  <2>2. Smaller(a, b) - size \in Int
    BY <2>1 DEF Smaller
  <2> QED  BY <2>2 DEF ChargedBucket, a, b
<1>5. ASSUME NEW bucket \in Int  PROVE ThrottleDelay(cfg, bucket) \in Nat
  <2>1. \A a \in Nat, b \in Nat \ {0} : a \div b \in Nat
    OBVIOUS
  <2>2. ~(cfg.throttle = 0 \/ bucket >= 0) =>
           -bucket \in Nat /\ cfg.throttle \in Nat \ {0}
    BY <1>1
  <2> QED  BY <2>1, <2>2 DEF ThrottleDelay
<1> QED  BY <1>4, <1>5

LEMMA SurvivorIsTyped ==
    ASSUME NEW cfg \in ImpairmentConfig, NEW p \in PipelineState, NEW size \in Nat,
           NEW isData \in BOOLEAN, NEW time \in Nat,
           NEW r \in Survives(cfg, p, size, isData, time)
    PROVE  r.state \in PipelineState /\ r.delay \in Nat
<1> DEFINE bucket == IF cfg.throttle = 0 THEN p.bucket
                     ELSE ChargedBucket(cfg, p, size, time)
           after == [p EXCEPT !.data = IF isData THEN @ + 1 ELSE @,
                              !.bucket = bucket,
                              !.refilled = IF cfg.throttle = 0 THEN @ ELSE time]
           Held(held) == IF held THEN cfg.reorderExtraDelay ELSE 0
           Delays == {cfg.fixedDelay + j + ThrottleDelay(cfg, bucket) + Held(held)
                        : j \in 0 .. cfg.jitter, held \in Bernoulli(cfg.reorder)}
<1>1. bucket \in Int /\ ThrottleDelay(cfg, bucket) \in Nat
  <2>1. bucket \in Int
    BY ThrottleIsTyped DEF PipelineState
  <2> HIDE DEF bucket
  <2> QED  BY <2>1, ThrottleIsTyped
<1>2. after \in PipelineState
  <2> DEFINE data == IF isData THEN p.data + 1 ELSE p.data
             refilled == IF cfg.throttle = 0 THEN p.refilled ELSE time
  <2>1. after = [p EXCEPT !.data = data, !.bucket = bucket, !.refilled = refilled]
    OBVIOUS
  <2>2. data \in Nat /\ refilled \in Nat
    BY DEF PipelineState
  <2> HIDE DEF after, bucket, data, refilled
  <2> QED  BY <1>1, <2>1, <2>2 DEF PipelineState
<1>3. \A d \in Delays : d \in Nat
  <2>1. /\ cfg.fixedDelay \in Nat /\ cfg.jitter \in Nat
        /\ \A held : Held(held) \in Nat
    BY DEF ImpairmentConfig
  <2> HIDE DEF Held, bucket
  <2> QED  BY <1>1, <2>1
<1>4. r \in {[state |-> after, dropped |-> FALSE, corrupted |-> c, delay |-> d,
             copies |-> IF twice THEN {0, 1} ELSE {0}]
             : c \in MaybeCorrupt(cfg, size), d \in Delays, twice \in Bernoulli(cfg.duplication)}
  BY DEF Survives
<1> HIDE DEF after, Delays
<1> QED  BY <1>2, <1>3, <1>4

LEMMA ProcessIsTyped ==
    ASSUME NEW cfg \in ImpairmentConfig, NEW p \in PipelineState, NEW d \in Directions,
           NEW size \in Nat, NEW isData \in BOOLEAN, NEW time \in Nat,
           NEW r \in Process(cfg, p, d, size, isData, time)
    PROVE  /\ r.state \in PipelineState /\ r.delay \in Nat
           /\ r.corrupted \in BOOLEAN /\ r.copies \in {{}, {0}, {0, 1}}
<1>1. HasCounter(p)
  BY DEF HasCounter, PipelineState
<1>2. r.corrupted \in BOOLEAN /\ r.copies \in {{}, {0}, {0, 1}}
  <2>1. IsOutcome(r, cfg, p, isData)
    BY <1>1, ProcessOutcome, Zenon
  <2> QED  BY <2>1 DEF IsOutcome
<1>3. CASE InBlackout(cfg, p)
  <2>1. r = Discarded(p)
    BY <1>3 DEF Process
  <2> QED  BY <1>2, <2>1 DEF Discarded
<1>4. CASE ~InBlackout(cfg, p)
  <2>1. PICK o \in DecideLoss(cfg, p.bad[d]) :
           r \in (LET q == [p EXCEPT !.bad[d] = o.bad]
                  IN  IF o.lost THEN {Discarded(q)}
                      ELSE Survives(cfg, q, size, isData, time))
    BY <1>4 DEF Process
  <2> DEFINE q == [p EXCEPT !.bad[d] = o.bad]
             bad == o.bad
  <2>2. q \in PipelineState
    <3>1. p.bad[d] \in BOOLEAN
      BY DEF PipelineState
    <3>2. bad \in BOOLEAN
      BY <3>1, LossIsTyped
    <3>3. q = [p EXCEPT !.bad[d] = bad]
      OBVIOUS
    <3> HIDE DEF bad, q
    <3> QED  BY <3>2, <3>3 DEF PipelineState, Directions
  <2>3. r \in {Discarded(q)} \/ r \in Survives(cfg, q, size, isData, time)
    BY <2>1
  <2> HIDE DEF q
  <2>4. CASE r = Discarded(q)
    BY <1>2, <2>2, <2>4 DEF Discarded
  <2>5. CASE r \in Survives(cfg, q, size, isData, time)
    BY <1>2, <2>2, <2>5, SurvivorIsTyped
  <2> QED  BY <2>3, <2>4, <2>5
<1> QED  BY <1>3, <1>4

-----------------------------------------------------------------------------
(* What the variables may be.                                              *)
Session == [client: Clients, server: 1 .. 99, locked: BOOLEAN]

LoopInv ==
    /\ config \in Configs /\ running \in BOOLEAN /\ now \in 0 .. config.ticks
    /\ pc \in {"top", "select", "handling", "done"} /\ (pc = "handling" <=> ready # {})
    /\ ready \subseteq {s \in Sockets : inbox[s] # <<>>}

(* Only clients send to the listen socket, and a client that has no        *)
(* session yet sends requests.                                             *)
FromClient(message) ==
    message.from \in Clients
    /\ (message.from \in KnownClients \/ message.packet.kind \in {"RRQ", "WRQ"})

BoxesInv ==
    /\ inbox \in [Sockets -> Seq(Message)]
    /\ \A i \in 1 .. Len(inbox[Listen]) : FromClient(inbox[Listen][i])

PeersInv ==
    /\ sessions \in Seq(Session)
    /\ \A i, j \in 1 .. Len(sessions) : sessions[i].client = sessions[j].client => i = j

(* Every datagram read is one of config.datagrams, and adds at most two    *)
(* records to the trace and opens at most one stray socket.                *)
BoundsInv ==
    /\ arrived \in Seq(Packets) /\ IsSequence(trace) /\ strays \in Nat
    /\ Len(arrived) + Buffered <= config.datagrams
    /\ strays <= Len(arrived) /\ Len(trace) <= 2 * Len(arrived)

SendsInv == Sends \subseteq SendType

TypeInv ==
    /\ LoopInv /\ BoxesInv /\ PeersInv /\ BoundsInv /\ SendsInv
    /\ pipeline \in PipelineState

(* One session per client.                                                 *)
LEMMA SessionsFit ==
    ASSUME PeersInv
    PROVE  SessionCount \in Nat /\ SessionCount <= Cardinality(Clients)
<1> DEFINE n == Len(sessions)
           f == [i \in 1 .. n |-> sessions[i].client]
<1>1. n \in Nat
  BY DEF PeersInv
<1>2. f \in Injection(1 .. n, Clients)
  <2>1. ASSUME NEW i \in 1 .. n  PROVE sessions[i].client \in Clients
    <3>1. sessions[i] \in Session
      BY DEF PeersInv
    <3> QED  BY <3>1 DEF Session
  <2>2. f \in [1 .. n -> Clients]
    BY <2>1
  <2>3. \A i, j \in 1 .. n : f[i] = f[j] => i = j
    BY DEF PeersInv
  <2> HIDE DEF f
  <2> QED  BY <2>2, <2>3 DEF Injection, IsInjective
<1> HIDE DEF f, n
<1>3. Cardinality(1 .. n) <= Cardinality(Clients)
  BY <1>2, ProxyAssumption, FS_Injection
<1>4. Cardinality(1 .. n) = n
  BY <1>1, FS_Interval
<1> QED  BY <1>1, <1>3, <1>4 DEF SessionCount, n

FewSessions == SessionCount \in Nat /\ SessionCount <= Cardinality(Clients)

LEMMA SessionsFitAlways == PeersInv => FewSessions
BY SessionsFit DEF FewSessions

LEMMA SocketNumbers ==
    ASSUME PeersInv
    PROVE  /\ Listen \in Sockets /\ Listen = 100 /\ Cardinality(Clients) \in 0 .. 99
           /\ \A i \in 1 .. Cardinality(Clients) : SessionSocket(i) \in Sockets
           /\ \A i \in 1 .. SessionCount : SessionSocket(i) \in Sockets \cap (101 .. 199)
           /\ \A k \in 1 .. MaxDatagrams : StraySocket(k) \in Sockets
           /\ \A s \in Sockets : s > StraySocket(0) => s > 200
<1>1. Cardinality(Clients) \in Nat /\ Cardinality(Clients) <= 99
  <2> DEFINE m == 99
  <2>1. m \in Nat /\ Clients \in SUBSET (1 .. m)
    BY ProxyAssumption
  <2> HIDE DEF m
  <2>2. IsFiniteSet(1 .. m) /\ Cardinality(1 .. m) = m
    BY <2>1, FS_Interval
  <2>3. Cardinality(Clients) <= m /\ Cardinality(Clients) \in Nat
    BY <2>1, <2>2, FS_Subset, FS_CardinalityType
  <2> QED  BY <2>3 DEF m
<1> QED  BY <1>1, SessionsFit DEF Sockets, Listen, SessionSocket, StraySocket

LEMMA RestsBuffered ==
    ASSUME inbox \in [Sockets -> Seq(Message)], UNCHANGED inbox
    PROVE  Buffered' = Buffered /\ Buffered \in Nat
<1>1. Listen \in Sockets
  BY DEF Sockets
<1>2. inbox' = [inbox EXCEPT ![Listen] = inbox[Listen]] /\ inbox[Listen] \in Seq(Message)
  BY <1>1
<1>3. /\ Buffered \in Nat /\ Buffered' \in Nat
      /\ Buffered' = Buffered - Len(inbox[Listen]) + Len(inbox[Listen])
  BY <1>1, <1>2, BufferedChanges
<1>4. Len(inbox[Listen]) \in Nat
  BY <1>2
<1> QED  BY <1>3, <1>4

(* A step that changes nothing but the loop's own variables.               *)
LEMMA RestsTyped ==
    ASSUME TypeInv, LoopInv',
           UNCHANGED <<config, inbox, sessions, strays, pipeline, trace, arrived>>,
           Sends' = Sends
    PROVE  TypeInv'
<1>1. Buffered' = Buffered
  BY RestsBuffered DEF TypeInv, BoxesInv
<1> QED  BY <1>1 DEF TypeInv, BoxesInv, PeersInv, BoundsInv, SendsInv, KnownClients,
                     SessionCount, FromClient

(* A datagram that arrives.                                                *)
LEMMA PostTyped ==
    ASSUME TypeInv, NEW socket, NEW from \in 1 .. 99, NEW packet \in Packets,
           Post(socket, from, packet),
           socket = Listen => FromClient([from |-> from, packet |-> packet])
    PROVE  TypeInv'
<1> DEFINE m == [from |-> from, packet |-> packet]
<1>1. /\ pc = "select" /\ SoFar < config.datagrams
      /\ inbox' = [inbox EXCEPT ![socket] = Append(inbox[socket], m)]
      /\ UNCHANGED <<config, loopVars, relayVars>>
  BY Zenon DEF Post
<1>2. UNCHANGED <<config, running, pc, ready, now, sessions, strays, pipeline, scheduled,
                  trace, sent, arrived>>
  BY <1>1 DEF loopVars, relayVars
<1>3. m \in Message
  BY DEF Message
<1>4. LoopInv'
  BY <1>1, <1>2 DEF TypeInv, LoopInv
<1>5. CASE socket \notin Sockets
  <2>1. inbox' = inbox
    BY <1>1, <1>5 DEF TypeInv, BoxesInv
  <2> QED  BY <1>2, <1>4, <2>1, RestsTyped DEF Sends
<1>6. CASE socket \in Sockets
  <2> DEFINE q == Append(inbox[socket], m)
  <2>1. /\ inbox[socket] \in Seq(Message) /\ q \in Seq(Message)
        /\ Len(q) = Len(inbox[socket]) + 1 /\ Len(inbox[socket]) \in Nat
        /\ \A i \in 1 .. Len(q) :
              q[i] = m \/ (i \in 1 .. Len(inbox[socket]) /\ q[i] = inbox[socket][i])
    BY <1>3, <1>6 DEF TypeInv, BoxesInv
  <2>2. inbox' = [inbox EXCEPT ![socket] = q]
    BY <1>1
  <2> HIDE DEF q, m
  <2>3. Buffered \in Nat /\ Buffered' = Buffered + 1
    <3>1. /\ Buffered \in Nat /\ Buffered' \in Nat
          /\ Buffered' = Buffered - Len(inbox[socket]) + Len(q)
      BY <1>6, <2>1, <2>2, BufferedChanges DEF TypeInv, BoxesInv
    <3>2. \A w, x \in Nat, y, z \in Nat : z = x + 1 /\ y = w - x + z => y = w + 1
      OBVIOUS
    <3>3. Len(inbox[socket]) \in Nat /\ Len(q) \in Nat /\ Len(q) = Len(inbox[socket]) + 1
      BY <2>1
    <3> QED  BY <3>1, <3>2, <3>3
  <2>4. BoundsInv'
    <3>1. Len(arrived) \in Nat /\ config.datagrams \in Nat
      BY ProxyAssumption DEF TypeInv, LoopInv, BoundsInv
    <3>2. Len(arrived) + Buffered < config.datagrams
      BY <1>1, Zenon DEF SoFar, Buffered
    <3> QED  BY <1>2, <2>3, <3>1, <3>2 DEF TypeInv, BoundsInv
  <2>5. BoxesInv'
    <3>1. inbox' \in [Sockets -> Seq(Message)]
      BY <1>6, <2>1, <2>2 DEF TypeInv, BoxesInv
    <3>2. \A i \in 1 .. Len(inbox'[Listen]) : FromClient(inbox'[Listen][i])
      <4>1. CASE socket = Listen
        BY <1>6, <2>1, <2>2, <4>1 DEF TypeInv, BoxesInv, m
      <4>2. CASE socket # Listen
        BY <2>2, <4>2 DEF TypeInv, BoxesInv
      <4> QED  BY <4>1, <4>2
    <3>3. KnownClients' = KnownClients
      BY <1>2 DEF KnownClients, SessionCount
    <3> QED  BY <3>1, <3>2, <3>3 DEF BoxesInv, FromClient
  <2> QED  BY <1>2, <1>4, <2>4, <2>5 DEF TypeInv, PeersInv, SendsInv, Sends
<1> QED  BY <1>5, <1>6

LEMMA PeersTyped ==
    ASSUME TypeInv, ClientSends \/ ServerSends \/ StrayVictimReplies
    PROVE  TypeInv'
<1>1. CASE ClientSends
  <2>1. PICK c \in Clients, packet \in ClientPackets :
           /\ packet.kind \in {"RRQ", "WRQ"} \/ c \in KnownClients
           /\ Post(Listen, c, packet)
    BY <1>1 DEF ClientSends
  <2>2. c \in 1 .. 99 /\ packet \in Packets
    BY ProxyAssumption DEF Packets
  <2> QED  BY <2>1, <2>2, PostTyped DEF FromClient
<1>2. CASE ServerSends
  <2>1. PICK h \in Handlers, i \in 1 .. SessionCount, packet \in ServerPackets :
           Post(SessionSocket(i), h, packet)
    BY <1>2 DEF ServerSends
  <2>2. h \in 1 .. 99 /\ packet \in Packets /\ SessionSocket(i) # Listen
    BY ProxyAssumption, SocketNumbers DEF Packets, TypeInv
  <2> QED  BY <2>1, <2>2, PostTyped
<1>3. CASE StrayVictimReplies
  <2>1. PICK s \in sent, packet \in StrayReplyPackets :
           s.socket > StraySocket(0) /\ Post(s.socket, s.destination, packet)
    BY <1>3 DEF StrayVictimReplies
  <2>2. s \in SendType
    BY DEF TypeInv, SendsInv, Sends
  <2>3. s.destination \in 1 .. 99 /\ packet \in Packets /\ s.socket # Listen
    BY <2>1, <2>2, SocketNumbers DEF SendType, Packets, TypeInv
  <2> QED  BY <2>1, <2>3, PostTyped
<1> QED  BY <1>1, <1>2, <1>3

LEMMA MinOfSockets ==
    ASSUME NEW S \in SUBSET Sockets, S # {}
    PROVE  Min(S) \in S
<1>1. Sockets \subseteq Nat
  <2>1. Cardinality(Clients) \in Nat /\ MaxDatagrams \in Nat
    BY ProxyAssumption, FS_CardinalityType
  <2> QED  BY <2>1 DEF Sockets, Listen, SessionSocket, StraySocket
<1> QED  BY <1>1, MinOfNaturals

(* What reading a socket changes.                                          *)
LEMMA ReadTyped ==
    ASSUME TypeInv, NEW socket, Reads(socket)
    PROVE  /\ socket \in Sockets /\ inbox[socket] \in Seq(Message) /\ inbox[socket] # <<>>
           /\ Head(inbox[socket]) \in Message
           /\ socket = Listen => FromClient(Head(inbox[socket]))
           /\ LoopInv' /\ config' = config
           /\ arrived' \in Seq(Packets) /\ Len(arrived') = Len(arrived) + 1
           /\ Len(arrived) \in Nat /\ Len(arrived') <= MaxDatagrams
           /\ Len(arrived') + Buffered' <= config.datagrams
           /\ KnownClients \subseteq KnownClients' => BoxesInv'
<1> DEFINE q == Tail(inbox[socket])
           m == Head(inbox[socket])
<1>1. /\ pc = "handling" /\ socket = Min(ready) /\ ready' = ready \ {socket}
      /\ pc' = IF ready' = {} THEN "top" ELSE "handling"
      /\ inbox' = [inbox EXCEPT ![socket] = q]
      /\ arrived' = Append(arrived, m.packet)
      /\ UNCHANGED <<config, running, now>>
  BY DEF Reads
<1>2. socket \in ready /\ socket \in Sockets /\ inbox[socket] # <<>>
  <2>1. ready # {} /\ ready \in SUBSET Sockets
    BY <1>1 DEF TypeInv, LoopInv
  <2>2. socket \in ready
    BY <1>1, <2>1, MinOfSockets
  <2> QED  BY <2>2 DEF TypeInv, LoopInv
<1>3. /\ inbox[socket] \in Seq(Message) /\ q \in Seq(Message) /\ m \in Message
      /\ Len(inbox[socket]) \in Nat /\ Len(inbox[socket]) > 0
      /\ Len(q) = Len(inbox[socket]) - 1
      /\ m = inbox[socket][1]
      /\ \A i \in 1 .. Len(q) : i + 1 \in 1 .. Len(inbox[socket]) /\ q[i] = inbox[socket][i + 1]
  BY <1>2 DEF TypeInv, BoxesInv
<1>4. socket = Listen => FromClient(m)
  BY <1>3 DEF TypeInv, BoxesInv
<1> HIDE DEF q, m
<1>5. LoopInv'
  <2>1. ASSUME NEW s \in ready \ {socket}
        PROVE  s \in Sockets /\ inbox'[s] # <<>>
    BY <1>1 DEF TypeInv, LoopInv, BoxesInv
  <2> QED  BY <1>1, <2>1 DEF TypeInv, LoopInv
<1>6. /\ arrived' \in Seq(Packets) /\ Len(arrived') = Len(arrived) + 1
      /\ Len(arrived) \in Nat
  <2>1. m.packet \in Packets
    BY <1>3 DEF Message
  <2> QED  BY <1>1, <2>1 DEF TypeInv, BoundsInv
<1>7. /\ Len(arrived') + Buffered' <= config.datagrams
      /\ Len(arrived') <= MaxDatagrams
  <2>1. /\ Buffered \in Nat /\ Buffered' \in Nat /\ Buffered >= Len(inbox[socket])
        /\ Buffered' = Buffered - Len(inbox[socket]) + Len(q)
    BY <1>1, <1>2, <1>3, BufferedChanges DEF TypeInv, BoxesInv
  <2>2. /\ config.datagrams \in Nat /\ config.datagrams <= MaxDatagrams /\ MaxDatagrams \in Nat
        /\ Len(arrived) + Buffered <= config.datagrams
    BY ProxyAssumption DEF TypeInv, LoopInv, BoundsInv
  <2>3. \A b, c, x, y, a, a1, d, k \in Nat :
           /\ y = x - 1 /\ c = b - x + y /\ a1 = a + 1 /\ a + b <= d /\ d <= k
           => a1 + c <= d /\ a1 <= k
    OBVIOUS
  <2>4. Len(q) \in Nat /\ Len(arrived') \in Nat
    BY <1>3, <1>6
  <2> QED  BY <1>3, <1>6, <2>1, <2>2, <2>3, <2>4
<1>8. KnownClients \subseteq KnownClients' => BoxesInv'
  <2> SUFFICES ASSUME KnownClients \subseteq KnownClients'  PROVE BoxesInv'
    OBVIOUS
  <2>1. inbox' \in [Sockets -> Seq(Message)]
    BY <1>1, <1>2, <1>3 DEF TypeInv, BoxesInv
  <2>2. ASSUME NEW i \in 1 .. Len(inbox'[Listen])
        PROVE  FromClient(inbox'[Listen][i])
    <3>1. CASE socket = Listen
      <4>1. inbox'[Listen] = q
        BY <1>1, <1>2, <3>1 DEF TypeInv, BoxesInv
      <4> QED  BY <1>3, <3>1, <4>1, <2>2 DEF TypeInv, BoxesInv
    <3>2. CASE socket # Listen
      <4>1. inbox'[Listen] = inbox[Listen]
        BY <1>1, <3>2 DEF TypeInv, BoxesInv
      <4> QED  BY <2>2, <4>1 DEF TypeInv, BoxesInv
    <3> QED  BY <3>1, <3>2
  <2> QED  BY <2>1, <2>2 DEF BoxesInv, FromClient
<1> QED  BY <1>1, <1>2, <1>3, <1>4, <1>5, <1>6, <1>7, <1>8 DEF m

(* What relaying a datagram adds to the schedule and to the trace.         *)
LEMMA RelayTyped ==
    ASSUME TypeInv, Len(arrived) \in Nat, Len(arrived) + 1 <= MaxDatagrams,
           NEW i, NEW session, NEW direction \in Directions, NEW message \in Message,
           NEW socket \in Sockets, NEW destination \in 1 .. 99,
           message.packet.size \in Nat,
           session.client \in 1 .. 99, session.server \in 1 .. 99,
           SessionSocket(i) \in Sockets,
           ObserveAndRelay(i, session, direction, message, socket, destination)
    PROVE  /\ IsSequence(trace') /\ Len(trace') <= 2 * (Len(arrived) + 1)
           /\ strays' \in Nat /\ strays' <= Len(arrived) + 1
           /\ pipeline' \in PipelineState
           /\ scheduled' \cup sent' \subseteq SendType
<1> DEFINE isData == message.packet.kind = "DATA"
           size == message.packet.size
           injected == InjectedRecord(config.injection, i, session)
           Original(r, c) ==
               [id |-> Len(trace) + 1, copy |-> c, deadline |-> now + r.delay + c,
                socket |-> socket, destination |-> destination, damaged |-> r.corrupted]
           Injection1(j) ==
               [id |-> (Len(trace) + 1) + 1, copy |-> 0, deadline |-> now,
                socket |-> InjectionSocket(j, i),
                destination |-> InjectionTarget(j, session), damaged |-> FALSE]
<1>1. PICK r \in Process(config.impairment, pipeline, direction, size, isData, now) :
        LET record == RecordOf(i, session, direction, message, r)
            injections == Injections(record)
        IN  /\ pipeline' = r.state
            /\ trace' = Append(trace, record)
                        \o (IF injections = {} THEN <<>> ELSE <<injected>>)
            /\ scheduled' = scheduled \cup {Original(r, c) : c \in Copies(r)}
                                      \cup {Injection1(j) : j \in injections}
            /\ strays' = strays + Cardinality({j \in injections : j.stray})
            /\ UNCHANGED sent
  BY Zenon DEF ObserveAndRelay, RecordOf
<1> DEFINE record == RecordOf(i, session, direction, message, r)
           injections == Injections(record)
           stray == {j \in injections : j.stray}
<1>2. /\ config.impairment \in ImpairmentConfig /\ now \in Nat /\ pipeline \in PipelineState
      /\ MaxDatagrams \in Nat
  BY ProxyAssumption DEF TypeInv, LoopInv
<1>3. isData \in BOOLEAN /\ size \in Nat
  OBVIOUS
<1> HIDE DEF isData, size
<1>4. /\ r.state \in PipelineState /\ r.delay \in Nat
      /\ r.corrupted \in BOOLEAN /\ r.copies \in {{}, {0}, {0, 1}}
  BY <1>1, <1>2, <1>3, ProcessIsTyped
<1>5. injections \in {{}, {config.injection}}
  BY InjectionIsTheScript
<1>6. /\ IsSequence(trace) /\ Len(trace) \in Nat /\ Len(trace) <= 2 * Len(arrived)
      /\ strays \in Nat /\ strays <= Len(arrived)
  BY TraceBasics DEF TypeInv, BoundsInv
<1>7. /\ trace' = Append(trace, record)
                  \o (IF injections = {} THEN <<>> ELSE <<injected>>)
      /\ scheduled' = scheduled \cup {Original(r, c) : c \in Copies(r)}
                                \cup {Injection1(j) : j \in injections}
      /\ strays' = strays + Cardinality(stray)
      /\ pipeline' = r.state /\ sent' = sent
  BY <1>1
<1> HIDE DEF record, injected
<1>8. IsSequence(trace') /\ Len(trace') <= 2 * (Len(arrived) + 1)
  <2>1. CASE injections = {}
    <3>1. trace' = Append(trace, record)
      BY <1>6, <1>7, <2>1, ConcatNothing
    <3>2. Extends(trace', trace, <<record>>)
      BY <1>6, <3>1, ExtendByOne
    <3> QED  BY <1>6, <3>2 DEF Extends
  <2>2. CASE injections # {}
    <3>1. trace' = Append(trace, record) \o <<injected>>
      BY <1>7, <2>2
    <3>2. Extends(trace', trace, <<record, injected>>)
      BY <1>6, <3>1, ExtendByTwo
    <3> QED  BY <1>6, <3>2 DEF Extends
  <2> QED  BY <2>1, <2>2
<1>9. strays' \in Nat /\ strays' <= Len(arrived) + 1
  <2>1. Cardinality(stray) \in {0, 1}
    <3>1. stray = {} \/ stray = {config.injection}
      BY <1>5
    <3> HIDE DEF stray
    <3> QED  BY <3>1, FS_EmptySet, FS_Singleton
  <2> HIDE DEF stray
  <2> QED  BY <1>6, <1>7, <2>1
<1>10. \A c \in {0, 1} : Original(r, c) \in SendType
  BY <1>2, <1>4, <1>6 DEF SendType
<1>11. \A j : Injection1(j) \in SendType
  <2> TAKE j
  <2>1. InjectionSocket(j, i) \in Sockets
    <3>1. strays + 1 \in 1 .. MaxDatagrams
      BY <1>2, <1>6
    <3> QED  BY <3>1, SocketNumbers DEF InjectionSocket, TypeInv
  <2>2. InjectionTarget(j, session) \in 1 .. 99
    BY DEF InjectionTarget
  <2> QED  BY <1>2, <1>6, <2>1, <2>2 DEF SendType
<1>12. scheduled' \cup sent' \subseteq SendType
  <2>1. scheduled \cup sent \subseteq SendType
    BY DEF TypeInv, SendsInv, Sends
  <2>2. Copies(r) \subseteq {0, 1}
    BY <1>4 DEF Copies
  <2> HIDE DEF Original, Injection1, injections
  <2>3. \A x \in scheduled' : x \in scheduled \/ x \in SendType
    BY <1>7, <1>10, <1>11, <2>2
  <2> QED  BY <1>7, <2>1, <2>3
<1> QED  BY <1>4, <1>7, <1>8, <1>9, <1>12

(* The handlers.                                                           *)
LEMMA RefuseTyped ==
    ASSUME TypeInv, RefuseClientDatagram
    PROVE  TypeInv'
<1>1. Reads(Listen) /\ UNCHANGED <<sessions, strays, pipeline, scheduled, trace, sent>>
  BY DEF RefuseClientDatagram
<1>2. /\ LoopInv' /\ config' = config
      /\ arrived' \in Seq(Packets) /\ Len(arrived') = Len(arrived) + 1
      /\ Len(arrived) \in Nat
      /\ Len(arrived') + Buffered' <= config.datagrams
      /\ KnownClients \subseteq KnownClients' => BoxesInv'
  BY <1>1, ReadTyped
<1>3. KnownClients' = KnownClients
  BY <1>1 DEF KnownClients, SessionCount
<1>4. BoundsInv'
  <2>1. Len(trace) \in Nat /\ IsSequence(trace)
    BY TraceBasics DEF TypeInv, BoundsInv
  <2> QED  BY <1>1, <1>2, <2>1 DEF TypeInv, BoundsInv
<1> QED  BY <1>1, <1>2, <1>3, <1>4 DEF TypeInv, PeersInv, SendsInv, Sends

LEMMA StrayReplyTyped ==
    ASSUME TypeInv, HandleStrayReply
    PROVE  TypeInv'
<1>1. PICK k, reply :
        /\ k \in 1 .. strays
        /\ Reads(StraySocket(k)) /\ trace' = Append(trace, reply)
        /\ UNCHANGED <<sessions, strays, pipeline, scheduled, sent>>
  BY DEF HandleStrayReply
<1>2. /\ LoopInv' /\ config' = config
      /\ arrived' \in Seq(Packets) /\ Len(arrived') = Len(arrived) + 1
      /\ Len(arrived) \in Nat
      /\ Len(arrived') + Buffered' <= config.datagrams
      /\ KnownClients \subseteq KnownClients' => BoxesInv'
  BY <1>1, ReadTyped
<1>3. KnownClients' = KnownClients
  BY <1>1 DEF KnownClients, SessionCount
<1>4. BoundsInv'
  <2>1. Len(trace) \in Nat /\ IsSequence(trace)
    BY TraceBasics DEF TypeInv, BoundsInv
  <2>2. IsSequence(trace') /\ Len(trace') = Len(trace) + 1
    BY <1>1, <2>1, ExtendByOne DEF Extends
  <2> QED  BY <1>1, <1>2, <2>1, <2>2 DEF TypeInv, BoundsInv
<1> QED  BY <1>1, <1>2, <1>3, <1>4 DEF TypeInv, PeersInv, SendsInv, Sends

LEMMA MessagesHaveSize ==
    ASSUME NEW m \in Message
    PROVE  m.packet.size \in Nat /\ m.from \in 1 .. 99
BY ProxyAssumption DEF Message, Packets

(* What the two handlers that relay a datagram have in common.             *)
LEMMA HandledTyped ==
    ASSUME TypeInv, NEW own \in Sockets, Reads(own), PeersInv',
           KnownClients \subseteq KnownClients',
           NEW i, NEW session, NEW direction \in Directions,
           NEW socket \in Sockets, NEW destination \in 1 .. 99,
           session.client \in 1 .. 99, session.server \in 1 .. 99,
           SessionSocket(i) \in Sockets,
           ObserveAndRelay(i, session, direction, Head(inbox[own]), socket, destination)
    PROVE  TypeInv'
<1> DEFINE message == Head(inbox[own])
<1>1. /\ LoopInv' /\ config' = config /\ message \in Message
      /\ arrived' \in Seq(Packets) /\ Len(arrived') = Len(arrived) + 1
      /\ Len(arrived) \in Nat /\ Len(arrived') <= MaxDatagrams
      /\ Len(arrived') + Buffered' <= config.datagrams
      /\ BoxesInv'
  BY ReadTyped
<1>2. ObserveAndRelay(i, session, direction, message, socket, destination)
  OBVIOUS
<1> HIDE DEF message
<1>3. /\ IsSequence(trace') /\ Len(trace') <= 2 * (Len(arrived) + 1)
      /\ strays' \in Nat /\ strays' <= Len(arrived) + 1
      /\ pipeline' \in PipelineState
      /\ scheduled' \cup sent' \subseteq SendType
  <2>1. message.packet.size \in Nat /\ Len(arrived) + 1 <= MaxDatagrams
    BY <1>1, MessagesHaveSize
  <2> QED  BY <1>1, <1>2, <2>1, RelayTyped
<1>4. BoundsInv'
  BY <1>1, <1>3 DEF BoundsInv
<1> QED  BY <1>1, <1>3, <1>4 DEF TypeInv, SendsInv, Sends

LEMMA ServerDatagramTyped ==
    ASSUME TypeInv, HandleServerDatagram
    PROVE  TypeInv'
<1>1. PICK i \in 1 .. SessionCount :
        /\ Reads(SessionSocket(i))
        /\ LET message == Head(inbox[SessionSocket(i)])
               session == LockTid(sessions[i], message.from)
           IN  /\ sessions' = [sessions EXCEPT ![i] = session]
               /\ ObserveAndRelay(i, session, "ServerToClient", message,
                                  Listen, session.client)
  BY Zenon DEF HandleServerDatagram
<1> DEFINE own == SessionSocket(i)
           message == Head(inbox[own])
           session == LockTid(sessions[i], message.from)
<1>2. own \in Sockets /\ Listen \in Sockets
  BY SocketNumbers DEF TypeInv
<1>3. message.from \in 1 .. 99
  BY <1>1, ReadTyped, MessagesHaveSize
<1>4. sessions \in Seq(Session) /\ i \in 1 .. Len(sessions)
  BY DEF TypeInv, PeersInv, SessionCount
<1>5. session \in Session /\ session.client = sessions[i].client
  <2>1. sessions[i] \in Session
    BY <1>4
  <2> HIDE DEF message
  <2> QED  BY <1>3, <2>1 DEF LockTid, Session
<1>6. session.client \in 1 .. 99 /\ session.server \in 1 .. 99
  BY <1>5, ProxyAssumption DEF Session
<1>7. sessions' = [sessions EXCEPT ![i] = session] /\ Reads(own)
      /\ ObserveAndRelay(i, session, "ServerToClient", Head(inbox[own]), Listen, session.client)
  BY <1>1
<1> HIDE DEF session, own
<1>8. /\ sessions' \in Seq(Session) /\ Len(sessions') = Len(sessions)
      /\ \A j \in 1 .. Len(sessions) : sessions'[j].client = sessions[j].client
  BY <1>4, <1>5, <1>7
<1>9. PeersInv'
  BY <1>8 DEF TypeInv, PeersInv
<1>10. KnownClients' = KnownClients
  BY <1>8 DEF KnownClients, SessionCount
<1>11. "ServerToClient" \in Directions
  BY DEF Directions
<1> QED  BY <1>2, <1>6, <1>7, <1>9, <1>10, <1>11, HandledTyped DEF own

LEMMA ClientDatagramTyped ==
    ASSUME TypeInv, HandleClientDatagram
    PROVE  TypeInv'
<1> DEFINE message == Head(inbox[Listen])
           i == SessionOf(message.from)
           session == IF i <= SessionCount THEN sessions[i]
                      ELSE [client |-> message.from, server |-> WellKnown,
                            locked |-> FALSE]
<1>1. /\ Reads(Listen)
      /\ sessions' = IF i <= SessionCount THEN sessions ELSE Append(sessions, session)
      /\ ObserveAndRelay(i, session, "ClientToServer", message,
                         SessionSocket(i), session.server)
  BY Zenon DEF HandleClientDatagram
<1>2. sessions \in Seq(Session) /\ SessionCount = Len(sessions) /\ SessionCount \in Nat
  BY DEF TypeInv, PeersInv, SessionCount
<1>3. message.from \in Clients /\ message.from \in 1 .. 99
  BY <1>1, ReadTyped, MessagesHaveSize DEF FromClient
<1> HIDE DEF message
<1>4. i \in 1 .. SessionCount + 1 /\ (i = SessionCount + 1 => message.from \notin KnownClients)
  BY <1>2 DEF SessionOf, KnownClients
<1> HIDE DEF i
<1>5. session \in Session
  <2>1. CASE i <= SessionCount
    <3>1. sessions[i] \in Session
      BY <1>2, <1>4, <2>1
    <3> QED  BY <2>1, <3>1
  <2>2. CASE ~(i <= SessionCount)
    <3>1. session = [client |-> message.from, server |-> WellKnown, locked |-> FALSE]
      BY <2>2
    <3>2. WellKnown \in 1 .. 99
      BY ProxyAssumption
    <3> HIDE DEF session
    <3> QED  BY <1>3, <3>1, <3>2 DEF Session
  <2> QED  BY <2>1, <2>2
<1>6. i > SessionCount => session.client = message.from
  BY <1>2, <1>4
<1> HIDE DEF session
<1>7. session.client \in 1 .. 99 /\ session.server \in 1 .. 99
  BY <1>5, ProxyAssumption DEF Session
<1>8. /\ sessions' \in Seq(Session) /\ i \in 1 .. Len(sessions')
      /\ Len(sessions) <= Len(sessions') /\ Len(sessions') \in Nat
      /\ \A j \in 1 .. Len(sessions) : sessions'[j] = sessions[j]
      /\ \A j \in 1 .. Len(sessions') :
            j \in 1 .. Len(sessions)
            \/ (j = Len(sessions) + 1 /\ i > SessionCount /\ sessions'[j] = session)
  BY <1>1, <1>2, <1>4, <1>5
<1>9. KnownClients \subseteq KnownClients'
  BY <1>2, <1>8 DEF KnownClients, SessionCount
<1>10. PeersInv'
  <2>1. \A j \in 1 .. Len(sessions) :
           sessions[j].client # message.from \/ ~(i > SessionCount)
    BY <1>2, <1>4 DEF KnownClients
  <2>2. ASSUME NEW j \in 1 .. Len(sessions'), NEW k \in 1 .. Len(sessions'),
               sessions'[j].client = sessions'[k].client
        PROVE  j = k
    <3>1. CASE j \in 1 .. Len(sessions) /\ k \in 1 .. Len(sessions)
      BY <1>8, <2>2, <3>1 DEF TypeInv, PeersInv
    <3>2. CASE j \notin 1 .. Len(sessions)
      BY <1>6, <1>8, <2>1, <2>2, <3>2
    <3>3. CASE k \notin 1 .. Len(sessions)
      BY <1>6, <1>8, <2>1, <2>2, <3>3
    <3> QED  BY <3>1, <3>2, <3>3
  <2> QED  BY <1>8, <2>2 DEF PeersInv
<1>11. SessionSocket(i) \in Sockets /\ Listen \in Sockets
  <2>1. FewSessions'
    BY <1>10, SessionsFitAlways, PTL
  <2>2. Cardinality(Clients) \in Nat
    BY ProxyAssumption, FS_CardinalityType
  <2>3. i \in 1 .. Cardinality(Clients)
    BY <1>8, <2>1, <2>2 DEF SessionCount, FewSessions
  <2> QED  BY <2>3, SocketNumbers DEF TypeInv
<1>12. "ClientToServer" \in Directions
  BY DEF Directions
<1> QED  BY <1>1, <1>7, <1>9, <1>10, <1>11, <1>12, HandledTyped DEF message

-----------------------------------------------------------------------------
(* The other steps, and the start.                                         *)
LEMMA LoopTyped ==
    ASSUME TypeInv, \/ Flush \/ Select \/ FinalFlush \/ Stop \/ Tick \/ Stopped
                    \/ UNCHANGED vars
    PROVE  TypeInv'
<1> USE DEF TypeInv, LoopInv
<1>1. CASE Flush
  <2>1. /\ LoopInv' /\ UNCHANGED <<config, inbox, sessions, strays, pipeline, trace, arrived>>
        /\ scheduled' \cup sent' = scheduled \cup sent
    BY <1>1 DEF Flush, Due
  <2> QED  BY <2>1, RestsTyped DEF Sends
<1>2. CASE FinalFlush
  <2>1. /\ LoopInv' /\ UNCHANGED <<config, inbox, sessions, strays, pipeline, trace, arrived>>
        /\ scheduled' \cup sent' = scheduled \cup sent
    BY <1>2 DEF FinalFlush, FinalSends
  <2> QED  BY <2>1, RestsTyped DEF Sends
<1>3. CASE Select
  <2>1. /\ LoopInv' /\ UNCHANGED <<config, inbox, relayVars>>
    BY <1>3 DEF Select
  <2> QED  BY <2>1, RestsTyped DEF Sends, relayVars
<1>4. CASE Stop
  <2>1. /\ LoopInv' /\ UNCHANGED <<config, inbox, relayVars>>
    BY <1>4 DEF Stop
  <2> QED  BY <2>1, RestsTyped DEF Sends, relayVars
<1>5. CASE Tick
  <2>1. /\ config.ticks \in Nat /\ UNCHANGED <<config, running, pc, ready, inbox, relayVars>>
        /\ now < config.ticks /\ now' = now + 1
    BY <1>5, ProxyAssumption DEF Tick
  <2>2. now' \in 0 .. config'.ticks
    BY <2>1
  <2> QED  BY <2>1, <2>2, RestsTyped DEF Sends, relayVars
<1>6. CASE Stopped \/ UNCHANGED vars
  <2>1. UNCHANGED <<config, loopVars, inbox, relayVars>>
    BY <1>6 DEF Stopped, vars
  <2>2. LoopInv'
    BY <2>1 DEF loopVars
  <2> QED  BY <2>1, <2>2, RestsTyped DEF Sends, relayVars
<1> QED  BY <1>1, <1>2, <1>3, <1>4, <1>5, <1>6

LEMMA NothingBuffered ==
    ASSUME inbox = [s \in Sockets |-> <<>>]
    PROVE  Buffered = 0
<1> DEFINE n == Cardinality(Sockets)
           f == [s \in Sockets |-> Len(inbox[s])]
           R(h) == {m \in Nat : \A T \in Small(Sockets, n) : T \in Small(Sockets, m) => h[T] = 0}
<1>1. PICK h : IsSum(Sockets, n, f, h) /\ Buffered = h[Sockets]
  BY BufferedIsSum DEF BufferedSum
<1>2. n \in Nat /\ Sockets \in Small(Sockets, n)
  BY SocketsAreFinite, SmallSets
<1>3. \A s \in Sockets : f[s] = 0
  OBVIOUS
<1> HIDE DEF f, n
<1>4. \A T \in Small(Sockets, n) : h[T] = SumOf(f, h, T)
  <2> DEFINE F(T) == SumOf(f, h, T)
  <2>1. h = [T \in Small(Sockets, n) |-> F(T)]
    BY <1>1 DEF IsSum
  <2> HIDE DEF F
  <2>2. \A T \in Small(Sockets, n) : h[T] = F(T)
    BY <2>1
  <2> QED  BY <2>2 DEF F
<1>5. 0 \in R(h)
  <2>1. \A T \in Small(Sockets, 0) : T = {}
    BY NothingSmall, SocketsAreFinite
  <2> QED  BY <1>4, <2>1 DEF SumOf
<1>6. ASSUME NEW m \in Nat, m \in R(h)  PROVE m + 1 \in R(h)
  <2> SUFFICES ASSUME NEW T \in Small(Sockets, n), T \in Small(Sockets, m + 1)
               PROVE  h[T] = 0
    OBVIOUS
  <2>1. CASE T = {}
    BY <1>4, <2>1 DEF SumOf
  <2>2. CASE T # {}
    <3> DEFINE x == CHOOSE y \in T : TRUE
               U == T \ {x}
    <3>1. x \in T /\ U \in Small(Sockets, m)
      BY <2>2, SocketsAreFinite, RemoveChosen
    <3>2. x \in Sockets /\ U \in Small(Sockets, n)
      <4>1. T \in Small(Sockets, n + 1)
        BY <1>2, SocketsAreFinite, SmallGrows
      <4> QED  BY <1>2, <2>2, <4>1, SocketsAreFinite, RemoveChosen DEF Small
    <3>3. h[T] = f[x] + h[U]
      BY <1>4, <2>2 DEF SumOf
    <3> HIDE DEF x, U
    <3> QED  BY <1>3, <1>6, <3>1, <3>2, <3>3
  <2> QED  BY <2>1, <2>2
<1>7. n \in R(h)
  <2> DEFINE I == R(h)
  <2>1. 0 \in I /\ \A m \in Nat : m \in I => m + 1 \in I
    BY <1>5, <1>6
  <2> HIDE DEF R
  <2> QED  BY <1>2, <2>1, NaturalsAreInductive
<1> QED  BY <1>1, <1>2, <1>7

LEMMA InitTyped == Init => TypeInv
<1> SUFFICES ASSUME Init  PROVE TypeInv
  OBVIOUS
<1>1. Buffered = 0
  BY NothingBuffered DEF Init
<1>2. LoopInv
  <2>1. config.ticks \in Nat
    BY ProxyAssumption DEF Init
  <2> QED  BY <2>1 DEF Init, LoopInv
<1>3. BoxesInv
  <2>1. Listen \in Sockets
    BY DEF Sockets
  <2> QED  BY <2>1 DEF Init, BoxesInv
<1>4. PeersInv
  BY DEF Init, PeersInv
<1>5. BoundsInv
  <2>1. config.datagrams \in Nat
    BY ProxyAssumption DEF Init
  <2>2. <<>> \in Seq(Packets) /\ Len(<<>>) = 0 /\ IsSequence(<<>>)
    BY DEF IsSequence
  <2> QED  BY <1>1, <2>1, <2>2 DEF Init, BoundsInv
<1>6. SendsInv
  BY DEF Init, SendsInv, Sends
<1>7. pipeline \in PipelineState
  BY DEF Init, FreshPipeline, PipelineState
<1> QED  BY <1>2, <1>3, <1>4, <1>5, <1>6, <1>7 DEF TypeInv

LEMMA NextTyped == TypeInv /\ [Next]_vars => TypeInv'
<1> SUFFICES ASSUME TypeInv, [Next]_vars  PROVE TypeInv'
  OBVIOUS
<1> QED  BY PeersTyped, ClientDatagramTyped, RefuseTyped, ServerDatagramTyped,
            StrayReplyTyped, LoopTyped DEF Next, RelayLoop

LEMMA TypesAreKept == Spec => []TypeInv
BY InitTyped, NextTyped, PTL DEF Spec

(* The variables of the proxy have their types, and its sockets fit their  *)
(* numbering: a client gets one session however often and in whatever      *)
(* interleaving it sends (find_or_create_session), no datagram opens more  *)
(* than one stray socket, and relay_loop handles no socket that select did *)
(* not report.                                                             *)
THEOREM ProxyTypeCorrect == Spec => []ProxyTypeOK
<1>1. ASSUME TypeInv  PROVE ProxyTypeOK
  <2>1. /\ config \in Configs /\ running \in BOOLEAN
        /\ pc \in {"top", "select", "handling", "done"}
        /\ ready \subseteq Sockets /\ now \in 0 .. config.ticks
        /\ pipeline \in PipelineState /\ Sends \subseteq SendType
        /\ strays <= Len(arrived)
    BY <1>1 DEF TypeInv, LoopInv, BoundsInv, SendsInv
  <2>2. (pc = "handling") = (ready # {})
    BY <1>1 DEF TypeInv, LoopInv
  <2>3. \A i \in 1 .. SessionCount :
           sessions[i] \in [client: Clients, server: 1 .. 99, locked: BOOLEAN]
    <3>1. sessions \in Seq(Session)
      BY <1>1 DEF TypeInv, PeersInv
    <3>2. \A i \in 1 .. Len(sessions) : sessions[i] \in Session
      BY <3>1
    <3> QED  BY <3>2, Zenon DEF SessionCount, Session
  <2>4. SessionCount <= Cardinality(Clients)
    BY <1>1, SessionsFit DEF TypeInv
  <2> QED  BY <2>1, <2>2, <2>3, <2>4 DEF ProxyTypeOK
<1> QED  BY <1>1, TypesAreKept, PTL

-----------------------------------------------------------------------------
(* What relaying a message adds to the trace, record by record.            *)
AddsRecord(i, session, direction, message) ==
    LET n == Len(trace) IN
    /\ Len(trace') \in {n + 1, n + 2}
    /\ \A j \in 1 .. n : trace'[j] = trace[j]
    /\ \E r : trace'[n + 1] = RecordOf(i, session, direction, message, r)
    /\ IsPeerSend(trace'[n + 1])
    /\ Len(trace') = n + 2 => trace'[n + 2].disposition = "Injected"

LEMMA RelaysRecords ==
    ASSUME IsSequence(trace), NEW i, NEW session, NEW direction, NEW message,
           Relays(i, session, direction, message)
    PROVE  AddsRecord(i, session, direction, message)
<1>1. PICK r : LET record == RecordOf(i, session, direction, message, r)
               IN  \/ Grows(<<record>>)
                   \/ Grows(<<record, InjectedRecord(config.injection, i, session)>>)
  BY DEF Relays
<1> DEFINE record == RecordOf(i, session, direction, message, r)
           injected == InjectedRecord(config.injection, i, session)
<1>2. IsPeerSend(record)
  BY DEF RecordOf, IsPeerSend
<1>3. injected.disposition = "Injected"
  BY PromisedOfInjected
<1>4. Len(trace) \in Nat
  BY TraceBasics
<1>5. Grows(<<record>>) \/ Grows(<<record, injected>>)
  BY <1>1
<1>6. \E u : record = RecordOf(i, session, direction, message, u)
  OBVIOUS
<1> HIDE DEF record, injected
<1>7. CASE Grows(<<record>>)
  <2>1. /\ Len(trace') = Len(trace) + 1 /\ trace'[Len(trace) + 1] = record
        /\ \A j \in 1 .. Len(trace) : trace'[j] = trace[j]
    BY <1>4, <1>7 DEF Grows, Extends
  <2> QED  BY <1>2, <1>4, <1>6, <2>1 DEF AddsRecord
<1>8. CASE Grows(<<record, injected>>)
  <2>1. /\ Len(trace') = Len(trace) + 2 /\ trace'[Len(trace) + 1] = record
        /\ trace'[Len(trace) + 2] = injected
        /\ \A j \in 1 .. Len(trace) : trace'[j] = trace[j]
    BY <1>4, <1>8 DEF Grows, Extends
  <2> QED  BY <1>2, <1>3, <1>4, <1>6, <2>1 DEF AddsRecord
<1> QED  BY <1>5, <1>7, <1>8

(* What the proofs so far tell of a state.                                 *)
Known == TypeInv /\ ShapeInv /\ SessionsInv /\ RecordsInv

LEMMA KnownIsKept == Spec => []Known
<1>1. Init => Known
  <2>1. Init => ShapeInv
    BY InitTrace DEF TraceInv
  <2> QED  BY <2>1, InitTyped, InitPeers DEF Known
<1>2. TraceInv => ShapeInv
  BY DEF TraceInv
<1>3. Known /\ TraceInv' /\ [Next]_vars => Known'
  <2>1. TraceInv' => ShapeInv'
    BY <1>2, PTL
  <2> QED  BY <2>1, NextTyped, NextPeers DEF Known
<1> QED  BY <1>1, <1>3, TraceIsKept, PTL DEF Spec

-----------------------------------------------------------------------------
(* The first record is the request of the first client, to the well-known  *)
(* port; before it no session and no stray socket exists.                  *)
OpeningInv ==
    /\ Len(trace) = 0 => Len(sessions) = 0 /\ strays = 0
    /\ Len(trace) > 0 => /\ IsPeerSend(trace[1]) /\ trace[1].direction = "ClientToServer"
                         /\ trace[1].packet.kind \in {"RRQ", "WRQ"}
                         /\ trace[1].destination = WellKnown

(* The source a reply is traced with is the TID of the first answer on its *)
(* session, which is the reply itself or an earlier one.                   *)
FromServer(r) == IsPeerSend(r) /\ r.direction = "ServerToClient"

SourcesInv ==
    \A i \in 1 .. Len(trace) : FromServer(trace[i]) =>
        /\ trace[i].from \in 1 .. 99
        /\ trace[i].source = Answerer(trace, trace[i].session, i + 1)

TidInv == OpeningInv /\ SourcesInv

(* Records that are added change the answerer of no earlier reply.         *)
LEMMA AnswererStays ==
    ASSUME IsSequence(trace), NEW t, Len(t) \in Nat, Len(trace) <= Len(t),
           \A j \in 1 .. Len(trace) : t[j] = trace[j],
           NEW i \in 1 .. Len(trace), NEW k
    PROVE  Answerer(t, k, i + 1) = Answerer(trace, k, i + 1)
<1> DEFINE n == Len(trace)
           S == AnswersIn(trace, k, i + 1)
<1>1. n \in Nat
  BY TraceBasics
<1>2. S \in SUBSET Nat /\ S \subseteq 1 .. n
  BY <1>1 DEF AnswersIn
<1>3. AnswersIn(t, k, i + 1) = S
  <2>1. \A j \in Nat : (j \in 1 .. Len(t) /\ j < i + 1) <=> (j \in 1 .. n /\ j < i + 1)
    BY <1>1
  <2>2. \A j \in 1 .. n : t[j] = trace[j]
    OBVIOUS
  <2> QED  BY <1>1, <2>1, <2>2 DEF AnswersIn
<1>4. S # {} => t[Min(S)] = trace[Min(S)]
  <2> HIDE DEF S
  <2> SUFFICES ASSUME S # {}  PROVE t[Min(S)] = trace[Min(S)]
    OBVIOUS
  <2>1. Min(S) \in 1 .. n
    BY <1>2, MinOfNaturals
  <2> QED  BY <2>1
<1> HIDE DEF S
<1> QED  BY <1>3, <1>4 DEF Answerer, S

LEMMA RestsTid ==
    ASSUME TidInv, UNCHANGED <<trace, sessions, strays>>
    PROVE  TidInv'
BY DEF TidInv, OpeningInv, SourcesInv

LEMMA ClientDatagramTid ==
    ASSUME Known, TidInv, HandleClientDatagram
    PROVE  TidInv'
<1> DEFINE message == Head(inbox[Listen])
           i == SessionOf(message.from)
           session == IF i <= SessionCount THEN sessions[i]
                      ELSE [client |-> message.from, server |-> WellKnown,
                            locked |-> FALSE]
           n == Len(trace)
<1>1. /\ Reads(Listen)
      /\ ObserveAndRelay(i, session, "ClientToServer", message,
                         SessionSocket(i), session.server)
  BY Zenon DEF HandleClientDatagram
<1>2. IsSequence(trace) /\ HasCounter(pipeline) /\ n \in Nat
  BY TraceBasics DEF Known, ShapeInv
<1>3. Relays(i, session, "ClientToServer", message)
  BY <1>1, <1>2, Relayed
<1>4. AddsRecord(i, session, "ClientToServer", message)
  BY <1>2, <1>3, RelaysRecords
<1>5. FromClient(message)
  BY <1>1, ReadTyped DEF Known
<1> HIDE DEF message
<1>6. n = 0 => session.server = WellKnown /\ message.packet.kind \in {"RRQ", "WRQ"}
  <2> SUFFICES ASSUME n = 0
               PROVE  session.server = WellKnown /\ message.packet.kind \in {"RRQ", "WRQ"}
    OBVIOUS
  <2>1. Len(sessions) = 0
    BY DEF TidInv, OpeningInv
  <2>2. KnownClients = {}
    BY <2>1 DEF KnownClients, SessionCount
  <2>3. i = 1 /\ SessionCount = 0
    BY <2>1, <2>2 DEF SessionOf, SessionCount
  <2> QED  BY <1>5, <2>2, <2>3 DEF FromClient
<1> HIDE DEF i, session
<1>7. PICK r : trace'[n + 1] = RecordOf(i, session, "ClientToServer", message, r)
  BY <1>4 DEF AddsRecord
<1>8. /\ trace'[n + 1].direction = "ClientToServer"
      /\ trace'[n + 1].packet = message.packet
      /\ trace'[n + 1].destination = session.server
  BY <1>7 DEF RecordOf
<1>9. OpeningInv'
  <2>1. Len(trace') \in Nat /\ Len(trace') > 0
    BY <1>2, <1>4 DEF AddsRecord
  <2>2. CASE n = 0
    <3>1. trace'[1].direction = "ClientToServer" /\ IsPeerSend(trace'[1])
          /\ trace'[1].packet.kind \in {"RRQ", "WRQ"} /\ trace'[1].destination = WellKnown
      BY <1>4, <1>6, <1>8, <2>2 DEF AddsRecord
    <3> QED  BY <2>1, <3>1 DEF OpeningInv
  <2>3. CASE n # 0
    <3>1. 1 \in 1 .. n
      BY <1>2, <2>3
    <3>2. trace'[1] = trace[1]
      BY <1>4, <3>1 DEF AddsRecord
    <3> QED  BY <1>2, <2>1, <2>3, <3>2 DEF OpeningInv, TidInv
  <2> QED  BY <2>2, <2>3
<1>10. SourcesInv'
  <2> SUFFICES ASSUME NEW k \in 1 .. Len(trace'), FromServer(trace'[k])
               PROVE  /\ trace'[k].from \in 1 .. 99
                      /\ trace'[k].source = Answerer(trace', trace'[k].session, k + 1)
    BY DEF SourcesInv
  <2>1. k \in 1 .. n
    <3>1. k \in 1 .. n \/ k = n + 1 \/ (k = n + 2 /\ Len(trace') = n + 2)
      BY <1>2, <1>4 DEF AddsRecord
    <3> QED  BY <1>4, <1>8, <3>1 DEF AddsRecord, FromServer, IsPeerSend
  <2>2. \A j \in 1 .. n : trace'[j] = trace[j]
    BY <1>4 DEF AddsRecord
  <2>3. FromServer(trace[k]) /\ trace'[k] = trace[k]
    BY <2>1, <2>2
  <2>4. Answerer(trace', trace[k].session, k + 1) = Answerer(trace, trace[k].session, k + 1)
    BY <1>2, <1>4, <2>1, <2>2, AnswererStays DEF AddsRecord
  <2> QED  BY <2>1, <2>3, <2>4 DEF TidInv, SourcesInv
<1> QED  BY <1>9, <1>10 DEF TidInv

LEMMA ServerDatagramTid ==
    ASSUME Known, SessionsInv', IsSequence(trace'), TidInv, HandleServerDatagram
    PROVE  TidInv'
<1>1. PICK i \in 1 .. SessionCount :
        /\ Reads(SessionSocket(i))
        /\ LET message == Head(inbox[SessionSocket(i)])
               session == LockTid(sessions[i], message.from)
           IN  /\ sessions' = [sessions EXCEPT ![i] = session]
               /\ ObserveAndRelay(i, session, "ServerToClient", message,
                                  Listen, session.client)
  BY Zenon DEF HandleServerDatagram
<1> DEFINE message == Head(inbox[SessionSocket(i)])
           session == LockTid(sessions[i], message.from)
           n == Len(trace)
<1>2. IsSequence(trace) /\ HasCounter(pipeline) /\ n \in Nat
  BY TraceBasics DEF Known, ShapeInv
<1>3. Relays(i, session, "ServerToClient", message)
  BY <1>1, <1>2, Relayed
<1>4. AddsRecord(i, session, "ServerToClient", message)
  BY <1>2, <1>3, RelaysRecords
<1>5. message.from \in 1 .. 99
  BY <1>1, ReadTyped, MessagesHaveSize DEF Known
<1> HIDE DEF message
<1>6. /\ i \in 1 .. Len(sessions) /\ sessions \in Seq(Session)
      /\ sessions' = [sessions EXCEPT ![i] = session]
  BY <1>1 DEF SessionCount, Known, TypeInv, PeersInv, message
<1>7. session.locked = TRUE
  <2>1. sessions[i] \in Session
    BY <1>6
  <2> QED  BY <2>1 DEF LockTid, Session
<1> HIDE DEF session
<1>8. i \in 1 .. Len(sessions') /\ sessions'[i] = session
  BY <1>6
<1>9. /\ AnswersIn(trace', i, Len(trace') + 1) # {}
      /\ session.server = Answerer(trace', i, Len(trace') + 1)
  BY <1>7, <1>8 DEF SessionsInv, ServerIsKnown
<1>10. PICK r : trace'[n + 1] = RecordOf(i, session, "ServerToClient", message, r)
  BY <1>4 DEF AddsRecord
<1>11. /\ trace'[n + 1].direction = "ServerToClient" /\ trace'[n + 1].session = i
       /\ trace'[n + 1].from = message.from
       /\ trace'[n + 1].source = session.server
  BY <1>10 DEF RecordOf
<1>12. Len(trace') \in {n + 1, n + 2} /\ \A j \in 1 .. n : trace'[j] = trace[j]
  BY <1>4 DEF AddsRecord
<1>13. n > 0
  <2>1. Len(sessions) # 0
    BY <1>6
  <2> QED  BY <1>2, <2>1 DEF TidInv, OpeningInv
<1>14. OpeningInv'
  <2>1. trace'[1] = trace[1]
    BY <1>2, <1>12, <1>13
  <2>2. Len(trace') > 0 /\ Len(trace') # 0
    BY <1>2, <1>12
  <2> QED  BY <1>13, <2>1, <2>2 DEF OpeningInv, TidInv
<1>15. session.server = Answerer(trace', i, n + 2)
  <2> DEFINE m == Len(trace')
  <2>1. m \in Nat /\ m \in {n + 1, n + 2}
    BY <1>2, <1>12
  <2>2. m = n + 2 => ~IsAnswer(trace'[n + 2], i)
    BY <1>4 DEF AddsRecord, IsAnswer, IsPeerSend
  <2>3. \A j \in 1 .. m : j < n + 2 \/ (m = n + 2 /\ j = n + 2)
    BY <1>2, <2>1
  <2>4. \A j \in 1 .. m : j < m + 1
    BY <2>1
  <2>5. AnswersIn(trace', i, m + 1) = AnswersIn(trace', i, n + 2)
    <3> HIDE DEF m, n
    <3> QED  BY <2>2, <2>3, <2>4 DEF AnswersIn, m
  <2> QED  BY <1>9, <2>5 DEF Answerer
<1>16. SourcesInv'
  <2> SUFFICES ASSUME NEW k \in 1 .. Len(trace'), FromServer(trace'[k])
               PROVE  /\ trace'[k].from \in 1 .. 99
                      /\ trace'[k].source = Answerer(trace', trace'[k].session, k + 1)
    BY DEF SourcesInv
  <2>1. k \in 1 .. n \/ k = n + 1
    <3>1. k \in 1 .. n \/ k = n + 1 \/ (k = n + 2 /\ Len(trace') = n + 2)
      BY <1>2, <1>12
    <3> QED  BY <1>4, <3>1 DEF AddsRecord, FromServer, IsPeerSend
  <2>2. CASE k \in 1 .. n
    <3>1. FromServer(trace[k]) /\ trace'[k] = trace[k]
      BY <1>12, <2>2
    <3>2. Answerer(trace', trace[k].session, k + 1) = Answerer(trace, trace[k].session, k + 1)
      BY <1>2, <1>12, <2>2, AnswererStays
    <3> QED  BY <2>2, <3>1, <3>2 DEF TidInv, SourcesInv
  <2>3. CASE k = n + 1
    <3>1. k + 1 = n + 2
      BY <1>2, <2>3
    <3> QED  BY <1>5, <1>11, <1>15, <2>3, <3>1
  <2> QED  BY <2>1, <2>2, <2>3
<1> QED  BY <1>14, <1>16 DEF TidInv

LEMMA StrayReplyTid ==
    ASSUME Known, TidInv, HandleStrayReply
    PROVE  TidInv'
<1> DEFINE n == Len(trace)
<1>1. PICK reply :
        /\ trace' = Append(trace, reply) /\ reply.disposition = "Injected"
        /\ UNCHANGED <<sessions, strays>> /\ 1 .. strays # {}
  <2>1. PICK k \in 1 .. strays :
          LET message == Head(inbox[StraySocket(k)])
          IN  /\ trace' = Append(trace,
                   [direction |-> "ClientToServer", session |-> 0,
                    from |-> message.from, source |-> message.from,
                    destination |-> StraySocket(k), packet |-> message.packet,
                    disposition |-> "Injected", duplicated |-> FALSE, reply |-> TRUE])
              /\ UNCHANGED <<sessions, strays>>
    BY Zenon DEF HandleStrayReply
  <2> DEFINE m == Head(inbox[StraySocket(k)])
             reply == [direction |-> "ClientToServer", session |-> 0,
                       from |-> m.from, source |-> m.from,
                       destination |-> StraySocket(k), packet |-> m.packet,
                       disposition |-> "Injected", duplicated |-> FALSE, reply |-> TRUE]
  <2>2. trace' = Append(trace, reply) /\ UNCHANGED <<sessions, strays>>
    BY <2>1
  <2>3. reply.disposition = "Injected"
    OBVIOUS
  <2> HIDE DEF reply
  <2> QED  BY <2>2, <2>3
<1>2. n \in Nat /\ strays \in Nat
  BY TraceBasics DEF Known, ShapeInv, TypeInv, BoundsInv
<1>3. Extends(trace', trace, <<reply>>)
  BY <1>1, ExtendByOne DEF Known, ShapeInv
<1>4. /\ Len(trace') = n + 1 /\ trace'[n + 1] = reply
      /\ \A j \in 1 .. n : trace'[j] = trace[j]
  BY <1>2, <1>3 DEF Extends
<1>5. n > 0
  BY <1>1, <1>2 DEF TidInv, OpeningInv
<1>6. OpeningInv'
  BY <1>2, <1>4, <1>5 DEF TidInv, OpeningInv
<1>7. SourcesInv'
  <2> SUFFICES ASSUME NEW i \in 1 .. Len(trace'), FromServer(trace'[i])
               PROVE  /\ trace'[i].from \in 1 .. 99
                      /\ trace'[i].source = Answerer(trace', trace'[i].session, i + 1)
    BY DEF SourcesInv
  <2>1. i \in 1 .. n
    BY <1>1, <1>2, <1>4 DEF FromServer, IsPeerSend
  <2>2. FromServer(trace[i]) /\ trace'[i] = trace[i]
    BY <1>4, <2>1
  <2>3. Answerer(trace', trace[i].session, i + 1) = Answerer(trace, trace[i].session, i + 1)
    BY <1>2, <1>4, <2>1, AnswererStays DEF Known, ShapeInv
  <2> QED  BY <2>1, <2>2, <2>3 DEF TidInv, SourcesInv
<1> QED  BY <1>6, <1>7 DEF TidInv

LEMMA InitTid == Init => TidInv
BY DEF Init, TidInv, OpeningInv, SourcesInv

LEMMA NextTid == Known /\ Known' /\ TidInv /\ [Next]_vars => TidInv'
<1> SUFFICES ASSUME Known, Known', TidInv, [Next]_vars  PROVE TidInv'
  OBVIOUS
<1>1. CASE HandleServerDatagram
  BY <1>1, ServerDatagramTid DEF Known, ShapeInv
<1>2. ASSUME ~HandleClientDatagram, ~HandleServerDatagram, ~HandleStrayReply
      PROVE  UNCHANGED <<trace, sessions, strays>>
  BY <1>2 DEF Next, RelayLoop, ClientSends, ServerSends, StrayVictimReplies, Post, Select,
              RefuseClientDatagram, Flush, FinalFlush, Stop, Tick, Stopped, vars, loopVars,
              relayVars
<1> QED  BY <1>1, <1>2, ClientDatagramTid, StrayReplyTid, RestsTid

(* Whatever the interleaving, the losses, the number of handlers and what  *)
(* the proxy injects, the observer reports a fresh TID exactly if the      *)
(* first answer in the session of the first DATA or OACK came from another *)
(* port than the well-known one.                                           *)
THEOREM FreshTidIsReported == Spec => []FreshTidIsTrue
<1>1. ASSUME Known, TidInv  PROVE FreshTidIsTrue
  <2> DEFINE replies == PeerSends(trace, "ServerToClient", {"DATA", "OACK"})
             first == Min(replies)
             S == Answers(trace[first].session, first + 1)
             opener == Min(S)
             server == ServerSourceTid(trace)
             request == Requests(trace)
             fresh == /\ request # {} /\ server # 0
                      /\ server # trace[Min(request)].destination
  <2>1. Len(trace) \in Nat /\ DOMAIN trace = 1 .. Len(trace)
    BY <1>1, TraceBasics DEF Known, ShapeInv
  <2>2. Observe(trace, "Download", 2).freshTid <=> fresh
    <3> DEFINE data == PeerSends(trace, DataDirection("Download"), {"DATA"})
    <3> HIDE DEF fresh, server, request
    <3> QED  BY DEF Observe, fresh, server, request
  <2>3. replies # {} => server = trace[opener].from /\ server # 0 /\ Len(trace) > 0
    <3> SUFFICES ASSUME replies # {}
                 PROVE  server = trace[opener].from /\ server # 0 /\ Len(trace) > 0
      OBVIOUS
    <3>1. /\ replies \in SUBSET Nat
          /\ \A i \in replies : i \in 1 .. Len(trace) /\ FromServer(trace[i])
      BY <2>1 DEF PeerSends, FromServer
    <3>2. first \in replies
      BY <3>1, MinOfNaturals
    <3>3. server = trace[first].source
      BY DEF ServerSourceTid
    <3>4. S = AnswersIn(trace, trace[first].session, first + 1)
      BY <2>1 DEF Answers, AnswersIn, IsAnswer
    <3> HIDE DEF replies, server, first
    <3>5. first \in 1 .. Len(trace) /\ FromServer(trace[first])
      BY <3>1, <3>2
    <3>6. server = Answerer(trace, trace[first].session, first + 1)
      BY <1>1, <3>3, <3>5 DEF TidInv, SourcesInv
    <3>7. first \in S /\ S \in SUBSET Nat
      BY <2>1, <3>4, <3>5 DEF AnswersIn, IsAnswer, FromServer
    <3>8. \A i \in S : i \in 1 .. Len(trace) /\ FromServer(trace[i])
      BY <3>4 DEF AnswersIn, IsAnswer, FromServer
    <3> HIDE DEF S
    <3>9. opener \in S
      BY <3>7, MinOfNaturals
    <3>10. server = trace[opener].from
      BY <3>4, <3>6, <3>7 DEF Answerer
    <3>11. trace[opener].from \in 1 .. 99
      BY <1>1, <3>8, <3>9 DEF TidInv, SourcesInv
    <3>12. Len(trace) > 0
      BY <2>1, <3>5
    <3> HIDE DEF opener
    <3>13. server # 0
      BY <3>10, <3>11
    <3> QED  BY <3>10, <3>12, <3>13
  <2>4. replies = {} => server = 0
    BY DEF ServerSourceTid
  <2>5. Len(trace) > 0 => request # {} /\ trace[Min(request)].destination = WellKnown
    <3> SUFFICES ASSUME Len(trace) > 0
                 PROVE  request # {} /\ trace[Min(request)].destination = WellKnown
      OBVIOUS
    <3>1. 1 \in request /\ request \in SUBSET Nat /\ \A i \in request : 1 <= i
      BY <1>1, <2>1 DEF TidInv, OpeningInv, Requests, PeerSends
    <3> HIDE DEF request
    <3>2. Min(request) = 1
      BY <3>1, MinIsFirst
    <3> QED  BY <1>1, <3>1, <3>2 DEF TidInv, OpeningInv
  <2> HIDE DEF replies, server, request, opener
  <2>6. fresh <=> replies # {} /\ trace[opener].from # WellKnown
    BY <2>3, <2>4, <2>5
  <2> HIDE DEF fresh
  <2> QED  BY <2>2, <2>6 DEF FreshTidIsTrue, replies, opener
<1>2. Init => Known
  <2>1. Init => ShapeInv
    BY InitTrace DEF TraceInv
  <2> QED  BY <2>1, InitTyped, InitPeers DEF Known
<1> QED  BY <1>1, KnownIsKept, InitTid, NextTid, PTL DEF Spec

-----------------------------------------------------------------------------
(* What a download's traffic looks like to the observer.                   *)
DataRecords(t) == PeerSends(t, "ServerToClient", {"DATA"})
Numbers(t) == {t[i].packet.number : i \in DataRecords(t)}
DataRead(read) == {i \in 1 .. Len(read) : read[i].kind = "DATA"}
Again(read) == {i \in DataRead(read) : \E j \in 1 .. i - 1 : read[j] = read[i]}

(* DATA waits on the sessions' sockets only.                               *)
KindsInv ==
    \A s \in Sockets : s \notin 101 .. 199 =>
        \A i \in 1 .. Len(inbox[s]) : inbox[s][i].packet.kind # "DATA"

(* The trace has as many DATA records as it has block numbers and the      *)
(* peers sent DATA again.                                                  *)
RepeatInv ==
    /\ Numbers(trace) = {arrived[i].number : i \in DataRead(arrived)}
    /\ Cardinality(DataRecords(trace)) = Cardinality(Numbers(trace)) + Cardinality(Again(arrived))

LEMMA ReadIsFinite ==
    ASSUME Known
    PROVE  /\ IsFiniteSet(DataRecords(trace)) /\ DataRecords(trace) \subseteq 1 .. Len(trace)
           /\ IsFiniteSet(Numbers(trace)) /\ IsFiniteSet(Again(arrived))
           /\ Len(trace) \in Nat /\ Len(arrived) \in Nat /\ arrived \in Seq(Packets)
<1>1. /\ Len(trace) \in Nat /\ DOMAIN trace = 1 .. Len(trace)
      /\ Len(arrived) \in Nat /\ arrived \in Seq(Packets)
  BY TraceBasics DEF Known, ShapeInv, TypeInv, BoundsInv
<1>2. DataRecords(trace) \subseteq 1 .. Len(trace) /\ Again(arrived) \subseteq 1 .. Len(arrived)
  BY <1>1 DEF DataRecords, PeerSends, Again, DataRead
<1>3. IsFiniteSet(DataRecords(trace)) /\ IsFiniteSet(Again(arrived))
  <2>1. \A n \in Nat : IsFiniteSet(1 .. n)
    BY FS_Interval
  <2> QED  BY <1>1, <1>2, <2>1, FS_Subset
<1>4. IsFiniteSet(Numbers(trace))
  <2> DEFINE D == DataRecords(trace)
             f == [i \in D |-> trace[i].packet.number]
  <2>1. f \in Surjection(D, Numbers(trace))
    BY DEF Surjection, Numbers
  <2> HIDE DEF f
  <2> QED  BY <1>3, <2>1, FS_Surjection
<1> QED  BY <1>1, <1>2, <1>3, <1>4

(* A datagram that is no DATA is read.                                     *)
LEMMA OtherRead ==
    ASSUME Known, RepeatInv, NEW p, p.kind # "DATA", arrived' = Append(arrived, p),
           DataRecords(trace') = DataRecords(trace),
           \A i \in 1 .. Len(trace) : trace'[i] = trace[i]
    PROVE  RepeatInv'
<1>1. /\ DataRecords(trace) \subseteq 1 .. Len(trace)
      /\ Len(arrived) \in Nat /\ arrived \in Seq(Packets)
  BY ReadIsFinite
<1>2. /\ Len(arrived') = Len(arrived) + 1 /\ arrived'[Len(arrived) + 1] = p
      /\ \A i \in 1 .. Len(arrived) : arrived'[i] = arrived[i]
  <2>1. arrived \in Seq(Packets \cup {p})
    BY <1>1
  <2> QED  BY <2>1
<1>3. Numbers(trace') = Numbers(trace)
  BY <1>1 DEF Numbers
<1>4. /\ \A i \in 1 .. Len(arrived') : i \in 1 .. Len(arrived) \/ i = Len(arrived) + 1
      /\ \A i \in 1 .. Len(arrived) : i \in 1 .. Len(arrived')
  BY <1>1, <1>2
<1>5. DataRead(arrived') = DataRead(arrived) /\ DataRead(arrived) \subseteq 1 .. Len(arrived)
  BY <1>2, <1>4 DEF DataRead
<1>6. Again(arrived') = Again(arrived)
  <2>1. \A i \in 1 .. Len(arrived) : \A j \in 1 .. i - 1 : j \in 1 .. Len(arrived)
    BY <1>1
  <2>2. \A i \in DataRead(arrived) :
           (\E j \in 1 .. i - 1 : arrived'[j] = arrived'[i])
             <=> (\E j \in 1 .. i - 1 : arrived[j] = arrived[i])
    BY <1>2, <1>5, <2>1
  <2> QED  BY <1>5, <2>2 DEF Again
<1>7. {arrived'[i].number : i \in DataRead(arrived')}
        = {arrived[i].number : i \in DataRead(arrived)}
  BY <1>2, <1>5
<1> QED  BY <1>3, <1>6, <1>7 DEF RepeatInv

LEMMA ReadPackets ==
    ASSUME DownloadTraffic, Known, NEW i \in DataRead(arrived)
    PROVE  arrived[i] \in ServerPackets /\ arrived[i].kind = "DATA" /\ i \in 1 .. Len(arrived)
<1>1. i \in 1 .. Len(arrived) /\ arrived[i].kind = "DATA"
  BY DEF DataRead
<1>2. arrived[i] \in Packets
  BY <1>1, ReadIsFinite
<1> QED  BY <1>1, <1>2 DEF DownloadTraffic, Packets

(* DATA of the server is read, and traced.                                 *)
LEMMA DataIsRead ==
    ASSUME DownloadTraffic, Known, RepeatInv, NEW p \in ServerPackets, p.kind = "DATA",
           arrived' = Append(arrived, p),
           DataRecords(trace') = DataRecords(trace) \cup {Len(trace) + 1},
           trace'[Len(trace) + 1].packet = p,
           \A i \in 1 .. Len(trace) : trace'[i] = trace[i]
    PROVE  RepeatInv'
<1> DEFINE n == Len(trace) + 1
           k == Len(arrived) + 1
           D == DataRecords(trace)
           N == Numbers(trace)
           A == Again(arrived)
<1>1. /\ D \subseteq 1 .. Len(trace) /\ Len(arrived) \in Nat /\ arrived \in Seq(Packets)
      /\ Len(trace) \in Nat /\ IsFiniteSet(D) /\ IsFiniteSet(N) /\ IsFiniteSet(A)
  BY ReadIsFinite
<1>2. /\ Len(arrived') = k /\ arrived'[k] = p
      /\ \A i \in 1 .. Len(arrived) : arrived'[i] = arrived[i]
  <2>1. arrived \in Seq(Packets \cup {p})
    BY <1>1
  <2> QED  BY <2>1
<1>3. /\ \A i \in 1 .. Len(arrived') : i \in 1 .. Len(arrived) \/ i = k
      /\ \A i \in 1 .. Len(arrived) : i \in 1 .. Len(arrived')
      /\ k \in 1 .. Len(arrived') /\ k \notin 1 .. Len(arrived) /\ n \notin 1 .. Len(trace)
      /\ 1 .. k - 1 = 1 .. Len(arrived)
      /\ \A i \in 1 .. Len(arrived) : \A j \in 1 .. i - 1 : j \in 1 .. Len(arrived)
  BY <1>1, <1>2
<1>4. \A i \in D : trace'[i] = trace[i]
  BY <1>1
<1>5. Numbers(trace') = N \cup {p.number}
  <2>1. DataRecords(trace') = D \cup {n} /\ trace'[n].packet = p
    OBVIOUS
  <2> HIDE DEF D, n
  <2> QED  BY <1>4, <2>1 DEF Numbers, D
<1>6. /\ DataRead(arrived') = DataRead(arrived) \cup {k}
      /\ DataRead(arrived) \subseteq 1 .. Len(arrived)
  BY <1>2, <1>3 DEF DataRead
<1>7. {arrived'[i].number : i \in DataRead(arrived')} = N \cup {p.number}
  <2>1. \A i \in DataRead(arrived) : arrived'[i] = arrived[i]
    BY <1>2, <1>6
  <2> HIDE DEF k, N
  <2> QED  BY <1>2, <1>6, <2>1 DEF RepeatInv, N
<1>8. p.number \in N <=> \E j \in 1 .. Len(arrived) : arrived[j] = p
  <2>1. ASSUME p.number \in N  PROVE \E j \in 1 .. Len(arrived) : arrived[j] = p
    <3>1. PICK i \in DataRead(arrived) : arrived[i].number = p.number
      BY <2>1 DEF RepeatInv
    <3>2. arrived[i] \in ServerPackets /\ arrived[i].kind = "DATA" /\ i \in 1 .. Len(arrived)
      BY ReadPackets
    <3> QED  BY <3>1, <3>2 DEF DownloadTraffic
  <2>2. ASSUME NEW j \in 1 .. Len(arrived), arrived[j] = p  PROVE p.number \in N
    <3>1. j \in DataRead(arrived)
      BY <2>2 DEF DataRead
    <3> QED  BY <2>2, <3>1 DEF RepeatInv
  <2> QED  BY <2>1, <2>2
<1>9. Again(arrived') = A \cup (IF p.number \in N THEN {k} ELSE {})
  <2>1. \A i \in DataRead(arrived) :
           (\E j \in 1 .. i - 1 : arrived'[j] = arrived'[i])
             <=> (\E j \in 1 .. i - 1 : arrived[j] = arrived[i])
    BY <1>2, <1>3, <1>6
  <2>2. (\E j \in 1 .. k - 1 : arrived'[j] = arrived'[k])
          <=> (\E j \in 1 .. Len(arrived) : arrived[j] = p)
    BY <1>2, <1>3
  <2> DEFINE yes == p.number \in N
  <2>3. yes <=> \E j \in 1 .. k - 1 : arrived'[j] = arrived'[k]
    BY <1>8, <2>2
  <2> HIDE DEF k, N, yes, A
  <2>4. \A i : i \in Again(arrived') <=> i \in A \/ (i = k /\ yes)
    <3>1. k \notin DataRead(arrived)
      BY <1>3, <1>6
    <3> QED  BY <1>6, <2>1, <2>3, <3>1 DEF Again, A
  <2>5. Again(arrived') = A \cup (IF yes THEN {k} ELSE {})
    BY <2>4
  <2> QED  BY <2>5 DEF yes
<1>10. Cardinality(DataRecords(trace')) = Cardinality(D) + 1
  <2>1. n \notin D
    BY <1>1, <1>3
  <2>2. DataRecords(trace') = D \cup {n}
    OBVIOUS
  <2> HIDE DEF D, n
  <2> QED  BY <1>1, <2>1, <2>2, FS_AddElement
<1>11. /\ Cardinality(N) \in Nat /\ Cardinality(A) \in Nat
       /\ Cardinality(D) = Cardinality(N) + Cardinality(A)
  BY <1>1, FS_CardinalityType DEF RepeatInv
<1>12. k \notin A
  BY <1>3, <1>6 DEF Again
<1> HIDE DEF D, N, A, k
<1>13. CASE p.number \in N
  <2>1. Again(arrived') = A \cup {k} /\ Numbers(trace') = N
    BY <1>5, <1>9, <1>13
  <2>2. Cardinality(A \cup {k}) = Cardinality(A) + 1
    BY <1>1, <1>12, FS_AddElement
  <2>3. Cardinality(DataRecords(trace'))
          = Cardinality(Numbers(trace')) + Cardinality(Again(arrived'))
    BY ONLY <1>10, <1>11, <2>1, <2>2
  <2> QED  BY ONLY <1>5, <1>7, <2>3 DEF RepeatInv
<1>14. CASE p.number \notin N
  <2>1. Again(arrived') = A /\ Cardinality(N \cup {p.number}) = Cardinality(N) + 1
    BY <1>1, <1>9, <1>14, FS_AddElement
  <2>2. Cardinality(DataRecords(trace'))
          = Cardinality(Numbers(trace')) + Cardinality(Again(arrived'))
    BY ONLY <1>5, <1>10, <1>11, <2>1
  <2> QED  BY ONLY <1>5, <1>7, <2>2 DEF RepeatInv
<1> QED  BY <1>13, <1>14

LEMMA AppendedAt ==
    ASSUME NEW R, NEW t \in Seq(R), NEW x
    PROVE  \A j \in 1 .. Len(Append(t, x)) :
              (j \in 1 .. Len(t) /\ Append(t, x)[j] = t[j]) \/ Append(t, x)[j] = x
<1>1. t \in Seq(R \cup {x})
  OBVIOUS
<1> QED  BY <1>1

LEMMA KindsOfPosts ==
    ASSUME DownloadTraffic, Known, KindsInv, ClientSends \/ ServerSends \/ StrayVictimReplies
    PROVE  KindsInv'
<1>1. PICK s, from, packet :
        Post(s, from, packet) /\ (s \notin 101 .. 199 => packet.kind # "DATA")
  <2>1. CASE ClientSends
    BY <2>1 DEF ClientSends, DownloadTraffic
  <2>2. CASE ServerSends
    <3>1. PICK h \in Handlers, i \in 1 .. SessionCount, packet \in ServerPackets :
            Post(SessionSocket(i), h, packet)
      BY <2>2 DEF ServerSends
    <3>2. SessionSocket(i) \in 101 .. 199
      BY SocketNumbers DEF Known, TypeInv
    <3> QED  BY <3>1, <3>2
  <2>3. CASE StrayVictimReplies
    <3>1. PICK s \in sent, packet \in StrayReplyPackets : Post(s.socket, s.destination, packet)
      BY <2>3 DEF StrayVictimReplies
    <3> QED  BY <3>1 DEF DownloadTraffic
  <2> QED  BY <2>1, <2>2, <2>3
<1> DEFINE m == [from |-> from, packet |-> packet]
           q == Append(inbox[s], m)
<1>2. inbox' = [inbox EXCEPT ![s] = q] /\ inbox \in [Sockets -> Seq(Message)]
  BY <1>1 DEF Post, Known, TypeInv, BoxesInv
<1>3. m.packet = packet
  OBVIOUS
<1> HIDE DEF m
<1> SUFFICES ASSUME NEW t \in Sockets, t \notin 101 .. 199, NEW i \in 1 .. Len(inbox'[t])
             PROVE  inbox'[t][i].packet.kind # "DATA"
  BY DEF KindsInv
<1>4. CASE t = s
  <2>1. inbox[s] \in Seq(Message)
    BY <1>2, <1>4
  <2>3. \A j \in 1 .. Len(q) : (j \in 1 .. Len(inbox[s]) /\ q[j] = inbox[s][j]) \/ q[j] = m
    BY <2>1, AppendedAt
  <2> HIDE DEF q
  <2>4. inbox'[t] = q
    BY <1>2, <1>4
  <2>5. (i \in 1 .. Len(inbox[s]) /\ q[i] = inbox[s][i]) \/ q[i] = m
    BY <2>3, <2>4
  <2> QED  BY <1>1, <1>3, <1>4, <2>4, <2>5 DEF KindsInv
<1>5. CASE t # s
  <2>1. inbox'[t] = inbox[t]
    BY <1>2, <1>5
  <2> QED  BY <2>1 DEF KindsInv
<1> QED  BY <1>4, <1>5

LEMMA KindsOfReads ==
    ASSUME Known, KindsInv, NEW s, Reads(s)
    PROVE  /\ KindsInv' /\ s \in Sockets
           /\ arrived' = Append(arrived, Head(inbox[s]).packet)
           /\ s \notin 101 .. 199 => Head(inbox[s]).packet.kind # "DATA"
<1> DEFINE q == Tail(inbox[s])
<1>1. /\ s \in Sockets /\ inbox[s] \in Seq(Message) /\ inbox[s] # <<>>
      /\ inbox \in [Sockets -> Seq(Message)]
  BY ReadTyped DEF Known, TypeInv, BoxesInv
<1>2. inbox' = [inbox EXCEPT ![s] = q] /\ arrived' = Append(arrived, Head(inbox[s]).packet)
  BY DEF Reads
<1>3. /\ Head(inbox[s]) = inbox[s][1] /\ 1 \in 1 .. Len(inbox[s])
      /\ \A i \in 1 .. Len(q) : i + 1 \in 1 .. Len(inbox[s]) /\ q[i] = inbox[s][i + 1]
  BY <1>1
<1> HIDE DEF q
<1>4. KindsInv'
  <2> SUFFICES ASSUME NEW t \in Sockets, t \notin 101 .. 199, NEW i \in 1 .. Len(inbox'[t])
               PROVE  inbox'[t][i].packet.kind # "DATA"
    BY DEF KindsInv
  <2>1. CASE t = s
    <3>1. inbox'[t] = q
      BY <1>1, <1>2, <2>1
    <3> QED  BY <1>3, <2>1, <3>1 DEF KindsInv
  <2>2. CASE t # s
    <3>1. inbox'[t] = inbox[t]
      BY <1>1, <1>2, <2>2
    <3> QED  BY <3>1 DEF KindsInv
  <2> QED  BY <2>1, <2>2
<1>5. s \notin 101 .. 199 => Head(inbox[s]).packet.kind # "DATA"
  BY <1>1, <1>3 DEF KindsInv
<1> QED  BY <1>1, <1>2, <1>4, <1>5

(* Which of the records that are added is one of DATA to the client.       *)
LEMMA AddedData ==
    ASSUME Known, IsSequence(trace'), NEW i, NEW session, NEW direction, NEW message,
           AddsRecord(i, session, direction, message)
    PROVE  /\ trace'[Len(trace) + 1].packet = message.packet
           /\ \A j \in 1 .. Len(trace) : trace'[j] = trace[j]
           /\ DataRecords(trace') =
                DataRecords(trace)
                \cup (IF direction = "ServerToClient" /\ message.packet.kind = "DATA"
                      THEN {Len(trace) + 1} ELSE {})
<1> DEFINE n == Len(trace)
<1>1. PICK r : trace'[n + 1] = RecordOf(i, session, direction, message, r)
  BY DEF AddsRecord
<1>2. trace'[n + 1].packet = message.packet /\ trace'[n + 1].direction = direction
  BY <1>1 DEF RecordOf
<1>3. /\ n \in Nat /\ Len(trace') \in {n + 1, n + 2} /\ IsPeerSend(trace'[n + 1])
      /\ \A j \in 1 .. n : trace'[j] = trace[j]
      /\ Len(trace') = n + 2 => ~IsPeerSend(trace'[n + 2])
      /\ DOMAIN trace = 1 .. n /\ DOMAIN trace' = 1 .. Len(trace')
  BY TraceBasics, ReadIsFinite DEF AddsRecord, IsPeerSend, Known, ShapeInv
<1>4. /\ \A j \in 1 .. Len(trace') : \/ j \in 1 .. n \/ j = n + 1
                                     \/ (j = n + 2 /\ Len(trace') = n + 2)
      /\ \A j \in 1 .. n : j \in 1 .. Len(trace')
      /\ n + 1 \in 1 .. Len(trace')
  <2> DEFINE m == Len(trace')
  <2>1. n \in Nat /\ m \in {n + 1, n + 2}
    BY <1>3
  <2> HIDE DEF n, m
  <2>2. /\ \A j \in 1 .. m : j \in 1 .. n \/ j = n + 1 \/ (j = n + 2 /\ m = n + 2)
        /\ \A j \in 1 .. n : j \in 1 .. m
        /\ n + 1 \in 1 .. m
    BY ONLY <2>1
  <2> QED  BY <2>2 DEF m
<1> HIDE DEF n
<1>5. \A j : j \in DataRecords(trace') <=>
               \/ j \in DataRecords(trace)
               \/ j = n + 1 /\ direction = "ServerToClient" /\ message.packet.kind = "DATA"
  BY <1>2, <1>3, <1>4 DEF DataRecords, PeerSends
<1> QED  BY <1>2, <1>3, <1>5 DEF n

LEMMA RelayRepeats ==
    ASSUME DownloadTraffic, Known, Known', RepeatInv, KindsInv, NEW s, Reads(s),
           NEW i, NEW session, NEW direction,
           direction = "ClientToServer" => s \notin 101 .. 199,
           direction \in {"ClientToServer", "ServerToClient"},
           Relays(i, session, direction, Head(inbox[s]))
    PROVE  RepeatInv'
<1> DEFINE message == Head(inbox[s])
           p == message.packet
<1>1. IsSequence(trace) /\ IsSequence(trace')
  BY DEF Known, ShapeInv
<1>2. AddsRecord(i, session, direction, message)
  BY <1>1, RelaysRecords
<1>3. /\ arrived' = Append(arrived, p)
      /\ s \notin 101 .. 199 => p.kind # "DATA"
  BY KindsOfReads
<1>4. message \in Message
  BY ReadTyped DEF Known
<1> HIDE DEF message
<1>5. /\ trace'[Len(trace) + 1].packet = p
      /\ \A j \in 1 .. Len(trace) : trace'[j] = trace[j]
      /\ DataRecords(trace') =
           DataRecords(trace) \cup (IF direction = "ServerToClient" /\ p.kind = "DATA"
                                    THEN {Len(trace) + 1} ELSE {})
  BY <1>1, <1>2, AddedData
<1>6. CASE p.kind = "DATA"
  <2>1. p \in ServerPackets
    BY <1>4, <1>6 DEF Message, Packets, DownloadTraffic
  <2>2. DataRecords(trace') = DataRecords(trace) \cup {Len(trace) + 1}
    BY <1>3, <1>5, <1>6
  <2> HIDE DEF p
  <2> QED  BY <1>3, <1>5, <1>6, <2>1, <2>2, DataIsRead
<1>7. CASE p.kind # "DATA"
  <2>1. DataRecords(trace') = DataRecords(trace)
    BY <1>5, <1>7
  <2> HIDE DEF p
  <2> QED  BY <1>3, <1>5, <1>7, <2>1, OtherRead
<1> QED  BY <1>6, <1>7

LEMMA StrayReplyRepeats ==
    ASSUME Known, Known', RepeatInv, KindsInv, HandleStrayReply
    PROVE  RepeatInv' /\ KindsInv'
<1>1. PICK k, reply :
        /\ k \in 1 .. strays
        /\ Reads(StraySocket(k)) /\ trace' = Append(trace, reply)
        /\ reply.disposition = "Injected"
  <2>1. PICK k \in 1 .. strays :
          /\ Reads(StraySocket(k))
          /\ LET message == Head(inbox[StraySocket(k)])
             IN  trace' = Append(trace,
                   [direction |-> "ClientToServer", session |-> 0,
                    from |-> message.from, source |-> message.from,
                    destination |-> StraySocket(k), packet |-> message.packet,
                    disposition |-> "Injected", duplicated |-> FALSE, reply |-> TRUE])
    BY Zenon DEF HandleStrayReply
  <2> DEFINE m == Head(inbox[StraySocket(k)])
             reply == [direction |-> "ClientToServer", session |-> 0,
                       from |-> m.from, source |-> m.from,
                       destination |-> StraySocket(k), packet |-> m.packet,
                       disposition |-> "Injected", duplicated |-> FALSE, reply |-> TRUE]
  <2>2. trace' = Append(trace, reply) /\ reply.disposition = "Injected"
    BY <2>1
  <2> HIDE DEF reply
  <2> QED  BY <2>1, <2>2
<1>2. StraySocket(k) \notin 101 .. 199
  BY <1>1 DEF StraySocket
<1>3. /\ KindsInv' /\ arrived' = Append(arrived, Head(inbox[StraySocket(k)]).packet)
      /\ Head(inbox[StraySocket(k)]).packet.kind # "DATA"
  BY <1>1, <1>2, KindsOfReads
<1>4. /\ Len(trace) \in Nat /\ Len(trace') = Len(trace) + 1
      /\ trace'[Len(trace) + 1] = reply
      /\ \A j \in 1 .. Len(trace) : trace'[j] = trace[j]
      /\ DOMAIN trace = 1 .. Len(trace) /\ DOMAIN trace' = 1 .. Len(trace) + 1
  BY <1>1, ExtendByOne, TraceBasics DEF Known, ShapeInv, Extends
<1>5. DataRecords(trace') = DataRecords(trace)
  <2>1. ~IsPeerSend(trace'[Len(trace) + 1])
    BY <1>1, <1>4 DEF IsPeerSend
  <2>2. \A j \in 1 .. Len(trace) + 1 : j \in 1 .. Len(trace) \/ j = Len(trace) + 1
    BY <1>4
  <2>3. \A j \in 1 .. Len(trace) : j \in 1 .. Len(trace) + 1
    BY <1>4
  <2> QED  BY <1>4, <2>1, <2>2, <2>3 DEF DataRecords, PeerSends
<1> QED  BY <1>3, <1>4, <1>5, OtherRead

LEMMA InitRepeats == Init => RepeatInv /\ KindsInv
<1> SUFFICES ASSUME Init  PROVE RepeatInv /\ KindsInv
  OBVIOUS
<1>1. trace = <<>> /\ arrived = <<>> /\ inbox = [s \in Sockets |-> <<>>]
  BY DEF Init
<1>2. DataRecords(trace) = {} /\ DataRead(arrived) = {}
  BY <1>1 DEF DataRecords, PeerSends, DataRead
<1>3. Numbers(trace) = {} /\ Again(arrived) = {}
  BY <1>2 DEF Numbers, Again
<1>4. Cardinality({}) = 0
  BY FS_EmptySet
<1>5. RepeatInv
  <2>1. {arrived[i].number : i \in DataRead(arrived)} = {}
    BY <1>2
  <2> QED  BY <1>2, <1>3, <1>4, <2>1 DEF RepeatInv
<1>6. KindsInv
  BY <1>1 DEF KindsInv
<1> QED  BY <1>5, <1>6

LEMMA NextRepeats ==
    DownloadTraffic /\ Known /\ Known' /\ RepeatInv /\ KindsInv /\ [Next]_vars
      => RepeatInv' /\ KindsInv'
<1> SUFFICES ASSUME DownloadTraffic, Known, Known', RepeatInv, KindsInv, [Next]_vars
             PROVE  RepeatInv' /\ KindsInv'
  OBVIOUS
<1>1. ASSUME UNCHANGED <<trace, arrived>>  PROVE RepeatInv'
  BY <1>1 DEF RepeatInv
<1>2. ASSUME UNCHANGED inbox  PROVE KindsInv'
  BY <1>2 DEF KindsInv
<1>3. CASE ClientSends \/ ServerSends \/ StrayVictimReplies
  <2>1. UNCHANGED <<trace, arrived>>
    BY <1>3 DEF ClientSends, ServerSends, StrayVictimReplies, Post, relayVars
  <2> QED  BY <1>1, <1>3, <2>1, KindsOfPosts
<1>4. CASE Flush \/ Select \/ FinalFlush \/ Stop \/ Tick \/ Stopped \/ UNCHANGED vars
  <2>1. UNCHANGED <<inbox, trace, arrived>>
    BY <1>4 DEF Flush, Select, FinalFlush, Stop, Tick, Stopped, vars, relayVars
  <2> QED  BY <1>1, <1>2, <2>1
<1>5. CASE RefuseClientDatagram
  <2>1. Reads(Listen) /\ UNCHANGED trace
    BY <1>5 DEF RefuseClientDatagram
  <2>2. Listen \notin 101 .. 199
    BY DEF Listen
  <2>3. /\ KindsInv' /\ arrived' = Append(arrived, Head(inbox[Listen]).packet)
        /\ Head(inbox[Listen]).packet.kind # "DATA"
    BY <2>1, <2>2, KindsOfReads
  <2>4. DataRecords(trace') = DataRecords(trace)
    BY <2>1
  <2> QED  BY <2>1, <2>3, <2>4, OtherRead
<1>6. CASE HandleClientDatagram
  <2> DEFINE message == Head(inbox[Listen])
             i == SessionOf(message.from)
             session == IF i <= SessionCount THEN sessions[i]
                        ELSE [client |-> message.from, server |-> WellKnown,
                              locked |-> FALSE]
  <2>1. /\ Reads(Listen)
        /\ ObserveAndRelay(i, session, "ClientToServer", message,
                           SessionSocket(i), session.server)
    BY <1>6, Zenon DEF HandleClientDatagram
  <2>2. Relays(i, session, "ClientToServer", message)
    BY <2>1, Relayed DEF Known, ShapeInv
  <2>3. Listen \notin 101 .. 199
    BY DEF Listen
  <2> HIDE DEF i, session
  <2> QED  BY <2>1, <2>2, <2>3, RelayRepeats, KindsOfReads
<1>7. CASE HandleServerDatagram
  <2>1. PICK i \in 1 .. SessionCount :
          /\ Reads(SessionSocket(i))
          /\ LET message == Head(inbox[SessionSocket(i)])
                 session == LockTid(sessions[i], message.from)
             IN  ObserveAndRelay(i, session, "ServerToClient", message,
                                 Listen, session.client)
    BY <1>7, Zenon DEF HandleServerDatagram
  <2> DEFINE message == Head(inbox[SessionSocket(i)])
             session == LockTid(sessions[i], message.from)
  <2>2. Relays(i, session, "ServerToClient", message)
    BY <2>1, Relayed DEF Known, ShapeInv
  <2> HIDE DEF session
  <2> QED  BY <2>1, <2>2, RelayRepeats, KindsOfReads
<1>8. CASE HandleStrayReply
  BY <1>8, StrayReplyRepeats
<1> QED  BY <1>3, <1>4, <1>5, <1>6, <1>7, <1>8 DEF Next, RelayLoop

(* In a download, what the observer counts as retransmitted is how often   *)
(* the server sent a DATA packet again, and how many of its block numbers  *)
(* wrapped around to one used before: neither the copies the proxy makes   *)
(* of a datagram nor the packets its script injects are counted, and the   *)
(* datagrams it drops or corrupts are.                                     *)
THEOREM RetransmissionsAreCounted ==
    DownloadTraffic /\ Spec => []RetransmissionsAreThePeers
<1> SUFFICES ASSUME DownloadTraffic
             PROVE  Spec => []RetransmissionsAreThePeers
  OBVIOUS
<1>1. ASSUME Known, RepeatInv  PROVE RetransmissionsAreThePeers
  <2> DEFINE read == {i \in DOMAIN arrived : arrived[i].kind = "DATA"}
             again == {i \in read : \E j \in 1 .. i - 1 : arrived[j] = arrived[i]}
             numbers == {arrived[i].number : i \in read}
             onTheWire == {x % Modulus : x \in numbers}
             data == PeerSends(trace, DataDirection("Download"), {"DATA"})
             blocks == {Wire(trace[i]) : i \in data}
  <2>1. /\ IsFiniteSet(DataRecords(trace)) /\ IsFiniteSet(Numbers(trace))
        /\ IsFiniteSet(Again(arrived)) /\ DOMAIN arrived = 1 .. Len(arrived)
    BY <1>1, ReadIsFinite
  <2>2. Observe(trace, "Download", 2).retransmitted = Cardinality(data) - Cardinality(blocks)
    BY DEF Observe
  <2>3. data = DataRecords(trace)
    BY DEF DataDirection, DataRecords
  <2>4. read = DataRead(arrived)
    BY <2>1 DEF DataRead
  <2>5. again = Again(arrived)
    BY <2>4 DEF Again
  <2>6. numbers = Numbers(trace)
    BY <1>1, <2>4 DEF RepeatInv
  <2>7. blocks = {x % Modulus : x \in Numbers(trace)}
    BY <2>3 DEF Wire, Numbers
  <2>8. onTheWire = blocks
    BY <2>6, <2>7
  <2>9. IsFiniteSet(blocks)
    <3> DEFINE f == [x \in Numbers(trace) |-> x % Modulus]
    <3>1. f \in Surjection(Numbers(trace), blocks)
      BY <2>7 DEF Surjection
    <3> HIDE DEF f, blocks
    <3> QED  BY <2>1, <3>1, FS_Surjection
  <2>10. RetransmissionsAreThePeers <=>
           Observe(trace, "Download", 2).retransmitted =
             Cardinality(again) + (Cardinality(numbers) - Cardinality(onTheWire))
    BY Zenon DEF RetransmissionsAreThePeers
  <2> HIDE DEF again, data, blocks, numbers, onTheWire
  <2>11. /\ Cardinality(Numbers(trace)) \in Nat /\ Cardinality(Again(arrived)) \in Nat
         /\ Cardinality(blocks) \in Nat
    BY <2>1, <2>9, FS_CardinalityType
  <2>12. Cardinality(data) = Cardinality(Numbers(trace)) + Cardinality(Again(arrived))
    BY <1>1, <2>3 DEF RepeatInv
  <2> QED  BY <2>2, <2>5, <2>6, <2>8, <2>10, <2>11, <2>12
<1>2. Init => Known
  <2>1. Init => ShapeInv
    BY InitTrace DEF TraceInv
  <2> QED  BY <2>1, InitTyped, InitPeers DEF Known
<1>3. Known /\ Known' /\ RepeatInv /\ KindsInv /\ [Next]_vars => RepeatInv' /\ KindsInv'
  BY NextRepeats
<1> QED  BY <1>1, <1>2, <1>3, KnownIsKept, InitRepeats, PTL DEF Spec

-----------------------------------------------------------------------------
(* The token bucket.  Every datagram of a peer that is not dropped is charged  *)
(* to it, and is due when the bucket has paid for it.                      *)

(* Integer products, by a factor that stays opaque.                        *)
LEMMA Products ==
    ASSUME NEW r \in Nat \ {0}
    PROVE  /\ \A a \in Int : r * a \in Int
           /\ \A a, b \in Int : /\ r * (a + b) = r * a + r * b /\ r * (a - b) = r * a - r * b
                                /\ r * (a + 1) = r * a + r
                                /\ a <= b => r * a <= r * b
                                /\ r * a < r * b => a < b
           /\ \A a \in Nat : /\ a \div r \in Nat
                             /\ r * (a \div r) <= a /\ a < r * (a \div r) + r
<1>1. \A a \in Int : r * a \in Int
  OBVIOUS
<1>2. \A a, b \in Int : /\ r * (a + b) = r * a + r * b /\ r * (a - b) = r * a - r * b
                        /\ r * (a + 1) = r * a + r
  OBVIOUS
<1>3. \A a, b \in Int : a <= b => r * a <= r * b
  OBVIOUS
<1>4. \A a, b \in Int : r * a < r * b => a < b
  OBVIOUS
<1>5. \A a \in Nat : /\ a \div r \in Nat
                     /\ r * (a \div r) <= a /\ a < r * (a \div r) + r
  OBVIOUS
<1> QED  BY <1>1, <1>2, <1>3, <1>4, <1>5

(* What a charge does to the time, in bytes, that the bucket has paid for, *)
(* and when the datagram is due.                                           *)
ChargeOf(r, top, bucket, refilled, time, size, left, due) ==
    /\ r \in Nat \ {0} /\ top \in Nat /\ bucket \in Int /\ refilled \in Nat /\ time \in Nat
    /\ refilled <= time /\ size \in Nat
    /\ left = Smaller(bucket + (time - refilled) * r, r * top) - size
    /\ due = time + (IF left >= 0 THEN 0 ELSE (-left) \div r)

ChargeEffect(r, top, bucket, refilled, time, size, left, due) ==
    /\ left \in Int /\ due \in Nat /\ due >= time
    /\ r * time - left >= r * refilled - bucket + size
    /\ r * time - left - size >= r * time - r * top
    /\ r * time - left < r * due + r
    /\ due = time \/ r * due <= r * time - left

LEMMA ChargeStep ==
    ASSUME NEW r, NEW top, NEW bucket, NEW refilled, NEW time, NEW size, NEW left, NEW due,
           ChargeOf(r, top, bucket, refilled, time, size, left, due)
    PROVE  ChargeEffect(r, top, bucket, refilled, time, size, left, due)
<1> USE DEF ChargeOf, ChargeEffect
<1> DEFINE now0 == r * time
           was == r * refilled
           full == r * top
<1>1. (time - refilled) * r = now0 - was /\ now0 \in Int /\ was \in Int /\ full \in Int
  <2>1. (time - refilled) * r = r * (time - refilled)
    OBVIOUS
  <2> QED  BY <2>1, Products
<1> HIDE DEF now0, was, full
<1>2. left \in Int /\ left <= bucket + now0 - was - size /\ left <= full - size
  BY <1>1 DEF Smaller, full
<1>3. CASE left >= 0
  <2>1. due = time /\ r * due = now0
    BY <1>3 DEF now0
  <2> QED  BY <1>1, <1>2, <1>3, <2>1 DEF now0, was, full
<1>4. CASE ~(left >= 0)
  <2> DEFINE q == (-left) \div r
             p == r * q
  <2>1. -left \in Nat
    BY <1>2, <1>4
  <2>2. q \in Nat /\ p <= -left /\ -left < p + r /\ p \in Int
    BY <2>1, Products
  <2>3. due = time + q
    BY <1>4
  <2> HIDE DEF q
  <2>4. r * due = now0 + p
    BY <2>2, <2>3, Products DEF now0
  <2> HIDE DEF p
  <2> QED  BY <1>1, <1>2, <2>2, <2>3, <2>4 DEF now0, was, full
<1> QED  BY <1>3, <1>4

(* The bytes of the sends in T, by what the trace t says of them.          *)
Sizes(t, T) == [s \in T |-> t[s.id].packet.size]
Load(t, T) == Total(Sizes(t, T), T)

LEMMA LoadOfNothing ==
    ASSUME NEW t
    PROVE  Load(t, {}) = 0
<1>1. Sizes(t, {}) \in [{} -> Nat]
  BY DEF Sizes
<1> QED  BY <1>1, TotalOfNothing DEF Load

LEMMA LoadOfOneMore ==
    ASSUME NEW t, NEW longer, NEW T, IsFiniteSet(T), NEW x, x \notin T,
           \A s \in T : t[s.id].packet.size \in Nat /\ longer[s.id] = t[s.id],
           longer[x.id].packet.size \in Nat
    PROVE  Load(longer, T \cup {x}) = Load(t, T) + longer[x.id].packet.size
<1> DEFINE f == Sizes(t, T)
           g == Sizes(longer, T \cup {x})
<1>1. f \in [T -> Nat] /\ g \in [T \cup {x} -> Nat] /\ g[x] = longer[x.id].packet.size
  BY DEF Sizes
<1>2. \A y \in T : g[y] = f[y]
  BY DEF Sizes
<1> HIDE DEF f, g
<1>3. Total(g, T \cup {x}) = Total(f, T) + g[x]
  BY <1>1, <1>2, TotalOfOneMore
<1> QED  BY <1>1, <1>3 DEF Load, f, g

LEMMA LoadOfTheSame ==
    ASSUME NEW t, NEW longer, NEW T, \A s \in T : longer[s.id] = t[s.id]
    PROVE  Load(longer, T) = Load(t, T)
<1>1. Sizes(longer, T) = Sizes(t, T)
  BY DEF Sizes
<1> QED  BY <1>1 DEF Load

LEMMA LoadIsNatural ==
    ASSUME NEW t, NEW T, IsFiniteSet(T), \A s \in T : t[s.id].packet.size \in Nat
    PROVE  Load(t, T) \in Nat
<1>1. Sizes(t, T) \in [T -> Nat]
  BY DEF Sizes
<1> QED  BY <1>1, TotalExists DEF Load

(* Load is the sum that the property takes.                                *)
SizeOf(s) == trace[s.id].packet.size

LEMMA LoadIsTheSum ==
    ASSUME NEW T, IsFiniteSet(T), \A s \in T : SizeOf(s) \in Nat
    PROVE  MapThenSumSet(SizeOf, T) = Load(trace, T)
<1> DEFINE f == Sizes(trace, T)
           n == Cardinality(T)
           Equation(h) == h = [V \in SUBSET T |->
                                 IF V = {} THEN 0
                                 ELSE LET x == CHOOSE x \in V : TRUE
                                      IN  SizeOf(x) + h[V \ {x}]]
<1>1. MapThenSumSet(SizeOf, T) = (CHOOSE h : Equation(h))[T]
  BY Zenon DEF MapThenSumSet, MapThenFoldSet
<1>2. ASSUME NEW h  PROVE Equation(h) <=> IsSum(T, n, f, h)
  <2> DEFINE F(V) == SumOf(f, h, V)
             G(V) == IF V = {} THEN 0
                     ELSE LET x == CHOOSE x \in V : TRUE IN SizeOf(x) + h[V \ {x}]
  <2>1. Small(T, n) = SUBSET T
    BY SmallSets
  <2>2. \A V \in SUBSET T : F(V) = G(V)
    BY DEF SumOf, Sizes, SizeOf
  <2>3. Equation(h) <=> h = [V \in SUBSET T |-> G(V)]
    OBVIOUS
  <2>4. IsSum(T, n, f, h) <=> h = [V \in SUBSET T |-> F(V)]
    BY <2>1 DEF IsSum
  <2> HIDE DEF F, G, Equation, f, n
  <2> QED  BY <2>2, <2>3, <2>4
<1>3. f \in [T -> Nat] /\ n \in Nat
  BY SmallSets DEF Sizes, SizeOf
<1>4. \E h : IsSum(T, n, f, h)
  <2> HIDE DEF n, f
  <2> QED  BY <1>3, SumExists
<1> HIDE DEF Equation, f
<1>5. Equation(CHOOSE h : Equation(h))
  BY <1>2, <1>4
<1>6. IsTotal(f, T, MapThenSumSet(SizeOf, T))
  BY <1>1, <1>2, <1>5 DEF IsTotal
<1> QED  BY <1>3, <1>6, TotalExists DEF Load, f

-----------------------------------------------------------------------------
(* What was charged to the bucket: the originals of what the peers sent.   *)
Rate == config.impairment.throttle
Top == Rate * TicksPerSecond
Charged == {s \in Sends : s.copy = 0 /\ IsPeerSend(trace[s.id])}
DueFrom(d) == {s \in Charged : s.deadline >= d}
DueBetween(d, e) == {s \in Charged : s.deadline \in d .. e}

(* When a send would be due without the fixed delay, and what the bucket   *)
(* has let through, in bytes since the beginning.                          *)
Undelayed(s) == s.deadline - config.impairment.fixedDelay
Spent == Rate * pipeline.refilled - pipeline.bucket

IsBurst(b) == b \in Nat /\ Top <= b /\ \A s \in Charged : SizeOf(s) <= b

ChargedInv ==
    /\ IsFiniteSet(Charged) /\ Spent >= 0
    /\ \A s \in Charged : s.deadline \in Nat /\ SizeOf(s) \in Nat /\ SizeOf(s) <= Spent

(* Nothing is due later than the next datagram will be.                    *)
OrderInv ==
    /\ pipeline.refilled <= now
    /\ \A s \in Charged : Undelayed(s) <= now \/ Rate * Undelayed(s) <= Spent

(* What is due from a moment on was let through since.                     *)
TailInv ==
    \A b : IsBurst(b) =>
        \A s \in Charged : Load(trace, DueFrom(s.deadline)) <= Spent - Rate * Undelayed(s) + b

(* What is due in an interval is within the rate and a burst.              *)
PaceInv ==
    \A b : IsBurst(b) =>
        \A s, u \in Charged : s.deadline <= u.deadline =>
            Load(trace, DueBetween(s.deadline, u.deadline))
                <= b + Rate * (u.deadline - s.deadline + 1)

BucketInv == ChargedInv /\ OrderInv /\ TailInv /\ PaceInv

(* A step that charges nothing.                                            *)
ChargesNothing ==
    /\ UNCHANGED config /\ Charged' = Charged /\ now' >= now
    /\ \A s \in Charged : trace'[s.id] = trace[s.id]
    /\ pipeline'.bucket = pipeline.bucket /\ pipeline'.refilled = pipeline.refilled

(* The types the arithmetic of the bucket needs.                           *)
Typed ==
    /\ Rate \in Nat \ {0} /\ TicksPerSecond \in Nat /\ config.impairment.fixedDelay \in Nat
    /\ pipeline.bucket \in Int /\ pipeline.refilled \in Nat /\ now \in Nat /\ now' \in Nat

LEMMA NothingCharged ==
    ASSUME Typed, BucketInv, ChargesNothing
    PROVE  BucketInv'
<1>1. Spent' = Spent /\ Rate' = Rate /\ Top' = Top
  BY DEF ChargesNothing, Spent, Rate, Top
<1>2. \A s \in Charged : SizeOf(s)' = SizeOf(s) /\ Undelayed(s)' = Undelayed(s)
  BY DEF ChargesNothing, SizeOf, Undelayed
<1>3. \A b : IsBurst(b)' <=> IsBurst(b)
  BY <1>1, <1>2 DEF ChargesNothing, IsBurst
<1>4. /\ \A d : DueFrom(d)' = DueFrom(d)
      /\ \A d, e : DueBetween(d, e)' = DueBetween(d, e)
  BY DEF ChargesNothing, DueFrom, DueBetween
<1>5. \A T \in SUBSET Charged : Load(trace', T) = Load(trace, T)
  BY LoadOfTheSame DEF ChargesNothing
<1>6. ChargedInv'
  BY <1>1, <1>2 DEF BucketInv, ChargedInv, ChargesNothing
<1>7. OrderInv'
  <2>1. \A s \in Charged : Undelayed(s) \in Int
    BY DEF Typed, BucketInv, ChargedInv, Undelayed
  <2> QED  BY <1>1, <1>2, <2>1 DEF BucketInv, OrderInv, ChargesNothing, Typed
<1>8. TailInv'
  <2>1. \A d : DueFrom(d) \in SUBSET Charged
    BY DEF DueFrom
  <2> QED  BY <1>1, <1>2, <1>3, <1>4, <1>5, <2>1 DEF BucketInv, TailInv, ChargesNothing
<1>9. PaceInv'
  <2>1. \A d, e : DueBetween(d, e) \in SUBSET Charged
    BY DEF DueBetween
  <2> QED  BY <1>1, <1>2, <1>3, <1>4, <1>5, <2>1 DEF BucketInv, PaceInv, ChargesNothing
<1> QED  BY <1>6, <1>7, <1>8, <1>9 DEF BucketInv

(* A step that charges one datagram.                                       *)
Charges(x, size) ==
    /\ UNCHANGED <<config, now>> /\ size \in Nat
    /\ Charged' = Charged \cup {x} /\ x \notin Charged
    /\ \A s \in Charged : trace'[s.id] = trace[s.id]
    /\ trace'[x.id].packet.size = size
    /\ pipeline'.bucket = ChargedBucket(config.impairment, pipeline, size, now)
    /\ pipeline'.refilled = now
    /\ x.deadline = now + config.impairment.fixedDelay
                      + ThrottleDelay(config.impairment, pipeline'.bucket)

(* What the charge does to the bucket.                                     *)
Moved(x, size) ==
    /\ Spent \in Int /\ Spent' \in Int /\ Top \in Nat
    /\ Undelayed(x) \in Nat /\ Undelayed(x) >= now
    /\ Spent' >= Spent + size /\ Spent' - size >= Rate * now - Top
    /\ Spent' < Rate * Undelayed(x) + Rate
    /\ Undelayed(x) = now \/ Rate * Undelayed(x) <= Spent'

LEMMA ChargeMoves ==
    ASSUME Typed, OrderInv, NEW x, NEW size, Charges(x, size)
    PROVE  Moved(x, size) /\ x.deadline \in Nat
<1> DEFINE left == pipeline'.bucket
           wait == IF left >= 0 THEN 0 ELSE (-left) \div Rate
           due == now + wait
           fixed == config.impairment.fixedDelay
<1>1. /\ Rate \in Nat \ {0} /\ TicksPerSecond \in Nat /\ fixed \in Nat
      /\ pipeline.bucket \in Int /\ pipeline.refilled \in Nat /\ now \in Nat
      /\ pipeline.refilled <= now /\ size \in Nat
  BY DEF Typed, OrderInv, Charges
<1>2. left = Smaller(pipeline.bucket + (now - pipeline.refilled) * Rate, Rate * TicksPerSecond)
               - size
  BY DEF Charges, ChargedBucket, Rate
<1>3. ChargeOf(Rate, TicksPerSecond, pipeline.bucket, pipeline.refilled, now, size, left, due)
  BY <1>1, <1>2 DEF ChargeOf
<1>4. ChargeEffect(Rate, TicksPerSecond, pipeline.bucket, pipeline.refilled, now, size, left, due)
  BY <1>3, ChargeStep
<1>5. wait \in Int
  <2>1. ~(left >= 0) => -left \in Nat
    BY <1>4 DEF ChargeEffect
  <2> HIDE DEF left
  <2> QED  BY <1>1, <2>1, Products
<1>6. x.deadline = now + fixed + wait
  BY <1>1 DEF Charges, ThrottleDelay, Rate
<1> HIDE DEF left, wait, fixed
<1>7. x.deadline = due + fixed /\ due \in Nat
  BY <1>1, <1>4, <1>5, <1>6 DEF ChargeEffect
<1>8. Undelayed(x) = due /\ x.deadline \in Nat
  BY <1>1, <1>7 DEF Undelayed, fixed
<1>9. Spent' = Rate * now - left
  BY DEF Spent, Charges, Rate, left
<1>10. Rate * now \in Int /\ Rate * pipeline.refilled \in Int /\ Rate * TicksPerSecond \in Nat
  BY <1>1, Products
<1> HIDE DEF due
<1> QED  BY <1>1, <1>4, <1>8, <1>9, <1>10 DEF Moved, Spent, Top, ChargeEffect

LEMMA OneCharged ==
    ASSUME Typed, BucketInv, NEW x, NEW size, Charges(x, size)
    PROVE  BucketInv'
<1> DEFINE fixed == config.impairment.fixedDelay
<1>1. Moved(x, size) /\ x.deadline \in Nat
  BY ChargeMoves DEF BucketInv
<1>2. /\ Rate' = Rate /\ Top' = Top /\ now' = now /\ fixed' = fixed /\ fixed \in Nat
      /\ Rate \in Nat \ {0} /\ size \in Nat /\ now \in Nat
  BY DEF Charges, Rate, Top, Typed
<1>3. /\ \A s \in Charged : SizeOf(s)' = SizeOf(s) /\ SizeOf(s) \in Nat /\ s.deadline \in Nat
      /\ SizeOf(x)' = size /\ x.deadline \in Nat
      /\ IsFiniteSet(Charged) /\ IsFiniteSet(Charged')
      /\ x \notin Charged /\ Charged' = Charged \cup {x}
  BY <1>1, FS_AddElement DEF Charges, SizeOf, BucketInv, ChargedInv
<1>4. \A s \in Charged' : Undelayed(s)' = Undelayed(s) /\ Undelayed(s) = s.deadline - fixed
                          /\ Undelayed(s) \in Int
  BY <1>2, <1>3 DEF Undelayed
<1>5. /\ Spent' \in Int /\ Spent \in Int /\ Spent' >= Spent + size /\ Spent >= 0
      /\ Undelayed(x) \in Nat /\ Undelayed(x) >= now /\ Top \in Nat
  BY <1>1 DEF Moved, BucketInv, ChargedInv
<1>6. ASSUME NEW T \in SUBSET Charged
      PROVE  /\ IsFiniteSet(T) /\ x \notin T
             /\ Load(trace, T) \in Nat /\ Load(trace', T) = Load(trace, T)
             /\ Load(trace', T \cup {x}) = Load(trace, T) + size
  <2>1. IsFiniteSet(T) /\ x \notin T
    BY <1>3, FS_Subset
  <2>2. \A s \in T : trace[s.id].packet.size \in Nat /\ trace'[s.id] = trace[s.id]
    BY <1>3 DEF SizeOf, Charges
  <2>3. trace'[x.id].packet.size = size /\ size \in Nat
    BY DEF Charges
  <2>4. Load(trace, T) \in Nat
    BY <2>1, <2>2, LoadIsNatural
  <2>5. Load(trace', T) = Load(trace, T)
    BY <2>2, LoadOfTheSame
  <2>6. Load(trace', T \cup {x}) = Load(trace, T) + trace'[x.id].packet.size
    BY <2>1, <2>2, <2>3, LoadOfOneMore
  <2> QED  BY <2>1, <2>3, <2>4, <2>5, <2>6
<1>7. \A s \in Charged : Undelayed(s) <= Undelayed(x) /\ s.deadline <= x.deadline
  <2> SUFFICES ASSUME NEW s \in Charged  PROVE Undelayed(s) <= Undelayed(x)
    <3> HIDE DEF fixed
    <3> QED  BY <1>2, <1>3, <1>4
  <2>1. Undelayed(s) \in Int /\ Undelayed(x) \in Int
    BY <1>3, <1>4, <1>5
  <2>2. CASE Undelayed(s) <= now
    BY <1>2, <1>5, <2>1, <2>2
  <2>3. CASE Rate * Undelayed(s) <= Spent
    <3>1. Rate * Undelayed(s) < Rate * Undelayed(x) + Rate
      <4>1. Rate * Undelayed(s) \in Int /\ Rate * Undelayed(x) \in Int
        BY <1>2, <2>1, Products
      <4>2. Spent' < Rate * Undelayed(x) + Rate
        BY <1>1 DEF Moved
      <4> QED  BY <1>2, <1>5, <2>3, <4>1, <4>2
    <3>2. Rate * Undelayed(x) + Rate = Rate * (Undelayed(x) + 1)
      BY <1>2, <2>1, Products
    <3>3. Undelayed(s) < Undelayed(x) + 1
      BY <1>2, <2>1, <3>1, <3>2, Products
    <3> QED  BY <2>1, <3>3
  <2> QED  BY <2>2, <2>3 DEF BucketInv, OrderInv
<1> HIDE DEF fixed
<1>8. ChargedInv'
  <2>1. ASSUME NEW s \in Charged
        PROVE  s.deadline \in Nat /\ SizeOf(s)' \in Nat /\ SizeOf(s)' <= Spent'
    BY <1>2, <1>3, <1>5 DEF BucketInv, ChargedInv
  <2> QED  BY <1>2, <1>3, <1>5, <2>1 DEF ChargedInv
<1>9. OrderInv'
  <2>1. pipeline'.refilled = now
    BY DEF Charges
  <2>2. ASSUME NEW s \in Charged  PROVE Undelayed(s) <= now \/ Rate * Undelayed(s) <= Spent'
    <3>1. Rate * Undelayed(s) \in Int
      BY <1>2, <1>3, <1>4, Products
    <3> QED  BY <1>2, <1>5, <3>1 DEF BucketInv, OrderInv
  <2>3. Undelayed(x) <= now \/ Rate * Undelayed(x) <= Spent'
    BY <1>1, <1>2 DEF Moved
  <2> QED  BY <1>2, <1>3, <1>4, <2>1, <2>2, <2>3 DEF OrderInv
<1>10. ASSUME NEW b, IsBurst(b)'
       PROVE  IsBurst(b) /\ b \in Nat /\ Top <= b /\ size <= b
  BY <1>2, <1>3, <1>10 DEF IsBurst
<1>11. ASSUME NEW s \in Charged
       PROVE  /\ DueFrom(s.deadline) \in SUBSET Charged
              /\ DueFrom(s.deadline)' = DueFrom(s.deadline) \cup {x}
  BY <1>3, <1>7 DEF DueFrom
<1>12. ASSUME NEW b, IsBurst(b)', NEW s \in Charged
       PROVE  Load(trace', DueFrom(s.deadline)') <= Spent' - Rate * Undelayed(s) + b
  <2> DEFINE old == Load(trace, DueFrom(s.deadline))
             new == Load(trace', DueFrom(s.deadline)')
             product == Rate * Undelayed(s)
  <2>1. old <= Spent - product + b
    BY <1>10, <1>12 DEF BucketInv, TailInv
  <2>2. new = old + size /\ old \in Nat
    BY <1>6, <1>11
  <2>3. product \in Int
    BY <1>2, <1>3, <1>4, Products
  <2> HIDE DEF old, new, product
  <2>4. new <= Spent' - product + b
    BY <1>2, <1>5, <1>10, <1>12, <2>1, <2>2, <2>3
  <2> QED  BY <2>4 DEF new, product
<1>13. ASSUME NEW b, IsBurst(b)'
       PROVE  Load(trace', DueFrom(x.deadline)') <= Spent' - Rate * Undelayed(x) + b
  <2>1. CASE \E s \in Charged : s.deadline = x.deadline
    <3>1. PICK s \in Charged : s.deadline = x.deadline
      BY <2>1
    <3>2. Undelayed(s) = Undelayed(x)
      BY <3>1 DEF Undelayed
    <3>3. Load(trace', DueFrom(s.deadline)') <= Spent' - Rate * Undelayed(s) + b
      BY <1>12, <1>13
    <3> QED  BY <3>1, <3>2, <3>3
  <2>2. CASE \A s \in Charged : s.deadline # x.deadline
    <3>1. DueFrom(x.deadline)' = {} \cup {x}
      BY <1>3, <1>7, <2>2 DEF DueFrom
    <3>2. Load(trace', DueFrom(x.deadline)') = Load(trace, {}) + size
      BY <1>6, <3>1
    <3>3. Load(trace', DueFrom(x.deadline)') = size
      BY <1>2, <3>2, LoadOfNothing
    <3> DEFINE product == Rate * Undelayed(x)
    <3>4. product \in Int /\ Rate * now \in Int
      BY <1>2, <1>5, Products
    <3>5. CASE Undelayed(x) = now
      <4>1. product = Rate * now
        BY <3>5
      <4>2. Spent' - size >= Rate * now - Top
        BY <1>1 DEF Moved
      <4> HIDE DEF product
      <4>3. size <= Spent' - product + b
        <5> DEFINE after == Spent'
        <5>1. /\ size \in Int /\ after \in Int /\ product \in Int /\ b \in Int /\ Top \in Int
              /\ Top <= b
          BY <1>2, <1>5, <1>10, <1>13, <3>4
        <5>2. after - size >= product - Top
          BY <4>1, <4>2
        <5> HIDE DEF after
        <5>3. size <= after - product + b
          BY ONLY <5>1, <5>2
        <5> QED  BY <5>3 DEF after
      <4> QED  BY <3>3, <4>3 DEF product
    <3>6. CASE product <= Spent'
      <4> HIDE DEF product
      <4>1. size <= Spent' - product + b
        BY <1>2, <1>5, <1>10, <1>13, <3>4, <3>6
      <4> QED  BY <3>3, <4>1 DEF product
    <3> QED  BY <1>1, <3>5, <3>6 DEF Moved
  <2> QED  BY <2>1, <2>2
<1>14. ASSUME NEW b, IsBurst(b)', NEW s \in Charged'
       PROVE  Load(trace', DueFrom(s.deadline)') <= Spent' - Rate * Undelayed(s) + b
  BY <1>3, <1>12, <1>13, <1>14
<1>15. TailInv'
  BY <1>2, <1>4, <1>14 DEF TailInv
<1>16. PaceInv'
  <2> SUFFICES ASSUME NEW b, IsBurst(b)', NEW s \in Charged', NEW u \in Charged',
                      s.deadline <= u.deadline
               PROVE  Load(trace', DueBetween(s.deadline, u.deadline)')
                        <= b + Rate * (u.deadline - s.deadline + 1)
    BY <1>2 DEF PaceInv
  <2>1. CASE u.deadline < x.deadline
    <3>1. s \in Charged /\ u \in Charged
      BY <1>3, <2>1
    <3>2. /\ DueBetween(s.deadline, u.deadline)' = DueBetween(s.deadline, u.deadline)
          /\ DueBetween(s.deadline, u.deadline) \in SUBSET Charged
      BY <1>3, <2>1, <3>1 DEF DueBetween
    <3>3. Load(trace', DueBetween(s.deadline, u.deadline)')
            = Load(trace, DueBetween(s.deadline, u.deadline))
      BY <1>6, <3>2
    <3>4. IsBurst(b)
      BY <1>10
    <3> QED  BY <3>1, <3>3, <3>4 DEF BucketInv, PaceInv
  <2>2. CASE ~(u.deadline < x.deadline)
    <3>1. u.deadline = x.deadline
      BY <1>3, <1>7, <2>2
    <3>2. DueBetween(s.deadline, u.deadline)' = DueFrom(s.deadline)'
      BY <1>3, <1>7, <3>1 DEF DueBetween, DueFrom
    <3> DEFINE load == Load(trace', DueFrom(s.deadline)')
               from == Rate * Undelayed(s)
               to   == Rate * Undelayed(x)
    <3>3. load <= Spent' - from + b
      BY <1>14
    <3>4. load \in Nat
      <4>1. DueFrom(s.deadline)' \in SUBSET Charged'
        BY DEF DueFrom
      <4>2. \A y \in Charged' : trace'[y.id].packet.size \in Nat
        BY <1>2, <1>3 DEF SizeOf
      <4>3. IsFiniteSet(DueFrom(s.deadline)')
        BY <1>3, <4>1, FS_Subset
      <4> QED  BY <4>1, <4>2, <4>3, LoadIsNatural
    <3>5. Spent' < to + Rate
      BY <1>1 DEF Moved
    <3>6. /\ Undelayed(s) \in Int /\ Undelayed(x) \in Int
          /\ u.deadline - s.deadline + 1 = Undelayed(x) - Undelayed(s) + 1
      BY <1>2, <1>3, <1>4, <1>5, <3>1
    <3>7. Rate * (u.deadline - s.deadline + 1) = to - from + Rate /\ to \in Int /\ from \in Int
      <4> DEFINE gap == Undelayed(x) - Undelayed(s)
      <4>1. Rate * gap = to - from /\ gap \in Int
        BY <1>2, <3>6, Products
      <4> HIDE DEF gap
      <4>2. Rate * (gap + 1) = to - from + Rate
        BY <1>2, <4>1, Products
      <4> QED  BY <1>2, <3>6, <4>2, Products DEF gap
    <3>8. b \in Nat
      BY <1>10
    <3> HIDE DEF load, from, to
    <3>9. load <= b + (to - from + Rate)
      <4> DEFINE after == Spent'
                 rate  == Rate
      <4>1. load <= after - from + b /\ after < to + rate
        BY <3>3, <3>5
      <4>2. rate \in Int /\ after \in Int
        BY <1>2, <1>5
      <4>3. load \in Int /\ to \in Int /\ from \in Int /\ b \in Int
        BY <3>4, <3>7, <3>8
      <4> HIDE DEF after, rate
      <4>4. load <= b + (to - from + rate)
        BY ONLY <4>1, <4>2, <4>3
      <4> QED  BY <4>4 DEF rate
    <3> QED  BY <3>2, <3>7, <3>9 DEF load
  <2> QED  BY <2>1, <2>2
<1> QED  BY <1>8, <1>9, <1>15, <1>16 DEF BucketInv

-----------------------------------------------------------------------------
(* What the pipeline charges for a datagram, when nothing but the throttle *)
(* and the fixed delay decides when it is due.                             *)
Priced(r, cfg, p, size, time) ==
    /\ r.dropped \in BOOLEAN
    /\ r.dropped => r.state.bucket = p.bucket /\ r.state.refilled = p.refilled
    /\ ~r.dropped => /\ r.state.bucket = ChargedBucket(cfg, p, size, time)
                     /\ r.state.refilled = time
                     /\ r.delay = cfg.fixedDelay + ThrottleDelay(cfg, r.state.bucket)

LEMMA SurvivorIsPriced ==
    ASSUME NEW cfg \in ImpairmentConfig, cfg.throttle > 0, cfg.jitter = 0, cfg.reorder = 0,
           NEW p \in PipelineState, NEW size \in Nat, NEW isData \in BOOLEAN, NEW time \in Nat,
           NEW r \in Survives(cfg, p, size, isData, time)
    PROVE  Priced(r, cfg, p, size, time) /\ r.dropped = FALSE
<1> DEFINE bucket == IF cfg.throttle = 0 THEN p.bucket ELSE ChargedBucket(cfg, p, size, time)
           after == [p EXCEPT !.data = IF isData THEN @ + 1 ELSE @,
                              !.bucket = bucket,
                              !.refilled = IF cfg.throttle = 0 THEN @ ELSE time]
           Held(held) == IF held THEN cfg.reorderExtraDelay ELSE 0
           Delays == {cfg.fixedDelay + j + ThrottleDelay(cfg, bucket) + Held(held)
                        : j \in 0 .. cfg.jitter, held \in Bernoulli(cfg.reorder)}
<1>1. cfg.throttle # 0 /\ cfg.fixedDelay \in Nat
  BY DEF ImpairmentConfig
<1>2. bucket = ChargedBucket(cfg, p, size, time) /\ bucket \in Int
      /\ ThrottleDelay(cfg, bucket) \in Nat
  <2>1. bucket = ChargedBucket(cfg, p, size, time)
    BY <1>1
  <2> HIDE DEF bucket
  <2> QED  BY <2>1, ThrottleIsTyped
<1>3. after.bucket = bucket /\ after.refilled = time
  <2> HIDE DEF bucket
  <2> QED  BY <1>1 DEF PipelineState
<1>4. \A d \in Delays : d = cfg.fixedDelay + ThrottleDelay(cfg, bucket)
  <2>1. Bernoulli(cfg.reorder) = {FALSE} /\ 0 .. cfg.jitter = {0}
    BY DEF Bernoulli
  <2>2. \A held \in Bernoulli(cfg.reorder) : Held(held) = 0
    BY <2>1
  <2> HIDE DEF Held, bucket
  <2> QED  BY <1>1, <1>2, <2>1, <2>2
<1>5. r \in {[state |-> after, dropped |-> FALSE, corrupted |-> c, delay |-> d,
             copies |-> IF twice THEN {0, 1} ELSE {0}]
             : c \in MaybeCorrupt(cfg, size), d \in Delays, twice \in Bernoulli(cfg.duplication)}
  BY DEF Survives
<1> HIDE DEF after, Delays, bucket
<1>6. r.state = after /\ r.dropped = FALSE /\ r.delay \in Delays
  BY <1>5
<1> QED  BY <1>2, <1>3, <1>4, <1>6 DEF Priced

LEMMA ProcessIsPriced ==
    ASSUME NEW cfg \in ImpairmentConfig, cfg.throttle > 0, cfg.jitter = 0, cfg.reorder = 0,
           NEW p \in PipelineState, NEW d \in Directions, NEW size \in Nat,
           NEW isData \in BOOLEAN, NEW time \in Nat,
           NEW r \in Process(cfg, p, d, size, isData, time)
    PROVE  Priced(r, cfg, p, size, time)
<1>1. CASE InBlackout(cfg, p)
  <2>1. r = Discarded(p)
    BY <1>1 DEF Process
  <2> QED  BY <2>1 DEF Discarded, Priced
<1>2. CASE ~InBlackout(cfg, p)
  <2>1. PICK o \in DecideLoss(cfg, p.bad[d]) :
           r \in (LET q == [p EXCEPT !.bad[d] = o.bad]
                  IN  IF o.lost THEN {Discarded(q)}
                      ELSE Survives(cfg, q, size, isData, time))
    BY <1>2 DEF Process
  <2> DEFINE q == [p EXCEPT !.bad[d] = o.bad]
             bad == o.bad
  <2>2. q \in PipelineState /\ q.bucket = p.bucket /\ q.refilled = p.refilled
    <3>1. p.bad[d] \in BOOLEAN
      BY DEF PipelineState
    <3>2. bad \in BOOLEAN
      BY <3>1, LossIsTyped
    <3>3. q = [p EXCEPT !.bad[d] = bad]
      OBVIOUS
    <3> HIDE DEF bad, q
    <3> QED  BY <3>2, <3>3 DEF PipelineState, Directions
  <2>3. r \in {Discarded(q)} \/ r \in Survives(cfg, q, size, isData, time)
    BY <2>1
  <2> HIDE DEF q
  <2>4. CASE r = Discarded(q)
    BY <2>2, <2>4 DEF Discarded, Priced
  <2>5. CASE r \in Survives(cfg, q, size, isData, time)
    <3>1. Priced(r, cfg, q, size, time) /\ r.dropped = FALSE
      BY <2>2, <2>5, SurvivorIsPriced
    <3>2. ChargedBucket(cfg, q, size, time) = ChargedBucket(cfg, p, size, time)
      BY <2>2 DEF ChargedBucket
    <3> QED  BY <3>1, <3>2 DEF Priced
  <2> QED  BY <2>3, <2>4, <2>5
<1> QED  BY <1>1, <1>2

(* What SteadyThrottle says of the configuration in use.                   *)
SteadyConfig == config.impairment.jitter = 0 /\ config.impairment.reorder = 0

LEMMA RelayCharges ==
    ASSUME TypeInv, ShapeInv, Numbered, Rate > 0, SteadyConfig, UNCHANGED <<config, now>>,
           NEW i, NEW session, NEW direction \in Directions, NEW message \in Message,
           NEW socket, NEW destination,
           ObserveAndRelay(i, session, direction, message, socket, destination)
    PROVE  ChargesNothing \/ \E x, size : Charges(x, size)
<1> DEFINE isData == message.packet.kind = "DATA"
           size == message.packet.size
           injected == InjectedRecord(config.injection, i, session)
           Original(r, c) ==
               [id |-> Len(trace) + 1, copy |-> c, deadline |-> now + r.delay + c,
                socket |-> socket, destination |-> destination, damaged |-> r.corrupted]
           Injection1(j) ==
               [id |-> (Len(trace) + 1) + 1, copy |-> 0, deadline |-> now,
                socket |-> InjectionSocket(j, i),
                destination |-> InjectionTarget(j, session), damaged |-> FALSE]
<1>1. PICK r \in Process(config.impairment, pipeline, direction, size, isData, now) :
        LET record == RecordOf(i, session, direction, message, r)
            injections == Injections(record)
        IN  /\ pipeline' = r.state
            /\ trace' = Append(trace, record)
                        \o (IF injections = {} THEN <<>> ELSE <<injected>>)
            /\ scheduled' = scheduled \cup {Original(r, c) : c \in Copies(r)}
                                      \cup {Injection1(j) : j \in injections}
            /\ UNCHANGED sent
  BY Zenon DEF ObserveAndRelay, RecordOf
<1> DEFINE record == RecordOf(i, session, direction, message, r)
           injections == Injections(record)
           x == Original(r, 0)
<1>2. /\ config.impairment \in ImpairmentConfig /\ now \in Nat /\ pipeline \in PipelineState
      /\ config.impairment.throttle > 0 /\ size \in Nat /\ isData \in BOOLEAN
      /\ IsSequence(trace) /\ Len(trace) \in Nat
      /\ config.impairment.jitter = 0 /\ config.impairment.reorder = 0
  BY ProxyAssumption, MessagesHaveSize, TraceBasics
     DEF TypeInv, LoopInv, ShapeInv, Rate, SteadyConfig
<1>3. /\ record.packet.size = size /\ IsPeerSend(record)
      /\ ~IsPeerSend(injected)
  BY PromisedOfInjected DEF RecordOf, IsPeerSend
<1> HIDE DEF isData, size
<1>4. Priced(r, config.impairment, pipeline, size, now)
  BY <1>1, <1>2, ProcessIsPriced
<1>5. IsOutcome(r, config.impairment, pipeline, isData)
  BY <1>1, <1>2, ProcessOutcome, Zenon DEF ShapeInv
<1>6. /\ trace' = Append(trace, record)
                  \o (IF injections = {} THEN <<>> ELSE <<injected>>)
      /\ scheduled' = scheduled \cup {Original(r, c) : c \in Copies(r)}
                                \cup {Injection1(j) : j \in injections}
      /\ pipeline' = r.state /\ sent' = sent
      /\ injections \in {{}, {config.injection}}
  BY <1>1, InjectionIsTheScript
<1> HIDE DEF record, injected, injections
<1>7. /\ \A n \in 1 .. Len(trace) : trace'[n] = trace[n]
      /\ trace'[Len(trace) + 1] = record
      /\ injections # {} => trace'[Len(trace) + 2] = injected
  <2>1. CASE injections = {}
    <3>1. Extends(trace', trace, <<record>>)
      BY <1>2, <1>6, <2>1, ConcatNothing, ExtendByOne
    <3> QED  BY <1>2, <2>1, <3>1 DEF Extends
  <2>2. CASE injections # {}
    <3>1. Extends(trace', trace, <<record, injected>>)
      BY <1>2, <1>6, <2>2, ExtendByTwo
    <3> QED  BY <1>2, <2>2, <3>1 DEF Extends
  <2> QED  BY <2>1, <2>2
<1>8. Sends' = Sends \cup {Original(r, c) : c \in r.copies}
                     \cup {Injection1(j) : j \in injections}
  BY <1>6 DEF Sends, Copies
<1>9. \A s \in Sends : s.id \in 1 .. Len(trace) /\ trace'[s.id] = trace[s.id]
  BY <1>7 DEF Numbered
<1>10. ASSUME NEW j \in injections  PROVE ~IsPeerSend(trace'[Injection1(j).id])
  BY <1>2, <1>3, <1>7, <1>10
<1>11. /\ \A c : Original(r, c).copy = c /\ Original(r, c).id = Len(trace) + 1
       /\ x.deadline = now + r.delay + 0 /\ x.id = Len(trace) + 1
  OBVIOUS
<1> HIDE DEF x, Original, Injection1
<1>12. Charged' = Charged \cup (IF 0 \in r.copies THEN {x} ELSE {})
  <2>1. ASSUME NEW c \in r.copies
        PROVE  Original(r, c).copy = 0 /\ IsPeerSend(trace'[Original(r, c).id]) <=> c = 0
    BY <1>3, <1>7, <1>11
  <2> QED  BY <1>8, <1>9, <1>10, <2>1 DEF Charged, x
<1>13. CASE r.dropped
  <2>1. Charged' = Charged
    BY <1>5, <1>12, <1>13 DEF IsOutcome
  <2>2. \A s \in Charged : trace'[s.id] = trace[s.id]
    BY <1>9 DEF Charged
  <2>3. pipeline'.bucket = pipeline.bucket /\ pipeline'.refilled = pipeline.refilled
    BY <1>4, <1>6, <1>13 DEF Priced
  <2>4. config' = config /\ now' >= now
    BY <1>2
  <2> QED  BY <2>1, <2>2, <2>3, <2>4 DEF ChargesNothing
<1>14. CASE ~r.dropped
  <2>1. 0 \in r.copies
    BY <1>5, <1>14 DEF IsOutcome
  <2>2. x \notin Charged
    BY <1>2, <1>9, <1>11 DEF Charged
  <2>3. /\ x.deadline = now + config.impairment.fixedDelay
                          + ThrottleDelay(config.impairment, pipeline'.bucket)
        /\ pipeline'.bucket = ChargedBucket(config.impairment, pipeline, size, now)
        /\ pipeline'.refilled = now
    <3>1. /\ r.delay = config.impairment.fixedDelay
                         + ThrottleDelay(config.impairment, pipeline'.bucket)
          /\ pipeline'.bucket = ChargedBucket(config.impairment, pipeline, size, now)
          /\ pipeline'.refilled = now
      BY <1>4, <1>6, <1>14 DEF Priced
    <3>2. /\ config.impairment.fixedDelay \in Nat
          /\ ThrottleDelay(config.impairment, pipeline'.bucket) \in Nat
      BY <1>2, <3>1, ThrottleIsTyped DEF ImpairmentConfig
    <3> QED  BY <1>2, <1>11, <3>1, <3>2
  <2>4. trace'[x.id].packet.size = size
    BY <1>3, <1>7, <1>11
  <2>5. Charges(x, size)
    BY <1>2, <1>9, <1>12, <2>1, <2>2, <2>3, <2>4 DEF Charges, Charged
  <2> QED  BY <2>5
<1> QED  BY <1>13, <1>14

-----------------------------------------------------------------------------
(* A step that relays nothing charges nothing.                             *)
LEMMA RestsChargesNothing ==
    ASSUME UNCHANGED <<config, trace, pipeline>>, Sends' = Sends, now' >= now
    PROVE  ChargesNothing
BY DEF ChargesNothing, Charged

LEMMA StrayReplyCharges ==
    ASSUME TypeInv, ShapeInv, Numbered, HandleStrayReply
    PROVE  ChargesNothing
<1>1. PICK k, reply : Reads(StraySocket(k)) /\ trace' = Append(trace, reply)
  BY Zenon DEF HandleStrayReply
<1>2. /\ UNCHANGED <<config, now, pipeline>> /\ Sends' = Sends
  BY <1>1 DEF HandleStrayReply, Reads, Sends
<1>3. now \in Nat
  BY ProxyAssumption DEF TypeInv, LoopInv
<1>4. \A j \in 1 .. Len(trace) : trace'[j] = trace[j]
  BY <1>1, ExtendByOne DEF ShapeInv, Extends
<1>5. \A s \in Sends : trace'[s.id] = trace[s.id]
  BY <1>4 DEF Numbered
<1>6. Charged' = Charged
  BY <1>2, <1>5 DEF Charged
<1>7. \A s \in Charged : trace'[s.id] = trace[s.id]
  BY <1>5 DEF Charged
<1> QED  BY <1>2, <1>3, <1>6, <1>7 DEF ChargesNothing

LEMMA StepCharges ==
    ASSUME TypeInv, TypeInv', ShapeInv, Numbered, Rate > 0, SteadyConfig, [Next]_vars
    PROVE  ChargesNothing \/ \E x, size : Charges(x, size)
<1>1. now \in Nat
  BY ProxyAssumption DEF TypeInv, LoopInv
<1>2. CASE ClientSends \/ ServerSends \/ StrayVictimReplies
  <2>1. UNCHANGED <<config, now, trace, pipeline, scheduled, sent>>
    BY <1>2 DEF ClientSends, ServerSends, StrayVictimReplies, Post, loopVars, relayVars
  <2> QED  BY <1>1, <2>1, RestsChargesNothing DEF Sends
<1>3. CASE Select \/ Stop \/ Stopped \/ UNCHANGED vars
  <2>1. UNCHANGED <<config, now, trace, pipeline, scheduled, sent>>
    BY <1>3 DEF Select, Stop, Stopped, vars, loopVars, relayVars
  <2> QED  BY <1>1, <2>1, RestsChargesNothing DEF Sends
<1>4. CASE Tick
  <2>1. UNCHANGED <<config, trace, pipeline, scheduled, sent>> /\ now' = now + 1
    BY <1>4 DEF Tick, relayVars
  <2> QED  BY <1>1, <2>1, RestsChargesNothing DEF Sends
<1>5. CASE Flush \/ FinalFlush
  <2>1. UNCHANGED <<config, now, trace, pipeline>>
    BY <1>5 DEF Flush, FinalFlush
  <2>2. Flushes
    BY <1>5, FlushSteps
  <2>3. Sends' = Sends
    BY <2>2 DEF Flushes, Sends
  <2> QED  BY <1>1, <2>1, <2>3, RestsChargesNothing
<1>6. CASE RefuseClientDatagram
  <2>1. UNCHANGED <<config, now, trace, pipeline, scheduled, sent>>
    BY <1>6 DEF RefuseClientDatagram, Reads
  <2> QED  BY <1>1, <2>1, RestsChargesNothing DEF Sends
<1>7. CASE HandleClientDatagram
  <2> DEFINE message == Head(inbox[Listen])
             i == SessionOf(message.from)
             session == IF i <= SessionCount THEN sessions[i]
                        ELSE [client |-> message.from, server |-> WellKnown,
                              locked |-> FALSE]
  <2>1. /\ Reads(Listen)
        /\ ObserveAndRelay(i, session, "ClientToServer", message,
                           SessionSocket(i), session.server)
    BY <1>7, Zenon DEF HandleClientDatagram
  <2>2. message \in Message
    BY <2>1, ReadTyped
  <2>3. UNCHANGED <<config, now>> /\ "ClientToServer" \in Directions
    BY <2>1 DEF Reads, Directions
  <2> HIDE DEF i, session, message
  <2> QED  BY <2>1, <2>2, <2>3, RelayCharges
<1>8. CASE HandleServerDatagram
  <2>1. PICK i \in 1 .. SessionCount :
          /\ Reads(SessionSocket(i))
          /\ LET message == Head(inbox[SessionSocket(i)])
                 session == LockTid(sessions[i], message.from)
             IN  ObserveAndRelay(i, session, "ServerToClient", message,
                                 Listen, session.client)
    BY <1>8, Zenon DEF HandleServerDatagram
  <2> DEFINE message == Head(inbox[SessionSocket(i)])
             session == LockTid(sessions[i], message.from)
  <2>2. message \in Message
    BY <2>1, ReadTyped
  <2>3. UNCHANGED <<config, now>> /\ "ServerToClient" \in Directions
    BY <2>1 DEF Reads, Directions
  <2>4. ObserveAndRelay(i, session, "ServerToClient", message, Listen, session.client)
    BY <2>1
  <2> HIDE DEF session, message
  <2> QED  BY <2>2, <2>3, <2>4, RelayCharges
<1>9. CASE HandleStrayReply
  BY <1>9, StrayReplyCharges
<1> QED  BY <1>2, <1>3, <1>4, <1>5, <1>6, <1>7, <1>8, <1>9 DEF Next, RelayLoop

(* Without a throttle nothing is claimed.                                  *)
ThrottleInv == Rate > 0 => BucketInv

LEMMA StepsKeepConfig ==
    ASSUME [Next]_vars
    PROVE  config' = config
BY DEF Next, RelayLoop, ClientSends, ServerSends, StrayVictimReplies, Post, Flush, Select,
       HandleClientDatagram, RefuseClientDatagram, HandleServerDatagram, HandleStrayReply,
       Reads, FinalFlush, Stop, Tick, Stopped, vars

LEMMA InitThrottle == Init => ThrottleInv
<1> SUFFICES ASSUME Init, Rate > 0  PROVE BucketInv
  BY DEF ThrottleInv
<1>1. Charged = {}
  BY DEF Init, Charged, Sends
<1>2. pipeline.bucket = 0 /\ pipeline.refilled = 0 /\ now = 0 /\ Rate \in Nat
  <2>1. config.impairment \in ImpairmentConfig
    BY ProxyAssumption DEF Init
  <2> QED  BY <2>1 DEF Init, FreshPipeline, Rate, ImpairmentConfig
<1>3. Spent = 0
  BY <1>2 DEF Spent
<1>4. IsFiniteSet({})
  BY FS_EmptySet
<1> QED  BY <1>1, <1>2, <1>3, <1>4 DEF BucketInv, ChargedInv, OrderInv, TailInv, PaceInv

LEMMA NextThrottle ==
    SteadyThrottle /\ TypeInv /\ TypeInv' /\ TraceInv /\ ThrottleInv /\ [Next]_vars
      => ThrottleInv'
<1> SUFFICES ASSUME SteadyThrottle, TypeInv, TypeInv', TraceInv, ThrottleInv, [Next]_vars,
                    Rate' > 0
             PROVE  BucketInv'
  BY DEF ThrottleInv
<1>1. config' = config
  BY StepsKeepConfig
<1>2. /\ config \in Configs /\ config.impairment \in ImpairmentConfig
      /\ pipeline \in PipelineState /\ now \in Nat /\ now' \in Nat
  BY ProxyAssumption DEF TypeInv, LoopInv
<1>3. Rate > 0 /\ SteadyConfig
  BY <1>1, <1>2 DEF SteadyThrottle, SteadyConfig, Rate
<1>4. Typed
  BY <1>2, <1>3, TicksAssumption DEF Typed, Rate, ImpairmentConfig, PipelineState
<1>5. ChargesNothing \/ \E x, size : Charges(x, size)
  BY <1>3, StepCharges DEF TraceInv
<1> QED  BY <1>3, <1>4, <1>5, NothingCharged, OneCharged DEF ThrottleInv

LEMMA BucketKeepsTheRate ==
    ASSUME Rate \in Nat, Top \in Nat, Spent \in Int, ThrottleInv
    PROVE  ThrottledRate
<1> DEFINE Bytes(s) == trace[s.id].packet.size
           burst == Max({Rate * TicksPerSecond} \cup {Bytes(s) : s \in Charged})
           DueIn(from, to) == {s \in Charged : s.deadline \in from .. to}
<1> SUFFICES ASSUME Rate > 0, NEW from \in {s.deadline : s \in Charged},
                    NEW to \in {s.deadline : s \in Charged}
             PROVE  MapThenSumSet(Bytes, DueIn(from, to)) <=
                      IF from <= to THEN burst + Rate * (to - from + 1) ELSE 0
  BY Zenon DEF ThrottledRate, Rate, Charged
<1>1. BucketInv
  BY DEF ThrottleInv
<1>2. IsFiniteSet(DueBetween(from, to)) /\ DueBetween(from, to) \in SUBSET Charged
  BY <1>1, FS_Subset DEF BucketInv, ChargedInv, DueBetween
<1>3. MapThenSumSet(Bytes, DueIn(from, to)) = Load(trace, DueBetween(from, to))
  <2>1. \A s \in DueBetween(from, to) : SizeOf(s) \in Nat
    BY <1>1, <1>2 DEF BucketInv, ChargedInv
  <2>2. MapThenSumSet(SizeOf, DueBetween(from, to)) = Load(trace, DueBetween(from, to))
    BY <1>2, <2>1, LoadIsTheSum
  <2>3. DueIn(from, to) = DueBetween(from, to)
    BY DEF DueBetween
  <2>4. MapThenSumSet(Bytes, DueBetween(from, to)) = MapThenSumSet(SizeOf, DueBetween(from, to))
    BY DEF MapThenSumSet, MapThenFoldSet, SizeOf
  <2> HIDE DEF DueIn
  <2> QED  BY <2>2, <2>3, <2>4
<1>4. IsBurst(burst)
  <2> DEFINE S == {Top} \cup {SizeOf(s) : s \in Charged}
  <2>1. S \in SUBSET Nat /\ S # {}
    BY <1>1 DEF BucketInv, ChargedInv
  <2>2. \E n \in Nat : \A x \in S : x <= n
    <3>1. Spent \in Nat /\ \A s \in Charged : SizeOf(s) \in Nat /\ SizeOf(s) <= Spent
      BY <1>1 DEF BucketInv, ChargedInv
    <3>2. \A x \in S : x <= Spent + Top
      BY <3>1
    <3> QED  BY <3>1, <3>2
  <2>3. burst = Max(S)
    BY DEF Top, SizeOf
  <2> HIDE DEF S, burst
  <2>4. Max(S) \in S /\ \A y \in S : Max(S) >= y
    <3>1. PICK n \in Nat : \A x \in S : x <= n
      BY <2>2
    <3>2. S \in SUBSET (0 .. n)
      BY <2>1, <3>1
    <3> QED  BY <2>1, <3>2, MaxOfNaturals
  <2>5. burst \in Nat /\ \A y \in S : y <= burst
    BY <2>1, <2>3, <2>4
  <2> QED  BY <2>5 DEF IsBurst, S
<1> HIDE DEF burst, Bytes, DueIn
<1>5. PICK s \in Charged, u \in Charged : from = s.deadline /\ to = u.deadline
  OBVIOUS
<1>6. from \in Nat /\ to \in Nat
  BY <1>1, <1>5 DEF BucketInv, ChargedInv
<1>7. CASE from <= to
  BY <1>1, <1>3, <1>4, <1>5, <1>7 DEF BucketInv, PaceInv
<1>8. CASE ~(from <= to)
  <2>1. DueBetween(from, to) = {}
    BY <1>6, <1>8 DEF DueBetween
  <2> QED  BY <1>3, <1>8, <2>1, LoadOfNothing
<1> QED  BY <1>7, <1>8

(* With a throttle and neither jitter nor hold-back, no interval sees more *)
(* bytes due than its length allows and one burst, for any arrival times,  *)
(* sizes and rate; losses, copies and corruption change nothing.           *)
THEOREM ThrottleIsKept == SteadyThrottle /\ Spec => []ThrottledRate
<1> SUFFICES ASSUME SteadyThrottle  PROVE Spec => []ThrottledRate
  OBVIOUS
<1>1. TypeInv /\ ThrottleInv => ThrottledRate
  <2> SUFFICES ASSUME TypeInv, ThrottleInv  PROVE ThrottledRate
    OBVIOUS
  <2>1. config.impairment \in ImpairmentConfig
    BY ProxyAssumption DEF TypeInv, LoopInv
  <2>2. pipeline.refilled \in Nat /\ pipeline.bucket \in Int
    BY DEF TypeInv, PipelineState
  <2>3. Rate \in Nat /\ Top \in Nat /\ Spent \in Int
    BY <2>1, <2>2, TicksAssumption DEF Rate, Top, Spent, ImpairmentConfig
  <2> QED  BY <2>3, BucketKeepsTheRate
<1>2. TypeInv /\ TypeInv' /\ TraceInv /\ ThrottleInv /\ [Next]_vars => ThrottleInv'
  BY NextThrottle
<1> QED  BY <1>1, <1>2, InitThrottle, TypesAreKept, TraceIsKept, PTL DEF Spec
=============================================================================
