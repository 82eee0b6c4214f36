--------------------------- MODULE PacketObserver ---------------------------
(***************************************************************************)
(* The facts src/src/verify/packet_observer.cpp derives from the proxy's   *)
(* trace of one transfer.  A trace is a sequence of records                *)
(*   [direction, source, destination, packet, disposition, reply],         *)
(* where packet = [kind, number, size]: number is the absolute block index *)
(* (the error code of an ERROR) of which only the wire number is observed, *)
(* and reply marks what a peer sent to a stray TID.                        *)
(***************************************************************************)
EXTENDS Integers, Sequences, FiniteSets, FiniteSetsExt

CONSTANTS
    Modulus,    \* block numbers on the wire are taken modulo this (65536)
    WrapLow,    \* a wire number below this after Modulus - 1 is a wraparound
    Header      \* bytes of a DATA packet before its payload

ASSUME ObserverAssumption ==
    Modulus \in Nat \ {0} /\ WrapLow \in 1 .. Modulus /\ Header \in Nat

Wire(record) == record.packet.number % Modulus

DataDirection(direction) ==
    IF direction = "Download" THEN "ServerToClient" ELSE "ClientToServer"

AckDirection(direction) ==
    IF direction = "Download" THEN "ClientToServer" ELSE "ServerToClient"

(* A plausible bug: what the proxy made up itself counts as sent.          *)
AnySend(record) == TRUE

IsPeerSend(record) == record.disposition # "Injected"

-----------------------------------------------------------------------------
(* The positions in the trace of what one of the endpoints sent.           *)
PeerSends(trace, direction, kinds) ==
    {i \in DOMAIN trace : /\ IsPeerSend(trace[i])
                          /\ trace[i].direction = direction
                          /\ trace[i].packet.kind \in kinds}

WithDisposition(trace, d) == {i \in DOMAIN trace : trace[i].disposition = d}

(* The replies the proxy noted on its stray sockets.                       *)
StrayReplies(trace) ==
    {i \in WithDisposition(trace, "Injected") : trace[i].reply}

Earlier(positions, i) == {j \in positions : j < i}

(* An ACK is a duplicate when it repeats the highest number acknowledged.  *)
DuplicateAcks(trace, acks) ==
    {i \in acks : /\ Earlier(acks, i) # {}
                  /\ Wire(trace[i]) = Max({Wire(trace[j]) : j \in Earlier(acks, i)})}

(* 65535 followed by a low number.                                         *)
Wraps(trace, data) ==
    \E i \in data : /\ Earlier(data, i) # {}
                    /\ Wire(trace[Max(Earlier(data, i))]) = Modulus - 1
                    /\ Wire(trace[i]) < WrapLow

(* The TID the server chose, from its first DATA or OACK, and the one the  *)
(* first request was sent to; 0 when there is none.                        *)
ServerSourceTid(trace) ==
    LET replies == PeerSends(trace, "ServerToClient", {"DATA", "OACK"})
    IN  IF replies = {} THEN 0 ELSE trace[Min(replies)].source

Requests(trace) ==
    PeerSends(trace, "ClientToServer", {"RRQ", "WRQ"})
    \cup PeerSends(trace, "ServerToClient", {"RRQ", "WRQ"})

Observe(trace, direction, blockSize) ==
    LET data    == PeerSends(trace, DataDirection(direction), {"DATA"})
        acks    == PeerSends(trace, AckDirection(direction), {"ACK"})
        blocks  == {Wire(trace[i]) : i \in data}
        Payload(i) == trace[i].packet.size - Header
        server  == ServerSourceTid(trace)
        request == Requests(trace)
    IN  [data          |-> Cardinality(data),
         distinct      |-> Cardinality(blocks),
         retransmitted |-> Cardinality(data) - Cardinality(blocks),
         finalLength   |-> IF data = {} THEN 0 ELSE Payload(Max(data)),
         shortBlock    |-> \E i \in data : Payload(i) < blockSize,
         highest       |-> Max(blocks \cup {0}),
         wrapped       |-> Wraps(trace, data),
         acks          |-> Cardinality(acks),
         duplicateAcks |-> Cardinality(DuplicateAcks(trace, acks)),
         dropped       |-> Cardinality(WithDisposition(trace, "Dropped")),
         corrupted     |-> Cardinality(WithDisposition(trace, "Corrupted")),
         injected      |-> Cardinality(WithDisposition(trace, "Injected")),
         strayReplies  |-> Cardinality(StrayReplies(trace)),
         strayError5   |-> \E i \in StrayReplies(trace) :
                              /\ trace[i].packet.kind = "ERROR"
                              /\ trace[i].packet.number = 5,
         freshTid      |-> /\ request # {}
                           /\ server # 0
                           /\ server # trace[Min(request)].destination,
         total         |-> Len(trace)]
=============================================================================
