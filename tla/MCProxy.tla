------------------------------- MODULE MCProxy -------------------------------
(***************************************************************************)
(* An instance of ImpairmentProxy: two clients, two handlers (one of them  *)
(* a server that answers from its well-known port), and one configuration  *)
(* for each kind of impairment and of injection.                           *)
(***************************************************************************)
EXTENDS ImpairmentProxy

Packet(kind, number, size) == [kind |-> kind, number |-> number, size |-> size]

(* Blocks 1 and 5 have the same number on the wire, and a session's first  *)
(* answer may be an ERROR.                                                 *)
MCClientPackets == {Packet("RRQ", 0, 3), Packet("ACK", 1, 4)}
MCServerPackets == {Packet("DATA", 1, 6), Packet("DATA", 5, 5), Packet("ERROR", 1, 5)}
MCStrayReplyPackets == {Packet("ERROR", 5, 4)}

Clean ==
    [uniformLoss |-> 0, gilbertElliott |-> FALSE, goodToBad |-> 50,
     badToGood |-> 50, lossInGood |-> 0, lossInBad |-> 100,
     duplication |-> 0, reorder |-> 0, reorderExtraDelay |-> 2,
     fixedDelay |-> 0, jitter |-> 0, corruption |-> 0,
     target |-> "BlockNumber", throttle |-> 0,
     blackout |-> FALSE, blackoutAfter |-> 1]

NoInjection ==
    [when |-> "never", towardClient |-> TRUE, stray |-> TRUE,
     packet |-> Packet("DATA", 1, 6)]
Stray(towardClient) == [NoInjection EXCEPT !.when = "once", !.towardClient = towardClient]
Apprentice ==
    [when |-> "always", towardClient |-> FALSE, stray |-> FALSE,
     packet |-> Packet("ACK", 1, 4)]

Config(impairment, injection, datagrams, ticks) ==
    [impairment |-> impairment, injection |-> injection, sockets |-> {TRUE},
     datagrams |-> datagrams, ticks |-> ticks]

MCConfigs ==
    {[Config(Clean, NoInjection, 3, 0) EXCEPT !.sockets = BOOLEAN],
     Config(Clean, NoInjection, 4, 0),
     Config([Clean EXCEPT !.uniformLoss = 50, !.duplication = 50], NoInjection, 3, 1),
     Config([Clean EXCEPT !.gilbertElliott = TRUE], NoInjection, 3, 0),
     Config([Clean EXCEPT !.corruption = 50, !.duplication = 100], NoInjection, 3, 0),
     Config([Clean EXCEPT !.fixedDelay = 1, !.jitter = 1, !.reorder = 50],
            NoInjection, 3, 2),
     Config([Clean EXCEPT !.throttle = 2], NoInjection, 3, 4),
     Config([Clean EXCEPT !.blackout = TRUE, !.uniformLoss = 50], NoInjection, 4, 0),
     Config(Clean, Stray(TRUE), 3, 0), Config(Clean, Stray(FALSE), 3, 0),
     Config([Clean EXCEPT !.duplication = 50], Apprentice, 3, 0)}

(* The traffic is that of a download, for which the observer's count of    *)
(* retransmissions is proved.                                              *)
ASSUME TrafficAssumption == DownloadTraffic

(* The throttled configuration has no jitter and no hold-back, as in the   *)
(* test F-07 (src/src/runner/test_registry.cpp:976-986).                   *)
ASSUME SteadyAssumption == SteadyThrottle
=============================================================================
