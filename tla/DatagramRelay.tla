---------------------------- MODULE DatagramRelay ----------------------------
(***************************************************************************)
(* What the tests rely on when they put the proxy between the endpoints: a *)
(* relay that takes datagrams one at a time (with at most one injected     *)
(* after it), owes each of them to one endpoint at most twice, hands over  *)
(* what it owes, and owes nothing once it is closed.                       *)
(***************************************************************************)
EXTENDS Integers

VARIABLES
    taken,      \* how many datagrams were taken or injected
    owed,       \* deliveries to come: [id, copy, to]
    delivered,  \* deliveries made
    closed

relayVars == <<taken, owed, delivered, closed>>

RelayInit == taken = 0 /\ owed = {} /\ delivered = {} /\ closed = FALSE

(* New deliveries belong to the datagrams just taken, the copies of one of *)
(* them to the same endpoint.                                              *)
Take ==
    /\ ~closed
    /\ taken' \in taken .. taken + 2
    /\ owed \subseteq owed'
    /\ \A d \in owed' \ owed : /\ d.id \in taken + 1 .. taken'
                               /\ d.copy \in {0, 1}
    /\ \A d, e \in owed' \ owed : d.id = e.id => d.to = e.to
    /\ UNCHANGED <<delivered, closed>>

(* What is handed over was owed, and is owed no longer.                    *)
Deliver ==
    /\ ~closed
    /\ owed' \subseteq owed
    /\ delivered' = delivered \cup (owed \ owed')
    /\ UNCHANGED <<taken, closed>>

Close ==
    /\ ~closed
    /\ owed' = {}
    /\ delivered' = delivered \cup owed
    /\ closed' = TRUE
    /\ UNCHANGED taken

RelaySpec == RelayInit /\ [][Take \/ Deliver \/ Close]_relayVars
=============================================================================
