------------------------------- MODULE MCSuite -------------------------------
(***************************************************************************)
(* An instance of Suite: short plans of tests of the registry, so that     *)
(* each judge, both directions, several transfers in one work directory,   *)
(* the sweeps and a missing capability occur, with the reference client or *)
(* a subprocess.                                                           *)
(***************************************************************************)
EXTENDS Suite, TestRegistry

(* The whole registry is a plan as Suite assumes it.                       *)
ASSUME RegistryAssumption == IsPlan(build_test_registry)

MCCapabilities ==
    {"rfc1350_rrq", "rfc1350_wrq", "rfc2347_option_negotiation", "rfc2348_blksize",
     "rfc7440_windowsize"}

(* Bound: at most n of the transfers of a test are made.                   *)
First(n, id) ==
    LET test == TestNamed(id)
        short == 1 .. Min({n, Len(test.fixtures)})
    IN  [test EXCEPT !.fixtures = [i \in short |-> @[i]],
                     !.points = [i \in short |-> @[i]]]

Run(plan, client) ==
    [plan |-> plan, client |-> client, supported |-> MCCapabilities]
RunOf(id, client) == Run(<<First(2, id)>>, client)

MCConfigs ==
    {RunOf(id, "reference") : id \in {"A-02", "A-04", "A-06", "A-11", "A-13", "A-15",
                                      "A-20", "A-21", "F-05", "G-06", "H-03"}}
    \cup {RunOf(id, "subprocess") : id \in {"A-02", "C-03", "E-02"}}
    \cup {Run(<<First(3, "F-06")>>, "reference"),
          Run(<<First(1, "A-12"), First(1, "A-01")>>, "reference"),
          Run(<<First(1, "A-32"), First(1, "A-34")>>, "reference"),
          [Run(<<First(1, "E-01"), First(1, "A-02"), First(1, "A-01")>>, "reference")
             EXCEPT !.supported = {"rfc1350_rrq", "rfc2347_option_negotiation"}]}

(* A sweep over a client that is a child process.                          *)
MCStuckConfigs == {RunOf("F-05", "subprocess")}

(* A test with a record for each of two fixtures.                          *)
MCTwoRecords == {RunOf("A-06", "reference")}
=============================================================================
