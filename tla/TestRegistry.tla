----------------------------- MODULE TestRegistry -----------------------------
(***************************************************************************)
(* build_test_registry of src/src/runner/test_registry.cpp: the tests in   *)
(* the order the runner takes them.  A test has its id and section, the    *)
(* kind that says how it is judged, its severity and capabilities, the     *)
(* direction, and for each of its transfers the fixture and, in a sweep,   *)
(* the intensity (per cent, milliseconds or bytes per second; else 0).     *)
(*                                                                         *)
(* faulty: the bytes of a transfer may be altered on the way (corruption,  *)
(* injected DATA).  unsupported: the request carries an option value that  *)
(* a client may be unable to express.                                      *)
(***************************************************************************)
EXTENDS Naturals, Sequences

Rrq == <<"rfc1350_rrq">>
Wrq == <<"rfc1350_wrq">>
NetasciiMode == <<"rfc1350_netascii">>
Negotiation(option) == <<"rfc2347_option_negotiation", option>>
BlockSize == Rrq \o Negotiation("rfc2348_blksize")
WindowSize == Rrq \o Negotiation("rfc7440_windowsize")

TestCase(id, section, kind, severity, capabilities, fixtures) ==
    [id |-> id, section |-> section, kind |-> kind, severity |-> severity,
     capabilities |-> capabilities, direction |-> "Download",
     fixtures |-> fixtures, points |-> [i \in DOMAIN fixtures |-> 0],
     faulty |-> FALSE, unsupported |-> FALSE]

AsUpload(test) == [test EXCEPT !.direction = "Upload"]
AsFaulty(test) == [test EXCEPT !.faulty = TRUE]
WithOption(test) == [test EXCEPT !.unsupported = TRUE]

(* resilience_sweep and integrity_under_corruption drive the fixture once  *)
(* for each point.                                                         *)
Sweep(id, section, severity, capabilities, fixture, points) ==
    [TestCase(id, section, "sweep", severity, capabilities,
              [i \in DOMAIN points |-> fixture]) EXCEPT !.points = points]

BaseTests == <<
    TestCase("A-01", "A", "byte_exact", "Critical", Rrq, <<"one">>),
    AsUpload(TestCase("A-02", "A", "byte_exact", "Critical", Wrq, <<"one">>)),
    TestCase("A-03", "A", "byte_exact", "Major", Rrq, <<"empty">>),
    TestCase("A-04", "A", "final_block", "Critical", Rrq, <<"exact_block">>),
    TestCase("A-05", "A", "final_block", "Critical", Rrq, <<"two_blocks_exact">>),
    TestCase("A-06", "A", "byte_exact", "Major", Rrq,
             <<"just_under_block", "just_over_block">>),
    TestCase("A-07", "A", "byte_exact", "Critical", Rrq, <<"kib_64">>),
    TestCase("A-08", "A", "byte_exact", "Major", Rrq \o NetasciiMode, <<"netascii_mixed">>),
    AsUpload(TestCase("A-09", "A", "byte_exact", "Major", Wrq \o NetasciiMode,
                      <<"netascii_mixed">>)),
    TestCase("A-10", "A", "byte_exact", "Major", Rrq, <<"odd_medium">>),
    TestCase("A-11", "A", "file_not_found", "Major", Rrq, <<"empty">>),
    AsUpload(TestCase("A-12", "A", "file_exists", "Major", Wrq, <<"one">>)),
    TestCase("A-13", "A", "access_violation", "Minor", Rrq, <<"empty">>),
    TestCase("A-14", "A", "malformed", "Major", Rrq, <<"kib_8">>),
    TestCase("A-15", "A", "malformed", "Major", Rrq, <<"kib_8">>)>>

TidAndRetransmissionTests == <<
    TestCase("A-20", "A", "fresh_tid", "Major", Rrq, <<"odd_medium">>),
    TestCase("A-21", "A", "stray_tid", "Critical", Rrq, <<"kib_8">>),
    TestCase("A-22", "A", "stray_tid", "Critical", Rrq, <<"kib_8">>),
    Sweep("A-30", "A", "Major", Rrq, "kib_8", <<10>>),
    Sweep("A-31", "A", "Major", Rrq, "kib_8", <<10>>),
    TestCase("A-32", "A", "apprentice", "Critical", Rrq, <<"kib_8">>),
    TestCase("A-33", "A", "apprentice", "Critical", Rrq, <<"kib_8">>),
    TestCase("A-34", "A", "blackout", "Major", Rrq, <<"kib_8">>),
    AsFaulty(Sweep("A-41", "A", "Critical", Rrq, "odd_medium", <<5>>))>>

OptionTests == <<
    WithOption(TestCase("B-01", "B", "byte_exact", "Major", BlockSize, <<"kib_8">>)),
    WithOption(TestCase("B-04", "B", "byte_exact", "Minor", BlockSize, <<"odd_medium">>)),
    WithOption(TestCase("C-01", "C", "byte_exact", "Minor", BlockSize, <<"kib_8">>)),
    WithOption(TestCase("C-02", "C", "byte_exact", "Major", BlockSize, <<"just_over_block">>)),
    WithOption(TestCase("C-03", "C", "byte_exact", "Major", BlockSize, <<"kib_8">>)),
    WithOption(TestCase("C-04", "C", "byte_exact", "Major", BlockSize, <<"kib_8">>)),
    WithOption(TestCase("C-07", "C", "byte_exact", "Major", BlockSize, <<"kib_8">>)),
    TestCase("D-01", "D", "byte_exact", "Major", Rrq \o Negotiation("rfc2349_timeout"),
             <<"odd_medium">>),
    TestCase("D-03", "D", "byte_exact", "Major", Rrq \o Negotiation("rfc2349_tsize"),
             <<"kib_8">>),
    TestCase("E-01", "E", "byte_exact", "Major", WindowSize, <<"kib_8">>),
    TestCase("E-02", "E", "byte_exact", "Major", WindowSize, <<"kib_8", "kib_8", "kib_8">>),
    Sweep("E-03", "E", "Critical", WindowSize, "kib_8", <<10>>),
    Sweep("E-04", "E", "Critical", WindowSize, "kib_8", <<20>>),
    Sweep("E-05", "E", "Critical", WindowSize, "kib_8", <<25>>),
    Sweep("E-07", "E", "Critical", WindowSize, "kib_8", <<30>>)>>

ImpairmentTests == <<
    Sweep("F-01", "F", "Critical", Rrq, "kib_8", <<1, 5, 10, 25, 50, 75, 90>>),
    Sweep("F-02", "F", "Major", Rrq, "kib_8", <<5, 15, 30>>),
    Sweep("F-03", "F", "Critical", Rrq, "kib_8", <<5, 25, 50>>),
    Sweep("F-04", "F", "Critical", Rrq, "kib_8", <<10, 30>>),
    Sweep("F-05", "F", "Major", Rrq, "kib_8", <<50, 200>>),
    AsFaulty(Sweep("F-06", "F", "Critical", Rrq, "odd_medium", <<5, 15, 30>>)),
    Sweep("F-07", "F", "Major", Rrq, "odd_medium", <<50000, 10000, 2000>>),
    Sweep("F-08", "F", "Critical", Rrq, "kib_8", <<1>>),
    TestCase("F-09", "F", "blackout", "Major", Rrq, <<"kib_8">>)>>

RobustnessTests == <<
    TestCase("G-01", "G", "malformed", "Major", Rrq, <<"kib_8">>),
    TestCase("G-03", "G", "malformed", "Major", Rrq, <<"kib_8">>),
    TestCase("G-04", "G", "malformed", "Minor", Rrq, <<"kib_8">>),
    AsFaulty(TestCase("G-06", "G", "stray_tid", "Critical", Rrq, <<"kib_8">>)),
    TestCase("G-08", "G", "stray_tid", "Critical", Rrq, <<"kib_8">>),
    TestCase("H-03", "H", "churn", "Minor", Rrq, <<"one", "one", "one", "one", "one">>)>>

build_test_registry ==
    BaseTests \o TidAndRetransmissionTests \o OptionTests \o ImpairmentTests
        \o RobustnessTests

TestNamed(id) ==
    build_test_registry[CHOOSE i \in DOMAIN build_test_registry :
                            build_test_registry[i].id = id]
=============================================================================
