------------------------------- MODULE MCCodec -------------------------------
(***************************************************************************)
(* The codecs on every short input: datagrams and text files, the JSON of  *)
(* every record that holds a short string, a number and an array, and of   *)
(* every number up to a bound.                                             *)
(***************************************************************************)
EXTENDS Codecs, JsonLines

CONSTANTS
    MaxName,    \* bound on the length of a record's string
    MaxNumber   \* bound on the size of a number

VARIABLE number     \* a JSON number: a seed or a count, or a measure

MCVars == <<vars, number>>

(* A seed of 2^63 or more is written as the negative number of its bits.   *)
SomeNumbers ==
    {Integer(n) : n \in {-ExactLimit, 0, ExactLimit - 1, ExactLimit}} \cup {Number(15)}
AllNumbers ==
    {Integer(n) : n \in -MaxNumber .. MaxNumber}
    \cup {Number(n) : n \in -Scale * MaxNumber .. Scale * MaxNumber}

MCInit ==
    \/ Init /\ number = Null
    \/ subject = "record" /\ input = <<>> /\ number \in SomeNumbers
    \/ subject = "number" /\ input = <<>> /\ number \in AllNumbers

GrowName ==
    /\ subject = "record" /\ Len(input) < MaxName
    /\ \E c \in {"\"", "\\", "NL", "CTL", "n", "}"} : input' = Append(input, c)
    /\ UNCHANGED <<subject, number>>

MCNext ==
    \/ subject \in {"datagram", "text"} /\ Grow /\ UNCHANGED number
    \/ GrowName

MCSpec == MCInit /\ [][MCNext]_MCVars

Record ==
    Object(<<<<"i">>, <<"s">>, <<"p">>>>,
        <<String(input), number, Array(<<Boolean(TRUE), Boolean(FALSE), Null>>)>>)

-----------------------------------------------------------------------------
(* json_writer.cpp reads back what it wrote, and no part of it.            *)
RecordsAreWhole == subject = "record" => OnlyWholeLinesParse(Record)

=============================================================================
