---------------------------- MODULE MetricsStore ----------------------------
(***************************************************************************)
(* The metrics store of src/src/metrics/metrics_store.cpp: the records in  *)
(* memory and the lines of the file.  A line is the header, a whole record *)
(* or what a crash within an append left of one; which lines parse, and    *)
(* that a record survives its line, is the matter of JsonLines.            *)
(***************************************************************************)
EXTENDS Naturals, Sequences, SequencesExt

VARIABLES
    memory,  \* records_
    file,    \* the lines of the file
    isOpen,  \* open_
    written  \* history: the records that append wrote since the store was opened

storeVars == <<memory, file, isOpen, written>>

Header == [type |-> "header"]
Metric(record) == [type |-> "metric", record |-> record]
Torn == [type |-> "torn"]

(* The file may hold the results of an earlier run.                        *)
StoreInit(earlier) ==
    memory = <<>> /\ file = earlier /\ isOpen = FALSE /\ written = <<>>

(* open: the file is truncated, if it can be.                              *)
Open ==
    /\ memory' = <<>> /\ written' = <<>>
    /\ \/ isOpen' = TRUE /\ file' = <<Header>>
       \/ isOpen' = FALSE /\ UNCHANGED file

(* append: the record is pushed; the file is opened once more, and if it   *)
(* can be, the record is written and flushed as one line.  Otherwise the   *)
(* record is in no file, and nobody is told.                               *)
Write(record) ==
    isOpen /\ file' = Append(file, Metric(record)) /\ written' = Append(written, record)

AppendRecord(record) ==
    /\ memory' = Append(memory, record)
    /\ Write(record) \/ UNCHANGED <<file, written>>
    /\ UNCHANGED isOpen

Close == isOpen' = FALSE /\ UNCHANGED <<memory, file, written>>

(* The process dies within an append: its line is missing, torn or whole.  *)
DieAppending(record) ==
    /\ file' \in {file} \cup (IF isOpen THEN {Append(file, Torn), Append(file, Metric(record))}
                             ELSE {})
    /\ UNCHANGED <<memory, isOpen, written>>

(* A plausible bug: a store with a line that does not parse is refused.    *)
LoadStrictly(lines) ==
    IF \E i \in DOMAIN lines : lines[i] = Torn THEN <<>>
    ELSE LET metrics == SelectSeq(lines, LAMBDA line : line.type = "metric")
         IN  [i \in DOMAIN metrics |-> metrics[i].record]

(* load: the records of the lines that parse and are records, pushed one   *)
(* after the other; loaded[i] are those of the first i lines.              *)
Load(lines) ==
    LET loaded[i \in 0 .. Len(lines)] ==
            IF i = 0 THEN <<>>
            ELSE IF lines[i].type = "metric" THEN Append(loaded[i - 1], lines[i].record)
            ELSE loaded[i - 1]
    IN  loaded[Len(lines)]
=============================================================================
