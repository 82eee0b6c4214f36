------------------------------ MODULE JsonLines ------------------------------
(***************************************************************************)
(* The JSON of src/src/metrics/json_writer.cpp, which writes a record as   *)
(* one line and reads it back.  A text is a sequence of characters; of the *)
(* characters of a string those matter that are escaped by a letter (the   *)
(* quote, the backslash, "NL" for a line feed) or by a code ("CTL" for any *)
(* other control character).  Layout (the pretty form, white space between *)
(* tokens) is left out: a record is written in the compact form.  A number *)
(* is a multiple of a tenth and is kept in tenths; the double that holds   *)
(* it rounds to 53 bits, which the limit of exact printing keeps out of    *)
(* sight.                                                                  *)
(***************************************************************************)
EXTENDS Integers, Sequences, SequencesExt, TLC

CONSTANTS
    ExactLimit,         \* a value made from an integer is printed in full below this (2^53),
    PlainLimit,         \* any other value without a fraction below this (10^15)
    SignificantDigits   \* digits of the rest (6)

ASSUME JsonAssumption ==
    /\ SignificantDigits \in Nat \ {0}
    /\ PlainLimit \in Nat \ {0} /\ ExactLimit \in Nat /\ PlainLimit <= ExactLimit

Scale == 10

Digits == <<"0", "1", "2", "3", "4", "5", "6", "7", "8", "9">>
IsDigit(c) == \E i \in DOMAIN Digits : Digits[i] = c

(* JsonValue: a type, and the content that type uses.                      *)
JsonValue(type) ==
    [type |-> type, text |-> <<>>, number |-> 0, isInteger |-> FALSE,
     items |-> <<>>, keys |-> <<>>]
Null == JsonValue("Null")
Boolean(b) == [JsonValue("Boolean") EXCEPT !.number = IF b THEN 1 ELSE 0]
Number(tenths) == [JsonValue("Number") EXCEPT !.number = tenths]
Integer(n) == [Number(Scale * n) EXCEPT !.isInteger = TRUE]
String(text) == [JsonValue("String") EXCEPT !.text = text]
Array(items) == [JsonValue("Array") EXCEPT !.items = items]
Object(keys, items) == [JsonValue("Object") EXCEPT !.keys = keys, !.items = items]

(* JsonValue::set: a key that is there already gets the new value.         *)
Set(object, key, value) ==
    LET i == SelectInSeq(object.keys, LAMBDA k : k = key)
    IN  IF i # 0 THEN [object EXCEPT !.items[i] = value]
        ELSE Object(Append(object.keys, key), Append(object.items, value))

-----------------------------------------------------------------------------
(* Writing. *)
EscapeLetter == "\"" :> "\"" @@ "\\" :> "\\" @@ "NL" :> "n"

(* A plausible bug: the backslash is not escaped.                          *)
EscapeOnlyQuotes(raw) ==
    <<"\"">> \o FlattenSeq([i \in DOMAIN raw |->
        IF raw[i] \in {"\"", "NL"} THEN <<"\\", EscapeLetter[raw[i]]>>
        ELSE IF raw[i] = "CTL" THEN <<"\\", "u", "0", "0", "0", "1">>
        ELSE <<raw[i]>>]) \o <<"\"">>

EscapeJsonString(raw) ==
    <<"\"">> \o FlattenSeq([i \in DOMAIN raw |->
        IF raw[i] \in DOMAIN EscapeLetter THEN <<"\\", EscapeLetter[raw[i]]>>
        ELSE IF raw[i] = "CTL" THEN <<"\\", "u", "0", "0", "0", "1">>
        ELSE <<raw[i]>>]) \o <<"\"">>

RECURSIVE Decimal(_)
Decimal(n) == IF n < 10 THEN <<Digits[n + 1]>>
              ELSE Append(Decimal(n \div 10), Digits[(n % 10) + 1])

Signed(n, digits) == IF n < 0 THEN <<"-">> \o digits ELSE digits
Size(n) == IF n < 0 THEN -n ELSE n

(* The unit of the last of the significant digits, and the nearest         *)
(* multiple of it, a tie to the even one.                                  *)
Unit(size) ==
    LET digits == Len(Decimal(size))
    IN  IF digits <= SignificantDigits THEN 1 ELSE 10 ^ (digits - SignificantDigits)

Rounded(size) ==
    LET unit == Unit(size)
        low == size \div unit
        rest == 2 * (size % unit)
    IN  unit * (IF rest > unit \/ (rest = unit /\ low % 2 = 1) THEN low + 1 ELSE low)

(* printf's %g: without trailing zeros, with an exponent of two digits     *)
(* when the number has more digits than are significant.  The digits are   *)
(* those of tenths, and the last of them that is not 0 is at last.         *)
Scientific(digits, last, exponent) ==
    <<digits[1]>>
    \o (IF last > 1 THEN <<".">> \o SubSeq(digits, 2, last) ELSE <<>>)
    \o <<"e", "+">> \o (IF exponent < 10 THEN <<"0">> ELSE <<>>) \o Decimal(exponent)

Plain(tenths, digits, last) ==
    Decimal(tenths \div Scale)
    \o (IF last = Len(digits) THEN <<".", digits[last]>> ELSE <<>>)

DigitsAsGeneral(tenths, digits) ==
    IF Len(digits) - 2 >= SignificantDigits
    THEN Scientific(digits, SelectLastInSeq(digits, LAMBDA d : d # "0"), Len(digits) - 2)
    ELSE Plain(tenths, digits, SelectLastInSeq(digits, LAMBDA d : d # "0"))

General(size) == DigitsAsGeneral(Rounded(size), Decimal(Rounded(size)))

PrintedInFull(v) ==
    /\ v.number % Scale = 0
    /\ Size(v.number) < Scale * (IF v.isInteger THEN ExactLimit ELSE PlainLimit)


FormatNumber(v) ==
    IF PrintedInFull(v) THEN Signed(v.number, Decimal(Size(v.number) \div Scale))
    ELSE Signed(v.number, General(Size(v.number)))

RECURSIVE SerializeJson(_)
SerializeJson(v) ==
    LET Separated(texts) ==
            FlattenSeq([i \in DOMAIN texts |->
                (IF i = 1 THEN <<>> ELSE <<",">>) \o texts[i]])
    IN  CASE v.type = "Null"    -> <<"n", "u", "l", "l">>
          [] v.type = "Boolean" -> IF v.number = 1 THEN <<"t", "r", "u", "e">>
                                   ELSE <<"f", "a", "l", "s", "e">>
          [] v.type = "Number"  -> FormatNumber(v)
          [] v.type = "String"  -> EscapeJsonString(v.text)
          [] v.type = "Array"   ->
               <<"[">> \o Separated([i \in DOMAIN v.items |-> SerializeJson(v.items[i])])
               \o <<"]">>
          [] v.type = "Object"  ->
               <<"{">> \o Separated([i \in DOMAIN v.items |->
                   EscapeJsonString(v.keys[i]) \o <<":">> \o SerializeJson(v.items[i])])
               \o <<"}">>

-----------------------------------------------------------------------------
(* Reading.  A parser takes the text and a position and returns the value  *)
(* and the position after it, 0 when the text is not accepted.             *)
Rejected == [value |-> Null, next |-> 0]
Accepted(value, next) == [value |-> value, next |-> next]
At(text, i, c) == i <= Len(text) /\ text[i] = c
Literal(text, i, word) == IsPrefix(word, SubSeq(text, i, Len(text)))

(* parse_string, from the character after the opening quote.               *)
RECURSIVE ParseStringRest(_, _, _)
ParseStringRest(text, i, soFar) ==
    IF i > Len(text) THEN Rejected
    ELSE IF text[i] = "\"" THEN Accepted(String(soFar), i + 1)
    ELSE IF text[i] # "\\" THEN ParseStringRest(text, i + 1, Append(soFar, text[i]))
    ELSE IF At(text, i + 1, "u")
    THEN IF i + 5 > Len(text) \/ \E k \in 2 .. 5 : ~IsDigit(text[i + k]) THEN Rejected
         ELSE ParseStringRest(text, i + 6, Append(soFar, "CTL"))
    ELSE IF i + 1 <= Len(text) /\ \E c \in DOMAIN EscapeLetter :
                                      EscapeLetter[c] = text[i + 1]
    THEN ParseStringRest(text, i + 2, Append(soFar,
             CHOOSE c \in DOMAIN EscapeLetter : EscapeLetter[c] = text[i + 1]))
    ELSE Rejected

ParseString(text, i) ==
    IF At(text, i, "\"") THEN ParseStringRest(text, i + 1, <<>>) ELSE Rejected

DigitValue(c) == CHOOSE d \in 0 .. 9 : Digits[d + 1] = c
NumberOf(digits) == FoldLeft(LAMBDA n, c : 10 * n + DigitValue(c), 0, digits)

(* The position after the longest run of the characters from i on, and     *)
(* after a sign at i, if there is one.                                     *)
AfterRun(text, i, characters) ==
    Min({k \in i .. Len(text) + 1 : ~\E c \in characters : At(text, k, c)})
AfterDigits(text, i) == AfterRun(text, i, {Digits[d] : d \in DOMAIN Digits})
AfterSign(text, i) == IF At(text, i, "-") \/ At(text, i, "+") THEN i + 1 ELSE i

(* What stod reads of a token: digits from start to the point and from     *)
(* there to stop, and a power of ten after an e; it throws without digits. *)
Shifted(n, places) == IF places >= 0 THEN n * 10 ^ places ELSE n \div 10 ^ (-places)
Power(token, start) == NumberOf(SubSeq(token, start, AfterDigits(token, start) - 1))
Exponent(token, i) ==
    IF At(token, i, "e") \/ At(token, i, "E")
    THEN Power(token, AfterSign(token, i + 1)) * (IF At(token, i + 1, "-") THEN -1 ELSE 1)
    ELSE 0

Magnitude(token, start, point, stop) ==
    Shifted(NumberOf(SubSeq(token, start, point - 1) \o SubSeq(token, point + 1, stop - 1)),
            1 + Exponent(token, stop) - (IF stop > point THEN stop - point - 1 ELSE 0))
FromPoint(token, start, point) ==
    Magnitude(token, start, point,
              IF At(token, point, ".") THEN AfterDigits(token, point + 1) ELSE point)
FromStart(token, start) == FromPoint(token, start, AfterDigits(token, start))

(* parse_number: the longest run of the characters of a number; it is an   *)
(* integer if it is written as one.                                        *)
NumberToken(token) ==
    [Number(FromStart(token, AfterSign(token, 1)) * (IF At(token, 1, "-") THEN -1 ELSE 1))
        EXCEPT !.isInteger = \A k \in DOMAIN token : token[k] \notin {".", "e", "E"}]

BeginsNumber(text, i) ==
    LET digit == IF At(text, i, ".") THEN i + 1 ELSE i
    IN  digit <= Len(text) /\ IsDigit(text[digit])

NumberUpTo(text, i, end) ==
    IF BeginsNumber(text, AfterSign(text, i))
    THEN Accepted(NumberToken(SubSeq(text, i, end - 1)), end)
    ELSE Rejected

ParseNumber(text, i) ==
    NumberUpTo(text, i,
        AfterRun(text, i, {Digits[d] : d \in DOMAIN Digits} \cup {"-", "+", ".", "e", "E"}))

RECURSIVE ParseValue(_, _)
RECURSIVE ParseMembers(_, _, _)
RECURSIVE ParseItems(_, _, _)

(* parse_object and parse_array, from where a member or an item begins.    *)
ParseMembers(text, i, object) ==
    LET key == ParseString(text, i)
        value == ParseValue(text, key.next + 1)
        grown == Set(object, key.value.text, value.value)
    IN  IF key.next = 0 \/ ~At(text, key.next, ":") THEN Rejected
        ELSE IF value.next = 0 THEN Rejected
        ELSE IF At(text, value.next, ",") THEN ParseMembers(text, value.next + 1, grown)
        ELSE IF At(text, value.next, "}") THEN Accepted(grown, value.next + 1)
        ELSE Rejected

ParseItems(text, i, array) ==
    LET value == ParseValue(text, i)
        grown == Array(Append(array.items, value.value))
    IN  IF value.next = 0 THEN Rejected
        ELSE IF At(text, value.next, ",") THEN ParseItems(text, value.next + 1, grown)
        ELSE IF At(text, value.next, "]") THEN Accepted(grown, value.next + 1)
        ELSE Rejected

ParseValue(text, i) ==
    IF i > Len(text) THEN Rejected
    ELSE CASE text[i] = "{" ->
                IF At(text, i + 1, "}") THEN Accepted(Object(<<>>, <<>>), i + 2)
                ELSE ParseMembers(text, i + 1, Object(<<>>, <<>>))
           [] text[i] = "[" ->
                IF At(text, i + 1, "]") THEN Accepted(Array(<<>>), i + 2)
                ELSE ParseItems(text, i + 1, Array(<<>>))
           [] text[i] = "\"" -> ParseString(text, i)
           [] text[i] = "t" -> IF Literal(text, i, <<"t", "r", "u", "e">>)
                               THEN Accepted(Boolean(TRUE), i + 4) ELSE Rejected
           [] text[i] = "f" -> IF Literal(text, i, <<"f", "a", "l", "s", "e">>)
                               THEN Accepted(Boolean(FALSE), i + 5) ELSE Rejected
           [] text[i] = "n" -> IF Literal(text, i, <<"n", "u", "l", "l">>)
                               THEN Accepted(Null, i + 4) ELSE Rejected
           [] OTHER -> ParseNumber(text, i)

(* parse_json: the whole text is one value.                                *)
ParseJson(text) ==
    LET parsed == ParseValue(text, 1)
    IN  [ok |-> parsed.next = Len(text) + 1, value |-> parsed.value]

-----------------------------------------------------------------------------
(* A number is read back as it was written if it is printed in full or has *)
(* no more digits than are significant; any other one is read back as the  *)
(* nearest number with that many digits, and is lost.                      *)
NumberReadsBack(v) ==
    LET parsed == ParseJson(FormatNumber(v))
        back == parsed.value.number
        unit == Unit(Size(v.number))
    IN  /\ parsed.ok /\ parsed.value.type = "Number"
        /\ (back = v.number) = (PrintedInFull(v) \/ v.number % unit = 0)
        /\ back # v.number => back % unit = 0 /\ 2 * Size(back - v.number) <= unit

(* All of a record but its numbers is read back as it was written, and a   *)
(* line that was torn anywhere is not read as a record: what MetricsStore  *)
(* relies on after a crash.                                                *)
OnlyWholeLinesParse(record) ==
    LET line == SerializeJson(record)
        parsed == ParseJson(line)
        Numbers == {i \in DOMAIN record.items : record.items[i].type = "Number"}
    IN  /\ parsed.ok /\ parsed.value.keys = record.keys
        /\ DOMAIN parsed.value.items = DOMAIN record.items
        /\ \A i \in DOMAIN record.items \ Numbers : parsed.value.items[i] = record.items[i]
        /\ \A k \in 0 .. Len(line) - 1 : ~ParseJson(SubSeq(line, 1, k)).ok
=============================================================================
