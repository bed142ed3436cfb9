----------------------------- MODULE FieldTexts -----------------------------
(***************************************************************************)
(* Percent, QueryString and SemicolonSeparatedAttributes of                *)
(* src/lib/simple-web-server/utility.hpp.  A text is a sequence of bytes;  *)
(* a multimap is the set of its entries.                                   *)
(***************************************************************************)
EXTENDS Strings

Chr == [space |-> 32, quote |-> 34, percent |-> 37, and |-> 38, plus |-> 43,
        minus |-> 45, semicolon |-> 59, equals |-> 61]

Unreserved ==
    (48 .. 57) \cup (65 .. 90) \cup (97 .. 122) \cup {Chr.minus, 46, 95, 126}

HexDigit == [n \in 0 .. 15 |-> IF n < 10 THEN 48 + n ELSE 55 + n]

Encode(value) ==
    FlattenSeq([k \in DOMAIN value |->
        IF value[k] \in Unreserved THEN <<value[k]>>
        ELSE <<Chr.percent, HexDigit[value[k] \div 16], HexDigit[value[k] % 16]>>])

(* strtol in base 16: -1 for a byte that is no digit.                      *)
DigitValue(b) ==
    IF b \in 48 .. 57 THEN b - 48
    ELSE IF b \in 65 .. 70 THEN b - 55
    ELSE IF b \in 97 .. 102 THEN b - 87 ELSE -1

(* strtol of two characters: space and a sign are skipped, and it stops at *)
(* the first character that is no digit.                                   *)
HexValue(b, c) ==
    LET low == IF DigitValue(c) = -1 THEN 0 ELSE DigitValue(c)
    IN  IF DigitValue(b) # -1
          THEN IF DigitValue(c) = -1 THEN DigitValue(b) ELSE 16 * DigitValue(b) + low
        ELSE IF b \in {Chr.space, Chr.plus} \cup 9 .. 13 THEN low
        ELSE IF b = Chr.minus THEN (256 - low) % 256 ELSE 0

HasDigits(value, k) == k + 2 <= Len(value)

Decode(value) ==
    LET n == Len(value)
        from[k \in 1 .. n + 1] ==
            IF k > n THEN <<>>
            ELSE IF value[k] = Chr.percent /\ HasDigits(value, k)
              THEN <<HexValue(value[k + 1], value[k + 2])>> \o from[k + 3]
            ELSE <<IF value[k] = Chr.plus THEN Chr.space ELSE value[k]>>
                 \o from[k + 1]
    IN  from[1]

-----------------------------------------------------------------------------
(* QueryString::create, the fields in some order.                          *)
CreateQuery(fields) ==
    FlattenSeq([k \in DOMAIN fields |->
        (IF k = 1 THEN <<>> ELSE <<Chr.and>>)
        \o fields[k][1] \o <<Chr.equals>> \o Encode(fields[k][2])])

(* QueryString::parse: the scan's positions (npos is 0) at character c.    *)
QueryScan == [name_pos |-> 1, name_end_pos |-> 0, value_pos |-> 0,
              result |-> {}]

(* The field that ends before position c, if it has a name.                *)
QueryField(query, scan, c) ==
    LET name == SubSeq(query, scan.name_pos,
                       (IF scan.name_end_pos = 0 THEN c ELSE scan.name_end_pos) - 1)
        value == IF scan.value_pos = 0 THEN <<>>
                                       ELSE SubSeq(query, scan.value_pos, c - 1)
    IN  IF name = <<>> THEN {} ELSE {<<name, Decode(value)>>}

(* Mutant of NextField: the name begins with the separator.                *)
NextFieldAtAnd(scan, c) ==
    [scan EXCEPT !.name_pos = c, !.name_end_pos = 0, !.value_pos = 0]

NextField(scan, c) ==
    [scan EXCEPT !.name_pos = c + 1, !.name_end_pos = 0, !.value_pos = 0]

QueryStep(query, scan, c) ==
    CASE query[c] = Chr.and ->
            [NextField(scan, c) EXCEPT
                !.result = @ \cup QueryField(query, scan, c)]
      [] query[c] = Chr.equals ->
            [scan EXCEPT !.name_end_pos = c, !.value_pos = c + 1]
      [] OTHER -> scan

ParseQuery(query) ==
    LET last == FoldLeftDomain(LAMBDA scan, c : QueryStep(query, scan, c),
                               QueryScan, query)
    IN  last.result \cup QueryField(query, last, Len(query) + 1)

-----------------------------------------------------------------------------
(* SemicolonSeparatedAttributes::parse: the scan's positions (npos is 0).  *)
AttributeScan == [name_start_pos |-> 0, name_end_pos |-> 0,
                  value_start_pos |-> 0, result |-> {}]

Attribute(str, scan, nameEnd, value) ==
    {<<SubSeq(str, scan.name_start_pos, nameEnd - 1), Decode(value)>>}

(* Mutant of ValueStart: a quote is part of the value.                     *)
AtQuote(str, c) == c

ValueStart(str, c) == IF str[c] = Chr.quote /\ c < Len(str) THEN c + 1 ELSE c

(* What the character at position c does to the scan.                      *)
ScanAttribute(str, scan, c) ==
    LET ended(nameEnd, value) ==
            [AttributeScan EXCEPT !.result =
                scan.result \cup Attribute(str, scan, nameEnd, value)]
    IN  CASE scan.name_start_pos = 0 ->
                IF str[c] \in {Chr.space, Chr.semicolon} THEN scan
                ELSE [scan EXCEPT !.name_start_pos = c]
          [] scan.name_start_pos # 0 /\ scan.name_end_pos = 0 ->
                IF str[c] = Chr.semicolon THEN ended(c, <<>>)
                ELSE IF str[c] = Chr.equals THEN [scan EXCEPT !.name_end_pos = c]
                ELSE scan
          [] scan.name_end_pos # 0 /\ scan.value_start_pos = 0 ->
                [scan EXCEPT !.value_start_pos = ValueStart(str, c)]
          [] OTHER ->
                IF str[c] \in {Chr.quote, Chr.semicolon}
                  THEN ended(scan.name_end_pos, SubSeq(str, scan.value_start_pos, c - 1))
                  ELSE scan

(* After the last character; the last substr is cut off at the end of str, *)
(* so that a quote it is meant to leave out stays.                         *)
ParseAttributes(str) ==
    LET last == FoldLeftDomain(LAMBDA scan, c : ScanAttribute(str, scan, c),
                               AttributeScan, str)
    IN  last.result \cup
        CASE last.name_start_pos = 0 -> {}
          [] last.name_start_pos # 0 /\ last.name_end_pos = 0 ->
                Attribute(str, last, Len(str) + 1, <<>>)
          [] last.value_start_pos # 0 ->
                Attribute(str, last, last.name_end_pos,
                          After(str, last.value_start_pos - 1))
          [] OTHER -> {}
=============================================================================
