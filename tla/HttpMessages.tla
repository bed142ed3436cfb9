---------------------------- MODULE HttpMessages ----------------------------
(***************************************************************************)
(* HTTP messages as text: Request::to_string and Response::to_string       *)
(* (src/src/common/http.cpp), and the lines of a message as RequestMessage *)
(* and ResponseMessage of src/lib/simple-web-server/utility.hpp read them. *)
(***************************************************************************)
EXTENDS Strings

CR == "\r"

LF == "\n"

(***************************************************************************)
(* A header is the set of its fields <<name, value>>; the code's multimap  *)
(* has no order either.                                                    *)
(***************************************************************************)
Fields(header) ==
    FlattenSeq([k \in DOMAIN header |->
        header[k][1] \o <<":", SP>> \o header[k][2] \o <<CR, LF>>])

Marked(query) == <<"?">> \o query

(* Request::to_string; r.header has its fields in some order.              *)
RequestText(r) ==
    r.method \o <<SP>> \o r.path \o Marked(r.query_string)
    \o <<SP, "H", "T", "T", "P", "/">> \o r.version \o <<CR, LF>>
    \o Fields(r.header) \o <<CR, LF>>

(* Response::to_string; length is the text of the body's length.           *)
ResponseText(r, length) ==
    <<"H", "T", "T", "P", "/">> \o r.version \o <<SP>> \o r.status_code
    \o <<SP>> \o r.status_text \o <<CR, LF>> \o Fields(r.header)
    \o (IF r.body = <<>> THEN <<>>
        ELSE Fields(<< <<<<"L">>, length>> >>))
    \o <<CR, LF>> \o r.body

-----------------------------------------------------------------------------
NoParts == [method |-> <<>>, path |-> <<>>, query_string |-> <<>>,
            version |-> <<>>, status_code |-> <<>>]

Failed == [ok |-> FALSE, parts |-> NoParts]

(* RequestMessage::parse, the first line: METHOD PATH[?QUERY] HTTP/VERSION *)
(* and a last character that is dropped.                                   *)
RequestLine(line) ==
    LET m == Find(line, SP)                       \* method_end
        e == FindFrom(line, SP, m + 1)            \* path_and_query_string_end
        q == SelectLastInSubSeq(line, m + 1, e - 1, LAMBDA x : x = "?")
        p == FindFrom(line, "/", e + 1)            \* protocol_end
    IN  IF m = 0 \/ e = 0 \/ p = 0
           \/ SubSeq(line, e + 1, p - 1) # <<"H", "T", "T", "P">>
          THEN Failed
          ELSE [ok |-> TRUE,
                parts |-> [NoParts EXCEPT
                    !.method = Before(line, m),
                    !.path = SubSeq(line, m + 1, IF q = 0 THEN e - 1 ELSE q - 1),
                    !.query_string = IF q = 0 THEN <<>>
                                              ELSE SubSeq(line, q + 1, e - 1),
                    !.version = SubSeq(line, p + 1, Len(line) - 1)]]

(* ResponseMessage::parse, the first line: HTTP/VERSION STATUS.            *)
StatusLine(line) ==
    LET e == Find(line, SP)                       \* version_end
    IN  IF e = 0 \/ Len(line) <= 5 \/ e = Len(line)
          THEN Failed
          ELSE [ok |-> TRUE,
                parts |-> [NoParts EXCEPT
                    !.version = SubSeq(line, 6, IF e > 5 THEN e - 1 ELSE Len(line)),
                    !.status_code = SubSeq(line, e + 1, Len(line) - 1)]]

(* Mutant of Value: the line is not taken to end in a carriage return.     *)
ValueToTheEnd(line, start) == SubSeq(line, start, Len(line))

Value(line, start) == SubSeq(line, start, Len(line) - 1)

(* HttpHeader::parse, one line: the name up to the first colon, the value  *)
(* without leading spaces and without its last character.                  *)
FieldLine(line) ==
    LET c == Find(line, ":")                       \* param_end
        v == SelectInSubSeq(line, c + 1, Len(line), LAMBDA x : x # SP)
        start == IF v = 0 THEN Len(line) ELSE v    \* value_start
    IN  IF c = Len(line) THEN {}
        ELSE {<<Before(line, c), Value(line, start)>>}
=============================================================================
