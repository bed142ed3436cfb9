---------------------------- MODULE MCFieldTexts ----------------------------
(***************************************************************************)
(* The functions of FieldTexts on every short text, which is typed one     *)
(* character at a time.                                                    *)
(***************************************************************************)
EXTENDS FieldTexts

CONSTANTS
    Bytes,
    MaxText       \* bound: length of the text

(* A character of a std::string is a byte.                                 *)
ASSUME BytesAssumption == Bytes \subseteq 0 .. 255

VARIABLE text

TypeText(b) == Len(text) < MaxText /\ text' = Append(text, b)

TextInit == text = <<>>

TextNext == \E b \in Bytes : TypeText(b)

TextSpec == TextInit /\ [][TextNext]_text

(* The text is one of bytes.                                               *)
TypeTextOK == text \in Seq(Bytes)

(* parse finds in a query string the fields create put there, whatever     *)
(* their values: separators in a value are not taken for separators        *)
(* (utility.hpp:85 and 98).                                                *)
QueryRoundTrip ==
    LET fields == << <<<<97>>, text>>, <<<<98, 99>>, Reverse(text)>>, <<<<97>>, <<>>>> >>
    IN  ParseQuery(CreateQuery(fields)) = ToSet(fields)

(* parse finds every attribute of a header field with its value, quoted or *)
(* not, and in any place, whatever the value holds once it is encoded      *)
(* (utility.hpp:160).  A value that is neither quoted nor there is left    *)
(* out: it takes the rest of the field for itself.                         *)
AttributesKept ==
    LET name(c) == <<Chr.semicolon, Chr.space, c, Chr.equals>>
        quoted == <<Chr.quote>> \o Encode(text) \o <<Chr.quote>>
        field == <<102>> \o name(97) \o quoted \o name(98)
                 \o (IF text = <<>> THEN quoted ELSE Encode(text))
                 \o name(99) \o quoted \o <<Chr.semicolon>>
    IN  ParseAttributes(field) =
            { <<<<102>>, <<>>>>, <<<<97>>, text>>, <<<<98>>, text>>, <<<<99>>, text>> }
=============================================================================
