----------------------------- MODULE HttpParser -----------------------------
(***************************************************************************)
(* RequestMessage::parse, ResponseMessage::parse and HttpHeader::parse     *)
(* (src/lib/simple-web-server/utility.hpp) as a state machine over a       *)
(* std::istream: a step is one getline and what is done with the line.     *)
(***************************************************************************)
EXTENDS HttpMessages

CONSTANT Messages    \* [kind, cut, of, text]: what the parser is given, and
                     \* the request or response it is the text of, or (cut)
                     \* the beginning of that text

(* Texts without characters that end them.                                 *)
Without(ends, t) == t \in Seq(STRING) /\ Range(t) \cap ends = {}

SoundField(f) ==
    /\ f \in Seq(STRING) \X Seq(STRING)
    /\ Without({":", LF}, f[1]) /\ Without({LF}, f[2])
    /\ f[2] # <<>> => f[2][1] # SP

SoundHeader(header) ==
    header \in Seq(Seq(STRING) \X Seq(STRING)) /\ \A k \in DOMAIN header : SoundField(header[k])

SoundRequest(r) ==
    /\ r \in [method: Seq(STRING), path: Seq(STRING), query_string: Seq(STRING),
              version: Seq(STRING), header: Seq(Seq(STRING) \X Seq(STRING))]
    /\ Without({SP, LF}, r.method) /\ Without({SP, LF}, r.path)
    /\ Without({SP, "?", LF}, r.query_string) /\ Without({LF}, r.version)
    /\ SoundHeader(r.header)

SoundResponse(r) ==
    /\ r \in [version: Seq(STRING), status_code: Seq(STRING), status_text: Seq(STRING),
              header: Seq(Seq(STRING) \X Seq(STRING)), body: Seq(STRING), length: Seq(STRING)]
    /\ Without({SP, LF}, r.version) /\ Without({LF}, r.status_code)
    /\ Without({LF}, r.status_text) /\ SoundHeader(r.header)
    /\ SoundField(<< <<"L">>, r.length>>)

(* No part of a message has the character that ends it, and no value       *)
(* begins with a space, as in the messages of the programs (device.cpp and *)
(* the tests write them).                                                  *)
ASSUME MessagesAssumption ==
    \A m \in Messages :
        /\ m.cut \in BOOLEAN /\ m.text \in Seq(STRING)
        /\ \/ m.kind = "request" /\ SoundRequest(m.of)
           \/ m.kind = "response" /\ SoundResponse(m.of)
        /\ LET whole == IF m.kind = "request" THEN RequestText(m.of)
                                             ELSE ResponseText(m.of, m.of.length)
           IN  IF m.cut THEN IsPrefix(m.text, whole) ELSE IsPrefix(whole, m.text)

-----------------------------------------------------------------------------
VARIABLES
    message,    \* what is being parsed
    stream,     \* characters not yet read
    good,       \* no end of the stream met, no error
    line,
    pstep,      \* "start", "header", "fields", "done" or "failed"
    parts,      \* what the first line says
    header_fields    \* of the header, as a set

parserVars == <<message, stream, good, line, pstep, parts, header_fields>>

ParserInit ==
    /\ message \in Messages
    /\ stream = message.text
    /\ good = TRUE
    /\ line = <<>>
    /\ pstep = "start"
    /\ parts = NoParts
    /\ header_fields = {}

(* Mutant of NextLine: a stream that has ended yields an empty line.       *)
ErasedLine(text) == IF ~good THEN <<>> ELSE Before(text, Find(text, LF))

(* std::getline, as the standard has it: a stream that is not good leaves  *)
(* the line as it was, and one that ends without a newline is no longer    *)
(* good, whether or not there were characters.                             *)
NextLine(text) ==
    IF ~good THEN line
    ELSE Before(text, Find(text, LF))

getline ==
    /\ line' = NextLine(stream)
    /\ good' = (good /\ Has(stream, LF))
    /\ stream' = IF Has(stream, LF) THEN After(stream, Find(stream, LF)) ELSE <<>>

(* The first line, and the first getline of HttpHeader::parse.             *)
ParseFirstLine ==
    /\ pstep = "start" /\ line = <<>>
    /\ getline
    /\ LET first == IF message.kind = "request" THEN RequestLine(line')
                                                ELSE StatusLine(line')
       IN  /\ parts' = first.parts
           /\ pstep' = IF first.ok THEN "header" ELSE "failed"
    /\ UNCHANGED <<message, header_fields>>

HeaderBegins ==
    /\ pstep = "header"
    /\ IF good THEN getline ELSE line' = <<>> /\ UNCHANGED <<stream, good>>
    /\ pstep' = "fields"
    /\ UNCHANGED <<message, parts, header_fields>>

(* Mutant of ParseField: the next line is not read.                        *)
ParseSameField ==
    /\ pstep = "fields" /\ Has(line, ":")
    /\ header_fields' = header_fields \cup FieldLine(line)
    /\ UNCHANGED <<message, stream, good, line, pstep, parts>>

ParseField ==
    /\ pstep = "fields" /\ Has(line, ":")
    /\ header_fields' = header_fields \cup FieldLine(line)
    /\ getline
    /\ UNCHANGED <<message, pstep, parts>>

HeaderEnds ==
    /\ pstep = "fields" /\ ~Has(line, ":")
    /\ pstep' = "done"
    /\ UNCHANGED <<message, stream, good, line, parts, header_fields>>

ParserNext == ParseFirstLine \/ HeaderBegins \/ ParseField \/ HeaderEnds

ParserSpec == ParserInit /\ [][ParserNext]_parserVars

-----------------------------------------------------------------------------
(* What parse is to find in a message made of m.                           *)
PartsOf(m, kind) ==
    IF kind = "request"
      THEN [NoParts EXCEPT !.method = m.method, !.path = m.path,
                           !.query_string = m.query_string,
                           !.version = m.version]
      ELSE [NoParts EXCEPT !.version = m.version,
                !.status_code = m.status_code \o <<SP>> \o m.status_text]

LengthField(m) ==
    IF "length" \in DOMAIN m /\ m.body # <<>> THEN {<<<<"L">>, m.length>>} ELSE {}

(* A message that to_string wrote is read back by parse as it was, also    *)
(* when other text follows it (http.cpp, the separators, against           *)
(* utility.hpp, the characters that are looked for and dropped).           *)
MessageSurvives ==
    pstep \in {"done", "failed"} /\ ~message.cut =>
        /\ pstep = "done"
        /\ parts = PartsOf(message.of, message.kind)
        /\ header_fields = ToSet(message.of.header) \cup LengthField(message.of)

(* When parse accepts a request of which only the beginning is there, it   *)
(* has the method, path and query that were sent, and no field that was    *)
(* not: a value that is cut short is not taken for the whole               *)
(* (utility.hpp, the character dropped at the end of each line).           *)
NothingInvented ==
    pstep = "done" /\ message.kind = "request" =>
        /\ parts.method = message.of.method
        /\ parts.path = message.of.path
        /\ parts.query_string = message.of.query_string
        /\ header_fields \subseteq ToSet(message.of.header)

(* RequestMessage::parse and ResponseMessage::parse return from a message  *)
(* that to_string wrote (utility.hpp:143, the loop that ends with a line   *)
(* without a colon).                                                       *)
WholeParseEnds ==
    pstep = "start" /\ ~message.cut ~> pstep \in {"done", "failed"}
=============================================================================
