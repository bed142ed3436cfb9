------------------------------ MODULE MCCodecs ------------------------------
(***************************************************************************)
(* One instance of everything that is written at one place and read at     *)
(* another: headers of datagrams, HTTP messages, the fields in them, and   *)
(* paths.  A behaviour is about one of the four.                           *)
(***************************************************************************)
EXTENDS MCAAAHeader, MCHttp, MCFieldTexts, MCRouting

NoHeader ==
    /\ step = "none" /\ call = CHOOSE c \in Call : TRUE
    /\ header = <<0, 0>> /\ datagram = <<>>

NoMessage ==
    /\ message = [kind |-> "none", cut |-> TRUE] /\ pstep = "none"
    /\ stream = <<>> /\ good = TRUE /\ line = <<>> /\ parts = NoParts
    /\ header_fields = {}

Init ==
    /\ RoutingInit /\ TextInit
    /\ \/ HeaderInit /\ NoMessage
       \/ NoHeader /\ ParserInit
       \/ NoHeader /\ NoMessage

(* A path, or a value of a field, is typed one character at a time.        *)
Typed ==
    /\ step = "none" /\ pstep = "none"
    /\ \/ text = <<>> /\ UNCHANGED text /\ RoutingNext
       \/ path = <<>> /\ UNCHANGED path /\ TextNext

vars == <<headerVars, parserVars, path, text>>

Next ==
    \/ HeaderNext /\ UNCHANGED <<parserVars, path, text>>
    \/ ParserNext /\ UNCHANGED <<headerVars, path, text>>
    \/ Typed /\ UNCHANGED <<headerVars, parserVars>>

(* A call of parse runs until it returns.                                  *)
Spec == Init /\ [][Next]_vars /\ WF_vars(ParserNext /\ UNCHANGED <<headerVars, path, text>>)
=============================================================================
