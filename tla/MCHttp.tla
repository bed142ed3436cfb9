------------------------------- MODULE MCHttp -------------------------------
(***************************************************************************)
(* Instances of HttpParser for TLC.  A letter stands for a word in which   *)
(* nothing is looked for.                                                  *)
(***************************************************************************)
EXTENDS HttpParser

(* No field, one, two of the same name, values with colons and spaces in   *)
(* them and an empty value; fields are in the order they are sent in.      *)
Headers ==
    LET fields == {<<<<"a">>, <<"b">>>>, <<<<"a">>, <<"b", ":", SP, "c">>>>,
                   <<<<"X">>, <<>>>>}
    IN  {<<>>} \cup { <<f>> : f \in fields } \cup { <<f, g>> : f, g \in fields }

Requests ==
    [method: {<<"G">>}, path: {<<"/">>, <<"/", "d", "?", "i">>},
     query_string: {<<>>, <<"q", "=", "/">>}, version: {<<"1">>},
     header: Headers]

Responses ==
    [version: {<<"1">>}, status_code: {<<"2">>}, status_text: {<<"O">>, <<"N", SP, "F">>},
     header: Headers, body: {<<>>, <<"x", LF, "y", ":">>}, length: {<<"n">>}]

(* Nothing, or the beginning of another request, follows.                  *)
WholeMessages ==
    { [kind |-> "request", cut |-> FALSE, of |-> r, text |-> RequestText(r) \o rest] :
         r \in Requests, rest \in {<<>>, <<"G", SP, "/", ":">>} }
    \cup
    { [kind |-> "response", cut |-> FALSE, of |-> r, text |-> ResponseText(r, r.length)] :
         r \in Responses }

(* Every beginning of a request, such as a recv of the proxy may return.   *)
CutRequests ==
    UNION { { [kind |-> "request", cut |-> TRUE, of |-> r, text |-> text] :
                 text \in Prefixes(RequestText(r)) } : r \in Requests }

AnyMessage == WholeMessages \cup CutRequests
=============================================================================
