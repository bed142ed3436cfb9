----------------------------- MODULE HttpClient -----------------------------
(***************************************************************************)
(* SimpleWeb::Client (src/lib/simple-web-server/client_http.hpp): requests *)
(* whose asynchronous operations are completed by the network, timed out,  *)
(* stopped, and handled by the threads that run the io_service, each of    *)
(* which first takes a lock of the client's ScopeRunner.                   *)
(*                                                                         *)
(* Of a response only the shape that read() tells apart is kept, of a      *)
(* connection the requests whose responses the server has yet to send.     *)
(***************************************************************************)
EXTENDS ScopeRunner, SequencesExt

CONSTANTS
    Requests,       \* the calls of request(), numbered in their order
    Connections,    \* the Connection objects there may be at a time
    NoRequest,
    MaxChunks,      \* bound: chunks of a response before the last
    MaxTroubles     \* bound: failures, timeouts and calls of stop()

ASSUME ClientAssumption ==
    /\ Requests \subseteq Nat /\ NoRequest \notin Requests
    /\ Connections # {}
    /\ MaxChunks \in Nat /\ MaxTroubles \in Nat

VARIABLES
    connections,    \* those kept for use by requests
    connection,     \* what each Connection object holds
    session,        \* what each Session object holds
    handler,        \* the request whose handler a thread runs
    troubles        \* failures, timeouts and calls of stop() still to come

clientVars == <<connections, connection, session, handler, troubles>>

vars == <<clientVars, scopeVars>>

(* Operations of a session that complete on their own.                     *)
Operations == {"resolve", "connect", "write", "read", "body", "line", "chunk", "rest"}

Over == {"none", "over", "dropped", "thrown"}

Live(r) == session[r].phase \notin Over

Connection ==
    [in_use: BOOLEAN, attempt_reconnect: BOOLEAN, open: BOOLEAN,
     timer: BOOLEAN, expired: BOOLEAN, responses: Seq(Requests)]

Session ==
    [phase: Operations \cup Over \cup {"started", "answering"},
     result: {"", "waiting", "ok", "eof", "full", "error", "aborted"},
     connection: Connections, response: SUBSET Requests,
     chunks: Nat, written: Nat, callbacks: Nat]

NewConnection ==
    [in_use |-> TRUE, attempt_reconnect |-> TRUE, open |-> FALSE,
     timer |-> FALSE, expired |-> FALSE, responses |-> <<>>]

NoSession ==
    [phase |-> "none", result |-> "", connection |-> CHOOSE c \in Connections : TRUE,
     response |-> {}, chunks |-> 0, written |-> 0, callbacks |-> 0]

(* Every variable stays within its type, the lock of ScopeRunner included, *)
(* which the handlers of a client take (client_http.hpp).                  *)
ClientTypeOK ==
    /\ ScopeTypeOK
    /\ connections \subseteq Connections
    /\ connection \in [Connections -> Connection]
    /\ session \in [Requests -> Session]
    /\ handler \in [Handlers -> Requests \cup {NoRequest}]
    /\ troubles \in 0 .. MaxTroubles

ClientInit ==
    /\ connections = {}
    /\ connection = [c \in Connections |-> NewConnection]
    /\ session = [r \in Requests |-> NoSession]
    /\ handler = [h \in Handlers |-> NoRequest]
    /\ troubles = MaxTroubles

(* The connections, when the step leaves some without anybody to hold them.*)
Held(f) ==
    [c \in Connections |->
        IF \/ c \in connections'
           \/ \E r \in Requests : session'[r].phase \notin Over /\ session'[r].connection = c
          THEN f[c] ELSE NewConnection]

(* The Connection objects that nobody holds, of which any will do: Fresh   *)
(* is one of them.  Connections bounds how many there may be.              *)
Unheld == {c \in Connections \ connections :
              \A r \in Requests : Live(r) => session[r].connection # c}

Fresh(c) == c \in Unheld /\ c = CHOOSE k \in Unheld : TRUE

Unused == {c \in connections : ~connection[c].in_use}

-----------------------------------------------------------------------------
(* request() *)

Reuse(c) ==
    /\ connection' = [connection EXCEPT ![c].attempt_reconnect = TRUE, ![c].in_use = TRUE]
    /\ UNCHANGED connections

(* get_connection.  A client that is being destroyed is not used.          *)
GetConnection(r) ==
    /\ session[r].phase = "none"
    /\ \A q \in Requests : q < r => session[q].phase # "none"
    /\ \A s \in Stoppers : sstate[s] = "idle"
    /\ \E c \in Connections :
          /\ session' = [session EXCEPT ![r].phase = "started", ![r].connection = c]
          /\ IF Unused # {}
               THEN c \in Unused /\ Reuse(c)
               ELSE /\ Fresh(c)
                    /\ connections' = connections \cup {c}
                    /\ UNCHANGED connection
    /\ UNCHANGED <<handler, troubles, scopeVars>>

(* An operation begins, with a timeout of its own.                         *)
Begin(r, op, c) ==
    /\ session' = [session EXCEPT ![r].phase = op, ![r].result = "waiting",
                                  ![r].connection = c]
    /\ connection' = [connection EXCEPT ![c].timer = TRUE]

(* connect, which writes at once on a connection that is open.             *)
Connect(r) ==
    /\ session[r].phase = "started"
    /\ LET c == session[r].connection
       IN  Begin(r, IF connection[c].open THEN "write" ELSE "resolve", c)
    /\ UNCHANGED <<connections, handler, troubles, scopeVars>>

-----------------------------------------------------------------------------
(* The network, the timers and the user *)

(* A response that fills the buffer is an error, which read() alone tells  *)
(* from others.                                                            *)
Outcomes(op) ==
    (IF op = "rest" THEN {"eof"} ELSE {"ok"})
    \cup (IF troubles = 0 THEN {} ELSE {"error"} \cup IF op = "read" THEN {"full"} ELSE {})

(* A response may break off in its header; it stays in the buffer.         *)
Received(op, result, awaited) ==
    IF op # "read" \/ awaited = <<>> \/ result = "full" THEN {{}}
    ELSE IF result = "ok" THEN {{Head(awaited)}} ELSE {{}, {Head(awaited)}}

Complete(r) ==
    LET c == session[r].connection
        op == session[r].phase
        awaited == connection[c].responses
    IN  /\ op \in Operations /\ session[r].result = "waiting"
        /\ \E result \in Outcomes(op) :
              /\ op = "read" /\ result = "ok" => awaited # <<>>
              /\ \E received \in Received(op, result, awaited) :
                    session' = [session EXCEPT ![r].result = result,
                        ![r].response = @ \cup received,
                        ![r].written = @ + IF op = "write" /\ result = "ok" THEN 1 ELSE 0]
              /\ connection' = [connection EXCEPT
                    ![c].open = @ \/ (op = "connect" /\ result = "ok"),
                    ![c].responses =
                        IF op = "write" /\ result = "ok" THEN Append(@, r)
                        ELSE IF op = "read" /\ result = "ok" THEN Tail(@) ELSE @]
              /\ troubles' = troubles - IF result \in {"ok", "eof"} THEN 0 ELSE 1
        /\ UNCHANGED <<connections, handler, scopeVars>>

(* socket->cancel(): of the operations on these connections those that     *)
(* have not completed are aborted; an operation that is between two reads  *)
(* or writes, or resolves, goes on.                                        *)
Cancel(cs) ==
    \E aborted \in SUBSET {r \in Requests :
            /\ session[r].phase \in Operations \ {"resolve"}
            /\ session[r].result = "waiting" /\ session[r].connection \in cs} :
        session' = [r \in Requests |->
            IF r \in aborted THEN [session[r] EXCEPT !.result = "aborted"] ELSE session[r]]

TimerExpires(c) ==
    /\ connection[c].timer
    /\ troubles > 0 /\ troubles' = troubles - 1
    /\ connection' = [connection EXCEPT ![c].timer = FALSE, ![c].expired = TRUE]
    /\ UNCHANGED <<connections, session, handler, scopeVars>>

(* The timer's handler, which takes no lock; by now the operation it was   *)
(* set for may have given way to another.                                  *)
TimerHandler(c) ==
    /\ connection[c].expired
    /\ Cancel({c})
    /\ connection' = [connection EXCEPT ![c].expired = FALSE]
    /\ UNCHANGED <<connections, handler, troubles, scopeVars>>

(* stop().                                                                 *)
StopClient ==
    /\ \A s \in Stoppers : sstate[s] = "idle"
    /\ connections # {}
    /\ troubles > 0 /\ troubles' = troubles - 1
    /\ Cancel(connections)
    /\ connections' = {}
    /\ connection' = Held(connection)
    /\ UNCHANGED <<handler, scopeVars>>

(* ~ClientBase.                                                            *)
Destroy(s) ==
    /\ \A r \in Requests : session[r].phase # "started"
    /\ Stop(s)
    /\ UNCHANGED clientVars

HandlersStopped(s) == StopReturns(s) /\ UNCHANGED clientVars

DestroyStops ==
    /\ \E s \in Stoppers : sstate[s] = "returned"
    /\ connections # {}
    /\ Cancel(connections)
    /\ connections' = {}
    /\ connection' = Held(connection)
    /\ UNCHANGED <<handler, troubles, scopeVars>>

-----------------------------------------------------------------------------
(* The handlers of the operations *)

(* A thread takes up a completed operation, and asks for the lock.         *)
TakeUp(h, r) ==
    /\ session[r].phase \in Operations /\ session[r].result # "waiting"
    /\ r \notin Range(handler)
    /\ ContinueLock(h)
    /\ handler' = [handler EXCEPT ![h] = r]
    /\ connection' = [connection EXCEPT ![session[r].connection].timer = FALSE]
    /\ UNCHANGED <<connections, session, troubles>>

Locked(h) == (Enter(h) \/ TryAgain(h)) /\ UNCHANGED clientVars

(* The session is over; its data no longer matter.                         *)
End(r, phase) ==
    /\ session' = [session EXCEPT ![r] =
          [NoSession EXCEPT !.phase = phase, !.callbacks = session[r].callbacks
                                + IF phase = "over" THEN 1 ELSE 0]]
    /\ connection' = Held(connection)

(* The client is gone: the session ends without a callback.                *)
Drop(h) ==
    /\ Canceled(h)
    /\ UNCHANGED <<connections, troubles>>
    /\ End(handler[h], "dropped")
    /\ handler' = [handler EXCEPT ![h] = NoRequest]

Return(h) == Leave(h) /\ handler' = [handler EXCEPT ![h] = NoRequest] /\ UNCHANGED <<troubles>>

(* Thread h runs the handler of this operation of r, with this result.     *)
Runs(h, r, op, result) ==
    /\ hstate[h] = "inside" /\ handler[h] = r
    /\ session[r].phase = op /\ session[r].result = result

(* One operation follows another: what read() and                          *)
(* read_chunked_transfer_encoded() do after the header, a line or a chunk. *)
Follows(r) ==
    CASE session[r].phase = "resolve" -> {"connect"}
      [] session[r].phase = "connect" -> {"write"}
      [] session[r].phase = "write" -> {"read"}
      [] session[r].phase = "read" -> {"body", "line", "rest"}
      [] session[r].phase = "line" -> IF session[r].chunks < MaxChunks THEN {"line", "chunk"}
                                                                    ELSE {"chunk"}
      [] session[r].phase = "chunk" -> IF session[r].chunks < MaxChunks THEN {"line"} ELSE {}
      [] OTHER -> {}

GoOn(h, r) ==
    LET c == session[r].connection
        op == session[r].phase
    IN  /\ Runs(h, r, op, "ok")
        /\ \E next \in Follows(r) :
              session' = [session EXCEPT ![r].phase = next, ![r].result = "waiting",
                             ![r].chunks = @ + IF op # "read" /\ next = "line" THEN 1 ELSE 0]
        /\ connection' = [connection EXCEPT ![c].timer = TRUE,
                             ![c].attempt_reconnect = @ \/ op = "read"]
        /\ UNCHANGED connections
        /\ Return(h)

(* Mutant of NewAttempt: the new connection may be given up as well.       *)
AnyAttempt == NewConnection

(* Mutant of NewAttempt: the new connection is not marked as in use.       *)
UnmarkedAttempt == [NewConnection EXCEPT !.in_use = FALSE, !.attempt_reconnect = FALSE]

NewAttempt == [NewConnection EXCEPT !.attempt_reconnect = FALSE]

MayReconnect(r) ==
    /\ connection[session[r].connection].attempt_reconnect
    /\ session[r].connection \in connections

(* read() has failed on a connection the server may have closed: the       *)
(* request is sent again on a new one.                                     *)
Reconnect(h, r) ==
    /\ Runs(h, r, "read", "error") /\ MayReconnect(r)
    /\ \E c \in Connections :
          /\ Fresh(c)
          /\ connections' = (connections \ {session[r].connection}) \cup {c}
          /\ session' = [session EXCEPT ![r].phase = "resolve", ![r].result = "waiting",
                                        ![r].connection = c]
          /\ connection' = Held([connection EXCEPT ![c] = [NewAttempt EXCEPT !.timer = TRUE]])
    /\ Return(h)

(* Mutant of Failed: an operation that was aborted is not reported.        *)
FailedOnly(r) == session[r].result \in {"full", "error"}

Failed(r) == session[r].result \in {"full", "error", "aborted"}

(* Is the callback called, and has it an error code?  After a header, or   *)
(* the length of a chunk, it may be that of protocol_error, after a chunk  *)
(* that of message_size.                                                   *)
ErrorCodes(r) ==
    LET op == session[r].phase
    IN  CASE session[r].result = "ok" ->
                (IF op \in {"read", "body", "line", "chunk"} THEN {"none"} ELSE {})
                \cup IF op \in {"read", "line", "chunk"} THEN {"some"} ELSE {}
          [] session[r].result = "eof" -> {"none"}
          [] OTHER ->
                IF Failed(r) /\ ~(session[r].result = "error" /\ op = "read" /\ MayReconnect(r))
                  THEN {"some"} ELSE {}

(* Mutant of Discarded: a connection that failed is kept.                  *)
Kept(c, ec) == {}

Discarded(c, ec) == IF ec = "some" THEN {c} ELSE {}

(* Of the connections that are not in use one is kept, whichever the set   *)
(* yields first.                                                           *)
Pruned(left, unused) ==
    IF unused = {} THEN {left} ELSE { (left \ unused) \cup {k} : k \in unused }

(* The first half of session->callback, under connections_mutex.           *)
Release(h, r) ==
    LET c == session[r].connection
    IN  /\ hstate[h] = "inside" /\ handler[h] = r /\ session[r].phase \in Operations
        /\ \E ec \in ErrorCodes(r) :
              /\ session' = [session EXCEPT ![r].phase = "answering", ![r].result = ""]
              /\ LET left == connections \ Discarded(c, ec)
                 IN  connections' \in Pruned(left, left \cap (Unused \cup {c}))
        /\ connection' = Held([connection EXCEPT ![c].in_use = FALSE,
                             ![c].attempt_reconnect = @ \/ Runs(h, r, "read", "ok")])
        /\ UNCHANGED <<handler, troubles, scopeVars>>

(* The second: the user's callback.                                        *)
Answer(h, r) ==
    /\ hstate[h] = "inside" /\ handler[h] = r /\ session[r].phase = "answering"
    /\ UNCHANGED connections
    /\ End(r, "over")
    /\ Return(h)

(* stoull throws: the exception leaves the handler and io_service::run.    *)
LengthThrows(h, r) ==
    /\ Runs(h, r, "read", "ok")
    /\ UNCHANGED connections
    /\ End(r, "thrown")
    /\ Return(h)

HandlerStep(h) ==
    \/ Locked(h) \/ Drop(h)
    \/ \E r \in Requests :
          GoOn(h, r) \/ Reconnect(h, r) \/ Release(h, r) \/ Answer(h, r) \/ LengthThrows(h, r)

ClientNext ==
    \/ \E r \in Requests : GetConnection(r) \/ Connect(r) \/ Complete(r)
    \/ \E c \in Connections : TimerExpires(c) \/ TimerHandler(c)
    \/ StopClient \/ DestroyStops
    \/ \E s \in Stoppers : Destroy(s) \/ HandlersStopped(s)
    \/ \E h \in Handlers : HandlerStep(h) \/ \E r \in Requests : TakeUp(h, r)

Init == ClientInit /\ ScopeInit

ClientSpec == Init /\ [][ClientNext]_vars

(***************************************************************************)
(* The io_service is run: an operation completes some day (the peer        *)
(* answers or the connection breaks), a completed one is taken up, and     *)
(* every thread gets to run.  Timers may be late and users do as they like.*)
(***************************************************************************)
FairClientSpec ==
    /\ ClientSpec
    /\ \A r \in Requests : WF_vars(Connect(r)) /\ WF_vars(Complete(r))
    /\ WF_vars(\E h \in Handlers, r \in Requests : TakeUp(h, r))
    /\ \A h \in Handlers : WF_vars(HandlerStep(h))
    /\ \A s \in Stoppers : WF_vars(HandlersStopped(s))

-----------------------------------------------------------------------------
(* No two requests use a connection at a time, whether it was found in the *)
(* pool, made for a request or for a second attempt (client_http.hpp, the  *)
(* in_use flags, set under connections_mutex and read by other threads).   *)
OneRequestEach ==
    \A r, q \in Requests :
        r # q /\ Live(r) /\ Live(q)
        /\ session[r].phase # "answering" /\ session[q].phase # "answering" =>
            session[r].connection # session[q].connection

(* What a request gets is the response to it, also on a connection that    *)
(* served a request that timed out, was stopped or was sent again: a       *)
(* connection on which a response is still to come is never used again     *)
(* (client_http.hpp:251, the connections erased by the callback).          *)
OwnAnswer == \A r \in Requests : session[r].response \subseteq {r}

(* A request is sent to the server twice at most, however often it closes  *)
(* the connection (client_http.hpp:551, attempt_reconnect).                *)
SentTwiceAtMost == \A r \in Requests : session[r].written <= 2

(* When ~ClientBase is past handler_runner->stop(), no callback runs and   *)
(* no connection is added any more, whatever was under way                 *)
(* (client_http.hpp:370, against the handlers' continue_lock).             *)
NothingAfterStop ==
    [][(\E s \in Stoppers : sstate[s] = "returned") =>
          /\ connections' \subseteq connections
          /\ \A r \in Requests : session'[r].callbacks = session[r].callbacks]_vars

(* Every request ends with its callback, unless the client is destroyed or *)
(* the server sends a Content-Length that is no number: timeouts, stop(),  *)
(* closed connections and full buffers are all reported.                   *)
EveryRequestCalledBack ==
    <>[](\A r \in Requests :
            \/ session[r].phase = "over" /\ session[r].callbacks = 1
            \/ session[r].phase \in {"none", "dropped", "thrown"})
=============================================================================
