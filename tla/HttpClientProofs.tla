-------------------------- MODULE HttpClientProofs --------------------------
(***************************************************************************)
(* Theorems about HttpClient, for any threads, requests and connections.   *)
(* A client does to the lock only what ScopeRunner allows, so that what is *)
(* proved of ScopeRunner holds of the client; with the types of the        *)
(* sessions, that gives what a client may still do after stop.             *)
(* The last part is about its connections.                                 *)
(***************************************************************************)
EXTENDS HttpClient, FiniteSetTheorems, TLAPS

-----------------------------------------------------------------------------
(***************************************************************************)
(* ScopeRunner, for any number of threads.  The invariant that carries its *)
(* theorems is that count is the number of handlers inside, or -1 with     *)
(* nobody inside.                                                          *)
(***************************************************************************)
CountIsInside ==
    IF count = -1 THEN Inside = {} ELSE count = Cardinality(Inside)

ReturnedIsStopped ==
    \A s \in Stoppers : sstate[s] = "returned" => count = -1

ScopeInv == ScopeTypeOK /\ CountIsInside /\ ReturnedIsStopped

LEMMA InsideFinite == IsFiniteSet(Inside) /\ Cardinality(Inside) \in Nat
<1>1. IsFiniteSet(Inside)
  BY ScopeAssumption, FS_Subset DEF Inside
<1>2. QED
  BY <1>1, FS_CardinalityType

LEMMA ScopeInit_Inv == ScopeInit => ScopeInv
<1> SUFFICES ASSUME ScopeInit PROVE ScopeInv
  OBVIOUS
<1>1. ScopeTypeOK /\ ReturnedIsStopped
  BY ScopeAssumption DEF ScopeInit, ScopeTypeOK, ReturnedIsStopped
<1>2. Inside = {}
  BY DEF ScopeInit, Inside
<1>3. CountIsInside
  BY <1>2, FS_EmptySet DEF CountIsInside, ScopeInit
<1>4. QED
  BY <1>1, <1>3 DEF ScopeInv

(* A handler that is inside when nobody was stopped keeps count above 0.   *)
LEMMA SomeoneInside ==
    ASSUME ScopeInv, NEW h \in Inside
    PROVE  count \in Nat /\ count = Cardinality(Inside) /\ count > 0
<1>1. count # -1 /\ count = Cardinality(Inside) /\ count \in Nat
  BY DEF ScopeInv, CountIsInside, ScopeTypeOK
<1>2. Cardinality(Inside) # 0
  BY InsideFinite, FS_EmptySet
<1>3. QED
  BY <1>1, <1>2

LEMMA EnterKeepsInv ==
    ASSUME ScopeInv, NEW h \in Handlers, Enter(h) PROVE ScopeInv'
<1> USE DEF ScopeInv, ScopeTypeOK
<1>1. count \in Nat /\ count' = count + 1 /\ h \notin Inside
  BY DEF Enter, Unchanged, Inside
<1>2. Inside' = Inside \cup {h}
  BY DEF Enter, Inside
<1>3. Cardinality(Inside') = Cardinality(Inside) + 1
  BY <1>1, <1>2, InsideFinite, FS_AddElement
<1>4. count' = Cardinality(Inside') /\ count' # -1
  BY <1>1, <1>3, InsideFinite DEF CountIsInside
<1>5. \A s \in Stoppers : sstate[s] # "returned"
  BY <1>1 DEF ReturnedIsStopped
<1>6. ScopeTypeOK'
  BY <1>1 DEF Enter
<1>7. CountIsInside'
  BY <1>4 DEF CountIsInside
<1>8. ReturnedIsStopped'
  BY <1>5 DEF ReturnedIsStopped, Enter
<1>9. QED
  BY <1>6, <1>7, <1>8

LEMMA LeaveKeepsInv ==
    ASSUME ScopeInv, NEW h \in Handlers, Leave(h) PROVE ScopeInv'
<1> USE DEF ScopeInv, ScopeTypeOK
<1>1. h \in Inside
  BY DEF Leave, Inside
<1>2. count \in Nat /\ count > 0 /\ count = Cardinality(Inside)
  BY <1>1, SomeoneInside
<1>3. Inside' = Inside \ {h}
  BY DEF Leave, Inside
<1>4. Cardinality(Inside') = Cardinality(Inside) - 1
  BY <1>1, <1>3, InsideFinite, FS_RemoveElement
<1>5. count' = Cardinality(Inside') /\ count' \in Nat
  BY <1>2, <1>4 DEF Leave
<1>6. \A s \in Stoppers : sstate[s] # "returned"
  BY <1>2 DEF ReturnedIsStopped
<1>7. QED
  BY <1>5, <1>6 DEF CountIsInside, ReturnedIsStopped, Leave

(* The steps that leave count alone leave the handlers inside as well.     *)
LEMMA OtherStepsKeepInv ==
    ASSUME ScopeInv, UNCHANGED count, Inside' = Inside, ScopeTypeOK', UNCHANGED sstate
    PROVE  ScopeInv'
BY DEF ScopeInv, CountIsInside, ReturnedIsStopped

LEMMA StopKeepsInv ==
    ASSUME ScopeInv, NEW s \in Stoppers, Stop(s) \/ StopReturns(s) PROVE ScopeInv'
<1> USE DEF ScopeInv, ScopeTypeOK
<1>1. Inside' = Inside
  BY DEF Stop, StopReturns, Inside
<1>2. CASE Stop(s)
  BY <1>1, <1>2 DEF Stop, CountIsInside, ReturnedIsStopped
<1>3. CASE StopReturns(s)
  <2>1. Inside = {}
    BY <1>3, InsideFinite, FS_EmptySet DEF StopReturns, CountIsInside
  <2>2. QED
    BY <1>1, <1>3, <2>1 DEF StopReturns, CountIsInside, ReturnedIsStopped
<1>4. QED
  BY <1>2, <1>3

LEMMA ScopeNext_Inv == ScopeInv /\ [ScopeNext]_scopeVars => ScopeInv'
<1> SUFFICES ASSUME ScopeInv, [ScopeNext]_scopeVars PROVE ScopeInv'
  OBVIOUS
<1>1. CASE UNCHANGED scopeVars
  BY <1>1 DEF scopeVars, ScopeInv, ScopeTypeOK, CountIsInside, ReturnedIsStopped, Inside
<1>2. ASSUME NEW h \in Handlers, HandlerNext(h) PROVE ScopeInv'
  <2>1. CASE ContinueLock(h)
    <3>1. Inside' = Inside
      BY <2>1 DEF ContinueLock, Inside, ScopeInv, ScopeTypeOK
    <3>2. ScopeTypeOK'
      BY <2>1, ScopeAssumption DEF ContinueLock, ScopeInv, ScopeTypeOK
    <3>3. QED
      BY <2>1, <3>1, <3>2, OtherStepsKeepInv DEF ContinueLock
  <2>2. CASE Enter(h)
    BY <2>2, EnterKeepsInv
  <2>3. CASE TryAgain(h)
    <3>1. Inside' = Inside /\ ScopeTypeOK'
      BY <2>3 DEF TryAgain, Inside, ScopeInv, ScopeTypeOK
    <3>2. QED
      BY <2>3, <3>1, OtherStepsKeepInv DEF TryAgain
  <2>4. CASE Canceled(h)
    <3>1. Inside' = Inside /\ ScopeTypeOK'
      BY <2>4 DEF Canceled, Inside, ScopeInv, ScopeTypeOK
    <3>2. QED
      BY <2>4, <3>1, OtherStepsKeepInv DEF Canceled
  <2>5. CASE Leave(h)
    BY <2>5, LeaveKeepsInv
  <2>6. QED
    BY <1>2, <2>1, <2>2, <2>3, <2>4, <2>5 DEF HandlerNext
<1>3. ASSUME NEW s \in Stoppers, Stop(s) \/ StopReturns(s) PROVE ScopeInv'
  BY <1>3, StopKeepsInv
<1>4. QED
  BY <1>1, <1>2, <1>3 DEF ScopeNext

(* count is never less than -1, and every local within its type.           *)
THEOREM ScopeTypeCorrect == ScopeSpec => []ScopeTypeOK
<1>1. ScopeInv => ScopeTypeOK
  BY DEF ScopeInv
<1>2. QED
  BY <1>1, ScopeInit_Inv, ScopeNext_Inv, PTL DEF ScopeSpec

(* However many threads compete, when a stop has returned no handler is in *)
(* a scope, and none gets into one afterwards (utility.hpp, ScopeRunner).  *)
THEOREM StoppedMeansOutsideHolds == ScopeSpec => []StoppedMeansOutside
<1>1. ScopeInv => StoppedMeansOutside
  BY DEF ScopeInv, CountIsInside, ReturnedIsStopped, StoppedMeansOutside
<1>2. QED
  BY <1>1, ScopeInit_Inv, ScopeNext_Inv, PTL DEF ScopeSpec

-----------------------------------------------------------------------------
(* The client *)

(* The steps of a client, each as one operation on its lock or none.       *)
LEMMA ClientStepIsScopeStep == [ClientNext]_vars => [ScopeNext]_scopeVars
<1> SUFFICES ASSUME [ClientNext]_vars PROVE [ScopeNext]_scopeVars
  OBVIOUS
<1>1. CASE UNCHANGED vars
  BY <1>1 DEF vars
<1>2. ASSUME NEW r \in Requests, GetConnection(r) \/ Connect(r) \/ Complete(r)
      PROVE  UNCHANGED scopeVars
  BY <1>2 DEF GetConnection, Connect, Complete
<1>3. ASSUME NEW c \in Connections, TimerExpires(c) \/ TimerHandler(c)
      PROVE  UNCHANGED scopeVars
  BY <1>3 DEF TimerExpires, TimerHandler
<1>4. CASE StopClient \/ DestroyStops
  BY <1>4 DEF StopClient, DestroyStops
<1>5. ASSUME NEW s \in Stoppers, Destroy(s) \/ HandlersStopped(s) PROVE ScopeNext
  BY <1>5 DEF Destroy, HandlersStopped, ScopeNext
<1>6. ASSUME NEW h \in Handlers, NEW r \in Requests, TakeUp(h, r) PROVE ScopeNext
  BY <1>6 DEF TakeUp, ScopeNext, HandlerNext
<1>7. ASSUME NEW h \in Handlers, HandlerStep(h) PROVE [ScopeNext]_scopeVars
  <2>1. CASE Locked(h)
    BY <2>1 DEF Locked, ScopeNext, HandlerNext
  <2>2. CASE Drop(h)
    BY <2>2 DEF Drop, ScopeNext, HandlerNext
  <2>3. ASSUME NEW r \in Requests, Release(h, r) PROVE UNCHANGED scopeVars
    BY <2>3 DEF Release
  <2>4. ASSUME NEW r \in Requests,
               GoOn(h, r) \/ Reconnect(h, r) \/ Answer(h, r) \/ LengthThrows(h, r)
        PROVE  ScopeNext
    <3>1. Leave(h)
      BY <2>4 DEF GoOn, Reconnect, Answer, LengthThrows, Return
    <3>2. QED
      BY <3>1 DEF ScopeNext, HandlerNext
  <2>5. QED
    BY <1>7, <2>1, <2>2, <2>3, <2>4 DEF HandlerStep
<1>8. QED
  BY <1>1, <1>2, <1>3, <1>4, <1>5, <1>6, <1>7 DEF ClientNext

(* A client uses its ScopeRunner as ScopeRunner is specified, so that no   *)
(* handler is in a scope when ~ClientBase is past stop (client_http.hpp).  *)
THEOREM ClientStoppedMeansOutside == ClientSpec => []StoppedMeansOutside
<1>1. ScopeInv => StoppedMeansOutside
  BY DEF ScopeInv, CountIsInside, ReturnedIsStopped, StoppedMeansOutside
<1>2. ScopeInv /\ [ClientNext]_vars => ScopeInv'
  BY ClientStepIsScopeStep, ScopeNext_Inv
<1>3. QED
  BY <1>1, <1>2, ScopeInit_Inv, PTL DEF ClientSpec, Init

-----------------------------------------------------------------------------
(* Types *)

LEMMA NewConnectionType == NewConnection \in Connection
BY DEF NewConnection, Connection

LEMMA NoSessionType == NoSession \in Session
BY ClientAssumption DEF NoSession, Session, Over

LEMMA NewAttemptType == [NewAttempt EXCEPT !.timer = TRUE] \in Connection
<1>1. NewAttempt \in Connection
  BY NewConnectionType DEF NewAttempt, Connection
<1>2. QED
  BY <1>1 DEF Connection

(* Connections keep their type when those nobody holds are given up.       *)
LEMMA HeldType ==
    ASSUME NEW f \in [Connections -> Connection]
    PROVE  Held(f) \in [Connections -> Connection]
BY NewConnectionType DEF Held

LEMMA CancelType ==
    ASSUME session \in [Requests -> Session], NEW cs, Cancel(cs)
    PROVE  session' \in [Requests -> Session]
<1>1. \A s \in Session : [s EXCEPT !.result = "aborted"] \in Session
  BY DEF Session
<1>2. QED
  BY <1>1 DEF Cancel

(* A session that ends.                                                    *)
LEMMA EndType ==
    ASSUME ClientTypeOK, NEW r \in Requests, NEW phase \in Over, End(r, phase)
    PROVE  /\ session' \in [Requests -> Session]
           /\ connection' \in [Connections -> Connection]
<1>1. session[r].callbacks \in Nat
  BY DEF ClientTypeOK, Session
<1>2. \A n \in Nat : [NoSession EXCEPT !.phase = phase, !.callbacks = n] \in Session
  BY NoSessionType DEF Session
<1> DEFINE ended == [NoSession EXCEPT !.phase = phase, !.callbacks =
                          session[r].callbacks + IF phase = "over" THEN 1 ELSE 0]
<1>3. ended \in Session
  <2>1. session[r].callbacks + (IF phase = "over" THEN 1 ELSE 0) \in Nat
    BY <1>1
  <2>2. QED
    BY <1>2, <2>1
<1>4. session' = [session EXCEPT ![r] = ended] /\ connection' = Held(connection)
  BY DEF End
<1>5. QED
  BY <1>3, <1>4, HeldType DEF ClientTypeOK

LEMMA ClientInitType == ClientInit /\ ScopeInit => ClientTypeOK
BY NewConnectionType, NoSessionType, ScopeInit_Inv, ClientAssumption
   DEF ClientInit, ClientTypeOK, ScopeInv

(* The steps of request() and of the network.                              *)
LEMMA RequestType ==
    ASSUME ClientTypeOK, NEW r \in Requests, GetConnection(r) \/ Connect(r)
    PROVE  /\ connections' \subseteq Connections
           /\ connection' \in [Connections -> Connection]
           /\ session' \in [Requests -> Session]
           /\ UNCHANGED <<handler, troubles>>
<1> USE DEF ClientTypeOK
<1>1. CASE GetConnection(r)
  <2>1. PICK c \in Connections :
           /\ session' = [session EXCEPT ![r].phase = "started", ![r].connection = c]
           /\ IF Unused # {}
                THEN c \in Unused /\ Reuse(c)
                ELSE /\ connections' = connections \cup {c}
                     /\ UNCHANGED connection
    BY <1>1 DEF GetConnection
  <2>2. session' \in [Requests -> Session]
    <3>1. \A s \in Session : [s EXCEPT !.phase = "started", !.connection = c] \in Session
      BY DEF Session
    <3>2. QED
      BY <2>1, <3>1
  <2>3. connection' \in [Connections -> Connection] /\ connections' \subseteq Connections
    <3>1. \A k \in Connection :
             [k EXCEPT !.attempt_reconnect = TRUE, !.in_use = TRUE] \in Connection
      BY DEF Connection
    <3>2. CASE Unused # {}
      <4>1. connection' = [connection EXCEPT ![c] =
                [connection[c] EXCEPT !.attempt_reconnect = TRUE, !.in_use = TRUE]]
        BY <2>1, <3>2 DEF Reuse
      <4>2. QED
        BY <2>1, <3>1, <3>2, <4>1 DEF Reuse
    <3>3. CASE Unused = {}
      BY <2>1, <3>3
    <3>4. QED
      BY <3>2, <3>3
  <2>4. QED
    BY <1>1, <2>2, <2>3 DEF GetConnection
<1>2. CASE Connect(r)
  <2>1. session[r].connection \in Connections
    BY DEF Session
  <2>2. \A s \in Session, c \in Connections, op \in {"write", "resolve"} :
           [s EXCEPT !.phase = op, !.result = "waiting", !.connection = c] \in Session
    <3>1. {"write", "resolve"} \subseteq Operations
      BY DEF Operations
    <3>2. QED
      BY <3>1 DEF Session
  <2>3. \A k \in Connection : [k EXCEPT !.timer = TRUE] \in Connection
    BY DEF Connection
  <2>4. session' \in [Requests -> Session] /\ connection' \in [Connections -> Connection]
    BY <1>2, <2>1, <2>2, <2>3 DEF Connect, Begin
  <2>5. QED
    BY <1>2, <2>4 DEF Connect
<1>3. QED
  BY <1>1, <1>2

LEMMA CompleteType ==
    ASSUME ClientTypeOK, NEW r \in Requests, Complete(r)
    PROVE  /\ connection' \in [Connections -> Connection]
           /\ session' \in [Requests -> Session]
           /\ troubles' \in 0 .. MaxTroubles
           /\ UNCHANGED <<connections, handler>>
<1> USE DEF ClientTypeOK
<1> DEFINE c == session[r].connection
           op == session[r].phase
           awaited == connection[c].responses
<1>1. c \in Connections /\ awaited \in Seq(Requests)
  BY DEF Session, Connection
<1>2. PICK result, received :
        /\ result \in Outcomes(op)
        /\ received \in Received(op, result, awaited)
        /\ op = "read" /\ result = "ok" => awaited # <<>>
        /\ session' = [session EXCEPT ![r].result = result,
                        ![r].response = @ \cup received,
                        ![r].written = @ + IF op = "write" /\ result = "ok" THEN 1 ELSE 0]
        /\ connection' = [connection EXCEPT
                    ![c].open = @ \/ (op = "connect" /\ result = "ok"),
                    ![c].responses =
                        IF op = "write" /\ result = "ok" THEN Append(@, r)
                        ELSE IF op = "read" /\ result = "ok" THEN Tail(@) ELSE @]
        /\ troubles' = troubles - IF result \in {"ok", "eof"} THEN 0 ELSE 1
  BY DEF Complete
<1>3. result \in {"ok", "eof", "error", "full"}
      /\ (result \notin {"ok", "eof"} => troubles # 0)
  BY <1>2 DEF Outcomes
<1>4. received \subseteq Requests
  <2>1. awaited # <<>> => Head(awaited) \in Requests
    BY <1>1
  <2>2. QED
    BY <1>2, <2>1 DEF Received
<1>5. session' \in [Requests -> Session]
  <2> DEFINE n == IF op = "write" /\ result = "ok" THEN 1 ELSE 0
  <2>1. session[r].written + n \in Nat /\ session[r].response \cup received \in SUBSET Requests
    <3>1. session[r].written \in Nat /\ session[r].response \in SUBSET Requests
      BY DEF Session
    <3>2. QED
      BY <1>4, <3>1
  <2>2. [session[r] EXCEPT !.result = result,
             !.response = @ \cup received, !.written = @ + n] \in Session
    <3>1. \A s \in Session, m \in Nat, q \in SUBSET Requests :
             [s EXCEPT !.result = result, !.response = q, !.written = m] \in Session
      BY <1>3 DEF Session
    <3>2. QED
      BY <2>1, <3>1
  <2>3. QED
    BY <1>2, <2>2
<1>6. connection' \in [Connections -> Connection]
  <2>1. Append(awaited, r) \in Seq(Requests)
    BY <1>1
  <2>2. awaited # <<>> => Tail(awaited) \in Seq(Requests)
    BY <1>1
  <2>3. \A o \in BOOLEAN, s \in Seq(Requests) :
           [connection[c] EXCEPT !.open = o, !.responses = s] \in Connection
    <3>1. connection[c] \in Connection
      BY <1>1
    <3>2. \A k \in Connection, o \in BOOLEAN, s \in Seq(Requests) :
             [k EXCEPT !.open = o, !.responses = s] \in Connection
      BY DEF Connection
    <3>3. QED
      BY <3>1, <3>2
  <2> DEFINE o == connection[c].open \/ (op = "connect" /\ result = "ok")
             s == IF op = "write" /\ result = "ok" THEN Append(awaited, r)
                  ELSE IF op = "read" /\ result = "ok" THEN Tail(awaited) ELSE awaited
  <2>4. s \in Seq(Requests) /\ o \in BOOLEAN
    BY <1>1, <1>2, <2>1, <2>2 DEF Connection
  <2>5. [connection[c] EXCEPT !.open = o, !.responses = s] \in Connection
    BY <2>3, <2>4
  <2>6. connection' = [connection EXCEPT ![c] =
            [connection[c] EXCEPT !.open = o, !.responses = s]]
    BY <1>1, <1>2
  <2>7. QED
    BY <1>1, <2>5, <2>6
<1>7. troubles' \in 0 .. MaxTroubles
  <2>1. troubles \in 0 .. MaxTroubles /\ MaxTroubles \in Nat
    BY ClientAssumption
  <2>2. troubles' = troubles \/ (troubles' = troubles - 1 /\ troubles # 0)
    BY <1>2, <1>3, <2>1
  <2>3. QED
    BY <2>1, <2>2
<1>8. UNCHANGED <<connections, handler, scopeVars>>
  BY DEF Complete
<1>9. QED
  BY <1>5, <1>6, <1>7, <1>8

(* Cancel, the timers and stop.                                            *)
LEMMA TimerType ==
    ASSUME ClientTypeOK, NEW c \in Connections, TimerExpires(c) \/ TimerHandler(c)
    PROVE  /\ connection' \in [Connections -> Connection]
           /\ session' \in [Requests -> Session]
           /\ troubles' \in 0 .. MaxTroubles
           /\ UNCHANGED <<connections, handler>>
<1> USE DEF ClientTypeOK
<1>1. \A k \in Connection, t \in BOOLEAN, e \in BOOLEAN :
         [k EXCEPT !.timer = t, !.expired = e] \in Connection
  BY DEF Connection
<1>2. \A k \in Connection, e \in BOOLEAN : [k EXCEPT !.expired = e] \in Connection
  BY DEF Connection
<1>3. CASE TimerExpires(c)
  <2>1. connection' = [connection EXCEPT ![c] =
            [connection[c] EXCEPT !.timer = FALSE, !.expired = TRUE]]
    BY <1>3 DEF TimerExpires
  <2>2. connection' \in [Connections -> Connection]
    BY <1>1, <2>1
  <2>3. QED
    BY <1>3, <2>2, ClientAssumption DEF TimerExpires
<1>4. CASE TimerHandler(c)
  <2>1. session' \in [Requests -> Session]
    BY <1>4, CancelType DEF TimerHandler
  <2>2. connection' = [connection EXCEPT ![c] = [connection[c] EXCEPT !.expired = FALSE]]
    BY <1>4 DEF TimerHandler
  <2>3. connection' \in [Connections -> Connection]
    BY <1>2, <2>2
  <2>4. QED
    BY <1>4, <2>1, <2>3 DEF TimerHandler
<1>5. QED
  BY <1>3, <1>4

LEMMA StopType ==
    ASSUME ClientTypeOK, StopClient \/ DestroyStops
    PROVE  /\ connections' \subseteq Connections
           /\ connection' \in [Connections -> Connection]
           /\ session' \in [Requests -> Session]
           /\ troubles' \in 0 .. MaxTroubles
           /\ UNCHANGED handler
<1> USE DEF ClientTypeOK
<1>1. Cancel(connections) /\ connections' = {} /\ connection' = Held(connection)
      /\ UNCHANGED handler
  BY DEF StopClient, DestroyStops
<1>2. session' \in [Requests -> Session] /\ connection' \in [Connections -> Connection]
  BY <1>1, CancelType, HeldType
<1>3. troubles' \in 0 .. MaxTroubles
  BY ClientAssumption DEF StopClient, DestroyStops
<1>4. QED
  BY <1>1, <1>2, <1>3

(* The handlers.                                                           *)
LEMMA TakeUpType ==
    ASSUME ClientTypeOK, NEW h \in Handlers, NEW r \in Requests, TakeUp(h, r)
    PROVE  /\ connection' \in [Connections -> Connection]
           /\ handler' \in [Handlers -> Requests \cup {NoRequest}]
           /\ UNCHANGED <<connections, session, troubles>>
<1>1. \A k \in Connection : [k EXCEPT !.timer = FALSE] \in Connection
  BY DEF Connection
<1>2. session[r].connection \in Connections
  BY DEF ClientTypeOK, Session
<1>3. QED
  BY <1>1, <1>2 DEF TakeUp, ClientTypeOK

LEMMA GoOnType ==
    ASSUME ClientTypeOK, NEW h \in Handlers, NEW r \in Requests, GoOn(h, r)
    PROVE  /\ connection' \in [Connections -> Connection]
           /\ session' \in [Requests -> Session]
<1> DEFINE c == session[r].connection
           op == session[r].phase
<1>1. PICK next \in Follows(r) :
         session' = [session EXCEPT ![r].phase = next, ![r].result = "waiting",
                        ![r].chunks = @ + IF op # "read" /\ next = "line" THEN 1 ELSE 0]
  BY DEF GoOn
<1>2. next \in Operations
  BY <1>1 DEF Follows, Operations
<1>3. session' \in [Requests -> Session]
  <2> DEFINE n == session[r].chunks + (IF op # "read" /\ next = "line" THEN 1 ELSE 0)
  <2>1. n \in Nat
    <3>1. session[r].chunks \in Nat
      BY DEF ClientTypeOK, Session
    <3>2. QED
      BY <3>1
  <2>2. \A s \in Session, m \in Nat :
           [s EXCEPT !.phase = next, !.result = "waiting", !.chunks = m] \in Session
    BY <1>2 DEF Session
  <2>3. session' = [session EXCEPT ![r] =
            [session[r] EXCEPT !.phase = next, !.result = "waiting", !.chunks = n]]
    BY <1>1 DEF ClientTypeOK
  <2>4. QED
    BY <2>1, <2>2, <2>3 DEF ClientTypeOK
<1>4. connection' \in [Connections -> Connection]
  <2>1. c \in Connections
    BY DEF ClientTypeOK, Session
  <2> DEFINE a == connection[c].attempt_reconnect \/ op = "read"
  <2>2. a \in BOOLEAN
    BY <2>1 DEF ClientTypeOK, Connection
  <2>3. \A k \in Connection, b \in BOOLEAN :
           [k EXCEPT !.timer = TRUE, !.attempt_reconnect = b] \in Connection
    BY DEF Connection
  <2>4. connection' = [connection EXCEPT ![c] =
            [connection[c] EXCEPT !.timer = TRUE, !.attempt_reconnect = a]]
    BY DEF GoOn, ClientTypeOK
  <2>5. QED
    BY <2>1, <2>2, <2>3, <2>4 DEF ClientTypeOK
<1>5. QED
  BY <1>3, <1>4

LEMMA ReconnectType ==
    ASSUME ClientTypeOK, NEW h \in Handlers, NEW r \in Requests, Reconnect(h, r)
    PROVE  /\ connections' \subseteq Connections
           /\ connection' \in [Connections -> Connection]
           /\ session' \in [Requests -> Session]
<1> DEFINE next(c) == [connection EXCEPT ![c] = [NewAttempt EXCEPT !.timer = TRUE]]
<1>1. PICK c \in Connections :
          /\ connections' = (connections \ {session[r].connection}) \cup {c}
          /\ session' = [session EXCEPT ![r].phase = "resolve", ![r].result = "waiting",
                                        ![r].connection = c]
          /\ connection' = Held(next(c))
  BY DEF Reconnect
<1>2. next(c) \in [Connections -> Connection]
  BY NewAttemptType DEF ClientTypeOK
<1>3. \A s \in Session :
         [s EXCEPT !.phase = "resolve", !.result = "waiting", !.connection = c] \in Session
  BY DEF Session, Operations
<1>4. session' \in [Requests -> Session]
  BY <1>1, <1>3 DEF ClientTypeOK
<1> HIDE DEF next
<1>5. QED
  BY <1>1, <1>2, <1>4, HeldType DEF ClientTypeOK

LEMMA ReleaseType ==
    ASSUME ClientTypeOK, NEW h \in Handlers, NEW r \in Requests, Release(h, r)
    PROVE  /\ connections' \subseteq Connections
           /\ connection' \in [Connections -> Connection]
           /\ session' \in [Requests -> Session]
<1> DEFINE c == session[r].connection
           a == connection[c].attempt_reconnect \/ Runs(h, r, "read", "ok")
           next == [connection EXCEPT ![c].in_use = FALSE, ![c].attempt_reconnect = a]
<1>1. c \in Connections
  BY DEF ClientTypeOK, Session
<1>2. PICK ec \in ErrorCodes(r) :
        /\ session' = [session EXCEPT ![r].phase = "answering", ![r].result = ""]
        /\ connections' \in Pruned(connections \ Discarded(c, ec),
                    (connections \ Discarded(c, ec)) \cap (Unused \cup {c}))
  BY DEF Release
<1>3. connections' \subseteq Connections
  BY <1>2 DEF Pruned, ClientTypeOK
<1>4. session' \in [Requests -> Session]
  <2>1. \A s \in Session : [s EXCEPT !.phase = "answering", !.result = ""] \in Session
    BY DEF Session
  <2>2. QED
    BY <1>2, <2>1 DEF ClientTypeOK
<1>5. next \in [Connections -> Connection]
  <2>1. a \in BOOLEAN
    BY <1>1 DEF ClientTypeOK, Connection, Runs
  <2>2. \A k \in Connection, b \in BOOLEAN :
           [k EXCEPT !.in_use = FALSE, !.attempt_reconnect = b] \in Connection
    BY DEF Connection
  <2>3. next = [connection EXCEPT ![c] =
            [connection[c] EXCEPT !.in_use = FALSE, !.attempt_reconnect = a]]
    BY <1>1 DEF ClientTypeOK
  <2> HIDE DEF next, a
  <2>4. QED
    BY <1>1, <2>1, <2>2, <2>3 DEF ClientTypeOK
<1>6. connection' = Held(next)
  BY DEF Release
<1> HIDE DEF next
<1>7. QED
  BY <1>3, <1>4, <1>5, <1>6, HeldType

LEMMA HandlerStepType ==
    ASSUME ClientTypeOK, NEW h \in Handlers, HandlerStep(h)
    PROVE  /\ connections' \subseteq Connections
           /\ connection' \in [Connections -> Connection]
           /\ session' \in [Requests -> Session]
           /\ handler' \in [Handlers -> Requests \cup {NoRequest}]
           /\ UNCHANGED troubles
<1> USE DEF ClientTypeOK
<1>1. CASE Locked(h)
  BY <1>1 DEF Locked, clientVars
<1>2. CASE Drop(h)
  <2>1. handler[h] = NoRequest => connection' = Held(connection) /\ UNCHANGED session
    BY <1>2, ClientAssumption DEF Drop, End
  <2>2. handler[h] \in Requests =>
           session' \in [Requests -> Session] /\ connection' \in [Connections -> Connection]
    BY <1>2, EndType DEF Drop, Over
  <2>3. session' \in [Requests -> Session] /\ connection' \in [Connections -> Connection]
    BY <2>1, <2>2, HeldType
  <2>4. handler' \in [Handlers -> Requests \cup {NoRequest}]
    BY <1>2 DEF Drop
  <2>5. QED
    BY <1>2, <2>3, <2>4 DEF Drop
<1>3. Return(h) => handler' \in [Handlers -> Requests \cup {NoRequest}] /\ UNCHANGED troubles
  BY DEF Return
<1>4. ASSUME NEW r \in Requests, GoOn(h, r) \/ Reconnect(h, r)
      PROVE  /\ connections' \subseteq Connections
             /\ connection' \in [Connections -> Connection]
             /\ session' \in [Requests -> Session]
             /\ Return(h)
  <2>1. CASE GoOn(h, r)
    <3>1. Return(h) /\ UNCHANGED connections
      BY <2>1 DEF GoOn
    <3>2. QED
      BY <2>1, <3>1, GoOnType
  <2>2. CASE Reconnect(h, r)
    <3>1. Return(h)
      BY <2>2 DEF Reconnect
    <3>2. QED
      BY <2>2, <3>1, ReconnectType
  <2>3. QED
    BY <1>4, <2>1, <2>2
<1>5. ASSUME NEW r \in Requests, Release(h, r)
      PROVE  /\ connections' \subseteq Connections
             /\ connection' \in [Connections -> Connection]
             /\ session' \in [Requests -> Session]
             /\ UNCHANGED <<handler, troubles>>
  <2>1. UNCHANGED <<handler, troubles>>
    BY <1>5 DEF Release
  <2>2. QED
    BY <1>5, <2>1, ReleaseType
<1>6. ASSUME NEW r \in Requests, Answer(h, r) \/ LengthThrows(h, r)
      PROVE  /\ connection' \in [Connections -> Connection]
             /\ session' \in [Requests -> Session]
             /\ UNCHANGED connections
             /\ Return(h)
  <2>1. PICK phase \in Over : End(r, phase)
    BY <1>6 DEF Answer, LengthThrows, Over
  <2>2. UNCHANGED connections /\ Return(h)
    BY <1>6 DEF Answer, LengthThrows
  <2>3. QED
    BY <2>1, <2>2, EndType
<1>7. QED
  BY <1>1, <1>2, <1>3, <1>4, <1>5, <1>6 DEF HandlerStep

LEMMA ClientNextType ==
    ASSUME ClientTypeOK, ScopeTypeOK', [ClientNext]_vars PROVE ClientTypeOK'
<1> USE DEF ClientTypeOK
<1>1. CASE UNCHANGED vars
  BY <1>1 DEF vars, clientVars
<1>2. ASSUME NEW r \in Requests, GetConnection(r) \/ Connect(r) PROVE ClientTypeOK'
  BY <1>2, RequestType
<1>3. ASSUME NEW r \in Requests, Complete(r) PROVE ClientTypeOK'
  BY <1>3, CompleteType
<1>4. ASSUME NEW c \in Connections, TimerExpires(c) \/ TimerHandler(c) PROVE ClientTypeOK'
  BY <1>4, TimerType
<1>5. CASE StopClient \/ DestroyStops
  BY <1>5, StopType
<1>6. ASSUME NEW s \in Stoppers, Destroy(s) \/ HandlersStopped(s) PROVE ClientTypeOK'
  BY <1>6 DEF Destroy, HandlersStopped, clientVars
<1>7. ASSUME NEW h \in Handlers, NEW r \in Requests, TakeUp(h, r) PROVE ClientTypeOK'
  BY <1>7, TakeUpType
<1>8. ASSUME NEW h \in Handlers, HandlerStep(h) PROVE ClientTypeOK'
  BY <1>8, HandlerStepType
<1>9. QED
  BY <1>1, <1>2, <1>3, <1>4, <1>5, <1>6, <1>7, <1>8 DEF ClientNext

ClientInv == ScopeInv /\ ClientTypeOK

LEMMA ClientInit_Inv == ClientInit /\ ScopeInit => ClientInv
BY ScopeInit_Inv, ClientInitType DEF ClientInv

LEMMA ClientNext_Inv == ClientInv /\ [ClientNext]_vars => ClientInv'
<1> SUFFICES ASSUME ClientInv, [ClientNext]_vars PROVE ClientInv'
  OBVIOUS
<1>1. ScopeInv'
  BY ClientStepIsScopeStep, ScopeNext_Inv DEF ClientInv
<1>2. ScopeTypeOK'
  BY <1>1 DEF ScopeInv
<1>3. QED
  BY <1>1, <1>2, ClientNextType DEF ClientInv

(* Every variable of a client stays within its type, whatever the network, *)
(* the server, the timers and the users of the client do.                  *)
THEOREM ClientTypeCorrect == ClientSpec => []ClientTypeOK
<1>1. ClientInv => ClientTypeOK
  BY DEF ClientInv
<1>2. QED
  BY <1>1, ClientInit_Inv, ClientNext_Inv, PTL DEF ClientSpec, Init

-----------------------------------------------------------------------------
(* After stop *)

(* What an operation leaves of the session and of the connection it is for. *)
LEMMA CompletedSession ==
    ASSUME NEW s \in Session, NEW x, NEW y, NEW z
    PROVE  LET t == [s EXCEPT !.result = x, !.response = y, !.written = z]
           IN  /\ t.phase = s.phase /\ t.connection = s.connection
               /\ t.result = x /\ t.response = y /\ t.written = z
BY DEF Session

LEMMA ContinuedSession ==
    ASSUME NEW s \in Session, NEW x, NEW y, NEW z
    PROVE  LET t == [s EXCEPT !.phase = x, !.result = y, !.chunks = z]
           IN  /\ t.phase = x /\ t.result = y /\ t.connection = s.connection
               /\ t.response = s.response /\ t.written = s.written
BY DEF Session

LEMMA AnsweredConnection ==
    ASSUME NEW k \in Connection, NEW x, NEW y
    PROVE  LET t == [k EXCEPT !.open = x, !.responses = y]
           IN  /\ t.in_use = k.in_use /\ t.attempt_reconnect = k.attempt_reconnect
               /\ t.responses = y
BY DEF Connection

LEMMA CompleteStep ==
    ASSUME NEW r \in Requests, Complete(r)
    PROVE  \E result \in Outcomes(session[r].phase) : \E received :
              session' = [session EXCEPT ![r].result = result,
                  ![r].response = @ \cup received,
                  ![r].written =
                      @ + IF session[r].phase = "write" /\ result = "ok" THEN 1 ELSE 0]
BY DEF Complete

LEMMA CallbacksKept ==
    ASSUME session \in [Requests -> Session], NEW r \in Requests, NEW s,
           s.callbacks = session[r].callbacks, session' = [session EXCEPT ![r] = s]
    PROVE  \A q \in Requests : session'[q].callbacks = session[q].callbacks
OBVIOUS

(* Without a handler inside, only what needs no lock can happen: an        *)
(* operation completes or is aborted, and no callback is called.           *)
LEMMA OutsideMeansQuiet ==
    ASSUME ClientTypeOK, [ClientNext]_vars, Inside = {},
           NEW s \in Stoppers, sstate[s] = "returned"
    PROVE  /\ connections' \subseteq connections
           /\ \A r \in Requests : session'[r].callbacks = session[r].callbacks
<1> DEFINE Quiet == /\ connections' \subseteq connections
                    /\ \A r \in Requests : session'[r].callbacks = session[r].callbacks
<1> USE DEF ClientTypeOK
<1>1. CASE UNCHANGED <<connections, session>>
  BY <1>1
<1>2. CASE UNCHANGED vars
  BY <1>1, <1>2 DEF vars, clientVars
<1>3. \A r \in Requests : ~GetConnection(r)
  BY DEF GetConnection
<1>4. ASSUME NEW r \in Requests, Connect(r) PROVE Quiet
  <2>1. UNCHANGED connections
    BY <1>4 DEF Connect
  <2>2. PICK op : session' = [session EXCEPT ![r] = [session[r] EXCEPT
            !.phase = op, !.result = "waiting", !.connection = session[r].connection]]
    BY <1>4 DEF Connect, Begin
  <2>3. \A k \in Session : \A p, c :
           [k EXCEPT !.phase = p, !.result = "waiting", !.connection = c].callbacks = k.callbacks
    BY DEF Session
  <2>4. QED
    BY <2>1, <2>2, <2>3, CallbacksKept
<1>5. ASSUME NEW r \in Requests, Complete(r) PROVE Quiet
  <2>1. UNCHANGED connections
    BY <1>5 DEF Complete
  <2>2. PICK result \in Outcomes(session[r].phase) : \E received :
           session' = [session EXCEPT ![r].result = result,
               ![r].response = @ \cup received,
               ![r].written = @ + IF session[r].phase = "write" /\ result = "ok" THEN 1 ELSE 0]
    BY <1>5, CompleteStep
  <2>3. PICK received :
           session' = [session EXCEPT ![r] = [session[r] EXCEPT !.result = result,
               !.response = session[r].response \cup received,
               !.written = session[r].written
                   + IF session[r].phase = "write" /\ result = "ok" THEN 1 ELSE 0]]
    BY <2>2
  <2>4. \A k \in Session : \A x, y, z :
           [k EXCEPT !.result = x, !.response = y, !.written = z].callbacks = k.callbacks
    BY DEF Session
  <2>5. QED
    BY <2>1, <2>3, <2>4, CallbacksKept
<1>6. ASSUME NEW cs, Cancel(cs), connections' \subseteq connections PROVE Quiet
  <2>1. \A r \in Requests : \/ session'[r] = session[r]
                            \/ session'[r] = [session[r] EXCEPT !.result = "aborted"]
    BY <1>6 DEF Cancel
  <2>2. \A k \in Session : [k EXCEPT !.result = "aborted"].callbacks = k.callbacks
    BY DEF Session
  <2>3. \A r \in Requests : session'[r].callbacks = session[r].callbacks
    BY <2>1, <2>2
  <2>4. QED
    BY <1>6, <2>3
<1>7. ASSUME NEW c \in Connections, TimerExpires(c) \/ TimerHandler(c) PROVE Quiet
  BY <1>1, <1>6, <1>7 DEF TimerExpires, TimerHandler
<1>8. CASE StopClient \/ DestroyStops
  BY <1>6, <1>8 DEF StopClient, DestroyStops
<1>9. ASSUME NEW t \in Stoppers, Destroy(t) \/ HandlersStopped(t) PROVE Quiet
  BY <1>1, <1>9 DEF Destroy, HandlersStopped, clientVars
<1>10. ASSUME NEW h \in Handlers, NEW r \in Requests, TakeUp(h, r) PROVE Quiet
  BY <1>1, <1>10 DEF TakeUp
<1>11. ASSUME NEW h \in Handlers, HandlerStep(h) PROVE Quiet
  <2>1. hstate[h] # "inside"
    BY DEF Inside
  <2>2. CASE Locked(h)
    BY <1>1, <2>2 DEF Locked, clientVars
  <2>3. CASE Drop(h)
    <3>1. UNCHANGED connections
      BY <2>3 DEF Drop
    <3> DEFINE n == session[handler[h]].callbacks + IF "dropped" = "over" THEN 1 ELSE 0
               ended == [NoSession EXCEPT !.phase = "dropped", !.callbacks = n]
    <3>2. session' = [session EXCEPT ![handler[h]] = ended]
      BY <2>3, Zenon DEF Drop, End
    <3>3. CASE handler[h] \in Requests
      <4>1. n = session[handler[h]].callbacks
        <5>1. session[handler[h]].callbacks \in Nat
          BY <3>3 DEF Session
        <5>2. QED
          BY <5>1
      <4>2. ended.callbacks = n
        BY DEF NoSession
      <4>3. QED
        BY <3>1, <3>2, <3>3, <4>1, <4>2, CallbacksKept
    <3>4. CASE handler[h] \notin Requests
      <4>1. UNCHANGED session
        BY <3>2, <3>4
      <4>2. QED
        BY <1>1, <3>1, <4>1
    <3>5. QED
      BY <3>3, <3>4
  <2>4. \A r \in Requests : ~(GoOn(h, r) \/ Reconnect(h, r) \/ Release(h, r)
                              \/ Answer(h, r) \/ LengthThrows(h, r))
    BY <2>1 DEF GoOn, Reconnect, Release, Answer, LengthThrows, Runs
  <2>5. QED
    BY <1>11, <2>2, <2>3, <2>4 DEF HandlerStep
<1>12. QED
  BY <1>2, <1>3, <1>4, <1>5, <1>7, <1>8, <1>9, <1>10, <1>11 DEF ClientNext

(* When ~ClientBase is past handler_runner->stop(), no callback runs and   *)
(* no connection is added any more, for any number of threads and requests *)
(* and whatever was under way (client_http.hpp:370).                       *)
THEOREM NothingAfterStopHolds == ClientSpec => NothingAfterStop
<1>1. ClientInv /\ [ClientNext]_vars =>
        [(\E s \in Stoppers : sstate[s] = "returned") =>
            /\ connections' \subseteq connections
            /\ \A r \in Requests : session'[r].callbacks = session[r].callbacks]_vars
  <2> SUFFICES ASSUME ClientInv, [ClientNext]_vars, NEW s \in Stoppers, sstate[s] = "returned"
               PROVE  /\ connections' \subseteq connections
                      /\ \A r \in Requests : session'[r].callbacks = session[r].callbacks
    OBVIOUS
  <2>1. Inside = {}
    BY DEF ClientInv, ScopeInv, CountIsInside, ReturnedIsStopped
  <2>2. QED
    BY <2>1, OutsideMeansQuiet DEF ClientInv
<1>2. QED
  BY <1>1, ClientInit_Inv, ClientNext_Inv, PTL DEF ClientSpec, Init, NothingAfterStop

-----------------------------------------------------------------------------
(***************************************************************************)
(* The connections of an HttpClient: a connection serves one request at a  *)
(* time, and on it a request gets the response to itself.                  *)
(*                                                                         *)
(* The invariant says, of each request in progress, that its connection is *)
(* marked as in use and is to yield exactly the responses this request     *)
(* still awaits, and how often the request was sent; and of connections,   *)
(* that one to be used next owes no response.                              *)
(***************************************************************************)
(* A request for whose operations its connection is used.                  *)
Using(r) == Live(r) /\ session[r].phase # "answering"

Conn(r) == connection[session[r].connection]

(* Does the server owe the response to r?                                  *)
Due(r) ==
    \/ session[r].phase = "write" /\ session[r].result = "ok"
    \/ session[r].phase = "read" /\ session[r].result # "ok"

(* Up to the header of the response a request may be sent again.           *)
Repeatable(r) == session[r].phase \in {"started", "resolve", "connect", "write", "read"}

(* Times this attempt at r has been written.                               *)
WrittenNow(r) ==
    IF session[r].phase = "read" \/ (session[r].phase = "write" /\ session[r].result = "ok")
      THEN 1 ELSE 0

ServedInv(r) ==
    Using(r) =>
        /\ Conn(r).in_use
        /\ Conn(r).responses = IF Due(r) THEN <<r>> ELSE <<>>

WrittenInv(r) ==
    /\ session[r].written <= 2
    /\ session[r].phase = "none" => session[r].written = 0
    /\ Repeatable(r) =>
          \/ session[r].written = WrittenNow(r)
          \/ session[r].written = WrittenNow(r) + 1 /\ ~Conn(r).attempt_reconnect

RequestInv(r) ==
    /\ ServedInv(r)
    /\ WrittenInv(r)
    /\ session[r].response \subseteq {r}
    /\ session[r].result = "eof" => session[r].phase = "rest"

UnheldAreNew == \A c \in Unheld : connection[c] = NewConnection

UnusedOweNothing == \A c \in Unused : connection[c].responses = <<>>

PoolInv ==
    /\ \A r \in Requests : RequestInv(r)
    /\ OneRequestEach
    /\ UnheldAreNew
    /\ UnusedOweNothing

-----------------------------------------------------------------------------
LEMMA NoSessionIsEmpty ==
    /\ NoSession.phase = "none" /\ NoSession.result # "eof"
    /\ NoSession.written = 0 /\ NoSession.response = {}
BY DEF NoSession

LEMMA PoolInvInit == ClientInit => PoolInv
<1> SUFFICES ASSUME ClientInit PROVE PoolInv
  OBVIOUS
<1>1. \A r \in Requests : session[r] = NoSession
  BY DEF ClientInit
<1>2. \A r \in Requests : ~Live(r) /\ ~Repeatable(r) /\ session[r].written = 0
                          /\ session[r].response = {} /\ session[r].result # "eof"
  BY <1>1, NoSessionIsEmpty DEF Live, Over, Repeatable
<1>3. Unused = {}
  BY DEF ClientInit, Unused
<1>4. \A c \in Connections : connection[c] = NewConnection
  BY DEF ClientInit
<1>5. \A r \in Requests : RequestInv(r)
  BY <1>2 DEF RequestInv, ServedInv, WrittenInv, Using
<1>6. OneRequestEach
  BY <1>2 DEF OneRequestEach
<1>7. UnheldAreNew /\ UnusedOweNothing
  BY <1>3, <1>4 DEF UnheldAreNew, Unheld, UnusedOweNothing
<1>8. QED
  BY <1>5, <1>6, <1>7 DEF PoolInv

(* What the invariant reads of a connection.                               *)
Alike(c) ==
    /\ connection'[c].in_use = connection[c].in_use
    /\ connection'[c].responses = connection[c].responses
    /\ connection'[c].attempt_reconnect = connection[c].attempt_reconnect

(* A request whose session and connection a step leaves alone.             *)
LEMMA RequestUntouched ==
    ASSUME NEW r \in Requests, RequestInv(r), session'[r] = session[r],
           Using(r) => Alike(session[r].connection)
    PROVE  RequestInv(r)'
BY DEF RequestInv, ServedInv, WrittenInv, Using, Conn, Due, Repeatable, WrittenNow, Live, Over,
       Alike

(* An operation that is aborted has neither sent nor received anything.    *)
LEMMA RequestAborted ==
    ASSUME NEW r \in Requests, RequestInv(r), session[r] \in Session,
           session[r].result = "waiting",
           session'[r] = [session[r] EXCEPT !.result = "aborted"],
           Using(r) => Alike(session[r].connection)
    PROVE  RequestInv(r)'
<1>1. /\ session'[r].phase = session[r].phase /\ session'[r].result = "aborted"
      /\ session'[r].connection = session[r].connection
      /\ session'[r].written = session[r].written /\ session'[r].response = session[r].response
  BY DEF Session
<1>2. Live(r)' = Live(r) /\ Using(r)' = Using(r) /\ Due(r)' = Due(r)
      /\ Repeatable(r)' = Repeatable(r) /\ WrittenNow(r)' = WrittenNow(r)
  BY <1>1 DEF Live, Using, Due, Repeatable, WrittenNow
<1>3. Repeatable(r) => Using(r)
  BY DEF Repeatable, Using, Live, Over
<1>4. QED
  BY <1>1, <1>2, <1>3 DEF RequestInv, ServedInv, WrittenInv, Conn, Alike, Using

(* A step of one request r, which uses no connection another one uses.     *)
LEMMA OneRequestSteps ==
    ASSUME PoolInv, NEW r \in Requests, RequestInv(r)',
           \A q \in Requests \ {r} : /\ session'[q] = session[q]
                                     /\ Using(q) => Alike(session[q].connection),
           Using(r)' => \A q \in Requests \ {r} :
                            Using(q) => session[q].connection # session'[r].connection
    PROVE  (\A q \in Requests : RequestInv(q)') /\ OneRequestEach'
<1>1. \A q \in Requests : RequestInv(q)'
  BY RequestUntouched DEF PoolInv
<1>2. \A q \in Requests \ {r} : Using(q)' = Using(q)
  BY DEF Using, Live
<1>3. OneRequestEach'
  BY <1>2 DEF PoolInv, OneRequestEach, Using
<1>4. QED
  BY <1>1, <1>3

(* A connection that somebody holds is not given up.                       *)
LEMMA HeldIsKept ==
    ASSUME NEW f \in [Connections -> Connection], connection' = Held(f), NEW c \in Connections,
           c \in connections' \/ \E r \in Requests : Live(r)' /\ session'[r].connection = c
    PROVE  connection'[c] = f[c]
BY DEF Held, Live

(* Those that are given up are as new.                                     *)
LEMMA GivenUpAreNew ==
    ASSUME NEW f \in [Connections -> Connection], connection' = Held(f)
    PROVE  UnheldAreNew'
BY DEF UnheldAreNew, Unheld, Held, Live

(* A step that changes only connections somebody holds, and goes on        *)
(* holding them.                                                           *)
LEMMA HoldersStay ==
    ASSUME PoolInv, UNCHANGED connections, NEW c \in Connections, c \notin Unheld,
           \A k \in Connections \ {c} : connection'[k] = connection[k],
           \A q \in Requests :
              Live(q) => Live(q)' /\ session'[q].connection = session[q].connection
    PROVE  UnheldAreNew'
BY DEF PoolInv, UnheldAreNew, Unheld

(* A request in an operation uses its connection.                          *)
LEMMA OperatingIsUsing ==
    ASSUME ClientTypeOK, NEW r \in Requests, session[r].phase \in Operations
    PROVE  /\ Live(r) /\ Using(r)
           /\ session[r].connection \in Connections
           /\ session[r].connection \notin Unheld
BY DEF ClientTypeOK, Session, Live, Using, Unheld, Operations, Over

-----------------------------------------------------------------------------
(* request() *)

LEMMA GetConnectionPool ==
    ASSUME ClientTypeOK, PoolInv, NEW r \in Requests, GetConnection(r)
    PROVE  PoolInv'
<1>1. PICK c \in Connections :
        /\ session' = [session EXCEPT ![r].phase = "started", ![r].connection = c]
        /\ IF Unused # {}
             THEN c \in Unused /\ Reuse(c)
             ELSE /\ Fresh(c)
                  /\ connections' = connections \cup {c}
                  /\ UNCHANGED connection
  BY DEF GetConnection
<1>2. /\ session[r].phase = "none" /\ session[r].written = 0 /\ session[r].response \subseteq {r}
      /\ ~Live(r)
  BY DEF GetConnection, PoolInv, RequestInv, WrittenInv, Live, Over
<1>3. /\ session'[r].phase = "started" /\ session'[r].connection = c
      /\ session'[r].written = 0 /\ session'[r].response \subseteq {r}
      /\ session'[r].result = session[r].result
      /\ \A q \in Requests \ {r} : session'[q] = session[q]
  BY <1>1, <1>2 DEF ClientTypeOK, Session
<1>4. session[r].result # "eof" /\ session'[r].result # "eof"
  BY <1>2, <1>3 DEF PoolInv, RequestInv
<1>5. \A q \in Requests \ {r} : /\ Live(q)' = Live(q) /\ Using(q)' = Using(q)
  BY <1>3 DEF Live, Using
<1>6. Using(r)' /\ Live(r)' /\ ~Due(r)' /\ WrittenNow(r)' = 0
  BY <1>3 DEF Using, Live, Over, Due, WrittenNow
<1>7. \A q \in Requests : Using(q) => session[q].connection \in Connections
  BY DEF ClientTypeOK, Session
<1>8. /\ connection'[c].in_use /\ connection'[c].responses = <<>>
      /\ \A k \in Connections \ {c} : connection'[k] = connection[k]
      /\ \A q \in Requests : Using(q) => session[q].connection # c
      /\ UnheldAreNew' /\ UnusedOweNothing'
  <2>1. CASE Unused # {}
    <3>1. c \in connections /\ ~connection[c].in_use /\ UNCHANGED connections
          /\ connection' = [connection EXCEPT ![c] =
                [connection[c] EXCEPT !.attempt_reconnect = TRUE, !.in_use = TRUE]]
      BY <1>1, <2>1 DEF Unused, Reuse
    <3>2. /\ connection'[c].in_use /\ connection'[c].responses = connection[c].responses
          /\ \A k \in Connections \ {c} : connection'[k] = connection[k]
      BY <3>1 DEF ClientTypeOK, Connection
    <3>3. connection[c].responses = <<>>
      BY <1>1, <2>1 DEF PoolInv, UnusedOweNothing
    <3>4. \A q \in Requests : Using(q) => session[q].connection # c
      BY <3>1 DEF PoolInv, RequestInv, ServedInv, Conn
    <3>5. UnheldAreNew'
      BY <1>2, <1>3, <3>1, <3>2, HoldersStay DEF Unheld, Live
    <3>6. UnusedOweNothing'
      BY <3>1, <3>2 DEF PoolInv, UnusedOweNothing, Unused
    <3>7. QED
      BY <3>2, <3>3, <3>4, <3>5, <3>6
  <2>2. CASE Unused = {}
    <3>1. c \in Unheld /\ connections' = connections \cup {c} /\ UNCHANGED connection
      BY <1>1, <2>2 DEF Fresh
    <3>2. connection[c].in_use /\ connection[c].responses = <<>>
      BY <3>1 DEF PoolInv, UnheldAreNew, NewConnection
    <3>3. \A q \in Requests : Using(q) => session[q].connection # c
      BY <3>1 DEF Unheld, Using
    <3>4. Unheld' \subseteq Unheld
      BY <1>2, <1>3, <1>5, <3>1 DEF Unheld
    <3>5. UnheldAreNew'
      BY <3>1, <3>4 DEF PoolInv, UnheldAreNew
    <3>6. UnusedOweNothing'
      BY <3>1, <3>2 DEF PoolInv, UnusedOweNothing, Unused
    <3>7. QED
      BY <3>1, <3>2, <3>3, <3>5, <3>6
  <2>3. QED
    BY <2>1, <2>2
<1>9. RequestInv(r)'
  BY <1>3, <1>4, <1>6, <1>8 DEF RequestInv, ServedInv, WrittenInv, Conn
<1>10. \A q \in Requests \ {r} : Using(q) => Alike(session[q].connection)
  BY <1>7, <1>8 DEF Alike
<1>11. QED
  BY <1>3, <1>8, <1>9, <1>10, OneRequestSteps DEF PoolInv

(* A step of a request that uses its connection before and after, and of   *)
(* nobody else.                                                            *)
LEMMA OperationSteps ==
    ASSUME ClientTypeOK, PoolInv, NEW r \in Requests, Using(r), Using(r)', RequestInv(r)',
           session'[r].connection = session[r].connection,
           \A q \in Requests \ {r} : session'[q] = session[q],
           \A k \in Connections \ {session[r].connection} : connection'[k] = connection[k],
           connection'[session[r].connection].in_use,
           UNCHANGED connections
    PROVE  PoolInv'
<1> DEFINE c == session[r].connection
<1>1. c \in Connections /\ c \notin Unheld
  BY DEF ClientTypeOK, Session, Unheld, Using
<1>2. \A q \in Requests \ {r} : Using(q) => session[q].connection # c
  BY DEF PoolInv, OneRequestEach, Using
<1>3. \A q \in Requests \ {r} : Using(q) => Alike(session[q].connection)
  BY <1>2 DEF Alike, ClientTypeOK, Session
<1>4. (\A q \in Requests : RequestInv(q)') /\ OneRequestEach'
  BY <1>2, <1>3, OneRequestSteps
<1>5. UnheldAreNew'
  BY <1>1, HoldersStay DEF Using, Live
<1>6. UnusedOweNothing'
  BY DEF PoolInv, UnusedOweNothing, Unused, ClientTypeOK
<1>7. QED
  BY <1>4, <1>5, <1>6 DEF PoolInv

LEMMA ConnectPool ==
    ASSUME ClientTypeOK, PoolInv, NEW r \in Requests, Connect(r)
    PROVE  PoolInv'
<1> DEFINE c == session[r].connection
           op == IF connection[c].open THEN "write" ELSE "resolve"
<1>1. /\ session[r].phase = "started"
      /\ session' = [session EXCEPT ![r].phase = op, ![r].result = "waiting",
                                    ![r].connection = c]
      /\ connection' = [connection EXCEPT ![c].timer = TRUE]
      /\ UNCHANGED connections
  BY DEF Connect, Begin
<1>2. c \in Connections
  BY DEF ClientTypeOK, Session
<1>3. /\ session'[r].phase \in {"write", "resolve"} /\ session'[r].result = "waiting"
      /\ session'[r].connection = c
      /\ session'[r].written = session[r].written
      /\ session'[r].response = session[r].response
      /\ \A q \in Requests \ {r} : session'[q] = session[q]
  BY <1>1 DEF ClientTypeOK, Session
<1>4. Alike(c) /\ \A k \in Connections \ {c} : connection'[k] = connection[k]
  BY <1>1, <1>2 DEF Alike, ClientTypeOK, Connection
<1>5. Using(r) /\ ~Due(r) /\ WrittenNow(r) = 0 /\ Repeatable(r)
  BY <1>1 DEF Using, Live, Over, Due, WrittenNow, Repeatable
<1>6. Using(r)' /\ ~Due(r)' /\ WrittenNow(r)' = 0
  BY <1>3 DEF Using, Live, Over, Due, WrittenNow
<1>7. RequestInv(r)
  BY DEF PoolInv
<1>8. RequestInv(r)' /\ connection'[c].in_use
  BY <1>3, <1>4, <1>5, <1>6, <1>7 DEF RequestInv, ServedInv, WrittenInv, Conn, Alike
<1> HIDE DEF op
<1>9. QED
  BY <1>1, <1>3, <1>4, <1>5, <1>6, <1>8, OperationSteps

(* An operation completes: a request that has been written is due, and     *)
(* what is read is the response that was due.                              *)
LEMMA CompletePool ==
    ASSUME ClientTypeOK, PoolInv, NEW r \in Requests, Complete(r)
    PROVE  PoolInv'
<1> DEFINE c == session[r].connection
           op == session[r].phase
           awaited == connection[c].responses
<1>1. PICK result, received :
        /\ result \in Outcomes(op)
        /\ received \in Received(op, result, awaited)
        /\ session' = [session EXCEPT ![r].result = result,
                        ![r].response = @ \cup received,
                        ![r].written = @ + IF op = "write" /\ result = "ok" THEN 1 ELSE 0]
        /\ connection' = [connection EXCEPT
                    ![c].open = @ \/ (op = "connect" /\ result = "ok"),
                    ![c].responses =
                        IF op = "write" /\ result = "ok" THEN Append(@, r)
                        ELSE IF op = "read" /\ result = "ok" THEN Tail(@) ELSE @]
  BY DEF Complete
<1>2. op \in Operations /\ session[r].result = "waiting" /\ UNCHANGED connections
  BY DEF Complete
<1>3. Using(r) /\ Live(r) /\ c \in Connections
  BY <1>2, OperatingIsUsing
<1>4. RequestInv(r)
  BY DEF PoolInv
<1>5. /\ session'[r].phase = op /\ session'[r].result = result
      /\ session'[r].connection = c
      /\ session'[r].response = session[r].response \cup received
      /\ session'[r].written =
             session[r].written + IF op = "write" /\ result = "ok" THEN 1 ELSE 0
      /\ \A q \in Requests \ {r} : session'[q] = session[q]
  <2> DEFINE w == session[r].written + IF op = "write" /\ result = "ok" THEN 1 ELSE 0
             p == session[r].response \cup received
  <2>1. session' = [session EXCEPT ![r] = [session[r] EXCEPT
            !.result = result, !.response = p, !.written = w]]
    BY <1>1 DEF ClientTypeOK
  <2> HIDE DEF w, p
  <2>2. \A s \in Session : \A x, y, z :
           LET t == [s EXCEPT !.result = x, !.response = y, !.written = z]
           IN  /\ t.phase = s.phase /\ t.connection = s.connection
               /\ t.result = x /\ t.response = y /\ t.written = z
    BY CompletedSession
  <2>3. session[r] \in Session /\ session \in [Requests -> Session]
    BY DEF ClientTypeOK
  <2>4. /\ session'[r] = [session[r] EXCEPT !.result = result, !.response = p, !.written = w]
        /\ \A q \in Requests \ {r} : session'[q] = session[q]
    BY <2>1, <2>3
  <2>5. QED
    BY <2>2, <2>3, <2>4 DEF w, p
<1>6. /\ connection'[c].in_use = connection[c].in_use
      /\ connection'[c].attempt_reconnect = connection[c].attempt_reconnect
      /\ connection'[c].responses =
                        IF op = "write" /\ result = "ok" THEN Append(awaited, r)
                        ELSE IF op = "read" /\ result = "ok" THEN Tail(awaited) ELSE awaited
      /\ \A k \in Connections \ {c} : connection'[k] = connection[k]
  <2> DEFINE o == connection[c].open \/ (op = "connect" /\ result = "ok")
             s == IF op = "write" /\ result = "ok" THEN Append(awaited, r)
                  ELSE IF op = "read" /\ result = "ok" THEN Tail(awaited) ELSE awaited
  <2>1. connection \in [Connections -> Connection] /\ connection[c] \in Connection
    BY <1>3 DEF ClientTypeOK
  <2>2. connection' = [connection EXCEPT ![c] =
                          [connection[c] EXCEPT !.open = o, !.responses = s]]
    BY <1>1, <2>1
  <2> HIDE DEF o, s
  <2>3. /\ connection'[c] = [connection[c] EXCEPT !.open = o, !.responses = s]
        /\ \A k \in Connections \ {c} : connection'[k] = connection[k]
    BY <1>3, <2>1, <2>2
  <2>4. QED
    BY <2>1, <2>3, AnsweredConnection DEF s
<1>7. Using(r)' /\ Repeatable(r)' = Repeatable(r)
  BY <1>3, <1>5 DEF Using, Live, Repeatable
<1>8. connection[c].in_use /\ awaited = IF op = "read" THEN <<r>> ELSE <<>>
  BY <1>2, <1>3, <1>4 DEF RequestInv, ServedInv, Due, Conn
<1>9. received \subseteq {r}
  BY <1>1, <1>8 DEF Received
<1>10. result = "eof" => op = "rest"
  BY <1>1 DEF Outcomes
<1>11. connection'[c].responses = IF Due(r)' THEN <<r>> ELSE <<>>
  <2>1. Append(<<>>, r) = <<r>> /\ Tail(<<r>>) = <<>>
    OBVIOUS
  <2>2. CASE op = "write"
    BY <1>5, <1>6, <1>8, <2>1, <2>2 DEF Due
  <2>3. CASE op = "read"
    BY <1>5, <1>6, <1>8, <2>1, <2>3 DEF Due
  <2>4. CASE op \notin {"write", "read"}
    BY <1>5, <1>6, <1>8, <2>4 DEF Due
  <2>5. QED
    BY <2>2, <2>3, <2>4
<1>12. WrittenInv(r)'
  <2>1. session[r].written \in Nat
    BY DEF ClientTypeOK, Session
  <2>2. CASE op = "write" /\ result = "ok"
    <3>1. WrittenNow(r) = 0 /\ WrittenNow(r)' = 1 /\ Repeatable(r)
      <4>1. session[r].phase = "write" /\ session[r].result = "waiting"
        BY <1>2, <2>2
      <4>2. session'[r].phase = "write" /\ session'[r].result = "ok"
        BY <1>5, <2>2
      <4>3. QED
        BY <4>1, <4>2 DEF WrittenNow, Repeatable
    <3>2. session'[r].written = session[r].written + 1 /\ Conn(r) = connection[c]
      BY <1>5, <2>2 DEF Conn
    <3>3. WrittenInv(r)
      BY <1>4 DEF RequestInv
    <3>4. connection'[c].attempt_reconnect = connection[c].attempt_reconnect
      BY <1>6
    <3>5. session'[r].phase # "none"
      BY <1>5, <2>2
    <3>6. session[r].written = 0
          \/ (session[r].written = 1 /\ ~connection[c].attempt_reconnect)
      BY <3>1, <3>2, <3>3 DEF WrittenInv
    <3>7. session'[r].written = 1
          \/ (session'[r].written = 2 /\ ~Conn(r)'.attempt_reconnect)
      <4>1. Conn(r)' = connection'[c]
        BY <1>5 DEF Conn
      <4>2. QED
        BY <3>2, <3>4, <3>6, <4>1
    <3>8. QED
      BY <3>1, <3>5, <3>7 DEF WrittenInv
  <2>3. CASE ~(op = "write" /\ result = "ok")
    <3>1. WrittenNow(r)' = WrittenNow(r) /\ session'[r].written = session[r].written
      BY <1>2, <1>5, <2>1, <2>3 DEF WrittenNow
    <3>2. QED
      BY <1>4, <1>5, <1>6, <1>7, <3>1 DEF RequestInv, WrittenInv, Conn
  <2>4. QED
    BY <2>2, <2>3
<1>13. RequestInv(r)'
  BY <1>4, <1>5, <1>6, <1>8, <1>9, <1>10, <1>11, <1>12 DEF RequestInv, ServedInv, Conn
<1>14. QED
  BY <1>2, <1>3, <1>5, <1>6, <1>7, <1>8, <1>13, OperationSteps

-----------------------------------------------------------------------------
(* Timers, stop and the locks *)

(* A step that changes no session, and no connection but one that somebody *)
(* holds.                                                                  *)
LEMMA SessionsStay ==
    ASSUME ClientTypeOK, PoolInv, UNCHANGED <<session, connections>>, NEW c \in Connections,
           c \notin Unheld, Alike(c),
           \A k \in Connections \ {c} : connection'[k] = connection[k]
    PROVE  PoolInv'
<1>1. \A k \in Connections : Alike(k)
  BY DEF Alike
<1>2. \A q \in Requests : session[q].connection \in Connections
  BY DEF ClientTypeOK, Session
<1>3. \A q \in Requests : RequestInv(q)'
  BY <1>1, <1>2, RequestUntouched DEF PoolInv
<1>4. OneRequestEach'
  BY DEF PoolInv, OneRequestEach, Live
<1>5. UnheldAreNew'
  BY HoldersStay DEF Live
<1>6. UnusedOweNothing'
  BY <1>1 DEF PoolInv, UnusedOweNothing, Unused, Alike, ClientTypeOK
<1>7. QED
  BY <1>3, <1>4, <1>5, <1>6 DEF PoolInv

(* What Cancel leaves of the sessions.                                     *)
LEMMA CancelPool ==
    ASSUME ClientTypeOK, PoolInv, NEW cs, Cancel(cs),
           \A q \in Requests : Live(q) => Alike(session[q].connection)
    PROVE  /\ \A q \in Requests : RequestInv(q)'
           /\ OneRequestEach'
           /\ \A q \in Requests : /\ Live(q)' = Live(q)
                                  /\ session'[q].connection = session[q].connection
<1>1. \A q \in Requests :
         \/ session'[q] = session[q]
         \/ /\ session[q].result = "waiting"
            /\ session'[q] = [session[q] EXCEPT !.result = "aborted"]
  BY DEF Cancel
<1>2. \A q \in Requests : session[q] \in Session
  BY DEF ClientTypeOK
<1>3. \A q \in Requests : Using(q) => Alike(session[q].connection)
  BY DEF Using
<1>4. \A q \in Requests : RequestInv(q)'
  BY <1>1, <1>2, <1>3, RequestUntouched, RequestAborted DEF PoolInv
<1>5. \A q \in Requests : session'[q].phase = session[q].phase
                          /\ session'[q].connection = session[q].connection
  <2>1. \A s \in Session : LET t == [s EXCEPT !.result = "aborted"]
                           IN  t.phase = s.phase /\ t.connection = s.connection
    BY DEF Session
  <2>2. QED
    BY <1>1, <1>2, <2>1
<1>6. \A q \in Requests : Live(q)' = Live(q)
  BY <1>5 DEF Live
<1>7. OneRequestEach'
  BY <1>5, <1>6 DEF PoolInv, OneRequestEach
<1>8. QED
  BY <1>4, <1>5, <1>6, <1>7

LEMMA TimerPool ==
    ASSUME ClientTypeOK, PoolInv, NEW c \in Connections, TimerExpires(c) \/ TimerHandler(c)
    PROVE  PoolInv'
<1>1. c \notin Unheld
  BY DEF TimerExpires, TimerHandler, PoolInv, UnheldAreNew, NewConnection
<1>2. Alike(c) /\ \A k \in Connections \ {c} : connection'[k] = connection[k]
  <2>1. \/ connection' = [connection EXCEPT ![c] =
                            [connection[c] EXCEPT !.timer = FALSE, !.expired = TRUE]]
        \/ connection' = [connection EXCEPT ![c] = [connection[c] EXCEPT !.expired = FALSE]]
    BY DEF TimerExpires, TimerHandler, ClientTypeOK
  <2>2. QED
    BY <2>1 DEF Alike, ClientTypeOK, Connection
<1>3. CASE TimerExpires(c)
  BY <1>1, <1>2, <1>3, SessionsStay DEF TimerExpires
<1>4. CASE TimerHandler(c)
  <2>1. Cancel({c}) /\ UNCHANGED connections
    BY <1>4 DEF TimerHandler
  <2>2. \A k \in Connections : Alike(k)
    BY <1>2 DEF Alike
  <2>3. \A q \in Requests : session[q].connection \in Connections
    BY DEF ClientTypeOK, Session
  <2>4. /\ \A q \in Requests : RequestInv(q)'
        /\ OneRequestEach'
        /\ \A q \in Requests : /\ Live(q)' = Live(q)
                               /\ session'[q].connection = session[q].connection
    BY <2>1, <2>2, <2>3, CancelPool
  <2>5. UnheldAreNew'
    BY <1>1, <1>2, <2>1, <2>4, HoldersStay
  <2>6. UnusedOweNothing'
    BY <2>1, <2>2 DEF PoolInv, UnusedOweNothing, Unused, Alike, ClientTypeOK
  <2>7. QED
    BY <2>4, <2>5, <2>6 DEF PoolInv
<1>5. QED
  BY <1>3, <1>4

LEMMA StopPool ==
    ASSUME ClientTypeOK, PoolInv, StopClient \/ DestroyStops
    PROVE  PoolInv'
<1>1. Cancel(connections) /\ connections' = {} /\ connection' = Held(connection)
  BY DEF StopClient, DestroyStops
<1>2. \A q \in Requests : /\ session'[q].phase = session[q].phase
                          /\ session'[q].connection = session[q].connection
  <2>1. \A q \in Requests : \/ session'[q] = session[q]
                            \/ session'[q] = [session[q] EXCEPT !.result = "aborted"]
    BY <1>1 DEF Cancel
  <2>2. \A q \in Requests : session[q] \in Session
    BY DEF ClientTypeOK
  <2>3. QED
    BY <2>1, <2>2 DEF Session
<1>3. \A q \in Requests : Live(q) => Alike(session[q].connection)
  <2> SUFFICES ASSUME NEW q \in Requests, Live(q) PROVE Alike(session[q].connection)
    OBVIOUS
  <2>1. Live(q)' /\ session[q].connection \in Connections
    BY <1>2 DEF Live, ClientTypeOK, Session
  <2>2. connection'[session[q].connection] = connection[session[q].connection]
    BY <1>1, <1>2, <2>1, HeldIsKept DEF ClientTypeOK
  <2>3. QED
    BY <2>2 DEF Alike
<1>4. (\A q \in Requests : RequestInv(q)') /\ OneRequestEach'
  BY <1>1, <1>3, CancelPool
<1>5. UnheldAreNew'
  BY <1>1, GivenUpAreNew DEF ClientTypeOK
<1>6. UnusedOweNothing'
  BY <1>1 DEF UnusedOweNothing, Unused
<1>7. QED
  BY <1>4, <1>5, <1>6 DEF PoolInv

LEMMA UnchangedPool ==
    ASSUME PoolInv, UNCHANGED clientVars
    PROVE  PoolInv'
BY DEF clientVars, PoolInv, RequestInv, ServedInv, WrittenInv, Using, Conn, Due, Repeatable,
       WrittenNow, Live, OneRequestEach, UnheldAreNew, Unheld, UnusedOweNothing, Unused

LEMMA TakeUpPool ==
    ASSUME ClientTypeOK, PoolInv, NEW h \in Handlers, NEW r \in Requests, TakeUp(h, r)
    PROVE  PoolInv'
<1> DEFINE c == session[r].connection
<1>1. c \in Connections /\ c \notin Unheld
  BY OperatingIsUsing DEF TakeUp
<1>2. connection' = [connection EXCEPT ![c].timer = FALSE]
  BY DEF TakeUp
<1>3. Alike(c) /\ \A k \in Connections \ {c} : connection'[k] = connection[k]
  BY <1>1, <1>2 DEF Alike, ClientTypeOK, Connection
<1> HIDE DEF c
<1>4. QED
  BY <1>1, <1>3, SessionsStay DEF TakeUp

-----------------------------------------------------------------------------
(* The handlers *)

(* A session that ends neither sends nor receives, and holds nothing.      *)
LEMMA EndPool ==
    ASSUME ClientTypeOK, PoolInv, NEW r, NEW phase \in {"over", "dropped", "thrown"},
           End(r, phase), UNCHANGED connections
    PROVE  PoolInv'
<1>1. session' = [session EXCEPT ![r] =
          [NoSession EXCEPT !.phase = phase, !.callbacks = session[r].callbacks
                                + IF phase = "over" THEN 1 ELSE 0]]
      /\ connection' = Held(connection)
  BY DEF End
<1>2. \A q \in Requests : q # r => session'[q] = session[q]
  BY <1>1 DEF ClientTypeOK
<1>3. r \in Requests => /\ session'[r].phase = phase /\ session'[r].written = 0
                         /\ session'[r].response = {} /\ session'[r].result # "eof"
  <2> DEFINE n == session[r].callbacks + IF phase = "over" THEN 1 ELSE 0
  <2>1. r \in Requests =>
            session'[r] = [NoSession EXCEPT !.phase = phase, !.callbacks = n]
    BY <1>1 DEF ClientTypeOK
  <2> HIDE DEF n
  <2>2. LET t == [NoSession EXCEPT !.phase = phase, !.callbacks = n]
        IN  t.phase = phase /\ t.written = 0 /\ t.response = {} /\ t.result # "eof"
    BY DEF NoSession
  <2>3. QED
    BY <2>1, <2>2
<1>4. r \in Requests => ~Live(r)' /\ ~Using(r)' /\ ~Repeatable(r)' /\ RequestInv(r)'
  BY <1>3 DEF Live, Over, Using, Repeatable, RequestInv, ServedInv, WrittenInv
<1>5. \A q \in Requests \ {r} : Live(q) => Alike(session[q].connection)
  <2> SUFFICES ASSUME NEW q \in Requests \ {r}, Live(q) PROVE Alike(session[q].connection)
    OBVIOUS
  <2>1. Live(q)' /\ session'[q].connection = session[q].connection
        /\ session[q].connection \in Connections
    BY <1>2 DEF Live, ClientTypeOK, Session
  <2>2. connection'[session[q].connection] = connection[session[q].connection]
    BY <1>1, <2>1, HeldIsKept DEF ClientTypeOK
  <2>3. QED
    BY <2>2 DEF Alike
<1>6. (\A q \in Requests : RequestInv(q)') /\ OneRequestEach'
  <2>1. CASE r \in Requests
    BY <1>2, <1>4, <1>5, <2>1, OneRequestSteps DEF Using
  <2>2. CASE r \notin Requests
    <3>1. \A q \in Requests : session'[q] = session[q] /\ Live(q)' = Live(q)
      BY <1>2, <2>2 DEF Live
    <3>2. QED
      BY <1>5, <2>2, <3>1, RequestUntouched DEF PoolInv, OneRequestEach, Using
  <2>3. QED
    BY <2>1, <2>2
<1>7. UnheldAreNew'
  BY <1>1, GivenUpAreNew DEF ClientTypeOK
<1>8. UnusedOweNothing'
  <2>1. \A k \in connections : k \in Connections /\ connection'[k] = connection[k]
    BY <1>1, HeldIsKept DEF ClientTypeOK
  <2>2. QED
    BY <2>1 DEF PoolInv, UnusedOweNothing, Unused
<1>9. QED
  BY <1>6, <1>7, <1>8 DEF PoolInv

LEMMA GoOnPool ==
    ASSUME ClientTypeOK, PoolInv, NEW h \in Handlers, NEW r \in Requests, GoOn(h, r)
    PROVE  PoolInv'
<1> DEFINE c == session[r].connection
           op == session[r].phase
<1>1. PICK next \in Follows(r) :
        session' = [session EXCEPT ![r].phase = next, ![r].result = "waiting",
                             ![r].chunks = @ + IF op # "read" /\ next = "line" THEN 1 ELSE 0]
  BY DEF GoOn
<1>2. /\ session[r].result = "ok" /\ UNCHANGED connections
      /\ connection' = [connection EXCEPT ![c].timer = TRUE,
                             ![c].attempt_reconnect = @ \/ op = "read"]
  BY DEF GoOn, Runs
<1>3. /\ op \in Operations
      /\ \/ op = "resolve" /\ next = "connect"
         \/ op = "connect" /\ next = "write"
         \/ op = "write" /\ next = "read"
         \/ op \in {"read", "line", "chunk"} /\ next \in {"body", "line", "chunk", "rest"}
  BY <1>1 DEF Follows, Operations
<1>4. Using(r) /\ Live(r) /\ c \in Connections
  BY <1>3, OperatingIsUsing
<1>5. RequestInv(r)
  BY DEF PoolInv
<1>6. /\ session'[r].phase = next /\ session'[r].result = "waiting"
      /\ session'[r].connection = c
      /\ session'[r].response = session[r].response
      /\ session'[r].written = session[r].written
      /\ \A q \in Requests \ {r} : session'[q] = session[q]
  <2> DEFINE n == session[r].chunks + IF op # "read" /\ next = "line" THEN 1 ELSE 0
  <2>1. session' = [session EXCEPT ![r] = [session[r] EXCEPT
            !.phase = next, !.result = "waiting", !.chunks = n]]
    BY <1>1 DEF ClientTypeOK
  <2> HIDE DEF n
  <2>2. \A s \in Session : \A x, y, z :
           LET t == [s EXCEPT !.phase = x, !.result = y, !.chunks = z]
           IN  /\ t.phase = x /\ t.result = y /\ t.connection = s.connection
               /\ t.response = s.response /\ t.written = s.written
    BY ContinuedSession
  <2>3. session[r] \in Session /\ session \in [Requests -> Session]
    BY DEF ClientTypeOK
  <2>4. /\ session'[r] = [session[r] EXCEPT !.phase = next, !.result = "waiting", !.chunks = n]
        /\ \A q \in Requests \ {r} : session'[q] = session[q]
    BY <2>1, <2>3
  <2>5. QED
    BY <2>2, <2>3, <2>4
<1>7. /\ connection'[c].in_use = connection[c].in_use
      /\ connection'[c].responses = connection[c].responses
      /\ op # "read" => connection'[c].attempt_reconnect = connection[c].attempt_reconnect
      /\ \A k \in Connections \ {c} : connection'[k] = connection[k]
  <2> DEFINE a == connection[c].attempt_reconnect \/ op = "read"
  <2>1. connection' = [connection EXCEPT ![c] =
            [connection[c] EXCEPT !.timer = TRUE, !.attempt_reconnect = a]]
    BY <1>2, <1>4 DEF ClientTypeOK
  <2>2. op # "read" => a = connection[c].attempt_reconnect
    BY <1>4 DEF ClientTypeOK, Connection
  <2> HIDE DEF a
  <2>3. QED
    BY <1>4, <2>1, <2>2 DEF ClientTypeOK, Connection
<1>8. Using(r)'
  BY <1>3, <1>6 DEF Using, Live, Over
<1>9. ServedInv(r)' /\ connection'[c].in_use
  <2>1. Due(r)' = Due(r)
    BY <1>2, <1>3, <1>6 DEF Due
  <2>2. QED
    BY <1>4, <1>5, <1>6, <1>7, <2>1 DEF RequestInv, ServedInv, Conn
<1>10. WrittenInv(r)'
  <2>1. CASE op \in {"resolve", "connect", "write"}
    <3>1. Repeatable(r) /\ WrittenNow(r)' = WrittenNow(r)
      BY <1>2, <1>3, <1>6, <2>1 DEF WrittenNow, Repeatable
    <3>2. QED
      BY <1>3, <1>5, <1>6, <1>7, <2>1, <3>1 DEF RequestInv, WrittenInv, Conn
  <2>2. CASE op \notin {"resolve", "connect", "write"}
    <3>1. ~Repeatable(r)' /\ session'[r].phase # "none"
      BY <1>3, <1>6, <2>2 DEF Repeatable
    <3>2. QED
      BY <1>5, <1>6, <3>1 DEF RequestInv, WrittenInv
  <2>3. QED
    BY <2>1, <2>2
<1>11. RequestInv(r)'
  BY <1>5, <1>6, <1>9, <1>10 DEF RequestInv
<1> HIDE DEF c, op
<1>12. QED
  BY <1>2, <1>4, <1>6, <1>7, <1>8, <1>9, <1>11, OperationSteps DEF c

(* A request whose response did not come on a connection that may have     *)
(* been closed: it has been sent once, and holds a new connection.         *)
LEMMA ReconnectPool ==
    ASSUME ClientTypeOK, PoolInv, NEW h \in Handlers, NEW r \in Requests, Reconnect(h, r)
    PROVE  PoolInv'
<1> DEFINE old == session[r].connection
<1>1. PICK c \in Connections :
        /\ Fresh(c)
        /\ connections' = (connections \ {old}) \cup {c}
        /\ session' = [session EXCEPT ![r].phase = "resolve", ![r].result = "waiting",
                                      ![r].connection = c]
        /\ connection' = Held([connection EXCEPT ![c] = [NewAttempt EXCEPT !.timer = TRUE]])
  BY DEF Reconnect
<1> DEFINE n == [NewAttempt EXCEPT !.timer = TRUE]
           f == [connection EXCEPT ![c] = n]
<1>2. /\ session[r].phase = "read" /\ session[r].result = "error"
      /\ connection[old].attempt_reconnect
  BY DEF Reconnect, Runs, MayReconnect
<1>3. Using(r) /\ Live(r) /\ Repeatable(r) /\ WrittenNow(r) = 1
  BY <1>2 DEF Using, Live, Over, Repeatable, WrittenNow
<1>4. RequestInv(r)
  BY DEF PoolInv
<1>5. session[r].written = 1
  BY <1>2, <1>3, <1>4 DEF RequestInv, WrittenInv, Conn
<1>6. n \in Connection /\ n.in_use /\ n.responses = <<>> /\ ~n.attempt_reconnect
  <2>1. n \in Connection
    BY NewAttemptType
  <2>2. NewConnection.in_use /\ NewConnection.responses = <<>>
        /\ NewConnection = [k \in {"in_use", "attempt_reconnect", "open", "timer", "expired",
                                 "responses"} |-> NewConnection[k]]
    BY DEF NewConnection
  <2>3. QED
    BY <2>1, <2>2 DEF NewAttempt
<1> HIDE DEF n
<1>7. f \in [Connections -> Connection] /\ f[c] = n
      /\ \A k \in Connections \ {c} : f[k] = connection[k]
  BY <1>6 DEF ClientTypeOK
<1>8. connection' = Held(f)
  BY <1>1 DEF n
<1> HIDE DEF f
<1>9. c \in Unheld /\ \A q \in Requests : Live(q) => session[q].connection # c
  BY <1>1 DEF Fresh, Unheld
<1>10. connection'[c] = n
  BY <1>1, <1>7, <1>8, HeldIsKept
<1>11. /\ session'[r].phase = "resolve" /\ session'[r].result = "waiting"
       /\ session'[r].connection = c
       /\ session'[r].response = session[r].response
       /\ session'[r].written = session[r].written
       /\ \A q \in Requests \ {r} : session'[q] = session[q]
  <2>1. session' = [session EXCEPT ![r] = [session[r] EXCEPT
            !.phase = "resolve", !.result = "waiting", !.connection = c]]
    BY <1>1 DEF ClientTypeOK
  <2>2. \A s \in Session :
           LET t == [s EXCEPT !.phase = "resolve", !.result = "waiting", !.connection = c]
           IN  /\ t.phase = "resolve" /\ t.result = "waiting" /\ t.connection = c
               /\ t.response = s.response /\ t.written = s.written
    BY DEF Session
  <2>3. session[r] \in Session /\ session \in [Requests -> Session]
    BY DEF ClientTypeOK
  <2>4. QED
    BY <2>1, <2>2, <2>3
<1>12. ~Due(r)' /\ WrittenNow(r)' = 0
  BY <1>11 DEF Due, WrittenNow
<1>13. RequestInv(r)'
  BY <1>4, <1>5, <1>6, <1>10, <1>11, <1>12 DEF RequestInv, ServedInv, WrittenInv, Conn
<1>14. \A q \in Requests \ {r} : Using(q) => Alike(session[q].connection)
  <2> SUFFICES ASSUME NEW q \in Requests \ {r}, Using(q) PROVE Alike(session[q].connection)
    OBVIOUS
  <2>1. Live(q)' /\ session'[q].connection = session[q].connection
        /\ session[q].connection \in Connections \ {c}
    BY <1>9, <1>11 DEF Using, Live, ClientTypeOK, Session
  <2>2. connection'[session[q].connection] = f[session[q].connection]
    BY <1>7, <1>8, <2>1, HeldIsKept
  <2>3. QED
    BY <1>7, <2>1, <2>2 DEF Alike
<1>15. (\A q \in Requests : RequestInv(q)') /\ OneRequestEach'
  BY <1>9, <1>11, <1>13, <1>14, OneRequestSteps DEF Using
<1>16. UnheldAreNew'
  BY <1>7, <1>8, GivenUpAreNew
<1>17. UnusedOweNothing'
  <2> SUFFICES ASSUME NEW k \in Unused' PROVE connection'[k].responses = <<>>
    BY DEF UnusedOweNothing
  <2>1. k \in connections' /\ ~connection'[k].in_use
    BY DEF Unused
  <2>2. k \in connections /\ k \in Connections \ {c}
    BY <1>1, <1>6, <1>10, <2>1 DEF ClientTypeOK
  <2>3. connection'[k] = connection[k]
    BY <1>7, <1>8, <2>1, <2>2, HeldIsKept
  <2>4. QED
    BY <2>1, <2>2, <2>3 DEF PoolInv, UnusedOweNothing, Unused
<1>18. QED
  BY <1>15, <1>16, <1>17 DEF PoolInv

(* A request gives its connection back: to those to be used again only     *)
(* when its response has been read.                                        *)
LEMMA ReleasePool ==
    ASSUME ClientTypeOK, PoolInv, NEW h \in Handlers, NEW r \in Requests, Release(h, r)
    PROVE  PoolInv'
<1> DEFINE c == session[r].connection
           a == connection[c].attempt_reconnect \/ Runs(h, r, "read", "ok")
           n == [connection[c] EXCEPT !.in_use = FALSE, !.attempt_reconnect = a]
           f == [connection EXCEPT ![c] = n]
<1>1. PICK ec \in ErrorCodes(r) :
        /\ session' = [session EXCEPT ![r].phase = "answering", ![r].result = ""]
        /\ LET left == connections \ Discarded(c, ec)
           IN  connections' \in Pruned(left, left \cap (Unused \cup {c}))
  BY DEF Release
<1>2. session[r].phase \in Operations
      /\ connection' = Held([connection EXCEPT ![c].in_use = FALSE,
                             ![c].attempt_reconnect = @ \/ Runs(h, r, "read", "ok")])
  BY DEF Release
<1>3. Using(r) /\ Live(r) /\ c \in Connections
  BY <1>2, OperatingIsUsing
<1>4. RequestInv(r)
  BY DEF PoolInv
<1>5. connection' = Held(f)
  BY <1>2, <1>3 DEF ClientTypeOK
<1>6. a \in BOOLEAN
  BY <1>3 DEF ClientTypeOK, Connection, Runs
<1> HIDE DEF a
<1>7. n \in Connection /\ n.responses = connection[c].responses
  <2>1. connection[c] \in Connection
    BY <1>3 DEF ClientTypeOK
  <2>2. QED
    BY <1>6, <2>1 DEF Connection
<1> HIDE DEF n
<1>8. f \in [Connections -> Connection] /\ f[c] = n
      /\ \A k \in Connections \ {c} : f[k] = connection[k]
  BY <1>3, <1>7 DEF ClientTypeOK
<1> HIDE DEF f
<1>9. /\ session'[r].phase = "answering" /\ session'[r].result # "eof"
      /\ session'[r].response = session[r].response
      /\ session'[r].written = session[r].written
      /\ \A q \in Requests \ {r} : session'[q] = session[q]
  <2>1. session' = [session EXCEPT ![r] = [session[r] EXCEPT
            !.phase = "answering", !.result = ""]]
    BY <1>1 DEF ClientTypeOK
  <2>2. \A s \in Session : \A x :
           LET t == [s EXCEPT !.phase = "answering", !.result = x]
           IN  /\ t.phase = "answering" /\ t.result = x
               /\ t.response = s.response /\ t.written = s.written
    BY DEF Session
  <2>3. session[r] \in Session /\ session \in [Requests -> Session]
    BY DEF ClientTypeOK
  <2>4. \A q \in Requests \ {r} : session'[q] = session[q]
    BY <2>1, <2>3
  <2>5. session'[r] = [session[r] EXCEPT !.phase = "answering", !.result = ""]
    BY <2>1, <2>3
  <2>6. "" # "eof"
    OBVIOUS
  <2>7. QED
    BY <2>2, <2>3, <2>4, <2>5, <2>6
<1>10. ~Using(r)' /\ ~Repeatable(r)' /\ session'[r].phase # "none"
  BY <1>9 DEF Using, Repeatable
<1>11. RequestInv(r)'
  BY <1>4, <1>9, <1>10 DEF RequestInv, ServedInv, WrittenInv
<1>12. \A q \in Requests \ {r} : Using(q) => Alike(session[q].connection)
  <2> SUFFICES ASSUME NEW q \in Requests \ {r}, Using(q) PROVE Alike(session[q].connection)
    OBVIOUS
  <2>1. session[q].connection # c
    BY <1>3 DEF PoolInv, OneRequestEach, Using
  <2>2. Live(q)' /\ session'[q].connection = session[q].connection
        /\ session[q].connection \in Connections \ {c}
    BY <1>9, <2>1 DEF Using, Live, ClientTypeOK, Session
  <2>3. connection'[session[q].connection] = f[session[q].connection]
    BY <1>5, <1>8, <2>2, HeldIsKept
  <2>4. QED
    BY <1>8, <2>2, <2>3 DEF Alike
<1>13. (\A q \in Requests : RequestInv(q)') /\ OneRequestEach'
  BY <1>9, <1>10, <1>11, <1>12, OneRequestSteps
<1>14. UnheldAreNew'
  BY <1>5, <1>8, GivenUpAreNew
<1>15. connections' \subseteq connections \ Discarded(c, ec)
  BY <1>1 DEF Pruned
<1>16. c \in connections' => connection[c].responses = <<>>
  <2> SUFFICES ASSUME c \in connections' PROVE connection[c].responses = <<>>
    OBVIOUS
  <2>1. ec # "some"
    BY <1>15 DEF Discarded
  <2>2. \/ session[r].result = "ok" /\ session[r].phase \in {"read", "body", "line", "chunk"}
        \/ session[r].result = "eof" /\ session[r].phase = "rest"
    BY <1>1, <1>4, <2>1 DEF ErrorCodes, RequestInv
  <2>3. ~Due(r)
    BY <2>2 DEF Due
  <2>4. QED
    BY <1>3, <1>4, <2>3 DEF RequestInv, ServedInv, Conn
<1>17. UnusedOweNothing'
  <2> SUFFICES ASSUME NEW k \in Unused' PROVE connection'[k].responses = <<>>
    BY DEF UnusedOweNothing
  <2>1. k \in connections' /\ ~connection'[k].in_use
    BY DEF Unused
  <2>2. k \in connections /\ k \in Connections
    BY <1>15, <2>1 DEF ClientTypeOK
  <2>3. connection'[k] = f[k]
    BY <1>5, <1>8, <2>1, <2>2, HeldIsKept
  <2>4. CASE k = c
    BY <1>7, <1>8, <1>16, <2>1, <2>3, <2>4
  <2>5. CASE k # c
    BY <1>8, <2>1, <2>2, <2>3, <2>5 DEF PoolInv, UnusedOweNothing, Unused
  <2>6. QED
    BY <2>4, <2>5
<1>18. QED
  BY <1>13, <1>14, <1>17 DEF PoolInv

-----------------------------------------------------------------------------
LEMMA PoolNext == ClientTypeOK /\ PoolInv /\ [ClientNext]_vars => PoolInv'
<1> SUFFICES ASSUME ClientTypeOK, PoolInv, [ClientNext]_vars PROVE PoolInv'
  OBVIOUS
<1>1. CASE UNCHANGED vars
  BY <1>1, UnchangedPool DEF vars
<1>2. ASSUME NEW r \in Requests, GetConnection(r) \/ Connect(r) \/ Complete(r) PROVE PoolInv'
  BY <1>2, GetConnectionPool, ConnectPool, CompletePool
<1>3. ASSUME NEW c \in Connections, TimerExpires(c) \/ TimerHandler(c) PROVE PoolInv'
  BY <1>3, TimerPool
<1>4. CASE StopClient \/ DestroyStops
  BY <1>4, StopPool
<1>5. ASSUME NEW s \in Stoppers, Destroy(s) \/ HandlersStopped(s) PROVE PoolInv'
  BY <1>5, UnchangedPool DEF Destroy, HandlersStopped
<1>6. ASSUME NEW h \in Handlers, HandlerStep(h) PROVE PoolInv'
  <2>1. CASE Locked(h)
    BY <2>1, UnchangedPool DEF Locked
  <2>2. CASE Drop(h)
    BY <2>2, EndPool DEF Drop
  <2>3. ASSUME NEW r \in Requests, GoOn(h, r) \/ Reconnect(h, r) \/ Release(h, r) PROVE PoolInv'
    BY <2>3, GoOnPool, ReconnectPool, ReleasePool
  <2>4. ASSUME NEW r \in Requests, Answer(h, r) \/ LengthThrows(h, r) PROVE PoolInv'
    BY <2>4, EndPool DEF Answer, LengthThrows
  <2>5. QED
    BY <1>6, <2>1, <2>2, <2>3, <2>4 DEF HandlerStep
<1>7. ASSUME NEW h \in Handlers, NEW r \in Requests, TakeUp(h, r) PROVE PoolInv'
  BY <1>7, TakeUpPool
<1>8. QED
  BY <1>1, <1>2, <1>3, <1>4, <1>5, <1>6, <1>7 DEF ClientNext

LEMMA PoolAlways == ClientSpec => []PoolInv
<1>1. Init => ClientInv /\ PoolInv
  BY ClientInit_Inv, PoolInvInit DEF Init
<1>2. ClientInv /\ PoolInv /\ [ClientNext]_vars => (ClientInv /\ PoolInv)'
  BY ClientNext_Inv, PoolNext DEF ClientInv
<1>3. QED
  BY <1>1, <1>2, PTL DEF ClientSpec

(* However many threads, requests and connections there are, no two        *)
(* requests use a connection at a time (client_http.hpp, the in_use flags).*)
THEOREM OneRequestEachHolds == ClientSpec => []OneRequestEach
<1>1. PoolInv => OneRequestEach
  BY DEF PoolInv
<1>2. QED
  BY <1>1, PoolAlways, PTL

(* A request gets no response but its own, whatever timed out, was stopped *)
(* or was sent again before on its connection (client_http.hpp:251).       *)
THEOREM OwnAnswerHolds == ClientSpec => []OwnAnswer
<1>1. PoolInv => OwnAnswer
  BY DEF PoolInv, RequestInv, OwnAnswer
<1>2. QED
  BY <1>1, PoolAlways, PTL

(* A request is written twice at most, however often the server closes the *)
(* connection it is written to (client_http.hpp:551, attempt_reconnect).   *)
THEOREM SentTwiceAtMostHolds == ClientSpec => []SentTwiceAtMost
<1>1. PoolInv => SentTwiceAtMost
  BY DEF PoolInv, RequestInv, WrittenInv, SentTwiceAtMost
<1>2. QED
  BY <1>1, PoolAlways, PTL
=============================================================================
