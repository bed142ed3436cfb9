------------------------------- MODULE Proxy --------------------------------
(***************************************************************************)
(* The proxy program (src/src/proxy/proxy.cpp): one single-threaded        *)
(* process that serves one client connection at a time and, for each       *)
(* request, talks to one device.                                           *)
(*                                                                         *)
(* The proxy blocks in accept ("accept"), in the recv of Run ("client"),   *)
(* in the recv of SendDataDevice ("sendData") and in that of               *)
(* ReceiveDataDevice ("receiveData"); an action is what it does from one   *)
(* of these to the next.  What recv returns from the client is taken to be *)
(* one whole request.                                                      *)
(***************************************************************************)
EXTENDS Network

CONSTANTS
    RequestKinds,       \* [device, size, ok]: the requests clients send
    MaxRequests,        \* bound: requests in a behaviour
    SpuriousTimeouts    \* may an answer take longer than the 80 ms timeout?

ASSUME ProxyAssumption ==
    /\ RequestKinds \subseteq [device: Devices \cup {NoDevice},
                               size: Nat \ {0}, ok: BOOLEAN]
    /\ MaxRequests \in Nat
    /\ SpuriousTimeouts \in BOOLEAN

VARIABLES
    pstate,               \* where the proxy blocks
    session_ids,          \* last session id used with each device
    current_session_id,
    request,              \* the request being forwarded; device_addr is the
                          \* address of its device
    i,                    \* SendDataDevice: fragments acknowledged
    retry_counter,        \* SendDataDevice
    rcvtimeo,             \* is SO_RCVTIMEO set on the device socket?
    raw_http_response,
    answers               \* history: each request with what its client got

proxyVars == <<pstate, session_ids, current_session_id, request, i,
               retry_counter, rcvtimeo, raw_http_response, answers>>

(* "none" when the proxy was restarted before it had an answer.            *)
Status == {"forwarded", "500", "502", "503", "none"}

Answer == [req: Request, status: Status, body: Seq(ResponseFragment)]

ProxyTypeOK ==
    /\ pstate \in {"accept", "client", "sendData", "receiveData"}
    /\ session_ids \in [Devices -> SessionChar]
    /\ current_session_id \in SessionChar
    /\ request \in Request
    /\ i \in Nat
    /\ retry_counter \in Nat
    /\ rcvtimeo \in BOOLEAN
    /\ raw_http_response \in Seq(ResponseFragment)
    /\ answers \in Seq(Answer)

ProxyInit ==
    /\ pstate = "accept"
    /\ session_ids = [d \in Devices |-> 0]
    /\ current_session_id = 0
    /\ request = Garbage
    /\ i = 0
    /\ retry_counter = 0
    /\ rcvtimeo = FALSE
    /\ raw_http_response = <<>>
    /\ answers = <<>>

-----------------------------------------------------------------------------
(* SendPacket to the device at device_addr.                                *)
Packet(type, count, session, data) ==
    [type |-> type, count |-> WireCount(count, session),
     session |-> WireSession(session), data |-> data]

(* The chunk SendDataDevice sends when `acked` fragments are acknowledged. *)
Chunk(r, session, acked) ==
    Packet("DATA", r.size - acked, session,
           <<[req |-> r, n |-> r.size - acked]>>)

Errors == {<<Packet("ERROR", 0, current_session_id, <<>>)>>} \cup Overlong

SendToDevice(packet) ==
    toDevice' = [toDevice EXCEPT ![request.device] = Put(@, packet)]

SendError ==
    \E sent \in Errors :
        toDevice' = [toDevice EXCEPT ![request.device] = PutSent(@, sent)]

HasReply == toProxy # <<>>

Reply == Head(toProxy)

(* send on the client's connection, and back to its recv.  The locals of   *)
(* SendDataDevice are gone.                                                *)
AnswerClient(r, status, body) ==
    /\ answers' = Append(answers, [req |-> r, status |-> status,
                                   body |-> body])
    /\ pstate' = "client"
    /\ i' = 0
    /\ retry_counter' = 0
    /\ raw_http_response' = <<>>

Throw(status) == AnswerClient(request, status, <<>>)

-----------------------------------------------------------------------------
Accept ==
    /\ pstate = "accept"
    /\ pstate' = "client"
    /\ UNCHANGED <<network, session_ids, current_session_id, request, i,
                   retry_counter, rcvtimeo, raw_http_response, answers>>

(* recv on the connection returns nothing: it is closed, or was silent for *)
(* AAA_CLIENT_MAX_INACTIVE_TIME seconds.                                   *)
ClientGone ==
    /\ pstate = "client"
    /\ pstate' = "accept"
    /\ UNCHANGED <<network, session_ids, current_session_id, request, i,
                   retry_counter, rcvtimeo, raw_http_response, answers>>

NextRequest(kind) ==
    [id |-> Len(answers) + 1, device |-> kind.device, size |-> kind.size,
     ok |-> kind.ok]

(* A request for a device that is not in the configuration.                *)
RequestUnknown(kind) ==
    /\ pstate = "client"
    /\ Len(answers) < MaxRequests
    /\ kind.device \notin Devices
    /\ AnswerClient(NextRequest(kind), "502", <<>>)
    /\ UNCHANGED <<network, session_ids, current_session_id, request,
                   rcvtimeo>>

(* SetDeviceSocket starts a new session with the device, and               *)
(* SendDataDevice starts.                                                  *)
StartSession(kind) ==
    LET session == NextSession(session_ids[kind.device])
    IN  /\ pstate = "client"
        /\ Len(answers) < MaxRequests
        /\ kind.device \in Devices
        /\ session_ids' = [session_ids EXCEPT ![kind.device] = session]
        /\ current_session_id' = session
        /\ request' = NextRequest(kind)
        /\ rcvtimeo' = TRUE

(* SendDataDevice sends the first chunk.                                   *)
RequestForward(kind) ==
    LET r == NextRequest(kind)
    IN  /\ StartSession(kind)
        /\ kind.size <= MaxCount
        /\ pstate' = "sendData"
        /\ toDevice' = [toDevice EXCEPT ![kind.device] =
                           Put(@, Chunk(r, current_session_id', 0))]
        /\ UNCHANGED <<toProxy, i, retry_counter, raw_http_response, answers>>

(* Too many chunks: SendDataDevice returns at once, with the timeout still *)
(* set, and Run waits for a response all the same.                         *)
RequestTooLong(kind) ==
    /\ StartSession(kind)
    /\ kind.size > MaxCount
    /\ pstate' = "receiveData"
    /\ UNCHANGED <<network, i, retry_counter, raw_http_response, answers>>

-----------------------------------------------------------------------------
(* recv in SendDataDevice returns a packet.                                *)
SendDataReceives ==
    /\ pstate = "sendData" /\ HasReply
    /\ toProxy' = Tail(toProxy)

(* Mutant of SessionMatches: the session of a reply is not checked.        *)
AnySession == TRUE

SessionMatches == Reply.session = current_session_id

(* Mutants of CountMatches: ack_num is not checked; it is taken for the    *)
(* number of the fragment that the device expects next.                    *)
AnyAckNum == TRUE

NextAckNum == Reply.count = request.size - (i + 1)

CountMatches == Reply.count = request.size - i

AckAccepted == Reply.type = "ACK" /\ SessionMatches /\ CountMatches

(* The ACK of this chunk: the next chunk goes out.                         *)
AckNext ==
    /\ SendDataReceives
    /\ AckAccepted
    /\ i + 1 < request.size
    /\ i' = i + 1
    /\ retry_counter' = 0
    /\ SendToDevice(Chunk(request, current_session_id, i + 1))
    /\ UNCHANGED <<pstate, session_ids, current_session_id, request, rcvtimeo,
                   raw_http_response, answers>>

(* The ACK of the last chunk: the timeout is switched off and              *)
(* ReceiveDataDevice waits for the response.                               *)
AckLast ==
    /\ SendDataReceives
    /\ AckAccepted
    /\ i + 1 >= request.size
    /\ i' = i + 1
    /\ retry_counter' = 0
    /\ rcvtimeo' = FALSE
    /\ raw_http_response' = <<>>
    /\ pstate' = "receiveData"
    /\ UNCHANGED <<toDevice, session_ids, current_session_id, request,
                   answers>>

(* An ACK of another chunk: this one is sent again, uncounted.             *)
AckWrongCount ==
    /\ SendDataReceives
    /\ Reply.type = "ACK" /\ SessionMatches /\ ~CountMatches
    /\ SendToDevice(Chunk(request, current_session_id, i))
    /\ UNCHANGED <<pstate, session_ids, current_session_id, request, i,
                   retry_counter, rcvtimeo, raw_http_response, answers>>

(* An ACK of another session: an ERROR, and the chunk again.  The retry is *)
(* counted but not compared with the limit.                                *)
AckWrongSession ==
    /\ SendDataReceives
    /\ Reply.type = "ACK" /\ ~SessionMatches
    /\ \E sent \in Errors :
          toDevice' = [toDevice EXCEPT ![request.device] =
                          Put(PutSent(@, sent),
                              Chunk(request, current_session_id, i))]
    /\ retry_counter' = retry_counter + 1
    /\ UNCHANGED <<pstate, session_ids, current_session_id, request, i,
                   rcvtimeo, raw_http_response, answers>>

(* A packet that is not an ACK ends the request.                           *)
SendDataWrongType ==
    /\ SendDataReceives
    /\ Reply.type # "ACK"
    /\ SendError
    /\ Throw("500")
    /\ UNCHANGED <<session_ids, current_session_id, request, rcvtimeo>>

RetriesExhausted == retry_counter > MaxRetransmissions

(* May the 80 ms pass?  Without SpuriousTimeouts they do only when nothing *)
(* is on its way between the proxy and this device.                        *)
TimeoutDue ==
    \/ SpuriousTimeouts
    \/ /\ ~HasReply
       /\ toDevice[request.device] = <<>>

SendDataTimesOut ==
    /\ pstate = "sendData" /\ rcvtimeo /\ TimeoutDue
    /\ UNCHANGED <<toProxy, session_ids, current_session_id, request, rcvtimeo>>

(* Mutant of Resend: the retry is not counted.                             *)
UncountedResend ==
    /\ SendDataTimesOut
    /\ ~RetriesExhausted
    /\ SendToDevice(Chunk(request, current_session_id, i))
    /\ UNCHANGED <<pstate, i, retry_counter, raw_http_response, answers>>

Resend ==
    /\ SendDataTimesOut
    /\ ~RetriesExhausted
    /\ retry_counter' = retry_counter + 1
    /\ SendToDevice(Chunk(request, current_session_id, i))
    /\ UNCHANGED <<pstate, i, raw_http_response, answers>>

MaxRetransmissionsReached ==
    /\ SendDataTimesOut
    /\ RetriesExhausted
    /\ Throw("503")
    /\ UNCHANGED toDevice

-----------------------------------------------------------------------------
(* recv in ReceiveDataDevice returns a packet.                             *)
ReceiveDataReceives ==
    /\ pstate = "receiveData" /\ HasReply
    /\ toProxy' = Tail(toProxy)
    /\ UNCHANGED <<session_ids, current_session_id, request, rcvtimeo>>

ResponseWrongSession ==
    /\ ReceiveDataReceives
    /\ ~SessionMatches
    /\ SendError
    /\ Throw("500")

(* Mutant of ResponseSoFar: assignment instead of append.                  *)
LastReply == IF Reply.type = "DATA" THEN Reply.data ELSE raw_http_response

(* DATA is appended and acknowledged, whatever its count; any other type   *)
(* is ignored.                                                             *)
ResponseSoFar ==
    IF Reply.type = "DATA" THEN raw_http_response \o Reply.data
                           ELSE raw_http_response

AcknowledgeData ==
    IF Reply.type = "DATA"
      THEN SendToDevice(Packet("ACK", Reply.count, current_session_id, <<>>))
      ELSE UNCHANGED toDevice

ResponseMore ==
    /\ ReceiveDataReceives
    /\ SessionMatches
    /\ Reply.count # 1
    /\ raw_http_response' = ResponseSoFar
    /\ AcknowledgeData
    /\ UNCHANGED <<pstate, i, retry_counter, answers>>

(* A packet with count 1, of any type, ends the response.                  *)
ResponseLast ==
    /\ ReceiveDataReceives
    /\ SessionMatches
    /\ Reply.count = 1
    /\ AcknowledgeData
    /\ AnswerClient(request, "forwarded", ResponseSoFar)

(* recv fails: only after RequestTooLong is there a timeout.               *)
ResponseTimesOut ==
    /\ pstate = "receiveData" /\ rcvtimeo /\ TimeoutDue
    /\ Throw("500")
    /\ UNCHANGED <<network, session_ids, current_session_id, request,
                   rcvtimeo>>

-----------------------------------------------------------------------------
ClientStep ==
    \/ Accept \/ ClientGone
    \/ \E kind \in RequestKinds :
          RequestUnknown(kind) \/ RequestForward(kind) \/ RequestTooLong(kind)

ProxyReceives ==
    \/ AckNext \/ AckLast \/ AckWrongCount \/ AckWrongSession
    \/ SendDataWrongType
    \/ ResponseWrongSession \/ ResponseMore \/ ResponseLast

ProxyTimesOut == Resend \/ MaxRetransmissionsReached \/ ResponseTimesOut
=============================================================================
