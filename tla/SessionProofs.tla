--------------------------- MODULE SessionProofs ----------------------------
(***************************************************************************)
(* What sessions and counts protect from retransmissions, losses, repeated *)
(* and overtaken datagrams, for fewer requests than there are session ids: *)
(* the device's buffer (OrderInv) and, with one device, what the proxy     *)
(* takes for its own (OwnInv).  At the end, what survives restarts of the  *)
(* proxy, which uses session ids again.                                    *)
(***************************************************************************)
EXTENDS TINsProofs, Restarts

(* Requests taken from clients so far.                                     *)
Started ==
    Len(answers) + (IF pstate \in {"sendData", "receiveData"} THEN 1 ELSE 0)

(* No session id has wrapped, and 0 is not one.                            *)
SessionInv ==
    /\ Started <= MaxRequests
    /\ session_ids \in [Devices -> 0 .. Started]
    /\ current_session_id \in 0 .. Started
    /\ pstate \in {"sendData", "receiveData"} => current_session_id # 0

LEMMA SessionInvInit == Init => SessionInv
BY ProxyAssumption DEF Init, ProxyInit, SessionInv, Started

(* What the proxy's steps do to its sessions.                              *)
LEMMA StartSessionInv ==
    ASSUME MaxRequests < SessionMod, TypeInv, SessionInv,
           NEW kind \in RequestKinds, StartSession(kind),
           pstate' \in {"sendData", "receiveData"}, UNCHANGED answers
    PROVE  /\ SessionInv'
           /\ current_session_id' = session_ids[kind.device] + 1
<1>1. /\ pstate = "client" /\ Len(answers) \in Nat
      /\ MaxRequests \in Nat /\ SessionMod \in Nat
      /\ Len(answers) < MaxRequests
      /\ kind.device \in Devices
  BY ProxyAssumption, AAAAssumption
     DEF StartSession, TypeInv, TypeOK, ProxyTypeOK
<1>2. Started = Len(answers) /\ Started' = Len(answers) + 1
  BY <1>1 DEF Started
<1>3. session_ids \in [Devices -> 0 .. Len(answers)]
  BY <1>2 DEF SessionInv
<1>4. NextSession(session_ids[kind.device]) = session_ids[kind.device] + 1
  BY <1>1, <1>3 DEF NextSession
<1>5. /\ current_session_id' = session_ids[kind.device] + 1
      /\ session_ids' = [session_ids EXCEPT ![kind.device] =
                            session_ids[kind.device] + 1]
  BY <1>4 DEF StartSession
<1>6. /\ current_session_id' \in 0 .. Len(answers) + 1
      /\ current_session_id' # 0
      /\ session_ids' \in [Devices -> 0 .. Len(answers) + 1]
  BY <1>1, <1>3, <1>5
<1> QED
  BY <1>1, <1>2, <1>5, <1>6 DEF SessionInv

LEMMA AnswerClientStarted ==
    ASSUME TypeInv, NEW r, NEW status, NEW body, AnswerClient(r, status, body)
    PROVE  Started' = Len(answers) + 1 /\ pstate' = "client"
<1>1. Len(answers') = Len(answers) + 1 /\ pstate' = "client"
  BY AppendProperties DEF AnswerClient, TypeInv, TypeOK, ProxyTypeOK
<1> QED
  BY <1>1 DEF Started, TypeInv, TypeOK, ProxyTypeOK

LEMMA RequestUnknownInv ==
    ASSUME TypeInv, SessionInv, NEW kind \in RequestKinds, RequestUnknown(kind)
    PROVE  SessionInv'
<1>1. /\ pstate = "client" /\ Len(answers) \in Nat
      /\ MaxRequests \in Nat /\ Len(answers) < MaxRequests
  BY ProxyAssumption DEF RequestUnknown, TypeInv, TypeOK, ProxyTypeOK
<1>2. /\ Started = Len(answers)
      /\ Started' = Len(answers) + 1 /\ pstate' = "client"
  BY <1>1, AnswerClientStarted DEF RequestUnknown, Started
<1>3. UNCHANGED <<session_ids, current_session_id>>
  BY DEF RequestUnknown
<1>4. /\ session_ids' \in [Devices -> 0 .. Len(answers) + 1]
      /\ current_session_id' \in 0 .. Len(answers) + 1
  BY <1>1, <1>2, <1>3 DEF SessionInv
<1> QED
  BY <1>1, <1>2, <1>4 DEF SessionInv

(* While it serves a request the proxy keeps the session, and counts the   *)
(* request once, as started or as answered.                                *)
LEMMA ServingInv ==
    ASSUME TypeInv, SessionInv, ProxyReceives \/ ProxyTimesOut
    PROVE  /\ SessionInv'
           /\ UNCHANGED <<session_ids, current_session_id, request>>
           /\ pstate \in {"sendData", "receiveData"}
<1>1. /\ UNCHANGED <<session_ids, current_session_id, request>>
      /\ pstate \in {"sendData", "receiveData"}
  BY DEF ProxyReceives, ProxyTimesOut, AckNext, AckLast, AckWrongCount,
         AckWrongSession, SendDataWrongType, SendDataReceives,
         ResponseWrongSession, ResponseMore, ResponseLast, ReceiveDataReceives,
         Resend, MaxRetransmissionsReached, SendDataTimesOut, ResponseTimesOut
<1>2. \/ pstate' \in {"sendData", "receiveData"} /\ answers' = answers
      \/ \E status, body : AnswerClient(request, status, body)
  BY <1>1
     DEF ProxyReceives, ProxyTimesOut, AckNext, AckLast, AckWrongCount,
         AckWrongSession, SendDataWrongType, Throw,
         ResponseWrongSession, ResponseMore, ResponseLast,
         Resend, MaxRetransmissionsReached, ResponseTimesOut
<1>3. Started = Len(answers) + 1
  BY <1>1 DEF Started
<1>4. Started' = Started
  BY <1>2, <1>3, AnswerClientStarted DEF Started
<1> QED
  BY <1>1, <1>4 DEF SessionInv

LEMMA ProxyNextInv ==
    ASSUME MaxRequests < SessionMod, TypeInv, SessionInv, ProxyNext
    PROVE  SessionInv'
<1>1. CASE Accept \/ ClientGone
  <2>1. Started' = Started /\ pstate' \notin {"sendData", "receiveData"}
        /\ UNCHANGED <<session_ids, current_session_id>>
    BY <1>1 DEF Accept, ClientGone, Started
  <2> QED
    BY <2>1 DEF SessionInv
<1>2. ASSUME NEW kind \in RequestKinds,
             RequestForward(kind) \/ RequestTooLong(kind)
      PROVE  SessionInv'
  BY <1>2, StartSessionInv DEF RequestForward, RequestTooLong
<1> QED
  BY <1>1, <1>2, RequestUnknownInv, ServingInv DEF ProxyNext, ClientStep

LEMMA SessionInvStep ==
    ASSUME MaxRequests < SessionMod, TypeInv, SessionInv, [Next]_vars
    PROVE  SessionInv'
<1>1. CASE UNCHANGED proxyVars
  BY <1>1 DEF proxyVars, SessionInv, Started
<1>2. CASE ~ProxyNext
  <2>1. UNCHANGED proxyVars
    BY <1>2 DEF Next, vars, Fault, FaultOf, DisturbToProxy, DisturbToDevice,
                RestartDevice, DeviceRecvError, DeviceNext, DropForAbsent
  <2> QED
    BY <1>1, <2>1
<1> QED
  BY <1>2, ProxyNextInv

-----------------------------------------------------------------------------
(* What the proxy sends: the fragments of a request, each with its number  *)
(* as the count, and packets without data.                                 *)
OfRequest(session, r) ==
    {p \in SoundPacket :
        p.type = "DATA" => /\ p.session = session
                           /\ p.data[1].req = r /\ p.data[1].n = p.count}

LEMMA ChunkOfRequest ==
    ASSUME NEW r \in Request, NEW session \in 0 .. SessionMod - 1, NEW k \in Nat,
           k < r.size
    PROVE  Chunk(r, session, k) \in OfRequest(session, r)
<1>1. session \in SessionChar /\ r.size \in Nat /\ r.size - k \in Nat
  BY AAAAssumption DEF SessionChar, Request
<1>2. Chunk(r, session, k) \in SoundPacket
  BY <1>1, ChunkType
<1>3. WireSession(session) = session /\ WireCount(r.size - k, session) = r.size - k
  BY AAAAssumption DEF WireSession, WireCount
<1> QED
  BY <1>2, <1>3 DEF Chunk, Packet, OfRequest

LEMMA ErrorsOfRequest ==
    ASSUME ProxyTypeOK, NEW session, NEW r, NEW sent \in Errors
    PROVE  sent \in Seq(OfRequest(session, r))
<1>1. sent \in Seq(SoundPacket)
  BY ErrorsType
<1>2. \A k \in 1 .. Len(sent) : sent[k].type = "ERROR"
  BY DEF Errors, Overlong, Packet
<1>3. \A k \in 1 .. Len(sent) : sent[k] \in OfRequest(session, r)
  BY <1>1, <1>2, ElementOfSeq DEF OfRequest
<1> QED
  BY <1>1, <1>3, SeqDef

(* Every step of the proxy sends only such packets.                        *)
LEMMA ProxySends ==
    ASSUME MaxRequests < SessionMod, TypeInv, SessionInv, ProxyNext, NEW S,
           toDevice \in [Devices -> Seq(S)],
           OfRequest(current_session_id', request') \subseteq S
    PROVE  toDevice' \in [Devices -> Seq(S)]
<1> DEFINE c == current_session_id'
           r == request'
           C(k) == Chunk(r, c, k)
<1>0. SessionInv'
  BY ProxyNextInv
<1>1. TypeInv'
  BY TypeInvStep DEF Next
<1>2. c \in 0 .. SessionMod - 1 /\ r \in Request /\ i \in Nat
  <2>1. /\ MaxRequests \in Nat /\ SessionMod \in Nat
        /\ Started' \in Nat /\ c \in 0 .. Started' /\ Started' <= MaxRequests
    BY <1>0, <1>1, ProxyAssumption, AAAAssumption
       DEF SessionInv, Started, TypeInv, TypeOK, ProxyTypeOK
  <2> QED
    BY <1>1, <2>1 DEF TypeInv, TypeOK, ProxyTypeOK
<1>3. ASSUME NEW k \in Nat, k < r.size
      PROVE  C(k) \in S
  BY <1>2, <1>3, ChunkOfRequest
<1>4. ASSUME NEW sent \in Errors, NEW d \in Devices
      PROVE  /\ sent \in Seq(S)
             /\ PutSent(toDevice[d], sent) \in Seq(S)
  <2>1. sent \in Seq(OfRequest(c, r))
    BY ErrorsOfRequest DEF TypeInv, TypeOK
  <2>2. sent \in Seq(S)
    BY <2>1, SeqMonotonic
  <2> QED
    BY <2>2, PutSentKeeps
<1>5. ASSUME NEW d \in Devices, NEW p \in S
      PROVE  [toDevice EXCEPT ![d] = Put(@, p)] \in [Devices -> Seq(S)]
  BY <1>5, PutKeeps
<1>6. CASE UNCHANGED toDevice
  BY <1>6
<1>7. ASSUME NEW kind \in RequestKinds, RequestForward(kind)
      PROVE  toDevice' \in [Devices -> Seq(S)]
  <2>1. kind.device \in Devices /\ r = NextRequest(kind)
        /\ toDevice' = [toDevice EXCEPT ![kind.device] = Put(@, C(0))]
    BY <1>7 DEF RequestForward, StartSession
  <2>2. 0 < r.size
    BY <2>1, NextRequestType DEF TypeInv, TypeOK
  <2>3. C(0) \in S
    BY <1>3, <2>2
  <2> QED
    BY <1>5, <2>1, <2>3
<1> HIDE DEF C
<1>8. ASSUME pstate \in {"sendData", "receiveData"}, request' = request,
             current_session_id' = current_session_id
      PROVE  /\ request.device \in Devices
             /\ SendError => toDevice' \in [Devices -> Seq(S)]
             /\ pstate = "sendData" => C(i) \in S
  <2>1. request.device \in Devices
    BY <1>8 DEF TypeInv, ForwardingInv
  <2>2. SendError => toDevice' \in [Devices -> Seq(S)]
    BY <1>4, <2>1 DEF SendError
  <2>3. pstate = "sendData" => C(i) \in S
    BY <1>2, <1>3, <1>8 DEF TypeInv, ForwardingInv
  <2> QED
    BY <2>1, <2>2, <2>3
<1>9. CASE ProxyReceives \/ ProxyTimesOut
  <2>1. /\ request' = request /\ current_session_id' = current_session_id
        /\ pstate \in {"sendData", "receiveData"}
    BY <1>9, ServingInv
  <2>2. CASE AckNext
    <3>1. i + 1 \in Nat /\ i + 1 < r.size
          /\ toDevice' = [toDevice EXCEPT ![request.device] = Put(@, C(i + 1))]
      BY <1>2, <2>1, <2>2 DEF AckNext, SendToDevice, C
    <3> QED
      BY <1>3, <1>5, <1>8, <2>1, <3>1
  <2>3. CASE AckWrongCount \/ Resend
    <3>1. pstate = "sendData"
          /\ toDevice' = [toDevice EXCEPT ![request.device] = Put(@, C(i))]
      BY <2>1, <2>3 DEF AckWrongCount, Resend, SendToDevice, C,
                        SendDataReceives, SendDataTimesOut
    <3> QED
      BY <1>5, <1>8, <2>1, <3>1
  <2>4. CASE AckWrongSession
    <3>1. PICK sent \in Errors :
             toDevice' = [toDevice EXCEPT ![request.device] =
                             Put(PutSent(@, sent), C(i))]
      BY <2>1, <2>4 DEF AckWrongSession, C
    <3>2. pstate = "sendData"
      BY <2>4 DEF AckWrongSession, SendDataReceives
    <3>3. request.device \in Devices /\ C(i) \in S
      BY <1>8, <2>1, <3>2
    <3> QED
      BY <1>4, <3>1, <3>3, PutKeeps
  <2>5. CASE SendDataWrongType \/ ResponseWrongSession
    BY <1>8, <2>1, <2>5 DEF SendDataWrongType, ResponseWrongSession
  <2>6. CASE ResponseMore \/ ResponseLast
    <3> DEFINE ack == Packet("ACK", Reply.count, current_session_id, <<>>)
    <3>1. AcknowledgeData /\ HasReply
      BY <2>6 DEF ResponseMore, ResponseLast, ReceiveDataReceives
    <3>2. Reply.count \in Nat /\ current_session_id \in SessionChar
      BY <3>1, ReplyType DEF DevicePacket, TypeInv, TypeOK, ProxyTypeOK
    <3>3. ack \in SoundPacket
      <4>1. "ACK" \in PacketType /\ <<>> \in Seq(RequestFragment)
        BY DEF PacketType
      <4> QED
        BY <3>2, <4>1, ProxyPacketType
    <3>4. ack \in S
      BY <3>3 DEF OfRequest, Packet
    <3>5. \/ toDevice' = [toDevice EXCEPT ![request.device] = Put(@, ack)]
          \/ UNCHANGED toDevice
      BY <3>1 DEF AcknowledgeData, SendToDevice
    <3> HIDE DEF ack
    <3>6. request.device \in Devices
      BY <1>8, <2>1
    <3>7. CASE toDevice' = [toDevice EXCEPT ![request.device] = Put(@, ack)]
      BY <1>5, <3>4, <3>6, <3>7
    <3> QED
      BY <1>6, <3>5, <3>7
  <2>7. CASE AckLast \/ MaxRetransmissionsReached \/ ResponseTimesOut
    BY <1>6, <2>7 DEF AckLast, MaxRetransmissionsReached, ResponseTimesOut, network
  <2> QED
    BY <1>9, <2>2, <2>3, <2>4, <2>5, <2>6, <2>7
       DEF ProxyReceives, ProxyTimesOut
<1> QED
  BY <1>6, <1>7, <1>9
     DEF ProxyNext, ClientStep, Accept, ClientGone, RequestUnknown,
         RequestTooLong, network

(* Nothing but the proxy puts a packet into a queue to a device.           *)
LEMMA OnlyProxySends ==
    ASSUME NEW S, toDevice \in [Devices -> Seq(S)], [Next]_vars, ~ProxyNext
    PROVE  toDevice' \in [Devices -> Seq(S)]
<1>1. ASSUME NEW d \in Devices, HasPacket(d), Consume(d)
      PROVE  toDevice' \in [Devices -> Seq(S)]
  <2>1. Tail(toDevice[d]) \in Seq(S)
    BY <1>1, HeadTailProperties DEF HasPacket
  <2> QED
    BY <1>1, <2>1 DEF Consume
<1>2. ASSUME NEW d \in Devices, DeviceReceives(d)
      PROVE  toDevice' \in [Devices -> Seq(S)]
  <2>1. HasPacket(d) /\ Consume(d)
    BY <1>2 DEF DeviceReceives, RunWrongCount, RunWrongSession, RunWrongType,
         RunFragment, RunUnparsed, RunTooLong, RunRespond, TakeFragment,
         SendDataNext, SendDataDone, SendDataError, SendDataAgain
  <2> QED
    BY <1>1, <2>1
<1>3. ASSUME NEW kind, NEW d \in Devices, DisturbToDevice(kind, d)
      PROVE  toDevice' \in [Devices -> Seq(S)]
  <2>1. PICK queue \in Disturbed(kind, toDevice[d]) :
            toDevice' = [toDevice EXCEPT ![d] = queue]
    BY <1>3 DEF DisturbToDevice
  <2>2. queue \in Seq(S)
    BY <2>1, DisturbedKeeps
  <2> QED
    BY <2>1, <2>2
<1>4. ASSUME NEW d \in Devices, RestartDevice(d)
      PROVE  toDevice' \in [Devices -> Seq(S)]
  BY <1>4 DEF RestartDevice, Restart
<1>5. CASE UNCHANGED toDevice
  BY <1>5
<1>6. CASE Fault
  BY <1>3, <1>4, <1>5, <1>6
     DEF Fault, DisturbToProxy, DeviceRecvError, SendDataRecvFails
<1>7. ASSUME NEW d \in Devices, DeviceNext(d) \/ DropForAbsent(d)
      PROVE  toDevice' \in [Devices -> Seq(S)]
  BY <1>1, <1>2, <1>7 DEF DeviceNext, DropForAbsent
<1> QED
  BY <1>5, <1>6, <1>7 DEF Next, vars, network

-----------------------------------------------------------------------------
(* The count of a packet is the number of the fragment in it.              *)
FaithfulPacket ==
    {p \in SoundPacket : p.type = "DATA" => p.data[1].n = p.count}

OrderInv ==
    /\ toDevice \in [Devices -> Seq(FaithfulPacket)]
    /\ BufferInOrder

LEMMA FaithfulStep ==
    ASSUME MaxRequests < SessionMod, TypeInv, SessionInv, [Next]_vars,
           toDevice \in [Devices -> Seq(FaithfulPacket)]
    PROVE  toDevice' \in [Devices -> Seq(FaithfulPacket)]
<1>1. OfRequest(current_session_id', request') \subseteq FaithfulPacket
  BY DEF OfRequest, FaithfulPacket
<1> QED
  BY <1>1, ProxySends, OnlyProxySends

(* A step of d after which it assembles no request.                        *)
LEMMA BufferSettled ==
    ASSUME BufferInOrder, NEW d \in Devices,
           \A e \in Devices \ {d} :
              /\ dstate'[e] = dstate[e] /\ session_id'[e] = session_id[e]
              /\ packet_counter'[e] = packet_counter[e]
              /\ raw_http_request'[e] = raw_http_request[e],
           dstate'[d] # "run" \/ session_id'[d] = Unset
    PROVE  BufferInOrder'
BY DEF BufferInOrder

LEMMA RunFragmentInOrder ==
    ASSUME TypeInv, OrderInv, NEW d \in Devices, RunFragment(d)
    PROVE  BufferInOrder'
<1> DEFINE p == Incoming(d)
           raw == raw_http_request[d] \o p.data
<1>1. /\ TakeFragment(d, p) /\ Counter(d, p) = p.count
      /\ p.count \in Nat \ {0} /\ p.data \in Seq(RequestFragment)
      /\ Len(p.data) = 1
  BY TakeFragmentType DEF RunFragment
<1>2. /\ raw # <<>> /\ Last(raw) = p.data[1]
  <2>1. raw_http_request[d] \in Seq(RequestFragment)
    BY DEF TypeInv, TypeOK, DeviceTypeOK
  <2> HIDE DEF p
  <2> QED
    BY <1>1, <2>1, AppendedFragment
<1>3. p.data[1].n = p.count
  <2>1. HasPacket(d) /\ p.type = "DATA"
    BY <1>1 DEF TakeFragment
  <2>2. p \in FaithfulPacket
    BY <2>1, HeadTailProperties DEF HasPacket, Incoming, OrderInv
  <2> QED
    BY <2>1, <2>2 DEF FaithfulPacket
<1>4. /\ raw_http_request' = [raw_http_request EXCEPT ![d] = raw]
      /\ packet_counter' = [packet_counter EXCEPT ![d] = p.count - 1]
      /\ session_id' = [session_id EXCEPT ![d] = p.session]
      /\ dstate' = dstate
  BY <1>1 DEF RunFragment
<1> HIDE DEF p, raw
<1>5. /\ raw_http_request'[d] = raw /\ packet_counter'[d] = p.count - 1
      /\ \A e \in Devices \ {d} :
            /\ dstate'[e] = dstate[e] /\ session_id'[e] = session_id[e]
            /\ packet_counter'[e] = packet_counter[e]
            /\ raw_http_request'[e] = raw_http_request[e]
  BY <1>4 DEF TypeInv, TypeOK, DeviceTypeOK
<1>6. p.count - 1 + 1 = p.count
  BY <1>1
<1>7. /\ raw_http_request'[d] # <<>>
      /\ Last(raw_http_request'[d]).n = packet_counter'[d] + 1
  BY <1>2, <1>3, <1>5, <1>6
<1>8. \A e \in Devices \ {d} :
        dstate'[e] = "run" /\ session_id'[e] # Unset =>
           /\ raw_http_request'[e] # <<>>
           /\ Last(raw_http_request'[e]).n = packet_counter'[e] + 1
  BY <1>5 DEF OrderInv, BufferInOrder
<1> QED
  BY <1>7, <1>8 DEF BufferInOrder

LEMMA DeviceInOrder ==
    ASSUME TypeInv, OrderInv, NEW d \in Devices,
           DeviceReceives(d) \/ Restart(d) \/ SendDataRecvFails(d)
    PROVE  BufferInOrder'
<1> USE DEF TypeInv, TypeOK, DeviceTypeOK, OrderInv
<1>1. CASE \/ RunWrongCount(d) \/ RunWrongSession(d) \/ RunWrongType(d)
          \/ RunUnparsed(d) \/ RunTooLong(d)
  <2>1. Reset(d) /\ dstate' = dstate
    BY <1>1 DEF RunWrongCount, RunWrongSession, RunWrongType, RunUnparsed,
                RunTooLong
  <2>2. \A e \in Devices \ {d} : raw_http_request'[e] = raw_http_request[e]
    BY <1>1 DEF RunWrongCount, RunWrongSession, RunWrongType, RunUnparsed,
                RunTooLong, Handle
  <2> QED
    BY <2>1, <2>2, BufferSettled DEF Reset
<1>2. CASE RunRespond(d)
  <2>1. /\ dstate' = [dstate EXCEPT ![d] = "sendData"]
        /\ \A e \in Devices \ {d} : /\ session_id'[e] = session_id[e]
                                   /\ packet_counter'[e] = packet_counter[e]
    BY <1>2 DEF RunRespond
  <2>2. \A e \in Devices \ {d} : raw_http_request'[e] = raw_http_request[e]
    BY <1>2 DEF RunRespond, Handle
  <2> QED
    BY <2>1, <2>2, BufferSettled
<1>3. ASSUME ReturnToRun(d),
             \A e \in Devices \ {d} : raw_http_request'[e] = raw_http_request[e]
      PROVE  BufferInOrder'
  BY <1>3, BufferSettled DEF ReturnToRun, Reset
<1>4. CASE SendDataNext(d)
  BY <1>4 DEF SendDataNext, BufferInOrder
<1>5. CASE SendDataDone(d) \/ SendDataError(d)
  BY <1>3, <1>5 DEF SendDataDone, SendDataError
<1>6. CASE SendDataAgain(d) \/ SendDataRecvFails(d)
  <2>1. Retransmit(d) \/ GiveUp(d)
    BY <1>6 DEF SendDataAgain, SendDataRecvFails
  <2>2. raw_http_request' = raw_http_request
    BY <1>6 DEF SendDataAgain, SendDataRecvFails
  <2>3. CASE Retransmit(d)
    BY <2>2, <2>3 DEF Retransmit, BufferInOrder
  <2>4. CASE GiveUp(d)
    BY <1>3, <2>2, <2>4 DEF GiveUp
  <2> QED
    BY <2>1, <2>3, <2>4
<1>7. CASE Restart(d)
  BY <1>3, <1>7 DEF Restart
<1> QED
  BY <1>1, <1>2, <1>4, <1>5, <1>6, <1>7, RunFragmentInOrder DEF DeviceReceives

LEMMA OrderInvStep ==
    ASSUME MaxRequests < SessionMod, TypeInv, SessionInv, OrderInv, [Next]_vars
    PROVE  OrderInv'
<1>1. toDevice' \in [Devices -> Seq(FaithfulPacket)]
  BY FaithfulStep DEF OrderInv
<1>2. CASE UNCHANGED deviceVars
  BY <1>1, <1>2 DEF deviceVars, BufferInOrder, OrderInv
<1>3. ASSUME NEW d \in Devices,
             RestartDevice(d) \/ DeviceRecvError(d) \/ DeviceNext(d)
      PROVE  BufferInOrder'
  BY <1>3, DeviceInOrder DEF RestartDevice, DeviceRecvError, DeviceNext
<1>4. BufferInOrder'
  BY <1>2, <1>3 DEF OrderInv, Next, vars, ProxyNext, Fault, DisturbToProxy,
                    DisturbToDevice, DropForAbsent
<1> QED
  BY <1>1, <1>4 DEF OrderInv

(* As long as session ids do not wrap, a device in the middle of a request *)
(* has, at the end of its buffer, the fragment before the one it expects,  *)
(* whatever was lost, repeated, overtaken or resent, and whatever text the *)
(* buffer held before (device.cpp:60-73, 93, 124).                         *)
THEOREM BufferInOrderHolds ==
    ASSUME MaxRequests < SessionMod
    PROVE  Spec => []BufferInOrder
<1>1. Init => OrderInv
  BY DEF Init, NetworkInit, DeviceInit, OrderInv, BufferInOrder
<1>2. TypeInv /\ SessionInv /\ [Next]_vars => SessionInv'
  BY SessionInvStep
<1>3. TypeInv /\ SessionInv /\ OrderInv /\ [Next]_vars => OrderInv'
  BY OrderInvStep
<1>4. OrderInv => BufferInOrder
  BY DEF OrderInv
<1> QED
  BY <1>1, <1>2, <1>3, <1>4, SessionInvInit, TypeInvariant, PTL DEF Spec

-----------------------------------------------------------------------------
(***************************************************************************)
(* One device: what is on its way was sent in this session or in earlier   *)
(* ones, and what was sent in this one is about this request.              *)
(***************************************************************************)
OneDevice == \A d, e \in Devices : d = e

(* Fragments of responses begun after the last fragment of r.              *)
TriggeredBy(r) == {f \in ResponseFragment : f.resp.trigger = r}

(* What the proxy sent in sessions up to s, the request of s being r.      *)
SentUpTo(s, r) ==
    {p \in SoundPacket :
        p.type = "DATA" =>
            /\ p.session \in 1 .. s
            /\ p.data[1].n = p.count
            /\ p.session = s => p.data[1].req = r}

(* What devices sent: ACKs of what they have accepted, and responses they  *)
(* began after the last fragment of the session's request.                 *)
RepliesUpTo(s, r, taken) ==
    {p \in DevicePacket :
        /\ p.type \in {"ACK", "DATA"} => p.session \in 1 .. s
        /\ p.type = "ACK" /\ p.session = s =>
              [req |-> r, n |-> p.count] \in taken[p.from]
        /\ p.type = "DATA" /\ p.session = s => p.data \in Seq(TriggeredBy(r))}

OwnAnswers == {a \in Answer : a.body \in Seq(TriggeredBy(a.req))}

(* SendData answers in the session of the request that triggered it.       *)
OwnSending(d) ==
    dstate[d] = "sendData" =>
        /\ session_id[d] \in 1 .. current_session_id
        /\ session_id[d] = current_session_id =>
              sending[d].resp.trigger = request

OwnInv ==
    /\ \A d \in Devices : session_ids[d] = current_session_id
    /\ toDevice \in [Devices -> Seq(SentUpTo(current_session_id, request))]
    /\ toProxy \in Seq(RepliesUpTo(current_session_id, request, accepted))
    /\ \A d \in Devices : OwnSending(d)
    /\ pstate # "receiveData" => raw_http_response = <<>>
    /\ raw_http_response \in Seq(TriggeredBy(request))
    /\ answers \in Seq(OwnAnswers)
    /\ AckedMeansAccepted

(* A new session makes no demand on what was sent before.                  *)
LEMMA NewSessionKeeps ==
    ASSUME NEW s \in Nat, NEW r, NEW new, NEW taken
    PROVE  /\ SentUpTo(s, r) \subseteq SentUpTo(s + 1, new)
           /\ RepliesUpTo(s, r, taken) \subseteq RepliesUpTo(s + 1, new, taken)
<1>1. \A k \in 1 .. s : k \in 1 .. s + 1 /\ k # s + 1
  OBVIOUS
<1> QED
  BY <1>1 DEF SentUpTo, RepliesUpTo

(* Nor does anything a device accepts.                                     *)
LEMMA TakenKeeps ==
    ASSUME NEW s, NEW r, NEW taken, NEW more,
           \A d \in Devices : taken[d] \subseteq more[d]
    PROVE  RepliesUpTo(s, r, taken) \subseteq RepliesUpTo(s, r, more)
<1>1. ASSUME NEW p \in RepliesUpTo(s, r, taken)
      PROVE  p \in RepliesUpTo(s, r, more)
  <2>1. p.from \in Devices
    BY DEF RepliesUpTo, DevicePacket
  <2> QED
    BY <2>1 DEF RepliesUpTo
<1> QED
  BY <1>1

(* Either the proxy goes on with its request, or it starts the next        *)
(* session.                                                                *)
StartsNext ==
    /\ current_session_id' = current_session_id + 1
    /\ pstate = "client"
    /\ UNCHANGED <<toProxy, i, raw_http_response, answers, accepted>>

LEMMA ProxySessions ==
    ASSUME MaxRequests < SessionMod, OneDevice, TypeInv, SessionInv, OwnInv,
           ProxyNext
    PROVE  /\ \A d \in Devices : session_ids'[d] = current_session_id'
           /\ \/ current_session_id' = current_session_id /\ request' = request
              \/ StartsNext
<1>1. ASSUME NEW kind \in RequestKinds,
             RequestForward(kind) \/ RequestTooLong(kind)
      PROVE  /\ \A d \in Devices : session_ids'[d] = current_session_id'
             /\ StartsNext
  <2>1. StartSession(kind) /\ pstate' \in {"sendData", "receiveData"}
        /\ UNCHANGED <<toProxy, i, raw_http_response, answers>>
    BY <1>1 DEF RequestForward, RequestTooLong, network
  <2>2. current_session_id' = session_ids[kind.device] + 1
        /\ kind.device \in Devices /\ pstate = "client"
    BY <2>1, StartSessionInv DEF StartSession
  <2>3. session_ids' = [session_ids EXCEPT ![kind.device] = current_session_id']
    BY <2>1 DEF StartSession
  <2>4. \A d \in Devices : session_ids'[d] = current_session_id'
    BY <2>2, <2>3 DEF OneDevice, TypeInv, TypeOK, ProxyTypeOK
  <2>5. UNCHANGED accepted
    BY DEF ProxyNext, deviceVars
  <2> QED
    BY <2>1, <2>2, <2>4, <2>5 DEF OwnInv, StartsNext
<1>2. CASE Accept \/ ClientGone \/ \E kind \in RequestKinds : RequestUnknown(kind)
  BY <1>2 DEF Accept, ClientGone, RequestUnknown, OwnInv
<1>3. CASE ProxyReceives \/ ProxyTimesOut
  BY <1>3, ServingInv DEF OwnInv
<1> QED
  BY <1>1, <1>2, <1>3 DEF ProxyNext, ClientStep

LEMMA SessionRange ==
    ASSUME MaxRequests < SessionMod, TypeInv, SessionInv
    PROVE  current_session_id \in 0 .. SessionMod - 1
<1>1. /\ MaxRequests \in Nat /\ SessionMod \in Nat /\ Started \in Nat
      /\ current_session_id \in 0 .. Started /\ Started <= MaxRequests
  BY ProxyAssumption, AAAAssumption
     DEF SessionInv, Started, TypeInv, TypeOK, ProxyTypeOK
<1> QED
  BY <1>1

LEMMA NotProxyNext ==
    ASSUME [Next]_vars, ~ProxyNext
    PROVE  UNCHANGED proxyVars
BY DEF Next, vars, Fault, FaultOf, DisturbToProxy, DisturbToDevice,
       RestartDevice, DeviceRecvError, DeviceNext, DropForAbsent

LEMMA SentStep ==
    ASSUME MaxRequests < SessionMod, OneDevice, TypeInv, SessionInv, OwnInv,
           [Next]_vars
    PROVE  toDevice' \in [Devices -> Seq(SentUpTo(current_session_id, request))]'
<1> DEFINE S == SentUpTo(current_session_id, request)
           T == SentUpTo(current_session_id', request')
<1>1. CASE ~ProxyNext
  <2>1. toDevice' \in [Devices -> Seq(S)]
    BY <1>1, OnlyProxySends DEF OwnInv
  <2>2. S = T
    BY <1>1, NotProxyNext DEF proxyVars
  <2> QED
    BY <2>1, <2>2
<1>2. CASE ProxyNext
  <2>1. current_session_id \in Nat
    BY SessionRange
  <2>2. S \subseteq T
    BY <1>2, <2>1, ProxySessions, NewSessionKeeps DEF StartsNext
  <2>3. toDevice \in [Devices -> Seq(T)]
    <3>1. toDevice \in [Devices -> Seq(S)]
      BY DEF OwnInv
    <3> HIDE DEF S, T
    <3> QED
      BY <2>2, <3>1, SeqMonotonic
  <2>4. CASE current_session_id' # 0
    <3>1. current_session_id' \in Nat \ {0}
      BY <1>2, <2>1, <2>4, ProxySessions DEF StartsNext
    <3>2. OfRequest(current_session_id', request') \subseteq T
      BY <3>1 DEF OfRequest, SentUpTo
    <3> HIDE DEF T
    <3>3. toDevice' \in [Devices -> Seq(T)]
      BY <1>2, <2>3, <3>2, ProxySends
    <3> QED
      BY <3>3 DEF T
  <2>5. CASE current_session_id' = 0
    <3>1. current_session_id = 0
      BY <1>2, <2>1, <2>5, ProxySessions DEF StartsNext
    <3>2. ~ProxyReceives /\ ~ProxyTimesOut
      BY <3>1, ServingInv DEF SessionInv
    <3>3. \A kind \in RequestKinds : ~RequestForward(kind)
      BY <1>2, <2>1, <2>5, StartSessionInv
         DEF RequestForward, StartSession, SessionInv
    <3>4. toDevice' = toDevice
      BY <1>2, <3>2, <3>3
         DEF ProxyNext, ClientStep, Accept, ClientGone, RequestUnknown,
             RequestTooLong, network
    <3> QED
      BY <2>3, <3>4
  <2> QED
    BY <2>4, <2>5
<1> QED
  BY <1>1, <1>2

-----------------------------------------------------------------------------
(* What SendPacket makes of its arguments when the session is a positive   *)
(* char: the count and session go out as they are.                         *)
LEMMA PositiveSessionPackets ==
    ASSUME NEW d \in Devices, NEW type \in PacketType, NEW count \in Nat,
           NEW s \in 1 .. SessionMod - 1, NEW data \in Seq(ResponseFragment),
           NEW sent \in DevicePackets(d, type, count, s, data),
           NEW k \in 1 .. Len(sent)
    PROVE  /\ sent[k] \in DevicePacket
           /\ sent[k].type = type /\ sent[k].count = count
           /\ sent[k].session = s /\ sent[k].from = d
           /\ sent[k].data \in {data, Spoil(data)}
<1>1. sent[k] \in DevicePacket
  <2>1. s \in Int /\ sent \in Seq(DevicePacket)
    BY DevicePacketsType
  <2> QED
    BY <2>1, ElementOfSeq
<1>2. WireSession(s) = s /\ WireCount(count, s) = count /\ s # 0
  BY AAAAssumption DEF WireSession, WireCount
<1> DEFINE packet(payload) ==
               [type |-> type, count |-> count, session |-> s,
                data |-> payload, from |-> d]
<1>3. sent = <<>> \/ sent = <<packet(data)>> \/ sent = <<packet(Spoil(data))>>
  BY <1>2 DEF DevicePackets, Overlong
<1>4. sent[k] \in {packet(data), packet(Spoil(data))}
  BY <1>3
<1> QED
  BY <1>1, <1>4

LEMMA ErrorReplies ==
    ASSUME NEW d \in Devices, NEW count \in Nat, NEW session \in Int,
           NEW sent \in DevicePackets(d, "ERROR", count, session, <<>>),
           NEW s, NEW r, NEW taken
    PROVE  sent \in Seq(RepliesUpTo(s, r, taken))
<1>1. sent \in Seq(DevicePacket)
  <2>1. "ERROR" \in PacketType /\ <<>> \in Seq(ResponseFragment)
    BY DEF PacketType
  <2> QED
    BY <2>1, DevicePacketsType
<1>2. \A k \in 1 .. Len(sent) : sent[k].type = "ERROR"
  BY DEF DevicePackets, Overlong
<1>3. \A k \in 1 .. Len(sent) : sent[k] \in RepliesUpTo(s, r, taken)
  BY <1>1, <1>2, ElementOfSeq DEF RepliesUpTo
<1> QED
  BY <1>1, <1>3, SeqDef

LEMMA AckReplies ==
    ASSUME NEW s \in 0 .. SessionMod - 1, NEW session \in 1 .. s,
           NEW d \in Devices, NEW count \in Nat, NEW r, NEW taken,
           session = s => [req |-> r, n |-> count] \in taken[d],
           NEW sent \in DevicePackets(d, "ACK", count, session, <<>>)
    PROVE  sent \in Seq(RepliesUpTo(s, r, taken))
<1>1. /\ session \in 1 .. SessionMod - 1 /\ session \in Int
      /\ "ACK" \in PacketType /\ <<>> \in Seq(ResponseFragment)
  BY AAAAssumption DEF PacketType
<1>2. sent \in Seq(DevicePacket)
  BY <1>1, DevicePacketsType
<1>3. ASSUME NEW k \in 1 .. Len(sent)
      PROVE  sent[k] \in RepliesUpTo(s, r, taken)
  <2>1. /\ sent[k] \in DevicePacket /\ sent[k].type = "ACK"
        /\ sent[k].count = count /\ sent[k].session = session
        /\ sent[k].from = d
    <3>1. PICK none \in Seq(ResponseFragment) :
              sent \in DevicePackets(d, "ACK", count, session, none)
      BY <1>1
    <3> QED
      BY <1>1, <3>1, PositiveSessionPackets
  <2> DEFINE p == sent[k]
  <2> HIDE DEF p
  <2>2. /\ p \in DevicePacket /\ p.type = "ACK" /\ p.session \in 1 .. s
        /\ p.session = s => [req |-> r, n |-> p.count] \in taken[p.from]
    BY <2>1 DEF p
  <2>3. p \in RepliesUpTo(s, r, taken)
    BY <2>2 DEF RepliesUpTo
  <2> QED
    BY <2>3 DEF p
<1> QED
  BY <1>2, <1>3, SeqDef

LEMMA FragmentTriggered ==
    ASSUME NEW resp \in Response, NEW n \in Nat
    PROVE  LET data == Fragment(resp, n)
           IN  /\ data \in Seq(TriggeredBy(resp.trigger))
               /\ Spoil(data) \in Seq(TriggeredBy(resp.trigger))
<1> DEFINE f == [resp |-> resp, n |-> n, spoiled |-> FALSE]
           g == [f EXCEPT !.spoiled = TRUE]
<1>1. f \in TriggeredBy(resp.trigger) /\ g \in TriggeredBy(resp.trigger)
  <2>1. \A x \in ResponseFragment :
           LET t == [x EXCEPT !.spoiled = TRUE]
           IN  t \in ResponseFragment /\ t.resp = x.resp
    BY DEF ResponseFragment
  <2>2. f \in ResponseFragment /\ f.resp = resp
    BY DEF ResponseFragment
  <2> HIDE DEF f
  <2> QED
    BY <2>1, <2>2 DEF TriggeredBy
<1>2. Fragment(resp, n) = <<f>>
  BY DEF Fragment
<1>3. Spoil(<<f>>) = <<g>>
  <2>1. [f EXCEPT !.spoiled = TRUE] = g
    OBVIOUS
  <2> HIDE DEF f, g
  <2>2. Len(<<f>>) = 1 /\ \A k \in 1 .. 1 : <<f>>[k] = f
    <3>1. Len(<<f>>) = 1 /\ <<f>>[1] = f
      OBVIOUS
    <3>2. \A k \in 1 .. 1 : k = 1
      OBVIOUS
    <3> QED
      BY <3>1, <3>2
  <2>3. Spoil(<<f>>) = [k \in 1 .. 1 |-> g]
    BY <2>1, <2>2 DEF Spoil
  <2>4. [k \in 1 .. 1 |-> g] = <<g>>
    OBVIOUS
  <2> QED
    BY <2>3, <2>4
<1> HIDE DEF f, g
<1>4. <<f>> \in Seq(TriggeredBy(resp.trigger))
      /\ <<g>> \in Seq(TriggeredBy(resp.trigger))
  BY <1>1
<1> QED
  BY <1>2, <1>3, <1>4

LEMMA DataReplies ==
    ASSUME NEW s \in 0 .. SessionMod - 1, NEW session \in 1 .. s,
           NEW d \in Devices, NEW n \in Nat, NEW r, NEW taken,
           NEW resp \in Response, session = s => resp.trigger = r,
           NEW sent \in DevicePackets(d, "DATA", n, session, Fragment(resp, n))
    PROVE  sent \in Seq(RepliesUpTo(s, r, taken))
<1>1. /\ session \in 1 .. SessionMod - 1 /\ session \in Int
      /\ "DATA" \in PacketType
  BY AAAAssumption DEF PacketType
<1>2. Fragment(resp, n) \in Seq(ResponseFragment)
  BY FragmentType
<1>3. sent \in Seq(DevicePacket)
  BY <1>1, <1>2, DevicePacketsType
<1>4. ASSUME NEW k \in 1 .. Len(sent)
      PROVE  sent[k] \in RepliesUpTo(s, r, taken)
  <2>1. /\ sent[k] \in DevicePacket /\ sent[k].type = "DATA"
        /\ sent[k].session = session
        /\ sent[k].data \in {Fragment(resp, n), Spoil(Fragment(resp, n))}
    BY <1>1, <1>2, PositiveSessionPackets
  <2>2. sent[k].data \in Seq(TriggeredBy(resp.trigger))
    BY <2>1, FragmentTriggered
  <2> QED
    BY <2>1, <2>2 DEF RepliesUpTo
<1> QED
  BY <1>3, <1>4, SeqDef

-----------------------------------------------------------------------------
(* The fragment a device acknowledges is, in the current session, one of   *)
(* the current request.                                                    *)
LEMMA TakenFragment ==
    ASSUME TypeInv, OwnInv, NEW d \in Devices, TakeFragment(d, Incoming(d))
    PROVE  LET p == Incoming(d)
           IN  /\ p.session \in 1 .. current_session_id
               /\ Counter(d, p) = p.count /\ p.count \in Nat
               /\ Last(raw_http_request[d] \o p.data).req = p.data[1].req
               /\ p.session = current_session_id =>
                     /\ p.data[1].req = request
                     /\ [req |-> request, n |-> p.count] \in accepted'[d]
               /\ \A e \in Devices : accepted[e] \subseteq accepted'[e]
<1> DEFINE p == Incoming(d)
<1>1. /\ p.type = "DATA" /\ HasPacket(d)
      /\ accepted' = [accepted EXCEPT ![d] = @ \cup Range(p.data)]
  BY DEF TakeFragment
<1>2. /\ p \in SoundPacket /\ p.count \in Nat
      /\ p.data \in Seq(RequestFragment) /\ Len(p.data) = 1
      /\ Counter(d, p) = p.count
  BY TakeFragmentType
<1>3. p \in SentUpTo(current_session_id, request)
  BY <1>1, HeadTailProperties DEF HasPacket, Incoming, OwnInv
<1>4. raw_http_request[d] \in Seq(RequestFragment)
      /\ accepted \in [Devices -> SUBSET RequestFragment]
  BY DEF TypeInv, TypeOK, DeviceTypeOK
<1> HIDE DEF p
<1>5. /\ Last(raw_http_request[d] \o p.data) = p.data[1]
      /\ Range(p.data) = {p.data[1]} /\ p.data[1] \in RequestFragment
  BY <1>2, <1>4, AppendedFragment
<1>6. /\ p.session \in 1 .. current_session_id
      /\ p.session = current_session_id =>
            p.data[1].n = p.count /\ p.data[1].req = request
  BY <1>1, <1>3 DEF SentUpTo
<1>7. p.session = current_session_id =>
        p.data[1] = [req |-> request, n |-> p.count]
  BY <1>5, <1>6 DEF RequestFragment
<1>8. /\ p.data[1] \in accepted'[d]
      /\ \A e \in Devices : accepted[e] \subseteq accepted'[e]
  BY <1>1, <1>4, <1>5
<1> QED
  BY <1>2, <1>5, <1>6, <1>7, <1>8 DEF p

(* The part of OwnInv a step of a device may disturb.                      *)
OwnReplies ==
    /\ toProxy \in Seq(RepliesUpTo(current_session_id, request, accepted))
    /\ \A d \in Devices : OwnSending(d)

LEMMA OthersOwn ==
    ASSUME \A d \in Devices : OwnSending(d), UNCHANGED proxyVars,
           NEW d \in Devices, OwnSending(d)',
           \A e \in Devices \ {d} :
              /\ dstate'[e] = dstate[e] /\ session_id'[e] = session_id[e]
              /\ sending'[e] = sending[e]
    PROVE  \A e \in Devices : OwnSending(e)'
BY DEF OwnSending, proxyVars

(* The fragment is acknowledged, and SendData does not start.              *)
LEMMA TakesOwn ==
    ASSUME MaxRequests < SessionMod, TypeInv, SessionInv, OwnInv,
           UNCHANGED proxyVars, NEW d \in Devices,
           RunFragment(d) \/ RunUnparsed(d) \/ RunTooLong(d)
    PROVE  /\ OwnReplies'
           /\ \A e \in Devices : accepted[e] \subseteq accepted'[e]
<1> DEFINE p == Incoming(d)
           c == current_session_id
<1>1. /\ TakeFragment(d, p) /\ UNCHANGED <<dstate, sending>>
      /\ Send(d, "ACK", Counter(d, p), p.session, <<>>)
      /\ \A e \in Devices \ {d} : session_id'[e] = session_id[e]
  BY DEF RunFragment, RunUnparsed, RunTooLong, Reset, TypeInv, TypeOK,
              DeviceTypeOK
<1>2. /\ p.session \in 1 .. c /\ p.count \in Nat /\ Counter(d, p) = p.count
      /\ p.session = c => [req |-> request, n |-> p.count] \in accepted'[d]
      /\ \A e \in Devices : accepted[e] \subseteq accepted'[e]
  BY <1>1, TakenFragment
<1>3. PICK sent \in DevicePackets(d, "ACK", p.count, p.session, <<>>) :
          toProxy' = PutSent(toProxy, sent)
  BY <1>1, <1>2 DEF Send
<1>4. c \in 0 .. SessionMod - 1
  BY SessionRange
<1>5. dstate[d] = "run"
  BY <1>1 DEF TakeFragment
<1> DEFINE S == RepliesUpTo(c, request, accepted')
<1> HIDE DEF p, c
<1>6. toProxy \in Seq(S) /\ sent \in Seq(S)
  <2>1. sent \in Seq(S)
    BY <1>2, <1>3, <1>4, AckReplies
  <2>2. RepliesUpTo(c, request, accepted) \subseteq S
    BY <1>2, TakenKeeps
  <2>3. toProxy \in Seq(RepliesUpTo(c, request, accepted))
    BY DEF OwnInv, c
  <2> HIDE DEF S
  <2> QED
    BY <2>1, <2>2, <2>3, SeqMonotonic
<1>7. toProxy' \in Seq(S)
  <2> HIDE DEF S
  <2> QED
    BY <1>3, <1>6, PutSentKeeps
<1>8. \A e \in Devices : OwnSending(e)'
  <2>1. OwnSending(d)'
    BY <1>1, <1>5 DEF OwnSending
  <2> QED
    BY <1>1, <2>1, OthersOwn DEF OwnInv
<1> QED
  BY <1>2, <1>7, <1>8 DEF OwnReplies, proxyVars, c

LEMMA RespondsOwn ==
    ASSUME MaxRequests < SessionMod, TypeInv, SessionInv, OwnInv,
           UNCHANGED proxyVars, NEW d \in Devices, RunRespond(d)
    PROVE  /\ OwnReplies'
           /\ \A e \in Devices : accepted[e] \subseteq accepted'[e]
<1> DEFINE p == Incoming(d)
           c == current_session_id
           raw == raw_http_request[d] \o p.data
           resp(r, n) == [req |-> r, trigger |-> Last(raw).req, size |-> n]
<1>1. /\ TakeFragment(d, p) /\ Counter(d, p) = 1
      /\ dstate' = [dstate EXCEPT ![d] = "sendData"]
      /\ session_id' = [session_id EXCEPT ![d] = p.session]
  BY DEF RunRespond
<1>2. /\ p.session \in 1 .. c /\ p.count = 1
      /\ Last(raw).req = p.data[1].req
      /\ p.session = c =>
            /\ p.data[1].req = request
            /\ [req |-> request, n |-> p.count] \in accepted'[d]
      /\ \A e \in Devices : accepted[e] \subseteq accepted'[e]
  BY <1>1, TakenFragment
<1>3. PICK r \in ParseOutcomes(raw), n \in ResponseSizes :
         /\ sending' = [sending EXCEPT ![d] =
                            [NotSending EXCEPT !.resp = resp(r, n)]]
         /\ \E ack \in DevicePackets(d, "ACK", 1, p.session, <<>>),
               first \in DevicePackets(d, "DATA", n, p.session,
                                       Fragment(resp(r, n), n)) :
                toProxy' = PutSent(PutSent(toProxy, ack), first)
  BY DEF RunRespond
<1>4. /\ resp(r, n) \in Response /\ n \in Nat
      /\ resp(r, n).trigger = p.data[1].req
  <2>1. raw \in Seq(RequestFragment) /\ raw # <<>>
    BY <1>1, TakeFragmentType
  <2>2. r \in Request /\ n \in Nat /\ Last(raw).req \in Request
    BY <1>3, <2>1, ParseType, DeviceAssumption
  <2> QED
    BY <1>2, <2>2 DEF Response
<1>5. c \in 0 .. SessionMod - 1
  BY SessionRange
<1> DEFINE S == RepliesUpTo(c, request, accepted')
           answer == resp(r, n)
<1>6. PICK ack \in DevicePackets(d, "ACK", 1, p.session, <<>>),
           first \in DevicePackets(d, "DATA", n, p.session, Fragment(answer, n)) :
                toProxy' = PutSent(PutSent(toProxy, ack), first)
  BY <1>3
<1>7. /\ sending'[d].resp = answer
      /\ \A e \in Devices \ {d} : sending'[e] = sending[e]
  BY <1>3 DEF TypeInv, TypeOK, DeviceTypeOK, NotSending
<1>8. answer \in Response /\ answer.trigger = p.data[1].req
  BY <1>4
<1> HIDE DEF p, c, raw, resp, answer
<1>9. toProxy \in Seq(S) /\ ack \in Seq(S) /\ first \in Seq(S)
  <2>1. ack \in Seq(S)
    <3>1. PICK one \in Nat : one = 1
      OBVIOUS
    <3> QED
      BY <1>2, <1>5, <1>6, <3>1, AckReplies
  <2>2. first \in Seq(S)
    BY <1>2, <1>4, <1>5, <1>6, <1>8, DataReplies
  <2>3. RepliesUpTo(c, request, accepted) \subseteq S
    BY <1>2, TakenKeeps
  <2>4. toProxy \in Seq(RepliesUpTo(c, request, accepted))
    BY DEF OwnInv, c
  <2> HIDE DEF S
  <2> QED
    BY <2>1, <2>2, <2>3, <2>4, SeqMonotonic
<1>10. toProxy' \in Seq(S)
  <2> HIDE DEF S
  <2> QED
    BY <1>6, <1>9, PutSentKeeps
<1>11. \A e \in Devices : OwnSending(e)'
  <2>1. /\ session_id'[d] = p.session
        /\ \A e \in Devices \ {d} : /\ dstate'[e] = dstate[e]
                                   /\ session_id'[e] = session_id[e]
    BY <1>1 DEF TypeInv, TypeOK, DeviceTypeOK
  <2>2. OwnSending(d)'
    BY <1>2, <1>7, <1>8, <2>1 DEF OwnSending, proxyVars, c
  <2> QED
    BY <1>7, <2>1, <2>2, OthersOwn DEF OwnInv
<1> QED
  BY <1>2, <1>10, <1>11 DEF OwnReplies, proxyVars, c

LEMMA ErrorsOwn ==
    ASSUME TypeInv, OwnInv, UNCHANGED proxyVars, NEW d \in Devices,
           RunWrongCount(d) \/ RunWrongSession(d) \/ RunWrongType(d)
    PROVE  OwnReplies' /\ accepted' = accepted
<1> DEFINE p == Incoming(d)
           S == RepliesUpTo(current_session_id, request, accepted)
<1>1. /\ HasPacket(d) /\ UNCHANGED <<dstate, sending, accepted>>
      /\ dstate[d] = "run"
      /\ \A e \in Devices \ {d} : session_id'[e] = session_id[e]
  BY DEF RunWrongCount, RunWrongSession, RunWrongType, Reset, TypeInv, TypeOK,
         DeviceTypeOK
<1>2. /\ p.session \in Int /\ session_id[d] \in Int
      /\ CountExpected(d, p) => Counter(d, p) \in Nat
  <2>1. p \in SoundPacket
    BY <1>1, IncomingType
  <2> HIDE DEF p
  <2> QED
    BY <2>1
     DEF SoundPacket, ProxyPacket, WireSessions, Unset, TypeInv, TypeOK,
         DeviceTypeOK, CountExpected, Counter
<1>3. PICK count \in Nat, session \in Int : Send(d, "ERROR", count, session, <<>>)
  BY <1>2 DEF RunWrongCount, RunWrongSession, RunWrongType
<1>4. PICK sent \in DevicePackets(d, "ERROR", count, session, <<>>) :
          toProxy' = PutSent(toProxy, sent)
  BY <1>3 DEF Send
<1>5. toProxy \in Seq(S) /\ sent \in Seq(S)
  BY <1>4, ErrorReplies DEF OwnInv
<1>6. toProxy' \in Seq(S)
  <2> HIDE DEF S
  <2> QED
    BY <1>4, <1>5, PutSentKeeps
<1>7. \A e \in Devices : OwnSending(e)'
  <2>1. OwnSending(d)'
    BY <1>1 DEF OwnSending
  <2> QED
    BY <1>1, <2>1, OthersOwn DEF OwnInv
<1> QED
  BY <1>1, <1>6, <1>7 DEF OwnReplies, proxyVars

LEMMA SendFragmentOwn ==
    ASSUME MaxRequests < SessionMod, TypeInv, SessionInv, OwnInv,
           NEW d \in Devices, dstate[d] = "sendData",
           NEW k \in Nat, k < sending[d].resp.size, SendFragment(d, k)
    PROVE  toProxy' \in Seq(RepliesUpTo(current_session_id, request, accepted))
<1> DEFINE resp == sending[d].resp
           n == resp.size - k
           c == current_session_id
           s == session_id[d]
           S == RepliesUpTo(c, request, accepted)
<1>1. resp \in Response /\ n \in Nat
  BY DEF TypeInv, TypeOK, DeviceTypeOK, Response
<1>2. s \in 1 .. c /\ (s = c => resp.trigger = request)
  BY DEF OwnInv, OwnSending
<1>3. PICK sent \in DevicePackets(d, "DATA", n, s, Fragment(resp, n)) :
          toProxy' = PutSent(toProxy, sent)
  BY DEF SendFragment, Send
<1>4. c \in 0 .. SessionMod - 1
  BY SessionRange
<1>5. toProxy \in Seq(S)
  BY DEF OwnInv
<1> HIDE DEF resp, n, c, s
<1>6. sent \in Seq(S)
  BY <1>1, <1>2, <1>3, <1>4, DataReplies
<1>7. toProxy' \in Seq(S)
  <2> HIDE DEF S
  <2> QED
    BY <1>3, <1>5, <1>6, PutSentKeeps
<1> QED
  BY <1>7 DEF c

LEMMA ReturnsOwn ==
    ASSUME OwnInv, UNCHANGED proxyVars, NEW d \in Devices, ReturnToRun(d),
           TypeInv, UNCHANGED <<toProxy, accepted>>
    PROVE  OwnReplies'
<1>1. /\ dstate'[d] = "run"
      /\ \A e \in Devices \ {d} :
            /\ dstate'[e] = dstate[e] /\ session_id'[e] = session_id[e]
            /\ sending'[e] = sending[e]
  BY DEF ReturnToRun, Reset, TypeInv, TypeOK, DeviceTypeOK
<1>2. OwnSending(d)'
  BY <1>1 DEF OwnSending
<1> QED
  BY <1>1, <1>2, OthersOwn DEF OwnInv, OwnReplies, proxyVars

LEMMA RetransmitsOwn ==
    ASSUME MaxRequests < SessionMod, TypeInv, SessionInv, OwnInv,
           UNCHANGED proxyVars, NEW d \in Devices, dstate[d] = "sendData",
           Retransmit(d) \/ GiveUp(d), UNCHANGED accepted
    PROVE  OwnReplies'
<1>1. CASE GiveUp(d)
  BY <1>1, ReturnsOwn DEF GiveUp
<1>2. CASE Retransmit(d)
  <2>1. sending[d].i \in Nat /\ sending[d].i < sending[d].resp.size
    BY DEF TypeInv, TypeOK, DeviceTypeOK, RespondingInv
  <2>2. toProxy' \in Seq(RepliesUpTo(current_session_id, request, accepted))
    BY <1>2, <2>1, SendFragmentOwn DEF Retransmit
  <2>3. \A e \in Devices : sending'[e].resp = sending[e].resp
    <3>1. sending \in [Devices -> [resp: Response, i: Nat,
                                  retransmission_counter: Nat]]
      BY DEF TypeInv, TypeOK, DeviceTypeOK
    <3>2. sending' = [sending EXCEPT ![d].retransmission_counter = @ + 1]
      BY <1>2 DEF Retransmit
    <3> QED
      BY <3>1, <3>2
  <2>4. UNCHANGED <<dstate, session_id>>
    BY <1>2 DEF Retransmit
  <2> QED
    BY <2>2, <2>3, <2>4 DEF OwnReplies, OwnInv, OwnSending, proxyVars
<1> QED
  BY <1>1, <1>2

(* Every step of a device.                                                 *)
LEMMA DeviceOwn ==
    ASSUME MaxRequests < SessionMod, TypeInv, SessionInv, OwnInv,
           UNCHANGED proxyVars, NEW d \in Devices,
           DeviceReceives(d) \/ Restart(d) \/ SendDataRecvFails(d)
    PROVE  /\ OwnReplies'
           /\ \A e \in Devices : accepted[e] \subseteq accepted'[e]
<1>1. CASE SendDataNext(d)
  <2> DEFINE k == sending[d].i + 1
  <2>1. /\ k \in Nat /\ k < sending[d].resp.size /\ SendFragment(d, k)
        /\ dstate[d] = "sendData"
    BY <1>1 DEF SendDataNext, TypeInv, TypeOK, DeviceTypeOK
  <2>2. /\ sending' = [sending EXCEPT ![d] =
                          [@ EXCEPT !.i = k, !.retransmission_counter = 0]]
        /\ UNCHANGED <<dstate, session_id, accepted>>
    BY <1>1 DEF SendDataNext
  <2> HIDE DEF k
  <2>3. toProxy' \in Seq(RepliesUpTo(current_session_id, request, accepted))
    BY <2>1, SendFragmentOwn
  <2>4. \A e \in Devices : sending'[e].resp = sending[e].resp
    BY <2>2 DEF TypeInv, TypeOK, DeviceTypeOK
  <2> QED
    BY <2>2, <2>3, <2>4 DEF OwnReplies, OwnInv, OwnSending, proxyVars
<1>2. CASE SendDataDone(d) \/ SendDataError(d) \/ Restart(d)
  BY <1>2, ReturnsOwn DEF SendDataDone, SendDataError, Restart
<1>3. CASE SendDataAgain(d) \/ SendDataRecvFails(d)
  BY <1>3, RetransmitsOwn DEF SendDataAgain, SendDataRecvFails
<1>4. CASE RunWrongCount(d) \/ RunWrongSession(d) \/ RunWrongType(d)
  BY <1>4, ErrorsOwn
<1>5. CASE RunFragment(d) \/ RunUnparsed(d) \/ RunTooLong(d)
  BY <1>5, TakesOwn
<1>6. CASE RunRespond(d)
  BY <1>6, RespondsOwn
<1> QED
  BY <1>1, <1>2, <1>3, <1>4, <1>5, <1>6 DEF DeviceReceives

-----------------------------------------------------------------------------
(* What leaves the proxy's side of OwnInv alone.                           *)
LEMMA ProxyKeepsOwn ==
    ASSUME MaxRequests < SessionMod, OneDevice, TypeInv, SessionInv, OwnInv,
           [Next]_vars, UNCHANGED proxyVars, OwnReplies',
           \A e \in Devices : accepted[e] \subseteq accepted'[e]
    PROVE  OwnInv'
<1>1. AckedMeansAccepted'
  BY DEF OwnInv, AckedMeansAccepted, TypeInv, ForwardingInv, proxyVars
<1>2. toDevice' \in [Devices -> Seq(SentUpTo(current_session_id, request))]'
  BY SentStep
<1> QED
  BY <1>1, <1>2 DEF OwnInv, OwnReplies, proxyVars

LEMMA AnswersOwn ==
    ASSUME TypeInv, OwnInv, NEW r, NEW status, NEW body,
           AnswerClient(r, status, body), r \in Request, status \in Status,
           body \in Seq(TriggeredBy(r))
    PROVE  /\ answers' \in Seq(OwnAnswers)
           /\ pstate' = "client" /\ raw_http_response' = <<>>
<1> DEFINE a == [req |-> r, status |-> status, body |-> body]
<1>1. body \in Seq(ResponseFragment)
  <2>1. TriggeredBy(r) \subseteq ResponseFragment
    BY DEF TriggeredBy
  <2> QED
    BY <2>1, SeqMonotonic
<1>2. a \in Answer /\ a.body = body /\ a.req = r
  BY <1>1 DEF Answer
<1>3. /\ answers' = Append(answers, a) /\ pstate' = "client"
      /\ raw_http_response' = <<>>
  BY DEF AnswerClient
<1> HIDE DEF a
<1>4. a \in OwnAnswers /\ answers \in Seq(OwnAnswers)
  BY <1>2 DEF OwnAnswers, OwnInv
<1> QED
  BY <1>3, <1>4, AppendProperties

(* What the packet at hand adds to the response so far.                    *)
LEMMA ResponseOwn ==
    ASSUME TypeInv, SessionInv, OwnInv, HasReply, SessionMatches,
           pstate = "receiveData"
    PROVE  ResponseSoFar \in Seq(TriggeredBy(request))
<1>1. /\ Reply \in RepliesUpTo(current_session_id, request, accepted)
      /\ raw_http_response \in Seq(TriggeredBy(request))
  BY HeadTailProperties DEF HasReply, Reply, OwnInv
<1>2. Reply.type = "DATA" => Reply.data \in Seq(TriggeredBy(request))
  BY <1>1 DEF RepliesUpTo, SessionMatches
<1> QED
  BY <1>1, <1>2, ConcatProperties DEF ResponseSoFar

(* Serving a request: ReceiveDataDevice collects, Throw and the answer end *)
(* it.                                                                     *)
LEMMA CollectsOwn ==
    ASSUME TypeInv, SessionInv, OwnInv, ProxyReceives \/ ProxyTimesOut
    PROVE  /\ answers' \in Seq(OwnAnswers)
           /\ pstate' # "receiveData" => raw_http_response' = <<>>
           /\ raw_http_response' \in Seq(TriggeredBy(request))
<1>1. request \in Request /\ <<>> \in Seq(TriggeredBy(request))
      /\ {"500", "503", "forwarded"} \subseteq Status
  BY DEF TypeInv, TypeOK, ProxyTypeOK, Status
<1>2. CASE ResponseMore
  <2>1. HasReply /\ SessionMatches /\ pstate = "receiveData"
        /\ raw_http_response' = ResponseSoFar /\ UNCHANGED <<pstate, answers>>
    BY <1>2 DEF ResponseMore, ReceiveDataReceives
  <2> QED
    BY <2>1, ResponseOwn DEF OwnInv
<1>3. CASE ResponseLast
  <2>1. HasReply /\ SessionMatches /\ pstate = "receiveData"
        /\ AnswerClient(request, "forwarded", ResponseSoFar)
    BY <1>3 DEF ResponseLast, ReceiveDataReceives
  <2>2. ResponseSoFar \in Seq(TriggeredBy(request))
    BY <2>1, ResponseOwn
  <2> QED
    BY <1>1, <2>1, <2>2, AnswersOwn
<1>4. CASE \E status \in {"500", "503"} : Throw(status)
  BY <1>1, <1>4, AnswersOwn DEF Throw
<1>5. CASE AckNext \/ AckLast \/ AckWrongCount \/ AckWrongSession \/ Resend
  <2>1. pstate = "sendData" /\ raw_http_response = <<>>
    BY <1>5 DEF AckNext, AckLast, AckWrongCount, AckWrongSession, Resend,
                SendDataReceives, SendDataTimesOut, OwnInv
  <2>2. answers' = answers /\ raw_http_response' = <<>>
    BY <1>5, <2>1 DEF AckNext, AckLast, AckWrongCount, AckWrongSession, Resend
  <2> QED
    BY <1>1, <2>2 DEF OwnInv
<1> QED
  BY <1>2, <1>3, <1>4, <1>5
     DEF ProxyReceives, ProxyTimesOut, SendDataWrongType, ResponseWrongSession,
         MaxRetransmissionsReached, ResponseTimesOut

(* An ACK that passes the checks is the device's for this very fragment.   *)
LEMMA AcksOwn ==
    ASSUME OneDevice, TypeInv, SessionInv, OwnInv, ProxyReceives \/ ProxyTimesOut,
           UNCHANGED <<request, accepted>>
    PROVE  AckedMeansAccepted'
<1>1. CASE pstate' = "client"
  BY <1>1 DEF AckedMeansAccepted
<1>2. CASE i' = i
  BY <1>2, ServingInv DEF OwnInv, AckedMeansAccepted
<1>3. CASE AckNext \/ AckLast
  <2>1. /\ HasReply /\ AckAccepted /\ pstate = "sendData" /\ i' = i + 1
    BY <1>3 DEF AckNext, AckLast, SendDataReceives
  <2>2. /\ Reply \in RepliesUpTo(current_session_id, request, accepted)
        /\ request.device \in Devices /\ i \in Nat /\ request.size \in Nat
    BY <2>1, HeadTailProperties
       DEF HasReply, Reply, OwnInv, TypeInv, TypeOK, ProxyTypeOK,
           ForwardingInv, Request
  <2>3. Reply.from = request.device
    BY <2>2 DEF OneDevice, RepliesUpTo, DevicePacket
  <2>4. [req |-> request, n |-> request.size - i] \in accepted[request.device]
    BY <2>1, <2>2, <2>3
       DEF RepliesUpTo, AckAccepted, SessionMatches, CountMatches
  <2>5. \A k \in 1 .. i + 1 : k \in 1 .. i \/ k = i + 1
    BY <2>2
  <2>6. request.size + 1 - (i + 1) = request.size - i
    BY <2>2
  <2>7. \A k \in 1 .. i + 1 :
           [req |-> request, n |-> request.size + 1 - k]
              \in accepted[request.device]
    BY <2>1, <2>4, <2>5, <2>6 DEF OwnInv, AckedMeansAccepted
  <2> QED
    BY <2>1, <2>7 DEF AckedMeansAccepted
<1> QED
  BY <1>1, <1>2, <1>3
     DEF ProxyReceives, ProxyTimesOut, AckWrongCount, AckWrongSession,
         SendDataWrongType, ResponseWrongSession, ResponseMore, ResponseLast,
         Resend, MaxRetransmissionsReached, ResponseTimesOut, Throw,
         AnswerClient

(* The queue to the proxy only loses its head.                             *)
LEMMA ProxyReads ==
    ASSUME ProxyNext, NEW S, toProxy \in Seq(S)
    PROVE  toProxy' \in Seq(S)
<1>1. \/ toProxy' = toProxy
      \/ toProxy # <<>> /\ toProxy' = Tail(toProxy)
  BY DEF ProxyNext, ClientStep, Accept, ClientGone, RequestUnknown,
         RequestForward, RequestTooLong, ProxyReceives, ProxyTimesOut,
         AckNext, AckLast, AckWrongCount, AckWrongSession, SendDataWrongType,
         SendDataReceives, ResponseWrongSession, ResponseMore, ResponseLast,
         ReceiveDataReceives, Resend, MaxRetransmissionsReached,
         SendDataTimesOut, ResponseTimesOut, HasReply, network
<1> QED
  BY <1>1, HeadTailProperties

LEMMA ProxyOwn ==
    ASSUME MaxRequests < SessionMod, OneDevice, TypeInv, SessionInv, OwnInv,
           ProxyNext
    PROVE  OwnInv'
<1> DEFINE R == RepliesUpTo(current_session_id, request, accepted)
           S == RepliesUpTo(current_session_id', request', accepted)
<1>1. /\ \A d \in Devices : session_ids'[d] = current_session_id'
      /\ \/ current_session_id' = current_session_id /\ request' = request
         \/ StartsNext
  BY ProxySessions
<1>2. toDevice' \in [Devices -> Seq(SentUpTo(current_session_id, request))]'
  BY SentStep DEF Next
<1>3. UNCHANGED <<dstate, session_id, sending, accepted>>
  BY DEF ProxyNext, deviceVars
<1>4. current_session_id \in Nat
  BY SessionRange
<1>5. toProxy' \in Seq(S)
  <2>1. R \subseteq S
    BY <1>1, <1>4, NewSessionKeeps DEF StartsNext
  <2>2. toProxy \in Seq(R)
    BY DEF OwnInv
  <2> HIDE DEF R, S
  <2> QED
    BY <2>1, <2>2, SeqMonotonic, ProxyReads
<1>6. \A d \in Devices : OwnSending(d)'
  <2>1. ASSUME NEW d \in Devices PROVE OwnSending(d)'
    <3>1. OwnSending(d)
      BY DEF OwnInv
    <3>2. CASE StartsNext
      <4>1. \A k \in 1 .. current_session_id :
               /\ k \in 1 .. current_session_id + 1
               /\ k # current_session_id + 1
        BY <1>4
      <4> QED
        BY <1>3, <3>1, <3>2, <4>1 DEF OwnSending, StartsNext
    <3>3. CASE current_session_id' = current_session_id /\ request' = request
      BY <1>3, <3>1, <3>3 DEF OwnSending
    <3> QED
      BY <1>1, <3>2, <3>3
  <2> QED
    BY <2>1
<1>7. CASE ProxyReceives \/ ProxyTimesOut
  <2>1. request' = request
    BY <1>7, ServingInv
  <2>2. /\ answers' \in Seq(OwnAnswers)
        /\ pstate' # "receiveData" => raw_http_response' = <<>>
        /\ raw_http_response' \in Seq(TriggeredBy(request'))
    BY <1>7, <2>1, CollectsOwn
  <2>3. AckedMeansAccepted'
    BY <1>3, <1>7, <2>1, AcksOwn
  <2> QED
    BY <1>1, <1>2, <1>3, <1>5, <1>6, <2>2, <2>3 DEF OwnInv
<1>8. CASE ClientStep
  <2>1. answers' \in Seq(OwnAnswers) /\ raw_http_response' = <<>>
    <3>1. ASSUME NEW kind \in RequestKinds, RequestUnknown(kind)
          PROVE  answers' \in Seq(OwnAnswers) /\ raw_http_response' = <<>>
      <4>1. NextRequest(kind) \in Request /\ "502" \in Status
            /\ <<>> \in Seq(TriggeredBy(NextRequest(kind)))
        BY NextRequestType DEF TypeInv, TypeOK, Status
      <4> QED
        BY <3>1, <4>1, AnswersOwn DEF RequestUnknown
    <3> QED
      BY <1>8, <3>1
         DEF ClientStep, Accept, ClientGone, RequestForward, RequestTooLong,
             StartSession, OwnInv
  <2>2. AckedMeansAccepted'
    <3>1. \/ pstate' \in {"accept", "client"}
          \/ pstate = "client" /\ i' = i
      BY <1>8 DEF ClientStep, Accept, ClientGone, RequestUnknown, AnswerClient,
                  RequestForward, RequestTooLong, StartSession
    <3>2. CASE pstate = "client" /\ i' = i
      <4>1. i' = 0
        BY <3>2 DEF TypeInv, ForwardingInv
      <4> QED
        BY <4>1 DEF AckedMeansAccepted
    <3> QED
      BY <3>1, <3>2 DEF AckedMeansAccepted
  <2>3. raw_http_response' \in Seq(TriggeredBy(request'))
    BY <2>1
  <2> QED
    BY <1>1, <1>2, <1>3, <1>5, <1>6, <2>1, <2>2, <2>3 DEF OwnInv
<1> QED
  BY <1>7, <1>8 DEF ProxyNext

-----------------------------------------------------------------------------
LEMMA OwnInvInit == Init => OwnInv
<1> SUFFICES ASSUME Init PROVE OwnInv
  OBVIOUS
<1>1. \A d \in Devices : toDevice[d] = <<>> /\ session_ids[d] = 0
                         /\ dstate[d] = "run"
  BY DEF Init, NetworkInit, ProxyInit, DeviceInit
<1>2. /\ toProxy = <<>> /\ raw_http_response = <<>> /\ answers = <<>>
      /\ current_session_id = 0 /\ pstate = "accept"
      /\ toDevice = [d \in Devices |-> <<>>]
  BY DEF Init, NetworkInit, ProxyInit
<1> QED
  BY <1>1, <1>2 DEF OwnInv, OwnSending, AckedMeansAccepted

LEMMA OwnInvStep ==
    ASSUME MaxRequests < SessionMod, OneDevice, TypeInv, SessionInv, OwnInv,
           [Next]_vars
    PROVE  OwnInv'
<1>1. CASE ProxyNext
  BY <1>1, ProxyOwn
<1>2. ASSUME UNCHANGED proxyVars, OwnReplies',
             \A e \in Devices : accepted[e] \subseteq accepted'[e]
      PROVE  OwnInv'
  BY <1>2, ProxyKeepsOwn
<1>3. CASE ~ProxyNext
  <2>1. UNCHANGED proxyVars
    BY <1>3, NotProxyNext
  <2>2. ASSUME NEW d \in Devices,
               DeviceNext(d) \/ RestartDevice(d) \/ DeviceRecvError(d)
        PROVE  OwnInv'
    BY <1>2, <2>1, <2>2, DeviceOwn
       DEF DeviceNext, RestartDevice, DeviceRecvError
  <2>3. ASSUME NEW kind \in Disturbances, DisturbToProxy(kind)
        PROVE  OwnInv'
    <3>1. PICK queue \in Disturbed(kind, toProxy) : toProxy' = queue
      BY <2>3 DEF DisturbToProxy
    <3>2. toProxy' \in Seq(RepliesUpTo(current_session_id, request, accepted))
      BY <3>1, DisturbedKeeps DEF OwnInv
    <3>3. OwnReplies' /\ accepted' = accepted
      BY <2>1, <2>3, <3>2
         DEF DisturbToProxy, deviceVars, OwnInv, OwnReplies, OwnSending,
             proxyVars
    <3> QED
      BY <1>2, <2>1, <3>3
  <2>4. CASE UNCHANGED <<toProxy, deviceVars>>
    <3>1. OwnReplies' /\ accepted' = accepted
      BY <2>1, <2>4 DEF deviceVars, OwnInv, OwnReplies, OwnSending, proxyVars
    <3> QED
      BY <1>2, <2>1, <3>1
  <2> QED
    BY <1>3, <2>2, <2>3, <2>4
       DEF Next, vars, network, Fault, DisturbToDevice, DropForAbsent
<1> QED
  BY <1>1, <1>3

LEMMA OwnInvariant ==
    ASSUME MaxRequests < SessionMod, OneDevice
    PROVE  Spec => []OwnInv
<1>1. TypeInv /\ SessionInv /\ [Next]_vars => SessionInv'
  BY SessionInvStep
<1>2. TypeInv /\ SessionInv /\ OwnInv /\ [Next]_vars => OwnInv'
  BY OwnInvStep
<1> QED
  BY <1>1, <1>2, SessionInvInit, OwnInvInit, TypeInvariant, PTL DEF Spec

(* With one device and no session id used twice, SendDataDevice counts a   *)
(* fragment as acknowledged only when the device has it, whatever was      *)
(* lost, repeated, overtaken, resent or left over from an earlier session  *)
(* (proxy.cpp, the checks on session and ack_num).                         *)
THEOREM AckedMeansAcceptedHolds ==
    ASSUME MaxRequests < SessionMod, OneDevice
    PROVE  Spec => []AckedMeansAccepted
<1>1. OwnInv => AckedMeansAccepted
  BY DEF OwnInv
<1> QED
  BY <1>1, OwnInvariant, PTL

(* Under the same assumptions a client is sent, and ReceiveDataDevice      *)
(* collects, only fragments of responses the device began when it had the  *)
(* last fragment of that client's request (proxy.cpp, the check on the     *)
(* session of each packet; device.cpp, SendData).                          *)
THEOREM OwnResponseHolds ==
    ASSUME MaxRequests < SessionMod, OneDevice
    PROVE  Spec => []OwnResponse
<1>1. OwnInv => OwnResponse
  <2> SUFFICES ASSUME OwnInv PROVE OwnResponse
    OBVIOUS
  <2>1. \A k \in 1 .. Len(raw_http_response) :
           raw_http_response[k] \in TriggeredBy(request)
    BY ElementOfSeq DEF OwnInv
  <2>2. ASSUME NEW a \in Range(answers), NEW k \in 1 .. Len(a.body)
        PROVE  a.body[k].resp.trigger = a.req
    <3>1. a \in OwnAnswers
      BY ElementOfSeq DEF OwnInv, Range
    <3>2. a.body[k] \in TriggeredBy(a.req)
      BY <3>1, ElementOfSeq DEF OwnAnswers
    <3> QED
      BY <3>2 DEF TriggeredBy
  <2> QED
    BY <2>1, <2>2 DEF OwnResponse, TriggeredBy
<1> QED
  BY <1>1, OwnInvariant, PTL

-----------------------------------------------------------------------------
(***************************************************************************)
(* What survives restarts of the proxy: the invariants of TINsProofs.      *)
(***************************************************************************)
LEMMA SuffixType ==
    ASSUME NEW S, NEW q \in Seq(S), NEW k \in 0 .. Len(q)
    PROVE  SubSeq(q, k + 1, Len(q)) \in Seq(S)
BY SubSeqProperties

(* A new process: the proxy's state is the one it starts with, but for     *)
(* what the sockets and the models' histories keep.                        *)
LEMMA RestartProxyType ==
    ASSUME TypeInv, RestartProxy
    PROVE  TypeInv'
<1> USE DEF TypeInv, TypeOK
<1>1. /\ pstate' = "accept" /\ i' = 0 /\ retry_counter' = 0
      /\ rcvtimeo' = FALSE /\ raw_http_response' = <<>>
      /\ session_ids' = [d \in Devices |-> 0]
      /\ current_session_id' = current_session_id /\ request' = request
      /\ toDevice' = toDevice /\ UNCHANGED deviceVars
  BY DEF RestartProxy
<1>2. toProxy' \in Seq(DevicePacket)
  BY SuffixType DEF RestartProxy, NetworkTypeOK
<1>3. answers' \in Seq(Answer)
  <2>1. [req |-> request, status |-> "none", body |-> <<>>] \in Answer
    BY DEF Answer, Status, ProxyTypeOK
  <2>2. Abandoned \in Seq(Answer)
    BY <2>1 DEF Abandoned
  <2> QED
    BY <2>2 DEF RestartProxy, ProxyTypeOK
<1>4. FaultsTypeOK'
  BY TINsAssumption DEF RestartProxy, FaultsTypeOK
<1>5. 0 \in SessionChar
  BY AAAAssumption DEF SessionChar
<1>6. NetworkTypeOK' /\ ProxyTypeOK'
  <2>1. NetworkTypeOK'
    BY <1>1, <1>2 DEF NetworkTypeOK
  <2>2. session_ids' \in [Devices -> SessionChar]
    BY <1>1, <1>5
  <2>3. raw_http_response' \in Seq(ResponseFragment)
    BY <1>1
  <2>4. current_session_id' \in SessionChar /\ request' \in Request
    BY <1>1 DEF ProxyTypeOK
  <2>5. /\ pstate' \in {"accept", "client", "sendData", "receiveData"}
        /\ i' \in Nat /\ retry_counter' \in Nat /\ rcvtimeo' \in BOOLEAN
    BY <1>1
  <2>6. ProxyTypeOK'
    BY <1>3, <2>2, <2>3, <2>4, <2>5 DEF ProxyTypeOK
  <2> QED
    BY <2>1, <2>6
<1>7. DeviceTypeOK' /\ RespondingInv'
  BY <1>1 DEF deviceVars, DeviceTypeOK, RespondingInv
<1>8. ForwardingInv'
  BY <1>1 DEF ForwardingInv
<1> QED
  BY <1>1, <1>4, <1>6, <1>7, <1>8

LEMMA RestartInvariant == RestartSpec => [](TypeInv /\ SessionPairing)
<1>1. TypeInv /\ SessionPairing /\ [RestartNext]_vars
        => TypeInv' /\ SessionPairing'
  <2>1. ASSUME TypeInv, SessionPairing, RestartProxy
        PROVE  TypeInv' /\ SessionPairing'
    BY <2>1, RestartProxyType DEF RestartProxy, deviceVars, SessionPairing
  <2> QED
    BY <2>1, TypeInvStep, SessionPairingStep DEF RestartNext
<1> QED
  BY <1>1, TypeInvInit, SessionPairingInit, PTL DEF RestartSpec

(* A restarted proxy reuses session ids and meets packets meant for the    *)
(* one before it, yet a device in Run never has a session without a count  *)
(* or a count without a session (device.cpp, the resets at 70, 88, 100 and *)
(* 121).                                                                   *)
THEOREM RestartKeepsPairing == RestartSpec => []SessionPairing
BY RestartInvariant, PTL

(* Every variable stays within its type when proxy and devices restart.    *)
THEOREM RestartTypeCorrect == RestartSpec => []TypeOK
<1>1. TypeInv => TypeOK
  BY DEF TypeInv
<1> QED
  BY <1>1, RestartInvariant, PTL
=============================================================================
