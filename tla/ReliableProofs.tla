--------------------------- MODULE ReliableProofs ---------------------------
(***************************************************************************)
(* What the proxy and the devices do in a network that neither loses nor   *)
(* delays datagrams, for any devices, requests and responses: they keep    *)
(* the promise of Gateway, one datagram at a time.                         *)
(***************************************************************************)
EXTENDS SessionProofs

(***************************************************************************)
(* No datagram is lost, repeated, late or spoiled, no queue overflows and  *)
(* no session id is used twice.                                            *)
(***************************************************************************)
Reliable ==
    /\ FaultKinds = {} /\ SpuriousTimeouts = FALSE /\ StackJunk = FALSE
    /\ QueueCap > 1
    /\ MaxRequests < SessionMod

Serving == pstate \in {"sendData", "receiveData"}

(* The first k fragments of a request, and of a response.                  *)
RequestPart(r, k) == [j \in 1 .. k |-> [req |-> r, n |-> r.size + 1 - j]]

ResponsePart(resp, k) ==
    [j \in 1 .. k |-> [resp |-> resp, n |-> resp.size + 1 - j, spoiled |-> FALSE]]

(* What the device of the request sends.                                   *)
AckOf(n) ==
    [type |-> "ACK", count |-> n, session |-> current_session_id,
     data |-> <<>>, from |-> request.device]

DataOf(resp, n) ==
    [type |-> "DATA", count |-> n, session |-> current_session_id,
     data |-> Fragment(resp, n), from |-> request.device]

(* A device outside a session.                                             *)
Clean(d) ==
    dstate[d] = "run" /\ session_id[d] = Unset /\ packet_counter[d] = Unset

(* A device with the last ACK of its response still to read.               *)
Finishing(d) ==
    /\ d \notin Absent
    /\ dstate[d] = "sendData" /\ sending[d].i + 1 >= sending[d].resp.size
    /\ raw_http_request[d] = <<>>
    /\ toDevice[d] # <<>> /\ toDevice[d][1].type = "ACK"

(* A device the proxy has no business with.                                *)
Idle(d) ==
    \/ Clean(d) /\ raw_http_request[d] = <<>> /\ toDevice[d] = <<>>
    \/ Finishing(d) /\ Len(toDevice[d]) = 1

(* The device has taken k fragments and expects the next.                  *)
Expects(d, k) ==
    /\ raw_http_request[d] = RequestPart(request, k)
    /\ k = 0 => Clean(d)
    /\ k > 0 => /\ dstate[d] = "run" /\ session_id[d] = current_session_id
                /\ packet_counter[d] = request.size - k
                /\ d \notin Absent

(* It has the whole request and sends fragment i of the response.          *)
Responds(d) ==
    /\ d \notin Absent
    /\ dstate[d] = "sendData" /\ session_id[d] = current_session_id
    /\ raw_http_request[d] = <<>>
    /\ \E n \in ResponseSizes :
          /\ n <= MaxCount
          /\ sending[d].resp = [req |-> request, trigger |-> request, size |-> n]

(* It has the whole request and will not respond.                          *)
Mute(d) ==
    /\ d \notin Absent /\ Clean(d)
    /\ ~request.ok \/ (/\ request \in Range(handled[d])
                       /\ \E n \in ResponseSizes : n > MaxCount)

-----------------------------------------------------------------------------
(* Where a request can be, from the proxy's first chunk to its answer.     *)
InFlight(d) ==
    /\ pstate = "sendData" /\ toProxy = <<>>
    /\ request \notin Range(handled[d])
    /\ \/ /\ Expects(d, i)
          /\ toDevice[d] = <<Chunk(request, current_session_id, i)>>
       \/ /\ i = 0 /\ Finishing(d) /\ Len(toDevice[d]) = 2
          /\ toDevice[d][2] = Chunk(request, current_session_id, 0)
       \/ d \in Absent /\ i = 0 /\ Expects(d, 0) /\ toDevice[d] = <<>>

Acknowledged(d) ==
    /\ pstate = "sendData" /\ toDevice[d] = <<>>
    /\ \/ /\ i + 1 < request.size /\ Expects(d, i + 1)
          /\ request \notin Range(handled[d])
          /\ toProxy = <<AckOf(request.size - i)>>
       \/ /\ i + 1 = request.size /\ Mute(d)
          /\ toProxy = <<AckOf(1)>>
       \/ /\ i + 1 = request.size /\ Responds(d)
          /\ sending[d].i = 0 /\ request \in Range(handled[d])
          /\ toProxy = <<AckOf(1), DataOf(sending[d].resp, sending[d].resp.size)>>

Collecting(d) ==
    /\ pstate = "receiveData" /\ ~rcvtimeo /\ Responds(d)
    /\ request \in Range(handled[d])
    /\ \/ /\ toDevice[d] = <<>>
          /\ toProxy = <<DataOf(sending[d].resp,
                                sending[d].resp.size - sending[d].i)>>
          /\ raw_http_response = ResponsePart(sending[d].resp, sending[d].i)
       \/ /\ toProxy = <<>> /\ sending[d].i + 1 < sending[d].resp.size
          /\ Len(toDevice[d]) = 1 /\ toDevice[d][1].type = "ACK"
          /\ raw_http_response = ResponsePart(sending[d].resp, sending[d].i + 1)

Silent(d) ==
    /\ pstate = "receiveData" /\ ~rcvtimeo /\ Mute(d)
    /\ toDevice[d] = <<>> /\ toProxy = <<>>

Refusing(d) ==
    /\ pstate = "receiveData" /\ rcvtimeo /\ request.size > MaxCount
    /\ Idle(d) /\ toProxy = <<>>

ServedInv(d) ==
    \/ /\ request.size <= MaxCount
       /\ InFlight(d) \/ Acknowledged(d) \/ Collecting(d) \/ Silent(d)
    \/ Refusing(d)

(* Requests are numbered, and none is carried out before its turn.         *)
NumberedInv ==
    /\ Serving => request.id = Len(answers) + 1
    /\ \A d \in Devices : \A r \in Range(handled[d]) :
          r.id <= Len(answers) \/ (Serving /\ r = request)

ReliableInv ==
    /\ \A d \in Devices :
          IF Serving /\ d = request.device THEN ServedInv(d) ELSE Idle(d)
    /\ ~Serving => toProxy = <<>>
    /\ NumberedInv

-----------------------------------------------------------------------------
(* Queues of two packets at most.                                          *)
LEMMA ShortQueues ==
    ASSUME NEW p, NEW q
    PROVE  /\ Head(<<p>>) = p /\ Tail(<<p>>) = <<>> /\ <<p>> # <<>>
           /\ Head(<<p, q>>) = p /\ Tail(<<p, q>>) = <<q>> /\ <<p, q>> # <<>>
           /\ Append(<<>>, p) = <<p>> /\ Append(<<p>>, q) = <<p, q>>
<1> DEFINE S == {p, q}
<1>1. /\ <<>> \in Seq(S) /\ <<p>> \in Seq(S) /\ <<p, q>> \in Seq(S)
      /\ <<q>> \in Seq(S) /\ p \in S /\ q \in S
  OBVIOUS
<1>2. /\ Len(<<>>) = 0 /\ Len(<<p>>) = 1 /\ Len(<<q>>) = 1 /\ Len(<<p, q>>) = 2
      /\ <<p>>[1] = p /\ <<q>>[1] = q /\ <<p, q>>[1] = p /\ <<p, q>>[2] = q
  OBVIOUS
<1>3. <<p>> # <<>> /\ <<p, q>> # <<>>
  BY <1>2
<1>4. Head(<<p>>) = p /\ Head(<<p, q>>) = p
  OBVIOUS
<1> HIDE DEF S
<1>5. Tail(<<p>>) = <<>>
  <2>1. Tail(<<p>>) \in Seq(S) /\ Len(Tail(<<p>>)) = 0
    BY <1>1, <1>2, <1>3, HeadTailProperties
  <2> QED
    BY <2>1, EmptySeq
<1>6. Tail(<<p, q>>) = <<q>>
  <2>1. /\ Tail(<<p, q>>) \in Seq(S) /\ Len(Tail(<<p, q>>)) = 1
        /\ Tail(<<p, q>>)[1] = q
    BY <1>1, <1>2, <1>3, HeadTailProperties
  <2> QED
    BY <1>1, <1>2, <2>1, SeqEqual
<1>7. Append(<<>>, p) = <<p>>
  <2>1. /\ Append(<<>>, p) \in Seq(S) /\ Len(Append(<<>>, p)) = 1
        /\ Append(<<>>, p)[1] = p
    BY <1>1, <1>2, AppendProperties
  <2> QED
    BY <1>1, <1>2, <2>1, SeqEqual
<1>8. Append(<<p>>, q) = <<p, q>>
  <2>1. /\ Append(<<p>>, q) \in Seq(S) /\ Len(Append(<<p>>, q)) = 2
        /\ Append(<<p>>, q)[1] = p /\ Append(<<p>>, q)[2] = q
    BY <1>1, <1>2, AppendProperties
  <2>2. \A k \in 1 .. 2 : Append(<<p>>, q)[k] = <<p, q>>[k]
    BY <1>2, <2>1
  <2> QED
    BY <1>1, <1>2, <2>1, <2>2, SeqEqual
<1> QED
  BY <1>3, <1>4, <1>5, <1>6, <1>7, <1>8

LEMMA ShortPuts ==
    ASSUME Reliable, NEW p, NEW q
    PROVE  /\ Put(<<>>, p) = <<p>>
           /\ Put(<<p>>, q) = <<p, q>>
           /\ PutSent(<<>>, <<p>>) = <<p>>
           /\ PutSent(<<p>>, <<q>>) = <<p, q>>
<1>1. QueueCap \in Nat /\ QueueCap > 1
  BY NetworkAssumption DEF Reliable
<1>2. Len(<<>>) = 0 /\ Len(<<p>>) = 1
  OBVIOUS
<1>3. Put(<<>>, p) = <<p>> /\ Put(<<p>>, q) = <<p, q>>
  <2>1. Append(<<>>, p) = <<p>> /\ Append(<<p>>, q) = <<p, q>>
    BY ShortQueues
  <2>2. 0 < QueueCap /\ 1 < QueueCap
    BY <1>1
  <2> QED
    BY <1>2, <2>1, <2>2 DEF Put
<1>4. <<p>> # <<>> /\ <<q>> # <<>> /\ <<p>>[1] = p /\ <<q>>[1] = q
  BY ShortQueues
<1> QED
  BY <1>3, <1>4 DEF PutSent

LEMMA QueueOfOne ==
    ASSUME NEW S, NEW queue \in Seq(S), Len(queue) = 1
    PROVE  queue = <<queue[1]>>
<1>1. queue[1] \in S
  BY ElementOfSeq
<1>2. <<queue[1]>> \in Seq(S) /\ Len(<<queue[1]>>) = 1
      /\ \A k \in 1 .. 1 : <<queue[1]>>[k] = queue[k]
  BY <1>1
<1> QED
  BY <1>2, SeqEqual

LEMMA QueueOfTwo ==
    ASSUME NEW S, NEW queue \in Seq(S), Len(queue) = 2
    PROVE  queue = <<queue[1], queue[2]>>
<1>1. queue[1] \in S /\ queue[2] \in S
  BY ElementOfSeq
<1>2. <<queue[1], queue[2]>> \in Seq(S) /\ Len(<<queue[1], queue[2]>>) = 2
  BY <1>1
<1>3. \A k \in 1 .. 2 : <<queue[1], queue[2]>>[k] = queue[k]
  OBVIOUS
<1> QED
  BY <1>2, <1>3, SeqEqual

-----------------------------------------------------------------------------
(* A session of the proxy is a positive char, and packets go out as sent.  *)
LEMMA ServedTypes ==
    ASSUME Reliable, TypeInv, SessionInv, Serving
    PROVE  /\ current_session_id \in 1 .. SessionMod - 1
           /\ request \in Request /\ request.device \in Devices
           /\ request.size \in Nat /\ i \in Nat
           /\ pstate = "sendData" => i < request.size
<1>1. current_session_id \in 0 .. SessionMod - 1 /\ current_session_id # 0
  BY SessionRange DEF Reliable, SessionInv, Serving
<1>2. current_session_id \in 1 .. SessionMod - 1
  BY <1>1, AAAAssumption
<1> QED
  BY <1>2 DEF TypeInv, TypeOK, ProxyTypeOK, ForwardingInv, Serving, Request

LEMMA ReliablePackets ==
    ASSUME Reliable, NEW s \in 1 .. SessionMod - 1,
           NEW d, NEW type, NEW count, NEW data
    PROVE  DevicePackets(d, type, count, s, data) =
             {<<[type |-> type, count |-> count, session |-> s,
                 data |-> data, from |-> d]>>}
<1>1. WireSession(s) = s /\ WireCount(count, s) = count /\ s # 0
  BY AAAAssumption DEF WireSession, WireCount
<1>2. Overlong = {}
  BY DEF Reliable, Overlong
<1> QED
  BY <1>1, <1>2 DEF DevicePackets, Reliable

LEMMA ChunkFields ==
    ASSUME NEW r, NEW s \in 1 .. SessionMod - 1, NEW k
    PROVE  Chunk(r, s, k) =
             [type |-> "DATA", count |-> r.size - k, session |-> s,
              data |-> <<[req |-> r, n |-> r.size - k]>>]
<1>1. WireSession(s) = s /\ \A count : WireCount(count, s) = count
  BY AAAAssumption DEF WireSession, WireCount
<1> QED
  BY <1>1 DEF Chunk, Packet

(* One more element of a sequence that is given by a function.             *)
LEMMA PartGrows ==
    ASSUME NEW S, NEW f \in [Nat -> S], NEW k \in Nat
    PROVE  [j \in 1 .. k |-> f[j]] \o <<f[k + 1]>> = [j \in 1 .. k + 1 |-> f[j]]
<1> DEFINE part(m) == [j \in 1 .. m |-> f[j]]
           last == <<f[k + 1]>>
           whole == part(k) \o last
<1>1. \A m \in Nat : /\ part(m) \in Seq(S) /\ Len(part(m)) = m
                     /\ \A j \in 1 .. m : part(m)[j] = f[j]
  OBVIOUS
<1>2. last \in Seq(S) /\ Len(last) = 1 /\ last[1] = f[k + 1]
  OBVIOUS
<1> HIDE DEF part, last
<1>3. /\ whole \in Seq(S) /\ Len(whole) = k + 1
      /\ \A j \in 1 .. k + 1 :
            whole[j] = IF j <= k THEN part(k)[j] ELSE last[j - k]
  <2>1. PICK first \in Seq(S) : first = part(k)
    BY <1>1
  <2>2. Len(first) = k
    BY <1>1, <2>1
  <2>3. /\ first \o last \in Seq(S)
        /\ Len(first \o last) = Len(first) + Len(last)
        /\ \A j \in 1 .. Len(first) + Len(last) :
              (first \o last)[j] = IF j <= Len(first) THEN first[j]
                                                   ELSE last[j - Len(first)]
    BY <1>2, ConcatProperties
  <2> QED
    BY <1>2, <2>1, <2>2, <2>3
<1> HIDE DEF whole
<1>4. ASSUME NEW j \in 1 .. k + 1
      PROVE  whole[j] = part(k + 1)[j]
  <2>1. k + 1 \in Nat /\ part(k + 1)[j] = f[j]
    BY <1>1
  <2>2. CASE j <= k
    <3>1. j \in 1 .. k
      BY <2>2
    <3>2. whole[j] = part(k)[j]
      BY <1>3, <2>2
    <3>3. part(k)[j] = f[j]
      BY <1>1, <3>1
    <3> QED
      BY <2>1, <3>2, <3>3
  <2>3. CASE j = k + 1
    <3>1. j - k = 1 /\ ~(j <= k)
      BY <2>3
    <3>2. whole[j] = last[j - k]
      BY <1>3, <3>1
    <3> QED
      BY <1>2, <2>1, <2>3, <3>1, <3>2
  <2>4. j <= k \/ j = k + 1
    OBVIOUS
  <2> QED
    BY <2>2, <2>3, <2>4
<1>5. k + 1 \in Nat /\ part(k + 1) \in Seq(S) /\ Len(part(k + 1)) = k + 1
  BY <1>1
<1>6. whole = part(k + 1)
  BY <1>3, <1>4, <1>5, SeqEqual
<1> QED
  BY <1>6 DEF part, whole, last

LEMMA RequestGrows ==
    ASSUME NEW r \in Request, NEW k \in Nat
    PROVE  /\ RequestPart(r, 0) = <<>>
           /\ RequestPart(r, k) \o <<[req |-> r, n |-> r.size - k]>>
                = RequestPart(r, k + 1)
<1> DEFINE S == [req: {r}, n: Int]
           f == [j \in Nat |-> [req |-> r, n |-> r.size + 1 - j]]
<1>1. r.size \in Nat /\ r.size + 1 - (k + 1) = r.size - k
  BY DEF Request
<1>2. \A m \in Nat : RequestPart(r, m) = [j \in 1 .. m |-> f[j]]
  BY DEF RequestPart
<1>3. f[k + 1] = [req |-> r, n |-> r.size - k]
  BY <1>1
<1>4. f \in [Nat -> S]
  BY <1>1
<1>5. RequestPart(r, 0) = <<>>
  BY DEF RequestPart
<1> HIDE DEF f, S
<1>6. [j \in 1 .. k |-> f[j]] \o <<f[k + 1]>> = [j \in 1 .. k + 1 |-> f[j]]
  BY <1>4, PartGrows
<1>7. RequestPart(r, k) = [j \in 1 .. k |-> f[j]]
      /\ RequestPart(r, k + 1) = [j \in 1 .. k + 1 |-> f[j]]
  BY <1>2
<1> QED
  BY <1>3, <1>5, <1>6, <1>7

LEMMA ResponseGrows ==
    ASSUME NEW resp \in Response, NEW k \in Nat
    PROVE  /\ ResponsePart(resp, 0) = <<>>
           /\ ResponsePart(resp, k) \o Fragment(resp, resp.size - k)
                = ResponsePart(resp, k + 1)
<1> DEFINE S == [resp: {resp}, n: Int, spoiled: {FALSE}]
           f == [j \in Nat |-> [resp |-> resp, n |-> resp.size + 1 - j,
                                spoiled |-> FALSE]]
<1>1. resp.size \in Nat /\ resp.size + 1 - (k + 1) = resp.size - k
  BY DEF Response
<1>2. \A m \in Nat : ResponsePart(resp, m) = [j \in 1 .. m |-> f[j]]
  BY DEF ResponsePart
<1>3. f[k + 1] = [resp |-> resp, n |-> resp.size - k, spoiled |-> FALSE]
  <2>1. PICK m \in Nat : m = k + 1
    OBVIOUS
  <2>2. f[m] = [resp |-> resp, n |-> resp.size + 1 - m, spoiled |-> FALSE]
    OBVIOUS
  <2>3. resp.size + 1 - m = resp.size - k
    BY <1>1, <2>1
  <2> HIDE DEF f
  <2> QED
    BY <2>1, <2>2, <2>3
<1>4. f \in [Nat -> S]
  BY <1>1
<1>5. ResponsePart(resp, 0) = <<>>
  BY DEF ResponsePart
<1> HIDE DEF f, S
<1>6. [j \in 1 .. k |-> f[j]] \o <<f[k + 1]>> = [j \in 1 .. k + 1 |-> f[j]]
  BY <1>4, PartGrows
<1>7. ResponsePart(resp, k) = [j \in 1 .. k |-> f[j]]
      /\ ResponsePart(resp, k + 1) = [j \in 1 .. k + 1 |-> f[j]]
  BY <1>2
<1> QED
  BY <1>3, <1>5, <1>6, <1>7 DEF Fragment

(* A buffer that holds one whole request and nothing else.                 *)
LEMMA ParseWhole ==
    ASSUME NEW r \in Request, r.size # 0
    PROVE  LET raw == RequestPart(r, r.size)
           IN  ParseOutcomes(raw) = {r} /\ Last(raw).req = r
<1> DEFINE raw == RequestPart(r, r.size)
<1>1. r.size \in Nat /\ 1 \in 1 .. r.size /\ r.size \in 1 .. r.size
  BY DEF Request
<1>2. /\ Len(raw) = r.size
      /\ \A j \in 1 .. r.size : raw[j] = [req |-> r, n |-> r.size + 1 - j]
  BY <1>1 DEF RequestPart
<1> HIDE DEF raw
<1>3. raw[1].req = r /\ raw[r.size].req = r
  <2>1. ASSUME NEW j \in 1 .. r.size
        PROVE  raw[j].req = r
    <3>1. PICK n : raw[j] = [req |-> r, n |-> n]
      BY <1>2
    <3> QED
      BY <3>1
  <2> QED
    BY <1>1, <2>1
<1>4. BeginsWith(raw, r)
  BY <1>1, <1>2 DEF BeginsWith
<1>5. ParseOutcomes(raw) = {r}
  BY <1>2, <1>3, <1>4 DEF ParseOutcomes
<1>6. Last(raw).req = r
  BY <1>2, <1>3 DEF Last
<1> QED
  BY <1>5, <1>6 DEF raw

-----------------------------------------------------------------------------
(* What the invariant says of a device and of its queue.                   *)
Local(d) ==
    <<dstate[d], session_id[d], packet_counter[d], raw_http_request[d],
      sending[d], handled[d], toDevice[d]>>

OnlyDevice(d) == \A e \in Devices : e # d => UNCHANGED Local(e)

PromiseKept == [Promise!Next]_Promise!vars

LEMMA IdleFrame ==
    ASSUME NEW d, UNCHANGED Local(d), Idle(d)
    PROVE  Idle(d)'
BY DEF Local, Idle, Clean, Finishing

LEMMA ServedFrame ==
    ASSUME NEW d, UNCHANGED Local(d), UNCHANGED <<proxyVars, toProxy>>, ServedInv(d)
    PROVE  ServedInv(d)'
<1> USE DEF Local, proxyVars
<1>1. Idle(d) => Idle(d)'
  BY IdleFrame
<1>2. /\ Finishing(d) => Finishing(d)'
      /\ \A k : Expects(d, k) => Expects(d, k)'
      /\ Responds(d) => Responds(d)'
      /\ Mute(d) => Mute(d)'
  BY DEF Finishing, Expects, Responds, Mute, Clean, RequestPart
<1>3. InFlight(d) => InFlight(d)'
  BY <1>2 DEF InFlight, Expects, Clean, RequestPart, Chunk, Packet
<1>4. Acknowledged(d) => Acknowledged(d)'
  BY <1>2 DEF Acknowledged, Expects, Clean, RequestPart, AckOf, DataOf, Fragment
<1>5. Collecting(d) => Collecting(d)'
  BY <1>2 DEF Collecting, DataOf, ResponsePart, Fragment
<1>6. Silent(d) => Silent(d)'
  BY <1>2 DEF Silent
<1>7. Refusing(d) => Refusing(d)'
  BY <1>1 DEF Refusing
<1> QED
  BY <1>3, <1>4, <1>5, <1>6, <1>7 DEF ServedInv

(* A step of one device keeps the invariant of the others.                 *)
LEMMA DeviceKeeps ==
    ASSUME TypeInv, ReliableInv, NEW d \in Devices,
           OnlyDevice(d), UNCHANGED proxyVars,
           IF Serving /\ d = request.device
             THEN ServedInv(d)' ELSE Idle(d)' /\ UNCHANGED toProxy,
           \A r \in Range(handled'[d]) :
              r \in Range(handled[d]) \/ (Serving /\ r = request)
    PROVE  ReliableInv'
<1>1. UNCHANGED <<request, pstate, answers>> /\ (Serving' <=> Serving)
  BY DEF proxyVars, Serving
<1>2. ASSUME NEW e \in Devices
      PROVE  IF Serving /\ e = request.device THEN ServedInv(e)' ELSE Idle(e)'
  <2>1. CASE e = d
    BY <2>1
  <2>2. CASE e # d
    <3>1. UNCHANGED Local(e)
      BY <2>2 DEF OnlyDevice
    <3>2. CASE Serving /\ e = request.device
      <4>1. UNCHANGED toProxy /\ ServedInv(e)
        BY <2>2, <3>2 DEF ReliableInv
      <4> QED
        BY <3>1, <3>2, <4>1, ServedFrame
    <3>3. CASE ~(Serving /\ e = request.device)
      <4>1. Idle(e)
        BY <3>3 DEF ReliableInv
      <4> QED
        BY <3>1, <3>3, <4>1, IdleFrame
    <3> QED
      BY <3>2, <3>3
  <2> QED
    BY <2>1, <2>2
<1>3. ~Serving' => toProxy' = <<>>
  BY <1>1 DEF ReliableInv
<1>4. NumberedInv'
  <2>1. ASSUME NEW e \in Devices, NEW r \in Range(handled'[e])
        PROVE  r.id <= Len(answers) \/ (Serving /\ r = request)
    <3>1. r \in Range(handled[e]) \/ (Serving /\ r = request)
      BY DEF OnlyDevice, Local
    <3> QED
      BY <3>1 DEF ReliableInv, NumberedInv
  <2>2. Serving => request.id = Len(answers) + 1
    BY DEF ReliableInv, NumberedInv
  <2> QED
    BY <1>1, <2>1, <2>2 DEF NumberedInv
<1> QED
  BY <1>1, <1>2, <1>3, <1>4 DEF ReliableInv

(* What happens between proxy and device is no business of the clients.    *)
LEMMA PromiseStutters ==
    ASSUME UNCHANGED <<handled, answers>>, Serving' <=> Serving,
           Serving => UNCHANGED request, Stuck' <=> Stuck
    PROVE  UNCHANGED Promise!vars
<1>1. UNCHANGED IF pstate \in {"sendData", "receiveData"} THEN {request} ELSE {}
  BY DEF Serving
<1>2. UNCHANGED Stuck
  BY DEF Stuck
<1> QED
  BY <1>1, <1>2 DEF Promise!vars

LEMMA DeviceFrame ==
    ASSUME NEW d \in Devices, DeviceReceives(d), TypeInv
    PROVE  OnlyDevice(d) /\ HasPacket(d)
<1> USE DEF OnlyDevice, Local, Consume, Reset, TypeInv, TypeOK, DeviceTypeOK,
            NetworkTypeOK
<1>1. CASE RunWrongCount(d) \/ RunWrongSession(d) \/ RunWrongType(d)
  BY <1>1 DEF RunWrongCount, RunWrongSession, RunWrongType
<1>2. CASE RunFragment(d) \/ RunUnparsed(d)
  BY <1>2 DEF RunFragment, RunUnparsed, TakeFragment
<1>3. CASE RunTooLong(d)
  BY <1>3 DEF RunTooLong, TakeFragment, Handle
<1>4. CASE RunRespond(d)
  BY <1>4 DEF RunRespond, TakeFragment, Handle
<1>5. CASE SendDataNext(d) \/ SendDataDone(d) \/ SendDataError(d)
  BY <1>5 DEF SendDataNext, SendDataDone, SendDataError, ReturnToRun
<1>6. CASE SendDataAgain(d)
  BY <1>6 DEF SendDataAgain, Retransmit, GiveUp, ReturnToRun
<1> QED
  BY <1>1, <1>2, <1>3, <1>4, <1>5, <1>6 DEF DeviceReceives

-----------------------------------------------------------------------------
(* Steps of devices.  A device that waits for the last ACK reads it.       *)
LEMMA FinishingReads ==
    ASSUME TypeInv, NEW d \in Devices, Finishing(d), DeviceReceives(d)
    PROVE  /\ SendDataDone(d)
           /\ Clean(d)' /\ raw_http_request'[d] = <<>>
           /\ toDevice'[d] = Tail(toDevice[d])
           /\ UNCHANGED <<toProxy, handled>>
<1>1. Incoming(d) = toDevice[d][1]
  <2>1. toDevice[d] \in Seq(SoundPacket) /\ toDevice[d] # <<>>
    BY DEF TypeInv, Finishing
  <2> QED
    BY <2>1, HeadTailProperties DEF Incoming
<1>2. SendDataDone(d)
  <2>1. dstate[d] = "sendData" /\ Incoming(d).type = "ACK"
    BY <1>1 DEF Finishing
  <2>2. ~(sending[d].i + 1 < sending[d].resp.size)
    BY DEF Finishing, TypeInv, TypeOK, DeviceTypeOK, Response
  <2> QED
    BY <2>1, <2>2
       DEF DeviceReceives, RunWrongCount, RunWrongSession, RunWrongType,
           RunFragment, RunUnparsed, RunTooLong, RunRespond, TakeFragment,
           SendDataNext, SendDataError, SendDataAgain
<1> QED
  BY <1>2 DEF SendDataDone, Consume, ReturnToRun, Reset, Clean, Finishing,
              TypeInv, TypeOK, DeviceTypeOK, NetworkTypeOK

LEMMA IdleDevice ==
    ASSUME TypeInv, NEW d \in Devices, Idle(d), DeviceReceives(d)
    PROVE  /\ Idle(d)' /\ toDevice'[d] = <<>>
           /\ UNCHANGED <<toProxy, handled>>
<1>1. Finishing(d) /\ Len(toDevice[d]) = 1
  BY DeviceFrame DEF Idle, HasPacket
<1>2. PICK p : toDevice[d] = <<p>>
  <2>1. toDevice[d] \in Seq(SoundPacket)
    BY DEF TypeInv
  <2> QED
    BY <1>1, <2>1, QueueOfOne
<1>3. Tail(toDevice[d]) = <<>>
  BY <1>2, ShortQueues
<1> QED
  BY <1>1, <1>3, FinishingReads DEF Idle

(* The device takes the chunk that is on its way.                          *)
LEMMA TakesChunk ==
    ASSUME Reliable, TypeInv, SessionInv, NEW d \in Devices, DeviceReceives(d),
           pstate = "sendData", Expects(d, i),
           toDevice[d] = <<Chunk(request, current_session_id, i)>>
    PROVE  LET p == Incoming(d)
           IN  /\ RunFragment(d) \/ RunUnparsed(d) \/ RunTooLong(d) \/ RunRespond(d)
               /\ p.session = current_session_id
               /\ Counter(d, p) = request.size - i
               /\ raw_http_request[d] \o p.data = RequestPart(request, i + 1)
               /\ toDevice'[d] = <<>>
<1> DEFINE p == Incoming(d)
           n == request.size - i
<1>1. /\ current_session_id \in 1 .. SessionMod - 1
      /\ request \in Request /\ request.size \in Nat /\ i \in Nat
      /\ i < request.size
  BY ServedTypes DEF Serving
<1>2. p = Chunk(request, current_session_id, i)
  BY ShortQueues DEF Incoming
<1>3. /\ p.type = "DATA" /\ p.count = n /\ p.session = current_session_id
      /\ p.data = <<[req |-> request, n |-> n]>>
  BY <1>1, <1>2, ChunkFields
<1>4. dstate[d] = "run" /\ CountExpected(d, p) /\ SessionExpected(d, p)
      /\ Counter(d, p) = n
  <2>1. CASE i = 0
    BY <1>3, <2>1 DEF Expects, Clean, CountExpected, SessionExpected, Counter
  <2>2. CASE i > 0
    <3>1. n # Unset
      BY <1>1 DEF Unset
    <3> QED
      BY <1>3, <2>2, <3>1 DEF Expects, CountExpected, SessionExpected, Counter
  <2> QED
    BY <1>1, <2>1, <2>2
<1>5. RunFragment(d) \/ RunUnparsed(d) \/ RunTooLong(d) \/ RunRespond(d)
  BY <1>3, <1>4
     DEF DeviceReceives, RunWrongCount, RunWrongSession, RunWrongType,
         SendDataNext, SendDataDone, SendDataError, SendDataAgain
<1>6. raw_http_request[d] \o p.data = RequestPart(request, i + 1)
  BY <1>1, <1>3, RequestGrows DEF Expects
<1>7. toDevice'[d] = <<>>
  <2>1. Consume(d)
    BY <1>5 DEF RunFragment, RunUnparsed, RunTooLong, RunRespond, TakeFragment
  <2>2. Tail(toDevice[d]) = <<>>
    BY ShortQueues
  <2> QED
    BY <2>1, <2>2 DEF Consume, TypeInv, TypeOK, NetworkTypeOK
<1> QED
  BY <1>3, <1>4, <1>5, <1>6, <1>7

(* What a device sends while it serves a request arrives as it is.         *)
LEMMA ServedSends ==
    ASSUME Reliable, TypeInv, SessionInv, Serving, request.device \in Devices,
           NEW n, NEW type, NEW data
    PROVE  LET d == request.device
           IN  DevicePackets(d, type, n, current_session_id, data) =
                 {<<[type |-> type, count |-> n, session |-> current_session_id,
                     data |-> data, from |-> d]>>}
<1>1. current_session_id \in 1 .. SessionMod - 1
  BY ServedTypes
<1> QED
  BY <1>1, ReliablePackets

LEMMA AckArrives ==
    ASSUME Reliable, TypeInv, SessionInv, Serving, request.device \in Devices,
           toProxy = <<>>, UNCHANGED proxyVars, NEW n,
           Send(request.device, "ACK", n, current_session_id, <<>>)
    PROVE  toProxy' = <<AckOf(n)>>'
<1> DEFINE d == request.device
<1>1. toProxy' = PutSent(<<>>, <<AckOf(n)>>)
  BY ServedSends DEF Send, AckOf
<1>2. PutSent(<<>>, <<AckOf(n)>>) = <<AckOf(n)>>
  BY ShortPuts
<1> QED
  BY <1>1, <1>2 DEF AckOf, proxyVars

LEMMA FragmentTaken ==
    ASSUME Reliable, TypeInv, SessionInv, NEW d \in Devices, d = request.device,
           InFlight(d), Expects(d, i), d \notin Absent, RunFragment(d),
           toDevice[d] = <<Chunk(request, current_session_id, i)>>,
           UNCHANGED proxyVars
    PROVE  Acknowledged(d)' /\ UNCHANGED handled
<1> DEFINE p == Incoming(d)
           n == request.size - i
<1>1. /\ pstate = "sendData" /\ toProxy = <<>>
      /\ request \notin Range(handled[d])
  BY DEF InFlight
<1>2. Serving /\ request.device \in Devices
  BY <1>1 DEF Serving
<1>3. request.size \in Nat /\ i \in Nat /\ i < request.size
  BY <1>1, <1>2, ServedTypes
<1>4. /\ p.session = current_session_id /\ Counter(d, p) = n
      /\ raw_http_request[d] \o p.data = RequestPart(request, i + 1)
      /\ toDevice'[d] = <<>>
  BY <1>1, TakesChunk DEF DeviceReceives
<1>5. /\ n # 1
      /\ raw_http_request' =
           [raw_http_request EXCEPT ![d] = RequestPart(request, i + 1)]
      /\ session_id' = [session_id EXCEPT ![d] = current_session_id]
      /\ packet_counter' = [packet_counter EXCEPT ![d] = n - 1]
      /\ Send(d, "ACK", n, current_session_id, <<>>)
      /\ UNCHANGED <<dstate, handled>>
      /\ dstate[d] = "run"
  BY <1>4 DEF RunFragment, TakeFragment
<1>6. toProxy' = <<AckOf(n)>>'
  <2>1. PICK m \in Int : m = n
    BY <1>3
  <2>2. Send(request.device, "ACK", m, current_session_id, <<>>)
    BY <1>5, <2>1
  <2>3. toProxy' = <<AckOf(m)>>'
    BY <1>1, <1>2, <2>2, AckArrives
  <2> QED
    BY <2>1, <2>3 DEF AckOf, proxyVars
<1>7. Expects(d, i + 1)'
  <2>1. i + 1 # 0 /\ i + 1 > 0 /\ n - 1 = request.size - (i + 1)
    BY <1>3
  <2>2. /\ raw_http_request'[d] = RequestPart(request, i + 1)
        /\ session_id'[d] = current_session_id
        /\ packet_counter'[d] = request.size - (i + 1)
        /\ dstate'[d] = "run"
    BY <1>5, <2>1 DEF TypeInv, TypeOK, DeviceTypeOK
  <2> QED
    BY <2>1, <2>2 DEF Expects, proxyVars, RequestPart
<1>8. i + 1 < request.size
  BY <1>3, <1>5
<1> QED
  BY <1>1, <1>4, <1>5, <1>6, <1>7, <1>8 DEF Acknowledged, proxyVars, AckOf

(* The last chunk completes the request, and nothing else is in the buffer.*)
LEMMA LastTaken ==
    ASSUME Reliable, TypeInv, SessionInv, NEW d \in Devices, d = request.device,
           InFlight(d), Expects(d, i), d \notin Absent, DeviceReceives(d),
           toDevice[d] = <<Chunk(request, current_session_id, i)>>,
           Counter(d, Incoming(d)) = 1
    PROVE  LET raw == raw_http_request[d] \o Incoming(d).data
           IN  /\ Serving /\ toProxy = <<>> /\ request \notin Range(handled[d])
               /\ i + 1 = request.size /\ request \in Request
               /\ Incoming(d).session = current_session_id
               /\ ParseOutcomes(raw) = {request} /\ Last(raw).req = request
               /\ toDevice'[d] = <<>>
<1>1. /\ pstate = "sendData" /\ toProxy = <<>>
      /\ request \notin Range(handled[d])
  BY DEF InFlight
<1>2. Serving
  BY <1>1 DEF Serving
<1>3. request \in Request /\ request.size \in Nat /\ i \in Nat /\ i < request.size
  BY <1>1, <1>2, ServedTypes
<1>4. /\ Incoming(d).session = current_session_id
      /\ Counter(d, Incoming(d)) = request.size - i
      /\ raw_http_request[d] \o Incoming(d).data = RequestPart(request, i + 1)
      /\ toDevice'[d] = <<>>
  BY <1>1, TakesChunk
<1>5. i + 1 = request.size /\ request.size # 0
  BY <1>3, <1>4
<1>6. ParseOutcomes(RequestPart(request, request.size)) = {request}
      /\ Last(RequestPart(request, request.size)).req = request
  BY <1>3, <1>5, ParseWhole
<1> QED
  BY <1>1, <1>2, <1>3, <1>4, <1>5, <1>6

LEMMA UnparsedTaken ==
    ASSUME Reliable, TypeInv, SessionInv, NEW d \in Devices, d = request.device,
           InFlight(d), Expects(d, i), d \notin Absent, RunUnparsed(d),
           toDevice[d] = <<Chunk(request, current_session_id, i)>>,
           UNCHANGED proxyVars
    PROVE  Acknowledged(d)' /\ UNCHANGED handled
<1>1. Counter(d, Incoming(d)) = 1 /\ DeviceReceives(d) /\ pstate = "sendData"
  BY DEF RunUnparsed, DeviceReceives, InFlight
<1>2. /\ Serving /\ toProxy = <<>>
      /\ i + 1 = request.size
      /\ Incoming(d).session = current_session_id
      /\ ParseOutcomes(raw_http_request[d] \o Incoming(d).data) = {request}
      /\ toDevice'[d] = <<>>
  BY <1>1, LastTaken
<1>3. /\ ~request.ok /\ Reset(d) /\ UNCHANGED <<dstate, handled>>
      /\ Send(request.device, "ACK", 1, current_session_id, <<>>)
      /\ dstate[d] = "run"
  BY <1>1, <1>2 DEF RunUnparsed, TakeFragment
<1>4. toProxy' = <<AckOf(1)>>'
  BY <1>2, <1>3, AckArrives
<1>5. Mute(d)'
  BY <1>3 DEF Reset, Mute, Clean, TypeInv, TypeOK, DeviceTypeOK, proxyVars
<1> QED
  BY <1>1, <1>2, <1>3, <1>4, <1>5 DEF Acknowledged, proxyVars

(* The request is carried out, and this is what the client was promised.   *)
LEMMA HandledOnce ==
    ASSUME TypeInv, NEW d \in Devices, d = request.device, d \notin Absent,
           Serving, request.ok, request.size <= MaxCount,
           request \notin Range(handled[d]), Handle(d, request),
           UNCHANGED proxyVars, ~Stuck, ~Stuck'
    PROVE  /\ Promise!Next
           /\ request \in Range(handled'[d])
           /\ \A r \in Range(handled'[d]) : r \in Range(handled[d]) \/ r = request
           /\ raw_http_request'[d] = <<>>
<1>1. handled[d] \in Seq(Request) /\ request \in Request
  BY DEF TypeInv, TypeOK, DeviceTypeOK, ProxyTypeOK
<1>2. handled' = [handled EXCEPT ![d] = Append(@, request)]
      /\ handled'[d] = Append(handled[d], request)
  BY DEF Handle, TypeInv, TypeOK, DeviceTypeOK
<1>3. PICK done \in Seq(Request) : done = Append(handled[d], request)
  BY <1>1, AppendProperties
<1>4. /\ Len(done) = Len(handled[d]) + 1 /\ done[Len(done)] = request
      /\ \A k \in 1 .. Len(handled[d]) : done[k] = handled[d][k]
  BY <1>1, <1>3, AppendProperties
<1>5. Range(done) = Range(handled[d]) \cup {request}
  <2>1. DOMAIN done = 1 .. Len(handled[d]) + 1
        /\ DOMAIN handled[d] = 1 .. Len(handled[d]) /\ Len(handled[d]) \in Nat
    BY <1>1, <1>4
  <2>2. Len(done) \in DOMAIN done
    BY <1>4, <2>1
  <2>3. request \in Range(done) /\ Range(handled[d]) \subseteq Range(done)
    BY <1>4, <2>1, <2>2 DEF Range
  <2>4. ASSUME NEW k \in DOMAIN done
        PROVE  done[k] \in Range(handled[d]) \cup {request}
    <3>1. k \in 1 .. Len(handled[d]) \/ k = Len(done)
      BY <1>4, <2>1
    <3>2. CASE k \in 1 .. Len(handled[d])
      <4>1. k \in DOMAIN handled[d] /\ done[k] = handled[d][k]
        BY <1>4, <2>1, <3>2
      <4>2. handled[d][k] \in Range(handled[d])
        BY <4>1 DEF Range
      <4> QED
        BY <4>1, <4>2
    <3>3. CASE k = Len(done)
      BY <1>4, <3>3
    <3> QED
      BY <3>1, <3>2, <3>3
  <2> DEFINE old == Range(handled[d])
  <2>5. Range(done) = {done[k] : k \in DOMAIN done}
    BY DEF Range
  <2> HIDE DEF old
  <2>6. Range(done) \subseteq old \cup {request}
    BY <2>4, <2>5 DEF old
  <2> QED
    BY <2>3, <2>6 DEF old
<1>6. Promise!Execute(request)
  <2>1. Promise!Reachable(request)
    BY DEF Promise!Reachable
  <2>2. ~Promise!Executed(request)
    BY DEF Promise!Executed, Range
  <2>3. UNCHANGED IF pstate \in {"sendData", "receiveData"} THEN {request} ELSE {}
    BY DEF proxyVars
  <2>4. UNCHANGED Stuck
    BY DEF Stuck
  <2> QED
    BY <1>2, <2>1, <2>2, <2>3, <2>4 DEF Promise!Execute, proxyVars
<1>7. raw_http_request'[d] = <<>>
  BY DEF Handle, TypeInv, TypeOK, DeviceTypeOK
<1> QED
  BY <1>2, <1>3, <1>5, <1>6, <1>7 DEF Promise!Next, Serving

LEMMA TooLongTaken ==
    ASSUME Reliable, TypeInv, SessionInv, NEW d \in Devices, d = request.device,
           InFlight(d), Expects(d, i), d \notin Absent, RunTooLong(d),
           toDevice[d] = <<Chunk(request, current_session_id, i)>>,
           request.size <= MaxCount, UNCHANGED proxyVars
    PROVE  /\ Acknowledged(d)' /\ Promise!Next
           /\ \A r \in Range(handled'[d]) : r \in Range(handled[d]) \/ r = request
<1>1. Counter(d, Incoming(d)) = 1 /\ DeviceReceives(d) /\ pstate = "sendData"
  BY DEF RunTooLong, DeviceReceives, InFlight
<1>2. /\ Serving /\ toProxy = <<>> /\ request \notin Range(handled[d])
      /\ i + 1 = request.size
      /\ Incoming(d).session = current_session_id
      /\ ParseOutcomes(raw_http_request[d] \o Incoming(d).data) = {request}
      /\ toDevice'[d] = <<>>
  BY <1>1, LastTaken
<1>3. /\ request.ok /\ Handle(d, request)
      /\ \E n \in ResponseSizes : n > MaxCount
      /\ Reset(d) /\ UNCHANGED <<dstate, sending>>
      /\ Send(request.device, "ACK", 1, current_session_id, <<>>)
      /\ dstate[d] = "run"
  BY <1>1, <1>2 DEF RunTooLong, TakeFragment
<1>4. toProxy' = <<AckOf(1)>>'
  BY <1>2, <1>3, AckArrives
<1>5. ~Stuck /\ ~Stuck'
  BY <1>1 DEF Stuck, proxyVars
<1>6. /\ Promise!Next /\ request \in Range(handled'[d])
      /\ \A r \in Range(handled'[d]) : r \in Range(handled[d]) \/ r = request
  BY <1>2, <1>3, <1>5, HandledOnce
<1>7. Mute(d)'
  BY <1>3, <1>6 DEF Reset, Mute, Clean, TypeInv, TypeOK, DeviceTypeOK, proxyVars
<1> QED
  BY <1>1, <1>2, <1>4, <1>6, <1>7 DEF Acknowledged, proxyVars

Found(d, r, n) ==
    [req |-> r, trigger |-> Last(raw_http_request[d] \o Incoming(d).data).req, size |-> n]

LEMMA RespondStep ==
    ASSUME NEW d, RunRespond(d)
    PROVE  \E r \in ParseOutcomes(raw_http_request[d] \o Incoming(d).data),
              n \in ResponseSizes :
              /\ r.ok /\ n <= MaxCount /\ Handle(d, r)
              /\ sending' = [sending EXCEPT ![d] =
                               [NotSending EXCEPT !.resp = Found(d, r, n)]]
              /\ \E ack \in DevicePackets(d, "ACK", 1, Incoming(d).session, <<>>),
                    first \in DevicePackets(d, "DATA", n, Incoming(d).session,
                                            Fragment(Found(d, r, n), n)) :
                    toProxy' = PutSent(PutSent(toProxy, ack), first)
BY Zenon DEF RunRespond, Found

LEMMA RespondTaken ==
    ASSUME Reliable, TypeInv, SessionInv, NEW d \in Devices, d = request.device,
           InFlight(d), Expects(d, i), d \notin Absent, RunRespond(d),
           toDevice[d] = <<Chunk(request, current_session_id, i)>>,
           request.size <= MaxCount, UNCHANGED proxyVars
    PROVE  /\ Acknowledged(d)' /\ Promise!Next
           /\ \A r \in Range(handled'[d]) : r \in Range(handled[d]) \/ r = request
<1>1. Counter(d, Incoming(d)) = 1 /\ DeviceReceives(d) /\ pstate = "sendData"
  BY DEF RunRespond, DeviceReceives, InFlight
<1> DEFINE raw == raw_http_request[d] \o Incoming(d).data
           resp(n) == [req |-> request, trigger |-> request, size |-> n]
<1>2. /\ Serving /\ toProxy = <<>> /\ request \notin Range(handled[d])
      /\ i + 1 = request.size
      /\ Incoming(d).session = current_session_id
      /\ ParseOutcomes(raw) = {request} /\ Last(raw).req = request
      /\ toDevice'[d] = <<>>
  BY <1>1, LastTaken
<1> HIDE DEF raw
<1>3. PICK n \in ResponseSizes :
         /\ request.ok /\ n <= MaxCount /\ Handle(d, request)
         /\ sending' = [sending EXCEPT ![d] = [NotSending EXCEPT !.resp = resp(n)]]
         /\ \E ack \in DevicePackets(d, "ACK", 1, current_session_id, <<>>),
               first \in DevicePackets(d, "DATA", n, current_session_id,
                                       Fragment(resp(n), n)) :
               toProxy' = PutSent(PutSent(toProxy, ack), first)
  <2>1. PICK r \in ParseOutcomes(raw), n \in ResponseSizes :
           /\ r.ok /\ n <= MaxCount /\ Handle(d, r)
           /\ sending' = [sending EXCEPT ![d] =
                            [NotSending EXCEPT !.resp = Found(d, r, n)]]
           /\ \E ack \in DevicePackets(d, "ACK", 1, Incoming(d).session, <<>>),
                 first \in DevicePackets(d, "DATA", n, Incoming(d).session,
                                         Fragment(Found(d, r, n), n)) :
                 toProxy' = PutSent(PutSent(toProxy, ack), first)
    BY RespondStep DEF raw
  <2>2. r = request /\ Found(d, r, n) = resp(n)
    BY <1>2, <2>1 DEF Found, raw
  <2> HIDE DEF resp
  <2>3. request.ok /\ n <= MaxCount /\ Handle(d, request)
    BY <2>1, <2>2
  <2>4. sending' = [sending EXCEPT ![d] = [NotSending EXCEPT !.resp = resp(n)]]
    BY <2>1, <2>2
  <2>5. \E ack \in DevicePackets(d, "ACK", 1, current_session_id, <<>>),
           first \in DevicePackets(d, "DATA", n, current_session_id,
                                   Fragment(resp(n), n)) :
           toProxy' = PutSent(PutSent(toProxy, ack), first)
    BY <1>2, <2>1, <2>2
  <2> QED
    BY <2>3, <2>4, <2>5
<1>4. /\ dstate'[d] = "sendData" /\ session_id'[d] = current_session_id
      /\ sending'[d].resp = resp(n) /\ sending'[d].i = 0
  <2>1. /\ dstate' = [dstate EXCEPT ![d] = "sendData"]
        /\ session_id' = [session_id EXCEPT ![d] = current_session_id]
    BY <1>2 DEF RunRespond
  <2> QED
    BY <1>3, <2>1 DEF TypeInv, TypeOK, DeviceTypeOK, NotSending
<1>5. toProxy' = <<AckOf(1), DataOf(resp(n), n)>>
  <2>1. toProxy' = PutSent(PutSent(<<>>, <<AckOf(1)>>), <<DataOf(resp(n), n)>>)
    BY <1>2, <1>3, ServedSends DEF AckOf, DataOf
  <2> QED
    BY <2>1, ShortPuts
<1>6. ~Stuck /\ ~Stuck'
  BY <1>1 DEF Stuck, proxyVars
<1>7. /\ Promise!Next /\ request \in Range(handled'[d])
      /\ \A r \in Range(handled'[d]) : r \in Range(handled[d]) \/ r = request
      /\ raw_http_request'[d] = <<>>
  BY <1>2, <1>3, <1>6, HandledOnce
<1>8. Responds(d)'
  BY <1>3, <1>4, <1>7 DEF Responds, proxyVars
<1>9. toProxy' = <<AckOf(1), DataOf(sending[d].resp, sending[d].resp.size)>>'
  BY <1>4, <1>5 DEF AckOf, DataOf, Fragment, proxyVars
<1> QED
  BY <1>1, <1>2, <1>4, <1>7, <1>8, <1>9 DEF Acknowledged, proxyVars

(* The device goes on with its response.                                   *)
LEMMA NextSent ==
    ASSUME Reliable, TypeInv, SessionInv, NEW d \in Devices, d = request.device,
           Collecting(d), DeviceReceives(d), UNCHANGED proxyVars
    PROVE  Collecting(d)' /\ UNCHANGED handled /\ ~Stuck /\ ~Stuck'
<1>1. HasPacket(d)
  BY DeviceFrame
<1>2. /\ pstate = "receiveData" /\ ~rcvtimeo /\ Responds(d)
      /\ request \in Range(handled[d])
      /\ toProxy = <<>> /\ sending[d].i + 1 < sending[d].resp.size
      /\ Len(toDevice[d]) = 1 /\ toDevice[d][1].type = "ACK"
      /\ raw_http_response = ResponsePart(sending[d].resp, sending[d].i + 1)
  BY <1>1 DEF Collecting, HasPacket
<1>3. PICK p : toDevice[d] = <<p>>
  <2>1. toDevice[d] \in Seq(SoundPacket)
    BY DEF TypeInv
  <2> QED
    BY <1>2, <2>1, QueueOfOne
<1>4. Incoming(d).type = "ACK" /\ Tail(toDevice[d]) = <<>>
  BY <1>2, <1>3, ShortQueues DEF Incoming
<1>5. dstate[d] = "sendData" /\ session_id[d] = current_session_id
  BY <1>2 DEF Responds
<1>6. SendDataNext(d)
  <2>1. ~(sending[d].i + 1 >= sending[d].resp.size)
    BY <1>2 DEF TypeInv, TypeOK, DeviceTypeOK, Response
  <2> QED
    BY <1>4, <1>5, <2>1
       DEF DeviceReceives, RunWrongCount, RunWrongSession, RunWrongType,
           RunFragment, RunUnparsed, RunTooLong, RunRespond, TakeFragment,
           SendDataDone, SendDataError, SendDataAgain
<1>7. PICK k \in Nat, resp \in Response : k = sending[d].i + 1 /\ resp = sending[d].resp
  <2>1. sending[d].i + 1 \in Nat /\ sending[d].resp \in Response
    BY DEF TypeInv, TypeOK, DeviceTypeOK
  <2> QED
    BY <2>1
<1>8. /\ sending'[d].i = k /\ sending'[d].resp = resp
      /\ toDevice'[d] = <<>>
      /\ UNCHANGED <<dstate, session_id, raw_http_request, handled>>
  BY <1>4, <1>6, <1>7 DEF SendDataNext, Consume, TypeInv, TypeOK, DeviceTypeOK, NetworkTypeOK
<1>9. toProxy' = <<DataOf(resp, resp.size - k)>>
  <2>1. Send(d, "DATA", resp.size - k, current_session_id, Fragment(resp, resp.size - k))
    BY <1>5, <1>6, <1>7 DEF SendDataNext, SendFragment
  <2>2. Serving
    BY <1>2 DEF Serving
  <2>3. toProxy' = PutSent(<<>>, <<DataOf(resp, resp.size - k)>>)
    BY <1>2, <2>1, <2>2, ServedSends DEF Send, DataOf
  <2> QED
    BY <2>3, ShortPuts
<1>10. toProxy' = <<DataOf(sending[d].resp, sending[d].resp.size - sending[d].i)>>'
  BY <1>8, <1>9 DEF DataOf, Fragment, proxyVars
<1>11. raw_http_response' = ResponsePart(sending[d].resp, sending[d].i)'
  BY <1>2, <1>7, <1>8 DEF ResponsePart, proxyVars
<1>12. Responds(d)'
  BY <1>2, <1>7, <1>8 DEF Responds, proxyVars
<1>13. ~Stuck /\ ~Stuck'
  <2>1. toDevice[d] # <<>> /\ toProxy' # <<>>
    BY <1>3, <1>9, ShortQueues
  <2> QED
    BY <2>1 DEF Stuck
<1> QED
  BY <1>2, <1>8, <1>10, <1>11, <1>12, <1>13 DEF Collecting, proxyVars

(* The device has the ACK that ended its response before the new request.  *)
LEMMA ChunkIsNext ==
    ASSUME Reliable, TypeInv, SessionInv, NEW d \in Devices, d = request.device,
           pstate = "sendData", toProxy = <<>>, request \notin Range(handled[d]),
           i = 0, Finishing(d), Len(toDevice[d]) = 2,
           toDevice[d][2] = Chunk(request, current_session_id, 0),
           DeviceReceives(d), UNCHANGED proxyVars
    PROVE  InFlight(d)' /\ UNCHANGED handled
<1>1. PICK p : toDevice[d] = <<p, Chunk(request, current_session_id, 0)>>
  <2>1. toDevice[d] \in Seq(SoundPacket)
    BY DEF TypeInv
  <2> QED
    BY <2>1, QueueOfTwo
<1>2. Tail(toDevice[d]) = <<Chunk(request, current_session_id, 0)>>
  BY <1>1, ShortQueues
<1>3. /\ Clean(d)' /\ raw_http_request'[d] = <<>>
      /\ toDevice'[d] = <<Chunk(request, current_session_id, 0)>>
      /\ UNCHANGED <<toProxy, handled>>
  BY <1>2, FinishingReads
<1>4. RequestPart(request, 0) = <<>>
  BY RequestGrows DEF TypeInv, TypeOK, ProxyTypeOK
<1>5. Expects(d, i)'
  BY <1>3, <1>4 DEF Expects, proxyVars, RequestPart
<1>6. toDevice'[d] = <<Chunk(request, current_session_id, i)>>'
  BY <1>3 DEF Chunk, Packet, proxyVars
<1> QED
  BY <1>3, <1>5, <1>6 DEF InFlight, proxyVars

LEMMA InFlightDevice ==
    ASSUME Reliable, TypeInv, SessionInv, NEW d \in Devices, d = request.device,
           InFlight(d), request.size <= MaxCount, DeviceNext(d)
    PROVE  /\ InFlight(d)' \/ Acknowledged(d)'
           /\ UNCHANGED handled \/ Promise!Next
           /\ \A r \in Range(handled'[d]) : r \in Range(handled[d]) \/ r = request
<1>1. DeviceReceives(d) /\ d \notin Absent /\ UNCHANGED proxyVars
      /\ pstate = "sendData"
  BY DEF DeviceNext, InFlight
<1>2. CASE /\ Expects(d, i)
           /\ toDevice[d] = <<Chunk(request, current_session_id, i)>>
  <2>1. RunFragment(d) \/ RunUnparsed(d) \/ RunTooLong(d) \/ RunRespond(d)
    BY <1>1, <1>2, TakesChunk
  <2>2. CASE RunFragment(d)
    BY <1>1, <1>2, <2>2, FragmentTaken
  <2>3. CASE RunUnparsed(d)
    BY <1>1, <1>2, <2>3, UnparsedTaken
  <2>4. CASE RunTooLong(d)
    BY <1>1, <1>2, <2>4, TooLongTaken
  <2>5. CASE RunRespond(d)
    BY <1>1, <1>2, <2>5, RespondTaken
  <2> QED
    BY <2>1, <2>2, <2>3, <2>4, <2>5
<1>3. CASE /\ i = 0 /\ Finishing(d) /\ Len(toDevice[d]) = 2
           /\ toDevice[d][2] = Chunk(request, current_session_id, 0)
  <2>1. InFlight(d)' /\ UNCHANGED handled
    BY <1>1, <1>3, ChunkIsNext DEF InFlight
  <2> QED
    BY <2>1
<1> QED
  BY <1>1, <1>2, <1>3 DEF InFlight

(* A step of a device keeps the invariant and the promise.                 *)
LEMMA ReliableDevice ==
    ASSUME Reliable, TypeInv, SessionInv, ReliableInv, NEW d \in Devices,
           DeviceNext(d)
    PROVE  ReliableInv' /\ PromiseKept
<1>1. DeviceReceives(d) /\ UNCHANGED proxyVars
  BY DEF DeviceNext
<1>2. OnlyDevice(d) /\ HasPacket(d)
  BY <1>1, DeviceFrame
<1>3. UNCHANGED <<request, pstate, rcvtimeo, answers>> /\ (Serving' <=> Serving)
  BY <1>1 DEF proxyVars, Serving
<1>4. Serving => request.device \in Devices
  BY DEF TypeInv, ForwardingInv, Serving
<1>5. CASE ~(Serving /\ d = request.device)
  <2>1. Idle(d)
    BY <1>5 DEF ReliableInv
  <2>2. Idle(d)' /\ UNCHANGED <<toProxy, handled>>
    BY <1>1, <2>1, IdleDevice
  <2>3. ReliableInv'
    BY <1>1, <1>2, <1>5, <2>2, DeviceKeeps
  <2>4. Stuck' <=> Stuck
    <3>1. CASE Serving
      <4>1. UNCHANGED toDevice[request.device]
        BY <1>2, <1>3, <1>4, <1>5, <3>1 DEF OnlyDevice, Local
      <4> QED
        BY <1>3, <2>2, <4>1 DEF Stuck
    <3>2. CASE ~Serving
      BY <1>3, <3>2 DEF Stuck, Serving
    <3> QED
      BY <3>1, <3>2
  <2> QED
    BY <1>3, <2>2, <2>3, <2>4, PromiseStutters DEF PromiseKept
<1>6. CASE Serving /\ d = request.device
  <2>1. ServedInv(d)
    BY <1>6 DEF ReliableInv
  <2>2. CASE Refusing(d)
    <3>1. Idle(d)' /\ toDevice'[d] = <<>> /\ UNCHANGED <<toProxy, handled>>
      BY <1>1, <2>2, IdleDevice DEF Refusing
    <3>2. Refusing(d)'
      BY <1>3, <2>2, <3>1 DEF Refusing
    <3>3. ServedInv(d)'
      BY <3>2 DEF ServedInv
    <3>4. ReliableInv'
      BY <1>1, <1>2, <1>6, <3>1, <3>3, DeviceKeeps
    <3>5. ~Stuck /\ ~Stuck'
      BY <1>3, <2>2 DEF Refusing, Stuck
    <3> QED
      BY <1>3, <3>1, <3>4, <3>5, PromiseStutters DEF PromiseKept
  <2>3. CASE InFlight(d) /\ request.size <= MaxCount
    <3>1. /\ InFlight(d)' \/ Acknowledged(d)'
          /\ UNCHANGED handled \/ Promise!Next
          /\ \A r \in Range(handled'[d]) : r \in Range(handled[d]) \/ r = request
      BY <1>6, <2>3, InFlightDevice
    <3>2. ServedInv(d)'
      BY <1>3, <2>3, <3>1 DEF ServedInv
    <3>3. ReliableInv'
      BY <1>1, <1>2, <1>6, <3>1, <3>2, DeviceKeeps
    <3>4. ~Stuck /\ ~Stuck'
      BY <1>3, <2>3 DEF InFlight, Stuck
    <3>5. UNCHANGED handled => UNCHANGED Promise!vars
      BY <1>3, <3>4, PromiseStutters
    <3> QED
      BY <3>1, <3>3, <3>5 DEF PromiseKept
  <2>4. CASE Collecting(d) /\ request.size <= MaxCount
    <3>1. Collecting(d)' /\ UNCHANGED handled /\ ~Stuck /\ ~Stuck'
      BY <1>1, <1>6, <2>4, NextSent
    <3>2. ServedInv(d)'
      BY <1>3, <2>4, <3>1 DEF ServedInv
    <3>3. ReliableInv'
      BY <1>1, <1>2, <1>6, <3>1, <3>2, DeviceKeeps
    <3> QED
      BY <1>3, <3>1, <3>3, PromiseStutters DEF PromiseKept
  <2>5. ~Acknowledged(d) /\ ~Silent(d)
    BY <1>2 DEF HasPacket, Acknowledged, Silent
  <2> QED
    BY <2>1, <2>2, <2>3, <2>4, <2>5 DEF ServedInv
<1> QED
  BY <1>5, <1>6

(* So does the host of an absent device.                                   *)
LEMMA ReliableDrop ==
    ASSUME Reliable, TypeInv, SessionInv, ReliableInv, NEW d \in Devices,
           DropForAbsent(d)
    PROVE  ReliableInv' /\ PromiseKept
<1>1. /\ d \in Absent /\ toDevice[d] # <<>>
      /\ UNCHANGED <<toProxy, proxyVars, deviceVars>>
  BY DEF DropForAbsent, HasPacket
<1>2. ~Idle(d)
  BY <1>1 DEF Idle, Finishing
<1>3. Serving /\ d = request.device /\ ServedInv(d)
  BY <1>2 DEF ReliableInv
<1>4. request.size <= MaxCount /\ InFlight(d)
  BY <1>1, <1>2, <1>3
     DEF ServedInv, Acknowledged, Collecting, Silent, Refusing, Responds
<1>5. Expects(d, i) /\ toDevice[d] = <<Chunk(request, current_session_id, i)>>
  BY <1>1, <1>4 DEF InFlight, Finishing
<1>6. i = 0
  BY <1>1, <1>5 DEF Expects, TypeInv, TypeOK, ProxyTypeOK
<1>7. toDevice' = [toDevice EXCEPT ![d] = <<>>]
  BY <1>5, ShortQueues DEF DropForAbsent, Consume
<1>8. OnlyDevice(d) /\ toDevice'[d] = <<>>
  BY <1>1, <1>7 DEF OnlyDevice, Local, deviceVars, TypeInv, TypeOK, NetworkTypeOK
<1>9. InFlight(d)'
  BY <1>1, <1>4, <1>5, <1>6, <1>8
     DEF InFlight, Expects, Clean, RequestPart, proxyVars, deviceVars
<1>10. ServedInv(d)'
  BY <1>1, <1>4, <1>9 DEF ServedInv, proxyVars
<1>11. ReliableInv'
  BY <1>1, <1>3, <1>8, <1>10, DeviceKeeps DEF deviceVars
<1>12. ~Stuck /\ ~Stuck'
  BY <1>1, <1>4 DEF InFlight, Stuck, proxyVars
<1> QED
  BY <1>1, <1>11, <1>12, PromiseStutters DEF PromiseKept, proxyVars, deviceVars, Serving

-----------------------------------------------------------------------------
(* Steps of the proxy.                                                     *)
(* A step of the proxy that serves d, before or after it.                  *)
LEMMA ProxyKeeps ==
    ASSUME ReliableInv, NEW d \in Devices, UNCHANGED deviceVars,
           \A e \in Devices : e # d => UNCHANGED toDevice[e],
           Serving => d = request.device,
           IF Serving' THEN d = request'.device /\ ServedInv(d)'
                       ELSE Idle(d)' /\ toProxy' = <<>>,
           NumberedInv'
    PROVE  ReliableInv'
<1>1. ASSUME NEW e \in Devices, e # d
      PROVE  Idle(e)'
  <2>1. Idle(e) /\ UNCHANGED toDevice[e]
    BY <1>1 DEF ReliableInv
  <2>2. UNCHANGED Local(e)
    BY <2>1 DEF Local, deviceVars
  <2> QED
    BY <2>1, <2>2, IdleFrame
<1> QED
  BY <1>1 DEF ReliableInv

(* A step of the proxy between requests.                                   *)
LEMMA ProxyIdles ==
    ASSUME ReliableInv, UNCHANGED <<network, deviceVars>>, ~Serving, ~Serving',
           NumberedInv'
    PROVE  ReliableInv'
<1>1. ASSUME NEW e \in Devices
      PROVE  Idle(e)'
  <2>1. Idle(e)
    BY DEF ReliableInv
  <2>2. UNCHANGED Local(e)
    BY DEF Local, deviceVars, network
  <2> QED
    BY <2>1, <2>2, IdleFrame
<1> QED
  BY <1>1 DEF ReliableInv, network

(* The numbers of requests, when none is taken or answered, when one is    *)
(* taken, and when one is answered.                                        *)
LEMMA NumberedKept ==
    ASSUME NumberedInv, UNCHANGED <<handled, answers, request>>, Serving' <=> Serving
    PROVE  NumberedInv'
BY DEF NumberedInv

LEMMA NumberedTaken ==
    ASSUME NumberedInv, UNCHANGED <<handled, answers>>, ~Serving,
           Serving' => request'.id = Len(answers) + 1
    PROVE  NumberedInv'
BY DEF NumberedInv

LEMMA NumberedAnswered ==
    ASSUME TypeInv, NumberedInv, UNCHANGED handled, NEW r, NEW status, NEW body,
           r \in Request, status \in Status, body \in Seq(ResponseFragment),
           answers' = Append(answers, [req |-> r, status |-> status, body |-> body]),
           ~Serving'
    PROVE  NumberedInv'
<1>1. answers \in Seq(Answer) /\ [req |-> r, status |-> status, body |-> body] \in Answer
  BY DEF TypeInv, TypeOK, ProxyTypeOK, Answer
<1>2. Len(answers') = Len(answers) + 1 /\ Len(answers) \in Nat
  BY <1>1, AppendProperties
<1>3. ASSUME NEW d \in Devices, NEW q \in Range(handled[d])
      PROVE  q.id <= Len(answers) + 1
  <2>1. q \in Request
    <3>1. handled[d] \in Seq(Request)
      BY DEF TypeInv, TypeOK, DeviceTypeOK
    <3> QED
      BY <3>1, ElementOfSeq DEF Range
  <2>2. q.id <= Len(answers) \/ (Serving /\ q = request)
    BY DEF NumberedInv
  <2>3. Serving => request.id = Len(answers) + 1
    BY DEF NumberedInv
  <2>4. q.id \in Nat
    BY <2>1 DEF Request
  <2> QED
    BY <1>2, <2>2, <2>3, <2>4
<1> QED
  BY <1>2, <1>3 DEF NumberedInv

(* No request of this number has been carried out before it is taken.      *)
LEMMA NewRequestNotHandled ==
    ASSUME TypeInv, NumberedInv, ~Serving, NEW d \in Devices, NEW r,
           r.id = Len(answers) + 1
    PROVE  r \notin Range(handled[d])
<1>1. Len(answers) \in Nat
  BY DEF TypeInv, TypeOK, ProxyTypeOK
<1> QED
  BY <1>1 DEF NumberedInv

(* A request for a device that is not configured.                          *)
LEMMA UnknownAnswered ==
    ASSUME TypeInv, ReliableInv, NEW kind \in RequestKinds, RequestUnknown(kind),
           UNCHANGED deviceVars
    PROVE  ReliableInv' /\ PromiseKept
<1>1. /\ ~Serving /\ ~Serving' /\ UNCHANGED <<network, deviceVars, handled>>
      /\ kind.device \notin Devices
      /\ answers' = Append(answers, [req |-> NextRequest(kind), status |-> "502",
                                     body |-> <<>>])
  BY DEF RequestUnknown, AnswerClient, Serving, deviceVars
<1>2. /\ NextRequest(kind) \in Request /\ "502" \in Status
      /\ <<>> \in Seq(ResponseFragment)
  BY NextRequestType DEF TypeInv, TypeOK, Status
<1>3. NumberedInv'
  BY <1>1, <1>2, NumberedAnswered DEF ReliableInv
<1>4. ReliableInv'
  BY <1>1, <1>3, ProxyIdles
<1>5. Promise!AskUnknown(kind)
  <2>1. Promise!NewRequest(kind) = NextRequest(kind)
    BY DEF Promise!NewRequest, NextRequest
  <2>2. ~Stuck /\ ~Stuck'
    BY <1>1 DEF Stuck, Serving
  <2>3. UNCHANGED Stuck
    BY <2>2 DEF Stuck
  <2> QED
    BY <1>1, <2>1, <2>3 DEF Promise!AskUnknown, Promise!Answer, Serving
<1>6. ~Stuck
  BY <1>1 DEF Stuck, Serving
<1> QED
  BY <1>4, <1>5, <1>6 DEF PromiseKept, Promise!Next

(* The client's request is taken.                                          *)
LEMMA Asked ==
    ASSUME NEW kind \in RequestKinds, StartSession(kind), ~Stuck, ~Stuck', Serving',
           UNCHANGED <<handled, answers>>
    PROVE  Promise!Next
<1>1. pstate = "client" /\ kind.device \in Devices /\ request' = NextRequest(kind)
  BY DEF StartSession
<1>2. Promise!NewRequest(kind) = NextRequest(kind)
  BY DEF Promise!NewRequest, NextRequest
<1>3. UNCHANGED Stuck
  BY DEF Stuck
<1>4. Promise!Ask(kind)
  BY <1>1, <1>2, <1>3 DEF Promise!Ask, Serving
<1> QED
  BY <1>4 DEF Promise!Next

LEMMA ForwardStarts ==
    ASSUME Reliable, TypeInv, ReliableInv, NEW kind \in RequestKinds,
           RequestForward(kind), UNCHANGED deviceVars
    PROVE  ReliableInv' /\ PromiseKept
<1>0. PICK d, r, chunk :
         /\ d = kind.device /\ r = NextRequest(kind)
         /\ chunk = Chunk(r, current_session_id', 0)
  OBVIOUS
<1>1. /\ ~Serving /\ Serving' /\ pstate' = "sendData" /\ d \in Devices
      /\ request' = r /\ r.device = d /\ r.size = kind.size /\ kind.size <= MaxCount
      /\ r.id = Len(answers) + 1
      /\ UNCHANGED <<toProxy, i, answers>>
      /\ toDevice' = [toDevice EXCEPT ![d] = Put(@, chunk)]
  BY <1>0 DEF RequestForward, StartSession, Serving, NextRequest
<1>2. i = 0 /\ r \in Request
  <2>1. pstate = "client" /\ r \in Request
    BY <1>0, NextRequestType DEF RequestForward, StartSession, TypeInv, TypeOK
  <2> QED
    BY <2>1 DEF TypeInv, ForwardingInv
<1>3. toProxy = <<>> /\ Idle(d) /\ r \notin Range(handled[d])
  BY <1>1, NewRequestNotHandled DEF ReliableInv
<1>4. toDevice'[d] = Put(toDevice[d], chunk)
      /\ \A e \in Devices : e # d => UNCHANGED toDevice[e]
  BY <1>1 DEF TypeInv, TypeOK, NetworkTypeOK
<1>5. UNCHANGED <<dstate, session_id, packet_counter, raw_http_request, sending,
                  accepted, handled>>
  BY DEF deviceVars
<1>6. ASSUME Clean(d), raw_http_request[d] = <<>>, toDevice[d] = <<>>
      PROVE  InFlight(d)'
  <2>1. toDevice'[d] = <<chunk>>
    BY <1>4, <1>6, ShortPuts
  <2>2. RequestPart(r, 0) = <<>>
    BY <1>2, RequestGrows
  <2>3. Expects(d, i)'
    BY <1>1, <1>2, <1>5, <1>6, <2>2 DEF Expects, Clean, RequestPart
  <2>4. toDevice'[d] = <<Chunk(request, current_session_id, i)>>'
    BY <1>0, <1>1, <1>2, <2>1 DEF Chunk, Packet
  <2> QED
    BY <1>1, <1>3, <1>5, <2>3, <2>4 DEF InFlight
<1>7. ASSUME Finishing(d), Len(toDevice[d]) = 1
      PROVE  InFlight(d)'
  <2>1. PICK p : toDevice[d] = <<p>>
    <3>1. toDevice[d] \in Seq(SoundPacket)
      BY <1>1 DEF TypeInv
    <3> QED
      BY <1>7, <3>1, QueueOfOne
  <2>2. toDevice'[d] = <<p, chunk>>
    BY <1>4, <2>1, ShortPuts
  <2>3. p.type = "ACK"
    BY <1>7, <2>1 DEF Finishing
  <2>4. /\ Len(toDevice'[d]) = 2 /\ toDevice'[d][2] = chunk /\ toDevice'[d] # <<>>
        /\ toDevice'[d][1].type = "ACK"
    BY <2>2, <2>3, ShortQueues
  <2>5. Finishing(d)'
    BY <1>5, <1>7, <2>4 DEF Finishing
  <2>6. toDevice'[d][2] = Chunk(request, current_session_id, 0)'
    BY <1>0, <1>1, <2>4 DEF Chunk, Packet
  <2> QED
    BY <1>1, <1>2, <1>3, <1>5, <2>4, <2>5, <2>6 DEF InFlight
<1>8. InFlight(d)'
  BY <1>3, <1>6, <1>7 DEF Idle
<1>9. NumberedInv'
  BY <1>1, <1>5, NumberedTaken DEF ReliableInv
<1>10. ServedInv(d)'
  BY <1>1, <1>8 DEF ServedInv
<1>11. ReliableInv'
  BY <1>1, <1>4, <1>9, <1>10, ProxyKeeps
<1>12. ~Stuck /\ ~Stuck'
  BY <1>1 DEF Stuck, Serving
<1>13. StartSession(kind)
  BY DEF RequestForward
<1> QED
  BY <1>0, <1>1, <1>5, <1>11, <1>12, <1>13, Asked DEF PromiseKept

LEMMA TooLongStarts ==
    ASSUME TypeInv, ReliableInv, NEW kind \in RequestKinds,
           RequestTooLong(kind), UNCHANGED deviceVars
    PROVE  ReliableInv' /\ PromiseKept
<1> DEFINE d == kind.device
           r == NextRequest(kind)
<1>1. /\ ~Serving /\ Serving' /\ pstate' = "receiveData" /\ d \in Devices
      /\ request' = r /\ r.device = d /\ r.size = kind.size /\ kind.size > MaxCount
      /\ r.id = Len(answers) + 1 /\ rcvtimeo' = TRUE
      /\ UNCHANGED <<network, answers>> /\ StartSession(kind)
  BY DEF RequestTooLong, StartSession, Serving, NextRequest
<1>2. toProxy = <<>> /\ Idle(d)
  BY <1>1 DEF ReliableInv
<1>3. UNCHANGED Local(d) /\ UNCHANGED handled
  BY <1>1 DEF Local, deviceVars, network
<1>4. Idle(d)'
  BY <1>2, <1>3, IdleFrame
<1>5. Refusing(d)'
  BY <1>1, <1>2, <1>4 DEF Refusing, network
<1>6. ServedInv(d)'
  BY <1>5 DEF ServedInv
<1>7. NumberedInv'
  BY <1>1, <1>3, NumberedTaken DEF ReliableInv
<1>8. ReliableInv'
  BY <1>1, <1>6, <1>7, ProxyKeeps DEF network
<1>9. ~Stuck /\ ~Stuck'
  BY <1>1 DEF Stuck, Serving
<1> QED
  BY <1>1, <1>3, <1>8, <1>9, Asked DEF PromiseKept

(* The ACK that has come is the one of the chunk on its way.               *)
LEMMA AckedReply ==
    ASSUME TypeInv, pstate = "sendData", ProxyReceives,
           Reply = AckOf(request.size - i)
    PROVE  AckNext \/ AckLast
<1>1. Reply.type = "ACK" /\ SessionMatches /\ CountMatches
  BY DEF AckOf, SessionMatches, CountMatches
<1> QED
  BY <1>1 DEF ProxyReceives, AckWrongCount, AckWrongSession, SendDataWrongType,
              ResponseWrongSession, ResponseMore, ResponseLast, ReceiveDataReceives

LEMMA AckedStep ==
    ASSUME Reliable, TypeInv, SessionInv, ReliableInv, NEW d \in Devices,
           Serving, d = request.device, Acknowledged(d), request.size <= MaxCount,
           ProxyReceives, UNCHANGED deviceVars
    PROVE  ReliableInv' /\ PromiseKept
<1>1. /\ pstate = "sendData" /\ toDevice[d] = <<>> /\ ~Stuck
      /\ UNCHANGED <<dstate, session_id, packet_counter, raw_http_request, sending,
                     accepted, handled>>
  BY DEF Acknowledged, Stuck, deviceVars
<1>2. request \in Request /\ request.size \in Nat /\ i \in Nat /\ i < request.size
  BY <1>1, ServedTypes
<1>3. i + 1 = request.size => AckOf(1) = AckOf(request.size - i)
  <2>1. i + 1 = request.size => request.size - i = 1
    BY <1>2
  <2> QED
    BY <2>1
<1>4. toProxy # <<>> /\ Reply = AckOf(request.size - i)
  BY <1>3, ShortQueues DEF Acknowledged, Reply
<1>5. /\ AckNext \/ AckLast
      /\ toProxy' = Tail(toProxy) /\ UNCHANGED <<current_session_id, request, answers>>
      /\ i' = i + 1
  BY <1>1, <1>4, AckedReply DEF AckNext, AckLast, SendDataReceives
<1>6. AckLast =>
         /\ UNCHANGED toDevice /\ pstate' = "receiveData" /\ rcvtimeo' = FALSE
         /\ raw_http_response' = <<>> /\ i + 1 = request.size
  BY <1>2 DEF AckLast
<1>7. CASE /\ i + 1 < request.size /\ Expects(d, i + 1)
           /\ request \notin Range(handled[d])
           /\ toProxy = <<AckOf(request.size - i)>>
  <2>1. AckNext
    BY <1>2, <1>5, <1>6, <1>7
  <2>2. /\ toDevice' = [toDevice EXCEPT ![d] =
                          Put(@, Chunk(request, current_session_id, i + 1))]
        /\ UNCHANGED pstate
    BY <2>1 DEF AckNext, SendToDevice
  <2>3. toProxy' = <<>>
    BY <1>5, <1>7, ShortQueues
  <2>4. toDevice'[d] = <<Chunk(request, current_session_id, i + 1)>>
        /\ \A e \in Devices : e # d => UNCHANGED toDevice[e]
    BY <1>1, <2>2, ShortPuts DEF TypeInv, TypeOK, NetworkTypeOK
  <2>5. toDevice'[d] = <<Chunk(request, current_session_id, i)>>'
    BY <1>5, <2>4 DEF Chunk, Packet
  <2>6. Expects(d, i)'
    BY <1>1, <1>5, <1>7 DEF Expects, Clean, RequestPart
  <2>7. InFlight(d)'
    BY <1>1, <1>5, <1>7, <2>2, <2>3, <2>5, <2>6 DEF InFlight
  <2>8. Serving' /\ ~Stuck'
    BY <1>1, <2>2 DEF Serving, Stuck
  <2>9. NumberedInv'
    BY <1>1, <1>5, <2>8, NumberedKept DEF ReliableInv
  <2>10. ServedInv(d)'
    BY <1>5, <2>7 DEF ServedInv
  <2>11. ReliableInv'
    BY <1>5, <2>4, <2>8, <2>9, <2>10, ProxyKeeps
  <2> QED
    BY <1>1, <1>5, <2>8, <2>11, PromiseStutters DEF PromiseKept
<1>8. CASE /\ i + 1 = request.size /\ Mute(d)
           /\ toProxy = <<AckOf(1)>>
  <2>1. AckLast
    BY <1>2, <1>5, <1>8 DEF AckNext
  <2>2. toProxy' = <<>>
    BY <1>5, <1>8, ShortQueues
  <2>3. Mute(d)'
    BY <1>1, <1>5, <1>8 DEF Mute, Clean
  <2>4. Silent(d)'
    BY <1>1, <1>6, <2>1, <2>2, <2>3 DEF Silent
  <2>5. Serving' /\ Stuck'
    BY <1>1, <1>5, <1>6, <2>1, <2>2 DEF Serving, Stuck
  <2>6. NumberedInv'
    BY <1>1, <1>5, <2>5, NumberedKept DEF ReliableInv
  <2>7. ServedInv(d)'
    BY <1>5, <2>4 DEF ServedInv
  <2>8. ReliableInv'
    BY <1>5, <1>6, <2>1, <2>5, <2>6, <2>7, ProxyKeeps
  <2>9. Promise!FallSilent(request)
    <3>1. Promise!Reachable(request)
      BY <1>8 DEF Promise!Reachable, Mute
    <3>2. ~request.ok \/ (/\ Promise!Executed(request)
                          /\ \E n \in ResponseSizes : n > MaxCount)
      BY <1>8 DEF Promise!Executed, Mute, Range
    <3>3. UNCHANGED IF pstate \in {"sendData", "receiveData"} THEN {request} ELSE {}
      BY <1>5, <2>5 DEF Serving
    <3>4. Stuck' = TRUE
      BY <2>5
    <3> QED
      BY <1>1, <1>5, <3>1, <3>2, <3>3, <3>4 DEF Promise!FallSilent
  <2> QED
    BY <1>1, <2>8, <2>9 DEF PromiseKept, Promise!Next, Serving
<1>9. CASE /\ i + 1 = request.size /\ Responds(d)
           /\ sending[d].i = 0 /\ request \in Range(handled[d])
           /\ toProxy = <<AckOf(1), DataOf(sending[d].resp, sending[d].resp.size)>>
  <2>1. AckLast
    BY <1>2, <1>5, <1>9 DEF AckNext
  <2>2. PICK resp \in Response : resp = sending[d].resp
    BY DEF TypeInv, TypeOK, DeviceTypeOK
  <2>3. toProxy' = <<DataOf(resp, resp.size)>>
    BY <1>5, <1>9, <2>2, ShortQueues
  <2>4. toProxy' = <<DataOf(sending[d].resp, sending[d].resp.size - sending[d].i)>>'
    <3>1. resp.size - 0 = resp.size
      BY DEF Response
    <3> QED
      BY <1>1, <1>5, <1>9, <2>2, <2>3, <3>1 DEF DataOf, Fragment
  <2>5. raw_http_response' = ResponsePart(sending[d].resp, sending[d].i)'
    <3>1. ResponsePart(resp, 0) = <<>>
      BY ResponseGrows
    <3> QED
      BY <1>1, <1>6, <1>9, <2>1, <2>2, <3>1 DEF ResponsePart
  <2>6. Responds(d)'
    BY <1>1, <1>5, <1>9 DEF Responds
  <2>7. Collecting(d)'
    BY <1>1, <1>5, <1>6, <1>9, <2>1, <2>4, <2>5, <2>6 DEF Collecting
  <2>8. toProxy' # <<>>
    BY <2>3, ShortQueues
  <2>9. Serving' /\ ~Stuck'
    BY <1>6, <2>1, <2>8 DEF Serving, Stuck
  <2>10. NumberedInv'
    BY <1>1, <1>5, <2>9, NumberedKept DEF ReliableInv
  <2>11. ServedInv(d)'
    BY <1>5, <2>7 DEF ServedInv
  <2>12. ReliableInv'
    BY <1>5, <1>6, <2>1, <2>9, <2>10, <2>11, ProxyKeeps
  <2> QED
    BY <1>1, <1>5, <2>9, <2>12, PromiseStutters DEF PromiseKept
<1> QED
  BY <1>7, <1>8, <1>9 DEF Acknowledged

(* The request is answered with an error: the device is absent, or there   *)
(* are too many chunks.                                                    *)
LEMMA Refused ==
    ASSUME TypeInv, ReliableInv, NEW d \in Devices,
           Serving, d = request.device, d \in Absent \/ request.size > MaxCount,
           Idle(d), toProxy = <<>>, ~Stuck,
           Throw(IF request.size > MaxCount THEN "500" ELSE "503"),
           UNCHANGED <<network, deviceVars, request>>
    PROVE  ReliableInv' /\ PromiseKept
<1>1. PICK status \in Status : status = IF request.size > MaxCount THEN "500" ELSE "503"
  BY DEF Status
<1>2. /\ pstate' = "client" /\ ~Serving' /\ ~Stuck' /\ UNCHANGED handled
      /\ answers' = Append(answers, [req |-> request, status |-> status, body |-> <<>>])
  BY <1>1 DEF Throw, AnswerClient, Serving, Stuck, deviceVars
<1>3. PICK r \in Request : r = request
  BY DEF TypeInv, TypeOK, ProxyTypeOK
<1>4. NumberedInv'
  <2>1. <<>> \in Seq(ResponseFragment)
    OBVIOUS
  <2> QED
    BY <1>2, <1>3, <2>1, NumberedAnswered DEF ReliableInv
<1>5. Idle(d)' /\ toProxy' = <<>>
  <2>1. UNCHANGED Local(d)
    BY DEF Local, network, deviceVars
  <2> QED
    BY <2>1, IdleFrame DEF network
<1>6. ReliableInv'
  BY <1>2, <1>4, <1>5, ProxyKeeps DEF network
<1>7. Promise!Refuse(request)
  <2>1. ~Promise!Reachable(request)
    BY AAAAssumption DEF Promise!Reachable, TypeInv, TypeOK, ProxyTypeOK, Request
  <2>2. UNCHANGED Stuck
    BY <1>2 DEF Stuck
  <2> QED
    BY <1>1, <1>2, <2>1, <2>2 DEF Promise!Refuse, Promise!Answer, Serving
<1> QED
  BY <1>6, <1>7 DEF PromiseKept, Promise!Next, Serving

LEMMA ResentToAbsent ==
    ASSUME Reliable, TypeInv, ReliableInv, NEW d \in Devices,
           d = request.device, InFlight(d), request.size <= MaxCount, Resend,
           d \in Absent, i = 0, Expects(d, 0), toDevice[d] = <<>>,
           UNCHANGED deviceVars
    PROVE  ReliableInv' /\ PromiseKept
<1>1. /\ pstate = "sendData" /\ toProxy = <<>> /\ Serving /\ ~Stuck
      /\ request \notin Range(handled[d])
  BY DEF InFlight, Serving, Stuck
<1>2. /\ toDevice' = [toDevice EXCEPT ![d] = Put(@, Chunk(request, current_session_id, i))]
      /\ UNCHANGED <<toProxy, current_session_id, request, pstate, i, answers>>
  BY DEF Resend, SendToDevice, SendDataTimesOut
<1>3. /\ toDevice'[d] = <<Chunk(request, current_session_id, i)>>
      /\ \A e \in Devices : e # d => UNCHANGED toDevice[e]
  BY <1>2, ShortPuts DEF TypeInv, TypeOK, NetworkTypeOK
<1>4. toDevice'[d] = <<Chunk(request, current_session_id, i)>>'
  BY <1>2, <1>3 DEF Chunk, Packet
<1>5. Expects(d, i)'
  BY <1>2 DEF Expects, Clean, RequestPart, deviceVars
<1>6. InFlight(d)'
  BY <1>1, <1>2, <1>4, <1>5 DEF InFlight, deviceVars
<1>7. ServedInv(d)'
  BY <1>2, <1>6 DEF ServedInv
<1>8. Serving' /\ ~Stuck' /\ UNCHANGED handled
  BY <1>1, <1>2 DEF Serving, Stuck, deviceVars
<1>9. NumberedInv'
  BY <1>1, <1>2, <1>8, NumberedKept DEF ReliableInv
<1>10. ReliableInv'
  BY <1>2, <1>3, <1>7, <1>8, <1>9, ProxyKeeps
<1> QED
  BY <1>1, <1>2, <1>8, <1>10, PromiseStutters DEF PromiseKept

LEMMA TimeoutStep ==
    ASSUME Reliable, TypeInv, SessionInv, ReliableInv, ProxyTimesOut,
           UNCHANGED deviceVars
    PROVE  ReliableInv' /\ PromiseKept
<1>1. PICK d \in Devices : d = request.device
  BY ServingInv DEF TypeInv, ForwardingInv
<1>2. Serving /\ rcvtimeo /\ toProxy = <<>> /\ toDevice[d] = <<>> /\ ~Stuck
  BY <1>1 DEF ProxyTimesOut, Resend, MaxRetransmissionsReached, ResponseTimesOut,
              SendDataTimesOut, TimeoutDue, HasReply, Reliable, Serving, Stuck
<1>3. ServedInv(d)
  BY <1>1, <1>2 DEF ReliableInv
<1>4. CASE Refusing(d)
  <2>1. request.size > MaxCount /\ Idle(d) /\ pstate = "receiveData"
    BY <1>4 DEF Refusing
  <2>2. Throw("500") /\ UNCHANGED <<network, request>>
    BY <2>1 DEF ProxyTimesOut, Resend, MaxRetransmissionsReached, ResponseTimesOut,
                SendDataTimesOut
  <2> QED
    BY <1>1, <1>2, <2>1, <2>2, Refused
<1>5. CASE InFlight(d) /\ request.size <= MaxCount
  <2>1. /\ pstate = "sendData" /\ d \in Absent /\ i = 0 /\ Expects(d, 0)
    BY <1>2, <1>5, ShortQueues DEF InFlight, Finishing
  <2>2. CASE Resend
    BY <1>1, <1>2, <1>5, <2>1, <2>2, ResentToAbsent
  <2>3. CASE MaxRetransmissionsReached
    <3>1. Throw("503") /\ UNCHANGED <<network, request>>
      BY <2>3 DEF MaxRetransmissionsReached, SendDataTimesOut, network
    <3>2. Idle(d)
      <4>1. RequestPart(request, 0) = <<>>
        BY RequestGrows DEF TypeInv, TypeOK, ProxyTypeOK
      <4> QED
        BY <1>2, <2>1, <4>1 DEF Expects, Idle
    <3>3. ~(request.size > MaxCount)
      BY <1>5, AAAAssumption DEF TypeInv, TypeOK, ProxyTypeOK, Request
    <3> QED
      BY <1>1, <1>2, <2>1, <3>1, <3>2, <3>3, Refused
  <2>4. ~ResponseTimesOut
    BY <2>1 DEF ResponseTimesOut
  <2> QED
    BY <2>2, <2>3, <2>4 DEF ProxyTimesOut
<1>6. ~Acknowledged(d) /\ ~Collecting(d) /\ ~Silent(d)
  BY <1>2, ShortQueues DEF Acknowledged, Collecting, Silent
<1> QED
  BY <1>3, <1>4, <1>5, <1>6 DEF ServedInv

(* The reply is the fragment that the device has just sent.                *)
LEMMA CollectedReply ==
    ASSUME TypeInv, NEW d \in Devices, d = request.device, Collecting(d), HasReply
    PROVE  LET resp == sending[d].resp
               k == sending[d].i
           IN  /\ toDevice[d] = <<>>
               /\ Tail(toProxy) = <<>>
               /\ Reply = DataOf(resp, resp.size - k)
               /\ raw_http_response = ResponsePart(resp, k)
               /\ ResponseSoFar = ResponsePart(resp, k + 1)
               /\ resp \in Response /\ resp.size \in Nat /\ k \in Nat /\ k < resp.size
<1> DEFINE resp == sending[d].resp
           k == sending[d].i
<1>1. /\ toDevice[d] = <<>> /\ toProxy = <<DataOf(resp, resp.size - k)>>
      /\ raw_http_response = ResponsePart(resp, k)
  BY DEF Collecting, HasReply
<1>2. Tail(toProxy) = <<>> /\ Reply = DataOf(resp, resp.size - k)
  BY <1>1, ShortQueues DEF Reply
<1>3. resp \in Response /\ resp.size \in Nat /\ k \in Nat /\ k < resp.size
  BY DEF Collecting, Responds, TypeInv, TypeOK, DeviceTypeOK, RespondingInv, Response
<1>4. Reply.type = "DATA" /\ Reply.data = Fragment(resp, resp.size - k)
  BY <1>2 DEF DataOf
<1>5. ResponseSoFar = ResponsePart(resp, k) \o Fragment(resp, resp.size - k)
  BY <1>1, <1>4 DEF ResponseSoFar
<1>6. ResponseSoFar = ResponsePart(resp, k + 1)
  BY <1>3, <1>5, ResponseGrows
<1> QED
  BY <1>1, <1>2, <1>3, <1>6

(* The proxy acknowledges it.                                              *)
LEMMA CollectedAcked ==
    ASSUME Reliable, TypeInv, NEW d \in Devices, d = request.device,
           toDevice[d] = <<>>, Reply.type = "DATA", AcknowledgeData
    PROVE  /\ Len(toDevice'[d]) = 1 /\ toDevice'[d] # <<>>
           /\ toDevice'[d][1].type = "ACK"
           /\ \A e \in Devices : e # d => UNCHANGED toDevice[e]
<1>1. PICK ack : ack = Packet("ACK", Reply.count, current_session_id, <<>>)
  OBVIOUS
<1>2. ack.type = "ACK"
  BY <1>1 DEF Packet
<1>3. toDevice' = [toDevice EXCEPT ![d] = Put(@, ack)]
  BY <1>1 DEF AcknowledgeData, SendToDevice
<1>4. toDevice'[d] = <<ack>> /\ \A e \in Devices : e # d => UNCHANGED toDevice[e]
  BY <1>3, ShortPuts DEF TypeInv, TypeOK, NetworkTypeOK
<1> QED
  BY <1>2, <1>4, ShortQueues

LEMMA CollectedMore ==
    ASSUME Reliable, TypeInv, SessionInv, ReliableInv, NEW d \in Devices,
           Serving, d = request.device, Collecting(d), request.size <= MaxCount,
           ResponseMore, UNCHANGED deviceVars
    PROVE  ReliableInv' /\ PromiseKept
<1>1. PICK resp \in Response, k \in Nat : resp = sending[d].resp /\ k = sending[d].i
  BY DEF TypeInv, TypeOK, DeviceTypeOK
<1>2. HasReply /\ toProxy' = Tail(toProxy)
      /\ UNCHANGED <<current_session_id, request, rcvtimeo, pstate, answers>>
      /\ Reply.count # 1 /\ raw_http_response' = ResponseSoFar /\ AcknowledgeData
  BY DEF ResponseMore, ReceiveDataReceives
<1>3. /\ toDevice[d] = <<>> /\ Tail(toProxy) = <<>>
      /\ Reply = DataOf(resp, resp.size - k)
      /\ ResponseSoFar = ResponsePart(resp, k + 1)
      /\ resp.size \in Nat /\ k < resp.size
  BY <1>1, <1>2, CollectedReply
<1>4. Reply.type = "DATA" /\ Reply.count = resp.size - k
  BY <1>3 DEF DataOf
<1>5. k + 1 < resp.size
  BY <1>2, <1>3, <1>4
<1>6. /\ Len(toDevice'[d]) = 1 /\ toDevice'[d] # <<>> /\ toDevice'[d][1].type = "ACK"
      /\ \A e \in Devices : e # d => UNCHANGED toDevice[e]
  BY <1>2, <1>3, <1>4, CollectedAcked
<1>7. sending' = sending /\ handled' = handled
  BY DEF deviceVars
<1>8. raw_http_response' = ResponsePart(sending[d].resp, sending[d].i + 1)'
  BY <1>1, <1>2, <1>3, <1>7 DEF ResponsePart
<1>9. Responds(d)'
  BY <1>2 DEF Collecting, Responds, deviceVars
<1>10. Collecting(d)'
  BY <1>1, <1>2, <1>3, <1>5, <1>6, <1>7, <1>8, <1>9 DEF Collecting
<1>11. ServedInv(d)'
  BY <1>2, <1>10 DEF ServedInv
<1>12. Serving' /\ ~Stuck /\ ~Stuck'
  BY <1>2, <1>6 DEF Serving, Stuck, HasReply
<1>13. NumberedInv'
  BY <1>2, <1>7, <1>12, NumberedKept DEF ReliableInv
<1>14. ReliableInv'
  BY <1>2, <1>6, <1>11, <1>12, <1>13, ProxyKeeps
<1> QED
  BY <1>2, <1>7, <1>12, <1>14, PromiseStutters DEF PromiseKept

LEMMA CollectedLast ==
    ASSUME Reliable, TypeInv, SessionInv, ReliableInv, NEW d \in Devices,
           Serving, d = request.device, Collecting(d), request.size <= MaxCount,
           ResponseLast, UNCHANGED deviceVars
    PROVE  ReliableInv' /\ PromiseKept
<1>1. PICK resp \in Response, k \in Nat : resp = sending[d].resp /\ k = sending[d].i
  BY DEF TypeInv, TypeOK, DeviceTypeOK
<1>2. HasReply /\ toProxy' = Tail(toProxy) /\ UNCHANGED request
      /\ Reply.count = 1 /\ AnswerClient(request, "forwarded", ResponseSoFar)
      /\ AcknowledgeData
  BY DEF ResponseLast, ReceiveDataReceives
<1>3. /\ toDevice[d] = <<>> /\ Tail(toProxy) = <<>>
      /\ Reply = DataOf(resp, resp.size - k)
      /\ ResponseSoFar = ResponsePart(resp, k + 1)
      /\ resp.size \in Nat /\ k < resp.size
  BY <1>1, <1>2, CollectedReply
<1>4. Reply.type = "DATA" /\ Reply.count = resp.size - k
  BY <1>3 DEF DataOf
<1>5. k + 1 = resp.size
  BY <1>2, <1>3, <1>4
<1>6. /\ Len(toDevice'[d]) = 1 /\ toDevice'[d] # <<>> /\ toDevice'[d][1].type = "ACK"
      /\ \A e \in Devices : e # d => UNCHANGED toDevice[e]
  BY <1>2, <1>3, <1>4, CollectedAcked
<1>7. /\ pstate' = "client" /\ ~Serving' /\ ~Stuck /\ ~Stuck' /\ UNCHANGED handled
      /\ answers' = Append(answers, [req |-> request, status |-> "forwarded",
                                     body |-> ResponsePart(resp, resp.size)])
  BY <1>2, <1>3, <1>5 DEF AnswerClient, Serving, Stuck, HasReply, deviceVars
<1>8. PICK n \in ResponseSizes :
         n <= MaxCount /\ resp = [req |-> request, trigger |-> request, size |-> n]
  BY <1>1 DEF Collecting, Responds
<1>9. Idle(d)'
  <2>1. /\ d \notin Absent /\ dstate[d] = "sendData" /\ raw_http_request[d] = <<>>
        /\ sending[d].i + 1 >= sending[d].resp.size
    BY <1>1, <1>3, <1>5 DEF Collecting, Responds
  <2>2. Finishing(d)'
    BY <1>6, <2>1 DEF Finishing, deviceVars
  <2> QED
    BY <1>6, <2>2 DEF Idle
<1>10. toProxy' = <<>>
  BY <1>2, <1>3
<1>11. NumberedInv'
  <2>1. request \in Request /\ "forwarded" \in Status
    BY DEF TypeInv, TypeOK, ProxyTypeOK, Status
  <2>2. ResponsePart(resp, resp.size) \in Seq(ResponseFragment)
    <3>1. \A j \in 1 .. resp.size :
             [resp |-> resp, n |-> resp.size + 1 - j, spoiled |-> FALSE] \in ResponseFragment
      BY <1>3 DEF ResponseFragment
    <3>2. resp.size \in Nat
      BY <1>3
    <3>3. ResponsePart(resp, resp.size) \in [1 .. resp.size -> ResponseFragment]
      BY <3>1 DEF ResponsePart
    <3> QED
      BY <3>2, <3>3
  <2> QED
    BY <1>7, <2>1, <2>2, NumberedAnswered DEF ReliableInv
<1>12. ReliableInv'
  BY <1>6, <1>7, <1>9, <1>10, <1>11, ProxyKeeps
<1>13. Promise!Respond(request)
  <2>1. Promise!Executed(request)
    BY DEF Collecting, Promise!Executed, Range
  <2>2. ResponsePart(resp, resp.size) = Promise!Body(request, n)
    <3>1. resp.size = n
      BY <1>8
    <3> QED
      BY <1>8, <3>1 DEF ResponsePart, Promise!Body
  <2>3. Promise!Answer(request, "forwarded", Promise!Body(request, n))
    BY <1>7, <2>2 DEF Promise!Answer
  <2>4. UNCHANGED Stuck
    BY <1>7 DEF Stuck
  <2> QED
    BY <1>7, <1>8, <2>1, <2>3, <2>4 DEF Promise!Respond, Serving
<1> QED
  BY <1>7, <1>12, <1>13 DEF PromiseKept, Promise!Next, Serving

(* A step of the proxy keeps the invariant and the promise.                *)
LEMMA ReceiveStep ==
    ASSUME Reliable, TypeInv, SessionInv, ReliableInv, ProxyReceives,
           UNCHANGED deviceVars
    PROVE  ReliableInv' /\ PromiseKept
<1>1. PICK d \in Devices : d = request.device
  BY ServingInv DEF TypeInv, ForwardingInv
<1>2. Serving /\ HasReply
  BY ServingInv DEF ProxyReceives, AckNext, AckLast, AckWrongCount, AckWrongSession,
     SendDataWrongType, ResponseWrongSession, ResponseMore, ResponseLast,
     SendDataReceives, ReceiveDataReceives, Serving
<1>3. ServedInv(d)
  BY <1>1, <1>2 DEF ReliableInv
<1>4. CASE Acknowledged(d) /\ request.size <= MaxCount
  BY <1>1, <1>2, <1>4, AckedStep
<1>5. CASE Collecting(d) /\ request.size <= MaxCount
  <2>1. pstate = "receiveData" /\ SessionMatches
    BY <1>1, <1>2, <1>5, CollectedReply DEF Collecting, DataOf, SessionMatches
  <2>2. ResponseMore \/ ResponseLast
    BY <2>1 DEF ProxyReceives, AckNext, AckLast, AckWrongCount, AckWrongSession,
       SendDataWrongType, ResponseWrongSession, SendDataReceives
  <2>3. CASE ResponseMore
    BY <1>1, <1>2, <1>5, <2>3, CollectedMore
  <2>4. CASE ResponseLast
    BY <1>1, <1>2, <1>5, <2>4, CollectedLast
  <2> QED
    BY <2>2, <2>3, <2>4
<1>6. ~InFlight(d) /\ ~Silent(d) /\ ~Refusing(d)
  BY <1>2 DEF HasReply, InFlight, Silent, Refusing
<1> QED
  BY <1>3, <1>4, <1>5, <1>6 DEF ServedInv

LEMMA ReliableProxy ==
    ASSUME Reliable, TypeInv, SessionInv, ReliableInv, ProxyNext
    PROVE  ReliableInv' /\ PromiseKept
<1>1. UNCHANGED deviceVars
  BY DEF ProxyNext
<1>2. CASE Accept \/ ClientGone
  <2>1. /\ ~Serving /\ ~Serving' /\ ~Stuck /\ ~Stuck'
        /\ UNCHANGED <<network, answers, request, handled>>
    BY <1>1, <1>2 DEF Accept, ClientGone, Serving, Stuck, deviceVars
  <2>2. NumberedInv'
    BY <2>1, NumberedKept DEF ReliableInv
  <2>3. ReliableInv'
    BY <1>1, <2>1, <2>2, ProxyIdles
  <2> QED
    BY <2>1, <2>3, PromiseStutters DEF PromiseKept
<1>3. ASSUME NEW kind \in RequestKinds, RequestUnknown(kind)
      PROVE  ReliableInv' /\ PromiseKept
  BY <1>1, <1>3, UnknownAnswered
<1>4. ASSUME NEW kind \in RequestKinds, RequestForward(kind)
      PROVE  ReliableInv' /\ PromiseKept
  BY <1>1, <1>4, ForwardStarts
<1>5. ASSUME NEW kind \in RequestKinds, RequestTooLong(kind)
      PROVE  ReliableInv' /\ PromiseKept
  BY <1>1, <1>5, TooLongStarts
<1>6. CASE ProxyReceives
  BY <1>1, <1>6, ReceiveStep
<1>7. CASE ProxyTimesOut
  BY <1>1, <1>7, TimeoutStep
<1> QED
  BY <1>2, <1>3, <1>4, <1>5, <1>6, <1>7 DEF ProxyNext, ClientStep

-----------------------------------------------------------------------------
LEMMA ReliableInvInit == Init => ReliableInv /\ Promise!Init
<1> SUFFICES ASSUME Init PROVE ReliableInv /\ Promise!Init
  OBVIOUS
<1> USE DEF Init, NetworkInit, ProxyInit, DeviceInit
<1>1. ~Serving /\ ~Stuck
  BY DEF Serving, Stuck
<1>2. \A d \in Devices : Idle(d)
  BY DEF Idle, Clean
<1>3. NumberedInv
  BY <1>1 DEF NumberedInv, Range
<1>4. Promise!Init
  BY <1>1 DEF Promise!Init, Serving, Stuck
<1> QED
  BY <1>1, <1>2, <1>3, <1>4 DEF ReliableInv

LEMMA ReliableStep ==
    ASSUME Reliable, TypeInv, SessionInv, ReliableInv, [Next]_vars
    PROVE  ReliableInv' /\ PromiseKept
<1>1. CASE UNCHANGED vars
  <2>1. UNCHANGED <<network, deviceVars, proxyVars>>
    BY <1>1 DEF vars
  <2>2. /\ UNCHANGED <<handled, answers, request, toProxy>>
        /\ (Serving' <=> Serving) /\ (Stuck' <=> Stuck)
        /\ \A d \in Devices : UNCHANGED Local(d)
    BY <2>1 DEF network, deviceVars, proxyVars, Serving, Stuck, Local
  <2>3. \A d \in Devices :
           IF Serving' /\ d = request'.device THEN ServedInv(d)' ELSE Idle(d)'
    BY <2>1, <2>2, ServedFrame, IdleFrame DEF ReliableInv
  <2>4. NumberedInv'
    BY <2>2, NumberedKept DEF ReliableInv
  <2>5. ReliableInv'
    BY <2>2, <2>3, <2>4 DEF ReliableInv
  <2> QED
    BY <2>2, <2>5, PromiseStutters DEF PromiseKept
<1>2. CASE ProxyNext
  BY <1>2, ReliableProxy
<1>3. ~Fault
  BY DEF Fault, DisturbToProxy, DisturbToDevice, RestartDevice, DeviceRecvError,
         FaultOf, Reliable
<1>4. ASSUME NEW d \in Devices, DeviceNext(d)
      PROVE  ReliableInv' /\ PromiseKept
  BY <1>4, ReliableDevice
<1>5. ASSUME NEW d \in Devices, DropForAbsent(d)
      PROVE  ReliableInv' /\ PromiseKept
  BY <1>5, ReliableDrop
<1> QED
  BY <1>1, <1>2, <1>3, <1>4, <1>5 DEF Next

LEMMA ReliableInvariant ==
    ASSUME Reliable
    PROVE  Spec => [](TypeInv /\ SessionInv /\ ReliableInv)
<1>1. TypeInv /\ SessionInv /\ [Next]_vars => SessionInv'
  BY SessionInvStep DEF Reliable
<1>2. TypeInv /\ SessionInv /\ ReliableInv /\ [Next]_vars => ReliableInv'
  BY ReliableStep
<1> QED
  BY <1>1, <1>2, ReliableInvInit, SessionInvInit, TypeInvariant, PTL DEF Spec

(* Where no datagram is lost, repeated or late, two wait for a device only *)
(* when it has yet to read the ACK that ended its response, and for the    *)
(* proxy only when they are the last ACK and the first fragment: the next  *)
(* is sent by whoever has read the one before (SendDataDevice and SendData).*)
THEOREM StopAndWaitHolds ==
    ASSUME Reliable
    PROVE  Spec => []StopAndWait
<1>1. ASSUME ReliableInv, NEW d \in Devices
      PROVE  Len(toDevice[d]) <= 2 /\ (Len(toDevice[d]) = 2 => toDevice[d][1].type = "ACK")
  <2> DEFINE q == toDevice[d]
             Short == q = <<>> \/ Len(q) = 1 \/ (Len(q) = 2 /\ q[1].type = "ACK")
  <2>1. \A p : Len(<<p>>) = 1
    OBVIOUS
  <2>2. Idle(d) => Short
    BY DEF Idle
  <2>3. ASSUME InFlight(d) PROVE Short
    <3>1. \/ \E p : q = <<p>>
          \/ Finishing(d) /\ Len(q) = 2
          \/ q = <<>>
      BY <2>3 DEF InFlight
    <3> QED
      BY <2>1, <3>1 DEF Finishing
  <2>4. Acknowledged(d) \/ Collecting(d) \/ Silent(d) \/ Refusing(d) => Short
    BY <2>2 DEF Acknowledged, Collecting, Silent, Refusing
  <2>5. Short
    BY <1>1, <2>2, <2>3, <2>4 DEF ReliableInv, ServedInv
  <2>6. CASE q = <<>>
    <3>1. Len(q) = 0
      BY <2>6
    <3> QED
      BY <3>1
  <2>7. CASE Len(q) = 1
    BY <2>7
  <2>8. CASE Len(q) = 2 /\ q[1].type = "ACK"
    BY <2>8
  <2> QED
    BY <2>5, <2>6, <2>7, <2>8
<1>2. ASSUME TypeInv, ReliableInv
      PROVE  /\ Len(toProxy) <= 2
             /\ Len(toProxy) = 2 => toProxy[1].type = "ACK" /\ toProxy[1].count = 1
  <2> DEFINE Goal == /\ Len(toProxy) <= 2
                     /\ Len(toProxy) = 2 => toProxy[1].type = "ACK"
                                            /\ toProxy[1].count = 1
  <2>1. ASSUME toProxy = <<>> PROVE Goal
    BY <2>1
  <2>2. ASSUME NEW p, toProxy = <<p>> PROVE Goal
    BY <2>2
  <2>3. ASSUME NEW p, NEW q, p.type = "ACK" /\ p.count = 1, toProxy = <<p, q>>
        PROVE  Goal
    BY <2>3
  <2> HIDE DEF Goal
  <2>4. ASSUME ~Serving PROVE Goal
    BY <1>2, <2>1, <2>4 DEF ReliableInv
  <2>5. ASSUME Serving PROVE Goal
    <3>1. PICK d \in Devices : d = request.device
      BY <1>2, <2>5 DEF TypeInv, ForwardingInv, Serving
    <3>2. ServedInv(d)
      BY <1>2, <2>5, <3>1 DEF ReliableInv
    <3>3. \/ toProxy = <<>>
          \/ \E p : toProxy = <<p>>
          \/ \E p : toProxy = <<AckOf(1), p>>
      BY <3>2 DEF ServedInv, InFlight, Acknowledged, Collecting, Silent, Refusing
    <3>4. AckOf(1).type = "ACK" /\ AckOf(1).count = 1
      BY DEF AckOf
    <3>5. CASE toProxy = <<>>
      BY <2>1, <3>5
    <3>6. CASE \E p : toProxy = <<p>>
      BY <2>2, <3>6
    <3>7. CASE \E p : toProxy = <<AckOf(1), p>>
      <4>1. PICK q : toProxy = <<AckOf(1), q>>
        BY <3>7
      <4>2. PICK a : a = AckOf(1)
        OBVIOUS
      <4> QED
        BY <2>3, <3>4, <4>1, <4>2
    <3> QED
      BY <3>3, <3>5, <3>6, <3>7
  <2>6. Goal
    BY <2>4, <2>5
  <2> QED
    BY <2>6 DEF Goal
<1>3. TypeInv /\ ReliableInv => StopAndWait
  BY <1>1, <1>2 DEF StopAndWait
<1> QED
  BY <1>3, ReliableInvariant, PTL

(* Between requests nothing is left of the last one but the ACK that ended *)
(* its response: no datagram, no text in a buffer, no session (proxy.cpp   *)
(* and device.cpp, Run).                                                   *)
THEOREM NoResidueHolds ==
    ASSUME Reliable
    PROVE  Spec => []NoResidue
<1>1. ReliableInv => NoResidue
  <2> SUFFICES ASSUME ReliableInv, pstate \in {"accept", "client"}
               PROVE  /\ toProxy = <<>>
                      /\ \A d \in Devices :
                            toDevice[d] = <<>> =>
                                Clean(d) /\ raw_http_request[d] = <<>>
    BY DEF NoResidue, Clean
  <2>1. ~Serving
    BY DEF Serving
  <2>2. \A d \in Devices : Idle(d)
    BY <2>1 DEF ReliableInv
  <2> QED
    BY <2>1, <2>2 DEF ReliableInv, Idle, Finishing
<1> QED
  BY <1>1, ReliableInvariant, PTL

(* Proxy and devices implement Gateway: in such a network each request is  *)
(* carried out once, by the device it names, and answered with that        *)
(* device's whole response, whatever the devices, requests and responses;  *)
(* and the proxy waits in vain only where Gateway says so.                 *)
THEOREM KeepsPromiseHolds ==
    ASSUME Reliable
    PROVE  Spec => KeepsPromise
<1>1. TypeInv /\ SessionInv /\ ReliableInv /\ [Next]_vars
        => [Promise!Next]_Promise!vars
  BY ReliableStep DEF PromiseKept
<1>2. Init => Promise!Init
  BY ReliableInvInit
<1> QED
  BY <1>1, <1>2, ReliableInvariant, PTL DEF Spec, KeepsPromise, Promise!Spec

-----------------------------------------------------------------------------
(* What a step of Gateway keeps, proxy and devices keep: here, that what   *)
(* was forwarded has been carried out.                                     *)
Delivered(a) ==
    a.status = "forwarded" =>
        /\ a.req.device \in Devices /\ a.req \in Range(handled[a.req.device])
        /\ \A k \in 1 .. Len(a.body) : a.body[k].resp.req = a.req

DeliveredInv == \A j \in 1 .. Len(answers) : Delivered(answers[j])

(* No step undoes what a device has carried out.                           *)
LEMMA DeliveredKept ==
    ASSUME DeliveredInv, UNCHANGED answers,
           \A d \in Devices : Range(handled[d]) \subseteq Range(handled'[d])
    PROVE  DeliveredInv'
BY DEF DeliveredInv, Delivered

LEMMA AnswerDelivered ==
    ASSUME TypeInv, DeliveredInv, UNCHANGED handled, NEW r, NEW status, NEW body,
           Promise!Answer(r, status, body),
           status = "forwarded" =>
               /\ r.device \in Devices /\ r \in Range(handled[r.device])
               /\ \A k \in 1 .. Len(body) : body[k].resp.req = r
    PROVE  DeliveredInv'
<1> DEFINE a == [req |-> r, status |-> status, body |-> body]
           S == Answer \cup {a}
<1>1. answers \in Seq(S) /\ a \in S
  BY SeqMonotonic DEF TypeInv, TypeOK, ProxyTypeOK
<1>2. answers' = Append(answers, a)
  BY DEF Promise!Answer
<1>3. Delivered(a)
  BY DEF Delivered
<1> HIDE DEF a, S
<1>4. /\ Len(answers') = Len(answers) + 1 /\ Len(answers) \in Nat
      /\ answers'[Len(answers) + 1] = a
      /\ \A j \in 1 .. Len(answers) : answers'[j] = answers[j]
  BY <1>1, <1>2, AppendProperties, LenProperties
<1>5. ASSUME NEW j \in 1 .. Len(answers')
      PROVE  Delivered(answers'[j])
  <2>1. CASE j = Len(answers) + 1
    BY <1>3, <1>4, <2>1
  <2>2. CASE j \in 1 .. Len(answers)
    BY <1>4, <2>2 DEF DeliveredInv
  <2> QED
    BY <1>4, <1>5, <2>1, <2>2
<1> QED
  BY <1>5 DEF DeliveredInv, Delivered

LEMMA PromiseDelivers ==
    ASSUME TypeInv, DeliveredInv, [Promise!Next]_Promise!vars
    PROVE  DeliveredInv'
<1>1. CASE UNCHANGED Promise!vars
  BY <1>1 DEF Promise!vars, DeliveredInv, Delivered
<1>2. ASSUME NEW kind \in RequestKinds, Promise!Ask(kind)
      PROVE  DeliveredInv'
  BY <1>2 DEF Promise!Ask, DeliveredInv, Delivered
<1>3. ASSUME NEW kind \in RequestKinds, Promise!AskUnknown(kind)
      PROVE  DeliveredInv'
  <2>1. PICK r : r = Promise!NewRequest(kind)
    OBVIOUS
  <2>2. Promise!Answer(r, "502", <<>>) /\ UNCHANGED handled
    BY <1>3, <2>1 DEF Promise!AskUnknown
  <2> QED
    BY <2>2, AnswerDelivered
<1>4. ASSUME NEW r \in IF pstate \in {"sendData", "receiveData"}
                         THEN {request} ELSE {},
             \/ Promise!Execute(r) \/ Promise!Respond(r)
             \/ Promise!Refuse(r) \/ Promise!FallSilent(r)
      PROVE  DeliveredInv'
  <2>1. r = request /\ r \in Request /\ r.device \in Devices
    BY DEF TypeInv, TypeOK, ProxyTypeOK, ForwardingInv
  <2>2. CASE Promise!Execute(r)
    <3>1. /\ handled' = [handled EXCEPT ![r.device] = Append(@, r)]
          /\ UNCHANGED answers
      BY <2>2 DEF Promise!Execute
    <3>2. handled \in [Devices -> Seq(Request)]
      BY DEF TypeInv, TypeOK, DeviceTypeOK
    <3>3. PICK old \in Seq(Request) : old = handled[r.device]
      BY <2>1, <3>2
    <3>4. PICK new \in Seq(Request) : new = Append(old, r)
      BY <2>1, AppendProperties
    <3>5. Range(old) \subseteq Range(new)
      <4>1. Len(new) = Len(old) + 1 /\ \A k \in 1 .. Len(old) : new[k] = old[k]
        BY <2>1, <3>4, AppendProperties
      <4>2. /\ DOMAIN old = 1 .. Len(old) /\ DOMAIN new = 1 .. Len(new)
            /\ Len(old) \in Nat
        BY LenProperties
      <4> QED
        BY <4>1, <4>2 DEF Range
    <3>6. \A d \in Devices : Range(handled[d]) \subseteq Range(handled'[d])
      BY <2>1, <3>1, <3>2, <3>3, <3>4, <3>5
    <3> QED
      BY <3>1, <3>6, DeliveredKept
  <2>3. CASE Promise!Respond(r)
    <3>1. PICK n \in ResponseSizes :
             Promise!Answer(r, "forwarded", Promise!Body(r, n))
      BY <2>3 DEF Promise!Respond
    <3>2. UNCHANGED handled /\ r \in Range(handled[r.device])
      BY <2>3 DEF Promise!Respond, Promise!Executed, Range
    <3>3. \A k \in 1 .. Len(Promise!Body(r, n)) :
             Promise!Body(r, n)[k].resp.req = r
      <4>1. n \in Nat
        BY DeviceAssumption
      <4>2. Len(Promise!Body(r, n)) = n
        BY <4>1 DEF Promise!Body
      <4> QED
        BY <4>2 DEF Promise!Body
    <3>4. PICK body : body = Promise!Body(r, n)
      OBVIOUS
    <3> QED
      BY <2>1, <3>1, <3>2, <3>3, <3>4, AnswerDelivered
  <2>4. CASE Promise!Refuse(r)
    <3>1. PICK status \in {"500", "503"} : Promise!Answer(r, status, <<>>)
      BY <2>4 DEF Promise!Refuse
    <3>2. UNCHANGED handled
      BY <2>4 DEF Promise!Refuse
    <3> QED
      BY <3>1, <3>2, AnswerDelivered
  <2>5. CASE Promise!FallSilent(r)
    BY <2>5 DEF Promise!FallSilent, DeliveredInv, Delivered
  <2> QED
    BY <1>4, <2>2, <2>3, <2>4, <2>5
<1> QED
  BY <1>1, <1>2, <1>3, <1>4 DEF Promise!Next

(* Hence a response the proxy forwards in such a network answers a request *)
(* the device carried out, and is the response to it, with several devices *)
(* and limits too (device.cpp, raw_http_request, and proxy.cpp, the checks *)
(* that end SendDataDevice).                                               *)
THEOREM ForwardedIsExecutedIfReliable ==
    ASSUME Reliable
    PROVE  Spec => []ForwardedIsExecuted
<1>1. Init => DeliveredInv
  BY DEF Init, ProxyInit, DeliveredInv
<1>2. TypeInv /\ SessionInv /\ ReliableInv /\ DeliveredInv /\ [Next]_vars
        => DeliveredInv'
  BY ReliableStep, PromiseDelivers DEF PromiseKept
<1>3. TypeInv /\ DeliveredInv => ForwardedIsExecuted
  <2> SUFFICES ASSUME TypeInv, DeliveredInv PROVE ForwardedIsExecuted
    OBVIOUS
  <2>1. answers \in Seq(Answer)
    BY DEF TypeInv, TypeOK, ProxyTypeOK
  <2>2. DOMAIN answers = 1 .. Len(answers)
    BY <2>1, LenProperties
  <2> QED
    BY <2>2 DEF ForwardedIsExecuted, DeliveredInv, Delivered, Range
<1> QED
  BY <1>1, <1>2, <1>3, ReliableInvariant, PTL DEF Spec
=============================================================================
