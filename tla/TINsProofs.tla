----------------------------- MODULE TINsProofs -----------------------------
(***************************************************************************)
(* Type correctness of the sensor network, and the pairing of session and  *)
(* packet counter, for every value of the constants.                       *)
(***************************************************************************)
EXTENDS TINs, TLAPS, SequenceTheorems

(***************************************************************************)
(* Facts about queues: whatever is sent, received, lost, repeated or       *)
(* overtaken, a queue of packets of some kind stays one.                   *)
(***************************************************************************)
LEMMA PutKeeps ==
    ASSUME NEW S, NEW queue \in Seq(S), NEW packet \in S
    PROVE  Put(queue, packet) \in Seq(S)
BY AppendProperties DEF Put

LEMMA PutSentKeeps ==
    ASSUME NEW S, NEW queue \in Seq(S), NEW sent \in Seq(S)
    PROVE  PutSent(queue, sent) \in Seq(S)
<1>1. CASE sent = <<>>
  BY <1>1 DEF PutSent
<1>2. CASE sent # <<>>
  <2>1. sent[1] \in S
    BY <1>2
  <2> QED
    BY <1>2, <2>1, PutKeeps DEF PutSent
<1> QED
  BY <1>1, <1>2

(* A buffer to which one more fragment is appended.                        *)
LEMMA AppendedFragment ==
    ASSUME NEW S, NEW raw \in Seq(S), NEW data \in Seq(S), Len(data) = 1
    PROVE  /\ raw \o data \in Seq(S)
           /\ raw \o data # <<>>
           /\ Last(raw \o data) = data[1]
           /\ data[1] \in S
           /\ Range(data) = {data[1]}
<1>1. Len(raw) \in Nat
  OBVIOUS
<1>2. /\ raw \o data \in Seq(S) /\ Len(raw \o data) = Len(raw) + 1
      /\ (raw \o data)[Len(raw) + 1] = data[1]
  <2>1. /\ raw \o data \in Seq(S) /\ Len(raw \o data) = Len(raw) + Len(data)
        /\ \A k \in 1 .. Len(raw) + Len(data) :
              (raw \o data)[k] = IF k <= Len(raw) THEN raw[k] ELSE data[k - Len(raw)]
    BY ConcatProperties
  <2>2. Len(raw) + 1 \in 1 .. Len(raw) + Len(data) /\ (Len(raw) + 1) - Len(raw) = 1
    BY <1>1
  <2> QED
    BY <1>1, <2>1, <2>2
<1>3. raw \o data # <<>>
  BY <1>1, <1>2
<1>4. DOMAIN data = {1} /\ data[1] \in S
  <2>1. DOMAIN data = 1 .. Len(data)
    BY LenProperties
  <2>2. 1 .. 1 = {1}
    OBVIOUS
  <2>3. 1 \in 1 .. Len(data)
    BY <2>2
  <2>4. data[1] \in S
    BY <2>3, ElementOfSeq
  <2> QED
    BY <2>1, <2>2, <2>4
<1>5. Range(data) = {data[1]}
  BY <1>4 DEF Range
<1> QED
  BY <1>2, <1>3, <1>4, <1>5 DEF Last

LEMMA RemoveAtKeeps ==
    ASSUME NEW S, NEW queue \in Seq(S), NEW k \in 1 .. Len(queue)
    PROVE  RemoveAt(queue, k) \in Seq(S)
<1>1. SubSeq(queue, 1, k - 1) \in Seq(S)
  BY SubSeqProperties, ElementOfSeq
<1>2. SubSeq(queue, k + 1, Len(queue)) \in Seq(S)
  BY SubSeqProperties, ElementOfSeq
<1> QED
  BY <1>1, <1>2, ConcatProperties DEF RemoveAt

LEMMA InsertAtKeeps ==
    ASSUME NEW S, NEW queue \in Seq(S), NEW k \in 1 .. Len(queue), NEW e \in S
    PROVE  InsertAt(queue, k, e) \in Seq(S)
<1>1. SubSeq(queue, 1, k - 1) \in Seq(S)
  BY SubSeqProperties, ElementOfSeq
<1>2. SubSeq(queue, k, Len(queue)) \in Seq(S)
  BY SubSeqProperties, ElementOfSeq
<1>3. <<e>> \in Seq(S)
  OBVIOUS
<1>4. SubSeq(queue, 1, k - 1) \o <<e>> \in Seq(S)
  BY <1>1, <1>3, ConcatProperties
<1> QED
  BY <1>2, <1>4, ConcatProperties DEF InsertAt

(* No fault makes a packet that was not sent.                              *)
LEMMA DisturbedKeeps ==
    ASSUME NEW S, NEW queue \in Seq(S), NEW kind,
           NEW result \in Disturbed(kind, queue)
    PROVE  result \in Seq(S)
<1>1. CASE result \in Lost(queue)
  BY <1>1, RemoveAtKeeps DEF Lost
<1>2. CASE result \in Duplicated(queue)
  BY <1>2, InsertAtKeeps, ElementOfSeq DEF Duplicated
<1>3. CASE result \in Overtaken(queue)
  <2>1. PICK k \in 1 .. Len(queue) - 1 :
            result = [queue EXCEPT ![k] = queue[k + 1], ![k + 1] = queue[k]]
    BY <1>3 DEF Overtaken
  <2>2. queue[k] \in S /\ queue[k + 1] \in S
    BY <2>1, ElementOfSeq
  <2>3. [queue EXCEPT ![k] = queue[k + 1]] \in Seq(S)
    BY <2>1, <2>2, ExceptSeq
  <2> QED
    BY <2>1, <2>2, <2>3, ExceptSeq
<1> QED
  BY <1>1, <1>2, <1>3 DEF Disturbed

-----------------------------------------------------------------------------

(* A fragment is never sent with count 0, nor without its payload.         *)
SoundPacket ==
    {p \in ProxyPacket : p.type = "DATA" => p.count # 0 /\ Len(p.data) = 1}

(* While a request is forwarded there is a fragment left to acknowledge;   *)
(* before the next one none is.                                            *)
ForwardingInv ==
    /\ pstate \in {"sendData", "receiveData"} => request.device \in Devices
    /\ pstate = "sendData" => i < request.size
    /\ pstate \in {"accept", "client"} => i = 0

(* While a response is sent there is a fragment left to acknowledge.       *)
RespondingInv ==
    \A d \in Devices :
        dstate[d] = "sendData" => sending[d].i < sending[d].resp.size

TypeInv ==
    /\ TypeOK
    /\ toDevice \in [Devices -> Seq(SoundPacket)]
    /\ ForwardingInv
    /\ RespondingInv

-----------------------------------------------------------------------------
LEMMA WireTypes ==
    ASSUME NEW count \in Nat, NEW session \in Int
    PROVE  /\ WireSession(session) \in WireSessions
           /\ WireCount(count, session) \in Nat
           /\ count # 0 => WireCount(count, session) # 0
BY AAAAssumption DEF WireSession, WireSessions, WireCount

LEMMA DataOfDevicePackets ==
    ASSUME NEW data \in Seq(ResponseFragment)
    PROVE  Spoil(data) \in Seq(ResponseFragment)
<1>1. ASSUME NEW fragment \in ResponseFragment
      PROVE  [fragment EXCEPT !.spoiled = TRUE] \in ResponseFragment
  BY DEF ResponseFragment
<1>2. \A k \in 1 .. Len(data) :
          [data[k] EXCEPT !.spoiled = TRUE] \in ResponseFragment
  BY <1>1, ElementOfSeq
<1>3. Len(data) \in Nat
  OBVIOUS
<1> QED
  BY <1>2, <1>3 DEF Spoil

LEMMA DevicePacketsType ==
    ASSUME NEW d \in Devices, NEW type \in PacketType, NEW count \in Nat,
           NEW session \in Int, NEW data \in Seq(ResponseFragment),
           NEW sent \in DevicePackets(d, type, count, session, data)
    PROVE  sent \in Seq(DevicePacket)
<1> DEFINE c == WireCount(count, session)
           s == WireSession(session)
           packet(n, m, payload) ==
               [type |-> type, count |-> n, session |-> m, data |-> payload,
                from |-> d]
<1>1. c \in Nat /\ s \in WireSessions
  BY WireTypes
<1>2. Spoil(data) \in Seq(ResponseFragment)
  BY DataOfDevicePackets
<1>3. \A n \in Nat, m \in WireSessions :
          \A payload \in Seq(ResponseFragment) :
              <<packet(n, m, payload)>> \in Seq(DevicePacket)
  BY DEF DevicePacket
<1>4. \/ sent = <<>>
      \/ sent = <<packet(c, s, data)>>
      \/ sent = <<packet(c, s, Spoil(data))>>
      \/ \E low \in 0 .. 1, m \in WireSessions :
            sent = <<packet(c + low, m, Spoil(data))>>
  BY DEF DevicePackets, Overlong
<1> HIDE DEF c, s, packet
<1>5. CASE \E low \in 0 .. 1, m \in WireSessions :
              sent = <<packet(c + low, m, Spoil(data))>>
  <2>1. PICK low \in 0 .. 1, m \in WireSessions :
            sent = <<packet(c + low, m, Spoil(data))>>
    BY <1>5
  <2>2. c + low \in Nat
    BY <1>1
  <2> QED
    BY <1>2, <1>3, <2>1, <2>2
<1>6. CASE sent = <<>>
  BY <1>6
<1>7. CASE sent \in {<<packet(c, s, data)>>, <<packet(c, s, Spoil(data))>>}
  BY <1>1, <1>2, <1>3, <1>7
<1> QED
  BY <1>4, <1>5, <1>6, <1>7

(* What a device sends is a sequence of device packets.                    *)
LEMMA SendType ==
    ASSUME NEW d \in Devices, NEW type \in PacketType, NEW count \in Nat,
           NEW session \in Int, NEW data \in Seq(ResponseFragment),
           NEW queue \in Seq(DevicePacket),
           NEW sent \in DevicePackets(d, type, count, session, data)
    PROVE  PutSent(queue, sent) \in Seq(DevicePacket)
BY DevicePacketsType, PutSentKeeps

-----------------------------------------------------------------------------
LEMMA TypeInvInit == Init => TypeInv
<1> SUFFICES ASSUME Init PROVE TypeInv
  OBVIOUS
<1> USE DEF Init
<1>1. Garbage \in Request
  BY DEF Garbage, Mixed, Request
<1>2. 0 \in SessionChar
  BY AAAAssumption DEF SessionChar
<1>3. ProxyTypeOK
  <2>1. session_ids \in [Devices -> SessionChar]
    BY <1>2 DEF ProxyInit
  <2>2. raw_http_response \in Seq(ResponseFragment) /\ answers \in Seq(Answer)
    BY DEF ProxyInit
  <2> QED
    BY <1>1, <1>2, <2>1, <2>2 DEF ProxyInit, ProxyTypeOK
<1>4. DeviceTypeOK
  <2>1. NotSending \in [resp: Response, i: Nat, retransmission_counter: Nat]
    BY <1>1 DEF NotSending, Response
  <2> QED
    BY <2>1 DEF DeviceInit, DeviceTypeOK
<1>5. NetworkTypeOK /\ toDevice \in [Devices -> Seq(SoundPacket)]
  BY DEF NetworkInit, NetworkTypeOK
<1>6. FaultsTypeOK
  BY TINsAssumption DEF FaultsTypeOK
<1> QED
  BY <1>3, <1>4, <1>5, <1>6
     DEF TypeInv, TypeOK, ForwardingInv, RespondingInv, ProxyInit, DeviceInit

-----------------------------------------------------------------------------
(* Steps of a device.                                                      *)
LEMMA IncomingType ==
    ASSUME TypeInv, NEW d \in Devices, HasPacket(d)
    PROVE  /\ Incoming(d) \in SoundPacket
           /\ Consume(d) => toDevice' \in [Devices -> Seq(SoundPacket)]
<1>1. toDevice[d] \in Seq(SoundPacket) /\ toDevice[d] # <<>>
  BY DEF TypeInv, HasPacket
<1>2. /\ Head(toDevice[d]) \in SoundPacket
      /\ Tail(toDevice[d]) \in Seq(SoundPacket)
  BY <1>1, HeadTailProperties
<1> QED
  BY <1>2 DEF TypeInv, Incoming, Consume

(* The part of the state a device step may change.                         *)
DevicePart ==
    /\ toDevice \in [Devices -> Seq(SoundPacket)]
    /\ toProxy \in Seq(DevicePacket)
    /\ DeviceTypeOK
    /\ RespondingInv

LEMMA ResetType ==
    ASSUME DeviceTypeOK, NEW d \in Devices, Reset(d)
    PROVE  /\ session_id' \in [Devices -> WireSessions \cup {Unset}]
           /\ packet_counter' \in [Devices -> Nat \cup {Unset}]
BY DEF DeviceTypeOK, Reset

(* The three replies with an ERROR.                                        *)
LEMMA RunErrorType ==
    ASSUME TypeInv, NEW d \in Devices,
           RunWrongCount(d) \/ RunWrongSession(d) \/ RunWrongType(d)
    PROVE  DevicePart'
<1> USE DEF TypeInv, TypeOK
<1>1. HasPacket(d) /\ Consume(d) /\ Reset(d)
      /\ UNCHANGED <<dstate, raw_http_request, sending, accepted, handled>>
  BY DEF RunWrongCount, RunWrongSession, RunWrongType
<1>2. /\ Incoming(d) \in SoundPacket
      /\ toDevice' \in [Devices -> Seq(SoundPacket)]
  BY <1>1, IncomingType
<1>3. /\ Incoming(d).count \in Nat /\ Incoming(d).session \in Int
      /\ session_id[d] \in Int
      /\ CountExpected(d, Incoming(d)) => Counter(d, Incoming(d)) \in Nat
  BY <1>2 DEF SoundPacket, ProxyPacket, DeviceTypeOK, WireSessions, Unset,
              CountExpected, Counter
<1>4. PICK count \in Nat, session \in Int : Send(d, "ERROR", count, session, <<>>)
  BY <1>3 DEF RunWrongCount, RunWrongSession, RunWrongType
<1>5. toProxy' \in Seq(DevicePacket)
  <2>1. "ERROR" \in PacketType /\ <<>> \in Seq(ResponseFragment)
    BY DEF PacketType
  <2>2. PICK sent \in DevicePackets(d, "ERROR", count, session, <<>>) :
            toProxy' = PutSent(toProxy, sent)
    BY <1>4 DEF Send
  <2> QED
    BY <2>1, <2>2, SendType DEF NetworkTypeOK
<1>6. DeviceTypeOK'
  BY <1>1, ResetType DEF DeviceTypeOK
<1> QED
  BY <1>1, <1>2, <1>5, <1>6 DEF DevicePart, RespondingInv

(* The four branches that acknowledge a fragment.                          *)
LEMMA TakeFragmentType ==
    ASSUME TypeInv, NEW d \in Devices, TakeFragment(d, Incoming(d))
    PROVE  LET p == Incoming(d)
           IN  /\ p \in SoundPacket /\ p.type = "DATA"
               /\ p.count \in Nat \ {0} /\ p.session \in WireSessions
               /\ p.data \in Seq(RequestFragment) /\ Len(p.data) = 1
               /\ toDevice' \in [Devices -> Seq(SoundPacket)]
               /\ accepted' \in [Devices -> SUBSET RequestFragment]
               /\ raw_http_request[d] \o p.data \in Seq(RequestFragment)
               /\ raw_http_request[d] \o p.data # <<>>
               /\ Counter(d, p) = p.count
<1> DEFINE p == Incoming(d)
<1>1. HasPacket(d) /\ Consume(d) /\ p.type = "DATA"
  BY DEF TakeFragment
<1>8. Counter(d, p) = p.count
  BY DEF TakeFragment, CountExpected, Counter
<1>2. p \in SoundPacket /\ toDevice' \in [Devices -> Seq(SoundPacket)]
  BY <1>1, IncomingType
<1>3. /\ p.count \in Nat \ {0} /\ p.session \in WireSessions
      /\ p.data \in Seq(RequestFragment) /\ Len(p.data) = 1
  BY <1>1, <1>2 DEF SoundPacket, ProxyPacket
<1>4. Range(p.data) \subseteq RequestFragment
  BY <1>3 DEF Range
<1>5. accepted' \in [Devices -> SUBSET RequestFragment]
  BY <1>4 DEF TakeFragment, TypeInv, TypeOK, DeviceTypeOK
<1>6. raw_http_request[d] \in Seq(RequestFragment)
  BY DEF TypeInv, TypeOK, DeviceTypeOK
<1> HIDE DEF p
<1>7. /\ raw_http_request[d] \o p.data \in Seq(RequestFragment)
      /\ raw_http_request[d] \o p.data # <<>>
  BY <1>3, <1>6, AppendedFragment
<1> QED
  BY <1>1, <1>2, <1>3, <1>5, <1>7, <1>8 DEF p

LEMMA RunFragmentType ==
    ASSUME TypeInv, NEW d \in Devices, RunFragment(d)
    PROVE  DevicePart'
<1> DEFINE p == Incoming(d)
<1>1. TakeFragment(d, p)
  BY DEF RunFragment
<1>2. /\ p.count \in Nat \ {0} /\ p.session \in WireSessions
      /\ toDevice' \in [Devices -> Seq(SoundPacket)]
      /\ accepted' \in [Devices -> SUBSET RequestFragment]
      /\ raw_http_request[d] \o p.data \in Seq(RequestFragment)
      /\ Counter(d, p) = p.count
  BY <1>1, TakeFragmentType
<1>3. toProxy' \in Seq(DevicePacket)
  <2>1. "ACK" \in PacketType /\ <<>> \in Seq(ResponseFragment)
        /\ p.session \in Int
    BY <1>2 DEF PacketType, WireSessions
  <2>2. PICK sent \in DevicePackets(d, "ACK", p.count, p.session, <<>>) :
            toProxy' = PutSent(toProxy, sent)
    BY <1>2 DEF RunFragment, Send
  <2>3. toProxy \in Seq(DevicePacket) /\ p.count \in Nat
    BY <1>2 DEF TypeInv, TypeOK, NetworkTypeOK
  <2> HIDE DEF p
  <2> QED
    BY <2>1, <2>2, <2>3, SendType
<1>4. /\ raw_http_request' \in [Devices -> Seq(RequestFragment)]
      /\ session_id' \in [Devices -> WireSessions \cup {Unset}]
      /\ packet_counter' \in [Devices -> Nat \cup {Unset}]
  <2>1. /\ raw_http_request \in [Devices -> Seq(RequestFragment)]
        /\ session_id \in [Devices -> WireSessions \cup {Unset}]
        /\ packet_counter \in [Devices -> Nat \cup {Unset}]
    BY DEF TypeInv, TypeOK, DeviceTypeOK
  <2>2. /\ raw_http_request' = [raw_http_request EXCEPT ![d] = @ \o p.data]
        /\ session_id' = [session_id EXCEPT ![d] = p.session]
        /\ packet_counter' = [packet_counter EXCEPT ![d] = Counter(d, p) - 1]
    BY DEF RunFragment
  <2> HIDE DEF p
  <2>3. Counter(d, p) - 1 \in Nat
    BY <1>2
  <2> QED
    BY <1>2, <2>1, <2>2, <2>3
<1>5. DeviceTypeOK' /\ RespondingInv'
  BY <1>2, <1>4 DEF RunFragment, TypeInv, TypeOK, DeviceTypeOK, RespondingInv
<1> QED
  BY <1>2, <1>3, <1>5 DEF DevicePart

LEMMA AckType ==
    ASSUME TypeInv, NEW d \in Devices, TakeFragment(d, Incoming(d)),
           Send(d, "ACK", Counter(d, Incoming(d)), Incoming(d).session, <<>>)
    PROVE  toProxy' \in Seq(DevicePacket)
<1> DEFINE p == Incoming(d)
<1>1. /\ "ACK" \in PacketType /\ <<>> \in Seq(ResponseFragment)
      /\ p.count \in Nat /\ p.session \in Int
      /\ toProxy \in Seq(DevicePacket)
  BY TakeFragmentType
     DEF PacketType, WireSessions, TypeInv, TypeOK, NetworkTypeOK
<1>2. PICK sent \in DevicePackets(d, "ACK", p.count, p.session, <<>>) :
          toProxy' = PutSent(toProxy, sent)
  BY TakeFragmentType DEF Send
<1> HIDE DEF p
<1> QED
  BY <1>1, <1>2, SendType

LEMMA ParseType ==
    ASSUME NEW raw \in Seq(RequestFragment), raw # <<>>
    PROVE  /\ ParseOutcomes(raw) \subseteq Request
           /\ Last(raw).req \in Request
<1>1. raw[1] \in RequestFragment /\ Last(raw) \in RequestFragment
  BY ElementOfSeq DEF Last
<1>2. Mixed \in Request /\ Garbage \in Request
  BY DEF Mixed, Garbage, Request
<1> QED
  BY <1>1, <1>2 DEF ParseOutcomes, RequestFragment

LEMMA RunUnparsedType ==
    ASSUME TypeInv, NEW d \in Devices, RunUnparsed(d)
    PROVE  DevicePart'
<1> DEFINE p == Incoming(d)
<1>1. TakeFragment(d, p) /\ Reset(d)
      /\ UNCHANGED <<dstate, sending, handled>>
  BY DEF RunUnparsed
<1>2. /\ toDevice' \in [Devices -> Seq(SoundPacket)]
      /\ accepted' \in [Devices -> SUBSET RequestFragment]
      /\ raw_http_request[d] \o p.data \in Seq(RequestFragment)
  BY <1>1, TakeFragmentType
<1>3. toProxy' \in Seq(DevicePacket)
  BY <1>1, AckType DEF RunUnparsed
<1>4. raw_http_request' \in [Devices -> Seq(RequestFragment)]
  BY <1>2 DEF RunUnparsed, TypeInv, TypeOK, DeviceTypeOK
<1>5. DeviceTypeOK' /\ RespondingInv'
  BY <1>1, <1>2, <1>4, ResetType
     DEF TypeInv, TypeOK, DeviceTypeOK, RespondingInv
<1> QED
  BY <1>2, <1>3, <1>5 DEF DevicePart

LEMMA HandleType ==
    ASSUME DeviceTypeOK, NEW d \in Devices, NEW r \in Request, Handle(d, r)
    PROVE  /\ handled' \in [Devices -> Seq(Request)]
           /\ raw_http_request' \in [Devices -> Seq(RequestFragment)]
<1>1. Append(handled[d], r) \in Seq(Request)
  BY AppendProperties DEF DeviceTypeOK
<1> QED
  BY <1>1 DEF DeviceTypeOK, Handle

LEMMA RunTooLongType ==
    ASSUME TypeInv, NEW d \in Devices, RunTooLong(d)
    PROVE  DevicePart'
<1> DEFINE p == Incoming(d)
           raw == raw_http_request[d] \o p.data
<1>1. TakeFragment(d, p) /\ Reset(d) /\ UNCHANGED <<dstate, sending>>
  BY DEF RunTooLong
<1>2. /\ toDevice' \in [Devices -> Seq(SoundPacket)]
      /\ accepted' \in [Devices -> SUBSET RequestFragment]
      /\ raw \in Seq(RequestFragment) /\ raw # <<>>
  BY <1>1, TakeFragmentType
<1>3. toProxy' \in Seq(DevicePacket)
  BY <1>1, AckType DEF RunTooLong
<1>4. PICK r \in ParseOutcomes(raw) : Handle(d, r)
  BY DEF RunTooLong
<1> HIDE DEF raw
<1>5. r \in Request
  BY <1>2, <1>4, ParseType
<1>6. /\ handled' \in [Devices -> Seq(Request)]
      /\ raw_http_request' \in [Devices -> Seq(RequestFragment)]
  BY <1>4, <1>5, HandleType DEF TypeInv, TypeOK
<1>7. DeviceTypeOK' /\ RespondingInv'
  BY <1>1, <1>2, <1>6, ResetType
     DEF TypeInv, TypeOK, DeviceTypeOK, RespondingInv
<1> QED
  BY <1>2, <1>3, <1>7 DEF DevicePart

LEMMA FragmentType ==
    ASSUME NEW resp \in Response, NEW n \in Nat
    PROVE  Fragment(resp, n) \in Seq(ResponseFragment)
<1>1. [resp |-> resp, n |-> n, spoiled |-> FALSE] \in ResponseFragment
  BY DEF ResponseFragment
<1> QED
  BY <1>1 DEF Fragment

LEMMA RunRespondType ==
    ASSUME TypeInv, NEW d \in Devices, RunRespond(d)
    PROVE  DevicePart'
<1> DEFINE p == Incoming(d)
           raw == raw_http_request[d] \o p.data
           resp(r, n) == [req |-> r, trigger |-> Last(raw).req, size |-> n]
<1>1. /\ TakeFragment(d, p)
      /\ dstate' = [dstate EXCEPT ![d] = "sendData"]
      /\ session_id' = [session_id EXCEPT ![d] = p.session]
      /\ packet_counter' = [packet_counter EXCEPT ![d] = Counter(d, p)]
  BY DEF RunRespond
<1>2. /\ toDevice' \in [Devices -> Seq(SoundPacket)]
      /\ accepted' \in [Devices -> SUBSET RequestFragment]
      /\ raw \in Seq(RequestFragment) /\ raw # <<>>
      /\ p.count \in Nat /\ p.session \in WireSessions
      /\ Counter(d, p) = p.count
  BY <1>1, TakeFragmentType
<1>3. PICK r \in ParseOutcomes(raw), n \in ResponseSizes :
         /\ Handle(d, r)
         /\ sending' = [sending EXCEPT ![d] =
                            [NotSending EXCEPT !.resp = resp(r, n)]]
         /\ \E ack \in DevicePackets(d, "ACK", 1, p.session, <<>>),
               first \in DevicePackets(d, "DATA", n, p.session,
                                       Fragment(resp(r, n), n)) :
                toProxy' = PutSent(PutSent(toProxy, ack), first)
  BY DEF RunRespond
<1> HIDE DEF raw
<1>4. /\ r \in Request /\ n \in Nat \ {0}
      /\ resp(r, n) \in Response /\ resp(r, n).size = n
  BY <1>2, <1>3, ParseType, DeviceAssumption DEF Response
<1> HIDE DEF resp, p
<1>5. toProxy' \in Seq(DevicePacket)
  <2>1. PICK ack \in DevicePackets(d, "ACK", 1, p.session, <<>>),
             first \in DevicePackets(d, "DATA", n, p.session,
                                     Fragment(resp(r, n), n)) :
                toProxy' = PutSent(PutSent(toProxy, ack), first)
    BY <1>3
  <2>2. /\ "ACK" \in PacketType /\ "DATA" \in PacketType
        /\ <<>> \in Seq(ResponseFragment)
        /\ p.session \in Int /\ 1 \in Nat
        /\ toProxy \in Seq(DevicePacket)
    BY <1>2 DEF PacketType, WireSessions, TypeInv, TypeOK, NetworkTypeOK
  <2>3. Fragment(resp(r, n), n) \in Seq(ResponseFragment)
    BY <1>4, FragmentType
  <2>4. PutSent(toProxy, ack) \in Seq(DevicePacket)
    BY <2>1, <2>2, SendType
  <2> QED
    BY <1>4, <2>1, <2>2, <2>3, <2>4, SendType
<1>6. /\ handled' \in [Devices -> Seq(Request)]
      /\ raw_http_request' \in [Devices -> Seq(RequestFragment)]
  BY <1>3, <1>4, HandleType DEF TypeInv, TypeOK
<1>7. /\ sending' \in [Devices -> [resp: Response, i: Nat,
                                    retransmission_counter: Nat]]
      /\ sending'[d].i < sending'[d].resp.size
      /\ \A e \in Devices \ {d} : sending'[e] = sending[e]
  BY <1>3, <1>4 DEF TypeInv, TypeOK, DeviceTypeOK, NotSending
<1>8. DeviceTypeOK' /\ RespondingInv'
  BY <1>1, <1>2, <1>6, <1>7 DEF TypeInv, TypeOK, DeviceTypeOK, RespondingInv
<1> QED
  BY <1>2, <1>5, <1>8 DEF DevicePart

LEMMA ReturnToRunType ==
    ASSUME DeviceTypeOK, RespondingInv, NEW d \in Devices, ReturnToRun(d),
           UNCHANGED <<raw_http_request, accepted, handled>>
    PROVE  DeviceTypeOK' /\ RespondingInv'
<1>1. NotSending \in [resp: Response, i: Nat, retransmission_counter: Nat]
  BY DEF NotSending, Response, Garbage, Mixed, Request
<1>2. Reset(d)
  BY DEF ReturnToRun
<1> QED
  BY <1>1, <1>2, ResetType DEF ReturnToRun, DeviceTypeOK, RespondingInv

(* Fragment k of the response that is being sent.                          *)
LEMMA SendFragmentType ==
    ASSUME TypeInv, NEW d \in Devices, NEW k \in Nat,
           k < sending[d].resp.size, SendFragment(d, k)
    PROVE  toProxy' \in Seq(DevicePacket)
<1> DEFINE resp == sending[d].resp
           n == resp.size - k
<1>1. resp \in Response /\ n \in Nat
  BY DEF TypeInv, TypeOK, DeviceTypeOK, Response
<1>2. session_id[d] \in Int /\ toProxy \in Seq(DevicePacket)
  BY DEF TypeInv, TypeOK, DeviceTypeOK, NetworkTypeOK, WireSessions, Unset
<1>3. PICK sent \in DevicePackets(d, "DATA", n, session_id[d],
                                  Fragment(resp, n)) :
          toProxy' = PutSent(toProxy, sent)
  BY DEF SendFragment, Send
<1>4. "DATA" \in PacketType
  BY DEF PacketType
<1> HIDE DEF resp, n
<1> QED
  BY <1>1, <1>2, <1>3, <1>4, FragmentType, SendType

LEMMA SendDataAckType ==
    ASSUME TypeInv, NEW d \in Devices,
           SendDataNext(d) \/ SendDataDone(d) \/ SendDataError(d)
    PROVE  DevicePart'
<1>1. HasPacket(d) /\ Consume(d) /\ dstate[d] = "sendData"
      /\ UNCHANGED <<raw_http_request, accepted, handled>>
  BY DEF SendDataNext, SendDataDone, SendDataError
<1>2. toDevice' \in [Devices -> Seq(SoundPacket)]
  BY <1>1, IncomingType
<1>3. CASE SendDataNext(d)
  <2> DEFINE k == sending[d].i + 1
  <2>1. k \in Nat /\ k < sending[d].resp.size /\ SendFragment(d, k)
    BY <1>3 DEF SendDataNext, TypeInv, TypeOK, DeviceTypeOK
  <2>2. toProxy' \in Seq(DevicePacket)
    BY <2>1, SendFragmentType
  <2>3. /\ sending' = [sending EXCEPT ![d] =
                          [@ EXCEPT !.i = k, !.retransmission_counter = 0]]
        /\ UNCHANGED <<dstate, session_id, packet_counter>>
    BY <1>3 DEF SendDataNext
  <2> HIDE DEF k
  <2>4. /\ sending' \in [Devices -> [resp: Response, i: Nat,
                                      retransmission_counter: Nat]]
        /\ sending'[d].i = k /\ sending'[d].resp = sending[d].resp
        /\ \A e \in Devices \ {d} : sending'[e] = sending[e]
    <3>1. sending \in [Devices -> [resp: Response, i: Nat,
                                  retransmission_counter: Nat]]
      BY DEF TypeInv, TypeOK, DeviceTypeOK
    <3> DEFINE next == [sending[d] EXCEPT !.i = k, !.retransmission_counter = 0]
    <3>2. /\ next \in [resp: Response, i: Nat, retransmission_counter: Nat]
          /\ next.i = k /\ next.resp = sending[d].resp
      BY <2>1, <3>1
    <3>3. sending' = [sending EXCEPT ![d] = next]
      BY <2>3
    <3> HIDE DEF next
    <3> QED
      BY <3>1, <3>2, <3>3
  <2>5. DeviceTypeOK' /\ RespondingInv'
    BY <1>1, <2>1, <2>3, <2>4 DEF TypeInv, TypeOK, DeviceTypeOK, RespondingInv
  <2> QED
    BY <1>2, <2>2, <2>5 DEF DevicePart
<1>4. CASE SendDataDone(d) \/ SendDataError(d)
  <2>1. ReturnToRun(d) /\ UNCHANGED toProxy
    BY <1>4 DEF SendDataDone, SendDataError
  <2>2. DeviceTypeOK' /\ RespondingInv'
    BY <1>1, <2>1, ReturnToRunType DEF TypeInv, TypeOK
  <2> QED
    BY <1>2, <2>1, <2>2 DEF DevicePart, TypeInv, TypeOK, NetworkTypeOK
<1> QED
  BY <1>3, <1>4

(* No ACK: the fragment is sent again, or SendData gives up.               *)
LEMMA RetransmitType ==
    ASSUME TypeInv, NEW d \in Devices, dstate[d] = "sendData",
           Retransmit(d) \/ GiveUp(d),
           UNCHANGED <<raw_http_request, accepted, handled>>
    PROVE  /\ toProxy' \in Seq(DevicePacket)
           /\ DeviceTypeOK'
           /\ RespondingInv'
<1>1. CASE Retransmit(d)
  <2>1. sending[d].i \in Nat /\ sending[d].i < sending[d].resp.size
    BY DEF TypeInv, TypeOK, DeviceTypeOK, RespondingInv
  <2>2. toProxy' \in Seq(DevicePacket)
    BY <1>1, <2>1, SendFragmentType DEF Retransmit
  <2>3. /\ sending' \in [Devices -> [resp: Response, i: Nat,
                                      retransmission_counter: Nat]]
        /\ \A e \in Devices : /\ sending'[e].i = sending[e].i
                             /\ sending'[e].resp = sending[e].resp
    <3>1. sending \in [Devices -> [resp: Response, i: Nat,
                                  retransmission_counter: Nat]]
      BY DEF TypeInv, TypeOK, DeviceTypeOK
    <3>2. sending' = [sending EXCEPT ![d].retransmission_counter = @ + 1]
      BY <1>1 DEF Retransmit
    <3> HIDE DEF Response
    <3> QED
      BY <3>1, <3>2
  <2>4. UNCHANGED <<dstate, session_id, packet_counter>>
    BY <1>1 DEF Retransmit
  <2>5. DeviceTypeOK' /\ RespondingInv'
    BY <2>3, <2>4 DEF TypeInv, TypeOK, DeviceTypeOK, RespondingInv
  <2> QED
    BY <2>2, <2>5
<1>2. CASE GiveUp(d)
  <2>1. ReturnToRun(d) /\ UNCHANGED toProxy
    BY <1>2 DEF GiveUp
  <2> QED
    BY <2>1, ReturnToRunType DEF TypeInv, TypeOK, NetworkTypeOK
<1> QED
  BY <1>1, <1>2

LEMMA DeviceReceivesType ==
    ASSUME TypeInv, NEW d \in Devices, DeviceReceives(d)
    PROVE  DevicePart'
<1>1. CASE SendDataAgain(d)
  <2>1. HasPacket(d) /\ Consume(d) /\ dstate[d] = "sendData"
        /\ (Retransmit(d) \/ GiveUp(d))
        /\ UNCHANGED <<raw_http_request, accepted, handled>>
    BY <1>1 DEF SendDataAgain
  <2>2. toDevice' \in [Devices -> Seq(SoundPacket)]
    BY <2>1, IncomingType
  <2> QED
    BY <2>1, <2>2, RetransmitType DEF DevicePart
<1> QED
  BY <1>1, RunErrorType, RunFragmentType, RunUnparsedType, RunTooLongType,
     RunRespondType, SendDataAckType DEF DeviceReceives

-----------------------------------------------------------------------------
(* Faults, and an absent device.                                           *)
LEMMA FaultType ==
    ASSUME TypeInv, Fault
    PROVE  DevicePart' /\ UNCHANGED proxyVars /\ FaultsTypeOK'
<1> USE DEF TypeInv, TypeOK
<1>1. PICK kind : FaultOf(kind)
  BY DEF Fault, DisturbToProxy, DisturbToDevice, RestartDevice, DeviceRecvError
<1>2. UNCHANGED proxyVars /\ FaultsTypeOK'
  BY <1>1, TINsAssumption DEF FaultOf, FaultsTypeOK
<1>3. ASSUME NEW k \in Disturbances, NEW d \in Devices, DisturbToDevice(k, d)
      PROVE  DevicePart'
  <2>1. PICK queue \in Disturbed(k, toDevice[d]) :
            toDevice' = [toDevice EXCEPT ![d] = queue]
    BY <1>3 DEF DisturbToDevice
  <2>2. queue \in Seq(SoundPacket)
    BY <2>1, DisturbedKeeps
  <2> QED
    BY <1>3, <2>1, <2>2
       DEF DevicePart, DisturbToDevice, deviceVars, NetworkTypeOK,
           DeviceTypeOK, RespondingInv
<1>4. ASSUME NEW k \in Disturbances, DisturbToProxy(k)
      PROVE  DevicePart'
  <2>1. PICK queue \in Disturbed(k, toProxy) : toProxy' = queue
    BY <1>4 DEF DisturbToProxy
  <2>2. queue \in Seq(DevicePacket)
    BY <2>1, DisturbedKeeps DEF NetworkTypeOK
  <2> QED
    BY <1>4, <2>1, <2>2
       DEF DevicePart, DisturbToProxy, deviceVars, DeviceTypeOK, RespondingInv
<1>5. ASSUME NEW d \in Devices, RestartDevice(d)
      PROVE  DevicePart'
  <2>1. ReturnToRun(d) /\ UNCHANGED <<toProxy, accepted, handled>>
        /\ raw_http_request' = [raw_http_request EXCEPT ![d] = <<>>]
        /\ toDevice' = [toDevice EXCEPT ![d] = <<>>]
    BY <1>5 DEF RestartDevice, Restart
  <2>2. NotSending \in [resp: Response, i: Nat, retransmission_counter: Nat]
    BY DEF NotSending, Response, Garbage, Mixed, Request
  <2>3. dstate' = [dstate EXCEPT ![d] = "run"] /\ sending' = [sending EXCEPT ![d] = NotSending]
    BY <2>1 DEF ReturnToRun
  <2>4. /\ session_id' \in [Devices -> WireSessions \cup {Unset}]
        /\ packet_counter' \in [Devices -> Nat \cup {Unset}]
    BY <2>1, ResetType DEF ReturnToRun
  <2>5. DeviceTypeOK'
    <3>1. /\ dstate' \in [Devices -> {"run", "sendData"}]
          /\ sending' \in [Devices -> [resp: Response, i: Nat,
                                       retransmission_counter: Nat]]
      BY <2>2, <2>3 DEF DeviceTypeOK
    <3>2. raw_http_request' \in [Devices -> Seq(RequestFragment)]
      BY <2>1 DEF DeviceTypeOK
    <3> QED
      BY <2>1, <2>4, <3>1, <3>2 DEF DeviceTypeOK
  <2>6. RespondingInv'
    BY <2>3 DEF DeviceTypeOK, RespondingInv
  <2> QED
    BY <2>1, <2>5, <2>6 DEF DevicePart, NetworkTypeOK
<1>6. ASSUME NEW d \in Devices, DeviceRecvError(d)
      PROVE  DevicePart'
  <2>1. dstate[d] = "sendData" /\ (Retransmit(d) \/ GiveUp(d))
        /\ UNCHANGED <<toDevice, raw_http_request, accepted, handled>>
    BY <1>6 DEF DeviceRecvError, SendDataRecvFails
  <2> QED
    BY <2>1, RetransmitType DEF DevicePart
<1> QED
  BY <1>2, <1>3, <1>4, <1>5, <1>6 DEF Fault

LEMMA DropForAbsentType ==
    ASSUME TypeInv, NEW d \in Devices, DropForAbsent(d)
    PROVE  DevicePart'
BY IncomingType
   DEF DropForAbsent, DevicePart, deviceVars, TypeInv, TypeOK, NetworkTypeOK,
       DeviceTypeOK, RespondingInv

-----------------------------------------------------------------------------
(* Steps of the proxy.                                                     *)
LEMMA ProxyPacketType ==
    ASSUME NEW type \in PacketType, NEW count \in Nat, NEW session \in SessionChar,
           NEW data \in Seq(RequestFragment),
           type = "DATA" => count # 0 /\ Len(data) = 1
    PROVE  Packet(type, count, session, data) \in SoundPacket
<1>1. session \in Int
  BY DEF SessionChar
<1>2. /\ WireSession(session) \in WireSessions
      /\ WireCount(count, session) \in Nat
      /\ count # 0 => WireCount(count, session) # 0
  BY <1>1, WireTypes
<1> QED
  BY <1>2 DEF Packet, SoundPacket, ProxyPacket

LEMMA ChunkType ==
    ASSUME NEW r \in Request, NEW session \in SessionChar, NEW k \in Nat, k < r.size
    PROVE  Chunk(r, session, k) \in SoundPacket
<1>1. r.size - k \in Nat /\ r.size - k # 0 /\ "DATA" \in PacketType
  BY DEF Request, PacketType
<1>2. <<[req |-> r, n |-> r.size - k]>> \in Seq(RequestFragment)
  BY <1>1 DEF RequestFragment
<1> QED
  BY <1>1, <1>2, ProxyPacketType DEF Chunk

LEMMA ErrorsType ==
    ASSUME ProxyTypeOK
    PROVE  Errors \subseteq Seq(SoundPacket)
<1>1. "ERROR" \in PacketType /\ <<>> \in Seq(RequestFragment)
  BY DEF PacketType
<1>2. Packet("ERROR", 0, current_session_id, <<>>) \in SoundPacket
  BY <1>1, ProxyPacketType DEF ProxyTypeOK
<1> DEFINE error == Packet("ERROR", 0, current_session_id, <<>>)
<1>3. \A sent \in Errors : sent = <<>> \/ sent = <<error>>
  BY DEF Errors, Overlong
<1> HIDE DEF error
<1>4. <<error>> \in Seq(SoundPacket) /\ <<>> \in Seq(SoundPacket)
  BY <1>2 DEF error
<1> QED
  BY <1>3, <1>4

LEMMA SendToDeviceType ==
    ASSUME toDevice \in [Devices -> Seq(SoundPacket)], NEW packet \in SoundPacket,
           NEW d \in Devices,
           toDevice' = [toDevice EXCEPT ![d] = Put(@, packet)]
    PROVE  toDevice' \in [Devices -> Seq(SoundPacket)]
<1>1. Put(toDevice[d], packet) \in Seq(SoundPacket)
  BY PutKeeps
<1> QED
  BY <1>1

LEMMA SendErrorType ==
    ASSUME TypeInv, SendError, request.device \in Devices
    PROVE  toDevice' \in [Devices -> Seq(SoundPacket)]
<1>1. PICK sent \in Errors :
          toDevice' = [toDevice EXCEPT ![request.device] = PutSent(@, sent)]
  BY DEF SendError
<1>2. sent \in Seq(SoundPacket)
  BY <1>1, ErrorsType DEF TypeInv, TypeOK
<1>3. PutSent(toDevice[request.device], sent) \in Seq(SoundPacket)
  BY <1>2, PutSentKeeps DEF TypeInv
<1> QED
  BY <1>1, <1>3 DEF TypeInv

LEMMA ReplyType ==
    ASSUME NetworkTypeOK, HasReply
    PROVE  Reply \in DevicePacket /\ Tail(toProxy) \in Seq(DevicePacket)
BY HeadTailProperties DEF NetworkTypeOK, HasReply, Reply

LEMMA AnswerType ==
    ASSUME ProxyTypeOK, NEW r \in Request, NEW status \in Status,
           NEW body \in Seq(ResponseFragment)
    PROVE  Append(answers, [req |-> r, status |-> status, body |-> body])
             \in Seq(Answer)
BY AppendProperties DEF ProxyTypeOK, Answer

(* The part of the state a proxy step may change.                          *)
ProxyPart ==
    /\ toDevice \in [Devices -> Seq(SoundPacket)]
    /\ toProxy \in Seq(DevicePacket)
    /\ ProxyTypeOK
    /\ ForwardingInv

LEMMA ThrowType ==
    ASSUME ProxyTypeOK, NEW status \in Status, Throw(status),
           UNCHANGED <<session_ids, current_session_id, request, rcvtimeo>>
    PROVE  ProxyTypeOK' /\ ForwardingInv'
<1>1. answers' \in Seq(Answer)
  <2>1. request \in Request /\ <<>> \in Seq(ResponseFragment)
    BY DEF ProxyTypeOK
  <2> QED
    BY <2>1, AnswerType DEF Throw, AnswerClient
<1> QED
  BY <1>1 DEF Throw, AnswerClient, ProxyTypeOK, ForwardingInv

LEMMA NextRequestType ==
    ASSUME ProxyTypeOK, NEW kind \in RequestKinds
    PROVE  /\ NextRequest(kind) \in Request
           /\ NextRequest(kind).size = kind.size /\ kind.size \in Nat \ {0}
           /\ NextRequest(kind).device = kind.device
<1>1. Len(answers) + 1 \in Nat
  BY DEF ProxyTypeOK
<1> QED
  BY <1>1, ProxyAssumption DEF NextRequest, Request

LEMMA ClientStepType ==
    ASSUME TypeInv, ClientStep
    PROVE  ProxyPart'
<1> USE DEF TypeInv, TypeOK
<1>1. CASE Accept \/ ClientGone
  BY <1>1 DEF Accept, ClientGone, ProxyPart, network, NetworkTypeOK,
              ProxyTypeOK, ForwardingInv
<1>2. ASSUME NEW kind \in RequestKinds, RequestUnknown(kind)
      PROVE  ProxyPart'
  <2>1. answers' \in Seq(Answer)
    <3>1. NextRequest(kind) \in Request /\ <<>> \in Seq(ResponseFragment)
          /\ "502" \in Status
      BY NextRequestType DEF Status
    <3> QED
      BY <1>2, <3>1, AnswerType DEF RequestUnknown, AnswerClient
  <2> QED
    BY <1>2, <2>1 DEF RequestUnknown, AnswerClient, ProxyPart, network,
                      NetworkTypeOK, ProxyTypeOK, ForwardingInv
<1>3. ASSUME NEW kind \in RequestKinds, StartSession(kind)
      PROVE  /\ session_ids' \in [Devices -> SessionChar]
             /\ current_session_id' \in SessionChar
             /\ request' = NextRequest(kind) /\ request' \in Request
             /\ request'.device \in Devices /\ rcvtimeo' \in BOOLEAN
  <2>1. kind.device \in Devices /\ session_ids[kind.device] \in SessionChar
    BY <1>3 DEF StartSession, ProxyTypeOK
  <2>2. NextSession(session_ids[kind.device]) \in SessionChar
    BY <2>1, AAAAssumption DEF NextSession, SessionChar
  <2>3. NextRequest(kind) \in Request /\ NextRequest(kind).device = kind.device
    BY NextRequestType
  <2> QED
    BY <1>3, <2>1, <2>2, <2>3 DEF StartSession, ProxyTypeOK
<1>4. ASSUME NEW kind \in RequestKinds, RequestForward(kind)
      PROVE  ProxyPart'
  <2>1. StartSession(kind)
        /\ UNCHANGED <<toProxy, i, retry_counter, raw_http_response, answers>>
        /\ pstate = "client" /\ pstate' = "sendData"
    BY <1>4 DEF RequestForward, StartSession
  <2> DEFINE r == NextRequest(kind)
             session == NextSession(session_ids[kind.device])
  <2>2. /\ kind.device \in Devices /\ current_session_id' = session
        /\ toDevice' = [toDevice EXCEPT ![kind.device] =
                           Put(@, Chunk(r, session, 0))]
    BY <1>4 DEF RequestForward, StartSession
  <2>3. r \in Request /\ r.size \in Nat \ {0}
    BY NextRequestType
  <2>4. session \in SessionChar
    BY <1>3, <2>1, <2>2
  <2> HIDE DEF r, session
  <2>5. Chunk(r, session, 0) \in SoundPacket
    BY <2>3, <2>4, ChunkType
  <2>6. toDevice' \in [Devices -> Seq(SoundPacket)]
    BY <2>2, <2>5, SendToDeviceType
  <2>7. ProxyTypeOK'
    BY <1>3, <2>1 DEF ProxyTypeOK
  <2>8. ForwardingInv'
    BY <1>3, <2>1, <2>3 DEF ForwardingInv, r
  <2> QED
    BY <2>1, <2>6, <2>7, <2>8 DEF ProxyPart, NetworkTypeOK
<1>5. ASSUME NEW kind \in RequestKinds, RequestTooLong(kind)
      PROVE  ProxyPart'
  <2>1. StartSession(kind) /\ pstate' = "receiveData"
        /\ UNCHANGED <<network, i, retry_counter, raw_http_response, answers>>
    BY <1>5 DEF RequestTooLong
  <2>2. ProxyTypeOK' /\ ForwardingInv'
    BY <1>3, <2>1 DEF ProxyTypeOK, ForwardingInv
  <2> QED
    BY <2>1, <2>2 DEF ProxyPart, network, NetworkTypeOK
<1> QED
  BY <1>1, <1>2, <1>4, <1>5 DEF ClientStep

LEMMA SendDataReceivesType ==
    ASSUME TypeInv,
           AckNext \/ AckLast \/ AckWrongCount \/ AckWrongSession
             \/ SendDataWrongType
    PROVE  ProxyPart'
<1> USE DEF TypeInv, TypeOK
<1>1. pstate = "sendData" /\ HasReply /\ toProxy' = Tail(toProxy)
      /\ UNCHANGED <<session_ids, current_session_id, request>>
  BY DEF AckNext, AckLast, AckWrongCount, AckWrongSession,
         SendDataWrongType, SendDataReceives
<1>2. toProxy' \in Seq(DevicePacket)
  BY <1>1, ReplyType
<1>3. /\ request \in Request /\ request.device \in Devices
      /\ request.size \in Nat /\ i \in Nat /\ i < request.size
      /\ current_session_id \in SessionChar
  BY <1>1 DEF ForwardingInv, ProxyTypeOK, Request
<1>4. CASE AckNext
  <2>1. i + 1 \in Nat /\ i + 1 < request.size
    BY <1>3, <1>4 DEF AckNext
  <2>2. Chunk(request, current_session_id, i + 1) \in SoundPacket
    BY <1>3, <2>1, ChunkType
  <2>3. toDevice' \in [Devices -> Seq(SoundPacket)]
    BY <1>3, <1>4, <2>2, SendToDeviceType DEF AckNext, SendToDevice
  <2>4. ProxyTypeOK' /\ ForwardingInv'
    BY <1>1, <1>4, <2>1 DEF AckNext, ProxyTypeOK, ForwardingInv
  <2> QED
    BY <1>2, <2>3, <2>4 DEF ProxyPart
<1>5. CASE AckLast
  <2>1. /\ i' = i + 1 /\ retry_counter' = 0 /\ rcvtimeo' = FALSE
        /\ raw_http_response' = <<>> /\ pstate' = "receiveData"
        /\ UNCHANGED <<toDevice, answers>>
    BY <1>5 DEF AckLast
  <2>2. rcvtimeo' \in BOOLEAN
    BY <2>1, Zenon
  <2>3. ProxyTypeOK'
    <3>1. /\ i' \in Nat /\ retry_counter' \in Nat
          /\ raw_http_response' \in Seq(ResponseFragment)
      BY <1>3, <2>1
    <3> QED
      BY <1>1, <2>1, <2>2, <3>1 DEF ProxyTypeOK
  <2>4. ForwardingInv'
    BY <1>1, <1>3, <2>1 DEF ForwardingInv
  <2> QED
    BY <1>2, <2>1, <2>3, <2>4 DEF ProxyPart
<1>6. Chunk(request, current_session_id, i) \in SoundPacket
  BY <1>3, ChunkType
<1>7. CASE AckWrongCount
  <2>1. toDevice' \in [Devices -> Seq(SoundPacket)]
    BY <1>3, <1>6, <1>7, SendToDeviceType DEF AckWrongCount, SendToDevice
  <2>2. ProxyTypeOK' /\ ForwardingInv'
    BY <1>7 DEF AckWrongCount, ProxyTypeOK, ForwardingInv
  <2> QED
    BY <1>2, <2>1, <2>2 DEF ProxyPart
<1>8. CASE AckWrongSession
  <2>1. PICK sent \in Errors :
            toDevice' = [toDevice EXCEPT ![request.device] =
                            Put(PutSent(@, sent),
                                Chunk(request, current_session_id, i))]
    BY <1>8 DEF AckWrongSession
  <2>2. PutSent(toDevice[request.device], sent) \in Seq(SoundPacket)
    BY <1>3, <2>1, ErrorsType, PutSentKeeps
  <2>3. toDevice' \in [Devices -> Seq(SoundPacket)]
    BY <1>3, <1>6, <2>1, <2>2, PutKeeps
  <2>4. ProxyTypeOK' /\ ForwardingInv'
    BY <1>8 DEF AckWrongSession, ProxyTypeOK, ForwardingInv
  <2> QED
    BY <1>2, <2>3, <2>4 DEF ProxyPart
<1>9. CASE SendDataWrongType
  <2>1. SendError /\ Throw("500") /\ "500" \in Status
        /\ UNCHANGED <<session_ids, current_session_id, request, rcvtimeo>>
    BY <1>9 DEF SendDataWrongType, Status
  <2>2. toDevice' \in [Devices -> Seq(SoundPacket)]
    BY <1>3, <2>1, SendErrorType
  <2>3. ProxyTypeOK' /\ ForwardingInv'
    BY <2>1, ThrowType
  <2> QED
    BY <1>2, <2>2, <2>3 DEF ProxyPart
<1> QED
  BY <1>4, <1>5, <1>7, <1>8, <1>9

LEMMA ReceiveDataReceivesType ==
    ASSUME TypeInv, ResponseWrongSession \/ ResponseMore \/ ResponseLast
    PROVE  ProxyPart'
<1> USE DEF TypeInv, TypeOK
<1>1. /\ pstate = "receiveData" /\ HasReply /\ toProxy' = Tail(toProxy)
      /\ UNCHANGED <<session_ids, current_session_id, request, rcvtimeo>>
  BY DEF ResponseWrongSession, ResponseMore, ResponseLast, ReceiveDataReceives
<1>2. toProxy' \in Seq(DevicePacket) /\ Reply \in DevicePacket
  BY <1>1, ReplyType
<1>3. request \in Request /\ request.device \in Devices
  BY <1>1 DEF ForwardingInv, ProxyTypeOK
<1>4. ResponseSoFar \in Seq(ResponseFragment)
  <2>1. raw_http_response \in Seq(ResponseFragment)
        /\ Reply.data \in Seq(ResponseFragment)
    BY <1>2 DEF ProxyTypeOK, DevicePacket
  <2> QED
    BY <2>1, ConcatProperties DEF ResponseSoFar
<1>5. AcknowledgeData => toDevice' \in [Devices -> Seq(SoundPacket)]
  <2>1. Packet("ACK", Reply.count, current_session_id, <<>>) \in SoundPacket
    <3>1. /\ "ACK" \in PacketType /\ <<>> \in Seq(RequestFragment)
          /\ Reply.count \in Nat /\ current_session_id \in SessionChar
      BY <1>2 DEF PacketType, DevicePacket, ProxyTypeOK
    <3> QED
      BY <3>1, ProxyPacketType
  <2> QED
    BY <1>3, <2>1, SendToDeviceType DEF AcknowledgeData, SendToDevice
<1>6. CASE ResponseWrongSession
  <2>1. SendError /\ Throw("500") /\ "500" \in Status
    BY <1>6 DEF ResponseWrongSession, Status
  <2> QED
    BY <1>1, <1>2, <1>3, <2>1, SendErrorType, ThrowType DEF ProxyPart
<1>7. CASE ResponseMore
  <2>1. raw_http_response' = ResponseSoFar
        /\ UNCHANGED <<pstate, i, retry_counter, answers>>
    BY <1>7 DEF ResponseMore
  <2>2. ProxyTypeOK'
    BY <1>1, <1>4, <2>1 DEF ProxyTypeOK
  <2>3. ForwardingInv'
    BY <1>1, <2>1 DEF ForwardingInv
  <2> QED
    BY <1>2, <1>5, <1>7, <2>2, <2>3 DEF ResponseMore, ProxyPart
<1>8. CASE ResponseLast
  <2>1. answers' \in Seq(Answer)
    <3>1. "forwarded" \in Status
      BY DEF Status
    <3> QED
      BY <1>3, <1>4, <1>8, <3>1, AnswerType DEF ResponseLast, AnswerClient
  <2>2. ProxyTypeOK' /\ ForwardingInv'
    BY <1>1, <1>8, <2>1
       DEF ResponseLast, AnswerClient, ProxyTypeOK, ForwardingInv
  <2> QED
    BY <1>2, <1>5, <1>8, <2>2 DEF ResponseLast, ProxyPart
<1> QED
  BY <1>6, <1>7, <1>8

LEMMA ProxyTimesOutType ==
    ASSUME TypeInv, ProxyTimesOut
    PROVE  ProxyPart'
<1> USE DEF TypeInv, TypeOK
<1>1. CASE Resend
  <2>1. /\ pstate = "sendData" /\ i \in Nat /\ i < request.size
        /\ request \in Request /\ request.device \in Devices
        /\ current_session_id \in SessionChar
    BY <1>1 DEF Resend, SendDataTimesOut, ForwardingInv, ProxyTypeOK
  <2>2. Chunk(request, current_session_id, i) \in SoundPacket
    BY <2>1, ChunkType
  <2>3. toDevice' \in [Devices -> Seq(SoundPacket)]
    BY <1>1, <2>1, <2>2, SendToDeviceType DEF Resend, SendToDevice
  <2> QED
    BY <1>1, <2>3 DEF Resend, SendDataTimesOut, ProxyPart, NetworkTypeOK,
                      ProxyTypeOK, ForwardingInv
<1>2. CASE MaxRetransmissionsReached \/ ResponseTimesOut
  <2>1. PICK status \in Status : Throw(status)
    BY <1>2 DEF MaxRetransmissionsReached, ResponseTimesOut, Status
  <2>2. UNCHANGED <<network, session_ids, current_session_id, request, rcvtimeo>>
    BY <1>2 DEF MaxRetransmissionsReached, ResponseTimesOut,
                SendDataTimesOut, network
  <2> QED
    BY <2>1, <2>2, ThrowType DEF ProxyPart, network, NetworkTypeOK
<1> QED
  BY <1>1, <1>2 DEF ProxyTimesOut

-----------------------------------------------------------------------------
(* TypeInv is inductive.                                                   *)
LEMMA TypeInvStep == TypeInv /\ [Next]_vars => TypeInv'
<1> SUFFICES ASSUME TypeInv, [Next]_vars PROVE TypeInv'
  OBVIOUS
<1>1. \A p \in SoundPacket : p \in ProxyPacket
  BY DEF SoundPacket
<1>2. toDevice' \in [Devices -> Seq(SoundPacket)]
        => toDevice' \in [Devices -> Seq(ProxyPacket)]
  BY <1>1, SeqMonotonic
<1>3. UNCHANGED faults => FaultsTypeOK'
  BY DEF TypeInv, TypeOK, FaultsTypeOK
<1>4. ASSUME DevicePart', UNCHANGED proxyVars, FaultsTypeOK'
      PROVE  TypeInv'
  BY <1>2, <1>4 DEF DevicePart, TypeInv, TypeOK, NetworkTypeOK, proxyVars,
                    ProxyTypeOK, ForwardingInv
<1>5. CASE ProxyNext
  <2>1. ProxyPart'
    BY <1>5, ClientStepType, SendDataReceivesType, ReceiveDataReceivesType,
       ProxyTimesOutType DEF ProxyNext, ProxyReceives
  <2> QED
    BY <1>2, <1>3, <1>5, <2>1 DEF ProxyNext, ProxyPart, TypeInv, TypeOK,
         NetworkTypeOK, deviceVars, DeviceTypeOK, RespondingInv
<1>6. CASE Fault
  BY <1>4, <1>6, FaultType
<1>7. ASSUME NEW d \in Devices, DeviceNext(d)
      PROVE  TypeInv'
  <2>1. DevicePart'
    BY <1>7, DeviceReceivesType DEF DeviceNext
  <2> QED
    BY <1>4, <1>3, <1>7, <2>1 DEF DeviceNext
<1>8. ASSUME NEW d \in Devices, DropForAbsent(d)
      PROVE  TypeInv'
  BY <1>4, <1>3, <1>8, DropForAbsentType DEF DropForAbsent
<1>9. CASE UNCHANGED vars
  BY <1>3, <1>9 DEF vars, network, proxyVars, deviceVars, TypeInv, TypeOK,
       NetworkTypeOK, ProxyTypeOK, DeviceTypeOK, ForwardingInv, RespondingInv
<1> QED
  BY <1>5, <1>6, <1>7, <1>8, <1>9 DEF Next

LEMMA TypeInvariant == Spec => []TypeInv
BY TypeInvInit, TypeInvStep, PTL DEF Spec

(* The variables of the proxy and the devices stay within their types: in  *)
(* particular no fragment number or count is ever computed below zero, and *)
(* every session on the wire fits its field (proxy.cpp and device.cpp, all *)
(* of Run, SendDataDevice, ReceiveDataDevice and SendData).                *)
THEOREM TypeCorrect == Spec => []TypeOK
<1>1. TypeInv => TypeOK
  BY DEF TypeInv
<1> QED
  BY <1>1, TypeInvariant, PTL

-----------------------------------------------------------------------------
LEMMA ResetPairs ==
    ASSUME TypeInv, SessionPairing, NEW d \in Devices, Reset(d),
           dstate' = dstate \/ dstate' = [dstate EXCEPT ![d] = "run"]
    PROVE  SessionPairing'
<1>1. /\ session_id'[d] = Unset /\ packet_counter'[d] = Unset
      /\ \A e \in Devices \ {d} : /\ session_id'[e] = session_id[e]
                                 /\ packet_counter'[e] = packet_counter[e]
                                 /\ dstate'[e] = dstate[e]
  BY DEF Reset, TypeInv, TypeOK, DeviceTypeOK
<1> QED
  BY <1>1 DEF SessionPairing

LEMMA RetransmitPairs ==
    ASSUME TypeInv, SessionPairing, NEW d \in Devices, Retransmit(d) \/ GiveUp(d)
    PROVE  SessionPairing'
<1>1. CASE Retransmit(d)
  BY <1>1 DEF Retransmit, SessionPairing
<1>2. CASE GiveUp(d)
  BY <1>2, ResetPairs DEF GiveUp, ReturnToRun
<1> QED
  BY <1>1, <1>2

LEMMA DevicePairs ==
    ASSUME TypeInv, SessionPairing, NEW d \in Devices, DeviceReceives(d)
    PROVE  SessionPairing'
<1>1. CASE \/ RunWrongCount(d) \/ RunWrongSession(d) \/ RunWrongType(d)
          \/ RunUnparsed(d) \/ RunTooLong(d)
  BY <1>1, ResetPairs
     DEF RunWrongCount, RunWrongSession, RunWrongType, RunUnparsed, RunTooLong
<1>2. CASE RunFragment(d)
  <2> DEFINE p == Incoming(d)
  <2>1. /\ p.session \in WireSessions /\ p.count \in Nat \ {0} /\ p.count # 1
        /\ session_id' = [session_id EXCEPT ![d] = p.session]
        /\ packet_counter' = [packet_counter EXCEPT ![d] = p.count - 1]
        /\ dstate' = dstate
    BY <1>2, TakeFragmentType DEF RunFragment
  <2>2. p.session # Unset /\ p.count - 1 # Unset
    BY <2>1 DEF WireSessions, Unset
  <2> QED
    BY <2>1, <2>2 DEF SessionPairing, TypeInv, TypeOK, DeviceTypeOK
<1>3. CASE RunRespond(d)
  BY <1>3 DEF RunRespond, SessionPairing, TypeInv, TypeOK, DeviceTypeOK
<1>4. CASE SendDataNext(d)
  BY <1>4 DEF SendDataNext, SessionPairing
<1>5. CASE SendDataDone(d) \/ SendDataError(d)
  BY <1>5, ResetPairs DEF SendDataDone, SendDataError, ReturnToRun
<1>6. CASE SendDataAgain(d)
  BY <1>6, RetransmitPairs DEF SendDataAgain
<1> QED
  BY <1>1, <1>2, <1>3, <1>4, <1>5, <1>6 DEF DeviceReceives

LEMMA SessionPairingStep ==
    TypeInv /\ SessionPairing /\ [Next]_vars => SessionPairing'
<1> SUFFICES ASSUME TypeInv, SessionPairing, [Next]_vars PROVE SessionPairing'
  OBVIOUS
<1>1. CASE UNCHANGED deviceVars
  BY <1>1 DEF deviceVars, SessionPairing
<1>2. ASSUME NEW d \in Devices, RestartDevice(d) PROVE SessionPairing'
  BY <1>2, ResetPairs DEF RestartDevice, Restart, ReturnToRun
<1>3. ASSUME NEW d \in Devices, DeviceRecvError(d) PROVE SessionPairing'
  BY <1>3, RetransmitPairs DEF DeviceRecvError, SendDataRecvFails
<1>4. CASE Fault
  BY <1>1, <1>2, <1>3, <1>4 DEF Fault, DisturbToProxy, DisturbToDevice
<1>5. ASSUME NEW d \in Devices, DeviceNext(d) PROVE SessionPairing'
  BY <1>5, DevicePairs DEF DeviceNext
<1> QED
  BY <1>1, <1>4, <1>5 DEF Next, ProxyNext, DropForAbsent, vars

LEMMA SessionPairingInit == Init => SessionPairing
BY DEF Init, DeviceInit, SessionPairing

(* No path through Run and SendData, no fault and no over-read of the      *)
(* stack leaves a device in Run with a session but no packet counter, or   *)
(* the other way round (device.cpp, the resets at 70, 88, 100, 121).       *)
THEOREM SessionPairingHolds == Spec => []SessionPairing
BY SessionPairingInit, SessionPairingStep, TypeInvariant, PTL DEF Spec
=============================================================================
