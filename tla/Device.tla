------------------------------- MODULE Device -------------------------------
(***************************************************************************)
(* The device program (src/src/device/device.cpp): one single-threaded     *)
(* process per member of Devices.                                          *)
(*                                                                         *)
(* A device blocks only in recv, so an action is what it does from one     *)
(* recv to the next: in Run, where it assembles a request ("run"), or in   *)
(* SendData, where it waits for the acknowledgement of a fragment of its   *)
(* response ("sendData").  SetRecvTimeout(true) stores 0.8 in an integer   *)
(* number of seconds and so sets no timeout: neither recv ever gives up,   *)
(* and a device has no timeout action.                                     *)
(***************************************************************************)
EXTENDS Network

CONSTANTS
    ResponseSizes    \* numbers of fragments a response may have

ASSUME DeviceAssumption == ResponseSizes \subseteq Nat \ {0}

VARIABLES
    dstate,             \* where the device blocks: "run" or "sendData"
    session_id,         \* the session being assembled or answered, or Unset
    packet_counter,     \* count expected of the next fragment, or Unset
    raw_http_request,   \* fragments received and not yet parsed
    sending,            \* SendData's locals: response, i and retransmissions
    accepted,           \* history: request fragments taken into the buffer
    handled             \* history: requests HandleRequest was called with

deviceVars == <<dstate, session_id, packet_counter, raw_http_request,
                sending, accepted, handled>>

NotSending ==
    [resp |-> [req |-> Garbage, trigger |-> Garbage, size |-> 0],
     i |-> 0, retransmission_counter |-> 0]

DeviceTypeOK ==
    /\ dstate \in [Devices -> {"run", "sendData"}]
    /\ session_id \in [Devices -> WireSessions \cup {Unset}]
    /\ packet_counter \in [Devices -> Nat \cup {Unset}]
    /\ raw_http_request \in [Devices -> Seq(RequestFragment)]
    /\ sending \in [Devices -> [resp: Response, i: Nat,
                                retransmission_counter: Nat]]
    /\ accepted \in [Devices -> SUBSET RequestFragment]
    /\ handled \in [Devices -> Seq(Request)]

DeviceInit ==
    /\ dstate = [d \in Devices |-> "run"]
    /\ session_id = [d \in Devices |-> Unset]
    /\ packet_counter = [d \in Devices |-> Unset]
    /\ raw_http_request = [d \in Devices |-> <<>>]
    /\ sending = [d \in Devices |-> NotSending]
    /\ accepted = [d \in Devices |-> {}]
    /\ handled = [d \in Devices |-> <<>>]

-----------------------------------------------------------------------------
(***************************************************************************)
(* SendPacket builds the datagram with `header + data`, header being two   *)
(* chars taken as a NUL-terminated string.  A zero second byte is lost,    *)
(* and the first byte of the payload takes its place: it may be any byte.  *)
(* Otherwise the string runs on to the next zero byte of the stack: with   *)
(* StackJunk the payload may be spoiled by what lies there, or, when the   *)
(* datagram gets longer than max_packet_size, not be sent.  A fragment     *)
(* other than the last fills the datagram, so it can only be dropped.      *)
(***************************************************************************)
Spoil(data) == [k \in 1 .. Len(data) |-> [data[k] EXCEPT !.spoiled = TRUE]]

DevicePackets(d, type, count, session, data) ==
    LET packet(c, s, payload) ==
            [type |-> type, count |-> c, session |-> s, data |-> payload,
             from |-> d]
        c == WireCount(count, session)
        s == WireSession(session)
        zero == c % 2 = 0 /\ s = 0
        full == type = "DATA" /\ count > 1
    IN  (IF zero /\ type # "ACK"
           THEN { <<packet(c + low, any, Spoil(data))>> :
                     low \in 0 .. 1, any \in WireSessions }
           ELSE {<<packet(c, s, data)>>})
        \cup (IF StackJunk /\ ~zero /\ ~full
                THEN {<<packet(c, s, Spoil(data))>>} ELSE {})
        \cup (IF zero /\ type # "ERROR" THEN {} ELSE Overlong)

Send(d, type, count, session, data) ==
    \E sent \in DevicePackets(d, type, count, session, data) :
        toProxy' = PutSent(toProxy, sent)

(***************************************************************************)
(* ParseRequest on the fragments in the buffer.  RequestMessage::parse     *)
(* reads one request from the front and ignores what follows it.  When the *)
(* buffer does not begin with a whole, well-formed request, what it reads  *)
(* depends on the bytes: the request whose first line is there, a request  *)
(* nobody sent, or none.                                                   *)
(***************************************************************************)
BeginsWith(raw, r) ==
    /\ r.size <= Len(raw)
    /\ \A k \in 1 .. r.size : raw[k] = [req |-> r, n |-> r.size + 1 - k]

ParseOutcomes(raw) ==
    LET first == raw[1].req
    IN  IF BeginsWith(raw, first) /\ (first.ok \/ Len(raw) = first.size)
          THEN {first}
          ELSE {Mixed, Garbage}
               \cup (IF raw[1].n = first.size THEN {first} ELSE {})

-----------------------------------------------------------------------------
HasPacket(d) == toDevice[d] # <<>>

Incoming(d) == Head(toDevice[d])

Consume(d) == toDevice' = [toDevice EXCEPT ![d] = Tail(@)]

(* Mutant of Reset: the packet counter is forgotten.                       *)
ResetSession(d) ==
    /\ session_id' = [session_id EXCEPT ![d] = Unset]
    /\ UNCHANGED packet_counter

Reset(d) ==
    /\ session_id' = [session_id EXCEPT ![d] = Unset]
    /\ packet_counter' = [packet_counter EXCEPT ![d] = Unset]

(* Mutant of CountExpected: the counter is not verified.                   *)
AnyCount(d, p) == TRUE

CountExpected(d, p) == packet_counter[d] \in {Unset, p.count}

(* The counter, once it is initialised or verified.                        *)
Counter(d, p) == IF packet_counter[d] = Unset THEN p.count ELSE packet_counter[d]

SessionExpected(d, p) == session_id[d] \in {Unset, p.session}

(* Mutant of RunWrongCount: the packet is dropped without an ERROR.        *)
DropWrongCount(d) ==
    /\ dstate[d] = "run" /\ HasPacket(d)
    /\ ~CountExpected(d, Incoming(d))
    /\ Consume(d)
    /\ Reset(d)
    /\ UNCHANGED <<dstate, toProxy, raw_http_request, sending, accepted, handled>>

(* Run, a packet whose count is not the one expected.                      *)
RunWrongCount(d) ==
    LET p == Incoming(d)
    IN  /\ dstate[d] = "run" /\ HasPacket(d)
        /\ ~CountExpected(d, p)
        /\ Consume(d)
        /\ Send(d, "ERROR", 0, p.session, <<>>)
        /\ Reset(d)
        /\ UNCHANGED <<dstate, raw_http_request, sending, accepted, handled>>

(* Run, a DATA packet of another session.                                  *)
RunWrongSession(d) ==
    LET p == Incoming(d)
    IN  /\ dstate[d] = "run" /\ HasPacket(d)
        /\ CountExpected(d, p)
        /\ p.type = "DATA" /\ ~SessionExpected(d, p)
        /\ Consume(d)
        /\ Send(d, "ERROR", 0, session_id[d], <<>>)
        /\ Reset(d)
        /\ UNCHANGED <<dstate, raw_http_request, sending, accepted, handled>>

(* Run, a packet that is not DATA.  session_id may be -1 here.             *)
RunWrongType(d) ==
    LET p == Incoming(d)
    IN  /\ dstate[d] = "run" /\ HasPacket(d)
        /\ CountExpected(d, p)
        /\ p.type # "DATA"
        /\ Consume(d)
        /\ Send(d, "ERROR", Counter(d, p), session_id[d], <<>>)
        /\ Reset(d)
        /\ UNCHANGED <<dstate, raw_http_request, sending, accepted, handled>>

(* What the branches that take a fragment have in common, up to the ACK.   *)
TakeFragment(d, p) ==
    /\ dstate[d] = "run" /\ HasPacket(d)
    /\ CountExpected(d, p)
    /\ p.type = "DATA" /\ SessionExpected(d, p)
    /\ Consume(d)
    /\ accepted' = [accepted EXCEPT ![d] = @ \cup Range(p.data)]

(* Run, a fragment that is not the last of its request.                    *)
RunFragment(d) ==
    LET p == Incoming(d)
    IN  /\ TakeFragment(d, p)
        /\ Counter(d, p) # 1
        /\ raw_http_request' = [raw_http_request EXCEPT ![d] = @ \o p.data]
        /\ session_id' = [session_id EXCEPT ![d] = p.session]
        /\ packet_counter' = [packet_counter EXCEPT ![d] = Counter(d, p) - 1]
        /\ Send(d, "ACK", Counter(d, p), p.session, <<>>)
        /\ UNCHANGED <<dstate, sending, handled>>

(* Run, the last fragment of a request that cannot be parsed: no response, *)
(* and raw_http_request keeps the text.                                    *)
RunUnparsed(d) ==
    LET p == Incoming(d)
        raw == raw_http_request[d] \o p.data
    IN  /\ TakeFragment(d, p)
        /\ Counter(d, p) = 1
        /\ \E r \in ParseOutcomes(raw) : ~r.ok
        /\ raw_http_request' = [raw_http_request EXCEPT ![d] = raw]
        /\ Reset(d)
        /\ Send(d, "ACK", Counter(d, p), p.session, <<>>)
        /\ UNCHANGED <<dstate, sending, handled>>

(* HandleRequest: the request is carried out and its text forgotten.       *)
Handle(d, r) ==
    /\ handled' = [handled EXCEPT ![d] = Append(@, r)]
    /\ raw_http_request' = [raw_http_request EXCEPT ![d] = <<>>]

(* Run, the last fragment of a request whose response has too many         *)
(* fragments: SendData returns before it sends any.                        *)
RunTooLong(d) ==
    LET p == Incoming(d)
        raw == raw_http_request[d] \o p.data
    IN  /\ TakeFragment(d, p)
        /\ Counter(d, p) = 1
        /\ \E r \in ParseOutcomes(raw) : r.ok /\ Handle(d, r)
        /\ \E n \in ResponseSizes : n > MaxCount
        /\ Reset(d)
        /\ Send(d, "ACK", Counter(d, p), p.session, <<>>)
        /\ UNCHANGED <<dstate, sending>>

Fragment(resp, n) == <<[resp |-> resp, n |-> n, spoiled |-> FALSE]>>

(* Run, the last fragment of a request: it is acknowledged and handled,    *)
(* and SendData sends the first fragment of the response.                  *)
RunRespond(d) ==
    LET p == Incoming(d)
        raw == raw_http_request[d] \o p.data
    IN  /\ TakeFragment(d, p)
        /\ Counter(d, p) = 1
        /\ \E r \in ParseOutcomes(raw), n \in ResponseSizes :
             LET resp == [req |-> r, trigger |-> Last(raw).req, size |-> n]
             IN  /\ r.ok
                 /\ n <= MaxCount
                 /\ Handle(d, r)
                 /\ sending' = [sending EXCEPT ![d] =
                        [NotSending EXCEPT !.resp = resp]]
                 /\ \E ack \in DevicePackets(d, "ACK", 1, p.session, <<>>),
                       first \in DevicePackets(d, "DATA", n, p.session,
                                               Fragment(resp, n)) :
                        toProxy' = PutSent(PutSent(toProxy, ack), first)
        /\ dstate' = [dstate EXCEPT ![d] = "sendData"]
        /\ session_id' = [session_id EXCEPT ![d] = p.session]
        /\ packet_counter' = [packet_counter EXCEPT ![d] = Counter(d, p)]

-----------------------------------------------------------------------------
(* SendData sends fragment i.                                              *)
SendFragment(d, i) ==
    LET resp == sending[d].resp
    IN  Send(d, "DATA", resp.size - i, session_id[d],
             Fragment(resp, resp.size - i))

(* SendData returns, and Run gets ready for the next request.              *)
ReturnToRun(d) ==
    /\ dstate' = [dstate EXCEPT ![d] = "run"]
    /\ sending' = [sending EXCEPT ![d] = NotSending]
    /\ Reset(d)

(* SendData, an ACK, whatever its count and session: the next fragment.    *)
SendDataNext(d) ==
    LET i == sending[d].i + 1
    IN  /\ dstate[d] = "sendData" /\ HasPacket(d)
        /\ Incoming(d).type = "ACK"
        /\ i < sending[d].resp.size
        /\ Consume(d)
        /\ sending' = [sending EXCEPT ![d] =
               [@ EXCEPT !.i = i, !.retransmission_counter = 0]]
        /\ SendFragment(d, i)
        /\ UNCHANGED <<dstate, session_id, packet_counter, raw_http_request,
                       accepted, handled>>

(* SendData, the ACK after which there is nothing left to send.            *)
SendDataDone(d) ==
    /\ dstate[d] = "sendData" /\ HasPacket(d)
    /\ Incoming(d).type = "ACK"
    /\ sending[d].i + 1 >= sending[d].resp.size
    /\ Consume(d)
    /\ ReturnToRun(d)
    /\ UNCHANGED <<toProxy, raw_http_request, accepted, handled>>

(* SendData, an ERROR: the rest of the response is not sent.               *)
SendDataError(d) ==
    /\ dstate[d] = "sendData" /\ HasPacket(d)
    /\ Incoming(d).type = "ERROR"
    /\ Consume(d)
    /\ ReturnToRun(d)
    /\ UNCHANGED <<toProxy, raw_http_request, accepted, handled>>

MayRetransmit(d) == sending[d].retransmission_counter < MaxRetransmissions

Retransmit(d) ==
    /\ MayRetransmit(d)
    /\ sending' = [sending EXCEPT ![d].retransmission_counter = @ + 1]
    /\ SendFragment(d, sending[d].i)
    /\ UNCHANGED <<dstate, session_id, packet_counter>>

GiveUp(d) ==
    /\ ~MayRetransmit(d)
    /\ ReturnToRun(d)
    /\ UNCHANGED toProxy

(* SendData, DATA where an ACK was expected: the fragment is sent again.   *)
SendDataAgain(d) ==
    /\ dstate[d] = "sendData" /\ HasPacket(d)
    /\ Incoming(d).type = "DATA"
    /\ Consume(d)
    /\ Retransmit(d) \/ GiveUp(d)
    /\ UNCHANGED <<raw_http_request, accepted, handled>>

(* SendData, recv fails: the buffer is all zeroes, of no packet type, and  *)
(* the code goes the same way.                                             *)
SendDataRecvFails(d) ==
    /\ dstate[d] = "sendData"
    /\ Retransmit(d) \/ GiveUp(d)
    /\ UNCHANGED <<toDevice, raw_http_request, accepted, handled>>

(* The process is killed and started again: everything it and its socket   *)
(* held is gone.                                                           *)
Restart(d) ==
    /\ ReturnToRun(d)
    /\ raw_http_request' = [raw_http_request EXCEPT ![d] = <<>>]
    /\ toDevice' = [toDevice EXCEPT ![d] = <<>>]
    /\ UNCHANGED <<toProxy, accepted, handled>>

(* Every step of device d that starts with the receipt of a packet.        *)
DeviceReceives(d) ==
    \/ RunWrongCount(d) \/ RunWrongSession(d) \/ RunWrongType(d)
    \/ RunFragment(d) \/ RunUnparsed(d) \/ RunTooLong(d) \/ RunRespond(d)
    \/ SendDataNext(d) \/ SendDataDone(d) \/ SendDataError(d)
    \/ SendDataAgain(d)
=============================================================================
