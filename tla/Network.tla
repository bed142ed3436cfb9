------------------------------ MODULE Network -------------------------------
(***************************************************************************)
(* The UDP datagrams between the proxy and the devices.                    *)
(*                                                                         *)
(* toDevice[d] holds what has been sent to d and not yet received;         *)
(* toProxy holds what all the devices have sent to the proxy's one device  *)
(* socket.  A queue stands for the datagrams in flight and for the         *)
(* socket's receive buffer together, QueueCap for the size of that buffer: *)
(* a datagram that does not fit is dropped without notice.                 *)
(***************************************************************************)
EXTENDS AAA, SequencesExt

CONSTANTS
    Devices,      \* the members of "devices" in the configuration file
    Absent,       \* those of them whose process is not running
    NoDevice,     \* any other name a client may put in a path
    QueueCap,     \* datagrams a receive buffer holds
    StackJunk     \* may SendPacket read past its stack variables?

ASSUME NetworkAssumption ==
    /\ Absent \subseteq Devices
    /\ NoDevice \notin Devices
    /\ QueueCap \in Nat \ {0}
    /\ StackJunk \in BOOLEAN

VARIABLES
    toDevice,     \* [Devices -> sequence of packets]
    toProxy       \* sequence of packets

network == <<toDevice, toProxy>>

(* What a client sends: an HTTP request, of which the protocol sees only   *)
(* the device named in the path, the number of fragments its text makes    *)
(* and whether RequestMessage::parse accepts the text.                     *)
Request == [id: Nat, device: Devices \cup {NoDevice}, size: Nat, ok: BOOLEAN]

(* What a device may find in a text that no client sent: something it      *)
(* parses, or nothing.                                                     *)
Mixed   == [id |-> 0, device |-> NoDevice, size |-> 0, ok |-> TRUE]
Garbage == [Mixed EXCEPT !.ok = FALSE]

(* A response: to the request `req` the device found in its buffer, after  *)
(* it received the last fragment of the request `trigger`.                 *)
Response == [req: Request, trigger: Request, size: Nat]

(* Fragment n counts down: n = size is the first, n = 1 the last.          *)
RequestFragment  == [req: Request, n: Nat]
ResponseFragment == [resp: Response, n: Nat, spoiled: BOOLEAN]

(* `data` is the payload, a sequence of one fragment or of none; `from` is *)
(* the sender's address, which neither end looks at.                       *)
ProxyPacket ==
    [type: PacketType, count: Nat, session: WireSessions,
     data: Seq(RequestFragment)]

DevicePacket ==
    [type: PacketType, count: Nat, session: WireSessions,
     data: Seq(ResponseFragment), from: Devices]

Put(queue, packet) ==
    IF Len(queue) < QueueCap THEN Append(queue, packet) ELSE queue

(* SendPacket leaves out a packet that is larger than the device takes: it *)
(* sends a sequence of one packet or of none.                              *)
PutSent(queue, sent) == IF sent = <<>> THEN queue ELSE Put(queue, sent[1])

(* SendPacket(type, count, session, error_code) takes the address of a     *)
(* char for a string.  What follows it on the stack becomes part of the    *)
(* payload, which nobody reads, and may make the packet too large.         *)
Overlong == IF StackJunk THEN {<<>>} ELSE {}

NetworkTypeOK ==
    /\ toDevice \in [Devices -> Seq(ProxyPacket)]
    /\ toProxy \in Seq(DevicePacket)

NetworkInit ==
    /\ toDevice = [d \in Devices |-> <<>>]
    /\ toProxy = <<>>

(***************************************************************************)
(* What may become of a queue of datagrams on the way: one of them is      *)
(* lost, delivered twice or overtaken by the next.                         *)
(***************************************************************************)
Disturbances == {"lose", "duplicate", "overtake"}

Lost(queue) == {RemoveAt(queue, k) : k \in 1 .. Len(queue)}

Duplicated(queue) ==
    {InsertAt(queue, k, queue[k]) :
        k \in {j \in 1 .. Len(queue) : Len(queue) < QueueCap}}

Overtaken(queue) ==
    {[queue EXCEPT ![k] = queue[k + 1], ![k + 1] = queue[k]] :
        k \in 1 .. Len(queue) - 1}

Disturbed(kind, queue) ==
    IF kind = "lose" THEN Lost(queue)
    ELSE IF kind = "duplicate" THEN Duplicated(queue) ELSE Overtaken(queue)
=============================================================================
