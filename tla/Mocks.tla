------------------------------- MODULE Mocks --------------------------------
(***************************************************************************)
(* The proxy against the device mock (src/src/device-mock/DeviceMock.cpp), *)
(* and a device against the proxy mock (src/src/proxy-mock/ProxyMock.cpp). *)
(* A mock is a test program that plays a script.  The device mock answers  *)
(* the n-th packet it gets with the n-th packet of the script, whatever it *)
(* was sent; the proxy mock sends the packets of the script to "device0",  *)
(* and after each waits for a packet back.  Neither has a timeout.         *)
(*                                                                         *)
(* All scripts of up to MaxScript commands are played, so that a mock is   *)
(* every peer that speaks only in turn.  The text it sends, "test" again   *)
(* and again, is no HTTP message: the device never handles it and stays in *)
(* Run.                                                                    *)
(***************************************************************************)
EXTENDS Proxy, Device

CONSTANTS
    mocked,           \* the device the device mock plays and the proxy mock
                      \* talks to
    DeviceCommands,   \* [type, session, count]: what a line of a device
    ProxyCommands,    \* mock's, a proxy mock's script may say
    MaxScript         \* bound: lines of a script

VARIABLES
    mock,         \* the mock that plays: "device-mock" or "proxy-mock"
    commands,     \* the script
    position,     \* commands carried out; of one that waits, the first half
    awaiting,     \* is the proxy mock in ReceivePacket?
    sockfd,       \* "open", or "closed" at the end or by an exception
    replies       \* history: the packet the proxy mock received for each
                  \* command, if any

mockVars == <<mock, commands, position, awaiting, sockfd, replies>>

vars == <<network, proxyVars, deviceVars, mockVars>>

(* The constructor reads the script.                                       *)
MockInit ==
    /\ \/ mock = "device-mock" /\ commands \in SeqOf(DeviceCommands, MaxScript)
       \/ mock = "proxy-mock" /\ commands \in SeqOf(ProxyCommands, MaxScript)
    /\ position = 0
    /\ awaiting = FALSE
    /\ sockfd = "open"
    /\ replies = <<>>

Command == commands[position + 1]

HasCommand == sockfd = "open" /\ ~awaiting /\ position < Len(commands)

(* A line of three items is a packet, of two a delay.                      *)
IsPacket == HasCommand /\ Command.type \in PacketType

IsDelay == HasCommand /\ Command.type = "usleep"

IsUnknown == HasCommand /\ Command.type \notin PacketType \cup {"usleep"}

(* "test", as a part of no response, and as the only fragment of a request *)
(* that does not parse.                                                    *)
FromDeviceMock(c) ==
    [type |-> c.type, count |-> WireCount(c.count, c.session),
     session |-> WireSession(c.session),
     data |-> <<[resp |-> [req |-> Garbage, trigger |-> Garbage, size |-> 0],
                 n |-> 0, spoiled |-> FALSE]>>,
     from |-> mocked]

FromProxyMock(c) ==
    [type |-> c.type, count |-> WireCount(c.count, c.session),
     session |-> WireSession(c.session),
     data |-> <<[req |-> [Garbage EXCEPT !.id = 1, !.device = mocked], n |-> 0]>>]

-----------------------------------------------------------------------------
(* ReceivePacket, and then SendPacket.                                     *)
DeviceMockReplies ==
    /\ mock = "device-mock" /\ IsPacket
    /\ toDevice[mocked] # <<>>
    /\ toDevice' = [toDevice EXCEPT ![mocked] = Tail(@)]
    /\ toProxy' = Put(toProxy, FromDeviceMock(Command))
    /\ position' = position + 1
    /\ UNCHANGED <<mock, commands, awaiting, sockfd, replies>>

(* SendPacket, and then ReceivePacket.                                     *)
ProxyMockSends ==
    /\ mock = "proxy-mock" /\ IsPacket
    /\ toDevice' = [toDevice EXCEPT ![mocked] = Put(@, FromProxyMock(Command))]
    /\ position' = position + 1
    /\ awaiting' = TRUE
    /\ UNCHANGED <<toProxy, mock, commands, sockfd, replies>>

ProxyMockReceives ==
    /\ awaiting
    /\ toProxy # <<>>
    /\ toProxy' = Tail(toProxy)
    /\ awaiting' = FALSE
    /\ replies' = Append(replies, <<Head(toProxy)>>)
    /\ UNCHANGED <<toDevice, mock, commands, position, sockfd>>

MockSleeps ==
    /\ IsDelay
    /\ position' = position + 1
    /\ replies' = Append(replies, <<>>)
    /\ UNCHANGED <<network, mock, commands, awaiting, sockfd>>

(* The end of the script, or an instruction the mock does not know: what   *)
(* the mock's socket holds is gone.                                        *)
MockCloses ==
    /\ sockfd = "open" /\ ~awaiting
    /\ IsUnknown \/ ~HasCommand
    /\ sockfd' = "closed"
    /\ IF mock = "device-mock"
         THEN toDevice' = [toDevice EXCEPT ![mocked] = <<>>] /\ UNCHANGED toProxy
         ELSE toProxy' = <<>> /\ UNCHANGED toDevice
    /\ UNCHANGED <<mock, commands, position, awaiting, replies>>

DropAfterClose ==
    /\ mock = "device-mock" /\ sockfd = "closed"
    /\ toDevice[mocked] # <<>>
    /\ toDevice' = [toDevice EXCEPT ![mocked] = Tail(@)]
    /\ UNCHANGED <<toProxy, mockVars>>

MockStep ==
    /\ \/ DeviceMockReplies \/ ProxyMockSends \/ ProxyMockReceives
       \/ MockSleeps \/ MockCloses \/ DropAfterClose
    /\ UNCHANGED <<proxyVars, deviceVars>>

(* The proxy serves its clients when the device is the mock, the device,   *)
(* whose packets no one else reads, when the proxy is.                     *)
ProxyStep ==
    /\ mock = "device-mock"
    /\ ClientStep \/ ProxyReceives \/ ProxyTimesOut
    /\ UNCHANGED <<deviceVars, mockVars>>

(* What the device may do with text that is no request.                    *)
DeviceStep ==
    /\ mock = "proxy-mock"
    /\ \/ RunWrongCount(mocked) \/ RunWrongSession(mocked) \/ RunWrongType(mocked)
       \/ RunFragment(mocked) \/ RunUnparsed(mocked)
    /\ UNCHANGED <<proxyVars, mockVars>>

Init == NetworkInit /\ ProxyInit /\ DeviceInit /\ MockInit

Next == ProxyStep \/ DeviceStep \/ MockStep

(* The programs and the proxy mock run; the device mock may stop anywhere. *)
Spec ==
    /\ Init /\ [][Next]_vars
    /\ WF_vars(mock = "device-mock" /\ ProxyReceives /\ UNCHANGED <<deviceVars, mockVars>>)
    /\ WF_vars(mock = "device-mock" /\ ProxyTimesOut /\ UNCHANGED <<deviceVars, mockVars>>)
    /\ WF_vars(DeviceStep) /\ WF_vars(mock = "proxy-mock" /\ MockStep)

-----------------------------------------------------------------------------
Said(p, k) ==
    /\ commands[p].type = "ACK"
    /\ WireSession(commands[p].session) = current_session_id
    /\ WireCount(commands[p].count, commands[p].session) = request.size + 1 - k

(* Whatever its peer says, SendDataDevice counts k fragments only when the *)
(* peer has acknowledged them one after the other, from the highest count  *)
(* down, for this session (proxy.cpp:154-161): no other mixture of ACKs,   *)
(* errors, data, delays and silence gets a request through.                *)
AckedInOrder ==
    pstate \in {"sendData", "receiveData"} =>
        \E at \in [1 .. i -> 1 .. position] :
            \A k \in 1 .. i :
                Said(at[k], k) /\ (k > 1 => at[k - 1] < at[k])

(* No script keeps the proxy sending for ever (proxy.cpp:175-185 against   *)
(* the chunks that are sent again without being counted, 162-169).         *)
ScriptEndsSending == pstate = "sendData" ~> pstate # "sendData"

(* The packets the proxy mock sent that were answered, in order.           *)
Exchanged == {k \in DOMAIN replies : replies[k] # <<>>}

Refused(k) == replies[k][1].type # "ACK"

(* May the device take packet k, the packet before it being j?             *)
Continues(j, k) ==
    \/ Refused(j)
    \/ commands[j].count = 1
    \/ /\ WireSession(commands[j].session) = WireSession(commands[k].session)
       /\ commands[k].count = commands[j].count - 1

(* For every script of a proxy's packets: the device acknowledges a packet *)
(* exactly when it is data that begins a session or is the next of one     *)
(* (device.cpp, the checks on packet_counter, type and session_id), and    *)
(* its answer carries the count and the session of that very packet.       *)
AckedInTurn ==
    \A k \in Exchanged :
        LET before == {j \in Exchanged : j < k}
        IN  /\ ~Refused(k) <=>
                  /\ commands[k].type = "DATA"
                  /\ before # {} => Continues(Max(before), k)
            /\ ~Refused(k) =>
                  /\ replies[k][1].count = commands[k].count
                  /\ replies[k][1].session = WireSession(commands[k].session)

(* No script leaves the proxy mock waiting: a device in Run answers every  *)
(* packet it is sent, its errors included.                                 *)
ScriptEnds == mock = "proxy-mock" ~> sockfd = "closed"
=============================================================================
