-------------------------------- MODULE TINs --------------------------------
(***************************************************************************)
(* The sensor network: the proxy, the devices and the datagrams between    *)
(* them.  Besides the two programs' steps there are the faults they have   *)
(* to live with, of which a behaviour has at most MaxFaults, each of one   *)
(* of FaultKinds.                                                          *)
(***************************************************************************)
EXTENDS Proxy, Device

CONSTANTS
    FaultKinds,
    MaxFaults      \* bound: faults in a behaviour

ASSUME TINsAssumption ==
    /\ FaultKinds \subseteq
          Disturbances \cup {"restart", "recvError"}
    /\ MaxFaults \in Nat

VARIABLE faults    \* the kinds of those so far, in order

vars == <<network, proxyVars, deviceVars, faults>>

FaultsTypeOK ==
    /\ faults \in Seq(FaultKinds \cup {"restart"})
    /\ Len(faults) <= MaxFaults

TypeOK ==
    /\ NetworkTypeOK
    /\ ProxyTypeOK
    /\ DeviceTypeOK
    /\ FaultsTypeOK

Init ==
    /\ NetworkInit
    /\ ProxyInit
    /\ DeviceInit
    /\ faults = <<>>

-----------------------------------------------------------------------------
FaultOf(kind) ==
    /\ kind \in FaultKinds
    /\ Len(faults) < MaxFaults
    /\ faults' = Append(faults, kind)
    /\ UNCHANGED proxyVars

DisturbToDevice(kind, d) ==
    /\ FaultOf(kind)
    /\ \E queue \in Disturbed(kind, toDevice[d]) :
          toDevice' = [toDevice EXCEPT ![d] = queue]
    /\ UNCHANGED <<toProxy, deviceVars>>

DisturbToProxy(kind) ==
    /\ FaultOf(kind)
    /\ \E queue \in Disturbed(kind, toProxy) : toProxy' = queue
    /\ UNCHANGED <<toDevice, deviceVars>>

(* A device process dies and is started again.                             *)
RestartDevice(d) == FaultOf("restart") /\ Restart(d)

(* The kernel has an error for the device's socket.                        *)
DeviceRecvError(d) == FaultOf("recvError") /\ SendDataRecvFails(d)

Fault ==
    \/ \E kind \in Disturbances :
          DisturbToProxy(kind) \/ \E d \in Devices : DisturbToDevice(kind, d)
    \/ \E d \in Devices : RestartDevice(d) \/ DeviceRecvError(d)

-----------------------------------------------------------------------------
ProxyNext ==
    /\ ClientStep \/ ProxyReceives \/ ProxyTimesOut
    /\ UNCHANGED <<deviceVars, faults>>

DeviceNext(d) ==
    /\ d \notin Absent
    /\ DeviceReceives(d)
    /\ UNCHANGED <<proxyVars, faults>>

(* The host of an absent device drops what it is sent; the ICMP message it *)
(* returns does not reach the proxy, whose socket is not connected.        *)
DropForAbsent(d) ==
    /\ d \in Absent
    /\ HasPacket(d)
    /\ Consume(d)
    /\ UNCHANGED <<toProxy, proxyVars, deviceVars, faults>>

Next == ProxyNext \/ Fault \/ \E d \in Devices : DeviceNext(d) \/ DropForAbsent(d)

Spec == Init /\ [][Next]_vars

(***************************************************************************)
(* The kernel hands a process the packets that have come in, a timer that  *)
(* is set goes off, and each process gets to run.  Nothing is assumed of   *)
(* the clients and of the faults.                                          *)
(***************************************************************************)
ProxyFairness ==
    /\ WF_vars(ProxyReceives /\ UNCHANGED <<deviceVars, faults>>)
    /\ WF_vars(ProxyTimesOut /\ UNCHANGED <<deviceVars, faults>>)

DeviceFairness ==
    \A d \in Devices : WF_vars(DeviceNext(d)) /\ WF_vars(DropForAbsent(d))

(* Devices may stop at any time.                                           *)
ProxyFairSpec == Spec /\ ProxyFairness

FairSpec == Spec /\ ProxyFairness /\ DeviceFairness

-----------------------------------------------------------------------------
(***************************************************************************)
(* Properties that hold whatever the network does, for one device and      *)
(* fewer requests than there are session ids.                              *)
(***************************************************************************)

(* When SendDataDevice counts a fragment as acknowledged, the device it    *)
(* addresses has taken that fragment of this request into its buffer:      *)
(* late, repeated and foreign ACKs are told from the one awaited           *)
(* (proxy.cpp, the checks on session and ack_num).                         *)
AckedMeansAccepted ==
    pstate \in {"sendData", "receiveData"} =>
        \A k \in 1 .. i :
            [req |-> request, n |-> request.size + 1 - k]
                \in accepted[request.device]

(* What ReceiveDataDevice collects, and what a client is sent, comes only  *)
(* from responses the device began when it had the last fragment of this   *)
(* very request (proxy.cpp, the check on the session of each packet).      *)
OwnResponse ==
    /\ \A k \in 1 .. Len(raw_http_response) :
          raw_http_response[k].resp.trigger = request
    /\ \A a \in Range(answers) : \A k \in 1 .. Len(a.body) :
          a.body[k].resp.trigger = a.req

(* A device in Run knows a session exactly when it expects a count, so     *)
(* that no branch, ERROR replies of its peer included, leaves it with one  *)
(* of the two (device.cpp, the resets of session_id and packet_counter).   *)
SessionPairing ==
    \A d \in Devices :
        dstate[d] = "run" =>
            (session_id[d] = Unset <=> packet_counter[d] = Unset)

(* In the middle of a session the last thing in the device's buffer is the *)
(* fragment before the one it expects, whatever was retransmitted, lost or *)
(* left in the buffer by an earlier session (device.cpp, packet_counter).  *)
BufferInOrder ==
    \A d \in Devices :
        dstate[d] = "run" /\ session_id[d] # Unset =>
            /\ raw_http_request[d] # <<>>
            /\ Last(raw_http_request[d]).n = packet_counter[d] + 1

(* A response the proxy forwards answers a request the device carried out, *)
(* and is the response to that request: the device's buffer held nothing   *)
(* else when the last fragment came (device.cpp, raw_http_request, and     *)
(* proxy.cpp, the checks that end SendDataDevice).  When devices can parse *)
(* the requests, their responses fit and no socket buffer overflows, no    *)
(* single datagram lost, repeated or overtaken breaks it; two lost ones do.*)
ForwardedIsExecuted ==
    \A a \in Range(answers) :
        a.status = "forwarded" =>
            /\ a.req \in Range(handled[a.req.device])
            /\ \A k \in 1 .. Len(a.body) : a.body[k].resp.req = a.req

(* A forwarded response is whole: the fragments of one response, from the  *)
(* first to the last and each of them once, though ReceiveDataDevice       *)
(* compares no count with the one before it and ends at any packet of      *)
(* count 1, and SendData takes any ACK for the one it awaits (proxy.cpp,   *)
(* the check on the session of each packet; device.cpp, the check on its   *)
(* type).  The datagrams that are resent after one was lost do not break   *)
(* it; one that is lost after another, repeated or overtaken does.         *)
ForwardedWhole ==
    \A a \in Range(answers) :
        a.status = "forwarded" /\ faults \in {<<>>, <<"lose">>} =>
            \E resp \in {f.resp : f \in Range(a.body)} :
                a.body = [k \in 1 .. resp.size |->
                            Fragment(resp, resp.size + 1 - k)[1]]

(* SendDataDevice does not go on for ever: whether devices answer late,    *)
(* wrongly or no more, it gets through or gives up (proxy.cpp, the timeout *)
(* and the limit on retries, against the chunks resent on a wrong ACK).    *)
SendDataEnds == pstate = "sendData" ~> pstate # "sendData"

-----------------------------------------------------------------------------
(***************************************************************************)
(* Properties of a network that neither loses nor delays datagrams.        *)
(***************************************************************************)

(* The exchange is stop-and-wait: two packets wait for a device only when  *)
(* it has yet to read the ACK that ended its response and a new request is *)
(* there, and for the proxy only when they are the ACK of a last fragment  *)
(* and the first fragment of the response.                                 *)
StopAndWait ==
    /\ \A d \in Devices :
          /\ Len(toDevice[d]) <= 2
          /\ Len(toDevice[d]) = 2 => toDevice[d][1].type = "ACK"
    /\ Len(toProxy) <= 2
    /\ Len(toProxy) = 2 =>
          toProxy[1].type = "ACK" /\ toProxy[1].count = 1

(* Between requests nothing is left over: no datagram that the next        *)
(* session could take for its own, no text in a buffer, no session.        *)
(* (After a response the device still has the last ACK to read.)           *)
NoResidue ==
    /\ pstate \in {"accept", "client"} => toProxy = <<>>
    /\ \A d \in Devices :
          pstate \in {"accept", "client"} /\ toDevice[d] = <<>> =>
              /\ dstate[d] = "run"
              /\ session_id[d] = Unset /\ packet_counter[d] = Unset
              /\ raw_http_request[d] = <<>>

(* The proxy waits for a response, and nothing is on its way.              *)
Stuck ==
    /\ pstate = "receiveData" /\ ~rcvtimeo
    /\ toProxy = <<>> /\ toDevice[request.device] = <<>>

-----------------------------------------------------------------------------
(* The promise to the clients, read off the proxy's and the devices'       *)
(* state: a request is pending from the start of its session to its answer.*)
Promise == INSTANCE Gateway WITH
    pending <- IF pstate \in {"sendData", "receiveData"}
                 THEN {request} ELSE {},
    executed <- handled,
    silent <- Stuck

(* The proxy and the devices keep that promise in a network that neither   *)
(* loses nor delays datagrams: besides the right answers it says that the  *)
(* proxy waits in vain only for a device that cannot parse the request, or *)
(* has executed it and has a response of too many fragments (device.cpp:107*)
(* and 295).                                                               *)
KeepsPromise == Promise!Spec

(* In such a network every request taken from a client is answered, but    *)
(* for these.                                                              *)
EveryRequestAnswered == Promise!Answered

-----------------------------------------------------------------------------
(***************************************************************************)
(* What the source says of the program and the program does not keep.      *)
(***************************************************************************)
(* proxy.cpp:83, "Set device destination", and 88, "Send HTTP request to   *)
(* device": a request that fits, to a device that runs, is answered by it. *)
RunningDeviceAnswers ==
    \A a \in Range(answers) :
        a.req.device \in Devices \ Absent /\ a.req.size <= MaxCount
            => a.status = "forwarded"

(* aaa.h:14 and 15, PROXY_PASSIVE_STATE_TIMEOUT, "2.5s", and               *)
(* DEVICE_PASSIVE_STATE_TIMEOUT, "1.5s", and device.cpp:315, "Didn't       *)
(* receive ACK. Resending": a proxy that waits for a fragment and a device *)
(* that waits for the ACK of one do not wait for each other for ever.      *)
PassiveWaitsEnd ==
    \A d \in Devices :
        pstate = "receiveData" /\ dstate[d] = "sendData"
            ~> pstate # "receiveData" \/ dstate[d] # "sendData"
=============================================================================
