------------------------------ MODULE Restarts ------------------------------
(***************************************************************************)
(* The sensor network when the proxy process, too, may die and be started  *)
(* again: its sockets, its buffers and its session ids are new, while the  *)
(* devices and the datagrams on their way stay as they are.                *)
(***************************************************************************)
EXTENDS TINs

(* The client whose request was being served sees its connection end.      *)
Abandoned ==
    IF pstate \in {"sendData", "receiveData"}
      THEN <<[req |-> request, status |-> "none", body |-> <<>>]>>
      ELSE <<>>

RestartProxy ==
    /\ Len(faults) < MaxFaults
    /\ faults' = Append(faults, "restart")
    /\ pstate' = "accept"
    /\ session_ids' = [d \in Devices |-> 0]
    /\ i' = 0
    /\ retry_counter' = 0
    /\ rcvtimeo' = FALSE
    /\ raw_http_response' = <<>>
    /\ \E k \in 0 .. Len(toProxy) : toProxy' = SubSeq(toProxy, k + 1, Len(toProxy))
    /\ answers' = answers \o Abandoned
    /\ UNCHANGED <<toDevice, current_session_id, request, deviceVars>>

RestartNext == Next \/ RestartProxy

RestartSpec == Init /\ [][RestartNext]_vars
=============================================================================
