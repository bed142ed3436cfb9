------------------------------ MODULE Gateway -------------------------------
(***************************************************************************)
(* What the sensor network promises a client when no datagram is lost,     *)
(* repeated or late: one request at a time, each carried out once by the   *)
(* device it names, and answered once, with that device's whole response.  *)
(* Requests for unknown or absent devices, and requests with too many      *)
(* fragments, are answered with an error status and carried out by nobody. *)
(* No answer comes, and nothing is served any more, when the device cannot *)
(* parse the request or its response has too many fragments.               *)
(***************************************************************************)
EXTENDS Integers, Sequences

CONSTANTS Devices, Absent, MaxCount, RequestKinds, ResponseSizes

VARIABLES
    pending,     \* the requests being served: none or one
    executed,    \* the requests each device has carried out
    answers,     \* each request with what its client got
    silent       \* no answer will come

vars == <<pending, executed, answers, silent>>

Init ==
    /\ pending = {}
    /\ executed = [d \in Devices |-> <<>>]
    /\ answers = <<>>
    /\ silent = FALSE

NewRequest(kind) ==
    [id |-> Len(answers) + 1, device |-> kind.device, size |-> kind.size,
     ok |-> kind.ok]

Answer(r, status, body) ==
    answers' = Append(answers, [req |-> r, status |-> status, body |-> body])

Reachable(r) == r.device \in Devices \ Absent /\ r.size <= MaxCount

Executed(r) == \E k \in DOMAIN executed[r.device] : executed[r.device][k] = r

(* All of a response to r that has n fragments.                            *)
Body(r, n) ==
    [k \in 1 .. n |->
        [resp |-> [req |-> r, trigger |-> r, size |-> n],
         n |-> n + 1 - k, spoiled |-> FALSE]]

-----------------------------------------------------------------------------
Ask(kind) ==
    /\ pending = {}
    /\ kind.device \in Devices
    /\ pending' = {NewRequest(kind)}
    /\ UNCHANGED <<executed, answers, silent>>

AskUnknown(kind) ==
    /\ pending = {}
    /\ kind.device \notin Devices
    /\ Answer(NewRequest(kind), "502", <<>>)
    /\ UNCHANGED <<pending, executed, silent>>

Execute(r) ==
    /\ Reachable(r) /\ r.ok /\ ~Executed(r)
    /\ executed' = [executed EXCEPT ![r.device] = Append(@, r)]
    /\ UNCHANGED <<pending, answers, silent>>

Respond(r) ==
    /\ Executed(r)
    /\ \E n \in ResponseSizes :
          n <= MaxCount /\ Answer(r, "forwarded", Body(r, n))
    /\ pending' = {}
    /\ UNCHANGED <<executed, silent>>

Refuse(r) ==
    /\ ~Reachable(r)
    /\ Answer(r, IF r.size > MaxCount THEN "500" ELSE "503", <<>>)
    /\ pending' = {}
    /\ UNCHANGED <<executed, silent>>

FallSilent(r) ==
    /\ Reachable(r)
    /\ ~r.ok \/ (Executed(r) /\ \E n \in ResponseSizes : n > MaxCount)
    /\ silent' = TRUE
    /\ UNCHANGED <<pending, executed, answers>>

Next ==
    /\ ~silent
    /\ \/ \E kind \in RequestKinds : Ask(kind) \/ AskUnknown(kind)
       \/ \E r \in pending :
             Execute(r) \/ Respond(r) \/ Refuse(r) \/ FallSilent(r)

Spec == Init /\ [][Next]_vars

(* A request that has been taken is answered, or the silence is one of     *)
(* those FallSilent speaks of.                                             *)
Answered == pending # {} ~> pending = {} \/ silent
=============================================================================
