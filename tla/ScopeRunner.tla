---------------------------- MODULE ScopeRunner -----------------------------
(***************************************************************************)
(* SimpleWeb::ScopeRunner (src/lib/simple-web-server/utility.hpp): a lock  *)
(* in one atomic number that handlers share, and that stop() takes away    *)
(* for good.  An action is one atomic operation on count; a weak compare-  *)
(* and-exchange that fails for no reason is a step that changes nothing.   *)
(***************************************************************************)
EXTENDS Integers, FiniteSets

CONSTANTS
    Handlers,     \* threads that run handlers
    Stoppers      \* threads that call stop

ASSUME ScopeAssumption == IsFiniteSet(Handlers)

VARIABLES
    count,        \* scopes entered, -1 once they are canceled
    hstate,       \* "idle", "trying" (in continue_lock) or "inside"
    expected,     \* local of continue_lock, 0 outside it
    sstate        \* "idle", "stopping" (in stop) or "returned"

scopeVars == <<count, hstate, expected, sstate>>

ScopeTypeOK ==
    /\ count \in Nat \cup {-1}
    /\ hstate \in [Handlers -> {"idle", "trying", "inside"}]
    /\ expected \in [Handlers -> Nat \cup {-1}]
    /\ sstate \in [Stoppers -> {"idle", "stopping", "returned"}]

ScopeInit ==
    /\ count = 0
    /\ hstate = [h \in Handlers |-> "idle"]
    /\ expected = [h \in Handlers |-> 0]
    /\ sstate = [s \in Stoppers |-> "idle"]

Inside == {h \in Handlers : hstate[h] = "inside"}

-----------------------------------------------------------------------------
(* continue_lock reads count.                                              *)
ContinueLock(h) ==
    /\ hstate[h] = "idle"
    /\ hstate' = [hstate EXCEPT ![h] = "trying"]
    /\ expected' = [expected EXCEPT ![h] = count]
    /\ UNCHANGED <<count, sstate>>

(* Mutant of Unchanged: count is stored without a comparison.              *)
Assumed(h) == expected[h] >= 0

(* count is what continue_lock last saw, and no stop came between.         *)
Unchanged(h) == expected[h] >= 0 /\ count = expected[h]

Enter(h) ==
    /\ hstate[h] = "trying" /\ Unchanged(h)
    /\ count' = expected[h] + 1
    /\ hstate' = [hstate EXCEPT ![h] = "inside"]
    /\ expected' = [expected EXCEPT ![h] = 0]
    /\ UNCHANGED sstate

(* The exchange fails and yields the count there is.                       *)
TryAgain(h) ==
    /\ hstate[h] = "trying" /\ expected[h] >= 0 /\ count # expected[h]
    /\ expected' = [expected EXCEPT ![h] = count]
    /\ UNCHANGED <<count, hstate, sstate>>

(* continue_lock returns nullptr, and the handler leaves.                  *)
Canceled(h) ==
    /\ hstate[h] = "trying" /\ expected[h] < 0
    /\ hstate' = [hstate EXCEPT ![h] = "idle"]
    /\ expected' = [expected EXCEPT ![h] = 0]
    /\ UNCHANGED <<count, sstate>>

(* Mutant of Leave: the lock is gone, and still counted.                   *)
LeaveCounted(h) ==
    /\ hstate[h] = "inside"
    /\ hstate' = [hstate EXCEPT ![h] = "idle"]
    /\ UNCHANGED <<count, expected, sstate>>

(* ~SharedLock.                                                            *)
Leave(h) ==
    /\ hstate[h] = "inside"
    /\ hstate' = [hstate EXCEPT ![h] = "idle"]
    /\ count' = count - 1
    /\ UNCHANGED <<expected, sstate>>

Stop(s) ==
    /\ sstate[s] = "idle"
    /\ sstate' = [sstate EXCEPT ![s] = "stopping"]
    /\ UNCHANGED <<count, hstate, expected>>

(* Mutant of StopReturns: stop does not wait for the handlers inside.      *)
StopAtOnce(s) ==
    /\ sstate[s] = "stopping"
    /\ count' = -1
    /\ sstate' = [sstate EXCEPT ![s] = "returned"]
    /\ UNCHANGED <<hstate, expected>>

(* stop exchanges 0 for -1, or finds that another has; else it spins.      *)
StopReturns(s) ==
    /\ sstate[s] = "stopping" /\ count <= 0
    /\ count' = -1
    /\ sstate' = [sstate EXCEPT ![s] = "returned"]
    /\ UNCHANGED <<hstate, expected>>

HandlerNext(h) ==
    ContinueLock(h) \/ Enter(h) \/ TryAgain(h) \/ Canceled(h) \/ Leave(h)

ScopeNext ==
    \/ \E h \in Handlers : HandlerNext(h)
    \/ \E s \in Stoppers : Stop(s) \/ StopReturns(s)

ScopeSpec == ScopeInit /\ [][ScopeNext]_scopeVars

-----------------------------------------------------------------------------
(* Once a stop has returned no handler is in a scope, nor gets into one    *)
(* with a count it read before (utility.hpp:340, "Blocks until all shared  *)
(* locks are released, then prevents future shared locks").                *)
StoppedMeansOutside ==
    (\E s \in Stoppers : sstate[s] = "returned") => Inside = {} /\ count = -1

(* stop returns while handlers enter a bounded number of scopes, however   *)
(* they compete for count.                                                 *)
StopEnds == \A s \in Stoppers : sstate[s] = "stopping" ~> sstate[s] = "returned"
=============================================================================
