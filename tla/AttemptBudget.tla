--------------------------- MODULE AttemptBudget ---------------------------
(***************************************************************************)
(* What the sync attempt limiter promises its callers (ADR-0016): every    *)
(* peer holds a budget of MaxAttempts; an attempt is admitted, and uses    *)
(* the budget, exactly when some of it is left; only the passage of time   *)
(* gives budget back.  There is no clock here: RateLimit, the sliding      *)
(* window of sync/ratelimit.rs, is shown to implement this specification,  *)
(* and PeerDaemon uses it in place of the clock.                           *)
(***************************************************************************)
EXTENDS Integers

CONSTANTS
    Peers,        \* peer ids the limiter keeps a bucket for
    MaxAttempts   \* attempts admitted per window

VARIABLE used     \* used[p]: attempts of p that still count

Init == used = [p \in Peers |-> 0]

Admit(p) ==
    /\ used[p] < MaxAttempts
    /\ used' = [used EXCEPT ![p] = @ + 1]

Refuse(p) ==
    /\ used[p] = MaxAttempts
    /\ UNCHANGED used

\* Time passes: any part of any budget may come back, none is taken away.
Expire ==
    \E f \in [Peers -> 0..MaxAttempts] :
        /\ \A p \in Peers : f[p] <= used[p]
        /\ used' = f

Next == Expire \/ \E p \in Peers : Admit(p) \/ Refuse(p)

Spec == Init /\ [][Next]_used
=============================================================================
