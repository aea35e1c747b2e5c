---------------------------- MODULE RequestReply ----------------------------
(***************************************************************************)
(* What a transport promises those who use it (the trait of                *)
(* sync/transport.rs): a request ends at most once, with an answer, an     *)
(* error, or because its caller went away; it is answered at most once,    *)
(* and the answer it ends with is the one that was made for it.            *)
(***************************************************************************)
CONSTANT Requests

VARIABLES
    status,   \* how far each request is
    told,     \* the requests the other side has answered
    got       \* the request whose answer each request ended with

vars == <<status, told, got>>

Nothing == <<>>

Init ==
    /\ status = [r \in Requests |-> "new"]
    /\ told = {}
    /\ got = [r \in Requests |-> Nothing]

Ask(r) ==
    /\ status[r] = "new"
    /\ status' = [status EXCEPT ![r] = "open"]
    /\ UNCHANGED <<told, got>>

\* Reply::send consumes the handle; the caller may be gone by then.
Tell(r) ==
    /\ status[r] # "new" /\ r \notin told
    /\ told' = told \cup {r}
    /\ UNCHANGED <<status, got>>

Answer(r) ==
    /\ status[r] = "open" /\ r \in told
    /\ status' = [status EXCEPT ![r] = "ok"]
    /\ got' = [got EXCEPT ![r] = r]
    /\ UNCHANGED told

\* Several requests fail at once when a transport is dropped, and several
\* callers disappear at once with their process.
Close(R, how) ==
    /\ \A r \in R : status[r] = "open"
    /\ status' = [r \in Requests |-> IF r \in R THEN how ELSE status[r]]
    /\ UNCHANGED <<told, got>>

Next ==
    \/ \E r \in Requests : Ask(r) \/ Tell(r) \/ Answer(r)
    \/ \E R \in SUBSET Requests, how \in {"failed", "cancelled"} : Close(R, how)

Spec == Init /\ [][Next]_vars
=============================================================================
