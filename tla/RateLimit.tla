----------------------------- MODULE RateLimit -----------------------------
(***************************************************************************)
(* sync/ratelimit.rs: the per-peer sliding window of sync attempts.  The   *)
(* daemon keeps one AttemptLog and charges it for inbound requests of a    *)
(* peer and for its own outbound attempts at that peer alike.              *)
(*                                                                         *)
(* Instants are integers.  Origin is the earliest instant the platform's   *)
(* clock can represent: checked_sub yields None below it, and the code     *)
(* then takes the current instant as the cutoff.                           *)
(***************************************************************************)
EXTENDS Integers, Sequences, FiniteSets

CONSTANTS
    Peers,        \* peer ids that attempt a sync
    MaxAttempts,  \* MAX_ATTEMPTS
    Window,       \* WINDOW
    Origin,       \* earliest representable Instant
    Start,        \* the instant the log is created
    MaxTime       \* bound on the clock of the model

ASSUME LimitsAssumption ==
    /\ MaxAttempts \in Nat \ {0}
    /\ Window \in Nat \ {0}
    /\ Start \in Int
    /\ MaxTime \in Int

\* On Unix an Instant is a signed 64-bit count of seconds, so an instant one
\* window before the start of the process can always be represented.
ASSUME ClockAssumption == Origin \in Int /\ Origin + Window <= Start

VARIABLES
    now,       \* what the Clock returns
    buckets,   \* AttemptLog::buckets; an absent bucket is the empty one
    accepted,  \* history: instants of the attempts answered Ok, per peer
    refused,   \* history: instants of the attempts answered RateLimited
    hint       \* history: latest instant a RateLimited told the peer to wait for

vars == <<now, buckets, accepted, refused, hint>>

(***************************************************************************)
(* The code's `cutoff`, and what its loop drops from a bucket b: the n     *)
(* attempts at the front that are older than the cutoff.  An attempt       *)
(* exactly one window old still counts.                                    *)
(***************************************************************************)
\* Faulty variant: an attempt exactly one window old is dropped.
CutoffOffByOne(t) == t - Window + 1

Cutoff(t) == IF t - Window >= Origin THEN t - Window ELSE t

StaleFront(b, n) ==
    /\ n \in 0..Len(b)
    /\ \A i \in 1..n : b[i] < Cutoff(now)
    /\ n < Len(b) => b[n + 1] >= Cutoff(now)

Drop(b, n) == SubSeq(b, n + 1, Len(b))

Init ==
    /\ now = Start
    /\ buckets = [p \in Peers |-> <<>>]
    /\ accepted = [p \in Peers |-> <<>>]
    /\ refused = [p \in Peers |-> {}]
    /\ hint = [p \in Peers |-> Start - 1]

\* Instant::now() is monotonic; it may return the same instant twice.
Tick ==
    /\ now < MaxTime
    /\ now' = now + 1
    /\ UNCHANGED <<buckets, accepted, refused, hint>>

\* Faulty variant: the budget test admits one attempt too many.
AcceptOverBudget(p, n) ==
    LET live == Drop(buckets[p], n) IN
    /\ Len(live) <= MaxAttempts
    /\ buckets' = [buckets EXCEPT ![p] = Append(live, now)]
    /\ accepted' = [accepted EXCEPT ![p] = Append(@, now)]
    /\ UNCHANGED <<now, refused, hint>>

\* check_and_record answering Ok: the pruned bucket has room.
Accept(p, n) ==
    LET live == Drop(buckets[p], n) IN
    /\ Len(live) < MaxAttempts
    /\ buckets' = [buckets EXCEPT ![p] = Append(live, now)]
    /\ accepted' = [accepted EXCEPT ![p] = Append(@, now)]
    /\ UNCHANGED <<now, refused, hint>>

\* Faulty variant: a refused attempt is recorded too, in the oldest one's place.
RejectRecords(p, n) ==
    LET live == Drop(buckets[p], n) IN
    /\ Len(live) >= MaxAttempts
    /\ buckets' = [buckets EXCEPT ![p] = Append(Tail(live), now)]
    /\ refused' = [refused EXCEPT ![p] = @ \cup {now}]
    /\ hint' = [hint EXCEPT ![p] = live[1] + Window]
    /\ UNCHANGED <<now, accepted>>

\* Faulty variant: retry_after is counted from the newest attempt.
RejectHintsNewest(p, n) ==
    LET live == Drop(buckets[p], n) IN
    /\ Len(live) >= MaxAttempts
    /\ buckets' = [buckets EXCEPT ![p] = live]
    /\ refused' = [refused EXCEPT ![p] = @ \cup {now}]
    /\ hint' = [hint EXCEPT ![p] = live[Len(live)] + Window]
    /\ UNCHANGED <<now, accepted>>

\* check_and_record answering RateLimited: the pruning sticks, nothing is
\* recorded, and retry_after runs to one window after the oldest live attempt.
Reject(p, n) ==
    LET live == Drop(buckets[p], n) IN
    /\ Len(live) >= MaxAttempts
    /\ buckets' = [buckets EXCEPT ![p] = live]
    /\ refused' = [refused EXCEPT ![p] = @ \cup {now}]
    /\ hint' = [hint EXCEPT ![p] = live[1] + Window]
    /\ UNCHANGED <<now, accepted>>

CheckAndRecord(p) ==
    \E n \in 0..Len(buckets[p]) :
        /\ StaleFront(buckets[p], n)
        /\ Accept(p, n) \/ Reject(p, n)

Next == Tick \/ \E p \in Peers : CheckAndRecord(p)

Spec == Init /\ [][Next]_vars

-----------------------------------------------------------------------------
\* Shapes, and the memory of a bucket: a log never holds more instants of a
\* peer than its budget, whatever the peer tries, and none from the future.
TypeOK ==
    /\ now \in Int
    /\ buckets \in [Peers -> Seq(Int)]
    /\ accepted \in [Peers -> Seq(Int)]
    /\ refused \in [Peers -> SUBSET Int]
    /\ hint \in [Peers -> Int]
    /\ \A p \in Peers :
        /\ Len(buckets[p]) <= MaxAttempts
        /\ \A i \in DOMAIN buckets[p] : buckets[p][i] <= now

\* ADR-0016, "three attempts per 60-second window": no matter how the pruning
\* of check_and_record falls, any MaxAttempts + 1 consecutive admitted
\* attempts of one peer span more than a window.
WindowBudget ==
    \A p \in Peers : \A i \in DOMAIN accepted[p] :
        i + MaxAttempts \in DOMAIN accepted[p] =>
            accepted[p][i + MaxAttempts] - accepted[p][i] > Window

\* check_and_record refuses only a peer that spent its budget: refused
\* attempts are not recorded, so hammering the limiter does not prolong a ban.
RefusalsJustified ==
    \A p \in Peers : \A t \in refused[p] :
        Cardinality({i \in DOMAIN accepted[p] :
            accepted[p][i] \in (t - Window)..t}) = MaxAttempts

\* The retry_after of a refusal never overstates the remaining budget: the
\* peer is not admitted before the instant it was told to come back at.
HintNotEarly ==
    [][\A p \in Peers : accepted'[p] # accepted[p] => now > hint[p]]_vars

\* The limiter seen without its clock: the attempts that count at this instant.
Counting(p) ==
    LET n == CHOOSE k \in 0..Len(buckets[p]) : StaleFront(buckets[p], k)
    IN  Len(Drop(buckets[p], n))

Budget == INSTANCE AttemptBudget WITH used <- [p \in Peers |-> Counting(p)]

\* The sliding window implements the abstract attempt budget: an attempt is
\* admitted exactly while budget is left, and only time gives budget back.
ImplementsBudget == Budget!Spec
=============================================================================
