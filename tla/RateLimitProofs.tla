-------------------------- MODULE RateLimitProofs --------------------------
(***************************************************************************)
(* Proofs about RateLimit, for every set of peers, budget, window and      *)
(* bound on the clock.                                                     *)
(*                                                                         *)
(* WindowBudget is not inductive: it relates admitted attempts to each     *)
(* other, while check_and_record only looks at the bucket.  What links the *)
(* two is that a bucket b is always a suffix of the admitted attempts a,   *)
(* and that every admitted attempt the bucket has forgotten is older than  *)
(* one window.  The three things that happen to a bucket (time passes, its *)
(* stale front is dropped, an attempt is recorded) each keep that.         *)
(*                                                                         *)
(* The same suffix tells what a refusal and a hint are worth: a full       *)
(* bucket is the last MaxAttempts admitted attempts, none of them stale.   *)
(* Last comes the refinement: what AttemptBudget calls used is the number  *)
(* of admitted attempts that are not yet older than a window.              *)
(***************************************************************************)
EXTENDS RateLimit, FiniteSetTheorems, NaturalsInduction, WellFoundedInduction, TLAPS

\* How many of the admitted attempts a the bucket b has forgotten.
Forgotten(b, a) == Len(a) - Len(b)

IsRest(b, a) ==
    /\ Forgotten(b, a) >= 0
    /\ \A i \in 1..Len(b) : b[i] = a[Forgotten(b, a) + i]

ForgottenAreOld(b, a, t) == \A i \in 1..Forgotten(b, a) : a[i] < t - Window

Bounded(b, t) ==
    /\ Len(b) <= MaxAttempts
    /\ \A i \in 1..Len(b) : b[i] <= t

Spread(a) ==
    \A i \in 1..Len(a) :
        i + MaxAttempts <= Len(a) => a[i + MaxAttempts] - a[i] > Window

\* One peer at instant t.
PeerInv(b, a, t) ==
    IsRest(b, a) /\ ForgottenAreOld(b, a, t) /\ Bounded(b, t) /\ Spread(a)

Shapes ==
    /\ now \in Int
    /\ now >= Start
    /\ buckets \in [Peers -> Seq(Int)]
    /\ accepted \in [Peers -> Seq(Int)]
    /\ refused \in [Peers -> SUBSET Int]
    /\ hint \in [Peers -> Int]

IInv == Shapes /\ \A p \in Peers : PeerInv(buckets[p], accepted[p], now)

-----------------------------------------------------------------------------
\* A second of the clock makes nothing younger.
LEMMA TimeKeepsPeerInv ==
    ASSUME NEW b \in Seq(Int), NEW a \in Seq(Int), NEW t \in Int, PeerInv(b, a, t)
    PROVE  PeerInv(b, a, t + 1)
<1>1. ForgottenAreOld(b, a, t + 1)
    <2> SUFFICES ASSUME NEW i \in 1..Forgotten(b, a) PROVE a[i] < (t + 1) - Window
        BY DEF ForgottenAreOld
    <2>1. a[i] < t - Window
        BY DEF PeerInv, ForgottenAreOld
    <2>2. i \in 1..Len(a)
        BY DEF Forgotten
    <2>3. a[i] \in Int
        BY <2>2
    <2> QED BY <2>1, <2>3, LimitsAssumption
<1>2. Bounded(b, t + 1)
    <2> SUFFICES ASSUME NEW i \in 1..Len(b) PROVE b[i] <= t + 1
        BY DEF PeerInv, Bounded
    <2>1. b[i] <= t
        BY DEF PeerInv, Bounded
    <2>2. b[i] \in Int
        OBVIOUS
    <2> QED BY <2>1, <2>2
<1> QED BY <1>1, <1>2 DEF PeerInv

\* Dropping the front of a bucket, older than one window, is safe.
LEMMA DropKeepsPeerInv ==
    ASSUME NEW b \in Seq(Int), NEW a \in Seq(Int), NEW t \in Int, PeerInv(b, a, t),
           NEW n \in 0..Len(b), \A i \in 1..n : b[i] < t - Window
    PROVE  Drop(b, n) \in Seq(Int) /\ PeerInv(Drop(b, n), a, t)
<1> DEFINE live == Drop(b, n)
           gone == Forgotten(b, a)
<1>1. n \in Nat /\ Len(b) \in Nat /\ Len(a) \in Nat /\ n <= Len(b)
    OBVIOUS
<1>2. /\ live \in Seq(Int)
      /\ Len(live) = Len(b) - n
      /\ \A i \in 1..Len(live) : live[i] = b[n + i]
    BY <1>1 DEF Drop
<1> HIDE DEF live
<1>3. gone \in Nat /\ Forgotten(live, a) = gone + n
    BY <1>1, <1>2 DEF Forgotten, PeerInv, IsRest
<1>4. \A j \in 1..Len(b) : b[j] = a[gone + j]
    BY DEF PeerInv, IsRest
<1>5. IsRest(live, a)
    <2> SUFFICES ASSUME NEW i \in 1..Len(live) PROVE live[i] = a[(gone + n) + i]
        BY <1>1, <1>3 DEF IsRest
    <2>1. n + i \in 1..Len(b) /\ gone + (n + i) = (gone + n) + i
        BY <1>1, <1>2, <1>3
    <2>2. b[n + i] = a[gone + (n + i)]
        BY <1>4, <2>1
    <2> QED BY <1>2, <2>1, <2>2
<1>6. ForgottenAreOld(live, a, t)
    <2> SUFFICES ASSUME NEW i \in 1..(gone + n) PROVE a[i] < t - Window
        BY <1>3 DEF ForgottenAreOld
    <2>1. CASE i \in 1..gone
        BY <2>1 DEF PeerInv, ForgottenAreOld
    <2>2. CASE i > gone
        <3>1. i - gone \in 1..n /\ i - gone \in 1..Len(b) /\ gone + (i - gone) = i
            BY <2>2, <1>1, <1>3
        <3>2. b[i - gone] = a[gone + (i - gone)]
            BY <1>4, <3>1
        <3>3. b[i - gone] < t - Window
            BY <3>1
        <3> QED BY <3>1, <3>2, <3>3
    <2> QED BY <2>1, <2>2, <1>3
<1>7. Bounded(live, t)
    <2>1. Len(live) <= MaxAttempts
        BY <1>1, <1>2, LimitsAssumption DEF PeerInv, Bounded
    <2>2. ASSUME NEW i \in 1..Len(live) PROVE live[i] <= t
        <3>1. n + i \in 1..Len(b)
            BY <1>1, <1>2
        <3>2. b[n + i] <= t
            BY <3>1 DEF PeerInv, Bounded
        <3> QED BY <1>2, <3>2
    <2> QED BY <2>1, <2>2 DEF Bounded
<1> QED BY <1>2, <1>5, <1>6, <1>7 DEF PeerInv, live

\* Recording an attempt in a bucket that has room.  The attempt that lies
\* MaxAttempts before the new one is already forgotten, so it is old enough.
LEMMA RecordKeepsPeerInv ==
    ASSUME NEW b \in Seq(Int), NEW a \in Seq(Int), NEW t \in Int, PeerInv(b, a, t),
           Len(b) < MaxAttempts
    PROVE  PeerInv(Append(b, t), Append(a, t), t)
<1> DEFINE bb == Append(b, t)
           aa == Append(a, t)
           gone == Forgotten(b, a)
<1>1. Len(b) \in Nat /\ Len(a) \in Nat /\ gone \in Nat
    BY DEF Forgotten, PeerInv, IsRest
<1>2. /\ Len(bb) = Len(b) + 1
      /\ bb[Len(b) + 1] = t
      /\ \A i \in 1..Len(b) : bb[i] = b[i]
    OBVIOUS
<1>3. /\ Len(aa) = Len(a) + 1
      /\ aa[Len(a) + 1] = t
      /\ \A i \in 1..Len(a) : aa[i] = a[i]
    OBVIOUS
<1>4. \A i \in 1..Len(a) : a[i] \in Int
    OBVIOUS
<1> HIDE DEF bb, aa
<1>5. Forgotten(bb, aa) = gone
    BY <1>1, <1>2, <1>3 DEF Forgotten
<1>6. Len(a) = gone + Len(b)
    BY <1>1 DEF Forgotten
<1>7. IsRest(bb, aa)
    <2> SUFFICES ASSUME NEW i \in 1..(Len(b) + 1) PROVE bb[i] = aa[gone + i]
        BY <1>1, <1>2, <1>5 DEF IsRest
    <2>1. CASE i = Len(b) + 1
        <3>1. gone + i = Len(a) + 1
            BY <2>1, <1>1, <1>6
        <3> QED BY <2>1, <3>1, <1>2, <1>3
    <2>2. CASE i \in 1..Len(b)
        <3>1. gone + i \in 1..Len(a)
            BY <2>2, <1>1, <1>6
        <3>2. b[i] = a[gone + i]
            BY <2>2 DEF PeerInv, IsRest
        <3> QED BY <2>2, <3>1, <3>2, <1>2, <1>3
    <2> QED BY <2>1, <2>2, <1>1
<1>8. ForgottenAreOld(bb, aa, t)
    <2> SUFFICES ASSUME NEW i \in 1..gone PROVE aa[i] < t - Window
        BY <1>5 DEF ForgottenAreOld
    <2>1. i \in 1..Len(a)
        BY <1>1, <1>6
    <2>2. a[i] < t - Window
        BY DEF PeerInv, ForgottenAreOld
    <2> QED BY <2>1, <2>2, <1>3
<1>9. Bounded(bb, t)
    <2>1. Len(bb) <= MaxAttempts
        BY <1>1, <1>2, LimitsAssumption
    <2>2. ASSUME NEW i \in 1..Len(bb) PROVE bb[i] <= t
        <3>1. CASE i = Len(b) + 1
            BY <3>1, <1>2
        <3>2. CASE i \in 1..Len(b)
            BY <3>2, <1>2 DEF PeerInv, Bounded
        <3> QED BY <3>1, <3>2, <1>1, <1>2
    <2> QED BY <2>1, <2>2 DEF Bounded
<1>10. Spread(aa)
    <2> SUFFICES ASSUME NEW i \in 1..(Len(a) + 1), i + MaxAttempts <= Len(a) + 1
                 PROVE  aa[i + MaxAttempts] - aa[i] > Window
        BY <1>3 DEF Spread
    <2>1. i \in 1..Len(a) /\ i \in Nat
        BY <1>1, LimitsAssumption
    <2>2. CASE i + MaxAttempts = Len(a) + 1
        <3>1. i \in 1..gone
            BY <2>1, <2>2, <1>1, <1>6, LimitsAssumption
        <3>2. a[i] < t - Window
            BY <3>1 DEF PeerInv, ForgottenAreOld
        <3>3. a[i] \in Int
            BY <2>1, <1>4
        <3>4. aa[i] = a[i] /\ aa[i + MaxAttempts] = t
            BY <2>1, <2>2, <1>3
        <3> QED BY <3>2, <3>3, <3>4, LimitsAssumption
    <2>3. CASE i + MaxAttempts <= Len(a)
        <3>1. i + MaxAttempts \in 1..Len(a)
            BY <2>1, <2>3, <1>1, LimitsAssumption
        <3>2. a[i + MaxAttempts] - a[i] > Window
            BY <2>1, <2>3 DEF PeerInv, Spread
        <3> QED BY <2>1, <3>1, <3>2, <1>3
    <2>4. i + MaxAttempts \in Int
        BY <2>1, LimitsAssumption
    <2>5. i + MaxAttempts = Len(a) + 1 \/ i + MaxAttempts <= Len(a)
        <3> HIDE DEF gone
        <3> QED BY <2>4, <1>1
    <2> QED BY <2>2, <2>3, <2>5
<1> QED BY <1>7, <1>8, <1>9, <1>10 DEF PeerInv, bb, aa

-----------------------------------------------------------------------------
\* The clock can represent one window before now, so the cutoff is one window
\* old: the unwrap_or fallback of checked_sub is never taken.
LEMMA CutoffIsOneWindow ==
    ASSUME now \in Int, now >= Start
    PROVE  Cutoff(now) = now - Window
BY LimitsAssumption, ClockAssumption DEF Cutoff

\* What check_and_record finds left in the bucket satisfies the invariant.
LEMMA PrunedPeerInv ==
    ASSUME IInv, NEW p \in Peers, NEW n \in 0..Len(buckets[p]), StaleFront(buckets[p], n)
    PROVE  Drop(buckets[p], n) \in Seq(Int) /\ PeerInv(Drop(buckets[p], n), accepted[p], now)
<1>1. buckets[p] \in Seq(Int) /\ accepted[p] \in Seq(Int) /\ now \in Int
    BY DEF IInv, Shapes
<1>2. PeerInv(buckets[p], accepted[p], now)
    BY DEF IInv
<1>3. \A i \in 1..n : buckets[p][i] < now - Window
    BY CutoffIsOneWindow DEF StaleFront, IInv, Shapes
<1> QED BY <1>1, <1>2, <1>3, DropKeepsPeerInv

LEMMA InitIInv == Init => IInv
<1> SUFFICES ASSUME Init PROVE IInv
    OBVIOUS
<1>1. Shapes
    BY LimitsAssumption DEF Init, Shapes
<1>2. PeerInv(<<>>, <<>>, Start)
    BY LimitsAssumption
       DEF PeerInv, IsRest, ForgottenAreOld, Bounded, Spread, Forgotten
<1> QED BY <1>1, <1>2 DEF Init, IInv

LEMMA TickIInv == IInv /\ Tick => IInv'
<1> SUFFICES ASSUME IInv, Tick PROVE IInv'
    OBVIOUS
<1>1. Shapes'
    BY LimitsAssumption DEF IInv, Shapes, Tick
<1>2. ASSUME NEW p \in Peers PROVE PeerInv(buckets[p], accepted[p], now + 1)
    BY TimeKeepsPeerInv DEF IInv, Shapes
<1> QED BY <1>1, <1>2 DEF IInv, Tick

LEMMA AcceptIInv ==
    ASSUME IInv, NEW q \in Peers, NEW n \in 0..Len(buckets[q]),
           StaleFront(buckets[q], n), Accept(q, n)
    PROVE  IInv'
<1> DEFINE live == Drop(buckets[q], n)
<1>1. live \in Seq(Int) /\ PeerInv(live, accepted[q], now) /\ Len(live) < MaxAttempts
    BY PrunedPeerInv DEF Accept
<1>2. accepted[q] \in Seq(Int) /\ now \in Int
    BY DEF IInv, Shapes
<1>3. PeerInv(Append(live, now), Append(accepted[q], now), now)
    BY <1>1, <1>2, RecordKeepsPeerInv
<1>4. Shapes'
    BY <1>1, <1>2 DEF IInv, Shapes, Accept
<1>5. ASSUME NEW p \in Peers PROVE PeerInv(buckets'[p], accepted'[p], now)
    <2>1. CASE p = q
        BY <2>1, <1>3 DEF Accept, IInv, Shapes
    <2>2. CASE p # q
        BY <2>2 DEF Accept, IInv, Shapes
    <2> QED BY <2>1, <2>2
<1> QED BY <1>4, <1>5 DEF IInv, Accept

LEMMA RejectIInv ==
    ASSUME IInv, NEW q \in Peers, NEW n \in 0..Len(buckets[q]),
           StaleFront(buckets[q], n), Reject(q, n)
    PROVE  IInv'
<1> DEFINE live == Drop(buckets[q], n)
<1>1. live \in Seq(Int) /\ PeerInv(live, accepted[q], now) /\ Len(live) >= MaxAttempts
    BY PrunedPeerInv DEF Reject
<1>2. live[1] \in Int /\ now \in Int
    BY <1>1, LimitsAssumption DEF IInv, Shapes
<1>3. Shapes'
    BY <1>1, <1>2, LimitsAssumption DEF IInv, Shapes, Reject
<1>4. ASSUME NEW p \in Peers PROVE PeerInv(buckets'[p], accepted[p], now)
    <2>1. CASE p = q
        BY <2>1, <1>1 DEF Reject, IInv, Shapes
    <2>2. CASE p # q
        BY <2>2 DEF Reject, IInv, Shapes
    <2> QED BY <2>1, <2>2
<1> QED BY <1>3, <1>4 DEF IInv, Reject

LEMMA NextIInv == IInv /\ [Next]_vars => IInv'
<1> SUFFICES ASSUME IInv, [Next]_vars PROVE IInv'
    OBVIOUS
<1>1. CASE Tick
    BY <1>1, TickIInv
<1>2. CASE \E p \in Peers : CheckAndRecord(p)
    BY <1>2, AcceptIInv, RejectIInv DEF CheckAndRecord
<1>3. CASE UNCHANGED vars
    BY <1>3 DEF vars, IInv, Shapes
<1> QED BY <1>1, <1>2, <1>3 DEF Next

-----------------------------------------------------------------------------
\* The inductive invariant of the limiter.
THEOREM SpecIInv == Spec => []IInv
BY InitIInv, NextIInv, PTL DEF Spec

\* A bucket never holds more than MaxAttempts instants, none in the future:
\* the log of check_and_record stays within its memory bound.
THEOREM TypeCorrect == Spec => []TypeOK
<1>1. IInv => TypeOK
    BY DEF IInv, Shapes, TypeOK, PeerInv, Bounded
<1> QED BY <1>1, SpecIInv, PTL

\* ADR-0016's budget: check_and_record never admits MaxAttempts + 1 attempts
\* of one peer within one window.
THEOREM AdmissionsWithinBudget == Spec => []WindowBudget
<1>1. IInv => WindowBudget
    <2> SUFFICES ASSUME IInv, NEW p \in Peers, NEW i \in DOMAIN accepted[p],
                        i + MaxAttempts \in DOMAIN accepted[p]
                 PROVE  accepted[p][i + MaxAttempts] - accepted[p][i] > Window
        BY DEF WindowBudget
    <2>1. DOMAIN accepted[p] = 1..Len(accepted[p])
        BY DEF IInv, Shapes
    <2>2. Spread(accepted[p])
        BY DEF IInv, PeerInv
    <2> QED BY <2>1, <2>2 DEF Spread
<1> QED BY <1>1, SpecIInv, PTL
-----------------------------------------------------------------------------
(* What the limiter tells the peers it refuses.  Admitted attempts are in  *)
(* the order of time, so a full bucket holds exactly the attempts of the   *)
(* last window; and the hint of a refusal is tied to the oldest attempt of *)
(* a bucket that stays full until that attempt is dropped.                 *)

Ordered(a, t) ==
    \A i \in 1..Len(a) : a[i] <= t /\ \A j \in i..Len(a) : a[i] <= a[j]

HintInv(b, h, t) == h < t \/ (Len(b) = MaxAttempts /\ h = b[1] + Window)

SpentAt(a, r) == Cardinality({i \in 1..Len(a) : a[i] \in (r - Window)..r}) = MaxAttempts

RefusalInv(b, a, R, t) ==
    \A r \in R : /\ r <= t
                 /\ SpentAt(a, r)
                 /\ r = t => Len(b) = MaxAttempts /\ b[1] >= t - Window

AnswerInv ==
    \A p \in Peers : /\ Ordered(accepted[p], now)
                     /\ HintInv(buckets[p], hint[p], now)
                     /\ RefusalInv(buckets[p], accepted[p], refused[p], now)

\* Recording an attempt keeps the order of time.
LEMMA RecordKeepsOrder ==
    ASSUME NEW a \in Seq(Int), NEW t \in Int, Ordered(a, t)
    PROVE  Ordered(Append(a, t), t)
<1> DEFINE f == Append(a, t)
<1>1. /\ Len(a) \in Nat /\ Len(f) = Len(a) + 1 /\ f[Len(a) + 1] = t
      /\ \A i \in 1..Len(a) : f[i] = a[i] /\ a[i] \in Int
    OBVIOUS
<1> HIDE DEF f
<1>2. ASSUME NEW i \in 1..Len(f) PROVE f[i] <= t
    BY <1>1 DEF Ordered
<1>3. ASSUME NEW i \in 1..Len(f), NEW j \in i..Len(f) PROVE f[i] <= f[j]
    <2>1. CASE j = Len(a) + 1
        BY <1>1, <1>2, <2>1
    <2>2. CASE j # Len(a) + 1
        <3>1. i \in 1..Len(a) /\ j \in i..Len(a) /\ j \in 1..Len(a)
            BY <1>1, <2>2
        <3> QED BY <1>1, <3>1 DEF Ordered
    <2> QED BY <2>1, <2>2
<1> QED BY <1>2, <1>3 DEF Ordered, f

\* An attempt admitted later is outside the window of an earlier refusal.
LEMMA SpentStays ==
    ASSUME NEW a \in Seq(Int), NEW t \in Int, NEW r \in Int, r < t, SpentAt(a, r)
    PROVE  SpentAt(Append(a, t), r)
<1> DEFINE f == Append(a, t)
<1>1. /\ Len(a) \in Nat /\ Len(f) = Len(a) + 1 /\ f[Len(a) + 1] = t
      /\ \A i \in 1..Len(a) : f[i] = a[i]
    OBVIOUS
<1> HIDE DEF f
<1>2. t \notin (r - Window)..r
    OBVIOUS
<1>3. {i \in 1..Len(f) : f[i] \in (r - Window)..r} = {i \in 1..Len(a) : a[i] \in (r - Window)..r}
    BY <1>1, <1>2
<1> QED BY <1>3 DEF SpentAt, f

\* A full bucket without a stale attempt is the whole of the last window.
LEMMA FullBucketIsSpent ==
    ASSUME NEW b \in Seq(Int), NEW a \in Seq(Int), NEW t \in Int, PeerInv(b, a, t), Ordered(a, t),
           Len(b) = MaxAttempts, b[1] >= t - Window
    PROVE  SpentAt(a, t)
<1> DEFINE gone == Forgotten(b, a)
<1>1. Len(a) \in Nat /\ Len(b) \in Nat /\ Len(b) >= 1 /\ gone \in Nat /\ Len(a) = gone + Len(b)
    BY LimitsAssumption DEF PeerInv, IsRest, Forgotten
<1>2. \A i \in 1..Len(a) : a[i] \in Int
    OBVIOUS
<1>3. a[gone + 1] = b[1] /\ gone + 1 \in 1..Len(a)
    BY <1>1 DEF PeerInv, IsRest
<1>4. \A i \in 1..gone : a[i] < t - Window
    BY DEF PeerInv, ForgottenAreOld
<1> HIDE DEF gone
<1>5. ASSUME NEW i \in 1..Len(a) PROVE a[i] \in (t - Window)..t <=> i \in (gone + 1)..Len(a)
    <2>1. CASE i <= gone
        <3>1. i \in 1..gone /\ i \notin (gone + 1)..Len(a)
            BY <1>1, <2>1
        <3>2. a[i] < t - Window
            BY <1>4, <3>1
        <3> QED BY <1>2, <3>1, <3>2, LimitsAssumption
    <2>2. CASE i > gone
        <3>1. i \in (gone + 1)..Len(a)
            BY <1>1, <2>2
        <3>2. a[gone + 1] <= a[i] /\ a[i] <= t
            BY <1>3, <3>1 DEF Ordered
        <3> QED BY <1>2, <1>3, <3>1, <3>2, LimitsAssumption
    <2> QED BY <1>1, <2>1, <2>2
<1>6. {i \in 1..Len(a) : a[i] \in (t - Window)..t} = (gone + 1)..Len(a)
    BY <1>1, <1>5
<1>7. Cardinality((gone + 1)..Len(a)) = Len(a) - (gone + 1) + 1
    BY <1>1, LimitsAssumption, FS_Interval
<1>8. Len(a) - (gone + 1) + 1 = MaxAttempts
    BY <1>1
<1> QED BY <1>6, <1>7, <1>8 DEF SpentAt

\* What is left of a bucket starts with an attempt that still counts.
LEMMA LiveIsFresh ==
    ASSUME IInv, NEW p \in Peers, NEW n \in 0..Len(buckets[p]), StaleFront(buckets[p], n),
           Len(Drop(buckets[p], n)) # 0
    PROVE  Drop(buckets[p], n)[1] >= now - Window /\ Drop(buckets[p], n)[1] = buckets[p][n + 1]
<1>1. buckets[p] \in Seq(Int) /\ Cutoff(now) = now - Window
    BY CutoffIsOneWindow DEF IInv, Shapes
<1>2. Len(Drop(buckets[p], n)) = Len(buckets[p]) - n
    BY <1>1 DEF Drop
<1>3. n < Len(buckets[p])
    BY <1>1, <1>2
<1>4. Drop(buckets[p], n)[1] = buckets[p][n + 1]
    BY <1>1, <1>3 DEF Drop
<1> QED BY <1>1, <1>3, <1>4 DEF StaleFront

LEMMA AnswerStep ==
    ASSUME IInv, AnswerInv, [Next]_vars
    PROVE  AnswerInv'
<1>1. now \in Int /\ \A p \in Peers : /\ buckets[p] \in Seq(Int) /\ accepted[p] \in Seq(Int)
                                      /\ refused[p] \subseteq Int /\ hint[p] \in Int
                                      /\ PeerInv(buckets[p], accepted[p], now)
    BY DEF IInv, Shapes
<1>2. CASE Tick
    <2> SUFFICES ASSUME NEW p \in Peers
                 PROVE  /\ Ordered(accepted[p], now + 1)
                        /\ HintInv(buckets[p], hint[p], now + 1)
                        /\ RefusalInv(buckets[p], accepted[p], refused[p], now + 1)
        BY <1>2 DEF AnswerInv, Tick
    <2>1. \A i \in 1..Len(accepted[p]) : accepted[p][i] \in Int
        BY <1>1
    <2>2. Ordered(accepted[p], now + 1)
        <3> SUFFICES ASSUME NEW i \in 1..Len(accepted[p]), NEW j \in i..Len(accepted[p])
                     PROVE  accepted[p][i] <= now + 1 /\ accepted[p][i] <= accepted[p][j]
            BY DEF Ordered
        <3>1. accepted[p][i] <= now /\ accepted[p][i] <= accepted[p][j]
            BY DEF AnswerInv, Ordered
        <3> QED BY <1>1, <2>1, <3>1
    <2>3. HintInv(buckets[p], hint[p], now + 1)
        BY <1>1 DEF AnswerInv, HintInv
    <2>4. RefusalInv(buckets[p], accepted[p], refused[p], now + 1)
        BY <1>1 DEF AnswerInv, RefusalInv
    <2> QED BY <2>2, <2>3, <2>4
<1>3. ASSUME NEW q \in Peers, NEW n \in 0..Len(buckets[q]), StaleFront(buckets[q], n), Accept(q, n)
      PROVE  AnswerInv'
    <2> DEFINE live == Drop(buckets[q], n)
               b == buckets[q]
    <2>1. /\ live \in Seq(Int) /\ Len(live) = Len(b) - n /\ Len(live) < MaxAttempts
          /\ buckets' = [buckets EXCEPT ![q] = Append(live, now)]
          /\ accepted' = [accepted EXCEPT ![q] = Append(@, now)]
          /\ UNCHANGED <<now, refused, hint>>
        BY <1>1, <1>3 DEF Accept, Drop
    <2>2. Len(b) = MaxAttempts => b[1] < now - Window
        <3> SUFFICES ASSUME Len(b) = MaxAttempts PROVE b[1] < now - Window
            OBVIOUS
        <3>1. n # 0
            BY <1>1, <2>1, LimitsAssumption
        <3>2. 1 \in 1..n
            BY <1>1, <3>1
        <3> QED BY <1>3, <3>2, CutoffIsOneWindow DEF StaleFront, IInv, Shapes
    <2>3. Ordered(Append(accepted[q], now), now)
        BY <1>1, RecordKeepsOrder DEF AnswerInv
    <2>4. hint[q] < now
        <3>1. Len(b) = MaxAttempts => b[1] \in Int
            BY <1>1, LimitsAssumption
        <3> QED BY <1>1, <2>2, <3>1, LimitsAssumption DEF AnswerInv, HintInv
    <2>5. ASSUME NEW r \in refused[q] PROVE r < now /\ SpentAt(Append(accepted[q], now), r)
        <3>1. r \in Int /\ r <= now /\ SpentAt(accepted[q], r)
            BY <1>1 DEF AnswerInv, RefusalInv
        <3>2. r # now
            <4>1. Len(b) = MaxAttempts => b[1] \in Int
                BY <1>1, LimitsAssumption
            <4> QED BY <1>1, <2>2, <4>1, LimitsAssumption DEF AnswerInv, RefusalInv
        <3>3. r < now
            BY <1>1, <3>1, <3>2
        <3> QED BY <1>1, <3>1, <3>3, SpentStays
    <2> HIDE DEF live, b
    <2> SUFFICES ASSUME NEW p \in Peers
                 PROVE  /\ Ordered(accepted'[p], now)
                        /\ HintInv(buckets'[p], hint[p], now)
                        /\ RefusalInv(buckets'[p], accepted'[p], refused[p], now)
        BY <2>1 DEF AnswerInv
    <2>6. CASE p # q
        <3>1. accepted'[p] = accepted[p] /\ buckets'[p] = buckets[p]
            BY <2>1, <2>6 DEF IInv, Shapes
        <3> QED BY <3>1 DEF AnswerInv
    <2>7. CASE p = q
        <3>1. accepted'[p] = Append(accepted[q], now)
            BY <2>1, <2>7 DEF IInv, Shapes
        <3>2. \A r \in refused[p] : r <= now /\ r # now /\ SpentAt(accepted'[p], r)
            BY <1>1, <2>5, <2>7, <3>1
        <3> QED BY <2>3, <2>4, <2>7, <3>1, <3>2 DEF HintInv, RefusalInv
    <2> QED BY <2>6, <2>7
<1>4. ASSUME NEW q \in Peers, NEW n \in 0..Len(buckets[q]), StaleFront(buckets[q], n), Reject(q, n)
      PROVE  AnswerInv'
    <2>1. PICK live : live = Drop(buckets[q], n)
        OBVIOUS
    <2>2. /\ live \in Seq(Int) /\ Len(live) >= MaxAttempts /\ PeerInv(live, accepted[q], now)
          /\ buckets' = [buckets EXCEPT ![q] = live]
          /\ refused' = [refused EXCEPT ![q] = @ \cup {now}]
          /\ hint' = [hint EXCEPT ![q] = live[1] + Window]
          /\ UNCHANGED <<now, accepted>>
        BY <1>4, <2>1, PrunedPeerInv DEF Reject
    <2>3. Len(live) = MaxAttempts /\ live[1] >= now - Window
        <3>1. Len(live) = MaxAttempts /\ Len(live) # 0
            BY <2>2, LimitsAssumption DEF PeerInv, Bounded
        <3> QED BY <1>4, <2>1, <3>1, LiveIsFresh
    <2>4. SpentAt(accepted[q], now)
        BY <1>1, <2>2, <2>3, FullBucketIsSpent DEF AnswerInv
    <2> SUFFICES ASSUME NEW p \in Peers
                 PROVE  /\ Ordered(accepted[p], now)
                        /\ HintInv(buckets'[p], hint'[p], now)
                        /\ RefusalInv(buckets'[p], accepted[p], refused'[p], now)
        BY <2>2 DEF AnswerInv
    <2>5. CASE p # q
        <3>1. buckets'[p] = buckets[p] /\ refused'[p] = refused[p] /\ hint'[p] = hint[p]
            BY <2>2, <2>5 DEF IInv, Shapes
        <3> QED BY <3>1 DEF AnswerInv
    <2>6. CASE p = q
        <3>1. buckets'[p] = live /\ hint'[p] = live[1] + Window /\ refused'[p] = refused[q] \cup {now}
            BY <2>2, <2>6 DEF IInv, Shapes
        <3>2. RefusalInv(live, accepted[p], refused'[p], now)
            BY <1>1, <2>3, <2>4, <2>6, <3>1 DEF AnswerInv, RefusalInv
        <3>3. HintInv(live, hint'[p], now)
            BY <2>3, <3>1 DEF HintInv
        <3> QED BY <2>6, <3>1, <3>2, <3>3 DEF AnswerInv
    <2> QED BY <2>5, <2>6
<1>5. CASE UNCHANGED vars
    BY <1>5 DEF vars, AnswerInv
<1> QED BY <1>2, <1>3, <1>4, <1>5 DEF Next, CheckAndRecord

LEMMA AnswersAtStart == Init => AnswerInv
<1> SUFFICES ASSUME Init, NEW p \in Peers
             PROVE  /\ Ordered(<<>>, now) /\ HintInv(<<>>, Start - 1, now)
                    /\ RefusalInv(<<>>, <<>>, {}, now)
    BY DEF Init, AnswerInv
<1> QED BY LimitsAssumption DEF Init, Ordered, HintInv, RefusalInv

LEMMA AnswerInvariant == Spec => [](IInv /\ AnswerInv)
<1>1. Init => IInv /\ AnswerInv
    BY InitIInv, AnswersAtStart
<1>2. (IInv /\ AnswerInv) /\ [Next]_vars => (IInv /\ AnswerInv)'
    BY NextIInv, AnswerStep
<1> QED BY <1>1, <1>2, PTL DEF Spec

\* A refused peer has used up its budget: check_and_record counts no refused
\* attempt, and none that is older than the window.
THEOREM RefusedHadSpent == Spec => []RefusalsJustified
<1>1. IInv /\ AnswerInv => RefusalsJustified
    <2> SUFFICES ASSUME IInv, AnswerInv, NEW p \in Peers, NEW t \in refused[p]
                 PROVE  Cardinality({i \in DOMAIN accepted[p] :
                            accepted[p][i] \in (t - Window)..t}) = MaxAttempts
        BY DEF RefusalsJustified
    <2>1. DOMAIN accepted[p] = 1..Len(accepted[p])
        BY DEF IInv, Shapes
    <2> QED BY <2>1 DEF AnswerInv, RefusalInv, SpentAt
<1> QED BY <1>1, AnswerInvariant, PTL

\* A peer is admitted only after the instant that its last RateLimited named:
\* retry_after runs out before the budget comes back, never after that
\* (check_and_record).
THEOREM HintIsHonest == Spec => HintNotEarly
<1>1. IInv /\ AnswerInv /\ [Next]_vars
        => [\A p \in Peers : accepted'[p] # accepted[p] => now > hint[p]]_vars
    <2> SUFFICES ASSUME IInv, AnswerInv, Next, NEW p \in Peers, accepted'[p] # accepted[p]
                 PROVE  now > hint[p]
        OBVIOUS
    <2>1. PICK q \in Peers : \E n \in 0..Len(buckets[q]) : StaleFront(buckets[q], n) /\ Accept(q, n)
        BY DEF Next, Tick, CheckAndRecord, Reject
    <2>2. PICK n \in 0..Len(buckets[q]) : StaleFront(buckets[q], n) /\ Accept(q, n)
        BY <2>1
    <2>3. q = p
        BY <2>2 DEF Accept, IInv, Shapes
    <2>4. /\ buckets[p] \in Seq(Int) /\ now \in Int /\ hint[p] \in Int
          /\ Cutoff(now) = now - Window
        BY CutoffIsOneWindow DEF IInv, Shapes
    <2>5. CASE hint[p] < now
        BY <2>4, <2>5
    <2>6. CASE Len(buckets[p]) = MaxAttempts /\ hint[p] = buckets[p][1] + Window
        <3>1. Len(Drop(buckets[p], n)) = Len(buckets[p]) - n
            BY <2>3, <2>4 DEF Drop
        <3>2. 1 \in 1..n /\ buckets[p][1] \in Int
            BY <2>2, <2>3, <2>4, <2>6, <3>1, LimitsAssumption DEF Accept
        <3>3. buckets[p][1] < now - Window
            BY <2>2, <2>3, <2>4, <3>2 DEF StaleFront
        <3> QED BY <2>4, <2>6, <3>2, <3>3, LimitsAssumption
    <2> QED BY <2>5, <2>6 DEF AnswerInv, HintInv
<1> QED BY <1>1, AnswerInvariant, PTL DEF Spec, HintNotEarly
-----------------------------------------------------------------------------
(* The refinement of AttemptBudget.  The attempts of a bucket that count   *)
(* are those behind its stale front.  There is exactly one such front, it  *)
(* only grows with time, and a pruned bucket has none.                     *)

FrontAt(b, n, t) ==
    /\ n \in 0..Len(b)
    /\ \A i \in 1..n : b[i] < Cutoff(t)
    /\ n < Len(b) => b[n + 1] >= Cutoff(t)

CountAt(b, t) == Len(Drop(b, CHOOSE n \in 0..Len(b) : FrontAt(b, n, t)))

LEMMA CutoffAt ==
    ASSUME NEW t \in Int, t >= Start
    PROVE  Cutoff(t) = t - Window /\ Cutoff(t) \in Int
BY LimitsAssumption, ClockAssumption DEF Cutoff

LEMMA FrontExists ==
    ASSUME NEW b \in Seq(Int), NEW t \in Int, t >= Start
    PROVE  \E n \in 0..Len(b) : FrontAt(b, n, t)
<1> DEFINE S == {n \in Nat : n = Len(b) \/ (n < Len(b) /\ b[n + 1] >= Cutoff(t))}
           R == OpToRel(<, Nat)
<1>1. Cutoff(t) \in Int /\ Len(b) \in Nat
    BY CutoffAt
<1>2. S \in SUBSET Nat /\ S # {}
    BY <1>1
<1>3. \A x, y \in Nat : x < y => <<x, y>> \in R
    BY DEF OpToRel
<1>4. IsWellFoundedOn(R, Nat)
    BY NatLessThanWellFounded
<1> HIDE DEF R
<1>5. PICK n \in S : \A m \in S : ~ (<<m, n>> \in R)
    <2> HIDE DEF S
    <2> QED BY <1>2, <1>4, WFMin
<1>6. \A m \in Nat : m < n => m \notin S
    BY <1>3, <1>5
<1>7. n \in 0..Len(b)
    BY <1>1, <1>5
<1>8. ASSUME NEW i \in 1..n PROVE b[i] < Cutoff(t)
    <2>1. i - 1 \in Nat /\ i - 1 < n /\ (i - 1) + 1 = i /\ i - 1 < Len(b) /\ i \in 1..Len(b)
        BY <1>1, <1>7
    <2>2. i - 1 \notin S
        BY <1>6, <2>1
    <2>3. b[i] \in Int
        BY <2>1
    <2> QED BY <1>1, <2>1, <2>2, <2>3
<1>9. n < Len(b) => b[n + 1] >= Cutoff(t)
    BY <1>5
<1> QED BY <1>7, <1>8, <1>9 DEF FrontAt

LEMMA FrontIsUnique ==
    ASSUME NEW b \in Seq(Int), NEW t \in Int, t >= Start, NEW n, NEW m,
           FrontAt(b, n, t), FrontAt(b, m, t)
    PROVE  n = m
<1>1. /\ Cutoff(t) \in Int /\ n \in 0..Len(b) /\ m \in 0..Len(b) /\ Len(b) \in Nat
      /\ \A i \in 1..Len(b) : b[i] \in Int
    BY CutoffAt DEF FrontAt
<1>2. ASSUME NEW x \in 0..Len(b), NEW y \in 0..Len(b), FrontAt(b, x, t), FrontAt(b, y, t), x < y
      PROVE  FALSE
    <2>1. x + 1 \in 1..y /\ x < Len(b) /\ x + 1 \in 1..Len(b)
        BY <1>1, <1>2
    <2>2. b[x + 1] < Cutoff(t) /\ b[x + 1] >= Cutoff(t)
        BY <1>2, <2>1 DEF FrontAt
    <2> QED BY <1>1, <2>1, <2>2
<1>3. ~ (n < m) /\ ~ (m < n)
    BY <1>1, <1>2
<1> QED BY <1>1, <1>3

\* However many attempts were dropped already, those that count are the rest.
LEMMA Counted ==
    ASSUME NEW b \in Seq(Int), NEW t \in Int, t >= Start, NEW n, FrontAt(b, n, t)
    PROVE  CountAt(b, t) = Len(b) - n /\ Len(Drop(b, n)) = Len(b) - n
<1> DEFINE m == CHOOSE k \in 0..Len(b) : FrontAt(b, k, t)
<1>1. m \in 0..Len(b) /\ FrontAt(b, m, t)
    BY FrontExists
<1> HIDE DEF m
<1>2. m = n
    BY <1>1, FrontIsUnique
<1>3. Len(Drop(b, n)) = Len(b) - n
    BY <1>1, <1>2 DEF Drop
<1> QED BY <1>2, <1>3 DEF CountAt, m

\* A pruned bucket, and one to which the present instant was added.
LEMMA CountedWhole ==
    ASSUME NEW b \in Seq(Int), NEW t \in Int, t >= Start, Len(b) # 0 => b[1] >= Cutoff(t)
    PROVE  CountAt(b, t) = Len(b)
<1>1. FrontAt(b, 0, t)
    BY DEF FrontAt
<1> QED BY <1>1, Counted

LEMMA CountedLater ==
    ASSUME NEW b \in Seq(Int), NEW t \in Int, t >= Start
    PROVE  CountAt(b, t) \in 0..Len(b) /\ CountAt(b, t + 1) \in 0..CountAt(b, t)
<1>1. PICK n \in 0..Len(b) : FrontAt(b, n, t)
    BY FrontExists
<1>2. t + 1 \in Int /\ t + 1 >= Start
    BY LimitsAssumption
<1>3. PICK m \in 0..Len(b) : FrontAt(b, m, t + 1)
    BY <1>2, FrontExists
<1>4. CountAt(b, t) = Len(b) - n /\ CountAt(b, t + 1) = Len(b) - m
    BY <1>1, <1>2, <1>3, Counted
<1>5. /\ Cutoff(t) \in Int /\ Cutoff(t + 1) = Cutoff(t) + 1 /\ Len(b) \in Nat
      /\ \A i \in 1..Len(b) : b[i] \in Int
    BY <1>2, CutoffAt, LimitsAssumption
<1>6. ASSUME m < n PROVE FALSE
    <2>1. m + 1 \in 1..n /\ m < Len(b) /\ m + 1 \in 1..Len(b)
        BY <1>5, <1>6
    <2>2. b[m + 1] < Cutoff(t) /\ b[m + 1] >= Cutoff(t + 1)
        BY <1>1, <1>3, <2>1 DEF FrontAt
    <2> QED BY <1>5, <2>1, <2>2
<1> QED BY <1>4, <1>5, <1>6

LEMMA CountingAtStart == Init => Budget!Init
<1> SUFFICES ASSUME Init, NEW p \in Peers PROVE Counting(p) = 0
    BY DEF Budget!Init
<1>1. buckets[p] = <<>> /\ now = Start
    BY DEF Init
<1>2. CountAt(<<>>, Start) = 0
    <2>1. PICK b : b = <<>>
        OBVIOUS
    <2>2. b \in Seq(Int) /\ Len(b) = 0
        BY <2>1
    <2>3. Start \in Int /\ Start >= Start
        BY LimitsAssumption
    <2>4. CountAt(b, Start) = Len(b)
        BY <2>2, <2>3, CountedWhole
    <2> QED BY <2>1, <2>2, <2>4
<1>3. Counting(p) = CountAt(buckets[p], now)
    BY DEF Counting, CountAt, StaleFront, FrontAt
<1> QED BY <1>1, <1>2, <1>3

LEMMA CountingStep ==
    ASSUME IInv, [Next]_vars
    PROVE  [Budget!Next]_([p \in Peers |-> Counting(p)])
<1> DEFINE used == [p \in Peers |-> CountAt(buckets[p], now)]
           after == [p \in Peers |-> CountAt(buckets'[p], now')]
<1>1. [p \in Peers |-> Counting(p)] = used
    BY DEF Counting, CountAt, StaleFront, FrontAt
<1>2. [p \in Peers |-> Counting(p)]' = after
    BY DEF Counting, CountAt, StaleFront, FrontAt
<1>3. /\ now \in Int /\ now >= Start /\ MaxAttempts \in Nat
      /\ \A p \in Peers : buckets[p] \in Seq(Int) /\ Len(buckets[p]) <= MaxAttempts
    BY LimitsAssumption DEF IInv, Shapes, PeerInv, Bounded
<1> SUFFICES \/ after = used
             \/ /\ after \in [Peers -> 0..MaxAttempts]
                /\ \A p \in Peers : after[p] <= used[p]
             \/ \E p \in Peers : /\ used[p] < MaxAttempts
                                 /\ after = [used EXCEPT ![p] = @ + 1]
    BY <1>1, <1>2 DEF Budget!Next, Budget!Expire, Budget!Admit
<1>4. CASE Tick
    <2>1. \A p \in Peers : /\ CountAt(buckets[p], now) \in 0..Len(buckets[p])
                           /\ CountAt(buckets[p], now + 1) \in 0..CountAt(buckets[p], now)
        BY <1>3, CountedLater
    <2>2. after = [p \in Peers |-> CountAt(buckets[p], now + 1)]
        BY <1>4 DEF Tick
    <2>3. \A p \in Peers : after[p] \in 0..MaxAttempts /\ after[p] <= used[p]
        BY <1>3, <2>1, <2>2
    <2> QED BY <2>2, <2>3
<1>5. ASSUME NEW p \in Peers, NEW n \in 0..Len(buckets[p]), StaleFront(buckets[p], n)
      PROVE  /\ Drop(buckets[p], n) \in Seq(Int)
             /\ CountAt(buckets[p], now) = Len(Drop(buckets[p], n))
             /\ Len(Drop(buckets[p], n)) # 0 => Drop(buckets[p], n)[1] >= Cutoff(now)
    <2>1. FrontAt(buckets[p], n, now)
        BY <1>5 DEF StaleFront, FrontAt
    <2>2. CountAt(buckets[p], now) = Len(Drop(buckets[p], n))
        BY <1>3, <2>1, Counted
    <2>3. Len(Drop(buckets[p], n)) # 0 => Drop(buckets[p], n)[1] >= Cutoff(now)
        BY <1>3, <1>5, LiveIsFresh, CutoffIsOneWindow
    <2> QED BY <1>5, <2>2, <2>3, PrunedPeerInv
<1>6. ASSUME NEW p \in Peers, NEW n \in 0..Len(buckets[p]), StaleFront(buckets[p], n), Accept(p, n)
      PROVE  used[p] < MaxAttempts /\ after = [used EXCEPT ![p] = @ + 1]
    <2>1. PICK live : live = Drop(buckets[p], n)
        OBVIOUS
    <2>2. /\ live \in Seq(Int) /\ used[p] = Len(live) /\ Len(live) < MaxAttempts
          /\ Len(live) # 0 => live[1] >= Cutoff(now)
          /\ buckets' = [buckets EXCEPT ![p] = Append(live, now)] /\ now' = now
        BY <1>5, <1>6, <2>1 DEF Accept
    <2>3. /\ Append(live, now) \in Seq(Int) /\ Len(Append(live, now)) = Len(live) + 1
          /\ Append(live, now)[1] >= Cutoff(now)
        <3>1. now >= Cutoff(now)
            BY <1>3, CutoffAt, LimitsAssumption
        <3>2. Append(live, now)[1] = IF Len(live) = 0 THEN now ELSE live[1]
            BY <1>3, <2>2
        <3> QED BY <1>3, <2>2, <3>1, <3>2
    <2>4. CountAt(Append(live, now), now) = Len(live) + 1
        BY <1>3, <2>3, CountedWhole
    <2>5. \A q \in Peers : after[q] = IF q = p THEN used[p] + 1 ELSE used[q]
        BY <2>2, <2>4 DEF IInv, Shapes
    <2> HIDE DEF used
    <2>6. used \in [Peers -> {used[q] : q \in Peers}]
        BY DEF used
    <2> QED BY <2>2, <2>5, <2>6
<1>7. ASSUME NEW p \in Peers, NEW n \in 0..Len(buckets[p]), StaleFront(buckets[p], n), Reject(p, n)
      PROVE  after = used
    <2>1. PICK live : live = Drop(buckets[p], n)
        OBVIOUS
    <2>2. /\ live \in Seq(Int) /\ used[p] = Len(live)
          /\ Len(live) # 0 => live[1] >= Cutoff(now)
          /\ buckets' = [buckets EXCEPT ![p] = live] /\ now' = now
        BY <1>5, <1>7, <2>1 DEF Reject
    <2>3. CountAt(live, now) = Len(live)
        BY <1>3, <2>2, CountedWhole
    <2>4. \A q \in Peers : after[q] = used[q]
        BY <2>2, <2>3 DEF IInv, Shapes
    <2> QED BY <2>4
<1>8. CASE UNCHANGED vars
    BY <1>8 DEF vars
<1> HIDE DEF used, after
<1> QED BY <1>4, <1>6, <1>7, <1>8 DEF Next, CheckAndRecord

\* The sliding window of check_and_record implements the abstract budget, step
\* by step: admitting uses one attempt up, refusing changes nothing, and only
\* the clock gives attempts back (ADR-0016).
THEOREM WindowImplementsBudget == Spec => ImplementsBudget
<1>1. IInv /\ [Next]_vars => [Budget!Next]_([p \in Peers |-> Counting(p)])
    BY CountingStep
<1> QED BY <1>1, CountingAtStart, SpecIInv, PTL DEF Spec, ImplementsBudget, Budget!Spec
=============================================================================
