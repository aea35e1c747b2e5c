------------------------- MODULE GitHistoryProofs -------------------------
(***************************************************************************)
(* Lemmas about linear histories and `git rebase`, for any entries,        *)
(* contents and devices.                                                   *)
(*                                                                         *)
(* A rebase is a recursive function over the commits of a branch.  To the  *)
(* provers a recursive function is a CHOOSE, so it is first shown to       *)
(* exist, by induction over the natural numbers; what it computes is then  *)
(* shown by the same induction.  The induction principle is stated with    *)
(* sets, because no prover can instantiate a theorem about any operator.   *)
(***************************************************************************)
EXTENDS GitHistory, SequenceTheorems, NaturalsInduction, WellFoundedInduction, TLAPS

-----------------------------------------------------------------------------
(* Induction over sets of natural numbers                                  *)

LEMMA LeastNatural ==
    ASSUME NEW S \in SUBSET Nat, S # {}
    PROVE  \E n \in S : \A m \in S : n <= m
<1> DEFINE R == OpToRel(<, Nat)
<1>1. IsWellFoundedOn(R, Nat)
    BY NatLessThanWellFounded
<1>2. \A x, y \in Nat : x < y => <<x, y>> \in R
    BY DEF OpToRel
<1> HIDE DEF R
<1>3. PICK n \in S : \A m \in S : ~ (<<m, n>> \in R)
    BY <1>1, WFMin
<1>4. \A m \in S : ~ (m < n)
    BY <1>2, <1>3
<1> QED BY <1>3, <1>4

LEMMA SetInduction ==
    ASSUME NEW S, 0 \in S, \A n \in Nat : n \in S => n + 1 \in S
    PROVE  Nat \subseteq S
<1> SUFFICES ASSUME ~ (Nat \subseteq S) PROVE FALSE
    OBVIOUS
<1>1. PICK n \in Nat \ S : \A m \in Nat \ S : n <= m
    BY LeastNatural
<1>2. n # 0 /\ n - 1 \in Nat
    BY <1>1
<1>3. n - 1 \in S
    BY <1>1, <1>2
<1>4. (n - 1) + 1 \in S
    BY <1>2, <1>3
<1> QED BY <1>1, <1>4

-----------------------------------------------------------------------------
(* Histories                                                               *)

\* Histories of commits whose contents are in C, by devices in D.
CommitShapes(C, D) == [tree : [Keys -> C], by : D]
Histories(C, D) == Seq(CommitShapes(C, D))

NoEmptyCommit(h) == \A i \in 2..Len(h) : h[i].tree # h[i - 1].tree

Extends(h, g) == Len(g) <= Len(h) /\ \A i \in 1..Len(g) : h[i] = g[i]

LEMMA PrefixIsExtended ==
    ASSUME NEW S, NEW g \in Seq(S), NEW h \in Seq(S)
    PROVE  IsPrefix(g, h) <=> Extends(h, g)
<1>1. Len(g) \in Nat /\ Len(h) \in Nat
    OBVIOUS
<1>2. SUFFICES ASSUME Len(g) <= Len(h)
               PROVE  SubSeq(g, 1, Len(g)) = SubSeq(h, 1, Len(g))
                        <=> \A i \in 1..Len(g) : h[i] = g[i]
    BY DEF IsPrefix, Extends
<1>3. \A i \in 1..Len(g) : g[i] \in S /\ h[i] \in S
    BY <1>1, <1>2
<1> DEFINE a == SubSeq(g, 1, Len(g))
           b == SubSeq(h, 1, Len(g))
<1>4. /\ a \in Seq(S) /\ b \in Seq(S)
      /\ Len(a) = Len(g) /\ Len(b) = Len(g)
      /\ \A i \in 1..Len(g) : a[i] = g[i] /\ b[i] = h[i]
    BY <1>1, <1>3, SubSeqProperties
<1> HIDE DEF a, b
<1>5. (\A i \in 1..Len(g) : a[i] = b[i]) => a = b
    BY <1>4, SeqEqual
<1> QED BY <1>4, <1>5 DEF a, b

\* A commit of h that g has too.
LEMMA SharedCommit ==
    ASSUME NEW S, NEW g \in Seq(S), NEW h \in Seq(S), NEW i \in 1..Len(h),
           i \notin NotIn(h, g)
    PROVE  i <= Len(g) /\ \A j \in 1..i : g[j] = h[j]
<1>1. DOMAIN h = 1..Len(h) /\ i \in Nat
    OBVIOUS
<1>2. IsPrefix(SubSeq(h, 1, i), g)
    BY <1>1 DEF NotIn
<1>3. \A j \in 1..i : h[j] \in S
    OBVIOUS
<1>4. /\ SubSeq(h, 1, i) \in Seq(S)
      /\ Len(SubSeq(h, 1, i)) = i
      /\ \A j \in 1..i : SubSeq(h, 1, i)[j] = h[j]
    BY <1>1, <1>3, SubSeqProperties
<1>5. Extends(g, SubSeq(h, 1, i))
    BY <1>2, <1>4, PrefixIsExtended
<1> QED BY <1>4, <1>5 DEF Extends

LEMMA TipType ==
    ASSUME NEW C, NoEntry \in C, NEW D, NEW h \in Histories(C, D)
    PROVE  /\ \A i \in 0..Len(h) : TreeAt(h, i) \in [Keys -> C]
           /\ Tip(h) \in [Keys -> C]
<1>1. ASSUME NEW i \in 0..Len(h) PROVE TreeAt(h, i) \in [Keys -> C]
    <2>1. CASE i = 0
        BY <2>1 DEF TreeAt, EmptyTree
    <2>2. CASE i # 0
        <3>1. h[i] \in CommitShapes(C, D)
            BY <2>2 DEF Histories
        <3> QED BY <2>2, <3>1 DEF TreeAt, CommitShapes
    <2> QED BY <2>1, <2>2
<1>2. Len(h) \in 0..Len(h)
    BY DEF Histories
<1> QED BY <1>1, <1>2 DEF Tip

\* A commit that changes something, put on top of a history.
LEMMA AppendCommit ==
    ASSUME NEW C, NoEntry \in C, NEW D, NEW h \in Histories(C, D), NEW c \in CommitShapes(C, D),
           c.tree # Tip(h)
    PROVE  /\ Append(h, c) \in Histories(C, D) /\ Len(Append(h, c)) = Len(h) + 1
           /\ Extends(Append(h, c), h) /\ Append(h, c)[Len(h) + 1] = c
           /\ Tip(Append(h, c)) = c.tree
           /\ NoEmptyCommit(h) => NoEmptyCommit(Append(h, c))
<1>1. PICK f : f = Append(h, c)
    OBVIOUS
<1>2. /\ f \in Histories(C, D) /\ Len(f) = Len(h) + 1 /\ Len(h) \in Nat
      /\ \A i \in 1..Len(h) : f[i] = h[i]
      /\ f[Len(h) + 1] = c
    BY <1>1 DEF Histories
<1>3. Extends(f, h) /\ Tip(f) = c.tree
    BY <1>1, <1>2 DEF Extends, Tip, TreeAt
<1>4. ASSUME NoEmptyCommit(h), NEW i \in 2..Len(f) PROVE f[i].tree # f[i - 1].tree
    <2>1. CASE i = Len(h) + 1
        <3>1. Len(h) # 0 /\ i - 1 = Len(h) /\ Len(h) \in 1..Len(h)
            BY <2>1, <1>2
        <3>2. f[i - 1] = h[Len(h)] /\ Tip(h) = h[Len(h)].tree
            BY <3>1, <1>2 DEF Tip, TreeAt
        <3> QED BY <2>1, <3>2, <1>1, <1>2
    <2>2. CASE i # Len(h) + 1
        <3>1. i \in 2..Len(h) /\ i \in 1..Len(h) /\ i - 1 \in 1..Len(h)
            BY <2>2, <1>2
        <3>2. f[i] = h[i] /\ f[i - 1] = h[i - 1]
            BY <3>1, <1>2
        <3> QED BY <3>1, <3>2, <1>4 DEF NoEmptyCommit
    <2> QED BY <2>1, <2>2
<1> QED BY <1>1, <1>2, <1>3, <1>4 DEF NoEmptyCommit

\* What a history introduced, pair by pair.
LEMMA IsIntroduced ==
    ASSUME NEW C, NEW D, NEW h \in Histories(C, D), NEW k \in Keys, NEW c
    PROVE  <<k, c>> \in Introduced(h)
             <=> c # NoEntry /\ \E i \in 1..Len(h) : h[i].tree[k] = c
<1>1. DOMAIN h = 1..Len(h)
    BY DEF Histories
<1>2. <<k, c>> \in Keys \X {NoEntry} <=> c = NoEntry
    OBVIOUS
<1>3. <<k, c>> \in {<<x, h[i].tree[x]>> : x \in Keys, i \in DOMAIN h}
        <=> \E i \in DOMAIN h : h[i].tree[k] = c
    OBVIOUS
<1> QED BY <1>1, <1>2, <1>3 DEF Introduced

LEMMA IntroducedPairs ==
    ASSUME NEW h, NEW x \in Introduced(h)
    PROVE  \E k \in Keys : \E c : x = <<k, c>>
BY DEF Introduced

LEMMA TipIsIntroduced ==
    ASSUME NEW C, NEW D, NEW h \in Histories(C, D), NEW k \in Keys, Tip(h)[k] # NoEntry
    PROVE  <<k, Tip(h)[k]>> \in Introduced(h)
<1>1. Len(h) \in Nat
    BY DEF Histories
<1>2. Len(h) # 0
    BY DEF Tip, TreeAt, EmptyTree
<1>3. Len(h) \in 1..Len(h) /\ Tip(h) = h[Len(h)].tree
    BY <1>1, <1>2 DEF Tip, TreeAt
<1> QED BY <1>3, IsIntroduced

LEMMA IntroducedGrows ==
    ASSUME NEW C, NEW D, NEW g \in Histories(C, D), NEW h \in Histories(C, D), Extends(h, g)
    PROVE  Introduced(g) \subseteq Introduced(h)
<1> SUFFICES ASSUME NEW x \in Introduced(g) PROVE x \in Introduced(h)
    OBVIOUS
<1>1. PICK k \in Keys : \E c : x = <<k, c>>
    BY IntroducedPairs
<1>2. PICK c : x = <<k, c>>
    BY <1>1
<1>3. PICK i \in 1..Len(g) : c # NoEntry /\ g[i].tree[k] = c
    BY <1>2, IsIntroduced
<1>4. i \in 1..Len(h) /\ h[i] = g[i]
    BY <1>3 DEF Extends, Histories
<1>5. h[i].tree[k] = c
    BY <1>3, <1>4
<1> QED BY <1>2, <1>3, <1>4, <1>5, IsIntroduced
-----------------------------------------------------------------------------
(* Rebases                                                                 *)

\* How the recursive function of Replays is written.
Unfolds(after, h, upstream, device) ==
    /\ after[0] = [ok |-> TRUE, history |-> upstream]
    /\ \A n \in 1..Len(h) :
          after[n] = IF n \in ToReplay(h, upstream)
                     THEN Replay(after[n - 1], Patch(h, n), device)
                     ELSE after[n - 1]

\* It exists.
LEMMA ReplaysUnfold ==
    ASSUME NEW S, NEW h \in Seq(S), NEW upstream, NEW device
    PROVE  Unfolds(Replays(h, upstream, device), h, upstream, device)
<1> DEFINE Step(g, n) == IF n = 0 THEN [ok |-> TRUE, history |-> upstream]
                         ELSE IF n \in ToReplay(h, upstream)
                         THEN Replay(g[n - 1], Patch(h, n), device)
                         ELSE g[n - 1]
           Known == {m \in Nat : \E g : g = [n \in 0..m |-> Step(g, n)]}
<1>1. 0 \in Known
    <2> DEFINE g == [n \in 0..0 |-> [ok |-> TRUE, history |-> upstream]]
    <2>1. g = [n \in 0..0 |-> Step(g, n)]
        BY \A n \in 0..0 : n = 0
    <2> QED BY <2>1
<1>2. ASSUME NEW m \in Nat, m \in Known PROVE m + 1 \in Known
    <2>1. PICK g : g = [n \in 0..m |-> Step(g, n)]
        BY <1>2
    <2> HIDE DEF Step
    <2> DEFINE f == [n \in 0..(m + 1) |-> IF n = m + 1 THEN Step(g, m + 1) ELSE g[n]]
    <2>2. \A n \in 0..m : f[n] = g[n]
        OBVIOUS
    <2>3. \A n \in 0..(m + 1) : Step(f, n) = Step(g, n)
        BY <2>2 DEF Step
    <2>4. \A n \in 0..(m + 1) : f[n] = Step(f, n)
        <3>1. \A n \in 0..m : g[n] = Step(g, n)
            BY <2>1
        <3> QED BY <2>3, <3>1
    <2>5. f = [n \in 0..(m + 1) |-> Step(f, n)]
        BY <2>4
    <2> HIDE DEF f
    <2> QED BY <2>5 DEF Step
<1>3. Len(h) \in Known
    <2>1. Nat \subseteq Known
        <3> HIDE DEF Known
        <3> QED BY <1>1, <1>2, SetInduction
    <2> QED BY <2>1
<1> DEFINE after == Replays(h, upstream, device)
<1>4. after = [n \in 0..Len(h) |-> Step(after, n)]
    BY <1>3 DEF Replays
<1>5. \A n \in 0..Len(h) : after[n] = Step(after, n)
    <2> HIDE DEF Step, after
    <2> QED BY <1>4
<1>6. 0 \in 0..Len(h) /\ \A n \in 1..Len(h) : n \in 0..Len(h) /\ n # 0
    OBVIOUS
<1> HIDE DEF after
<1>7. Unfolds(after, h, upstream, device)
    BY <1>5, <1>6 DEF Unfolds
<1> QED BY <1>7 DEF after
Accs(C, D) == [ok : BOOLEAN, history : Histories(C, D)]

\* The commits that h has beyond g are by one device.
NewBy(h, g, device) == \A i \in (Len(g) + 1)..Len(h) : h[i].by = device

\* One commit replayed: what it adds, and that its contents win (take_theirs).
LEMMA ReplayStep ==
    ASSUME NEW C, NoEntry \in C, NEW D, NEW device \in D, NEW acc \in Accs(C, D),
           NEW patch, DOMAIN patch \subseteq Keys,
           \A k \in DOMAIN patch : patch[k][1] \in C /\ patch[k][2] \in C,
           acc.history # <<>>
    PROVE  LET r == Replay(acc, patch, device) IN
           /\ r \in Accs(C, D)
           /\ Extends(r.history, acc.history)
           /\ NewBy(r.history, acc.history, device)
           /\ NoEmptyCommit(acc.history) => NoEmptyCommit(r.history)
           /\ r.ok => acc.ok /\ \A k \in DOMAIN patch : Tip(r.history)[k] = patch[k][2]
           /\ \A k \in Keys : \/ Tip(r.history)[k] = Tip(acc.history)[k]
                              \/ k \in DOMAIN patch /\ Tip(r.history)[k] = patch[k][2]
<1> DEFINE r == Replay(acc, patch, device)
           g == acc.history
           cur == Tip(g)
           new == [k \in Keys |-> IF k \in DOMAIN patch
                                  THEN Merged(cur[k], patch[k][1], patch[k][2])
                                  ELSE cur[k]]
           conflict == ~ acc.ok \/ \E k \in DOMAIN patch :
                                      ~ Merges(cur[k], patch[k][1], patch[k][2])
<1>1. r = IF conflict THEN [acc EXCEPT !.ok = FALSE]
          ELSE IF new = cur THEN acc
          ELSE [acc EXCEPT !.history = Append(@, [tree |-> new, by |-> device])]
    BY DEF Replay
<1>2. g \in Histories(C, D) /\ cur \in [Keys -> C] /\ acc.ok \in BOOLEAN
    BY TipType DEF Accs
<1>3. \A k \in DOMAIN patch : Merged(cur[k], patch[k][1], patch[k][2]) = patch[k][2]
    BY DEF Merged, TakeTheirs
<1>4. \A k \in Keys : new[k] = IF k \in DOMAIN patch THEN patch[k][2] ELSE cur[k]
    BY <1>3
<1>5. new \in [Keys -> C]
    BY <1>2, <1>3
<1>6. Len(g) \in Nat /\ Len(g) # 0
    BY <1>2 DEF Histories
<1>7. Extends(g, g) /\ NewBy(g, g, device)
    BY <1>6 DEF Extends, NewBy
<1> HIDE DEF r, new, conflict
<1>8. CASE conflict
    <2>1. r = [acc EXCEPT !.ok = FALSE]
        BY <1>1, <1>8
    <2>2. r \in Accs(C, D) /\ r.history = g /\ r.ok = FALSE
        BY <2>1 DEF Accs
    <2> QED BY <2>2, <1>7 DEF r
<1>9. CASE ~ conflict /\ new = cur
    <2>1. r = acc
        BY <1>1, <1>9
    <2>2. acc.ok
        BY <1>9 DEF conflict
    <2> QED BY <2>1, <2>2, <1>4, <1>7, <1>9 DEF r
<1>10. CASE ~ conflict /\ new # cur
    <2>0. PICK c : c = [tree |-> new, by |-> device]
        OBVIOUS
    <2>1. PICK f : f = Append(g, c)
        OBVIOUS
    <2>2. r = [acc EXCEPT !.history = f]
        BY <1>1, <1>10, <2>0, <2>1
    <2>8. c \in CommitShapes(C, D) /\ c.tree = new /\ c.by = device
        BY <1>5, <2>0 DEF CommitShapes
    <2>3. /\ f \in Histories(C, D) /\ Len(f) = Len(g) + 1
          /\ Extends(f, g) /\ f[Len(g) + 1].by = device
          /\ Tip(f) = new
          /\ NoEmptyCommit(g) => NoEmptyCommit(f)
        BY <1>2, <1>10, <2>1, <2>8, AppendCommit
    <2>4. r \in Accs(C, D) /\ r.history = f /\ r.ok = acc.ok
        BY <2>2, <2>3 DEF Accs
    <2>5. acc.ok
        BY <1>10 DEF conflict
    <2>6. NewBy(f, g, device)
        BY <2>3, <1>6 DEF NewBy
    <2>9. \A k \in DOMAIN patch : Tip(f)[k] = patch[k][2]
        BY <2>3, <1>4
    <2>10. \A k \in Keys : Tip(f)[k] = cur[k] \/ (k \in DOMAIN patch /\ Tip(f)[k] = patch[k][2])
        BY <2>3, <1>4
    <2> QED BY <2>3, <2>4, <2>5, <2>6, <2>9, <2>10 DEF r
<1> QED BY <1>8, <1>9, <1>10

LEMMA PatchShape ==
    ASSUME NEW C, NoEntry \in C, NEW D, NEW h \in Histories(C, D), NEW n \in 1..Len(h)
    PROVE  /\ DOMAIN Patch(h, n) \subseteq Keys
           /\ \A k \in Keys : k \in DOMAIN Patch(h, n) <=> h[n].tree[k] # TreeAt(h, n - 1)[k]
           /\ \A k \in DOMAIN Patch(h, n) :
                 /\ Patch(h, n)[k][2] = h[n].tree[k]
                 /\ Patch(h, n)[k][1] \in C /\ Patch(h, n)[k][2] \in C
<1>1. n # 0 /\ n - 1 \in 0..Len(h) /\ n \in 0..Len(h)
    BY DEF Histories
<1>2. TreeAt(h, n) = h[n].tree
    BY <1>1 DEF TreeAt
<1>3. TreeAt(h, n) \in [Keys -> C] /\ TreeAt(h, n - 1) \in [Keys -> C]
    BY <1>1, TipType
<1> HIDE DEF TreeAt
<1> QED BY <1>2, <1>3 DEF Patch
\* What the first n commits of h give, replayed onto upstream: a history that
\* continues upstream, has what they introduced unless there was a conflict,
\* and shows nothing but what upstream or they show.
ReplaysSoFar(h, upstream, device, C, D, n) ==
    LET acc == Replays(h, upstream, device)[n] IN
    /\ acc \in Accs(C, D)
    /\ Extends(acc.history, upstream)
    /\ NewBy(acc.history, upstream, device)
    /\ NoEmptyCommit(acc.history)
    /\ acc.ok => \A k \in Keys : \A i \in 1..n :
                    h[i].tree[k] # NoEntry => <<k, h[i].tree[k]>> \in Introduced(acc.history)
    /\ \A k \in Keys : \/ Tip(acc.history)[k] = Tip(upstream)[k]
                       \/ \E i \in 1..n : Tip(acc.history)[k] = h[i].tree[k]

\* A commit that is not replayed is upstream's, or has the patch of one of its.
LEMMA SkippedIsThere ==
    ASSUME NEW C, NoEntry \in C, NEW D, NEW h \in Histories(C, D),
           NEW upstream \in Histories(C, D), NEW n \in 1..Len(h),
           n \notin ToReplay(h, upstream), NEW k \in DOMAIN Patch(h, n)
    PROVE  \E i \in 1..Len(upstream) : upstream[i].tree[k] = h[n].tree[k]
<1>1. CASE n \notin NotIn(h, upstream)
    <2>1. n <= Len(upstream) /\ \A j \in 1..n : upstream[j] = h[j]
        BY <1>1, SharedCommit DEF Histories
    <2>2. n \in 1..Len(upstream) /\ n \in 1..n
        BY <2>1 DEF Histories
    <2> QED BY <2>1, <2>2
<1>2. CASE n \in NotIn(h, upstream)
    <2>1. Patch(h, n) \in {Patch(upstream, i) : i \in NotIn(upstream, h)}
        BY <1>2 DEF ToReplay
    <2>2. PICK i \in NotIn(upstream, h) : Patch(h, n) = Patch(upstream, i)
        BY <2>1
    <2>3. i \in 1..Len(upstream)
        BY <2>2 DEF NotIn, Histories
    <2>4. Patch(h, n)[k][2] = h[n].tree[k]
        BY PatchShape
    <2>5. Patch(upstream, i)[k][2] = upstream[i].tree[k]
        BY <2>2, <2>3, PatchShape
    <2> QED BY <2>2, <2>3, <2>4, <2>5
<1> QED BY <1>1, <1>2

LEMMA ReplaysStart ==
    ASSUME NEW C, NoEntry \in C, NEW D, NEW device \in D, NEW h \in Histories(C, D),
           NEW upstream \in Histories(C, D), NoEmptyCommit(upstream)
    PROVE  ReplaysSoFar(h, upstream, device, C, D, 0)
<1>1. PICK acc : acc = Replays(h, upstream, device)[0]
    OBVIOUS
<1>2. acc = [ok |-> TRUE, history |-> upstream]
    BY <1>1, ReplaysUnfold DEF Histories, Unfolds
<1>3. acc \in Accs(C, D) /\ acc.history = upstream
    BY <1>2 DEF Accs
<1>4. Extends(upstream, upstream) /\ NewBy(upstream, upstream, device)
    BY DEF Extends, NewBy, Histories
<1> QED BY <1>1, <1>3, <1>4 DEF ReplaysSoFar

LEMMA ReplaysNext ==
    ASSUME NEW C, NoEntry \in C, NEW D, NEW device \in D, NEW h \in Histories(C, D),
           NEW upstream \in Histories(C, D), upstream # <<>>, NEW n \in 1..Len(h),
           ReplaysSoFar(h, upstream, device, C, D, n - 1)
    PROVE  ReplaysSoFar(h, upstream, device, C, D, n)
<1>1. PICK old : old = Replays(h, upstream, device)[n - 1]
    OBVIOUS
<1>2. PICK acc : acc = Replays(h, upstream, device)[n]
    OBVIOUS
<1>3. /\ n \in ToReplay(h, upstream) => acc = Replay(old, Patch(h, n), device)
      /\ n \notin ToReplay(h, upstream) => acc = old
    <2>1. PICK S : h \in Seq(S)
        BY DEF Histories
    <2>2. Unfolds(Replays(h, upstream, device), h, upstream, device)
        BY <2>1, ReplaysUnfold
    <2> QED BY <1>1, <1>2, <2>2 DEF Unfolds
<1>4. /\ old \in Accs(C, D)
      /\ Extends(old.history, upstream)
      /\ NewBy(old.history, upstream, device)
      /\ NoEmptyCommit(old.history)
      /\ old.ok => \A k \in Keys : \A i \in 1..(n - 1) :
             h[i].tree[k] # NoEntry => <<k, h[i].tree[k]>> \in Introduced(old.history)
      /\ \A k \in Keys : \/ Tip(old.history)[k] = Tip(upstream)[k]
                         \/ \E i \in 1..(n - 1) : Tip(old.history)[k] = h[i].tree[k]
    BY <1>1 DEF ReplaysSoFar
<1>5. /\ n \in Nat /\ n - 1 \in Nat /\ 1..(n - 1) \subseteq 1..n /\ n \in 1..n
      /\ \A i \in 1..n : i = n \/ i \in 1..(n - 1)
    BY DEF Histories
<1>6. Len(upstream) \in Nat /\ Len(upstream) # 0
    BY DEF Histories
<1>7. old.history \in Histories(C, D) /\ Len(old.history) \in Nat
    BY <1>4 DEF Accs, Histories
<1>8. old.history # <<>>
    BY <1>4, <1>6, <1>7 DEF Extends
\* What commit n leaves where it changes nothing was there before.
<1>9. ASSUME NEW k \in Keys, k \notin DOMAIN Patch(h, n), h[n].tree[k] # NoEntry
      PROVE  n - 1 \in 1..(n - 1) /\ h[n - 1].tree[k] = h[n].tree[k]
    <2>1. h[n].tree[k] = TreeAt(h, n - 1)[k]
        BY <1>9, PatchShape
    <2>2. n - 1 # 0
        BY <2>1, <1>9 DEF TreeAt, EmptyTree
    <2> QED BY <2>1, <2>2, <1>5 DEF TreeAt
<1>10. CASE n \in ToReplay(h, upstream)
    <2>1. /\ acc \in Accs(C, D)
          /\ Extends(acc.history, old.history)
          /\ NewBy(acc.history, old.history, device)
          /\ NoEmptyCommit(acc.history)
          /\ acc.ok => /\ old.ok
                       /\ \A k \in DOMAIN Patch(h, n) :
                             Tip(acc.history)[k] = Patch(h, n)[k][2]
          /\ \A k \in Keys : \/ Tip(acc.history)[k] = Tip(old.history)[k]
                             \/ /\ k \in DOMAIN Patch(h, n)
                                /\ Tip(acc.history)[k] = Patch(h, n)[k][2]
        BY <1>3, <1>4, <1>8, <1>10, PatchShape, ReplayStep
    <2>2. acc.history \in Histories(C, D) /\ Len(acc.history) \in Nat
        BY <2>1 DEF Accs, Histories
    <2>3. Extends(acc.history, upstream)
        BY <1>4, <1>6, <1>7, <2>1, <2>2 DEF Extends
    <2>4. NewBy(acc.history, upstream, device)
        <3> SUFFICES ASSUME NEW i \in (Len(upstream) + 1)..Len(acc.history)
                     PROVE  acc.history[i].by = device
            BY DEF NewBy
        <3>1. CASE i <= Len(old.history)
            <4>1. i \in 1..Len(old.history) /\ i \in (Len(upstream) + 1)..Len(old.history)
                BY <3>1, <1>6, <1>7, <2>2
            <4> QED BY <4>1, <1>4, <2>1 DEF NewBy, Extends
        <3>2. CASE ~ (i <= Len(old.history))
            <4>1. i \in (Len(old.history) + 1)..Len(acc.history)
                BY <3>2, <1>6, <1>7, <2>2
            <4> QED BY <4>1, <2>1 DEF NewBy
        <3> QED BY <3>1, <3>2
    <2>5. ASSUME acc.ok, NEW k \in Keys, NEW i \in 1..n, h[i].tree[k] # NoEntry
          PROVE  <<k, h[i].tree[k]>> \in Introduced(acc.history)
        <3>1. Introduced(old.history) \subseteq Introduced(acc.history)
            BY <1>7, <2>1, <2>2, IntroducedGrows
        <3>2. CASE i \in 1..(n - 1)
            BY <3>1, <3>2, <2>5, <2>1, <1>4
        <3>3. CASE i = n /\ k \notin DOMAIN Patch(h, n)
            <4>1. n - 1 \in 1..(n - 1) /\ h[n - 1].tree[k] = h[n].tree[k]
                BY <3>3, <2>5, <1>9
            <4> QED BY <4>1, <3>1, <3>3, <2>5, <2>1, <1>4
        <3>4. CASE i = n /\ k \in DOMAIN Patch(h, n)
            <4>1. Tip(acc.history)[k] = h[n].tree[k]
                BY <3>4, <2>5, <2>1, PatchShape
            <4> QED BY <4>1, <3>4, <2>5, <2>2, TipIsIntroduced
        <3> QED BY <3>2, <3>3, <3>4, <1>5
    <2>6. \A k \in Keys : \/ Tip(acc.history)[k] = Tip(upstream)[k]
                          \/ \E i \in 1..n : Tip(acc.history)[k] = h[i].tree[k]
        <3> TAKE k \in Keys
        <3>1. CASE Tip(acc.history)[k] = Tip(old.history)[k]
            BY <3>1, <1>4, <1>5
        <3>2. CASE k \in DOMAIN Patch(h, n) /\ Tip(acc.history)[k] = Patch(h, n)[k][2]
            <4>1. Tip(acc.history)[k] = h[n].tree[k]
                BY <3>2, PatchShape
            <4> QED BY <4>1, <1>5
        <3> QED BY <3>1, <3>2, <2>1
    <2> QED BY <2>1, <2>3, <2>4, <2>5, <2>6, <1>2 DEF ReplaysSoFar
<1>11. CASE n \notin ToReplay(h, upstream)
    <2>1. acc = old
        BY <1>3, <1>11
    <2>2. ASSUME acc.ok, NEW k \in Keys, NEW i \in 1..n, h[i].tree[k] # NoEntry
          PROVE  <<k, h[i].tree[k]>> \in Introduced(acc.history)
        <3>1. CASE i \in 1..(n - 1)
            BY <3>1, <2>2, <2>1, <1>4
        <3>2. CASE i = n /\ k \notin DOMAIN Patch(h, n)
            <4>1. n - 1 \in 1..(n - 1) /\ h[n - 1].tree[k] = h[n].tree[k]
                BY <3>2, <2>2, <1>9
            <4> QED BY <4>1, <3>2, <2>2, <2>1, <1>4
        <3>3. CASE i = n /\ k \in DOMAIN Patch(h, n)
            <4>1. PICK j \in 1..Len(upstream) : upstream[j].tree[k] = h[n].tree[k]
                BY <3>3, <1>11, SkippedIsThere
            <4>2. <<k, h[n].tree[k]>> \in Introduced(upstream)
                BY <4>1, <3>3, <2>2, IsIntroduced
            <4>3. Introduced(upstream) \subseteq Introduced(old.history)
                BY <1>4, <1>7, IntroducedGrows
            <4> QED BY <4>2, <4>3, <3>3, <2>1
        <3> QED BY <3>1, <3>2, <3>3, <1>5
    <2>3. \A k \in Keys : \/ Tip(acc.history)[k] = Tip(upstream)[k]
                          \/ \E i \in 1..n : Tip(acc.history)[k] = h[i].tree[k]
        BY <2>1, <1>4, <1>5
    <2> QED BY <2>1, <2>2, <2>3, <1>2, <1>4 DEF ReplaysSoFar
<1> QED BY <1>10, <1>11

\* `git rebase`, whatever the two histories: the result is h itself, when it
\* already continues upstream, or upstream continued by commits of the device.
\* Without a conflict everything that h introduced is in it.
LEMMA RebaseResult ==
    ASSUME NEW C, NoEntry \in C, NEW D, NEW device \in D, NEW h \in Histories(C, D),
           NEW upstream \in Histories(C, D), NoEmptyCommit(h), NoEmptyCommit(upstream)
    PROVE  LET r == Rebase(h, upstream, device) IN
           /\ r \in Accs(C, D)
           /\ NoEmptyCommit(r.history)
           /\ Extends(r.history, upstream)
           /\ r.history = h \/ NewBy(r.history, upstream, device)
           /\ r.ok => Introduced(h) \subseteq Introduced(r.history)
           /\ \A k \in Keys : \/ Tip(r.history)[k] \in {NoEntry, Tip(upstream)[k]}
                              \/ <<k, Tip(r.history)[k]>> \in Introduced(h)
<1>1. PICK r : r = Rebase(h, upstream, device)
    OBVIOUS
<1>2. CASE IsPrefix(upstream, h)
    <2>1. r = [ok |-> TRUE, history |-> h]
        BY <1>1, <1>2 DEF Rebase
    <2>2. r \in Accs(C, D) /\ r.history = h
        BY <2>1 DEF Accs
    <2>3. Extends(h, upstream)
        BY <1>2, PrefixIsExtended DEF Histories
    <2>4. \A k \in Keys : Tip(h)[k] = NoEntry \/ <<k, Tip(h)[k]>> \in Introduced(h)
        BY TipIsIntroduced
    <2> QED BY <1>1, <2>2, <2>3, <2>4
<1>3. CASE ~ IsPrefix(upstream, h)
    <2>1. r = Replays(h, upstream, device)[Len(h)]
        BY <1>1, <1>3 DEF Rebase
    <2>2. upstream # <<>>
        BY <1>3, EmptySeq, PrefixIsExtended DEF Histories, Extends
    <2> DEFINE Fine == {n \in Nat : n <= Len(h) => ReplaysSoFar(h, upstream, device, C, D, n)}
    <2>3. 0 \in Fine
        BY ReplaysStart
    <2>4. ASSUME NEW n \in Nat, n \in Fine PROVE n + 1 \in Fine
        <3> SUFFICES ASSUME n + 1 <= Len(h)
                     PROVE  ReplaysSoFar(h, upstream, device, C, D, n + 1)
            OBVIOUS
        <3>1. n + 1 \in 1..Len(h) /\ (n + 1) - 1 = n /\ n <= Len(h)
            BY DEF Histories
        <3>2. ReplaysSoFar(h, upstream, device, C, D, n)
            BY <2>4, <3>1
        <3> QED BY <2>2, <3>1, <3>2, ReplaysNext
    <2>5. Nat \subseteq Fine
        <3> HIDE DEF Fine
        <3> QED BY <2>3, <2>4, SetInduction
    <2>6. Len(h) \in Nat /\ DOMAIN h = 1..Len(h)
        BY DEF Histories
    <2>7. ReplaysSoFar(h, upstream, device, C, D, Len(h))
        BY <2>5, <2>6
    <2>8. /\ r \in Accs(C, D)
          /\ Extends(r.history, upstream)
          /\ NewBy(r.history, upstream, device)
          /\ NoEmptyCommit(r.history)
          /\ r.ok => \A k \in Keys : \A i \in 1..Len(h) :
                h[i].tree[k] # NoEntry => <<k, h[i].tree[k]>> \in Introduced(r.history)
          /\ \A k \in Keys : \/ Tip(r.history)[k] = Tip(upstream)[k]
                             \/ \E i \in 1..Len(h) : Tip(r.history)[k] = h[i].tree[k]
        BY <2>1, <2>7 DEF ReplaysSoFar
    <2>9. ASSUME r.ok, NEW x \in Introduced(h) PROVE x \in Introduced(r.history)
        <3>1. PICK k \in Keys : \E c : x = <<k, c>>
            BY IntroducedPairs
        <3>2. PICK c : x = <<k, c>>
            BY <3>1
        <3>3. PICK i \in 1..Len(h) : c # NoEntry /\ h[i].tree[k] = c
            BY <3>2, IsIntroduced
        <3> QED BY <3>2, <3>3, <2>8, <2>9
    <2>10. ASSUME NEW k \in Keys
           PROVE  \/ Tip(r.history)[k] \in {NoEntry, Tip(upstream)[k]}
                  \/ <<k, Tip(r.history)[k]>> \in Introduced(h)
        BY <2>8, IsIntroduced
    <2> QED BY <1>1, <2>8, <2>9, <2>10
<1> QED BY <1>2, <1>3
-----------------------------------------------------------------------------
\* An entry that no commit of peer outside local touched shows a content that
\* local had: going back from peer's tip, it stays the same until a commit that
\* the two share.
LEMMA UntouchedIsShared ==
    ASSUME NEW C, NoEntry \in C, NEW D, NEW local \in Histories(C, D),
           NEW peer \in Histories(C, D), NEW k \in Keys, Tip(peer)[k] # NoEntry,
           \A i \in NotIn(peer, local) : k \notin DOMAIN Patch(peer, i)
    PROVE  <<k, Tip(peer)[k]>> \in Introduced(local)
<1> DEFINE c == Tip(peer)[k]
           Back(m) == TreeAt(peer, Len(peer) - m)[k] = c
           Traced == {m \in Nat : m <= Len(peer) =>
                         Back(m) \/ <<k, c>> \in Introduced(local)}
<1>1. Len(peer) \in Nat /\ DOMAIN peer = 1..Len(peer)
    BY DEF Histories
<1>2. 0 \in Traced
    BY <1>1 DEF Tip
<1>3. ASSUME NEW m \in Nat, m \in Traced PROVE m + 1 \in Traced
    <2> SUFFICES ASSUME m + 1 <= Len(peer), <<k, c>> \notin Introduced(local)
                 PROVE  Back(m + 1)
        OBVIOUS
    <2>1. PICK i : i = Len(peer) - m
        OBVIOUS
    <2>2. i \in 1..Len(peer) /\ i # 0 /\ i - 1 = Len(peer) - (m + 1)
        <3>1. PICK n \in Nat : n = Len(peer)
            BY <1>1
        <3>2. m + 1 <= n /\ i = n - m
            BY <2>1, <3>1
        <3>3. i \in 1..n /\ i # 0 /\ i - 1 = n - (m + 1)
            BY <3>2
        <3> QED BY <3>1, <3>3
    <2>3. TreeAt(peer, i)[k] = c
        BY <1>1, <1>3, <2>1
    <2>4. peer[i].tree[k] = c
        BY <2>2, <2>3 DEF TreeAt
    <2>5. CASE i \in NotIn(peer, local)
        <3>1. k \notin DOMAIN Patch(peer, i)
            BY <2>5
        <3>2. peer[i].tree[k] = TreeAt(peer, i - 1)[k]
            BY <3>1, <2>2, PatchShape
        <3> QED BY <3>2, <2>2, <2>4
    <2>6. CASE i \notin NotIn(peer, local)
        <3>1. i <= Len(local) /\ \A j \in 1..i : local[j] = peer[j]
            BY <2>2, <2>6, SharedCommit DEF Histories
        <3>2. i \in 1..Len(local) /\ i \in 1..i
            BY <2>2, <3>1, <1>1 DEF Histories
        <3>3. local[i].tree[k] = c
            BY <2>4, <3>1, <3>2
        <3>4. <<k, c>> \in Introduced(local)
            BY <3>2, <3>3, IsIntroduced
        <3> QED BY <3>4
    <2> QED BY <2>5, <2>6
<1>4. Nat \subseteq Traced
    <2> HIDE DEF Traced
    <2> QED BY <1>2, <1>3, SetInduction
<1>5. Back(Len(peer)) \/ <<k, c>> \in Introduced(local)
    BY <1>1, <1>4
<1>6. TreeAt(peer, 0)[k] = NoEntry
    BY DEF TreeAt, EmptyTree
<1> QED BY <1>1, <1>5, <1>6
=============================================================================
