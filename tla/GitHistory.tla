---------------------------- MODULE GitHistory ----------------------------
(***************************************************************************)
(* Linear git histories of a password store, and what the git commands     *)
(* that bypass runs do to them.                                            *)
(*                                                                         *)
(* A history is a sequence of commits, root first, and a commit is the     *)
(* snapshot of the entries it leaves plus the device that wrote it.  A     *)
(* commit id is a hash of the commit and all its ancestors, so an id is    *)
(* modelled by the history that ends with the commit: two heads are equal  *)
(* exactly when their histories are, and ancestry is the prefix order.     *)
(* The empty history is an unborn branch.                                  *)
(*                                                                         *)
(* The content of an entry is the number of the edit that wrote it (every  *)
(* encryption yields a fresh ciphertext); NoEntry is an absent file.       *)
(***************************************************************************)
EXTENDS Naturals, Sequences, SequencesExt

CONSTANT Keys      \* the entries of the store

NoEntry == 0

EmptyTree == [k \in Keys |-> NoEntry]

TreeAt(h, i) == IF i = 0 THEN EmptyTree ELSE h[i].tree

Tip(h) == TreeAt(h, Len(h))

\* What commit i changed, with the contents before and after: git's patch-id
\* of a binary change is a hash of the two blob ids.
Patch(h, i) ==
    [k \in {x \in Keys : TreeAt(h, i)[x] # TreeAt(h, i - 1)[x]} |->
        <<TreeAt(h, i - 1)[k], TreeAt(h, i)[k]>>]

\* The commits of h that are not in g: `git log g..h`.
NotIn(h, g) == {i \in DOMAIN h : ~IsPrefix(SubSeq(h, 1, i), g)}

\* Every content the history h ever gave to an entry.
Introduced(h) ==
    {<<k, h[i].tree[k]>> : k \in Keys, i \in DOMAIN h} \ (Keys \X {NoEntry})

-----------------------------------------------------------------------------
(***************************************************************************)
(* merge_driver.rs, take_theirs: when both sides changed an entry, git     *)
(* hands the driver the replayed commit's version as %B ("theirs") and the *)
(* tree built so far as %A ("ours"); the driver copies %B over %A.         *)
(***************************************************************************)
TakeTheirs(ours, theirs) == theirs

\* Three-way merge of one entry while replaying a change pre -> post onto cur.
\* git calls the driver only when both sides have the file.
Merges(cur, pre, post) == cur \in {pre, post} \/ (cur # NoEntry /\ post # NoEntry)

Merged(cur, pre, post) == IF cur \in {pre, post} THEN post ELSE TakeTheirs(cur, post)

Replay(acc, patch, device) ==
    LET cur == Tip(acc.history)
        new == [k \in Keys |-> IF k \in DOMAIN patch
                               THEN Merged(cur[k], patch[k][1], patch[k][2])
                               ELSE cur[k]]
    IN  IF ~acc.ok \/ \E k \in DOMAIN patch : ~Merges(cur[k], patch[k][1], patch[k][2])
        THEN [acc EXCEPT !.ok = FALSE]
        ELSE IF new = cur       \* became empty: dropped
             THEN acc
             ELSE [acc EXCEPT !.history = Append(@, [tree |-> new, by |-> device])]

(***************************************************************************)
(* `git rebase upstream` on branch h: commits whose patch is already       *)
(* upstream are skipped, the others are replayed in order by `device`;     *)
(* after[n] is what the first n commits of h give.  ok = FALSE is a        *)
(* conflict nobody resolves; the caller aborts the rebase.                 *)
(***************************************************************************)
ToReplay(h, upstream) ==
    LET skip == {Patch(upstream, i) : i \in NotIn(upstream, h)}
    IN  {i \in NotIn(h, upstream) : Patch(h, i) \notin skip}

Replays(h, upstream, device) ==
    LET after[n \in 0..Len(h)] ==
            IF n = 0 THEN [ok |-> TRUE, history |-> upstream]
            ELSE IF n \in ToReplay(h, upstream)
            THEN Replay(after[n - 1], Patch(h, n), device)
            ELSE after[n - 1]
    IN  after

Rebase(h, upstream, device) ==
    IF IsPrefix(upstream, h)
    THEN [ok |-> TRUE, history |-> h]      \* already up to date
    ELSE Replays(h, upstream, device)[Len(h)]
=============================================================================
