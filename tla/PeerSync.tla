----------------------------- MODULE PeerSync -----------------------------
(***************************************************************************)
(* Peer-to-peer exchange of histories between the devices of one user      *)
(* (sync/syncing.rs), together with the commands that edit the store on    *)
(* each device meanwhile (Store::insert, Store::remove, Git2Vcs::commit).  *)
(*                                                                         *)
(* One sync of device d with peer p is the code's sync_with_peer: it reads *)
(* the local head, awaits the peer's answer, and then ingests, audits and  *)
(* reconciles against the head it read before the await.  The peer answers *)
(* with its own head (serve); peer_head_seen is always None, so every      *)
(* answer carries the whole history.  A command that edits the store runs  *)
(* in another process: it writes the entry, stages it, and commits, and    *)
(* nothing keeps a sync out from between these steps.                      *)
(***************************************************************************)
EXTENDS GitHistory, FiniteSets

CONSTANTS
    Devices,     \* the paired devices
    Rank,        \* Rank[d]: position of d's peer id in lexical order
    Paired,      \* the pairs <<d, p>> such that d has p in its peers file
    Seeded,      \* devices whose store starts as a clone; the others have `git init` only
    Quoted,      \* the Keys whose names git prints in quotes (core.quotePath)
    Kinds,       \* which edits happen: a subset of {"insert", "remove", "plain"}
    Editing,     \* how edits meet syncs: "stepwise" as the code does it, "atomic" with
                 \* each edit in one step, "between" also with no sync going on locally
    MaxEdits,    \* bound on the edits of all devices together
    MaxFaults,   \* bound on failed exchanges
    MaxLen       \* bound: a device whose history is longer starts no sync

ASSUME PeerSyncAssumption ==
    /\ Rank \in [Devices -> Nat]
    /\ \A d, e \in Devices : Rank[d] = Rank[e] => d = e
    /\ Paired \subseteq Devices \X Devices
    /\ Seeded \subseteq Devices
    /\ Quoted \subseteq Keys
    /\ Kinds \subseteq {"insert", "remove", "plain"}
    /\ Editing \in {"stepwise", "atomic", "between"}
    /\ MaxEdits \in Nat /\ MaxFaults \in Nat /\ MaxLen \in Nat

VARIABLES
    head,    \* head[d]: history d's HEAD points to
    index,   \* index[d]: d's git index
    work,    \* work[d]: entries in d's worktree
    cmd,     \* cmd[d]: the editing command running on d
    sess,    \* sess[d][p]: d's sync with p
    edits,   \* history: the edits made so far, in order
    acked,   \* history: edits whose command has returned success
    faults

vars == <<head, index, work, cmd, sess, edits, acked, faults>>

Idle == [pc |-> "idle"]
EditIds == 1..Len(edits)
Plain(c) == c # NoEntry /\ edits[c].kind = "plain"

\* Every device of a user starts from a clone of the first one's store, or
\* from an empty repository that adopts a peer's history.
First == CHOOSE d \in Seeded : TRUE
Root == <<[tree |-> EmptyTree, by |-> First]>>

Init ==
    /\ head = [d \in Devices |-> IF d \in Seeded THEN Root ELSE <<>>]
    /\ index = [d \in Devices |-> EmptyTree]
    /\ work = [d \in Devices |-> EmptyTree]
    /\ cmd = [d \in Devices |-> Idle]
    /\ sess = [d \in Devices |-> [p \in Devices |-> Idle]]
    /\ edits = <<>>
    /\ acked = {}
    /\ faults = 0

-----------------------------------------------------------------------------
(* Editing commands *)

\* An edit on d, knowing the contents the entry had in d's history so far.
EditRecord(d, kind, k) ==
    [dev |-> d, kind |-> kind, key |-> k,
     seen |-> {x[2] : x \in {y \in Introduced(head[d]) : y[1] = k}}]

Content(kind, n) == IF kind = "remove" THEN NoEntry ELSE n

\* An unborn store has no .gpg-id, so resolve_recipients refuses an insert;
\* Store::remove refuses an entry that is not there.
CanEdit(d, kind, k) ==
    /\ cmd[d] = Idle
    /\ Len(edits) < MaxEdits
    /\ kind \in Kinds
    /\ head[d] # <<>>
    /\ kind = "remove" => work[d][k] # NoEntry
    /\ Editing = "between" => \A p \in Devices : sess[d][p] = Idle

\* storage.write / storage.remove of Store::insert and Store::remove.
WriteEntry(d, kind, k) ==
    LET n == Len(edits) + 1 IN
    /\ Editing = "stepwise"
    /\ kind # "plain"
    /\ CanEdit(d, kind, k)
    /\ edits' = Append(edits, EditRecord(d, kind, k))
    /\ work' = [work EXCEPT ![d][k] = Content(kind, n)]
    /\ cmd' = [cmd EXCEPT ![d] = [pc |-> "written", key |-> k, edit |-> n]]
    /\ UNCHANGED <<head, index, sess, acked, faults>>

\* Git2Vcs::commit, first half: add_path (or remove_path when the file is
\* gone), write_tree, index.write.
StageEntry(d) ==
    /\ cmd[d].pc = "written"
    /\ index' = [index EXCEPT ![d][cmd[d].key] = work[d][cmd[d].key]]
    /\ cmd' = [cmd EXCEPT ![d] =
                  [pc |-> "staged", edit |-> cmd[d].edit, tree |-> index'[d]]]
    /\ UNCHANGED <<head, work, sess, edits, acked, faults>>

\* Faulty variant: the test for an empty commit is missing.
CommittedAlways(d, tree) == Append(head[d], [tree |-> tree, by |-> d])

\* Commit `tree` on top of the head found now, unless it changes nothing.
Committed(d, tree) ==
    IF tree = Tip(head[d]) THEN head[d] ELSE Append(head[d], [tree |-> tree, by |-> d])

\* Git2Vcs::commit, second half: read HEAD, skip an empty commit, commit the
\* tree written before on that parent.  Either way the command reports success.
CommitEntry(d) ==
    /\ cmd[d].pc = "staged"
    /\ head' = [head EXCEPT ![d] = Committed(d, cmd[d].tree)]
    /\ acked' = acked \cup {cmd[d].edit}
    /\ cmd' = [cmd EXCEPT ![d] = Idle]
    /\ UNCHANGED <<index, work, sess, edits, faults>>

\* A whole edit in one step: a command no sync interferes with, or the user's
\* own `git commit` of an unencrypted file.
EditAtOnce(d, kind, k) ==
    LET n == Len(edits) + 1 IN
    /\ Editing = "stepwise" => kind = "plain"
    /\ CanEdit(d, kind, k)
    /\ edits' = Append(edits, EditRecord(d, kind, k))
    /\ work' = [work EXCEPT ![d][k] = Content(kind, n)]
    /\ index' = [index EXCEPT ![d][k] = Content(kind, n)]
    /\ head' = [head EXCEPT ![d] = Committed(d, index'[d])]
    /\ acked' = acked \cup {n}
    /\ UNCHANGED <<cmd, sess, faults>>

-----------------------------------------------------------------------------
(* What a sync does to the local repository *)

\* `git reset --hard target`: tracked files follow the target, an untracked
\* file survives unless the target has one of that name.
ResetHard(d, target) ==
    /\ head' = [head EXCEPT ![d] = target]
    /\ index' = [index EXCEPT ![d] = Tip(target)]
    /\ work' = [work EXCEPT ![d] = [k \in Keys |->
                    IF Tip(target)[k] = NoEntry /\ index[d][k] = NoEntry
                    THEN work[d][k] ELSE Tip(target)[k]]]

\* git refuses to rebase over uncommitted changes, and to check out a commit
\* over an untracked file it contains.
CleanFor(d, result) ==
    /\ index[d] = Tip(head[d])
    /\ \A k \in Keys : IF index[d][k] # NoEntry
                       THEN work[d][k] = index[d][k]
                       ELSE work[d][k] # NoEntry =>
                              \A i \in NotIn(result, head[d]) : result[i].tree[k] = NoEntry

\* rebase_onto: `git rebase peer_head`, aborted when it fails.
RebaseOnto(d, upstream) ==
    \E r \in {Rebase(head[d], upstream, d)} :
        IF r.ok /\ CleanFor(d, r.history)
        THEN ResetHard(d, r.history)
        ELSE UNCHANGED <<head, index, work>>

\* Faulty variant: only what the newest commit touched is audited.
AuditNewest(local, peer) ==
    {k \in UNION {DOMAIN Patch(peer, i) : i \in NotIn(peer, local) \cap {Len(peer)}} \ Quoted :
        Plain(Tip(peer)[k])}

\* git log --name-only: the entries touched by the commits of peer not in local.
Touched(local, peer) == UNION {DOMAIN Patch(peer, i) : i \in NotIn(peer, local)}

\* audit_incoming: what was touched, read from the peer's tip.  `git show` knows
\* no path of a quoted name, and such a file counts as deleted.
AuditIncoming(local, peer) == {k \in Touched(local, peer) \ Quoted : Plain(Tip(peer)[k])}

\* Faulty variant: the arguments of graph_descendant_of are swapped.
ReconcileSwapped(d, p, local, peer) ==
    CASE local = <<>>                -> ResetHard(d, peer)
      [] local = peer                -> UNCHANGED <<head, index, work>>
      [] IsStrictPrefix(peer, local) -> ResetHard(d, peer)
      [] OTHER -> UNCHANGED <<head, index, work>>

\* Faulty variant: neither side of a divergence rebases.
ReconcileNeither(d, p, local, peer) ==
    IF local = <<>> \/ IsStrictPrefix(local, peer) THEN ResetHard(d, peer)
    ELSE UNCHANGED <<head, index, work>>

\* reconcile, with the local head read before the exchange.
Reconcile(d, p, local, peer) ==
    CASE local = <<>>                -> ResetHard(d, peer)
      [] local = peer                -> UNCHANGED <<head, index, work>>
      [] IsStrictPrefix(local, peer) -> ResetHard(d, peer)
      [] IsStrictPrefix(peer, local) -> UNCHANGED <<head, index, work>>
      [] OTHER -> IF Rank[d] < Rank[p]
                  THEN RebaseOnto(d, peer)
                  ELSE UNCHANGED <<head, index, work>>

-----------------------------------------------------------------------------
(* Syncs *)

\* sync_with_peer up to the await: read HEAD, send WantPackFrom.
StartSync(d, p) ==
    /\ <<d, p>> \in Paired
    /\ Len(head[d]) <= MaxLen
    /\ sess[d][p] = Idle
    /\ sess' = [sess EXCEPT ![d][p] = [pc |-> "asked", local |-> head[d]]]
    /\ UNCHANGED <<head, index, work, cmd, edits, acked, faults>>

\* serve on p: answer with p's head, and a pack of all of its history.
Serve(p, d) ==
    /\ sess[d][p].pc = "asked"
    /\ sess' = [sess EXCEPT ![d][p] =
                   [pc |-> "answered", local |-> @.local, peer |-> head[p]]]
    /\ UNCHANGED <<head, index, work, cmd, edits, acked, faults>>

\* The exchange fails: unreachable, refused, rate-limited, pack over the cap.
SyncFails(d, p) ==
    /\ sess[d][p].pc \in {"asked", "answered"}
    /\ faults < MaxFaults
    /\ faults' = faults + 1
    /\ sess' = [sess EXCEPT ![d][p] = Idle]
    /\ UNCHANGED <<head, index, work, cmd, edits, acked>>

\* sync_with_peer after the await: nothing to do for an unborn peer, refuse a
\* history whose audit finds a leak, reconcile otherwise.
FinishSync(d, p) ==
    LET s == sess[d][p] IN
    /\ s.pc = "answered"
    /\ sess' = [sess EXCEPT ![d][p] = Idle]
    /\ IF s.peer = <<>> \/ AuditIncoming(s.local, s.peer) # {}
       THEN UNCHANGED <<head, index, work>>
       ELSE Reconcile(d, p, s.local, s.peer)
    /\ UNCHANGED <<cmd, edits, acked, faults>>

Next ==
    \E d \in Devices :
        \/ \E k \in Keys, kind \in Kinds : WriteEntry(d, kind, k) \/ EditAtOnce(d, kind, k)
        \/ StageEntry(d)
        \/ CommitEntry(d)
        \/ \E p \in Devices :
              StartSync(d, p) \/ Serve(p, d) \/ SyncFails(d, p) \/ FinishSync(d, p)

Spec == Init /\ [][Next]_vars

\* A command that started runs to its end, and the devices keep syncing with
\* each other: their daemons stay up and keep being triggered.
Fairness ==
    \A d \in Devices :
        /\ WF_vars(StageEntry(d)) /\ WF_vars(CommitEntry(d))
        /\ \A p \in Devices : <<d, p>> \in Paired =>
              /\ WF_vars(StartSync(d, p))
              /\ WF_vars(Serve(p, d))
              /\ WF_vars(FinishSync(d, p))

FairSpec == Spec /\ Fairness

-----------------------------------------------------------------------------
Trees == [Keys -> 0..MaxEdits]
IsHistory(h) == \A i \in DOMAIN h : h[i] \in [tree : Trees, by : Devices]

\* Shapes, and that no history ever holds an empty commit: the guards of
\* Git2Vcs::commit and of git rebase keep commits and changes one to one.
TypeOK ==
    /\ \A d \in Devices :
        /\ IsHistory(head[d])
        /\ \A i \in 2..Len(head[d]) : head[d][i].tree # head[d][i - 1].tree
        /\ index[d] \in Trees /\ work[d] \in Trees
        /\ cmd[d].pc \in {"idle", "written", "staged"}
        /\ \A p \in Devices : sess[d][p].pc \in {"idle", "asked", "answered"}
    /\ acked \subseteq EditIds
    /\ faults \in 0..MaxFaults

Finishes(d, p) == sess[d][p].pc = "answered" /\ sess'[d][p] = Idle

\* A sync whose view of the local head is out of date when it reconciles.
StaleFinish(d) == \E p \in Devices : Finishes(d, p) /\ sess[d][p].local # head[d]

\* reconcile never throws work away: whatever fast-forward, rebase, patch-id
\* skipping or the merge driver do, every content that was ever committed on
\* the device stays in its history - provided nothing was committed between
\* head_sha and the end of the sync.
ReconcileKeepsEdits ==
    [][\A d \in Devices :
          StaleFinish(d) \/ Introduced(head[d]) \subseteq Introduced(head'[d])]_vars

\* The audit of what arrives (audit_incoming) reads the paths at the peer's tip
\* only, and still no single sync makes an unencrypted file an entry of the
\* device's head that was not in the device's own history before: not by a
\* fast-forward, a rebase, or a reconciliation against a head read too early.
\* That holds of names git prints as they are; with \A k \in Keys and a name
\* in Quoted it is false, since audit_incoming skips the file.
SyncBringsNoPlaintext ==
    [][\A d, p \in Devices, k \in Keys \ Quoted :
          LET c == Tip(head'[d])[k] IN
          Finishes(d, p) /\ Plain(c) =>
              <<k, c>> \in Introduced(head[d]) \cup Introduced(sess[d][p].local)]_vars

\* ADR-0011, "every incoming pack's tree is audited before acceptance": an
\* unencrypted file committed on one device is never an entry of another
\* device's head.  Over a chain of syncs it is: a rebase replays commits whose
\* contents no audit read.
NoForeignPlaintext ==
    \A d \in Devices, k \in Keys :
        LET c == Tip(head[d])[k] IN Plain(c) => edits[c].dev = d

\* The local git log keeps what was there (ADR-0011): the ciphertext of an
\* insert that returned success is in the history of the device it ran on.
AckedInsertInHistory ==
    \A n \in acked :
        edits[n].kind = "insert" =>
            <<edits[n].key, n>> \in Introduced(head[edits[n].dev])

\* An edit made with knowledge of an older one is never undone by it: if a
\* head contains both, the entry does not show the older content.
SupersededStaysSuperseded ==
    \A d \in Devices : \A x \in Introduced(head[d]) :
        Tip(head[d])[x[1]] \notin edits[x[2]].seen

\* Something that keeps a rebase from ever succeeding: a tree with uncommitted
\* changes, an unencrypted file, or an entry removed on one side and edited on
\* the other (git calls no merge driver for those).
Blocked ==
    \/ \E d \in Devices : ~CleanFor(d, head[d])
    \/ \E d \in Devices, k \in Keys : Plain(Tip(head[d])[k])
    \/ \E d, p \in Devices :
          Rank[d] < Rank[p] /\ head[p] # <<>> /\ ~Rebase(head[d], head[p], d).ok

\* The tie-breaker works: once edits stop, devices that keep syncing end up
\* with one and the same history, unless a conflict git cannot resolve blocks.
Convergence == <>[](Blocked \/ \A d, p \in Devices : head[d] = head[p])
=============================================================================
