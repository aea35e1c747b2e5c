--------------------------- MODULE PeerSyncProofs ---------------------------
(***************************************************************************)
(* Proofs about the peer-to-peer exchange of histories, for any devices,   *)
(* pairs, entries, kinds of edits, ways of interleaving and bounds.        *)
(*                                                                         *)
(* The inductive invariant says what the program can hold in its hands:    *)
(* every history, also the ones a sync under way read earlier, is made of  *)
(* typed commits none of which is empty.  What a sync does to a head then  *)
(* follows from the lemmas on rebases in GitHistoryProofs.                 *)
(***************************************************************************)
EXTENDS PeerSync, GitHistoryProofs

Pasts == {h \in Histories(0..MaxEdits, Devices) : NoEmptyCommit(h)}

EditRecords == [dev : Devices, kind : {"insert", "remove", "plain"}, key : Keys,
                seen : SUBSET (0..MaxEdits)]

Commands(n) == {Idle} \cup [pc : {"written"}, key : Keys, edit : 1..n]
                 \cup [pc : {"staged"}, edit : 1..n, tree : Trees]

Sessions == {Idle} \cup [pc : {"asked"}, local : Pasts]
              \cup [pc : {"answered"}, local : Pasts, peer : Pasts]

IInv ==
    /\ head \in [Devices -> Pasts]
    /\ index \in [Devices -> Trees] /\ work \in [Devices -> Trees]
    /\ edits \in Seq(EditRecords) /\ Len(edits) <= MaxEdits
    /\ cmd \in [Devices -> Commands(Len(edits))]
    /\ sess \in [Devices -> [Devices -> Sessions]]
    /\ acked \subseteq EditIds
    /\ faults \in 0..MaxFaults

-----------------------------------------------------------------------------
LEMMA NoEntryIsContent == NoEntry \in 0..MaxEdits
BY PeerSyncAssumption DEF NoEntry

LEMMA TipIsTree == ASSUME NEW h \in Pasts PROVE Tip(h) \in Trees
BY TipType, NoEntryIsContent DEF Pasts, Trees

\* The local head after a commit (Git2Vcs::commit).
LEMMA CommittedIsPast ==
    ASSUME NEW d \in Devices, NEW tree \in Trees, head[d] \in Pasts
    PROVE  Committed(d, tree) \in Pasts /\ Extends(Committed(d, tree), head[d])
<1>1. /\ head[d] \in Histories(0..MaxEdits, Devices) /\ NoEmptyCommit(head[d])
      /\ Extends(head[d], head[d])
    BY DEF Pasts, Histories, Extends
<1>2. CASE tree = Tip(head[d])
    BY <1>1, <1>2 DEF Committed
<1>3. CASE tree # Tip(head[d])
    <2>1. PICK c : c = [tree |-> tree, by |-> d]
        OBVIOUS
    <2>2. c \in CommitShapes(0..MaxEdits, Devices) /\ c.tree = tree
        BY <2>1 DEF Trees, CommitShapes
    <2>3. /\ Append(head[d], c) \in Histories(0..MaxEdits, Devices)
          /\ Extends(Append(head[d], c), head[d]) /\ NoEmptyCommit(Append(head[d], c))
        BY <1>1, <1>3, <2>2, NoEntryIsContent, AppendCommit
    <2>4. Committed(d, tree) = Append(head[d], c)
        BY <1>3, <2>1 DEF Committed
    <2> QED BY <2>3, <2>4 DEF Pasts
<1> QED BY <1>2, <1>3

\* What an edit keeps in mind of the entry's earlier contents.
LEMMA EditRecordShape ==
    ASSUME IInv, NEW d \in Devices, NEW kind \in Kinds, NEW k \in Keys
    PROVE  EditRecord(d, kind, k) \in EditRecords
<1>1. head[d] \in Histories(0..MaxEdits, Devices)
    BY DEF IInv, Pasts
<1> DEFINE about == {y \in Introduced(head[d]) : y[1] = k}
<1>2. ASSUME NEW y \in about PROVE y[2] \in 0..MaxEdits
    <2>1. PICK x \in Keys : \E c : y = <<x, c>>
        BY IntroducedPairs
    <2>2. PICK c : y = <<x, c>>
        BY <2>1
    <2>3. PICK i \in 1..Len(head[d]) : head[d][i].tree[x] = c
        BY <1>1, <2>2, IsIntroduced
    <2>4. head[d][i] \in CommitShapes(0..MaxEdits, Devices)
        BY <1>1, <2>3 DEF Histories
    <2> QED BY <2>2, <2>3, <2>4 DEF CommitShapes
<1>3. {y[2] : y \in about} \subseteq 0..MaxEdits
    BY <1>2
<1>4. kind \in {"insert", "remove", "plain"}
    BY PeerSyncAssumption
<1> HIDE DEF about
<1> QED BY <1>3, <1>4 DEF EditRecord, EditRecords, about

-----------------------------------------------------------------------------
\* `git reset --hard` to a history (ResetHard).
LEMMA ResetTypes ==
    ASSUME IInv, NEW d \in Devices, NEW target \in Pasts, ResetHard(d, target)
    PROVE  /\ head' = [head EXCEPT ![d] = target] /\ head' \in [Devices -> Pasts]
           /\ index' \in [Devices -> Trees] /\ work' \in [Devices -> Trees]
<1>1. Tip(target) \in Trees
    BY TipIsTree
<1>2. head \in [Devices -> Pasts] /\ index \in [Devices -> Trees]
      /\ work \in [Devices -> Trees]
    BY DEF IInv
<1>3. index' \in [Devices -> Trees]
    BY <1>1, <1>2 DEF ResetHard
<1>4. work' \in [Devices -> Trees]
    <2> DEFINE new == [k \in Keys |-> IF Tip(target)[k] = NoEntry /\ index[d][k] = NoEntry
                                      THEN work[d][k] ELSE Tip(target)[k]]
    <2>1. new \in Trees
        BY <1>1, <1>2 DEF Trees
    <2>2. work' = [work EXCEPT ![d] = new]
        BY DEF ResetHard
    <2> HIDE DEF new
    <2> QED BY <1>2, <2>1, <2>2
<1> QED BY <1>2, <1>3, <1>4 DEF ResetHard

\* The branches of reconcile.
LEMMA ReconcileBranches ==
    ASSUME NEW d, NEW p, NEW local, NEW peer, Reconcile(d, p, local, peer)
    PROVE  \/ (local = <<>> \/ IsStrictPrefix(local, peer)) /\ ResetHard(d, peer)
           \/ UNCHANGED <<head, index, work>>
           \/ RebaseOnto(d, peer)
BY DEF Reconcile
\* What one reconciliation does to the local head (syncing.rs, reconcile): it
\* keeps what the head introduced if the head is the one that was compared, and
\* shows nothing but what the peer shows or the head introduced.
LEMMA ReconcileResult ==
    ASSUME IInv, NEW d \in Devices, NEW p \in Devices, NEW local \in Pasts,
           NEW peer \in Pasts, Reconcile(d, p, local, peer)
    PROVE  /\ head' \in [Devices -> Pasts]
           /\ index' \in [Devices -> Trees] /\ work' \in [Devices -> Trees]
           /\ \A e \in Devices : e # d => head'[e] = head[e]
           /\ local = head[d] => Introduced(head[d]) \subseteq Introduced(head'[d])
           /\ \A k \in Keys : \/ Tip(head'[d])[k] \in {NoEntry, Tip(peer)[k]}
                              \/ <<k, Tip(head'[d])[k]>> \in Introduced(head[d])
<1>1. head \in [Devices -> Pasts] /\ index \in [Devices -> Trees] /\ work \in [Devices -> Trees]
    BY DEF IInv
<1>2. head[d] \in Pasts /\ head[d] \in Histories(0..MaxEdits, Devices)
    BY <1>1 DEF Pasts
<1>3. peer \in Histories(0..MaxEdits, Devices) /\ local \in Histories(0..MaxEdits, Devices)
      /\ NoEmptyCommit(peer) /\ NoEmptyCommit(head[d])
    BY <1>1 DEF Pasts
<1>4. CASE (local = <<>> \/ IsStrictPrefix(local, peer)) /\ ResetHard(d, peer)
    <2>1. /\ head' = [head EXCEPT ![d] = peer] /\ head' \in [Devices -> Pasts]
          /\ index' \in [Devices -> Trees] /\ work' \in [Devices -> Trees]
        BY <1>4, ResetTypes
    <2>2. head'[d] = peer /\ \A e \in Devices : e # d => head'[e] = head[e]
        BY <1>1, <2>1
    <2>3. Extends(peer, local)
        <3>1. CASE local = <<>>
            BY <3>1, <1>3 DEF Extends, Histories
        <3>2. CASE IsStrictPrefix(local, peer)
            BY <3>2, <1>3, PrefixIsExtended DEF IsStrictPrefix, Histories
        <3> QED BY <3>1, <3>2, <1>4
    <2>4. Introduced(local) \subseteq Introduced(peer)
        BY <2>3, <1>3, IntroducedGrows
    <2> QED BY <2>1, <2>2, <2>4
<1>5. CASE UNCHANGED <<head, index, work>>
    <2>1. \A k \in Keys : Tip(head[d])[k] = NoEntry \/ <<k, Tip(head[d])[k]>> \in Introduced(head[d])
        BY <1>2, TipIsIntroduced
    <2> QED BY <1>1, <1>5, <2>1
<1>6. CASE RebaseOnto(d, peer)
    <2>1. PICK r : /\ r = Rebase(head[d], peer, d)
                   /\ IF r.ok /\ CleanFor(d, r.history)
                      THEN ResetHard(d, r.history)
                      ELSE UNCHANGED <<head, index, work>>
        BY <1>6 DEF RebaseOnto
    <2>2. /\ r \in Accs(0..MaxEdits, Devices)
          /\ NoEmptyCommit(r.history)
          /\ r.ok => Introduced(head[d]) \subseteq Introduced(r.history)
          /\ \A k \in Keys : \/ Tip(r.history)[k] \in {NoEntry, Tip(peer)[k]}
                             \/ <<k, Tip(r.history)[k]>> \in Introduced(head[d])
        BY <1>2, <1>3, <2>1, NoEntryIsContent, RebaseResult
    <2>3. CASE r.ok /\ ResetHard(d, r.history)
        <3>1. r.history \in Pasts
            BY <2>2 DEF Accs, Pasts
        <3>2. /\ head' = [head EXCEPT ![d] = r.history] /\ head' \in [Devices -> Pasts]
              /\ index' \in [Devices -> Trees] /\ work' \in [Devices -> Trees]
            BY <3>1, <2>3, ResetTypes
        <3>3. head'[d] = r.history /\ \A e \in Devices : e # d => head'[e] = head[e]
            BY <1>1, <3>2
        <3> QED BY <3>2, <3>3, <2>2, <2>3
    <2> QED BY <2>1, <2>3, <1>5
<1> QED BY <1>4, <1>5, <1>6, ReconcileBranches

-----------------------------------------------------------------------------
(* One lemma for each kind of step                                         *)

LEMMA InitIInv == ASSUME Init PROVE IInv
<1>1. <<>> \in Pasts
    BY DEF Pasts, Histories, NoEmptyCommit
<1>2. EmptyTree \in Trees
    BY NoEntryIsContent DEF EmptyTree, Trees
<1>3. ASSUME NEW d \in Devices, d \in Seeded PROVE Root \in Pasts
    <2>1. First \in Devices
        BY <1>3, PeerSyncAssumption DEF First
    <2>2. PICK c : c = [tree |-> EmptyTree, by |-> First]
        OBVIOUS
    <2>3. c \in CommitShapes(0..MaxEdits, Devices)
        BY <1>2, <2>1, <2>2 DEF CommitShapes, Trees
    <2>4. <<c>> \in Histories(0..MaxEdits, Devices) /\ Len(<<c>>) = 1
        BY <2>3 DEF Histories
    <2>5. NoEmptyCommit(<<c>>)
        BY <2>4 DEF NoEmptyCommit
    <2> QED BY <2>2, <2>4, <2>5 DEF Root, Pasts
<1>4. head \in [Devices -> Pasts]
    BY <1>1, <1>3 DEF Init
<1>5. index \in [Devices -> Trees] /\ work \in [Devices -> Trees]
    BY <1>2 DEF Init
<1>6. edits \in Seq(EditRecords) /\ Len(edits) = 0
    BY DEF Init
<1>7. cmd \in [Devices -> Commands(Len(edits))]
    BY DEF Init, Commands
<1>8. sess \in [Devices -> [Devices -> Sessions]]
    BY DEF Init, Sessions
<1> QED BY <1>4, <1>5, <1>6, <1>7, <1>8, PeerSyncAssumption DEF Init, IInv

\* One more edit is known, and nothing else changes its type.
LEMMA EditsGrow ==
    ASSUME IInv, NEW e \in EditRecords, edits' = Append(edits, e), Len(edits) < MaxEdits
    PROVE  /\ edits' \in Seq(EditRecords) /\ Len(edits') = Len(edits) + 1
           /\ Len(edits) + 1 \in 1..Len(edits') /\ Len(edits') <= MaxEdits
           /\ Commands(Len(edits)) \subseteq Commands(Len(edits'))
           /\ EditIds \subseteq EditIds'
           /\ Len(edits) + 1 \in 0..MaxEdits
<1>1. edits \in Seq(EditRecords) /\ Len(edits) \in Nat /\ MaxEdits \in Nat
    BY PeerSyncAssumption DEF IInv
<1>2. edits' \in Seq(EditRecords) /\ Len(edits') = Len(edits) + 1
    BY <1>1
<1>3. 1..Len(edits) \subseteq 1..Len(edits')
    BY <1>1, <1>2
<1>4. Commands(Len(edits)) \subseteq Commands(Len(edits'))
    <2>1. [pc : {"written"}, key : Keys, edit : 1..Len(edits)]
            \subseteq [pc : {"written"}, key : Keys, edit : 1..Len(edits')]
        BY <1>3
    <2>2. [pc : {"staged"}, edit : 1..Len(edits), tree : Trees]
            \subseteq [pc : {"staged"}, edit : 1..Len(edits'), tree : Trees]
        BY <1>3
    <2> QED BY <2>1, <2>2 DEF Commands
<1> QED BY <1>1, <1>2, <1>3, <1>4 DEF EditIds

LEMMA ContentShape ==
    ASSUME NEW kind, NEW n \in 0..MaxEdits PROVE Content(kind, n) \in 0..MaxEdits
BY NoEntryIsContent DEF Content

LEMMA WriteKeepsIInv ==
    ASSUME IInv, NEW d \in Devices, NEW kind \in Kinds, NEW k \in Keys, WriteEntry(d, kind, k)
    PROVE  IInv'
<1>1. PICK e : e = EditRecord(d, kind, k)
    OBVIOUS
<1>2. e \in EditRecords /\ edits' = Append(edits, e) /\ Len(edits) < MaxEdits
    BY <1>1, EditRecordShape DEF WriteEntry, CanEdit
<1>3. /\ edits' \in Seq(EditRecords) /\ Len(edits) + 1 \in 1..Len(edits')
      /\ Len(edits') <= MaxEdits /\ Len(edits) + 1 \in 0..MaxEdits
      /\ Commands(Len(edits)) \subseteq Commands(Len(edits'))
      /\ EditIds \subseteq EditIds'
    BY <1>2, EditsGrow
<1>4. PICK n : n = Len(edits) + 1
    OBVIOUS
<1>5. work' \in [Devices -> Trees]
    <2>1. work' = [work EXCEPT ![d] = [work[d] EXCEPT ![k] = Content(kind, n)]]
        BY <1>4 DEF WriteEntry
    <2>2. [work[d] EXCEPT ![k] = Content(kind, n)] \in Trees
        BY <1>3, <1>4, ContentShape DEF IInv, Trees
    <2> QED BY <2>1, <2>2 DEF IInv
<1>6. cmd' \in [Devices -> Commands(Len(edits'))]
    <2>1. PICK c : c = [pc |-> "written", key |-> k, edit |-> n]
        OBVIOUS
    <2>2. c \in Commands(Len(edits'))
        BY <2>1, <1>3, <1>4 DEF Commands
    <2>3. cmd' = [cmd EXCEPT ![d] = c]
        BY <2>1, <1>4 DEF WriteEntry
    <2>4. cmd \in [Devices -> Commands(Len(edits'))]
        BY <1>3 DEF IInv
    <2> QED BY <2>2, <2>3, <2>4
<1>7. UNCHANGED <<head, index, sess, acked, faults>>
    BY DEF WriteEntry
<1> QED BY <1>3, <1>5, <1>6, <1>7 DEF IInv

LEMMA StageKeepsIInv ==
    ASSUME IInv, NEW d \in Devices, StageEntry(d)
    PROVE  IInv'
<1>1. PICK c : c = cmd[d]
    OBVIOUS
<1>2. c \in [pc : {"written"}, key : Keys, edit : 1..Len(edits)]
    BY <1>1 DEF IInv, Commands, Idle, StageEntry
<1>3. index' = [index EXCEPT ![d] = [index[d] EXCEPT ![c.key] = work[d][c.key]]]
    BY <1>1 DEF StageEntry
<1>4. index' \in [Devices -> Trees]
    BY <1>2, <1>3 DEF IInv, Trees
<1>5. PICK s : s = [pc |-> "staged", edit |-> c.edit, tree |-> index'[d]]
    OBVIOUS
<1>6. s \in Commands(Len(edits))
    BY <1>2, <1>4, <1>5 DEF Commands
<1>7. cmd' = [cmd EXCEPT ![d] = s]
    BY <1>1, <1>5 DEF StageEntry
<1>8. UNCHANGED <<head, work, sess, edits, acked, faults>>
    BY DEF StageEntry
<1> QED BY <1>4, <1>6, <1>7, <1>8 DEF IInv, EditIds

LEMMA CommitKeepsIInv ==
    ASSUME IInv, NEW d \in Devices, CommitEntry(d)
    PROVE  IInv'
<1>1. PICK c : c = cmd[d]
    OBVIOUS
<1>2. c \in [pc : {"staged"}, edit : 1..Len(edits), tree : Trees]
    BY <1>1 DEF IInv, Commands, Idle, CommitEntry
<1>3. Committed(d, c.tree) \in Pasts
    BY <1>2, CommittedIsPast DEF IInv
<1>4. head' = [head EXCEPT ![d] = Committed(d, c.tree)] /\ acked' = acked \cup {c.edit}
      /\ cmd' = [cmd EXCEPT ![d] = Idle] /\ UNCHANGED <<index, work, sess, edits, faults>>
    BY <1>1 DEF CommitEntry
<1>5. Idle \in Commands(Len(edits))
    BY DEF Commands
<1> QED BY <1>2, <1>3, <1>4, <1>5 DEF IInv, EditIds

LEMMA EditAtOnceKeepsIInv ==
    ASSUME IInv, NEW d \in Devices, NEW kind \in Kinds, NEW k \in Keys, EditAtOnce(d, kind, k)
    PROVE  IInv'
<1>1. PICK e : e = EditRecord(d, kind, k)
    OBVIOUS
<1>2. e \in EditRecords /\ edits' = Append(edits, e) /\ Len(edits) < MaxEdits
    BY <1>1, EditRecordShape DEF EditAtOnce, CanEdit
<1>3. /\ edits' \in Seq(EditRecords) /\ Len(edits) + 1 \in 1..Len(edits')
      /\ Len(edits') <= MaxEdits /\ Len(edits) + 1 \in 0..MaxEdits
      /\ Commands(Len(edits)) \subseteq Commands(Len(edits'))
      /\ EditIds \subseteq EditIds'
    BY <1>2, EditsGrow
<1>4. PICK n : n = Len(edits) + 1
    OBVIOUS
<1>5. work' = [work EXCEPT ![d] = [work[d] EXCEPT ![k] = Content(kind, n)]]
      /\ index' = [index EXCEPT ![d] = [index[d] EXCEPT ![k] = Content(kind, n)]]
      /\ head' = [head EXCEPT ![d] = Committed(d, index'[d])]
      /\ acked' = acked \cup {n}
      /\ UNCHANGED <<cmd, sess, faults>>
    BY <1>4 DEF EditAtOnce
<1>6. /\ [work[d] EXCEPT ![k] = Content(kind, n)] \in Trees
      /\ [index[d] EXCEPT ![k] = Content(kind, n)] \in Trees
    BY <1>3, <1>4, ContentShape DEF IInv, Trees
<1>7. work' \in [Devices -> Trees] /\ index' \in [Devices -> Trees]
    BY <1>5, <1>6 DEF IInv
<1>8. PICK t \in Trees : t = index'[d]
    BY <1>7
<1>9. Committed(d, t) \in Pasts
    BY <1>8, CommittedIsPast DEF IInv
<1>10. head' \in [Devices -> Pasts]
    BY <1>5, <1>8, <1>9 DEF IInv
<1>11. cmd' \in [Devices -> Commands(Len(edits'))]
    BY <1>3, <1>5 DEF IInv
<1>12. acked' \subseteq EditIds'
    BY <1>3, <1>4, <1>5 DEF IInv, EditIds
<1> QED BY <1>3, <1>5, <1>7, <1>10, <1>11, <1>12 DEF IInv
\* The steps of a sync that only move the session (StartSync, Serve, SyncFails).
SessionMoves(d, p) ==
    /\ \E s \in Sessions : sess' = [sess EXCEPT ![d] = [sess[d] EXCEPT ![p] = s]]
    /\ UNCHANGED <<head, index, work, cmd, edits, acked>>
    /\ faults' \in 0..MaxFaults

LEMMA SessionKeepsIInv ==
    ASSUME IInv, NEW d \in Devices, NEW p \in Devices, SessionMoves(d, p)
    PROVE  IInv'
<1>1. PICK s \in Sessions : sess' = [sess EXCEPT ![d] = [sess[d] EXCEPT ![p] = s]]
    BY DEF SessionMoves
<1>2. sess' \in [Devices -> [Devices -> Sessions]]
    BY <1>1 DEF IInv
<1>3. UNCHANGED <<head, index, work, cmd, edits, acked>> /\ faults' \in 0..MaxFaults
    BY DEF SessionMoves
<1> QED BY <1>2, <1>3 DEF IInv, EditIds

\* What a sync holds while it waits, and once it is answered.
LEMMA SessionShape ==
    ASSUME IInv, NEW d \in Devices, NEW p \in Devices
    PROVE  /\ sess[d][p] \in Sessions
           /\ sess[d][p].pc = "asked" => sess[d][p].local \in Pasts
           /\ sess[d][p].pc = "answered" =>
                sess[d][p].local \in Pasts /\ sess[d][p].peer \in Pasts
<1>1. sess[d][p] \in Sessions
    BY DEF IInv
<1>2. Idle.pc = "idle"
    BY DEF Idle
<1> QED BY <1>1, <1>2 DEF Sessions

LEMMA SessionSteps ==
    ASSUME IInv, NEW d \in Devices, NEW p \in Devices,
           StartSync(d, p) \/ Serve(p, d) \/ SyncFails(d, p)
    PROVE  SessionMoves(d, p)
<1>1. CASE StartSync(d, p)
    <2>1. PICK s : s = [pc |-> "asked", local |-> head[d]]
        OBVIOUS
    <2>2. s \in Sessions
        BY <2>1 DEF IInv, Sessions
    <2> QED BY <1>1, <2>1, <2>2 DEF StartSync, SessionMoves, IInv
<1>2. CASE Serve(p, d)
    <2>1. PICK s : s = [pc |-> "answered", local |-> sess[d][p].local, peer |-> head[p]]
        OBVIOUS
    <2>2. s \in Sessions
        <3>1. sess[d][p].local \in Pasts
            BY <1>2, SessionShape DEF Serve
        <3>2. head[p] \in Pasts
            BY DEF IInv
        <3> QED BY <2>1, <3>1, <3>2 DEF Sessions
    <2> QED BY <1>2, <2>1, <2>2 DEF Serve, SessionMoves, IInv
<1>3. CASE SyncFails(d, p)
    <2>1. Idle \in Sessions
        BY DEF Sessions
    <2>2. faults + 1 \in 0..MaxFaults
        BY <1>3, PeerSyncAssumption DEF SyncFails, IInv
    <2> QED BY <1>3, <2>1, <2>2 DEF SyncFails, SessionMoves
<1> QED BY <1>1, <1>2, <1>3

\* The end of a sync: the peer is unborn or its history is refused and nothing
\* changes, or the audit found no leak and the heads are reconciled.
LEMMA FinishBranches ==
    ASSUME NEW d \in Devices, NEW p \in Devices, FinishSync(d, p)
    PROVE  /\ sess[d][p].pc = "answered"
           /\ sess' = [sess EXCEPT ![d] = [sess[d] EXCEPT ![p] = Idle]]
           /\ UNCHANGED <<cmd, edits, acked, faults>>
           /\ \/ UNCHANGED <<head, index, work>>
              \/ /\ AuditIncoming(sess[d][p].local, sess[d][p].peer) = {}
                 /\ Reconcile(d, p, sess[d][p].local, sess[d][p].peer)
BY DEF FinishSync

LEMMA FinishKeepsIInv ==
    ASSUME IInv, NEW d \in Devices, NEW p \in Devices, FinishSync(d, p)
    PROVE  IInv'
<1>1. sess' \in [Devices -> [Devices -> Sessions]]
    <2>1. Idle \in Sessions
        BY DEF Sessions
    <2>2. sess \in [Devices -> [Devices -> Sessions]]
        BY DEF IInv
    <2>3. [sess[d] EXCEPT ![p] = Idle] \in [Devices -> Sessions]
        BY <2>1, <2>2
    <2> QED BY <2>2, <2>3, FinishBranches
<1>2. PICK local \in Pasts, peer \in Pasts : local = sess[d][p].local /\ peer = sess[d][p].peer
    BY SessionShape, FinishBranches
<1>3. /\ head' \in [Devices -> Pasts]
      /\ index' \in [Devices -> Trees] /\ work' \in [Devices -> Trees]
    <2>1. CASE UNCHANGED <<head, index, work>>
        BY <2>1 DEF IInv
    <2>2. CASE Reconcile(d, p, local, peer)
        BY <2>2, ReconcileResult
    <2> QED BY <1>2, <2>1, <2>2, FinishBranches
<1> QED BY <1>1, <1>3, FinishBranches DEF IInv, EditIds

LEMMA NextIInv == ASSUME IInv, [Next]_vars PROVE IInv'
<1>1. CASE UNCHANGED vars
    BY <1>1 DEF vars, IInv, EditIds
<1>2. CASE Next
    <2>1. PICK d \in Devices :
              \/ \E k \in Keys, kind \in Kinds : WriteEntry(d, kind, k) \/ EditAtOnce(d, kind, k)
              \/ StageEntry(d)
              \/ CommitEntry(d)
              \/ \E p \in Devices :
                    StartSync(d, p) \/ Serve(p, d) \/ SyncFails(d, p) \/ FinishSync(d, p)
        BY <1>2 DEF Next
    <2>2. CASE \E p \in Devices :
                  StartSync(d, p) \/ Serve(p, d) \/ SyncFails(d, p) \/ FinishSync(d, p)
        BY <2>2, SessionSteps, SessionKeepsIInv, FinishKeepsIInv
    <2> QED BY <2>1, <2>2, WriteKeepsIInv, EditAtOnceKeepsIInv, StageKeepsIInv, CommitKeepsIInv
<1> QED BY <1>1, <1>2

LEMMA IInvHolds == Spec => []IInv
BY InitIInv, NextIInv, PTL DEF Spec

-----------------------------------------------------------------------------
\* Every history that commits, merges, rebases and fast-forwards can build is
\* made of typed commits, and none of them is empty: the guard of
\* Git2Vcs::commit and the dropping of git rebase keep commits and changes one
\* to one, on every device and in whatever order the steps fall.
THEOREM TypeCorrect == Spec => []TypeOK
<1>1. ASSUME IInv PROVE TypeOK
    <2>1. ASSUME NEW d \in Devices
          PROVE  /\ IsHistory(head[d])
                 /\ \A i \in 2..Len(head[d]) : head[d][i].tree # head[d][i - 1].tree
                 /\ index[d] \in Trees /\ work[d] \in Trees
                 /\ cmd[d].pc \in {"idle", "written", "staged"}
                 /\ \A p \in Devices : sess[d][p].pc \in {"idle", "asked", "answered"}
        <3>1. head[d] \in Seq(CommitShapes(0..MaxEdits, Devices)) /\ NoEmptyCommit(head[d])
            BY <1>1 DEF IInv, Pasts, Histories
        <3>2. \A i \in DOMAIN head[d] : head[d][i] \in CommitShapes(0..MaxEdits, Devices)
            BY <3>1
        <3>3. IsHistory(head[d])
            BY <3>2 DEF IsHistory, CommitShapes, Trees
        <3>4. cmd[d] \in Commands(Len(edits)) /\ Idle.pc = "idle"
            BY <1>1 DEF IInv, Idle
        <3>5. cmd[d].pc \in {"idle", "written", "staged"}
            BY <3>4 DEF Commands
        <3>6. ASSUME NEW p \in Devices PROVE sess[d][p].pc \in {"idle", "asked", "answered"}
            BY <1>1, <3>4, SessionShape DEF Sessions
        <3>7. index[d] \in Trees /\ work[d] \in Trees
            BY <1>1 DEF IInv
        <3> QED BY <3>1, <3>3, <3>5, <3>6, <3>7 DEF NoEmptyCommit
    <2> QED BY <1>1, <2>1 DEF IInv, TypeOK
<1> QED BY <1>1, IInvHolds, PTL

\* A commit only adds to the history of its device.
LEMMA CommitKeepsContents ==
    ASSUME IInv, NEW d \in Devices, NEW tree \in Trees
    PROVE  Introduced(head[d]) \subseteq Introduced(Committed(d, tree))
<1>1. head[d] \in Pasts
    BY DEF IInv
<1>2. Committed(d, tree) \in Pasts /\ Extends(Committed(d, tree), head[d])
    BY <1>1, CommittedIsPast
<1> QED BY <1>1, <1>2, IntroducedGrows DEF Pasts

LEMMA FinishKeepsContents ==
    ASSUME IInv, NEW d \in Devices, NEW p \in Devices, FinishSync(d, p), NEW e \in Devices
    PROVE  StaleFinish(e) \/ Introduced(head[e]) \subseteq Introduced(head'[e])
<1>1. PICK local \in Pasts, peer \in Pasts : local = sess[d][p].local /\ peer = sess[d][p].peer
    BY SessionShape, FinishBranches
<1>2. CASE UNCHANGED <<head, index, work>>
    BY <1>2
<1>3. CASE Reconcile(d, p, local, peer)
    <2>1. CASE e # d
        BY <1>3, <2>1, ReconcileResult
    <2>2. CASE e = d /\ local = head[d]
        BY <1>3, <2>2, ReconcileResult
    <2>3. CASE e = d /\ local # head[d]
        <3>1. sess'[d][p] = Idle /\ sess[d][p].pc = "answered"
            BY FinishBranches DEF IInv
        <3> QED BY <1>1, <2>3, <3>1 DEF StaleFinish, Finishes
    <2> QED BY <2>1, <2>2, <2>3
<1> QED BY <1>1, <1>2, <1>3, FinishBranches

\* reconcile never throws work away.  A fast-forward continues the head that
\* was compared; a rebase drops a commit only if its patch or its contents are
\* upstream already, and the merge driver lets every replayed content win.  So
\* what was committed before a sync read the head stays in the history, for
\* any number of devices, entries and commits.
THEOREM NothingCommittedIsLost == Spec => ReconcileKeepsEdits
<1>1. ASSUME IInv, [Next]_vars, NEW e \in Devices
      PROVE  StaleFinish(e) \/ Introduced(head[e]) \subseteq Introduced(head'[e])
    <2>1. CASE UNCHANGED vars
        BY <2>1 DEF vars
    <2>2. CASE Next
        <3>1. PICK d \in Devices :
              \/ \E k \in Keys, kind \in Kinds : WriteEntry(d, kind, k) \/ EditAtOnce(d, kind, k)
              \/ StageEntry(d)
              \/ CommitEntry(d)
              \/ \E p \in Devices :
                    StartSync(d, p) \/ Serve(p, d) \/ SyncFails(d, p) \/ FinishSync(d, p)
            BY <2>2 DEF Next
        <3>2. CASE \E k \in Keys, kind \in Kinds : WriteEntry(d, kind, k)
            BY <3>2 DEF WriteEntry
        <3>3. CASE \E k \in Keys, kind \in Kinds : EditAtOnce(d, kind, k)
            <4>1. PICK k \in Keys, kind \in Kinds : EditAtOnce(d, kind, k)
                BY <3>3
            <4>2. IInv'
                BY <1>1, <4>1, EditAtOnceKeepsIInv
            <4>3. PICK t \in Trees : t = index'[d]
                BY <4>2 DEF IInv
            <4>4. head' = [head EXCEPT ![d] = Committed(d, t)] /\ head \in [Devices -> Pasts]
                BY <1>1, <4>1, <4>3 DEF EditAtOnce, IInv
            <4> QED BY <1>1, <4>3, <4>4, CommitKeepsContents
        <3>4. CASE StageEntry(d)
            BY <3>4 DEF StageEntry
        <3>5. CASE CommitEntry(d)
            <4>1. PICK c : c = cmd[d]
                OBVIOUS
            <4>2. c \in [pc : {"staged"}, edit : 1..Len(edits), tree : Trees]
                BY <1>1, <3>5, <4>1 DEF IInv, Commands, Idle, CommitEntry
            <4>3. head' = [head EXCEPT ![d] = Committed(d, c.tree)] /\ head \in [Devices -> Pasts]
                BY <1>1, <3>5, <4>1 DEF CommitEntry, IInv
            <4> QED BY <1>1, <4>2, <4>3, CommitKeepsContents
        <3>6. CASE \E p \in Devices : StartSync(d, p) \/ Serve(p, d) \/ SyncFails(d, p)
            BY <1>1, <3>6, SessionSteps DEF SessionMoves
        <3>7. CASE \E p \in Devices : FinishSync(d, p)
            BY <1>1, <3>7, FinishKeepsContents
        <3> QED BY <3>1, <3>2, <3>3, <3>4, <3>5, <3>6, <3>7
    <2> QED BY <1>1, <2>1, <2>2
<1>2. ASSUME IInv, [Next]_vars
      PROVE  \A d \in Devices :
                 StaleFinish(d) \/ Introduced(head[d]) \subseteq Introduced(head'[d])
    BY <1>1, <1>2
<1> QED BY <1>2, IInvHolds, PTL DEF Spec, ReconcileKeepsEdits

\* The audit of what arrived covers the tip: a plaintext that the peer shows is
\* one the head that was compared had introduced (syncing.rs, audit_incoming),
\* unless its name is one that git quotes.
LEMMA AuditCoversTip ==
    ASSUME NEW local \in Pasts, NEW peer \in Pasts, AuditIncoming(local, peer) = {},
           NEW k \in Keys \ Quoted, Plain(Tip(peer)[k])
    PROVE  <<k, Tip(peer)[k]>> \in Introduced(local)
<1>1. ASSUME NEW i \in NotIn(peer, local) PROVE k \notin DOMAIN Patch(peer, i)
    <2>1. k \notin Touched(local, peer)
        BY DEF AuditIncoming
    <2> QED BY <2>1 DEF Touched
<1>2. Tip(peer)[k] # NoEntry
    BY DEF Plain
<1>3. local \in Histories(0..MaxEdits, Devices) /\ peer \in Histories(0..MaxEdits, Devices)
    BY DEF Pasts
<1> QED BY <1>1, <1>2, <1>3, NoEntryIsContent, UntouchedIsShared

\* The audit on receive (ADR-0009, ADR-0011), as far as it goes: no single sync
\* puts a plaintext in front of a device that was not in its own history, when
\* the sync began or when it ended, for any number of devices and commits and
\* whatever arrives under quoted names.  It goes no further: a file whose name
\* git quotes is not audited at all, and NoForeignPlaintext fails with three
\* devices.
THEOREM NoSyncBringsPlaintext == Spec => SyncBringsNoPlaintext
<1>1. ASSUME IInv, Next, NEW e \in Devices, NEW q \in Devices, NEW k \in Keys \ Quoted,
             Finishes(e, q), Plain(Tip(head'[e])[k])
      PROVE  <<k, Tip(head'[e])[k]>> \in Introduced(head[e]) \cup Introduced(sess[e][q].local)
    <2>1. head[e] \in Pasts /\ Tip(head'[e])[k] # NoEntry
        BY <1>1 DEF IInv, Plain
    <2>2. CASE UNCHANGED head
        BY <2>1, <2>2, TipIsIntroduced DEF Pasts
    <2>3. CASE FinishSync(e, q)
        <3>1. PICK local \in Pasts, peer \in Pasts :
                  local = sess[e][q].local /\ peer = sess[e][q].peer
            BY <1>1, <2>3, SessionShape, FinishBranches
        <3>2. CASE UNCHANGED <<head, index, work>>
            BY <2>2, <3>2
        <3>3. CASE AuditIncoming(local, peer) = {} /\ Reconcile(e, q, local, peer)
            <4>1. \/ Tip(head'[e])[k] \in {NoEntry, Tip(peer)[k]}
                  \/ <<k, Tip(head'[e])[k]>> \in Introduced(head[e])
                BY <1>1, <3>3, ReconcileResult
            <4>2. CASE Tip(head'[e])[k] = Tip(peer)[k]
                BY <1>1, <3>1, <3>3, <4>2, AuditCoversTip
            <4> QED BY <2>1, <4>1, <4>2
        <3> QED BY <2>3, <3>1, <3>2, <3>3, FinishBranches
    <2>4. UNCHANGED head \/ FinishSync(e, q)
        <3>1. PICK d \in Devices :
              \/ \E x \in Keys, kind \in Kinds : WriteEntry(d, kind, x) \/ EditAtOnce(d, kind, x)
              \/ StageEntry(d)
              \/ CommitEntry(d)
              \/ \E p \in Devices :
                    StartSync(d, p) \/ Serve(p, d) \/ SyncFails(d, p) \/ FinishSync(d, p)
            BY <1>1 DEF Next
        <3>2. sess' # sess
            BY <1>1 DEF Finishes, Idle
        <3>3. CASE \E p \in Devices : FinishSync(d, p)
            <4>1. PICK p \in Devices : FinishSync(d, p)
                BY <3>3
            <4>2. sess' = [sess EXCEPT ![d] = [sess[d] EXCEPT ![p] = Idle]]
                BY <4>1, FinishBranches
            <4>3. d = e /\ p = q
                BY <1>1, <4>2 DEF Finishes, Idle, IInv
            <4> QED BY <4>1, <4>3
        <3> QED BY <3>1, <3>2, <3>3 DEF WriteEntry, EditAtOnce, StageEntry, CommitEntry,
                                       StartSync, Serve, SyncFails
    <2> QED BY <2>2, <2>3, <2>4
<1>2. ASSUME IInv, [Next]_vars, NEW e \in Devices, NEW q \in Devices, NEW k \in Keys \ Quoted,
             Finishes(e, q), Plain(Tip(head'[e])[k])
      PROVE  <<k, Tip(head'[e])[k]>> \in Introduced(head[e]) \cup Introduced(sess[e][q].local)
    <2>1. CASE UNCHANGED vars
        <3>1. sess' = sess
            BY <2>1 DEF vars
        <3> QED BY <1>2, <3>1 DEF Finishes, Idle
    <2> QED BY <1>1, <1>2, <2>1
<1>3. ASSUME IInv, [Next]_vars
      PROVE  \A d, p \in Devices, k \in Keys \ Quoted :
                LET c == Tip(head'[d])[k] IN
                Finishes(d, p) /\ Plain(c) =>
                    <<k, c>> \in Introduced(head[d]) \cup Introduced(sess[d][p].local)
    BY <1>2, <1>3
<1> QED BY <1>3, IInvHolds, PTL DEF Spec, SyncBringsNoPlaintext
=============================================================================
