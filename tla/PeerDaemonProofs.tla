-------------------------- MODULE PeerDaemonProofs --------------------------
(***************************************************************************)
(* Proofs about the sync daemon, for any set of peers and any budget.      *)
(*                                                                         *)
(* Two invariants are inductive by themselves once the shapes are known:   *)
(* an entry in flight has a task behind it, and the daemon's mtime is a    *)
(* sound tag of its pins.  The second needs to know where an mtime can     *)
(* come from (none is newer than the last change), what a missing file     *)
(* means, and that nobody changes the file while the daemon starts.        *)
(***************************************************************************)
EXTENDS PeerDaemon, TLAPS

-----------------------------------------------------------------------------
\* What a reload leaves in the cache is well-formed, and puts no peer in
\* flight that was not (reload_peers_if_changed, apply_peers).
LEMMA ReloadedShape ==
    ASSUME TypeOK
    PROVE  /\ Reloaded.known \subseteq Peers
           /\ Reloaded.entry \in [Peers -> EntryType]
           /\ \A p \in Peers \ Reloaded.known : Reloaded.entry[p] = Blank
           /\ Reloaded.seen \in Nat
           /\ \A p \in Peers : Reloaded.entry[p].in_flight => entry[p].in_flight
<1>1. CASE file.mtime # 0 /\ (file.mtime = seen \/ ~file.ok)
  <2>1. Reloaded = [known |-> known, entry |-> entry, seen |-> seen]
    BY <1>1 DEF Reloaded
  <2> QED BY <2>1 DEF TypeOK, EntryType
<1>2. CASE ~(file.mtime # 0 /\ (file.mtime = seen \/ ~file.ok))
  <2>1. Reloaded = [known |-> file.pins, entry |-> Rest(file.pins, entry),
                    seen |-> file.mtime]
    BY <1>2 DEF Reloaded
  <2>2. file.pins \subseteq Peers /\ file.mtime \in Nat
    BY DEF TypeOK
  <2>3. Rest(file.pins, entry) \in [Peers -> EntryType]
    BY DEF TypeOK, Rest, Blank, EntryType
  <2>4. \A p \in Peers : Rest(file.pins, entry)[p] =
                           IF p \in file.pins THEN entry[p] ELSE Blank
    BY DEF Rest
  <2>5. Blank.in_flight = FALSE
    BY DEF Blank
  <2> QED BY <2>1, <2>2, <2>3, <2>4, <2>5
<1> QED BY <1>1, <1>2

\* What Spawn does to the entries and the running syncs: only peers a task was
\* started for become in flight (collect_known_addrs, spawn_sync_with_peer).
LEMMA SpawnShape ==
    ASSUME TypeOK, NEW cands \in SUBSET Peers, NEW e \in [Peers -> EntryType],
           Spawn(cands, e)
    PROVE  /\ used' \in [Peers -> 0..MaxAttempts]
           /\ running' \in [Peers -> Nat]
           /\ entry' \in [Peers -> EntryType]
           /\ \A p \in Peers \ cands : entry'[p] = e[p]
           /\ \A p \in Peers : running'[p] >= running[p]
           /\ \A p \in Peers :
                 entry'[p].in_flight => e[p].in_flight \/ running'[p] > 0
<1> DEFINE go == {p \in cands : used[p] < MaxAttempts}
<1> MaxAttempts \in Nat BY PeerDaemonAssumption
<1>1. used' = [p \in Peers |-> IF p \in go THEN used[p] + 1 ELSE used[p]]
  BY DEF Spawn
<1>2. running' = [p \in Peers |-> IF p \in go THEN running[p] + 1 ELSE running[p]]
  BY DEF Spawn
<1>3. entry' = [p \in Peers |-> IF p \in go THEN [e[p] EXCEPT !.in_flight = TRUE] ELSE e[p]]
  BY DEF Spawn
<1>4. used' \in [Peers -> 0..MaxAttempts]
  BY <1>1 DEF TypeOK
<1>5. /\ running' \in [Peers -> Nat]
      /\ \A p \in Peers : running'[p] >= running[p]
      /\ \A p \in go : running'[p] > 0
  BY <1>2 DEF TypeOK
<1>6. ASSUME NEW p \in Peers
      PROVE  /\ entry'[p] \in EntryType
             /\ entry'[p].in_flight => e[p].in_flight \/ p \in go
             /\ p \notin go => entry'[p] = e[p]
  <2>1. entry'[p] = IF p \in go THEN [e[p] EXCEPT !.in_flight = TRUE] ELSE e[p]
    BY <1>3
  <2>2. e[p] \in EntryType
    OBVIOUS
  <2> QED BY <2>1, <2>2 DEF EntryType
<1>7. entry' \in [Peers -> EntryType]
  <2> HIDE DEF go
  <2> QED BY <1>3, <1>6
<1> QED BY <1>4, <1>5, <1>6, <1>7

-----------------------------------------------------------------------------
\* The daemon's own variables, which the changes of peers.toml leave alone.
LEMMA ReplaceShape ==
    ASSUME TypeOK, NEW f, ReplaceFile(f),
           f \in [pins : SUBSET Peers, mtime : Nat, ok : BOOLEAN]
    PROVE  TypeOK'
BY DEF TypeOK, ReplaceFile

\* Every change of the file puts a well-formed file in place: an empty one
\* that is gone, or one with a modification time of its own.
FileChange ==
    \E f \in [pins : SUBSET Peers, mtime : {0, edits + 1}, ok : BOOLEAN] :
        /\ f.mtime = 0 => f = NoFile
        /\ ReplaceFile(f)

LEMMA FileChanges ==
    ASSUME TypeOK,
           \/ \E p \in Peers : PairPeer(p) \/ RemovePeer(p)
           \/ RotateIdentity \/ DeleteFile \/ BreakFile
           \/ \E pins \in SUBSET Peers : RepairFile(pins)
    PROVE  FileChange
<1> DEFINE F == [pins : SUBSET Peers, mtime : {0, edits + 1}, ok : BOOLEAN]
<1>0. edits + 1 # 0 /\ file.pins \in SUBSET Peers
  BY DEF TypeOK
<1>1. ASSUME NEW pins \in SUBSET Peers
      PROVE  Saved(pins) \in F /\ Saved(pins).mtime # 0
  BY <1>0 DEF Saved
<1>2. NoFile \in F
  BY DEF NoFile
<1>3. [pins |-> {}, mtime |-> edits + 1, ok |-> FALSE] \in F
  OBVIOUS
<1>4. \A p \in Peers : file.pins \cup {p} \in SUBSET Peers
                       /\ file.pins \ {p} \in SUBSET Peers
  BY <1>0
<1>5. CASE \E p \in Peers : PairPeer(p) \/ RemovePeer(p)
  <2>1. PICK p \in Peers : PairPeer(p) \/ RemovePeer(p)
    BY <1>5
  <2>2. PICK pins \in SUBSET Peers : ReplaceFile(Saved(pins))
    BY <1>4, <2>1 DEF PairPeer, RemovePeer
  <2> QED BY <1>1, <2>2 DEF FileChange
<1>6. CASE RotateIdentity
  BY <1>1, <1>6 DEF RotateIdentity, FileChange
<1>7. CASE DeleteFile
  BY <1>2, <1>7 DEF DeleteFile, FileChange
<1>8. CASE BreakFile
  BY <1>0, <1>3, <1>8 DEF BreakFile, FileChange
<1>9. CASE \E pins \in SUBSET Peers : RepairFile(pins)
  BY <1>1, <1>9 DEF RepairFile, FileChange
<1> QED BY <1>5, <1>6, <1>7, <1>8, <1>9

\* The steps seen by the proofs: the six ways to change the file are one.
Steps ==
    \/ FileChange
    \/ Load \/ EnterLoop \/ Stop
    \/ \E p \in Peers : HandleInbound(p) \/ HandleDiscovered(p) \/ HandleExpired(p)
    \/ HandleTick \/ Expire
    \/ \E p \in Peers, ok \in BOOLEAN : SyncEnds(p, ok)

LEMMA NextSteps == TypeOK /\ Next => Steps
BY FileChanges DEF Next, Steps

-----------------------------------------------------------------------------
LEMMA TypeStep == TypeOK /\ [Next]_vars => TypeOK'
<1> SUFFICES ASSUME TypeOK, [Next]_vars PROVE TypeOK'
  OBVIOUS
<1> USE PeerDaemonAssumption
<1> HIDE DEF FileChange
<1>1. CASE FileChange
  <2>1. PICK f \in [pins : SUBSET Peers, mtime : {0, edits + 1}, ok : BOOLEAN] :
            ReplaceFile(f)
    BY <1>1 DEF FileChange
  <2>2. f \in [pins : SUBSET Peers, mtime : Nat, ok : BOOLEAN]
    BY DEF TypeOK
  <2> QED BY <2>1, <2>2, ReplaceShape
<1>2. CASE Load
  BY <1>2 DEF Load, TypeOK
<1>3. CASE EnterLoop
  BY <1>3 DEF EnterLoop, TypeOK, NoPeers, Blank, EntryType
<1>4. CASE Stop
  BY <1>4 DEF Stop, TypeOK, NoPeers, NoSyncs, Blank, EntryType
<1>5. ASSUME NEW p \in Peers, HandleInbound(p)
      PROVE  TypeOK'
  <2>1. used' \in [Peers -> 0..MaxAttempts]
    BY <1>5 DEF HandleInbound, TypeOK, Limiter!Admit, Limiter!Refuse
  <2>2. /\ known' = Reloaded.known /\ entry' = Reloaded.entry /\ seen' = Reloaded.seen
        /\ UNCHANGED <<file, phase, loaded, running, edits, starts>>
    BY <1>5 DEF HandleInbound
  <2> QED BY <2>1, <2>2, ReloadedShape DEF TypeOK
<1>6. ASSUME NEW p \in Peers, HandleDiscovered(p)
      PROVE  TypeOK'
  <2> DEFINE r == Reloaded
             e == [q \in Peers |-> IF q = p /\ p \in r.known
                                  THEN [r.entry[q] EXCEPT !.addr = TRUE, !.discovered = TRUE]
                                  ELSE r.entry[q]]
             cands == IF p \in r.known /\ ~e[p].in_flight THEN {p} ELSE {}
  <2>1. /\ known' = r.known /\ seen' = r.seen
        /\ UNCHANGED <<file, phase, loaded, edits, starts>>
        /\ Spawn(cands, e)
    BY <1>6 DEF HandleDiscovered
  <2>2. e \in [Peers -> EntryType] /\ \A q \in Peers \ r.known : e[q] = Blank
    <3>1. r.entry \in [Peers -> EntryType] /\ \A q \in Peers \ r.known : r.entry[q] = Blank
      BY ReloadedShape
    <3> HIDE DEF r
    <3>2. ASSUME NEW q \in Peers
          PROVE  e[q] \in EntryType /\ (q \notin r.known => e[q] = Blank)
      BY <3>1 DEF EntryType
    <3> QED BY <3>2
  <2>3. cands \in SUBSET Peers /\ cands \subseteq r.known
    OBVIOUS
  <2>4. /\ used' \in [Peers -> 0..MaxAttempts]
        /\ running' \in [Peers -> Nat]
        /\ entry' \in [Peers -> EntryType]
        /\ \A q \in Peers \ cands : entry'[q] = e[q]
    <3> HIDE DEF e, cands
    <3> QED BY <2>1, <2>2, <2>3, SpawnShape
  <2> HIDE DEF e, cands
  <2> QED BY <2>1, <2>2, <2>3, <2>4, ReloadedShape DEF TypeOK
<1>7. ASSUME NEW p \in Peers, HandleExpired(p)
      PROVE  TypeOK'
  <2>1. /\ known' = Reloaded.known /\ seen' = Reloaded.seen
        /\ entry' = IF p \in Reloaded.known
                    THEN [Reloaded.entry EXCEPT ![p].discovered = FALSE]
                    ELSE Reloaded.entry
        /\ UNCHANGED <<file, phase, loaded, used, running, edits, starts>>
    BY <1>7 DEF HandleExpired
  <2>2. entry' \in [Peers -> EntryType]
        /\ \A q \in Peers \ Reloaded.known : entry'[q] = Blank
    <3> DEFINE r == Reloaded
    <3>1. r.entry \in [Peers -> EntryType] /\ \A q \in Peers \ r.known : r.entry[q] = Blank
      BY ReloadedShape
    <3>2. entry' = IF p \in r.known THEN [r.entry EXCEPT ![p].discovered = FALSE] ELSE r.entry
      BY <2>1
    <3> HIDE DEF r
    <3> QED BY <3>1, <3>2 DEF r, EntryType
  <2> QED BY <2>1, <2>2, ReloadedShape DEF TypeOK
<1>8. CASE HandleTick
  <2> DEFINE cands == {p \in known : entry[p].addr /\ ~entry[p].in_flight}
  <2>1. Spawn(cands, entry) /\ UNCHANGED <<file, phase, loaded, known, seen, edits, starts>>
    BY <1>8 DEF HandleTick
  <2>2. cands \in SUBSET Peers /\ cands \subseteq known /\ entry \in [Peers -> EntryType]
    BY DEF TypeOK
  <2> HIDE DEF cands
  <2> QED BY <2>1, <2>2, SpawnShape DEF TypeOK
<1>9. ASSUME NEW p \in Peers, NEW ok \in BOOLEAN, SyncEnds(p, ok)
      PROVE  TypeOK'
  <2>1. running' \in [Peers -> Nat]
    BY <1>9 DEF SyncEnds, TypeOK
  <2>2. entry' \in [Peers -> EntryType] /\ \A q \in Peers \ known : entry'[q] = Blank
    BY <1>9 DEF SyncEnds, TypeOK, EntryType
  <2> QED BY <1>9, <2>1, <2>2 DEF SyncEnds, TypeOK
<1>10. CASE Expire
  BY <1>10 DEF Expire, Limiter!Expire, TypeOK
<1>11. CASE UNCHANGED vars
  BY <1>11 DEF vars, TypeOK
<1> QED BY <1>1, <1>2, <1>3, <1>4, <1>5, <1>6, <1>7, <1>8, <1>9, <1>10, <1>11,
           NextSteps DEF Steps

\* The daemon's state keeps its shape: in particular nothing is remembered
\* of a peer the daemon does not know (apply_peers, handle_discovery).
THEOREM TypeCorrect == Spec => []TypeOK
<1>1. Init => TypeOK
  BY PeerDaemonAssumption
  DEF Init, TypeOK, NoFile, NoPeers, NoSyncs, Blank, EntryType, Limiter!Init
<1> QED BY <1>1, TypeStep, PTL DEF Spec

-----------------------------------------------------------------------------
LEMMA FlightStep == TypeOK /\ InFlightHasTask /\ [Next]_vars => InFlightHasTask'
<1> SUFFICES ASSUME TypeOK, InFlightHasTask, [Next]_vars PROVE InFlightHasTask'
  OBVIOUS
<1> HIDE DEF FileChange
<1>0. \A q \in Peers : running[q] \in Nat
  BY DEF TypeOK
<1>1. CASE FileChange
  BY <1>1 DEF FileChange, ReplaceFile, InFlightHasTask
<1>2. CASE Load
  BY <1>2 DEF Load, InFlightHasTask
<1>3. CASE EnterLoop
  BY <1>3 DEF EnterLoop, InFlightHasTask, NoPeers, Blank
<1>4. CASE Stop
  BY <1>4 DEF Stop, InFlightHasTask, NoPeers, Blank
<1>5. ASSUME NEW p \in Peers, HandleInbound(p)
      PROVE  InFlightHasTask'
  BY <1>5, ReloadedShape DEF HandleInbound, InFlightHasTask
<1>6. ASSUME NEW p \in Peers, HandleDiscovered(p)
      PROVE  InFlightHasTask'
  <2> DEFINE r == Reloaded
             e == [q \in Peers |-> IF q = p /\ p \in r.known
                                  THEN [r.entry[q] EXCEPT !.addr = TRUE, !.discovered = TRUE]
                                  ELSE r.entry[q]]
             cands == IF p \in r.known /\ ~e[p].in_flight THEN {p} ELSE {}
  <2>1. Spawn(cands, e)
    BY <1>6 DEF HandleDiscovered
  <2>2. r.entry \in [Peers -> EntryType]
        /\ \A q \in Peers : r.entry[q].in_flight => entry[q].in_flight
    BY ReloadedShape
  <2>3. cands \in SUBSET Peers
    OBVIOUS
  <2> HIDE DEF r
  <2>4. ASSUME NEW q \in Peers
        PROVE  e[q] \in EntryType /\ (e[q].in_flight => entry[q].in_flight)
    BY <2>2 DEF EntryType
  <2>5. e \in [Peers -> EntryType]
    BY <2>4
  <2> HIDE DEF e, cands
  <2>6. \A q \in Peers : /\ running'[q] >= running[q] /\ running'[q] \in Nat
                         /\ entry'[q].in_flight => e[q].in_flight \/ running'[q] > 0
    BY <2>1, <2>3, <2>5, SpawnShape
  <2> QED BY <1>0, <2>4, <2>6 DEF InFlightHasTask
<1>7. ASSUME NEW p \in Peers, HandleExpired(p)
      PROVE  InFlightHasTask'
  <2> DEFINE r == Reloaded
  <2>1. /\ entry' = IF p \in r.known THEN [r.entry EXCEPT ![p].discovered = FALSE] ELSE r.entry
        /\ running' = running
    BY <1>7 DEF HandleExpired
  <2>2. r.entry \in [Peers -> EntryType]
        /\ \A q \in Peers : r.entry[q].in_flight => entry[q].in_flight
    BY ReloadedShape
  <2> HIDE DEF r
  <2>3. \A q \in Peers : entry'[q].in_flight => r.entry[q].in_flight
    BY <2>1, <2>2 DEF EntryType
  <2> QED BY <2>1, <2>2, <2>3 DEF InFlightHasTask
<1>8. CASE HandleTick
  <2> DEFINE cands == {p \in known : entry[p].addr /\ ~entry[p].in_flight}
  <2>1. Spawn(cands, entry)
    BY <1>8 DEF HandleTick
  <2>2. cands \in SUBSET Peers /\ entry \in [Peers -> EntryType]
    BY DEF TypeOK
  <2> HIDE DEF cands
  <2>3. \A q \in Peers : /\ running'[q] >= running[q] /\ running'[q] \in Nat
                         /\ entry'[q].in_flight => entry[q].in_flight \/ running'[q] > 0
    BY <2>1, <2>2, SpawnShape
  <2> QED BY <1>0, <2>3 DEF InFlightHasTask
<1>9. ASSUME NEW p \in Peers, NEW ok \in BOOLEAN, SyncEnds(p, ok)
      PROVE  InFlightHasTask'
  <2>1. \A q \in Peers \ {p} : running'[q] = running[q] /\ entry'[q] = entry[q]
    BY <1>9 DEF SyncEnds, TypeOK
  <2>2. ~entry'[p].in_flight
    BY <1>9 DEF SyncEnds, TypeOK, EntryType, Blank
  <2> QED BY <2>1, <2>2 DEF InFlightHasTask
<1>10. CASE Expire
  BY <1>10 DEF Expire, InFlightHasTask
<1>11. CASE UNCHANGED vars
  BY <1>11 DEF vars, InFlightHasTask
<1> QED BY <1>1, <1>2, <1>3, <1>4, <1>5, <1>6, <1>7, <1>8, <1>9, <1>10, <1>11,
           NextSteps DEF Steps

\* No peer is ever locked out: an entry marked in flight has a sync running
\* that will clear the mark (spawn_sync_with_peer), whatever the limiter
\* refuses and however often the peers file is reloaded meanwhile.
THEOREM NoPeerLockedOut == Spec => []InFlightHasTask
<1>1. Init => InFlightHasTask
  BY DEF Init, InFlightHasTask, NoPeers, Blank
<1> QED BY <1>1, TypeCorrect, FlightStep, PTL DEF Spec

-----------------------------------------------------------------------------
(***************************************************************************)
(* The mtime as a cache tag.  CacheCoherent alone is not inductive: a new  *)
(* tag must differ from the remembered one, so no tag is newer than the    *)
(* number of changes; the tag of a missing file stands for no pins at all; *)
(* and what was loaded at startup is still what the file holds.            *)
(***************************************************************************)
CacheInv ==
    /\ file.mtime <= edits /\ seen <= edits
    /\ file.mtime = 0 => file = NoFile
    /\ phase = "loading" => file.ok /\ loaded = file.pins
    /\ phase = "up" /\ seen = 0 => known = {}
    /\ CacheCoherent

\* After a reload the cache is coherent with a file that can be read.
LEMMA ReloadCoheres ==
    ASSUME TypeOK, CacheInv, phase = "up"
    PROVE  /\ Reloaded.seen <= edits
           /\ Reloaded.seen = 0 => Reloaded.known = {}
           /\ file.ok => Reloaded.known = file.pins
<1>1. CASE file.mtime # 0 /\ (file.mtime = seen \/ ~file.ok)
  <2>1. Reloaded = [known |-> known, entry |-> entry, seen |-> seen]
    BY <1>1 DEF Reloaded
  <2> QED BY <1>1, <2>1 DEF CacheInv, CacheCoherent
<1>2. CASE ~(file.mtime # 0 /\ (file.mtime = seen \/ ~file.ok))
  <2>1. Reloaded = [known |-> file.pins, entry |-> Rest(file.pins, entry),
                    seen |-> file.mtime]
    BY <1>2 DEF Reloaded
  <2> QED BY <2>1 DEF CacheInv, NoFile
<1> QED BY <1>1, <1>2

LEMMA CacheStep ==
    ASSUME ~StartupEdits
    PROVE  TypeOK /\ CacheInv /\ [Next]_vars => CacheInv'
<1> SUFFICES ASSUME TypeOK, CacheInv, [Next]_vars PROVE CacheInv'
  OBVIOUS
<1> HIDE DEF FileChange
<1>0. edits \in Nat /\ seen \in Nat /\ file.mtime \in Nat
  BY DEF TypeOK
<1>1. CASE FileChange
  <2>1. PICK f \in [pins : SUBSET Peers, mtime : {0, edits + 1}, ok : BOOLEAN] :
            (f.mtime = 0 => f = NoFile) /\ ReplaceFile(f)
    BY <1>1 DEF FileChange
  <2>2. /\ file' = f /\ edits' = edits + 1 /\ phase # "loading"
        /\ UNCHANGED <<phase, loaded, known, seen>>
    BY <2>1 DEF ReplaceFile
  <2>3. f.mtime = 0 \/ f.mtime = edits + 1
    OBVIOUS
  <2> QED BY <1>0, <2>1, <2>2, <2>3 DEF CacheInv, CacheCoherent, NoFile
<1>2. CASE Load
  BY <1>2 DEF Load, CacheInv, CacheCoherent
<1>3. CASE EnterLoop
  BY <1>3 DEF EnterLoop, CacheInv, CacheCoherent, NoFile
<1>4. CASE Stop
  BY <1>0, <1>4 DEF Stop, CacheInv, CacheCoherent
<1>5. ASSUME phase = "up", UNCHANGED <<file, phase, edits, loaded>>,
             known' = Reloaded.known, seen' = Reloaded.seen
      PROVE  CacheInv'
  BY <1>5, ReloadCoheres DEF CacheInv, CacheCoherent
<1>6. ASSUME UNCHANGED <<file, phase, edits, loaded, known, seen>>
      PROVE  CacheInv'
  BY <1>6 DEF CacheInv, CacheCoherent
<1>7. ASSUME NEW p \in Peers, HandleInbound(p) \/ HandleDiscovered(p) \/ HandleExpired(p)
      PROVE  CacheInv'
  BY <1>5, <1>7 DEF HandleInbound, HandleDiscovered, HandleExpired
<1>8. CASE HandleTick \/ Expire \/ UNCHANGED vars
  BY <1>6, <1>8 DEF HandleTick, Expire, vars
<1>9. ASSUME NEW p \in Peers, NEW ok \in BOOLEAN, SyncEnds(p, ok)
      PROVE  CacheInv'
  BY <1>6, <1>9 DEF SyncEnds
<1> QED BY <1>1, <1>2, <1>3, <1>4, <1>7, <1>8, <1>9, NextSteps DEF Steps

LEMMA CacheInvariant ==
    ASSUME ~StartupEdits
    PROVE  Spec => [](TypeOK /\ CacheInv)
<1>1. Init => TypeOK /\ CacheInv
  BY PeerDaemonAssumption
  DEF Init, CacheInv, CacheCoherent, TypeOK, NoFile, NoPeers, NoSyncs, Blank, EntryType,
      Limiter!Init
<1>2. TypeOK /\ CacheInv /\ [Next]_vars => (TypeOK /\ CacheInv)'
  BY TypeStep, CacheStep
<1> QED BY <1>1, <1>2, PTL DEF Spec

\* Whenever the remembered mtime is the file's, the pins in memory are the
\* pins on disk (reload_peers_if_changed), unless the file was changed while
\* the daemon was starting.
THEOREM CacheIsCoherent ==
    ASSUME ~StartupEdits
    PROVE  Spec => []CacheCoherent
<1>1. CacheInv => CacheCoherent
  BY DEF CacheInv
<1> QED BY <1>1, CacheInvariant, PTL

\* handle_inbound hands history only to peers the readable file pins at that
\* moment: a revoked peer is refused from its next request on.
THEOREM RevokedPeersNotServed ==
    ASSUME ~StartupEdits
    PROVE  Spec => ServesOnlyPaired
<1> DEFINE Honest == \A p \in Peers : <<"serve", p>> \in did' /\ file.ok => p \in file.pins
<1>1. ASSUME TypeOK, CacheInv, [Next]_vars PROVE [Honest]_vars
  <2>1. ASSUME NEW q \in Peers, HandleInbound(q) PROVE Honest
    <3>1. \A p \in Peers : <<"serve", p>> \in did' => p = q /\ q \in Reloaded.known
      BY <2>1 DEF HandleInbound
    <3>2. phase = "up" /\ (file.ok => Reloaded.known = file.pins)
      BY <1>1, <2>1, ReloadCoheres DEF HandleInbound
    <3> QED BY <3>1, <3>2
  <2>2. ASSUME NEW q \in Peers, HandleDiscovered(q) \/ HandleExpired(q) PROVE Honest
    BY <2>2 DEF HandleDiscovered, HandleExpired, Spawn
  <2>3. CASE HandleTick
    BY <2>3 DEF HandleTick, Spawn
  <2>4. CASE FileChange \/ Load \/ EnterLoop \/ Stop \/ Expire
    BY <2>4 DEF FileChange, ReplaceFile, Load, EnterLoop, Stop, Expire
  <2>5. ASSUME NEW q \in Peers, NEW ok \in BOOLEAN, SyncEnds(q, ok) PROVE Honest
    BY <2>5 DEF SyncEnds
  <2> HIDE DEF Honest
  <2>6. CASE Next
    BY <1>1, <2>1, <2>2, <2>3, <2>4, <2>5, <2>6, NextSteps DEF Steps
  <2> QED BY <1>1, <2>6
<1> QED BY <1>1, CacheInvariant, PTL DEF Spec, ServesOnlyPaired
=============================================================================
