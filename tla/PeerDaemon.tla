---------------------------- MODULE PeerDaemon ----------------------------
(***************************************************************************)
(* The sync daemon of one device (sync/daemon.rs): its cache of the peers  *)
(* file, the select loop that answers inbound requests, mDNS events and    *)
(* watcher ticks, and the outbound syncs it spawns; together with the      *)
(* commands and hands that change peers.toml under it.                     *)
(*                                                                         *)
(* The daemon runs on a current-thread runtime: a handler is one step, and *)
(* a spawned sync runs between handlers until it ends.  The attempt        *)
(* limiter is used through its abstract specification, AttemptBudget.      *)
(* Every change of the file gives it a modification time of its own.       *)
(***************************************************************************)
EXTENDS Naturals, FiniteSets

CONSTANTS
    Peers,         \* peer ids that may be paired, seen on the LAN, or call
    MaxAttempts,   \* MAX_ATTEMPTS
    StartupEdits,  \* TRUE: peers.toml may change while the daemon starts
    MaxFileEdits,  \* bound on the changes of peers.toml
    MaxStarts,     \* bound on daemon starts
    MaxSyncs       \* bound on the outbound syncs running at once with a peer

ASSUME PeerDaemonAssumption ==
    /\ MaxAttempts \in Nat \ {0}
    /\ StartupEdits \in BOOLEAN
    /\ MaxFileEdits \in Nat /\ MaxStarts \in Nat /\ MaxSyncs \in Nat \ {0}

VARIABLES
    file,      \* peers.toml: the pins it lists, its mtime, whether it parses
    phase,     \* "off", "loading" (file read, loop not entered), "up"
    loaded,    \* initial_peers, read by sync_daemon before the loop
    known,     \* DOMAIN of DaemonState::peers
    entry,     \* PeerEntry of every known peer; Blank for the others
    seen,      \* DaemonState::peers_toml_mtime
    used,      \* the attempt limiter
    running,   \* running[p]: outbound syncs with p that have not ended
    edits,     \* number of changes of peers.toml
    starts,    \* number of daemon starts
    did        \* what the last step did towards peers: a set of <<what, peer>>

vars == <<file, phase, loaded, known, entry, seen, used, running, edits, starts, did>>

Limiter == INSTANCE AttemptBudget

\* mtime 0 is None: the file does not exist.
NoFile == [pins |-> {}, mtime |-> 0, ok |-> TRUE]
EntryType == [addr : BOOLEAN, discovered : BOOLEAN, synced : BOOLEAN, in_flight : BOOLEAN]
Blank == [addr |-> FALSE, discovered |-> FALSE, synced |-> FALSE, in_flight |-> FALSE]
NoPeers == [p \in Peers |-> Blank]
NoSyncs == [p \in Peers |-> 0]

Init ==
    /\ file = NoFile
    /\ phase = "off"
    /\ loaded = {}
    /\ known = {} /\ entry = NoPeers
    /\ seen = 0
    /\ Limiter!Init
    /\ running = NoSyncs
    /\ edits = 0 /\ starts = 0
    /\ did = {}

-----------------------------------------------------------------------------
(* Changes of peers.toml *)

ReplaceFile(f) ==
    /\ edits < MaxFileEdits
    /\ StartupEdits \/ phase # "loading"
    /\ edits' = edits + 1
    /\ file' = f
    /\ did' = {}
    /\ UNCHANGED <<phase, loaded, known, entry, seen, used, running, starts>>

Saved(pins) == [pins |-> pins, mtime |-> edits + 1, ok |-> TRUE]

\* persist_paired, sync_peer_rm, sync_identity_rotate: load, change, save by
\* rename.  The load fails on a file that does not parse.
PairPeer(p) == file.ok /\ ReplaceFile(Saved(file.pins \cup {p}))

RemovePeer(p) == file.ok /\ p \in file.pins /\ ReplaceFile(Saved(file.pins \ {p}))

RotateIdentity == file.ok /\ ReplaceFile(Saved({}))

\* The user deletes the file, or saves it by hand with a syntax error.
DeleteFile == file.mtime # 0 /\ ReplaceFile(NoFile)

BreakFile ==
    /\ file.mtime # 0
    /\ ReplaceFile([pins |-> {}, mtime |-> edits + 1, ok |-> FALSE])

\* ... or writes it anew.
RepairFile(pins) == ~file.ok /\ ReplaceFile(Saved(pins))

-----------------------------------------------------------------------------
(* The cache *)

Rest(pins, e) == [p \in Peers |-> IF p \in pins THEN e[p] ELSE Blank]

\* Faulty variant: peers that are no longer listed are kept.
ReloadMerges ==
    IF file.mtime # 0 /\ (file.mtime = seen \/ ~file.ok)
    THEN [known |-> known, entry |-> entry, seen |-> seen]
    ELSE [known |-> known \cup file.pins, entry |-> entry, seen |-> file.mtime]

\* reload_peers_if_changed and apply_peers: what the cache is afterwards.  A
\* missing file drops every pin; an unchanged mtime or a failing load keep
\* the cache, and a failing load is tried again; peers that survive keep
\* their runtime state.
Reloaded ==
    IF file.mtime # 0 /\ (file.mtime = seen \/ ~file.ok)
    THEN [known |-> known, entry |-> entry, seen |-> seen]
    ELSE [known |-> file.pins, entry |-> Rest(file.pins, entry), seen |-> file.mtime]

-----------------------------------------------------------------------------
(* Startup and shutdown *)

\* sync_daemon: Peers::load; the transport, its listen address, the watcher and
\* the status socket come up after it.
Load ==
    /\ phase = "off"
    /\ starts < MaxStarts
    /\ file.ok
    /\ starts' = starts + 1
    /\ phase' = "loading"
    /\ loaded' = file.pins
    /\ did' = {}
    /\ UNCHANGED <<file, known, entry, seen, used, running, edits>>

\* run: stat the file for its mtime, then apply the peers loaded before.
EnterLoop ==
    /\ phase = "loading"
    /\ phase' = "up"
    /\ seen' = file.mtime
    /\ known' = loaded /\ entry' = NoPeers
    /\ used' = [p \in Peers |-> 0]
    /\ did' = {}
    /\ UNCHANGED <<file, loaded, running, edits, starts>>

\* SIGINT or SIGTERM: the loop ends and the runtime drops the spawned syncs.
Stop ==
    /\ phase = "up"
    /\ phase' = "off"
    /\ known' = {} /\ entry' = NoPeers /\ seen' = 0
    /\ running' = NoSyncs
    /\ did' = {}
    /\ UNCHANGED <<file, loaded, used, edits, starts>>

-----------------------------------------------------------------------------
(* The select loop *)

\* Faulty variant: the pinning check trusts the cache.
InboundNoReload(p) ==
    /\ phase = "up"
    /\ \/ p \notin known /\ did' = {<<"refuse", p>>} /\ UNCHANGED used
       \/ p \in known /\ Limiter!Refuse(p) /\ did' = {<<"refuse", p>>}
       \/ p \in known /\ Limiter!Admit(p) /\ did' = {<<"serve", p>>}
    /\ UNCHANGED <<file, phase, loaded, known, entry, seen, running, edits, starts>>

\* handle_inbound: reload, pinning check, rate limit, answer.
HandleInbound(p) ==
    LET r == Reloaded IN
    /\ phase = "up"
    /\ known' = r.known /\ entry' = r.entry /\ seen' = r.seen
    /\ \/ p \notin r.known /\ did' = {<<"refuse", p>>} /\ UNCHANGED used
       \/ p \in r.known /\ Limiter!Refuse(p) /\ did' = {<<"refuse", p>>}
       \/ p \in r.known /\ Limiter!Admit(p) /\ did' = {<<"serve", p>>}
    /\ UNCHANGED <<file, phase, loaded, running, edits, starts>>

\* Faulty variant: a rate-limited attempt leaves in_flight set.
SpawnKeepsFlag(cands, e) ==
    LET go == {p \in cands : used[p] < MaxAttempts} IN
    /\ \A p \in go : running[p] < MaxSyncs
    /\ used' = [p \in Peers |-> IF p \in go THEN used[p] + 1 ELSE used[p]]
    /\ running' = [p \in Peers |-> IF p \in go THEN running[p] + 1 ELSE running[p]]
    /\ entry' = [p \in Peers |-> IF p \in cands THEN [e[p] EXCEPT !.in_flight = TRUE] ELSE e[p]]
    /\ did' = {<<"dial", p>> : p \in go}

\* in_flight is set for the candidates, then spawn_sync_with_peer charges the
\* limiter for each: a rate-limited one is dropped and its flag cleared.
Spawn(cands, e) ==
    LET go == {p \in cands : used[p] < MaxAttempts} IN
    /\ \A p \in go : running[p] < MaxSyncs
    /\ used' = [p \in Peers |-> IF p \in go THEN used[p] + 1 ELSE used[p]]
    /\ running' = [p \in Peers |-> IF p \in go THEN running[p] + 1 ELSE running[p]]
    /\ entry' = [p \in Peers |-> IF p \in go THEN [e[p] EXCEPT !.in_flight = TRUE] ELSE e[p]]
    /\ did' = {<<"dial", p>> : p \in go}

\* Faulty variant: an unpaired peer gets an entry and is dialled too.
DiscoveredAnyone(p) ==
    LET r == Reloaded
        e == [r.entry EXCEPT ![p] = [@ EXCEPT !.addr = TRUE, !.discovered = TRUE]]
    IN
    /\ phase = "up"
    /\ known' = r.known /\ seen' = r.seen
    /\ Spawn(IF ~e[p].in_flight THEN {p} ELSE {}, e)
    /\ UNCHANGED <<file, phase, loaded, edits, starts>>

\* handle_discovery, Discovered: reload, note the address, dial unless a sync
\* is in flight.
HandleDiscovered(p) ==
    LET r == Reloaded
        e == [q \in Peers |-> IF q = p /\ p \in r.known
                             THEN [r.entry[q] EXCEPT !.addr = TRUE, !.discovered = TRUE]
                             ELSE r.entry[q]]
    IN
    /\ phase = "up"
    /\ known' = r.known /\ seen' = r.seen
    /\ Spawn(IF p \in r.known /\ ~e[p].in_flight THEN {p} ELSE {}, e)
    /\ UNCHANGED <<file, phase, loaded, edits, starts>>

\* handle_discovery, Expired: the address stays.
HandleExpired(p) ==
    LET r == Reloaded IN
    /\ phase = "up"
    /\ known' = r.known /\ seen' = r.seen
    /\ entry' = IF p \in r.known THEN [r.entry EXCEPT ![p].discovered = FALSE] ELSE r.entry
    /\ did' = {}
    /\ UNCHANGED <<file, phase, loaded, used, running, edits, starts>>

\* A watcher tick: collect_known_addrs, without a reload, then a sync with
\* each of them.
HandleTick ==
    /\ phase = "up"
    /\ Spawn({p \in known : entry[p].addr /\ ~entry[p].in_flight}, entry)
    /\ UNCHANGED <<file, phase, loaded, known, seen, edits, starts>>

\* Faulty variant: a failed sync leaves in_flight set.
SyncEndsOkOnly(p, ok) ==
    /\ running[p] > 0
    /\ running' = [running EXCEPT ![p] = @ - 1]
    /\ entry' = IF p \in known /\ ok
                THEN [entry EXCEPT ![p].in_flight = FALSE, ![p].synced = TRUE]
                ELSE entry
    /\ did' = {}
    /\ UNCHANGED <<file, phase, loaded, known, seen, used, edits, starts>>

\* The task of an outbound sync ends: Ok records the sync, either way the
\* entry of that peer id, if there is one now, is no longer in flight.
SyncEnds(p, ok) ==
    /\ running[p] > 0
    /\ running' = [running EXCEPT ![p] = @ - 1]
    /\ entry' = IF p \in known
                THEN [entry EXCEPT ![p].in_flight = FALSE, ![p].synced = @ \/ ok]
                ELSE entry
    /\ did' = {}
    /\ UNCHANGED <<file, phase, loaded, known, seen, used, edits, starts>>

\* Attempts of the last window run out.
Expire ==
    /\ phase = "up"
    /\ Limiter!Expire
    /\ did' = {}
    /\ UNCHANGED <<file, phase, loaded, known, entry, seen, running, edits, starts>>

Next ==
    \/ \E p \in Peers : PairPeer(p) \/ RemovePeer(p)
    \/ RotateIdentity \/ DeleteFile \/ BreakFile
    \/ \E pins \in SUBSET Peers : RepairFile(pins)
    \/ Load \/ EnterLoop \/ Stop
    \/ \E p \in Peers : HandleInbound(p) \/ HandleDiscovered(p) \/ HandleExpired(p)
    \/ HandleTick \/ Expire
    \/ \E p \in Peers, ok \in BOOLEAN : SyncEnds(p, ok)

Spec == Init /\ [][Next]_vars

\* Dialling and requesting time out, and the runtime polls its tasks.
FairSpec == Spec /\ \A p \in Peers : WF_vars(\E ok \in BOOLEAN : SyncEnds(p, ok))

-----------------------------------------------------------------------------
\* Shapes; a peer without an entry has no runtime state.
TypeOK ==
    /\ file \in [pins : SUBSET Peers, mtime : Nat, ok : BOOLEAN]
    /\ phase \in {"off", "loading", "up"}
    /\ loaded \subseteq Peers
    /\ known \subseteq Peers
    /\ entry \in [Peers -> EntryType]
    /\ \A p \in Peers \ known : entry[p] = Blank
    /\ seen \in Nat
    /\ used \in [Peers -> 0..MaxAttempts]
    /\ running \in [Peers -> Nat]
    /\ edits \in Nat /\ starts \in Nat

\* The mtime check is a sound cache tag: while the loop runs and the file has
\* the mtime the daemon remembers, the daemon's pins are the file's.  A reload
\* that fails must not leave the new tag on the old pins.
CacheCoherent ==
    phase = "up" /\ seen = file.mtime /\ file.ok => known = file.pins

\* in_flight is never left behind: as long as an entry says that a sync is
\* under way there is one, so no path through the limiter, a reload or a
\* restart locks a peer out of further syncs for good.
InFlightHasTask == \A p \in Peers : entry[p].in_flight => running[p] > 0

\* Revocation binds the responder (ADR-0019): history is handed only to peers
\* the file pins at that moment, if the file can be read.
ServesOnlyPaired ==
    [][\A p \in Peers : <<"serve", p>> \in did' /\ file.ok => p \in file.pins]_vars

\* "Future syncs with this peer will be refused" (sync_peer_rm): the daemon
\* starts no sync with a peer the file no longer pins.
DialsOnlyPaired ==
    [][\A p \in Peers : <<"dial", p>> \in did' /\ file.ok => p \in file.pins]_vars

\* Every dial ends and frees the peer for the next one.
DialEnds == \A p \in Peers : entry[p].in_flight ~> ~entry[p].in_flight
=============================================================================
