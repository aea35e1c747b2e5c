# bypass: a verification development

bypass is a password store in the manner of `pass`: every entry is a
GPG-encrypted file in a git repository. It adds peer-to-peer synchronisation
of that repository between the devices of one user (PIN pairing, mDNS
discovery, a background daemon, automatic merging), a browser extension and an
Android client. This directory holds TLA+ models of its stateful parts, the TLC
configurations that check them on small instances, and TLAPS proofs of what
holds for all of them. Line references are to `src/crates/...` unless a longer
path is given; `PROJECT.json` maps every definition to its lines.

## 1. The system

### Components

| Component | State | Operations | What makes it correct |
|---|---|---|---|
| Store (`bypass-core/src/store.rs`) | entries below a root, `.gpg-id` files, `.gitattributes` | init, insert, show, list, remove, copy, rename, remove_recursive | what a command reports as done is on disk and committed; a re-encrypting copy or rename never loses the plaintext; recipients are those of the nearest `.gpg-id` |
| Storage (`bypass-cli/src/storage_fs.rs`) | files | read, write (temporary file, rename), remove (overwrite, unlink), walk | readers see the old or the new content; no path escapes the root |
| Vcs (`bypass-cli/src/vcs_git2.rs`) | HEAD, index, worktree, state of unfinished git operations | init, commit, log | a commit holds exactly the files of the command that made it; an empty change makes no commit; nothing is committed in the middle of a rebase |
| Peer sync (`bypass-cli/src/sync/syncing.rs`, `merge_driver.rs`, `wire.rs`) | the repository, and what a sync in progress has read of it | sync_with_peer, serve, ingest, audit_incoming, reconcile (fast-forward, tie-break, rebase) | no committed work is lost; devices converge; unencrypted files never spread; an older version of an entry never replaces a newer one made with knowledge of it |
| Sync daemon (`bypass-cli/src/sync/daemon.rs`) | cache of `peers.toml` with its mtime, per-peer runtime state, the set of spawned syncs | startup, inbound request, discovery, expiry, watcher tick, end of a sync, shutdown | the cache follows the file; no peer is locked out by a stale in-flight mark; a removed peer is neither served nor dialled |
| Attempt limiter (`bypass-cli/src/sync/ratelimit.rs`) | recent attempts per peer | check_and_record | at most MAX_ATTEMPTS per window; refused attempts do not prolong a ban; the retry hint is honest |
| Peers file and identity (`peers.rs`, `identity.rs`) | `peers.toml`, key and signature files | load, save, upsert, remove, clear, rotate | two commands do not undo each other's changes; a rotation leaves key and pins consistent |
| Pairing (`pairing.rs`) | SPAKE2 session, PIN, what each side has persisted | show side, enter side | either both or neither side trusts the other; a PIN buys one guess and expires |
| Transport (`transport.rs`, `libp2p_transport.rs`) | pending dials, pending requests, channels to the caller | dial, request, next_request, reply, timeouts | every request gets one answer, an error or a timeout, and the answer to that request |
| Watcher (`watcher.rs`) | notify queue, debounce timer | watch, pump | every change of the store is followed by a tick |
| Status socket (`socket.rs`) | socket file, listener | bind_or_refuse_existing, serve, query, cleanup | at most one daemon owns the socket; a stale file never keeps a new daemon out |
| Clipboard (`clipboard.rs`) | system clipboard, one child process per copy | copy, serve, restore | a password is off the clipboard after the timeout, and what was there before is back |
| Git sync (`main.rs` sync, `audit.rs`) | local and remote branches | pull, audit, push | nothing unencrypted is pushed |
| Restore, backup, bundle, import, edit | store and bundle or temporary files | one command each | a failing command leaves the store as it was, or says what it did |
| gpg calls (`crypto_gpg.rs`, `backup.rs`, `restore.rs`, `bundle.rs`) | pipes, threads, the child | encrypt, decrypt, backup stream, restore stream | a command returns whichever end fails; a restore that reports success has the whole bundle |
| Importers (`bypass-core/src/import*`) | the item on its way | parse, slug, serialise, report | what an export holds is found again or reported as lost, as far as the code goes (section 5); a slug is a path |
| Browser (`messaging_host.rs`, `extension/src/popup.ts`, `native.ts`) | pending promises, debounced search, list shown | request, serve, receive, disconnect | every promise is settled; the list shown is that of the text in the field |
| Android bridge (`bypass-ffi/src/lib.rs`, `OpenKeychainCrypto.kt`, `CryptoUiBridge.kt`, `MainActivity.kt`) | the store's mutex, the queue of dialogs, latches | execute, launch, answer, time out, recreate | a call gets the answer given in its own dialog; no call holds the store for good |
| Command line, otp codes, generate | none of their own | | see "Not modelled" |

### Interactions

- *Commands and syncs share the repository without a lock.* `bypass insert`
  runs in its own process: it writes the file (store.rs:185-209), stages it and
  writes the tree (vcs_git2.rs:98-124), then commits on whatever HEAD is by then
  (125-144). The daemon rewrites the same repository from another process,
  with git2 and with the `git` binary (`reset --hard`, `rebase`).
- *A sync straddles an await.* `sync_with_peer` reads HEAD (syncing.rs:84),
  awaits the peer's answer (92-95), and reconciles against the HEAD it read
  before (139-145).
- *A fetch is a pull.* The dialler sends `WantPackFrom`, the listener answers
  with its head and a pack (`serve`, 159-192); only the dialler changes its
  repository. `peer_head_seen` is always `None`, so a pack holds the whole
  history.
- *The daemon and the commands share `peers.toml`*, the commands by
  load-change-save and rename (main.rs:835-845, 968-995, 692-709), the daemon
  by comparing the mtime it remembers (daemon.rs:202-249).
- *Inside the daemon* a select loop (daemon.rs:176-195) runs the handlers one
  at a time on a current-thread runtime (main.rs:889), and spawns one task per
  outbound sync. A handler, and the part of a sync after its last await, is
  atomic towards the daemon's other tasks, not towards other processes.
- *The limiter is shared*: inbound requests of a peer and outbound attempts at
  it are charged to one budget (daemon.rs:287-303, 400-415).
- *A pairing is a transport of its own*, with the identity of the device: a
  daemon that already trusts that identity discovers it and sends it a sync
  request, which the pairing takes for a message of its partner.
- *The transport is two halves*: handles that the daemon or a pairing holds, and
  a background task that owns the swarm; they exchange commands and inbound
  requests over channels (libp2p_transport.rs:80-160, 271-420).
- *The watcher feeds the daemon* through a channel of one tick
  (watcher.rs:68-99), the *status socket* is bound before the daemon's loop starts
  and removed after it ended (main.rs:863-904).

### Hard behaviours

Interleaving of commands and syncs in one repository; stale reads across an
await, an mtime check and a cache; three and more devices that rebase the same
commits independently; failing exchanges; peers revoked while the daemon starts
or is about to dial; two processes that load, change and save one file;
processes that overlap on one clipboard or socket; debounce under a steady
stream of events; a lost last message of a pairing; answers, failures and drops
that race for one request; two ends of a pipe that wait for one another; a queue
of dialogs and a user who is late. `PROJECT.json` lists the hazards line by line.

## 2. Modules

| Module | Models | Checked by |
|---|---|---|
| `AttemptBudget` | what the limiter promises: an abstract budget, no clock | used by `PeerDaemon`; implemented by `RateLimit` |
| `RateLimit` | `sync/ratelimit.rs` | `MCLocal`, part `limiter` |
| `RateLimitProofs` | proofs: budget, refusals, hints; the refinement | tlapm |
| `GitHistory` | linear git histories, patch-ids, `git rebase` with the merge driver | through `PeerSync` and `GitPush` |
| `GitHistoryProofs` | lemmas about rebases, by induction over the commits of a branch | tlapm |
| `PeerSync` | `sync/syncing.rs`, with the commands that edit the store meanwhile | `MCPeerSync` with `sync_*.cfg` |
| `PeerSyncProofs` | proofs: histories, kept edits, audited plaintext | tlapm |
| `Store` | `bypass-core/src/store.rs`, `gpg_id.rs`, over `storage_fs.rs` and `vcs_git2.rs`; `restore.rs`, `backup.rs`, `edit.rs`, the import plan of `import.rs` | `MCStore` with `store.cfg` |
| `StoreProofs` | proofs: types; "every mutation auto-commits"; recipients; losses; rotation | tlapm |
| `PeerDaemon` | `sync/daemon.rs`, with the changes of `peers.toml` | `peer_daemon.cfg`, `daemon_revoked.cfg` |
| `PeerDaemonProofs` | proofs | tlapm |
| `RequestReply` | what a transport promises (the trait of `sync/transport.rs`) | implemented by `Transport` |
| `Transport` | `sync/libp2p_transport.rs` | `MCTransport` with `transport.cfg` |
| `TransportProofs` | proofs: the tables fit together; the refinement | tlapm |
| `Pairing` | `sync/pairing.rs`, `identity.rs`, `peers.rs`, and the commands around them in `main.rs` | `MCPairing` with `pairing.cfg` |
| `StatusSocket` | `sync/socket.rs` | `MCLocal`, part `socket` |
| `Watcher` | `sync/watcher.rs` | `MCLocal`, part `watcher` |
| `Clipboard` | `clipboard.rs` | `MCLocal`, part `clipboard` |
| `GitPush` | `bypass sync` against a remote (`main.rs`, `audit.rs`), on `GitHistory` | `MCLocal`, part `push` |
| `NativeHost` | `messaging_host.rs`, `extension/src/popup.ts`, `native.ts` | `MCLocal`, part `host` |
| `AndroidBridge` | `bypass-ffi/src/lib.rs`, the bridge to OpenKeychain of the Android app | `MCLocal`, part `bridge` |
| `ForeignImport` | `bypass-core/src/import.rs`, `import/*.rs`, what `entry.rs` and `otp.rs` read | `MCLocal`, part `import`; `import_otp.cfg` |
| `GpgStreams` | `crypto_gpg.rs`, the streams of `backup.rs`, `restore.rs`, `bundle.rs` | `MCLocal`, part `gpg` |
| `PairingProofs` | proofs: trust only by PIN, and mutual; reports and pins | tlapm |
| `LocalProofs` | proofs: socket, watcher, clipboard, git remote, Android bridge, browser popup, gpg streams, importers | tlapm |

`MCLocal` puts nine parts that share no state into one specification. Its
variable `part` is chosen at the start and never changes; the actions of the
other parts are disabled, so each behaviour is one of the part alone, and the
states of the run are the sum, not the product, of the parts' states. The
fairness of a part that does not run is satisfied because its actions stay
disabled.

### RateLimit and AttemptBudget

`buckets[p]` is the code's bucket of instants, `now` what its clock returns.
`CheckAndRecord` is `check_and_record`: it drops the attempts older than
`Cutoff` from the front, then `Accept`s and records or `Reject`s with a hint.
`Cutoff` keeps the code's fallback for an instant that cannot be represented
(`checked_sub` yielding `None`), which would empty the bucket; the assumption
`ClockAssumption` says why it does not happen (an `Instant` on Unix is a signed
64-bit count, so one window before the start of the process exists).
`accepted`, `refused` and `hint` are history variables.

`AttemptBudget` has no clock: a number of used attempts per peer, `Admit` and
`Refuse` that depend on it, and `Expire`, which may give back any part of any
budget. `RateLimit` implements it under `used[p] = the attempts of p that count
now` (property `ImplementsBudget`); `PeerDaemon` uses its `Admit`, `Refuse` and
`Expire` in place of the clock, so the daemon model covers every timing the
limiter can show.

### GitHistory

A history is a sequence of commits, root first; a commit is a snapshot of the
entries and the device that wrote it. A commit id hashes the commit with its
ancestors, so histories stand for ids: equal heads are equal histories and
ancestry is the prefix order. That covers what bypass can produce, since it
never makes a merge commit. Two devices that replay the same patch at different
times would get different ids in git and do here if the committer or the
parents differ; the same device rebuilding the same commit on the same parent
within one second is the only case identified here that git tells apart.

An entry's content is the number of the edit that wrote it: every encryption
gives a new ciphertext. `Rebase` follows git for binary files: commits whose
patch-id (pair of blob ids) is already upstream are skipped, the others are
replayed one by one with a three-way merge per entry, where the driver of
`merge_driver.rs` copies `%B`, the replayed commit's version; the driver is
only called when both sides have the file, so a removal against an edit is a
conflict, and the rebase is aborted (syncing.rs:385-399). A commit that becomes
empty is dropped.

### PeerSync

Per device: `head`, `index`, `work`; `cmd[d]`, the edit command running on it;
`sess[d][p]`, its sync with `p`. `WriteEntry`, `StageEntry` and `CommitEntry`
are the three steps of `insert` and `remove` between which other processes can
act; `EditAtOnce` is a command nothing interferes with, or the user's own commit
of an unencrypted file (`"plain"`). `StartSync` is `sync_with_peer` up to its
await, `Serve` the peer's answer, `SyncFails` every way the exchange fails, and
`FinishSync` all that follows the await: the unborn peer, the audit, and
`Reconcile` with its five cases. `AuditIncoming` reads the paths that the incoming
commits have `Touched`, at the peer's tip, except those in `Quoted`: `git log
--name-only` puts a name with other than plain ASCII characters in quotes, `git
show` does not know the quoted name, and its failure is taken for a deletion
(syncing.rs:419-448). A device may have a sync with each peer, and
be asked, at the same time. `Editing` says how finely edits and syncs
interleave: `"stepwise"` is the code; `"atomic"` and `"between"` restrict it, to
show that a behaviour does *not* need a half-done edit, or holds once edits and
syncs are kept apart.

### Store

Files are a function from paths (sequences of names) to contents: `work` below
the store root, `index` in git's index, `head` the tree of HEAD. An entry's
content is a secret (a number; every text a user types is new) and the keys it
is encrypted to; `Garbage` is what overwriting leaves. `proc[p]` is the command
process `p` runs: the file operations still `todo`, the `paths` it will commit,
and the `target` entries the user asked it to delete or overwrite.

A `Start...` action is a command up to its first change of a file, with the
guards and early returns of the code; then `EncryptEntry`, `WriteFile`,
`ShredFile`, `UnlinkFile` and `CreateRepo` do its operations one at a time, and
`OpenRepo`, `StagePaths` and `CommitTree` are `Git2Vcs::commit`: check for an
unfinished git operation and read the index; stage and write the tree and the
index; commit on the HEAD of that moment unless the tree is HEAD's. `Abort` may
end a command before any of these steps. The bulk commands differ only in their
operations: a restore or an import is a list of `ToReplace`
(`insert_no_commit`: encrypt, shred what is there, write) and one commit.
`LeaveEditor` is the end of `bypass edit`, any number of other steps after its
start. The user may write a `.gpg-id` by hand (`PlaceGpgId`) and leave a merge or
a bisect unfinished (`StartGitOp`): the two states stand for those that
`restore.rs:166-179` looks for and the one it does not know. `dirt` is a history
variable: the entries that failed commands changed.

### PeerDaemon

`file` is `peers.toml` (pins, mtime, does it parse), `known` and `entry` the
daemon's `peers` map, `seen` its `peers_toml_mtime`, `running[p]` the spawned
syncs with `p`. Startup is two steps, because the pins are loaded by
`sync_daemon` (main.rs:868) and the mtime is read by `run` (daemon.rs:169) after
the transport, the watcher and the socket are up. `Reloaded` is
`reload_peers_if_changed` with `apply_peers`. `did` is a history variable: what
the last step did towards peers.

### RequestReply and Transport

`RequestReply` is the trait's contract: a request ends at most once, is answered
at most once, and ends with the answer made for it. `Transport` is the swarm
task of each device (`cmds`, `pendingOut`, `pendingIn`, `nextId`) with the
handles around it: `Ask`, `Cancel`, `NextRequest`, `SendReply`, `ForgetReply` and
`DropTransport` are what the code that uses it does; `TakeRequest`,
`TakeRespond`, `TakeDial`, `TakeShutdown` are `run_swarm`'s commands;
`RequestArrives`, `ResponseArrives`, `OutboundFailure` its events. The library's
streams are external and break at any moment (`StreamBreaks`); `Exit` ends a
process. An answer is identified by the request it was made for, so a mix-up is
visible as `got[r] # r`. `StreamsBroken` leaves answers that are on the network:
they may still arrive at a caller whose partner is gone.

### Pairing

A process is one run of `sync pair`, `sync peer rm` or `sync identity rotate`. It
loads the identity or makes one (`LoadIdentity`, `WriteKey`), exchanges messages
(`ShowPin`, `SendSpake`, `TakeSpake`, `TakeAck`, `TakeIdentity`,
`TakeIdentityAck`), and loads, changes and saves `peers.toml` as two steps
(`LoadPeers`, `SavePeers`), between which it may die or others may run. SPAKE2 is
its promise: `SessionKey(pin, e, q)` is equal on both sides exactly if the PIN and
the two messages are. `SyncRequest` is the daemon of a peer that meets the
pairing's transport. `expect` is what the users were told.

### StatusSocket, Watcher, Clipboard

`StatusSocket`: the path leads to an inode of a daemon's run or nowhere;
`bind_or_refuse_existing` is `Look`, `Connect`, `Unlink`, `Bind`, `Listen`, the last
two because `bind` and `listen` are two system calls. `Watcher`: an event names
the places it touches; `PumpEvent` and `PumpTimer` are the arms of the pump, `tick`
the channel of one, `unseen` a history variable. `Clipboard`: a helper's
`Snapshot`, `SetPassword`, `InstallHandlers`, `Wake`, `CheckOurs` and `Restore`, and
a signal or a kill at any step; `wanted` is what would be on the clipboard had no
password ever been copied.

### GitPush

`SyncStart`, `Pull`, `WriteRule`, `CommitRule`, `Audit`, `Push` are the steps of one
`bypass sync`; any may fail, and other commands and other machines come between
them. `plain` is the set of contents that are not ciphertext. `Pull` refuses a
dirty tree or an untracked file in the way, uses `GitHistory!Rebase`, and leaves a
conflict to the user; without the `*.gpg binary` rule git does not call the merge
driver, and every double change is a conflict.

### NativeHost and AndroidBridge

`NativeHost`: `Type`, `Search` and `Copy` are the popup's handlers, `Request`,
`Receive` and `Disconnected` the promise client, `Serve` one turn of the host.
The field takes text from the moment the popup opens, the listener is attached
only when the first list is shown (popup.ts:139, 169): what is typed before is
`unheard`, no search is made for it, and it stays in the field next to the full
list until the next input.
`AndroidBridge`: a call of the repository locks the store, runs rounds of
`executeApi` on its thread, and blocks while a dialog is open; `emitted`,
`waiting` and `dialogs` are the flow, the activity's queue and what the user sees.

### ForeignImport and GpgStreams

`ForeignImport` carries one item of any of three formats through its parser, the
shared mapping and the writer, and separately any short name through
`slug_path`. A value is a token of a kind: blank, plain, padded with whitespace,
with a carriage return, of several lines; for names also such as slug to
nothing, to dots or to several segments. What the code does to a value (trim,
join, strip) changes its kind. A key is a word and a spelling: the importer's own
one, another mixture of cases, or a longer name with the word before a colon;
`Lookup` matches them as `Entry::parse` and `Entry::field` do. An item
whose path is empty is `refused`, one with a segment of dots ends in `panicked`.
`GpgStreams`: chunks move through two bounded pipes;
`Feed`, `Take` and their ends are the command's or its thread's steps,
`GpgReads`, `GpgWrites`, `GpgDies` the child's.

## 3. Runs

| Run | Instance | Shows |
|---|---|---|
| `peer_sync` | 2 devices, one of which starts with `git init` only; 2 entries, the name of one being such that git quotes it; 3 edits of any kind; one failing exchange; stepwise edits | no single sync brings an unencrypted file whose name git does not quote to the tip, over every interleaving; a reconcile that read a fresh head never drops content |
| `peer_sync_settles` | 2 devices, one of which starts empty; 1 entry; 3 edits of any kind in the middle of syncs; one failing exchange; fair | the tie-breaker brings both devices to one history, unless git cannot resolve a conflict or uncommitted changes are left |
| `peer_sync_lost_commit` (violation) | 2 devices, 2 inserts | an insert that returned success leaves the history: finding 1 |
| `peer_sync_plaintext` (violation) | 3 devices, all paired, 3 edits | an unencrypted file becomes another device's entry over a chain of audited syncs: finding 5 |
| `peer_sync_old_wins` (violation) | 3 devices in a chain, 3 inserts | a superseded password comes back: finding 2 |
| `peer_daemon` | 2 peers, budget 2, 3 changes of the file, 2 starts, at most 2 tasks per peer, fair | cache tag, no lock-out, revocation for inbound requests, every dial ends |
| `peer_daemon_revoked` (violation) | the same, no changes while the daemon starts | a watcher tick dials a peer that was removed while the loop runs: finding 3 |
| `store` | 1 process, all commands; 2 entries, one in a directory; 2 key lists, for the store or the directory; 2 secrets; imports of 1 item; 1 fault | nothing becomes unreadable that no command was told to delete or overwrite; what finished commands leave is committed; every entry is encrypted for its directory; a restore that commits holds the backup under the recipients of the moment, also after an interrupted one |
| `transport` | 2 devices; one asks twice, the other dials; fair | tables, queues and waiting callers fit together; the task implements `RequestReply`; every call ends |
| `pairing` | 2 devices of one name, 3 and 2 commands, one at a time on each device; any process may die, any request fail | trust comes only from a PIN a user carried over; the file says what users were told; pins go with the key |
| `local` | the nine parts, each by itself | limiter: budget, refusals, hints, `AttemptBudget`; socket: the running daemon is reachable; watcher: no change is forgotten, each reaches the daemon; clipboard: as if nothing had been copied; push: published tips are clean and carry the rule; browser: list and promises; Android: answers and calls; import: what is found or reported, and slugs; gpg: commands return, restores are whole |
| `import_otp` (violation) | one item, one custom key | an imported one-time password secret is not found: finding 4 |

Bounds, and why they are enough for what is asked:

- `MaxTime`: two full windows after the start, so an attempt can be made at, one
  before and one after the end of the window of an earlier one.
- `MaxEdits = 3`: divergence needs an edit on each side, a divergence within
  which one edit knows another needs three. With a second entry it also covers
  edits that do not conflict, and with one of its two names in `Quoted` a sync with a
  file that the audit reads and one that it does not. `MaxFaults = 1`: a failed exchange leaves no state
  on the dialler, so a second one meets the same states. `MaxLen` bounds the
  histories that start a sync; with two devices it is never reached in the
  passing runs, so it removes nothing there. With three devices histories can
  grow for ever (the same edits are replayed on top of each other), which is why
  `peer_sync_old_wins` needs the bound and does not check deadlock.
- `MaxFileEdits = 3`: pair, remove and pair again, which is what it takes for a
  task of an earlier entry to end under a later one. `MaxStarts = 2`: one restart.
  `MaxSyncs = 2`: two tasks for one peer, which only removing and adding it again
  can produce.
- Limiter: `MaxTime` is two windows after the start, see above. Socket: two
  daemons, three starts of each, so that one can crash, leave its file, and
  another take it over. Watcher: four events, three of them waiting at once, and
  a debounce of two units. Clipboard: two helpers one after the other and two
  copies by hand, so that what a helper saved can be older than the clipboard.
- Push: one entry and `.gitattributes`, two contents, any number of syncs. Browser:
  two texts, four requests, of which one can be late, one failed and one current.
  Android: two calls, two rounds, one recreated activity. Import: names of up to
  four characters out of those the code tells apart, items with up to three columns
  or strings of values of every kind, and custom fields named like two lines the body
  has of its own (`Words` is `login` and `url-2`: the first before the
  custom fields in the body, the other behind them), in either spelling and with a
  colon. Pipes of one chunk, entries of up to
  three, a backup of two members, two commands.
- Transport: two requests in one direction, which two answers could be swapped
  between, and a dial the other way. Pairing: three commands on one device and two on the
  other allow pair, rotate and pair again, a wrong PIN and a right one, a removal
  between two pairings; equal names exercise `find_by_name`.
- `Store`: two entries are what copy and rename need, in directories that may
  have different recipients; a second secret is what an overwrite needs; one
  fault is one command cut off anywhere, followed by every command. The passing
  runs have one process: two already break the promise every other property of
  the commits rests on (section 5). `MaxBatch = 1` in `store` leaves
  out the collision of section 5. `Rekeying = FALSE` lets a `.gpg-id` change
  only while there are no entries, which is what `RecipientsInScope` supposes;
  what a restore does under changed recipients is proved for either value
  (`RestoreReencrypts`).
- Deadlock is not checked for the daemon: the model stops when its starts and
  file changes are used up and the daemon is off.

Some properties hold only under a condition that a constant of the module
names. The condition is the environment in which the code keeps its promise;
with the other value TLC finds the property violated:

| Module | Condition | Without it |
|---|---|---|
| `PeerDaemon` | `~StartupEdits` | `ServesOnlyPaired`: a peer removed while the daemon starts is served |
| `PeerSync` | two devices, edits between syncs | `SupersededStaysSuperseded`: finding 2 with three devices; with two, a commit of the old index in the middle of a sync |
| `PeerSync` | two devices | `NoForeignPlaintext`: finding 5 |
| `PeerSync` | entries outside `Quoted` | `SyncBringsNoPlaintext`: one sync brings an unencrypted file in whose name git quotes, the audit takes it for deleted |
| `PeerSync` | no `StaleFinish` | `ReconcileKeepsEdits`: finding 1 |
| `PeerSync` | not `Blocked` | `Convergence`: an entry removed on one device and edited on the other aborts every rebase |
| `Store` | `~Rekeying` | `RecipientsInScope`: entries keep the recipients of before until they are written again |
| `Pairing` | `Serial` | `ReportsHold`, `PinsUnderCurrentKey`: two commands that load, change and save undo one another's change, or mix an old identity with new pins |
| `StatusSocket` | `~Racing` | `OneReachableDaemon`: two starters both find a stale file; a daemon that stops unlinks its successor's |
| `Watcher` | `~Overflows` | `NoChangeForgotten`: the rescan event that reports a queue overflow is not taken for a change |
| `Clipboard` | `~Overlapping` | `AsIfNeverCopied`: the second helper saves the first one's password and puts it back |
| `GitPush` | `~Interfering`, `Quoted = {}` | `TipPublishedClean`: the audit reads the work tree, not the commits, and no names that git quotes |
| `NativeHost` | `Wanted`: text typed when the popup listens | `ListMatchesField`: earlier text stays next to the full list |
| `ForeignImport` | parts with a place of their own, no segment of dots | `LossesReported`, `SlugsArePaths`: see section 5 |
| `AndroidBridge` | `calm`: no call timed out, no activity recreated | `AnswersReachTheirCall`: a late answer goes to the next call |
| `NativeHost` | `~MayBeLarge` | `PromisesSettle`: a reply over the limit is answered under id 0 |
| `GpgStreams` | `CallSize <= 2 * Capacity + 1` | `GpgCommandsReturn`: `run` writes all of stdin before it reads, and both ends wait |

A hazard that such a condition excludes is not covered by the property:
`PROJECT.json` lists it without one and says so in its note.

Every passing property has a mutant of the code (the operators marked "Faulty
variant") that makes TLC find it violated.

### Fairness

`PeerSync`: a command that started runs to its end (it is a process that takes
no lock); each paired device keeps starting syncs, is answered, and finishes.
The code starts syncs on discovery and on watcher ticks, so this assumes daemons
that stay up and keep being triggered; without it nothing converges, and the
property says no more than that the tie-breaker is right. `SyncFails` is never
forced, and bounded. `PeerDaemon`: a spawned sync ends. `dial` and `request`
both carry timeouts (libp2p_transport.rs:223-256), the rest of the task has no
await, and the runtime polls its tasks. No handler and no command is assumed to
run.

`Transport`: the task takes its commands and events, and the library ends every
stream by an answer, a failure or its timeout (the default of its request-response behaviour); that
the other side answers is not assumed. `Watcher`: pump, timer and the daemon's
arm run; changes are not forced. `NativeHost`: the host loop and the browser's event loop run.
`AndroidBridge`: threads run, their timeouts expire, and a thread that waits for
the mutex gets it at last (strong fairness: `Mutex` lets others pass, but every
holder lets go); the user is not assumed to answer. `GpgStreams`: threads and gpg
run when they can.

## 4. Proofs

TLC checks small instances; the theorems below hold for every value of the
constants that satisfies the named assumptions, and for any number of steps.

`GitHistoryProofs` are lemmas about `GitHistory`. A
rebase is a recursive function over the commits of a branch, for the provers a
`CHOOSE`: that it exists, and what it computes, is shown by induction over the
natural numbers (`SetInduction`, stated with sets because no prover here
instantiates a theorem about an arbitrary predicate). The lemmas say what a rebase
does to the shape of a history (typed commits, none empty), that it continues the
upstream, and that each content of the branch is in the result or was upstream
already.

`PeerSyncProofs` (from `PeerSyncAssumption`), for any devices, pairs, entries, ways of
interleaving and bounds:

- `TypeCorrect`: `Spec => []TypeOK`. The invariant `IInv` speaks also of the histories
  that syncs under way have read.
- `NothingCommittedIsLost`: `Spec => ReconcileKeepsEdits`. A finish whose head moved
  meanwhile is excepted (`StaleFinish`): that is finding 1.
- `NoSyncBringsPlaintext`: `Spec => SyncBringsNoPlaintext`, for the entries outside
  `Quoted`, any set of entries. The audit reads paths at the peer's tip; by the rebase lemmas an entry of the result is that of the tip or was in
  the device's own history. Over several syncs it does not follow: finding 5.

`RateLimitProofs` (from `LimitsAssumption` and `ClockAssumption`):

- `TypeCorrect`: `Spec => []TypeOK`.
- `AdmissionsWithinBudget`: `Spec => []WindowBudget`, for any peers, budget,
  window and clock. `WindowBudget` speaks of all admissions ever, the state only
  holds recent ones, so it is not inductive. The invariant adds that every
  bucket is a suffix of the admissions of its peer, that admissions are in
  order and not from the future, and that every admission which is no longer in
  the bucket is more than a window old. The clock assumption is
  needed: with the fallback cutoff the last part fails.
- `RefusedHadSpent`: `Spec => []RefusalsJustified`, and `HintIsHonest`:
  `Spec => HintNotEarly`. At a refusal the bucket is full, and it is the end of the
  admissions; the hint is when its first attempt leaves the window.
- `WindowImplementsBudget`: `Spec => ImplementsBudget`. The abstract count is the number
  of admissions within the window; pruning changes none of them, admitting adds
  one, and the clock can only take some away.

`PeerDaemonProofs` (from `PeerDaemonAssumption`):

- `TypeCorrect`, and `NoPeerLockedOut`: `Spec => []InFlightHasTask`, inductive
  as it stands together with the types. Nothing is assumed of the environment:
  the file may change at any moment.
- `CacheIsCoherent` and `RevokedPeersNotServed`, both under `~StartupEdits`,
  which is necessary: with `StartupEdits = TRUE` in `peer_daemon.cfg` TLC finds
  `ServesOnlyPaired` violated by a peer that is removed while the daemon starts
  (its pins are read at main.rs:868, the mtime only at daemon.rs:169-171, so the
  old pins get the new tag). Coherence of the cache is strengthened by: mtimes are never reused (`file.mtime <= edits`, and a
  file with mtime 0 is the missing one), what the daemon remembers is not newer
  than the file's last change, and while the daemon starts the pins it has
  loaded are those of the file if that parses. `RevokedPeersNotServed` follows
  from coherence: an inbound request reloads, and after a reload the pins are
  the file's unless it does not parse.

`StoreProofs` (from `StoreAssumption`: finitely many
entries, none of them a `.gpg-id` or the `.gitattributes` of the store):

- `TypeCorrect`: `Spec => []TypeOK`, for any number of processes. What a command
  is about to do is part of the state, so the invariant `TypeInv` speaks of it:
  each operation still to come writes, at its path, what belongs there (a
  secret in an entry, key ids in a `.gpg-id`), and only at paths the command will
  commit; an index being staged and a tree being committed hold nothing else.
- `CommandsCommit`: `Spec => []OnlyFailuresLeaveDirt`, for one process. The
  invariant `Clean` follows a change on its way to HEAD: clean entries differ
  from HEAD in the work tree only inside the paths of the running command and in
  the index only inside those of a command that has staged them; the index it
  read is still the index, and what it commits is what it staged. The last two
  are what a second process breaks: with two processes that init and insert TLC
  finds `OnlyFailuresLeaveDirt` violated, too.
- `EntriesAreInScope`: `Spec => []RecipientsInScope`, under `~Rekeying`, for any number
  of processes unless they run `init`: the command finds the store empty and writes
  its `.gpg-id` later, when another process may have put an entry there. The
  invariant `SealInv` says that every operation to come seals for the scope of its
  path, and that this scope does not change while there are entries.
- `SecretsAreLostOnPurpose`: `Spec => LostOnPurpose`, for one process and `OwnPaths` (an
  import has no two items that get one path). `HarmlessInv` says of each operation
  to come why it destroys nothing unasked: its entry is a target, or does not
  exist by then, or is `Garbage`, or has its secret written elsewhere by an earlier
  operation of the same command (`MovesAway`, what makes a rename safe).
- `RestoreReencrypts`: `Spec => RotationSeals`, for one process, `Rekeying` or not.
  `RotationInv` says that the operations to come write what is wanted at each entry
  of the bundle (`Planned`), and that what they do not write is there
  already (`Covered`), in the work tree, the index and the tree in turn.

`LocalProofs` (from the assumptions of the modules it is about):

- `SocketTypeCorrect`: `SocketSpec => []SocketTypeOK`, with races too.
- `OneReachable`: under `~Racing`, `OneReachableDaemon`. The invariant adds that a daemon
  which starts is alone in doing so, that whoever listens, runs or cleans up
  owns the path, and that nobody unlinks, binds or listens while another is up;
  the last is what `Connect` establishes, and what a race breaks.
- `NothingForgotten`: under `~Overflows`, `NoChangeForgotten`, inductive with the
  types and with what ties `owed` to the timer.
- `ClipboardAsBefore`: under `~Overlapping`, `AsIfNeverCopied`. The invariant says at
  each stage of a helper what makes it undoable: what it remembers is what
  should be there, and the clipboard is that or its own password.
- `PushTypeCorrect`, and under `~Interfering` `RuleIsPublished`: `RulePublished`, and, if
  also `Quoted = {}`, `PublishedIsAudited`: `TipPublishedClean`. The invariant has three
  parts: the shape of the histories, that `upstream` is part of the remote's branch
  and, after the pull, of the local one (`Ancestry`), and that the work tree
  is that of the tip whenever a step relies on it (`Undisturbed`).
- `AnswersReach` (from `AndroidBridgeAssumption`): `AnswersReachTheirCall`. While no call has timed out
  and the activity lives, at most one call waits, the one that holds the mutex,
  and its request is in exactly one place: emitted, or in the queue and on the
  screen.
- `ListIsCurrent` (from `NativeHostAssumption`): `ListMatchesField`, also with replies that are too
  large and a host that dies at any moment. The property speaks of a quiet
  popup and of the text it has heard of (`Wanted`), not of what was typed
  before it listened; the invariant of a busy one: ids under way are in order, each message
  carries what was asked under its id, and of the lists that are still awaited
  the latest is that of the text in the field. `HostTypeCorrect`: `HostSpec => []HostTypeOK`.
- `GpgTypeCorrect`: `GpgSpec => []GpgTypeOK`, and `RestoreIsWhole`: `GpgSpec => RestoresWhole`, for
  any number of members and any pipes. The invariant `GpgIInv` is about the chunks on
  their way: unless an end has failed, those taken, those in the pipes, in gpg's
  hand and at the source are the bundle, in this order (`Stream`); that gpg ends only on
  an empty input, and its reader on an empty output or behind the bundle's end,
  makes the taken ones all of it.
- `NothingLostInSilence`: `ImportSpec => []LossesReported`, for any `Words`. What an item says
  in a place that nothing else of it claims (the first line, the notes, a word
  of its own) is at that place in the body, whatever the custom fields are called and
  the notes look like; joined lines, nameless KeePass strings, linked fields and items
  left out are reported. The invariant says that what the state holds at
  each stage is what the operators of the earlier ones make of the item. The
  rest is about those operators: what a parser takes over of an item, which lines the
  body has and in which order, and that the first line under a word is the
  one looked for, since every other line of that word would be another claim
  to its place, or lies in the notes, behind it. What the claim leaves out,
  the code loses in silence: see section 5.
- `SlugsStaySlugs`: `ImportSpec => []SlugsArePaths`, for names of any length. The
  segments that are left are not empty, and a dash stands in them only between two
  other characters (`SlugShape`); a segment like that is left alone by either pass
  (`MappedAgain`, `TidyStays`), and segments joined with slashes are split where they
  were joined (`JoinedSplit`, by induction over the segments).
- `PartsKeepApart`: `LocalSpec` implies the specification of each of its nine parts, so
  what is proved of a part holds in the composition that the run explores.
  `LocalTypes`: `LocalSpec => []LocalTypeOK`, the types of all of them.

The importers filter and split sequences. `Pick` and `Segments` are recursive functions
over positions, `FlattenSeq` of the community modules is one too. As with a rebase, that
such a function exists and what it computes is shown by induction over the natural
numbers (`RecursionExists`, `PickUnfolds`, `SegmentsUnfold`, `FlattenUnfolds`); `PickShape` says of
every filter that its result lies at increasing positions of the sequence, those and
only those that were asked for.

`TransportProofs` (from `TransportAssumption`), for any devices, requests and
dials, with every fault of the model:

- `TransportInvHolds`: `Spec => []TransportInv`. It is strengthened by: a command fits
  what it is about (`CommandsFit`), a request is queued once and before its stream
  (`QueuedOnce`), every inbound record or handle belongs to a request that
  has arrived (`ArrivalsOnly`), is delivered once (`DeliveredOnce`), and an
  answer on a stream or in a queue is the one made for that request (`AnswersFit`).
- `TransportImplementsRequestReply`: `Spec => ImplementsRequestReply`. Initial states map to
  initial states; every action maps to `Ask`, `Tell`, `Answer`, a `Close` of the calls it
  ends, or a stutter. `AnswersFit` is what makes `ResponseArrives` an `Answer`:
  the answer a caller gets is its own, because ids are never reused and name
  their request (`IdsNameTheirRequest`).

`PairingProofs`:

- `TrustByPin`: `Spec => []TrustInv`, for any devices and commands, also concurrent ones
  (no `Serial`). The types alone do not tell why a tag is worth anything; the
  invariant adds that a session which a showing side has is with one entering
  process (`ShowInv`), that an identity under way is that of a process which typed
  a PIN, under the tag of its own session with the receiver (`MessageInv`), that an
  answer was made from the session or identity the other side has (`EnterInv`), and
  that what a process has loaded was trusted as well, so that a save from a stale
  copy restores no one who was never paired. What a process has got it keeps
  (`Grows`), so an exchange that took place stays what it was (`ExchangeKept`).
- `ReportsAreTrue`: `Spec => []ReportsHold`, and `PinsGoWithKey`:
  `Spec => []PinsUnderCurrentKey`, both under `Serial`, which is necessary (see the
  table above). The invariant `SInv` adds that one command is active on a device, and
  what it holds at each of its stages (`InStep`): the list it has loaded is the
  file's, the identity it works under is the device's key. A command that dies
  leaves the next one to load both again.

Left to TLC:

- liveness under fairness, which these provers cannot treat: `Convergence`, `DialEnds`,
  `CallsEnd`, `ChangeReachesDaemon`, `PromisesSettle`, `BridgeCallsEnd`, `GpgCommandsReturn`;
- the violated properties of section 5, which the code does not have.

Every invariant and every action property of a run that passes is a theorem.

## 5. Findings

1. *A sync that reads HEAD before its await drops what is committed meanwhile*
   (`peer_sync_lost_commit`; syncing.rs:84, 139-145, 360-363).
2. *Old content comes back with three devices* (`peer_sync_old_wins`;
   syncing.rs:375, merge_driver.rs:91-97): in a rebase `%B` is the replayed,
   local commit, so "theirs" is not the peer's version, and the first of two
   local commits no longer has the patch-id of its rebased copy.
3. *A watcher tick dials removed peers* (`peer_daemon_revoked`; daemon.rs:338): a peer is
   discovered, `sync peer rm` removes it, and the next tick, which does not reload
   the file, spawns a sync with it. The run allows no change of the file while the daemon
   starts, so the stale pins are not those of section 3's condition `~StartupEdits`.
4. *Imported one-time passwords are not found* (`import_otp`; import.rs:317): the
   secret is written under a key, and `bypass otp` looks for a line that starts
   with `otpauth://` (otp.rs:38-45).
5. *The audit of what arrives can be passed over three devices*
   (`peer_sync_plaintext`; syncing.rs:443): it reads the touched paths at the peer's tip,
   so an unencrypted file that a later commit replaced passes; a rebase that replays
   the first commit and skips the second brings it back.

More behaviours that the models show on instances without a run of their
own, the first three with properties that are in `Store`:

- *A rotation can be left half done* (`RestoreLandsOrNot`, violated in `MCStore`
  with the commands init, insert, backup and restore, one key list, `Rekeying`,
  one fault; restore.rs:104-119):
  `restore --in-place` shreds and rewrites entry by entry while it still reads
  the bundle. Its check for an unfinished git operation (166-179) does not know
  of a bisect, which `Git2Vcs::commit` refuses (vcs_git2.rs:229).
- *An import overwrites its own entries* (`ImportPathsUnique`, with `FlatEntries`, `x` and
  `x-2`, and imports of three items; import.rs:164-189): items `x`, `x`, `x-2` get
  the paths `x`, `x-2`, `x-2`.
- *Two commands at once revert one another in HEAD* (`EachOwnsItsCommit`, with two
  processes that init and insert; vcs_git2.rs:106-142): the entry stays in the
  work tree, uncommitted, and is not in what `git push` or a peer sees.
- *A name that git quotes passes the audit of what arrives* (`SyncBringsNoPlaintext` with
  `Quoted = {}` in its quantifier, over the instance of `peer_sync`; syncing.rs:419-448).
- *An import loses more than it reports*, although ADR-0027:148 asks every importer
  to print what it drops or transforms. Characters that a path cannot have are stripped
  from names (import.rs:241), whitespace around CSV values, passwords included, is
  trimmed (csv.rs:166) where the ADR (line 122) says "verbatim", carriage returns
  are dropped (import.rs:357), Bitwarden fields without a name are left out, and of two values with
  one key, also if they differ only in case or behind a colon (entry.rs:62-86), or of
  two columns with one role, the reader sees one. `ItemParts` and the condition
  of `LossesReported` say where the line is.
- *A name of dots ends an import* (import.rs:160): `..` is left by the slugging, `RelPath::new`
  refuses it, and the `expect` panics. An item with neither name nor folder is refused
  (`UnnamedEntry`), and with it the whole batch.

Two differences between documents and code that need no run: ADR-0026 (line 102)
says that `restore --in-place` rewrites `.gpg-id` first, and `restore.rs` never
writes that file (the user runs `init --force` before it); ADR-0019:107-109 says the
daemon re-reads `peers.toml` on the next inbound request, which a change during
startup escapes (see section 4).

## 6. Abstractions

- Every change of `peers.toml` gets an mtime of its own. Two saves within the
  granularity of the file system's clock would share one; the model does not
  cover that.
- The merge driver is registered on every device. `bypass init` and
  `bypass sync` register it; the daemon by itself does not.
- A rebase is one step. A command that commits while `git rebase` runs would
  meet an unfinished state (vcs_git2.rs:222-233) or a locked index and fail.
- Audit: a file is plain or encrypted; the predicates on its bytes are not
  modelled.
- gpg decrypts whatever is not `Garbage`: the user holds every key. A write of
  a file is one step, because it ends in a rename; the temporary file a crash
  leaves behind is not an entry and is left out.
- Entries and `.gpg-id` files cannot collide (an entry's file ends in `.gpg`), and
  no entry's file is a directory of another's.
- Paired devices share the root commit, unless a device starts unborn.
- SPAKE2 and the confirmation tags are perfect; a PIN is the process that
  showed it. That `PIN_LIFETIME` (pairing.rs:56) is never enforced shows in that
  `ShowPin`'s process waits for as long as it runs.
- The network carries a request or breaks the stream; libp2p delivers no request
  twice. Discovery events pass through the transport unchanged and are taken by
  `PeerDaemon`.
- The clipboard keeps the last text it was given; a browser keeps each direction
  in order; OpenKeychain's dialogs lie on top of one another.
- `serve_status` is not a step: it reads a snapshot of the daemon's state.

## 7. Plan

Done: limiter, history exchange, daemon, store, transport, pairing with the two
files, git remote, watcher, socket, clipboard, gpg streams, importers, browser
host, Android bridge; the proofs of section 4.

Worth doing next:

1. `Fleet`: daemon, watcher and sync composed, with dropped ticks while a sync is in
   flight: under which triggers does a committed edit reach a paired device
   that stays online?
2. Smaller hazards that no module covers: an empty `peers.toml` read while it is
   absent (daemon.rs:102); `copy` after `init --force` keeps the bytes of the old recipients
   (store.rs:363); two concurrent inserts of one entry (store.rs:192); a change of the entry
   while `edit` holds the old text, which is overwritten (edit.rs:102); a plaintext file that is added and removed again
   inside one pack, which the audit of the tip does not see (syncing.rs:432); the
   number of entries a failed restore reports (restore.rs:139).

## 8. Not modelled

Argument parsing, rendering, `doctor`, and the installation of units and
manifests: sequential I/O with no state of its own. The stream of an importer
extension (`extensions.rs`). One-time password codes, password generation and what
gpg computes (numeric code or an external program; contents are opaque here). The
wire and pack encodings, and the tar layout of a bundle below its members. Symbolic links, file modes and
temporary files of the storage. Form filling in web pages, the app's own
storage layer and the screens of the Android client. The in-process transport,
which is a test double.
