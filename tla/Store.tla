------------------------------- MODULE Store -------------------------------
(***************************************************************************)
(* The password store as its commands see it: bypass-core's Store over     *)
(* StorageFs and Git2Vcs, with the bulk writers on top of it (restore,     *)
(* import, edit).                                                          *)
(*                                                                         *)
(* A command checks its arguments, then performs file operations one by    *)
(* one, then stages its paths and commits.  Each of these is a step here,  *)
(* and a command may die or fail between any two of them; nothing is ever  *)
(* rolled back.  Shredding is two steps: a file is overwritten in place    *)
(* and then unlinked; a write is one, because it ends in a rename.         *)
(*                                                                         *)
(* A file is a path (a sequence of names) with a content: an entry holds   *)
(* a secret encrypted to some keys, a .gpg-id file holds key ids.  The     *)
(* `.gpg` suffix of an entry's file is left out.                           *)
(***************************************************************************)
EXTENDS Naturals, Sequences, SequencesExt, FiniteSets, Functions

CONSTANTS
    Procs,            \* processes that run commands
    Entries,          \* paths of entries
    GpgIdChoices,     \* recipient lists a user may write into a .gpg-id, as sets
    Suffixed(_, _),   \* Suffixed(e, n): the path of e with "-n" appended
    Commands,         \* names of the commands that are run
    Rekeying,         \* FALSE: a .gpg-id changes only while there are no entries
    MaxSecrets,       \* bound on the secrets users type in
    MaxBatch,         \* bound on the entries of an imported file
    MaxFaults         \* bound on commands that die or fail half-way, and on git
                      \* operations left unfinished, together

\* The path of a file, and of one that is not about recipients.
IsPath(f) == f \in Seq(STRING) /\ f # <<>>
IsBlobPath(f) == IsPath(f) /\ Last(f) # ".gpg-id"

ASSUME StoreAssumption ==
    /\ IsFiniteSet(Entries)
    /\ \A e \in Entries : IsBlobPath(e) /\ e # <<".gitattributes">>
    /\ \A e \in Entries, n \in 2..MaxBatch : IsBlobPath(Suffixed(e, n))
    /\ Commands \subseteq STRING
    /\ Rekeying \in BOOLEAN
    /\ MaxSecrets \in Nat /\ MaxBatch \in Nat
    /\ MaxFaults \in Nat

VARIABLES
    work,         \* the files below the store root
    repo,         \* is there a .git?
    index,        \* the git index
    head,         \* <<>> while the branch is unborn, else <<tree of HEAD>>
    unfinished,   \* unfinished_state: "none", "merge" or "bisect"
    proc,         \* proc[p]: the command p runs
    bundle,       \* the newest backup: the secrets of its entries
    made,         \* number of secrets typed in so far
    dirt,         \* history: entries some command changed and did not commit
    faults        \* number of faults so far

vars == <<work, repo, index, head, unfinished, proc, bundle, made, dirt, faults>>

Idle == [pc |-> "idle"]
AllIdle == \A p \in Procs : proc[p] = Idle

GpgId(dir) == Append(dir, ".gpg-id")
Attributes == <<".gitattributes">>
Cipher(n, keys) == [secret |-> n, keys |-> keys]
Garbage == Cipher(0, {})

NoFiles == [f \in {} |-> Garbage]
With(files, f, content) ==
    [g \in DOMAIN files \cup {f} |-> IF g = f THEN content ELSE files[g]]
Without(files, f) == Restrict(files, DOMAIN files \ {f})
EntriesOf(files) == Entries \cap DOMAIN files
Tip == IF head = <<>> THEN NoFiles ELSE head[1]

\* resolve_recipients: the .gpg-id in the nearest enclosing directory that has
\* one; an empty list is an error, not a reason to look further up.
Enclosing(e) == {SubSeq(e, 1, n) : n \in 0..(Len(e) - 1)}

Scope(e) ==
    LET dirs == {d \in Enclosing(e) : GpgId(d) \in DOMAIN work}
        nearest == {d \in dirs : \A c \in dirs : Len(c) <= Len(d)}
    IN  UNION {work[GpgId(d)].ids : d \in nearest}

Init ==
    /\ work = NoFiles /\ index = NoFiles /\ head = <<>>
    /\ repo = FALSE
    /\ unfinished = "none"
    /\ proc = [p \in Procs |-> Idle]
    /\ bundle = NoFiles
    /\ made = 0
    /\ dirt = {}
    /\ faults = 0

-----------------------------------------------------------------------------
(* File operations a command is made of *)

ToWrite(f, content) == [op |-> "write", path |-> f, content |-> content]
ToSeal(e, n) == [op |-> "encrypt", path |-> e, secret |-> n, shred |-> FALSE]
ToReplace(e, n) == [op |-> "encrypt", path |-> e, secret |-> n, shred |-> TRUE]
ToRemove(f) == [op |-> "remove", path |-> f]
ToUnlink(f) == [op |-> "unlink", path |-> f]
ToGitInit == [op |-> "git_init"]

\* Start command `name` with its operations; `target` are the entries the user
\* asked it to delete or to overwrite.
Begin(p, name, todo, paths, target) ==
    /\ proc[p] = Idle
    /\ name \in Commands
    /\ proc' = [proc EXCEPT ![p] = [pc |-> "files", name |-> name, todo |-> todo,
                                    paths |-> paths, target |-> target]]

MayRekey == AllIdle /\ (Rekeying \/ EntriesOf(work) = {})

Unchanged == UNCHANGED <<work, repo, index, head, unfinished, bundle, dirt, faults>>

-----------------------------------------------------------------------------
(* Commands, up to their first change of a file *)

\* bypass init: refuse an existing .gpg-id unless forced, then Store::init with
\* install_gitattributes.
StartInit(p, ids) ==
    LET attrs == IF Attributes \in DOMAIN work
                 THEN <<>> ELSE <<ToWrite(Attributes, [rule |-> TRUE])>>
    IN
    /\ ids # {}
    /\ MayRekey
    /\ Begin(p, "init",
             <<ToWrite(GpgId(<<>>), [ids |-> ids])>> \o attrs \o <<ToGitInit>>,
             {GpgId(<<>>)} \cup {attrs[i].path : i \in DOMAIN attrs}, {})
    /\ UNCHANGED made
    /\ Unchanged

\* insert and generate.
StartInsert(p, e, force) ==
    /\ force \/ e \notin DOMAIN work
    /\ made < MaxSecrets
    /\ made' = made + 1
    /\ Begin(p, "insert", <<ToSeal(e, made + 1)>>, {e}, IF force THEN {e} ELSE {})
    /\ Unchanged

StartRemove(p, e) ==
    /\ e \in DOMAIN work
    /\ Begin(p, "remove", <<ToRemove(e)>>, {e}, {e})
    /\ UNCHANGED made
    /\ Unchanged

StartRemoveRecursive(p, dir) ==
    LET below == {e \in EntriesOf(work) : IsStrictPrefix(dir, e)}
        order == SetToSeq(below)
        todo == [i \in DOMAIN order |-> ToRemove(order[i])]
    IN
    /\ below # {}
    /\ Begin(p, "remove_recursive", todo, below, below)
    /\ UNCHANGED made
    /\ Unchanged

\* transfer_blob: the content that copy and rename write at `to`: the same
\* bytes if both paths have the same recipients, else encrypted anew.
CanTransfer(from, to, force) ==
    /\ force \/ to \notin DOMAIN work
    /\ from \in DOMAIN work
    /\ Scope(from) # {} /\ Scope(to) # {}
    /\ Scope(from) = Scope(to) \/ work[from] # Garbage

\* Faulty variant: the bytes are always copied.
TransferredAsIs(from, to) == work[from]

Transferred(from, to) ==
    IF Scope(from) = Scope(to) THEN work[from] ELSE Cipher(work[from].secret, Scope(to))

StartCopy(p, from, to, force) ==
    /\ CanTransfer(from, to, force)
    /\ Begin(p, "copy", <<ToWrite(to, Transferred(from, to))>>, {to},
             IF force THEN {to} ELSE {})
    /\ UNCHANGED made
    /\ Unchanged

\* Faulty variant: the source is removed before the destination is written.
RenameRemovesFirst(p, from, to, force) ==
    /\ from # to
    /\ CanTransfer(from, to, force)
    /\ Begin(p, "rename", <<ToRemove(from), ToWrite(to, Transferred(from, to))>>,
             {from, to}, IF force THEN {to} ELSE {})
    /\ UNCHANGED made
    /\ Unchanged

StartRename(p, from, to, force) ==
    /\ from # to
    /\ CanTransfer(from, to, force)
    /\ Begin(p, "rename", <<ToWrite(to, Transferred(from, to)), ToRemove(from)>>,
             {from, to}, IF force THEN {to} ELSE {})
    /\ UNCHANGED made
    /\ Unchanged

\* bypass edit: decrypt (a new entry is empty), and wait for the editor.
StartEdit(p, e) ==
    /\ proc[p] = Idle
    /\ "edit" \in Commands
    /\ e \in DOMAIN work => work[e] # Garbage
    /\ proc' = [proc EXCEPT ![p] = [pc |-> "editing", name |-> "edit", todo |-> <<>>,
                                    paths |-> {e}, target |-> {e}]]
    /\ UNCHANGED made
    /\ Unchanged

\* The editor is left: without changes or with an error nothing happens, else the
\* entry is inserted anew.
LeaveEditor(p) ==
    /\ proc[p].pc = "editing"
    /\ \/ proc' = [proc EXCEPT ![p] = Idle] /\ UNCHANGED made
       \/ /\ made < MaxSecrets
          /\ made' = made + 1
          /\ \E e \in proc[p].paths :
                proc' = [proc EXCEPT ![p] =
                    [pc |-> "files", name |-> @.name, todo |-> <<ToSeal(e, made + 1)>>,
                     paths |-> @.paths, target |-> @.target]]
    /\ Unchanged

\* bypass backup: decrypt every entry; one that does not decrypt fails it, and so
\* does a store without recipients of its own.
Backup(p) ==
    /\ proc[p] = Idle
    /\ "backup" \in Commands
    /\ EntriesOf(work) # {}
    /\ GpgId(<<>>) \in DOMAIN work /\ work[GpgId(<<>>)].ids # {}
    /\ \A e \in EntriesOf(work) : work[e] # Garbage
    /\ bundle' = [e \in EntriesOf(work) |-> work[e].secret]
    /\ UNCHANGED <<work, repo, index, head, unfinished, proc, made, dirt, faults>>

\* bypass restore: into a store without entries, or --in-place unless git is in
\* the middle of a merge.  store_has_dirty_git_state does not know of a bisect.
StartRestore(p, in_place) ==
    LET order == SetToSeq(DOMAIN bundle)
        todo == [i \in DOMAIN order |-> ToReplace(order[i], bundle[order[i]])]
    IN
    /\ GpgId(<<>>) \in DOMAIN work
    /\ IF in_place THEN unfinished # "merge" ELSE EntriesOf(work) = {}
    /\ DOMAIN bundle # {}
    /\ Begin(p, "restore", todo, DOMAIN bundle, IF in_place THEN DOMAIN bundle ELSE {})
    /\ UNCHANGED made
    /\ Unchanged

\* import::prepare, second pass: the n-th entry of a batch that wants the same
\* path gets the suffix -n.
Disambiguated(batch) ==
    [i \in DOMAIN batch |->
        LET n == Cardinality({j \in 1..i : batch[j] = batch[i]})
        IN  IF n = 1 THEN batch[i] ELSE Suffixed(batch[i], n)]

\* bypass import of entries that want the paths of `batch`; refused as a whole
\* when one of them is taken in the store.
StartImport(p, batch) ==
    LET at == Disambiguated(batch)
        todo == [i \in DOMAIN batch |-> ToReplace(at[i], made + i)]
    IN
    /\ batch # <<>>
    /\ Range(at) \cap DOMAIN work = {}
    /\ made + Len(batch) <= MaxSecrets
    /\ made' = made + Len(batch)
    /\ Begin(p, "import", todo, Range(at), {})
    /\ Unchanged

-----------------------------------------------------------------------------
(* The file operations *)

End(p) == proc' = [proc EXCEPT ![p] = Idle]

\* p stops where it is: what it has changed stays, and is in no commit.
Fail(p) ==
    LET changed == {e \in proc[p].paths \cap Entries :
            IF e \in DOMAIN work
            THEN e \notin DOMAIN Tip \/ Tip[e] # work[e]
            ELSE e \in DOMAIN Tip}
    IN  End(p) /\ dirt' = dirt \cup changed

\* The next operation of p is done; `more` comes before the rest.
Proceed(p, more) ==
    proc' = [proc EXCEPT ![p] = [pc |-> "files", name |-> @.name,
                                 todo |-> more \o Tail(@.todo),
                                 paths |-> @.paths, target |-> @.target]]

AtOp(p, op) == proc[p].pc = "files" /\ proc[p].todo # <<>> /\ Head(proc[p].todo).op = op

\* StorageFs::write.
WriteFile(p) ==
    LET o == Head(proc[p].todo) IN
    /\ AtOp(p, "write")
    /\ work' = With(work, o.path, o.content)
    /\ Proceed(p, <<>>)
    /\ UNCHANGED <<repo, index, head, unfinished, bundle, made, dirt, faults>>

\* Faulty variant: a restore takes an entry that is there for one it has done.
EncryptUnlessThere(p) ==
    LET o == Head(proc[p].todo)
        write == ToWrite(o.path, Cipher(o.secret, Scope(o.path)))
    IN
    /\ AtOp(p, "encrypt")
    /\ Proceed(p, IF o.shred /\ o.path \in DOMAIN work THEN <<>> ELSE <<write>>)
    /\ UNCHANGED <<work, repo, index, head, unfinished, bundle, made, dirt, faults>>

\* The head of insert and insert_no_commit: resolve_recipients and encrypt; then
\* insert_no_commit removes what is there, and both write.
EncryptEntry(p) ==
    LET o == Head(proc[p].todo)
        write == ToWrite(o.path, Cipher(o.secret, Scope(o.path)))
    IN
    /\ AtOp(p, "encrypt")
    /\ IF Scope(o.path) = {}
       THEN Fail(p)
       ELSE /\ Proceed(p, IF o.shred THEN <<ToRemove(o.path), write>> ELSE <<write>>)
            /\ UNCHANGED dirt
    /\ UNCHANGED <<work, repo, index, head, unfinished, bundle, made, faults>>

\* StorageFs::remove: nothing to do for a missing file; overwrite_in_place.
ShredFile(p) ==
    LET o == Head(proc[p].todo) IN
    /\ AtOp(p, "remove")
    /\ IF o.path \in DOMAIN work
       THEN work' = With(work, o.path, Garbage) /\ Proceed(p, <<ToUnlink(o.path)>>)
       ELSE Proceed(p, <<>>) /\ UNCHANGED work
    /\ UNCHANGED <<repo, index, head, unfinished, bundle, made, dirt, faults>>

\* overwrite_then_unlink, second half.
UnlinkFile(p) ==
    LET o == Head(proc[p].todo) IN
    /\ AtOp(p, "unlink")
    /\ o.path \in DOMAIN work
    /\ work' = Without(work, o.path)
    /\ Proceed(p, <<>>)
    /\ UNCHANGED <<repo, index, head, unfinished, bundle, made, dirt, faults>>

\* Git2Vcs::init.
CreateRepo(p) ==
    /\ AtOp(p, "git_init")
    /\ repo' = TRUE
    /\ Proceed(p, <<>>)
    /\ UNCHANGED <<work, index, head, unfinished, bundle, made, dirt, faults>>

-----------------------------------------------------------------------------
(* Git2Vcs::commit *)

\* Faulty variant: the test for a .git is missing.
OpenRepoAnyway(p) ==
    /\ proc[p].pc = "files" /\ proc[p].todo = <<>>
    /\ IF unfinished = "none"
       THEN /\ proc' = [proc EXCEPT ![p] =
                  [pc |-> "staging", name |-> @.name, paths |-> @.paths,
                   target |-> @.target, index |-> index]]
            /\ UNCHANGED dirt
       ELSE Fail(p)
    /\ UNCHANGED <<work, repo, index, head, unfinished, bundle, made, faults>>

\* Without a .git the command is done; in the middle of another git operation
\* it fails with its files changed; else it reads the index.
OpenRepo(p) ==
    /\ proc[p].pc = "files" /\ proc[p].todo = <<>>
    /\ IF repo /\ unfinished = "none"
       THEN /\ proc' = [proc EXCEPT ![p] =
                  [pc |-> "staging", name |-> @.name, paths |-> @.paths,
                   target |-> @.target, index |-> index]]
            /\ UNCHANGED dirt
       ELSE Fail(p)
    /\ UNCHANGED <<work, repo, index, head, unfinished, bundle, made, faults>>

\* Faulty variant: only files that exist are staged.
StagedExisting(p) ==
    LET there == proc[p].paths \cap DOMAIN work
    IN  [f \in there \cup DOMAIN proc[p].index |->
            IF f \in there THEN work[f] ELSE proc[p].index[f]]

\* add_path for the files that exist, remove_path for the others.
Staged(p) ==
    LET there == proc[p].paths \cap DOMAIN work
        kept == DOMAIN proc[p].index \ proc[p].paths
    IN  [f \in there \cup kept |-> IF f \in there THEN work[f] ELSE proc[p].index[f]]

\* Stage the command's paths, write the tree and the index.
StagePaths(p) ==
    /\ proc[p].pc = "staging"
    /\ index' = Staged(p)
    /\ proc' = [proc EXCEPT ![p] = [pc |-> "committing", name |-> @.name, paths |-> @.paths,
                                    target |-> @.target, tree |-> index']]
    /\ UNCHANGED <<work, repo, head, unfinished, bundle, made, dirt, faults>>

Committed(p) == IF head # <<>> /\ Tip = proc[p].tree THEN head ELSE <<proc[p].tree>>

\* Commit the tree on the HEAD of this moment, unless it changes nothing.
CommitTree(p) ==
    /\ proc[p].pc = "committing"
    /\ head' = Committed(p)
    /\ dirt' = dirt \ proc[p].paths
    /\ End(p)
    /\ UNCHANGED <<work, repo, index, unfinished, bundle, made, faults>>

-----------------------------------------------------------------------------
(* Failures and other hands *)

\* p is killed, or its next step fails: a full disk, a locked index, a damaged
\* bundle, gpg refusing a key.  Whatever is done stays done.
Abort(p) ==
    /\ proc[p].pc \in {"files", "staging", "committing"}
    /\ faults < MaxFaults
    /\ faults' = faults + 1
    /\ Fail(p)
    /\ UNCHANGED <<work, repo, index, head, unfinished, bundle, made>>

\* The user writes a .gpg-id by hand, for the store or one of its directories.
PlaceGpgId(e, ids) ==
    /\ MayRekey
    /\ \E dir \in Enclosing(e) :
        /\ GpgId(dir) \notin DOMAIN work
        /\ work' = With(work, GpgId(dir), [ids |-> ids])
    /\ UNCHANGED <<repo, index, head, unfinished, proc, bundle, made, dirt, faults>>

\* The user starts a git operation that stops half-way, and ends it.
StartGitOp(kind) ==
    /\ repo /\ unfinished = "none"
    /\ faults < MaxFaults
    /\ faults' = faults + 1
    /\ unfinished' = kind
    /\ UNCHANGED <<work, repo, index, head, proc, bundle, made, dirt>>

EndGitOp ==
    /\ unfinished # "none"
    /\ unfinished' = "none"
    /\ UNCHANGED <<work, repo, index, head, proc, bundle, made, dirt, faults>>

Start(p) ==
    \/ \E ids \in GpgIdChoices : StartInit(p, ids)
    \/ \E e \in Entries, force \in BOOLEAN : StartInsert(p, e, force)
    \/ \E e \in Entries : StartRemove(p, e) \/ StartEdit(p, e)
    \/ \E e \in Entries : \E dir \in Enclosing(e) \ {<<>>} : StartRemoveRecursive(p, dir)
    \/ \E from, to \in Entries, force \in BOOLEAN :
          StartCopy(p, from, to, force) \/ StartRename(p, from, to, force)
    \/ Backup(p)
    \/ \E in_place \in BOOLEAN : StartRestore(p, in_place)
    \/ \E batch \in BoundedSeq(Entries, MaxBatch) : StartImport(p, batch)

Run(p) ==
    \/ WriteFile(p) \/ EncryptEntry(p) \/ ShredFile(p) \/ UnlinkFile(p) \/ CreateRepo(p)
    \/ LeaveEditor(p) \/ OpenRepo(p) \/ StagePaths(p) \/ CommitTree(p)

Next ==
    \/ \E p \in Procs : Start(p) \/ Run(p) \/ Abort(p)
    \/ \E e \in Entries, ids \in GpgIdChoices : PlaceGpgId(e, ids)
    \/ \E kind \in {"merge", "bisect"} : StartGitOp(kind)
    \/ EndGitOp

Spec == Init /\ [][Next]_vars

-----------------------------------------------------------------------------
AllKeys == UNION GpgIdChoices
Blobs == [secret : 0..MaxSecrets, keys : SUBSET AllKeys]
AreFiles(files) == \A e \in EntriesOf(files) : files[e] \in Blobs

\* Shapes; work tree, index and HEAD hold nothing but what commands encrypted
\* or shredded, and a store that is no repository has no index and no HEAD.
TypeOK ==
    /\ AreFiles(work) /\ AreFiles(index) /\ AreFiles(Tip)
    /\ Len(head) <= 1
    /\ ~repo => head = <<>> /\ DOMAIN index = {}
    /\ unfinished \in {"none", "merge", "bisect"}
    /\ \A p \in Procs : proc[p].pc \in {"idle", "editing", "files", "staging", "committing"}
    /\ DOMAIN bundle \subseteq Entries
    /\ dirt \subseteq Entries

\* The secrets that can be read in the store.
Readable(files) == {files[e].secret : e \in EntriesOf(files)} \ {0}

\* Store::rename writes before it removes, and copies or re-encrypts what it
\* read: a secret becomes unreadable only by a command the user told to delete
\* or to overwrite that very entry, wherever other commands were cut off.
LostOnPurpose ==
    [][\A n \in Readable(work) \ Readable(work') :
          \E p \in Procs : proc[p] # Idle /\ \E e \in proc[p].target \cap DOMAIN work :
              work[e].secret = n]_vars

\* "Every mutation auto-commits" (ADR-0004): between commands, an entry differs
\* from HEAD only if a command that wrote it failed, or there was no repository.
OnlyFailuresLeaveDirt ==
    AllIdle /\ repo =>
        \A e \in Entries \ dirt :
            /\ e \in DOMAIN work <=> e \in DOMAIN Tip
            /\ e \in DOMAIN work => work[e] = Tip[e]

\* pass semantics of .gpg-id: as long as no .gpg-id changes under existing
\* entries, what copies, moves, edits and restores leave is encrypted to the
\* recipients of the directory it is in, and to nobody else.
RecipientsInScope ==
    \A e \in EntriesOf(work) : work[e] = Garbage \/ work[e].keys = Scope(e)

\* "Lets each operation own its own commit" (store.rs): a commit changes no
\* entry but those its command wrote, and what failed commands left staged.
EachOwnsItsCommit ==
    [][\A p \in Procs :
          proc[p].pc = "committing" /\ proc'[p] = Idle /\ head' # head
          => \A e \in Entries \ (proc[p].paths \cup dirt) :
                e \in DOMAIN Tip => e \in DOMAIN Tip' /\ Tip'[e] = Tip[e]]_vars

\* ADR-0026, "either the new commit lands or it doesn't": a restore that ends
\* without a commit leaves its entries as HEAD has them.
RestoreLandsOrNot ==
    [][\A p \in Procs :
          proc[p] # Idle /\ proc[p].name = "restore" /\ proc'[p] = Idle /\ dirt' # dirt
          => \A e \in proc[p].paths \cap DOMAIN Tip :
                e \in DOMAIN work' /\ work'[e] = Tip[e]]_vars

\* "Re-encrypt store for <new-key>" (restore.rs): when a restore has committed,
\* HEAD holds the backup's secrets under the recipients in scope now, whatever
\* keys the store and earlier, interrupted restores had used.
RotationSeals ==
    [][\A p \in Procs :
          proc[p].pc = "committing" /\ proc[p].name = "restore" /\ proc'[p] = Idle
             /\ faults' = faults
          => \A e \in proc[p].paths :
                e \in DOMAIN Tip' /\ Tip'[e] = Cipher(bundle[e], Scope(e))]_vars

\* ADR-0027, "suffix -2, -3, ... until unique": import::prepare gives every
\* entry of a file a path of its own, so none of them overwrites another.
ImportPathsUnique ==
    [][\A p \in Procs :
          proc[p] = Idle /\ proc'[p] # Idle /\ proc'[p].name = "import"
          => Cardinality(proc'[p].paths) = made' - made]_vars
=============================================================================
