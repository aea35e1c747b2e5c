---------------------------- MODULE StoreProofs ----------------------------
(***************************************************************************)
(* Proofs about the password store, for any entries, key lists and bounds. *)
(*                                                                         *)
(* What a command is about to do is part of the state, so the invariants   *)
(* speak of it: every operation still to come writes, at its path, what    *)
(* belongs there, and only at paths that the command will commit.          *)
(*                                                                         *)
(* Four results come after the types: what finished commands have changed  *)
(* is committed; entries are encrypted for their directory; what is no     *)
(* longer readable was to go; and a restore that commits holds what its    *)
(* backup held.  Each adds to the types what it needs to know of the       *)
(* operations to come.                                                     *)
(***************************************************************************)
EXTENDS Store, FiniteSetTheorems, SequenceTheorems, TLAPS

\* The names of files; the provers do not know that a literal is a STRING.
Names == STRING \cup {".gpg-id", ".gitattributes"}
Paths == {f \in Seq(Names) : f # <<>>}
BlobPaths == {f \in Paths : Last(f) # ".gpg-id"}
Lists == [ids : SUBSET AllKeys]
Contents == Blobs \cup Lists \cup [rule : {TRUE}]

\* Content c belongs at path f: a secret in an entry, key ids in a .gpg-id.
Fits(f, c) == (f \in Entries => c \in Blobs) /\ (f \notin BlobPaths => c \in Lists)
IsTree(files) == \A f \in DOMAIN files : Fits(f, files[f])

\* The operations a command may have before it.
WriteOps == {o \in [op : {"write"}, path : Paths, content : Contents] :
                Fits(o.path, o.content)}
EncryptOps == [op : {"encrypt"}, path : BlobPaths, secret : 0..MaxSecrets, shred : BOOLEAN]
RemoveOps == [op : {"remove", "unlink"}, path : BlobPaths]
Ops == WriteOps \cup EncryptOps \cup RemoveOps \cup [op : {"git_init"}]

\* Those of a command that commits the given paths.
OpsOn(paths) == {o \in Ops : o.op = "git_init" \/ o.path \in paths}

IsCommand(r) ==
    \/ r = Idle
    \/ /\ r = [pc |-> r.pc, name |-> r.name, todo |-> r.todo,
               paths |-> r.paths, target |-> r.target]
       /\ r.pc = "files" \/ (r.pc = "editing" /\ r.paths \subseteq Entries)
       /\ r.todo \in Seq(OpsOn(r.paths))
    \/ /\ r = [pc |-> "staging", name |-> r.name, paths |-> r.paths,
               target |-> r.target, index |-> r.index]
       /\ IsTree(r.index)
    \/ /\ r = [pc |-> "committing", name |-> r.name, paths |-> r.paths,
               target |-> r.target, tree |-> r.tree]
       /\ IsTree(r.tree)

ProcOK ==
    /\ proc = [q \in Procs |-> proc[q]]
    /\ \A q \in Procs : IsCommand(proc[q])

TypeInv ==
    /\ IsTree(work) /\ IsTree(index) /\ IsTree(Tip)
    /\ head = <<>> \/ head = <<head[1]>>
    /\ ~repo => head = <<>> /\ DOMAIN index = {}
    /\ unfinished \in {"none", "merge", "bisect"}
    /\ ProcOK
    /\ \A q \in Procs : proc[q].pc \in {"staging", "committing"} => repo
    /\ DOMAIN bundle \subseteq Entries
    /\ \A e \in DOMAIN bundle : bundle[e] \in 0..MaxSecrets
    /\ made \in 0..MaxSecrets
    /\ dirt \subseteq Entries

-----------------------------------------------------------------------------
LEMMA EntriesAreBlobs == Entries \subseteq BlobPaths
BY StoreAssumption, SeqMonotonic DEF IsBlobPath, IsPath, BlobPaths, Paths, Names

\* The .gpg-id of a directory is not the file of an entry (gpg_id.rs:57-60).
LEMMA GpgIdsAreNoBlobs ==
    ASSUME NEW d \in Seq(Names)
    PROVE  GpgId(d) \in Paths /\ GpgId(d) \notin BlobPaths
<1>1. ".gpg-id" \in Names
  BY DEF Names
<1>2. /\ GpgId(d) \in Seq(Names)
      /\ Len(GpgId(d)) = Len(d) + 1
      /\ GpgId(d)[Len(d) + 1] = ".gpg-id"
  BY <1>1, AppendProperties DEF GpgId
<1>3. Len(d) \in Nat
  BY LenProperties
<1> QED BY <1>2, <1>3, EmptySeq DEF Paths, BlobPaths, Last

LEMMA EnclosingAreDirs ==
    ASSUME NEW e \in Paths, NEW d \in Enclosing(e)
    PROVE  d \in Seq(Names)
<1>1. PICK n \in 0..(Len(e) - 1) : d = SubSeq(e, 1, n)
  BY DEF Enclosing
<1>2. \A i \in 1..n : e[i] \in Names
  BY <1>1, ElementOfSeq DEF Paths
<1> QED BY <1>1, <1>2, SubSeqProperties

\* Whatever .gpg-id files there are, an entry is encrypted to keys some user
\* named (resolve_recipients).
LEMMA ScopeIsKeys ==
    ASSUME IsTree(work), NEW e \in Paths
    PROVE  Scope(e) \subseteq AllKeys
<1>1. ASSUME NEW d \in Enclosing(e), GpgId(d) \in DOMAIN work
      PROVE  work[GpgId(d)].ids \subseteq AllKeys
  BY <1>1, EnclosingAreDirs, GpgIdsAreNoBlobs DEF IsTree, Fits, Lists
<1> QED BY <1>1 DEF Scope

\* SetToSeq enumerates a finite set (Store::list).
LEMMA Enumeration ==
    ASSUME NEW S, IsFiniteSet(S)
    PROVE  /\ Cardinality(S) \in Nat
           /\ SetToSeq(S) \in [1..Cardinality(S) -> S]
<1>1. Cardinality(S) \in Nat /\ ExistsBijection(1..Cardinality(S), S)
  BY FS_CardinalityType
<1>2. \E f \in [1..Cardinality(S) -> S] : IsInjective(f)
  BY <1>1 DEF ExistsBijection, Bijection, Injection
<1> QED BY <1>1, <1>2 DEF SetToSeq

\* The files after one of them is written or deleted, and the index after paths
\* are staged (StorageFs::write, fs::remove_file, Git2Vcs::commit).
LEMMA WithFits ==
    ASSUME NEW files, IsTree(files), NEW f, NEW c, Fits(f, c)
    PROVE  IsTree(With(files, f, c))
BY DEF IsTree, With

LEMMA WithoutFits ==
    ASSUME NEW files, IsTree(files), NEW f
    PROVE  IsTree(Without(files, f))
BY DEF IsTree, Without, Restrict

LEMMA GarbageFits ==
    ASSUME NEW f \in BlobPaths
    PROVE  Fits(f, Garbage)
BY StoreAssumption DEF Fits, Garbage, Cipher, Blobs

-----------------------------------------------------------------------------
\* One process moves, the others stay.
LEMMA Moves ==
    ASSUME ProcOK, NEW p \in Procs, NEW x, IsCommand(x), proc' = [proc EXCEPT ![p] = x]
    PROVE  /\ ProcOK'
           /\ proc'[p] = x
           /\ \A q \in Procs \ {p} : proc'[q] = proc[q]
<1>1. proc' = [q \in Procs |-> IF q = p THEN x ELSE proc[q]]
  BY DEF ProcOK
<1> QED BY <1>1 DEF ProcOK

\* A command is well-formed when its operations are (the Start actions).
LEMMA BeginKeepsTypes ==
    ASSUME TypeInv, NEW p \in Procs, NEW name, NEW paths, NEW todo \in Seq(OpsOn(paths)),
           NEW target, Begin(p, name, todo, paths, target), Unchanged,
           made' \in 0..MaxSecrets
    PROVE  TypeInv'
<1> DEFINE x == [pc |-> "files", name |-> name, todo |-> todo,
                 paths |-> paths, target |-> target]
<1>1. proc' = [proc EXCEPT ![p] = x]
  BY DEF Begin
<1>2. IsCommand(x)
  BY DEF IsCommand
<1>3. x.pc = "files"
  OBVIOUS
<1> HIDE DEF x
<1>4. ProcOK' /\ \A q \in Procs : proc'[q] = IF q = p THEN x ELSE proc[q]
  BY <1>1, <1>2, Moves DEF TypeInv
<1>5. \A q \in Procs : proc'[q].pc \in {"staging", "committing"} => repo
  BY <1>3, <1>4 DEF TypeInv
<1> QED BY <1>4, <1>5 DEF TypeInv, Unchanged, Tip

LEMMA StartInitTypes ==
    ASSUME TypeInv, NEW p \in Procs, NEW ids \in GpgIdChoices, StartInit(p, ids)
    PROVE  TypeInv'
<1> DEFINE g == ToWrite(GpgId(<<>>), [ids |-> ids])
           a == ToWrite(Attributes, [rule |-> TRUE])
<1>1. g \in Ops
  <2>1. GpgId(<<>>) \in Paths /\ GpgId(<<>>) \notin BlobPaths
    BY GpgIdsAreNoBlobs, EmptySeq
  <2>2. [ids |-> ids] \in Lists
    BY DEF Lists, AllKeys
  <2>3. Fits(GpgId(<<>>), [ids |-> ids])
    BY <2>1, <2>2, EntriesAreBlobs DEF Fits
  <2> QED BY <2>1, <2>2, <2>3 DEF Ops, WriteOps, ToWrite, Contents
<1>2. a \in Ops
  <2>1. Attributes \in Seq(Names) /\ Len(Attributes) = 1 /\ Attributes[1] = ".gitattributes"
    BY DEF Attributes, Names
  <2>2. Attributes # <<>> /\ Attributes[Len(Attributes)] # ".gpg-id"
    BY <2>1, EmptySeq
  <2>3. Attributes \in BlobPaths /\ Attributes \in Paths
    BY <2>1, <2>2 DEF BlobPaths, Paths, Last
  <2>4. Attributes \notin Entries
    BY StoreAssumption DEF Attributes
  <2>5. Fits(Attributes, [rule |-> TRUE])
    BY <2>3, <2>4 DEF Fits
  <2> QED BY <2>3, <2>5 DEF Ops, WriteOps, ToWrite, Contents
<1>3. ToGitInit \in Ops
  BY DEF Ops, ToGitInit
<1> HIDE DEF g, a
<1>4. CASE Attributes \in DOMAIN work
  <2> DEFINE paths == {GpgId(<<>>)}
  <2>1. g \in OpsOn(paths) /\ ToGitInit \in OpsOn(paths)
    BY <1>1, <1>3 DEF OpsOn, g, ToWrite, ToGitInit
  <2>2. <<g>> \o <<>> \o <<ToGitInit>> \in Seq(OpsOn(paths))
    BY <2>1
  <2>3. Begin(p, "init", <<g>> \o <<>> \o <<ToGitInit>>, paths, {})
    <3>1. {GpgId(<<>>)} \cup {<<>>[i].path : i \in DOMAIN <<>>} = paths
      OBVIOUS
    <3> HIDE DEF paths
    <3> QED BY <1>4, <3>1 DEF StartInit, g
  <2> HIDE DEF paths
  <2> QED BY <2>2, <2>3, BeginKeepsTypes DEF StartInit, TypeInv
<1>5. CASE Attributes \notin DOMAIN work
  <2> DEFINE paths == {GpgId(<<>>)} \cup {<<a>>[i].path : i \in DOMAIN <<a>>}
  <2>1. <<a>>[1] = a /\ 1 \in DOMAIN <<a>>
    OBVIOUS
  <2>2. a.path \in paths
    BY <2>1
  <2>3. g \in OpsOn(paths) /\ a \in OpsOn(paths) /\ ToGitInit \in OpsOn(paths)
    BY <1>1, <1>2, <1>3, <2>2 DEF OpsOn, g, ToWrite, ToGitInit
  <2>4. Begin(p, "init", <<g>> \o <<a>> \o <<ToGitInit>>, paths, {})
    BY <1>5 DEF StartInit, g, a
  <2> HIDE DEF paths
  <2>5. <<g>> \o <<a>> \o <<ToGitInit>> \in Seq(OpsOn(paths))
    BY <2>3
  <2> QED BY <2>4, <2>5, BeginKeepsTypes DEF StartInit, TypeInv
<1> QED BY <1>4, <1>5

LEMMA StartInsertTypes ==
    ASSUME TypeInv, NEW p \in Procs, NEW e \in Entries, NEW force \in BOOLEAN,
           StartInsert(p, e, force)
    PROVE  TypeInv'
<1>1. made + 1 \in 0..MaxSecrets
  BY StoreAssumption DEF StartInsert, TypeInv
<1>2. <<ToSeal(e, made + 1)>> \in Seq(OpsOn({e}))
  <2>1. ToSeal(e, made + 1) \in OpsOn({e})
    BY <1>1, EntriesAreBlobs DEF ToSeal, OpsOn, Ops, EncryptOps
  <2> QED BY <2>1
<1>3. PICK target : Begin(p, "insert", <<ToSeal(e, made + 1)>>, {e}, target)
  BY DEF StartInsert
<1>4. Unchanged /\ made' = made + 1
  BY DEF StartInsert
<1> QED BY <1>1, <1>2, <1>3, <1>4, BeginKeepsTypes

LEMMA RemoveIsOp ==
    ASSUME NEW paths, NEW e \in Entries \cap paths
    PROVE  ToRemove(e) \in OpsOn(paths)
BY EntriesAreBlobs DEF ToRemove, OpsOn, Ops, RemoveOps

LEMMA StartRemoveTypes ==
    ASSUME TypeInv, NEW p \in Procs, NEW e \in Entries, StartRemove(p, e)
    PROVE  TypeInv'
<1>1. <<ToRemove(e)>> \in Seq(OpsOn({e}))
  <2>1. ToRemove(e) \in OpsOn({e})
    BY RemoveIsOp
  <2> QED BY <2>1
<1>2. Begin(p, "remove", <<ToRemove(e)>>, {e}, {e})
  BY DEF StartRemove
<1>3. Unchanged /\ made' \in 0..MaxSecrets
  BY DEF StartRemove, TypeInv
<1> QED BY <1>1, <1>2, <1>3, BeginKeepsTypes

LEMMA StartRemoveRecursiveTypes ==
    ASSUME TypeInv, NEW p \in Procs, NEW dir, StartRemoveRecursive(p, dir)
    PROVE  TypeInv'
<1> DEFINE below == {e \in EntriesOf(work) : IsStrictPrefix(dir, e)}
           order == SetToSeq(below)
           todo == [i \in DOMAIN order |-> ToRemove(order[i])]
<1>1. below \subseteq Entries /\ IsFiniteSet(below)
  BY StoreAssumption, FS_Subset DEF EntriesOf
<1>2. Begin(p, "remove_recursive", todo, below, below) /\ Unchanged /\ made' = made
  BY DEF StartRemoveRecursive
<1> HIDE DEF below
<1>3. Cardinality(below) \in Nat /\ order \in [1..Cardinality(below) -> below]
  BY <1>1, Enumeration
<1>4. todo \in Seq(OpsOn(below))
  BY <1>1, <1>3, RemoveIsOp
<1> HIDE DEF todo
<1> QED BY <1>2, <1>4, BeginKeepsTypes DEF TypeInv

\* A copied file is one that was read, or a new ciphertext (transfer_blob).
LEMMA TransferredFits ==
    ASSUME TypeInv, NEW from \in Entries, NEW to \in Entries, NEW force,
           CanTransfer(from, to, force), NEW paths, to \in paths
    PROVE  ToWrite(to, Transferred(from, to)) \in OpsOn(paths)
<1>1. work[from] \in Blobs
  BY DEF CanTransfer, TypeInv, IsTree, Fits
<1>2. Scope(to) \subseteq AllKeys
  BY ScopeIsKeys, EntriesAreBlobs DEF TypeInv, BlobPaths
<1>3. Transferred(from, to) \in Blobs
  BY <1>1, <1>2 DEF Transferred, Cipher, Blobs
<1>4. to \in Paths /\ to \in BlobPaths
  BY EntriesAreBlobs DEF BlobPaths
<1> QED BY <1>3, <1>4 DEF ToWrite, OpsOn, Ops, WriteOps, Contents, Fits

LEMMA StartCopyTypes ==
    ASSUME TypeInv, NEW p \in Procs, NEW from \in Entries, NEW to \in Entries,
           NEW force \in BOOLEAN, StartCopy(p, from, to, force)
    PROVE  TypeInv'
<1> DEFINE o == ToWrite(to, Transferred(from, to))
<1>1. <<o>> \in Seq(OpsOn({to}))
  <2>1. o \in OpsOn({to})
    BY TransferredFits DEF StartCopy
  <2> QED BY <2>1
<1>2. PICK target : Begin(p, "copy", <<o>>, {to}, target)
  BY DEF StartCopy
<1>3. Unchanged /\ made' \in 0..MaxSecrets
  BY DEF StartCopy, TypeInv
<1> HIDE DEF o
<1> QED BY <1>1, <1>2, <1>3, BeginKeepsTypes

LEMMA StartRenameTypes ==
    ASSUME TypeInv, NEW p \in Procs, NEW from \in Entries, NEW to \in Entries,
           NEW force \in BOOLEAN, StartRename(p, from, to, force)
    PROVE  TypeInv'
<1> DEFINE o == ToWrite(to, Transferred(from, to))
<1>1. <<o, ToRemove(from)>> \in Seq(OpsOn({from, to}))
  <2>1. o \in OpsOn({from, to}) /\ ToRemove(from) \in OpsOn({from, to})
    BY TransferredFits, RemoveIsOp DEF StartRename
  <2> HIDE DEF o
  <2> QED BY <2>1
<1>2. PICK target : Begin(p, "rename", <<o, ToRemove(from)>>, {from, to}, target)
  BY DEF StartRename
<1>3. Unchanged /\ made' \in 0..MaxSecrets
  BY DEF StartRename, TypeInv
<1> HIDE DEF o
<1> QED BY <1>1, <1>2, <1>3, BeginKeepsTypes

LEMMA StartRestoreTypes ==
    ASSUME TypeInv, NEW p \in Procs, NEW in_place \in BOOLEAN, StartRestore(p, in_place)
    PROVE  TypeInv'
<1> DEFINE S == DOMAIN bundle
           order == SetToSeq(S)
           todo == [i \in DOMAIN order |-> ToReplace(order[i], bundle[order[i]])]
<1>1. S \subseteq Entries /\ IsFiniteSet(S)
  BY StoreAssumption, FS_Subset DEF TypeInv
<1>2. PICK target : Begin(p, "restore", todo, S, target)
  BY DEF StartRestore
<1>3. Unchanged /\ made' \in 0..MaxSecrets
  BY DEF StartRestore, TypeInv
<1>4. \A e \in S : ToReplace(e, bundle[e]) \in OpsOn(S)
  BY <1>1, EntriesAreBlobs DEF TypeInv, ToReplace, OpsOn, Ops, EncryptOps
<1>5. Cardinality(S) \in Nat /\ order \in [1..Cardinality(S) -> S]
  BY <1>1, Enumeration
<1> HIDE DEF S
<1>6. todo \in Seq(OpsOn(S))
  BY <1>4, <1>5
<1> HIDE DEF todo
<1> QED BY <1>2, <1>3, <1>6, BeginKeepsTypes

\* import::prepare gives paths of entries, or such paths with a suffix.
LEMMA DisambiguatedAreBlobs ==
    ASSUME NEW m \in 0..MaxBatch, NEW batch \in [1..m -> Entries], NEW i \in 1..m
    PROVE  Disambiguated(batch)[i] \in BlobPaths
<1> DEFINE same == {j \in 1..i : batch[j] = batch[i]}
           n == Cardinality(same)
<1>1. m \in Nat /\ i \in Nat /\ i <= MaxBatch /\ MaxBatch \in Nat
  BY StoreAssumption
<1>2. IsFiniteSet(1..i) /\ Cardinality(1..i) = i
  BY <1>1, FS_Interval
<1>3. IsFiniteSet(same) /\ n <= i
  BY <1>2, FS_Subset
<1>4. n \in Nat /\ n # 0
  <2>1. i \in same
    OBVIOUS
  <2> QED BY <1>3, <2>1, FS_EmptySet, FS_CardinalityType
<1> HIDE DEF same
<1>5. n # 1 => n \in 2..MaxBatch
  BY <1>1, <1>3, <1>4
<1>6. Disambiguated(batch)[i] = IF n = 1 THEN batch[i] ELSE Suffixed(batch[i], n)
  BY DEF Disambiguated, same
<1>7. CASE n = 1
  BY <1>6, <1>7, EntriesAreBlobs
<1>8. CASE n # 1
  <2>1. IsBlobPath(Suffixed(batch[i], n))
    BY <1>5, <1>8, StoreAssumption
  <2> QED BY <1>6, <1>8, <2>1, SeqMonotonic DEF IsBlobPath, IsPath, BlobPaths, Paths, Names
<1> QED BY <1>7, <1>8

LEMMA StartImportTypes ==
    ASSUME TypeInv, NEW p \in Procs, NEW batch \in BoundedSeq(Entries, MaxBatch),
           StartImport(p, batch)
    PROVE  TypeInv'
<1> DEFINE at == Disambiguated(batch)
           todo == [i \in DOMAIN batch |-> ToReplace(at[i], made + i)]
<1>1. PICK m \in 0..MaxBatch : batch \in [1..m -> Entries]
  BY DEF BoundedSeq, SeqOf
<1>2. Begin(p, "import", todo, Range(at), {}) /\ Unchanged
  BY DEF StartImport
<1>3. m \in Nat /\ made \in Nat /\ Len(batch) = m
  BY <1>1, StoreAssumption DEF TypeInv
<1>4. made' = made + m /\ made + m <= MaxSecrets /\ MaxSecrets \in Nat
  BY <1>3, StoreAssumption DEF StartImport
<1>5. \A i \in 1..m : at[i] \in BlobPaths
  BY <1>1, DisambiguatedAreBlobs
<1> HIDE DEF at
<1>6. \A i \in 1..m : ToReplace(at[i], made + i) \in OpsOn(Range(at))
  <2> SUFFICES ASSUME NEW i \in 1..m PROVE ToReplace(at[i], made + i) \in OpsOn(Range(at))
    OBVIOUS
  <2>1. made + i \in 0..MaxSecrets
    BY <1>3, <1>4
  <2>2. at[i] \in Range(at)
    BY <1>1 DEF at, Disambiguated, Range
  <2> QED BY <1>5, <2>1, <2>2 DEF ToReplace, OpsOn, Ops, EncryptOps
<1>7. todo \in Seq(OpsOn(Range(at)))
  BY <1>1, <1>3, <1>6
<1> HIDE DEF todo
<1>8. made' \in 0..MaxSecrets
  BY <1>3, <1>4
<1> QED BY <1>2, <1>7, <1>8, BeginKeepsTypes

-----------------------------------------------------------------------------
\* What is known of a command from where it is.
LEMMA CommandShapes ==
    ASSUME NEW r, IsCommand(r)
    PROVE  /\ r.pc \in {"idle", "editing", "files", "staging", "committing"}
           /\ r.pc = "idle" => r = Idle
           /\ r.pc \in {"editing", "files"} =>
                 /\ r = [pc |-> r.pc, name |-> r.name, todo |-> r.todo,
                         paths |-> r.paths, target |-> r.target]
                 /\ r.todo \in Seq(OpsOn(r.paths))
           /\ r.pc = "editing" => r.paths \subseteq Entries
           /\ r.pc = "staging" => IsTree(r.index)
           /\ r.pc = "committing" => IsTree(r.tree)
<1>1. CASE r = Idle
  BY <1>1 DEF Idle
<1>2. CASE /\ r = [pc |-> r.pc, name |-> r.name, todo |-> r.todo,
                    paths |-> r.paths, target |-> r.target]
           /\ r.pc = "files" \/ (r.pc = "editing" /\ r.paths \subseteq Entries)
           /\ r.todo \in Seq(OpsOn(r.paths))
  BY <1>2
<1>3. CASE /\ r = [pc |-> "staging", name |-> r.name, paths |-> r.paths,
                    target |-> r.target, index |-> r.index]
           /\ IsTree(r.index)
  <2>1. r.pc = "staging"
    BY <1>3
  <2> QED BY <1>3, <2>1
<1>4. CASE /\ r = [pc |-> "committing", name |-> r.name, paths |-> r.paths,
                    target |-> r.target, tree |-> r.tree]
           /\ IsTree(r.tree)
  <2>1. r.pc = "committing"
    BY <1>4
  <2> QED BY <1>4, <2>1
<1> QED BY <1>1, <1>2, <1>3, <1>4 DEF IsCommand

LEMMA Proceeds ==
    ASSUME ProcOK, NEW p \in Procs, proc[p].pc = "files", proc[p].todo # <<>>,
           NEW more \in Seq(OpsOn(proc[p].paths)), Proceed(p, more)
    PROVE  /\ ProcOK'
           /\ proc'[p] = [pc |-> "files", name |-> proc[p].name,
                          todo |-> more \o Tail(proc[p].todo),
                          paths |-> proc[p].paths, target |-> proc[p].target]
           /\ proc'[p].pc = "files"
           /\ \A q \in Procs \ {p} : proc'[q] = proc[q]
<1> DEFINE x == [pc |-> "files", name |-> proc[p].name, todo |-> more \o Tail(proc[p].todo),
                 paths |-> proc[p].paths, target |-> proc[p].target]
<1>1. proc[p].todo \in Seq(OpsOn(proc[p].paths))
  BY CommandShapes DEF ProcOK
<1>2. proc' = [proc EXCEPT ![p] = x]
  BY DEF Proceed
<1>3. more \o Tail(proc[p].todo) \in Seq(OpsOn(proc[p].paths))
  BY <1>1, HeadTailProperties, ConcatProperties
<1>4. IsCommand(x) /\ x.pc = "files"
  BY <1>3 DEF IsCommand
<1> HIDE DEF x
<1>5. ProcOK' /\ proc'[p] = x /\ \A q \in Procs \ {p} : proc'[q] = proc[q]
  BY <1>2, <1>4, Moves
<1>6. proc'[p].pc = "files"
  BY <1>4, <1>5
<1> QED BY <1>5, <1>6 DEF x

LEMMA Ends ==
    ASSUME ProcOK, NEW p \in Procs, End(p)
    PROVE  ProcOK' /\ proc'[p] = Idle /\ \A q \in Procs \ {p} : proc'[q] = proc[q]
BY Moves DEF End, IsCommand

\* The operation a command is at, and the rest.
LEMMA AtOperation ==
    ASSUME ProcOK, NEW p \in Procs, NEW op, AtOp(p, op)
    PROVE  /\ proc[p].pc = "files" /\ proc[p].todo # <<>>
           /\ Head(proc[p].todo) \in OpsOn(proc[p].paths) /\ Head(proc[p].todo).op = op
           /\ Tail(proc[p].todo) \in Seq(OpsOn(proc[p].paths))
<1>1. proc[p].pc = "files" /\ proc[p].todo # <<>> /\ Head(proc[p].todo).op = op
  BY DEF AtOp
<1>2. proc[p].todo \in Seq(OpsOn(proc[p].paths))
  BY <1>1, CommandShapes DEF ProcOK
<1> QED BY <1>1, <1>2, HeadTailProperties

\* Steps that change the work tree and let one command proceed or end.
LEMMA WorkKeepsTypes ==
    ASSUME TypeInv, NEW p \in Procs, IsTree(work'), ProcOK',
           proc'[p].pc \in {"files", "idle"}, \A q \in Procs \ {p} : proc'[q] = proc[q],
           dirt' \subseteq Entries, repo => repo',
           UNCHANGED <<index, head, unfinished, bundle, made>>
    PROVE  TypeInv'
<1>1. \A q \in Procs : proc'[q].pc \in {"staging", "committing"} => repo'
  BY DEF TypeInv
<1> QED BY <1>1 DEF TypeInv, Tip

LEMMA OperationShapes ==
    ASSUME NEW paths, NEW o \in OpsOn(paths)
    PROVE  /\ o.op # "git_init" => o.path \in paths
           /\ o.op = "write" => o.path \in Paths /\ Fits(o.path, o.content)
           /\ o.op = "encrypt" => /\ o.path \in BlobPaths /\ o.path \in Paths
                                  /\ o.secret \in 0..MaxSecrets
           /\ o.op \in {"remove", "unlink"} => o.path \in BlobPaths
<1>1. o \in Ops /\ (o.op = "git_init" \/ o.path \in paths)
  BY DEF OpsOn
<1> QED BY <1>1 DEF Ops, WriteOps, EncryptOps, RemoveOps, BlobPaths

LEMMA WriteFileTypes ==
    ASSUME TypeInv, NEW p \in Procs, WriteFile(p)
    PROVE  TypeInv'
<1> DEFINE o == Head(proc[p].todo)
<1>1. AtOp(p, "write") /\ ProcOK
  BY DEF WriteFile, TypeInv
<1>2. proc[p].pc = "files" /\ proc[p].todo # <<>> /\ o \in OpsOn(proc[p].paths) /\ o.op = "write"
  BY <1>1, AtOperation
<1>3. Fits(o.path, o.content)
  BY <1>2, OperationShapes
<1>4. IsTree(work')
  BY <1>3, WithFits DEF WriteFile, TypeInv
<1>5. <<>> \in Seq(OpsOn(proc[p].paths))
  OBVIOUS
<1>6. Proceed(p, <<>>)
  BY DEF WriteFile
<1>7. ProcOK' /\ proc'[p].pc = "files" /\ \A q \in Procs \ {p} : proc'[q] = proc[q]
  BY <1>1, <1>2, <1>5, <1>6, Proceeds
<1>8. dirt' \subseteq Entries /\ repo' = repo
      /\ UNCHANGED <<index, head, unfinished, bundle, made>>
  BY DEF WriteFile, TypeInv
<1> QED BY <1>4, <1>7, <1>8, WorkKeepsTypes

\* A command that stops leaves dirty entries (Fail; nothing is rolled back).
LEMMA Fails ==
    ASSUME ProcOK, dirt \subseteq Entries, NEW p \in Procs, Fail(p)
    PROVE  /\ ProcOK' /\ proc'[p] = Idle /\ proc'[p].pc = "idle"
           /\ \A q \in Procs \ {p} : proc'[q] = proc[q]
           /\ dirt' \subseteq Entries
<1>1. End(p) /\ dirt' \subseteq Entries
  BY DEF Fail
<1> QED BY <1>1, Ends DEF Idle

\* Whatever .gpg-id is in scope, what is encrypted belongs in its entry
\* (Store::insert, insert_no_commit).
LEMMA EncryptEntryTypes ==
    ASSUME TypeInv, NEW p \in Procs, EncryptEntry(p)
    PROVE  TypeInv'
<1> DEFINE o == Head(proc[p].todo)
           write == ToWrite(o.path, Cipher(o.secret, Scope(o.path)))
           more == IF o.shred THEN <<ToRemove(o.path), write>> ELSE <<write>>
<1>1. AtOp(p, "encrypt") /\ ProcOK /\ dirt \subseteq Entries
  BY DEF EncryptEntry, TypeInv
<1>2. proc[p].pc = "files" /\ proc[p].todo # <<>> /\ o \in OpsOn(proc[p].paths) /\ o.op = "encrypt"
  BY <1>1, AtOperation
<1>3. UNCHANGED <<work, repo, index, head, unfinished, bundle, made>>
  BY DEF EncryptEntry
<1>4. CASE Fail(p)
  <2>1. ProcOK' /\ proc'[p].pc = "idle" /\ dirt' \subseteq Entries
        /\ \A q \in Procs \ {p} : proc'[q] = proc[q]
    BY <1>1, <1>4, Fails
  <2> QED BY <1>3, <2>1, WorkKeepsTypes DEF TypeInv
<1>5. CASE Proceed(p, more) /\ UNCHANGED dirt
  <2>1. /\ o.path \in BlobPaths /\ o.path \in Paths /\ o.secret \in 0..MaxSecrets
        /\ o.path \in proc[p].paths
    BY <1>2, OperationShapes
  <2> HIDE DEF o
  <2>2. Scope(o.path) \subseteq AllKeys
    BY <2>1, ScopeIsKeys DEF TypeInv
  <2>3. Cipher(o.secret, Scope(o.path)) \in Blobs
    BY <2>1, <2>2 DEF Cipher, Blobs
  <2>4. write \in OpsOn(proc[p].paths)
    BY <2>1, <2>3 DEF ToWrite, OpsOn, Ops, WriteOps, Contents, Fits
  <2>5. ToRemove(o.path) \in OpsOn(proc[p].paths)
    BY <2>1 DEF ToRemove, OpsOn, Ops, RemoveOps
  <2> HIDE DEF write
  <2>6. more \in Seq(OpsOn(proc[p].paths))
    <3>1. /\ <<write>> \in Seq(OpsOn(proc[p].paths))
          /\ <<ToRemove(o.path), write>> \in Seq(OpsOn(proc[p].paths))
      BY <2>4, <2>5
    <3> QED BY <3>1
  <2> HIDE DEF more
  <2>7. ProcOK' /\ proc'[p].pc = "files" /\ \A q \in Procs \ {p} : proc'[q] = proc[q]
    BY <1>1, <1>2, <1>5, <2>6, Proceeds
  <2> QED BY <1>1, <1>3, <1>5, <2>7, WorkKeepsTypes DEF TypeInv
<1> QED BY <1>4, <1>5 DEF EncryptEntry

LEMMA ShredFileTypes ==
    ASSUME TypeInv, NEW p \in Procs, ShredFile(p)
    PROVE  TypeInv'
<1> DEFINE o == Head(proc[p].todo)
<1>1. AtOp(p, "remove") /\ ProcOK
  BY DEF ShredFile, TypeInv
<1>2. proc[p].pc = "files" /\ proc[p].todo # <<>> /\ o \in OpsOn(proc[p].paths) /\ o.op = "remove"
  BY <1>1, AtOperation
<1>3. o.path \in BlobPaths /\ o.path \in proc[p].paths
  BY <1>2, OperationShapes
<1>4. IsTree(work')
  <2>1. work' = With(work, o.path, Garbage) \/ work' = work
    BY DEF ShredFile
  <2> QED BY <1>3, <2>1, GarbageFits, WithFits DEF TypeInv
<1>5. PICK more \in {<<>>, <<ToUnlink(o.path)>>} : Proceed(p, more)
  BY DEF ShredFile
<1>6. more \in Seq(OpsOn(proc[p].paths))
  <2>1. ToUnlink(o.path) \in OpsOn(proc[p].paths)
    BY <1>3 DEF ToUnlink, OpsOn, Ops, RemoveOps
  <2>2. <<>> \in Seq(OpsOn(proc[p].paths)) /\ <<ToUnlink(o.path)>> \in Seq(OpsOn(proc[p].paths))
    BY <2>1
  <2> QED BY <1>5, <2>2
<1>7. ProcOK' /\ proc'[p].pc = "files" /\ \A q \in Procs \ {p} : proc'[q] = proc[q]
  BY <1>1, <1>2, <1>5, <1>6, Proceeds
<1>8. dirt' \subseteq Entries /\ repo' = repo
      /\ UNCHANGED <<index, head, unfinished, bundle, made>>
  BY DEF ShredFile, TypeInv
<1> QED BY <1>4, <1>7, <1>8, WorkKeepsTypes

LEMMA UnlinkFileTypes ==
    ASSUME TypeInv, NEW p \in Procs, UnlinkFile(p)
    PROVE  TypeInv'
<1>1. AtOp(p, "unlink") /\ ProcOK
  BY DEF UnlinkFile, TypeInv
<1>2. proc[p].pc = "files" /\ proc[p].todo # <<>>
  BY <1>1, AtOperation
<1>3. IsTree(work')
  BY WithoutFits DEF UnlinkFile, TypeInv
<1>4. <<>> \in Seq(OpsOn(proc[p].paths)) /\ Proceed(p, <<>>)
  BY DEF UnlinkFile
<1>5. ProcOK' /\ proc'[p].pc = "files" /\ \A q \in Procs \ {p} : proc'[q] = proc[q]
  BY <1>1, <1>2, <1>4, Proceeds
<1>6. dirt' \subseteq Entries /\ repo' = repo
      /\ UNCHANGED <<index, head, unfinished, bundle, made>>
  BY DEF UnlinkFile, TypeInv
<1> QED BY <1>3, <1>5, <1>6, WorkKeepsTypes

LEMMA CreateRepoTypes ==
    ASSUME TypeInv, NEW p \in Procs, CreateRepo(p)
    PROVE  TypeInv'
<1>1. AtOp(p, "git_init") /\ ProcOK
  BY DEF CreateRepo, TypeInv
<1>2. proc[p].pc = "files" /\ proc[p].todo # <<>>
  BY <1>1, AtOperation
<1>3. <<>> \in Seq(OpsOn(proc[p].paths)) /\ Proceed(p, <<>>)
  BY DEF CreateRepo
<1>4. ProcOK' /\ proc'[p].pc = "files" /\ \A q \in Procs \ {p} : proc'[q] = proc[q]
  BY <1>1, <1>2, <1>3, Proceeds
<1>5. dirt' \subseteq Entries /\ repo' /\ IsTree(work')
      /\ UNCHANGED <<index, head, unfinished, bundle, made>>
  BY DEF CreateRepo, TypeInv
<1> QED BY <1>4, <1>5, WorkKeepsTypes

\* Steps that leave the files alone and turn one command into another.
LEMMA CommandKeepsTypes ==
    ASSUME TypeInv, NEW p \in Procs, NEW x, IsCommand(x), proc' = [proc EXCEPT ![p] = x],
           x.pc \in {"staging", "committing"} => repo,
           made' \in 0..MaxSecrets, UNCHANGED <<work, repo, head, unfinished, bundle>>,
           IsTree(index'), ~repo => DOMAIN index' = {}, dirt' \subseteq Entries
    PROVE  TypeInv'
<1>1. ProcOK' /\ proc'[p] = x /\ \A q \in Procs \ {p} : proc'[q] = proc[q]
  BY Moves DEF TypeInv
<1>2. \A q \in Procs : proc'[q].pc \in {"staging", "committing"} => repo'
  BY <1>1 DEF TypeInv
<1> QED BY <1>1, <1>2 DEF TypeInv, Tip

LEMMA StartEditTypes ==
    ASSUME TypeInv, NEW p \in Procs, NEW e \in Entries, StartEdit(p, e)
    PROVE  TypeInv'
<1> DEFINE x == [pc |-> "editing", name |-> "edit", todo |-> <<>>,
                 paths |-> {e}, target |-> {e}]
<1>1. proc' = [proc EXCEPT ![p] = x]
  BY DEF StartEdit
<1>2. IsCommand(x) /\ x.pc = "editing"
  BY DEF IsCommand
<1>3. /\ UNCHANGED <<work, repo, index, head, unfinished, bundle, dirt, made>>
      /\ made' \in 0..MaxSecrets
  BY DEF StartEdit, Unchanged, TypeInv
<1> HIDE DEF x
<1> QED BY <1>1, <1>2, <1>3, CommandKeepsTypes DEF TypeInv

LEMMA LeaveEditorTypes ==
    ASSUME TypeInv, NEW p \in Procs, LeaveEditor(p)
    PROVE  TypeInv'
<1>1. UNCHANGED <<work, repo, index, head, unfinished, bundle, dirt>>
  BY DEF LeaveEditor, Unchanged
<1>2. CASE proc' = [proc EXCEPT ![p] = Idle] /\ UNCHANGED made
  <2>1. IsCommand(Idle) /\ Idle.pc = "idle"
    BY DEF IsCommand, Idle
  <2> QED BY <1>1, <1>2, <2>1, CommandKeepsTypes DEF TypeInv
<1>3. ASSUME NEW e \in proc[p].paths, proc[p].pc = "editing",
             made < MaxSecrets, made' = made + 1,
             proc' = [proc EXCEPT ![p] =
                 [pc |-> "files", name |-> @.name, todo |-> <<ToSeal(e, made + 1)>>,
                  paths |-> @.paths, target |-> @.target]]
      PROVE  TypeInv'
  <2> DEFINE x == [pc |-> "files", name |-> proc[p].name, todo |-> <<ToSeal(e, made + 1)>>,
                   paths |-> proc[p].paths, target |-> proc[p].target]
  <2>1. proc' = [proc EXCEPT ![p] = x]
    BY <1>3
  <2>2. made + 1 \in 0..MaxSecrets
    BY <1>3, StoreAssumption DEF TypeInv
  <2>3. e \in BlobPaths
    BY <1>3, CommandShapes, EntriesAreBlobs DEF TypeInv, ProcOK
  <2>4. ToSeal(e, made + 1) \in OpsOn(proc[p].paths)
    BY <1>3, <2>2, <2>3 DEF ToSeal, OpsOn, Ops, EncryptOps
  <2>5. <<ToSeal(e, made + 1)>> \in Seq(OpsOn(proc[p].paths))
    BY <2>4
  <2>6. IsCommand(x) /\ x.pc = "files"
    BY <2>5 DEF IsCommand
  <2> HIDE DEF x
  <2> QED BY <1>1, <1>3, <2>1, <2>2, <2>6, CommandKeepsTypes DEF TypeInv
<1> QED BY <1>2, <1>3 DEF LeaveEditor

LEMMA BackupTypes ==
    ASSUME TypeInv, NEW p \in Procs, Backup(p)
    PROVE  TypeInv'
<1>1. \A e \in EntriesOf(work) : work[e].secret \in 0..MaxSecrets
  BY DEF TypeInv, IsTree, Fits, EntriesOf, Blobs
<1>2. DOMAIN bundle' \subseteq Entries /\ \A e \in DOMAIN bundle' : bundle'[e] \in 0..MaxSecrets
  BY <1>1 DEF Backup, EntriesOf
<1>3. UNCHANGED <<work, repo, index, head, unfinished, proc, made, dirt>>
  BY DEF Backup
<1> QED BY <1>2, <1>3 DEF TypeInv, ProcOK, Tip

\* Without a .git, or in the middle of another git operation, there is no commit
\* (Git2Vcs::commit; the check for a .git in Store).
LEMMA OpenRepoTypes ==
    ASSUME TypeInv, NEW p \in Procs, OpenRepo(p)
    PROVE  TypeInv'
<1>1. UNCHANGED <<work, repo, index, head, unfinished, bundle, made>>
  BY DEF OpenRepo
<1>2. CASE Fail(p)
  <2>1. ProcOK' /\ proc'[p].pc = "idle" /\ dirt' \subseteq Entries
        /\ \A q \in Procs \ {p} : proc'[q] = proc[q]
    BY <1>2, Fails DEF TypeInv
  <2> QED BY <1>1, <2>1, WorkKeepsTypes DEF TypeInv
<1>3. CASE repo /\ dirt' = dirt
           /\ proc' = [proc EXCEPT ![p] =
                  [pc |-> "staging", name |-> @.name, paths |-> @.paths,
                   target |-> @.target, index |-> index]]
  <2> DEFINE x == [pc |-> "staging", name |-> proc[p].name, paths |-> proc[p].paths,
                   target |-> proc[p].target, index |-> index]
  <2>1. proc' = [proc EXCEPT ![p] = x]
    BY <1>3
  <2>2. IsCommand(x)
    BY DEF IsCommand, TypeInv
  <2> HIDE DEF x
  <2> QED BY <1>1, <1>3, <2>1, <2>2, CommandKeepsTypes DEF TypeInv
<1> QED BY <1>2, <1>3 DEF OpenRepo

\* The new index holds files of the work tree and of the old index.
LEMMA StagedIsTree ==
    ASSUME IsTree(work), NEW p \in Procs, IsTree(proc[p].index)
    PROVE  IsTree(Staged(p))
BY DEF IsTree, Staged

LEMMA StagePathsTypes ==
    ASSUME TypeInv, NEW p \in Procs, StagePaths(p)
    PROVE  TypeInv'
<1> DEFINE x == [pc |-> "committing", name |-> proc[p].name, paths |-> proc[p].paths,
                 target |-> proc[p].target, tree |-> index']
<1>1. UNCHANGED <<work, repo, head, unfinished, bundle, made, dirt>>
  BY DEF StagePaths
<1>2. proc' = [proc EXCEPT ![p] = x]
  BY DEF StagePaths
<1>3. proc[p].pc = "staging" /\ repo
  BY DEF StagePaths, TypeInv
<1>4. IsTree(index')
  BY <1>3, CommandShapes, StagedIsTree DEF StagePaths, TypeInv, ProcOK
<1>5. IsCommand(x)
  BY <1>4 DEF IsCommand
<1> HIDE DEF x
<1> QED BY <1>1, <1>2, <1>3, <1>4, <1>5, CommandKeepsTypes DEF TypeInv

LEMMA CommitTreeTypes ==
    ASSUME TypeInv, NEW p \in Procs, CommitTree(p)
    PROVE  TypeInv'
<1>1. proc[p].pc = "committing" /\ repo /\ End(p) /\ ProcOK
  BY DEF CommitTree, TypeInv
<1>2. IsTree(proc[p].tree)
  BY <1>1, CommandShapes DEF ProcOK
<1>3. head' = head \/ head' = <<proc[p].tree>>
  BY DEF CommitTree, Committed
<1>4. IsTree(Tip') /\ (head' = <<>> \/ head' = <<head'[1]>>)
  BY <1>2, <1>3 DEF Tip, TypeInv
<1>5. ProcOK' /\ proc'[p].pc = "idle" /\ \A q \in Procs \ {p} : proc'[q] = proc[q]
  BY <1>1, Ends DEF Idle
<1>6. UNCHANGED <<work, repo, index, unfinished, bundle, made>> /\ dirt' \subseteq Entries
  BY DEF CommitTree, TypeInv
<1> QED BY <1>1, <1>4, <1>5, <1>6 DEF TypeInv

LEMMA AbortTypes ==
    ASSUME TypeInv, NEW p \in Procs, Abort(p)
    PROVE  TypeInv'
<1>1. ProcOK' /\ proc'[p].pc = "idle" /\ dirt' \subseteq Entries
      /\ \A q \in Procs \ {p} : proc'[q] = proc[q]
  BY Fails DEF Abort, TypeInv
<1>2. UNCHANGED <<work, repo, index, head, unfinished, bundle, made>>
  BY DEF Abort
<1> QED BY <1>1, <1>2, WorkKeepsTypes DEF TypeInv

LEMMA PlaceGpgIdTypes ==
    ASSUME TypeInv, NEW e \in Entries, NEW ids \in GpgIdChoices, PlaceGpgId(e, ids)
    PROVE  TypeInv'
<1>1. PICK dir \in Enclosing(e) : work' = With(work, GpgId(dir), [ids |-> ids])
  BY DEF PlaceGpgId
<1>2. GpgId(dir) \in Paths /\ GpgId(dir) \notin BlobPaths
  BY EntriesAreBlobs, EnclosingAreDirs, GpgIdsAreNoBlobs DEF BlobPaths
<1>3. [ids |-> ids] \in Lists
  BY DEF Lists, AllKeys
<1>4. IsTree(work')
  BY <1>1, <1>2, <1>3, EntriesAreBlobs, WithFits DEF TypeInv, Fits
<1>5. UNCHANGED <<repo, index, head, unfinished, proc, bundle, made, dirt>>
  BY DEF PlaceGpgId
<1> QED BY <1>4, <1>5 DEF TypeInv, ProcOK, Tip

LEMMA InitTypes == ASSUME Init PROVE TypeInv
<1>1. IsTree(NoFiles) /\ DOMAIN NoFiles = {}
  BY DEF IsTree, NoFiles
<1>2. ProcOK /\ \A q \in Procs : proc[q] = Idle
  BY DEF Init, ProcOK, IsCommand
<1>3. made \in 0..MaxSecrets
  BY StoreAssumption DEF Init
<1> QED BY <1>1, <1>2, <1>3 DEF Init, TypeInv, Tip, Idle

LEMMA StepKeepsTypes == ASSUME TypeInv, [Next]_vars PROVE TypeInv'
<1>1. CASE UNCHANGED vars
  BY <1>1 DEF vars, TypeInv, ProcOK, Tip
<1>2. ASSUME NEW p \in Procs, Start(p)
      PROVE  TypeInv'
  BY <1>2, StartInitTypes, StartInsertTypes, StartRemoveTypes, StartEditTypes,
     StartRemoveRecursiveTypes, StartCopyTypes, StartRenameTypes, BackupTypes,
     StartRestoreTypes, StartImportTypes DEF Start
<1>3. ASSUME NEW p \in Procs, Run(p)
      PROVE  TypeInv'
  BY <1>3, WriteFileTypes, EncryptEntryTypes, ShredFileTypes, UnlinkFileTypes,
     CreateRepoTypes, LeaveEditorTypes, OpenRepoTypes, StagePathsTypes,
     CommitTreeTypes DEF Run
<1>4. ASSUME NEW p \in Procs, Abort(p)
      PROVE  TypeInv'
  BY <1>4, AbortTypes
<1>5. ASSUME NEW e \in Entries, NEW ids \in GpgIdChoices, PlaceGpgId(e, ids)
      PROVE  TypeInv'
  BY <1>5, PlaceGpgIdTypes
<1>6. ASSUME NEW kind \in {"merge", "bisect"}, StartGitOp(kind)
      PROVE  TypeInv'
  BY <1>6 DEF StartGitOp, TypeInv, ProcOK, Tip
<1>7. CASE EndGitOp
  BY <1>7 DEF EndGitOp, TypeInv, ProcOK, Tip
<1> QED BY <1>1, <1>2, <1>3, <1>4, <1>5, <1>6, <1>7 DEF Next

LEMMA TypesImplyTypeOK == ASSUME TypeInv PROVE TypeOK
<1>1. ASSUME NEW files, IsTree(files)
      PROVE  AreFiles(files)
  BY <1>1 DEF IsTree, Fits, AreFiles, EntriesOf
<1>2. Len(head) <= 1
  <2>1. Len(<<>>) <= 1 /\ \A t : Len(<<t>>) <= 1
    OBVIOUS
  <2> QED BY <2>1 DEF TypeInv
<1>3. \A p \in Procs : proc[p].pc \in {"idle", "editing", "files", "staging", "committing"}
  BY CommandShapes DEF TypeInv, ProcOK
<1> QED BY <1>1, <1>2, <1>3 DEF TypeInv, TypeOK

LEMMA TypesHold == Spec => []TypeInv
<1>1. Init => TypeInv
  BY InitTypes
<1>2. TypeInv /\ [Next]_vars => TypeInv'
  BY StepKeepsTypes
<1> QED BY <1>1, <1>2, PTL DEF Spec

\* Whatever commands run, race, die or fail: every file of an entry, in the work
\* tree, the index and HEAD, holds a secret encrypted to keys some user named (or
\* the random bytes of a shredding), and nothing is committed before `git init`.
THEOREM TypeCorrect == Spec => []TypeOK
<1>1. TypeInv => TypeOK
  BY TypesImplyTypeOK
<1> QED BY <1>1, TypesHold, PTL

-----------------------------------------------------------------------------
(* "Every mutation auto-commits" (ADR-0004), for a store that one process   *)
(* works on.  Between commands the property compares the work tree with     *)
(* HEAD.  Within one it needs the way a change takes to HEAD: only paths of *)
(* the command differ from HEAD, the index it read is the index there is,   *)
(* and what it commits is what it staged.                                   *)

\* Entry e is the same in two trees.
Same(e, s, t) ==
    /\ e \in DOMAIN s <=> e \in DOMAIN t
    /\ e \in DOMAIN s => s[e] = t[e]

\* Where clean entries may differ from HEAD: the work tree in the paths of the
\* command that runs, the index in those of one that has staged them.
WorkClean(p) ==
    \A e \in Entries \ dirt :
        proc[p].pc \in {"idle", "editing"} \/ e \notin proc[p].paths => Same(e, work, Tip)

IndexClean(p) ==
    \A e \in Entries \ dirt :
        proc[p].pc # "committing" \/ e \notin proc[p].paths => Same(e, index, Tip)

StagesIndex(p) == proc[p].pc = "staging" => proc[p].index = index

CommitsWork(p) ==
    proc[p].pc = "committing" =>
        /\ proc[p].tree = index
        /\ \A e \in Entries \cap proc[p].paths : Same(e, index, work)

Clean(p) == TypeInv /\ WorkClean(p) /\ IndexClean(p) /\ StagesIndex(p) /\ CommitsWork(p)

-----------------------------------------------------------------------------
\* A command begins from a clean store and has not changed it yet (Start).
LEMMA BeginsClean ==
    ASSUME NEW p \in Procs, Clean(p), TypeInv', proc[p].pc = "idle",
           proc'[p].pc \in {"idle", "editing", "files"},
           UNCHANGED <<work, index, head, dirt>>
    PROVE  Clean(p)'
<1>1. \A e \in Entries \ dirt : Same(e, work, Tip) /\ Same(e, index, Tip)
  BY DEF Clean, WorkClean, IndexClean
<1>2. \A e \in Entries \ dirt' : Same(e, work', Tip') /\ Same(e, index', Tip')
  BY <1>1 DEF Tip
<1>3. WorkClean(p)' /\ IndexClean(p)'
  BY <1>2 DEF WorkClean, IndexClean
<1>4. StagesIndex(p)' /\ CommitsWork(p)'
  BY DEF StagesIndex, CommitsWork
<1> QED BY <1>3, <1>4 DEF Clean

LEMMA StartShapes ==
    ASSUME NEW p \in Procs, TypeInv, Start(p)
    PROVE  /\ proc[p].pc = "idle"
           /\ proc'[p].pc \in {"idle", "editing", "files"}
           /\ UNCHANGED <<work, index, head, dirt>>
<1>1. ASSUME NEW name, NEW todo, NEW paths, NEW target, Begin(p, name, todo, paths, target)
      PROVE  proc[p].pc = "idle" /\ proc'[p].pc = "files"
  BY <1>1 DEF Begin, Idle, TypeInv, ProcOK
<1>2. ASSUME NEW e \in Entries, StartEdit(p, e)
      PROVE  proc[p].pc = "idle" /\ proc'[p].pc = "editing"
  BY <1>2 DEF StartEdit, Idle, TypeInv, ProcOK
<1>3. CASE Backup(p)
  BY <1>3 DEF Backup, Idle
<1>4. CASE \E ids \in GpgIdChoices : StartInit(p, ids)
  BY <1>1, <1>4 DEF StartInit, Unchanged
<1>5. CASE \E e \in Entries, force \in BOOLEAN : StartInsert(p, e, force)
  BY <1>1, <1>5 DEF StartInsert, Unchanged
<1>6. CASE \E e \in Entries : StartRemove(p, e) \/ StartEdit(p, e)
  BY <1>1, <1>2, <1>6 DEF StartRemove, StartEdit, Unchanged
<1>7. CASE \E e \in Entries : \E dir \in Enclosing(e) \ {<<>>} : StartRemoveRecursive(p, dir)
  BY <1>1, <1>7 DEF StartRemoveRecursive, Unchanged
<1>8. CASE \E from, to \in Entries, force \in BOOLEAN :
              StartCopy(p, from, to, force) \/ StartRename(p, from, to, force)
  BY <1>1, <1>8 DEF StartCopy, StartRename, Unchanged
<1>9. CASE \E in_place \in BOOLEAN : StartRestore(p, in_place)
  BY <1>1, <1>9 DEF StartRestore, Unchanged
<1>10. CASE \E batch \in BoundedSeq(Entries, MaxBatch) : StartImport(p, batch)
  BY <1>1, <1>10 DEF StartImport, Unchanged
<1> QED BY <1>3, <1>4, <1>5, <1>6, <1>7, <1>8, <1>9, <1>10 DEF Start

-----------------------------------------------------------------------------
\* A file operation changes no entry but those the command will commit.
LEMMA OperationKeepsClean ==
    ASSUME NEW p \in Procs, Clean(p), TypeInv', proc[p].pc = "files",
           proc'[p].pc = "files", proc'[p].paths = proc[p].paths,
           \A e \in Entries \ proc[p].paths : Same(e, work', work),
           UNCHANGED <<index, head, dirt>>
    PROVE  Clean(p)'
<1>1. WorkClean(p)'
  BY DEF Clean, WorkClean, Same, Tip
<1>2. IndexClean(p)'
  BY DEF Clean, IndexClean, Same, Tip
<1>3. StagesIndex(p)' /\ CommitsWork(p)'
  BY DEF StagesIndex, CommitsWork
<1> QED BY <1>1, <1>2, <1>3 DEF Clean

\* What a failing command leaves behind is clean or becomes dirt.
LEMMA FailKeepsClean ==
    ASSUME NEW p \in Procs, Clean(p), TypeInv', proc[p].pc # "idle", Fail(p),
           UNCHANGED <<work, index, head>>
    PROVE  Clean(p)'
<1>1. proc'[p].pc = "idle"
  BY Fails DEF Clean, TypeInv
<1>2. \A e \in Entries \ dirt' : e \in proc[p].paths => Same(e, work, Tip)
  BY DEF Fail, Same
<1>3. \A e \in Entries \ dirt' : e \notin dirt
  BY DEF Fail
<1>4. WorkClean(p)'
  BY <1>1, <1>2, <1>3 DEF Clean, WorkClean, Same, Tip
<1>5. \A e \in Entries \ dirt' : Same(e, index, Tip)
  BY <1>2, <1>3 DEF Clean, IndexClean, CommitsWork, Same
<1>6. IndexClean(p)'
  BY <1>5 DEF IndexClean, Same, Tip
<1>7. StagesIndex(p)' /\ CommitsWork(p)'
  BY <1>1 DEF StagesIndex, CommitsWork
<1> QED BY <1>4, <1>6, <1>7 DEF Clean

\* A command goes on with the same paths.
LEMMA ProceedsOn ==
    ASSUME NEW p \in Procs, TypeInv, NEW more, Proceed(p, more)
    PROVE  proc'[p].pc = "files" /\ proc'[p].paths = proc[p].paths
BY DEF Proceed, TypeInv, ProcOK

\* The entry a file operation is about is one of the command's.
LEMMA OperatesOn ==
    ASSUME NEW p \in Procs, TypeInv, NEW op \in {"write", "encrypt", "remove", "unlink"},
           AtOp(p, op)
    PROVE  proc[p].pc = "files" /\ Head(proc[p].todo).path \in proc[p].paths
BY AtOperation, OperationShapes DEF TypeInv

LEMMA WriteFileKeepsClean ==
    ASSUME NEW p \in Procs, Clean(p), TypeInv', WriteFile(p)
    PROVE  Clean(p)'
<1> DEFINE o == Head(proc[p].todo)
<1>1. AtOp(p, "write") /\ Proceed(p, <<>>) /\ work' = With(work, o.path, o.content)
      /\ UNCHANGED <<index, head, dirt>>
  BY DEF WriteFile
<1>2. proc[p].pc = "files" /\ o.path \in proc[p].paths
  BY <1>1, OperatesOn DEF Clean
<1>3. proc'[p].pc = "files" /\ proc'[p].paths = proc[p].paths
  BY <1>1, ProceedsOn DEF Clean
<1>4. \A e \in Entries \ proc[p].paths : Same(e, work', work)
  BY <1>1, <1>2 DEF Same, With
<1> QED BY <1>1, <1>2, <1>3, <1>4, OperationKeepsClean

LEMMA EncryptEntryKeepsClean ==
    ASSUME NEW p \in Procs, Clean(p), TypeInv', EncryptEntry(p)
    PROVE  Clean(p)'
<1>1. AtOp(p, "encrypt") /\ UNCHANGED <<work, index, head>>
  BY DEF EncryptEntry
<1>2. proc[p].pc = "files" /\ proc[p].todo # <<>>
  BY <1>1, AtOperation DEF Clean, TypeInv
<1>3. CASE Fail(p)
  BY <1>1, <1>2, <1>3, FailKeepsClean
<1>4. ASSUME NEW more, Proceed(p, more), UNCHANGED dirt
      PROVE  Clean(p)'
  <2>1. proc'[p].pc = "files" /\ proc'[p].paths = proc[p].paths
    BY <1>4, ProceedsOn DEF Clean
  <2>2. \A e \in Entries \ proc[p].paths : Same(e, work', work)
    BY <1>1 DEF Same
  <2> QED BY <1>1, <1>2, <1>4, <2>1, <2>2, OperationKeepsClean
<1> QED BY <1>3, <1>4 DEF EncryptEntry

LEMMA ShredFileKeepsClean ==
    ASSUME NEW p \in Procs, Clean(p), TypeInv', ShredFile(p)
    PROVE  Clean(p)'
<1> DEFINE o == Head(proc[p].todo)
<1>1. /\ AtOp(p, "remove") /\ UNCHANGED <<index, head, dirt>>
      /\ work' = With(work, o.path, Garbage) \/ work' = work
  BY DEF ShredFile
<1>2. proc[p].pc = "files" /\ o.path \in proc[p].paths
  BY <1>1, OperatesOn DEF Clean
<1>3. proc'[p].pc = "files" /\ proc'[p].paths = proc[p].paths
  BY ProceedsOn DEF ShredFile, Clean
<1>4. \A e \in Entries \ proc[p].paths : Same(e, work', work)
  BY <1>1, <1>2 DEF Same, With
<1> QED BY <1>1, <1>2, <1>3, <1>4, OperationKeepsClean

LEMMA UnlinkFileKeepsClean ==
    ASSUME NEW p \in Procs, Clean(p), TypeInv', UnlinkFile(p)
    PROVE  Clean(p)'
<1> DEFINE o == Head(proc[p].todo)
<1>1. AtOp(p, "unlink") /\ UNCHANGED <<index, head, dirt>> /\ work' = Without(work, o.path)
  BY DEF UnlinkFile
<1>2. proc[p].pc = "files" /\ o.path \in proc[p].paths
  BY <1>1, OperatesOn DEF Clean
<1>3. proc'[p].pc = "files" /\ proc'[p].paths = proc[p].paths
  BY ProceedsOn DEF UnlinkFile, Clean
<1>4. \A e \in Entries \ proc[p].paths : Same(e, work', work)
  BY <1>1, <1>2 DEF Same, Without, Restrict
<1> QED BY <1>1, <1>2, <1>3, <1>4, OperationKeepsClean

LEMMA CreateRepoKeepsClean ==
    ASSUME NEW p \in Procs, Clean(p), TypeInv', CreateRepo(p)
    PROVE  Clean(p)'
<1>1. proc[p].pc = "files" /\ UNCHANGED <<work, index, head, dirt>>
  BY DEF CreateRepo, AtOp
<1>2. proc'[p].pc = "files" /\ proc'[p].paths = proc[p].paths
  BY ProceedsOn DEF CreateRepo, Clean
<1>3. \A e \in Entries \ proc[p].paths : Same(e, work', work)
  BY <1>1 DEF Same
<1> QED BY <1>1, <1>2, <1>3, OperationKeepsClean

-----------------------------------------------------------------------------
LEMMA LeaveEditorKeepsClean ==
    ASSUME NEW p \in Procs, Clean(p), TypeInv', LeaveEditor(p)
    PROVE  Clean(p)'
<1>1. proc[p].pc = "editing" /\ UNCHANGED <<work, index, head, dirt>>
  BY DEF LeaveEditor, Unchanged
<1>2. /\ proc'[p].pc \in {"idle", "files"}
      /\ proc'[p].pc = "files" => proc'[p].paths = proc[p].paths
  BY DEF LeaveEditor, Clean, TypeInv, ProcOK, Idle
<1>3. WorkClean(p)'
  BY <1>1, <1>2 DEF Clean, WorkClean, Same, Tip
<1>4. IndexClean(p)'
  BY <1>1, <1>2 DEF Clean, IndexClean, Same, Tip
<1>5. StagesIndex(p)' /\ CommitsWork(p)'
  BY <1>2 DEF StagesIndex, CommitsWork
<1> QED BY <1>3, <1>4, <1>5 DEF Clean

LEMMA OpenRepoKeepsClean ==
    ASSUME NEW p \in Procs, Clean(p), TypeInv', OpenRepo(p)
    PROVE  Clean(p)'
<1>1. proc[p].pc = "files" /\ UNCHANGED <<work, index, head>>
  BY DEF OpenRepo
<1>2. CASE Fail(p)
  BY <1>1, <1>2, FailKeepsClean
<1>3. CASE UNCHANGED dirt
           /\ proc' = [proc EXCEPT ![p] =
                  [pc |-> "staging", name |-> @.name, paths |-> @.paths,
                   target |-> @.target, index |-> index]]
  <2>1. proc'[p].pc = "staging" /\ proc'[p].paths = proc[p].paths /\ proc'[p].index = index
    BY <1>3 DEF Clean, TypeInv, ProcOK
  <2>2. WorkClean(p)'
    BY <1>1, <1>3, <2>1 DEF Clean, WorkClean, Same, Tip
  <2>3. IndexClean(p)'
    BY <1>1, <1>3, <2>1 DEF Clean, IndexClean, Same, Tip
  <2>4. StagesIndex(p)' /\ CommitsWork(p)'
    BY <1>1, <2>1 DEF StagesIndex, CommitsWork
  <2> QED BY <2>2, <2>3, <2>4 DEF Clean
<1> QED BY <1>2, <1>3 DEF OpenRepo

\* What is staged: the command's entries as they are, the others as they were.
LEMMA StagedIsSame ==
    ASSUME NEW p \in Procs, NEW e
    PROVE  /\ e \in proc[p].paths => Same(e, Staged(p), work)
           /\ e \notin proc[p].paths => Same(e, Staged(p), proc[p].index)
BY DEF Same, Staged

LEMMA StagePathsKeepsClean ==
    ASSUME NEW p \in Procs, Clean(p), TypeInv', StagePaths(p)
    PROVE  Clean(p)'
<1>1. /\ proc[p].pc = "staging" /\ proc[p].index = index /\ index' = Staged(p)
      /\ UNCHANGED <<work, head, dirt>>
  BY DEF StagePaths, Clean, StagesIndex
<1>2. proc'[p].pc = "committing" /\ proc'[p].paths = proc[p].paths /\ proc'[p].tree = index'
  BY DEF StagePaths, Clean, TypeInv, ProcOK
<1>3. /\ \A e \in proc[p].paths : Same(e, index', work)
      /\ \A e \in Entries \ proc[p].paths : Same(e, index', index)
  BY <1>1, StagedIsSame
<1>4. WorkClean(p)'
  BY <1>1, <1>2 DEF Clean, WorkClean, Same, Tip
<1>5. IndexClean(p)'
  BY <1>1, <1>2, <1>3 DEF Clean, IndexClean, Same, Tip
<1>6. CommitsWork(p)'
  BY <1>1, <1>2, <1>3 DEF CommitsWork, Same
<1>7. StagesIndex(p)'
  BY <1>2 DEF StagesIndex
<1> QED BY <1>4, <1>5, <1>6, <1>7 DEF Clean

\* After the commit HEAD is the index, which has the command's entries from the
\* work tree and the other clean ones from the HEAD before.
LEMMA CommitTreeKeepsClean ==
    ASSUME NEW p \in Procs, Clean(p), TypeInv', CommitTree(p)
    PROVE  Clean(p)'
<1>1. /\ proc[p].pc = "committing" /\ proc[p].tree = index
      /\ UNCHANGED <<work, index>> /\ dirt' = dirt \ proc[p].paths
  BY DEF CommitTree, Clean, CommitsWork
<1>2. proc'[p].pc = "idle"
  BY Ends DEF CommitTree, Idle, Clean, TypeInv
<1>3. Tip' = index
  BY <1>1 DEF CommitTree, Committed, Tip
<1>4. \A e \in Entries \ dirt' : Same(e, index, work)
  BY <1>1 DEF Clean, WorkClean, IndexClean, CommitsWork, Same
<1>5. WorkClean(p)'
  BY <1>1, <1>3, <1>4 DEF WorkClean, Same
<1>6. IndexClean(p)'
  BY <1>1, <1>3 DEF IndexClean, Same
<1>7. StagesIndex(p)' /\ CommitsWork(p)'
  BY <1>2 DEF StagesIndex, CommitsWork
<1> QED BY <1>5, <1>6, <1>7 DEF Clean

LEMMA AbortKeepsClean ==
    ASSUME NEW p \in Procs, Clean(p), TypeInv', Abort(p)
    PROVE  Clean(p)'
<1>1. proc[p].pc # "idle" /\ Fail(p) /\ UNCHANGED <<work, index, head>>
  BY DEF Abort
<1> QED BY <1>1, FailKeepsClean

\* A .gpg-id written by hand is no entry.
LEMMA PlaceGpgIdKeepsClean ==
    ASSUME NEW p \in Procs, Clean(p), TypeInv',
           NEW e \in Entries, NEW ids \in GpgIdChoices, PlaceGpgId(e, ids)
    PROVE  Clean(p)'
<1>1. PICK dir \in Enclosing(e) : work' = With(work, GpgId(dir), [ids |-> ids])
  BY DEF PlaceGpgId
<1>2. GpgId(dir) \notin Entries
  BY EntriesAreBlobs, EnclosingAreDirs, GpgIdsAreNoBlobs DEF BlobPaths
<1>3. \A f \in Entries : Same(f, work', work)
  BY <1>1, <1>2 DEF Same, With
<1>4. proc[p].pc = "idle" /\ UNCHANGED <<index, head, proc, dirt>>
  BY DEF PlaceGpgId, MayRekey, AllIdle, Idle
<1>5. WorkClean(p)'
  BY <1>3, <1>4 DEF Clean, WorkClean, Same, Tip
<1>6. IndexClean(p)'
  BY <1>4 DEF Clean, IndexClean, Same, Tip
<1>7. StagesIndex(p)' /\ CommitsWork(p)'
  BY <1>4 DEF StagesIndex, CommitsWork
<1> QED BY <1>5, <1>6, <1>7 DEF Clean

-----------------------------------------------------------------------------
LEMMA InitClean == ASSUME NEW p \in Procs, Init, TypeInv PROVE Clean(p)
<1>1. proc[p].pc = "idle" /\ DOMAIN work = {} /\ DOMAIN index = {} /\ DOMAIN Tip = {}
  BY DEF Init, Idle, Tip, NoFiles
<1> QED BY <1>1 DEF Clean, WorkClean, IndexClean, StagesIndex, CommitsWork, Same

\* Every step of the only process p, of the user and of git keeps it clean.
LEMMA StepKeepsClean ==
    ASSUME NEW p, Procs = {p}, Clean(p), TypeInv', [Next]_vars
    PROVE  Clean(p)'
<1>1. ASSUME UNCHANGED <<work, index, head, proc, dirt>>
      PROVE  Clean(p)'
  BY <1>1 DEF Clean, WorkClean, IndexClean, StagesIndex, CommitsWork, Same, Tip
<1>2. CASE UNCHANGED vars
  BY <1>1, <1>2 DEF vars
<1>3. CASE Start(p)
  BY <1>3, StartShapes, BeginsClean DEF Clean
<1>4. CASE Run(p)
  BY <1>4, WriteFileKeepsClean, EncryptEntryKeepsClean, ShredFileKeepsClean,
     UnlinkFileKeepsClean, CreateRepoKeepsClean, LeaveEditorKeepsClean,
     OpenRepoKeepsClean, StagePathsKeepsClean, CommitTreeKeepsClean DEF Run
<1>5. CASE Abort(p)
  BY <1>5, AbortKeepsClean
<1>6. CASE \E e \in Entries, ids \in GpgIdChoices : PlaceGpgId(e, ids)
  BY <1>6, PlaceGpgIdKeepsClean
<1>7. CASE \E kind \in {"merge", "bisect"} : StartGitOp(kind)
  BY <1>1, <1>7 DEF StartGitOp
<1>8. CASE EndGitOp
  BY <1>1, <1>8 DEF EndGitOp
<1> QED BY <1>2, <1>3, <1>4, <1>5, <1>6, <1>7, <1>8 DEF Next

LEMMA CleanImpliesCommitted ==
    ASSUME NEW p, Procs = {p}, Clean(p)
    PROVE  OnlyFailuresLeaveDirt
<1>1. AllIdle => proc[p].pc = "idle"
  BY DEF AllIdle, Idle
<1> QED BY <1>1 DEF OnlyFailuresLeaveDirt, Clean, WorkClean, Same

\* "Every mutation auto-commits" (ADR-0004), for one process at a time and any
\* failures, whatever its commands do to whichever entries: when no command is
\* under way, an entry that differs from HEAD was left by a command that died,
\* failed, or found no repository to commit to.
THEOREM CommandsCommit ==
    ASSUME NEW p, Procs = {p}
    PROVE  Spec => []OnlyFailuresLeaveDirt
<1>1. Init => Clean(p)
  BY InitTypes, InitClean
<1>2. Clean(p) /\ [Next]_vars => Clean(p)'
  <2>1. Clean(p) /\ [Next]_vars => TypeInv'
    BY StepKeepsTypes DEF Clean
  <2> QED BY <2>1, StepKeepsClean
<1>3. Clean(p) => OnlyFailuresLeaveDirt
  BY CleanImpliesCommitted
<1> QED BY <1>1, <1>2, <1>3, PTL DEF Spec
-----------------------------------------------------------------------------
(* Recipients.  Operations on entries leave the .gpg-id files alone, so     *)
(* the recipients in scope stay what they were while a command runs; what   *)
(* it is about to write was encrypted to them when it was planned.  This    *)
(* needs that `init`, the only command that writes a .gpg-id, does not run  *)
(* beside others.                                                           *)

\* What is left to do after the first operation, with `more` before it.
LEMMA OpsAfter ==
    ASSUME NEW S, NEW todo \in Seq(S), todo # <<>>, NEW more \in Seq(S)
    PROVE  /\ more \o Tail(todo) \in Seq(S)
           /\ Len(more \o Tail(todo)) = Len(more) + Len(todo) - 1
           /\ \A i \in 1..Len(more) : (more \o Tail(todo))[i] = more[i]
           /\ \A i \in 2..Len(todo) : (more \o Tail(todo))[Len(more) + i - 1] = todo[i]
           /\ \A i \in 1..(Len(more) + Len(todo) - 1) :
                 i \in 1..Len(more) \/ \E j \in 2..Len(todo) : i = Len(more) + j - 1
<1>1. /\ Tail(todo) \in Seq(S) /\ Len(Tail(todo)) = Len(todo) - 1
      /\ \A i \in 1..(Len(todo) - 1) : Tail(todo)[i] = todo[i + 1]
      /\ Len(more) \in Nat /\ Len(todo) \in Nat /\ Len(todo) >= 1
  BY EmptySeq, HeadTailProperties, LenProperties
<1>2. /\ more \o Tail(todo) \in Seq(S)
      /\ Len(more \o Tail(todo)) = Len(more) + Len(Tail(todo))
      /\ \A i \in 1..(Len(more) + Len(Tail(todo))) :
            (more \o Tail(todo))[i] = IF i <= Len(more) THEN more[i] ELSE Tail(todo)[i - Len(more)]
  BY <1>1, ConcatProperties
<1>3. ASSUME NEW i \in 2..Len(todo) PROVE (more \o Tail(todo))[Len(more) + i - 1] = todo[i]
  <2>1. /\ Len(more) + i - 1 \in 1..(Len(more) + Len(Tail(todo)))
        /\ ~ (Len(more) + i - 1 <= Len(more)) /\ (Len(more) + i - 1) - Len(more) = i - 1
        /\ i - 1 \in 1..(Len(todo) - 1) /\ (i - 1) + 1 = i
    BY <1>1
  <2> QED BY <1>1, <1>2, <2>1
<1>4. ASSUME NEW i \in 1..(Len(more) + Len(todo) - 1), i \notin 1..Len(more)
      PROVE  \E j \in 2..Len(todo) : i = Len(more) + j - 1
  <2>1. i - Len(more) + 1 \in 2..Len(todo) /\ i = Len(more) + (i - Len(more) + 1) - 1
    BY <1>1, <1>4
  <2> QED BY <2>1
<1> QED BY <1>1, <1>2, <1>3, <1>4

Sealed(content, keys) == content = Garbage \/ content.keys = keys

WritesSealed(todo, e, keys) ==
    \A i \in 1..Len(todo) :
        todo[i].op = "write" /\ todo[i].path = e => Sealed(todo[i].content, keys)

SealInv ==
    /\ \A e \in EntriesOf(work) : Sealed(work[e], Scope(e))
    /\ \A p \in Procs : proc[p].pc = "files" =>
          \A e \in Entries : WritesSealed(proc[p].todo, e, Scope(e))
    /\ \A p \in Procs : proc[p].pc = "files" /\ proc[p].name = "init" =>
          Procs = {p} /\ EntriesOf(work) = {} /\ proc[p].paths \cap Entries = {}
    /\ \A p \in Procs : proc[p].pc = "files" /\ proc[p].name # "init" =>
          proc[p].paths \subseteq BlobPaths
    /\ \A p \in Procs : proc[p].pc = "editing" => proc[p].name = "edit"

\* The recipients of an entry depend on the .gpg-id files only.
LEMMA ScopeStays ==
    ASSUME NEW e \in Paths,
           \A f \in Paths \ BlobPaths :
               (f \in DOMAIN work' <=> f \in DOMAIN work)
                  /\ (f \in DOMAIN work => work'[f] = work[f])
    PROVE  Scope(e)' = Scope(e)
<1>1. \A d \in Enclosing(e) : GpgId(d) \in Paths \ BlobPaths
  BY EnclosingAreDirs, GpgIdsAreNoBlobs
<1> DEFINE dirs(w) == {d \in Enclosing(e) : GpgId(d) \in DOMAIN w}
           nearest(w) == {d \in dirs(w) : \A c \in dirs(w) : Len(c) <= Len(d)}
<1>2. dirs(work') = dirs(work)
  BY <1>1
<1>3. nearest(work') = nearest(work)
  BY <1>2
<1>4. \A d \in nearest(work) : work'[GpgId(d)] = work[GpgId(d)]
  BY <1>1
<1>5. UNION {work'[GpgId(d)].ids : d \in nearest(work')} = UNION {work[GpgId(d)].ids : d \in nearest(work)}
  BY <1>3, <1>4
<1>6. Scope(e) = UNION {work[GpgId(d)].ids : d \in nearest(work)}
  BY DEF Scope
<1>7. Scope(e)' = UNION {work'[GpgId(d)].ids : d \in nearest(work')}
  BY DEF Scope, Enclosing, GpgId
<1> QED BY <1>5, <1>6, <1>7

\* Writing or removing the file of an entry.
LEMMA BlobChangeKeepsScope ==
    ASSUME NEW f \in BlobPaths, NEW c, work' = With(work, f, c) \/ work' = Without(work, f) \/ work' = work,
           NEW e \in Entries
    PROVE  Scope(e)' = Scope(e)
<1>1. \A g \in Paths \ BlobPaths : (g \in DOMAIN work' <=> g \in DOMAIN work)
                                      /\ (g \in DOMAIN work => work'[g] = work[g])
  <2> SUFFICES ASSUME NEW g, g # f
               PROVE  (g \in DOMAIN work' <=> g \in DOMAIN work)
                         /\ (g \in DOMAIN work => work'[g] = work[g])
    OBVIOUS
  <2> QED BY DEF With, Without, Restrict
<1> QED BY <1>1, ScopeStays, EntriesAreBlobs DEF BlobPaths
\* One command moves; the others keep their recipients.
LEMMA MoveSeals ==
    ASSUME TypeInv, SealInv, NEW p \in Procs, NEW x, proc' = [proc EXCEPT ![p] = x],
           Procs = {p} \/ \A e \in Entries : Scope(e)' = Scope(e),
           \A e \in EntriesOf(work)' : Sealed(work'[e], Scope(e)'),
           x.pc = "files" => \A e \in Entries : WritesSealed(x.todo, e, Scope(e)'),
           x.pc = "files" /\ x.name = "init" =>
               Procs = {p} /\ EntriesOf(work)' = {} /\ x.paths \cap Entries = {},
           x.pc = "files" /\ x.name # "init" => x.paths \subseteq BlobPaths,
           x.pc = "editing" => x.name = "edit"
    PROVE  SealInv'
<1>1. \A q \in Procs : proc'[q] = IF q = p THEN x ELSE proc[q]
  BY DEF TypeInv, ProcOK
<1>2. proc'[p] = x /\ \A q \in Procs \ {p} : proc'[q] = proc[q]
  BY <1>1
<1>3. ASSUME NEW q \in Procs, proc'[q].pc = "files", NEW e \in Entries
      PROVE  WritesSealed(proc'[q].todo, e, Scope(e)')
  <2>1. CASE q = p
    BY <1>2, <1>3, <2>1
  <2>2. CASE q # p
    <3>1. proc'[q] = proc[q] /\ Scope(e)' = Scope(e)
      BY <1>2, <2>2
    <3> QED BY <1>3, <3>1 DEF SealInv
  <2> QED BY <2>1, <2>2
<1>4. ASSUME NEW q \in Procs, proc'[q].pc = "files", proc'[q].name = "init"
      PROVE  Procs = {q} /\ EntriesOf(work)' = {} /\ proc'[q].paths \cap Entries = {}
  <2>1. CASE q = p
    BY <1>2, <1>4, <2>1
  <2>2. CASE q # p
    BY <1>2, <1>4, <2>2 DEF SealInv
  <2> QED BY <2>1, <2>2
<1>5. ASSUME NEW q \in Procs, proc'[q].pc = "files", proc'[q].name # "init"
      PROVE  proc'[q].paths \subseteq BlobPaths
  <2>1. CASE q = p
    BY <1>2, <1>5, <2>1
  <2>2. CASE q # p
    BY <1>2, <1>5, <2>2 DEF SealInv
  <2> QED BY <2>1, <2>2
<1>6. ASSUME NEW q \in Procs, proc'[q].pc = "editing" PROVE proc'[q].name = "edit"
  <2>1. CASE q = p
    BY <1>2, <1>6, <2>1
  <2>2. CASE q # p
    BY <1>2, <1>6, <2>2 DEF SealInv
  <2> QED BY <2>1, <2>2
<1> QED BY <1>3, <1>4, <1>5, <1>6 DEF SealInv

\* No command moves and no file changes.
LEMMA SameWorkSeals ==
    ASSUME SealInv, work' = work, proc' = proc
    PROVE  SealInv'
<1>1. \A e \in Entries : Scope(e)' = Scope(e)
  BY DEF Scope, Enclosing, GpgId
<1>2. EntriesOf(work)' = EntriesOf(work)
  OBVIOUS
<1>3. \A e \in EntriesOf(work)' : Sealed(work'[e], Scope(e)')
  BY <1>1, <1>2 DEF SealInv, EntriesOf
<1>4. \A q \in Procs : proc'[q].pc = "files" =>
         \A e \in Entries : WritesSealed(proc'[q].todo, e, Scope(e)')
  BY <1>1 DEF SealInv
<1>5. \A q \in Procs : proc'[q] = proc[q]
  OBVIOUS
<1>6. /\ \A q \in Procs : proc'[q].pc = "files" /\ proc'[q].name = "init" =>
             Procs = {q} /\ EntriesOf(work)' = {} /\ proc'[q].paths \cap Entries = {}
      /\ \A q \in Procs : proc'[q].pc = "files" /\ proc'[q].name # "init" =>
             proc'[q].paths \subseteq BlobPaths
      /\ \A q \in Procs : proc'[q].pc = "editing" => proc'[q].name = "edit"
  BY <1>2, <1>5 DEF SealInv
<1> QED BY <1>3, <1>4, <1>6 DEF SealInv

\* A command moves without changing a file.
LEMMA MoveOnSeals ==
    ASSUME TypeInv, SealInv, NEW p \in Procs, NEW x, proc' = [proc EXCEPT ![p] = x], work' = work,
           x.pc = "files" => \A e \in Entries : WritesSealed(x.todo, e, Scope(e)),
           x.pc = "files" /\ x.name = "init" =>
               Procs = {p} /\ EntriesOf(work) = {} /\ x.paths \cap Entries = {},
           x.pc = "files" /\ x.name # "init" => x.paths \subseteq BlobPaths,
           x.pc = "editing" => x.name = "edit"
    PROVE  SealInv'
<1>1. \A e \in Entries : Scope(e)' = Scope(e)
  BY DEF Scope, Enclosing, GpgId
<1>2. EntriesOf(work)' = EntriesOf(work)
  OBVIOUS
<1>3. \A e \in EntriesOf(work)' : Sealed(work'[e], Scope(e)')
  BY <1>1, <1>2 DEF SealInv, EntriesOf
<1>4. x.pc = "files" => \A e \in Entries : WritesSealed(x.todo, e, Scope(e)')
  BY <1>1
<1> QED BY <1>1, <1>2, <1>3, <1>4, MoveSeals

LEMMA BeginSeals ==
    ASSUME TypeInv, SealInv, NEW p \in Procs, NEW name, NEW paths, NEW todo, NEW target,
           Begin(p, name, todo, paths, target), Unchanged,
           \A e \in Entries : WritesSealed(todo, e, Scope(e)),
           IF name = "init" THEN Procs = {p} /\ EntriesOf(work) = {} /\ paths \cap Entries = {}
                            ELSE paths \subseteq BlobPaths
    PROVE  SealInv'
<1> DEFINE x == [pc |-> "files", name |-> name, todo |-> todo,
                 paths |-> paths, target |-> target]
<1>1. proc' = [proc EXCEPT ![p] = x] /\ work' = work
  BY DEF Begin, Unchanged
<1>2. x.pc = "files" /\ x.todo = todo /\ x.name = name /\ x.paths = paths
  OBVIOUS
<1> HIDE DEF x
<1> QED BY <1>1, <1>2, MoveOnSeals

\* bypass init writes no entry, and there are none.
LEMMA StartInitSeals ==
    ASSUME TypeInv, SealInv, NEW p \in Procs, NEW ids \in GpgIdChoices, StartInit(p, ids),
           ~ Rekeying, "init" \notin Commands \/ Procs = {p}
    PROVE  SealInv'
<1> DEFINE g == ToWrite(GpgId(<<>>), [ids |-> ids])
           a == ToWrite(Attributes, [rule |-> TRUE])
           attrs == IF Attributes \in DOMAIN work THEN <<>> ELSE <<a>>
           paths == {GpgId(<<>>)} \cup {attrs[i].path : i \in DOMAIN attrs}
           todo == <<g>> \o attrs \o <<ToGitInit>>
<1>1. Begin(p, "init", todo, paths, {}) /\ Unchanged /\ MayRekey
  BY DEF StartInit
<1>2. Procs = {p} /\ EntriesOf(work) = {}
  BY <1>1 DEF Begin, MayRekey
<1>3. g.path = GpgId(<<>>) /\ a.path = Attributes /\ ToGitInit.op = "git_init"
  BY DEF ToWrite, ToGitInit
<1>4. GpgId(<<>>) \notin Entries /\ Attributes \notin Entries
  BY GpgIdsAreNoBlobs, EntriesAreBlobs, EmptySeq, StoreAssumption DEF Attributes
<1> HIDE DEF g, a
<1>5. <<g>> \in Seq({g, a, ToGitInit}) /\ <<ToGitInit>> \in Seq({g, a, ToGitInit})
  OBVIOUS
<1>13. attrs = <<>> \/ attrs = <<a>>
  OBVIOUS
<1> HIDE DEF attrs
<1>6. attrs \in Seq({a})
  <2>1. CASE attrs = <<>>
    BY <2>1
  <2>2. CASE attrs = <<a>>
    BY <2>2
  <2> QED BY <1>13, <2>1, <2>2
<1>7. attrs \in Seq({g, a, ToGitInit})
  BY <1>6
<1>8. todo \in Seq({g, a, ToGitInit})
  BY <1>5, <1>7, ConcatProperties
<1>9. \A i \in 1..Len(todo) : todo[i] \in {g, a, ToGitInit}
  BY <1>8, ElementOfSeq
<1>10. \A e \in Entries : WritesSealed(todo, e, Scope(e))
  BY <1>3, <1>4, <1>9 DEF WritesSealed
<1>11. \A i \in DOMAIN attrs : attrs[i].path = Attributes
  BY <1>3, <1>6
<1>12. paths \cap Entries = {}
  BY <1>4, <1>11
<1> HIDE DEF paths, todo
<1> QED BY <1>1, <1>2, <1>10, <1>12, BeginSeals

\* A copied file is encrypted for where it goes (transfer_blob).
LEMMA TransferredIsSealed ==
    ASSUME SealInv, NEW from \in Entries, NEW to \in Entries, NEW force,
           CanTransfer(from, to, force)
    PROVE  Sealed(Transferred(from, to), Scope(to))
<1>1. Sealed(work[from], Scope(from))
  BY DEF SealInv, CanTransfer, EntriesOf
<1> QED BY <1>1 DEF Sealed, Transferred, Cipher

LEMMA StartSeals ==
    ASSUME TypeInv, SealInv, NEW p \in Procs, Start(p), ~ Rekeying,
           "init" \notin Commands \/ Procs = {p}
    PROVE  SealInv'
<1> USE EntriesAreBlobs
<1>1. ASSUME NEW name, name # "init", NEW paths \in SUBSET BlobPaths, NEW todo, NEW target,
             Begin(p, name, todo, paths, target), Unchanged,
             \A e \in Entries : WritesSealed(todo, e, Scope(e))
      PROVE  SealInv'
  BY <1>1, BeginSeals
<1>2. ASSUME NEW ids \in GpgIdChoices, StartInit(p, ids) PROVE SealInv'
  BY <1>2, StartInitSeals
<1>3. ASSUME NEW e \in Entries, NEW force \in BOOLEAN, StartInsert(p, e, force) PROVE SealInv'
  <2>1. PICK target : Begin(p, "insert", <<ToSeal(e, made + 1)>>, {e}, target) /\ Unchanged
    BY <1>3 DEF StartInsert
  <2>2. \A f \in Entries : WritesSealed(<<ToSeal(e, made + 1)>>, f, Scope(f))
    BY DEF WritesSealed, ToSeal
  <2> QED BY <1>1, <2>1, <2>2
<1>4. ASSUME NEW e \in Entries, StartRemove(p, e) PROVE SealInv'
  <2>1. Begin(p, "remove", <<ToRemove(e)>>, {e}, {e}) /\ Unchanged
    BY <1>4 DEF StartRemove
  <2>2. \A f \in Entries : WritesSealed(<<ToRemove(e)>>, f, Scope(f))
    BY DEF WritesSealed, ToRemove
  <2> QED BY <1>1, <2>1, <2>2
<1>5. ASSUME NEW e \in Entries, StartEdit(p, e) PROVE SealInv'
  <2> DEFINE x == [pc |-> "editing", name |-> "edit", todo |-> <<>>, paths |-> {e}, target |-> {e}]
  <2>1. proc' = [proc EXCEPT ![p] = x] /\ work' = work
    BY <1>5 DEF StartEdit, Unchanged
  <2>2. x.pc = "editing" /\ x.name = "edit"
    OBVIOUS
  <2> HIDE DEF x
  <2> QED BY <2>1, <2>2, MoveOnSeals
<1>6. ASSUME NEW dir, StartRemoveRecursive(p, dir) PROVE SealInv'
  <2> DEFINE below == {e \in EntriesOf(work) : IsStrictPrefix(dir, e)}
             order == SetToSeq(below)
             todo == [i \in DOMAIN order |-> ToRemove(order[i])]
  <2>1. below \subseteq Entries /\ IsFiniteSet(below)
    BY StoreAssumption, FS_Subset DEF EntriesOf
  <2>2. Begin(p, "remove_recursive", todo, below, below) /\ Unchanged
    BY <1>6 DEF StartRemoveRecursive
  <2> HIDE DEF below
  <2>3. Cardinality(below) \in Nat /\ order \in [1..Cardinality(below) -> below]
    BY <2>1, Enumeration
  <2>4. \A e \in Entries : WritesSealed(todo, e, Scope(e))
    BY <2>3 DEF WritesSealed, ToRemove
  <2> HIDE DEF todo
  <2> QED BY <1>1, <2>1, <2>2, <2>4
<1>7. ASSUME NEW from \in Entries, NEW to \in Entries, NEW force \in BOOLEAN, StartCopy(p, from, to, force)
      PROVE  SealInv'
  <2>1. PICK target : Begin(p, "copy", <<ToWrite(to, Transferred(from, to))>>, {to}, target) /\ Unchanged
    BY <1>7 DEF StartCopy
  <2>2. Sealed(Transferred(from, to), Scope(to))
    BY <1>7, TransferredIsSealed DEF StartCopy
  <2>3. \A f \in Entries : WritesSealed(<<ToWrite(to, Transferred(from, to))>>, f, Scope(f))
    BY <2>2 DEF WritesSealed, ToWrite
  <2> QED BY <1>1, <2>1, <2>3
<1>8. ASSUME NEW from \in Entries, NEW to \in Entries, NEW force \in BOOLEAN, StartRename(p, from, to, force)
      PROVE  SealInv'
  <2>1. PICK target : Begin(p, "rename", <<ToWrite(to, Transferred(from, to)), ToRemove(from)>>,
                            {from, to}, target) /\ Unchanged
    BY <1>8 DEF StartRename
  <2>2. Sealed(Transferred(from, to), Scope(to))
    BY <1>8, TransferredIsSealed DEF StartRename
  <2>3. \A f \in Entries : WritesSealed(<<ToWrite(to, Transferred(from, to)), ToRemove(from)>>, f, Scope(f))
    BY <2>2 DEF WritesSealed, ToWrite, ToRemove
  <2> QED BY <1>1, <2>1, <2>3
<1>9. ASSUME Backup(p) PROVE SealInv'
  <2>1. work' = work /\ proc' = proc
    BY <1>9 DEF Backup
  <2> QED BY <2>1, SameWorkSeals
<1>10. ASSUME NEW in_place \in BOOLEAN, StartRestore(p, in_place) PROVE SealInv'
  <2> DEFINE S == DOMAIN bundle
             order == SetToSeq(S)
             todo == [i \in DOMAIN order |-> ToReplace(order[i], bundle[order[i]])]
  <2>1. S \subseteq Entries /\ IsFiniteSet(S)
    BY StoreAssumption, FS_Subset DEF TypeInv
  <2>2. PICK target : Begin(p, "restore", todo, S, target) /\ Unchanged
    BY <1>10 DEF StartRestore
  <2>3. Cardinality(S) \in Nat /\ order \in [1..Cardinality(S) -> S]
    BY <2>1, Enumeration
  <2>4. \A e \in Entries : WritesSealed(todo, e, Scope(e))
    BY <2>3 DEF WritesSealed, ToReplace
  <2> HIDE DEF todo, S
  <2> QED BY <1>1, <2>1, <2>2, <2>4
<1>11. ASSUME NEW batch \in BoundedSeq(Entries, MaxBatch), StartImport(p, batch) PROVE SealInv'
  <2> DEFINE at == Disambiguated(batch)
             todo == [i \in DOMAIN batch |-> ToReplace(at[i], made + i)]
  <2>1. PICK m \in 0..MaxBatch : batch \in [1..m -> Entries]
    BY DEF BoundedSeq, SeqOf
  <2>2. Begin(p, "import", todo, Range(at), {}) /\ Unchanged
    BY <1>11 DEF StartImport
  <2>3. Range(at) \subseteq BlobPaths
    BY <2>1, DisambiguatedAreBlobs DEF Range, Disambiguated
  <2>4. m \in Nat
    BY StoreAssumption
  <2>5. \A e \in Entries : WritesSealed(todo, e, Scope(e))
    BY <2>1, <2>4 DEF WritesSealed, ToReplace
  <2> HIDE DEF todo, at
  <2> QED BY <1>1, <2>2, <2>3, <2>5
<1> QED BY <1>2, <1>3, <1>4, <1>5, <1>6, <1>7, <1>8, <1>9, <1>10, <1>11 DEF Start

\* What is left after an operation writes what it wrote before, and what the
\* operation adds.
LEMMA RestSealed ==
    ASSUME NEW S, NEW todo \in Seq(S), todo # <<>>, NEW more \in Seq(S), NEW e, NEW keys,
           WritesSealed(todo, e, keys), WritesSealed(more, e, keys)
    PROVE  WritesSealed(more \o Tail(todo), e, keys)
<1>1. Len(more) \in Nat /\ Len(todo) \in Nat
  BY LenProperties
<1> SUFFICES ASSUME NEW i \in 1..Len(more \o Tail(todo)),
                    (more \o Tail(todo))[i].op = "write", (more \o Tail(todo))[i].path = e
             PROVE  Sealed((more \o Tail(todo))[i].content, keys)
  BY DEF WritesSealed
<1>2. i \in 1..(Len(more) + Len(todo) - 1)
  BY OpsAfter
<1>3. CASE i \in 1..Len(more)
  <2>1. (more \o Tail(todo))[i] = more[i]
    BY <1>3, OpsAfter
  <2> QED BY <1>3, <2>1 DEF WritesSealed
<1>4. CASE \E k \in 2..Len(todo) : i = Len(more) + k - 1
  <2>1. PICK k \in 2..Len(todo) : i = Len(more) + k - 1
    BY <1>4
  <2>2. (more \o Tail(todo))[i] = todo[k]
    BY <2>1, OpsAfter
  <2>3. k \in 1..Len(todo)
    BY <1>1
  <2> QED BY <2>2, <2>3 DEF WritesSealed
<1> QED BY <1>2, <1>3, <1>4, OpsAfter

LEMMA NothingWritten ==
    ASSUME NEW paths, NEW todo \in Seq(OpsOn(paths)), NEW e, e \notin paths, NEW keys
    PROVE  WritesSealed(todo, e, keys)
<1>1. \A i \in 1..Len(todo) : todo[i] \in OpsOn(paths)
  BY ElementOfSeq
<1> QED BY <1>1, OperationShapes DEF WritesSealed

\* An operation of a command is done, and the recipients are what they were.
LEMMA OperationSeals ==
    ASSUME TypeInv, SealInv, NEW p \in Procs, NEW op, AtOp(p, op),
           NEW more \in Seq(OpsOn(proc[p].paths)), Proceed(p, more),
           \A e \in Entries : Scope(e)' = Scope(e),
           \A e \in EntriesOf(work)' : Sealed(work'[e], Scope(e)),
           \A e \in Entries : WritesSealed(more, e, Scope(e)),
           proc[p].name = "init" => EntriesOf(work)' = {}
    PROVE  SealInv'
<1> DEFINE x == [pc |-> "files", name |-> proc[p].name, todo |-> more \o Tail(proc[p].todo),
                 paths |-> proc[p].paths, target |-> proc[p].target]
<1>1. proc[p].pc = "files" /\ proc[p].todo # <<>> /\ proc[p].todo \in Seq(OpsOn(proc[p].paths))
  BY CommandShapes DEF AtOp, TypeInv, ProcOK
<1>2. proc' = [proc EXCEPT ![p] = x]
  BY DEF Proceed
<1>3. /\ x.pc = "files" /\ x.name = proc[p].name /\ x.paths = proc[p].paths
      /\ x.todo = more \o Tail(proc[p].todo)
  OBVIOUS
<1> HIDE DEF x
<1>4. \A e \in Entries : WritesSealed(x.todo, e, Scope(e)')
  <2> SUFFICES ASSUME NEW e \in Entries PROVE WritesSealed(x.todo, e, Scope(e))
    OBVIOUS
  <2>1. WritesSealed(proc[p].todo, e, Scope(e))
    BY <1>1 DEF SealInv
  <2> QED BY <1>1, <1>3, <2>1, RestSealed
<1>5. x.name = "init" => Procs = {p} /\ EntriesOf(work)' = {} /\ x.paths \cap Entries = {}
  BY <1>1, <1>3 DEF SealInv
<1>6. x.name # "init" => x.paths \subseteq BlobPaths
  BY <1>1, <1>3 DEF SealInv
<1>7. \A e \in EntriesOf(work)' : Sealed(work'[e], Scope(e)')
  BY DEF EntriesOf
<1> QED BY <1>2, <1>3, <1>4, <1>5, <1>6, <1>7, MoveSeals

LEMMA WriteFileSeals ==
    ASSUME TypeInv, SealInv, NEW p \in Procs, WriteFile(p)
    PROVE  SealInv'
<1> DEFINE o == Head(proc[p].todo)
<1>1. AtOp(p, "write") /\ ProcOK /\ work' = With(work, o.path, o.content) /\ Proceed(p, <<>>)
  BY DEF WriteFile, TypeInv
<1>2. /\ proc[p].pc = "files" /\ proc[p].todo # <<>> /\ o \in OpsOn(proc[p].paths) /\ o.op = "write"
      /\ proc[p].todo \in Seq(OpsOn(proc[p].paths)) /\ Tail(proc[p].todo) \in Seq(OpsOn(proc[p].paths))
  BY <1>1, AtOperation, CommandShapes DEF ProcOK
<1>3. o.path \in proc[p].paths
  BY <1>2, OperationShapes
<1>4. <<>> \in Seq(OpsOn(proc[p].paths)) /\ \A e \in Entries : WritesSealed(<<>>, e, Scope(e))
  BY DEF WritesSealed
<1>5. o = proc[p].todo[1] /\ 1 \in 1..Len(proc[p].todo)
  BY <1>2, EmptySeq, LenProperties
<1>6. CASE proc[p].name # "init"
  <2>1. o.path \in BlobPaths
    BY <1>2, <1>3, <1>6 DEF SealInv
  <2>2. \A e \in Entries : Scope(e)' = Scope(e)
    BY <1>1, <2>1, BlobChangeKeepsScope
  <2>3. ASSUME NEW e \in EntriesOf(work)' PROVE Sealed(work'[e], Scope(e))
    <3>1. e \in Entries /\ (e = o.path \/ e \in DOMAIN work)
      BY <1>1, <2>3 DEF EntriesOf, With
    <3>2. CASE e = o.path
      <4>1. work'[e] = o.content
        BY <1>1, <3>2 DEF With
      <4>2. WritesSealed(proc[p].todo, e, Scope(e))
        BY <1>2, <3>1 DEF SealInv
      <4>3. Sealed(o.content, Scope(e))
        BY <1>2, <1>5, <3>2, <4>2 DEF WritesSealed
      <4> QED BY <4>1, <4>3
    <3>3. CASE e # o.path
      <4>1. work'[e] = work[e] /\ e \in EntriesOf(work)
        BY <1>1, <3>1, <3>3 DEF With, EntriesOf
      <4> QED BY <4>1 DEF SealInv
    <3> QED BY <3>2, <3>3
  <2> QED BY <1>1, <1>4, <1>6, <2>2, <2>3, OperationSeals
<1>7. CASE proc[p].name = "init"
  <2> DEFINE x == [pc |-> "files", name |-> proc[p].name, todo |-> <<>> \o Tail(proc[p].todo),
                   paths |-> proc[p].paths, target |-> proc[p].target]
  <2>1. proc' = [proc EXCEPT ![p] = x]
    BY <1>1 DEF Proceed
  <2>2. /\ x.pc = "files" /\ x.name = "init" /\ x.paths = proc[p].paths
        /\ x.todo = <<>> \o Tail(proc[p].todo)
    BY <1>7
  <2> HIDE DEF x
  <2>3. Procs = {p} /\ EntriesOf(work) = {} /\ proc[p].paths \cap Entries = {}
    BY <1>2, <1>7 DEF SealInv
  <2>4. EntriesOf(work)' = {}
    BY <1>1, <1>3, <2>3 DEF EntriesOf, With
  <2>5. x.todo \in Seq(OpsOn(proc[p].paths))
    BY <1>2, <1>4, <2>2, ConcatProperties
  <2>6. \A e \in Entries : WritesSealed(x.todo, e, Scope(e)')
    BY <2>3, <2>5, NothingWritten
  <2> QED BY <2>1, <2>2, <2>3, <2>4, <2>6, MoveSeals
<1> QED BY <1>6, <1>7

\* What a file operation of a .gpg-id's neighbours leaves in the entries.
LEMMA BlobChangeSeals ==
    ASSUME SealInv, NEW f \in BlobPaths, NEW c,
           (work' = With(work, f, c) /\ c = Garbage) \/ work' = Without(work, f) \/ work' = work,
           NEW e \in EntriesOf(work)'
    PROVE  Sealed(work'[e], Scope(e))
<1>1. e \in Entries /\ e \in DOMAIN work'
  BY DEF EntriesOf
<1>2. work'[e] = Garbage \/ (e \in DOMAIN work /\ work'[e] = work[e])
  BY <1>1 DEF With, Without, Restrict
<1>3. e \in DOMAIN work => Sealed(work[e], Scope(e))
  BY <1>1 DEF SealInv, EntriesOf
<1> QED BY <1>2, <1>3 DEF Sealed

\* An entry is encrypted to the recipients it has then (insert).
LEMMA EncryptEntrySeals ==
    ASSUME TypeInv, SealInv, NEW p \in Procs, EncryptEntry(p)
    PROVE  SealInv'
<1> DEFINE o == Head(proc[p].todo)
           c == Cipher(o.secret, Scope(o.path))
           write == ToWrite(o.path, c)
           remove == ToRemove(o.path)
<1>1. AtOp(p, "encrypt") /\ ProcOK /\ work' = work
  BY DEF EncryptEntry, TypeInv
<1>2. /\ proc[p].pc = "files" /\ o \in OpsOn(proc[p].paths) /\ o.op = "encrypt"
  BY <1>1, AtOperation
<1>3. o.path \in proc[p].paths /\ o.path \in BlobPaths /\ o.path \in Paths /\ o.secret \in 0..MaxSecrets
  BY <1>2, OperationShapes
<1>4. \A e \in Entries : Scope(e)' = Scope(e)
  BY <1>1 DEF Scope, Enclosing, GpgId
<1>5. \A e \in EntriesOf(work)' : Sealed(work'[e], Scope(e))
  BY <1>1, <1>4 DEF SealInv, EntriesOf
<1>6. proc[p].name = "init" => EntriesOf(work)' = {}
  BY <1>1, <1>2 DEF SealInv, EntriesOf
<1>7. c \in Blobs
  BY <1>3, ScopeIsKeys DEF TypeInv, Cipher, Blobs
<1>8. Sealed(c, Scope(o.path))
  BY DEF Sealed, Cipher
<1>9. /\ write.op = "write" /\ write.path = o.path /\ write.content = c
      /\ remove.op = "remove" /\ remove.path = o.path
  BY DEF ToWrite, ToRemove
<1>10. write \in OpsOn(proc[p].paths) /\ remove \in OpsOn(proc[p].paths)
  <2>1. Fits(o.path, c)
    BY <1>3, <1>7 DEF Fits
  <2> HIDE DEF c
  <2> QED BY <1>3, <1>7, <2>1 DEF OpsOn, Ops, WriteOps, RemoveOps, ToWrite, ToRemove, Contents
<1> HIDE DEF write, remove, c
<1>11. CASE Scope(o.path) = {}
  <2>1. proc' = [proc EXCEPT ![p] = Idle]
    BY <1>11 DEF EncryptEntry, Fail, End
  <2> QED BY <1>1, <2>1, MoveOnSeals DEF Idle
<1>12. CASE Scope(o.path) # {}
  <2> DEFINE more == IF o.shred THEN <<remove, write>> ELSE <<write>>
  <2>1. Proceed(p, more)
    BY <1>12 DEF EncryptEntry, c, write, remove
  <2>2. more \in Seq(OpsOn(proc[p].paths))
    <3>1. more \in {<<remove, write>>, <<write>>}
      OBVIOUS
    <3>2. <<remove, write>> \in Seq(OpsOn(proc[p].paths)) /\ <<write>> \in Seq(OpsOn(proc[p].paths))
      BY <1>10
    <3> HIDE DEF more
    <3> QED BY <3>1, <3>2
  <2>3. \A e \in Entries : WritesSealed(more, e, Scope(e))
    BY <1>8, <1>9 DEF WritesSealed
  <2> HIDE DEF more
  <2> QED BY <1>1, <1>4, <1>5, <1>6, <2>1, <2>2, <2>3, OperationSeals
<1> QED BY <1>11, <1>12

LEMMA ShredFileSeals ==
    ASSUME TypeInv, SealInv, NEW p \in Procs, ShredFile(p)
    PROVE  SealInv'
<1> DEFINE o == Head(proc[p].todo)
           unlink == ToUnlink(o.path)
<1>1. AtOp(p, "remove") /\ ProcOK
  BY DEF ShredFile, TypeInv
<1>2. proc[p].pc = "files" /\ o \in OpsOn(proc[p].paths) /\ o.op = "remove"
  BY <1>1, AtOperation
<1>3. o.path \in proc[p].paths /\ o.path \in BlobPaths
  BY <1>2, OperationShapes
<1>4. unlink \in OpsOn(proc[p].paths) /\ unlink.op = "unlink"
  BY <1>3 DEF OpsOn, Ops, RemoveOps, ToUnlink
<1>5. /\ <<unlink>> \in Seq(OpsOn(proc[p].paths)) /\ <<>> \in Seq(OpsOn(proc[p].paths))
      /\ \A e \in Entries : WritesSealed(<<unlink>>, e, Scope(e)) /\ WritesSealed(<<>>, e, Scope(e))
  BY <1>4 DEF WritesSealed
<1>6. PICK more \in {<<unlink>>, <<>>} : Proceed(p, more)
  BY DEF ShredFile
<1>7. work' = With(work, o.path, Garbage) \/ work' = work
  BY DEF ShredFile
<1>8. \A e \in Entries : Scope(e)' = Scope(e)
  BY <1>3, <1>7, BlobChangeKeepsScope
<1>9. \A e \in EntriesOf(work)' : Sealed(work'[e], Scope(e))
  BY <1>3, <1>7, BlobChangeSeals
<1>10. proc[p].name = "init" => EntriesOf(work)' = {}
  BY <1>2, <1>3, <1>7 DEF SealInv, EntriesOf, With
<1> QED BY <1>1, <1>5, <1>6, <1>8, <1>9, <1>10, OperationSeals

LEMMA UnlinkFileSeals ==
    ASSUME TypeInv, SealInv, NEW p \in Procs, UnlinkFile(p)
    PROVE  SealInv'
<1> DEFINE o == Head(proc[p].todo)
<1>1. AtOp(p, "unlink") /\ ProcOK /\ work' = Without(work, o.path) /\ Proceed(p, <<>>)
  BY DEF UnlinkFile, TypeInv
<1>2. proc[p].pc = "files" /\ o \in OpsOn(proc[p].paths) /\ o.op = "unlink"
  BY <1>1, AtOperation
<1>3. o.path \in proc[p].paths /\ o.path \in BlobPaths
  BY <1>2, OperationShapes
<1>4. <<>> \in Seq(OpsOn(proc[p].paths)) /\ \A e \in Entries : WritesSealed(<<>>, e, Scope(e))
  BY DEF WritesSealed
<1>5. \A e \in Entries : Scope(e)' = Scope(e)
  BY <1>1, <1>3, BlobChangeKeepsScope
<1>6. \A e \in EntriesOf(work)' : Sealed(work'[e], Scope(e))
  BY <1>1, <1>3, BlobChangeSeals
<1>7. proc[p].name = "init" => EntriesOf(work)' = {}
  BY <1>1, <1>2 DEF SealInv, EntriesOf, Without, Restrict
<1> QED BY <1>1, <1>4, <1>5, <1>6, <1>7, OperationSeals

LEMMA CreateRepoSeals ==
    ASSUME TypeInv, SealInv, NEW p \in Procs, CreateRepo(p)
    PROVE  SealInv'
<1>1. AtOp(p, "git_init") /\ proc[p].pc = "files" /\ work' = work /\ Proceed(p, <<>>)
  BY DEF CreateRepo, AtOp
<1>2. <<>> \in Seq(OpsOn(proc[p].paths)) /\ \A e \in Entries : WritesSealed(<<>>, e, Scope(e))
  BY DEF WritesSealed
<1>3. \A e \in Entries : Scope(e)' = Scope(e)
  BY <1>1 DEF Scope, Enclosing, GpgId
<1>4. \A e \in EntriesOf(work)' : Sealed(work'[e], Scope(e))
  BY <1>1 DEF SealInv, EntriesOf
<1>5. proc[p].name = "init" => EntriesOf(work)' = {}
  BY <1>1 DEF SealInv, EntriesOf
<1> QED BY <1>1, <1>2, <1>3, <1>4, <1>5, OperationSeals
LEMMA LeaveEditorSeals ==
    ASSUME TypeInv, SealInv, NEW p \in Procs, LeaveEditor(p)
    PROVE  SealInv'
<1>1. /\ proc[p].pc = "editing" /\ proc[p].name = "edit" /\ proc[p].paths \subseteq Entries
      /\ work' = work
  BY CommandShapes DEF LeaveEditor, SealInv, TypeInv, ProcOK, Unchanged
<1>2. CASE proc' = [proc EXCEPT ![p] = Idle]
  BY <1>1, <1>2, MoveOnSeals DEF Idle
<1>3. CASE \E e \in proc[p].paths :
              proc' = [proc EXCEPT ![p] =
                  [pc |-> "files", name |-> @.name, todo |-> <<ToSeal(e, made + 1)>>,
                   paths |-> @.paths, target |-> @.target]]
  <2>1. PICK e \in proc[p].paths :
              proc' = [proc EXCEPT ![p] =
                  [pc |-> "files", name |-> @.name, todo |-> <<ToSeal(e, made + 1)>>,
                   paths |-> @.paths, target |-> @.target]]
    BY <1>3
  <2> DEFINE x == [pc |-> "files", name |-> proc[p].name, todo |-> <<ToSeal(e, made + 1)>>,
                   paths |-> proc[p].paths, target |-> proc[p].target]
  <2>2. proc' = [proc EXCEPT ![p] = x]
    BY <2>1
  <2>3. /\ x.pc = "files" /\ x.name = "edit" /\ x.todo = <<ToSeal(e, made + 1)>>
        /\ x.paths = proc[p].paths
    BY <1>1
  <2> HIDE DEF x
  <2>4. \A f \in Entries : WritesSealed(<<ToSeal(e, made + 1)>>, f, Scope(f))
    BY DEF WritesSealed, ToSeal
  <2>5. x.paths \subseteq BlobPaths
    BY <1>1, <2>3, EntriesAreBlobs
  <2> QED BY <1>1, <2>2, <2>3, <2>4, <2>5, MoveOnSeals
<1> QED BY <1>2, <1>3 DEF LeaveEditor

\* Commits change no file.
LEMMA CommitSeals ==
    ASSUME TypeInv, SealInv, NEW p \in Procs,
           OpenRepo(p) \/ StagePaths(p) \/ CommitTree(p) \/ Abort(p)
    PROVE  SealInv'
<1>1. work' = work
  BY DEF OpenRepo, StagePaths, CommitTree, Abort
<1>2. CASE proc' = [proc EXCEPT ![p] = Idle]
  BY <1>1, <1>2, MoveOnSeals DEF Idle
<1>3. ASSUME NEW x, x.pc \in {"staging", "committing"}, proc' = [proc EXCEPT ![p] = x]
      PROVE  SealInv'
  BY <1>1, <1>3, MoveOnSeals
<1>4. CASE OpenRepo(p)
  <2> DEFINE x == [pc |-> "staging", name |-> proc[p].name, paths |-> proc[p].paths,
                   target |-> proc[p].target, index |-> index]
  <2>1. proc' = [proc EXCEPT ![p] = x] \/ proc' = [proc EXCEPT ![p] = Idle]
    BY <1>4 DEF OpenRepo, Fail, End
  <2>2. x.pc = "staging"
    OBVIOUS
  <2> HIDE DEF x
  <2> QED BY <1>2, <1>3, <2>1, <2>2
<1>5. CASE StagePaths(p)
  <2>3. PICK staged : staged = index'
    OBVIOUS
  <2> DEFINE x == [pc |-> "committing", name |-> proc[p].name, paths |-> proc[p].paths,
                   target |-> proc[p].target, tree |-> staged]
  <2>1. proc' = [proc EXCEPT ![p] = x]
    BY <1>5, <2>3 DEF StagePaths
  <2>2. x.pc = "committing"
    OBVIOUS
  <2> HIDE DEF x
  <2> QED BY <1>1, <2>1, <2>2, MoveOnSeals
<1>6. CASE CommitTree(p)
  BY <1>2, <1>6 DEF CommitTree, End
<1>7. CASE Abort(p)
  BY <1>2, <1>7 DEF Abort, Fail, End
<1> QED BY <1>4, <1>5, <1>6, <1>7

\* A .gpg-id comes by hand only while there are no entries (~Rekeying).
LEMMA PlaceGpgIdSeals ==
    ASSUME TypeInv, ~ Rekeying, NEW e \in Entries, NEW ids \in GpgIdChoices, PlaceGpgId(e, ids)
    PROVE  SealInv'
<1>1. PICK dir \in Enclosing(e) : work' = With(work, GpgId(dir), [ids |-> ids])
  BY DEF PlaceGpgId
<1>2. GpgId(dir) \notin Entries
  BY EntriesAreBlobs, EnclosingAreDirs, GpgIdsAreNoBlobs DEF BlobPaths
<1>3. EntriesOf(work)' = {}
  BY <1>1, <1>2 DEF PlaceGpgId, MayRekey, EntriesOf, With
<1>4. \A q \in Procs : proc'[q].pc = "idle"
  BY DEF PlaceGpgId, MayRekey, AllIdle, Idle
<1> QED BY <1>3, <1>4 DEF SealInv

LEMMA InitSeals == ASSUME Init PROVE SealInv
<1>1. EntriesOf(work) = {} /\ \A q \in Procs : proc[q].pc = "idle"
  BY DEF Init, Idle, NoFiles, EntriesOf
<1> QED BY <1>1 DEF SealInv

LEMMA StepSeals ==
    ASSUME TypeInv, SealInv, [Next]_vars, ~ Rekeying,
           "init" \notin Commands \/ \E p : Procs = {p}
    PROVE  SealInv'
<1>1. \A p \in Procs : "init" \notin Commands \/ Procs = {p}
  OBVIOUS
<1>2. CASE UNCHANGED vars
  BY <1>2, SameWorkSeals DEF vars
<1>3. ASSUME NEW p \in Procs, Start(p) PROVE SealInv'
  BY <1>1, <1>3, StartSeals
<1>4. ASSUME NEW p \in Procs, Run(p) PROVE SealInv'
  BY <1>4, WriteFileSeals, EncryptEntrySeals, ShredFileSeals, UnlinkFileSeals, CreateRepoSeals,
     LeaveEditorSeals, CommitSeals DEF Run
<1>5. ASSUME NEW p \in Procs, Abort(p) PROVE SealInv'
  BY <1>5, CommitSeals
<1>6. CASE \E e \in Entries, ids \in GpgIdChoices : PlaceGpgId(e, ids)
  BY <1>6, PlaceGpgIdSeals
<1>7. CASE \E kind \in {"merge", "bisect"} : StartGitOp(kind)
  BY <1>7, SameWorkSeals DEF StartGitOp
<1>8. CASE EndGitOp
  BY <1>8, SameWorkSeals DEF EndGitOp
<1> QED BY <1>2, <1>3, <1>4, <1>5, <1>6, <1>7, <1>8 DEF Next

\* pass semantics of .gpg-id (Store::resolve_recipients, transfer_blob): as long
\* as no .gpg-id changes under existing entries, whatever commands interleave or
\* die, every entry in the work tree is encrypted to the recipients of the
\* directory it is in.  `init`, which finds a store empty and writes its .gpg-id
\* later, is run by the only process there is.
THEOREM EntriesAreInScope ==
    ASSUME ~ Rekeying, "init" \notin Commands \/ \E p : Procs = {p}
    PROVE  Spec => []RecipientsInScope
<1>1. Init => SealInv
  BY InitSeals
<1>2. TypeInv /\ SealInv /\ [Next]_vars => SealInv'
  BY StepSeals
<1>3. SealInv => RecipientsInScope
  BY DEF SealInv, RecipientsInScope, Sealed
<1> QED BY <1>1, <1>2, <1>3, TypesHold, PTL DEF Spec
-----------------------------------------------------------------------------
(* No secret is lost but on purpose.  An operation still to come is harmless *)
(* when it is at an entry the user asked to give up, when it fills an entry  *)
(* that is not there, when it unlinks what is shredded, or when it is the    *)
(* second half of a rename whose secret is, or is about to be, at another    *)
(* entry too.                                                                *)

Touches(o, f) == o.op # "git_init" /\ o.path = f

Fills(todo, files, i) ==
    /\ todo[i].path \notin DOMAIN files
    /\ \A j \in 1..(i - 1) : Touches(todo[j], todo[i].path) => todo[j].op = "remove"

IsElsewhere(f, files) == \E e \in EntriesOf(files) \ {f} : files[e].secret = files[f].secret

MovesAway(todo, files, i) ==
    /\ todo[i].op = "remove"
    /\ todo[i].path \in DOMAIN files
    /\ \/ i = 1 /\ IsElsewhere(todo[1].path, files)
       \/ /\ i = 2 /\ todo[1].op = "write" /\ todo[1].path \in Entries \ {todo[2].path}
          /\ todo[1].content.secret = files[todo[2].path].secret

Harmless(todo, target, files, i) ==
    \/ todo[i].op = "git_init"
    \/ todo[i].path \notin Entries
    \/ todo[i].path \in target
    \/ Fills(todo, files, i)
    \/ i = 1 /\ todo[1].op = "unlink" /\ files[todo[1].path] = Garbage
    \/ MovesAway(todo, files, i)

HarmlessInv(p) ==
    /\ proc[p].pc = "files" =>
          \A i \in 1..Len(proc[p].todo) : Harmless(proc[p].todo, proc[p].target, work, i)
    /\ proc[p].pc = "editing" => proc[p].target = proc[p].paths

\* What was harmless stays so when the first operation is done.
LEMMA RestHarmless ==
    ASSUME NEW S, NEW todo \in Seq(S), todo # <<>>, NEW more \in Seq(S), NEW target,
           NEW files, NEW after,
           \A i \in 1..Len(todo) : Harmless(todo, target, files, i),
           \A f : f \notin DOMAIN files /\ (Touches(todo[1], f) => todo[1].op = "remove") =>
                      /\ f \notin DOMAIN after
                      /\ \A j \in 1..Len(more) : Touches(more[j], f) => more[j].op = "remove",
           todo[1].op = "write" =>
               after = With(files, todo[1].path, todo[1].content) /\ more = <<>>,
           \A j \in 1..Len(more) : Harmless(more \o Tail(todo), target, after, j)
    PROVE  \A k \in 1..Len(more \o Tail(todo)) : Harmless(more \o Tail(todo), target, after, k)
<1> DEFINE rest == more \o Tail(todo)
<1>1. Len(more) \in Nat /\ Len(todo) \in Nat /\ Len(todo) >= 1
  BY EmptySeq, LenProperties
<1>2. /\ Len(rest) = Len(more) + Len(todo) - 1
      /\ \A i \in 1..Len(more) : rest[i] = more[i]
      /\ \A i \in 2..Len(todo) : rest[Len(more) + i - 1] = todo[i]
      /\ \A i \in 1..(Len(more) + Len(todo) - 1) :
            i \in 1..Len(more) \/ \E j \in 2..Len(todo) : i = Len(more) + j - 1
  BY OpsAfter
<1>3. \A j \in 1..Len(more) : Harmless(rest, target, after, j)
  OBVIOUS
<1> HIDE DEF rest
<1> SUFFICES ASSUME NEW k \in 1..Len(rest) PROVE Harmless(rest, target, after, k)
  BY DEF rest
<1>4. CASE k \in 1..Len(more)
  BY <1>3, <1>4
<1>5. ASSUME NEW i \in 2..Len(todo), k = Len(more) + i - 1
      PROVE  Harmless(rest, target, after, k)
  <2>1. i \in 1..Len(todo) /\ rest[k] = todo[i] /\ 1 \in 1..(i - 1) /\ i # 1
    BY <1>1, <1>2, <1>5
  <2>2. Harmless(todo, target, files, i)
    BY <2>1
  <2>3. CASE Fills(todo, files, i)
    <3> DEFINE f == todo[i].path
    <3>1. f \notin DOMAIN files /\ (Touches(todo[1], f) => todo[1].op = "remove")
      BY <2>1, <2>3 DEF Fills
    <3>2. /\ f \notin DOMAIN after
          /\ \A j \in 1..Len(more) : Touches(more[j], f) => more[j].op = "remove"
      BY <3>1
    <3>3. ASSUME NEW j \in 1..(k - 1), Touches(rest[j], f) PROVE rest[j].op = "remove"
      <4>1. j \in 1..(Len(more) + Len(todo) - 1)
        BY <1>1, <1>5
      <4>2. CASE j \in 1..Len(more)
        BY <1>2, <3>2, <3>3, <4>2
      <4>3. CASE \E m \in 2..Len(todo) : j = Len(more) + m - 1
        <5>1. PICK m \in 2..Len(todo) : j = Len(more) + m - 1
          BY <4>3
        <5>2. rest[j] = todo[m]
          BY <1>2, <5>1
        <5>3. Len(more) + m - 1 <= Len(more) + i - 1 - 1
          BY <1>1, <1>5, <3>3, <5>1
        <5>4. m \in 1..(i - 1)
          BY <1>1, <5>3
        <5> QED BY <2>3, <3>3, <5>2, <5>4 DEF Fills
      <4> QED BY <1>2, <4>1, <4>2, <4>3
    <3> QED BY <2>1, <3>2, <3>3 DEF Harmless, Fills
  <2>4. CASE MovesAway(todo, files, i)
    <3>1. /\ i = 2 /\ todo[1].op = "write" /\ todo[1].path \in Entries \ {todo[2].path}
          /\ todo[1].content.secret = files[todo[2].path].secret
          /\ todo[2].op = "remove" /\ todo[2].path \in DOMAIN files
      BY <2>1, <2>4 DEF MovesAway
    <3>2. after = With(files, todo[1].path, todo[1].content) /\ more = <<>>
      BY <3>1
    <3>3. k = 1 /\ rest[1] = todo[2]
      BY <1>5, <2>1, <3>1, <3>2
    <3>4. /\ todo[1].path \in EntriesOf(after) /\ after[todo[1].path] = todo[1].content
          /\ todo[2].path \in DOMAIN after /\ after[todo[2].path] = files[todo[2].path]
      BY <3>1, <3>2 DEF With, EntriesOf
    <3>5. IsElsewhere(todo[2].path, after)
      BY <3>1, <3>4 DEF IsElsewhere
    <3> QED BY <3>1, <3>3, <3>4, <3>5 DEF Harmless, MovesAway
  <2>5. CASE todo[i].op = "git_init" \/ todo[i].path \notin Entries \/ todo[i].path \in target
    BY <2>1, <2>5 DEF Harmless
  <2> QED BY <2>1, <2>2, <2>3, <2>4, <2>5 DEF Harmless
<1>6. k \in 1..(Len(more) + Len(todo) - 1)
  BY <1>2
<1> QED BY <1>2, <1>4, <1>5, <1>6

LEMMA OperationHarmless ==
    ASSUME TypeInv, NEW p \in Procs, HarmlessInv(p), NEW op, AtOp(p, op),
           NEW more \in Seq(OpsOn(proc[p].paths)), Proceed(p, more), NEW after, after = work',
           \A f : f \notin DOMAIN work /\ (Touches(proc[p].todo[1], f) => proc[p].todo[1].op = "remove") =>
                      /\ f \notin DOMAIN after
                      /\ \A j \in 1..Len(more) : Touches(more[j], f) => more[j].op = "remove",
           proc[p].todo[1].op = "write" =>
               /\ after = With(work, proc[p].todo[1].path, proc[p].todo[1].content)
               /\ more = <<>>,
           \A j \in 1..Len(more) :
               Harmless(more \o Tail(proc[p].todo), proc[p].target, after, j)
    PROVE  HarmlessInv(p)'
<1>1. proc[p].pc = "files" /\ proc[p].todo # <<>> /\ proc[p].todo \in Seq(OpsOn(proc[p].paths))
  BY CommandShapes DEF AtOp, TypeInv, ProcOK
<1>2. proc'[p] = [pc |-> "files", name |-> proc[p].name, todo |-> more \o Tail(proc[p].todo),
                  paths |-> proc[p].paths, target |-> proc[p].target]
  BY <1>1, Proceeds DEF TypeInv
<1>3. proc'[p].pc = "files" /\ proc'[p].todo = more \o Tail(proc[p].todo) /\ proc'[p].target = proc[p].target
  BY <1>2
<1>4. \A i \in 1..Len(proc[p].todo) : Harmless(proc[p].todo, proc[p].target, work, i)
  BY <1>1 DEF HarmlessInv
<1>5. \A k \in 1..Len(more \o Tail(proc[p].todo)) :
         Harmless(more \o Tail(proc[p].todo), proc[p].target, after, k)
  BY <1>1, <1>4, RestHarmless
<1>6. \A k \in 1..Len(proc'[p].todo) : Harmless(proc'[p].todo, proc'[p].target, work', k)
  BY <1>3, <1>5
<1> QED BY <1>3, <1>6 DEF HarmlessInv

\* The operation a command is at.
LEMMA FirstOperation ==
    ASSUME TypeInv, NEW p \in Procs, HarmlessInv(p), NEW op, AtOp(p, op)
    PROVE  /\ proc[p].pc = "files" /\ proc[p].todo # <<>> /\ proc[p] # Idle
           /\ Head(proc[p].todo) = proc[p].todo[1]
           /\ proc[p].todo[1].op = op
           /\ proc[p].todo[1] \in OpsOn(proc[p].paths)
           /\ op # "git_init" => proc[p].todo[1].path \in proc[p].paths
           /\ Harmless(proc[p].todo, proc[p].target, work, 1)
           /\ <<>> \in Seq(OpsOn(proc[p].paths))
<1>1. /\ proc[p].pc = "files" /\ proc[p].todo # <<>> /\ proc[p].todo \in Seq(OpsOn(proc[p].paths))
      /\ Head(proc[p].todo).op = op /\ Head(proc[p].todo) \in OpsOn(proc[p].paths)
  BY AtOperation, CommandShapes DEF AtOp, TypeInv, ProcOK
<1>2. Head(proc[p].todo) = proc[p].todo[1] /\ 1 \in 1..Len(proc[p].todo)
  BY <1>1, EmptySeq, LenProperties
<1>3. proc[p] # Idle
  BY <1>1 DEF Idle
<1>4. op # "git_init" => proc[p].todo[1].path \in proc[p].paths
  BY <1>1, <1>2, OperationShapes
<1> QED BY <1>1, <1>2, <1>3, <1>4 DEF HarmlessInv

LEMMA WriteFileHarmless ==
    ASSUME TypeInv, NEW p \in Procs, HarmlessInv(p), WriteFile(p)
    PROVE  HarmlessInv(p)'
<1> DEFINE o == proc[p].todo[1]
<1>1. AtOp(p, "write") /\ Proceed(p, <<>>) /\ work' = With(work, Head(proc[p].todo).path, Head(proc[p].todo).content)
  BY DEF WriteFile
<1>2. o = Head(proc[p].todo) /\ o.op = "write" /\ <<>> \in Seq(OpsOn(proc[p].paths))
  BY <1>1, FirstOperation
<1>3. PICK after : after = work' /\ after = With(work, o.path, o.content)
  BY <1>1, <1>2
<1>4. \A f : f \notin DOMAIN work /\ (Touches(o, f) => o.op = "remove") => f \notin DOMAIN after
  BY <1>2, <1>3 DEF Touches, With
<1> HIDE DEF o
<1>5. \A j \in 1..Len(<<>>) : FALSE
  OBVIOUS
<1> QED BY <1>1, <1>2, <1>3, <1>4, <1>5, OperationHarmless DEF o

LEMMA EncryptEntryHarmless ==
    ASSUME TypeInv, NEW p \in Procs, HarmlessInv(p), EncryptEntry(p)
    PROVE  HarmlessInv(p)'
<1> DEFINE o == proc[p].todo[1]
           c == Cipher(o.secret, Scope(o.path))
           write == ToWrite(o.path, c)
           remove == ToRemove(o.path)
<1>1. AtOp(p, "encrypt") /\ work' = work
  BY DEF EncryptEntry
<1>2. /\ o = Head(proc[p].todo) /\ o.op = "encrypt" /\ o \in OpsOn(proc[p].paths)
      /\ proc[p].pc = "files" /\ proc[p].todo # <<>>
      /\ Harmless(proc[p].todo, proc[p].target, work, 1) /\ proc[p].todo \in Seq(OpsOn(proc[p].paths))
  BY <1>1, FirstOperation, CommandShapes DEF TypeInv, ProcOK
<1>3. o.path \in proc[p].paths /\ o.path \in BlobPaths /\ o.path \in Paths /\ o.secret \in 0..MaxSecrets
  BY <1>2, OperationShapes
<1>4. CASE Scope(o.path) = {}
  <2>1. End(p)
    BY <1>2, <1>4 DEF EncryptEntry, Fail
  <2>2. proc'[p].pc = "idle"
    BY <2>1, Ends DEF Idle, TypeInv
  <2> QED BY <2>2 DEF HarmlessInv
<1>5. CASE Scope(o.path) # {}
  <2> DEFINE more == IF o.shred THEN <<remove, write>> ELSE <<write>>
  <2>1. Proceed(p, more)
    BY <1>2, <1>5 DEF EncryptEntry
  <2>2. c \in Blobs
    BY <1>3, ScopeIsKeys DEF TypeInv, Cipher, Blobs
  <2>3. Fits(o.path, c)
    BY <1>3, <2>2 DEF Fits
  <2> HIDE DEF c
  <2>4. write \in OpsOn(proc[p].paths) /\ remove \in OpsOn(proc[p].paths)
    BY <1>3, <2>2, <2>3 DEF OpsOn, Ops, WriteOps, RemoveOps, ToWrite, ToRemove, Contents
  <2>5. /\ write.op = "write" /\ write.path = o.path
        /\ remove.op = "remove" /\ remove.path = o.path
    BY DEF ToWrite, ToRemove
  <2> HIDE DEF write, remove
  <2>6. more \in {<<remove, write>>, <<write>>}
    OBVIOUS
  <2> HIDE DEF more
  <2>7. PICK m : m = more /\ m \in {<<remove, write>>, <<write>>}
    BY <2>6
  <2>8. m \in Seq(OpsOn(proc[p].paths))
    <3>1. <<remove, write>> \in Seq(OpsOn(proc[p].paths)) /\ <<write>> \in Seq(OpsOn(proc[p].paths))
      BY <2>4
    <3> QED BY <2>7, <3>1
  <2>9. \A f : f \notin DOMAIN work /\ (Touches(o, f) => o.op = "remove") =>
                  \A j \in 1..Len(m) : Touches(m[j], f) => m[j].op = "remove"
    BY <1>2, <2>5, <2>7 DEF Touches
  <2>10. /\ Len(m) \in {1, 2}
         /\ \A j \in 1..Len(m) : /\ (m \o Tail(proc[p].todo))[j] = m[j]
                                 /\ m[j].path = o.path
                                 /\ \A i \in 1..(j - 1) : m[i].op = "remove"
    <3>1. /\ Len(m) \in {1, 2}
          /\ \A j \in 1..Len(m) : m[j].path = o.path /\ \A i \in 1..(j - 1) : m[i].op = "remove"
      BY <2>5, <2>7
    <3>2. \A j \in 1..Len(m) : (m \o Tail(proc[p].todo))[j] = m[j]
      BY <1>2, <2>8, OpsAfter
    <3> QED BY <3>1, <3>2
  <2>11. o.path \notin Entries \/ o.path \in proc[p].target \/ o.path \notin DOMAIN work
    BY <1>2 DEF Harmless, Fills, MovesAway
  <2>12. \A j \in 1..Len(m) : Harmless(m \o Tail(proc[p].todo), proc[p].target, work, j)
    <3> SUFFICES ASSUME NEW j \in 1..Len(m) PROVE Harmless(m \o Tail(proc[p].todo), proc[p].target, work, j)
      OBVIOUS
    <3>1. (m \o Tail(proc[p].todo))[j].path = o.path
      BY <2>10
    <3>2. CASE o.path \notin Entries \/ o.path \in proc[p].target
      BY <3>1, <3>2 DEF Harmless
    <3>3. CASE o.path \notin DOMAIN work
      <4>1. \A i \in 1..(j - 1) : (m \o Tail(proc[p].todo))[i].op = "remove"
        BY <2>10
      <4> QED BY <3>1, <3>3, <4>1 DEF Harmless, Fills
    <3> QED BY <2>11, <3>2, <3>3
  <2> HIDE DEF o
  <2>13. PICK after : after = work' /\ after = work
    BY <1>1
  <2> QED BY <1>1, <1>2, <2>1, <2>7, <2>8, <2>9, <2>12, <2>13, OperationHarmless DEF o
<1> QED BY <1>4, <1>5

LEMMA ShredFileHarmless ==
    ASSUME TypeInv, NEW p \in Procs, HarmlessInv(p), ShredFile(p)
    PROVE  HarmlessInv(p)'
<1> DEFINE o == proc[p].todo[1]
           unlink == ToUnlink(o.path)
<1>1. AtOp(p, "remove")
  BY DEF ShredFile
<1>2. /\ o = Head(proc[p].todo) /\ o.op = "remove" /\ o \in OpsOn(proc[p].paths)
      /\ proc[p].pc = "files" /\ proc[p].todo # <<>> /\ proc[p].todo \in Seq(OpsOn(proc[p].paths))
      /\ <<>> \in Seq(OpsOn(proc[p].paths))
  BY <1>1, FirstOperation, CommandShapes DEF TypeInv, ProcOK
<1>3. o.path \in proc[p].paths /\ o.path \in BlobPaths
  BY <1>2, OperationShapes
<1>4. unlink \in OpsOn(proc[p].paths) /\ unlink.op = "unlink" /\ unlink.path = o.path
  BY <1>3 DEF OpsOn, Ops, RemoveOps, ToUnlink
<1>5. CASE o.path \in DOMAIN work
  <2>1. work' = With(work, o.path, Garbage) /\ Proceed(p, <<unlink>>)
    BY <1>2, <1>5 DEF ShredFile
  <2> HIDE DEF unlink
  <2>2. PICK after : after = work' /\ after = With(work, o.path, Garbage)
    BY <2>1
  <2>9. <<unlink>> \in Seq(OpsOn(proc[p].paths)) /\ Len(<<unlink>>) = 1 /\ <<unlink>>[1] = unlink
    BY <1>4
  <2>3. PICK more : more = <<unlink>> /\ more \in Seq(OpsOn(proc[p].paths)) /\ Len(more) = 1 /\ more[1] = unlink
    BY <2>9
  <2>4. \A f : f \notin DOMAIN work =>
                  /\ f \notin DOMAIN after
                  /\ \A j \in 1..Len(more) : Touches(more[j], f) => more[j].op = "remove"
    BY <1>4, <1>5, <2>2, <2>3 DEF With, Touches
  <2>5. (more \o Tail(proc[p].todo))[1] = unlink
    BY <1>2, <2>3, OpsAfter
  <2>6. after[o.path] = Garbage
    BY <2>2 DEF With
  <2>7. \A j \in 1..Len(more) : Harmless(more \o Tail(proc[p].todo), proc[p].target, after, j)
    BY <1>4, <2>3, <2>5, <2>6 DEF Harmless
  <2>8. Proceed(p, more)
    BY <2>1, <2>3
  <2> HIDE DEF o
  <2> QED BY <1>1, <1>2, <2>2, <2>3, <2>4, <2>7, <2>8, OperationHarmless DEF o
<1>6. CASE o.path \notin DOMAIN work
  <2>1. work' = work /\ Proceed(p, <<>>)
    BY <1>2, <1>6 DEF ShredFile
  <2>2. PICK after : after = work' /\ after = work
    BY <2>1
  <2>3. \A j \in 1..Len(<<>>) : FALSE
    OBVIOUS
  <2> HIDE DEF o
  <2> QED BY <1>1, <1>2, <2>1, <2>2, <2>3, OperationHarmless DEF o
<1> QED BY <1>5, <1>6

LEMMA UnlinkFileHarmless ==
    ASSUME TypeInv, NEW p \in Procs, HarmlessInv(p), UnlinkFile(p)
    PROVE  HarmlessInv(p)'
<1> DEFINE o == proc[p].todo[1]
<1>1. AtOp(p, "unlink") /\ Proceed(p, <<>>) /\ work' = Without(work, Head(proc[p].todo).path)
  BY DEF UnlinkFile
<1>2. o = Head(proc[p].todo) /\ o.op = "unlink" /\ <<>> \in Seq(OpsOn(proc[p].paths))
  BY <1>1, FirstOperation
<1>3. PICK after : after = work' /\ DOMAIN after \subseteq DOMAIN work
  BY <1>1 DEF Without, Restrict
<1>4. \A f : f \notin DOMAIN work => f \notin DOMAIN after
  BY <1>3
<1>5. \A j \in 1..Len(<<>>) : FALSE
  OBVIOUS
<1> HIDE DEF o
<1> QED BY <1>1, <1>2, <1>3, <1>4, <1>5, OperationHarmless DEF o

LEMMA CreateRepoHarmless ==
    ASSUME TypeInv, NEW p \in Procs, HarmlessInv(p), CreateRepo(p)
    PROVE  HarmlessInv(p)'
<1>1. AtOp(p, "git_init") /\ Proceed(p, <<>>) /\ work' = work
  BY DEF CreateRepo
<1>2. proc[p].todo[1].op = "git_init" /\ <<>> \in Seq(OpsOn(proc[p].paths))
  BY <1>1, FirstOperation
<1>3. PICK after : after = work' /\ after = work
  BY <1>1
<1>4. \A j \in 1..Len(<<>>) : FALSE
  OBVIOUS
<1> QED BY <1>1, <1>2, <1>3, <1>4, OperationHarmless

\* The edited entry is the one the user asked to overwrite.
LEMMA LeaveEditorHarmless ==
    ASSUME TypeInv, NEW p \in Procs, HarmlessInv(p), LeaveEditor(p)
    PROVE  HarmlessInv(p)'
<1>1. /\ proc[p].pc = "editing" /\ proc[p].target = proc[p].paths
      /\ proc = [q \in Procs |-> proc[q]]
  BY DEF LeaveEditor, HarmlessInv, TypeInv, ProcOK
<1>2. CASE proc' = [proc EXCEPT ![p] = Idle]
  <2>1. proc'[p].pc = "idle"
    BY <1>1, <1>2 DEF Idle
  <2> QED BY <2>1 DEF HarmlessInv
<1>3. CASE \E e \in proc[p].paths :
              proc' = [proc EXCEPT ![p] =
                  [pc |-> "files", name |-> @.name, todo |-> <<ToSeal(e, made + 1)>>,
                   paths |-> @.paths, target |-> @.target]]
  <2>1. PICK e \in proc[p].paths :
              proc' = [proc EXCEPT ![p] =
                  [pc |-> "files", name |-> @.name, todo |-> <<ToSeal(e, made + 1)>>,
                   paths |-> @.paths, target |-> @.target]]
    BY <1>3
  <2>2. proc'[p] = [pc |-> "files", name |-> proc[p].name, todo |-> <<ToSeal(e, made + 1)>>,
                    paths |-> proc[p].paths, target |-> proc[p].target]
    BY <1>1, <2>1
  <2>3. /\ proc'[p].pc = "files" /\ proc'[p].target = proc[p].target
        /\ proc'[p].todo = <<ToSeal(e, made + 1)>>
    BY <2>2
  <2>4. ToSeal(e, made + 1).path = e
    BY DEF ToSeal
  <2>5. Len(proc'[p].todo) = 1 /\ proc'[p].todo[1].path = e
    BY <2>3, <2>4
  <2>6. e \in proc'[p].target
    BY <1>1, <2>3
  <2>7. \A i \in 1..Len(proc'[p].todo) : Harmless(proc'[p].todo, proc'[p].target, work', i)
    BY <2>5, <2>6 DEF Harmless
  <2> QED BY <2>3, <2>7 DEF HarmlessInv
<1> QED BY <1>2, <1>3 DEF LeaveEditor

LEMMA CommitHarmless ==
    ASSUME TypeInv, NEW p \in Procs,
           OpenRepo(p) \/ StagePaths(p) \/ CommitTree(p) \/ Abort(p)
    PROVE  HarmlessInv(p)'
<1>1. proc = [q \in Procs |-> proc[q]]
  BY DEF TypeInv, ProcOK
<1>2. proc'[p].pc \in {"idle", "staging", "committing"}
  BY <1>1 DEF OpenRepo, StagePaths, CommitTree, Abort, Fail, End, Idle
<1> QED BY <1>2 DEF HarmlessInv
LEMMA BeginHarmless ==
    ASSUME TypeInv, NEW p \in Procs, NEW name, NEW paths, NEW todo, NEW target,
           Begin(p, name, todo, paths, target), Unchanged,
           \A i \in 1..Len(todo) : Harmless(todo, target, work, i)
    PROVE  HarmlessInv(p)'
<1> DEFINE x == [pc |-> "files", name |-> name, todo |-> todo,
                 paths |-> paths, target |-> target]
<1>1. proc' = [proc EXCEPT ![p] = x] /\ work' = work /\ proc = [q \in Procs |-> proc[q]]
  BY DEF Begin, Unchanged, TypeInv, ProcOK
<1>2. x.pc = "files" /\ x.todo = todo /\ x.target = target
  OBVIOUS
<1> HIDE DEF x
<1>3. proc'[p] = x
  BY <1>1
<1> QED BY <1>1, <1>2, <1>3 DEF HarmlessInv

LEMMA InjectiveEnumeration ==
    ASSUME NEW S, IsFiniteSet(S)
    PROVE  /\ Cardinality(S) \in Nat
           /\ SetToSeq(S) \in [1..Cardinality(S) -> S]
           /\ IsInjective(SetToSeq(S))
<1>1. Cardinality(S) \in Nat /\ ExistsBijection(1..Cardinality(S), S)
  BY FS_CardinalityType
<1>2. \E f \in [1..Cardinality(S) -> S] : IsInjective(f)
  BY <1>1 DEF ExistsBijection, Bijection, Injection
<1> QED BY <1>1, <1>2 DEF SetToSeq

\* The entries of a batch, each at a path of its own that is not taken.
LEMMA BatchHarmless ==
    ASSUME NEW m \in Nat, NEW at, DOMAIN at = 1..m, IsInjective(at), NEW todo, DOMAIN todo = 1..m,
           \A i \in 1..m : todo[i].path = at[i], NEW target, NEW files,
           \A i \in 1..m : at[i] \in target \/ at[i] \notin DOMAIN files
    PROVE  \A i \in 1..Len(todo) : Harmless(todo, target, files, i)
<1>1. Len(todo) = m
  OBVIOUS
<1> SUFFICES ASSUME NEW i \in 1..m PROVE Harmless(todo, target, files, i)
  BY <1>1
<1>2. ASSUME NEW j \in 1..(i - 1) PROVE todo[j].path # todo[i].path
  <2>1. j \in 1..m /\ j # i
    OBVIOUS
  <2> QED BY <2>1 DEF IsInjective
<1>3. CASE at[i] \in target
  BY <1>3 DEF Harmless
<1>4. CASE at[i] \notin DOMAIN files
  BY <1>2, <1>4 DEF Harmless, Fills, Touches
<1> QED BY <1>3, <1>4

OwnPaths == \A batch \in BoundedSeq(Entries, MaxBatch) : IsInjective(Disambiguated(batch))

LEMMA StartHarmless ==
    ASSUME TypeInv, OwnPaths, NEW p \in Procs, HarmlessInv(p), Start(p)
    PROVE  HarmlessInv(p)'
<1>1. ASSUME NEW name, NEW paths, NEW todo, NEW target,
             Begin(p, name, todo, paths, target), Unchanged,
             \A i \in 1..Len(todo) : Harmless(todo, target, work, i)
      PROVE  HarmlessInv(p)'
  BY <1>1, BeginHarmless
<1>2. ASSUME NEW ids \in GpgIdChoices, StartInit(p, ids) PROVE HarmlessInv(p)'
  <2> DEFINE g == ToWrite(GpgId(<<>>), [ids |-> ids])
             a == ToWrite(Attributes, [rule |-> TRUE])
             attrs == IF Attributes \in DOMAIN work THEN <<>> ELSE <<a>>
             paths == {GpgId(<<>>)} \cup {attrs[i].path : i \in DOMAIN attrs}
             todo == <<g>> \o attrs \o <<ToGitInit>>
  <2>1. Begin(p, "init", todo, paths, {}) /\ Unchanged
    BY <1>2 DEF StartInit
  <2>2. g.path = GpgId(<<>>) /\ a.path = Attributes /\ ToGitInit.op = "git_init"
    BY DEF ToWrite, ToGitInit
  <2>3. GpgId(<<>>) \notin Entries /\ Attributes \notin Entries
    BY GpgIdsAreNoBlobs, EntriesAreBlobs, EmptySeq, StoreAssumption DEF Attributes
  <2> HIDE DEF g, a
  <2>4. <<g>> \in Seq({g, a, ToGitInit}) /\ <<ToGitInit>> \in Seq({g, a, ToGitInit})
    OBVIOUS
  <2>5. attrs = <<>> \/ attrs = <<a>>
    OBVIOUS
  <2> HIDE DEF attrs
  <2>6. attrs \in Seq({g, a, ToGitInit})
    <3>1. CASE attrs = <<>>
      BY <3>1
    <3>2. CASE attrs = <<a>>
      BY <3>2
    <3> QED BY <2>5, <3>1, <3>2
  <2>7. todo \in Seq({g, a, ToGitInit})
    BY <2>4, <2>6, ConcatProperties
  <2>8. \A i \in 1..Len(todo) : todo[i] \in {g, a, ToGitInit}
    BY <2>7, ElementOfSeq
  <2>9. \A i \in 1..Len(todo) : Harmless(todo, {}, work, i)
    BY <2>2, <2>3, <2>8 DEF Harmless
  <2> HIDE DEF paths, todo
  <2> QED BY <2>1, <2>9, BeginHarmless
<1>3. ASSUME NEW e \in Entries, NEW force \in BOOLEAN, StartInsert(p, e, force) PROVE HarmlessInv(p)'
  <2> DEFINE o == ToSeal(e, made + 1)
             target == IF force THEN {e} ELSE {}
  <2>1. Begin(p, "insert", <<o>>, {e}, target) /\ Unchanged /\ (e \in target \/ e \notin DOMAIN work)
    BY <1>3 DEF StartInsert
  <2>2. o.path = e
    BY DEF ToSeal
  <2> HIDE DEF o, target
  <2>3. \A i \in 1..Len(<<o>>) : Harmless(<<o>>, target, work, i)
    BY <2>1, <2>2 DEF Harmless, Fills
  <2> QED BY <2>1, <2>3, BeginHarmless
<1>4. ASSUME NEW e \in Entries, StartRemove(p, e) PROVE HarmlessInv(p)'
  <2> DEFINE o == ToRemove(e)
  <2>1. Begin(p, "remove", <<o>>, {e}, {e}) /\ Unchanged
    BY <1>4 DEF StartRemove
  <2>2. o.path = e
    BY DEF ToRemove
  <2> HIDE DEF o
  <2>3. \A i \in 1..Len(<<o>>) : Harmless(<<o>>, {e}, work, i)
    BY <2>2 DEF Harmless
  <2> QED BY <2>1, <2>3, BeginHarmless
<1>5. ASSUME NEW e \in Entries, StartEdit(p, e) PROVE HarmlessInv(p)'
  <2>1. proc = [q \in Procs |-> proc[q]]
    BY DEF TypeInv, ProcOK
  <2>2. proc'[p] = [pc |-> "editing", name |-> "edit", todo |-> <<>>, paths |-> {e}, target |-> {e}]
    BY <1>5, <2>1 DEF StartEdit
  <2>3. proc'[p].pc = "editing" /\ proc'[p].paths = proc'[p].target
    BY <2>2
  <2> QED BY <2>3 DEF HarmlessInv
<1>6. ASSUME NEW dir, StartRemoveRecursive(p, dir) PROVE HarmlessInv(p)'
  <2> DEFINE below == {e \in EntriesOf(work) : IsStrictPrefix(dir, e)}
             order == SetToSeq(below)
             todo == [i \in DOMAIN order |-> ToRemove(order[i])]
  <2>1. below \subseteq Entries /\ IsFiniteSet(below)
    BY StoreAssumption, FS_Subset DEF EntriesOf
  <2>2. Begin(p, "remove_recursive", todo, below, below) /\ Unchanged
    BY <1>6 DEF StartRemoveRecursive
  <2> HIDE DEF below
  <2>3. Cardinality(below) \in Nat /\ order \in [1..Cardinality(below) -> below]
    BY <2>1, Enumeration
  <2>4. \A i \in 1..Len(todo) : Harmless(todo, below, work, i)
    BY <2>3 DEF Harmless, ToRemove
  <2> HIDE DEF todo
  <2> QED BY <2>2, <2>4, BeginHarmless
<1>7. ASSUME NEW from \in Entries, NEW to \in Entries, NEW force \in BOOLEAN, StartCopy(p, from, to, force)
      PROVE  HarmlessInv(p)'
  <2> DEFINE o == ToWrite(to, Transferred(from, to))
             target == IF force THEN {to} ELSE {}
  <2>1. Begin(p, "copy", <<o>>, {to}, target) /\ Unchanged /\ (to \in target \/ to \notin DOMAIN work)
    BY <1>7 DEF StartCopy, CanTransfer
  <2>2. o.path = to
    BY DEF ToWrite
  <2> HIDE DEF o, target
  <2>3. \A i \in 1..Len(<<o>>) : Harmless(<<o>>, target, work, i)
    BY <2>1, <2>2 DEF Harmless, Fills
  <2> QED BY <2>1, <2>3, BeginHarmless
<1>8. ASSUME NEW from \in Entries, NEW to \in Entries, NEW force \in BOOLEAN, StartRename(p, from, to, force)
      PROVE  HarmlessInv(p)'
  <2> DEFINE w == ToWrite(to, Transferred(from, to))
             r == ToRemove(from)
             target == IF force THEN {to} ELSE {}
  <2>1. /\ Begin(p, "rename", <<w, r>>, {from, to}, target) /\ Unchanged
        /\ (to \in target \/ to \notin DOMAIN work) /\ from \in DOMAIN work /\ from # to
    BY <1>8 DEF StartRename, CanTransfer
  <2>2. Transferred(from, to).secret = work[from].secret
    BY DEF Transferred, Cipher
  <2>3. /\ w.path = to /\ w.op = "write" /\ w.content.secret = work[from].secret
        /\ r.path = from /\ r.op = "remove"
    BY <2>2 DEF ToWrite, ToRemove
  <2> HIDE DEF w, r, target
  <2>4. PICK todo : todo = <<w, r>>
    OBVIOUS
  <2>5. Harmless(todo, target, work, 1)
    BY <2>1, <2>3, <2>4 DEF Harmless, Fills
  <2>6. MovesAway(todo, work, 2)
    BY <2>1, <2>3, <2>4 DEF MovesAway
  <2>7. \A i \in 1..Len(todo) : i = 1 \/ i = 2
    BY <2>4
  <2>8. \A i \in 1..Len(todo) : Harmless(todo, target, work, i)
    BY <2>5, <2>6, <2>7 DEF Harmless
  <2> QED BY <2>1, <2>4, <2>8, BeginHarmless
<1>9. ASSUME Backup(p) PROVE HarmlessInv(p)'
  BY <1>9 DEF Backup, HarmlessInv
<1>10. ASSUME NEW in_place \in BOOLEAN, StartRestore(p, in_place) PROVE HarmlessInv(p)'
  <2> DEFINE S == DOMAIN bundle
             order == SetToSeq(S)
             todo == [i \in DOMAIN order |-> ToReplace(order[i], bundle[order[i]])]
             target == IF in_place THEN S ELSE {}
  <2>1. S \subseteq Entries /\ IsFiniteSet(S)
    BY StoreAssumption, FS_Subset DEF TypeInv
  <2>2. Begin(p, "restore", todo, S, target) /\ Unchanged
    BY <1>10 DEF StartRestore
  <2>3. \A e \in S : e \in target \/ e \notin DOMAIN work
    BY <1>10, <2>1 DEF StartRestore, EntriesOf
  <2> HIDE DEF S, target
  <2>4. /\ Cardinality(S) \in Nat /\ order \in [1..Cardinality(S) -> S]
        /\ DOMAIN order = 1..Cardinality(S) /\ IsInjective(order)
    BY <2>1, InjectiveEnumeration
  <2>5. \A i \in 1..Cardinality(S) : order[i] \in target \/ order[i] \notin DOMAIN work
    BY <2>3, <2>4
  <2>6. DOMAIN todo = 1..Cardinality(S) /\ \A i \in 1..Cardinality(S) : todo[i].path = order[i]
    BY <2>4 DEF ToReplace
  <2> HIDE DEF order, todo
  <2>7. \A i \in 1..Len(todo) : Harmless(todo, target, work, i)
    BY <2>4, <2>5, <2>6, BatchHarmless
  <2> QED BY <2>2, <2>7, BeginHarmless DEF todo, order
<1>11. ASSUME NEW batch \in BoundedSeq(Entries, MaxBatch), StartImport(p, batch) PROVE HarmlessInv(p)'
  <2> DEFINE at == Disambiguated(batch)
             todo == [i \in DOMAIN batch |-> ToReplace(at[i], made + i)]
  <2>1. PICK m \in 0..MaxBatch : batch \in [1..m -> Entries]
    BY DEF BoundedSeq, SeqOf
  <2>2. Begin(p, "import", todo, Range(at), {}) /\ Unchanged /\ Range(at) \cap DOMAIN work = {}
    BY <1>11 DEF StartImport
  <2>3. m \in Nat
    BY StoreAssumption
  <2>4. IsInjective(at) /\ DOMAIN at = 1..m
    BY <2>1 DEF OwnPaths, Disambiguated
  <2> HIDE DEF at
  <2>5. DOMAIN todo = 1..m /\ \A i \in 1..m : todo[i].path = at[i]
    BY <2>1 DEF ToReplace
  <2>6. \A i \in 1..m : at[i] \notin DOMAIN work
    BY <2>2, <2>4 DEF Range
  <2> HIDE DEF todo
  <2>7. \A i \in 1..Len(todo) : Harmless(todo, {}, work, i)
    BY <2>3, <2>4, <2>5, <2>6, BatchHarmless
  <2> QED BY <2>2, <2>7, BeginHarmless
<1> QED BY <1>2, <1>3, <1>4, <1>5, <1>6, <1>7, <1>8, <1>9, <1>10, <1>11 DEF Start

\* Every step of the only process p, of the user and of git keeps it harmless.
LEMMA StepKeepsHarmless ==
    ASSUME NEW p, Procs = {p}, TypeInv, OwnPaths, HarmlessInv(p), [Next]_vars
    PROVE  HarmlessInv(p)'
<1>1. ASSUME UNCHANGED <<work, proc>> PROVE HarmlessInv(p)'
  BY <1>1 DEF HarmlessInv
<1>2. CASE UNCHANGED vars
  BY <1>1, <1>2 DEF vars
<1>3. CASE Start(p)
  BY <1>3, StartHarmless
<1>4. CASE Run(p)
  BY <1>4, WriteFileHarmless, EncryptEntryHarmless, ShredFileHarmless, UnlinkFileHarmless,
     CreateRepoHarmless, LeaveEditorHarmless, CommitHarmless DEF Run
<1>5. CASE Abort(p)
  BY <1>5, CommitHarmless
<1>6. CASE \E e \in Entries, ids \in GpgIdChoices : PlaceGpgId(e, ids)
  <2>1. proc[p].pc = "idle" /\ proc' = proc
    BY <1>6 DEF PlaceGpgId, MayRekey, AllIdle, Idle
  <2> QED BY <2>1 DEF HarmlessInv
<1>7. CASE \E kind \in {"merge", "bisect"} : StartGitOp(kind)
  BY <1>1, <1>7 DEF StartGitOp
<1>8. CASE EndGitOp
  BY <1>1, <1>8 DEF EndGitOp
<1> QED BY <1>2, <1>3, <1>4, <1>5, <1>6, <1>7, <1>8 DEF Next

\* A change of one file loses the secret of that file only.
LEMMA LostSecret ==
    ASSUME NEW f, \A e \in DOMAIN work \ {f} : e \in DOMAIN work' /\ work'[e] = work[e],
           NEW n \in Readable(work) \ Readable(work')
    PROVE  f \in EntriesOf(work) /\ work[f].secret = n /\ n # 0 /\ ~ IsElsewhere(f, work)
<1>1. ASSUME NEW e \in EntriesOf(work), work[e].secret = n, e # f PROVE FALSE
  <2>1. e \in EntriesOf(work') /\ work'[e].secret = n
    BY <1>1 DEF EntriesOf
  <2> QED BY <2>1 DEF Readable
<1>2. PICK e \in EntriesOf(work) : work[e].secret = n /\ n # 0
  BY DEF Readable
<1>3. e = f
  BY <1>1, <1>2
<1> QED BY <1>1, <1>2, <1>3 DEF IsElsewhere

\* A file operation at f that loses a secret was asked for: not when it fills an
\* absent entry, unlinks what is shredded or moves a secret away.
LEMMA OperationLoses ==
    ASSUME TypeInv, NEW p \in Procs, HarmlessInv(p), NEW op, AtOp(p, op), op # "git_init",
           \A e \in DOMAIN work \ {proc[p].todo[1].path} : e \in DOMAIN work' /\ work'[e] = work[e],
           NEW n \in Readable(work) \ Readable(work')
    PROVE  proc[p] # Idle /\ \E e \in proc[p].target \cap DOMAIN work : work[e].secret = n
<1> DEFINE f == proc[p].todo[1].path
<1>1. /\ proc[p].todo[1].op = op /\ proc[p] # Idle
      /\ Harmless(proc[p].todo, proc[p].target, work, 1)
  BY FirstOperation
<1>2. f \in EntriesOf(work) /\ work[f].secret = n /\ n # 0 /\ ~ IsElsewhere(f, work)
  BY LostSecret
<1>3. f \in Entries /\ f \in DOMAIN work
  BY <1>2 DEF EntriesOf
<1>4. ~ Fills(proc[p].todo, work, 1)
  BY <1>3 DEF Fills
<1>5. ~ MovesAway(proc[p].todo, work, 1)
  BY <1>2 DEF MovesAway
<1>6. work[f] # Garbage
  BY <1>2 DEF Garbage, Cipher
<1>7. f \in proc[p].target
  BY <1>1, <1>3, <1>4, <1>5, <1>6 DEF Harmless
<1> QED BY <1>1, <1>2, <1>3, <1>7

LEMMA StepLosesOnPurpose ==
    ASSUME NEW p, Procs = {p}, TypeInv, HarmlessInv(p), [Next]_vars,
           NEW n \in Readable(work) \ Readable(work')
    PROVE  proc[p] # Idle /\ \E e \in proc[p].target \cap DOMAIN work : work[e].secret = n
<1>1. CASE WriteFile(p)
  <2>1. AtOp(p, "write") /\ work' = With(work, Head(proc[p].todo).path, Head(proc[p].todo).content)
    BY <1>1 DEF WriteFile
  <2>2. Head(proc[p].todo) = proc[p].todo[1]
    BY <2>1, FirstOperation
  <2>3. \A e \in DOMAIN work \ {proc[p].todo[1].path} : e \in DOMAIN work' /\ work'[e] = work[e]
    BY <2>1, <2>2 DEF With
  <2> QED BY <2>1, <2>3, OperationLoses
<1>2. CASE ShredFile(p)
  <2>1. /\ AtOp(p, "remove")
        /\ work' = With(work, Head(proc[p].todo).path, Garbage) \/ work' = work
    BY <1>2 DEF ShredFile
  <2>2. Head(proc[p].todo) = proc[p].todo[1]
    BY <2>1, FirstOperation
  <2>3. \A e \in DOMAIN work \ {proc[p].todo[1].path} : e \in DOMAIN work' /\ work'[e] = work[e]
    BY <2>1, <2>2 DEF With
  <2> QED BY <2>1, <2>3, OperationLoses
<1>3. CASE UnlinkFile(p)
  <2>1. AtOp(p, "unlink") /\ work' = Without(work, Head(proc[p].todo).path)
    BY <1>3 DEF UnlinkFile
  <2>2. Head(proc[p].todo) = proc[p].todo[1]
    BY <2>1, FirstOperation
  <2>3. \A e \in DOMAIN work \ {proc[p].todo[1].path} : e \in DOMAIN work' /\ work'[e] = work[e]
    BY <2>1, <2>2 DEF Without, Restrict
  <2> QED BY <2>1, <2>3, OperationLoses
<1>4. CASE \E e \in Entries, ids \in GpgIdChoices : PlaceGpgId(e, ids)
  <2>4. PICK e \in Entries, ids \in GpgIdChoices : PlaceGpgId(e, ids)
    BY <1>4
  <2>1. PICK dir \in Enclosing(e) :
            GpgId(dir) \notin DOMAIN work /\ work' = With(work, GpgId(dir), [ids |-> ids])
    BY <2>4 DEF PlaceGpgId
  <2>2. GpgId(dir) \notin EntriesOf(work)
    BY <2>1 DEF EntriesOf
  <2>3. \A f \in DOMAIN work \ {GpgId(dir)} : f \in DOMAIN work' /\ work'[f] = work[f]
    BY <2>1 DEF With
  <2> QED BY <2>2, <2>3, LostSecret
<1>5. CASE work' = work
  BY <1>5
<1>6. Start(p) => work' = work
  BY DEF Start, StartInit, StartInsert, StartRemove, StartEdit, StartRemoveRecursive, StartCopy,
         StartRename, Backup, StartRestore, StartImport, Unchanged
<1>7. EncryptEntry(p) \/ CreateRepo(p) \/ LeaveEditor(p) \/ OpenRepo(p) \/ StagePaths(p)
         \/ CommitTree(p) \/ Abort(p) => work' = work
  BY DEF EncryptEntry, CreateRepo, LeaveEditor, OpenRepo, StagePaths, CommitTree, Abort, Unchanged
<1>8. (\E kind \in {"merge", "bisect"} : StartGitOp(kind)) \/ EndGitOp \/ UNCHANGED vars => work' = work
  BY DEF StartGitOp, EndGitOp, vars
<1> QED BY <1>1, <1>2, <1>3, <1>4, <1>5, <1>6, <1>7, <1>8 DEF Next, Run

LEMMA InitHarmless == ASSUME NEW p \in Procs, Init PROVE HarmlessInv(p)
BY DEF Init, Idle, HarmlessInv

\* Store::rename writes before it removes, restore and import remove what they
\* are about to replace: for one process at a time, whatever the commands and
\* wherever they die, a secret stops being readable only by a command the user
\* told to delete or to overwrite that entry.  It needs that no entry of an
\* imported file gets a path another one has (import::prepare, OwnPaths).
THEOREM SecretsAreLostOnPurpose ==
    ASSUME NEW q, Procs = {q}, OwnPaths
    PROVE  Spec => LostOnPurpose
<1> DEFINE Loss == \A n \in Readable(work) \ Readable(work') :
                      \E p \in Procs : proc[p] # Idle /\ \E e \in proc[p].target \cap DOMAIN work :
                          work[e].secret = n
<1>1. Init => HarmlessInv(q)
  BY InitHarmless
<1>2. TypeInv /\ HarmlessInv(q) /\ [Next]_vars => HarmlessInv(q)'
  BY StepKeepsHarmless
<1>3. TypeInv /\ HarmlessInv(q) /\ [Next]_vars => [Loss]_vars
  BY StepLosesOnPurpose
<1> QED BY <1>1, <1>2, <1>3, TypesHold, PTL DEF Spec, LostOnPurpose
-----------------------------------------------------------------------------
(* A restore re-encrypts.  While it runs, every entry of the backup holds   *)
(* what it shall hold or is still to be encrypted, and what is removed is   *)
(* written again later.                                                     *)

\* What a restore shall leave at each entry of the backup.
Want == [e \in DOMAIN bundle |-> Cipher(bundle[e], Scope(e))]

Seals(o, e) == o.op \in {"encrypt", "write"} /\ o.path = e
Holds(e, files, want) == e \in DOMAIN files /\ files[e] = want[e]

OperationPlanned(todo, want, i) ==
    /\ todo[i].op \in {"encrypt", "write", "remove", "unlink"}
    /\ todo[i].path \in DOMAIN want
    /\ todo[i].op = "encrypt" => todo[i].secret = want[todo[i].path].secret
    /\ todo[i].op = "write" => todo[i].content = want[todo[i].path]
    /\ todo[i].op \in {"remove", "unlink"} =>
          \E j \in (i + 1)..Len(todo) : Seals(todo[j], todo[i].path)

Planned(todo, want) == \A i \in 1..Len(todo) : OperationPlanned(todo, want, i)

Covered(todo, files, want) ==
    \A e \in DOMAIN want : Holds(e, files, want) \/ \E i \in 1..Len(todo) : Seals(todo[i], e)

RotationInv(p) ==
    /\ proc[p].pc = "editing" => proc[p].name = "edit"
    /\ proc[p].pc \in {"files", "staging", "committing"} /\ proc[p].name = "restore" =>
          /\ proc[p].paths = DOMAIN bundle
          /\ proc[p].pc = "files" =>
                Planned(proc[p].todo, Want) /\ Covered(proc[p].todo, work, Want)
          /\ proc[p].pc = "staging" => \A e \in DOMAIN bundle : Holds(e, work, Want)
          /\ proc[p].pc = "committing" => \A e \in DOMAIN bundle : Holds(e, proc[p].tree, Want)

\* What was planned and covered stays so when the first operation is done.
LEMMA RestPlanned ==
    ASSUME NEW S, NEW todo \in Seq(S), todo # <<>>, NEW more \in Seq(S), NEW want,
           NEW files, NEW after, Planned(todo, want), Covered(todo, files, want),
           \A j \in 1..Len(more) : OperationPlanned(more \o Tail(todo), want, j),
           \A e \in DOMAIN want : Holds(e, files, want) =>
               Holds(e, after, want) \/ \E i \in 2..Len(todo) : Seals(todo[i], e),
           \A e \in DOMAIN want : Seals(todo[1], e) =>
               Holds(e, after, want) \/ \E j \in 1..Len(more) : Seals(more[j], e)
    PROVE  Planned(more \o Tail(todo), want) /\ Covered(more \o Tail(todo), after, want)
<1> DEFINE rest == more \o Tail(todo)
<1>1. Len(more) \in Nat /\ Len(todo) \in Nat /\ Len(todo) >= 1
  BY EmptySeq, LenProperties
<1>2. /\ Len(rest) = Len(more) + Len(todo) - 1
      /\ \A i \in 1..Len(more) : rest[i] = more[i]
      /\ \A i \in 2..Len(todo) : rest[Len(more) + i - 1] = todo[i]
      /\ \A i \in 1..(Len(more) + Len(todo) - 1) :
            i \in 1..Len(more) \/ \E j \in 2..Len(todo) : i = Len(more) + j - 1
  BY OpsAfter
<1>3. \A j \in 1..Len(more) : OperationPlanned(rest, want, j)
  OBVIOUS
<1> HIDE DEF rest
<1>4. ASSUME NEW i \in 2..Len(todo), NEW e, Seals(todo[i], e)
      PROVE  Len(more) + i - 1 \in 1..Len(rest) /\ Seals(rest[Len(more) + i - 1], e)
  BY <1>1, <1>2, <1>4
<1>5. ASSUME NEW i \in 2..Len(todo) PROVE OperationPlanned(rest, want, Len(more) + i - 1)
  <2>1. rest[Len(more) + i - 1] = todo[i] /\ OperationPlanned(todo, want, i)
    <3>1. i \in 1..Len(todo)
      BY <1>1
    <3> QED BY <1>2, <3>1 DEF Planned
  <2>2. ASSUME todo[i].op \in {"remove", "unlink"}
        PROVE  \E j \in ((Len(more) + i - 1) + 1)..Len(rest) : Seals(rest[j], todo[i].path)
    <3>1. PICK j \in (i + 1)..Len(todo) : Seals(todo[j], todo[i].path)
      BY <2>1, <2>2 DEF OperationPlanned
    <3>2. j \in 2..Len(todo) /\ Len(more) + j - 1 \in ((Len(more) + i - 1) + 1)..Len(rest)
      BY <1>1, <1>2
    <3> QED BY <1>4, <3>1, <3>2
  <2> QED BY <2>1, <2>2 DEF OperationPlanned
<1>6. ASSUME NEW k \in 1..Len(rest) PROVE OperationPlanned(rest, want, k)
  <2>1. k \in 1..(Len(more) + Len(todo) - 1)
    BY <1>2
  <2> QED BY <1>2, <1>3, <1>5, <2>1
<1>7. ASSUME NEW e \in DOMAIN want
      PROVE  Holds(e, after, want) \/ \E i \in 1..Len(rest) : Seals(rest[i], e)
  <2>1. CASE \E j \in 1..Len(more) : Seals(more[j], e)
    <3>1. PICK j \in 1..Len(more) : Seals(more[j], e)
      BY <2>1
    <3>2. j \in 1..Len(rest) /\ rest[j] = more[j]
      BY <1>1, <1>2
    <3> QED BY <3>1, <3>2
  <2>2. CASE \E i \in 2..Len(todo) : Seals(todo[i], e)
    BY <1>4, <2>2
  <2>3. Holds(e, files, want) \/ Seals(todo[1], e) \/ \E i \in 2..Len(todo) : Seals(todo[i], e)
    <3>1. \A i \in 1..Len(todo) : i = 1 \/ i \in 2..Len(todo)
      BY <1>1
    <3> QED BY <3>1 DEF Covered
  <2> QED BY <2>1, <2>2, <2>3
<1> QED BY <1>6, <1>7 DEF Planned, Covered, rest

\* What is wanted does not change while no .gpg-id and no backup does.
LEMMA WantStays ==
    ASSUME TypeInv, bundle' = bundle, \A e \in Entries : Scope(e)' = Scope(e)
    PROVE  Want' = Want
<1>1. \A e \in DOMAIN bundle : Scope(e)' = Scope(e)
  BY DEF TypeInv
<1> QED BY <1>1 DEF Want

LEMMA OperationRotates ==
    ASSUME TypeInv, NEW p \in Procs, RotationInv(p), NEW op, AtOp(p, op),
           NEW more \in Seq(OpsOn(proc[p].paths)), Proceed(p, more), NEW after, after = work',
           bundle' = bundle,
           proc[p].name = "restore" =>
               /\ \A e \in Entries : Scope(e)' = Scope(e)
               /\ \A j \in 1..Len(more) : OperationPlanned(more \o Tail(proc[p].todo), Want, j)
               /\ \A e \in DOMAIN Want : Holds(e, work, Want) =>
                     Holds(e, after, Want) \/ \E i \in 2..Len(proc[p].todo) : Seals(proc[p].todo[i], e)
               /\ \A e \in DOMAIN Want : Seals(proc[p].todo[1], e) =>
                     Holds(e, after, Want) \/ \E j \in 1..Len(more) : Seals(more[j], e)
    PROVE  RotationInv(p)'
<1>1. proc[p].pc = "files" /\ proc[p].todo # <<>> /\ proc[p].todo \in Seq(OpsOn(proc[p].paths))
  BY CommandShapes DEF AtOp, TypeInv, ProcOK
<1>2. proc'[p] = [pc |-> "files", name |-> proc[p].name, todo |-> more \o Tail(proc[p].todo),
                  paths |-> proc[p].paths, target |-> proc[p].target]
  BY <1>1, Proceeds DEF TypeInv
<1>3. /\ proc'[p].pc = "files" /\ proc'[p].todo = more \o Tail(proc[p].todo)
      /\ proc'[p].name = proc[p].name /\ proc'[p].paths = proc[p].paths
  BY <1>2
<1>4. CASE proc[p].name # "restore"
  BY <1>3, <1>4 DEF RotationInv
<1>5. CASE proc[p].name = "restore"
  <2>1. proc[p].paths = DOMAIN bundle /\ Planned(proc[p].todo, Want) /\ Covered(proc[p].todo, work, Want)
    BY <1>1, <1>5 DEF RotationInv
  <2>2. PICK want : want = Want
    OBVIOUS
  <2>3. Planned(more \o Tail(proc[p].todo), want) /\ Covered(more \o Tail(proc[p].todo), after, want)
    BY <1>1, <1>5, <2>1, <2>2, RestPlanned
  <2>4. Want' = want
    BY <1>5, <2>2, WantStays
  <2>5. Planned(proc'[p].todo, Want') /\ Covered(proc'[p].todo, work', Want')
    BY <1>3, <2>3, <2>4
  <2> QED BY <1>3, <2>1, <2>5 DEF RotationInv
<1> QED BY <1>4, <1>5

\* The operation a restore is at.
LEMMA FirstOfRestore ==
    ASSUME TypeInv, NEW p \in Procs, RotationInv(p), NEW op, AtOp(p, op)
    PROVE  /\ proc[p].pc = "files" /\ proc[p].todo # <<>> /\ proc[p].todo \in Seq(OpsOn(proc[p].paths))
           /\ Head(proc[p].todo) = proc[p].todo[1] /\ proc[p].todo[1].op = op
           /\ proc[p].todo[1] \in OpsOn(proc[p].paths)
           /\ <<>> \in Seq(OpsOn(proc[p].paths))
           /\ Len(proc[p].todo) \in Nat
           /\ proc[p].name = "restore" =>
                 /\ OperationPlanned(proc[p].todo, Want, 1)
                 /\ proc[p].todo[1].path \in BlobPaths
                 /\ DOMAIN Want \subseteq Entries
<1>1. /\ proc[p].pc = "files" /\ proc[p].todo # <<>> /\ proc[p].todo \in Seq(OpsOn(proc[p].paths))
      /\ Head(proc[p].todo).op = op /\ Head(proc[p].todo) \in OpsOn(proc[p].paths)
  BY AtOperation, CommandShapes DEF AtOp, TypeInv, ProcOK
<1>2. Head(proc[p].todo) = proc[p].todo[1] /\ 1 \in 1..Len(proc[p].todo) /\ Len(proc[p].todo) \in Nat
  BY <1>1, EmptySeq, LenProperties
<1>3. ASSUME proc[p].name = "restore"
      PROVE  /\ OperationPlanned(proc[p].todo, Want, 1)
             /\ proc[p].todo[1].path \in BlobPaths
             /\ DOMAIN Want \subseteq Entries
  <2>1. Planned(proc[p].todo, Want)
    BY <1>1, <1>3 DEF RotationInv
  <2>2. OperationPlanned(proc[p].todo, Want, 1)
    BY <1>2, <2>1 DEF Planned
  <2>3. DOMAIN Want \subseteq Entries
    BY DEF Want, TypeInv
  <2> QED BY <2>2, <2>3, EntriesAreBlobs DEF OperationPlanned
<1> QED BY <1>1, <1>2, <1>3

LEMMA WriteFileRotates ==
    ASSUME TypeInv, NEW p \in Procs, RotationInv(p), WriteFile(p)
    PROVE  RotationInv(p)'
<1> DEFINE o == proc[p].todo[1]
<1>1. AtOp(p, "write") /\ Proceed(p, <<>>) /\ bundle' = bundle
      /\ work' = With(work, Head(proc[p].todo).path, Head(proc[p].todo).content)
  BY DEF WriteFile
<1>2. o = Head(proc[p].todo) /\ o.op = "write" /\ <<>> \in Seq(OpsOn(proc[p].paths))
  BY <1>1, FirstOfRestore
<1>3. PICK after : after = work' /\ after = With(work, o.path, o.content)
  BY <1>1, <1>2
<1>4. \A j \in 1..Len(<<>>) : FALSE
  OBVIOUS
<1>5. ASSUME proc[p].name = "restore"
      PROVE  /\ \A e \in Entries : Scope(e)' = Scope(e)
             /\ \A e \in DOMAIN Want : Holds(e, work, Want) => Holds(e, after, Want)
             /\ \A e \in DOMAIN Want : Seals(o, e) => Holds(e, after, Want)
  <2>1. OperationPlanned(proc[p].todo, Want, 1) /\ o.path \in BlobPaths
    BY <1>1, <1>5, FirstOfRestore
  <2>2. o.content = Want[o.path]
    BY <1>2, <2>1 DEF OperationPlanned
  <2>3. \A e \in Entries : Scope(e)' = Scope(e)
    BY <1>3, <2>1, BlobChangeKeepsScope
  <2> HIDE DEF o
  <2>4. \A e \in DOMAIN Want : Holds(e, work, Want) => Holds(e, after, Want)
    BY <1>3, <2>2 DEF Holds, With
  <2>5. \A e \in DOMAIN Want : Seals(o, e) => Holds(e, after, Want)
    BY <1>3, <2>2 DEF Holds, With, Seals
  <2> QED BY <2>3, <2>4, <2>5
<1> HIDE DEF o
<1> QED BY <1>1, <1>2, <1>3, <1>4, <1>5, OperationRotates DEF o

LEMMA EncryptEntryRotates ==
    ASSUME TypeInv, NEW p \in Procs, RotationInv(p), EncryptEntry(p)
    PROVE  RotationInv(p)'
<1> DEFINE o == proc[p].todo[1]
           c == Cipher(o.secret, Scope(o.path))
           write == ToWrite(o.path, c)
           remove == ToRemove(o.path)
<1>1. AtOp(p, "encrypt") /\ work' = work /\ bundle' = bundle
  BY DEF EncryptEntry
<1>2. /\ o = Head(proc[p].todo) /\ o.op = "encrypt" /\ o \in OpsOn(proc[p].paths)
      /\ proc[p].pc = "files" /\ proc[p].todo # <<>> /\ proc[p].todo \in Seq(OpsOn(proc[p].paths))
      /\ Len(proc[p].todo) \in Nat
  BY <1>1, FirstOfRestore
<1>3. o.path \in proc[p].paths /\ o.path \in BlobPaths /\ o.path \in Paths /\ o.secret \in 0..MaxSecrets
  BY <1>2, OperationShapes
<1>4. CASE Scope(o.path) = {}
  <2>1. End(p)
    BY <1>2, <1>4 DEF EncryptEntry, Fail
  <2>2. proc'[p].pc = "idle"
    BY <2>1, Ends DEF Idle, TypeInv
  <2> QED BY <2>2 DEF RotationInv
<1>5. CASE Scope(o.path) # {}
  <2> DEFINE more == IF o.shred THEN <<remove, write>> ELSE <<write>>
  <2>1. Proceed(p, more)
    BY <1>2, <1>5 DEF EncryptEntry
  <2>2. c \in Blobs
    BY <1>3, ScopeIsKeys DEF TypeInv, Cipher, Blobs
  <2>3. Fits(o.path, c)
    BY <1>3, <2>2 DEF Fits
  <2>4. ASSUME proc[p].name = "restore"
        PROVE  o.path \in DOMAIN Want /\ Want[o.path] = c
    <3>1. OperationPlanned(proc[p].todo, Want, 1)
      BY <1>1, <2>4, FirstOfRestore
    <3>2. o.path \in DOMAIN Want /\ o.secret = Want[o.path].secret
      BY <1>2, <3>1 DEF OperationPlanned
    <3>3. Want[o.path] = Cipher(bundle[o.path], Scope(o.path))
      BY <3>2 DEF Want
    <3>4. o.secret = bundle[o.path]
      BY <3>2, <3>3 DEF Cipher
    <3> QED BY <3>2, <3>3, <3>4
  <2> HIDE DEF c
  <2>5. write \in OpsOn(proc[p].paths) /\ remove \in OpsOn(proc[p].paths)
    BY <1>3, <2>2, <2>3 DEF OpsOn, Ops, WriteOps, RemoveOps, ToWrite, ToRemove, Contents
  <2>6. /\ write.op = "write" /\ write.path = o.path /\ write.content = c
        /\ remove.op = "remove" /\ remove.path = o.path
    BY DEF ToWrite, ToRemove
  <2> HIDE DEF write, remove
  <2>7. more \in {<<remove, write>>, <<write>>}
    OBVIOUS
  <2> HIDE DEF more
  <2>8. PICK m : m = more /\ m \in {<<remove, write>>, <<write>>}
    BY <2>7
  <2>9. m \in Seq(OpsOn(proc[p].paths))
    <3>1. <<remove, write>> \in Seq(OpsOn(proc[p].paths)) /\ <<write>> \in Seq(OpsOn(proc[p].paths))
      BY <2>5
    <3> QED BY <2>8, <3>1
  <2>10. PICK rest : rest = m \o Tail(proc[p].todo)
    OBVIOUS
  <2>11. PICK n \in {1, 2} : /\ n = Len(m) /\ m[n] = write /\ (n = 2 => m[1] = remove)
                             /\ \A j \in 1..n : rest[j] = m[j]
                             /\ Len(rest) \in Nat /\ n <= Len(rest)
    <3>1. Len(m) \in {1, 2} /\ m[Len(m)] = write /\ (Len(m) = 2 => m[1] = remove)
      BY <2>8
    <3>2. /\ \A j \in 1..Len(m) : rest[j] = m[j]
          /\ Len(rest) = Len(m) + Len(proc[p].todo) - 1
      BY <1>2, <2>9, <2>10, OpsAfter
    <3>3. Len(rest) \in Nat /\ Len(m) <= Len(rest)
      BY <1>2, <3>1, <3>2, EmptySeq
    <3> QED BY <3>1, <3>2, <3>3
  <2>16. n \in 1..n /\ rest[n] = write
    BY <2>11
  <2>12. ASSUME proc[p].name = "restore"
         PROVE  \A j \in 1..Len(m) : OperationPlanned(rest, Want, j)
    <3>1. Seals(rest[n], o.path) /\ n \in 1..Len(rest)
      BY <2>6, <2>11, <2>16 DEF Seals
    <3>2. OperationPlanned(rest, Want, n)
      BY <2>4, <2>6, <2>12, <2>16 DEF OperationPlanned
    <3>3. ASSUME n = 2 PROVE OperationPlanned(rest, Want, 1)
      <4>1. rest[1] = remove /\ n \in (1 + 1)..Len(rest)
        BY <2>11, <3>3
      <4> QED BY <2>4, <2>6, <2>12, <3>1, <4>1 DEF OperationPlanned
    <3>4. \A j \in 1..n : j = n \/ (n = 2 /\ j = 1)
      OBVIOUS
    <3> QED BY <2>11, <3>2, <3>3, <3>4
  <2>13. \A e \in DOMAIN Want : Seals(o, e) => \E j \in 1..Len(m) : Seals(m[j], e)
    <3>1. n \in 1..Len(m) /\ Seals(m[n], o.path)
      BY <2>6, <2>11, <2>16 DEF Seals
    <3> QED BY <3>1 DEF Seals
  <2>14. \A e \in Entries : Scope(e)' = Scope(e)
    BY <1>1 DEF Scope, Enclosing, GpgId
  <2>15. PICK after : after = work' /\ after = work
    BY <1>1
  <2> HIDE DEF o
  <2> QED BY <1>1, <1>2, <2>1, <2>8, <2>9, <2>10, <2>12, <2>13, <2>14, <2>15, OperationRotates DEF o
<1> QED BY <1>4, <1>5

LEMMA ShredFileRotates ==
    ASSUME TypeInv, NEW p \in Procs, RotationInv(p), ShredFile(p)
    PROVE  RotationInv(p)'
<1> DEFINE o == proc[p].todo[1]
           unlink == ToUnlink(o.path)
<1>1. AtOp(p, "remove") /\ bundle' = bundle
  BY DEF ShredFile
<1>2. /\ o = Head(proc[p].todo) /\ o.op = "remove" /\ o \in OpsOn(proc[p].paths)
      /\ proc[p].pc = "files" /\ proc[p].todo # <<>> /\ proc[p].todo \in Seq(OpsOn(proc[p].paths))
      /\ Len(proc[p].todo) \in Nat /\ <<>> \in Seq(OpsOn(proc[p].paths))
  BY <1>1, FirstOfRestore
<1>3. o.path \in proc[p].paths /\ o.path \in BlobPaths
  BY <1>2, OperationShapes
<1>4. unlink \in OpsOn(proc[p].paths) /\ unlink.op = "unlink" /\ unlink.path = o.path
  BY <1>3 DEF OpsOn, Ops, RemoveOps, ToUnlink
<1>5. \A e \in DOMAIN Want : ~ Seals(o, e)
  BY <1>2 DEF Seals
<1>6. CASE o.path \in DOMAIN work
  <2>1. work' = With(work, o.path, Garbage) /\ Proceed(p, <<unlink>>)
    BY <1>2, <1>6 DEF ShredFile
  <2> HIDE DEF unlink
  <2>2. PICK after : after = work' /\ after = With(work, o.path, Garbage)
    BY <2>1
  <2>3. <<unlink>> \in Seq(OpsOn(proc[p].paths)) /\ Len(<<unlink>>) = 1 /\ <<unlink>>[1] = unlink
    BY <1>4
  <2>4. PICK more : more = <<unlink>> /\ more \in Seq(OpsOn(proc[p].paths)) /\ Len(more) = 1 /\ more[1] = unlink
    BY <2>3
  <2>5. PICK rest : rest = more \o Tail(proc[p].todo)
    OBVIOUS
  <2>6. /\ rest[1] = unlink /\ Len(rest) = Len(proc[p].todo)
        /\ \A i \in 2..Len(proc[p].todo) : rest[i] = proc[p].todo[i]
    <3>1. /\ \A i \in 1..1 : rest[i] = more[i]
          /\ Len(rest) = 1 + Len(proc[p].todo) - 1
          /\ \A i \in 2..Len(proc[p].todo) : rest[1 + i - 1] = proc[p].todo[i]
      BY <1>2, <2>4, <2>5, OpsAfter
    <3>2. \A i \in 2..Len(proc[p].todo) : 1 + i - 1 = i
      BY <1>2
    <3> QED BY <1>2, <2>4, <3>1, <3>2
  <2>7. Proceed(p, more)
    BY <2>1, <2>4
  <2>8. \A e \in Entries : Scope(e)' = Scope(e)
    BY <1>3, <2>1, BlobChangeKeepsScope
  <2>9. ASSUME proc[p].name = "restore"
        PROVE  /\ OperationPlanned(rest, Want, 1)
               /\ \E j \in 2..Len(proc[p].todo) : Seals(proc[p].todo[j], o.path)
    <3>1. OperationPlanned(proc[p].todo, Want, 1)
      BY <1>1, <2>9, FirstOfRestore
    <3>2. o.path \in DOMAIN Want /\ \E j \in 2..Len(proc[p].todo) : Seals(proc[p].todo[j], o.path)
      BY <1>2, <3>1 DEF OperationPlanned
    <3>3. \E j \in (1 + 1)..Len(rest) : Seals(rest[j], o.path)
      BY <2>6, <3>2
    <3> QED BY <1>4, <2>6, <3>2, <3>3 DEF OperationPlanned
  <2>10. \A j \in 1..Len(more) : j = 1
    BY <2>4
  <2>11. \A e \in DOMAIN Want : e # o.path /\ Holds(e, work, Want) => Holds(e, after, Want)
    BY <2>2 DEF Holds, With
  <2> HIDE DEF o
  <2> QED BY <1>1, <1>2, <1>5, <2>2, <2>4, <2>5, <2>7, <2>8, <2>9, <2>10, <2>11, OperationRotates DEF o
<1>7. CASE o.path \notin DOMAIN work
  <2>1. work' = work /\ Proceed(p, <<>>)
    BY <1>2, <1>7 DEF ShredFile
  <2>2. PICK after : after = work' /\ after = work
    BY <2>1
  <2>3. \A j \in 1..Len(<<>>) : FALSE
    OBVIOUS
  <2>4. \A e \in Entries : Scope(e)' = Scope(e)
    BY <2>1 DEF Scope, Enclosing, GpgId
  <2> HIDE DEF o
  <2> QED BY <1>1, <1>2, <1>5, <2>1, <2>2, <2>3, <2>4, OperationRotates DEF o
<1> QED BY <1>6, <1>7

LEMMA UnlinkFileRotates ==
    ASSUME TypeInv, NEW p \in Procs, RotationInv(p), UnlinkFile(p)
    PROVE  RotationInv(p)'
<1> DEFINE o == proc[p].todo[1]
<1>1. /\ AtOp(p, "unlink") /\ Proceed(p, <<>>) /\ work' = Without(work, Head(proc[p].todo).path)
      /\ bundle' = bundle
  BY DEF UnlinkFile
<1>2. /\ o = Head(proc[p].todo) /\ o.op = "unlink" /\ o \in OpsOn(proc[p].paths)
      /\ <<>> \in Seq(OpsOn(proc[p].paths))
  BY <1>1, FirstOfRestore
<1>3. o.path \in BlobPaths
  BY <1>2, OperationShapes
<1>4. PICK after : after = work' /\ after = Without(work, o.path)
  BY <1>1, <1>2
<1>5. \A e \in Entries : Scope(e)' = Scope(e)
  BY <1>3, <1>4, BlobChangeKeepsScope
<1>6. \A j \in 1..Len(<<>>) : FALSE
  OBVIOUS
<1>7. \A e \in DOMAIN Want : ~ Seals(o, e)
  BY <1>2 DEF Seals
<1>8. ASSUME proc[p].name = "restore"
      PROVE  \E j \in 2..Len(proc[p].todo) : Seals(proc[p].todo[j], o.path)
  <2>1. OperationPlanned(proc[p].todo, Want, 1)
    BY <1>1, <1>8, FirstOfRestore
  <2> QED BY <1>2, <2>1 DEF OperationPlanned
<1>9. \A e \in DOMAIN Want : e # o.path /\ Holds(e, work, Want) => Holds(e, after, Want)
  BY <1>4 DEF Holds, Without, Restrict
<1> HIDE DEF o
<1> QED BY <1>1, <1>2, <1>4, <1>5, <1>6, <1>7, <1>8, <1>9, OperationRotates DEF o

LEMMA CreateRepoRotates ==
    ASSUME TypeInv, NEW p \in Procs, RotationInv(p), CreateRepo(p)
    PROVE  RotationInv(p)'
<1>1. AtOp(p, "git_init") /\ Proceed(p, <<>>) /\ work' = work /\ bundle' = bundle
  BY DEF CreateRepo
<1>2. proc[p].todo[1].op = "git_init" /\ <<>> \in Seq(OpsOn(proc[p].paths))
  BY <1>1, FirstOfRestore
<1>3. PICK after : after = work' /\ after = work
  BY <1>1
<1>4. \A j \in 1..Len(<<>>) : FALSE
  OBVIOUS
<1>5. \A e \in Entries : Scope(e)' = Scope(e)
  BY <1>1 DEF Scope, Enclosing, GpgId
<1>6. \A e \in DOMAIN Want : ~ Seals(proc[p].todo[1], e)
  BY <1>2 DEF Seals
<1> QED BY <1>1, <1>2, <1>3, <1>4, <1>5, <1>6, OperationRotates

LEMMA LeaveEditorRotates ==
    ASSUME TypeInv, NEW p \in Procs, RotationInv(p), LeaveEditor(p)
    PROVE  RotationInv(p)'
<1>1. /\ proc[p].pc = "editing" /\ proc[p].name = "edit"
      /\ proc = [q \in Procs |-> proc[q]]
  BY DEF LeaveEditor, RotationInv, TypeInv, ProcOK
<1>2. CASE proc' = [proc EXCEPT ![p] = Idle]
  <2>1. proc'[p].pc = "idle"
    BY <1>1, <1>2 DEF Idle
  <2> QED BY <2>1 DEF RotationInv
<1>3. CASE \E e \in proc[p].paths :
              proc' = [proc EXCEPT ![p] =
                  [pc |-> "files", name |-> @.name, todo |-> <<ToSeal(e, made + 1)>>,
                   paths |-> @.paths, target |-> @.target]]
  <2>1. PICK e \in proc[p].paths :
              proc' = [proc EXCEPT ![p] =
                  [pc |-> "files", name |-> @.name, todo |-> <<ToSeal(e, made + 1)>>,
                   paths |-> @.paths, target |-> @.target]]
    BY <1>3
  <2>2. proc'[p] = [pc |-> "files", name |-> proc[p].name, todo |-> <<ToSeal(e, made + 1)>>,
                    paths |-> proc[p].paths, target |-> proc[p].target]
    BY <1>1, <2>1
  <2>3. proc'[p].pc = "files" /\ proc'[p].name = "edit"
    BY <1>1, <2>2
  <2> QED BY <2>3 DEF RotationInv
<1> QED BY <1>2, <1>3 DEF LeaveEditor

\* When nothing is left to do, every entry is renewed.
LEMMA OpenRepoRotates ==
    ASSUME TypeInv, NEW p \in Procs, RotationInv(p), OpenRepo(p)
    PROVE  RotationInv(p)'
<1>1. /\ proc[p].pc = "files" /\ proc[p].todo = <<>> /\ work' = work /\ bundle' = bundle
      /\ proc = [q \in Procs |-> proc[q]]
  BY DEF OpenRepo, TypeInv, ProcOK
<1>2. CASE End(p)
  <2>1. proc'[p].pc = "idle"
    BY <1>2, Ends DEF Idle, TypeInv
  <2> QED BY <2>1 DEF RotationInv
<1>3. CASE proc' = [proc EXCEPT ![p] =
                  [pc |-> "staging", name |-> @.name, paths |-> @.paths,
                   target |-> @.target, index |-> index]]
  <2>1. proc'[p] = [pc |-> "staging", name |-> proc[p].name, paths |-> proc[p].paths,
                    target |-> proc[p].target, index |-> index]
    BY <1>1, <1>3
  <2>2. proc'[p].pc = "staging" /\ proc'[p].name = proc[p].name /\ proc'[p].paths = proc[p].paths
    BY <2>1
  <2>3. \A e \in Entries : Scope(e)' = Scope(e)
    BY <1>1 DEF Scope, Enclosing, GpgId
  <2>4. Want' = Want
    BY <1>1, <2>3, WantStays
  <2>5. ASSUME proc[p].name = "restore"
        PROVE  proc[p].paths = DOMAIN bundle /\ \A e \in DOMAIN bundle : Holds(e, work, Want)
    <3>1. proc[p].paths = DOMAIN bundle /\ Covered(proc[p].todo, work, Want)
      BY <1>1, <2>5 DEF RotationInv
    <3>2. DOMAIN Want = DOMAIN bundle /\ \A i \in 1..Len(proc[p].todo) : FALSE
      BY <1>1 DEF Want
    <3> QED BY <3>1, <3>2 DEF Covered
  <2>6. proc'[p].name = "restore" => \A e \in DOMAIN bundle : Holds(e, work', Want')
    BY <1>1, <2>2, <2>4, <2>5
  <2> QED BY <1>1, <2>2, <2>5, <2>6 DEF RotationInv
<1> QED BY <1>2, <1>3 DEF OpenRepo, Fail

LEMMA StagePathsRotates ==
    ASSUME TypeInv, NEW p \in Procs, RotationInv(p), StagePaths(p)
    PROVE  RotationInv(p)'
<1>1. /\ proc[p].pc = "staging" /\ work' = work /\ bundle' = bundle /\ index' = Staged(p)
      /\ proc = [q \in Procs |-> proc[q]]
  BY DEF StagePaths, TypeInv, ProcOK
<1>2. proc'[p] = [pc |-> "committing", name |-> proc[p].name, paths |-> proc[p].paths,
                  target |-> proc[p].target, tree |-> index']
  BY <1>1 DEF StagePaths
<1>3. /\ proc'[p].pc = "committing" /\ proc'[p].name = proc[p].name /\ proc'[p].paths = proc[p].paths
      /\ proc'[p].tree = Staged(p)
  BY <1>1, <1>2
<1>4. \A e \in Entries : Scope(e)' = Scope(e)
  BY <1>1 DEF Scope, Enclosing, GpgId
<1>5. Want' = Want
  BY <1>1, <1>4, WantStays
<1>6. ASSUME proc[p].name = "restore"
      PROVE  proc[p].paths = DOMAIN bundle /\ \A e \in DOMAIN bundle : Holds(e, Staged(p), Want)
  <2>1. proc[p].paths = DOMAIN bundle /\ \A e \in DOMAIN bundle : Holds(e, work, Want)
    BY <1>1, <1>6 DEF RotationInv
  <2> QED BY <2>1 DEF Holds, Staged
<1>7. proc'[p].name = "restore" => \A e \in DOMAIN bundle : Holds(e, proc'[p].tree, Want')
  BY <1>3, <1>5, <1>6
<1> QED BY <1>1, <1>3, <1>6, <1>7 DEF RotationInv

LEMMA EndRotates ==
    ASSUME TypeInv, NEW p \in Procs, End(p)
    PROVE  RotationInv(p)'
<1>1. proc'[p].pc = "idle"
  BY Ends DEF Idle, TypeInv
<1> QED BY <1>1 DEF RotationInv

\* A restore plans to encrypt every entry of the backup.
LEMMA StartRotates ==
    ASSUME TypeInv, NEW p \in Procs, Start(p)
    PROVE  RotationInv(p)'
<1>0. proc = [q \in Procs |-> proc[q]]
  BY DEF TypeInv, ProcOK
<1>1. ASSUME NEW name, name # "restore", NEW paths, NEW todo, NEW target, Begin(p, name, todo, paths, target)
      PROVE  RotationInv(p)'
  <2>1. proc'[p] = [pc |-> "files", name |-> name, todo |-> todo, paths |-> paths, target |-> target]
    BY <1>0, <1>1 DEF Begin
  <2>2. proc'[p].pc = "files" /\ proc'[p].name = name
    BY <2>1
  <2> QED BY <1>1, <2>2 DEF RotationInv
<1>2. ASSUME NEW ids, StartInit(p, ids) PROVE RotationInv(p)'
  BY <1>1, <1>2 DEF StartInit
<1>3. ASSUME NEW e, NEW force, StartInsert(p, e, force) PROVE RotationInv(p)'
  BY <1>1, <1>3 DEF StartInsert
<1>4. ASSUME NEW e, StartRemove(p, e) PROVE RotationInv(p)'
  BY <1>1, <1>4 DEF StartRemove
<1>5. ASSUME NEW e, StartEdit(p, e) PROVE RotationInv(p)'
  <2>1. proc'[p] = [pc |-> "editing", name |-> "edit", todo |-> <<>>, paths |-> {e}, target |-> {e}]
    BY <1>0, <1>5 DEF StartEdit
  <2>2. proc'[p].pc = "editing" /\ proc'[p].name = "edit"
    BY <2>1
  <2> QED BY <2>2 DEF RotationInv
<1>6. ASSUME NEW dir, StartRemoveRecursive(p, dir) PROVE RotationInv(p)'
  BY <1>1, <1>6 DEF StartRemoveRecursive
<1>7. ASSUME NEW from, NEW to, NEW force, StartCopy(p, from, to, force) PROVE RotationInv(p)'
  BY <1>1, <1>7 DEF StartCopy
<1>8. ASSUME NEW from, NEW to, NEW force, StartRename(p, from, to, force) PROVE RotationInv(p)'
  BY <1>1, <1>8 DEF StartRename
<1>9. ASSUME Backup(p) PROVE RotationInv(p)'
  <2>1. proc'[p].pc = "idle"
    BY <1>9 DEF Backup, Idle
  <2> QED BY <2>1 DEF RotationInv
<1>10. ASSUME NEW in_place, StartRestore(p, in_place) PROVE RotationInv(p)'
  <2> DEFINE S == DOMAIN bundle
             order == SetToSeq(S)
             todo == [i \in DOMAIN order |-> ToReplace(order[i], bundle[order[i]])]
  <2>1. S \subseteq Entries /\ IsFiniteSet(S)
    BY StoreAssumption, FS_Subset DEF TypeInv
  <2>2. PICK target : Begin(p, "restore", todo, S, target) /\ Unchanged
    BY <1>10 DEF StartRestore
  <2>3. /\ Cardinality(S) \in Nat /\ order \in [1..Cardinality(S) -> S] /\ IsInjective(order)
        /\ DOMAIN order = 1..Cardinality(S)
    BY <2>1, InjectiveEnumeration
  <2> HIDE DEF order
  <2>4. \A e \in S : \E i \in 1..Cardinality(S) : order[i] = e
    <3> DEFINE D == 1..Cardinality(S)
    <3>1. order \in Injection(D, S)
      BY <2>3 DEF Injection
    <3>2. Cardinality(D) = Cardinality(S)
      BY <2>3, FS_Interval
    <3> HIDE DEF D
    <3>3. order \in Surjection(D, S)
      BY <2>1, <3>1, <3>2, FS_Injection
    <3> QED BY <3>3 DEF Surjection, D
  <2>5. PICK plan : plan = todo
    OBVIOUS
  <2>6. /\ Len(plan) = Cardinality(S)
        /\ \A i \in 1..Len(plan) : /\ plan[i].op = "encrypt" /\ plan[i].path = order[i]
                                   /\ plan[i].secret = bundle[order[i]] /\ order[i] \in S
    BY <2>3, <2>5 DEF ToReplace
  <2>7. DOMAIN Want = S /\ \A e \in S : Want[e].secret = bundle[e]
    BY DEF Want, Cipher
  <2>8. Planned(plan, Want)
    BY <2>6, <2>7 DEF Planned, OperationPlanned
  <2>9. Covered(plan, work, Want)
    BY <2>4, <2>6, <2>7 DEF Covered, Seals
  <2>10. proc'[p] = [pc |-> "files", name |-> "restore", todo |-> plan, paths |-> S, target |-> target]
    BY <1>0, <2>2, <2>5 DEF Begin
  <2>11. /\ proc'[p].pc = "files" /\ proc'[p].name = "restore" /\ proc'[p].todo = plan
         /\ proc'[p].paths = S
    BY <2>10
  <2>12. work' = work /\ bundle' = bundle
    BY <2>2 DEF Unchanged
  <2>13. \A e \in Entries : Scope(e)' = Scope(e)
    BY <2>12 DEF Scope, Enclosing, GpgId
  <2>14. Want' = Want
    BY <2>12, <2>13, WantStays
  <2>15. Planned(proc'[p].todo, Want') /\ Covered(proc'[p].todo, work', Want')
    BY <2>8, <2>9, <2>11, <2>12, <2>14
  <2> QED BY <2>11, <2>12, <2>15 DEF RotationInv
<1>11. ASSUME NEW batch, StartImport(p, batch) PROVE RotationInv(p)'
  BY <1>1, <1>11 DEF StartImport
<1> QED BY <1>2, <1>3, <1>4, <1>5, <1>6, <1>7, <1>8, <1>9, <1>10, <1>11 DEF Start

\* Every step of the only process p, of the user and of git.
LEMMA StepRotates ==
    ASSUME NEW p, Procs = {p}, TypeInv, RotationInv(p), faults \in Nat, [Next]_vars
    PROVE  RotationInv(p)' /\ faults' \in Nat
<1>0. faults' \in Nat
  <2>1. Start(p) => faults' = faults
    BY DEF Start, StartInit, StartInsert, StartRemove, StartEdit, StartRemoveRecursive,
           StartCopy, StartRename, Backup, StartRestore, StartImport, Unchanged
  <2>2. Run(p) => faults' = faults
    BY DEF Run, WriteFile, EncryptEntry, ShredFile, UnlinkFile, CreateRepo, LeaveEditor,
           OpenRepo, StagePaths, CommitTree, Unchanged
  <2>3. Abort(p) => faults' = faults + 1
    BY DEF Abort
  <2>4. \A kind : StartGitOp(kind) => faults' = faults + 1
    BY DEF StartGitOp
  <2>5. EndGitOp \/ UNCHANGED vars => faults' = faults
    BY DEF EndGitOp, vars
  <2>6. \A e, ids : PlaceGpgId(e, ids) => faults' = faults
    BY DEF PlaceGpgId
  <2>7. faults' = faults \/ faults' = faults + 1
    BY <2>1, <2>2, <2>3, <2>4, <2>5, <2>6 DEF Next
  <2> QED BY <2>7
<1>1. ASSUME UNCHANGED <<work, proc, bundle>> PROVE RotationInv(p)'
  <2>1. \A e \in Entries : Scope(e)' = Scope(e)
    BY <1>1 DEF Scope, Enclosing, GpgId
  <2>2. Want' = Want
    BY <1>1, <2>1, WantStays
  <2> QED BY <1>1, <2>2 DEF RotationInv
<1>2. CASE UNCHANGED vars
  BY <1>0, <1>1, <1>2 DEF vars
<1>3. CASE Start(p)
  BY <1>0, <1>3, StartRotates
<1>4. CASE Run(p)
  BY <1>0, <1>4, WriteFileRotates, EncryptEntryRotates, ShredFileRotates, UnlinkFileRotates,
     CreateRepoRotates, LeaveEditorRotates, OpenRepoRotates, StagePathsRotates, EndRotates
     DEF Run, CommitTree
<1>5. CASE Abort(p)
  BY <1>0, <1>5, EndRotates DEF Abort, Fail
<1>6. CASE \E e \in Entries, ids \in GpgIdChoices : PlaceGpgId(e, ids)
  <2>1. proc[p].pc = "idle" /\ proc' = proc
    BY <1>6 DEF PlaceGpgId, MayRekey, AllIdle, Idle
  <2> QED BY <1>0, <2>1 DEF RotationInv
<1>7. CASE \E kind \in {"merge", "bisect"} : StartGitOp(kind)
  BY <1>0, <1>1, <1>7 DEF StartGitOp
<1>8. CASE EndGitOp
  BY <1>0, <1>1, <1>8 DEF EndGitOp
<1> QED BY <1>0, <1>2, <1>3, <1>4, <1>5, <1>6, <1>7, <1>8 DEF Next

LEMMA CommittedIsRenewed ==
    ASSUME NEW p, Procs = {p}, TypeInv, RotationInv(p), faults \in Nat, [Next]_vars,
           proc[p].pc = "committing", proc[p].name = "restore", proc'[p] = Idle, faults' = faults,
           NEW e \in proc[p].paths
    PROVE  e \in DOMAIN Tip' /\ Tip'[e] = Cipher(bundle[e], Scope(e))
<1>1. proc[p] # Idle
  BY DEF Idle
<1>2. ~ Start(p)
  BY <1>1 DEF Start, StartInit, StartInsert, StartRemove, StartEdit, StartRemoveRecursive,
              StartCopy, StartRename, Backup, StartRestore, StartImport, Begin
<1>3. ~ Abort(p)
  BY DEF Abort
<1>4. Run(p) => CommitTree(p)
  BY DEF Run, WriteFile, EncryptEntry, ShredFile, UnlinkFile, CreateRepo, LeaveEditor, OpenRepo,
         StagePaths, AtOp
<1>5. proc' # proc
  BY <1>1
<1>6. CommitTree(p)
  BY <1>2, <1>3, <1>4, <1>5 DEF Next, vars, PlaceGpgId, StartGitOp, EndGitOp
<1>7. Tip' = proc[p].tree
  BY <1>6 DEF CommitTree, Committed, Tip
<1>8. e \in DOMAIN bundle /\ Holds(e, proc[p].tree, Want)
  BY DEF RotationInv
<1> QED BY <1>7, <1>8 DEF Holds, Want

LEMMA InitRotates == ASSUME NEW p \in Procs, Init PROVE RotationInv(p) /\ faults \in Nat
BY DEF Init, Idle, RotationInv

\* "Re-encrypt store for <new-key>" (bypass restore --in-place): for one process
\* at a time, whatever commands and failures came before, a restore that commits
\* leaves in HEAD, for every entry of the backup, the backup's secret encrypted
\* to the recipients in scope.  It holds whether or not a .gpg-id changes under
\* existing entries.
THEOREM RestoreReencrypts ==
    ASSUME NEW q, Procs = {q}
    PROVE  Spec => RotationSeals
<1> DEFINE Renewed == \A p \in Procs :
                         proc[p].pc = "committing" /\ proc[p].name = "restore" /\ proc'[p] = Idle
                            /\ faults' = faults
                         => \A e \in proc[p].paths :
                               e \in DOMAIN Tip' /\ Tip'[e] = Cipher(bundle[e], Scope(e))
           RInv == RotationInv(q) /\ faults \in Nat
<1>1. Init => RInv
  BY InitRotates
<1>2. TypeInv /\ RInv /\ [Next]_vars => RInv'
  BY StepRotates
<1>3. TypeInv /\ RInv /\ [Next]_vars => [Renewed]_vars
  <2> SUFFICES ASSUME TypeInv, RInv, [Next]_vars PROVE Renewed
    OBVIOUS
  <2> QED BY CommittedIsRenewed
<1> HIDE DEF RInv
<1> QED BY <1>1, <1>2, <1>3, TypesHold, PTL DEF Spec, RotationSeals
=============================================================================
