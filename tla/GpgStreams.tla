----------------------------- MODULE GpgStreams -----------------------------
(***************************************************************************)
(* How the commands drive `gpg` through pipes (crypto_gpg.rs): one call at *)
(* a time for an entry, which writes everything before it reads anything,  *)
(* and the streams of `backup` and `restore`, where a thread works the     *)
(* other end (backup.rs, restore.rs), with the bundle they exchange        *)
(* (bypass-core/src/bundle.rs).                                            *)
(*                                                                         *)
(* Pipes hold a bounded number of chunks.  gpg, the kernel and the tar     *)
(* library are external: gpg reads a chunk, writes a chunk, and may die at *)
(* any moment.  Its stderr, which --quiet keeps short, is left out.        *)
(***************************************************************************)
EXTENDS Naturals, Sequences, FiniteSets

CONSTANTS
    Capacity,  \* chunks a pipe holds
    CallSize,  \* chunks of the largest entry
    Members,   \* number of entries in the store
    MaxRuns    \* bound on the number of commands

ASSUME GpgStreamsAssumption ==
    /\ Capacity \in Nat \ {0}
    /\ {CallSize, Members, MaxRuns} \subseteq Nat

VARIABLES
    op,      \* the command that runs: "none", "call", "backup" or "restore"
    runs,    \* number of commands so far
    source,  \* chunks that the feeder has not written yet
    stdin,   \* the pipe to gpg
    gpg,     \* the child: "off", "runs", "done" or "failed"
    hold,    \* the chunk gpg has read and not written yet
    stdout,  \* the pipe from gpg
    feeder,  \* who writes stdin: the command itself, or restore's pump thread
    taker,   \* who reads stdout: the command itself, or backup's drain thread
    taken,   \* the chunks the taker has got
    result,  \* what the command returned
    file     \* the last backup: its chunks, is it whole, did its command succeed

gpgVars == <<op, runs, source, stdin, gpg, hold, stdout, feeder, taker, taken, result, file>>

\* write_bundle: the manifest, then one member per entry, then the end mark.
Bundle == <<"manifest">> \o [i \in 1..Members |-> "member"] \o <<"end">>
Data == {"manifest", "member", "end", "data"}
NoFile == [chunks |-> <<>>, whole |-> FALSE, ok |-> FALSE]

GpgTypeOK ==
    /\ op \in {"none", "call", "backup", "restore"} /\ runs \in 0..MaxRuns
    /\ source \in Seq(Data) /\ taken \in Seq(Data)
    /\ stdin \in Seq(Data) /\ Len(stdin) <= Capacity
    /\ stdout \in Seq(Data) /\ Len(stdout) <= Capacity
    /\ hold \in Seq(Data) /\ Len(hold) <= 1
    /\ gpg \in {"off", "runs", "done", "failed"}
    /\ {feeder, taker} \subseteq {"off", "runs", "done", "failed"}
    /\ result \in {"none", "ok", "error"}
    /\ file.chunks \in Seq(Data)

GpgInit ==
    /\ op = "none" /\ runs = 0 /\ result = "none" /\ file = NoFile
    /\ source = <<>> /\ stdin = <<>> /\ hold = <<>> /\ stdout = <<>> /\ taken = <<>>
    /\ gpg = "off" /\ feeder = "off" /\ taker = "off"

\* The child is spawned with three pipes.
Spawn(command, chunks) ==
    /\ op = "none" /\ runs < MaxRuns
    /\ op' = command /\ runs' = runs + 1 /\ result' = "none"
    /\ source' = chunks
    /\ stdin' = <<>> /\ hold' = <<>> /\ stdout' = <<>> /\ taken' = <<>>
    /\ gpg' = "runs" /\ feeder' = "runs" /\ taker' = "runs"

\* GpgCli::encrypt and decrypt, from any command on an entry.
StartCall == Spawn("call", [i \in 1..CallSize |-> "data"]) /\ UNCHANGED file

\* backup::run refuses an empty store.
StartBackup == Members > 0 /\ Spawn("backup", Bundle) /\ file' = NoFile

\* restore::run opens the file; what gpg reads from it is the bundle again.
StartRestore == file # NoFile /\ Spawn("restore", file.chunks) /\ UNCHANGED file

-----------------------------------------------------------------------------
(* The writing end: GpgCli::run, write_bundle, the pump thread.            *)

\* write_all blocks while the pipe is full; without a reader it fails.
Feed ==
    /\ feeder = "runs" /\ source # <<>>
    /\ IF gpg = "runs"
       THEN /\ Len(stdin) < Capacity
            /\ stdin' = Append(stdin, Head(source)) /\ source' = Tail(source)
            /\ UNCHANGED feeder
       ELSE feeder' = "failed" /\ UNCHANGED <<stdin, source>>
    /\ UNCHANGED <<op, runs, gpg, hold, stdout, taker, taken, result, file>>

\* The end of the input is reached, and stdin is closed.
FeedEnds ==
    /\ feeder = "runs" /\ source = <<>>
    /\ feeder' = "done"
    /\ UNCHANGED <<op, runs, source, stdin, gpg, hold, stdout, taker, taken, result, file>>

\* An entry cannot be decrypted: write_bundle returns, and the archive, being
\* dropped, still writes its end mark.  In a restore the file cannot be read.
SourceFails ==
    /\ feeder = "runs" /\ source # <<>> /\ op \in {"backup", "restore"}
    /\ feeder' = "failed" /\ source' = <<>>
    /\ IF op = "backup" /\ gpg = "runs"
       THEN Len(stdin) < Capacity /\ stdin' = Append(stdin, "end")
       ELSE UNCHANGED stdin
    /\ UNCHANGED <<op, runs, gpg, hold, stdout, taker, taken, result, file>>

-----------------------------------------------------------------------------
(* gpg.                                                                    *)

GpgReads ==
    /\ gpg = "runs" /\ hold = <<>> /\ stdin # <<>>
    /\ hold' = <<Head(stdin)>> /\ stdin' = Tail(stdin)
    /\ UNCHANGED <<op, runs, source, gpg, stdout, feeder, taker, taken, result, file>>

ReaderGone == taker \in {"done", "failed"}

GpgWrites ==
    /\ gpg = "runs" /\ hold # <<>>
    /\ IF ReaderGone
       THEN gpg' = "failed" /\ UNCHANGED <<hold, stdout>>
       ELSE /\ Len(stdout) < Capacity
            /\ stdout' = Append(stdout, Head(hold)) /\ hold' = <<>>
            /\ UNCHANGED gpg
    /\ UNCHANGED <<op, runs, source, stdin, feeder, taker, taken, result, file>>

\* At the end of its input gpg exits; an input that was cut off is an error.
GpgEnds ==
    /\ gpg = "runs" /\ hold = <<>> /\ stdin = <<>> /\ feeder # "runs"
    /\ gpg' = IF op = "restore" /\ (feeder = "failed" \/ ~ file.whole) THEN "failed" ELSE "done"
    /\ UNCHANGED <<op, runs, source, stdin, hold, stdout, feeder, taker, taken, result, file>>

\* No key, no passphrase, damaged input, a signal.
GpgDies ==
    /\ gpg = "runs"
    /\ gpg' = "failed" /\ hold' = <<>>
    /\ UNCHANGED <<op, runs, source, stdin, stdout, feeder, taker, taken, result, file>>

-----------------------------------------------------------------------------
(* The reading end: wait_with_output, the drain thread, read_bundle.       *)

\* Faulty variant: the output is only read when all input is written.
MayTakeLate == feeder # "runs"

\* An entry's call reads nothing before it has written everything.
MayTake == op = "call" => feeder = "done"

\* A chunk is read.  read_bundle wants the manifest first and stops at the end
\* mark; the visitor's insert_no_commit, and the drain thread's write, may fail.
\* Whoever stops drops the pipe.
Take ==
    /\ taker = "runs" /\ MayTake /\ stdout # <<>>
    /\ LET chunk == Head(stdout) IN
         /\ stdout' = Tail(stdout)
         /\ \/ /\ op = "restore" => (taken = <<>> <=> chunk = "manifest")
               /\ taken' = Append(taken, chunk)
               /\ taker' = IF op = "restore" /\ chunk = "end" THEN "done" ELSE "runs"
            \/ /\ op \in {"backup", "restore"}
               /\ taker' = "failed" /\ UNCHANGED taken
    /\ UNCHANGED <<op, runs, source, stdin, gpg, hold, feeder, result, file>>

\* The end of gpg's output.  The tar reader takes it for the end of the
\* archive, if it does not come within a member.
TakeEnds ==
    /\ taker = "runs" /\ MayTake /\ stdout = <<>> /\ gpg # "runs"
    /\ IF op = "restore" THEN taker' \in (IF taken = <<>> THEN {"failed"} ELSE {"done", "failed"})
                         ELSE taker' = "done"
    /\ UNCHANGED <<op, runs, source, stdin, gpg, hold, stdout, feeder, taken, result, file>>

-----------------------------------------------------------------------------
\* GpgCli::run returns at once when it cannot write, without a wait.
CallGivesUp ==
    /\ op = "call" /\ feeder = "failed"
    /\ op' = "none" /\ result' = "error"
    /\ UNCHANGED <<runs, source, stdin, gpg, hold, stdout, feeder, taker, taken, file>>

\* Faulty variant: the exit status of gpg is not looked at.
SucceededUnchecked == feeder = "done" /\ taker = "done"

\* The results of both ends and the exit status.
Succeeded == feeder = "done" /\ taker = "done" /\ gpg = "done"

\* Both ends are joined and the child is waited for.
Finish ==
    /\ op # "none" /\ {feeder, taker} \cap {"runs"} = {} /\ gpg # "runs"
    /\ op' = "none"
    /\ result' = IF Succeeded THEN "ok" ELSE "error"
    /\ file' = IF op = "backup"
               THEN [chunks |-> taken, whole |-> taker = "done" /\ gpg = "done", ok |-> Succeeded]
               ELSE file
    /\ UNCHANGED <<runs, source, stdin, gpg, hold, stdout, feeder, taker, taken>>

GpgStep == Feed \/ FeedEnds \/ GpgReads \/ GpgWrites \/ GpgEnds \/ Take \/ TakeEnds
             \/ CallGivesUp \/ Finish

GpgNext == StartCall \/ StartBackup \/ StartRestore \/ SourceFails \/ GpgDies \/ GpgStep

GpgSpec == GpgInit /\ [][GpgNext]_gpgVars

\* Threads and gpg run when they can.  Nothing is forced to fail.
GpgFairness == WF_gpgVars(GpgStep)

-----------------------------------------------------------------------------
\* Every command that talks to gpg returns: nobody waits for somebody who waits
\* in turn, whichever end fails first (GpgCli::run, crypto_gpg.rs:132-156;
\* backup.rs:70-121; restore.rs:74-119).  Needs CallSize <= 2 * Capacity + 1: a
\* larger entry fills both pipes while nobody reads.
GpgCommandsReturn == op # "none" ~> op = "none"

\* A restore that reports success has written every entry of the backup, if
\* that backup reported success: a stream that ends early looks like the end of
\* the archive, and only the exit status tells (read_bundle, bundle.rs:197-227;
\* restore.rs:112-119).
Restored == Cardinality({i \in DOMAIN taken : taken[i] = "member"})
RestoresWhole ==
    [][op = "restore" /\ op' = "none" /\ result' = "ok" /\ file.ok => Restored = Members]_gpgVars
=============================================================================
