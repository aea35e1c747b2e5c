---------------------------- MODULE LocalProofs ----------------------------
(***************************************************************************)
(* Proofs about what a machine runs beside its store and its peer syncs:   *)
(* the status socket, the watcher, the clipboard helpers, the git remote,  *)
(* the Android bridge, the browser's native host, the pipes to gpg and the *)
(* importers, for any numbers of daemons, helpers, calls, requests and     *)
(* entries, any items and names, and any bounds.                           *)
(***************************************************************************)
EXTENDS MCLocal, GitHistoryProofs, RateLimitProofs, TLAPS

-----------------------------------------------------------------------------
(* The status socket.  Without races the daemon that starts or cleans up   *)
(* is alone in doing so, and the path leads to whoever listens, is about   *)
(* to, or did so last and still has to clean up.                           *)

Owns(d) == phase[d] \in {"listen", "up", "cleanup"}

SocketIInv ==
    /\ SocketTypeOK
    /\ \A d, e \in Daemons : phase[d] \in Starting /\ d # e => phase[e] \in {"off", "up"}
    /\ \A d \in Daemons : Owns(d) => path = Inode(d)
    /\ \A d, e \in Daemons : phase[d] \in {"unlink", "bind", "listen"} => phase[e] # "up"

\* A step of any daemon keeps the types: paths, phases and counts stay what
\* they are (socket.rs:79-127).
LEMMA SocketTypeStep ==
    ASSUME SocketTypeOK, [SocketNext]_socketVars
    PROVE  SocketTypeOK'
<1> USE StatusSocketAssumption DEF SocketTypeOK, Starting, Absent, Inode, Listens, Advances, Exits
<1>1. ASSUME NEW d \in Daemons, Launch(d) PROVE SocketTypeOK'
    <2>1. launches' = [launches EXCEPT ![d] = @ + 1] /\ launches[d] + 1 \in 0..MaxLaunches
        BY <1>1 DEF Launch
    <2> QED BY <1>1, <2>1 DEF Launch
<1>2. ASSUME NEW d \in Daemons, Look(d) PROVE SocketTypeOK'
    BY <1>2 DEF Look
<1>3. ASSUME NEW d \in Daemons, Connect(d) PROVE SocketTypeOK'
    BY <1>3 DEF Connect
<1>4. ASSUME NEW d \in Daemons, Unlink(d) PROVE SocketTypeOK'
    BY <1>4 DEF Unlink
<1>5. ASSUME NEW d \in Daemons, Bind(d) PROVE SocketTypeOK'
    BY <1>5 DEF Bind
<1>6. ASSUME NEW d \in Daemons, Listen(d) PROVE SocketTypeOK'
    BY <1>6 DEF Listen
<1>7. ASSUME NEW d \in Daemons, ShutDown(d) PROVE SocketTypeOK'
    BY <1>7 DEF ShutDown
<1>8. ASSUME NEW d \in Daemons, Cleanup(d) PROVE SocketTypeOK'
    BY <1>8 DEF Cleanup
<1>9. ASSUME NEW d \in Daemons, Crash(d) PROVE SocketTypeOK'
    BY <1>9 DEF Crash
<1>10. CASE UNCHANGED socketVars
    BY <1>10 DEF socketVars
<1> QED
    BY <1>1, <1>2, <1>3, <1>4, <1>5, <1>6, <1>7, <1>8, <1>9, <1>10 DEF SocketNext, SocketStep

\* Types first, so that the steps below may use them before and after.
LEMMA SocketIInvStep ==
    ASSUME ~ Racing, SocketIInv, [SocketNext]_socketVars
    PROVE  SocketIInv'
<1>1. SocketTypeOK /\ SocketTypeOK'
    BY SocketTypeStep DEF SocketIInv
<1> DEFINE Alone == \A d, e \in Daemons : phase[d] \in Starting /\ d # e => phase[e] \in {"off", "up"}
           Led == \A d \in Daemons : Owns(d) => path = Inode(d)
           NoneUp == \A d, e \in Daemons : phase[d] \in {"unlink", "bind", "listen"} => phase[e] # "up"
<1>2. Alone /\ Led /\ NoneUp
    BY DEF SocketIInv
<1>3. SUFFICES Alone' /\ Led' /\ NoneUp'
    BY <1>1 DEF SocketIInv
<1> USE StatusSocketAssumption DEF SocketTypeOK, Starting, Absent, Inode, Listens, Advances, Exits, Owns
<1>4. ASSUME NEW d \in Daemons, Launch(d) PROVE Alone' /\ Led' /\ NoneUp'
    BY <1>1, <1>2, <1>4 DEF Launch
<1>5. ASSUME NEW d \in Daemons, Look(d) PROVE Alone' /\ Led' /\ NoneUp'
    <2>1. \A e \in Daemons : phase[e] = "up" => path # Absent
        BY <1>2
    <2>2. \A e \in Daemons : phase'[d] = "bind" => phase[e] # "up"
        BY <1>1, <1>5, <2>1 DEF Look
    <2>3. phase' = [phase EXCEPT ![d] = IF path = Absent THEN "bind" ELSE "connect"] /\ phase[d] = "look"
          /\ UNCHANGED <<path, launches>>
        BY <1>5 DEF Look
    <2> QED BY <1>1, <1>2, <2>2, <2>3
<1>6. ASSUME NEW d \in Daemons, Connect(d) PROVE Alone' /\ Led' /\ NoneUp'
    <2>1. \A e \in Daemons : phase[e] = "up" => Listens(path)
        BY <1>2
    <2>2. CASE Listens(path)
        BY <1>1, <1>2, <1>6, <2>2 DEF Connect
    <2>3. CASE ~ Listens(path)
        <3>1. phase' = [phase EXCEPT ![d] = "unlink"] /\ phase[d] = "connect" /\ UNCHANGED <<path, launches>>
            BY <1>6, <2>3 DEF Connect
        <3>2. \A e \in Daemons : phase[e] # "up"
            BY <2>1, <2>3
        <3> QED BY <1>1, <1>2, <3>1, <3>2
    <2> QED BY <2>2, <2>3
<1>7. ASSUME NEW d \in Daemons, Unlink(d) PROVE Alone' /\ Led' /\ NoneUp'
    <2>1. Alone'
        BY <1>1, <1>2, <1>7 DEF Unlink
    <2>2. Led'
        BY <1>1, <1>2, <1>7 DEF Unlink
    <2>3. NoneUp'
        BY <1>1, <1>2, <1>7 DEF Unlink
    <2> QED BY <2>1, <2>2, <2>3
<1>8. ASSUME NEW d \in Daemons, Bind(d) PROVE Alone' /\ Led' /\ NoneUp'
    <2>1. Alone'
        BY <1>1, <1>2, <1>8 DEF Bind
    <2>2. Led'
        BY <1>1, <1>2, <1>8 DEF Bind
    <2>3. NoneUp'
        BY <1>1, <1>2, <1>8 DEF Bind
    <2> QED BY <2>1, <2>2, <2>3
<1>9. ASSUME NEW d \in Daemons, Listen(d) PROVE Alone' /\ Led' /\ NoneUp'
    BY <1>1, <1>2, <1>9 DEF Listen
<1>10. ASSUME NEW d \in Daemons, ShutDown(d) PROVE Alone' /\ Led' /\ NoneUp'
    BY <1>1, <1>2, <1>10 DEF ShutDown
<1>11. ASSUME NEW d \in Daemons, Cleanup(d) PROVE Alone' /\ Led' /\ NoneUp'
    BY <1>1, <1>2, <1>11 DEF Cleanup
<1>12. ASSUME NEW d \in Daemons, Crash(d) PROVE Alone' /\ Led' /\ NoneUp'
    BY <1>1, <1>2, <1>12 DEF Crash
<1>13. CASE UNCHANGED socketVars
    BY <1>2, <1>13 DEF socketVars
<1> HIDE DEF Alone, Led, NoneUp
<1> QED
    BY <1>4, <1>5, <1>6, <1>7, <1>8, <1>9, <1>10, <1>11, <1>12, <1>13 DEF SocketNext, SocketStep

\* No daemon has been launched.
LEMMA SocketInvAtStart == SocketInit => SocketIInv
    BY StatusSocketAssumption DEF SocketInit, SocketIInv, SocketTypeOK, Owns, Starting, Absent

\* The socket's state keeps its types, races or not (socket.rs:79-127).
THEOREM SocketTypeCorrect == SocketSpec => []SocketTypeOK
<1>1. SocketInit => SocketTypeOK
    BY SocketInvAtStart DEF SocketIInv
<1>2. SocketTypeOK /\ [SocketNext]_socketVars => SocketTypeOK'
    BY SocketTypeStep
<1> QED BY <1>1, <1>2, PTL DEF SocketSpec

\* Daemons that do not start while another starts or shuts down: one at most
\* is up, and the socket path leads to it, whatever crashes left behind
\* (bind_or_refuse_existing, socket.rs:79-127; sync_daemon, main.rs:863-904).
THEOREM OneReachable ==
    ASSUME ~ Racing
    PROVE  SocketSpec => []OneReachableDaemon
<1>1. SocketInit => SocketIInv
    BY SocketInvAtStart
<1>2. SocketIInv /\ [SocketNext]_socketVars => SocketIInv'
    BY SocketIInvStep
<1>3. SocketIInv => OneReachableDaemon
    <2> SUFFICES ASSUME SocketIInv, NEW d \in Daemons, NEW e \in Daemons, phase[d] = "up"
                 PROVE  path = Inode(d) /\ (phase[e] = "up" => d = e)
        BY DEF OneReachableDaemon
    <2> QED BY DEF SocketIInv, Owns, Inode
<1> QED BY <1>1, <1>2, <1>3, PTL DEF SocketSpec

-----------------------------------------------------------------------------
(* The watcher: NoChangeForgotten is inductive beside the types.           *)

\* The bounds of the watcher are numbers.
LEMMA WatcherNumbers == Debounce \in Nat /\ MaxRaw \in Nat /\ MaxChanges \in Nat
    BY WatcherAssumption

\* Events, the debounce timer and the daemon's mark keep their types.
LEMMA WatcherTypeStep ==
    ASSUME WatcherTypeOK, [WatcherNext]_watcherVars
    PROVE  WatcherTypeOK'
<1> USE WatcherNumbers DEF WatcherTypeOK, Never
<1>1. CASE StoreEvent
    <2>1. PICK ev \in Events : raw' = Append(raw, ev) /\ unseen' = (unseen \/ (ev.kind # "access" /\ "store" \in ev.places))
        BY <1>1 DEF StoreEvent
    <2>2. raw' \in Seq(Events) /\ Len(raw') = Len(raw) + 1
        BY <2>1
    <2> HIDE DEF Never
    <2> QED BY <1>1, <2>1, <2>2 DEF StoreEvent
<1>2. CASE PumpEvent
    <2>1. raw' \in Seq(Events) /\ Len(raw') = Len(raw) - 1
        BY <1>2 DEF PumpEvent
    <2>2. CASE Relevant(Head(raw))
        <3>1. owed' = TRUE /\ deadline' = Debounce /\ UNCHANGED <<tick, unseen, changes>>
            BY <1>2, <2>2 DEF PumpEvent
        <3>2. deadline' \in 0..Never /\ deadline' # Never
            BY <3>1
        <3> QED BY <2>1, <3>1, <3>2
    <2>3. CASE ~ Relevant(Head(raw))
        BY <1>2, <2>1, <2>3 DEF PumpEvent
    <2> QED BY <2>2, <2>3
<1>3. CASE PumpTimer
    <2>1. owed' = FALSE /\ deadline' = Never /\ tick' = TRUE /\ UNCHANGED <<raw, unseen, changes>>
        BY <1>3 DEF PumpTimer
    <2>2. deadline' \in 0..Never
        BY <2>1
    <2> QED BY <2>1, <2>2
<1>4. CASE Clock
    BY <1>4 DEF Clock
<1>5. CASE DaemonTakes
    BY <1>5 DEF DaemonTakes
<1>6. CASE UNCHANGED watcherVars
    BY <1>6 DEF watcherVars
<1> QED BY <1>1, <1>2, <1>3, <1>4, <1>5, <1>6 DEF WatcherNext

\* What the pump passes over is never the last trace of a change.
LEMMA NothingForgottenStep ==
    ASSUME ~ Overflows, WatcherTypeOK, NoChangeForgotten, [WatcherNext]_watcherVars
    PROVE  NoChangeForgotten'
<1> DEFINE Tells(ev) == "store" \in ev.places /\ ev.kind = "change"
<1>1. CASE StoreEvent
    <2>1. PICK ev \in Events : raw' = Append(raw, ev) /\ unseen' = (unseen \/ (ev.kind # "access" /\ "store" \in ev.places))
        BY <1>1 DEF StoreEvent
    <2>2. owed' = owed /\ tick' = tick
        BY <1>1 DEF StoreEvent
    <2>3. ev.kind \in {"change", "access"}
        BY DEF Events, Kinds
    <2>4. \A i \in DOMAIN raw : i \in DOMAIN raw' /\ raw'[i] = raw[i]
        BY <2>1 DEF WatcherTypeOK
    <2>5. Len(raw) + 1 \in DOMAIN raw' /\ raw'[Len(raw) + 1] = ev
        BY <2>1 DEF WatcherTypeOK
    <2> QED BY <2>1, <2>2, <2>3, <2>4, <2>5 DEF NoChangeForgotten
<1>2. CASE PumpEvent
    <2>1. raw # <<>> /\ raw' = Tail(raw) /\ UNCHANGED <<tick, unseen>>
        BY <1>2 DEF PumpEvent
    <2>2. CASE Relevant(Head(raw))
        BY <1>2, <2>2 DEF PumpEvent, NoChangeForgotten
    <2>3. CASE ~ Relevant(Head(raw))
        <3>1. owed' = owed
            BY <1>2, <2>3 DEF PumpEvent
        <3>2. ~ Tells(raw[1])
            BY <2>1, <2>3 DEF Relevant, WatcherTypeOK
        <3>3. \A i \in DOMAIN raw : i # 1 => i - 1 \in DOMAIN raw' /\ raw'[i - 1] = raw[i]
            BY <2>1 DEF WatcherTypeOK
        <3> QED BY <2>1, <3>1, <3>2, <3>3 DEF NoChangeForgotten
    <2> QED BY <2>2, <2>3
<1>3. CASE PumpTimer
    BY <1>3 DEF PumpTimer, NoChangeForgotten
<1>4. CASE Clock
    BY <1>4 DEF Clock, NoChangeForgotten
<1>5. CASE DaemonTakes
    BY <1>5 DEF DaemonTakes, NoChangeForgotten
<1>6. CASE UNCHANGED watcherVars
    BY <1>6 DEF watcherVars, NoChangeForgotten
<1> QED BY <1>1, <1>2, <1>3, <1>4, <1>5, <1>6 DEF WatcherNext

\* While the kernel drops no events, a change the daemon does not know of is in
\* the queue, under the timer or in the waiting tick, for any debounce time and
\* any lengths (watch, event_is_relevant, watcher.rs:68-99, 136-158).
THEOREM NothingForgotten ==
    ASSUME ~ Overflows
    PROVE  WatcherSpec => []NoChangeForgotten
<1>1. WatcherInit => WatcherTypeOK /\ NoChangeForgotten
    <2> SUFFICES ASSUME WatcherInit PROVE WatcherTypeOK /\ NoChangeForgotten
        OBVIOUS
    <2>1. raw \in Seq(Events) /\ Len(raw) <= MaxRaw /\ deadline \in 0..Never /\ changes \in 0..MaxChanges
        BY WatcherNumbers DEF WatcherInit, Never
    <2> QED BY <2>1 DEF WatcherInit, WatcherTypeOK, NoChangeForgotten
<1>2. WatcherTypeOK /\ NoChangeForgotten /\ [WatcherNext]_watcherVars
        => WatcherTypeOK' /\ NoChangeForgotten'
    BY WatcherTypeStep, NothingForgottenStep
<1> QED BY <1>1, <1>2, PTL DEF WatcherSpec

-----------------------------------------------------------------------------
(* The clipboard.  As long as no helper was killed, the one that runs, if   *)
(* any, holds what is needed to undo what it did.                          *)

AsIf == clip = wanted \/ (wanted[1] = "image" /\ clip = Empty)

\* What helper h remembers is what should be there, but for an image.
Remembers(h) == saved[h] = wanted \/ (wanted[1] = "image" /\ saved[h] = Empty)

Undoable(h) ==
    CASE helper[h] = "started" -> AsIf
      [] helper[h] = "saved" -> Remembers(h)
      [] helper[h] \in {"set", "waits", "woken"} ->
           clip = wanted \/ (clip = Password(h) /\ Remembers(h))
      [] helper[h] = "restores" -> Remembers(h)
      [] OTHER -> TRUE

ClipIInv ==
    /\ ClipTypeOK
    /\ \A g, h \in Helpers : Running(g) /\ Running(h) => g = h
    /\ (\A h \in Helpers : helper[h] # "dead") =>
          /\ \A h \in Helpers : Undoable(h)
          /\ (\A h \in Helpers : ~ Running(h)) => AsIf

\* Texts are not passwords, and neither is the empty clipboard.
LEMMA TextsAreNotPasswords ==
    /\ Empty \notin Passwords /\ Empty \notin Copied
    /\ \A x \in Copied : x \notin Passwords /\ x[1] \in {"text", "image"}
    /\ \A h \in Helpers : Password(h) \in Passwords
    /\ \A x \in Passwords : x[1] = "password"
    /\ Empty[1] = "empty"
    BY DEF Empty, Passwords, Password, Copied

\* The clipboard and the helpers keep their types.
LEMMA ClipTypeStep ==
    ASSUME ClipTypeOK, [ClipNext]_clipVars
    PROVE  ClipTypeOK'
<1> DEFINE Pasted == Copied \cup Passwords \cup {Empty}
<1> USE ClipboardAssumption, TextsAreNotPasswords DEF ClipTypeOK, Moves
<1>1. CASE UserCopies
    <2>1. PICK kind \in {"text", "image"} : clip' = <<kind, copies + 1>>
        BY <1>1 DEF UserCopies
    <2>2. clip' \in Copied /\ copies' \in 0..MaxCopies
        BY <1>1, <2>1 DEF UserCopies, Copied
    <2> QED BY <1>1, <2>2 DEF UserCopies
<1>2. ASSUME NEW h \in Helpers, CopyPassword(h) PROVE ClipTypeOK'
    BY <1>2 DEF CopyPassword
<1>3. ASSUME NEW h \in Helpers, Snapshot(h) PROVE ClipTypeOK'
    BY <1>3 DEF Snapshot
<1>4. ASSUME NEW h \in Helpers, SetPassword(h) PROVE ClipTypeOK'
    BY <1>4 DEF SetPassword
<1>5. ASSUME NEW h \in Helpers, InstallHandlers(h) PROVE ClipTypeOK'
    BY <1>5 DEF InstallHandlers
<1>6. ASSUME NEW h \in Helpers, Wake(h) PROVE ClipTypeOK'
    BY <1>6 DEF Wake
<1>7. ASSUME NEW h \in Helpers, CheckOurs(h) PROVE ClipTypeOK'
    BY <1>7 DEF CheckOurs
<1>8. ASSUME NEW h \in Helpers, Restore(h) PROVE ClipTypeOK'
    BY <1>8 DEF Restore
<1>9. ASSUME NEW h \in Helpers, KillHelper(h) PROVE ClipTypeOK'
    BY <1>9 DEF KillHelper
<1>10. CASE UNCHANGED clipVars
    BY <1>10 DEF clipVars
<1> QED
    BY <1>1, <1>2, <1>3, <1>4, <1>5, <1>6, <1>7, <1>8, <1>9, <1>10 DEF ClipNext, HelperStep

\* Every step of a helper keeps it undoable, while no other is active.
LEMMA ClipIInvStep ==
    ASSUME ~ Overlapping, ClipIInv, [ClipNext]_clipVars
    PROVE  ClipIInv'
<1>1. ClipTypeOK /\ ClipTypeOK'
    BY ClipTypeStep DEF ClipIInv
<1> DEFINE One == \A g, h \in Helpers : Running(g) /\ Running(h) => g = h
           AllLive == \A h \in Helpers : helper[h] # "dead"
           Undo == AllLive => /\ \A h \in Helpers : Undoable(h)
                              /\ (\A h \in Helpers : ~ Running(h)) => AsIf
<1>2. One /\ Undo
    BY DEF ClipIInv
<1>3. SUFFICES One' /\ Undo'
    BY <1>1 DEF ClipIInv
<1> USE TextsAreNotPasswords DEF ClipTypeOK, Moves, Running, Undoable, Remembers, AsIf
<1>4. CASE UserCopies
    <2>1. clip' = wanted' /\ UNCHANGED <<helper, saved>>
        BY <1>4 DEF UserCopies
    <2>2. \A h \in Helpers : helper[h] \notin {"saved", "restores"}
        BY <1>4 DEF UserCopies
    <2> QED BY <1>1, <1>2, <2>1, <2>2
<1>5. ASSUME NEW h \in Helpers, CopyPassword(h) PROVE One' /\ Undo'
    BY <1>1, <1>2, <1>5 DEF CopyPassword
<1>6. ASSUME NEW h \in Helpers, Snapshot(h) PROVE One' /\ Undo'
    BY <1>1, <1>2, <1>6 DEF Snapshot
<1>7. ASSUME NEW h \in Helpers, SetPassword(h) PROVE One' /\ Undo'
    BY <1>1, <1>2, <1>7 DEF SetPassword
<1>8. ASSUME NEW h \in Helpers, InstallHandlers(h) PROVE One' /\ Undo'
    BY <1>1, <1>2, <1>8 DEF InstallHandlers
<1>9. ASSUME NEW h \in Helpers, Wake(h) PROVE One' /\ Undo'
    BY <1>1, <1>2, <1>9 DEF Wake
<1>10. ASSUME NEW h \in Helpers, CheckOurs(h) PROVE One' /\ Undo'
    BY <1>1, <1>2, <1>10 DEF CheckOurs
<1>11. ASSUME NEW h \in Helpers, Restore(h) PROVE One' /\ Undo'
    BY <1>1, <1>2, <1>11 DEF Restore
<1>12. ASSUME NEW h \in Helpers, KillHelper(h) PROVE One' /\ Undo'
    BY <1>1, <1>2, <1>12 DEF KillHelper
<1>13. CASE UNCHANGED clipVars
    BY <1>2, <1>13 DEF clipVars
<1> HIDE DEF One, Undo
<1> QED
    BY <1>4, <1>5, <1>6, <1>7, <1>8, <1>9, <1>10, <1>11, <1>12, <1>13 DEF ClipNext, HelperStep

\* For any number of helpers that do not overlap, and whatever the user copies
\* meanwhile: when they are done and none was killed, no password is left on the
\* clipboard and what belongs there is back (restore_now, clipboard.rs:192-212).
THEOREM ClipboardAsBefore ==
    ASSUME ~ Overlapping
    PROVE  ClipSpec => []AsIfNeverCopied
<1>1. ClipInit => ClipIInv
    <2> SUFFICES ASSUME ClipInit PROVE ClipIInv
        OBVIOUS
    <2>1. ClipTypeOK
        BY ClipboardAssumption DEF ClipInit, ClipTypeOK
    <2> QED BY <2>1 DEF ClipInit, ClipIInv, Running, Undoable, AsIf
<1>2. ClipIInv /\ [ClipNext]_clipVars => ClipIInv'
    BY ClipIInvStep
<1>3. ClipIInv => AsIfNeverCopied
    BY DEF ClipIInv, AsIfNeverCopied, AsIf, Running
<1> QED BY <1>1, <1>2, <1>3, PTL DEF ClipSpec

-----------------------------------------------------------------------------
(* The bridge.  While all is calm, at most one request is under way, that   *)
(* of the call that holds the store.                                       *)

Idle == emitted = <<>> /\ waiting = <<>> /\ dialogs = <<>>
Awaits(c) == thread[c] = "blocked" /\ box[c] = Undelivered

UnderWay(c) ==
    /\ Awaits(c)
    /\ \/ emitted = <<UiRequest(c)>> /\ waiting = <<>> /\ dialogs = <<>>
       \/ emitted = <<>> /\ waiting = <<UiRequest(c)>> /\ dialogs = <<UiRequest(c)>>

Calm ==
    /\ \/ \E c \in ApiCalls : UnderWay(c)
       \/ Idle /\ \A c \in ApiCalls : ~ Awaits(c)
    /\ \A c \in ApiCalls : thread[c] = "blocked" => OwnAnswer(c)

BridgeIInv == BridgeTypeOK /\ (calm => Calm)

\* The parts of a request of the bridge.
LEMMA RequestShape ==
    /\ \A c \in ApiCalls : round \in [ApiCalls -> 1..MaxRounds] => UiRequest(c) \in UiRequests
    /\ \A u \in UiRequests : u[1] \in ApiCalls /\ u[2] \in 1..MaxRounds /\ u = <<u[1], u[2]>>
    BY DEF UiRequest, UiRequests

\* The parts of an answer.
LEMMA AnswerShape ==
    /\ Undelivered # Refused /\ Refused \notin Answers /\ Undelivered \notin Answers
    /\ \A a \in Answers : a[2] \in UiRequests
    /\ \A how \in {"ok", "canceled"}, u \in UiRequests : <<how, u>> \in Answers /\ <<how, u>>[2] = u
    BY DEF Answers, Undelivered, Refused

\* Delivering an answer keeps the types.
LEMMA DeliveredShape ==
    ASSUME BridgeTypeOK, NEW u \in UiRequests, NEW a \in Answers \cup {Refused}
    PROVE  Delivered(u, a) \in [ApiCalls -> Answers \cup {Undelivered, Refused}]
    BY RequestShape DEF Delivered, BridgeTypeOK

\* A call that takes its answer keeps the types.
LEMMA TakeAnswerType ==
    ASSUME BridgeTypeOK, NEW c \in ApiCalls, TakeAnswer(c)
    PROVE  BridgeTypeOK'
<1> DEFINE States == {"idle", "locking", "executes", "blocked", "done", "failed"}
<1>1. /\ thread \in [ApiCalls -> States] /\ round \in [ApiCalls -> 1..MaxRounds]
      /\ holder \in ApiCalls \cup {Nobody}
      /\ \A e \in ApiCalls : thread[e] \in {"executes", "blocked"} <=> holder = e
    BY DEF BridgeTypeOK
<1>2. MaxRounds \in Nat /\ Nobody \notin ApiCalls
    BY AndroidBridgeAssumption
<1>3. thread[c] = "blocked" /\ UNCHANGED <<emitted, waiting, dialogs, box, restarts, calm>>
    BY DEF TakeAnswer
<1>4. \/ /\ thread' = [thread EXCEPT ![c] = "executes"]
         /\ round[c] < MaxRounds /\ round' = [round EXCEPT ![c] = round[c] + 1]
         /\ holder' = holder
      \/ thread' = [thread EXCEPT ![c] = "failed"] /\ holder' = Nobody /\ round' = round
    BY DEF TakeAnswer, Enters, Ends
<1>5. round' \in [ApiCalls -> 1..MaxRounds]
    BY <1>1, <1>2, <1>4
<1>6. holder' \in ApiCalls \cup {Nobody}
    BY <1>1, <1>4
<1>7. thread' \in [ApiCalls -> States]
    BY <1>1, <1>4
<1>8. \A e \in ApiCalls : thread'[e] \in {"executes", "blocked"} <=> holder' = e
    BY <1>1, <1>2, <1>3, <1>4
<1> QED BY <1>3, <1>5, <1>6, <1>7, <1>8 DEF BridgeTypeOK

\* Recreating the activity keeps the types.
LEMMA RecreateType ==
    ASSUME BridgeTypeOK, Recreate
    PROVE  BridgeTypeOK'
<1>1. restarts \in 0..MaxRestarts /\ MaxRestarts \in Nat /\ restarts < MaxRestarts /\ restarts' = restarts + 1
    BY AndroidBridgeAssumption DEF BridgeTypeOK, Recreate
<1>2. restarts' \in 0..MaxRestarts
    BY <1>1
<1>3. waiting' = <<>> /\ emitted' \in {emitted, <<>>} /\ calm' = FALSE
    BY DEF Recreate
<1>4. emitted \in Seq(UiRequests)
    BY DEF BridgeTypeOK
<1>5. <<>> \in Seq(UiRequests)
    OBVIOUS
<1>6. emitted' \in Seq(UiRequests) /\ waiting' \in Seq(UiRequests)
    BY <1>3, <1>4, <1>5, Zenon
<1>7. UNCHANGED <<holder, thread, round, dialogs, box>>
    BY DEF Recreate
<1> QED BY <1>2, <1>3, <1>6, <1>7 DEF BridgeTypeOK

\* Every step of threads, activity and user keeps the types, and with them
\* that who executes or waits for the user holds the store (lib.rs:214-230).
LEMMA BridgeTypeStep ==
    ASSUME BridgeTypeOK, [BridgeNext]_bridgeVars
    PROVE  BridgeTypeOK'
<1> USE AndroidBridgeAssumption, RequestShape, AnswerShape DEF BridgeTypeOK, Enters, Ends
<1>1. ASSUME NEW c \in ApiCalls, Begin(c) PROVE BridgeTypeOK'
    BY <1>1 DEF Begin
<1>2. ASSUME NEW c \in ApiCalls, Lock(c) PROVE BridgeTypeOK'
    BY <1>2 DEF Lock
<1>3. ASSUME NEW c \in ApiCalls, Execute(c) PROVE BridgeTypeOK'
    <2>1. CASE \E how \in {"done", "failed"} : Ends(c, how) /\ UNCHANGED <<emitted, box>>
        BY <1>3, <2>1 DEF Execute
    <2>2. CASE /\ Enters(c, "blocked")
               /\ emitted' = Append(emitted, UiRequest(c))
               /\ box' = [box EXCEPT ![c] = Undelivered]
               /\ UNCHANGED holder
        <3>1. emitted' \in Seq(UiRequests)
            BY <2>2
        <3> QED BY <1>3, <2>2, <3>1 DEF Execute
    <2> QED BY <1>3, <2>1, <2>2 DEF Execute
<1>4. CASE Collect
    <2>1. Head(emitted) \in UiRequests /\ Tail(emitted) \in Seq(UiRequests)
        BY <1>4 DEF Collect
    <2>2. Append(waiting, Head(emitted)) \in Seq(UiRequests) /\ Append(dialogs, Head(emitted)) \in Seq(UiRequests)
        BY <2>1
    <2> QED BY <1>4, <2>1, <2>2 DEF Collect
<1>5. CASE CollectFails
    <2>1. Head(emitted) \in UiRequests /\ Tail(emitted) \in Seq(UiRequests)
        BY <1>5 DEF CollectFails
    <2>2. box' \in [ApiCalls -> Answers \cup {Undelivered, Refused}]
        <3>1. box' = Delivered(Head(emitted), Refused)
            BY <1>5 DEF CollectFails
        <3> HIDE DEF BridgeTypeOK
        <3> QED BY <2>1, <3>1, DeliveredShape, Zenon
    <2> QED BY <1>5, <2>1, <2>2 DEF CollectFails
<1>6. ASSUME NEW outcome \in {"ok", "canceled"}, Answer(outcome) PROVE BridgeTypeOK'
    <2>1. dialogs # <<>> /\ dialogs' = SubSeq(dialogs, 1, Len(dialogs) - 1)
        BY <1>6 DEF Answer
    <2>2. dialogs' \in Seq(UiRequests) /\ dialogs[Len(dialogs)] \in UiRequests
        BY <2>1
    <2>3. CASE waiting = <<>>
        BY <1>6, <2>2, <2>3 DEF Answer
    <2>4. CASE waiting # <<>>
        <3>1. Head(waiting) \in UiRequests /\ Tail(waiting) \in Seq(UiRequests)
            BY <2>4
        <3>2. box' \in [ApiCalls -> Answers \cup {Undelivered, Refused}]
            <4>1. PICK a : a = <<outcome, dialogs[Len(dialogs)]>>
                OBVIOUS
            <4>2. a \in Answers
                BY <2>2, <4>1
            <4>3. box' = Delivered(Head(waiting), a)
                BY <1>6, <2>4, <4>1 DEF Answer
            <4> HIDE DEF BridgeTypeOK
            <4> QED BY <3>1, <4>2, <4>3, DeliveredShape, Zenon
        <3> QED BY <1>6, <2>2, <2>4, <3>1, <3>2 DEF Answer
    <2> QED BY <2>3, <2>4
<1>7. ASSUME NEW c \in ApiCalls, TakeAnswer(c) PROVE BridgeTypeOK'
    BY <1>7, TakeAnswerType
<1>8. ASSUME NEW c \in ApiCalls, Timeout(c) PROVE BridgeTypeOK'
    BY <1>8 DEF Timeout
<1>9. CASE Recreate
    BY <1>9, RecreateType
<1>10. CASE UNCHANGED bridgeVars
    BY <1>10 DEF bridgeVars
<1> QED
    BY <1>1, <1>2, <1>3, <1>4, <1>5, <1>6, <1>7, <1>8, <1>9, <1>10 DEF BridgeNext, ThreadStep

\* Until a call times out or the activity is recreated, the request of the one
\* call that waits is in exactly one place.
LEMMA CalmStep ==
    ASSUME BridgeIInv, [BridgeNext]_bridgeVars, calm'
    PROVE  Calm'
<1>0. BridgeTypeOK /\ BridgeTypeOK'
    BY BridgeTypeStep DEF BridgeIInv
<1>00. \A c, e \in ApiCalls : thread[c] \in {"executes", "blocked"} /\ thread[e] \in {"executes", "blocked"} => c = e
    BY <1>0 DEF BridgeTypeOK
<1> USE RequestShape, AnswerShape DEF Calm, UnderWay, Awaits, Idle, OwnAnswer
<1>1. ASSUME calm, NEW c \in ApiCalls, thread[c] # "blocked", NEW to \in {"locking", "executes", "done", "failed"},
             Enters(c, to), UNCHANGED <<round, emitted, waiting, dialogs, box>>
      PROVE  Calm'
    BY <1>0, <1>1 DEF BridgeIInv, BridgeTypeOK, Enters, UiRequest
<1>2. ASSUME NEW c \in ApiCalls, Begin(c) PROVE Calm'
    BY <1>1, <1>2 DEF Begin
<1>3. ASSUME NEW c \in ApiCalls, Lock(c) PROVE Calm'
    BY <1>1, <1>3 DEF Lock
<1>4. ASSUME NEW c \in ApiCalls, Execute(c) PROVE Calm'
    <2>1. calm /\ thread[c] = "executes" /\ UNCHANGED <<round, waiting, dialogs>>
        BY <1>4 DEF Execute
    <2>2. CASE \E how \in {"done", "failed"} : Ends(c, how) /\ UNCHANGED <<emitted, box>>
        BY <1>1, <2>1, <2>2 DEF Ends
    <2>3. CASE /\ Enters(c, "blocked")
               /\ emitted' = Append(emitted, UiRequest(c))
               /\ box' = [box EXCEPT ![c] = Undelivered]
        <3>1. Idle /\ \A e \in ApiCalls : thread[e] # "blocked"
            BY <1>00, <2>1 DEF BridgeIInv
        <3>2. emitted' = <<UiRequest(c)>> /\ waiting' = <<>> /\ dialogs' = <<>>
            BY <2>1, <2>3, <3>1
        <3>3. UiRequest(c)' = UiRequest(c)
            BY <2>1 DEF UiRequest
        <3>4. thread'[c] = "blocked" /\ box'[c] = Undelivered
            BY <1>0, <2>3 DEF BridgeTypeOK, Enters
        <3>5. \A e \in ApiCalls : e # c => thread'[e] # "blocked"
            BY <1>0, <2>3, <3>1 DEF BridgeTypeOK, Enters
        <3> QED BY <3>2, <3>3, <3>4, <3>5
    <2> QED BY <1>4, <2>2, <2>3 DEF Execute
<1>5. CASE Collect
    <2>1. calm /\ emitted # <<>> /\ UNCHANGED <<thread, round, box>>
        BY <1>5 DEF Collect
    <2>2. PICK c \in ApiCalls : Awaits(c) /\ emitted = <<UiRequest(c)>> /\ waiting = <<>> /\ dialogs = <<>>
        BY <2>1 DEF BridgeIInv
    <2>3. emitted' = <<>> /\ waiting' = <<UiRequest(c)>> /\ dialogs' = <<UiRequest(c)>>
        BY <1>5, <2>2 DEF Collect
    <2>4. \A e \in ApiCalls : UiRequest(e)' = UiRequest(e)
        BY <2>1 DEF UiRequest
    <2> QED BY <2>1, <2>2, <2>3, <2>4 DEF BridgeIInv
<1>6. CASE CollectFails
    <2>1. calm /\ emitted # <<>> /\ UNCHANGED <<thread, round, waiting, dialogs>>
        BY <1>6 DEF CollectFails
    <2>2. PICK c \in ApiCalls : Awaits(c) /\ emitted = <<UiRequest(c)>> /\ waiting = <<>> /\ dialogs = <<>>
        BY <2>1 DEF BridgeIInv
    <2>3. emitted' = <<>> /\ box' = Delivered(UiRequest(c), Refused)
        BY <1>6, <2>2 DEF CollectFails
    <2>7. box' = [box EXCEPT ![c] = Refused]
        BY <2>2, <2>3 DEF Delivered, UiRequest
    <2>4. \A e \in ApiCalls : UiRequest(e)' = UiRequest(e)
        BY <2>1 DEF UiRequest
    <2>5. \A e \in ApiCalls : thread'[e] = "blocked" => e = c /\ box'[e] = Refused
        BY <1>0, <1>00, <2>1, <2>2, <2>7 DEF BridgeTypeOK
    <2> QED BY <2>1, <2>2, <2>3, <2>5
<1>7. ASSUME NEW outcome \in {"ok", "canceled"}, Answer(outcome) PROVE Calm'
    <2>1. calm /\ dialogs # <<>> /\ UNCHANGED <<thread, round, emitted>>
        BY <1>7 DEF Answer
    <2>2. PICK c \in ApiCalls : Awaits(c) /\ emitted = <<>> /\ waiting = <<UiRequest(c)>> /\ dialogs = <<UiRequest(c)>>
        BY <2>1 DEF BridgeIInv
    <2>3. Len(dialogs) = 1 /\ dialogs[Len(dialogs)] = UiRequest(c)
        BY <2>2
    <2>4. dialogs' = <<>> /\ waiting' = <<>>
        BY <1>7, <2>2, <2>3 DEF Answer
    <2>5. box' = [box EXCEPT ![c] = <<outcome, UiRequest(c)>>]
        BY <1>7, <2>2, <2>3 DEF Answer, Delivered, UiRequest
    <2>6. \A e \in ApiCalls : UiRequest(e)' = UiRequest(e)
        BY <2>1 DEF UiRequest
    <2>7. <<outcome, UiRequest(c)>> \in Answers
        BY <1>0 DEF BridgeTypeOK
    <2>8. \A e \in ApiCalls : thread'[e] = "blocked" => e = c /\ box'[e] = <<outcome, UiRequest(c)>>
        BY <1>0, <1>00, <2>1, <2>2, <2>5 DEF BridgeTypeOK
    <2> QED BY <2>1, <2>2, <2>4, <2>6, <2>7, <2>8
<1>8. ASSUME NEW c \in ApiCalls, TakeAnswer(c) PROVE Calm'
    <2>1. /\ calm /\ thread[c] = "blocked" /\ box[c] # Undelivered
          /\ UNCHANGED <<emitted, waiting, dialogs, box>>
        BY <1>8 DEF TakeAnswer
    <2>2. \A e \in ApiCalls : thread[e] = "blocked" => e = c
        BY <1>00, <2>1
    <2>3. Idle
        BY <2>1, <2>2 DEF BridgeIInv
    <2>4. \A e \in ApiCalls : thread'[e] # "blocked"
        BY <1>0, <1>8, <2>2 DEF TakeAnswer, Enters, Ends, BridgeTypeOK
    <2> QED BY <2>1, <2>3, <2>4
<1>9. ASSUME NEW c \in ApiCalls, Timeout(c) PROVE Calm'
    BY <1>9 DEF Timeout
<1>10. CASE Recreate
    BY <1>10 DEF Recreate
<1>11. CASE UNCHANGED bridgeVars
    BY <1>11 DEF bridgeVars, BridgeIInv, UiRequest
<1> HIDE DEF Calm
<1> QED
    BY <1>2, <1>3, <1>4, <1>5, <1>6, <1>7, <1>8, <1>9, <1>10, <1>11 DEF BridgeNext, ThreadStep

\* Until a call times out or the activity is recreated, the call that waits is
\* answered by what the user does in its own dialog, for any number of calls,
\* rounds and launches that fail (MainActivity.kt:41-76).
THEOREM AnswersReach == BridgeSpec => []AnswersReachTheirCall
<1>1. BridgeInit => BridgeIInv
    <2> SUFFICES ASSUME BridgeInit PROVE BridgeIInv
        OBVIOUS
    <2>1. BridgeTypeOK
        BY AndroidBridgeAssumption DEF BridgeInit, BridgeTypeOK
    <2> QED BY <2>1 DEF BridgeInit, BridgeIInv, Calm, Idle, Awaits
<1>2. BridgeIInv /\ [BridgeNext]_bridgeVars => BridgeIInv'
    BY BridgeTypeStep, CalmStep DEF BridgeIInv
<1>3. BridgeIInv => AnswersReachTheirCall
    <2> SUFFICES ASSUME BridgeIInv, calm, NEW c \in ApiCalls, thread[c] = "blocked"
                 PROVE  IF box[c] = Undelivered THEN Answerable(c) ELSE OwnAnswer(c)
        BY DEF AnswersReachTheirCall
    <2>1. \A e \in ApiCalls : thread[e] = "blocked" => e = c
        BY DEF BridgeIInv, BridgeTypeOK
    <2>2. Calm
        BY DEF BridgeIInv
    <2> QED BY <2>1, <2>2 DEF Calm, UnderWay, Awaits, Answerable
<1> QED BY <1>1, <1>2, <1>3, PTL DEF BridgeSpec

-----------------------------------------------------------------------------
(* The host.  Replies come in the order of their requests, and of the lists *)
(* that are still awaited the latest is that of the text in the field.      *)

Lists == {id \in DOMAIN pending : pending[id] # Show}

Asked == [id : Nat \ {0}, body : Bodies]
Replied == [id : Nat, ok : BOOLEAN, body : Bodies]

\* The ids of the messages that are under way.
InFlight == {toHost[i].id : i \in 1..Len(toHost)} \cup {toPopup[i].id : i \in 1..Len(toPopup)}

HostShape ==
    /\ typed \in Queries /\ Wanted \in Queries /\ timer \in Queries \cup {NotArmed}
    /\ status \in {"loading", "dead", "ready", "failed"}
    /\ status \in {"loading", "dead"} => Wanted = None
    /\ nextId \in Nat \ {0}
    /\ DOMAIN pending \subseteq 1..(nextId - 1)
    /\ \A id \in DOMAIN pending : pending[id] \in Bodies
    /\ open \/ DOMAIN pending = {}
    /\ toHost \in Seq(Asked) /\ toPopup \in Seq(Replied)
    /\ nextId = 1 => /\ timer = NotArmed /\ list = NotShown /\ status = "loading"
                     /\ toHost = <<>> /\ toPopup = <<>>

InOrder ==
    /\ \A i \in 1..Len(toHost) : toHost[i].id < nextId
    /\ \A i \in 1..Len(toPopup) : toPopup[i].id < nextId
    /\ \A i, j \in 1..Len(toHost) : i < j => toHost[i].id < toHost[j].id
    /\ \A i, j \in 1..Len(toPopup) :
           i < j /\ toPopup[j].id # 0 => toPopup[i].id < toPopup[j].id
    /\ \A i \in 1..Len(toPopup), j \in 1..Len(toHost) : toPopup[i].id < toHost[j].id

AsAsked ==
    /\ \A i \in 1..Len(toHost) :
           toHost[i].id \in DOMAIN pending => toHost[i].body = pending[toHost[i].id]
    /\ \A i \in 1..Len(toPopup) :
           toPopup[i].id \in DOMAIN pending => toPopup[i].body = pending[toPopup[i].id]

Latest(id) == id \in Lists => pending[id] = List(Wanted) \/ \E k \in Lists : k > id

LatestWins ==
    /\ timer # NotArmed => timer = Wanted
    /\ timer = NotArmed => \A id \in InFlight : Latest(id)
    /\ status = "ready" /\ timer = NotArmed /\ Lists = {} => list = Wanted

HostIInv == HostShape /\ InOrder /\ AsAsked /\ LatestWins

\* What the popup and the host say to each other.
LEMMA BodyShape ==
    /\ \A q \in Queries : List(q) \in Bodies /\ List(q) # Show /\ List(q)[2] = q
    /\ Show \in Bodies
    /\ \A b \in Bodies : b # Show => \E q \in Queries : b = List(q)
    /\ NotArmed \notin Queries
    BY NativeHostAssumption DEF List, Show, Bodies, Queries, None, NotArmed

\* The ids of the messages under way.
LEMMA MessageIds ==
    ASSUME HostShape, InOrder
    PROVE  /\ \A i \in 1..Len(toHost) :
                  toHost[i] \in Asked /\ toHost[i].id \in Nat \ {0} /\ toHost[i].id < nextId
           /\ \A i \in 1..Len(toPopup) :
                  toPopup[i] \in Replied /\ toPopup[i].id \in Nat /\ toPopup[i].id < nextId
<1>1. toHost \in Seq(Asked) /\ toPopup \in Seq(Replied)
    BY DEF HostShape
<1>2. /\ \A i \in 1..Len(toHost) : toHost[i] \in Asked
      /\ \A i \in 1..Len(toPopup) : toPopup[i] \in Replied
    BY <1>1
<1>3. /\ \A i \in 1..Len(toHost) : toHost[i].id < nextId
      /\ \A i \in 1..Len(toPopup) : toPopup[i].id < nextId
    BY DEF InOrder
<1>4. (\A m \in Asked : m.id \in Nat \ {0}) /\ (\A m \in Replied : m.id \in Nat)
    BY DEF Asked, Replied
<1> QED BY <1>2, <1>3, <1>4

\* What only moves the user's side of the popup: the messages stay.
LEMMA TypeKeeps ==
    ASSUME HostIInv, NEW q \in Queries, Type(q)
    PROVE  HostIInv'
<1>1. /\ typed' = q /\ UNCHANGED <<list, status, nextId, pending, open, toHost, toPopup>>
      /\ \/ timer' = q /\ Wanted' = q /\ status \in {"ready", "failed"}
         \/ timer' = timer /\ Wanted' = Wanted /\ Wanted = None /\ status \in {"loading", "dead"}
    BY DEF Type, Wanted, HostIInv, HostShape
<1>2. HostShape'
    <2>1. Wanted' \in Queries /\ timer' \in Queries \cup {NotArmed}
        BY <1>1 DEF HostIInv, HostShape
    <2>2. nextId # 1 \/ timer' = timer
        BY <1>1 DEF HostIInv, HostShape
    <2>3. status \in {"loading", "dead"} => Wanted' = None
        BY <1>1
    <2> QED BY <1>1, <2>1, <2>2, <2>3 DEF HostIInv, HostShape
<1>3. InOrder'
    BY <1>1 DEF HostIInv, InOrder
<1>4. AsAsked'
    BY <1>1 DEF HostIInv, AsAsked
<1>5. LatestWins'
    <2>1. CASE timer' = q /\ Wanted' = q
        BY <1>1, <2>1, BodyShape DEF LatestWins
    <2>2. CASE timer' = timer /\ Wanted' = Wanted /\ status \in {"loading", "dead"}
        <3>1. Lists' = Lists /\ InFlight' = InFlight
            BY <1>1 DEF Lists, InFlight
        <3>2. \A id \in InFlight : Latest(id) => Latest(id)'
            BY <1>1, <2>2, <3>1 DEF Latest
        <3> QED BY <1>1, <2>2, <3>1, <3>2 DEF HostIInv, LatestWins
    <2> QED BY <1>1, <2>1, <2>2
<1> QED BY <1>2, <1>3, <1>4, <1>5 DEF HostIInv

\* Opening the popup keeps the order of the ids.
LEMMA OpenKeeps ==
    ASSUME HostIInv, OpenPopup
    PROVE  HostIInv'
<1> DEFINE first == [id |-> 1, body |-> List(None)]
<1>1. /\ nextId' = 2 /\ DOMAIN pending' = {1} /\ pending'[1] = List(None)
      /\ open' = TRUE /\ toHost' = <<first>> /\ toPopup' = <<>>
      /\ Wanted = None /\ timer = NotArmed
      /\ UNCHANGED <<typed, unheard, Wanted, timer, list, status>>
    BY DEF OpenPopup, HostIInv, HostShape, Wanted
<1>2. None \in Queries
    BY DEF Queries
<1>3. first \in Asked
    BY <1>2, BodyShape DEF Asked
<1>4. Len(toHost') = 1 /\ toHost'[1].id = 1 /\ toHost'[1].body = List(None) /\ Len(toPopup') = 0
    BY <1>1
<1>5. toHost' \in Seq(Asked)
    BY <1>1, <1>3
<1>6. toPopup' \in Seq(Replied)
    BY <1>1
<1> HIDE DEF first
<1>7. HostShape'
    <2>1. /\ typed' \in Queries /\ Wanted' \in Queries /\ timer' \in Queries \cup {NotArmed}
          /\ status' \in {"loading", "dead", "ready", "failed"}
          /\ status' \in {"loading", "dead"} => Wanted' = None
        BY <1>1 DEF HostIInv, HostShape
    <2>2. /\ DOMAIN pending' \subseteq 1..(nextId' - 1)
          /\ \A id \in DOMAIN pending' : pending'[id] \in Bodies
        BY <1>1, <1>2, BodyShape
    <2> QED BY <1>1, <1>5, <1>6, <2>1, <2>2 DEF HostShape
<1>8. InOrder'
    BY <1>1, <1>4 DEF InOrder
<1>9. AsAsked'
    BY <1>1, <1>4 DEF AsAsked
<1>10. LatestWins'
    <2>1. 1 \in Lists'
        BY <1>1, <1>2, BodyShape DEF Lists
    <2>2. InFlight' = {1}
        BY <1>4 DEF InFlight
    <2> QED BY <1>1, <2>1, <2>2 DEF LatestWins, Latest
<1> QED BY <1>7, <1>8, <1>9, <1>10 DEF HostIInv

\* A request that is posted: its id is the highest, and a list that is asked
\* for is the one for the text in the field (native.ts:42-58).
LEMMA RequestKeeps ==
    ASSUME HostIInv, NEW asked \in Bodies, Request(asked), timer' \in {timer, NotArmed},
           asked = Show => timer' = timer,
           asked # Show => timer' = NotArmed /\ asked = List(Wanted),
           nextId # 1
    PROVE  HostIInv'
<1>1. UNCHANGED <<typed, unheard, Wanted, list, open, toPopup>>
    BY DEF Request, Wanted
<1>2. CASE ~ open
    <2>1. /\ UNCHANGED <<nextId, pending, toHost>>
          /\ status' = IF asked = Show THEN status ELSE "failed"
        BY <1>2 DEF Request
    <2>2. DOMAIN pending = {} /\ Lists = {} /\ Lists' = {}
        BY <1>2, <2>1 DEF HostIInv, HostShape, Lists
    <2>3. HostShape'
        BY <1>1, <2>1 DEF HostIInv, HostShape
    <2>4. InOrder' /\ AsAsked'
        BY <1>1, <2>1 DEF HostIInv, InOrder, AsAsked
    <2>5. LatestWins'
        <3>1. timer' # NotArmed => timer' = Wanted'
            BY <1>1 DEF HostIInv, LatestWins
        <3>3. status' = "ready" /\ timer' = NotArmed => list' = Wanted'
            BY <1>1, <2>1, <2>2 DEF HostIInv, LatestWins
        <3> QED BY <2>2, <3>1, <3>3 DEF LatestWins, Latest
    <2> QED BY <2>3, <2>4, <2>5 DEF HostIInv
<1>3. CASE open
    <2> DEFINE new == [id |-> nextId, body |-> asked]
    <2>1. /\ nextId' = nextId + 1 /\ status' = status
          /\ pending' = [id \in DOMAIN pending \cup {nextId} |->
                            IF id = nextId THEN asked ELSE pending[id]]
          /\ toHost' = Append(toHost, new) \/ toHost' = toHost
        BY <1>3 DEF Request
    <2>2. /\ nextId \in Nat /\ nextId > 0 /\ nextId \notin DOMAIN pending
          /\ \A id \in DOMAIN pending : id \in Nat /\ id < nextId
        BY DEF HostIInv, HostShape
    <2>3. /\ DOMAIN pending' = DOMAIN pending \cup {nextId} /\ pending'[nextId] = asked
          /\ \A id \in DOMAIN pending : pending'[id] = pending[id]
        BY <2>1, <2>2
    <2>4. new \in Asked /\ new.id = nextId /\ new.body = asked
        BY <2>2 DEF Asked
    <2> HIDE DEF new
    <2>5. toHost \in Seq(Asked)
        BY DEF HostIInv, HostShape
    <2>6. toHost' \in Seq(Asked)
        BY <2>1, <2>4, <2>5
    <2>7. \A i \in 1..Len(toHost') : toHost'[i] = new \/ (i \in 1..Len(toHost) /\ toHost'[i] = toHost[i])
        BY <2>1, <2>5
    <2>8. \A i, j \in 1..Len(toHost') :
              i < j => i \in 1..Len(toHost) /\ toHost'[i] = toHost[i]
        BY <2>1, <2>5
    <2>9. HostShape'
        BY <1>1, <1>3, <2>1, <2>2, <2>3, <2>6, BodyShape DEF HostIInv, HostShape
    <2>10. InOrder'
        <3>1. /\ \A i \in 1..Len(toHost) : toHost[i].id \in Nat /\ toHost[i].id < nextId
              /\ \A i \in 1..Len(toPopup) : toPopup[i].id \in Nat /\ toPopup[i].id < nextId
            BY MessageIds DEF HostIInv
        <3>2. \A i \in 1..Len(toHost') : toHost'[i].id < nextId'
            <4>1. nextId' = nextId + 1 /\ nextId \in Nat
                BY <2>1, <2>2
            <4>2. \A i \in 1..Len(toHost') :
                      toHost'[i].id = nextId \/ (toHost'[i].id \in Nat /\ toHost'[i].id < nextId)
                BY <2>4, <2>7, <3>1
            <4> QED BY <4>1, <4>2
        <3>3. \A i \in 1..Len(toPopup') : toPopup'[i].id < nextId'
            BY <1>1, <2>1, <2>2, <3>1
        <3>4. \A i, j \in 1..Len(toHost') : i < j => toHost'[i].id < toHost'[j].id
            BY <2>4, <2>7, <2>8, <3>1 DEF HostIInv, InOrder
        <3>5. \A i \in 1..Len(toPopup'), j \in 1..Len(toHost') : toPopup'[i].id < toHost'[j].id
            BY <1>1, <2>4, <2>7, <3>1 DEF HostIInv, InOrder
        <3> QED BY <1>1, <3>2, <3>3, <3>4, <3>5 DEF HostIInv, InOrder
    <2>11. AsAsked'
        <3>1. /\ \A i \in 1..Len(toHost) : toHost[i].id # nextId
              /\ \A i \in 1..Len(toPopup) : toPopup[i].id # nextId
            BY <2>2, MessageIds DEF HostIInv
        <3> QED BY <1>1, <2>3, <2>4, <2>7, <3>1 DEF HostIInv, AsAsked
    <2>12. LatestWins'
        <3>1. \A id \in InFlight : id \in Nat /\ id < nextId
            BY MessageIds DEF InFlight, HostIInv
        <3>2. PICK n : n = nextId
            OBVIOUS
        <3>3. InFlight' \subseteq InFlight \cup {n}
            BY <1>1, <2>4, <2>7, <3>2 DEF InFlight
        <3>4. CASE asked = Show
            <4>1. Lists' = Lists
                BY <2>2, <2>3, <3>4 DEF Lists
            <4>2. \A id \in InFlight : Latest(id) => Latest(id)'
                BY <1>1, <2>2, <2>3, <3>1, <4>1 DEF Latest, Lists
            <4>3. Latest(n)'
                BY <2>2, <3>2, <4>1 DEF Latest, Lists
            <4>4. timer' = timer /\ Wanted' = Wanted /\ list' = list /\ status' = status
                BY <1>1, <2>1, <3>4
            <4> QED BY <3>3, <4>1, <4>2, <4>3, <4>4 DEF HostIInv, LatestWins
        <3>5. CASE asked # Show
            <4>1. n \in Lists' /\ pending'[n] = List(Wanted)
                BY <2>3, <3>2, <3>5 DEF Lists
            <4>2. \A id \in InFlight : Latest(id)'
                BY <3>1, <3>2, <4>1 DEF Latest
            <4>3. Latest(n)'
                BY <1>1, <4>1 DEF Latest
            <4> QED BY <3>3, <3>5, <4>1, <4>2, <4>3 DEF LatestWins
        <3> QED BY <3>4, <3>5
    <2> QED BY <2>9, <2>10, <2>11, <2>12 DEF HostIInv
<1> QED BY <1>2, <1>3

\* The answer takes the place of its request, so replies come in the order of
\* the requests (messaging_host.rs:84-160).
LEMMA ServeKeeps ==
    ASSUME HostIInv, Serve
    PROVE  HostIInv'
<1>1. /\ toHost # <<>> /\ toHost' = Tail(toHost)
      /\ UNCHANGED <<typed, unheard, Wanted, timer, list, status, nextId, pending, open>>
    BY DEF Serve, Wanted
<1>2. toHost \in Seq(Asked) /\ toPopup \in Seq(Replied)
    BY DEF HostIInv, HostShape
<1> DEFINE req == Head(toHost)
<1>3. PICK reply \in Replied :
          toPopup' = Append(toPopup, reply) /\ reply.body = req.body /\ reply.id \in {req.id, 0}
    <2>1. req \in Asked
        BY <1>1, <1>2
    <2>2. req.id \in Nat /\ req.body \in Bodies
        BY <2>1 DEF Asked
    <2>3. PICK id \in {req.id, 0}, ok \in BOOLEAN :
              toPopup' = Append(toPopup, [id |-> id, ok |-> ok, body |-> req.body])
        BY DEF Serve
    <2> DEFINE r == [id |-> id, ok |-> ok, body |-> req.body]
    <2>4. r \in Replied /\ r.body = req.body /\ r.id \in {req.id, 0}
        BY <2>2, <2>3 DEF Replied
    <2>5. toPopup' = Append(toPopup, r)
        BY <2>3
    <2> HIDE DEF r
    <2> QED BY <2>4, <2>5
<1>4. Len(toHost) > 0 /\ req = toHost[1]
    BY <1>1, <1>2
<1>5. /\ toHost' \in Seq(Asked) /\ Len(toHost') = Len(toHost) - 1
      /\ \A i \in 1..Len(toHost') : i + 1 \in 1..Len(toHost) /\ toHost'[i] = toHost[i + 1]
    BY <1>1, <1>2
<1>6. /\ toPopup' \in Seq(Replied) /\ Len(toPopup') = Len(toPopup) + 1
      /\ toPopup'[Len(toPopup) + 1] = reply
      /\ \A i \in 1..Len(toPopup) : toPopup'[i] = toPopup[i]
    BY <1>2, <1>3
<1>7. \A i \in 1..Len(toPopup') : i \in 1..Len(toPopup) \/ i = Len(toPopup) + 1
    BY <1>2, <1>6
<1>8. Len(toHost) \in Nat /\ Len(toPopup) \in Nat
    BY <1>2
<1> HIDE DEF req
<1>9. HostShape'
    BY <1>1, <1>5, <1>6, <1>8 DEF HostIInv, HostShape
<1>10. InOrder'
    <2>1. /\ \A i \in 1..Len(toHost) : toHost[i].id \in Nat \ {0} /\ toHost[i].id < nextId
          /\ \A i \in 1..Len(toPopup) : toPopup[i].id \in Nat /\ toPopup[i].id < nextId
        BY MessageIds DEF HostIInv
    <2>2. nextId' = nextId /\ nextId \in Nat
        BY <1>1 DEF HostIInv, HostShape
    <2>3. reply.id \in Nat /\ reply.id <= toHost[1].id /\ reply.id < nextId
        BY <1>3, <1>4, <2>1, <2>2
    <2>4. \A i \in 1..Len(toHost') : toHost'[i].id < nextId'
        BY <1>5, <2>1, <2>2
    <2>5. \A i \in 1..Len(toPopup') : toPopup'[i].id < nextId'
        BY <1>6, <1>7, <2>1, <2>2, <2>3
    <2>6. \A i, j \in 1..Len(toHost') : i < j => toHost'[i].id < toHost'[j].id
        <3>1. SUFFICES ASSUME NEW i \in 1..Len(toHost'), NEW j \in 1..Len(toHost'), i < j
                       PROVE  toHost'[i].id < toHost'[j].id
            OBVIOUS
        <3>2. /\ i + 1 \in 1..Len(toHost) /\ toHost'[i] = toHost[i + 1]
              /\ j + 1 \in 1..Len(toHost) /\ toHost'[j] = toHost[j + 1]
            BY <1>5
        <3>3. i + 1 < j + 1
            BY <1>5, <1>8, <3>1
        <3> QED BY <3>2, <3>3 DEF HostIInv, InOrder
    <2>7. \A i \in 1..Len(toPopup) : toPopup[i].id < toHost[1].id
        BY <1>4, <1>8 DEF HostIInv, InOrder
    <2>8. \A i, j \in 1..Len(toPopup') :
              i < j /\ toPopup'[j].id # 0 => toPopup'[i].id < toPopup'[j].id
        <3>1. SUFFICES ASSUME NEW i \in 1..Len(toPopup'), NEW j \in 1..Len(toPopup'), i < j,
                              toPopup'[j].id # 0
                       PROVE  toPopup'[i].id < toPopup'[j].id
            OBVIOUS
        <3>2. i \in 1..Len(toPopup) /\ toPopup'[i] = toPopup[i]
            BY <1>6, <1>7, <1>8, <3>1
        <3>3. CASE j \in 1..Len(toPopup)
            BY <1>6, <3>1, <3>2, <3>3 DEF HostIInv, InOrder
        <3>4. CASE j = Len(toPopup) + 1
            BY <1>3, <1>4, <1>6, <2>7, <3>1, <3>2, <3>4
        <3> QED BY <1>7, <3>3, <3>4
    <2>9. \A i \in 1..Len(toPopup'), j \in 1..Len(toHost') : toPopup'[i].id < toHost'[j].id
        <3>1. SUFFICES ASSUME NEW i \in 1..Len(toPopup'), NEW j \in 1..Len(toHost')
                       PROVE  toPopup'[i].id < toHost'[j].id
            OBVIOUS
        <3>2. j + 1 \in 1..Len(toHost) /\ toHost'[j] = toHost[j + 1]
            BY <1>5
        <3>3. toHost[1].id < toHost[j + 1].id
            BY <1>4, <1>8, <3>2 DEF HostIInv, InOrder
        <3>4. CASE i \in 1..Len(toPopup)
            BY <1>6, <3>2, <3>4 DEF HostIInv, InOrder
        <3>5. CASE i = Len(toPopup) + 1
            BY <1>4, <1>6, <1>8, <2>1, <2>3, <3>2, <3>3, <3>5
        <3> QED BY <1>7, <3>4, <3>5
    <2> QED BY <2>4, <2>5, <2>6, <2>8, <2>9 DEF InOrder
<1>11. 0 \notin DOMAIN pending
    BY DEF HostIInv, HostShape
<1>12. AsAsked'
    <2>1. reply.id \in DOMAIN pending => reply.body = pending[reply.id]
        BY <1>3, <1>4, <1>11 DEF HostIInv, AsAsked
    <2> QED BY <1>1, <1>5, <1>6, <1>7, <2>1 DEF HostIInv, AsAsked
<1>13. LatestWins'
    <2>1. InFlight' \subseteq InFlight \cup {0}
        <3>1. \A i \in 1..Len(toHost') : toHost'[i].id \in InFlight
            BY <1>5 DEF InFlight
        <3>2. reply.id \in InFlight \cup {0}
            BY <1>3, <1>4, <1>8 DEF InFlight
        <3>3. \A i \in 1..Len(toPopup') : toPopup'[i].id \in InFlight \cup {0}
            BY <1>6, <1>7, <3>2 DEF InFlight
        <3> QED BY <3>1, <3>3 DEF InFlight
    <2>2. \A id \in InFlight : Latest(id) => Latest(id)'
        BY <1>1 DEF Latest, Lists
    <2>3. Latest(0)' /\ Lists' = Lists
        BY <1>1, <1>11 DEF Latest, Lists
    <2> QED BY <1>1, <2>1, <2>2, <2>3 DEF HostIInv, LatestWins
<1> QED BY <1>9, <1>10, <1>12, <1>13 DEF HostIInv

\* A host that ends leaves no list awaited.
LEMMA HostEndsKeeps ==
    ASSUME HostIInv, HostEnds
    PROVE  HostIInv'
<1>1. /\ toHost' = <<>> /\ Len(toHost') = 0 /\ toHost' \in Seq(Asked)
      /\ UNCHANGED <<typed, unheard, Wanted, timer, list, status, nextId, pending, open, toPopup>>
    BY DEF HostEnds, Wanted
<1>2. HostShape'
    BY <1>1 DEF HostIInv, HostShape
<1>3. InOrder' /\ AsAsked'
    BY <1>1 DEF HostIInv, InOrder, AsAsked
<1>4. InFlight' \subseteq InFlight /\ Lists' = Lists
    BY <1>1 DEF InFlight, Lists
<1>5. \A id \in InFlight : Latest(id) => Latest(id)'
    BY <1>1, <1>4 DEF Latest
<1>6. LatestWins'
    BY <1>1, <1>4, <1>5 DEF HostIInv, LatestWins
<1> QED BY <1>2, <1>3, <1>6 DEF HostIInv

\* onDisconnect rejects what waits: either no list was awaited, or the list is
\* not shown as current (native.ts:99-109).
LEMMA DisconnectedKeeps ==
    ASSUME HostIInv, Disconnected
    PROVE  HostIInv'
<1>1. /\ pending' = <<>> /\ DOMAIN pending' = {} /\ open /\ open' = FALSE
      /\ status' = (IF \A id \in DOMAIN pending : pending[id] = Show THEN status ELSE ListFailed)
      /\ UNCHANGED <<typed, unheard, Wanted, timer, list, nextId, toHost, toPopup>>
    BY DEF Disconnected, Wanted
<1>2. nextId = 1 => status' = status
    BY <1>1 DEF HostIInv, HostShape
<1>3. HostShape'
    <2>1. /\ status' \in {"loading", "dead", "ready", "failed"}
          /\ status' \in {"loading", "dead"} => status \in {"loading", "dead"}
        BY <1>1 DEF HostIInv, HostShape, ListFailed
    <2> QED BY <1>1, <1>2, <2>1 DEF HostIInv, HostShape
<1>4. InOrder' /\ AsAsked'
    BY <1>1 DEF HostIInv, InOrder, AsAsked
<1>5. Lists' = {}
    BY <1>1 DEF Lists
<1>6. status' = "ready" => status = "ready" /\ Lists = {}
    BY <1>1 DEF ListFailed, Lists
<1>7. \A id \in InFlight' : Latest(id)'
    BY <1>5 DEF Latest
<1>8. LatestWins'
    BY <1>1, <1>5, <1>6, <1>7 DEF HostIInv, LatestWins
<1> QED BY <1>3, <1>4, <1>8 DEF HostIInv

\* A reply that is taken leaves the later ones, and what they wait for; the
\* last list that is awaited is the one that is shown (popup.ts:154-169).
LEMMA ReceiveKeeps ==
    ASSUME HostIInv, Receive
    PROVE  HostIInv'
<1> DEFINE reply == Head(toPopup)
<1>1. /\ open /\ toPopup # <<>> /\ toPopup' = Tail(toPopup)
      /\ IF reply.id \in DOMAIN pending
         THEN pending' = Without(reply.id) /\ Continue(reply.body, reply.ok)
         ELSE UNCHANGED <<pending, status, list>>
      /\ UNCHANGED <<typed, unheard, Wanted, timer, nextId, open, toHost>>
    BY DEF Receive, Wanted
<1>2. toPopup \in Seq(Replied) /\ toHost \in Seq(Asked)
    BY DEF HostIInv, HostShape
<1>3. Len(toPopup) \in Nat /\ Len(toPopup) > 0 /\ reply = toPopup[1]
    BY <1>1, <1>2
<1>4. /\ toPopup' \in Seq(Replied) /\ Len(toPopup') = Len(toPopup) - 1
      /\ \A i \in 1..Len(toPopup') : i + 1 \in 1..Len(toPopup) /\ toPopup'[i] = toPopup[i + 1]
    BY <1>1, <1>2
<1> DEFINE k == reply.id
<1> HIDE DEF reply, k
<1>5. k = reply.id /\ k = toPopup[1].id /\ k \in Nat
    BY <1>3, MessageIds DEF k, HostIInv
<1>6. /\ \A i \in 1..Len(toPopup) : toPopup[i].id \in Nat /\ toPopup[i].id < nextId
      /\ \A i \in 1..Len(toHost) : toHost[i].id \in Nat \ {0} /\ toHost[i].id < nextId
    BY MessageIds DEF HostIInv
<1>7. \A i \in 1..Len(toPopup') : toPopup'[i].id # 0 => k < toPopup'[i].id
    <2>1. SUFFICES ASSUME NEW i \in 1..Len(toPopup'), toPopup'[i].id # 0
                   PROVE  k < toPopup'[i].id
        OBVIOUS
    <2>2. i + 1 \in 1..Len(toPopup) /\ 1 \in 1..Len(toPopup) /\ 1 < i + 1 /\ toPopup'[i] = toPopup[i + 1]
        BY <1>3, <1>4
    <2> QED BY <1>5, <2>1, <2>2 DEF HostIInv, InOrder
<1>8. \A i \in 1..Len(toHost') : k < toHost'[i].id
    BY <1>1, <1>3, <1>5 DEF HostIInv, InOrder
<1>9. InOrder'
    <2>1. \A i \in 1..Len(toPopup') : toPopup'[i].id < nextId'
        BY <1>1, <1>4, <1>6
    <2>2. \A i, j \in 1..Len(toPopup') :
              i < j /\ toPopup'[j].id # 0 => toPopup'[i].id < toPopup'[j].id
        <3>1. SUFFICES ASSUME NEW i \in 1..Len(toPopup'), NEW j \in 1..Len(toPopup'), i < j,
                              toPopup'[j].id # 0
                       PROVE  toPopup'[i].id < toPopup'[j].id
            OBVIOUS
        <3>2. /\ i + 1 \in 1..Len(toPopup) /\ toPopup'[i] = toPopup[i + 1]
              /\ j + 1 \in 1..Len(toPopup) /\ toPopup'[j] = toPopup[j + 1]
              /\ i + 1 < j + 1
            BY <1>3, <1>4, <3>1
        <3> QED BY <3>1, <3>2 DEF HostIInv, InOrder
    <2>3. \A i \in 1..Len(toPopup'), j \in 1..Len(toHost') : toPopup'[i].id < toHost'[j].id
        BY <1>1, <1>4 DEF HostIInv, InOrder
    <2> QED BY <1>1, <2>1, <2>2, <2>3 DEF HostIInv, InOrder
<1>10. InFlight' \subseteq InFlight /\ \A id \in InFlight' : id = 0 \/ id > k
    <2>1. \A i \in 1..Len(toPopup') : toPopup'[i].id \in InFlight
        BY <1>4 DEF InFlight
    <2>2. \A i \in 1..Len(toHost') : toHost'[i].id \in InFlight
        BY <1>1 DEF InFlight
    <2>3. \A i \in 1..Len(toPopup') : toPopup'[i].id = 0 \/ toPopup'[i].id > k
        BY <1>4, <1>5, <1>6, <1>7
    <2>4. \A i \in 1..Len(toHost') : toHost'[i].id > k
        BY <1>1, <1>5, <1>6, <1>8
    <2> QED BY <2>1, <2>2, <2>3, <2>4 DEF InFlight
<1>11. \A id \in DOMAIN pending : id \in Nat \ {0}
    BY DEF HostIInv, HostShape
<1>12. CASE k \notin DOMAIN pending
    <2>1. UNCHANGED <<pending, status, list>>
        BY <1>1, <1>5, <1>12
    <2>2. HostShape'
        BY <1>1, <1>4, <2>1 DEF HostIInv, HostShape
    <2>3. AsAsked'
        BY <1>1, <1>4, <2>1 DEF HostIInv, AsAsked
    <2>4. \A id \in InFlight : Latest(id) => Latest(id)'
        BY <1>1, <2>1 DEF Latest, Lists
    <2>5. Lists' = Lists
        BY <2>1 DEF Lists
    <2>6. LatestWins'
        BY <1>1, <1>10, <2>1, <2>4, <2>5 DEF HostIInv, LatestWins
    <2> QED BY <1>9, <2>2, <2>3, <2>6 DEF HostIInv
<1>13. CASE k \in DOMAIN pending
    <2>1. pending' = Without(k) /\ Continue(reply.body, reply.ok)
        BY <1>1, <1>5, <1>13
    <2>2. /\ DOMAIN pending' = DOMAIN pending \ {k}
          /\ \A id \in DOMAIN pending' : pending'[id] = pending[id]
        BY <2>1 DEF Without
    <2>3. Lists' = Lists \ {k}
        BY <2>2 DEF Lists
    <2>4. reply.body = pending[k]
        BY <1>3, <1>5, <1>13 DEF HostIInv, AsAsked
    <2>5. nextId # 1
        BY <1>1 DEF HostIInv, HostShape
    <2>6. HostShape'
        <3>1. /\ status' \in {"loading", "dead", "ready", "failed"}
              /\ status' \in {"loading", "dead"} => status \in {"loading", "dead"}
            BY <2>1 DEF Continue, ListFailed, HostIInv, HostShape
        <3> QED BY <1>1, <1>4, <2>2, <2>5, <3>1 DEF HostIInv, HostShape
    <2>7. AsAsked'
        BY <1>1, <1>4, <2>2 DEF HostIInv, AsAsked
    <2>8. \A id \in InFlight' : Latest(id) => Latest(id)'
        <3>1. SUFFICES ASSUME NEW id \in InFlight', Latest(id), id \in Lists'
                       PROVE  pending'[id] = List(Wanted') \/ \E n \in Lists' : n > id
            BY DEF Latest
        <3>2. id \in Lists /\ id # k /\ id \in Nat \ {0} /\ id > k
            BY <1>10, <1>11, <2>3, <3>1 DEF Lists
        <3>3. CASE pending[id] = List(Wanted)
            BY <1>1, <2>2, <3>1, <3>3 DEF Lists
        <3>4. CASE \E n \in Lists : n > id
            <4>1. PICK n \in Lists : n > id
                BY <3>4
            <4>2. n \in Nat
                BY <1>11 DEF Lists
            <4>3. n # k
                BY <1>5, <3>2, <4>1, <4>2
            <4> QED BY <2>3, <4>1, <4>3
        <3> QED BY <3>1, <3>2, <3>3, <3>4 DEF Latest
    <2>9. LatestWins'
        <3>1. timer' # NotArmed => timer' = Wanted'
            BY <1>1 DEF HostIInv, LatestWins
        <3>2. timer' = NotArmed => \A id \in InFlight' : Latest(id)'
            BY <1>1, <1>10, <2>8 DEF HostIInv, LatestWins
        <3>3. ASSUME status' = "ready", timer' = NotArmed, Lists' = {}
              PROVE  list' = Wanted'
            <4>1. CASE pending[k] = Show
                <5>1. UNCHANGED <<status, list>> /\ k \notin Lists
                    BY <2>1, <2>4, <4>1 DEF Continue, Lists
                <5> QED BY <1>1, <2>3, <3>3, <5>1 DEF HostIInv, LatestWins
            <4>2. CASE pending[k] # Show
                <5>1. k \in Lists
                    BY <1>13, <4>2 DEF Lists
                <5>2. k \in InFlight
                    BY <1>3, <1>5 DEF InFlight
                <5>3. Latest(k)
                    BY <1>1, <3>3, <5>2 DEF HostIInv, LatestWins
                <5>4. \A n \in Lists : ~ (n > k)
                    BY <1>5, <2>3, <3>3
                <5>5. pending[k] = List(Wanted)
                    BY <5>1, <5>3, <5>4 DEF Latest
                <5>6. list' = pending[k][2]
                    BY <2>1, <2>4, <3>3, <4>2 DEF Continue, ListFailed
                <5>7. Wanted \in Queries
                    BY DEF HostIInv, HostShape
                <5> QED BY <1>1, <5>5, <5>6, <5>7, BodyShape
            <4> QED BY <4>1, <4>2
        <3> QED BY <3>1, <3>2, <3>3 DEF LatestWins
    <2> QED BY <1>9, <2>6, <2>7, <2>9 DEF HostIInv
<1> QED BY <1>12, <1>13

\* When nothing is under way the list shown is that of the text in the field, or
\* the full one if that text was typed before the popup listened to the field,
\* for any texts, any number of requests, replies that are too large and a host
\* that dies at any moment (popup.ts:109-118, 154-169).
THEOREM ListIsCurrent == HostSpec => []ListMatchesField
<1>1. HostInit => HostIInv
    <2> SUFFICES ASSUME HostInit PROVE HostIInv
        OBVIOUS
    <2>1. DOMAIN pending = {} /\ Len(toHost) = 0 /\ Len(toPopup) = 0
        BY DEF HostInit
    <2>2. HostShape
        BY <2>1 DEF HostInit, HostShape, Queries, Wanted
    <2> QED BY <2>1, <2>2 DEF HostInit, HostIInv, InOrder, AsAsked, LatestWins, InFlight, Wanted
<1>2. HostIInv /\ [HostNext]_hostVars => HostIInv'
    <2> SUFFICES ASSUME HostIInv, [HostNext]_hostVars PROVE HostIInv'
        OBVIOUS
    <2>1. CASE Search
        <3>1. Wanted \in Queries /\ timer # NotArmed /\ nextId # 1 /\ timer = Wanted
            BY <2>1 DEF Search, HostIInv, HostShape, LatestWins
        <3>2. List(timer) \in Bodies /\ List(timer) # Show /\ List(timer) = List(Wanted)
            BY <3>1, BodyShape
        <3>3. Request(List(timer)) /\ timer' = NotArmed
            BY <2>1 DEF Search
        <3> QED BY <3>1, <3>2, <3>3, RequestKeeps
    <2>2. CASE Copy
        <3>1. Request(Show) /\ timer' = timer /\ nextId # 1
            BY <2>2 DEF Copy, HostIInv, HostShape
        <3> QED BY <3>1, RequestKeeps, BodyShape
    <2>3. CASE UNCHANGED hostVars
        <3>1. UNCHANGED <<typed, unheard, Wanted, timer, list, status, nextId, pending, open, toHost,
                          toPopup>>
            BY <2>3 DEF hostVars, Wanted
        <3> QED BY <3>1 DEF HostIInv, HostShape, InOrder, AsAsked, LatestWins, Latest, Lists, InFlight
    <2> QED BY <2>1, <2>2, <2>3, TypeKeeps, OpenKeeps, ServeKeeps, HostEndsKeeps, ReceiveKeeps,
               DisconnectedKeeps DEF HostNext
<1>3. HostIInv => ListMatchesField
    BY DEF HostIInv, LatestWins, ListMatchesField, Lists
<1> QED BY <1>1, <1>2, <1>3, PTL DEF HostSpec
-----------------------------------------------------------------------------
(* The git remote.  What others push reaches this branch only by a pull,   *)
(* which fetches it too: so when a push is a fast-forward, nobody pushed   *)
(* since the fetch, and the audit compared with the true remote.           *)

Who == {"here", "elsewhere"}

\* Branches whose contents were written by the first n edits.
Branches(n) == {h \in Histories(0..(n + 1), Who) : NoEmptyCommit(h)}

PushShape ==
    /\ {remote, upstream, local} \subseteq Branches(edits)
    /\ work \in [Keys -> 0..(edits + 1)]
    /\ plain \subseteq 2..(edits + 1)
    /\ edits \in 0..MaxEdits
    /\ gitState \in {"clean", "rebase"}
    /\ step \in {"off", "pull", "rule", "commit_rule", "audit", "push"}
    /\ force \in BOOLEAN

Pulled == step \in {"rule", "commit_rule", "audit", "push"}

\* All of a branch from elsewhere came with a fetch.
FetchedFrom(h, g) == \A i \in 1..Len(h) : h[i].by = "elsewhere" =>
                         i <= Len(g) /\ \A j \in 1..i : g[j] = h[j]

Ancestry ==
    /\ Extends(remote, upstream)
    /\ \A i \in (Len(upstream) + 1)..Len(remote) : remote[i].by = "elsewhere"
    /\ Pulled => Extends(local, upstream)
    /\ FetchedFrom(local, upstream)

\* A sync that nobody disturbs works on what is committed.
Undisturbed ==
    /\ step # "off" => gitState = "clean"
    /\ Pulled => \A k \in Entries : Tip(local)[k] # NoEntry => work[k] = Tip(local)[k]
    /\ work[Attributes] = IF step = "commit_rule" THEN Rule ELSE Tip(local)[Attributes]
    /\ step \in {"audit", "push"} => Tip(local)[Attributes] = Rule
    /\ step = "push" /\ ~ force => Issues = {}

PushIInv == PushShape /\ Ancestry /\ (~ Interfering => Undisturbed)

-----------------------------------------------------------------------------
\* A branch of a history with fewer edits is one of a history with more.
LEMMA BranchesGrow ==
    ASSUME NEW n \in Nat, NEW h \in Branches(n)
    PROVE  h \in Branches(n + 1)
<1>1. /\ h \in Seq(CommitShapes(0..(n + 1), Who)) /\ Len(h) \in Nat
      /\ \A i \in 1..Len(h) : h[i] \in CommitShapes(0..(n + 1), Who)
    BY DEF Branches, Histories
<1>2. CommitShapes(0..(n + 1), Who) \subseteq CommitShapes(0..((n + 1) + 1), Who)
    <2>1. 0..(n + 1) \subseteq 0..((n + 1) + 1)
        OBVIOUS
    <2> HIDE DEF Who
    <2> QED BY <2>1 DEF CommitShapes
<1>3. h \in Seq(CommitShapes(0..((n + 1) + 1), Who))
    BY <1>1, <1>2
<1> QED BY <1>3 DEF Branches, Histories

\* The tip of a branch is a tree.
LEMMA TipOfBranch ==
    ASSUME NEW n \in Nat, NEW h \in Branches(n)
    PROVE  Tip(h) \in [Keys -> 0..(n + 1)]
<1> DEFINE C == 0..(n + 1)
<1>1. NoEntry \in C /\ h \in Histories(C, Who)
    BY DEF Branches, NoEntry
<1> HIDE DEF C
<1>2. Tip(h) \in [Keys -> C]
    BY <1>1, TipType
<1> QED BY <1>2 DEF C

\* A commit of one file (Git2Vcs::commit): the branch with one more commit.
LEMMA CommittedGrows ==
    ASSUME NEW n \in Nat, NEW h \in Branches(n), NEW k \in Keys, NEW c \in 0..(n + 1),
           c # Tip(h)[k], NEW who \in Who
    PROVE  /\ Committed(h, k, c, who) \in Branches(n)
           /\ Len(Committed(h, k, c, who)) = Len(h) + 1
           /\ Extends(Committed(h, k, c, who), h)
           /\ Committed(h, k, c, who)[Len(h) + 1].by = who
           /\ Tip(Committed(h, k, c, who)) = [Tip(h) EXCEPT ![k] = c]
<1>1. h \in Histories(0..(n + 1), Who) /\ NoEmptyCommit(h) /\ NoEntry \in 0..(n + 1)
    BY DEF Branches, NoEntry
<1>2. Tip(h) \in [Keys -> 0..(n + 1)]
    BY TipOfBranch
<1>3. PICK tree : tree = [Tip(h) EXCEPT ![k] = c]
    OBVIOUS
<1>4. tree \in [Keys -> 0..(n + 1)] /\ tree # Tip(h)
    BY <1>2, <1>3
<1>5. PICK commit : commit = [tree |-> tree, by |-> who]
    OBVIOUS
<1>6. commit \in CommitShapes(0..(n + 1), Who) /\ commit.tree = tree /\ commit.by = who
    BY <1>4, <1>5 DEF CommitShapes
<1>7. commit.tree # Tip(h)
    BY <1>4, <1>6
<1>8. Committed(h, k, c, who) = Append(h, commit)
    BY <1>3, <1>5 DEF Committed
<1>9. /\ Append(h, commit) \in Histories(0..(n + 1), Who)
      /\ Len(Append(h, commit)) = Len(h) + 1
      /\ Extends(Append(h, commit), h) /\ Append(h, commit)[Len(h) + 1] = commit
      /\ Tip(Append(h, commit)) = commit.tree
      /\ NoEmptyCommit(Append(h, commit))
    <2> DEFINE C == 0..(n + 1)
    <2>1. h \in Histories(C, Who) /\ commit \in CommitShapes(C, Who) /\ NoEntry \in C
        BY <1>1, <1>6
    <2> HIDE DEF C
    <2>2. /\ Append(h, commit) \in Histories(C, Who)
          /\ Len(Append(h, commit)) = Len(h) + 1
          /\ Extends(Append(h, commit), h) /\ Append(h, commit)[Len(h) + 1] = commit
          /\ Tip(Append(h, commit)) = commit.tree
          /\ NoEmptyCommit(Append(h, commit))
        BY <1>1, <1>7, <2>1, AppendCommit
    <2> QED BY <2>2 DEF C
<1> QED BY <1>3, <1>6, <1>8, <1>9 DEF Branches

\* What `git pull --rebase` makes of the branch: the remote's commits, and on
\* top of them nothing but commits of this store.
LEMMA RebasedBranch ==
    ASSUME PushShape
    PROVE  /\ Rebased.history \in Branches(edits)
           /\ Extends(Rebased.history, remote)
           /\ Rebased.history = local \/ NewBy(Rebased.history, remote, "here")
<1>1. PICK r : r = Rebase(local, remote, "here")
    OBVIOUS
<1>2. /\ local \in Histories(0..(edits + 1), Who) /\ NoEmptyCommit(local)
      /\ remote \in Histories(0..(edits + 1), Who) /\ NoEmptyCommit(remote)
      /\ NoEntry \in 0..(edits + 1) /\ "here" \in Who
    BY DEF PushShape, Branches, NoEntry, Who
<1>3. /\ r \in Accs(0..(edits + 1), Who)
      /\ NoEmptyCommit(r.history)
      /\ Extends(r.history, remote)
      /\ r.history = local \/ NewBy(r.history, remote, "here")
    BY <1>1, <1>2, RebaseResult
<1>4. Rebased.history = r.history
    <2>1. [r EXCEPT !.ok = FALSE].history = r.history
        BY <1>3 DEF Accs
    <2> QED BY <1>1, <2>1 DEF Rebased
<1>5. r.history \in Histories(0..(edits + 1), Who)
    BY <1>3 DEF Accs
<1> QED BY <1>3, <1>4, <1>5 DEF Branches

-----------------------------------------------------------------------------
\* Every step keeps the types; the branches only have contents that were
\* written before.
LEMMA PushShapeStep ==
    ASSUME PushShape, [PushNext]_pushVars
    PROVE  PushShape'
<1> USE GitPushAssumption
<1>1. /\ edits \in Nat /\ edits \in 0..MaxEdits /\ edits + 1 \in Nat
      /\ remote \in Branches(edits) /\ upstream \in Branches(edits) /\ local \in Branches(edits)
      /\ work \in [Keys -> 0..(edits + 1)] /\ plain \subseteq 2..(edits + 1)
    BY DEF PushShape
<1>2. /\ edits < MaxEdits => edits + 1 \in 0..MaxEdits /\ edits + 2 \in 0..((edits + 1) + 1)
      /\ edits + 2 \in 2..((edits + 1) + 1)
      /\ 2..(edits + 1) \subseteq 2..((edits + 1) + 1)
      /\ 0..(edits + 1) \subseteq 0..((edits + 1) + 1)
      /\ Rule \in 0..(edits + 1) /\ NoEntry \in 0..(edits + 1)
    BY <1>1 DEF Rule, NoEntry
<1>3. ASSUME NEW e \in Nat, e = edits + 1
      PROVE  /\ remote \in Branches(e) /\ upstream \in Branches(e) /\ local \in Branches(e)
             /\ work \in [Keys -> 0..(e + 1)] /\ plain \subseteq 2..(e + 1)
    BY <1>1, <1>2, <1>3, BranchesGrow
<1>4. ASSUME NEW k \in Entries, EditFile(k) PROVE PushShape'
    <2>1. /\ k \in Keys /\ UNCHANGED <<remote, upstream, local, gitState, step, force>>
        BY <1>4 DEF EditFile, Entries
    <2>2. CASE edits < MaxEdits /\ edits' = edits + 1 /\ work' = [work EXCEPT ![k] = edits + 2]
                 /\ plain' \in {plain, plain \cup {edits + 2}}
        BY <1>1, <1>2, <1>3, <2>1, <2>2 DEF PushShape
    <2>3. CASE work' = [work EXCEPT ![k] = NoEntry] /\ UNCHANGED <<edits, plain>>
        BY <1>1, <1>2, <2>1, <2>3 DEF PushShape
    <2> QED BY <1>4, <2>2, <2>3 DEF EditFile
<1>5. ASSUME NEW k \in Entries, CommitFile(k) PROVE PushShape'
    <2>1. k \in Keys /\ work[k] \in 0..(edits + 1) /\ work[k] # Tip(local)[k] /\ "here" \in Who
        BY <1>1, <1>5 DEF CommitFile, Entries, Who
    <2>2. local' \in Branches(edits)
        BY <1>1, <1>5, <2>1, CommittedGrows DEF CommitFile
    <2> QED BY <1>5, <2>2 DEF CommitFile, PushShape
<1>6. ASSUME NEW k \in Entries, PushElsewhere(k) PROVE PushShape'
    <2>1. k \in Keys /\ edits' = edits + 1 /\ edits + 1 \in 0..MaxEdits /\ "elsewhere" \in Who
        BY <1>2, <1>6 DEF PushElsewhere, Entries, Who
    <2>2. Tip(remote)[k] \in 0..(edits + 1)
        BY <1>1, <2>1, TipOfBranch
    <2>3. edits + 2 # Tip(remote)[k] /\ edits + 2 \in 0..((edits + 1) + 1)
        BY <1>1, <2>2
    <2>4. remote' \in Branches(edits + 1)
        BY <1>1, <1>3, <1>6, <2>1, <2>3, CommittedGrows DEF PushElsewhere
    <2> QED BY <1>1, <1>3, <1>6, <2>1, <2>4 DEF PushElsewhere, PushShape
<1>7. CASE RuleElsewhere
    <2>1. Attributes \in Keys /\ Rule # Tip(remote)[Attributes] /\ "elsewhere" \in Who
        BY <1>7 DEF RuleElsewhere, Rule, NoEntry, Who
    <2>2. remote' \in Branches(edits)
        BY <1>1, <1>2, <1>7, <2>1, CommittedGrows DEF RuleElsewhere
    <2> QED BY <1>7, <2>2 DEF RuleElsewhere, PushShape
<1>8. CASE SyncStart
    BY <1>8 DEF SyncStart, PushShape
<1>9. CASE Pull
    <2>1. Rebased.history \in Branches(edits)
        BY RebasedBranch
    <2>2. Tip(Rebased.history) \in [Keys -> 0..(edits + 1)]
        BY <1>1, <2>1, TipOfBranch
    <2>3. local' \in Branches(edits) /\ upstream' \in Branches(edits)
        BY <1>1, <1>9, <2>1 DEF Pull
    <2>4. work' \in [Keys -> 0..(edits + 1)]
        BY <1>1, <1>9, <2>2 DEF Pull
    <2>5. gitState' \in {"clean", "rebase"} /\ step' \in {"off", "rule"}
        BY <1>9 DEF Pull, PushShape
    <2> QED BY <1>9, <2>3, <2>4, <2>5 DEF Pull, PushShape
<1>10. CASE WriteRule
    BY <1>1, <1>2, <1>10 DEF WriteRule, PushShape
<1>11. CASE CommitRule
    <2>1. CASE local' = local
        BY <1>11, <2>1 DEF CommitRule, PushShape
    <2>2. CASE local' # local
        <3>1. Attributes \in Keys /\ work[Attributes] \in 0..(edits + 1) /\ "here" \in Who
            BY <1>1 DEF Who
        <3>2. local' \in Branches(edits)
            BY <1>1, <1>11, <2>2, <3>1, CommittedGrows DEF CommitRule
        <3> QED BY <1>11, <3>2 DEF CommitRule, PushShape
    <2> QED BY <2>1, <2>2
<1>12. CASE Audit
    BY <1>12 DEF Audit, PushShape
<1>13. CASE Push
    BY <1>13 DEF Push, PushShape
<1>14. CASE AbortRebase
    BY <1>14 DEF AbortRebase, PushShape
<1>15. CASE SyncFails
    BY <1>15 DEF SyncFails, PushShape
<1>16. CASE UNCHANGED pushVars
    BY <1>16 DEF pushVars, PushShape
<1> QED BY <1>4, <1>5, <1>6, <1>7, <1>8, <1>9, <1>10, <1>11, <1>12, <1>13, <1>14, <1>15, <1>16
        DEF PushNext, SyncStep
-----------------------------------------------------------------------------
\* Seeing a longer history of the same branch loses nothing that was fetched.
LEMMA FetchedStays ==
    ASSUME NEW n \in Nat, NEW h \in Branches(n), NEW g, NEW f,
           Len(g) \in Nat, Len(f) \in Nat, FetchedFrom(h, g), Extends(f, g)
    PROVE  FetchedFrom(h, f)
<1> SUFFICES ASSUME NEW i \in 1..Len(h), h[i].by = "elsewhere"
             PROVE  i <= Len(f) /\ \A j \in 1..i : f[j] = h[j]
    BY DEF FetchedFrom
<1>1. i <= Len(g) /\ \A j \in 1..i : g[j] = h[j]
    BY DEF FetchedFrom
<1>2. Len(g) <= Len(f) /\ \A j \in 1..Len(g) : f[j] = g[j]
    BY DEF Extends
<1>3. i \in Nat /\ i <= Len(f)
    BY <1>1, <1>2
<1>4. ASSUME NEW j \in 1..i PROVE f[j] = h[j]
    <2>1. j \in 1..Len(g)
        BY <1>1, <1>3
    <2> QED BY <2>1, <1>1, <1>2
<1> QED BY <1>3, <1>4

\* A branch of commits fetched and commits of one's own.
LEMMA FetchedAndOwn ==
    ASSUME NEW n \in Nat, NEW h \in Branches(n), NEW g \in Branches(n), Extends(h, g),
           NewBy(h, g, "here")
    PROVE  FetchedFrom(h, g)
<1>1. Len(g) \in Nat /\ Len(h) \in Nat
    BY DEF Branches, Histories
<1>2. ASSUME NEW i \in 1..Len(h), h[i].by = "elsewhere", ~ i <= Len(g) PROVE FALSE
    <2>1. i \in (Len(g) + 1)..Len(h)
        BY <1>1, <1>2
    <2> QED BY <1>2, <2>1 DEF NewBy
<1>3. ASSUME NEW i \in 1..Len(h), i <= Len(g), NEW j \in 1..i PROVE g[j] = h[j]
    <2>1. j \in 1..Len(g)
        BY <1>1, <1>3
    <2> QED BY <2>1 DEF Extends
<1> QED BY <1>2, <1>3 DEF FetchedFrom

\* A commit of one's own on top.
LEMMA OwnCommit ==
    ASSUME NEW n \in Nat, NEW h \in Branches(n), NEW f \in Branches(n), NEW g, Len(g) \in Nat,
           Extends(f, h), Len(f) = Len(h) + 1, f[Len(h) + 1].by = "here",
           FetchedFrom(h, g)
    PROVE  /\ FetchedFrom(f, g)
           /\ Extends(h, g) => Extends(f, g)
<1>1. Len(h) \in Nat
    BY DEF Branches, Histories
<1>2. \A i \in 1..Len(h) : f[i] = h[i]
    BY DEF Extends
<1>3. ASSUME NEW i \in 1..Len(f), f[i].by = "elsewhere"
      PROVE  i <= Len(g) /\ \A j \in 1..i : g[j] = f[j]
    <2>1. i # Len(h) + 1
        BY <1>3
    <2>2. i \in 1..Len(h)
        BY <1>1, <2>1
    <2>3. i <= Len(g) /\ \A j \in 1..i : g[j] = h[j]
        BY <1>2, <1>3, <2>2 DEF FetchedFrom
    <2>4. \A j \in 1..i : j \in 1..Len(h)
        BY <1>1, <2>2
    <2> QED BY <1>2, <2>3, <2>4
<1>4. ASSUME Extends(h, g) PROVE Extends(f, g)
    <2>1. Len(g) <= Len(h) /\ \A i \in 1..Len(g) : h[i] = g[i]
        BY <1>4 DEF Extends
    <2>2. Len(g) <= Len(f) /\ \A i \in 1..Len(g) : i \in 1..Len(h)
        BY <1>1, <2>1
    <2> QED BY <1>2, <2>1, <2>2 DEF Extends
<1> QED BY <1>3, <1>4 DEF FetchedFrom

\* Nobody pushed since the fetch if the push is a fast-forward.
LEMMA FastForward ==
    ASSUME PushShape, Ancestry, IsPrefix(remote, local)
    PROVE  remote = upstream
<1>1. PICK n \in Nat : n = edits
    BY GitPushAssumption DEF PushShape
<1>2. /\ remote \in Seq(CommitShapes(0..(n + 1), Who))
      /\ upstream \in Seq(CommitShapes(0..(n + 1), Who))
      /\ local \in Seq(CommitShapes(0..(n + 1), Who))
    BY <1>1 DEF PushShape, Branches, Histories
<1>3. Extends(local, remote)
    BY <1>2, PrefixIsExtended
<1>4. Len(remote) \in Nat /\ Len(upstream) \in Nat /\ Len(local) \in Nat
    BY <1>2
<1>5. Len(upstream) <= Len(remote)
    BY DEF Ancestry, Extends
<1>6. ASSUME Len(upstream) < Len(remote) PROVE FALSE
    <2> DEFINE i == Len(remote)
    <2>1. i \in (Len(upstream) + 1)..Len(remote) /\ i \in 1..Len(local) /\ i \in 1..Len(remote)
        BY <1>3, <1>4, <1>6 DEF Extends
    <2>2. local[i] = remote[i] /\ remote[i].by = "elsewhere"
        BY <2>1, <1>3 DEF Extends, Ancestry
    <2>3. i <= Len(upstream)
        BY <2>1, <2>2 DEF Ancestry, FetchedFrom
    <2> QED BY <1>4, <1>6, <2>3
<1>7. Len(upstream) = Len(remote)
    BY <1>4, <1>5, <1>6
<1>8. \A i \in 1..Len(upstream) : remote[i] = upstream[i]
    BY DEF Ancestry, Extends
<1> QED BY <1>2, <1>7, <1>8, SeqEqual
-----------------------------------------------------------------------------
\* The remote-tracking branch stays a prefix of the remote's, and once pulled of
\* the local one.
LEMMA AncestryStep ==
    ASSUME PushShape, Ancestry, [PushNext]_pushVars
    PROVE  Ancestry'
<1>1. /\ edits \in Nat
      /\ remote \in Branches(edits) /\ upstream \in Branches(edits) /\ local \in Branches(edits)
      /\ work \in [Keys -> 0..(edits + 1)]
      /\ Len(remote) \in Nat /\ Len(upstream) \in Nat /\ Len(local) \in Nat
    BY GitPushAssumption DEF PushShape, Branches, Histories
<1>2. /\ Extends(upstream, upstream) /\ Extends(local, local) /\ Extends(remote, remote)
      /\ FetchedFrom(local, local)
    BY <1>1 DEF Extends, FetchedFrom
\* Another machine pushes: one more commit from elsewhere on the remote.
<1>3. ASSUME NEW k \in Keys, NEW c, NEW n \in Nat, remote \in Branches(n), c \in 0..(n + 1),
             c # Tip(remote)[k], remote' = Committed(remote, k, c, "elsewhere"),
             UNCHANGED <<upstream, local, step>>
      PROVE  Ancestry'
    <2>1. "elsewhere" \in Who
        BY DEF Who
    <2>2. /\ Len(remote') = Len(remote) + 1 /\ Extends(remote', remote)
          /\ remote'[Len(remote) + 1].by = "elsewhere"
        BY <1>3, <2>1, CommittedGrows
    <2>3. \A i \in 1..Len(remote) : remote'[i] = remote[i]
        BY <2>2 DEF Extends
    <2>4. Len(upstream) <= Len(remote) /\ \A i \in 1..Len(upstream) : remote[i] = upstream[i]
        BY DEF Ancestry, Extends
    <2>5. Extends(remote', upstream)
        <3>1. Len(upstream) <= Len(remote') /\ \A i \in 1..Len(upstream) : i \in 1..Len(remote)
            BY <1>1, <2>2, <2>4
        <3> QED BY <2>3, <2>4, <3>1 DEF Extends
    <2>6. ASSUME NEW i \in (Len(upstream) + 1)..Len(remote') PROVE remote'[i].by = "elsewhere"
        <3>1. CASE i = Len(remote) + 1
            BY <2>2, <3>1
        <3>2. CASE i # Len(remote) + 1
            <4>1. i \in (Len(upstream) + 1)..Len(remote) /\ i \in 1..Len(remote)
                BY <1>1, <2>2, <3>2
            <4> QED BY <2>3, <4>1 DEF Ancestry
        <3> QED BY <3>1, <3>2
    <2> QED BY <1>3, <2>5, <2>6 DEF Ancestry, Pulled
\* A commit on this branch.
<1>4. ASSUME NEW k \in Keys, work[k] # Tip(local)[k], local' = Committed(local, k, work[k], "here"),
             UNCHANGED <<remote, upstream>>, Pulled' => Pulled
      PROVE  Ancestry'
    <2>1. "here" \in Who /\ work[k] \in 0..(edits + 1)
        BY <1>1 DEF Who
    <2>2. /\ local' \in Branches(edits)
          /\ Len(local') = Len(local) + 1 /\ Extends(local', local)
          /\ local'[Len(local) + 1].by = "here"
        BY <1>1, <1>4, <2>1, CommittedGrows
    <2>3. FetchedFrom(local', upstream) /\ (Extends(local, upstream) => Extends(local', upstream))
        BY <1>1, <2>2, OwnCommit DEF Ancestry
    <2> QED BY <1>4, <2>3 DEF Ancestry
<1>5. ASSUME UNCHANGED <<remote, upstream, local>>, Pulled' => Pulled PROVE Ancestry'
    BY <1>5 DEF Ancestry
<1>6. ASSUME NEW k \in Entries, EditFile(k) PROVE Ancestry'
    BY <1>5, <1>6 DEF EditFile, Pulled
<1>7. ASSUME NEW k \in Entries, CommitFile(k) PROVE Ancestry'
    BY <1>4, <1>7 DEF CommitFile, Pulled, Entries
<1>8. ASSUME NEW k \in Entries, PushElsewhere(k) PROVE Ancestry'
    <2>1. PICK c : c = edits + 2
        OBVIOUS
    <2>2. remote \in Branches(edits + 1) /\ c \in 0..((edits + 1) + 1) /\ edits + 1 \in Nat
        BY <1>1, <2>1, BranchesGrow
    <2>3. k \in Keys /\ Tip(remote)[k] \in 0..(edits + 1)
        BY <1>1, TipOfBranch DEF Entries
    <2>4. c # Tip(remote)[k]
        BY <1>1, <2>1, <2>3
    <2>5. remote' = Committed(remote, k, c, "elsewhere") /\ UNCHANGED <<upstream, local, step>>
        BY <1>8, <2>1 DEF PushElsewhere
    <2> QED BY <1>3, <2>2, <2>3, <2>4, <2>5
<1>9. CASE RuleElsewhere
    <2>1. Attributes \in Keys /\ Rule \in 0..(edits + 1) /\ Rule # Tip(remote)[Attributes]
        BY <1>1, <1>9, GitPushAssumption DEF RuleElsewhere, Rule, NoEntry
    <2>2. remote' = Committed(remote, Attributes, Rule, "elsewhere") /\ UNCHANGED <<upstream, local, step>>
        BY <1>9 DEF RuleElsewhere
    <2> QED BY <1>1, <1>3, <2>1, <2>2
<1>10. CASE SyncStart
    BY <1>5, <1>10 DEF SyncStart, Pulled
<1>11. CASE Pull
    <2>1. Extends(remote, upstream)
        BY DEF Ancestry
    <2>2. CASE UNCHANGED <<upstream, local>>
        <3>1. step' = "rule" => Extends(local, upstream)
            <4>1. CASE step' = "off"
                BY <4>1
            <4>2. CASE step' # "off"
                <5>1. upstream' = remote /\ local' = Rebased.history
                    BY <1>11, <4>2 DEF Pull
                <5>2. Extends(local', remote)
                    BY <5>1, RebasedBranch
                <5> QED BY <2>2, <5>1, <5>2
            <4> QED BY <4>1, <4>2
        <3> QED BY <1>11, <2>2, <3>1 DEF Pull, Ancestry, Pulled
    <2>3. CASE upstream' = remote
        <3>1. remote' = remote
            BY <1>11 DEF Pull
        <3>2. Extends(remote', upstream')
              /\ \A i \in (Len(upstream') + 1)..Len(remote') : remote'[i].by = "elsewhere"
            BY <1>1, <1>2, <2>3, <3>1
        <3>3. FetchedFrom(local, remote)
            BY <1>1, <2>1, FetchedStays DEF Ancestry
        <3>4. CASE local' = local /\ step' = "off"
            BY <2>3, <3>2, <3>3, <3>4 DEF Ancestry, Pulled
        <3>5. CASE local' = Rebased.history
            <4>1. /\ local' \in Branches(edits) /\ Extends(local', remote)
                  /\ local' = local \/ NewBy(local', remote, "here")
                BY <3>5, RebasedBranch
            <4>2. FetchedFrom(local', remote)
                BY <1>1, <3>3, <4>1, FetchedAndOwn
            <4> QED BY <2>3, <3>2, <4>1, <4>2 DEF Ancestry
        <3> QED BY <1>11, <2>3, <3>4, <3>5 DEF Pull
    <2> QED BY <1>11, <2>2, <2>3 DEF Pull
<1>12. CASE WriteRule
    BY <1>5, <1>12 DEF WriteRule, Pulled
<1>13. CASE CommitRule
    <2>1. CASE local' = local
        BY <1>5, <1>13, <2>1 DEF CommitRule, Pulled
    <2>2. CASE local' # local
        <3>1. /\ Attributes \in Keys /\ work[Attributes] # Tip(local)[Attributes]
              /\ local' = Committed(local, Attributes, work[Attributes], "here")
              /\ UNCHANGED <<remote, upstream>> /\ Pulled
            BY <1>13, <2>2, GitPushAssumption DEF CommitRule, Pulled
        <3> QED BY <1>4, <3>1
    <2> QED BY <2>1, <2>2
<1>14. CASE Audit
    BY <1>5, <1>14 DEF Audit, Pulled
<1>15. CASE Push
    <2>1. CASE remote' = local /\ upstream' = local
        <3>1. local' = local /\ ~ Pulled'
            BY <1>15 DEF Push, Pulled
        <3> QED BY <1>1, <1>2, <2>1, <3>1 DEF Ancestry
    <2>2. CASE UNCHANGED <<remote, upstream>>
        BY <1>5, <1>15, <2>2 DEF Push, Pulled
    <2> QED BY <1>15, <2>1, <2>2 DEF Push
<1>16. CASE AbortRebase
    BY <1>5, <1>16 DEF AbortRebase, Pulled
<1>17. CASE SyncFails
    BY <1>5, <1>17 DEF SyncFails, Pulled
<1>18. CASE UNCHANGED pushVars
    BY <1>5, <1>18 DEF pushVars, Pulled
<1> QED BY <1>6, <1>7, <1>8, <1>9, <1>10, <1>11, <1>12, <1>13, <1>14, <1>15, <1>16, <1>17, <1>18
        DEF PushNext, SyncStep
-----------------------------------------------------------------------------
\* If nothing interferes, the work tree is that of the tip whenever a step relies on it.
LEMMA UndisturbedStep ==
    ASSUME PushShape, ~ Interfering, Undisturbed, [PushNext]_pushVars
    PROVE  Undisturbed'
<1>1. /\ edits \in Nat /\ Attributes \in Keys
      /\ remote \in Branches(edits) /\ upstream \in Branches(edits) /\ local \in Branches(edits)
      /\ work \in [Keys -> 0..(edits + 1)]
    BY GitPushAssumption DEF PushShape
<1>2. Tip(local) \in [Keys -> 0..(edits + 1)]
    BY <1>1, TipOfBranch
<1>3. ASSUME UNCHANGED <<upstream, local, work, plain, gitState, step, force>> PROVE Undisturbed'
    BY <1>3 DEF Undisturbed, Pulled, Issues, ToAudit, Leaks
<1>4. ASSUME NEW k \in Entries, EditFile(k) PROVE Undisturbed'
    <2>1. /\ k # Attributes /\ step' = step /\ step \in {"off", "pull"}
          /\ UNCHANGED <<local, gitState>>
        BY <1>4 DEF EditFile, Entries
    <2>2. work'[Attributes] = work[Attributes]
        BY <1>1, <1>4, <2>1 DEF EditFile
    <2> QED BY <2>1, <2>2 DEF Undisturbed, Pulled
<1>5. ASSUME NEW k \in Entries, CommitFile(k) PROVE Undisturbed'
    <2>1. /\ k \in Keys /\ k # Attributes /\ step' = step /\ step \in {"off", "pull"}
          /\ UNCHANGED <<work, gitState>> /\ local' = Committed(local, k, work[k], "here")
          /\ work[k] # Tip(local)[k] /\ "here" \in Who
        BY <1>5 DEF CommitFile, Entries, Who
    <2>2. work[k] \in 0..(edits + 1)
        BY <1>1, <2>1
    <2>3. Tip(local') = [Tip(local) EXCEPT ![k] = work[k]]
        BY <1>1, <2>1, <2>2, CommittedGrows
    <2>4. Tip(local')[Attributes] = Tip(local)[Attributes]
        BY <1>1, <1>2, <2>1, <2>3
    <2>5. Tip(local)' = Tip(local')
        BY DEF Tip, TreeAt, EmptyTree
    <2> QED BY <2>1, <2>4, <2>5 DEF Undisturbed, Pulled
<1>6. ASSUME NEW k \in Entries, PushElsewhere(k) PROVE Undisturbed'
    BY <1>3, <1>6 DEF PushElsewhere
<1>7. CASE RuleElsewhere
    BY <1>3, <1>7 DEF RuleElsewhere
<1>8. CASE SyncStart
    BY <1>8 DEF SyncStart, Undisturbed, Pulled
<1>9. CASE Pull
    <2>1. CASE step' = "off" /\ UNCHANGED <<local, work>>
        <3>1. work[Attributes] = Tip(local)[Attributes]
            BY <1>9 DEF Pull, Undisturbed
        <3> QED BY <2>1, <3>1 DEF Undisturbed, Pulled
    <2>2. CASE step' = "rule" /\ gitState' = gitState
                 /\ ~ (\E k \in Tracked : work[k] # Tip(local)[k])
                 /\ local' = Rebased.history
                 /\ work' = [k \in Keys |-> IF k \in Tracked \/ Tip(Rebased.history)[k] # NoEntry
                                            THEN Tip(Rebased.history)[k] ELSE work[k]]
        <3>1. PICK arriving : arriving = Tip(Rebased.history)
            OBVIOUS
        <3>2. Tip(local)' = arriving
            BY <2>2, <3>1 DEF Tip, TreeAt, EmptyTree
        <3>3. \A k \in Keys : arriving[k] # NoEntry => work'[k] = arriving[k]
            BY <2>2, <3>1
        <3>4. work'[Attributes] = arriving[Attributes]
            <4>1. CASE Attributes \in Tracked \/ arriving[Attributes] # NoEntry
                BY <1>1, <2>2, <3>1, <4>1
            <4>2. CASE Attributes \notin Tracked /\ arriving[Attributes] = NoEntry
                <5>1. Tip(local)[Attributes] = NoEntry
                    BY <1>1, <4>2 DEF Tracked
                <5>2. work[Attributes] = NoEntry
                    BY <1>9, <5>1 DEF Undisturbed, Pull
                <5> QED BY <1>1, <2>2, <3>1, <4>2, <5>2
            <4> QED BY <4>1, <4>2
        <3>5. gitState' = "clean"
            BY <1>9, <2>2 DEF Pull, Undisturbed
        <3> QED BY <2>2, <3>2, <3>3, <3>4, <3>5 DEF Undisturbed, Entries
    <2> QED BY <1>9, <2>1, <2>2 DEF Pull
<1>10. CASE WriteRule
    <2>1. /\ UNCHANGED <<local, gitState>> /\ gitState = "clean" /\ step = "rule"
          /\ work[Attributes] = Tip(local)[Attributes]
          /\ \A k \in Entries : Tip(local)[k] # NoEntry => work[k] = Tip(local)[k]
        BY <1>10 DEF WriteRule, Undisturbed, Pulled
    <2>2. Tip(local)' = Tip(local)
        BY <2>1
    <2>3. CASE step' = "audit" /\ work' = work /\ work[Attributes] = Rule
        BY <2>1, <2>2, <2>3 DEF Undisturbed
    <2>4. CASE step' = "commit_rule" /\ work' = [work EXCEPT ![Attributes] = Rule]
        <3>1. work'[Attributes] = Rule /\ \A k \in Entries : work'[k] = work[k]
            BY <1>1, <2>4 DEF Entries
        <3> QED BY <2>1, <2>2, <2>4, <3>1 DEF Undisturbed
    <2> QED BY <1>10, <2>3, <2>4 DEF WriteRule
<1>11. CASE CommitRule
    <2>1. /\ UNCHANGED <<work, gitState>> /\ gitState = "clean" /\ step' = "audit"
          /\ work[Attributes] = Rule /\ "here" \in Who
          /\ local' = IF work[Attributes] = Tip(local)[Attributes] THEN local
                      ELSE Committed(local, Attributes, work[Attributes], "here")
          /\ \A k \in Entries : Tip(local)[k] # NoEntry => work[k] = Tip(local)[k]
        BY <1>11 DEF CommitRule, Undisturbed, Pulled, Who
    <2>2. Tip(local)' = Tip(local')
        BY DEF Tip, TreeAt, EmptyTree
    <2>3. CASE work[Attributes] = Tip(local)[Attributes]
        <3>1. local' = local
            BY <2>1, <2>3
        <3> QED BY <2>1, <2>2, <2>3, <3>1 DEF Undisturbed
    <2>4. CASE work[Attributes] # Tip(local)[Attributes]
        <3>1. work[Attributes] \in 0..(edits + 1)
            BY <1>1
        <3>2. Tip(local') = [Tip(local) EXCEPT ![Attributes] = work[Attributes]]
            BY <1>1, <2>1, <2>4, <3>1, CommittedGrows
        <3>3. Tip(local')[Attributes] = Rule /\ \A k \in Entries : Tip(local')[k] = Tip(local)[k]
            BY <1>1, <1>2, <2>1, <3>2 DEF Entries
        <3> QED BY <2>1, <2>2, <3>3 DEF Undisturbed
    <2> QED BY <2>3, <2>4
<1>12. CASE Audit
    <2>1. UNCHANGED <<upstream, local, work, plain, gitState, force>> /\ step = "audit"
          /\ step' = IF force \/ Issues = {} THEN "push" ELSE "off"
        BY <1>12 DEF Audit
    <2>2. Tip(local)' = Tip(local) /\ Issues' = Issues
        BY <2>1 DEF Issues, ToAudit, Leaks
    <2> QED BY <2>1, <2>2 DEF Undisturbed, Pulled
<1>13. CASE Push
    BY <1>13 DEF Push, Undisturbed, Pulled
<1>14. CASE AbortRebase
    BY <1>14 DEF AbortRebase, Undisturbed, Pulled
<1>15. CASE SyncFails
    BY <1>15 DEF SyncFails, Undisturbed, Pulled
<1>16. CASE UNCHANGED pushVars
    BY <1>3, <1>16 DEF pushVars
<1> QED BY <1>4, <1>5, <1>6, <1>7, <1>8, <1>9, <1>10, <1>11, <1>12, <1>13, <1>14, <1>15, <1>16
        DEF PushNext, SyncStep

\* A sync has not begun.
LEMMA PushInvAtStart == PushInit => PushIInv
<1> SUFFICES ASSUME PushInit PROVE PushIInv
    OBVIOUS
<1> USE GitPushAssumption
<1>1. PICK rule \in {NoEntry, Rule} :
        remote = <<[tree |-> [EmptyTree EXCEPT ![Attributes] = rule], by |-> "here"]>>
    BY DEF PushInit
<1>2. PICK c : c = [tree |-> [EmptyTree EXCEPT ![Attributes] = rule], by |-> "here"]
    OBVIOUS
<1>3. edits = 0 /\ 0..(0 + 1) = {0, 1} /\ NoEntry = 0 /\ Rule = 1
    BY DEF PushInit, NoEntry, Rule
<1>4. c \in CommitShapes({0, 1}, Who) /\ c.by = "here" /\ c.tree \in [Keys -> {0, 1}]
    BY <1>2, <1>3 DEF CommitShapes, Who, EmptyTree
<1>5. remote = <<c>> /\ Len(remote) = 1 /\ remote[1] = c /\ remote \in Seq(CommitShapes({0, 1}, Who))
    BY <1>1, <1>2, <1>4
<1>6. remote \in Branches(0)
    BY <1>3, <1>5 DEF Branches, Histories, NoEmptyCommit
<1>7. upstream = remote /\ local = remote /\ work = Tip(remote)
    BY DEF PushInit
<1>8. Tip(remote) = c.tree
    BY <1>5 DEF Tip, TreeAt
<1>9. PushShape
    <2>1. {remote, upstream, local} \subseteq Branches(edits)
        BY <1>3, <1>6, <1>7
    <2>2. work \in [Keys -> 0..(edits + 1)]
        BY <1>3, <1>4, <1>7, <1>8
    <2>3. plain \subseteq 2..(edits + 1) /\ edits \in 0..MaxEdits
        BY <1>3 DEF PushInit
    <2> QED BY <2>1, <2>2, <2>3 DEF PushInit, PushShape
<1>10. Ancestry
    BY <1>4, <1>5, <1>7 DEF Ancestry, Extends, FetchedFrom, PushInit, Pulled
<1>11. Undisturbed
    BY <1>7 DEF PushInit, Undisturbed, Pulled
<1> QED BY <1>9, <1>10, <1>11 DEF PushIInv

\* The three parts of the invariant, at every step.
LEMMA PushInvariant == PushSpec => []PushIInv
<1>1. PushIInv /\ [PushNext]_pushVars => PushIInv'
    BY PushShapeStep, AncestryStep, UndisturbedStep DEF PushIInv
<1> QED BY <1>1, PushInvAtStart, PTL DEF PushSpec

\* The remote branch as last fetched is part of the remote's, and a sync that
\* has pulled is ahead of it (vcs pull --rebase).
THEOREM PushTypeCorrect == PushSpec => []PushTypeOK
<1>1. PushIInv => PushTypeOK
    <2> SUFFICES ASSUME PushIInv PROVE PushTypeOK
        OBVIOUS
    <2>1. PICK n \in Nat : n = edits /\ n \in 0..MaxEdits
        BY GitPushAssumption DEF PushIInv, PushShape
    <2>2. ASSUME NEW h \in Branches(n) PROVE h \in Seq(Commits)
        <3>1. 0..(n + 1) \subseteq Contents
            BY <2>1, GitPushAssumption DEF Contents
        <3>2. CommitShapes(0..(n + 1), Who) \subseteq Commits
            BY <3>1 DEF CommitShapes, Commits, Trees, Who
        <3>3. \A i \in 1..Len(h) : h[i] \in Commits
            BY <3>2 DEF Branches, Histories
        <3> QED BY <3>3 DEF Branches, Histories
    <2>3. work \in Trees
        BY <2>1, GitPushAssumption DEF PushIInv, PushShape, Trees, Contents
    <2>4. /\ remote \in Seq(CommitShapes(0..(n + 1), Who))
          /\ upstream \in Seq(CommitShapes(0..(n + 1), Who))
          /\ local \in Seq(CommitShapes(0..(n + 1), Who))
        BY <2>1 DEF PushIInv, PushShape, Branches, Histories
    <2>5. IsPrefix(upstream, remote) /\ (Pulled => IsPrefix(upstream, local))
        BY <2>4, PrefixIsExtended DEF PushIInv, Ancestry
    <2> QED BY <2>1, <2>2, <2>3, <2>5 DEF PushIInv, PushShape, PushTypeOK, Pulled
<1> QED BY <1>1, PushInvariant, PTL

\* Of a sync that nobody disturbs, what the audit saw is what the push
\* publishes (main.rs:572-637, audit.rs:105-124).
THEOREM PublishedIsAudited ==
    ASSUME ~ Interfering, Quoted = {}
    PROVE  PushSpec => TipPublishedClean
<1>1. ASSUME PushIInv, [PushNext]_pushVars, Publishes, ~ force,
             NEW k \in Keys, Tip(remote')[k] # Tip(remote)[k]
      PROVE  ~ Leaks(k, Tip(remote')[k])
    <2>1. Push /\ remote' = local /\ IsPrefix(remote, local) /\ step = "push"
        BY <1>1 DEF PushNext, SyncStep, Publishes, EditFile, CommitFile, PushElsewhere, RuleElsewhere,
                    SyncStart, Pull, WriteRule, CommitRule, Audit, Push, AbortRebase, SyncFails, pushVars
    <2>2. remote = upstream
        BY <1>1, <2>1, FastForward DEF PushIInv
    <2>3. k \in ToAudit
        BY <1>1, <2>1, <2>2 DEF ToAudit
    <2>4. work[k] = NoEntry \/ ~ Leaks(k, work[k])
        BY <1>1, <2>1, <2>3 DEF PushIInv, Undisturbed, Issues
    <2>5. ~ Leaks(k, NoEntry)
        BY <1>1, GitPushAssumption DEF PushIInv, PushShape, Leaks, NoEntry
    <2>6. CASE k \in Entries /\ Tip(local)[k] # NoEntry
        <3>1. work[k] = Tip(local)[k]
            BY <1>1, <2>1, <2>6 DEF PushIInv, Undisturbed, Pulled
        <3> QED BY <2>1, <2>4, <2>5, <3>1
    <2>7. CASE k \notin Entries
        BY <2>7 DEF Leaks
    <2> QED BY <2>1, <2>5, <2>6, <2>7
<1>2. PushIInv /\ [PushNext]_pushVars
        => [Publishes /\ ~ force =>
                \A k \in Keys : Tip(remote')[k] # Tip(remote)[k] => ~ Leaks(k, Tip(remote')[k])]_pushVars
    BY <1>1
<1> QED BY <1>2, PushInvariant, PTL DEF PushSpec, TipPublishedClean

\* Of a sync that nobody disturbs, the rule on disk is the rule committed when
\* the push comes (main.rs:671-690).
THEOREM RuleIsPublished ==
    ASSUME ~ Interfering
    PROVE  PushSpec => RulePublished
<1>1. ASSUME PushIInv, [PushNext]_pushVars, Publishes
      PROVE  Tip(remote')[Attributes] = Rule
    <2>1. Push /\ remote' = local /\ step = "push"
        BY <1>1 DEF PushNext, SyncStep, Publishes, EditFile, CommitFile, PushElsewhere, RuleElsewhere,
                    SyncStart, Pull, WriteRule, CommitRule, Audit, Push, AbortRebase, SyncFails, pushVars
    <2> QED BY <1>1, <2>1 DEF PushIInv, Undisturbed
<1>2. PushIInv /\ [PushNext]_pushVars
        => [Publishes => Tip(remote')[Attributes] = Rule]_pushVars
    BY <1>1
<1> QED BY <1>2, PushInvariant, PTL DEF PushSpec, RulePublished-----------------------------------------------------------------------------
(* The streams of gpg.  Until somebody fails, what has been taken, what is  *)
(* in the pipes and in gpg, and what is still to be written are together    *)
(* the stream that the command was started with, in its order.             *)

Stream == taken \o (stdout \o (hold \o (stdin \o source)))

Well == feeder # "failed" /\ gpg # "failed" /\ taker # "failed"

GpgIInv ==
    /\ GpgTypeOK
    /\ file.ok => file.chunks = Bundle
    /\ Well /\ op = "backup" => Stream = Bundle
    /\ Well /\ op = "restore" => Stream = file.chunks
    /\ gpg = "done" => hold = <<>> /\ stdin = <<>> /\ feeder # "runs"
    /\ feeder = "done" => source = <<>>
    /\ taker = "done" =>
          \/ stdout = <<>> /\ gpg # "runs"
          \/ op # "backup" /\ taken # <<>> /\ taken[Len(taken)] = "end"

\* A chunk that goes from one end of a pipe to the other stays in its place.
LEMMA ChunkMoves ==
    ASSUME NEW S, NEW s \in Seq(S), NEW t \in Seq(S), NEW r \in Seq(S), t # <<>>
    PROVE  /\ Head(t) \in S /\ Tail(t) \in Seq(S) /\ Append(s, Head(t)) \in Seq(S)
           /\ Append(s, Head(t)) \o (Tail(t) \o r) = s \o (t \o r)
<1>1. PICK h, u : h = Head(t) /\ u = Tail(t)
    OBVIOUS
<1>2. h \in S /\ u \in Seq(S) /\ t = <<h>> \o u
    BY <1>1
<1>3. <<h>> \in Seq(S)
    BY <1>2
<1>4. Append(s, h) = s \o <<h>> /\ Append(s, h) \in Seq(S)
    BY <1>2
<1>5. (s \o <<h>>) \o (u \o r) = s \o (<<h>> \o (u \o r))
    BY <1>2, <1>3, ConcatAssociative
<1>6. <<h>> \o (u \o r) = (<<h>> \o u) \o r
    BY <1>2, <1>3, ConcatAssociative
<1> QED BY <1>1, <1>2, <1>4, <1>5, <1>6

\* An empty sequence adds nothing.
LEMMA NothingMoves ==
    ASSUME NEW S, NEW s \in Seq(S)
    PROVE  <<>> \o s = s /\ s \o <<>> = s
    OBVIOUS

\* The elements of a concatenation.
LEMMA Joins ==
    ASSUME NEW S, NEW s \in Seq(S), NEW t \in Seq(S)
    PROVE  /\ s \o t \in Seq(S) /\ Len(s \o t) = Len(s) + Len(t)
           /\ \A i \in 1..Len(s) : (s \o t)[i] = s[i]
           /\ \A i \in 1..Len(t) : (s \o t)[Len(s) + i] = t[i]
    BY ConcatProperties

\* The shape of a bundle: a manifest, the members, the end.
LEMMA BundleShape ==
    /\ Bundle \in Seq(Data) /\ Len(Bundle) = Members + 2
    /\ \A i \in 1..(Members + 2) :
          /\ Bundle[i] = "end" => i = Members + 2
          /\ Bundle[i] = "member" <=> i \in 2..(Members + 1)
<1>1. Members \in Nat
    BY GpgStreamsAssumption
<1>2. PICK m, n, e : m = <<"manifest">> /\ n = [i \in 1..Members |-> "member"] /\ e = <<"end">>
    OBVIOUS
<1>3. m \in Seq(Data) /\ Len(m) = 1 /\ m[1] = "manifest"
    BY <1>2 DEF Data
<1>4. n \in Seq(Data) /\ Len(n) = Members /\ \A i \in 1..Members : n[i] = "member"
    BY <1>1, <1>2 DEF Data
<1>5. e \in Seq(Data) /\ Len(e) = 1 /\ e[1] = "end"
    BY <1>2 DEF Data
<1>6. PICK mn : mn = m \o n
    OBVIOUS
<1>7. /\ mn \in Seq(Data) /\ Len(mn) = Members + 1 /\ mn[1] = "manifest"
      /\ \A i \in 2..(Members + 1) : mn[i] = "member"
    <2>1. /\ mn \in Seq(Data) /\ Len(mn) = 1 + Members
          /\ \A i \in 1..1 : mn[i] = m[i]
          /\ \A i \in 1..Members : mn[1 + i] = n[i]
        <3>0. m \in Seq(Data) /\ n \in Seq(Data)
            BY <1>3, <1>4
        <3>1. m \o n \in Seq(Data) /\ Len(m \o n) = Len(m) + Len(n)
                  /\ (\A i \in 1..Len(m) : (m \o n)[i] = m[i])
                  /\ (\A i \in 1..Len(n) : (m \o n)[Len(m) + i] = n[i])
            BY <3>0, Joins
        <3>2. 1 \in 1..1
            OBVIOUS
        <3> QED BY <1>3, <1>4, <1>6, <3>1, <3>2
    <2>2. mn[1] = "manifest"
        BY <1>3, <2>1
    <2>3. ASSUME NEW i \in 2..(Members + 1) PROVE mn[i] = "member"
        <3>1. i - 1 \in 1..Members /\ 1 + (i - 1) = i
            BY <1>1
        <3> QED BY <1>4, <2>1, <3>1
    <2>4. 1 + Members = Members + 1
        BY <1>1
    <2> QED BY <2>1, <2>2, <2>3, <2>4
<1>8. Bundle = mn \o e
    BY <1>2, <1>6 DEF Bundle
<1>9. PICK b : b = mn \o e
    OBVIOUS
<1>10. /\ b \in Seq(Data) /\ Len(b) = (Members + 1) + 1
       /\ \A i \in 1..(Members + 1) : b[i] = mn[i]
       /\ \A i \in 1..1 : b[(Members + 1) + i] = e[i]
    <2>0. mn \in Seq(Data) /\ e \in Seq(Data)
        BY <1>5, <1>7
    <2>1. mn \o e \in Seq(Data) /\ Len(mn \o e) = Len(mn) + Len(e)
              /\ (\A i \in 1..Len(mn) : (mn \o e)[i] = mn[i])
              /\ (\A i \in 1..Len(e) : (mn \o e)[Len(mn) + i] = e[i])
        BY <2>0, Joins
    <2> QED BY <1>5, <1>7, <1>9, <2>1
<1>11. (Members + 1) + 1 = Members + 2
    BY <1>1
<1>12. b[Members + 2] = "end"
    BY <1>5, <1>10, <1>11
<1>13. \A i \in 1..(Members + 2) : i = 1 \/ i \in 2..(Members + 1) \/ i = Members + 2
    BY <1>1
<1>14. 1 \notin 2..(Members + 1) /\ Members + 2 \notin 2..(Members + 1) /\ 1 \in 1..(Members + 1)
           /\ \A i \in 2..(Members + 1) : i \in 1..(Members + 1)
    BY <1>1
<1> QED BY <1>7, <1>8, <1>9, <1>10, <1>11, <1>12, <1>13, <1>14

\* A sequence is its head and its tail.
LEMMA HeadAndTail ==
    ASSUME NEW S, NEW s \in Seq(S), s # <<>>
    PROVE  Head(s) \in S /\ Tail(s) \in Seq(S) /\ Len(Tail(s)) = Len(s) - 1 /\ Len(s) >= 1
    OBVIOUS

\* Appending adds one element.
LEMMA Appending ==
    ASSUME NEW S, NEW s \in Seq(S), NEW e \in S
    PROVE  Append(s, e) \in Seq(S) /\ Len(Append(s, e)) = Len(s) + 1
    OBVIOUS

\* The bounds of the pipes are numbers.
LEMMA GpgNumbers ==
    /\ Capacity \in Nat \ {0} /\ CallSize \in Nat /\ Members \in Nat /\ MaxRuns \in Nat
    /\ [i \in 1..CallSize |-> "data"] \in Seq(Data) /\ "end" \in Data
<1>1. Capacity \in Nat \ {0} /\ CallSize \in Nat /\ Members \in Nat /\ MaxRuns \in Nat
    BY GpgStreamsAssumption
<1>2. [i \in 1..CallSize |-> "data"] \in [1..CallSize -> Data] /\ "end" \in Data
    BY DEF Data
<1> QED BY <1>1, <1>2

\* Pipes stay within their capacity, and carry only chunks.
LEMMA GpgTypeStep ==
    ASSUME GpgTypeOK, [GpgNext]_gpgVars
    PROVE  GpgTypeOK'
<1> USE GpgNumbers DEF GpgTypeOK
<1>1. ASSUME NEW command \in {"call", "backup", "restore"}, NEW chunks \in Seq(Data),
             Spawn(command, chunks), file'.chunks \in Seq(Data)
      PROVE  GpgTypeOK'
    <2>1. runs + 1 \in 0..MaxRuns
        BY <1>1 DEF Spawn
    <2> QED BY <1>1, <2>1 DEF Spawn
<1>2. CASE StartCall
    BY <1>1, <1>2 DEF StartCall
<1>3. CASE StartBackup
    BY <1>1, <1>3, BundleShape DEF StartBackup, NoFile
<1>4. CASE StartRestore
    BY <1>1, <1>4 DEF StartRestore
<1>5. CASE Feed
    <2>1. Head(source) \in Data /\ Tail(source) \in Seq(Data)
        BY <1>5, HeadAndTail DEF Feed
    <2>2. Append(stdin, Head(source)) \in Seq(Data)
              /\ Len(Append(stdin, Head(source))) = Len(stdin) + 1
        BY <2>1, Appending
    <2>3. CASE gpg = "runs"
        <3>1. /\ stdin' \in Seq(Data) /\ Len(stdin') <= Capacity /\ source' \in Seq(Data)
              /\ feeder' = feeder
            <4>1. stdin' = Append(stdin, Head(source)) /\ source' = Tail(source) /\ feeder' = feeder
                      /\ Len(stdin) < Capacity
                BY <1>5, <2>3 DEF Feed
            <4>2. Len(stdin) \in Nat
                OBVIOUS
            <4>3. Len(stdin) + 1 <= Capacity
                BY <4>1, <4>2
            <4> QED BY <2>1, <2>2, <4>1, <4>3
        <3> QED BY <1>5, <3>1 DEF Feed
    <2>4. CASE gpg # "runs"
        BY <1>5, <2>4 DEF Feed
    <2> QED BY <2>3, <2>4
<1>6. CASE FeedEnds
    BY <1>6 DEF FeedEnds
<1>7. CASE SourceFails
    <2>1. Append(stdin, "end") \in Seq(Data) /\ Len(Append(stdin, "end")) = Len(stdin) + 1
        BY Appending
    <2>2. stdin' \in Seq(Data) /\ Len(stdin') <= Capacity
        <3>1. CASE op = "backup" /\ gpg = "runs"
            <4>1. stdin' = Append(stdin, "end") /\ Len(stdin) < Capacity
                BY <1>7, <3>1 DEF SourceFails
            <4>2. Len(stdin) \in Nat
                OBVIOUS
            <4>3. Len(stdin) + 1 <= Capacity
                BY <4>1, <4>2
            <4> QED BY <2>1, <4>1, <4>3
        <3>2. CASE ~ (op = "backup" /\ gpg = "runs")
            BY <1>7, <3>2 DEF SourceFails
        <3> QED BY <3>1, <3>2
    <2> QED BY <1>7, <2>2 DEF SourceFails
<1>8. CASE GpgReads
    <2>1. Head(stdin) \in Data /\ Tail(stdin) \in Seq(Data) /\ Len(Tail(stdin)) = Len(stdin) - 1
        BY <1>8, HeadAndTail DEF GpgReads
    <2> QED BY <1>8, <2>1 DEF GpgReads
<1>9. CASE GpgWrites
    <2>1. Head(hold) \in Data
        BY <1>9, HeadAndTail DEF GpgWrites
    <2>2. Append(stdout, Head(hold)) \in Seq(Data)
              /\ Len(Append(stdout, Head(hold))) = Len(stdout) + 1
        BY <2>1, Appending
    <2>3. stdout' \in Seq(Data) /\ Len(stdout') <= Capacity /\ hold' \in Seq(Data) /\ Len(hold') <= 1
        <3>1. CASE ReaderGone
            BY <1>9, <3>1 DEF GpgWrites
        <3>2. CASE ~ ReaderGone
            <4>1. stdout' = Append(stdout, Head(hold)) /\ Len(stdout) < Capacity /\ hold' = <<>>
                BY <1>9, <3>2 DEF GpgWrites
            <4>2. Len(stdout) \in Nat
                OBVIOUS
            <4>3. Len(stdout) + 1 <= Capacity
                BY <4>1, <4>2
            <4>4. hold' \in Seq(Data) /\ Len(hold') <= 1
                BY <4>1
            <4> QED BY <2>2, <4>1, <4>3, <4>4
        <3> QED BY <3>1, <3>2
    <2> QED BY <1>9, <2>3 DEF GpgWrites
<1>10. CASE GpgEnds
    BY <1>10 DEF GpgEnds
<1>11. CASE GpgDies
    BY <1>11 DEF GpgDies
<1>12. CASE Take
    <2>1. Head(stdout) \in Data /\ Tail(stdout) \in Seq(Data) /\ Len(Tail(stdout)) = Len(stdout) - 1
        BY <1>12, HeadAndTail DEF Take
    <2>2. Append(taken, Head(stdout)) \in Seq(Data)
        BY <2>1, Appending
    <2>3. taken' \in Seq(Data) /\ taker' \in {"off", "runs", "done", "failed"}
        BY <1>12, <2>2 DEF Take
    <2> QED BY <1>12, <2>1, <2>3 DEF Take
<1>13. CASE TakeEnds
    BY <1>13 DEF TakeEnds
<1>14. CASE CallGivesUp
    BY <1>14 DEF CallGivesUp
<1>15. CASE Finish
    BY <1>15 DEF Finish
<1>16. CASE UNCHANGED gpgVars
    BY <1>16 DEF gpgVars
<1> QED BY <1>2, <1>3, <1>4, <1>5, <1>6, <1>7, <1>8, <1>9, <1>10, <1>11, <1>12, <1>13, <1>14,
           <1>15, <1>16 DEF GpgNext, GpgStep

\* What is taken from one end of a stream is put at the other.
LEMMA StreamMoves ==
    ASSUME GpgTypeOK
    PROVE  /\ source # <<>> =>
                  taken \o (stdout \o (hold \o (Append(stdin, Head(source)) \o Tail(source)))) = Stream
           /\ hold = <<>> /\ stdin # <<>> =>
                  taken \o (stdout \o (<<Head(stdin)>> \o (Tail(stdin) \o source))) = Stream
           /\ hold # <<>> =>
                  taken \o (Append(stdout, Head(hold)) \o (<<>> \o (stdin \o source))) = Stream
           /\ stdout # <<>> =>
                  Append(taken, Head(stdout)) \o (Tail(stdout) \o (hold \o (stdin \o source))) = Stream
<1>1. taken \in Seq(Data) /\ stdout \in Seq(Data) /\ hold \in Seq(Data) /\ stdin \in Seq(Data)
          /\ source \in Seq(Data) /\ Len(hold) <= 1 /\ <<>> \in Seq(Data)
    BY DEF GpgTypeOK
<1>2. stdin \o source \in Seq(Data) /\ hold \o (stdin \o source) \in Seq(Data)
    <2>1. stdin \o source \in Seq(Data)
        BY <1>1
    <2> QED BY <1>1, <2>1
<1>3. ASSUME source # <<>> PROVE Append(stdin, Head(source)) \o Tail(source) = stdin \o source
    <2>1. Append(stdin, Head(source)) \o (Tail(source) \o <<>>) = stdin \o (source \o <<>>)
        <3>1. PICK r \in Seq(Data) : r = <<>>
            BY <1>1
        <3>2. Append(stdin, Head(source)) \o (Tail(source) \o r) = stdin \o (source \o r)
            <4>1. stdin \in Seq(Data) /\ source \in Seq(Data) /\ source # <<>>
                BY <1>1, <1>3
            <4> QED BY <4>1, ChunkMoves
        <3> QED BY <3>1, <3>2
    <2>2. Tail(source) \o <<>> = Tail(source) /\ source \o <<>> = source
        BY <1>1, <1>3, HeadAndTail, NothingMoves
    <2> QED BY <2>1, <2>2
<1>4. ASSUME hold = <<>>, stdin # <<>>
      PROVE  <<Head(stdin)>> \o (Tail(stdin) \o source) = hold \o (stdin \o source)
    <2>1. Append(hold, Head(stdin)) \o (Tail(stdin) \o source) = hold \o (stdin \o source)
        BY <1>1, <1>4, ChunkMoves
    <2>2. PICK h : h = Head(stdin)
        OBVIOUS
    <2>3. Append(hold, h) = <<h>>
        BY <1>4
    <2> QED BY <2>1, <2>2, <2>3
<1>5. ASSUME hold # <<>>
      PROVE  Append(stdout, Head(hold)) \o (<<>> \o (stdin \o source)) = stdout \o (hold \o (stdin \o source))
    <2>1. Append(stdout, Head(hold)) \o (Tail(hold) \o (stdin \o source))
              = stdout \o (hold \o (stdin \o source))
        <3>1. PICK r \in Seq(Data) : r = stdin \o source
            BY <1>2
        <3>2. Append(stdout, Head(hold)) \o (Tail(hold) \o r) = stdout \o (hold \o r)
            <4>1. stdout \in Seq(Data) /\ hold \in Seq(Data) /\ hold # <<>>
                BY <1>1, <1>5
            <4> QED BY <4>1, ChunkMoves
        <3> QED BY <3>1, <3>2
    <2>2. Tail(hold) = <<>>
        BY <1>1, <1>5
    <2> QED BY <2>1, <2>2
<1>6. ASSUME stdout # <<>>
      PROVE  Append(taken, Head(stdout)) \o (Tail(stdout) \o (hold \o (stdin \o source))) = Stream
    <2>1. PICK r \in Seq(Data) : r = hold \o (stdin \o source)
        BY <1>2
    <2>2. Append(taken, Head(stdout)) \o (Tail(stdout) \o r) = taken \o (stdout \o r)
        <3>1. taken \in Seq(Data) /\ stdout \in Seq(Data) /\ stdout # <<>>
            BY <1>1, <1>6
        <3> QED BY <3>1, ChunkMoves
    <2> QED BY <2>1, <2>2 DEF Stream
<1> QED BY <1>3, <1>4, <1>5, <1>6 DEF Stream
\* Every step keeps the stream whole, or somebody has failed.
LEMMA GpgIInvStep ==
    ASSUME GpgIInv, [GpgNext]_gpgVars
    PROVE  GpgIInv'
<1>1. GpgTypeOK /\ GpgTypeOK'
    BY GpgTypeStep DEF GpgIInv
<1>2. ASSUME NEW command \in {"call", "backup", "restore"}, NEW chunks \in Seq(Data),
             Spawn(command, chunks), file'.ok => file'.chunks = Bundle,
             command = "backup" => chunks = Bundle, command = "restore" => chunks = file'.chunks
      PROVE  GpgIInv'
    <2>1. Stream' = chunks
        <3>1. <<>> \o (<<>> \o (<<>> \o (<<>> \o chunks))) = chunks
            BY NothingMoves
        <3> QED BY <1>2, <3>1 DEF Spawn, Stream
    <2> QED BY <1>1, <1>2, <2>1 DEF Spawn, GpgIInv
<1>3. CASE StartCall
    BY <1>2, <1>3, GpgNumbers DEF StartCall, GpgIInv
<1>4. CASE StartBackup
    BY <1>2, <1>4, BundleShape DEF StartBackup, NoFile
<1>5. CASE StartRestore
    <2>1. file.chunks \in Seq(Data)
        BY <1>1 DEF GpgTypeOK
    <2> QED BY <1>2, <1>5, <2>1 DEF StartRestore, GpgIInv
<1>6. CASE Feed
    <2>1. CASE gpg = "runs"
        <3>1. stdin' = Append(stdin, Head(source)) /\ source' = Tail(source)
                  /\ UNCHANGED <<op, gpg, hold, stdout, feeder, taker, taken, file>>
                  /\ source # <<>> /\ feeder = "runs"
            BY <1>6, <2>1 DEF Feed
        <3>2. Stream' = Stream
            BY <1>1, <3>1, StreamMoves DEF Stream
        <3> QED BY <1>1, <2>1, <3>1, <3>2 DEF GpgIInv, Well
    <2>2. CASE gpg # "runs"
        <3>1. feeder' = "failed" /\ UNCHANGED <<op, gpg, hold, stdin, source, stdout, taker, taken, file>>
            BY <1>6, <2>2 DEF Feed
        <3> QED BY <1>1, <3>1 DEF GpgIInv, Well
    <2> QED BY <2>1, <2>2
<1>7. CASE FeedEnds
    <2>1. feeder' = "done" /\ source = <<>> /\ feeder = "runs"
              /\ UNCHANGED <<op, gpg, hold, stdin, source, stdout, taker, taken, file>>
        BY <1>7 DEF FeedEnds
    <2>2. Stream' = Stream
        BY <2>1 DEF Stream
    <2> QED BY <1>1, <2>1, <2>2 DEF GpgIInv, Well
<1>8. CASE SourceFails
    <2>1. feeder' = "failed" /\ feeder = "runs" /\ UNCHANGED <<op, gpg, hold, stdout, taker, taken, file>>
        BY <1>8 DEF SourceFails
    <2>2. ~ Well'
        BY <2>1 DEF Well
    <2> QED BY <1>1, <2>1, <2>2 DEF GpgIInv
<1>9. CASE GpgReads
    <2>1. hold' = <<Head(stdin)>> /\ stdin' = Tail(stdin) /\ hold = <<>> /\ stdin # <<>>
              /\ gpg = "runs" /\ UNCHANGED <<op, gpg, source, stdout, feeder, taker, taken, file>>
        BY <1>9 DEF GpgReads
    <2>2. Stream' = Stream
        BY <1>1, <2>1, StreamMoves DEF Stream
    <2> QED BY <1>1, <2>1, <2>2 DEF GpgIInv, Well
<1>10. CASE GpgWrites
    <2>1. CASE ReaderGone
        <3>1. gpg' = "failed" /\ gpg = "runs"
                  /\ UNCHANGED <<op, hold, stdin, source, stdout, feeder, taker, taken, file>>
            BY <1>10, <2>1 DEF GpgWrites
        <3> QED BY <1>1, <3>1 DEF GpgIInv, Well
    <2>2. CASE ~ ReaderGone
        <3>1. stdout' = Append(stdout, Head(hold)) /\ hold' = <<>> /\ hold # <<>> /\ gpg = "runs"
                  /\ UNCHANGED <<op, gpg, stdin, source, feeder, taker, taken, file>>
            BY <1>10, <2>2 DEF GpgWrites
        <3>2. Stream' = Stream
            BY <1>1, <3>1, StreamMoves DEF Stream
        <3>3. taker' # "done"
            BY <2>2, <3>1 DEF ReaderGone
        <3> QED BY <1>1, <3>1, <3>2, <3>3 DEF GpgIInv, Well
    <2> QED BY <2>1, <2>2
<1>11. CASE GpgEnds
    <2>1. gpg = "runs" /\ hold = <<>> /\ stdin = <<>> /\ feeder # "runs" /\ gpg' \in {"done", "failed"}
              /\ UNCHANGED <<op, hold, stdin, source, stdout, feeder, taker, taken, file>>
        BY <1>11 DEF GpgEnds
    <2>2. Stream' = Stream
        BY <2>1 DEF Stream
    <2> QED BY <1>1, <2>1, <2>2 DEF GpgIInv, Well
<1>12. CASE GpgDies
    <2>1. gpg' = "failed" /\ UNCHANGED <<op, stdin, source, stdout, feeder, taker, taken, file>>
        BY <1>12 DEF GpgDies
    <2> QED BY <1>1, <2>1 DEF GpgIInv, Well
<1>13. CASE Take
    <2>1. /\ taker = "runs" /\ stdout # <<>> /\ stdout' = Tail(stdout)
          /\ UNCHANGED <<op, gpg, hold, stdin, source, feeder, file>>
          /\ \/ /\ taken' = Append(taken, Head(stdout))
                /\ taker' = IF op = "restore" /\ Head(stdout) = "end" THEN "done" ELSE "runs"
             \/ taker' = "failed"
        BY <1>13 DEF Take
    <2>2. CASE taker' = "failed"
        BY <1>1, <2>1, <2>2 DEF GpgIInv, Well
    <2>3. CASE /\ taken' = Append(taken, Head(stdout))
               /\ taker' = IF op = "restore" /\ Head(stdout) = "end" THEN "done" ELSE "runs"
        <3>1. Stream' = Stream
            BY <1>1, <2>1, <2>3, StreamMoves DEF Stream
        <3>2. taker' = "done" =>
                  op' # "backup" /\ taken' # <<>> /\ taken'[Len(taken')] = "end"
            <4> SUFFICES ASSUME taker' = "done"
                         PROVE  op' # "backup" /\ taken' # <<>> /\ taken'[Len(taken')] = "end"
                OBVIOUS
            <4>1. op = "restore" /\ taken' = Append(taken, "end")
                BY <2>3
            <4>2. taken \in Seq(Data) /\ "end" \in Data
                BY <1>1, GpgNumbers DEF GpgTypeOK
            <4>3. Append(taken, "end") # <<>>
                      /\ Append(taken, "end")[Len(Append(taken, "end"))] = "end"
                <5>1. PICK n \in Nat : n = Len(taken)
                    BY <4>2
                <5>2. Len(Append(taken, "end")) = n + 1 /\ Append(taken, "end")[n + 1] = "end"
                    BY <4>2, <5>1
                <5>3. n + 1 # 0 /\ Len(<<>>) = 0
                    OBVIOUS
                <5> QED BY <5>2, <5>3
            <4> QED BY <2>1, <4>1, <4>3
        <3> QED BY <1>1, <2>1, <2>3, <3>1, <3>2 DEF GpgIInv, Well
    <2> QED BY <2>1, <2>2, <2>3
<1>14. CASE TakeEnds
    <2>1. taker = "runs" /\ taker' \in {"done", "failed"} /\ stdout = <<>> /\ gpg # "runs"
              /\ UNCHANGED <<op, gpg, hold, stdin, source, stdout, feeder, taken, file>>
        BY <1>14 DEF TakeEnds
    <2>2. Stream' = Stream
        BY <2>1 DEF Stream
    <2> QED BY <1>1, <2>1, <2>2 DEF GpgIInv, Well
<1>15. CASE CallGivesUp
    <2>1. op' = "none" /\ UNCHANGED <<gpg, hold, stdin, source, stdout, feeder, taker, taken, file>>
        BY <1>15 DEF CallGivesUp
    <2> QED BY <1>1, <2>1 DEF GpgIInv
<1>16. CASE Finish
    <2>1. op' = "none" /\ UNCHANGED <<gpg, hold, stdin, source, stdout, feeder, taker, taken>>
        BY <1>16 DEF Finish
    <2>2. file'.ok => file'.chunks = Bundle
        <3>1. CASE op # "backup"
            BY <1>16, <3>1 DEF Finish, GpgIInv
        <3>2. CASE op = "backup" /\ ~ Succeeded
            BY <1>16, <3>2 DEF Finish
        <3>3. CASE op = "backup" /\ Succeeded
            <4>1. Stream = Bundle /\ hold = <<>> /\ stdin = <<>> /\ source = <<>> /\ stdout = <<>>
                BY <3>3 DEF GpgIInv, Well, Succeeded
            <4>2. taken \in Seq(Data)
                BY <1>1 DEF GpgTypeOK
            <4>3. taken = Bundle
                <5>1. taken \o (<<>> \o (<<>> \o (<<>> \o <<>>))) = taken
                    BY <4>2
                <5> QED BY <4>1, <5>1 DEF Stream
            <4> QED BY <1>16, <3>3, <4>3 DEF Finish
        <3> QED BY <3>1, <3>2, <3>3
    <2> QED BY <1>1, <2>1, <2>2 DEF GpgIInv
<1>17. CASE UNCHANGED gpgVars
    BY <1>17 DEF gpgVars, GpgIInv, GpgTypeOK, Well, Stream
<1> QED BY <1>3, <1>4, <1>5, <1>6, <1>7, <1>8, <1>9, <1>10, <1>11, <1>12, <1>13, <1>14, <1>15,
           <1>16, <1>17 DEF GpgNext, GpgStep

\* The whole bundle is at its source.
LEMMA GpgAtStart == GpgInit => GpgIInv
<1> SUFFICES ASSUME GpgInit PROVE GpgIInv
    OBVIOUS
<1>1. <<>> \in Seq(Data) /\ Len(<<>>) = 0 /\ 0 \in 0..MaxRuns /\ Capacity \in Nat
    BY GpgNumbers
<1>2. GpgTypeOK
    BY <1>1 DEF GpgInit, GpgTypeOK, NoFile
<1>3. ~ file.ok /\ op = "none" /\ gpg = "off" /\ feeder = "off" /\ taker = "off"
    BY DEF GpgInit, NoFile
<1> QED BY <1>2, <1>3 DEF GpgIInv

\* A bundle holds every entry.
LEMMA BundleHoldsAll ==
    ASSUME taken = Bundle
    PROVE  Restored = Members
<1>1. Members \in Nat
    BY GpgNumbers
<1>2. DOMAIN taken = 1..(Members + 2)
    BY <1>1, BundleShape
<1>3. {i \in DOMAIN taken : taken[i] = "member"} = 2..(Members + 1)
    <2>1. \A i \in 1..(Members + 2) : taken[i] = "member" <=> i \in 2..(Members + 1)
        BY BundleShape
    <2>2. 2..(Members + 1) \subseteq 1..(Members + 2)
        BY <1>1
    <2> QED BY <1>2, <2>1, <2>2
<1>4. Cardinality(2..(Members + 1)) = Members
    <2>1. 2 \in Int /\ Members + 1 \in Int
        BY <1>1
    <2>2. Cardinality(2..(Members + 1)) = IF 2 > Members + 1 THEN 0 ELSE (Members + 1) - 2 + 1
        BY <2>1, FS_Interval
    <2> QED BY <1>1, <2>2
<1> QED BY <1>3, <1>4 DEF Restored

\* For any number of entries, any capacity of the pipes, and wherever the source
\* of the stream, gpg or the reader fails: a restore that reports success has
\* written every entry of a backup that reported success (backup.rs:70-121;
\* read_bundle, bundle.rs:197-227; restore.rs:74-119).
THEOREM RestoreIsWhole == GpgSpec => RestoresWhole
<1>1. GpgIInv /\ [GpgNext]_gpgVars => GpgIInv'
    BY GpgIInvStep
<1>2. GpgIInv /\ [GpgNext]_gpgVars =>
          [op = "restore" /\ op' = "none" /\ result' = "ok" /\ file.ok => Restored = Members]_gpgVars
    <2> SUFFICES ASSUME GpgIInv, GpgNext, op = "restore", op' = "none", result' = "ok", file.ok
                 PROVE  Restored = Members
        OBVIOUS
    <2>1. Finish
        BY DEF GpgNext, GpgStep, StartCall, StartBackup, StartRestore, Spawn, Feed, FeedEnds,
               SourceFails, GpgReads, GpgWrites, GpgEnds, GpgDies, Take, TakeEnds, CallGivesUp
    <2>2. Succeeded
        BY <2>1 DEF Finish
    <2>3. Stream = Bundle /\ hold = <<>> /\ stdin = <<>> /\ source = <<>>
        BY <2>2 DEF GpgIInv, Well, Succeeded
    <2>4. taken \in Seq(Data) /\ stdout \in Seq(Data)
        BY DEF GpgIInv, GpgTypeOK
    <2>5. taken \o stdout = Bundle
        <3>1. stdout \o (<<>> \o (<<>> \o <<>>)) = stdout
            BY <2>4
        <3> QED BY <2>3, <3>1 DEF Stream
    <2>6. taken = Bundle
        <3>1. CASE stdout = <<>>
            BY <2>4, <2>5, <3>1, NothingMoves
        <3>2. CASE taken # <<>> /\ taken[Len(taken)] = "end"
            <4>1. PICK n \in Nat : n = Len(taken) /\ n >= 1 /\ n \in 1..Len(taken)
                BY <2>4, <3>2
            <4>2. Len(taken \o stdout) = Len(taken) + Len(stdout)
                      /\ \A i \in 1..Len(taken) : (taken \o stdout)[i] = taken[i]
                BY <2>4, Joins
            <4>3. Bundle[n] = "end" /\ Len(Bundle) = n + Len(stdout)
                BY <2>5, <3>2, <4>1, <4>2
            <4>4. n = Members + 2
                <5>1. n \in 1..(Members + 2)
                    BY <2>4, <4>1, <4>3, BundleShape, GpgNumbers
                <5> QED BY <4>3, <5>1, BundleShape
            <4>5. Len(stdout) = 0
                BY <2>4, <4>3, <4>4, BundleShape, GpgNumbers
            <4>6. stdout = <<>>
                BY <2>4, <4>5
            <4> QED BY <2>4, <2>5, <4>6, NothingMoves
        <3> QED BY <2>2, <3>1, <3>2 DEF GpgIInv, Succeeded
    <2> QED BY <2>6, BundleHoldsAll
<1> QED BY <1>1, <1>2, GpgAtStart, PTL DEF GpgSpec, RestoresWhole
\* Requests and replies are those of the popup, and no more of them are under
\* way than it has sent.
LEMMA HostTypeStep ==
    ASSUME HostTypeOK, [HostNext]_hostVars
    PROVE  HostTypeOK'
<1> USE DEF HostTypeOK
<1>1. MaxRequests \in Nat /\ nextId \in Nat
    BY NativeHostAssumption
<1>2. Len(toHost) \in Nat /\ Len(toPopup) \in Nat
    OBVIOUS
<1>3. ASSUME NEW asked \in Bodies, Request(asked),
             timer' \in Queries \cup {NotArmed}
      PROVE  HostTypeOK'
    <2>1. CASE open
        <3>1. nextId' = nextId + 1 /\ nextId' \in 1..(MaxRequests + 1)
            BY <1>1, <1>3, <2>1 DEF Request, Ids
        <3>2. DOMAIN pending' \subseteq 1..(nextId' - 1)
                  /\ \A id \in DOMAIN pending' : pending'[id] \in Bodies
            <4>1. pending' = [id \in DOMAIN pending \cup {nextId} |->
                                 IF id = nextId THEN asked ELSE pending[id]]
                BY <1>3, <2>1 DEF Request
            <4>2. DOMAIN pending \cup {nextId} \subseteq 1..(nextId' - 1)
                BY <1>1, <3>1
            <4> QED BY <4>1, <4>2
        <3>3. toHost' \in Seq([id : Ids, body : Bodies]) /\ Len(toHost') <= Len(toHost) + 1
            <4>1. PICK m : m = [id |-> nextId, body |-> asked]
                OBVIOUS
            <4>2. m \in [id : Ids, body : Bodies]
                BY <1>3, <4>1 DEF Request
            <4>3. Append(toHost, m) \in Seq([id : Ids, body : Bodies])
                      /\ Len(Append(toHost, m)) = Len(toHost) + 1
                BY <4>2, Appending
            <4>4. toHost' = Append(toHost, m) \/ toHost' = toHost
                BY <1>3, <2>1, <4>1 DEF Request
            <4>5. toHost \in Seq([id : Ids, body : Bodies])
                OBVIOUS
            <4>6. CASE toHost' = Append(toHost, m)
                BY <1>2, <4>3, <4>6
            <4>7. CASE toHost' = toHost
                BY <1>2, <4>5, <4>7
            <4> QED BY <4>4, <4>6, <4>7
        <3>4. UNCHANGED <<typed, unheard, list, status, open, toPopup, hostUp>>
            BY <1>3, <2>1 DEF Request
        <3>5. Len(toHost') + Len(toPopup') < nextId'
            BY <1>1, <1>2, <3>1, <3>3, <3>4
        <3> QED BY <1>3, <3>1, <3>2, <3>3, <3>4, <3>5
    <2>2. CASE ~ open
        BY <1>3, <2>2 DEF Request
    <2> QED BY <2>1, <2>2
<1>4. ASSUME NEW q \in Queries, Type(q) PROVE HostTypeOK'
    BY <1>4 DEF Type
<1>5. CASE OpenPopup
    <2>1. PICK m : m = [id |-> 1, body |-> List(None)]
        OBVIOUS
    <2>2. m \in [id : Ids, body : Bodies]
        BY <1>1, <2>1, BodyShape, NativeHostAssumption DEF Ids, Queries
    <2>3. toHost' = <<m>> /\ nextId' = 2 /\ pending' = [id \in {1} |-> List(None)]
              /\ UNCHANGED <<typed, unheard, timer, list, status, toPopup>> /\ open' = TRUE /\ hostUp' = TRUE
        BY <1>5, <2>1 DEF OpenPopup
    <2>4. <<m>> \in Seq([id : Ids, body : Bodies]) /\ Len(<<m>>) = 1
        BY <2>2
    <2>5. Len(toPopup) = 0
        BY <1>2, <1>5 DEF OpenPopup
    <2>6. List(None) \in Bodies
        BY BodyShape DEF Queries
    <2>7. 2 \in 1..(MaxRequests + 1)
        BY NativeHostAssumption
    <2>8. DOMAIN pending' \subseteq 1..(nextId' - 1)
              /\ \A id \in DOMAIN pending' : pending'[id] \in Bodies
        BY <2>3, <2>6
    <2>9. Len(toHost') + Len(toPopup') < nextId'
        BY <2>3, <2>4, <2>5
    <2> QED BY <2>3, <2>4, <2>7, <2>8, <2>9
<1>6. CASE Search
    <2>1. List(timer) \in Bodies /\ Request(List(timer)) /\ timer' = NotArmed
        BY <1>6, BodyShape DEF Search
    <2> QED BY <1>3, <2>1
<1>7. CASE Copy
    BY <1>3, <1>7, BodyShape DEF Copy
<1>8. CASE Serve
    <2>1. PICK req : req = Head(toHost)
        OBVIOUS
    <2>2. req \in [id : Ids, body : Bodies] /\ toHost' \in Seq([id : Ids, body : Bodies])
              /\ Len(toHost') = Len(toHost) - 1
        BY <1>8, <2>1, HeadAndTail DEF Serve
    <2>3. PICK m \in Replies : toPopup' = Append(toPopup, m)
        <3>1. CASE \E ok \in BOOLEAN :
                      toPopup' = Append(toPopup, [id |-> req.id, ok |-> ok, body |-> req.body])
            <4>1. PICK ok \in BOOLEAN :
                      toPopup' = Append(toPopup, [id |-> req.id, ok |-> ok, body |-> req.body])
                BY <3>1
            <4>2. [id |-> req.id, ok |-> ok, body |-> req.body] \in Replies
                BY <2>2 DEF Replies
            <4> QED BY <4>1, <4>2
        <3>2. CASE toPopup' = Append(toPopup, [id |-> 0, ok |-> FALSE, body |-> req.body])
            <4>1. [id |-> 0, ok |-> FALSE, body |-> req.body] \in Replies
                BY <2>2 DEF Replies
            <4> QED BY <3>2, <4>1
        <3> QED BY <1>8, <2>1, <3>1, <3>2 DEF Serve
    <2>4. toPopup' \in Seq(Replies) /\ Len(toPopup') = Len(toPopup) + 1
        BY <2>3, Appending
    <2>5. Len(toHost') + Len(toPopup') < nextId'
        BY <1>1, <1>2, <1>8, <2>2, <2>4 DEF Serve
    <2> QED BY <1>8, <2>2, <2>4, <2>5 DEF Serve
<1>9. CASE HostEnds
    <2>1. toHost' = <<>> /\ <<>> \in Seq([id : Ids, body : Bodies]) /\ Len(<<>>) = 0
        BY <1>9 DEF HostEnds
    <2>2. Len(toHost') + Len(toPopup') < nextId'
        BY <1>1, <1>2, <1>9, <2>1 DEF HostEnds
    <2> QED BY <1>9, <2>1, <2>2 DEF HostEnds
<1>10. CASE Receive
    <2>1. PICK reply : reply = Head(toPopup)
        OBVIOUS
    <2>2. reply \in Replies /\ toPopup' \in Seq(Replies) /\ Len(toPopup') = Len(toPopup) - 1
        BY <1>10, <2>1, HeadAndTail DEF Receive
    <2>3. UNCHANGED <<typed, unheard, timer, nextId, open, toHost, hostUp>>
        BY <1>10 DEF Receive
    <2>4. /\ DOMAIN pending' \subseteq DOMAIN pending
          /\ \A id \in DOMAIN pending' : pending'[id] = pending[id]
        BY <1>10, <2>1 DEF Receive, Without
    <2>5. status' \in {"loading", "ready", "failed", "dead"} /\ list' \in Queries \cup {NotShown}
        <3>1. CASE reply.id \in DOMAIN pending
            <4>1. Continue(reply.body, reply.ok)
                BY <1>10, <2>1, <3>1 DEF Receive
            <4>2. reply.body # Show => reply.body[2] \in Queries
                BY <2>2, BodyShape DEF Replies
            <4> QED BY <4>1, <4>2 DEF Continue, ListFailed
        <3>2. CASE reply.id \notin DOMAIN pending
            BY <1>10, <2>1, <3>2 DEF Receive
        <3> QED BY <3>1, <3>2
    <2>6. Len(toHost') + Len(toPopup') < nextId'
        BY <1>1, <1>2, <2>2, <2>3
    <2> QED BY <2>2, <2>3, <2>4, <2>5, <2>6
<1>11. CASE Disconnected
    <2>1. status' \in {"loading", "ready", "failed", "dead"} /\ pending' = <<>> /\ open' = FALSE
              /\ UNCHANGED <<typed, unheard, timer, list, nextId, toHost, toPopup, hostUp>>
        BY <1>11 DEF Disconnected, ListFailed
    <2>2. DOMAIN pending' = {}
        BY <2>1
    <2> QED BY <2>1, <2>2
<1>12. CASE UNCHANGED hostVars
    BY <1>12 DEF hostVars
<1> QED BY <1>4, <1>5, <1>6, <1>7, <1>8, <1>9, <1>10, <1>11, <1>12 DEF HostNext

\* For any number of requests, replies too large and a host that dies at any
\* moment: every promise under way has an id the popup gave out, and no more
\* messages travel than it has sent (native.ts:22-58, messaging_host.rs:36-84).
THEOREM HostTypeCorrect == HostSpec => []HostTypeOK
<1>1. HostInit => HostTypeOK
    <2> SUFFICES ASSUME HostInit PROVE HostTypeOK
        OBVIOUS
    <2>1. DOMAIN pending = {} /\ 1 \in 1..(MaxRequests + 1) /\ None \in Queries
        BY NativeHostAssumption DEF HostInit, Queries
    <2>2. toHost \in Seq([id : Ids, body : Bodies]) /\ toPopup \in Seq(Replies)
              /\ Len(toHost) + Len(toPopup) < nextId
        BY DEF HostInit
    <2> QED BY <2>1, <2>2 DEF HostInit, HostTypeOK
<1>2. HostTypeOK /\ [HostNext]_hostVars => HostTypeOK'
    BY HostTypeStep
<1> QED BY <1>1, <1>2, PTL DEF HostSpec

\* Whichever end fails, the pipes hold no more than their capacity, and what
\* goes through them are parts of a bundle (GpgCli::run, crypto_gpg.rs:45-84).
THEOREM GpgTypeCorrect == GpgSpec => []GpgTypeOK
<1>1. GpgIInv /\ [GpgNext]_gpgVars => GpgIInv'
    BY GpgIInvStep
<1>2. GpgIInv => GpgTypeOK
    BY DEF GpgIInv
<1> QED BY <1>1, <1>2, GpgAtStart, PTL DEF GpgSpec
-----------------------------------------------------------------------------
(* Recursive functions on the positions of a sequence.                     *)

\* The value of f at 0 is b, and the one at n follows from the one at n - 1.
Turns(N, S) == [1..N -> [S -> S]]
Follows(f, N, S, b, turn) ==
    f \in [0..N -> S] /\ f[0] = b /\ \A n \in 1..N : f[n] = turn[n][f[n - 1]]

\* Such a function exists.
LEMMA RecursionExists ==
    ASSUME NEW N \in Nat, NEW S, NEW b \in S, NEW turn \in Turns(N, S)
    PROVE  \E f : Follows(f, N, S, b, turn)
<1> USE DEF Turns, Follows
<1> DEFINE Upto(m, f) == /\ f \in [0..m -> S] /\ f[0] = b
                         /\ \A n \in 1..m : f[n] = turn[n][f[n - 1]]
           Known == {m \in Nat : m <= N => \E f : Upto(m, f)}
<1>1. 0 \in Known
    <2> DEFINE f == [n \in 0..0 |-> b]
    <2>1. Upto(0, f)
        OBVIOUS
    <2> QED BY <2>1
<1>2. ASSUME NEW m \in Nat, m \in Known PROVE m + 1 \in Known
    <2> SUFFICES ASSUME m + 1 <= N PROVE \E f : Upto(m + 1, f)
        OBVIOUS
    <2>1. PICK g : Upto(m, g)
        BY <1>2
    <2> DEFINE f == [n \in 0..(m + 1) |-> IF n = m + 1 THEN turn[m + 1][g[m]] ELSE g[n]]
    <2>2. g[m] \in S /\ m + 1 \in 1..N
        BY <2>1
    <2>3. turn[m + 1][g[m]] \in S
        BY <2>2
    <2>4. f \in [0..(m + 1) -> S] /\ \A n \in 0..m : f[n] = g[n]
        BY <2>1, <2>3
    <2>5. f[m + 1] = turn[m + 1][g[m]]
        OBVIOUS
    <2> HIDE DEF f
    <2>6. ASSUME NEW n \in 1..(m + 1) PROVE f[n] = turn[n][f[n - 1]]
        <3>1. CASE n = m + 1
            BY <3>1, <2>4, <2>5
        <3>2. CASE n # m + 1
            <4>1. n \in 1..m /\ n \in 0..m /\ n - 1 \in 0..m
                BY <3>2
            <4> QED BY <4>1, <2>1, <2>4
        <3> QED BY <3>1, <3>2
    <2>7. f[0] = b
        BY <2>1, <2>4
    <2> QED BY <2>4, <2>6, <2>7
<1>3. Nat \subseteq Known
    <2> HIDE DEF Known
    <2> QED BY <1>1, <1>2, SetInduction
<1>4. PICK f : Upto(N, f)
    BY <1>3
<1> QED BY <1>4

\* How the recursive function of Pick is written.
PicksUpTo(f, s, at) ==
    /\ f[0] = <<>>
    /\ \A n \in 1..Len(s) : f[n] = IF n \in at THEN Append(f[n - 1], s[n]) ELSE f[n - 1]

\* What Pick computes, position by position.
LEMMA PickUnfolds ==
    ASSUME NEW T, NEW s \in Seq(T), NEW at
    PROVE  \E f : Pick(s, at) = f[Len(s)] /\ PicksUpTo(f, s, at)
<1> DEFINE N == Len(s)
           S == Seq(T)
           turn == [n \in 1..N |-> [v \in S |-> IF n \in at THEN Append(v, s[n]) ELSE v]]
           Body(f) == [n \in 0..N |-> IF n = 0 THEN <<>>
                                      ELSE IF n \in at THEN Append(f[n - 1], s[n])
                                      ELSE f[n - 1]]
           upTo == CHOOSE f : f = Body(f)
<1>1. N \in Nat /\ <<>> \in S /\ \A n \in 1..N : s[n] \in T
    OBVIOUS
<1>2. turn \in Turns(N, S)
    <2>1. ASSUME NEW n \in 1..N, NEW v \in S
          PROVE  (IF n \in at THEN Append(v, s[n]) ELSE v) \in S
        BY <1>1
    <2> QED BY <2>1 DEF Turns
<1>3. \A n \in 1..N, v \in S : turn[n][v] = IF n \in at THEN Append(v, s[n]) ELSE v
    OBVIOUS
<1> HIDE DEF turn, S, N
<1>4. PICK f : Follows(f, N, S, <<>>, turn)
    BY <1>1, <1>2, RecursionExists
<1>5. \A n \in 1..N : f[n] = IF n \in at THEN Append(f[n - 1], s[n]) ELSE f[n - 1]
    <2> SUFFICES ASSUME NEW n \in 1..N
                 PROVE  f[n] = IF n \in at THEN Append(f[n - 1], s[n]) ELSE f[n - 1]
        OBVIOUS
    <2>1. n - 1 \in 0..N
        BY <1>1
    <2>2. f[n - 1] \in S /\ f[n] = turn[n][f[n - 1]]
        BY <2>1, <1>4 DEF Follows
    <2> QED BY <1>3, <2>2
<1>6. \A n \in 0..N : n = 0 \/ n \in 1..N
    BY <1>1
<1>7. f = Body(f)
    BY <1>4, <1>5, <1>6 DEF Follows
<1>8. upTo = Body(upTo)
    BY <1>7
<1>9. Pick(s, at) = upTo[N]
    BY DEF Pick, N
<1> HIDE DEF upTo
<1>10. upTo[0] = <<>>
    BY <1>1, <1>8
<1>11. \A n \in 1..N : upTo[n] = IF n \in at THEN Append(upTo[n - 1], s[n]) ELSE upTo[n - 1]
    <2> SUFFICES ASSUME NEW n \in 1..N
                 PROVE  upTo[n] = IF n \in at THEN Append(upTo[n - 1], s[n]) ELSE upTo[n - 1]
        OBVIOUS
    <2>1. n \in 0..N /\ n # 0
        BY <1>1
    <2>2. upTo[n] = Body(upTo)[n]
        BY <1>8
    <2> QED BY <2>1, <2>2
<1>12. PicksUpTo(upTo, s, at)
    BY <1>10, <1>11 DEF PicksUpTo, N
<1> QED BY <1>9, <1>12 DEF N

\* h says at which positions of s the elements of p lie: at those of `at`, up
\* to n, in their order.
Picks(p, h, s, at, n) ==
    /\ h \in [1..Len(p) -> at \cap (1..n)] /\ Len(p) <= n
    /\ \A i, j \in 1..Len(p) : i < j => h[i] < h[j]
    /\ \A m \in at \cap (1..n) : \E k \in 1..Len(p) : h[k] = m
    /\ \A k \in 1..Len(p) : p[k] = s[h[k]]

\* Taking one more element keeps the positions in order.
LEMMA PickGrows ==
    ASSUME NEW T, NEW s \in Seq(T), NEW at, NEW n \in Nat, n + 1 \in 1..Len(s), n + 1 \in at,
           NEW p \in Seq(T), NEW h, Picks(p, h, s, at, n)
    PROVE  \E g : Picks(Append(p, s[n + 1]), g, s, at, n + 1)
<1>1. PICK q : q = Append(p, s[n + 1])
    OBVIOUS
<1>2. /\ q \in Seq(T) /\ Len(q) = Len(p) + 1 /\ Len(p) \in Nat
      /\ q[Len(p) + 1] = s[n + 1] /\ \A k \in 1..Len(p) : q[k] = p[k]
    BY <1>1
<1> DEFINE g == [k \in 1..Len(q) |-> IF k = Len(q) THEN n + 1 ELSE h[k]]
<1>3. g[Len(p) + 1] = n + 1 /\ \A k \in 1..Len(p) : g[k] = h[k]
    BY <1>2
<1>4. \A k \in 1..Len(p) : h[k] \in at \cap (1..n)
    BY DEF Picks
<1>5. \A k \in 1..Len(q) : k \in 1..Len(p) \/ k = Len(p) + 1
    BY <1>2
<1>6. DOMAIN g = 1..Len(q) /\ g \in [1..Len(q) -> at \cap (1..(n + 1))]
    <2> SUFFICES ASSUME NEW k \in 1..Len(q) PROVE g[k] \in at \cap (1..(n + 1))
        BY Zenon
    <2>1. CASE k \in 1..Len(p)
        BY <2>1, <1>3, <1>4
    <2>2. CASE k = Len(p) + 1
        BY <2>2, <1>3
    <2> QED BY <2>1, <2>2, <1>5
<1> HIDE DEF g
<1>7. ASSUME NEW i \in 1..Len(q), NEW j \in 1..Len(q), i < j PROVE g[i] < g[j]
    <2>1. i \in 1..Len(p)
        BY <1>2, <1>7
    <2>2. g[i] = h[i] /\ h[i] \in 1..n
        BY <2>1, <1>3, <1>4
    <2>3. CASE j = Len(p) + 1
        BY <2>2, <2>3, <1>3
    <2>4. CASE j \in 1..Len(p)
        <3>1. h[i] < h[j]
            BY <2>1, <2>4, <1>7 DEF Picks
        <3> QED BY <3>1, <2>2, <2>4, <1>3
    <2> QED BY <2>3, <2>4, <1>5
<1>8. ASSUME NEW m \in at \cap (1..(n + 1)) PROVE \E k \in 1..Len(q) : g[k] = m
    <2>1. CASE m = n + 1
        BY <2>1, <1>2, <1>3
    <2>2. CASE m # n + 1
        <3>1. m \in at \cap (1..n)
            BY <2>2
        <3>2. PICK k \in 1..Len(p) : h[k] = m
            BY <3>1 DEF Picks
        <3> QED BY <3>2, <1>2, <1>3
    <2> QED BY <2>1, <2>2
<1>9. \A k \in 1..Len(q) : q[k] = s[g[k]]
    BY <1>2, <1>3, <1>5 DEF Picks
<1>10. Len(q) <= n + 1
    BY <1>2 DEF Picks
<1>11. Picks(q, g, s, at, n + 1)
    BY <1>6, <1>7, <1>8, <1>9, <1>10 DEF Picks
<1> QED BY <1>1, <1>11

\* What Pick returns.
LEMMA PickShape ==
    ASSUME NEW T, NEW s \in Seq(T), NEW at
    PROVE  Pick(s, at) \in Seq(T) /\ \E h : Picks(Pick(s, at), h, s, at, Len(s))
<1>1. PICK f : Pick(s, at) = f[Len(s)] /\ PicksUpTo(f, s, at)
    BY PickUnfolds
<1> DEFINE Right == {n \in Nat : n <= Len(s) => f[n] \in Seq(T)
                                                   /\ \E h : Picks(f[n], h, s, at, n)}
<1>2. 0 \in Right
    <2>1. f[0] = <<>>
        BY <1>1 DEF PicksUpTo
    <2>2. Picks(<<>>, <<>>, s, at, 0)
        <3>1. 1..0 = {} /\ Len(<<>>) = 0 /\ <<>> \in [{} -> at \cap {}]
            OBVIOUS
        <3> QED BY <3>1 DEF Picks
    <2>3. <<>> \in Seq(T)
        OBVIOUS
    <2>4. f[0] \in Seq(T) /\ \E h : Picks(f[0], h, s, at, 0)
        <3> HIDE DEF Right
        <3> QED BY Zenon, <2>1, <2>2, <2>3
    <2> QED BY <2>4
<1>3. ASSUME NEW n \in Nat, n \in Right PROVE n + 1 \in Right
    <2> SUFFICES ASSUME n + 1 <= Len(s)
                 PROVE  f[n + 1] \in Seq(T) /\ \E h : Picks(f[n + 1], h, s, at, n + 1)
        OBVIOUS
    <2>1. n + 1 \in 1..Len(s) /\ (n + 1) - 1 = n /\ s[n + 1] \in T
        OBVIOUS
    <2>2. f[n + 1] = IF n + 1 \in at THEN Append(f[n], s[n + 1]) ELSE f[n]
        BY <1>1, <2>1 DEF PicksUpTo
    <2>3. f[n] \in Seq(T)
        BY <1>3, <2>1
    <2>4. PICK h : Picks(f[n], h, s, at, n)
        BY <1>3, <2>1
    <2> HIDE DEF Right
    <2>5. CASE n + 1 \in at
        <3>1. f[n + 1] \in Seq(T)
            BY <2>1, <2>2, <2>3, <2>5
        <3>2. \E g : Picks(Append(f[n], s[n + 1]), g, s, at, n + 1)
            BY <2>1, <2>3, <2>4, <2>5, PickGrows
        <3> QED BY <3>1, <3>2, <2>2, <2>5
    <2>6. CASE n + 1 \notin at
        <3>1. at \cap (1..(n + 1)) = at \cap (1..n)
            BY <2>6
        <3>2. Picks(f[n], h, s, at, n + 1)
            <4>1. Len(f[n]) <= n + 1
                BY <2>3, <2>4 DEF Picks
            <4> QED BY <2>4, <3>1, <4>1 DEF Picks
        <3> QED BY <3>2, <2>2, <2>3, <2>6
    <2> QED BY <2>5, <2>6
<1>4. Len(s) \in Right
    <2>1. Nat \subseteq Right
        <3> HIDE DEF Right
        <3> QED BY <1>2, <1>3, SetInduction
    <2> QED BY <2>1
<1> QED BY <1>1, <1>4
-----------------------------------------------------------------------------
(* The importers.  The state after each step is what the parsers and       *)
(* serialise_body make of the item; the rest is about those operators.     *)

LossNotes == {"named by folder", "linked field", "no password", "unsupported item", "no title",
              "attachments"}

ImportIInv ==
    /\ title \in Seq(Chars) /\ Len(title) <= MaxSlug
    /\ progress \in {"read", "parsed", "written", "skipped", "refused", "panicked", "slug"}
    /\ report \subseteq LossNotes \cup {"flattened", "empty key"}
    /\ progress # "slug" => item \in Items
    /\ progress \in {"parsed", "skipped"} => Parse(item) = Parsed(progress, entry, report)
    /\ progress = "written" =>
          /\ Parse(item).how = "parsed" /\ entry = Parse(item).entry
          /\ body = BodyOf(entry) /\ ValidPath(PathOf(entry))
          /\ report = Parse(item).notes \cup Changed(entry)

\* What any parser returns: an entry, or a reason.
Parses(p) ==
    /\ p = Parsed(p.how, p.entry, p.notes)
    /\ p.how \in {"parsed", "skipped", "refused"} /\ p.notes \subseteq LossNotes
    /\ p.how = "skipped" => p.notes # {}

\* The parts of what a parser returns.
LEMMA ParsedFields ==
    ASSUME NEW how, NEW e, NEW notes
    PROVE  /\ Parsed(how, e, notes).how = how /\ Parsed(how, e, notes).entry = e
           /\ Parsed(how, e, notes).notes = notes
BY DEF Parsed

\* What is needed of an answer of a parser.
LEMMA ParsedParses ==
    ASSUME NEW how \in {"parsed", "skipped", "refused"}, NEW e, NEW notes,
           notes \subseteq LossNotes, how = "skipped" => notes # {}
    PROVE  Parses(Parsed(how, e, notes))
<1> DEFINE p == Parsed(how, e, notes)
<1>1. p.how = how /\ p.entry = e /\ p.notes = notes
    BY ParsedFields
<1> HIDE DEF p
<1> SUFFICES ASSUME p = Parsed(how, e, notes) PROVE Parses(p)
    BY DEF p
<1> QED BY <1>1 DEF Parses

\* The entry that a row makes, if it is not refused.
CsvMakes(it) ==
    LET cols == Trimmed(it)
        name == Spelling(LastOf(cols, Own("name")))
        folder == NonEmpty(Segments(Spelling(LastOf(cols, Own("folder")))))
    IN  [folder |-> IF name = <<>> /\ folder # <<>> THEN Front(folder) ELSE folder,
         name |-> IF name = <<>> /\ folder # <<>> THEN Last(folder) ELSE name,
         password |-> LastOf(cols, Own("password")),
         username |-> LastOf(cols, Own("username")), fields |-> Custom(cols, KnownRoles),
         totp |-> LastOf(cols, Own("totp")), notes |-> LastOf(cols, Own("notes")),
         uris |-> AllOf(cols, Own("url"))]

\* A row is refused or parsed (csv.rs, build_entry).
LEMMA CsvParses ==
    ASSUME NEW it
    PROVE  /\ Parses(ParseCsv(it))
           /\ ParseCsv(it).how = "parsed" => ParseCsv(it).entry = CsvMakes(it)
<1> DEFINE name == Spelling(LastOf(Trimmed(it), Own("name")))
           folder == NonEmpty(Segments(Spelling(LastOf(Trimmed(it), Own("folder")))))
           notes == IF name = <<>> THEN {"named by folder"} ELSE {}
           r == Parsed("refused", NoItem, {})
           q == Parsed("parsed", CsvMakes(it), notes)
<1>1. ParseCsv(it) = IF (name = <<>> /\ folder = <<>>) \/ CsvMakes(it).password = Blank
                     THEN r ELSE q
    BY DEF ParseCsv, CsvMakes
<1>2. notes \subseteq LossNotes
    BY DEF LossNotes
<1>3. Parses(r) /\ r.how = "refused"
    BY ParsedParses, ParsedFields
<1>4. Parses(q) /\ q.entry = CsvMakes(it)
    <2> HIDE DEF notes
    <2> QED BY <1>2, ParsedParses, ParsedFields
<1> HIDE DEF r, q, name, folder
<1>5. ParseCsv(it) = r \/ ParseCsv(it) = q
    BY <1>1
<1> QED BY <1>3, <1>4, <1>5

\* The entries that a Bitwarden item makes, as a note and as a login.
NoteMakes(it) ==
    [NoItem EXCEPT !.folder = IF it.folder = Blank THEN <<>> ELSE Segments(Spelling(it.folder)),
                   !.name = Spelling(it.name), !.fields = CollectFields(it.field).kept,
                   !.notes = it.notes]
LoginMakes(it) ==
    [NoteMakes(it) EXCEPT !.password = it.password, !.totp = it.totp,
                          !.username = it.username, !.uris = FilledUris(it)]

\* An item of a kind that is not imported is skipped and noted (bitwarden.rs,
\* parse).
LEMMA BitwardenParses ==
    ASSUME NEW it, it.type \in 1..3
    PROVE  /\ Parses(ParseBitwarden(it))
           /\ ParseBitwarden(it).how = "parsed" =>
                 /\ \/ it.type = 1 /\ ParseBitwarden(it).entry = LoginMakes(it)
                    \/ it.type = 2 /\ ParseBitwarden(it).entry = NoteMakes(it)
                 /\ CollectFields(it.field).notes \subseteq ParseBitwarden(it).notes
<1> DEFINE notes == CollectFields(it.field).notes
           more == notes \cup {"no password"}
           reason == {"unsupported item"}
           asLogin == Parsed("parsed", LoginMakes(it), notes)
           asNote == Parsed("parsed", NoteMakes(it), more)
           unsupported == Parsed("skipped", NoItem, reason)
<1>1. ParseBitwarden(it) = CASE it.type = 1 -> asLogin [] it.type = 2 -> asNote
                             [] OTHER -> unsupported
    BY Zenon DEF ParseBitwarden, LoginMakes, NoteMakes
<1>2. /\ notes \subseteq LossNotes /\ more \subseteq LossNotes /\ reason \subseteq LossNotes
      /\ notes \subseteq more /\ reason # {}
    BY DEF CollectFields, LossNotes
<1> HIDE DEF notes, more, reason
<1>3. Parses(asLogin) /\ asLogin.entry = LoginMakes(it) /\ asLogin.notes = notes
    BY <1>2, ParsedParses, ParsedFields
<1>4. Parses(asNote) /\ asNote.entry = NoteMakes(it) /\ asNote.notes = more
    BY <1>2, ParsedParses, ParsedFields
<1>5. Parses(unsupported) /\ unsupported.how = "skipped"
    BY <1>2, ParsedParses, ParsedFields
<1> HIDE DEF asLogin, asNote, unsupported
<1>6. \/ it.type = 1 /\ ParseBitwarden(it) = asLogin
      \/ it.type = 2 /\ ParseBitwarden(it) = asNote
      \/ ParseBitwarden(it) = unsupported
    BY <1>1
<1> QED BY <1>2, <1>3, <1>4, <1>5, <1>6 DEF notes

\* The last string with this key, whatever it holds.
LastNamed(pairs, key) ==
    LET at == {i \in DOMAIN pairs : pairs[i][1] = key}
    IN  IF at = {} THEN Blank ELSE pairs[Max(at)][2]

\* The entry that a KeePass entry makes.
KeepassMakes(it) ==
    [folder |-> [i \in DOMAIN it.group |-> Spelling(it.group[i])],
     name |-> Spelling(LastNamed(it.strings, Own("Title"))),
     password |-> LastNamed(it.strings, Own("Password")),
     username |-> LastOf(it.strings, Own("UserName")),
     fields |-> Custom(it.strings, KnownKeys), totp |-> LastOf(it.strings, Own("otp")),
     notes |-> LastOf(it.strings, Own("Notes")),
     uris |-> Some(LastOf(it.strings, Own("URL")))]

\* An entry without a title is skipped and noted (keepass.rs, build_entry).
LEMMA KeepassParses ==
    ASSUME NEW it
    PROVE  /\ Parses(ParseKeepass(it))
           /\ ParseKeepass(it).how = "parsed" => ParseKeepass(it).entry = KeepassMakes(it)
<1> DEFINE notes == IF it.binaries > 0 THEN {"attachments"} ELSE {}
           reason == {"no title"}
           r == Parsed("skipped", NoItem, reason)
           q == Parsed("parsed", KeepassMakes(it), notes)
<1>1. ParseKeepass(it) = IF KeepassMakes(it).name = <<>> THEN r ELSE q
    BY DEF ParseKeepass, KeepassMakes, LastNamed
<1>2. notes \subseteq LossNotes /\ reason \subseteq LossNotes /\ reason # {}
    BY DEF LossNotes
<1> HIDE DEF notes, reason
<1>3. Parses(r) /\ r.how = "skipped"
    BY <1>2, ParsedParses, ParsedFields
<1>4. Parses(q) /\ q.entry = KeepassMakes(it)
    BY <1>2, ParsedParses, ParsedFields
<1> HIDE DEF r, q
<1> QED BY <1>1, <1>3, <1>4

\* The formats of the items.
LEMMA ItemKinds ==
    ASSUME NEW it \in Items
    PROVE  \/ it \in CsvItems /\ it.format = "csv" /\ Parse(it) = ParseCsv(it)
           \/ it \in BitwardenItems /\ it.format = "bitwarden" /\ it.type \in 1..3
              /\ Parse(it) = ParseBitwarden(it)
           \/ it \in KeepassItems /\ it.format = "keepass" /\ Parse(it) = ParseKeepass(it)
<1>1. it \in CsvItems => it.format = "csv"
    BY DEF CsvItems
<1>2. it \in BitwardenItems => it.format = "bitwarden" /\ it.type \in 1..3
    BY DEF BitwardenItems
<1>3. it \in KeepassItems => it.format = "keepass"
    BY DEF KeepassItems
<1> QED BY <1>1, <1>2, <1>3 DEF Items, Parse

\* Every parser returns an entry, or says why not.
LEMMA ParseShape ==
    ASSUME NEW it \in Items
    PROVE  Parses(Parse(it))
BY ItemKinds, CsvParses, BitwardenParses, KeepassParses

\* Parsing and writing make of the item what their operators say, and change
\* nothing else (prepare, import.rs:132-216).
LEMMA ImportIInvStep ==
    ASSUME ImportIInv, [ImportNext]_importVars
    PROVE  ImportIInv'
<1>1. CASE ParseItem
    <2>1. /\ item \in Items /\ item' = item /\ title' = title
          /\ progress' = Parse(item).how /\ entry' = Parse(item).entry
          /\ report' = Parse(item).notes
        BY <1>1 DEF ParseItem, ImportIInv
    <2>2. Parses(Parse(item))
        BY <2>1, ParseShape
    <2>3. progress' \in {"parsed", "skipped", "refused"} /\ report' \subseteq LossNotes
              /\ Parse(item) = Parsed(progress', entry', report')
        BY <2>1, <2>2 DEF Parses
    <2> QED BY <2>1, <2>3 DEF ImportIInv
<1>2. CASE WriteBody
    <2>1. Parse(item) = Parsed("parsed", entry, report) /\ item \in Items
        BY <1>2 DEF WriteBody, ImportIInv
    <2>2. Parse(item).how = "parsed" /\ Parse(item).entry = entry /\ Parse(item).notes = report
        BY <2>1 DEF Parsed
    <2>3. item' = item /\ entry' = entry /\ title' = title
        BY <1>2 DEF WriteBody
    <2>4. CASE progress' = "written" /\ body' = BodyOf(entry) /\ ValidPath(PathOf(entry))
                  /\ report' = report \cup Changed(entry)
        <3>1. Changed(entry) \subseteq {"flattened", "empty key"}
            BY DEF Changed
        <3>2. report' \subseteq LossNotes \cup {"flattened", "empty key"}
            BY <2>4, <3>1 DEF ImportIInv
        <3> QED BY <2>1, <2>2, <2>3, <2>4, <3>2 DEF ImportIInv
    <2>5. CASE progress' \in {"refused", "panicked"} /\ report' = report
        BY <2>1, <2>3, <2>5 DEF ImportIInv
    <2> QED BY <1>2, <2>4, <2>5 DEF WriteBody
<1>3. CASE NextName
    <2>1. PICK c \in Chars : title' = Append(title, c)
        BY <1>3 DEF NextName
    <2>2. title \in Seq(Chars) /\ Len(title) < MaxSlug /\ MaxSlug \in Nat
        BY <1>3, ForeignImportAssumption DEF NextName, ImportIInv
    <2>3. title' \in Seq(Chars)
        <3> HIDE DEF Chars
        <3> QED BY <2>1, <2>2
    <2>4. Len(title') <= MaxSlug
        <3>1. Len(title') = Len(title) + 1 /\ Len(title) \in Nat
            BY <2>1, <2>2
        <3> QED BY <2>2, <3>1
    <2> QED BY <1>3, <2>3, <2>4 DEF NextName, ImportIInv
<1>4. CASE UNCHANGED importVars
    BY <1>4 DEF importVars, ImportIInv
<1> QED BY <1>1, <1>2, <1>3, <1>4 DEF ImportNext

\* Nothing has been read or noted yet.
LEMMA ImportAtStart == ImportInit => ImportIInv
<1> SUFFICES ASSUME ImportInit PROVE ImportIInv
    OBVIOUS
<1>1. title = <<>> /\ report = {} /\ progress \in {"read", "slug"}
          /\ (progress # "slug" => item \in Items)
    BY DEF ImportInit
<1>2. MaxSlug \in Nat /\ Len(<<>>) = 0
    BY ForeignImportAssumption
<1>3. title \in Seq(Chars) /\ Len(title) <= MaxSlug
    BY <1>1, <1>2
<1> QED BY <1>1, <1>3 DEF ImportIInv

\* What the state holds at each stage is what parsing and writing make of the item.
LEMMA ImportInvariant == ImportSpec => []ImportIInv
<1>1. ImportIInv /\ [ImportNext]_importVars => ImportIInv'
    BY ImportIInvStep
<1> QED BY <1>1, ImportAtStart, PTL DEF ImportSpec
-----------------------------------------------------------------------------
(* The body of an entry, line by line.                                     *)

Tokens == {"blank", "text", "padded", "cr", "lines", "flat", "noted", "sign", "dots", "tree"} \X Nat
FieldKeys == (Words \cup {""}) \X {"own", "lower", "other", "colon"}
LineKeys == FieldKeys \cup {Own(w) : w \in {"login", "otpauth", "url", "url-2", "url-3"}}
LineSet == {First(v) : v \in Tokens} \cup {Note(v) : v \in Tokens} \cup
           {Field(k, v) : k \in LineKeys, v \in Tokens}

EntryShape(e) ==
    /\ {e.password, e.username, e.totp, e.notes} \subseteq Tokens
    /\ e.fields \in Seq(FieldKeys \X Tokens)
    /\ e.uris \in Seq(Tokens) /\ Len(e.uris) <= 3

Line(k, v) == IF v = Blank THEN <<>> ELSE <<Field(Own(k), FlattenNewlines(v))>>
FieldLine(e, i) == Field(Named(e)[i][1], FlattenNewlines(Named(e)[i][2]))
UriLine(e, i) == Field(Own(UriKey(i)), FlattenNewlines(e.uris[i]))

\* Only its kind changes when a token is put on one line or trimmed.
LEMMA TokensFlatten ==
    ASSUME NEW v \in Tokens
    PROVE  FlattenNewlines(v) \in Tokens /\ FlattenNewlines(v)[2] = v[2]
BY DEF Tokens, FlattenNewlines

\* The keys of an entry's URIs.
LEMMA UriKeys == \A i \in 1..3 : Own(UriKey(i)) \in LineKeys
<1>1. UriKey(1) = "url" /\ UriKey(2) = "url-2" /\ UriKey(3) = "url-3"
    BY DEF UriKey
<1>2. \A i \in 1..3 : i = 1 \/ i = 2 \/ i = 3
    OBVIOUS
<1> QED BY <1>1, <1>2 DEF LineKeys

\* The fields that are written are those with a key (serialise_body,
\* import.rs:307-314).
LEMMA NamedFields ==
    ASSUME NEW e, EntryShape(e)
    PROVE  /\ Named(e) \in Seq(FieldKeys \X Tokens)
           /\ \A i \in DOMAIN Named(e) :
                 \E j \in DOMAIN e.fields : Named(e)[i] = e.fields[j] /\ e.fields[j][1][1] # ""
           /\ \A j \in DOMAIN e.fields :
                 e.fields[j][1][1] # "" => \E i \in DOMAIN Named(e) : Named(e)[i] = e.fields[j]
           /\ (\E j \in DOMAIN e.fields : e.fields[j][1][1] = "") => Named(e) # e.fields
<1> DEFINE T == FieldKeys \X Tokens
           at == {i \in DOMAIN e.fields : e.fields[i][1][1] # ""}
           named == Named(e)
<1>1. e.fields \in Seq(T) /\ named = Pick(e.fields, at)
    BY DEF EntryShape, Named
<1> HIDE DEF named
<1>2. named \in Seq(T) /\ \E h : Picks(named, h, e.fields, at, Len(e.fields))
    <2> HIDE DEF at, T
    <2> QED BY <1>1, PickShape
<1>3. PICK h : Picks(named, h, e.fields, at, Len(e.fields))
    BY <1>2
<1>4. /\ DOMAIN named = 1..Len(named) /\ Len(named) \in Nat
      /\ DOMAIN e.fields = 1..Len(e.fields) /\ Len(e.fields) \in Nat
    <2> HIDE DEF at, T
    <2> QED BY <1>1, <1>2
<1>5. \A i \in 1..Len(named) : h[i] \in at /\ named[i] = e.fields[h[i]]
    BY <1>3 DEF Picks
<1>6. ASSUME NEW j \in DOMAIN e.fields, e.fields[j][1][1] # ""
      PROVE  \E i \in DOMAIN named : named[i] = e.fields[j]
    <2>1. j \in at \cap (1..Len(e.fields))
        BY <1>4, <1>6
    <2>2. PICK i \in 1..Len(named) : h[i] = j
        BY <2>1, <1>3 DEF Picks
    <2> QED BY <2>2, <1>4, <1>5
<1>7. ASSUME NEW j \in DOMAIN e.fields, e.fields[j][1][1] = "", named = e.fields PROVE FALSE
    <2>1. j \in 1..Len(named) /\ named[j][1][1] = ""
        BY <1>4, <1>7
    <2> QED BY <2>1, <1>5
<1> QED BY <1>2, <1>4, <1>5, <1>6, <1>7 DEF named

\* The parts of the body are sequences of lines.
LEMMA LineTypes ==
    ASSUME NEW e, EntryShape(e)
    PROVE  /\ Line("login", e.username) \in Seq(LineSet)
           /\ Line("otpauth", e.totp) \in Seq(LineSet)
           /\ [i \in DOMAIN Named(e) |-> FieldLine(e, i)] \in Seq(LineSet)
           /\ [i \in DOMAIN e.uris |-> UriLine(e, i)] \in Seq(LineSet)
           /\ Notes(e) \in Seq(LineSet)
           /\ <<First(FlattenNewlines(e.password))>> \in Seq(LineSet)
<1>1. {e.password, e.username, e.totp, e.notes} \subseteq Tokens
    BY DEF EntryShape
<1>2. {Own("login"), Own("otpauth")} \subseteq LineKeys
    BY DEF LineKeys
<1>3. Field(Own("login"), FlattenNewlines(e.username)) \in LineSet
    BY <1>1, <1>2, TokensFlatten DEF LineSet
<1>4. Field(Own("otpauth"), FlattenNewlines(e.totp)) \in LineSet
    BY <1>1, <1>2, TokensFlatten DEF LineSet
<1>5. First(FlattenNewlines(e.password)) \in LineSet
    BY <1>1, TokensFlatten DEF LineSet
<1>6. Note(e.notes) \in LineSet
    BY <1>1 DEF LineSet
<1>7. Field(Own("login"), <<"noted", 0>>) \in LineSet
    <2>1. <<"noted", 0>> \in Tokens
        BY DEF Tokens
    <2> QED BY <2>1, <1>2 DEF LineSet
<1>0. Named(e) \in Seq(FieldKeys \X Tokens)
    BY NamedFields
<1>8. ASSUME NEW i \in DOMAIN Named(e) PROVE FieldLine(e, i) \in LineSet
    <2>1. Named(e)[i] \in FieldKeys \X Tokens
        BY <1>0
    <2>2. Named(e)[i][1] \in LineKeys /\ Named(e)[i][2] \in Tokens
        BY <2>1 DEF LineKeys
    <2> QED BY <2>2, TokensFlatten DEF LineSet, FieldLine
<1>9. ASSUME NEW i \in DOMAIN e.uris PROVE UriLine(e, i) \in LineSet
    <2>1. i \in 1..3 /\ e.uris[i] \in Tokens
        BY DEF EntryShape
    <2> QED BY <2>1, TokensFlatten, UriKeys DEF LineSet, UriLine
<1>10. Line("login", e.username) \in Seq(LineSet)
    <2> HIDE DEF LineSet
    <2> QED BY <1>3 DEF Line
<1>11. Line("otpauth", e.totp) \in Seq(LineSet)
    BY <1>4 DEF Line
<1>12. Notes(e) \in Seq(LineSet)
    BY <1>6, <1>7 DEF Notes
<1>13. DOMAIN Named(e) = 1..Len(Named(e)) /\ Len(Named(e)) \in Nat
    BY <1>0
<1>14. DOMAIN e.uris = 1..Len(e.uris) /\ Len(e.uris) \in Nat
    BY DEF EntryShape
<1>15. [i \in DOMAIN Named(e) |-> FieldLine(e, i)] \in Seq(LineSet)
    BY <1>8, <1>13
<1>16. [i \in DOMAIN e.uris |-> UriLine(e, i)] \in Seq(LineSet)
    BY <1>9, <1>14
<1> QED BY <1>5, <1>10, <1>11, <1>12, <1>15, <1>16

\* What stands on the lines before the notes.
OnLine(e, x) ==
    \/ x = First(FlattenNewlines(e.password))
    \/ e.username # Blank /\ x = Field(Own("login"), FlattenNewlines(e.username))
    \/ \E i \in DOMAIN Named(e) : x = FieldLine(e, i)
    \/ e.totp # Blank /\ x = Field(Own("otpauth"), FlattenNewlines(e.totp))
    \/ \E i \in DOMAIN e.uris : x = UriLine(e, i)

\* A line is left out if its value is blank (serialise_body).
LEMMA LineRange ==
    ASSUME NEW k, NEW v
    PROVE  Range(Line(k, v)) = IF v = Blank THEN {} ELSE {Field(Own(k), FlattenNewlines(v))}
<1>1. CASE v = Blank
    <2>1. Line(k, v) = <<>> /\ DOMAIN <<>> = {}
        BY <1>1 DEF Line
    <2> QED BY <2>1, <1>1 DEF Range
<1>2. CASE v # Blank
    <2>1. PICK x : x = Field(Own(k), FlattenNewlines(v))
        OBVIOUS
    <2>2. Line(k, v) = <<x>> /\ DOMAIN <<x>> = {1} /\ <<x>>[1] = x
        BY <1>2, <2>1 DEF Line
    <2> QED BY <1>2, <2>1, <2>2 DEF Range
<1> QED BY <1>1, <1>2

\* The first element of a concatenation.
LEMMA Starts ==
    ASSUME NEW S, NEW s \in Seq(S), NEW t \in Seq(S)
    PROVE  /\ Len(s \o t) = Len(s) + Len(t)
           /\ \A i \in 1..Len(s) : i \in DOMAIN (s \o t) /\ (s \o t)[i] = s[i]
<1>1. Len(s) \in Nat /\ Len(t) \in Nat
    OBVIOUS
<1>2. Len(s \o t) = Len(s) + Len(t)
    BY ConcatProperties
<1>3. \A i \in 1..(Len(s) + Len(t)) :
          (s \o t)[i] = IF i <= Len(s) THEN s[i] ELSE t[i - Len(s)]
    BY ConcatProperties
<1>4. s \o t \in Seq(S)
    BY ConcatProperties
<1>5. ASSUME NEW i \in 1..Len(s) PROVE i \in DOMAIN (s \o t) /\ (s \o t)[i] = s[i]
    <2>1. i \in 1..(Len(s) + Len(t)) /\ i <= Len(s)
        BY <1>1
    <2>2. (s \o t)[i] = s[i]
        BY <1>3, <2>1
    <2>3. DOMAIN (s \o t) = 1..(Len(s) + Len(t))
        BY <1>2, <1>4
    <2> QED BY <2>1, <2>2, <2>3
<1> QED BY <1>2, <1>5

\* The password line and the fields.
Page(e) == <<First(FlattenNewlines(e.password))>> \o Fields(e)

\* The body is the password line, the lines of OnLine and the notes
\* (serialise_body, import.rs:275-341).
LEMMA BodyLines ==
    ASSUME NEW e, EntryShape(e)
    PROVE  /\ BodyOf(e) = Page(e) \o Notes(e)
           /\ Page(e) \in Seq(LineSet) /\ Len(Page(e)) >= 1 /\ Notes(e) \in Seq(LineSet)
           /\ Page(e)[1] = First(FlattenNewlines(e.password))
           /\ \A x : x \in Range(Page(e)) <=> OnLine(e, x)
<1>1. PICK p, a, b, c, d :
         /\ p = <<First(FlattenNewlines(e.password))>>
         /\ a = Line("login", e.username) /\ b = [i \in DOMAIN Named(e) |-> FieldLine(e, i)]
         /\ c = Line("otpauth", e.totp) /\ d = [i \in DOMAIN e.uris |-> UriLine(e, i)]
    OBVIOUS
<1>2. /\ p \in Seq(LineSet) /\ a \in Seq(LineSet) /\ b \in Seq(LineSet) /\ c \in Seq(LineSet)
      /\ d \in Seq(LineSet) /\ Notes(e) \in Seq(LineSet)
    BY <1>1, LineTypes
<1>3. Fields(e) = ((a \o b) \o c) \o d
    BY <1>1 DEF Fields, Line, FieldLine, UriLine
<1> DEFINE ab == a \o b
           abc == ab \o c
           abcd == abc \o d
           pf == p \o abcd
<1>5. ab \in Seq(LineSet) /\ Range(ab) = Range(a) \cup Range(b)
    BY <1>2, RangeConcatenation
<1> HIDE DEF ab
<1>6. abc \in Seq(LineSet) /\ Range(abc) = Range(ab) \cup Range(c)
    BY <1>2, <1>5, RangeConcatenation
<1> HIDE DEF abc
<1>7. abcd \in Seq(LineSet) /\ Range(abcd) = Range(abc) \cup Range(d)
    BY <1>2, <1>6, RangeConcatenation
<1> HIDE DEF abcd
<1>8. pf \in Seq(LineSet) /\ Range(pf) = Range(p) \cup Range(abcd)
    BY <1>2, <1>7, RangeConcatenation
<1>9. Len(p) = 1 /\ p[1] = First(FlattenNewlines(e.password)) /\ Range(p) = {p[1]}
    BY <1>1 DEF Range
<1>10. Len(pf) >= 1 /\ pf[1] = p[1]
    <2>1. 1 \in 1..Len(p) /\ Len(abcd) \in Nat
        BY <1>7, <1>9
    <2>2. Len(p \o abcd) = Len(p) + Len(abcd) /\ (p \o abcd)[1] = p[1]
        BY <1>2, <1>7, <2>1, Starts
    <2> QED BY <2>1, <2>2, <1>9
<1> HIDE DEF pf
<1>11. Page(e) = pf
    BY <1>1, <1>3 DEF Page, pf, abcd, abc, ab
<1>12. BodyOf(e) = Page(e) \o Notes(e)
    BY DEF BodyOf, Page
<1>13. Range(Page(e)) = Range(p) \cup Range(a) \cup Range(b) \cup Range(c) \cup Range(d)
    BY <1>5, <1>6, <1>7, <1>8, <1>11
<1>14. /\ Range(a) = IF e.username = Blank THEN {}
                     ELSE {Field(Own("login"), FlattenNewlines(e.username))}
       /\ Range(c) = IF e.totp = Blank THEN {}
                     ELSE {Field(Own("otpauth"), FlattenNewlines(e.totp))}
    BY <1>1, LineRange
<1>15. \A x : x \in Range(b) <=> \E i \in DOMAIN Named(e) : x = FieldLine(e, i)
    BY <1>1 DEF Range
<1>16. \A x : x \in Range(d) <=> \E i \in DOMAIN e.uris : x = UriLine(e, i)
    BY <1>1 DEF Range
<1>17. \A x : x \in Range(Page(e)) <=> OnLine(e, x)
    BY <1>9, <1>13, <1>14, <1>15, <1>16 DEF OnLine
<1> QED BY <1>2, <1>8, <1>9, <1>10, <1>11, <1>12, <1>17

\* The parts of a line, and what stays of a value on it.
LEMMA LineParts ==
    ASSUME NEW k, NEW v
    PROVE  /\ First(v)[1] = "first" /\ First(v)[2] = v
           /\ Field(k, v)[1] = "field" /\ Field(k, v)[2] = k /\ Field(k, v)[3] = v
           /\ Note(v)[1] = "note" /\ Note(v)[2] = v
           /\ Own(k)[1] = k /\ FlattenNewlines(v)[2] = v[2] /\ Trim(v)[2] = v[2]
BY DEF First, Field, Note, Own, FlattenNewlines, Trim

\* A line made of a key and a value says that value.
LEMMA FieldSays ==
    ASSUME NEW x, NEW k, NEW v, x = Field(k, FlattenNewlines(v))
    PROVE  x[1] = "field" /\ x[2] = k /\ x[2][1] = k[1] /\ x[3][2] = v[2]
<1>1. PICK y : y = FlattenNewlines(v)
    OBVIOUS
<1>2. y[2] = v[2]
    BY <1>1, LineParts
<1>3. x[1] = "field" /\ x[2] = k /\ x[3] = y
    BY <1>1 DEF Field
<1> QED BY <1>2, <1>3

\* The lines with this word up to the i-th, which is one, say n.
Tells(lines, w, n, i) ==
    /\ lines[i][1] = "field" /\ lines[i][2][1] = w
    /\ \A j \in 1..i : lines[j][1] = "field" /\ lines[j][2][1] = w => lines[j][3][2] = n

\* If the first lines with a word say the same, up to one that has it, that is
\* what a lookup finds (Entry::field, entry.rs:80-86).
LEMMA LookupTells ==
    ASSUME NEW lines \in Seq(LineSet), NEW w, NEW n, NEW i \in DOMAIN lines,
           Tells(lines, w, n, i)
    PROVE  Lookup(lines, w)[2] = n
<1> DEFINE at == {j \in DOMAIN lines : lines[j][1] = "field" /\ lines[j][2][1] = w}
           line == lines[Min(at)]
<1>1. DOMAIN lines = 1..Len(lines) /\ Len(lines) \in Nat
    OBVIOUS
<1>2. at \in SUBSET Nat /\ i \in at
    BY <1>1 DEF Tells
<1>3. Min(at) \in at /\ \A j \in at : Min(at) <= j
    <2> HIDE DEF at
    <2>1. \E m \in at : \A j \in at : m <= j
        BY <1>2, LeastNatural
    <2> QED BY <2>1 DEF Min
<1>4. Min(at) \in 1..i /\ line[1] = "field" /\ line[2][1] = w
    BY <1>1, <1>2, <1>3
<1>5. line[3][2] = n
    BY <1>4 DEF Tells
<1>6. Lookup(lines, w) = IF line[2][2] = "colon" THEN <<"rest", line[3][2]>> ELSE Trim(line[3])
    BY <1>2 DEF Lookup
<1> HIDE DEF line
<1>7. <<"rest", line[3][2]>>[2] = n /\ Trim(line[3])[2] = n
    BY <1>5, LineParts
<1> QED BY <1>6, <1>7

\* The entry has this value for this word.
Bears(e, w, v) ==
    \/ w = "login" /\ v = e.username /\ v # Blank
    \/ \E i \in DOMAIN Named(e) : w = Named(e)[i][1][1] /\ v = Named(e)[i][2]
    \/ w = "otpauth" /\ v = e.totp /\ v # Blank
    \/ \E i \in DOMAIN e.uris : w = UriKey(i) /\ v = e.uris[i]

\* Each such value has a line.
LEMMA BearsLine ==
    ASSUME NEW e, NEW w, NEW v, Bears(e, w, v)
    PROVE  /\ \E x : OnLine(e, x) /\ x[1] = "field" /\ x[2][1] = w /\ x[3][2] = v[2]
           /\ v[1] = "lines" => Flattened(e)
<1>1. CASE w = "login" /\ v = e.username /\ v # Blank
    <2>1. PICK x : x = Field(Own("login"), FlattenNewlines(v))
        OBVIOUS
    <2>2. OnLine(e, x) /\ x[1] = "field" /\ x[2][1] = w /\ x[3][2] = v[2]
        BY <1>1, <2>1, LineParts DEF OnLine
    <2> QED BY <1>1, <2>2 DEF Flattened
<1>2. CASE w = "otpauth" /\ v = e.totp /\ v # Blank
    <2>1. PICK x : x = Field(Own("otpauth"), FlattenNewlines(v))
        OBVIOUS
    <2>2. OnLine(e, x) /\ x[1] = "field" /\ x[2][1] = w /\ x[3][2] = v[2]
        BY <1>2, <2>1, LineParts DEF OnLine
    <2> QED BY <1>2, <2>2 DEF Flattened
<1>3. ASSUME NEW i \in DOMAIN Named(e), w = Named(e)[i][1][1], v = Named(e)[i][2]
      PROVE  /\ \E x : OnLine(e, x) /\ x[1] = "field" /\ x[2][1] = w /\ x[3][2] = v[2]
             /\ v[1] = "lines" => Flattened(e)
    <2>1. PICK x : x = FieldLine(e, i)
        OBVIOUS
    <2>2. OnLine(e, x)
        BY <2>1 DEF OnLine
    <2>3. PICK k : k = Named(e)[i][1]
        OBVIOUS
    <2>4. x = Field(k, FlattenNewlines(v)) /\ k[1] = w
        BY <1>3, <2>1, <2>3 DEF FieldLine
    <2>5. x[1] = "field" /\ x[2][1] = w /\ x[3][2] = v[2]
        BY <2>4, FieldSays
    <2> QED BY <1>3, <2>2, <2>5 DEF Flattened
<1>4. ASSUME NEW i \in DOMAIN e.uris, w = UriKey(i), v = e.uris[i]
      PROVE  /\ \E x : OnLine(e, x) /\ x[1] = "field" /\ x[2][1] = w /\ x[3][2] = v[2]
             /\ v[1] = "lines" => Flattened(e)
    <2>1. PICK x : x = UriLine(e, i)
        OBVIOUS
    <2>2. OnLine(e, x)
        BY <2>1 DEF OnLine
    <2>3. PICK k : k = Own(w)
        OBVIOUS
    <2>4. x = Field(k, FlattenNewlines(v)) /\ k[1] = w
        BY <1>4, <2>1, <2>3 DEF UriLine, Own
    <2>5. x[1] = "field" /\ x[2][1] = w /\ x[3][2] = v[2]
        BY <2>4, FieldSays
    <2> QED BY <1>4, <2>2, <2>5 DEF Flattened
<1> QED BY <1>1, <1>2, <1>3, <1>4 DEF Bears

\* And each line with a key has one.
LEMMA LineBears ==
    ASSUME NEW e, NEW x, OnLine(e, x), x[1] = "field"
    PROVE  \E u : Bears(e, x[2][1], u) /\ x[3][2] = u[2]
<1>1. x # First(FlattenNewlines(e.password))
    BY LineParts
<1>2. CASE e.username # Blank /\ x = Field(Own("login"), FlattenNewlines(e.username))
    <2>1. x[2][1] = "login" /\ x[3][2] = e.username[2]
        BY <1>2, LineParts
    <2> QED BY <1>2, <2>1 DEF Bears
<1>3. CASE e.totp # Blank /\ x = Field(Own("otpauth"), FlattenNewlines(e.totp))
    <2>1. x[2][1] = "otpauth" /\ x[3][2] = e.totp[2]
        BY <1>3, LineParts
    <2> QED BY <1>3, <2>1 DEF Bears
<1>4. ASSUME NEW i \in DOMAIN Named(e), x = FieldLine(e, i)
      PROVE  \E u : Bears(e, x[2][1], u) /\ x[3][2] = u[2]
    <2>1. PICK k, u : k = Named(e)[i][1] /\ u = Named(e)[i][2]
        OBVIOUS
    <2>2. x = Field(k, FlattenNewlines(u))
        BY <1>4, <2>1 DEF FieldLine
    <2>3. x[2][1] = k[1] /\ x[3][2] = u[2]
        BY <2>2, FieldSays
    <2> QED BY <2>1, <2>3 DEF Bears
<1>5. ASSUME NEW i \in DOMAIN e.uris, x = UriLine(e, i)
      PROVE  \E u : Bears(e, x[2][1], u) /\ x[3][2] = u[2]
    <2>1. PICK k, u, w : k = Own(w) /\ u = e.uris[i] /\ w = UriKey(i)
        OBVIOUS
    <2>2. x = Field(k, FlattenNewlines(u)) /\ k[1] = w
        BY <1>5, <2>1 DEF UriLine, Own
    <2>3. x[2][1] = w /\ x[3][2] = u[2]
        BY <2>2, FieldSays
    <2> QED BY <2>1, <2>3 DEF Bears
<1> QED BY <1>1, <1>2, <1>3, <1>4, <1>5 DEF OnLine

\* If all that an entry has for a word is one value, a lookup finds it,
\* whatever the notes contain.
LEMMA BodyTells ==
    ASSUME NEW e, EntryShape(e), NEW w, NEW v, Bears(e, w, v),
           \A u : Bears(e, w, u) => u[2] = v[2]
    PROVE  /\ Lookup(BodyOf(e), w)[2] = v[2]
           /\ v[1] = "lines" => Flattened(e)
<1>1. PICK p, n : p = Page(e) /\ n = Notes(e)
    OBVIOUS
<1>2. BodyOf(e) = p \o n /\ p \in Seq(LineSet) /\ n \in Seq(LineSet)
          /\ \A x : x \in Range(p) <=> OnLine(e, x)
    BY <1>1, BodyLines
<1>3. PICK x : OnLine(e, x) /\ x[1] = "field" /\ x[2][1] = w /\ x[3][2] = v[2]
    BY BearsLine
<1>4. PICK i \in DOMAIN p : p[i] = x
    BY <1>2, <1>3 DEF Range
<1>5. PICK b : b = p \o n
    OBVIOUS
<1>6. DOMAIN p = 1..Len(p) /\ Len(p) \in Nat
    BY <1>2
<1>7. b \in Seq(LineSet) /\ \A j \in 1..Len(p) : j \in DOMAIN b /\ b[j] = p[j]
    BY <1>2, <1>5, Starts, ConcatProperties
<1>8. ASSUME NEW j \in 1..i, b[j][1] = "field", b[j][2][1] = w PROVE b[j][3][2] = v[2]
    <2>1. j \in 1..Len(p) /\ b[j] = p[j]
        BY <1>6, <1>7
    <2>2. OnLine(e, b[j])
        BY <1>2, <1>6, <2>1 DEF Range
    <2>3. PICK u : Bears(e, w, u) /\ b[j][3][2] = u[2]
        BY <1>8, <2>2, LineBears
    <2> QED BY <2>3
<1>9. i \in DOMAIN b /\ b[i][1] = "field" /\ b[i][2][1] = w
    BY <1>3, <1>4, <1>6, <1>7
<1>10. PICK n2 : n2 = v[2]
    OBVIOUS
<1>11. \A j \in 1..i : b[j][1] = "field" /\ b[j][2][1] = w => b[j][3][2] = n2
    BY <1>8, <1>10
<1>12. b \in Seq(LineSet) /\ i \in DOMAIN b /\ Tells(b, w, n2, i)
    BY <1>7, <1>9, <1>11 DEF Tells
<1>13. Lookup(b, w)[2] = n2
    BY <1>12, LookupTells
<1>14. v[1] = "lines" => Flattened(e)
    BY BearsLine
<1> QED BY <1>2, <1>5, <1>10, <1>13, <1>14

\* The first line is the password, and the notes are in the body.
LEMMA BodyEnds ==
    ASSUME NEW e, EntryShape(e)
    PROVE  /\ Head(BodyOf(e))[1] = "first" /\ Head(BodyOf(e))[2][2] = e.password[2]
           /\ e.notes # Blank => \E i \in DOMAIN BodyOf(e) :
                                    BodyOf(e)[i][1] = "note" /\ BodyOf(e)[i][2][2] = e.notes[2]
<1>1. PICK p, n, b : p = Page(e) /\ n = Notes(e) /\ b = BodyOf(e)
    OBVIOUS
<1>2. /\ b = p \o n /\ p \in Seq(LineSet) /\ n \in Seq(LineSet) /\ Len(p) >= 1
      /\ p[1] = First(FlattenNewlines(e.password))
    BY <1>1, BodyLines
<1>3. Len(p) \in Nat /\ Len(n) \in Nat /\ b \in Seq(LineSet) /\ Len(b) = Len(p) + Len(n)
          /\ DOMAIN b = 1..Len(b)
    <2>1. p \o n \in Seq(LineSet) /\ Len(p \o n) = Len(p) + Len(n)
        BY <1>2, ConcatProperties
    <2> QED BY <1>2, <2>1
<1>4. b[1] = p[1] /\ Head(b) = b[1]
    BY <1>2, <1>3, Starts
<1>5. Head(b)[1] = "first" /\ Head(b)[2][2] = e.password[2]
    <2>1. PICK y, x : y = FlattenNewlines(e.password) /\ x = First(y)
        OBVIOUS
    <2>2. y[2] = e.password[2] /\ x[1] = "first" /\ x[2] = y
        BY <2>1, LineParts
    <2>3. Head(b) = x
        BY <1>2, <1>4, <2>1
    <2> QED BY <2>2, <2>3
<1>6. ASSUME e.notes # Blank
      PROVE  \E i \in DOMAIN b : b[i][1] = "note" /\ b[i][2][2] = e.notes[2]
    <2>1. Len(n) >= 1 /\ n[1] = Note(e.notes)
        BY <1>1, <1>6 DEF Notes
    <2>2. b[Len(p) + 1] = n[1] /\ Len(p) + 1 \in DOMAIN b
        <3>1. Len(p) + 1 \in 1..(Len(p) + Len(n)) /\ ~ (Len(p) + 1 <= Len(p))
                  /\ Len(p) + 1 - Len(p) = 1
            BY <1>3, <2>1
        <3>2. (p \o n)[Len(p) + 1] = n[Len(p) + 1 - Len(p)]
            BY <1>2, <3>1, ConcatProperties
        <3> QED BY <1>2, <1>3, <3>1, <3>2
    <2>3. PICK v : v = e.notes
        OBVIOUS
    <2>4. n[1][1] = "note" /\ n[1][2] = v
        BY <2>1, <2>3 DEF Note
    <2> QED BY <2>2, <2>3, <2>4
<1>7. (e.notes # Blank) => \E i \in DOMAIN b : b[i][1] = "note" /\ b[i][2][2] = e.notes[2]
    BY <1>6
<1> QED BY <1>1, <1>5, <1>7
-----------------------------------------------------------------------------
(* What an item says has a place in its entry, and the other way round.    *)

\* The values of the exports are tokens.
LEMMA ValuesAreTokens ==
    /\ Blank \in Tokens /\ \A kind \in {"text", "cr", "sign", "dots"}, i \in Nat : <<kind, i>> \in Tokens
    /\ \A i \in Nat : Plain(i) \subseteq Tokens /\ Values(i) \subseteq Tokens
                         /\ Names(i) \subseteq Tokens
    /\ \A v \in Tokens : Trim(v) \in Tokens
BY DEF Plain, Values, Names, Tokens, Blank, Trim

\* A set of positions that is not empty has a greatest one.
LEMMA GreatestOf ==
    ASSUME NEW n \in Nat, NEW at \in SUBSET (1..n), at # {}
    PROVE  Max(at) \in at
<1> DEFINE below == {n - i : i \in at}
<1>1. below \in SUBSET Nat /\ below # {}
    <2>1. PICK i : i \in at
        OBVIOUS
    <2>2. n - i \in below
        BY <2>1
    <2>3. \A j \in at : n - j \in Nat
        OBVIOUS
    <2> QED BY <2>2, <2>3
<1>2. PICK d \in below : \A m \in below : d <= m
    <2> HIDE DEF below
    <2> QED BY <1>1, LeastNatural
<1>3. PICK i \in at : d = n - i
    BY <1>2
<1>4. \A j \in at : n - i <= n - j
    BY <1>2, <1>3
<1>5. \A j \in at : i >= j
    BY <1>4
<1> QED BY <1>3, <1>5 DEF Max

\* There is a pair with this key and this value.
Has(pairs, key, v) == \E j \in DOMAIN pairs : pairs[j][1] = key /\ pairs[j][2] = v

\* What is read under a key is a value that it has, if it has one.
LEMMA LastOfPairs ==
    ASSUME NEW K, NEW pairs \in Seq(K \X Tokens), NEW key
    PROVE  /\ LastOf(pairs, key) \in Tokens
           /\ LastOf(pairs, key) # Blank => Has(pairs, key, LastOf(pairs, key))
           /\ \A v : Has(pairs, key, v) /\ v # Blank => LastOf(pairs, key) # Blank
<1>1. DOMAIN pairs = 1..Len(pairs) /\ Len(pairs) \in Nat
    OBVIOUS
<1>2. \A i \in DOMAIN pairs : pairs[i] \in K \X Tokens
    OBVIOUS
<1> DEFINE at == Holding(pairs, key)
<1>3. at \in SUBSET (1..Len(pairs))
    BY <1>1 DEF Holding
<1>4. LastOf(pairs, key) = IF at = {} THEN Blank ELSE pairs[Max(at)][2]
    BY DEF LastOf
<1>5. CASE at = {}
    <2>1. LastOf(pairs, key) = Blank
        BY <1>4, <1>5
    <2> QED BY <2>1, <1>5, ValuesAreTokens DEF Has, Holding
<1>6. CASE at # {}
    <2>1. PICK m : m = Max(at)
        OBVIOUS
    <2>2. m \in at
        BY <1>1, <1>3, <1>6, <2>1, GreatestOf
    <2>3. LastOf(pairs, key) = pairs[m][2]
        BY <1>4, <1>6, <2>1
    <2>4. m \in DOMAIN pairs /\ pairs[m][1] = key /\ pairs[m][2] # Blank
        BY <2>2 DEF Holding
    <2>5. pairs[m][2] \in Tokens
        BY <1>2, <2>4
    <2> QED BY <2>3, <2>4, <2>5 DEF Has
<1> QED BY <1>5, <1>6

\* Likewise where a blank value counts.
LEMMA LastNamedPairs ==
    ASSUME NEW K, NEW pairs \in Seq(K \X Tokens), NEW key
    PROVE  /\ LastNamed(pairs, key) \in Tokens
           /\ \A v : Has(pairs, key, v) => Has(pairs, key, LastNamed(pairs, key))
<1>1. DOMAIN pairs = 1..Len(pairs) /\ Len(pairs) \in Nat
    OBVIOUS
<1>2. \A i \in DOMAIN pairs : pairs[i] \in K \X Tokens
    OBVIOUS
<1> DEFINE at == {i \in DOMAIN pairs : pairs[i][1] = key}
<1>3. at \in SUBSET (1..Len(pairs))
    BY <1>1
<1>4. LastNamed(pairs, key) = IF at = {} THEN Blank ELSE pairs[Max(at)][2]
    BY DEF LastNamed
<1>5. CASE at = {}
    <2>1. LastNamed(pairs, key) = Blank
        BY <1>4, <1>5
    <2> QED BY <2>1, <1>5, ValuesAreTokens DEF Has
<1>6. CASE at # {}
    <2>1. PICK m : m = Max(at)
        OBVIOUS
    <2>2. m \in at
        <3> HIDE DEF at
        <3> QED BY <1>1, <1>3, <1>6, <2>1, GreatestOf
    <2>3. LastNamed(pairs, key) = pairs[m][2]
        BY <1>4, <1>6, <2>1
    <2>4. m \in DOMAIN pairs /\ pairs[m][1] = key
        BY <2>2
    <2>5. pairs[m][2] \in Tokens
        BY <1>2, <2>4
    <2> QED BY <2>3, <2>4, <2>5 DEF Has
<1> QED BY <1>5, <1>6

\* The values of a column that may occur several times.
LEMMA AllOfPairs ==
    ASSUME NEW K, NEW pairs \in Seq(K \X Tokens), NEW key
    PROVE  AllOf(pairs, key) \in Seq(Tokens) /\ Len(AllOf(pairs, key)) <= Len(pairs)
<1> DEFINE T == K \X Tokens
           found == Pick(pairs, Holding(pairs, key))
           all == AllOf(pairs, key)
<1>1. found \in Seq(T) /\ \E h : Picks(found, h, pairs, Holding(pairs, key), Len(pairs))
    BY PickShape
<1>2. Len(found) <= Len(pairs)
    BY <1>1 DEF Picks
<1>3. all = [i \in DOMAIN found |-> found[i][2]]
    BY DEF AllOf
<1> HIDE DEF found, all
<1>4. DOMAIN found = 1..Len(found) /\ Len(found) \in Nat /\ \A i \in 1..Len(found) : found[i] \in T
    BY <1>1
<1>5. all \in Seq(Tokens) /\ Len(all) = Len(found)
    BY <1>3, <1>4
<1> QED BY <1>2, <1>5 DEF all

\* The other names are names of fields.
OthersAreFields(K, known) == K \ known \subseteq FieldKeys

\* The fields are the pairs with other names.
FieldsOf(fields, pairs, known) ==
    /\ fields \in Seq(FieldKeys \X Tokens)
    /\ \A j \in DOMAIN pairs : pairs[j][1] \notin known /\ pairs[j][2] # Blank
                                  => \E i \in DOMAIN fields : fields[i] = pairs[j]
    /\ \A i \in DOMAIN fields : \E j \in DOMAIN pairs :
          fields[i] = pairs[j] /\ pairs[j][1] \notin known /\ pairs[j][2] # Blank

\* The pairs whose key means nothing to the importer become custom fields.
LEMMA CustomPairs ==
    ASSUME NEW K, NEW pairs \in Seq(K \X Tokens), NEW known, OthersAreFields(K, known)
    PROVE  FieldsOf(Custom(pairs, known), pairs, known)
<1> DEFINE T == K \X Tokens
           at == {i \in DOMAIN pairs : pairs[i][1] \notin known /\ pairs[i][2] # Blank}
           custom == Custom(pairs, known)
<1>0. custom = Pick(pairs, at)
    BY DEF Custom
<1> HIDE DEF custom
<1>1. custom \in Seq(T) /\ \E h : Picks(custom, h, pairs, at, Len(pairs))
    <2>1. pairs \in Seq(T)
        OBVIOUS
    <2> HIDE DEF at, T
    <2> QED BY <2>1, <1>0, PickShape
<1>2. PICK h : Picks(custom, h, pairs, at, Len(pairs))
    BY <1>1
<1>3. /\ DOMAIN custom = 1..Len(custom) /\ Len(custom) \in Nat
      /\ DOMAIN pairs = 1..Len(pairs) /\ Len(pairs) \in Nat
    BY <1>1
<1>4. \A i \in 1..Len(custom) : h[i] \in at /\ custom[i] = pairs[h[i]]
    BY <1>2 DEF Picks
<1>5. ASSUME NEW i \in 1..Len(custom) PROVE custom[i] \in FieldKeys \X Tokens
    <2>1. custom[i] \in T /\ custom[i][1] \notin known
        BY <1>1, <1>4
    <2> QED BY <2>1 DEF OthersAreFields
<1>6. custom \in Seq(FieldKeys \X Tokens)
    BY <1>1, <1>3, <1>5
<1>7. ASSUME NEW j \in DOMAIN pairs, pairs[j][1] \notin known, pairs[j][2] # Blank
      PROVE  \E i \in DOMAIN custom : custom[i] = pairs[j]
    <2>1. j \in at \cap (1..Len(pairs))
        BY <1>7, <1>3
    <2>2. PICK i \in 1..Len(custom) : h[i] = j
        BY <2>1, <1>2 DEF Picks
    <2> QED BY <2>2, <1>3, <1>4
<1>8. \A i \in DOMAIN custom : h[i] \in DOMAIN pairs /\ custom[i] = pairs[h[i]]
          /\ pairs[h[i]][1] \notin known /\ pairs[h[i]][2] # Blank
    BY <1>3, <1>4
<1> QED BY <1>6, <1>7, <1>8 DEF custom, FieldsOf
\* What the parts of an item have to do with its entry: every value under a
\* word is one of the parts, and every part that is not blank is in its place.
Carries(P, e) ==
    /\ \A p \in P : p[1] \in {AtFirst, AtNotes} \/ p[1] = AtKey(p[1][2])
    /\ \A w, u : Bears(e, w, u) => w # "" /\ <<AtKey(w), u>> \in P
    /\ \A p \in P : p[1] = AtKey(p[1][2]) /\ p[1] # AtKey("") /\ p[2] # Blank
                        => \E u : Bears(e, p[1][2], u)
    /\ \A p \in P : p[1] = AtFirst => <<AtFirst, e.password>> \in P
    /\ \A p \in P : p[1] = AtNotes /\ p[2] # Blank
                        => e.notes # Blank /\ <<AtNotes, e.notes>> \in P
    /\ \A p \in P : p[1] = AtKey("") /\ p[2] # Blank
                        => \E i \in DOMAIN e.fields : e.fields[i][1][1] = ""

\* The places.
LEMMA KeyPlaces ==
    /\ AtFirst # AtNotes /\ \A w : AtKey(w) \notin {AtFirst, AtNotes} /\ AtKey(w)[2] = w
    /\ \A k : k[2] # "own" => Place(k) = AtKey(k[1]) /\ k \notin Elsewhere
    /\ \A w : Own(w)[2] = "own" /\ Own(w)[1] = w
<1>1. AtFirst # AtNotes
    BY DEF AtFirst, AtNotes
<1>2. \A w : AtKey(w)[1] = "key" /\ AtKey(w)[2] = w
    BY DEF AtKey
<1>3. AtFirst[1] = "first" /\ AtNotes[1] = "notes"
    BY DEF AtFirst, AtNotes
<1>4. \A w : AtKey(w) # AtFirst /\ AtKey(w) # AtNotes
    BY <1>2, <1>3
<1>5. \A w : Own(w)[2] = "own" /\ Own(w)[1] = w
    BY DEF Own
<1>6. ASSUME NEW k, k[2] # "own" PROVE Place(k) = AtKey(k[1]) /\ k \notin Elsewhere
    <2>1. \A w : k # Own(w)
        BY <1>5, <1>6
    <2> QED BY <2>1 DEF Place, Elsewhere
<1> QED BY <1>1, <1>2, <1>4, <1>5, <1>6

\* The places of the names that the importers know.
LEMMA OwnPlaces ==
    /\ \A w \in {"password", "Password"} : Place(Own(w)) = AtFirst /\ Own(w) \notin Elsewhere
    /\ \A w \in {"notes", "Notes"} : Place(Own(w)) = AtNotes /\ Own(w) \notin Elsewhere
    /\ \A w \in {"username", "UserName"} :
          Place(Own(w)) = AtKey("login") /\ Own(w) \notin Elsewhere
    /\ \A w \in {"totp", "otp"} : Place(Own(w)) = AtKey("otpauth") /\ Own(w) \notin Elsewhere
    /\ Place(Own("URL")) = AtKey("url") /\ Own("URL") \notin Elsewhere
BY DEF Place, Own, Elsewhere

\* The parts that pairs make.
LEMMA PartsOfPairs ==
    ASSUME NEW pairs
    PROVE  /\ \A k, v : Has(pairs, k, v) /\ k \notin Elsewhere
                           /\ (v # Blank \/ k = Own("Password"))
                 => <<Place(k), v>> \in PairParts(pairs)
           /\ \A p \in PairParts(pairs) : \E k, v :
                 /\ p = <<Place(k), v>> /\ p[1] = Place(k) /\ p[2] = v
                 /\ Has(pairs, k, v) /\ k \notin Elsewhere
                 /\ v # Blank \/ k = Own("Password")
<1>1. ASSUME NEW k, NEW v, Has(pairs, k, v), k \notin Elsewhere, v # Blank \/ k = Own("Password")
      PROVE  <<Place(k), v>> \in PairParts(pairs)
    <2>1. PICK j \in DOMAIN pairs : pairs[j][1] = k /\ pairs[j][2] = v
        BY <1>1 DEF Has
    <2> QED BY <1>1, <2>1 DEF PairParts
<1>2. ASSUME NEW p \in PairParts(pairs)
      PROVE  \E k, v : /\ p = <<Place(k), v>> /\ p[1] = Place(k) /\ p[2] = v
                       /\ Has(pairs, k, v) /\ k \notin Elsewhere
                       /\ v # Blank \/ k = Own("Password")
    <2>1. PICK j \in DOMAIN pairs : /\ p = <<Place(pairs[j][1]), pairs[j][2]>>
                                    /\ pairs[j][1] \notin Elsewhere
                                    /\ pairs[j][2] # Blank \/ pairs[j][1] = Own("Password")
        BY DEF PairParts
    <2>2. PICK k, v : k = pairs[j][1] /\ v = pairs[j][2]
        OBVIOUS
    <2>3. p = <<Place(k), v>>
        BY <2>1, <2>2
    <2> QED BY <2>1, <2>2, <2>3 DEF Has
<1> QED BY <1>1, <1>2

\* What the entry of a row or of a KeePass entry takes from its pairs: of the
\* names that the importer knows these, and the others as custom fields.
Reads(e, pairs, known, first, notes, login, otp) ==
    /\ Place(first) = AtFirst /\ Place(notes) = AtNotes
    /\ Place(login) = AtKey("login") /\ Place(otp) = AtKey("otpauth")
    /\ {first, notes, login, otp} \cap Elsewhere = {}
    /\ \A k, v : Has(pairs, k, v) =>
          /\ k \notin known <=> k[2] # "own"
          /\ k \in known => k \in Elsewhere \cup {first, notes, login, otp, Own("URL")}
          /\ k # Own("URL") \/ v = Blank \/ 1 \in DOMAIN e.uris
    /\ \A v : Has(pairs, first, v) /\ (v # Blank \/ first = Own("Password"))
                 => <<AtFirst, e.password>> \in PairParts(pairs)
    /\ e.username = LastOf(pairs, login) /\ e.totp = LastOf(pairs, otp)
    /\ e.notes = LastOf(pairs, notes) /\ e.fields = Custom(pairs, known)

\* The keys of the URIs.
LEMMA UriWords == UriKey(1) = "url" /\ \A i \in 1..3 : UriKey(i) # ""
<1>1. UriKey(1) = "url" /\ UriKey(2) = "url-2" /\ UriKey(3) = "url-3"
    BY DEF UriKey
<1>2. \A i \in 1..3 : i = 1 \/ i = 2 \/ i = 3
    OBVIOUS
<1> QED BY <1>1, <1>2

\* The parts that URIs make.
LEMMA PartsOfUris ==
    ASSUME NEW uris
    PROVE  /\ \A i \in DOMAIN uris : <<AtKey(UriKey(i)), uris[i]>> \in UriParts(uris)
           /\ \A p \in UriParts(uris) : \E i \in DOMAIN uris :
                 p = <<AtKey(UriKey(i)), uris[i]>> /\ p[1] = AtKey(UriKey(i)) /\ p[2] = uris[i]
<1>1. \A i \in DOMAIN uris : <<AtKey(UriKey(i)), uris[i]>> \in UriParts(uris)
    BY DEF UriParts
<1>2. ASSUME NEW p \in UriParts(uris)
      PROVE  \E i \in DOMAIN uris :
                 p = <<AtKey(UriKey(i)), uris[i]>> /\ p[1] = AtKey(UriKey(i)) /\ p[2] = uris[i]
    <2>1. PICK i \in DOMAIN uris : p = <<AtKey(UriKey(i)), uris[i]>>
        BY DEF UriParts
    <2> QED BY <2>1
<1> QED BY <1>1, <1>2

\* Every value under a word in the entry is one of the parts of the pairs.
LEMMA PairsBear ==
    ASSUME NEW K, NEW pairs \in Seq(K \X Tokens), NEW e, NEW known, NEW first, NEW notes,
           NEW login, NEW otp, Reads(e, pairs, known, first, notes, login, otp),
           EntryShape(e), OthersAreFields(K, known), NEW w, NEW u, Bears(e, w, u)
    PROVE  w # "" /\ <<AtKey(w), u>> \in PairParts(pairs) \cup UriParts(e.uris)
<1>1. CASE w = "login" /\ u = e.username /\ u # Blank
    <2>1. Has(pairs, login, u)
        BY <1>1, LastOfPairs DEF Reads
    <2>2. <<Place(login), u>> \in PairParts(pairs)
        BY <1>1, <2>1, PartsOfPairs DEF Reads
    <2> QED BY <1>1, <2>2 DEF Reads
<1>2. CASE w = "otpauth" /\ u = e.totp /\ u # Blank
    <2>1. Has(pairs, otp, u)
        BY <1>2, LastOfPairs DEF Reads
    <2>2. <<Place(otp), u>> \in PairParts(pairs)
        BY <1>2, <2>1, PartsOfPairs DEF Reads
    <2> QED BY <1>2, <2>2 DEF Reads
<1>3. ASSUME NEW i \in DOMAIN Named(e), w = Named(e)[i][1][1], u = Named(e)[i][2]
      PROVE  w # "" /\ <<AtKey(w), u>> \in PairParts(pairs)
    <2>1. PICK x \in DOMAIN e.fields : Named(e)[i] = e.fields[x] /\ e.fields[x][1][1] # ""
        BY NamedFields
    <2>2. FieldsOf(e.fields, pairs, known)
        BY CustomPairs DEF Reads
    <2>3. PICK j \in DOMAIN pairs : /\ e.fields[x] = pairs[j] /\ pairs[j][1] \notin known
                                    /\ pairs[j][2] # Blank
        BY <2>2 DEF FieldsOf
    <2>4. PICK k : k = pairs[j][1]
        OBVIOUS
    <2>5. k \notin known /\ u # Blank /\ Has(pairs, k, u) /\ w = k[1] /\ w # ""
        BY <1>3, <2>1, <2>3, <2>4 DEF Has
    <2>6. Place(k) = AtKey(w) /\ k \notin Elsewhere
        BY <2>5, KeyPlaces DEF Reads
    <2>7. <<Place(k), u>> \in PairParts(pairs)
        BY <2>5, <2>6, PartsOfPairs
    <2> QED BY <2>5, <2>6, <2>7
<1>4. ASSUME NEW i \in DOMAIN e.uris, w = UriKey(i), u = e.uris[i]
      PROVE  w # "" /\ <<AtKey(w), u>> \in UriParts(e.uris)
    <2>1. i \in 1..3
        BY DEF EntryShape
    <2> QED BY <1>4, <2>1, UriWords, PartsOfUris
<1> QED BY <1>1, <1>2, <1>3, <1>4 DEF Bears

\* Every part of the pairs is in its place in the entry.
LEMMA PairsCarry ==
    ASSUME NEW K, NEW pairs \in Seq(K \X Tokens), NEW e, NEW known, NEW first, NEW notes,
           NEW login, NEW otp, Reads(e, pairs, known, first, notes, login, otp),
           EntryShape(e), OthersAreFields(K, known)
    PROVE  Carries(PairParts(pairs) \cup UriParts(e.uris), e)
<1> DEFINE P == PairParts(pairs) \cup UriParts(e.uris)
<1>1. \A w, u : Bears(e, w, u) => w # "" /\ <<AtKey(w), u>> \in P
    BY PairsBear
<1>2. ASSUME NEW p \in UriParts(e.uris)
      PROVE  p[1] = AtKey(p[1][2]) /\ p[1] # AtKey("") /\ Bears(e, p[1][2], p[2])
    <2>1. PICK i \in DOMAIN e.uris : p[1] = AtKey(UriKey(i)) /\ p[2] = e.uris[i]
        BY PartsOfUris
    <2>2. i \in 1..3
        BY DEF EntryShape
    <2>3. p[1][2] = UriKey(i) /\ UriKey(i) # ""
        BY <2>1, <2>2, KeyPlaces, UriWords
    <2> QED BY <2>1, <2>3, KeyPlaces DEF Bears
<1>3. ASSUME NEW p \in PairParts(pairs)
      PROVE  /\ p[1] \in {AtFirst, AtNotes} \/ p[1] = AtKey(p[1][2])
             /\ p[1] = AtKey(p[1][2]) /\ p[1] # AtKey("") /\ p[2] # Blank
                   => \E u : Bears(e, p[1][2], u)
             /\ p[1] = AtFirst => <<AtFirst, e.password>> \in P
             /\ p[1] = AtNotes /\ p[2] # Blank => e.notes # Blank /\ <<AtNotes, e.notes>> \in P
             /\ p[1] = AtKey("") /\ p[2] # Blank
                   => \E i \in DOMAIN e.fields : e.fields[i][1][1] = ""
    <2>1. PICK k, v : /\ p[1] = Place(k) /\ p[2] = v /\ Has(pairs, k, v) /\ k \notin Elsewhere
                      /\ v # Blank \/ k = Own("Password")
        BY PartsOfPairs
    <2>2. CASE k = first
        <3>1. p[1] = AtFirst /\ <<AtFirst, e.password>> \in P
            BY <2>1, <2>2 DEF Reads
        <3> QED BY <3>1, KeyPlaces
    <2>3. CASE k = notes
        <3>1. p[1] = AtNotes /\ (v # Blank => e.notes # Blank)
            BY <2>1, <2>3, LastOfPairs DEF Reads
        <3>2. e.notes # Blank => Has(pairs, notes, e.notes)
            BY LastOfPairs DEF Reads
        <3>3. e.notes # Blank => <<AtNotes, e.notes>> \in PairParts(pairs)
            BY <2>1, <2>3, <3>2, PartsOfPairs DEF Reads
        <3> QED BY <2>1, <3>1, <3>3, KeyPlaces
    <2>4. CASE k = login
        <3>1. p[1] = AtKey("login") /\ p[1][2] = "login"
            BY <2>1, <2>4, KeyPlaces DEF Reads
        <3>2. v # Blank => e.username # Blank
            BY <2>1, <2>4, LastOfPairs DEF Reads
        <3>3. v # Blank => Bears(e, "login", e.username)
            BY <3>2 DEF Bears
        <3>4. AtKey("login") # AtKey("")
            BY KeyPlaces
        <3> QED BY <2>1, <3>1, <3>3, <3>4, KeyPlaces
    <2>5. CASE k = otp
        <3>1. p[1] = AtKey("otpauth") /\ p[1][2] = "otpauth"
            BY <2>1, <2>5, KeyPlaces DEF Reads
        <3>2. v # Blank => e.totp # Blank
            BY <2>1, <2>5, LastOfPairs DEF Reads
        <3>3. v # Blank => Bears(e, "otpauth", e.totp)
            BY <3>2 DEF Bears
        <3>4. AtKey("otpauth") # AtKey("")
            BY KeyPlaces
        <3> QED BY <2>1, <3>1, <3>3, <3>4, KeyPlaces
    <2>6. CASE k = Own("URL")
        <3>1. p[1] = AtKey("url") /\ p[1][2] = "url"
            BY <2>1, <2>6, KeyPlaces, OwnPlaces
        <3>2. v # Blank => 1 \in DOMAIN e.uris
            BY <2>1, <2>6 DEF Reads
        <3>3. v # Blank => Bears(e, "url", e.uris[1])
            BY <3>2, UriWords DEF Bears
        <3>4. AtKey("url") # AtKey("")
            BY KeyPlaces
        <3> QED BY <2>1, <3>1, <3>3, <3>4, KeyPlaces
    <2>7. CASE k \notin known
        <3>1. k[2] # "own" /\ p[1] = AtKey(k[1]) /\ p[1][2] = k[1]
            BY <2>1, <2>7, KeyPlaces DEF Reads
        <3>2. v # Blank
            BY <2>1, <3>1, KeyPlaces
        <3>3. PICK j \in DOMAIN pairs : pairs[j][1] = k /\ pairs[j][2] = v
            BY <2>1 DEF Has
        <3>7. FieldsOf(e.fields, pairs, known)
            BY CustomPairs DEF Reads
        <3>4. PICK i \in DOMAIN e.fields : e.fields[i] = pairs[j]
            BY <2>7, <3>2, <3>3, <3>7 DEF FieldsOf
        <3>5. CASE k[1] = ""
            <4>1. e.fields[i][1][1] = ""
                BY <3>3, <3>4, <3>5
            <4> QED BY <3>1, <3>5, <4>1, KeyPlaces
        <3>6. CASE k[1] # ""
            <4>4. \A n \in DOMAIN e.fields :
                     e.fields[n][1][1] # "" => \E m \in DOMAIN Named(e) : Named(e)[m] = e.fields[n]
                BY NamedFields
            <4>1. PICK m \in DOMAIN Named(e) : Named(e)[m] = e.fields[i]
                BY <3>3, <3>4, <3>6, <4>4
            <4>2. Bears(e, k[1], v)
                BY <3>3, <3>4, <4>1 DEF Bears
            <4>3. AtKey(k[1]) # AtKey("")
                BY <3>6, KeyPlaces
            <4> QED BY <3>1, <4>2, <4>3, KeyPlaces
        <3> QED BY <3>5, <3>6
    <2>8. k \in known => k \in {first, notes, login, otp, Own("URL")}
        BY <2>1 DEF Reads
    <2> QED BY <2>2, <2>3, <2>4, <2>5, <2>6, <2>7, <2>8
<1> HIDE DEF P
<1>4. \A p \in P : p \in PairParts(pairs) \/ p \in UriParts(e.uris)
    BY DEF P
<1>6. \A w : AtKey(w) # AtFirst /\ AtKey(w) # AtNotes
    BY KeyPlaces
<1>7. ASSUME NEW p \in P
      PROVE  /\ p[1] \in {AtFirst, AtNotes} \/ p[1] = AtKey(p[1][2])
             /\ p[1] = AtKey(p[1][2]) /\ p[1] # AtKey("") /\ p[2] # Blank
                   => \E u : Bears(e, p[1][2], u)
             /\ p[1] = AtFirst => <<AtFirst, e.password>> \in P
             /\ p[1] = AtNotes /\ p[2] # Blank => e.notes # Blank /\ <<AtNotes, e.notes>> \in P
             /\ p[1] = AtKey("") /\ p[2] # Blank
                   => \E i \in DOMAIN e.fields : e.fields[i][1][1] = ""
    <2>1. CASE p \in PairParts(pairs)
        BY <1>3, <2>1
    <2>2. CASE p \in UriParts(e.uris)
        <3>1. p[1] = AtKey(p[1][2]) /\ p[1] # AtKey("") /\ Bears(e, p[1][2], p[2])
            BY <1>2, <2>2
        <3>2. p[1] # AtFirst /\ p[1] # AtNotes
            BY <1>6, <3>1
        <3> QED BY <3>1, <3>2
    <2> QED BY <1>4, <2>1, <2>2
<1>5. Carries(P, e)
    BY <1>1, <1>7 DEF Carries
<1> QED BY <1>5 DEF P
-----------------------------------------------------------------------------
(* The items of each format.                                               *)

RowKeys == KnownRoles \cup CustomRoles

\* The names of columns and strings that the importers know are their own.
LEMMA KnownNames ==
    /\ \A k \in RowKeys : k \in KnownRoles <=> k[2] = "own"
    /\ \A k \in KeepassKeys : k \in KnownKeys <=> k[2] = "own"
    /\ OthersAreFields(RowKeys, KnownRoles) /\ OthersAreFields(KeepassKeys, KnownKeys)
    /\ \A k \in CustomKeys : k \in FieldKeys /\ k[2] # "own" /\ k[1] # ""
<1>1. \A w : Own(w)[2] = "own"
    BY DEF Own
<1>2. \A k \in CustomKeys \cup {<<"", "other">>} : k \in FieldKeys /\ k[2] # "own"
    <2>1. <<"", "other">> \in FieldKeys /\ <<"", "other">>[2] = "other"
        BY DEF FieldKeys
    <2>2. \A k \in CustomKeys : k \in FieldKeys /\ k[2] # "own"
        BY DEF CustomKeys, FieldKeys
    <2> QED BY <2>1, <2>2
<1>3. \A k \in CustomKeys : k[1] # ""
    BY ForeignImportAssumption DEF CustomKeys
<1>4. CustomRoles \subseteq CustomKeys
    BY DEF CustomRoles
<1>5. \A k \in KnownRoles : k[2] = "own"
    BY <1>1 DEF KnownRoles, PlainRoles
<1>6. \A k \in KnownKeys : k[2] = "own"
    BY <1>1 DEF KnownKeys
<1>7. \A k \in KeepassKeys : k \in KnownKeys \/ k \in CustomKeys \cup {<<"", "other">>}
    BY DEF KeepassKeys
<1>8. OthersAreFields(RowKeys, KnownRoles)
    BY <1>2, <1>4 DEF RowKeys, OthersAreFields
<1>9. OthersAreFields(KeepassKeys, KnownKeys)
    BY <1>2, <1>7 DEF OthersAreFields
<1>10. \A k \in RowKeys : k \in KnownRoles <=> k[2] = "own"
    BY <1>2, <1>4, <1>5 DEF RowKeys
<1>11. \A k \in KeepassKeys : k \in KnownKeys <=> k[2] = "own"
    BY <1>2, <1>6, <1>7
<1> QED BY <1>2, <1>3, <1>8, <1>9, <1>10, <1>11

\* The columns of a row.
LEMMA CsvColumns ==
    ASSUME NEW it \in CsvItems
    PROVE  Trimmed(it) \in Seq(RowKeys \X Tokens) /\ Len(Trimmed(it)) = 3
<1>1. it.columns \in (({Own("name"), Own("folder")} \X Names(1))
                         \cup ((PlainRoles \cup CustomRoles) \X Values(1)))
                      \X ({Own("password")} \X (Values(2) \cup {<<"cr", 2>>}))
                      \X ((KnownRoles \cup CustomRoles) \X Plain(3))
    BY DEF CsvItems
<1>2. PICK c1, c2, c3 :
         /\ it.columns = <<c1, c2, c3>>
         /\ c1 \in (({Own("name"), Own("folder")} \X Names(1))
                      \cup ((PlainRoles \cup CustomRoles) \X Values(1)))
         /\ c2 \in {Own("password")} \X (Values(2) \cup {<<"cr", 2>>})
         /\ c3 \in (KnownRoles \cup CustomRoles) \X Plain(3)
    BY <1>1
<1>3. {Own("password"), Own("name"), Own("folder")} \subseteq RowKeys /\ PlainRoles \subseteq RowKeys
          /\ CustomRoles \subseteq RowKeys /\ KnownRoles \subseteq RowKeys
    BY DEF RowKeys, KnownRoles, PlainRoles
<1>4. /\ Names(1) \subseteq Tokens /\ Values(1) \subseteq Tokens /\ Values(2) \subseteq Tokens
      /\ Plain(3) \subseteq Tokens /\ <<"cr", 2>> \in Tokens
    BY ValuesAreTokens
<1>5. c1 \in RowKeys \X Tokens
    BY <1>2, <1>3, <1>4
<1>6. c2 \in RowKeys \X Tokens
    BY <1>2, <1>3, <1>4
<1>7. c3 \in RowKeys \X Tokens
    BY <1>2, <1>3, <1>4
<1> HIDE DEF RowKeys
<1>8. it.columns \in Seq(RowKeys \X Tokens) /\ Len(it.columns) = 3
    BY <1>2, <1>5, <1>6, <1>7
<1>9. PICK cols : cols = it.columns
    OBVIOUS
<1>10. cols \in Seq(RowKeys \X Tokens) /\ DOMAIN cols = 1..3
    BY <1>8, <1>9
<1>11. \A i \in 1..3 : <<cols[i][1], Trim(cols[i][2])>> \in RowKeys \X Tokens
    <2>3. \A i \in DOMAIN cols : cols[i] \in RowKeys \X Tokens
        BY <1>8, <1>9
    <2>1. \A i \in 1..3 : cols[i] \in RowKeys \X Tokens
        BY <1>10, <2>3
    <2>2. \A i \in 1..3 : cols[i][1] \in RowKeys /\ cols[i][2] \in Tokens
        BY <2>1
    <2> QED BY <2>2, ValuesAreTokens
<1>12. Trimmed(it) = [i \in 1..3 |-> <<cols[i][1], Trim(cols[i][2])>>]
    BY <1>9, <1>10 DEF Trimmed
<1> QED BY <1>11, <1>12

\* What pairs with such keys have.
LEMMA HasKey ==
    ASSUME NEW K, NEW pairs \in Seq(K \X Tokens), NEW k, NEW v, Has(pairs, k, v)
    PROVE  k \in K /\ v \in Tokens
<1>1. PICK j \in DOMAIN pairs : pairs[j][1] = k /\ pairs[j][2] = v
    BY DEF Has
<1>2. pairs[j] \in K \X Tokens
    OBVIOUS
<1> QED BY <1>1, <1>2

\* Everything a row says is in its entry (csv.rs, build_entry).
LEMMA CsvCarries ==
    ASSUME NEW it \in CsvItems
    PROVE  EntryShape(CsvMakes(it)) /\ Carries(ItemParts(it), CsvMakes(it))
<1>0. PICK cols, e : cols = Trimmed(it) /\ e = CsvMakes(it)
    OBVIOUS
<1>1. cols \in Seq(RowKeys \X Tokens) /\ Len(cols) = 3 /\ it.format = "csv"
    <2>1. it.format = "csv"
        BY DEF CsvItems
    <2> QED BY <1>0, <2>1, CsvColumns
<1>2. /\ e.password = LastOf(cols, Own("password")) /\ e.username = LastOf(cols, Own("username"))
      /\ e.fields = Custom(cols, KnownRoles) /\ e.totp = LastOf(cols, Own("totp"))
      /\ e.notes = LastOf(cols, Own("notes")) /\ e.uris = AllOf(cols, Own("url"))
    BY <1>0 DEF CsvMakes
<1>3. cols \in Seq(RowKeys \X Tokens) /\ OthersAreFields(RowKeys, KnownRoles)
    BY <1>1, KnownNames
<1>4. \A key : LastOf(cols, key) \in Tokens
    BY <1>3, LastOfPairs
<1>5. FieldsOf(e.fields, cols, KnownRoles)
    BY <1>2, <1>3, CustomPairs
<1>6. e.uris \in Seq(Tokens) /\ Len(e.uris) <= 3
    BY <1>1, <1>2, <1>3, AllOfPairs
<1>7. EntryShape(e)
    BY <1>2, <1>4, <1>5, <1>6 DEF EntryShape, FieldsOf
<1>8. Reads(e, cols, KnownRoles, Own("password"), Own("notes"), Own("username"), Own("totp"))
    <2>1. /\ Place(Own("password")) = AtFirst /\ Place(Own("notes")) = AtNotes
          /\ Place(Own("username")) = AtKey("login") /\ Place(Own("totp")) = AtKey("otpauth")
          /\ {Own("password"), Own("notes"), Own("username"), Own("totp")} \cap Elsewhere = {}
        BY OwnPlaces
    <2>2. ASSUME NEW k, NEW v, Has(cols, k, v)
          PROVE  /\ k \notin KnownRoles <=> k[2] # "own"
                 /\ k \in KnownRoles => k \in Elsewhere \cup {Own("password"), Own("notes"),
                                                   Own("username"), Own("totp"), Own("URL")}
                 /\ k # Own("URL")
        <3>1. k \in RowKeys
            BY <1>3, <2>2, HasKey
        <3>2. k \in KnownRoles <=> k[2] = "own"
            BY <3>1, KnownNames
        <3>3. KnownRoles \subseteq Elsewhere \cup {Own("password"), Own("notes"),
                                         Own("username"), Own("totp"), Own("URL")}
            BY DEF KnownRoles, PlainRoles, Elsewhere
        <3>4. Own("URL") \notin KnownRoles /\ Own("URL")[2] = "own"
            BY DEF KnownRoles, PlainRoles, Own
        <3> QED BY <3>2, <3>3, <3>4
    <2>3. ASSUME NEW v, Has(cols, Own("password"), v), v # Blank \/ Own("password") = Own("Password")
          PROVE  <<AtFirst, e.password>> \in PairParts(cols)
        <3>1. Own("password") # Own("Password")
            BY DEF Own
        <3>2. e.password # Blank
            BY <1>2, <1>3, <2>3, <3>1, LastOfPairs
        <3>3. Has(cols, Own("password"), e.password)
            BY <1>2, <1>3, <3>2, LastOfPairs
        <3> QED BY <2>1, <3>2, <3>3, PartsOfPairs
    <2> QED BY <1>2, <2>1, <2>2, <2>3 DEF Reads
<1>9. Carries(PairParts(cols) \cup UriParts(e.uris), e)
    BY <1>3, <1>7, <1>8, PairsCarry
<1>10. ItemParts(it) = PairParts(cols) \cup UriParts(e.uris)
    BY <1>0, <1>1, <1>2 DEF ItemParts
<1> QED BY <1>0, <1>7, <1>9, <1>10

\* The strings of an entry.
LEMMA KeepassStrings ==
    ASSUME NEW it \in KeepassItems
    PROVE  it.strings \in Seq(KeepassKeys \X Tokens)
<1>1. it.strings \in (KeepassKeys \X Values(1)) \X (KeepassKeys \X Plain(2))
                        \X ({Own("Title")} \X (Plain(3) \cup {<<"sign", 3>>}))
    BY DEF KeepassItems
<1>2. PICK c1, c2, c3 :
         /\ it.strings = <<c1, c2, c3>>
         /\ c1 \in KeepassKeys \X Values(1) /\ c2 \in KeepassKeys \X Plain(2)
         /\ c3 \in {Own("Title")} \X (Plain(3) \cup {<<"sign", 3>>})
    BY <1>1
<1>3. Own("Title") \in KeepassKeys
    BY DEF KeepassKeys, KnownKeys
<1>4. /\ Values(1) \subseteq Tokens /\ Plain(2) \subseteq Tokens /\ Plain(3) \subseteq Tokens
      /\ <<"sign", 3>> \in Tokens
    BY ValuesAreTokens
<1>5. c1 \in KeepassKeys \X Tokens
    BY <1>2, <1>4
<1>6. c2 \in KeepassKeys \X Tokens
    BY <1>2, <1>4
<1>7. c3 \in KeepassKeys \X Tokens
    BY <1>2, <1>3, <1>4
<1> QED BY <1>2, <1>5, <1>6, <1>7

\* Everything a KeePass entry says is in the entry it makes (keepass.rs,
\* build_entry).
LEMMA KeepassCarries ==
    ASSUME NEW it \in KeepassItems
    PROVE  EntryShape(KeepassMakes(it)) /\ Carries(ItemParts(it), KeepassMakes(it))
<1>0. PICK pairs, e : pairs = it.strings /\ e = KeepassMakes(it)
    OBVIOUS
<1>1. pairs \in Seq(KeepassKeys \X Tokens) /\ it.format = "keepass"
    <2>1. it.format = "keepass"
        BY DEF KeepassItems
    <2> QED BY <1>0, <2>1, KeepassStrings
<1>2. /\ e.password = LastNamed(pairs, Own("Password"))
      /\ e.username = LastOf(pairs, Own("UserName")) /\ e.fields = Custom(pairs, KnownKeys)
      /\ e.totp = LastOf(pairs, Own("otp")) /\ e.notes = LastOf(pairs, Own("Notes"))
      /\ e.uris = Some(LastOf(pairs, Own("URL")))
    BY <1>0 DEF KeepassMakes
<1>3. pairs \in Seq(KeepassKeys \X Tokens) /\ OthersAreFields(KeepassKeys, KnownKeys)
    BY <1>1, KnownNames
<1>4. \A key : LastOf(pairs, key) \in Tokens /\ LastNamed(pairs, key) \in Tokens
    BY <1>3, LastOfPairs, LastNamedPairs
<1>5. FieldsOf(e.fields, pairs, KnownKeys)
    BY <1>2, <1>3, CustomPairs
<1>11. PICK v : v = LastOf(pairs, Own("URL"))
    OBVIOUS
<1>12. /\ v \in Tokens
       /\ v = Blank => e.uris = <<>>
       /\ v # Blank => e.uris = <<v>>
    BY <1>2, <1>4, <1>11 DEF Some
<1>6. e.uris \in Seq(Tokens) /\ Len(e.uris) <= 3
    <2>2. PICK uris : uris = e.uris
        OBVIOUS
    <2>3. uris = <<>> \/ uris = <<v>>
        BY <1>12, <2>2
    <2>4. CASE uris = <<>>
        <3>1. uris \in Seq(Tokens) /\ Len(uris) = 0
            BY <2>4
        <3> QED BY <2>2, <3>1
    <2>5. CASE uris = <<v>>
        <3>1. uris \in Seq(Tokens) /\ Len(uris) = 1
            BY <1>12, <2>5
        <3> QED BY <2>2, <3>1
    <2> QED BY <2>3, <2>4, <2>5
<1>7. EntryShape(e)
    BY <1>2, <1>4, <1>5, <1>6 DEF EntryShape, FieldsOf
<1>8. Reads(e, pairs, KnownKeys, Own("Password"), Own("Notes"), Own("UserName"), Own("otp"))
    <2>1. /\ Place(Own("Password")) = AtFirst /\ Place(Own("Notes")) = AtNotes
          /\ Place(Own("UserName")) = AtKey("login") /\ Place(Own("otp")) = AtKey("otpauth")
          /\ {Own("Password"), Own("Notes"), Own("UserName"), Own("otp")} \cap Elsewhere = {}
        BY OwnPlaces
    <2>2. ASSUME NEW k, NEW u, Has(pairs, k, u)
          PROVE  /\ k \notin KnownKeys <=> k[2] # "own"
                 /\ k \in KnownKeys => k \in Elsewhere \cup {Own("Password"), Own("Notes"),
                                                   Own("UserName"), Own("otp"), Own("URL")}
        <3>1. k \in KeepassKeys
            BY <1>3, <2>2, HasKey
        <3>2. k \in KnownKeys <=> k[2] = "own"
            BY <3>1, KnownNames
        <3>3. KnownKeys \subseteq Elsewhere \cup {Own("Password"), Own("Notes"),
                                         Own("UserName"), Own("otp"), Own("URL")}
            BY DEF KnownKeys, Elsewhere
        <3> QED BY <3>2, <3>3
    <2>4. ASSUME NEW u, Has(pairs, Own("URL"), u), u # Blank PROVE 1 \in DOMAIN e.uris
        <3>1. v # Blank
            BY <1>3, <1>11, <2>4, LastOfPairs
        <3> QED BY <1>12, <3>1
    <2>3. ASSUME NEW u, Has(pairs, Own("Password"), u)
          PROVE  <<AtFirst, e.password>> \in PairParts(pairs)
        <3>1. Has(pairs, Own("Password"), e.password)
            BY <1>2, <1>3, <2>3, LastNamedPairs
        <3> QED BY <2>1, <3>1, PartsOfPairs
    <2> QED BY <1>2, <2>1, <2>2, <2>3, <2>4 DEF Reads
<1>9. Carries(PairParts(pairs) \cup UriParts(e.uris), e)
    BY <1>3, <1>7, <1>8, PairsCarry
<1>10. UriParts(e.uris) \subseteq PairParts(pairs)
    <2> SUFFICES ASSUME NEW p \in UriParts(e.uris) PROVE p \in PairParts(pairs)
        OBVIOUS
    <2>1. PICK i \in DOMAIN e.uris : p = <<AtKey(UriKey(i)), e.uris[i]>>
        BY PartsOfUris
    <2>2. v # Blank /\ i = 1 /\ e.uris[i] = v
        BY <1>12, <2>1
    <2>3. p = <<AtKey("url"), v>>
        BY <2>1, <2>2, UriWords
    <2>4. Has(pairs, Own("URL"), v)
        BY <1>3, <1>11, <2>2, LastOfPairs
    <2> QED BY <2>2, <2>3, <2>4, OwnPlaces, PartsOfPairs
<1>13. ItemParts(it) = PairParts(pairs) \cup UriParts(e.uris)
    <2>1. ItemParts(it) = PairParts(pairs)
        BY <1>0, <1>1 DEF ItemParts
    <2> QED BY <1>10, <2>1
<1> QED BY <1>0, <1>7, <1>9, <1>13

\* The entry of a Bitwarden item, field by field.
LEMMA BitwardenMakes ==
    ASSUME NEW it
    PROVE  /\ NoteMakes(it).fields = CollectFields(it.field).kept
           /\ NoteMakes(it).notes = it.notes /\ NoteMakes(it).password = Blank
           /\ NoteMakes(it).username = Blank /\ NoteMakes(it).totp = Blank
           /\ NoteMakes(it).uris = <<>>
           /\ LoginMakes(it).fields = CollectFields(it.field).kept
           /\ LoginMakes(it).notes = it.notes /\ LoginMakes(it).password = it.password
           /\ LoginMakes(it).username = it.username /\ LoginMakes(it).totp = it.totp
           /\ LoginMakes(it).uris = FilledUris(it)
BY DEF NoteMakes, LoginMakes, NoItem

\* What a Bitwarden item is made of.
LEMMA BitwardenShape ==
    ASSUME NEW it \in BitwardenItems
    PROVE  /\ it.format = "bitwarden" /\ it.type \in 1..3
           /\ it.password \in Tokens /\ it.password # Blank
           /\ it.username \in Tokens /\ it.totp \in Tokens /\ it.notes \in Tokens
           /\ it.field.key \in CustomKeys \cup {Own("")} /\ it.field.value \in Tokens
           /\ FilledUris(it) \in Seq(Tokens) /\ Len(FilledUris(it)) <= 3
<1>1. /\ it.format = "bitwarden" /\ it.type \in 1..3 /\ it.password = <<"cr", 4>>
      /\ it.username \in {Blank, <<"lines", 3>>} /\ it.totp \in Plain(5)
      /\ it.notes \in {Blank, <<"lines", 6>>} /\ it.uris \in Plain(7) \X {<<"text", 8>>}
      /\ it.field \in [type : {0, 3}, key : CustomKeys \cup {Own("")}, value : Values(9)]
    BY DEF BitwardenItems
<1>2. /\ <<"cr", 4>> \in Tokens /\ <<"cr", 4>> # Blank /\ Blank \in Tokens
      /\ <<"lines", 3>> \in Tokens /\ <<"lines", 6>> \in Tokens /\ <<"text", 8>> \in Tokens
      /\ Plain(5) \subseteq Tokens /\ Plain(7) \subseteq Tokens /\ Values(9) \subseteq Tokens
    <2>1. <<"cr", 4>> # Blank /\ <<"lines", 3>> \in Tokens /\ <<"lines", 6>> \in Tokens
        BY DEF Blank, Tokens
    <2> QED BY <2>1, ValuesAreTokens
<1>3. it.uris \in Seq(Tokens) /\ Len(it.uris) = 2
    <2>1. PICK S, T, uris : S = Plain(7) /\ T = {<<"text", 8>>} /\ uris = it.uris
        OBVIOUS
    <2>2. uris \in S \X T /\ S \subseteq Tokens /\ T \subseteq Tokens
        BY <1>1, <1>2, <2>1
    <2>3. PICK a \in S, b \in T : uris = <<a, b>>
        BY <2>2
    <2>4. a \in Tokens /\ b \in Tokens
        BY <2>2
    <2>5. uris \in Seq(Tokens) /\ Len(uris) = 2
        BY <2>3, <2>4
    <2> QED BY <2>1, <2>5
<1>4. PICK uris, at : uris = it.uris /\ at = {i \in DOMAIN it.uris : it.uris[i] # Blank}
    OBVIOUS
<1>5. FilledUris(it) = Pick(uris, at)
    BY <1>4 DEF FilledUris
<1>6. uris \in Seq(Tokens) /\ Len(uris) = 2
    BY <1>3, <1>4
<1>7. PICK filled : filled = Pick(uris, at)
    OBVIOUS
<1>8. filled \in Seq(Tokens) /\ \E h : Picks(filled, h, uris, at, Len(uris))
    BY <1>6, <1>7, PickShape
<1>9. Len(filled) <= Len(uris) /\ Len(filled) \in Nat
    BY <1>8 DEF Picks
<1>10. it.field.key \in CustomKeys \cup {Own("")} /\ it.field.value \in Tokens
    BY <1>1, <1>2
<1>11. FilledUris(it) \in Seq(Tokens) /\ Len(FilledUris(it)) <= 3
    BY <1>5, <1>6, <1>7, <1>8, <1>9
<1>12. /\ it.password \in Tokens /\ it.password # Blank
       /\ it.username \in Tokens /\ it.totp \in Tokens /\ it.notes \in Tokens
    BY <1>1, <1>2
<1>13. it.format = "bitwarden" /\ it.type \in 1..3
    BY <1>1
<1> QED BY <1>10, <1>11, <1>12, <1>13

\* The field of a Bitwarden item, if it is kept.
LEMMA KeptField ==
    ASSUME NEW it \in BitwardenItems
    PROVE  LET kept == CollectFields(it.field).kept
               left == it.field.type = 3 \/ it.field.key = Own("")
           IN  /\ kept \in Seq(FieldKeys \X Tokens)
               /\ \A i \in DOMAIN kept : ~ left /\ i = 1 /\ kept[i][1] = it.field.key
                                            /\ kept[i][2] = it.field.value
               /\ ~ left => 1 \in DOMAIN kept /\ it.field.key[1] # ""
<1>1. it.field.key \in CustomKeys \cup {Own("")} /\ it.field.value \in Tokens
    BY BitwardenShape
<1>2. PICK f, kept : f = it.field /\ kept = CollectFields(it.field).kept
    OBVIOUS
<1>3. CASE f.type = 3 \/ f.key = Own("")
    <2>1. kept = <<>>
        BY <1>2, <1>3 DEF CollectFields
    <2>2. <<>> \in Seq(FieldKeys \X Tokens) /\ DOMAIN <<>> = {}
        OBVIOUS
    <2> QED BY <1>2, <1>3, <2>1, <2>2
<1>4. CASE ~ (f.type = 3 \/ f.key = Own(""))
    <2>1. PICK k, v, pair : k = f.key /\ v = f.value /\ pair = <<k, v>>
        OBVIOUS
    <2>2. kept = <<pair>>
        BY <1>2, <1>4, <2>1 DEF CollectFields
    <2>3. k \in FieldKeys /\ k[1] # "" /\ v \in Tokens
        BY <1>1, <1>2, <1>4, <2>1, KnownNames
    <2>4. pair \in FieldKeys \X Tokens /\ pair[1] = k /\ pair[2] = v
        BY <2>1, <2>3
    <2>5. kept \in Seq(FieldKeys \X Tokens) /\ DOMAIN kept = {1} /\ kept[1] = pair
        BY <2>2, <2>4
    <2> QED BY <1>2, <1>4, <2>1, <2>3, <2>4, <2>5
<1> QED BY <1>3, <1>4

\* The parts of a Bitwarden item, one by one.
LEMMA BitwardenParts ==
    ASSUME NEW it \in BitwardenItems, NEW p
    PROVE  p \in ItemParts(it) <=>
              \/ it.notes # Blank /\ p = <<AtNotes, it.notes>>
              \/ it.type = 1 /\ p = <<AtFirst, it.password>>
              \/ it.type = 1 /\ it.username # Blank /\ p = <<AtKey("login"), it.username>>
              \/ it.type = 1 /\ it.totp # Blank /\ p = <<AtKey("otpauth"), it.totp>>
              \/ it.type = 1 /\ p \in UriParts(FilledUris(it))
              \/ /\ ~ (it.field.type = 3 \/ it.field.key = Own(""))
                 /\ p = <<AtKey(it.field.key[1]), it.field.value>>
<1>1. it.format = "bitwarden" /\ it.password # Blank
    BY BitwardenShape
<1> DEFINE all == {<<AtNotes, it.notes>>} \cup
                     (IF it.type = 1 THEN {<<AtFirst, it.password>>, <<AtKey("login"), it.username>>,
                                           <<AtKey("otpauth"), it.totp>>} ELSE {})
           own == {q \in all : q[2] # Blank}
           uris == IF it.type = 1 THEN UriParts(FilledUris(it)) ELSE {}
           field == IF it.field.type = 3 \/ it.field.key = Own("") THEN {}
                    ELSE {<<AtKey(it.field.key[1]), it.field.value>>}
<1>2. ItemParts(it) = own \cup uris \cup field
    BY <1>1 DEF ItemParts
<1>3. p \in own <=> \/ it.notes # Blank /\ p = <<AtNotes, it.notes>>
                    \/ it.type = 1 /\ p = <<AtFirst, it.password>>
                    \/ it.type = 1 /\ it.username # Blank /\ p = <<AtKey("login"), it.username>>
                    \/ it.type = 1 /\ it.totp # Blank /\ p = <<AtKey("otpauth"), it.totp>>
    <2> DEFINE a == <<AtNotes, it.notes>>
               b == <<AtFirst, it.password>>
               c == <<AtKey("login"), it.username>>
               d == <<AtKey("otpauth"), it.totp>>
    <2>1. a[2] = it.notes /\ b[2] = it.password /\ c[2] = it.username /\ d[2] = it.totp
        OBVIOUS
    <2>2. p \in own <=> /\ p = a \/ (it.type = 1 /\ (p = b \/ p = c \/ p = d))
                        /\ p[2] # Blank
        OBVIOUS
    <2> HIDE DEF own, a, b, c, d
    <2>3. p \in own <=> \/ it.notes # Blank /\ p = a
                        \/ it.type = 1 /\ p = b
                        \/ it.type = 1 /\ it.username # Blank /\ p = c
                        \/ it.type = 1 /\ it.totp # Blank /\ p = d
        BY <1>1, <2>1, <2>2
    <2> QED BY <2>3 DEF a, b, c, d
<1>4. p \in uris <=> it.type = 1 /\ p \in UriParts(FilledUris(it))
    OBVIOUS
<1>5. p \in field <=> /\ ~ (it.field.type = 3 \/ it.field.key = Own(""))
                      /\ p = <<AtKey(it.field.key[1]), it.field.value>>
    OBVIOUS
<1> HIDE DEF own, uris, field
<1> QED BY <1>2, <1>3, <1>4, <1>5

\* The entry of a Bitwarden item of type 1 or 2.
BitwardenEntry(it) == IF it.type = 1 THEN LoginMakes(it) ELSE NoteMakes(it)

\* Everything a Bitwarden item says is in its entry (bitwarden.rs, parse).
LEMMA BitwardenCarries ==
    ASSUME NEW it \in BitwardenItems
    PROVE  EntryShape(BitwardenEntry(it)) /\ Carries(ItemParts(it), BitwardenEntry(it))
<1>0. PICK e, P, key, kept : /\ e = BitwardenEntry(it) /\ P = ItemParts(it)
                             /\ key = it.field.key /\ kept = CollectFields(it.field).kept
    OBVIOUS
<1> DEFINE left == it.field.type = 3 \/ it.field.key = Own("")
<1>1. /\ e.fields = kept /\ e.notes = it.notes
      /\ it.type = 1 => /\ e.password = it.password /\ e.username = it.username
                        /\ e.totp = it.totp /\ e.uris = FilledUris(it)
      /\ it.type # 1 => /\ e.password = Blank /\ e.username = Blank
                        /\ e.totp = Blank /\ e.uris = <<>>
    BY <1>0, BitwardenMakes DEF BitwardenEntry
<1>2. /\ it.password \in Tokens /\ it.username \in Tokens /\ it.totp \in Tokens
      /\ it.notes \in Tokens /\ FilledUris(it) \in Seq(Tokens) /\ Len(FilledUris(it)) <= 3
    BY BitwardenShape
<1>3. /\ kept \in Seq(FieldKeys \X Tokens)
      /\ \A i \in DOMAIN kept : ~ left /\ i = 1 /\ kept[i][1] = key /\ kept[i][2] = it.field.value
      /\ ~ left => 1 \in DOMAIN kept /\ key[1] # ""
    BY <1>0, KeptField
<1>4. EntryShape(e)
    <2>1. {e.password, e.username, e.totp, e.notes} \subseteq Tokens
        BY <1>1, <1>2, ValuesAreTokens
    <2>2. e.uris \in Seq(Tokens) /\ Len(e.uris) <= 3
        <3>1. CASE it.type = 1
            BY <1>1, <1>2, <3>1
        <3>2. CASE it.type # 1
            <4>1. PICK uris : uris = e.uris
                OBVIOUS
            <4>2. uris = <<>>
                BY <1>1, <3>2, <4>1
            <4>3. uris \in Seq(Tokens) /\ Len(uris) = 0
                BY <4>2
            <4> QED BY <4>1, <4>3
        <3> QED BY <3>1, <3>2
    <2> QED BY <1>1, <1>3, <2>1, <2>2 DEF EntryShape
<1>5. \A p : p \in P <=>
              \/ it.notes # Blank /\ p = <<AtNotes, it.notes>>
              \/ it.type = 1 /\ p = <<AtFirst, it.password>>
              \/ it.type = 1 /\ it.username # Blank /\ p = <<AtKey("login"), it.username>>
              \/ it.type = 1 /\ it.totp # Blank /\ p = <<AtKey("otpauth"), it.totp>>
              \/ it.type = 1 /\ p \in UriParts(FilledUris(it))
              \/ ~ left /\ p = <<AtKey(key[1]), it.field.value>>
    BY <1>0, BitwardenParts
<1>6. /\ \A i \in DOMAIN Named(e) :
            \E j \in DOMAIN e.fields : Named(e)[i] = e.fields[j] /\ e.fields[j][1][1] # ""
      /\ \A j \in DOMAIN e.fields :
            e.fields[j][1][1] # "" => \E i \in DOMAIN Named(e) : Named(e)[i] = e.fields[j]
    BY <1>4, NamedFields
<1>7. ASSUME NEW w, NEW u, Bears(e, w, u) PROVE w # "" /\ <<AtKey(w), u>> \in P
    <2>1. CASE w = "login" /\ u = e.username /\ u # Blank
        BY <2>1, <1>1, <1>5
    <2>2. CASE w = "otpauth" /\ u = e.totp /\ u # Blank
        BY <2>2, <1>1, <1>5
    <2>3. ASSUME NEW i \in DOMAIN Named(e), w = Named(e)[i][1][1], u = Named(e)[i][2]
          PROVE  w # "" /\ <<AtKey(w), u>> \in P
        <3>1. PICK j \in DOMAIN e.fields : Named(e)[i] = e.fields[j]
            BY <1>6
        <3>2. ~ left /\ w = key[1] /\ u = it.field.value /\ w # ""
            BY <1>1, <1>3, <2>3, <3>1
        <3> QED BY <1>5, <3>2
    <2>4. ASSUME NEW i \in DOMAIN e.uris, w = UriKey(i), u = e.uris[i]
          PROVE  w # "" /\ <<AtKey(w), u>> \in P
        <3>1. i \in 1..3 /\ it.type = 1
            BY <1>1, <1>4 DEF EntryShape
        <3>2. <<AtKey(w), u>> \in UriParts(FilledUris(it))
            BY <1>1, <2>4, <3>1, PartsOfUris
        <3> QED BY <1>5, <2>4, <3>1, <3>2, UriWords
    <2> QED BY <1>7, <2>1, <2>2, <2>3, <2>4 DEF Bears
<1>8. ASSUME NEW p \in P
      PROVE  /\ p[1] \in {AtFirst, AtNotes} \/ p[1] = AtKey(p[1][2])
             /\ p[1] = AtKey(p[1][2]) /\ p[1] # AtKey("") /\ p[2] # Blank
                   => \E u : Bears(e, p[1][2], u)
             /\ p[1] = AtFirst => <<AtFirst, e.password>> \in P
             /\ p[1] = AtNotes /\ p[2] # Blank => e.notes # Blank /\ <<AtNotes, e.notes>> \in P
             /\ p[1] # AtKey("")
    <2>0. \A w : AtKey(w) # AtFirst /\ AtKey(w) # AtNotes /\ AtKey(w)[2] = w /\ AtFirst # AtNotes
        BY KeyPlaces
    <2>1. CASE it.notes # Blank /\ p = <<AtNotes, it.notes>>
        <3>1. p[1] = AtNotes
            BY <2>1
        <3> QED BY <1>1, <1>5, <2>0, <2>1, <3>1
    <2>2. CASE it.type = 1 /\ p = <<AtFirst, it.password>>
        <3>1. p[1] = AtFirst
            BY <2>2
        <3> QED BY <1>1, <1>5, <2>0, <2>2, <3>1
    <2>6. ASSUME NEW w, p[1] = AtKey(w), w # "", \E u : Bears(e, w, u)
          PROVE  /\ p[1] = AtKey(p[1][2]) /\ p[1] # AtFirst /\ p[1] # AtNotes /\ p[1] # AtKey("")
                 /\ \E u : Bears(e, p[1][2], u)
        BY <2>0, <2>6
    <2>3. CASE it.type = 1 /\ it.username # Blank /\ p = <<AtKey("login"), it.username>>
        <3>1. p[1] = AtKey("login") /\ Bears(e, "login", e.username)
            BY <1>1, <2>3 DEF Bears
        <3> QED BY <2>6, <3>1
    <2>4. CASE it.type = 1 /\ it.totp # Blank /\ p = <<AtKey("otpauth"), it.totp>>
        <3>1. p[1] = AtKey("otpauth") /\ Bears(e, "otpauth", e.totp)
            BY <1>1, <2>4 DEF Bears
        <3> QED BY <2>6, <3>1
    <2>5. CASE it.type = 1 /\ p \in UriParts(FilledUris(it))
        <3>1. PICK i \in DOMAIN e.uris : p[1] = AtKey(UriKey(i)) /\ p[2] = e.uris[i]
            BY <1>1, <2>5, PartsOfUris
        <3>2. Bears(e, UriKey(i), e.uris[i])
            BY DEF Bears
        <3>4. e.uris \in Seq(Tokens) /\ Len(e.uris) <= 3
            BY <1>4 DEF EntryShape
        <3>5. i \in 1..3
            BY <3>4
        <3>3. i \in 1..3 /\ UriKey(i) # ""
            BY <3>5, UriWords
        <3> QED BY <2>6, <3>1, <3>2, <3>3
    <2>7. CASE ~ left /\ p = <<AtKey(key[1]), it.field.value>>
        <3>1. 1 \in DOMAIN e.fields /\ e.fields[1][1] = key /\ key[1] # ""
            BY <1>1, <1>3, <2>7
        <3>2. PICK i \in DOMAIN Named(e) : Named(e)[i] = e.fields[1]
            BY <1>6, <3>1
        <3>3. Bears(e, key[1], Named(e)[i][2])
            BY <3>1, <3>2 DEF Bears
        <3>4. p[1] = AtKey(key[1])
            BY <2>7
        <3> QED BY <2>6, <3>1, <3>3, <3>4
    <2> QED BY <1>5, <2>1, <2>2, <2>3, <2>4, <2>5, <2>7
<1>9. Carries(P, e)
    BY <1>7, <1>8 DEF Carries
<1> QED BY <1>0, <1>4, <1>9

\* Everything an item says is in its entry.
LEMMA ItemCarries ==
    ASSUME NEW it \in Items, Parse(it).how = "parsed"
    PROVE  /\ EntryShape(Parse(it).entry) /\ Carries(ItemParts(it), Parse(it).entry)
           /\ it.format = "bitwarden" => CollectFields(it.field).notes \subseteq Parse(it).notes
<1>1. CASE it \in CsvItems /\ it.format = "csv" /\ Parse(it) = ParseCsv(it)
    BY <1>1, CsvParses, CsvCarries
<1>2. CASE /\ it \in BitwardenItems /\ it.format = "bitwarden" /\ it.type \in 1..3
           /\ Parse(it) = ParseBitwarden(it)
    <2>1. /\ \/ it.type = 1 /\ ParseBitwarden(it).entry = LoginMakes(it)
             \/ it.type = 2 /\ ParseBitwarden(it).entry = NoteMakes(it)
          /\ CollectFields(it.field).notes \subseteq ParseBitwarden(it).notes
        BY <1>2, BitwardenParses
    <2>2. ParseBitwarden(it).entry = BitwardenEntry(it)
        BY <2>1 DEF BitwardenEntry
    <2> QED BY <1>2, <2>1, <2>2, BitwardenCarries
<1>3. CASE it \in KeepassItems /\ it.format = "keepass" /\ Parse(it) = ParseKeepass(it)
    BY <1>3, KeepassParses, KeepassCarries
<1> QED BY <1>1, <1>2, <1>3, ItemKinds
-----------------------------------------------------------------------------
(* What is written of an item.                                            *)

\* Kept, in these lines.
KeptIn(lines, p) ==
    \/ p[1] = AtFirst /\ Head(lines)[2][2] = p[2][2]
    \/ p[1] = AtNotes /\ \E i \in DOMAIN lines : lines[i][1] = "note" /\ lines[i][2][2] = p[2][2]
    \/ p[1][1] = "key" /\ Lookup(lines, p[1][2])[2] = p[2][2]

\* A part of an item that has its place for itself is found there.
LEMMA PartIsKept ==
    ASSUME NEW P, NEW e, EntryShape(e), Carries(P, e), NEW p \in P, p[2] # Blank,
           \A q \in P : q[1] = p[1] => q = p
    PROVE  \/ p[1] = AtKey("") /\ "empty key" \in Changed(e)
           \/ /\ KeptIn(BodyOf(e), p)
              /\ p[2][1] = "lines" /\ p[1] # AtNotes => "flattened" \in Changed(e)
<1>0. PICK b, at, v : b = BodyOf(e) /\ at = p[1] /\ v = p[2]
    OBVIOUS
<1>1. Flattened(e) => "flattened" \in Changed(e)
    BY DEF Changed
<1>2. CASE at = AtKey("")
    <2>1. \E i \in DOMAIN e.fields : e.fields[i][1][1] = ""
        BY <1>0, <1>2 DEF Carries
    <2>2. Named(e) # e.fields
        BY <2>1, NamedFields
    <2> QED BY <1>0, <1>2, <2>2 DEF Changed
<1>3. CASE at = AtFirst
    <2>1. PICK q : q = <<AtFirst, e.password>>
        OBVIOUS
    <2>2. q \in P /\ q[1] = p[1] /\ q[2] = e.password
        BY <1>0, <1>3, <2>1 DEF Carries
    <2>3. e.password = v
        BY <1>0, <2>2
    <2>4. Head(b)[2][2] = v[2]
        BY <1>0, <2>3, BodyEnds
    <2>5. v[1] = "lines" => Flattened(e)
        BY <2>3 DEF Flattened
    <2> QED BY <1>0, <1>1, <1>3, <2>4, <2>5 DEF KeptIn
<1>4. CASE at = AtNotes
    <2>1. PICK q : q = <<AtNotes, e.notes>>
        OBVIOUS
    <2>2. e.notes # Blank /\ q \in P /\ q[1] = p[1] /\ q[2] = e.notes
        BY <1>0, <1>4, <2>1 DEF Carries
    <2>3. e.notes = v
        BY <1>0, <2>2
    <2>4. \E i \in DOMAIN b : b[i][1] = "note" /\ b[i][2][2] = v[2]
        BY <1>0, <2>2, <2>3, BodyEnds
    <2> QED BY <1>0, <1>4, <2>4 DEF KeptIn
<1>5. CASE at = AtKey(at[2]) /\ at # AtKey("")
    <2>1. PICK w : w = at[2]
        OBVIOUS
    <2>2. PICK u : Bears(e, w, u)
        BY <1>0, <1>5, <2>1 DEF Carries
    <2>3. ASSUME NEW x, Bears(e, w, x) PROVE x = v
        <3>1. PICK q : q = <<AtKey(w), x>>
            OBVIOUS
        <3>2. q \in P /\ q[1] = p[1] /\ q[2] = x
            BY <1>0, <1>5, <2>1, <2>3, <3>1 DEF Carries
        <3> QED BY <1>0, <3>2
    <2>4. Bears(e, w, v) /\ \A x : Bears(e, w, x) => x[2] = v[2]
        BY <2>2, <2>3
    <2>5. Lookup(b, w)[2] = v[2] /\ (v[1] = "lines" => Flattened(e))
        BY <1>0, <2>4, BodyTells
    <2>7. \A x : AtKey(x)[1] = "key"
        BY DEF AtKey
    <2>6. at[1] = "key"
        BY <1>5, <2>7
    <2> QED BY <1>0, <1>1, <2>1, <2>5, <2>6 DEF KeptIn
<1>6. at \in {AtFirst, AtNotes} \/ at = AtKey(at[2])
    BY <1>0 DEF Carries
<1> QED BY <1>2, <1>3, <1>4, <1>5, <1>6

\* Whatever the custom fields are called: what an item says in a place that
\* nothing else of it claims is found in the body that is written, or the
\* report says that it has no name; joined lines, linked fields and items left
\* out are in the report too.
THEOREM NothingLostInSilence == ImportSpec => []LossesReported
<1>1. ImportIInv => LossesReported
    <2> SUFFICES ASSUME ImportIInv PROVE LossesReported
        OBVIOUS
    <2>1. ASSUME progress = "written"
          PROVE  /\ \A p \in ItemParts(item) :
                       p[2] # Blank /\ (\A q \in ItemParts(item) : q[1] = p[1] => q = p) =>
                          \/ p[1] = AtKey("") /\ "empty key" \in report
                          \/ /\ Kept(p)
                             /\ p[2][1] = "lines" /\ p[1] # AtNotes => "flattened" \in report
                 /\ item.format = "bitwarden" =>
                       (item.field.type = 3 => "linked field" \in report)
        <3>1. /\ item \in Items /\ Parse(item).how = "parsed" /\ entry = Parse(item).entry
              /\ body = BodyOf(entry) /\ report = Parse(item).notes \cup Changed(entry)
            BY <2>1 DEF ImportIInv
        <3>2. PICK P : P = ItemParts(item)
            OBVIOUS
        <3>3. EntryShape(entry) /\ Carries(P, entry)
            BY <3>1, <3>2, ItemCarries
        <3>4. ASSUME NEW p \in P, p[2] # Blank, \A q \in P : q[1] = p[1] => q = p
              PROVE  \/ p[1] = AtKey("") /\ "empty key" \in report
                     \/ /\ Kept(p)
                        /\ p[2][1] = "lines" /\ p[1] # AtNotes => "flattened" \in report
            <4>1. Changed(entry) \subseteq report
                BY <3>1
            <4>2. KeptIn(BodyOf(entry), p) => Kept(p)
                BY <3>1 DEF KeptIn, Kept
            <4>3. \/ p[1] = AtKey("") /\ "empty key" \in Changed(entry)
                  \/ /\ KeptIn(BodyOf(entry), p)
                     /\ p[2][1] = "lines" /\ p[1] # AtNotes => "flattened" \in Changed(entry)
                BY <3>3, <3>4, PartIsKept
            <4> QED BY <4>1, <4>2, <4>3
        <3>5. ASSUME item.format = "bitwarden", item.field.type = 3
              PROVE  "linked field" \in report
            <4>1. CollectFields(item.field).notes \subseteq Parse(item).notes
                BY <3>1, <3>5, ItemCarries
            <4>2. "linked field" \in CollectFields(item.field).notes
                BY <3>5 DEF CollectFields
            <4> QED BY <3>1, <4>1, <4>2
        <3> QED BY <3>2, <3>4, <3>5
    <2>2. ASSUME progress = "skipped" PROVE report # {}
        <3>1. item \in Items /\ Parse(item) = Parsed("skipped", entry, report)
            BY <2>2 DEF ImportIInv
        <3>2. Parse(item).how = "skipped" /\ Parse(item).notes = report
            BY <3>1, ParsedFields
        <3> QED BY <3>1, <3>2, ParseShape DEF Parses
    <2> QED BY <2>1, <2>2 DEF LossesReported
<1> QED BY <1>1, ImportInvariant, PTL

\* An item that is written has a path that can be addressed, and its password
\* is on the first line (prepare, import.rs:132-216).
THEOREM ImportTypeCorrect == ImportSpec => []ImportTypeOK
<1>1. ImportIInv => ImportTypeOK
    <2> SUFFICES ASSUME ImportIInv PROVE ImportTypeOK
        OBVIOUS
    <2>1. ASSUME progress = "written" PROVE ValidPath(PathOf(entry)) /\ Head(body)[1] = "first"
        <3>1. /\ item \in Items /\ Parse(item).how = "parsed" /\ entry = Parse(item).entry
              /\ body = BodyOf(entry) /\ ValidPath(PathOf(entry))
            BY <2>1 DEF ImportIInv
        <3>2. EntryShape(entry)
            BY <3>1, ItemCarries
        <3>3. Head(BodyOf(entry))[1] = "first"
            BY <3>2, BodyEnds
        <3> QED BY <3>1, <3>3
    <2>2. LossNotes \cup {"flattened", "empty key"} \subseteq
             {"named by folder", "linked field", "no password", "unsupported item",
              "no title", "attachments", "flattened", "empty key"}
        BY DEF LossNotes
    <2> QED BY <2>1, <2>2 DEF ImportIInv, ImportTypeOK
<1> QED BY <1>1, ImportInvariant, PTL
-----------------------------------------------------------------------------
(* Slugs.                                                                  *)

FirstPass(c) == CASE c = "A" -> "a" [] c = " " -> "-" [] OTHER -> c
SlugChars == {"a", ".", "-", "/"}
SegChars == {"a", ".", "-"}

\* Nothing is left out if all positions are wanted.
LEMMA PickAll ==
    ASSUME NEW T, NEW s \in Seq(T), NEW at, DOMAIN s \subseteq at
    PROVE  Pick(s, at) = s
<1>1. PICK f : Pick(s, at) = f[Len(s)] /\ PicksUpTo(f, s, at)
    BY PickUnfolds
<1> DEFINE Same(n) == f[n] \in Seq(T) /\ Len(f[n]) = n /\ \A k \in 1..n : f[n][k] = s[k]
           Right == {n \in Nat : n <= Len(s) => Same(n)}
<1>2. 0 \in Right
    <2>1. f[0] = <<>>
        BY <1>1 DEF PicksUpTo
    <2>2. <<>> \in Seq(T) /\ Len(<<>>) = 0
        OBVIOUS
    <2>3. Same(0)
        BY <2>1, <2>2
    <2> QED BY <2>3
<1>3. ASSUME NEW n \in Nat, n \in Right PROVE n + 1 \in Right
    <2> SUFFICES ASSUME n + 1 <= Len(s) PROVE Same(n + 1)
        OBVIOUS
    <2>1. n + 1 \in 1..Len(s) /\ (n + 1) - 1 = n /\ s[n + 1] \in T /\ n + 1 \in at
        OBVIOUS
    <2>2. f[n + 1] = Append(f[n], s[n + 1])
        BY <1>1, <2>1 DEF PicksUpTo
    <2>3. Same(n)
        BY <1>3, <2>1
    <2>4. PICK q : q = Append(f[n], s[n + 1])
        OBVIOUS
    <2>5. q \in Seq(T) /\ Len(q) = n + 1 /\ q[n + 1] = s[n + 1] /\ \A k \in 1..n : q[k] = f[n][k]
        BY <2>1, <2>3, <2>4
    <2>6. \A k \in 1..(n + 1) : q[k] = s[k]
        BY <2>3, <2>5
    <2> QED BY <2>2, <2>4, <2>5, <2>6
<1>4. Len(s) \in Right
    <2>1. Nat \subseteq Right
        <3> HIDE DEF Right
        <3> QED BY <1>2, <1>3, SetInduction
    <2> QED BY <2>1
<1>5. Same(Len(s))
    BY <1>4
<1>6. \A k \in 1..Len(s) : f[Len(s)][k] = s[k]
    BY <1>5
<1> QED BY <1>1, <1>5, <1>6, SeqEqual

\* What is left after the first pass, and that it is left as it is.
LEMMA MappedChars ==
    ASSUME NEW s \in Seq(Chars)
    PROVE  Mapped(s) \in Seq(SlugChars)
<1> DEFINE at == {i \in DOMAIN s : s[i] # "!"}
           kept == Pick(s, at)
<1>1. kept \in Seq(Chars) /\ \E h : Picks(kept, h, s, at, Len(s))
    BY PickShape
<1>2. PICK h : Picks(kept, h, s, at, Len(s))
    BY <1>1
<1>3. Mapped(s) = [i \in DOMAIN kept |-> FirstPass(kept[i])]
    BY DEF Mapped, FirstPass
<1>4. DOMAIN kept = 1..Len(kept) /\ Len(kept) \in Nat
    BY <1>1
<1>5. ASSUME NEW k \in 1..Len(kept) PROVE FirstPass(kept[k]) \in SlugChars
    <2>1. kept[k] = s[h[k]] /\ h[k] \in at /\ kept[k] \in Chars
        <3> HIDE DEF at, kept
        <3>1. kept \in Seq(Chars) /\ h \in [1..Len(kept) -> at \cap 1..Len(s)]
                /\ \A i \in 1..Len(kept) : kept[i] = s[h[i]]
            BY <1>1, <1>2 DEF Picks
        <3>2. kept[k] \in Chars
            BY <3>1
        <3> QED BY <3>1, <3>2
    <2>2. kept[k] \in Chars \ {"!"}
        BY <2>1
    <2> HIDE DEF kept
    <2> QED BY <2>2 DEF Chars, SlugChars, FirstPass
<1> HIDE DEF kept
<1> QED BY <1>3, <1>4, <1>5

\* The first pass of slug_path leaves alone what it made.
LEMMA MappedAgain ==
    ASSUME NEW s \in Seq(SlugChars)
    PROVE  Mapped(s) = s
<1> DEFINE at == {i \in DOMAIN s : s[i] # "!"}
<1>1. DOMAIN s = 1..Len(s) /\ Len(s) \in Nat /\ \A i \in DOMAIN s : s[i] \in SlugChars
    OBVIOUS
<1>2. DOMAIN s \subseteq at
    BY <1>1 DEF SlugChars
<1>3. Pick(s, at) = s
    <2> HIDE DEF at
    <2> QED BY <1>2, PickAll
<1>4. Mapped(s) = [i \in DOMAIN s |-> FirstPass(s[i])]
    BY <1>3 DEF Mapped, FirstPass
<1>5. \A i \in DOMAIN s : FirstPass(s[i]) = s[i]
    BY <1>1 DEF FirstPass, SlugChars
<1>6. s = [i \in DOMAIN s |-> s[i]]
    BY <1>1
<1> QED BY <1>4, <1>5, <1>6

\* A dash stands only between two other characters.
Tidy(seg) ==
    \A i \in 1..Len(seg) : seg[i] = "-" =>
        i > 1 /\ seg[i - 1] # "-" /\ \E j \in i..Len(seg) : seg[j] # "-"

\* The second pass leaves a tidy segment alone.
LEMMA TidyStays ==
    ASSUME NEW seg \in Seq(SegChars), Tidy(seg)
    PROVE  Normed(seg) = seg
<1> DEFINE at == {i \in DOMAIN seg : \/ seg[i] # "-"
                                     \/ /\ i > 1 /\ seg[i - 1] # "-"
                                        /\ \E j \in i..Len(seg) : seg[j] # "-"}
<1>1. Normed(seg) = Pick(seg, at)
    BY DEF Normed
<1>2. DOMAIN seg \subseteq at
    BY DEF Tidy
<1> HIDE DEF at
<1> QED BY <1>1, <1>2, PickAll

\* The second pass leaves a tidy segment.
LEMMA NormedIsTidy ==
    ASSUME NEW seg \in Seq(SegChars)
    PROVE  Normed(seg) \in Seq(SegChars) /\ Tidy(Normed(seg))
<1> DEFINE at == {i \in DOMAIN seg : \/ seg[i] # "-"
                                     \/ /\ i > 1 /\ seg[i - 1] # "-"
                                        /\ \E j \in i..Len(seg) : seg[j] # "-"}
           p == Normed(seg)
<1>0. DOMAIN seg = 1..Len(seg) /\ Len(seg) \in Nat
    OBVIOUS
<1>1. p = Pick(seg, at)
    BY DEF Normed
<1> HIDE DEF p
<1>2. p \in Seq(SegChars) /\ \E h : Picks(p, h, seg, at, Len(seg))
    <2> HIDE DEF at
    <2> QED BY <1>1, PickShape
<1>3. PICK h : Picks(p, h, seg, at, Len(seg))
    BY <1>2
<1>4. /\ Len(p) \in Nat
      /\ \A k \in 1..Len(p) : h[k] \in at /\ h[k] \in 1..Len(seg) /\ p[k] = seg[h[k]]
      /\ \A i, j \in 1..Len(p) : i < j => h[i] < h[j]
    BY <1>2, <1>3 DEF Picks
<1>5. \A m \in at : \E k \in 1..Len(p) : h[k] = m
    BY <1>0, <1>3 DEF Picks
<1>6. ASSUME NEW k \in 1..Len(p), p[k] = "-"
      PROVE  k > 1 /\ p[k - 1] # "-" /\ \E j \in k..Len(p) : p[j] # "-"
    <2>1. PICK i \in 1..Len(seg) : i = h[k] /\ i \in at /\ seg[i] = "-"
        BY <1>4, <1>6
    <2>2. i > 1 /\ seg[i - 1] # "-" /\ \E j \in i..Len(seg) : seg[j] # "-"
        BY <2>1
    <2>3. i - 1 \in at
        BY <2>1, <2>2, <1>0
    <2>4. PICK m \in 1..Len(p) : h[m] = i - 1
        BY <2>3, <1>5
    <2>5. m = k - 1
        <3>1. m \in Nat /\ k \in Nat /\ i \in Nat /\ h[m] < h[k]
            BY <2>1, <2>4
        <3>2. ~ (k < m) /\ m # k
            BY <3>1, <1>4
        <3>3. ASSUME m < k - 1 PROVE FALSE
            <4>1. k - 1 \in 1..Len(p)
                BY <3>1, <3>3
            <4>2. h[m] < h[k - 1] /\ h[k - 1] < h[k] /\ h[k - 1] \in Nat
                BY <1>4, <3>1, <3>3, <4>1
            <4> QED BY <2>1, <2>4, <4>2
        <3> QED BY <3>1, <3>2, <3>3
    <2>6. k > 1 /\ p[k - 1] # "-"
        BY <2>2, <2>4, <2>5, <1>4
    <2>7. PICK j \in i..Len(seg) : seg[j] # "-"
        BY <2>2
    <2>8. j \in at
        BY <2>1, <2>7, <1>0
    <2>9. PICK n \in 1..Len(p) : h[n] = j
        BY <2>8, <1>5
    <2>10. ~ (n < k)
        <3> SUFFICES ASSUME n < k PROVE FALSE
            OBVIOUS
        <3>1. h[n] < h[k]
            BY <1>4, <2>9
        <3> QED BY <3>1, <2>1, <2>7, <2>9
    <2>11. n \in k..Len(p) /\ p[n] # "-"
        BY <1>4, <2>7, <2>9, <2>10
    <2> QED BY <2>6, <2>11
<1>7. Tidy(p)
    BY <1>6 DEF Tidy
<1> QED BY <1>2, <1>7 DEF p

\* One segment at least, and no slash in any.
Splits == Seq(Seq(SegChars)) \ {<<>>}

\* A character that follows.
Longer(segs, c) == IF c = "/" THEN Append(segs, <<>>)
                   ELSE [segs EXCEPT ![Len(segs)] = Append(@, c)]

\* How the recursive function of Segments is written.
SplitsUpTo(f, s) == f[0] = <<<<>>>> /\ \A n \in 1..Len(s) : f[n] = Longer(f[n - 1], s[n])

\* One more character leaves at least one segment, and no slash in any.
LEMMA LongerSplits ==
    ASSUME NEW segs \in Splits, NEW c \in SlugChars
    PROVE  Longer(segs, c) \in Splits
<1>1. segs \in Seq(Seq(SegChars)) /\ Len(segs) \in Nat /\ Len(segs) # 0
    BY DEF Splits
<1>2. CASE c = "/"
    <2>1. <<>> \in Seq(SegChars)
        OBVIOUS
    <2>2. Append(segs, <<>>) \in Seq(Seq(SegChars)) /\ Append(segs, <<>>) # <<>>
        BY <1>1, <2>1, AppendProperties
    <2> QED BY <1>2, <2>2 DEF Longer, Splits
<1>3. CASE c # "/"
    <2>1. c \in SegChars /\ Len(segs) \in 1..Len(segs)
        BY <1>1, <1>3 DEF SlugChars, SegChars
    <2>2. segs[Len(segs)] \in Seq(SegChars)
        BY <1>1, <2>1
    <2>3. PICK w : w = Append(segs[Len(segs)], c)
        OBVIOUS
    <2>4. w \in Seq(SegChars)
        BY <2>1, <2>2, <2>3
    <2>5. PICK t : t = [segs EXCEPT ![Len(segs)] = w]
        OBVIOUS
    <2>6. t \in Seq(Seq(SegChars)) /\ Len(t) = Len(segs)
        BY <1>1, <2>1, <2>4, <2>5, ExceptSeq
    <2>7. t # <<>>
        BY <1>1, <2>6
    <2>8. Longer(segs, c) = t
        BY <1>3, <2>3, <2>5 DEF Longer
    <2> QED BY <2>6, <2>7, <2>8 DEF Splits
<1> QED BY <1>2, <1>3

\* What Segments computes, character by character.
LEMMA SegmentsUnfold ==
    ASSUME NEW s \in Seq(SlugChars)
    PROVE  \E f : Segments(s) = f[Len(s)] /\ SplitsUpTo(f, s)
<1> DEFINE N == Len(s)
           turn == [n \in 1..N |-> [v \in Splits |-> Longer(v, s[n])]]
           Body(f) == [n \in 0..N |->
                          IF n = 0 THEN <<<<>>>>
                          ELSE IF s[n] = "/" THEN Append(f[n - 1], <<>>)
                          ELSE [f[n - 1] EXCEPT ![Len(f[n - 1])] = Append(@, s[n])]]
           upTo == CHOOSE f : f = Body(f)
           b == <<<<>>>>
<1>1. N \in Nat /\ b \in Splits /\ \A n \in 1..N : s[n] \in SlugChars
    <2>1. <<>> \in Seq(SegChars)
        OBVIOUS
    <2>2. b \in Seq(Seq(SegChars)) /\ Len(b) = 1
        BY <2>1
    <2>3. b # <<>>
        BY <2>2
    <2>4. N \in Nat /\ \A n \in 1..N : s[n] \in SlugChars
        OBVIOUS
    <2> HIDE DEF b
    <2> QED BY <2>2, <2>3, <2>4 DEF Splits
<1>2. turn \in Turns(N, Splits)
    BY <1>1, LongerSplits DEF Turns
<1>3. \A n \in 1..N, v \in Splits : turn[n][v] = Longer(v, s[n])
    OBVIOUS
<1> HIDE DEF turn, N, b
<1>4. PICK f : Follows(f, N, Splits, b, turn)
    BY <1>1, <1>2, RecursionExists
<1>5. \A n \in 1..N : f[n] = Longer(f[n - 1], s[n])
    <2> SUFFICES ASSUME NEW n \in 1..N PROVE f[n] = Longer(f[n - 1], s[n])
        OBVIOUS
    <2>1. n - 1 \in 0..N
        BY <1>1
    <2>2. f[n - 1] \in Splits /\ f[n] = turn[n][f[n - 1]]
        BY <2>1, <1>4 DEF Follows
    <2> QED BY <1>3, <2>2
<1>6. \A n \in 0..N : n = 0 \/ n \in 1..N
    BY <1>1
<1>7. \A g : Body(g) = [n \in 0..N |-> IF n = 0 THEN b ELSE Longer(g[n - 1], s[n])]
    BY DEF Longer, b
<1>8. f = Body(f)
    <2> HIDE DEF Body
    <2>1. f = [n \in 0..N |-> IF n = 0 THEN b ELSE Longer(f[n - 1], s[n])]
        BY <1>4, <1>5, <1>6 DEF Follows
    <2> QED BY <1>7, <2>1
<1>9. upTo = Body(upTo)
    BY <1>8
<1>10. Segments(s) = upTo[N]
    BY DEF Segments, N
<1> HIDE DEF upTo, Body
<1>11. upTo = [n \in 0..N |-> IF n = 0 THEN b ELSE Longer(upTo[n - 1], s[n])]
    BY <1>7, <1>9
<1>12. upTo[0] = b
    BY <1>1, <1>11
<1>13. \A n \in 1..N : upTo[n] = Longer(upTo[n - 1], s[n])
    <2> SUFFICES ASSUME NEW n \in 1..N PROVE upTo[n] = Longer(upTo[n - 1], s[n])
        OBVIOUS
    <2>1. n \in 0..N /\ n # 0
        BY <1>1
    <2> QED BY <1>11, <2>1
<1>14. SplitsUpTo(upTo, s)
    BY <1>12, <1>13 DEF SplitsUpTo, N, b
<1> QED BY <1>10, <1>14 DEF N

\* There is always a segment, and none has a slash.
LEMMA SplitsType ==
    ASSUME NEW s \in Seq(SlugChars), NEW f, SplitsUpTo(f, s), NEW m \in 0..Len(s)
    PROVE  f[m] \in Splits
<1> DEFINE Right == {n \in Nat : n <= Len(s) => f[n] \in Splits}
<1>1. 0 \in Right
    <2> DEFINE b == <<<<>>>>
    <2>1. <<>> \in Seq(SegChars)
        OBVIOUS
    <2>2. b \in Seq(Seq(SegChars)) /\ Len(b) = 1
        BY <2>1
    <2>3. b # <<>>
        BY <2>2
    <2>4. f[0] = b
        BY DEF SplitsUpTo
    <2> HIDE DEF b
    <2>5. f[0] \in Splits
        BY <2>2, <2>3, <2>4 DEF Splits
    <2> QED BY <2>5
<1>2. ASSUME NEW n \in Nat, n \in Right PROVE n + 1 \in Right
    <2> SUFFICES ASSUME n + 1 <= Len(s) PROVE f[n + 1] \in Splits
        OBVIOUS
    <2>1. n + 1 \in 1..Len(s) /\ (n + 1) - 1 = n /\ s[n + 1] \in SlugChars
        OBVIOUS
    <2>2. f[n] \in Splits /\ f[n + 1] = Longer(f[n], s[n + 1])
        BY <1>2, <2>1 DEF SplitsUpTo
    <2> QED BY <2>1, <2>2, LongerSplits
<1>3. Nat \subseteq Right
    <2> HIDE DEF Right
    <2> QED BY <1>1, <1>2, SetInduction
<1> QED BY <1>3

\* The segments of a prefix depend on nothing that follows.
LEMMA SplitsAgree ==
    ASSUME NEW s \in Seq(SlugChars), NEW t \in Seq(SlugChars), NEW f, NEW g,
           SplitsUpTo(f, s), SplitsUpTo(g, t), NEW m \in Nat, m <= Len(s), m <= Len(t),
           \A k \in 1..m : s[k] = t[k]
    PROVE  f[m] = g[m]
<1> DEFINE Right == {n \in Nat : n <= m => f[n] = g[n]}
<1>1. 0 \in Right
    BY DEF SplitsUpTo
<1>2. ASSUME NEW n \in Nat, n \in Right PROVE n + 1 \in Right
    <2> SUFFICES ASSUME n + 1 <= m PROVE f[n + 1] = g[n + 1]
        OBVIOUS
    <2>1. /\ n + 1 \in 1..Len(s) /\ n + 1 \in 1..Len(t) /\ (n + 1) - 1 = n
          /\ s[n + 1] = t[n + 1] /\ f[n] = g[n]
        BY <1>2
    <2> QED BY <2>1 DEF SplitsUpTo
<1>3. Nat \subseteq Right
    <2> HIDE DEF Right
    <2> QED BY <1>1, <1>2, SetInduction
<1> QED BY <1>3

\* Characters without a slash make the last segment longer.
LEMMA LastSegmentGrows ==
    ASSUME NEW segs \in Seq(Seq(SegChars)), NEW v \in Seq(SegChars), NEW c \in SegChars
    PROVE  Longer(Append(segs, v), c) = Append(segs, Append(v, c))
<1>1. PICK x : x = Append(v, c)
    OBVIOUS
<1>2. PICK t : t = Append(segs, v)
    OBVIOUS
<1>3. PICK z : z = Append(segs, x)
    OBVIOUS
<1>4. x \in Seq(SegChars) /\ Len(segs) \in Nat
    BY <1>1
<1>5. /\ t \in Seq(Seq(SegChars)) /\ Len(t) = Len(segs) + 1 /\ t[Len(segs) + 1] = v
      /\ \A k \in 1..Len(segs) : t[k] = segs[k]
    BY <1>2, AppendProperties
<1>6. /\ z \in Seq(Seq(SegChars)) /\ Len(z) = Len(segs) + 1 /\ z[Len(segs) + 1] = x
      /\ \A k \in 1..Len(segs) : z[k] = segs[k]
    BY <1>3, <1>4, AppendProperties
<1>7. PICK y : y = [t EXCEPT ![Len(segs) + 1] = x]
    OBVIOUS
<1>8. /\ y \in Seq(Seq(SegChars)) /\ Len(y) = Len(t)
      /\ \A k \in 1..Len(t) : y[k] = IF k = Len(segs) + 1 THEN x ELSE t[k]
    <2>1. Len(segs) + 1 \in 1..Len(t)
        BY <1>4, <1>5
    <2> QED BY <1>4, <1>5, <1>7, <2>1, ExceptSeq
<1>9. ASSUME NEW k \in 1..Len(y) PROVE y[k] = z[k]
    <2>1. CASE k = Len(segs) + 1
        BY <2>1, <1>6, <1>8
    <2>2. CASE k # Len(segs) + 1
        <3>1. k \in 1..Len(segs) /\ k \in 1..Len(t)
            BY <2>2, <1>4, <1>5, <1>8
        <3> QED BY <2>2, <3>1, <1>5, <1>6, <1>8
    <2> QED BY <2>1, <2>2
<1>10. y = z
    <2>1. Len(y) = Len(z)
        BY <1>5, <1>6, <1>8
    <2> QED BY <1>6, <1>8, <1>9, <2>1, SeqEqual
<1>11. Longer(t, c) = y
    <2>1. c # "/"
        BY DEF SegChars
    <2> QED BY <2>1, <1>1, <1>5, <1>7 DEF Longer
<1> QED BY <1>1, <1>2, <1>3, <1>10, <1>11

\* w from its start, up to n.
Filled(v, w, n) == v \in Seq(SegChars) /\ Len(v) = n /\ \A k \in 1..n : v[k] = w[k]

\* Characters without a slash are all in the last segment.
LEMMA SegmentFills ==
    ASSUME NEW s \in Seq(SlugChars), NEW f, SplitsUpTo(f, s), NEW w \in Seq(SegChars),
           NEW m \in Nat, NEW segs \in Seq(Seq(SegChars)), f[m] = Append(segs, <<>>),
           Len(s) = m + Len(w), \A k \in 1..Len(w) : s[m + k] = w[k]
    PROVE  f[Len(s)] = Append(segs, w)
<1>0. Len(w) \in Nat /\ Len(segs) \in Nat /\ Len(s) \in Nat
    OBVIOUS
<1> DEFINE Grown(n) == \E v : Filled(v, w, n) /\ f[m + n] = Append(segs, v)
           Right == {n \in Nat : n <= Len(w) => Grown(n)}
<1>1. 0 \in Right
    <2>1. PICK v : v = <<>>
        OBVIOUS
    <2>2. Filled(v, w, 0)
        BY <2>1 DEF Filled
    <2>3. Grown(0)
        BY <2>1, <2>2
    <2> HIDE DEF Grown
    <2> QED BY <2>3
<1>2. ASSUME NEW n \in Nat, n \in Right PROVE n + 1 \in Right
    <2>1. ASSUME n + 1 <= Len(w) PROVE Grown(n + 1)
        <3>1. Grown(n)
            <4> HIDE DEF Grown
            <4> QED BY <1>0, <1>2, <2>1
        <3>2. PICK v : Filled(v, w, n) /\ f[m + n] = Append(segs, v)
            BY <3>1
        <3>3. v \in Seq(SegChars) /\ Len(v) = n /\ \A k \in 1..n : v[k] = w[k]
            BY <3>2 DEF Filled
        <3>4. /\ n + 1 \in 1..Len(w) /\ m + (n + 1) \in 1..Len(s) /\ (m + (n + 1)) - 1 = m + n
              /\ w[n + 1] \in SegChars /\ s[m + (n + 1)] = w[n + 1]
            BY <1>0, <2>1
        <3>5. f[m + (n + 1)] = Longer(f[m + n], w[n + 1])
            BY <3>4 DEF SplitsUpTo
        <3>6. PICK x : x = Append(v, w[n + 1])
            OBVIOUS
        <3>7. /\ x \in Seq(SegChars) /\ Len(x) = n + 1 /\ x[n + 1] = w[n + 1]
              /\ \A k \in 1..n : x[k] = v[k]
            BY <3>3, <3>4, <3>6
        <3>8. f[m + (n + 1)] = Append(segs, x)
            BY <3>2, <3>3, <3>4, <3>5, <3>6, LastSegmentGrows
        <3>9. \A k \in 1..(n + 1) : x[k] = w[k]
            <4> SUFFICES ASSUME NEW k \in 1..(n + 1) PROVE x[k] = w[k]
                OBVIOUS
            <4>1. CASE k = n + 1
                BY <4>1, <3>7
            <4>2. CASE k # n + 1
                <5>1. k \in 1..n
                    BY <4>2
                <5> QED BY <5>1, <3>3, <3>7
            <4> QED BY <4>1, <4>2
        <3>10. Filled(x, w, n + 1)
            BY <3>7, <3>9 DEF Filled
        <3> QED BY <3>8, <3>10
    <2> HIDE DEF Grown
    <2> QED BY <2>1
<1>3. Grown(Len(w))
    <2>1. Nat \subseteq Right
        <3> HIDE DEF Right
        <3> QED BY <1>1, <1>2, SetInduction
    <2> HIDE DEF Grown
    <2> QED BY <1>0, <2>1
<1>4. PICK v : Filled(v, w, Len(w)) /\ f[m + Len(w)] = Append(segs, v)
    BY <1>3
<1>5. v = w
    <2>1. v \in Seq(SegChars) /\ Len(v) = Len(w) /\ \A k \in 1..Len(w) : v[k] = w[k]
        BY <1>4 DEF Filled
    <2> QED BY <2>1, SeqEqual
<1> QED BY <1>4, <1>5

\* A segment alone, and one that comes after others.
LEMMA SegmentAlone ==
    ASSUME NEW w \in Seq(SegChars)
    PROVE  Segments(w) = <<w>>
<1>1. w \in Seq(SlugChars) /\ Len(w) \in Nat
    <2>1. SegChars \subseteq SlugChars
        BY DEF SegChars, SlugChars
    <2> QED BY <2>1
<1>2. PICK f : Segments(w) = f[Len(w)] /\ SplitsUpTo(f, w)
    BY <1>1, SegmentsUnfold
<1>3. <<>> \in Seq(Seq(SegChars)) /\ \A x : Append(<<>>, x) = <<x>>
    OBVIOUS
<1>4. f[0] = Append(<<>>, <<>>) /\ Len(w) = 0 + Len(w) /\ \A k \in 1..Len(w) : w[0 + k] = w[k]
    BY <1>1, <1>2, <1>3 DEF SplitsUpTo
<1>5. f[Len(w)] = Append(<<>>, w)
    BY <1>1, <1>2, <1>3, <1>4, SegmentFills
<1> QED BY <1>2, <1>3, <1>5

\* A slash and what follows it are one more segment.
LEMMA SegmentAdded ==
    ASSUME NEW t \in Seq(SlugChars), NEW w \in Seq(SegChars)
    PROVE  /\ t \o (<<"/">> \o w) \in Seq(SlugChars)
           /\ Segments(t \o (<<"/">> \o w)) = Append(Segments(t), w)
           /\ Segments(t) \in Seq(Seq(SegChars))
<1>1. PICK x : x = <<"/">> \o w
    OBVIOUS
<1>2. PICK s : s = t \o x
    OBVIOUS
<1>3. /\ x \in Seq(SlugChars) /\ Len(x) = 1 + Len(w) /\ x[1] = "/"
      /\ Len(w) \in Nat /\ Len(t) \in Nat /\ \A k \in 1..Len(w) : x[1 + k] = w[k]
    <2>1. SegChars \subseteq SlugChars /\ "/" \in SlugChars
        BY DEF SegChars, SlugChars
    <2> DEFINE y == <<"/">>
    <2>2. y \in Seq(SlugChars) /\ Len(y) = 1 /\ y[1] = "/"
        BY <2>1
    <2>3. w \in Seq(SlugChars) /\ x = y \o w
        BY <1>1, <2>1
    <2> HIDE DEF y
    <2>4. /\ x \in Seq(SlugChars) /\ Len(x) = Len(y) + Len(w)
          /\ \A i \in 1..(Len(y) + Len(w)) :
                x[i] = IF i <= Len(y) THEN y[i] ELSE w[i - Len(y)]
        BY <2>2, <2>3, ConcatProperties
    <2>5. Len(w) \in Nat /\ Len(t) \in Nat
        OBVIOUS
    <2>6. Len(x) = 1 + Len(w) /\ x[1] = "/"
        BY <2>2, <2>4, <2>5
    <2>7. ASSUME NEW k \in 1..Len(w) PROVE x[1 + k] = w[k]
        <3>1. 1 + k \in 1..(Len(y) + Len(w)) /\ ~ (1 + k <= Len(y)) /\ (1 + k) - Len(y) = k
            BY <2>2, <2>5
        <3> QED BY <3>1, <2>4
    <2> QED BY <2>4, <2>5, <2>6, <2>7
<1>4. /\ s \in Seq(SlugChars) /\ Len(s) = Len(t) + 1 + Len(w)
      /\ \A k \in 1..Len(t) : s[k] = t[k]
      /\ s[Len(t) + 1] = "/" /\ \A k \in 1..Len(w) : s[Len(t) + 1 + k] = w[k]
    <2>1. /\ s \in Seq(SlugChars) /\ Len(s) = Len(t) + Len(x)
          /\ \A i \in 1..(Len(t) + Len(x)) :
                s[i] = IF i <= Len(t) THEN t[i] ELSE x[i - Len(t)]
        <3>1. x \in Seq(SlugChars)
            BY <1>3
        <3> QED BY <3>1, <1>2, ConcatProperties
    <2>2. ASSUME NEW k \in 1..Len(t) PROVE s[k] = t[k]
        BY <2>1, <1>3
    <2>3. s[Len(t) + 1] = x[1]
        <3>1. /\ Len(t) + 1 \in 1..(Len(t) + Len(x)) /\ ~ (Len(t) + 1 <= Len(t))
              /\ (Len(t) + 1) - Len(t) = 1
            BY <1>3
        <3> QED BY <2>1, <3>1
    <2>4. ASSUME NEW k \in 1..Len(w) PROVE s[Len(t) + 1 + k] = w[k]
        <3>1. /\ Len(t) + 1 + k \in 1..(Len(t) + Len(x)) /\ ~ (Len(t) + 1 + k <= Len(t))
              /\ (Len(t) + 1 + k) - Len(t) = 1 + k
            BY <1>3
        <3>2. s[Len(t) + 1 + k] = x[1 + k]
            BY <2>1, <3>1
        <3> QED BY <3>2, <1>3
    <2> QED BY <2>1, <2>2, <2>3, <2>4, <1>3
<1>5. PICK f : Segments(t) = f[Len(t)] /\ SplitsUpTo(f, t)
    BY SegmentsUnfold
<1>6. PICK g : Segments(s) = g[Len(s)] /\ SplitsUpTo(g, s)
    BY <1>4, SegmentsUnfold
<1>7. f[Len(t)] = g[Len(t)]
    <2>1. Len(t) <= Len(t) /\ Len(t) <= Len(s)
        BY <1>3, <1>4
    <2> QED BY <2>1, <1>3, <1>4, <1>5, <1>6, SplitsAgree
<1>8. Segments(t) \in Splits
    <2>1. Len(t) \in 0..Len(t)
        BY <1>3
    <2> QED BY <2>1, <1>5, SplitsType
<1>9. Segments(t) \in Seq(Seq(SegChars))
    BY <1>8 DEF Splits
<1>10. g[Len(t) + 1] = Append(Segments(t), <<>>)
    <2>1. Len(t) + 1 \in 1..Len(s) /\ (Len(t) + 1) - 1 = Len(t)
        BY <1>3, <1>4
    <2>2. g[Len(t) + 1] = Longer(g[Len(t)], "/")
        BY <2>1, <1>4, <1>6 DEF SplitsUpTo
    <2> QED BY <2>2, <1>5, <1>7 DEF Longer
<1>11. g[Len(s)] = Append(Segments(t), w)
    <2>1. Len(t) + 1 \in Nat /\ Len(s) = (Len(t) + 1) + Len(w)
        BY <1>3, <1>4
    <2>2. \A k \in 1..Len(w) : s[(Len(t) + 1) + k] = w[k]
        BY <1>4
    <2> QED BY <1>4, <1>6, <1>9, <1>10, <2>1, <2>2, SegmentFills
<1> QED BY <1>1, <1>2, <1>4, <1>6, <1>9, <1>11

\* How the recursive function of FlattenSeq is written.
LEMMA FlattenUnfolds ==
    ASSUME NEW T, NEW q \in Seq(Seq(T)), q # <<>>
    PROVE  \E g : /\ FlattenSeq(q) = g[Len(q)] /\ g[1] = q[1]
                  /\ \A n \in 2..Len(q) : g[n] = g[n - 1] \o q[n]
<1> DEFINE N == Len(q)
           S == Seq(T)
           turn == [n \in 1..N |-> [v \in S |-> IF n = 1 THEN q[n] ELSE v \o q[n]]]
           Body(f) == [i \in 1..N |-> IF i = 1 THEN q[i] ELSE f[i - 1] \o q[i]]
           flat == CHOOSE f : f = Body(f)
<1>1. N \in Nat /\ N # 0 /\ \A n \in 1..N : q[n] \in S
    OBVIOUS
<1>2. <<>> \in S
    OBVIOUS
<1>3. turn \in Turns(N, S)
    <2>1. ASSUME NEW n \in 1..N, NEW v \in S PROVE (IF n = 1 THEN q[n] ELSE v \o q[n]) \in S
        <3>1. q[n] \in Seq(T) /\ v \in Seq(T)
            BY <1>1
        <3>2. v \o q[n] \in Seq(T)
            BY <3>1, ConcatProperties
        <3> QED BY <3>1, <3>2
    <2> QED BY <2>1 DEF Turns
<1>4. \A n \in 1..N, v \in S : turn[n][v] = IF n = 1 THEN q[n] ELSE v \o q[n]
    OBVIOUS
<1>5. FlattenSeq(q) = flat[N]
    BY <1>1 DEF FlattenSeq
<1> HIDE DEF turn, S, N
<1>6. PICK f : Follows(f, N, S, <<>>, turn)
    BY <1>1, <1>2, <1>3, RecursionExists
<1>7. ASSUME NEW n \in 1..N PROVE f[n] = IF n = 1 THEN q[n] ELSE f[n - 1] \o q[n]
    <2>1. n - 1 \in 0..N
        BY <1>1
    <2>2. f[n - 1] \in S /\ f[n] = turn[n][f[n - 1]]
        BY <2>1, <1>6 DEF Follows
    <2> QED BY <1>4, <2>2
<1> DEFINE g == [n \in 1..N |-> f[n]]
<1>8. g = Body(g)
    <2>1. ASSUME NEW n \in 1..N PROVE g[n] = IF n = 1 THEN q[n] ELSE g[n - 1] \o q[n]
        <3>1. CASE n = 1
            BY <3>1, <1>7
        <3>2. CASE n # 1
            <4>1. n - 1 \in 1..N
                BY <3>2, <1>1
            <4>2. g[n - 1] = f[n - 1] /\ g[n] = f[n]
                BY <4>1
            <4> QED BY <3>2, <4>2, <1>7
        <3> QED BY <3>1, <3>2
    <2>2. g = [n \in 1..N |-> g[n]]
        OBVIOUS
    <2> HIDE DEF g
    <2> QED BY <2>1, <2>2
<1>9. flat = Body(flat)
    <2> HIDE DEF g, Body
    <2> QED BY <1>8
<1> HIDE DEF flat
<1>10. flat[1] = q[1]
    <2>1. 1 \in 1..N
        BY <1>1
    <2> QED BY <2>1, <1>9
<1>11. ASSUME NEW n \in 2..N PROVE flat[n] = flat[n - 1] \o q[n]
    <2>1. n \in 1..N /\ n # 1
        BY <1>1
    <2> QED BY <2>1, <1>9
<1> QED BY <1>5, <1>10, <1>11 DEF N

\* The segments with the slashes between them, as Joined concatenates them.
Linked(segs) == [n \in DOMAIN segs |-> IF n = 1 THEN segs[n] ELSE <<"/">> \o segs[n]]

\* What is concatenated are characters of a slug.
LEMMA LinkedSegments ==
    ASSUME NEW segs \in Seq(Seq(SegChars))
    PROVE  Linked(segs) \in Seq(Seq(SlugChars)) /\ Len(Linked(segs)) = Len(segs)
<1> DEFINE y == <<"/">>
<1>1. SegChars \subseteq SlugChars
    BY DEF SegChars, SlugChars
<1>2. y \in Seq(SlugChars)
    BY DEF SlugChars
<1>3. \A n \in DOMAIN segs : segs[n] \in Seq(SlugChars)
    BY <1>1
<1>4. Linked(segs) = [n \in DOMAIN segs |-> IF n = 1 THEN segs[n] ELSE y \o segs[n]]
    BY DEF Linked
<1> HIDE DEF y
<1>5. \A n \in DOMAIN segs : y \o segs[n] \in Seq(SlugChars)
    BY <1>2, <1>3, ConcatProperties
<1>6. DOMAIN segs = 1..Len(segs) /\ Len(segs) \in Nat
    OBVIOUS
<1> QED BY <1>3, <1>4, <1>5, <1>6

\* The first n of the segments.
Firsts(p, segs, n) ==
    p \in Seq(Seq(SegChars)) /\ Len(p) = n /\ \A k \in 1..n : p[k] = segs[k]

\* Segments joined by slashes are split where they were joined.
LEMMA JoinedSplit ==
    ASSUME NEW segs \in Seq(Seq(SegChars)), segs # <<>>
    PROVE  Joined(segs) \in Seq(SlugChars) /\ Segments(Joined(segs)) = segs
<1>1. Len(segs) \in Nat /\ Len(segs) # 0 /\ \A n \in 1..Len(segs) : segs[n] \in Seq(SegChars)
    OBVIOUS
<1>2. PICK q : q = Linked(segs)
    OBVIOUS
<1>3. q \in Seq(Seq(SlugChars)) /\ Len(q) = Len(segs)
    BY <1>2, LinkedSegments
<1>4. q # <<>> /\ q[1] = segs[1] /\ \A n \in 2..Len(segs) : q[n] = <<"/">> \o segs[n]
    <2>1. q # <<>>
        BY <1>1, <1>3
    <2>2. DOMAIN segs = 1..Len(segs)
        OBVIOUS
    <2>3. 1 \in DOMAIN segs /\ \A n \in 2..Len(segs) : n \in DOMAIN segs /\ n # 1
        BY <1>1, <2>2
    <2> QED BY <2>1, <2>3, <1>2 DEF Linked
<1>5. Joined(segs) = FlattenSeq(q)
    BY <1>2 DEF Joined, Linked
<1>6. PICK g : /\ FlattenSeq(q) = g[Len(q)] /\ g[1] = q[1]
               /\ \A n \in 2..Len(q) : g[n] = g[n - 1] \o q[n]
    BY <1>3, <1>4, FlattenUnfolds
<1> DEFINE Split(n) == g[n] \in Seq(SlugChars) /\ Firsts(Segments(g[n]), segs, n)
           Right == {n \in Nat : 1 <= n /\ n <= Len(segs) => Split(n)}
<1>7. 0 \in Right
    OBVIOUS
<1>8. ASSUME NEW n \in Nat, n \in Right PROVE n + 1 \in Right
    <2>1. ASSUME n + 1 <= Len(segs) PROVE Split(n + 1)
        <3>1. CASE n = 0
            <4>1. PICK w \in Seq(SegChars) : w = segs[1]
                BY <1>1
            <4>2. g[1] = w
                BY <4>1, <1>4, <1>6
            <4>3. w \in Seq(SlugChars)
                <5>1. SegChars \subseteq SlugChars
                    BY DEF SegChars, SlugChars
                <5> QED BY <5>1
            <4>4. PICK p : p = <<w>>
                OBVIOUS
            <4>5. p \in Seq(Seq(SegChars)) /\ Len(p) = 1 /\ p[1] = w
                BY <4>4
            <4>6. Firsts(p, segs, 1)
                BY <4>1, <4>5 DEF Firsts
            <4>7. Segments(w) = p
                BY <4>4, SegmentAlone
            <4> QED BY <3>1, <4>2, <4>3, <4>6, <4>7
        <3>2. CASE n # 0
            <4>1. n >= 1 /\ n <= Len(segs) /\ n + 1 \in 2..Len(segs) /\ (n + 1) - 1 = n
                BY <1>1, <2>1, <3>2
            <4>2. Split(n)
                <5> HIDE DEF Split
                <5> QED BY <1>8, <4>1
            <4>3. PICK t \in Seq(SlugChars) : t = g[n]
                BY <4>2
            <4>4. PICK w \in Seq(SegChars) : w = segs[n + 1]
                BY <1>1, <4>1
            <4>5. g[n + 1] = t \o (<<"/">> \o w)
                BY <1>3, <1>4, <1>6, <4>1, <4>3, <4>4
            <4>6. PICK x : x = t \o (<<"/">> \o w)
                OBVIOUS
            <4>7. /\ x \in Seq(SlugChars) /\ Segments(x) = Append(Segments(t), w)
                BY <4>6, SegmentAdded
            <4>8. PICK p : p = Segments(t)
                OBVIOUS
            <4>9. p \in Seq(Seq(SegChars)) /\ Len(p) = n /\ \A k \in 1..n : p[k] = segs[k]
                BY <4>2, <4>3, <4>8 DEF Firsts
            <4>10. PICK r : r = Append(p, w)
                OBVIOUS
            <4>11. /\ r \in Seq(Seq(SegChars)) /\ Len(r) = n + 1 /\ r[n + 1] = w
                   /\ \A k \in 1..n : r[k] = p[k]
                BY <4>9, <4>10, AppendProperties
            <4>12. ASSUME NEW k \in 1..(n + 1) PROVE r[k] = segs[k]
                <5>1. CASE k = n + 1
                    BY <5>1, <4>4, <4>11
                <5>2. CASE k # n + 1
                    <6>1. k \in 1..n
                        BY <5>2
                    <6> QED BY <6>1, <4>9, <4>11
                <5> QED BY <5>1, <5>2
            <4>13. Firsts(r, segs, n + 1)
                BY <4>11, <4>12 DEF Firsts
            <4> QED BY <4>5, <4>6, <4>7, <4>8, <4>10, <4>13
        <3> QED BY <3>1, <3>2
    <2> HIDE DEF Split
    <2> QED BY <2>1
<1>9. Split(Len(segs))
    <2>1. Nat \subseteq Right
        <3> HIDE DEF Right
        <3> QED BY <1>7, <1>8, SetInduction
    <2>2. 1 <= Len(segs)
        BY <1>1
    <2> HIDE DEF Split
    <2> QED BY <1>1, <2>1, <2>2
<1>10. PICK j : j = Joined(segs)
    OBVIOUS
<1>11. j = g[Len(segs)]
    BY <1>3, <1>5, <1>6, <1>10
<1>12. j \in Seq(SlugChars) /\ Firsts(Segments(j), segs, Len(segs))
    BY <1>9, <1>11
<1>13. Segments(j) = segs
    <2>1. /\ Segments(j) \in Seq(Seq(SegChars)) /\ Len(Segments(j)) = Len(segs)
          /\ \A k \in 1..Len(segs) : Segments(j)[k] = segs[k]
        BY <1>12 DEF Firsts
    <2> QED BY <2>1, SeqEqual
<1> QED BY <1>10, <1>12, <1>13

\* What a name is slugged into: segments that are neither empty nor untidy.
Slugged(segs) ==
    /\ segs \in Seq(Seq(SegChars))
    /\ \A n \in 1..Len(segs) : segs[n] # <<>> /\ Tidy(segs[n])

\* The segments of a name have no slashes.
LEMMA SegmentsSplit ==
    ASSUME NEW s \in Seq(SlugChars)
    PROVE  Segments(s) \in Seq(Seq(SegChars))
<1>1. PICK f : Segments(s) = f[Len(s)] /\ SplitsUpTo(f, s)
    BY SegmentsUnfold
<1>2. Len(s) \in 0..Len(s)
    OBVIOUS
<1>3. Segments(s) \in Splits
    BY <1>1, <1>2, SplitsType
<1> QED BY <1>3 DEF Splits

\* What slug_path makes of the segments of the first pass.
Tidied(segs) == [n \in DOMAIN segs |-> Normed(segs[n])]

\* The passes of slug_path in their order.
LEMMA SlugSegmentsOf ==
    ASSUME NEW s
    PROVE  SlugSegments(s) = LET t == Tidied(Segments(Mapped(s)))
                             IN  Pick(t, {n \in DOMAIN t : t[n] # <<>>})
BY DEF SlugSegments, NonEmpty, NormedSegments, Tidied

\* Whatever the name, what is left of it is segments that are neither empty
\* nor untidy (slug_path, import.rs:230-267).
LEMMA SlugShape ==
    ASSUME NEW s \in Seq(Chars)
    PROVE  Slugged(SlugSegments(s))
<1>1. Mapped(s) \in Seq(SlugChars)
    BY MappedChars
<1>2. PICK segs : segs = Segments(Mapped(s))
    OBVIOUS
<1>3. segs \in Seq(Seq(SegChars))
    BY <1>1, <1>2, SegmentsSplit
<1>4. PICK t : t = Tidied(segs)
    OBVIOUS
<1>5. DOMAIN segs = 1..Len(segs) /\ Len(segs) \in Nat
    BY <1>3
<1>6. ASSUME NEW n \in DOMAIN segs
      PROVE  Normed(segs[n]) \in Seq(SegChars) /\ Tidy(Normed(segs[n]))
    <2>1. segs[n] \in Seq(SegChars)
        BY <1>3
    <2> QED BY <2>1, NormedIsTidy
<1>7. /\ t \in Seq(Seq(SegChars)) /\ DOMAIN t = 1..Len(t)
      /\ \A n \in DOMAIN t : Tidy(t[n])
    BY <1>4, <1>5, <1>6 DEF Tidied
<1> DEFINE at == {n \in DOMAIN t : t[n] # <<>>}
<1>8. PICK p : p = Pick(t, at)
    OBVIOUS
<1>9. p \in Seq(Seq(SegChars)) /\ \E h : Picks(p, h, t, at, Len(t))
    <2> HIDE DEF at
    <2> QED BY <1>7, <1>8, PickShape
<1>10. PICK h : Picks(p, h, t, at, Len(t))
    BY <1>9
<1>11. ASSUME NEW k \in 1..Len(p) PROVE p[k] # <<>> /\ Tidy(p[k])
    <2>1. h[k] \in at /\ p[k] = t[h[k]]
        BY <1>10 DEF Picks
    <2> QED BY <2>1, <1>7
<1>12. SlugSegments(s) = p
    BY <1>2, <1>4, <1>8, SlugSegmentsOf
<1> QED BY <1>9, <1>11, <1>12 DEF Slugged

\* Such segments, joined to a path and slugged, come back as they are.
LEMMA SlugAgain ==
    ASSUME NEW segs, Slugged(segs)
    PROVE  SlugSegments(Joined(segs)) = segs
<1>1. segs \in Seq(Seq(SegChars)) /\ DOMAIN segs = 1..Len(segs) /\ Len(segs) \in Nat
    BY DEF Slugged
<1>2. CASE segs # <<>>
    <2>1. Joined(segs) \in Seq(SlugChars) /\ Segments(Joined(segs)) = segs
        BY <1>1, <1>2, JoinedSplit
    <2>2. Segments(Mapped(Joined(segs))) = segs
        BY <2>1, MappedAgain
    <2>3. PICK t : t = Tidied(segs)
        OBVIOUS
    <2>4. \A n \in DOMAIN segs : Normed(segs[n]) = segs[n]
        <3> SUFFICES ASSUME NEW n \in DOMAIN segs PROVE Normed(segs[n]) = segs[n]
            OBVIOUS
        <3>1. segs[n] \in Seq(SegChars) /\ Tidy(segs[n])
            BY <1>1 DEF Slugged
        <3> QED BY <3>1, TidyStays
    <2>5. segs = [n \in DOMAIN segs |-> segs[n]]
        BY <1>1
    <2>6. t = segs
        BY <2>3, <2>4, <2>5 DEF Tidied
    <2> DEFINE at == {n \in DOMAIN segs : segs[n] # <<>>}
    <2>7. DOMAIN segs \subseteq at
        BY <1>1 DEF Slugged
    <2>8. Pick(segs, at) = segs
        <3> HIDE DEF at
        <3> QED BY <1>1, <2>7, PickAll
    <2> QED BY <2>2, <2>3, <2>6, <2>8, SlugSegmentsOf
<1>3. CASE segs = <<>>
    <2> DEFINE none == <<>>
               one == <<none>>
    <2>1. none \in Seq(SegChars) /\ none \in Seq(SlugChars)
        OBVIOUS
    <2>2. Joined(none) = none
        <3>1. Len(none) = 0 /\ DOMAIN none = {}
            OBVIOUS
        <3>2. [n \in DOMAIN none |-> IF n = 1 THEN none[n] ELSE <<"/">> \o none[n]] = none
            BY <3>1
        <3> HIDE DEF none
        <3> QED BY <3>1, <3>2 DEF Joined, FlattenSeq
    <2>3. Mapped(none) = none /\ Segments(none) = one
        <3> HIDE DEF none
        <3> QED BY <2>1, MappedAgain, SegmentAlone DEF one
    <2>4. Tidy(none)
        BY DEF Tidy
    <2>5. Normed(none) = none
        <3> HIDE DEF none
        <3> QED BY <2>1, <2>4, TidyStays
    <2>6. DOMAIN one = 1..1 /\ one[1] = none /\ one \in Seq(Seq(SegChars)) /\ Len(one) = 1
        BY <2>1
    <2>7. Tidied(one) = one
        <3>1. one = [n \in DOMAIN one |-> one[n]]
            OBVIOUS
        <3>2. \A n \in DOMAIN one : Normed(one[n]) = one[n]
            <4>1. \A n \in DOMAIN one : one[n] = none
                BY <2>6
            <4> HIDE DEF one, none
            <4> QED BY <2>5, <4>1
        <3> HIDE DEF one
        <3> QED BY <3>1, <3>2 DEF Tidied
    <2> DEFINE at == {n \in DOMAIN one : one[n] # none}
    <2>8. at = {}
        BY <2>6
    <2>9. Pick(one, {}) = none
        <3> HIDE DEF one
        <3>1. PICK f : Pick(one, {}) = f[Len(one)] /\ PicksUpTo(f, one, {})
            BY <2>6, PickUnfolds
        <3>2. f[0] = none /\ f[1] = f[1 - 1]
            BY <2>6, <3>1 DEF PicksUpTo
        <3> QED BY <2>6, <3>1, <3>2
    <2>10. SlugSegments(none) = Pick(one, at)
        <3> HIDE DEF one
        <3> QED BY <2>3, <2>7, SlugSegmentsOf
    <2>11. SlugSegments(Joined(none)) = none
        <3> HIDE DEF none, one, at
        <3> QED BY <2>2, <2>8, <2>9, <2>10
    <2> QED BY <1>3, <2>11
<1> QED BY <1>2, <1>3

\* A slug is empty or a path, unless a segment is nothing but dots, and
\* slugging it again changes nothing, whatever the name (slug_path,
\* import.rs:230-267; RelPath::validate, path.rs:44-72).
THEOREM SlugsStaySlugs == ImportSpec => []SlugsArePaths
<1>1. ImportIInv => SlugsArePaths
    <2> SUFFICES ASSUME ImportIInv PROVE SlugsArePaths
        OBVIOUS
    <2>1. PICK segs : segs = SlugSegments(title)
        OBVIOUS
    <2>2. Slugged(segs)
        BY <2>1, SlugShape DEF ImportIInv
    <2>3. SlugSegments(Joined(segs)) = segs
        BY <2>2, SlugAgain
    <2>4. \A n \in DOMAIN segs : segs[n] # <<>>
        BY <2>2 DEF Slugged
    <2>5. ASSUME segs # <<>>, ~ \E n \in DOMAIN segs : segs[n] \in {<<".">>, <<".", ".">>}
          PROVE  ValidPath(segs)
        BY <2>4, <2>5 DEF ValidPath
    <2> QED BY <2>1, <2>3, <2>5 DEF SlugsArePaths
<1> QED BY <1>1, ImportInvariant, PTL
-----------------------------------------------------------------------------
(* The parts together.                                                     *)

\* Nothing that one part does is seen by another: what is proved of a part by
\* itself holds of it in MCLocal, where the runs check it.
THEOREM PartsKeepApart ==
    LocalSpec => /\ Spec /\ SocketSpec /\ WatcherSpec /\ ClipSpec /\ PushSpec
                 /\ HostSpec /\ BridgeSpec /\ ImportSpec /\ GpgSpec
<1>1. LocalInit => /\ Init /\ SocketInit /\ WatcherInit /\ ClipInit /\ PushInit
                   /\ HostInit /\ BridgeInit /\ ImportInit /\ GpgInit
    BY DEF LocalInit
<1>2. [LocalNext]_localVars =>
          /\ [Next]_vars /\ [SocketNext]_socketVars /\ [WatcherNext]_watcherVars
          /\ [ClipNext]_clipVars /\ [PushNext]_pushVars /\ [HostNext]_hostVars
          /\ [BridgeNext]_bridgeVars /\ [ImportNext]_importVars /\ [GpgNext]_gpgVars
    <2>1. CASE UNCHANGED localVars
        BY <2>1 DEF localVars
    <2>2. CASE LocalNext
        BY <2>2 DEF LocalNext, Limiter, Socket, StoreWatcher, Clips, RemoteSync, Browser, Phone,
                    Importer, Gpg
    <2> QED BY <2>1, <2>2
<1> QED
    BY <1>1, <1>2, PTL DEF LocalSpec, Spec, SocketSpec, WatcherSpec, ClipSpec, PushSpec,
        HostSpec, BridgeSpec, ImportSpec, GpgSpec

\* The types of all the parts, while any one of them runs.
THEOREM LocalTypes == LocalSpec => []LocalTypeOK
<1>1. WatcherInit => WatcherTypeOK
    <2> SUFFICES ASSUME WatcherInit PROVE WatcherTypeOK
        OBVIOUS
    <2>1. /\ raw \in Seq(Events) /\ Len(raw) <= MaxRaw
          /\ deadline \in 0..Never /\ changes \in 0..MaxChanges
        BY WatcherNumbers DEF WatcherInit, Never
    <2> QED BY <2>1 DEF WatcherInit, WatcherTypeOK
<1>2. WatcherTypeOK /\ [WatcherNext]_watcherVars => WatcherTypeOK'
    BY WatcherTypeStep
<1>3. WatcherSpec => []WatcherTypeOK
    BY <1>1, <1>2, PTL DEF WatcherSpec
<1>4. ClipInit => ClipTypeOK
    BY ClipboardAssumption DEF ClipInit, ClipTypeOK
<1>5. ClipTypeOK /\ [ClipNext]_clipVars => ClipTypeOK'
    BY ClipTypeStep
<1>6. ClipSpec => []ClipTypeOK
    BY <1>4, <1>5, PTL DEF ClipSpec
<1>7. BridgeInit => BridgeTypeOK
    BY AndroidBridgeAssumption DEF BridgeInit, BridgeTypeOK
<1>8. BridgeTypeOK /\ [BridgeNext]_bridgeVars => BridgeTypeOK'
    BY BridgeTypeStep
<1>9. BridgeSpec => []BridgeTypeOK
    BY <1>7, <1>8, PTL DEF BridgeSpec
<1>10. LocalInit => part \in Parts
    BY DEF LocalInit
<1>11. part \in Parts /\ [LocalNext]_localVars => (part \in Parts)'
    BY DEF LocalNext, localVars, Limiter, Socket, StoreWatcher, Clips, RemoteSync, Browser,
           Phone, Importer, Gpg
<1>12. LocalSpec => [](part \in Parts)
    <2> DEFINE Known == part \in Parts
    <2>1. LocalInit => Known
        BY <1>10
    <2>2. Known /\ [LocalNext]_localVars => Known'
        BY <1>11
    <2> HIDE DEF Known
    <2>3. LocalSpec => []Known
        BY <2>1, <2>2, PTL DEF LocalSpec
    <2> QED BY <2>3 DEF Known
<1>13. (/\ part \in Parts /\ TypeOK /\ SocketTypeOK /\ WatcherTypeOK /\ ClipTypeOK /\ PushTypeOK
        /\ HostTypeOK /\ BridgeTypeOK /\ ImportTypeOK /\ GpgTypeOK) => LocalTypeOK
    BY DEF LocalTypeOK
<1> QED
    BY <1>3, <1>6, <1>9, <1>12, <1>13, PartsKeepApart, TypeCorrect, SocketTypeCorrect,
       PushTypeCorrect, HostTypeCorrect, ImportTypeCorrect, GpgTypeCorrect, PTL
=============================================================================
