--------------------------- MODULE AndroidBridge ---------------------------
(***************************************************************************)
(* How a call of the Android app gets its answer from OpenKeychain: the    *)
(* store behind the mutex of the bindings (bypass-ffi/src/lib.rs), whose   *)
(* encrypt and decrypt run on the IO thread of OpenKeychainCrypto.kt, and  *)
(* the bridge that hands OpenKeychain's dialogs to MainActivity            *)
(* (CryptoUiBridge.kt, MainActivity.kt) and the user's answers back.       *)
(*                                                                         *)
(* OpenKeychain and Android are external: OpenKeychain may ask the user in *)
(* every round, dialogs lie on top of each other, and the user can end     *)
(* only the one on top.                                                    *)
(***************************************************************************)
EXTENDS Naturals, Sequences

CONSTANTS
    ApiCalls,    \* calls of the repository that encrypt or decrypt
    MaxRounds,   \* MAX_INTERACTION_ROUNDS
    MaxRestarts  \* bound on how often the activity is recreated

Nobody == <<"nobody">>

ASSUME AndroidBridgeAssumption ==
    MaxRounds \in Nat \ {0} /\ MaxRestarts \in Nat /\ Nobody \notin ApiCalls

VARIABLES
    holder,     \* the call whose thread holds the store's mutex, or Nobody
    thread,     \* how far each call is
    round,      \* the round of each call
    emitted,    \* `requests`: emitted and not collected yet
    waiting,    \* pendingRequests of the activity
    dialogs,    \* OpenKeychain's dialogs, the one on top last
    box,        \* what was delivered to each call in its present round
    restarts,   \* how often the activity was recreated
    calm        \* no call timed out and no activity was recreated so far

bridgeVars == <<holder, thread, round, emitted, waiting, dialogs, box, restarts, calm>>

Undelivered == <<"nothing">>
UiRequests == ApiCalls \X (1..MaxRounds)  \* CryptoUiRequest: one per round
UiRequest(c) == <<c, round[c]>>

\* An answer and the dialog in which it was given; Refused is deliver(null).
Answers == {"ok", "canceled"} \X UiRequests
Refused == <<"refused">>

BridgeTypeOK ==
    /\ holder \in ApiCalls \cup {Nobody}
    /\ thread \in [ApiCalls -> {"idle", "locking", "executes", "blocked", "done", "failed"}]
    /\ round \in [ApiCalls -> 1..MaxRounds]
    /\ emitted \in Seq(UiRequests) /\ waiting \in Seq(UiRequests) /\ dialogs \in Seq(UiRequests)
    /\ box \in [ApiCalls -> Answers \cup {Undelivered, Refused}]
    /\ restarts \in 0..MaxRestarts /\ calm \in BOOLEAN
    /\ \A c \in ApiCalls : thread[c] \in {"executes", "blocked"} <=> holder = c

BridgeInit ==
    /\ holder = Nobody
    /\ thread = [c \in ApiCalls |-> "idle"] /\ round = [c \in ApiCalls |-> 1]
    /\ emitted = <<>> /\ waiting = <<>> /\ dialogs = <<>>
    /\ box = [c \in ApiCalls |-> Undelivered]
    /\ restarts = 0 /\ calm = TRUE

Enters(c, to) == thread' = [thread EXCEPT ![c] = to]
Ends(c, how) == Enters(c, how) /\ holder' = Nobody

\* A screen calls the repository.  A screen that is left cancels only its
\* coroutine: the thread goes on.
Begin(c) ==
    /\ thread[c] = "idle"
    /\ Enters(c, "locking")
    /\ UNCHANGED <<holder, round, emitted, waiting, dialogs, box, restarts, calm>>

\* BypassStore::lock
Lock(c) ==
    /\ thread[c] = "locking" /\ holder = Nobody
    /\ holder' = c
    /\ Enters(c, "executes")
    /\ UNCHANGED <<round, emitted, waiting, dialogs, box, restarts, calm>>

\* executeApi: success, an error, or a dialog for the user, which is emitted.
Execute(c) ==
    /\ thread[c] = "executes"
    /\ \/ \E how \in {"done", "failed"} : Ends(c, how)
          /\ UNCHANGED <<emitted, box>>
       \/ /\ Enters(c, "blocked")
          /\ emitted' = Append(emitted, UiRequest(c))
          /\ box' = [box EXCEPT ![c] = Undelivered]
          /\ UNCHANGED holder
    /\ UNCHANGED <<round, waiting, dialogs, restarts, calm>>

\* deliver: only the first answer to a request counts, and only while its call
\* waits for that request.
Delivered(req, answer) ==
    IF thread[req[1]] = "blocked" /\ round[req[1]] = req[2] /\ box[req[1]] = Undelivered
    THEN [box EXCEPT ![req[1]] = answer]
    ELSE box

\* The collector of the activity launches the dialog.
Collect ==
    /\ emitted # <<>>
    /\ emitted' = Tail(emitted)
    /\ waiting' = Append(waiting, Head(emitted))
    /\ dialogs' = Append(dialogs, Head(emitted))
    /\ UNCHANGED <<holder, thread, round, box, restarts, calm>>

\* Faulty variant: a request that could not be launched stays in the queue.
CollectFailsKeeping ==
    /\ emitted # <<>>
    /\ emitted' = Tail(emitted)
    /\ waiting' = Append(waiting, Head(emitted))
    /\ box' = Delivered(Head(emitted), Refused)
    /\ UNCHANGED <<holder, thread, round, dialogs, restarts, calm>>

\* The launch throws: the request leaves the queue again.
CollectFails ==
    /\ emitted # <<>>
    /\ emitted' = Tail(emitted)
    /\ box' = Delivered(Head(emitted), Refused)
    /\ UNCHANGED <<holder, thread, round, waiting, dialogs, restarts, calm>>

\* The user ends the dialog on top; the launcher's callback gives the result
\* to the head of the queue, if there is one.
Answer(result) ==
    /\ dialogs # <<>>
    /\ LET shown == dialogs[Len(dialogs)] IN
         /\ dialogs' = SubSeq(dialogs, 1, Len(dialogs) - 1)
         /\ IF waiting = <<>>
            THEN UNCHANGED <<waiting, box>>
            ELSE /\ waiting' = Tail(waiting)
                 /\ box' = Delivered(Head(waiting), <<result, shown>>)
    /\ UNCHANGED <<holder, thread, round, emitted, restarts, calm>>

\* The thread takes its answer: cancelled, the next round, or one too many.
TakeAnswer(c) ==
    /\ thread[c] = "blocked" /\ box[c] # Undelivered
    /\ IF box[c][1] = "ok" /\ round[c] < MaxRounds
       THEN /\ Enters(c, "executes")
            /\ round' = [round EXCEPT ![c] = @ + 1]
            /\ UNCHANGED holder
       ELSE Ends(c, "failed") /\ UNCHANGED round
    /\ UNCHANGED <<emitted, waiting, dialogs, box, restarts, calm>>

\* Faulty variant: the call fails, and its thread keeps the mutex.
TimeoutHolding(c) ==
    /\ thread[c] = "blocked" /\ box[c] = Undelivered
    /\ Enters(c, "failed")
    /\ calm' = FALSE
    /\ UNCHANGED <<holder, round, emitted, waiting, dialogs, box, restarts>>

\* poll gives up after TIMEOUT_SECONDS.  The dialog stays where it is, and the
\* request stays in the queue.
Timeout(c) ==
    /\ thread[c] = "blocked" /\ box[c] = Undelivered
    /\ Ends(c, "failed")
    /\ calm' = FALSE
    /\ UNCHANGED <<round, emitted, waiting, dialogs, box, restarts>>

\* The activity is recreated, as on every rotation: the new one has an empty
\* queue, and what was emitted while nobody collected is gone.
Recreate ==
    /\ restarts < MaxRestarts
    /\ restarts' = restarts + 1
    /\ waiting' = <<>>
    /\ emitted' \in {emitted, <<>>}
    /\ calm' = FALSE
    /\ UNCHANGED <<holder, thread, round, dialogs, box>>

ThreadStep(c) == Lock(c) \/ Execute(c) \/ TakeAnswer(c) \/ Timeout(c)

BridgeNext ==
    \/ \E c \in ApiCalls : Begin(c) \/ ThreadStep(c)
    \/ \E result \in {"ok", "canceled"} : Answer(result)
    \/ Collect \/ CollectFails \/ Recreate

BridgeSpec == BridgeInit /\ [][BridgeNext]_bridgeVars

\* Threads run and their timeouts expire; a thread that waits for the mutex
\* gets it some day, however often it is passed over.  The user is not forced.
BridgeFairness ==
    \A c \in ApiCalls : SF_bridgeVars(Lock(c)) /\ WF_bridgeVars(Execute(c))
                       /\ WF_bridgeVars(TakeAnswer(c)) /\ WF_bridgeVars(Timeout(c))

-----------------------------------------------------------------------------
\* A call that waits is given what the user answers in its own dialog, and
\* until then the dialog is on its way or there to be answered, as long as
\* nobody was too slow and the activity lived on (MainActivity.kt:41-76, the
\* queue that pairs launches with callbacks).
OwnAnswer(c) == box[c] \in {Undelivered, Refused} \/ box[c][2] = UiRequest(c)
Answerable(c) ==
    emitted = <<UiRequest(c)>> \/ (waiting = <<UiRequest(c)>> /\ dialogs = waiting)
AnswersReachTheirCall ==
    calm => \A c \in ApiCalls : thread[c] = "blocked" =>
                IF box[c] = Undelivered THEN Answerable(c) ELSE OwnAnswer(c)

\* No call holds the store for good, so every call ends, whatever the user
\* does (lib.rs:204-212, CryptoUiBridge.kt:53-66, OpenKeychainCrypto.kt:120-173).
BridgeCallsEnd == \A c \in ApiCalls : thread[c] = "locking" ~> thread[c] \in {"done", "failed"}
=============================================================================
