----------------------------- MODULE NativeHost -----------------------------
(***************************************************************************)
(* The browser extension and its native messaging host: the popup          *)
(* (extension/src/popup.ts), its promise client (native.ts), and the host  *)
(* loop that answers one framed request at a time (messaging_host.rs).     *)
(*                                                                         *)
(* The browser between them is external: it keeps each direction in order, *)
(* and tells the popup that the host is gone after its last reply.         *)
(***************************************************************************)
EXTENDS Naturals, Sequences

CONSTANTS
    Patterns,     \* what can be typed into the search field; None is no text
    MayBeLarge,   \* TRUE: a reply may be larger than MAX_REPLY_BYTES
    MaxRequests   \* bound on the requests of one popup

NotArmed == <<"not armed">>

ASSUME NativeHostAssumption ==
    MayBeLarge \in BOOLEAN /\ MaxRequests \in Nat \ {0} /\ NotArmed \notin Patterns

VARIABLES
    typed,     \* the text in the search field
    unheard,   \* history: it was typed when no listener was attached yet
    timer,     \* the argument of the debounced call, or NotArmed
    list,      \* the pattern whose matches are shown, or NotShown
    status,    \* "loading", "ready", "failed" (the last list was not had), "dead"
    nextId,    \* nextId of NativeClient
    pending,   \* pending: request id -> what was asked
    open,      \* ~ closed
    toHost,    \* requests the host has not read yet
    toPopup,   \* replies on their way
    hostUp     \* the host process runs

hostVars == <<typed, unheard, timer, list, status, nextId, pending, open, toHost, toPopup, hostUp>>

None == <<"none">>
NotShown == <<"not shown">>
Queries == Patterns \cup {None}
List(q) == <<"list", q>>
Show == <<"show">>
Bodies == {List(q) : q \in Queries} \cup {Show}
Ids == 1..MaxRequests
Replies == [id : Ids \cup {0}, ok : BOOLEAN, body : Bodies]

HostTypeOK ==
    /\ typed \in Queries /\ unheard \in BOOLEAN /\ timer \in Queries \cup {NotArmed}
    /\ list \in Queries \cup {NotShown}
    /\ status \in {"loading", "ready", "failed", "dead"}
    /\ nextId \in 1..(MaxRequests + 1)
    /\ DOMAIN pending \subseteq 1..(nextId - 1)
    /\ \A id \in DOMAIN pending : pending[id] \in Bodies
    /\ open \in BOOLEAN /\ hostUp \in BOOLEAN
    /\ toHost \in Seq([id : Ids, body : Bodies]) /\ toPopup \in Seq(Replies)
    /\ Len(toHost) + Len(toPopup) < nextId

Without(id) == [i \in DOMAIN pending \ {id} |-> pending[i]]

HostInit ==
    /\ typed = None /\ unheard = FALSE /\ timer = NotArmed /\ list = NotShown /\ status = "loading"
    /\ nextId = 1 /\ pending = <<>>
    /\ open = FALSE /\ hostUp = FALSE
    /\ toHost = <<>> /\ toPopup = <<>>

\* The popup opens its port, the browser starts the host, and everything is
\* asked for.
OpenPopup ==
    /\ nextId = 1
    /\ nextId' = 2 /\ pending' = [id \in {1} |-> List(None)]
    /\ open' = TRUE /\ hostUp' = TRUE
    /\ toHost' = <<[id |-> 1, body |-> List(None)]>>
    /\ UNCHANGED <<typed, unheard, timer, list, status, toPopup>>

\* NativeClient.request.  What is posted to a host that is gone is lost.
Request(body) ==
    /\ nextId \in Ids
    /\ IF open
       THEN /\ nextId' = nextId + 1
            /\ pending' = [id \in DOMAIN pending \cup {nextId} |->
                              IF id = nextId THEN body ELSE pending[id]]
            /\ toHost' = IF hostUp THEN Append(toHost, [id |-> nextId, body |-> body]) ELSE toHost
            /\ UNCHANGED status
       ELSE /\ status' = IF body = Show THEN status ELSE "failed"
            /\ UNCHANGED <<nextId, pending, toHost>>
    /\ UNCHANGED <<typed, unheard, list, open, toPopup, hostUp>>

\* Faulty variant: while the timer runs, what is typed is not taken up.
TypeFirstWins(q) ==
    /\ nextId \in Ids
    /\ typed' = q
    /\ IF status \in {"ready", "failed"}
       THEN timer' = (IF timer = NotArmed THEN q ELSE timer) /\ unheard' = FALSE
       ELSE unheard' = TRUE /\ UNCHANGED timer
    /\ UNCHANGED <<list, status, nextId, pending, open, toHost, toPopup, hostUp>>

\* The field takes text from the start, but main listens for input events only
\* once it has shown the first list; debounce then replaces the call that waits.
Type(q) ==
    /\ nextId \in Ids
    /\ typed' = q
    /\ IF status \in {"ready", "failed"}
       THEN timer' = q /\ unheard' = FALSE
       ELSE unheard' = TRUE /\ UNCHANGED timer
    /\ UNCHANGED <<list, status, nextId, pending, open, toHost, toPopup, hostUp>>

\* runSearch
Search ==
    /\ timer # NotArmed
    /\ Request(List(timer))
    /\ timer' = NotArmed

\* The Copy button of an entry.
Copy ==
    /\ list # NotShown
    /\ Request(Show)
    /\ UNCHANGED timer

\* One turn of the host loop: the request is dispatched and answered, with the
\* reply of the operation, its error, or, if the reply is too large, an error
\* whose id is 0.
Serve ==
    /\ hostUp /\ toHost # <<>>
    /\ LET req == Head(toHost) IN
         \/ \E ok \in BOOLEAN :
              toPopup' = Append(toPopup, [id |-> req.id, ok |-> ok, body |-> req.body])
         \/ /\ MayBeLarge
            /\ toPopup' = Append(toPopup, [id |-> 0, ok |-> FALSE, body |-> req.body])
    /\ toHost' = Tail(toHost)
    /\ UNCHANGED <<typed, unheard, timer, list, status, nextId, pending, open, hostUp>>

\* The host ends: killed, a panic, an error on a frame (`?` in run).
HostEnds ==
    /\ hostUp
    /\ hostUp' = FALSE /\ toHost' = <<>>
    /\ UNCHANGED <<typed, unheard, timer, list, status, nextId, pending, open, toPopup>>

\* What the popup is told when a list cannot be had.
ListFailed == IF status = "loading" THEN "dead" ELSE "failed"

\* What the code after an `await client.request(...)` does with the answer.
Continue(body, ok) ==
    IF body = Show THEN UNCHANGED <<status, list>>
    ELSE IF ok THEN status' = "ready" /\ list' = body[2]
         ELSE status' = ListFailed /\ UNCHANGED list

\* onMessage: a reply whose id is not pending is ignored.
Receive ==
    /\ open /\ toPopup # <<>>
    /\ toPopup' = Tail(toPopup)
    /\ LET reply == Head(toPopup) IN
         IF reply.id \in DOMAIN pending
         THEN /\ pending' = Without(reply.id)
              /\ Continue(reply.body, reply.ok)
         ELSE UNCHANGED <<pending, status, list>>
    /\ UNCHANGED <<typed, unheard, timer, nextId, open, toHost, hostUp>>

\* Faulty variant: the promises that wait are forgotten.
DisconnectedQuietly ==
    /\ open /\ ~ hostUp /\ toPopup = <<>>
    /\ open' = FALSE
    /\ UNCHANGED <<typed, unheard, timer, list, status, nextId, pending, toHost, toPopup, hostUp>>

\* onDisconnect: every promise that waits is rejected.
Disconnected ==
    /\ open /\ ~ hostUp /\ toPopup = <<>>
    /\ open' = FALSE
    /\ status' = IF \A id \in DOMAIN pending : pending[id] = Show THEN status ELSE ListFailed
    /\ pending' = <<>>
    /\ UNCHANGED <<typed, unheard, timer, list, nextId, toHost, toPopup, hostUp>>

HostNext ==
    \/ \E q \in Queries : Type(q)
    \/ OpenPopup \/ Search \/ Copy \/ Serve \/ HostEnds \/ Receive \/ Disconnected

HostSpec == HostInit /\ [][HostNext]_hostVars

\* The host loop and the browser's event loop run; the user need not do
\* anything, and the host need not end.
HostFairness ==
    WF_hostVars(Serve) /\ WF_hostVars(Receive) /\ WF_hostVars(Disconnected)

-----------------------------------------------------------------------------
\* The text the popup knows of: what was typed before the listener was there
\* (popup.ts:139, 169) waits for the next input event.
Wanted == IF unheard THEN None ELSE typed

\* When nothing is under way, the list is that of the text in the field,
\* whatever was typed while older searches were still out (popup.ts:109-118,
\* 154-169); of a text typed while the first list was loading it is not: that
\* one stays in the field next to the full list.
ListMatchesField ==
    (/\ status = "ready" /\ timer = NotArmed
     /\ \A id \in DOMAIN pending : pending[id] = Show) => list = Wanted

\* Every promise is settled, by its reply or by the end of the host
\* (native.ts:42-58, 76-109).  Needs ~MayBeLarge: the host answers a request
\* whose reply is too large under an id nobody waits for
\* (messaging_host.rs:143-156).
PromisesSettle == \A id \in Ids : id \in DOMAIN pending ~> id \notin DOMAIN pending
=============================================================================
