----------------------------- MODULE Transport -----------------------------
(***************************************************************************)
(* The libp2p transport (sync/libp2p_transport.rs) of several devices.     *)
(* On each, the code that holds the transport talks to a background task   *)
(* through channels: commands one way, inbound requests the other.  The    *)
(* task owns the swarm and matches what the library reports with           *)
(* pending_outbound (the callers that wait) and pending_inbound (the       *)
(* library's channels for answers still to be given).                      *)
(*                                                                         *)
(* The library and the network are external: a stream per request, which   *)
(* carries it over, carries the answer back, or breaks at any moment (a    *)
(* lost connection, its own timeout, a process that ends).                 *)
(***************************************************************************)
EXTENDS Naturals, Sequences, FiniteSets

CONSTANTS
    Devices,
    Requests,   \* calls of Transport::request: <<caller, callee, number>>
    Dials       \* calls of Libp2pTransport::dial, likewise

Calls == Requests \cup Dials
From(c) == c[1]
To(c) == c[2]

ASSUME TransportAssumption ==
    /\ Requests \subseteq Devices \X Devices \X Nat
    /\ Dials \subseteq Devices \X Devices \X Nat
    /\ Requests \cap Dials = {}

VARIABLES
    handle,      \* devices whose Libp2pTransport has not been dropped
    task,        \* devices whose run_swarm is running
    cmds,        \* cmd_rx of each device
    pendingOut,  \* pending_outbound: the requests with a waiting oneshot
    pendingIn,   \* pending_inbound: <<id, request>>
    nextId,      \* next_inbound_id
    inbound,     \* inbound_rx: records of request and id
    held,        \* Reply handles the code holds, as such records
    stream,      \* the library's stream of each request
    payload,     \* the request that the answer on a stream was made for
    call,        \* how far each call is
    told,        \* the requests whose Reply was sent
    got          \* the request whose answer each request ended with

vars == <<handle, task, cmds, pendingOut, pendingIn, nextId, inbound, held, stream,
          payload, call, told, got>>
taskState == <<pendingOut, pendingIn, nextId>>

Nothing == <<>>
Inbound == [req : Requests, id : Nat]
Cmd == [op : {"request"}, call : Requests] \cup [op : {"dial"}, call : Dials]
          \cup [op : {"respond"}, bytes : Requests, id : Nat] \cup [op : {"shutdown"}]

TypeOK ==
    /\ handle \subseteq Devices /\ task \subseteq Devices
    /\ cmds \in [Devices -> Seq(Cmd)]
    /\ pendingOut \in [Devices -> SUBSET Requests]
    /\ pendingIn \in [Devices -> SUBSET (Nat \X Requests)]
    /\ nextId \in [Devices -> Nat]
    /\ \A d \in Devices : \A p \in pendingIn[d] : p[1] < nextId[d]
    /\ inbound \in [Devices -> Seq(Inbound)]
    /\ held \in [Devices -> SUBSET Inbound]
    /\ stream \in [Requests -> {"none", "out", "in", "back", "cut", "done"}]
    /\ payload \in [Requests -> Requests \cup {Nothing}]
    /\ call \in [Calls -> {"new", "open", "ok", "failed", "cancelled"}]
    /\ told \subseteq Requests
    /\ got \in [Requests -> Requests \cup {Nothing}]

\* Libp2pTransport::new has returned on every device.
Init ==
    /\ handle = Devices /\ task = Devices
    /\ cmds = [d \in Devices |-> <<>>]
    /\ pendingOut = [d \in Devices |-> {}]
    /\ pendingIn = [d \in Devices |-> {}]
    /\ nextId = [d \in Devices |-> 0]
    /\ inbound = [d \in Devices |-> <<>>]
    /\ held = [d \in Devices |-> {}]
    /\ stream = [r \in Requests |-> "none"]
    /\ payload = [r \in Requests |-> Nothing]
    /\ call = [c \in Calls |-> "new"]
    /\ told = {}
    /\ got = [r \in Requests |-> Nothing]

-----------------------------------------------------------------------------
(* The code that uses the transport.                                       *)

\* cmd_tx.send: an error, and so SwarmGone, once the task has ended.
Submit(d, cmd) == cmds' = IF d \in task THEN [cmds EXCEPT ![d] = Append(@, cmd)] ELSE cmds

Ask(c) ==
    /\ From(c) \in handle /\ call[c] = "new"
    /\ Submit(From(c), [op |-> IF c \in Dials THEN "dial" ELSE "request", call |-> c])
    /\ call' = [call EXCEPT ![c] = "open"]
    /\ UNCHANGED <<handle, task, taskState, inbound, held, stream, payload, told, got>>

\* A caller drops the future it was waiting on.
Cancel(c) ==
    /\ call[c] = "open"
    /\ call' = [call EXCEPT ![c] = "cancelled"]
    /\ UNCHANGED <<handle, task, cmds, taskState, inbound, held, stream, payload, told, got>>

NextRequest(d) ==
    /\ d \in handle /\ inbound[d] # <<>>
    /\ inbound' = [inbound EXCEPT ![d] = Tail(@)]
    /\ held' = [held EXCEPT ![d] = @ \cup {Head(inbound[d])}]
    /\ UNCHANGED <<handle, task, cmds, taskState, stream, payload, call, told, got>>

\* The answer is identified by the request it was made for.
SendReply(d) ==
    \E m \in held[d] :
        /\ held' = [held EXCEPT ![d] = @ \ {m}]
        /\ told' = told \cup {m.req}
        /\ Submit(d, [op |-> "respond", bytes |-> m.req, id |-> m.id])
        /\ UNCHANGED <<handle, task, taskState, inbound, stream, payload, call, got>>

\* A Reply that is not sent says nothing to the task.
ForgetReply(d) ==
    \E m \in held[d] :
        /\ held' = [held EXCEPT ![d] = @ \ {m}]
        /\ UNCHANGED <<handle, task, cmds, taskState, inbound, stream, payload, call, told, got>>

\* Drop.  The futures of request and dial borrow the transport, so none of
\* them is being waited for.
DropTransport(d) ==
    /\ d \in handle /\ \A c \in Calls : From(c) = d => call[c] # "open"
    /\ handle' = handle \ {d}
    /\ Submit(d, [op |-> "shutdown"])
    /\ inbound' = [inbound EXCEPT ![d] = <<>>]
    /\ UNCHANGED <<task, taskState, held, stream, payload, call, told, got>>

-----------------------------------------------------------------------------
(* run_swarm: commands.                                                    *)

NextIs(d, op) == d \in task /\ cmds[d] # <<>> /\ Head(cmds[d]).op = op
Taken(d) == cmds' = [cmds EXCEPT ![d] = Tail(@)]

TakeRequest(d) ==
    LET r == Head(cmds[d]).call IN
    /\ NextIs(d, "request")
    /\ Taken(d)
    /\ stream' = [stream EXCEPT ![r] = "out"]
    /\ pendingOut' = [pendingOut EXCEPT ![d] = @ \cup {r}]
    /\ UNCHANGED <<handle, task, pendingIn, nextId, inbound, held, payload, call, told, got>>

\* The channel is taken out of pending_inbound; the library refuses the
\* answer if the stream is closed.
TakeRespond(d) ==
    LET m == Head(cmds[d])
        ready == {p \in pendingIn[d] : p[1] = m.id}
    IN
    /\ NextIs(d, "respond")
    /\ Taken(d)
    /\ pendingIn' = [pendingIn EXCEPT ![d] = @ \ ready]
    /\ stream' = [r \in Requests |->
         IF stream[r] = "in" /\ <<m.id, r>> \in ready THEN "back" ELSE stream[r]]
    /\ payload' = [r \in Requests |->
         IF stream[r] = "in" /\ <<m.id, r>> \in ready THEN m.bytes ELSE payload[r]]
    /\ UNCHANGED <<handle, task, pendingOut, nextId, inbound, held, call, told, got>>

\* The dial is only started here; whether it connects shows in the requests.
TakeDial(d) ==
    LET c == Head(cmds[d]).call IN
    /\ NextIs(d, "dial")
    /\ Taken(d)
    /\ \E how \in {"ok", "failed"} :
         call' = [call EXCEPT ![c] = IF @ = "open" THEN how ELSE @]
    /\ UNCHANGED <<handle, task, taskState, inbound, held, stream, payload, told, got>>

\* The streams of a device break with its swarm, except for answers that are
\* already on the network: those may still arrive.
StreamsBroken(d) ==
    stream' = [r \in Requests |->
        IF d \in {From(r), To(r)} /\ stream[r] \in {"out", "in"} THEN "cut" ELSE stream[r]]

\* The loop ends: pending_outbound is drained with SwarmGone, and the oneshots
\* in commands behind the shutdown are dropped, which is the same to a caller.
TakeShutdown(d) ==
    /\ NextIs(d, "shutdown")
    /\ task' = task \ {d}
    /\ cmds' = [cmds EXCEPT ![d] = <<>>]
    /\ pendingOut' = [pendingOut EXCEPT ![d] = {}]
    /\ pendingIn' = [pendingIn EXCEPT ![d] = {}]
    /\ call' = [c \in Calls |->
         IF From(c) = d /\ call[c] = "open" THEN "failed" ELSE call[c]]
    /\ StreamsBroken(d)
    /\ UNCHANGED <<handle, nextId, inbound, held, payload, told, got>>

-----------------------------------------------------------------------------
(* run_swarm: events of the library (handle_swarm_event).                  *)

\* Faulty variant: the counter is not advanced.
RequestArrivesSameId(r) ==
    LET d == To(r) IN
    /\ stream[r] = "out" /\ d \in task
    /\ IF d \in handle
       THEN /\ stream' = [stream EXCEPT ![r] = "in"]
            /\ pendingIn' = [pendingIn EXCEPT ![d] =
                 {p \in @ : p[1] # nextId[d]} \cup {<<nextId[d], r>>}]
            /\ inbound' = [inbound EXCEPT ![d] = Append(@, [req |-> r, id |-> nextId[d]])]
       ELSE /\ stream' = [stream EXCEPT ![r] = "cut"]
            /\ UNCHANGED <<pendingIn, inbound>>
    /\ UNCHANGED <<handle, task, cmds, pendingOut, nextId, held, payload, call, told, got>>

\* Message::Request.  A channel nobody reads from any more is closed at once.
RequestArrives(r) ==
    LET d == To(r) IN
    /\ stream[r] = "out" /\ d \in task
    /\ nextId' = [nextId EXCEPT ![d] = @ + 1]
    /\ IF d \in handle
       THEN /\ stream' = [stream EXCEPT ![r] = "in"]
            /\ pendingIn' = [pendingIn EXCEPT ![d] = @ \cup {<<nextId[d], r>>}]
            /\ inbound' = [inbound EXCEPT ![d] = Append(@, [req |-> r, id |-> nextId[d]])]
       ELSE /\ stream' = [stream EXCEPT ![r] = "cut"]
            /\ UNCHANGED <<pendingIn, inbound>>
    /\ UNCHANGED <<handle, task, cmds, pendingOut, held, payload, call, told, got>>

\* Faulty variant: the caller's oneshot stays in the table.
SettleForgotten(r, how) ==
    /\ From(r) \in task
    /\ stream' = [stream EXCEPT ![r] = "done"]
    /\ call' = [call EXCEPT ![r] =
         IF how = "ok" /\ r \in pendingOut[From(r)] /\ @ = "open" THEN how ELSE @]
    /\ UNCHANGED pendingOut

\* An event about an outbound request ends it if it is pending; sending to a
\* cancelled caller fails silently.
Settle(r, how) ==
    /\ From(r) \in task
    /\ stream' = [stream EXCEPT ![r] = "done"]
    /\ pendingOut' = [pendingOut EXCEPT ![From(r)] = @ \ {r}]
    /\ call' = [call EXCEPT ![r] =
         IF r \in pendingOut[From(r)] /\ @ = "open" THEN how ELSE @]

\* Message::Response.
ResponseArrives(r) ==
    /\ stream[r] = "back"
    /\ Settle(r, "ok")
    /\ got' = IF call[r] = "open" THEN [got EXCEPT ![r] = payload[r]] ELSE got
    /\ UNCHANGED <<handle, task, cmds, pendingIn, nextId, inbound, held, payload, told>>

\* Event::OutboundFailure.
OutboundFailure(r) ==
    /\ stream[r] = "cut"
    /\ Settle(r, "failed")
    /\ UNCHANGED <<handle, task, cmds, pendingIn, nextId, inbound, held, payload, told, got>>

\* A stream breaks or runs into the library's timeout.  Event::InboundFailure,
\* which the answering side sees, changes nothing there: the channel stays in
\* pending_inbound until a reply is sent.
StreamBreaks(r) ==
    /\ stream[r] \in {"out", "in", "back"}
    /\ stream' = [stream EXCEPT ![r] = "cut"]
    /\ UNCHANGED <<handle, task, cmds, taskState, inbound, held, payload, call, told, got>>

\* The process of a device ends, or is killed.
Exit(d) ==
    /\ d \in handle \cup task
    /\ handle' = handle \ {d} /\ task' = task \ {d}
    /\ cmds' = [cmds EXCEPT ![d] = <<>>]
    /\ pendingOut' = [pendingOut EXCEPT ![d] = {}]
    /\ pendingIn' = [pendingIn EXCEPT ![d] = {}]
    /\ inbound' = [inbound EXCEPT ![d] = <<>>]
    /\ held' = [held EXCEPT ![d] = {}]
    /\ call' = [c \in Calls |->
         IF From(c) = d /\ call[c] = "open" THEN "cancelled" ELSE call[c]]
    /\ StreamsBroken(d)
    /\ UNCHANGED <<nextId, payload, told, got>>

HandleCmd(d) == TakeRequest(d) \/ TakeRespond(d) \/ TakeDial(d) \/ TakeShutdown(d)

Next ==
    \/ \E c \in Calls : Ask(c) \/ Cancel(c)
    \/ \E d \in Devices : NextRequest(d) \/ SendReply(d) \/ ForgetReply(d) \/ DropTransport(d)
    \/ \E d \in Devices : HandleCmd(d)
    \/ \E r \in Requests : RequestArrives(r) \/ ResponseArrives(r) \/ OutboundFailure(r)
    \/ \E r \in Requests : StreamBreaks(r)
    \/ \E d \in Devices : Exit(d)

Spec == Init /\ [][Next]_vars

\* The runtime polls the task, the task takes what it is offered, and the
\* library ends every stream: an answer, a lost connection or its timeout.
Fairness ==
    /\ \A d \in Devices : WF_vars(HandleCmd(d))
    /\ \A r \in Requests : WF_vars(ResponseArrives(r) \/ OutboundFailure(r))
    /\ \A r \in Requests : WF_vars(StreamBreaks(r))

FairSpec == Spec /\ Fairness

-----------------------------------------------------------------------------
\* Every caller that waits is known to its task: its command is queued or its
\* oneshot is in pending_outbound, so that an event, or the end of the task,
\* reaches it (run_swarm, libp2p_transport.rs:271-329).
WaitersTracked ==
    \A c \in Calls : call[c] = "open" =>
        LET d == From(c) IN
        /\ d \in task
        /\ \/ \E i \in DOMAIN cmds[d] : cmds[d][i].op \in {"request", "dial"} /\ cmds[d][i].call = c
           \/ c \in pendingOut[d] /\ stream[c] \in {"out", "in", "back", "cut"}

\* The answer that will be given under an id goes to the request which that id
\* was given to: ids in the queue, in handles and in commands still name that
\* request's channel, and no channel is kept once its answer was handed over
\* (libp2p_transport.rs:360-372, 258-268, 302-310).
IdsNameTheirRequest ==
    \A d \in task :
        /\ \A m \in held[d] \cup {inbound[d][i] : i \in DOMAIN inbound[d]} :
             <<m.id, m.req>> \in pendingIn[d]
        /\ \A i \in DOMAIN cmds[d] : cmds[d][i].op = "respond" =>
             <<cmds[d][i].id, cmds[d][i].bytes>> \in pendingIn[d]
        /\ \A p, q \in pendingIn[d] : p[1] = q[1] => p = q
        /\ \A p \in pendingIn[d] : p[2] \in told =>
             \E i \in DOMAIN cmds[d] : cmds[d][i].op = "respond" /\ cmds[d][i].id = p[1]

\* What every event and command may rely on (libp2p_transport.rs:271-420): the
\* tables, queues and handles of a device fit together.
TransportInv == TypeOK /\ WaitersTracked /\ IdsNameTheirRequest

\* The transport keeps what the trait promises (transport.rs:41-58).
RR == INSTANCE RequestReply WITH status <- [r \in Requests |-> call[r]]
ImplementsRequestReply == RR!Spec

\* No caller waits for ever, even when the other side never replies, its
\* process dies, or the transport is dropped (libp2p_transport.rs:325-328:
\* "so callers don't hang on Drop").
CallsEnd == \A c \in Calls : call[c] = "open" ~> call[c] # "open"
=============================================================================
