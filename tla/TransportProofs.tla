-------------------------- MODULE TransportProofs --------------------------
(***************************************************************************)
(* Proofs about Transport, for any devices, requests and dials.            *)
(*                                                                         *)
(* TransportInv is what events and commands rely on, but it is not         *)
(* inductive: that an id still names its request rests on no request being *)
(* delivered, told or answered twice, which rests on the order in which a  *)
(* request passes through stream, queue, handle and command.               *)
(***************************************************************************)
EXTENDS Transport, TLAPS

\* A queued command belongs to its device, and nobody asks behind a shutdown.
CommandsFit ==
    /\ handle \subseteq task
    /\ \A d \in Devices : \A i \in DOMAIN cmds[d] :
         LET cmd == cmds[d][i] IN
         /\ cmd.op \in {"request", "dial"} => From(cmd.call) = d /\ call[cmd.call] # "new"
         /\ cmd.op = "respond" => cmd.bytes \in told
         /\ cmd.op = "shutdown" => d \notin handle

\* No call is queued twice, no answer is queued twice, and a queued request has
\* not been sent.
QueuedOnce ==
    \A d \in Devices : \A i \in DOMAIN cmds[d] :
        /\ cmds[d][i].op = "request" => stream[cmds[d][i].call] = "none"
        /\ \A j \in DOMAIN cmds[d] :
             /\ cmds[d][i].op = "request" /\ cmds[d][j].op = "request"
                    /\ cmds[d][i].call = cmds[d][j].call => i = j
             /\ cmds[d][i].op = "respond" /\ cmds[d][j].op = "respond"
                    /\ cmds[d][i].bytes = cmds[d][j].bytes => i = j

\* Nothing is known of a request that has not arrived.
Arrived(r) == stream[r] \notin {"none", "out"}
ArrivalsOnly ==
    /\ \A r \in Requests : call[r] = "new" => stream[r] = "none"
    /\ \A r \in told : Arrived(r)
    /\ \A d \in Devices :
         /\ \A p \in pendingIn[d] : Arrived(p[2]) /\ To(p[2]) = d
         /\ \A m \in held[d] : Arrived(m.req) /\ To(m.req) = d
         /\ \A i \in DOMAIN inbound[d] : Arrived(inbound[d][i].req) /\ To(inbound[d][i].req) = d

\* A request is delivered once, and not told before its handle is used.
DeliveredOnce ==
    \A d \in Devices :
        /\ \A p, q \in pendingIn[d] : p[2] = q[2] => p = q
        /\ \A m \in held[d] : m.req \notin told /\ \A n \in held[d] : m.req = n.req => m = n
        /\ \A i \in DOMAIN inbound[d] :
             /\ inbound[d][i].req \notin told
             /\ \A m \in held[d] : m.req # inbound[d][i].req
             /\ \A j \in DOMAIN inbound[d] : inbound[d][i].req = inbound[d][j].req => i = j

\* An answer on its way is the one that was made for its request.
AnswersFit == \A r \in Requests : stream[r] = "back" => payload[r] = r /\ r \in told

IInv == /\ TransportInv /\ CommandsFit /\ QueuedOnce /\ ArrivalsOnly /\ DeliveredOnce
        /\ AnswersFit

-----------------------------------------------------------------------------
(* Queues.                                                                 *)

Queues == [Devices -> Seq(Cmd)]

LEMMA CmdFields ==
    ASSUME NEW cmd \in Cmd
    PROVE  /\ cmd.op = "request" => cmd.call \in Requests
           /\ cmd.op = "dial" => cmd.call \in Dials
           /\ cmd.op = "respond" => cmd.bytes \in Requests /\ cmd.id \in Nat
           /\ cmd.op \in {"request", "dial", "respond", "shutdown"}
    BY DEF Cmd

LEMMA SubmitFacts ==
    ASSUME cmds \in Queues, NEW d \in Devices, NEW cmd \in Cmd, Submit(d, cmd)
    PROVE  /\ cmds' \in Queues
           /\ \A e \in Devices : \A i \in DOMAIN cmds[e] :
                i \in DOMAIN cmds'[e] /\ cmds'[e][i] = cmds[e][i]
           /\ \A e \in Devices : \A i \in DOMAIN cmds'[e] :
                \/ i \in DOMAIN cmds[e] /\ cmds'[e][i] = cmds[e][i]
                \/ e = d /\ d \in task /\ i = Len(cmds[d]) + 1 /\ cmds'[e][i] = cmd
           /\ d \in task => /\ Len(cmds[d]) + 1 \in DOMAIN cmds'[d]
                             /\ cmds'[d][Len(cmds[d]) + 1] = cmd
<1>1. CASE d \in task
    <2>1. cmds' = [cmds EXCEPT ![d] = Append(cmds[d], cmd)]
        BY <1>1 DEF Submit
    <2>2. cmds[d] \in Seq(Cmd) /\ Append(cmds[d], cmd) \in Seq(Cmd)
        BY DEF Queues
    <2>3. /\ Len(Append(cmds[d], cmd)) = Len(cmds[d]) + 1
          /\ \A i \in DOMAIN cmds[d] : Append(cmds[d], cmd)[i] = cmds[d][i]
          /\ Append(cmds[d], cmd)[Len(cmds[d]) + 1] = cmd
          /\ DOMAIN Append(cmds[d], cmd) = DOMAIN cmds[d] \cup {Len(cmds[d]) + 1}
        BY <2>2
    <2>4. cmds'[d] = Append(cmds[d], cmd) /\ \A e \in Devices : e # d => cmds'[e] = cmds[e]
        BY <2>1 DEF Queues
    <2>5. cmds' \in Queues
        BY <2>1, <2>2 DEF Queues
    <2> HIDE DEF Queues
    <2> QED BY <1>1, <2>3, <2>4, <2>5
<1>2. CASE d \notin task
    BY <1>2 DEF Submit
<1> QED BY <1>1, <1>2

LEMMA TakenFacts ==
    ASSUME cmds \in Queues, NEW d \in Devices, Taken(d), cmds[d] # <<>>
    PROVE  /\ cmds' \in Queues
           /\ 1 \in DOMAIN cmds[d] /\ Head(cmds[d]) = cmds[d][1] /\ Head(cmds[d]) \in Cmd
           /\ \A e \in Devices : e # d => cmds'[e] = cmds[e]
           /\ \A i \in DOMAIN cmds'[d] :
                i + 1 \in DOMAIN cmds[d] /\ cmds'[d][i] = cmds[d][i + 1] /\ i \in Nat /\ i + 1 # 1
           /\ \A i \in DOMAIN cmds[d] :
                i # 1 => i - 1 \in DOMAIN cmds'[d] /\ cmds'[d][i - 1] = cmds[d][i]
<1>1. cmds' = [cmds EXCEPT ![d] = Tail(cmds[d])]
    BY DEF Taken
<1>2. cmds[d] \in Seq(Cmd) /\ Tail(cmds[d]) \in Seq(Cmd) /\ Head(cmds[d]) \in Cmd
    BY DEF Queues
<1>3. cmds'[d] = Tail(cmds[d]) /\ cmds' \in Queues /\ \A e \in Devices : e # d => cmds'[e] = cmds[e]
    BY <1>1, <1>2 DEF Queues
<1>4. 1 \in DOMAIN cmds[d] /\ Head(cmds[d]) = cmds[d][1]
    BY <1>2
<1>5. \A i \in DOMAIN Tail(cmds[d]) :
        i + 1 \in DOMAIN cmds[d] /\ Tail(cmds[d])[i] = cmds[d][i + 1] /\ i \in Nat /\ i + 1 # 1
    BY <1>2
<1>6. \A i \in DOMAIN cmds[d] :
        i # 1 => i - 1 \in DOMAIN Tail(cmds[d]) /\ Tail(cmds[d])[i - 1] = cmds[d][i]
    BY <1>2
<1> QED BY <1>2, <1>3, <1>4, <1>5, <1>6

LEMMA NoneInEmpty == \A i : i \notin DOMAIN <<>>
    OBVIOUS

LEMMA MessageShape ==
    ASSUME TypeOK
    PROVE  /\ \A e \in Devices : \A p \in pendingIn[e] : p = <<p[1], p[2]>> /\ p[1] \in Nat /\ p[2] \in Requests
           /\ \A e \in Devices : \A m \in held[e] : m.req \in Requests /\ m.id \in Nat
           /\ \A e \in Devices : \A i \in DOMAIN inbound[e] :
                inbound[e][i].req \in Requests /\ inbound[e][i].id \in Nat
<1>1. ASSUME NEW m \in Inbound PROVE m.req \in Requests /\ m.id \in Nat
    BY DEF Inbound
<1>2. ASSUME NEW e \in Devices, NEW i \in DOMAIN inbound[e] PROVE inbound[e][i] \in Inbound
    <2>1. inbound[e] \in Seq(Inbound)
        BY DEF TypeOK
    <2> QED BY <2>1
<1>3. \A e \in Devices : held[e] \subseteq Inbound /\ pendingIn[e] \subseteq Nat \X Requests
    BY DEF TypeOK
<1> QED BY <1>1, <1>2, <1>3

LEMMA CallShape ==
    /\ \A c \in Calls : From(c) \in Devices /\ To(c) \in Devices
    /\ \A c \in Requests : c \in Calls /\ c \notin Dials
    /\ \A c \in Dials : c \in Calls /\ c \notin Requests
    BY TransportAssumption DEF Calls, From, To

-----------------------------------------------------------------------------
(* Types.                                                                  *)

\* Every action of the transport's users, of its task and of the network keeps
\* the types (libp2p_transport.rs:155-420).
LEMMA TypeStep ==
    ASSUME TypeOK, [Next]_vars
    PROVE  TypeOK'
<1> USE CallShape, CmdFields DEF TypeOK, taskState
<1>0. cmds \in Queues
    BY DEF Queues
<1>1. ASSUME NEW c \in Calls, Ask(c) PROVE TypeOK'
    <2>1. [op |-> IF c \in Dials THEN "dial" ELSE "request", call |-> c] \in Cmd
        BY DEF Cmd, Calls
    <2>2. cmds' \in Queues
        BY <1>0, <1>1, <2>1, SubmitFacts DEF Ask
    <2> QED BY <1>1, <2>2 DEF Ask, Queues
<1>2. ASSUME NEW c \in Calls, Cancel(c) PROVE TypeOK'
    BY <1>2 DEF Cancel
<1>3. ASSUME NEW d \in Devices, NextRequest(d) PROVE TypeOK'
    <2>1. Head(inbound[d]) \in Inbound /\ Tail(inbound[d]) \in Seq(Inbound)
        BY <1>3 DEF NextRequest
    <2> QED BY <1>3, <2>1 DEF NextRequest
<1>4. ASSUME NEW d \in Devices, SendReply(d) PROVE TypeOK'
    <2>1. PICK m \in held[d] :
            /\ held' = [held EXCEPT ![d] = @ \ {m}]
            /\ told' = told \cup {m.req}
            /\ Submit(d, [op |-> "respond", bytes |-> m.req, id |-> m.id])
            /\ UNCHANGED <<handle, task, taskState, inbound, stream, payload, call, got>>
        BY <1>4 DEF SendReply
    <2>2. m.req \in Requests /\ m.id \in Nat
        BY DEF Inbound
    <2>3. [op |-> "respond", bytes |-> m.req, id |-> m.id] \in Cmd
        BY <2>2 DEF Cmd
    <2>4. cmds' \in Queues
        BY <1>0, <2>1, <2>3, SubmitFacts
    <2>5. held' \in [Devices -> SUBSET Inbound] /\ told' \subseteq Requests
        BY <2>1, <2>2
    <2>6. UNCHANGED <<handle, task, taskState, inbound, stream, payload, call, got>>
        BY <2>1
    <2> HIDE <2>1
    <2> QED BY <2>4, <2>5, <2>6 DEF Queues
<1>5. ASSUME NEW d \in Devices, ForgetReply(d) PROVE TypeOK'
    BY <1>5 DEF ForgetReply
<1>6. ASSUME NEW d \in Devices, DropTransport(d) PROVE TypeOK'
    <2>1. [op |-> "shutdown"] \in Cmd
        BY DEF Cmd
    <2>2. cmds' \in Queues
        BY <1>0, <1>6, <2>1, SubmitFacts DEF DropTransport
    <2>3. /\ handle' = handle \ {d} /\ inbound' = [inbound EXCEPT ![d] = <<>>]
          /\ UNCHANGED <<task, taskState, held, stream, payload, call, told, got>>
        BY <1>6 DEF DropTransport
    <2>4. inbound' \in [Devices -> Seq(Inbound)]
        BY <2>3
    <2> QED BY <2>2, <2>3, <2>4 DEF Queues
<1>7. ASSUME NEW d \in Devices, TakeRequest(d) PROVE TypeOK'
    <2>1. cmds' \in Queues /\ Head(cmds[d]) \in Cmd
        BY <1>0, <1>7, TakenFacts DEF TakeRequest, NextIs
    <2> QED BY <1>7, <2>1 DEF TakeRequest, NextIs, Queues
<1>8. ASSUME NEW d \in Devices, TakeRespond(d) PROVE TypeOK'
    <2>1. cmds' \in Queues /\ Head(cmds[d]) \in Cmd
        BY <1>0, <1>8, TakenFacts DEF TakeRespond, NextIs
    <2>2. Head(cmds[d]).bytes \in Requests
        BY <1>8, <2>1 DEF TakeRespond, NextIs
    <2> QED BY <1>8, <2>1, <2>2 DEF TakeRespond, Queues
<1>9. ASSUME NEW d \in Devices, TakeDial(d) PROVE TypeOK'
    <2>1. cmds' \in Queues /\ Head(cmds[d]) \in Cmd
        BY <1>0, <1>9, TakenFacts DEF TakeDial, NextIs
    <2> QED BY <1>9, <2>1 DEF TakeDial, NextIs, Queues
<1>10. ASSUME NEW d \in Devices, TakeShutdown(d) PROVE TypeOK'
    BY <1>10 DEF TakeShutdown, StreamsBroken
<1>11. ASSUME NEW r \in Requests, RequestArrives(r) PROVE TypeOK'
    <2> DEFINE d == To(r)
    <2>1. d \in Devices /\ nextId[d] \in Nat
        OBVIOUS
    <2>2. nextId' = [nextId EXCEPT ![d] = @ + 1]
        BY <1>11 DEF RequestArrives
    <2>3. [req |-> r, id |-> nextId[d]] \in Inbound
        BY <2>1 DEF Inbound
    <2>4. CASE d \in handle
        <3>1. inbound' = [inbound EXCEPT ![d] = Append(@, [req |-> r, id |-> nextId[d]])]
              /\ pendingIn' = [pendingIn EXCEPT ![d] = @ \cup {<<nextId[d], r>>}]
            BY <1>11, <2>4 DEF RequestArrives
        <3>2. Append(inbound[d], [req |-> r, id |-> nextId[d]]) \in Seq(Inbound)
            BY <2>1, <2>3
        <3>3. inbound' \in [Devices -> Seq(Inbound)]
            BY <3>1, <3>2
        <3>4. pendingIn' \in [Devices -> SUBSET (Nat \X Requests)]
            BY <3>1, <2>1
        <3>5. \A e \in Devices : \A p \in pendingIn'[e] : p[1] < nextId'[e]
            BY <3>1, <2>1, <2>2
        <3>6. nextId' \in [Devices -> Nat]
            BY <2>1, <2>2
        <3> QED BY <1>11, <2>4, <3>3, <3>4, <3>5, <3>6 DEF RequestArrives
    <2>5. CASE d \notin handle
        <3>1. nextId' \in [Devices -> Nat] /\ \A e \in Devices : nextId[e] <= nextId'[e]
            BY <2>1, <2>2
        <3>2. UNCHANGED pendingIn
            BY <1>11, <2>5 DEF RequestArrives
        <3>3. \A e \in Devices : \A p \in pendingIn'[e] : p[1] < nextId'[e]
            BY <3>1, <3>2
        <3> QED BY <1>11, <2>5, <3>1, <3>2, <3>3 DEF RequestArrives
    <2> QED BY <2>4, <2>5
<1>12. ASSUME NEW r \in Requests, ResponseArrives(r) PROVE TypeOK'
    BY <1>12 DEF ResponseArrives, Settle
<1>13. ASSUME NEW r \in Requests, OutboundFailure(r) PROVE TypeOK'
    BY <1>13 DEF OutboundFailure, Settle
<1>14. ASSUME NEW r \in Requests, StreamBreaks(r) PROVE TypeOK'
    BY <1>14 DEF StreamBreaks
<1>15. ASSUME NEW d \in Devices, Exit(d) PROVE TypeOK'
    BY <1>15 DEF Exit, StreamsBroken
<1>16. CASE UNCHANGED vars
    BY <1>16 DEF vars
<1> QED
    BY <1>1, <1>2, <1>3, <1>4, <1>5, <1>6, <1>7, <1>8, <1>9, <1>10, <1>11, <1>12, <1>13, <1>14,
       <1>15, <1>16 DEF Next, HandleCmd

-----------------------------------------------------------------------------
(* Each part of the invariant, kept by each step.                          *)

LEMMA CommandsStep ==
    ASSUME IInv, [Next]_vars
    PROVE  CommandsFit'
<1>0. TypeOK /\ CommandsFit /\ cmds \in Queues
    BY DEF IInv, TransportInv, TypeOK, Queues
<1> USE CallShape DEF CommandsFit
<1>1. ASSUME NEW c \in Calls, Ask(c) PROVE CommandsFit'
    <2> DEFINE cmd == [op |-> IF c \in Dials THEN "dial" ELSE "request", call |-> c]
    <2>1. cmd \in Cmd /\ Submit(From(c), cmd) /\ From(c) \in Devices
        BY <1>1 DEF Cmd, Calls, Ask
    <2>2. cmd.call = c /\ cmd.op \in {"request", "dial"}
        OBVIOUS
    <2>3. call' = [call EXCEPT ![c] = "open"] /\ UNCHANGED <<handle, task, told>>
        BY <1>1 DEF Ask
    <2>4. \A x \in Calls : call[x] # "new" => call'[x] # "new"
        BY <1>0, <2>3 DEF TypeOK
    <2>5. call'[c] # "new"
        BY <1>0, <2>3 DEF TypeOK
    <2> HIDE DEF cmd
    <2>6. \A e \in Devices : \A i \in DOMAIN cmds'[e] :
                \/ i \in DOMAIN cmds[e] /\ cmds'[e][i] = cmds[e][i]
                \/ e = From(c) /\ cmds'[e][i] = cmd
        BY <1>0, <2>1, SubmitFacts
    <2>7. \A e \in Devices : \A i \in DOMAIN cmds[e] : cmds[e][i] \in Cmd
        BY <1>0 DEF Queues
    <2> QED BY <1>0, <2>2, <2>3, <2>4, <2>5, <2>6, <2>7, CmdFields
<1>2. ASSUME NEW c \in Calls, Cancel(c) PROVE CommandsFit'
    BY <1>0, <1>2, CmdFields DEF Cancel, TypeOK
<1>3. ASSUME NEW d \in Devices, NextRequest(d) PROVE CommandsFit'
    BY <1>0, <1>3 DEF NextRequest
<1>4. ASSUME NEW d \in Devices, SendReply(d) PROVE CommandsFit'
    <2>1. PICK m \in held[d] :
            /\ told' = told \cup {m.req}
            /\ Submit(d, [op |-> "respond", bytes |-> m.req, id |-> m.id])
            /\ UNCHANGED <<handle, task, call>>
        BY <1>4 DEF SendReply
    <2>2. m.req \in Requests /\ m.id \in Nat
        BY <1>0 DEF Inbound, TypeOK
    <2> DEFINE cmd == [op |-> "respond", bytes |-> m.req, id |-> m.id]
    <2>3. cmd \in Cmd /\ cmd.op = "respond" /\ cmd.bytes = m.req
        BY <2>2 DEF Cmd
    <2> HIDE DEF cmd
    <2>4. \A e \in Devices : \A i \in DOMAIN cmds'[e] :
                \/ i \in DOMAIN cmds[e] /\ cmds'[e][i] = cmds[e][i]
                \/ e = d /\ cmds'[e][i] = cmd
        BY <1>0, <2>1, <2>3, SubmitFacts DEF cmd
    <2> QED BY <1>0, <2>1, <2>3, <2>4
<1>5. ASSUME NEW d \in Devices, ForgetReply(d) PROVE CommandsFit'
    BY <1>0, <1>5 DEF ForgetReply
<1>6. ASSUME NEW d \in Devices, DropTransport(d) PROVE CommandsFit'
    <2> DEFINE cmd == [op |-> "shutdown"]
    <2>1. cmd \in Cmd /\ cmd.op = "shutdown" /\ Submit(d, cmd)
        BY <1>6 DEF Cmd, DropTransport
    <2>2. handle' = handle \ {d} /\ UNCHANGED <<task, call, told>>
        BY <1>6 DEF DropTransport
    <2> HIDE DEF cmd
    <2>3. \A e \in Devices : \A i \in DOMAIN cmds'[e] :
                \/ i \in DOMAIN cmds[e] /\ cmds'[e][i] = cmds[e][i]
                \/ e = d /\ cmds'[e][i] = cmd
        BY <1>0, <2>1, SubmitFacts
    <2> QED BY <1>0, <2>1, <2>2, <2>3
<1>7. ASSUME NEW d \in Devices, d \in task, cmds[d] # <<>>, Taken(d), UNCHANGED <<handle, task, told>>,
             \A x \in Calls : call[x] # "new" => call'[x] # "new"
      PROVE  CommandsFit'
    <2>1. \A e \in Devices : \A i \in DOMAIN cmds'[e] :
            \E j \in DOMAIN cmds[e] : cmds'[e][i] = cmds[e][j]
        BY <1>0, <1>7, TakenFacts
    <2>2. \A e \in Devices : \A i \in DOMAIN cmds[e] : cmds[e][i] \in Cmd
        BY <1>0 DEF Queues
    <2> QED BY <1>0, <1>7, <2>1, <2>2, CmdFields
<1>8. ASSUME NEW d \in Devices, TakeRequest(d) PROVE CommandsFit'
    BY <1>7, <1>8 DEF TakeRequest, NextIs
<1>9. ASSUME NEW d \in Devices, TakeRespond(d) PROVE CommandsFit'
    BY <1>7, <1>9 DEF TakeRespond, NextIs
<1>10. ASSUME NEW d \in Devices, TakeDial(d) PROVE CommandsFit'
    <2>1. \A x \in Calls : call[x] # "new" => call'[x] # "new"
        BY <1>0, <1>10 DEF TakeDial, TypeOK
    <2> QED BY <1>7, <1>10, <2>1 DEF TakeDial, NextIs
<1>11. ASSUME NEW d \in Devices, task' = task \ {d}, handle' = handle \ {d},
              cmds' = [cmds EXCEPT ![d] = <<>>], UNCHANGED told,
              \A x \in Calls : call[x] # "new" => call'[x] # "new"
       PROVE  CommandsFit'
    <2>1. \A e \in Devices : \A i \in DOMAIN cmds'[e] :
            e # d /\ i \in DOMAIN cmds[e] /\ cmds'[e][i] = cmds[e][i] /\ cmds[e][i] \in Cmd
        BY <1>0, <1>11 DEF Queues
    <2> QED BY <1>0, <1>11, <2>1, CmdFields
<1>12. ASSUME NEW d \in Devices, TakeShutdown(d) PROVE CommandsFit'
    <2>1. d \notin handle
        <3>1. cmds[d] \in Seq(Cmd) /\ cmds[d] # <<>> /\ Head(cmds[d]).op = "shutdown"
            BY <1>0, <1>12 DEF TakeShutdown, NextIs, Queues
        <3>2. 1 \in DOMAIN cmds[d] /\ cmds[d][1].op = "shutdown"
            BY <3>1
        <3> QED BY <1>0, <3>2
    <2>2. \A x \in Calls : call[x] # "new" => call'[x] # "new"
        BY <1>0, <1>12 DEF TakeShutdown, TypeOK
    <2> QED BY <1>11, <1>12, <2>1, <2>2 DEF TakeShutdown
<1>13. ASSUME NEW d \in Devices, Exit(d) PROVE CommandsFit'
    <2>1. \A x \in Calls : call[x] # "new" => call'[x] # "new"
        BY <1>0, <1>13 DEF Exit, TypeOK
    <2> QED BY <1>11, <1>13, <2>1 DEF Exit
<1>14. ASSUME NEW r \in Requests, RequestArrives(r) PROVE CommandsFit'
    BY <1>0, <1>14 DEF RequestArrives
<1>15. ASSUME NEW r \in Requests, NEW how \in {"ok", "failed"}, Settle(r, how),
              UNCHANGED <<handle, task, cmds, told>>
       PROVE  CommandsFit'
    <2>1. \A x \in Calls : call[x] # "new" => call'[x] # "new"
        BY <1>0, <1>15 DEF Settle, TypeOK
    <2>2. \A e \in Devices : \A i \in DOMAIN cmds[e] : cmds[e][i] \in Cmd
        BY <1>0 DEF Queues
    <2> QED BY <1>0, <1>15, <2>1, <2>2, CmdFields
<1>16. ASSUME NEW r \in Requests, ResponseArrives(r) \/ OutboundFailure(r) PROVE CommandsFit'
    BY <1>15, <1>16 DEF ResponseArrives, OutboundFailure
<1>17. ASSUME NEW r \in Requests, StreamBreaks(r) PROVE CommandsFit'
    BY <1>0, <1>17 DEF StreamBreaks
<1>18. CASE UNCHANGED vars
    BY <1>0, <1>18 DEF vars
<1> HIDE DEF CommandsFit
<1> QED
    BY <1>1, <1>2, <1>3, <1>4, <1>5, <1>6, <1>8, <1>9, <1>10, <1>12, <1>13, <1>14, <1>16,
       <1>17, <1>18 DEF Next, HandleCmd

LEMMA QueueStep ==
    ASSUME IInv, [Next]_vars
    PROVE  QueuedOnce'
<1>0. TypeOK /\ CommandsFit /\ QueuedOnce /\ ArrivalsOnly /\ DeliveredOnce /\ cmds \in Queues
    BY DEF IInv, TransportInv, TypeOK, Queues
<1> DEFINE Unsent == \A x \in Requests : stream[x] = "none" => stream'[x] = "none"
<1>00. \A e \in Devices : \A i \in DOMAIN cmds[e] :
            cmds[e][i] \in Cmd /\ (cmds[e][i].op = "request" => cmds[e][i].call \in Requests)
    BY <1>0, CmdFields DEF Queues
<1> USE CallShape DEF QueuedOnce
<1>1. ASSUME NEW c \in Calls, Ask(c) PROVE QueuedOnce'
    <2> DEFINE cmd == [op |-> IF c \in Dials THEN "dial" ELSE "request", call |-> c]
    <2>1. cmd \in Cmd /\ Submit(From(c), cmd) /\ From(c) \in Devices
        BY <1>1 DEF Cmd, Calls, Ask
    <2>2. cmd.call = c /\ cmd.op # "respond"
        OBVIOUS
    <2>3. call[c] = "new" /\ UNCHANGED stream
        BY <1>1 DEF Ask
    <2>4. cmd.op = "request" => stream[c] = "none"
        BY <1>0, <2>3 DEF ArrivalsOnly, Calls
    <2> HIDE DEF cmd
    <2>5. \A e \in Devices : \A i \in DOMAIN cmds'[e] :
                \/ i \in DOMAIN cmds[e] /\ cmds'[e][i] = cmds[e][i]
                \/ e = From(c) /\ i = Len(cmds[e]) + 1 /\ cmds'[e][i] = cmd
        BY <1>0, <2>1, SubmitFacts
    <2>6. \A e \in Devices : \A i \in DOMAIN cmds[e] : cmds[e][i].op = "request" => cmds[e][i].call # c
        BY <1>0, <2>3 DEF CommandsFit
    <2> QED BY <1>0, <2>2, <2>3, <2>4, <2>5, <2>6
<1>2. ASSUME NEW d \in Devices, SendReply(d) PROVE QueuedOnce'
    <2>1. PICK m \in held[d] :
            /\ Submit(d, [op |-> "respond", bytes |-> m.req, id |-> m.id])
            /\ UNCHANGED stream
        BY <1>2 DEF SendReply
    <2>2. m.req \in Requests /\ m.id \in Nat
        BY <1>0 DEF Inbound, TypeOK
    <2> DEFINE cmd == [op |-> "respond", bytes |-> m.req, id |-> m.id]
    <2>3. cmd \in Cmd /\ cmd.op = "respond" /\ cmd.bytes = m.req
        BY <2>2 DEF Cmd
    <2> HIDE DEF cmd
    <2>4. \A e \in Devices : \A i \in DOMAIN cmds'[e] :
                \/ i \in DOMAIN cmds[e] /\ cmds'[e][i] = cmds[e][i]
                \/ e = d /\ i = Len(cmds[e]) + 1 /\ cmds'[e][i] = cmd
        BY <1>0, <2>1, <2>3, SubmitFacts DEF cmd
    <2>5. m.req \notin told
        BY <1>0 DEF DeliveredOnce
    <2>6. \A e \in Devices : \A i \in DOMAIN cmds[e] : cmds[e][i].op = "respond" => cmds[e][i].bytes # m.req
        BY <1>0, <2>5 DEF CommandsFit
    <2> QED BY <1>0, <2>1, <2>3, <2>4, <2>6
<1>3. ASSUME NEW d \in Devices, DropTransport(d) PROVE QueuedOnce'
    <2> DEFINE cmd == [op |-> "shutdown"]
    <2>1. cmd \in Cmd /\ cmd.op = "shutdown" /\ Submit(d, cmd) /\ UNCHANGED stream
        BY <1>3 DEF Cmd, DropTransport
    <2> HIDE DEF cmd
    <2>2. \A e \in Devices : \A i \in DOMAIN cmds'[e] :
                \/ i \in DOMAIN cmds[e] /\ cmds'[e][i] = cmds[e][i]
                \/ e = d /\ cmds'[e][i] = cmd
        BY <1>0, <2>1, SubmitFacts
    <2> QED BY <1>0, <2>1, <2>2
<1>4. ASSUME NEW d \in Devices, cmds[d] # <<>>, Taken(d),
             \A x \in Requests : stream[x] = "none" =>
                 \/ stream'[x] = "none"
                 \/ Head(cmds[d]).op = "request" /\ Head(cmds[d]).call = x
      PROVE  QueuedOnce'
    <2>1. \A e \in Devices : e # d => cmds'[e] = cmds[e]
        BY <1>0, <1>4, TakenFacts
    <2>2. \A i \in DOMAIN cmds'[d] :
                i + 1 \in DOMAIN cmds[d] /\ cmds'[d][i] = cmds[d][i + 1] /\ i \in Nat /\ i + 1 # 1
        BY <1>0, <1>4, TakenFacts
    <2>3. 1 \in DOMAIN cmds[d] /\ Head(cmds[d]) = cmds[d][1]
        BY <1>0, <1>4, TakenFacts
    <2>4. \A e \in Devices : \A i \in DOMAIN cmds[e] :
            e # d /\ cmds[e][i].op = "request" => stream'[cmds[e][i].call] = "none"
        BY <1>0, <1>00, <1>4, <2>3 DEF CommandsFit
    <2>5. \A i \in DOMAIN cmds[d] :
            i # 1 /\ cmds[d][i].op = "request" => stream'[cmds[d][i].call] = "none"
        BY <1>0, <1>00, <1>4, <2>3
    <2> QED BY <1>0, <2>1, <2>2, <2>4, <2>5
<1>5. ASSUME NEW d \in Devices, TakeRequest(d) PROVE QueuedOnce'
    <2>1. \A x \in Requests : stream[x] = "none" => stream'[x] = "none" \/ Head(cmds[d]).call = x
        BY <1>0, <1>5 DEF TakeRequest, TypeOK
    <2> QED BY <1>4, <1>5, <2>1 DEF TakeRequest, NextIs
<1>6. ASSUME NEW d \in Devices, TakeRespond(d) PROVE QueuedOnce'
    <2>1. \A x \in Requests : stream[x] = "none" => stream'[x] = "none"
        BY <1>0, <1>6 DEF TakeRespond, TypeOK
    <2> QED BY <1>4, <1>6, <2>1 DEF TakeRespond, NextIs
<1>7. ASSUME NEW d \in Devices, TakeDial(d) PROVE QueuedOnce'
    BY <1>4, <1>7 DEF TakeDial, NextIs
<1>8. ASSUME NEW d \in Devices, TakeShutdown(d) \/ Exit(d) PROVE QueuedOnce'
    <2>1. cmds' = [cmds EXCEPT ![d] = <<>>] /\ StreamsBroken(d)
        BY <1>8 DEF TakeShutdown, Exit
    <2>2. Unsent
        BY <2>1 DEF StreamsBroken
    <2>3. \A e \in Devices : \A i \in DOMAIN cmds'[e] : e # d /\ cmds'[e] = cmds[e]
        BY <1>0, <2>1 DEF Queues
    <2> QED BY <1>0, <1>00, <2>2, <2>3
<1>9. ASSUME UNCHANGED cmds, Unsent PROVE QueuedOnce'
    BY <1>0, <1>00, <1>9
<1>10. ASSUME NEW r \in Requests, ResponseArrives(r) \/ OutboundFailure(r) PROVE QueuedOnce'
    <2>1. Unsent /\ UNCHANGED cmds
        BY <1>0, <1>10 DEF ResponseArrives, OutboundFailure, Settle, TypeOK
    <2> QED BY <1>9, <2>1
<1>11. ASSUME NEW r \in Requests, RequestArrives(r) \/ StreamBreaks(r) PROVE QueuedOnce'
    <2>1. Unsent /\ UNCHANGED cmds
        BY <1>0, <1>11 DEF RequestArrives, StreamBreaks, TypeOK
    <2> QED BY <1>9, <2>1
<1>12. ASSUME NEW c \in Calls, Cancel(c) PROVE QueuedOnce'
    BY <1>9, <1>12 DEF Cancel
<1>13. ASSUME NEW d \in Devices, NextRequest(d) \/ ForgetReply(d) PROVE QueuedOnce'
    BY <1>9, <1>13 DEF NextRequest, ForgetReply
<1>14. CASE UNCHANGED vars
    BY <1>9, <1>14 DEF vars
<1> HIDE DEF QueuedOnce
<1> QED
    BY <1>1, <1>2, <1>3, <1>5, <1>6, <1>7, <1>8, <1>10, <1>11, <1>12, <1>13, <1>14
    DEF Next, HandleCmd

LEMMA ArrivalStep ==
    ASSUME IInv, [Next]_vars
    PROVE  ArrivalsOnly'
<1>0. TypeOK /\ CommandsFit /\ QueuedOnce /\ ArrivalsOnly /\ cmds \in Queues
    BY DEF IInv, TransportInv, TypeOK, Queues
<1> DEFINE Came == \A x \in Requests : Arrived(x) => Arrived(x)'
           Asked == \A x \in Requests : call'[x] = "new" => stream'[x] = "none"
           Subsets == /\ told' = told
                      /\ \A e \in Devices : /\ pendingIn'[e] \subseteq pendingIn[e]
                                            /\ held'[e] \subseteq held[e]
                                            /\ inbound'[e] \in {inbound[e], <<>>}
<1> USE CallShape
<1>1. ASSUME Came, Asked, Subsets PROVE ArrivalsOnly'
    <2>4. \A e \in Devices : \A i \in DOMAIN inbound'[e] : i \in DOMAIN inbound[e] /\ inbound'[e] = inbound[e]
        BY <1>1, NoneInEmpty
    <2>5. told \subseteq Requests
        BY <1>0 DEF TypeOK
    <2> QED BY <1>0, <1>1, <2>4, <2>5, MessageShape DEF ArrivalsOnly
<1>2. ASSUME NEW c \in Calls, Ask(c) \/ Cancel(c) PROVE ArrivalsOnly'
    <2>1. Came /\ Subsets
        BY <1>2 DEF Ask, Cancel, taskState, Arrived
    <2>2. Asked
        BY <1>0, <1>2 DEF Ask, Cancel, ArrivalsOnly, TypeOK
    <2> QED BY <1>1, <2>1, <2>2
<1>3. ASSUME NEW d \in Devices, NextRequest(d) PROVE ArrivalsOnly'
    <2>1. /\ inbound[d] \in Seq(Inbound) /\ inbound[d] # <<>>
          /\ inbound' = [inbound EXCEPT ![d] = Tail(inbound[d])]
          /\ held' = [held EXCEPT ![d] = held[d] \cup {Head(inbound[d])}]
          /\ UNCHANGED <<pendingIn, told, stream, call>>
        BY <1>0, <1>3 DEF NextRequest, TypeOK, taskState
    <2>2. \A i \in DOMAIN Tail(inbound[d]) : i + 1 \in DOMAIN inbound[d] /\ Tail(inbound[d])[i] = inbound[d][i + 1]
        BY <2>1
    <2>3. 1 \in DOMAIN inbound[d] /\ Head(inbound[d]) = inbound[d][1]
        BY <2>1
    <2>4. \A e \in Devices : \A i \in DOMAIN inbound'[e] :
             \E j \in DOMAIN inbound[e] : inbound'[e][i] = inbound[e][j]
        BY <1>0, <2>1, <2>2 DEF TypeOK
    <2>5. \A e \in Devices : \A m \in held'[e] :
             m \in held[e] \/ \E j \in DOMAIN inbound[e] : m = inbound[e][j]
        BY <1>0, <2>1, <2>3 DEF TypeOK
    <2> QED BY <1>0, <2>1, <2>4, <2>5 DEF ArrivalsOnly, Arrived
<1>4. ASSUME NEW d \in Devices, SendReply(d) PROVE ArrivalsOnly'
    <2>1. PICK m \in held[d] :
            /\ held' = [held EXCEPT ![d] = @ \ {m}]
            /\ told' = told \cup {m.req}
            /\ UNCHANGED <<pendingIn, inbound, stream, call>>
        BY <1>4 DEF SendReply, taskState
    <2>2. \A e \in Devices : held'[e] \subseteq held[e]
        BY <1>0, <2>1 DEF TypeOK
    <2> QED BY <1>0, <2>1, <2>2 DEF ArrivalsOnly, Arrived
<1>5. ASSUME NEW d \in Devices, ForgetReply(d) PROVE ArrivalsOnly'
    <2>1. Came /\ Subsets /\ Asked
        BY <1>0, <1>5 DEF ForgetReply, taskState, Arrived, TypeOK, ArrivalsOnly
    <2> QED BY <1>1, <2>1
<1>6. ASSUME NEW d \in Devices, DropTransport(d) PROVE ArrivalsOnly'
    <2>1. Came /\ Subsets /\ Asked
        BY <1>0, <1>6 DEF DropTransport, taskState, Arrived, TypeOK, ArrivalsOnly
    <2> QED BY <1>1, <2>1
<1>7. ASSUME NEW d \in Devices, TakeRequest(d) PROVE ArrivalsOnly'
    <2> DEFINE r == Head(cmds[d]).call
    <2>1. /\ 1 \in DOMAIN cmds[d] /\ Head(cmds[d]) = cmds[d][1] /\ Head(cmds[d]) \in Cmd
          /\ Head(cmds[d]).op = "request"
        BY <1>0, <1>7, TakenFacts DEF TakeRequest, NextIs
    <2>2. r \in Requests /\ stream[r] = "none" /\ call[r] # "new"
        BY <1>0, <2>1, CmdFields DEF QueuedOnce, CommandsFit
    <2>3. stream' = [stream EXCEPT ![r] = "out"] /\ UNCHANGED <<call, pendingIn, held, inbound, told>>
        BY <1>7 DEF TakeRequest
    <2> HIDE DEF r
    <2>4. Came
        BY <1>0, <2>2, <2>3 DEF Arrived, TypeOK
    <2>5. Asked
        BY <1>0, <2>2, <2>3 DEF ArrivalsOnly, TypeOK
    <2> QED BY <1>1, <2>3, <2>4, <2>5
<1>8. ASSUME NEW d \in Devices, TakeRespond(d) PROVE ArrivalsOnly'
    <2>1. Came /\ Subsets /\ Asked
        BY <1>0, <1>8 DEF TakeRespond, Arrived, TypeOK, ArrivalsOnly
    <2> QED BY <1>1, <2>1
<1>9. ASSUME NEW d \in Devices, TakeDial(d) PROVE ArrivalsOnly'
    <2>1. Head(cmds[d]).call \in Dials
        BY <1>0, <1>9, TakenFacts, CmdFields DEF TakeDial, NextIs
    <2>2. \A x \in Requests : call'[x] = call[x]
        BY <1>0, <1>9, <2>1 DEF TakeDial, TypeOK
    <2>3. Came /\ Subsets /\ Asked
        BY <1>0, <1>9, <2>2 DEF TakeDial, taskState, Arrived, ArrivalsOnly
    <2> QED BY <1>1, <2>3
<1>10. ASSUME NEW d \in Devices, TakeShutdown(d) \/ Exit(d) PROVE ArrivalsOnly'
    <2>1. \A x \in Requests : Arrived(x) => Arrived(x)'
        BY <1>10 DEF TakeShutdown, Exit, StreamsBroken, Arrived
    <2>2. Asked
        <3>1. \A x \in Requests : call'[x] = "new" => call[x] = "new"
            BY <1>0, <1>10 DEF TakeShutdown, Exit, TypeOK
        <3>2. \A x \in Requests : stream[x] = "none" => stream'[x] = "none"
            BY <1>10 DEF TakeShutdown, Exit, StreamsBroken
        <3> QED BY <1>0, <3>1, <3>2 DEF ArrivalsOnly
    <2>3. Subsets
        BY <1>0, <1>10 DEF TakeShutdown, Exit, TypeOK
    <2> QED BY <1>1, <2>1, <2>2, <2>3
<1>11. ASSUME NEW r \in Requests, RequestArrives(r) PROVE ArrivalsOnly'
    <2> DEFINE d == To(r)
               m == [req |-> r, id |-> nextId[d]]
    <2>1. d \in Devices /\ stream[r] = "out" /\ UNCHANGED <<call, told, held>>
        BY <1>11 DEF RequestArrives
    <2>2. Came /\ Asked /\ Arrived(r)'
        BY <1>0, <1>11 DEF RequestArrives, Arrived, ArrivalsOnly, TypeOK
    <2>3. CASE d \in handle
        <3>1. /\ pendingIn' = [pendingIn EXCEPT ![d] = @ \cup {<<nextId[d], r>>}]
              /\ inbound' = [inbound EXCEPT ![d] = Append(inbound[d], m)]
            BY <1>11, <2>3 DEF RequestArrives
        <3>2. inbound[d] \in Seq(Inbound) /\ m \in Inbound /\ m.req = r
            BY <1>0, <2>1 DEF TypeOK, Inbound
        <3> HIDE DEF m
        <3>3. \A i \in DOMAIN Append(inbound[d], m) :
                Append(inbound[d], m)[i] = m \/ (i \in DOMAIN inbound[d] /\ Append(inbound[d], m)[i] = inbound[d][i])
            BY <3>2
        <3>4. \A e \in Devices : \A i \in DOMAIN inbound'[e] :
                \/ e = d /\ inbound'[e][i].req = r
                \/ i \in DOMAIN inbound[e] /\ inbound'[e][i] = inbound[e][i]
            BY <1>0, <2>1, <3>1, <3>2, <3>3 DEF TypeOK
        <3>5. \A e \in Devices : \A p \in pendingIn'[e] : p \in pendingIn[e] \/ (e = d /\ p[2] = r)
            BY <1>0, <2>1, <3>1 DEF TypeOK
        <3>5a. \A x \in Requests : Arrived(x) => stream'[x] \notin {"none", "out"}
            BY <2>2 DEF Arrived
        <3>5b. stream'[r] \notin {"none", "out"}
            BY <2>2 DEF Arrived
        <3>6. \A e \in Devices : \A p \in pendingIn'[e] :
                 stream'[p[2]] \notin {"none", "out"} /\ To(p[2]) = e
            <4>1. \A e \in Devices : \A p \in pendingIn[e] : p[2] \in Requests /\ Arrived(p[2]) /\ To(p[2]) = e
                BY <1>0 DEF TypeOK, ArrivalsOnly
            <4> QED BY <3>5, <3>5a, <3>5b, <4>1
        <3>7. \A e \in Devices : \A i \in DOMAIN inbound[e] : inbound[e][i].req \in Requests
            BY <1>0, MessageShape
        <3>8. \A e \in Devices : \A i \in DOMAIN inbound'[e] :
                stream'[inbound'[e][i].req] \notin {"none", "out"} /\ To(inbound'[e][i].req) = e
            BY <1>0, <3>4, <3>7, <3>5a, <3>5b DEF ArrivalsOnly
        <3>9. \A e \in Devices : \A n \in held[e] : n.req \in Requests
            BY <1>0 DEF TypeOK, Inbound
        <3>10. told \subseteq Requests
            BY <1>0 DEF TypeOK
        <3>10a. \A x \in Requests : call'[x] = "new" => stream'[x] = "none"
            BY <2>2
        <3> HIDE DEF Came, Asked
        <3> QED BY <1>0, <2>1, <3>6, <3>8, <3>9, <3>10, <3>5a, <3>10a DEF ArrivalsOnly, Arrived
    <2>4. CASE d \notin handle
        BY <1>1, <1>11, <2>1, <2>2, <2>4 DEF RequestArrives
    <2> QED BY <2>3, <2>4
<1>12. ASSUME NEW r \in Requests, ResponseArrives(r) \/ OutboundFailure(r) PROVE ArrivalsOnly'
    <2>1. stream[r] \in {"back", "cut"} /\ stream' = [stream EXCEPT ![r] = "done"]
        BY <1>12 DEF ResponseArrives, OutboundFailure, Settle
    <2>2. Came
        BY <1>0, <2>1 DEF Arrived, TypeOK
    <2>3. Asked
        <3>1. \A x \in Requests : call'[x] = "new" => call[x] = "new"
            BY <1>0, <1>12 DEF ResponseArrives, OutboundFailure, Settle, TypeOK
        <3>2. \A x \in Requests : stream[x] = "none" => stream'[x] = "none"
            BY <1>0, <2>1 DEF TypeOK
        <3> QED BY <1>0, <3>1, <3>2 DEF ArrivalsOnly
    <2>4. Subsets
        BY <1>12 DEF ResponseArrives, OutboundFailure
    <2> QED BY <1>1, <2>2, <2>3, <2>4
<1>13. ASSUME NEW r \in Requests, StreamBreaks(r) PROVE ArrivalsOnly'
    <2>1. Came /\ Subsets /\ Asked
        BY <1>0, <1>13 DEF StreamBreaks, taskState, Arrived, TypeOK, ArrivalsOnly
    <2> QED BY <1>1, <2>1
<1>14. CASE UNCHANGED vars
    BY <1>0, <1>14 DEF vars, ArrivalsOnly, Arrived
<1> HIDE DEF Came, Asked, Subsets
<1> QED
    BY <1>2, <1>3, <1>4, <1>5, <1>6, <1>7, <1>8, <1>9, <1>10, <1>11, <1>12, <1>13, <1>14
    DEF Next, HandleCmd

LEMMA DeliveryStep ==
    ASSUME IInv, [Next]_vars
    PROVE  DeliveredOnce'
<1>0. TypeOK /\ ArrivalsOnly /\ DeliveredOnce
    BY DEF IInv, TransportInv
<1> DEFINE Subsets == /\ told' = told
                      /\ \A e \in Devices : /\ pendingIn'[e] \subseteq pendingIn[e]
                                            /\ held'[e] \subseteq held[e]
                                            /\ inbound'[e] \in {inbound[e], <<>>}
<1> USE CallShape
<1>1. ASSUME Subsets PROVE DeliveredOnce'
    <2>1. \A e \in Devices : \A i \in DOMAIN inbound'[e] : i \in DOMAIN inbound[e] /\ inbound'[e] = inbound[e]
        BY <1>1, NoneInEmpty
    <2> QED BY <1>0, <1>1, <2>1 DEF DeliveredOnce
<1>2. ASSUME NEW d \in Devices, NextRequest(d) PROVE DeliveredOnce'
    <2>1. /\ inbound[d] \in Seq(Inbound) /\ inbound[d] # <<>>
          /\ inbound' = [inbound EXCEPT ![d] = Tail(inbound[d])]
          /\ held' = [held EXCEPT ![d] = held[d] \cup {Head(inbound[d])}]
          /\ UNCHANGED <<pendingIn, told>>
        BY <1>0, <1>2 DEF NextRequest, TypeOK, taskState
    <2>2. \A i \in DOMAIN Tail(inbound[d]) : i \in Nat /\ i + 1 # 1
            /\ i + 1 \in DOMAIN inbound[d] /\ Tail(inbound[d])[i] = inbound[d][i + 1]
        BY <2>1
    <2>3. 1 \in DOMAIN inbound[d] /\ Head(inbound[d]) = inbound[d][1]
        BY <2>1
    <2>4. \A e \in Devices : e # d => inbound'[e] = inbound[e] /\ held'[e] = held[e]
        BY <1>0, <2>1 DEF TypeOK
    <2>5. inbound'[d] = Tail(inbound[d]) /\ held'[d] = held[d] \cup {inbound[d][1]}
        BY <1>0, <2>1, <2>3 DEF TypeOK
    <2>6. ASSUME NEW e \in Devices PROVE \A p, q \in pendingIn'[e] : p[2] = q[2] => p = q
        BY <1>0, <2>1 DEF DeliveredOnce
    <2>7. ASSUME NEW e \in Devices, NEW m \in held'[e]
          PROVE  m.req \notin told' /\ \A n \in held'[e] : m.req = n.req => m = n
        BY <1>0, <2>1, <2>3, <2>4, <2>5 DEF DeliveredOnce
    <2>8. ASSUME NEW e \in Devices, NEW i \in DOMAIN inbound'[e]
          PROVE  /\ inbound'[e][i].req \notin told'
                 /\ \A m \in held'[e] : m.req # inbound'[e][i].req
                 /\ \A j \in DOMAIN inbound'[e] : inbound'[e][i].req = inbound'[e][j].req => i = j
        <3>1. CASE e # d
            BY <1>0, <2>1, <2>4, <3>1 DEF DeliveredOnce
        <3>2. CASE e = d
            <4>1. \A j \in DOMAIN inbound'[d] :
                    /\ j \in Nat /\ j + 1 # 1 /\ j + 1 \in DOMAIN inbound[d]
                    /\ inbound'[d][j] = inbound[d][j + 1]
                BY <2>2, <2>5
            <4>2. \A j \in DOMAIN inbound'[d] : inbound'[d][j].req # inbound[d][1].req
                BY <1>0, <2>3, <4>1 DEF DeliveredOnce
            <4>3. \A j \in DOMAIN inbound'[d] :
                    inbound'[d][j].req \notin told /\ \A m \in held[d] : m.req # inbound'[d][j].req
                BY <1>0, <4>1 DEF DeliveredOnce
            <4>4. \A j, k \in DOMAIN inbound'[d] : inbound'[d][j].req = inbound'[d][k].req => j = k
                <5>1. \A j, k \in DOMAIN inbound[d] : inbound[d][j].req = inbound[d][k].req => j = k
                    BY <1>0 DEF DeliveredOnce
                <5>2. \A j, k \in DOMAIN inbound'[d] : inbound'[d][j].req = inbound'[d][k].req => j + 1 = k + 1
                    BY <4>1, <5>1
                <5> QED BY <4>1, <5>2
            <4> QED BY <2>1, <2>5, <3>2, <4>2, <4>3, <4>4
        <3> QED BY <3>1, <3>2
    <2> QED BY <2>6, <2>7, <2>8 DEF DeliveredOnce
<1>3. ASSUME NEW d \in Devices, SendReply(d) PROVE DeliveredOnce'
    <2>1. PICK m \in held[d] :
            /\ held' = [held EXCEPT ![d] = @ \ {m}]
            /\ told' = told \cup {m.req}
            /\ UNCHANGED <<pendingIn, inbound>>
        BY <1>3 DEF SendReply, taskState
    <2>2. \A e \in Devices : held'[e] \subseteq held[e]
        BY <1>0, <2>1 DEF TypeOK
    <2>3. m \notin held'[d]
        BY <1>0, <2>1 DEF TypeOK
    <2>4. \A e \in Devices : \A n \in held'[e] : n.req # m.req
        BY <1>0, <2>2, <2>3 DEF DeliveredOnce, ArrivalsOnly
    <2>5. \A e \in Devices : \A i \in DOMAIN inbound[e] : inbound[e][i].req # m.req
        BY <1>0 DEF DeliveredOnce, ArrivalsOnly
    <2> QED BY <1>0, <2>1, <2>2, <2>4, <2>5 DEF DeliveredOnce
<1>4. ASSUME NEW d \in Devices, ForgetReply(d) PROVE DeliveredOnce'
    BY <1>0, <1>1, <1>4 DEF ForgetReply, taskState, TypeOK
<1>5. ASSUME NEW d \in Devices, DropTransport(d) PROVE DeliveredOnce'
    BY <1>0, <1>1, <1>5 DEF DropTransport, taskState, TypeOK
<1>6. ASSUME NEW d \in Devices, TakeRequest(d) \/ TakeRespond(d) \/ TakeDial(d) PROVE DeliveredOnce'
    <2>1. UNCHANGED <<told, held, inbound>>
        BY <1>6 DEF TakeRequest, TakeRespond, TakeDial, taskState
    <2>2. \A e \in Devices : pendingIn'[e] \subseteq pendingIn[e]
        <3>1. CASE TakeRespond(d)
            BY <1>0, <3>1 DEF TakeRespond, TypeOK
        <3>2. CASE TakeRequest(d) \/ TakeDial(d)
            BY <3>2 DEF TakeRequest, TakeDial, taskState
        <3> QED BY <1>6, <3>1, <3>2
    <2> QED BY <1>1, <2>1, <2>2
<1>7. ASSUME NEW d \in Devices, TakeShutdown(d) \/ Exit(d) PROVE DeliveredOnce'
    <2>1. Subsets
        BY <1>0, <1>7 DEF TakeShutdown, Exit, TypeOK
    <2> QED BY <1>1, <2>1
<1>8. ASSUME NEW r \in Requests, RequestArrives(r) PROVE DeliveredOnce'
    <2> DEFINE d == To(r)
               m == [req |-> r, id |-> nextId[d]]
    <2>1. d \in Devices /\ ~ Arrived(r) /\ UNCHANGED <<told, held>>
        BY <1>8 DEF RequestArrives, Arrived
    <2>2. CASE d \in handle
        <3>1. /\ pendingIn' = [pendingIn EXCEPT ![d] = @ \cup {<<nextId[d], r>>}]
              /\ inbound' = [inbound EXCEPT ![d] = Append(inbound[d], m)]
            BY <1>8, <2>2 DEF RequestArrives
        <3>2. inbound[d] \in Seq(Inbound) /\ m \in Inbound /\ m.req = r
            BY <1>0, <2>1 DEF TypeOK, Inbound
        <3> HIDE DEF m
        <3>3. \A i \in DOMAIN Append(inbound[d], m) :
                \/ i = Len(inbound[d]) + 1 /\ Append(inbound[d], m)[i] = m
                \/ i \in DOMAIN inbound[d] /\ Append(inbound[d], m)[i] = inbound[d][i]
            BY <3>2
        <3>4. \A e \in Devices : \A i \in DOMAIN inbound'[e] :
                \/ e = d /\ i = Len(inbound[e]) + 1 /\ inbound'[e][i].req = r
                \/ i \in DOMAIN inbound[e] /\ inbound'[e][i] = inbound[e][i]
            BY <1>0, <2>1, <3>1, <3>2, <3>3 DEF TypeOK
        <3>5. \A e \in Devices : \A p \in pendingIn'[e] :
                p \in pendingIn[e] \/ (e = d /\ p = <<nextId[d], r>>)
            BY <1>0, <2>1, <3>1 DEF TypeOK
        <3>6. /\ r \notin told
              /\ \A e \in Devices : \A p \in pendingIn[e] : p[2] # r
              /\ \A e \in Devices : \A n \in held[e] : n.req # r
              /\ \A e \in Devices : \A i \in DOMAIN inbound[e] : inbound[e][i].req # r
            BY <1>0, <2>1 DEF ArrivalsOnly
        <3>7. ASSUME NEW e \in Devices PROVE \A p, q \in pendingIn'[e] : p[2] = q[2] => p = q
            BY <1>0, <3>5, <3>6 DEF DeliveredOnce
        <3>8. ASSUME NEW e \in Devices, NEW i \in DOMAIN inbound'[e]
              PROVE  /\ inbound'[e][i].req \notin told
                     /\ \A n \in held[e] : n.req # inbound'[e][i].req
                     /\ \A j \in DOMAIN inbound'[e] : inbound'[e][i].req = inbound'[e][j].req => i = j
            BY <1>0, <3>4, <3>6 DEF DeliveredOnce
        <3> QED BY <1>0, <2>1, <3>7, <3>8 DEF DeliveredOnce
    <2>3. CASE d \notin handle
        BY <1>1, <1>8, <2>1, <2>3 DEF RequestArrives
    <2> QED BY <2>2, <2>3
<1>9. ASSUME NEW r \in Requests, ResponseArrives(r) \/ OutboundFailure(r) \/ StreamBreaks(r)
      PROVE  DeliveredOnce'
    <2>1. Subsets
        BY <1>9 DEF ResponseArrives, OutboundFailure, StreamBreaks, taskState
    <2> QED BY <1>1, <2>1
<1>10. ASSUME NEW c \in Calls, Ask(c) \/ Cancel(c) PROVE DeliveredOnce'
    <2>1. Subsets
        BY <1>10 DEF Ask, Cancel, taskState
    <2> QED BY <1>1, <2>1
<1>11. CASE UNCHANGED vars
    BY <1>1, <1>11 DEF vars
<1> HIDE DEF Subsets
<1> QED
    BY <1>2, <1>3, <1>4, <1>5, <1>6, <1>7, <1>8, <1>9, <1>10, <1>11 DEF Next, HandleCmd

LEMMA RespondFacts ==
    ASSUME IInv, NEW d \in Devices, TakeRespond(d)
    PROVE  LET m == Head(cmds[d]) IN
           /\ d \in task /\ 1 \in DOMAIN cmds[d] /\ m = cmds[d][1] /\ m.op = "respond"
           /\ m.bytes \in told /\ m.bytes \in Requests /\ m.id \in Nat
           /\ \A p \in pendingIn[d] : p[1] = m.id => p = <<m.id, m.bytes>>
           /\ <<m.id, m.bytes>> \in pendingIn[d]
           /\ pendingIn' = [pendingIn EXCEPT ![d] = @ \ {<<m.id, m.bytes>>}]
           /\ \A r \in Requests : stream'[r] = "back" /\ stream[r] # "back" =>
                r = m.bytes /\ payload'[r] = r
           /\ \A r \in Requests : stream[r] = "back" => payload'[r] = payload[r]
<1> DEFINE m == Head(cmds[d])
<1>0. TypeOK /\ CommandsFit /\ IdsNameTheirRequest /\ cmds \in Queues
    BY DEF IInv, TransportInv, TypeOK, Queues
<1>1. d \in task /\ 1 \in DOMAIN cmds[d] /\ m = cmds[d][1] /\ m \in Cmd /\ m.op = "respond"
    BY <1>0, TakenFacts DEF TakeRespond, NextIs
<1>2. m.bytes \in told /\ m.bytes \in Requests /\ m.id \in Nat
    BY <1>0, <1>1, CmdFields DEF CommandsFit
<1>3. /\ pendingIn' = [pendingIn EXCEPT ![d] = @ \ {p \in pendingIn[d] : p[1] = m.id}]
      /\ stream' = [r \in Requests |-> IF stream[r] = "in" /\ <<m.id, r>> \in {p \in pendingIn[d] : p[1] = m.id}
                                        THEN "back" ELSE stream[r]]
      /\ payload' = [r \in Requests |-> IF stream[r] = "in" /\ <<m.id, r>> \in {p \in pendingIn[d] : p[1] = m.id}
                                         THEN m.bytes ELSE payload[r]]
    BY DEF TakeRespond
<1> HIDE DEF m
<1>4. <<m.id, m.bytes>> \in pendingIn[d]
    BY <1>0, <1>1 DEF IdsNameTheirRequest
<1>5. \A p \in pendingIn[d] : p[1] = m.id => p = <<m.id, m.bytes>>
    BY <1>0, <1>1, <1>4 DEF IdsNameTheirRequest
<1>6. {p \in pendingIn[d] : p[1] = m.id} = {<<m.id, m.bytes>>}
    BY <1>4, <1>5
<1>7. \A r \in Requests : <<m.id, r>> \in {<<m.id, m.bytes>>} => r = m.bytes
    OBVIOUS
<1>8. \A r \in Requests : stream'[r] = "back" /\ stream[r] # "back" => r = m.bytes /\ payload'[r] = r
    BY <1>3, <1>6, <1>7
<1>9. \A r \in Requests : stream[r] = "back" => payload'[r] = payload[r]
    BY <1>3
<1>10. pendingIn' = [pendingIn EXCEPT ![d] = @ \ {<<m.id, m.bytes>>}]
    BY <1>3, <1>6
<1> QED BY <1>1, <1>2, <1>4, <1>5, <1>8, <1>9, <1>10 DEF m

LEMMA AnswerStep ==
    ASSUME IInv, [Next]_vars
    PROVE  AnswersFit'
<1>0. TypeOK /\ AnswersFit
    BY DEF IInv, TransportInv
<1>1. ASSUME \A r \in Requests : stream'[r] = "back" => stream[r] = "back",
             \A r \in Requests : stream[r] = "back" => payload'[r] = payload[r],
             told \subseteq told'
      PROVE  AnswersFit'
    BY <1>0, <1>1 DEF AnswersFit
<1>2. ASSUME NEW d \in Devices, SendReply(d) PROVE AnswersFit'
    <2>1. told \subseteq told' /\ UNCHANGED <<stream, payload>>
        BY <1>2 DEF SendReply
    <2> QED BY <1>1, <2>1
<1>3. ASSUME NEW d \in Devices, NextRequest(d) \/ ForgetReply(d) \/ DropTransport(d) PROVE AnswersFit'
    <2>1. UNCHANGED <<stream, payload, told>>
        BY <1>3 DEF NextRequest, ForgetReply, DropTransport
    <2> QED BY <1>1, <2>1
<1>4. ASSUME NEW c \in Calls, Ask(c) \/ Cancel(c) PROVE AnswersFit'
    <2>1. UNCHANGED <<stream, payload, told>>
        BY <1>4 DEF Ask, Cancel
    <2> QED BY <1>1, <2>1
<1>5. ASSUME NEW d \in Devices, TakeRespond(d) PROVE AnswersFit'
    <2>1. told' = told
        BY <1>5 DEF TakeRespond
    <2> QED BY <1>0, <1>5, <2>1, RespondFacts DEF AnswersFit
<1>6. ASSUME NEW d \in Devices, TakeRequest(d) \/ TakeDial(d) PROVE AnswersFit'
    <2>1. UNCHANGED <<payload, told>> /\ \A r \in Requests : stream'[r] = "back" => stream[r] = "back"
        BY <1>0, <1>6 DEF TakeRequest, TakeDial, TypeOK
    <2> QED BY <1>1, <2>1
<1>7. ASSUME NEW d \in Devices, TakeShutdown(d) \/ Exit(d) PROVE AnswersFit'
    <2>1. UNCHANGED <<payload, told>> /\ \A r \in Requests : stream'[r] = "back" => stream[r] = "back"
        BY <1>7 DEF TakeShutdown, Exit, StreamsBroken
    <2> QED BY <1>1, <2>1
<1>8. ASSUME NEW r \in Requests,
             RequestArrives(r) \/ ResponseArrives(r) \/ OutboundFailure(r) \/ StreamBreaks(r)
      PROVE  AnswersFit'
    <2>1. UNCHANGED <<payload, told>> /\ \A x \in Requests : stream'[x] = "back" => stream[x] = "back"
        BY <1>0, <1>8 DEF RequestArrives, ResponseArrives, OutboundFailure, Settle, StreamBreaks, TypeOK
    <2> QED BY <1>1, <2>1
<1>9. CASE UNCHANGED vars
    BY <1>1, <1>9 DEF vars
<1> QED
    BY <1>2, <1>3, <1>4, <1>5, <1>6, <1>7, <1>8, <1>9 DEF Next, HandleCmd

\* The two places where a task may know of a caller.
Queued(c) == \E i \in DOMAIN cmds[From(c)] :
                 cmds[From(c)][i].op \in {"request", "dial"} /\ cmds[From(c)][i].call = c
Sent(c) == c \in pendingOut[From(c)] /\ stream[c] \in {"out", "in", "back", "cut"}

LEMMA WaitersStep ==
    ASSUME IInv, [Next]_vars
    PROVE  WaitersTracked'
<1>0. TypeOK /\ CommandsFit /\ WaitersTracked /\ cmds \in Queues
    BY DEF IInv, TransportInv, TypeOK, Queues
<1>00. \A c \in Calls : call[c] = "open" => From(c) \in task /\ (Queued(c) \/ Sent(c))
    BY <1>0 DEF WaitersTracked, Queued, Sent
<1> DEFINE Kept == \A c \in Calls : call'[c] = "open" =>
                       From(c) \in task' /\ (Queued(c)' \/ Sent(c)')
<1>1. SUFFICES Kept
    BY DEF WaitersTracked, Queued, Sent
<1> USE CallShape
<1>2. ASSUME NEW c \in Calls, Ask(c) PROVE Kept
    <2> DEFINE cmd == [op |-> IF c \in Dials THEN "dial" ELSE "request", call |-> c]
    <2>1. cmd \in Cmd /\ Submit(From(c), cmd) /\ From(c) \in handle
        BY <1>2 DEF Cmd, Calls, Ask
    <2>2. cmd.call = c /\ cmd.op \in {"request", "dial"}
        OBVIOUS
    <2>3. call' = [call EXCEPT ![c] = "open"] /\ UNCHANGED <<task, pendingOut, stream>>
        BY <1>2 DEF Ask, taskState
    <2>4. From(c) \in task
        BY <1>0, <2>1 DEF CommandsFit
    <2> HIDE DEF cmd
    <2>5. Queued(c)'
        BY <1>0, <2>1, <2>2, <2>4, SubmitFacts DEF Queued
    <2>6. \A x \in Calls : Queued(x) => Queued(x)'
        BY <1>0, <2>1, SubmitFacts DEF Queued
    <2> QED BY <1>0, <1>00, <2>3, <2>4, <2>5, <2>6 DEF Sent, TypeOK
<1>3. ASSUME NEW d \in Devices, NEW cmd \in Cmd, Submit(d, cmd), UNCHANGED <<task, pendingOut, stream, call>>
      PROVE  Kept
    <2>1. \A x \in Calls : Queued(x) => Queued(x)'
        BY <1>0, <1>3, SubmitFacts DEF Queued
    <2> QED BY <1>00, <1>3, <2>1 DEF Sent
<1>4. ASSUME NEW d \in Devices, SendReply(d) PROVE Kept
    <2>1. PICK m \in held[d] :
            /\ Submit(d, [op |-> "respond", bytes |-> m.req, id |-> m.id])
            /\ UNCHANGED <<task, pendingOut, stream, call>>
        BY <1>4 DEF SendReply, taskState
    <2>2. [op |-> "respond", bytes |-> m.req, id |-> m.id] \in Cmd
        BY <1>0, MessageShape DEF Cmd
    <2> QED BY <1>3, <2>1, <2>2
<1>5. ASSUME NEW d \in Devices, DropTransport(d) PROVE Kept
    <2>1. [op |-> "shutdown"] \in Cmd /\ Submit(d, [op |-> "shutdown"])
          /\ UNCHANGED <<task, pendingOut, stream, call>>
        BY <1>5 DEF Cmd, DropTransport, taskState
    <2> QED BY <1>3, <2>1
<1>6. ASSUME NEW d \in Devices, cmds[d] # <<>>, Taken(d), NEW c \in Calls, Queued(c)
      PROVE  Queued(c)' \/ (From(c) = d /\ Head(cmds[d]).call = c)
    <2>1. CASE From(c) # d
        BY <1>0, <1>6, <2>1, TakenFacts DEF Queued
    <2>2. CASE From(c) = d
        <3>1. PICK i \in DOMAIN cmds[d] : cmds[d][i].op \in {"request", "dial"} /\ cmds[d][i].call = c
            BY <1>6, <2>2 DEF Queued
        <3>2. CASE i = 1
            BY <1>0, <1>6, <2>2, <3>1, <3>2, TakenFacts
        <3>3. CASE i # 1
            <4>1. i - 1 \in DOMAIN cmds'[d] /\ cmds'[d][i - 1] = cmds[d][i]
                BY <1>0, <1>6, <3>3, TakenFacts
            <4> QED BY <2>2, <3>1, <4>1 DEF Queued
        <3> QED BY <3>2, <3>3
    <2> QED BY <2>1, <2>2
<1>7. ASSUME NEW d \in Devices, TakeRequest(d) PROVE Kept
    <2>1. PICK r \in Requests : r = Head(cmds[d]).call
        BY <1>0, <1>7, TakenFacts, CmdFields DEF TakeRequest, NextIs
    <2>2. /\ cmds[d] # <<>> /\ Taken(d) /\ UNCHANGED <<task, call>>
          /\ stream' = [stream EXCEPT ![r] = "out"]
          /\ pendingOut' = [pendingOut EXCEPT ![d] = @ \cup {r}]
        BY <1>7, <2>1 DEF TakeRequest, NextIs
    <2>3. \A x \in Calls : Sent(x) => Sent(x)'
        <3>1. \A e \in Devices : pendingOut[e] \subseteq pendingOut'[e] /\ pendingOut[e] \subseteq Requests
            BY <1>0, <2>2 DEF TypeOK
        <3>2. \A x \in Requests : stream'[x] = stream[x] \/ stream'[x] = "out"
            BY <1>0, <2>2, <2>1 DEF TypeOK
        <3> QED BY <3>1, <3>2 DEF Sent
    <2>4. From(r) = d => Sent(r)'
        <3>1. r \in pendingOut'[d]
            BY <1>0, <2>2 DEF TypeOK
        <3>2. stream'[r] = "out"
            BY <1>0, <2>2, <2>1 DEF TypeOK
        <3> QED BY <3>1, <3>2 DEF Sent
    <2>5. \A x \in Calls : Queued(x) => Queued(x)' \/ Sent(x)'
        BY <1>6, <2>2, <2>1, <2>4
    <2> QED BY <1>00, <2>2, <2>3, <2>5
<1>8. ASSUME NEW d \in Devices, TakeRespond(d) PROVE Kept
    <2>1. Head(cmds[d]) \in Cmd /\ cmds[d] # <<>> /\ Taken(d) /\ 1 \in DOMAIN cmds[d]
          /\ Head(cmds[d]) = cmds[d][1] /\ Head(cmds[d]).op = "respond"
        BY <1>0, <1>8, TakenFacts DEF TakeRespond, NextIs
    <2>2. \A x \in Calls : Queued(x) => Queued(x)'
        <3>1. ASSUME NEW x \in Calls, Queued(x) PROVE Queued(x)'
            <4>1. PICK i \in DOMAIN cmds[From(x)] :
                    cmds[From(x)][i].op \in {"request", "dial"} /\ cmds[From(x)][i].call = x
                BY <3>1 DEF Queued
            <4>2. From(x) = d => i # 1
                BY <2>1, <4>1
            <4>3. CASE From(x) = d
                <5>1. i - 1 \in DOMAIN cmds'[d] /\ cmds'[d][i - 1] = cmds[d][i]
                    BY <1>0, <2>1, <4>2, <4>3, TakenFacts
                <5> QED BY <4>1, <4>3, <5>1 DEF Queued
            <4>4. CASE From(x) # d
                BY <1>0, <2>1, <4>1, <4>4, TakenFacts DEF Queued
            <4> QED BY <4>3, <4>4
        <3> QED BY <3>1
    <2>3. UNCHANGED <<task, call, pendingOut>>
        BY <1>8 DEF TakeRespond
    <2>4. \A x \in Requests : stream[x] \in {"out", "in", "back", "cut"} => stream'[x] \in {"out", "in", "back", "cut"}
        BY <1>8 DEF TakeRespond
    <2>5. \A x \in Calls : Sent(x) => Sent(x)'
        BY <1>0, <2>3, <2>4 DEF Sent, TypeOK
    <2> QED BY <1>00, <2>2, <2>3, <2>5
<1>9. ASSUME NEW d \in Devices, TakeDial(d) PROVE Kept
    <2> DEFINE c == Head(cmds[d]).call
    <2>1. cmds[d] # <<>> /\ Taken(d) /\ UNCHANGED <<task, pendingOut, stream>>
        BY <1>9 DEF TakeDial, NextIs, taskState
    <2>2. c \in Dials
        BY <1>0, <1>9, TakenFacts, CmdFields DEF TakeDial, NextIs
    <2>3. PICK how \in {"ok", "failed"} : call' = [call EXCEPT ![c] = IF @ = "open" THEN how ELSE @]
        BY <1>9 DEF TakeDial
    <2> HIDE DEF c
    <2>4. \A x \in Calls : call'[x] = "open" => call[x] = "open" /\ x # c
        BY <1>0, <2>2, <2>3 DEF TypeOK
    <2>5. \A x \in Calls : x # c /\ Queued(x) => Queued(x)'
        BY <1>6, <2>1 DEF c
    <2> QED BY <1>00, <2>1, <2>4, <2>5 DEF Sent
<1>10. ASSUME NEW d \in Devices, TakeShutdown(d) \/ Exit(d) PROVE Kept
    <2>1. \A x \in Calls : call'[x] = "open" => call[x] = "open" /\ From(x) # d
        BY <1>0, <1>10 DEF TakeShutdown, Exit, TypeOK
    <2>2. /\ task' = task \ {d} /\ cmds' = [cmds EXCEPT ![d] = <<>>]
          /\ pendingOut' = [pendingOut EXCEPT ![d] = {}] /\ StreamsBroken(d)
        BY <1>10 DEF TakeShutdown, Exit
    <2>3. \A x \in Requests : stream[x] \in {"out", "in", "back", "cut"} => stream'[x] \in {"out", "in", "back", "cut"}
        BY <2>2 DEF StreamsBroken
    <2>4. \A e \in Devices : e # d => cmds'[e] = cmds[e] /\ pendingOut'[e] = pendingOut[e]
        BY <1>0, <2>2 DEF TypeOK
    <2>5. \A x \in Calls : From(x) # d /\ Queued(x) => Queued(x)'
        BY <2>4 DEF Queued
    <2>6. \A x \in Calls : From(x) # d /\ Sent(x) => Sent(x)'
        BY <1>0, <2>3, <2>4 DEF Sent, TypeOK
    <2> QED BY <1>00, <2>1, <2>2, <2>5, <2>6
<1>11. ASSUME NEW r \in Requests, RequestArrives(r) \/ StreamBreaks(r) PROVE Kept
    <2>1. UNCHANGED <<task, call, pendingOut, cmds>>
        BY <1>11 DEF RequestArrives, StreamBreaks, taskState
    <2>2. \A x \in Requests : stream[x] \in {"out", "in", "back", "cut"} => stream'[x] \in {"out", "in", "back", "cut"}
        BY <1>0, <1>11 DEF RequestArrives, StreamBreaks, TypeOK
    <2>3. \A x \in Calls : Sent(x) => Sent(x)'
        BY <1>0, <2>1, <2>2 DEF Sent, TypeOK
    <2>4. \A x \in Calls : Queued(x) => Queued(x)'
        BY <2>1 DEF Queued
    <2> QED BY <1>00, <2>1, <2>3, <2>4
<1>12. ASSUME NEW r \in Requests, NEW how \in {"ok", "failed"}, Settle(r, how), UNCHANGED <<task, cmds>>
       PROVE  Kept
    <2>1. \A x \in Calls : call'[x] = "open" => call[x] = "open" /\ (x = r => r \notin pendingOut[From(r)])
        BY <1>0, <1>12 DEF Settle, TypeOK
    <2>2. \A x \in Requests : x # r => stream'[x] = stream[x]
        BY <1>0, <1>12 DEF Settle, TypeOK
    <2>3. \A e \in Devices : \A x \in pendingOut[e] : x # r => x \in pendingOut'[e]
        BY <1>0, <1>12 DEF Settle, TypeOK
    <2>4. \A x \in Calls : x # r /\ Sent(x) => Sent(x)'
        BY <1>0, <2>2, <2>3 DEF Sent, TypeOK
    <2>5. \A x \in Calls : Queued(x) => Queued(x)'
        BY <1>12 DEF Queued
    <2> QED BY <1>00, <1>12, <2>1, <2>4, <2>5 DEF Sent
<1>13. ASSUME NEW r \in Requests, ResponseArrives(r) \/ OutboundFailure(r) PROVE Kept
    BY <1>12, <1>13 DEF ResponseArrives, OutboundFailure
<1>14. ASSUME UNCHANGED <<task, cmds, pendingOut, stream>>,
              \A x \in Calls : call'[x] = "open" => call[x] = "open"
       PROVE  Kept
    BY <1>00, <1>14 DEF Queued, Sent
<1>15. ASSUME NEW c \in Calls, Cancel(c) PROVE Kept
    BY <1>0, <1>14, <1>15 DEF Cancel, taskState, TypeOK
<1>16. ASSUME NEW d \in Devices, NextRequest(d) \/ ForgetReply(d) PROVE Kept
    <2>1. UNCHANGED <<task, cmds, pendingOut, stream, call>>
        BY <1>16 DEF NextRequest, ForgetReply, taskState
    <2> QED BY <1>14, <2>1
<1>17. CASE UNCHANGED vars
    BY <1>14, <1>17 DEF vars
<1> HIDE DEF Kept
<1> QED
    BY <1>2, <1>4, <1>5, <1>7, <1>8, <1>9, <1>10, <1>11, <1>13, <1>15, <1>16, <1>17
    DEF Next, HandleCmd

\* IdsNameTheirRequest of one device.
Messages(d) == held[d] \cup {inbound[d][i] : i \in DOMAIN inbound[d]}
IdsOf(d) ==
    /\ \A m \in Messages(d) : <<m.id, m.req>> \in pendingIn[d]
    /\ \A i \in DOMAIN cmds[d] : cmds[d][i].op = "respond" =>
         <<cmds[d][i].id, cmds[d][i].bytes>> \in pendingIn[d]
    /\ \A p, q \in pendingIn[d] : p[1] = q[1] => p = q
    /\ \A p \in pendingIn[d] : p[2] \in told =>
         \E i \in DOMAIN cmds[d] : cmds[d][i].op = "respond" /\ cmds[d][i].id = p[1]

LEMMA IdsKept ==
    ASSUME NEW d \in Devices, IdsOf(d), pendingIn'[d] = pendingIn[d],
           Messages(d)' \subseteq Messages(d),
           \A i \in DOMAIN cmds'[d] : cmds'[d][i].op = "respond" =>
               \E j \in DOMAIN cmds[d] : cmds'[d][i] = cmds[d][j],
           \A j \in DOMAIN cmds[d] : cmds[d][j].op = "respond" =>
               \E i \in DOMAIN cmds'[d] : cmds'[d][i] = cmds[d][j],
           \A p \in pendingIn[d] : p[2] \in told' => p[2] \in told
    PROVE  IdsOf(d)'
<1>1. \A m \in Messages(d)' : <<m.id, m.req>> \in pendingIn'[d]
    BY DEF IdsOf
<1>2. \A i \in DOMAIN cmds'[d] : cmds'[d][i].op = "respond" =>
         <<cmds'[d][i].id, cmds'[d][i].bytes>> \in pendingIn'[d]
    BY DEF IdsOf
<1>3. \A p, q \in pendingIn'[d] : p[1] = q[1] => p = q
    BY DEF IdsOf
<1>4. \A p \in pendingIn'[d] : p[2] \in told' =>
         \E i \in DOMAIN cmds'[d] : cmds'[d][i].op = "respond" /\ cmds'[d][i].id = p[1]
    BY DEF IdsOf
<1> HIDE DEF Messages
<1> QED BY <1>1, <1>2, <1>3, <1>4 DEF IdsOf

LEMMA IdsStep ==
    ASSUME IInv, [Next]_vars
    PROVE  IdsNameTheirRequest'
<1>0. /\ TypeOK /\ CommandsFit /\ QueuedOnce /\ ArrivalsOnly /\ DeliveredOnce /\ cmds \in Queues
      /\ IdsNameTheirRequest
    BY DEF IInv, TransportInv, TypeOK, Queues
<1>00. \A e \in task : e \in Devices /\ IdsOf(e)
    BY <1>0 DEF IdsNameTheirRequest, IdsOf, Messages, TypeOK
<1> DEFINE Kept == \A e \in task' : IdsOf(e)'
<1>1. SUFFICES Kept
    BY DEF IdsNameTheirRequest, IdsOf, Messages
<1> USE CallShape
<1>2. ASSUME NEW d \in Devices, NEW cmd \in Cmd, cmd.op # "respond", Submit(d, cmd),
             \A e \in Devices : Messages(e)' \subseteq Messages(e), UNCHANGED <<task, pendingIn, told>>
      PROVE  Kept
    <2> SUFFICES ASSUME NEW e \in task PROVE IdsOf(e)'
        BY <1>2
    <2>1. \A i \in DOMAIN cmds'[e] : cmds'[e][i].op = "respond" =>
            \E j \in DOMAIN cmds[e] : cmds'[e][i] = cmds[e][j]
        BY <1>0, <1>00, <1>2, SubmitFacts
    <2>2. \A j \in DOMAIN cmds[e] : \E i \in DOMAIN cmds'[e] : cmds'[e][i] = cmds[e][j]
        BY <1>0, <1>00, <1>2, SubmitFacts
    <2> QED BY <1>00, <1>2, <2>1, <2>2, IdsKept
<1>3. ASSUME NEW c \in Calls, Ask(c) PROVE Kept
    <2> DEFINE cmd == [op |-> IF c \in Dials THEN "dial" ELSE "request", call |-> c]
    <2>1. cmd \in Cmd /\ Submit(From(c), cmd) /\ cmd.op # "respond"
        BY <1>3 DEF Cmd, Calls, Ask
    <2>2. \A e \in Devices : Messages(e)' = Messages(e)
        BY <1>3 DEF Ask, Messages
    <2>3. UNCHANGED <<task, pendingIn, told>>
        BY <1>3 DEF Ask, taskState
    <2> HIDE DEF cmd
    <2> QED BY <1>2, <2>1, <2>2, <2>3
<1>4. ASSUME NEW d \in Devices, DropTransport(d) PROVE Kept
    <2> DEFINE cmd == [op |-> "shutdown"]
    <2>1. cmd \in Cmd /\ Submit(d, cmd) /\ cmd.op # "respond"
        BY <1>4 DEF Cmd, DropTransport
    <2>2. UNCHANGED <<task, pendingIn, told, held>>
        BY <1>4 DEF DropTransport, taskState
    <2>3. \A e \in Devices : inbound'[e] \in {inbound[e], <<>>}
        BY <1>0, <1>4 DEF DropTransport, TypeOK
    <2>4. \A e \in Devices : Messages(e)' \subseteq Messages(e)
        BY <2>2, <2>3, NoneInEmpty DEF Messages
    <2> HIDE DEF cmd
    <2> QED BY <1>2, <2>1, <2>2, <2>4
<1>5. ASSUME UNCHANGED <<task, pendingIn, told, cmds>>, \A e \in Devices : Messages(e)' \subseteq Messages(e)
      PROVE  Kept
    BY <1>00, <1>5, IdsKept
<1>6. ASSUME NEW d \in Devices, NextRequest(d) PROVE Kept
    <2>1. /\ inbound[d] \in Seq(Inbound) /\ inbound[d] # <<>>
          /\ inbound' = [inbound EXCEPT ![d] = Tail(inbound[d])]
          /\ held' = [held EXCEPT ![d] = held[d] \cup {Head(inbound[d])}]
          /\ UNCHANGED <<task, pendingIn, told, cmds>>
        BY <1>0, <1>6 DEF NextRequest, TypeOK, taskState
    <2>2. /\ \A i \in DOMAIN Tail(inbound[d]) :
                i + 1 \in DOMAIN inbound[d] /\ Tail(inbound[d])[i] = inbound[d][i + 1]
          /\ 1 \in DOMAIN inbound[d] /\ Head(inbound[d]) = inbound[d][1]
        BY <2>1
    <2>3. \A e \in Devices : e # d => inbound'[e] = inbound[e] /\ held'[e] = held[e]
        BY <1>0, <2>1 DEF TypeOK
    <2>4. inbound'[d] = Tail(inbound[d]) /\ held'[d] = held[d] \cup {inbound[d][1]}
        BY <1>0, <2>1, <2>2 DEF TypeOK
    <2>5. \A e \in Devices : Messages(e)' \subseteq Messages(e)
        <3>1. ASSUME NEW e \in Devices, e # d PROVE Messages(e)' = Messages(e)
            BY <2>3, <3>1 DEF Messages
        <3>2. Messages(d)' \subseteq Messages(d)
            BY <2>2, <2>4 DEF Messages
        <3> QED BY <3>1, <3>2
    <2> QED BY <1>5, <2>1, <2>5
<1>7. ASSUME NEW d \in Devices, ForgetReply(d) PROVE Kept
    <2>1. UNCHANGED <<task, pendingIn, told, cmds, inbound>>
        BY <1>7 DEF ForgetReply, taskState
    <2>2. \A e \in Devices : held'[e] \subseteq held[e]
        BY <1>0, <1>7 DEF ForgetReply, TypeOK
    <2>3. \A e \in Devices : Messages(e)' \subseteq Messages(e)
        BY <2>1, <2>2 DEF Messages
    <2> QED BY <1>5, <2>1, <2>3
<1>8. ASSUME NEW d \in Devices, SendReply(d) PROVE Kept
    <2>1. PICK m \in held[d] :
            /\ held' = [held EXCEPT ![d] = @ \ {m}]
            /\ told' = told \cup {m.req}
            /\ Submit(d, [op |-> "respond", bytes |-> m.req, id |-> m.id])
            /\ UNCHANGED <<task, pendingIn, inbound>>
        BY <1>8 DEF SendReply, taskState
    <2>2. m.req \in Requests /\ m.id \in Nat
        BY <1>0, MessageShape
    <2> DEFINE cmd == [op |-> "respond", bytes |-> m.req, id |-> m.id]
    <2>3. cmd \in Cmd /\ cmd.op = "respond" /\ cmd.bytes = m.req /\ cmd.id = m.id
        BY <2>2 DEF Cmd
    <2>4. Submit(d, cmd)
        BY <2>1
    <2> HIDE DEF cmd
    <2>5. \A e \in Devices : Messages(e)' \subseteq Messages(e)
        <3>1. \A e \in Devices : held'[e] \subseteq held[e]
            BY <1>0, <2>1 DEF TypeOK
        <3> QED BY <2>1, <3>1 DEF Messages
    <2>6. \A e \in Devices : \A j \in DOMAIN cmds[e] : \E i \in DOMAIN cmds'[e] : cmds'[e][i] = cmds[e][j]
        BY <1>0, <2>3, <2>4, SubmitFacts
    <2> SUFFICES ASSUME NEW e \in task PROVE IdsOf(e)'
        BY <2>1
    <2>7. CASE e # d
        <3>1. \A i \in DOMAIN cmds'[e] : \E j \in DOMAIN cmds[e] : cmds'[e][i] = cmds[e][j]
            BY <1>0, <1>00, <2>3, <2>4, <2>7, SubmitFacts
        <3>2. \A p \in pendingIn[e] : p[2] # m.req
            BY <1>0, <1>00, <2>7 DEF ArrivalsOnly
        <3> QED BY <1>00, <2>1, <2>5, <2>6, <3>1, <3>2, IdsKept
    <2>8. CASE e = d
        <3>1. \A i \in DOMAIN cmds'[d] : cmds'[d][i] = cmd \/ \E j \in DOMAIN cmds[d] : cmds'[d][i] = cmds[d][j]
            BY <1>0, <2>3, <2>4, SubmitFacts
        <3>2. \E i \in DOMAIN cmds'[d] : cmds'[d][i] = cmd
            BY <1>0, <2>3, <2>4, <2>8, SubmitFacts
        <3>3. m \in Messages(d)
            BY DEF Messages
        <3>4. <<m.id, m.req>> \in pendingIn[d]
            BY <1>00, <2>8, <3>3 DEF IdsOf
        <3>5. \A x \in Messages(d)' : <<x.id, x.req>> \in pendingIn'[d]
            BY <1>00, <2>1, <2>5, <2>8 DEF IdsOf
        <3>6. \A i \in DOMAIN cmds'[d] : cmds'[d][i].op = "respond" =>
                 <<cmds'[d][i].id, cmds'[d][i].bytes>> \in pendingIn'[d]
            BY <1>00, <2>1, <2>3, <2>8, <3>1, <3>4 DEF IdsOf
        <3>7. \A p, q \in pendingIn'[d] : p[1] = q[1] => p = q
            BY <1>00, <2>1, <2>8 DEF IdsOf
        <3>8. ASSUME NEW p \in pendingIn'[d], p[2] \in told'
              PROVE  \E i \in DOMAIN cmds'[d] : cmds'[d][i].op = "respond" /\ cmds'[d][i].id = p[1]
            <4>1. CASE p[2] \in told
                BY <1>00, <2>1, <2>6, <2>8, <4>1 DEF IdsOf
            <4>2. CASE p[2] = m.req
                <5>1. p = <<m.id, m.req>>
                    BY <1>0, <2>1, <3>4, <4>2 DEF DeliveredOnce
                <5> QED BY <2>3, <3>2, <5>1
            <4> QED BY <2>1, <3>8, <4>1, <4>2
        <3> HIDE DEF Messages
        <3> QED BY <2>8, <3>5, <3>6, <3>7, <3>8 DEF IdsOf
    <2> QED BY <2>7, <2>8
<1>9. ASSUME NEW d \in Devices, TakeRequest(d) \/ TakeDial(d) PROVE Kept
    <2>1. /\ cmds[d] # <<>> /\ Taken(d) /\ Head(cmds[d]).op # "respond"
          /\ UNCHANGED <<task, pendingIn, told, inbound, held>>
        BY <1>9 DEF TakeRequest, TakeDial, NextIs, taskState
    <2>2. \A e \in Devices : Messages(e)' = Messages(e)
        BY <2>1 DEF Messages
    <2> SUFFICES ASSUME NEW e \in task PROVE IdsOf(e)'
        BY <2>1
    <2>3. \A i \in DOMAIN cmds'[e] : \E j \in DOMAIN cmds[e] : cmds'[e][i] = cmds[e][j]
        BY <1>0, <1>00, <2>1, TakenFacts
    <2>4. \A j \in DOMAIN cmds[e] : cmds[e][j].op = "respond" =>
             \E i \in DOMAIN cmds'[e] : cmds'[e][i] = cmds[e][j]
        <3>1. CASE e = d
            BY <1>0, <2>1, <3>1, TakenFacts
        <3>2. CASE e # d
            BY <1>0, <1>00, <2>1, <3>2, TakenFacts
        <3> QED BY <3>1, <3>2
    <2> QED BY <1>00, <2>1, <2>2, <2>3, <2>4, IdsKept
<1>10. ASSUME NEW d \in Devices, TakeRespond(d) PROVE Kept
    <2>1. PICK m \in Cmd : m = Head(cmds[d])
        BY <1>0, <1>10, TakenFacts DEF TakeRespond, NextIs
    <2>2. /\ d \in task /\ 1 \in DOMAIN cmds[d] /\ m = cmds[d][1] /\ m.op = "respond"
          /\ m.bytes \in told
          /\ \A p \in pendingIn[d] : p[1] = m.id => p = <<m.id, m.bytes>>
          /\ <<m.id, m.bytes>> \in pendingIn[d]
          /\ pendingIn' = [pendingIn EXCEPT ![d] = @ \ {<<m.id, m.bytes>>}]
        BY <1>10, <2>1, RespondFacts
    <2>3. cmds[d] # <<>> /\ Taken(d) /\ UNCHANGED <<task, told, held, inbound>>
        BY <1>10 DEF TakeRespond, NextIs
    <2>4. \A e \in Devices : Messages(e)' = Messages(e)
        BY <2>3 DEF Messages
    <2>5. /\ pendingIn'[d] = pendingIn[d] \ {<<m.id, m.bytes>>}
          /\ \A e \in Devices : e # d => pendingIn'[e] = pendingIn[e] /\ cmds'[e] = cmds[e]
        BY <1>0, <2>2, <2>3, TakenFacts DEF TypeOK
    <2> SUFFICES ASSUME NEW e \in task PROVE IdsOf(e)'
        BY <2>3
    <2>6. CASE e # d
        BY <1>00, <2>3, <2>4, <2>5, <2>6, IdsKept
    <2>7. CASE e = d
        <3>0. IdsOf(d)
            BY <1>00, <2>2
        <3>1. \A x \in Messages(d) : x.req # m.bytes
            BY <1>0, <2>2 DEF DeliveredOnce, Messages
        <3>2. \A x \in Messages(d)' : <<x.id, x.req>> \in pendingIn'[d]
            BY <2>4, <2>5, <3>0, <3>1 DEF IdsOf
        <3>3. \A i \in DOMAIN cmds'[d] : cmds'[d][i].op = "respond" =>
                 <<cmds'[d][i].id, cmds'[d][i].bytes>> \in pendingIn'[d]
            <4> SUFFICES ASSUME NEW i \in DOMAIN cmds'[d], cmds'[d][i].op = "respond"
                         PROVE  <<cmds'[d][i].id, cmds'[d][i].bytes>> \in pendingIn'[d]
                OBVIOUS
            <4>1. i + 1 \in DOMAIN cmds[d] /\ cmds'[d][i] = cmds[d][i + 1] /\ i + 1 # 1
                BY <1>0, <2>3, TakenFacts
            <4>2. cmds[d][i + 1].bytes # m.bytes
                BY <1>0, <2>2, <4>1 DEF QueuedOnce
            <4>3. <<cmds[d][i + 1].id, cmds[d][i + 1].bytes>> \in pendingIn[d]
                BY <3>0, <4>1 DEF IdsOf
            <4> QED BY <2>5, <4>1, <4>2, <4>3
        <3>4. \A p, q \in pendingIn'[d] : p[1] = q[1] => p = q
            BY <2>5, <3>0 DEF IdsOf
        <3>5. ASSUME NEW p \in pendingIn'[d], p[2] \in told'
              PROVE  \E i \in DOMAIN cmds'[d] : cmds'[d][i].op = "respond" /\ cmds'[d][i].id = p[1]
            <4>1. PICK i \in DOMAIN cmds[d] : cmds[d][i].op = "respond" /\ cmds[d][i].id = p[1]
                BY <2>3, <2>5, <3>0, <3>5 DEF IdsOf
            <4>2. i # 1
                BY <2>2, <2>5, <4>1
            <4>3. i - 1 \in DOMAIN cmds'[d] /\ cmds'[d][i - 1] = cmds[d][i]
                BY <1>0, <2>3, <4>2, TakenFacts
            <4> QED BY <4>1, <4>3
        <3> HIDE DEF Messages
        <3> QED BY <2>7, <3>2, <3>3, <3>4, <3>5 DEF IdsOf
    <2> QED BY <2>6, <2>7
<1>11. ASSUME NEW d \in Devices, TakeShutdown(d) \/ Exit(d) PROVE Kept
    <2>1. /\ task' = task \ {d} /\ UNCHANGED told
          /\ \A e \in Devices : e # d =>
                /\ cmds'[e] = cmds[e] /\ pendingIn'[e] = pendingIn[e]
                /\ held'[e] = held[e] /\ inbound'[e] = inbound[e]
        BY <1>0, <1>11 DEF TakeShutdown, Exit, TypeOK
    <2> SUFFICES ASSUME NEW e \in task, e # d PROVE IdsOf(e)'
        BY <2>1
    <2>2. Messages(e)' = Messages(e)
        BY <1>00, <2>1 DEF Messages
    <2> QED BY <1>00, <2>1, <2>2, IdsKept
<1>12. ASSUME NEW r \in Requests, RequestArrives(r) PROVE Kept
    <2> DEFINE d == To(r)
    <2>1. d \in Devices /\ ~ Arrived(r) /\ UNCHANGED <<task, cmds, told, held>>
        BY <1>12 DEF RequestArrives, Arrived
    <2>2. PICK k \in Nat : k = nextId[d]
        BY <1>0, <2>1 DEF TypeOK
    <2>3. CASE d \in handle
        <3> DEFINE m == [req |-> r, id |-> k]
        <3>1. /\ pendingIn' = [pendingIn EXCEPT ![d] = @ \cup {<<k, r>>}]
              /\ inbound' = [inbound EXCEPT ![d] = Append(inbound[d], m)]
            BY <1>12, <2>2, <2>3 DEF RequestArrives
        <3>2. inbound[d] \in Seq(Inbound) /\ m \in Inbound /\ m.req = r /\ m.id = k
            BY <1>0, <2>1 DEF TypeOK, Inbound
        <3> HIDE DEF m
        <3>3. \A i \in DOMAIN Append(inbound[d], m) :
                \/ Append(inbound[d], m)[i] = m
                \/ i \in DOMAIN inbound[d] /\ Append(inbound[d], m)[i] = inbound[d][i]
            BY <3>2
        <3>4. /\ inbound'[d] = Append(inbound[d], m)
              /\ pendingIn'[d] = pendingIn[d] \cup {<<k, r>>}
              /\ \A e \in Devices : e # d => inbound'[e] = inbound[e] /\ pendingIn'[e] = pendingIn[e]
            BY <1>0, <2>1, <3>1 DEF TypeOK
        <3> SUFFICES ASSUME NEW e \in task PROVE IdsOf(e)'
            BY <2>1
        <3>5. CASE e # d
            <4>1. Messages(e)' = Messages(e)
                BY <1>00, <2>1, <3>4, <3>5 DEF Messages
            <4> QED BY <1>00, <2>1, <3>4, <3>5, <4>1, IdsKept
        <3>6. CASE e = d
            <4>0. IdsOf(d)
                BY <1>00, <3>6
            <4>1. \A x \in Messages(d)' : x = m \/ x \in Messages(d)
                BY <2>1, <3>3, <3>4 DEF Messages
            <4>2. \A x \in Messages(d)' : <<x.id, x.req>> \in pendingIn'[d]
                BY <3>2, <3>4, <4>0, <4>1 DEF IdsOf
            <4>3. \A i \in DOMAIN cmds'[d] : cmds'[d][i].op = "respond" =>
                     <<cmds'[d][i].id, cmds'[d][i].bytes>> \in pendingIn'[d]
                BY <2>1, <3>4, <4>0 DEF IdsOf
            <4>4. \A p \in pendingIn[d] : p[1] # k
                BY <1>0, <2>1, <2>2 DEF TypeOK
            <4>5. \A p, q \in pendingIn'[d] : p[1] = q[1] => p = q
                BY <3>4, <4>0, <4>4 DEF IdsOf
            <4>6. r \notin told
                BY <1>0, <2>1 DEF ArrivalsOnly
            <4>7. \A p \in pendingIn'[d] : p[2] \in told' =>
                     \E i \in DOMAIN cmds'[d] : cmds'[d][i].op = "respond" /\ cmds'[d][i].id = p[1]
                BY <2>1, <3>4, <4>0, <4>6 DEF IdsOf
            <4> HIDE DEF Messages
            <4> QED BY <3>6, <4>2, <4>3, <4>5, <4>7 DEF IdsOf
        <3> QED BY <3>5, <3>6
    <2>4. CASE d \notin handle
        <3>1. UNCHANGED <<pendingIn, inbound>>
            BY <1>12, <2>4 DEF RequestArrives
        <3>2. \A e \in Devices : Messages(e)' = Messages(e)
            BY <2>1, <3>1 DEF Messages
        <3> QED BY <1>5, <2>1, <3>1, <3>2
    <2> QED BY <2>3, <2>4
<1>13. ASSUME UNCHANGED <<task, pendingIn, told, cmds, held, inbound>> PROVE Kept
    <2>1. \A e \in Devices : Messages(e)' = Messages(e)
        BY <1>13 DEF Messages
    <2> QED BY <1>5, <1>13, <2>1
<1>14. ASSUME NEW r \in Requests, ResponseArrives(r) \/ OutboundFailure(r) \/ StreamBreaks(r) PROVE Kept
    <2>1. UNCHANGED <<task, pendingIn, told, cmds, held, inbound>>
        BY <1>14 DEF ResponseArrives, OutboundFailure, StreamBreaks, taskState
    <2> QED BY <1>13, <2>1
<1>15. ASSUME NEW c \in Calls, Cancel(c) PROVE Kept
    BY <1>13, <1>15 DEF Cancel, taskState
<1>16. CASE UNCHANGED vars
    BY <1>13, <1>16 DEF vars
<1> HIDE DEF Kept
<1> QED
    BY <1>3, <1>4, <1>6, <1>7, <1>8, <1>9, <1>10, <1>11, <1>12, <1>14, <1>15, <1>16
    DEF Next, HandleCmd

-----------------------------------------------------------------------------
(* The theorems.                                                           *)

LEMMA InvAtStart == Init => IInv
<1> SUFFICES ASSUME Init PROVE IInv
    OBVIOUS
<1>1. TypeOK
    BY DEF Init, TypeOK
<1>2. \A d \in Devices : cmds[d] = <<>> /\ inbound[d] = <<>> /\ held[d] = {} /\ pendingIn[d] = {}
    BY DEF Init
<1>3. WaitersTracked /\ IdsNameTheirRequest
    BY <1>2, NoneInEmpty DEF Init, WaitersTracked, IdsNameTheirRequest
<1>4. CommandsFit /\ QueuedOnce
    BY <1>2, NoneInEmpty DEF Init, CommandsFit, QueuedOnce
<1>5. ArrivalsOnly /\ DeliveredOnce /\ AnswersFit
    BY <1>2, NoneInEmpty DEF Init, ArrivalsOnly, DeliveredOnce, AnswersFit
<1> QED BY <1>1, <1>3, <1>4, <1>5 DEF IInv, TransportInv

LEMMA InvStep == IInv /\ [Next]_vars => IInv'
<1> SUFFICES ASSUME IInv, [Next]_vars PROVE IInv'
    OBVIOUS
<1>1. TypeOK'
    BY TypeStep DEF IInv, TransportInv
<1> QED
    BY <1>1, WaitersStep, IdsStep, CommandsStep, QueueStep, ArrivalStep, DeliveryStep, AnswerStep
    DEF IInv, TransportInv

\* For any devices and calls: every caller that waits is known to its task, and
\* every id in a queue, handle or command still names the request it was given
\* to (run_swarm and handle_swarm_event, libp2p_transport.rs:258-420).
THEOREM TransportInvHolds == Spec => []TransportInv
<1>1. IInv => TransportInv
    BY DEF IInv
<1> QED BY InvAtStart, InvStep, <1>1, PTL DEF Spec

LEMMA StartRefines == Init => RR!Init
    BY DEF Init, RR!Init, Calls, RR!Nothing, Nothing

\* A step is one of the abstract transport, or nothing happens there.
LEMMA StepRefines ==
    ASSUME IInv, [Next]_vars
    PROVE  [RR!Next]_(RR!vars)
<1>0. /\ TypeOK /\ CommandsFit /\ QueuedOnce /\ ArrivalsOnly /\ DeliveredOnce /\ AnswersFit
      /\ WaitersTracked /\ cmds \in Queues
    BY DEF IInv, TransportInv, TypeOK, Queues
<1> DEFINE status == [r \in Requests |-> call[r]]
           Abstract == [RR!Next]_(RR!vars)
           Same == /\ \A r \in Requests : call'[r] = call[r]
                   /\ UNCHANGED <<told, got>>
<1> USE CallShape
<1>1. ASSUME Same PROVE Abstract
    BY <1>1 DEF RR!vars
<1>2. ASSUME NEW R \in SUBSET Requests, NEW how \in {"failed", "cancelled"},
             \A r \in R : call[r] = "open" /\ call'[r] = how,
             \A r \in Requests : r \notin R => call'[r] = call[r],
             UNCHANGED <<told, got>>
      PROVE  Abstract
    BY <1>2 DEF RR!Next, RR!Close
<1>3. ASSUME NEW c \in Calls, Ask(c) PROVE Abstract
    <2>1. CASE c \in Requests
        BY <1>0, <1>3, <2>1 DEF Ask, RR!Next, RR!Ask, TypeOK
    <2>2. CASE c \in Dials
        BY <1>0, <1>1, <1>3, <2>2 DEF Ask, TypeOK
    <2> QED BY <2>1, <2>2 DEF Calls
<1>4. ASSUME NEW c \in Calls, Cancel(c) PROVE Abstract
    <2>1. CASE c \in Requests
        <3>1. {c} \in SUBSET Requests /\ \A r \in {c} : call[r] = "open" /\ call'[r] = "cancelled"
            BY <1>0, <1>4, <2>1 DEF Cancel, TypeOK
        <3>2. (\A r \in Requests : r \notin {c} => call'[r] = call[r]) /\ UNCHANGED <<told, got>>
            BY <1>0, <1>4, <2>1 DEF Cancel, TypeOK
        <3> QED BY <1>2, <3>1, <3>2
    <2>2. CASE c \in Dials
        BY <1>0, <1>1, <1>4, <2>2 DEF Cancel, TypeOK
    <2> QED BY <2>1, <2>2 DEF Calls
<1>5. ASSUME NEW d \in Devices, SendReply(d) PROVE Abstract
    <2>1. PICK m \in held[d] : told' = told \cup {m.req} /\ UNCHANGED <<call, got>>
        BY <1>5 DEF SendReply
    <2>2. m.req \in Requests /\ m.req \notin told /\ call[m.req] # "new"
        BY <1>0, MessageShape DEF DeliveredOnce, ArrivalsOnly, Arrived
    <2> QED BY <2>1, <2>2 DEF RR!Next, RR!Tell
<1>6. ASSUME NEW d \in Devices, NextRequest(d) \/ ForgetReply(d) \/ DropTransport(d) PROVE Abstract
    <2>1. UNCHANGED <<call, told, got>>
        BY <1>6 DEF NextRequest, ForgetReply, DropTransport
    <2> QED BY <1>1, <2>1
<1>7. ASSUME NEW d \in Devices, TakeRequest(d) \/ TakeRespond(d) PROVE Abstract
    <2>1. UNCHANGED <<call, told, got>>
        BY <1>7 DEF TakeRequest, TakeRespond
    <2> QED BY <1>1, <2>1
<1>8. ASSUME NEW d \in Devices, TakeDial(d) PROVE Abstract
    <2>1. Head(cmds[d]).call \in Dials
        BY <1>0, <1>8, TakenFacts, CmdFields DEF TakeDial, NextIs
    <2>2. \A x \in Requests : call'[x] = call[x]
        BY <1>0, <1>8, <2>1 DEF TakeDial, TypeOK
    <2> QED BY <1>1, <1>8, <2>2 DEF TakeDial
<1>9. ASSUME NEW d \in Devices, TakeShutdown(d) \/ Exit(d) PROVE Abstract
    <2>1. PICK how \in {"failed", "cancelled"} :
            /\ call' = [c \in Calls |-> IF From(c) = d /\ call[c] = "open" THEN how ELSE call[c]]
            /\ UNCHANGED <<told, got>>
        BY <1>9 DEF TakeShutdown, Exit
    <2> DEFINE R == {r \in Requests : From(r) = d /\ call[r] = "open"}
    <2>2. R \in SUBSET Requests /\ \A r \in R : call[r] = "open" /\ call'[r] = how
        BY <2>1
    <2>3. \A r \in Requests : r \notin R => call'[r] = call[r]
        BY <2>1
    <2> QED BY <1>2, <2>1, <2>2, <2>3
<1>10. ASSUME NEW r \in Requests, RequestArrives(r) \/ StreamBreaks(r) PROVE Abstract
    <2>1. UNCHANGED <<call, told, got>>
        BY <1>10 DEF RequestArrives, StreamBreaks
    <2> QED BY <1>1, <2>1
<1>11. ASSUME NEW r \in Requests, ResponseArrives(r) PROVE Abstract
    <2>1. payload[r] = r /\ r \in told /\ stream[r] = "back"
        BY <1>0, <1>11 DEF ResponseArrives, AnswersFit
    <2>2. call[r] = "open" => r \in pendingOut[From(r)]
        <3> SUFFICES ASSUME call[r] = "open" PROVE r \in pendingOut[From(r)]
            OBVIOUS
        <3>1. \A i \in DOMAIN cmds[From(r)] : ~ (cmds[From(r)][i].op = "request" /\ cmds[From(r)][i].call = r)
            BY <1>0, <2>1 DEF QueuedOnce
        <3>2. \A i \in DOMAIN cmds[From(r)] : ~ (cmds[From(r)][i].op = "dial" /\ cmds[From(r)][i].call = r)
            BY <1>0, CmdFields DEF Queues
        <3> QED BY <1>0, <3>1, <3>2 DEF WaitersTracked
    <2>3. CASE call[r] = "open"
        <3>1. call' = [call EXCEPT ![r] = "ok"] /\ got' = [got EXCEPT ![r] = r] /\ told' = told
            BY <1>11, <2>1, <2>2, <2>3 DEF ResponseArrives, Settle
        <3> QED BY <1>0, <2>1, <2>3, <3>1 DEF RR!Next, RR!Answer, TypeOK
    <2>4. CASE call[r] # "open"
        <3>1. call' = call /\ UNCHANGED <<told, got>>
            BY <1>0, <1>11, <2>4 DEF ResponseArrives, Settle, TypeOK
        <3> QED BY <1>1, <3>1
    <2> QED BY <2>3, <2>4
<1>12. ASSUME NEW r \in Requests, OutboundFailure(r) PROVE Abstract
    <2>1. UNCHANGED <<told, got>>
          /\ call' = [call EXCEPT ![r] = IF r \in pendingOut[From(r)] /\ @ = "open" THEN "failed" ELSE @]
        BY <1>12 DEF OutboundFailure, Settle
    <2>2. CASE r \in pendingOut[From(r)] /\ call[r] = "open"
        <3>1. call'[r] = "failed" /\ \A x \in Requests : x # r => call'[x] = call[x]
            BY <1>0, <2>1, <2>2 DEF TypeOK
        <3>2. {r} \in SUBSET Requests /\ \A x \in {r} : call[x] = "open" /\ call'[x] = "failed"
            BY <2>2, <3>1
        <3>3. \A x \in Requests : x \notin {r} => call'[x] = call[x]
            BY <3>1
        <3> QED BY <1>2, <2>1, <3>2, <3>3
    <2>3. CASE ~ (r \in pendingOut[From(r)] /\ call[r] = "open")
        BY <1>0, <1>1, <2>1, <2>3 DEF TypeOK
    <2> QED BY <2>2, <2>3
<1>13. CASE UNCHANGED vars
    BY <1>1, <1>13 DEF vars
<1>14. ASSUME NEW d \in Devices, HandleCmd(d) PROVE Abstract
    BY <1>7, <1>8, <1>9, <1>14 DEF HandleCmd
<1>15. CASE Next
    BY <1>3, <1>4, <1>5, <1>6, <1>9, <1>10, <1>11, <1>12, <1>14, <1>15, Zenon DEF Next
<1> QED BY <1>13, <1>15

\* The libp2p transport does what the trait says of every transport: a request
\* ends at most once, it is answered at most once, and the answer it ends with
\* is its own (transport.rs:41-63).
THEOREM TransportImplementsRequestReply == Spec => ImplementsRequestReply
<1>1. IInv /\ [Next]_vars => [RR!Next]_(RR!vars)
    BY StepRefines
<1> QED BY InvAtStart, InvStep, StartRefines, <1>1, PTL DEF Spec, ImplementsRequestReply, RR!Spec
=============================================================================
