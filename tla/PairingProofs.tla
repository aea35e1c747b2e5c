--------------------------- MODULE PairingProofs ---------------------------
(***************************************************************************)
(* Proofs about pairing: for any devices, commands and interleavings,      *)
(* trust comes from a PIN that a user carried from one device to another,  *)
(* and the entering side never trusts a device that does not trust it.     *)
(* Where one command runs at a time on each device, the files also say     *)
(* what the commands have reported, and pins go with the identity: a       *)
(* command at work holds the file's own list and key (SInv, InStep).       *)
(***************************************************************************)
EXTENDS Pairing, SequenceTheorems, TLAPS

-----------------------------------------------------------------------------
(* The shape of processes and messages.                                    *)

Keyed == (Procs \cup {Wrong, Nobody}) \X Procs \X Procs
Tags == {"show", "enter"} \X Keyed
Replies == {Nobody} \cup [tag : Tags] \cup [id : IdType]

ProcType ==
    [kind : {"none", "show", "enter", "rm", "rotate"}, at : Stages, id : IdType \cup {NoKey},
     pin : Procs \cup {Wrong, Nobody}, target : Procs \cup {Nobody},
     session : Keyed \cup {Nobody}, reply : Replies, partner : IdType \cup {NoKey},
     name : {Name[d] : d \in Devices} \cup {""}, loaded : Seq(RecordType)]

Message ==
    [from : Procs, body : {"spake", "sync"}]
        \cup [from : Procs, body : {"identity"}, tag : Tags, id : IdType]

Files ==
    /\ inbox \in [Procs -> Seq(Message)]
    /\ key \in [Devices -> IdType \cup {NoKey}]
    /\ minted \in [Devices -> Nat]
    /\ \A d \in Devices : key[d] # NoKey => key[d][1] = d /\ key[d][2] <= minted[d]
    /\ peers \in [Devices -> Seq(RecordType)]
    /\ expect \in [Devices -> SUBSET IdType]

Shape == proc \in [Procs -> ProcType] /\ Files

-----------------------------------------------------------------------------
(* What is true of one process, given the others.                          *)

\* The user typed on e the PIN shown by q, in the exchange that q took up.
Exchange(e, q) ==
    /\ e \in Procs /\ q \in Procs
    /\ proc[e].kind = "enter" /\ proc[e].pin = q /\ proc[q].session = <<q, e, q>>

Trusted(d, id) ==
    \E e, q \in Procs :
        /\ Exchange(e, q)
        /\ \/ Home(e) = d /\ proc[q].id = id
           \/ Home(q) = d /\ proc[e].id = id

Fresh(s) ==
    /\ s.pin = Nobody /\ s.session = Nobody /\ s.partner = NoKey
    /\ s.target = Nobody /\ s.reply = Nobody

\* Of process p in state s, when its device has generated n keys.
StageOf(p, s, n) ==
    /\ s.at = "off" => s.kind = "none"
    /\ s.at \in {"off", "identity", "write_key", "ready"} => Fresh(s)
    /\ s.at = "identity" => s.kind \in {"show", "enter"}
    /\ s.at = "write_key" =>
          /\ s.id # NoKey /\ s.id[1] = Home(p) /\ s.id[2] <= n
          /\ s.kind \in {"show", "enter", "rotate"}
    /\ s.at \in {"ready", "await_spake", "await_identity", "await_ack", "await_identity_ack"}
          => s.id # NoKey /\ s.partner = NoKey
    /\ s.at \in {"await_spake", "await_identity"} => s.kind = "show" /\ s.pin = p
    /\ s.at \in {"await_spake", "await_ack"} => s.session = Nobody
    /\ s.at = "await_identity" => s.session # Nobody
    /\ s.at \in {"await_ack", "await_identity_ack"} => s.kind = "enter"
    /\ s.at \in {"load_peers", "save_peers"} =>
          /\ s.kind \in {"show", "enter", "rm", "rotate"}
          /\ s.kind \in {"show", "enter"} => s.partner # NoKey /\ s.id # NoKey

StageInv(p) == StageOf(p, proc[p], minted[Home(p)])

ShowInv(q) == proc[q].kind = "show" =>
    /\ proc[q].pin \in {Nobody, q}
    /\ proc[q].session # Nobody => \E e \in Procs : proc[q].session = <<q, e, q>>
    /\ proc[q].partner # NoKey => \E e \in Procs : Exchange(e, q) /\ proc[e].id = proc[q].partner

EnterInv(e) ==
    LET q == proc[e].target IN
    /\ proc[e].at = "await_ack" /\ proc[e].reply # Nobody =>
          /\ proc[e].reply = [tag |-> <<"show", <<q, e, q>>>>]
          /\ q \in Procs /\ proc[q].session = <<q, e, q>>
    /\ proc[e].at = "await_identity_ack" => Exchange(e, q)
    /\ proc[e].at = "await_identity_ack" /\ proc[e].reply # Nobody =>
          proc[e].reply = [id |-> proc[q].id] /\ proc[q].partner = proc[e].id
    /\ proc[e].kind = "enter" /\ proc[e].partner # NoKey =>
          Exchange(e, q) /\ proc[e].partner = proc[q].id /\ proc[q].partner = proc[e].id

ProcInv(p) ==
    /\ StageInv(p) /\ ShowInv(p) /\ EnterInv(p)
    /\ proc[p].pin \in Procs \/ proc[p].session # Nobody => proc[p].id # NoKey
    /\ \A id \in Ids(proc[p].loaded) : Trusted(Home(p), id)

\* An identity that is on its way is that of a process which has a PIN, with
\* the tag of the session it has with the process it is sent to.
MessageInv(q, m) == m.body = "identity" =>
    /\ proc[m.from].kind = "enter" /\ proc[m.from].pin # Nobody
    /\ m.tag = <<"enter", <<proc[m.from].pin, m.from, q>>>>
    /\ m.id = proc[m.from].id

PeersInv == \A d \in Devices : \A id \in Ids(peers[d]) : Trusted(d, id)

Under(q) == {inbox[q][i] : i \in 1..Len(inbox[q])}

IInv ==
    /\ Shape /\ PeersInv
    /\ \A p \in Procs : ProcInv(p)
    /\ \A q \in Procs : \A m \in Under(q) : MessageInv(q, m)

-----------------------------------------------------------------------------
(* What every step keeps.                                                  *)

\* What a process has got it keeps.
Later(s, r) ==
    /\ r.kind = s.kind \/ s.kind = "none"
    /\ r.pin = s.pin \/ s.pin = Nobody
    /\ r.session = s.session \/ s.session = Nobody
    /\ r.partner = s.partner \/ s.partner = NoKey
    /\ r.id = s.id \/ s.at \in {"off", "identity"}

Grows == \A x \in Procs : Later(proc[x], proc'[x])

LEMMA ProcShape ==
    /\ Nobody \notin Procs /\ Wrong \notin Procs /\ Nobody # Wrong /\ NoKey \notin IdType
    /\ \A p \in Procs : Home(p) \in Devices /\ p = <<p[1], p[2]>>
    /\ \A i \in IdType : i[1] \in Devices /\ i[2] \in Nat
    /\ \A e, q \in Procs : <<q, e, q>> # Nobody
<1>1. \A p \in Procs : \E d \in Devices : p \in {d} \X (1..Runs[d])
    BY DEF Procs
<1>2. \A p \in Procs : p[1] \in Devices /\ p = <<p[1], p[2]>>
    BY <1>1
<1>3. Nobody \notin Procs /\ Wrong \notin Procs
    BY <1>2 DEF Nobody, Wrong
<1>4. \A i \in IdType : i[1] \in Devices /\ i[2] \in Nat /\ i = <<i[1], i[2]>>
    BY DEF IdType
<1>5. NoKey \notin IdType
    BY <1>4 DEF NoKey
<1>6. Nobody # Wrong
    BY DEF Nobody, Wrong
<1>7. \A e, q \in Procs : <<q, e, q>> # Nobody
    BY DEF Nobody
<1>8. \A p \in Procs : Home(p) \in Devices
    BY <1>2 DEF Home
<1> QED BY <1>2, <1>3, <1>4, <1>5, <1>6, <1>7, <1>8

\* An exchange that took place stays what it was.
LEMMA ExchangeKept ==
    ASSUME IInv, Grows, NEW e \in Procs, NEW q \in Procs, Exchange(e, q)
    PROVE  Exchange(e, q)' /\ proc'[e].id = proc[e].id /\ proc'[q].id = proc[q].id
<1>1. proc[e].kind = "enter" /\ proc[e].pin = q /\ proc[q].session = <<q, e, q>>
    BY DEF Exchange
<1>2. proc[e].pin # Nobody /\ proc[q].session # Nobody
    BY <1>1, ProcShape
<1>3. StageInv(e) /\ StageInv(q)
    BY DEF IInv, ProcInv
<1>4. proc[e].at \notin {"off", "identity"} /\ proc[q].at \notin {"off", "identity"}
    BY <1>2, <1>3 DEF StageInv, StageOf, Fresh
<1> QED BY <1>1, <1>2, <1>4 DEF Grows, Later, Exchange

LEMMA TrustKept ==
    ASSUME IInv, Grows, NEW d, NEW id, Trusted(d, id)
    PROVE  Trusted(d, id)'
    BY ExchangeKept DEF Trusted

\* A process that does not move still has what it relies on.
LEMMA OthersKept ==
    ASSUME IInv, Grows, NEW x \in Procs, proc'[x] = proc[x],
           \A d \in Devices : minted[d] \in Nat /\ minted'[d] \in Nat /\ minted[d] <= minted'[d]
    PROVE  ProcInv(x)'
<1>1. ProcInv(x) /\ proc[x] \in ProcType
    BY DEF IInv, Shape, Files
<1>2. StageInv(x)'
    <2>1. proc[x].at = "write_key" => proc[x].id[2] <= minted'[Home(x)]
        <3> HAVE proc[x].at = "write_key"
        <3>1. proc[x].id \in IdType /\ proc[x].id[2] <= minted[Home(x)]
            BY <1>1 DEF ProcInv, StageInv, StageOf, ProcType
        <3> QED BY <3>1, ProcShape
    <2> QED BY <1>1, <2>1 DEF ProcInv, StageInv, StageOf, Fresh
<1>3. ShowInv(x)'
    <2>1. \A e \in Procs : Exchange(e, x) => Exchange(e, x)' /\ proc'[e].id = proc[e].id
        BY ExchangeKept
    <2> QED BY <1>1, <2>1 DEF ProcInv, ShowInv
<1>4. EnterInv(x)'
    <2>1. PICK q : q = proc[x].target
        OBVIOUS
    <2>2. proc'[x].target = q
        BY <2>1
    <2>3. ASSUME proc[x].at = "await_ack", proc[x].reply # Nobody
          PROVE  proc[x].reply = [tag |-> <<"show", <<q, x, q>>>>] /\ q \in Procs
                     /\ proc'[q].session = <<q, x, q>>
        <3>1. proc[x].reply = [tag |-> <<"show", <<q, x, q>>>>] /\ q \in Procs
                  /\ proc[q].session = <<q, x, q>>
            BY <1>1, <2>1, <2>3 DEF ProcInv, EnterInv
        <3> QED BY <3>1, ProcShape DEF Grows, Later
    <2>4. ASSUME Exchange(x, q) PROVE Exchange(x, q)' /\ proc'[q].id = proc[q].id /\ q \in Procs
        BY <2>4, ExchangeKept DEF Exchange
    <2>5. ASSUME proc[x].at = "await_identity_ack" PROVE Exchange(x, q)
        BY <1>1, <2>1, <2>5 DEF ProcInv, EnterInv
    <2>6. ASSUME proc[x].at = "await_identity_ack", proc[x].reply # Nobody
          PROVE  proc[x].reply = [id |-> proc'[q].id] /\ proc'[q].partner = proc[x].id
        <3>1. proc[x].reply = [id |-> proc[q].id] /\ proc[q].partner = proc[x].id
            BY <1>1, <2>1, <2>6 DEF ProcInv, EnterInv
        <3>2. proc[x].id # NoKey
            BY <1>1, <2>6 DEF ProcInv, StageInv, StageOf
        <3> QED BY <2>4, <2>5, <2>6, <3>1, <3>2 DEF Grows, Later
    <2>7. ASSUME proc[x].kind = "enter", proc[x].partner # NoKey
          PROVE  Exchange(x, q)' /\ proc[x].partner = proc'[q].id /\ proc'[q].partner = proc[x].id
        <3>1. Exchange(x, q) /\ proc[x].partner = proc[q].id /\ proc[q].partner = proc[x].id
            BY <1>1, <2>1, <2>7 DEF ProcInv, EnterInv
        <3>2. proc[x].id # NoKey
            BY <1>1, <3>1 DEF ProcInv, Exchange
        <3> QED BY <2>4, <3>1, <3>2 DEF Grows, Later
    <2> QED BY <2>2, <2>3, <2>4, <2>5, <2>6, <2>7 DEF EnterInv
<1>5. \A id \in Ids(proc[x].loaded) : Trusted(Home(x), id)'
    BY <1>1, TrustKept DEF ProcInv
<1>6. proc'[x].pin \in Procs \/ proc'[x].session # Nobody => proc'[x].id # NoKey
    BY <1>1 DEF ProcInv
<1> QED BY <1>2, <1>3, <1>4, <1>5, <1>6 DEF ProcInv, Ids

\* Messages under way keep what they carry.
LEMMA MessageKept ==
    ASSUME IInv, Grows, NEW q \in Procs, NEW m \in Message, MessageInv(q, m)
    PROVE  MessageInv(q, m)'
<1> SUFFICES ASSUME m.body = "identity"
             PROVE  /\ proc'[m.from].kind = "enter" /\ proc'[m.from].pin = proc[m.from].pin
                    /\ proc'[m.from].id = proc[m.from].id
    BY DEF MessageInv
<1>1. m.from \in Procs
    BY DEF Message
<1>2. proc[m.from].kind = "enter" /\ proc[m.from].pin # Nobody
    BY DEF MessageInv
<1>3. proc[m.from].at \notin {"off", "identity"}
    BY <1>1, <1>2 DEF IInv, ProcInv, StageInv, StageOf, Fresh
<1> QED BY <1>1, <1>2, <1>3 DEF Grows, Later

\* What is left to show of a step.
LEMMA StepKeeps ==
    ASSUME IInv, Shape', Grows,
           \A d \in Devices : minted[d] <= minted'[d],
           \A x \in Procs : proc'[x] # proc[x] => ProcInv(x)',
           \A q \in Procs : \A m \in Under(q)' : m \in Under(q) \/ MessageInv(q, m)',
           \A d \in Devices : \A id \in Ids(peers'[d]) :
               id \in Ids(peers[d]) \/ Trusted(d, id)'
    PROVE  IInv'
<1>1. ASSUME NEW x \in Procs PROVE ProcInv(x)'
    <2>1. CASE proc'[x] = proc[x]
        BY <2>1, OthersKept DEF IInv, Shape, Files
    <2> QED BY <2>1
<1>2. ASSUME NEW q \in Procs, NEW m \in Under(q)' PROVE MessageInv(q, m)'
    <2>1. CASE m \in Under(q)
        <3>1. m \in Message
            <4>1. inbox[q] \in Seq(Message)
                BY DEF IInv, Shape, Files
            <4> QED BY <2>1, <4>1 DEF Under
        <3>2. MessageInv(q, m)
            BY <2>1 DEF IInv
        <3> QED BY <3>1, <3>2, MessageKept
    <2> QED BY <2>1
<1>3. PeersInv'
    <2> SUFFICES ASSUME NEW d \in Devices, NEW id \in Ids(peers'[d]) PROVE Trusted(d, id)'
        BY DEF PeersInv, Ids
    <2>1. CASE id \in Ids(peers[d])
        BY <2>1, TrustKept DEF IInv, PeersInv
    <2> QED BY <2>1
<1> QED BY <1>1, <1>2, <1>3 DEF IInv

-----------------------------------------------------------------------------
(* Steps of one process.                                                   *)

\* p becomes r, which has what p had.
Moves(p, r) ==
    /\ r \in ProcType /\ Later(proc[p], r)
    /\ proc' = [proc EXCEPT ![p] = r]

\* The files keep their shape, and only messages that tell the truth arrive.
FilesGrow ==
    /\ Files'
    /\ \A d \in Devices : minted[d] <= minted'[d]
    /\ \A q \in Procs : \A m \in Under(q)' : m \in Under(q) \/ MessageInv(q, m)'

LEMMA FilesStay ==
    ASSUME IInv, UNCHANGED <<key, minted, peers, inbox, expect>>
    PROVE  FilesGrow /\ minted' = minted /\ peers' = peers
<1>1. Files' /\ \A q \in Procs : Under(q)' = Under(q)
    BY DEF IInv, Shape, Files, Under
<1>2. \A d \in Devices : minted[d] <= minted'[d]
    BY DEF IInv, Shape, Files
<1> QED BY <1>1, <1>2 DEF FilesGrow

LEMMA MovesGrows ==
    ASSUME IInv, NEW p \in Procs, NEW r, Moves(p, r)
    PROVE  /\ Grows /\ proc' \in [Procs -> ProcType] /\ proc'[p] = r
           /\ \A x \in Procs : x # p => proc'[x] = proc[x]
<1>1. proc \in [Procs -> ProcType]
    BY DEF IInv, Shape
<1>2. proc' \in [Procs -> ProcType] /\ proc'[p] = r
          /\ \A x \in Procs : x # p => proc'[x] = proc[x]
    BY <1>1 DEF Moves
<1>3. \A x \in Procs : Later(proc[x], proc'[x])
    BY <1>2 DEF Moves, Later
<1> QED BY <1>2, <1>3 DEF Grows

\* Before it has heard from the other side, a process relies on nothing.
LEMMA FreshMove ==
    ASSUME IInv, NEW p \in Procs, NEW r, Moves(p, r), FilesGrow,
           peers' = peers,
           r.session = Nobody, r.partner = NoKey, r.reply = Nobody, r.loaded = proc[p].loaded,
           r.at # "await_identity_ack",
           r.pin \in Procs => r.id # NoKey,
           r.kind = "show" => r.pin \in {Nobody, p},
           StageOf(p, r, minted'[Home(p)])
    PROVE  IInv'
<1>1. Grows /\ proc' \in [Procs -> ProcType] /\ proc'[p] = r
          /\ \A x \in Procs : x # p => proc'[x] = proc[x]
    BY MovesGrows
<1>2. StageInv(p)' /\ ShowInv(p)' /\ EnterInv(p)'
    BY <1>1 DEF StageInv, ShowInv, EnterInv
<1>3. \A id \in Ids(proc'[p].loaded) : Trusted(Home(p), id)'
    <2>1. \A id \in Ids(proc[p].loaded) : Trusted(Home(p), id)
        BY DEF IInv, ProcInv
    <2> QED BY <1>1, <2>1, TrustKept
<1>4. ProcInv(p)'
    BY <1>1, <1>2, <1>3 DEF ProcInv, Ids
<1> QED BY <1>1, <1>4, StepKeeps DEF Shape, FilesGrow

\* A process that only goes on, or ends, with what it has.
LEMMA LaterMove ==
    ASSUME IInv, NEW p \in Procs, NEW r, Moves(p, r), FilesGrow,
           \A d \in Devices : \A id \in Ids(peers'[d]) : id \in Ids(peers[d]) \/ Trusted(d, id),
           r.kind = proc[p].kind, r.id = proc[p].id, r.pin = proc[p].pin,
           r.target = proc[p].target, r.session = proc[p].session, r.partner = proc[p].partner,
           r.at \notin {"await_ack", "await_identity_ack"},
           \A id \in Ids(r.loaded) : Trusted(Home(p), id),
           StageOf(p, r, minted'[Home(p)])
    PROVE  IInv'
<1>1. Grows /\ proc' \in [Procs -> ProcType] /\ proc'[p] = r
          /\ \A x \in Procs : x # p => proc'[x] = proc[x]
    BY MovesGrows
<1>2. ProcInv(p)
    BY DEF IInv
<1>3. ShowInv(p)'
    <2>1. \A e \in Procs : Exchange(e, p) => Exchange(e, p)' /\ proc'[e].id = proc[e].id
        BY <1>1, ExchangeKept
    <2> QED BY <1>1, <1>2, <2>1 DEF ProcInv, ShowInv
<1>4. EnterInv(p)'
    <2>1. PICK q : q = proc[p].target
        OBVIOUS
    <2>2. ASSUME proc[p].kind = "enter", proc[p].partner # NoKey
          PROVE  Exchange(p, q)' /\ proc[p].partner = proc'[q].id /\ proc'[q].partner = proc[p].id
        <3>1. Exchange(p, q) /\ proc[p].partner = proc[q].id /\ proc[q].partner = proc[p].id
            BY <1>2, <2>1, <2>2 DEF ProcInv, EnterInv
        <3>2. q \in Procs /\ proc[p].id # NoKey
            BY <1>2, <3>1 DEF ProcInv, Exchange
        <3>3. Exchange(p, q)' /\ proc'[q].id = proc[q].id
            BY <1>1, <3>1, <3>2, ExchangeKept
        <3> QED BY <1>1, <3>1, <3>2, <3>3 DEF Grows, Later
    <2> QED BY <1>1, <2>1, <2>2 DEF EnterInv
<1>5. \A id \in Ids(proc'[p].loaded) : Trusted(Home(p), id)'
    BY <1>1, TrustKept
<1>6. ProcInv(p)'
    BY <1>1, <1>2, <1>3, <1>4, <1>5 DEF ProcInv, Ids, StageInv
<1>7. \A d \in Devices : \A id \in Ids(peers'[d]) : id \in Ids(peers[d]) \/ Trusted(d, id)'
    BY <1>1, TrustKept
<1> QED BY <1>1, <1>6, <1>7, StepKeeps DEF Shape, FilesGrow

-----------------------------------------------------------------------------
(* The steps.                                                              *)

LEMMA StartPairKeeps ==
    ASSUME IInv, NEW p \in Procs, StartPair(p)
    PROVE  IInv'
<1>1. PICK kind \in {"show", "enter"} :
          proc' = [proc EXCEPT ![p].kind = kind, ![p].at = "identity"]
    BY DEF StartPair
<1>2. PICK r : r = [proc[p] EXCEPT !.kind = kind, !.at = "identity"]
    OBVIOUS
<1>3. proc[p] \in ProcType /\ proc[p].at = "off" /\ StageInv(p)
    BY DEF StartPair, MayStart, IInv, ProcInv, Shape
<1>4. Fresh(proc[p]) /\ proc[p].kind = "none"
    BY <1>3 DEF StageInv, StageOf
<1>5. r \in ProcType /\ r.kind = kind /\ r.at = "identity" /\ Fresh(r)
          /\ r.loaded = proc[p].loaded /\ r.id = proc[p].id
    BY <1>2, <1>3, <1>4 DEF ProcType, Stages, Ended, Fresh
<1>6. Moves(p, r)
    BY <1>1, <1>2, <1>3, <1>4, <1>5 DEF Moves, Later, Fresh, IInv, Shape
<1>7. FilesGrow /\ minted' = minted /\ peers' = peers
    BY FilesStay DEF StartPair
<1>8. StageOf(p, r, minted'[Home(p)])
    BY <1>5 DEF StageOf
<1>9. r.pin \notin Procs
    BY <1>5, ProcShape DEF Fresh
<1> QED BY <1>4, <1>5, <1>6, <1>7, <1>8, <1>9, FreshMove DEF Fresh

LEMMA StartRemoveKeeps ==
    ASSUME IInv, NEW p \in Procs, StartRemove(p)
    PROVE  IInv'
<1>1. PICK i \in DOMAIN peers[Home(p)] :
          proc' = [proc EXCEPT ![p].kind = "rm", ![p].at = "load_peers",
                               ![p].name = peers[Home(p)][i].name]
    BY DEF StartRemove
<1>2. PICK name : name = peers[Home(p)][i].name
    OBVIOUS
<1>3. name \in {Name[d] : d \in Devices}
    <2>1. peers[Home(p)] \in Seq(RecordType)
        BY ProcShape DEF IInv, Shape, Files
    <2>2. peers[Home(p)][i] \in RecordType
        BY <2>1
    <2> QED BY <1>2, <2>2 DEF RecordType
<1>4. PICK r : r = [proc[p] EXCEPT !.kind = "rm", !.at = "load_peers", !.name = name]
    OBVIOUS
<1>5. proc[p] \in ProcType /\ proc[p].at = "off" /\ StageInv(p)
    BY DEF StartRemove, MayStart, IInv, ProcInv, Shape
<1>6. Fresh(proc[p]) /\ proc[p].kind = "none"
    BY <1>5 DEF StageInv, StageOf
<1>7. r \in ProcType /\ r.kind = "rm" /\ r.at = "load_peers" /\ Fresh(r)
          /\ r.loaded = proc[p].loaded /\ r.id = proc[p].id
    BY <1>3, <1>4, <1>5, <1>6 DEF ProcType, Stages, Fresh
<1>8. Moves(p, r)
    BY <1>1, <1>2, <1>4, <1>5, <1>6, <1>7 DEF Moves, Later, Fresh, IInv, Shape
<1>9. FilesGrow /\ minted' = minted /\ peers' = peers
    BY FilesStay DEF StartRemove
<1>10. StageOf(p, r, minted'[Home(p)])
    BY <1>7 DEF StageOf
<1>11. r.pin \notin Procs
    BY <1>7, ProcShape DEF Fresh
<1> QED BY <1>6, <1>7, <1>8, <1>9, <1>10, <1>11, FreshMove DEF Fresh

\* A new key has a number above that of any other key of its device.
LEMMA Minting ==
    ASSUME IInv, NEW d \in Devices, minted' = [minted EXCEPT ![d] = @ + 1],
           UNCHANGED <<key, peers, inbox, expect>>
    PROVE  /\ FilesGrow /\ peers' = peers
           /\ minted[d] + 1 = minted'[d] /\ <<d, minted[d] + 1>> \in IdType
<1>1. Files
    BY DEF IInv, Shape
<1>2. minted' \in [Devices -> Nat] /\ minted[d] + 1 = minted'[d]
          /\ \A e \in Devices : minted[e] \in Nat /\ minted'[e] \in Nat /\ minted[e] <= minted'[e]
    BY <1>1 DEF Files
<1>3. ASSUME NEW e \in Devices, key[e] # NoKey PROVE key[e][1] = e /\ key[e][2] <= minted'[e]
    <2>1. key[e] \in IdType /\ key[e][1] = e /\ key[e][2] <= minted[e]
        BY <1>1, <1>3 DEF Files
    <2>2. key[e][2] \in Nat
        BY <2>1, ProcShape
    <2> QED BY <1>2, <2>1, <2>2
<1>4. Files' /\ \A q \in Procs : Under(q)' = Under(q)
    BY <1>1, <1>2, <1>3 DEF Files, Under
<1>5. <<d, minted[d] + 1>> \in IdType
    BY <1>1 DEF IdType, Files
<1> QED BY <1>2, <1>4, <1>5 DEF FilesGrow

LEMMA StartRotateKeeps ==
    ASSUME IInv, NEW p \in Procs, StartRotate(p)
    PROVE  IInv'
<1>1. PICK d \in Devices : d = Home(p)
    BY ProcShape
<1>2. PICK id : id = <<d, minted[d] + 1>>
    OBVIOUS
<1>3. PICK r : r = [proc[p] EXCEPT !.kind = "rotate", !.at = "write_key", !.id = id]
    OBVIOUS
<1>4. proc[p] \in ProcType /\ proc[p].at = "off" /\ StageInv(p)
    BY DEF StartRotate, MayStart, IInv, ProcInv, Shape
<1>5. Fresh(proc[p]) /\ proc[p].kind = "none"
    BY <1>4 DEF StageInv, StageOf
<1>6. /\ FilesGrow /\ peers' = peers
      /\ minted[d] + 1 = minted'[d] /\ id \in IdType
    BY <1>1, <1>2, Minting DEF StartRotate
<1>7. r \in ProcType /\ r.kind = "rotate" /\ r.at = "write_key" /\ Fresh(r)
          /\ r.loaded = proc[p].loaded /\ r.id = id
    BY <1>3, <1>4, <1>5, <1>6 DEF ProcType, Stages, Fresh
<1>8. Moves(p, r)
    BY <1>1, <1>2, <1>3, <1>4, <1>5, <1>7 DEF Moves, Later, Fresh, IInv, Shape, StartRotate
<1>9. StageOf(p, r, minted'[Home(p)])
    <2>1. id # NoKey /\ id[1] = Home(p) /\ id[2] <= minted'[Home(p)]
        <3>1. minted'[d] \in Nat
            BY <1>6 DEF FilesGrow, Files
        <3> QED BY <1>1, <1>2, <1>6, <3>1, ProcShape
    <2> QED BY <1>7, <2>1 DEF StageOf
<1>10. r.pin \notin Procs
    BY <1>7, ProcShape DEF Fresh
<1> QED BY <1>5, <1>6, <1>7, <1>8, <1>9, <1>10, FreshMove DEF Fresh

LEMMA LoadIdentityKeeps ==
    ASSUME IInv, NEW p \in Procs, LoadIdentity(p)
    PROVE  IInv'
<1>1. PICK d \in Devices : d = Home(p)
    BY ProcShape
<1>2. proc[p] \in ProcType /\ proc[p].at = "identity" /\ StageInv(p)
    BY DEF LoadIdentity, IInv, ProcInv, Shape
<1>3. Fresh(proc[p]) /\ proc[p].kind \in {"show", "enter"}
    BY <1>2 DEF StageInv, StageOf
<1>4. PICK id, at :
          /\ proc' = [proc EXCEPT ![p].id = id, ![p].at = at]
          /\ id \in IdType
          /\ \/ at = "ready"
             \/ at = "write_key" /\ id[1] = d /\ id[2] <= minted'[d]
          /\ FilesGrow /\ peers' = peers
    <2>1. CASE key[d] # NoKey
        <3>1. key[d] \in IdType
            BY <2>1 DEF IInv, Shape, Files
        <3>2. FilesGrow /\ peers' = peers
            BY <1>1, <2>1, FilesStay DEF LoadIdentity
        <3> QED BY <1>1, <2>1, <3>1, <3>2 DEF LoadIdentity
    <2>2. CASE key[d] = NoKey
        <3>1. /\ FilesGrow /\ peers' = peers
              /\ minted[d] + 1 = minted'[d] /\ <<d, minted[d] + 1>> \in IdType
            BY <1>1, <2>2, Minting DEF LoadIdentity
        <3>2. minted'[d] \in Nat
            BY <3>1 DEF FilesGrow, Files
        <3>3. PICK id : id = <<d, minted[d] + 1>>
            OBVIOUS
        <3>4. id \in IdType /\ id[1] = d /\ id[2] <= minted'[d]
            BY <3>1, <3>2, <3>3
        <3>5. proc' = [proc EXCEPT ![p].id = id, ![p].at = "write_key"]
            BY <1>1, <2>2, <3>3 DEF LoadIdentity
        <3> QED BY <3>1, <3>4, <3>5
    <2> QED BY <2>1, <2>2
<1>5. PICK r : r = [proc[p] EXCEPT !.id = id, !.at = at]
    OBVIOUS
<1>6. r \in ProcType /\ r.kind = proc[p].kind /\ r.at = at /\ Fresh(r)
          /\ r.loaded = proc[p].loaded /\ r.id = id
    BY <1>2, <1>3, <1>4, <1>5 DEF ProcType, Stages, Fresh
<1>7. Moves(p, r)
    BY <1>2, <1>3, <1>4, <1>5, <1>6 DEF Moves, Later, Fresh, IInv, Shape
<1>8. StageOf(p, r, minted'[Home(p)])
    BY <1>1, <1>3, <1>4, <1>6, ProcShape DEF StageOf, Fresh
<1>9. r.pin \notin Procs
    BY <1>6, ProcShape DEF Fresh
<1>10. r.at # "await_identity_ack"
    BY <1>4, <1>6
<1> QED BY <1>3, <1>4, <1>6, <1>7, <1>8, <1>9, <1>10, FreshMove DEF Fresh

LEMMA WriteKeyKeeps ==
    ASSUME IInv, NEW p \in Procs, WriteKey(p)
    PROVE  IInv'
<1>1. PICK d \in Devices : d = Home(p)
    BY ProcShape
<1>2. proc[p] \in ProcType /\ proc[p].at = "write_key" /\ StageInv(p)
    BY DEF WriteKey, IInv, ProcInv, Shape
<1>3. Fresh(proc[p]) /\ proc[p].kind \in {"show", "enter", "rotate"} /\ proc[p].id # NoKey
          /\ proc[p].id[1] = d /\ proc[p].id[2] <= minted[d]
    BY <1>1, <1>2 DEF StageInv, StageOf
<1>4. PICK at \in {"load_peers", "ready"} :
          /\ at = "load_peers" <=> proc[p].kind = "rotate"
          /\ proc' = [proc EXCEPT ![p].at = at]
    BY DEF WriteKey, Become
<1>5. PICK r : r = [proc[p] EXCEPT !.at = at]
    OBVIOUS
<1>6. r \in ProcType /\ r.kind = proc[p].kind /\ r.at = at /\ Fresh(r)
          /\ r.loaded = proc[p].loaded /\ r.id = proc[p].id
    BY <1>2, <1>3, <1>4, <1>5 DEF ProcType, Stages, Fresh
<1>7. Moves(p, r)
    BY <1>2, <1>3, <1>4, <1>5, <1>6 DEF Moves, Later, Fresh, IInv, Shape
<1>8. FilesGrow /\ peers' = peers
    <2>1. Files
        BY DEF IInv, Shape
    <2>2. key' = [key EXCEPT ![d] = proc[p].id] /\ UNCHANGED <<minted, peers, inbox, expect>>
        BY <1>1 DEF WriteKey
    <2>3. proc[p].id \in IdType
        BY <1>2, <1>3 DEF ProcType
    <2>4. Files' /\ \A q \in Procs : Under(q)' = Under(q)
        BY <1>3, <2>1, <2>2, <2>3 DEF Files, Under
    <2>5. \A e \in Devices : minted[e] <= minted'[e]
        BY <2>1, <2>2 DEF Files
    <2> QED BY <2>2, <2>4, <2>5 DEF FilesGrow
<1>9. StageOf(p, r, minted'[Home(p)])
    BY <1>3, <1>4, <1>6 DEF StageOf, Fresh
<1>10. r.pin \notin Procs
    BY <1>6, ProcShape DEF Fresh
<1>11. r.at # "await_identity_ack"
    BY <1>4, <1>6
<1> QED BY <1>3, <1>6, <1>7, <1>8, <1>9, <1>10, <1>11, FreshMove DEF Fresh

LEMMA ShowPinKeeps ==
    ASSUME IInv, NEW p \in Procs, ShowPin(p)
    PROVE  IInv'
<1>1. proc[p] \in ProcType /\ proc[p].at = "ready" /\ proc[p].kind = "show" /\ StageInv(p)
    BY DEF ShowPin, IInv, ProcInv, Shape
<1>2. Fresh(proc[p]) /\ proc[p].id # NoKey
    BY <1>1 DEF StageInv, StageOf
<1>3. PICK r : r = [proc[p] EXCEPT !.pin = p, !.at = "await_spake"]
    OBVIOUS
<1>4. /\ r \in ProcType /\ r.kind = "show" /\ r.at = "await_spake" /\ r.pin = p
      /\ r.session = Nobody /\ r.partner = NoKey /\ r.reply = Nobody
      /\ r.loaded = proc[p].loaded /\ r.id = proc[p].id
    BY <1>1, <1>2, <1>3 DEF ProcType, Stages, Fresh
<1>5. Moves(p, r)
    BY <1>1, <1>2, <1>3, <1>4 DEF Moves, Later, Fresh, IInv, Shape, ShowPin
<1>6. FilesGrow /\ minted' = minted /\ peers' = peers
    BY FilesStay DEF ShowPin
<1>7. StageOf(p, r, minted'[Home(p)])
    BY <1>2, <1>4 DEF StageOf
<1> QED BY <1>2, <1>4, <1>5, <1>6, <1>7, FreshMove

LEMMA Sending ==
    ASSUME IInv, NEW q \in Procs, NEW m \in Message, Request(q, m), MessageInv(q, m)',
           UNCHANGED <<key, minted, peers, expect>>
    PROVE  FilesGrow
<1>1. Files
    BY DEF IInv, Shape
<1>2. PICK box : box = inbox[q]
    OBVIOUS
<1>3. box \in Seq(Message)
    BY <1>1, <1>2 DEF Files
<1>4. Append(box, m) \in Seq(Message)
    BY <1>3
<1>5. inbox' = [inbox EXCEPT ![q] = Append(box, m)]
    BY <1>2 DEF Request
<1>6. Files'
    BY <1>1, <1>4, <1>5 DEF Files
<1>7. ASSUME NEW x \in Procs, NEW n \in Under(x)' PROVE n \in Under(x) \/ MessageInv(x, n)'
    <2>1. CASE x # q
        <3>1. inbox'[x] = inbox[x]
            BY <1>1, <1>5, <2>1 DEF Files
        <3> QED BY <3>1 DEF Under
    <2>2. CASE x = q
        <3>1. inbox'[q] = Append(box, m)
            BY <1>1, <1>5 DEF Files
        <3>2. PICK i \in 1..Len(Append(box, m)) : n = Append(box, m)[i]
            BY <2>2, <3>1 DEF Under
        <3>3. (i \in 1..Len(box) /\ n = box[i]) \/ n = m
            BY <1>3, <3>2
        <3> QED BY <1>2, <2>2, <3>3 DEF Under
    <2> QED BY <2>1, <2>2
<1>8. \A d \in Devices : minted[d] <= minted'[d]
    BY <1>1 DEF Files
<1> QED BY <1>6, <1>7, <1>8 DEF FilesGrow

LEMMA SendSpakeKeeps ==
    ASSUME IInv, NEW p \in Procs, SendSpake(p)
    PROVE  IInv'
<1>1. proc[p] \in ProcType /\ proc[p].at = "ready" /\ proc[p].kind = "enter" /\ StageInv(p)
    BY DEF SendSpake, IInv, ProcInv, Shape
<1>2. Fresh(proc[p]) /\ proc[p].id # NoKey
    BY <1>1 DEF StageInv, StageOf
<1>3. PICK q \in Procs, typed \in {"right", "wrong"} :
          /\ proc' = [proc EXCEPT ![p].pin = IF typed = "right" THEN q ELSE Wrong,
                                  ![p].target = q, ![p].at = "await_ack"]
          /\ IF Active(q) THEN Request(q, [from |-> p, body |-> "spake"]) ELSE UNCHANGED inbox
    BY DEF SendSpake
<1>4. PICK pin \in Procs \cup {Wrong} : pin = IF typed = "right" THEN q ELSE Wrong
    OBVIOUS
<1>5. PICK r : r = [proc[p] EXCEPT !.pin = pin, !.target = q, !.at = "await_ack"]
    OBVIOUS
<1>6. /\ r \in ProcType /\ r.kind = "enter" /\ r.at = "await_ack"
      /\ r.session = Nobody /\ r.partner = NoKey /\ r.reply = Nobody
      /\ r.loaded = proc[p].loaded /\ r.id = proc[p].id
    BY <1>1, <1>2, <1>4, <1>5 DEF ProcType, Stages, Fresh
<1>7. Moves(p, r)
    BY <1>1, <1>2, <1>3, <1>4, <1>5, <1>6 DEF Moves, Later, Fresh, IInv, Shape
<1>8. FilesGrow /\ minted' = minted /\ peers' = peers
    <2>1. PICK m : m = [from |-> p, body |-> "spake"]
        OBVIOUS
    <2>2. m \in Message /\ MessageInv(q, m)'
        BY <2>1 DEF Message, MessageInv
    <2>3. CASE Active(q)
        BY <1>3, <2>1, <2>2, <2>3, Sending DEF SendSpake
    <2>4. CASE ~ Active(q)
        BY <1>3, <2>4, FilesStay DEF SendSpake
    <2> QED BY <2>3, <2>4
<1>9. StageOf(p, r, minted'[Home(p)])
    BY <1>2, <1>6 DEF StageOf
<1> QED BY <1>2, <1>6, <1>7, <1>8, <1>9, FreshMove

LEMMA SyncRequestKeeps ==
    ASSUME IInv, NEW q \in Procs, SyncRequest(q)
    PROVE  IInv'
<1>1. PICK m : m = [from |-> q, body |-> "sync"]
    OBVIOUS
<1>2. m \in Message /\ MessageInv(q, m)'
    BY <1>1 DEF Message, MessageInv
<1>3. FilesGrow
    BY <1>1, <1>2, Sending DEF SyncRequest
<1>4. proc' = proc /\ peers' = peers
    BY DEF SyncRequest
<1>5. Grows
    BY <1>4 DEF Grows, Later
<1> QED BY <1>3, <1>4, <1>5, StepKeeps DEF FilesGrow, IInv, Shape

-----------------------------------------------------------------------------
(* A process that ends, or reads the file it will change.                  *)

\* What a process in another stage has is what it had.
LEMMA Goes ==
    ASSUME IInv, NEW p \in Procs, NEW at \in Ended \ {"off"}, Become(p, at), FilesGrow,
           \A d \in Devices : \A id \in Ids(peers'[d]) : id \in Ids(peers[d]) \/ Trusted(d, id)
    PROVE  IInv'
<1>1. proc[p] \in ProcType /\ ProcInv(p)
    BY DEF IInv, Shape
<1>2. PICK r : r = [proc[p] EXCEPT !.at = at]
    OBVIOUS
<1>3. /\ r \in ProcType /\ r.at = at /\ r.kind = proc[p].kind /\ r.id = proc[p].id
      /\ r.pin = proc[p].pin /\ r.target = proc[p].target /\ r.session = proc[p].session
      /\ r.partner = proc[p].partner /\ r.loaded = proc[p].loaded
    BY <1>1, <1>2 DEF ProcType, Stages
<1>4. Moves(p, r)
    BY <1>2, <1>3 DEF Moves, Later, Become, IInv, Shape
<1>5. StageOf(p, r, minted'[Home(p)])
    BY <1>3 DEF StageOf, Ended
<1>6. r.at \notin {"await_ack", "await_identity_ack"}
    BY <1>3 DEF Ended
<1>7. \A id \in Ids(r.loaded) : Trusted(Home(p), id)
    BY <1>1, <1>3 DEF ProcInv
<1> QED BY <1>3, <1>4, <1>5, <1>6, <1>7, LaterMove

LEMMA EndsKeep ==
    ASSUME IInv, NEW p \in Procs, Become(p, "failed"),
           UNCHANGED <<key, minted, peers, inbox, expect>>
    PROVE  IInv'
<1>1. FilesGrow /\ peers' = peers
    BY FilesStay
<1>2. "failed" \in Ended \ {"off"}
    BY DEF Ended
<1> QED BY <1>1, <1>2, Goes

LEMMA LoadPeersKeeps ==
    ASSUME IInv, NEW p \in Procs, LoadPeers(p)
    PROVE  IInv'
<1>1. proc[p] \in ProcType /\ ProcInv(p) /\ proc[p].at = "load_peers"
    BY DEF IInv, Shape, LoadPeers
<1>2. PICK loaded : loaded = peers[Home(p)]
    OBVIOUS
<1>3. loaded \in Seq(RecordType) /\ \A id \in Ids(loaded) : Trusted(Home(p), id)
    BY <1>2, ProcShape DEF IInv, Shape, Files, PeersInv
<1>4. PICK r : r = [proc[p] EXCEPT !.loaded = loaded, !.at = "save_peers"]
    OBVIOUS
<1>5. /\ r \in ProcType /\ r.at = "save_peers" /\ r.kind = proc[p].kind /\ r.id = proc[p].id
      /\ r.pin = proc[p].pin /\ r.target = proc[p].target /\ r.session = proc[p].session
      /\ r.partner = proc[p].partner /\ r.loaded = loaded
    BY <1>1, <1>3, <1>4 DEF ProcType, Stages
<1>6. Moves(p, r)
    BY <1>2, <1>4, <1>5 DEF Moves, Later, LoadPeers, IInv, Shape
<1>7. FilesGrow /\ minted' = minted /\ peers' = peers
    BY FilesStay DEF LoadPeers
<1>8. StageOf(p, r, minted'[Home(p)])
    BY <1>1, <1>5 DEF StageOf, ProcInv, StageInv
<1> QED BY <1>3, <1>5, <1>6, <1>7, <1>8, LaterMove

-----------------------------------------------------------------------------
(* The exchange.                                                           *)

LEMMA Receiving ==
    ASSUME IInv, NEW q \in Procs, inbox[q] # <<>>,
           inbox' = [inbox EXCEPT ![q] = Tail(@)], UNCHANGED <<key, minted, peers, expect>>
    PROVE  /\ FilesGrow /\ minted' = minted /\ peers' = peers
           /\ Head(inbox[q]) \in Message /\ MessageInv(q, Head(inbox[q]))
<1>1. Files
    BY DEF IInv, Shape
<1>2. PICK box : box = inbox[q]
    OBVIOUS
<1>3. box \in Seq(Message) /\ box # <<>>
    BY <1>1, <1>2 DEF Files
<1>4. Tail(box) \in Seq(Message) /\ Head(box) \in Message /\ 1 \in 1..Len(box) /\ Head(box) = box[1]
    BY <1>3
<1>5. inbox' = [inbox EXCEPT ![q] = Tail(box)]
    BY <1>2
<1>6. Files'
    BY <1>1, <1>4, <1>5 DEF Files
<1>7. ASSUME NEW x \in Procs, NEW n \in Under(x)' PROVE n \in Under(x)
    <2>1. CASE x # q
        <3>1. inbox'[x] = inbox[x]
            BY <1>1, <1>5, <2>1 DEF Files
        <3> QED BY <3>1 DEF Under
    <2>2. CASE x = q
        <3>1. inbox'[q] = Tail(box)
            BY <1>1, <1>5 DEF Files
        <3>2. PICK i \in 1..Len(Tail(box)) : n = Tail(box)[i]
            BY <2>2, <3>1 DEF Under
        <3>3. i + 1 \in 1..Len(box) /\ n = box[i + 1]
            BY <1>3, <3>2
        <3> QED BY <1>2, <2>2, <3>3 DEF Under
    <2> QED BY <2>1, <2>2
<1>8. \A d \in Devices : minted[d] <= minted'[d]
    BY <1>1 DEF Files
<1>9. MessageInv(q, Head(box))
    <2>1. Head(box) \in Under(q)
        BY <1>2, <1>4 DEF Under
    <2> QED BY <2>1 DEF IInv
<1> QED BY <1>2, <1>4, <1>6, <1>7, <1>8, <1>9 DEF FilesGrow

\* q becomes r, and e, if it waits for q, gets the answer.
Answers(q, r, e, reply, stage) ==
    /\ r \in ProcType /\ Later(proc[q], r)
    /\ proc' \in [Procs -> ProcType] /\ proc'[q] = r
    /\ \A x \in Procs \ {q} :
         \/ proc'[x] = proc[x]
         \/ /\ x = e /\ Waits(e, q, stage)
            /\ proc'[e] = [proc[e] EXCEPT !.reply = reply]

LEMMA AnswersGrow ==
    ASSUME IInv, NEW q \in Procs, NEW r, NEW e \in Procs, NEW reply, NEW stage,
           Answers(q, r, e, reply, stage)
    PROVE  /\ Grows
           /\ e # q /\ proc'[e] # proc[e] =>
                /\ proc[e].at = stage /\ proc[e].target = q
                /\ proc'[e].at = stage /\ proc'[e].target = q /\ proc'[e].reply = reply
                /\ proc'[e].kind = proc[e].kind /\ proc'[e].partner = proc[e].partner
                /\ proc'[e].session = proc[e].session /\ proc'[e].id = proc[e].id
                /\ proc'[e].pin = proc[e].pin /\ proc'[e].loaded = proc[e].loaded
<1>1. ASSUME e # q, proc'[e] # proc[e]
      PROVE  /\ proc[e].at = stage /\ proc[e].target = q
             /\ proc'[e].at = stage /\ proc'[e].target = q /\ proc'[e].reply = reply
             /\ proc'[e].kind = proc[e].kind /\ proc'[e].partner = proc[e].partner
             /\ proc'[e].session = proc[e].session /\ proc'[e].id = proc[e].id
             /\ proc'[e].pin = proc[e].pin /\ proc'[e].loaded = proc[e].loaded
    <2>1. Waits(e, q, stage) /\ proc'[e] = [proc[e] EXCEPT !.reply = reply]
        BY <1>1 DEF Answers
    <2>2. proc[e] \in ProcType
        BY DEF IInv, Shape
    <2> QED BY <2>1, <2>2 DEF Waits, ProcType
<1>2. ASSUME NEW x \in Procs PROVE Later(proc[x], proc'[x])
    <2>1. CASE x = q
        BY <2>1 DEF Answers
    <2>2. CASE x # q /\ proc'[x] = proc[x]
        BY <2>2 DEF Later
    <2>3. CASE x # q /\ proc'[x] # proc[x]
        <3>1. x = e
            BY <2>3 DEF Answers
        <3> QED BY <1>1, <2>3, <3>1 DEF Later
    <2> QED BY <2>1, <2>2, <2>3
<1> QED BY <1>1, <1>2 DEF Grows

LEMMA TakeSpakeKeeps ==
    ASSUME IInv, NEW q \in Procs, TakeSpake(q)
    PROVE  IInv'
<1>1. PICK m : m = Head(inbox[q])
    OBVIOUS
<1>2. FilesGrow /\ minted' = minted /\ peers' = peers /\ m \in Message
    BY <1>1, Receiving DEF TakeSpake
<1>3. proc[q] \in ProcType /\ ProcInv(q) /\ proc[q].at = "await_spake"
    BY DEF IInv, Shape, TakeSpake
<1>4. proc[q].kind = "show" /\ proc[q].pin = q /\ proc[q].session = Nobody
          /\ proc[q].id # NoKey /\ proc[q].partner = NoKey
    BY <1>3 DEF ProcInv, StageInv, StageOf
<1>5. CASE m.body # "spake"
    <2>1. Become(q, "failed") /\ "failed" \in Ended \ {"off"}
        BY <1>1, <1>5 DEF TakeSpake, Become, Ended
    <2> QED BY <1>2, <2>1, Goes
<1>6. CASE m.body = "spake"
    <2>1. PICK e \in Procs : e = m.from
        BY <1>2 DEF Message
    <2>2. PICK k : k = <<q, e, q>>
        OBVIOUS
    <2>3. PICK reply : reply = [tag |-> <<"show", k>>]
        OBVIOUS
    <2>4. proc' = IF Waits(e, q, "await_ack")
                  THEN [proc EXCEPT ![q].session = k, ![q].at = "await_identity",
                                    ![e].reply = reply]
                  ELSE [proc EXCEPT ![q].session = k, ![q].at = "await_identity"]
        BY <1>1, <1>4, <1>6, <2>1, <2>2, <2>3 DEF TakeSpake, SessionKey, Tag
    <2>5. PICK r : r = [proc[q] EXCEPT !.session = k, !.at = "await_identity"]
        OBVIOUS
    <2>6. /\ r \in ProcType /\ r.kind = "show" /\ r.at = "await_identity" /\ r.pin = q
          /\ r.session = k /\ r.partner = NoKey /\ r.id = proc[q].id
          /\ r.loaded = proc[q].loaded
        <3>1. k \in Keyed
            BY <2>2 DEF Keyed
        <3> QED BY <1>3, <1>4, <2>5, <3>1 DEF ProcType, Stages
    <2>7. Answers(q, r, e, reply, "await_ack")
        <3>1. Waits(e, q, "await_ack") => e # q
            BY <1>3 DEF Waits
        <3>2. Later(proc[q], r)
            BY <1>4, <2>6 DEF Later
        <3>3. proc \in [Procs -> ProcType]
            BY DEF IInv, Shape
        <3>4. ASSUME Waits(e, q, "await_ack")
              PROVE  [proc[e] EXCEPT !.reply = reply] \in ProcType
            <4>1. reply \in Replies
                BY <2>2, <2>3 DEF Replies, Tags, Keyed
            <4> QED BY <3>3, <4>1 DEF ProcType
        <3>5. CASE Waits(e, q, "await_ack")
            <4>1. proc' = [proc EXCEPT ![q] = r, ![e] = [proc[e] EXCEPT !.reply = reply]]
                BY <2>4, <2>5, <3>1, <3>3, <3>5
            <4> QED BY <2>6, <3>1, <3>2, <3>3, <3>4, <3>5, <4>1 DEF Answers
        <3>6. CASE ~ Waits(e, q, "await_ack")
            <4>1. proc' = [proc EXCEPT ![q] = r]
                BY <2>4, <2>5, <3>3, <3>6
            <4> QED BY <2>6, <3>2, <3>3, <4>1 DEF Answers
        <3> QED BY <3>5, <3>6
    <2>8. Grows
        BY <2>7, AnswersGrow
    <2>9. ProcInv(q)'
        <3>1. proc'[q] = r
            BY <2>7 DEF Answers
        <3>2. StageInv(q)'
            BY <1>4, <2>2, <2>6, <3>1, ProcShape DEF StageInv, StageOf
        <3>3. ShowInv(q)'
            BY <2>1, <2>2, <2>6, <3>1 DEF ShowInv
        <3>4. EnterInv(q)'
            BY <2>6, <3>1 DEF EnterInv
        <3>5. \A id \in Ids(proc'[q].loaded) : Trusted(Home(q), id)'
            BY <1>3, <2>6, <2>8, <3>1, TrustKept DEF ProcInv
        <3> QED BY <1>4, <2>6, <3>1, <3>2, <3>3, <3>4, <3>5 DEF ProcInv, Ids
    <2>10. ASSUME e # q, proc'[e] # proc[e] PROVE ProcInv(e)'
        <3>1. /\ proc[e].at = "await_ack" /\ proc[e].target = q
              /\ proc'[e].at = "await_ack" /\ proc'[e].target = q /\ proc'[e].reply = reply
              /\ proc'[e].kind = proc[e].kind /\ proc'[e].partner = proc[e].partner
              /\ proc'[e].session = proc[e].session /\ proc'[e].id = proc[e].id
              /\ proc'[e].pin = proc[e].pin /\ proc'[e].loaded = proc[e].loaded
            BY <2>7, <2>10, AnswersGrow
        <3>2. ProcInv(e)
            BY DEF IInv
        <3>3. proc[e].kind = "enter" /\ proc[e].partner = NoKey /\ proc[e].id # NoKey
                  /\ proc[e].session = Nobody
            BY <3>1, <3>2 DEF ProcInv, StageInv, StageOf
        <3>4. StageInv(e)' /\ ShowInv(e)'
            BY <3>1, <3>3 DEF StageInv, StageOf, ShowInv
        <3>5. EnterInv(e)'
            <4>1. proc'[q].session = <<q, e, q>>
                BY <2>2, <2>6, <2>7 DEF Answers
            <4> QED BY <2>2, <2>3, <3>1, <3>3, <4>1 DEF EnterInv
        <3>6. \A id \in Ids(proc'[e].loaded) : Trusted(Home(e), id)'
            BY <2>8, <3>1, <3>2, TrustKept DEF ProcInv
        <3> QED BY <3>1, <3>3, <3>4, <3>5, <3>6 DEF ProcInv, Ids
    <2>11. ASSUME NEW x \in Procs, proc'[x] # proc[x] PROVE ProcInv(x)'
        BY <2>7, <2>9, <2>10, <2>11 DEF Answers
    <2>12. Shape'
        BY <1>2, <2>7 DEF Shape, FilesGrow, Answers
    <2> QED BY <1>2, <2>8, <2>11, <2>12, StepKeeps DEF FilesGrow
<1> QED BY <1>5, <1>6

LEMMA TakeIdentityKeeps ==
    ASSUME IInv, NEW q \in Procs, TakeIdentity(q)
    PROVE  IInv'
<1>1. PICK m : m = Head(inbox[q])
    OBVIOUS
<1>2. FilesGrow /\ minted' = minted /\ peers' = peers /\ m \in Message /\ MessageInv(q, m)
    BY <1>1, Receiving DEF TakeIdentity
<1>3. proc[q] \in ProcType /\ ProcInv(q) /\ proc[q].at = "await_identity"
    BY DEF IInv, Shape, TakeIdentity
<1>4. proc[q].kind = "show" /\ proc[q].pin = q /\ proc[q].session # Nobody
          /\ proc[q].id # NoKey /\ proc[q].partner = NoKey
    BY <1>3 DEF ProcInv, StageInv, StageOf
<1>5. CASE ~ (m.body = "identity" /\ m.tag = Tag("enter", proc[q].session))
    <2>1. Become(q, "failed") /\ "failed" \in Ended \ {"off"}
        BY <1>1, <1>5 DEF TakeIdentity, Become, Ended
    <2> QED BY <1>2, <2>1, Goes
<1>6. CASE m.body = "identity" /\ m.tag = Tag("enter", proc[q].session)
    <2>1. PICK e \in Procs : e = m.from
        BY <1>2 DEF Message
    <2>2. m.id \in IdType
        BY <1>2, <1>6 DEF Message
    <2>3. Exchange(e, q) /\ proc[e].id = m.id
        <3>1. PICK other \in Procs : proc[q].session = <<q, other, q>>
            BY <1>3, <1>4 DEF ProcInv, ShowInv
        <3>2. proc[e].kind = "enter" /\ proc[e].id = m.id
                  /\ m.tag = <<"enter", <<proc[e].pin, e, q>>>>
            BY <1>2, <1>6, <2>1 DEF MessageInv
        <3>3. <<proc[e].pin, e, q>> = <<q, other, q>>
            BY <1>6, <3>1, <3>2 DEF Tag
        <3> QED BY <3>1, <3>2, <3>3 DEF Exchange
    <2>4. PICK reply : reply = [id |-> proc[q].id]
        OBVIOUS
    <2>5. proc' = IF Waits(e, q, "await_identity_ack")
                  THEN [proc EXCEPT ![q].partner = m.id, ![q].at = "load_peers",
                                    ![e].reply = reply]
                  ELSE [proc EXCEPT ![q].partner = m.id, ![q].at = "load_peers"]
        BY <1>1, <1>6, <2>1, <2>4 DEF TakeIdentity, Identified
    <2>6. PICK r : r = [proc[q] EXCEPT !.partner = m.id, !.at = "load_peers"]
        OBVIOUS
    <2>7. /\ r \in ProcType /\ r.kind = "show" /\ r.at = "load_peers" /\ r.pin = q
          /\ r.session = proc[q].session /\ r.partner = m.id /\ r.id = proc[q].id
          /\ r.loaded = proc[q].loaded
        BY <1>3, <1>4, <2>2, <2>6 DEF ProcType, Stages
    <2>8. Answers(q, r, e, reply, "await_identity_ack")
        <3>1. Waits(e, q, "await_identity_ack") => e # q
            BY <1>3 DEF Waits
        <3>2. Later(proc[q], r)
            BY <1>4, <2>7 DEF Later
        <3>3. proc \in [Procs -> ProcType]
            BY DEF IInv, Shape
        <3>4. [proc[e] EXCEPT !.reply = reply] \in ProcType
            <4>1. proc[q].id \in IdType
                BY <1>3, <1>4 DEF ProcType
            <4>2. reply \in Replies
                BY <2>4, <4>1 DEF Replies
            <4> QED BY <3>3, <4>2 DEF ProcType
        <3>5. CASE Waits(e, q, "await_identity_ack")
            <4>1. proc' = [proc EXCEPT ![q] = r, ![e] = [proc[e] EXCEPT !.reply = reply]]
                BY <2>5, <2>6, <3>1, <3>3, <3>5
            <4> QED BY <2>7, <3>1, <3>2, <3>3, <3>4, <3>5, <4>1 DEF Answers
        <3>6. CASE ~ Waits(e, q, "await_identity_ack")
            <4>1. proc' = [proc EXCEPT ![q] = r]
                BY <2>5, <2>6, <3>3, <3>6
            <4> QED BY <2>7, <3>2, <3>3, <4>1 DEF Answers
        <3> QED BY <3>5, <3>6
    <2>9. Grows /\ proc'[q] = r
        BY <2>8, AnswersGrow DEF Answers
    <2>10. Exchange(e, q)' /\ proc'[e].id = m.id
        BY <2>3, <2>9, ExchangeKept
    <2>11. ProcInv(q)'
        <3>1. StageInv(q)'
            BY <1>4, <2>2, <2>7, <2>9, ProcShape DEF StageInv, StageOf
        <3>2. ShowInv(q)'
            <4>1. proc'[q].session = <<q, e, q>>
                BY <2>10 DEF Exchange
            <4> QED BY <2>7, <2>9, <2>10, <4>1 DEF ShowInv
        <3>3. EnterInv(q)'
            BY <2>7, <2>9 DEF EnterInv
        <3>4. \A id \in Ids(proc'[q].loaded) : Trusted(Home(q), id)'
            BY <1>3, <2>7, <2>9, TrustKept DEF ProcInv
        <3> QED BY <1>4, <2>7, <2>9, <3>1, <3>2, <3>3, <3>4 DEF ProcInv, Ids
    <2>12. ASSUME e # q, proc'[e] # proc[e] PROVE ProcInv(e)'
        <3>1. /\ proc[e].at = "await_identity_ack" /\ proc[e].target = q
              /\ proc'[e].at = "await_identity_ack" /\ proc'[e].target = q /\ proc'[e].reply = reply
              /\ proc'[e].kind = proc[e].kind /\ proc'[e].partner = proc[e].partner
              /\ proc'[e].session = proc[e].session /\ proc'[e].id = proc[e].id
              /\ proc'[e].pin = proc[e].pin /\ proc'[e].loaded = proc[e].loaded
            BY <2>8, <2>12, AnswersGrow
        <3>2. ProcInv(e)
            BY DEF IInv
        <3>3. proc[e].kind = "enter" /\ proc[e].partner = NoKey /\ proc[e].id # NoKey
            BY <3>1, <3>2 DEF ProcInv, StageInv, StageOf
        <3>4. StageInv(e)' /\ ShowInv(e)'
            BY <3>1, <3>3 DEF StageInv, StageOf, ShowInv
        <3>5. EnterInv(e)'
            BY <2>4, <2>7, <2>9, <2>10, <3>1, <3>3 DEF EnterInv
        <3>6. \A id \in Ids(proc'[e].loaded) : Trusted(Home(e), id)'
            BY <2>9, <3>1, <3>2, TrustKept DEF ProcInv
        <3> QED BY <3>1, <3>3, <3>4, <3>5, <3>6 DEF ProcInv, Ids
    <2>13. ASSUME NEW x \in Procs, proc'[x] # proc[x] PROVE ProcInv(x)'
        BY <2>8, <2>11, <2>12, <2>13 DEF Answers
    <2>14. Shape'
        BY <1>2, <2>8 DEF Shape, FilesGrow, Answers
    <2> QED BY <1>2, <2>9, <2>13, <2>14, StepKeeps DEF FilesGrow
<1> QED BY <1>5, <1>6

LEMMA TakeAckKeeps ==
    ASSUME IInv, NEW p \in Procs, TakeAck(p)
    PROVE  IInv'
<1>1. PICK q : q = proc[p].target
    OBVIOUS
<1>2. proc[p] \in ProcType /\ ProcInv(p) /\ proc[p].at = "await_ack" /\ proc[p].reply # Nobody
    BY DEF IInv, Shape, TakeAck
<1>3. /\ proc[p].kind = "enter" /\ proc[p].session = Nobody
      /\ proc[p].id # NoKey /\ proc[p].partner = NoKey
    BY <1>2 DEF ProcInv, StageInv, StageOf
<1>4. proc[p].reply = [tag |-> <<"show", <<q, p, q>>>>] /\ q \in Procs
          /\ proc[q].session = <<q, p, q>>
    BY <1>1, <1>2 DEF ProcInv, EnterInv
<1>5. PICK k : k = <<proc[p].pin, p, q>>
    OBVIOUS
<1>6. CASE proc[p].reply.tag # Tag("show", k)
    <2>1. Become(p, "failed") /\ UNCHANGED <<key, minted, peers, inbox, expect>>
        BY <1>1, <1>5, <1>6 DEF TakeAck, SessionKey
    <2> QED BY <2>1, EndsKeep
<1>7. CASE proc[p].reply.tag = Tag("show", k)
    <2>1. k = <<q, p, q>>
        BY <1>4, <1>7 DEF Tag
    <2>2. proc[p].pin = q
        BY <1>5, <2>1
    <2>3. PICK m : m = [from |-> p, body |-> "identity", tag |-> Tag("enter", k), id |-> proc[p].id]
        OBVIOUS
    <2>4. /\ proc' = [proc EXCEPT ![p].session = k, ![p].reply = Nobody,
                                   ![p].at = "await_identity_ack"]
          /\ IF Active(q) THEN Request(q, m) ELSE UNCHANGED inbox
          /\ UNCHANGED <<key, minted, peers, expect>>
        BY <1>1, <1>5, <1>7, <2>3 DEF TakeAck, SessionKey
    <2>5. PICK r : r = [proc[p] EXCEPT !.session = k, !.reply = Nobody, !.at = "await_identity_ack"]
        OBVIOUS
    <2>6. /\ r \in ProcType /\ r.kind = "enter" /\ r.at = "await_identity_ack" /\ r.pin = q
          /\ r.target = q /\ r.session = k /\ r.partner = NoKey /\ r.reply = Nobody
          /\ r.id = proc[p].id /\ r.loaded = proc[p].loaded
        <3>1. k \in Keyed
            BY <1>4, <2>1 DEF Keyed
        <3> QED BY <1>1, <1>2, <1>3, <2>2, <2>5, <3>1 DEF ProcType, Stages, Replies
    <2>7. Moves(p, r)
        BY <1>3, <2>2, <2>4, <2>5, <2>6 DEF Moves, Later, IInv, Shape
    <2>8. Grows /\ proc' \in [Procs -> ProcType] /\ proc'[p] = r
              /\ \A x \in Procs : x # p => proc'[x] = proc[x]
        BY <2>7, MovesGrows
    <2>9. Exchange(p, q)'
        <3>1. proc'[q].session = <<q, p, q>>
            BY <1>4, <2>1, <2>6, <2>8
        <3> QED BY <1>4, <2>6, <2>8, <3>1 DEF Exchange
    <2>10. FilesGrow /\ minted' = minted /\ peers' = peers
        <3>1. m \in Message
            <4>1. proc[p].id \in IdType
                BY <1>2, <1>3 DEF ProcType
            <4>2. Tag("enter", k) \in Tags
                BY <1>4, <2>1 DEF Tag, Tags, Keyed
            <4> QED BY <2>3, <4>1, <4>2 DEF Message
        <3>2. MessageInv(q, m)'
            BY <1>4, <2>1, <2>3, <2>6, <2>8, ProcShape DEF MessageInv, Tag
        <3>3. CASE Active(q)
            BY <1>4, <2>4, <3>1, <3>2, <3>3, Sending
        <3>4. CASE ~ Active(q)
            BY <2>4, <3>4, FilesStay
        <3> QED BY <2>4, <3>3, <3>4
    <2>11. ProcInv(p)'
        <3>1. StageInv(p)' /\ ShowInv(p)'
            BY <1>3, <2>6, <2>8 DEF StageInv, StageOf, ShowInv
        <3>2. EnterInv(p)'
            BY <2>6, <2>8, <2>9 DEF EnterInv
        <3>3. \A id \in Ids(proc'[p].loaded) : Trusted(Home(p), id)'
            BY <1>2, <2>6, <2>8, TrustKept DEF ProcInv
        <3> QED BY <1>3, <2>6, <2>8, <3>1, <3>2, <3>3 DEF ProcInv, Ids
    <2> QED BY <2>8, <2>10, <2>11, StepKeeps DEF FilesGrow, Shape
<1> QED BY <1>6, <1>7

LEMMA TakeIdentityAckKeeps ==
    ASSUME IInv, NEW p \in Procs, TakeIdentityAck(p)
    PROVE  IInv'
<1>1. PICK q : q = proc[p].target
    OBVIOUS
<1>2. proc[p] \in ProcType /\ ProcInv(p) /\ proc[p].at = "await_identity_ack"
          /\ proc[p].reply # Nobody
    BY DEF IInv, Shape, TakeIdentityAck
<1>3. proc[p].kind = "enter" /\ proc[p].id # NoKey /\ proc[p].partner = NoKey
    BY <1>2 DEF ProcInv, StageInv, StageOf
<1>4. Exchange(p, q) /\ proc[p].reply = [id |-> proc[q].id] /\ proc[q].partner = proc[p].id
    BY <1>1, <1>2 DEF ProcInv, EnterInv
<1>5. q \in Procs /\ q # p
    BY <1>3, <1>4 DEF Exchange
<1>6. PICK id \in IdType : id = proc[q].id
    <2>1. proc[q] \in ProcType /\ ProcInv(q)
        BY <1>5 DEF IInv, Shape
    <2>2. proc[q].session # Nobody
        BY <1>4, <1>5, ProcShape DEF Exchange
    <2> QED BY <2>1, <2>2 DEF ProcInv, ProcType
<1>7. proc' = [proc EXCEPT ![p].partner = id, ![p].reply = Nobody, ![p].at = "load_peers"]
    BY <1>4, <1>6 DEF TakeIdentityAck
<1>8. PICK r : r = [proc[p] EXCEPT !.partner = id, !.reply = Nobody, !.at = "load_peers"]
    OBVIOUS
<1>9. /\ r \in ProcType /\ r.kind = "enter" /\ r.at = "load_peers" /\ r.pin = proc[p].pin
      /\ r.target = q /\ r.session = proc[p].session /\ r.partner = id
      /\ r.id = proc[p].id /\ r.loaded = proc[p].loaded
    BY <1>1, <1>2, <1>3, <1>8 DEF ProcType, Stages, Replies
<1>10. Moves(p, r)
    BY <1>3, <1>7, <1>8, <1>9 DEF Moves, Later, IInv, Shape
<1>11. Grows /\ proc' \in [Procs -> ProcType] /\ proc'[p] = r
           /\ \A x \in Procs : x # p => proc'[x] = proc[x]
    BY <1>10, MovesGrows
<1>12. FilesGrow /\ minted' = minted /\ peers' = peers
    BY FilesStay DEF TakeIdentityAck
<1>13. ProcInv(p)'
    <2>1. StageInv(p)' /\ ShowInv(p)'
        BY <1>3, <1>9, <1>11, ProcShape DEF StageInv, StageOf, ShowInv
    <2>2. EnterInv(p)'
        <3>1. Exchange(p, q)'
            BY <1>4, <1>5, <1>11, ExchangeKept
        <3>2. proc'[q].id = id /\ proc'[q].partner = proc'[p].id
            BY <1>4, <1>5, <1>6, <1>9, <1>11
        <3> QED BY <1>9, <1>11, <3>1, <3>2 DEF EnterInv
    <2>3. \A x \in Ids(proc'[p].loaded) : Trusted(Home(p), x)'
        BY <1>2, <1>9, <1>11, TrustKept DEF ProcInv
    <2> QED BY <1>3, <1>9, <1>11, <2>1, <2>2, <2>3 DEF ProcInv, Ids
<1> QED BY <1>11, <1>12, <1>13, StepKeeps DEF FilesGrow, Shape

-----------------------------------------------------------------------------
(* Changing peers.toml.                                                    *)

\* What is left of a sequence was in it.
LEMMA RemoveAtKeeps ==
    ASSUME NEW S, NEW s \in Seq(S), NEW i \in 1..Len(s)
    PROVE  /\ RemoveAt(s, i) \in Seq(S) /\ Len(RemoveAt(s, i)) = Len(s) - 1
           /\ \A j \in 1..(Len(s) - 1) : RemoveAt(s, i)[j] = s[IF j < i THEN j ELSE j + 1]
           /\ \A j \in 1..Len(RemoveAt(s, i)) : \E k \in 1..Len(s) : RemoveAt(s, i)[j] = s[k]
<1>1. PICK u, v : u = SubSeq(s, 1, i - 1) /\ v = SubSeq(s, i + 1, Len(s))
    OBVIOUS
<1>2. u \in Seq(S) /\ Len(u) = i - 1 /\ \A j \in 1..Len(u) : u[j] = s[j]
    BY <1>1
<1>3. v \in Seq(S) /\ Len(v) = Len(s) - i /\ \A j \in 1..Len(v) : v[j] = s[i + j]
    BY <1>1
<1>4. RemoveAt(s, i) = u \o v
    BY <1>1 DEF RemoveAt
<1>5. u \o v \in Seq(S) /\ Len(u \o v) = Len(u) + Len(v)
    <2>1. u \in Seq(S) /\ v \in Seq(S)
        BY <1>2, <1>3
    <2>2. u \o v \in Seq(S)
        BY <2>1
    <2>3. Len(u \o v) = Len(u) + Len(v)
        BY <2>1
    <2> QED BY <2>2, <2>3
<1>6. ASSUME NEW j \in 1..(Len(s) - 1) PROVE (u \o v)[j] = s[IF j < i THEN j ELSE j + 1]
    <2>1. CASE j < i
        BY <1>2, <1>3, <1>5, <2>1
    <2>2. CASE ~ (j < i)
        <3>1. (u \o v)[j] = v[j - Len(u)] /\ j - Len(u) \in 1..Len(v)
            BY <1>2, <1>3, <1>5, <2>2
        <3>2. i + (j - Len(u)) = j + 1
            BY <1>2
        <3> QED BY <1>3, <2>2, <3>1, <3>2
    <2> QED BY <2>1, <2>2
<1>7. Len(u \o v) = Len(s) - 1
    BY <1>2, <1>3, <1>5
<1>8. \A j \in 1..(Len(s) - 1) : (IF j < i THEN j ELSE j + 1) \in 1..Len(s)
    OBVIOUS
<1> QED BY <1>4, <1>5, <1>6, <1>7, <1>8

\* Wherever the record goes, the others are as they were.
LEMMA UpsertKeeps ==
    ASSUME NEW records \in Seq(RecordType), NEW r \in RecordType
    PROVE  /\ Upsert(records, r) \in Seq(RecordType)
           /\ \A id \in Ids(Upsert(records, r)) : id \in Ids(records) \/ id = r.id
<1>1. CASE r.id \in Ids(records)
    <2>1. PICK i : i = Min({n \in DOMAIN records : records[n].id = r.id})
        OBVIOUS
    <2>2. Upsert(records, r) = [records EXCEPT ![i] = r]
        BY <1>1, <2>1 DEF Upsert
    <2>3. [records EXCEPT ![i] = r] \in Seq(RecordType)
        <3>1. CASE i \in 1..Len(records)
            BY <3>1, ExceptSeq
        <3>2. CASE i \notin 1..Len(records)
            <4>1. [records EXCEPT ![i] = r] = records
                BY <3>2
            <4> QED BY <4>1
        <3> QED BY <3>1, <3>2
    <2>4. \A id \in Ids([records EXCEPT ![i] = r]) : id \in Ids(records) \/ id = r.id
        BY DEF Ids
    <2> QED BY <2>2, <2>3, <2>4
<1>2. CASE r.id \notin Ids(records)
    <2>1. Upsert(records, r) = Append(records, r)
        BY <1>2 DEF Upsert
    <2>2. Append(records, r) \in Seq(RecordType)
        OBVIOUS
    <2>3. \A id \in Ids(Append(records, r)) : id \in Ids(records) \/ id = r.id
        BY DEF Ids
    <2> QED BY <2>1, <2>2, <2>3
<1> QED BY <1>1, <1>2

LEMMA Saving ==
    ASSUME IInv, NEW p \in Procs, NEW d \in Devices,
           NEW records \in Seq(RecordType), NEW told \in SUBSET IdType,
           \A id \in Ids(records) : id \in Ids(peers[d]) \/ Trusted(d, id),
           peers' = [peers EXCEPT ![d] = records], expect' = [expect EXCEPT ![d] = told],
           Become(p, "done"), UNCHANGED <<key, minted, inbox>>
    PROVE  IInv'
<1>1. Files
    BY DEF IInv, Shape
<1>2. Files' /\ \A q \in Procs : Under(q)' = Under(q)
    BY <1>1 DEF Files, Under
<1>3. \A e \in Devices : minted[e] <= minted'[e]
    BY <1>1 DEF Files
<1>4. FilesGrow
    BY <1>2, <1>3 DEF FilesGrow
<1>5. \A e \in Devices : \A id \in Ids(peers'[e]) : id \in Ids(peers[e]) \/ Trusted(e, id)
    <2>1. \A e \in Devices : peers'[e] = IF e = d THEN records ELSE peers[e]
        BY <1>1 DEF Files
    <2> QED BY <2>1
<1>6. "done" \in Ended \ {"off"}
    BY DEF Ended
<1> QED BY <1>4, <1>5, <1>6, Goes

LEMMA SavePeersKeeps ==
    ASSUME IInv, NEW p \in Procs, SavePeers(p)
    PROVE  IInv'
<1>1. PICK d \in Devices : d = Home(p)
    BY ProcShape
<1>2. PICK old : old = proc[p].loaded
    OBVIOUS
<1>3. proc[p] \in ProcType /\ ProcInv(p) /\ proc[p].at = "save_peers" /\ expect[d] \in SUBSET IdType
    BY DEF IInv, Shape, Files, SavePeers
<1>4. old \in Seq(RecordType) /\ \A id \in Ids(old) : Trusted(d, id)
    BY <1>1, <1>2, <1>3 DEF ProcType, ProcInv
<1>5. proc[p].kind \in {"show", "enter", "rm", "rotate"}
          /\ (proc[p].kind \in {"show", "enter"} => proc[p].partner # NoKey /\ proc[p].id # NoKey)
    BY <1>3 DEF ProcInv, StageInv, StageOf
<1>6. UNCHANGED <<key, minted, inbox>>
    BY DEF SavePeers
<1>7. CASE proc[p].kind \in {"show", "enter"}
    <2>1. PICK partner, id : partner = proc[p].partner /\ id = proc[p].id
        OBVIOUS
    <2>2. partner \in IdType /\ id \in IdType
        BY <1>3, <1>5, <1>7, <2>1 DEF ProcType
    <2>3. Trusted(d, partner)
        <3>1. CASE proc[p].kind = "show"
            <4>1. PICK e \in Procs : Exchange(e, p) /\ proc[e].id = partner
                BY <1>3, <1>5, <2>1, <3>1 DEF ProcInv, ShowInv
            <4> QED BY <1>1, <4>1 DEF Trusted
        <3>2. CASE proc[p].kind = "enter"
            <4>1. PICK q : q = proc[p].target
                OBVIOUS
            <4>2. Exchange(p, q) /\ partner = proc[q].id
                BY <1>3, <1>5, <2>1, <3>2, <4>1 DEF ProcInv, EnterInv
            <4>3. q \in Procs
                BY <4>2 DEF Exchange
            <4> QED BY <1>1, <4>2, <4>3 DEF Trusted
        <3> QED BY <1>7, <3>1, <3>2
    <2>4. PICK r : r = Record(partner, id)
        OBVIOUS
    <2>5. r \in RecordType /\ r.id = partner
        BY <2>2, <2>4, ProcShape DEF Record, RecordType
    <2>6. PICK records : records = Upsert(old, r)
        OBVIOUS
    <2>7. records \in Seq(RecordType)
              /\ \A x \in Ids(records) : x \in Ids(old) \/ x = partner
        BY <1>4, <2>5, <2>6, UpsertKeeps
    <2>8. PICK told \in SUBSET IdType : told = expect[d] \cup {partner}
        BY <1>3, <2>2
    <2>9. /\ peers' = [peers EXCEPT ![d] = records] /\ expect' = [expect EXCEPT ![d] = told]
          /\ Become(p, "done")
        BY <1>1, <1>2, <1>7, <2>1, <2>4, <2>6, <2>8 DEF SavePeers
    <2>10. \A x \in Ids(records) : Trusted(d, x)
        BY <1>4, <2>3, <2>7
    <2> QED BY <1>6, <2>7, <2>9, <2>10, Saving
<1>8. CASE proc[p].kind = "rm"
    <2>1. PICK named : named = {i \in DOMAIN old : old[i].name = proc[p].name}
        OBVIOUS
    <2>2. CASE named # {}
        <3>1. PICK i \in named :
                  /\ peers' = [peers EXCEPT ![d] = RemoveAt(old, i)]
                  /\ expect' = [expect EXCEPT ![d] = expect[d] \ {old[i].id}]
                  /\ Become(p, "done")
            BY <1>1, <1>2, <1>8, <2>1, <2>2 DEF SavePeers
        <3>2. i \in 1..Len(old)
            BY <1>4, <2>1
        <3>3. RemoveAt(old, i) \in Seq(RecordType)
                  /\ \A j \in 1..Len(RemoveAt(old, i)) :
                         \E k \in 1..Len(old) : RemoveAt(old, i)[j] = old[k]
            BY <1>4, <3>2, RemoveAtKeeps
        <3>4. PICK records \in Seq(RecordType) : records = RemoveAt(old, i)
            BY <3>3
        <3>5. \A x \in Ids(records) : x \in Ids(old)
            <4>1. DOMAIN records = 1..Len(records) /\ DOMAIN old = 1..Len(old)
                BY <1>4
            <4> QED BY <3>3, <3>4, <4>1 DEF Ids
        <3>6. PICK told \in SUBSET IdType : told = expect[d] \ {old[i].id}
            BY <1>3
        <3>7. \A x \in Ids(records) : Trusted(d, x)
            BY <1>4, <3>5
        <3> QED BY <1>6, <3>1, <3>4, <3>6, <3>7, Saving
    <2>3. CASE named = {}
        <3>1. Become(p, "failed") /\ UNCHANGED <<peers, expect>>
            BY <1>1, <1>2, <1>8, <2>1, <2>3 DEF SavePeers
        <3> QED BY <1>6, <3>1, EndsKeep
    <2> QED BY <2>2, <2>3
<1>9. CASE proc[p].kind = "rotate"
    <2>1. PICK records \in Seq(RecordType) : records = <<>>
        <3>1. <<>> \in Seq(RecordType)
            OBVIOUS
        <3> QED BY <3>1
    <2>2. PICK told \in SUBSET IdType : told = {}
        OBVIOUS
    <2>3. /\ peers' = [peers EXCEPT ![d] = records] /\ expect' = [expect EXCEPT ![d] = told]
          /\ Become(p, "done")
        BY <1>1, <1>9, <2>1, <2>2 DEF SavePeers
    <2>4. \A x \in Ids(records) : Trusted(d, x)
        BY <2>1 DEF Ids
    <2> QED BY <1>6, <2>3, <2>4, Saving
<1> QED BY <1>5, <1>7, <1>8, <1>9

-----------------------------------------------------------------------------
(* The theorem.                                                            *)

LEMMA InitInv == Init => IInv
<1> SUFFICES ASSUME Init PROVE IInv
    OBVIOUS
<1>1. <<>> \in Seq(RecordType) /\ <<>> \in Seq(Message)
    OBVIOUS
<1>2. Unborn \in ProcType
    BY <1>1 DEF Unborn, ProcType, Stages, Ended, Replies
<1>3. Shape
    BY <1>1, <1>2 DEF Init, Shape, Files
<1>4. ASSUME NEW p \in Procs PROVE ProcInv(p)
    <2>1. /\ proc[p].at = "off" /\ proc[p].kind = "none" /\ Fresh(proc[p])
          /\ proc[p].loaded = <<>>
        BY DEF Init, Unborn, Fresh
    <2>2. StageInv(p)
        BY <2>1 DEF StageInv, StageOf
    <2>3. ShowInv(p) /\ EnterInv(p)
        BY <2>1 DEF ShowInv, EnterInv
    <2>4. proc[p].pin \notin Procs /\ proc[p].session = Nobody
        BY <2>1, ProcShape DEF Fresh
    <2>5. Ids(proc[p].loaded) = {}
        BY <2>1 DEF Ids
    <2> QED BY <2>2, <2>3, <2>4, <2>5 DEF ProcInv
<1>5. PeersInv
    BY DEF Init, PeersInv, Ids
<1>6. \A q \in Procs : Under(q) = {}
    BY DEF Init, Under
<1> QED BY <1>3, <1>4, <1>5, <1>6 DEF IInv

LEMMA StepInv == IInv /\ [Next]_vars => IInv'
<1> SUFFICES ASSUME IInv, [Next]_vars PROVE IInv'
    OBVIOUS
<1>1. CASE UNCHANGED vars
    <2>1. FilesGrow /\ peers' = peers /\ minted' = minted /\ proc' = proc
        BY <1>1, FilesStay DEF vars
    <2>2. Grows
        BY <2>1 DEF Grows, Later
    <2> QED BY <2>1, <2>2, StepKeeps DEF FilesGrow, IInv, Shape
<1>2. CASE Next
    <2>1. PICK p \in Procs :
              \/ StartPair(p) \/ StartRemove(p) \/ StartRotate(p)
              \/ SendSpake(p) \/ SyncRequest(p) \/ RequestFails(p)
              \/ Step(p) \/ Kill(p)
        BY <1>2 DEF Next
    <2>2. RequestFails(p) \/ Kill(p) => IInv'
        BY EndsKeep DEF RequestFails, Kill
    <2> QED BY <2>1, <2>2, StartPairKeeps, StartRemoveKeeps, StartRotateKeeps, SendSpakeKeeps,
            SyncRequestKeeps, LoadIdentityKeeps, WriteKeyKeeps, ShowPinKeeps, TakeSpakeKeeps,
            TakeAckKeeps, TakeIdentityKeeps, TakeIdentityAckKeeps, LoadPeersKeeps, SavePeersKeeps
            DEF Step
<1> QED BY <1>1, <1>2

LEMMA IInvTrust == IInv => TrustInv
<1> SUFFICES ASSUME IInv PROVE TrustInv
    OBVIOUS
<1>1. TypeOK
    <2>1. \A p \in Procs : proc[p] \in ProcType
        BY DEF IInv, Shape
    <2>2. \A p \in Procs :
             /\ proc[p].at \in Stages /\ proc[p].kind \in {"none", "show", "enter", "rm", "rotate"}
             /\ proc[p].id \in IdType \cup {NoKey} /\ proc[p].partner \in IdType \cup {NoKey}
             /\ proc[p].loaded \in Seq(RecordType)
        BY <2>1 DEF ProcType
    <2>3. \A d \in Devices : expect[d] \subseteq IdType
        BY DEF IInv, Shape, Files
    <2> QED BY <2>2, <2>3 DEF TypeOK, IInv, Shape, Files
<1>2. TrustOnlyByPin
    <2> SUFFICES ASSUME NEW d \in Devices, NEW id \in Ids(peers[d])
                 PROVE  \E e, q \in Procs :
                            /\ proc[e].kind = "enter" /\ proc[e].pin = q
                            /\ proc[q].session = SessionKey(q, e, q)
                            /\ \/ Home(e) = d /\ proc[q].id = id
                               \/ Home(q) = d /\ proc[e].id = id
        BY DEF TrustOnlyByPin
    <2>1. PICK e, q \in Procs :
              /\ Exchange(e, q)
              /\ \/ Home(e) = d /\ proc[q].id = id
                 \/ Home(q) = d /\ proc[e].id = id
        BY DEF IInv, PeersInv, Trusted
    <2> QED BY <2>1 DEF Exchange, SessionKey
<1>3. EnterNotAlone
    BY DEF EnterNotAlone, IInv, ProcInv, EnterInv
<1> QED BY <1>1, <1>2, <1>3 DEF TrustInv

\* For any devices, commands, PINs typed right or wrong, lost answers and
\* interrupted commands: a pinned peer was pinned over a PIN that a user carried
\* between the two devices, in the one exchange that the showing side took up,
\* and the entering side pins only who has accepted it (run_show_side,
\* run_enter_side, persist_paired; pairing.rs:118-335).
THEOREM TrustByPin == Spec => []TrustInv
<1> QED BY InitInv, StepInv, IInvTrust, PTL DEF Spec
-----------------------------------------------------------------------------
(* What the users were told.  With one command at a time on a device, the   *)
(* list a command has loaded is the list it replaces, and the identity it   *)
(* pairs under is the one the device has.                                   *)

Working == {"ready", "await_spake", "await_ack", "await_identity", "await_identity_ack",
            "load_peers", "save_peers"}

OneAtATime == \A p, q \in Procs : Home(p) = Home(q) /\ Active(p) /\ Active(q) => p = q

Distinct(records) == \A i, j \in DOMAIN records : records[i].id = records[j].id => i = j

\* Of a process in state s on device d, whose files hold k and records.
InStep(s, d, k, records) ==
    /\ s.at = "save_peers" => s.loaded = records
    /\ s.kind \in {"show", "enter"} =>
          /\ s.at = "write_key" => k = NoKey
          /\ s.at \in Working => s.id = k
    /\ s.kind = "rotate" => s.id[1] = d

SInv ==
    /\ OneAtATime
    /\ ReportsHold
    /\ PinsUnderCurrentKey
    /\ \A d \in Devices : key[d] = NoKey => peers[d] = <<>>
    /\ \A p \in Procs : InStep(proc[p], Home(p), key[Home(p)], peers[Home(p)])

\* x has at most got an answer.
Same(x) ==
    /\ proc'[x].at = proc[x].at /\ proc'[x].kind = proc[x].kind
    /\ proc'[x].id = proc[x].id /\ proc'[x].loaded = proc[x].loaded

Alone(p) == Active(p) \/ \A q \in Procs \ {p} : Home(q) = Home(p) => ~ Active(q)

\* p takes a step on its device.
LEMMA OneMoves ==
    ASSUME IInv, SInv, NEW p \in Procs, NEW h \in Devices, h = Home(p), Alone(p),
           \A x \in Procs \ {p} : Same(x),
           \A d \in Devices \ {h} :
               key'[d] = key[d] /\ peers'[d] = peers[d] /\ expect'[d] = expect[d],
           InStep(proc'[p], h, key'[h], peers'[h]),
           Ids(peers'[h]) = expect'[h], Distinct(peers'[h]),
           key'[h] = NoKey => peers'[h] = <<>>,
           RotationTorn(h)' \/ \A i \in DOMAIN peers'[h] : peers'[h][i].mine = key'[h]
    PROVE  SInv'
<1>1. \A x \in Procs \ {p} : Active(x)' <=> Active(x)
    BY DEF Same, Active
<1>2. \A q \in Procs \ {p} : Home(q) = h => ~ Active(q)
    BY DEF Alone, SInv, OneAtATime
<1>3. OneAtATime'
    <2> SUFFICES ASSUME NEW x \in Procs, NEW y \in Procs, Home(x) = Home(y), Active(x)', Active(y)', x # y
                 PROVE  FALSE
        BY DEF OneAtATime, Home
    <2>1. CASE x = p
        BY <1>1, <1>2, <2>1
    <2>2. CASE y = p
        BY <1>1, <1>2, <2>2
    <2>3. CASE x # p /\ y # p
        BY <1>1, <2>3 DEF SInv, OneAtATime
    <2> QED BY <2>1, <2>2, <2>3
<1>4. ReportsHold'
    <2> SUFFICES ASSUME NEW d \in Devices
                 PROVE  Ids(peers'[d]) = expect'[d] /\ Distinct(peers'[d])
        BY DEF ReportsHold, Ids, Distinct
    <2>1. CASE d # h
        BY <2>1 DEF SInv, ReportsHold, Distinct
    <2>2. CASE d = h
        BY <2>2
    <2> QED BY <2>1, <2>2
<1>5. \A d \in Devices : key'[d] = NoKey => peers'[d] = <<>>
    BY DEF SInv
<1>6. PinsUnderCurrentKey'
    <2> SUFFICES ASSUME NEW d \in Devices, ~ RotationTorn(d)', NEW i \in DOMAIN peers'[d]
                 PROVE  peers'[d][i].mine = key'[d]
        BY DEF PinsUnderCurrentKey, RotationTorn
    <2>1. CASE d = h
        BY <2>1
    <2>2. CASE d # h
        <3>1. key[d] # NoKey /\ peers'[d] = peers[d] /\ key'[d] = key[d]
            BY <2>2 DEF SInv
        <3>2. ASSUME RotationTorn(d) PROVE FALSE
            <4>1. PICK x \in Procs : proc[x].kind = "rotate" /\ proc[x].id = key[d] /\ proc[x].at # "done"
                BY <3>2 DEF RotationTorn
            <4>2. key[d][1] = d
                BY <3>1 DEF IInv, Shape, Files
            <4>3. proc[x].id[1] = Home(x)
                BY <4>1 DEF SInv, InStep
            <4>4. x # p
                BY <2>2, <4>1, <4>2, <4>3
            <4>5. Same(x)
                BY <4>4
            <4> QED BY <3>1, <4>1, <4>5 DEF RotationTorn, Same
        <3> QED BY <3>1, <3>2 DEF SInv, PinsUnderCurrentKey
    <2> QED BY <2>1, <2>2
<1>7. \A x \in Procs : InStep(proc'[x], Home(x), key'[Home(x)], peers'[Home(x)])
    <2> SUFFICES ASSUME NEW x \in Procs \ {p}
                 PROVE  InStep(proc'[x], Home(x), key'[Home(x)], peers'[Home(x)])
        OBVIOUS
    <2>1. InStep(proc[x], Home(x), key[Home(x)], peers[Home(x)]) /\ Same(x) /\ Home(x) \in Devices
        BY ProcShape DEF SInv
    <2>2. CASE Home(x) # h
        BY <2>1, <2>2 DEF InStep, Same
    <2>3. CASE Home(x) = h
        <3>1. proc[x].at \in Ended
            BY <1>2, <2>3 DEF Active
        <3>2. proc'[x].at \notin Working /\ proc'[x].at # "write_key"
            BY <2>1, <3>1 DEF Same, Ended, Working
        <3> QED BY <2>1, <3>2 DEF InStep, Same, Working
    <2> QED BY <2>2, <2>3
<1>8. \A x \in Procs : InStep(proc[x], Home(x), key[Home(x)], peers[Home(x)])'
    BY <1>7 DEF Home, InStep
<1> QED BY <1>3, <1>4, <1>5, <1>6, <1>8 DEF SInv

\* p takes a step that changes no file; a rotation that has begun stays begun.
LEMMA FilesKept ==
    ASSUME IInv, SInv, NEW p \in Procs, NEW h \in Devices, h = Home(p), Alone(p),
           \A x \in Procs \ {p} : Same(x), UNCHANGED <<key, peers, expect>>,
           InStep(proc'[p], h, key[h], peers[h]),
           proc[p].kind = "rotate" =>
               proc'[p].kind = "rotate" /\ proc'[p].id = proc[p].id /\ proc'[p].at # "done"
    PROVE  SInv'
<1>1. Ids(peers'[h]) = expect'[h] /\ Distinct(peers'[h])
    BY DEF SInv, ReportsHold, Distinct
<1>2. key'[h] = NoKey => peers'[h] = <<>>
    BY DEF SInv
<1>3. RotationTorn(h)' \/ \A i \in DOMAIN peers'[h] : peers'[h][i].mine = key'[h]
    <2>1. CASE RotationTorn(h)
        <3>1. PICK x \in Procs : proc[x].kind = "rotate" /\ proc[x].id = key[h] /\ proc[x].at # "done"
            BY <2>1 DEF RotationTorn
        <3>2. proc'[x].kind = "rotate" /\ proc'[x].id = key'[h] /\ proc'[x].at # "done"
            BY <3>1 DEF Same
        <3>3. \E y \in Procs : proc'[y].kind = "rotate" /\ proc'[y].id = key'[h] /\ proc'[y].at # "done"
            BY <3>2
        <3> QED BY <3>3 DEF RotationTorn
    <2>2. CASE ~ RotationTorn(h)
        BY <2>2 DEF SInv, PinsUnderCurrentKey
    <2> QED BY <2>1, <2>2
<1>4. \A d \in Devices \ {h} :
          key'[d] = key[d] /\ peers'[d] = peers[d] /\ expect'[d] = expect[d]
    OBVIOUS
<1>5. InStep(proc'[p], h, key'[h], peers'[h])
    OBVIOUS
<1> QED BY <1>1, <1>2, <1>3, <1>4, <1>5, OneMoves
\* A command goes on to a stage before its save, or ends.
LEMMA GoesOn ==
    ASSUME IInv, SInv, NEW p \in Procs, Active(p),
           \A x \in Procs \ {p} : Same(x), UNCHANGED <<key, peers, expect>>,
           proc'[p].kind = proc[p].kind, proc'[p].id = proc[p].id,
           \/ proc'[p].at = "failed"
           \/ proc[p].at \in Working /\ proc'[p].at \in Working \ {"save_peers"}
    PROVE  SInv'
<1>1. PICK h \in Devices : h = Home(p)
    BY ProcShape
<1>2. InStep(proc[p], h, key[h], peers[h])
    BY <1>1 DEF SInv
<1>3. InStep(proc'[p], h, key[h], peers[h])
    BY <1>2 DEF InStep, Working
<1>4. proc'[p].at # "done" /\ Alone(p)
    BY DEF Working, Alone
<1> QED BY <1>1, <1>3, <1>4, FilesKept

LEMMA StartPairTells ==
    ASSUME IInv, SInv, Serial, NEW p \in Procs, StartPair(p)
    PROVE  SInv'
<1>1. PICK h \in Devices : h = Home(p)
    BY ProcShape
<1>2. PICK kind \in {"show", "enter"} :
          proc' = [proc EXCEPT ![p].kind = kind, ![p].at = "identity"]
    BY DEF StartPair
<1>3. proc \in [Procs -> ProcType] /\ StageInv(p) /\ proc[p].at = "off" /\ Alone(p)
    BY DEF StartPair, MayStart, IInv, ProcInv, Shape, Alone
<1>4. proc'[p].kind = kind /\ proc'[p].at = "identity"
    BY <1>2, <1>3 DEF ProcType
<1>5. \A x \in Procs \ {p} : Same(x)
    BY <1>2, <1>3 DEF Same
<1>6. InStep(proc'[p], h, key[h], peers[h])
    BY <1>4 DEF InStep, Working
<1>7. proc[p].kind = "none"
    BY <1>3 DEF StageInv, StageOf
<1>8. UNCHANGED <<key, peers, expect>>
    BY DEF StartPair
<1> QED BY <1>1, <1>3, <1>5, <1>6, <1>7, <1>8, FilesKept

LEMMA StartRemoveTells ==
    ASSUME IInv, SInv, Serial, NEW p \in Procs, StartRemove(p)
    PROVE  SInv'
<1>1. PICK h \in Devices : h = Home(p)
    BY ProcShape
<1>2. PICK name :
          proc' = [proc EXCEPT ![p].kind = "rm", ![p].at = "load_peers", ![p].name = name]
    BY DEF StartRemove
<1>3. proc \in [Procs -> ProcType] /\ StageInv(p) /\ proc[p].at = "off" /\ Alone(p)
    BY DEF StartRemove, MayStart, IInv, ProcInv, Shape, Alone
<1>4. proc'[p].kind = "rm" /\ proc'[p].at = "load_peers"
    BY <1>2, <1>3 DEF ProcType
<1>5. \A x \in Procs \ {p} : Same(x)
    BY <1>2, <1>3 DEF Same
<1>6. InStep(proc'[p], h, key[h], peers[h])
    BY <1>4 DEF InStep
<1>7. proc[p].kind = "none"
    BY <1>3 DEF StageInv, StageOf
<1>8. UNCHANGED <<key, peers, expect>>
    BY DEF StartRemove
<1> QED BY <1>1, <1>3, <1>5, <1>6, <1>7, <1>8, FilesKept

LEMMA StartRotateTells ==
    ASSUME IInv, SInv, Serial, NEW p \in Procs, StartRotate(p)
    PROVE  SInv'
<1>1. PICK h \in Devices : h = Home(p)
    BY ProcShape
<1>2. PICK id : id = <<h, minted[h] + 1>>
    OBVIOUS
<1>3. proc' = [proc EXCEPT ![p].kind = "rotate", ![p].at = "write_key", ![p].id = id]
    BY <1>1, <1>2 DEF StartRotate
<1>4. proc \in [Procs -> ProcType] /\ StageInv(p) /\ proc[p].at = "off" /\ Alone(p)
    BY DEF StartRotate, MayStart, IInv, ProcInv, Shape, Alone
<1>5. proc'[p].kind = "rotate" /\ proc'[p].at = "write_key" /\ proc'[p].id = id
    BY <1>3, <1>4 DEF ProcType
<1>6. \A x \in Procs \ {p} : Same(x)
    BY <1>3, <1>4 DEF Same
<1>7. InStep(proc'[p], h, key[h], peers[h])
    BY <1>2, <1>5 DEF InStep
<1>8. proc[p].kind = "none"
    BY <1>4 DEF StageInv, StageOf
<1>9. UNCHANGED <<key, peers, expect>>
    BY DEF StartRotate
<1> QED BY <1>1, <1>4, <1>6, <1>7, <1>8, <1>9, FilesKept

\* A command pairs under the identity of its device; it makes one only if
\* there is none.
LEMMA LoadIdentityTells ==
    ASSUME IInv, SInv, NEW p \in Procs, LoadIdentity(p)
    PROVE  SInv'
<1>1. PICK h \in Devices : h = Home(p)
    BY ProcShape
<1>2. PICK id, at :
          /\ proc' = [proc EXCEPT ![p].id = id, ![p].at = at]
          /\ \/ key[h] # NoKey /\ id = key[h] /\ at = "ready"
             \/ key[h] = NoKey /\ at = "write_key"
    <2>1. PICK new : new = <<h, minted[h] + 1>>
        OBVIOUS
    <2>2. \/ key[h] # NoKey /\ proc' = [proc EXCEPT ![p].id = key[h], ![p].at = "ready"]
          \/ key[h] = NoKey /\ proc' = [proc EXCEPT ![p].id = new, ![p].at = "write_key"]
        BY <1>1, <2>1 DEF LoadIdentity
    <2> QED BY <2>2
<1>3. proc \in [Procs -> ProcType] /\ StageInv(p) /\ proc[p].at = "identity"
    BY DEF LoadIdentity, IInv, ProcInv, Shape
<1>4. proc[p].kind \in {"show", "enter"} /\ Alone(p)
    BY <1>3 DEF StageInv, StageOf, Alone, Active, Ended
<1>5. proc'[p].kind = proc[p].kind /\ proc'[p].at = at /\ proc'[p].id = id
    BY <1>2, <1>3 DEF ProcType
<1>6. \A x \in Procs \ {p} : Same(x)
    BY <1>2, <1>3 DEF Same
<1>7. InStep(proc'[p], h, key[h], peers[h])
    BY <1>2, <1>4, <1>5 DEF InStep, Working
<1>8. UNCHANGED <<key, peers, expect>>
    BY DEF LoadIdentity
<1> QED BY <1>1, <1>4, <1>6, <1>7, <1>8, FilesKept

\* A new key leaves no pin of an old one, except those of a rotation.
LEMMA WriteKeyTells ==
    ASSUME IInv, SInv, NEW p \in Procs, WriteKey(p)
    PROVE  SInv'
<1>1. PICK h \in Devices : h = Home(p)
    BY ProcShape
<1>2. PICK id, at :
          /\ id = proc[p].id /\ at = (IF proc[p].kind = "rotate" THEN "load_peers" ELSE "ready")
          /\ key' = [key EXCEPT ![h] = id] /\ proc' = [proc EXCEPT ![p].at = at]
    BY <1>1 DEF WriteKey, Become
<1>3. /\ proc \in [Procs -> ProcType] /\ StageInv(p) /\ proc[p].at = "write_key"
      /\ key \in [Devices -> IdType \cup {NoKey}]
    BY DEF WriteKey, IInv, ProcInv, Shape, Files
<1>4. id # NoKey /\ proc[p].kind \in {"show", "enter", "rotate"} /\ Alone(p)
    BY <1>2, <1>3 DEF StageInv, StageOf, Alone, Active, Ended
<1>5. proc'[p].kind = proc[p].kind /\ proc'[p].at = at /\ proc'[p].id = id
    BY <1>2, <1>3 DEF ProcType
<1>6. \A x \in Procs \ {p} : Same(x)
    BY <1>2, <1>3 DEF Same
<1>7. key'[h] = id /\ \A d \in Devices \ {h} : key'[d] = key[d]
    BY <1>2, <1>3
<1>8. peers' = peers /\ expect' = expect
    BY DEF WriteKey
<1>9. InStep(proc[p], h, key[h], peers[h])
    BY <1>1 DEF SInv
<1>10. InStep(proc'[p], h, key'[h], peers'[h])
    BY <1>2, <1>4, <1>5, <1>7, <1>9 DEF InStep, Working
<1>11. RotationTorn(h)' \/ \A i \in DOMAIN peers'[h] : peers'[h][i].mine = key'[h]
    <2>1. CASE proc[p].kind = "rotate"
        <3>1. proc'[p].kind = "rotate" /\ proc'[p].id = key'[h] /\ proc'[p].at # "done"
            BY <1>2, <1>5, <1>7, <2>1
        <3> QED BY <3>1 DEF RotationTorn
    <2>2. CASE proc[p].kind # "rotate"
        <3>1. key[h] = NoKey
            BY <1>3, <1>4, <1>9, <2>2 DEF InStep
        <3>2. peers'[h] = <<>>
            BY <1>8, <3>1 DEF SInv
        <3> QED BY <3>2
    <2> QED BY <2>1, <2>2
<1>12. Ids(peers'[h]) = expect'[h] /\ Distinct(peers'[h])
    BY <1>8 DEF SInv, ReportsHold, Distinct
<1> QED BY <1>1, <1>4, <1>6, <1>7, <1>8, <1>10, <1>11, <1>12, OneMoves
\* A command that waits for the other device takes the answer, gives one, or both.
LEMMA AnsweringGoesOn ==
    ASSUME IInv, SInv, NEW p \in Procs, proc[p].at \in Working, UNCHANGED <<key, peers, expect>>,
           NEW r \in ProcType, r.kind = proc[p].kind, r.id = proc[p].id,
           r.at \in Working \ {"save_peers"}, NEW e, NEW reply,
           NEW moved, moved = [proc EXCEPT ![p] = r],
           proc' = moved \/ proc' = [moved EXCEPT ![e].reply = reply]
    PROVE  SInv'
<1>1. proc \in [Procs -> ProcType]
    BY DEF IInv, Shape
<1>2. Active(p)
    BY DEF Active, Working, Ended
<1>3. proc'[p].kind = r.kind /\ proc'[p].id = r.id /\ proc'[p].at = r.at
          /\ \A x \in Procs \ {p} : Same(x)
    <2>1. moved \in [Procs -> ProcType] /\ moved[p] = r
              /\ \A x \in Procs \ {p} : moved[x] = proc[x]
        BY <1>1
    <2>2. \A x \in Procs : /\ proc'[x].at = moved[x].at /\ proc'[x].kind = moved[x].kind
                           /\ proc'[x].id = moved[x].id /\ proc'[x].loaded = moved[x].loaded
        <3> SUFFICES ASSUME NEW x \in Procs
                     PROVE  /\ proc'[x].at = moved[x].at /\ proc'[x].kind = moved[x].kind
                            /\ proc'[x].id = moved[x].id /\ proc'[x].loaded = moved[x].loaded
            OBVIOUS
        <3>1. moved[x] \in ProcType
            BY <2>1
        <3>2. proc'[x] = moved[x] \/ proc'[x] = [moved[x] EXCEPT !.reply = reply]
            BY <2>1
        <3> QED BY <3>1, <3>2 DEF ProcType
    <2> QED BY <2>1, <2>2 DEF Same
<1> QED BY <1>2, <1>3, GoesOn

LEMMA ShowPinTells ==
    ASSUME IInv, SInv, NEW p \in Procs, ShowPin(p)
    PROVE  SInv'
<1>1. PICK r : r = [proc[p] EXCEPT !.pin = p, !.at = "await_spake"]
    OBVIOUS
<1>2. proc \in [Procs -> ProcType] /\ proc[p].at \in Working
    BY DEF IInv, Shape, ShowPin, Working
<1>3. proc' = [proc EXCEPT ![p] = r]
    BY <1>1, <1>2 DEF ShowPin
<1>4. r \in ProcType /\ r.kind = proc[p].kind /\ r.id = proc[p].id
          /\ r.at \in Working \ {"save_peers"}
    BY <1>1, <1>2 DEF ProcType, Stages, Working
<1>5. UNCHANGED <<key, peers, expect>>
    BY DEF ShowPin
<1> QED BY <1>2, <1>3, <1>4, <1>5, AnsweringGoesOn

LEMMA SendSpakeTells ==
    ASSUME IInv, SInv, NEW p \in Procs, SendSpake(p)
    PROVE  SInv'
<1>1. PICK q \in Procs, pin \in Procs \cup {Wrong} :
          proc' = [proc EXCEPT ![p].pin = pin, ![p].target = q, ![p].at = "await_ack"]
    <2>1. PICK q \in Procs, typed \in {"right", "wrong"} :
              proc' = [proc EXCEPT ![p].pin = IF typed = "right" THEN q ELSE Wrong,
                                   ![p].target = q, ![p].at = "await_ack"]
        BY DEF SendSpake
    <2> QED BY <2>1
<1>2. PICK r : r = [proc[p] EXCEPT !.pin = pin, !.target = q, !.at = "await_ack"]
    OBVIOUS
<1>3. proc \in [Procs -> ProcType] /\ proc[p] \in ProcType /\ proc[p].at \in Working
    BY DEF IInv, Shape, SendSpake, Working
<1>4. proc' = [proc EXCEPT ![p] = r]
    BY <1>1, <1>2, <1>3
<1>5. r \in ProcType /\ r.kind = proc[p].kind /\ r.id = proc[p].id
          /\ r.at \in Working \ {"save_peers"}
    BY <1>2, <1>3 DEF ProcType, Stages, Working
<1>6. UNCHANGED <<key, peers, expect>>
    BY DEF SendSpake
<1> QED BY <1>3, <1>4, <1>5, <1>6, AnsweringGoesOn

LEMMA TakeSpakeTells ==
    ASSUME IInv, SInv, NEW q \in Procs, TakeSpake(q)
    PROVE  SInv'
<1>1. PICK m : m = Head(inbox[q])
    OBVIOUS
<1>2. proc \in [Procs -> ProcType] /\ proc[q] \in ProcType
          /\ proc[q].at \in Working /\ proc[q].pin = q /\ Active(q)
    BY DEF IInv, ProcInv, StageInv, StageOf, Shape, TakeSpake, Working, Active, Ended
<1>3. UNCHANGED <<key, peers, expect>>
    BY DEF TakeSpake
<1>4. CASE m.body # "spake"
    <2>1. proc' = [proc EXCEPT ![q].at = "failed"]
        BY <1>1, <1>4 DEF TakeSpake
    <2>2. proc'[q].kind = proc[q].kind /\ proc'[q].id = proc[q].id /\ proc'[q].at = "failed"
              /\ \A x \in Procs \ {q} : Same(x)
        BY <1>2, <2>1 DEF ProcType, Same
    <2> QED BY <1>2, <1>3, <2>2, GoesOn
<1>5. CASE m.body = "spake"
    <2>1. PICK e \in Procs : e = m.from
        <3>1. m \in Message
            BY <1>1, Receiving DEF TakeSpake
        <3> QED BY <3>1 DEF Message
    <2>2. PICK k, reply : k = <<q, e, q>> /\ reply = [tag |-> Tag("show", k)]
        OBVIOUS
    <2>3. PICK r : r = [proc[q] EXCEPT !.session = k, !.at = "await_identity"]
        OBVIOUS
    <2>4. PICK acked : acked = [proc EXCEPT ![q].session = k, ![q].at = "await_identity"]
        OBVIOUS
    <2>5. proc' = acked \/ proc' = [acked EXCEPT ![e].reply = reply]
        BY <1>1, <1>2, <1>5, <2>1, <2>2, <2>4 DEF TakeSpake, SessionKey
    <2>6. acked = [proc EXCEPT ![q] = r]
        BY <1>2, <2>3, <2>4
    <2>7. k \in Keyed
        BY <2>2 DEF Keyed
    <2>8. r \in ProcType /\ r.kind = proc[q].kind /\ r.id = proc[q].id
              /\ r.at \in Working \ {"save_peers"}
        BY <1>2, <2>3, <2>7 DEF ProcType, Stages, Working
    <2>9. proc[q].at \in Working
        BY <1>2
    <2>10. UNCHANGED <<key, peers, expect>> /\ r \in ProcType
        BY <1>3, <2>8
    <2>11. r.kind = proc[q].kind /\ r.id = proc[q].id /\ r.at \in Working \ {"save_peers"}
        BY <2>8
    <2>12. CASE proc' = acked
        BY <2>6, <2>9, <2>10, <2>11, <2>12, AnsweringGoesOn
    <2>13. CASE proc' = [acked EXCEPT ![e].reply = reply]
        BY <2>6, <2>9, <2>10, <2>11, <2>13, AnsweringGoesOn
    <2> QED BY <2>5, <2>12, <2>13
<1> QED BY <1>4, <1>5
LEMMA EndsTells ==
    ASSUME IInv, SInv, NEW p \in Procs, Active(p), Become(p, "failed"),
           UNCHANGED <<key, peers, expect>>
    PROVE  SInv'
<1>1. proc \in [Procs -> ProcType] /\ proc[p] \in ProcType
    BY DEF IInv, Shape
<1>2. proc' = [proc EXCEPT ![p].at = "failed"]
    BY DEF Become
<1>3. proc'[p].kind = proc[p].kind /\ proc'[p].id = proc[p].id /\ proc'[p].at = "failed"
          /\ \A x \in Procs \ {p} : Same(x)
    BY <1>1, <1>2 DEF ProcType, Same
<1> QED BY <1>3, GoesOn

LEMMA TakeAckTells ==
    ASSUME IInv, SInv, NEW p \in Procs, TakeAck(p)
    PROVE  SInv'
<1>1. PICK q : q = proc[p].target
    OBVIOUS
<1>2. proc \in [Procs -> ProcType] /\ proc[p] \in ProcType /\ ProcInv(p)
          /\ proc[p].at = "await_ack" /\ proc[p].reply # Nobody
    BY DEF IInv, Shape, TakeAck
<1>3. UNCHANGED <<key, peers, expect>>
    BY DEF TakeAck
<1>4. PICK k : k = <<proc[p].pin, p, q>>
    OBVIOUS
<1>5. \/ Become(p, "failed")
      \/ proc' = [proc EXCEPT ![p].session = k, ![p].reply = Nobody, ![p].at = "await_identity_ack"]
    BY <1>1, <1>4 DEF TakeAck, SessionKey
<1>6. proc[p].at \in Working /\ Active(p)
    BY <1>2 DEF Working, Active, Ended
<1>7. CASE Become(p, "failed")
    BY <1>3, <1>6, <1>7, EndsTells
<1>8. CASE proc' = [proc EXCEPT ![p].session = k, ![p].reply = Nobody, ![p].at = "await_identity_ack"]
    <2>1. proc'[p].kind = proc[p].kind /\ proc'[p].id = proc[p].id
              /\ proc'[p].at = "await_identity_ack" /\ \A x \in Procs \ {p} : Same(x)
        BY <1>2, <1>8 DEF ProcType, Same
    <2>2. proc'[p].at \in Working \ {"save_peers"}
        BY <2>1 DEF Working
    <2> QED BY <1>3, <1>6, <2>1, <2>2, GoesOn
<1> QED BY <1>5, <1>7, <1>8

LEMMA TakeIdentityTells ==
    ASSUME IInv, SInv, NEW q \in Procs, TakeIdentity(q)
    PROVE  SInv'
<1>1. PICK m : m = Head(inbox[q])
    OBVIOUS
<1>2. proc \in [Procs -> ProcType] /\ proc[q] \in ProcType /\ proc[q].at = "await_identity"
    BY DEF IInv, Shape, TakeIdentity
<1>3. UNCHANGED <<key, peers, expect>>
    BY DEF TakeIdentity
<1>4. proc[q].at \in Working /\ Active(q)
    BY <1>2 DEF Working, Active, Ended
<1>5. CASE ~ (m.body = "identity" /\ m.tag = Tag("enter", proc[q].session))
    <2>1. Become(q, "failed")
        BY <1>1, <1>5 DEF TakeIdentity, Become
    <2> QED BY <1>3, <1>4, <2>1, EndsTells
<1>6. CASE m.body = "identity" /\ m.tag = Tag("enter", proc[q].session)
    <2>1. PICK e, reply : e = m.from /\ reply = [id |-> proc[q].id]
        OBVIOUS
    <2>2. m.id \in IdType
        <3>1. m \in Message
            BY <1>1, Receiving DEF TakeIdentity
        <3> QED BY <1>6, <3>1 DEF Message
    <2>3. PICK r : r = [proc[q] EXCEPT !.partner = m.id, !.at = "load_peers"]
        OBVIOUS
    <2>4. PICK accepted : accepted = [proc EXCEPT ![q].partner = m.id, ![q].at = "load_peers"]
        OBVIOUS
    <2>5. proc' = accepted \/ proc' = [accepted EXCEPT ![e].reply = reply]
        BY <1>1, <1>6, <2>1, <2>4 DEF TakeIdentity, Identified
    <2>6. accepted = [proc EXCEPT ![q] = r]
        BY <1>2, <2>3, <2>4
    <2>7. r \in ProcType /\ UNCHANGED <<key, peers, expect>>
        BY <1>2, <1>3, <2>2, <2>3 DEF ProcType, Stages
    <2>8. r.kind = proc[q].kind /\ r.id = proc[q].id /\ r.at \in Working \ {"save_peers"}
        BY <1>2, <2>3 DEF ProcType, Working
    <2>9. proc[q].at \in Working
        BY <1>4
    <2>10. CASE proc' = accepted
        BY <2>6, <2>7, <2>8, <2>9, <2>10, AnsweringGoesOn
    <2>11. CASE proc' = [accepted EXCEPT ![e].reply = reply]
        BY <2>6, <2>7, <2>8, <2>9, <2>11, AnsweringGoesOn
    <2> QED BY <2>5, <2>10, <2>11
<1> QED BY <1>5, <1>6

LEMMA TakeIdentityAckTells ==
    ASSUME IInv, SInv, NEW p \in Procs, TakeIdentityAck(p)
    PROVE  SInv'
<1>1. proc \in [Procs -> ProcType] /\ proc[p] \in ProcType /\ proc[p].at = "await_identity_ack"
    BY DEF IInv, Shape, TakeIdentityAck
<1>2. PICK id : proc' = [proc EXCEPT ![p].partner = id, ![p].reply = Nobody, ![p].at = "load_peers"]
    BY DEF TakeIdentityAck
<1>3. proc[p].at \in Working /\ Active(p)
    BY <1>1 DEF Working, Active, Ended
<1>4. proc'[p].kind = proc[p].kind /\ proc'[p].id = proc[p].id
          /\ proc'[p].at = "load_peers" /\ \A x \in Procs \ {p} : Same(x)
    BY <1>1, <1>2 DEF ProcType, Same
<1>5. proc'[p].at \in Working \ {"save_peers"}
    BY <1>4 DEF Working
<1>6. UNCHANGED <<key, peers, expect>>
    BY DEF TakeIdentityAck
<1> QED BY <1>3, <1>4, <1>5, <1>6, GoesOn

LEMMA LoadPeersTells ==
    ASSUME IInv, SInv, NEW p \in Procs, LoadPeers(p)
    PROVE  SInv'
<1>1. PICK h \in Devices : h = Home(p)
    BY ProcShape
<1>2. PICK records : records = peers[h]
    OBVIOUS
<1>3. proc' = [proc EXCEPT ![p].loaded = records, ![p].at = "save_peers"]
    BY <1>1, <1>2 DEF LoadPeers
<1>4. proc \in [Procs -> ProcType] /\ proc[p] \in ProcType /\ proc[p].at = "load_peers"
    BY DEF IInv, Shape, LoadPeers
<1>5. Alone(p) /\ InStep(proc[p], h, key[h], peers[h])
    BY <1>1, <1>4 DEF Alone, Active, Ended, SInv
<1>6. proc'[p].kind = proc[p].kind /\ proc'[p].id = proc[p].id /\ proc'[p].loaded = records
          /\ proc'[p].at = "save_peers" /\ \A x \in Procs \ {p} : Same(x)
    BY <1>3, <1>4 DEF ProcType, Same
<1>7. InStep(proc'[p], h, key[h], peers[h])
    BY <1>2, <1>4, <1>5, <1>6 DEF InStep, Working
<1>8. UNCHANGED <<key, peers, expect>>
    BY DEF LoadPeers
<1> QED BY <1>1, <1>5, <1>6, <1>7, <1>8, FilesKept
\* The record of a peer takes the place of an older one.
LEMMA UpsertReplaces ==
    ASSUME NEW records \in Seq(RecordType), NEW r \in RecordType, Distinct(records)
    PROVE  /\ Ids(Upsert(records, r)) = Ids(records) \cup {r.id}
           /\ Distinct(Upsert(records, r))
           /\ \A i \in DOMAIN Upsert(records, r) :
                  \/ Upsert(records, r)[i] = r
                  \/ i \in DOMAIN records /\ Upsert(records, r)[i] = records[i]
<1>1. CASE r.id \in Ids(records)
    <2>1. PICK k \in DOMAIN records : records[k].id = r.id
        BY <1>1 DEF Ids
    <2>2. {n \in DOMAIN records : records[n].id = r.id} = {k}
        BY <2>1 DEF Distinct
    <2>3. Min({k}) = k
        <3>1. k \in Nat
            OBVIOUS
        <3> QED BY <3>1 DEF Min
    <2>4. PICK new : new = [records EXCEPT ![k] = r]
        OBVIOUS
    <2>5. Upsert(records, r) = new
        BY <1>1, <2>2, <2>3, <2>4 DEF Upsert
    <2>6. DOMAIN new = DOMAIN records /\ new[k] = r
              /\ \A i \in DOMAIN records : i # k => new[i] = records[i]
        BY <2>1, <2>4
    <2>7. \A i \in DOMAIN records : new[i].id = records[i].id
        BY <2>1, <2>6
    <2>8. Ids(new) = Ids(records) /\ Distinct(new)
        BY <2>6, <2>7 DEF Ids, Distinct
    <2>9. Ids(records) = Ids(records) \cup {r.id}
        BY <1>1
    <2> QED BY <2>5, <2>6, <2>8, <2>9
<1>2. CASE r.id \notin Ids(records)
    <2>1. PICK new : new = Append(records, r)
        OBVIOUS
    <2>2. Upsert(records, r) = new
        BY <1>2, <2>1 DEF Upsert
    <2>3. PICK n \in Nat : n = Len(records)
        OBVIOUS
    <2>4. DOMAIN records = 1..n /\ DOMAIN new = 1..(n + 1) /\ new[n + 1] = r
              /\ \A i \in 1..n : new[i] = records[i]
        BY <2>1, <2>3
    <2>5. Ids(new) = Ids(records) \cup {r.id}
        <3>1. ASSUME NEW id \in Ids(new) PROVE id \in Ids(records) \cup {r.id}
            <4>1. PICK i \in 1..(n + 1) : id = new[i].id
                BY <2>4, <3>1 DEF Ids
            <4>2. i = n + 1 \/ i \in 1..n
                OBVIOUS
            <4> QED BY <2>4, <4>1, <4>2 DEF Ids
        <3>2. ASSUME NEW id \in Ids(records) PROVE id \in Ids(new)
            <4>1. PICK i \in 1..n : id = records[i].id
                BY <2>4, <3>2 DEF Ids
            <4>2. i \in 1..(n + 1) /\ new[i].id = id
                BY <2>4, <4>1
            <4> QED BY <2>4, <4>2 DEF Ids
        <3>3. n + 1 \in 1..(n + 1)
            OBVIOUS
        <3>4. r.id \in Ids(new)
            BY <2>4, <3>3 DEF Ids
        <3> QED BY <3>1, <3>2, <3>4
    <2>6. Distinct(new)
        <3> SUFFICES ASSUME NEW i \in 1..(n + 1), NEW j \in 1..(n + 1), new[i].id = new[j].id
                     PROVE  i = j
            BY <2>4 DEF Distinct
        <3>1. \A m \in 1..n : records[m].id # r.id
            BY <1>2, <2>4 DEF Ids
        <3>2. (i = n + 1 \/ i \in 1..n) /\ (j = n + 1 \/ j \in 1..n)
            OBVIOUS
        <3>3. i \in 1..n /\ j \in 1..n => i = j
            BY <2>4 DEF Distinct
        <3> QED BY <2>4, <3>1, <3>2, <3>3
    <2>7. \A i \in DOMAIN new : new[i] = r \/ (i \in DOMAIN records /\ new[i] = records[i])
        <3> SUFFICES ASSUME NEW i \in 1..(n + 1)
                     PROVE  new[i] = r \/ (i \in DOMAIN records /\ new[i] = records[i])
            BY <2>4
        <3>1. i = n + 1 \/ i \in 1..n
            OBVIOUS
        <3> QED BY <2>4, <3>1
    <2> QED BY <2>2, <2>5, <2>6, <2>7
<1> QED BY <1>1, <1>2

\* A record that is removed was the only one of its peer.
LEMMA RemoveAtForgets ==
    ASSUME NEW records \in Seq(RecordType), NEW i \in 1..Len(records), Distinct(records)
    PROVE  /\ Ids(RemoveAt(records, i)) = Ids(records) \ {records[i].id}
           /\ Distinct(RemoveAt(records, i))
           /\ \A j \in DOMAIN RemoveAt(records, i) :
                  \E k \in DOMAIN records : RemoveAt(records, i)[j] = records[k]
<1>1. PICK n \in Nat : n = Len(records)
    OBVIOUS
<1>2. PICK left : left = RemoveAt(records, i)
    OBVIOUS
<1>3. DOMAIN left = 1..(n - 1) /\ DOMAIN records = 1..n /\ i \in 1..n
          /\ \A j \in 1..(n - 1) : left[j] = records[IF j < i THEN j ELSE j + 1]
    <2>1. left \in Seq(RecordType) /\ Len(left) = n - 1
        BY <1>1, <1>2, RemoveAtKeeps
    <2>2. \A j \in 1..(n - 1) : left[j] = records[IF j < i THEN j ELSE j + 1]
        BY <1>1, <1>2, RemoveAtKeeps
    <2> QED BY <1>1, <2>1, <2>2
<1>4. \A j \in 1..(n - 1) : (IF j < i THEN j ELSE j + 1) \in (1..n) \ {i}
    BY <1>3
<1>5. \A k \in (1..n) \ {i} : \E j \in 1..(n - 1) : k = IF j < i THEN j ELSE j + 1
    <2> SUFFICES ASSUME NEW k \in (1..n) \ {i}
                 PROVE  \E j \in 1..(n - 1) : k = IF j < i THEN j ELSE j + 1
        OBVIOUS
    <2>1. CASE k < i
        <3>1. k \in 1..(n - 1)
            BY <1>3, <2>1
        <3> QED BY <2>1, <3>1
    <2>2. CASE ~ (k < i)
        <3>1. k - 1 \in 1..(n - 1) /\ ~ (k - 1 < i) /\ k = (k - 1) + 1
            BY <1>3, <2>2
        <3> QED BY <3>1
    <2> QED BY <2>1, <2>2
<1>6. Distinct(left)
    <2> SUFFICES ASSUME NEW a \in 1..(n - 1), NEW b \in 1..(n - 1), left[a].id = left[b].id
                 PROVE  a = b
        BY <1>3 DEF Distinct
    <2>1. PICK x, y : x = (IF a < i THEN a ELSE a + 1) /\ y = (IF b < i THEN b ELSE b + 1)
        OBVIOUS
    <2>2. x \in 1..n /\ y \in 1..n /\ records[x].id = records[y].id
        BY <1>3, <1>4, <2>1
    <2>3. x = y
        BY <1>3, <2>2 DEF Distinct
    <2> QED BY <1>3, <2>1, <2>3
<1>7. Ids(left) = Ids(records) \ {records[i].id}
    <2>1. ASSUME NEW id \in Ids(left) PROVE id \in Ids(records) \ {records[i].id}
        <3>1. PICK j \in 1..(n - 1) : id = left[j].id
            BY <1>3, <2>1 DEF Ids
        <3>2. PICK k \in (1..n) \ {i} : left[j] = records[k]
            BY <1>3, <1>4
        <3>3. records[k].id # records[i].id
            BY <1>3, <3>2 DEF Distinct
        <3> QED BY <1>3, <3>1, <3>2, <3>3 DEF Ids
    <2>2. ASSUME NEW id \in Ids(records) \ {records[i].id} PROVE id \in Ids(left)
        <3>1. PICK k \in 1..n : id = records[k].id
            BY <1>3, <2>2 DEF Ids
        <3>2. k # i
            BY <2>2, <3>1
        <3>3. PICK j \in 1..(n - 1) : k = IF j < i THEN j ELSE j + 1
            BY <1>5, <3>2
        <3>4. left[j] = records[k]
            BY <1>3, <3>3
        <3> QED BY <1>3, <3>1, <3>4 DEF Ids
    <2> QED BY <2>1, <2>2
<1>8. \A j \in DOMAIN left : \E k \in DOMAIN records : left[j] = records[k]
    BY <1>3, <1>4
<1> QED BY <1>2, <1>6, <1>7, <1>8
\* What a command saves is what the device had, with the change it reports.
LEMMA SavePeersTells ==
    ASSUME IInv, SInv, NEW p \in Procs, SavePeers(p)
    PROVE  SInv'
<1>1. PICK h \in Devices : h = Home(p)
    BY ProcShape
<1>2. proc \in [Procs -> ProcType] /\ proc[p] \in ProcType /\ ProcInv(p)
          /\ proc[p].at = "save_peers" /\ Files
    BY DEF IInv, Shape, SavePeers
<1>3. Active(p) /\ Alone(p) /\ proc[p].at \in Working /\ InStep(proc[p], h, key[h], peers[h])
    BY <1>1, <1>2 DEF Alone, Active, Ended, Working, SInv
<1>4. PICK old \in Seq(RecordType) : old = peers[h]
    BY <1>2 DEF Files
<1>5. old = proc[p].loaded /\ Distinct(old) /\ Ids(old) = expect[h]
    BY <1>2, <1>3, <1>4 DEF InStep, SInv, ReportsHold, Distinct
<1>6. proc[p].kind \in {"show", "enter", "rm", "rotate"}
          /\ (proc[p].kind \in {"show", "enter"} => proc[p].partner # NoKey /\ proc[p].id # NoKey)
    BY <1>2 DEF ProcInv, StageInv, StageOf
<1>7. key' = key
    BY DEF SavePeers
<1>8. ASSUME NEW records, NEW told, peers' = [peers EXCEPT ![h] = records],
             expect' = [expect EXCEPT ![h] = told], Become(p, "done"),
             Ids(records) = told, Distinct(records), key[h] = NoKey => records = <<>>,
             RotationTorn(h)' \/ \A i \in DOMAIN records : records[i].mine = key[h]
      PROVE  SInv'
    <2>1. proc' = [proc EXCEPT ![p].at = "done"]
        BY <1>8 DEF Become
    <2>2. proc'[p].kind = proc[p].kind /\ proc'[p].id = proc[p].id /\ proc'[p].at = "done"
              /\ \A x \in Procs \ {p} : Same(x)
        BY <1>2, <2>1 DEF ProcType, Same
    <2>3. peers'[h] = records /\ expect'[h] = told
              /\ \A d \in Devices \ {h} :
                     key'[d] = key[d] /\ peers'[d] = peers[d] /\ expect'[d] = expect[d]
        BY <1>2, <1>7, <1>8 DEF Files
    <2>4. InStep(proc'[p], h, key'[h], peers'[h])
        BY <1>3, <1>7, <2>2 DEF InStep, Working
    <2>5. Ids(peers'[h]) = expect'[h] /\ Distinct(peers'[h])
        BY <1>8, <2>3
    <2>6. key'[h] = NoKey => peers'[h] = <<>>
        BY <1>7, <1>8, <2>3
    <2>7. RotationTorn(h)' \/ \A i \in DOMAIN peers'[h] : peers'[h][i].mine = key'[h]
        BY <1>7, <1>8, <2>3
    <2> QED BY <1>1, <1>3, <2>2, <2>3, <2>4, <2>5, <2>6, <2>7, OneMoves
<1>9. ASSUME proc[p].kind # "rotate", Become(p, "done"), RotationTorn(h)
      PROVE  RotationTorn(h)'
    <2>1. PICK x \in Procs : proc[x].kind = "rotate" /\ proc[x].id = key[h] /\ proc[x].at # "done"
        BY <1>9 DEF RotationTorn
    <2>2. proc'[x] = proc[x]
        BY <1>2, <1>9, <2>1 DEF Become
    <2> QED BY <1>7, <2>1, <2>2 DEF RotationTorn
<1>10. ~ RotationTorn(h) => \A i \in DOMAIN old : old[i].mine = key[h]
    BY <1>4 DEF SInv, PinsUnderCurrentKey
<1>11. key[h] = NoKey => old = <<>>
    BY <1>4 DEF SInv
<1>12. CASE proc[p].kind \in {"show", "enter"}
    <2>1. PICK partner, id : partner = proc[p].partner /\ id = proc[p].id
        OBVIOUS
    <2>2. partner \in IdType /\ id \in IdType /\ id = key[h]
        BY <1>2, <1>3, <1>6, <1>12, <2>1 DEF ProcType, InStep
    <2>3. PICK r : r = Record(partner, id)
        OBVIOUS
    <2>4. r \in RecordType /\ r.id = partner /\ r.mine = key[h]
        BY <2>2, <2>3, ProcShape DEF Record, RecordType
    <2>5. PICK records : records = Upsert(old, r)
        OBVIOUS
    <2>6. Ids(records) = Ids(old) \cup {r.id} /\ Distinct(records)
              /\ \A i \in DOMAIN records :
                     records[i] = r \/ (i \in DOMAIN old /\ records[i] = old[i])
        BY <1>5, <2>4, <2>5, UpsertReplaces
    <2>7. PICK told : told = expect[h] \cup {partner}
        OBVIOUS
    <2>8. peers' = [peers EXCEPT ![h] = records] /\ expect' = [expect EXCEPT ![h] = told]
              /\ Become(p, "done")
        BY <1>1, <1>2, <1>5, <1>12, <2>1, <2>3, <2>5, <2>7 DEF SavePeers
    <2>9. Ids(records) = told
        BY <1>5, <2>4, <2>6, <2>7
    <2>10. key[h] # NoKey
        BY <1>6, <1>12, <2>1, <2>2
    <2>11. RotationTorn(h)' \/ \A i \in DOMAIN records : records[i].mine = key[h]
        <3>1. CASE RotationTorn(h)
            BY <1>9, <1>12, <2>8, <3>1
        <3>2. CASE ~ RotationTorn(h)
            BY <1>10, <2>4, <2>6, <3>2
        <3> QED BY <3>1, <3>2
    <2> QED BY <1>8, <2>6, <2>8, <2>9, <2>10, <2>11
<1>13. CASE proc[p].kind = "rm"
    <2>1. PICK named : named = {i \in DOMAIN old : old[i].name = proc[p].name}
        OBVIOUS
    <2>2. CASE named # {}
        <3>1. PICK i \in named :
                  /\ peers' = [peers EXCEPT ![h] = RemoveAt(old, i)]
                  /\ expect' = [expect EXCEPT ![h] = expect[h] \ {old[i].id}]
                  /\ Become(p, "done")
            BY <1>1, <1>2, <1>5, <1>13, <2>1, <2>2 DEF SavePeers
        <3>2. i \in 1..Len(old)
            BY <2>1
        <3>3. PICK records : records = RemoveAt(old, i)
            OBVIOUS
        <3>4. Ids(records) = Ids(old) \ {old[i].id} /\ Distinct(records)
                  /\ \A j \in DOMAIN records : \E k \in DOMAIN old : records[j] = old[k]
            BY <1>5, <3>2, <3>3, RemoveAtForgets
        <3>5. PICK told : told = expect[h] \ {old[i].id}
            OBVIOUS
        <3>6. peers' = [peers EXCEPT ![h] = records] /\ expect' = [expect EXCEPT ![h] = told]
                  /\ Ids(records) = told
            BY <1>5, <3>1, <3>3, <3>4, <3>5
        <3>7. key[h] # NoKey
            BY <1>11, <3>2
        <3>8. RotationTorn(h)' \/ \A j \in DOMAIN records : records[j].mine = key[h]
            <4>1. CASE RotationTorn(h)
                BY <1>9, <1>13, <3>1, <4>1
            <4>2. CASE ~ RotationTorn(h)
                BY <1>10, <3>4, <4>2
            <4> QED BY <4>1, <4>2
        <3> QED BY <1>8, <3>1, <3>4, <3>6, <3>7, <3>8
    <2>3. CASE named = {}
        <3>1. Become(p, "failed") /\ UNCHANGED <<peers, expect>>
            BY <1>1, <1>2, <1>5, <1>13, <2>1, <2>3 DEF SavePeers
        <3> QED BY <1>3, <1>7, <3>1, EndsTells
    <2> QED BY <2>2, <2>3
<1>14. CASE proc[p].kind = "rotate"
    <2>1. PICK records, told : records = <<>> /\ told = {}
        OBVIOUS
    <2>2. peers' = [peers EXCEPT ![h] = records] /\ expect' = [expect EXCEPT ![h] = told]
              /\ Become(p, "done")
        BY <1>1, <1>14, <2>1 DEF SavePeers
    <2>3. Ids(records) = told /\ Distinct(records) /\ records = <<>>
              /\ \A i \in DOMAIN records : records[i].mine = key[h]
        BY <2>1 DEF Ids, Distinct
    <2> QED BY <1>8, <2>2, <2>3
<1> QED BY <1>6, <1>12, <1>13, <1>14

-----------------------------------------------------------------------------
(* The theorems.                                                           *)

LEMMA InitSInv == Init => SInv
<1> SUFFICES ASSUME Init PROVE SInv
    OBVIOUS
<1>1. \A p \in Procs : proc[p].at = "off" /\ proc[p].kind = "none" /\ ~ Active(p)
    BY DEF Init, Unborn, Active, Ended
<1>2. \A d \in Devices : peers[d] = <<>> /\ expect[d] = {} /\ DOMAIN peers[d] = {}
    BY DEF Init
<1>3. OneAtATime /\ PinsUnderCurrentKey
    BY <1>1, <1>2 DEF OneAtATime, PinsUnderCurrentKey
<1>4. ReportsHold
    BY <1>2 DEF ReportsHold, Ids
<1>5. \A p \in Procs : InStep(proc[p], Home(p), key[Home(p)], peers[Home(p)])
    BY <1>1 DEF InStep, Working
<1> QED BY <1>2, <1>3, <1>4, <1>5 DEF SInv

LEMMA StepSInv == Serial /\ IInv /\ SInv /\ [Next]_vars => SInv'
<1> SUFFICES ASSUME Serial, IInv, SInv, [Next]_vars PROVE SInv'
    OBVIOUS
<1>1. CASE UNCHANGED <<key, peers, proc, expect>>
    BY <1>1 DEF SInv, OneAtATime, ReportsHold, PinsUnderCurrentKey, RotationTorn, InStep,
                Active, Ids
<1>2. CASE UNCHANGED vars
    BY <1>1, <1>2 DEF vars
<1>3. CASE Next
    <2>1. PICK p \in Procs :
              \/ StartPair(p) \/ StartRemove(p) \/ StartRotate(p)
              \/ SendSpake(p) \/ SyncRequest(p) \/ RequestFails(p)
              \/ Step(p) \/ Kill(p)
        BY <1>3 DEF Next
    <2>2. RequestFails(p) \/ Kill(p) => SInv'
        <3>1. RequestFails(p) \/ Kill(p) =>
                  Active(p) /\ Become(p, "failed") /\ UNCHANGED <<key, peers, expect>>
            BY DEF RequestFails, Kill, Active, Ended
        <3> QED BY <3>1, EndsTells
    <2>3. SyncRequest(p) => SInv'
        BY <1>1 DEF SyncRequest
    <2> QED BY <2>1, <2>2, <2>3, StartPairTells, StartRemoveTells, StartRotateTells,
            SendSpakeTells, LoadIdentityTells, WriteKeyTells, ShowPinTells, TakeSpakeTells,
            TakeAckTells, TakeIdentityTells, TakeIdentityAckTells, LoadPeersTells, SavePeersTells
            DEF Step
<1> QED BY <1>2, <1>3

\* For a user who waits for one command before starting another on the same
\* device, whatever happens on the others and wherever commands are interrupted:
\* the peers in the file are those the commands have reported, each once
\* (main.rs:835-845, 968-995, 692-709; Peers::upsert and Peers::remove).
THEOREM ReportsAreTrue ==
    ASSUME Serial
    PROVE  Spec => []ReportsHold
<1>1. Serial
    OBVIOUS
<1>2. Init => SInv
    BY InitSInv
<1>3. IInv /\ SInv /\ [Next]_vars => SInv'
    BY <1>1, StepSInv
<1>4. SInv => ReportsHold
    BY DEF SInv
<1> QED BY <1>2, <1>3, <1>4, InitInv, StepInv, PTL DEF Spec

\* Under the same condition every pin was made under the identity the device
\* has, so its peers know it by the one they pinned, except while a rotation is
\* between its two files or has died there (main.rs:692-709).
THEOREM PinsGoWithKey ==
    ASSUME Serial
    PROVE  Spec => []PinsUnderCurrentKey
<1>1. Serial
    OBVIOUS
<1>2. Init => SInv
    BY InitSInv
<1>3. IInv /\ SInv /\ [Next]_vars => SInv'
    BY <1>1, StepSInv
<1>4. SInv => PinsUnderCurrentKey
    BY DEF SInv
<1> QED BY <1>2, <1>3, <1>4, InitInv, StepInv, PTL DEF Spec
=============================================================================
