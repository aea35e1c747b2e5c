------------------------------ MODULE Pairing ------------------------------
(***************************************************************************)
(* How devices come to trust one another: the two sides of pairing         *)
(* (sync/pairing.rs), the identity file (sync/identity.rs), the pinned     *)
(* peers (sync/peers.rs), and the commands that change the two files       *)
(* (main.rs: sync pair, sync peer rm, sync identity rotate).               *)
(*                                                                         *)
(* A process is one run of one command.  It works on what it has read; the *)
(* files are shared with the other processes of its device.  The transport *)
(* is used as RequestReply promises it: a request that is answered gets    *)
(* the answer made for it, and any request may fail instead.               *)
(*                                                                         *)
(* SPAKE2 is external: two sides get the same session key exactly if they  *)
(* used the same PIN and each other's messages.  An identity is a device   *)
(* and the generation of its key.                                          *)
(***************************************************************************)
EXTENDS Naturals, SequencesExt

CONSTANTS
    Devices,
    Runs,     \* bound on the commands run on each device
    Name,     \* default_device_name of each device; need not be unique
    Serial    \* TRUE: a user waits for one command before starting another

ASSUME PairingAssumption ==
    /\ Runs \in [Devices -> Nat]
    /\ DOMAIN Name = Devices
    /\ Serial \in BOOLEAN

\* A process: its device, and which of the commands run there it is.
Procs == UNION {{d} \X (1..Runs[d]) : d \in Devices}
Home(p) == p[1]

VARIABLES
    key,      \* identity.key: the identity in it, or NoKey
    minted,   \* how many keys each device has generated
    peers,    \* peers.toml: a sequence of records
    proc,     \* the processes
    inbox,    \* requests that have reached a process and were not yet taken
    expect    \* what the users were told last: the peers each device has pinned

vars == <<key, minted, peers, proc, inbox, expect>>

NoKey == <<>>
Nobody == <<>>
Wrong == <<"wrong PIN">>

\* `mine` is not in the file: the identity of this device the record goes with.
Record(id, mine) == [id |-> id, name |-> Name[id[1]], mine |-> mine]
Ids(records) == {records[i].id : i \in DOMAIN records}

Unborn == [kind |-> "none", at |-> "off", id |-> NoKey, pin |-> Nobody, target |-> Nobody,
           session |-> Nobody, reply |-> Nobody, partner |-> NoKey, name |-> "",
           loaded |-> <<>>]
Ended == {"off", "done", "failed"}
Active(p) == proc[p].at \notin Ended

Become(p, at) == proc' = [proc EXCEPT ![p].at = at]

Init ==
    /\ key = [d \in Devices |-> NoKey]
    /\ minted = [d \in Devices |-> 0]
    /\ peers = [d \in Devices |-> <<>>]
    /\ proc = [p \in Procs |-> Unborn]
    /\ inbox = [p \in Procs |-> <<>>]
    /\ expect = [d \in Devices |-> {}]

-----------------------------------------------------------------------------
(* Starting a command.                                                     *)

MayStart(p) ==
    /\ proc[p].at = "off"
    /\ \A q \in Procs : Home(q) = Home(p) /\ q[2] < p[2] => proc[q].at # "off"
    /\ Serial => \A q \in Procs : Home(q) = Home(p) => ~ Active(q)

\* sync_pair: the identity is loaded, or generated and then written.
StartPair(p) ==
    /\ MayStart(p)
    /\ \E kind \in {"show", "enter"} :
         proc' = [proc EXCEPT ![p].kind = kind, ![p].at = "identity"]
    /\ UNCHANGED <<key, minted, peers, inbox, expect>>

\* sync_peer_rm with --yes; the name is one the user reads in the status.
StartRemove(p) ==
    /\ MayStart(p)
    /\ \E i \in DOMAIN peers[Home(p)] :
         proc' = [proc EXCEPT ![p].kind = "rm", ![p].at = "load_peers",
                              ![p].name = peers[Home(p)][i].name]
    /\ UNCHANGED <<key, minted, peers, inbox, expect>>

\* sync_identity_rotate with --confirm.
StartRotate(p) ==
    LET d == Home(p) IN
    /\ MayStart(p) /\ key[d] # NoKey
    /\ minted' = [minted EXCEPT ![d] = @ + 1]
    /\ proc' = [proc EXCEPT ![p].kind = "rotate", ![p].at = "write_key",
                            ![p].id = <<d, minted[d] + 1>>]
    /\ UNCHANGED <<key, peers, inbox, expect>>

\* load_or_generate, up to the write.
LoadIdentity(p) ==
    LET d == Home(p) IN
    /\ proc[p].at = "identity"
    /\ IF key[d] # NoKey
       THEN /\ proc' = [proc EXCEPT ![p].id = key[d], ![p].at = "ready"]
            /\ UNCHANGED minted
       ELSE /\ proc' = [proc EXCEPT ![p].id = <<d, minted[d] + 1>>, ![p].at = "write_key"]
            /\ minted' = [minted EXCEPT ![d] = @ + 1]
    /\ UNCHANGED <<key, peers, inbox, expect>>

\* Faulty variant: rotation clears the peers before it has a new key.
WriteKeyLast(p) ==
    /\ proc[p].at = "write_key"
    /\ key' = [key EXCEPT ![Home(p)] = proc[p].id]
    /\ IF proc[p].kind = "rotate"
       THEN /\ Become(p, "done")
            /\ expect' = [expect EXCEPT ![Home(p)] = {}]
       ELSE Become(p, "ready") /\ UNCHANGED expect
    /\ UNCHANGED <<minted, peers, inbox>>

\* identity::save: a rename.
WriteKey(p) ==
    /\ proc[p].at = "write_key"
    /\ key' = [key EXCEPT ![Home(p)] = proc[p].id]
    /\ Become(p, IF proc[p].kind = "rotate" THEN "load_peers" ELSE "ready")
    /\ UNCHANGED <<minted, peers, inbox, expect>>

-----------------------------------------------------------------------------
(* Pairing.                                                                *)

\* Spake2::finish: what each side derives from its PIN and the two messages.
SessionKey(pin, e, q) == <<pin, e, q>>

\* Faulty variant: the tag does not depend on the session key.
TagOfSide(side, k) == <<side, Nobody>>

\* confirmation_tag: a hash, so equal exactly for equal arguments.
Tag(side, k) == <<side, k>>

Request(q, m) == inbox' = [inbox EXCEPT ![q] = Append(@, m)]

\* run_pair_show prints the PIN: the process's own name stands for it.
ShowPin(p) ==
    /\ proc[p].kind = "show" /\ proc[p].at = "ready"
    /\ proc' = [proc EXCEPT ![p].pin = p, ![p].at = "await_spake"]
    /\ UNCHANGED <<key, minted, peers, inbox, expect>>

\* run_pair_enter and the first half of run_enter_side: the user typed a PIN,
\* the other one's or a wrong one.
SendSpake(p) ==
    /\ proc[p].kind = "enter" /\ proc[p].at = "ready"
    /\ \E q \in Procs, pin \in {"right", "wrong"} :
         /\ proc[q].kind = "show" /\ proc[q].pin = q /\ Home(q) # Home(p)
         /\ proc' = [proc EXCEPT ![p].pin = IF pin = "right" THEN q ELSE Wrong,
                                 ![p].target = q, ![p].at = "await_ack"]
         /\ IF Active(q) THEN Request(q, [from |-> p, body |-> "spake"]) ELSE UNCHANGED inbox
    /\ UNCHANGED <<key, minted, peers, expect>>

\* The transport of a pairing announces itself by mDNS with the identity of its
\* device, so the daemon of a peer that has pinned it starts a sync with it.
SyncRequest(q) ==
    /\ proc[q].at \in {"await_spake", "await_identity"}
    /\ \E d \in Devices : proc[q].id \in Ids(peers[d])
    /\ \A i \in DOMAIN inbox[q] : inbox[q][i].body # "sync"
    /\ Request(q, [from |-> q, body |-> "sync"])
    /\ UNCHANGED <<key, minted, peers, proc, expect>>

Waits(p, q, at) == proc[p].at = at /\ proc[p].target = q /\ proc[p].reply = Nobody

\* The first inbound request: anything but a Spake message ends the pairing.
TakeSpake(q) ==
    /\ proc[q].at = "await_spake" /\ inbox[q] # <<>>
    /\ LET m == Head(inbox[q])
           k == SessionKey(proc[q].pin, m.from, q)
           acked == [proc EXCEPT ![q].session = k, ![q].at = "await_identity"]
       IN proc' = IF m.body # "spake" THEN [proc EXCEPT ![q].at = "failed"]
                  ELSE IF Waits(m.from, q, "await_ack")
                  THEN [acked EXCEPT ![m.from].reply = [tag |-> Tag("show", k)]]
                  ELSE acked
    /\ inbox' = [inbox EXCEPT ![q] = Tail(@)]
    /\ UNCHANGED <<key, minted, peers, expect>>

\* SpakeAck: the tag is compared with the session key of this side.
TakeAck(p) ==
    LET q == proc[p].target
        k == SessionKey(proc[p].pin, p, q)
    IN
    /\ proc[p].at = "await_ack" /\ proc[p].reply # Nobody
    /\ IF proc[p].reply.tag = Tag("show", k)
       THEN /\ proc' = [proc EXCEPT ![p].session = k, ![p].reply = Nobody,
                                    ![p].at = "await_identity_ack"]
            /\ IF Active(q)
               THEN Request(q, [from |-> p, body |-> "identity",
                                tag |-> Tag("enter", k), id |-> proc[p].id])
               ELSE UNCHANGED inbox
       ELSE Become(p, "failed") /\ UNCHANGED inbox
    /\ UNCHANGED <<key, minted, peers, expect>>

\* Both sides have the tag they expected; the answer carries our identity.
Identified(q, m) ==
    LET accepted == [proc EXCEPT ![q].partner = m.id, ![q].at = "load_peers"]
    IN IF Waits(m.from, q, "await_identity_ack")
       THEN [accepted EXCEPT ![m.from].reply = [id |-> proc[q].id]]
       ELSE accepted

\* The second inbound request: the other side's identity, with its tag.
TakeIdentity(q) ==
    /\ proc[q].at = "await_identity" /\ inbox[q] # <<>>
    /\ LET m == Head(inbox[q])
       IN proc' = IF m.body = "identity" /\ m.tag = Tag("enter", proc[q].session)
                  THEN Identified(q, m)
                  ELSE [proc EXCEPT ![q].at = "failed"]
    /\ inbox' = [inbox EXCEPT ![q] = Tail(@)]
    /\ UNCHANGED <<key, minted, peers, expect>>

TakeIdentityAck(p) ==
    /\ proc[p].at = "await_identity_ack" /\ proc[p].reply # Nobody
    /\ proc' = [proc EXCEPT ![p].partner = proc[p].reply.id, ![p].reply = Nobody,
                            ![p].at = "load_peers"]
    /\ UNCHANGED <<key, minted, peers, inbox, expect>>

\* Transport::request returns an error: the answer was lost, or nobody is there.
RequestFails(p) ==
    /\ proc[p].at \in {"await_ack", "await_identity_ack"}
    /\ Become(p, "failed")
    /\ UNCHANGED <<key, minted, peers, inbox, expect>>

-----------------------------------------------------------------------------
(* peers.toml: Peers::load, a change, Peers::save.                         *)

LoadPeers(p) ==
    /\ proc[p].at = "load_peers"
    /\ proc' = [proc EXCEPT ![p].loaded = peers[Home(p)], ![p].at = "save_peers"]
    /\ UNCHANGED <<key, minted, peers, inbox, expect>>

\* Faulty variant: a second record for a peer that is already there.
UpsertAppending(records, r) == Append(records, r)

Upsert(records, r) ==
    IF r.id \in Ids(records)
    THEN [records EXCEPT ![Min({i \in DOMAIN records : records[i].id = r.id})] = r]
    ELSE Append(records, r)

\* persist_paired, sync_peer_rm and sync_identity_rotate tell the user right
\* after the save.  A name that is gone by then is an error.
SavePeers(p) ==
    LET d == Home(p)
        old == proc[p].loaded
        Save(records, told) ==
            /\ peers' = [peers EXCEPT ![d] = records]
            /\ expect' = [expect EXCEPT ![d] = told]
            /\ Become(p, "done")
    IN
    /\ proc[p].at = "save_peers"
    /\ CASE proc[p].kind \in {"show", "enter"} ->
              Save(Upsert(old, Record(proc[p].partner, proc[p].id)),
                   expect[d] \cup {proc[p].partner})
         [] proc[p].kind = "rm" ->
              LET named == {i \in DOMAIN old : old[i].name = proc[p].name} IN
              IF named # {}
              THEN \E i \in named : (\A j \in named : i <= j)
                       /\ Save(RemoveAt(old, i), expect[d] \ {old[i].id})
              ELSE Become(p, "failed") /\ UNCHANGED <<peers, expect>>
         [] proc[p].kind = "rotate" -> Save(<<>>, {})
    /\ UNCHANGED <<key, minted, inbox>>

\* The user interrupts a command, or its process dies; a rename is atomic.
Kill(p) ==
    /\ Active(p)
    /\ Become(p, "failed")
    /\ UNCHANGED <<key, minted, peers, inbox, expect>>

Step(p) ==
    \/ LoadIdentity(p) \/ WriteKey(p) \/ ShowPin(p)
    \/ TakeSpake(p) \/ TakeAck(p) \/ TakeIdentity(p) \/ TakeIdentityAck(p)
    \/ LoadPeers(p) \/ SavePeers(p)

Next == \E p \in Procs :
    \/ StartPair(p) \/ StartRemove(p) \/ StartRotate(p)
    \/ SendSpake(p) \/ SyncRequest(p) \/ RequestFails(p)
    \/ Step(p) \/ Kill(p)

Spec == Init /\ [][Next]_vars

-----------------------------------------------------------------------------
Stages == Ended \cup {"identity", "write_key", "ready", "await_spake", "await_ack",
    "await_identity", "await_identity_ack", "load_peers", "save_peers"}
IdType == Devices \X Nat
RecordType == [id : IdType, name : {Name[d] : d \in Devices}, mine : IdType]

TypeOK ==
    /\ key \in [Devices -> IdType \cup {NoKey}]
    /\ \A d \in Devices : key[d] # NoKey => key[d][1] = d /\ key[d][2] <= minted[d]
    /\ peers \in [Devices -> Seq(RecordType)]
    /\ \A p \in Procs :
         /\ proc[p].at \in Stages /\ proc[p].kind \in {"none", "show", "enter", "rm", "rotate"}
         /\ proc[p].id \in IdType \cup {NoKey} /\ proc[p].partner \in IdType \cup {NoKey}
         /\ proc[p].loaded \in Seq(RecordType)
    /\ \A d \in Devices : expect[d] \subseteq IdType

\* A device trusts another only after a user typed, on one of the two, the PIN
\* shown on the other, and in the very exchange the showing side took up: a
\* PIN buys one attempt, right or wrong, and the record is of that partner
\* (run_show_side, run_enter_side, pairing.rs:168-335).
TrustOnlyByPin ==
    \A d \in Devices : \A id \in Ids(peers[d]) :
        \E e, q \in Procs :
            /\ proc[e].kind = "enter" /\ proc[e].pin = q /\ proc[q].session = SessionKey(q, e, q)
            /\ \/ Home(e) = d /\ proc[q].id = id
               \/ Home(q) = d /\ proc[e].id = id

\* The entering side never trusts a device that has rejected it: when it stores
\* its partner, the showing side has accepted it, under the identity it has
\* now (pairing.rs:223-237, 310-325).
EnterNotAlone ==
    \A e \in Procs : proc[e].kind = "enter" /\ proc[e].partner # NoKey =>
        LET q == proc[e].target IN
        proc[q].partner = proc[e].id /\ proc[e].partner = proc[q].id

\* Trust comes from a PIN that a user carried over, and is mutual when the
\* entering side stores it (pairing.rs:164-335), with the shapes it rests on.
TrustInv == TypeOK /\ TrustOnlyByPin /\ EnterNotAlone

\* What the commands told the user is what the file says: "paired with ..." and
\* "removed ..." are still true after any later command (main.rs:835-845,
\* 968-995, 692-709).  Needs Serial.
ReportsHold ==
    \A d \in Devices :
        /\ Ids(peers[d]) = expect[d]
        /\ \A i, j \in DOMAIN peers[d] : peers[d][i].id = peers[d][j].id => i = j

\* The pins of a device go with the identity it has, so that its peers know it
\* by the identity they pinned; only a rotation that is under way or has died
\* between its two files leaves pins of an old one (main.rs:692-709).
RotationTorn(d) ==
    \E p \in Procs : proc[p].kind = "rotate" /\ proc[p].id = key[d] /\ proc[p].at # "done"

PinsUnderCurrentKey ==
    \A d \in Devices : ~ RotationTorn(d) =>
        \A i \in DOMAIN peers[d] : peers[d][i].mine = key[d]
=============================================================================
