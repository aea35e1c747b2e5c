---------------------------- MODULE StatusSocket ----------------------------
(***************************************************************************)
(* Which process owns the status socket (sync/socket.rs): daemons that     *)
(* start, are refused, shut down or crash, on one socket path.             *)
(*                                                                         *)
(* The path leads to an inode of a daemon's run or to nothing; somebody    *)
(* listens on an inode only while that run does.  UnixListener::bind is    *)
(* two system calls: one makes the inode, the next starts to listen.       *)
(***************************************************************************)
EXTENDS Naturals

CONSTANTS
    Daemons,     \* `bypass sync daemon` processes of one user
    Racing,      \* TRUE: a daemon may start while another starts or shuts down
    MaxLaunches  \* bound on the starts of each of them

ASSUME StatusSocketAssumption == Racing \in BOOLEAN /\ MaxLaunches \in Nat

VARIABLES
    path,      \* the inode that bypass-sync.sock leads to: <<daemon, run>> or Absent
    phase,     \* how far each daemon is
    launches,  \* how often each was started
    exit       \* how its last run ended

socketVars == <<path, phase, launches, exit>>

Absent == <<>>
Inode(d) == <<d, launches[d]>>
Listens(i) == i # Absent /\ launches[i[1]] = i[2] /\ phase[i[1]] = "up"

Starting == {"look", "connect", "unlink", "bind", "listen"}

SocketTypeOK ==
    /\ path \in (Daemons \X (1..MaxLaunches)) \cup {Absent}
    /\ phase \in [Daemons -> Starting \cup {"off", "up", "cleanup"}]
    /\ launches \in [Daemons -> 0..MaxLaunches]
    /\ exit \in [Daemons -> {"none", "refused", "in_use", "signal", "crash"}]
    /\ path # Absent => path[2] <= launches[path[1]]
    /\ \A d \in Daemons : phase[d] # "off" => launches[d] > 0

SocketInit ==
    /\ path = Absent
    /\ phase = [d \in Daemons |-> "off"]
    /\ launches = [d \in Daemons |-> 0]
    /\ exit = [d \in Daemons |-> "none"]

Advances(d, to) == phase' = [phase EXCEPT ![d] = to] /\ UNCHANGED exit
Exits(d, why) == phase' = [phase EXCEPT ![d] = "off"] /\ exit' = [exit EXCEPT ![d] = why]

Launch(d) ==
    /\ phase[d] = "off" /\ launches[d] < MaxLaunches
    /\ Racing \/ \A e \in Daemons : phase[e] \in {"off", "up"}
    /\ Advances(d, "look")
    /\ launches' = [launches EXCEPT ![d] = @ + 1]
    /\ UNCHANGED path

\* path.exists()
Look(d) ==
    /\ phase[d] = "look"
    /\ Advances(d, IF path = Absent THEN "bind" ELSE "connect")
    /\ UNCHANGED <<path, launches>>

\* Faulty variant: whoever answers, the path is taken over.
ConnectIgnored(d) ==
    /\ phase[d] = "connect"
    /\ Advances(d, "unlink")
    /\ UNCHANGED <<path, launches>>

\* A live daemon answers: AlreadyRunning.  Any error means there is none.
Connect(d) ==
    /\ phase[d] = "connect"
    /\ IF Listens(path) THEN Exits(d, "refused") ELSE Advances(d, "unlink")
    /\ UNCHANGED <<path, launches>>

\* remove_file, whatever is there by now; NotFound is ignored.
Unlink(d) ==
    /\ phase[d] = "unlink"
    /\ path' = Absent
    /\ Advances(d, "bind")
    /\ UNCHANGED launches

\* EADDRINUSE if something is there.
Bind(d) ==
    /\ phase[d] = "bind"
    /\ IF path = Absent
       THEN path' = Inode(d) /\ Advances(d, "listen")
       ELSE Exits(d, "in_use") /\ UNCHANGED path
    /\ UNCHANGED launches

Listen(d) ==
    /\ phase[d] = "listen"
    /\ Advances(d, "up")
    /\ UNCHANGED <<path, launches>>

\* daemon::run returns on a signal; the listener is gone with its task.
ShutDown(d) ==
    /\ phase[d] = "up"
    /\ Racing \/ \A e \in Daemons : phase[e] \notin Starting
    /\ Advances(d, "cleanup")
    /\ UNCHANGED <<path, launches>>

\* sync_daemon removes the path, whoever owns it by now.
Cleanup(d) ==
    /\ phase[d] = "cleanup"
    /\ path' = Absent
    /\ Exits(d, "signal")
    /\ UNCHANGED launches

\* A crash, or a failure after the bind, leaves the inode behind.
Crash(d) ==
    /\ phase[d] # "off"
    /\ Exits(d, "crash")
    /\ UNCHANGED <<path, launches>>

SocketStep(d) ==
    Look(d) \/ Connect(d) \/ Unlink(d) \/ Bind(d) \/ Listen(d) \/ Cleanup(d)

SocketNext == \E d \in Daemons : Launch(d) \/ SocketStep(d) \/ ShutDown(d) \/ Crash(d)

SocketSpec == SocketInit /\ [][SocketNext]_socketVars

-----------------------------------------------------------------------------
\* One daemon at a time, and the one that is up can be asked for its status:
\* the path leads to it (bind_or_refuse_existing, query_status,
\* socket.rs:79-127, 225-262).  Needs ~Racing.
OneReachableDaemon ==
    \A d, e \in Daemons : phase[d] = "up" =>
        /\ path = Inode(d)
        /\ phase[e] = "up" => d = e
=============================================================================
