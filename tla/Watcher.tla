------------------------------ MODULE Watcher ------------------------------
(***************************************************************************)
(* The store watcher (sync/watcher.rs): file system events of the store,   *)
(* filtered and collapsed into ticks by a pump that waits until the store  *)
(* has been quiet for DEBOUNCE, and the daemon that takes the ticks        *)
(* (daemon.rs:245-258).                                                    *)
(*                                                                         *)
(* The library notify and the kernel's queue are external: what changes    *)
(* the store puts an event in `raw`.  An event names the places it         *)
(* touches; a rename touches two.                                          *)
(***************************************************************************)
EXTENDS Naturals, Sequences

CONSTANTS
    Debounce,    \* DEBOUNCE, in units of the clock
    MaxRaw,      \* bound on the events waiting for the pump
    MaxChanges,  \* bound on the changes of the store
    Overflows    \* TRUE: the kernel may drop events; notify reports a rescan

ASSUME WatcherAssumption ==
    {Debounce, MaxRaw, MaxChanges} \subseteq Nat /\ Overflows \in BOOLEAN

VARIABLES
    raw,       \* raw_rx
    owed,      \* `pending`: an event was seen and no tick was sent for it yet
    deadline,  \* units of time until the timer fires, or Never
    tick,      \* the debounced channel, which holds one tick
    unseen,    \* the store changed and the daemon has not taken a tick since
    changes    \* number of events so far

watcherVars == <<raw, owed, deadline, tick, unseen, changes>>

Never == Debounce + 1
Places == {{"store"}, {".git"}, {"store", ".git"}}
Kinds == {"change", "access"} \cup (IF Overflows THEN {"rescan"} ELSE {})
Events == [kind : Kinds, places : Places]

WatcherTypeOK ==
    /\ raw \in Seq(Events) /\ Len(raw) <= MaxRaw
    /\ owed \in BOOLEAN /\ tick \in BOOLEAN /\ unseen \in BOOLEAN
    /\ deadline \in 0..Never /\ (owed <=> deadline # Never)
    /\ changes \in 0..MaxChanges

WatcherInit ==
    /\ raw = <<>> /\ owed = FALSE /\ deadline = Never
    /\ tick = FALSE /\ unseen = FALSE /\ changes = 0

\* A file of the store changes, or git writes to its own directory.  A rescan
\* stands for changes whose own events are lost.
StoreEvent ==
    /\ Len(raw) < MaxRaw /\ changes < MaxChanges
    /\ \E ev \in Events :
         /\ raw' = Append(raw, ev)
         /\ unseen' = (unseen \/ (ev.kind # "access" /\ "store" \in ev.places))
    /\ changes' = changes + 1
    /\ UNCHANGED <<owed, deadline, tick>>

\* Faulty variant: one path inside .git makes the event irrelevant.
RelevantIfAll(ev) == ev.kind = "change" /\ ".git" \notin ev.places

\* event_is_relevant, path_is_inside_git_dir: a rescan is of kind Other, and is
\* passed over like a mere access.
Relevant(ev) == ev.kind = "change" /\ \E place \in ev.places : place # ".git"

\* The recv arm of the pump.
PumpEvent ==
    /\ raw # <<>>
    /\ raw' = Tail(raw)
    /\ IF Relevant(Head(raw))
       THEN owed' = TRUE /\ deadline' = Debounce
       ELSE UNCHANGED <<owed, deadline>>
    /\ UNCHANGED <<tick, unseen, changes>>

\* Faulty variant: a timer that fires while events wait forgets its tick.
PumpTimerLosing ==
    /\ deadline = 0
    /\ tick' = (tick \/ raw = <<>>)
    /\ owed' = FALSE /\ deadline' = Never
    /\ UNCHANGED <<raw, unseen, changes>>

\* The timer arm: try_send, which fails if the last tick was not taken yet.
PumpTimer ==
    /\ deadline = 0
    /\ tick' = TRUE
    /\ owed' = FALSE /\ deadline' = Never
    /\ UNCHANGED <<raw, unseen, changes>>

Clock ==
    /\ deadline \in 1..Debounce
    /\ deadline' = deadline - 1
    /\ UNCHANGED <<raw, owed, tick, unseen, changes>>

\* The watcher arm of the daemon's loop: whatever changed so far is in the
\* repository by the time it syncs.
DaemonTakes ==
    /\ tick
    /\ tick' = FALSE /\ unseen' = FALSE
    /\ UNCHANGED <<raw, owed, deadline, changes>>

WatcherNext == StoreEvent \/ PumpEvent \/ PumpTimer \/ Clock \/ DaemonTakes

WatcherSpec == WatcherInit /\ [][WatcherNext]_watcherVars

\* The runtime polls the pump and its timer, and the daemon its arms.  Changes
\* are not forced, and end at the bound: under a stream of them that never
\* pauses for DEBOUNCE no tick is promised, and none comes.
WatcherFairness ==
    WF_watcherVars(PumpEvent) /\ WF_watcherVars(PumpTimer)
        /\ WF_watcherVars(Clock) /\ WF_watcherVars(DaemonTakes)

-----------------------------------------------------------------------------
\* A change the daemon does not know of yet is still on its way to it: in the
\* queue, under the timer, or in the tick that waits (watch, event_is_relevant,
\* watcher.rs:68-99, 136-158).  Needs ~Overflows.
NoChangeForgotten ==
    unseen => \/ \E i \in DOMAIN raw : "store" \in raw[i].places /\ raw[i].kind = "change"
              \/ owed \/ tick

\* Once the store is quiet the daemon gets its tick (watcher.rs:84-97).
ChangeReachesDaemon == unseen ~> ~ unseen
=============================================================================
