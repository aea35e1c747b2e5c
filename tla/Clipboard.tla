----------------------------- MODULE Clipboard -----------------------------
(***************************************************************************)
(* The clipboard between the user and the helper processes that `show -c`  *)
(* and `generate -c` leave behind (clipboard.rs).  A helper remembers what *)
(* is on the clipboard, puts its password there, and when its time is up,  *)
(* or a signal ends it, puts back what it remembers if the clipboard still *)
(* holds the password.  Each access to the clipboard is a step of its own. *)
(*                                                                         *)
(* The display server is external: it keeps the last text it was given.    *)
(* Times are left out: a helper may wake at any moment.                    *)
(***************************************************************************)
EXTENDS Naturals

CONSTANTS
    Helpers,     \* helper processes; each has the password it was given
    Overlapping, \* TRUE: a password is copied while a helper still runs, or the
                 \* user copies something between two accesses of a helper
    MaxCopies    \* bound on what the user copies by hand

ASSUME ClipboardAssumption == Overlapping \in BOOLEAN /\ MaxCopies \in Nat

VARIABLES
    clip,      \* what is on the clipboard
    helper,    \* how far each helper is
    saved,     \* `previous` of each helper
    copies,    \* number of texts the user copied
    wanted     \* what would be there if passwords had never been copied

clipVars == <<clip, helper, saved, copies, wanted>>

Empty == <<"empty">>
Password(h) == <<"password", h>>
Passwords == {Password(h) : h \in Helpers}
Copied == {"text", "image"} \X (1..MaxCopies)

ClipTypeOK ==
    /\ clip \in Copied \cup Passwords \cup {Empty}
    /\ helper \in [Helpers -> {"off", "started", "saved", "set", "waits", "woken", "restores",
                               "ended", "dead"}]
    /\ saved \in [Helpers -> Copied \cup Passwords \cup {Empty}]
    /\ \A h \in Helpers : saved[h] # Empty => saved[h][1] # "image"
    /\ copies \in 0..MaxCopies
    /\ wanted \in Copied \cup {Empty}

ClipInit ==
    /\ clip = Empty /\ wanted = Empty /\ copies = 0
    /\ helper = [h \in Helpers |-> "off"]
    /\ saved = [h \in Helpers |-> Empty]

Running(h) == helper[h] \notin {"off", "ended", "dead"}
Moves(h, to) == helper' = [helper EXCEPT ![h] = to]

\* copy_and_auto_clear: the probe succeeded, the helper has its password.
CopyPassword(h) ==
    /\ helper[h] = "off"
    /\ Overlapping \/ \A g \in Helpers : ~ Running(g)
    /\ Moves(h, "started")
    /\ UNCHANGED <<clip, saved, copies, wanted>>

\* The user copies something else.
UserCopies ==
    /\ copies < MaxCopies
    /\ Overlapping \/ \A h \in Helpers : helper[h] \notin {"saved", "restores"}
    /\ copies' = copies + 1
    /\ \E kind \in {"text", "image"} : clip' = <<kind, copies + 1>>
    /\ wanted' = clip'
    /\ UNCHANGED <<helper, saved>>

\* cb.get_text().ok() before the write: what is not text is not remembered.
Snapshot(h) ==
    /\ helper[h] = "started"
    /\ saved' = [saved EXCEPT ![h] = IF clip[1] = "image" THEN Empty ELSE clip]
    /\ Moves(h, "saved")
    /\ UNCHANGED <<clip, copies, wanted>>

\* cb.set_text(password)
SetPassword(h) ==
    /\ helper[h] = "saved"
    /\ clip' = Password(h)
    /\ Moves(h, "set")
    /\ UNCHANGED <<saved, copies, wanted>>

\* The signal handlers are installed after the password is on the clipboard.
InstallHandlers(h) ==
    /\ helper[h] = "set"
    /\ Moves(h, "waits")
    /\ UNCHANGED <<clip, saved, copies, wanted>>

\* The time is up, or SIGINT or SIGTERM arrives.
Wake(h) ==
    /\ helper[h] = "waits"
    /\ Moves(h, "woken")
    /\ UNCHANGED <<clip, saved, copies, wanted>>

\* restore_now, first half: is the password still there?
CheckOurs(h) ==
    /\ helper[h] = "woken"
    /\ Moves(h, IF clip = Password(h) THEN "restores" ELSE "ended")
    /\ UNCHANGED <<clip, saved, copies, wanted>>

\* Faulty variant: nothing is put back over an empty clipboard.
RestoreTextOnly(h) ==
    /\ helper[h] = "restores"
    /\ clip' = IF saved[h] = Empty THEN clip ELSE saved[h]
    /\ Moves(h, "ended")
    /\ UNCHANGED <<saved, copies, wanted>>

\* restore_now, second half: set_text(previous), or clear.
Restore(h) ==
    /\ helper[h] = "restores"
    /\ clip' = saved[h]
    /\ Moves(h, "ended")
    /\ UNCHANGED <<saved, copies, wanted>>

\* SIGKILL, a crash, or SIGTERM before the handlers are there.
KillHelper(h) ==
    /\ Running(h)
    /\ Moves(h, "dead")
    /\ UNCHANGED <<clip, saved, copies, wanted>>

HelperStep(h) == Snapshot(h) \/ SetPassword(h) \/ InstallHandlers(h) \/ Wake(h)
                    \/ CheckOurs(h) \/ Restore(h)

ClipNext == UserCopies \/ \E h \in Helpers : CopyPassword(h) \/ HelperStep(h) \/ KillHelper(h)

ClipSpec == ClipInit /\ [][ClipNext]_clipVars

-----------------------------------------------------------------------------
\* When the helpers are done and none was killed, the clipboard is as if no
\* password had ever been copied: what was there before is back, what the user
\* copied meanwhile is left alone, and no password remains (restore_now,
\* clipboard.rs:192-212).  An image is the exception: it cannot be put back.
\* Needs ~Overlapping.
AsIfNeverCopied ==
    (\A h \in Helpers : helper[h] \in {"off", "ended"}) =>
        clip = wanted \/ (wanted[1] = "image" /\ clip = Empty)
=============================================================================
