------------------------------ MODULE GitPush ------------------------------
(***************************************************************************)
(* `bypass sync` against a git remote (main.rs:572-637): pull with rebase, *)
(* make sure .gitattributes carries its rule, audit what the push would    *)
(* publish (audit.rs), push.  The steps are separate processes over one    *)
(* work tree, so other commands can come between them, and any of them can *)
(* fail.  Other machines push to the same remote.                          *)
(*                                                                         *)
(* The git commands are external.  Histories are those of GitHistory; Keys *)
(* are the *.gpg files and .gitattributes.                                 *)
(***************************************************************************)
EXTENDS GitHistory, FiniteSets

CONSTANTS
    Attributes,  \* .gitattributes, one of the Keys
    Quoted,      \* the Keys whose names git prints in quotes (core.quotePath)
    Interfering, \* TRUE: files are edited and committed while a sync runs, and
                 \* a sync may die between writing the rule and committing it
    MaxEdits     \* bound on the contents that are written

ASSUME GitPushAssumption ==
    /\ Attributes \in Keys /\ Quoted \subseteq Keys \ {Attributes}
    /\ Interfering \in BOOLEAN /\ MaxEdits \in Nat

VARIABLES
    remote,    \* the branch on the remote
    upstream,  \* the remote branch as last fetched, @{upstream}
    local,     \* the branch of this store
    work,      \* the files on disk
    plain,     \* the contents that are not ciphertext
    edits,     \* number of contents written so far
    gitState,  \* "clean", or "rebase" when a rebase waits for the user
    step,      \* the next step of `bypass sync`
    force      \* its --force

pushVars == <<remote, upstream, local, work, plain, edits, gitState, step, force>>

Rule == 1      \* the content that carries `*.gpg binary`
Entries == Keys \ {Attributes}
Contents == 0..(MaxEdits + 1)
Trees == [Keys -> Contents]
Commits == [tree : Trees, by : {"here", "elsewhere"}]

PushTypeOK ==
    /\ \A h \in {remote, upstream, local} : h \in Seq(Commits)
    /\ work \in Trees
    /\ plain \subseteq 2..(edits + 1)
    /\ edits \in 0..MaxEdits
    /\ gitState \in {"clean", "rebase"}
    /\ step \in {"off", "pull", "rule", "commit_rule", "audit", "push"}
    /\ force \in BOOLEAN
    /\ IsPrefix(upstream, remote)
    /\ step \in {"rule", "audit", "push"} /\ ~ Interfering =>
          IsPrefix(upstream, local)

\* A store made by `bypass init` has the rule, an older one has not.
PushInit ==
    /\ \E rule \in {NoEntry, Rule} :
         remote = <<[tree |-> [EmptyTree EXCEPT ![Attributes] = rule], by |-> "here"]>>
    /\ upstream = remote /\ local = remote
    /\ work = Tip(remote)
    /\ plain = {} /\ edits = 0
    /\ gitState = "clean" /\ step = "off" /\ force = FALSE

Tracked == {k \in Keys : Tip(local)[k] # NoEntry}
Committed(h, k, c, who) == Append(h, [tree |-> [Tip(h) EXCEPT ![k] = c], by |-> who])

\* Somebody writes or removes a file: bypass itself, an editor, a script.
EditFile(k) ==
    /\ Interfering \/ step \in {"off", "pull"}
    /\ \/ /\ edits < MaxEdits
          /\ edits' = edits + 1
          /\ work' = [work EXCEPT ![k] = edits + 2]
          /\ plain' \in {plain, plain \cup {edits + 2}}
       \/ /\ work[k] # NoEntry
          /\ work' = [work EXCEPT ![k] = NoEntry]
          /\ UNCHANGED <<edits, plain>>
    /\ UNCHANGED <<remote, upstream, local, gitState, step, force>>

\* Git2Vcs::commit of one path; `bypass git` does as much.
CommitFile(k) ==
    /\ Interfering \/ step \in {"off", "pull"}
    /\ gitState = "clean"
    /\ work[k] # Tip(local)[k]
    /\ local' = Committed(local, k, work[k], "here")
    /\ UNCHANGED <<remote, upstream, work, plain, edits, gitState, step, force>>

\* Another machine pushes a commit of its own, made by the same program.
PushElsewhere(k) ==
    /\ edits < MaxEdits
    /\ edits' = edits + 1
    /\ remote' = Committed(remote, k, edits + 2, "elsewhere")
    /\ UNCHANGED <<upstream, local, work, plain, gitState, step, force>>

RuleElsewhere ==
    /\ Tip(remote)[Attributes] = NoEntry
    /\ remote' = Committed(remote, Attributes, Rule, "elsewhere")
    /\ UNCHANGED <<upstream, local, work, plain, edits, gitState, step, force>>

SyncStart ==
    /\ step = "off" /\ gitState = "clean"
    /\ step' = "pull"
    /\ force' \in BOOLEAN
    /\ UNCHANGED <<remote, upstream, local, work, plain, edits, gitState>>

\* Without the rule the merge driver is not called, and two changes of one
\* file are a conflict.
Rebased ==
    LET both == {k \in Keys : \E i \in NotIn(local, remote), j \in NotIn(remote, local) :
                    k \in DOMAIN Patch(local, i) /\ k \in DOMAIN Patch(remote, j)
                        /\ Patch(local, i) # Patch(remote, j)}
        driven == Rebase(local, remote, "here")
    IN  IF work[Attributes] = Rule \/ both = {} THEN driven
                                               ELSE [driven EXCEPT !.ok = FALSE]

\* `git pull --rebase` refuses when a tracked file is not as committed, or when
\* an untracked one is in the way.  A conflict leaves the rebase to the user.
Pull ==
    LET arriving == Tip(Rebased.history)
        dirty    == \E k \in Tracked : work[k] # Tip(local)[k]
        inTheWay == \E k \in Keys \ Tracked : work[k] # NoEntry /\ arriving[k] # NoEntry
    IN  /\ step = "pull"
        /\ IF dirty \/ inTheWay
           THEN step' = "off" /\ UNCHANGED <<upstream, local, work, gitState>>
           ELSE /\ upstream' = remote
                /\ IF Rebased.ok
                   THEN /\ local' = Rebased.history
                        /\ work' = [k \in Keys |-> IF k \in Tracked \/ arriving[k] # NoEntry
                                                   THEN arriving[k] ELSE work[k]]
                        /\ step' = "rule" /\ UNCHANGED gitState
                   ELSE /\ gitState' = "rebase" /\ step' = "off"
                        /\ UNCHANGED <<local, work>>
        /\ UNCHANGED <<remote, plain, edits, force>>

\* `bypass git rebase --abort`
AbortRebase ==
    /\ gitState = "rebase"
    /\ gitState' = "clean"
    /\ UNCHANGED <<remote, upstream, local, work, plain, edits, step, force>>

\* install_gitattributes: nothing to do if the file on disk has the rule.
WriteRule ==
    /\ step = "rule"
    /\ IF work[Attributes] = Rule
       THEN step' = "audit" /\ UNCHANGED work
       ELSE step' = "commit_rule" /\ work' = [work EXCEPT ![Attributes] = Rule]
    /\ UNCHANGED <<remote, upstream, local, plain, edits, gitState, force>>

\* Faulty variant: the rule is left for the next commit.
CommitRuleSkipped ==
    /\ step = "commit_rule"
    /\ step' = "audit"
    /\ UNCHANGED <<remote, upstream, local, work, plain, edits, gitState, force>>

\* The commit refuses in an unfinished state, and is empty if HEAD has it.
CommitRule ==
    /\ step = "commit_rule"
    /\ IF gitState # "clean" THEN step' = "off" /\ UNCHANGED local
       ELSE /\ step' = "audit"
            /\ local' = IF work[Attributes] = Tip(local)[Attributes] THEN local
                        ELSE Committed(local, Attributes, work[Attributes], "here")
    /\ UNCHANGED <<remote, upstream, work, plain, edits, gitState, force>>

\* check_file: a *.gpg file has to look like OpenPGP, .gitattributes may hold
\* anything.
Leaks(k, c) == k \in Entries /\ c \in plain

\* files_to_audit: `git diff --name-only @{upstream}..HEAD`
ToAudit == {k \in Keys : Tip(upstream)[k] # Tip(local)[k]}

\* Faulty variant: only files that are new on the branch are looked at.
IssuesAdded == {k \in ToAudit : Tip(upstream)[k] = NoEntry /\ Leaks(k, work[k])}

\* audit_for_push reads the listed files from disk and skips what it does not
\* find there; a quoted name is never found (parse_pathlist).
Issues == {k \in ToAudit \ Quoted : work[k] # NoEntry /\ Leaks(k, work[k])}

Audit ==
    /\ step = "audit"
    /\ step' = IF force \/ Issues = {} THEN "push" ELSE "off"
    /\ UNCHANGED <<remote, upstream, local, work, plain, edits, gitState, force>>

\* `git push`: rejected unless it is a fast-forward.
Push ==
    /\ step = "push"
    /\ step' = "off"
    /\ IF IsPrefix(remote, local)
       THEN remote' = local /\ upstream' = local
       ELSE UNCHANGED <<remote, upstream>>
    /\ UNCHANGED <<local, work, plain, edits, gitState, force>>

\* No network, a hook that fails, SIGINT.
SyncFails ==
    /\ step \notin {"off", "commit_rule"} \/ (Interfering /\ step = "commit_rule")
    /\ step' = "off"
    /\ UNCHANGED <<remote, upstream, local, work, plain, edits, gitState, force>>

SyncStep == SyncStart \/ Pull \/ WriteRule \/ CommitRule \/ Audit \/ Push

PushNext ==
    \/ \E k \in Entries : EditFile(k) \/ CommitFile(k) \/ PushElsewhere(k)
    \/ RuleElsewhere \/ SyncStep \/ AbortRebase \/ SyncFails

PushSpec == PushInit /\ [][PushNext]_pushVars

-----------------------------------------------------------------------------
Publishes == step = "push" /\ step' = "off" /\ remote' # remote

\* Without --force no sync changes a file of the remote's branch to something
\* that is not ciphertext (audit_for_push, audit.rs:105-124; ADR-0009).  Needs
\* ~Interfering and Quoted = {}: the audit reads the work tree, not the commits
\* that are pushed, and skips files whose names it does not understand.
TipPublishedClean ==
    [][Publishes /\ ~ force =>
         \A k \in Keys : Tip(remote')[k] # Tip(remote)[k] => ~ Leaks(k, Tip(remote')[k])]_pushVars

\* What a sync publishes carries the rule that keeps git from rewriting line
\* ends in ciphertext, also for a store from before the rule, and also when two
\* machines add it at the same time (install_gitattributes_if_missing,
\* main.rs:671-690).  Needs ~Interfering: a rule that was written and not
\* committed counts as installed, and never reaches the remote.
RulePublished ==
    [][Publishes => Tip(remote')[Attributes] = Rule]_pushVars
=============================================================================
