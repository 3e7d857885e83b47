------------------------------ MODULE GitCommit ------------------------------
(***************************************************************************)
(* Delivery of a task with git: the guard against unrelated changes and    *)
(* sac commit, sac apply and sac rollback around it (git/local.py,         *)
(* cli_commit.py, cli_core.py, task/wiring.py).                            *)
(*                                                                         *)
(* Each terminal runs one command at a time.  Every call of git and every  *)
(* access to .sac is a step, in between the user works in an editor and    *)
(* with git.  The writes of an apply and of a rollback are one step here,  *)
(* PatchTransaction has theirs.                                            *)
(***************************************************************************)
EXTENDS Integers, Sequences, FiniteSets, TLC

CONSTANTS
    Terminals,
    Paths, Contents,
    Gone,           \* a path without a file
    Beside,         \* pairs: the first lies in or below the folder of the second, not the top
    Committed,      \* what HEAD holds at first
    Changes,        \* what sac edit may propose: per path the content found and the one to be
    Tasks,
    Nobody,         \* no task, or no change
    Lookback,       \* how many commits commit_for_files goes back
    MaxProposed, MaxActs, MaxRollbacks, MaxCommits

States == Contents \cup {Gone}

ASSUME GitAssumption ==
    /\ Gone \notin Contents /\ Nobody \notin Tasks \cup Changes
    /\ Beside \subseteq Paths \X Paths
    /\ Committed \in [Paths -> States]
    /\ \A c \in Changes :
        DOMAIN c \subseteq Paths /\ \A p \in DOMAIN c : c[p].to \in States /\ c[p].found # c[p].to
    /\ {Lookback, MaxProposed, MaxActs, MaxRollbacks, MaxCommits} \subseteq Nat

VARIABLES
    worktree, index, head,  \* per path: the content in the working tree, the index and HEAD
    commits,                \* what each commit changed, and for which task
    current,                \* CURRENT
    traces,                 \* per task: the checkpoints of its audit_trace_ids
    blamed,                 \* per task: the files of audit events that bear its id
    proposed,               \* the pending patch
    saved,                  \* the checkpoints: per file the content before the apply
    running,                \* per terminal
    acts                    \* bounded: sac edits, the user's acts, rollbacks

gitVars == <<worktree, index, head, commits, current, traces, blamed, proposed, saved, running, acts>>

AtRest ==
    [step |-> "idle", task |-> Nobody, files |-> {}, change |-> Nobody, checkpoint |-> 0, last |-> FALSE,
     overlooked |-> {}]

Goes(t, step) == running' = [running EXCEPT ![t].step = step]
Returns(t) == running' = [running EXCEPT ![t] = AtRest]

-----------------------------------------------------------------------------
(* What git says *)

\* A deletion that is staged beside a new file of the same content.
Sources(q) ==
    IF head[q] # Gone \/ index[q] = Gone THEN {}
    ELSE {p \in Paths : index[p] = Gone /\ head[p] = index[q]}

\* git shows the two as one rename, under the new name.
Renamed == {CHOOSE p \in Sources(q) : TRUE : q \in {r \in Paths : Sources(r) # {}}}

Untracked == {p \in Paths : index[p] = Gone /\ worktree[p] # Gone}

\* status --porcelain, but for untracked files, and as _status_path reads it.
TrackedChanges ==
    {p \in Paths : index[p] # head[p] \/ (index[p] # Gone /\ worktree[p] # index[p])} \ Renamed

ChangedFiles == TrackedChanges \cup Untracked

Staged == {p \in Paths : index[p] # head[p]}

\* diff --cached --name-only
StagedFiles == Staged \ Renamed

\* One of the last commits that touch a file of these and has them all.
CommitForFiles(files) ==
    LET touching == {n \in DOMAIN commits : commits[n].changed \cap files # {}}
    IN  files # {} /\ \E n \in touching :
            /\ files \subseteq commits[n].changed
            /\ Cardinality({m \in touching : m > n}) < Lookback

-----------------------------------------------------------------------------
(* Whose files *)

CheckpointFiles(k) == UNION {DOMAIN saved[n] : n \in traces[k]}

TaskFiles(k) == CheckpointFiles(k) \cup blamed[k]

UnrelatedFiles(allowed) ==
    (TrackedChanges \ allowed)
        \cup {p \in Untracked \ allowed : \E q \in allowed : <<p, q>> \in Beside}

\* audit_dirty_refusal
AuditRefusal(k, files) ==
    blamed' = IF k = Nobody THEN blamed ELSE [blamed EXCEPT ![k] = @ \cup files]

-----------------------------------------------------------------------------
(* sac commit *)

\* Refused without a task, and for one without files.
StartCommit(t) ==
    /\ running[t].step = "idle"
    /\ current # Nobody
    /\ TaskFiles(current) # {}
    /\ running' = [running EXCEPT ![t] = [AtRest EXCEPT !.step = "guard", !.task = current,
                                                !.files = TaskFiles(current)]]
    /\ UNCHANGED <<worktree, index, head, commits, current, traces, blamed, proposed, saved, acts>>

\* With --allow-unrelated-changes it goes on all the same.
GuardCommit(t) ==
    /\ running[t].step = "guard"
    /\ LET unrelated == UnrelatedFiles(running[t].files)
       IN  \/ Goes(t, "add") /\ UNCHANGED blamed
           \/ unrelated # {} /\ AuditRefusal(running[t].task, unrelated) /\ Returns(t)
    /\ UNCHANGED <<worktree, index, head, commits, current, traces, proposed, saved, acts>>

\* A terminal that is about to commit does not look at what is staged by now.
StagesFor(files, jobs) ==
    [u \in Terminals |->
        IF jobs[u].step = "commit" THEN [jobs[u] EXCEPT !.overlooked = @ \cup files] ELSE jobs[u]]

\* git add takes every file or, if one is in neither tree nor index, none.
AddFiles(t) ==
    /\ running[t].step = "add"
    /\ \A p \in running[t].files : worktree[p] # Gone \/ index[p] # Gone
    /\ index' = [p \in Paths |-> IF p \in running[t].files THEN worktree[p] ELSE index[p]]
    /\ running' = [StagesFor(running[t].files, running) EXCEPT ![t].step = "staged"]
    /\ UNCHANGED <<worktree, head, commits, current, traces, blamed, proposed, saved, acts>>

\* Mutant: what is staged is not looked at again.
CheckNothing(t) ==
    /\ running[t].step = "staged"
    /\ running' = [running EXCEPT ![t].step = "commit", ![t].overlooked = Renamed]
    /\ UNCHANGED <<worktree, index, head, commits, current, traces, blamed, proposed, saved, acts>>

\* Whatever is staged must be of the task.
CheckStaged(t) ==
    /\ running[t].step = "staged"
    /\ IF StagedFiles \subseteq running[t].files
       THEN running' = [running EXCEPT ![t].step = "commit", ![t].overlooked = Renamed]
       ELSE Returns(t)
    /\ UNCHANGED <<worktree, index, head, commits, current, traces, blamed, proposed, saved, acts>>

GitCommits(k, overlooked) ==
    /\ Staged # {}
    /\ Len(commits) < MaxCommits
    /\ head' = index
    /\ commits' = Append(commits, [task |-> k, changed |-> Staged, overlooked |-> overlooked])

\* The whole index is committed.
Commit(t) ==
    /\ running[t].step = "commit"
    /\ GitCommits(running[t].task, running[t].overlooked)
    /\ Returns(t)
    /\ UNCHANGED <<worktree, index, current, traces, blamed, proposed, saved, acts>>

\* A git command fails (a branch that exists, a file to add that is not there,
\* nothing to commit), --dry-run, an answer that is no, no message from the
\* model, a Ctrl-C: what was staged stays so.
Stop(t) ==
    /\ running[t].step # "idle"
    /\ Returns(t)
    /\ UNCHANGED <<worktree, index, head, commits, current, traces, blamed, proposed, saved, acts>>

-----------------------------------------------------------------------------
(* sac edit, sac apply *)

Applicable(change) == \A p \in DOMAIN change : worktree[p] = change[p].found

\* get_or_create_current_task
CurrentTask(t, k) ==
    IF current # Nobody THEN k = current
    ELSE k \in Tasks /\ traces[k] = {} /\ blamed[k] = {} /\ \A u \in Terminals : running[u].task # k

Propose(t) ==
    /\ running[t].step = "idle"
    /\ acts.edits < MaxProposed
    /\ \E k \in Tasks : CurrentTask(t, k) /\ current' = k
    /\ \E c \in Changes : Applicable(c) /\ proposed' = c
    /\ acts' = [acts EXCEPT !.edits = @ + 1]
    /\ UNCHANGED <<worktree, index, head, commits, traces, blamed, saved, running>>

PreviewApply(t) ==
    /\ running[t].step = "idle"
    /\ proposed # Nobody /\ Applicable(proposed)
    /\ running' = [running EXCEPT ![t] = [AtRest EXCEPT !.step = "preview", !.change = proposed]]
    /\ UNCHANGED <<worktree, index, head, commits, current, traces, blamed, proposed, saved, acts>>

\* The files of the task count, and those of the patch that is pending by now.
AllowedFiles(change) ==
    DOMAIN change \cup
        IF current = Nobody THEN {}
        ELSE TaskFiles(current) \cup (IF proposed = Nobody THEN {} ELSE DOMAIN proposed)

\* With --allow-unrelated-changes, or if git fails, it goes on all the same.
GuardApply(t) ==
    /\ running[t].step = "preview"
    /\ LET unrelated == UnrelatedFiles(AllowedFiles(running[t].change))
       IN  \/ Goes(t, "confirm") /\ UNCHANGED blamed
           \/ unrelated # {} /\ AuditRefusal(current, unrelated) /\ Returns(t)
    /\ UNCHANGED <<worktree, index, head, commits, current, traces, proposed, saved, acts>>

ConfirmApply(t) ==
    /\ running[t].step = "confirm"
    /\ \E k \in Tasks :
        /\ CurrentTask(t, k)
        /\ current' = k
        /\ running' = [running EXCEPT ![t].step = "apply", ![t].task = k]
    /\ UNCHANGED <<worktree, index, head, commits, traces, blamed, proposed, saved, acts>>

\* AgentOrchestrator.apply refuses dirty targets before its checkpoint.
ApplyChange(t) ==
    /\ running[t].step = "apply"
    /\ LET change == running[t].change
       IN  /\ Applicable(change)
           /\ ChangedFiles \cap DOMAIN change = {}
           /\ saved' = Append(saved, [p \in DOMAIN change |-> worktree[p]])
           /\ worktree' = [p \in Paths |-> IF p \in DOMAIN change THEN change[p].to ELSE worktree[p]]
    /\ proposed' = Nobody
    /\ running' = [running EXCEPT ![t].step = "record", ![t].checkpoint = Len(saved) + 1]
    /\ UNCHANGED <<index, head, commits, current, traces, blamed, acts>>

\* record_apply_on_task, record_rollback_on_task
RecordOnTask(t) ==
    /\ running[t].step = "record"
    /\ traces' = [traces EXCEPT ![running[t].task] = @ \cup {running[t].checkpoint}]
    /\ Returns(t)
    /\ UNCHANGED <<worktree, index, head, commits, current, blamed, proposed, saved, acts>>

-----------------------------------------------------------------------------
(* sac rollback *)

\* --last or --checkpoint
StartRollback(t) ==
    /\ running[t].step = "idle"
    /\ acts.rollbacks < MaxRollbacks
    /\ acts' = [acts EXCEPT !.rollbacks = @ + 1]
    /\ \E n \in DOMAIN saved, last \in BOOLEAN, k \in Tasks :
        /\ last => n = Len(saved)
        /\ CurrentTask(t, k)
        /\ current' = k
        /\ running' = [running EXCEPT ![t] = [AtRest EXCEPT !.step = "committed", !.task = k, !.checkpoint = n,
                                                    !.last = last]]
    /\ UNCHANGED <<worktree, index, head, commits, traces, blamed, proposed, saved>>

\* Refused if the apply appears committed; --force-uncommit or an error of git
\* passes it.
GuardRollback(t) ==
    /\ running[t].step = "committed"
    /\ LET files == DOMAIN saved[running[t].checkpoint]
       IN  \/ Goes(t, "restore")
           \/ ChangedFiles \cap files = {} /\ CommitForFiles(files) /\ Returns(t)
    /\ UNCHANGED <<worktree, index, head, commits, current, traces, blamed, proposed, saved, acts>>

\* --last looks for the newest checkpoint again.
Restore(t) ==
    /\ running[t].step = "restore"
    /\ LET n == IF running[t].last THEN Len(saved) ELSE running[t].checkpoint
       IN  /\ worktree' = [p \in Paths |-> IF p \in DOMAIN saved[n] THEN saved[n][p] ELSE worktree[p]]
           /\ running' = [running EXCEPT ![t].step = "record", ![t].checkpoint = n]
    /\ UNCHANGED <<index, head, commits, current, traces, blamed, proposed, saved, acts>>

-----------------------------------------------------------------------------
(* The user *)

Acts == acts.user < MaxActs /\ acts' = [acts EXCEPT !.user = @ + 1]

Save ==
    /\ Acts
    /\ \E p \in Paths, c \in States : c # worktree[p] /\ worktree' = [worktree EXCEPT ![p] = c]
    /\ UNCHANGED <<index, head, commits, current, traces, blamed, proposed, saved, running>>

Stage ==
    /\ Acts
    /\ \E p \in Paths :
        /\ index[p] # worktree[p]
        /\ index' = [index EXCEPT ![p] = worktree[p]]
        /\ running' = StagesFor({p}, running)
    /\ UNCHANGED <<worktree, head, commits, current, traces, blamed, proposed, saved>>

\* git rm
Remove ==
    /\ Acts
    /\ \E p \in Paths :
        /\ index[p] # Gone /\ index[p] = worktree[p]
        /\ index' = [index EXCEPT ![p] = Gone]
        /\ worktree' = [worktree EXCEPT ![p] = Gone]
        /\ running' = StagesFor({p}, running)
    /\ UNCHANGED <<head, commits, current, traces, blamed, proposed, saved>>

CommitByHand ==
    /\ Acts
    /\ GitCommits(Nobody, {})
    /\ UNCHANGED <<worktree, index, current, traces, blamed, proposed, saved, running>>

\* sac task new, switch and close
SwitchTask ==
    /\ Acts
    /\ \E k \in (Tasks \cup {Nobody}) \ {current} : current' = k
    /\ UNCHANGED <<worktree, index, head, commits, traces, blamed, proposed, saved, running>>

GitInit ==
    /\ worktree = Committed /\ index = Committed /\ head = Committed
    /\ commits = <<>>
    /\ current = Nobody
    /\ traces = [k \in Tasks |-> {}]
    /\ blamed = [k \in Tasks |-> {}]
    /\ proposed = Nobody
    /\ saved = <<>>
    /\ running = [t \in Terminals |-> AtRest]
    /\ acts = [edits |-> 0, user |-> 0, rollbacks |-> 0]

GitNext ==
    \/ \E t \in Terminals :
        \/ StartCommit(t) \/ GuardCommit(t) \/ AddFiles(t) \/ CheckStaged(t) \/ Commit(t) \/ Stop(t)
        \/ Propose(t) \/ PreviewApply(t) \/ GuardApply(t) \/ ConfirmApply(t) \/ ApplyChange(t)
        \/ RecordOnTask(t) \/ StartRollback(t) \/ GuardRollback(t) \/ Restore(t)
    \/ Save \/ Stage \/ Remove \/ CommitByHand \/ SwitchTask

GitSpec == GitInit /\ [][GitNext]_gitVars

-----------------------------------------------------------------------------
(* Properties *)

\* docs/reference/commands.md:94: with or without --allow-unrelated-changes, a
\* commit of sac has only files that an apply or a rollback of its task wrote,
\* or that the task was refused for, whatever was saved, staged, rolled back,
\* switched or stopped half way before; but for what someone stages after the
\* last look at the index, and the old name of a rename, which git does not list.
CommitsAreTheTasks ==
    \A n \in DOMAIN commits :
        commits[n].task # Nobody =>
            commits[n].changed \subseteq TaskFiles(commits[n].task) \cup commits[n].overlooked

\* docs/reference/commands.md:97: "unrelated tracked or staged changes are
\* refused by default": a refusal does not make them the task's.
UnrelatedIsRefused ==
    \A n \in DOMAIN commits :
        commits[n].task # Nobody =>
            commits[n].changed \subseteq CheckpointFiles(commits[n].task) \cup commits[n].overlooked
=============================================================================
