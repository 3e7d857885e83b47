------------------------------ MODULE TaskBook ------------------------------
(***************************************************************************)
(* Task sidecars (task/store.py, wiring.py, recovery.py, budget.py) and    *)
(* the commands that write them (cli_fix.py, cli_task.py, cli_resume.py,   *)
(* cli_core.py).  A command finds the current task or makes one, does its  *)
(* work, which may take minutes, and then loads the task's file again,     *)
(* adds a record and replaces the file.  Nothing is locked between two     *)
(* terminals.  INDEX is left out: no code reads it.                        *)
(***************************************************************************)
EXTENDS Naturals, Sequences, FiniteSets

CONSTANTS
    Shells,         \* the terminals, with one command at a time each
    Failures,       \* what a failing test prints, by its hash
    MaxIterations,  \* --max-iterations of sac fix --watch
    MaxTasks, MaxCommands, MaxKills, MaxFailed  \* bounds

Tasks == 1..MaxTasks
NoTask == 0
NoTail == "none"

ASSUME TaskAssumption == {MaxIterations, MaxTasks} \subseteq Nat /\ NoTail \notin Failures

NoRecord == [event |-> "none", status |-> "none", tail |-> NoTail]

VARIABLES
    book,     \* the task of every id made so far, or Gone
    current,  \* CURRENT
    step,     \* what each terminal is at,
    op,       \* its command,
    mine,     \* the command's task,
    held,     \* the copy of it that was loaded last,
    record,   \* and what it will add
    \* history, read by the properties only
    made,     \* how many patches were proposed as a fix of each task,
    lost,     \* and how many of them it has no record of because the file was not written
    shared,   \* tasks that two commands worked on at once, or with one that was killed
    crossed,  \* tasks closed or deleted while a command worked on them
    commands, kills, failed

taskFiles == <<book, current>>
taskLocals == <<step, op, mine, held, record>>
marks == <<made, lost, shared, crossed>>
taskCounts == <<commands, kills, failed>>
taskVars == <<taskFiles, taskLocals, marks, taskCounts>>

Gone == [status |-> "gone", patch |-> FALSE, iterations |-> <<>>]
NewTask == [status |-> "open", patch |-> FALSE, iterations |-> <<>>]
Known == {t \in Tasks : t <= Len(book)}
Exists(t) == t \in Known /\ book[t] # Gone

Rest(s) ==
    /\ step' = [step EXCEPT ![s] = "idle"]
    /\ op' = [op EXCEPT ![s] = "none"]
    /\ mine' = [mine EXCEPT ![s] = NoTask]
    /\ held' = [held EXCEPT ![s] = Gone]
    /\ record' = [record EXCEPT ![s] = NoRecord]

\* Terminals other than s whose command works on task t.
Others(s, t) == {r \in Shells \ {s} : step[r] # "idle" /\ mine[r] = t}

Meets(s, t) == IF Others(s, t) = {} THEN shared ELSE shared \cup {t}
Crosses(s, t) == IF Others(s, t) = {} THEN crossed ELSE crossed \cup {t}

\* Terminal s begins command o on task t at step a, with the copy it will use.
Begin(s, o, t, a) ==
    /\ step[s] = "idle" /\ commands < MaxCommands
    /\ commands' = commands + 1
    /\ step' = [step EXCEPT ![s] = a]
    /\ op' = [op EXCEPT ![s] = o]
    /\ mine' = [mine EXCEPT ![s] = t]
    /\ held' = [held EXCEPT ![s] = IF o \in {"watch", "close", "resume"} /\ t # NoTask
                                   THEN book[t] ELSE Gone]
    /\ shared' = Meets(s, t)
    /\ UNCHANGED <<taskFiles, record, made, lost, crossed, kills, failed>>

-----------------------------------------------------------------------------
(* get_or_create_current_task.                                             *)

\* Mutant: a closed task is used again.
AnyStatus(t) == Exists(t)

Usable(t) == Exists(t) /\ book[t].status # "closed"

Wired == {"edit", "apply", "rollback", "run", "fix", "watch"}

StartCommand(s) ==
    \E o \in Wired :
        IF Usable(current) THEN Begin(s, o, current, "work") ELSE Begin(s, o, NoTask, "create")

\* sac task new.
StartNew(s) == Begin(s, "new", NoTask, "create")

\* TaskStore.create saves the task ...
Create(s) ==
    /\ step[s] = "create" /\ Len(book) < MaxTasks
    /\ book' = Append(book, NewTask)
    /\ mine' = [mine EXCEPT ![s] = Len(book) + 1]
    /\ held' = [held EXCEPT ![s] = IF op[s] = "watch" THEN NewTask ELSE Gone]
    /\ step' = [step EXCEPT ![s] = "point"]
    /\ UNCHANGED <<current, op, record, marks, taskCounts>>

\* ... and makes it the current one; so do switch, resume and an interruption.
Point(s) ==
    /\ step[s] = "point"
    /\ current' = mine[s]
    /\ IF op[s] \in Wired /\ record[s] = NoRecord
       THEN step' = [step EXCEPT ![s] = "work"] /\ UNCHANGED <<op, mine, held, record>>
       ELSE Rest(s)
    /\ UNCHANGED <<book, marks, taskCounts>>

-----------------------------------------------------------------------------
(* What the commands do and record.                                        *)

\* What a failing test leaves as its tail: a hash, or nothing if it printed nothing.
Outputs == Failures \cup {NoTail}

FixRecord(st, h) == [event |-> "fix", status |-> st, tail |-> h]

\* The work of s ends with record r, and with a proposed patch if proposes.
Ends(s, r, proposes) ==
    /\ record' = [record EXCEPT ![s] = r]
    /\ step' = [step EXCEPT ![s] = "load"]
    /\ made' = IF proposes THEN [made EXCEPT ![mine[s]] = @ + 1] ELSE made
    /\ held' = [held EXCEPT ![s] = Gone]
    /\ UNCHANGED <<op, mine>>

\* edit, apply, rollback and run; a command that fails records nothing.
Works(s) ==
    /\ step[s] = "work" /\ op[s] \in {"edit", "apply", "rollback", "run"}
    /\ \/ Ends(s, [event |-> op[s], status |-> IF op[s] = "apply" THEN "applied" ELSE "none",
                   tail |-> NoTail], FALSE)
       \/ Rest(s) /\ UNCHANGED made
    /\ UNCHANGED <<taskFiles, lost, shared, crossed, taskCounts>>

\* sac fix: a passing test needs nothing; a timeout or a failing edit is a
\* failed fix.
Fix(s) ==
    /\ step[s] = "work" /\ op[s] = "fix"
    /\ \/ Rest(s) /\ UNCHANGED made
       \/ \E h \in Outputs : \/ Ends(s, FixRecord("failed", h), FALSE)
                              \/ Ends(s, FixRecord("proposed", h), TRUE)
    /\ UNCHANGED <<taskFiles, lost, shared, crossed, taskCounts>>

Fixes(t) == SelectSeq(t.iterations, LAMBDA r : r.event = "fix")
Failing(t) == SelectSeq(Fixes(t), LAMBDA r : r.tail # NoTail)

\* count_fix_proposals.
Counts(r) == r.event = "fix" /\ r.status \in {"proposed", "applied"}
Proposals(t) == Cardinality({i \in DOMAIN t.iterations : Counts(t.iterations[i])})

\* The failure is that of the last failing fix.
NoProgress(t, h) == h # NoTail /\ Failing(t) # <<>> /\ Failing(t)[Len(Failing(t))].tail = h

\* sac fix --watch decides on the copy it loaded before it ran the tests.
WatchPasses(s) ==
    /\ step[s] = "work" /\ op[s] = "watch"
    /\ Ends(s, FixRecord("passed", NoTail), FALSE)
    /\ UNCHANGED <<taskFiles, lost, shared, crossed, taskCounts>>

\* A timeout, a missing profile and a blocked suite fail before the number of
\* proposals is looked at, no progress and too many proposals because of it.
WatchFails(s) ==
    /\ step[s] = "work" /\ op[s] = "watch"
    /\ \E h \in Outputs : Ends(s, FixRecord("failed", h), FALSE)
    /\ UNCHANGED <<taskFiles, lost, shared, crossed, taskCounts>>

\* A proposal, or an edit that fails, which is not recorded.
WatchProposes(s) ==
    /\ step[s] = "work" /\ op[s] = "watch"
    /\ \E h \in Outputs :
         /\ ~ NoProgress(held[s], h)
         /\ Proposals(held[s]) < MaxIterations
         /\ Ends(s, FixRecord("proposed", h), TRUE) \/ (Rest(s) /\ UNCHANGED made)
    /\ UNCHANGED <<taskFiles, lost, shared, crossed, taskCounts>>

\* Ctrl-C: mark_task_interrupted.  apply and rollback do not catch it.
Interrupt(s) ==
    /\ step[s] = "work" /\ op[s] \in {"edit", "run", "fix", "watch"}
    /\ Ends(s, [event |-> "interrupted", status |-> "interrupted", tail |-> NoTail], FALSE)
    /\ UNCHANGED <<taskFiles, lost, shared, crossed, taskCounts>>

-----------------------------------------------------------------------------
(* record_..._on_task: load, change, save.                                 *)

Load(s) ==
    /\ step[s] = "load"
    /\ IF Exists(mine[s])
       THEN /\ held' = [held EXCEPT ![s] = book[mine[s]]]
            /\ step' = [step EXCEPT ![s] = "save"]
            /\ UNCHANGED <<op, mine, record>>
       ELSE Rest(s)
    /\ UNCHANGED <<taskFiles, marks, taskCounts>>

\* An apply settles the newest proposed fix.
Settled(its) ==
    LET open == {i \in DOMAIN its : its[i].event = "fix" /\ its[i].status = "proposed"}
    IN  [i \in DOMAIN its |-> IF i \in open /\ \A j \in open : j <= i
                              THEN [its[i] EXCEPT !.status = "applied"] ELSE its[i]]

\* Mutant: a record replaces the last one instead of following it.
Overwrite(its, r) == IF its = <<>> THEN <<r>> ELSE [its EXCEPT ![Len(its)] = r]

Noted(its, r) == Append(its, r)

\* Task t with record r added by command o.
Recorded(t, o, r) ==
    LET its == IF r.event = "apply" THEN Settled(t.iterations) ELSE t.iterations
        more == IF r.event \in {"none", "run"} THEN its ELSE Noted(its, r)
        Now(st, patch) == [status |-> st, patch |-> patch, iterations |-> more]
    IN  CASE r.event = "edit" -> Now(t.status, TRUE)
          [] r.event = "apply" -> Now("applied", FALSE)
          [] r.event = "rollback" -> Now("open", t.patch)
          [] r.event = "interrupted" -> Now("interrupted", t.patch)
          [] r.status = "proposed" -> Now("open", TRUE)
          [] r.status = "passed" -> Now("applied", FALSE)
          [] r.event \in {"fix", "budget"} /\ r.status = "failed" -> Now(t.status, t.patch)
          [] r.event = "run" -> t
          [] o = "close" -> Now("closed", t.patch)
          [] o = "resume" -> Now("open", t.patch)

Save(s) ==
    /\ step[s] = "save"
    /\ book' = [book EXCEPT ![mine[s]] = Recorded(held[s], op[s], record[s])]
    /\ crossed' = IF op[s] = "close" THEN Crosses(s, mine[s]) ELSE crossed
    /\ IF op[s] = "resume" \/ record[s].event = "interrupted"
       THEN /\ step' = [step EXCEPT ![s] = "point"]
            /\ held' = [held EXCEPT ![s] = Gone]
            /\ UNCHANGED <<op, mine, record>>
       ELSE Rest(s)
    /\ UNCHANGED <<current, made, lost, shared, taskCounts>>

\* A file cannot be read or written.  Every command swallows that but for task new,
\* switch, close and resume, which end; one without a task goes on and records nothing.
RecordFails(s) ==
    /\ step[s] \in {"create", "point", "load", "save"} /\ failed < MaxFailed
    /\ failed' = failed + 1
    /\ lost' = IF record[s].status = "proposed" THEN [lost EXCEPT ![mine[s]] = @ + 1] ELSE lost
    /\ Rest(s)
    /\ UNCHANGED <<taskFiles, made, shared, crossed, commands, kills>>

-----------------------------------------------------------------------------
(* sac task switch, close, delete, sac resume, and the agent's budget.     *)

Switch(s) == \E t \in Known : Exists(t) /\ Begin(s, "switch", t, "point")

Close(s) == \E t \in Known : Exists(t) /\ Begin(s, "close", t, "save")

\* The task that is named, or the current one, or the newest that can go on.
Resumable(t) ==
    /\ Exists(t)
    /\ book[t].status # "closed"

Resume(s) ==
    \E t \in Known :
        /\ Resumable(t)
        /\ Begin(s, "resume", t, IF book[t].status = "interrupted" THEN "save" ELSE "point")

\* The agent loop has used up a budget of the current task: record_budget_exceeded.
AgentBudget(s) ==
    /\ Usable(current) /\ Begin(s, "agent", current, "budget")

BudgetRecord(s) ==
    /\ step[s] = "budget"
    /\ Ends(s, [event |-> "budget", status |-> "failed", tail |-> NoTail], FALSE)
    /\ UNCHANGED <<taskFiles, lost, shared, crossed, taskCounts>>

\* TaskStore.delete unlinks the file and then looks at CURRENT.
Delete(s) ==
    /\ step[s] = "idle" /\ commands < MaxCommands
    /\ commands' = commands + 1
    /\ \E t \in Known :
         /\ Exists(t)
         /\ book' = [book EXCEPT ![t] = Gone]
         /\ current' = IF current = t THEN NoTask ELSE current
         /\ crossed' = Crosses(s, t)
    /\ UNCHANGED <<taskLocals, made, lost, shared, kills, failed>>

Kill(s) ==
    /\ step[s] # "idle" /\ kills < MaxKills
    /\ kills' = kills + 1
    /\ shared' = shared \cup {mine[s]}
    /\ Rest(s)
    /\ UNCHANGED <<taskFiles, made, lost, crossed, commands, failed>>

-----------------------------------------------------------------------------
TaskInit ==
    /\ book = <<>> /\ current = NoTask
    /\ step = [s \in Shells |-> "idle"]
    /\ op = [s \in Shells |-> "none"]
    /\ mine = [s \in Shells |-> NoTask]
    /\ held = [s \in Shells |-> Gone]
    /\ record = [s \in Shells |-> NoRecord]
    /\ made = [t \in Tasks |-> 0] /\ lost = [t \in Tasks |-> 0]
    /\ shared = {} /\ crossed = {}
    /\ commands = 0 /\ kills = 0 /\ failed = 0

TaskStep(s) ==
    \/ StartCommand(s) \/ StartNew(s) \/ Create(s) \/ Point(s)
    \/ Works(s) \/ Fix(s) \/ WatchPasses(s) \/ WatchFails(s) \/ WatchProposes(s)
    \/ Interrupt(s) \/ BudgetRecord(s)
    \/ Load(s) \/ Save(s) \/ RecordFails(s)
    \/ Switch(s) \/ Close(s) \/ Resume(s) \/ AgentBudget(s) \/ Delete(s) \/ Kill(s)

TaskNext == \E s \in Shells : TaskStep(s)

TaskSpec == TaskInit /\ [][TaskNext]_taskVars

-----------------------------------------------------------------------------
\* A task's file has every proposed fix but those whose record could not be written,
\* and sac fix --watch, which goes by their number, sees them all; only a command that
\* overlapped with another, or with a kill, or whose task was closed or deleted, may
\* undo more.  However they overlap, no proposal is counted that was not made.
NoFixIsLost ==
    /\ \A t \in Known \ (shared \cup crossed) :
         Exists(t) /\ (\A s \in Shells : mine[s] # t) => Proposals(book[t]) + lost[t] = made[t]
    /\ \A s \in Shells :
         op[s] = "watch" /\ step[s] = "work" /\ mine[s] \notin shared \cup crossed
            => Proposals(held[s]) + lost[mine[s]] = made[mine[s]]
    /\ \A t \in Known : Proposals(book[t]) + lost[t] <= made[t]

\* Whoever closes or deletes a task is done with it: only a command that was at work
\* on it then may bring it back, with the status it records without looking.
EndedStays ==
    [][\A t \in Known : t \notin crossed /\ book[t].status \in {"closed", "gone"}
                        => book'[t].status \in {"closed", "gone"}]_taskVars
=============================================================================
