---------------------------- MODULE SubagentPool ----------------------------
(***************************************************************************)
(* Subagents (subagents/pool.py, executor.py, runner.py, task.py): run_all *)
(* hands requests to a few worker threads, which make a task file each,    *)
(* run the task and write its result file.  Meanwhile the parent may       *)
(* cancel, and sac subagent run in another terminal may take up any task   *)
(* whose file it finds.  Task files are written whole from the copy that   *)
(* their runner holds.                                                     *)
(***************************************************************************)
EXTENDS Naturals, FiniteSets

CONSTANTS
    MaxRequests,
    Invalid,       \* the requests that the executor's checks refuse
    Workers,       \* the threads of the pool
    Terminals,     \* other processes that run existing tasks
    MaxTakeUps, MaxFailures  \* bounds: tasks that terminals take up, failing audit writes

\* A request makes one task at most, so they share their numbers.
Requests == 1..MaxRequests
NoTask == 0

ASSUME PoolAssumption ==
    /\ MaxRequests \in Nat \ {0} /\ Invalid \subseteq Requests
    /\ IsFiniteSet(Workers) /\ Workers \cap Terminals = {}

Runners == Workers \cup Terminals
Outcomes == {"none", "cancelled", "refused", "failed", "success"}

VARIABLES
    taken,      \* requests are taken in order, so how many
    answer,     \* result_by_idx
    cancelled,  \* the cancellation token
    parent,     \* the thread that calls run_all
    status,     \* task.json of every task
    report,     \* the tasks with a result.md
    runner,     \* what every runner is at: step and task
    \* history, read by the properties only
    late,       \* tasks made after the token was set
    overlapped, \* tasks that two runners had at once
    takeUps, failures

poolVars == <<taken, answer, cancelled, parent, status, report, runner, late, overlapped, takeUps, failures>>

Idle == [at |-> "idle", task |-> NoTask]
Move(w, step) == runner' = [runner EXCEPT ![w].at = step]

\* The runner of a request answers it; a terminal has nobody to answer.
Answer(w, outcome) ==
    /\ answer' = IF w \in Terminals THEN answer ELSE [answer EXCEPT ![runner[w].task] = outcome]
    /\ runner' = [runner EXCEPT ![w] = Idle]

-----------------------------------------------------------------------------
(* SubagentPool.run_all.                                                   *)

\* Mutant: the token is not looked at.
AlwaysGo == TRUE

MayGo == ~ cancelled

RunAll ==
    /\ parent = "before" /\ parent' = "waits"
    /\ UNCHANGED <<taken, answer, cancelled, status, report, runner, late, overlapped, takeUps, failures>>

MayTake(w) == parent = "waits" /\ runner[w].at = "idle" /\ taken < MaxRequests

\* Mutant: a request that is refused is taken and never answered.
TakeSilently(w) ==
    /\ MayTake(w)
    /\ taken' = taken + 1
    /\ runner' = IF taken' \in Invalid THEN runner
                 ELSE [runner EXCEPT ![w] = [at |-> "create", task |-> taken']]
    /\ UNCHANGED <<answer, cancelled, parent, status, report, late, overlapped, takeUps, failures>>

\* _run_one looks at the token; execute refuses invalid requests.
Take(w) ==
    /\ MayTake(w)
    /\ taken' = taken + 1
    /\ IF MayGo /\ taken' \notin Invalid
       THEN /\ runner' = [runner EXCEPT ![w] = [at |-> "create", task |-> taken']]
            /\ UNCHANGED answer
       ELSE /\ answer' = [answer EXCEPT ![taken'] = IF MayGo THEN "refused" ELSE "cancelled"]
            /\ UNCHANGED runner
    /\ UNCHANGED <<cancelled, parent, status, report, late, overlapped, takeUps, failures>>

Cancel ==
    /\ ~ cancelled /\ parent # "returned"
    /\ cancelled' = TRUE
    /\ UNCHANGED <<taken, answer, parent, status, report, runner, late, overlapped, takeUps, failures>>

AllDone == \A r \in Requests : answer[r] # "none"

\* as_completed has seen every future, and the with block joins the threads.
ReturnAll ==
    /\ parent = "waits" /\ AllDone
    /\ parent' = "returned"
    /\ UNCHANGED <<taken, answer, cancelled, status, report, runner, late, overlapped, takeUps, failures>>

-----------------------------------------------------------------------------
(* ReadonlySubagentRunner.run and run_existing.                            *)

Create(w) ==
    /\ runner[w].at = "create"
    /\ status' = [status EXCEPT ![runner[w].task] = "pending"]
    /\ late' = IF cancelled THEN late \cup {runner[w].task} ELSE late
    /\ Move(w, "created")
    /\ UNCHANGED <<taken, answer, cancelled, parent, report, overlapped, takeUps, failures>>

\* Two runners have one task.
Meet(w, t) ==
    overlapped' = IF \E v \in Runners \ {w} : runner[v].task = t
                  THEN overlapped \cup {t} ELSE overlapped

Load(w) ==
    /\ runner[w].at = "idle" /\ takeUps < MaxTakeUps
    /\ takeUps' = takeUps + 1
    /\ \E t \in Requests :
         /\ status[t] # "none"
         /\ runner' = [runner EXCEPT ![w] = [at |-> "created", task |-> t]]
         /\ Meet(w, t)
    /\ UNCHANGED <<taken, answer, cancelled, parent, status, report, late, failures>>

\* Mutant: a task with a result is run again.
AnyTask(t) == TRUE

NotYetRun(t) == t \notin report

\* _execute looks for a result file and marks the task as running.
Start(w) ==
    /\ runner[w].at = "created"
    /\ LET t == runner[w].task IN
       IF NotYetRun(t)
       THEN /\ status' = [status EXCEPT ![t] = "running"]
            /\ Move(w, "running")
            /\ UNCHANGED answer
       ELSE Answer(w, "failed") /\ UNCHANGED status
    /\ UNCHANGED <<taken, cancelled, parent, report, late, overlapped, takeUps, failures>>

WriteResult(w) ==
    /\ runner[w].at = "running"
    /\ report' = report \cup {runner[w].task}
    /\ Move(w, "written")
    /\ UNCHANGED <<taken, answer, cancelled, parent, status, late, overlapped, takeUps, failures>>

\* The context cannot be collected or the result not be written.
RunFails(w) ==
    /\ runner[w].at = "running"
    /\ status' = [status EXCEPT ![runner[w].task] = "failed"]
    /\ Answer(w, "failed")
    /\ UNCHANGED <<taken, cancelled, parent, report, late, overlapped, takeUps, failures>>

Complete(w) ==
    /\ runner[w].at = "written"
    /\ status' = [status EXCEPT ![runner[w].task] = "completed"]
    /\ \/ Answer(w, "success") /\ UNCHANGED failures
       \/ Answer(w, "failed") /\ failures < MaxFailures /\ failures' = failures + 1  \* its audit raises
    /\ UNCHANGED <<taken, cancelled, parent, report, late, overlapped, takeUps>>

\* An audit write that raises outside the try block ends the run where it is:
\* execute answers that it failed, and the task keeps its status.
AuditRaises(w) ==
    /\ runner[w].at \in {"created", "running"} /\ failures < MaxFailures
    /\ failures' = failures + 1
    /\ Answer(w, "failed")
    /\ UNCHANGED <<taken, cancelled, parent, status, report, late, overlapped, takeUps>>

-----------------------------------------------------------------------------
PoolInit ==
    /\ taken = 0
    /\ answer = [r \in Requests |-> "none"]
    /\ cancelled = FALSE /\ parent = "before"
    /\ status = [t \in Requests |-> "none"]
    /\ report = {}
    /\ runner = [w \in Runners |-> Idle]
    /\ late = {} /\ overlapped = {} /\ takeUps = 0 /\ failures = 0

RunnerStep(w) ==
    \/ Create(w) \/ Start(w) \/ WriteResult(w) \/ RunFails(w) \/ Complete(w) \/ AuditRaises(w)

PoolNext ==
    \/ \E w \in Workers : Take(w)
    \/ \E w \in Terminals : Load(w)
    \/ \E w \in Runners : RunnerStep(w)
    \/ RunAll \/ Cancel \/ ReturnAll

\* Threads of the pool are scheduled again and again, as is the thread that
\* waits for them.  Nobody has to call run_all.
PoolFairness == /\ \A w \in Workers : WF_poolVars(Take(w) \/ RunnerStep(w))
                /\ WF_poolVars(ReturnAll)

PoolSpec == PoolInit /\ [][PoolNext]_poolVars /\ PoolFairness

-----------------------------------------------------------------------------
\* When run_all returns, no thread of it is at work, and each request that
\* succeeded has a result.  Without a failing audit and a terminal that took one
\* up, no task it made is left pending or running ("No orphan task files or
\* dangling threads are left").  After a cancellation only the threads that had
\* looked at the token before it have begun a task, so at most one each.
NothingLeftBehind ==
    parent = "returned" =>
        /\ \A w \in Workers : runner[w] = Idle
        /\ \A r \in Requests : answer[r] = "success" => r \in report
        /\ failures = 0 =>
             \A t \in Requests \ overlapped :
                 status[t] \in {"pending", "running"} => \E w \in Terminals : runner[w].task = t
        /\ Cardinality(late) <= Cardinality(Workers)

\* A completed task stays completed: it is not run again, so what a merge review
\* has read of it stays its result.  Two runners that took it up at once may.
CompletedStays ==
    [][\A t \in Requests : status[t] = "completed" /\ t \notin overlapped => status'[t] = "completed"]_poolVars

\* run_all returns, whatever fails and whoever cancels.
RunAllReturns == <>[](parent \in {"before", "returned"})
=============================================================================
