# SafeCode in TLA+

A formal model of the parts of SafeCode (`src/safecode`) that decide what may
change a user's project, what may run, and what is remembered about it: the
patch transaction, the execution gate of the sandbox, the gate of MCP writes, the
configuration with its commands and hooks, the agent loop with its conversations
and its calls of a model, the subagents, MCP servers and calls, the audit trail, what runs in a sandbox, the delivery with git,
and the files that keep tasks, journals,
memory and the index. TLC checks the modules on small instances and TLAPS proves
all their safety properties, but those of the violation runs, for every value of their constants.
Paths below are relative to `src/safecode` unless they start with `docs/` or
`tests/`.

## 1. Inventory

| Component | State it keeps | Operations | Model |
| --- | --- | --- | --- |
| Patch application, checkpoints (`patch/`, `checkpoint/`) | project files, `.sac/checkpoints/*` | create a checkpoint, apply, in-process rollback, rollback of a checkpoint | `PatchText`, `PatchTransaction`, `AtomicPatch`, `PatchRefinement` |
| Orchestrator (`agent/orchestrator.py`) | `.sac/pending_patch.json` | edit, apply, rollback | `PatchTransaction` (partly), `AgentLoop` (pending files), `CommandGate` (hooks of an apply) |
| Native write tools (`agent/write_tools.py`) | none of its own | `edit_file`, `write_file` | `PatchTransaction` |
| Sandbox gate (`sandbox/execution.py`, `approvals.py`, `preflight.py`) | pending proposal, approval files and their locks, result records | propose, discard, approve, revoke, preflight, claim, execute, record | `SandboxGate` |
| Sandbox plans and backends (`sandbox/factory.py`, `adapter.py`, `seatbelt.py`, `bubblewrap.py`, `docker.py`, `preflight.py`, `executor_preflight.py`) | preflight records; what a proposal keeps of a plan | plan, propose, preflight, rebuild, run | `SandboxPlan` |
| Git delivery (`git/local.py`, `cli_commit.py`, `cli_core.py`, `task/wiring.py`) | index, HEAD, CURRENT, files of a task | `sac commit`, the guards of `sac apply` and `sac rollback` | `GitCommit` |
| Audit trail (`audit/`) | `.sac/logs/events.jsonl`, the anchor file | write, verify | `AuditLog` |
| MCP write gate (`mcp/proposal.py`, `approval_grant.py`, `runner.py`, `loop_executor.py`) | pending proposal, grants | propose, approve, reject, grant, revoke, execute, discard | `McpWrite` |
| MCP servers (`mcp/lifecycle.py`) | PID files, processes | start, stop, restart | `McpServer` |
| MCP calls (`mcp/transport_stdio.py`) | a child, its pipes, a reader thread | `call_stdio` | `StdioCall` |
| Agent loop and session (`agent/loop*.py`, `session.py`, `validation.py`, `approval_tier.py`, `multi_tool_turn.py`) | session file, its journal, write count, step budget | run, native_step, step, validation, abort, clear, resume | `AgentLoop` |
| Interactive shell (`shell/`, `agent/conversation.py`, `cli_session.py`) | per terminal a manifest, messages, a loop; the files of a conversation; its pending patch | open, requests, slash commands, Ctrl-C, `sac session` | `ShellConversation`, `AgentLoop` (approvals, `/continue`) |
| LLM clients (`llm/`) | tokens used last, `cost.json` | ask, plan, choose, propose a patch, with retries and a fallback | `ModelCall` |
| Subagents (`subagents/`) | task and result files, worker threads, cancellation token | run_all, cancel, `sac subagent run` | `SubagentPool` |
| Configuration (`config.py`) | none; reads two files and the environment | load, merge, presets | `ConfigMerge` |
| Commands and hooks (`shell/runner.py`, `policy/`, `hooks/`) | hook approvals | `sac run`, `sac test run`, `run_command`, hooks of an apply, `sac hooks approve` | `CommandGate` |
| Tasks (`task/`, `cli_fix.py`, `cli_task.py`) | one JSON file per task, the current one | create, record, switch, close, delete, fix, watch, interrupt, resume | `TaskBook` |
| Journals, memory, queue (`state/`, `memory/`, `queue/`) | files of records | add, evict, settle, prune, clear | `RecordFiles` |
| Embedding index (`index/`) | an SQLite table | build, forced build, rebuild | `EmbeddingIndex` |
| Context collection, evaluation, release checks, reports, other CLI commands | various caches and reports | | not modelled (section 6) |

How they interact: the loop asks the model for the next action and turns a patch
intent into a proposal (`edit` writes the pending file); the user's prompt, `sac
apply` or an auto-apply hands it to `apply`, which takes a checkpoint, writes
the files, removes the pending file and writes audit events. Native tools write
files inside a turn through the same checkpoint and applier, without a proposal.
Sandbox proposals and approvals are files that several commands share. Every
command that changes something writes to the one audit log. Components share
state through files only; there are no locks except the approval's lock file.

What is hard: two SafeCode processes (a shell and a command in another terminal)
and the user's editor between any two accesses to the disk; a kill at any step;
an operation that fails half-way, also while undoing; copies of state that are
saved after someone else wrote; a lock that may be stolen from a slow owner;
approvals that expire or are revoked while they are used; settings that are
edited after they were loaded; something awaited that never ends. `PROJECT.json`
lists these hazards at their lines, with the properties that cover them.

What makes each component correct:

- patch: an apply is all or nothing; whatever was written can be restored; no
  content is overwritten that was not looked at;
- gate: an approval executes once; a dead approval executes nothing; only
  what was checked is executed; an attempt leaves a record;
- plans: what runs is what was reviewed, and within the configuration that the
  execution has loaded;
- git: a commit of SafeCode has the files of its task only;
- audit: an undisturbed log verifies, an edited one does not, `ok` speaks of the
  current log;
- loop: no plan item is skipped, nothing is applied that needed a review, a run
  stops where the user has to decide, and it ends;
- conversations: a turn runs in the conversation and mode that its terminal shows, and
  nothing said is forgotten unsummarised;
- model calls: every request is counted once, and retries have a bound;
- MCP writes: what was approved, and nothing else, is executed, and executed once;
- servers and calls: a server that was started can be stopped, and no command or
  call waits for ever;
- subagents: every request is answered, a cancellation leaves nothing half-done
  and a completed task stays so;
- configuration and commands: a project's file does not loosen the user's, and
  what runs has the consent that the settings it runs under ask for;
- tasks, records, index: one command after the other loses nothing, bounds
  that a user asked for hold, and what is stored is what was given.

## 2. Modules

### Patch transaction

`PatchText` is the pure part: a file is a function from regions to text, a
SEARCH pattern fixes some regions, `Matches`, `Updated`, `Result` and `Targets`
say what the blocks of a patch make of a file.
`PatchTransaction` has the disk, the pending patch, the checkpoints and, per
process, the locals of `apply` or `rollback`. There is one action per step that
touches the disk: `BackupBlock` (one turn of the loop in
`CheckpointManager.create`), `WriteMetadata`, `Prepare`, `CheckUpdate` (the
comparison before the rename), `ReplaceFile`, `ApplyCreate`, `ApplyDelete`,
the undo steps, and the copies of a restore. Faults (`BackupFails`,
`OperationFails`, `SyncFails`, a failing restore), kills and the user's edits are
actions too. `Prepare` reads all targets at once and the audit events of an apply
are one step. The guard against targets that git calls dirty, which only refuses
applies, is in `GitCommit`. The native tools leave no audit event, though
`agent/write_tools.py:8` and `docs/public-contracts.md:211` say so of every write;
`audited` shows it, and no property is about it.

`AtomicPatch` is the promise: contents are saved under a number later than any before,
then a patch takes effect in one step or not at all, and saved contents can be brought back.
`PatchRefinement` maps the detailed state to it (a patch under way or being
undone is not yet seen, a restore under way is seen at once; what is saved is what
the checkpoints with a `metadata.json` keep).

### Sandbox gate

`SandboxGate` has the pending proposal, per proposal its approval file, lock file
and result record, and per process a program counter and what
`claim_for_execution` has read. Every access to a file is an action, so the
locked read-modify-write, the takeover of a lock older than 60 seconds, the
revocation that takes no lock and a crash in between all interleave. Proposal ids are
never reused, so the number of a grant stands for the hashes that bind it.
What the sandbox runs is in the next module: here an execution ends well or not.

### Sandbox plans

`SandboxPlan` has the text that a backend is given: `Profile`, `Arguments` and
`Container` build it from a request, with the configuration, the links and the
directories of the moment, and say by it what is mounted writable and whether there
is a network. A proposal keeps the hash, the network and the paths that were granted
(`Proposal`), and `execute_pending` makes the text anew from these (`Rebuilt`).
One terminal executes (`LoadOffer`, `CheckOffer`, `ClaimOffer`, one action per
backend) while others propose and discard and the host changes. A hash is
perfect: the proposal keeps the text. A path is one of four kinds.
A read-only run that names paths gets another profile under Seatbelt than was
reviewed, since a proposal does not keep paths that are only read, so it is
always refused, after its approval was spent (`ForgetsReads`); nothing in the
documents promises otherwise.

### Git delivery

`GitCommit` has the working tree, the index and HEAD per path, and per terminal
one command at a time, with an action for every call of git and every access to `.sac`. `TaskFiles`
is what the code takes for the task's: the files of the checkpoints it has recorded
and of audit events with its id. `UnrelatedFiles` reads `status` as the code does, in particular
a rename under its new name only. `Stop` ends a command half way with whatever was staged.

### Audit trail

`AuditLog` splits `AuditLogger.write` into `ReadHead`, `AppendLine`, `CountLines`
and `WriteAnchor`, and `verify_integrity` into its two reads. A hash is perfect: it is
the sequence of the bodies up to its line. A kill may leave a torn last line;
whoever edits the log may recompute its hashes, but not the anchor. A line is written with
`ensure_ascii=False` and read with `splitlines()`: an event with U+0085, U+2028 or U+2029 in a text
(`split`) is read back as two lines of which none parses (`Pieces`), so the log does not
verify any more, and a write that finds such a line last raises.

### Agent loop

`AgentLoop` has one session: that of a shell conversation or the global one of
`sac agent` (`scoped`), chosen in `Init`. `Work` holds the loop's own steps: one
action per branch of `native_step`, `step` and their helpers, each with the
save at its end and what `run` makes of the result (`SaveStep`, `Turnover`). `User`
holds requests, approvals and the commands of another terminal. A step works on `mem`, the session
as it was read, and writes it back whole: an abort in between is lost, as in the
code. The look for a pending proposal (`Draft`), the write of a new one after the
model's answer (`Edit`), its application (`AutoApply`), the removal of its file
(`Unlink`) and the save of the step (`FinishAutoApply`) are separate steps, with a late
failure, Ctrl-C or kill between them, and with a `sac edit` of another terminal at any of them
(`SacEdit`). One that comes while the model drafts is replaced all the same (`overtaken`), and
`Unlink` removes whatever file is there by then.

The guard on native writes looks before a turn, in `auto_edit` only (`agent/loop.py:251-253`),
and a turn is counted when it has ended, so `GuardBoundsWrites` bounds what is written without
the user by a turn more than the guard. A `ValueError` from a turn keeps the loop and loses the
count of its writes (`TurnRaises`, `shell/runtime.py:359-365`; `missed`). `docs/public-contracts.md:214-215`
promises more: a pause after 10 writes, in full-auto as well. `full_auto_guard` shows that
there is none there.

Abstractions: a step of the native protocol or of the older one is
chosen each time; the save that ends a step and the load that begins the next
are one step; a patch is the sequence of the kinds of its blocks, where a patch
over the limits of the auto tier counts as one with a `logic` block; a pending
action is reduced to whether it asks and whether it is a command; the stuck check and
the task budget are choices; the write count is kept in `auto_edit` only, the one
mode that reads it; the journal is kept for the global session only, whose
`resume_from` reads it. One loop process works on a session, and a conversation never copies the
global session.

### Conversations

`ShellConversation` has the manifests, the `latest` file and the message files, and
per terminal what `run_agentic_shell` holds: the manifest it read, the mode, the
buffer and the loop, each of which the slash commands replace or keep. Messages are
numbered; a summary carries the numbers of the messages it has a line of, so `Compressed` can lose or
double one. The code keeps 200 characters of each message it replaces, an older summary included, so of that
one nothing but its beginning stays: a summary made from one (`made = 2`) tells no more than the messages it
has replaced in their own words. `Loaded` cuts at twice the number of turns and drops everything at a line
that cannot be read. A terminal is one thread; a write may break off (`WriteBreaks`), with or without
the end of its process, since `_persist` ignores errors.
The session of an earlier version is taken over step by step, by a command of its own (`StartMoving`,
`LookForMessages`, `MoveMessage`, `AllMoved`): the manifest comes first, and where it is
there nothing is taken over again, so a break in between (`MovingBreaks`) is final.

### Model calls

`ModelCall` has the request of one operation (`asking`) and the four layers
that repeat it, from the inside: `retry_call` (`Refused`), the fallback
(`Unreachable`), the second request of `propose_patch` (`Prose`), and the callers: one
more step after an answer off the contract, one more patch after a parse error and one after a
failed validation. An answer's tokens go to `cost.json` in a read and a replace without
a lock. `FanOutLLMClient` has no `choose_tool_native`, so the loop falls back to the
JSON protocol whenever a fallback is configured (`agent/loop.py:196`), which no document says; an
answer that times out while it is read is neither retried nor sent to the fallback.

### MCP write gate

`McpWrite` has the one pending proposal file, the grants, and two kinds of process:
commands that propose, decide, grant or discard, and executions, by the approved
path (`execute_approved_write` through the loop's executor) or by a grant. Each
access to a file is an action; a kill or an audit write that raises (`Stop`) may
end any of them, and the deletion of a consumed grant may fail. The server's part
is a choice: a write may have happened although the call says it was blocked.
The code does not look at scope or configuration again when it executes, and
compares a granted call with its grant by server and tool only. Nothing in
`src/` outside the tests approves a pending proposal or makes a grant, so these are
actions of whoever calls the library.

### MCP servers and calls

`McpServer` has the PID file, the processes of the system with reusable numbers, and
`sac mcp start`, `stop` and `restart` step by step: the look at an existing PID,
`Popen`, the write of the file, `SIGTERM`, the wait, `SIGKILL`, the deletion.
`StdioCall` is one call: the request written to a pipe that holds a bounded
amount, a reader thread with a limit, a child that answers, writes on, does not
read, stays or hands its output to a child of its own, and the deadlines.

### Subagents

`SubagentPool` has the requests of one `run_all`, its threads, the token, the task
and result files, and other terminals that run a task by its id. A runner's
steps are the checks, the start, the result, the completion and the audits, any of
which may raise.

### Configuration, commands and hooks

`ConfigMerge` is pure: `Load` of two files and `SAFECODE_POLICY`, with the merge,
the presets and what outlives them, and `AsStrict`, what it means that settings let
through no more than others. `CommandGate` lets processes load the files once, as
the code does, and work with what they loaded: `sac run`, `sac test run`, the tool
`run_command` and the hooks of an apply, while the files are edited, and
`sac hooks approve` appends to a file whose last line may be torn. A command is its
executable, its risk, whether its arguments are refused, and a host.

With hooks disabled by the settings, the audit calls a hook skipped, but the code
runs it all the same where the policy asks for no consent
(`hooks/runner.py:72-80`); the model does too. The hooks of a test run also if the
test was blocked. `sac run` runs a medium command after a "no" when the policy
asks for no confirmation, which `sac test run` does not ask about.

### Tasks, records, index

`TaskBook`: every command finds its task, works, loads the file again, and
writes it whole; commands may overlap, be killed or interrupted. A record that cannot be written is
given up without a word (`RecordFails`, `cli_fix.py:389-390`; `lost`).
`RecordFiles` has six files of records with one abstract shape: read, change, truncate,
write, with a cap on their number, for the workspace memory also one on the size of the file (`Fits`: the oldest
go while it is too large and more than `MinKept` are left, `memory/workspace_memory.py:278-281`), with
lines that cannot be read back (`U+2028`), and kills. `kind` picks the
file. `EmbeddingIndex` has the sources, cut into chunks, and the table in
batches inside one transaction, with a second builder that fails to get the lock, an
edit meanwhile and the later installation of the embedding library.

## 3. Runs

| Run | Module | Shows |
| --- | --- | --- |
| `patch_faults` | `MCPatchCrew` | one process, a two-file patch or two merged blocks, up to two of a fault, a kill and an edit at any step; or two processes without a lock: checkpoints cover writes, backups are the preimage, a failed apply restores, an apply is whole, a rollback undoes |
| `apply` | `MCApply` | creates, deletes and updates refine `AtomicPatch` (`AllOrNothing`) with a failing backup or write; commands and hooks run as the settings and approvals allow (`RunsAreTheUsers`, `HooksArePermitted`); 57600 pairs of configuration files times two values of `SAFECODE_POLICY` (`TightensWithin`) |
| `sandbox_gate` | `MCExecution` | the gate: two processes, a good and a refused proposal, two grants, one expiry, crash and aged lock; plans on four hosts with changes of configuration, links and tools (`RunsAsReviewed`); two terminals and a user around commits (`CommitsAreTheTasks`) |
| `stores` | `MCStores` | two processes on each of the files written without a lock: audit log, MCP proposals and grants, tasks, records, index, and the costs of the model calls they make (`UsageIsCounted`, `RequestsAreBounded`) |
| `workers` | `MCWorkers` | what somebody waits for ends: agent runs, subagents, server commands, a call (liveness) |
| `agent_loop` | `MCConversations` | the loop in auto_edit and full_auto with Ctrl-C, kills, turns that raise, and `sac edit` of another terminal at any step; a terminal with its conversations, one of them taken over message by message (`TurnsFollowTheConversation`, `NothingForgotten`) |
| `undo_latest` | `MCPatchTransaction` | violation: `rollback --last` restores the checkpoint of a failed apply, the most recent write stays |
| `refused_commit` | `MCGitCommit` | violation: an unrelated file for which `sac apply` was refused is committed as the task's |
| `sandbox_takeover` | `MCSandboxGate` | violation: two claimers of one stale lock both claim the approval |
| `full_auto_guard` | `MCAgentLoop` | violation: a full_auto loop writes past the guard without a pause |
| `agent_command` | `MCAgentLoop` | violation: a command in the second batch of a turn runs without a prompt |
| `project_lowers` | `MCCommandGate` | violation: a project file that names a policy has a preset applied over the user's stricter settings |

A violation run has one property that states what a document or a comment of the
repository says; `PROJECT.json` quotes it under `findings`.

`apply`, `sandbox_gate`, `stores`, `workers` and `agent_loop` put several components into one run. These
share no state, so `part` picks one in `Init` and the variables of the others
stay at one initial value: the states are the sum of the parts, not the product, and
each property is about one part. The parts of `stores` name their processes alike, so that
one symmetry serves them all.

Several properties name the disturbance they exclude, through history variables
(`raced`, `sinceCheck`, `overtaken`, `swapped`, `overlapped`, `tripped`, `repaired`,
`tangled`, `shared`, `crossed`, `mixed`, `cut`, `skewed`, `split`, `missed`, `lost`, `damaged`), a step
(`overtaken` of the loop) or an operator (`Loosens`). Each is set only where
the code itself has no protection, so the
property says that nothing else goes wrong. The excluded case is shown by a
violation run, or is named under `hazards` or at the end of section 6.

### Bounds, and why they are enough

- Files 2, regions 2, texts 2: two files tell apart "the first was written, the
  second not"; two regions let two blocks of one file merge or conflict.
- Processes 2: the races found need two actors, the user's edit being a third. In
  `patch_faults` the two apply one patch and roll back the last, without faults.
- Checkpoints 2: one to restore and a newer one that must not be taken for it.
- One fault, kill, edit, expiry or aged lock each, and in `patch_faults` two of
  these in a behaviour (`MaxTroubles`): a second of a kind repeats a
  case from a state that is already explored.
- Grants 2, so that a re-approval can overtake a claim; audit events 2, one for
  each writer, one of them with a line separator, since `SerialVerifies` and `OkIsCurrent`
  are proved for any number.
- MCP: two proposals, or one and a failing deletion, one grant, three calls (a read, a
  write and one whose payload differs).
- Tasks: two tasks, three commands or two and a kill or failing record, `--max-iterations` 1, one kind of
  failure. Records: a cap of 3 on their number, of 1 large one on the size, at least 1 kept, and
  four records, so that either cap evicts and the size evicts down to what it must leave; two changes of
  kept records (settling, pruning, clearing), one kill, one line that cannot be read. Index: two sources of up
  to two chunks of two texts (the second begins with at most one), batches of two, two
  builds, one change in between.
- Plans: five configurations, four hosts and three sets of paths, two proposals and a
  change, or one and two. Git: three paths (two of one folder, one of them new), two
  contents, two tasks, two commits; one terminal with four acts of edits, user and
  rollbacks, or two terminals with two.
- Workers: four requests on two threads, one of them invalid, one raising audit, one
  other terminal; three server commands by two managers, two process numbers, so
  that one is reused; an output limit of two pieces and four written, so that it is passed.
- Commands: one worker, since two would share nothing but what neither writes, and
  one approver; two user files, three project files, one edit, two approvals,
  one torn line. The `files` part has one state per pair.
- Conversations: turns 2, batches of 1, a threshold of 1, so that appending, a step and
  `/compact` all compress within four inputs; two tool results, so that a file outgrows
  the window of four; two conversations and one of an earlier version, of one turn, which is taken
  over in two messages; one terminal, as
  what two do to one conversation is excluded (`shared`) and they share nothing else but `latest`.
  Model calls: two attempts, two operations, or one and a kill or failing save. What
  `stores` checks of MCP, tasks and model calls is proved without these bounds.
- Loop: guard 1 and cap 2 stand for 10 and 20, so the guard can be passed by a
  turn that goes beyond it; one write missed by a turn that raises (`MaxMissed`); in `full_auto`, where no
  counter reads them, writes up to `MaxUnguarded`; two patches, so that one can replace the
  other, the second in the last step of a run or from another terminal; one plan of up to two
  items and runs of two steps, so that a resume can rewind or jump. `agent_loop` has the modes in
  which something is applied unasked, auto_edit and full_auto; what differs in suggest is that nothing is, and
  `agent_command` is in it. `plan_mode` is left out because it removes behaviours only. In `workers`
  the loop has one patch, which liveness does not depend on.

### Fairness

Only `workers` assumes fairness, always weak, and of nothing a user decides.

- `LoopFairness`: `Work`. The steps of a run are the code of one thread: its waits (model
  calls, tools, suites) have timeouts, and their failures are actions as well.
- `PoolFairness`: each thread of the pool, and the thread that collects the results.
  A terminal may stop for ever.
- `ServerFairness`: a manager that has begun, and the system, which removes a process that was
  killed. A server may ignore `SIGTERM`, and nothing is assumed of it.
- `CallFairness`: the caller, with the kill it sends, and its reader thread. The
  server is not fair: it may never read, write or end. `Popen` is not fair either.

Deadlock is checked for `agent_loop` (where nothing may stop but a terminal that was left);
the other runs stop
when their bounds are used up and every process is idle, so it is off there.

## 4. Proofs

Eight modules hold theorems, all checked by TLAPS to the last leaf. Each assumes what
the named assumption of its modules says of the constants, and nothing else: that
bounds are naturals (`LoopAssumption`, `TalkAssumption`, `AskAssumption`, `TaskAssumption`, `PoolAssumption`,
`RecordAssumption`, `IndexAssumption`, `BoundAssumption`), that inputs have their types (`PatchAssumption`, `CommandAssumption`,
`McpAssumption`, `PlanAssumption`, `GitAssumption`), that a mark such as `Absent` or `NoPid` is not one of the values it marks the lack of
(`ContentAssumption`, `ServerAssumption`), that threads and callers are
finitely many. No theorem bounds the number of processes, files, proposals,
patches, faults or edits; the `Max...` bounds are arbitrary naturals in all of them.

| Module | Theorems that state a checked property | Invariant they rest on |
|---|---|---|
| `PatchTransactionProofs` | `WritesHaveCheckpoint`, `ReplacesWhatItChecked`, `BackupIsPreimage`, `RollbackUndoesWrites`, `AppliedIsWhole`, `FailedApplyRestores`; `AllOrNothing` | `Inductive`, `Faithful`; `Solo` |
| `SandboxGateProofs` | `SingleClaim`, `NoClaimOfDead`, `PreflightCovers`, `ReturnedIsSettled`; `RunsAsReviewed`; `CommitsAreTheTasks` | `Inductive`; `PlanInductive`; `GitInductive` |
| `AuditLogProofs` | `SerialVerifies`, `OkIsCurrent`, `EditsAreNoticed` | `Inductive`, `Snapshots`, `Anchoring` |
| `McpWriteProofs` | `WritesArePermitted`, `ApprovedRunsOnce` | `Inductive` |
| `WorkersProofs` | `OneServer`; `NothingLeftBehind`, `CompletedStays` | `ServerInductive`; `PoolInductive` |
| `AgentLoopProofs` | `NoItemSkipped`, `PendingIsUnapplied`, `GuardBoundsWrites`, `CreateDeleteIsReviewed`, `OnlyARepairReplaces`; `TurnsFollowTheConversation`, `NothingForgotten` | `LoopInductive`; `TalkInductive` |
| `StoresProofs` | `RequestsAreBounded`, `UsageIsCounted`; `NoFixIsLost`, `EndedStays`; `KeepsWhatItWasGiven`; `StoresWhatIsNew` | `AskInductive`; `TaskInductive`; `RecInductive`; `IndexInductive` |
| `CommandGateProofs` | `TightensWithin`, `RunsAreTheUsers`, `HooksArePermitted` | `GateInductive` |

Each module also proves its type invariant, which is in no run (the types say less
than the properties, and TLC checks those); it is the first conjunct of the
invariant in the last column. Why the rest of that invariant is needed:

- Patch transaction. That a write has a checkpoint is not inductive: it needs a checkpoint
  that was finished before. `Inductive` adds `Locals` (what `mine`, `at` and
  `blocks` of a process are at each step, in particular that `at` indexes `blocks`) and
  `Coverage` (from `prepare` on, the checkpoint of a process is complete and has every
  target). `Faithful` is about contents, with a part for each stage of a patch. `Sole`
  (no two processes are at one checkpoint) and `Stages` (what each step knows of its
  loop) make the rest local to a process. `Saved` says that a target has the saved
  content from its backup to its first write, and `Originals` that `_prepare_operations` read
  that content: `BackupIsPreimage` follows. `RestoredFiles` says what the files
  already restored have while a checkpoint is copied back, for entries that name a file
  twice; at the end of the loop that is `RollbackUndoesWrites`. `AppliedFiles` says
  that a file shows the last operation done on it, or all blocks of its merged update, and that the
  file of a finished create or delete is one of `moved`, so no update follows it; at
  the end that is `AppliedIsWhole`. `UndoneFiles` says that a target of which no
  operation stands has its original content, and `FailedApplyRestores` is the
  case in which none stands any more. `Updated` takes the text
  of each region from the last block that covers it, so a merged update needs no induction
  along the patch.
- `AllOrNothing` (`ApplyIsAtomic`) is the refinement of `AtomicPatch`, for any files, patches and
  number of faults. It assumes what `PatchRefinement` is about: one process
  (`Procs = {Worker}`), faults in backups and writes only, and in `Calm` that nobody edits,
  nothing is killed and no undo fails. `Solo` is what then holds besides `Faithful`:
  nobody else was at a file (`Undisturbed`), what is applied is a patch that was
  given and whose creates and deletes find what they are for (`Given`, so
  `Unforeseen` is empty), and its checkpoint is the newest and keeps its targets
  alone (`Newest`). `WriteMetadata` is `Save`, `OperationsDone` is `Apply`,
  `StartRollback` is `BringBack`, and no other step is seen: the end of a failed apply by
  `FailedApplyRestores`, the end of a rollback by `RestoredFiles`.
- What the first proof found out: `FailedApplyRestores` was false as first written. With a
  caller that hands the library its blocks (`StartDirect`), a create whose path somebody takes
  between the proposal and the apply is undone by `unlink` (`patch/applier.py:108-112`),
  which removes a file the patch never made, and the undo of a delete whose file was gone
  leaves an empty one. The property now excludes these targets by name
  (`Unforeseen`). `patch_faults` has no direct patches, the theorem covers them.
- Execution gate. That a grant is claimed once needs to know who is in
  the critical section: `Owner` (whoever is in it owns the lock file, unless it
  was overtaken), `Reading` (what the owner has read is still in the file, or the
  grant is dead), `Unclaimed` (a grant that is not consumed counts no
  claim), with `Working` and `Bound` tying grants to proposals. `Covered` and
  `Settled` carry the preflight's verdict and the record to the steps that use them.
- Sandbox plans. `Reviewed` says that a proposal has the text of its request as the links, the
  configuration and the directories it keeps made it; with `Canonical` (what a path resolves
  to is no link, which `Relink` keeps) the granted paths are granted again from the proposal, so a
  text that differs means that something changed. `Running` carries the preflight's look at
  the network to the run.
- Git delivery. `Delivering` says that a terminal at work has a task and a checkpoint that is there,
  `Staging` that what it will add, and has found staged, is among the files of its task,
  and `Committing` that so is what was committed. It is inductive because a
  task's files only grow.
- Audit trail. `Tidy` says that as long as writes do not overlap, none had a line separator and nobody
  disturbs the log it is a chain and the writer under way knows its head; `Snapshots` says what the log a
  verification has read holds.
  `Anchoring` says that the anchor names the head the last append left, whatever was done to the log
  since. That settles `EditsAreNoticed` because two chains with one head are one log
  (`HeadDeterminesLog`): each hash counts the lines up to its own, and each line has the
  hash of the one before it. Both facts go through the least line at which they would fail, so
  no induction principle is needed.
- MCP writes. `Races` says that two processes at the same step of one proposal know of the race;
  `Ordered` that a status on disk, or about to be written, is never earlier than one
  the user gave; `Cleared` and `Once` carry the check to the execution and
  away from any second one; `Counted` adds up a grant: there, revoked, held by the process that
  deleted it, or spent.
- MCP server. While commands do not overlap (`~tangled`) a command at `spawn` sees no
  server running and one at `terminate` has the process of the PID file (`OneCommand`), and the
  PID file, or the command about to write it, leads to every server (`Tracked`).
- Subagents. `Busy` and `Files` say what the files of a task are at each step of its runner;
  `Owed`, that a thread at work owes the answer to a request no other thread has;
  `Met`, that two runners of a task have left their mark; `LateOnes` counts the tasks
  completed after a cancellation together with the threads that may still add one.
- Agent loop. `OnePlan` (the session, the copy a run works on and the journal are of one
  plan) and `Reached` (none of the three is past an item nobody dealt with) make
  `NoItemSkipped` inductive across saves, aborts and resumes; `Proposals` and `Unapplied`
  follow a proposal through both files it can lie in; `Counted` ties the streak the
  property counts to the counters the code has and to the writes it missed. `OnlyARepairReplaces` needs
  `Proposals` too: where a step had looked and found nothing, there is nothing but what came since.
- Conversations. `Seated` says what a terminal, its loop and the manifest of its conversation have in
  common, `SharedIsKnown` that two terminals at one conversation have left their mark, and
  `AllThere` that a file that is whole and the messages of a terminal tell what was said. `TellsFrom`
  says how: every message but the first is the one that came as the number of its place, counted
  from where the first ends, and the first, if it is a summary, is of a stretch up to there. That it is the
  stretch from the first message is known only until a summary goes into a summary or a load drops the start.
  `MoverThere` says the same of what was taken over from an earlier version so far.
  `MovesStep` keeps these for any step of one terminal that touches what it is at only, and each
  action is shown to be one. What carries it is that a compression takes some of the messages
  (`BoundaryInside`): where there are enough turns one of them is the last of the batch
  (`PlaceOf`); `SummaryTold` then counts the lines of the new summary. The code's sizes are
  instances: any `Batch <= LongTalk <= KeptTurns` will do.
- Model calls. `Before` is the number of `retry_call`s that precede the request a caller is at, by
  its layer, round and provider, and `Within` says that each of them sent at most its attempts;
  `Accounted` and `Saved` say where each answer's tokens are until they are in `cost.json`.
- Tasks. `AtStep` and `Lively` say what a command holds at each step, `Alone` that a copy
  about to be saved is the task as it is unless two commands had it, `Recalled` that the
  fixes proposed are those in the file, the one a command still holds and those whose record failed, and
  `NoneMadeUp` that no copy of a task, however commands overlap, counts with these more than were made.
- Record files. `KeepsWhatItWasGiven` says nothing of a process at work, so it is not inductive.
  `JournalComplete` and `StoreComplete` say what the list is that a process will write: the records
  as they should be after its change, with what it adds at the end and what it settles
  settled (`StoredAfter`, `SettledAfter`); `TakingTurns` that while processes take turns nobody
  else writes meanwhile, and that what is added is new; `Consistent` that a number on disk
  was given to a record before. The order of the queue (`InTurn`) holds of the file and of
  every list that is to be written, so it survives processes that do not take turns. That the
  two caps cut off the same records from the file and from the history is `KeptIds`, which rests on
  `EvictedInTurn`: to evict as records come leaves what evicting once from all of them would.
- Embedding index. `FreshStored` and `ForcedStored` follow a chunk from the place a build has
  reached through its batch to the table its connection sees, inside the transaction and
  outside; `OnePerPlace` (no two chunks of a build have one place) is what keeps a batch from
  writing over an earlier one. The rows of an incremental build need the converse too: a new
  text in a row belongs to a chunk already gone through, so no later chunk takes its place.
- Both use functions defined along the numbers: `Only`, what is left of a file
  without the lines that cannot be read, and `FlattenSeq`, the chunks of all files. That these are
  defined, and what they hold, is shown by `NatIsInductive`, for sets of numbers instead of
  formulas: a set of naturals with 0 and each successor has them all (by the least number
  outside it, `WFMin` of `WellFoundedInduction`).
- Commands and hooks. `FilesTighten` needs no state: it is a lemma about `ConfigMerge`,
  knob by knob, over all settings. `FromTheUser` (what is stored was given) and
  `Numbered` (each approval is under the settings it was given under) carry a
  hook's consent from the prompt to the run.

Proved without a run of their own, since they are what liveness rests on besides fairness:

- The agent loop (`RunsEnd`). `RunsStayWithin`: a run under way has steps left, and its progress
  inside a step (`Progress`, at most `Cap + 3`) is bounded. `RunsComeNearer`: each step of the loop
  ends the run, uses up a step or gets on with the one it is at, whatever failed,
  and what users and other terminals do ends it or leaves it where it is. So a run given `n` steps takes
  at most `n * (Cap + 4)` of the loop's.
- Subagents (`CallersGoOn`). `Pursued` (a request that was taken and has no answer is with a
  thread) gives `WaitsForSomebody`: while `run_all` waits, some thread is at work or may take
  a request. It assumes that there is a thread, which `_resolve_max_workers`
  (`subagents/pool.py:28-55`) sees to. `RunAllProgresses`: a request goes through five stages
  (`StageOf`), each step of a thread takes one on, and a runner in another terminal, a cancellation
  or a failing audit takes none back.
- Calls (`CallEnds`). `CallsWaitOnlyToWrite`: a call can hang at the write of a request larger than
  a pipe and nowhere else. `CallsReturnClean` is what its end is worth: no child is left, and
  a success rests on the whole output (`got = wrote`, and nobody holds the pipe). Its invariant
  `CallInductive` has what each step finds of child and thread (`StepsInOrder`) and
  what the end of the thread says of the output (`ThreadKnows`).
- This proof found an error in the model: the verdict on a call was a `CASE` with two guards that
  hold together (no output, and no first line yet), of which TLC takes the first and TLA+ either.
  It is an `IF` now, like the order of the code, and so are `Decision` in
  `CommandGate` and `Recommended` in `SandboxPlan`, which had the same.

Only model-checked:

- Liveness itself (`RunsEnd`, `CallersGoOn`, `CallEnds`): fairness and `ENABLED` are out of the
  prover's reach.
- Every other property of a run is a theorem. That an interesting case happens at all is shown by
  the violation runs and the states TLC reaches, not proved.

## 5. Plan

1. Done: the modules of section 2, with the theorems of section 4.
2. The parts of section 1 that no module has yet, largest first.

## 6. Not modelled, and why

- What a model answers is a choice, in `AgentLoop` and in `ModelCall`. Streaming, the formats of
  the providers and the delays between attempts are left out.
- Code that no command reaches: `check_budget` and `check_cost_fallback` (`llm/cost.py`),
  the tools for GitHub and the web and `dispatch_parallel`, the discovery of
  MCP tools over stdio.
- Context collection, ranking and search: they choose text for the model, and no
  modelled decision reads it.
- Secrets, keychain, redaction, trust roots: functions on text without state.
  `allow_readonly_without_confirm` has no reader.
- Evaluation, release checks, reports, metrics, rendering, `doctor`: sequential
  code over files it reads or wholly owns. With the commands that only print, this is
  most of the repository's lines, which is why the map covers about a seventh of
  them.
- Parsing of commands and of patches: a verdict on a text is an attribute of a
  command or a patch.

Modelled, but in no property, because the code does not promise it, or does and no run
is left to show it: `docs/public-contracts.md:239` says a rollback after a commit is refused by
default, but the code refuses only if no file of the checkpoint is dirty and
one of the last fifty commits has them all;
a finished apply or a rejection removes whatever proposal is pending by then, and so do
the end of a sandbox execution and of an MCP write; two blocks on one file leave
two hashes for one backup; a restore that fails half-way leaves a mix; a
torn audit line makes every later write raise, and so does an event with a line separator in it, though
`docs/public-contracts.md:459-460` has an event appended for every write operation (`split`); two processes
that write to the log at once chain to one line, which breaks its chain, though
`docs/troubleshooting.md:81-82` knows no cause but a modified log or a lost anchor (`overlapped`); a proposal that another terminal makes while the model drafts is replaced, though
`agent/loop_dispatcher.py:272-273` says that none is (`overtaken`); the takeover of an earlier version's
session that broke off is never finished; `clear_stale` writes the memory
back in reverse order; the cap of project facts pushes approved ones out; an
incremental build skips a text that moved, keeps the rows of chunks that
are gone and never fills in the vectors of rows written before the library was
installed; an approval appended after a torn line is lost with it; a project
file without a policy counts as `balanced`, so that a user's `experimental`
needs the project to name it too; `sac memory clear --before` and the user name in
an approval are left out.
