------------------------------ MODULE AgentLoop ------------------------------
(***************************************************************************)
(* One agent session and the loop that works on it (agent/loop.py and its  *)
(* mixins, agent/session.py), with the decisions of its user               *)
(* (shell/runtime.py, shell/approvals.py, cli_agent.py, cli_core.py).      *)
(*                                                                         *)
(* run() takes a bounded number of steps.  A step reads the session, asks  *)
(* the model, acts on the answer and saves the session: the copy mem that  *)
(* it read, with the fields it sets, so that what another terminal wrote   *)
(* meanwhile is lost.  A kill may fall between any two steps, a Ctrl-C     *)
(* between any two of a conversation.                                      *)
(*                                                                         *)
(* The model's answers, the tools, hooks and test suites are choices; a    *)
(* patch is the sequence of the kinds of its blocks.                       *)
(***************************************************************************)
EXTENDS Integers, Sequences, FiniteSets

CONSTANTS
    Contents,   \* the sequences of block kinds the model may propose
    Modes,      \* the sets of flags a loop is made with: auto_edit, full_auto, plan_mode
    Lengths,    \* the lengths a plan may have
    MaxPlans, MaxPatches, MaxSteps,
    MaxMissed,    \* writes that may go uncounted
    MaxUnguarded, \* writes of a full_auto loop, which nothing else bounds
    Guard,      \* _AUTO_EDIT_FILE_GUARD, 10 in the code
    Cap         \* _MAX_TURN_TOOLS, 20 in the code

Kinds == {"docs", "logic", "protected", "create", "delete"}

ASSUME LoopAssumption ==
    /\ Contents \subseteq Seq(Kinds)
    /\ Modes \subseteq SUBSET {"auto_edit", "full_auto", "plan"} /\ Modes # {}
    /\ {MaxSteps, Guard, Cap} \subseteq Nat \ {0}
    /\ Lengths \subseteq Nat \ {0}
    /\ {MaxPlans, MaxPatches, MaxMissed, MaxUnguarded} \subseteq Nat

VARIABLES
    scoped,   \* the session of a shell conversation, or the one global session
    session,  \* agent.json or session.json
    journal,  \* the global session's journal as resume_from reads it
    pend,     \* the two pending_patch.json files
    \* the loop object
    mode,     \* auto_edit, full_auto, plan_mode
    writes,   \* _native_write_count, which auto_edit alone reads
    typed,    \* the kind of _last_typed_result
    \* the locals of run() and of the step
    pc, left, budget,
    mem,      \* the session as the step has read it
    prop,     \* the proposal in hand
    turn,     \* a native turn: its calls, its writes, whether it ran a command unasked
    \* history, read by the properties only
    plans, patches,  \* how many there have been
    done,     \* <<plan, item>> that a step has dealt with
    applied,  \* the patches that reached the files
    streak,   \* native writes of an auto_edit or full_auto loop since the guard asked its
              \* user or the user interrupted it or made it
    missed,   \* those of an auto_edit loop that were made in turns which an error ended
    tripped,  \* an apply broke off between its writes and the removal of the pending file
    repaired  \* a validation repair was journalled for this session

stores == <<scoped, session, journal, pend>>
object == <<mode, writes, typed>>
frame == <<pc, left, budget, mem, prop, turn>>
counts == <<plans, patches>>
history == <<done, applied, streak, missed, tripped, repaired>>
vars == <<stores, object, frame, counts, history>>

Places == {"scoped", "legacy"}
Slot == IF scoped THEN "scoped" ELSE "legacy"  \* pending_patch_path

\* The pending action, by what its requires_approval and its type decide.
Asking(asks) == IF asks THEN "asks" ELSE "none"

NoPlan == [id |-> 0, len |-> 1]
NoSession == [plan |-> NoPlan, at |-> 0, pending |-> "none", status |-> "none"]
NoPatch == 0
NoProposal == [id |-> NoPatch, blocks |-> <<>>]
NoTurn == [calls |-> 0, writes |-> 0, unasked |-> FALSE]
NoIndex == -1

Set(s, pending, status) == [s EXCEPT !.pending = pending, !.status = status]
Advanced(s, pending, status) == [Set(s, pending, status) EXCEPT !.at = s.at + 1]
Aborted(s) == Set(s, "none", "aborted")

\* classify_proposal: the first block that decides does.  A patch over the limits
\* of the auto tier counts as one with a "logic" block.
Deciding(blocks) == {i \in DOMAIN blocks : blocks[i] \in {"delete", "create", "protected"}}
FirstOf(S) == CHOOSE i \in S : \A j \in S : i <= j
Tier(blocks) ==
    IF Deciding(blocks) # {}
    THEN IF blocks[FirstOf(Deciding(blocks))] = "protected" THEN "confirm" ELSE "gate"
    ELSE IF \A i \in DOMAIN blocks : blocks[i] = "docs" THEN "auto" ELSE "confirm"

\* Mutant: auto_edit covers the tier that asks.
AutoAppliesConfirm(blocks) ==
    Tier(blocks) \in {"auto", "confirm"} /\ mode \cap {"auto_edit", "full_auto"} # {}

AutoApplies(blocks) ==
    \/ Tier(blocks) = "auto" /\ mode \cap {"auto_edit", "full_auto"} # {}
    \/ Tier(blocks) = "confirm" /\ "full_auto" \in mode

-----------------------------------------------------------------------------
\* What run() does with the result of a step: it stops on an approval and on
\* an ended session, else takes the next step while the budget lasts.
Ends(s, stopped) == stopped \/ s.status \in {"aborted", "completed"}

\* Mutant: a step that costs nothing.
SpentNothing(steps) == steps

LastStep == left = 1

Spent(steps) == steps - 1

RunsOut(s, stopped) == ~Ends(s, stopped) /\ LastStep
Final(s, stopped) == IF RunsOut(s, stopped) /\ budget THEN Aborted(s) ELSE s

\* The save at the end of one step and the load at the head of the next.
Turnover(s, stopped) ==
    LET over == Ends(s, stopped) \/ LastStep
    IN  /\ pc' = IF over THEN "idle" ELSE "think"
        /\ mem' = IF over THEN NoSession ELSE s
        /\ left' = IF over THEN 0 ELSE Spent(left)
        /\ budget' = (budget /\ ~over)
        /\ prop' = NoProposal /\ turn' = NoTurn

ExitRun ==
    /\ pc' = "idle" /\ left' = 0 /\ budget' = FALSE
    /\ mem' = NoSession /\ prop' = NoProposal /\ turn' = NoTurn

\* _classify_and_record: the first result that waits is what resume_from looks for.
Recorded(index, waits) ==
    IF waits /\ ~scoped /\ journal.waiting = NoIndex THEN [journal EXCEPT !.waiting = index] ELSE journal

SaveStep(s, stopped) ==
    /\ session' = Final(s, stopped)
    /\ journal' = Recorded(s.at, stopped)
    /\ typed' = "other"
    /\ Turnover(s, stopped)

Dealt(s) == done \cup {<<s.plan.id, s.at>>}

-----------------------------------------------------------------------------
(* The answers of the model, in native_step and in step.                   *)

\* The plan is used up; this is tested before anything else.
PlanDone ==
    /\ pc = "think" /\ mem.at >= mem.plan.len
    /\ SaveStep(Set(mem, "none", "completed"), FALSE)
    /\ UNCHANGED <<scoped, pend, mode, writes, counts, history>>

Thinks == pc = "think" /\ mem.at < mem.plan.len

\* Mutant: the guard lets one write more pass.
GuardReachedLate == "auto_edit" \in mode /\ writes > Guard

GuardReached == "auto_edit" \in mode /\ writes >= Guard

FileGuard ==
    /\ Thinks /\ GuardReached
    /\ SaveStep(Set(mem, "asks", "waiting_for_user"), TRUE)
    /\ streak' = 0 /\ missed' = 0
    /\ UNCHANGED <<scoped, pend, mode, writes, counts, done, applied, tripped, repaired>>

\* The guard is in native_step only.
ContractFailure ==
    /\ Thinks
    /\ SaveStep(Set(mem, "none", "active"), FALSE)
    /\ UNCHANGED <<scoped, pend, mode, writes, counts, history>>

\* step waits for the user whatever requires_approval says.
Stop ==
    /\ Thinks
    /\ \E asks \in BOOLEAN :
         \/ SaveStep(Set(mem, Asking(asks), "waiting_for_user"), TRUE)
         \/ ~asks /\ ~GuardReached /\ SaveStep(Set(mem, "none", "completed"), FALSE)
    /\ UNCHANGED <<scoped, pend, mode, writes, counts, history>>

\* The first batch of a turn holds a run_command; one with a secret is refused.
ProposeCommand ==
    /\ Thinks /\ ~GuardReached /\ "full_auto" \notin mode
    /\ \/ SaveStep(Set(mem, "command", "waiting_for_user"), TRUE)
       \/ SaveStep(Set(mem, "none", "active"), FALSE)
    /\ UNCHANGED <<scoped, pend, mode, writes, counts, history>>

StartTurn ==
    /\ Thinks /\ ~GuardReached
    /\ pc' = "turn"
    /\ UNCHANGED <<stores, object, left, budget, mem, prop, turn, counts, history>>

\* A route that only records the intent, a read-only MCP call, a subagent.
Advance ==
    /\ Thinks
    /\ \E asks \in BOOLEAN : SaveStep(Advanced(mem, Asking(asks), "active"), FALSE)
    /\ done' = Dealt(mem)
    /\ UNCHANGED <<scoped, pend, mode, writes, counts, applied, streak, missed, tripped, repaired>>

\* The third identical intent inside a task.  It records no typed result.
StuckAbort ==
    /\ Thinks
    /\ session' = Aborted(mem)
    /\ IF typed = "apply"
       THEN pc' = "validate" /\ mem' = Aborted(mem) /\ UNCHANGED <<left, budget, prop, turn>>
       ELSE Turnover(Aborted(mem), FALSE)
    /\ UNCHANGED <<scoped, journal, pend, object, counts, history>>

\* An approved MCP write is executed; its result is of the kind "apply".
ExecuteMcpWrite ==
    /\ Thinks
    /\ mem' = Advanced(mem, "none", "active") /\ session' = mem'
    /\ typed' = "apply" /\ pc' = "validate"
    /\ done' = Dealt(mem)
    /\ UNCHANGED <<scoped, journal, pend, mode, writes, left, budget, prop, turn, counts,
                   applied, streak, missed, tripped, repaired>>

\* Mutant: only a conversation's own proposal is looked for.
HeldInConversation == scoped /\ pend[Slot] # NoPatch

\* _execute_patch_proposal_step looks for a proposal before it asks for another.
Held == pend[Slot] # NoPatch

PatchExists ==
    /\ Thinks /\ Held
    /\ SaveStep(Set(mem, "asks", "waiting_for_user"), TRUE)
    /\ UNCHANGED <<scoped, pend, mode, writes, counts, history>>

\* edit() asks the model; meanwhile another terminal may write the file that was
\* looked for, which pc notes for the properties ("overtaken").
Draft ==
    /\ Thinks /\ ~Held
    /\ pc' = "draft"
    /\ UNCHANGED <<stores, object, left, budget, mem, prop, turn, counts, history>>

Drafting == pc \in {"draft", "overtaken"}

EditFails ==
    /\ Drafting
    /\ SaveStep(Set(mem, "asks", "active"), FALSE)
    /\ UNCHANGED <<scoped, pend, mode, writes, counts, history>>

NewPatch == patches + 1

\* The file is written without another look.
Edit ==
    /\ Drafting /\ patches < MaxPatches
    /\ \E blocks \in Contents : prop' = [id |-> NewPatch, blocks |-> blocks]
    /\ pend' = [pend EXCEPT ![Slot] = NewPatch]
    /\ patches' = patches + 1
    /\ pc' = "edited"
    /\ UNCHANGED <<scoped, session, journal, object, left, budget, mem, turn, plans, history>>

-----------------------------------------------------------------------------
(* A proposal on its way: applied at once, or put to the user.             *)

Confirm == SaveStep(Advanced(mem, "asks", "waiting_for_user"), TRUE)

\* The tier asks for it, or the auto-apply failed before it wrote anything.
AskForReview ==
    /\ pc = "edited"
    /\ Confirm
    /\ done' = Dealt(mem)
    /\ UNCHANGED <<scoped, pend, mode, writes, counts, applied, streak, missed, tripped, repaired>>

AutoApply ==
    /\ pc = "edited" /\ AutoApplies(prop.blocks)
    /\ applied' = applied \cup {prop.id}
    /\ pc' = "applied"
    /\ UNCHANGED <<stores, object, left, budget, mem, prop, turn, counts,
                   done, streak, missed, tripped, repaired>>

\* Mutant: the pending file stays.
RemovedNothing(slot) == pend

Removed(slot) == [pend EXCEPT ![slot] = NoPatch]

\* orchestrator.apply after its hooks.
Unlink ==
    /\ pc = "applied"
    /\ pend' = Removed(Slot)
    /\ pc' = "unlinked"
    /\ UNCHANGED <<scoped, session, journal, object, left, budget, mem, prop, turn, counts, history>>

FinishAutoApply ==
    /\ pc = "unlinked"
    /\ SaveStep(Advanced(mem, "none", "active"), FALSE)
    /\ done' = Dealt(mem)
    /\ UNCHANGED <<scoped, pend, mode, writes, counts, applied, streak, missed, tripped, repaired>>

\* A hook, the unlink or an audit write raises once the files have changed:
\* the loop falls back to asking for a review.
LateFailure ==
    /\ pc \in {"applied", "unlinked"}
    /\ Confirm
    /\ tripped' = (tripped \/ pc = "applied")
    /\ done' = Dealt(mem)
    /\ UNCHANGED <<scoped, pend, mode, writes, counts, applied, streak, missed, repaired>>

-----------------------------------------------------------------------------
(* A native turn (MultiToolTurnRunner.run_turn).                           *)

Calls == pc = "turn" /\ turn.calls < Cap

\* Tools that change nothing, those plan mode lacks, writes that are not approved.
CallOther ==
    /\ Calls
    /\ turn' = [turn EXCEPT !.calls = @ + 1]
    /\ UNCHANGED <<stores, object, pc, left, budget, mem, prop, counts, history>>

Unasked == mode \cap {"auto_edit", "full_auto"} # {}

\* edit_file and write_file count also when they are blocked.
CallWrite ==
    /\ Calls /\ "plan" \notin mode
    /\ "auto_edit" \in mode \/ streak <= MaxUnguarded
    /\ turn' = [turn EXCEPT !.calls = @ + 1, !.writes = @ + 1]
    /\ streak' = IF Unasked THEN streak + 1 ELSE 0
    /\ UNCHANGED <<stores, object, pc, left, budget, mem, prop, counts,
                   done, applied, missed, tripped, repaired>>

\* Only the first batch, which has at least one call, was looked through for
\* commands; those of the batches after it run at once.
CallCommand ==
    /\ Calls /\ "plan" \notin mode
    /\ turn.calls > 0 \/ "full_auto" \in mode
    /\ turn' = [turn EXCEPT !.calls = @ + 1, !.unasked = @ \/ "full_auto" \notin mode]
    /\ UNCHANGED <<stores, object, pc, left, budget, mem, prop, counts, history>>

\* choose_tool_native raises, between two batches of a turn or before the first:
\* the prompt shows the error and keeps the loop, the turn's writes go uncounted.
TurnRaises ==
    /\ scoped /\ pc \in {"think", "turn"}
    /\ "auto_edit" \in mode => missed + turn.writes <= MaxMissed
    /\ missed' = IF "auto_edit" \in mode THEN missed + turn.writes ELSE 0
    /\ ExitRun
    /\ UNCHANGED <<stores, object, counts, done, applied, streak, tripped, repaired>>

\* The model has no more calls, or says stop, or the cap is reached.
EndTurn ==
    /\ pc = "turn" /\ turn.calls > 0
    /\ \/ SaveStep(Advanced(mem, "none", "active"), FALSE)
       \/ SaveStep(Advanced(mem, "asks", "waiting_for_user"), TRUE)
       \/ SaveStep(Advanced(mem, "none", "completed"), FALSE)
    /\ writes' = IF "auto_edit" \in mode THEN writes + turn.writes ELSE 0
    /\ done' = Dealt(mem)
    /\ UNCHANGED <<scoped, pend, mode, counts, applied, streak, missed, tripped, repaired>>

-----------------------------------------------------------------------------
(* Validation after an apply (ValidationLoop.run_after_apply).  repair     *)
(* _iterations is at most 1, so _try_replan, which wants 2, never replans. *)

\* The suites pass or --no-validate skips them; run goes by the stored session.
Validated ==
    /\ pc = "validate"
    /\ LET s == IF session = NoSession THEN mem ELSE session
       IN  /\ session' = IF RunsOut(s, FALSE) /\ budget THEN Aborted(s) ELSE session
           /\ Turnover(s, FALSE)
    /\ UNCHANGED <<scoped, journal, pend, object, counts, history>>

\* No profile or no test suite: the run ends, the session is not saved.
ValidationSkipped ==
    /\ pc = "validate"
    /\ ExitRun
    /\ UNCHANGED <<stores, object, counts, history>>

\* edit() for the repair writes the global file, whatever it holds; the journal
\* has the repair at the index after the next.
RepairIndex == mem.at + 1

ProposeRepair ==
    /\ pc = "validate" /\ patches < MaxPatches
    /\ pend' = [pend EXCEPT !["legacy"] = NewPatch]
    /\ patches' = patches + 1
    /\ session' = Set(mem, "asks", "waiting_for_user")
    /\ journal' = Recorded(RepairIndex, TRUE)
    /\ repaired' = ~scoped
    /\ ExitRun
    /\ UNCHANGED <<scoped, object, plans, done, applied, streak, missed, tripped>>

RepairFails ==
    /\ pc = "validate"
    /\ session' = Aborted(mem)
    /\ ExitRun
    /\ UNCHANGED <<scoped, journal, pend, object, counts, history>>

\* The task's time budget; run asks for it before a step.
TimeOut ==
    /\ pc = "think" /\ budget
    /\ session' = Aborted(mem)
    /\ ExitRun
    /\ UNCHANGED <<scoped, journal, pend, object, counts, history>>

Work ==
    \/ PlanDone \/ FileGuard \/ ContractFailure \/ Stop \/ ProposeCommand \/ StartTurn
    \/ Advance \/ StuckAbort \/ ExecuteMcpWrite \/ PatchExists \/ Draft \/ EditFails \/ Edit
    \/ AskForReview \/ AutoApply \/ Unlink \/ FinishAutoApply \/ LateFailure
    \/ CallOther \/ CallWrite \/ CallCommand \/ TurnRaises \/ EndTurn
    \/ Validated \/ ValidationSkipped \/ ProposeRepair \/ RepairFails \/ TimeOut

-----------------------------------------------------------------------------
(* The user: requests, approvals, and commands from another terminal.      *)

NewPlan(len) == [id |-> plans + 1, len |-> len]
Started(plan) == [plan |-> plan, at |-> 0, pending |-> "none", status |-> "active"]

\* AgentSessionStore.start.  Only the global session's journal is ever read.
StartSession(plan, s) ==
    /\ plans < MaxPlans
    /\ plans' = plans + 1
    /\ session' = s
    /\ journal' = IF scoped THEN journal ELSE [plan |-> plan, waiting |-> NoIndex]
    /\ repaired' = FALSE

Enter(s) ==
    /\ pc = "idle" /\ pc' = "think"
    /\ mem' = s
    /\ left' \in 1..MaxSteps /\ budget' \in BOOLEAN

Ask ==
    /\ \E len \in Lengths :
         /\ StartSession(NewPlan(len), Started(NewPlan(len)))
         /\ Enter(Started(NewPlan(len)))
    /\ UNCHANGED <<scoped, pend, object, prop, turn, patches, done, applied, streak, missed, tripped>>

\* No goal, or the goal the session has.
Continue ==
    /\ session # NoSession
    /\ Enter(session)
    /\ UNCHANGED <<stores, object, prop, turn, counts, history>>

Questioned(s) == Set(s, "asks", "waiting_for_user")

\* _clarify_if_needed puts its questions to the session there is.
Clarify ==
    /\ pc = "idle" /\ ~scoped
    /\ \/ /\ session # NoSession
          /\ session' = Questioned(session)
          /\ UNCHANGED <<journal, plans, repaired>>
       \/ /\ session = NoSession
          /\ \E len \in Lengths : StartSession(NewPlan(len), Questioned(Started(NewPlan(len))))
    /\ UNCHANGED <<scoped, pend, object, frame, patches, done, applied, streak, missed, tripped>>

\* sac apply works on the global file; the prompt offers whatever patch there is.
Approve ==
    /\ pc = "idle"
    /\ \E slot \in Places :
         /\ pend[slot] # NoPatch
         /\ slot = "scoped" => session.pending = "asks"
         /\ prop' = [NoProposal EXCEPT !.id = pend[slot]]
         /\ applied' = applied \cup {pend[slot]}
    /\ pc' = "approving"
    /\ UNCHANGED <<stores, object, left, budget, mem, turn, counts,
                   done, streak, missed, tripped, repaired>>

\* Another terminal may have replaced the global patch that is being applied; what
\* is there is removed.
ApprovedSlot == IF pend["scoped"] = prop.id THEN "scoped" ELSE "legacy"

FinishApproval ==
    /\ pc = "approving"
    /\ pend' = Removed(ApprovedSlot)
    /\ session' = IF ApprovedSlot = "scoped" THEN Set(session, "none", "active") ELSE session
    /\ prop' = NoProposal /\ pc' = "idle"
    /\ UNCHANGED <<scoped, journal, object, left, budget, mem, turn, counts, history>>

Prompted == pc = "idle" /\ scoped /\ session.pending # "none"

\* reject_pending removes the patch file, whatever the pending action is.
Reject ==
    /\ Prompted
    /\ pend' = Removed("scoped")
    /\ session' = Set(session, "none", "active")
    /\ UNCHANGED <<scoped, journal, object, frame, counts, history>>

ApproveCommand ==
    /\ Prompted /\ session.pending = "command"
    /\ session' = Set(session, "none", "active")
    /\ UNCHANGED <<scoped, journal, pend, object, frame, counts, history>>

Migrated(s) == Set(s, "asks", "waiting_for_user")

\* /continue moves a global patch into the conversation.
AdoptLegacyPatch ==
    /\ pc = "idle" /\ scoped
    /\ pend["legacy"] # NoPatch /\ pend["scoped"] = NoPatch
    /\ pend' = [scoped |-> pend["legacy"], legacy |-> NoPatch]
    /\ \/ /\ session # NoSession
          /\ session' = Migrated(session)
          /\ UNCHANGED <<journal, plans, repaired>>
       \/ /\ session = NoSession
          /\ StartSession(NewPlan(1), Migrated(Started(NewPlan(1))))
    /\ UNCHANGED <<scoped, object, frame, patches, done, applied, streak, missed, tripped>>

\* sac edit, in this terminal or another one, replaces the global patch without a question.
SacEdit ==
    /\ patches < MaxPatches
    /\ pend' = [pend EXCEPT !["legacy"] = NewPatch]
    /\ patches' = patches + 1
    /\ pc' = IF Drafting /\ ~scoped THEN "overtaken" ELSE pc
    /\ UNCHANGED <<scoped, session, journal, object, left, budget, mem, prop, turn, plans, history>>

\* sac agent abort, clear and resume know the global session only.
Abort ==
    /\ ~scoped /\ session # NoSession
    /\ session' = Aborted(session)
    /\ UNCHANGED <<scoped, journal, pend, object, frame, counts, history>>

Clear ==
    /\ ~scoped /\ session # NoSession
    /\ session' = NoSession
    /\ UNCHANGED <<scoped, journal, pend, object, frame, counts, history>>

Resume ==
    /\ ~scoped /\ session # NoSession /\ session.status # "completed"
    /\ session' = [session EXCEPT !.status = "active"]
    /\ UNCHANGED <<scoped, journal, pend, object, frame, counts, history>>

\* Mutant: the step after the one that waits is resumed.
ResumedAfter(s) ==
    [s EXCEPT !.plan = journal.plan,
              !.at = IF journal.waiting # NoIndex THEN journal.waiting + 1 ELSE s.at]

\* sac resume --continue-agent: from the journal when there is no session.
Resumed(s) ==
    LET waits == journal.waiting # NoIndex
    IN  [s EXCEPT !.plan = journal.plan,
                  !.at = IF waits THEN journal.waiting ELSE s.at,
                  !.status = IF s.status = "completed" THEN "completed"
                             ELSE IF waits THEN "waiting_for_user" ELSE "active"]

ResumeFrom ==
    /\ pc = "idle" /\ ~scoped /\ journal.plan # NoPlan
    /\ session' = Resumed(IF session = NoSession THEN Started(journal.plan) ELSE session)
    /\ UNCHANGED <<scoped, journal, pend, object, frame, counts, history>>

Broken(places) == tripped' = (tripped \/ pc \in places)

\* Ctrl-C in a conversation; the loop object lives on, the turn's writes go uncounted.
Interrupt ==
    /\ scoped /\ pc \notin {"idle", "approving"}
    /\ session' = [session EXCEPT !.status = "interrupted"]
    /\ ExitRun
    /\ streak' = 0 /\ missed' = 0
    /\ Broken({"applied"})
    /\ UNCHANGED <<scoped, journal, pend, object, counts, done, applied, repaired>>

\* The process ends or is killed, and a new loop is made; /mode makes one too.
Restart ==
    /\ mode' \in Modes /\ writes' = 0 /\ typed' = "other"
    /\ ExitRun
    /\ streak' = 0 /\ missed' = 0
    /\ Broken({"applied", "approving"})
    /\ UNCHANGED <<stores, counts, done, applied, repaired>>

User ==
    \/ Ask \/ Continue \/ Clarify \/ Approve \/ FinishApproval \/ Reject \/ ApproveCommand
    \/ AdoptLegacyPatch \/ SacEdit \/ Abort \/ Clear \/ Resume \/ ResumeFrom
    \/ Interrupt \/ Restart

Init ==
    /\ scoped \in BOOLEAN
    /\ session = NoSession
    /\ journal = [plan |-> NoPlan, waiting |-> NoIndex]
    /\ pend = [slot \in Places |-> NoPatch]
    /\ mode \in Modes /\ writes = 0 /\ typed = "other"
    /\ pc = "idle" /\ left = 0 /\ budget = FALSE
    /\ mem = NoSession /\ prop = NoProposal /\ turn = NoTurn
    /\ plans = 0 /\ patches = 0
    /\ done = {} /\ applied = {} /\ streak = 0 /\ missed = 0
    /\ tripped = FALSE /\ repaired = FALSE

Next == Work \/ User
Spec == Init /\ [][Next]_vars
\* A run that was started goes on; the model, the tools and the suites have timeouts.
LoopFairness == WF_vars(Work)

-----------------------------------------------------------------------------
(* Properties                                                              *)

\* The session is never past an item of its plan that no step has dealt with,
\* whatever aborts, kills, stale saves and resumes come between; a validation
\* repair, which is journalled one step too far ahead, is the exception.
NoItemSkipped ==
    repaired \/ \A i \in 0..(session.at - 1) : <<session.plan.id, i>> \in done

Gated(blocks) == \E i \in DOMAIN blocks : blocks[i] \in {"create", "delete"}

\* A patch that creates or deletes a file is not applied without the user in an
\* auto_edit session, though tiers come from the first block that decides.
CreateDeleteIsReviewed ==
    pc = "applied" /\ Gated(prop.blocks) => "full_auto" \in mode

\* A proposal that lies there for review is not in the files yet, unless an
\* apply broke off half-way: no path applies a patch and leaves its file.
PendingIsUnapplied ==
    tripped \/ pc \in {"applied", "approving"}
      \/ \A slot \in Places : pend[slot] \notin applied

\* An auto_edit loop makes at most Guard - 1 + Cap native writes before the guard
\* asks its user, and those of turns that an error ended: the guard looks before a
\* turn, and a turn is counted when it has ended.  The documents promise less, see
\* PausesAtGuard; no guard bounds a full_auto loop.
GuardBoundsWrites == "auto_edit" \in mode => streak < Guard + Cap + missed

\* A step of the loop replaces a proposal nobody has decided on only as the repair
\* of a failed validation, or when it came from another terminal after the step
\* had looked, which the docstring's "without overwriting" (agent/loop_dispatcher.py
\* :272-273) does not say.  What other terminals do leaves the frame alone.
OnlyARepairReplaces ==
    [][\A slot \in Places :
         pc \notin {"idle", "validate", "overtaken"} /\ frame' # frame /\ pend[slot] # NoPatch
           => pend'[slot] \in {pend[slot], NoPatch}]_vars

\* Every run ends: contract failures and failed edits use up the budget too.
RunsEnd == []<>(pc \in {"idle", "approving"})

\* docs/public-contracts.md:214-215: the guard is active in auto-edit and full-auto,
\* after 10 file writes the session pauses for confirmation.
PausesAtGuard == streak <= Guard

\* docs/public-contracts.md:205-207: run_command always prompts, unless full_auto
\* allows it: no turn runs a command that nobody was asked about.
CommandsAreAsked == ~turn.unasked
=============================================================================
