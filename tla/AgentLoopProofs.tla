--------------------------- MODULE AgentLoopProofs ---------------------------
(***************************************************************************)
(* Theorems about AgentLoop, for any plans, patches, modes and bounds: the *)
(* plan a session works through, the proposals it holds, and the writes it *)
(* makes before its user is asked; and about ShellConversation, for any    *)
(* number of terminals, messages and compressions, and any sizes of buffer.*)
(***************************************************************************)
EXTENDS AgentLoop, ShellConversation, SequenceTheorems, FiniteSetTheorems,
        WellFoundedInduction, TLAPS

Statuses == {"none", "active", "waiting_for_user", "completed", "aborted", "interrupted"}
Plans == [id : Nat, len : Nat \ {0}]
Sessions == [plan : Plans, at : Nat, pending : {"none", "asks", "command"}, status : Statuses]
Steps == {"idle", "think", "turn", "draft", "overtaken", "edited", "applied", "unlinked",
          "validate", "approving"}

\* Every variable has its type.
SessionTypes ==
    /\ session \in Sessions /\ mem \in Sessions
    /\ journal \in [plan : Plans, waiting : Nat \cup {NoIndex}]
    /\ plans \in Nat /\ done \subseteq Nat \X Nat

ObjectTypes ==
    /\ scoped \in BOOLEAN /\ mode \in Modes /\ writes \in Nat /\ typed \in {"other", "apply"}
    /\ pc \in Steps /\ left \in Nat /\ budget \in BOOLEAN
    /\ turn \in [calls : Nat, writes : Nat, unasked : BOOLEAN]
    /\ streak \in Nat /\ missed \in Nat /\ tripped \in BOOLEAN /\ repaired \in BOOLEAN

PatchTypes ==
    /\ pend \in [Places -> Nat] /\ patches \in Nat /\ applied \subseteq Nat
    /\ prop \in [id : Nat, blocks : Seq(Kinds)]

LoopTypeOK == SessionTypes /\ ObjectTypes /\ PatchTypes

\* Outside a run nothing is in hand, and only a native turn counts its calls.  What a
\* conversation proposes stays in its file, where a step that asks for a proposal has
\* seen none; in the global file only until somebody else writes there.
AtHand ==
    /\ IF pc \in {"idle", "approving"} THEN mem = NoSession ELSE left > 0
    /\ pc # "turn" => turn = NoTurn
    /\ pc = "draft" => pend[Slot] = NoPatch
    /\ pc \in {"edited", "applied", "approving"} => prop.id # NoPatch
    /\ pc \in {"edited", "applied"} /\ scoped => prop.id = pend["scoped"]

\* The global session, its journal and the copy of a run are of one plan; a
\* conversation leaves the journal and the repairs to it.
OnePlan ==
    /\ ~ scoped /\ session # NoSession => session.plan = journal.plan
    /\ ~ scoped /\ pc \notin {"idle", "approving"} => mem.plan = journal.plan
    /\ scoped => ~ repaired

\* Of a plan, the first n items are among those dealt with.
Through(plan, n, dealt) == \A i \in 0..(n - 1) : <<plan.id, i>> \in dealt

\* Neither the session, nor the copy of a run, nor the place where the journal
\* would resume is past an item that no step has dealt with.
Reached ==
    ~ repaired =>
        /\ Through(session.plan, session.at, done) /\ Through(mem.plan, mem.at, done)
        /\ journal.waiting # NoIndex => Through(journal.plan, journal.waiting, done)

\* A proposal is a patch of its own, in the conversation's file only in a conversation.
Proposals ==
    /\ \A slot \in Places : pend[slot] <= patches
    /\ prop.id <= patches /\ applied \subseteq 1..patches
    /\ pend["scoped"] = pend["legacy"] => pend["scoped"] = NoPatch
    /\ ~ scoped => pend["scoped"] = NoPatch

\* Only the proposal that is being applied lies there and is in the files.
Unapplied ==
    ~ tripped => \A slot \in Places :
        pend[slot] \in applied => pc \in {"applied", "approving"} /\ pend[slot] = prop.id

\* The user's control over an auto_edit loop.
Counted ==
    /\ turn.writes <= turn.calls /\ turn.calls <= Cap
    /\ "auto_edit" \in mode => streak <= writes + turn.writes + missed
    /\ pc = "turn" /\ "auto_edit" \in mode => writes < Guard

LoopInductive ==
    /\ LoopTypeOK /\ AtHand /\ OnePlan /\ Reached /\ Proposals /\ Unapplied /\ Counted
    /\ GuardBoundsWrites /\ CreateDeleteIsReviewed

-----------------------------------------------------------------------------
(* What the steps of the loop do, as far as the invariant is concerned.    *)

LEMMA SessionFields ==
    ASSUME NEW s \in Sessions, NEW pending \in {"none", "asks", "command"}, NEW status \in Statuses
    PROVE  /\ Set(s, pending, status) \in Sessions
           /\ Set(s, pending, status).plan = s.plan /\ Set(s, pending, status).at = s.at
           /\ Advanced(s, pending, status) \in Sessions
           /\ Advanced(s, pending, status).plan = s.plan
           /\ Advanced(s, pending, status).at = s.at + 1
           /\ Aborted(s) \in Sessions /\ Aborted(s).plan = s.plan /\ Aborted(s).at = s.at
<1>1. /\ Set(s, pending, status) \in Sessions
      /\ Set(s, pending, status).plan = s.plan /\ Set(s, pending, status).at = s.at
    BY DEF Set, Sessions
<1>2. Aborted(s) \in Sessions /\ Aborted(s).plan = s.plan /\ Aborted(s).at = s.at
    BY DEF Aborted, Set, Sessions, Statuses
<1>3. s.at + 1 \in Nat
    BY DEF Sessions
<1>4. Advanced(s, pending, status) = [Set(s, pending, status) EXCEPT !.at = s.at + 1]
    BY DEF Advanced
<1>5. /\ Advanced(s, pending, status) \in Sessions
      /\ Advanced(s, pending, status).plan = s.plan
      /\ Advanced(s, pending, status).at = s.at + 1
    BY <1>1, <1>3, <1>4 DEF Sessions
<1>6. QED
    BY <1>1, <1>2, <1>5

LEMMA Constants == NoSession \in Sessions /\ NoPlan \in Plans /\ NoSession.at = 0
BY DEF NoSession, NoPlan, Sessions, Plans, Statuses

\* A turn's counts are numbers.
LEMMA TurnTypes == NoTurn \in [calls : Nat, writes : Nat, unasked : BOOLEAN]
BY DEF NoTurn

\* A run goes on, or ends.
LEMMA TurnoverEffect ==
    ASSUME LoopTypeOK, left > 0, NEW s, NEW stopped, Turnover(s, stopped)
    PROVE  /\ \/ pc' = "idle" /\ mem' = NoSession
              \/ pc' = "think" /\ mem' = s /\ left' > 0
           /\ left' \in Nat /\ budget' \in BOOLEAN /\ prop' = NoProposal /\ turn' = NoTurn
<1>1. left \in Nat
    BY DEF LoopTypeOK, ObjectTypes
<1>2. budget' \in BOOLEAN
    BY DEF Turnover
<1>3. CASE Ends(s, stopped) \/ LastStep
    BY <1>2, <1>3 DEF Turnover
<1>4. CASE ~ (Ends(s, stopped) \/ LastStep)
    BY <1>1, <1>2, <1>4 DEF Turnover, LastStep, Spent
<1>5. QED
    BY <1>3, <1>4

\* What SaveStep leaves behind.
LEMMA SaveEffect ==
    ASSUME LoopTypeOK, left > 0, NEW s \in Sessions, NEW stopped \in BOOLEAN, SaveStep(s, stopped)
    PROVE  /\ session' \in Sessions /\ session'.plan = s.plan /\ session'.at = s.at
           /\ \/ pc' = "idle" /\ mem' = NoSession
              \/ pc' = "think" /\ mem' = s /\ left' > 0
           /\ journal' = journal \/ (~ scoped /\ journal' = [journal EXCEPT !.waiting = s.at])
           /\ journal' \in [plan : Plans, waiting : Nat \cup {NoIndex}]
           /\ prop' = NoProposal /\ turn' = NoTurn /\ typed' = "other"
           /\ left' \in Nat /\ budget' \in BOOLEAN
<1>1. /\ session' \in Sessions /\ session'.plan = s.plan /\ session'.at = s.at
    BY SessionFields DEF SaveStep, Final, Statuses
<1>2. journal' = journal \/ (~ scoped /\ journal' = [journal EXCEPT !.waiting = s.at])
    BY DEF SaveStep, Recorded
<1>3. journal' \in [plan : Plans, waiting : Nat \cup {NoIndex}]
    BY <1>2 DEF LoopTypeOK, SessionTypes, Sessions
<1>4. Turnover(s, stopped) /\ typed' = "other"
    BY DEF SaveStep
<1>5. QED
    BY <1>1, <1>2, <1>3, <1>4, TurnoverEffect

\* The steps that end in SaveStep.
Saving ==
    \/ PlanDone \/ FileGuard \/ ContractFailure \/ Stop \/ ProposeCommand \/ PatchExists \/ EditFails
    \/ Advance \/ AskForReview \/ FinishAutoApply \/ LateFailure \/ EndTurn

\* The place of a session in its plan.
Place(s) == <<s.plan, s.at>>

LEMMA SavingFrame ==
    ASSUME LoopTypeOK, AtHand, Saving
    PROVE  /\ pc \notin {"idle", "approving"}
           /\ UNCHANGED <<scoped, pend, mode, counts, applied, repaired>>
           /\ tripped' = (tripped \/ pc = "applied")
           /\ (streak' = streak /\ missed' = missed) \/ (streak' = 0 /\ missed' = 0)
           /\ writes' \in Nat
           /\ "auto_edit" \in mode => writes' = writes + turn.writes
<1> USE DEF LoopTypeOK, ObjectTypes, AtHand, history, counts, NoTurn
<1>1. CASE PlanDone
    BY <1>1 DEF PlanDone
<1>2. CASE FileGuard
    BY <1>2 DEF FileGuard, Thinks
<1>3. CASE ContractFailure
    BY <1>3 DEF ContractFailure, Thinks
<1>4. CASE Stop
    BY <1>4 DEF Stop, Thinks
<1>5. CASE ProposeCommand
    BY <1>5 DEF ProposeCommand, Thinks
<1>6. CASE PatchExists
    BY <1>6 DEF PatchExists, Thinks
<1>7. CASE EditFails
    BY <1>7 DEF EditFails, Drafting
<1>8. CASE Advance
    BY <1>8 DEF Advance, Thinks
<1>9. CASE AskForReview
    BY <1>9 DEF AskForReview
<1>10. CASE FinishAutoApply
    BY <1>10 DEF FinishAutoApply
<1>11. CASE LateFailure
    BY <1>11 DEF LateFailure
<1>12. CASE EndTurn
    BY <1>12 DEF EndTurn
<1>13. QED
    BY <1>1, <1>2, <1>3, <1>4, <1>5, <1>6, <1>7, <1>8, <1>9, <1>10, <1>11, <1>12 DEF Saving

LEMMA SavingSession ==
    ASSUME LoopTypeOK, Saving
    PROVE  \E s \in Sessions, stopped \in BOOLEAN :
             /\ SaveStep(s, stopped)
             /\ s.plan = mem.plan
             /\ \/ s.at = mem.at /\ done' = done
                \/ s.at = mem.at + 1 /\ done' = done \cup {<<mem.plan.id, mem.at>>}
<1> DEFINE Pendings == {"none", "asks", "command"}
<1> DEFINE Here == \E p \in Pendings, st \in Statuses, b \in BOOLEAN : SaveStep(Set(mem, p, st), b)
<1> DEFINE Next1 == \E p \in Pendings, st \in Statuses, b \in BOOLEAN :
                      SaveStep(Advanced(mem, p, st), b)
<1>1. \A asks \in BOOLEAN : Asking(asks) \in Pendings
    BY DEF Asking
<1>2. {"active", "waiting_for_user", "completed"} \subseteq Statuses
    BY DEF Statuses
<1>3. (Here /\ done' = done) \/ (Next1 /\ done' = Dealt(mem))
  <2>1. CASE PlanDone
      BY <1>1, <1>2, <2>1 DEF PlanDone, history
  <2>2. CASE FileGuard
      BY <1>1, <1>2, <2>2 DEF FileGuard, history
  <2>3. CASE ContractFailure
      BY <1>1, <1>2, <2>3 DEF ContractFailure, history
  <2>4. CASE Stop
      BY <1>1, <1>2, <2>4 DEF Stop, history
  <2>5. CASE ProposeCommand
      BY <1>1, <1>2, <2>5 DEF ProposeCommand, history
  <2>6. CASE PatchExists
      BY <1>1, <1>2, <2>6 DEF PatchExists, history
  <2>7. CASE EditFails
      BY <1>1, <1>2, <2>7 DEF EditFails, history
  <2>8. CASE Advance
      BY <1>1, <1>2, <2>8 DEF Advance, history
  <2>9. CASE AskForReview
      BY <1>1, <1>2, <2>9 DEF AskForReview, Confirm
  <2>10. CASE FinishAutoApply
      BY <1>1, <1>2, <2>10 DEF FinishAutoApply
  <2>11. CASE LateFailure
      BY <1>1, <1>2, <2>11 DEF LateFailure, Confirm
  <2>12. CASE EndTurn
      BY <1>1, <1>2, <2>12 DEF EndTurn
  <2>13. QED
      BY <2>1, <2>2, <2>3, <2>4, <2>5, <2>6, <2>7, <2>8, <2>9, <2>10, <2>11, <2>12 DEF Saving
<1>4. mem \in Sessions
    BY DEF LoopTypeOK, SessionTypes
<1>5. CASE Here /\ done' = done
  <2>1. PICK p \in Pendings, st \in Statuses, b \in BOOLEAN : SaveStep(Set(mem, p, st), b)
      BY <1>5
  <2>2. QED
      BY <1>4, <1>5, <2>1, SessionFields
<1>6. CASE Next1 /\ done' = Dealt(mem)
  <2>1. PICK p \in Pendings, st \in Statuses, b \in BOOLEAN : SaveStep(Advanced(mem, p, st), b)
      BY <1>6
  <2>2. QED
      BY <1>4, <1>6, <2>1, SessionFields DEF Dealt
<1>7. QED
    BY <1>3, <1>5, <1>6

-----------------------------------------------------------------------------
(* The types, and what is in hand.                                         *)

\* The session of a new plan.
LEMMA NewSession ==
    ASSUME LoopTypeOK, NEW len \in Lengths \cup {1}
    PROVE  /\ NewPlan(len) \in Plans /\ Started(NewPlan(len)) \in Sessions
           /\ Started(NewPlan(len)).at = 0 /\ Started(NewPlan(len)).plan = NewPlan(len)
<1>1. NewPlan(len) \in Plans
    BY LoopAssumption DEF LoopTypeOK, SessionTypes, NewPlan, Plans
<1>2. QED
    BY <1>1 DEF Started, Sessions, Statuses

\* A session that is resumed from the journal.
LEMMA ResumedSession ==
    ASSUME LoopTypeOK, ResumeFrom
    PROVE  /\ session' \in Sessions /\ session'.plan = journal.plan
           /\ IF journal.waiting # NoIndex THEN session'.at = journal.waiting
              ELSE session'.at = (IF session = NoSession THEN 0 ELSE session.at)
<1> DEFINE s == IF session = NoSession THEN Started(journal.plan) ELSE session
<1>1. /\ s \in Sessions /\ s.at = (IF session = NoSession THEN 0 ELSE session.at)
      /\ journal.plan \in Plans /\ journal.waiting \in Nat \cup {NoIndex}
    BY DEF LoopTypeOK, SessionTypes, Started, Sessions, Statuses
<1>2. session' = Resumed(s)
    BY DEF ResumeFrom
<1>3. PICK st \in Statuses :
        session' = [s EXCEPT !.plan = journal.plan,
                             !.at = IF journal.waiting # NoIndex THEN journal.waiting ELSE s.at,
                             !.status = st]
    BY <1>2 DEF Resumed, Statuses
<1> HIDE DEF s
<1>4. QED
    BY <1>1, <1>3 DEF Sessions

LEMMA ObjectTypeStep == ASSUME LoopTypeOK, AtHand, [Next]_vars PROVE ObjectTypes'
<1>1. CASE UNCHANGED vars
    BY <1>1 DEF LoopTypeOK, ObjectTypes, vars, stores, object, frame, counts, history
<1>2. CASE Saving
  <2>1. left > 0
      BY <1>2, SavingFrame DEF AtHand
  <2>2. PICK s \in Sessions, stopped \in BOOLEAN : SaveStep(s, stopped)
      BY <1>2, SavingSession
  <2>3. turn' = NoTurn /\ pc' \in Steps /\ left' \in Nat /\ budget' \in BOOLEAN /\ typed' = "other"
      BY <2>1, <2>2, SaveEffect DEF Steps
  <2>4. tripped' \in BOOLEAN
      BY <1>2, SavingFrame DEF LoopTypeOK, ObjectTypes
  <2>5. QED
      BY <1>2, <2>3, <2>4, SavingFrame, TurnTypes DEF LoopTypeOK, ObjectTypes
<1> USE DEF LoopTypeOK, ObjectTypes, AtHand, stores, object, frame, counts, history, Steps
<1>3. CASE \/ StartTurn \/ ExecuteMcpWrite \/ Draft \/ Edit \/ AutoApply \/ Unlink \/ Clarify
           \/ Approve \/ FinishApproval
    BY <1>3
       DEF StartTurn, ExecuteMcpWrite, Draft, Edit, AutoApply, Unlink, Clarify, StartSession, Approve,
           FinishApproval
<1>4. CASE StuckAbort
  <2>1. left > 0 /\ left \in Nat
      BY <1>4, TurnTypes DEF StuckAbort, Thinks
  <2>2. CASE typed = "apply"
      BY <1>4, <2>2, TurnTypes DEF StuckAbort
  <2>3. CASE typed # "apply"
    <3>1. Turnover(Aborted(mem), FALSE)
        BY <1>4, <2>3, TurnTypes DEF StuckAbort
    <3>2. QED
        BY <1>4, <2>1, <3>1, TurnoverEffect, TurnTypes DEF StuckAbort
  <2>4. QED
      BY <2>2, <2>3
<1>5. CASE CallOther
  <2>1. turn.calls + 1 \in Nat
      OBVIOUS
  <2>2. turn' = [turn EXCEPT !.calls = turn.calls + 1]
      BY <1>5 DEF CallOther
  <2>3. turn' \in [calls : Nat, writes : Nat, unasked : BOOLEAN]
      BY <2>1, <2>2
  <2>4. QED
      BY <1>5, <2>3 DEF CallOther
<1>6. CASE CallWrite
  <2>1. turn.calls + 1 \in Nat /\ turn.writes + 1 \in Nat
      OBVIOUS
  <2>2. turn' = [turn EXCEPT !.calls = turn.calls + 1, !.writes = turn.writes + 1]
      BY <1>6 DEF CallWrite
  <2>3. turn' \in [calls : Nat, writes : Nat, unasked : BOOLEAN]
      BY <2>1, <2>2
  <2>4. QED
      BY <1>6, <2>3 DEF CallWrite
<1>7. CASE CallCommand
  <2>1. turn.calls + 1 \in Nat
      OBVIOUS
  <2>2. PICK u \in BOOLEAN : turn' = [turn EXCEPT !.calls = turn.calls + 1, !.unasked = u]
      BY <1>7 DEF CallCommand
  <2>3. turn' \in [calls : Nat, writes : Nat, unasked : BOOLEAN]
      BY <2>1, <2>2
  <2>4. QED
      BY <1>7, <2>3 DEF CallCommand
<1>8. CASE Validated
  <2>1. left > 0 /\ pc = "validate"
      BY <1>8, TurnTypes DEF Validated
  <2>2. \E s : Turnover(s, FALSE)
      BY <1>8, TurnTypes DEF Validated
  <2>3. QED
      BY <1>8, <2>1, <2>2, TurnoverEffect, TurnTypes DEF Validated
<1>9. CASE ValidationSkipped
    BY <1>9, TurnTypes DEF ValidationSkipped, ExitRun
<1>10. CASE ProposeRepair
    BY <1>10, TurnTypes DEF ProposeRepair, ExitRun
<1>11. CASE RepairFails
    BY <1>11, TurnTypes DEF RepairFails, ExitRun
<1>12. CASE TimeOut
    BY <1>12, TurnTypes DEF TimeOut, ExitRun
<1>13. CASE Interrupt
    BY <1>13, TurnTypes DEF Interrupt, ExitRun, Broken
<1>14. CASE Restart
    BY <1>14, TurnTypes DEF Restart, ExitRun, Broken
<1>15. CASE Ask
  <2>1. MaxSteps \in Nat
      BY LoopAssumption
  <2>2. left' \in Nat /\ budget' \in BOOLEAN
      BY <1>15, <2>1 DEF Ask, Enter
  <2>3. pc' \in Steps /\ repaired' \in BOOLEAN
      BY <1>15 DEF Ask, Enter, StartSession
  <2>4. QED
      BY <1>15, <2>2, <2>3 DEF Ask
<1>16. CASE Continue
  <2>1. MaxSteps \in Nat
      BY LoopAssumption
  <2>2. left' \in Nat /\ budget' \in BOOLEAN
      BY <1>16, <2>1 DEF Continue, Enter
  <2>3. QED
      BY <1>16, <2>2 DEF Continue, Enter
<1>17. CASE \/ Reject \/ ApproveCommand \/ AdoptLegacyPatch \/ SacEdit \/ Abort \/ Clear \/ Resume
            \/ ResumeFrom
    BY <1>17
       DEF Reject, ApproveCommand, AdoptLegacyPatch, StartSession, SacEdit, Abort, Clear, Resume,
           ResumeFrom
<1>18. CASE TurnRaises
  <2>1. missed + turn.writes \in Nat
      OBVIOUS
  <2>2. missed' \in Nat
      BY <1>18, <2>1 DEF TurnRaises
  <2>3. QED
      BY <1>18, <2>2, TurnTypes DEF TurnRaises, ExitRun
<1>19. QED
    BY <1>1, <1>2, <1>3, <1>4, <1>5, <1>6, <1>7, <1>8, <1>9, <1>10, <1>11, <1>12, <1>13, <1>14,
       <1>15, <1>16, <1>17, <1>18
       DEF Next, Work, User, Saving

LEMMA PatchTypeStep == ASSUME LoopTypeOK, AtHand, [Next]_vars PROVE PatchTypes'
<1>1. CASE UNCHANGED vars
    BY <1>1 DEF LoopTypeOK, PatchTypes, vars, stores, frame, counts, history
<1>2. NoProposal \in [id : Nat, blocks : Seq(Kinds)] /\ NoPatch \in Nat
    BY DEF NoProposal, NoPatch
<1>3. CASE Saving
  <2>1. left > 0
      BY <1>3, SavingFrame DEF AtHand
  <2>2. PICK s \in Sessions, stopped \in BOOLEAN : SaveStep(s, stopped)
      BY <1>3, SavingSession
  <2>3. QED
      BY <1>2, <1>3, <2>1, <2>2, SaveEffect, SavingFrame DEF LoopTypeOK, PatchTypes, counts
<1> USE <1>2 DEF LoopTypeOK, PatchTypes, stores, frame, counts, history
<1>4. CASE \/ StartTurn \/ StuckAbort \/ ExecuteMcpWrite \/ Draft \/ AutoApply \/ Unlink
           \/ CallOther \/ CallWrite \/ CallCommand \/ TurnRaises
    BY <1>4
       DEF StartTurn, StuckAbort, Turnover, ExecuteMcpWrite, Draft, AutoApply, Unlink, Removed,
           CallOther, CallWrite, CallCommand, TurnRaises, ExitRun
<1>5. CASE Edit
  <2>1. prop' \in [id : Nat, blocks : Seq(Kinds)]
      BY <1>5, LoopAssumption DEF Edit, NewPatch
  <2>2. patches + 1 \in Nat
      OBVIOUS
  <2>3. pend' \in [Places -> Nat]
      BY <1>5, <2>2 DEF Edit, NewPatch
  <2>4. QED
      BY <1>5, <2>1, <2>2, <2>3 DEF Edit
<1>6. CASE \/ Validated \/ ValidationSkipped \/ RepairFails \/ TimeOut \/ Ask \/ Continue
            \/ Clarify \/ FinishApproval
    BY <1>6
       DEF Validated, Turnover, ValidationSkipped, ExitRun, RepairFails, TimeOut, Ask, Continue,
           Clarify, FinishApproval, Removed
<1>7. CASE ProposeRepair
  <2>1. patches + 1 \in Nat
      OBVIOUS
  <2>2. pend' \in [Places -> Nat]
      BY <1>7, <2>1 DEF ProposeRepair, NewPatch
  <2>3. QED
      BY <1>7, <2>1, <2>2 DEF ProposeRepair, ExitRun
<1>8. CASE Approve
  <2>1. PICK slot \in Places : /\ prop' = [NoProposal EXCEPT !.id = pend[slot]]
                               /\ applied' = applied \cup {pend[slot]}
      BY <1>8 DEF Approve
  <2>2. prop' \in [id : Nat, blocks : Seq(Kinds)]
      BY <1>2, <2>1
  <2>3. QED
      BY <1>8, <2>1, <2>2 DEF Approve
<1>9. CASE \/ Reject \/ ApproveCommand \/ Abort \/ Clear \/ Resume \/ ResumeFrom \/ Interrupt
            \/ Restart
    BY <1>9
       DEF Reject, Removed, ApproveCommand, Abort, Clear, Resume, ResumeFrom, Interrupt, ExitRun,
           Restart
<1>10. CASE AdoptLegacyPatch
  <2>1. pend' \in [Places -> Nat]
      BY <1>10 DEF AdoptLegacyPatch, Places
  <2>2. QED
      BY <1>10, <2>1 DEF AdoptLegacyPatch
<1>11. CASE SacEdit
  <2>1. patches + 1 \in Nat
      OBVIOUS
  <2>2. pend' \in [Places -> Nat]
      BY <1>11, <2>1 DEF SacEdit, NewPatch
  <2>3. QED
      BY <1>11, <2>1, <2>2 DEF SacEdit, ExitRun
<1>12. QED
    BY <1>1, <1>3, <1>4, <1>5, <1>6, <1>7, <1>8, <1>9, <1>10, <1>11 DEF Next, Work, User, Saving

LEMMA SessionTypeStep == ASSUME LoopTypeOK, AtHand, [Next]_vars PROVE SessionTypes'
<1>1. CASE UNCHANGED vars
    BY <1>1 DEF LoopTypeOK, SessionTypes, vars, stores, frame, counts, history
<1>2. CASE Saving
  <2>1. left > 0
      BY <1>2, SavingFrame DEF AtHand
  <2>2. PICK s \in Sessions, stopped \in BOOLEAN :
           /\ SaveStep(s, stopped)
           /\ done' = done \/ done' = done \cup {<<mem.plan.id, mem.at>>}
      BY <1>2, SavingSession
  <2>3. <<mem.plan.id, mem.at>> \in Nat \X Nat
      BY DEF LoopTypeOK, SessionTypes, Sessions, Plans
  <2>4. QED
      BY <1>2, <2>1, <2>2, <2>3, SaveEffect, SavingFrame, Constants
         DEF LoopTypeOK, SessionTypes, counts
<1>3. <<mem.plan.id, mem.at>> \in Nat \X Nat /\ mem.at + 1 \in Nat
    BY DEF LoopTypeOK, SessionTypes, Sessions, Plans
<1> USE DEF LoopTypeOK, SessionTypes, stores, frame, counts, history, Statuses
<1>4. CASE StartTurn \/ Draft \/ Edit \/ AutoApply \/ Unlink \/ CallOther
    BY <1>4 DEF StartTurn, Draft, Edit, AutoApply, Unlink, CallOther
<1>5. CASE StuckAbort
  <2>1. mem' \in Sessions
      BY <1>5, SessionFields, Constants DEF StuckAbort, Turnover
  <2>2. QED
      BY <1>5, <2>1, SessionFields, Constants DEF StuckAbort
<1>6. CASE ExecuteMcpWrite
    BY <1>3, <1>6, SessionFields DEF ExecuteMcpWrite, Dealt
<1>7. CASE CallWrite \/ CallCommand \/ Continue \/ Approve \/ SacEdit
    BY <1>7 DEF CallWrite, CallCommand, Continue, Enter, Approve, SacEdit
<1>8. CASE Validated \/ RepairFails \/ TimeOut
    BY <1>8, SessionFields, Constants DEF Validated, Turnover, RepairFails, ExitRun, TimeOut
<1>9. CASE ValidationSkipped \/ TurnRaises \/ Clear \/ Restart
    BY <1>9, Constants DEF ValidationSkipped, TurnRaises, ExitRun, Clear, Restart
<1>10. CASE ProposeRepair
  <2>1. journal' \in [plan : Plans, waiting : Nat \cup {NoIndex}]
    <3>1. RepairIndex \in Nat
        BY <1>3 DEF RepairIndex
    <3>2. journal' = journal \/ journal' = [journal EXCEPT !.waiting = RepairIndex]
        BY <1>10, SessionFields, Constants DEF ProposeRepair, Recorded
    <3>3. QED
        BY <3>1, <3>2
  <2>2. QED
      BY <1>10, <2>1, SessionFields, Constants DEF ProposeRepair, ExitRun
<1>11. CASE Ask
    BY <1>11, NewSession DEF Ask, StartSession, Enter
<1>12. CASE Clarify \/ AdoptLegacyPatch
    BY <1>12, SessionFields, NewSession
       DEF Clarify, StartSession, Questioned, AdoptLegacyPatch, Migrated
<1>13. CASE FinishApproval \/ Reject \/ ApproveCommand \/ Abort
    BY <1>13, SessionFields DEF FinishApproval, Reject, ApproveCommand, Abort
<1>14. CASE Resume
  <2>1. session' \in Sessions
      BY <1>14 DEF Resume, Sessions
  <2>2. QED
      BY <1>14, <2>1 DEF Resume
<1>15. CASE ResumeFrom
  <2>1. session' \in Sessions /\ UNCHANGED <<journal, frame, counts, history>>
      BY <1>15, ResumedSession DEF ResumeFrom
  <2>2. QED
      BY <2>1
<1>16. CASE Interrupt
  <2>1. session' \in Sessions
      BY <1>16, Constants DEF Interrupt, Sessions
  <2>2. QED
      BY <1>16, <2>1, Constants DEF Interrupt, ExitRun
<1>17. QED
    BY <1>1, <1>2, <1>4, <1>5, <1>6, <1>7, <1>8, <1>9, <1>10, <1>11, <1>12, <1>13, <1>14, <1>15,
       <1>16
       DEF Next, Work, User, Saving

LEMMA LoopTypeStep == ASSUME LoopTypeOK, AtHand, [Next]_vars PROVE LoopTypeOK'
BY SessionTypeStep, ObjectTypeStep, PatchTypeStep DEF LoopTypeOK

-----------------------------------------------------------------------------
(* The parts of the invariant, one after the other.                        *)

LEMMA AtHandStep == ASSUME LoopTypeOK, AtHand, [Next]_vars PROVE AtHand'
<1>1. CASE UNCHANGED vars
    BY <1>1 DEF AtHand, Slot, vars, stores, frame
<1>2. CASE Saving
  <2>1. left > 0
      BY <1>2, SavingFrame DEF AtHand
  <2>2. PICK s \in Sessions, stopped \in BOOLEAN : SaveStep(s, stopped)
      BY <1>2, SavingSession
  <2>3. QED
      BY <2>1, <2>2, SaveEffect DEF AtHand
<1> USE DEF LoopTypeOK, AtHand, Slot, stores, object, frame, counts, history
<1>3. CASE \/ StartTurn \/ ExecuteMcpWrite \/ Draft \/ AutoApply \/ Unlink \/ CallOther
           \/ CallWrite \/ CallCommand
    BY <1>3
       DEF StartTurn, Thinks, ExecuteMcpWrite, Draft, Held, AutoApply, Unlink, CallOther, Calls,
           CallWrite, CallCommand
<1>4. CASE StuckAbort
  <2>1. CASE typed = "apply"
      BY <1>4, <2>1 DEF StuckAbort, Thinks
  <2>2. CASE typed # "apply"
    <3>1. left > 0 /\ pc = "think" /\ Turnover(Aborted(mem), FALSE)
        BY <1>4, <2>2 DEF StuckAbort, Thinks
    <3>2. QED
        BY <1>4, <3>1, TurnoverEffect DEF StuckAbort
  <2>3. QED
      BY <2>1, <2>2
<1>5. CASE Edit
  <2>1. NewPatch \in Nat /\ NewPatch # NoPatch
      BY DEF PatchTypes, NewPatch, NoPatch
  <2>2. pend'[Slot'] = NewPatch /\ prop'.id = NewPatch
      BY <1>5 DEF Edit, PatchTypes, Slot, Places
  <2>3. QED
      BY <1>5, <2>1, <2>2 DEF Edit, Drafting
<1>6. CASE Validated
  <2>1. left > 0 /\ pc = "validate"
      BY <1>6 DEF Validated
  <2>2. \E t : Turnover(t, FALSE)
      BY <1>6 DEF Validated
  <2>3. QED
      BY <1>6, <2>1, <2>2, TurnoverEffect DEF Validated
<1>7. CASE ValidationSkipped \/ ProposeRepair \/ RepairFails \/ TimeOut \/ TurnRaises
    BY <1>7 DEF ValidationSkipped, ProposeRepair, RepairFails, TimeOut, TurnRaises, ExitRun
<1>8. CASE Ask \/ Continue \/ Clarify
    BY <1>8 DEF Ask, Continue, Clarify, Enter
<1>9. CASE Approve
  <2>1. PICK slot \in Places : pend[slot] # NoPatch /\ prop' = [NoProposal EXCEPT !.id = pend[slot]]
      BY <1>9 DEF Approve
  <2>2. prop'.id = pend[slot]
      BY <2>1 DEF NoProposal
  <2>3. QED
      BY <1>9, <2>1, <2>2 DEF Approve
<1>10. CASE \/ FinishApproval \/ Reject \/ ApproveCommand \/ AdoptLegacyPatch \/ Abort \/ Clear
    BY <1>10
       DEF FinishApproval, Reject, Prompted, ApproveCommand, AdoptLegacyPatch, Abort, Clear
<1>11. CASE Resume \/ ResumeFrom \/ Interrupt \/ Restart
    BY <1>11 DEF Resume, ResumeFrom, Interrupt, ExitRun, Restart
<1>12. CASE SacEdit
  <2>1. pend' = [pend EXCEPT !["legacy"] = NewPatch] /\ UNCHANGED <<scoped, mem, prop, left, turn>>
      BY <1>12 DEF SacEdit
  <2>3. pc' = pc \/ (pc \in {"draft", "overtaken"} /\ pc' = "overtaken")
      BY <1>12 DEF SacEdit, Drafting
  <2>4. pc' = "draft" => scoped
      BY <1>12 DEF SacEdit, Drafting
  <2>5. pend'["scoped"] = pend["scoped"]
      BY <2>1 DEF PatchTypes, Places
  <2>6. pc' = "draft" => pend'[Slot'] = NoPatch
      BY <2>1, <2>3, <2>4, <2>5
  <2>7. QED
      BY <2>1, <2>3, <2>5, <2>6
<1>13. QED
    BY <1>1, <1>2, <1>3, <1>4, <1>5, <1>6, <1>7, <1>8, <1>9, <1>10, <1>11, <1>12
       DEF Next, Work, User, Saving

LEMMA OnePlanStep == ASSUME LoopTypeOK, AtHand, OnePlan, Proposals, [Next]_vars PROVE OnePlan'
<1>1. CASE UNCHANGED vars
    BY <1>1 DEF OnePlan, vars, stores, frame, history
<1>2. CASE Saving
  <2>1. left > 0
      BY <1>2, SavingFrame DEF AtHand
  <2>2. PICK s \in Sessions, stopped \in BOOLEAN : SaveStep(s, stopped) /\ s.plan = mem.plan
      BY <1>2, SavingSession
  <2>3. journal'.plan = journal.plan
      BY <2>1, <2>2, SaveEffect DEF LoopTypeOK, SessionTypes
  <2>4. QED
      BY <1>2, <2>1, <2>2, <2>3, SaveEffect, SavingFrame DEF OnePlan
<1>3. mem \in Sessions /\ session \in Sessions /\ Aborted(mem).plan = mem.plan
    BY SessionFields DEF LoopTypeOK, SessionTypes, Statuses
<1> USE DEF OnePlan, AtHand, stores, object, frame, counts, history
<1>4. CASE \/ StartTurn \/ Draft \/ Edit \/ AutoApply \/ Unlink \/ CallOther \/ CallWrite
           \/ CallCommand \/ ValidationSkipped \/ TurnRaises
    BY <1>4
       DEF StartTurn, Thinks, Draft, Edit, Drafting, AutoApply, Unlink, CallOther, Calls, CallWrite,
           CallCommand, ValidationSkipped, TurnRaises, ExitRun
<1>5. CASE StuckAbort
  <2>1. CASE typed = "apply"
      BY <1>3, <1>5, <2>1 DEF StuckAbort, Thinks
  <2>2. CASE typed # "apply"
    <3>1. left > 0 /\ pc = "think" /\ Turnover(Aborted(mem), FALSE)
        BY <1>5, <2>2 DEF StuckAbort, Thinks
    <3>2. QED
        BY <1>3, <1>5, <3>1, TurnoverEffect DEF StuckAbort
  <2>3. QED
      BY <2>1, <2>2
<1>6. CASE ExecuteMcpWrite
  <2>1. mem'.plan = mem.plan
      BY <1>3, <1>6, SessionFields DEF ExecuteMcpWrite, Statuses
  <2>2. QED
      BY <1>6, <2>1 DEF ExecuteMcpWrite, Thinks
<1>7. CASE Validated
  <2> DEFINE s == IF session = NoSession THEN mem ELSE session
  <2>1. left > 0 /\ pc = "validate" /\ Turnover(s, FALSE) /\ (session' = session \/ session' = Aborted(s))
      BY <1>7 DEF Validated
  <2>2. Aborted(s).plan = s.plan
      BY <1>3, SessionFields DEF Statuses
  <2>3. ~ scoped => s.plan = journal.plan
      BY <2>1
  <2> HIDE DEF s
  <2>4. mem' = NoSession \/ mem' = s
      BY <2>1, TurnoverEffect
  <2>5. QED
      BY <1>7, <2>1, <2>2, <2>3, <2>4, TurnoverEffect DEF Validated
<1>8. CASE ProposeRepair
  <2>1. session'.plan = mem.plan /\ journal'.plan = journal.plan
      BY <1>3, <1>8, SessionFields DEF ProposeRepair, Recorded, Statuses, LoopTypeOK, SessionTypes
  <2>2. QED
      BY <1>8, <2>1 DEF ProposeRepair, ExitRun
<1>9. CASE RepairFails
  <2>1. QED
      BY <1>3, <1>9 DEF RepairFails, ExitRun
<1>10. CASE TimeOut
  <2>1. QED
      BY <1>3, <1>10 DEF TimeOut, ExitRun
<1>11. CASE Ask
  <2>1. PICK len \in Lengths : /\ StartSession(NewPlan(len), Started(NewPlan(len)))
                               /\ Enter(Started(NewPlan(len)))
      BY <1>11 DEF Ask
  <2>2. Started(NewPlan(len)).plan = NewPlan(len)
      BY NewSession
  <2>3. QED
      BY <1>11, <2>1, <2>2 DEF Ask, StartSession, Enter
<1>12. CASE \/ Continue \/ Approve \/ Reject \/ ApproveCommand \/ SacEdit \/ Clear \/ Interrupt
            \/ Restart
    BY <1>12
       DEF Continue, Enter, Approve, Reject, Prompted, ApproveCommand, SacEdit, Drafting, Clear,
           Interrupt, ExitRun, Restart
<1>13. CASE Clarify
  <2>1. CASE session # NoSession /\ session' = Questioned(session) /\ UNCHANGED <<journal, plans, repaired>>
    <3>1. session'.plan = session.plan
        BY <1>3, <2>1, SessionFields DEF Questioned, Statuses
    <3>2. QED
        BY <1>13, <2>1, <3>1 DEF Clarify
  <2>2. ASSUME NEW len \in Lengths, StartSession(NewPlan(len), Questioned(Started(NewPlan(len))))
        PROVE  OnePlan'
    <3>1. Questioned(Started(NewPlan(len))).plan = NewPlan(len)
        BY NewSession, SessionFields DEF Questioned, Statuses
    <3>2. QED
        BY <1>13, <2>2, <3>1 DEF Clarify, StartSession
  <2>3. QED
      BY <1>13, <2>1, <2>2 DEF Clarify
<1>14. CASE FinishApproval
  <2>1. ~ scoped => session' = session
      BY <1>14 DEF FinishApproval, ApprovedSlot, Proposals
  <2>2. QED
      BY <1>14, <2>1 DEF FinishApproval
<1>15. CASE AdoptLegacyPatch
  <2>1. scoped /\ scoped' = scoped /\ ~ repaired'
      BY <1>15 DEF AdoptLegacyPatch, StartSession
  <2>2. QED
      BY <2>1
<1>16. CASE Abort
  <2>1. session'.plan = session.plan
      BY <1>3, <1>16, SessionFields DEF Abort, Statuses
  <2>2. QED
      BY <1>16, <2>1 DEF Abort
<1>17. CASE Resume
  <2>1. session'.plan = session.plan
      BY <1>3, <1>17 DEF Resume, Sessions
  <2>2. QED
      BY <1>17, <2>1 DEF Resume
<1>18. CASE ResumeFrom
  <2>1. session'.plan = journal.plan
      BY <1>18, ResumedSession
  <2>2. QED
      BY <1>18, <2>1 DEF ResumeFrom
<1>19. QED
    BY <1>1, <1>2, <1>4, <1>5, <1>6, <1>7, <1>8, <1>9, <1>10, <1>11, <1>12, <1>13, <1>14, <1>15,
       <1>16, <1>17, <1>18
       DEF Next, Work, User, Saving

\* Dealing with the next item takes one further; nothing is undone.
LEMMA ThroughNone == \A plan, dealt : Through(plan, 0, dealt)
BY DEF Through

LEMMA ThroughMore ==
    \A plan, n, dealt, more : Through(plan, n, dealt) => Through(plan, n, dealt \cup more)
BY DEF Through

LEMMA ThroughNext ==
    \A plan, dealt : \A n \in Nat :
        Through(plan, n, dealt) => Through(plan, n + 1, dealt \cup {<<plan.id, n>>})
BY DEF Through

LEMMA ReachedStep == ASSUME LoopTypeOK, AtHand, OnePlan, Reached, [Next]_vars PROVE Reached'
<1>1. CASE UNCHANGED vars
    BY <1>1 DEF Reached, vars, stores, frame, history
<1>2. CASE Saving
  <2>1. left > 0
      BY <1>2, SavingFrame DEF AtHand
  <2>2. PICK s \in Sessions, stopped \in BOOLEAN :
           /\ SaveStep(s, stopped)
           /\ s.plan = mem.plan
           /\ \/ s.at = mem.at /\ done' = done
              \/ s.at = mem.at + 1 /\ done' = done \cup {<<mem.plan.id, mem.at>>}
      BY <1>2, SavingSession
  <2>3. SUFFICES ASSUME ~ repaired
                 PROVE  /\ Through(session'.plan, session'.at, done')
                        /\ Through(mem'.plan, mem'.at, done')
                        /\ journal'.waiting # NoIndex =>
                             Through(journal'.plan, journal'.waiting, done')
      BY <1>2, SavingFrame DEF Reached
  <2>4. mem.at \in Nat /\ NoSession.at = 0
      BY Constants DEF LoopTypeOK, SessionTypes, Sessions
  <2>5. Through(s.plan, s.at, done')
      BY <2>2, <2>3, <2>4, ThroughNext DEF Reached
  <2>6. Through(session'.plan, session'.at, done') /\ Through(mem'.plan, mem'.at, done')
      BY <2>1, <2>2, <2>4, <2>5, SaveEffect, ThroughNone
  <2>7. journal'.waiting # NoIndex => Through(journal'.plan, journal'.waiting, done')
    <3>1. CASE journal' = journal
        BY <2>2, <2>3, <3>1, ThroughMore DEF Reached
    <3>2. CASE ~ scoped /\ journal' = [journal EXCEPT !.waiting = s.at]
      <4>1. mem.plan = journal.plan
          BY <1>2, <3>2, SavingFrame DEF OnePlan
      <4>2. journal'.plan = s.plan /\ journal'.waiting = s.at
          BY <2>2, <3>2, <4>1 DEF LoopTypeOK, SessionTypes
      <4>3. QED
          BY <2>5, <4>2
    <3>3. QED
        BY <2>1, <2>2, <3>1, <3>2, SaveEffect
  <2>8. QED
      BY <2>6, <2>7
<1>3. /\ mem \in Sessions /\ session \in Sessions
      /\ Aborted(mem).plan = mem.plan /\ Aborted(mem).at = mem.at
    BY SessionFields DEF LoopTypeOK, SessionTypes, Statuses
<1>4. Through(NoSession.plan, NoSession.at, done)
    BY Constants, ThroughNone
<1> USE DEF Reached, stores, object, frame, counts, history
<1>5. CASE StartTurn \/ Draft \/ Edit \/ AutoApply \/ Unlink \/ CallOther
    BY <1>5 DEF StartTurn, Draft, Edit, AutoApply, Unlink, CallOther
<1>6. CASE StuckAbort
  <2>1. CASE typed = "apply"
      BY <1>3, <1>6, <2>1 DEF StuckAbort
  <2>2. CASE typed # "apply"
    <3>1. left > 0 /\ Turnover(Aborted(mem), FALSE)
        BY <1>6, <2>2 DEF StuckAbort, Thinks, AtHand
    <3>2. mem' = NoSession \/ mem' = Aborted(mem)
        BY <3>1, TurnoverEffect
    <3>3. session' = Aborted(mem) /\ UNCHANGED <<journal, done, repaired>>
        BY <1>6 DEF StuckAbort
    <3>4. QED
        BY <1>3, <1>4, <3>2, <3>3
  <2>3. QED
      BY <2>1, <2>2
<1>7. CASE ExecuteMcpWrite
  <2>1. /\ mem'.plan = mem.plan /\ mem'.at = mem.at + 1 /\ session' = mem'
        /\ done' = done \cup {<<mem.plan.id, mem.at>>}
        /\ UNCHANGED <<journal, repaired>>
      BY <1>3, <1>7, SessionFields DEF ExecuteMcpWrite, Dealt, Statuses
  <2>2. mem.at \in Nat
      BY <1>3 DEF Sessions
  <2>3. ~ repaired => Through(mem.plan, mem.at + 1, done')
      BY <2>1, <2>2, ThroughNext
  <2>4. ~ repaired /\ journal.waiting # NoIndex => Through(journal.plan, journal.waiting, done')
      BY <2>1, ThroughMore
  <2>5. QED
      BY <2>1, <2>3, <2>4
<1>8. CASE CallWrite \/ CallCommand \/ Continue \/ Approve \/ SacEdit
    BY <1>8 DEF CallWrite, CallCommand, Continue, Enter, Approve, SacEdit
<1>9. CASE Validated
  <2> DEFINE s == IF session = NoSession THEN mem ELSE session
  <2>1. left > 0 /\ Turnover(s, FALSE) /\ (session' = session \/ session' = Aborted(s))
      BY <1>9 DEF Validated, AtHand
  <2>2. Aborted(s).plan = s.plan /\ Aborted(s).at = s.at
      BY <1>3, SessionFields DEF Statuses
  <2>3. ~ repaired => Through(s.plan, s.at, done)
      OBVIOUS
  <2> HIDE DEF s
  <2>4. mem' = NoSession \/ mem' = s
      BY <2>1, TurnoverEffect
  <2>5. QED
      BY <1>4, <1>9, <2>1, <2>2, <2>3, <2>4 DEF Validated
<1>10. CASE ValidationSkipped \/ TurnRaises
  <2>1. QED
      BY <1>4, <1>10 DEF ValidationSkipped, TurnRaises, ExitRun
<1>11. CASE ProposeRepair
  <2>1. CASE scoped
    <3>1. session'.plan = mem.plan /\ session'.at = mem.at /\ journal' = journal
        BY <1>3, <1>11, <2>1, SessionFields DEF ProposeRepair, Recorded, Statuses
    <3>2. ~ repaired
        BY <2>1 DEF OnePlan
    <3>3. QED
        BY <1>4, <1>11, <3>1, <3>2 DEF ProposeRepair, ExitRun
  <2>2. CASE ~ scoped
      BY <1>11, <2>2 DEF ProposeRepair
  <2>3. QED
      BY <2>1, <2>2
<1>12. CASE RepairFails
  <2>1. QED
      BY <1>3, <1>4, <1>12 DEF RepairFails, ExitRun
<1>13. CASE TimeOut
  <2>1. QED
      BY <1>3, <1>4, <1>13 DEF TimeOut, ExitRun
<1>14. CASE Ask
  <2>1. PICK len \in Lengths : /\ StartSession(NewPlan(len), Started(NewPlan(len)))
                               /\ Enter(Started(NewPlan(len)))
      BY <1>14 DEF Ask
  <2>2. Started(NewPlan(len)).at = 0
      BY NewSession
  <2>3. (scoped => ~ repaired) /\ (journal' = journal \/ journal'.waiting = NoIndex)
      BY <2>1 DEF StartSession, OnePlan
  <2>4. session' = Started(NewPlan(len)) /\ mem' = session' /\ (scoped \/ journal'.waiting = NoIndex)
      BY <2>1 DEF StartSession, Enter
  <2>5. done' = done
      BY <1>14 DEF Ask
  <2>6. QED
      BY <2>2, <2>3, <2>4, <2>5, ThroughNone
<1>15. CASE Clarify
  <2>1. CASE session # NoSession /\ session' = Questioned(session) /\ UNCHANGED <<journal, plans, repaired>>
    <3>1. session'.plan = session.plan /\ session'.at = session.at
        BY <1>3, <2>1, SessionFields DEF Questioned, Statuses
    <3>2. QED
        BY <1>15, <2>1, <3>1 DEF Clarify
  <2>2. ASSUME NEW len \in Lengths, StartSession(NewPlan(len), Questioned(Started(NewPlan(len))))
        PROVE  Reached'
    <3>1. Questioned(Started(NewPlan(len))).at = 0
      <4>1. Started(NewPlan(len)) \in Sessions /\ Started(NewPlan(len)).at = 0
          BY NewSession
      <4>2. QED
          BY <4>1, SessionFields DEF Questioned, Statuses
    <3>2. session'.at = 0 /\ journal'.waiting = NoIndex /\ mem' = NoSession /\ done' = done
        BY <1>15, <2>2, <3>1 DEF Clarify, StartSession, AtHand
    <3>3. QED
        BY <1>4, <3>2, ThroughNone
  <2>3. QED
      BY <1>15, <2>1, <2>2 DEF Clarify
<1>16. CASE FinishApproval
  <2>1. session' = session \/ (session'.plan = session.plan /\ session'.at = session.at)
      BY <1>3, <1>16, SessionFields DEF FinishApproval, Statuses
  <2>2. QED
      BY <1>16, <2>1 DEF FinishApproval
<1>17. CASE Reject
  <2>1. session'.plan = session.plan /\ session'.at = session.at
      BY <1>3, <1>17, SessionFields DEF Reject, Statuses
  <2>2. QED
      BY <1>17, <2>1 DEF Reject
<1>18. CASE ApproveCommand
  <2>1. session'.plan = session.plan /\ session'.at = session.at
      BY <1>3, <1>18, SessionFields DEF ApproveCommand, Statuses
  <2>2. QED
      BY <1>18, <2>1 DEF ApproveCommand
<1>19. CASE AdoptLegacyPatch
  <2>1. mem' = mem /\ done' = done /\ journal' = journal /\ ~ repaired
      BY <1>19 DEF AdoptLegacyPatch, StartSession, OnePlan
  <2>2. CASE session' = Migrated(session)
    <3>1. session'.plan = session.plan /\ session'.at = session.at
        BY <1>3, <2>2, SessionFields DEF Migrated, Statuses
    <3>2. QED
        BY <2>1, <3>1
  <2>3. CASE session' = Migrated(Started(NewPlan(1)))
    <3>1. session'.at = 0
      <4>1. Started(NewPlan(1)) \in Sessions /\ Started(NewPlan(1)).at = 0
          BY NewSession
      <4>2. QED
          BY <2>3, <4>1, SessionFields DEF Migrated, Statuses
    <3>2. QED
        BY <2>1, <3>1, ThroughNone
  <2>4. QED
      BY <1>19, <2>2, <2>3 DEF AdoptLegacyPatch, StartSession
<1>20. CASE Abort
  <2>1. session'.plan = session.plan /\ session'.at = session.at
      BY <1>3, <1>20, SessionFields DEF Abort, Statuses
  <2>2. QED
      BY <1>20, <2>1 DEF Abort
<1>21. CASE Clear
  <2>1. QED
      BY <1>4, <1>21 DEF Clear
<1>22. CASE Resume
  <2>1. session'.plan = session.plan /\ session'.at = session.at
      BY <1>3, <1>22 DEF Resume, Sessions
  <2>2. QED
      BY <1>22, <2>1 DEF Resume
<1>23. CASE ResumeFrom
  <2>1. UNCHANGED <<mem, journal, done, repaired>> /\ ~ scoped
      BY <1>23 DEF ResumeFrom
  <2>2. session # NoSession => session.plan = journal.plan
      BY <2>1 DEF OnePlan
  <2>3. QED
      BY <1>23, <2>1, <2>2, ResumedSession, ThroughNone
<1>24. CASE Interrupt
  <2>1. session'.plan = session.plan /\ session'.at = session.at
      BY <1>3, <1>24 DEF Interrupt, Sessions
  <2>2. QED
      BY <1>4, <1>24, <2>1 DEF Interrupt, ExitRun
<1>25. CASE Restart
  <2>1. QED
      BY <1>4, <1>25 DEF Restart, ExitRun
<1>26. QED
    BY <1>1, <1>2, <1>5, <1>6, <1>7, <1>8, <1>9, <1>10, <1>11, <1>12, <1>13, <1>14, <1>15, <1>16,
       <1>17, <1>18, <1>19, <1>20, <1>21, <1>22, <1>23, <1>24, <1>25
       DEF Next, Work, User, Saving

LEMMA ProposalsStep == ASSUME LoopTypeOK, AtHand, Proposals, [Next]_vars PROVE Proposals'
<1>1. CASE UNCHANGED vars
    BY <1>1 DEF Proposals, vars, stores, frame, counts, history
<1>2. CASE Saving
  <2>1. left > 0
      BY <1>2, SavingFrame DEF AtHand
  <2>2. PICK s \in Sessions, stopped \in BOOLEAN : SaveStep(s, stopped)
      BY <1>2, SavingSession
  <2>3. prop'.id = 0 /\ patches \in Nat
      BY <2>1, <2>2, SaveEffect DEF NoProposal, NoPatch, LoopTypeOK, PatchTypes
  <2>4. UNCHANGED <<scoped, pend, patches, applied>>
      BY <1>2, SavingFrame DEF counts
  <2>5. prop'.id <= patches'
      BY <2>3, <2>4
  <2>6. QED
      BY <2>4, <2>5 DEF Proposals
<1>3. /\ pend \in [Places -> Nat] /\ patches \in Nat /\ applied \subseteq Nat
      /\ \A slot \in Places : pend[slot] \in Nat /\ pend[slot] <= patches
    BY DEF LoopTypeOK, PatchTypes, Proposals
<1> USE DEF stores, object, frame, counts, history
<1>0. NoProposal.id <= patches
    BY <1>3 DEF NoProposal, NoPatch
<1>4. CASE \/ StartTurn \/ StuckAbort \/ ExecuteMcpWrite \/ Draft \/ CallOther \/ CallWrite
           \/ CallCommand \/ Validated
    BY <1>0, <1>4
       DEF Proposals, StartTurn, StuckAbort, Turnover, ExecuteMcpWrite, Draft, CallOther, CallWrite,
           CallCommand, Validated
<1>5. CASE Edit
  <2>6. prop'.id = patches + 1
      BY <1>5 DEF Edit, NewPatch
  <2>1. patches \in Nat /\ patches' = patches + 1 /\ UNCHANGED <<scoped, applied>>
      BY <1>5 DEF Edit, LoopTypeOK, PatchTypes
  <2>2. pend' = [pend EXCEPT ![Slot] = patches + 1]
      BY <1>5 DEF Edit, NewPatch
  <2>3. /\ \A slot \in Places : pend'[slot] <= patches' /\ (scoped \/ pend'["scoped"] = NoPatch)
        /\ pend'["scoped"] # pend'["legacy"]
      BY <1>3, <2>1, <2>2 DEF Proposals, Slot, Places, NoPatch
  <2>4. applied' \subseteq 1..patches'
      BY <2>1 DEF Proposals
  <2>5. QED
      BY <2>1, <2>3, <2>4, <2>6 DEF Proposals, Places
<1>6. CASE AutoApply
  <2>1. prop.id \in 1..patches
      BY <1>3, <1>6 DEF AutoApply, AtHand, Proposals, NoPatch, LoopTypeOK, PatchTypes
  <2>2. QED
      BY <1>6, <2>1 DEF AutoApply, Proposals
<1>7. CASE Unlink
  <2>1. pend' = [pend EXCEPT ![Slot] = NoPatch] /\ UNCHANGED <<scoped, patches, applied, prop>>
      BY <1>7 DEF Unlink, Removed
  <2>2. QED
      BY <1>3, <2>1 DEF Proposals, Places, NoPatch
<1>8. CASE \/ ValidationSkipped \/ RepairFails \/ TimeOut \/ TurnRaises \/ Ask \/ Continue
           \/ Clarify \/ ApproveCommand
    BY <1>0, <1>8
       DEF Proposals, ValidationSkipped, RepairFails, TimeOut, TurnRaises, ExitRun, Ask, Continue,
           Clarify, ApproveCommand
<1>9. CASE ProposeRepair
  <2>1. patches \in Nat /\ patches' = patches + 1 /\ UNCHANGED <<scoped, applied>>
      BY <1>9 DEF ProposeRepair, LoopTypeOK, PatchTypes
  <2>2. pend' = [pend EXCEPT !["legacy"] = patches + 1]
      BY <1>9 DEF ProposeRepair, NewPatch
  <2>3. /\ \A slot \in Places : pend'[slot] <= patches' /\ (scoped \/ pend'["scoped"] = NoPatch)
        /\ pend'["scoped"] # pend'["legacy"]
      BY <1>3, <2>1, <2>2 DEF Proposals, Slot, Places, NoPatch
  <2>4. applied' \subseteq 1..patches'
      BY <2>1 DEF Proposals
  <2>5. prop'.id = 0
      BY <1>9 DEF ProposeRepair, ExitRun, NoProposal, NoPatch
  <2>6. QED
      BY <2>1, <2>3, <2>4, <2>5 DEF Proposals, Places
<1>10. CASE Approve
  <2>1. PICK slot \in Places : /\ pend[slot] # NoPatch /\ applied' = applied \cup {pend[slot]}
                               /\ prop' = [NoProposal EXCEPT !.id = pend[slot]]
      BY <1>10 DEF Approve
  <2>2. pend[slot] \in 1..patches /\ prop'.id = pend[slot]
      BY <1>3, <2>1 DEF Proposals, NoPatch, NoProposal
  <2>3. QED
      BY <1>10, <2>1, <2>2 DEF Approve, Proposals
<1>11. CASE FinishApproval
  <2>1. /\ \E slot \in Places : pend' = [pend EXCEPT ![slot] = NoPatch]
        /\ UNCHANGED <<scoped, patches, applied>> /\ prop'.id <= patches
      BY <1>0, <1>11 DEF FinishApproval, ApprovedSlot, Places, Removed
  <2>2. QED
      BY <1>3, <2>1 DEF Proposals, Places, NoPatch
<1>12. CASE Reject
  <2>1. pend' = [pend EXCEPT !["scoped"] = NoPatch] /\ UNCHANGED <<scoped, patches, applied, prop>>
      BY <1>12 DEF Reject, Removed
  <2>2. QED
      BY <1>3, <2>1 DEF Proposals, Places, NoPatch
<1>13. CASE AdoptLegacyPatch
  <2>1. /\ pend' = [scoped |-> pend["legacy"], legacy |-> NoPatch] /\ pend["legacy"] # NoPatch /\ scoped
        /\ UNCHANGED <<scoped, patches, applied, prop>>
      BY <1>13 DEF AdoptLegacyPatch
  <2>2. QED
      BY <1>3, <2>1 DEF Proposals, Places, NoPatch
<1>14. CASE SacEdit
  <2>1. patches \in Nat /\ patches' = patches + 1 /\ UNCHANGED <<scoped, applied, prop>>
      BY <1>14 DEF SacEdit, LoopTypeOK, PatchTypes
  <2>2. pend' = [pend EXCEPT !["legacy"] = patches + 1]
      BY <1>14 DEF SacEdit, NewPatch
  <2>3. /\ \A slot \in Places : pend'[slot] <= patches' /\ (scoped \/ pend'["scoped"] = NoPatch)
        /\ pend'["scoped"] # pend'["legacy"]
      BY <1>3, <2>1, <2>2 DEF Proposals, Slot, Places, NoPatch
  <2>4. applied' \subseteq 1..patches'
      BY <2>1 DEF Proposals
  <2>5. prop.id <= patches + 1
      BY <2>1 DEF Proposals, LoopTypeOK, PatchTypes
  <2>6. QED
      BY <2>1, <2>3, <2>4, <2>5 DEF Proposals, Places
<1>15. CASE Abort \/ Clear \/ Resume \/ ResumeFrom \/ Interrupt \/ Restart
    BY <1>0, <1>15 DEF Proposals, Abort, Clear, Resume, ResumeFrom, Interrupt, ExitRun, Restart
<1>16. QED
    BY <1>1, <1>2, <1>4, <1>5, <1>6, <1>7, <1>8, <1>9, <1>10, <1>11, <1>12, <1>13, <1>14, <1>15
       DEF Next, Work, User, Saving

LEMMA UnappliedStep ==
    ASSUME LoopTypeOK, AtHand, Proposals, Unapplied, [Next]_vars
    PROVE  Unapplied'
<1>1. CASE UNCHANGED vars
    BY <1>1 DEF Unapplied, vars, stores, frame, history
<1>2. CASE Saving
    BY <1>2, SavingFrame DEF Unapplied
<1>3. /\ pend \in [Places -> Nat] /\ applied \subseteq Nat /\ 0 \notin applied
      /\ \A slot \in Places : pend[slot] \in Nat
    BY DEF LoopTypeOK, PatchTypes, Proposals
<1> USE DEF stores, object, frame, counts, history
<1>4. CASE \/ StartTurn \/ ExecuteMcpWrite \/ Draft \/ CallOther \/ CallWrite \/ CallCommand
           \/ TurnRaises \/ Validated \/ ValidationSkipped
    BY <1>4
       DEF Unapplied, StartTurn, Thinks, ExecuteMcpWrite, Draft, CallOther, Calls, CallWrite,
           CallCommand, TurnRaises, Validated, ValidationSkipped
<1>5. CASE StuckAbort
  <2>1. pc = "think" /\ UNCHANGED <<pend, applied, tripped>>
      BY <1>5 DEF StuckAbort, Thinks
  <2>2. QED
      BY <2>1 DEF Unapplied
<1>6. CASE Edit
  <2>1. patches \in Nat /\ UNCHANGED <<applied, tripped>> /\ pc \notin {"applied", "approving"}
      BY <1>6 DEF Edit, LoopTypeOK, PatchTypes, Drafting
  <2>2. pend' = [pend EXCEPT ![Slot] = patches + 1] /\ patches + 1 \notin applied
      BY <1>6, <2>1 DEF Edit, NewPatch, Proposals
  <2>3. \A slot \in Places : pend'[slot] = pend[slot] \/ pend'[slot] \notin applied
      BY <1>3, <2>2
  <2>4. QED
      BY <2>1, <2>3 DEF Unapplied
<1>7. CASE AutoApply
  <2>1. /\ pc = "edited" /\ pc' = "applied" /\ applied' = applied \cup {prop.id}
        /\ UNCHANGED <<pend, prop, tripped>>
      BY <1>7 DEF AutoApply
  <2>2. QED
      BY <2>1 DEF Unapplied
<1>8. CASE Unlink
  <2>1. /\ pc = "applied" /\ prop.id # NoPatch /\ (scoped => prop.id = pend["scoped"])
        /\ pend' = [pend EXCEPT ![Slot] = NoPatch] /\ UNCHANGED <<applied, tripped>>
      BY <1>8 DEF Unlink, Removed, AtHand
  <2>2. CASE scoped
    <3>1. pend'["scoped"] = NoPatch /\ pend'["legacy"] = pend["legacy"]
        BY <1>3, <2>1, <2>2 DEF Slot, Places
    <3>2. ~ tripped => pend["legacy"] \notin applied
        BY <2>1, <2>2 DEF Unapplied, Proposals, Places
    <3>3. QED
        BY <1>3, <2>1, <3>1, <3>2 DEF Unapplied, Places, NoPatch
  <2>3. CASE ~ scoped
    <3>1. pend'["legacy"] = NoPatch /\ pend'["scoped"] = NoPatch
        BY <1>3, <2>1, <2>3 DEF Slot, Places, Proposals
    <3>2. QED
        BY <1>3, <2>1, <3>1 DEF Unapplied, Places, NoPatch
  <2>4. QED
      BY <2>2, <2>3
<1>9. CASE ProposeRepair
  <2>1. patches \in Nat /\ UNCHANGED <<applied, tripped>> /\ pc \notin {"applied", "approving"}
      BY <1>9 DEF ProposeRepair, LoopTypeOK, PatchTypes
  <2>2. pend' = [pend EXCEPT !["legacy"] = patches + 1] /\ patches + 1 \notin applied
      BY <1>9, <2>1 DEF ProposeRepair, NewPatch, Proposals
  <2>3. \A slot \in Places : pend'[slot] = pend[slot] \/ pend'[slot] \notin applied
      BY <1>3, <2>2
  <2>4. QED
      BY <2>1, <2>3 DEF Unapplied
<1>10. CASE RepairFails \/ TimeOut \/ Ask \/ Continue \/ Clarify \/ ApproveCommand \/ Abort
    BY <1>10
       DEF Unapplied, RepairFails, TimeOut, Ask, Enter, Continue, Clarify, ApproveCommand, Abort
<1>11. CASE Approve
  <2>1. PICK slot \in Places : /\ prop' = [NoProposal EXCEPT !.id = pend[slot]]
                               /\ applied' = applied \cup {pend[slot]}
      BY <1>11 DEF Approve
  <2>2. prop'.id = pend[slot] /\ pc = "idle" /\ pc' = "approving" /\ UNCHANGED <<pend, tripped>>
      BY <1>11, <2>1 DEF Approve, NoProposal
  <2>3. QED
      BY <2>1, <2>2 DEF Unapplied
<1>12. CASE FinishApproval
  <2>1. pend' = [pend EXCEPT ![ApprovedSlot] = NoPatch] /\ UNCHANGED <<applied, tripped>>
      BY <1>12 DEF FinishApproval, Removed
  <2>2. prop.id # NoPatch
      BY <1>12 DEF FinishApproval, AtHand
  <2>3. CASE pend["scoped"] = prop.id
    <3>1. pend'["scoped"] = NoPatch /\ pend'["legacy"] = pend["legacy"]
        BY <1>3, <2>1, <2>3 DEF ApprovedSlot, Places
    <3>2. ~ tripped => pend["legacy"] \notin applied
        BY <2>2, <2>3 DEF Unapplied, Proposals, Places
    <3>3. QED
        BY <1>3, <2>1, <3>1, <3>2 DEF Unapplied, Places, NoPatch
  <2>4. CASE pend["scoped"] # prop.id
    <3>1. pend'["legacy"] = NoPatch /\ pend'["scoped"] = pend["scoped"]
        BY <1>3, <2>1, <2>4 DEF ApprovedSlot, Places
    <3>2. ~ tripped => pend["scoped"] \notin applied
        BY <2>4 DEF Unapplied, Places
    <3>3. QED
        BY <1>3, <2>1, <3>1, <3>2 DEF Unapplied, Places, NoPatch
  <2>5. QED
      BY <2>3, <2>4
<1>13. CASE Reject
  <2>1. /\ pend' = [pend EXCEPT !["scoped"] = NoPatch] /\ UNCHANGED <<applied, tripped, pc, prop>>
      BY <1>13 DEF Reject, Removed
  <2>2. QED
      BY <1>3, <2>1 DEF Unapplied, Places, NoPatch
<1>14. CASE AdoptLegacyPatch
  <2>1. /\ pend' = [scoped |-> pend["legacy"], legacy |-> NoPatch] /\ pc = "idle"
        /\ UNCHANGED <<applied, tripped, pc, prop>>
      BY <1>14 DEF AdoptLegacyPatch
  <2>2. QED
      BY <1>3, <2>1 DEF Unapplied, Places, NoPatch
<1>15. CASE SacEdit
  <2>1. /\ patches \in Nat /\ UNCHANGED <<applied, tripped, prop>>
        /\ pc' = pc \/ pc \notin {"applied", "approving"}
      BY <1>15 DEF SacEdit, Drafting, LoopTypeOK, PatchTypes
  <2>2. pend' = [pend EXCEPT !["legacy"] = patches + 1] /\ patches + 1 \notin applied
      BY <1>15, <2>1 DEF SacEdit, NewPatch, Proposals
  <2>3. \A slot \in Places : pend'[slot] = pend[slot] \/ pend'[slot] \notin applied
      BY <1>3, <2>2
  <2>4. QED
      BY <2>1, <2>3 DEF Unapplied
<1>16. CASE Clear \/ Resume \/ ResumeFrom \/ Interrupt \/ Restart
    BY <1>16 DEF Unapplied, Clear, Resume, ResumeFrom, Interrupt, Broken, Restart
<1>17. QED
    BY <1>1, <1>2, <1>4, <1>5, <1>6, <1>7, <1>8, <1>9, <1>10, <1>11, <1>12, <1>13, <1>14, <1>15,
       <1>16
       DEF Next, Work, User, Saving

\* What is counted stays within the guard.
Bounded == Counted /\ GuardBoundsWrites

LEMMA BoundedStep == ASSUME LoopTypeOK, AtHand, Bounded, [Next]_vars PROVE Bounded'
<1>1. CASE UNCHANGED vars
    BY <1>1 DEF Bounded, Counted, GuardBoundsWrites, vars, object, frame, history
<1>2. /\ Guard \in Nat \ {0} /\ Cap \in Nat \ {0} /\ writes \in Nat /\ streak \in Nat /\ missed \in Nat
      /\ turn \in [calls : Nat, writes : Nat, unasked : BOOLEAN]
      /\ turn.calls \in Nat /\ turn.writes \in Nat
    BY LoopAssumption DEF LoopTypeOK, ObjectTypes
<1>3. CASE Saving
  <2>1. left > 0
      BY <1>3, SavingFrame DEF AtHand
  <2>2. PICK s \in Sessions, stopped \in BOOLEAN : SaveStep(s, stopped)
      BY <1>3, SavingSession
  <2>3. turn' = NoTurn /\ pc' # "turn" /\ NoTurn.calls = 0 /\ NoTurn.writes = 0
      BY <2>1, <2>2, SaveEffect DEF NoTurn
  <2>4. mode' = mode /\ ("auto_edit" \in mode => writes' = writes + turn.writes) /\ writes' \in Nat
      BY <1>3, SavingFrame
  <2>5. (streak' = streak /\ missed' = missed) \/ (streak' = 0 /\ missed' = 0)
      BY <1>3, SavingFrame
  <2>6. "auto_edit" \in mode => streak' <= writes' + 0 + missed' /\ streak' < Guard + Cap + missed'
      BY <1>2, <2>4, <2>5 DEF Bounded, Counted, GuardBoundsWrites
  <2>7. QED
      BY <1>2, <2>3, <2>4, <2>6 DEF Bounded, Counted, GuardBoundsWrites
<1> USE <1>2 DEF stores, object, frame, counts, history, AtHand, Counted, GuardBoundsWrites, NoTurn
<1>4. CASE StartTurn
  <2>1. "auto_edit" \in mode => writes < Guard
      BY <1>2, <1>4 DEF StartTurn, GuardReached
  <2>2. UNCHANGED <<turn, mode, streak, missed, writes>>
      BY <1>4 DEF StartTurn
  <2>3. QED
      BY <2>1, <2>2 DEF Bounded, Counted, GuardBoundsWrites
<1>5. CASE StuckAbort
  <2>1. turn = NoTurn /\ left > 0 /\ pc = "think" /\ UNCHANGED <<mode, streak, missed, writes>>
      BY <1>5 DEF StuckAbort, Thinks, AtHand
  <2>2. turn' = NoTurn /\ pc' # "turn"
    <3>1. CASE typed = "apply"
        BY <1>5, <2>1, <3>1 DEF StuckAbort
    <3>2. CASE typed # "apply"
        BY <1>5, <2>1, <3>2, TurnoverEffect DEF StuckAbort
    <3>3. QED
        BY <3>1, <3>2
  <2>3. QED
      BY <2>1, <2>2 DEF Bounded, Counted, GuardBoundsWrites
<1>6. CASE \/ ExecuteMcpWrite \/ Draft \/ Edit \/ AutoApply \/ Unlink \/ ValidationSkipped
           \/ ProposeRepair \/ RepairFails \/ TimeOut
    BY <1>6
       DEF Bounded, ExecuteMcpWrite, Thinks, Draft, Edit, Drafting, AutoApply, Unlink, ValidationSkipped, ExitRun,
           ProposeRepair, RepairFails, TimeOut
<1>7. CASE CallOther
  <2>1. turn'.calls = turn.calls + 1 /\ turn'.writes = turn.writes
      BY <1>2, <1>7 DEF CallOther
  <2>2. turn.calls < Cap /\ pc' = pc /\ UNCHANGED <<mode, streak, missed, writes>>
      BY <1>7 DEF CallOther, Calls
  <2>3. QED
      BY <1>2, <2>1, <2>2 DEF Bounded, Counted, GuardBoundsWrites
<1>8. CASE CallWrite
  <2>1. turn'.calls = turn.calls + 1 /\ turn'.writes = turn.writes + 1
      BY <1>2, <1>8 DEF CallWrite
  <2>2. /\ turn.calls < Cap /\ pc = "turn" /\ pc' = pc /\ UNCHANGED <<mode, writes, missed>>
        /\ "auto_edit" \in mode => streak' = streak + 1
      BY <1>8 DEF CallWrite, Calls, Unasked
  <2>3. CASE "auto_edit" \in mode
    <3>1. /\ streak + 1 <= writes + (turn.writes + 1) + missed
          /\ writes < Guard /\ turn.writes + 1 <= Cap
        BY <1>2, <2>2, <2>3 DEF Bounded, Counted
    <3>2. streak + 1 < Guard + Cap + missed
        BY <1>2, <3>1
    <3>3. QED
        BY <1>2, <2>1, <2>2, <2>3, <3>1, <3>2 DEF Bounded, Counted, GuardBoundsWrites
  <2>4. CASE "auto_edit" \notin mode
      BY <1>2, <2>1, <2>2, <2>4 DEF Bounded, Counted, GuardBoundsWrites
  <2>5. QED
      BY <2>3, <2>4
<1>9. CASE CallCommand
  <2>1. turn'.calls = turn.calls + 1 /\ turn'.writes = turn.writes
      BY <1>2, <1>9 DEF CallCommand
  <2>2. turn.calls < Cap /\ pc' = pc /\ UNCHANGED <<mode, streak, missed, writes>>
      BY <1>9 DEF CallCommand, Calls
  <2>3. QED
      BY <1>2, <2>1, <2>2 DEF Bounded, Counted, GuardBoundsWrites
<1>10. CASE Validated
  <2>1. turn = NoTurn /\ left > 0 /\ UNCHANGED <<mode, streak, missed, writes>> /\ \E s : Turnover(s, FALSE)
      BY <1>10 DEF Validated, AtHand
  <2>2. turn' = NoTurn /\ pc' # "turn"
      BY <2>1, TurnoverEffect
  <2>3. QED
      BY <2>1, <2>2 DEF Bounded, Counted, GuardBoundsWrites
<1>11. CASE \/ Ask \/ Continue \/ Clarify \/ Approve \/ FinishApproval \/ Reject \/ ApproveCommand
            \/ AdoptLegacyPatch
    BY <1>11
       DEF Bounded, Ask, Enter, Continue, Clarify, Approve, FinishApproval, Reject,
           ApproveCommand, AdoptLegacyPatch
<1>12. CASE SacEdit \/ Abort \/ Clear \/ Resume \/ ResumeFrom \/ Interrupt \/ Restart
    BY <1>12
       DEF Bounded, SacEdit, Drafting, Abort, Clear, Resume, ResumeFrom, Interrupt, ExitRun, Restart
<1>13. CASE TurnRaises
  <2>1. PICK w \in Nat : w = turn.writes
      BY <1>2
  <2>2. /\ UNCHANGED <<mode, writes, streak>> /\ turn' = NoTurn /\ pc' = "idle"
        /\ "auto_edit" \in mode => missed' = missed + w
      BY <1>13, <2>1 DEF TurnRaises, ExitRun
  <2>3. NoTurn.calls = 0 /\ NoTurn.writes = 0
      BY DEF NoTurn
  <2>4. "auto_edit" \in mode => streak <= writes + w + missed /\ streak < Guard + Cap + missed
      BY <2>1 DEF Bounded, Counted, GuardBoundsWrites
  <2>5. "auto_edit" \in mode =>
          streak <= writes + 0 + (missed + w) /\ streak < Guard + Cap + (missed + w)
      BY <1>2, <2>4
  <2>6. QED
      BY <1>2, <2>2, <2>3, <2>5 DEF Bounded, Counted, GuardBoundsWrites
<1>14. QED
    BY <1>1, <1>3, <1>4, <1>5, <1>6, <1>7, <1>8, <1>9, <1>10, <1>11, <1>12, <1>13
       DEF Next, Work, User, Saving

\* A tier that auto_edit applies has no block that creates or deletes a file.
LEMMA OnlyFullAutoAppliesGated ==
    ASSUME NEW blocks, Gated(blocks), AutoApplies(blocks)
    PROVE  "full_auto" \in mode
<1>1. Deciding(blocks) # {}
    BY DEF Gated, Deciding
<1>2. Tier(blocks) # "auto"
    BY <1>1 DEF Tier
<1>3. QED
    BY <1>2 DEF AutoApplies

LEMMA ReviewedStep ==
    ASSUME LoopTypeOK, AtHand, CreateDeleteIsReviewed, [Next]_vars
    PROVE  CreateDeleteIsReviewed'
<1>1. CASE UNCHANGED vars
    BY <1>1 DEF CreateDeleteIsReviewed, vars, object, frame
<1>2. CASE pc' # "applied"
    BY <1>2 DEF CreateDeleteIsReviewed
<1>3. CASE AutoApply
    BY <1>3, OnlyFullAutoAppliesGated DEF AutoApply, CreateDeleteIsReviewed, object
<1>4. CASE pc' = pc /\ UNCHANGED <<prop, mode>>
    BY <1>4 DEF CreateDeleteIsReviewed
<1>5. Saving => pc' # "applied"
  <2>1. SUFFICES ASSUME Saving PROVE pc' # "applied"
      OBVIOUS
  <2>2. PICK s \in Sessions, stopped \in BOOLEAN : SaveStep(s, stopped)
      BY <2>1, SavingSession
  <2>3. QED
      BY <2>1, <2>2, SavingFrame, SaveEffect DEF AtHand
<1>6. StuckAbort => pc' # "applied"
    BY DEF StuckAbort, Turnover
<1>7. Validated => pc' # "applied"
    BY DEF Validated, Turnover
<1>8. Work => \/ Saving \/ StuckAbort \/ Validated \/ AutoApply
              \/ pc' # "applied" \/ (pc' = pc /\ UNCHANGED <<prop, mode>>)
    BY DEF Work, Saving, StartTurn, ExecuteMcpWrite, Draft, Edit, Unlink, CallOther, CallWrite,
           CallCommand, TurnRaises, ValidationSkipped, ProposeRepair, RepairFails, TimeOut, ExitRun,
           object
<1>9. User => pc' # "applied" \/ (pc' = pc /\ UNCHANGED <<prop, mode>>)
    BY DEF User, Ask, Continue, Enter, Clarify, Approve, FinishApproval, Reject, ApproveCommand,
           AdoptLegacyPatch, SacEdit, Drafting, Abort, Clear, Resume, ResumeFrom, Interrupt, Restart,
           ExitRun, object, frame
<1>10. QED
    BY <1>1, <1>2, <1>3, <1>4, <1>5, <1>6, <1>7, <1>8, <1>9 DEF Next

-----------------------------------------------------------------------------
(* The theorems.                                                           *)

LEMMA LoopInitInductive == Init => LoopInductive
<1> SUFFICES ASSUME Init PROVE LoopInductive
    OBVIOUS
<1>1. LoopTypeOK
  <2>1. SessionTypes
      BY Constants DEF Init, SessionTypes
  <2>2. ObjectTypes
      BY TurnTypes DEF Init, ObjectTypes, Steps
  <2>3. PatchTypes
      BY DEF Init, PatchTypes, NoProposal, NoPatch
  <2>4. QED
      BY <2>1, <2>2, <2>3 DEF LoopTypeOK
<1>2. AtHand /\ OnePlan /\ Proposals /\ Unapplied
    BY DEF Init, AtHand, OnePlan, Proposals, Unapplied, Places, NoPatch, NoProposal
<1>3. Reached
    BY Constants, ThroughNone DEF Init, Reached
<1>4. Bounded /\ CreateDeleteIsReviewed
    BY LoopAssumption DEF Init, Bounded, Counted, GuardBoundsWrites, CreateDeleteIsReviewed, NoTurn
<1>5. QED
    BY <1>1, <1>2, <1>3, <1>4 DEF LoopInductive, Bounded

LEMMA LoopNextInductive == LoopInductive /\ [Next]_vars => LoopInductive'
BY LoopTypeStep, AtHandStep, OnePlanStep, ReachedStep, ProposalsStep, UnappliedStep, BoundedStep,
   ReviewedStep
   DEF LoopInductive, Bounded

\* The inductive invariant about the session, its plan, its proposals and its writes.
THEOREM LoopInvariant == Spec => []LoopInductive
BY LoopInitInductive, LoopNextInductive, PTL DEF Spec

\* Every variable has its type.
THEOREM LoopTypes == Spec => []LoopTypeOK
<1>1. LoopInductive => LoopTypeOK
    BY DEF LoopInductive
<1>2. QED
    BY <1>1, LoopInvariant, PTL

\* No item of a plan is skipped, whatever aborts, kills, stale saves and resumes
\* come between the steps.
THEOREM ItemsAreNotSkipped == Spec => []NoItemSkipped
<1>1. LoopInductive => NoItemSkipped
    BY DEF LoopInductive, Reached, Through, NoItemSkipped
<1>2. QED
    BY <1>1, LoopInvariant, PTL

\* A proposal that waits for its user is not in the files yet.
THEOREM WaitingIsUnapplied == Spec => []PendingIsUnapplied
<1>1. LoopInductive => PendingIsUnapplied
    BY DEF LoopInductive, Unapplied, PendingIsUnapplied
<1>2. QED
    BY <1>1, LoopInvariant, PTL

\* The file guard and the cap on the calls of a turn bound the writes of an
\* auto_edit loop that nobody was asked about, those apart that were made in turns
\* which an error ended.
THEOREM GuardBounds == Spec => []GuardBoundsWrites
<1>1. LoopInductive => GuardBoundsWrites
    BY DEF LoopInductive
<1>2. QED
    BY <1>1, LoopInvariant, PTL

\* What creates or deletes a file is applied by a full_auto loop or by the user.
THEOREM GatedIsReviewed == Spec => []CreateDeleteIsReviewed
<1>1. LoopInductive => CreateDeleteIsReviewed
    BY DEF LoopInductive
<1>2. QED
    BY <1>1, LoopInvariant, PTL

\* A step of the loop leaves a proposal that waits, unless it repairs a failed
\* validation or was overtaken by another terminal while it asked for its own.
THEOREM RepairsAloneReplace == Spec => OnlyARepairReplaces
<1> DEFINE Kept == \A slot \in Places :
        pc \notin {"idle", "validate", "overtaken"} /\ frame' # frame /\ pend[slot] # NoPatch
          => pend'[slot] \in {pend[slot], NoPatch}
<1>1. ASSUME LoopInductive, [Next]_vars PROVE [Kept]_vars
  <2>1. SUFFICES ASSUME Next, NEW slot \in Places, pc \notin {"idle", "validate", "overtaken"},
                        frame' # frame, pend[slot] # NoPatch
                 PROVE  pend'[slot] \in {pend[slot], NoPatch}
      BY <1>1
  <2>2. pend \in [Places -> Nat] /\ LoopTypeOK /\ AtHand /\ Proposals
      BY <1>1 DEF LoopInductive, LoopTypeOK, PatchTypes
  <2>3. CASE Saving
      BY <2>2, <2>3, SavingFrame
  <2>4. CASE Edit
    <3>1. pc = "draft" /\ pend' = [pend EXCEPT ![Slot] = NewPatch]
        BY <2>1, <2>4 DEF Edit, Drafting
    <3>2. slot # Slot
        BY <2>1, <2>2, <3>1 DEF AtHand
    <3>3. QED
        BY <2>2, <3>1, <3>2
  <2>5. CASE Unlink
      BY <2>2, <2>5 DEF Unlink, Removed
  <2>6. CASE FinishApproval
      BY <2>2, <2>6 DEF FinishApproval, Removed
  <2>7. CASE SacEdit
    <3>1. pc = "draft" /\ ~ scoped
        BY <2>1, <2>7 DEF SacEdit, Drafting, frame
    <3>2. pend["legacy"] = NoPatch /\ pend["scoped"] = NoPatch
        BY <2>2, <3>1 DEF AtHand, Slot, Proposals
    <3>3. QED
        BY <2>1, <3>2 DEF Places
  <2>8. CASE ~ Saving /\ ~ Edit /\ ~ Unlink /\ ~ FinishApproval /\ ~ SacEdit
    <3>1. pend' = pend
        BY <2>1, <2>8
           DEF Next, Work, User, Saving, StartTurn, StuckAbort, ExecuteMcpWrite, Draft, AutoApply,
               CallOther, CallWrite, CallCommand, TurnRaises, Validated, ValidationSkipped,
               ProposeRepair, RepairFails, TimeOut, Ask, Continue, Enter, Clarify, Approve, Reject,
               Prompted, ApproveCommand, AdoptLegacyPatch, Abort, Clear, Resume, ResumeFrom,
               Interrupt, Restart, stores
    <3>2. QED
        BY <3>1
  <2>9. QED
      BY <2>3, <2>4, <2>5, <2>6, <2>7, <2>8
<1>2. QED
    BY <1>1, LoopInvariant, PTL DEF Spec, OnlyARepairReplaces

-----------------------------------------------------------------------------
(* What the end of a run rests on besides fairness.                        *)

InRun == pc \notin {"idle", "approving"}

\* How far a step of the loop has come.
Progress ==
    CASE pc = "turn" -> 1 + turn.calls
      [] pc \in {"draft", "overtaken", "validate"} -> 1
      [] pc = "edited" -> 2
      [] pc = "applied" -> 3
      [] pc = "unlinked" -> 4
      [] OTHER -> 0

\* There are no more steps than the run was given, and a turn has no more calls than its cap.
WithinBudget == left \in 0..MaxSteps /\ (InRun => left > 0 /\ Progress \in 0..(Cap + 4))

\* The loop ends the run, or the step, or gets on with the step; and what the user and other
\* terminals do meanwhile ends the run or leaves it as far as it has come.
Nearer ==
    /\ Work => \/ pc' = "idle" \/ left' < left
               \/ left' = left /\ Progress' > Progress
    /\ User /\ InRun => pc' = "idle" \/ (left' = left /\ Progress' = Progress)

LEMMA TurnoverNearer ==
    ASSUME left \in Nat, NEW s, NEW stopped, Turnover(s, stopped)
    PROVE  (pc' = "idle" /\ left' = 0) \/ left' = left - 1
<1>1. CASE Ends(s, stopped) \/ LastStep
    BY <1>1 DEF Turnover
<1>2. CASE ~ (Ends(s, stopped) \/ LastStep)
    BY <1>2 DEF Turnover, Spent
<1>3. QED
    BY <1>1, <1>2

\* A step of the loop.
LEMMA WorkNearer ==
    ASSUME LoopInductive, Work
    PROVE  /\ InRun
           /\ \/ pc' = "idle" /\ left' = 0
              \/ left' = left - 1
              \/ left' = left /\ Progress' > Progress
<1>1. LoopTypeOK /\ AtHand /\ left \in Nat /\ pc \in Steps
      /\ turn \in [calls : Nat, writes : Nat, unasked : BOOLEAN]
    BY DEF LoopInductive, LoopTypeOK, ObjectTypes
<1>2. CASE Saving
  <2>1. InRun
      BY <1>1, <1>2, SavingFrame DEF InRun
  <2>2. PICK s \in Sessions, stopped \in BOOLEAN : SaveStep(s, stopped)
      BY <1>1, <1>2, SavingSession
  <2>3. Turnover(s, stopped)
      BY <2>2 DEF SaveStep
  <2>4. QED
      BY <1>1, <2>1, <2>3, TurnoverNearer
<1>3. CASE StuckAbort \/ Validated
  <2>1. InRun
      BY <1>3 DEF InRun, StuckAbort, Thinks, Validated
  <2>2. CASE StuckAbort /\ typed = "apply"
    <3>1. pc = "think" /\ pc' = "validate" /\ left' = left
        BY <2>2 DEF StuckAbort, Thinks
    <3>2. QED
        BY <2>1, <3>1 DEF Progress
  <2>3. CASE ~ (StuckAbort /\ typed = "apply")
    <3>1. PICK s : Turnover(s, FALSE)
        BY <1>3, <2>3 DEF StuckAbort, Validated
    <3>2. QED
        BY <1>1, <2>1, <3>1, TurnoverNearer
  <2>4. QED
      BY <2>2, <2>3
<1>4. CASE ValidationSkipped \/ ProposeRepair \/ RepairFails \/ TimeOut \/ TurnRaises
    BY <1>4 DEF ValidationSkipped, ProposeRepair, RepairFails, TimeOut, TurnRaises, ExitRun, InRun
<1>5. CASE StartTurn
  <2>1. pc = "think" /\ pc' = "turn" /\ left' = left /\ turn' = turn
      BY <1>5 DEF StartTurn, Thinks
  <2>2. turn.calls \in Nat
      BY <1>1
  <2>3. QED
      BY <2>1, <2>2 DEF Progress, InRun
<1>6. CASE CallOther \/ CallWrite \/ CallCommand
  <2>1. pc = "turn" /\ pc' = "turn" /\ left' = left /\ turn'.calls = turn.calls + 1
      BY <1>1, <1>6 DEF CallOther, CallWrite, CallCommand, Calls, object
  <2>2. turn.calls \in Nat
      BY <1>1
  <2>3. QED
      BY <2>1, <2>2 DEF Progress, InRun
<1>7. CASE ExecuteMcpWrite
    BY <1>7 DEF ExecuteMcpWrite, Thinks, Progress, InRun
<1>8. CASE Draft \/ Edit
    BY <1>8 DEF Draft, Edit, Drafting, Thinks, Progress, InRun
<1>9. CASE AutoApply \/ Unlink
    BY <1>9 DEF AutoApply, Unlink, Progress, InRun
<1>10. QED
    BY <1>2, <1>3, <1>4, <1>5, <1>6, <1>7, <1>8, <1>9 DEF Work, Saving

\* And one of the user.
LEMMA UserNearer ==
    ASSUME User
    PROVE  /\ InRun => pc' = "idle" \/ (left' = left /\ Progress' = Progress)
           /\ left' \in {left, 0} \cup 1..MaxSteps
<1>1. CASE Ask \/ Continue \/ Clarify \/ Approve \/ FinishApproval
    BY <1>1 DEF Ask, Continue, Clarify, Approve, FinishApproval, Enter, InRun, frame, Progress
<1>2. CASE Reject \/ ApproveCommand \/ AdoptLegacyPatch
    BY <1>2 DEF Reject, ApproveCommand, AdoptLegacyPatch, frame, Progress
<1>3. CASE SacEdit
    BY <1>3 DEF SacEdit, Drafting, Progress
<1>4. CASE Abort \/ Clear \/ Resume \/ ResumeFrom
    BY <1>4 DEF Abort, Clear, Resume, ResumeFrom, frame, Progress
<1>5. CASE Interrupt \/ Restart
    BY <1>5 DEF Interrupt, Restart, ExitRun
<1>6. QED
    BY <1>1, <1>2, <1>3, <1>4, <1>5 DEF User

LEMMA BudgetStep ==
    ASSUME LoopInductive, left \in 0..MaxSteps, [Next]_vars
    PROVE  left' \in 0..MaxSteps
<1>1. MaxSteps \in Nat /\ left \in Nat
    BY LoopAssumption
<1>2. CASE Work
  <2>1. left > 0
      BY <1>2, WorkNearer DEF LoopInductive, AtHand, InRun
  <2>2. left' \in {0, left, left - 1}
      BY <1>2, WorkNearer
  <2>3. QED
      BY <1>1, <2>1, <2>2
<1>3. CASE User
    BY <1>1, <1>3, UserNearer
<1>4. CASE UNCHANGED vars
    BY <1>4 DEF vars, frame
<1>5. QED
    BY <1>2, <1>3, <1>4 DEF Next

\* A run has its steps and its calls left, whatever it does, and however many it was given.
THEOREM RunsStayWithin == Spec => []WithinBudget
<1>1. Init => left \in 0..MaxSteps
    BY LoopAssumption DEF Init
<1>2. LoopInductive /\ left \in 0..MaxSteps /\ [Next]_vars => (left \in 0..MaxSteps)'
    BY BudgetStep
<1>3. LoopInductive /\ left \in 0..MaxSteps => WithinBudget
  <2>1. SUFFICES ASSUME LoopInductive, left \in 0..MaxSteps, InRun
                 PROVE  left > 0 /\ Progress \in 0..(Cap + 4)
      BY DEF WithinBudget
  <2>2. Cap \in Nat
      BY LoopAssumption
  <2>3. turn.calls \in Nat /\ turn.calls <= Cap
      BY <2>1 DEF LoopInductive, LoopTypeOK, ObjectTypes, Counted
  <2>4. left > 0
      BY <2>1 DEF LoopInductive, AtHand, InRun
  <2>5. Progress \in {0, 1, 2, 3, 4, 1 + turn.calls}
      BY DEF Progress
  <2>6. QED
      BY <2>2, <2>3, <2>4, <2>5
<1>4. QED
    BY <1>1, <1>2, <1>3, LoopInvariant, PTL DEF Spec

\* Each step of the loop (agent/loop.py, run) takes its run nearer to the end: a contract
\* failure, a failed edit and a repair use up the budget like everything else.
THEOREM RunsComeNearer == Spec => [][Nearer]_vars
<1>1. ASSUME LoopInductive, [Next]_vars PROVE [Nearer]_vars
  <2>1. SUFFICES ASSUME Next PROVE Nearer
      BY <1>1
  <2>2. Work => \/ pc' = "idle" \/ left' < left
                \/ left' = left /\ Progress' > Progress
    <3>1. left \in Nat
        BY <1>1 DEF LoopInductive, LoopTypeOK, ObjectTypes
    <3>2. QED
        BY <1>1, <3>1, WorkNearer
  <2>3. QED
      BY <2>2, UserNearer DEF Nearer
<1>2. QED
    BY <1>1, LoopInvariant, PTL DEF Spec

-----------------------------------------------------------------------------
(* ShellConversation: what a conversation still tells. *)

Messages ==
    [role : {"user", "assistant", "tool"}, made : {0, 1, 2}, of : SUBSET Nat, bad : BOOLEAN]

\* The messages s of a conversation that has had n, of which none was dropped if it is
\* whole: each but the first is a message in its own words, the i-th of them the one
\* that came as number f + i.  The first, if it is a summary, is of m and those after
\* it up to where the others start.
TellsFrom(s, n, whole, f, m) ==
    /\ n = f + Len(s)
    /\ \A i \in 2 .. Len(s) : s[i].made = 0 /\ s[i].of = {f + i}
    /\ s = <<>> => f = 0
    /\ s # <<>> =>
         /\ s[1].of = m .. (f + 1) /\ m <= f + 2
         /\ s[1].made = 0 => m = f + 1
         /\ Len(s) = 1 => m <= f + 1
         /\ whole /\ s[1].made # 2 => m = 1

Told(s, n, whole) == \E f \in Nat, m \in Nat \ {0} : TellsFrom(s, n, whole, f, m)

\* What has dropped nothing may be taken for what has.
LEMMA ToldWeaker ==
    \A s, n, whole, less : Told(s, n, whole) /\ (less => whole) => Told(s, n, less)
BY DEF Told, TellsFrom

\* Before the first message nothing is to tell.
LEMMA ToldNothing ==
    /\ \A whole : Told(<<>>, 0, whole)
    /\ \A whole : \A s \in Seq(Messages) : Told(s, 0, whole) => s = <<>>
<1>1. Len(<<>>) = 0
    OBVIOUS
<1>2. ASSUME NEW whole PROVE TellsFrom(<<>>, 0, whole, 0, 1)
    BY <1>1 DEF TellsFrom
<1>3. ASSUME NEW whole, NEW s \in Seq(Messages), Told(s, 0, whole) PROVE s = <<>>
  <2>1. PICK f \in Nat : 0 = f + Len(s)
      BY <1>3 DEF Told, TellsFrom
  <2>2. Len(s) \in Nat
      OBVIOUS
  <2>3. Len(s) = 0
      BY <2>1, <2>2
  <2>4. QED
      BY <2>3, EmptySeq
<1>4. QED
    BY <1>2, <1>3 DEF Told

\* What is told has no gap, no message twice and none out of its order.
LEMMA ToldInOrder ==
    ASSUME NEW s \in Seq(Messages), NEW n \in Nat, NEW whole, Told(s, n, whole)
    PROVE  /\ \E k \in 1 .. (n + 1) : /\ UNION {s[i].of : i \in DOMAIN s} = k .. n
                                      /\ n > 0 => k <= n
           /\ whole => \/ s # <<>> /\ s[1].made = 2
                       \/ UNION {s[i].of : i \in DOMAIN s} = 1 .. n
           /\ \A i, j \in DOMAIN s : i < j => \A x \in s[i].of, y \in s[j].of : x < y
<1>1. PICK f \in Nat, m \in Nat \ {0} : TellsFrom(s, n, whole, f, m)
    BY DEF Told
<1>2. PICK l \in Nat : l = Len(s) /\ DOMAIN s = 1 .. l /\ n = f + l
    BY <1>1 DEF TellsFrom
<1>3. CASE s = <<>>
  <2>1. n = 0 /\ UNION {s[i].of : i \in DOMAIN s} = {} /\ DOMAIN s = {}
      BY <1>1, <1>2, <1>3 DEF TellsFrom
  <2>2. 1 \in 1 .. (n + 1) /\ {} = 1 .. n /\ ~ (n > 0)
      BY <2>1
  <2>3. QED
      BY <2>1, <2>2
<1>4. CASE s # <<>>
  <2>1. /\ l >= 1 /\ s[1].of = m .. (f + 1) /\ m <= f + 2 /\ (l = 1 => m <= f + 1)
        /\ whole /\ s[1].made # 2 => m = 1
        /\ \A i \in 2 .. l : s[i].of = {f + i}
      BY <1>1, <1>2, <1>4, EmptySeq DEF TellsFrom
  <2>2. m <= n /\ m \in 1 .. (n + 1)
      BY <1>2, <2>1
  <2>3. UNION {s[i].of : i \in DOMAIN s} = m .. n
    <3>1. \A x : x \in UNION {s[i].of : i \in DOMAIN s} <=> (\E i \in 1 .. l : x \in s[i].of)
        BY <1>2
    <3>2. ASSUME NEW x \in m .. n PROVE \E i \in 1 .. l : x \in s[i].of
      <4>1. CASE x <= f + 1
        <5>1. 1 \in 1 .. l /\ x \in s[1].of
            BY <1>2, <2>1, <2>2, <3>2, <4>1
        <5>2. QED
            BY <5>1
      <4>2. CASE ~ (x <= f + 1)
        <5>1. x - f \in 2 .. l /\ x - f \in 1 .. l /\ f + (x - f) = x
            BY <1>2, <2>2, <3>2, <4>2
        <5>2. x \in s[x - f].of
            BY <2>1, <5>1
        <5>3. QED
            BY <5>1, <5>2
      <4>3. QED
          BY <4>1, <4>2
    <3>3. ASSUME NEW i \in 1 .. l, NEW x \in s[i].of PROVE x \in m .. n
      <4>1. CASE i = 1
          BY <1>2, <2>1, <3>3, <4>1
      <4>2. CASE i # 1
        <5>1. i \in 2 .. l /\ x = f + i
            BY <2>1, <3>3, <4>2
        <5>2. QED
            BY <1>2, <2>1, <2>2, <5>1
      <4>3. QED
          BY <4>1, <4>2
    <3>4. QED
        BY <3>1, <3>2, <3>3
  <2>4. ASSUME NEW i \in DOMAIN s, NEW j \in DOMAIN s, i < j, NEW x \in s[i].of, NEW y \in s[j].of
        PROVE  x < y
    <3>1. i \in 1 .. l /\ j \in 2 .. l
        BY <1>2, <2>4
    <3>2. y = f + j
        BY <2>1, <2>4, <3>1
    <3>3. x \in Int /\ x <= f + i
      <4>1. CASE i = 1
          BY <2>1, <2>4, <4>1
      <4>2. CASE i # 1
        <5>1. i \in 2 .. l /\ x = f + i
            BY <2>1, <2>4, <3>1, <4>2
        <5>2. QED
            BY <5>1
      <4>3. QED
          BY <4>1, <4>2
    <3>4. QED
        BY <2>4, <3>1, <3>2, <3>3
  <2>5. QED
      BY <2>1, <2>2, <2>3, <2>4
<1>5. QED
    BY <1>3, <1>4

\* A non-empty set of naturals has a least one.
LEMMA LeastExists ==
    ASSUME NEW S \in SUBSET Nat, S # {}
    PROVE  \E m \in S : \A k \in S : m <= k
<1> DEFINE R == {ss \in Nat \X Nat : ss[1] < ss[2]}
<1>1. IsWellFoundedOn(R, Nat)
    BY NatLessThanWellFounded DEF OpToRel
<1>2. PICK m \in S : \A k \in S : ~ (<<k, m>> \in R)
  <2> HIDE DEF R
  <2> QED
      BY <1>1, WFMin
<1>3. ASSUME NEW k \in S PROVE m <= k
  <2>1. m \in Nat /\ k \in Nat /\ ~ (<<k, m>> \in R)
      BY <1>2
  <2>2. ~ (k < m)
      BY <2>1
  <2>3. QED
      BY <2>1, <2>2
<1>4. QED
    BY <1>3

\* A set of at least b places has one that is the b-th.
LEMMA PlaceOf ==
    ASSUME NEW l \in Nat, NEW U \in SUBSET (1 .. l), NEW b \in Nat \ {0}, Cardinality(U) >= b
    PROVE  \E i \in U : Cardinality({j \in U : j <= i}) = b
<1>1. PICK upto : upto = [n \in Nat |-> {j \in U : j <= n}]
    OBVIOUS
<1>2. /\ \A n \in Nat : upto[n] = {j \in U : j <= n}
      /\ \A n \in Nat : upto[n] \subseteq 1 .. l
      /\ upto[0] = {} /\ upto[l] = U
  <2>1. \A n \in Nat : upto[n] = {j \in U : j <= n}
      BY <1>1
  <2>2. \A j \in U : ~ (j <= 0) /\ j <= l
      OBVIOUS
  <2>3. upto[0] = {} /\ upto[l] = U
      BY <2>1, <2>2
  <2>4. ASSUME NEW n \in Nat PROVE upto[n] \subseteq 1 .. l
      BY <2>1
  <2>5. QED
      BY <2>1, <2>3, <2>4
<1>3. \A n \in Nat : IsFiniteSet(upto[n]) /\ Cardinality(upto[n]) \in Nat
  <2>1. IsFiniteSet(1 .. l)
      BY FS_Interval
  <2>2. QED
      BY <1>2, <2>1, FS_Subset, FS_CardinalityType
<1>4. PICK S \in SUBSET Nat : \A n \in Nat : n \in S <=> Cardinality(upto[n]) >= b
  <2>1. {n \in Nat : Cardinality(upto[n]) >= b} \in SUBSET Nat
      OBVIOUS
  <2>2. QED
      BY <2>1
<1>5. PICK m \in S : \A k \in S : m <= k
  <2>1. l \in S
      BY <1>2, <1>4
  <2>2. QED
      BY <2>1, LeastExists
<1>6. m \in Nat /\ Cardinality(upto[m]) >= b
    BY <1>4
<1>7. m # 0
  <2>1. Cardinality(upto[0]) = 0
      BY <1>2, FS_EmptySet
  <2>2. QED
      BY <1>6, <2>1
<1>8. m - 1 \in Nat /\ Cardinality(upto[m - 1]) < b
  <2>1. m - 1 \in Nat /\ ~ (m <= m - 1)
      BY <1>6, <1>7
  <2>2. m - 1 \notin S
      BY <1>5, <2>1
  <2>3. ~ (Cardinality(upto[m - 1]) >= b)
      BY <1>4, <2>1, <2>2
  <2>4. Cardinality(upto[m - 1]) \in Nat
      BY <1>3, <2>1
  <2>5. QED
      BY <2>1, <2>3, <2>4
<1>9. CASE m \in U
  <2>1. upto[m] = upto[m - 1] \cup {m} /\ m \notin upto[m - 1]
      BY <1>2, <1>6, <1>8, <1>9
  <2>2. Cardinality(upto[m]) = Cardinality(upto[m - 1]) + 1
      BY <2>1, <1>3, <1>8, FS_AddElement
  <2>3. Cardinality(upto[m]) = b
      BY <2>2, <1>3, <1>6, <1>8
  <2>4. QED
      BY <1>2, <1>6, <1>9, <2>3
<1>10. CASE m \notin U
  <2>1. \A j \in U : j <= m <=> j <= m - 1
    <3>1. \A j \in U : j \in Nat /\ j # m
        BY <1>10
    <3>2. QED
        BY <3>1, <1>6
  <2>2. upto[m] = upto[m - 1]
      BY <1>2, <1>6, <1>8, <2>1
  <2>3. Cardinality(upto[m]) = Cardinality(upto[m - 1]) /\ Cardinality(upto[m]) \in Nat
      BY <1>3, <1>6, <2>2
  <2>4. QED
      BY <2>3, <1>6, <1>8
<1>11. QED
    BY <1>9, <1>10

\* A conversation has no more turns than messages.
LEMMA UserPlacesFinite ==
    ASSUME NEW s \in Seq(Messages)
    PROVE  /\ UserPlaces(s) \in SUBSET (1 .. Len(s))
           /\ TurnCount(s) \in Nat /\ TurnCount(s) <= Len(s)
<1>1. UserPlaces(s) \in SUBSET (1 .. Len(s))
    BY DEF UserPlaces
<1>2. IsFiniteSet(1 .. Len(s))
    BY FS_Interval
<1>3. TurnCount(s) \in Nat /\ TurnCount(s) <= Len(s)
  <2>1. Cardinality(1 .. Len(s)) = Len(s)
    <3>1. Len(s) \in Nat /\ 1 \in Int /\ (1 > Len(s) \/ Len(s) - 1 + 1 = Len(s))
        OBVIOUS
    <3>2. 1 > Len(s) => Len(s) = 0
        OBVIOUS
    <3>3. QED
        BY <3>1, <3>2, FS_Interval
  <2>2. QED
      BY <1>1, <1>2, <2>1, FS_Subset, FS_CardinalityType DEF TurnCount
<1>4. QED
    BY <1>1, <1>3

\* A compression takes some of the messages.
LEMMA BoundaryInside ==
    ASSUME NEW s \in Seq(Messages), NEW force \in BOOLEAN, Len(s) > 1
    PROVE  Boundary(s, force) \in 0 .. Len(s)
<1>1. CASE TurnCount(s) >= Batch
  <2>1. \E i \in UserPlaces(s) : Cardinality({j \in UserPlaces(s) : j <= i}) = Batch
    <3>1. PICK U \in SUBSET (1 .. Len(s)) : U = UserPlaces(s)
        BY UserPlacesFinite
    <3>2. Cardinality(U) >= Batch /\ Batch \in Nat \ {0} /\ Len(s) \in Nat
        BY <1>1, <3>1, TalkAssumption DEF TurnCount
    <3>3. QED
        BY <3>1, <3>2, PlaceOf
  <2>2. Boundary(s, force) \in UserPlaces(s)
      BY <1>1, <2>1 DEF Boundary
  <2>3. QED
      BY <2>2, UserPlacesFinite
<1>2. CASE ~ (TurnCount(s) >= Batch)
  <2>1. Len(s) \in Nat /\ Len(s) > 0 /\ Len(s) \div 2 \in 0 .. Len(s)
      OBVIOUS
  <2>2. QED
      BY <1>2, <2>1 DEF Boundary
<1>3. QED
    BY <1>1, <1>2

\* A message that comes next is told too.
LEMMA AppendTold ==
    ASSUME NEW s \in Seq(Messages), NEW m \in Messages, m.made = 0
    PROVE  /\ Append(s, m) \in Seq(Messages)
           /\ \A n \in Nat : \A whole : Told(s, n, whole) /\ m.of = {n + 1} => Told(Append(s, m), n + 1, whole)
<1>1. PICK a \in Seq(Messages) : a = Append(s, m)
    BY AppendProperties
<1>2. PICK l \in Nat : l = Len(s)
    OBVIOUS
<1>3. Len(a) = l + 1 /\ a[l + 1] = m /\ a # <<>> /\ \A i \in 1 .. l : a[i] = s[i]
    BY <1>1, <1>2
<1>4. ASSUME NEW n \in Nat, NEW whole, Told(s, n, whole), m.of = {n + 1} PROVE Told(a, n + 1, whole)
  <2>1. PICK f \in Nat, k \in Nat \ {0} : TellsFrom(s, n, whole, f, k)
      BY <1>4 DEF Told
  <2>2. n = f + l /\ \A i \in 2 .. l : s[i].made = 0 /\ s[i].of = {f + i}
      BY <1>2, <2>1 DEF TellsFrom
  <2>3. ASSUME NEW i \in 2 .. (l + 1) PROVE a[i].made = 0 /\ a[i].of = {f + i}
    <3>1. CASE i = l + 1
      <4>1. n + 1 = f + i
          BY <2>2, <3>1
      <4>2. QED
          BY <1>3, <1>4, <3>1, <4>1
    <3>2. CASE i # l + 1
      <4>1. i \in 2 .. l /\ i \in 1 .. l
          BY <2>3, <3>2
      <4>2. QED
          BY <1>3, <2>2, <4>1
    <3>3. QED
        BY <3>1, <3>2
  <2>4. n + 1 = f + (l + 1)
      BY <2>2
  <2>5. CASE s = <<>>
    <3>1. l = 0 /\ f = 0 /\ n = 0
        BY <1>2, <2>1, <2>2, <2>5 DEF TellsFrom
    <3>2. a[1] = m /\ m.of = 1 .. (0 + 1) /\ 1 <= 0 + 2 /\ 1 <= 0 + 1 /\ 1 = 0 + 1
        BY <1>3, <1>4, <3>1
    <3>3. TellsFrom(a, n + 1, whole, 0, 1)
        BY <1>3, <2>3, <2>4, <3>1, <3>2 DEF TellsFrom
    <3>4. QED
        BY <3>3 DEF Told
  <2>6. CASE s # <<>>
    <3>1. 1 \in 1 .. l /\ a[1] = s[1]
        BY <1>2, <1>3, <2>6, EmptySeq
    <3>2. /\ a[1].of = k .. (f + 1) /\ k <= f + 2 /\ (a[1].made = 0 => k = f + 1)
          /\ whole /\ a[1].made # 2 => k = 1
        BY <2>1, <2>6, <3>1 DEF TellsFrom
    <3>3. Len(a) # 1
        BY <1>3, <3>1
    <3>4. TellsFrom(a, n + 1, whole, f, k)
        BY <1>3, <2>3, <2>4, <3>2, <3>3 DEF TellsFrom
    <3>5. QED
        BY <3>4 DEF Told
  <2>7. QED
      BY <2>5, <2>6
<1>5. QED
    BY <1>1, <1>4

\* The end of a conversation.
LEMMA TailOf ==
    ASSUME NEW s \in Seq(Messages), NEW l \in Nat, l = Len(s), NEW a \in 1 .. (l + 1)
    PROVE  \E r \in Seq(Messages) : /\ r = SubSeq(s, a, l) /\ Len(r) = l - a + 1
                                    /\ \A i \in 1 .. (l - a + 1) : r[i] = s[a + i - 1]
<1>1. PICK r : r = SubSeq(s, a, l)
    OBVIOUS
<1>2. \A i \in a .. l : s[i] \in Messages
    OBVIOUS
<1>3. /\ r \in Seq(Messages) /\ Len(r) = IF a <= l THEN l - a + 1 ELSE 0
      /\ \A i \in 1 .. l - a + 1 : r[i] = s[a + i - 1]
    BY <1>1, <1>2, SubSeqProperties
<1>4. ~ (a <= l) => l - a + 1 = 0
    OBVIOUS
<1>5. Len(r) = l - a + 1
    BY <1>3, <1>4
<1>6. QED
    BY <1>1, <1>3, <1>5

\* One that load left the end of.
LEMMA LoadedTold ==
    ASSUME NEW s \in Seq(Messages), NEW l \in Nat, l = Len(s), NEW a \in 2 .. l, NEW n \in Nat,
           NEW whole, Told(s, n, whole)
    PROVE  Told(SubSeq(s, a, l), n, FALSE)
<1>1. a \in 1 .. (l + 1)
    OBVIOUS
<1>2. PICK r \in Seq(Messages) : /\ r = SubSeq(s, a, l) /\ Len(r) = l - a + 1
                                 /\ \A i \in 1 .. (l - a + 1) : r[i] = s[a + i - 1]
    BY <1>1, TailOf
<1>3. PICK f \in Nat : n = f + l /\ \A i \in 2 .. l : s[i].made = 0 /\ s[i].of = {f + i}
    BY DEF Told, TellsFrom
<1>4. PICK e \in Nat : e = f + a - 1
    OBVIOUS
<1>5. ASSUME NEW i \in 1 .. (l - a + 1) PROVE r[i].made = 0 /\ r[i].of = {e + i}
  <2>1. a + i - 1 \in 2 .. l /\ f + (a + i - 1) = e + i
      BY <1>4
  <2>2. QED
      BY <1>2, <1>3, <2>1
<1>6. n = e + (l - a + 1) /\ 1 \in 1 .. (l - a + 1) /\ \A i \in 2 .. (l - a + 1) : i \in 1 .. (l - a + 1)
    BY <1>3, <1>4
<1>7. r[1].of = (e + 1) .. (e + 1)
    BY <1>5, <1>6
<1>8. e + 1 \in Nat \ {0} /\ e + 1 <= e + 2
    OBVIOUS
<1>9. TellsFrom(r, n, FALSE, e, e + 1)
  <2>1. PICK w \in Nat : w = Len(r) /\ w = l - a + 1
    <3>1. Len(r) \in Nat
        OBVIOUS
    <3>2. QED
        BY <1>2, <3>1
  <2>2. r # <<>>
    <3>1. w # 0
        BY <1>6, <2>1
    <3>2. QED
        BY <2>1, <3>1
  <2>3. n = e + w /\ \A i \in 2 .. w : r[i].made = 0 /\ r[i].of = {e + i}
      BY <1>5, <1>6, <2>1
  <2>4. r[1].of = (e + 1) .. (e + 1) /\ e + 1 <= e + 2 /\ e + 1 <= e + 1
      BY <1>7, <1>8
  <2>5. QED
      BY <2>1, <2>2, <2>3, <2>4 DEF TellsFrom
<1>10. QED
    BY <1>2, <1>8, <1>9 DEF Told

\* What a summary is made of.
LEMMA SummaryOf ==
    ASSUME NEW s \in Seq(Messages), NEW n \in 1 .. Len(s)
    PROVE  \E m \in Messages :
             /\ m = Summary(SubSeq(s, 1, n))
             /\ m.made = IF \E i \in 1 .. n : s[i].made > 0 THEN 2 ELSE 1
             /\ \A x : x \in m.of <=> \E i \in 1 .. n : s[i].made = 0 /\ x \in s[i].of
<1>1. PICK h \in Seq(Messages) : /\ h = SubSeq(s, 1, n) /\ DOMAIN h = 1 .. n
                                 /\ \A i \in 1 .. n : h[i] = s[i]
  <2>1. PICK h : h = SubSeq(s, 1, n)
      OBVIOUS
  <2>2. \A i \in 1 .. n : s[i] \in Messages
      OBVIOUS
  <2>3. /\ h \in Seq(Messages) /\ Len(h) = IF 1 <= n THEN n - 1 + 1 ELSE 0
        /\ \A i \in 1 .. n - 1 + 1 : h[i] = s[1 + i - 1]
      BY <2>1, <2>2, SubSeqProperties
  <2>4. /\ h \in Seq(Messages) /\ Len(h) = n
        /\ \A i \in 1 .. n : h[i] = s[i]
      BY <2>3
  <2>5. QED
      BY <2>1, <2>4
<1>2. \A x : x \in Own(h) <=> \E i \in 1 .. n : s[i].made = 0 /\ x \in s[i].of
  <2>1. \A x : x \in Own(h) <=> \E i \in DOMAIN h : h[i].made = 0 /\ x \in h[i].of
      BY DEF Own
  <2>2. QED
      BY <1>1, <2>1
<1>3. Own(h) \in SUBSET Nat
  <2>1. \A i \in 1 .. n : s[i] \in Messages
      OBVIOUS
  <2>2. \A i \in 1 .. n : s[i].of \in SUBSET Nat
      BY <2>1 DEF Messages
  <2>3. QED
      BY <1>2, <2>2
<1>4. PICK k \in {1, 2} : k = IF \E i \in 1 .. n : s[i].made > 0 THEN 2 ELSE 1
    OBVIOUS
<1>5. PICK b \in BOOLEAN : b = \E i \in DOMAIN h : h[i].bad
    OBVIOUS
<1>6. Summary(h) = [role |-> "assistant", made |-> k, of |-> Own(h), bad |-> b]
  <2>1. (\E i \in DOMAIN h : h[i].made > 0) <=> (\E i \in 1 .. n : s[i].made > 0)
      BY <1>1
  <2>2. QED
      BY <1>4, <1>5, <2>1 DEF Summary
<1>7. Summary(h) \in Messages /\ Summary(h).made = k /\ Summary(h).of = Own(h)
    BY <1>3, <1>6 DEF Messages
<1>8. QED
    BY <1>1, <1>2, <1>4, <1>7

\* A summary for the first messages leaves out what an older one has of them only.
LEMMA SummaryTold ==
    ASSUME NEW s \in Seq(Messages), NEW l \in Nat, l = Len(s), l > 1, NEW n \in 1 .. l
    PROVE  LET c == <<Summary(SubSeq(s, 1, n))>> \o SubSeq(s, n + 1, l)
           IN  /\ c \in Seq(Messages)
               /\ \A k \in Nat : \A whole : Told(s, k, whole) => Told(c, k, whole)
<1>1. PICK m \in Messages :
        /\ m = Summary(SubSeq(s, 1, n))
        /\ m.made = IF \E i \in 1 .. n : s[i].made > 0 THEN 2 ELSE 1
        /\ \A x : x \in m.of <=> \E i \in 1 .. n : s[i].made = 0 /\ x \in s[i].of
    BY SummaryOf
<1>2. n + 1 \in 1 .. (l + 1) /\ l - (n + 1) + 1 = l - n /\ l - n \in Nat
    OBVIOUS
<1>3. PICK r \in Seq(Messages) : /\ r = SubSeq(s, n + 1, l) /\ Len(r) = l - n
                                 /\ \A i \in 1 .. (l - n) : r[i] = s[n + 1 + i - 1]
  <2>1. PICK a \in 1 .. (l + 1) : a = n + 1
      BY <1>2
  <2>2. PICK r \in Seq(Messages) : /\ r = SubSeq(s, a, l) /\ Len(r) = l - a + 1
                                   /\ \A i \in 1 .. (l - a + 1) : r[i] = s[a + i - 1]
      BY TailOf
  <2>3. l - a + 1 = l - n
      BY <1>2, <2>1
  <2>4. QED
      BY <2>1, <2>2, <2>3
<1>4. PICK c \in Seq(Messages) : /\ c = <<m>> \o r /\ Len(c) = l - n + 1
                                 /\ c[1] = m
                                 /\ \A i \in 2 .. (l - n + 1) : c[i] = s[n + i - 1]
  <2>1. PICK o \in Seq(Messages) : o = <<m>> /\ Len(o) = 1 /\ o[1] = m
    <3>1. /\ <<m>> \in Seq(Messages) /\ Len(<<m>>) = 1 /\ <<m>>[1] = m
        BY <1>1
    <3>2. QED
        BY <3>1
  <2>2. PICK c : c = o \o r
      OBVIOUS
  <2>3. /\ c \in Seq(Messages) /\ Len(c) = 1 + (l - n)
        /\ \A i \in 1 .. 1 + (l - n) : c[i] = IF i <= 1 THEN o[i] ELSE r[i - 1]
    <3>1. /\ c \in Seq(Messages) /\ Len(c) = Len(o) + Len(r)
          /\ \A i \in 1 .. Len(o) + Len(r) : c[i] = IF i <= Len(o) THEN o[i] ELSE r[i - Len(o)]
        BY <1>3, <2>1, <2>2, ConcatProperties
    <3>2. QED
        BY <1>3, <2>1, <3>1
  <2>4. c[1] = m
    <3>1. 1 \in 1 .. 1 + (l - n)
        BY <1>2
    <3>2. c[1] = IF 1 <= 1 THEN o[1] ELSE r[1 - 1]
        BY <2>3, <3>1
    <3>3. QED
        BY <2>1, <3>2
  <2>5. ASSUME NEW i \in 2 .. (l - n + 1) PROVE c[i] = s[n + i - 1]
    <3>1. /\ i \in 1 .. 1 + (l - n) /\ ~ (i <= 1) /\ i - 1 \in 1 .. (l - n)
          /\ n + 1 + (i - 1) - 1 = n + i - 1
        BY <1>2, <2>5
    <3>2. QED
        BY <1>3, <2>3, <3>1
  <2>6. 1 + (l - n) = l - n + 1
      BY <1>2
  <2>7. QED
      BY <2>1, <2>2, <2>3, <2>4, <2>5, <2>6
<1>0. \A x : x \in m.of <=> \E i \in 1 .. n : s[i].made = 0 /\ x \in s[i].of
    BY <1>1
<1>5. ASSUME NEW k \in Nat, NEW whole, Told(s, k, whole) PROVE Told(c, k, whole)
  <2>1. PICK f \in Nat, p \in Nat \ {0} : TellsFrom(s, k, whole, f, p)
      BY <1>5 DEF Told
  <2>2. s # <<>> /\ c # <<>> /\ k = f + l
      BY <1>4, <2>1 DEF TellsFrom
  <2>3. /\ \A i \in 2 .. l : s[i].made = 0 /\ s[i].of = {f + i}
        /\ s[1].of = p .. (f + 1) /\ (s[1].made = 0 => p = f + 1)
        /\ whole /\ s[1].made # 2 => p = 1
      BY <2>1, <2>2 DEF TellsFrom
  <2>4. PICK e \in Nat : e = f + n - 1
      OBVIOUS
  <2>5. k = e + (l - n + 1)
      BY <2>2, <2>4
  <2>6. ASSUME NEW i \in 2 .. (l - n + 1) PROVE c[i].made = 0 /\ c[i].of = {e + i}
    <3>1. n + i - 1 \in 2 .. l /\ f + (n + i - 1) = e + i
        BY <2>4
    <3>2. QED
        BY <1>4, <2>3, <3>1
  <2>7. m.made # 0
      BY <1>1
  <2>8. CASE s[1].made = 0
    <3>1. \A x : x \in m.of <=> x \in (f + 1) .. (e + 1)
      <4>1. \A i \in 1 .. n : s[i].made = 0 /\ s[i].of = {f + i}
        <5>1. s[1].of = {f + 1}
            BY <2>3, <2>8
        <5>2. \A i \in 1 .. n : i = 1 \/ i \in 2 .. l
            OBVIOUS
        <5>3. QED
            BY <2>3, <2>8, <5>1, <5>2
      <4>2. ASSUME NEW x \in m.of PROVE x \in (f + 1) .. (e + 1)
        <5>1. PICK i \in 1 .. n : x \in s[i].of
            BY <1>0
        <5>2. x = f + i
            BY <4>1, <5>1
        <5>3. QED
            BY <2>4, <5>2
      <4>3. ASSUME NEW x \in (f + 1) .. (e + 1) PROVE x \in m.of
        <5>1. PICK i \in 1 .. n : i = x - f
            BY <2>4
        <5>2. x = f + i
            BY <5>1
        <5>3. QED
            BY <1>0, <4>1, <5>2
      <4>4. QED
          BY <4>2, <4>3
    <3>2. m.of = (f + 1) .. (e + 1)
        BY <3>1
    <3>3. f + 1 \in Nat \ {0} /\ f + 1 <= e + 2 /\ f + 1 <= e + 1 /\ (whole => f + 1 = 1)
        BY <2>3, <2>4, <2>8
    <3>4. TellsFrom(c, k, whole, e, f + 1)
        BY <1>4, <2>2, <2>5, <2>6, <2>7, <3>2, <3>3 DEF TellsFrom
    <3>5. QED
        BY <3>3, <3>4 DEF Told
  <2>9. CASE s[1].made # 0
    <3>1. m.made = 2
      <4>1. s[1] \in Messages /\ 1 \in 1 .. n
          OBVIOUS
      <4>2. s[1].made \in {0, 1, 2}
          BY <4>1 DEF Messages
      <4>3. s[1].made > 0
          BY <2>9, <4>2
      <4>4. \E i \in 1 .. n : s[i].made > 0
          BY <4>1, <4>3
      <4>5. QED
          BY <1>1, <4>4
    <3>2. \A x : x \in m.of <=> x \in (f + 2) .. (e + 1)
      <4>1. \A i \in 2 .. n : i \in 1 .. n /\ i \in 2 .. l
          OBVIOUS
      <4>2. ASSUME NEW x \in m.of PROVE x \in (f + 2) .. (e + 1)
        <5>1. PICK i \in 1 .. n : s[i].made = 0 /\ x \in s[i].of
            BY <1>0
        <5>2. i \in 2 .. n
            BY <2>9, <5>1
        <5>3. x = f + i
            BY <2>3, <4>1, <5>1, <5>2
        <5>4. QED
            BY <2>4, <5>2, <5>3
      <4>3. ASSUME NEW x \in (f + 2) .. (e + 1) PROVE x \in m.of
        <5>1. PICK i \in 2 .. n : i = x - f
            BY <2>4
        <5>2. x = f + i
            BY <5>1
        <5>3. QED
            BY <1>0, <2>3, <4>1, <5>2
      <4>4. QED
          BY <4>2, <4>3
    <3>3. m.of = (f + 2) .. (e + 1)
        BY <3>2
    <3>4. f + 2 \in Nat \ {0} /\ f + 2 <= e + 2 /\ (l - n + 1 = 1 => f + 2 <= e + 1)
        BY <2>4
    <3>5. TellsFrom(c, k, whole, e, f + 2)
        BY <1>4, <2>2, <2>5, <2>6, <2>7, <3>1, <3>3, <3>4 DEF TellsFrom
    <3>6. QED
        BY <3>4, <3>5 DEF Told
  <2>10. QED
      BY <2>8, <2>9
<1>6. c = <<Summary(SubSeq(s, 1, n))>> \o SubSeq(s, n + 1, l)
    BY <1>1, <1>3, <1>4
<1>7. QED
    BY <1>5, <1>6

\* So does a compression,
LEMMA CompressedTold ==
    ASSUME NEW s \in Seq(Messages), NEW force \in BOOLEAN, Len(s) > 1
    PROVE  /\ Compressed(s, force) \in Seq(Messages)
           /\ \A k \in Nat : \A whole : Told(s, k, whole) => Told(Compressed(s, force), k, whole)
<1>1. PICK n \in 0 .. Len(s) : n = Boundary(s, force)
    BY BoundaryInside
<1>2. CASE n = 0
  <2>1. Compressed(s, force) = s
      BY <1>1, <1>2 DEF Compressed
  <2>2. QED
      BY <2>1
<1>3. CASE n # 0
  <2>1. PICK l \in Nat : l = Len(s)
      OBVIOUS
  <2>2. n \in 1 .. l /\ l > 1
      BY <1>1, <1>3, <2>1
  <2>3. Compressed(s, force) = <<Summary(SubSeq(s, 1, n))>> \o SubSeq(s, n + 1, l)
      BY <1>1, <1>3, <2>1 DEF Compressed
  <2>4. QED
      BY <2>1, <2>2, <2>3, SummaryTold
<1>4. QED
    BY <1>2, <1>3

\* and so does a message that comes next, with the compression it may cause.
LEMMA AppendedTold ==
    ASSUME NEW s \in Seq(Messages), NEW m \in Messages, m.made = 0
    PROVE  /\ Appended(s, m) \in Seq(Messages)
           /\ \A n \in Nat : \A whole :
                Told(s, n, whole) /\ m.of = {n + 1} => Told(Appended(s, m), n + 1, whole)
<1>1. PICK a \in Seq(Messages) : a = Append(s, m)
    BY AppendProperties
<1>2. \A n \in Nat : \A whole : Told(s, n, whole) /\ m.of = {n + 1} => Told(a, n + 1, whole)
    BY <1>1, AppendTold
<1>3. CASE TurnCount(a) > KeptTurns
  <2>1. Appended(s, m) = Compressed(a, FALSE)
      BY <1>1, <1>3 DEF Appended
  <2>2. Len(a) > 1
    <3>1. Batch >= 1 /\ Batch \in Nat /\ LongTalk \in Nat /\ KeptTurns \in Nat
          /\ Batch <= LongTalk /\ LongTalk <= KeptTurns
        BY TalkAssumption
    <3>2. TurnCount(a) \in Nat /\ TurnCount(a) <= Len(a) /\ Len(a) \in Nat
        BY UserPlacesFinite
    <3>3. QED
        BY <1>3, <3>1, <3>2
  <2>3. Compressed(a, FALSE) \in Seq(Messages)
        /\ \A k \in Nat : \A whole : Told(a, k, whole) => Told(Compressed(a, FALSE), k, whole)
      BY <2>2, CompressedTold
  <2>4. \A n \in Nat : n + 1 \in Nat
      OBVIOUS
  <2>5. QED
      BY <1>2, <2>1, <2>3, <2>4
<1>4. CASE ~ (TurnCount(a) > KeptTurns)
  <2>1. Appended(s, m) = a
      BY <1>1, <1>4 DEF Appended
  <2>2. QED
      BY <1>2, <2>1
<1>5. QED
    BY <1>3, <1>4


-----------------------------------------------------------------------------
(* What a terminal, its loop and its conversation are to each other. *)

TalkModes == {NoManifest, "plan", "build"}
Tears == {"no", "lines", "line"}
Loops == [talk : Talks \cup {NoTalk}, plan : BOOLEAN, auto : BOOLEAN]
Desks ==
    [at : {"closed", "prompt", "running", "failed"}, id : Talks \cup {NoTalk},
     held : TalkModes, plan : BOOLEAN, auto : BOOLEAN, talk : Talks \cup {NoTalk},
     buffer : Seq(Messages), loop : Loops, results : Nat]
Movers == [at : {"no", "opened", "moving"}, taken : Nat, buffer : Seq(Messages)]

FileTypes ==
    /\ manifest \in [Talks -> TalkModes] /\ latest \in Talks \cup {NoTalk}
    /\ file \in [Talks -> Seq(Messages)] /\ torn \in [Talks -> Tears]
    /\ mover \in Movers
    /\ said \in [Talks -> Nat] /\ cut \subseteq Talks /\ damaged \subseteq Talks /\ shared \subseteq Talks
    /\ inputs \in Nat /\ bads \in Nat /\ ends \in Nat

\* Every variable has its type.
TalkTypeOK == FileTypes /\ desk \in [Terminals -> Desks]

\* What terminal d shows, runs and has saved is one conversation, in one mode,
\* with the manifests modes and unless it is among those in common.
Seat(d, modes, common) ==
    IF d.at = "closed" THEN d = ClosedDesk
    ELSE /\ d.id \in Talks /\ d.talk = d.id
         /\ d.held # NoManifest /\ modes[d.id] # NoManifest
         /\ d.loop # NoLoop => d.loop = [talk |-> d.id, plan |-> d.plan, auto |-> d.auto /\ ~ d.plan]
         /\ d.at = "running" => d.loop # NoLoop
         /\ d.id \notin common => d.held = modes[d.id] /\ d.held = Mode(d.plan)

Seated == \A t \in Terminals : Seat(desk[t], manifest, shared)

SharedIsKnown ==
    /\ \A t, u \in Terminals : t # u /\ desk[t].id = desk[u].id /\ desk[t].id # NoTalk
                                 => desk[t].id \in shared
    /\ \A t \in Terminals : Moving /\ desk[t].id = Legacy => Legacy \in shared

\* The conversations that one command at a time had, with a whole file, and that no
\* command is taking over.
Plain == (Talks \ (damaged \cup shared)) \ (IF Moving THEN {Legacy} ELSE {})

\* A file that is whole, and a terminal's messages, tell what was said.
AllThere ==
    \A c \in Plain :
        /\ torn[c] = "no" => Told(file[c], said[c], c \notin cut)
        /\ \A t \in Terminals : desk[t].id = c => Told(desk[t].buffer, said[c], c \notin cut)

\* A conversation with no manifest has no messages.
Untouched == \A c \in Talks : manifest[c] = NoManifest => file[c] = <<>> /\ torn[c] = "no"

\* What is taken over so far is told.
MoverThere ==
    Moving =>
      /\ manifest[Legacy] # NoManifest
      /\ Legacy \notin damaged \cup shared =>
           /\ said[Legacy] = 2 * LegacyTurns
           /\ Told(mover.buffer, mover.taken, Legacy \notin cut)
           /\ torn[Legacy] = "no" => Told(file[Legacy], mover.taken, Legacy \notin cut)
           /\ mover.at = "opened" => mover.taken = 0 /\ torn[Legacy] = "no"

TalkInductive == TalkTypeOK /\ Seated /\ SharedIsKnown /\ AllThere /\ Untouched /\ MoverThere

\* Terminal t comes to be d, and touches what it is at only.
Moves(t, d) ==
    /\ FileTypes' /\ d \in Desks /\ mover' = mover
    /\ desk' = [desk EXCEPT ![t] = d]
    /\ Seat(d, manifest', shared')
    /\ cut \subseteq cut' /\ damaged \subseteq damaged' /\ shared \subseteq shared'
    /\ \A c \in Talks \ {d.id, desk[t].id} :
         manifest'[c] = manifest[c] /\ file'[c] = file[c] /\ torn'[c] = torn[c] /\ said'[c] = said[c]
    /\ \A c \in Talks : manifest[c] # NoManifest => manifest'[c] # NoManifest
    /\ d.id # NoTalk /\ d.id # desk[t].id /\ HeldBeside({t}, d.id) => d.id \in shared'
    /\ \A c \in {d.id, desk[t].id} \cap Plain' :
         /\ torn'[c] = "no" => Told(file'[c], said'[c], c \notin cut')
         /\ d.id = c => Told(d.buffer, said'[c], c \notin cut')

\* No conversation is a mark for none.
LEMMA NoTalkIsNone == NoTalk \notin Talks /\ Legacy \in Talks
BY TalkAssumption DEF NoTalk, Talks, Legacy

\* A terminal that is closed has no conversation; one that is not has one.
LEMMA SeatedAt ==
    ASSUME TalkInductive, NEW t \in Terminals, desk[t].id \in Talks
    PROVE  desk[t].at # "closed" /\ manifest[desk[t].id] # NoManifest
<1>1. Seat(desk[t], manifest, shared)
    BY DEF TalkInductive, Seated
<1>2. ClosedDesk.id = NoTalk
    BY DEF ClosedDesk
<1>3. QED
    BY <1>1, <1>2, NoTalkIsNone DEF Seat

\* A step of one terminal at what it is at leaves the rest as it is.
LEMMA MovesStep ==
    ASSUME TalkInductive, NEW t \in Terminals, NEW d, Moves(t, d)
    PROVE  TalkInductive'
<1>1. /\ desk \in [Terminals -> Desks] /\ d \in Desks /\ desk' \in [Terminals -> Desks]
      /\ desk'[t] = d /\ \A u \in Terminals : u # t => desk'[u] = desk[u]
    BY DEF TalkInductive, TalkTypeOK, Moves
<1>2. TalkTypeOK'
    BY <1>1 DEF Moves, TalkTypeOK
<1>3. \A u \in Terminals : u # t /\ desk[u].id \in {d.id, desk[t].id} /\ desk[u].id # NoTalk
                              => desk[u].id \in shared'
  <2>1. SUFFICES ASSUME NEW u \in Terminals, u # t, desk[u].id \in {d.id, desk[t].id}, desk[u].id # NoTalk
                 PROVE  desk[u].id \in shared'
      OBVIOUS
  <2>2. CASE desk[u].id = desk[t].id
      BY <2>1, <2>2 DEF TalkInductive, SharedIsKnown, Moves
  <2>3. CASE desk[u].id # desk[t].id
    <3>1. HeldBeside({t}, d.id)
        BY <2>1, <2>3 DEF HeldBeside
    <3>2. QED
        BY <2>1, <2>3, <3>1 DEF Moves
  <2>4. QED
      BY <2>2, <2>3
<1>4. ASSUME NEW u \in Terminals PROVE Seat(desk'[u], manifest', shared')
  <2>1. CASE u = t
      BY <1>1, <2>1 DEF Moves
  <2>2. CASE u # t
    <3>1. desk'[u] = desk[u] /\ Seat(desk[u], manifest, shared)
        BY <1>1, <2>2 DEF TalkInductive, Seated
    <3>2. CASE desk[u].at = "closed"
        BY <3>1, <3>2 DEF Seat
    <3>3. CASE desk[u].at # "closed"
      <4>1. desk[u].id \in Talks /\ desk[u].id # NoTalk
          BY <3>1, <3>3, NoTalkIsNone DEF Seat
      <4>2. manifest'[desk[u].id] # NoManifest
          BY <3>1, <3>3, <4>1 DEF Seat, Moves
      <4>3. desk[u].id \notin shared' => /\ manifest'[desk[u].id] = manifest[desk[u].id]
                                         /\ desk[u].id \notin shared
          BY <1>3, <2>2, <4>1 DEF Moves
      <4>4. QED
          BY <3>1, <3>3, <4>2, <4>3 DEF Seat
    <3>4. QED
        BY <3>2, <3>3
  <2>3. QED
      BY <2>1, <2>2
<1>5. Seated'
    BY <1>4 DEF Seated
<1>6. mover' = mover /\ (Moving' <=> Moving)
    BY DEF Moves, Moving
<1>7. \A u \in Terminals : Moving /\ desk'[u].id = Legacy => Legacy \in shared'
  <2>1. SUFFICES ASSUME NEW u \in Terminals, Moving, desk'[u].id = Legacy PROVE Legacy \in shared'
      OBVIOUS
  <2>2. CASE desk[u].id = Legacy
      BY <2>1, <2>2 DEF TalkInductive, SharedIsKnown, Moves
  <2>3. CASE desk[u].id # Legacy
    <3>1. u = t /\ d.id = Legacy /\ d.id # desk[t].id /\ d.id # NoTalk
        BY <1>1, <2>1, <2>3, NoTalkIsNone
    <3>2. HeldBeside({t}, d.id)
        BY <2>1, <3>1 DEF HeldBeside
    <3>3. QED
        BY <3>1, <3>2 DEF Moves
  <2>4. QED
      BY <2>2, <2>3
<1>8. SharedIsKnown'
  <2>1. SUFFICES ASSUME NEW u \in Terminals, NEW v \in Terminals, u # v,
                        desk'[u].id = desk'[v].id, desk'[u].id # NoTalk
                 PROVE  desk'[u].id \in shared'
      BY <1>6, <1>7 DEF SharedIsKnown
  <2>2. CASE u = t
      BY <1>1, <1>3, <2>1, <2>2
  <2>3. CASE v = t
      BY <1>1, <1>3, <2>1, <2>3
  <2>4. CASE u # t /\ v # t
      BY <1>1, <2>1, <2>4 DEF TalkInductive, SharedIsKnown, Moves
  <2>5. QED
      BY <2>2, <2>3, <2>4
<1>9. cut \subseteq cut' /\ damaged \subseteq damaged' /\ shared \subseteq shared' /\ Plain' \subseteq Plain
  <2>1. cut \subseteq cut' /\ damaged \subseteq damaged' /\ shared \subseteq shared'
      BY DEF Moves
  <2>2. QED
      BY <1>6, <2>1 DEF Plain
<1>10. AllThere'
  <2>1. SUFFICES ASSUME NEW c \in Plain'
                 PROVE  /\ torn'[c] = "no" => Told(file'[c], said'[c], c \notin cut')
                        /\ \A u \in Terminals : desk'[u].id = c => Told(desk'[u].buffer, said'[c], c \notin cut')
      BY DEF AllThere, Told, TellsFrom
  <2>2. c \in Plain /\ c \in Talks /\ c \notin shared' /\ c # NoTalk
      BY <1>9, <2>1, NoTalkIsNone DEF Plain
  <2>3. CASE c \in {d.id, desk[t].id}
    <3>1. /\ torn'[c] = "no" => Told(file'[c], said'[c], c \notin cut')
          /\ d.id = c => Told(d.buffer, said'[c], c \notin cut')
        BY <2>1, <2>3 DEF Moves
    <3>2. \A u \in Terminals : desk'[u].id = c => u = t
        BY <1>1, <1>3, <2>1, <2>2, <2>3
    <3>3. QED
        BY <1>1, <3>1, <3>2
  <2>4. CASE c \notin {d.id, desk[t].id}
    <3>1. file'[c] = file[c] /\ torn'[c] = torn[c] /\ said'[c] = said[c]
        BY <2>2, <2>4 DEF Moves
    <3>2. PICK was \in BOOLEAN, is \in BOOLEAN : was = (c \notin cut) /\ is = (c \notin cut') /\ (is => was)
        BY <1>9
    <3>3. /\ torn[c] = "no" => Told(file[c], said[c], was)
          /\ \A u \in Terminals : desk[u].id = c => Told(desk[u].buffer, said[c], was)
        BY <2>2, <3>2 DEF TalkInductive, AllThere
    <3>4. /\ torn[c] = "no" => Told(file[c], said[c], is)
          /\ \A u \in Terminals : desk[u].id = c => Told(desk[u].buffer, said[c], is)
        BY <3>2, <3>3, ToldWeaker
    <3>5. \A u \in Terminals : desk'[u].id = c => desk'[u] = desk[u]
        BY <1>1, <2>4
    <3>6. QED
        BY <3>1, <3>2, <3>4, <3>5
  <2>5. QED
      BY <2>3, <2>4
<1>11. Untouched'
  <2>1. SUFFICES ASSUME NEW c \in Talks, manifest'[c] = NoManifest
                 PROVE  file'[c] = <<>> /\ torn'[c] = "no"
      BY DEF Untouched
  <2>2. manifest[c] = NoManifest
      BY <2>1 DEF Moves
  <2>3. c # desk[t].id
      BY <2>2, SeatedAt
  <2>4. c # d.id
    <3>1. Seat(d, manifest', shared') /\ ClosedDesk.id = NoTalk
        BY DEF Moves, ClosedDesk
    <3>2. QED
        BY <2>1, <3>1, NoTalkIsNone DEF Seat
  <2>5. QED
      BY <2>2, <2>3, <2>4 DEF Moves, TalkInductive, Untouched
<1>12. MoverThere'
  <2>1. SUFFICES ASSUME Moving
                 PROVE  /\ manifest'[Legacy] # NoManifest
                        /\ Legacy \notin damaged' \cup shared' =>
                             /\ said'[Legacy] = 2 * LegacyTurns
                             /\ Told(mover.buffer, mover.taken, Legacy \notin cut')
                             /\ torn'[Legacy] = "no" => Told(file'[Legacy], mover.taken, Legacy \notin cut')
                             /\ mover.at = "opened" => mover.taken = 0 /\ torn'[Legacy] = "no"
      BY <1>6 DEF MoverThere, Told, TellsFrom
  <2>2. manifest'[Legacy] # NoManifest
      BY <2>1, NoTalkIsNone DEF TalkInductive, MoverThere, Moves
  <2>3. ASSUME Legacy \notin damaged' \cup shared'
        PROVE  /\ said'[Legacy] = 2 * LegacyTurns
               /\ Told(mover.buffer, mover.taken, Legacy \notin cut')
               /\ torn'[Legacy] = "no" => Told(file'[Legacy], mover.taken, Legacy \notin cut')
               /\ mover.at = "opened" => mover.taken = 0 /\ torn'[Legacy] = "no"
    <3>1. Legacy \notin {d.id, desk[t].id}
        BY <1>1, <1>7, <1>9, <2>1, <2>3 DEF TalkInductive, SharedIsKnown
    <3>2. file'[Legacy] = file[Legacy] /\ torn'[Legacy] = torn[Legacy] /\ said'[Legacy] = said[Legacy]
        BY <3>1, NoTalkIsNone DEF Moves
    <3>3. PICK was \in BOOLEAN, is \in BOOLEAN :
            was = (Legacy \notin cut) /\ is = (Legacy \notin cut') /\ (is => was)
        BY <1>9
    <3>4. /\ said[Legacy] = 2 * LegacyTurns
          /\ Told(mover.buffer, mover.taken, was)
          /\ torn[Legacy] = "no" => Told(file[Legacy], mover.taken, was)
          /\ mover.at = "opened" => mover.taken = 0 /\ torn[Legacy] = "no"
        BY <1>9, <2>1, <2>3, <3>3 DEF TalkInductive, MoverThere
    <3>5. QED
        BY <3>2, <3>3, <3>4, ToldWeaker
  <2>4. QED
      BY <2>2, <2>3
<1>13. QED
    BY <1>2, <1>5, <1>8, <1>10, <1>11, <1>12 DEF TalkInductive

\* A step that takes over leaves all but that conversation, and every terminal, as it is.
LEMMA MovingKeeps ==
    ASSUME TalkInductive, FileTypes', desk' = desk, shared' = shared, cut' = cut,
           damaged \subseteq damaged',
           \A c \in Talks \ {Legacy} : manifest'[c] = manifest[c] /\ file'[c] = file[c]
                                       /\ torn'[c] = torn[c] /\ said'[c] = said[c],
           manifest'[Legacy] # NoManifest, MoverThere',
           \A t \in Terminals : desk[t].id = Legacy => Legacy \in shared,
           Legacy \in Plain' => (torn'[Legacy] = "no" => Told(file'[Legacy], said'[Legacy], Legacy \notin cut))
    PROVE  TalkInductive'
<1>1. desk' = desk /\ shared' = shared /\ cut' = cut
    OBVIOUS
<1>2. TalkTypeOK'
    BY <1>1 DEF TalkInductive, TalkTypeOK
<1>3. ASSUME NEW t \in Terminals PROVE Seat(desk'[t], manifest', shared')
  <2>1. desk'[t] = desk[t] /\ Seat(desk[t], manifest, shared)
      BY <1>1 DEF TalkInductive, Seated
  <2>2. desk[t].id # Legacy \/ Legacy \in shared
      OBVIOUS
  <2>3. desk[t].id \in Talks => manifest'[desk[t].id] = manifest[desk[t].id] \/ desk[t].id = Legacy
      OBVIOUS
  <2>4. QED
      BY <1>1, <2>1, <2>2, <2>3 DEF Seat
<1>4. Seated'
    BY <1>3 DEF Seated
<1>5. SharedIsKnown'
    BY <1>1 DEF TalkInductive, SharedIsKnown
<1>6. AllThere'
  <2>1. SUFFICES ASSUME NEW c \in Plain'
                 PROVE  /\ torn'[c] = "no" => Told(file'[c], said'[c], c \notin cut)
                        /\ \A u \in Terminals : desk[u].id = c => Told(desk[u].buffer, said'[c], c \notin cut)
      BY <1>1 DEF AllThere, Told, TellsFrom
  <2>2. c \in Talks \ shared
      BY <1>1 DEF Plain
  <2>3. CASE c = Legacy
      BY <2>1, <2>2, <2>3
  <2>4. CASE c # Legacy
    <3>1. c \in Plain
        BY <1>1, <2>1, <2>4 DEF Plain
    <3>2. /\ torn[c] = "no" => Told(file[c], said[c], c \notin cut)
          /\ \A u \in Terminals : desk[u].id = c => Told(desk[u].buffer, said[c], c \notin cut)
        BY <3>1 DEF TalkInductive, AllThere
    <3>3. file'[c] = file[c] /\ torn'[c] = torn[c] /\ said'[c] = said[c]
        BY <2>2, <2>4
    <3>4. QED
        BY <3>2, <3>3
  <2>5. QED
      BY <2>3, <2>4
<1>7. Untouched'
  <2>1. SUFFICES ASSUME NEW c \in Talks, manifest'[c] = NoManifest
                 PROVE  file'[c] = <<>> /\ torn'[c] = "no"
      BY DEF Untouched
  <2>2. c # Legacy /\ manifest[c] = NoManifest
      BY <2>1
  <2>3. QED
      BY <2>2 DEF TalkInductive, Untouched
<1>8. QED
    BY <1>2, <1>4, <1>5, <1>6, <1>7 DEF TalkInductive

-----------------------------------------------------------------------------
(* The steps. *)

\* A step that writes no messages.
LEMMA QuietMove ==
    ASSUME TalkInductive, NEW t \in Terminals, NEW d \in Desks,
           desk' = [desk EXCEPT ![t] = d], Seat(d, manifest', shared),
           file' = file, torn' = torn, mover' = mover, said' = said, cut' = cut,
           damaged' = damaged, shared' = shared,
           manifest' \in [Talks -> TalkModes], latest' \in Talks \cup {NoTalk},
           \A c \in Talks \ {desk[t].id} : manifest'[c] = manifest[c],
           \A c \in Talks : manifest[c] # NoManifest => manifest'[c] # NoManifest,
           d.id \in {NoTalk, desk[t].id}, d.id = desk[t].id => d.buffer = desk[t].buffer,
           inputs' \in Nat, bads' \in Nat, ends' \in Nat
    PROVE  TalkInductive'
<1>1. /\ file' = file /\ torn' = torn /\ mover' = mover /\ said' = said /\ cut' = cut
      /\ damaged' = damaged /\ shared' = shared
    OBVIOUS
<1>2. FileTypes' /\ Plain' = Plain
    BY <1>1 DEF TalkInductive, TalkTypeOK, FileTypes, Plain, Moving
<1>3. \A c \in {d.id, desk[t].id} \cap Plain' :
         /\ torn'[c] = "no" => Told(file'[c], said'[c], c \notin cut')
         /\ d.id = c => Told(d.buffer, said'[c], c \notin cut')
  <2>1. SUFFICES ASSUME NEW c \in Plain, c \in {d.id, desk[t].id}
                 PROVE  /\ torn[c] = "no" => Told(file[c], said[c], c \notin cut)
                        /\ d.id = c => Told(d.buffer, said[c], c \notin cut)
      BY <1>1, <1>2
  <2>2. /\ torn[c] = "no" => Told(file[c], said[c], c \notin cut)
        /\ desk[t].id = c => Told(desk[t].buffer, said[c], c \notin cut)
      BY DEF TalkInductive, AllThere
  <2>3. c # NoTalk
      BY NoTalkIsNone DEF Plain
  <2>4. QED
      BY <2>1, <2>2, <2>3
<1>4. Moves(t, d)
    BY <1>1, <1>2, <1>3 DEF Moves
<1>5. QED
    BY <1>4, MovesStep

\* A step that writes the messages s of the terminal's conversation.
LEMMA WritingMove ==
    ASSUME TalkInductive, NEW t \in Terminals, NEW d \in Desks, NEW s \in Seq(Messages),
           desk[t].at # "closed", desk' = [desk EXCEPT ![t] = d], Seat(d, manifest', shared),
           d.id = desk[t].id, d.buffer = s,
           file' = [file EXCEPT ![desk[t].id] = s], torn' = [torn EXCEPT ![desk[t].id] = "no"],
           manifest' \in [Talks -> TalkModes], latest' \in Talks \cup {NoTalk},
           \A c \in Talks \ {desk[t].id} : manifest'[c] = manifest[c],
           \A c \in Talks : manifest[c] # NoManifest => manifest'[c] # NoManifest,
           said' \in [Talks -> Nat], \A c \in Talks \ {desk[t].id} : said'[c] = said[c],
           mover' = mover, cut' = cut, damaged' = damaged, shared' = shared,
           desk[t].id \in Plain => Told(s, said'[desk[t].id], desk[t].id \notin cut),
           inputs' \in Nat, bads' \in Nat, ends' \in Nat
    PROVE  TalkInductive'
<1>1. mover' = mover /\ cut' = cut /\ damaged' = damaged /\ shared' = shared
    OBVIOUS
<1>2. PICK c \in Talks : c = desk[t].id
    BY DEF TalkInductive, Seated, Seat
<1>3. /\ file \in [Talks -> Seq(Messages)] /\ file'[c] = s
      /\ torn'[c] = "no" /\ file' \in [Talks -> Seq(Messages)]
      /\ torn' \in [Talks -> Tears]
      /\ \A b \in Talks \ {c} : file'[b] = file[b] /\ torn'[b] = torn[b]
    BY <1>2 DEF TalkInductive, TalkTypeOK, FileTypes, Tears
<1>4. FileTypes' /\ Plain' = Plain
    BY <1>1, <1>3 DEF TalkInductive, TalkTypeOK, FileTypes, Plain, Moving
<1>5. \A b \in {d.id, desk[t].id} \cap Plain' :
         /\ torn'[b] = "no" => Told(file'[b], said'[b], b \notin cut')
         /\ d.id = b => Told(d.buffer, said'[b], b \notin cut')
    BY <1>1, <1>2, <1>3, <1>4
<1>6. Moves(t, d)
    BY <1>1, <1>2, <1>3, <1>4, <1>5 DEF Moves
<1>7. QED
    BY <1>6, MovesStep

\* The fields of a terminal that is not closed.
LEMMA SeatFields ==
    ASSUME TalkInductive, NEW t \in Terminals, desk[t].at # "closed"
    PROVE  /\ desk[t] \in Desks /\ desk[t].id \in Talks /\ desk[t].talk = desk[t].id
           /\ Seat(desk[t], manifest, shared)
           /\ desk[t].buffer \in Seq(Messages) /\ desk[t].held \in TalkModes \ {NoManifest}
           /\ manifest[desk[t].id] \in TalkModes \ {NoManifest}
           /\ desk[t].id \in Plain => Told(desk[t].buffer, said[desk[t].id], desk[t].id \notin cut)
<1>1. desk[t] \in Desks /\ Seat(desk[t], manifest, shared)
    BY DEF TalkInductive, TalkTypeOK, Seated
<1>2. /\ desk[t].id \in Talks /\ desk[t].talk = desk[t].id
      /\ manifest[desk[t].id] # NoManifest /\ desk[t].held # NoManifest
    BY <1>1 DEF Seat
<1>3. desk[t].buffer \in Seq(Messages) /\ desk[t].held \in TalkModes
    BY <1>1 DEF Desks
<1>4. manifest[desk[t].id] \in TalkModes
    BY <1>2 DEF TalkInductive, TalkTypeOK, FileTypes
<1>5. desk[t].id \in Plain => Told(desk[t].buffer, said[desk[t].id], desk[t].id \notin cut)
    BY <1>2 DEF TalkInductive, AllThere
<1>6. QED
    BY <1>1, <1>2, <1>3, <1>4, <1>5

\* A mode is no mark for a missing manifest.
LEMMA ModeType == \A plan \in BOOLEAN : Mode(plan) \in TalkModes \ {NoManifest}
BY DEF Mode, TalkModes, NoManifest

\* A terminal may be closed at any time.
LEMMA ClosedDeskType == ClosedDesk \in Desks /\ Seat(ClosedDesk, manifest', shared')
                        /\ ClosedDesk.id = NoTalk
<1>1. NoLoop \in Loops /\ NoTalk \in Talks \cup {NoTalk} /\ <<>> \in Seq(Messages)
    BY DEF NoLoop, Loops
<1>2. QED
    BY <1>1 DEF ClosedDesk, Desks, Seat, TalkModes

\* What load returns.
LEMMA LoadedFile ==
    ASSUME TalkInductive, NEW c \in Talks
    PROVE  /\ Loaded(c) \in Seq(Messages)
           /\ ~ Unreadable(c) =>
                /\ ~ (Len(file[c]) > Window) => Loaded(c) = file[c]
                /\ \A n \in Nat : \A whole : Len(file[c]) > Window /\ Told(file[c], n, whole)
                                           => Told(Loaded(c), n, FALSE)
           /\ file[c] = <<>> => Loaded(c) = <<>>
<1>1. PICK f \in Seq(Messages) : f = file[c]
    BY DEF TalkInductive, TalkTypeOK, FileTypes
<1>2. PICK w \in Nat : w = Window /\ w >= 2
  <2>1. PICK k \in Nat, b \in Nat \ {0}, g \in Nat : k = KeptTurns /\ b = Batch /\ g = LongTalk /\ b <= g /\ g <= k
      BY TalkAssumption
  <2>2. 2 * k \in Nat /\ 2 * k >= 2
      BY <2>1
  <2>3. QED
      BY <2>1, <2>2 DEF Window
<1>3. PICK l \in Nat : l = Len(f)
    OBVIOUS
<1>4. PICK a \in 1 .. (l + 1) : a = (IF l > w THEN l - w + 1 ELSE 1) /\ (l > w => a \in 2 .. l)
  <2>1. (IF l > w THEN l - w + 1 ELSE 1) \in 1 .. (l + 1) /\ (l > w => l - w + 1 \in 2 .. l)
      BY <1>2
  <2>2. QED
      BY <2>1
<1>5. Loaded(c) = IF Unreadable(c) THEN <<>> ELSE SubSeq(f, a, l)
    BY <1>1, <1>2, <1>3, <1>4 DEF Loaded
<1>6. SubSeq(f, a, l) \in Seq(Messages)
    BY <1>3, TailOf
<1>7. ~ (l > w) => SubSeq(f, a, l) = f
    BY <1>3, <1>4, SubSeqFull
<1>8. ASSUME NEW n \in Nat, NEW whole, l > w, Told(f, n, whole) PROVE Told(SubSeq(f, a, l), n, FALSE)
  <2>1. a \in 2 .. l
      BY <1>4, <1>8
  <2>2. QED
      BY <1>3, <1>8, <2>1, LoadedTold
<1>9. f = <<>> => ~ (l > w)
    BY <1>3
<1>10. Loaded(c) \in Seq(Messages)
    BY <1>5, <1>6
<1>11. file[c] = <<>> => Loaded(c) = <<>>
    BY <1>1, <1>5, <1>7, <1>9
<1>12. ASSUME ~ Unreadable(c)
       PROVE  /\ ~ (Len(file[c]) > Window) => Loaded(c) = file[c]
              /\ \A n \in Nat : \A whole : Len(file[c]) > Window /\ Told(file[c], n, whole)
                                         => Told(Loaded(c), n, FALSE)
  <2>1. Loaded(c) = SubSeq(f, a, l) /\ (Len(file[c]) > Window <=> l > w)
      BY <1>1, <1>2, <1>3, <1>5, <1>12
  <2>2. ~ (l > w) => Loaded(c) = f
      BY <1>7, <2>1
  <2>3. ASSUME NEW n \in Nat, NEW whole, l > w, Told(f, n, whole) PROVE Told(Loaded(c), n, FALSE)
      BY <1>8, <2>1, <2>3
  <2>4. QED
      BY <1>1, <2>1, <2>2, <2>3
<1>13. QED
    BY <1>10, <1>11, <1>12

\* A conversation that is taken up tells what it did, unless its file is damaged.
LEMMA TakesUpStep ==
    ASSUME TalkInductive, NEW t \in Terminals, NEW c \in Talks, NEW m \in TalkModes \ {NoManifest},
           NEW plan \in BOOLEAN, NEW auto \in BOOLEAN, m = Mode(plan), TakesUp(t, c, m, plan, auto),
           inputs' \in Nat
    PROVE  TalkInductive'
<1>1. /\ manifest \in [Talks -> TalkModes] /\ file \in [Talks -> Seq(Messages)]
      /\ cut \subseteq Talks /\ damaged \subseteq Talks /\ shared \subseteq Talks
    BY DEF TalkInductive, TalkTypeOK, FileTypes
<1>2. PICK s \in Seq(Messages) : s = Loaded(c)
    BY LoadedFile
<1>3. PICK d \in Desks : /\ desk' = [desk EXCEPT ![t] = d] /\ d.at = "prompt" /\ d.id = c /\ d.talk = c
                         /\ d.held = m /\ d.plan = plan /\ d.loop = NoLoop /\ d.buffer = s
  <2> DEFINE d == [ClosedDesk EXCEPT !.at = "prompt", !.id = c, !.held = m, !.plan = plan,
                                     !.auto = auto, !.talk = c, !.buffer = s]
  <2>1. desk' = [desk EXCEPT ![t] = d]
      BY <1>2 DEF TakesUp
  <2>2. /\ ClosedDesk \in Desks /\ ClosedDesk.loop = NoLoop
        /\ c \in Talks \cup {NoTalk} /\ m \in TalkModes
      BY ClosedDeskType DEF ClosedDesk
  <2>3. d \in Desks
      BY <2>2 DEF Desks
  <2>4. /\ d.at = "prompt" /\ d.id = c /\ d.talk = c /\ d.held = m /\ d.plan = plan
        /\ d.loop = NoLoop /\ d.buffer = s
      BY <2>2 DEF Desks
  <2>5. QED
      BY <2>1, <2>3, <2>4
<1>4. /\ manifest' = [manifest EXCEPT ![c] = m] /\ latest' = c
      /\ cut' = IF Len(file[c]) > Window THEN cut \cup {c} ELSE cut
      /\ damaged' = IF Damaged(c) THEN damaged \cup {c} ELSE damaged
      /\ shared' = IF HeldBeside({t}, c) THEN shared \cup {c} ELSE shared
      /\ file' = file /\ torn' = torn /\ mover' = mover /\ said' = said /\ bads' = bads /\ ends' = ends
    BY DEF TakesUp, Saves
<1>5. FileTypes'
    BY <1>1, <1>4 DEF TalkInductive, TalkTypeOK, FileTypes
<1>6. manifest'[c] = m /\ \A b \in Talks \ {c} : manifest'[b] = manifest[b]
    BY <1>1, <1>4
<1>7. Seat(d, manifest', shared')
    BY <1>3, <1>6 DEF Seat
<1>8. Plain' \subseteq Plain /\ cut \subseteq cut' /\ damaged \subseteq damaged' /\ shared \subseteq shared'
    BY <1>4 DEF Plain, Moving
<1>9. \A b \in {d.id, desk[t].id} \cap Plain' :
         /\ torn'[b] = "no" => Told(file'[b], said'[b], b \notin cut')
         /\ d.id = b => Told(d.buffer, said'[b], b \notin cut')
  <2>1. SUFFICES ASSUME NEW b \in Plain'
                 PROVE  /\ torn[b] = "no" => Told(file[b], said[b], b \notin cut')
                        /\ c = b => Told(s, said[b], b \notin cut')
      BY <1>3, <1>4
  <2>2. PICK was \in BOOLEAN, is \in BOOLEAN : was = (b \notin cut) /\ is = (b \notin cut') /\ (is => was)
      BY <1>8
  <2>3. torn[b] = "no" => Told(file[b], said[b], was)
      BY <1>8, <2>1, <2>2 DEF TalkInductive, AllThere
  <2>4. torn[b] = "no" => Told(file[b], said[b], is)
      BY <2>2, <2>3, ToldWeaker
  <2>5. ASSUME c = b PROVE Told(s, said[b], is)
    <3>1. ~ Unreadable(c) /\ torn[c] = "no" /\ said[c] \in Nat
      <4>1. ~ Damaged(c) /\ c \in Talks
          BY <1>4, <2>1, <2>5 DEF Plain
      <4>2. said[c] \in Nat
          BY DEF TalkInductive, TalkTypeOK, FileTypes
      <4>3. QED
          BY <4>1, <4>2 DEF Damaged
    <3>2. CASE Len(file[c]) > Window
      <4>1. Told(Loaded(c), said[c], FALSE)
          BY <2>3, <2>5, <3>1, <3>2, LoadedFile
      <4>2. is = FALSE
          BY <1>4, <2>2, <2>5, <3>2
      <4>3. QED
          BY <1>2, <2>5, <4>1, <4>2
    <3>3. CASE ~ (Len(file[c]) > Window)
      <4>1. s = file[c]
          BY <1>2, <3>1, <3>3, LoadedFile
      <4>2. QED
          BY <2>4, <2>5, <3>1, <4>1
    <3>4. QED
        BY <3>2, <3>3
  <2>6. QED
      BY <2>2, <2>4, <2>5
<1>10. Moves(t, d)
    BY <1>3, <1>4, <1>5, <1>6, <1>7, <1>8, <1>9 DEF Moves
<1>11. QED
    BY <1>10, MovesStep

\* A message that follows what tells a conversation.
LEMMA FollowsTold ==
    ASSUME TalkInductive, NEW c \in Talks, NEW b \in Seq(Messages), NEW n \in Nat,
           NEW role \in {"user", "assistant", "tool"}, Follows(c, b, role, n + 1)
    PROVE  \E s \in Seq(Messages) :
             /\ file' = [file EXCEPT ![c] = s] /\ torn' = [torn EXCEPT ![c] = "no"]
             /\ file'[c] = s /\ bads' \in Nat
             /\ \A whole : Told(b, n, whole) => Told(s, n + 1, whole)
<1>1. file \in [Talks -> Seq(Messages)] /\ bads \in Nat
    BY DEF TalkInductive, TalkTypeOK, FileTypes
<1>2. PICK bad \in BOOLEAN : /\ bads' = IF bad THEN bads + 1 ELSE bads
                             /\ Persists(c, Appended(b, Message(role, n + 1, bad)))
    BY DEF Follows
<1>3. PICK m \in Messages : m = Message(role, n + 1, bad) /\ m.made = 0 /\ m.of = {n + 1}
  <2>1. {n + 1} \in SUBSET Nat
      OBVIOUS
  <2>2. Message(role, n + 1, bad) \in Messages
      BY <2>1 DEF Message, Messages
  <2>3. Message(role, n + 1, bad).made = 0 /\ Message(role, n + 1, bad).of = {n + 1}
      BY DEF Message
  <2>4. QED
      BY <2>2, <2>3
<1>4. PICK s \in Seq(Messages) : /\ s = Appended(b, m)
                                 /\ \A whole : Told(b, n, whole) => Told(s, n + 1, whole)
  <2>1. /\ Appended(b, m) \in Seq(Messages)
        /\ \A k \in Nat : \A whole :
             Told(b, k, whole) /\ m.of = {k + 1} => Told(Appended(b, m), k + 1, whole)
      BY <1>3, AppendedTold
  <2>2. \A whole : Told(b, n, whole) => Told(Appended(b, m), n + 1, whole)
      BY <1>3, <2>1
  <2>3. QED
      BY <2>1, <2>2
<1>5. file' = [file EXCEPT ![c] = s] /\ torn' = [torn EXCEPT ![c] = "no"]
    BY <1>2, <1>3, <1>4 DEF Persists
<1>6. file'[c] = s /\ bads' \in Nat
    BY <1>1, <1>2, <1>5
<1>7. QED
    BY <1>4, <1>5, <1>6

\* The next message of a terminal's conversation.
LEMMA SaysNext ==
    ASSUME TalkInductive, NEW t \in Terminals, desk[t].at # "closed",
           NEW role \in {"user", "assistant", "tool"}, Says(t, role)
    PROVE  \E s \in Seq(Messages) :
             /\ file' = [file EXCEPT ![desk[t].id] = s] /\ torn' = [torn EXCEPT ![desk[t].id] = "no"]
             /\ said' \in [Talks -> Nat] /\ \A c \in Talks \ {desk[t].id} : said'[c] = said[c]
             /\ desk[t].id \in Plain => Told(s, said'[desk[t].id], desk[t].id \notin cut)
             /\ file'[desk[t].talk] = s /\ bads' \in Nat
<1>1. PICK c \in Talks : c = desk[t].id /\ desk[t].talk = c
    BY SeatFields
<1>2. PICK b \in Seq(Messages) : b = desk[t].buffer
    BY SeatFields
<1>3. PICK n \in Nat : n = said[c]
    BY DEF TalkInductive, TalkTypeOK, FileTypes
<1>4. said \in [Talks -> Nat]
    BY DEF TalkInductive, TalkTypeOK, FileTypes
<1>5. Follows(c, b, role, n + 1) /\ said' = [said EXCEPT ![c] = n + 1]
    BY <1>1, <1>2, <1>3, <1>4 DEF Says
<1>6. said' \in [Talks -> Nat] /\ said'[c] = n + 1 /\ \A a \in Talks \ {c} : said'[a] = said[a]
    BY <1>4, <1>5
<1>7. PICK s \in Seq(Messages) :
        /\ file' = [file EXCEPT ![c] = s] /\ torn' = [torn EXCEPT ![c] = "no"]
        /\ file'[c] = s /\ bads' \in Nat
        /\ \A whole : Told(b, n, whole) => Told(s, n + 1, whole)
    BY <1>5, FollowsTold
<1>8. c \in Plain => Told(s, said'[c], c \notin cut)
  <2>1. PICK whole \in BOOLEAN : whole = (c \notin cut)
      OBVIOUS
  <2>2. c \in Plain => Told(b, n, whole)
      BY <1>1, <1>2, <1>3, <2>1, SeatFields
  <2>3. QED
      BY <1>6, <1>7, <2>1, <2>2
<1>9. QED
    BY <1>1, <1>6, <1>7, <1>8

\* Steps that write no messages: /exit, a kill, /rename, /mode and what is decided.
LEMMA QuietSteps ==
    ASSUME TalkInductive, NEW t \in Terminals,
           \/ Exit(t) \/ Leave(t) \/ Rename(t) \/ Decide(t)
           \/ \E plan \in BOOLEAN : SetMode(t, plan)
    PROVE  TalkInductive'
<1>1. /\ manifest \in [Talks -> TalkModes] /\ latest \in Talks \cup {NoTalk}
      /\ inputs \in Nat /\ bads \in Nat /\ ends \in Nat
      /\ desk \in [Terminals -> Desks]
    BY DEF TalkInductive, TalkTypeOK, FileTypes
<1>2. desk[t].at # "closed"
    BY DEF Exit, Leave, Rename, Decide, SetMode, AtPrompt
<1>3. PICK c \in Talks : c = desk[t].id
    BY <1>2, SeatFields
<1>4. PICK e \in Desks : e = desk[t] /\ Seat(e, manifest, shared)
    BY <1>2, SeatFields
<1>5. ASSUME NEW m \in TalkModes \ {NoManifest}, manifest' = [manifest EXCEPT ![c] = m]
      PROVE  /\ manifest' \in [Talks -> TalkModes] /\ manifest'[c] = m
             /\ \A b \in Talks \ {c} : manifest'[b] = manifest[b]
             /\ \A b \in Talks : manifest[b] # NoManifest => manifest'[b] # NoManifest
    BY <1>1, <1>5
<1>6. e.at # "closed" /\ e.id = c /\ e.held \in TalkModes \ {NoManifest}
      /\ manifest[c] \in TalkModes \ {NoManifest}
    BY <1>2, <1>3, <1>4, SeatFields
<1>7. CASE Exit(t)
  <2>1. /\ desk' = [desk EXCEPT ![t] = ClosedDesk] /\ latest' = c
        /\ manifest' = [manifest EXCEPT ![c] = e.held]
        /\ file' = file /\ torn' = torn /\ mover' = mover /\ said' = said /\ cut' = cut
        /\ damaged' = damaged /\ shared' = shared
        /\ inputs' = inputs /\ bads' = bads /\ ends' = ends
      BY <1>3, <1>4, <1>7 DEF Exit, Saves
  <2>2. QED
      BY <1>1, <1>3, <1>5, <1>6, <2>1, ClosedDeskType, QuietMove, NoTalkIsNone
<1>8. CASE Leave(t)
  <2>1. /\ desk' = [desk EXCEPT ![t] = ClosedDesk] /\ latest' = latest /\ manifest' = manifest
        /\ file' = file /\ torn' = torn /\ mover' = mover /\ said' = said /\ cut' = cut
        /\ damaged' = damaged /\ shared' = shared
        /\ inputs' = inputs /\ bads' = bads /\ ends' = ends + 1
      BY <1>8 DEF Leave
  <2>2. QED
    <3>1. Seat(ClosedDesk, manifest', shared) /\ ClosedDesk.id # desk[t].id /\ ends' \in Nat
        BY <1>1, <1>3, <2>1, ClosedDeskType, NoTalkIsNone
    <3>2. QED
        BY <1>1, <1>3, <2>1, <3>1, ClosedDeskType, QuietMove
<1>9. ASSUME Rename(t) \/ Decide(t) PROVE TalkInductive'
  <2>1. PICK m \in TalkModes \ {NoManifest} :
          /\ Updates(t, m)
          /\ c \notin shared => m = e.held
    <3>1. CASE Rename(t)
      <4>1. Updates(t, manifest[c])
          BY <1>3, <3>1 DEF Rename
      <4>2. c \notin shared => manifest[c] = e.held
          BY <1>4, <1>6 DEF Seat
      <4>3. QED
          BY <1>6, <4>1, <4>2
    <3>2. CASE Decide(t)
        BY <1>4, <1>6, <3>2 DEF Decide
    <3>3. QED
        BY <1>9, <3>1, <3>2
  <2>2. PICK d : d = [e EXCEPT !.held = m]
      OBVIOUS
  <2>3. /\ d \in Desks /\ d.at = e.at /\ d.id = e.id /\ d.talk = e.talk /\ d.plan = e.plan
        /\ d.auto = e.auto /\ d.buffer = e.buffer /\ d.loop = e.loop /\ d.held = m
      BY <2>2 DEF Desks
  <2>4. /\ desk' = [desk EXCEPT ![t] = d] /\ latest' = c
        /\ manifest' = [manifest EXCEPT ![c] = m]
      BY <1>1, <1>3, <1>4, <2>1, <2>2 DEF Updates, Saves
  <2>5. /\ file' = file /\ torn' = torn /\ mover' = mover /\ said' = said /\ cut' = cut
        /\ damaged' = damaged /\ shared' = shared
        /\ inputs' = inputs + 1 /\ bads' = bads /\ ends' = ends
      BY <1>9 DEF Rename, Decide, AtPrompt, Typed
  <2>6. Seat(d, manifest', shared)
      BY <1>4, <1>5, <1>6, <2>1, <2>3, <2>4 DEF Seat
  <2>7. /\ d.id = desk[t].id /\ d.buffer = desk[t].buffer /\ inputs' \in Nat
        /\ latest' \in Talks \cup {NoTalk}
      BY <1>1, <1>3, <1>4, <2>3, <2>4, <2>5
  <2>8. QED
      BY <1>1, <1>3, <1>5, <2>3, <2>4, <2>5, <2>6, <2>7, QuietMove
<1>10. ASSUME NEW plan \in BOOLEAN, SetMode(t, plan) PROVE TalkInductive'
  <2>1. PICK m \in TalkModes \ {NoManifest} : m = Mode(plan)
      BY ModeType
  <2>2. PICK d : d = [e EXCEPT !.held = m, !.plan = plan, !.loop = NoLoop]
      OBVIOUS
  <2>3. NoLoop \in Loops
      BY DEF NoLoop, Loops
  <2>4. /\ d \in Desks /\ d.at = e.at /\ d.id = e.id /\ d.talk = e.talk /\ d.plan = plan
        /\ d.buffer = e.buffer /\ d.loop = NoLoop /\ d.held = m
      BY <2>2, <2>3 DEF Desks
  <2>5. /\ desk' = [desk EXCEPT ![t] = d] /\ latest' = c
        /\ manifest' = [manifest EXCEPT ![c] = m]
      BY <1>1, <1>3, <1>4, <1>10, <2>1, <2>2 DEF SetMode, Saves
  <2>6. /\ file' = file /\ torn' = torn /\ mover' = mover /\ said' = said /\ cut' = cut
        /\ damaged' = damaged /\ shared' = shared
        /\ inputs' = inputs + 1 /\ bads' = bads /\ ends' = ends /\ e.at = "prompt"
      BY <1>4, <1>10 DEF SetMode, AtPrompt, Typed
  <2>7. Seat(d, manifest', shared)
      BY <1>4, <1>5, <1>6, <2>1, <2>4, <2>5, <2>6 DEF Seat
  <2>8. /\ d.id = desk[t].id /\ d.buffer = desk[t].buffer /\ inputs' \in Nat
        /\ latest' \in Talks \cup {NoTalk}
      BY <1>1, <1>3, <1>4, <2>4, <2>5, <2>6
  <2>9. QED
      BY <1>1, <1>3, <1>5, <2>4, <2>5, <2>6, <2>7, <2>8, QuietMove
<1>11. QED
    BY <1>7, <1>8, <1>9, <1>10

\* Compressions, and everything that is said.
LEMMA WritingSteps ==
    ASSUME TalkInductive, NEW t \in Terminals,
           \/ Compact(t) \/ Summarise(t) \/ Request(t) \/ ToolResult(t) \/ Answer(t) \/ Fail(t)
    PROVE  TalkInductive'
<1>1. /\ manifest \in [Talks -> TalkModes] /\ latest \in Talks \cup {NoTalk}
      /\ said \in [Talks -> Nat] /\ inputs \in Nat /\ bads \in Nat /\ ends \in Nat
      /\ desk \in [Terminals -> Desks]
    BY DEF TalkInductive, TalkTypeOK, FileTypes
<1>2. desk[t].at # "closed"
    BY DEF Compact, Summarise, Request, ToolResult, Answer, Fail, AtPrompt
<1>3. PICK c \in Talks : c = desk[t].id /\ c = desk[t].talk
    BY <1>2, SeatFields
<1>4. PICK e \in Desks : e = desk[t] /\ Seat(e, manifest, shared)
    BY <1>2, SeatFields
<1>5. /\ e.at # "closed" /\ e.id = c /\ e.talk = c /\ e.held \in TalkModes \ {NoManifest}
      /\ e.buffer \in Seq(Messages)
      /\ c \in Plain => Told(e.buffer, said[c], c \notin cut)
    BY <1>2, <1>3, <1>4, SeatFields
<1>6. ASSUME Compact(t) \/ Summarise(t) PROVE TalkInductive'
  <2>1. Len(e.buffer) > 1
    <3>1. CASE Compact(t)
        BY <1>4, <3>1 DEF Compact
    <3>2. CASE Summarise(t)
      <4>1. TurnCount(e.buffer) > LongTalk
          BY <1>4, <3>2 DEF Summarise
      <4>2. PICK k \in Nat, l \in Nat, g \in Nat, b \in Nat \ {0} :
              k = TurnCount(e.buffer) /\ l = Len(e.buffer) /\ k <= l /\ g = LongTalk /\ b = Batch /\ b <= g
        <5>1. TurnCount(e.buffer) \in Nat /\ Len(e.buffer) \in Nat /\ TurnCount(e.buffer) <= Len(e.buffer)
            BY <1>5, UserPlacesFinite
        <5>2. LongTalk \in Nat /\ Batch \in Nat \ {0} /\ Batch <= LongTalk
            BY TalkAssumption
        <5>3. QED
            BY <5>1, <5>2
      <4>3. QED
          BY <4>1, <4>2
    <3>3. QED
        BY <1>6, <3>1, <3>2
  <2>2. PICK s \in Seq(Messages) : /\ s = Compressed(e.buffer, TRUE)
                                   /\ c \in Plain => Told(s, said[c], c \notin cut)
    <3>1. PICK b \in Seq(Messages) : b = e.buffer
        BY <1>5
    <3>2. /\ Compressed(b, TRUE) \in Seq(Messages)
          /\ \A k \in Nat : \A whole : Told(b, k, whole) => Told(Compressed(b, TRUE), k, whole)
        BY <2>1, <3>1, CompressedTold
    <3>3. PICK whole \in BOOLEAN, n \in Nat : whole = (c \notin cut) /\ n = said[c]
        BY <1>1
    <3>4. c \in Plain => Told(Compressed(b, TRUE), n, whole)
        BY <1>5, <3>1, <3>2, <3>3
    <3>5. QED
        BY <3>1, <3>2, <3>3, <3>4
  <2>3. PICK d : d = [e EXCEPT !.buffer = s]
      OBVIOUS
  <2>4. /\ d \in Desks /\ d.at = e.at /\ d.id = e.id /\ d.talk = e.talk /\ d.plan = e.plan
        /\ d.auto = e.auto /\ d.held = e.held /\ d.loop = e.loop /\ d.buffer = s
      BY <2>3 DEF Desks
  <2>5. /\ file' = [file EXCEPT ![c] = s] /\ torn' = [torn EXCEPT ![c] = "no"]
        /\ desk' = [desk EXCEPT ![t].buffer = s]
      BY <1>3, <1>4, <1>6, <2>2 DEF Compact, Summarise, Persists
  <2>6. desk' = [desk EXCEPT ![t] = d]
      BY <1>1, <1>4, <2>3, <2>5
  <2>7. /\ manifest' = manifest /\ latest' = latest /\ mover' = mover /\ said' = said
        /\ cut' = cut /\ damaged' = damaged /\ shared' = shared /\ inputs' \in Nat /\ bads' = bads /\ ends' = ends
    <3>1. CASE Compact(t)
        BY <1>1, <3>1 DEF Compact, AtPrompt, Typed
    <3>2. CASE Summarise(t)
        BY <1>1, <3>2 DEF Summarise
    <3>3. QED
        BY <1>6, <3>1, <3>2
  <2>8. Seat(d, manifest', shared)
      BY <1>4, <1>5, <2>4, <2>7 DEF Seat
  <2>9. d.id = desk[t].id /\ (desk[t].id \in Plain => Told(s, said'[desk[t].id], desk[t].id \notin cut))
      BY <1>3, <1>5, <2>2, <2>4, <2>7
  <2>10. QED
      BY <1>1, <1>2, <1>3, <2>4, <2>5, <2>6, <2>7, <2>8, <2>9, WritingMove
<1>7. ASSUME Request(t) \/ ToolResult(t) \/ Answer(t) \/ Fail(t) PROVE TalkInductive'
  <2>1. PICK s \in Seq(Messages) :
             /\ file' = [file EXCEPT ![c] = s] /\ torn' = [torn EXCEPT ![c] = "no"]
             /\ said' \in [Talks -> Nat] /\ \A b \in Talks \ {c} : said'[b] = said[b]
             /\ c \in Plain => Told(s, said'[c], c \notin cut)
             /\ file'[c] = s /\ bads' \in Nat
    <3>1. \E role \in {"user", "assistant", "tool"} : Says(t, role)
        BY <1>7 DEF Request, ToolResult, Answer, Fail
    <3>2. QED
        BY <1>2, <1>3, <3>1, SaysNext
  <2>2. /\ mover' = mover /\ cut' = cut /\ damaged' = damaged /\ shared' = shared
        /\ inputs' \in Nat /\ ends' \in Nat
    <3>1. CASE Request(t)
      <4>1. AtPrompt(t) /\ mover' = mover /\ cut' = cut /\ damaged' = damaged /\ shared' = shared
            /\ ends' = ends
          BY <3>1, Zenon DEF Request
      <4>2. QED
          BY <1>1, <4>1 DEF AtPrompt, Typed
    <3>2. CASE ToolResult(t)
        BY <1>1, <3>2 DEF ToolResult
    <3>3. CASE Answer(t)
        BY <1>1, <3>3 DEF Answer
    <3>4. CASE Fail(t)
        BY <1>1, <3>4 DEF Fail
    <3>5. QED
        BY <1>7, <3>1, <3>2, <3>3, <3>4
  <2>3. /\ latest' \in Talks \cup {NoTalk}
        /\ \A b \in Talks \ {c} : manifest'[b] = manifest[b]
        /\ manifest' \in [Talks -> TalkModes]
        /\ \A b \in Talks : manifest[b] # NoManifest => manifest'[b] # NoManifest
        /\ manifest'[c] # NoManifest
        /\ manifest'[c] \in {manifest[c], e.held}
    <3>1. CASE Answer(t)
      <4>1. manifest' = [manifest EXCEPT ![c] = e.held] /\ latest' = c
          BY <1>3, <1>4, <3>1 DEF Answer, Saves
      <4>2. QED
          BY <1>1, <1>5, <4>1
    <3>2. CASE ~ Answer(t)
      <4>1. manifest' = manifest /\ latest' \in {latest, c}
          BY <1>3, <1>7, <3>2 DEF Request, ToolResult, Fail
      <4>2. manifest[c] # NoManifest
          BY <1>2, <1>3, SeatFields
      <4>3. QED
          BY <1>1, <4>1, <4>2
    <3>3. QED
        BY <3>1, <3>2
  <2>4. PICK d \in Desks :
          /\ desk' = [desk EXCEPT ![t] = d] /\ d.at \in {"prompt", "running", "failed"}
          /\ d.id = c /\ d.talk = c /\ d.plan = e.plan /\ d.auto = e.auto /\ d.held = e.held
          /\ d.buffer = s
          /\ d.loop # NoLoop => d.loop = e.loop \/ d.loop = [talk |-> c, plan |-> e.plan, auto |-> e.auto /\ ~ e.plan]
          /\ d.at = "running" => d.loop # NoLoop
    <3>1. CASE Request(t)
      <4>1. PICK made \in BOOLEAN :
             desk' = [desk EXCEPT ![t] =
               [@ EXCEPT !.at = IF made \/ e.loop # NoLoop THEN "running" ELSE "failed",
                         !.buffer = s,
                         !.results = 0,
                         !.loop = IF e.loop # NoLoop THEN e.loop
                                  ELSE IF made
                                  THEN [talk |-> c, plan |-> e.plan, auto |-> e.auto /\ ~ e.plan]
                                  ELSE NoLoop]]
          BY <1>3, <1>4, <2>1, <3>1 DEF Request
      <4>2. PICK l \in Loops : l = [talk |-> c, plan |-> e.plan, auto |-> e.auto /\ ~ e.plan] /\ l # NoLoop
        <5>1. e.plan \in BOOLEAN /\ (e.auto /\ ~ e.plan) \in BOOLEAN
            BY DEF Desks
        <5>2. [talk |-> c, plan |-> e.plan, auto |-> e.auto /\ ~ e.plan] \in Loops
            BY <5>1 DEF Loops
        <5>3. [talk |-> c, plan |-> e.plan, auto |-> e.auto /\ ~ e.plan] # NoLoop
            BY NoTalkIsNone DEF NoLoop
        <5>4. QED
            BY <5>2, <5>3
      <4>3. PICK at \in {"running", "failed"} : at = IF made \/ e.loop # NoLoop THEN "running" ELSE "failed"
          OBVIOUS
      <4>4. PICK k \in Loops : k = IF e.loop # NoLoop THEN e.loop ELSE IF made THEN l ELSE NoLoop
        <5>1. e.loop \in Loops /\ NoLoop \in Loops
            BY DEF Desks, Loops, NoLoop
        <5>2. QED
            BY <5>1
      <4>5. PICK d : d = [e EXCEPT !.at = at, !.buffer = s, !.results = 0, !.loop = k]
          OBVIOUS
      <4>6. desk' = [desk EXCEPT ![t] = d]
          BY <1>1, <1>4, <4>1, <4>2, <4>3, <4>4, <4>5
      <4>7. /\ d \in Desks /\ d.at = at /\ d.id = e.id /\ d.talk = e.talk /\ d.plan = e.plan
            /\ d.auto = e.auto /\ d.held = e.held /\ d.loop = k /\ d.buffer = s
          BY <4>5 DEF Desks
      <4>8. k # NoLoop => k = e.loop \/ k = l
          BY <4>4
      <4>9. at = "running" => k # NoLoop
          BY <4>2, <4>3, <4>4
      <4>10. QED
          BY <1>5, <4>2, <4>6, <4>7, <4>8, <4>9
    <3>2. CASE ToolResult(t)
      <4>1. PICK d : /\ d = [e EXCEPT !.results = e.results + 1, !.buffer = s]
                     /\ desk' = [desk EXCEPT ![t] = d]
        <5>1. desk' = [desk EXCEPT ![t] = [@ EXCEPT !.results = desk[t].results + 1,
                                                    !.buffer = file'[desk[t].talk]]]
            BY <3>2 DEF ToolResult
        <5>2. desk' = [desk EXCEPT ![t] = [e EXCEPT !.results = e.results + 1, !.buffer = s]]
            BY <1>1, <1>3, <1>4, <2>1, <5>1
        <5>3. QED
            BY <5>2
      <4>2. e.at = "running" /\ e.results + 1 \in Nat
          BY <1>4, <3>2 DEF ToolResult, Desks
      <4>3. /\ d \in Desks /\ d.at = e.at /\ d.id = e.id /\ d.talk = e.talk /\ d.plan = e.plan
            /\ d.auto = e.auto /\ d.held = e.held /\ d.loop = e.loop /\ d.buffer = s
          BY <1>3, <1>4, <2>1, <4>1, <4>2 DEF Desks
      <4>4. e.loop # NoLoop
          BY <1>4, <4>2 DEF Seat
      <4>5. QED
          BY <1>5, <4>1, <4>2, <4>3, <4>4
    <3>3. CASE Answer(t) \/ Fail(t)
      <4>1. PICK d : d = [e EXCEPT !.at = "prompt", !.buffer = s]
          OBVIOUS
      <4>2. desk' = [desk EXCEPT ![t] = d]
          BY <1>1, <1>3, <1>4, <2>1, <3>3, <4>1 DEF Answer, Fail
      <4>3. /\ d \in Desks /\ d.at = "prompt" /\ d.id = e.id /\ d.talk = e.talk /\ d.plan = e.plan
            /\ d.auto = e.auto /\ d.held = e.held /\ d.loop = e.loop /\ d.buffer = s
          BY <4>1 DEF Desks
      <4>4. QED
          BY <1>5, <4>2, <4>3
    <3>4. QED
        BY <1>7, <3>1, <3>2, <3>3
  <2>5. Seat(d, manifest', shared)
    <3>1. d.at # "closed" /\ d.id \in Talks /\ d.talk = d.id /\ d.held # NoManifest
          /\ manifest'[d.id] # NoManifest /\ (d.at = "running" => d.loop # NoLoop)
        BY <1>5, <2>3, <2>4
    <3>2. d.loop # NoLoop => d.loop = [talk |-> d.id, plan |-> d.plan, auto |-> d.auto /\ ~ d.plan]
        BY <1>4, <1>5, <2>4 DEF Seat
    <3>3. d.id \notin shared => d.held = manifest'[d.id] /\ d.held = Mode(d.plan)
        BY <1>4, <1>5, <2>3, <2>4 DEF Seat
    <3>4. QED
        BY <3>1, <3>2, <3>3 DEF Seat
  <2>6. d.id = desk[t].id /\ d.buffer = s
      BY <1>3, <2>4
  <2>7. QED
      BY <1>2, <1>3, <2>1, <2>2, <2>3, <2>4, <2>5, <2>6, WritingMove
<1>8. QED
    BY <1>6, <1>7

\* What a step leaves, said of the state it leads to.
LEMMA AllThereNext ==
    ASSUME \A c \in Plain' :
             /\ torn'[c] = "no" => Told(file'[c], said'[c], c \notin cut')
             /\ \A t \in Terminals : desk'[t].id = c => Told(desk'[t].buffer, said'[c], c \notin cut')
    PROVE  AllThere'
BY DEF AllThere, Told, TellsFrom

LEMMA MoverThereNext ==
    ASSUME mover'.at # "no" =>
             /\ manifest'[Legacy] # NoManifest
             /\ Legacy \notin damaged' \cup shared' =>
                  /\ said'[Legacy] = 2 * LegacyTurns
                  /\ Told(mover'.buffer, mover'.taken, Legacy \notin cut')
                  /\ torn'[Legacy] = "no" => Told(file'[Legacy], mover'.taken, Legacy \notin cut')
                  /\ mover'.at = "opened" => mover'.taken = 0 /\ torn'[Legacy] = "no"
    PROVE  MoverThere'
BY DEF MoverThere, Moving, Told, TellsFrom

\* A write that breaks off leaves the start of the messages, and a file that shows it.
LEMMA BreaksOffLeaves ==
    ASSUME TalkInductive, NEW c \in Talks, NEW b \in Seq(Messages), BreaksOff(c, b)
    PROVE  /\ file' \in [Talks -> Seq(Messages)] /\ torn' \in [Talks -> Tears] /\ torn'[c] # "no"
           /\ \A a \in Talks \ {c} : file'[a] = file[a] /\ torn'[a] = torn[a]
<1>1. file \in [Talks -> Seq(Messages)] /\ torn \in [Talks -> Tears]
    BY DEF TalkInductive, TalkTypeOK, FileTypes
<1>2. PICK n \in 0 .. Len(b) : file' = [file EXCEPT ![c] = SubSeq(b, 1, n)]
    BY DEF BreaksOff
<1>3. SubSeq(b, 1, n) \in Seq(Messages)
  <2>1. \A i \in 1 .. n : b[i] \in Messages
      OBVIOUS
  <2>2. QED
      BY <2>1, SubSeqProperties
<1>4. PICK where \in {"lines", "line"} : torn' = [torn EXCEPT ![c] = where]
    BY DEF BreaksOff
<1>5. QED
    BY <1>1, <1>2, <1>3, <1>4 DEF Tears

\* A file that is left damaged says so.
LEMMA WriteBreaksStep ==
    ASSUME TalkInductive, NEW t \in Terminals, WriteBreaks(t)
    PROVE  TalkInductive'
<1>1. desk[t].at # "closed"
    BY DEF WriteBreaks
<1>2. PICK c \in Talks : c = desk[t].id /\ c = desk[t].talk
    BY <1>1, SeatFields
<1>3. PICK e \in Desks : /\ e = desk[t] /\ Seat(e, manifest, shared) /\ e.buffer \in Seq(Messages)
                         /\ c \in Plain => Told(e.buffer, said[c], c \notin cut)
    BY <1>1, <1>2, SeatFields
<1>4. /\ manifest' = manifest /\ latest' = latest /\ mover' = mover /\ said' = said /\ cut' = cut
      /\ damaged' = damaged /\ shared' = shared /\ inputs' = inputs /\ bads' = bads
      /\ ends' = ends + 1
    BY DEF WriteBreaks
<1>5. ends \in Nat /\ desk \in [Terminals -> Desks]
    BY DEF TalkInductive, TalkTypeOK, FileTypes
<1>6. /\ file' \in [Talks -> Seq(Messages)] /\ torn' \in [Talks -> Tears] /\ torn'[c] # "no"
      /\ \A a \in Talks \ {c} : file'[a] = file[a] /\ torn'[a] = torn[a]
  <2>1. PICK b \in Seq(Messages) : b = e.buffer
      BY <1>3
  <2>2. BreaksOff(c, b)
      BY <1>2, <1>3, <2>1 DEF WriteBreaks
  <2>3. QED
      BY <2>2, BreaksOffLeaves
<1>7. FileTypes' /\ Plain' = Plain
    BY <1>4, <1>5, <1>6 DEF TalkInductive, TalkTypeOK, FileTypes, Plain, Moving
<1>8. PICK d \in {e, ClosedDesk} : desk' = [desk EXCEPT ![t] = d]
  <2>1. PICK killed \in BOOLEAN : desk' = IF killed THEN [desk EXCEPT ![t] = ClosedDesk] ELSE desk
      BY DEF WriteBreaks
  <2>2. desk = [desk EXCEPT ![t] = e]
      BY <1>3, <1>5
  <2>3. QED
      BY <2>1, <2>2
<1>9. /\ d \in Desks /\ Seat(d, manifest', shared') /\ d.id \in {c, NoTalk}
      /\ d.id = c => d.buffer = e.buffer
    BY <1>2, <1>3, <1>4, <1>8, ClosedDeskType, NoTalkIsNone
<1>10. \A b \in {d.id, desk[t].id} \cap Plain' :
         /\ torn'[b] = "no" => Told(file'[b], said'[b], b \notin cut')
         /\ d.id = b => Told(d.buffer, said'[b], b \notin cut')
  <2>1. SUFFICES ASSUME NEW b \in {d.id, desk[t].id} \cap Plain
                 PROVE  /\ torn'[b] = "no" => Told(file'[b], said[b], b \notin cut)
                        /\ d.id = b => Told(d.buffer, said[b], b \notin cut)
      BY <1>4, <1>7
  <2>2. b = c
      BY <1>2, <1>9, NoTalkIsNone DEF Plain
  <2>3. QED
      BY <1>3, <1>6, <1>9, <2>1, <2>2
<1>11. d.id \in Talks => d.id = desk[t].id
    BY <1>2, <1>9, NoTalkIsNone
<1>12. /\ d.id # NoTalk => d.id = desk[t].id
       /\ \A b \in Talks \ {d.id, desk[t].id} :
            manifest'[b] = manifest[b] /\ file'[b] = file[b] /\ torn'[b] = torn[b] /\ said'[b] = said[b]
    BY <1>2, <1>4, <1>6, <1>9
<1>13. Moves(t, d)
    BY <1>4, <1>7, <1>8, <1>9, <1>10, <1>12 DEF Moves
<1>14. QED
    BY <1>13, MovesStep

\* A conversation that sac session selects may be at a terminal too.
LEMMA SelectStep ==
    ASSUME TalkInductive, NEW c \in Talks, Select(c)
    PROVE  TalkInductive'
<1>1. /\ manifest \in [Talks -> TalkModes] /\ shared \subseteq Talks /\ inputs \in Nat
    BY DEF TalkInductive, TalkTypeOK, FileTypes
<1>2. /\ latest' = c /\ file' = file /\ torn' = torn /\ desk' = desk /\ mover' = mover
      /\ said' = said /\ cut' = cut /\ damaged' = damaged /\ bads' = bads /\ ends' = ends
      /\ inputs' = inputs + 1
      /\ manifest' = [manifest EXCEPT ![c] = manifest[c]]
      /\ shared' = IF HeldBeside({}, c) THEN shared \cup {c} ELSE shared
    BY DEF Select, Saves, Typed
<1>3. manifest' = manifest /\ shared \subseteq shared' /\ shared' \subseteq Talks /\ Plain' \subseteq Plain
    BY <1>1, <1>2 DEF Plain, Moving
<1>4. TalkTypeOK'
    BY <1>2, <1>3 DEF TalkInductive, TalkTypeOK, FileTypes
<1>5. Seated'
    BY <1>2, <1>3 DEF TalkInductive, Seated, Seat
<1>6. SharedIsKnown'
    BY <1>2, <1>3 DEF TalkInductive, SharedIsKnown, Moving
<1>7. AllThere'
  <2>1. \A b \in Plain' :
          /\ torn[b] = "no" => Told(file[b], said[b], b \notin cut)
          /\ \A t \in Terminals : desk[t].id = b => Told(desk[t].buffer, said[b], b \notin cut)
      BY <1>3 DEF TalkInductive, AllThere
  <2>2. QED
      BY <1>2, <2>1, AllThereNext
<1>8. Untouched'
    BY <1>2, <1>3 DEF TalkInductive, Untouched
<1>9. MoverThere'
  <2>1. SUFFICES ASSUME Moving
                 PROVE  /\ manifest[Legacy] # NoManifest
                        /\ Legacy \notin damaged \cup shared' =>
                             /\ said[Legacy] = 2 * LegacyTurns
                             /\ Told(mover.buffer, mover.taken, Legacy \notin cut)
                             /\ torn[Legacy] = "no" => Told(file[Legacy], mover.taken, Legacy \notin cut)
                             /\ mover.at = "opened" => mover.taken = 0 /\ torn[Legacy] = "no"
      BY <1>2, <1>3, MoverThereNext DEF Moving
  <2>2. QED
      BY <1>3, <2>1 DEF TalkInductive, MoverThere
<1>10. QED
    BY <1>4, <1>5, <1>6, <1>7, <1>8, <1>9 DEF TalkInductive

-----------------------------------------------------------------------------
(* Taking over. *)

\* A session of an earlier version is at no terminal when its taking over starts.
LEMMA StartMovingStep == ASSUME TalkInductive, StartMoving PROVE TalkInductive'
<1>1. /\ manifest \in [Talks -> TalkModes] /\ said \in [Talks -> Nat] /\ inputs \in Nat
      /\ Legacy \in Talks /\ 2 * LegacyTurns \in Nat
  <2>1. 2 * LegacyTurns \in Nat
      BY TalkAssumption
  <2>2. QED
      BY <2>1, NoTalkIsNone DEF TalkInductive, TalkTypeOK, FileTypes
<1>2. PICK m \in TalkModes \ {NoManifest} : m = Mode(FALSE)
    BY ModeType
<1>3. PICK n \in Nat : n = 2 * LegacyTurns
    BY <1>1
<1>4. PICK v \in Movers : v = [NoMover EXCEPT !.at = "opened"] /\ v.at = "opened" /\ v.taken = 0 /\ v.buffer = <<>>
  <2>1. <<>> \in Seq(Messages)
      OBVIOUS
  <2>2. [at |-> "opened", taken |-> 0, buffer |-> <<>>] \in Movers
      BY <2>1 DEF Movers
  <2>3. [NoMover EXCEPT !.at = "opened"] = [at |-> "opened", taken |-> 0, buffer |-> <<>>]
      BY DEF NoMover
  <2>4. QED
      BY <2>2, <2>3
<1>5. /\ manifest[Legacy] = NoManifest /\ manifest' = [manifest EXCEPT ![Legacy] = m] /\ latest' = Legacy
      /\ mover' = v /\ said' = [said EXCEPT ![Legacy] = n] /\ inputs' = inputs + 1
      /\ file' = file /\ torn' = torn /\ desk' = desk /\ cut' = cut /\ damaged' = damaged
      /\ shared' = shared /\ bads' = bads /\ ends' = ends
    BY <1>2, <1>3, <1>4 DEF StartMoving, Saves, Typed
<1>6. FileTypes'
    BY <1>1, <1>4, <1>5 DEF TalkInductive, TalkTypeOK, FileTypes
<1>7. /\ \A c \in Talks \ {Legacy} : manifest'[c] = manifest[c] /\ file'[c] = file[c]
                                     /\ torn'[c] = torn[c] /\ said'[c] = said[c]
      /\ manifest'[Legacy] # NoManifest /\ said'[Legacy] = n
      /\ file[Legacy] = <<>> /\ torn[Legacy] = "no"
    BY <1>1, <1>2, <1>5 DEF TalkInductive, Untouched
<1>8. \A t \in Terminals : desk[t].id # Legacy
    BY <1>1, <1>5, SeatedAt
<1>9. MoverThere'
  <2>1. /\ manifest'[Legacy] # NoManifest /\ said'[Legacy] = 2 * LegacyTurns
        /\ Told(v.buffer, v.taken, Legacy \notin cut)
        /\ Told(file[Legacy], v.taken, Legacy \notin cut)
        /\ v.taken = 0 /\ torn[Legacy] = "no"
      BY <1>3, <1>4, <1>7, ToldNothing
  <2>2. QED
      BY <1>5, <2>1, MoverThereNext
<1>10. Legacy \notin Plain'
    BY <1>4, <1>5 DEF Plain, Moving
<1>11. QED
    BY <1>5, <1>6, <1>7, <1>8, <1>9, <1>10, MovingKeeps

\* What the steps after it start from.
LEMMA MovingFields ==
    ASSUME TalkInductive, Moving
    PROVE  /\ mover \in Movers /\ mover.taken \in Nat /\ mover.buffer \in Seq(Messages)
           /\ Legacy \in Talks /\ manifest[Legacy] # NoManifest
           /\ \A t \in Terminals : desk[t].id = Legacy => Legacy \in shared
<1>1. mover \in Movers
    BY DEF TalkInductive, TalkTypeOK, FileTypes
<1>2. QED
    BY <1>1, NoTalkIsNone DEF TalkInductive, MoverThere, SharedIsKnown, Movers

\* A conversation nobody else has had is empty when its manifest was just saved.
LEMMA LookForMessagesStep == ASSUME TalkInductive, LookForMessages PROVE TalkInductive'
<1>1. Moving /\ mover.at = "opened"
    BY DEF LookForMessages, Moving
<1>2. /\ manifest' = manifest /\ latest' = latest /\ file' = file /\ torn' = torn /\ desk' = desk
      /\ said' = said /\ cut' = cut /\ damaged' = damaged /\ shared' = shared /\ inputs' = inputs
      /\ bads' = bads /\ ends' = ends
    BY DEF LookForMessages
<1>3. PICK e \in Movers : e = mover
    BY <1>1, MovingFields
<1>4. PICK v \in Movers : /\ v = (IF Loaded(Legacy) = <<>> THEN [e EXCEPT !.at = "moving"] ELSE NoMover)
                          /\ Loaded(Legacy) = <<>> =>
                               v.at = "moving" /\ v.taken = e.taken /\ v.buffer = e.buffer
                          /\ Loaded(Legacy) # <<>> => v = NoMover
  <2>1. NoMover \in Movers
    <3>1. <<>> \in Seq(Messages)
        OBVIOUS
    <3>2. QED
        BY <3>1 DEF NoMover, Movers
  <2>2. [e EXCEPT !.at = "moving"] \in Movers
      BY DEF Movers
  <2>3. /\ [e EXCEPT !.at = "moving"].at = "moving" /\ [e EXCEPT !.at = "moving"].taken = e.taken
        /\ [e EXCEPT !.at = "moving"].buffer = e.buffer
      BY DEF Movers
  <2>4. QED
      BY <2>1, <2>2, <2>3
<1>5. mover' = v
    BY <1>3, <1>4 DEF LookForMessages
<1>6. FileTypes'
    BY <1>2, <1>5 DEF TalkInductive, TalkTypeOK, FileTypes
<1>7. ASSUME Legacy \notin damaged \cup shared
      PROVE  /\ Loaded(Legacy) = <<>> /\ said[Legacy] = 2 * LegacyTurns
             /\ Told(e.buffer, e.taken, Legacy \notin cut)
             /\ torn[Legacy] = "no" => Told(file[Legacy], e.taken, Legacy \notin cut)
  <2>1. /\ said[Legacy] = 2 * LegacyTurns
        /\ Told(e.buffer, e.taken, Legacy \notin cut)
        /\ torn[Legacy] = "no" => Told(file[Legacy], e.taken, Legacy \notin cut)
        /\ e.taken = 0 /\ torn[Legacy] = "no"
      BY <1>1, <1>3, <1>7 DEF TalkInductive, MoverThere
  <2>2. file[Legacy] \in Seq(Messages) /\ Legacy \in Talks
      BY NoTalkIsNone DEF TalkInductive, TalkTypeOK, FileTypes
  <2>3. file[Legacy] = <<>>
      BY <2>1, <2>2, ToldNothing
  <2>4. QED
      BY <2>1, <2>2, <2>3, LoadedFile
<1>8. MoverThere'
  <2>1. SUFFICES ASSUME v.at # "no"
                 PROVE  /\ manifest[Legacy] # NoManifest
                        /\ Legacy \notin damaged \cup shared =>
                             /\ said[Legacy] = 2 * LegacyTurns
                             /\ Told(v.buffer, v.taken, Legacy \notin cut)
                             /\ torn[Legacy] = "no" => Told(file[Legacy], v.taken, Legacy \notin cut)
                             /\ v.at = "opened" => v.taken = 0 /\ torn[Legacy] = "no"
      BY <1>2, <1>5, MoverThereNext
  <2>2. NoMover.at = "no"
      BY DEF NoMover
  <2>3. v.at = "moving" /\ v.taken = e.taken /\ v.buffer = e.buffer
      BY <1>4, <2>1, <2>2
  <2>4. QED
      BY <1>1, <1>7, <2>3, MovingFields
<1>9. Legacy \notin Plain'
  <2>1. Legacy \notin damaged \cup shared => v.at = "moving"
      BY <1>4, <1>7
  <2>2. QED
      BY <1>2, <1>5, <2>1 DEF Plain, Moving
<1>10. QED
  <2>1. \A t \in Terminals : desk[t].id = Legacy => Legacy \in shared
      BY <1>1, MovingFields
  <2>2. manifest'[Legacy] # NoManifest
      BY <1>1, <1>2, MovingFields
  <2>3. QED
      BY <1>2, <1>6, <1>8, <1>9, <2>1, <2>2, MovingKeeps

\* A message that is taken over follows those before it.
LEMMA MoveMessageStep == ASSUME TalkInductive, MoveMessage PROVE TalkInductive'
<1>1. Moving /\ mover.at = "moving"
    BY DEF MoveMessage, Moving
<1>2. /\ manifest' = manifest /\ latest' = latest /\ desk' = desk
      /\ said' = said /\ cut' = cut /\ damaged' = damaged /\ shared' = shared /\ inputs' = inputs
      /\ ends' = ends
    BY DEF MoveMessage
<1>3. PICK e \in Movers : e = mover /\ e.at = "moving"
    BY <1>1, MovingFields
<1>4. PICK b \in Seq(Messages), n \in Nat : b = e.buffer /\ n = e.taken
    BY <1>1, <1>3, MovingFields
<1>5. PICK s \in Seq(Messages) :
        /\ file' = [file EXCEPT ![Legacy] = s] /\ torn' = [torn EXCEPT ![Legacy] = "no"]
        /\ file'[Legacy] = s /\ bads' \in Nat
        /\ \A whole : Told(b, n, whole) => Told(s, n + 1, whole)
  <2>1. PICK role \in {"user", "assistant", "tool"} : Follows(Legacy, b, role, n + 1)
    <3>1. Follows(Legacy, b, IF (n + 1) % 2 = 1 THEN "user" ELSE "assistant", n + 1)
        BY <1>3, <1>4 DEF MoveMessage
    <3>2. (IF (n + 1) % 2 = 1 THEN "user" ELSE "assistant") \in {"user", "assistant", "tool"}
        OBVIOUS
    <3>3. QED
        BY <3>1, <3>2
  <2>2. QED
      BY <2>1, FollowsTold, NoTalkIsNone
<1>6. PICK v \in Movers : v = [e EXCEPT !.taken = n + 1, !.buffer = s] /\ v.at = "moving"
                          /\ v.taken = n + 1 /\ v.buffer = s
  <2>1. n + 1 \in Nat
      OBVIOUS
  <2>2. [e EXCEPT !.taken = n + 1, !.buffer = s] \in Movers
      BY <2>1 DEF Movers
  <2>3. /\ [e EXCEPT !.taken = n + 1, !.buffer = s].at = "moving"
        /\ [e EXCEPT !.taken = n + 1, !.buffer = s].taken = n + 1
        /\ [e EXCEPT !.taken = n + 1, !.buffer = s].buffer = s
      BY <1>3, <2>1 DEF Movers
  <2>4. QED
      BY <2>2, <2>3
<1>7. mover' = v
    BY <1>3, <1>4, <1>5, <1>6 DEF MoveMessage
<1>8. /\ file' \in [Talks -> Seq(Messages)] /\ torn' \in [Talks -> Tears] /\ torn'[Legacy] = "no"
      /\ \A c \in Talks \ {Legacy} : file'[c] = file[c] /\ torn'[c] = torn[c]
    BY <1>5, NoTalkIsNone DEF TalkInductive, TalkTypeOK, FileTypes, Tears
<1>9. FileTypes'
    BY <1>2, <1>5, <1>7, <1>8 DEF TalkInductive, TalkTypeOK, FileTypes
<1>10. MoverThere'
  <2>1. SUFFICES ASSUME Legacy \notin damaged \cup shared
                 PROVE  said[Legacy] = 2 * LegacyTurns /\ Told(s, n + 1, Legacy \notin cut)
    <3>1. manifest[Legacy] # NoManifest
        BY <1>1, MovingFields
    <3>2. QED
        BY <1>2, <1>5, <1>6, <1>7, <3>1, MoverThereNext
  <2>2. PICK whole \in BOOLEAN : whole = (Legacy \notin cut)
      OBVIOUS
  <2>3. said[Legacy] = 2 * LegacyTurns /\ Told(b, n, whole)
      BY <1>1, <1>3, <1>4, <2>1, <2>2 DEF TalkInductive, MoverThere
  <2>4. QED
      BY <1>5, <2>2, <2>3
<1>11. Legacy \notin Plain'
    BY <1>6, <1>7 DEF Plain, Moving
<1>12. QED
  <2>1. \A t \in Terminals : desk[t].id = Legacy => Legacy \in shared
      BY <1>1, MovingFields
  <2>2. manifest'[Legacy] # NoManifest
      BY <1>1, <1>2, MovingFields
  <2>3. QED
      BY <1>2, <1>8, <1>9, <1>10, <1>11, <2>1, <2>2, MovingKeeps

\* At the end all of it is.
LEMMA AllMovedStep == ASSUME TalkInductive, AllMoved PROVE TalkInductive'
<1>1. Moving /\ mover.at = "moving" /\ mover.taken = 2 * LegacyTurns /\ mover' = NoMover
    BY DEF AllMoved, Moving
<1>2. /\ manifest' = manifest /\ latest' = latest /\ file' = file /\ torn' = torn /\ desk' = desk
      /\ said' = said /\ cut' = cut /\ damaged' = damaged /\ shared' = shared /\ inputs' = inputs
      /\ bads' = bads /\ ends' = ends
    BY DEF AllMoved
<1>3. NoMover \in Movers /\ NoMover.at = "no"
  <2>1. <<>> \in Seq(Messages)
      OBVIOUS
  <2>2. QED
      BY <2>1 DEF NoMover, Movers
<1>4. FileTypes'
    BY <1>1, <1>2, <1>3 DEF TalkInductive, TalkTypeOK, FileTypes
<1>5. MoverThere'
    BY <1>1, <1>3 DEF MoverThere, Moving
<1>6. Legacy \in Plain' => (torn[Legacy] = "no" => Told(file[Legacy], said[Legacy], Legacy \notin cut))
  <2>1. SUFFICES ASSUME Legacy \notin damaged \cup shared, torn[Legacy] = "no"
                 PROVE  Told(file[Legacy], said[Legacy], Legacy \notin cut)
      BY <1>2 DEF Plain
  <2>2. Told(file[Legacy], mover.taken, Legacy \notin cut) /\ said[Legacy] = 2 * LegacyTurns
      BY <1>1, <2>1 DEF TalkInductive, MoverThere
  <2>3. QED
      BY <1>1, <2>2
<1>7. \A t \in Terminals : desk[t].id = Legacy => Legacy \in shared
    BY <1>1, MovingFields
<1>8. manifest'[Legacy] # NoManifest
    BY <1>1, <1>2, MovingFields
<1>9. QED
    BY <1>2, <1>4, <1>5, <1>6, <1>7, <1>8, MovingKeeps

\* Where it breaks off, the conversation is noted as one that is not whole, or its
\* file shows it.
LEMMA MovingBreaksStep == ASSUME TalkInductive, MovingBreaks PROVE TalkInductive'
<1>1. Moving /\ Legacy \in Talks /\ ends' = ends + 1 /\ ends \in Nat
    BY NoTalkIsNone DEF MovingBreaks, TalkInductive, TalkTypeOK, FileTypes
<1>2. /\ manifest' = manifest /\ latest' = latest /\ desk' = desk
      /\ said' = said /\ cut' = cut /\ shared' = shared /\ inputs' = inputs /\ bads' = bads
    BY DEF MovingBreaks
<1>3. PICK killed \in BOOLEAN :
         /\ mover' = IF killed THEN NoMover ELSE mover
         /\ damaged' = IF killed THEN damaged \cup {Legacy} ELSE damaged
         /\ \/ killed /\ UNCHANGED <<file, torn>>
            \/ mover.at = "moving" /\ BreaksOff(Legacy, mover.buffer)
    BY DEF MovingBreaks
<1>4. PICK b \in Seq(Messages) : b = mover.buffer
    BY <1>1, MovingFields
<1>5. /\ file' \in [Talks -> Seq(Messages)] /\ torn' \in [Talks -> Tears]
      /\ \A c \in Talks \ {Legacy} : file'[c] = file[c] /\ torn'[c] = torn[c]
      /\ ~ killed => torn'[Legacy] # "no" /\ mover.at = "moving"
  <2>1. CASE killed /\ UNCHANGED <<file, torn>>
      BY <2>1 DEF TalkInductive, TalkTypeOK, FileTypes
  <2>2. CASE mover.at = "moving" /\ BreaksOff(Legacy, mover.buffer)
      BY <1>1, <1>4, <2>2, BreaksOffLeaves
  <2>3. QED
      BY <1>3, <2>1, <2>2
<1>6. NoMover \in Movers /\ NoMover.at = "no"
  <2>1. <<>> \in Seq(Messages)
      OBVIOUS
  <2>2. QED
      BY <2>1 DEF NoMover, Movers
<1>7. mover' \in Movers /\ damaged' \subseteq Talks /\ damaged \subseteq damaged'
    BY <1>1, <1>3, <1>6 DEF TalkInductive, TalkTypeOK, FileTypes
<1>8. FileTypes'
    BY <1>1, <1>2, <1>5, <1>7 DEF TalkInductive, TalkTypeOK, FileTypes
<1>9. manifest'[Legacy] # NoManifest
    BY <1>1, <1>2, MovingFields
<1>10. CASE killed
  <2>1. MoverThere'
      BY <1>3, <1>6, <1>10 DEF MoverThere, Moving
  <2>2. Legacy \notin Plain'
      BY <1>3, <1>10 DEF Plain
  <2>3. \A t \in Terminals : desk[t].id = Legacy => Legacy \in shared
      BY <1>1, MovingFields
  <2>4. QED
      BY <1>2, <1>5, <1>7, <1>8, <1>9, <2>1, <2>2, <2>3, MovingKeeps
<1>11. CASE ~ killed
  <2>1. mover' = mover /\ damaged' = damaged /\ torn'[Legacy] # "no" /\ mover.at = "moving"
      BY <1>3, <1>5, <1>11
  <2>2. MoverThere'
    <3>1. SUFFICES ASSUME Legacy \notin damaged \cup shared
                   PROVE  said[Legacy] = 2 * LegacyTurns /\ Told(mover.buffer, mover.taken, Legacy \notin cut)
        BY <1>2, <1>9, <2>1, MoverThereNext
    <3>2. QED
        BY <1>1, <3>1 DEF TalkInductive, MoverThere
  <2>3. Legacy \notin Plain'
      BY <2>1 DEF Plain, Moving
  <2>4. \A t \in Terminals : desk[t].id = Legacy => Legacy \in shared
      BY <1>1, MovingFields
  <2>5. QED
      BY <1>2, <1>5, <1>7, <1>8, <1>9, <2>2, <2>3, <2>4, MovingKeeps
<1>12. QED
    BY <1>10, <1>11


\* Every step of the shells and of sac session.
LEMMA TalkStep == TalkInductive /\ [TalkNext]_talkVars => TalkInductive'
<1>1. SUFFICES ASSUME TalkInductive, [TalkNext]_talkVars PROVE TalkInductive'
    OBVIOUS
<1>2. CASE UNCHANGED talkVars
  <2>1. /\ manifest' = manifest /\ latest' = latest /\ file' = file /\ torn' = torn /\ desk' = desk
        /\ mover' = mover /\ said' = said /\ cut' = cut /\ damaged' = damaged /\ shared' = shared
        /\ inputs' = inputs /\ bads' = bads /\ ends' = ends
      BY <1>2 DEF talkVars
  <2>2. Plain' = Plain
      BY <2>1 DEF Plain, Moving
  <2>3. AllThere'
    <3>1. \A c \in Plain :
            /\ torn[c] = "no" => Told(file[c], said[c], c \notin cut)
            /\ \A t \in Terminals : desk[t].id = c => Told(desk[t].buffer, said[c], c \notin cut)
        BY <1>1 DEF TalkInductive, AllThere
    <3>2. QED
        BY <2>1, <2>2, <3>1, AllThereNext
  <2>4. MoverThere'
    <3>1. mover.at # "no" =>
            /\ manifest[Legacy] # NoManifest
            /\ Legacy \notin damaged \cup shared =>
                 /\ said[Legacy] = 2 * LegacyTurns
                 /\ Told(mover.buffer, mover.taken, Legacy \notin cut)
                 /\ torn[Legacy] = "no" => Told(file[Legacy], mover.taken, Legacy \notin cut)
                 /\ mover.at = "opened" => mover.taken = 0 /\ torn[Legacy] = "no"
        BY <1>1 DEF TalkInductive, MoverThere, Moving
    <3>2. QED
        BY <2>1, <3>1, MoverThereNext
  <2>5. TalkTypeOK'
      BY <1>1, <2>1 DEF TalkInductive, TalkTypeOK, FileTypes
  <2>6. Seated' /\ SharedIsKnown' /\ Untouched'
      BY <1>1, <2>1 DEF TalkInductive, Seated, Seat, SharedIsKnown, Moving, Untouched
  <2>7. QED
      BY <2>3, <2>4, <2>5, <2>6 DEF TalkInductive
<1>3. ASSUME NEW t \in Terminals, NEW c \in Talks, NEW plan \in BOOLEAN, NEW auto \in BOOLEAN,
             Open(t, c, plan, auto)
      PROVE  TalkInductive'
  <2>1. TakesUp(t, c, Mode(plan), plan, auto) /\ inputs' = inputs + 1 /\ inputs \in Nat
      BY <1>1, <1>3 DEF Open, Typed, TalkInductive, TalkTypeOK, FileTypes
  <2>2. QED
      BY <1>1, <2>1, ModeType, TakesUpStep
<1>4. ASSUME NEW t \in Terminals, NewTalk(t) PROVE TalkInductive'
  <2>1. PICK c \in Talks : TakesUp(t, c, Mode(desk[t].plan), desk[t].plan, desk[t].auto)
      BY <1>4 DEF NewTalk
  <2>2. inputs' = inputs + 1 /\ inputs \in Nat /\ desk[t].plan \in BOOLEAN /\ desk[t].auto \in BOOLEAN
      BY <1>1, <1>4 DEF NewTalk, AtPrompt, Typed, TalkInductive, TalkTypeOK, FileTypes, Desks
  <2>3. QED
      BY <1>1, <2>1, <2>2, ModeType, TakesUpStep
<1>5. ASSUME NEW t \in Terminals, NEW c \in Talks, ResumeTalk(t, c) PROVE TalkInductive'
  <2>1. TakesUp(t, c, manifest[c], manifest[c] = "plan", desk[t].auto) /\ manifest[c] # NoManifest
      BY <1>5 DEF ResumeTalk
  <2>2. inputs' = inputs + 1 /\ inputs \in Nat /\ desk[t].auto \in BOOLEAN /\ manifest[c] \in TalkModes
      BY <1>1, <1>5 DEF ResumeTalk, AtPrompt, Typed, TalkInductive, TalkTypeOK, FileTypes, Desks
  <2>3. (manifest[c] = "plan") \in BOOLEAN /\ manifest[c] = Mode(manifest[c] = "plan")
      BY <2>1, <2>2 DEF Mode, TalkModes
  <2>4. PICK plan \in BOOLEAN, m \in TalkModes \ {NoManifest}, auto \in BOOLEAN :
          m = Mode(plan) /\ TakesUp(t, c, m, plan, auto)
      BY <2>1, <2>2, <2>3
  <2>5. QED
      BY <1>1, <2>2, <2>4, TakesUpStep
<1>6. ASSUME NEW t \in Terminals,
             \/ Exit(t) \/ Leave(t) \/ Rename(t) \/ Decide(t)
             \/ \E plan \in BOOLEAN : SetMode(t, plan)
      PROVE  TalkInductive'
    BY <1>1, <1>6, QuietSteps
<1>7. ASSUME NEW t \in Terminals,
             \/ Compact(t) \/ Summarise(t) \/ Request(t) \/ ToolResult(t) \/ Answer(t) \/ Fail(t)
      PROVE  TalkInductive'
    BY <1>1, <1>7, WritingSteps
<1>8. ASSUME NEW t \in Terminals, WriteBreaks(t) PROVE TalkInductive'
    BY <1>1, <1>8, WriteBreaksStep
<1>9. ASSUME NEW c \in Talks, Select(c) PROVE TalkInductive'
    BY <1>1, <1>9, SelectStep
<1>10. CASE StartMoving \/ LookForMessages \/ MoveMessage \/ AllMoved \/ MovingBreaks
    BY <1>1, <1>10, StartMovingStep, LookForMessagesStep, MoveMessageStep, AllMovedStep,
       MovingBreaksStep
<1>11. QED
    BY <1>1, <1>2, <1>3, <1>4, <1>5, <1>6, <1>7, <1>8, <1>9, <1>10 DEF TalkNext

\* Before the first command there is nothing to keep.
LEMMA TalkStart == TalkInit => TalkInductive
<1>1. SUFFICES ASSUME TalkInit PROVE TalkInductive
    OBVIOUS
<1>2. TalkTypeOK
  <2>1. FileTypes
      BY <1>1 DEF TalkInit, FileTypes, TalkModes, Tears, NoMover, Movers
  <2>2. QED
      BY <1>1, <2>1, ClosedDeskType DEF TalkInit, TalkTypeOK
<1>3. Seated
    BY <1>1 DEF TalkInit, Seated, Seat, ClosedDesk
<1>4. SharedIsKnown
    BY <1>1, ClosedDeskType DEF TalkInit, SharedIsKnown, Moving, NoMover
<1>5. AllThere
  <2>1. ASSUME NEW c \in Talks
        PROVE  file[c] = <<>> /\ said[c] = 0 /\ \A t \in Terminals : desk[t].id # c
      BY <1>1, ClosedDeskType, NoTalkIsNone DEF TalkInit
  <2>2. QED
      BY <2>1, ToldNothing DEF AllThere, Plain
<1>6. Untouched
    BY <1>1 DEF TalkInit, Untouched
<1>7. MoverThere
    BY <1>1 DEF TalkInit, MoverThere, Moving, NoMover
<1>8. QED
    BY <1>2, <1>3, <1>4, <1>5, <1>6, <1>7 DEF TalkInductive

\* shell/runtime.py, agent/conversation.py: types, and that a terminal, its loop
\* and its conversation belong together while nobody else has it.
THEOREM TalkInvariant == TalkSpec => []TalkInductive
BY TalkStart, TalkStep, PTL DEF TalkSpec

\* Every variable of the conversations has its type in every reachable state.
THEOREM TalkTypes == TalkSpec => []TalkTypeOK
<1>1. TalkInductive => TalkTypeOK
    BY DEF TalkInductive
<1>2. QED
    BY <1>1, TalkInvariant, PTL

\* run_agentic_shell: a turn runs in the conversation and the mode its terminal
\* shows, whatever commands came before it.
THEOREM TurnsAreTheTerminals == TalkSpec => []TurnsFollowTheConversation
<1>1. TalkInductive => TurnsFollowTheConversation
  <2>1. SUFFICES ASSUME TalkInductive, NEW t \in Terminals,
                        desk[t].at = "running", desk[t].id \notin shared
                 PROVE  /\ desk[t].talk = desk[t].id
                        /\ desk[t].loop = [talk |-> desk[t].id, plan |-> desk[t].held = "plan",
                                           auto |-> desk[t].auto /\ desk[t].held # "plan"]
      BY DEF TurnsFollowTheConversation
  <2>2. /\ Seat(desk[t], manifest, shared) /\ desk[t].talk = desk[t].id
        /\ desk[t].plan \in BOOLEAN
      BY <2>1, SeatFields DEF Desks
  <2>3. /\ desk[t].loop = [talk |-> desk[t].id, plan |-> desk[t].plan,
                           auto |-> desk[t].auto /\ ~ desk[t].plan]
        /\ desk[t].held = Mode(desk[t].plan)
      BY <2>1, <2>2 DEF Seat
  <2>4. desk[t].plan <=> desk[t].held = "plan"
      BY <2>2, <2>3 DEF Mode
  <2>5. desk[t].plan = (desk[t].held = "plan")
      BY <2>2, <2>4
  <2>6. QED
      BY <2>2, <2>3, <2>5
<1>2. QED
    BY <1>1, TalkInvariant, PTL

\* ConversationBuffer: what a conversation has of what was said in it is there once, in
\* its order and without a gap up to the last message, through any number of
\* compressions, restarts and turns; and it starts with the first message unless an
\* older summary went into the summary or load dropped the start.
THEOREM EverythingStays == TalkSpec => []NothingForgotten
<1>1. TalkInductive => NothingForgotten
  <2>1. SUFFICES ASSUME TalkInductive, NEW c \in Talks \ (damaged \cup shared),
                        torn[c] = "no", ~ (c = Legacy /\ Moving)
                 PROVE  /\ \E n \in 1 .. (said[c] + 1) :
                             /\ UNION {file[c][i].of : i \in DOMAIN file[c]} = n .. said[c]
                             /\ said[c] > 0 => n <= said[c]
                        /\ \/ c \in cut
                           \/ file[c] # <<>> /\ file[c][1].made = 2
                           \/ UNION {file[c][i].of : i \in DOMAIN file[c]} = 1 .. said[c]
                        /\ \A i, j \in DOMAIN file[c] :
                             i < j => \A m \in file[c][i].of, n \in file[c][j].of : m < n
      BY DEF NothingForgotten
  <2>2. PICK s \in Seq(Messages), k \in Nat, whole \in BOOLEAN :
          s = file[c] /\ k = said[c] /\ (whole <=> c \notin cut) /\ whole = (c \notin cut)
      BY <2>1 DEF TalkInductive, TalkTypeOK, FileTypes
  <2>3. Told(s, k, whole)
      BY <2>1, <2>2 DEF TalkInductive, AllThere, Plain
  <2>4. /\ \E n \in 1 .. (k + 1) : UNION {s[i].of : i \in DOMAIN s} = n .. k /\ (k > 0 => n <= k)
        /\ whole => (s # <<>> /\ s[1].made = 2) \/ UNION {s[i].of : i \in DOMAIN s} = 1 .. k
        /\ \A i, j \in DOMAIN s : i < j => \A m \in s[i].of, n \in s[j].of : m < n
      BY <2>3, ToldInOrder
  <2>5. \/ c \in cut
        \/ file[c] # <<>> /\ file[c][1].made = 2
        \/ UNION {file[c][i].of : i \in DOMAIN file[c]} = 1 .. said[c]
      BY <2>2, <2>4
  <2>6. \E n \in 1 .. (said[c] + 1) :
          UNION {file[c][i].of : i \in DOMAIN file[c]} = n .. said[c] /\ (said[c] > 0 => n <= said[c])
      BY <2>2, <2>4
  <2>7. \A i, j \in DOMAIN file[c] : i < j => \A m \in file[c][i].of, n \in file[c][j].of : m < n
      BY <2>2, <2>4
  <2>8. QED
      BY <2>5, <2>6, <2>7
<1>2. QED
    BY <1>1, TalkInvariant, PTL
=============================================================================
