-------------------------- MODULE SandboxGateProofs --------------------------
(***************************************************************************)
(* Theorems about SandboxGate, for any number of processes, proposals,     *)
(* grants, crashes and stale locks; about SandboxPlan, for any paths,      *)
(* configurations, requests and relinked paths; and about GitCommit, for   *)
(* any paths, contents, tasks, terminals and acts of the user.             *)
(*                                                                         *)
(* Inductive says who holds a lock that was never taken over, what such a  *)
(* holder has read, and that a grant nobody has claimed is still at zero.  *)
(* PlanInductive says what a proposal keeps of the moment it was made in,  *)
(* and GitInductive whose the files are that are added, staged and         *)
(* committed. The three modules share no variable.                         *)
(***************************************************************************)
EXTENDS SandboxGate, SandboxPlan, GitCommit, TLAPS

\* The steps between getting a lock and unlinking it.
Section == {"validate", "reread", "consume", "release"}

Step(p) == Managing(p) \/ Claiming(p) \/ Executing(p) \/ Crash(p)

\* A process at work has a proposal, and has read an approval of that one.
Working ==
    \A p \in Procs :
        /\ IF pc[p] = "idle" THEN data[p] = None ELSE mine[p] \in Proposals
        /\ pc[p] = "consume" => data[p] # None
        /\ data[p] # None =>
                data[p].grant \in DOMAIN grantee /\ grantee[data[p].grant] = mine[p]

\* An approval file holds a grant of its own proposal, a dead one never valid.
Bound ==
    \A P \in Proposals : approvals[P] # None =>
        /\ approvals[P].grant \in DOMAIN grantee
        /\ grantee[approvals[P].grant] = P
        /\ Valid(approvals[P]) => approvals[P].grant \notin dead

\* Whoever is in the section of a lock that was never taken over holds it.
Owner ==
    \A p \in Procs : pc[p] \in Section /\ mine[p] \notin overtaken =>
        lock[mine[p]] # None /\ lock[mine[p]].by = p

\* An approval that is not consumed has not been claimed.
Unclaimed ==
    \A P \in Proposals \ overtaken :
        approvals[P] # None /\ ~approvals[P].consumed => claims[approvals[P].grant] = 0

\* What the holder of such a lock reads, and has read, was neither claimed nor
\* dead when it got the lock.
Reading ==
    \A p \in Procs :
        /\ deadAtLock[p] \subseteq dead
        /\ mine[p] \notin overtaken /\ pc[p] = "reread" /\ approvals[mine[p]] # None =>
                ~approvals[mine[p]].consumed /\ approvals[mine[p]].grant \notin deadAtLock[p]
        /\ mine[p] \notin overtaken /\ pc[p] = "consume" =>
                claims[data[p].grant] = 0 /\ data[p].grant \notin deadAtLock[p]

Inductive == TypeOK /\ Working /\ Bound /\ Owner /\ Unclaimed /\ Reading /\ SingleClaim

-----------------------------------------------------------------------------
\* A file that exists is not the absence of one.
LEMMA FilesExist ==
    /\ \A a \in Approval : a # None
    /\ \A l \in LockFile : l # None
<1>1. None \notin Approval /\ None \notin LockFile
    BY GateAssumption
<1>2. QED
    BY <1>1

LEMMA NextSteps == Next <=> (\E p \in Procs : Step(p)) \/ Revoke \/ Expire \/ AgeLock
BY DEF Next, Step

\* Types hold in the initial state and are kept by every step.
LEMMA TypeStep == ASSUME TypeOK, Working, Bound, [Next]_vars PROVE TypeOK'
<1> USE GateAssumption
<1>1. CASE UNCHANGED vars
    BY <1>1 DEF TypeOK, vars, shared, locals, history, claimHistory
<1>2. ASSUME NEW p \in Procs, Managing(p) PROVE TypeOK'
  <2>1. CASE StartPropose(p)
      BY <2>1 DEF TypeOK, StartPropose, Goto, Steps, shared, claimHistory
  <2>2. CASE WriteProposal(p)
      BY <2>2 DEF TypeOK, Working, WriteProposal, Return, Goto, Steps, history, claimHistory
  <2>3. CASE Discard(p)
      BY <2>3 DEF TypeOK, Discard, locals, history, claimHistory
  <2>4. CASE StartApprove(p)
      BY <2>4 DEF TypeOK, StartApprove, Goto, Steps, shared, history, claimHistory
  <2>5. CASE WriteApproval(p)
    <3>1. mine[p] \in Proposals /\ Len(grantee) \in Nat
        BY <2>5 DEF TypeOK, Working, WriteApproval
    <3>2. Fresh \in Approval
        BY <3>1 DEF Fresh, Approval
    <3>3. grantee' \in Seq(Proposals) /\ Len(grantee') = Len(grantee) + 1
            /\ claims' \in Seq(Nat) /\ Len(claims') = Len(claims) + 1
        BY <2>5, <3>1 DEF TypeOK, WriteApproval
    <3>4. DOMAIN grantee \subseteq DOMAIN grantee'
        BY <3>1, <3>3 DEF TypeOK
    <3>5. dead' \subseteq DOMAIN grantee'
        BY <2>5, <3>1, <3>4 DEF TypeOK, WriteApproval, Bound
    <3>6. pending' = pending /\ approvals' \in [Proposals -> Approval \cup {None}] /\ lock' = lock
            /\ records' = records /\ deadAtLock' = deadAtLock /\ overtaken' = overtaken
            /\ used' = used /\ swapped' = swapped /\ returned' = returned /\ env' = env
        BY <2>5, <3>1, <3>2 DEF TypeOK, WriteApproval
    <3>7. pc' \in [Procs -> Steps] /\ mine' \in [Procs -> Proposals \cup {None}]
            /\ data' \in [Procs -> Approval \cup {None}]
        BY <2>5 DEF TypeOK, WriteApproval, Return, Goto, Steps
    <3>8. QED
        BY <3>3, <3>4, <3>5, <3>6, <3>7 DEF TypeOK
  <2>6. QED
      BY <1>2, <2>1, <2>2, <2>3, <2>4, <2>5 DEF Managing
<1>3. ASSUME NEW p \in Procs, Claiming(p) PROVE TypeOK'
  <2>1. CASE TakeLock(p) \/ Relock(p)
    <3>1. [by |-> p, old |-> FALSE] \in LockFile /\ dead \in SUBSET DOMAIN grantee
        BY DEF TypeOK, LockFile
    <3>2. pc[p] # "idle" /\ mine[p] \in Proposals
        BY <2>1 DEF Working, TakeLock, Relock
    <3>3. /\ lock' \in [Proposals -> LockFile \cup {None}]
          /\ pc' \in [Procs -> Steps]
      <4>1. lock' = [lock EXCEPT ![mine[p]] = [by |-> p, old |-> FALSE]]
          BY <2>1 DEF TakeLock, Relock, Enter
      <4>2. lock' \in [Proposals -> LockFile \cup {None}]
          BY <3>1, <3>2, <4>1 DEF TypeOK
      <4>3. pc' \in [Procs -> Steps]
          BY <2>1 DEF TypeOK, TakeLock, Relock, Enter, Goto, Steps
      <4>4. QED
          BY <4>2, <4>3
    <3>4. deadAtLock' = [deadAtLock EXCEPT ![p] = dead]
        BY <2>1 DEF TakeLock, Relock, Enter
    <3>5. deadAtLock' \in [Procs -> SUBSET DOMAIN grantee]
        BY <3>1, <3>4 DEF TypeOK
    <3>6. QED
        BY <2>1, <3>3, <3>5 DEF TypeOK, TakeLock, Relock, Enter
  <2>2. CASE LockBusy(p) \/ RelockFails(p) \/ Validate(p)
      BY <2>2 DEF TypeOK, LockBusy, RelockFails, Validate, Goto, Steps, shared, history, claimHistory
  <2>3. CASE UnlinkStale(p)
      BY <2>3 DEF TypeOK, Working, UnlinkStale, Goto, Steps
  <2>4. CASE Reread(p)
      BY <2>4 DEF TypeOK, Working, Reread, Goto, Steps, shared, history, claimHistory
  <2>5. CASE Consume(p)
    <3>1. mine[p] \in Proposals /\ data[p] \in Approval /\ data[p].grant \in DOMAIN grantee
        BY <2>5 DEF TypeOK, Working, Consume
    <3>2. Consumed(data[p]) \in Approval
        BY <3>1 DEF Consumed, Approval
    <3>3. dead' \subseteq DOMAIN grantee
        BY <2>5, <3>1 DEF TypeOK, Bound, Consume
    <3>4. claims' \in Seq(Nat) /\ Len(claims') = Len(claims)
        BY <2>5, <3>1 DEF TypeOK, Consume
    <3>5. approvals' \in [Proposals -> Approval \cup {None}] /\ pc' \in [Procs -> Steps]
        BY <2>5, <3>1, <3>2 DEF TypeOK, Consume, Goto, Steps
    <3>6. QED
        BY <2>5, <3>3, <3>4, <3>5 DEF TypeOK, Consume
  <2>6. CASE Release(p)
      BY <2>6 DEF TypeOK, Release, Goto, Steps, history, claimHistory
  <2>7. QED
      BY <1>3, <2>1, <2>2, <2>3, <2>4, <2>5, <2>6 DEF Claiming
<1>4. ASSUME NEW p \in Procs, Executing(p) PROVE TypeOK'
  <2>1. CASE LoadPending(p)
      BY <2>1 DEF TypeOK, LoadPending, Goto, Steps, shared, claimHistory
  <2>2. CASE Preflight(p)
      BY <2>2 DEF TypeOK, Preflight, Goto, Steps, shared, claimHistory
  <2>3. CASE PreflightBlocks(p)
      BY <2>3 DEF TypeOK, PreflightBlocks, Return, Goto, Steps, shared, history, claimHistory
  <2>4. CASE Execute(p)
      BY <2>4 DEF TypeOK, Execute, Goto, Steps, shared, history, claimHistory
  <2>5. CASE SaveRecord(p)
      BY <2>5 DEF TypeOK, SaveRecord, Goto, Steps, history, claimHistory
  <2>6. CASE Finish(p)
      BY <2>6 DEF TypeOK, Working, Finish, Cleanup, Return, Goto, Steps, claimHistory
  <2>7. QED
      BY <1>4, <2>1, <2>2, <2>3, <2>4, <2>5, <2>6 DEF Executing
<1>5. ASSUME NEW p \in Procs, Crash(p) PROVE TypeOK'
  <2>1. env' \in [crashes : Nat, aged : Nat]
      BY <1>5 DEF TypeOK, Crash
  <2>2. pc' \in [Procs -> Steps] /\ mine' \in [Procs -> Proposals \cup {None}]
          /\ data' \in [Procs -> Approval \cup {None}]
      BY <1>5 DEF TypeOK, Crash, Return, Goto, Steps
  <2>3. QED
      BY <1>5, <2>1, <2>2 DEF TypeOK, Crash, shared, history, claimHistory
<1>6. CASE Revoke
    BY <1>6 DEF TypeOK, Bound, Revoke, locals
<1>7. CASE Expire
  <2>1. PICK P \in Proposals : /\ approvals[P] # None
                               /\ approvals' = [approvals EXCEPT ![P].expired = TRUE]
                               /\ dead' = dead \cup {approvals[P].grant}
      BY <1>7 DEF Expire
  <2>2. approvals[P] \in Approval /\ approvals[P].grant \in DOMAIN grantee
      BY <2>1 DEF TypeOK, Bound
  <2>3. [approvals[P] EXCEPT !.expired = TRUE] \in Approval
      BY <2>2 DEF Approval
  <2>4. approvals' \in [Proposals -> Approval \cup {None}] /\ dead' \subseteq DOMAIN grantee
      BY <2>1, <2>2, <2>3 DEF TypeOK
  <2>5. QED
      BY <1>7, <2>4 DEF TypeOK, Expire, locals
<1>8. CASE AgeLock
  <2>1. PICK P \in Proposals : lock[P] # None /\ lock' = [lock EXCEPT ![P].old = TRUE]
      BY <1>8 DEF AgeLock
  <2>2. lock[P] \in LockFile /\ lock \in [Proposals -> LockFile \cup {None}]
      BY <2>1 DEF TypeOK
  <2>3. [lock[P] EXCEPT !.old = TRUE] \in LockFile
      BY <2>2 DEF LockFile
  <2>4. lock' = [lock EXCEPT ![P] = [lock[P] EXCEPT !.old = TRUE]]
      BY <2>1
  <2>5. lock' \in [Proposals -> LockFile \cup {None}]
      BY <2>2, <2>3, <2>4
  <2>6. env' = [env EXCEPT !.aged = @ + 1] /\ env \in [crashes : Nat, aged : Nat]
      BY <1>8 DEF TypeOK, AgeLock
  <2>7. QED
      BY <1>8, <2>5, <2>6 DEF TypeOK, AgeLock, locals, history, claimHistory
<1>9. QED
    BY <1>1, <1>2, <1>3, <1>4, <1>5, <1>6, <1>7, <1>8, NextSteps DEF Step

-----------------------------------------------------------------------------
\* The actions of a process that change neither an approval nor a lock, and
\* neither enter nor leave the section of one.
Aside(p) ==
    \/ StartPropose(p) \/ WriteProposal(p) \/ Discard(p) \/ StartApprove(p)
    \/ LoadPending(p) \/ Preflight(p) \/ PreflightBlocks(p)
    \/ LockBusy(p) \/ RelockFails(p) \/ Execute(p) \/ SaveRecord(p) \/ Finish(p) \/ Crash(p)

Changing(p) ==
    \/ WriteApproval(p) \/ TakeLock(p) \/ UnlinkStale(p) \/ Relock(p)
    \/ Validate(p) \/ Reread(p) \/ Consume(p) \/ Release(p)

LEMMA StepKinds == ASSUME NEW p \in Procs PROVE Step(p) <=> Aside(p) \/ Changing(p)
BY DEF Step, Managing, Claiming, Executing, Aside, Changing

\* What the steps of Aside leave as it is.
LEMMA AsideKeeps ==
    ASSUME NEW p \in Procs, Aside(p), TypeOK, Working
    PROVE  /\ UNCHANGED <<approvals, lock, grantee, claimHistory>>
           /\ \A q \in Procs : pc'[q] \in Section => q # p
           /\ \A q \in Procs : q # p => pc'[q] = pc[q] /\ mine'[q] = mine[q] /\ data'[q] = data[q]
           /\ data'[p] \in {data[p], None}
           /\ data'[p] # None => mine'[p] = mine[p]
           /\ IF pc'[p] = "idle" THEN data'[p] = None ELSE mine'[p] \in Proposals
BY DEF Aside, Section, TypeOK, Working, Return, Goto, Steps, shared, locals, history, claimHistory,
       StartPropose, WriteProposal, Discard, StartApprove, LoadPending, Preflight, PreflightBlocks,
       LockBusy, RelockFails, Execute, SaveRecord, Finish, Crash

\* Such steps keep the invariant.
LEMMA AsideStep ==
    ASSUME NEW p \in Procs, Aside(p), Inductive
    PROVE  Working' /\ Bound' /\ Owner' /\ Unclaimed' /\ Reading' /\ SingleClaim'
BY AsideKeeps DEF Inductive, Working, Bound, Owner, Unclaimed, Reading, SingleClaim, Section,
       claimHistory, Valid

\* The steps that write an approval or a lock, or read an approval, keep it.
LEMMA ChangingStep ==
    ASSUME NEW p \in Procs, Changing(p), Inductive
    PROVE  Working' /\ Bound' /\ Owner' /\ Unclaimed' /\ Reading' /\ SingleClaim'
<1> USE DEF Inductive
<1>0. pc[p] # "idle" /\ mine[p] \in Proposals
    BY DEF Changing, Working, WriteApproval, TakeLock, UnlinkStale, Relock, Validate, Reread,
           Consume, Release
<1>1. CASE WriteApproval(p)
  <2>1. Len(grantee) \in Nat /\ DOMAIN grantee = 1..Len(grantee) /\ DOMAIN claims = 1..Len(grantee)
      BY DEF TypeOK
  <2>2. /\ DOMAIN grantee' = 1..Len(grantee) + 1 /\ DOMAIN claims' = 1..Len(grantee) + 1
        /\ grantee'[Len(grantee) + 1] = mine[p] /\ claims'[Len(grantee) + 1] = 0
        /\ \A g \in DOMAIN grantee : grantee'[g] = grantee[g] /\ claims'[g] = claims[g]
      BY <1>0, <1>1, <2>1 DEF TypeOK, WriteApproval
  <2>3. approvals' = [approvals EXCEPT ![mine[p]] = Fresh] /\ Fresh.grant = Len(grantee) + 1
      BY <1>1 DEF WriteApproval, Fresh
  <2>4. UNCHANGED <<lock, deadAtLock, overtaken>> /\ pc' = [pc EXCEPT ![p] = "idle"]
          /\ mine' = [mine EXCEPT ![p] = None] /\ data' = [data EXCEPT ![p] = None]
          /\ dead \subseteq dead' /\ dead \subseteq 1..Len(grantee) /\ dead' \subseteq 1..Len(grantee)
          /\ \A q \in Procs : deadAtLock[q] \subseteq 1..Len(grantee)
      BY <1>0, <1>1, <2>1 DEF TypeOK, Bound, WriteApproval, Return, Goto
  <2>5. Working'
      BY <2>1, <2>2, <2>4 DEF Working, TypeOK
  <2>6. Bound'
    <3>1. SUFFICES ASSUME NEW P \in Proposals, approvals'[P] # None
                   PROVE  /\ approvals'[P].grant \in DOMAIN grantee'
                          /\ grantee'[approvals'[P].grant] = P
                          /\ Valid(approvals'[P]) => approvals'[P].grant \notin dead'
        BY DEF Bound, Valid
    <3>2. CASE P = mine[p]
        BY <3>2, <2>1, <2>2, <2>3, <2>4 DEF TypeOK
    <3>3. CASE P # mine[p]
      <4>1. approvals'[P] = approvals[P] /\ approvals[P].grant \in DOMAIN grantee
              /\ grantee[approvals[P].grant] = P
          BY <3>1, <3>3, <2>3 DEF TypeOK, Bound
      <4>2. approvals[P].grant \in dead' => approvals[P].grant \in dead
          BY <1>0, <1>1, <3>3, <4>1 DEF Bound, WriteApproval
      <4>3. QED
          BY <3>1, <4>1, <4>2, <2>1, <2>2 DEF Bound
    <3>4. QED
        BY <3>2, <3>3
  <2>7. Owner'
      BY <2>4 DEF Owner, Section, TypeOK
  <2>8. Unclaimed'
    <3>1. SUFFICES ASSUME NEW P \in Proposals \ overtaken, approvals'[P] # None, ~approvals'[P].consumed
                   PROVE  claims'[approvals'[P].grant] = 0
        BY <2>4 DEF Unclaimed
    <3>2. CASE P = mine[p]
        BY <3>2, <2>2, <2>3 DEF TypeOK
    <3>3. CASE P # mine[p]
        BY <3>1, <3>3, <2>2, <2>3 DEF TypeOK, Bound, Unclaimed
    <3>4. QED
        BY <3>2, <3>3
  <2>9. Reading'
    <3>1. \A q \in Procs : deadAtLock'[q] \subseteq dead'
        BY <2>4 DEF Reading
    <3>2. ASSUME NEW q \in Procs, mine'[q] \notin overtaken', pc'[q] = "reread", approvals'[mine'[q]] # None
          PROVE  ~approvals'[mine'[q]].consumed /\ approvals'[mine'[q]].grant \notin deadAtLock'[q]
      <4>1. mine'[q] = mine[q] /\ pc[q] = "reread" /\ mine[q] \in Proposals /\ deadAtLock'[q] = deadAtLock[q]
          BY <3>2, <2>4 DEF TypeOK, Working
      <4>2. CASE mine[q] = mine[p]
        <5>1. approvals'[mine'[q]] = Fresh /\ ~Fresh.consumed
            BY <4>1, <4>2, <2>3 DEF TypeOK, Fresh
        <5>2. Len(grantee) + 1 \notin deadAtLock[q]
            BY <2>1, <2>4
        <5>3. QED
            BY <5>1, <5>2, <4>1, <2>3
      <4>3. CASE mine[q] # mine[p]
          BY <3>2, <4>1, <4>3, <2>3, <2>4 DEF TypeOK, Reading
      <4>4. QED
          BY <4>2, <4>3
    <3>3. ASSUME NEW q \in Procs, mine'[q] \notin overtaken', pc'[q] = "consume"
          PROVE  claims'[data'[q].grant] = 0 /\ data'[q].grant \notin deadAtLock'[q]
        BY <3>3, <2>2, <2>4 DEF TypeOK, Working, Reading
    <3>4. QED
        BY <3>1, <3>2, <3>3 DEF Reading
  <2>10. SingleClaim'
      BY <2>1, <2>2, <2>4 DEF TypeOK, SingleClaim
  <2>11. QED
      BY <2>5, <2>6, <2>7, <2>8, <2>9, <2>10
<1>2. CASE TakeLock(p) \/ Relock(p)
  <2>1. /\ lock[mine[p]] = None /\ lock' = [lock EXCEPT ![mine[p]] = [by |-> p, old |-> FALSE]]
        /\ deadAtLock' = [deadAtLock EXCEPT ![p] = dead] /\ pc' = [pc EXCEPT ![p] = "validate"]
        /\ UNCHANGED <<approvals, mine, data, grantee, claims, dead, overtaken>>
      BY <1>2 DEF TakeLock, Relock, Enter, Goto
  <2>2. Working' /\ Bound' /\ Unclaimed' /\ SingleClaim'
      BY <1>0, <2>1 DEF Working, Bound, Unclaimed, SingleClaim, TypeOK, Valid
  <2>3. Owner'
    <3>1. SUFFICES ASSUME NEW q \in Procs, pc'[q] \in Section, mine[q] \notin overtaken
                   PROVE  lock'[mine[q]] # None /\ lock'[mine[q]].by = q
        BY <2>1 DEF Owner
    <3>2. CASE q = p
      <4>1. lock'[mine[q]] = [by |-> p, old |-> FALSE] /\ [by |-> p, old |-> FALSE] \in LockFile
          BY <1>0, <2>1, <3>2 DEF TypeOK, LockFile
      <4>2. lock'[mine[q]] # None
          BY <4>1, FilesExist
      <4>3. QED
          BY <3>2, <4>1, <4>2
    <3>3. CASE q # p
        BY <2>1, <3>1, <3>3 DEF TypeOK, Owner
    <3>4. QED
        BY <3>2, <3>3
  <2>4. Reading'
      BY <2>1 DEF Reading, TypeOK
  <2>5. QED
      BY <2>2, <2>3, <2>4
<1>3. CASE UnlinkStale(p)
    BY <1>0, <1>3 DEF Working, Bound, Owner, Unclaimed, Reading, SingleClaim, UnlinkStale, Goto,
                      Section, TypeOK, Steps, Valid
<1>4. CASE Validate(p)
    BY <1>0, <1>4 DEF Working, Bound, Owner, Unclaimed, Reading, SingleClaim, Validate, Claimable,
                      Goto, Section, TypeOK, Steps, Valid, shared, history, claimHistory
<1>5. CASE Reread(p)
    BY <1>0, <1>5 DEF Working, Bound, Owner, Unclaimed, Reading, SingleClaim, Reread,
                      Goto, Section, TypeOK, Steps, Valid, shared, history, claimHistory
<1>6. CASE Consume(p)
  <2> DEFINE g == data[p].grant
  <2>1. /\ pc[p] = "consume" /\ data[p] \in Approval /\ g \in DOMAIN grantee /\ grantee[g] = mine[p]
      BY <1>6 DEF Consume, TypeOK, Working
  <2>2. /\ approvals' = [approvals EXCEPT ![mine[p]] = Consumed(data[p])]
        /\ Consumed(data[p]).grant = g /\ Consumed(data[p]).consumed /\ ~Valid(Consumed(data[p]))
        /\ claims' = [claims EXCEPT ![g] = @ + 1] /\ pc' = [pc EXCEPT ![p] = "release"]
        /\ UNCHANGED <<lock, mine, data, grantee, deadAtLock, overtaken>>
      BY <1>6, <2>1 DEF Consume, Goto, Consumed, Approval, Valid
  <2>3. /\ dead \subseteq dead'
        /\ \A h \in DOMAIN grantee : h \in dead' /\ grantee[h] # mine[p] => h \in dead
      BY <1>0, <1>6, <2>1 DEF Consume, Bound
  <2>4. \A q \in Procs : q # p /\ pc[q] \in Section /\ mine[q] \notin overtaken => mine[q] # mine[p]
      BY <2>1 DEF Owner, Section
  <2>5. Working'
      BY <2>1, <2>2 DEF Working, TypeOK
  <2>6. Bound'
      BY <1>0, <2>1, <2>2, <2>3 DEF Bound, TypeOK, Valid
  <2>7. Owner'
      BY <2>1, <2>2 DEF Owner, Section, TypeOK
  <2>8. Unclaimed'
      BY <1>0, <2>1, <2>2 DEF Unclaimed, Bound, TypeOK
  <2>9. Reading'
    <3>1. ASSUME NEW q \in Procs, mine[q] \notin overtaken, pc'[q] = "reread", approvals'[mine[q]] # None
          PROVE  ~approvals'[mine[q]].consumed /\ approvals'[mine[q]].grant \notin deadAtLock[q]
      <4>1. q # p /\ pc[q] = "reread" /\ mine[q] # mine[p] /\ mine[q] \in Proposals
          BY <2>2, <2>4, <3>1 DEF TypeOK, Section, Working
      <4>2. QED
          BY <2>2, <3>1, <4>1 DEF TypeOK, Reading
    <3>2. ASSUME NEW q \in Procs, mine[q] \notin overtaken, pc'[q] = "consume"
          PROVE  claims'[data[q].grant] = 0 /\ data[q].grant \notin deadAtLock[q]
      <4>1. q # p /\ pc[q] = "consume" /\ mine[q] # mine[p] /\ data[q].grant \in DOMAIN grantee
              /\ data[q].grant # g
          BY <2>1, <2>2, <2>4, <3>2 DEF TypeOK, Section, Working
      <4>2. QED
          BY <2>2, <3>2, <4>1 DEF TypeOK, Reading
    <3>3. QED
        BY <2>2, <2>3, <3>1, <3>2 DEF Reading
  <2>10. SingleClaim'
    <3>1. mine[p] \notin overtaken => claims[g] = 0
        BY <2>1 DEF Reading
    <3>2. QED
        BY <2>1, <2>2, <3>1 DEF SingleClaim, TypeOK
  <2>11. QED
      BY <2>5, <2>6, <2>7, <2>8, <2>9, <2>10
<1>7. CASE Release(p)
    BY <1>0, <1>7 DEF Working, Bound, Owner, Unclaimed, Reading, SingleClaim, Release,
                      Goto, Section, TypeOK, Steps, Valid, history, claimHistory
<1>8. QED
    BY <1>1, <1>2, <1>3, <1>4, <1>5, <1>6, <1>7 DEF Changing

\* So do a revocation, an expiry and the ageing of a lock.
LEMMA OutsideStep ==
    ASSUME Revoke \/ Expire \/ AgeLock, Inductive
    PROVE  Working' /\ Bound' /\ Owner' /\ Unclaimed' /\ Reading' /\ SingleClaim'
<1> USE DEF Inductive
<1>1. CASE Revoke
    BY <1>1 DEF Revoke, TypeOK, Working, Bound, Owner, Unclaimed, Reading, SingleClaim, Valid, locals
<1>2. CASE Expire
  <2>1. PICK P \in Proposals : /\ approvals[P] # None
                               /\ approvals' = [approvals EXCEPT ![P].expired = TRUE]
                               /\ dead' = dead \cup {approvals[P].grant}
      BY <1>2 DEF Expire
  <2>2. UNCHANGED <<lock, locals, grantee, claims, deadAtLock, overtaken>>
      BY <1>2 DEF Expire
  <2>3. /\ approvals[P] \in Approval
        /\ approvals'[P] = [approvals[P] EXCEPT !.expired = TRUE]
        /\ \A Q \in Proposals : Q # P => approvals'[Q] = approvals[Q]
      BY <2>1 DEF TypeOK
  <2>4. /\ approvals'[P].grant = approvals[P].grant /\ approvals'[P].consumed = approvals[P].consumed
        /\ approvals'[P].expired
      BY <2>3 DEF Approval
  <2>5. Working' /\ Owner' /\ SingleClaim'
      BY <2>2 DEF Working, Owner, SingleClaim, locals
  <2>6. Bound'
      BY <2>1, <2>2, <2>3, <2>4 DEF Bound, Valid, TypeOK
  <2>7. Unclaimed' /\ Reading'
      BY <2>1, <2>2, <2>3, <2>4 DEF Unclaimed, Reading, Working, TypeOK, locals
  <2>8. QED
      BY <2>5, <2>6, <2>7
<1>3. CASE AgeLock
  <2>1. PICK P \in Proposals : lock[P] # None /\ lock' = [lock EXCEPT ![P].old = TRUE]
      BY <1>3 DEF AgeLock
  <2>2. UNCHANGED <<approvals, locals, grantee, claims, dead, deadAtLock, overtaken>>
      BY <1>3 DEF AgeLock, history, claimHistory
  <2>3. lock'[P] = [lock[P] EXCEPT !.old = TRUE] /\ lock[P] \in LockFile
          /\ \A Q \in Proposals : Q # P => lock'[Q] = lock[Q]
      BY <2>1 DEF TypeOK
  <2>4. lock'[P].by = lock[P].by /\ lock'[P] # None
    <3>1. lock'[P].by = lock[P].by /\ lock'[P] \in LockFile
        BY <2>3 DEF LockFile
    <3>2. QED
        BY <3>1, FilesExist
  <2>5. Owner'
    <3>1. SUFFICES ASSUME NEW q \in Procs, pc[q] \in Section, mine[q] \notin overtaken
                   PROVE  lock'[mine[q]] # None /\ lock'[mine[q]].by = q
        BY <2>2 DEF Owner, locals
    <3>2. mine[q] \in Proposals /\ lock[mine[q]] # None /\ lock[mine[q]].by = q
        BY <3>1 DEF Owner, Working, Section
    <3>3. CASE mine[q] = P
        BY <3>2, <3>3, <2>4
    <3>4. CASE mine[q] # P
        BY <3>2, <3>4, <2>3
    <3>5. QED
        BY <3>3, <3>4
  <2>6. Working' /\ Bound' /\ Unclaimed' /\ Reading' /\ SingleClaim'
      BY <2>2 DEF Working, Bound, Unclaimed, Reading, SingleClaim, Valid, locals
  <2>7. QED
      BY <2>5, <2>6
<1>4. QED
    BY <1>1, <1>2, <1>3

LEMMA InitHolds == Init => Inductive
BY GateAssumption DEF Init, Inductive, TypeOK, Steps, Working, Bound, Owner, Unclaimed, Reading,
                      SingleClaim, Section

LEMMA StepHolds == Inductive /\ [Next]_vars => Inductive'
<1> SUFFICES ASSUME Inductive, [Next]_vars PROVE Inductive'
    OBVIOUS
<1>1. TypeOK'
    BY TypeStep DEF Inductive
<1>2. CASE UNCHANGED vars
    BY <1>1, <1>2 DEF Inductive, vars, shared, locals, history, claimHistory, Working, Bound, Owner,
                      Unclaimed, Reading, SingleClaim, Valid
<1>3. CASE Next
    BY <1>1, <1>3, NextSteps, StepKinds, AsideStep, ChangingStep, OutsideStep DEF Inductive
<1>4. QED
    BY <1>2, <1>3

\* The inductive invariant holds of every behaviour.
THEOREM InductiveInvariant == Spec => []Inductive
BY InitHolds, StepHolds, PTL DEF Spec

\* Type correctness.
THEOREM GateTypes == Spec => []TypeOK
<1>1. Inductive => TypeOK
    BY DEF Inductive
<1>2. QED
    BY <1>1, InductiveInvariant, PTL

\* claim_for_execution gives an approval to one claim only, for any number of
\* processes, approvals, revocations and crashes, as long as nobody takes over
\* the lock of its proposal.
THEOREM ClaimedOnce == Spec => []SingleClaim
<1>1. Inductive => SingleClaim
    BY DEF Inductive
<1>2. QED
    BY <1>1, InductiveInvariant, PTL

\* An approval that was consumed, revoked, replaced or expired when a claim got
\* the lock is never the one that claim consumes.
THEOREM DeadGrantsStayDead == Spec => []NoClaimOfDead
<1>1. Inductive => NoClaimOfDead
    BY DEF Inductive, Reading, NoClaimOfDead
<1>2. QED
    BY <1>1, InductiveInvariant, PTL

-----------------------------------------------------------------------------
(* What runs has passed the preflight, and what has returned is settled. *)

Passed == {"checked", "stale", "relock", "validate", "reread", "consume", "release", "granted", "ran"}

Covered == \A p \in Procs : pc[p] \in Passed => mine[p] \notin Refused \/ p \in swapped

\* A proposal being written is new to everybody; a recorded one has a record.
Settled ==
    /\ pending \in used \cup {None}
    /\ returned \subseteq used
    /\ \A p \in Procs :
        /\ mine[p] \in used \cup {None}
        /\ pc[p] = "propose" =>
            /\ mine[p] # pending /\ mine[p] \notin returned
            /\ \A q \in Procs : q # p => mine[q] # mine[p]
        /\ pc[p] = "recorded" => records[mine[p]] # "none"
    /\ ReturnedIsSettled

\* The claim moves processes, and the history of claims, only.
LEMMA ClaimMoves ==
    ASSUME NEW p \in Procs, Claiming(p), TypeOK
    PROVE  /\ UNCHANGED <<pending, records, mine, used, swapped, returned>>
           /\ \A q \in Procs : q # p => pc'[q] = pc[q]
           /\ pc'[p] \notin {"propose", "recorded"}
           /\ pc[p] \in Passed
BY DEF Claiming, TakeLock, LockBusy, UnlinkStale, Relock, RelockFails, Enter, Validate, Reread,
       Consume, Release, Goto, Passed, TypeOK, shared, history, claimHistory

LEMMA CoveredStep == ASSUME Inductive, Covered, [Next]_vars PROVE Covered'
<1> USE DEF Inductive
<1>1. CASE UNCHANGED vars
    BY <1>1 DEF Covered, vars, locals, history
<1>2. ASSUME NEW p \in Procs, Managing(p) PROVE Covered'
    BY <1>2 DEF Managing, StartPropose, WriteProposal, Discard, StartApprove, WriteApproval, Return,
                Goto, Covered, Passed, TypeOK, locals, history
<1>3. ASSUME NEW p \in Procs, Claiming(p) PROVE Covered'
    BY <1>3, ClaimMoves DEF Covered
<1>4. ASSUME NEW p \in Procs, Executing(p) PROVE Covered'
  <2>1. CASE Preflight(p)
      BY <2>1 DEF Preflight, Passes, Goto, Covered, Passed, TypeOK
  <2>2. CASE LoadPending(p) \/ PreflightBlocks(p) \/ Execute(p) \/ SaveRecord(p) \/ Finish(p)
      BY <2>2 DEF LoadPending, PreflightBlocks, Execute, SaveRecord, Finish, Return, Goto, Covered,
                  Passed, TypeOK, history
  <2>3. QED
      BY <1>4, <2>1, <2>2 DEF Executing
<1>5. ASSUME NEW p \in Procs, Crash(p) PROVE Covered'
    BY <1>5 DEF Crash, Return, Goto, Covered, Passed, TypeOK, history
<1>6. CASE Revoke \/ Expire \/ AgeLock
    BY <1>6 DEF Revoke, Expire, AgeLock, Covered, locals, history
<1>7. QED
    BY <1>1, <1>2, <1>3, <1>4, <1>5, <1>6, NextSteps DEF Step

LEMMA SettledStep == ASSUME Inductive, Settled, [Next]_vars PROVE Settled'
<1> USE GateAssumption DEF Inductive, ReturnedIsSettled
<1>1. CASE UNCHANGED vars
    BY <1>1 DEF Settled, vars, shared, locals, history
<1>2. ASSUME NEW p \in Procs, Managing(p) PROVE Settled'
  <2>1. CASE StartPropose(p)
    <3>1. PICK P \in Proposals \ used : used' = used \cup {P} /\ mine' = [mine EXCEPT ![p] = P]
        BY <2>1 DEF StartPropose
    <3>2. pc' = [pc EXCEPT ![p] = "propose"] /\ UNCHANGED <<pending, records, returned>>
        BY <2>1 DEF StartPropose, Goto, shared
    <3>3. QED
        BY <3>1, <3>2 DEF Settled, TypeOK
  <2>2. CASE WriteProposal(p)
      BY <2>2 DEF WriteProposal, Return, Goto, Settled, Working, TypeOK, history
  <2>3. CASE Discard(p)
      BY <2>3 DEF Discard, Settled, Working, TypeOK, locals, history
  <2>4. CASE StartApprove(p)
      BY <2>4 DEF StartApprove, Goto, Settled, TypeOK, shared, history
  <2>5. CASE WriteApproval(p)
      BY <2>5 DEF WriteApproval, Return, Goto, Settled, Working, TypeOK
  <2>6. QED
      BY <1>2, <2>1, <2>2, <2>3, <2>4, <2>5 DEF Managing
<1>3. ASSUME NEW p \in Procs, Claiming(p) PROVE Settled'
    BY <1>3, ClaimMoves DEF Settled
<1>4. ASSUME NEW p \in Procs, Executing(p) PROVE Settled'
  <2>1. CASE LoadPending(p)
      BY <2>1 DEF LoadPending, Goto, Settled, TypeOK, shared
  <2>2. CASE Preflight(p) \/ Execute(p)
      BY <2>2 DEF Preflight, Execute, Goto, Settled, TypeOK, shared, history
  <2>3. CASE PreflightBlocks(p)
      BY <2>3 DEF PreflightBlocks, Return, Goto, Settled, Working, TypeOK, shared, history
  <2>4. CASE SaveRecord(p)
      BY <2>4 DEF SaveRecord, Goto, Settled, Working, TypeOK, history
  <2>5. CASE Finish(p)
      BY <2>5 DEF Finish, Cleanup, Return, Goto, Settled, Working, TypeOK
  <2>6. QED
      BY <1>4, <2>1, <2>2, <2>3, <2>4, <2>5 DEF Executing
<1>5. ASSUME NEW p \in Procs, Crash(p) PROVE Settled'
    BY <1>5 DEF Crash, Return, Goto, Settled, Working, TypeOK, shared, history
<1>6. CASE Revoke \/ Expire \/ AgeLock
    BY <1>6 DEF Revoke, Expire, AgeLock, Settled, locals, history
<1>7. QED
    BY <1>1, <1>2, <1>3, <1>4, <1>5, <1>6, NextSteps DEF Step

\* What is executed has passed the preflight, unless the pending proposal was
\* another one by the time execute_pending ran the preflight.
THEOREM ExecutedWasChecked == Spec => []PreflightCovers
<1>1. Init => Covered
    BY DEF Init, Covered, Passed
<1>2. Inductive /\ Covered /\ [Next]_vars => Covered'
    BY CoveredStep
<1>3. Covered => PreflightCovers
    BY DEF Covered, Passed, PreflightCovers
<1>4. QED
    BY <1>1, <1>2, <1>3, InductiveInvariant, PTL DEF Spec

\* After an attempt has returned, its proposal has a result record and is never
\* pending again.
THEOREM AttemptsAreSettled == Spec => []ReturnedIsSettled
<1>1. Init => Settled
    BY DEF Init, Settled, ReturnedIsSettled
<1>2. Inductive /\ Settled /\ [Next]_vars => Settled'
    BY SettledStep
<1>3. Settled => ReturnedIsSettled
    BY DEF Settled
<1>4. QED
    BY <1>1, <1>2, <1>3, InductiveInvariant, PTL DEF Spec

-----------------------------------------------------------------------------
(* SandboxPlan: what a proposal keeps of the moment it was made in, and    *)
(* what an execution knows of it at each of its steps.                     *)

\* The text for a backend as it comes out with links l and system directories d.
KeptBy(c, request, l) == {q \in {l[x] : x \in request.writable} : Admits(c, q)}

GrantedBy(b, c, request, l) ==
    IF request.readonly THEN {}
    ELSE {q \in KeptBy(c, request, l) \cap Project : q \notin Secret \cup Unmountable[b]}

TextBy(b, c, request, l, d) ==
    CASE b = "macos_seatbelt" ->
            [network |-> request.network,
             writes |-> GrantedBy(b, c, request, l),
             reads |-> IF request.readonly THEN KeptBy(c, request, l)
                       ELSE GrantedBy(b, c, request, l),
             denied |-> [names |-> c.sensitive \cup Secret, readonly |-> request.readonly]]
      [] b = "linux_bubblewrap" ->
            [network |-> request.network, writes |-> GrantedBy(b, c, request, l), directories |-> d]
      [] b = "docker" ->
            [network |-> request.network, writes |-> GrantedBy(b, c, request, l),
             readonly |-> request.readonly]
      [] OTHER -> Nil

\* What a path resolves to is no link.
Canonical(l) == l \in [Places -> Places] /\ \A q \in Places : l[l[q]] = l[q]

\* A proposal has the text of its request under the circumstances it was made in,
\* and of the request the paths that were granted.
Reviewed(o) ==
    /\ Canonical(o.at.links)
    /\ o.request.writable \subseteq Places
    /\ o.proposal.network = o.request.network /\ o.proposal.readonly = o.request.readonly
    /\ o.proposal.backend \in Confining =>
         /\ o.proposal.writable = GrantedBy(o.proposal.backend, o.at.config, o.request, o.at.links)
         /\ o.proposal.preview = TextBy(o.proposal.backend, o.at.config, o.request, o.at.links,
                                        o.at.directories)

\* The execution has such a proposal, and one whose network the configuration has
\* if it is the one the preflight looked at.
Running ==
    /\ run = [step |-> run.step, config |-> run.config, offer |-> run.offer, swapped |-> run.swapped]
    /\ run.step # "idle" => Reviewed(run.offer)
    /\ run.step \in {"checked", "claimed"} =>
            run.swapped \/ (run.offer.proposal.network => run.config.network)

PlanInductive == Canonical(links) /\ (offered # Nil => Reviewed(offered)) /\ Running /\ RunsAsReviewed

LEMMA GrantedNow ==
    \A b, c, request : /\ Kept(c, request) = KeptBy(c, request, links)
                       /\ Granted(b, c, request) = GrantedBy(b, c, request, links)
BY DEF Granted, GrantedBy, Kept, KeptBy, Resolved

LEMMA TextNow ==
    ASSUME NEW b, NEW c, NEW request
    PROVE  Text(b, c, request) = TextBy(b, c, request, links, host.directories)
<1>1. CASE b = "macos_seatbelt"
    BY <1>1, GrantedNow DEF Text, TextBy, Profile
<1>2. CASE b = "linux_bubblewrap"
    BY <1>2, GrantedNow DEF Text, TextBy, Arguments
<1>3. CASE b = "docker"
    BY <1>3, GrantedNow DEF Text, TextBy, Container
<1>4. CASE b \notin {"macos_seatbelt", "linux_bubblewrap", "docker"}
    BY <1>4 DEF Text, TextBy
<1>5. QED
    BY <1>1, <1>2, <1>3, <1>4

\* The paths that were granted are granted again where nothing has changed.
LEMMA GrantedAgain ==
    ASSUME NEW b, NEW c, NEW request, NEW proposal, NEW l, Canonical(l), request.writable \subseteq Places,
           proposal.readonly = request.readonly, proposal.writable = GrantedBy(b, c, request, l)
    PROVE  GrantedBy(b, c, proposal, l) = GrantedBy(b, c, request, l)
<1>1. CASE request.readonly
    BY <1>1 DEF GrantedBy
<1>2. CASE ~ request.readonly
  <2>1. \A q \in GrantedBy(b, c, request, l) :
            l[q] = q /\ Admits(c, q) /\ q \in Project /\ q \notin Secret \cup Unmountable[b]
      BY <1>2 DEF GrantedBy, KeptBy, Canonical
  <2>2. {l[x] : x \in proposal.writable} = GrantedBy(b, c, request, l)
      BY <2>1
  <2>3. KeptBy(c, proposal, l) = GrantedBy(b, c, request, l)
      BY <2>1, <2>2 DEF KeptBy
  <2>4. ~ proposal.readonly
      BY <1>2
  <2>5. GrantedBy(b, c, proposal, l) =
            {q \in GrantedBy(b, c, request, l) \cap Project : q \notin Secret \cup Unmountable[b]}
      BY <2>3, <2>4 DEF GrantedBy
  <2>6. QED
      BY <2>1, <2>5
<1>3. QED
    BY <1>1, <1>2

\* So is the whole text, but for what a read-only profile may read.
LEMMA TextAgain ==
    ASSUME NEW o, Reviewed(o), o.proposal.backend \in Confining, ~ ForgetsReads(o)
    PROVE  TextBy(o.proposal.backend, o.at.config, o.proposal, o.at.links, o.at.directories)
               = o.proposal.preview
<1> DEFINE b == o.proposal.backend
           c == o.at.config
           l == o.at.links
<1>1. GrantedBy(b, c, o.proposal, l) = GrantedBy(b, c, o.request, l)
    BY GrantedAgain DEF Reviewed
<1>2. b \in {"macos_seatbelt", "linux_bubblewrap", "docker"}
    BY DEF Confining, Backends
<1>3. o.proposal.network = o.request.network /\ o.proposal.readonly = o.request.readonly
    BY DEF Reviewed
<1>4. b = "macos_seatbelt" /\ o.request.readonly => KeptBy(c, o.proposal, l) = KeptBy(c, o.request, l)
  <2>1. SUFFICES ASSUME b = "macos_seatbelt", o.request.readonly
                 PROVE  KeptBy(c, o.proposal, l) = KeptBy(c, o.request, l)
      OBVIOUS
  <2>2. o.request.writable = {}
      BY <2>1 DEF ForgetsReads
  <2>3. o.proposal.writable = {}
      BY <2>1 DEF Reviewed, GrantedBy
  <2>4. QED
      BY <2>2, <2>3 DEF KeptBy
<1>5. TextBy(b, c, o.proposal, l, o.at.directories) = TextBy(b, c, o.request, l, o.at.directories)
    BY <1>1, <1>2, <1>3, <1>4 DEF TextBy
<1>6. QED
    BY <1>5 DEF Reviewed

-----------------------------------------------------------------------------
(* What an execution leaves *)

\* The text of a run is within the configuration it was made under.
LEMMA TextsAreWithin ==
    ASSUME NEW b \in Confining, NEW c, NEW proposal
    PROVE  /\ Within(Text(b, c, proposal), c, proposal)
           /\ Text(b, c, proposal).network = proposal.network
<1>1. b \in {"macos_seatbelt", "linux_bubblewrap", "docker"}
    BY DEF Confining, Backends
<1>2. /\ Text(b, c, proposal).writes = Granted(b, c, proposal)
      /\ Text(b, c, proposal).network = proposal.network
    BY <1>1 DEF Text, Profile, Arguments, Container
<1>3. /\ Granted(b, c, proposal) \subseteq Project \ (c.sensitive \cup Secret)
      /\ proposal.readonly => Granted(b, c, proposal) = {}
    BY DEF Granted, Kept, Admits
<1>4. QED
    BY <1>2, <1>3 DEF Within

LEMMA AttemptOutcome ==
    ASSUME PlanInductive, NEW b \in Confining, Executes(b),
           \/ Rebuilt(b) # run.offer.proposal.preview /\ Settles("mismatch", Rebuilt(b))
           \/ /\ Rebuilt(b) = run.offer.proposal.preview
              /\ \E how \in {"ran", "timeout", "failed"} : Settles(how, Rebuilt(b))
           \/ Settles("no_tool", Nil)
    PROVE  RunsAsReviewed'
<1>1. /\ run.step = "claimed" /\ run.offer.proposal.backend = b /\ Reviewed(run.offer)
      /\ run.swapped \/ (run.offer.proposal.network => run.config.network)
    BY DEF PlanInductive, Running, Executes
<1> DEFINE text == Text(b, run.config, run.offer.proposal)
<1>2. Within(text, run.config, run.offer.proposal) /\ text.network = run.offer.proposal.network
    BY TextsAreWithin
<1>3. CASE Rebuilt(b) # run.offer.proposal.preview /\ Settles("mismatch", Rebuilt(b))
  <2>1. ASSUME Circumstances(run.config) = run.offer.at, ~ ForgetsReads(run.offer) PROVE FALSE
    <3>1. /\ run.offer.at.config = run.config /\ run.offer.at.links = links
          /\ run.offer.at.directories = host.directories
        BY <2>1 DEF Circumstances
    <3>2. TextBy(b, run.config, run.offer.proposal, links, host.directories)
              = run.offer.proposal.preview
        BY <1>1, <2>1, <3>1, TextAgain
    <3>3. QED
        BY <1>3, <3>2, TextNow DEF Rebuilt
  <2>2. /\ outcome'.how = "mismatch" /\ outcome'.now = Circumstances(run.config)
        /\ outcome'.offer = run.offer
      BY <1>3 DEF Settles
  <2>3. QED
      BY <2>1, <2>2 DEF RunsAsReviewed, ForgetsReads
<1>4. CASE /\ Rebuilt(b) = run.offer.proposal.preview
           /\ \E how \in {"ran", "timeout", "failed"} : Settles(how, Rebuilt(b))
  <2>1. /\ outcome'.how \in {"ran", "timeout", "failed"} /\ outcome'.text = text
        /\ outcome'.offer = run.offer /\ outcome'.config = run.config /\ outcome'.swapped = run.swapped
      BY <1>4 DEF Settles, Rebuilt
  <2>2. text = run.offer.proposal.preview
      BY <1>4 DEF Rebuilt
  <2>3. Within(outcome'.text, outcome'.config, outcome'.offer.proposal)
      BY <1>2, <2>1
  <2>4. outcome'.text.network => outcome'.config.network \/ outcome'.swapped
      BY <1>1, <1>2, <2>1
  <2>5. QED
      BY <2>1, <2>2, <2>3, <2>4 DEF RunsAsReviewed
<1>5. CASE Settles("no_tool", Nil)
  <2>1. outcome'.how = "no_tool"
      BY <1>5 DEF Settles
  <2>2. QED
      BY <2>1 DEF RunsAsReviewed
<1>6. QED
    BY <1>3, <1>4, <1>5

-----------------------------------------------------------------------------
(* Proofs about SandboxPlan *)

\* A link is made to a directory, and nothing leads to a link.
LEMMA LinkedStep ==
    ASSUME Canonical(links), PlanNext \/ UNCHANGED planVars
    PROVE  Canonical(links')
<1>1. CASE Relink
  <2>1. PICK pair \in Relinks :
          /\ pair[1] # pair[2] /\ links[pair[2]] = pair[2]
          /\ links' = [q \in Places |-> IF pair[1] \in {q, links[q]} THEN pair[2] ELSE links[q]]
      BY <1>1 DEF Relink
  <2>2. pair[1] \in Places /\ pair[2] \in Places
      BY <2>1, PlanAssumption
  <2>3. links'[pair[2]] = pair[2]
      BY <2>1, <2>2
  <2>4. ASSUME NEW q \in Places, pair[1] \notin {q, links[q]}
        PROVE  links'[q] = links[q] /\ links'[links[q]] = links[q]
    <3>1. links[q] \in Places /\ links[links[q]] = links[q]
        BY DEF Canonical
    <3>2. QED
        BY <2>1, <2>4, <3>1
  <2>5. links' \in [Places -> Places]
      BY <2>1, <2>2 DEF Canonical
  <2>6. \A q \in Places : links'[links'[q]] = links'[q]
      BY <2>1, <2>3, <2>4
  <2>7. QED
      BY <2>5, <2>6 DEF Canonical
<1>2. CASE UNCHANGED links
    BY <1>2
<1>3. Relink \/ UNCHANGED links
    BY DEF PlanNext, planVars, Offer, Withdraw, Consent, PreflightExecutor, LoadOffer, CheckOffer,
           ClaimOffer, ExecuteBubblewrap, ExecuteSeatbelt, ExecuteDocker, ExecuteHere, Attempt,
           ChangeSettings, ChangeHost, LoseConsent, Moves
<1>4. QED
    BY <1>1, <1>2, <1>3

LEMMA OfferIsReviewed ==
    ASSUME Canonical(links), Offer
    PROVE  Reviewed(offered')
<1>1. PICK writable \in Requests, readonly \in BOOLEAN, asked \in BOOLEAN :
        LET request == [writable |-> writable, readonly |-> readonly,
                        network |-> asked /\ settings.network]
        IN  offered' = [proposal |-> Proposal(Recommended, settings, request),
                        request |-> request, at |-> Circumstances(settings)]
    BY DEF Offer
<1> DEFINE request == [writable |-> writable, readonly |-> readonly,
                       network |-> asked /\ settings.network]
           b == Recommended
<1>2. /\ offered'.proposal = Proposal(b, settings, request)
      /\ offered'.request = request /\ offered'.at = Circumstances(settings)
    BY <1>1
<1>3. /\ offered'.at.links = links /\ offered'.at.config = settings
      /\ offered'.at.directories = host.directories
    BY <1>2 DEF Circumstances
<1>4. /\ offered'.proposal.backend = b
      /\ offered'.proposal.network = request.network /\ offered'.proposal.readonly = request.readonly
      /\ offered'.proposal.preview = Text(b, settings, request)
      /\ b # "none" => offered'.proposal.writable = Granted(b, settings, request)
    BY <1>2 DEF Proposal
<1>5. Canonical(links) /\ request.writable \subseteq Places
    BY PlanAssumption
<1>6. b \in Confining => b # "none"
    BY DEF Confining
<1>7. /\ Text(b, settings, request) = TextBy(b, settings, request, links, host.directories)
      /\ Granted(b, settings, request) = GrantedBy(b, settings, request, links)
    BY TextNow, GrantedNow
<1> HIDE DEF request, b
<1>8. QED
    BY <1>2, <1>3, <1>4, <1>5, <1>6, <1>7 DEF Reviewed

\* An execution ends, with an outcome, where it attempts to run.
LEMMA PlanSettledStep ==
    ASSUME PlanInductive, NEW how, NEW text, Settles(how, text), RunsAsReviewed',
           Canonical(links')
    PROVE  PlanInductive'
<1>1. offered' = Nil /\ run' = NotRunning
    BY DEF Settles
<1>2. Running'
    BY <1>1 DEF Running, NotRunning
<1>3. QED
    BY <1>1, <1>2 DEF PlanInductive

LEMMA PlanStep ==
    ASSUME PlanInductive, PlanNext \/ UNCHANGED planVars
    PROVE  PlanInductive'
<1>1. Canonical(links) /\ Canonical(links') /\ Running /\ RunsAsReviewed /\ (offered # Nil => Reviewed(offered))
    BY LinkedStep DEF PlanInductive
<1>2. ASSUME UNCHANGED run, UNCHANGED outcome \/ outcome' = Nil,
             UNCHANGED offered \/ offered' = Nil \/ Reviewed(offered')
      PROVE  PlanInductive'
  <2>1. Running'
      BY <1>1, <1>2 DEF Running, Reviewed
  <2>2. offered' # Nil => Reviewed(offered')
      BY <1>1, <1>2
  <2>3. RunsAsReviewed'
      BY <1>1, <1>2 DEF RunsAsReviewed, Within, ForgetsReads
  <2>4. QED
      BY <1>1, <2>1, <2>2, <2>3 DEF PlanInductive, Reviewed
<1>3. CASE Offer
    BY <1>1, <1>2, <1>3, OfferIsReviewed DEF Offer
<1>4. CASE Withdraw \/ Consent \/ PreflightExecutor
    BY <1>2, <1>4 DEF Withdraw, Consent, PreflightExecutor
<1>5. CASE LoadOffer
  <2>1. /\ run' = [step |-> "loaded", config |-> settings, offer |-> offered, swapped |-> FALSE]
        /\ offered # Nil /\ UNCHANGED offered /\ outcome' = Nil
      BY <1>5 DEF LoadOffer
  <2>2. Reviewed(run'.offer)
      BY <1>1, <2>1
  <2>3. Running'
      BY <2>1, <2>2 DEF Running, Reviewed
  <2>4. RunsAsReviewed'
      BY <2>1 DEF RunsAsReviewed
  <2>5. QED
      BY <1>1, <2>1, <2>3, <2>4 DEF PlanInductive
<1>6. CASE CheckOffer
  <2>1. run.step = "loaded" /\ UNCHANGED <<offered, outcome>>
      BY <1>6 DEF CheckOffer
  <2>2. CASE run' = NotRunning
    <3>1. Running'
        BY <2>2 DEF Running, NotRunning
    <3>2. QED
        BY <1>1, <2>1, <3>1 DEF PlanInductive, RunsAsReviewed
  <2>3. CASE /\ Checked(run.config, offered.proposal)
             /\ run' = [run EXCEPT !.step = "checked", !.swapped = offered # run.offer]
    <3>1. /\ run' = [step |-> "checked", config |-> run.config, offer |-> run.offer,
                     swapped |-> offered # run.offer]
        BY <1>1, <2>3 DEF Running
    <3>2. Reviewed(run.offer)
        BY <1>1, <2>1 DEF Running
    <3>3. offered = run.offer => (run.offer.proposal.network => run.config.network)
        BY <2>3 DEF Checked
    <3>4. Running'
        BY <3>1, <3>2, <3>3 DEF Running, Reviewed
    <3>5. QED
        BY <1>1, <2>1, <3>4 DEF PlanInductive, RunsAsReviewed
  <2>4. QED
      BY <1>6, <2>2, <2>3 DEF CheckOffer
<1>7. CASE ClaimOffer
  <2>1. run.step = "checked"
      BY <1>7 DEF ClaimOffer
  <2>2. CASE run' = NotRunning /\ UNCHANGED <<offered, outcome>>
    <3>1. Running'
        BY <2>2 DEF Running, NotRunning
    <3>2. QED
        BY <1>1, <2>2, <3>1 DEF PlanInductive, RunsAsReviewed
  <2>3. CASE run' = [run EXCEPT !.step = "claimed"] /\ UNCHANGED <<offered, outcome>>
    <3>1. run' = [step |-> "claimed", config |-> run.config, offer |-> run.offer,
                  swapped |-> run.swapped]
        BY <1>1, <2>3 DEF Running
    <3>2. Reviewed(run.offer) /\ (run.swapped \/ (run.offer.proposal.network => run.config.network))
        BY <1>1, <2>1 DEF Running
    <3>3. Running'
        BY <3>1, <3>2 DEF Running, Reviewed
    <3>4. QED
        BY <1>1, <2>3, <3>3 DEF PlanInductive, RunsAsReviewed
  <2>4. CASE Settles("denied", Nil)
    <3>1. outcome'.how = "denied"
        BY <2>4 DEF Settles
    <3>2. RunsAsReviewed'
        BY <3>1 DEF RunsAsReviewed
    <3>3. QED
        BY <1>1, <2>4, <3>2, PlanSettledStep
  <2>5. QED
      BY <1>7, <2>2, <2>3, <2>4 DEF ClaimOffer
<1>8. CASE ExecuteBubblewrap \/ ExecuteSeatbelt \/ ExecuteDocker
  <2>1. PICK b \in Confining :
          /\ Executes(b)
          /\ \/ Rebuilt(b) # run.offer.proposal.preview /\ Settles("mismatch", Rebuilt(b))
             \/ /\ Rebuilt(b) = run.offer.proposal.preview
                /\ \E how \in {"ran", "timeout", "failed"} : Settles(how, Rebuilt(b))
             \/ Settles("no_tool", Nil)
    <3>1. ASSUME NEW b, Attempt(b)
          PROVE  \/ Rebuilt(b) # run.offer.proposal.preview /\ Settles("mismatch", Rebuilt(b))
                 \/ /\ Rebuilt(b) = run.offer.proposal.preview
                    /\ \E how \in {"ran", "timeout", "failed"} : Settles(how, Rebuilt(b))
                 \/ Settles("no_tool", Nil)
        BY <3>1 DEF Attempt
    <3>2. {"linux_bubblewrap", "macos_seatbelt", "docker"} \subseteq Confining
        BY DEF Confining, Backends
    <3>3. CASE ExecuteBubblewrap
        BY <3>1, <3>2, <3>3 DEF ExecuteBubblewrap
    <3>4. CASE ExecuteSeatbelt
        BY <3>1, <3>2, <3>4 DEF ExecuteSeatbelt
    <3>5. CASE ExecuteDocker
        BY <3>1, <3>2, <3>5 DEF ExecuteDocker
    <3>6. QED
        BY <1>8, <3>3, <3>4, <3>5
  <2>2. RunsAsReviewed'
      BY <2>1, AttemptOutcome
  <2>3. PICK how, text : Settles(how, text)
      BY <2>1
  <2>4. QED
      BY <1>1, <2>2, <2>3, PlanSettledStep
<1>9. CASE ExecuteHere
  <2>1. Settles("ran_here", Nil)
      BY <1>9 DEF ExecuteHere
  <2>2. outcome'.how = "ran_here"
      BY <2>1 DEF Settles
  <2>3. RunsAsReviewed'
      BY <2>2 DEF RunsAsReviewed
  <2>4. QED
      BY <1>1, <2>1, <2>3, PlanSettledStep
<1>10. CASE ChangeSettings \/ Relink \/ ChangeHost \/ LoseConsent
    BY <1>2, <1>10 DEF ChangeSettings, Relink, ChangeHost, LoseConsent
<1>11. CASE UNCHANGED planVars
    BY <1>2, <1>11 DEF planVars
<1>12. QED
    BY <1>3, <1>4, <1>5, <1>6, <1>7, <1>8, <1>9, <1>10, <1>11 DEF PlanNext

THEOREM PlanInvariant == PlanSpec => []PlanInductive
<1>1. PlanInit => PlanInductive
  <2> SUFFICES ASSUME PlanInit PROVE PlanInductive
      OBVIOUS
  <2>1. Canonical(links)
      BY DEF PlanInit, Canonical
  <2>2. QED
      BY <2>1 DEF PlanInit, PlanInductive, Running, NotRunning, RunsAsReviewed
<1>2. PlanInductive /\ [PlanNext]_planVars => PlanInductive'
    BY PlanStep
<1>3. QED
    BY <1>1, <1>2, PTL DEF PlanSpec

\* sandbox/execution.py, preflight.py: what runs in a sandbox was reviewed as it runs
\* and is within the configuration of the execution, for any places, links,
\* configurations, hosts and requests.
THEOREM RunsWereReviewed == PlanSpec => []RunsAsReviewed
<1>1. PlanInductive => RunsAsReviewed
    BY DEF PlanInductive
<1>2. QED
    BY PlanInvariant, <1>1, PTL

-----------------------------------------------------------------------------
(* GitCommit: whose the files are that a terminal is about to commit.      *)

CheckpointFilesOf == UNION {[D -> States] : D \in SUBSET Paths}

Jobs ==
    [step : {"idle", "guard", "add", "staged", "commit", "preview", "confirm", "apply", "record",
             "committed", "restore"},
     task : Tasks \cup {Nobody}, files : SUBSET Paths, change : Changes \cup {Nobody},
     checkpoint : Nat, last : BOOLEAN, overlooked : SUBSET Paths]

\* Every variable has its type, but for acts, which only bounds the user.
GitTypeOK ==
    /\ {worktree, index, head} \subseteq [Paths -> States]
    /\ commits \in Seq([task : Tasks \cup {Nobody}, changed : SUBSET Paths, overlooked : SUBSET Paths])
    /\ current \in Tasks \cup {Nobody}
    /\ traces \in [Tasks -> SUBSET Nat]
    /\ blamed \in [Tasks -> SUBSET Paths]
    /\ proposed \in Changes \cup {Nobody}
    /\ saved \in Seq(CheckpointFilesOf)
    /\ running \in [Terminals -> Jobs]

\* A terminal with a task to commit or to record on has one, and checkpoints are there.
Delivering ==
    /\ \A k \in Tasks : traces[k] \subseteq DOMAIN saved
    /\ \A t \in Terminals :
         /\ running[t].step \notin {"idle", "preview", "confirm"} => running[t].task \in Tasks
         /\ running[t].step \in {"preview", "confirm", "apply"} => running[t].change \in Changes
         /\ running[t].step \in {"record", "committed", "restore"} =>
                running[t].checkpoint \in DOMAIN saved

\* The files that a terminal adds are its task's, and so is what is staged once it has
\* looked, but for what was overlooked.
Staging ==
    \A t \in Terminals, k \in Tasks : running[t].task = k =>
        /\ running[t].step \in {"guard", "add", "staged"} => running[t].files \subseteq TaskFiles(k)
        /\ running[t].step = "commit" => Staged \subseteq TaskFiles(k) \cup running[t].overlooked

\* So is what was committed.
Committing ==
    \A n \in DOMAIN commits, k \in Tasks : commits[n].task = k =>
        commits[n].changed \subseteq TaskFiles(k) \cup commits[n].overlooked

GitInductive == GitTypeOK /\ Delivering /\ Staging /\ Committing

GitStep(t) ==
    \/ StartCommit(t) \/ GuardCommit(t) \/ AddFiles(t) \/ CheckStaged(t) \/ Commit(t) \/ Stop(t)
    \/ Propose(t) \/ PreviewApply(t) \/ GuardApply(t) \/ ConfirmApply(t) \/ ApplyChange(t)
    \/ RecordOnTask(t) \/ StartRollback(t) \/ GuardRollback(t) \/ Restore(t)

UserStep == Save \/ Stage \/ Remove \/ CommitByHand \/ SwitchTask

LEMMA RestIsJob == AtRest \in Jobs
BY DEF AtRest, Jobs

LEMMA FileTypes ==
    ASSUME GitTypeOK
    PROVE  /\ worktree \in [Paths -> States] /\ index \in [Paths -> States] /\ head \in [Paths -> States]
           /\ Staged \subseteq Paths /\ Renamed \subseteq Paths /\ ChangedFiles \subseteq Paths
           /\ \A allowed : UnrelatedFiles(allowed) \subseteq Paths
<1>1. worktree \in [Paths -> States] /\ index \in [Paths -> States] /\ head \in [Paths -> States]
    BY DEF GitTypeOK
<1>2. Staged \subseteq Paths /\ Untracked \subseteq Paths /\ TrackedChanges \subseteq Paths
    BY DEF Staged, Untracked, TrackedChanges
<1>3. Renamed \subseteq Paths
  <2>1. \A q : Sources(q) \subseteq Paths
      BY DEF Sources
  <2>2. \A q : Sources(q) # {} => (CHOOSE p \in Sources(q) : TRUE) \in Sources(q)
      OBVIOUS
  <2>3. QED
      BY <2>1, <2>2 DEF Renamed
<1>4. QED
    BY <1>1, <1>2, <1>3 DEF ChangedFiles, UnrelatedFiles

LEMMA TaskFilesType ==
    ASSUME GitTypeOK, Delivering, NEW k \in Tasks
    PROVE  TaskFiles(k) \subseteq Paths
<1>1. saved \in Seq(CheckpointFilesOf) /\ traces[k] \subseteq DOMAIN saved /\ blamed[k] \subseteq Paths
    BY DEF GitTypeOK, Delivering
<1>2. \A n \in DOMAIN saved : saved[n] \in CheckpointFilesOf
    BY <1>1
<1>3. \A n \in DOMAIN saved : DOMAIN saved[n] \subseteq Paths
    BY <1>2 DEF CheckpointFilesOf
<1>4. QED
    BY <1>1, <1>3 DEF TaskFiles, CheckpointFiles

\* Whoever overlooks what is staged now keeps the rest of its job.
LEMMA Overlooking ==
    ASSUME running \in [Terminals -> Jobs], NEW files \in SUBSET Paths, NEW u \in Terminals
    PROVE  /\ StagesFor(files, running) \in [Terminals -> Jobs]
           /\ StagesFor(files, running)[u].step = running[u].step
           /\ StagesFor(files, running)[u].task = running[u].task
           /\ StagesFor(files, running)[u].files = running[u].files
           /\ StagesFor(files, running)[u].change = running[u].change
           /\ StagesFor(files, running)[u].checkpoint = running[u].checkpoint
           /\ StagesFor(files, running)[u].overlooked =
                  running[u].overlooked \cup (IF running[u].step = "commit" THEN files ELSE {})
<1>1. ASSUME NEW v \in Terminals
      PROVE  /\ running[v] \in Jobs
             /\ [running[v] EXCEPT !.overlooked = running[v].overlooked \cup files] \in Jobs
    BY <1>1 DEF Jobs
<1>2. StagesFor(files, running) \in [Terminals -> Jobs]
    BY <1>1 DEF StagesFor
<1>3. StagesFor(files, running)[u] =
          IF running[u].step = "commit"
          THEN [running[u] EXCEPT !.overlooked = running[u].overlooked \cup files] ELSE running[u]
    BY DEF StagesFor
<1>4. QED
    BY <1>1, <1>2, <1>3 DEF Jobs

-----------------------------------------------------------------------------
(* Proofs about GitCommit *)

\* git add, the user's git add and git rm, and a commit.
LEMMA IndexTypes ==
    ASSUME GitTypeOK, Delivering,
           (\E t \in Terminals : AddFiles(t) \/ Commit(t)) \/ Stage \/ Remove \/ CommitByHand
    PROVE  GitTypeOK'
<1>1. /\ worktree \in [Paths -> States] /\ index \in [Paths -> States] /\ head \in [Paths -> States]
      /\ running \in [Terminals -> Jobs] /\ Gone \in States
      /\ commits \in Seq([task : Tasks \cup {Nobody}, changed : SUBSET Paths, overlooked : SUBSET Paths])
    BY DEF GitTypeOK, States
<1>2. CASE \E t \in Terminals : AddFiles(t)
  <2>1. PICK t \in Terminals : AddFiles(t)
      BY <1>2
  <2>2. running[t].files \in SUBSET Paths
      BY <1>1 DEF Jobs
  <2>3. index' \in [Paths -> States]
      BY <1>1, <2>1 DEF AddFiles
  <2> DEFINE jobs == StagesFor(running[t].files, running)
  <2>5. jobs \in [Terminals -> Jobs] /\ running' = [jobs EXCEPT ![t].step = "staged"]
      BY <1>1, <2>1, <2>2, Overlooking DEF AddFiles
  <2>6. running' \in [Terminals -> Jobs]
    <3>1. [jobs[t] EXCEPT !.step = "staged"] \in Jobs
        BY <2>5 DEF Jobs
    <3> HIDE DEF jobs
    <3>2. QED
        BY <2>5, <3>1
  <2>7. QED
      BY <2>1, <2>3, <2>6 DEF GitTypeOK, AddFiles
<1>3. ASSUME NEW k \in Tasks \cup {Nobody}, NEW o \in SUBSET Paths, GitCommits(k, o)
      PROVE  /\ head' \in [Paths -> States]
             /\ commits' \in Seq([task : Tasks \cup {Nobody}, changed : SUBSET Paths,
                                  overlooked : SUBSET Paths])
    BY <1>1, <1>3, FileTypes DEF GitCommits
<1>4. CASE \E t \in Terminals : Commit(t)
  <2>1. PICK t \in Terminals : Commit(t)
      BY <1>4
  <2>2. running[t].task \in Tasks \cup {Nobody} /\ running[t].overlooked \in SUBSET Paths
      BY <1>1 DEF Jobs
  <2>3. running' \in [Terminals -> Jobs]
      BY <1>1, <2>1, RestIsJob DEF Commit, Returns
  <2>4. head' \in [Paths -> States] /\ commits' \in Seq([task : Tasks \cup {Nobody},
                                          changed : SUBSET Paths, overlooked : SUBSET Paths])
      BY <1>3, <2>1, <2>2 DEF Commit
  <2>5. QED
      BY <2>1, <2>3, <2>4 DEF GitTypeOK, Commit
<1>5. CASE Stage \/ Remove
  <2>1. PICK p \in Paths :
          /\ running' = StagesFor({p}, running)
          /\ \/ index' = [index EXCEPT ![p] = worktree[p]] /\ UNCHANGED worktree
             \/ index' = [index EXCEPT ![p] = Gone] /\ worktree' = [worktree EXCEPT ![p] = Gone]
    <3>1. CASE Stage
        BY <3>1 DEF Stage
    <3>2. CASE Remove
        BY <3>2 DEF Remove
    <3>3. QED
        BY <1>5, <3>1, <3>2
  <2>2. index' \in [Paths -> States] /\ worktree' \in [Paths -> States]
      BY <1>1, <2>1
  <2>3. running' \in [Terminals -> Jobs]
      BY <1>1, <2>1, {p} \in SUBSET Paths, Overlooking DEF StagesFor
  <2>4. UNCHANGED <<head, commits, current, traces, blamed, proposed, saved>>
      BY <1>5 DEF Stage, Remove
  <2>5. QED
      BY <2>2, <2>3, <2>4 DEF GitTypeOK
<1>6. CASE CommitByHand
  <2>1. head' \in [Paths -> States] /\ commits' \in Seq([task : Tasks \cup {Nobody},
                                          changed : SUBSET Paths, overlooked : SUBSET Paths])
      BY <1>3, <1>6 DEF CommitByHand
  <2>2. QED
      BY <1>6, <2>1 DEF GitTypeOK, CommitByHand
<1>7. QED
    BY <1>2, <1>4, <1>5, <1>6

\* The other steps of a terminal, and the user's other acts.
LEMMA OtherTypes ==
    ASSUME GitTypeOK, Delivering,
           (\E t \in Terminals : GitStep(t) /\ ~ AddFiles(t) /\ ~ Commit(t)) \/ Save \/ SwitchTask
    PROVE  GitTypeOK'
<1>1. /\ worktree \in [Paths -> States] /\ index \in [Paths -> States] /\ head \in [Paths -> States]
      /\ running \in [Terminals -> Jobs] /\ saved \in Seq(CheckpointFilesOf)
      /\ traces \in [Tasks -> SUBSET Nat] /\ blamed \in [Tasks -> SUBSET Paths]
      /\ current \in Tasks \cup {Nobody} /\ proposed \in Changes \cup {Nobody}
    BY DEF GitTypeOK
<1>2. CASE Save
  <2>1. worktree' \in [Paths -> States]
      BY <1>1, <1>2 DEF Save
  <2>2. QED
      BY <1>2, <2>1 DEF Save, GitTypeOK
<1>3. CASE SwitchTask
    BY <1>3 DEF SwitchTask, GitTypeOK
<1>4. ASSUME NEW t \in Terminals, GitStep(t), ~ AddFiles(t), ~ Commit(t) PROVE GitTypeOK'
  <2>1. running[t] \in Jobs /\ AtRest \in Jobs
      BY <1>1, RestIsJob
  <2>2. ASSUME NEW j \in Jobs, running' = [running EXCEPT ![t] = j]
        PROVE  running' \in [Terminals -> Jobs]
      BY <1>1, <2>2
  <2>3. CASE StartCommit(t)
    <3>1. current \in Tasks /\ TaskFiles(current) \in SUBSET Paths
        BY <1>1, <2>3, TaskFilesType DEF StartCommit
    <3>2. [AtRest EXCEPT !.step = "guard", !.task = current, !.files = TaskFiles(current)] \in Jobs
        BY <3>1 DEF AtRest, Jobs
    <3>3. running' \in [Terminals -> Jobs]
        BY <2>2, <2>3, <3>2 DEF StartCommit
    <3>4. QED
        BY <2>3, <3>3 DEF StartCommit, GitTypeOK
  <2>4. CASE GuardCommit(t) \/ GuardApply(t)
    <3>1. ASSUME NEW k \in Tasks \cup {Nobody}, NEW files \in SUBSET Paths, AuditRefusal(k, files)
          PROVE  blamed' \in [Tasks -> SUBSET Paths]
        BY <1>1, <3>1 DEF AuditRefusal
    <3>2. running[t].task \in Tasks \cup {Nobody} /\ \A a : UnrelatedFiles(a) \in SUBSET Paths
        BY <2>1, FileTypes DEF Jobs
    <3>3. blamed' \in [Tasks -> SUBSET Paths]
      <4>1. CASE UNCHANGED blamed
          BY <1>1, <4>1
      <4>2. CASE \E a : AuditRefusal(running[t].task, UnrelatedFiles(a))
          BY <3>1, <3>2, <4>2
      <4>3. CASE \E a : AuditRefusal(current, UnrelatedFiles(a))
          BY <1>1, <3>1, <3>2, <4>3
      <4>4. QED
          BY <2>4, <4>1, <4>2, <4>3 DEF GuardCommit, GuardApply
    <3>4. \E s \in {"add", "confirm"} : Goes(t, s) \/ Returns(t)
        BY <2>4 DEF GuardCommit, GuardApply
    <3>5. running' \in [Terminals -> Jobs]
      <4>1. CASE Returns(t)
          BY <2>1, <2>2, <4>1 DEF Returns
      <4>2. ASSUME NEW s \in {"add", "confirm"}, Goes(t, s) PROVE running' \in [Terminals -> Jobs]
        <5>1. [running[t] EXCEPT !.step = s] \in Jobs
            BY <2>1 DEF Jobs
        <5>2. running' = [running EXCEPT ![t] = [running[t] EXCEPT !.step = s]]
            BY <1>1, <4>2 DEF Goes
        <5>3. QED
            BY <2>2, <5>1, <5>2
      <4>3. QED
          BY <3>4, <4>1, <4>2
    <3>6. UNCHANGED <<worktree, index, head, commits, current, traces, proposed, saved>>
        BY <2>4 DEF GuardCommit, GuardApply
    <3>7. QED
        BY <3>3, <3>5, <3>6 DEF GitTypeOK
  <2>5. CASE CheckStaged(t)
    <3>1. Renamed \in SUBSET Paths
        BY FileTypes
    <3>2. [running[t] EXCEPT !.step = "commit", !.overlooked = Renamed] \in Jobs
        BY <2>1, <3>1 DEF Jobs
    <3>3. \/ running' = [running EXCEPT ![t] = AtRest]
          \/ running' = [running EXCEPT ![t] = [running[t] EXCEPT !.step = "commit", !.overlooked = Renamed]]
        BY <1>1, <2>5 DEF CheckStaged, Returns
    <3>4. running' \in [Terminals -> Jobs]
        BY <2>1, <2>2, <3>2, <3>3
    <3>5. QED
        BY <2>5, <3>4 DEF CheckStaged, GitTypeOK
  <2>6. CASE Stop(t)
    <3>1. running' \in [Terminals -> Jobs]
        BY <2>1, <2>2, <2>6 DEF Stop, Returns
    <3>2. QED
        BY <2>6, <3>1 DEF Stop, GitTypeOK
  <2>7. CASE Propose(t)
    <3>1. current' \in Tasks /\ proposed' \in Changes
        BY <2>7 DEF Propose
    <3>2. QED
        BY <2>7, <3>1 DEF Propose, GitTypeOK
  <2>8. CASE PreviewApply(t)
    <3>1. proposed \in Changes
        BY <1>1, <2>8 DEF PreviewApply
    <3>2. [AtRest EXCEPT !.step = "preview", !.change = proposed] \in Jobs
        BY <3>1 DEF AtRest, Jobs
    <3>3. running' \in [Terminals -> Jobs]
        BY <2>2, <2>8, <3>2 DEF PreviewApply
    <3>4. QED
        BY <2>8, <3>3 DEF PreviewApply, GitTypeOK
  <2>9. CASE ConfirmApply(t)
    <3>1. PICK k \in Tasks : current' = k /\ running' = [running EXCEPT ![t].step = "apply", ![t].task = k]
        BY <2>9 DEF ConfirmApply
    <3>2. [running[t] EXCEPT !.step = "apply", !.task = k] \in Jobs
        BY <2>1 DEF Jobs
    <3>3. running' = [running EXCEPT ![t] = [running[t] EXCEPT !.step = "apply", !.task = k]]
        BY <1>1, <3>1
    <3>4. running' \in [Terminals -> Jobs]
        BY <2>2, <3>2, <3>3
    <3>5. QED
        BY <2>9, <3>1, <3>4 DEF ConfirmApply, GitTypeOK
  <2>10. CASE ApplyChange(t)
    <3>1. PICK change \in Changes : change = running[t].change
        BY <2>10 DEF ApplyChange, Delivering
    <3>2. PICK D : D = DOMAIN change
        OBVIOUS
    <3>3. D \subseteq Paths /\ \A p \in D : change[p].to \in States
        BY <3>2, GitAssumption
    <3>4. [p \in D |-> worktree[p]] \in CheckpointFilesOf
      <4>1. [p \in D |-> worktree[p]] \in [D -> States]
          BY <1>1, <3>3
      <4>2. QED
          BY <3>3, <4>1 DEF CheckpointFilesOf
    <3>5. saved' \in Seq(CheckpointFilesOf)
        BY <1>1, <2>10, <3>1, <3>2, <3>4 DEF ApplyChange
    <3>6. worktree' \in [Paths -> States]
      <4>1. worktree' = [p \in Paths |-> IF p \in D THEN change[p].to ELSE worktree[p]]
          BY <2>10, <3>1, <3>2 DEF ApplyChange
      <4>2. QED
          BY <1>1, <3>3, <4>1
    <3>7. Len(saved) + 1 \in Nat
        BY <1>1
    <3>8. [running[t] EXCEPT !.step = "record", !.checkpoint = Len(saved) + 1] \in Jobs
        BY <2>1, <3>7 DEF Jobs
    <3>9. running' \in [Terminals -> Jobs]
      <4>1. running' = [running EXCEPT ![t] =
                            [running[t] EXCEPT !.step = "record", !.checkpoint = Len(saved) + 1]]
          BY <1>1, <2>10 DEF ApplyChange
      <4>2. QED
          BY <2>2, <3>8, <4>1
    <3>10. /\ proposed' \in Changes \cup {Nobody}
           /\ UNCHANGED <<index, head, commits, current, traces, blamed>>
        BY <2>10 DEF ApplyChange
    <3>11. QED
        BY <3>5, <3>6, <3>9, <3>10 DEF GitTypeOK
  <2>11. CASE RecordOnTask(t)
    <3>1. running[t].task \in Tasks /\ running[t].checkpoint \in Nat
        BY <2>1, <2>11 DEF RecordOnTask, Delivering, Jobs
    <3>2. traces' \in [Tasks -> SUBSET Nat]
        BY <1>1, <2>11, <3>1 DEF RecordOnTask
    <3>3. running' \in [Terminals -> Jobs]
        BY <2>1, <2>2, <2>11 DEF RecordOnTask, Returns
    <3>4. QED
        BY <2>11, <3>2, <3>3 DEF RecordOnTask, GitTypeOK
  <2>12. CASE StartRollback(t)
    <3>1. PICK n \in DOMAIN saved, last \in BOOLEAN, k \in Tasks :
            /\ current' = k
            /\ running' = [running EXCEPT ![t] = [AtRest EXCEPT !.step = "committed", !.task = k,
                                                          !.checkpoint = n, !.last = last]]
        BY <2>12 DEF StartRollback
    <3>2. n \in Nat
        BY <1>1
    <3>3. [AtRest EXCEPT !.step = "committed", !.task = k, !.checkpoint = n, !.last = last] \in Jobs
        BY <3>2 DEF AtRest, Jobs
    <3>4. running' \in [Terminals -> Jobs]
        BY <2>2, <3>1, <3>3
    <3>5. QED
        BY <2>12, <3>1, <3>4 DEF StartRollback, GitTypeOK
  <2>13. CASE GuardRollback(t)
    <3>1. Goes(t, "restore") \/ Returns(t)
        BY <2>13 DEF GuardRollback
    <3>2. [running[t] EXCEPT !.step = "restore"] \in Jobs
        BY <2>1 DEF Jobs
    <3>3. \/ running' = [running EXCEPT ![t] = AtRest]
          \/ running' = [running EXCEPT ![t] = [running[t] EXCEPT !.step = "restore"]]
        BY <1>1, <3>1 DEF Goes, Returns
    <3>4. running' \in [Terminals -> Jobs]
        BY <2>1, <2>2, <3>2, <3>3
    <3>5. QED
        BY <2>13, <3>4 DEF GuardRollback, GitTypeOK
  <2>14. CASE Restore(t)
    <3>1. PICK n : /\ n = IF running[t].last THEN Len(saved) ELSE running[t].checkpoint
                   /\ worktree' = [p \in Paths |-> IF p \in DOMAIN saved[n] THEN saved[n][p] ELSE worktree[p]]
                   /\ running' = [running EXCEPT ![t].step = "record", ![t].checkpoint = n]
        BY <2>14 DEF Restore
    <3>2. running[t].checkpoint \in DOMAIN saved
        BY <2>14 DEF Restore, Delivering
    <3>3. n \in DOMAIN saved /\ n \in Nat
        BY <1>1, <3>1, <3>2
    <3>4. saved[n] \in CheckpointFilesOf
        BY <1>1, <3>3
    <3>5. PICK D \in SUBSET Paths : saved[n] \in [D -> States]
        BY <3>4 DEF CheckpointFilesOf
    <3>6. worktree' \in [Paths -> States]
        BY <1>1, <3>1, <3>5
    <3>7. [running[t] EXCEPT !.step = "record", !.checkpoint = n] \in Jobs
        BY <2>1, <3>3 DEF Jobs
    <3>8. running' = [running EXCEPT ![t] = [running[t] EXCEPT !.step = "record", !.checkpoint = n]]
        BY <1>1, <3>1
    <3>9. running' \in [Terminals -> Jobs]
        BY <2>2, <3>7, <3>8
    <3>10. QED
        BY <2>14, <3>6, <3>9 DEF Restore, GitTypeOK
  <2>15. QED
      BY <1>4, <2>3, <2>4, <2>5, <2>6, <2>7, <2>8, <2>9, <2>10, <2>11, <2>12, <2>13, <2>14 DEF GitStep
<1>5. QED
    BY <1>2, <1>3, <1>4

LEMMA GitTypesStep ==
    ASSUME GitTypeOK, Delivering, GitNext \/ UNCHANGED gitVars
    PROVE  GitTypeOK'
<1>1. CASE UNCHANGED gitVars
    BY <1>1 DEF gitVars, GitTypeOK
<1>2. CASE GitNext
  <2>1. (\E t \in Terminals : GitStep(t)) \/ UserStep
      BY <1>2 DEF GitNext, GitStep, UserStep
  <2>2. QED
      BY <2>1, IndexTypes, OtherTypes DEF UserStep
<1>3. QED
    BY <1>1, <1>2

-----------------------------------------------------------------------------
(* A task keeps its files, and a terminal its task *)

\* Nothing that a task's files are made of is taken away.
TracesGrow ==
    /\ DOMAIN saved \subseteq DOMAIN saved' /\ \A n \in DOMAIN saved : saved'[n] = saved[n]
    /\ \A k \in Tasks : traces[k] \subseteq traces'[k] /\ blamed[k] \subseteq blamed'[k]

LEMMA TracesGrowStep ==
    ASSUME GitTypeOK, Delivering, GitNext \/ UNCHANGED gitVars
    PROVE  TracesGrow
<1>1. saved \in Seq(CheckpointFilesOf) /\ traces \in [Tasks -> SUBSET Nat]
      /\ blamed \in [Tasks -> SUBSET Paths]
    BY DEF GitTypeOK
<1>2. CASE UNCHANGED <<saved, traces, blamed>>
    BY <1>2 DEF TracesGrow
<1>3. CASE \E t \in Terminals : ApplyChange(t)
    BY <1>1, <1>3 DEF ApplyChange, TracesGrow
<1>4. CASE \E t \in Terminals : RecordOnTask(t)
    BY <1>1, <1>4 DEF RecordOnTask, TracesGrow
<1>5. CASE \E t \in Terminals : GuardCommit(t) \/ GuardApply(t)
  <2>1. UNCHANGED <<saved, traces>>
      BY <1>5 DEF GuardCommit, GuardApply
  <2>2. UNCHANGED blamed \/ \E k, files : AuditRefusal(k, files)
      BY <1>5 DEF GuardCommit, GuardApply
  <2>3. \A k \in Tasks : blamed[k] \subseteq blamed'[k]
      BY <1>1, <2>2 DEF AuditRefusal
  <2>4. QED
      BY <2>1, <2>3 DEF TracesGrow
<1>6. QED
  <2>1. CASE UNCHANGED gitVars
      BY <1>2, <2>1 DEF gitVars
  <2>2. CASE GitNext
      BY <1>2, <1>3, <1>4, <1>5, <2>2
         DEF GitNext, StartCommit, AddFiles, CheckStaged, Commit, Stop, Propose, PreviewApply,
             ConfirmApply, StartRollback, GuardRollback, Restore, Save, Stage, Remove, CommitByHand,
             SwitchTask
  <2>3. QED
      BY <2>1, <2>2

LEMMA TaskFilesGrow ==
    ASSUME Delivering, TracesGrow, NEW k \in Tasks
    PROVE  TaskFiles(k) \subseteq TaskFiles(k)'
<1>1. \A n \in traces[k] : n \in traces'[k] /\ saved'[n] = saved[n]
    BY DEF Delivering, TracesGrow
<1>2. CheckpointFiles(k) \subseteq CheckpointFiles(k)'
    BY <1>1 DEF CheckpointFiles
<1>3. QED
    BY <1>2 DEF TaskFiles, TracesGrow

\* What another terminal, or the user, does to the job of terminal u.
Elsewhere(u) ==
    \/ running'[u] = running[u]
    \/ \E files \in SUBSET Paths : running'[u] = StagesFor(files, running)[u]

LEMMA ElsewhereStep ==
    ASSUME GitTypeOK, NEW u \in Terminals, UserStep \/ \E t \in Terminals \ {u} : GitStep(t)
    PROVE  Elsewhere(u)
<1>1. running \in [Terminals -> Jobs]
    BY DEF GitTypeOK
<1>2. CASE UserStep
  <2>1. \A p \in Paths : {p} \in SUBSET Paths
      OBVIOUS
  <2>2. QED
      BY <1>2, <2>1 DEF UserStep, Save, Stage, Remove, CommitByHand, SwitchTask, Elsewhere
<1>3. ASSUME NEW t \in Terminals \ {u}, GitStep(t) PROVE Elsewhere(u)
  <2>1. CASE AddFiles(t)
    <3>1. running[t].files \in SUBSET Paths
        BY <1>1 DEF Jobs
    <3>2. StagesFor(running[t].files, running) \in [Terminals -> Jobs]
        BY <1>1, <3>1, Overlooking
    <3>3. running'[u] = StagesFor(running[t].files, running)[u]
        BY <2>1, <3>2 DEF AddFiles
    <3>4. QED
        BY <3>1, <3>3 DEF Elsewhere
  <2>2. CASE ~ AddFiles(t)
    <3>1. running'[u] = running[u]
        BY <1>1, <1>3, <2>2
           DEF GitStep, StartCommit, GuardCommit, CheckStaged, Commit, Stop, Propose, PreviewApply,
               GuardApply, ConfirmApply, ApplyChange, RecordOnTask, StartRollback, GuardRollback,
               Restore, Goes, Returns
    <3>2. QED
        BY <3>1 DEF Elsewhere
  <2>3. QED
      BY <2>1, <2>2
<1>4. QED
    BY <1>2, <1>3

LEMMA ElsewhereKeeps ==
    ASSUME GitTypeOK, NEW u \in Terminals, Elsewhere(u)
    PROVE  /\ running'[u].step = running[u].step /\ running'[u].task = running[u].task
           /\ running'[u].files = running[u].files /\ running'[u].change = running[u].change
           /\ running'[u].checkpoint = running[u].checkpoint
           /\ running[u].overlooked \subseteq running'[u].overlooked
<1>1. running \in [Terminals -> Jobs]
    BY DEF GitTypeOK
<1>2. QED
    BY <1>1, Overlooking DEF Elsewhere

LEMMA DeliveringStep ==
    ASSUME GitTypeOK, Delivering, TracesGrow, GitTypeOK', GitNext \/ UNCHANGED gitVars
    PROVE  Delivering'
<1>1. running \in [Terminals -> Jobs] /\ traces \in [Tasks -> SUBSET Nat]
      /\ saved \in Seq(CheckpointFilesOf)
    BY DEF GitTypeOK
<1>2. \A k \in Tasks : traces'[k] \subseteq DOMAIN saved'
  <2>1. CASE UNCHANGED traces
      BY <2>1 DEF Delivering, TracesGrow
  <2>2. CASE \E t \in Terminals : RecordOnTask(t)
    <3>1. PICK t \in Terminals : RecordOnTask(t)
        BY <2>2
    <3>2. running[t].checkpoint \in DOMAIN saved
        BY <3>1 DEF RecordOnTask, Delivering
    <3>3. QED
        BY <1>1, <3>1, <3>2 DEF RecordOnTask, Delivering
  <2>3. UNCHANGED traces \/ \E t \in Terminals : RecordOnTask(t)
      BY DEF GitNext, gitVars, StartCommit, GuardCommit, AddFiles, CheckStaged, Commit, Stop, Propose,
             PreviewApply, GuardApply, ConfirmApply, ApplyChange, StartRollback, GuardRollback,
             Restore, Save, Stage, Remove, CommitByHand, SwitchTask
  <2>4. QED
      BY <2>1, <2>2, <2>3
<1>3. ASSUME NEW u \in Terminals
      PROVE  /\ running'[u].step \notin {"idle", "preview", "confirm"} => running'[u].task \in Tasks
             /\ running'[u].step \in {"preview", "confirm", "apply"} => running'[u].change \in Changes
             /\ running'[u].step \in {"record", "committed", "restore"} =>
                    running'[u].checkpoint \in DOMAIN saved'
  <2>1. CASE UNCHANGED gitVars
      BY <2>1 DEF gitVars, Delivering
  <2>2. CASE UserStep \/ \E t \in Terminals \ {u} : GitStep(t)
      BY <2>2, ElsewhereStep, ElsewhereKeeps DEF Delivering, TracesGrow
  <2>3. CASE GitStep(u)
    <3>1. running[u] \in Jobs
        BY <1>1
    <3>2. CASE Commit(u) \/ Stop(u) \/ RecordOnTask(u) \/ Propose(u)
        BY <1>1, <3>2 DEF Commit, Stop, RecordOnTask, Propose, Returns, AtRest, Delivering
    <3>3. CASE StartCommit(u)
      <4>1. current \in Tasks
          BY <3>3 DEF StartCommit, GitTypeOK
      <4>2. running'[u].step = "guard" /\ running'[u].task = current
          BY <1>1, <3>3 DEF StartCommit, AtRest
      <4>3. QED
          BY <4>1, <4>2
    <3>4. CASE GuardCommit(u) \/ CheckStaged(u)
      <4>1. /\ running'[u].step \in {"idle", "add", "commit"}
            /\ running'[u].step # "idle" => running'[u].task = running[u].task
            /\ running[u].step \in {"guard", "staged"}
          BY <1>1, <3>1, <3>4 DEF GuardCommit, CheckStaged, Goes, Returns, AtRest, Jobs
      <4>2. QED
          BY <4>1 DEF Delivering
    <3>5. CASE AddFiles(u)
      <4>1. running[u].files \in SUBSET Paths
          BY <3>1 DEF Jobs
      <4>2. /\ StagesFor(running[u].files, running) \in [Terminals -> Jobs]
            /\ StagesFor(running[u].files, running)[u].task = running[u].task
          BY <1>1, <4>1, Overlooking
      <4>3. running'[u].step = "staged" /\ running'[u].task = running[u].task
          BY <3>5, <4>2 DEF AddFiles, Jobs
      <4>4. running[u].step = "add"
          BY <3>5 DEF AddFiles
      <4>5. QED
          BY <4>3, <4>4 DEF Delivering
    <3>6. CASE PreviewApply(u)
      <4>1. proposed \in Changes
          BY <3>6 DEF PreviewApply, GitTypeOK
      <4>2. running'[u].step = "preview" /\ running'[u].change = proposed
          BY <1>1, <3>6 DEF PreviewApply, AtRest
      <4>3. QED
          BY <4>1, <4>2
    <3>7. CASE GuardApply(u)
      <4>1. /\ running'[u].step \in {"idle", "confirm"} /\ running[u].step = "preview"
            /\ running'[u].step = "confirm" => running'[u].change = running[u].change
          BY <1>1, <3>1, <3>7 DEF GuardApply, Goes, Returns, AtRest, Jobs
      <4>2. QED
          BY <4>1 DEF Delivering
    <3>8. CASE ConfirmApply(u)
      <4>1. PICK k \in Tasks : running' = [running EXCEPT ![u].step = "apply", ![u].task = k]
          BY <3>8 DEF ConfirmApply
      <4>2. running'[u].step = "apply" /\ running'[u].task = k /\ running'[u].change = running[u].change
          BY <1>1, <3>1, <4>1 DEF Jobs
      <4>3. running[u].step = "confirm"
          BY <3>8 DEF ConfirmApply
      <4>4. QED
          BY <4>2, <4>3 DEF Delivering
    <3>9. CASE ApplyChange(u)
      <4>1. /\ running'[u].step = "record" /\ running'[u].task = running[u].task
            /\ running'[u].checkpoint = Len(saved) + 1 /\ running[u].step = "apply"
          BY <1>1, <3>1, <3>9 DEF ApplyChange, Jobs
      <4>2. PICK s : saved' = Append(saved, s)
          BY <3>9 DEF ApplyChange
      <4>3. Len(saved) + 1 \in DOMAIN saved'
          BY <1>1, <4>2
      <4>4. QED
          BY <4>1, <4>3 DEF Delivering
    <3>10. CASE StartRollback(u)
      <4>1. PICK n \in DOMAIN saved, last \in BOOLEAN, k \in Tasks :
              running' = [running EXCEPT ![u] = [AtRest EXCEPT !.step = "committed", !.task = k,
                                                               !.checkpoint = n, !.last = last]]
          BY <3>10 DEF StartRollback
      <4>2. running'[u].step = "committed" /\ running'[u].checkpoint = n /\ running'[u].task = k
          BY <1>1, <4>1 DEF AtRest
      <4>3. QED
          BY <4>2 DEF TracesGrow
    <3>11. CASE GuardRollback(u)
      <4>1. /\ running'[u].step \in {"idle", "restore"} /\ running[u].step = "committed"
            /\ running'[u].step = "restore" =>
                 running'[u].checkpoint = running[u].checkpoint /\ running'[u].task = running[u].task
          BY <1>1, <3>1, <3>11 DEF GuardRollback, Goes, Returns, AtRest, Jobs
      <4>2. QED
          BY <4>1 DEF Delivering, TracesGrow
    <3>12. CASE Restore(u)
      <4>1. PICK n : /\ n = IF running[u].last THEN Len(saved) ELSE running[u].checkpoint
                     /\ running' = [running EXCEPT ![u].step = "record", ![u].checkpoint = n]
          BY <3>12 DEF Restore
      <4>2. running[u].step = "restore" /\ running[u].checkpoint \in DOMAIN saved
          BY <3>12 DEF Restore, Delivering
      <4>3. n \in DOMAIN saved
          BY <1>1, <4>1, <4>2
      <4>4. /\ running'[u].step = "record" /\ running'[u].checkpoint = n
            /\ running'[u].task = running[u].task
          BY <1>1, <3>1, <4>1 DEF Jobs
      <4>5. QED
          BY <4>2, <4>3, <4>4 DEF Delivering, TracesGrow
    <3>13. QED
        BY <2>3, <3>2, <3>3, <3>4, <3>5, <3>6, <3>7, <3>8, <3>9, <3>10, <3>11, <3>12 DEF GitStep
  <2>4. QED
      BY <2>1, <2>2, <2>3 DEF GitNext, GitStep, UserStep
<1>4. QED
    BY <1>2, <1>3 DEF Delivering

-----------------------------------------------------------------------------
(* What is staged, and what is committed *)

LEMMA StagingStep ==
    ASSUME GitTypeOK, Delivering, Staging, TracesGrow, GitTypeOK', GitNext \/ UNCHANGED gitVars
    PROVE  Staging'
<1>1. running \in [Terminals -> Jobs] /\ index \in [Paths -> States]
    BY DEF GitTypeOK
<1>2. \A k \in Tasks : TaskFiles(k) \subseteq TaskFiles(k)'
    BY TaskFilesGrow
<1>3. ASSUME NEW u \in Terminals, NEW k \in Tasks, running'[u].task = k
      PROVE  /\ running'[u].step \in {"guard", "add", "staged"} =>
                    running'[u].files \subseteq TaskFiles(k)'
             /\ running'[u].step = "commit" =>
                    Staged' \subseteq TaskFiles(k)' \cup running'[u].overlooked
  <2>1. running[u] \in Jobs
      BY <1>1
  <2>2. ASSUME /\ running'[u].step = running[u].step /\ running'[u].task = running[u].task
               /\ running'[u].files = running[u].files
               /\ running[u].overlooked \subseteq running'[u].overlooked,
               running[u].step = "commit" => Staged' \subseteq Staged \cup running'[u].overlooked
        PROVE  /\ running'[u].step \in {"guard", "add", "staged"} =>
                    running'[u].files \subseteq TaskFiles(k)'
               /\ running'[u].step = "commit" =>
                    Staged' \subseteq TaskFiles(k)' \cup running'[u].overlooked
    <3>1. running[u].task = k
        BY <1>3, <2>2
    <3>2. CASE running[u].step \in {"guard", "add", "staged"}
      <4>1. running[u].files \subseteq TaskFiles(k)
          BY <3>1, <3>2 DEF Staging
      <4>2. QED
          BY <1>2, <2>2, <3>2, <4>1
    <3>3. CASE running[u].step = "commit"
      <4>1. Staged \subseteq TaskFiles(k) \cup running[u].overlooked
          BY <3>1, <3>3 DEF Staging
      <4>2. QED
          BY <1>2, <2>2, <3>3, <4>1
    <3>4. QED
        BY <2>2, <3>2, <3>3
  <2>3. CASE UNCHANGED gitVars
    <3>1. UNCHANGED <<running, index, head>>
        BY <2>3 DEF gitVars
    <3>2. Staged' = Staged
        BY <3>1 DEF Staged
    <3>3. QED
        BY <2>2, <3>1, <3>2
  <2>4. CASE UserStep \/ \E t \in Terminals \ {u} : GitStep(t)
    <3>1. /\ running'[u].step = running[u].step /\ running'[u].task = running[u].task
          /\ running'[u].files = running[u].files
          /\ running[u].overlooked \subseteq running'[u].overlooked
        BY <2>4, ElsewhereStep, ElsewhereKeeps
    <3>2. running[u].step = "commit" => Staged' \subseteq Staged \cup running'[u].overlooked
      <4>1. SUFFICES ASSUME running[u].step = "commit"
                     PROVE  Staged' \subseteq Staged \cup running'[u].overlooked
          OBVIOUS
      <4>2. CASE UNCHANGED <<index, head>>
          BY <4>2 DEF Staged
      <4>3. CASE head' = index /\ UNCHANGED index
          BY <4>3 DEF Staged
      <4>4. ASSUME NEW files \in SUBSET Paths, NEW t \in Terminals \ {u}, UNCHANGED head,
                   running' = [StagesFor(files, running) EXCEPT ![t].step = "staged"]
                     \/ running' = StagesFor(files, running),
                   \A p \in Paths \ files : index'[p] = index[p]
            PROVE  Staged' \subseteq Staged \cup running'[u].overlooked
        <5>1. running'[u] = StagesFor(files, running)[u]
            BY <1>1, <4>4, Overlooking
        <5>2. files \subseteq running'[u].overlooked
            BY <1>1, <4>1, <5>1, Overlooking
        <5>3. QED
            BY <4>4, <5>2 DEF Staged
      <4>5. CASE \E t \in Terminals \ {u} : AddFiles(t)
        <5>1. PICK t \in Terminals \ {u} : AddFiles(t)
            BY <4>5
        <5>2. running[t].files \in SUBSET Paths
            BY <1>1 DEF Jobs
        <5>3. /\ UNCHANGED head
              /\ running' = [StagesFor(running[t].files, running) EXCEPT ![t].step = "staged"]
              /\ \A p \in Paths \ running[t].files : index'[p] = index[p]
            BY <5>1 DEF AddFiles
        <5>4. QED
            BY <4>4, <5>2, <5>3
      <4>6. CASE Stage \/ Remove
        <5>1. PICK p \in Paths : /\ UNCHANGED head /\ running' = StagesFor({p}, running)
                                 /\ \A q \in Paths \ {p} : index'[q] = index[q]
          <6>1. CASE Stage
              BY <1>1, <6>1 DEF Stage
          <6>2. CASE Remove
              BY <1>1, <6>2 DEF Remove
          <6>3. QED
              BY <4>6, <6>1, <6>2
        <5>2. running'[u] = StagesFor({p}, running)[u]
            BY <5>1
        <5>3. {p} \subseteq running'[u].overlooked
            BY <1>1, <4>1, <5>2, {p} \in SUBSET Paths, Overlooking
        <5>4. QED
            BY <5>1, <5>3 DEF Staged
      <4>7. QED
          BY <2>4, <4>2, <4>3, <4>5, <4>6
             DEF UserStep, GitStep, StartCommit, GuardCommit, CheckStaged, Commit, GitCommits, Stop,
                 Propose, PreviewApply, GuardApply, ConfirmApply, ApplyChange, RecordOnTask,
                 StartRollback, GuardRollback, Restore, Save, CommitByHand, SwitchTask
    <3>3. QED
        BY <2>2, <3>1, <3>2
  <2>5. CASE GitStep(u)
    <3>1. CASE StartCommit(u)
      <4>1. /\ running'[u].step = "guard" /\ running'[u].files = TaskFiles(current)
            /\ running'[u].task = current
          BY <1>1, <3>1 DEF StartCommit, AtRest
      <4>2. current = k
          BY <1>3, <4>1
      <4>3. running'[u].files = TaskFiles(k)
          BY <4>1, <4>2
      <4>4. QED
          BY <1>2, <4>1, <4>3
    <3>2. CASE GuardCommit(u) \/ AddFiles(u)
      <4>1. running'[u].step # "idle" => /\ running'[u].step \in {"add", "staged"}
                                         /\ running'[u].files = running[u].files
                                         /\ running'[u].task = running[u].task
        <5>1. CASE GuardCommit(u)
            BY <1>1, <2>1, <5>1 DEF GuardCommit, Goes, Returns, AtRest, Jobs
        <5>2. CASE AddFiles(u)
          <6>1. running[u].files \in SUBSET Paths
              BY <2>1 DEF Jobs
          <6>2. /\ StagesFor(running[u].files, running) \in [Terminals -> Jobs]
                /\ StagesFor(running[u].files, running)[u].task = running[u].task
                /\ StagesFor(running[u].files, running)[u].files = running[u].files
              BY <1>1, <6>1, Overlooking
          <6>3. QED
              BY <5>2, <6>2 DEF AddFiles, Jobs
        <5>3. QED
            BY <3>2, <5>1, <5>2
      <4>2. running'[u].step # "idle" => running[u].files \subseteq TaskFiles(k)
          BY <1>3, <3>2, <4>1 DEF GuardCommit, AddFiles, Staging
      <4>3. QED
          BY <1>2, <4>1, <4>2
    <3>3. CASE CheckStaged(u)
      <4>1. CASE Returns(u)
          BY <1>1, <4>1 DEF Returns, AtRest
      <4>2. CASE /\ StagedFiles \subseteq running[u].files
                 /\ running' = [running EXCEPT ![u].step = "commit", ![u].overlooked = Renamed]
        <5>1. /\ running'[u].step = "commit" /\ running'[u].overlooked = Renamed
              /\ running'[u].task = running[u].task
            BY <1>1, <2>1, <4>2 DEF Jobs
        <5>2. running[u].files \subseteq TaskFiles(k)
            BY <1>3, <3>3, <5>1 DEF CheckStaged, Staging
        <5>3. Staged \subseteq running[u].files \cup Renamed
            BY <4>2 DEF StagedFiles
        <5>4. UNCHANGED <<index, head>>
            BY <3>3 DEF CheckStaged
        <5>5. Staged' = Staged
            BY <5>4 DEF Staged
        <5>6. QED
            BY <1>2, <5>1, <5>2, <5>3, <5>5
      <4>3. QED
          BY <3>3, <4>1, <4>2 DEF CheckStaged
    <3>4. CASE ~ StartCommit(u) /\ ~ GuardCommit(u) /\ ~ AddFiles(u) /\ ~ CheckStaged(u)
      <4>1. /\ running'[u].step \notin {"guard", "add", "staged", "commit"} \/ running' = running
        <5>1. CASE Commit(u) \/ Stop(u) \/ RecordOnTask(u)
            BY <1>1, <5>1 DEF Commit, Stop, RecordOnTask, Returns, AtRest
        <5>2. CASE Propose(u)
            BY <5>2 DEF Propose
        <5>3. CASE PreviewApply(u) \/ StartRollback(u)
            BY <1>1, <5>3 DEF PreviewApply, StartRollback, AtRest
        <5>4. CASE GuardApply(u) \/ GuardRollback(u)
            BY <1>1, <2>1, <5>4 DEF GuardApply, GuardRollback, Goes, Returns, AtRest, Jobs
        <5>5. CASE ConfirmApply(u) \/ ApplyChange(u) \/ Restore(u)
            BY <1>1, <2>1, <5>5 DEF ConfirmApply, ApplyChange, Restore, Jobs
        <5>6. QED
            BY <2>5, <3>4, <5>1, <5>2, <5>3, <5>4, <5>5 DEF GitStep
      <4>2. CASE running' = running
        <5>1. UNCHANGED <<index, head>> \/ (head' = index /\ UNCHANGED index)
            BY <2>5, <3>4
               DEF GitStep, Commit, GitCommits, Stop, Propose, PreviewApply, GuardApply, ConfirmApply,
                   ApplyChange, RecordOnTask, StartRollback, GuardRollback, Restore
        <5>2. Staged' \subseteq Staged
            BY <5>1 DEF Staged
        <5>3. QED
            BY <2>2, <4>2, <5>2
      <4>3. QED
          BY <4>1, <4>2
    <3>5. QED
        BY <3>1, <3>2, <3>3, <3>4
  <2>6. QED
      BY <2>3, <2>4, <2>5 DEF GitNext, GitStep, UserStep
<1>4. QED
    BY <1>3 DEF Staging

LEMMA CommittingStep ==
    ASSUME GitInductive, TracesGrow, GitNext \/ UNCHANGED gitVars
    PROVE  Committing'
<1>1. commits \in Seq([task : Tasks \cup {Nobody}, changed : SUBSET Paths, overlooked : SUBSET Paths])
    BY DEF GitInductive, GitTypeOK
<1>2. \A k \in Tasks : TaskFiles(k) \subseteq TaskFiles(k)'
    BY TaskFilesGrow DEF GitInductive
<1>3. ASSUME NEW n \in DOMAIN commits, NEW k \in Tasks, commits[n].task = k
      PROVE  commits[n].changed \subseteq TaskFiles(k)' \cup commits[n].overlooked
  <2>1. commits[n].changed \subseteq TaskFiles(k) \cup commits[n].overlooked
      BY <1>3 DEF GitInductive, Committing
  <2>2. QED
      BY <1>2, <2>1
<1>4. CASE UNCHANGED commits
    BY <1>3, <1>4 DEF Committing
<1>5. ASSUME NEW l, NEW o, GitCommits(l, o), l \in Tasks => Staged \subseteq TaskFiles(l) \cup o
      PROVE  Committing'
  <2>1. SUFFICES ASSUME NEW n \in DOMAIN commits', NEW k \in Tasks, commits'[n].task = k
                 PROVE  commits'[n].changed \subseteq TaskFiles(k)' \cup commits'[n].overlooked
      BY DEF Committing
  <2>2. commits' = Append(commits, [task |-> l, changed |-> Staged, overlooked |-> o])
      BY <1>5 DEF GitCommits
  <2>3. CASE n = Len(commits) + 1
    <3>1. commits'[n] = [task |-> l, changed |-> Staged, overlooked |-> o]
        BY <1>1, <2>2, <2>3
    <3>2. l = k
        BY <2>1, <3>1
    <3>3. Staged \subseteq TaskFiles(k) \cup o
        BY <1>5, <3>2
    <3>4. QED
        BY <1>2, <3>1, <3>3
  <2>4. CASE n # Len(commits) + 1
    <3>1. n \in DOMAIN commits /\ commits'[n] = commits[n]
        BY <1>1, <2>1, <2>2, <2>4
    <3>2. QED
        BY <1>3, <2>1, <3>1
  <2>5. QED
      BY <2>3, <2>4
<1>6. CASE \E t \in Terminals : Commit(t)
  <2>1. PICK t \in Terminals : Commit(t)
      BY <1>6
  <2>2. PICK k, o : k = running[t].task /\ o = running[t].overlooked
      OBVIOUS
  <2>3. running[t].step = "commit" /\ GitCommits(k, o)
      BY <2>1, <2>2 DEF Commit
  <2>4. k \in Tasks => Staged \subseteq TaskFiles(k) \cup o
      BY <2>2, <2>3 DEF GitInductive, Staging
  <2>5. QED
      BY <1>5, <2>3, <2>4
<1>7. CASE CommitByHand
    BY <1>5, <1>7, GitAssumption DEF CommitByHand
<1>8. UNCHANGED commits \/ CommitByHand \/ \E t \in Terminals : Commit(t)
    BY DEF GitNext, gitVars, StartCommit, GuardCommit, AddFiles, CheckStaged, Stop, Propose,
           PreviewApply, GuardApply, ConfirmApply, ApplyChange, RecordOnTask, StartRollback,
           GuardRollback, Restore, Save, Stage, Remove, SwitchTask
<1>9. QED
    BY <1>4, <1>6, <1>7, <1>8

THEOREM GitInvariant == GitSpec => []GitInductive
<1>1. GitInit => GitInductive
  <2> SUFFICES ASSUME GitInit PROVE GitInductive
      OBVIOUS
  <2>1. GitTypeOK
    <3>1. running \in [Terminals -> Jobs]
        BY RestIsJob DEF GitInit
    <3>2. QED
        BY <3>1, GitAssumption DEF GitInit, GitTypeOK
  <2>2. Delivering /\ Staging /\ Committing
      BY DEF GitInit, AtRest, Delivering, Staging, Committing
  <2>3. QED
      BY <2>1, <2>2 DEF GitInductive
<1>2. GitInductive /\ [GitNext]_gitVars => GitInductive'
  <2> SUFFICES ASSUME GitInductive, GitNext \/ UNCHANGED gitVars PROVE GitInductive'
      OBVIOUS
  <2>1. GitTypeOK /\ Delivering /\ Staging
      BY DEF GitInductive
  <2>2. GitTypeOK' /\ TracesGrow
      BY <2>1, GitTypesStep, TracesGrowStep
  <2>3. Delivering' /\ Staging' /\ Committing'
      BY <2>1, <2>2, DeliveringStep, StagingStep, CommittingStep
  <2>4. QED
      BY <2>2, <2>3 DEF GitInductive
<1>3. QED
    BY <1>1, <1>2, PTL DEF GitSpec

\* cli_commit.py, git/local.py: a commit of sac has only files of its task, for any
\* paths, contents, tasks, terminals and acts of the user, but for what somebody
\* stages after the last look at the index and the old names of renames.
THEOREM CommitsStayTheTasks == GitSpec => []CommitsAreTheTasks
<1>1. GitInductive => CommitsAreTheTasks
  <2> SUFFICES ASSUME GitInductive, NEW n \in DOMAIN commits, commits[n].task # Nobody
               PROVE  commits[n].changed \subseteq TaskFiles(commits[n].task) \cup commits[n].overlooked
      BY DEF CommitsAreTheTasks
  <2> DEFINE Entry == [task : Tasks \cup {Nobody}, changed : SUBSET Paths, overlooked : SUBSET Paths]
  <2>1. commits \in Seq(Entry)
      BY DEF GitInductive, GitTypeOK
  <2>2. commits[n].task \in Tasks
    <3>1. commits[n] \in Entry
      <4> HIDE DEF Entry
      <4>1. QED
          BY <2>1
    <3>2. QED
        BY <3>1
  <2>3. QED
      BY <2>2 DEF GitInductive, Committing
<1>2. QED
    BY GitInvariant, <1>1, PTL
=============================================================================
