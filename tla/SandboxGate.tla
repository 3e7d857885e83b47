----------------------------- MODULE SandboxGate -----------------------------
(***************************************************************************)
(* The life of a sandbox execution (sandbox/execution.py, approvals.py,    *)
(* preflight.py): propose, approve, preflight, claim, execute, record.     *)
(*                                                                         *)
(* Processes in Procs share .sac/pending_sandbox_execution.json, the       *)
(* result records and the user's approval files.  claim_for_execution      *)
(* guards its read-modify-write of an approval with a lock file, which     *)
(* anybody may take over once it is 60 seconds old.  An approval is bound  *)
(* to its proposal, so a grant number stands for the hashes in the file.   *)
(***************************************************************************)
EXTENDS Naturals, Sequences, FiniteSets

CONSTANTS
    Procs,
    Proposals,  \* a proposal id is never used twice
    Refused,    \* proposals that fail a preflight check other than the approval
    Disabled,   \* proposals whose backend is not enabled for real execution
    None,
    MaxGrants, MaxCrashes, MaxAged

Approval == [grant : Nat, consumed : BOOLEAN, expired : BOOLEAN]
LockFile == [by : Procs, old : BOOLEAN]

ASSUME GateAssumption ==
    /\ Refused \subseteq Proposals
    /\ Disabled \subseteq Proposals
    /\ None \notin Proposals /\ None \notin Approval /\ None \notin LockFile
    /\ {MaxGrants, MaxCrashes, MaxAged} \subseteq Nat

VARIABLES
    pending,    \* the pending proposal
    approvals,  \* per proposal: its approval file
    lock,       \* per proposal: the lock file beside it
    records,    \* per proposal: what its result record says
    \* the locals of a process
    pc,
    mine,       \* the proposal it works on
    data,       \* the approval as claim_for_execution has read it to write it back
    \* history, read by the properties only
    used,       \* proposals ever made
    grantee,    \* the proposal of every grant, in the order of the grants
    claims,     \* per grant: how often it was claimed
    dead,       \* grants that were consumed, revoked, replaced or have expired
    deadAtLock, \* per process: dead when it got the lock
    overtaken,  \* proposals whose lock was taken over
    swapped,    \* processes whose proposal was no longer the pending one at preflight
    returned,   \* proposals with an attempt that ended
    env         \* crashes and aged locks so far

shared == <<pending, approvals, lock, records>>
locals == <<pc, mine, data>>
claimHistory == <<claims, dead, deadAtLock, overtaken>>
history == <<used, grantee, claimHistory, swapped, returned>>
vars == <<shared, locals, history, env>>

Steps == {"idle", "propose", "approve", "loaded", "checked", "stale", "relock", "validate",
          "reread", "consume", "release", "granted", "denied", "ran", "failed", "recorded"}

\* is_approved; the bound fields match because ids are never reused.
Valid(a) == a # None /\ ~a.consumed /\ ~a.expired

Goto(p, step) == pc' = [pc EXCEPT ![p] = step]

\* A command of the CLI returns.
Return(p) ==
    /\ Goto(p, "idle")
    /\ mine' = [mine EXCEPT ![p] = None]
    /\ data' = [data EXCEPT ![p] = None]

-----------------------------------------------------------------------------
(* propose, discard, approve, revoke *)

\* SandboxExecutionProposalStore.create looks for a pending proposal ...
StartPropose(p) ==
    /\ pc[p] = "idle"
    /\ pending = None
    /\ \E P \in Proposals \ used :
        /\ used' = used \cup {P}
        /\ mine' = [mine EXCEPT ![p] = P]
    /\ Goto(p, "propose")
    /\ UNCHANGED <<shared, data, grantee, claimHistory, swapped, returned, env>>

\* ... and replaces whatever is there by now.
WriteProposal(p) ==
    /\ pc[p] = "propose"
    /\ pending' = mine[p]
    /\ Return(p)
    /\ UNCHANGED <<approvals, lock, records, history, env>>

Discard(p) ==
    /\ pc[p] = "idle"
    /\ pending # None
    /\ pending' = None
    /\ UNCHANGED <<approvals, lock, records, locals, history, env>>

StartApprove(p) ==
    /\ pc[p] = "idle"
    /\ pending # None
    /\ Len(grantee) + Cardinality({q \in Procs : pc[q] = "approve"}) < MaxGrants
    /\ mine' = [mine EXCEPT ![p] = pending]
    /\ Goto(p, "approve")
    /\ UNCHANGED <<shared, data, history, env>>

Fresh == [grant |-> Len(grantee) + 1, consumed |-> FALSE, expired |-> FALSE]

\* approve writes a fresh file, over one that was consumed as well.
WriteApproval(p) ==
    /\ pc[p] = "approve"
    /\ approvals' = [approvals EXCEPT ![mine[p]] = Fresh]
    /\ grantee' = Append(grantee, mine[p])
    /\ claims' = Append(claims, 0)
    /\ dead' = IF approvals[mine[p]] = None THEN dead ELSE dead \cup {approvals[mine[p]].grant}
    /\ Return(p)
    /\ UNCHANGED <<pending, lock, records, used, deadAtLock, overtaken, swapped, returned, env>>

\* revoke unlinks the approval of a proposal that is, or just was, pending.
Revoke ==
    /\ \E P \in Proposals :
        /\ approvals[P] # None
        /\ approvals' = [approvals EXCEPT ![P] = None]
        /\ dead' = dead \cup {approvals[P].grant}
    /\ UNCHANGED <<pending, lock, records, locals, used, grantee, claims, deadAtLock, overtaken,
                   swapped, returned, env>>

\* The clock passes expires_at.
Expire ==
    /\ \E P \in Proposals :
        /\ approvals[P] # None
        /\ ~approvals[P].expired
        /\ approvals' = [approvals EXCEPT ![P].expired = TRUE]
        /\ dead' = dead \cup {approvals[P].grant}
    /\ UNCHANGED <<pending, lock, records, locals, used, grantee, claims, deadAtLock, overtaken,
                   swapped, returned, env>>

-----------------------------------------------------------------------------
(* execute_pending up to the claim *)

LoadPending(p) ==
    /\ pc[p] = "idle"
    /\ pending # None
    /\ mine' = [mine EXCEPT ![p] = pending]
    /\ swapped' = swapped \ {p}
    /\ Goto(p, "loaded")
    /\ UNCHANGED <<shared, data, used, grantee, claimHistory, returned, env>>

\* Mutant: the preflight has lost its other checks.
PassesOnApproval(p) == pending # None /\ Valid(approvals[pending]) /\ mine[p] \notin Disabled

\* SandboxExecutionPreflight.run loads the pending proposal again: its checks are
\* about that one; real_execution_enabled is about the one loaded before.
Passes(p) ==
    /\ pending # None
    /\ pending \notin Refused
    /\ Valid(approvals[pending])
    /\ mine[p] \notin Disabled

Preflight(p) ==
    /\ pc[p] = "loaded"
    /\ Passes(p)
    /\ swapped' = IF pending = mine[p] THEN swapped ELSE swapped \cup {p}
    /\ Goto(p, "checked")
    /\ UNCHANGED <<shared, mine, data, used, grantee, claimHistory, returned, env>>

\* The proposal stays pending.
PreflightBlocks(p) ==
    /\ pc[p] = "loaded"
    /\ ~Passes(p)
    /\ Return(p)
    /\ UNCHANGED <<shared, history, env>>

-----------------------------------------------------------------------------
(* SandboxExecutionApprovalStore.claim_for_execution *)

Enter(p) ==
    /\ lock[mine[p]] = None
    /\ lock' = [lock EXCEPT ![mine[p]] = [by |-> p, old |-> FALSE]]
    /\ deadAtLock' = [deadAtLock EXCEPT ![p] = dead]
    /\ Goto(p, "validate")
    /\ UNCHANGED <<pending, approvals, records, mine, data, used, grantee, claims, dead,
                   overtaken, swapped, returned, env>>

\* os.open with O_EXCL makes the lock file.
TakeLock(p) == pc[p] = "checked" /\ Enter(p)

\* It exists: a lock older than 60 seconds is stale; a younger one, or one that
\* is gone when exists() looks, ends the claim.
LockBusy(p) ==
    /\ pc[p] = "checked"
    /\ lock[mine[p]] # None
    /\ Goto(p, "denied") \/ (lock[mine[p]].old /\ Goto(p, "stale"))
    /\ UNCHANGED <<shared, mine, data, history, env>>

\* The stale lock is unlinked, which may be another one by now, ...
UnlinkStale(p) ==
    /\ pc[p] = "stale"
    /\ lock' = [lock EXCEPT ![mine[p]] = None]
    /\ overtaken' = IF lock[mine[p]] = None THEN overtaken ELSE overtaken \cup {mine[p]}
    /\ Goto(p, "relock")
    /\ UNCHANGED <<pending, approvals, records, mine, data, used, grantee, claims, dead,
                   deadAtLock, swapped, returned, env>>

\* ... and made anew, unless somebody was faster.
Relock(p) == pc[p] = "relock" /\ Enter(p)

RelockFails(p) ==
    /\ pc[p] = "relock"
    /\ lock[mine[p]] # None
    /\ Goto(p, "denied")
    /\ UNCHANGED <<shared, mine, data, history, env>>

\* Mutant: only the presence of an approval is looked at.
ClaimablePresent(p) == approvals[mine[p]] # None

Claimable(p) == Valid(approvals[mine[p]])

Validate(p) ==
    /\ pc[p] = "validate"
    /\ Goto(p, IF Claimable(p) THEN "reread" ELSE "release")
    /\ UNCHANGED <<shared, mine, data, history, env>>

\* The file is read a second time, to be written back: it may have been
\* revoked or replaced since.
Reread(p) ==
    /\ pc[p] = "reread"
    /\ data' = [data EXCEPT ![p] = approvals[mine[p]]]
    /\ Goto(p, IF approvals[mine[p]] = None THEN "release" ELSE "consume")
    /\ UNCHANGED <<shared, mine, history, env>>

\* Mutant: the claim writes back what it has read.
ConsumedNot(a) == a

Consumed(a) == [a EXCEPT !.consumed = TRUE]

\* os.replace puts the consumed approval in place of whatever is there, also
\* where a revoke has left nothing.
Consume(p) ==
    /\ pc[p] = "consume"
    /\ LET there == approvals[mine[p]]
       IN  dead' = dead \cup {data[p].grant} \cup (IF there = None THEN {} ELSE {there.grant})
    /\ approvals' = [approvals EXCEPT ![mine[p]] = Consumed(data[p])]
    /\ claims' = [claims EXCEPT ![data[p].grant] = @ + 1]
    /\ Goto(p, "release")
    /\ UNCHANGED <<pending, lock, records, mine, data, used, grantee, deadAtLock, overtaken,
                   swapped, returned, env>>

\* The finally clause unlinks the lock, whoever made it.
Release(p) ==
    /\ pc[p] = "release"
    /\ lock' = [lock EXCEPT ![mine[p]] = None]
    /\ Goto(p, IF data[p] = None THEN "denied" ELSE "granted")
    /\ UNCHANGED <<pending, approvals, records, mine, data, history, env>>

-----------------------------------------------------------------------------
(* execute_pending after the claim *)

\* The executor of the backend runs the command, or reports that it could not.
Execute(p) ==
    /\ pc[p] = "granted"
    /\ \E outcome \in {"ran", "failed"} : Goto(p, outcome)
    /\ UNCHANGED <<shared, mine, data, history, env>>

\* One record per proposal: a later attempt overwrites an earlier one's.
SaveRecord(p) ==
    /\ pc[p] \in {"ran", "failed", "denied"}
    /\ records' = [records EXCEPT ![mine[p]] = pc[p]]
    /\ Goto(p, "recorded")
    /\ UNCHANGED <<pending, approvals, lock, mine, data, history, env>>

\* Mutant: only an attempt that got the approval clears the pending proposal.
CleanupClaimed(p) == pending' = IF data[p] = None THEN pending ELSE None

\* Whatever is pending now is discarded.
Cleanup(p) == pending' = None

Finish(p) ==
    /\ pc[p] = "recorded"
    /\ Cleanup(p)
    /\ returned' = returned \cup {mine[p]}
    /\ Return(p)
    /\ UNCHANGED <<approvals, lock, records, used, grantee, claimHistory, swapped, env>>

-----------------------------------------------------------------------------
(* The environment *)

Crash(p) ==
    /\ pc[p] # "idle"
    /\ env.crashes < MaxCrashes
    /\ env' = [env EXCEPT !.crashes = @ + 1]
    /\ Return(p)
    /\ UNCHANGED <<shared, history>>

\* Sixty seconds pass over a lock: its holder is slow, suspended or dead.
AgeLock ==
    /\ env.aged < MaxAged
    /\ env' = [env EXCEPT !.aged = @ + 1]
    /\ \E P \in Proposals :
        /\ lock[P] # None
        /\ ~lock[P].old
        /\ lock' = [lock EXCEPT ![P].old = TRUE]
    /\ UNCHANGED <<pending, approvals, records, locals, history>>

Init ==
    /\ pending = None
    /\ approvals = [P \in Proposals |-> None]
    /\ lock = [P \in Proposals |-> None]
    /\ records = [P \in Proposals |-> "none"]
    /\ pc = [p \in Procs |-> "idle"]
    /\ mine = [p \in Procs |-> None]
    /\ data = [p \in Procs |-> None]
    /\ used = {}
    /\ grantee = <<>>
    /\ claims = <<>>
    /\ dead = {}
    /\ deadAtLock = [p \in Procs |-> {}]
    /\ overtaken = {}
    /\ swapped = {}
    /\ returned = {}
    /\ env = [crashes |-> 0, aged |-> 0]

Managing(p) == StartPropose(p) \/ WriteProposal(p) \/ Discard(p) \/ StartApprove(p) \/ WriteApproval(p)

Claiming(p) ==
    \/ TakeLock(p) \/ LockBusy(p) \/ UnlinkStale(p) \/ Relock(p) \/ RelockFails(p)
    \/ Validate(p) \/ Reread(p) \/ Consume(p) \/ Release(p)

Executing(p) ==
    \/ LoadPending(p) \/ Preflight(p) \/ PreflightBlocks(p)
    \/ Execute(p) \/ SaveRecord(p) \/ Finish(p)

Next ==
    \/ \E p \in Procs : Managing(p) \/ Claiming(p) \/ Executing(p) \/ Crash(p)
    \/ Revoke \/ Expire \/ AgeLock

Spec == Init /\ [][Next]_vars

-----------------------------------------------------------------------------
(* Properties *)

\* Every variable holds a value of its kind.
TypeOK ==
    /\ pending \in Proposals \cup {None}
    /\ approvals \in [Proposals -> Approval \cup {None}]
    /\ lock \in [Proposals -> LockFile \cup {None}]
    /\ records \in [Proposals -> {"none", "ran", "failed", "denied"}]
    /\ pc \in [Procs -> Steps]
    /\ mine \in [Procs -> Proposals \cup {None}]
    /\ data \in [Procs -> Approval \cup {None}]
    /\ used \subseteq Proposals
    /\ grantee \in Seq(Proposals)
    /\ claims \in Seq(Nat) /\ Len(claims) = Len(grantee)
    /\ dead \subseteq DOMAIN grantee
    /\ deadAtLock \in [Procs -> SUBSET DOMAIN grantee]
    /\ overtaken \subseteq Proposals
    /\ swapped \subseteq Procs
    /\ returned \subseteq Proposals
    /\ env \in [crashes : Nat, aged : Nat]

\* docs/public-contracts.md:489: an approval is good for one execution.  As long
\* as nobody takes over the lock of its proposal, no two claims both get it.
SingleClaim ==
    \A g \in DOMAIN grantee : grantee[g] \notin overtaken => claims[g] <= 1

\* docs/public-contracts.md:489-493, revoke: an approval that was consumed,
\* revoked, replaced or had expired before a claim got the lock is not what
\* that claim consumes, whatever revoke and approve do while it runs.
NoClaimOfDead ==
    \A p \in Procs : pc[p] = "consume" /\ mine[p] \notin overtaken =>
        data[p].grant \notin deadAtLock[p]

\* docs/public-contracts.md:169: what runs has passed the preflight, unless the
\* pending proposal was replaced between the load and the preflight.
PreflightCovers ==
    \A p \in Procs : pc[p] \in {"granted", "ran"} => mine[p] \notin Refused \/ p \in swapped

\* execute_pending, v1.8.3: once an attempt has returned, whether it ran or was
\* denied, its proposal has a record and is not pending, so it is not retried.
ReturnedIsSettled ==
    \A P \in returned : pending # P /\ records[P] # "none"

-----------------------------------------------------------------------------
(* What the comments say and the code does not do *)

\* approvals.py:156-161, docs/public-contracts.md:167: the claim is atomic, "so
\* no concurrent caller can claim the same approval".
ClaimIsAtomic == \A g \in DOMAIN claims : claims[g] <= 1
=============================================================================
