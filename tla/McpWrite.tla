------------------------------ MODULE McpWrite ------------------------------
(***************************************************************************)
(* MCP tool calls (mcp/proposal.py, approval_grant.py, runner.py,          *)
(* loop_executor.py, native_bridge.py): a write is proposed, and executed  *)
(* either by the agent because the proposal was approved, or by sac mcp    *)
(* execute with a grant.  Read-only calls run at once and change nothing   *)
(* here.                                                                   *)
(*                                                                         *)
(* Processes share .sac/pending_mcp_call.json, which is written in place,  *)
(* and the grants outside the project; nothing is locked.  A call is a     *)
(* server's tool with its input; what it does there is outside the model.  *)
(***************************************************************************)
EXTENDS Naturals, Sequences, FiniteSets, Functions

CONSTANTS
    Hosts,
    Calls, Writes,  \* all calls; those that the server's settings, and the limits, let be proposed
    Tool,     \* the server and tool of a call
    Payload,  \* what a proposal keeps of a call: its tool and its redacted input
    NoCall, Absent, TornFile,
    MaxProposals, MaxGrants, MaxFaults

Ids == 1..MaxProposals
Proposal == [id : Ids, status : {"pending", "approved", "rejected"}]

ASSUME McpAssumption ==
    /\ Writes \subseteq Calls
    /\ NoCall \notin Calls
    /\ {Absent, TornFile} \cap Proposal = {} /\ Absent # TornFile
    /\ MaxProposals \in Nat /\ MaxGrants \in Nat /\ MaxFaults \in Nat

VARIABLES
    pending,  \* pending_mcp_call.json: Absent, TornFile or a proposal
    grants,   \* the proposals with a grant file
    \* the callState of a process
    at,
    call,     \* the call it makes or proposes
    draft,    \* the proposal it writes, or works for
    \* traces, read by the properties only
    asked,    \* the call of every proposal, in their order
    blessed,  \* proposals that were approved on disk
    refused,  \* proposals that were rejected on disk
    given, revoked,  \* how many grants each proposal got and lost again
    ran,      \* calls executed for a proposal, with whether it was rejected when checked
    times,    \* how often each proposal was executed because of its approval ...
    spent,    \* ... and how often with a grant
    raced,    \* proposals with two processes in one critical section, or with
              \* an execution that was cut short
    faults

files == <<pending, grants>>
callState == <<at, call, draft>>
decisions == <<asked, blessed, refused, given, revoked>>
executions == <<ran, times, spent>>
traces == <<decisions, executions, raced>>
mcpVars == <<files, callState, traces, faults>>

NoDraft == [id |-> 0, status |-> "pending"]

GoesTo(p, step) == at' = [at EXCEPT ![p] = step]
Answers(p) ==
    /\ GoesTo(p, "idle")
    /\ call' = [call EXCEPT ![p] = NoCall]
    /\ draft' = [draft EXCEPT ![p] = NoDraft]

\* load_pending: a file that cannot be parsed is no proposal.
Loads == pending \notin {Absent, TornFile}

\* The proposals of the other processes that are at one of these steps.
Inside(p, steps) == {draft[q].id : q \in {r \in Hosts \ {p} : at[r] \in steps}}

\* Process p enters a section over proposal i that others may be in.
Enter(p, i, steps, ids) ==
    raced' = IF Inside(p, steps) \cap ids = {} THEN raced
             ELSE raced \cup {i} \cup (Inside(p, steps) \cap ids)

-----------------------------------------------------------------------------
(* Proposals.                                                              *)

\* propose_write: create looks for a file and, if there is none, writes one.
StartPropose(p) ==
    /\ at[p] = "idle" /\ Len(asked) < MaxProposals
    /\ pending = Absent
    /\ \E c \in Calls : c \in Writes /\ asked' = Append(asked, c)
    /\ draft' = [draft EXCEPT ![p] = [id |-> Len(asked) + 1, status |-> "pending"]]
    /\ GoesTo(p, "write")
    /\ Enter(p, Len(asked) + 1, {"write"}, Ids)
    /\ UNCHANGED <<files, call, blessed, refused, given, revoked, executions, faults>>

MayApprove(status) == status = "pending"

\* approve_pending and reject_pending read the proposal and write all of it
\* back; the second accepts any status.
StartDecide(p) ==
    /\ at[p] = "idle" /\ Loads
    /\ \E new \in {"approved", "rejected"} :
         /\ new = "approved" => MayApprove(pending.status)
         /\ draft' = [draft EXCEPT ![p] = [id |-> pending.id, status |-> new]]
    /\ GoesTo(p, "write")
    /\ Enter(p, pending.id, {"write"}, Ids)
    /\ UNCHANGED <<files, call, decisions, executions, faults>>

\* _write.  Whoever reads between its truncation and its end sees no proposal and
\* does nothing, so the two are one step; a kill between them leaves a torn file.
Write(p) ==
    /\ at[p] = "write"
    /\ pending' = draft[p]
    /\ blessed' = IF draft[p].status = "approved" THEN blessed \cup {draft[p].id} ELSE blessed
    /\ refused' = IF draft[p].status = "rejected" THEN refused \cup {draft[p].id} ELSE refused
    /\ Answers(p)
    /\ UNCHANGED <<grants, asked, given, revoked, executions, raced, faults>>

\* sac mcp discard removes the file, also one that cannot be parsed.
Discard(p) ==
    /\ at[p] = "idle" /\ pending # Absent
    /\ pending' = Absent
    /\ UNCHANGED <<grants, callState, traces, faults>>

-----------------------------------------------------------------------------
(* Grants.                                                                 *)

\* Bounded by MaxGrants.
Grants == FoldFunction(+, 0, given)

\* grant refuses while there is one for the proposal.
Grant(i) ==
    /\ i \in 1..Len(asked) /\ i \notin grants /\ Grants < MaxGrants
    /\ grants' = grants \cup {i}
    /\ given' = [given EXCEPT ![i] = @ + 1]
    /\ UNCHANGED <<pending, callState, asked, blessed, refused, revoked, executions, raced,
                   faults>>

Revoke(i) ==
    /\ i \in grants
    /\ grants' = grants \ {i}
    /\ revoked' = [revoked EXCEPT ![i] = @ + 1]
    /\ raced' = IF \E q \in Hosts : at[q] = "consume" /\ draft[q].id = i
                THEN raced \cup {i} ELSE raced
    /\ UNCHANGED <<pending, callState, asked, blessed, refused, given, executions, faults>>

-----------------------------------------------------------------------------
(* The agent executes an approved proposal.                                *)

\* _find_approved_write_proposal looks at the tool only.
FindApproved(p) ==
    /\ at[p] = "idle" /\ Loads
    /\ pending.status = "approved"
    /\ \E c \in Calls :
         /\ Tool[c] = Tool[asked[pending.id]]
         /\ call' = [call EXCEPT ![p] = c]
    /\ draft' = [draft EXCEPT ![p] = pending]
    /\ GoesTo(p, "found")
    /\ UNCHANGED <<files, traces, faults>>

\* Mutant: the input is not compared with the one that was reviewed.
SameTool(i, c) == Tool[c] = Tool[asked[i]]

SameAsReviewed(i, c) == Payload[c] = Payload[asked[i]]

Executing == {"cleared", "ran"}

\* MCPApprovedWriteExecutor.execute loads the proposal again and compares.
Check(p) ==
    /\ at[p] = "found"
    /\ IF /\ Loads /\ pending.status = "approved" /\ pending.id = draft[p].id
          /\ SameAsReviewed(pending.id, call[p])
       THEN /\ GoesTo(p, "cleared")
            /\ Enter(p, pending.id, Executing, {pending.id})
            /\ draft' = [draft EXCEPT ![p].status =
                            IF pending.id \in refused THEN "rejected" ELSE "approved"]
            /\ UNCHANGED call
       ELSE Answers(p) /\ UNCHANGED raced
    /\ UNCHANGED <<files, decisions, executions, faults>>

\* execute_approved_write looks at whether the server is enabled, the command
\* policy, the network and sizes, and may block it before anything runs; a
\* server that does not answer in time counts as blocked but may have run.
RunApproved(p) ==
    /\ at[p] = "cleared"
    /\ \/ /\ ran' = ran \cup {[id |-> draft[p].id, call |-> call[p],
                               dead |-> draft[p].status = "rejected"]}
          /\ times' = [times EXCEPT ![draft[p].id] = @ + 1]
       \/ UNCHANGED <<ran, times>>
    /\ GoesTo(p, "ran")
    /\ UNCHANGED <<files, call, draft, decisions, spent, raced, faults>>

\* Mutant: a blocked or timed-out execution leaves its proposal.
DiscardIfDone(p) ==
    /\ at[p] = "ran"
    /\ pending' \in {pending, Absent}
    /\ Answers(p)
    /\ UNCHANGED <<grants, decisions, executions, raced, faults>>

\* discard_pending after an execution, whatever its outcome; whatever is pending goes.
DiscardAfter(p) ==
    /\ at[p] = "ran"
    /\ pending' = Absent
    /\ Answers(p)
    /\ UNCHANGED <<grants, decisions, executions, raced, faults>>

-----------------------------------------------------------------------------
(* sac mcp execute spends a grant.                                         *)

\* consume reads the grant.  The call is that of the command line, and nothing
\* compares it with the proposal, so it is no part of the state.
StartGranted(p) ==
    /\ at[p] = "idle"
    /\ \E i \in grants :
         /\ draft' = [draft EXCEPT ![p] = [id |-> i, status |-> "approved"]]
         /\ Enter(p, i, {"consume"}, {i})
    /\ GoesTo(p, "consume")
    /\ UNCHANGED <<files, call, decisions, executions, faults>>

Unlink(p) ==
    /\ at[p] = "consume"
    /\ grants' = grants \ {draft[p].id}
    /\ GoesTo(p, "consumed")
    /\ UNCHANGED <<pending, call, draft, traces, faults>>

\* An unlink that fails is ignored.
UnlinkFails(p) ==
    /\ at[p] = "consume" /\ faults < MaxFaults
    /\ faults' = faults + 1
    /\ raced' = raced \cup {draft[p].id}
    /\ GoesTo(p, "consumed")
    /\ UNCHANGED <<files, call, draft, decisions, executions>>

\* The rest of execute_granted_write; a blocked one returns without a discard.
RunGranted(p) ==
    /\ at[p] = "consumed"
    /\ \/ /\ spent' = [spent EXCEPT ![draft[p].id] = @ + 1]
          /\ GoesTo(p, "ran")
          /\ UNCHANGED <<call, draft>>
       \/ Answers(p) /\ UNCHANGED spent
    /\ UNCHANGED <<files, decisions, ran, times, raced, faults>>

-----------------------------------------------------------------------------
\* A kill, or an audit write that raises: what the process had begun stays as it is.
Stop(p) ==
    /\ at[p] # "idle" /\ faults < MaxFaults
    /\ faults' = faults + 1
    /\ raced' = IF at[p] = "ran" THEN raced \cup {draft[p].id} ELSE raced
    /\ pending' \in {pending} \cup (IF at[p] = "write" THEN {TornFile} ELSE {})
    /\ Answers(p)
    /\ UNCHANGED <<grants, decisions, executions>>

McpInit ==
    /\ pending = Absent /\ grants = {}
    /\ at = [p \in Hosts |-> "idle"]
    /\ call = [p \in Hosts |-> NoCall]
    /\ draft = [p \in Hosts |-> NoDraft]
    /\ asked = <<>> /\ blessed = {} /\ refused = {}
    /\ given = [i \in Ids |-> 0] /\ revoked = [i \in Ids |-> 0]
    /\ ran = {} /\ raced = {}
    /\ times = [i \in Ids |-> 0] /\ spent = [i \in Ids |-> 0]
    /\ faults = 0

McpStep(p) ==
    \/ StartPropose(p) \/ StartDecide(p) \/ Write(p) \/ Discard(p)
    \/ FindApproved(p) \/ Check(p) \/ RunApproved(p) \/ DiscardAfter(p)
    \/ StartGranted(p) \/ Unlink(p) \/ UnlinkFails(p) \/ RunGranted(p)
    \/ Stop(p)

McpNext ==
    \/ \E p \in Hosts : McpStep(p)
    \/ \E i \in Ids : Grant(i) \/ Revoke(i)

McpSpec == McpInit /\ [][McpNext]_mcpVars

-----------------------------------------------------------------------------
\* Every variable has its type.
McpTypeOK ==
    /\ pending \in Proposal \cup {Absent, TornFile}
    /\ grants \subseteq Ids
    /\ at \in [Hosts -> {"idle", "write", "found", "cleared", "ran", "consume", "consumed"}]
    /\ call \in [Hosts -> Calls \cup {NoCall}]
    /\ draft \in [Hosts -> [id : Ids \cup {0}, status : {"pending", "approved", "rejected"}]]
    /\ asked \in Seq(Calls) /\ Len(asked) <= MaxProposals
    /\ blessed \subseteq Ids /\ refused \subseteq Ids /\ raced \subseteq Ids
    /\ given \in [Ids -> Nat] /\ revoked \in [Ids -> Nat]
    /\ ran \subseteq [id : Ids, call : Calls, dead : BOOLEAN]
    /\ times \in [Ids -> Nat] /\ spent \in [Ids -> Nat]
    /\ faults \in 0..MaxFaults

\* An approved proposal is executed once, also when the first execution was
\* blocked half-way or timed out, and each of its grants is there, was revoked, or
\* has let one execution happen at most; unless two processes executed, decided or
\* consumed it at the same time, an execution was cut short before the
\* discard, or a grant could not be deleted.
ApprovedRunsOnce ==
    \A i \in Ids \ raced :
        /\ times[i] <= 1
        /\ spent[i] + revoked[i] + (IF i \in grants THEN 1 ELSE 0) <= given[i]

\* What the agent executes was approved, with the tool and the redacted input that
\* were reviewed, and had not been rejected by the time it was checked.
WritesArePermitted ==
    \A r \in ran :
        /\ r.id \in blessed
        /\ Payload[r.call] = Payload[asked[r.id]]
        /\ r.dead => r.id \in raced
=============================================================================
