---------------------------- MODULE McpWriteProofs ----------------------------
(***************************************************************************)
(* Theorems about McpWrite, for any number of processes, calls, proposals, *)
(* grants and faults.                                                      *)
(*                                                                         *)
(* Every part of Inductive ties what a process has read, and works with,   *)
(* to the file it read it from, or to raced: who was alone with a proposal *)
(* knows that its file has not changed.                                    *)
(***************************************************************************)
EXTENDS McpWrite, FiniteSetTheorems, TLAPS

\* The proposals made so far, and those without a race.
Made == 1..Len(asked)
Alone == Made \ raced

\* Who works works for a proposal, and who executes it makes a call.
Working ==
    /\ pending \notin {Absent, TornFile} => pending.id \in Made
    /\ grants \cup blessed \cup refused \cup raced \subseteq Made
    /\ \A p \in Hosts :
         /\ at[p] # "idle" => draft[p].id \in Made
         /\ at[p] \in {"found", "cleared"} => call[p] \in Calls

\* Two processes that are about to write a proposal, to execute one because it
\* was approved, or to delete its grant know of the race.
Races ==
    \A p, q \in Hosts : p # q =>
        /\ at[p] = "write" /\ at[q] = "write" => draft[p].id \in raced
        /\ at[p] = "cleared" /\ at[q] = "cleared" /\ draft[p].id = draft[q].id
             => draft[p].id \in raced
        /\ at[p] = "consume" /\ at[q] = "consume" /\ draft[p].id = draft[q].id
             => draft[p].id \in raced

\* Proposal i, with a status in st, is on disk or will be.
OnDisk(i, st) == pending \notin {Absent, TornFile} /\ pending.id = i /\ pending.status \in st
ToBe(i, st) == \E p \in Hosts : at[p] = "write" /\ draft[p].id = i /\ draft[p].status \in st

\* A status is only ever replaced by a later one.
Ordered ==
    /\ \A i \in Made : OnDisk(i, {"approved"}) => i \in blessed
    /\ \A i \in Alone :
         /\ i \in refused => ~ OnDisk(i, {"pending", "approved"}) /\ ~ ToBe(i, {"pending", "approved"})
         /\ i \in blessed => ~ OnDisk(i, {"pending"}) /\ ~ ToBe(i, {"pending", "approved"})

\* Who was let through executes what was reviewed.
Cleared ==
    \A p \in Hosts : at[p] = "cleared" =>
        /\ draft[p].id \in blessed
        /\ SameAsReviewed(draft[p].id, call[p])
        /\ draft[p].status = "rejected" => draft[p].id \in raced

\* After an execution nobody else is let through, and the file is there only as
\* long as somebody is about to discard it.
Once ==
    \A i \in Ids : times[i] > 0 =>
        /\ i \in blessed
        /\ i \notin raced =>
             /\ times[i] = 1
             /\ \A p \in Hosts : at[p] = "cleared" => draft[p].id # i
             /\ OnDisk(i, {"approved"}) => \E p \in Hosts : at[p] = "ran" /\ draft[p].id = i

\* Those that have deleted a grant of the proposal.
Holders(i) == {p \in Hosts : at[p] = "consumed" /\ draft[p].id = i}

\* A grant is there, was revoked, is held by somebody, or let one execution happen.
Counted ==
    \A i \in Ids :
        /\ IsFiniteSet(Holders(i))
        /\ i \notin raced =>
             /\ \A p \in Hosts : at[p] = "consume" /\ draft[p].id = i => i \in grants
             /\ spent[i] + revoked[i] + (IF i \in grants THEN 1 ELSE 0) + Cardinality(Holders(i))
                  <= given[i]

\* What was executed had been made.
Recorded == \A r \in ran : r.id \in Made

Inductive ==
    /\ McpTypeOK /\ Working /\ Races /\ Ordered /\ Cleared /\ Once /\ Counted /\ Recorded
    /\ WritesArePermitted

-----------------------------------------------------------------------------
LEMMA NextSteps ==
    McpNext <=> (\E p \in Hosts : McpStep(p)) \/ (\E i \in Ids : Grant(i) \/ Revoke(i))
BY DEF McpNext

\* A check lets the process through, or sends it back with nothing changed.
Passes(p) ==
    /\ Loads /\ pending.status = "approved" /\ pending.id = draft[p].id
    /\ SameAsReviewed(pending.id, call[p])
    /\ at' = [at EXCEPT ![p] = "cleared"] /\ call' = call
    /\ Enter(p, pending.id, Executing, {pending.id})
    /\ draft' = [draft EXCEPT ![p].status = IF pending.id \in refused THEN "rejected" ELSE "approved"]

LEMMA CheckOutcomes ==
    ASSUME NEW p, Check(p)
    PROVE  /\ at[p] = "found" /\ UNCHANGED <<files, decisions, executions, faults>>
           /\ Passes(p) \/ (Answers(p) /\ raced' = raced)
BY DEF Check, Passes, GoesTo

\* A count of the proposals stays one.
LEMMA CountUp ==
    ASSUME NEW f \in [Ids -> Nat], NEW i \in Ids
    PROVE  [f EXCEPT ![i] = f[i] + 1] \in [Ids -> Nat]
<1>1. f[i] \in Nat
    OBVIOUS
<1>2. f[i] + 1 \in Nat
    BY <1>1
<1>3. QED
    BY <1>2

\* Types hold at first and are kept by every step.
LEMMA TypeStep == ASSUME McpTypeOK, Working, [McpNext]_mcpVars PROVE McpTypeOK'
<1> USE McpAssumption
<1>1. CASE UNCHANGED mcpVars
    BY <1>1 DEF McpTypeOK, mcpVars, files, callState, traces, decisions, executions
<1>2. ASSUME NEW p \in Hosts, McpStep(p) PROVE McpTypeOK'
  <2> USE DEF files, callState, traces, decisions, executions, GoesTo
  <2>1. CASE StartPropose(p)
    <3>1. PICK c \in Calls : c \in Writes /\ asked' = Append(asked, c)
        BY <2>1 DEF StartPropose
    <3>2. asked' \in Seq(Calls) /\ Len(asked') = Len(asked) + 1 /\ Len(asked) \in Nat
        BY <3>1 DEF McpTypeOK
    <3>3. Len(asked') <= MaxProposals /\ Len(asked) + 1 \in Ids
        BY <2>1, <3>2 DEF McpTypeOK, StartPropose, Ids
    <3>4. raced' \subseteq Ids
        BY <2>1, <3>3 DEF McpTypeOK, StartPropose, Enter, Ids
    <3>5. QED
        BY <2>1, <3>2, <3>3, <3>4 DEF McpTypeOK, StartPropose
  <2>2. CASE StartDecide(p)
    <3>1. pending \in Proposal
        BY <2>2 DEF McpTypeOK, StartDecide, Loads
    <3>2. raced' \subseteq Ids
        BY <2>2, <3>1 DEF McpTypeOK, StartDecide, Enter, Proposal
    <3>3. PICK new \in {"approved", "rejected"} :
             draft' = [draft EXCEPT ![p] = [id |-> pending.id, status |-> new]]
        BY <2>2 DEF StartDecide
    <3>4. draft' \in [Hosts -> [id : Ids \cup {0}, status : {"pending", "approved", "rejected"}]]
        BY <3>1, <3>3 DEF McpTypeOK, Proposal
    <3>5. QED
        BY <2>2, <3>2, <3>4 DEF McpTypeOK, StartDecide
  <2>3. CASE Write(p)
    <3>1. draft[p] \in Proposal
        BY <2>3 DEF McpTypeOK, Working, Write, Proposal, Made, Ids
    <3>2. QED
        BY <2>3, <3>1 DEF McpTypeOK, Write, Answers, NoDraft, Proposal
  <2>4. CASE Discard(p)
      BY <2>4 DEF McpTypeOK, Discard
  <2>5. CASE FindApproved(p)
      BY <2>5 DEF McpTypeOK, FindApproved, Loads, Proposal
  <2>6. CASE Check(p)
    <3>1. CASE Passes(p)
      <4>1. pending \in Proposal
          BY <3>1 DEF McpTypeOK, Passes, Loads
      <4>2. raced' \subseteq Ids
          BY <3>1, <4>1 DEF McpTypeOK, Passes, Enter, Proposal
      <4>3. draft' \in [Hosts -> [id : Ids \cup {0}, status : {"pending", "approved", "rejected"}]]
        <5>1. draft[p] \in [id : Ids \cup {0}, status : {"pending", "approved", "rejected"}]
            BY DEF McpTypeOK
        <5>2. PICK new \in {"approved", "rejected"} : draft' = [draft EXCEPT ![p].status = new]
            BY <3>1 DEF Passes
        <5>3. QED
            BY <5>1, <5>2 DEF McpTypeOK
      <4>4. at' \in [Hosts -> {"idle", "write", "found", "cleared", "ran", "consume", "consumed"}]
          BY <3>1 DEF McpTypeOK, Passes
      <4>5. QED
          BY <2>6, <3>1, <4>2, <4>3, <4>4, CheckOutcomes DEF McpTypeOK, Passes
    <3>2. CASE Answers(p) /\ raced' = raced
        BY <2>6, <3>2, CheckOutcomes DEF McpTypeOK, Answers, NoDraft
    <3>3. QED
        BY <2>6, <3>1, <3>2, CheckOutcomes
  <2>7. CASE RunApproved(p)
    <3>1. draft[p].id \in Ids /\ call[p] \in Calls
        BY <2>7 DEF McpTypeOK, Working, RunApproved, Made, Ids
    <3>2. ran' \subseteq [id : Ids, call : Calls, dead : BOOLEAN]
      <4>1. [id |-> draft[p].id, call |-> call[p], dead |-> draft[p].status = "rejected"]
              \in [id : Ids, call : Calls, dead : BOOLEAN]
        <5>1. (draft[p].status = "rejected") \in BOOLEAN
            OBVIOUS
        <5>2. QED
            BY <3>1, <5>1
      <4>2. ran' = ran \/
            ran' = ran \cup {[id |-> draft[p].id, call |-> call[p],
                              dead |-> draft[p].status = "rejected"]}
          BY <2>7 DEF RunApproved
      <4>3. QED
          BY <4>1, <4>2 DEF McpTypeOK
    <3>3. times' = times \/ times' = [times EXCEPT ![draft[p].id] = times[draft[p].id] + 1]
        BY <2>7 DEF RunApproved
    <3>4. times' \in [Ids -> Nat]
      <4>1. times \in [Ids -> Nat]
          BY DEF McpTypeOK
      <4>2. [times EXCEPT ![draft[p].id] = times[draft[p].id] + 1] \in [Ids -> Nat]
          BY <3>1, <4>1, CountUp
      <4>3. QED
          BY <3>3, <4>1, <4>2
    <3>5. QED
        BY <2>7, <3>2, <3>4 DEF McpTypeOK, RunApproved
  <2>8. CASE DiscardAfter(p)
      BY <2>8 DEF McpTypeOK, DiscardAfter, Answers, NoDraft
  <2>9. CASE StartGranted(p)
    <3>1. raced' \subseteq Ids
        BY <2>9 DEF McpTypeOK, StartGranted, Enter
    <3>2. QED
        BY <2>9, <3>1 DEF McpTypeOK, StartGranted
  <2>10. CASE Unlink(p)
      BY <2>10 DEF McpTypeOK, Unlink
  <2>11. CASE UnlinkFails(p)
    <3>1. draft[p].id \in Ids
        BY <2>11 DEF McpTypeOK, Working, UnlinkFails, Made, Ids
    <3>2. QED
        BY <2>11, <3>1 DEF McpTypeOK, UnlinkFails
  <2>12. CASE RunGranted(p)
    <3>1. draft[p].id \in Ids
        BY <2>12 DEF McpTypeOK, Working, RunGranted, Made, Ids
    <3>2. spent' = spent \/ spent' = [spent EXCEPT ![draft[p].id] = spent[draft[p].id] + 1]
        BY <2>12 DEF RunGranted
    <3>3. spent' \in [Ids -> Nat]
      <4>1. spent \in [Ids -> Nat]
          BY DEF McpTypeOK
      <4>2. [spent EXCEPT ![draft[p].id] = spent[draft[p].id] + 1] \in [Ids -> Nat]
          BY <3>1, <4>1, CountUp
      <4>3. QED
          BY <3>2, <4>1, <4>2
    <3>4. at' \in [Hosts -> {"idle", "write", "found", "cleared", "ran", "consume", "consumed"}]
        BY <2>12 DEF McpTypeOK, RunGranted, Answers
    <3>5. call' \in [Hosts -> Calls \cup {NoCall}]
        BY <2>12 DEF McpTypeOK, RunGranted, Answers
    <3>6. draft' \in [Hosts -> [id : Ids \cup {0}, status : {"pending", "approved", "rejected"}]]
      <4>1. NoDraft \in [id : Ids \cup {0}, status : {"pending", "approved", "rejected"}]
          BY DEF NoDraft
      <4>2. draft' = draft \/ draft' = [draft EXCEPT ![p] = NoDraft]
          BY <2>12 DEF RunGranted, Answers
      <4>3. draft \in [Hosts -> [id : Ids \cup {0}, status : {"pending", "approved", "rejected"}]]
          BY DEF McpTypeOK
      <4>4. QED
          BY <4>1, <4>2, <4>3
    <3>7. QED
        BY <2>12, <3>3, <3>4, <3>5, <3>6 DEF McpTypeOK, RunGranted
  <2>13. CASE Stop(p)
    <3>1. draft[p].id \in Ids
        BY <2>13 DEF McpTypeOK, Working, Stop, Made, Ids
    <3>2. QED
        BY <2>13, <3>1 DEF McpTypeOK, Stop, Answers, NoDraft
  <2>14. QED
      BY <1>2, <2>1, <2>2, <2>3, <2>4, <2>5, <2>6, <2>7, <2>8, <2>9, <2>10, <2>11, <2>12, <2>13
         DEF McpStep
<1>3. ASSUME NEW i \in Ids, Grant(i) \/ Revoke(i) PROVE McpTypeOK'
  <2>1. given' \in [Ids -> Nat] /\ revoked' \in [Ids -> Nat]
    <3>1. given' \in {given, [given EXCEPT ![i] = given[i] + 1]}
            /\ revoked' \in {revoked, [revoked EXCEPT ![i] = revoked[i] + 1]}
        BY <1>3 DEF Grant, Revoke
    <3>2. given \in [Ids -> Nat] /\ revoked \in [Ids -> Nat]
        BY DEF McpTypeOK
    <3>3. [given EXCEPT ![i] = given[i] + 1] \in [Ids -> Nat]
            /\ [revoked EXCEPT ![i] = revoked[i] + 1] \in [Ids -> Nat]
        BY <3>2, CountUp
    <3>4. QED
        BY <3>1, <3>2, <3>3
  <2>2. QED
      BY <1>3, <2>1 DEF McpTypeOK, Grant, Revoke, callState, executions
<1>4. QED
    BY <1>1, <1>2, <1>3, NextSteps

-----------------------------------------------------------------------------
\* What a step of a process leaves to the others and to the histories.
LEMMA Frame ==
    ASSUME McpTypeOK, NEW p \in Hosts, McpStep(p)
    PROVE  /\ \A q \in Hosts : q # p => at'[q] = at[q] /\ draft'[q] = draft[q] /\ call'[q] = call[q]
           /\ Made \subseteq Made' /\ \A i \in Made : asked'[i] = asked[i]
           /\ raced \subseteq raced' /\ blessed \subseteq blessed' /\ refused \subseteq refused'
<1> USE DEF files, callState, traces, decisions, executions, GoesTo, Answers, Made, Enter, McpTypeOK
<1> Len(asked) \in Nat
    OBVIOUS
<1>1. CASE StartPropose(p)
    BY <1>1 DEF StartPropose
<1>2. CASE StartDecide(p)
    BY <1>2 DEF StartDecide
<1>3. CASE Write(p)
    BY <1>3 DEF Write
<1>4. CASE Discard(p)
    BY <1>4 DEF Discard
<1>5. CASE FindApproved(p)
    BY <1>5 DEF FindApproved
<1>6. CASE Check(p)
    BY <1>6, CheckOutcomes DEF Passes
<1>7. CASE RunApproved(p)
    BY <1>7 DEF RunApproved
<1>8. CASE DiscardAfter(p)
    BY <1>8 DEF DiscardAfter
<1>9. CASE StartGranted(p)
    BY <1>9 DEF StartGranted
<1>10. CASE Unlink(p)
    BY <1>10 DEF Unlink
<1>11. CASE UnlinkFails(p)
    BY <1>11 DEF UnlinkFails
<1>12. CASE RunGranted(p)
    BY <1>12 DEF RunGranted
<1>13. CASE Stop(p)
    BY <1>13 DEF Stop
<1>14. QED
    BY <1>1, <1>2, <1>3, <1>4, <1>5, <1>6, <1>7, <1>8, <1>9, <1>10, <1>11, <1>12, <1>13 DEF McpStep

\* What the steps that enter a section do to their process and to raced.
LEMMA EnterMarks ==
    ASSUME NEW p \in Hosts, NEW i, NEW steps, NEW ids, Enter(p, i, steps, ids)
    PROVE  /\ \A q \in Hosts : q # p /\ at[q] \in steps /\ draft[q].id \in ids
                => i \in raced' /\ draft[q].id \in raced'
           /\ \A j \in raced' \ (raced \cup {i}) :
                \E q \in Hosts : q # p /\ at[q] \in steps /\ j = draft[q].id
BY DEF Enter, Inside

LEMMA ProposeEffect ==
    ASSUME McpTypeOK, NEW p \in Hosts, StartPropose(p)
    PROVE  /\ at[p] = "idle" /\ at'[p] = "write"
           /\ draft'[p] = [id |-> Len(asked) + 1, status |-> "pending"]
           /\ Made' = Made \cup {Len(asked) + 1} /\ Len(asked) + 1 \notin Made
           /\ Len(asked) + 1 \in Ids
           /\ pending = Absent
           /\ UNCHANGED <<pending, grants, call, blessed, refused, given, revoked, ran, times, spent>>
           /\ Enter(p, Len(asked) + 1, {"write"}, Ids)
<1>1. Len(asked) \in Nat /\ Len(asked') = Len(asked) + 1
    BY DEF McpTypeOK, StartPropose
<1>2. Made' = Made \cup {Len(asked) + 1} /\ Len(asked) + 1 \notin Made /\ Len(asked) + 1 \in Ids
    BY <1>1, McpAssumption DEF Made, Ids, StartPropose
<1>3. QED
    BY <1>2 DEF McpTypeOK, StartPropose, GoesTo, files, executions

LEMMA DecideEffect ==
    ASSUME McpTypeOK, NEW p \in Hosts, StartDecide(p)
    PROVE  /\ at[p] = "idle" /\ at'[p] = "write"
           /\ pending \in Proposal /\ draft'[p].id = pending.id
           /\ draft'[p].status \in {"approved", "rejected"}
           /\ draft'[p].status = "approved" => pending.status = "pending"
           /\ UNCHANGED <<pending, grants, call, asked, blessed, refused, given, revoked,
                          ran, times, spent>>
           /\ Enter(p, pending.id, {"write"}, Ids)
BY DEF McpTypeOK, StartDecide, MayApprove, GoesTo, Loads, files, decisions, executions

LEMMA CheckEffect ==
    ASSUME McpTypeOK, NEW p \in Hosts, Passes(p)
    PROVE  /\ at'[p] = "cleared" /\ call' = call
           /\ pending \in Proposal /\ pending.status = "approved"
           /\ draft[p].id = pending.id /\ draft'[p].id = pending.id
           /\ draft'[p].status = "rejected" => pending.id \in refused
           /\ SameAsReviewed(pending.id, call[p])
           /\ Enter(p, pending.id, Executing, {pending.id})
BY DEF McpTypeOK, Passes, Loads

\* Every step of a process works for a proposal that was made.
LEMMA WorkingStep ==
    ASSUME Inductive, NEW p \in Hosts, McpStep(p)
    PROVE  Working'
<1>1. CASE StartPropose(p)
  <2>1. raced' \subseteq Made'
      BY <1>1, ProposeEffect, EnterMarks DEF Inductive, Working
  <2>2. QED
      BY <1>1, <2>1, ProposeEffect, Frame DEF Inductive, Working
<1>2. CASE StartDecide(p)
  <2>1. Made' = Made /\ pending.id \in Made
      BY <1>2, DecideEffect DEF Inductive, Working, StartDecide, Loads, Made
  <2>2. raced' \subseteq Made
      BY <1>2, <2>1, DecideEffect, EnterMarks DEF Inductive, Working
  <2>3. QED
      BY <1>2, <2>1, <2>2, DecideEffect, Frame DEF Inductive, Working
<1>3. CASE Check(p)
  <2>1. Made' = Made /\ UNCHANGED <<pending, grants, blessed, refused>>
      BY <1>3, CheckOutcomes DEF Made, files, decisions
  <2>2. CASE Passes(p)
    <3>1. pending.id \in Made
        BY <2>2 DEF Inductive, Working, Passes, Loads
    <3>2. raced' \subseteq Made
        BY <2>2, <3>1, CheckEffect, EnterMarks DEF Inductive, Working, Executing
    <3>3. call'[p] \in Calls
        BY <1>3, <2>2, CheckOutcomes DEF Inductive, Working, Passes
    <3>4. QED
        BY <1>3, <2>1, <2>2, <3>1, <3>2, <3>3, CheckEffect, Frame DEF Inductive, Working
  <2>3. CASE Answers(p) /\ raced' = raced
      BY <1>3, <2>1, <2>3, Frame DEF Inductive, Working, McpTypeOK, Answers, GoesTo
  <2>4. QED
      BY <1>3, <2>2, <2>3, CheckOutcomes
<1> USE Frame
       DEF Inductive, Working, files, callState, traces, decisions, executions, GoesTo, Answers,
           Made, Enter, Inside, McpTypeOK, Loads, NoDraft, Proposal
<1>4. CASE Write(p)
    BY <1>4 DEF Write
<1>5. CASE Discard(p)
    BY <1>5 DEF Discard
<1>6. CASE FindApproved(p)
    BY <1>6 DEF FindApproved
<1>7. CASE RunApproved(p)
    BY <1>7 DEF RunApproved
<1>8. CASE DiscardAfter(p)
    BY <1>8 DEF DiscardAfter
<1>9. CASE StartGranted(p)
    BY <1>9 DEF StartGranted
<1>10. CASE Unlink(p)
    BY <1>10 DEF Unlink
<1>11. CASE UnlinkFails(p)
    BY <1>11 DEF UnlinkFails
<1>12. CASE RunGranted(p)
    BY <1>12 DEF RunGranted
<1>13. CASE Stop(p)
  <2>1. raced' \subseteq Made
      BY <1>13 DEF Stop
  <2>2. pending' \in {pending, TornFile} /\ at'[p] = "idle"
      BY <1>13 DEF Stop
  <2>3. QED
      BY <1>13, <2>1, <2>2 DEF Stop
<1>14. QED
    BY <1>1, <1>2, <1>3, <1>4, <1>5, <1>6, <1>7, <1>8, <1>9, <1>10, <1>11, <1>12, <1>13 DEF McpStep

\* Whoever enters a section that another is in marks the race, and races stay marked.
LEMMA RacesStep ==
    ASSUME Inductive, NEW p \in Hosts, McpStep(p)
    PROVE  Races'
<1>1. CASE Check(p)
  <2>1. CASE Passes(p)
    <3>1. \A q \in Hosts : q # p /\ at[q] = "cleared" /\ draft[q].id = draft'[p].id
            => draft'[p].id \in raced'
        BY <2>1, CheckEffect, EnterMarks DEF Inductive, Executing
    <3>2. QED
        BY <1>1, <2>1, <3>1, CheckEffect, Frame DEF Inductive, Races
  <2>2. CASE Answers(p) /\ raced' = raced
      BY <1>1, <2>2, Frame DEF Inductive, Races, Answers, GoesTo, McpTypeOK
  <2>3. QED
      BY <1>1, <2>1, <2>2, CheckOutcomes
<1>2. CASE StartPropose(p)
  <2>1. \A q \in Hosts : at[q] = "write" => draft[q].id \in Ids
      BY DEF Inductive, Working, McpTypeOK, Made, Ids
  <2>2. \A q \in Hosts : q # p /\ at[q] = "write" => draft[q].id \in raced' /\ draft'[p].id \in raced'
      BY <1>2, <2>1, ProposeEffect, EnterMarks DEF Inductive
  <2>3. QED
      BY <1>2, <2>2, ProposeEffect, Frame DEF Inductive, Races
<1>3. CASE StartDecide(p)
  <2>1. \A q \in Hosts : at[q] = "write" => draft[q].id \in Ids
      BY DEF Inductive, Working, McpTypeOK, Made, Ids
  <2>2. \A q \in Hosts : q # p /\ at[q] = "write" => draft[q].id \in raced' /\ draft'[p].id \in raced'
      BY <1>3, <2>1, DecideEffect, EnterMarks DEF Inductive
  <2>3. QED
      BY <1>3, <2>2, DecideEffect, Frame DEF Inductive, Races
<1> USE Frame
       DEF Inductive, Working, files, callState, traces, decisions, executions, GoesTo, Answers,
           Made, Enter, Inside, McpTypeOK, Loads, NoDraft, Proposal, Races, Executing
<1>4. CASE Write(p)
    BY <1>4 DEF Write
<1>5. CASE Discard(p)
    BY <1>5 DEF Discard
<1>6. CASE FindApproved(p)
    BY <1>6 DEF FindApproved
<1>7. CASE RunApproved(p)
    BY <1>7 DEF RunApproved
<1>8. CASE DiscardAfter(p)
    BY <1>8 DEF DiscardAfter
<1>9. CASE StartGranted(p)
    BY <1>9 DEF StartGranted
<1>10. CASE Unlink(p)
    BY <1>10 DEF Unlink
<1>11. CASE UnlinkFails(p)
    BY <1>11 DEF UnlinkFails
<1>12. CASE RunGranted(p)
    BY <1>12 DEF RunGranted
<1>13. CASE Stop(p)
    BY <1>13 DEF Stop
<1>14. QED
    BY <1>1, <1>2, <1>3, <1>4, <1>5, <1>6, <1>7, <1>8, <1>9, <1>10, <1>11, <1>12, <1>13 DEF McpStep

\* Steps that start no write, and write no status, keep their order.
LEMMA StaysInOrder ==
    ASSUME Inductive, NEW p \in Hosts, McpStep(p), at'[p] # "write",
           pending' \in {pending, Absent, TornFile}, UNCHANGED <<asked, blessed, refused>>
    PROVE  Ordered'
<1>1. \A i, st : ToBe(i, st)' => ToBe(i, st)
    BY Frame DEF Inductive, ToBe
<1>2. \A i, st : OnDisk(i, st)' => OnDisk(i, st)
    BY DEF OnDisk
<1>3. Made' = Made /\ Alone' \subseteq Alone
    BY Frame DEF Inductive, Made, Alone
<1>4. QED
    BY <1>1, <1>2, <1>3 DEF Inductive, Ordered

\* A written status is a later one than what is on disk.
LEMMA OrderedStep ==
    ASSUME Inductive, NEW p \in Hosts, McpStep(p)
    PROVE  Ordered'
<1>1. CASE Check(p)
  <2>1. UNCHANGED <<pending, asked, blessed, refused>> /\ at'[p] # "write"
      BY <1>1, CheckOutcomes DEF Inductive, McpTypeOK, Passes, Answers, GoesTo, files, decisions
  <2>2. QED
      BY <2>1, StaysInOrder
<1>2. CASE RunGranted(p)
  <2>1. UNCHANGED <<pending, asked, blessed, refused>> /\ at'[p] # "write"
      BY <1>2 DEF Inductive, McpTypeOK, RunGranted, Answers, GoesTo, files, decisions
  <2>2. QED
      BY <2>1, StaysInOrder
<1>3. CASE Stop(p)
  <2>1. pending' \in {pending, TornFile} /\ at'[p] = "idle" /\ UNCHANGED <<asked, blessed, refused>>
      BY <1>3 DEF Inductive, McpTypeOK, Stop, Answers, GoesTo, decisions
  <2>2. QED
      BY <2>1, StaysInOrder
<1> USE Frame
       DEF Inductive, Working, files, callState, traces, decisions, executions, GoesTo, Answers,
           Made, Enter, Inside, McpTypeOK, Loads, NoDraft, Proposal, Races, Ordered, Alone,
           OnDisk, ToBe, MayApprove
<1>4. CASE StartPropose(p)
    BY <1>4 DEF StartPropose
<1>5. CASE StartDecide(p)
    BY <1>5 DEF StartDecide
<1>6. CASE Write(p)
    BY <1>6 DEF Write
<1>7. CASE Discard(p)
    BY <1>7 DEF Discard
<1>8. CASE FindApproved(p)
    BY <1>8 DEF FindApproved
<1>9. CASE RunApproved(p)
    BY <1>9 DEF RunApproved
<1>10. CASE DiscardAfter(p)
    BY <1>10 DEF DiscardAfter
<1>11. CASE StartGranted(p)
    BY <1>11 DEF StartGranted
<1>12. CASE Unlink(p)
    BY <1>12 DEF Unlink
<1>13. CASE UnlinkFails(p)
    BY <1>13 DEF UnlinkFails
<1>14. QED
    BY <1>1, <1>2, <1>3, <1>4, <1>5, <1>6, <1>7, <1>8, <1>9, <1>10, <1>11, <1>12, <1>13 DEF McpStep

\* A check lets through only what was approved and reviewed.
LEMMA ClearedStep ==
    ASSUME Inductive, NEW p \in Hosts, McpStep(p)
    PROVE  Cleared'
<1>1. CASE StartPropose(p)
    BY <1>1, ProposeEffect, Frame DEF Inductive, Cleared, SameAsReviewed, Working
<1>2. CASE Check(p)
  <2>1. UNCHANGED <<asked, blessed, refused>>
      BY <1>2, CheckOutcomes DEF decisions
  <2>2. CASE Passes(p)
    <3>1. pending.id \in Made /\ OnDisk(pending.id, {"approved"})
        BY <2>2, CheckEffect DEF Inductive, Working, OnDisk, Passes, Loads
    <3>2. pending.id \in blessed /\ (pending.id \in refused => pending.id \in raced)
        BY <3>1 DEF Inductive, Ordered, Alone, OnDisk
    <3>3. QED
        BY <2>1, <2>2, <3>2, CheckEffect, Frame DEF Inductive, Cleared, SameAsReviewed
  <2>3. CASE Answers(p) /\ raced' = raced
    <3>1. at'[p] # "cleared"
        BY <2>3 DEF Inductive, McpTypeOK, Answers, GoesTo
    <3>2. QED
        BY <2>1, <3>1, Frame DEF Inductive, Cleared, SameAsReviewed
  <2>4. QED
      BY <1>2, <2>2, <2>3, CheckOutcomes
<1> USE Frame
       DEF Inductive, Working, files, callState, traces, decisions, executions, GoesTo, Answers,
           Made, Enter, Inside, McpTypeOK, Loads, NoDraft, Proposal, Ordered, Cleared, Alone,
           OnDisk, SameAsReviewed
<1>3. CASE StartDecide(p)
    BY <1>3 DEF StartDecide
<1>4. CASE Write(p)
    BY <1>4 DEF Write
<1>5. CASE Discard(p)
    BY <1>5 DEF Discard
<1>6. CASE FindApproved(p)
    BY <1>6 DEF FindApproved
<1>7. CASE RunApproved(p)
    BY <1>7 DEF RunApproved
<1>8. CASE DiscardAfter(p)
    BY <1>8 DEF DiscardAfter
<1>9. CASE StartGranted(p)
    BY <1>9 DEF StartGranted
<1>10. CASE Unlink(p)
    BY <1>10 DEF Unlink
<1>11. CASE UnlinkFails(p)
    BY <1>11 DEF UnlinkFails
<1>12. CASE RunGranted(p)
    BY <1>12 DEF RunGranted
<1>13. CASE Stop(p)
    BY <1>13 DEF Stop
<1>14. QED
    BY <1>1, <1>2, <1>3, <1>4, <1>5, <1>6, <1>7, <1>8, <1>9, <1>10, <1>11, <1>12, <1>13 DEF McpStep

\* An execution ends with a discard before the next check, or is a race.
LEMMA OnceStep ==
    ASSUME Inductive, NEW p \in Hosts, McpStep(p)
    PROVE  Once'
<1>1. CASE StartPropose(p)
  <2>1. times' = times /\ \A i : ~ OnDisk(i, {"approved"})'
      BY <1>1, ProposeEffect DEF Inductive, OnDisk
  <2>2. QED
      BY <1>1, <2>1, ProposeEffect, Frame DEF Inductive, Once
<1>2. CASE Check(p)
  <2>1. UNCHANGED <<pending, asked, blessed, times>> /\ at[p] = "found"
      BY <1>2, CheckOutcomes DEF files, decisions, executions
  <2>2. \A i : OnDisk(i, {"approved"})' <=> OnDisk(i, {"approved"})
      BY <2>1 DEF OnDisk
  <2>3. CASE Passes(p)
    <3>1. pending.id \in Ids /\ OnDisk(pending.id, {"approved"})
        BY <2>3, CheckEffect DEF Inductive, OnDisk, Passes, Loads, Proposal
    <3>2. ASSUME times[pending.id] > 0, pending.id \notin raced
          PROVE  pending.id \in raced'
      <4>1. PICK q \in Hosts : at[q] = "ran" /\ draft[q].id = pending.id
          BY <3>1, <3>2 DEF Inductive, Once
      <4>2. q # p /\ at[q] \in Executing
          BY <2>1, <4>1 DEF Executing
      <4>3. QED
          BY <2>3, <4>1, <4>2, CheckEffect, EnterMarks DEF Inductive
    <3>3. times[pending.id] > 0 => pending.id \in raced'
        BY <1>2, <3>2, Frame DEF Inductive
    <3>4. QED
        BY <1>2, <2>1, <2>2, <2>3, <3>3, CheckEffect, Frame DEF Inductive, Once
  <2>4. CASE Answers(p) /\ raced' = raced
    <3>1. at'[p] = "idle"
        BY <2>4 DEF Inductive, McpTypeOK, Answers, GoesTo
    <3>2. QED
        BY <1>2, <2>1, <2>2, <2>4, <3>1, Frame DEF Inductive, Once
  <2>5. QED
      BY <1>2, <2>3, <2>4, CheckOutcomes
<1>3. CASE RunApproved(p)
  <2> DEFINE i == draft[p].id
  <2>1. i \in Made /\ i \in blessed /\ at[p] = "cleared" /\ at'[p] = "ran" /\ draft' = draft
          /\ UNCHANGED <<pending, asked, blessed, raced>> /\ Made' = Made
      BY <1>3
         DEF Inductive, McpTypeOK, Working, Cleared, RunApproved, GoesTo, files, decisions, Made
  <2>2. times' = times \/ times' = [times EXCEPT ![i] = times[i] + 1]
      BY <1>3 DEF RunApproved
  <2>3. i \in Ids /\ times \in [Ids -> Nat]
      BY <2>1 DEF Inductive, McpTypeOK, Made, Ids, Working
  <2>4. i \notin raced => times[i] = 0
      BY <2>1, <2>3 DEF Inductive, Once
  <2>5. times'[i] \in {times[i], times[i] + 1} /\ \A j \in Ids : j # i => times'[j] = times[j]
      BY <2>2, <2>3
  <2>6. i \notin raced => times'[i] \in 0..1
      BY <2>4, <2>5
  <2>7. i \notin raced => \A q \in Hosts : at'[q] = "cleared" => draft[q].id # i
      BY <1>3, <2>1, Frame DEF Inductive, Races
  <2>8. \A j : OnDisk(j, {"approved"})' <=> OnDisk(j, {"approved"})
      BY <2>1 DEF OnDisk
  <2>9. ASSUME NEW j \in Ids, times'[j] > 0
        PROVE  /\ j \in blessed
               /\ j \notin raced =>
                    /\ times'[j] = 1
                    /\ \A q \in Hosts : at'[q] = "cleared" => draft[q].id # j
                    /\ OnDisk(j, {"approved"}) => \E q \in Hosts : at'[q] = "ran" /\ draft[q].id = j
    <3>1. CASE j = i
        BY <2>1, <2>6, <2>7, <2>9, <3>1
    <3>2. CASE j # i
        BY <1>3, <2>1, <2>5, <2>9, <3>2, Frame DEF Inductive, Once
    <3>3. QED
        BY <3>1, <3>2
  <2>10. QED
      BY <2>1, <2>8, <2>9 DEF Once
<1>4. CASE RunGranted(p)
  <2>1. UNCHANGED <<pending, asked, blessed, raced, times>> /\ at'[p] # "cleared" /\ at[p] = "consumed"
      BY <1>4 DEF Inductive, McpTypeOK, RunGranted, Answers, GoesTo, files, decisions
  <2>2. \A i : OnDisk(i, {"approved"})' <=> OnDisk(i, {"approved"})
      BY <2>1 DEF OnDisk
  <2>3. QED
      BY <1>4, <2>1, <2>2, Frame DEF Inductive, Once
<1> USE Frame
       DEF Inductive, Working, files, callState, traces, decisions, executions, GoesTo, Answers,
           Made, Enter, Inside, McpTypeOK, Loads, NoDraft, Proposal, Races, Ordered, Cleared,
           Once, Alone, OnDisk, ToBe, Executing
<1>5. CASE StartDecide(p)
    BY <1>5 DEF StartDecide
<1>6. CASE Write(p)
    BY <1>6 DEF Write
<1>7. CASE Discard(p)
    BY <1>7 DEF Discard
<1>8. CASE FindApproved(p)
    BY <1>8 DEF FindApproved
<1>9. CASE DiscardAfter(p)
    BY <1>9 DEF DiscardAfter
<1>10. CASE StartGranted(p)
    BY <1>10 DEF StartGranted
<1>11. CASE Unlink(p)
    BY <1>11 DEF Unlink
<1>12. CASE UnlinkFails(p)
    BY <1>12 DEF UnlinkFails
<1>13. CASE Stop(p)
    BY <1>13 DEF Stop
<1>14. QED
    BY <1>1, <1>2, <1>3, <1>4, <1>5, <1>6, <1>7, <1>8, <1>9, <1>10, <1>11, <1>12, <1>13 DEF McpStep

\* What is executed was let through.
LEMMA RecordedStep ==
    ASSUME Inductive, NEW p \in Hosts, McpStep(p)
    PROVE  (Recorded /\ WritesArePermitted)'
<1> USE Frame
       DEF Inductive, Working, files, callState, traces, decisions, executions, GoesTo, Answers,
           Made, Enter, Inside, McpTypeOK, Loads, NoDraft, Proposal, Cleared, Recorded,
           WritesArePermitted, SameAsReviewed
<1>1. CASE StartPropose(p)
    BY <1>1 DEF StartPropose
<1>2. CASE StartDecide(p)
    BY <1>2 DEF StartDecide
<1>3. CASE Write(p)
    BY <1>3 DEF Write
<1>4. CASE Discard(p)
    BY <1>4 DEF Discard
<1>5. CASE FindApproved(p)
    BY <1>5 DEF FindApproved
<1>6. CASE Check(p)
    BY <1>6, CheckOutcomes DEF Passes
<1>7. CASE RunApproved(p)
  <2> DEFINE r == [id |-> draft[p].id, call |-> call[p], dead |-> draft[p].status = "rejected"]
  <2>1. ran' \in {ran, ran \cup {r}} /\ UNCHANGED <<asked, blessed, raced>>
      BY <1>7 DEF RunApproved
  <2>2. /\ r.id \in Made /\ r.id \in blessed
        /\ Payload[r.call] = Payload[asked[r.id]]
        /\ r.dead => r.id \in raced
      BY <1>7 DEF RunApproved
  <2>3. QED
      BY <2>1, <2>2
<1>8. CASE DiscardAfter(p)
    BY <1>8 DEF DiscardAfter
<1>9. CASE StartGranted(p)
    BY <1>9 DEF StartGranted
<1>10. CASE Unlink(p)
    BY <1>10 DEF Unlink
<1>11. CASE UnlinkFails(p)
    BY <1>11 DEF UnlinkFails
<1>12. CASE RunGranted(p)
    BY <1>12 DEF RunGranted
<1>13. CASE Stop(p)
    BY <1>13 DEF Stop
<1>14. QED
    BY <1>1, <1>2, <1>3, <1>4, <1>5, <1>6, <1>7, <1>8, <1>9, <1>10, <1>11, <1>12, <1>13 DEF McpStep

\* What a step leaves of grants and of those that hold one.
LEMMA GrantFrame ==
    ASSUME Inductive, NEW p \in Hosts, McpStep(p),
           ~ (\/ StartGranted(p) \/ Unlink(p) \/ UnlinkFails(p) \/ RunGranted(p) \/ Stop(p))
    PROVE  /\ UNCHANGED <<grants, given, revoked, spent>>
           /\ at[p] \notin {"consume", "consumed"} /\ at'[p] \notin {"consume", "consumed"}
<1> USE DEF Inductive, McpTypeOK, files, callState, traces, decisions, executions, GoesTo, Answers
<1>1. CASE Check(p)
    BY <1>1, CheckOutcomes DEF Passes
<1>2. QED
    BY <1>1 DEF McpStep, StartPropose, StartDecide, Write, Discard, FindApproved, RunApproved,
                DiscardAfter

\* Process p holds no grant, gets one or loses it; the others keep theirs.
LEMMA HoldersChange ==
    ASSUME Inductive, NEW p \in Hosts, McpStep(p), NEW i
    PROVE  /\ at'[p] = "consumed" /\ draft'[p].id = i => Holders(i)' = Holders(i) \cup {p}
           /\ ~ (at'[p] = "consumed" /\ draft'[p].id = i) => Holders(i)' = Holders(i) \ {p}
BY Frame DEF Inductive, Holders

\* Every grant stays counted.
LEMMA CountedStep ==
    ASSUME Inductive, NEW p \in Hosts, McpStep(p)
    PROVE  Counted'
<1>0. SUFFICES ASSUME NEW i \in Ids
               PROVE  /\ IsFiniteSet(Holders(i)')
                      /\ i \notin raced' =>
                           /\ \A q \in Hosts : at'[q] = "consume" /\ draft'[q].id = i => i \in grants'
                           /\ spent'[i] + revoked'[i] + (IF i \in grants' THEN 1 ELSE 0)
                                + Cardinality(Holders(i)') <= given'[i]
    BY DEF Counted
<1> DEFINE held == Cardinality(Holders(i))
<1>1. /\ IsFiniteSet(Holders(i)) /\ held \in Nat
      /\ raced \subseteq raced' /\ spent[i] \in Nat /\ revoked[i] \in Nat /\ given[i] \in Nat
    BY FS_CardinalityType, Frame DEF Inductive, Counted, McpTypeOK
<1>2. /\ IsFiniteSet(Holders(i)')
      /\ p \notin Holders(i) /\ ~ (at'[p] = "consumed" /\ draft'[p].id = i)
           => Cardinality(Holders(i)') = held
      /\ p \in Holders(i) /\ ~ (at'[p] = "consumed" /\ draft'[p].id = i)
           => Cardinality(Holders(i)') = held - 1
      /\ p \notin Holders(i) /\ at'[p] = "consumed" /\ draft'[p].id = i
           => Cardinality(Holders(i)') = held + 1
  <2>1. CASE at'[p] = "consumed" /\ draft'[p].id = i
    <3>1. Holders(i)' = Holders(i) \cup {p}
        BY <2>1, HoldersChange
    <3>2. /\ IsFiniteSet(Holders(i) \cup {p})
          /\ Cardinality(Holders(i) \cup {p}) = IF p \in Holders(i) THEN held ELSE held + 1
        BY <1>1, FS_AddElement
    <3>3. QED
        BY <2>1, <3>1, <3>2
  <2>2. CASE ~ (at'[p] = "consumed" /\ draft'[p].id = i)
    <3>1. Holders(i)' = Holders(i) \ {p}
        BY <2>2, HoldersChange
    <3>2. /\ IsFiniteSet(Holders(i) \ {p})
          /\ Cardinality(Holders(i) \ {p}) = IF p \in Holders(i) THEN held - 1 ELSE held
        BY <1>1, FS_RemoveElement
    <3>3. QED
        BY <2>2, <3>1, <3>2
  <2>3. QED
      BY <2>1, <2>2
<1>3. ASSUME i \notin raced
      PROVE  /\ \A q \in Hosts : at[q] = "consume" /\ draft[q].id = i => i \in grants
             /\ spent[i] + revoked[i] + (IF i \in grants THEN 1 ELSE 0) + held <= given[i]
    BY <1>3 DEF Inductive, Counted
<1>4. CASE ~ (\/ StartGranted(p) \/ Unlink(p) \/ UnlinkFails(p) \/ RunGranted(p) \/ Stop(p))
  <2>1. p \notin Holders(i) /\ ~ (at'[p] = "consumed" /\ draft'[p].id = i)
      BY <1>4, GrantFrame DEF Holders
  <2>2. QED
      BY <1>1, <1>2, <1>3, <1>4, <2>1, GrantFrame, Frame DEF Inductive
<1>5. CASE StartGranted(p)
  <2>1. /\ at[p] = "idle" /\ at'[p] = "consume" /\ draft'[p].id \in grants
        /\ UNCHANGED <<grants, given, revoked, spent>>
      BY <1>5 DEF Inductive, McpTypeOK, StartGranted, GoesTo, files, decisions, executions
  <2>2. p \notin Holders(i) /\ ~ (at'[p] = "consumed" /\ draft'[p].id = i)
      BY <2>1 DEF Holders
  <2>3. QED
      BY <1>1, <1>2, <1>3, <2>1, <2>2, Frame DEF Inductive
<1>6. CASE Unlink(p)
  <2>1. /\ at[p] = "consume" /\ at'[p] = "consumed" /\ draft' = draft
        /\ grants' = grants \ {draft[p].id} /\ UNCHANGED <<given, revoked, spent, raced>>
      BY <1>6 DEF Inductive, McpTypeOK, Unlink, GoesTo, traces, decisions, executions
  <2>2. i \notin raced /\ draft[p].id = i => \A q \in Hosts : at[q] = "consume" /\ draft[q].id = i => q = p
      BY <2>1 DEF Inductive, Races
  <2>3. p \notin Holders(i)
      BY <2>1 DEF Holders
  <2>4. CASE draft[p].id = i
      BY <1>1, <1>2, <1>3, <1>6, <2>1, <2>2, <2>3, <2>4, Frame DEF Inductive
  <2>5. CASE draft[p].id # i
      BY <1>1, <1>2, <1>3, <1>6, <2>1, <2>3, <2>5, Frame DEF Inductive
  <2>6. QED
      BY <2>4, <2>5
<1>7. CASE UnlinkFails(p)
  <2>1. /\ at[p] = "consume" /\ at'[p] = "consumed" /\ draft' = draft
        /\ UNCHANGED <<grants, given, revoked, spent>> /\ draft[p].id \in raced'
      BY <1>7 DEF Inductive, McpTypeOK, UnlinkFails, GoesTo, files, decisions, executions
  <2>2. QED
      BY <1>1, <1>2, <1>3, <1>7, <2>1, Frame DEF Inductive, Holders
<1>8. CASE RunGranted(p)
  <2>1. /\ at[p] = "consumed" /\ at'[p] \in {"ran", "idle"}
        /\ UNCHANGED <<grants, given, revoked, raced>>
        /\ spent' = spent \/ spent' = [spent EXCEPT ![draft[p].id] = @ + 1]
      BY <1>8 DEF Inductive, McpTypeOK, RunGranted, Answers, GoesTo, files, decisions
  <2>2. draft[p].id = i => p \in Holders(i) /\ spent'[i] \in {spent[i], spent[i] + 1}
    <3>1. spent \in [Ids -> Nat]
        BY DEF Inductive, McpTypeOK
    <3>2. QED
        BY <2>1, <3>1 DEF Holders
  <2>3. draft[p].id # i => p \notin Holders(i) /\ spent'[i] = spent[i]
    <3>1. spent \in [Ids -> Nat]
        BY DEF Inductive, McpTypeOK
    <3>2. QED
        BY <2>1, <3>1 DEF Holders
  <2>4. QED
      BY <1>1, <1>2, <1>3, <1>8, <2>1, <2>2, <2>3, Frame DEF Inductive
<1>9. CASE Stop(p)
  <2>1. at'[p] = "idle" /\ UNCHANGED <<grants, given, revoked, spent>>
      BY <1>9 DEF Inductive, McpTypeOK, Stop, Answers, GoesTo, decisions, executions
  <2>2. QED
      BY <1>1, <1>2, <1>3, <1>9, <2>1, Frame DEF Inductive
<1>10. QED
    BY <1>4, <1>5, <1>6, <1>7, <1>8, <1>9

\* Granting and revoking.
LEMMA GrantStep ==
    ASSUME Inductive, NEW i \in Ids, Grant(i) \/ Revoke(i)
    PROVE  /\ Working' /\ Races' /\ Ordered' /\ Cleared' /\ Once' /\ Counted' /\ Recorded'
           /\ WritesArePermitted'
<1>1. /\ UNCHANGED <<pending, at, call, draft, asked, blessed, refused, ran, times, spent, faults>>
      /\ Made' = Made /\ raced \subseteq raced' /\ raced' \subseteq raced \cup {i}
    BY DEF Grant, Revoke, callState, executions, Made
<1>2. Working'
  <2>1. i \in Made
      BY DEF Grant, Revoke, Inductive, Working, Made
  <2>2. grants' \subseteq Made /\ raced' \subseteq Made
      BY <1>1, <2>1 DEF Grant, Revoke, Inductive, Working
  <2>3. QED
      BY <1>1, <2>2 DEF Inductive, Working
<1>3. Races' /\ Cleared' /\ Recorded' /\ WritesArePermitted'
    BY <1>1 DEF Inductive, Races, Cleared, Recorded, WritesArePermitted, SameAsReviewed
<1>4. Ordered' /\ Once'
  <2>1. \A j, st : (OnDisk(j, st)' <=> OnDisk(j, st)) /\ (ToBe(j, st)' <=> ToBe(j, st))
      BY <1>1 DEF OnDisk, ToBe
  <2>2. QED
      BY <1>1, <2>1 DEF Inductive, Ordered, Once, Alone
<1>5. Counted'
  <2>1. SUFFICES ASSUME NEW j \in Ids
                 PROVE  /\ IsFiniteSet(Holders(j)')
                        /\ j \notin raced' =>
                             /\ \A q \in Hosts : at'[q] = "consume" /\ draft'[q].id = j => j \in grants'
                             /\ spent'[j] + revoked'[j] + (IF j \in grants' THEN 1 ELSE 0)
                                  + Cardinality(Holders(j)') <= given'[j]
      BY DEF Counted
  <2>2. /\ Holders(j)' = Holders(j) /\ IsFiniteSet(Holders(j)) /\ Cardinality(Holders(j)) \in Nat
        /\ spent[j] \in Nat /\ revoked[j] \in Nat /\ given[j] \in Nat
      BY <1>1, FS_CardinalityType DEF Holders, Inductive, Counted, McpTypeOK
  <2>3. ASSUME j \notin raced
        PROVE  /\ \A q \in Hosts : at[q] = "consume" /\ draft[q].id = j => j \in grants
               /\ spent[j] + revoked[j] + (IF j \in grants THEN 1 ELSE 0) + Cardinality(Holders(j))
                    <= given[j]
      BY <2>3 DEF Inductive, Counted
  <2>4. CASE Grant(i)
    <3>1. /\ grants' = grants \cup {i} /\ i \notin grants /\ revoked' = revoked /\ raced' = raced
          /\ given'[j] = IF j = i THEN given[j] + 1 ELSE given[j]
        BY <2>4 DEF Grant, Inductive, McpTypeOK
    <3>2. QED
        BY <1>1, <2>2, <2>3, <3>1
  <2>5. CASE Revoke(i)
    <3>1. /\ grants' = grants \ {i} /\ i \in grants /\ given' = given
          /\ revoked'[j] = IF j = i THEN revoked[j] + 1 ELSE revoked[j]
          /\ \A q \in Hosts : at[q] = "consume" /\ draft[q].id = i => i \in raced'
        BY <2>5 DEF Revoke, Inductive, McpTypeOK
    <3>2. QED
        BY <1>1, <2>2, <2>3, <3>1
  <2>6. QED
      BY <2>4, <2>5
<1>6. QED
    BY <1>2, <1>3, <1>4, <1>5

-----------------------------------------------------------------------------
LEMMA InitInductive == McpInit => Inductive
<1> SUFFICES ASSUME McpInit PROVE Inductive
    OBVIOUS
<1>1. Len(asked) = 0 /\ Made = {} /\ MaxProposals \in Nat
    BY McpAssumption DEF McpInit, Made
<1>2. McpTypeOK
    BY <1>1, McpAssumption DEF McpInit, McpTypeOK, NoDraft
<1>3. Working /\ Races /\ Ordered /\ Cleared /\ Once /\ Recorded /\ WritesArePermitted
    BY <1>1 DEF McpInit, Working, Races, Ordered, Cleared, Once, Recorded, WritesArePermitted,
                Alone, OnDisk, ToBe, NoDraft
<1>4. Counted
  <2>1. \A i : Holders(i) = {}
      BY DEF McpInit, Holders
  <2>2. QED
    <3>1. \A i : IsFiniteSet(Holders(i)) /\ Cardinality(Holders(i)) = 0
        BY <2>1, FS_EmptySet
    <3>2. QED
        BY <3>1 DEF McpInit, Counted
<1>5. QED
    BY <1>2, <1>3, <1>4 DEF Inductive

LEMMA NextInductive == Inductive /\ [McpNext]_mcpVars => Inductive'
<1> SUFFICES ASSUME Inductive, [McpNext]_mcpVars PROVE Inductive'
    OBVIOUS
<1>1. McpTypeOK'
    BY TypeStep DEF Inductive
<1>2. CASE UNCHANGED mcpVars
    BY <1>2 DEF Inductive, mcpVars, files, callState, traces, decisions, executions, McpTypeOK,
       Working, Races, Ordered, Cleared, Once, Counted, Recorded, WritesArePermitted, Made, Alone,
       OnDisk, ToBe, Holders, SameAsReviewed
<1>3. ASSUME NEW p \in Hosts, McpStep(p) PROVE Inductive'
    BY <1>1, <1>3, WorkingStep, RacesStep, OrderedStep, ClearedStep, OnceStep, CountedStep,
       RecordedStep DEF Inductive
<1>4. ASSUME NEW i \in Ids, Grant(i) \/ Revoke(i) PROVE Inductive'
    BY <1>1, <1>4, GrantStep DEF Inductive
<1>5. QED
    BY <1>2, <1>3, <1>4, NextSteps

\* The invariant that the theorems below follow from.
THEOREM InductiveInvariant == McpSpec => []Inductive
BY InitInductive, NextInductive, PTL DEF McpSpec

\* Every variable of the write gate has its type.
THEOREM McpTypes == McpSpec => []McpTypeOK
<1>1. Inductive => McpTypeOK
    BY DEF Inductive
<1>2. QED
    BY <1>1, InductiveInvariant, PTL

\* What the agent executes was approved, is the call that was reviewed, and was not
\* rejected by the time it was checked.
THEOREM OnlyPermittedWrites == McpSpec => []WritesArePermitted
<1>1. Inductive => WritesArePermitted
    BY DEF Inductive
<1>2. QED
    BY <1>1, InductiveInvariant, PTL

\* An approval lets one execution happen, and a grant one.
THEOREM ApprovalsAreSpentOnce == McpSpec => []ApprovedRunsOnce
<1>1. ASSUME Inductive PROVE ApprovedRunsOnce
  <2>1. SUFFICES ASSUME NEW i \in Ids \ raced
                 PROVE  /\ times[i] <= 1
                        /\ spent[i] + revoked[i] + (IF i \in grants THEN 1 ELSE 0) <= given[i]
      BY DEF ApprovedRunsOnce
  <2>2. times[i] \in Nat /\ spent[i] \in Nat /\ revoked[i] \in Nat /\ given[i] \in Nat
      BY <1>1 DEF Inductive, McpTypeOK
  <2>3. times[i] <= 1
      BY <1>1, <2>2 DEF Inductive, Once
  <2>4. /\ Cardinality(Holders(i)) \in Nat
        /\ spent[i] + revoked[i] + (IF i \in grants THEN 1 ELSE 0) + Cardinality(Holders(i)) <= given[i]
      BY <1>1, FS_CardinalityType DEF Inductive, Counted
  <2>5. QED
      BY <2>2, <2>3, <2>4
<1>2. QED
    BY <1>1, InductiveInvariant, PTL
=============================================================================
