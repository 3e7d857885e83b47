---------------------------- MODULE StoresProofs ----------------------------
(***************************************************************************)
(* Theorems about what processes share without a lock: ModelCall, for any  *)
(* number of callers, attempts and operations, TaskBook, for any number of *)
(* terminals, commands, kills and tasks, RecordFiles, for any number of    *)
(* processes, records, kills and lines that cannot be read, and            *)
(* EmbeddingIndex, for any number of files, builds and changes of a file.  *)
(***************************************************************************)
EXTENDS ModelCall, TaskBook, RecordFiles, EmbeddingIndex,
        FiniteSetTheorems, SequenceTheorems, WellFoundedInduction, TLAPS

-----------------------------------------------------------------------------
(* ModelCall: what a caller has sent by the time it is at each of its      *)
(* steps, and where its tokens are.                                        *)

Requests ==
    [op : Operations \cup {"none"},
     at : {"idle", "send", "load", "save", "answer", "done", "raised"},
     provider : Providers, tries : Nat, second : BOOLEAN,
     round : {"first", "again", "reparse", "revalidate"},
     base : Nat, reported : Nat, sent : Nat, spent : Nat, turned : BOOLEAN]

\* Every variable has its type.
AskTypeOK ==
    /\ fanOut \in BOOLEAN
    /\ openai \subseteq Providers
    /\ asking \in [Callers -> Requests]
    /\ tokens \in [Callers -> [Providers -> Nat]]
    /\ cost \in Nat /\ received \in Nat /\ skewed \in BOOLEAN
    /\ ops \in Nat /\ saveFailures \in Nat /\ callKills \in Nat

\* Only an edit asks twice at once, only the contract's steps once more, and only an edit
\* repairs what it got; the fallback is asked where there is one.
Sane(a) ==
    /\ a.at = "idle" <=> a.op = "none"
    /\ a.at = "idle" => a = NotAsking
    /\ a.second => AsksForPatch(a.op)
    /\ a.provider = "fallback" => fanOut /\ a.turned
    /\ a.round = "again" => a.op \in {"choose", "native"}
    /\ a.round \in {"reparse", "revalidate"} => AsksForPatch(a.op)

\* How many times retry_call was called before the request that a is at.
ProviderCalls(o) == IF AsksForPatch(o) THEN 2 ELSE 1
RoundCalls(o) == IF fanOut THEN 2 * ProviderCalls(o) ELSE ProviderCalls(o)

Before(a) ==
    (IF a.round = "first" THEN 0
     ELSE IF a.round = "revalidate" THEN 2 * RoundCalls(a.op) ELSE RoundCalls(a.op))
    + (IF a.provider = "fallback" THEN ProviderCalls(a.op) ELSE 0)
    + (IF a.second THEN 1 ELSE 0)

\* Each of them sends no more than its attempts.
Within(a) ==
    IF a.at = "send"
    THEN a.tries < MaxAttempts /\ a.sent <= Before(a) * MaxAttempts + a.tries
    ELSE a.sent <= (Before(a) + 1) * MaxAttempts

\* What an edit used that its provider counts is in its report or in the client's count.
Accounted(p) ==
    LET a == asking[p]
    IN  AsksForPatch(a.op) /\ "primary" \in openai /\ ~ a.turned =>
          /\ a.at \in {"send", "load", "save", "answer"} => a.reported + tokens[p]["primary"] = a.spent
          /\ a.at = "done" => a.reported = a.spent

\* cost.json lacks one answer of each caller that has not saved it; one of them saves
\* at a time, over the cost as it is.
Saved ==
    /\ \A p \in Callers : asking[p].at = "load" => asking[p].base = 1
    /\ ~ skewed =>
         /\ \A p, q \in Callers : asking[p].at = "save" /\ asking[q].at = "save" => p = q
         /\ \A p \in Callers : asking[p].at = "save" => asking[p].base = cost + 1
         /\ received = cost + Cardinality(Unsaved)

AskInductive ==
    /\ AskTypeOK
    /\ \A p \in Callers : Sane(asking[p]) /\ Within(asking[p]) /\ Accounted(p)
    /\ Saved
-----------------------------------------------------------------------------
(* TaskBook: what a command knows of its task at each of its steps, as     *)
(* long as nobody else was at it.                                          *)

Iterations ==
    [event : {"none", "edit", "apply", "rollback", "run", "fix", "interrupted", "budget"},
     status : {"none", "applied", "failed", "proposed", "passed", "interrupted"},
     tail : Failures \cup {NoTail}]

TaskStates ==
    [status : {"open", "applied", "interrupted", "closed", "gone"},
     patch : BOOLEAN, iterations : Seq(Iterations)]

\* Every variable has its type.
TaskTypeOK ==
    /\ book \in Seq(TaskStates) /\ Len(book) <= MaxTasks
    /\ current \in 0..Len(book)
    /\ step \in [Shells -> {"idle", "work", "create", "point", "load", "save", "budget"}]
    /\ op \in [Shells -> Wired \cup {"none", "new", "switch", "close", "resume", "agent"}]
    /\ mine \in [Shells -> 0..Len(book)]
    /\ held \in [Shells -> TaskStates]
    /\ record \in [Shells -> Iterations]
    /\ made \in [Tasks -> Nat] /\ lost \in [Tasks -> Nat]
    /\ shared \subseteq Nat /\ crossed \subseteq Nat
    /\ commands \in Nat /\ kills \in Nat /\ failed \in Nat

\* The records that a command adds, and that only close and resume add none.
Sensible(o, r) ==
    /\ r.event = "none" => r = NoRecord
    /\ r.event = "none" <=> o \in {"close", "resume"}
    /\ r.status \in {"proposed", "passed"} => r.event = "fix"
    /\ r.event = "fix" => r.status \in {"proposed", "passed", "failed"}
    /\ r.event = "budget" => r.status = "failed"

\* A command has a task from its creation on, and a record when its work has ended.
AtStep(s) ==
    /\ step[s] \in {"idle", "create"} <=> mine[s] = NoTask
    /\ step[s] \in {"idle", "create", "work", "budget"} => record[s] = NoRecord
    /\ step[s] = "create" => op[s] \in Wired \cup {"new"}
    /\ step[s] \in {"load", "save"} => Sensible(op[s], record[s])
    /\ step[s] = "point" => record[s].status # "proposed"
    /\ step[s] = "load" => op[s] \in Wired \cup {"agent"}
    /\ step[s] = "save" => held[s].status # "gone"
    /\ step[s] = "work" => op[s] \in Wired
    /\ step[s] = "budget" => op[s] = "agent"
    /\ op[s] = "close" => step[s] = "save"
    /\ op[s] = "switch" => step[s] = "point"

Ended(t) == t.status \in {"closed", "gone"}

\* A command that may write a task's status works on a task that has not ended, with a copy
\* that has not, unless somebody ended it meanwhile.
Lively(s) ==
    mine[s] # NoTask /\ op[s] \notin {"close", "switch"} /\ mine[s] \notin crossed =>
        ~ Ended(book[mine[s]]) /\ (step[s] = "save" => ~ Ended(held[s]))

\* A command has a copy of its task while it saves it, and fix --watch while it works.
Copies(s) ==
    \/ step[s] = "save"
    \/ op[s] = "watch" /\ step[s] \in {"point", "work"} /\ record[s] = NoRecord

\* A copy is the task as it is, unless two had it.
Alone ==
    /\ \A r, s \in Shells : r # s /\ mine[r] = mine[s] /\ mine[s] # NoTask => mine[s] \in shared
    /\ \A s \in Shells :
         Copies(s) /\ mine[s] \notin shared \cup crossed => held[s] = book[mine[s]]

\* A proposed fix is in the task's file, or in the hands of the command that made it.
Owes(s, t) == mine[s] = t /\ step[s] \in {"load", "save"} /\ record[s].status = "proposed"
Owed(t) == \E s \in Shells : Owes(s, t)

Recalled ==
    /\ \A t \in Known : Ended(book[t]) => book[t].status = "closed" \/ book[t] = Gone
    /\ \A t \in Tasks \ Known : made[t] = 0 /\ lost[t] = 0
    /\ \A t \in Known \ (shared \cup crossed) :
         Exists(t) => made[t] = Proposals(book[t]) + lost[t] + (IF Owed(t) THEN 1 ELSE 0)

\* What a copy of a task counts, what is in the hands of commands and what is lost is
\* together no more than was made.
OwedBy(t) == {s \in Shells : Owes(s, t)}
Copied(t) == {book[t]} \cup {held[s] : s \in {r \in Shells : mine[r] = t}}
NoneMadeUp ==
    \A t \in Known :
        /\ IsFiniteSet(OwedBy(t))
        /\ \A c \in Copied(t) : Proposals(c) + lost[t] + Cardinality(OwedBy(t)) <= made[t]

TaskInductive ==
    TaskTypeOK /\ (\A s \in Shells : AtStep(s) /\ Lively(s)) /\ Alone /\ Recalled /\ NoneMadeUp

-----------------------------------------------------------------------------
(* Proofs about ModelCall.                                                 *)

\* A step of p.
AskStep(p) ==
    \/ \E o \in Operations : Ask(p, o)
    \/ Refused(p) \/ Rejected(p) \/ BreaksOff(p)
    \/ \E n \in 0..1 : Answered(p, n)
    \/ LoadCost(p) \/ SaveCost(p) \/ SaveFails(p)
    \/ UsesAnswer(p) \/ Deliver(p) \/ KillCall(p)

\* A request that begins anew keeps what was sent and used.
LEMMA AgainTypes ==
    ASSUME NEW a \in Requests,
           NEW round \in {"first", "again", "reparse", "revalidate"}
    PROVE  /\ Again(a, round) \in Requests
           /\ Again(a, round).op = a.op /\ Again(a, round).round = round
           /\ Again(a, round).at = "send" /\ Again(a, round).provider = "primary"
           /\ Again(a, round).tries = 0 /\ Again(a, round).second = FALSE
           /\ Again(a, round).sent = a.sent /\ Again(a, round).spent = a.spent
           /\ Again(a, round).turned = a.turned /\ Again(a, round).reported = a.reported
BY DEF Again, Requests, Providers

LEMMA NotAskingTypes == NotAsking \in Requests
BY DEF NotAsking, Requests, Providers

LEMMA AskedTypes ==
    ASSUME NEW o \in Operations
    PROVE  /\ Asked(o) \in Requests
           /\ Asked(o).op = o /\ Asked(o).round = "first" /\ Asked(o).at = "send"
           /\ Asked(o).provider = "primary" /\ Asked(o).tries = 0 /\ Asked(o).second = FALSE
           /\ Asked(o).sent = 0 /\ Asked(o).spent = 0 /\ Asked(o).reported = 0
           /\ Asked(o).turned = FALSE
BY DEF Asked, Again, NotAsking, Requests, Providers

\* A step of p leaves the requests of the others, and the configuration, alone.
LEMMA AskFrame ==
    ASSUME AskTypeOK, NEW p \in Callers, AskStep(p)
    PROVE  /\ UNCHANGED <<fanOut, openai>>
           /\ asking' = [asking EXCEPT ![p] = asking'[p]]
           /\ \A q \in Callers \ {p} : asking'[q] = asking[q] /\ tokens'[q] = tokens[q]
<1> USE DEF AskTypeOK, NewMethod
<1>1. CASE \E o \in Operations : Ask(p, o)
    BY <1>1 DEF Ask
<1>2. CASE Refused(p)
    BY <1>2 DEF Refused, Unreachable
<1>3. CASE Rejected(p)
    BY <1>3 DEF Rejected, Unreachable
<1>4. CASE BreaksOff(p)
    BY <1>4 DEF BreaksOff
<1>5. CASE \E n \in 0..1 : Answered(p, n)
    BY <1>5 DEF Answered, Counted
<1>6. CASE LoadCost(p) \/ SaveCost(p) \/ SaveFails(p)
    BY <1>6 DEF LoadCost, SaveCost, SaveFails
<1>7. CASE UsesAnswer(p)
    BY <1>7 DEF UsesAnswer, Taken, OffContract, WrongType, Prose, Proposed, Succeeded, Raised
<1>8. CASE Deliver(p) \/ KillCall(p)
    BY <1>8 DEF Deliver, KillCall
<1>9. QED
    BY <1>1, <1>2, <1>3, <1>4, <1>5, <1>6, <1>7, <1>8 DEF AskStep

\* The request of p goes on as one.
LEMMA RequestTypes ==
    ASSUME AskTypeOK, NEW p \in Callers, AskStep(p)
    PROVE  asking'[p] \in Requests
<1> USE DEF AskTypeOK
<1>0. asking[p] \in Requests
    OBVIOUS
<1>1. CASE \E o \in Operations : Ask(p, o)
    BY <1>1, AskedTypes DEF Ask, Asked
<1>2. CASE Refused(p)
    BY <1>0, <1>2 DEF Refused, Unreachable, Requests, Providers
<1>3. CASE Rejected(p)
    BY <1>0, <1>3 DEF Rejected, Unreachable, Requests, Providers
<1>4. CASE BreaksOff(p)
    BY <1>0, <1>4 DEF BreaksOff, Requests
<1>5. CASE \E n \in 0..1 : Answered(p, n)
    BY <1>0, <1>5 DEF Answered, Requests
<1>6. CASE LoadCost(p) \/ SaveCost(p) \/ SaveFails(p)
    BY <1>0, <1>6 DEF LoadCost, SaveCost, SaveFails, Requests
<1>7. CASE UsesAnswer(p)
  <2>1. CASE Taken(p) \/ WrongType(p)
    <3>1. PICK at \in {"done", "raised"} : asking' = [asking EXCEPT ![p].at = at]
        BY <2>1 DEF Taken, WrongType, Succeeded, Raised
    <3>2. QED
        BY <1>0, <3>1 DEF Requests
  <2>2. CASE OffContract(p)
    <3>1. CASE Raised(p)
        BY <1>0, <3>1 DEF Raised, Requests
    <3>2. CASE asking' = [asking EXCEPT ![p] = Again(asking[p], "again")]
        BY <1>0, <3>2, AgainTypes
    <3>3. QED
        BY <2>2, <3>1, <3>2 DEF OffContract
  <2>3. CASE Prose(p)
      BY <1>0, <2>3 DEF Prose, Requests
  <2>4. CASE \E parses, validates \in BOOLEAN : (validates => parses) /\ Proposed(p, parses, validates)
    <3>1. asking[p].provider \in Providers /\ tokens[p] \in [Providers -> Nat]
        BY <1>0 DEF Requests
    <3>2. Reported(p) \in Nat
        BY <1>0, <3>1 DEF Reported, Requests
    <3>3. [asking[p] EXCEPT !.reported = Reported(p)] \in Requests
        BY <1>0, <3>2 DEF Requests
    <3>4. PICK parses, validates \in BOOLEAN : Proposed(p, parses, validates)
        BY <2>4
    <3> DEFINE next == RoundAfter(asking[p].round, parses, validates)
    <3>5. CASE next = "end"
      <4>1. PICK at \in {"done", "raised"} :
               asking' = [asking EXCEPT ![p].reported = Reported(p), ![p].at = at]
          BY <3>4, <3>5 DEF Proposed
      <4>2. QED
          BY <1>0, <3>2, <4>1 DEF Requests
    <3>6. CASE next # "end"
      <4>1. asking'[p] = Again([asking[p] EXCEPT !.reported = Reported(p)], next)
          BY <3>4, <3>6 DEF Proposed
      <4>2. next \in {"reparse", "revalidate"}
          BY <3>6 DEF RoundAfter
      <4>3. \A a \in Requests : Again(a, "reparse") \in Requests /\ Again(a, "revalidate") \in Requests
          BY AgainTypes
      <4> HIDE DEF next
      <4>4. QED
          BY <3>3, <4>1, <4>2, <4>3
    <3>7. QED
        BY <3>5, <3>6
  <2>5. QED
      BY <1>7, <2>1, <2>2, <2>3, <2>4 DEF UsesAnswer
<1>8. CASE Deliver(p) \/ KillCall(p)
    BY <1>8, NotAskingTypes DEF Deliver, KillCall
<1>9. QED
    BY <1>1, <1>2, <1>3, <1>4, <1>5, <1>6, <1>7, <1>8 DEF AskStep

\* The clients' counts are numbers.
LEMMA TokenTypes ==
    ASSUME AskTypeOK, NEW p \in Callers, AskStep(p)
    PROVE  tokens' \in [Callers -> [Providers -> Nat]]
<1> USE DEF AskTypeOK, NewMethod
<1>0. asking[p] \in Requests /\ asking[p].provider \in Providers
    BY DEF Requests
<1>1. CASE \E o \in Operations : Ask(p, o)
    BY <1>1 DEF Ask, Providers
<1>2. CASE Refused(p) \/ Rejected(p)
    BY <1>2 DEF Refused, Rejected, Unreachable, Providers
<1>3. CASE BreaksOff(p) \/ Deliver(p)
    BY <1>3 DEF BreaksOff, Deliver
<1>4. CASE \E n \in 0..1 : Answered(p, n)
    BY <1>0, <1>4 DEF Answered, Counted
<1>5. CASE LoadCost(p) \/ SaveCost(p) \/ SaveFails(p)
    BY <1>5 DEF LoadCost, SaveCost, SaveFails
<1>6. CASE UsesAnswer(p)
  <2>1. UNCHANGED tokens \/ tokens' = [tokens EXCEPT ![p]["primary"] = 0]
      BY <1>6 DEF UsesAnswer, Taken, OffContract, WrongType, Prose, Proposed
  <2>2. QED
      BY <2>1 DEF Providers
<1>7. CASE KillCall(p)
    BY <1>7 DEF KillCall
<1>8. QED
    BY <1>1, <1>2, <1>3, <1>4, <1>5, <1>6, <1>7 DEF AskStep

\* Types are kept by every step.
LEMMA AskTypeStep ==
    ASSUME AskTypeOK, NEW p \in Callers, AskStep(p)
    PROVE  AskTypeOK'
<1> USE DEF AskTypeOK
<1>1. asking' \in [Callers -> Requests]
    BY AskFrame, RequestTypes
<1>2. tokens' \in [Callers -> [Providers -> Nat]]
    BY TokenTypes
<1>3. fanOut' \in BOOLEAN /\ openai' \subseteq Providers
    BY AskFrame
<1>4. asking[p].base \in Nat
    BY DEF Requests
<1>5. /\ cost' \in Nat /\ received' \in Nat /\ skewed' \in BOOLEAN
      /\ ops' \in Nat /\ saveFailures' \in Nat /\ callKills' \in Nat
  <2>1. CASE \E o \in Operations : Ask(p, o)
      BY <2>1 DEF Ask
  <2>2. CASE Refused(p) \/ Rejected(p) \/ BreaksOff(p) \/ UsesAnswer(p) \/ Deliver(p)
      BY <2>2 DEF Refused, Rejected, BreaksOff, UsesAnswer, Deliver
  <2>3. CASE \E n \in 0..1 : Answered(p, n)
      BY <2>3 DEF Answered
  <2>4. CASE LoadCost(p) \/ SaveCost(p) \/ SaveFails(p)
    <3>1. skewed' \in BOOLEAN
        BY <2>4, Zenon DEF LoadCost, SaveCost, SaveFails
    <3>2. QED
        BY <1>4, <2>4, <3>1 DEF LoadCost, SaveCost, SaveFails
  <2>5. CASE KillCall(p)
      BY <2>5 DEF KillCall
  <2>6. QED
      BY <2>1, <2>2, <2>3, <2>4, <2>5 DEF AskStep
<1>6. QED
    BY <1>1, <1>2, <1>3, <1>5

-----------------------------------------------------------------------------
(* What a caller's request is after each kind of step.                     *)

\* p goes from one step to another of the same request.
Goes(p, steps) == \E at \in steps : asking' = [asking EXCEPT ![p].at = at]

\* What happens to p's request, with what it sent and whether it goes on.
Sending(p) ==
    \/ asking' = [asking EXCEPT ![p].tries = @ + 1, ![p].sent = @ + 1] /\ asking[p].tries + 1 < MaxAttempts
    \/ /\ fanOut /\ asking[p].provider = "primary"
       /\ asking' = [asking EXCEPT ![p].provider = "fallback", ![p].tries = 0,
                      ![p].second = FALSE, ![p].sent = @ + 1, ![p].turned = TRUE]
    \/ asking' = [asking EXCEPT ![p].at = "raised", ![p].sent = @ + 1]
    \/ \E n \in 0..1 : \E at \in {"load", "answer"} :
         asking' = [asking EXCEPT ![p].at = at, ![p].sent = @ + 1, ![p].spent = @ + n, ![p].base = n]

\* An edit's request is over or goes on with what it reported.
Reporting(p, r) ==
    \/ \E at \in {"done", "raised"} : asking' = [asking EXCEPT ![p].reported = r, ![p].at = at]
    \/ asking[p].round = "first"
       /\ asking' = [asking EXCEPT ![p] = Again([asking[p] EXCEPT !.reported = r], "reparse")]
    \/ asking[p].round # "revalidate"
       /\ asking' = [asking EXCEPT ![p] = Again([asking[p] EXCEPT !.reported = r], "revalidate")]

\* Each step of p is one of these.
LEMMA AskEffect ==
    ASSUME AskTypeOK, NEW p \in Callers, AskStep(p)
    PROVE  \/ \E o \in Operations : asking' = [asking EXCEPT ![p] = Asked(o)]
           \/ asking[p].at = "send" /\ Sending(p)
           \/ /\ asking[p].at \in {"load", "save", "answer"}
              /\ Goes(p, {"answer", "done", "raised"})
           \/ /\ asking[p].at = "load"
              /\ asking' = [asking EXCEPT ![p].at = "save", ![p].base = cost + @]
           \/ /\ asking[p].at = "answer" /\ asking[p].op \in {"choose", "native"}
              /\ asking[p].round # "again"
              /\ asking' = [asking EXCEPT ![p] = Again(asking[p], "again")]
           \/ /\ asking[p].at = "answer" /\ AsksForPatch(asking[p].op)
              /\ ~ asking[p].second
              /\ asking' = [asking EXCEPT ![p].at = "send", ![p].tries = 0, ![p].second = TRUE]
           \/ /\ asking[p].at = "answer" /\ AsksForPatch(asking[p].op)
              /\ Reporting(p, Reported(p))
           \/ asking' = [asking EXCEPT ![p] = NotAsking]
<1>1. CASE \E o \in Operations : Ask(p, o)
    BY <1>1 DEF Ask
<1>2. CASE Refused(p)
    BY <1>2 DEF Refused, Unreachable, Sends, Sending, AttemptsLeft
<1>3. CASE Rejected(p)
    BY <1>3 DEF Rejected, Unreachable, Sends, Sending
<1>4. CASE BreaksOff(p)
    BY <1>4 DEF BreaksOff, Sends, Sending
<1>5. CASE \E n \in 0..1 : Answered(p, n)
  <2>1. PICK n \in 0..1 : Answered(p, n)
      BY <1>5
  <2>2. \E at \in {"load", "answer"} :
          asking' = [asking EXCEPT ![p].at = at, ![p].sent = @ + 1, ![p].spent = @ + n, ![p].base = n]
      BY <2>1 DEF Answered
  <2>3. QED
      BY <2>1, <2>2 DEF Answered, Sends, Sending
<1>6. CASE LoadCost(p)
    BY <1>6 DEF LoadCost
<1>7. CASE SaveCost(p) \/ SaveFails(p)
    BY <1>7 DEF SaveCost, SaveFails, Goes
<1>8. CASE Taken(p) \/ WrongType(p)
    BY <1>8 DEF Taken, WrongType, AtAnswer, Succeeded, Raised, Goes
<1>9. CASE OffContract(p)
    BY <1>9 DEF OffContract, AtAnswer, Raised, Goes
<1>10. CASE Prose(p)
    BY <1>10 DEF Prose, AtAnswer, AsksForPatch
<1>11. CASE \E parses, validates \in BOOLEAN : (validates => parses) /\ Proposed(p, parses, validates)
  <2>1. PICK parses, validates \in BOOLEAN : Proposed(p, parses, validates)
      BY <1>11
  <2> DEFINE next == RoundAfter(asking[p].round, parses, validates)
  <2>2. CASE next = "end"
      BY <2>1, <2>2 DEF Proposed, AtAnswer, AsksForPatch, Reporting
  <2>3. CASE next = "reparse"
    <3>1. asking[p].round = "first"
        BY <2>3 DEF RoundAfter
    <3>2. QED
        BY <2>1, <2>3, <3>1 DEF Proposed, AtAnswer, AsksForPatch, Reporting
  <2>4. CASE next = "revalidate"
    <3>1. asking[p].round # "revalidate"
        BY <2>4 DEF RoundAfter
    <3>2. QED
        BY <2>1, <2>4, <3>1 DEF Proposed, AtAnswer, AsksForPatch, Reporting
  <2>5. QED
      BY <2>2, <2>3, <2>4 DEF RoundAfter
<1>12. CASE Deliver(p) \/ KillCall(p)
    BY <1>12 DEF Deliver, KillCall
<1>13. QED
    BY <1>1, <1>2, <1>3, <1>4, <1>5, <1>6, <1>7, <1>8, <1>9, <1>10, <1>11, <1>12
       DEF AskStep, UsesAnswer

-----------------------------------------------------------------------------
(* Requests are bounded.                                                   *)

LEMMA RequestFields ==
    ASSUME NEW a \in Requests
    PROVE  /\ a.op \in Operations \cup {"none"} /\ a.provider \in Providers
           /\ a.tries \in Nat /\ a.second \in BOOLEAN
           /\ a.round \in {"first", "again", "reparse", "revalidate"}
           /\ a.base \in Nat /\ a.reported \in Nat /\ a.sent \in Nat /\ a.spent \in Nat
           /\ a.turned \in BOOLEAN
BY DEF Requests

LEMMA SaneStep ==
    ASSUME AskTypeOK, NEW p \in Callers, AskStep(p), Sane(asking[p])
    PROVE  Sane(asking[p])'
<1> DEFINE a == asking[p]
<1>0. a \in Requests /\ asking \in [Callers -> Requests] /\ UNCHANGED fanOut
    BY AskFrame DEF AskTypeOK
<1>1. /\ \A round \in {"again", "reparse", "revalidate"}, r \in Nat :
           LET b == Again([a EXCEPT !.reported = r], round)
           IN  /\ b.op = a.op /\ b.round = round /\ b.at = "send" /\ b.provider = "primary"
               /\ b.second = FALSE
      /\ Again(a, "again").op = a.op /\ Again(a, "again").round = "again"
      /\ Again(a, "again").at = "send" /\ Again(a, "again").provider = "primary"
      /\ Again(a, "again").second = FALSE
    BY <1>0 DEF Again, Requests
<1>2. Reported(p) \in Nat
  <2>1. a.provider \in Providers /\ a.reported \in Nat
      BY <1>0, RequestFields
  <2>2. tokens[p][a.provider] \in Nat
      BY <2>1 DEF AskTypeOK
  <2>3. QED
      BY <2>1, <2>2 DEF Reported
<1> USE DEF Sane
<1>3. CASE \E o \in Operations : asking' = [asking EXCEPT ![p] = Asked(o)]
  <2>1. PICK o \in Operations : asking' = [asking EXCEPT ![p] = Asked(o)]
      BY <1>3
  <2>2. asking'[p] = Asked(o) /\ o # "none"
      BY <1>0, <2>1 DEF Operations
  <2>3. QED
      BY <2>2, AskedTypes
<1>4. CASE asking[p].at = "send" /\ Sending(p)
    BY <1>0, <1>4 DEF Sending, Requests
<1>5. CASE asking[p].at \in {"load", "save", "answer"} /\ Goes(p, {"answer", "done", "raised"})
    BY <1>0, <1>5 DEF Goes, Requests
<1>6. CASE asking[p].at = "load" /\ asking' = [asking EXCEPT ![p].at = "save", ![p].base = cost + @]
    BY <1>0, <1>6 DEF Requests
<1>7. CASE /\ asking[p].at = "answer" /\ asking[p].op \in {"choose", "native"}
           /\ asking' = [asking EXCEPT ![p] = Again(asking[p], "again")]
    BY <1>0, <1>1, <1>7
<1>8. CASE /\ asking[p].at = "answer" /\ AsksForPatch(asking[p].op)
           /\ asking' = [asking EXCEPT ![p].at = "send", ![p].tries = 0, ![p].second = TRUE]
    BY <1>0, <1>8 DEF Requests
<1>9. CASE asking[p].at = "answer" /\ AsksForPatch(asking[p].op) /\ Reporting(p, Reported(p))
  <2>1. CASE \E at \in {"done", "raised"} :
               asking' = [asking EXCEPT ![p].reported = Reported(p), ![p].at = at]
      BY <1>0, <1>2, <1>9, <2>1 DEF Requests
  <2>2. CASE \E round \in {"reparse", "revalidate"} :
               asking' = [asking EXCEPT ![p] = Again([asking[p] EXCEPT !.reported = Reported(p)], round)]
      BY <1>0, <1>1, <1>2, <1>9, <2>2
  <2>3. QED
      BY <1>9, <2>1, <2>2 DEF Reporting
<1>10. CASE asking' = [asking EXCEPT ![p] = NotAsking]
    BY <1>0, <1>10 DEF NotAsking
<1>11. QED
    BY <1>3, <1>4, <1>5, <1>6, <1>7, <1>8, <1>9, <1>10, AskEffect

LEMMA BeforeNat == ASSUME AskTypeOK, NEW a \in Requests PROVE Before(a) \in Nat
BY DEF Before, RoundCalls, ProviderCalls

\* No more calls than the operation's rounds and providers allow.
LEMMA BeforeBound ==
    ASSUME AskTypeOK, NEW a \in Requests, Sane(a)
    PROVE  Before(a) + 1 <= Rounds(a.op) * (IF fanOut THEN 2 ELSE 1)
<1>1. a.round \in {"first", "again", "reparse", "revalidate"} /\ a.provider \in Providers
    BY RequestFields
<1>2. QED
    BY <1>1 DEF Before, RoundCalls, ProviderCalls, Sane, Rounds, AsksForPatch, AskTypeOK

\* A call more is MaxAttempts requests more.
LEMMA CallsTimesAttempts ==
    ASSUME NEW m \in Nat, NEW n \in Nat, m <= n
    PROVE  /\ m * MaxAttempts \in Nat
           /\ (m + 1) * MaxAttempts = m * MaxAttempts + MaxAttempts
           /\ m * MaxAttempts <= n * MaxAttempts
BY AskAssumption

\* A request that goes on in the same call, ended or not, or begins the next one.
LEMMA WithinCalls ==
    ASSUME AskTypeOK, NEW a \in Requests, NEW b \in Requests, Within(a),
           b.sent = IF a.at = "send" THEN a.sent + 1 ELSE a.sent,
           \/ Before(b) = Before(a) /\ b.at # "send"
           \/ Before(b) >= Before(a) + 1 /\ b.tries = 0
    PROVE  Within(b)
<1>1. /\ a.sent \in Nat /\ a.tries \in Nat /\ Before(a) \in Nat /\ Before(b) \in Nat
      /\ b.sent \in Nat /\ MaxAttempts \in Nat \ {0}
    BY RequestFields, BeforeNat, AskAssumption
<1> DEFINE m == Before(a) * MaxAttempts
<1> DEFINE n == Before(b) * MaxAttempts
<1>2. /\ m \in Nat /\ (Before(a) + 1) * MaxAttempts = m + MaxAttempts
      /\ n \in Nat /\ (Before(b) + 1) * MaxAttempts = n + MaxAttempts
    BY <1>1, CallsTimesAttempts
<1>3. a.at # "send" => a.sent <= m + MaxAttempts
    BY <1>2 DEF Within
<1>4. a.at = "send" => a.sent + 1 <= m + MaxAttempts
    BY <1>1, <1>2 DEF Within
<1>5. b.sent <= m + MaxAttempts
    BY <1>3, <1>4
<1>6. CASE Before(b) = Before(a) /\ b.at # "send"
    BY <1>2, <1>5, <1>6 DEF Within
<1>7. CASE Before(b) >= Before(a) + 1 /\ b.tries = 0
  <2>1. m + MaxAttempts <= n
    <3>1. Before(a) + 1 \in Nat
        BY <1>1
    <3>2. (Before(a) + 1) * MaxAttempts <= n
        BY <1>1, <1>7, <3>1, CallsTimesAttempts
    <3>3. QED
        BY <1>2, <3>2
  <2>2. b.sent <= n /\ b.sent <= n + MaxAttempts
      BY <1>1, <1>2, <1>5, <2>1
  <2> HIDE DEF m
  <2>3. b.at = "send" => b.tries < MaxAttempts /\ b.sent <= n + b.tries
      BY <1>1, <1>2, <1>7, <2>2
  <2>4. QED
      BY <1>2, <2>2, <2>3 DEF Within
<1>8. QED
    BY <1>6, <1>7

LEMMA WithinStep ==
    ASSUME AskTypeOK, NEW p \in Callers, AskStep(p), Sane(asking[p]), Within(asking[p])
    PROVE  Within(asking[p])'
<1> DEFINE a == asking[p]
<1> DEFINE b == asking'[p]
<1>0. a \in Requests /\ b \in Requests /\ asking \in [Callers -> Requests] /\ UNCHANGED fanOut
    BY AskFrame, RequestTypes DEF AskTypeOK
<1>1. Within(b) => Within(asking[p])'
    BY <1>0 DEF Within, Before, RoundCalls
<1>2. Reported(p) \in Nat /\ [a EXCEPT !.reported = Reported(p)] \in Requests
  <2>1. a.provider \in Providers /\ a.reported \in Nat
      BY <1>0, RequestFields
  <2>2. tokens[p][a.provider] \in Nat
      BY <2>1 DEF AskTypeOK
  <2>3. Reported(p) \in Nat
      BY <2>1, <2>2 DEF Reported
  <2>4. QED
      BY <1>0, <2>3 DEF Requests
<1>3. a.round \in {"first", "again", "reparse", "revalidate"} /\ a.provider \in Providers
    BY <1>0, RequestFields
<1> SUFFICES Within(b)
    BY <1>1
<1>4. CASE \E o \in Operations : asking' = [asking EXCEPT ![p] = Asked(o)]
  <2>1. PICK o \in Operations : asking' = [asking EXCEPT ![p] = Asked(o)]
      BY <1>4
  <2>2. b = Asked(o)
      BY <1>0, <2>1
  <2>3. b.sent = 0 /\ b.tries = 0
      BY <2>2, AskedTypes
  <2>4. Before(b) * MaxAttempts \in Nat /\ MaxAttempts \in Nat \ {0}
      BY <1>0, BeforeNat, CallsTimesAttempts, AskAssumption
  <2>5. (Before(b) + 1) * MaxAttempts = Before(b) * MaxAttempts + MaxAttempts
      BY <1>0, BeforeNat, CallsTimesAttempts
  <2>6. QED
      BY <2>3, <2>4, <2>5 DEF Within
<1>5. CASE a.at = "send" /\ Sending(p)
  <2>1. CASE asking' = [asking EXCEPT ![p].tries = @ + 1, ![p].sent = @ + 1] /\ a.tries + 1 < MaxAttempts
    <3>1. /\ b.at = "send" /\ b.tries = a.tries + 1 /\ b.sent = a.sent + 1
          /\ b.op = a.op /\ b.round = a.round /\ b.provider = a.provider /\ b.second = a.second
        BY <1>0, <1>5, <2>1 DEF Requests
    <3>2. Before(b) = Before(a)
        BY <3>1 DEF Before
    <3>3. Before(a) * MaxAttempts \in Nat /\ a.tries \in Nat /\ a.sent \in Nat
        BY <1>0, RequestFields, BeforeNat, CallsTimesAttempts
    <3>4. QED
        BY <1>5, <2>1, <3>1, <3>2, <3>3 DEF Within
  <2>2. CASE /\ fanOut /\ a.provider = "primary"
             /\ asking' = [asking EXCEPT ![p].provider = "fallback", ![p].tries = 0,
                             ![p].second = FALSE, ![p].sent = @ + 1, ![p].turned = TRUE]
    <3>1. /\ b.tries = 0 /\ b.sent = a.sent + 1
          /\ b.op = a.op /\ b.round = a.round /\ b.provider = "fallback" /\ b.second = FALSE
        BY <1>0, <2>2 DEF Requests
    <3>2. Before(b) >= Before(a) + 1
        BY <1>3, <2>2, <3>1 DEF Before, Sane, RoundCalls, ProviderCalls
    <3>3. QED
        BY <1>0, <1>5, <3>1, <3>2, WithinCalls
  <2>3. CASE /\ b.at # "send" /\ b.sent = a.sent + 1
             /\ b.op = a.op /\ b.round = a.round /\ b.provider = a.provider /\ b.second = a.second
    <3>1. Before(b) = Before(a)
        BY <2>3 DEF Before
    <3>2. QED
        BY <1>0, <1>5, <2>3, <3>1, WithinCalls
  <2>4. CASE asking' = [asking EXCEPT ![p].at = "raised", ![p].sent = @ + 1]
      BY <1>0, <2>3, <2>4 DEF Requests
  <2>5. CASE \E n \in 0..1 : \E at \in {"load", "answer"} :
               asking' = [asking EXCEPT ![p].at = at, ![p].sent = @ + 1, ![p].spent = @ + n, ![p].base = n]
      BY <1>0, <2>3, <2>5 DEF Requests
  <2>6. QED
      BY <1>5, <2>1, <2>2, <2>4, <2>5 DEF Sending
<1>6. CASE /\ a.at # "send" /\ b.at # "send" /\ b.sent = a.sent
           /\ b.op = a.op /\ b.round = a.round /\ b.provider = a.provider /\ b.second = a.second
  <2>1. Before(b) = Before(a)
      BY <1>6 DEF Before
  <2>2. QED
      BY <1>0, <1>6, <2>1, WithinCalls
<1>7. CASE a.at \in {"load", "save", "answer"} /\ Goes(p, {"answer", "done", "raised"})
    BY <1>0, <1>6, <1>7 DEF Goes, Requests
<1>8. CASE a.at = "load" /\ asking' = [asking EXCEPT ![p].at = "save", ![p].base = cost + @]
    BY <1>0, <1>6, <1>8 DEF Requests
<1>9. CASE /\ a.at = "answer" /\ a.op \in {"choose", "native"} /\ a.round # "again"
           /\ asking' = [asking EXCEPT ![p] = Again(a, "again")]
  <2>1. b = Again(a, "again")
      BY <1>0, <1>9
  <2>2. /\ b.tries = 0 /\ b.sent = a.sent
        /\ b.op = a.op /\ b.round = "again" /\ b.provider = "primary" /\ b.second = FALSE
      BY <1>0, <2>1 DEF Again, Requests
  <2>3. Before(b) >= Before(a) + 1
      BY <1>3, <1>9, <2>2 DEF Before, Sane, AsksForPatch, RoundCalls, ProviderCalls
  <2>4. QED
      BY <1>0, <1>9, <2>2, <2>3, WithinCalls
<1>10. CASE /\ a.at = "answer" /\ AsksForPatch(a.op) /\ ~ a.second
            /\ asking' = [asking EXCEPT ![p].at = "send", ![p].tries = 0, ![p].second = TRUE]
  <2>1. /\ b.tries = 0 /\ b.sent = a.sent
        /\ b.op = a.op /\ b.round = a.round /\ b.provider = a.provider /\ b.second = TRUE
      BY <1>0, <1>10 DEF Requests
  <2>2. Before(b) >= Before(a) + 1
      BY <1>3, <1>10, <2>1 DEF Before, RoundCalls, ProviderCalls
  <2>3. QED
      BY <1>0, <1>10, <2>1, <2>2, WithinCalls
<1>11. CASE a.at = "answer" /\ AsksForPatch(a.op) /\ Reporting(p, Reported(p))
  <2>1. CASE \E at \in {"done", "raised"} :
               asking' = [asking EXCEPT ![p].reported = Reported(p), ![p].at = at]
      BY <1>0, <1>2, <1>6, <1>11, <2>1 DEF Requests
  <2>2. ASSUME NEW round \in {"reparse", "revalidate"}, a.round # "revalidate",
               round = "reparse" => a.round = "first",
               asking' = [asking EXCEPT ![p] = Again([a EXCEPT !.reported = Reported(p)], round)]
        PROVE  Within(b)
    <3>1. b = Again([a EXCEPT !.reported = Reported(p)], round)
        BY <1>0, <2>2
    <3>2. /\ b.tries = 0 /\ b.sent = a.sent
          /\ b.op = a.op /\ b.round = round /\ b.provider = "primary" /\ b.second = FALSE
        BY <1>0, <1>2, <3>1 DEF Again, Requests
    <3>3. Before(b) >= Before(a) + 1
        BY <1>3, <1>11, <2>2, <3>2 DEF Before, Sane, AsksForPatch, RoundCalls, ProviderCalls
    <3>4. QED
        BY <1>0, <1>11, <3>2, <3>3, WithinCalls
  <2>3. QED
      BY <1>11, <2>1, <2>2 DEF Reporting
<1>12. CASE asking' = [asking EXCEPT ![p] = NotAsking]
  <2>1. b = NotAsking
      BY <1>0, <1>12
  <2>2. b.at = "idle" /\ b.sent = 0
      BY <2>1 DEF NotAsking
  <2>3. (Before(b) + 1) * MaxAttempts = Before(b) * MaxAttempts + MaxAttempts
      BY <1>0, BeforeNat, CallsTimesAttempts
  <2>4. Before(b) * MaxAttempts \in Nat /\ MaxAttempts \in Nat
      BY <1>0, BeforeNat, CallsTimesAttempts, AskAssumption
  <2>5. QED
      BY <2>2, <2>3, <2>4 DEF Within
<1>13. QED
    BY <1>4, <1>5, <1>7, <1>8, <1>9, <1>10, <1>11, <1>12, AskEffect

-----------------------------------------------------------------------------
(* Usage is counted.                                                       *)

\* The tokens of p's own requests stay in its report and its client's count.
LEMMA AccountedStep ==
    ASSUME AskTypeOK, NEW p \in Callers, AskStep(p), Sane(asking[p]), Accounted(p)
    PROVE  Accounted(p)'
<1> DEFINE a == asking[p]
<1> DEFINE b == asking'[p]
<1>0. /\ a \in Requests /\ asking \in [Callers -> Requests] /\ UNCHANGED openai
      /\ tokens \in [Callers -> [Providers -> Nat]]
    BY AskFrame DEF AskTypeOK
<1>1. /\ a.reported \in Nat /\ a.spent \in Nat /\ a.provider \in Providers
      /\ a.turned \in BOOLEAN
    BY <1>0, RequestFields
<1>2. /\ "primary" \in Providers /\ tokens[p]["primary"] \in Nat
      /\ ~ a.turned => a.provider = "primary"
    BY <1>0, <1>1 DEF Providers, Sane
<1> USE DEF Accounted
<1>3. CASE \E o \in Operations : Ask(p, o)
  <2>1. PICK o \in Operations : Ask(p, o)
      BY <1>3
  <2>2. b = Asked(o) /\ tokens' = IF AsksForPatch(o) THEN NewMethod(p, "primary") ELSE tokens
      BY <1>0, <2>1 DEF Ask
  <2>3. b.op = o /\ b.reported = 0 /\ b.spent = 0 /\ b.at = "send"
      BY <2>2, AskedTypes
  <2>4. AsksForPatch(o) => tokens'[p]["primary"] = 0
      BY <1>0, <1>2, <2>2 DEF NewMethod
  <2>5. QED
      BY <2>3, <2>4
<1>4. CASE b.turned \/ b.at = "raised"
    BY <1>4
<1>5. CASE /\ tokens' = tokens /\ b.op = a.op /\ b.turned = a.turned /\ b.reported = a.reported
           /\ b.spent = a.spent
           /\ a.at \in {"send", "load", "save", "answer"} /\ b.at \in {"send", "load", "save", "answer"}
    BY <1>0, <1>5
<1>6. CASE Refused(p) \/ Rejected(p)
  <2>1. CASE Unreachable(p)
      BY <1>0, <1>4, <2>1 DEF Unreachable, Requests
  <2>2. CASE tokens' = tokens /\ asking' = [asking EXCEPT ![p].tries = @ + 1, ![p].sent = @ + 1]
      BY <1>0, <1>5, <1>6, <2>2 DEF Refused, Rejected, Sends, Requests
  <2>3. QED
      BY <1>6, <2>1, <2>2 DEF Refused, Rejected
<1>7. CASE BreaksOff(p)
    BY <1>0, <1>4, <1>7 DEF BreaksOff, Requests
<1>8. CASE \E n \in 0..1 : Answered(p, n)
  <2>1. PICK n \in 0..1 : Answered(p, n)
      BY <1>8
  <2>2. /\ a.at = "send" /\ b.at \in {"load", "answer"}
        /\ b.op = a.op /\ b.turned = a.turned /\ b.reported = a.reported /\ b.spent = a.spent + n
      BY <1>0, <2>1 DEF Answered, Sends, Requests
  <2>3. ~ a.turned /\ "primary" \in openai => tokens'[p]["primary"] = tokens[p]["primary"] + n
      BY <1>0, <1>2, <2>1 DEF Answered, Counted
  <2>4. ASSUME AsksForPatch(b.op), "primary" \in openai, ~ b.turned
        PROVE  b.reported + tokens'[p]["primary"] = b.spent
    <3>1. a.reported + tokens[p]["primary"] = a.spent
        BY <2>2, <2>4
    <3>2. tokens'[p]["primary"] = tokens[p]["primary"] + n
        BY <2>2, <2>3, <2>4
    <3>3. QED
        BY <1>1, <1>2, <2>2, <3>1, <3>2
  <2>5. QED
      BY <1>0, <2>2, <2>4
<1>9. CASE LoadCost(p) \/ SaveCost(p) \/ SaveFails(p)
    BY <1>0, <1>5, <1>9 DEF LoadCost, SaveCost, SaveFails, Requests
<1>10. CASE Taken(p) \/ OffContract(p) \/ WrongType(p)
  <2>1. ~ AsksForPatch(a.op)
      BY <1>10 DEF Taken, OffContract, WrongType, AtAnswer, AsksForPatch
  <2>2. b.op = a.op
    <3>1. CASE b = Again(a, "again")
        BY <1>0, <3>1 DEF Again, Requests
    <3>2. CASE \E at \in {"done", "raised"} : asking' = [asking EXCEPT ![p].at = at]
        BY <1>0, <3>2 DEF Requests
    <3>3. QED
        BY <1>0, <1>10, <3>1, <3>2 DEF Taken, OffContract, WrongType, Succeeded, Raised
  <2>3. QED
      BY <2>1, <2>2
<1>11. CASE Prose(p)
    BY <1>0, <1>5, <1>11 DEF Prose, AtAnswer, Requests
<1>12. CASE \E parses, validates \in BOOLEAN : (validates => parses) /\ Proposed(p, parses, validates)
  <2>1. PICK parses, validates \in BOOLEAN : Proposed(p, parses, validates)
      BY <1>12
  <2>2. Reported(p) \in Nat
      BY <1>0, <1>1 DEF Reported
  <2>3. a.at = "answer"
      BY <2>1 DEF Proposed, AtAnswer
  <2> DEFINE next == RoundAfter(a.round, parses, validates)
  <2>4. CASE next = "end"
    <3>1. b.op = a.op /\ b.turned = a.turned /\ b.reported = Reported(p) /\ b.spent = a.spent
        BY <1>0, <2>1, <2>4 DEF Proposed, Requests
    <3>2. b.at \in {"done", "raised"}
        BY <1>0, <2>1, <2>4 DEF Proposed, Requests
    <3>3. QED
        BY <1>0, <1>2, <2>3, <3>1, <3>2 DEF Reported
  <2>5. CASE next # "end"
    <3>1. b = Again([a EXCEPT !.reported = Reported(p)], next) /\ tokens' = NewMethod(p, "primary")
        BY <1>0, <2>1, <2>5 DEF Proposed
    <3>2. tokens'[p]["primary"] = 0
        BY <1>0, <1>2, <3>1 DEF NewMethod
    <3>3. /\ b.op = a.op /\ b.turned = a.turned /\ b.reported = Reported(p) /\ b.spent = a.spent
          /\ b.at = "send"
        BY <1>0, <2>2, <3>1 DEF Again, Requests
    <3>4. QED
        BY <1>0, <1>1, <1>2, <2>2, <2>3, <3>2, <3>3 DEF Reported
  <2>6. QED
      BY <2>4, <2>5
<1>13. CASE Deliver(p) \/ KillCall(p)
  <2>1. b = NotAsking
      BY <1>0, <1>13 DEF Deliver, KillCall
  <2>2. ~ AsksForPatch(b.op)
      BY <2>1 DEF NotAsking, AsksForPatch
  <2>3. QED
      BY <2>2
<1>14. QED
    BY <1>3, <1>6, <1>7, <1>8, <1>9, <1>10, <1>11, <1>12, <1>13 DEF AskStep, UsesAnswer

LEMMA UnsavedFinite == IsFiniteSet(Unsaved) /\ Cardinality(Unsaved) \in Nat
<1>1. Unsaved \subseteq Callers
    BY DEF Unsaved
<1>2. QED
    BY <1>1, AskAssumption, FS_Subset, FS_CardinalityType

\* What is not saved, and what of it is, comes from one caller at a time.
LEMMA SavedStep ==
    ASSUME AskTypeOK, NEW p \in Callers, AskStep(p), Sane(asking[p]), Saved
    PROVE  Saved'
<1> DEFINE a == asking[p]
<1> DEFINE b == asking'[p]
<1>0. /\ a \in Requests /\ asking \in [Callers -> Requests] /\ cost \in Nat /\ received \in Nat
      /\ a.base \in Nat
    BY RequestFields DEF AskTypeOK
<1>1. \A q \in Callers \ {p} : asking'[q] = asking[q]
    BY AskFrame
<1>2. CASE /\ a.at \notin {"load", "save"} /\ b.at \notin {"load", "save"}
           /\ UNCHANGED <<cost, received, skewed>>
  <2>1. Unsaved' = Unsaved
      BY <1>1, <1>2 DEF Unsaved
  <2>2. QED
      BY <1>1, <1>2, <2>1 DEF Saved
<1>3. CASE \E o \in Operations : Ask(p, o)
  <2>1. PICK o \in Operations : Ask(p, o)
      BY <1>3
  <2>2. b = Asked(o) /\ a.at = "idle" /\ UNCHANGED <<cost, received, skewed>>
      BY <1>0, <2>1 DEF Ask, Sane
  <2>3. b.at = "send"
      BY <2>2, AskedTypes
  <2>4. QED
      BY <1>2, <2>2, <2>3
<1>4. CASE Refused(p) \/ Rejected(p) \/ BreaksOff(p)
    BY <1>0, <1>2, <1>4 DEF Refused, Rejected, BreaksOff, Unreachable, Sends, Requests
<1>5. CASE \E n \in 0..1 : Answered(p, n)
  <2>1. PICK n \in 0..1 : Answered(p, n)
      BY <1>5
  <2>2. a.at = "send" /\ UNCHANGED <<cost, skewed>>
      BY <2>1 DEF Answered, Sends
  <2>3. CASE n = 1 /\ KeepsCost(a.op)
    <3>1. b.at = "load" /\ b.base = 1 /\ received' = received + 1
        BY <1>0, <2>1, <2>3 DEF Answered, Requests
    <3>2. Unsaved' = Unsaved \cup {p} /\ p \notin Unsaved
        BY <1>1, <2>2, <3>1 DEF Unsaved
    <3>3. Cardinality(Unsaved') = Cardinality(Unsaved) + 1 /\ Cardinality(Unsaved) \in Nat
        BY <3>2, UnsavedFinite, FS_AddElement
    <3>4. \A q \in Callers : asking'[q].at = "save" => q # p /\ asking[q] = asking'[q]
        BY <1>1, <3>1
    <3>5. \A q \in Callers : asking'[q].at = "load" => asking'[q].base = 1
        BY <1>1, <3>1 DEF Saved
    <3>6. received = cost + Cardinality(Unsaved) => received' = cost' + Cardinality(Unsaved')
        BY <1>0, <2>2, <3>1, <3>3
    <3>7. QED
        BY <2>2, <3>4, <3>5, <3>6 DEF Saved
  <2>4. CASE ~ (n = 1 /\ KeepsCost(a.op))
    <3>1. b.at = "answer" /\ received' = received
        BY <1>0, <2>1, <2>4 DEF Answered, Requests
    <3>2. QED
        BY <1>2, <2>2, <3>1
  <2>5. QED
      BY <2>3, <2>4
<1>6. CASE LoadCost(p)
  <2>1. a.at = "load" /\ b.at = "save" /\ b.base = cost + a.base /\ UNCHANGED <<cost, received>>
      BY <1>0, <1>6 DEF LoadCost, Requests
  <2>2. Unsaved' = Unsaved
      BY <1>1, <2>1 DEF Unsaved
  <2>3. ~ skewed' => ~ skewed /\ \A q \in Callers \ {p} : asking[q].at # "save"
      BY <1>6, Zenon DEF LoadCost
  <2>4. a.base = 1
      BY <2>1 DEF Saved
  <2>5. \A q \in Callers : asking'[q].at = "load" => asking'[q].base = 1
      BY <1>1, <2>1 DEF Saved
  <2>6. ~ skewed' => \A q \in Callers : asking'[q].at = "save" => q = p
      BY <1>1, <2>3
  <2>7. QED
      BY <2>1, <2>2, <2>3, <2>4, <2>5, <2>6 DEF Saved
<1>7. CASE SaveCost(p)
  <2>1. a.at = "save" /\ b.at = "answer" /\ cost' = a.base /\ UNCHANGED <<received, skewed>>
      BY <1>0, <1>7 DEF SaveCost, Requests
  <2>2. Unsaved' = Unsaved \ {p} /\ p \in Unsaved
      BY <1>1, <2>1 DEF Unsaved
  <2>3. Cardinality(Unsaved') = Cardinality(Unsaved) - 1 /\ Cardinality(Unsaved) \in Nat
      BY <2>2, UnsavedFinite, FS_RemoveElement
  <2>4. ~ skewed => \A q \in Callers : asking'[q].at # "save"
      BY <1>1, <2>1 DEF Saved
  <2>5. \A q \in Callers : asking'[q].at = "load" => asking'[q].base = 1
      BY <1>1, <2>1 DEF Saved
  <2>6. ~ skewed => received' = cost' + Cardinality(Unsaved')
      BY <1>0, <2>1, <2>3 DEF Saved
  <2>7. QED
      BY <2>1, <2>4, <2>5, <2>6 DEF Saved
<1>8. CASE SaveFails(p) \/ (KillCall(p) /\ a.at \in {"load", "save"})
  <2>1. skewed'
      BY <1>8, Zenon DEF SaveFails, KillCall
  <2>2. b.at \notin {"load", "save"}
      BY <1>0, <1>8 DEF SaveFails, KillCall, NotAsking, Requests
  <2>3. QED
      BY <1>1, <2>1, <2>2 DEF Saved
<1>9. CASE UsesAnswer(p)
  <2>1. a.at = "answer" /\ UNCHANGED <<cost, received, skewed>>
      BY <1>9 DEF UsesAnswer, Taken, OffContract, WrongType, Prose, Proposed, AtAnswer
  <2>2. b.at \notin {"load", "save"}
    <3>1. CASE Taken(p) \/ WrongType(p) \/ Prose(p)
        BY <1>0, <3>1 DEF Taken, WrongType, Prose, Succeeded, Raised, Requests
    <3>2. CASE OffContract(p)
        BY <1>0, <3>2 DEF OffContract, Raised, Again, Requests
    <3>3. CASE \E parses, validates \in BOOLEAN : Proposed(p, parses, validates)
      <4>1. PICK parses, validates \in BOOLEAN : Proposed(p, parses, validates)
          BY <3>3
      <4> DEFINE next == RoundAfter(a.round, parses, validates)
      <4>2. CASE next = "end"
        <5>1. PICK at \in {"done", "raised"} :
                 asking' = [asking EXCEPT ![p].reported = Reported(p), ![p].at = at]
            BY <4>1, <4>2 DEF Proposed
        <5>2. QED
            BY <1>0, <5>1 DEF Requests
      <4>3. CASE next # "end"
        <5>1. b = Again([a EXCEPT !.reported = Reported(p)], next)
            BY <1>0, <4>1, <4>3 DEF Proposed
        <5>2. QED
            BY <1>0, <5>1 DEF Again, Requests
      <4>4. QED
          BY <4>2, <4>3
    <3>4. QED
        BY <1>9, <3>1, <3>2, <3>3 DEF UsesAnswer
  <2>3. QED
      BY <1>2, <2>1, <2>2
<1>10. CASE Deliver(p) \/ (KillCall(p) /\ a.at \notin {"load", "save"})
  <2>1. b = NotAsking /\ a.at \notin {"load", "save"} /\ UNCHANGED <<cost, received>>
      BY <1>0, <1>10 DEF Deliver, KillCall
  <2>2. skewed' = skewed
      BY <1>10 DEF Deliver, KillCall, AskTypeOK
  <2>3. b.at = "idle"
      BY <2>1 DEF NotAsking
  <2>4. QED
      BY <1>2, <2>1, <2>2, <2>3
<1>11. QED
    BY <1>3, <1>4, <1>5, <1>6, <1>7, <1>8, <1>9, <1>10 DEF AskStep

-----------------------------------------------------------------------------
(* The theorems.                                                           *)

LEMMA AskInitially == AskInit => AskInductive
<1> SUFFICES ASSUME AskInit PROVE AskInductive
    OBVIOUS
<1> USE DEF AskInit
<1>1. AskTypeOK
    BY NotAskingTypes DEF AskTypeOK, Providers
<1>2. \A p \in Callers : Sane(asking[p]) /\ Accounted(p)
    BY DEF Sane, Accounted, NotAsking, AsksForPatch
<1>3. \A p \in Callers : Within(asking[p])
    BY AskAssumption DEF Within, Before, NotAsking
<1>4. Unsaved = {}
    BY DEF Unsaved, NotAsking
<1>5. Saved
    BY <1>4, FS_EmptySet DEF Saved, NotAsking
<1>6. QED
    BY <1>1, <1>2, <1>3, <1>5 DEF AskInductive

LEMMA AskInductiveStep == AskInductive /\ [AskNext]_askVars => AskInductive'
<1> SUFFICES ASSUME AskInductive, [AskNext]_askVars PROVE AskInductive'
    OBVIOUS
<1>1. CASE UNCHANGED askVars
  <2>1. AskTypeOK'
      BY <1>1 DEF AskInductive, AskTypeOK, askVars
  <2>2. \A p \in Callers : Sane(asking[p])' /\ Within(asking[p])' /\ Accounted(p)'
      BY <1>1 DEF AskInductive, askVars, Sane, Within, Before, RoundCalls, Accounted
  <2>3. Saved'
      BY <1>1 DEF AskInductive, askVars, Saved, Unsaved
  <2>4. QED
      BY <2>1, <2>2, <2>3 DEF AskInductive
<1>2. CASE AskNext
  <2>1. PICK p \in Callers : AskStep(p)
      BY <1>2 DEF AskNext, AskStep
  <2>2. AskTypeOK' /\ Saved'
      BY <2>1, AskTypeStep, SavedStep DEF AskInductive
  <2>3. Sane(asking[p])' /\ Within(asking[p])' /\ Accounted(p)'
      BY <2>1, SaneStep, WithinStep, AccountedStep DEF AskInductive
  <2>4. ASSUME NEW q \in Callers \ {p}
        PROVE  Sane(asking[q])' /\ Within(asking[q])' /\ Accounted(q)'
    <3>1. asking'[q] = asking[q] /\ tokens'[q] = tokens[q] /\ UNCHANGED <<fanOut, openai>>
        BY <2>1, AskFrame DEF AskInductive
    <3>2. QED
        BY <3>1 DEF AskInductive, Sane, Within, Before, RoundCalls, Accounted
  <2>5. QED
      BY <2>2, <2>3, <2>4 DEF AskInductive
<1>3. QED
    BY <1>1, <1>2

\* Every variable has its type, no caller is beyond its attempts, and what was used is in
\* cost.json, a caller's hands or an edit's report, in every reachable state.
THEOREM AskInvariant == AskSpec => []AskInductive
BY AskInitially, AskInductiveStep, PTL DEF AskSpec

\* However the four layers retry, and whichever of a request's steps fail, a plan or an
\* answer sends no more requests than its providers' attempts, a step twice and an edit six
\* times as many.
THEOREM RequestsStayBounded == AskSpec => []RequestsAreBounded
<1>1. AskInductive => RequestsAreBounded
  <2> SUFFICES ASSUME AskInductive, NEW p \in Callers
               PROVE  asking[p].sent <= Rounds(asking[p].op) * MaxAttempts * (IF fanOut THEN 2 ELSE 1)
      BY DEF RequestsAreBounded
  <2> DEFINE a == asking[p]
  <2> DEFINE calls == Rounds(a.op) * (IF fanOut THEN 2 ELSE 1)
  <2>1. a \in Requests /\ Sane(a) /\ Within(a) /\ AskTypeOK
      BY DEF AskInductive, AskTypeOK
  <2>2. a.sent \in Nat /\ a.tries \in Nat /\ Before(a) \in Nat /\ MaxAttempts \in Nat \ {0}
      BY <2>1, RequestFields, BeforeNat, AskAssumption
  <2>3. Before(a) * MaxAttempts \in Nat
        /\ (Before(a) + 1) * MaxAttempts = Before(a) * MaxAttempts + MaxAttempts
      BY <2>2, CallsTimesAttempts
  <2>4. a.sent <= (Before(a) + 1) * MaxAttempts
      BY <2>1, <2>2, <2>3 DEF Within
  <2>5. Before(a) + 1 <= calls /\ calls \in Nat
      BY <2>1, BeforeBound DEF Rounds
  <2>6. (Before(a) + 1) * MaxAttempts <= calls * MaxAttempts
    <3>1. Before(a) + 1 \in Nat
        BY <2>2
    <3> HIDE DEF calls
    <3>2. QED
        BY <2>5, <3>1, CallsTimesAttempts
  <2>7. calls * MaxAttempts = Rounds(a.op) * MaxAttempts * (IF fanOut THEN 2 ELSE 1)
    <3>1. Rounds(a.op) \in Nat
        BY DEF Rounds
    <3>2. QED
        BY <2>2, <3>1
  <2>8. calls * MaxAttempts \in Nat /\ (Before(a) + 1) * MaxAttempts \in Nat
      BY <2>2, <2>3, <2>5
  <2> HIDE DEF calls
  <2>9. QED
      BY <2>2, <2>4, <2>6, <2>7, <2>8
<1>2. QED
    BY <1>1, AskInvariant, PTL

\* cost.json has what every answer used, also of those that broke the contract, were
\* retried or came from the fallback, once nobody has one to save and if no two saves
\* overlapped; and an edit that only the primary provider answered reports the tokens of
\* all its requests.
THEOREM UsageIsKept == AskSpec => []UsageIsCounted
<1>1. AskInductive => UsageIsCounted
  <2> SUFFICES ASSUME AskInductive PROVE UsageIsCounted
      OBVIOUS
  <2>1. ~ skewed /\ Unsaved = {} => cost = received
      BY FS_EmptySet DEF AskInductive, Saved, AskTypeOK
  <2>2. QED
      BY <2>1 DEF UsageIsCounted, AskInductive, Accounted
<1>2. QED
    BY <1>1, AskInvariant, PTL

-----------------------------------------------------------------------------
(* Proofs about TaskBook: what a record adds to a task.                    *)

ProposalsOf(its) == {i \in DOMAIN its : Counts(its[i])}

LEMMA ProposalsFinite ==
    ASSUME NEW its \in Seq(Iterations)
    PROVE  IsFiniteSet(ProposalsOf(its)) /\ Cardinality(ProposalsOf(its)) \in Nat
<1>1. ProposalsOf(its) \subseteq 1..Len(its) /\ Len(its) \in Nat
    BY LenProperties DEF ProposalsOf
<1>2. IsFiniteSet(1..Len(its))
    BY <1>1, FS_Interval
<1>3. QED
    BY <1>1, <1>2, FS_Subset, FS_CardinalityType

\* A record that is added counts as itself.
LEMMA ProposalsOfNoted ==
    ASSUME NEW its \in Seq(Iterations), NEW r \in Iterations
    PROVE  /\ Noted(its, r) \in Seq(Iterations)
           /\ Cardinality(ProposalsOf(Noted(its, r))) =
                Cardinality(ProposalsOf(its)) + (IF Counts(r) THEN 1 ELSE 0)
<1> DEFINE more == Append(its, r)
<1> DEFINE n == Len(its) + 1
<1>1. /\ more \in Seq(Iterations) /\ Len(more) = n /\ more[n] = r
      /\ \A i \in 1..Len(its) : more[i] = its[i]
      /\ DOMAIN more = 1..n /\ DOMAIN its = 1..Len(its) /\ Len(its) \in Nat
    BY AppendProperties, LenProperties
<1>2. CASE Counts(r)
  <2>1. ProposalsOf(more) = ProposalsOf(its) \cup {n} /\ n \notin ProposalsOf(its)
      BY <1>1, <1>2 DEF ProposalsOf
  <2>2. QED
      BY <1>1, <1>2, <2>1, ProposalsFinite, FS_AddElement DEF Noted
<1>3. CASE ~ Counts(r)
  <2>1. ProposalsOf(more) = ProposalsOf(its)
      BY <1>1, <1>3 DEF ProposalsOf
  <2>2. QED
      BY <1>1, <1>3, <2>1, ProposalsFinite DEF Noted
<1>4. QED
    BY <1>2, <1>3

\* An apply settles a proposed fix, which counts as before.
LEMMA ProposalsOfSettled ==
    ASSUME NEW its \in Seq(Iterations)
    PROVE  Settled(its) \in Seq(Iterations) /\ ProposalsOf(Settled(its)) = ProposalsOf(its)
<1>1. /\ DOMAIN its = 1..Len(its) /\ Len(its) \in Nat
      /\ \A i \in DOMAIN its : its[i] \in Iterations
    BY LenProperties, ElementOfSeq
<1>2. DOMAIN Settled(its) = DOMAIN its
    BY DEF Settled
<1>3. \A i \in DOMAIN its :
        \/ Settled(its)[i] = its[i]
        \/ /\ its[i].event = "fix" /\ its[i].status = "proposed"
           /\ Settled(its)[i] = [its[i] EXCEPT !.status = "applied"]
    BY DEF Settled
<1>4. \A i \in DOMAIN its :
        Settled(its)[i] \in Iterations /\ (Counts(Settled(its)[i]) <=> Counts(its[i]))
  <2> SUFFICES ASSUME NEW i \in DOMAIN its
               PROVE  Settled(its)[i] \in Iterations /\ (Counts(Settled(its)[i]) <=> Counts(its[i]))
      OBVIOUS
  <2>1. its[i] \in Iterations
      BY <1>1
  <2>2. CASE Settled(its)[i] = its[i]
      BY <2>1, <2>2
  <2>3. CASE /\ its[i].event = "fix" /\ its[i].status = "proposed"
             /\ Settled(its)[i] = [its[i] EXCEPT !.status = "applied"]
      BY <2>1, <2>3 DEF Counts, Iterations
  <2>4. QED
      BY <1>3, <2>2, <2>3
<1>5. Settled(its) \in Seq(Iterations)
  <2>1. Settled(its) = [i \in 1..Len(its) |-> Settled(its)[i]]
      BY <1>1, <1>2 DEF Settled
  <2>2. \A i \in 1..Len(its) : Settled(its)[i] \in Iterations
      BY <1>1, <1>4
  <2>3. QED
      BY <1>1, <2>1, <2>2, IsASeq
<1>6. QED
    BY <1>2, <1>4, <1>5 DEF ProposalsOf

\* What is saved is a task with the record's proposal, and it has not ended if the copy had
\* not, unless it is closed.
LEMMA RecordedTask ==
    ASSUME NEW t \in TaskStates, NEW o, NEW r \in Iterations, Sensible(o, r)
    PROVE  /\ Recorded(t, o, r) \in TaskStates
           /\ Proposals(Recorded(t, o, r)) = Proposals(t) + (IF r.status = "proposed" THEN 1 ELSE 0)
           /\ Proposals(t) \in Nat
           /\ t.status # "gone" => Recorded(t, o, r).status # "gone"
           /\ o # "close" /\ ~ Ended(t) => ~ Ended(Recorded(t, o, r))
           /\ o = "close" => Recorded(t, o, r).status = "closed"
<1> DEFINE its == IF r.event = "apply" THEN Settled(t.iterations) ELSE t.iterations
<1> DEFINE more == IF r.event \in {"none", "run"} THEN its ELSE Noted(its, r)
<1> DEFINE Now(st, patch) == [status |-> st, patch |-> patch, iterations |-> more]
<1> DEFINE new == Recorded(t, o, r)
<1>1. t.iterations \in Seq(Iterations) /\ t.patch \in BOOLEAN
      /\ t.status \in {"open", "applied", "interrupted", "closed", "gone"}
    BY DEF TaskStates
<1>2. its \in Seq(Iterations) /\ ProposalsOf(its) = ProposalsOf(t.iterations)
    BY <1>1, ProposalsOfSettled
<1>3. /\ r.event \in {"none", "edit", "apply", "rollback", "run", "fix", "interrupted", "budget"}
      /\ r.status \in {"none", "applied", "failed", "proposed", "passed", "interrupted"}
    BY DEF Iterations
<1>4. r.status = "proposed" <=> Counts(r)
  <2>1. r.status = "applied" => r.event # "fix"
      BY DEF Sensible
  <2>2. QED
      BY <2>1 DEF Sensible, Counts
<1>5. /\ more \in Seq(Iterations)
      /\ Cardinality(ProposalsOf(more)) =
           Cardinality(ProposalsOf(t.iterations)) + (IF r.status = "proposed" THEN 1 ELSE 0)
  <2>1. CASE r.event \in {"none", "run"}
    <3>1. r.status # "proposed"
        BY <2>1 DEF Sensible, NoRecord
    <3>2. Cardinality(ProposalsOf(t.iterations)) \in Nat
        BY <1>1, ProposalsFinite
    <3>3. QED
        BY <1>2, <2>1, <3>1, <3>2
  <2>2. CASE r.event \notin {"none", "run"}
      BY <1>2, <1>4, <2>2, ProposalsOfNoted
  <2>3. QED
      BY <2>1, <2>2
<1>6. \A st \in {"open", "applied", "interrupted", "closed", "gone"}, patch \in BOOLEAN :
        /\ Now(st, patch) \in TaskStates
        /\ Now(st, patch).status = st
        /\ Now(st, patch).iterations = more
  <2> HIDE DEF more
  <2>1. QED
      BY <1>5 DEF TaskStates
<1>7. \/ \E st \in {"open", "applied", "interrupted"}, patch \in BOOLEAN :
            o # "close" /\ new = Now(st, patch)
      \/ o # "close" /\ \E patch \in BOOLEAN : new = Now(t.status, patch)
      \/ o # "close" /\ r.event = "run" /\ new = t
      \/ o = "close" /\ new = Now("closed", t.patch)
  <2>1. CASE r.event \in {"edit", "apply", "rollback", "interrupted", "run"}
      BY <1>1, <2>1 DEF Recorded, Sensible
  <2>2. CASE r.event \in {"fix", "budget"}
      BY <1>1, <2>2 DEF Recorded, Sensible
  <2>3. CASE r.event = "none"
      BY <1>1, <2>3 DEF Recorded, Sensible, NoRecord
  <2>4. QED
      BY <1>3, <2>1, <2>2, <2>3
<1>8. new \in TaskStates /\ new.iterations = more
    BY <1>1, <1>6, <1>7
<1>9. Proposals(new) = Cardinality(ProposalsOf(new.iterations))
      /\ Proposals(t) = Cardinality(ProposalsOf(t.iterations))
    BY DEF Proposals, ProposalsOf
<1>10. QED
  <2>1. Proposals(new) = Proposals(t) + (IF r.status = "proposed" THEN 1 ELSE 0)
      BY <1>5, <1>8, <1>9
  <2>2. Proposals(t) \in Nat
      BY <1>1, <1>9, ProposalsFinite
  <2> HIDE DEF more, new
  <2>3. /\ t.status # "gone" => new.status # "gone"
        /\ o # "close" /\ ~ Ended(t) => ~ Ended(new)
        /\ o = "close" => new.status = "closed"
      BY <1>1, <1>6, <1>7 DEF Ended
  <2>4. QED
      BY <1>8, <2>1, <2>2, <2>3 DEF new

-----------------------------------------------------------------------------
(* Proofs about TaskBook: its steps.                                       *)

\* What a command begins with: no task yet, or one that is there, and that has not ended
\* unless it is only closed or switched to.
Suits(o, t, a) ==
    /\ o \in Wired \cup {"new", "switch", "close", "resume", "agent"}
    /\ a \in {"create", "work", "point", "save", "budget"}
    /\ t = NoTask <=> a = "create"
    /\ t # NoTask => t \in Known
    /\ a = "create" => o \in Wired \cup {"new"}
    /\ a = "work" => o \in Wired
    /\ a = "budget" => o = "agent"
    /\ a = "save" => o \in {"close", "resume"} /\ book[t].status # "gone"
    /\ o = "close" => a = "save"
    /\ o = "switch" => a = "point"
    /\ t # NoTask /\ o \notin {"close", "switch"} => ~ Ended(book[t])

Started(s) == \E o, t, a : Begin(s, o, t, a) /\ Suits(o, t, a)

\* The work of a command ends with a record of its own.
Finished(s) ==
    \E r \in Iterations :
        /\ step[s] \in {"work", "budget"} /\ r.event # "none" /\ Sensible(op[s], r)
        /\ Ends(s, r, r.status = "proposed")
        /\ UNCHANGED <<taskFiles, lost, shared, crossed, taskCounts>>

\* A command ends without one: it failed, was killed, its task is not there any more, or
\* the record could not be written.
Stopped(s) ==
    /\ step[s] # "idle"
    /\ Rest(s)
    /\ \/ /\ step[s] \in {"work", "load"} /\ (step[s] = "load" => ~ Exists(mine[s]))
          /\ UNCHANGED <<lost, shared>>
       \/ shared' = shared \cup {mine[s]} /\ UNCHANGED lost
       \/ /\ step[s] \in {"create", "point", "load", "save"} /\ UNCHANGED shared
          /\ lost' = IF record[s].status = "proposed" THEN [lost EXCEPT ![mine[s]] = @ + 1] ELSE lost
    /\ UNCHANGED <<taskFiles, made, crossed, commands>>
    /\ kills' \in {kills, kills + 1} /\ failed' \in {failed, failed + 1}

Goings(s) == Started(s) \/ Finished(s) \/ Stopped(s)

\* What a task is when it is known, and when it has not ended.
LEMMA KnownTasks ==
    ASSUME TaskTypeOK
    PROVE  /\ Len(book) \in Nat /\ MaxTasks \in Nat /\ Known = 1..Len(book)
           /\ \A t \in Known : book[t] \in TaskStates
<1>1. Len(book) \in Nat /\ MaxTasks \in Nat
    BY LenProperties, TaskAssumption DEF TaskTypeOK
<1>2. Known = 1..Len(book)
    BY <1>1 DEF Known, Tasks, TaskTypeOK
<1>3. \A t \in 1..Len(book) : book[t] \in TaskStates
    BY ElementOfSeq DEF TaskTypeOK
<1>4. QED
    BY <1>1, <1>2, <1>3

LEMMA Endings ==
    ASSUME TaskTypeOK, Recalled, NEW t \in Known, Exists(t)
    PROVE  book[t].status # "gone"
BY DEF Recalled, Ended, Exists

LEMMA StartEffect ==
    ASSUME TaskTypeOK, Recalled, NEW s \in Shells,
           StartCommand(s) \/ StartNew(s) \/ Switch(s) \/ Close(s) \/ Resume(s) \/ AgentBudget(s)
    PROVE  Started(s)
<1>0. NoTask \notin Known
    BY KnownTasks DEF NoTask
<1>1. CASE StartCommand(s)
  <2>1. PICK o \in Wired :
          IF Usable(current) THEN Begin(s, o, current, "work") ELSE Begin(s, o, NoTask, "create")
      BY <1>1 DEF StartCommand
  <2>2. CASE Usable(current)
    <3>1. current \in Known /\ ~ Ended(book[current])
        BY <2>2, Endings DEF Usable, Exists, Ended
    <3>2. Suits(o, current, "work")
        BY <1>0, <3>1 DEF Suits, Wired
    <3>3. QED
        BY <2>1, <2>2, <3>2 DEF Started
  <2>3. CASE ~ Usable(current)
    <3>1. Suits(o, NoTask, "create")
        BY DEF Suits, Wired
    <3>2. QED
        BY <2>1, <2>3, <3>1 DEF Started
  <2>4. QED
      BY <2>2, <2>3
<1>2. CASE StartNew(s)
  <2>1. Suits("new", NoTask, "create")
      BY DEF Suits, Wired
  <2>2. QED
      BY <1>2, <2>1 DEF StartNew, Started
<1>3. CASE Switch(s)
  <2>1. PICK t \in Known : Exists(t) /\ Begin(s, "switch", t, "point")
      BY <1>3 DEF Switch
  <2>2. Suits("switch", t, "point")
      BY <1>0 DEF Suits, Wired
  <2>3. QED
      BY <2>1, <2>2 DEF Started
<1>4. CASE Close(s)
  <2>1. PICK t \in Known : Exists(t) /\ Begin(s, "close", t, "save")
      BY <1>4 DEF Close
  <2>2. Suits("close", t, "save")
      BY <1>0, <2>1, Endings DEF Suits, Wired
  <2>3. QED
      BY <2>1, <2>2 DEF Started
<1>5. CASE Resume(s)
  <2>1. PICK t \in Known, a \in {"save", "point"} : Resumable(t) /\ Begin(s, "resume", t, a)
      BY <1>5 DEF Resume
  <2>2. book[t].status # "gone" /\ ~ Ended(book[t])
      BY <2>1, Endings DEF Resumable, Ended
  <2>3. Suits("resume", t, a)
      BY <1>0, <2>2 DEF Suits, Wired
  <2>4. QED
      BY <2>1, <2>3 DEF Started
<1>6. CASE AgentBudget(s)
  <2>1. current \in Known /\ ~ Ended(book[current]) /\ Begin(s, "agent", current, "budget")
      BY <1>6, Endings DEF AgentBudget, Usable, Exists, Ended
  <2>2. Suits("agent", current, "budget")
      BY <1>0, <2>1 DEF Suits, Wired
  <2>3. QED
      BY <2>1, <2>2 DEF Started
<1>7. QED
    BY <1>1, <1>2, <1>3, <1>4, <1>5, <1>6

LEMMA WorkEffect ==
    ASSUME TaskTypeOK, NEW s \in Shells, AtStep(s),
           \/ Works(s) \/ Fix(s) \/ WatchPasses(s) \/ WatchFails(s) \/ WatchProposes(s)
           \/ Interrupt(s) \/ BudgetRecord(s)
    PROVE  Finished(s) \/ Stopped(s)
<1>0. kills \in {kills, kills + 1} /\ failed \in {failed, failed + 1}
    OBVIOUS
<1>1. \A h \in Outputs : \A st \in {"failed", "proposed", "passed"} :
        FixRecord(st, h) \in Iterations
    BY DEF FixRecord, Iterations, Outputs
<1>2. CASE Works(s)
  <2>1. CASE Rest(s) /\ UNCHANGED made
      BY <1>0, <1>2, <2>1 DEF Works, Stopped, taskFiles, taskCounts
  <2>2. CASE Ends(s, [event |-> op[s], status |-> IF op[s] = "apply" THEN "applied" ELSE "none",
                      tail |-> NoTail], FALSE)
    <3> DEFINE r == [event |-> op[s], status |-> IF op[s] = "apply" THEN "applied" ELSE "none",
                     tail |-> NoTail]
    <3>1. r \in Iterations /\ r.event # "none" /\ Sensible(op[s], r) /\ r.status # "proposed"
        BY <1>2 DEF Works, Iterations, Sensible
    <3>2. Ends(s, r, r.status = "proposed")
        BY <2>2, <3>1 DEF Ends
    <3> HIDE DEF r
    <3>3. QED
        BY <1>2, <3>1, <3>2 DEF Works, Finished
  <2>3. QED
      BY <1>2, <2>1, <2>2 DEF Works
<1>3. ASSUME NEW h \in Outputs, NEW st \in {"failed", "proposed", "passed"},
             Ends(s, FixRecord(st, h), st = "proposed"),
             step[s] = "work", op[s] \in {"fix", "watch"},
             UNCHANGED <<taskFiles, lost, shared, crossed, taskCounts>>
      PROVE  Finished(s)
  <2>1. /\ FixRecord(st, h).event = "fix" /\ FixRecord(st, h).status = st
        /\ Sensible(op[s], FixRecord(st, h))
      BY <1>3 DEF FixRecord, Sensible
  <2>2. Ends(s, FixRecord(st, h), FixRecord(st, h).status = "proposed")
      BY <1>3, <2>1
  <2>3. QED
      BY <1>1, <1>3, <2>1, <2>2 DEF Finished
<1>4. \A h \in Outputs :
         /\ Ends(s, FixRecord("failed", h), FALSE) => Ends(s, FixRecord("failed", h), "failed" = "proposed")
         /\ Ends(s, FixRecord("passed", h), FALSE) => Ends(s, FixRecord("passed", h), "passed" = "proposed")
         /\ Ends(s, FixRecord("proposed", h), TRUE) => Ends(s, FixRecord("proposed", h), "proposed" = "proposed")
    BY DEF Ends
<1>5. CASE Fix(s)
  <2>0. step[s] = "work" /\ op[s] \in {"fix", "watch"}
        /\ UNCHANGED <<taskFiles, lost, shared, crossed, taskCounts>>
      BY <1>5 DEF Fix
  <2>1. CASE Rest(s) /\ UNCHANGED made
      BY <1>0, <1>5, <2>1 DEF Fix, Stopped, taskFiles, taskCounts
  <2>2. CASE \E h \in Outputs : Ends(s, FixRecord("failed", h), FALSE)
      BY <1>3, <1>4, <2>0, <2>2
  <2>3. CASE \E h \in Outputs : Ends(s, FixRecord("proposed", h), TRUE)
      BY <1>3, <1>4, <2>0, <2>3
  <2>4. QED
      BY <1>5, <2>1, <2>2, <2>3 DEF Fix
<1>6. CASE WatchPasses(s)
  <2>1. NoTail \in Outputs
      BY DEF Outputs
  <2>2. Ends(s, FixRecord("passed", NoTail), "passed" = "proposed")
      BY <1>4, <1>6, <2>1 DEF WatchPasses
  <2>3. QED
      BY <1>3, <1>6, <2>1, <2>2 DEF WatchPasses
<1>7. CASE WatchFails(s)
  <2>1. PICK h \in Outputs : Ends(s, FixRecord("failed", h), FALSE)
      BY <1>7 DEF WatchFails
  <2>2. QED
      BY <1>3, <1>4, <1>7, <2>1 DEF WatchFails
<1>8. CASE WatchProposes(s)
  <2>0. step[s] = "work" /\ op[s] \in {"fix", "watch"}
        /\ UNCHANGED <<taskFiles, lost, shared, crossed, taskCounts>>
      BY <1>8 DEF WatchProposes
  <2>1. CASE Rest(s) /\ UNCHANGED made
      BY <1>0, <1>8, <2>1 DEF WatchProposes, Stopped, taskFiles, taskCounts
  <2>2. CASE \E h \in Outputs : Ends(s, FixRecord("proposed", h), TRUE)
      BY <1>3, <1>4, <2>0, <2>2
  <2>3. QED
      BY <1>8, <2>1, <2>2 DEF WatchProposes
<1>9. CASE Interrupt(s)
  <2> DEFINE r == [event |-> "interrupted", status |-> "interrupted", tail |-> NoTail]
  <2>1. r \in Iterations /\ r.event # "none" /\ Sensible(op[s], r) /\ r.status # "proposed"
      BY <1>9 DEF Interrupt, Iterations, Sensible
  <2>2. Ends(s, r, r.status = "proposed")
      BY <1>9, <2>1 DEF Interrupt, Ends
  <2> HIDE DEF r
  <2>3. QED
      BY <1>9, <2>1, <2>2 DEF Interrupt, Finished
<1>10. CASE BudgetRecord(s)
  <2> DEFINE r == [event |-> "budget", status |-> "failed", tail |-> NoTail]
  <2>1. r \in Iterations /\ r.event # "none" /\ Sensible(op[s], r) /\ r.status # "proposed"
      BY <1>10 DEF BudgetRecord, AtStep, Iterations, Sensible
  <2>2. Ends(s, r, r.status = "proposed")
      BY <1>10, <2>1 DEF BudgetRecord, Ends
  <2> HIDE DEF r
  <2>3. QED
      BY <1>10, <2>1, <2>2 DEF BudgetRecord, Finished
<1>11. QED
    BY <1>2, <1>5, <1>6, <1>7, <1>8, <1>9, <1>10

\* Load is a stop or takes the task as it is.
Loads(s) ==
    /\ step[s] = "load" /\ Exists(mine[s])
    /\ held' = [held EXCEPT ![s] = book[mine[s]]]
    /\ step' = [step EXCEPT ![s] = "save"]
    /\ UNCHANGED <<op, mine, record, taskFiles, marks, taskCounts>>

LEMMA TaskEffect ==
    ASSUME TaskTypeOK, Recalled, NEW s \in Shells, AtStep(s), TaskStep(s)
    PROVE  \/ Started(s) \/ Finished(s) \/ Stopped(s)
           \/ Create(s) \/ Point(s) \/ Loads(s) \/ Save(s) \/ Delete(s)
<1>1. CASE Load(s)
    BY <1>1 DEF Load, Loads, Stopped, marks, taskFiles, taskCounts
<1>2. CASE Kill(s)
    BY <1>2 DEF Kill, Stopped, taskFiles
<1>3. CASE RecordFails(s)
    BY <1>3 DEF RecordFails, Stopped, taskFiles
<1>4. QED
    BY <1>1, <1>2, <1>3, StartEffect, WorkEffect DEF TaskStep

TaskMove(s) ==
    \/ Started(s) \/ Finished(s) \/ Stopped(s)
    \/ Create(s) \/ Point(s) \/ Loads(s) \/ Save(s) \/ Delete(s)

\* The other terminals are left alone.
LEMMA TaskFrame ==
    ASSUME TaskTypeOK, NEW s \in Shells, TaskMove(s), NEW r \in Shells \ {s}
    PROVE  /\ step'[r] = step[r] /\ op'[r] = op[r] /\ mine'[r] = mine[r]
           /\ held'[r] = held[r] /\ record'[r] = record[r]
<1> USE DEF TaskTypeOK, taskLocals
<1>1. CASE Started(s)
    BY <1>1 DEF Started, Begin
<1>2. CASE Finished(s)
    BY <1>2 DEF Finished, Ends
<1>3. CASE Stopped(s)
    BY <1>3 DEF Stopped, Rest
<1>4. CASE Create(s)
    BY <1>4 DEF Create
<1>5. CASE Point(s)
    BY <1>5 DEF Point, Rest
<1>6. CASE Loads(s)
    BY <1>6 DEF Loads
<1>7. CASE Save(s)
    BY <1>7 DEF Save, Rest
<1>8. CASE Delete(s)
    BY <1>8 DEF Delete
<1>9. QED
    BY <1>1, <1>2, <1>3, <1>4, <1>5, <1>6, <1>7, <1>8 DEF TaskMove

LEMMA FixedTasks ==
    /\ Gone \in TaskStates /\ NewTask \in TaskStates /\ NoRecord \in Iterations
    /\ Proposals(NewTask) = 0 /\ Proposals(Gone) = 0 /\ ~ Ended(NewTask) /\ NewTask # Gone
<1>1. << >> \in Seq(Iterations) /\ DOMAIN << >> = {}
    BY EmptySeq
<1>2. Gone \in TaskStates /\ NewTask \in TaskStates /\ NoRecord \in Iterations
    BY <1>1 DEF Gone, NewTask, TaskStates, NoRecord, Iterations
<1>3. ProposalsOf(<< >>) = {}
    BY DEF ProposalsOf
<1>4. Proposals(NewTask) = 0 /\ Proposals(Gone) = 0
    BY <1>3, FS_EmptySet DEF Proposals, ProposalsOf, NewTask, Gone
<1>5. ~ Ended(NewTask) /\ NewTask # Gone
    BY DEF Ended, NewTask, Gone
<1>6. QED
    BY <1>2, <1>4, <1>5

\* The books' types.
LEMMA BookTypes ==
    ASSUME TaskTypeOK, NEW s \in Shells, AtStep(s), TaskMove(s)
    PROVE  /\ book' \in Seq(TaskStates) /\ Len(book') <= MaxTasks
           /\ Len(book) <= Len(book') /\ Len(book') \in Nat
           /\ current' \in 0..Len(book') /\ mine' \in [Shells -> 0..Len(book')]
<1>0. /\ Len(book) \in Nat /\ MaxTasks \in Nat /\ Known = 1..Len(book)
      /\ mine \in [Shells -> 0..Len(book)] /\ book \in Seq(TaskStates) /\ Len(book) <= MaxTasks
      /\ current \in 0..Len(book)
    BY KnownTasks DEF TaskTypeOK
<1>1. CASE Started(s)
  <2>1. PICK o, t, a : Begin(s, o, t, a) /\ Suits(o, t, a)
      BY <1>1 DEF Started
  <2>2. t \in 0..Len(book)
      BY <1>0, <2>1 DEF Suits, NoTask
  <2>3. QED
      BY <1>0, <2>1, <2>2 DEF Begin, taskFiles
<1>2. CASE Finished(s)
    BY <1>0, <1>2 DEF Finished, Ends, taskFiles
<1>3. CASE Stopped(s)
    BY <1>0, <1>3 DEF Stopped, Rest, taskFiles, NoTask
<1>4. CASE Create(s)
  <2>1. /\ book' \in Seq(TaskStates) /\ Len(book') = Len(book) + 1
      BY <1>0, <1>4, FixedTasks, AppendProperties DEF Create
  <2>2. QED
      BY <1>0, <1>4, <2>1 DEF Create
<1>5. CASE Point(s)
    BY <1>0, <1>5 DEF Point, Rest, NoTask
<1>6. CASE Loads(s)
    BY <1>0, <1>6 DEF Loads, taskFiles
<1>7. CASE Save(s)
  <2>1. mine[s] \in 1..Len(book)
      BY <1>0, <1>7 DEF Save, AtStep, NoTask
  <2>2. Recorded(held[s], op[s], record[s]) \in TaskStates
      BY <1>7, RecordedTask DEF Save, AtStep, TaskTypeOK
  <2>3. book' \in Seq(TaskStates) /\ Len(book') = Len(book)
      BY <1>0, <1>7, <2>1, <2>2 DEF Save
  <2>4. QED
      BY <1>0, <1>7, <2>3 DEF Save, Rest, NoTask
<1>8. CASE Delete(s)
  <2>1. PICK t \in Known : /\ book' = [book EXCEPT ![t] = Gone]
                           /\ current' = IF current = t THEN NoTask ELSE current
      BY <1>8 DEF Delete
  <2>2. book' \in Seq(TaskStates) /\ Len(book') = Len(book)
      BY <1>0, <2>1, FixedTasks
  <2>3. QED
      BY <1>0, <1>8, <2>1, <2>2 DEF Delete, taskLocals, NoTask
<1>9. QED
    BY <1>1, <1>2, <1>3, <1>4, <1>5, <1>6, <1>7, <1>8 DEF TaskMove

\* What a terminal holds.
LEMMA LocalTypes ==
    ASSUME TaskTypeOK, NEW s \in Shells, AtStep(s), TaskMove(s)
    PROVE  /\ step' \in [Shells -> {"idle", "work", "create", "point", "load", "save", "budget"}]
           /\ op' \in [Shells -> Wired \cup {"none", "new", "switch", "close", "resume", "agent"}]
           /\ held' \in [Shells -> TaskStates]
           /\ record' \in [Shells -> Iterations]
<1>0. Gone \in TaskStates /\ NoRecord \in Iterations
    BY FixedTasks
<1> USE DEF TaskTypeOK
<1>1. CASE Started(s)
  <2>1. PICK o, t, a : Begin(s, o, t, a) /\ Suits(o, t, a)
      BY <1>1 DEF Started
  <2>2. t # NoTask => book[t] \in TaskStates
      BY <2>1, KnownTasks DEF Suits
  <2>3. QED
      BY <1>0, <2>1, <2>2 DEF Begin, Suits
<1>2. CASE Finished(s)
    BY <1>0, <1>2 DEF Finished, Ends
<1>3. CASE Stopped(s)
    BY <1>0, <1>3 DEF Stopped, Rest
<1>4. CASE Create(s)
  <2>1. PICK c \in TaskStates : c = IF op[s] = "watch" THEN NewTask ELSE Gone
      BY FixedTasks
  <2>2. held' = [held EXCEPT ![s] = c]
      BY <1>4, <2>1 DEF Create
  <2>3. held' \in [Shells -> TaskStates]
      BY <2>2
  <2>4. QED
      BY <1>4, <2>3 DEF Create
<1>5. CASE Point(s)
  <2>1. CASE UNCHANGED <<op, held, record>> /\ step' = [step EXCEPT ![s] = "work"]
      BY <2>1
  <2>2. CASE Rest(s)
      BY <1>0, <2>2 DEF Rest
  <2>3. QED
      BY <1>5, <2>1, <2>2 DEF Point
<1>6. CASE Loads(s)
    BY <1>6, KnownTasks DEF Loads, Exists
<1>7. CASE Save(s)
    BY <1>0, <1>7 DEF Save, Rest
<1>8. CASE Delete(s)
    BY <1>8 DEF Delete, taskLocals
<1>9. QED
    BY <1>1, <1>2, <1>3, <1>4, <1>5, <1>6, <1>7, <1>8 DEF TaskMove

LEMMA MarkTypes ==
    ASSUME TaskTypeOK, NEW s \in Shells, AtStep(s), TaskMove(s)
    PROVE  /\ made' \in [Tasks -> Nat] /\ lost' \in [Tasks -> Nat]
           /\ shared' \subseteq Nat /\ crossed' \subseteq Nat
           /\ commands' \in Nat /\ kills' \in Nat /\ failed' \in Nat
<1>0. /\ Len(book) \in Nat /\ MaxTasks \in Nat /\ Known = 1..Len(book) /\ Known \subseteq Tasks
      /\ mine[s] \in 0..Len(book) /\ mine[s] \in Nat
    BY KnownTasks DEF TaskTypeOK, Known
<1> USE DEF TaskTypeOK, marks, taskCounts
<1>1. CASE Started(s)
  <2>1. PICK o, t, a : Begin(s, o, t, a) /\ Suits(o, t, a)
      BY <1>1 DEF Started
  <2>2. t \in Nat
      BY <1>0, <2>1 DEF Suits, NoTask
  <2>3. QED
      BY <2>1, <2>2 DEF Begin, Meets
<1>2. CASE Finished(s)
  <2>1. mine[s] \in Tasks
      BY <1>0, <1>2 DEF Finished, AtStep, NoTask
  <2>2. QED
      BY <1>2, <2>1 DEF Finished, Ends
<1>3. CASE Stopped(s)
  <2>1. shared' \subseteq Nat /\ crossed' \subseteq Nat /\ made' \in [Tasks -> Nat]
      BY <1>0, <1>3 DEF Stopped
  <2>2. commands' \in Nat /\ kills' \in Nat /\ failed' \in Nat
      BY <1>3 DEF Stopped
  <2>3. lost' \in [Tasks -> Nat]
    <3>1. CASE UNCHANGED lost
        BY <3>1
    <3>2. CASE /\ step[s] \in {"create", "point", "load", "save"} /\ record[s].status = "proposed"
               /\ lost' = [lost EXCEPT ![mine[s]] = @ + 1]
      <4>1. step[s] \in {"load", "save"}
          BY <3>2 DEF AtStep, NoRecord
      <4>2. mine[s] \in Tasks
          BY <1>0, <4>1 DEF AtStep, NoTask
      <4>3. QED
          BY <3>2, <4>2
    <3>3. QED
        BY <1>3, <3>1, <3>2 DEF Stopped
  <2>4. QED
      BY <2>1, <2>2, <2>3
<1>4. CASE Create(s)
    BY <1>4 DEF Create
<1>5. CASE Point(s)
    BY <1>5 DEF Point
<1>6. CASE Loads(s)
    BY <1>6 DEF Loads
<1>7. CASE Save(s)
    BY <1>0, <1>7 DEF Save, Crosses
<1>8. CASE Delete(s)
    BY <1>0, <1>8 DEF Delete, Crosses
<1>9. QED
    BY <1>1, <1>2, <1>3, <1>4, <1>5, <1>6, <1>7, <1>8 DEF TaskMove

LEMMA TaskTypeStep ==
    ASSUME TaskTypeOK, NEW s \in Shells, AtStep(s), TaskMove(s) PROVE TaskTypeOK'
BY BookTypes, LocalTypes, MarkTypes DEF TaskTypeOK

\* What a terminal's step says is so after it.
LEMMA AtStepStep ==
    ASSUME TaskTypeOK, NEW s \in Shells, AtStep(s), TaskMove(s), Recalled PROVE AtStep(s)'
<1> USE DEF TaskTypeOK, AtStep
<1>0. NoTask \notin Known /\ Len(book) \in Nat
    BY KnownTasks DEF NoTask
<1>1. CASE Started(s)
  <2>1. PICK o, t, a : Begin(s, o, t, a) /\ Suits(o, t, a)
      BY <1>1 DEF Started
  <2>2. /\ step'[s] = a /\ op'[s] = o /\ mine'[s] = t /\ record'[s] = NoRecord
        /\ a = "save" => held'[s] = book[t]
      BY <1>0, <2>1 DEF Begin, Suits
  <2>5. NoRecord.status # "proposed"
      BY DEF NoRecord
  <2>3. a = "save" => Sensible(o, NoRecord)
      BY <2>1 DEF Suits, Sensible, NoRecord
  <2>4. QED
      BY <2>1, <2>2, <2>3, <2>5 DEF Suits, NoTask
<1>2. CASE Finished(s)
    BY <1>2 DEF Finished, Ends
<1>3. CASE Stopped(s)
    BY <1>3 DEF Stopped, Rest
<1>4. CASE Create(s)
  <2>1. step'[s] = "point" /\ op' = op /\ record' = record /\ mine'[s] = Len(book) + 1
        /\ record[s].status # "proposed"
      BY <1>4 DEF Create, NoRecord
  <2>2. QED
      BY <1>0, <1>4, <2>1 DEF Create, NoTask, Wired
<1>5. CASE Point(s)
    BY <1>5 DEF Point, Rest, Wired
<1>6. CASE Loads(s)
    BY <1>6, Endings DEF Loads, Exists
<1>7. CASE Save(s)
    BY <1>7 DEF Save, Rest, Sensible, NoRecord
<1>8. CASE Delete(s)
    BY <1>8 DEF Delete, taskLocals
<1>9. QED
    BY <1>1, <1>2, <1>3, <1>4, <1>5, <1>6, <1>7, <1>8 DEF TaskMove

\* A task that is at work does not end, but for somebody who marks it.
LEMMA LivelyStep ==
    ASSUME TaskTypeOK, NEW s \in Shells, AtStep(s), TaskMove(s), Recalled,
           \A r \in Shells : AtStep(r) /\ Lively(r)
    PROVE  \A r \in Shells : Lively(r)'
<1> SUFFICES ASSUME NEW r \in Shells PROVE Lively(r)'
    OBVIOUS
<1>0. /\ NoTask \notin Known /\ Len(book) \in Nat /\ Known = 1..Len(book)
      /\ mine[r] \in 0..Len(book) /\ mine[s] \in 0..Len(book)
      /\ \A t \in Known : book[t] \in TaskStates
    BY KnownTasks DEF NoTask, TaskTypeOK
<1>1. r # s => /\ step'[r] = step[r] /\ op'[r] = op[r] /\ mine'[r] = mine[r]
               /\ held'[r] = held[r] /\ record'[r] = record[r]
    BY TaskFrame
<1> USE DEF Lively
<1>2. CASE Started(s)
  <2>1. PICK o, t, a : Begin(s, o, t, a) /\ Suits(o, t, a)
      BY <1>2 DEF Started
  <2>2. book' = book /\ crossed' = crossed
      BY <2>1 DEF Begin, taskFiles
  <2>3. op'[s] = o /\ mine'[s] = t /\ step'[s] = a /\ (a = "save" => held'[s] = book[t])
      BY <1>0, <2>1 DEF Begin, Suits, TaskTypeOK
  <2>4. CASE r = s
      BY <2>1, <2>2, <2>3, <2>4 DEF Suits
  <2>5. CASE r # s
      BY <1>1, <2>2, <2>5
  <2>6. QED
      BY <2>4, <2>5
<1>3. CASE Finished(s)
  <2>1. /\ book' = book /\ crossed' = crossed /\ mine' = mine /\ op' = op /\ step'[s] = "load"
      BY <1>3 DEF Finished, Ends, taskFiles, TaskTypeOK
  <2>2. QED
      BY <1>1, <2>1
<1>4. CASE Stopped(s)
  <2>1. book' = book /\ crossed' = crossed /\ mine'[s] = NoTask
      BY <1>4 DEF Stopped, Rest, taskFiles, TaskTypeOK
  <2>2. QED
      BY <1>1, <2>1
<1>5. CASE Create(s)
  <2>1. /\ \A t \in Known : book'[t] = book[t]
        /\ book'[Len(book) + 1] = NewTask
      BY <1>0, <1>5, FixedTasks, AppendProperties DEF Create, TaskTypeOK
  <2>2. crossed' = crossed /\ op' = op /\ mine'[s] = Len(book) + 1 /\ step'[s] = "point"
      BY <1>5 DEF Create, marks, TaskTypeOK
  <2>3. CASE r = s
      BY <2>1, <2>2, <2>3, FixedTasks
  <2>4. CASE r # s /\ mine[r] # NoTask
    <3>1. mine[r] \in Known
        BY <1>0, <2>4 DEF NoTask
    <3>2. QED
        BY <1>1, <2>1, <2>2, <2>4, <3>1
  <2>5. QED
      BY <1>1, <2>3, <2>4
<1>6. CASE Point(s)
  <2>1. book' = book /\ crossed' = crossed
      BY <1>6 DEF Point, marks
  <2>2. mine'[s] = NoTask \/ (mine'[s] = mine[s] /\ op'[s] = op[s] /\ step'[s] = "work")
    <3>1. CASE Rest(s)
        BY <3>1 DEF Rest, TaskTypeOK
    <3>2. CASE step' = [step EXCEPT ![s] = "work"] /\ UNCHANGED <<op, mine, held, record>>
        BY <3>2 DEF TaskTypeOK
    <3>3. QED
        BY <1>6, <3>1, <3>2 DEF Point
  <2>3. QED
      BY <1>1, <2>1, <2>2
<1>7. CASE Loads(s)
  <2>1. /\ book' = book /\ crossed' = crossed /\ mine' = mine /\ op' = op
        /\ held'[s] = book[mine[s]]
      BY <1>7 DEF Loads, taskFiles, marks, TaskTypeOK
  <2>2. QED
      BY <1>1, <2>1
<1>8. CASE Save(s)
  <2>1. mine[s] \in Known
      BY <1>0, <1>8 DEF Save, AtStep, NoTask
  <2> DEFINE new == Recorded(held[s], op[s], record[s])
  <2>2. /\ \A t \in Known \ {mine[s]} : book'[t] = book[t]
        /\ book'[mine[s]] = new
      BY <1>0, <1>8, <2>1 DEF Save, TaskTypeOK
  <2>3. op[s] # "close" /\ ~ Ended(held[s]) => ~ Ended(new)
      BY <1>8, RecordedTask DEF Save, AtStep, TaskTypeOK
  <2> HIDE DEF new
  <2>4. mine'[s] = NoTask \/ (mine'[s] = mine[s] /\ op'[s] = op[s] /\ step'[s] = "point")
    <3>1. CASE Rest(s)
        BY <3>1 DEF Rest, TaskTypeOK
    <3>2. CASE step' = [step EXCEPT ![s] = "point"] /\ UNCHANGED <<op, mine, record>>
        BY <3>2 DEF TaskTypeOK
    <3>3. QED
        BY <1>8, <3>1, <3>2 DEF Save
  <2>5. crossed \subseteq crossed'
      BY <1>8 DEF Save, Crosses
  <2>6. op[s] = "switch" => FALSE
      BY <1>8 DEF Save, AtStep
  <2>7. CASE r = s
    <3>1. op[s] # "close" \/ mine'[s] = NoTask
        BY <2>4, <1>8 DEF Save, AtStep, Sensible, Rest, NoRecord, TaskTypeOK
    <3>2. mine[s] \notin crossed' /\ op[s] # "close" => ~ Ended(held[s])
        BY <1>8, <2>1, <2>5, <2>6 DEF Save, NoTask, AtStep
    <3>3. QED
        BY <2>2, <2>3, <2>4, <2>7, <3>1, <3>2
  <2>8. CASE r # s /\ mine[r] = mine[s]
    <3>1. op[s] = "close" => mine[s] \in crossed'
      <4>1. mine[r] = mine[s] /\ step[r] # "idle"
          BY <2>1, <2>8, <1>0 DEF AtStep
      <4>2. r \in Others(s, mine[s])
          BY <2>8, <4>1 DEF Others
      <4>3. QED
          BY <1>8, <4>2 DEF Save, Crosses
    <3>2. op[s] # "close" /\ mine[s] \notin crossed' => ~ Ended(new)
        BY <1>0, <1>8, <2>1, <2>3, <2>5, <2>6 DEF Save
    <3>3. QED
        BY <1>1, <2>2, <2>5, <2>8, <3>1, <3>2
  <2>9. CASE r # s /\ mine[r] # mine[s] /\ mine[r] # NoTask
    <3>1. mine[r] \in Known
        BY <1>0, <2>9 DEF NoTask
    <3>2. QED
        BY <1>1, <2>2, <2>5, <2>9, <3>1
  <2>10. QED
      BY <1>1, <2>7, <2>8, <2>9
<1>9. CASE Delete(s)
  <2>1. PICK t \in Known : book' = [book EXCEPT ![t] = Gone] /\ crossed' = Crosses(s, t)
      BY <1>9 DEF Delete
  <2>2. /\ \A u \in Known \ {t} : book'[u] = book[u]
        /\ crossed \subseteq crossed'
      BY <1>0, <2>1 DEF TaskTypeOK, Crosses
  <2>3. /\ mine' = mine /\ op' = op /\ step' = step /\ held' = held
        /\ mine[s] = NoTask
      BY <1>9 DEF Delete, taskLocals, AtStep
  <2>4. CASE mine[r] = t
    <3>1. r # s /\ step[r] # "idle"
        BY <1>0, <2>3, <2>4 DEF AtStep
    <3>2. r \in Others(s, t)
        BY <2>4, <3>1 DEF Others
    <3>3. mine[r] \in crossed'
        BY <2>1, <2>4, <3>2 DEF Crosses
    <3>4. QED
        BY <2>3, <3>3
  <2>5. CASE mine[r] # t /\ mine[r] # NoTask
    <3>1. mine[r] \in Known
        BY <1>0, <2>5 DEF NoTask
    <3>2. QED
        BY <2>2, <2>3, <2>5, <3>1
  <2>6. QED
      BY <2>3, <2>4, <2>5
<1>10. QED
    BY <1>2, <1>3, <1>4, <1>5, <1>6, <1>7, <1>8, <1>9 DEF TaskMove

\* Whoever comes to a task that another has marks it, and a copy is old only then.
LEMMA AloneStep ==
    ASSUME TaskTypeOK, NEW s \in Shells, TaskMove(s), Alone, \A r \in Shells : AtStep(r)
    PROVE  Alone'
<1>0. /\ NoTask \notin Known /\ Len(book) \in Nat /\ Known = 1..Len(book)
      /\ \A r \in Shells : mine[r] \in 0..Len(book)
    BY KnownTasks DEF NoTask, TaskTypeOK
<1>1. \A r \in Shells \ {s} :
        /\ step'[r] = step[r] /\ op'[r] = op[r] /\ mine'[r] = mine[r]
        /\ held'[r] = held[r] /\ record'[r] = record[r]
    BY TaskFrame
<1>2. CASE /\ shared \subseteq shared' /\ crossed \subseteq crossed'
           /\ \A r \in Shells \ {s} :
                Copies(r) /\ mine[r] \notin shared' \cup crossed' => book'[mine[r]] = book[mine[r]]
           /\ \A r \in Shells \ {s} :
                mine[r] = mine'[s] /\ mine[r] # NoTask => mine[r] \in shared'
           /\ Copies(s)' /\ mine'[s] \notin shared' \cup crossed' => held'[s] = book'[mine'[s]]
  <2>1. ASSUME NEW q \in Shells, NEW r \in Shells, r # q, mine'[r] = mine'[q], mine'[q] # NoTask
        PROVE  mine'[q] \in shared'
    <3>1. CASE r = s \/ q = s
        BY <1>1, <1>2, <2>1, <3>1
    <3>2. CASE r # s /\ q # s
        BY <1>1, <1>2, <2>1, <3>2 DEF Alone
    <3>3. QED
        BY <3>1, <3>2
  <2>2. ASSUME NEW r \in Shells, Copies(r)', mine'[r] \notin shared' \cup crossed'
        PROVE  held'[r] = book'[mine'[r]]
    <3>1. CASE r = s
        BY <1>2, <2>2, <3>1
    <3>2. CASE r # s
      <4>0. Copies(r)
          BY <1>1, <2>2, <3>2 DEF Copies
      <4>1. held[r] = book[mine[r]]
          BY <1>1, <1>2, <2>2, <3>2, <4>0 DEF Alone
      <4>2. QED
          BY <1>1, <1>2, <2>2, <3>2, <4>0, <4>1
    <3>3. QED
        BY <3>1, <3>2
  <2>3. QED
      BY <2>1, <2>2 DEF Alone
<1>3. ASSUME mine'[s] = NoTask \/ mine'[s] = mine[s], shared \subseteq shared'
      PROVE  \A r \in Shells \ {s} : mine[r] = mine'[s] /\ mine[r] # NoTask => mine[r] \in shared'
    BY <1>3 DEF Alone
<1>4. CASE Started(s)
  <2>1. PICK o, t, a : Begin(s, o, t, a) /\ Suits(o, t, a)
      BY <1>4 DEF Started
  <2>2. /\ book' = book /\ crossed' = crossed /\ mine'[s] = t /\ step'[s] = a
        /\ op'[s] = o
        /\ a = "save" \/ (o = "watch" /\ a # "create") => held'[s] = book[t]
        /\ shared' = Meets(s, t) /\ shared \subseteq shared'
      BY <1>0, <2>1 DEF Begin, taskFiles, Suits, TaskTypeOK, Meets
  <2>3. ASSUME NEW r \in Shells \ {s}, mine[r] = t, t # NoTask PROVE t \in shared'
    <3>1. r \in Others(s, t)
        BY <2>3 DEF Others, AtStep
    <3>2. QED
        BY <2>2, <3>1 DEF Meets
  <2>4. Copies(s)' => a = "save" \/ (o = "watch" /\ a # "create")
      BY <2>2 DEF Copies
  <2>5. QED
      BY <1>2, <2>2, <2>3, <2>4
<1>5. CASE Finished(s)
  <2>1. /\ book' = book /\ crossed' = crossed /\ shared' = shared /\ mine' = mine
        /\ step'[s] = "load"
      BY <1>5 DEF Finished, Ends, taskFiles, TaskTypeOK
  <2>2. ~ Copies(s)'
      BY <2>1 DEF Copies
  <2>3. QED
      BY <1>2, <1>3, <2>1, <2>2
<1>6. CASE Stopped(s)
  <2>1. /\ book' = book /\ crossed' = crossed /\ shared \subseteq shared' /\ mine'[s] = NoTask
        /\ step'[s] = "idle"
      BY <1>6 DEF Stopped, Rest, taskFiles, TaskTypeOK
  <2>2. ~ Copies(s)'
      BY <2>1 DEF Copies
  <2>3. QED
      BY <1>2, <1>3, <2>1, <2>2
<1>7. CASE Create(s)
  <2>1. /\ \A t \in Known : book'[t] = book[t]
        /\ mine'[s] = Len(book) + 1 /\ crossed' = crossed /\ shared' = shared
        /\ step'[s] = "point"
        /\ op' = op /\ book'[Len(book) + 1] = NewTask /\ (op[s] = "watch" => held'[s] = NewTask)
      BY <1>0, <1>7, FixedTasks, AppendProperties DEF Create, TaskTypeOK, marks
  <2>2. \A r \in Shells \ {s} : mine[r] # Len(book) + 1
      BY <1>0
  <2>3. \A r \in Shells \ {s} : Copies(r) => mine[r] \in Known
      BY <1>0 DEF AtStep, NoTask, Copies
  <2>4. Copies(s)' => held'[s] = book'[mine'[s]]
      BY <2>1 DEF Copies
  <2>5. QED
      BY <1>2, <2>1, <2>2, <2>3, <2>4
<1>8. CASE Point(s)
  <2>1. book' = book /\ crossed' = crossed /\ shared' = shared
      BY <1>8 DEF Point, marks
  <2>2. (mine'[s] = NoTask \/ mine'[s] = mine[s]) /\ step'[s] # "save"
    <3>1. CASE Rest(s)
        BY <3>1 DEF Rest, TaskTypeOK
    <3>2. CASE step' = [step EXCEPT ![s] = "work"] /\ UNCHANGED <<op, mine, held, record>>
        BY <3>2 DEF TaskTypeOK
    <3>3. QED
        BY <1>8, <3>1, <3>2 DEF Point
  <2>3. Copies(s)' /\ mine'[s] \notin shared' \cup crossed' => held'[s] = book'[mine'[s]]
    <3>1. CASE Rest(s)
        BY <3>1 DEF Rest, TaskTypeOK, Copies
    <3>2. CASE step' = [step EXCEPT ![s] = "work"] /\ UNCHANGED <<op, mine, held, record>>
      <4>1. Copies(s)' => Copies(s)
          BY <1>8, <3>2 DEF Copies, Point, TaskTypeOK
      <4>2. QED
          BY <2>1, <3>2, <4>1 DEF Alone
    <3>3. QED
        BY <1>8, <3>1, <3>2 DEF Point
  <2>4. QED
      BY <1>2, <1>3, <2>1, <2>2, <2>3
<1>9. CASE Loads(s)
  <2>1. /\ book' = book /\ crossed' = crossed /\ shared' = shared /\ mine' = mine
        /\ held'[s] = book[mine[s]]
      BY <1>9 DEF Loads, taskFiles, marks, TaskTypeOK
  <2>2. QED
      BY <1>2, <1>3, <2>1
<1>10. CASE Save(s)
  <2>1. mine[s] \in Known
      BY <1>0, <1>10 DEF Save, AtStep, NoTask
  <2>2. \A t \in Known \ {mine[s]} : book'[t] = book[t]
      BY <1>0, <1>10, <2>1 DEF Save, TaskTypeOK
  <2>3. /\ mine'[s] = NoTask \/ mine'[s] = mine[s]
        /\ ~ Copies(s)'
    <3>1. CASE Rest(s)
        BY <3>1 DEF Rest, TaskTypeOK, Copies
    <3>2. CASE /\ op[s] = "resume" \/ record[s].event = "interrupted"
               /\ step' = [step EXCEPT ![s] = "point"] /\ UNCHANGED <<op, mine, record>>
        BY <3>2 DEF TaskTypeOK, Copies, NoRecord
    <3>3. QED
        BY <1>10, <3>1, <3>2 DEF Save
  <2>4. crossed \subseteq crossed' /\ shared' = shared
      BY <1>10 DEF Save, Crosses
  <2>5. ASSUME NEW r \in Shells \ {s}, Copies(r), mine[r] \notin shared' \cup crossed'
        PROVE  book'[mine[r]] = book[mine[r]]
    <3>1. mine[r] # mine[s]
        BY <1>0, <2>1, <2>4, <2>5 DEF Alone
    <3>2. mine[r] \in Known
        BY <1>0, <2>5 DEF AtStep, NoTask, Copies
    <3>3. QED
        BY <2>2, <3>1, <3>2
  <2>6. QED
      BY <1>2, <1>3, <2>3, <2>4, <2>5
<1>11. CASE Delete(s)
  <2>1. PICK t \in Known : book' = [book EXCEPT ![t] = Gone] /\ crossed' = Crosses(s, t)
      BY <1>11 DEF Delete
  <2>2. /\ \A u \in Known \ {t} : book'[u] = book[u]
        /\ crossed \subseteq crossed'
      BY <1>0, <2>1 DEF TaskTypeOK, Crosses
  <2>3. /\ mine' = mine /\ shared' = shared /\ ~ Copies(s)'
      BY <1>11 DEF Delete, taskLocals, Copies
  <2>4. ASSUME NEW r \in Shells \ {s}, Copies(r), mine[r] \notin shared' \cup crossed'
        PROVE  book'[mine[r]] = book[mine[r]]
    <3>1. CASE mine[r] = t
      <4>1. r \in Others(s, t)
          BY <2>4, <3>1 DEF Others, Copies
      <4>2. QED
          BY <2>1, <2>4, <3>1, <4>1 DEF Crosses
    <3>2. CASE mine[r] # t
      <4>1. mine[r] \in Known
          BY <1>0, <2>4 DEF AtStep, NoTask, Copies
      <4>2. QED
          BY <2>2, <3>2, <4>1
    <3>3. QED
        BY <3>1, <3>2
  <2>5. QED
      BY <1>2, <1>3, <2>2, <2>3, <2>4
<1>12. QED
    BY <1>4, <1>5, <1>6, <1>7, <1>8, <1>9, <1>10, <1>11 DEF TaskMove

\* A task that nobody is at work on is not owed anything, nor one that another has.
LEMMA NotOwed ==
    ASSUME TaskTypeOK, NEW s \in Shells, NEW t \in Known, Alone,
           mine[s] = t, t \notin shared
    PROVE  Owed(t) <=> Owes(s, t)
<1>1. t # NoTask
    BY KnownTasks DEF NoTask
<1>2. \A r \in Shells \ {s} : mine[r] # t
    BY <1>1 DEF Alone
<1>3. QED
    BY <1>2 DEF Owed, Owes

\* Every proposed fix stays accounted for.
LEMMA RecalledStep ==
    ASSUME TaskTypeOK, NEW s \in Shells, TaskMove(s), Alone, Recalled,
           \A r \in Shells : AtStep(r) /\ Lively(r)
    PROVE  Recalled'
<1>0. /\ NoTask \notin Known /\ Len(book) \in Nat /\ Known = 1..Len(book) /\ MaxTasks \in Nat
      /\ mine[s] \in 0..Len(book) /\ Known \subseteq Tasks
      /\ \A t \in Known : book[t] \in TaskStates
    BY KnownTasks DEF NoTask, TaskTypeOK, Known
<1>1. \A r \in Shells \ {s} :
        /\ step'[r] = step[r] /\ op'[r] = op[r] /\ mine'[r] = mine[r]
        /\ held'[r] = held[r] /\ record'[r] = record[r]
    BY TaskFrame
<1>2. \A r \in Shells \ {s} : \A t \in Known : Owes(r, t)' <=> Owes(r, t)
    BY <1>1 DEF Owes
<1>3. ASSUME NEW t \in Known, Owes(s, t)' <=> Owes(s, t) PROVE Owed(t)' <=> Owed(t)
    BY <1>2, <1>3 DEF Owed
<1>4. ASSUME NEW t \in Known, Owed(t)' <=> Owed(t), book'[t] = book[t], made'[t] = made[t],
             lost'[t] = lost[t],
             t \notin shared \cup crossed, Exists(t)'
      PROVE  made'[t] = Proposals(book'[t]) + lost'[t] + (IF Owed(t)' THEN 1 ELSE 0)
  <2>1. Exists(t)
      BY <1>4 DEF Exists
  <2>2. made[t] = Proposals(book[t]) + lost[t] + (IF Owed(t) THEN 1 ELSE 0)
      BY <1>4, <2>1 DEF Recalled
  <2>3. QED
      BY <1>4, <2>2
\* Where the books are left alone and nothing is owed by s that was not.
<1>5. CASE /\ book' = book /\ made' = made /\ lost' = lost /\ shared \subseteq shared' /\ crossed' = crossed
           /\ \A t \in Known \ (shared' \cup crossed') : Exists(t) => (Owes(s, t)' <=> Owes(s, t))
  <2>1. Known' = Known /\ \A t \in Known : Exists(t)' <=> Exists(t)
      BY <1>5 DEF Known, Exists
  <2>2. ASSUME NEW t \in Known \ (shared' \cup crossed'), Exists(t)'
        PROVE  made'[t] = Proposals(book'[t]) + lost'[t] + (IF Owed(t)' THEN 1 ELSE 0)
    <3>1. Owed(t)' <=> Owed(t)
        BY <1>3, <1>5, <2>1, <2>2
    <3>2. QED
        BY <1>4, <1>5, <2>2, <3>1
  <2>3. QED
      BY <1>5, <2>1, <2>2 DEF Recalled
<1>6. CASE Started(s)
  <2>1. PICK o, t, a : Begin(s, o, t, a) /\ Suits(o, t, a)
      BY <1>6 DEF Started
  <2>2. /\ book' = book /\ made' = made /\ lost' = lost /\ shared \subseteq shared' /\ crossed' = crossed
        /\ step[s] = "idle" /\ record' = record
      BY <2>1 DEF Begin, taskFiles, Meets
  <2>3. \A u \in Known : ~ Owes(s, u) /\ ~ Owes(s, u)'
      BY <2>2 DEF Owes, AtStep, NoRecord
  <2>4. QED
      BY <1>5, <2>2, <2>3
<1>7. CASE Finished(s)
  <2>1. PICK r \in Iterations :
          /\ step[s] \in {"work", "budget"} /\ Ends(s, r, r.status = "proposed")
          /\ UNCHANGED <<taskFiles, lost, shared, crossed, taskCounts>>
      BY <1>7 DEF Finished
  <2>2. PICK t \in Known : t = mine[s]
      BY <1>0, <2>1 DEF AtStep, NoTask
  <2>3. /\ book' = book /\ lost' = lost /\ shared' = shared /\ crossed' = crossed /\ mine' = mine
        /\ step'[s] = "load" /\ record'[s] = r
        /\ \A u \in Tasks \ {t} : made'[u] = made[u]
        /\ made'[t] = made[t] + (IF r.status = "proposed" THEN 1 ELSE 0)
        /\ made[t] \in Nat
      BY <1>0, <2>1, <2>2 DEF Ends, taskFiles, TaskTypeOK
  <2>4. Known' = Known /\ \A u \in Known : Exists(u)' <=> Exists(u)
      BY <2>3 DEF Known, Exists
  <2>5. ASSUME NEW u \in Known \ (shared' \cup crossed'), Exists(u)'
        PROVE  made'[u] = Proposals(book'[u]) + lost'[u] + (IF Owed(u)' THEN 1 ELSE 0)
    <3>1. CASE u # t
      <4>1. Owes(s, u)' <=> Owes(s, u)
          BY <2>2, <2>3, <3>1 DEF Owes
      <4>2. QED
          BY <1>0, <1>3, <1>4, <2>3, <2>5, <3>1, <4>1
    <3>2. CASE u = t
      <4>1. ~ Owed(t)
        <5>1. Owed(t) <=> Owes(s, t)
            BY <2>2, <2>3, <2>5, <3>2, NotOwed
        <5>2. QED
            BY <2>1, <5>1 DEF Owes
      <4>2. Owed(t)' <=> r.status = "proposed"
        <5>1. Owes(s, t)' <=> r.status = "proposed"
            BY <2>2, <2>3 DEF Owes
        <5>2. \A q \in Shells \ {s} : ~ Owes(q, t)'
            BY <1>2, <2>2, <4>1 DEF Owed
        <5>3. QED
            BY <5>1, <5>2 DEF Owed
      <4>3. made[t] = Proposals(book[t]) + lost[t]
        <5>1. Proposals(book[t]) + lost[t] + 0 = Proposals(book[t]) + lost[t]
          <6>1. book[t].iterations \in Seq(Iterations)
              BY <1>0, <2>2 DEF TaskStates
          <6>2. Proposals(book[t]) \in Nat
              BY <6>1, ProposalsFinite DEF Proposals, ProposalsOf
          <6>3. lost[t] \in Nat
              BY <1>0, <2>2 DEF TaskTypeOK
          <6>4. QED
              BY <6>2, <6>3
        <5>2. QED
            BY <2>3, <2>4, <2>5, <3>2, <4>1, <5>1 DEF Recalled
      <4>4. QED
          BY <2>3, <3>2, <4>2, <4>3
    <3>3. QED
        BY <3>1, <3>2
  <2>6. \A u \in Tasks \ Known' : made'[u] = 0 /\ lost'[u] = 0
      BY <2>2, <2>3, <2>4 DEF Recalled
  <2>7. \A u \in Known' : Ended(book'[u]) => book'[u].status = "closed" \/ book'[u] = Gone
      BY <2>3, <2>4 DEF Recalled
  <2>8. QED
      BY <2>4, <2>5, <2>6, <2>7 DEF Recalled
<1>8. CASE Stopped(s)
  <2>1. /\ book' = book /\ made' = made /\ shared \subseteq shared' /\ crossed' = crossed
        /\ mine'[s] = NoTask /\ step'[s] = "idle"
      BY <1>8 DEF Stopped, Rest, taskFiles, TaskTypeOK
  <2>2. \A t \in Known : ~ Owes(s, t)'
      BY <2>1 DEF Owes
  <2>3. CASE lost' = lost /\ (step[s] = "work" \/ record[s].status # "proposed")
      BY <1>5, <2>1, <2>2, <2>3 DEF Owes
  <2>4. CASE lost' = lost /\ step[s] = "load" /\ ~ Exists(mine[s])
    <3>1. \A t \in Known : Exists(t) => ~ Owes(s, t)
        BY <2>4 DEF Owes
    <3>2. QED
        BY <1>5, <2>1, <2>2, <2>4, <3>1
  <2>5. CASE lost' = lost /\ shared' = shared \cup {mine[s]}
    <3>1. \A t \in Known \ (shared' \cup crossed') : ~ Owes(s, t)
        BY <2>5 DEF Owes
    <3>2. QED
        BY <1>5, <2>1, <2>2, <2>5, <3>1
  <2>6. CASE /\ step[s] \in {"create", "point", "load", "save"} /\ record[s].status = "proposed"
             /\ shared' = shared /\ lost' = [lost EXCEPT ![mine[s]] = @ + 1]
    <3>1. step[s] \in {"load", "save"}
        BY <2>6 DEF AtStep, NoRecord
    <3>2. PICK t \in Known : t = mine[s]
        BY <1>0, <3>1 DEF AtStep, NoTask
    <3>3. /\ lost[t] \in Nat /\ lost'[t] = lost[t] + 1
          /\ \A u \in Known \ {t} : lost'[u] = lost[u]
        BY <1>0, <2>6, <3>2 DEF TaskTypeOK
    <3>4. Known' = Known /\ \A u \in Known : Exists(u)' <=> Exists(u)
        BY <2>1 DEF Known, Exists
    <3>5. ASSUME NEW u \in Known \ (shared' \cup crossed'), Exists(u)'
          PROVE  made'[u] = Proposals(book'[u]) + lost'[u] + (IF Owed(u)' THEN 1 ELSE 0)
      <4>1. CASE u # t
        <5>1. Owes(s, u)' <=> Owes(s, u)
            BY <2>2, <3>2, <4>1 DEF Owes
        <5>2. QED
            BY <1>3, <1>4, <2>1, <2>6, <3>3, <3>5, <4>1, <5>1
      <4>2. CASE u = t
        <5>1. Owes(s, t)
            BY <2>6, <3>1, <3>2 DEF Owes
        <5>2. Owed(t) /\ ~ Owed(t)'
          <6>1. \A q \in Shells \ {s} : mine[q] # t
              BY <1>0, <2>6, <3>2, <3>5, <4>2 DEF Alone
          <6>2. \A q \in Shells \ {s} : ~ Owes(q, t)'
              BY <1>1, <6>1 DEF Owes
          <6>3. QED
              BY <2>2, <5>1, <6>2 DEF Owed
        <5>3. made[t] = Proposals(book[t]) + lost[t] + 1
            BY <2>1, <2>6, <3>4, <3>5, <4>2, <5>2 DEF Recalled
        <5>4. Proposals(book[t]) \in Nat
          <6>1. book[t].iterations \in Seq(Iterations)
              BY <1>0 DEF TaskStates
          <6>2. QED
              BY <6>1, ProposalsFinite DEF Proposals, ProposalsOf
        <5>5. made'[t] = made[t] /\ Proposals(book'[t]) = Proposals(book[t])
            BY <2>1
        <5>6. QED
            BY <3>3, <4>2, <5>2, <5>3, <5>4, <5>5
      <4>3. QED
          BY <4>1, <4>2
    <3>6. \A u \in Tasks \ Known' : made'[u] = 0 /\ lost'[u] = 0
        BY <1>0, <2>1, <2>6, <3>2, <3>4 DEF Recalled, TaskTypeOK
    <3>7. QED
        BY <2>1, <3>4, <3>5, <3>6 DEF Recalled
  <2>7. QED
      BY <1>8, <2>3, <2>4, <2>5, <2>6 DEF Stopped
<1>9. CASE Create(s)
  <2>0. PICK n \in Nat : n = Len(book) + 1
      BY <1>0
  <2>1. /\ \A t \in Known : book'[t] = book[t]
        /\ book'[n] = NewTask /\ Len(book') = n
        /\ Len(book) < MaxTasks
      BY <1>0, <1>9, <2>0, FixedTasks, AppendProperties DEF Create, TaskTypeOK
  <2>2. /\ made' = made /\ lost' = lost /\ crossed' = crossed /\ shared' = shared /\ mine'[s] = n
        /\ step[s] = "create" /\ step'[s] = "point"
      BY <1>9, <2>0 DEF Create, TaskTypeOK, marks
  <2>3. Known' = Known \cup {n} /\ n \in Tasks \ Known
      BY <1>0, <2>0, <2>1 DEF Known, Tasks
  <2>4. made'[n] = 0 /\ lost'[n] = 0
      BY <2>2, <2>3 DEF Recalled
  <2>5. ~ Owed(n)'
    <3>1. \A r \in Shells \ {s} : ~ Owes(r, n)'
        BY <1>0, <1>1, <2>0 DEF Owes, TaskTypeOK
    <3>2. ~ Owes(s, n)'
        BY <2>2 DEF Owes
    <3>3. QED
        BY <3>1, <3>2 DEF Owed
  <2>6. made'[n] = Proposals(book'[n]) + lost'[n] + (IF Owed(n)' THEN 1 ELSE 0)
      BY <2>1, <2>4, <2>5, FixedTasks
  <2>7. ASSUME NEW t \in Known \ (shared' \cup crossed'), Exists(t)'
        PROVE  made'[t] = Proposals(book'[t]) + lost'[t] + (IF Owed(t)' THEN 1 ELSE 0)
    <3>1. ~ Owes(s, t) /\ ~ Owes(s, t)'
        BY <2>2 DEF Owes
    <3>2. QED
        BY <1>3, <1>4, <2>1, <2>2, <2>7, <3>1
  <2>8. \A t \in Known' : Ended(book'[t]) => book'[t].status = "closed" \/ book'[t] = Gone
      BY <2>1, <2>3, FixedTasks DEF Recalled
  <2>9. \A t \in Tasks \ Known' : made'[t] = 0 /\ lost'[t] = 0
      BY <2>2, <2>3 DEF Recalled
  <2>10. \A t \in Known' \ (shared' \cup crossed') :
           Exists(t)' => made'[t] = Proposals(book'[t]) + lost'[t] + (IF Owed(t)' THEN 1 ELSE 0)
      BY <2>3, <2>6, <2>7
  <2>11. QED
      BY <2>8, <2>9, <2>10 DEF Recalled
<1>10. CASE Point(s)
  <2>1. /\ book' = book /\ crossed' = crossed /\ shared' = shared /\ made' = made /\ lost' = lost
        /\ step[s] = "point"
      BY <1>10 DEF Point, marks
  <2>2. step'[s] \in {"idle", "work"}
      BY <1>10 DEF Point, Rest, TaskTypeOK
  <2>3. \A t \in Known : ~ Owes(s, t) /\ ~ Owes(s, t)'
      BY <2>1, <2>2 DEF Owes
  <2>4. QED
      BY <1>5, <2>1, <2>3
<1>11. CASE Loads(s)
  <2>1. /\ book' = book /\ crossed' = crossed /\ shared' = shared /\ made' = made /\ lost' = lost
        /\ mine' = mine /\ record' = record /\ step[s] = "load" /\ step'[s] = "save"
      BY <1>11 DEF Loads, taskFiles, marks, TaskTypeOK
  <2>2. \A t \in Known : Owes(s, t)' <=> Owes(s, t)
      BY <2>1 DEF Owes
  <2>3. QED
      BY <1>5, <2>1, <2>2
<1>12. CASE Save(s)
  <2> DEFINE new == Recorded(held[s], op[s], record[s])
  <2>1. PICK t \in Known : t = mine[s]
      BY <1>0, <1>12 DEF Save, AtStep, NoTask
  <2>2. /\ \A u \in Known \ {t} : book'[u] = book[u]
        /\ book'[t] = new /\ Len(book') = Len(book)
      BY <1>0, <1>12, <2>1 DEF Save, TaskTypeOK
  <2>3. /\ new \in TaskStates
        /\ Proposals(new) = Proposals(held[s]) + (IF record[s].status = "proposed" THEN 1 ELSE 0)
        /\ Proposals(held[s]) \in Nat
        /\ new.status # "gone"
    <3>1. held[s] \in TaskStates /\ record[s] \in Iterations
        BY DEF TaskTypeOK
    <3>2. Sensible(op[s], record[s]) /\ held[s].status # "gone"
        BY <1>12 DEF Save, AtStep
    <3>3. QED
        BY <3>1, <3>2, RecordedTask
  <2> HIDE DEF new
  <2>4. Known' = Known
      BY <2>2 DEF Known
  <2>5. /\ made' = made /\ lost' = lost /\ shared' = shared /\ crossed \subseteq crossed'
        /\ step[s] = "save"
      BY <1>12 DEF Save, Crosses
  <2>6. step'[s] \in {"idle", "point"}
      BY <1>12 DEF Save, Rest, TaskTypeOK
  <2>7. \A u \in Known : ~ Owes(s, u)'
      BY <2>6 DEF Owes
  <2>8. ASSUME NEW u \in Known \ (shared' \cup crossed'), Exists(u)'
        PROVE  made'[u] = Proposals(book'[u]) + lost'[u] + (IF Owed(u)' THEN 1 ELSE 0)
    <3>1. CASE u # t
      <4>1. Owes(s, u)' <=> Owes(s, u)
          BY <2>1, <2>7, <3>1 DEF Owes
      <4>2. QED
          BY <1>3, <1>4, <2>2, <2>5, <2>8, <3>1, <4>1
    <3>2. CASE u = t
      <4>1. held[s] = book[t]
          BY <2>1, <2>5, <2>8, <3>2 DEF Alone, Copies
      <4>2. Exists(t)
        <5>1. held[s].status # "gone"
            BY <2>5 DEF AtStep
        <5>2. QED
            BY <2>1, <4>1, <5>1 DEF Exists, Gone
      <4>3. made[t] = Proposals(held[s]) + lost[t] + (IF Owed(t) THEN 1 ELSE 0)
          BY <2>1, <2>5, <2>8, <3>2, <4>1, <4>2 DEF Recalled
      <4>4. Owed(t) <=> Owes(s, t)
          BY <2>1, <2>5, <2>8, <3>2, NotOwed
      <4>5. Owes(s, t) <=> record[s].status = "proposed"
          BY <2>1, <2>5 DEF Owes
      <4>6. ~ Owed(t)'
        <5>1. \A r \in Shells \ {s} : ~ Owes(r, t)'
          <6>1. \A r \in Shells \ {s} : mine[r] # t
              BY <1>0, <2>1, <2>5, <2>8, <3>2 DEF Alone
          <6>2. QED
              BY <1>1, <6>1 DEF Owes
        <5>2. QED
            BY <2>1, <2>7, <5>1 DEF Owed
      <4>7. QED
          BY <1>0, <2>2, <2>3, <2>5, <3>2, <4>3, <4>4, <4>5, <4>6 DEF TaskTypeOK
    <3>3. QED
        BY <3>1, <3>2
  <2>9. \A u \in Known' : Ended(book'[u]) => book'[u].status = "closed" \/ book'[u] = Gone
      BY <2>2, <2>3, <2>4 DEF Recalled, Ended
  <2>10. \A u \in Tasks \ Known' : made'[u] = 0 /\ lost'[u] = 0
      BY <2>4, <2>5 DEF Recalled
  <2>11. QED
      BY <2>4, <2>8, <2>9, <2>10 DEF Recalled
<1>13. CASE Delete(s)
  <2>1. PICK t \in Known : book' = [book EXCEPT ![t] = Gone] /\ crossed' = Crosses(s, t)
      BY <1>13 DEF Delete
  <2>2. /\ \A u \in Known \ {t} : book'[u] = book[u]
        /\ book'[t] = Gone /\ Len(book') = Len(book)
        /\ crossed \subseteq crossed'
      BY <1>0, <2>1 DEF TaskTypeOK, Crosses
  <2>3. /\ mine' = mine /\ step' = step /\ record' = record /\ shared' = shared /\ made' = made /\ lost' = lost
      BY <1>13 DEF Delete, taskLocals
  <2>4. Known' = Known
      BY <2>2 DEF Known
  <2>5. ASSUME NEW u \in Known \ (shared' \cup crossed'), Exists(u)'
        PROVE  made'[u] = Proposals(book'[u]) + lost'[u] + (IF Owed(u)' THEN 1 ELSE 0)
    <3>1. u # t
        BY <2>2, <2>5 DEF Exists
    <3>2. Owes(s, u)' <=> Owes(s, u)
        BY <2>3 DEF Owes
    <3>3. QED
        BY <1>3, <1>4, <2>2, <2>3, <2>5, <3>1, <3>2
  <2>6. \A u \in Known' : Ended(book'[u]) => book'[u].status = "closed" \/ book'[u] = Gone
      BY <2>2, <2>4 DEF Recalled
  <2>7. \A u \in Tasks \ Known' : made'[u] = 0 /\ lost'[u] = 0
      BY <2>3, <2>4 DEF Recalled
  <2>8. QED
      BY <2>4, <2>5, <2>6, <2>7 DEF Recalled
<1>14. QED
    BY <1>6, <1>7, <1>8, <1>9, <1>10, <1>11, <1>12, <1>13 DEF TaskMove

\* A terminal's step changes what is owed by it only.
LEMMA OwedByStep ==
    ASSUME TaskTypeOK, NEW s \in Shells, TaskMove(s), NEW t, IsFiniteSet(OwedBy(t))
    PROVE  /\ IsFiniteSet(OwedBy(t)') /\ Cardinality(OwedBy(t)') \in Nat
           /\ Cardinality(OwedBy(t)') = Cardinality(OwedBy(t)) - (IF Owes(s, t) THEN 1 ELSE 0)
                                                               + (IF Owes(s, t)' THEN 1 ELSE 0)
<1>1. \A r \in Shells \ {s} : Owes(r, t)' <=> Owes(r, t)
    BY TaskFrame DEF Owes
<1>2. PICK o : o = OwedBy(t)
    OBVIOUS
<1>3. PICK w : w = o \ {s}
    OBVIOUS
<1>4. /\ IsFiniteSet(w) /\ Cardinality(o) \in Nat
      /\ Cardinality(w) = Cardinality(o) - (IF s \in o THEN 1 ELSE 0)
    BY <1>2, <1>3, FS_RemoveElement, FS_CardinalityType
<1>5. Cardinality(w) \in Nat
    BY <1>4, FS_CardinalityType
<1>6. s \in o <=> Owes(s, t)
    BY <1>2 DEF OwedBy
<1>7. OwedBy(t)' = IF Owes(s, t)' THEN w \cup {s} ELSE w
    BY <1>1, <1>2, <1>3 DEF OwedBy
<1>8. CASE Owes(s, t)'
  <2>1. s \notin w
      BY <1>3
  <2>2. IsFiniteSet(w \cup {s}) /\ Cardinality(w \cup {s}) = Cardinality(w) + 1
      BY <1>4, <2>1, FS_AddElement
  <2>3. QED
      BY <1>2, <1>4, <1>5, <1>6, <1>7, <1>8, <2>2
<1>9. CASE ~ Owes(s, t)'
    BY <1>2, <1>4, <1>5, <1>6, <1>7, <1>9
<1>10. QED
    BY <1>8, <1>9

LEMMA CopiesCount ==
    ASSUME TaskTypeOK, NEW t \in Known, NEW c \in Copied(t)
    PROVE  c \in TaskStates /\ Proposals(c) \in Nat
<1>1. c \in TaskStates
    BY KnownTasks DEF Copied, TaskTypeOK
<1>2. c.iterations \in Seq(Iterations)
    BY <1>1 DEF TaskStates
<1>3. QED
    BY <1>1, <1>2, ProposalsFinite DEF Proposals, ProposalsOf

\* No step makes a copy count what was not made.
LEMMA CountedStep ==
    ASSUME TaskTypeOK, NEW s \in Shells, TaskMove(s), Recalled, NoneMadeUp,
           \A r \in Shells : AtStep(r)
    PROVE  NoneMadeUp'
<1>0. /\ NoTask \notin Known /\ Len(book) \in Nat /\ Known = 1..Len(book) /\ MaxTasks \in Nat
      /\ mine \in [Shells -> 0..Len(book)] /\ mine[s] \in 0..Len(book) /\ Known \subseteq Tasks
      /\ \A t \in Known : book[t] \in TaskStates /\ made[t] \in Nat /\ lost[t] \in Nat
    BY KnownTasks DEF NoTask, TaskTypeOK, Known
<1>1. \A r \in Shells \ {s} :
        /\ step'[r] = step[r] /\ op'[r] = op[r] /\ mine'[r] = mine[r]
        /\ held'[r] = held[r] /\ record'[r] = record[r]
    BY TaskFrame
<1>2. ASSUME NEW t \in Known
      PROVE  /\ IsFiniteSet(OwedBy(t)) /\ Cardinality(OwedBy(t)) \in Nat
             /\ IsFiniteSet(OwedBy(t)') /\ Cardinality(OwedBy(t)') \in Nat
             /\ Cardinality(OwedBy(t)') = Cardinality(OwedBy(t)) - (IF Owes(s, t) THEN 1 ELSE 0)
                                                                 + (IF Owes(s, t)' THEN 1 ELSE 0)
    BY OwedByStep, FS_CardinalityType DEF NoneMadeUp
\* Where nothing new is copied and what is owed and lost grows by what is made at most.
<1>3. ASSUME NEW t \in Known,
             book'[t] \in Copied(t) \/ Proposals(book'[t]) = 0,
             mine'[s] = t => held'[s] \in Copied(t) \/ Proposals(held'[s]) = 0,
             made'[t] \in Nat, lost'[t] \in Nat,
             lost'[t] + Cardinality(OwedBy(t)') + made[t]
                <= lost[t] + Cardinality(OwedBy(t)) + made'[t]
      PROVE  /\ IsFiniteSet(OwedBy(t)')
             /\ \A c \in Copied(t)' : Proposals(c) + lost'[t] + Cardinality(OwedBy(t)') <= made'[t]
  <2>1. ASSUME NEW c \in Copied(t)' PROVE c \in Copied(t) \/ Proposals(c) = 0
    <3>1. CASE c = book'[t]
        BY <1>3, <3>1
    <3>2. ASSUME NEW r \in Shells, mine'[r] = t, c = held'[r] PROVE c \in Copied(t) \/ Proposals(c) = 0
      <4>1. CASE r = s
          BY <1>3, <3>2, <4>1
      <4>2. CASE r # s
          BY <1>1, <3>2, <4>2 DEF Copied
      <4>3. QED
          BY <4>1, <4>2
    <3>3. QED
        BY <2>1, <3>1, <3>2 DEF Copied
  <2>3. /\ lost[t] \in Nat /\ made[t] \in Nat /\ lost'[t] \in Nat /\ made'[t] \in Nat
      BY <1>0, <1>3
  <2>2. ASSUME NEW c \in Copied(t)'
        PROVE  Proposals(c) + lost'[t] + Cardinality(OwedBy(t)') <= made'[t]
    <3>1. PICK n \in Nat : n = Cardinality(OwedBy(t))
        BY <1>2
    <3>2. PICK m \in Nat : m = Cardinality(OwedBy(t)')
        BY <1>2
    <3>3. lost'[t] + m + made[t] <= lost[t] + n + made'[t]
        BY <1>3, <3>1, <3>2
    <3>4. CASE c \in Copied(t)
      <4>1. Proposals(c) \in Nat /\ Proposals(c) + lost[t] + n <= made[t]
          BY <3>1, <3>4, CopiesCount DEF NoneMadeUp
      <4>2. QED
          BY <2>3, <3>2, <3>3, <4>1
    <3>5. CASE Proposals(c) = 0
      <4>1. book[t] \in Copied(t)
          BY DEF Copied
      <4>2. Proposals(book[t]) \in Nat /\ Proposals(book[t]) + lost[t] + n <= made[t]
          BY <3>1, <4>1, CopiesCount DEF NoneMadeUp
      <4>3. QED
          BY <2>3, <3>2, <3>3, <3>5, <4>2
    <3>6. QED
        BY <2>1, <2>2, <3>4, <3>5
  <2>4. QED
      BY <1>2, <2>2
<1>4. \A t \in Known : book[t] \in Copied(t) /\ \A r \in Shells : mine[r] = t => held[r] \in Copied(t)
    BY DEF Copied
<1>5. Proposals(Gone) = 0
    BY FixedTasks
\* Where the books and the history stay and nothing is owed by s that was not.
<1>6. CASE /\ book' = book /\ made' = made /\ lost' = lost
           /\ \A t \in Known : Owes(s, t)' => Owes(s, t)
           /\ \A t \in Known : mine'[s] = t => held'[s] \in Copied(t) \/ Proposals(held'[s]) = 0
  <2>1. Known' = Known
      BY <1>6 DEF Known
  <2>2. ASSUME NEW t \in Known
        PROVE  /\ IsFiniteSet(OwedBy(t)')
               /\ \A c \in Copied(t)' : Proposals(c) + lost'[t] + Cardinality(OwedBy(t)') <= made'[t]
    <3>1. Cardinality(OwedBy(t)') <= Cardinality(OwedBy(t))
        BY <1>2, <1>6
    <3>2. lost'[t] + Cardinality(OwedBy(t)') + made[t] <= lost[t] + Cardinality(OwedBy(t)) + made'[t]
        BY <1>0, <1>2, <1>6, <3>1
    <3>3. QED
        BY <1>0, <1>3, <1>4, <1>6, <3>2
  <2>3. QED
      BY <2>1, <2>2 DEF NoneMadeUp
<1>7. CASE Started(s)
  <2>1. PICK o, t, a : Begin(s, o, t, a) /\ Suits(o, t, a)
      BY <1>7 DEF Started
  <2>2. /\ book' = book /\ made' = made /\ lost' = lost
        /\ step[s] = "idle" /\ record' = record
        /\ mine'[s] = t /\ (held'[s] = Gone \/ (t \in Known /\ held'[s] = book[t]))
      BY <2>1 DEF Begin, taskFiles, Suits, TaskTypeOK
  <2>3. \A u \in Known : ~ Owes(s, u)'
      BY <2>2 DEF Owes, AtStep, NoRecord
  <2>4. QED
      BY <1>4, <1>5, <1>6, <2>2, <2>3
<1>8. CASE Finished(s)
  <2>1. PICK r \in Iterations :
          /\ step[s] \in {"work", "budget"} /\ Ends(s, r, r.status = "proposed")
          /\ UNCHANGED <<taskFiles, lost, shared, crossed, taskCounts>>
      BY <1>8 DEF Finished
  <2>2. PICK t \in Known : t = mine[s]
      BY <1>0, <2>1 DEF AtStep, NoTask
  <2>3. /\ book' = book /\ lost' = lost /\ mine' = mine /\ held'[s] = Gone
        /\ step'[s] = "load" /\ record'[s] = r
        /\ \A u \in Tasks \ {t} : made'[u] = made[u]
        /\ made'[t] = made[t] + (IF r.status = "proposed" THEN 1 ELSE 0)
      BY <1>0, <2>1, <2>2 DEF Ends, taskFiles, TaskTypeOK
  <2>4. Known' = Known
      BY <2>3 DEF Known
  <2>5. ASSUME NEW u \in Known
        PROVE  /\ IsFiniteSet(OwedBy(u)')
               /\ \A c \in Copied(u)' : Proposals(c) + lost'[u] + Cardinality(OwedBy(u)') <= made'[u]
    <3>1. ~ Owes(s, u) /\ (Owes(s, u)' <=> u = t /\ r.status = "proposed")
        BY <2>1, <2>2, <2>3 DEF Owes
    <3>2. made'[u] = made[u] + (IF Owes(s, u)' THEN 1 ELSE 0)
        BY <1>0, <2>3, <3>1
    <3>3. lost'[u] + Cardinality(OwedBy(u)') + made[u] <= lost[u] + Cardinality(OwedBy(u)) + made'[u]
      <4>1. Cardinality(OwedBy(u)') = Cardinality(OwedBy(u)) + (IF Owes(s, u)' THEN 1 ELSE 0)
          BY <1>2, <3>1
      <4>2. lost'[u] = lost[u]
          BY <2>3
      <4>3. QED
          BY <1>0, <1>2, <3>2, <4>1, <4>2
    <3>4. made'[u] \in Nat
        BY <1>0, <3>2
    <3>5. QED
        BY <1>0, <1>3, <1>4, <1>5, <2>3, <3>3, <3>4
  <2>6. QED
      BY <2>4, <2>5 DEF NoneMadeUp
<1>9. CASE Stopped(s)
  <2>1. /\ book' = book /\ made' = made /\ mine'[s] = NoTask /\ step'[s] = "idle"
      BY <1>9 DEF Stopped, Rest, taskFiles, TaskTypeOK
  <2>2. \A t \in Known : ~ Owes(s, t)' /\ mine'[s] # t
      BY <1>0, <2>1 DEF Owes
  <2>3. CASE lost' = lost
      BY <1>6, <2>1, <2>2, <2>3
  <2>4. CASE /\ step[s] \in {"create", "point", "load", "save"} /\ record[s].status = "proposed"
             /\ lost' = [lost EXCEPT ![mine[s]] = @ + 1]
    <3>1. step[s] \in {"load", "save"}
        BY <2>4 DEF AtStep, NoRecord
    <3>2. PICK t \in Known : t = mine[s]
        BY <1>0, <3>1 DEF AtStep, NoTask
    <3>3. lost'[t] = lost[t] + 1 /\ \A u \in Known \ {t} : lost'[u] = lost[u]
        BY <1>0, <2>4, <3>2 DEF TaskTypeOK
    <3>4. Known' = Known
        BY <2>1 DEF Known
    <3>5. ASSUME NEW u \in Known
          PROVE  /\ IsFiniteSet(OwedBy(u)')
                 /\ \A c \in Copied(u)' : Proposals(c) + lost'[u] + Cardinality(OwedBy(u)') <= made'[u]
      <4>1. Owes(s, u) <=> u = t
          BY <2>4, <3>1, <3>2 DEF Owes
      <4>2. lost'[u] = lost[u] + (IF Owes(s, u) THEN 1 ELSE 0)
          BY <1>0, <3>3, <4>1
      <4>3. lost'[u] + Cardinality(OwedBy(u)') + made[u] <= lost[u] + Cardinality(OwedBy(u)) + made'[u]
          BY <1>0, <1>2, <2>1, <2>2, <4>2
      <4>4. lost'[u] \in Nat
          BY <1>0, <4>2
      <4>5. QED
          BY <1>0, <1>3, <1>4, <2>1, <2>2, <4>3, <4>4
    <3>6. QED
        BY <3>4, <3>5 DEF NoneMadeUp
  <2>5. QED
      BY <1>9, <2>3, <2>4 DEF Stopped
<1>10. CASE Create(s)
  <2>0. PICK n \in Nat : n = Len(book) + 1
      BY <1>0
  <2>1. /\ \A t \in Known : book'[t] = book[t]
        /\ book'[n] = NewTask /\ Len(book') = n
        /\ Len(book) < MaxTasks
      BY <1>0, <1>10, <2>0, FixedTasks, AppendProperties DEF Create, TaskTypeOK
  <2>2. /\ made' = made /\ lost' = lost /\ mine'[s] = n /\ step'[s] = "point"
        /\ held'[s] \in {NewTask, Gone}
      BY <1>10, <2>0 DEF Create, TaskTypeOK, marks
  <2>3. Known' = Known \cup {n} /\ n \in Tasks \ Known
      BY <1>0, <2>0, <2>1 DEF Known, Tasks
  <2>4. made'[n] = 0 /\ lost'[n] = 0
      BY <2>2, <2>3 DEF Recalled
  <2>5. \A r \in Shells \ {s} : mine'[r] # n
      BY <1>0, <1>1, <2>0
  <2>6. OwedBy(n)' = {}
      BY <2>2, <2>5 DEF OwedBy, Owes
  <2>7. ASSUME NEW c \in Copied(n)' PROVE Proposals(c) = 0
    <3>1. c = NewTask \/ c = Gone
      <4>1. CASE c = book'[n]
          BY <2>1, <4>1
      <4>2. ASSUME NEW r \in Shells, mine'[r] = n, c = held'[r] PROVE c = NewTask \/ c = Gone
          BY <2>2, <2>5, <4>2
      <4>3. QED
          BY <2>7, <4>1, <4>2 DEF Copied
    <3>2. QED
        BY <3>1, FixedTasks
  <2>8. IsFiniteSet(OwedBy(n)') /\ Cardinality(OwedBy(n)') = 0
      BY <2>6, FS_EmptySet
  <2>9. ASSUME NEW t \in Known
        PROVE  /\ IsFiniteSet(OwedBy(t)')
               /\ \A c \in Copied(t)' : Proposals(c) + lost'[t] + Cardinality(OwedBy(t)') <= made'[t]
    <3>1. ~ Owes(s, t)' /\ mine'[s] # t
        BY <2>2, <2>3 DEF Owes
    <3>2. lost'[t] + Cardinality(OwedBy(t)') + made[t] <= lost[t] + Cardinality(OwedBy(t)) + made'[t]
      <4>1. Cardinality(OwedBy(t)') <= Cardinality(OwedBy(t))
          BY <1>2, <3>1
      <4>2. made'[t] = made[t] /\ lost'[t] = lost[t]
          BY <2>2
      <4>3. QED
          BY <1>0, <1>2, <4>1, <4>2
    <3>3. QED
        BY <1>0, <1>3, <1>4, <2>1, <2>2, <3>1, <3>2
  <2>10. \A c \in Copied(n)' : Proposals(c) + lost'[n] + Cardinality(OwedBy(n)') <= made'[n]
      BY <2>4, <2>7, <2>8
  <2>11. QED
      BY <2>3, <2>8, <2>9, <2>10 DEF NoneMadeUp
<1>11. CASE Point(s)
  <2>1. book' = book /\ made' = made /\ lost' = lost /\ step[s] = "point"
      BY <1>11 DEF Point, marks
  <2>2. step'[s] \in {"idle", "work"} /\ (mine'[s] = NoTask \/ (mine'[s] = mine[s] /\ held'[s] = held[s]))
      BY <1>11 DEF Point, Rest, TaskTypeOK
  <2>3. \A t \in Known : ~ Owes(s, t)'
      BY <2>2 DEF Owes
  <2>4. QED
      BY <1>0, <1>4, <1>6, <2>1, <2>2, <2>3
<1>12. CASE Loads(s)
  <2>1. /\ book' = book /\ made' = made /\ lost' = lost /\ mine' = mine /\ record' = record
        /\ step[s] = "load" /\ held'[s] = book[mine[s]]
      BY <1>12 DEF Loads, taskFiles, marks, TaskTypeOK
  <2>2. \A t \in Known : Owes(s, t)' => Owes(s, t)
      BY <2>1 DEF Owes
  <2>3. QED
      BY <1>4, <1>6, <2>1, <2>2
<1>13. CASE Save(s)
  <2> DEFINE new == Recorded(held[s], op[s], record[s])
  <2>1. PICK t \in Known : t = mine[s]
      BY <1>0, <1>13 DEF Save, AtStep, NoTask
  <2>2. /\ \A u \in Known \ {t} : book'[u] = book[u]
        /\ book'[t] = new /\ Len(book') = Len(book)
      BY <1>0, <1>13, <2>1 DEF Save, TaskTypeOK
  <2>3. Proposals(new) = Proposals(held[s]) + (IF record[s].status = "proposed" THEN 1 ELSE 0)
    <3>1. held[s] \in TaskStates /\ record[s] \in Iterations
        BY DEF TaskTypeOK
    <3>2. Sensible(op[s], record[s])
        BY <1>13 DEF Save, AtStep
    <3>3. QED
        BY <3>1, <3>2, RecordedTask
  <2> HIDE DEF new
  <2>4. Known' = Known
      BY <2>2 DEF Known
  <2>5. /\ made' = made /\ lost' = lost /\ step[s] = "save"
        /\ step'[s] \in {"idle", "point"} /\ held'[s] = Gone
      BY <1>13 DEF Save, Rest, TaskTypeOK
  <2>6. \A u \in Known : ~ Owes(s, u)'
      BY <2>5 DEF Owes
  <2>7. ASSUME NEW u \in Known, u # t
        PROVE  /\ IsFiniteSet(OwedBy(u)')
               /\ \A c \in Copied(u)' : Proposals(c) + lost'[u] + Cardinality(OwedBy(u)') <= made'[u]
    <3>1. lost'[u] + Cardinality(OwedBy(u)') + made[u] <= lost[u] + Cardinality(OwedBy(u)) + made'[u]
        BY <1>0, <1>2, <2>5, <2>6
    <3>2. QED
        BY <1>0, <1>3, <1>4, <1>5, <2>2, <2>5, <2>7, <3>1
  <2>8. ASSUME NEW c \in Copied(t)'
        PROVE  Proposals(c) + lost'[t] + Cardinality(OwedBy(t)') <= made'[t]
    <3>0. /\ lost[t] \in Nat /\ made[t] \in Nat /\ lost'[t] = lost[t] /\ made'[t] = made[t]
          /\ record[s].status = "proposed" \/ record[s].status # "proposed"
        BY <1>0, <2>5
    <3>1. Owes(s, t) <=> record[s].status = "proposed"
        BY <2>1, <2>5 DEF Owes
    <3>2. PICK n \in Nat : n = Cardinality(OwedBy(t))
        BY <1>2
    <3>3. PICK m \in Nat : m = Cardinality(OwedBy(t)')
        BY <1>2
    <3>4. m = n - (IF record[s].status = "proposed" THEN 1 ELSE 0)
        BY <1>2, <2>6, <3>1, <3>2, <3>3
    <3>5. held[s] \in Copied(t) /\ Proposals(held[s]) \in Nat
          /\ Proposals(held[s]) + lost[t] + n <= made[t]
      <4>1. held[s] \in Copied(t)
          BY <1>4, <2>1
      <4>2. QED
          BY <3>2, <4>1, CopiesCount DEF NoneMadeUp
    <3>6. CASE c = book'[t]
      <4>1. Proposals(c) = Proposals(held[s]) + (IF record[s].status = "proposed" THEN 1 ELSE 0)
          BY <2>2, <2>3, <3>6
      <4>2. QED
          BY <3>0, <3>3, <3>4, <3>5, <4>1
    <3>7. ASSUME NEW r \in Shells, mine'[r] = t, c = held'[r]
          PROVE  Proposals(c) + lost'[t] + m <= made'[t]
      <4>1. CASE r = s
          BY <1>5, <2>5, <3>0, <3>3, <3>4, <3>5, <3>7, <4>1
      <4>2. CASE r # s
        <5>1. c \in Copied(t)
            BY <1>1, <1>4, <3>7, <4>2
        <5>2. Proposals(c) \in Nat /\ Proposals(c) + lost[t] + n <= made[t]
            BY <3>2, <5>1, CopiesCount DEF NoneMadeUp
        <5>3. QED
            BY <3>0, <3>3, <3>4, <5>2
      <4>3. QED
          BY <4>1, <4>2
    <3>8. QED
        BY <2>8, <3>3, <3>6, <3>7 DEF Copied
  <2>9. IsFiniteSet(OwedBy(t)')
      BY <1>2
  <2>10. QED
      BY <2>4, <2>7, <2>8, <2>9 DEF NoneMadeUp
<1>14. CASE Delete(s)
  <2>1. PICK t \in Known : book' = [book EXCEPT ![t] = Gone]
      BY <1>14 DEF Delete
  <2>2. /\ \A u \in Known \ {t} : book'[u] = book[u]
        /\ book'[t] = Gone /\ Len(book') = Len(book)
      BY <1>0, <2>1 DEF TaskTypeOK
  <2>3. /\ mine' = mine /\ step' = step /\ record' = record /\ held' = held
        /\ made' = made /\ lost' = lost
      BY <1>14 DEF Delete, taskLocals
  <2>4. Known' = Known
      BY <2>2 DEF Known
  <2>5. ASSUME NEW u \in Known
        PROVE  /\ IsFiniteSet(OwedBy(u)')
               /\ \A c \in Copied(u)' : Proposals(c) + lost'[u] + Cardinality(OwedBy(u)') <= made'[u]
    <3>1. Owes(s, u)' <=> Owes(s, u)
        BY <2>3 DEF Owes
    <3>2. lost'[u] + Cardinality(OwedBy(u)') + made[u] <= lost[u] + Cardinality(OwedBy(u)) + made'[u]
        BY <1>0, <1>2, <2>3, <3>1
    <3>3. book'[u] \in Copied(u) \/ Proposals(book'[u]) = 0
        BY <1>4, <1>5, <2>2
    <3>4. QED
        BY <1>0, <1>3, <1>4, <2>3, <3>2, <3>3
  <2>6. QED
      BY <2>4, <2>5 DEF NoneMadeUp
<1>15. QED
    BY <1>7, <1>8, <1>9, <1>10, <1>11, <1>12, <1>13, <1>14 DEF TaskMove

-----------------------------------------------------------------------------
(* The theorems about TaskBook.                                            *)

LEMMA TaskInitially == TaskInit => TaskInductive
<1> SUFFICES ASSUME TaskInit PROVE TaskInductive
    OBVIOUS
<1> USE DEF TaskInit
<1>1. /\ book \in Seq(TaskStates) /\ Len(book) = 0 /\ MaxTasks \in Nat
    BY EmptySeq, TaskAssumption
<1>2. TaskTypeOK
    BY <1>1, FixedTasks DEF TaskTypeOK, NoTask
<1>3. \A s \in Shells : AtStep(s) /\ Lively(s)
    BY DEF AtStep, Lively, Wired
<1>4. Alone
    BY DEF Alone, Copies
<1>5. Known = {}
    BY <1>1 DEF Known, Tasks
<1>6. Recalled /\ NoneMadeUp
    BY <1>5 DEF Recalled, NoneMadeUp
<1>7. QED
    BY <1>2, <1>3, <1>4, <1>6 DEF TaskInductive

LEMMA TaskInductiveStep == TaskInductive /\ [TaskNext]_taskVars => TaskInductive'
<1> SUFFICES ASSUME TaskInductive, [TaskNext]_taskVars PROVE TaskInductive'
    OBVIOUS
<1>1. CASE UNCHANGED taskVars
  <2>1. /\ UNCHANGED <<book, current, step, op, mine, held, record>>
        /\ UNCHANGED <<made, lost, shared, crossed, commands, kills, failed>>
      BY <1>1 DEF taskVars, taskFiles, taskLocals, marks, taskCounts
  <2>2. TaskTypeOK'
      BY <2>1 DEF TaskInductive, TaskTypeOK
  <2>3. \A s \in Shells : AtStep(s)' /\ Lively(s)'
      BY <2>1 DEF TaskInductive, AtStep, Lively
  <2>4. Alone'
      BY <2>1 DEF TaskInductive, Alone, Copies
  <2>5. Recalled'
      BY <2>1 DEF TaskInductive, Recalled, Known, Exists, Owed, Owes
  <2>6. NoneMadeUp'
      BY <2>1 DEF TaskInductive, NoneMadeUp, Known, Copied, OwedBy, Owes
  <2>7. QED
      BY <2>2, <2>3, <2>4, <2>5, <2>6 DEF TaskInductive
<1>2. CASE TaskNext
  <2>0. TaskTypeOK /\ (\A s \in Shells : AtStep(s) /\ Lively(s)) /\ Alone /\ Recalled /\ NoneMadeUp
      BY DEF TaskInductive
  <2>1. PICK s \in Shells : TaskStep(s)
      BY <1>2 DEF TaskNext
  <2>2. TaskMove(s)
      BY <2>0, <2>1, TaskEffect DEF TaskMove
  <2>3. TaskTypeOK'
      BY <2>0, <2>2, TaskTypeStep
  <2>4. \A r \in Shells : AtStep(r)'
    <3>1. AtStep(s)'
        BY <2>0, <2>2, AtStepStep
    <3>2. ASSUME NEW r \in Shells \ {s} PROVE AtStep(r)'
      <4>1. /\ step'[r] = step[r] /\ op'[r] = op[r] /\ mine'[r] = mine[r]
            /\ held'[r] = held[r] /\ record'[r] = record[r]
          BY <2>0, <2>2, TaskFrame
      <4>2. QED
          BY <2>0, <4>1 DEF AtStep
    <3>3. QED
        BY <3>1, <3>2
  <2>5. \A r \in Shells : Lively(r)'
      BY <2>0, <2>2, LivelyStep
  <2>6. Alone' /\ Recalled' /\ NoneMadeUp'
      BY <2>0, <2>2, AloneStep, RecalledStep, CountedStep
  <2>7. QED
      BY <2>3, <2>4, <2>5, <2>6 DEF TaskInductive
<1>3. QED
    BY <1>1, <1>2

\* Every variable of the task sidecars has its type, and a command and its task are as its
\* step says, in every reachable state.
THEOREM TaskInvariant == TaskSpec => []TaskInductive
BY TaskInitially, TaskInductiveStep, PTL DEF TaskSpec

\* A task that nobody else was at has every fix that was proposed for it in its file, but those
\* whose record could not be written, from whatever commands, however many follow each other,
\* and also when they are interrupted; sac fix --watch goes by that number; and no overlap
\* makes a file count a fix that was not proposed.
THEOREM FixesAreKept == TaskSpec => []NoFixIsLost
<1>1. TaskInductive => NoFixIsLost
  <2> SUFFICES ASSUME TaskInductive PROVE NoFixIsLost
      OBVIOUS
  <2>0. /\ TaskTypeOK /\ (\A s \in Shells : AtStep(s)) /\ Alone /\ Recalled /\ NoneMadeUp
        /\ NoTask \notin Known /\ Known = 1..Len(book) /\ Len(book) \in Nat /\ Known \subseteq Tasks
      BY KnownTasks DEF TaskInductive, Known, NoTask
  <2>1. ASSUME NEW t \in Known PROVE Proposals(book[t]) \in Nat /\ lost[t] \in Nat /\ made[t] \in Nat
    <3>1. book[t] \in Copied(t)
        BY DEF Copied
    <3>2. QED
        BY <2>0, <3>1, CopiesCount DEF TaskTypeOK
  <2>2. ASSUME NEW t \in Known \ (shared \cup crossed), Exists(t), ~ Owed(t)
        PROVE  Proposals(book[t]) + lost[t] = made[t]
    <3>1. made[t] = Proposals(book[t]) + lost[t] + 0
        BY <2>0, <2>2 DEF Recalled
    <3>2. QED
        BY <2>1, <3>1
  <2>3. ASSUME NEW t \in Known \ (shared \cup crossed), Exists(t), \A s \in Shells : mine[s] # t
        PROVE  Proposals(book[t]) + lost[t] = made[t]
    <3>1. ~ Owed(t)
        BY <2>3 DEF Owed, Owes
    <3>2. QED
        BY <2>2, <2>3, <3>1
  <2>4. ASSUME NEW s \in Shells, op[s] = "watch", step[s] = "work", mine[s] \notin shared \cup crossed
        PROVE  Proposals(held[s]) + lost[mine[s]] = made[mine[s]]
    <3>1. PICK t \in Known : t = mine[s]
        BY <2>0, <2>4 DEF AtStep, TaskTypeOK, NoTask
    <3>2. held[s] = book[t]
        BY <2>0, <2>4, <3>1 DEF Alone, Copies, AtStep
    <3>3. Exists(t)
      <4>1. ~ Ended(book[t])
          BY <2>0, <2>4, <3>1 DEF TaskInductive, Lively
      <4>2. QED
          BY <4>1 DEF Exists, Ended, Gone
    <3>4. ~ Owed(t)
      <4>1. Owed(t) <=> Owes(s, t)
          BY <2>0, <2>4, <3>1, NotOwed
      <4>2. QED
          BY <2>4, <4>1 DEF Owes
    <3>5. QED
        BY <2>2, <2>4, <3>1, <3>2, <3>3, <3>4
  <2>5. ASSUME NEW t \in Known PROVE Proposals(book[t]) + lost[t] <= made[t]
    <3>1. PICK n \in Nat : n = Cardinality(OwedBy(t))
        BY <2>0, FS_CardinalityType DEF NoneMadeUp
    <3>2. Proposals(book[t]) + lost[t] + n <= made[t]
        BY <2>0, <3>1 DEF NoneMadeUp, Copied
    <3>3. QED
        BY <2>1, <3>1, <3>2
  <2>6. QED
      BY <2>3, <2>4, <2>5 DEF NoFixIsLost
<1>2. QED
    BY <1>1, TaskInvariant, PTL

\* A step that brings an ended task back is one of a command that was at work on it then.
LEMMA EndedStep ==
    ASSUME TaskInductive, [TaskNext]_taskVars, NEW t \in Known, t \notin crossed, Ended(book[t])
    PROVE  Ended(book'[t])
<1>0. TaskTypeOK /\ (\A s \in Shells : AtStep(s) /\ Lively(s)) /\ Alone /\ Recalled
    BY DEF TaskInductive
<1>1. NoTask \notin Known /\ Len(book) \in Nat /\ Known = 1..Len(book)
    BY <1>0, KnownTasks DEF NoTask
<1>2. CASE UNCHANGED taskVars
    BY <1>2 DEF taskVars, taskFiles
<1>3. ASSUME NEW s \in Shells, TaskMove(s) PROVE Ended(book'[t])
  <2>1. CASE Started(s)
      BY <2>1 DEF Started, Begin, taskFiles
  <2>2. CASE Finished(s) \/ Stopped(s) \/ Loads(s) \/ Point(s)
      BY <2>2 DEF Finished, Stopped, Loads, Point, taskFiles
  <2>3. CASE Create(s)
    <3>1. book'[t] = book[t]
        BY <1>0, <1>1, <2>3, FixedTasks, AppendProperties DEF Create, TaskTypeOK
    <3>2. QED
        BY <3>1
  <2>4. CASE Save(s)
    <3>1. mine[s] \in Known
      <4>1. mine[s] \in 0..Len(book) /\ AtStep(s) /\ step[s] = "save"
          BY <1>0, <2>4 DEF Save, TaskTypeOK
      <4>2. mine[s] # NoTask
          BY <4>1 DEF AtStep
      <4>3. QED
          BY <1>1, <4>1, <4>2 DEF NoTask
    <3>2. /\ \A u \in Known \ {mine[s]} : book'[u] = book[u]
          /\ book'[mine[s]] = Recorded(held[s], op[s], record[s])
        BY <1>0, <1>1, <2>4, <3>1 DEF Save, TaskTypeOK
    <3>3. CASE mine[s] = t
      <4>1. op[s] \in {"close", "switch"}
          BY <1>0, <1>1, <3>3 DEF Lively
      <4>2. op[s] = "close"
          BY <1>0, <2>4, <4>1 DEF Save, AtStep
      <4>3. Recorded(held[s], op[s], record[s]).status = "closed"
        <5>1. held[s] \in TaskStates /\ record[s] \in Iterations /\ Sensible(op[s], record[s])
            BY <1>0, <2>4 DEF Save, AtStep, TaskTypeOK
        <5>2. QED
            BY <4>2, <5>1, RecordedTask
      <4>4. QED
          BY <3>2, <3>3, <4>3 DEF Ended
    <3>4. CASE mine[s] # t
        BY <3>2, <3>4
    <3>5. QED
        BY <3>3, <3>4
  <2>5. CASE Delete(s)
    <3>1. PICK u \in Known : book' = [book EXCEPT ![u] = Gone]
        BY <2>5 DEF Delete
    <3>2. book'[t] = book[t] \/ book'[t] = Gone
        BY <1>0, <1>1, <3>1 DEF TaskTypeOK
    <3>3. QED
        BY <3>2 DEF Ended, Gone
  <2>6. QED
      BY <1>3, <2>1, <2>2, <2>3, <2>4, <2>5 DEF TaskMove
<1>4. QED
    BY <1>0, <1>2, <1>3, TaskEffect DEF TaskNext, TaskMove

\* A task that was closed or deleted, and that nobody was at work on then, stays so: no
\* sequence of commands and kills brings it back, with any status.
THEOREM EndedTasksStay == TaskSpec => EndedStays
<1>1. TaskInductive /\ [TaskNext]_taskVars =>
        [\A t \in Known : t \notin crossed /\ book[t].status \in {"closed", "gone"}
                          => book'[t].status \in {"closed", "gone"}]_taskVars
    BY EndedStep DEF Ended
<1>2. QED
    BY <1>1, TaskInvariant, PTL DEF TaskSpec, EndedStays
-----------------------------------------------------------------------------
(* What holds of 0, and of n + 1 if it does of n, holds of all numbers;    *)
(* and what follows for Only, which goes through a sequence from its start.*)

\* A set of naturals with 0 and every successor has them all.
LEMMA NatIsInductive ==
    ASSUME NEW S \in SUBSET Nat, 0 \in S, \A n \in Nat : n \in S => n + 1 \in S
    PROVE  \A n \in Nat : n \in S
<1> DEFINE R == {ss \in Nat \X Nat : ss[1] < ss[2]}
<1>1. IsWellFoundedOn(R, Nat)
    BY NatLessThanWellFounded DEF OpToRel
<1>2. SUFFICES ASSUME Nat \ S # {} PROVE FALSE
    OBVIOUS
<1>3. PICK m \in Nat \ S : \A k \in Nat \ S : ~ (<<k, m>> \in R)
  <2>1. Nat \ S \subseteq Nat
      OBVIOUS
  <2>2. QED
    <3> HIDE DEF R
    <3> QED
        BY <1>1, <1>2, <2>1, WFMin
<1>4. m # 0 /\ m - 1 \in Nat /\ m - 1 < m
    BY <1>3
<1>5. m - 1 \in S
    BY <1>3, <1>4
<1>6. (m - 1) + 1 \in S
    BY <1>4, <1>5
<1>7. QED
    BY <1>3, <1>4, <1>6

\* f is what Only makes of s, up to place n.
Gathers(f, s, some, n) ==
    f = [k \in 0 .. n |->
            IF k = 0 THEN <<>>
            ELSE IF s[k] \in some THEN Append(f[k - 1], s[k]) ELSE f[k - 1]]

LEMMA GathersEquations ==
    ASSUME NEW f, NEW s, NEW some, NEW n \in Nat, Gathers(f, s, some, n)
    PROVE  /\ f[0] = <<>>
           /\ \A k \in 0 .. n : k + 1 \in 0 .. n =>
                f[k + 1] = IF s[k + 1] \in some THEN Append(f[k], s[k + 1]) ELSE f[k]
<1>1. \A k \in 0 .. n : f[k] = IF k = 0 THEN <<>>
                               ELSE IF s[k] \in some THEN Append(f[k - 1], s[k]) ELSE f[k - 1]
    BY DEF Gathers
<1>2. 0 \in 0 .. n
    OBVIOUS
<1>3. ASSUME NEW k \in 0 .. n, k + 1 \in 0 .. n
      PROVE  f[k + 1] = IF s[k + 1] \in some THEN Append(f[k], s[k + 1]) ELSE f[k]
  <2>1. k + 1 # 0 /\ (k + 1) - 1 = k
      OBVIOUS
  <2>2. QED
      BY <1>1, <1>3, <2>1
<1>4. QED
    BY <1>1, <1>2, <1>3

LEMMA GathersExists ==
    ASSUME NEW s, NEW some
    PROVE  \A n \in Nat : \E f : Gathers(f, s, some, n)
<1>1. PICK S \in SUBSET Nat : \A n \in Nat : n \in S <=> \E f : Gathers(f, s, some, n)
  <2>1. {n \in Nat : \E f : Gathers(f, s, some, n)} \in SUBSET Nat
      OBVIOUS
  <2>2. QED
      BY <2>1
<1>2. 0 \in S
  <2>1. PICK f : f = [k \in 0 .. 0 |-> <<>>]
      OBVIOUS
  <2>2. Gathers(f, s, some, 0)
      BY <2>1 DEF Gathers
  <2>3. QED
      BY <1>1, <2>2
<1>3. ASSUME NEW n \in Nat, n \in S PROVE n + 1 \in S
  <2>1. PICK g : Gathers(g, s, some, n)
      BY <1>1, <1>3
  <2>2. PICK f : f = [k \in 0 .. (n + 1) |->
                        IF k = n + 1
                        THEN IF s[n + 1] \in some THEN Append(g[n], s[n + 1]) ELSE g[n]
                        ELSE g[k]]
      OBVIOUS
  <2>3. \A k \in 0 .. n : f[k] = g[k]
      BY <2>2
  <2>4. ASSUME NEW k \in 0 .. (n + 1)
        PROVE  f[k] = IF k = 0 THEN <<>>
                      ELSE IF s[k] \in some THEN Append(f[k - 1], s[k]) ELSE f[k - 1]
    <3>1. CASE k = n + 1
      <4>1. k # 0 /\ k - 1 = n /\ n \in 0 .. n
          BY <3>1
      <4>2. QED
          BY <2>2, <2>3, <3>1, <4>1
    <3>2. CASE k = 0
      <4>1. g[0] = <<>>
          BY <2>1, GathersEquations
      <4>2. 0 \in 0 .. n
          OBVIOUS
      <4>3. QED
          BY <2>3, <3>2, <4>1, <4>2
    <3>3. CASE k # n + 1 /\ k # 0
      <4>1. k \in 0 .. n /\ k - 1 \in 0 .. n
          BY <3>3
      <4>2. g[k] = IF s[k] \in some THEN Append(g[k - 1], s[k]) ELSE g[k - 1]
          BY <2>1, <3>3, <4>1 DEF Gathers
      <4>3. QED
          BY <2>3, <3>3, <4>1, <4>2
    <3>4. QED
        BY <3>1, <3>2, <3>3
  <2>5. Gathers(f, s, some, n + 1)
    <3>1. f = [k \in 0 .. (n + 1) |-> f[k]]
        BY <2>2
    <3>2. QED
        BY <2>4, <3>1 DEF Gathers
  <2>6. QED
      BY <1>1, <2>5
<1>4. QED
    BY <1>1, <1>2, <1>3, NatIsInductive

LEMMA OnlyGathers ==
    ASSUME NEW T, NEW s \in Seq(T), NEW some
    PROVE  \E f : Gathers(f, s, some, Len(s)) /\ Only(s, some) = f[Len(s)]
<1> DEFINE only == CHOOSE f : Gathers(f, s, some, Len(s))
<1>1. Gathers(only, s, some, Len(s))
  <2>1. Len(s) \in Nat
      OBVIOUS
  <2>2. QED
      BY <2>1, GathersExists
<1>2. Only(s, some) = only[Len(s)]
    BY Zenon DEF Only, Gathers
<1>3. QED
  <2> HIDE DEF only
  <2> QED
      BY <1>1, <1>2

\* Where two sequences and what is looked for are alike, so is what Only makes of them.
LEMMA GoAlike ==
    ASSUME NEW n \in Nat, NEW m \in Nat, n <= m, NEW s, NEW t, NEW some, NEW other, NEW f, NEW g,
           Gathers(f, s, some, n), Gathers(g, t, other, m),
           \A k \in 1 .. n : s[k] = t[k] /\ (s[k] \in some <=> t[k] \in other)
    PROVE  f[n] = g[n]
<1>1. PICK S \in SUBSET Nat : \A k \in Nat : k \in S <=> (k \in 0 .. n => f[k] = g[k])
  <2>1. {k \in Nat : k \in 0 .. n => f[k] = g[k]} \in SUBSET Nat
      OBVIOUS
  <2>2. QED
      BY <2>1
<1>2. 0 \in S
    BY <1>1, GathersEquations
<1>3. ASSUME NEW k \in Nat, k \in S PROVE k + 1 \in S
  <2>1. SUFFICES ASSUME k + 1 \in 0 .. n PROVE f[k + 1] = g[k + 1]
      BY <1>1
  <2>2. k \in 0 .. n /\ k \in 0 .. m /\ k + 1 \in 0 .. m /\ k + 1 \in 1 .. n
      BY <2>1
  <2>3. f[k] = g[k]
      BY <1>1, <1>3, <2>2
  <2>4. f[k + 1] = IF s[k + 1] \in some THEN Append(f[k], s[k + 1]) ELSE f[k]
      BY <2>1, <2>2, GathersEquations
  <2>5. g[k + 1] = IF t[k + 1] \in other THEN Append(g[k], t[k + 1]) ELSE g[k]
      BY <2>2, GathersEquations
  <2>6. QED
      BY <2>2, <2>3, <2>4, <2>5
<1>4. \A k \in Nat : k \in S
    BY <1>2, <1>3, NatIsInductive
<1>5. n \in 0 .. n
    OBVIOUS
<1>6. QED
    BY <1>1, <1>4, <1>5

\* What is looked for matters only where the sequence has it.
LEMMA OnlyAlike ==
    ASSUME NEW T, NEW s \in Seq(T), NEW some, NEW other,
           \A x \in Range(s) : x \in some <=> x \in other
    PROVE  Only(s, some) = Only(s, other)
<1>1. PICK f : Gathers(f, s, some, Len(s)) /\ Only(s, some) = f[Len(s)]
    BY OnlyGathers
<1>2. PICK g : Gathers(g, s, other, Len(s)) /\ Only(s, other) = g[Len(s)]
    BY OnlyGathers
<1>3. \A k \in 1 .. Len(s) : s[k] \in some <=> s[k] \in other
    BY DEF Range
<1>4. Len(s) \in Nat /\ Len(s) <= Len(s)
    OBVIOUS
<1>5. f[Len(s)] = g[Len(s)]
    BY <1>1, <1>2, <1>3, <1>4, GoAlike
<1>6. QED
    BY <1>1, <1>2, <1>5

LEMMA OnlyOfNothing == ASSUME NEW some PROVE Only(<<>>, some) = <<>>
<1>1. <<>> \in Seq({}) /\ Len(<<>>) = 0
    OBVIOUS
<1>2. PICK f : Gathers(f, <<>>, some, 0) /\ Only(<<>>, some) = f[0]
    BY <1>1, OnlyGathers
<1>3. QED
    BY <1>2, GathersEquations

\* What is appended is found if it is looked for.
LEMMA OnlyAppended ==
    ASSUME NEW T, NEW s \in Seq(T), NEW x \in T, NEW some
    PROVE  Only(Append(s, x), some) =
               IF x \in some THEN Append(Only(s, some), x) ELSE Only(s, some)
<1>1. PICK t \in Seq(T) : t = Append(s, x)
    BY AppendProperties
<1>2. /\ Len(s) \in Nat /\ Len(t) \in Nat /\ Len(t) = Len(s) + 1
      /\ \A k \in 1 .. Len(s) : t[k] = s[k]
      /\ t[Len(s) + 1] = x
    BY <1>1
<1>3. PICK f : Gathers(f, s, some, Len(s)) /\ Only(s, some) = f[Len(s)]
    BY OnlyGathers
<1>4. PICK g : Gathers(g, t, some, Len(t)) /\ Only(t, some) = g[Len(t)]
    BY OnlyGathers
<1>5. Len(s) <= Len(t)
    BY <1>2
<1>6. \A k \in 1 .. Len(s) : s[k] = t[k] /\ (s[k] \in some <=> t[k] \in some)
    BY <1>2
<1>7. f[Len(s)] = g[Len(s)]
    BY <1>2, <1>3, <1>4, <1>5, <1>6, GoAlike
<1>8. Len(s) \in 0 .. Len(t) /\ Len(s) + 1 \in 0 .. Len(t)
    BY <1>2
<1>9. g[Len(s) + 1] = IF x \in some THEN Append(g[Len(s)], x) ELSE g[Len(s)]
    BY <1>2, <1>4, <1>8, GathersEquations
<1>10. QED
    BY <1>1, <1>2, <1>3, <1>4, <1>7, <1>9

\* It is of the sequence, and only of what is looked for.
LEMMA OnlyTypes ==
    ASSUME NEW T, NEW s \in Seq(T), NEW some
    PROVE  Only(s, some) \in Seq(T) /\ Only(s, some) \in Seq(some)
<1>1. PICK f : Gathers(f, s, some, Len(s)) /\ Only(s, some) = f[Len(s)]
    BY OnlyGathers
<1>2. Len(s) \in Nat
    OBVIOUS
<1>3. PICK S \in SUBSET Nat :
          \A k \in Nat : k \in S <=> (k \in 0 .. Len(s) => f[k] \in Seq(T) /\ f[k] \in Seq(some))
  <2>1. {k \in Nat : k \in 0 .. Len(s) => f[k] \in Seq(T) /\ f[k] \in Seq(some)} \in SUBSET Nat
      OBVIOUS
  <2>2. QED
      BY <2>1
<1>4. 0 \in S
  <2>1. f[0] = <<>>
      BY <1>1, <1>2, GathersEquations
  <2>2. <<>> \in Seq(T) /\ <<>> \in Seq(some)
      OBVIOUS
  <2>3. QED
      BY <1>3, <2>1, <2>2
<1>5. ASSUME NEW k \in Nat, k \in S PROVE k + 1 \in S
  <2>1. SUFFICES ASSUME k + 1 \in 0 .. Len(s)
                 PROVE  f[k + 1] \in Seq(T) /\ f[k + 1] \in Seq(some)
      BY <1>3
  <2>2. k \in 0 .. Len(s) /\ k + 1 \in 1 .. Len(s)
      BY <1>2, <2>1
  <2>3. f[k] \in Seq(T) /\ f[k] \in Seq(some) /\ s[k + 1] \in T
      BY <1>3, <1>5, <2>2
  <2>4. f[k + 1] = IF s[k + 1] \in some THEN Append(f[k], s[k + 1]) ELSE f[k]
      BY <1>1, <1>2, <2>1, <2>2, GathersEquations
  <2>5. QED
      BY <2>3, <2>4
<1>6. \A k \in Nat : k \in S
    BY <1>4, <1>5, NatIsInductive
<1>7. Len(s) \in 0 .. Len(s)
    BY <1>2
<1>8. QED
    BY <1>1, <1>2, <1>3, <1>6, <1>7

\* If all is looked for, it is the sequence.
LEMMA OnlyOfAll ==
    ASSUME NEW T, NEW s \in Seq(T), NEW some, \A k \in DOMAIN s : s[k] \in some
    PROVE  Only(s, some) = s
<1>1. PICK f : Gathers(f, s, some, Len(s)) /\ Only(s, some) = f[Len(s)]
    BY OnlyGathers
<1>2. Len(s) \in Nat
    OBVIOUS
<1>3. PICK S \in SUBSET Nat :
          \A k \in Nat : k \in S <=> (k \in 0 .. Len(s) => f[k] = SubSeq(s, 1, k))
  <2>1. {k \in Nat : k \in 0 .. Len(s) => f[k] = SubSeq(s, 1, k)} \in SUBSET Nat
      OBVIOUS
  <2>2. QED
      BY <2>1
<1>4. 0 \in S
  <2>1. f[0] = <<>>
      BY <1>1, <1>2, GathersEquations
  <2>2. SubSeq(s, 1, 0) = <<>>
      OBVIOUS
  <2>3. QED
      BY <1>3, <2>1, <2>2
<1>5. ASSUME NEW k \in Nat, k \in S PROVE k + 1 \in S
  <2>1. SUFFICES ASSUME k + 1 \in 0 .. Len(s) PROVE f[k + 1] = SubSeq(s, 1, k + 1)
      BY <1>3
  <2>2. k \in 0 .. Len(s) /\ k + 1 \in 1 .. Len(s)
      BY <1>2, <2>1
  <2>3. f[k] = SubSeq(s, 1, k) /\ s[k + 1] \in some /\ s[k + 1] \in T
      BY <1>3, <1>5, <2>2
  <2>4. f[k + 1] = IF s[k + 1] \in some THEN Append(f[k], s[k + 1]) ELSE f[k]
      BY <1>1, <1>2, <2>1, <2>2, GathersEquations
  <2>5. Append(SubSeq(s, 1, k), s[k + 1]) = SubSeq(s, 1, k + 1)
      BY <2>2
  <2>6. QED
      BY <2>3, <2>4, <2>5
<1>6. \A k \in Nat : k \in S
    BY <1>4, <1>5, NatIsInductive
<1>7. Len(s) \in 0 .. Len(s)
    BY <1>2
<1>8. f[Len(s)] = SubSeq(s, 1, Len(s))
    BY <1>2, <1>3, <1>6, <1>7
<1>9. QED
    BY <1>1, <1>8, SubSeqFull
-----------------------------------------------------------------------------
(* RecordFiles: what a process will write is what the store should have    *)
(* then, as long as processes take turns.                                  *)

Records == [id : Nat, open : BOOLEAN]
Changes == [at : {"idle", "write", "fill"},
            op : {"none", "add", "settle", "look", "prune"}, id : Nat]

\* Every variable has its type; what a pruned workspace memory holds does not matter.
RecTypeOK ==
    /\ kind \in AllKinds
    /\ long \in SUBSET Nat /\ IsFiniteSet(long)
    /\ damaged \in BOOLEAN /\ mixed \in BOOLEAN /\ pruned \in BOOLEAN
    /\ user \in [Users -> Changes]
    /\ list = [u \in Users |-> list[u]]
    /\ born \in Nat /\ changes \in Nat /\ deaths \in Nat
    /\ stored \in Seq(1 .. born)
    /\ settled \subseteq 1 .. born /\ bad \subseteq 1 .. born
    /\ pruned => kind = "workspace"
    /\ ~ pruned => lines \in Seq(Records) /\ list \in [Users -> Seq(Records)]

Busy(u) == user[u] # Free
AllFree == \A u \in Users : user[u] = Free

\* A free process has nothing to write, and one that fills the file is not at the journal.
Consistent ==
    /\ \A u \in Users : user[u].at = "idle" => user[u] = Free
    /\ \A u \in Users : Busy(u) => user[u].op # "none" /\ user[u].id <= born
    /\ \A u \in Users : user[u].op = "settle" => kind \in Documents /\ user[u].id \in 1 .. born
    /\ \A u \in Users : user[u].op = "prune" => pruned
    /\ \A u \in Users : user[u].op = "add" => user[u].id \in 1 .. born
    /\ kind = "journal" => ~ damaged /\ \A u \in Users : user[u].op \in {"none", "add"} /\ user[u].at # "fill"
    /\ kind \in Documents => bad = {}
    /\ ~ pruned => \A r \in Range(lines) : r.id \in 1 .. born
    /\ ~ pruned => \A u \in Users : \A r \in Range(list[u]) : r.id \in 1 .. born

\* Whoever is at the store is alone with it, and what it adds is new.
TakingTurns ==
    ~ mixed =>
        /\ \A u, v \in Users : Busy(u) /\ Busy(v) => u = v
        /\ \A i, j \in DOMAIN stored : stored[i] = stored[j] => i = j
        /\ \A u \in Users : user[u].op = "add" => user[u].id \notin Range(stored)

OpensLast(s) == \A i, j \in DOMAIN s : i < j /\ s[i].open => s[j].open

\* The queue and what is written into it is completed from its start.
InTurn == kind = "queue" => OpensLast(lines) /\ \A u \in Users : OpensLast(list[u])

\* The journal has every event, and an append adds one to them.
JournalComplete ==
    kind = "journal" /\ ~ mixed =>
        /\ RecordIds(Readable) = Only(stored, Range(stored) \ bad)
        /\ \A u \in Users : Busy(u) => list[u] = Append(Readable, [id |-> user[u].id, open |-> TRUE])

\* s has the records sto, of which those in done are no longer open.
Holds(s, sto, done) ==
    /\ RecordIds(s) = IF kind = "queue" THEN sto ELSE Newest(sto, long)
    /\ \A r \in Range(s) : r.open <=> r.id \notin done

StoredAfter(u) == IF user[u].op = "add" THEN Append(stored, user[u].id) ELSE stored
SettledAfter(u) == IF user[u].op = "settle" THEN settled \cup {user[u].id} ELSE settled

Calm == ~ mixed /\ kind # "journal" /\ deaths = 0 /\ bad = {} /\ ~ pruned

\* Any other store has what it was given, or will have when the write is done.
StoreComplete ==
    Calm =>
        /\ AllFree => ~ damaged /\ Holds(lines, stored, settled)
        /\ \A u \in Users : Busy(u) =>
             /\ Holds(list[u], StoredAfter(u), SettledAfter(u))
             /\ user[u].at = "fill" => lines = <<>>

RecInductive ==
    RecTypeOK /\ Consistent /\ TakingTurns /\ InTurn /\ JournalComplete /\ StoreComplete

\* What can be read of a store that is neither damaged nor has lines that cannot be read.
LEMMA ReadableTypes ==
    ASSUME RecTypeOK, Consistent, ~ pruned
    PROVE  /\ Readable \in Seq(Records)
           /\ \A r \in Range(Readable) : r.id \in 1 .. born /\ r.id \notin bad
           /\ bad = {} /\ ~ damaged => Readable = lines
           /\ kind = "queue" /\ ~ damaged => Readable = lines
<1> DEFINE good == {r \in Range(lines) : r.id \notin bad}
<1>1. lines \in Seq(Records) /\ \A r \in Range(lines) : r.id \in 1 .. born
    BY DEF RecTypeOK, Consistent
<1>2. Only(lines, good) \in Seq(Records) /\ Only(lines, good) \in Seq(good)
    BY <1>1, OnlyTypes
<1>3. \A r \in Range(Only(lines, good)) : r \in good
  <2> HIDE DEF good
  <2>1. \A i \in DOMAIN Only(lines, good) : Only(lines, good)[i] \in good
      BY <1>2
  <2>2. QED
      BY <2>1 DEF Range
<1>4. \A r \in Range(<<>>) : FALSE
    BY DEF Range
<1>5. <<>> \in Seq(Records)
    OBVIOUS
<1>6. bad = {} => Only(lines, good) = lines
  <2>1. SUFFICES ASSUME bad = {} PROVE Only(lines, good) = lines
      OBVIOUS
  <2>2. \A k \in DOMAIN lines : lines[k] \in good
      BY <2>1 DEF Range
  <2> HIDE DEF good
  <2>3. QED
      BY <1>1, <2>2, OnlyOfAll
<1>7. Readable = <<>> \/ Readable = Only(lines, good)
    BY DEF Readable
<1>8. kind = "queue" => bad = {}
    BY DEF Consistent, Documents
<1>9. bad = {} /\ ~ damaged => Readable = Only(lines, good)
    BY DEF Readable
<1>10. Readable \in Seq(Records)
    BY <1>2, <1>5, <1>7
<1>11. \A r \in Range(Readable) : r.id \in 1 .. born /\ r.id \notin bad
    BY <1>1, <1>3, <1>4, <1>7
<1>12. QED
    BY <1>6, <1>8, <1>9, <1>10, <1>11

\* The end of a sequence, and the end of one that got longer.
LEMMA EndIs ==
    ASSUME NEW T, NEW s \in Seq(T), NEW n \in 0 .. Len(s)
    PROVE  /\ End(s, n) \in Seq(T) /\ Len(End(s, n)) = Len(s) - n
           /\ \A i \in 1 .. (Len(s) - n) : End(s, n)[i] = s[i + n]
<1>1. Len(s) \in Nat /\ n \in Nat /\ n + 1 \in 1 .. (Len(s) + 1)
    OBVIOUS
<1>2. \A i \in (n + 1) .. Len(s) : s[i] \in T
    BY <1>1
<1>3. /\ SubSeq(s, n + 1, Len(s)) \in Seq(T)
      /\ Len(SubSeq(s, n + 1, Len(s))) = Len(s) - n
      /\ \A i \in 1 .. (Len(s) - n) : SubSeq(s, n + 1, Len(s))[i] = s[i + n]
    BY <1>1, <1>2
<1>4. QED
    BY <1>3 DEF End

LEMMA EndLonger ==
    ASSUME NEW T, NEW s \in Seq(T), NEW x \in T, NEW n \in 0 .. Len(s)
    PROVE  End(Append(s, x), n) = Append(End(s, n), x)
<1>1. PICK a \in Seq(T) : a = Append(s, x)
    BY AppendProperties
<1>2. Len(s) \in Nat /\ Len(a) = Len(s) + 1 /\ a[Len(s) + 1] = x /\ \A i \in 1 .. Len(s) : a[i] = s[i]
    BY <1>1
<1>3. n \in 0 .. Len(a) /\ n \in Nat
    BY <1>2
<1>4. PICK e \in Seq(T) : e = End(s, n)
    BY EndIs
<1>5. Len(e) = Len(s) - n /\ \A i \in 1 .. (Len(s) - n) : e[i] = s[i + n]
    BY <1>4, EndIs
<1>6. PICK g \in Seq(T) : g = Append(e, x)
    BY AppendProperties
<1>7. Len(g) = Len(e) + 1 /\ g[Len(e) + 1] = x /\ \A i \in 1 .. Len(e) : g[i] = e[i]
    BY <1>6
<1>8. PICK h \in Seq(T) : h = End(a, n)
    BY <1>3, EndIs
<1>9. Len(h) = Len(a) - n /\ \A i \in 1 .. (Len(a) - n) : h[i] = a[i + n]
    BY <1>3, <1>8, EndIs
<1>10. Len(h) = Len(g)
    BY <1>2, <1>3, <1>5, <1>7, <1>9
<1>11. ASSUME NEW i \in 1 .. Len(h) PROVE h[i] = g[i]
  <2>1. CASE i = Len(e) + 1
      BY <1>2, <1>3, <1>5, <1>7, <1>9, <2>1
  <2>2. CASE i # Len(e) + 1
    <3>1. i \in 1 .. Len(e) /\ i + n \in 1 .. Len(s) /\ i \in 1 .. (Len(a) - n)
        BY <1>2, <1>3, <1>5, <1>9, <2>2
    <3>2. h[i] = a[i + n] /\ a[i + n] = s[i + n] /\ e[i] = s[i + n] /\ g[i] = e[i]
        BY <1>2, <1>5, <1>7, <1>9, <3>1
    <3>3. QED
        BY <3>2
  <2>3. QED
      BY <2>1, <2>2
<1>12. h = g
    BY <1>10, <1>11, SeqEqual
<1>13. QED
    BY <1>1, <1>4, <1>6, <1>8, <1>12

LEMMA EndOfEnd ==
    ASSUME NEW T, NEW s \in Seq(T), NEW n \in 0 .. Len(s), NEW k \in 0 .. (Len(s) - n)
    PROVE  End(End(s, n), k) = End(s, n + k)
<1>1. Len(s) \in Nat /\ n \in Nat /\ k \in Nat /\ n + k \in 0 .. Len(s)
    OBVIOUS
<1>2. PICK e \in Seq(T) : e = End(s, n)
    BY EndIs
<1>3. Len(e) = Len(s) - n /\ \A i \in 1 .. (Len(s) - n) : e[i] = s[i + n]
    BY <1>2, EndIs
<1>4. k \in 0 .. Len(e)
    BY <1>3
<1>5. PICK g \in Seq(T) : g = End(e, k)
    BY <1>4, EndIs
<1>6. Len(g) = Len(e) - k /\ \A i \in 1 .. (Len(e) - k) : g[i] = e[i + k]
    BY <1>4, <1>5, EndIs
<1>7. PICK h \in Seq(T) : h = End(s, n + k)
    BY <1>1, EndIs
<1>8. Len(h) = Len(s) - (n + k) /\ \A i \in 1 .. (Len(s) - (n + k)) : h[i] = s[i + (n + k)]
    BY <1>1, <1>7, EndIs
<1>9. Len(g) = Len(h)
    BY <1>1, <1>3, <1>6, <1>8
<1>10. ASSUME NEW i \in 1 .. Len(g) PROVE g[i] = h[i]
  <2>1. i \in 1 .. (Len(e) - k) /\ i + k \in 1 .. (Len(s) - n) /\ i \in 1 .. (Len(s) - (n + k))
      BY <1>1, <1>3, <1>6
  <2>2. g[i] = e[i + k] /\ e[i + k] = s[(i + k) + n] /\ h[i] = s[i + (n + k)]
      BY <1>3, <1>6, <1>8, <2>1
  <2>3. (i + k) + n = i + (n + k)
      BY <1>1, <2>1
  <2>4. QED
      BY <2>2, <2>3
<1>11. QED
    BY <1>2, <1>5, <1>7, <1>9, <1>10, SeqEqual

\* A non-empty set of naturals has a least one.
LEMMA LeastOne ==
    ASSUME NEW S \in SUBSET Nat, S # {}
    PROVE  \E m \in S : \A k \in S : m <= k
<1> DEFINE R == {ss \in Nat \X Nat : ss[1] < ss[2]}
<1>1. IsWellFoundedOn(R, Nat)
    BY NatLessThanWellFounded DEF OpToRel
<1>2. PICK m \in S : \A k \in S : ~ (<<k, m>> \in R)
  <2> HIDE DEF R
  <2> QED
      BY <1>1, WFMin
<1>3. ASSUME NEW k \in S PROVE m <= k
  <2>1. m \in Nat /\ k \in Nat /\ ~ (<<k, m>> \in R)
      BY <1>2
  <2>2. ~ (k < m)
      BY <2>1
  <2>3. QED
      BY <2>1, <2>2
<1>4. QED
    BY <1>3

\* The least number goes with which the rest fits; none fits better than nothing.
IsEvicted(n, ids, large) ==
    /\ n \in 0 .. Len(ids) /\ Fits(End(ids, n), large)
    /\ \A m \in 0 .. (n - 1) : ~ Fits(End(ids, m), large)

LEMMA EvictedLeast ==
    ASSUME NEW T, NEW ids \in Seq(T), NEW large
    PROVE  /\ IsEvicted(Evicted(ids, large), ids, large)
           /\ Evicted(ids, large) \in 0 .. Len(ids)
           /\ \A n : IsEvicted(n, ids, large) => n = Evicted(ids, large)
<1>1. Len(ids) \in Nat /\ Len(ids) \in 0 .. Len(ids)
    OBVIOUS
<1>2. Fits(End(ids, Len(ids)), large)
  <2>1. Len(End(ids, Len(ids))) = 0
      BY <1>1, EndIs
  <2>2. QED
      BY <2>1, RecordAssumption DEF Fits
<1>3. PICK S \in SUBSET Nat : \A n \in Nat : n \in S <=> n \in 0 .. Len(ids) /\ Fits(End(ids, n), large)
  <2>1. {n \in Nat : n \in 0 .. Len(ids) /\ Fits(End(ids, n), large)} \in SUBSET Nat
      OBVIOUS
  <2>2. QED
      BY <2>1
<1>4. PICK least \in S : \A k \in S : least <= k
    BY <1>1, <1>2, <1>3, LeastOne
<1>5. IsEvicted(least, ids, large)
  <2>1. least \in Nat /\ least \in 0 .. Len(ids) /\ Fits(End(ids, least), large)
      BY <1>3, <1>4
  <2>2. ASSUME NEW m \in 0 .. (least - 1) PROVE ~ Fits(End(ids, m), large)
    <3>1. m \in Nat /\ m \in 0 .. Len(ids) /\ ~ (least <= m)
        BY <1>1, <2>1
    <3>2. QED
        BY <1>3, <1>4, <3>1
  <2>3. QED
      BY <2>1, <2>2 DEF IsEvicted
<1>6. ASSUME NEW a, NEW b, IsEvicted(a, ids, large), IsEvicted(b, ids, large) PROVE a = b
  <2>1. a \in Nat /\ b \in Nat /\ Fits(End(ids, a), large) /\ Fits(End(ids, b), large)
      BY <1>1, <1>6 DEF IsEvicted
  <2>2. ~ (a < b)
    <3>1. a < b => a \in 0 .. (b - 1)
        BY <2>1
    <3>2. QED
        BY <1>6, <2>1, <3>1 DEF IsEvicted
  <2>3. ~ (b < a)
    <3>1. b < a => b \in 0 .. (a - 1)
        BY <2>1
    <3>2. QED
        BY <1>6, <2>1, <3>1 DEF IsEvicted
  <2>4. QED
      BY <2>1, <2>2, <2>3
<1>7. Evicted(ids, large) = CHOOSE n \in 0 .. Len(ids) :
                                Fits(End(ids, n), large)
                                /\ \A m \in 0 .. (n - 1) : ~ Fits(End(ids, m), large)
    BY DEF Evicted
<1>8. IsEvicted(Evicted(ids, large), ids, large)
  <2>1. \E n \in 0 .. Len(ids) : Fits(End(ids, n), large)
                                 /\ \A m \in 0 .. (n - 1) : ~ Fits(End(ids, m), large)
      BY <1>5 DEF IsEvicted
  <2>2. QED
      BY <1>7, <2>1 DEF IsEvicted
<1>9. Evicted(ids, large) \in 0 .. Len(ids)
    BY <1>8 DEF IsEvicted
<1>10. QED
    BY <1>6, <1>8, <1>9

\* What fits still fits with something less in it.
LEMMA LessFits ==
    ASSUME NEW T, NEW a \in Seq(T), NEW b \in Seq(T), Len(a) <= Len(b), Range(a) \subseteq Range(b),
           NEW large, IsFiniteSet(large), Fits(b, large)
    PROVE  Fits(a, large)
<1>1. /\ Len(a) \in Nat /\ Len(b) \in Nat
      /\ MaxKept \in Nat /\ MinKept \in Nat /\ MaxLong \in Nat
    BY RecordAssumption
<1>2. Len(a) <= MaxKept
    BY <1>1 DEF Fits
<1>3. ASSUME Len(a) > MinKept PROVE Cardinality(Range(a) \cap large) <= MaxLong
  <2>1. Cardinality(Range(b) \cap large) <= MaxLong
      BY <1>1, <1>3 DEF Fits
  <2>2. Range(b) \cap large \in SUBSET large /\ Range(a) \cap large \in SUBSET (Range(b) \cap large)
      OBVIOUS
  <2>3. IsFiniteSet(Range(b) \cap large)
      BY <2>2, FS_Subset
  <2>4. /\ IsFiniteSet(Range(a) \cap large)
        /\ Cardinality(Range(a) \cap large) <= Cardinality(Range(b) \cap large)
      BY <2>2, <2>3, FS_Subset
  <2>5. Cardinality(Range(a) \cap large) \in Nat /\ Cardinality(Range(b) \cap large) \in Nat
      BY <2>3, <2>4, FS_CardinalityType
  <2>6. QED
      BY <1>1, <2>1, <2>4, <2>5
<1>4. QED
    BY <1>2, <1>3 DEF Fits

\* To evict as records come is to evict from all that ever came.
LEMMA EvictedInTurn ==
    ASSUME NEW T, NEW sto \in Seq(T), NEW x \in T, NEW large, IsFiniteSet(large)
    PROVE  Newest(Append(Newest(sto, large), x), large) = Newest(Append(sto, x), large)
<1>1. PICK e : e = Evicted(sto, large)
    OBVIOUS
<1>2. /\ e \in 0 .. Len(sto) /\ \A m \in 0 .. (e - 1) : ~ Fits(End(sto, m), large)
      /\ Newest(sto, large) = End(sto, e)
    BY <1>1, EvictedLeast DEF IsEvicted, Newest
<1>3. PICK b \in Seq(T) : b = Append(sto, x)
    BY AppendProperties
<1>4. Len(sto) \in Nat /\ e \in Nat /\ Len(b) = Len(sto) + 1
    BY <1>2, <1>3
<1>5. PICK u \in Seq(T) : u = End(b, e)
  <2>1. e \in 0 .. Len(b)
      BY <1>2, <1>4
  <2>2. QED
      BY <2>1, EndIs
<1>6. u = Append(Newest(sto, large), x)
    BY <1>2, <1>3, <1>5, EndLonger
<1>7. Len(u) = Len(b) - e /\ e \in 0 .. Len(b)
  <2>1. e \in 0 .. Len(b)
      BY <1>2, <1>4
  <2>2. Len(End(b, e)) = Len(b) - e
      BY <2>1, EndIs
  <2>3. QED
      BY <1>5, <2>1, <2>2
<1>8. PICK f : f = Evicted(b, large)
    OBVIOUS
<1>9. /\ f \in 0 .. Len(b) /\ Fits(End(b, f), large)
      /\ \A m \in 0 .. (f - 1) : ~ Fits(End(b, m), large)
      /\ Newest(b, large) = End(b, f)
    BY <1>8, EvictedLeast DEF IsEvicted, Newest
<1>10. e <= f
  <2>1. SUFFICES ASSUME f < e PROVE FALSE
      BY <1>4, <1>9
  <2>2. f \in 0 .. (e - 1) /\ f \in 0 .. Len(sto) /\ f \in Nat
      BY <1>2, <1>4, <1>9, <2>1
  <2>3. PICK t \in Seq(T) : t = End(sto, f)
      BY <2>2, EndIs
  <2>4. PICK v \in Seq(T) : v = End(b, f)
      BY <1>9, EndIs
  <2>5. v = Append(t, x)
      BY <1>3, <2>2, <2>3, <2>4, EndLonger
  <2>6. Len(t) <= Len(v) /\ Range(t) \subseteq Range(v)
    <3>1. Len(t) \in Nat /\ Len(v) = Len(t) + 1 /\ \A i \in 1 .. Len(t) : v[i] = t[i]
        BY <2>5
    <3>2. DOMAIN t = 1 .. Len(t) /\ DOMAIN v = 1 .. Len(v)
        OBVIOUS
    <3>3. ASSUME NEW y \in Range(t) PROVE y \in Range(v)
      <4>1. PICK i \in DOMAIN t : y = t[i]
          BY DEF Range
      <4>2. i \in DOMAIN v /\ v[i] = y
          BY <3>1, <3>2, <4>1
      <4>3. QED
          BY <4>2 DEF Range
    <3>4. QED
        BY <3>1, <3>3
  <2>7. Fits(t, large)
      BY <1>9, <2>4, <2>6, LessFits
  <2>8. QED
      BY <1>2, <2>2, <2>3, <2>7
<1>11. PICK g \in Nat : g = f - e /\ g \in 0 .. Len(u)
    BY <1>4, <1>7, <1>9, <1>10
<1>12. \A k \in 0 .. Len(u) : End(u, k) = End(b, e + k)
    BY <1>5, <1>7, EndOfEnd
<1>13. IsEvicted(g, u, large)
  <2>1. e + g = f
      BY <1>4, <1>9, <1>11
  <2>2. Fits(End(u, g), large)
      BY <1>9, <1>11, <1>12, <2>1
  <2>3. ASSUME NEW m \in 0 .. (g - 1) PROVE ~ Fits(End(u, m), large)
    <3>1. m \in 0 .. Len(u) /\ e + m \in 0 .. (f - 1)
        BY <1>4, <1>9, <1>11
    <3>2. QED
        BY <1>9, <1>12, <3>1
  <2>4. QED
      BY <1>11, <2>2, <2>3 DEF IsEvicted
<1>14. Newest(u, large) = End(u, g)
    BY <1>13, EvictedLeast DEF Newest
<1>15. End(u, g) = End(b, f)
  <2>1. e + g = f
      BY <1>4, <1>9, <1>11
  <2>2. QED
      BY <1>11, <1>12, <2>1
<1>16. QED
    BY <1>3, <1>6, <1>9, <1>14, <1>15

LEMMA KeptTypes ==
    ASSUME NEW T, NEW s \in Seq(T)
    PROVE  /\ Kept(s) \in Seq(T)
           /\ \A r \in Range(Kept(s)) : r \in Range(s)
           /\ kind \in {"journal", "queue"} => Kept(s) = s
<1>1. kind \in {"journal", "queue"} => Kept(s) = s
    BY DEF Kept, Capped
<1>2. CASE kind \in Capped
  <2>1. PICK n : n = Evicted(RecordIds(s), long)
      OBVIOUS
  <2>2. Kept(s) = End(s, n) /\ n \in 0 .. Len(s)
    <3>1. RecordIds(s) \in Seq({s[i].id : i \in DOMAIN s}) /\ Len(RecordIds(s)) = Len(s)
      <4>1. DOMAIN s = 1 .. Len(s) /\ Len(s) \in Nat
          OBVIOUS
      <4>2. RecordIds(s) = [i \in 1 .. Len(s) |-> s[i].id]
          BY <4>1 DEF RecordIds
      <4>3. PICK V : V = {s[i].id : i \in DOMAIN s}
          OBVIOUS
      <4>4. \A i \in 1 .. Len(s) : s[i].id \in V
          BY <4>1, <4>3
      <4>5. RecordIds(s) \in Seq(V) /\ Len(RecordIds(s)) = Len(s)
          BY <4>1, <4>2, <4>4
      <4>6. QED
          BY <4>3, <4>5
    <3>2. n \in 0 .. Len(s)
        BY <2>1, <3>1, EvictedLeast
    <3>3. QED
        BY <1>2, <2>1, <3>2 DEF Kept
  <2>3. /\ Kept(s) \in Seq(T) /\ Len(Kept(s)) = Len(s) - n
        /\ \A i \in 1 .. (Len(s) - n) : Kept(s)[i] = s[i + n]
      BY <2>2, EndIs
  <2>4. \A r \in Range(Kept(s)) : r \in Range(s)
    <3>1. ASSUME NEW i \in DOMAIN Kept(s) PROVE Kept(s)[i] \in Range(s)
      <4>1. Len(s) \in Nat /\ n \in Nat /\ i \in 1 .. (Len(s) - n) /\ i + n \in DOMAIN s
          BY <2>2, <2>3
      <4>2. QED
          BY <2>3, <4>1 DEF Range
    <3>2. QED
        BY <3>1 DEF Range
  <2>5. QED
      BY <1>1, <2>3, <2>4
<1>3. CASE kind \notin Capped
    BY <1>1, <1>3 DEF Kept
<1>4. QED
    BY <1>2, <1>3

LEMMA NothingNewest == ASSUME NEW large PROVE Newest(<<>>, large) = <<>>
<1>1. <<>> \in Seq({}) /\ Len(<<>>) = 0
    OBVIOUS
<1>2. Evicted(<<>>, large) \in 0 .. Len(<<>>)
    BY <1>1, EvictedLeast
<1>3. Evicted(<<>>, large) = 0
    BY <1>1, <1>2
<1>4. End(<<>>, 0) = <<>>
  <2>1. SubSeq(<<>>, 1, 0) = <<>>
      BY SubSeqEmpty
  <2>2. 0 + 1 = 1
      OBVIOUS
  <2>3. QED
      BY <1>1, <2>1, <2>2 DEF End
<1>5. QED
    BY <1>3, <1>4 DEF Newest

LEMMA RecordIdsAre ==
    ASSUME NEW s \in Seq(Records)
    PROVE  /\ RecordIds(s) \in Seq(Nat) /\ Len(RecordIds(s)) = Len(s)
           /\ \A i \in 1 .. Len(s) : RecordIds(s)[i] = s[i].id
<1>1. DOMAIN s = 1 .. Len(s) /\ Len(s) \in Nat
    OBVIOUS
<1>2. \A i \in 1 .. Len(s) : s[i] \in Records
    BY ElementOfSeq
<1>3. \A i \in 1 .. Len(s) : s[i].id \in Nat
    BY <1>2 DEF Records
<1>4. RecordIds(s) = [i \in 1 .. Len(s) |-> s[i].id]
    BY <1>1 DEF RecordIds
<1>5. QED
    BY <1>1, <1>3, <1>4

LEMMA RecordIdsAppended ==
    ASSUME NEW s \in Seq(Records), NEW x \in Records
    PROVE  RecordIds(Append(s, x)) = Append(RecordIds(s), x.id)
<1>1. /\ Append(s, x) \in Seq(Records) /\ Len(Append(s, x)) = Len(s) + 1 /\ Len(s) \in Nat
      /\ \A i \in 1 .. Len(s) : Append(s, x)[i] = s[i]
      /\ Append(s, x)[Len(s) + 1] = x
    BY AppendProperties
<1>2. RecordIds(Append(s, x)) = [i \in 1 .. (Len(s) + 1) |-> Append(s, x)[i].id]
    BY <1>1 DEF RecordIds
<1>3. /\ RecordIds(s) = [i \in 1 .. Len(s) |-> s[i].id]
      /\ \A i \in 1 .. Len(s) : s[i].id \in Nat
  <2>1. DOMAIN s = 1 .. Len(s)
      OBVIOUS
  <2>2. \A i \in 1 .. Len(s) : s[i] \in Records
      BY ElementOfSeq
  <2>3. QED
      BY <2>1, <2>2 DEF RecordIds, Records
<1>4. RecordIds(s) \in Seq(Nat) /\ Len(RecordIds(s)) = Len(s) /\ x.id \in Nat
    BY <1>1, <1>3 DEF Records
<1>5. Append(RecordIds(s), x.id) = [i \in 1 .. (Len(s) + 1) |->
                                      IF i = Len(s) + 1 THEN x.id ELSE RecordIds(s)[i]]
    BY <1>1, <1>4
<1>6. \A i \in 1 .. (Len(s) + 1) :
         Append(s, x)[i].id = IF i = Len(s) + 1 THEN x.id ELSE RecordIds(s)[i]
  <2>1. \A i \in 1 .. (Len(s) + 1) : i = Len(s) + 1 \/ i \in 1 .. Len(s)
      BY <1>1
  <2>2. \A i \in 1 .. Len(s) : i # Len(s) + 1 /\ RecordIds(s)[i] = s[i].id
      BY <1>1, <1>3
  <2>3. QED
      BY <1>1, <2>1, <2>2
<1>7. QED
    BY <1>2, <1>5, <1>6

\* What is cut off the records is what is cut off their numbers.
LEMMA KeptIds ==
    ASSUME NEW s \in Seq(Records), NEW sto, NEW x \in Nat, NEW T, sto \in Seq(T), x \in T,
           NEW r \in Records, r.id = x, kind \in Capped, RecordIds(s) = Newest(sto, long),
           IsFiniteSet(long)
    PROVE  RecordIds(Kept(Append(s, r))) = Newest(Append(sto, x), long)
<1>1. PICK a \in Seq(Records) : a = Append(s, r)
    BY AppendProperties
<1>2. RecordIds(a) = Append(RecordIds(s), x)
    BY <1>1, RecordIdsAppended
<1>3. PICK n : n = Evicted(RecordIds(a), long)
    OBVIOUS
<1>4. /\ RecordIds(a) \in Seq(Nat) /\ Len(RecordIds(a)) = Len(a) /\ Len(a) \in Nat
      /\ \A i \in 1 .. Len(a) : RecordIds(a)[i] = a[i].id
    BY RecordIdsAre
<1>5. n \in 0 .. Len(a) /\ Kept(a) = End(a, n)
    BY <1>3, <1>4, EvictedLeast DEF Kept
<1>6. RecordIds(End(a, n)) = End(RecordIds(a), n)
  <2>1. PICK e \in Seq(Records) : e = End(a, n)
      BY <1>5, EndIs
  <2>2. Len(e) = Len(a) - n /\ \A i \in 1 .. (Len(a) - n) : e[i] = a[i + n]
      BY <1>5, <2>1, EndIs
  <2>3. PICK g \in Seq(Nat) : g = End(RecordIds(a), n)
      BY <1>4, <1>5, EndIs
  <2>4. Len(g) = Len(a) - n /\ \A i \in 1 .. (Len(a) - n) : g[i] = RecordIds(a)[i + n]
    <3>1. PICK w \in Seq(Nat) : w = RecordIds(a)
        BY <1>4
    <3>2. Len(w) = Len(a) /\ n \in 0 .. Len(w)
        BY <1>4, <1>5, <3>1
    <3>3. Len(End(w, n)) = Len(w) - n /\ \A i \in 1 .. (Len(w) - n) : End(w, n)[i] = w[i + n]
        BY <3>2, EndIs
    <3>4. QED
        BY <2>3, <3>1, <3>2, <3>3
  <2>5. /\ RecordIds(e) \in Seq(Nat) /\ Len(RecordIds(e)) = Len(e)
        /\ \A i \in 1 .. Len(e) : RecordIds(e)[i] = e[i].id
      BY <2>1, RecordIdsAre
  <2>6. ASSUME NEW i \in 1 .. (Len(a) - n) PROVE RecordIds(e)[i] = g[i]
    <3>1. i + n \in 1 .. Len(a) /\ i \in 1 .. Len(e)
        BY <1>4, <1>5, <2>2
    <3>2. QED
        BY <1>4, <2>2, <2>4, <2>5, <3>1
  <2>7. QED
      BY <2>1, <2>2, <2>3, <2>4, <2>5, <2>6, SeqEqual
<1>7. RecordIds(Kept(a)) = Newest(RecordIds(a), long)
    BY <1>3, <1>5, <1>6 DEF Newest
<1>8. QED
    BY <1>1, <1>2, <1>7, EvictedInTurn


\* What beginning a change does.
LEMMA BeginsEffect ==
    ASSUME RecTypeOK, NEW u \in Users, NEW what \in {"add", "settle", "look", "prune"},
           NEW id \in Nat, NEW s, Begins(u, what, id, s)
    PROVE  /\ user[u] = Free /\ ~ (kind = "queue" /\ damaged)
           /\ user' \in [Users -> Changes]
           /\ user'[u] # Free
           /\ user'[u].at = "write" /\ user'[u].op = what /\ user'[u].id = id
           /\ \A v \in Users \ {u} : user'[v] = user[v]
           /\ DOMAIN list' = Users /\ list' = [v \in Users |-> list'[v]] /\ list'[u] = s
           /\ \A v \in Users \ {u} : list'[v] = list[v]
           /\ mixed' = (mixed \/ \E v \in Users \ {u} : user[v] # Free)
           /\ mixed' \in BOOLEAN
           /\ kind' = kind /\ long' = long /\ lines' = lines /\ damaged' = damaged /\ stored' = stored
           /\ settled' = settled /\ deaths' = deaths
<1>1. /\ user' = [user EXCEPT ![u] = [at |-> "write", op |-> what, id |-> id]]
      /\ list' = [list EXCEPT ![u] = s]
      /\ user \in [Users -> Changes] /\ DOMAIN list = Users
    BY DEF Begins, RecTypeOK
<1>2. [at |-> "write", op |-> what, id |-> id] \in Changes
    BY DEF Changes
<1>3. [at |-> "write", op |-> what, id |-> id] # Free
    BY DEF Free
<1>4. list' = [v \in Users |-> IF v = u THEN s ELSE list[v]]
    BY <1>1
<1>5. /\ DOMAIN list' = Users /\ list' = [v \in Users |-> list'[v]] /\ list'[u] = s
      /\ \A v \in Users \ {u} : list'[v] = list[v]
    BY <1>4
<1>6. /\ user' \in [Users -> Changes] /\ user'[u] # Free
      /\ user'[u].at = "write" /\ user'[u].op = what /\ user'[u].id = id
      /\ \A v \in Users \ {u} : user'[v] = user[v]
    BY <1>1, <1>2, <1>3
<1>7. mixed' = (mixed \/ \E v \in Users \ {u} : user[v] # Free) /\ mixed \in BOOLEAN
    BY DEF Begins, RecTypeOK
<1>8. mixed' \in BOOLEAN
    BY <1>7
<1>9. QED
    BY <1>5, <1>6, <1>7, <1>8 DEF Begins

\* What ending one does, or a kill.
LEMMA FreeEffect ==
    ASSUME RecTypeOK, NEW u \in Users,
           user' = [user EXCEPT ![u] = Free], list' = [list EXCEPT ![u] = <<>>]
    PROVE  /\ user' \in [Users -> Changes] /\ user'[u] = Free
           /\ \A v \in Users \ {u} : user'[v] = user[v]
           /\ DOMAIN list' = Users /\ list' = [v \in Users |-> list'[v]] /\ list'[u] = <<>>
           /\ \A v \in Users \ {u} : list'[v] = list[v]
<1>1. user \in [Users -> Changes] /\ DOMAIN list = Users
    BY DEF RecTypeOK
<1>2. Free \in Changes
    BY DEF Free, Changes
<1>3. list' = [v \in Users |-> IF v = u THEN <<>> ELSE list[v]]
    BY <1>1
<1>4. QED
    BY <1>1, <1>2, <1>3

\* The records that a change writes are of the store or new.
RecordsOf(s, n) == s \in Seq(Records) /\ \A r \in Range(s) : r.id \in 1 .. n

LEMMA ListTypes ==
    ASSUME RecTypeOK, Consistent, NEW u \in Users, NEW s, NEW n \in Nat, born <= n, RecordsOf(s, n),
           ~ pruned, DOMAIN list' = Users, list'[u] = s,
           \A v \in Users \ {u} : list'[v] = list[v],
           list' = [v \in Users |-> list'[v]]
    PROVE  list' \in [Users -> Seq(Records)] /\ \A v \in Users : RecordsOf(list'[v], n)
<1>1. \A v \in Users : list[v] \in Seq(Records)
    BY DEF RecTypeOK
<1>2. ASSUME NEW v \in Users PROVE RecordsOf(list'[v], n)
  <2>1. CASE v = u
      BY <2>1
  <2>2. CASE v # u
    <3>1. \A r \in Range(list[v]) : r.id \in 1 .. born
        BY DEF Consistent
    <3>2. 1 .. born \subseteq 1 .. n
        BY DEF RecTypeOK
    <3>3. list'[v] = list[v] /\ list[v] \in Seq(Records)
        BY <1>1, <2>2
    <3>4. QED
        BY <3>1, <3>2, <3>3 DEF RecordsOf
  <2>3. QED
      BY <2>1, <2>2
<1>3. QED
    BY <1>2 DEF RecordsOf

LEMMA AddedTypes ==
    ASSUME RecTypeOK, Consistent, ~ pruned
    PROVE  RecordsOf(Kept(Append(Readable, [id |-> born + 1, open |-> TRUE])), born + 1)
<1>1. Readable \in Seq(Records) /\ \A r \in Range(Readable) : r.id \in 1 .. born
    BY ReadableTypes
<1>2. born \in Nat
    BY DEF RecTypeOK
<1>3. PICK x : x = [id |-> born + 1, open |-> TRUE]
    OBVIOUS
<1>4. x \in Records /\ x.id = born + 1
    BY <1>2, <1>3 DEF Records
<1>5. /\ Append(Readable, x) \in Seq(Records) /\ Len(Append(Readable, x)) = Len(Readable) + 1
      /\ \A i \in 1 .. Len(Readable) : Append(Readable, x)[i] = Readable[i]
      /\ Append(Readable, x)[Len(Readable) + 1] = x
    BY <1>1, <1>4, AppendProperties
<1>6. \A r \in Range(Append(Readable, x)) : r.id \in 1 .. (born + 1)
  <2>1. ASSUME NEW i \in DOMAIN Append(Readable, x)
        PROVE  Append(Readable, x)[i].id \in 1 .. (born + 1)
    <3>1. i \in 1 .. (Len(Readable) + 1) /\ Len(Readable) \in Nat
        BY <1>1, <1>5
    <3>2. CASE i = Len(Readable) + 1
        BY <1>2, <1>4, <1>5, <3>2
    <3>3. CASE i # Len(Readable) + 1
      <4>1. i \in 1 .. Len(Readable) /\ i \in DOMAIN Readable
          BY <1>1, <3>1, <3>3
      <4>2. Readable[i].id \in 1 .. born
          BY <1>1, <4>1 DEF Range
      <4>3. QED
          BY <1>2, <1>5, <4>1, <4>2
    <3>4. QED
        BY <3>2, <3>3
  <2>2. QED
      BY <2>1 DEF Range
<1>7. /\ Kept(Append(Readable, x)) \in Seq(Records)
      /\ \A r \in Range(Kept(Append(Readable, x))) : r \in Range(Append(Readable, x))
    BY <1>5, KeptTypes
<1>8. QED
    BY <1>3, <1>6, <1>7 DEF RecordsOf

LEMMA SettledTypes ==
    ASSUME RecTypeOK, Consistent, ~ pruned, NEW i \in DOMAIN Readable
    PROVE  /\ Readable[i].id \in 1 .. born
           /\ RecordsOf([Readable EXCEPT ![i].open = FALSE], born)
           /\ Len([Readable EXCEPT ![i].open = FALSE]) = Len(Readable)
           /\ [Readable EXCEPT ![i].open = FALSE][i].id = Readable[i].id
           /\ ~ [Readable EXCEPT ![i].open = FALSE][i].open
           /\ \A j \in DOMAIN Readable \ {i} : [Readable EXCEPT ![i].open = FALSE][j] = Readable[j]
<1>1. Readable \in Seq(Records) /\ \A r \in Range(Readable) : r.id \in 1 .. born
    BY ReadableTypes
<1>2. \A j \in DOMAIN Readable : Readable[j] \in Records /\ Readable[j].id \in 1 .. born
    BY <1>1 DEF Range
<1>3. PICK s : s = [Readable EXCEPT ![i].open = FALSE]
    OBVIOUS
<1>4. [Readable[i] EXCEPT !.open = FALSE] \in Records
      /\ [Readable[i] EXCEPT !.open = FALSE].id = Readable[i].id
      /\ ~ [Readable[i] EXCEPT !.open = FALSE].open
    BY <1>2 DEF Records
<1>5. /\ s \in Seq(Records) /\ Len(s) = Len(Readable) /\ DOMAIN s = DOMAIN Readable
      /\ s[i] = [Readable[i] EXCEPT !.open = FALSE]
      /\ \A j \in DOMAIN Readable \ {i} : s[j] = Readable[j]
    BY <1>1, <1>3, <1>4
<1>6. \A r \in Range(s) : r.id \in 1 .. born
  <2>1. \A j \in DOMAIN s : s[j].id \in 1 .. born
    <3>1. s[i].id = Readable[i].id
        BY <1>4, <1>5
    <3>2. QED
        BY <1>2, <1>5, <3>1
  <2>2. QED
      BY <2>1 DEF Range
<1>7. QED
    BY <1>2, <1>3, <1>4, <1>5, <1>6 DEF RecordsOf

LEMMA BegunTypes ==
    ASSUME RecTypeOK, Consistent, NEW u \in Users, NEW what \in {"add", "settle", "look", "prune"},
           NEW id \in Nat, NEW s, Begins(u, what, id, s),
           born' \in Nat, born <= born', changes' \in Nat,
           bad' \subseteq 1 .. born', kind \in Documents => bad' = {},
           pruned' \in BOOLEAN, pruned => pruned', pruned' => kind = "workspace",
           id <= born', what \in {"add", "settle"} => id \in 1 .. born',
           what = "settle" => kind \in Documents, what = "prune" => pruned',
           kind = "journal" => what = "add",
           ~ pruned' => RecordsOf(s, born')
    PROVE  RecTypeOK' /\ Consistent'
<1>1. /\ user' \in [Users -> Changes] /\ user'[u].at = "write" /\ user'[u].op = what
      /\ user'[u].id = id /\ \A v \in Users \ {u} : user'[v] = user[v]
      /\ DOMAIN list' = Users /\ list' = [v \in Users |-> list'[v]] /\ list'[u] = s
      /\ \A v \in Users \ {u} : list'[v] = list[v]
      /\ mixed' \in BOOLEAN
      /\ kind' = kind /\ long' = long /\ lines' = lines /\ damaged' = damaged /\ stored' = stored
      /\ settled' = settled /\ deaths' = deaths
    BY BeginsEffect
<1>2. 1 .. born \subseteq 1 .. born'
    BY DEF RecTypeOK
<1>3. stored \in Seq(1 .. born')
  <2>1. stored \in Seq(1 .. born)
      BY DEF RecTypeOK
  <2>2. QED
      BY <1>2, <2>1, SeqMonotonic
<1>4. ~ pruned' => /\ list' \in [Users -> Seq(Records)]
                   /\ \A v \in Users : RecordsOf(list'[v], born')
    BY <1>1, ListTypes
<1>5. RecTypeOK'
    BY <1>1, <1>2, <1>3, <1>4 DEF RecTypeOK
<1>6. \A v \in Users : user'[v].at = "idle" => user'[v] = Free
    BY <1>1 DEF Consistent
<1>7. \A v \in Users : user'[v] # Free => user'[v].op # "none" /\ user'[v].id <= born'
  <2>1. \A v \in Users : user[v].id \in Nat
      BY DEF RecTypeOK, Changes
  <2>2. born \in Nat
      BY DEF RecTypeOK
  <2>3. \A v \in Users \ {u} : user[v] # Free => user[v].op # "none" /\ user[v].id <= born'
      BY <2>1, <2>2 DEF Consistent, Busy
  <2>4. QED
      BY <1>1, <2>3
<1>8. \A v \in Users : user'[v].op = "settle" => kind \in Documents /\ user'[v].id \in 1 .. born'
    BY <1>1, <1>2 DEF Consistent
<1>9. \A v \in Users : user'[v].op = "add" => user'[v].id \in 1 .. born'
    BY <1>1, <1>2 DEF Consistent
<1>10. \A v \in Users : user'[v].op = "prune" => pruned'
    BY <1>1 DEF Consistent
<1>11. kind = "journal" =>
         /\ ~ damaged
         /\ \A v \in Users : user'[v].op \in {"none", "add"} /\ user'[v].at # "fill"
    BY <1>1 DEF Consistent
<1>12. ~ pruned' => \A r \in Range(lines) : r.id \in 1 .. born'
    BY <1>2 DEF Consistent
<1>13. ~ pruned' => \A v \in Users : \A r \in Range(list'[v]) : r.id \in 1 .. born'
    BY <1>4 DEF RecordsOf
<1>14. QED
    BY <1>1, <1>5, <1>6, <1>7, <1>8, <1>9, <1>10, <1>11, <1>12, <1>13 DEF Consistent, Busy

LEMMA AddEffect ==
    ASSUME RecTypeOK, NEW u \in Users, Add(u)
    PROVE  /\ born' = born + 1 /\ born \in Nat
           /\ Begins(u, "add", born + 1, Kept(Append(Readable, [id |-> born + 1, open |-> TRUE])))
           /\ bad' = bad \/ (kind \notin Documents /\ bad' = bad \cup {born + 1})
           /\ pruned' = pruned /\ changes' = changes
<1>1. born' = born + 1 /\ born \in Nat
    BY DEF Add, RecTypeOK
<1>2. Begins(u, "add", born', Kept(Append(Readable, [id |-> born', open |-> TRUE])))
    BY DEF Add
<1>3. QED
    BY <1>1, <1>2 DEF Add

LEMMA AddTypes ==
    ASSUME RecTypeOK, Consistent, NEW u \in Users, Add(u)
    PROVE  RecTypeOK' /\ Consistent'
<1>1. /\ born' = born + 1 /\ born \in Nat
      /\ Begins(u, "add", born + 1, Kept(Append(Readable, [id |-> born + 1, open |-> TRUE])))
      /\ bad' = bad \/ (kind \notin Documents /\ bad' = bad \cup {born + 1})
      /\ pruned' = pruned /\ changes' = changes
    BY AddEffect
<1>2. PICK s : s = Kept(Append(Readable, [id |-> born + 1, open |-> TRUE]))
    OBVIOUS
<1>3. ~ pruned => RecordsOf(s, born + 1)
    BY <1>2, AddedTypes
<1>4. /\ bad' \subseteq 1 .. born' /\ (kind \in Documents => bad' = {})
      /\ changes' \in Nat /\ pruned' \in BOOLEAN /\ (pruned' => kind = "workspace")
  <2>1. bad \subseteq 1 .. born /\ 1 .. born \subseteq 1 .. (born + 1) /\ born + 1 \in 1 .. (born + 1)
      BY <1>1 DEF RecTypeOK
  <2>2. bad' \subseteq 1 .. born'
      BY <1>1, <2>1
  <2>3. kind \in Documents => bad' = {}
      BY <1>1 DEF Consistent
  <2>4. changes' \in Nat /\ pruned' \in BOOLEAN /\ (pruned' => kind = "workspace")
      BY <1>1 DEF RecTypeOK
  <2>5. QED
      BY <2>2, <2>3, <2>4
<1>5. /\ born' \in Nat /\ born <= born' /\ born + 1 \in Nat /\ born + 1 <= born'
      /\ born + 1 \in 1 .. born' /\ "add" \in {"add", "settle", "look", "prune"}
    BY <1>1
<1>6. ~ pruned' => RecordsOf(s, born')
    BY <1>1, <1>3
<1>7. Begins(u, "add", born + 1, s)
    BY <1>1, <1>2
<1>8. QED
    BY <1>1, <1>4, <1>5, <1>6, <1>7, BegunTypes

\* What settling a record is.
LEMMA SettleEffect ==
    ASSUME RecTypeOK, Consistent, NEW u \in Users, Settle(u)
    PROVE  /\ born' = born /\ bad' = bad /\ pruned' = pruned /\ ~ pruned /\ changes' \in Nat
           /\ \/ /\ kind \in Documents
                 /\ \E i \in DOMAIN Readable :
                      /\ MaySettle(Readable, i)
                      /\ Begins(u, "settle", Readable[i].id, [Readable EXCEPT ![i].open = FALSE])
              \/ kind = "queue" /\ Begins(u, "look", 0, Readable)
<1>1. changes \in Nat /\ (pruned => kind = "workspace")
    BY DEF RecTypeOK
<1>2. kind = "workspace" => kind # "queue" /\ kind # "facts"
    OBVIOUS
<1>3. \A i : MaySettle(Readable, i) => kind \in {"facts", "queue"}
    BY DEF MaySettle
<1>4. /\ changes' = changes + 1 /\ born' = born /\ bad' = bad /\ pruned' = pruned
      /\ \/ \E i \in DOMAIN Readable :
              /\ MaySettle(Readable, i)
              /\ Begins(u, "settle", Readable[i].id, [Readable EXCEPT ![i].open = FALSE])
         \/ kind = "queue" /\ Begins(u, "look", 0, Readable)
    BY DEF Settle
<1>5. kind \in {"facts", "queue"}
    BY <1>3, <1>4
<1>6. kind \in Documents /\ ~ pruned /\ changes' \in Nat
    BY <1>1, <1>4, <1>5 DEF Documents
<1>7. QED
    BY <1>4, <1>6

LEMMA SettleTypes ==
    ASSUME RecTypeOK, Consistent, NEW u \in Users, Settle(u)
    PROVE  RecTypeOK' /\ Consistent'
<1>1. /\ born' = born /\ bad' = bad /\ pruned' = pruned /\ ~ pruned /\ changes' \in Nat
      /\ \/ /\ kind \in Documents
            /\ \E i \in DOMAIN Readable :
                 /\ MaySettle(Readable, i)
                 /\ Begins(u, "settle", Readable[i].id, [Readable EXCEPT ![i].open = FALSE])
         \/ kind = "queue" /\ Begins(u, "look", 0, Readable)
    BY SettleEffect
<1>2. /\ born' \in Nat /\ born <= born' /\ bad' \subseteq 1 .. born'
      /\ pruned' \in BOOLEAN /\ (pruned => pruned') /\ (pruned' => kind = "workspace")
      /\ (kind \in Documents => bad' = {})
    BY <1>1 DEF RecTypeOK, Consistent
<1>3. ASSUME NEW i \in DOMAIN Readable, kind \in Documents,
             Begins(u, "settle", Readable[i].id, [Readable EXCEPT ![i].open = FALSE])
      PROVE  RecTypeOK' /\ Consistent'
  <2>1. PICK id : id = Readable[i].id
      OBVIOUS
  <2>2. PICK s : s = [Readable EXCEPT ![i].open = FALSE]
      OBVIOUS
  <2>3. id \in 1 .. born /\ RecordsOf(s, born)
      BY <1>1, <2>1, <2>2, SettledTypes
  <2>4. /\ id \in Nat /\ id <= born' /\ id \in 1 .. born' /\ RecordsOf(s, born')
        /\ "settle" \in {"add", "settle", "look", "prune"} /\ kind # "journal"
      BY <1>1, <1>2, <1>3, <2>3 DEF Documents
  <2>5. Begins(u, "settle", id, s)
      BY <1>3, <2>1, <2>2
  <2>6. QED
      BY <1>1, <1>2, <1>3, <2>4, <2>5, BegunTypes
<1>4. ASSUME kind = "queue", Begins(u, "look", 0, Readable) PROVE RecTypeOK' /\ Consistent'
  <2>1. RecordsOf(Readable, born')
      BY <1>1, ReadableTypes DEF RecordsOf
  <2>2. 0 \in Nat /\ 0 <= born' /\ "look" \in {"add", "settle", "look", "prune"} /\ kind # "journal"
      BY <1>2, <1>4
  <2>3. QED
      BY <1>1, <1>2, <1>4, <2>1, <2>2, BegunTypes
<1>5. QED
    BY <1>1, <1>3, <1>4

LEMMA PruneTypes ==
    ASSUME RecTypeOK, Consistent, NEW u \in Users, Prune(u)
    PROVE  RecTypeOK' /\ Consistent'
<1>1. PICK s : Begins(u, "prune", 0, s)
    BY DEF Prune
<1>2. /\ kind = "workspace" /\ pruned' = TRUE /\ born' = born /\ bad' = bad
      /\ changes' = changes + 1 /\ changes \in Nat
    BY DEF Prune, RecTypeOK
<1>3. /\ born' \in Nat /\ born <= born' /\ changes' \in Nat /\ bad' \subseteq 1 .. born'
      /\ pruned' \in BOOLEAN /\ (pruned => pruned') /\ kind \notin Documents
      /\ 0 \in Nat /\ 0 <= born' /\ "prune" \in {"add", "settle", "look", "prune"}
      /\ kind # "journal"
    BY <1>2 DEF RecTypeOK, Documents
<1>4. QED
    BY <1>1, <1>2, <1>3, BegunTypes

\* What the end of a change stores.
LEMMA DoneEffect ==
    ASSUME RecTypeOK, Consistent, NEW u \in Users, Done(u)
    PROVE  /\ user' = [user EXCEPT ![u] = Free] /\ list' = [list EXCEPT ![u] = <<>>]
           /\ stored' = StoredAfter(u) /\ settled' = SettledAfter(u)
           /\ stored' \in Seq(1 .. born) /\ settled' \subseteq 1 .. born
<1>1. /\ user' = [user EXCEPT ![u] = Free] /\ list' = [list EXCEPT ![u] = <<>>]
      /\ stored' = StoredAfter(u) /\ settled' = SettledAfter(u)
    BY DEF Done, StoredAfter, SettledAfter
<1>2. /\ user[u].op = "add" => user[u].id \in 1 .. born
      /\ user[u].op = "settle" => user[u].id \in 1 .. born
      /\ stored \in Seq(1 .. born) /\ settled \subseteq 1 .. born
    BY DEF Consistent, RecTypeOK
<1>3. stored' \in Seq(1 .. born)
    BY <1>1, <1>2, AppendProperties DEF StoredAfter
<1>4. settled' \subseteq 1 .. born
    BY <1>1, <1>2 DEF SettledAfter
<1>5. QED
    BY <1>1, <1>3, <1>4

\* What a step that begins nothing leaves as it is.
LEMMA OtherTypes ==
    ASSUME RecTypeOK, Consistent,
           user' \in [Users -> Changes],
           \A v \in Users : user'[v] = user[v] \/ user'[v] = Free \/
             (kind # "journal" /\ user[v].at = "write" /\ user'[v].at = "fill"
              /\ user'[v].op = user[v].op /\ user'[v].id = user[v].id),
           DOMAIN list' = Users, list' = [v \in Users |-> list'[v]],
           \A v \in Users : list'[v] = list[v] \/ list'[v] = <<>>,
           damaged' \in BOOLEAN, mixed' \in BOOLEAN, changes' \in Nat, deaths' \in Nat,
           stored' \in Seq(1 .. born), settled' \subseteq 1 .. born,
           kind' = kind /\ long' = long, born' = born, bad' = bad, pruned' = pruned,
           kind = "journal" => ~ damaged',
           ~ pruned => RecordsOf(lines', born)
    PROVE  RecTypeOK' /\ Consistent'
<1>1. ~ pruned => /\ list' \in [Users -> Seq(Records)]
                  /\ \A v \in Users : RecordsOf(list'[v], born)
  <2>1. SUFFICES ASSUME ~ pruned
                 PROVE  /\ list' \in [Users -> Seq(Records)]
                        /\ \A v \in Users : RecordsOf(list'[v], born)
      OBVIOUS
  <2>2. \A v \in Users : RecordsOf(list[v], born)
      BY <2>1 DEF RecordsOf, RecTypeOK, Consistent
  <2>3. RecordsOf(<<>>, born)
    <3>1. <<>> \in Seq(Records) /\ Range(<<>>) = {}
        BY DEF Range
    <3>2. QED
        BY <3>1 DEF RecordsOf
  <2>4. \A v \in Users : RecordsOf(list'[v], born)
      BY <2>2, <2>3
  <2>5. QED
      BY <2>4 DEF RecordsOf
<1>2. RecTypeOK'
    BY <1>1 DEF RecTypeOK, RecordsOf
<1>3. /\ Free.at = "idle" /\ Free.op = "none" /\ Free.id = 0
    BY DEF Free
<1>4. \A v \in Users : user'[v].at = "idle" => user'[v] = Free
    BY DEF Consistent
<1>5. \A v \in Users : user[v].at = "write" => user[v] # Free
    BY <1>3
<1>6. \A v \in Users : user'[v] # Free => user'[v].op # "none" /\ user'[v].id <= born
    BY <1>5 DEF Consistent, Busy
<1>7. \A v \in Users : user'[v].op = "settle" => kind \in Documents /\ user'[v].id \in 1 .. born
    BY <1>3 DEF Consistent
<1>8. \A v \in Users : user'[v].op = "add" => user'[v].id \in 1 .. born
    BY <1>3 DEF Consistent
<1>9. \A v \in Users : user'[v].op = "prune" => pruned
    BY <1>3 DEF Consistent
<1>10. kind = "journal" =>
         \A v \in Users : user'[v].op \in {"none", "add"} /\ user'[v].at # "fill"
    BY <1>3 DEF Consistent
<1>11. kind \in Documents => bad = {}
    BY DEF Consistent
<1>12. ~ pruned => \A r \in Range(lines') : r.id \in 1 .. born
    BY DEF RecordsOf
<1>13. ~ pruned => \A v \in Users : \A r \in Range(list'[v]) : r.id \in 1 .. born
    BY <1>1 DEF RecordsOf
<1>14. QED
    BY <1>2, <1>4, <1>6, <1>7, <1>8, <1>9, <1>10, <1>11, <1>12, <1>13 DEF Consistent, Busy

LEMMA NothingIsRecords == ASSUME NEW n \in Nat PROVE RecordsOf(<<>>, n) /\ Range(<<>>) = {}
<1>1. <<>> \in Seq(Records) /\ Range(<<>>) = {}
    BY DEF Range
<1>2. QED
    BY <1>1 DEF RecordsOf

LEMMA ClearTypes ==
    ASSUME RecTypeOK, Consistent, NEW u \in Users, Clear(u)
    PROVE  RecTypeOK' /\ Consistent'
<1>1. /\ kind = "sessions" /\ lines' = <<>> /\ damaged' = FALSE /\ stored' = <<>>
      /\ mixed' = (mixed \/ \E v \in Users : user[v] # Free)
      /\ changes' = changes + 1
      /\ kind' = kind /\ long' = long /\ user' = user /\ list' = list /\ born' = born
      /\ settled' = settled /\ bad' = bad /\ pruned' = pruned /\ deaths' = deaths
    BY DEF Clear
<1>2. /\ user' \in [Users -> Changes] /\ DOMAIN list' = Users /\ changes' \in Nat
      /\ deaths' \in Nat /\ settled' \subseteq 1 .. born /\ born \in Nat /\ mixed \in BOOLEAN
    BY <1>1 DEF RecTypeOK
<1>3. mixed' \in BOOLEAN
    BY <1>1, <1>2
<1>4. list' = [v \in Users |-> list'[v]]
    BY <1>1 DEF RecTypeOK
<1>5. stored' \in Seq(1 .. born) /\ RecordsOf(lines', born)
    BY <1>1, <1>2, NothingIsRecords
<1>6. kind # "journal" /\ damaged' \in BOOLEAN
    BY <1>1
<1>7. QED
    BY <1>1, <1>2, <1>3, <1>4, <1>5, <1>6, OtherTypes

LEMMA TruncateEffect ==
    ASSUME RecTypeOK, NEW u \in Users, Truncate(u)
    PROVE  /\ kind # "journal" /\ user[u].at = "write" /\ lines' = <<>> /\ damaged' = TRUE
           /\ user' \in [Users -> Changes]
           /\ user'[u].at = "fill" /\ user'[u].op = user[u].op /\ user'[u].id = user[u].id
           /\ user'[u] # Free /\ user[u] # Free
           /\ \A v \in Users \ {u} : user'[v] = user[v]
           /\ kind' = kind /\ long' = long /\ list' = list /\ born' = born /\ stored' = stored
           /\ settled' = settled /\ bad' = bad /\ mixed' = mixed /\ pruned' = pruned
           /\ changes' = changes /\ deaths' = deaths
<1>1. user' = [user EXCEPT ![u].at = "fill"] /\ user \in [Users -> Changes]
    BY DEF Truncate, RecTypeOK
<1>2. PICK x \in Changes : x = user[u]
    BY <1>1
<1>3. PICK y : y = [x EXCEPT !.at = "fill"]
    OBVIOUS
<1>4. y \in Changes /\ y.at = "fill" /\ y.op = x.op /\ y.id = x.id
    BY <1>3 DEF Changes
<1>5. user' = [user EXCEPT ![u] = y]
    BY <1>1, <1>2, <1>3
<1>6. user' \in [Users -> Changes] /\ user'[u] = y /\ \A v \in Users \ {u} : user'[v] = user[v]
    BY <1>1, <1>4, <1>5
<1>7. Free.at = "idle"
    BY DEF Free
<1>8. user[u].at = "write"
    BY DEF Truncate
<1>9. y # Free /\ x # Free
    BY <1>2, <1>4, <1>7, <1>8
<1>10. QED
    BY <1>2, <1>4, <1>6, <1>9 DEF Truncate

LEMMA TruncateTypes ==
    ASSUME RecTypeOK, Consistent, NEW u \in Users, Truncate(u)
    PROVE  RecTypeOK' /\ Consistent'
<1>1. /\ kind # "journal" /\ user[u].at = "write" /\ lines' = <<>> /\ damaged' = TRUE
      /\ user' \in [Users -> Changes]
      /\ user'[u].at = "fill" /\ user'[u].op = user[u].op /\ user'[u].id = user[u].id
      /\ \A v \in Users \ {u} : user'[v] = user[v]
      /\ kind' = kind /\ long' = long /\ list' = list /\ born' = born /\ stored' = stored
      /\ settled' = settled /\ bad' = bad /\ mixed' = mixed /\ pruned' = pruned
      /\ changes' = changes /\ deaths' = deaths
    BY TruncateEffect
<1>2. /\ DOMAIN list' = Users /\ list' = [v \in Users |-> list'[v]]
      /\ mixed' \in BOOLEAN /\ changes' \in Nat /\ deaths' \in Nat
      /\ stored' \in Seq(1 .. born) /\ settled' \subseteq 1 .. born /\ born \in Nat
      /\ damaged' \in BOOLEAN
    BY <1>1 DEF RecTypeOK
<1>3. RecordsOf(lines', born)
    BY <1>1, <1>2, NothingIsRecords
<1>4. QED
    BY <1>1, <1>2, <1>3, OtherTypes

LEMMA FillTypes ==
    ASSUME RecTypeOK, Consistent, NEW u \in Users, Fill(u) \/ Replace(u)
    PROVE  RecTypeOK' /\ Consistent'
<1>1. /\ Done(u) /\ lines' = list[u]
      /\ kind' = kind /\ long' = long /\ born' = born /\ bad' = bad /\ mixed' = mixed /\ pruned' = pruned
      /\ changes' = changes /\ deaths' = deaths /\ damaged' \in BOOLEAN
    BY DEF Fill, Replace
<1>2. /\ user' = [user EXCEPT ![u] = Free] /\ list' = [list EXCEPT ![u] = <<>>]
      /\ stored' \in Seq(1 .. born) /\ settled' \subseteq 1 .. born
    BY <1>1, DoneEffect
<1>3. /\ user' \in [Users -> Changes] /\ user'[u] = Free
      /\ \A v \in Users \ {u} : user'[v] = user[v]
      /\ DOMAIN list' = Users /\ list' = [v \in Users |-> list'[v]] /\ list'[u] = <<>>
      /\ \A v \in Users \ {u} : list'[v] = list[v]
    BY <1>2, FreeEffect
<1>4. kind = "journal" => ~ damaged'
    BY DEF Fill, Replace, Consistent
<1>5. ~ pruned => RecordsOf(lines', born)
    BY <1>1 DEF RecordsOf, RecTypeOK, Consistent
<1>6. mixed' \in BOOLEAN /\ changes' \in Nat /\ deaths' \in Nat
    BY <1>1 DEF RecTypeOK
<1>7. QED
    BY <1>1, <1>2, <1>3, <1>4, <1>5, <1>6, OtherTypes

LEMMA DieTypes ==
    ASSUME RecTypeOK, Consistent, NEW u \in Users, Die(u)
    PROVE  RecTypeOK' /\ Consistent'
<1>1. /\ user' = [user EXCEPT ![u] = Free] /\ list' = [list EXCEPT ![u] = <<>>]
      /\ deaths' = deaths + 1
      /\ kind' = kind /\ long' = long /\ born' = born /\ stored' = stored /\ settled' = settled /\ bad' = bad
      /\ mixed' = mixed /\ pruned' = pruned /\ changes' = changes
      /\ IF user[u].at = "fill"
         THEN \E n \in 0..Len(list[u]) :
                /\ lines' = IF kind \in Documents THEN <<>> ELSE SubSeq(list[u], 1, n)
                /\ damaged' = TRUE
         ELSE lines' = lines /\ damaged' = damaged
    BY DEF Die
<1>2. /\ user' \in [Users -> Changes] /\ user'[u] = Free
      /\ \A v \in Users \ {u} : user'[v] = user[v]
      /\ DOMAIN list' = Users /\ list' = [v \in Users |-> list'[v]] /\ list'[u] = <<>>
      /\ \A v \in Users \ {u} : list'[v] = list[v]
    BY <1>1, FreeEffect
<1>3. /\ kind = "journal" => ~ damaged'
      /\ damaged' \in BOOLEAN
    BY <1>1 DEF Consistent, RecTypeOK
<1>4. /\ mixed' \in BOOLEAN /\ changes' \in Nat /\ deaths' \in Nat
      /\ stored' \in Seq(1 .. born) /\ settled' \subseteq 1 .. born /\ born \in Nat
    BY <1>1 DEF RecTypeOK
<1>5. ~ pruned => RecordsOf(lines', born)
  <2>1. SUFFICES ASSUME ~ pruned PROVE RecordsOf(lines', born)
      OBVIOUS
  <2>2. RecordsOf(lines, born) /\ RecordsOf(list[u], born) /\ RecordsOf(<<>>, born)
      BY <1>4, <2>1, NothingIsRecords DEF RecordsOf, RecTypeOK, Consistent
  <2>3. ASSUME NEW n \in 0 .. Len(list[u]) PROVE RecordsOf(SubSeq(list[u], 1, n), born)
    <3>1. list[u] \in Seq(Records) /\ Len(list[u]) \in Nat /\ n \in Nat
        BY <2>2 DEF RecordsOf
    <3>2. /\ SubSeq(list[u], 1, n) \in Seq(Records)
          /\ DOMAIN SubSeq(list[u], 1, n) = 1 .. n
          /\ \A i \in 1 .. n : SubSeq(list[u], 1, n)[i] = list[u][i]
        BY <3>1
    <3>3. \A i \in 1 .. n : i \in DOMAIN list[u]
        BY <3>1
    <3>4. \A r \in Range(SubSeq(list[u], 1, n)) : r \in Range(list[u])
        BY <3>2, <3>3 DEF Range
    <3>5. QED
        BY <2>2, <3>2, <3>4 DEF RecordsOf
  <2>4. QED
      BY <1>1, <2>2, <2>3
<1>6. QED
    BY <1>1, <1>2, <1>3, <1>4, <1>5, OtherTypes

\* Nobody gets in the way of whoever is at the store.
LEMMA BegunTurns ==
    ASSUME RecTypeOK, Consistent, TakingTurns, NEW u \in Users,
           NEW what \in {"add", "settle", "look", "prune"},
           NEW id \in Nat, NEW s, Begins(u, what, id, s), what = "add" => id \notin Range(stored)
    PROVE  TakingTurns' /\ (~ mixed' => ~ mixed /\ AllFree)
<1>1. /\ user[u] = Free /\ user'[u].op = what /\ user'[u].id = id
      /\ \A v \in Users \ {u} : user'[v] = user[v]
      /\ mixed' = (mixed \/ \E v \in Users \ {u} : user[v] # Free)
      /\ stored' = stored
    BY BeginsEffect
<1>2. ~ mixed' => ~ mixed /\ AllFree
    BY <1>1 DEF AllFree
<1>3. Free.op = "none"
    BY DEF Free
<1>4. TakingTurns'
  <2>1. SUFFICES ASSUME ~ mixed'
                 PROVE  /\ \A v, w \in Users : user'[v] # Free /\ user'[w] # Free => v = w
                        /\ \A i, j \in DOMAIN stored : stored[i] = stored[j] => i = j
                        /\ \A v \in Users : user'[v].op = "add" => user'[v].id \notin Range(stored)
      BY <1>1 DEF TakingTurns, Busy
  <2>2. \A v \in Users \ {u} : user'[v] = Free
      BY <1>1, <1>2, <2>1 DEF AllFree
  <2>3. QED
      BY <1>1, <1>2, <1>3, <2>1, <2>2 DEF TakingTurns
<1>5. QED
    BY <1>2, <1>4

\* The others are free then.
LEMMA OthersFree ==
    ASSUME TakingTurns, ~ mixed, NEW u \in Users, Busy(u)
    PROVE  \A v \in Users \ {u} : user[v] = Free
BY DEF TakingTurns, Busy

LEMMA DoneTurns ==
    ASSUME RecTypeOK, Consistent, TakingTurns, NEW u \in Users, Busy(u), Done(u), mixed' = mixed
    PROVE  TakingTurns' /\ (~ mixed' => AllFree')
<1>1. /\ user' = [user EXCEPT ![u] = Free] /\ list' = [list EXCEPT ![u] = <<>>]
      /\ stored' = StoredAfter(u)
    BY DoneEffect
<1>2. user'[u] = Free /\ \A v \in Users \ {u} : user'[v] = user[v]
    BY <1>1, FreeEffect
<1>3. SUFFICES ASSUME ~ mixed PROVE TakingTurns' /\ AllFree'
  <2>1. CASE mixed
      BY <2>1 DEF TakingTurns
  <2>2. QED
      BY <1>3, <2>1
<1>4. \A v \in Users \ {u} : user[v] = Free
    BY <1>3, OthersFree
<1>5. \A v \in Users : user'[v] = Free
    BY <1>2, <1>4
<1>6. Free.op = "none"
    BY DEF Free
<1>7. \A i, j \in DOMAIN stored' : stored'[i] = stored'[j] => i = j
  <2>1. /\ stored \in Seq(1 .. born)
        /\ \A i, j \in DOMAIN stored : stored[i] = stored[j] => i = j
        /\ user[u].op = "add" => user[u].id \notin Range(stored) /\ user[u].id \in 1 .. born
      BY <1>3 DEF RecTypeOK, TakingTurns, Consistent
  <2>2. CASE user[u].op # "add"
      BY <1>1, <2>1, <2>2 DEF StoredAfter
  <2>3. CASE user[u].op = "add"
    <3>1. PICK x \in 1 .. born : x = user[u].id
        BY <2>1, <2>3
    <3>2. stored' = Append(stored, x)
        BY <1>1, <2>3, <3>1 DEF StoredAfter
    <3>3. /\ Len(stored) \in Nat /\ Len(stored') = Len(stored) + 1 /\ stored' \in Seq(1 .. born)
          /\ \A i \in 1 .. Len(stored) : stored'[i] = stored[i]
          /\ stored'[Len(stored) + 1] = x
        BY <2>1, <3>2, AppendProperties
    <3>4. \A i \in 1 .. Len(stored) : stored[i] # x
        BY <2>1, <2>3, <3>1 DEF Range
    <3>5. \A i \in 1 .. (Len(stored) + 1) : i \in 1 .. Len(stored) \/ i = Len(stored) + 1
        BY <3>3
    <3>6. DOMAIN stored' = 1 .. (Len(stored) + 1)
        BY <3>3
    <3>7. QED
        BY <2>1, <3>3, <3>4, <3>5, <3>6
  <2>4. QED
      BY <2>2, <2>3
<1>8. TakingTurns'
    BY <1>5, <1>6, <1>7 DEF TakingTurns, Busy
<1>9. QED
    BY <1>5, <1>8 DEF AllFree

LEMMA AddTurns ==
    ASSUME RecTypeOK, Consistent, TakingTurns, NEW u \in Users, Add(u)
    PROVE  TakingTurns' /\ (~ mixed' => ~ mixed /\ AllFree)
<1>1. PICK s : Begins(u, "add", born + 1, s) /\ born \in Nat
    BY AddEffect
<1>2. born + 1 \in Nat /\ born + 1 \notin Range(stored)
  <2>1. stored \in Seq(1 .. born)
      BY DEF RecTypeOK
  <2>2. Range(stored) \subseteq 1 .. born
      BY <2>1, RangeOfSeq
  <2>3. QED
      BY <1>1, <2>2
<1>3. "add" \in {"add", "settle", "look", "prune"}
    OBVIOUS
<1>4. QED
    BY <1>1, <1>2, <1>3, BegunTurns

LEMMA SettleTurns ==
    ASSUME RecTypeOK, Consistent, TakingTurns, NEW u \in Users, Settle(u)
    PROVE  TakingTurns' /\ (~ mixed' => ~ mixed /\ AllFree)
<1>1. PICK what \in {"settle", "look"}, id \in Nat : \E s : Begins(u, what, id, s)
  <2>1. /\ ~ pruned
        /\ \/ \E i \in DOMAIN Readable :
                Begins(u, "settle", Readable[i].id, [Readable EXCEPT ![i].open = FALSE])
           \/ Begins(u, "look", 0, Readable)
      BY SettleEffect
  <2>2. \A i \in DOMAIN Readable : Readable[i].id \in 1 .. born
      BY <2>1, SettledTypes
  <2>3. 0 \in Nat /\ 1 .. born \subseteq Nat
      BY DEF RecTypeOK
  <2>4. QED
      BY <2>1, <2>2, <2>3
<1>2. PICK s : Begins(u, what, id, s)
    BY <1>1
<1>3. what \in {"add", "settle", "look", "prune"} /\ what # "add"
    OBVIOUS
<1>4. QED
    BY <1>2, <1>3, BegunTurns

\* Whatever is done, it is done in turns or it is known that it was not.
LEMMA TurnsStep ==
    ASSUME RecTypeOK, Consistent, TakingTurns, NEW u \in Users,
           \/ Add(u) \/ Settle(u) \/ Prune(u) \/ Clear(u)
           \/ Truncate(u) \/ Fill(u) \/ Replace(u) \/ Die(u)
    PROVE  TakingTurns'
<1>1. CASE Add(u)
    BY <1>1, AddTurns
<1>2. CASE Settle(u)
    BY <1>2, SettleTurns
<1>3. CASE Prune(u)
  <2>1. PICK s : Begins(u, "prune", 0, s)
      BY <1>3 DEF Prune
  <2>2. 0 \in Nat /\ "prune" \in {"add", "settle", "look", "prune"}
      OBVIOUS
  <2>3. QED
      BY <2>1, <2>2, BegunTurns
<1>4. CASE Clear(u)
  <2>1. user' = user /\ stored' = <<>> /\ (~ mixed' => ~ mixed)
      BY <1>4 DEF Clear
  <2>2. DOMAIN <<>> = {} /\ Range(<<>>) = {}
      BY DEF Range
  <2>3. QED
      BY <2>1, <2>2 DEF TakingTurns, Busy
<1>5. CASE Truncate(u)
  <2>1. /\ user'[u].op = user[u].op /\ user'[u].id = user[u].id
        /\ user'[u] # Free /\ user[u] # Free
        /\ \A v \in Users \ {u} : user'[v] = user[v]
        /\ stored' = stored /\ mixed' = mixed
      BY <1>5, TruncateEffect
  <2>2. \A v \in Users : /\ user'[v] # Free <=> user[v] # Free
                         /\ user'[v].op = user[v].op /\ user'[v].id = user[v].id
      BY <2>1
  <2>3. QED
      BY <2>1, <2>2 DEF TakingTurns, Busy
<1>6. CASE Fill(u) \/ Replace(u)
  <2>1. user[u].at # "idle" /\ Done(u) /\ mixed' = mixed
      BY <1>6 DEF Fill, Replace
  <2>2. Busy(u)
      BY <2>1 DEF Busy, Free
  <2>3. QED
      BY <2>1, <2>2, DoneTurns
<1>7. CASE Die(u)
  <2>1. /\ user' = [user EXCEPT ![u] = Free] /\ list' = [list EXCEPT ![u] = <<>>]
        /\ stored' = stored /\ mixed' = mixed
      BY <1>7 DEF Die
  <2>2. user'[u] = Free /\ \A v \in Users \ {u} : user'[v] = user[v]
      BY <2>1, FreeEffect
  <2>3. Free.op = "none"
      BY DEF Free
  <2>4. QED
      BY <2>1, <2>2, <2>3 DEF TakingTurns, Busy
<1>8. QED
    BY <1>1, <1>2, <1>3, <1>4, <1>5, <1>6, <1>7

LEMMA TypesStep ==
    ASSUME RecTypeOK, Consistent, NEW u \in Users,
           \/ Add(u) \/ Settle(u) \/ Prune(u) \/ Clear(u)
           \/ Truncate(u) \/ Fill(u) \/ Replace(u) \/ Die(u)
    PROVE  RecTypeOK' /\ Consistent'
BY AddTypes, SettleTypes, PruneTypes, ClearTypes, TruncateTypes, FillTypes, DieTypes

\* Queue records are completed from the start, whoever writes them.
LEMMA InTurnStep ==
    ASSUME RecTypeOK, Consistent, InTurn, NEW u \in Users,
           \/ Add(u) \/ Settle(u) \/ Prune(u) \/ Clear(u)
           \/ Truncate(u) \/ Fill(u) \/ Replace(u) \/ Die(u)
    PROVE  InTurn'
<1>1. kind' = kind /\ long' = long
    BY DEF Add, Settle, Begins, Prune, Clear, Truncate, Fill, Replace, Die
<1>2. SUFFICES ASSUME kind = "queue"
               PROVE  OpensLast(lines') /\ \A v \in Users : OpensLast(list'[v])
    BY <1>1 DEF InTurn, OpensLast
<1>3. OpensLast(lines) /\ (\A v \in Users : OpensLast(list[v])) /\ OpensLast(<<>>)
    BY <1>2 DEF InTurn, OpensLast
<1>4. ~ pruned
    BY <1>2 DEF RecTypeOK
\* What a change begins to write is in turn if what it read is.
<1>5. ASSUME NEW what \in {"add", "settle", "look", "prune"}, NEW id \in Nat, NEW s,
             Begins(u, what, id, s), OpensLast(s)
      PROVE  OpensLast(lines') /\ \A v \in Users : OpensLast(list'[v])
    BY <1>3, <1>5, BeginsEffect
<1>6. CASE Add(u)
  <2>1. PICK x : x = [id |-> born + 1, open |-> TRUE]
      OBVIOUS
  <2>2. /\ born \in Nat /\ Begins(u, "add", born + 1, Kept(Append(Readable, x)))
      BY <1>6, <2>1, AddEffect
  <2>3. ~ damaged
      BY <1>2, <2>2 DEF Begins
  <2>4. Readable = lines /\ lines \in Seq(Records)
      BY <1>2, <1>4, <2>3, ReadableTypes
  <2>5. x \in Records /\ x.open
      BY <2>1, <2>2 DEF Records
  <2>6. /\ Append(lines, x) \in Seq(Records) /\ Len(Append(lines, x)) = Len(lines) + 1
        /\ \A i \in 1 .. Len(lines) : Append(lines, x)[i] = lines[i]
        /\ Append(lines, x)[Len(lines) + 1] = x /\ Len(lines) \in Nat
      BY <2>4, <2>5, AppendProperties
  <2>7. Kept(Append(Readable, x)) = Append(lines, x)
      BY <1>2, <2>4, <2>6, KeptTypes
  <2>8. OpensLast(Append(lines, x))
    <3>1. SUFFICES ASSUME NEW i \in DOMAIN Append(lines, x), NEW j \in DOMAIN Append(lines, x),
                          i < j, Append(lines, x)[i].open
                   PROVE  Append(lines, x)[j].open
        BY DEF OpensLast
    <3>2. i \in 1 .. Len(lines) /\ j \in 1 .. (Len(lines) + 1)
        BY <2>6, <3>1
    <3>3. CASE j = Len(lines) + 1
        BY <2>5, <2>6, <3>3
    <3>4. CASE j # Len(lines) + 1
      <4>1. j \in 1 .. Len(lines) /\ DOMAIN lines = 1 .. Len(lines)
          BY <2>4, <2>6, <3>2, <3>4
      <4>2. QED
          BY <1>3, <2>6, <3>1, <3>2, <4>1 DEF OpensLast
    <3>5. QED
        BY <3>3, <3>4
  <2>9. born + 1 \in Nat /\ "add" \in {"add", "settle", "look", "prune"}
      BY <2>2
  <2>10. QED
      BY <1>5, <2>2, <2>7, <2>8, <2>9
<1>7. CASE Settle(u)
  <2>1. \/ \E i \in DOMAIN Readable :
             /\ MaySettle(Readable, i)
             /\ Begins(u, "settle", Readable[i].id, [Readable EXCEPT ![i].open = FALSE])
        \/ Begins(u, "look", 0, Readable)
      BY <1>7, SettleEffect
  <2>2. ~ damaged
      BY <1>2, <2>1 DEF Begins
  <2>3. Readable = lines /\ lines \in Seq(Records)
      BY <1>2, <1>4, <2>2, ReadableTypes
  <2>4. CASE Begins(u, "look", 0, Readable)
    <3>1. 0 \in Nat /\ "look" \in {"add", "settle", "look", "prune"} /\ OpensLast(Readable)
        BY <1>3, <2>3
    <3>2. QED
        BY <1>5, <2>4, <3>1
  <2>5. ASSUME NEW i \in DOMAIN Readable, MaySettle(Readable, i),
               Begins(u, "settle", Readable[i].id, [Readable EXCEPT ![i].open = FALSE])
        PROVE  OpensLast(lines') /\ \A v \in Users : OpensLast(list'[v])
    <3>1. PICK s : s = [Readable EXCEPT ![i].open = FALSE]
        OBVIOUS
    <3>2. /\ Readable[i].id \in 1 .. born /\ s \in Seq(Records)
          /\ Len(s) = Len(Readable) /\ ~ s[i].open
          /\ \A j \in DOMAIN Readable \ {i} : s[j] = Readable[j]
        BY <1>4, <3>1, SettledTypes DEF RecordsOf
    <3>3. DOMAIN s = DOMAIN Readable
        BY <2>3, <3>2
    <3>4. lines[i].open /\ \A j \in 1 .. (i - 1) : ~ lines[j].open
        BY <1>2, <2>3, <2>5 DEF MaySettle
    <3>5. DOMAIN lines = 1 .. Len(lines) /\ Len(lines) \in Nat
        BY <2>3
    <3>6. OpensLast(s)
      <4>1. SUFFICES ASSUME NEW j \in DOMAIN s, NEW k \in DOMAIN s, j < k, s[j].open
                     PROVE  s[k].open
          BY DEF OpensLast
      <4>2. j # i /\ s[j] = lines[j] /\ j \in 1 .. Len(lines) /\ k \in 1 .. Len(lines)
          BY <2>3, <3>2, <3>3, <3>5, <4>1
      <4>3. ~ (j \in 1 .. (i - 1))
          BY <3>4, <4>1, <4>2
      <4>4. k # i
          BY <2>3, <2>5, <3>5, <4>1, <4>2, <4>3
      <4>5. s[k] = lines[k]
          BY <2>3, <3>2, <3>3, <4>4
      <4>6. QED
          BY <1>3, <3>5, <4>1, <4>2, <4>5 DEF OpensLast
    <3>7. PICK id \in Nat : id = Readable[i].id
      <4>1. born \in Nat
          BY DEF RecTypeOK
      <4>2. QED
          BY <3>2, <4>1
    <3>8. Begins(u, "settle", id, s) /\ "settle" \in {"add", "settle", "look", "prune"}
        BY <2>5, <3>1, <3>7
    <3>9. QED
        BY <1>5, <3>6, <3>8
  <2>6. QED
      BY <2>1, <2>4, <2>5
<1>8. CASE Prune(u) \/ Clear(u) \/ Replace(u)
    BY <1>2, <1>8 DEF Prune, Clear, Replace
<1>9. CASE Truncate(u)
    BY <1>3, <1>9 DEF Truncate
<1>10. CASE Fill(u)
  <2>1. lines' = list[u] /\ list' = [list EXCEPT ![u] = <<>>]
      BY <1>10 DEF Fill, Done
  <2>2. user' = [user EXCEPT ![u] = Free]
      BY <1>10 DEF Fill, Done
  <2>3. list'[u] = <<>> /\ \A v \in Users \ {u} : list'[v] = list[v]
      BY <2>1, <2>2, FreeEffect
  <2>4. QED
      BY <1>3, <2>1, <2>3
<1>11. CASE Die(u)
  <2>1. list' = [list EXCEPT ![u] = <<>>] /\ user' = [user EXCEPT ![u] = Free]
      BY <1>11 DEF Die
  <2>2. list'[u] = <<>> /\ \A v \in Users \ {u} : list'[v] = list[v]
      BY <2>1, FreeEffect
  <2>3. lines' = lines \/ lines' = <<>>
      BY <1>2, <1>11 DEF Die, Documents
  <2>4. QED
      BY <1>3, <2>2, <2>3
<1>12. QED
    BY <1>6, <1>7, <1>8, <1>9, <1>10, <1>11

\* What a journal reads does not change with the next record being one that cannot be read.
LEMMA JournalReads ==
    ASSUME RecTypeOK, Consistent, kind = "journal", NEW more, bad \subseteq more,
           \A n \in more : n \in bad \/ n = born + 1
    PROVE  /\ Readable = Only(lines, {r \in Range(lines) : r.id \notin more})
           /\ Only(stored, Range(stored) \ bad) = Only(stored, Range(stored) \ more)
<1>1. ~ pruned /\ ~ damaged /\ born \in Nat
    BY DEF RecTypeOK, Consistent
<1>2. lines \in Seq(Records) /\ \A r \in Range(lines) : r.id \in 1 .. born
    BY <1>1 DEF RecTypeOK, Consistent
<1>3. stored \in Seq(1 .. born) /\ \A x \in Range(stored) : x \in 1 .. born
  <2>1. stored \in Seq(1 .. born)
      BY DEF RecTypeOK
  <2>2. Range(stored) \subseteq 1 .. born
      BY <2>1, RangeOfSeq
  <2>3. QED
      BY <2>1, <2>2
<1>4. \A n \in 1 .. born : n \in bad <=> n \in more
    BY <1>1
<1>5. Readable = Only(lines, {r \in Range(lines) : r.id \notin bad})
    BY DEF Readable, Documents
<1>6. \A r \in Range(lines) : r \in {s \in Range(lines) : s.id \notin bad}
                          <=> r \in {s \in Range(lines) : s.id \notin more}
    BY <1>2, <1>4
<1>7. \A x \in Range(stored) : x \in Range(stored) \ bad <=> x \in Range(stored) \ more
    BY <1>3, <1>4
<1>8. QED
    BY <1>2, <1>3, <1>5, <1>6, <1>7, OnlyAlike

\* A store stays the one it is, and processes that were at it at once were so.
LEMMA StoreStays ==
    ASSUME NEW u \in Users,
           \/ Add(u) \/ Settle(u) \/ Prune(u) \/ Clear(u)
           \/ Truncate(u) \/ Fill(u) \/ Replace(u) \/ Die(u)
    PROVE  kind' = kind /\ long' = long /\ (mixed => mixed')
<1>1. CASE Add(u) \/ Settle(u) \/ Prune(u)
  <2>1. PICK what, id, s : Begins(u, what, id, s)
      BY <1>1 DEF Add, Settle, Prune
  <2>2. kind' = kind /\ long' = long /\ mixed' = (mixed \/ \E v \in Users \ {u} : user[v] # Free)
      BY <2>1 DEF Begins
  <2>3. QED
      BY <2>2
<1>2. CASE Clear(u)
  <2>1. kind' = kind /\ long' = long /\ mixed' = (mixed \/ \E v \in Users : user[v] # Free)
      BY <1>2 DEF Clear
  <2>2. QED
      BY <2>1
<1>3. CASE Truncate(u)
    BY <1>3 DEF Truncate
<1>4. CASE Fill(u)
  <2>1. kind' = kind /\ long' = long /\ mixed' = mixed
      BY <1>4 DEF Fill
  <2>2. QED
      BY <2>1
<1>5. CASE Replace(u)
    BY <1>5 DEF Replace
<1>6. CASE Die(u)
    BY <1>6 DEF Die
<1>7. QED
    BY <1>1, <1>2, <1>3, <1>4, <1>5, <1>6

LEMMA JournalStep ==
    ASSUME RecTypeOK, Consistent, TakingTurns, JournalComplete, NEW u \in Users,
           \/ Add(u) \/ Settle(u) \/ Prune(u) \/ Clear(u)
           \/ Truncate(u) \/ Fill(u) \/ Replace(u) \/ Die(u)
    PROVE  JournalComplete'
<1>1. kind' = kind /\ long' = long /\ (mixed => mixed')
    BY StoreStays
<1>2. SUFFICES ASSUME kind = "journal", ~ mixed'
               PROVE  /\ RecordIds(Readable') = Only(stored', Range(stored') \ bad')
                      /\ \A v \in Users : user'[v] # Free =>
                            list'[v] = Append(Readable', [id |-> user'[v].id, open |-> TRUE])
    BY <1>1 DEF JournalComplete, RecordIds, Busy
<1>3. /\ ~ mixed /\ ~ pruned /\ ~ damaged /\ born \in Nat
      /\ RecordIds(Readable) = Only(stored, Range(stored) \ bad)
      /\ \A v \in Users : user[v] # Free =>
           list[v] = Append(Readable, [id |-> user[v].id, open |-> TRUE])
      /\ Readable \in Seq(Records)
      /\ \A r \in Range(Readable) : r.id \in 1 .. born /\ r.id \notin bad
  <2>1. ~ mixed /\ ~ pruned /\ ~ damaged /\ born \in Nat
      BY <1>1, <1>2 DEF RecTypeOK, Consistent
  <2>2. QED
      BY <1>2, <2>1, ReadableTypes DEF JournalComplete, Busy
<1>4. CASE Add(u)
  <2>1. PICK x : x = [id |-> born + 1, open |-> TRUE]
      OBVIOUS
  <2>2. /\ born' = born + 1 /\ Begins(u, "add", born + 1, Kept(Append(Readable, x)))
        /\ bad' = bad \/ bad' = bad \cup {born + 1}
      BY <1>4, <2>1, AddEffect
  <2>3. AllFree
      BY <1>2, <1>4, AddTurns
  <2>4. x \in Records
      BY <1>3, <2>1 DEF Records
  <2>5. Append(Readable, x) \in Seq(Records)
      BY <1>3, <2>4, AppendProperties
  <2>6. Kept(Append(Readable, x)) = Append(Readable, x)
      BY <1>2, <2>5, KeptTypes
  <2>7. Begins(u, "add", born + 1, Append(Readable, x)) /\ born + 1 \in Nat
      BY <1>3, <2>2, <2>6
  <2>8. /\ user'[u].id = born + 1 /\ list'[u] = Append(Readable, x)
        /\ \A v \in Users \ {u} : user'[v] = user[v]
        /\ stored' = stored /\ lines' = lines /\ damaged' = damaged
    <3>1. PICK s : s = Append(Readable, x)
        OBVIOUS
    <3>2. PICK id \in Nat : id = born + 1
        BY <2>7
    <3>3. "add" \in {"add", "settle", "look", "prune"} /\ Begins(u, "add", id, s)
        BY <2>7, <3>1, <3>2
    <3>4. /\ user'[u].id = id /\ list'[u] = s
          /\ \A v \in Users \ {u} : user'[v] = user[v]
          /\ stored' = stored /\ lines' = lines /\ damaged' = damaged
        BY <3>3, BeginsEffect
    <3>5. QED
        BY <3>1, <3>2, <3>4
  <2>9. bad \subseteq bad' /\ \A n \in bad' : n \in bad \/ n = born + 1
      BY <2>2
  <2>10. /\ Readable = Only(lines, {r \in Range(lines) : r.id \notin bad'})
         /\ Only(stored, Range(stored) \ bad) = Only(stored, Range(stored) \ bad')
      BY <1>2, <2>9, JournalReads
  <2>11. Readable' = Readable
    <3>1. Readable' = Only(lines', {r \in Range(lines') : r.id \notin bad'})
        BY <1>1, <1>2 DEF Readable, Documents
    <3>2. QED
        BY <2>8, <2>10, <3>1
  <2>12. \A v \in Users : user'[v] # Free => v = u
      BY <2>3, <2>8 DEF AllFree
  <2>13. QED
      BY <1>3, <2>1, <2>8, <2>10, <2>11, <2>12
<1>5. CASE Replace(u)
  <2>1. /\ lines' = list[u] /\ bad' = bad /\ Done(u) /\ user[u] # Free /\ mixed' = mixed
      BY <1>5 DEF Replace, Free
  <2>2. /\ user' = [user EXCEPT ![u] = Free] /\ list' = [list EXCEPT ![u] = <<>>]
        /\ stored' = StoredAfter(u)
      BY <2>1, DoneEffect
  <2>3. \A v \in Users : user'[v] = Free
      BY <1>3, <2>1, DoneTurns DEF AllFree, Busy
  <2>4. user[u].op = "add" /\ user[u].id \in 1 .. born /\ stored \in Seq(1 .. born)
      BY <1>2, <2>1 DEF Consistent, Busy, RecTypeOK
  <2>5. PICK id \in 1 .. born : id = user[u].id
      BY <2>4
  <2>6. PICK x : x = [id |-> id, open |-> TRUE]
      OBVIOUS
  <2>7. x \in Records /\ x.id = id
      BY <1>3, <2>6 DEF Records
  <2>8. lines' = Append(Readable, x) /\ stored' = Append(stored, id)
      BY <1>3, <2>1, <2>2, <2>4, <2>5, <2>6 DEF StoredAfter
  <2>9. PICK t : t = Append(Readable, x)
      OBVIOUS
  <2>10. PICK q : q = Append(stored, id)
      OBVIOUS
  <2>11. /\ t \in Seq(Records) /\ q \in Seq(1 .. born)
         /\ Range(t) = Range(Readable) \cup {x} /\ Range(q) = Range(stored) \cup {id}
    <3>1. /\ t \in Seq(Records) /\ Len(t) = Len(Readable) + 1 /\ Len(Readable) \in Nat
          /\ \A i \in 1 .. Len(Readable) : t[i] = Readable[i]
          /\ t[Len(Readable) + 1] = x
        BY <1>3, <2>7, <2>9, AppendProperties
    <3>2. /\ q \in Seq(1 .. born) /\ Len(q) = Len(stored) + 1 /\ Len(stored) \in Nat
          /\ \A i \in 1 .. Len(stored) : q[i] = stored[i]
          /\ q[Len(stored) + 1] = id
        BY <2>4, <2>10, AppendProperties
    <3>3. /\ DOMAIN t = 1 .. (Len(Readable) + 1) /\ DOMAIN Readable = 1 .. Len(Readable)
          /\ DOMAIN q = 1 .. (Len(stored) + 1) /\ DOMAIN stored = 1 .. Len(stored)
        BY <1>3, <2>4, <3>1, <3>2
    <3>4. /\ \A i \in 1 .. (Len(Readable) + 1) : i \in 1 .. Len(Readable) \/ i = Len(Readable) + 1
          /\ \A i \in 1 .. (Len(stored) + 1) : i \in 1 .. Len(stored) \/ i = Len(stored) + 1
          /\ \A i \in 1 .. Len(Readable) : i \in 1 .. (Len(Readable) + 1)
          /\ \A i \in 1 .. Len(stored) : i \in 1 .. (Len(stored) + 1)
          /\ Len(Readable) + 1 \in 1 .. (Len(Readable) + 1) /\ Len(stored) + 1 \in 1 .. (Len(stored) + 1)
        BY <3>1, <3>2
    <3>5. Range(t) = Range(Readable) \cup {x}
        BY <3>1, <3>3, <3>4 DEF Range
    <3>6. Range(q) = Range(stored) \cup {id}
        BY <3>2, <3>3, <3>4 DEF Range
    <3>7. QED
        BY <3>1, <3>2, <3>5, <3>6
  <2> DEFINE good == {r \in Range(t) : r.id \notin bad}
  <2>12. Readable' = Only(t, good)
    <3>1. Readable' = Only(lines', {r \in Range(lines') : r.id \notin bad'})
        BY <1>1, <1>2 DEF Readable, Documents
    <3>2. QED
        BY <2>1, <2>8, <2>9, <3>1
  <2>13. \A r \in Range(Readable) : r \in good
      BY <1>3, <2>11
  <2>14. x \in good <=> id \notin bad
      BY <2>7, <2>11
  <2> HIDE DEF good
  <2>15. Only(Readable, good) = Readable
    <3>1. \A k \in DOMAIN Readable : Readable[k] \in Range(Readable)
        BY DEF Range
    <3>2. \A k \in DOMAIN Readable : Readable[k] \in good
        BY <2>13, <3>1
    <3>3. QED
        BY <1>3, <3>2, OnlyOfAll
  <2>16. Readable' = IF id \notin bad THEN Append(Readable, x) ELSE Readable
      BY <1>3, <2>7, <2>9, <2>12, <2>14, <2>15, OnlyAppended
  <2>17. Only(q, Range(q) \ bad) =
           IF id \notin bad THEN Append(Only(stored, Range(stored) \ bad), id)
           ELSE Only(stored, Range(stored) \ bad)
    <3>1. Only(q, Range(q) \ bad) =
            IF id \in Range(q) \ bad THEN Append(Only(stored, Range(q) \ bad), id)
            ELSE Only(stored, Range(q) \ bad)
      <4>1. PICK some : some = Range(q) \ bad
          OBVIOUS
      <4>2. PICK T : T = 1 .. born
          OBVIOUS
      <4>3. PICK s \in Seq(T) : s = stored
          BY <2>4, <4>2
      <4>4. id \in T
          BY <4>2
      <4>5. Only(Append(s, id), some) =
              IF id \in some THEN Append(Only(s, some), id) ELSE Only(s, some)
          BY <4>4, OnlyAppended
      <4>6. QED
          BY <2>10, <4>1, <4>3, <4>5
    <3>2. \A y \in Range(stored) : y \in Range(stored) \ bad <=> y \in Range(q) \ bad
        BY <2>11
    <3>3. Only(stored, Range(stored) \ bad) = Only(stored, Range(q) \ bad)
        BY <2>4, <3>2, OnlyAlike
    <3>4. QED
        BY <2>11, <3>1, <3>3
  <2>18. RecordIds(Append(Readable, x)) = Append(RecordIds(Readable), id)
      BY <1>3, <2>7, RecordIdsAppended
  <2>19. RecordIds(Readable') = Only(q, Range(q) \ bad)
      BY <1>3, <2>16, <2>17, <2>18
  <2>20. QED
      BY <2>1, <2>3, <2>8, <2>10, <2>19
<1>6. CASE Die(u)
  <2>1. user[u].at # "fill"
      BY <1>2 DEF Consistent
  <2>2. /\ lines' = lines /\ damaged' = damaged /\ stored' = stored /\ bad' = bad
        /\ user' = [user EXCEPT ![u] = Free] /\ list' = [list EXCEPT ![u] = <<>>]
      BY <1>6, <2>1 DEF Die
  <2>3. /\ user'[u] = Free
        /\ \A v \in Users \ {u} : user'[v] = user[v]
        /\ \A v \in Users \ {u} : list'[v] = list[v]
      BY <2>2, FreeEffect
  <2>4. Readable' = Readable
      BY <1>1, <2>2 DEF Readable
  <2>5. QED
      BY <1>3, <2>2, <2>3, <2>4
<1>7. CASE Settle(u) \/ Prune(u) \/ Clear(u) \/ Truncate(u) \/ Fill(u)
  <2>1. ~ Settle(u)
      BY <1>2, SettleEffect DEF Documents
  <2>2. ~ Prune(u) /\ ~ Clear(u) /\ ~ Truncate(u)
      BY <1>2 DEF Prune, Clear, Truncate
  <2>3. ~ Fill(u)
      BY <1>2 DEF Fill, Consistent
  <2>4. QED
      BY <1>7, <2>1, <2>2, <2>3
<1>8. QED
    BY <1>4, <1>5, <1>6, <1>7

\* What a store that is not a journal should have, as a list of numbers.
Due(sto) == IF kind = "queue" THEN sto ELSE Newest(sto, long)

LEMMA DueDistinct ==
    ASSUME NEW T, NEW sto \in Seq(T), \A i, j \in DOMAIN sto : sto[i] = sto[j] => i = j,
           NEW s \in Seq(Records), RecordIds(s) = Due(sto)
    PROVE  \A i, j \in DOMAIN s : s[i].id = s[j].id => i = j
<1>1. PICK d \in 0 .. Len(sto) : Due(sto) = End(sto, d)
  <2>1. CASE kind = "queue"
    <3>1. 0 \in 0 .. Len(sto) /\ End(sto, 0) = sto
      <4>1. Len(sto) \in Nat /\ 0 + 1 = 1
          OBVIOUS
      <4>2. QED
          BY <4>1, SubSeqFull DEF End
    <3>2. QED
        BY <2>1, <3>1 DEF Due
  <2>2. CASE kind # "queue"
      BY <2>2, EvictedLeast DEF Due, Newest
  <2>3. QED
      BY <2>1, <2>2
<1> DEFINE n == Len(sto)
           m == Len(sto) - d
<1>2. /\ n \in Nat /\ m \in Nat /\ d \in Nat /\ m + d = n
      /\ DOMAIN Due(sto) = 1 .. m /\ \A i \in 1 .. m : Due(sto)[i] = sto[i + d]
  <2>1. End(sto, d) \in Seq(T) /\ Len(End(sto, d)) = m /\ \A i \in 1 .. m : End(sto, d)[i] = sto[i + d]
      BY EndIs
  <2>2. QED
      BY <1>1, <2>1
<1>3. DOMAIN RecordIds(s) = DOMAIN s /\ \A i \in DOMAIN s : RecordIds(s)[i] = s[i].id
    BY DEF RecordIds
<1>4. DOMAIN sto = 1 .. n
    OBVIOUS
<1> HIDE DEF n, m
<1>5. SUFFICES ASSUME NEW i \in DOMAIN s, NEW j \in DOMAIN s, s[i].id = s[j].id PROVE i = j
    OBVIOUS
<1>6. /\ i \in 1 .. m /\ j \in 1 .. m
      /\ sto[i + d] = sto[j + d]
    BY <1>2, <1>3, <1>5
<1>7. i + d \in DOMAIN sto /\ j + d \in DOMAIN sto
    BY <1>2, <1>4, <1>6
<1>8. i + d = j + d
    BY <1>6, <1>7
<1>9. QED
    BY <1>2, <1>6, <1>8

LEMMA AddedIds ==
    ASSUME NEW s \in Seq(Records), NEW T, NEW sto \in Seq(T), NEW x \in Records, x.id \in T,
           kind \in AllKinds, kind # "journal", IsFiniteSet(long), RecordIds(s) = Due(sto)
    PROVE  RecordIds(Kept(Append(s, x))) = Due(Append(sto, x.id))
<1>1. CASE kind = "queue"
  <2>1. Append(s, x) \in Seq(Records)
      BY AppendProperties
  <2>2. Kept(Append(s, x)) = Append(s, x)
      BY <1>1, <2>1, KeptTypes
  <2>3. RecordIds(Append(s, x)) = Append(RecordIds(s), x.id)
      BY RecordIdsAppended
  <2>4. QED
      BY <1>1, <2>2, <2>3 DEF Due
<1>2. CASE kind # "queue"
  <2>1. kind \in Capped
      BY <1>2 DEF Capped
  <2>2. PICK id \in Nat : id = x.id
      BY DEF Records
  <2>3. RecordIds(s) = Newest(sto, long) /\ id \in T
      BY <1>2, <2>2 DEF Due
  <2>4. RecordIds(Kept(Append(s, x))) = Newest(Append(sto, id), long)
      BY <2>1, <2>2, <2>3, KeptIds
  <2>5. QED
      BY <1>2, <2>2, <2>4 DEF Due
<1>3. QED
    BY <1>1, <1>2

LEMMA StoreStep ==
    ASSUME RecTypeOK, Consistent, TakingTurns, StoreComplete, NEW u \in Users,
           \/ Add(u) \/ Settle(u) \/ Prune(u) \/ Clear(u)
           \/ Truncate(u) \/ Fill(u) \/ Replace(u) \/ Die(u)
    PROVE  StoreComplete'
<1>1. kind' = kind /\ long' = long /\ (mixed => mixed')
    BY StoreStays
<1>2. Calm' => /\ Calm /\ bad = {} /\ ~ pruned /\ deaths = 0 /\ ~ mixed /\ kind # "journal"
               /\ pruned' = pruned /\ deaths' = deaths /\ bad' = {} /\ ~ mixed'
  <2>1. deaths \in Nat
      BY DEF RecTypeOK
  <2>2. CASE Die(u)
    <3>1. deaths' = deaths + 1
        BY <2>2 DEF Die
    <3>2. QED
        BY <2>1, <3>1 DEF Calm
  <2>3. CASE Prune(u)
    <3>1. pruned' = TRUE
        BY <2>3 DEF Prune
    <3>2. QED
        BY <3>1 DEF Calm
  <2>4. CASE ~ Die(u) /\ ~ Prune(u)
    <3>1. deaths' = deaths /\ pruned' = pruned /\ bad \subseteq bad'
      <4>1. CASE Add(u)
          BY <4>1, AddEffect DEF Begins
      <4>2. CASE Settle(u)
          BY <4>2, SettleEffect DEF Begins
      <4>3. CASE Clear(u) \/ Truncate(u) \/ Fill(u) \/ Replace(u)
          BY <4>3 DEF Clear, Truncate, Fill, Replace
      <4>4. QED
          BY <2>4, <4>1, <4>2, <4>3
    <3>2. QED
        BY <1>1, <3>1 DEF Calm
  <2>5. QED
      BY <2>2, <2>3, <2>4
<1>3. SUFFICES ASSUME Calm'
               PROVE  /\ AllFree' => /\ ~ damaged'
                                     /\ RecordIds(lines') = Due(stored')
                                     /\ \A r \in Range(lines') : r.open <=> r.id \notin settled'
                      /\ \A v \in Users : user'[v] # Free =>
                           /\ RecordIds(list'[v]) = Due(StoredAfter(v)')
                           /\ \A r \in Range(list'[v]) : r.open <=> r.id \notin SettledAfter(v)'
                           /\ user'[v].at = "fill" => lines' = <<>>
    BY <1>1 DEF StoreComplete, Holds, RecordIds, Due, Busy
<1>4. /\ AllFree => /\ ~ damaged
                    /\ RecordIds(lines) = Due(stored)
                    /\ \A r \in Range(lines) : r.open <=> r.id \notin settled
      /\ \A v \in Users : user[v] # Free =>
           /\ RecordIds(list[v]) = Due(StoredAfter(v))
           /\ \A r \in Range(list[v]) : r.open <=> r.id \notin SettledAfter(v)
           /\ user[v].at = "fill" => lines = <<>>
    BY <1>2, <1>3 DEF StoreComplete, Holds, Due, Busy
<1>5. /\ kind \in AllKinds /\ kind # "journal" /\ ~ pruned /\ ~ mixed /\ ~ mixed' /\ bad = {}
      /\ born \in Nat /\ stored \in Seq(1 .. born) /\ settled \subseteq 1 .. born
      /\ lines \in Seq(Records) /\ IsFiniteSet(long)
    BY <1>2, <1>3 DEF RecTypeOK
\* A change that begins finds the store free, and writes what should be there when it is done.
<1>6. ASSUME NEW what \in {"add", "settle", "look"}, NEW id \in Nat, NEW s, Begins(u, what, id, s),
             AllFree,
             RecordIds(s) = Due(IF what = "add" THEN Append(stored, id) ELSE stored),
             \A r \in Range(s) :
                r.open <=> r.id \notin (IF what = "settle" THEN settled \cup {id} ELSE settled)
      PROVE  /\ AllFree' => /\ ~ damaged'
                            /\ RecordIds(lines') = Due(stored')
                            /\ \A r \in Range(lines') : r.open <=> r.id \notin settled'
             /\ \A v \in Users : user'[v] # Free =>
                  /\ RecordIds(list'[v]) = Due(StoredAfter(v)')
                  /\ \A r \in Range(list'[v]) : r.open <=> r.id \notin SettledAfter(v)'
                  /\ user'[v].at = "fill" => lines' = <<>>
  <2>1. what \in {"add", "settle", "look", "prune"}
      OBVIOUS
  <2>2. /\ user'[u] # Free /\ user'[u].at = "write" /\ user'[u].op = what /\ user'[u].id = id
        /\ \A v \in Users \ {u} : user'[v] = user[v]
        /\ list'[u] = s /\ stored' = stored /\ settled' = settled
      BY <1>6, <2>1, BeginsEffect
  <2>3. ~ AllFree'
      BY <2>2 DEF AllFree
  <2>4. \A v \in Users : user'[v] # Free => v = u
      BY <1>6, <2>2 DEF AllFree
  <2>5. /\ StoredAfter(u)' = (IF what = "add" THEN Append(stored, id) ELSE stored)
        /\ SettledAfter(u)' = (IF what = "settle" THEN settled \cup {id} ELSE settled)
      BY <2>2 DEF StoredAfter, SettledAfter
  <2>6. QED
      BY <1>6, <2>2, <2>3, <2>4, <2>5
<1>7. AllFree => Readable = lines
    BY <1>4, <1>5, ReadableTypes
<1>8. CASE Add(u)
  <2>1. PICK x : x = [id |-> born + 1, open |-> TRUE]
      OBVIOUS
  <2>2. /\ Begins(u, "add", born + 1, Kept(Append(Readable, x)))
      BY <1>8, <2>1, AddEffect
  <2>3. AllFree
      BY <1>5, <1>8, AddTurns
  <2>4. x \in Records /\ x.id = born + 1 /\ x.open
      BY <1>5, <2>1 DEF Records
  <2>5. Readable = lines /\ RecordIds(lines) = Due(stored)
      BY <1>4, <1>7, <2>3
  <2>6. RecordIds(Kept(Append(lines, x))) = Due(Append(stored, born + 1))
    <3>1. stored \in Seq(Nat) /\ born + 1 \in Nat
      <4>1. 1 .. born \subseteq Nat
          BY <1>5
      <4>2. QED
          BY <1>5, <4>1, SeqMonotonic
    <3>2. QED
        BY <1>5, <2>4, <2>5, <3>1, AddedIds
  <2>7. \A r \in Range(Kept(Append(lines, x))) : r.open <=> r.id \notin settled
    <3>1. /\ Append(lines, x) \in Seq(Records) /\ Len(Append(lines, x)) = Len(lines) + 1
          /\ \A i \in 1 .. Len(lines) : Append(lines, x)[i] = lines[i]
          /\ Append(lines, x)[Len(lines) + 1] = x /\ Len(lines) \in Nat
        BY <1>5, <2>4, AppendProperties
    <3>2. \A r \in Range(Kept(Append(lines, x))) : r \in Range(Append(lines, x))
        BY <3>1, KeptTypes
    <3>3. \A r \in Range(Append(lines, x)) : r \in Range(lines) \/ r = x
      <4>1. DOMAIN Append(lines, x) = 1 .. (Len(lines) + 1) /\ DOMAIN lines = 1 .. Len(lines)
          BY <1>5, <3>1
      <4>2. \A i \in 1 .. (Len(lines) + 1) : i \in 1 .. Len(lines) \/ i = Len(lines) + 1
          BY <3>1
      <4>3. QED
          BY <3>1, <4>1, <4>2 DEF Range
    <3>4. born + 1 \notin settled
        BY <1>5
    <3>5. QED
        BY <1>4, <2>3, <2>4, <3>2, <3>3, <3>4
  <2>8. PICK s : s = Kept(Append(lines, x))
      OBVIOUS
  <2>9. "add" \in {"add", "settle", "look"} /\ born + 1 \in Nat /\ Begins(u, "add", born + 1, s)
      BY <1>5, <2>2, <2>5, <2>8
  <2>10. QED
      BY <1>6, <2>3, <2>6, <2>7, <2>8, <2>9
<1>9. CASE Settle(u)
  <2>1. AllFree
      BY <1>5, <1>9, SettleTurns
  <2>2. Readable = lines /\ RecordIds(lines) = Due(stored)
        /\ \A r \in Range(lines) : r.open <=> r.id \notin settled
      BY <1>4, <1>7, <2>1
  <2>3. \/ \E i \in DOMAIN Readable :
             Begins(u, "settle", Readable[i].id, [Readable EXCEPT ![i].open = FALSE])
        \/ Begins(u, "look", 0, Readable)
      BY <1>9, SettleEffect
  <2>4. CASE Begins(u, "look", 0, Readable)
    <3>1. "look" \in {"add", "settle", "look"} /\ 0 \in Nat /\ "look" # "add" /\ "look" # "settle"
        OBVIOUS
    <3>2. PICK s : s = Readable
        OBVIOUS
    <3>3. QED
        BY <1>6, <2>1, <2>2, <2>4, <3>1, <3>2
  <2>5. ASSUME NEW i \in DOMAIN Readable,
               Begins(u, "settle", Readable[i].id, [Readable EXCEPT ![i].open = FALSE])
        PROVE  /\ AllFree' => /\ ~ damaged'
                              /\ RecordIds(lines') = Due(stored')
                              /\ \A r \in Range(lines') : r.open <=> r.id \notin settled'
               /\ \A v \in Users : user'[v] # Free =>
                    /\ RecordIds(list'[v]) = Due(StoredAfter(v)')
                    /\ \A r \in Range(list'[v]) : r.open <=> r.id \notin SettledAfter(v)'
                    /\ user'[v].at = "fill" => lines' = <<>>
    <3>1. PICK s : s = [Readable EXCEPT ![i].open = FALSE]
        OBVIOUS
    <3>2. /\ Readable[i].id \in 1 .. born /\ s \in Seq(Records)
          /\ Len(s) = Len(Readable) /\ s[i].id = Readable[i].id /\ ~ s[i].open
          /\ \A j \in DOMAIN Readable \ {i} : s[j] = Readable[j]
        BY <1>5, <3>1, SettledTypes DEF RecordsOf
    <3>3. DOMAIN s = DOMAIN lines /\ DOMAIN lines = 1 .. Len(lines)
        BY <1>5, <2>2, <3>2
    <3>4. PICK id \in Nat : id = lines[i].id
        BY <1>5, <2>2, <3>2
    <3>5. \A j \in DOMAIN lines : s[j].id = lines[j].id /\ (j # i => s[j] = lines[j])
        BY <2>2, <3>2
    <3>6. RecordIds(s) = RecordIds(lines)
        BY <3>3, <3>5 DEF RecordIds
    <3>7. \A j, k \in DOMAIN lines : lines[j].id = lines[k].id => j = k
      <4>1. \A j, k \in DOMAIN stored : stored[j] = stored[k] => j = k
          BY <1>5 DEF TakingTurns
      <4>2. QED
          BY <1>5, <2>2, <4>1, DueDistinct
    <3>8. \A r \in Range(s) : r.open <=> r.id \notin settled \cup {id}
      <4>1. ASSUME NEW j \in DOMAIN s PROVE s[j].open <=> s[j].id \notin settled \cup {id}
        <5>1. CASE j = i
            BY <2>2, <3>2, <3>4, <5>1
        <5>2. CASE j # i
          <6>1. j \in DOMAIN lines /\ i \in DOMAIN lines /\ s[j] = lines[j]
              BY <2>2, <2>5, <3>3, <3>5, <5>2
          <6>2. lines[j].id # id
              BY <3>4, <3>7, <5>2, <6>1
          <6>3. lines[j].open <=> lines[j].id \notin settled
              BY <2>2, <6>1 DEF Range
          <6>4. QED
              BY <6>1, <6>2, <6>3
        <5>3. QED
            BY <5>1, <5>2
      <4>2. QED
          BY <4>1 DEF Range
    <3>9. Begins(u, "settle", id, s) /\ "settle" \in {"add", "settle", "look"} /\ "settle" # "add"
        BY <2>2, <2>5, <3>1, <3>4
    <3>10. QED
        BY <1>6, <2>1, <2>2, <3>6, <3>8, <3>9
  <2>6. QED
      BY <2>3, <2>4, <2>5
<1>10. CASE Clear(u)
  <2>1. /\ lines' = <<>> /\ damaged' = FALSE /\ stored' = <<>> /\ user' = user
        /\ mixed' = (mixed \/ \E v \in Users : user[v] # Free)
      BY <1>10 DEF Clear
  <2>2. \A v \in Users : user'[v] = Free
      BY <1>5, <2>1
  <2>3. Range(<<>>) = {} /\ RecordIds(<<>>) = <<>>
      BY DEF Range, RecordIds
  <2>4. Due(<<>>) = <<>>
    BY NothingNewest DEF Due
  <2>5. QED
      BY <2>1, <2>2, <2>3, <2>4
<1>11. CASE Truncate(u)
  <2>1. /\ lines' = <<>> /\ user'[u].op = user[u].op /\ user'[u].id = user[u].id
        /\ user'[u] # Free /\ user[u] # Free
        /\ \A v \in Users \ {u} : user'[v] = user[v]
        /\ list' = list /\ stored' = stored /\ settled' = settled
      BY <1>11, TruncateEffect
  <2>2. ~ AllFree'
      BY <2>1 DEF AllFree
  <2>3. \A v \in Users : user'[v] # Free => user[v] # Free
      BY <2>1
  <2>4. \A v \in Users : StoredAfter(v)' = StoredAfter(v) /\ SettledAfter(v)' = SettledAfter(v)
    <3>1. \A v \in Users : user'[v].op = user[v].op /\ user'[v].id = user[v].id
        BY <2>1
    <3>2. QED
        BY <2>1, <3>1 DEF StoredAfter, SettledAfter
  <2>5. QED
      BY <1>4, <2>1, <2>2, <2>3, <2>4
<1>12. CASE Fill(u)
  <2>1. /\ lines' = list[u] /\ Done(u) /\ user[u] # Free /\ mixed' = mixed /\ user[u].at = "fill"
        /\ damaged' \in (IF lines = <<>> THEN {FALSE} ELSE BOOLEAN)
    <3>1. user[u].at = "fill" /\ lines' = list[u] /\ Done(u) /\ mixed' = mixed
        BY <1>12 DEF Fill
    <3>2. damaged' \in (IF lines = <<>> THEN {FALSE} ELSE BOOLEAN)
        BY <1>12 DEF Fill
    <3>3. user[u] # Free
        BY <3>1 DEF Free
    <3>4. QED
        BY <3>1, <3>2, <3>3
  <2>2. stored' = StoredAfter(u) /\ settled' = SettledAfter(u)
      BY <2>1, DoneEffect
  <2>3. \A v \in Users : user'[v] = Free
      BY <1>5, <2>1, DoneTurns DEF AllFree, Busy
  <2>4. lines = <<>>
      BY <1>4, <2>1
  <2>5. ~ damaged'
      BY <2>1, <2>4
  <2>6. QED
      BY <1>4, <2>1, <2>2, <2>3, <2>5
<1>13. CASE Replace(u) \/ Prune(u) \/ Die(u)
  <2>1. ~ Replace(u)
      BY <1>5 DEF Replace
  <2>2. ~ Prune(u)
      BY <1>2, <1>3 DEF Prune
  <2>3. ~ Die(u)
    <3>1. Die(u) => deaths' = deaths + 1
        BY DEF Die
    <3>2. deaths \in Nat
        BY DEF RecTypeOK
    <3>3. QED
        BY <1>2, <1>3, <3>1, <3>2
  <2>4. QED
      BY <1>13, <2>1, <2>2, <2>3
<1>14. QED
    BY <1>8, <1>9, <1>10, <1>11, <1>12, <1>13

LEMMA RecInitially == RecInit => RecInductive
<1> SUFFICES ASSUME RecInit PROVE RecInductive
    OBVIOUS
<1>0. long \in SUBSET Nat /\ IsFiniteSet(long)
  <2>1. MaxRecords \in Nat /\ 1 .. MaxRecords \subseteq Nat
      BY RecordAssumption
  <2>2. IsFiniteSet(1 .. MaxRecords) /\ IsFiniteSet({})
      BY <2>1, FS_Interval, FS_EmptySet
  <2>3. long \in SUBSET (1 .. MaxRecords) \/ long = {}
      BY DEF RecInit
  <2>4. QED
      BY <2>1, <2>2, <2>3, FS_Subset
<1>1. /\ kind \in AllKinds /\ lines = <<>> /\ damaged = FALSE
      /\ user = [u \in Users |-> Free] /\ list = [u \in Users |-> <<>>]
      /\ born = 0 /\ stored = <<>> /\ settled = {} /\ bad = {}
      /\ mixed = FALSE /\ pruned = FALSE /\ changes = 0 /\ deaths = 0
    BY RecordAssumption DEF RecInit
<1>2. /\ \A u \in Users : user[u] = Free /\ list[u] = <<>>
      /\ Range(lines) = {} /\ Range(stored) = {} /\ DOMAIN lines = {}
      /\ Free.at = "idle" /\ Free.op = "none" /\ Free.id = 0
    BY <1>1 DEF Range, Free
<1>3. RecTypeOK
  <2>1. Free \in Changes
      BY DEF Free, Changes
  <2>2. user \in [Users -> Changes] /\ list \in [Users -> Seq(Records)]
        /\ list = [u \in Users |-> list[u]]
      BY <1>1, <2>1
  <2>3. lines \in Seq(Records) /\ stored \in Seq(1 .. born)
      BY <1>1
  <2>4. QED
      BY <1>0, <1>1, <2>2, <2>3 DEF RecTypeOK
<1>4. Consistent
  <2>1. \A u \in Users : ~ Busy(u)
      BY <1>2 DEF Busy
  <2>2. \A u \in Users : Range(list[u]) = {}
      BY <1>2 DEF Range
  <2>3. QED
      BY <1>1, <1>2, <2>1, <2>2 DEF Consistent
<1>5. TakingTurns
    BY <1>1, <1>2 DEF TakingTurns, Busy
<1>6. InTurn
    BY <1>1, <1>2 DEF InTurn, OpensLast
<1>7. Readable = <<>> /\ RecordIds(<<>>) = <<>> /\ Only(stored, Range(stored) \ bad) = <<>>
    BY <1>1, OnlyOfNothing DEF Readable, RecordIds
<1>8. JournalComplete
    BY <1>2, <1>7 DEF JournalComplete, Busy
<1>9. StoreComplete
  <2>1. Newest(<<>>, long) = <<>>
      BY NothingNewest
  <2>2. Holds(lines, stored, settled)
      BY <1>1, <1>2, <1>7, <2>1 DEF Holds
  <2>3. QED
      BY <1>1, <1>2, <2>2 DEF StoreComplete, Busy
<1>10. QED
    BY <1>3, <1>4, <1>5, <1>6, <1>8, <1>9 DEF RecInductive

LEMMA RecInductiveStep == RecInductive /\ [RecNext]_recVars => RecInductive'
<1> SUFFICES ASSUME RecInductive, [RecNext]_recVars PROVE RecInductive'
    OBVIOUS
<1>1. RecTypeOK /\ Consistent /\ TakingTurns /\ InTurn /\ JournalComplete /\ StoreComplete
    BY DEF RecInductive
<1>2. CASE RecNext
  <2>1. PICK u \in Users : \/ Add(u) \/ Settle(u) \/ Prune(u) \/ Clear(u)
                           \/ Truncate(u) \/ Fill(u) \/ Replace(u) \/ Die(u)
      BY <1>2 DEF RecNext
  <2>2. RecTypeOK' /\ Consistent'
      BY <1>1, <2>1, TypesStep
  <2>3. TakingTurns'
      BY <1>1, <2>1, TurnsStep
  <2>4. InTurn'
      BY <1>1, <2>1, InTurnStep
  <2>5. JournalComplete'
      BY <1>1, <2>1, JournalStep
  <2>6. StoreComplete'
      BY <1>1, <2>1, StoreStep
  <2>7. QED
      BY <2>2, <2>3, <2>4, <2>5, <2>6 DEF RecInductive
<1>3. CASE UNCHANGED recVars
  <2> USE <1>3 DEF recVars
  <2>1. RecTypeOK'
      BY <1>1 DEF RecTypeOK
  <2>2. Consistent'
      BY <1>1 DEF Consistent, Busy
  <2>3. TakingTurns'
      BY <1>1 DEF TakingTurns, Busy
  <2>4. InTurn'
      BY <1>1 DEF InTurn, OpensLast
  <2>5. Readable' = Readable
      BY DEF Readable
  <2>6. JournalComplete'
      BY <1>1, <2>5 DEF JournalComplete, Busy, RecordIds
  <2>7. StoreComplete'
    <3>1. \A v \in Users : StoredAfter(v)' = StoredAfter(v) /\ SettledAfter(v)' = SettledAfter(v)
        BY DEF StoredAfter, SettledAfter
    <3>2. QED
        BY <1>1, <3>1 DEF StoreComplete, Calm, AllFree, Busy, Holds, RecordIds
  <2>8. QED
      BY <2>1, <2>2, <2>3, <2>4, <2>6, <2>7 DEF RecInductive
<1>4. QED
    BY <1>2, <1>3

\* In every state of a record file the inductive invariant holds.
THEOREM RecordsInvariant == RecSpec => []RecInductive
<1>1. QED
    BY RecInitially, RecInductiveStep, PTL DEF RecSpec

LEMMA KeptThen == RecInductive => KeepsWhatItWasGiven
<1> SUFFICES ASSUME RecInductive PROVE KeepsWhatItWasGiven
    OBVIOUS
<1>1. RecTypeOK /\ Consistent /\ TakingTurns /\ InTurn /\ JournalComplete /\ StoreComplete
    BY DEF RecInductive
<1>2. ASSUME ~ mixed, kind = "journal"
      PROVE  RecordIds(Readable) = Only(stored, Range(stored) \ bad)
    BY <1>1, <1>2 DEF JournalComplete
<1>3. ASSUME ~ mixed, \A u \in Users : user[u] = Free,
             kind # "journal", deaths = 0, bad = {}, ~ pruned
      PROVE  /\ RecordIds(Readable) = IF kind = "queue" THEN stored ELSE Newest(stored, long)
             /\ \A r \in Range(Readable) : r.open <=> r.id \notin settled
  <2>1. ~ damaged /\ Holds(lines, stored, settled)
      BY <1>1, <1>3 DEF StoreComplete, Calm, AllFree
  <2>2. Readable = lines
      BY <1>1, <1>3, <2>1, ReadableTypes
  <2>3. QED
      BY <2>1, <2>2 DEF Holds
<1>4. kind = "queue" => \A i, j \in DOMAIN lines : i < j /\ lines[i].open => lines[j].open
    BY <1>1 DEF InTurn, OpensLast
<1>5. QED
    BY <1>2, <1>3, <1>4 DEF KeepsWhatItWasGiven

\* For any number of processes, records, kills and lines that cannot be read: as
\* long as processes take turns a store has what it was given and nothing else,
\* and the queue completes its tasks in the order they came in.
THEOREM GivenIsKept == RecSpec => []KeepsWhatItWasGiven
<1>1. QED
    BY RecordsInvariant, KeptThen, PTL
-----------------------------------------------------------------------------
\* What FlattenSeq makes of sequences over T is one.
LEMMA FlattenTypes ==
    ASSUME NEW T, NEW n \in Nat, NEW s, s = [i \in 1 .. n |-> s[i]], \A i \in 1 .. n : s[i] \in Seq(T)
    PROVE  FlattenSeq(s) \in Seq(T)
<1> DEFINE Flattening(f, m) ==
            f = [i \in 1 .. m |-> IF i = 1 THEN s[i] ELSE f[i - 1] \o s[i]]
<1>1. Len(s) = n
    OBVIOUS
<1>2. CASE n = 0
  <2>1. s = <<>>
      BY <1>2
  <2>2. FlattenSeq(s) = s
      BY <1>1, <1>2, Zenon DEF FlattenSeq
  <2>3. <<>> \in Seq(T)
      OBVIOUS
  <2>4. QED
      BY <2>1, <2>2, <2>3
<1>3. CASE n # 0
  <2>1. \A m \in Nat : \E f : Flattening(f, m)
    <3>1. PICK S \in SUBSET Nat : \A m \in Nat : m \in S <=> \E f : Flattening(f, m)
      <4>1. {m \in Nat : \E f : Flattening(f, m)} \in SUBSET Nat
          OBVIOUS
      <4>2. QED
        <5> HIDE DEF Flattening
        <5> QED
            BY <4>1
    <3>2. 0 \in S
      <4>1. PICK f : f = [i \in 1 .. 0 |-> <<>>]
          OBVIOUS
      <4>2. f = [i \in 1 .. 0 |-> IF i = 1 THEN s[i] ELSE f[i - 1] \o s[i]]
          BY <4>1
      <4>3. QED
          BY <3>1, <4>2
    <3>3. ASSUME NEW m \in Nat, m \in S PROVE m + 1 \in S
      <4>1. PICK g : Flattening(g, m)
        <5> HIDE DEF Flattening
        <5> QED
            BY <3>1, <3>3
      <4>2. PICK f : f = [i \in 1 .. (m + 1) |->
                            IF i = m + 1
                            THEN IF i = 1 THEN s[i] ELSE g[m] \o s[i]
                            ELSE g[i]]
          OBVIOUS
      <4>3. ASSUME NEW i \in 1 .. (m + 1)
            PROVE  f[i] = IF i = 1 THEN s[i] ELSE f[i - 1] \o s[i]
        <5>1. CASE i = m + 1 /\ i = 1
            BY <4>2, <5>1
        <5>2. CASE i = m + 1 /\ i # 1
          <6>1. i - 1 = m /\ m \in 1 .. (m + 1) /\ m # m + 1
              BY <5>2
          <6>2. f[m] = g[m]
              BY <4>2, <6>1
          <6>3. f[i] = g[m] \o s[i]
              BY <4>2, <5>2
          <6>4. QED
              BY <5>2, <6>1, <6>2, <6>3
        <5>3. CASE i # m + 1
          <6>1. i \in 1 .. m /\ f[i] = g[i]
              BY <4>2, <5>3
          <6>2. g[i] = IF i = 1 THEN s[i] ELSE g[i - 1] \o s[i]
              BY <4>1, <6>1
          <6>3. CASE i = 1
              BY <6>1, <6>2, <6>3
          <6>4. CASE i # 1
            <7>1. i - 1 \in 1 .. (m + 1) /\ i - 1 # m + 1
                BY <5>3, <6>4
            <7>2. f[i - 1] = g[i - 1]
                BY <4>2, <7>1
            <7>3. QED
                BY <6>1, <6>2, <6>4, <7>2
          <6>5. QED
              BY <6>3, <6>4
        <5>4. QED
            BY <5>1, <5>2, <5>3
      <4>4. f = [i \in 1 .. (m + 1) |-> f[i]]
          BY <4>2
      <4>5. f = [i \in 1 .. (m + 1) |-> IF i = 1 THEN s[i] ELSE f[i - 1] \o s[i]]
          BY <4>3, <4>4
      <4>6. Flattening(f, m + 1)
          BY <4>5
      <4>7. QED
        <5> HIDE DEF Flattening
        <5> QED
            BY <3>1, <4>6
    <3>4. QED
      <4> HIDE DEF Flattening
      <4> QED
          BY <3>1, <3>2, <3>3, NatIsInductive
  <2> DEFINE flatten == CHOOSE f : Flattening(f, Len(s))
  <2>2. Flattening(flatten, n)
    <3> HIDE DEF Flattening
    <3> QED
        BY <1>1, <2>1
  <2>3. FlattenSeq(s) = flatten[n]
      BY <1>1, <1>3, Zenon DEF FlattenSeq
  <2> HIDE DEF flatten
  <2>4. PICK S \in SUBSET Nat : \A m \in Nat : m \in S <=> (m \in 1 .. n => flatten[m] \in Seq(T))
    <3>1. {m \in Nat : m \in 1 .. n => flatten[m] \in Seq(T)} \in SUBSET Nat
        OBVIOUS
    <3>2. QED
        BY <3>1
  <2>5. 0 \in S
      BY <2>4
  <2>6. ASSUME NEW m \in Nat, m \in S PROVE m + 1 \in S
    <3>1. SUFFICES ASSUME m + 1 \in 1 .. n PROVE flatten[m + 1] \in Seq(T)
        BY <2>4
    <3>2. flatten[m + 1] = IF m + 1 = 1 THEN s[m + 1] ELSE flatten[(m + 1) - 1] \o s[m + 1]
        BY <2>2, <3>1
    <3>3. s[m + 1] \in Seq(T)
        BY <3>1
    <3>4. CASE m = 0
        BY <3>2, <3>3, <3>4
    <3>5. CASE m # 0
      <4>1. m \in 1 .. n /\ (m + 1) - 1 = m /\ m + 1 # 1
          BY <3>1, <3>5
      <4>2. flatten[m] \in Seq(T)
          BY <2>4, <2>6, <4>1
      <4>3. QED
          BY <3>2, <3>3, <4>1, <4>2, ConcatProperties
    <3>6. QED
        BY <3>4, <3>5
  <2>7. \A m \in Nat : m \in S
      BY <2>5, <2>6, NatIsInductive
  <2>8. n \in 1 .. n
      BY <1>3
  <2>9. QED
      BY <2>3, <2>4, <2>7, <2>8
<1>4. QED
    BY <1>2, <1>3
-----------------------------------------------------------------------------
(* EmbeddingIndex: what a build has gone through is in its batch or in the *)
(* table that it sees.                                                     *)

Places == Sources \X (1 .. MaxChunks)
Chunk == [place : Places, text : Texts]
Backends == {"none", "null", "semantic"}
Tables == [Places -> [text : Texts \cup {"none"}, by : Backends]]
Builds ==
    [at : {"idle", "look", "embed"}, force : BOOLEAN, by : Backends, fresh : SUBSET Texts,
     chunks : Seq(Chunk), next : Nat \ {0}, batch : SUBSET Chunk, own : Tables \cup {<<>>}]

IndexTypeOK ==
    /\ content \in [Sources -> Bodies]
    /\ backend \in Backends
    /\ rows \in Tables
    /\ build \in [Builders -> Builds]
    /\ latest \in Builds
    /\ rivals \in BOOLEAN

\* The chunks that a build has taken.
Passed(x) == {x.chunks[i] : i \in {j \in DOMAIN x.chunks : j < x.next}}

OnePerPlace(x) == \A c, d \in Range(x.chunks) : c.place = d.place => c = d

\* A batch is of chunks that were taken, and is stored before the next is.
BatchIsTaken(x) == x.batch \subseteq Passed(x) /\ (x.at # "embed" => x.batch = {})

\* A forced build has stored what it has taken.
ForcedStored(b) ==
    LET x == build[b]
    IN  x.force => \A c \in Passed(x) \ x.batch :
                     InTransaction(b) /\ x.own[c.place] = [text |-> c.text, by |-> x.by]

\* An incremental one finds what it has taken, and a text that is new is where the
\* build has put it.
FreshStored(b) ==
    LET x == build[b]
    IN  ~ x.force /\ ~ rivals =>
          /\ \A c \in Passed(x) \ x.batch : c.text \in x.fresh => Has(Table(b), c.text)
          /\ \A p \in Places : Table(b)[p].text \in x.fresh =>
               \E c \in Passed(x) : c.place = p /\ c.text = Table(b)[p].text

OneBuild == ~ rivals => \A b, c \in Builders : build[b] # NoBuild /\ build[c] # NoBuild => b = c

IndexInductive ==
    /\ IndexTypeOK
    /\ \A b \in Builders : /\ OnePerPlace(build[b]) /\ BatchIsTaken(build[b])
                           /\ ForcedStored(b) /\ FreshStored(b)
    /\ OneBuild
    /\ StoresWhatIsNew

\* What can be a chunk of the files as they are.
Present == {c \in Chunk : c.text = content[c.place[1]][c.place[2]]}

LEMMA ChunksArePresent == ASSUME IndexTypeOK PROVE Chunks \in Seq(Present)
<1> DEFINE Cut(f) == [i \in DOMAIN content[f] |-> [place |-> <<f, i>>, text |-> content[f][i]]]
<1>1. ASSUME NEW f \in Sources PROVE Cut(f) \in Seq(Present)
  <2>1. PICK n \in 0 .. MaxChunks : content[f] \in [1 .. n -> Texts]
      BY DEF IndexTypeOK, Bodies
  <2>2. n \in Nat /\ 1 .. n \subseteq 1 .. MaxChunks /\ DOMAIN content[f] = 1 .. n
      BY <2>1, IndexAssumption
  <2>3. ASSUME NEW i \in 1 .. n PROVE [place |-> <<f, i>>, text |-> content[f][i]] \in Present
    <3>1. <<f, i>> \in Places /\ content[f][i] \in Texts
        BY <2>1, <2>2 DEF Places
    <3>2. [place |-> <<f, i>>, text |-> content[f][i]] \in Chunk
        BY <3>1 DEF Chunk
    <3>3. QED
        BY <3>2 DEF Present
  <2>4. Cut(f) \in [1 .. n -> Present]
      BY <2>2, <2>3
  <2>5. QED
      BY <2>2, <2>4
<1>2. PICK s : s = [f \in Sources |-> Cut(f)]
    OBVIOUS
<1>3. s = [f \in 1 .. MaxSources |-> s[f]]
    BY <1>2 DEF Sources
<1>4. \A f \in 1 .. MaxSources : s[f] \in Seq(Present)
  <2> HIDE DEF Cut
  <2> QED
      BY <1>1, <1>2 DEF Sources
<1>5. MaxSources \in Nat
    BY IndexAssumption
<1>6. FlattenSeq(s) \in Seq(Present)
    BY <1>3, <1>4, <1>5, FlattenTypes
<1>7. QED
    BY <1>2, <1>6 DEF Chunks

\* A table without places is all there are then, and nothing is stored.
LEMMA TableTypes ==
    ASSUME IndexTypeOK, NEW b \in Builders
    PROVE  /\ Table(b) \in Tables
           /\ DOMAIN Table(b) = Places /\ DOMAIN rows = Places
           /\ build[b].own \in Tables => Table(b) = build[b].own
<1>1. rows \in Tables /\ build[b].own \in Tables \cup {<<>>}
    BY DEF IndexTypeOK, Builds
<1>2. \A t \in Tables : DOMAIN t = Places
    BY DEF Tables
<1>3. ASSUME <<>> \in Tables PROVE rows = <<>>
  <2>1. DOMAIN <<>> = Places /\ DOMAIN <<>> = {}
      BY <1>2, <1>3
  <2>2. Places = {}
      BY <2>1
  <2>3. rows = [p \in Places |-> rows[p]] /\ <<>> = [p \in Places |-> <<>>[p]]
      BY <1>1, <1>3 DEF Tables
  <2>4. QED
      BY <2>2, <2>3
<1>4. QED
    BY <1>1, <1>2, <1>3 DEF Table, InTransaction

LEMMA NoBuildTypes ==
    /\ NoBuild \in Builds
    /\ Passed(NoBuild) = {} /\ NoBuild.fresh = {} /\ NoBuild.batch = {} /\ NoBuild.at = "idle"
    /\ NoBuild.chunks = <<>> /\ ~ NoBuild.force /\ NoBuild.own = <<>>
    /\ OnePerPlace(NoBuild) /\ BatchIsTaken(NoBuild)
<1>1. <<>> \in Seq(Chunk) /\ Range(<<>>) = {} /\ DOMAIN <<>> = {}
    BY DEF Range
<1>2. NoBuild \in Builds
    BY <1>1 DEF NoBuild, Builds, Backends
<1>3. /\ NoBuild.fresh = {} /\ NoBuild.batch = {} /\ NoBuild.at = "idle"
      /\ NoBuild.chunks = <<>> /\ ~ NoBuild.force /\ NoBuild.own = <<>>
    BY DEF NoBuild
<1>4. Passed(NoBuild) = {}
    BY <1>1, <1>3 DEF Passed
<1>5. OnePerPlace(NoBuild) /\ BatchIsTaken(NoBuild)
    BY <1>1, <1>3, <1>4 DEF OnePerPlace, BatchIsTaken
<1>6. QED
    BY <1>2, <1>3, <1>4, <1>5

\* What holds of every builder's build.
BuildOK(b) ==
    OnePerPlace(build[b]) /\ BatchIsTaken(build[b]) /\ ForcedStored(b) /\ FreshStored(b)

\* A builder that has no build stores nothing.
LEMMA IdleOK ==
    ASSUME NEW b, build[b] = NoBuild, \A p \in Places : Table(b)[p].text \notin NoBuild.fresh
    PROVE  BuildOK(b)
<1>1. /\ Passed(NoBuild) = {} /\ ~ NoBuild.force
      /\ OnePerPlace(NoBuild) /\ BatchIsTaken(NoBuild)
    BY NoBuildTypes
<1>2. QED
    BY <1>1 DEF BuildOK, ForcedStored, FreshStored

\* What another builder does to its own build leaves a build as it was.
LEMMA BuildFrame ==
    ASSUME NEW b, BuildOK(b), build'[b] = build[b], rows' = rows, rivals => rivals'
    PROVE  BuildOK(b)'
<1>1. InTransaction(b)' = InTransaction(b) /\ Table(b)' = Table(b)
    BY DEF InTransaction, Table
<1>2. OnePerPlace(build[b])' /\ BatchIsTaken(build[b])'
    BY DEF BuildOK, OnePerPlace, BatchIsTaken, Passed
<1>3. Passed(build[b])' = Passed(build[b])
    BY DEF Passed
<1>4. ForcedStored(b)'
    BY <1>1, <1>3 DEF BuildOK, ForcedStored
<1>5. FreshStored(b)'
  <2>1. SUFFICES ASSUME ~ build[b].force, ~ rivals
                 PROVE  /\ \A c \in Passed(build[b]) \ build[b].batch :
                             c.text \in build[b].fresh => Has(Table(b), c.text)'
                        /\ \A p \in Places : Table(b)[p].text \in build[b].fresh =>
                             \E c \in Passed(build[b]) : c.place = p /\ c.text = Table(b)[p].text
      BY <1>1, <1>3 DEF FreshStored
  <2>2. \A t : Has(Table(b), t)' = Has(Table(b), t)
      BY <1>1 DEF Has
  <2>3. QED
      BY <2>1, <1>1 DEF BuildOK, FreshStored, Has
<1>6. QED
    BY <1>2, <1>4, <1>5 DEF BuildOK

\* What a step of builder b makes of its build, and that it leaves the others alone.
LEMMA BuildUpdate ==
    ASSUME IndexTypeOK, NEW b \in Builders, NEW y \in Builds, build' = [build EXCEPT ![b] = y]
    PROVE  /\ build' \in [Builders -> Builds]
           /\ build'[b] = y
           /\ \A c \in Builders \ {b} : build'[c] = build[c]
BY DEF IndexTypeOK

LEMMA BeginsOK ==
    ASSUME IndexInductive, NEW b \in Builders, BeginBuild(b)
    PROVE  IndexInductive'
<1>1. IndexTypeOK /\ StoresWhatIsNew /\ OneBuild /\ \A c \in Builders : BuildOK(c)
    BY Zenon DEF IndexInductive, BuildOK
<1>2. PICK force \in BOOLEAN :
          build' = [build EXCEPT ![b] = [NoBuild EXCEPT
             !.at = "look", !.force = force, !.by = backend, !.chunks = Chunks,
             !.fresh = {t \in Texts : ~ Has(rows, t)}]]
    BY DEF BeginBuild
<1>3. PICK x : x = [NoBuild EXCEPT !.at = "look", !.force = force, !.by = backend,
                                   !.chunks = Chunks, !.fresh = {t \in Texts : ~ Has(rows, t)}]
    OBVIOUS
<1>4. build' = [build EXCEPT ![b] = x]
    BY <1>2, <1>3
<1>5. NoBuild \in Builds /\ NoBuild.next = 1 /\ NoBuild.batch = {} /\ NoBuild.own = <<>>
    BY NoBuildTypes DEF NoBuild
<1>6. /\ x.at = "look" /\ x.force = force /\ x.chunks = Chunks /\ x.next = 1
      /\ x.batch = {} /\ x.own = <<>> /\ x.fresh = {t \in Texts : ~ Has(rows, t)}
    BY <1>3, <1>5 DEF Builds
<1>7. Chunks \in Seq(Present) /\ Chunks \in Seq(Chunk)
  <2>1. Present \subseteq Chunk
      BY DEF Present
  <2>2. QED
      BY <1>1, <2>1, ChunksArePresent
<1>8. x \in Builds
    BY <1>1, <1>3, <1>5, <1>7 DEF Builds, IndexTypeOK
<1>9. /\ build' \in [Builders -> Builds] /\ build'[b] = x
      /\ \A c \in Builders \ {b} : build'[c] = build[c]
    BY <1>1, <1>4, <1>8, BuildUpdate
<1>10. /\ rows' = rows /\ latest' = latest /\ content' = content /\ backend' = backend
       /\ rivals' = (rivals \/ \E c \in Builders : build[c] # NoBuild)
    BY DEF BeginBuild
<1>11. IndexTypeOK'
    BY <1>1, <1>9, <1>10 DEF IndexTypeOK
<1>12. Passed(x) = {}
  <2>1. \A j \in DOMAIN Chunks : ~ (j < 1)
      BY <1>7
  <2>2. QED
      BY <1>6, <2>1 DEF Passed
<1>13. BuildOK(b)'
  <2>1. OnePerPlace(x)
    <3>1. \A i \in DOMAIN Chunks : Chunks[i] \in Present
        BY <1>7
    <3>2. ASSUME NEW c \in Range(Chunks), NEW d \in Range(Chunks), c.place = d.place PROVE c = d
      <4>1. c \in Present /\ d \in Present
          BY <3>1, <3>2 DEF Range
      <4>2. c \in Chunk /\ d \in Chunk /\ c.text = d.text
          BY <3>2, <4>1 DEF Present
      <4>3. c = [place |-> c.place, text |-> c.text] /\ d = [place |-> d.place, text |-> d.text]
          BY <4>2 DEF Chunk
      <4>4. QED
          BY <3>2, <4>2, <4>3
    <3>3. QED
        BY <1>6, <3>2 DEF OnePerPlace
  <2>2. BatchIsTaken(x)
      BY <1>6 DEF BatchIsTaken
  <2>3. ForcedStored(b)'
      BY <1>9, <1>12 DEF ForcedStored
  <2>4. FreshStored(b)'
    <3>1. Table(b)' = rows /\ DOMAIN rows = Places
        BY <1>1, <1>6, <1>9, <1>10, TableTypes DEF Table, InTransaction
    <3>2. \A p \in Places : rows[p].text \notin x.fresh
        BY <1>6, <3>1 DEF Has
    <3>3. QED
        BY <1>9, <1>12, <3>1, <3>2 DEF FreshStored
  <2>5. QED
      BY <1>9, <2>1, <2>2, <2>3, <2>4 DEF BuildOK
<1>14. ASSUME NEW c \in Builders \ {b} PROVE BuildOK(c)'
    BY <1>1, <1>9, <1>10, BuildFrame
<1>15. OneBuild'
    BY <1>9, <1>10 DEF OneBuild
<1>16. StoresWhatIsNew'
    BY <1>1, <1>10 DEF StoresWhatIsNew, Has
<1>17. QED
    BY <1>11, <1>13, <1>14, <1>15, <1>16 DEF IndexInductive, BuildOK

LEMMA TakesOK ==
    ASSUME IndexInductive, NEW b \in Builders, TakeBatch(b)
    PROVE  IndexInductive'
<1>1. IndexTypeOK /\ StoresWhatIsNew /\ OneBuild /\ \A c \in Builders : BuildOK(c)
    BY DEF IndexInductive, BuildOK
<1>2. PICK x \in Builds : x = build[b]
    BY <1>1 DEF IndexTypeOK
<1>3. PICK places : places = {i \in DOMAIN x.chunks : x.next <= i /\ i < x.next + BatchSize}
    OBVIOUS
<1>4. PICK new : new = {c \in {x.chunks[i] : i \in places} : x.force \/ ~ HasIts(Table(b), c)}
    OBVIOUS
<1>5. PICK y : y = [x EXCEPT !.next = x.next + BatchSize, !.batch = new,
                             !.at = IF new = {} THEN "look" ELSE "embed"]
    OBVIOUS
<1>6. build' = [build EXCEPT ![b] = y]
    BY <1>2, <1>3, <1>4, <1>5 DEF TakeBatch
<1>7. x.chunks \in Seq(Chunk) /\ x.next \in Nat \ {0} /\ BatchSize \in Nat \ {0}
    BY IndexAssumption DEF Builds
<1>8. new \subseteq Chunk
    BY <1>3, <1>4, <1>7
<1>9. /\ y \in Builds
      /\ y.at \in {"look", "embed"}
      /\ y.next = x.next + BatchSize /\ y.batch = new /\ (y.at # "embed" => new = {})
      /\ y.chunks = x.chunks /\ y.force = x.force /\ y.by = x.by /\ y.fresh = x.fresh
      /\ y.own = x.own
  <2>1. PICK at \in {"look", "embed"} : at = IF new = {} THEN "look" ELSE "embed"
      OBVIOUS
  <2>2. PICK end \in Nat \ {0} : end = x.next + BatchSize
      BY <1>7
  <2>3. y = [x EXCEPT !.next = end, !.batch = new, !.at = at]
      BY <1>5, <2>1, <2>2
  <2>4. y \in Builds
      BY <1>8, <2>3 DEF Builds
  <2>5. /\ y.at = at /\ y.next = end /\ y.batch = new
        /\ y.chunks = x.chunks /\ y.force = x.force /\ y.by = x.by /\ y.fresh = x.fresh
        /\ y.own = x.own
      BY <2>3 DEF Builds
  <2>6. QED
      BY <2>1, <2>2, <2>4, <2>5
<1>10. /\ build' \in [Builders -> Builds] /\ build'[b] = y
       /\ \A c \in Builders \ {b} : build'[c] = build[c]
    BY <1>1, <1>6, <1>9, BuildUpdate
<1>11. /\ rows' = rows /\ latest' = latest /\ content' = content /\ backend' = backend
       /\ rivals' = rivals /\ x.at = "look"
    BY <1>2 DEF TakeBatch
<1>12. IndexTypeOK'
    BY <1>1, <1>10, <1>11 DEF IndexTypeOK
<1>13. Table(b)' = Table(b) /\ InTransaction(b)' = InTransaction(b)
    BY <1>2, <1>9, <1>10, <1>11 DEF Table, InTransaction
<1>14. BuildOK(b) /\ x.batch = {}
    BY <1>1, <1>2, <1>11 DEF BuildOK, BatchIsTaken
<1>15. /\ Passed(x) \subseteq Passed(y)
       /\ \A c \in Passed(y) : c \in Passed(x) \/ \E i \in places : c = x.chunks[i]
       /\ \A i \in places : x.chunks[i] \in Passed(y)
  <2>1. \A i \in DOMAIN x.chunks : i \in Nat /\ (i < x.next \/ x.next <= i)
      BY <1>7
  <2>2. \A i \in DOMAIN x.chunks : i < x.next => i < x.next + BatchSize
      BY <1>7
  <2>3. QED
      BY <1>3, <1>9, <2>1, <2>2 DEF Passed
<1>16. \A c \in Passed(y) \ new : c \in Passed(x) \/ (~ x.force /\ HasIts(Table(b), c))
    BY <1>4, <1>15
<1>17. BuildOK(b)'
  <2>1. OnePerPlace(y)
      BY <1>2, <1>9, <1>14 DEF BuildOK, OnePerPlace
  <2>2. BatchIsTaken(y)
      BY <1>4, <1>9, <1>15 DEF BatchIsTaken
  <2>3. ForcedStored(b)'
      BY <1>2, <1>9, <1>10, <1>13, <1>14, <1>16 DEF BuildOK, ForcedStored
  <2>4. FreshStored(b)'
    <3>1. SUFFICES ASSUME ~ x.force, ~ rivals
                   PROVE  /\ \A c \in Passed(y) \ new : c.text \in x.fresh => Has(Table(b), c.text)
                          /\ \A p \in Places : Table(b)[p].text \in x.fresh =>
                               \E c \in Passed(y) : c.place = p /\ c.text = Table(b)[p].text
      <4>1. \A t : Has(Table(b), t)' = Has(Table(b), t)
          BY <1>13 DEF Has
      <4>2. QED
          BY <1>9, <1>10, <1>11, <1>13, <4>1 DEF FreshStored, Has
    <3>2. /\ \A c \in Passed(x) : c.text \in x.fresh => Has(Table(b), c.text)
          /\ \A p \in Places : Table(b)[p].text \in x.fresh =>
               \E c \in Passed(x) : c.place = p /\ c.text = Table(b)[p].text
        BY <1>2, <1>14, <3>1 DEF BuildOK, FreshStored
    <3>3. QED
        BY <1>15, <1>16, <3>2 DEF HasIts
  <2>5. QED
      BY <1>10, <2>1, <2>2, <2>3, <2>4 DEF BuildOK
<1>18. ASSUME NEW c \in Builders \ {b} PROVE BuildOK(c)'
    BY <1>1, <1>10, <1>11, BuildFrame
<1>19. OneBuild'
  <2>1. build[b] # NoBuild
      BY <1>2, <1>11, NoBuildTypes
  <2>2. QED
      BY <1>1, <1>10, <1>11, <2>1 DEF OneBuild
<1>20. StoresWhatIsNew'
    BY <1>1, <1>11 DEF StoresWhatIsNew, Has
<1>21. QED
    BY <1>12, <1>17, <1>18, <1>19, <1>20 DEF IndexInductive, BuildOK

LEMMA StoresOK ==
    ASSUME IndexInductive, NEW b \in Builders, StoreBatch(b)
    PROVE  IndexInductive'
<1>1. IndexTypeOK /\ StoresWhatIsNew /\ OneBuild /\ \A c \in Builders : BuildOK(c)
    BY DEF IndexInductive, BuildOK
<1>2. PICK x \in Builds : x = build[b]
    BY <1>1 DEF IndexTypeOK
<1> DEFINE At(p) == {c \in x.batch : c.place = p}
<1>3. PICK new : new = [p \in DOMAIN rows |->
                          IF At(p) = {} THEN Table(b)[p]
                          ELSE [text |-> (CHOOSE c \in At(p) : TRUE).text, by |-> x.by]]
    OBVIOUS
<1>4. PICK y : y = [x EXCEPT !.at = "look", !.batch = {}, !.own = new]
    OBVIOUS
<1>5. build' = [build EXCEPT ![b] = y]
    BY <1>2, <1>3, <1>4 DEF StoreBatch
<1>6. /\ rows' = rows /\ latest' = latest /\ content' = content /\ backend' = backend
      /\ rivals' = rivals /\ x.at = "embed"
    BY <1>2 DEF StoreBatch
<1>7. /\ Table(b) \in Tables /\ DOMAIN Table(b) = Places /\ DOMAIN rows = Places
    BY <1>1, TableTypes
<1>8. BuildOK(b) /\ OnePerPlace(x) /\ x.batch \subseteq Passed(x) /\ x.batch \subseteq Chunk
    BY <1>1, <1>2 DEF BuildOK, BatchIsTaken, Builds
<1>9. x.chunks \in Seq(Chunk) /\ Passed(x) \subseteq Range(x.chunks) /\ Passed(x) \subseteq Chunk
  <2>1. x.chunks \in Seq(Chunk)
      BY DEF Builds
  <2>2. \A i \in DOMAIN x.chunks : x.chunks[i] \in Chunk
      BY <2>1
  <2>3. QED
      BY <2>1, <2>2 DEF Passed, Range
\* The batch has one chunk for a place.
<1>10. /\ DOMAIN new = Places
       /\ \A c \in x.batch : new[c.place] = [text |-> c.text, by |-> x.by]
       /\ \A p \in Places : (\A c \in x.batch : c.place # p) => new[p] = Table(b)[p]
  <2>1. ASSUME NEW c \in x.batch PROVE new[c.place] = [text |-> c.text, by |-> x.by]
    <3>1. c.place \in Places
        BY <1>8 DEF Chunk
    <3>2. c \in At(c.place)
        OBVIOUS
    <3>3. \A d \in At(c.place) : d = c
        BY <1>8, <1>9 DEF OnePerPlace
    <3>4. (CHOOSE d \in At(c.place) : TRUE) = c
      <4> HIDE DEF At
      <4> QED
          BY <3>2, <3>3
    <3>5. new[c.place] = IF At(c.place) = {} THEN Table(b)[c.place]
                         ELSE [text |-> (CHOOSE d \in At(c.place) : TRUE).text, by |-> x.by]
      <4> HIDE DEF At
      <4> QED
          BY <1>3, <1>7, <3>1
    <3>6. QED
      <4> HIDE DEF At
      <4> QED
          BY <3>2, <3>4, <3>5
  <2>2. ASSUME NEW p \in Places, \A c \in x.batch : c.place # p PROVE new[p] = Table(b)[p]
    <3>1. At(p) = {}
        BY <2>2
    <3>2. QED
      <4> HIDE DEF At
      <4> QED
          BY <1>3, <1>7, <3>1
  <2>3. DOMAIN new = Places
    <3> HIDE DEF At
    <3> QED
        BY <1>3, <1>7
  <2>4. QED
      BY <2>1, <2>2, <2>3
<1> HIDE DEF At
<1>11. ASSUME NEW c \in x.batch PROVE new[c.place].text = c.text
  <2>1. new[c.place] = [text |-> c.text, by |-> x.by]
      BY <1>10
  <2>2. QED
      BY <2>1
<1>12. new \in Tables
  <2>1. ASSUME NEW p \in Places PROVE new[p] \in [text : Texts \cup {"none"}, by : Backends]
    <3>1. CASE \A c \in x.batch : c.place # p
        BY <1>7, <1>10, <3>1 DEF Tables
    <3>2. ASSUME NEW c \in x.batch, c.place = p
          PROVE  new[p] \in [text : Texts \cup {"none"}, by : Backends]
      <4>1. c.text \in Texts /\ x.by \in Backends
          BY <1>8 DEF Chunk, Builds
      <4>2. new[p] = [text |-> c.text, by |-> x.by]
          BY <1>10, <3>2
      <4>3. QED
          BY <4>1, <4>2
    <3>3. QED
        BY <3>1, <3>2
  <2>2. new = [p \in Places |-> new[p]]
    <3>1. new = [p \in DOMAIN new |-> new[p]]
        BY <1>3
    <3>2. QED
        BY <1>10, <3>1
  <2>3. QED
      BY <2>1, <2>2 DEF Tables
<1>13. /\ y \in Builds
       /\ y.at = "look" /\ y.batch = {} /\ y.own = new
       /\ y.chunks = x.chunks /\ y.force = x.force /\ y.by = x.by /\ y.fresh = x.fresh
       /\ y.next = x.next
    BY <1>4, <1>12 DEF Builds
<1>14. /\ build' \in [Builders -> Builds] /\ build'[b] = y
       /\ \A c \in Builders \ {b} : build'[c] = build[c]
    BY <1>1, <1>5, <1>13, BuildUpdate
<1>15. IndexTypeOK'
    BY <1>1, <1>6, <1>14 DEF IndexTypeOK
<1>16. Table(b)' = new
  <2>1. build'[b].own \in Tables
      BY <1>12, <1>13, <1>14
  <2>2. CASE new = <<>>
    <3>1. <<>> \in Tables /\ rows \in Tables
        BY <1>1, <1>12, <2>2 DEF IndexTypeOK
    <3>2. DOMAIN <<>> = {}
        OBVIOUS
    <3>3. Places = {}
        BY <1>10, <2>2, <3>2
    <3>4. rows = [p \in Places |-> rows[p]] /\ <<>> = [p \in Places |-> <<>>[p]]
        BY <3>1 DEF Tables
    <3>5. rows = <<>>
        BY <3>3, <3>4
    <3>6. QED
        BY <1>6, <1>13, <1>14, <2>2, <3>5 DEF Table, InTransaction
  <2>3. CASE new # <<>>
      BY <1>13, <1>14, <2>3 DEF Table, InTransaction
  <2>4. QED
      BY <2>2, <2>3
<1>17. Passed(y) = Passed(x)
    BY <1>13 DEF Passed
<1>18. BuildOK(b)'
  <2>1. OnePerPlace(y)
      BY <1>8, <1>13 DEF OnePerPlace
  <2>2. BatchIsTaken(y)
      BY <1>13 DEF BatchIsTaken
  <2>3. ForcedStored(b)'
    <3>1. SUFFICES ASSUME x.force, NEW c \in Passed(x)
                   PROVE  new # <<>> /\ new[c.place] = [text |-> c.text, by |-> x.by]
        BY <1>13, <1>14, <1>17 DEF ForcedStored, InTransaction
    <3>2. c.place \in Places
        BY <1>9 DEF Chunk
    <3>3. new # <<>>
      <4>1. DOMAIN <<>> = {}
          OBVIOUS
      <4>2. QED
          BY <1>10, <3>2, <4>1
    <3>4. CASE c \in x.batch
        BY <1>10, <3>3, <3>4
    <3>5. CASE c \notin x.batch
      <4>1. InTransaction(b) /\ x.own[c.place] = [text |-> c.text, by |-> x.by]
          BY <1>2, <1>8, <3>1, <3>5 DEF BuildOK, ForcedStored
      <4>2. Table(b)[c.place] = [text |-> c.text, by |-> x.by]
          BY <1>2, <4>1 DEF Table
      <4>3. CASE \A d \in x.batch : d.place # c.place
          BY <1>10, <3>2, <3>3, <4>2, <4>3
      <4>4. ASSUME NEW d \in x.batch, d.place = c.place PROVE FALSE
        <5>1. d = c
            BY <1>8, <1>9, <4>4 DEF OnePerPlace
        <5>2. QED
            BY <3>5, <5>1
      <4>5. QED
          BY <4>3, <4>4
    <3>6. QED
        BY <3>4, <3>5
  <2>4. FreshStored(b)'
    <3>1. SUFFICES ASSUME ~ x.force, ~ rivals
                   PROVE  /\ \A c \in Passed(x) : c.text \in x.fresh =>
                               \E p \in Places : new[p].text = c.text
                          /\ \A p \in Places : new[p].text \in x.fresh =>
                               \E c \in Passed(x) : c.place = p /\ c.text = new[p].text
      <4>1. \A t : Has(Table(b), t)' <=> \E p \in Places : new[p].text = t
          BY <1>10, <1>16 DEF Has
      <4>2. CASE x.force \/ rivals
          BY <1>6, <1>13, <1>14, <4>2 DEF FreshStored
      <4>3. CASE ~ x.force /\ ~ rivals
        <5>1. \A c \in Passed(x) : c.text \in x.fresh => Has(Table(b), c.text)'
            BY <3>1, <4>1, <4>3
        <5>2. Passed(build[b])' = Passed(x) /\ build'[b].fresh = x.fresh
            BY <1>13, <1>14, <1>17 DEF Passed
        <5>3. QED
            BY <1>16, <3>1, <4>3, <5>1, <5>2 DEF FreshStored
      <4>4. QED
          BY <4>2, <4>3
    <3>2. /\ \A c \in Passed(x) \ x.batch : c.text \in x.fresh => Has(Table(b), c.text)
          /\ \A p \in Places : Table(b)[p].text \in x.fresh =>
               \E c \in Passed(x) : c.place = p /\ c.text = Table(b)[p].text
        BY <1>2, <1>8, <3>1 DEF BuildOK, FreshStored
    <3>3. ASSUME NEW c \in Passed(x), c.text \in x.fresh
          PROVE  \E p \in Places : new[p].text = c.text
      <4>1. CASE c \in x.batch
        <5>1. c.place \in Places
            BY <1>8, <4>1 DEF Chunk
        <5>2. QED
            BY <1>11, <4>1, <5>1
      <4>2. CASE c \notin x.batch
        <5>1. PICK p \in Places : Table(b)[p].text = c.text
            BY <1>7, <3>2, <3>3, <4>2 DEF Has
        <5>2. PICK d \in Passed(x) : d.place = p /\ d.text = c.text
            BY <3>2, <3>3, <5>1
        <5>3. CASE \A e \in x.batch : e.place # p
            BY <1>10, <5>1, <5>3
        <5>4. ASSUME NEW e \in x.batch, e.place = p PROVE new[p].text = c.text
          <6>1. e = d
              BY <1>8, <1>9, <5>2, <5>4 DEF OnePerPlace
          <6>2. QED
              BY <1>11, <5>2, <5>4, <6>1
        <5>5. QED
            BY <5>3, <5>4
      <4>3. QED
          BY <4>1, <4>2
    <3>4. ASSUME NEW p \in Places, new[p].text \in x.fresh
          PROVE  \E c \in Passed(x) : c.place = p /\ c.text = new[p].text
      <4>1. CASE \A e \in x.batch : e.place # p
          BY <1>10, <3>2, <3>4, <4>1
      <4>2. ASSUME NEW e \in x.batch, e.place = p
            PROVE  \E c \in Passed(x) : c.place = p /\ c.text = new[p].text
        <5>1. new[p].text = e.text
            BY <1>11, <4>2
        <5>2. QED
            BY <1>8, <4>2, <5>1
      <4>3. QED
          BY <4>1, <4>2
    <3>5. QED
        BY <3>3, <3>4
  <2>5. QED
      BY <1>14, <2>1, <2>2, <2>3, <2>4 DEF BuildOK
<1>19. ASSUME NEW c \in Builders \ {b} PROVE BuildOK(c)'
    BY <1>1, <1>6, <1>14, BuildFrame
<1>20. OneBuild'
  <2>1. build[b] # NoBuild
      BY <1>2, <1>6, NoBuildTypes
  <2>2. QED
      BY <1>1, <1>6, <1>14, <2>1 DEF OneBuild
<1>21. StoresWhatIsNew'
    BY <1>1, <1>6 DEF StoresWhatIsNew, Has
<1>22. QED
    BY <1>15, <1>18, <1>19, <1>20, <1>21 DEF IndexInductive, BuildOK

LEMMA CommitsOK ==
    ASSUME IndexInductive, NEW b \in Builders, Commit(b)
    PROVE  IndexInductive'
<1>1. IndexTypeOK /\ OneBuild /\ \A c \in Builders : BuildOK(c)
    BY DEF IndexInductive, BuildOK
<1>2. PICK x \in Builds : x = build[b]
    BY <1>1 DEF IndexTypeOK
<1>3. /\ rows' = Table(b) /\ latest' = x /\ content' = content /\ backend' = backend
      /\ rivals' = rivals /\ build' = [build EXCEPT ![b] = NoBuild]
      /\ x.at = "look" /\ x.next > Len(x.chunks) /\ MayWrite(b)
    BY <1>2 DEF Commit
<1>4. /\ Table(b) \in Tables /\ DOMAIN Table(b) = Places
    BY <1>1, TableTypes
<1>5. /\ build' \in [Builders -> Builds] /\ build'[b] = NoBuild
      /\ \A c \in Builders \ {b} : build'[c] = build[c]
    BY <1>1, <1>3, NoBuildTypes, BuildUpdate
<1>6. IndexTypeOK'
    BY <1>1, <1>3, <1>4, <1>5 DEF IndexTypeOK
<1>7. BuildOK(b)'
  <2>1. \A p \in Places : Table(b)'[p].text \notin NoBuild.fresh
      BY NoBuildTypes
  <2>2. Passed(NoBuild) = {} /\ ~ NoBuild.force /\ OnePerPlace(NoBuild) /\ BatchIsTaken(NoBuild)
      BY NoBuildTypes
  <2>3. QED
      BY <1>5, <2>1, <2>2 DEF BuildOK, ForcedStored, FreshStored
<1>8. x # NoBuild
    BY <1>3, NoBuildTypes
<1>9. ASSUME NEW c \in Builders \ {b} PROVE BuildOK(c)'
  <2>1. ~ InTransaction(c) /\ InTransaction(c)' = InTransaction(c) /\ BuildOK(c)
      BY <1>1, <1>3, <1>5 DEF MayWrite, InTransaction
  <2>2. OnePerPlace(build[c])' /\ BatchIsTaken(build[c])'
      BY <1>5, <2>1 DEF BuildOK, OnePerPlace, BatchIsTaken, Passed
  <2>3. Passed(build[c])' = Passed(build[c])
      BY <1>5 DEF Passed
  <2>4. ForcedStored(c)'
      BY <1>5, <2>1, <2>3 DEF BuildOK, ForcedStored
  <2>5. FreshStored(c)'
    <3>1. CASE rivals
        BY <1>3, <3>1 DEF FreshStored
    <3>2. CASE ~ rivals
      <4>1. build'[c] = NoBuild
          BY <1>1, <1>2, <1>5, <1>8, <3>2 DEF OneBuild
      <4>2. QED
          BY <4>1, NoBuildTypes DEF FreshStored
    <3>3. QED
        BY <3>1, <3>2
  <2>6. QED
      BY <2>2, <2>4, <2>5 DEF BuildOK
<1>10. OneBuild'
    BY <1>1, <1>3, <1>5 DEF OneBuild
<1>11. StoresWhatIsNew'
  <2>1. SUFFICES ASSUME NEW c \in Range(x.chunks)
                 PROVE  IF x.force THEN rows'[c.place] = [text |-> c.text, by |-> x.by]
                        ELSE c.text \in x.fresh => rivals \/ Has(rows, c.text)'
      BY <1>3 DEF StoresWhatIsNew, Has
  <2>2. c \in Passed(x)
    <3>1. x.chunks \in Seq(Chunk) /\ x.next \in Nat
        BY DEF Builds
    <3>2. PICK i \in DOMAIN x.chunks : c = x.chunks[i]
        BY DEF Range
    <3>3. i < x.next
        BY <1>3, <3>1
    <3>4. QED
        BY <3>2, <3>3 DEF Passed
  <2>3. x.batch = {} /\ BuildOK(b)
      BY <1>1, <1>2, <1>3 DEF BuildOK, BatchIsTaken
  <2>4. CASE x.force
    <3>1. InTransaction(b) /\ x.own[c.place] = [text |-> c.text, by |-> x.by]
        BY <1>2, <2>2, <2>3, <2>4 DEF BuildOK, ForcedStored
    <3>2. QED
        BY <1>2, <1>3, <2>4, <3>1 DEF Table
  <2>5. CASE ~ x.force
    <3>1. c.text \in x.fresh /\ ~ rivals => Has(Table(b), c.text)
        BY <1>2, <2>2, <2>3, <2>5 DEF BuildOK, FreshStored
    <3>2. QED
        BY <1>3, <2>5, <3>1 DEF Has
  <2>6. QED
      BY <2>4, <2>5
<1>12. QED
    BY <1>6, <1>7, <1>9, <1>10, <1>11 DEF IndexInductive, BuildOK

\* An abandoned build, a changed file and a new library leave the table alone.
LEMMA OthersOK ==
    ASSUME IndexInductive,
           (\E b \in Builders : AbandonBuild(b)) \/ ChangeFile \/ InstallLibrary
    PROVE  IndexInductive'
<1>1. IndexTypeOK /\ StoresWhatIsNew /\ OneBuild /\ \A c \in Builders : BuildOK(c)
    BY DEF IndexInductive, BuildOK
<1>2. rows' = rows /\ latest' = latest /\ rivals' = rivals
    BY DEF AbandonBuild, ChangeFile, InstallLibrary
<1>3. /\ build' \in [Builders -> Builds]
      /\ \A c \in Builders : build'[c] = build[c] \/ build'[c] = NoBuild
    BY <1>1, NoBuildTypes DEF AbandonBuild, ChangeFile, InstallLibrary, IndexTypeOK
<1>4. content' \in [Sources -> Bodies] /\ backend' \in Backends
    BY <1>1 DEF AbandonBuild, ChangeFile, InstallLibrary, IndexTypeOK, Backends
<1>5. IndexTypeOK'
    BY <1>1, <1>2, <1>3, <1>4 DEF IndexTypeOK
<1>6. ASSUME NEW c \in Builders PROVE BuildOK(c)'
  <2>1. CASE build'[c] = build[c]
      BY <1>1, <1>2, <2>1, BuildFrame
  <2>2. CASE build'[c] = NoBuild
    <3>1. /\ Passed(NoBuild) = {} /\ ~ NoBuild.force /\ NoBuild.fresh = {}
          /\ OnePerPlace(NoBuild) /\ BatchIsTaken(NoBuild)
        BY NoBuildTypes
    <3>2. QED
        BY <2>2, <3>1 DEF BuildOK, ForcedStored, FreshStored
  <2>3. QED
      BY <1>3, <2>1, <2>2
<1>7. OneBuild'
    BY <1>1, <1>2, <1>3 DEF OneBuild
<1>8. StoresWhatIsNew'
    BY <1>1, <1>2 DEF StoresWhatIsNew, Has
<1>9. QED
    BY <1>5, <1>6, <1>7, <1>8 DEF IndexInductive, BuildOK

LEMMA IndexInitially == IndexInit => IndexInductive
<1> SUFFICES ASSUME IndexInit PROVE IndexInductive
    OBVIOUS
<1>1. Empty \in Tables
    BY DEF Empty, Tables, Places, Backends
<1>2. IndexTypeOK
    BY <1>1, NoBuildTypes DEF IndexInit, IndexTypeOK, Backends
<1>3. ASSUME NEW b \in Builders PROVE BuildOK(b)
  <2>1. build[b] = NoBuild
      BY <1>3 DEF IndexInit
  <2>2. /\ Passed(NoBuild) = {} /\ ~ NoBuild.force /\ NoBuild.fresh = {}
        /\ OnePerPlace(NoBuild) /\ BatchIsTaken(NoBuild)
      BY NoBuildTypes
  <2>3. QED
      BY <2>1, <2>2 DEF BuildOK, ForcedStored, FreshStored
<1>4. OneBuild
    BY DEF IndexInit, OneBuild
<1>5. StoresWhatIsNew
  <2>1. latest = NoBuild /\ NoBuild.chunks = <<>>
      BY NoBuildTypes DEF IndexInit
  <2>2. Range(latest.chunks) = {}
      BY <2>1 DEF Range
  <2>3. QED
      BY <2>2 DEF StoresWhatIsNew
<1>6. QED
    BY <1>2, <1>3, <1>4, <1>5 DEF IndexInductive, BuildOK

LEMMA IndexInductiveStep == IndexInductive /\ [IndexNext]_indexVars => IndexInductive'
<1> SUFFICES ASSUME IndexInductive, [IndexNext]_indexVars PROVE IndexInductive'
    OBVIOUS
<1>1. CASE UNCHANGED indexVars
  <2>1. /\ content' = content /\ backend' = backend /\ rows' = rows /\ build' = build
        /\ latest' = latest /\ rivals' = rivals
      BY <1>1 DEF indexVars
  <2>2. \A b \in Builders : BuildOK(b)
      BY DEF IndexInductive, BuildOK
  <2>3. \A b \in Builders : BuildOK(b)'
      BY <2>1, <2>2, BuildFrame
  <2>4. IndexTypeOK' /\ OneBuild' /\ StoresWhatIsNew'
      BY <2>1 DEF IndexInductive, IndexTypeOK, OneBuild, StoresWhatIsNew, Has
  <2>5. QED
      BY <2>3, <2>4 DEF IndexInductive, BuildOK
<1>2. CASE \E b \in Builders : BeginBuild(b)
    BY <1>2, BeginsOK
<1>3. CASE \E b \in Builders : TakeBatch(b)
    BY <1>3, TakesOK
<1>4. CASE \E b \in Builders : StoreBatch(b)
    BY <1>4, StoresOK
<1>5. CASE \E b \in Builders : Commit(b)
    BY <1>5, CommitsOK
<1>6. CASE (\E b \in Builders : AbandonBuild(b)) \/ ChangeFile \/ InstallLibrary
    BY <1>6, OthersOK
<1>7. QED
    BY <1>1, <1>2, <1>3, <1>4, <1>5, <1>6 DEF IndexNext

\* What a build has gone through is in its batch or in its table.
THEOREM IndexInvariant == IndexSpec => []IndexInductive
<1>1. IndexInit => IndexInductive
    BY IndexInitially
<1>2. IndexInductive /\ [IndexNext]_indexVars => IndexInductive'
    BY IndexInductiveStep
<1>3. QED
    BY <1>1, <1>2, PTL DEF IndexSpec

\* A forced build of the index (index/embedding_store.py) stores every chunk, and an
\* incremental one every new text, for any number of builders, files and chunks.
THEOREM NewTextsAreStored == IndexSpec => []StoresWhatIsNew
<1>1. IndexInductive => StoresWhatIsNew
    BY DEF IndexInductive
<1>2. QED
    BY <1>1, IndexInvariant, PTL
=============================================================================
