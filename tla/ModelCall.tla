------------------------------ MODULE ModelCall ------------------------------
(***************************************************************************)
(* Asking a model (llm/retry.py, openai_client.py, anthropic_client.py,    *)
(* factory.py, cost.py, and the callers in agent/).  A step of the agent   *)
(* asks through four layers that each ask again: the caller when the       *)
(* answer breaks the contract, propose_patch when it has no patch, the     *)
(* fan-out when the primary provider fails, and retry_call.  What was      *)
(* used is added to .sac/sessions/<id>/cost.json, which two processes with *)
(* one conversation share.                                                 *)
(***************************************************************************)
EXTENDS Naturals, FiniteSets

CONSTANTS
    Callers,      \* processes with the conversation
    MaxAttempts,  \* llm.max_retries, 3 if it is not set, as always in the Anthropic client
    MaxOps, MaxSaveFailures, MaxCallKills, MaxUsed,  \* bounds; MaxUsed of the answers with a usage,
    MaxShared  \* and this of the requests of an operation that is not the only one

ASSUME AskAssumption == MaxAttempts \in Nat \ {0} /\ IsFiniteSet(Callers)

VARIABLES
    fanOut,   \* llm.fallback_provider is set
    openai,   \* the providers whose client is OpenAICompatibleLLMClient
    asking,   \* what a caller is doing
    tokens,   \* _last_token_usage of a caller's clients
    cost,     \* cost.json
    \* history, read by the properties only
    received, \* what the answers to the conversation used
    skewed,   \* two saves overlapped, one failed, or a kill came before it
    ops, saveFailures, callKills

askVars == <<fanOut, openai, asking, tokens, cost, received, skewed, ops, saveFailures, callKills>>

Providers == {"primary", "fallback"}

NotAsking ==
    [op |-> "none", at |-> "idle", provider |-> "primary", tries |-> 0, second |-> FALSE,
     round |-> "first", base |-> 0, reported |-> 0,
     \* history: requests sent, what their answers used, and a fallback in between
     sent |-> 0, spent |-> 0, turned |-> FALSE]

\* The clients of a shell conversation save; those of sac commit and sac edit,
\* made without a session, do not.
Operations == {"ask", "plan", "choose", "native", "edit", "turnEdit"}
KeepsCost(op) == op \in {"plan", "choose", "native", "turnEdit"}
AsksForPatch(op) == op \in {"edit", "turnEdit"}

\* Is a new request of the method, which the fan-out gives to the primary.
Again(a, round) ==
    [a EXCEPT !.at = "send", !.provider = "primary", !.tries = 0, !.second = FALSE, !.round = round]

Asked(op) == [Again(NotAsking, "first") EXCEPT !.op = op]

\* Mutant: propose_patch goes on counting.
NewMethodKept(p, provider) == tokens

NewMethod(p, provider) == [tokens EXCEPT ![p][provider] = 0]  \* propose_patch resets it

Succeeded(p) == asking' = [asking EXCEPT ![p].at = "done"]
Raised(p) == asking' = [asking EXCEPT ![p].at = "raised"]

-----------------------------------------------------------------------------
(* The request. *)

\* FanOutLLMClient has no choose_tool_native, so with a fallback a step is one of
\* the JSON contract.
Ask(p, op) ==
    /\ asking[p].op = "none" /\ ops < MaxOps /\ ops' = ops + 1
    /\ \A q \in Callers : asking[q].sent <= MaxShared
    /\ op = "native" => ~ fanOut
    /\ asking' = [asking EXCEPT ![p] = Asked(op)]
    /\ tokens' = IF AsksForPatch(op) THEN NewMethod(p, "primary") ELSE tokens
    /\ UNCHANGED <<fanOut, openai, cost, received, skewed, saveFailures, callKills>>

Sends(p) == asking[p].at = "send" /\ (ops > 1 => asking[p].sent < MaxShared)

\* RuntimeError: the fan-out takes its other client, and there only.
Unreachable(p) ==
    LET a == asking[p]
    IN  IF fanOut /\ a.provider = "primary"
        THEN /\ asking' = [asking EXCEPT ![p].provider = "fallback", ![p].tries = 0,
                   ![p].second = FALSE, ![p].sent = @ + 1, ![p].turned = TRUE]
             /\ tokens' = IF AsksForPatch(a.op) THEN NewMethod(p, "fallback") ELSE tokens
        ELSE asking' = [asking EXCEPT ![p].at = "raised", ![p].sent = @ + 1]
             /\ UNCHANGED tokens

\* Mutant: one attempt more.
AttemptsLeftAndOne(a) == a.tries < MaxAttempts

\* 408, 429, 502, 503, 504, and a connection that cannot be made.
AttemptsLeft(a) == a.tries + 1 < MaxAttempts

Refused(p) ==
    /\ Sends(p)
    /\ IF AttemptsLeft(asking[p])
       THEN /\ asking' = [asking EXCEPT ![p].tries = @ + 1, ![p].sent = @ + 1]
            /\ UNCHANGED tokens
       ELSE Unreachable(p)
    /\ UNCHANGED <<fanOut, openai, cost, received, skewed, ops, saveFailures, callKills>>

\* Any other status.
Rejected(p) ==
    /\ Sends(p)
    /\ Unreachable(p)
    /\ UNCHANGED <<fanOut, openai, cost, received, skewed, ops, saveFailures, callKills>>

\* An answer that does not come in time or breaks off, is no JSON, or has a usage
\* that is no number: no URLError, so neither retried nor sent to the fallback.
BreaksOff(p) ==
    /\ Sends(p)
    /\ asking' = [asking EXCEPT ![p].at = "raised", ![p].sent = @ + 1]
    /\ UNCHANGED <<fanOut, openai, tokens, cost, received, skewed, ops, saveFailures, callKills>>

Counted(p, n) ==
    IF asking[p].provider \in openai THEN [tokens EXCEPT ![p][asking[p].provider] = @ + n] ELSE tokens

\* An answer, which may come without its usage.
Answered(p, n) ==
    /\ Sends(p) /\ asking[p].spent + n <= MaxUsed
    /\ LET a == asking[p]
       IN  /\ asking' = [asking EXCEPT
                 ![p].at = IF n > 0 /\ KeepsCost(a.op) THEN "load" ELSE "answer",
                 ![p].sent = @ + 1, ![p].spent = @ + n, ![p].base = n]
           /\ received' = IF KeepsCost(a.op) THEN received + n ELSE received
    /\ tokens' = Counted(p, n)
    /\ UNCHANGED <<fanOut, openai, cost, skewed, ops, saveFailures, callKills>>

-----------------------------------------------------------------------------
(* SessionCostAccumulator.record. *)

LoadCost(p) ==
    /\ asking[p].at = "load"
    /\ asking' = [asking EXCEPT ![p].at = "save", ![p].base = cost + @]
    /\ skewed' = (skewed \/ \E q \in Callers \ {p} : asking[q].at = "save")
    /\ UNCHANGED <<fanOut, openai, tokens, cost, received, ops, saveFailures, callKills>>

SaveCost(p) ==
    /\ asking[p].at = "save"
    /\ cost' = asking[p].base
    /\ asking' = [asking EXCEPT ![p].at = "answer"]
    /\ UNCHANGED <<fanOut, openai, tokens, received, skewed, ops, saveFailures, callKills>>

\* An error of the file is not told.
SaveFails(p) ==
    /\ asking[p].at \in {"load", "save"}
    /\ saveFailures < MaxSaveFailures /\ saveFailures' = saveFailures + 1
    /\ asking' = [asking EXCEPT ![p].at = "answer"]
    /\ skewed' = TRUE
    /\ UNCHANGED <<fanOut, openai, tokens, cost, received, ops, callKills>>

-----------------------------------------------------------------------------
(* What the callers make of the answer. *)

AtAnswer(p, kinds) == asking[p].at = "answer" /\ asking[p].op \in kinds

Taken(p) ==
    /\ AtAnswer(p, {"ask", "plan", "choose", "native"})
    /\ Succeeded(p)
    /\ UNCHANGED tokens

\* Not the contract's JSON.  A plan raises; a step asks once more, both of them
\* after what was used was counted.
OffContract(p) ==
    /\ AtAnswer(p, {"plan", "choose", "native"})
    /\ IF asking[p].op = "plan" \/ asking[p].round = "again" THEN Raised(p)
       ELSE asking' = [asking EXCEPT ![p] = Again(asking[p], "again")]
    /\ UNCHANGED tokens

\* JSON of the contract, of a type that does not belong here.
WrongType(p) ==
    /\ AtAnswer(p, {"plan", "choose"})
    /\ Raised(p)
    /\ UNCHANGED tokens

\* propose_patch got prose.  Only the OpenAI client asks at once for the patch.
Prose(p) ==
    /\ AtAnswer(p, {"edit", "turnEdit"})
    /\ asking[p].provider \in openai /\ ~ asking[p].second
    /\ asking' = [asking EXCEPT ![p].at = "send", ![p].tries = 0, ![p].second = TRUE]
    /\ UNCHANGED tokens

\* propose_patch returns; the text parses, or not, and validates, or not.
Reported(p) == asking[p].reported + tokens[p][asking[p].provider]

\* One repair of what does not parse, first, and one of what does not validate.
RoundAfter(round, parses, validates) ==
    IF ~ parses /\ round = "first" THEN "reparse"
    ELSE IF parses /\ ~ validates /\ round # "revalidate" THEN "revalidate"
    ELSE "end"

Proposed(p, parses, validates) ==
    /\ AtAnswer(p, {"edit", "turnEdit"})
    /\ LET next == RoundAfter(asking[p].round, parses, validates)
       IN  IF next = "end"
           THEN /\ asking' = [asking EXCEPT ![p].reported = Reported(p),
                      ![p].at = IF parses /\ validates THEN "done" ELSE "raised"]
                /\ UNCHANGED tokens
           ELSE /\ asking' = [asking EXCEPT ![p] =
                      Again([asking[p] EXCEPT !.reported = Reported(p)], next)]
                /\ tokens' = NewMethod(p, "primary")

UsesAnswer(p) ==
    /\ \/ Taken(p) \/ OffContract(p) \/ WrongType(p) \/ Prose(p)
       \/ \E parses, validates \in BOOLEAN : (validates => parses) /\ Proposed(p, parses, validates)
    /\ UNCHANGED <<fanOut, openai, cost, received, skewed, ops, saveFailures, callKills>>

Deliver(p) ==
    /\ asking[p].at \in {"done", "raised"}
    /\ asking' = [asking EXCEPT ![p] = NotAsking]
    /\ UNCHANGED <<fanOut, openai, tokens, cost, received, skewed, ops, saveFailures, callKills>>

\* Ctrl-C or a kill.
KillCall(p) ==
    /\ asking[p].op # "none" /\ callKills < MaxCallKills /\ callKills' = callKills + 1
    /\ asking' = [asking EXCEPT ![p] = NotAsking]
    /\ tokens' = [tokens EXCEPT ![p] = [q \in Providers |-> 0]]
    /\ skewed' = (skewed \/ asking[p].at \in {"load", "save"})
    /\ UNCHANGED <<fanOut, openai, cost, received, ops, saveFailures>>

AskInit ==
    /\ fanOut \in BOOLEAN
    /\ openai \in SUBSET (IF fanOut THEN Providers ELSE {"primary"})
    /\ asking = [p \in Callers |-> NotAsking]
    /\ tokens = [p \in Callers |-> [q \in Providers |-> 0]]
    /\ cost = 0 /\ received = 0 /\ skewed = FALSE /\ ops = 0 /\ saveFailures = 0 /\ callKills = 0

AskNext == \E p \in Callers :
    \/ \E op \in Operations : Ask(p, op)
    \/ Refused(p) \/ Rejected(p) \/ BreaksOff(p)
    \/ \E n \in 0..1 : Answered(p, n)
    \/ LoadCost(p) \/ SaveCost(p) \/ SaveFails(p)
    \/ UsesAnswer(p) \/ Deliver(p) \/ KillCall(p)

AskSpec == AskInit /\ [][AskNext]_askVars

-----------------------------------------------------------------------------
\* cost.json has what every answer used, also of those that broke the contract,
\* were retried or came from the fallback, and once, unless two saves overlapped
\* or one was lost; and the tokens that an edit reports are those of its own
\* requests, unless a provider without counts or the fallback had a part.
Unsaved == {p \in Callers : asking[p].at \in {"load", "save"}}

UsageIsCounted ==
    /\ ~ skewed /\ Unsaved = {} => cost = received
    /\ \A p \in Callers :
         LET a == asking[p]
         IN  AsksForPatch(a.op) /\ a.at = "done" /\ "primary" \in openai /\ ~ a.turned
               => a.reported = a.spent

\* However the four layers retry, a plan or an answer sends no more requests than
\* its providers' attempts, a step twice and an edit six times as many.
Rounds(op) == IF AsksForPatch(op) THEN 6 ELSE IF op \in {"choose", "native"} THEN 2 ELSE 1

RequestsAreBounded ==
    \A p \in Callers :
        asking[p].sent <= Rounds(asking[p].op) * MaxAttempts * (IF fanOut THEN 2 ELSE 1)
=============================================================================
