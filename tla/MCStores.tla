------------------------------ MODULE MCStores ------------------------------
(* The files that sac processes write without a lock: the audit log, MCP   *)
(* proposals and grants, task sidecars, the record files, the embedding    *)
(* index, and the costs of a conversation with the model calls that they   *)
(* are for.  They share no state, so a behaviour is one of one of them,    *)
(* and every property is about one.                                        *)
EXTENDS AuditLog, McpWrite, TaskBook, RecordFiles, EmbeddingIndex, ModelCall

CONSTANTS p1, p2  \* the processes, of every part

MCCalls == {"read", "put", "huge"}
MCTool == [c \in MCCalls |-> IF c = "huge" THEN "put" ELSE c]
MCPayload == [c \in MCCalls |-> c]
MCSymmetry == Permutations({p1, p2})

VARIABLE part

storesVars == <<part, vars, mcpVars, taskVars, recVars, indexVars, askVars>>

StoresInit ==
    /\ part \in {"audit", "mcp", "tasks", "records", "index", "model"}
    /\ Init /\ McpInit /\ TaskInit /\ RecInit /\ IndexInit /\ AskInit
    /\ part # "records" => kind = "journal"
    /\ IF part = "index" THEN Len(content[2]) <= 1 ELSE content = [f \in Sources |-> <<>>]
    /\ part # "model" => ~ fanOut /\ openai = {}

\* A kill or a failing deletion or save takes the place of the last command, proposal
\* or call.
StoresNext ==
    /\ UNCHANGED part
    /\ \/ /\ part = "audit" /\ Next
          /\ UNCHANGED <<mcpVars, taskVars, recVars, indexVars, askVars>>
       \/ /\ part = "mcp" /\ McpNext /\ Len(asked') + faults' <= 2
          /\ UNCHANGED <<vars, taskVars, recVars, indexVars, askVars>>
       \/ /\ part = "tasks" /\ TaskNext /\ commands' + kills' + failed' <= 3
          /\ UNCHANGED <<vars, mcpVars, recVars, indexVars, askVars>>
       \/ /\ part = "records" /\ RecNext
          /\ UNCHANGED <<vars, mcpVars, taskVars, indexVars, askVars>>
       \/ /\ part = "index" /\ IndexNext
          /\ UNCHANGED <<vars, mcpVars, taskVars, recVars, askVars>>
       \/ /\ part = "model" /\ AskNext /\ ops' + saveFailures' + callKills' <= 2
          /\ UNCHANGED <<vars, mcpVars, taskVars, recVars, indexVars>>

StoresSpec == StoresInit /\ [][StoresNext]_storesVars
=============================================================================
