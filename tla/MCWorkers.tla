----------------------------- MODULE MCWorkers -----------------------------
(* The parts of the program that something keeps waiting for: the agent    *)
(* loop, the subagent pool, the commands for MCP servers and a call over   *)
(* stdio.  They share no state, so a behaviour is one of one of them, and  *)
(* the fairness of the others asks nothing of it.                          *)
EXTENDS MCAgentLoop, SubagentPool, McpServer, StdioCall

VARIABLE part

workerVars == <<part, vars, poolVars, serverVars, callVars>>

\* The loop's start has a choice, of which an idle loop needs one case only.
WorkersInit ==
    /\ part \in {"loop", "pool", "server", "call"}
    /\ Init /\ PoolInit /\ ServerInit /\ CallInit
    /\ part # "call" => ~ large
    /\ part # "loop" => ~ scoped /\ mode = {}

WorkersNext ==
    /\ UNCHANGED part
    /\ \/ part = "loop" /\ Next /\ UNCHANGED <<poolVars, serverVars, callVars>>
       \/ part = "pool" /\ PoolNext /\ UNCHANGED <<vars, serverVars, callVars>>
       \/ part = "server" /\ ServerNext /\ UNCHANGED <<vars, poolVars, callVars>>
       \/ part = "call" /\ CallNext /\ UNCHANGED <<vars, poolVars, serverVars>>

WorkersSpec ==
    WorkersInit /\ [][WorkersNext]_workerVars
        /\ LoopFairness /\ PoolFairness /\ ServerFairness /\ CallFairness

\* Whoever called run_all gets its results, whatever fails and whoever cancels, and
\* whoever typed a command for a server gets the prompt back.
CallersGoOn == RunAllReturns /\ CommandsEnd
=============================================================================
