---------------------------- MODULE MCExecution ----------------------------
(* What SafeCode does outside the files of a project, with a consent that   *)
(* must still hold when it is done: commands in a sandbox and commits.      *)
(* SandboxGate has the locks and the approvals of an execution, SandboxPlan *)
(* the text it runs, GitCommit the commits. They share no variable, so a    *)
(* behaviour is one of one of them.                                         *)
EXTENDS MCSandboxGate, MCSandboxPlan, MCGitCommit

VARIABLE part

executionVars == <<part, vars, planVars, gitVars>>

ExecutionInit ==
    /\ Init /\ GitInit /\ PlanInit
    /\ part \in {"gate", "plan", "terminal", "terminals"}
    /\ part # "plan" => settings = AsItComes /\ host = Bare

\* One terminal for longer, or two.
Doings == acts.edits + acts.user + acts.rollbacks

ExecutionNext ==
    /\ UNCHANGED part
    /\ \/ part = "gate" /\ Next /\ UNCHANGED <<planVars, gitVars>>
       \/ part = "plan" /\ PlanNext /\ UNCHANGED <<vars, gitVars>> /\ offers' + moves' <= 3
       \/ /\ part = "terminal" /\ GitNext /\ UNCHANGED <<vars, planVars>>
          /\ Doings' <= 4 /\ running'[t2] = AtRest
       \/ part = "terminals" /\ GitNext /\ UNCHANGED <<vars, planVars>> /\ Doings' <= 2

ExecutionSpec == ExecutionInit /\ [][ExecutionNext]_executionVars
=============================================================================
