------------------------------ MODULE MCApply ------------------------------
(* What is behind an apply: a patch that is written whole or not at all,   *)
(* and the hooks that run after it, with the commands that use the same    *)
(* configuration.  The two share no state, so a behaviour is one of one of *)
(* them; the third part is many pairs of configuration files as they are.  *)
EXTENDS MCPatchTransaction, MCCommandGate

VARIABLE part

applyVars == <<part, vars, gateVars>>

ApplyInit ==
    /\ Init
    /\ \/ part \in {"patch", "command"} /\ GateInit
       \/ part = "files" /\ StartWith(ManyFiles, ManyFiles)
    /\ part # "files" => envPolicy = "unset"
    /\ part = "patch" => userFile = PlainUser /\ projectFile = PlainProject

ApplyNext ==
    /\ UNCHANGED part
    /\ \/ part = "patch" /\ Next /\ UNCHANGED gateVars
       \/ part = "command" /\ GateNext /\ UNCHANGED vars

ApplySpec == ApplyInit /\ [][ApplyNext]_applyVars
=============================================================================
