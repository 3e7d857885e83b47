---------------------------- MODULE MCAgentLoop ----------------------------
(* AgentLoop with a proposal that may apply itself and one whose delete    *)
(* comes after a protected path.                                           *)
EXTENDS AgentLoop

\* plan_mode only takes behaviours away and both flags together allow what
\* full_auto allows, the file guard apart; without a flag nothing applies itself.
FullAuto == {{"full_auto"}}
ActingModes == {{"auto_edit"}} \cup FullAuto
FewModes == ActingModes \cup {{}}
FewContents == {<<"docs">>, <<"protected", "delete">>}
=============================================================================
