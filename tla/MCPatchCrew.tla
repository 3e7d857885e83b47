----------------------------- MODULE MCPatchCrew -----------------------------
(* PatchTransaction with one process among faults, or with two at once.     *)
EXTENDS MCPatchTransaction, FiniteSets

\* One process with edits, faults and kills, two of them in a behaviour; or two
\* processes with none, that apply one patch and roll the last checkpoint back.
VARIABLE crew

MaxTroubles == 2

MCInit == Init /\ crew \in {{p1}, {p2}, {p1, p2}}

Alone ==
    /\ Cardinality(crew) = 1
    /\ (\E p \in crew : Step(p)) \/ UserEdit
    /\ env'.edits + env'.faults + env'.crashes <= MaxTroubles

Together ==
    /\ Cardinality(crew) = 2
    /\ \E p \in crew : Step(p)
    /\ env' = env
    /\ pending' \in {NoPatch, TwoFilePatch}
    /\ \A p \in crew : via'[p] \notin {"rollback_checkpoint", "undo_command"}

MCNext == (Alone \/ Together) /\ UNCHANGED crew

MCSpec == MCInit /\ [][MCNext]_<<vars, crew>>

Symmetry == Permutations({p1, p2})
=============================================================================
