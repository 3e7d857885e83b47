---------------------------- MODULE MCSandboxGate ----------------------------
(* Small instances of SandboxGate for TLC. *)
EXTENDS SandboxGate, TLC

CONSTANTS p1, p2, good, bad

Symmetry == Permutations({p1, p2})
=============================================================================
