---------------------------- MODULE MCGitCommit ----------------------------
(* Small instances of GitCommit for TLC. *)
EXTENDS GitCommit

CONSTANTS t1, t2, mod, new, other, k1, k2

\* Two files of a folder, one of them not there yet, and one at the top.
FewPaths == {mod, new, other}
FewBeside == {mod, new} \X {mod, new}
OldFiles == (mod :> "old") @@ (new :> Gone) @@ (other :> "text")

UpdateMod == mod :> [found |-> "old", to |-> "text"]
CreateNew == new :> [found |-> Gone, to |-> "text"]

FewChanges == {UpdateMod, CreateNew}
=============================================================================
