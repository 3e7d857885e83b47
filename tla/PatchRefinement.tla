--------------------------- MODULE PatchRefinement ---------------------------
(***************************************************************************)
(* PatchTransaction implements AtomicPatch as long as one process works on *)
(* the project, nobody edits it meanwhile, nothing kills the process, and  *)
(* what fails is the backup or one write.  An apply takes effect in its    *)
(* last step (OperationsDone), a rollback in its first (StartRollback).    *)
(***************************************************************************)
EXTENDS PatchTransaction

Worker == CHOOSE p \in Procs : TRUE

\* What restoring checkpoint c leaves on the disk.
Restored(c) == [f \in Files |-> IF f \in Covered(c) THEN Kept(c, f) ELSE disk[f]]

\* A patch under way, or being undone, is not seen yet; a rollback under way is
\* seen at once.
View ==
    CASE pc[Worker] \in {"apply", "replace", "undo", "failed"} ->
            [f \in Files |-> IF f \in Targets(blocks[Worker]) THEN original[Worker][f] ELSE disk[f]]
      [] pc[Worker] \in {"restore", "copy"} -> Restored(mine[Worker])
      [] OTHER -> disk

\* The checkpoints with a metadata.json, and what they keep.
Readable == {c \in DOMAIN checkpoints : checkpoints[c].metadata}

Contents == [c \in Readable |-> [f \in Covered(c) |-> Kept(c, f)]]

\* The one-block proposals of the native tools: write_file on a file that is
\* there and on one that is not, and edit_file.
WriteCalls == {n \in NativeCalls : n.tool = "write_file"}

Overwrites ==
    {<<[op |-> "update", file |-> call.file, search |-> c, replace |-> call.content]>> :
        call \in WriteCalls, c \in Content}

Creations == {<<[op |-> "create", file |-> call.file, content |-> call.content]>> : call \in WriteCalls}

Replacements ==
    {<<[op |-> "update", file |-> call.file, search |-> call.search, replace |-> call.replace]>> :
        call \in {n \in NativeCalls : n.tool = "edit_file"}}

NativeProposals == Overwrites \cup Creations \cup Replacements

Proposed == Patches \cup DirectPatches \cup NativeProposals

Atomic == INSTANCE AtomicPatch WITH view <- View, saved <- Contents, Proposals <- Proposed

\* patch/applier.py:44-56: applying a patch is all or nothing, whichever
\* operation fails, and a rollback brings a saved state back whole.
AllOrNothing == Atomic!Spec
=============================================================================
