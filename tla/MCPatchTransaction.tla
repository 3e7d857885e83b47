------------------------- MODULE MCPatchTransaction -------------------------
(* Small instances of PatchTransaction for TLC. *)
EXTENDS PatchRefinement, TLC

CONSTANTS p1, p2, fa, fb

TwoRegions == {1, 2}
Texts == {"a", "b"}
BlankFile == [r \in TwoRegions |-> "b"]
OldFile == [r \in TwoRegions |-> "a"]

BothFiles == [x \in {fa, fb} |-> OldFile]
FileAndGap == (fa :> OldFile) @@ (fb :> Absent)

Update(x, r) == [op |-> "update", file |-> x, search |-> r :> "a", replace |-> r :> "b"]

\* One patch changes both files; the other changes both regions of fa before
\* fb, the second block being merged into the first one's operation.
TwoFilePatch == <<Update(fa, 1), Update(fb, 1)>>
MergedPatch == <<Update(fa, 1), Update(fa, 2), Update(fb, 1)>>
SameFilePatch == <<Update(fa, 1), Update(fa, 2)>>
ModelPatches == {TwoFilePatch, MergedPatch}
NoPatches == {}
OnePatch == {TwoFilePatch}
JustMerged == {SameFilePatch}

EditF == [tool |-> "edit_file", file |-> fa, search |-> 2 :> "a", replace |-> 2 :> "b"]
WriteG == [tool |-> "write_file", file |-> fb, content |-> OldFile]
EditOnly == {EditF}
EditAndWrite == {EditF, WriteG}
NoCalls == {}

\* What PatchApplier supports beyond the updates the parser yields: the files
\* deleted exist and the files created do not, unless deleted first.
Delete(x) == [op |-> "delete", file |-> x]
Create(x, c) == [op |-> "create", file |-> x, content |-> c]
DeleteThenCreate == <<Delete(fa), Create(fa, BlankFile), Create(fb, OldFile)>>
CreateUpdateDelete == <<Create(fb, BlankFile), Update(fa, 1), Delete(fa)>>
LibraryPatches == {DeleteThenCreate, CreateUpdateDelete}

=============================================================================
