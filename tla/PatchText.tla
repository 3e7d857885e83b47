------------------------------ MODULE PatchText ------------------------------
(***************************************************************************)
(* File contents, patch blocks, and what the blocks of a patch make of a   *)
(* file: the pure part of patch/models.py, patch/validator.py and          *)
(* PatchApplier._prepare_operations.                                       *)
(*                                                                         *)
(* A file is a function from Regions to Text.  A SEARCH pattern fixes the  *)
(* text of some regions, and it "matches exactly once" when the file       *)
(* agrees with it there; REPLACE gives the same regions other text.        *)
(***************************************************************************)
EXTENDS Naturals, Sequences

CONSTANTS
    Files,          \* the paths the patches touch
    Regions, Text,  \* a file's content is a function [Regions -> Text]
    Empty,          \* the content of a file written with ""
    Absent          \* there is no file at this path

Content == [Regions -> Text]
MaybeContent == Content \cup {Absent}
Pattern == UNION {[S -> Text] : S \in SUBSET Regions}

UpdateBlock == [op : {"update"}, file : Files, search : Pattern, replace : Pattern]
CreateBlock == [op : {"create"}, file : Files, content : Content]
DeleteBlock == [op : {"delete"}, file : Files]
Block == UpdateBlock \cup CreateBlock \cup DeleteBlock

EditFileCall == [tool : {"edit_file"}, file : Files, search : Pattern, replace : Pattern]
WriteFileCall == [tool : {"write_file"}, file : Files, content : Content]

ASSUME ContentAssumption == Empty \in Content /\ Absent \notin Content

-----------------------------------------------------------------------------
Matches(search, c) == c # Absent /\ \A r \in DOMAIN search : c[r] = search[r]

IsUpdateOf(b, f) == b.op = "update" /\ b.file = f

\* The blocks before block i that decide the text of region r of file f.
Deciding(bs, i, f, r) ==
    {j \in 1 .. (i - 1) : j \in DOMAIN bs /\ IsUpdateOf(bs[j], f) /\ r \in DOMAIN bs[j].replace}

\* Content c of file f once the update blocks before block i are folded in:
\* the last block that covers a region decides its text.
Updated(bs, i, f, c) ==
    [r \in Regions |->
        IF Deciding(bs, i, f, r) = {} THEN c[r]
        ELSE bs[CHOOSE j \in Deciding(bs, i, f, r) :
                    \A k \in Deciding(bs, i, f, r) : k <= j].replace[r]]

\* A later update of the same file is merged into the first one's operation.
Merged(bs, i) ==
    bs[i].op = "update" /\ \E j \in 1 .. (i - 1) : IsUpdateOf(bs[j], bs[i].file)

Targets(bs) == {bs[i].file : i \in DOMAIN bs}

\* What a patch leaves in file f when it is applied to content c.
Result(bs, f, c) ==
    LET whole == {i \in DOMAIN bs : bs[i].file = f /\ bs[i].op # "update"}
        last == CHOOSE i \in whole : \A j \in whole : j <= i
    IN  IF whole = {} THEN Updated(bs, Len(bs) + 1, f, c)
        ELSE IF bs[last].op = "create" THEN bs[last].content ELSE Absent
=============================================================================
