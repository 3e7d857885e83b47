------------------------ MODULE PatchTransactionProofs ------------------------
(***************************************************************************)
(* Theorems about PatchTransaction, for any number of processes, files,    *)
(* patches, edits, failures and crashes.                                   *)
(*                                                                         *)
(* Inductive is the invariant the proofs rest on: the variables have their *)
(* types, a process inside apply or rollback has consistent locals         *)
(* (Locals), and whatever a patch wrote is covered (WritesHaveCheckpoint). *)
(* Faithful, proved from it, is about contents: what a checkpoint saved is *)
(* what the file held, and where disk, checkpoint and locals stand at each *)
(* step of a backup, an apply, an undo and a rollback.                     *)
(* With one process and nobody else at the files, PatchTransaction         *)
(* implements AtomicPatch under the mapping of PatchRefinement.            *)
(***************************************************************************)
EXTENDS PatchRefinement, TLAPS, WellFoundedInduction, SequenceTheorems

\* The steps at which a process still needs the checkpoint it took.
Covering == {"prepare", "apply", "replace", "undo", "failed", "applied", "audit"}

\* The locals of process p between two steps.
LocalsOf(p) ==
    /\ pc[p] = "begin" => at[p] = 1
    /\ pc[p] \in {"backup", "apply", "replace", "restore", "copy"} => at[p] >= 1
    /\ pc[p] \in {"replace", "undo"} => at[p] <= Len(blocks[p])
    /\ pc[p] = "replace" => blocks[p][at[p]].op = "update"
    /\ pc[p] \notin {"idle", "begin"} => mine[p] \in DOMAIN checkpoints
    /\ pc[p] \in {"apply", "replace"} => \A i \in DOMAIN blocks[p] :
            blocks[p][i].op = "update" => original[p][blocks[p][i].file] \in Content

Locals == \A p \in Procs : LocalsOf(p)

\* What the checkpoint of process p covers while it is made and once it is made.
CoverageOf(p) ==
    /\ pc[p] = "backup" =>
            \A i \in DOMAIN blocks[p] : i < at[p] => blocks[p][i].file \in Covered(mine[p])
    /\ pc[p] \in Covering =>
            checkpoints[mine[p]].metadata /\ Targets(blocks[p]) \subseteq Covered(mine[p])

Coverage == \A p \in Procs : CoverageOf(p)

Inductive == TypeOK /\ Locals /\ Coverage /\ WritesHaveCheckpoint

-----------------------------------------------------------------------------
(* What a patch makes of a file *)

\* A non-empty set of positions has a greatest one, so the CHOOSE in Updated
\* names a block.
LEMMA MaxExists ==
    ASSUME NEW n \in Nat, NEW S \in SUBSET (1 .. n), S # {}
    PROVE  \E j \in S : \A k \in S : k <= j
<1> DEFINE R == {ss \in Nat \X Nat : ss[1] < ss[2]}
           T == {d \in Nat : n - d \in S}
<1>1. T \subseteq Nat
    OBVIOUS
<1>2. T # {}
  <2>1. PICK j \in S : TRUE
      OBVIOUS
  <2>2. n - j \in Nat /\ n - (n - j) = j
      BY <2>1
  <2>3. QED
      BY <2>1, <2>2
<1>3. IsWellFoundedOn(R, Nat)
    BY NatLessThanWellFounded DEF OpToRel
<1>4. PICK x \in T : \A y \in T : ~ (<<y, x>> \in R)
  <2> HIDE DEF R, T
  <2> QED
      BY <1>1, <1>2, <1>3, WFMin
<1>5. ASSUME NEW y \in T PROVE x <= y
  <2>1. x \in Nat /\ y \in Nat
      BY <1>1
  <2>2. ~ (<<y, x>> \in R)
      BY <1>4
  <2>3. ~ (y < x)
      BY <2>1, <2>2
  <2>4. QED
      BY <2>1, <2>3
<1>6. \A k \in S : n - k \in T
    OBVIOUS
<1>7. n - x \in S /\ \A k \in S : k <= n - x
    BY <1>4, <1>5, <1>6
<1>8. QED
    BY <1>7

\* Folding update blocks into a content gives a content.
LEMMA UpdatedType ==
    ASSUME NEW bs \in Seq(Block), NEW i \in Nat, NEW f \in Files, NEW c \in Content
    PROVE  Updated(bs, i, f, c) \in Content
<1> SUFFICES ASSUME NEW r \in Regions
             PROVE  Updated(bs, i, f, c)[r] \in Text
    BY DEF Updated, Content
<1> DEFINE D == Deciding(bs, i, f, r)
<1>1. CASE D = {}
    BY <1>1 DEF Updated, Content
<1>2. CASE D # {}
  <2>1. D \in SUBSET (1 .. i)
      BY DEF Deciding
  <2>2. \E j \in D : \A k \in D : k <= j
      BY <1>2, <2>1, MaxExists
  <2> DEFINE last == CHOOSE j \in D : \A k \in D : k <= j
  <2>3. last \in D
      BY <2>2
  <2>4. bs[last].op = "update" /\ r \in DOMAIN bs[last].replace /\ last \in DOMAIN bs
      BY <2>3 DEF Deciding, IsUpdateOf
  <2>5. bs[last] \in Block
      BY <2>4, ElementOfSeq
  <2>6. bs[last] \in UpdateBlock
      BY <2>4, <2>5 DEF Block, CreateBlock, DeleteBlock
  <2>7. bs[last].replace[r] \in Text
      BY <2>4, <2>6 DEF UpdateBlock, Pattern
  <2>8. Updated(bs, i, f, c)[r] = bs[last].replace[r]
      BY <1>2 DEF Updated
  <2>9. QED
      BY <2>7, <2>8
<1>3. QED
    BY <1>1, <1>2

\* A block is of one of the three kinds, with the fields of its kind.
LEMMA BlockFields ==
    ASSUME NEW b \in Block
    PROVE  /\ b.file \in Files
           /\ b.op \in {"update", "create", "delete"}
           /\ b.op = "create" => b.content \in Content
           /\ b.op = "update" => b \in UpdateBlock
BY DEF Block, UpdateBlock, CreateBlock, DeleteBlock

\* What an update or create operation writes is a content.
LEMMA NewContentType ==
    ASSUME TypeOK, Locals, NEW p \in Procs, pc[p] \in {"apply", "replace"},
           at[p] \in DOMAIN blocks[p], blocks[p][at[p]].op \in {"update", "create"}
    PROVE  NewContent(p, at[p]) \in Content
<1> DEFINE bs == blocks[p]
           b == bs[at[p]]
<1>1. bs \in Seq(Block) /\ Len(bs) + 1 \in Nat
    BY DEF TypeOK
<1>2. b \in Block
    BY <1>1, ElementOfSeq
<1>3. CASE b.op = "create"
    BY <1>2, <1>3, BlockFields DEF NewContent
<1>4. CASE b.op = "update"
  <2>1. original[p][b.file] \in Content
      BY <1>4 DEF Locals, LocalsOf
  <2>2. Updated(bs, Len(bs) + 1, b.file, original[p][b.file]) \in Content
      BY <1>1, <1>2, <2>1, BlockFields, UpdatedType
  <2>3. QED
      BY <1>4, <2>2 DEF NewContent
<1>5. QED
    BY <1>3, <1>4

\* What the in-process rollback writes back is a content or nothing at all.
LEMMA OldContentType ==
    ASSUME TypeOK, NEW p \in Procs, at[p] \in DOMAIN blocks[p]
    PROVE  OldContent(p, at[p]) \in MaybeContent /\ blocks[p][at[p]].file \in Files
<1>1. blocks[p] \in Seq(Block)
    BY DEF TypeOK
<1>2. blocks[p][at[p]] \in Block
    BY <1>1, ElementOfSeq
<1>3. QED
    BY <1>2, BlockFields, ContentAssumption DEF OldContent, TypeOK, MaybeContent

\* The one-block proposals of the native tools are patches.
LEMMA NativeBlockType ==
    ASSUME TypeOK, NEW call \in NativeCalls
    PROVE  NativeBlock(call) \in Block
<1>1. call \in EditFileCall \cup WriteFileCall
    BY PatchAssumption
<1>2. Content \subseteq Pattern
    BY DEF Content, Pattern
<1>3. CASE call.tool = "edit_file"
  <2>1. call \in EditFileCall
      BY <1>1, <1>3 DEF EditFileCall, WriteFileCall
  <2>2. QED
      BY <1>3, <2>1 DEF EditFileCall, NativeBlock, Block, UpdateBlock
<1>4. CASE call.tool # "edit_file"
  <2>1. call \in WriteFileCall
      BY <1>1, <1>4 DEF EditFileCall, WriteFileCall
  <2>2. call.file \in Files /\ call.content \in Content
      BY <2>1 DEF WriteFileCall
  <2>3. CASE disk[call.file] # Absent
    <3>1. disk[call.file] \in Content
        BY <2>2, <2>3 DEF TypeOK, MaybeContent
    <3>2. QED
        BY <1>2, <1>4, <2>2, <2>3, <3>1 DEF NativeBlock, Block, UpdateBlock
  <2>4. CASE disk[call.file] = Absent
      BY <1>4, <2>2, <2>4 DEF NativeBlock, Block, CreateBlock
  <2>5. QED
      BY <2>3, <2>4
<1>5. QED
    BY <1>3, <1>4

-----------------------------------------------------------------------------
(* Type correctness *)

LEMMA InitType == Init => TypeOK
<1>1. \A S : <<>> \in Seq(S)
    OBVIOUS
<1>2. QED
    BY <1>1, PatchAssumption DEF Init, TypeOK, Steps, EntryPoints

\* The entry points keep the types.
LEMMA StartingType ==
    ASSUME TypeOK, Locals, NEW p \in Procs,
           Starting(p)
    PROVE  TypeOK'
<1>1. CASE Edit(p)
  <2>1. pending' \in Seq(UpdateBlock)
      BY <1>1, PatchAssumption DEF Edit
  <2>2. QED
      BY <1>1, <2>1 DEF Edit, TypeOK, tree, job, history, witness
<1>2. ASSUME NEW bs \in Seq(Block), NEW entry \in EntryPoints, Start(p, entry, bs) PROVE TypeOK'
    BY <1>2 DEF Start, Goto, TypeOK, tree, store, history, witness, Steps
<1>3. CASE StartApply(p)
  <2>1. pending \in Seq(UpdateBlock)
      BY <1>3 DEF StartApply, TypeOK
  <2>2. pending \in Seq(Block)
      BY <2>1, SeqMonotonic DEF Block
  <2>3. QED
      BY <1>2, <1>3, <2>2 DEF StartApply, EntryPoints
<1>4. CASE StartNative(p)
  <2>1. PICK call \in NativeCalls : Start(p, "native", <<NativeBlock(call)>>)
      BY <1>4 DEF StartNative
  <2>2. <<NativeBlock(call)>> \in Seq(Block)
      BY NativeBlockType
  <2>3. QED
      BY <1>2, <2>1, <2>2 DEF EntryPoints
<1>5. CASE StartDirect(p)
    BY <1>2, <1>5, PatchAssumption DEF StartDirect, EntryPoints
<1>6. QED
    BY <1>1, <1>3, <1>4, <1>5 DEF Starting

\* The checkpoint of a process that has one.
LEMMA OwnCheckpoint ==
    ASSUME TypeOK, NEW p \in Procs, mine[p] \in DOMAIN checkpoints
    PROVE  /\ mine[p] \in 1 .. Len(checkpoints)
           /\ checkpoints[mine[p]] \in Checkpoint
<1>1. checkpoints \in Seq(Checkpoint)
    BY DEF TypeOK
<1>2. mine[p] \in 1 .. Len(checkpoints)
    BY <1>1
<1>3. QED
    BY <1>1, <1>2, ElementOfSeq

\* The target of the block a process is at.
LEMMA OwnBlock ==
    ASSUME TypeOK, NEW p \in Procs, at[p] >= 1, at[p] <= Len(blocks[p])
    PROVE  /\ at[p] \in DOMAIN blocks[p]
           /\ blocks[p][at[p]] \in Block
           /\ blocks[p][at[p]].file \in Files
<1>1. blocks[p] \in Seq(Block) /\ at[p] \in Nat
    BY DEF TypeOK
<1>2. at[p] \in 1 .. Len(blocks[p])
    BY <1>1
<1>3. blocks[p][at[p]] \in Block
    BY <1>1, <1>2, ElementOfSeq
<1>4. QED
    BY <1>1, <1>2, <1>3, BlockFields

\* Becoming idle keeps the types of the variables it assigns.
LEMMA LeaveType ==
    ASSUME TypeOK, NEW p \in Procs, Leave(p), UNCHANGED <<disk, pending, checkpoints>>,
           audited' \subseteq [event : {"patch_applied", "rollback_completed"}, checkpoint : Nat],
           env' \in [edits : Nat, faults : Nat, crashes : Nat]
    PROVE  TypeOK'
<1>1. pc' \in [Procs -> Steps] /\ via' \in [Procs -> EntryPoints]
    BY DEF Leave, Goto, TypeOK, Steps, EntryPoints
<1>2. blocks' \in [Procs -> Seq(Block)]
  <2>1. <<>> \in Seq(Block)
      OBVIOUS
  <2>2. QED
      BY <2>1 DEF Leave, TypeOK
<1>3. /\ at' \in [Procs -> Nat] /\ mine' \in [Procs -> 0 .. Len(checkpoints')]
      /\ undoFailed' \in [Procs -> BOOLEAN]
    BY DEF Leave, TypeOK
<1>4. original' \in [Procs -> [Files -> MaybeContent]]
    BY PatchAssumption DEF Leave, TypeOK
<1>5. /\ moved' \in [Procs -> SUBSET Files] /\ sinceBackup' \in [Procs -> SUBSET Files]
      /\ sinceCheck' \in [Procs -> SUBSET Files] /\ unsynced' \in [Procs -> SUBSET Files]
    BY DEF Leave, TypeOK
<1>6. QED
    BY <1>1, <1>2, <1>3, <1>4, <1>5 DEF Leave, TypeOK

\* A fault is counted.
LEMMA FaultType ==
    ASSUME TypeOK, NEW kind, Fault(kind)
    PROVE  env' \in [edits : Nat, faults : Nat, crashes : Nat]
<1>1. env \in [edits : Nat, faults : Nat, crashes : Nat]
    BY DEF TypeOK
<1>2. QED
    BY <1>1 DEF Fault

\* CheckpointManager.create keeps the types.
LEMMA CheckpointingType ==
    ASSUME TypeOK, Locals, NEW p \in Procs, Checkpointing(p)
    PROVE  TypeOK'
<1>1. CASE BeginCheckpoint(p)
  <2>1. EmptyCheckpoint \in Checkpoint
      BY DEF EmptyCheckpoint, Checkpoint, MaybeContent
  <2>2. /\ checkpoints' \in Seq(Checkpoint)
        /\ Len(checkpoints') = Len(checkpoints) + 1
      BY <1>1, <2>1 DEF BeginCheckpoint, TypeOK
  <2>3. /\ written' \in Seq([Files -> MaybeContent \cup {Unwritten}])
        /\ raced' \in Seq(SUBSET Files)
        /\ Len(written') = Len(checkpoints') /\ Len(raced') = Len(checkpoints')
    <3>1. [f \in Files |-> Unwritten] \in [Files -> MaybeContent \cup {Unwritten}]
        OBVIOUS
    <3>2. {} \in SUBSET Files
        OBVIOUS
    <3>3. QED
        BY <1>1, <2>2, <3>1, <3>2, AppendProperties DEF BeginCheckpoint, TypeOK
  <2>4. mine' \in [Procs -> 0 .. Len(checkpoints')] /\ applied' \subseteq DOMAIN checkpoints'
      BY <1>1, <2>2 DEF BeginCheckpoint, TypeOK
  <2>5. QED
      BY <1>1, <2>2, <2>3, <2>4 DEF BeginCheckpoint, TypeOK, Goto, tree, witness, Steps
<1>2. CASE BackupBlock(p)
  <2> DEFINE f == blocks[p][at[p]].file
             c == checkpoints[mine[p]]
  <2>1. pc[p] = "backup" /\ at[p] <= Len(blocks[p])
      BY <1>2 DEF BackupBlock
  <2>2. f \in Files
      BY <2>1, OwnBlock DEF Locals, LocalsOf
  <2>3. c \in Checkpoint /\ mine[p] \in 1 .. Len(checkpoints)
      BY <2>1, OwnCheckpoint DEF Locals, LocalsOf
  <2>4. EntryOf(f, c) \in Entry
      BY <2>2 DEF EntryOf, Entry, TypeOK
  <2>5. [c EXCEPT !.entries = Append(@, EntryOf(f, c)),
                  !.backup[f] = IF disk[f] # Absent THEN disk[f] ELSE @] \in Checkpoint
    <3>1. Append(c.entries, EntryOf(f, c)) \in Seq(Entry)
        BY <2>3, <2>4, AppendProperties DEF Checkpoint
    <3>2. disk[f] \in MaybeContent /\ c.backup \in [Files -> MaybeContent] /\ c.metadata \in BOOLEAN
        BY <2>2, <2>3 DEF TypeOK, Checkpoint
    <3>3. QED
        BY <2>3, <3>1, <3>2 DEF Checkpoint
  <2>6. checkpoints' \in Seq(Checkpoint) /\ Len(checkpoints') = Len(checkpoints)
      BY <1>2, <2>3, <2>5, ExceptSeq DEF BackupBlock, TypeOK
  <2>7. sinceBackup' \in [Procs -> SUBSET Files] /\ at' \in [Procs -> Nat]
      BY <1>2 DEF BackupBlock, TypeOK
  <2>8. QED
      BY <1>2, <2>6, <2>7 DEF BackupBlock, TypeOK, tree, job
<1>3. CASE BackupFails(p)
    BY <1>3, FaultType, LeaveType DEF BackupFails, TypeOK, store
<1>4. CASE WriteMetadata(p)
  <2>1. checkpoints[mine[p]] \in Checkpoint /\ mine[p] \in 1 .. Len(checkpoints)
      BY <1>4, OwnCheckpoint DEF WriteMetadata, Locals, LocalsOf
  <2>2. [checkpoints[mine[p]] EXCEPT !.metadata = TRUE] \in Checkpoint
      BY <2>1 DEF Checkpoint
  <2>3. checkpoints' \in Seq(Checkpoint) /\ Len(checkpoints') = Len(checkpoints)
      BY <1>4, <2>1, <2>2, ExceptSeq DEF WriteMetadata, TypeOK
  <2>4. QED
      BY <1>4, <2>3 DEF WriteMetadata, TypeOK, Goto, tree, job, history, witness, Steps
<1>5. QED
    BY <1>1, <1>2, <1>3, <1>4 DEF Checkpointing

\* A change to the working tree keeps the types.
LEMMA MovedType ==
    ASSUME TypeOK, NEW f \in Files, Moved(f) \/ UNCHANGED moved
    PROVE  moved' \in [Procs -> SUBSET Files]
<1>1. moved \in [Procs -> SUBSET Files]
    BY DEF TypeOK
<1>2. QED
    BY <1>1 DEF Moved

LEMMA RenameOverType ==
    ASSUME TypeOK, NEW f \in Files, NEW c \in MaybeContent, RenameOver(f, c)
    PROVE  disk' \in [Files -> MaybeContent] /\ moved' \in [Procs -> SUBSET Files]
BY DEF RenameOver, Moved, TypeOK

LEMMA UnlinkType ==
    ASSUME TypeOK, NEW f \in Files, Unlink(f)
    PROVE  disk' \in [Files -> MaybeContent] /\ moved' \in [Procs -> SUBSET Files]
BY DEF Unlink, Moved, TypeOK, MaybeContent

LEMMA SurpriseType ==
    ASSUME TypeOK, NEW f \in Files, NEW Q \in SUBSET Procs, Surprise(Q, f)
    PROVE  /\ sinceBackup' \in [Procs -> SUBSET Files]
           /\ sinceCheck' \in [Procs -> SUBSET Files]
BY DEF Surprise, TypeOK

LEMMA RecordWriteType ==
    ASSUME TypeOK, NEW p \in Procs, NEW f \in Files, RecordWrite(p, f),
           mine[p] \in DOMAIN checkpoints, UNCHANGED checkpoints
    PROVE  /\ written' \in Seq([Files -> MaybeContent \cup {Unwritten}])
           /\ raced' \in Seq(SUBSET Files)
           /\ Len(written') = Len(checkpoints') /\ Len(raced') = Len(checkpoints')
           /\ applied' \subseteq DOMAIN checkpoints'
           /\ sinceBackup' \in [Procs -> SUBSET Files]
           /\ sinceCheck' \in [Procs -> SUBSET Files]
<1> DEFINE W == [Files -> MaybeContent \cup {Unwritten}]
<1>1. mine[p] \in 1 .. Len(written) /\ mine[p] \in 1 .. Len(raced)
    BY OwnCheckpoint DEF TypeOK
<1>2. written \in Seq(W) /\ raced \in Seq(SUBSET Files) /\ disk[f] \in MaybeContent
    BY DEF TypeOK
<1>3. written[mine[p]] \in W /\ raced[mine[p]] \in SUBSET Files
    BY <1>1, <1>2, ElementOfSeq
<1>4. [written[mine[p]] EXCEPT ![f] = IF @ = Unwritten THEN disk[f] ELSE @] \in W
    BY <1>2, <1>3
<1>5. written' \in Seq(W) /\ Len(written') = Len(written)
    BY <1>1, <1>2, <1>4, ExceptSeq DEF RecordWrite
<1>6. raced' \in Seq(SUBSET Files) /\ Len(raced') = Len(raced)
    BY <1>1, <1>2, <1>3, ExceptSeq DEF RecordWrite
<1>7. sinceBackup' \in [Procs -> SUBSET Files] /\ sinceCheck' \in [Procs -> SUBSET Files]
    BY SurpriseType DEF RecordWrite
<1>8. QED
    BY <1>5, <1>6, <1>7 DEF RecordWrite, TypeOK

\* PatchApplier.apply keeps the types.
LEMMA ApplyingType ==
    ASSUME TypeOK, Locals, NEW p \in Procs, Applying(p)
    PROVE  TypeOK'
<1> DEFINE f == blocks[p][at[p]].file
<1>1. CASE Prepare(p)
    BY <1>1 DEF Prepare, Goto, TypeOK, store, history, witness, Steps
<1>2. CASE PrepareRefused(p)
    BY <1>2, LeaveType DEF PrepareRefused, store, TypeOK
<1>3. CASE SkipMerged(p)
    BY <1>3 DEF SkipMerged, TypeOK, tree, store, job, history, witness
<1>4. CASE ApplyDelete(p)
  <2>1. f \in Files /\ mine[p] \in DOMAIN checkpoints
      BY <1>4, OwnBlock DEF ApplyDelete, AtOperation, Locals, LocalsOf
  <2>2. Unlink(f) /\ RecordWrite(p, f) /\ UNCHANGED checkpoints
      BY <1>4 DEF ApplyDelete, store
  <2>3. disk' \in [Files -> MaybeContent] /\ moved' \in [Procs -> SUBSET Files]
      BY <2>1, <2>2, UnlinkType
  <2>4. at' \in [Procs -> Nat]
      BY <1>4 DEF ApplyDelete, TypeOK
  <2>5. QED
      BY <1>4, <2>1, <2>2, <2>3, <2>4, RecordWriteType DEF ApplyDelete, TypeOK, store, job
<1>5. CASE ApplyCreate(p)
  <2>1. f \in Files /\ mine[p] \in DOMAIN checkpoints
      BY <1>5, OwnBlock DEF ApplyCreate, AtOperation, Locals, LocalsOf
  <2>2. RenameOver(f, NewContent(p, at[p])) /\ RecordWrite(p, f) /\ UNCHANGED checkpoints
      BY <1>5 DEF ApplyCreate, store
  <2>3. NewContent(p, at[p]) \in MaybeContent
      BY <1>5, OwnBlock, NewContentType DEF ApplyCreate, AtOperation, Locals, LocalsOf, MaybeContent
  <2>4. disk' \in [Files -> MaybeContent] /\ moved' \in [Procs -> SUBSET Files]
      BY <2>1, <2>2, <2>3, RenameOverType
  <2>5. at' \in [Procs -> Nat]
      BY <1>5 DEF ApplyCreate, TypeOK
  <2>6. QED
      BY <1>5, <2>1, <2>2, <2>4, <2>5, RecordWriteType DEF ApplyCreate, TypeOK, store, job
<1>6. CASE CheckUpdate(p)
    BY <1>6 DEF CheckUpdate, Goto, TypeOK, tree, store, job, Steps
<1>7. ASSUME BeginUndo(p), at[p] >= 1, env' \in [edits : Nat, faults : Nat, crashes : Nat]
      PROVE  TypeOK'
  <2>1. at' \in [Procs -> Nat]
      BY <1>7 DEF BeginUndo, TypeOK
  <2>2. QED
      BY <1>7, <2>1 DEF BeginUndo, Goto, TypeOK, tree, store, job, history, witness, Steps
<1>8. CASE UpdateRefused(p)
    BY <1>7, <1>8 DEF UpdateRefused, AtOperation, Locals, LocalsOf, TypeOK
<1>9. CASE ReplaceFile(p)
  <2>1. f \in Files /\ mine[p] \in DOMAIN checkpoints
      BY <1>9, OwnBlock DEF ReplaceFile, Locals, LocalsOf
  <2>2. RenameOver(f, NewContent(p, at[p])) /\ RecordWrite(p, f) /\ UNCHANGED checkpoints
      BY <1>9 DEF ReplaceFile, store
  <2>3. NewContent(p, at[p]) \in MaybeContent
      BY <1>9, OwnBlock, NewContentType DEF ReplaceFile, Locals, LocalsOf, MaybeContent
  <2>4. disk' \in [Files -> MaybeContent] /\ moved' \in [Procs -> SUBSET Files]
      BY <2>1, <2>2, <2>3, RenameOverType
  <2>5. at' \in [Procs -> Nat] /\ pc' \in [Procs -> Steps]
      BY <1>9 DEF ReplaceFile, Goto, TypeOK, Steps
  <2>6. QED
      BY <1>9, <2>1, <2>2, <2>4, <2>5, RecordWriteType DEF ReplaceFile, TypeOK, store, job
<1>10. CASE OperationFails(p)
    BY <1>7, <1>10, FaultType DEF OperationFails, Locals, LocalsOf
<1>11. CASE SyncFails(p)
  <2>1. /\ f \in Files /\ mine[p] \in DOMAIN checkpoints
        /\ NewContent(p, at[p]) \in MaybeContent
        /\ at[p] >= 1
    <3>1. CASE pc[p] = "replace"
        BY <3>1, OwnBlock, NewContentType DEF Locals, LocalsOf, MaybeContent
    <3>2. CASE AtOperation(p, "create")
        BY <3>2, OwnBlock, NewContentType DEF AtOperation, Locals, LocalsOf, MaybeContent
    <3>3. QED
        BY <1>11, <3>1, <3>2 DEF SyncFails
  <2>2. RenameOver(f, NewContent(p, at[p])) /\ RecordWrite(p, f) /\ UNCHANGED checkpoints
      BY <1>11 DEF SyncFails, store
  <2>3. disk' \in [Files -> MaybeContent] /\ moved' \in [Procs -> SUBSET Files]
      BY <2>1, <2>2, RenameOverType
  <2>4. at' \in [Procs -> Nat] /\ unsynced' \in [Procs -> SUBSET Files]
      BY <1>11, <2>1 DEF SyncFails, TypeOK
  <2>5. env' \in [edits : Nat, faults : Nat, crashes : Nat]
      BY <1>11, FaultType DEF SyncFails
  <2>6. QED
      BY <1>11, <2>1, <2>2, <2>3, <2>4, <2>5, RecordWriteType DEF SyncFails, Goto, TypeOK, store, job, Steps
<1>12. CASE OperationsDone(p)
  <2>1. mine[p] \in DOMAIN checkpoints
      BY <1>12 DEF OperationsDone, Locals, LocalsOf
  <2>2. QED
      BY <1>12, <2>1 DEF OperationsDone, Goto, TypeOK, tree, store, job, witness, Steps
<1>13. QED
    BY <1>1, <1>2, <1>3, <1>4, <1>5, <1>6, <1>8, <1>9, <1>10, <1>11, <1>12 DEF Applying

\* The in-process rollback keeps the types.
LEMMA UndoingType ==
    ASSUME TypeOK, Locals, NEW p \in Procs, Undoing(p)
    PROVE  TypeOK'
<1> DEFINE f == blocks[p][at[p]].file
<1>1. ASSUME pc[p] = "undo", at[p] >= 1, TakeBack(p)
      PROVE  /\ disk' \in [Files -> MaybeContent] /\ moved' \in [Procs -> SUBSET Files]
             /\ sinceBackup' \in [Procs -> SUBSET Files] /\ sinceCheck' \in [Procs -> SUBSET Files]
  <2>1. f \in Files /\ OldContent(p, at[p]) \in MaybeContent
      BY <1>1, OwnBlock, OldContentType DEF Locals, LocalsOf
  <2>2. Unlink(f) \/ RenameOver(f, OldContent(p, at[p]))
      BY <1>1 DEF TakeBack
  <2>3. Surprise(Procs \ {p}, f)
      BY <1>1 DEF TakeBack
  <2>4. QED
      BY <2>1, <2>2, <2>3, UnlinkType, RenameOverType, SurpriseType
<1>2. CASE UndoMerged(p)
  <2>1. at' \in [Procs -> Nat]
      BY <1>2 DEF UndoMerged, TypeOK
  <2>2. QED
      BY <1>2, <2>1 DEF UndoMerged, TypeOK, tree, store, job, history, witness
<1>3. CASE UndoOperation(p)
  <2>1. at' \in [Procs -> Nat]
      BY <1>3 DEF UndoOperation, TypeOK
  <2>2. QED
      BY <1>1, <1>3, <2>1 DEF UndoOperation, TypeOK, store, job
<1>4. CASE UndoFails(p)
  <2>1. at' \in [Procs -> Nat] /\ undoFailed' \in [Procs -> BOOLEAN]
      BY <1>4 DEF UndoFails, TypeOK
  <2>2. env' \in [edits : Nat, faults : Nat, crashes : Nat]
      BY <1>4, FaultType DEF UndoFails
  <2>3. /\ disk' \in [Files -> MaybeContent] /\ moved' \in [Procs -> SUBSET Files]
        /\ sinceBackup' \in [Procs -> SUBSET Files] /\ sinceCheck' \in [Procs -> SUBSET Files]
    <3>1. CASE UNCHANGED <<tree, sinceBackup, sinceCheck>>
        BY <3>1 DEF TypeOK, tree
    <3>2. CASE TakeBack(p)
        BY <1>1, <1>4, <3>2 DEF UndoFails
    <3>3. QED
        BY <1>4, <3>1, <3>2 DEF UndoFails
  <2>4. QED
      BY <1>4, <2>1, <2>2, <2>3 DEF UndoFails, TypeOK, store
<1>5. CASE UndoDone(p)
    BY <1>5 DEF UndoDone, Goto, TypeOK, tree, store, job, history, witness, Steps
<1>6. CASE ReportFailure(p)
    BY <1>6, LeaveType DEF ReportFailure, store, TypeOK
<1>7. QED
    BY <1>2, <1>3, <1>4, <1>5, <1>6 DEF Undoing

\* Reporting an applied patch keeps the types.
LEMMA FinishingType ==
    ASSUME TypeOK, Locals, NEW p \in Procs, Finishing(p)
    PROVE  TypeOK'
<1>1. CASE UnlinkPending(p)
    BY <1>1 DEF UnlinkPending, Goto, TypeOK, tree, job, history, witness, Steps
<1>2. CASE ReturnApplied(p)
    BY <1>2, LeaveType DEF ReturnApplied, store, TypeOK
<1>3. CASE Audit(p)
  <2>1. mine[p] \in Nat
      BY DEF TypeOK
  <2>2. audited' \subseteq [event : {"patch_applied", "rollback_completed"}, checkpoint : Nat]
      BY <1>3, <2>1 DEF Audit, TypeOK
  <2>3. env' \in [edits : Nat, faults : Nat, crashes : Nat]
      BY <1>3 DEF Audit, TypeOK
  <2>4. QED
      BY <1>3, <2>2, <2>3, LeaveType DEF Audit
<1>4. QED
    BY <1>1, <1>2, <1>3 DEF Finishing

\* Restoring a checkpoint keeps the types.
LEMMA RollingBackType ==
    ASSUME TypeOK, Locals, NEW p \in Procs, RollingBack(p)
    PROVE  TypeOK'
<1> DEFINE e == RestoredEntry(p)
<1>1. ASSUME at[p] >= 1, at[p] <= Len(checkpoints[mine[p]].entries), mine[p] \in DOMAIN checkpoints
      PROVE  e.file \in Files /\ checkpoints[mine[p]].backup[e.file] \in MaybeContent
  <2>1. checkpoints[mine[p]] \in Checkpoint
      BY <1>1, OwnCheckpoint
  <2>2. checkpoints[mine[p]].entries \in Seq(Entry)
      BY <2>1 DEF Checkpoint
  <2>3. at[p] \in 1 .. Len(checkpoints[mine[p]].entries)
      BY <1>1, <2>2 DEF TypeOK
  <2>4. e \in Entry
      BY <2>2, <2>3, ElementOfSeq DEF RestoredEntry
  <2>5. QED
      BY <2>1, <2>4 DEF Entry, Checkpoint
<1>2. CASE StartRollback(p)
  <2>1. PICK entry \in Rollbacks, c \in DOMAIN checkpoints :
            via' = [via EXCEPT ![p] = entry] /\ mine' = [mine EXCEPT ![p] = c]
      BY <1>2 DEF StartRollback
  <2>2. via' \in [Procs -> EntryPoints]
      BY <2>1, PatchAssumption DEF TypeOK, EntryPoints
  <2>3. mine' \in [Procs -> 0 .. Len(checkpoints')]
      BY <1>2, <2>1 DEF StartRollback, TypeOK, store
  <2>4. QED
      BY <1>2, <2>2, <2>3 DEF StartRollback, Goto, TypeOK, tree, store, history, witness, Steps
<1>3. CASE RemoveCreated(p)
  <2>1. e.file \in Files
      BY <1>1, <1>3 DEF RemoveCreated, AtEntry, Locals, LocalsOf
  <2>2. disk' \in [Files -> MaybeContent] /\ moved' \in [Procs -> SUBSET Files]
      BY <1>3, <2>1, UnlinkType DEF RemoveCreated
  <2>3. sinceBackup' \in [Procs -> SUBSET Files] /\ sinceCheck' \in [Procs -> SUBSET Files]
      BY <1>3, <2>1, SurpriseType DEF RemoveCreated
  <2>4. at' \in [Procs -> Nat]
      BY <1>3 DEF RemoveCreated, TypeOK
  <2>5. QED
      BY <1>3, <2>2, <2>3, <2>4 DEF RemoveCreated, TypeOK, store, job
<1>4. CASE TruncateTarget(p)
  <2>1. e.file \in Files
      BY <1>1, <1>4 DEF TruncateTarget, AtEntry, Locals, LocalsOf
  <2>2. disk' \in [Files -> MaybeContent]
      BY <1>4, <2>1, ContentAssumption DEF TruncateTarget, TypeOK, MaybeContent
  <2>3. moved' \in [Procs -> SUBSET Files]
    <3>1. Moved(e.file) \/ UNCHANGED moved
        BY <1>4 DEF TruncateTarget
    <3>2. QED
        BY <2>1, <3>1, MovedType
  <2>4. sinceBackup' \in [Procs -> SUBSET Files] /\ sinceCheck' \in [Procs -> SUBSET Files]
      BY <1>4, <2>1, SurpriseType DEF TruncateTarget
  <2>5. pc' \in [Procs -> Steps]
      BY <1>4 DEF TruncateTarget, Goto, TypeOK, Steps
  <2>6. QED
      BY <1>4, <2>2, <2>3, <2>4, <2>5 DEF TruncateTarget, TypeOK, store, job
<1>5. CASE CopyBackup(p)
  <2>1. e.file \in Files /\ checkpoints[mine[p]].backup[e.file] \in MaybeContent
      BY <1>1, <1>5 DEF CopyBackup, AtEntry, Locals, LocalsOf
  <2>2. disk' \in [Files -> MaybeContent]
      BY <1>5, <2>1 DEF CopyBackup, TypeOK
  <2>3. sinceBackup' \in [Procs -> SUBSET Files] /\ sinceCheck' \in [Procs -> SUBSET Files]
      BY <1>5, <2>1, SurpriseType DEF CopyBackup
  <2>4. at' \in [Procs -> Nat] /\ pc' \in [Procs -> Steps]
      BY <1>5 DEF CopyBackup, Goto, TypeOK, Steps
  <2>5. QED
      BY <1>5, <2>2, <2>3, <2>4 DEF CopyBackup, TypeOK, store, job
<1>6. CASE RestoreFails(p)
    BY <1>6, FaultType, LeaveType DEF RestoreFails, store, TypeOK
<1>7. CASE RestoreDone(p)
    BY <1>7 DEF RestoreDone, Goto, TypeOK, tree, store, job, history, witness, Steps
<1>8. CASE UndoCommandReturns(p)
    BY <1>8, LeaveType DEF UndoCommandReturns, store, TypeOK
<1>9. QED
    BY <1>2, <1>3, <1>4, <1>5, <1>6, <1>7, <1>8 DEF RollingBack

\* A crash and a user's edit keep the types.
LEMMA EnvironmentType ==
    ASSUME TypeOK, (\E p \in Procs : Crash(p)) \/ UserEdit
    PROVE  TypeOK'
<1>1. env \in [edits : Nat, faults : Nat, crashes : Nat]
    BY DEF TypeOK
<1>2. ASSUME NEW p \in Procs, Crash(p) PROVE TypeOK'
  <2>1. env' \in [edits : Nat, faults : Nat, crashes : Nat]
      BY <1>1, <1>2 DEF Crash
  <2>2. QED
      BY <1>2, <2>1, LeaveType DEF Crash, store, TypeOK
<1>3. CASE UserEdit
  <2>1. PICK f \in Files :
            /\ \/ /\ disk[f] # Absent
                  /\ \E r \in Regions, t \in Text :
                        disk' = [disk EXCEPT ![f] = [disk[f] EXCEPT ![r] = t]]
                  /\ Moved(f) \/ UNCHANGED moved
               \/ Unlink(f)
               \/ \E c \in Content : RenameOver(f, c)
            /\ Surprise(Procs, f)
      BY <1>3 DEF UserEdit
  <2>2. disk' \in [Files -> MaybeContent] /\ moved' \in [Procs -> SUBSET Files]
    <3>1. CASE Unlink(f)
        BY <3>1, UnlinkType
    <3>2. ASSUME NEW c \in Content, RenameOver(f, c)
          PROVE  disk' \in [Files -> MaybeContent] /\ moved' \in [Procs -> SUBSET Files]
        BY <3>2, RenameOverType DEF MaybeContent
    <3>3. ASSUME disk[f] # Absent, NEW r \in Regions, NEW t \in Text,
                 disk' = [disk EXCEPT ![f] = [disk[f] EXCEPT ![r] = t]],
                 Moved(f) \/ UNCHANGED moved
          PROVE  disk' \in [Files -> MaybeContent] /\ moved' \in [Procs -> SUBSET Files]
      <4>1. disk[f] \in Content
          BY <3>3 DEF TypeOK, MaybeContent
      <4>2. [disk[f] EXCEPT ![r] = t] \in MaybeContent
          BY <4>1 DEF Content, MaybeContent
      <4>3. QED
          BY <3>3, <4>2, MovedType DEF TypeOK
    <3>4. QED
        BY <2>1, <3>1, <3>2, <3>3
  <2>3. sinceBackup' \in [Procs -> SUBSET Files] /\ sinceCheck' \in [Procs -> SUBSET Files]
      BY <2>1, SurpriseType
  <2>4. env' \in [edits : Nat, faults : Nat, crashes : Nat]
      BY <1>1, <1>3 DEF UserEdit
  <2>5. QED
      BY <1>3, <2>2, <2>3, <2>4 DEF UserEdit, TypeOK, store, job
<1>4. QED
    BY <1>2, <1>3

LEMMA NextType == TypeOK /\ Locals /\ [Next]_vars => TypeOK'
<1> SUFFICES ASSUME TypeOK, Locals, [Next]_vars PROVE TypeOK'
    OBVIOUS
<1>1. CASE UNCHANGED vars
    BY <1>1 DEF vars, tree, store, job, history, witness, TypeOK
<1>2. CASE UserEdit
    BY <1>2, EnvironmentType
<1>3. ASSUME NEW p \in Procs, Step(p) PROVE TypeOK'
    BY <1>3, StartingType, CheckpointingType, ApplyingType, UndoingType, FinishingType,
       RollingBackType, EnvironmentType DEF Step
<1>4. QED
    BY <1>1, <1>2, <1>3 DEF Next, Step, Starting

-----------------------------------------------------------------------------
(* Locals, coverage, and what a patch wrote *)

\* A step of one process leaves the locals of the others alone.
LEMMA OthersUntouched ==
    ASSUME TypeOK, NEW p \in Procs, Step(p), NEW q \in Procs, q # p
    PROVE  /\ pc'[q] = pc[q] /\ at'[q] = at[q] /\ blocks'[q] = blocks[q]
           /\ mine'[q] = mine[q] /\ original'[q] = original[q]
<1> DEFINE Kept5 == /\ pc'[q] = pc[q] /\ at'[q] = at[q] /\ blocks'[q] = blocks[q]
                    /\ mine'[q] = mine[q] /\ original'[q] = original[q]
<1>1. /\ pc = [r \in Procs |-> pc[r]] /\ at = [r \in Procs |-> at[r]]
      /\ blocks = [r \in Procs |-> blocks[r]] /\ mine = [r \in Procs |-> mine[r]]
      /\ original = [r \in Procs |-> original[r]]
    BY DEF TypeOK
<1>2. CASE Leave(p)
    BY <1>1, <1>2 DEF Leave, Goto
<1>3. CASE Starting(p)
    BY <1>1, <1>3 DEF Starting, Edit, StartApply, StartNative, StartDirect, Start, Goto, job
<1>4. CASE Checkpointing(p)
    BY <1>1, <1>2, <1>4
       DEF Checkpointing, BeginCheckpoint, BackupBlock, BackupFails, WriteMetadata, Goto, job
<1>5. CASE Applying(p)
    BY <1>1, <1>2, <1>5
       DEF Applying, Prepare, PrepareRefused, SkipMerged, ApplyDelete, ApplyCreate, CheckUpdate,
           UpdateRefused, ReplaceFile, OperationFails, SyncFails, OperationsDone, BeginUndo,
           Goto, job
<1>6. CASE Undoing(p)
    BY <1>1, <1>2, <1>6
       DEF Undoing, UndoMerged, UndoOperation, UndoFails, UndoDone, ReportFailure, Goto, job
<1>7. CASE Finishing(p)
    BY <1>1, <1>2, <1>7 DEF Finishing, UnlinkPending, ReturnApplied, Audit, Goto, job
<1>8. CASE RollingBack(p)
    BY <1>1, <1>2, <1>8
       DEF RollingBack, StartRollback, RemoveCreated, TruncateTarget, CopyBackup, RestoreFails,
           RestoreDone, UndoCommandReturns, Goto, job
<1>9. CASE Crash(p)
    BY <1>2, <1>9 DEF Crash
<1>10. QED
    BY <1>3, <1>4, <1>5, <1>6, <1>7, <1>8, <1>9 DEF Step

\* What one turn of the loop of create does to the checkpoint it makes.
LEMMA BackupEffect ==
    ASSUME TypeOK, Locals, NEW p \in Procs, BackupBlock(p)
    PROVE  LET m == mine[p]
               f == blocks[p][at[p]].file
               es == checkpoints[m].entries
               e == EntryOf(f, checkpoints[m])
           IN  /\ m \in 1 .. Len(checkpoints) /\ f \in Files
               /\ at[p] \in DOMAIN blocks[p]
               /\ es \in Seq(Entry) /\ e \in Entry
               /\ DOMAIN checkpoints' = DOMAIN checkpoints
               /\ \A c \in DOMAIN checkpoints : c # m => checkpoints'[c] = checkpoints[c]
               /\ checkpoints'[m].metadata = checkpoints[m].metadata
               /\ checkpoints'[m].entries = Append(es, e)
               /\ checkpoints'[m].backup = [checkpoints[m].backup EXCEPT ![f] =
                                                IF disk[f] # Absent THEN disk[f] ELSE @]
<1> DEFINE m == mine[p]
           f == blocks[p][at[p]].file
           es == checkpoints[m].entries
           e == EntryOf(f, checkpoints[m])
           after == [checkpoints[m] EXCEPT !.entries = Append(@, e),
                                           !.backup[f] = IF disk[f] # Absent THEN disk[f] ELSE @]
<1>1. pc[p] = "backup" /\ at[p] <= Len(blocks[p])
    BY DEF BackupBlock
<1>2. f \in Files /\ at[p] \in DOMAIN blocks[p]
    BY <1>1, OwnBlock DEF Locals, LocalsOf
<1>3. checkpoints[m] \in Checkpoint /\ m \in 1 .. Len(checkpoints)
    BY <1>1, OwnCheckpoint DEF Locals, LocalsOf
<1>4. es \in Seq(Entry)
    BY <1>3 DEF Checkpoint
<1>5. e \in Entry
    BY <1>2 DEF EntryOf, Entry, TypeOK
<1>6. checkpoints' = [checkpoints EXCEPT ![m] = after]
    BY DEF BackupBlock
<1>7. checkpoints \in Seq(Checkpoint)
    BY DEF TypeOK
<1>8. /\ DOMAIN checkpoints' = DOMAIN checkpoints
      /\ \A c \in DOMAIN checkpoints : c # m => checkpoints'[c] = checkpoints[c]
      /\ checkpoints'[m] = after
  <2> HIDE DEF after
  <2> QED
      BY <1>3, <1>6, <1>7
<1>9. /\ checkpoints'[m].metadata = checkpoints[m].metadata
      /\ checkpoints'[m].entries = Append(es, e)
      /\ checkpoints'[m].backup = [checkpoints[m].backup EXCEPT ![f] =
                                        IF disk[f] # Absent THEN disk[f] ELSE @]
    BY <1>3, <1>8 DEF Checkpoint
<1>10. QED
    BY <1>2, <1>3, <1>4, <1>5, <1>8, <1>9

\* A checkpoint is touched by the process that makes it, nobody else.
LEMMA CheckpointsChange ==
    ASSUME NEW p \in Procs, Step(p)
    PROVE  UNCHANGED checkpoints \/ BeginCheckpoint(p) \/ BackupBlock(p) \/ WriteMetadata(p)
<1>1. CASE Starting(p)
    BY <1>1 DEF Starting, Edit, StartApply, StartNative, StartDirect, Start, store
<1>2. CASE Checkpointing(p)
    BY <1>2 DEF Checkpointing, BackupFails, store
<1>3. CASE Applying(p)
    BY <1>3 DEF Applying, Prepare, PrepareRefused, SkipMerged, ApplyDelete, ApplyCreate,
           CheckUpdate, UpdateRefused, ReplaceFile, OperationFails, SyncFails, OperationsDone,
           BeginUndo, store
<1>4. CASE Undoing(p)
    BY <1>4 DEF Undoing, UndoMerged, UndoOperation, UndoFails, UndoDone, ReportFailure, store
<1>5. CASE Finishing(p)
    BY <1>5 DEF Finishing, UnlinkPending, ReturnApplied, Audit, store
<1>6. CASE RollingBack(p)
    BY <1>6 DEF RollingBack, StartRollback, RemoveCreated, TruncateTarget, CopyBackup,
           RestoreFails, RestoreDone, UndoCommandReturns, store
<1>7. CASE Crash(p)
    BY <1>7 DEF Crash, store
<1>8. QED
    BY <1>1, <1>2, <1>3, <1>4, <1>5, <1>6, <1>7 DEF Step

\* A checkpoint is never taken away, never loses its metadata and never covers less.
LEMMA CheckpointsGrow ==
    ASSUME TypeOK, Locals, NEW p \in Procs, Step(p), NEW c \in DOMAIN checkpoints
    PROVE  /\ c \in DOMAIN checkpoints'
           /\ checkpoints[c].metadata => checkpoints'[c].metadata
           /\ Covered(c) \subseteq Covered(c)'
<1>1. checkpoints \in Seq(Checkpoint) /\ c \in 1 .. Len(checkpoints)
    BY DEF TypeOK
<1>2. CASE UNCHANGED checkpoints
    BY <1>2 DEF Covered
<1>3. CASE BeginCheckpoint(p)
  <2>1. EmptyCheckpoint \in Checkpoint
      BY DEF EmptyCheckpoint, Checkpoint, MaybeContent
  <2>2. c \in DOMAIN checkpoints' /\ checkpoints'[c] = checkpoints[c]
      BY <1>1, <1>3, <2>1, AppendProperties DEF BeginCheckpoint
  <2>3. QED
      BY <2>2 DEF Covered
<1>4. CASE BackupBlock(p)
  <2>1. CASE c # mine[p]
    <3>1. checkpoints'[c] = checkpoints[c] /\ DOMAIN checkpoints' = DOMAIN checkpoints
        BY <1>4, <2>1, BackupEffect
    <3>2. QED
        BY <3>1 DEF Covered
  <2>2. CASE c = mine[p]
    <3> DEFINE es == checkpoints[c].entries
               es2 == checkpoints'[c].entries
    <3>1. /\ DOMAIN checkpoints' = DOMAIN checkpoints
          /\ checkpoints'[c].metadata = checkpoints[c].metadata
          /\ es \in Seq(Entry)
          /\ \E e \in Entry : es2 = Append(es, e)
        BY <1>4, <2>2, BackupEffect
    <3>2. \A i \in DOMAIN es : i \in DOMAIN es2 /\ es2[i] = es[i]
        BY <3>1
    <3>3. QED
        BY <3>1, <3>2 DEF Covered
  <2>3. QED
      BY <2>1, <2>2
<1>5. CASE WriteMetadata(p)
  <2>1. checkpoints[c] \in Checkpoint
      BY <1>1, ElementOfSeq
  <2>2. /\ DOMAIN checkpoints' = DOMAIN checkpoints
        /\ checkpoints'[c].entries = checkpoints[c].entries
        /\ checkpoints[c].metadata => checkpoints'[c].metadata
      BY <1>1, <1>5, <2>1 DEF WriteMetadata, Checkpoint
  <2>3. QED
      BY <2>2 DEF Covered
<1>6. QED
    BY <1>2, <1>3, <1>4, <1>5, CheckpointsChange

\* A process that becomes idle has no locals to speak of.
LEMMA LeaveLocals ==
    ASSUME TypeOK, NEW p \in Procs, Leave(p)
    PROVE  pc'[p] = "idle"
BY DEF Leave, Goto, TypeOK

\* A step keeps the locals of the process that takes it consistent.
LEMMA OwnLocalsStep ==
    ASSUME TypeOK, TypeOK', Locals, NEW p \in Procs, Step(p)
    PROVE  LocalsOf(p)'
<1>1. /\ pc = [r \in Procs |-> pc[r]] /\ at = [r \in Procs |-> at[r]]
      /\ blocks = [r \in Procs |-> blocks[r]] /\ mine = [r \in Procs |-> mine[r]]
      /\ original = [r \in Procs |-> original[r]]
    BY DEF TypeOK
<1>2. at[p] \in Nat /\ Len(blocks[p]) \in Nat
    BY DEF TypeOK
<1>3. LocalsOf(p)
    BY DEF Locals
<1>4. CASE Leave(p)
    BY <1>4, LeaveLocals DEF LocalsOf
<1>5. CASE Starting(p)
  <2>1. CASE Edit(p)
      BY <1>3, <2>1 DEF Edit, LocalsOf, job
  <2>2. CASE \E entry, bs : Start(p, entry, bs)
      BY <1>1, <2>2 DEF Start, Goto, LocalsOf
  <2>3. QED
      BY <1>5, <2>1, <2>2 DEF Starting, StartApply, StartNative, StartDirect
<1>6. CASE Checkpointing(p)
  <2>1. CASE BeginCheckpoint(p)
    <3>1. Len(checkpoints) + 1 \in DOMAIN checkpoints'
        BY <2>1 DEF BeginCheckpoint, TypeOK
    <3>2. QED
        BY <1>1, <1>3, <2>1, <3>1 DEF BeginCheckpoint, Goto, LocalsOf
  <2>2. CASE BackupBlock(p)
    <3>1. mine[p] \in DOMAIN checkpoints' /\ mine'[p] = mine[p] /\ pc'[p] = "backup"
        BY <1>3, <2>2, BackupEffect DEF BackupBlock, LocalsOf, job
    <3>2. at'[p] >= 1
        BY <1>1, <1>2, <2>2 DEF BackupBlock
    <3>3. QED
        BY <3>1, <3>2 DEF LocalsOf
  <2>3. CASE WriteMetadata(p)
      BY <1>1, <1>3, <2>3, CheckpointsGrow DEF Step, Checkpointing, WriteMetadata, Goto, LocalsOf, job
  <2>4. QED
      BY <1>4, <1>6, <2>1, <2>2, <2>3 DEF Checkpointing, BackupFails
<1>7. CASE Applying(p)
  <2>1. CASE Prepare(p)
    <3>1. /\ pc'[p] = "apply" /\ at'[p] = 1 /\ mine'[p] = mine[p] /\ blocks'[p] = blocks[p]
          /\ original'[p] = disk /\ checkpoints' = checkpoints /\ pc[p] = "prepare"
        BY <1>1, <2>1 DEF Prepare, Goto, store
    <3>2. \A i \in DOMAIN blocks[p] :
                blocks[p][i].op = "update" => disk[blocks[p][i].file] \in Content
      <4>1. ASSUME NEW i \in DOMAIN blocks[p], blocks[p][i].op = "update"
            PROVE  disk[blocks[p][i].file] \in Content
        <5>1. blocks[p] \in Seq(Block)
            BY DEF TypeOK
        <5>2. blocks[p][i].file \in Files
            BY <5>1, ElementOfSeq, BlockFields
        <5>3. disk[blocks[p][i].file] # Absent
            BY <2>1, <4>1 DEF Prepare, Preparable
        <5>4. QED
            BY <5>2, <5>3 DEF TypeOK, MaybeContent
      <4>2. QED
          BY <4>1
    <3>3. QED
        BY <1>3, <3>1, <3>2 DEF LocalsOf
  <2>2. CASE SkipMerged(p)
      BY <1>1, <1>2, <1>3, <2>2 DEF SkipMerged, AtOperation, LocalsOf, store, job
  <2>3. CASE ApplyDelete(p)
      BY <1>1, <1>2, <1>3, <2>3 DEF ApplyDelete, AtOperation, LocalsOf, store, job
  <2>4. CASE ApplyCreate(p)
      BY <1>1, <1>2, <1>3, <2>4 DEF ApplyCreate, AtOperation, LocalsOf, store, job
  <2>5. CASE CheckUpdate(p)
      BY <1>1, <1>2, <1>3, <2>5 DEF CheckUpdate, Goto, AtOperation, LocalsOf, store, job
  <2>6. CASE BeginUndo(p) /\ pc[p] \in {"apply", "replace"} /\ at[p] <= Len(blocks[p])
      BY <1>1, <1>2, <1>3, <2>6 DEF BeginUndo, Goto, LocalsOf, store, job
  <2>7. CASE ReplaceFile(p)
      BY <1>1, <1>2, <1>3, <2>7 DEF ReplaceFile, Goto, LocalsOf, store, job
  <2>8. CASE SyncFails(p)
    <3>1. pc[p] \in {"apply", "replace"} /\ at[p] <= Len(blocks[p])
        BY <1>3, <2>8 DEF SyncFails, AtOperation, LocalsOf
    <3>2. /\ pc'[p] = "undo" /\ at'[p] = at[p] - 1 /\ mine'[p] = mine[p]
          /\ blocks'[p] = blocks[p] /\ checkpoints' = checkpoints
        BY <1>1, <2>8 DEF SyncFails, Goto, store, job
    <3>3. QED
        BY <1>2, <1>3, <3>1, <3>2 DEF LocalsOf
  <2>9. CASE OperationsDone(p)
      BY <1>1, <1>2, <1>3, <2>9 DEF OperationsDone, Goto, LocalsOf, store, job
  <2>10. QED
      BY <1>4, <1>7, <2>1, <2>2, <2>3, <2>4, <2>5, <2>6, <2>7, <2>8, <2>9
         DEF Applying, PrepareRefused, UpdateRefused, OperationFails, AtOperation
<1>8. CASE Undoing(p)
  <2>1. CASE UndoMerged(p)
      BY <1>1, <1>2, <1>3, <2>1 DEF UndoMerged, LocalsOf, store, job
  <2>2. CASE UndoOperation(p)
      BY <1>1, <1>2, <1>3, <2>2 DEF UndoOperation, LocalsOf, store, job
  <2>3. CASE UndoFails(p)
    <3>1. /\ pc'[p] = "undo" /\ pc[p] = "undo" /\ at'[p] = at[p] - 1 /\ mine'[p] = mine[p]
          /\ blocks'[p] = blocks[p] /\ checkpoints' = checkpoints
        BY <1>1, <2>3 DEF UndoFails, store
    <3>2. QED
        BY <1>2, <1>3, <3>1 DEF LocalsOf
  <2>4. CASE UndoDone(p)
      BY <1>1, <1>2, <1>3, <2>4 DEF UndoDone, Goto, LocalsOf, store, job
  <2>5. QED
      BY <1>4, <1>8, <2>1, <2>2, <2>3, <2>4 DEF Undoing, ReportFailure
<1>9. CASE Finishing(p)
  <2>1. CASE UnlinkPending(p)
      BY <1>1, <1>2, <1>3, <2>1 DEF UnlinkPending, Goto, LocalsOf, job
  <2>2. QED
      BY <1>4, <1>9, <2>1 DEF Finishing, ReturnApplied, Audit
<1>10. CASE RollingBack(p)
  <2>1. CASE StartRollback(p)
    <3>1. mine'[p] \in DOMAIN checkpoints' /\ at'[p] = 1 /\ pc'[p] = "restore"
        BY <1>1, <2>1 DEF StartRollback, Goto, store
    <3>2. QED
        BY <3>1 DEF LocalsOf
  <2>2. CASE RemoveCreated(p)
      BY <1>1, <1>2, <1>3, <2>2 DEF RemoveCreated, AtEntry, LocalsOf, store, job
  <2>3. CASE TruncateTarget(p)
      BY <1>1, <1>2, <1>3, <2>3 DEF TruncateTarget, AtEntry, Goto, LocalsOf, store, job
  <2>4. CASE CopyBackup(p)
      BY <1>1, <1>2, <1>3, <2>4 DEF CopyBackup, AtEntry, Goto, LocalsOf, store, job
  <2>5. CASE RestoreDone(p)
      BY <1>1, <1>2, <1>3, <2>5 DEF RestoreDone, Goto, LocalsOf, store, job
  <2>6. QED
      BY <1>4, <1>10, <2>1, <2>2, <2>3, <2>4, <2>5 DEF RollingBack, RestoreFails, UndoCommandReturns
<1>11. CASE Crash(p)
    BY <1>4, <1>11 DEF Crash
<1>12. QED
    BY <1>5, <1>6, <1>7, <1>8, <1>9, <1>10, <1>11 DEF Step

LEMMA LocalsStep == TypeOK /\ TypeOK' /\ Locals /\ [Next]_vars => Locals'
<1> SUFFICES ASSUME TypeOK, TypeOK', Locals, [Next]_vars, NEW q \in Procs
             PROVE  LocalsOf(q)'
    BY DEF Locals
<1>1. CASE UNCHANGED vars \/ UserEdit
    BY <1>1 DEF vars, UserEdit, store, job, Locals, LocalsOf
<1>2. ASSUME NEW p \in Procs, Step(p) PROVE LocalsOf(q)'
  <2>1. CASE q = p
      BY <1>2, <2>1, OwnLocalsStep
  <2>2. CASE q # p
    <3>1. LocalsOf(q)
        BY DEF Locals
    <3>2. /\ pc'[q] = pc[q] /\ at'[q] = at[q] /\ blocks'[q] = blocks[q]
          /\ mine'[q] = mine[q] /\ original'[q] = original[q]
        BY <1>2, <2>2, OthersUntouched
    <3>3. mine[q] \in DOMAIN checkpoints => mine[q] \in DOMAIN checkpoints'
        BY <1>2, CheckpointsGrow
    <3>4. QED
        BY <3>1, <3>2, <3>3 DEF LocalsOf
  <2>3. QED
      BY <2>1, <2>2
<1>3. QED
    BY <1>1, <1>2 DEF Next, Step, Starting

\* A step keeps what its process's checkpoint covers.
LEMMA OwnCoverageStep ==
    ASSUME TypeOK, TypeOK', Locals, Locals', Coverage, NEW p \in Procs, Step(p)
    PROVE  CoverageOf(p)'
<1>1. /\ pc = [r \in Procs |-> pc[r]] /\ at = [r \in Procs |-> at[r]]
      /\ blocks = [r \in Procs |-> blocks[r]] /\ mine = [r \in Procs |-> mine[r]]
    BY DEF TypeOK
<1>2. CoverageOf(p) /\ LocalsOf(p)
    BY DEF Coverage, Locals
<1>3. CASE pc'[p] \notin Covering \cup {"backup"}
    BY <1>3 DEF CoverageOf
<1>4. ASSUME pc'[p] \in Covering, pc[p] \in Covering, mine'[p] = mine[p], blocks'[p] = blocks[p]
      PROVE  CoverageOf(p)'
  <2>1. PICK c \in DOMAIN checkpoints : c = mine[p]
      BY <1>2, <1>4 DEF LocalsOf, Covering
  <2>2. checkpoints'[c].metadata /\ Covered(c) \subseteq Covered(c)'
      BY <1>2, <1>4, <2>1, CheckpointsGrow DEF CoverageOf
  <2>3. Targets(blocks[p]) \subseteq Covered(c)
      BY <1>2, <1>4, <2>1 DEF CoverageOf
  <2>4. checkpoints'[mine'[p]].metadata /\ Targets(blocks'[p]) \subseteq Covered(c)'
      BY <1>4, <2>1, <2>2, <2>3
  <2>5. QED
      BY <1>4, <2>1, <2>4 DEF CoverageOf, Covering, Covered
<1>5. CASE BeginCheckpoint(p)
  <2>1. pc'[p] = "backup" /\ at'[p] = 1 /\ blocks'[p] = blocks[p]
      BY <1>1, <1>2, <1>5 DEF BeginCheckpoint, Goto, LocalsOf
  <2>2. \A i \in DOMAIN blocks[p] : ~ (i < 1)
      BY DEF TypeOK
  <2>3. QED
      BY <2>1, <2>2 DEF CoverageOf, Covering
<1>6. CASE BackupBlock(p)
  <2> DEFINE es == checkpoints[mine[p]].entries
             b == blocks[p][at[p]]
  <2>1. /\ pc'[p] = "backup" /\ pc[p] = "backup" /\ at'[p] = at[p] + 1
        /\ blocks'[p] = blocks[p] /\ mine'[p] = mine[p]
      BY <1>1, <1>6 DEF BackupBlock, job
  <2>2. PICK c \in DOMAIN checkpoints : c = mine[p]
      BY <1>2, <2>1 DEF LocalsOf
  <2>3. Covered(c) \subseteq Covered(c)'
      BY <2>2, CheckpointsGrow
  <2>4. b.file \in Covered(c)'
    <3>1. PICK e \in Entry : checkpoints'[c].entries = Append(es, e) /\ e.file = b.file
        BY <1>6, <2>2, BackupEffect DEF EntryOf
    <3>2. es \in Seq(Entry)
        BY <1>6, BackupEffect
    <3>3. /\ Len(es) + 1 \in DOMAIN checkpoints'[c].entries
          /\ checkpoints'[c].entries[Len(es) + 1] = e
        BY <3>1, <3>2
    <3>4. QED
        BY <3>1, <3>3 DEF Covered
  <2>5. ASSUME NEW i \in DOMAIN blocks[p], i < at[p] + 1 PROVE blocks[p][i].file \in Covered(c)'
    <3>1. CASE i < at[p]
        BY <1>2, <2>1, <2>2, <2>3, <3>1 DEF CoverageOf
    <3>2. CASE i = at[p]
        BY <2>4, <3>2
    <3>3. i < at[p] \/ i = at[p]
        BY <2>5 DEF TypeOK
    <3>4. QED
        BY <3>1, <3>2, <3>3
  <2>6. QED
      BY <2>1, <2>2, <2>5 DEF CoverageOf, Covering, Covered
<1>7. CASE WriteMetadata(p)
  <2>1. /\ pc'[p] = "prepare" /\ pc[p] = "backup" /\ at[p] > Len(blocks[p])
        /\ blocks'[p] = blocks[p] /\ mine'[p] = mine[p]
      BY <1>1, <1>7 DEF WriteMetadata, Goto, job
  <2>2. PICK c \in DOMAIN checkpoints : c = mine[p]
      BY <1>2, <2>1 DEF LocalsOf
  <2>3. checkpoints'[c].metadata
    <3>1. checkpoints \in Seq(Checkpoint) /\ checkpoints[c] \in Checkpoint
        BY <2>2, OwnCheckpoint DEF TypeOK
    <3>2. QED
        BY <1>7, <2>2, <3>1 DEF WriteMetadata, Checkpoint
  <2>4. Targets(blocks[p]) \subseteq Covered(c)
    <3>1. ASSUME NEW i \in DOMAIN blocks[p] PROVE blocks[p][i].file \in Covered(c)
      <4>1. i < at[p]
          BY <2>1 DEF TypeOK
      <4>2. QED
          BY <1>2, <2>1, <2>2, <4>1 DEF CoverageOf
    <3>2. QED
        BY <3>1 DEF Targets
  <2>5. Covered(c) \subseteq Covered(c)'
      BY CheckpointsGrow
  <2>6. QED
      BY <2>1, <2>2, <2>3, <2>4, <2>5 DEF CoverageOf, Covering, Covered
<1>8. CASE Applying(p) \/ Undoing(p) \/ Finishing(p)
  <2>1. pc[p] \in Covering \/ pc[p] = "restored"
      BY <1>8
         DEF Applying, Prepare, PrepareRefused, SkipMerged, ApplyDelete, ApplyCreate, CheckUpdate,
             UpdateRefused, ReplaceFile, OperationFails, SyncFails, OperationsDone, AtOperation,
             Undoing, UndoMerged, UndoOperation, UndoFails, UndoDone, ReportFailure,
             Finishing, UnlinkPending, ReturnApplied, Audit, Covering
  <2>2. Leave(p) \/ (/\ pc'[p] # "backup" /\ pc[p] # "restored"
                     /\ blocks'[p] = blocks[p] /\ mine'[p] = mine[p])
    <3>1. CASE Applying(p)
        BY <1>1, <3>1
           DEF Applying, Prepare, PrepareRefused, SkipMerged, ApplyDelete, ApplyCreate, CheckUpdate,
               UpdateRefused, ReplaceFile, OperationFails, SyncFails, OperationsDone, AtOperation,
               BeginUndo, Goto, job
    <3>2. CASE Undoing(p)
        BY <1>1, <3>2
           DEF Undoing, UndoMerged, UndoOperation, UndoFails, UndoDone, ReportFailure, Goto, job
    <3>3. CASE Finishing(p)
        BY <1>1, <3>3 DEF Finishing, UnlinkPending, ReturnApplied, Audit, Goto, job
    <3>4. QED
        BY <1>8, <3>1, <3>2, <3>3
  <2>3. QED
      BY <1>3, <1>4, <2>1, <2>2, LeaveLocals DEF Covering
<1>9. CASE Crash(p) \/ RollingBack(p) \/ BackupFails(p)
  <2>1. CASE Crash(p) \/ BackupFails(p)
      BY <1>3, <2>1, LeaveLocals DEF Crash, BackupFails, Covering
  <2>2. CASE RollingBack(p)
    <3>1. pc'[p] \in {"idle", "restore", "copy", "restored"}
        BY <1>1, <2>2, LeaveLocals
           DEF RollingBack, StartRollback, RemoveCreated, TruncateTarget, CopyBackup, RestoreFails,
               RestoreDone, UndoCommandReturns, AtEntry, Goto
    <3>2. QED
        BY <1>3, <3>1 DEF Covering
  <2>3. QED
      BY <1>9, <2>1, <2>2
<1>10. CASE Starting(p)
  <2>1. CASE Edit(p)
    <3>1. UNCHANGED <<pc, checkpoints, at, blocks, mine>>
        BY <2>1 DEF Edit, job
    <3>2. QED
        BY <1>2, <3>1 DEF CoverageOf, Covered, Targets
  <2>2. CASE pc'[p] = "begin"
      BY <1>3, <2>2 DEF Covering
  <2>3. QED
      BY <1>1, <1>10, <2>1, <2>2
         DEF Starting, StartApply, StartNative, StartDirect, Start, Goto
<1>11. QED
    BY <1>5, <1>6, <1>7, <1>8, <1>9, <1>10 DEF Step, Checkpointing

LEMMA CoverageStep ==
    TypeOK /\ TypeOK' /\ Locals /\ Locals' /\ Coverage /\ [Next]_vars => Coverage'
<1> SUFFICES ASSUME TypeOK, TypeOK', Locals, Locals', Coverage, [Next]_vars, NEW q \in Procs
             PROVE  CoverageOf(q)'
    BY DEF Coverage
<1>1. CASE UNCHANGED vars \/ UserEdit
  <2>1. UNCHANGED <<pc, checkpoints, at, blocks, mine>>
      BY <1>1 DEF vars, UserEdit, store, job
  <2>2. CoverageOf(q)
      BY DEF Coverage
  <2>3. QED
      BY <2>1, <2>2 DEF CoverageOf, Covered, Targets
<1>2. ASSUME NEW p \in Procs, Step(p) PROVE CoverageOf(q)'
  <2>1. CASE q = p
      BY <1>2, <2>1, OwnCoverageStep
  <2>2. CASE q # p
    <3>1. CoverageOf(q) /\ LocalsOf(q)
        BY DEF Coverage, Locals
    <3>2. /\ pc'[q] = pc[q] /\ at'[q] = at[q] /\ blocks'[q] = blocks[q]
          /\ mine'[q] = mine[q]
        BY <1>2, <2>2, OthersUntouched
    <3>3. CASE pc[q] \in Covering \cup {"backup"}
      <4>1. PICK c \in DOMAIN checkpoints : c = mine[q]
          BY <3>1, <3>3 DEF LocalsOf, Covering
      <4>2. /\ checkpoints[c].metadata => checkpoints'[c].metadata
            /\ Covered(c) \subseteq Covered(c)'
          BY <1>2, CheckpointsGrow
      <4>3. CASE pc[q] = "backup"
        <5>1. \A i \in DOMAIN blocks[q] : i < at[q] => blocks[q][i].file \in Covered(c)
            BY <3>1, <4>1, <4>3 DEF CoverageOf
        <5>2. \A i \in DOMAIN blocks[q] : i < at[q] => blocks[q][i].file \in Covered(c)'
            BY <4>2, <5>1
        <5>3. QED
            BY <3>2, <4>1, <4>3, <5>2 DEF CoverageOf, Covered, Covering
      <4>4. CASE pc[q] \in Covering
        <5>1. checkpoints[c].metadata /\ Targets(blocks[q]) \subseteq Covered(c)
            BY <3>1, <4>1, <4>4 DEF CoverageOf
        <5>2. checkpoints'[c].metadata /\ Targets(blocks[q]) \subseteq Covered(c)'
            BY <4>2, <5>1
        <5>3. QED
            BY <3>2, <4>1, <4>4, <5>2 DEF CoverageOf, Covered, Covering, Targets
      <4>5. QED
          BY <3>3, <4>3, <4>4
    <3>4. CASE pc[q] \notin Covering \cup {"backup"}
        BY <3>2, <3>4 DEF CoverageOf
    <3>5. QED
        BY <3>3, <3>4
  <2>3. QED
      BY <2>1, <2>2
<1>3. QED
    BY <1>1, <1>2 DEF Next, Step, Starting

\* The only step that adds to what a patch wrote is a write of the patch.
LEMMA WrittenEffect ==
    ASSUME TypeOK, Locals, NEW p \in Procs, Step(p)
    PROVE  \/ UNCHANGED <<written, raced>>
           \/ BeginCheckpoint(p)
           \/ /\ ApplyDelete(p) \/ ApplyCreate(p) \/ ReplaceFile(p) \/ SyncFails(p)
              /\ pc[p] \in {"apply", "replace"}
              /\ UNCHANGED checkpoints
              /\ at[p] \in DOMAIN blocks[p]
              /\ blocks[p][at[p]].file \in Files
              /\ RecordWrite(p, blocks[p][at[p]].file)
<1>1. CASE Leave(p)
    BY <1>1 DEF Leave
<1>2. CASE Starting(p)
    BY <1>2 DEF Starting, Edit, StartApply, StartNative, StartDirect, Start, history
<1>3. CASE Checkpointing(p)
    BY <1>1, <1>3 DEF Checkpointing, BackupBlock, BackupFails, WriteMetadata, history
<1>4. CASE ApplyDelete(p) \/ ApplyCreate(p) \/ ReplaceFile(p) \/ SyncFails(p)
  <2>1. pc[p] \in {"apply", "replace"} /\ at[p] <= Len(blocks[p])
      BY <1>4 DEF ApplyDelete, ApplyCreate, ReplaceFile, SyncFails, AtOperation, Locals, LocalsOf
  <2>2. at[p] \in DOMAIN blocks[p] /\ blocks[p][at[p]].file \in Files
      BY <2>1, OwnBlock DEF Locals, LocalsOf
  <2>3. UNCHANGED checkpoints /\ RecordWrite(p, blocks[p][at[p]].file)
      BY <1>4 DEF ApplyDelete, ApplyCreate, ReplaceFile, SyncFails, store
  <2>4. QED
      BY <1>4, <2>1, <2>2, <2>3
<1>5. CASE Applying(p)
    BY <1>1, <1>4, <1>5
       DEF Applying, Prepare, PrepareRefused, SkipMerged, CheckUpdate, UpdateRefused,
           OperationFails, OperationsDone, BeginUndo, history
<1>6. CASE Undoing(p)
    BY <1>1, <1>6 DEF Undoing, UndoMerged, UndoOperation, UndoFails, UndoDone, ReportFailure, history
<1>7. CASE Finishing(p)
    BY <1>1, <1>7 DEF Finishing, UnlinkPending, ReturnApplied, Audit, history
<1>8. CASE RollingBack(p)
    BY <1>1, <1>8
       DEF RollingBack, StartRollback, RemoveCreated, TruncateTarget, CopyBackup, RestoreFails,
           RestoreDone, UndoCommandReturns, history
<1>9. CASE Crash(p)
    BY <1>1, <1>9 DEF Crash
<1>10. QED
    BY <1>2, <1>3, <1>5, <1>6, <1>7, <1>8, <1>9 DEF Step

\* A patch never writes a file its checkpoint does not cover.
LEMMA WritesStep ==
    TypeOK /\ TypeOK' /\ Locals /\ Coverage /\ WritesHaveCheckpoint /\ [Next]_vars
        => WritesHaveCheckpoint'
<1> SUFFICES ASSUME TypeOK, TypeOK', Locals, Coverage, WritesHaveCheckpoint, [Next]_vars
             PROVE  WritesHaveCheckpoint'
    OBVIOUS
<1>1. CASE UNCHANGED vars \/ UserEdit
    BY <1>1 DEF vars, UserEdit, store, history, WritesHaveCheckpoint, Wrote, Covered
<1>2. ASSUME NEW p \in Procs, Step(p) PROVE WritesHaveCheckpoint'
  <2> SUFFICES ASSUME NEW c \in DOMAIN checkpoints', Wrote(c)' # {}
               PROVE  checkpoints'[c].metadata /\ Wrote(c)' \subseteq Covered(c)'
      BY DEF WritesHaveCheckpoint
  <2>1. CASE BeginCheckpoint(p)
    <3>1. CASE c = Len(checkpoints) + 1
      <4>1. written'[c] = [f \in Files |-> Unwritten]
          BY <2>1, <3>1 DEF BeginCheckpoint, TypeOK
      <4>2. QED
          BY <4>1 DEF Wrote
    <3>2. CASE c # Len(checkpoints) + 1
      <4>1. c \in DOMAIN checkpoints
          BY <2>1, <3>2 DEF BeginCheckpoint, TypeOK
      <4>2. written'[c] = written[c]
          BY <2>1, <4>1 DEF BeginCheckpoint, TypeOK
      <4>3. QED
          BY <1>2, <4>1, <4>2, CheckpointsGrow DEF WritesHaveCheckpoint, Wrote
    <3>3. QED
        BY <3>1, <3>2
  <2>2. CASE UNCHANGED written /\ ~ BeginCheckpoint(p)
    <3>1. c \in DOMAIN checkpoints
      <4>1. Len(checkpoints') = Len(checkpoints)
          BY <2>2 DEF TypeOK
      <4>2. QED
          BY <4>1 DEF TypeOK
    <3>2. QED
        BY <1>2, <2>2, <3>1, CheckpointsGrow DEF WritesHaveCheckpoint, Wrote
  <2>3. ASSUME pc[p] \in {"apply", "replace"}, UNCHANGED checkpoints, at[p] \in DOMAIN blocks[p],
               blocks[p][at[p]].file \in Files, RecordWrite(p, blocks[p][at[p]].file)
        PROVE  checkpoints'[c].metadata /\ Wrote(c)' \subseteq Covered(c)'
    <3> DEFINE f == blocks[p][at[p]].file
    <3>1. c \in DOMAIN checkpoints /\ Covered(c)' = Covered(c)
        BY <2>3 DEF Covered
    <3>2. CASE c = mine[p]
      <4>1. checkpoints[c].metadata /\ Targets(blocks[p]) \subseteq Covered(c)
          BY <2>3, <3>2 DEF Coverage, CoverageOf, Covering
      <4>2. f \in Covered(c)
          BY <2>3, <4>1 DEF Targets
      <4>3. \A g \in Files : g # f => written'[c][g] = written[c][g]
          BY <2>3 DEF RecordWrite
      <4>4. Wrote(c)' \subseteq Wrote(c) \cup {f}
          BY <4>3 DEF Wrote
      <4>5. Wrote(c) \subseteq Covered(c)
          BY <3>1 DEF WritesHaveCheckpoint
      <4>6. QED
          BY <2>3, <3>1, <4>1, <4>2, <4>4, <4>5
    <3>3. CASE c # mine[p]
      <4>1. written'[c] = written[c]
          BY <2>3, <3>3 DEF RecordWrite
      <4>2. QED
          BY <2>3, <3>1, <4>1 DEF WritesHaveCheckpoint, Wrote
    <3>4. QED
        BY <3>2, <3>3
  <2>4. QED
      BY <1>2, <2>1, <2>2, <2>3, WrittenEffect
<1>3. QED
    BY <1>1, <1>2 DEF Next, Step, Starting

-----------------------------------------------------------------------------
(* Theorems *)

LEMMA InductiveInit == Init => Inductive
<1> SUFFICES ASSUME Init PROVE Inductive
    OBVIOUS
<1>1. TypeOK
    BY InitType
<1>2. Locals /\ Coverage
    BY DEF Init, Locals, LocalsOf, Coverage, CoverageOf, Covering
<1>3. WritesHaveCheckpoint
    BY DEF Init, WritesHaveCheckpoint
<1>4. QED
    BY <1>1, <1>2, <1>3 DEF Inductive

\* The invariant holds in every state of every execution.
THEOREM InductiveInvariant == Spec => []Inductive
<1>1. Inductive /\ [Next]_vars => Inductive'
    BY NextType, LocalsStep, CoverageStep, WritesStep DEF Inductive
<1>2. QED
    BY InductiveInit, <1>1, PTL DEF Spec

\* patch/applier.py, checkpoint/manager.py: no interleaving, failure or crash
\* makes a variable leave its type; in particular the checkpoint a process
\* writes under is always one that was made.
THEOREM TypeCorrect == Spec => []TypeOK
<1>1. Inductive => TypeOK
    BY DEF Inductive
<1>2. QED
    BY InductiveInvariant, <1>1, PTL

\* README.md:31: every write is checkpointed before it is made.  At any moment
\* a complete checkpoint covers each file a patch has written, for any number
\* of processes, and however the process was killed.
THEOREM WritesAreCovered == Spec => []WritesHaveCheckpoint
<1>1. Inductive => WritesHaveCheckpoint
    BY DEF Inductive
<1>2. QED
    BY InductiveInvariant, <1>1, PTL

-----------------------------------------------------------------------------
(* What a rename goes over *)

\* A step changes at most one file, and then every other process at work has it
\* recorded as changed behind its back.
LEMMA DiskEffect ==
    ASSUME TypeOK, Locals, NEW p \in Procs, Step(p)
    PROVE  \/ /\ UNCHANGED disk
              /\ \A q \in Procs : q # p =>
                    sinceBackup'[q] = sinceBackup[q] /\ sinceCheck'[q] = sinceCheck[q]
           \/ \E g : (\A h \in Files : h # g => disk'[h] = disk[h]) /\ Surprise(Procs \ {p}, g)
<1> DEFINE Quiet == /\ UNCHANGED disk
                    /\ \A q \in Procs : q # p =>
                        sinceBackup'[q] = sinceBackup[q] /\ sinceCheck'[q] = sinceCheck[q]
           Writes(g) == (\A h \in Files : h # g => disk'[h] = disk[h]) /\ Surprise(Procs \ {p}, g)
<1>1. /\ disk = [f \in Files |-> disk[f]]
      /\ sinceBackup = [q \in Procs |-> sinceBackup[q]]
      /\ sinceCheck = [q \in Procs |-> sinceCheck[q]]
    BY DEF TypeOK
<1>2. ASSUME Leave(p), UNCHANGED disk PROVE Quiet
    BY <1>1, <1>2 DEF Leave
<1>3. ASSUME NEW g, Unlink(g) \/ (\E c : RenameOver(g, c)), Surprise(Procs \ {p}, g)
      PROVE  Writes(g)
    BY <1>1, <1>3 DEF Unlink, RenameOver
<1>4. CASE Starting(p)
    BY <1>4 DEF Starting, Edit, StartApply, StartNative, StartDirect, Start, tree, history, witness
<1>5. CASE Checkpointing(p)
    BY <1>1, <1>2, <1>5
       DEF Checkpointing, BeginCheckpoint, BackupBlock, BackupFails, WriteMetadata, tree, history,
           witness
<1>6. CASE Applying(p)
  <2>1. CASE ApplyDelete(p) \/ ApplyCreate(p) \/ ReplaceFile(p) \/ SyncFails(p)
      BY <1>3, <2>1 DEF ApplyDelete, ApplyCreate, ReplaceFile, SyncFails, RecordWrite
  <2>2. CASE PrepareRefused(p)
      BY <1>2, <2>2 DEF PrepareRefused
  <2>3. CASE CheckUpdate(p) \/ Prepare(p)
      BY <1>1, <2>3 DEF CheckUpdate, Prepare, tree, history, witness
  <2>4. QED
      BY <1>6, <2>1, <2>2, <2>3
         DEF Applying, SkipMerged, UpdateRefused, OperationFails, OperationsDone, BeginUndo, tree,
             history, witness
<1>7. CASE Undoing(p)
  <2>1. CASE TakeBack(p)
      BY <1>3, <2>1 DEF TakeBack
  <2>2. CASE ReportFailure(p)
      BY <1>2, <2>2 DEF ReportFailure
  <2>3. QED
      BY <1>7, <2>1, <2>2
         DEF Undoing, UndoMerged, UndoOperation, UndoFails, UndoDone, tree, history, witness
<1>8. CASE Finishing(p)
    BY <1>2, <1>8 DEF Finishing, UnlinkPending, ReturnApplied, Audit, tree, history, witness
<1>9. CASE RollingBack(p)
  <2>1. CASE RemoveCreated(p)
      BY <1>3, <2>1 DEF RemoveCreated
  <2>2. CASE TruncateTarget(p) \/ CopyBackup(p)
      BY <1>1, <2>2 DEF TruncateTarget, CopyBackup
  <2>3. CASE RestoreFails(p) \/ UndoCommandReturns(p)
      BY <1>2, <2>3 DEF RestoreFails, UndoCommandReturns
  <2>4. QED
      BY <1>9, <2>1, <2>2, <2>3 DEF RollingBack, StartRollback, RestoreDone, tree, history, witness
<1>10. CASE Crash(p)
    BY <1>2, <1>10 DEF Crash
<1>11. QED
    BY <1>4, <1>5, <1>6, <1>7, <1>8, <1>9, <1>10 DEF Step

\* The file a process is about to rename over.
Checked(p) ==
    pc[p] = "replace" =>
        LET f == blocks[p][at[p]].file IN disk[f] = original[p][f] \/ f \in sinceCheck[p]

LEMMA CheckedStep ==
    TypeOK /\ Locals /\ ReplacesWhatItChecked /\ [Next]_vars => ReplacesWhatItChecked'
<1> SUFFICES ASSUME TypeOK, Locals, ReplacesWhatItChecked, [Next]_vars, NEW q \in Procs,
                    pc'[q] = "replace"
             PROVE  Checked(q)'
    BY DEF ReplacesWhatItChecked, Checked
<1> DEFINE f == blocks[q][at[q]].file
<1>1. /\ disk = [h \in Files |-> disk[h]] /\ pc = [r \in Procs |-> pc[r]]
      /\ at = [r \in Procs |-> at[r]] /\ blocks = [r \in Procs |-> blocks[r]]
      /\ original = [r \in Procs |-> original[r]]
      /\ sinceCheck = [r \in Procs |-> sinceCheck[r]]
    BY DEF TypeOK
<1>2. CASE UNCHANGED vars
    BY <1>2 DEF vars, tree, job, history, witness, ReplacesWhatItChecked, Checked
<1>3. ASSUME pc[q] = "replace", at'[q] = at[q], blocks'[q] = blocks[q], original'[q] = original[q],
             \/ UNCHANGED disk /\ sinceCheck'[q] = sinceCheck[q]
             \/ \E g, Q : /\ q \in Q /\ Surprise(Q, g)
                          /\ \A h \in Files : h # g => disk'[h] = disk[h]
      PROVE  Checked(q)'
  <2>1. disk[f] = original[q][f] \/ f \in sinceCheck[q]
      BY <1>3 DEF ReplacesWhatItChecked
  <2>2. f \in Files
      BY <1>3, OwnBlock DEF Locals, LocalsOf
  <2>3. disk'[f] = original'[q][f] \/ f \in sinceCheck'[q]
    <3>1. CASE UNCHANGED disk /\ sinceCheck'[q] = sinceCheck[q]
        BY <1>3, <2>1, <3>1
    <3>2. ASSUME NEW g, NEW Q, q \in Q, Surprise(Q, g),
                 \A h \in Files : h # g => disk'[h] = disk[h]
          PROVE  disk'[f] = original'[q][f] \/ f \in sinceCheck'[q]
      <4>1. sinceCheck'[q] = sinceCheck[q] \cup {g}
          BY <1>1, <1>3, <3>2 DEF Surprise
      <4>2. QED
          BY <1>3, <2>1, <2>2, <3>2, <4>1
    <3>3. QED
        BY <1>3, <3>1, <3>2
  <2>4. QED
      BY <1>3, <2>3 DEF Checked
<1>4. CASE UserEdit
  <2>1. PICK g \in Files : (\A h \in Files : h # g => disk'[h] = disk[h]) /\ Surprise(Procs, g)
      BY <1>1, <1>4 DEF UserEdit, Unlink, RenameOver
  <2>2. QED
      BY <1>3, <1>4, <2>1 DEF UserEdit, job
<1>5. ASSUME NEW p \in Procs, Step(p), p # q PROVE Checked(q)'
  <2>1. /\ pc[q] = "replace" /\ at'[q] = at[q] /\ blocks'[q] = blocks[q]
        /\ original'[q] = original[q]
      BY <1>5, OthersUntouched
  <2>2. QED
      BY <1>3, <1>5, <2>1, DiskEffect
<1>6. CASE Step(q)
  <2>1. CheckUpdate(q)
    <3>1. CASE Leave(q)
        BY <3>1, LeaveLocals
    <3>2. CASE Starting(q)
        BY <1>1, <3>2 DEF Starting, Edit, StartApply, StartNative, StartDirect, Start, Goto
    <3>3. CASE Checkpointing(q)
        BY <1>1, <3>1, <3>3
           DEF Checkpointing, BeginCheckpoint, BackupBlock, BackupFails, WriteMetadata, Goto
    <3>4. CASE Applying(q)
        BY <1>1, <3>1, <3>4
           DEF Applying, Prepare, PrepareRefused, SkipMerged, ApplyDelete, ApplyCreate,
               UpdateRefused, ReplaceFile, OperationFails, SyncFails, OperationsDone, BeginUndo,
               AtOperation, Goto
    <3>5. CASE Undoing(q)
        BY <1>1, <3>1, <3>5
           DEF Undoing, UndoMerged, UndoOperation, UndoFails, UndoDone, ReportFailure, Goto
    <3>6. CASE Finishing(q)
        BY <1>1, <3>1, <3>6 DEF Finishing, UnlinkPending, ReturnApplied, Audit, Goto
    <3>7. CASE RollingBack(q)
        BY <1>1, <3>1, <3>7
           DEF RollingBack, StartRollback, RemoveCreated, TruncateTarget, CopyBackup, RestoreFails,
               RestoreDone, UndoCommandReturns, AtEntry, Goto
    <3>8. CASE Crash(q)
        BY <3>1, <3>8 DEF Crash
    <3>9. QED
        BY <1>6, <3>2, <3>3, <3>4, <3>5, <3>6, <3>7, <3>8 DEF Step
  <2>2. /\ disk[f] = original[q][f] /\ disk' = disk /\ original' = original
        /\ blocks' = blocks /\ at' = at
      BY <2>1 DEF CheckUpdate, Unchanged, tree, job
  <2>3. QED
      BY <2>2 DEF Checked
<1>7. QED
    BY <1>2, <1>4, <1>5, <1>6 DEF Next, Step, Starting

\* patch/applier.py:84-92: an update only ever goes over the content it was
\* rendered from, or over a change made after the comparison, for any number of
\* processes and edits.
THEOREM NoBlindReplace == Spec => []ReplacesWhatItChecked
<1>1. Init => ReplacesWhatItChecked
    BY DEF Init, ReplacesWhatItChecked
<1>2. Inductive => TypeOK /\ Locals
    BY DEF Inductive
<1>3. QED
    BY InductiveInvariant, CheckedStep, <1>1, <1>2, PTL DEF Spec

-----------------------------------------------------------------------------
(* What another process and the user leave a process at work *)

\* The steps at which a process goes on writing a checkpoint or under it.
Busy == Covering \cup {"backup"}

\* The steps at which a process copies a checkpoint back.
Restoring == {"restore", "copy", "restored"}

\* A step somebody else takes, as process q sees it: its locals stay, and a file
\* it has not been told about is on the disk as it was.
Apart(q) ==
    /\ pc'[q] = pc[q] /\ at'[q] = at[q] /\ blocks'[q] = blocks[q]
    /\ mine'[q] = mine[q] /\ original'[q] = original[q]
    /\ undoFailed'[q] = undoFailed[q] /\ unsynced'[q] = unsynced[q]
    /\ moved[q] \subseteq moved'[q]
    /\ sinceBackup[q] \subseteq sinceBackup'[q]
    /\ \A f \in Files : f \notin sinceBackup'[q] => disk'[f] = disk[f]

\* The other locals of a process are its own as well.
LEMMA OthersStay ==
    ASSUME TypeOK, NEW p \in Procs, Step(p), NEW q \in Procs, q # p
    PROVE  /\ undoFailed'[q] = undoFailed[q] /\ unsynced'[q] = unsynced[q]
           /\ moved[q] \subseteq moved'[q]
<1> DEFINE Stay == /\ undoFailed'[q] = undoFailed[q] /\ unsynced'[q] = unsynced[q]
                   /\ moved[q] \subseteq moved'[q]
<1>1. /\ undoFailed = [r \in Procs |-> undoFailed[r]] /\ unsynced = [r \in Procs |-> unsynced[r]]
      /\ moved = [r \in Procs |-> moved[r]]
    BY DEF TypeOK
<1>2. CASE Leave(p)
    BY <1>1, <1>2 DEF Leave
<1>3. \A f : Moved(f) => moved[q] \subseteq moved'[q]
    BY <1>1 DEF Moved
<1>4. CASE Starting(p)
    BY <1>4 DEF Starting, Edit, StartApply, StartNative, StartDirect, Start, tree, job, history, witness
<1>5. CASE Checkpointing(p)
    BY <1>2, <1>5
       DEF Checkpointing, BeginCheckpoint, BackupBlock, BackupFails, WriteMetadata, tree, job, history,
           witness
<1>6. CASE Applying(p)
  <2>1. CASE ApplyDelete(p) \/ ApplyCreate(p) \/ ReplaceFile(p) \/ SyncFails(p)
      BY <1>1, <1>3, <2>1
         DEF ApplyDelete, ApplyCreate, ReplaceFile, SyncFails, Unlink, RenameOver, job
  <2>2. CASE Prepare(p)
      BY <1>1, <2>2 DEF Prepare, history, witness
  <2>3. QED
      BY <1>2, <1>6, <2>1, <2>2
         DEF Applying, PrepareRefused, SkipMerged, CheckUpdate, UpdateRefused, OperationFails,
             OperationsDone, BeginUndo, tree, job, history, witness
<1>7. CASE Undoing(p)
  <2>1. TakeBack(p) => moved[q] \subseteq moved'[q]
      BY <1>3 DEF TakeBack, Unlink, RenameOver
  <2>2. QED
      BY <1>1, <1>2, <1>7, <2>1
         DEF Undoing, UndoMerged, UndoOperation, UndoFails, UndoDone, ReportFailure, tree, job, history,
             witness
<1>8. CASE Finishing(p)
    BY <1>2, <1>8 DEF Finishing, UnlinkPending, ReturnApplied, Audit, tree, job, history, witness
<1>9. CASE RollingBack(p)
    BY <1>1, <1>2, <1>3, <1>9
       DEF RollingBack, StartRollback, RemoveCreated, TruncateTarget, CopyBackup, RestoreFails,
           RestoreDone, UndoCommandReturns, Unlink, tree, job, history, witness
<1>10. CASE Crash(p)
    BY <1>2, <1>10 DEF Crash
<1>11. QED
    BY <1>4, <1>5, <1>6, <1>7, <1>8, <1>9, <1>10 DEF Step

\* What everybody else does to a process at work.
LEMMA Bystander ==
    ASSUME TypeOK, Locals, NEW q \in Procs, pc[q] # "idle",
           UNCHANGED vars \/ UserEdit \/ \E p \in Procs : p # q /\ Step(p)
    PROVE  Apart(q)
<1>1. CASE UNCHANGED vars
    BY <1>1 DEF vars, tree, job, history, witness, Apart
<1>2. ASSUME NEW Q, q \in Q, NEW g, Surprise(Q, g), \A h \in Files : h # g => disk'[h] = disk[h]
      PROVE  /\ sinceBackup[q] \subseteq sinceBackup'[q]
             /\ \A f \in Files : f \notin sinceBackup'[q] => disk'[f] = disk[f]
  <2>1. sinceBackup'[q] = sinceBackup[q] \cup {g}
      BY <1>2 DEF Surprise
  <2>2. QED
      BY <1>2, <2>1
<1>3. CASE UserEdit
  <2>1. PICK g \in Files :
            /\ \A h \in Files : h # g => disk'[h] = disk[h]
            /\ Surprise(Procs, g)
            /\ Moved(g) \/ UNCHANGED moved
      BY <1>3 DEF UserEdit, Unlink, RenameOver, TypeOK
  <2>2. moved[q] \subseteq moved'[q]
      BY <2>1 DEF Moved
  <2>3. QED
      BY <1>2, <1>3, <2>1, <2>2 DEF UserEdit, job, Apart
<1>4. ASSUME NEW p \in Procs, p # q, Step(p) PROVE Apart(q)
  <2>1. /\ sinceBackup[q] \subseteq sinceBackup'[q]
        /\ \A f \in Files : f \notin sinceBackup'[q] => disk'[f] = disk[f]
      BY <1>2, <1>4, DiskEffect
  <2>2. QED
      BY <1>4, <2>1, OthersUntouched, OthersStay DEF Apart
<1>5. QED
    BY <1>1, <1>3, <1>4

\* Whether at work or not, a process stays where it is when it takes no step.
LEMMA SamePlace ==
    ASSUME TypeOK, NEW q \in Procs,
           UNCHANGED vars \/ UserEdit \/ \E p \in Procs : p # q /\ Step(p)
    PROVE  pc'[q] = pc[q] /\ at'[q] = at[q] /\ blocks'[q] = blocks[q] /\ mine'[q] = mine[q]
<1>1. CASE UNCHANGED vars \/ UserEdit
    BY <1>1 DEF vars, UserEdit, job
<1>2. QED
    BY <1>1, OthersUntouched

-----------------------------------------------------------------------------
(* One process to a checkpoint *)

\* Two processes never write the same checkpoint, or under the same one.
Sole ==
    \A p, q \in Procs : p # q /\ pc[p] \in Busy /\ pc[q] \in Busy => mine[p] # mine[q]

\* Where process p is with its checkpoint and in its loop.
StageOf(p) ==
    /\ pc[p] = "backup" => ~ checkpoints[mine[p]].metadata
    /\ pc[p] \in Restoring => checkpoints[mine[p]].metadata
    /\ pc[p] \in {"backup", "prepare"} => Wrote(mine[p]) = {}
    /\ pc[p] = "replace" => ~ Merged(blocks[p], at[p])
    /\ pc[p] = "applied" => at[p] > Len(blocks[p])
    /\ pc[p] = "failed" => at[p] = 0
    /\ pc[p] = "restored" => at[p] > Len(checkpoints[mine[p]].entries)

Stages == \A p \in Procs : StageOf(p)

\* A finished checkpoint and its history belong to the patch it was made for.
LEMMA CheckpointKept ==
    ASSUME TypeOK, Locals, Stages, NEW p \in Procs, Step(p), NEW c \in DOMAIN checkpoints
    PROVE  /\ c \in DOMAIN checkpoints'
           /\ c # mine[p] \/ checkpoints[c].metadata => checkpoints'[c] = checkpoints[c]
           /\ c # mine[p] => written'[c] = written[c] /\ raced'[c] = raced[c]
<1>1. checkpoints \in Seq(Checkpoint) /\ c \in 1 .. Len(checkpoints)
    BY DEF TypeOK
<1>2. c \in DOMAIN checkpoints'
    BY CheckpointsGrow
<1>3. c # mine[p] \/ checkpoints[c].metadata => checkpoints'[c] = checkpoints[c]
  <2>1. CASE BeginCheckpoint(p)
    <3>1. EmptyCheckpoint \in Checkpoint
        BY DEF EmptyCheckpoint, Checkpoint, MaybeContent
    <3>2. QED
        BY <1>1, <2>1, <3>1, AppendProperties DEF BeginCheckpoint
  <2>2. CASE BackupBlock(p)
    <3>1. pc[p] = "backup"
        BY <2>2 DEF BackupBlock
    <3>2. ~ checkpoints[mine[p]].metadata
        BY <3>1 DEF Stages, StageOf
    <3>3. c # mine[p] => checkpoints'[c] = checkpoints[c]
        BY <2>2, BackupEffect
    <3>4. QED
        BY <3>2, <3>3
  <2>3. CASE WriteMetadata(p)
    <3>1. pc[p] = "backup"
        BY <2>3 DEF WriteMetadata
    <3>2. ~ checkpoints[mine[p]].metadata
        BY <3>1 DEF Stages, StageOf
    <3>3. c # mine[p] => checkpoints'[c] = checkpoints[c]
        BY <1>1, <2>3 DEF WriteMetadata
    <3>4. QED
        BY <3>2, <3>3
  <2>4. QED
      BY <2>1, <2>2, <2>3, CheckpointsChange
<1>4. c # mine[p] => written'[c] = written[c] /\ raced'[c] = raced[c]
  <2>1. CASE BeginCheckpoint(p)
    <3>1. c \in 1 .. Len(written) /\ c \in 1 .. Len(raced)
        BY <1>1 DEF TypeOK
    <3>2. QED
        BY <2>1, <3>1 DEF BeginCheckpoint, TypeOK
  <2>2. ASSUME NEW f, RecordWrite(p, f) PROVE c # mine[p] => written'[c] = written[c] /\ raced'[c] = raced[c]
      BY <2>2 DEF RecordWrite, TypeOK
  <2>3. CASE UNCHANGED <<written, raced>>
      BY <2>3
  <2>4. QED
      BY <2>1, <2>2, <2>3, WrittenEffect
<1>5. QED
    BY <1>2, <1>3, <1>4

\* What everybody else leaves of the checkpoint a process is at.
LEMMA CheckpointStays ==
    ASSUME TypeOK, Locals, Sole, Stages, NEW q \in Procs, NEW c \in DOMAIN checkpoints, c = mine[q],
           pc[q] \in Busy \cup Restoring,
           UNCHANGED vars \/ UserEdit \/ \E p \in Procs : p # q /\ Step(p)
    PROVE  /\ checkpoints'[c] = checkpoints[c]
           /\ pc[q] \in Busy => written'[c] = written[c] /\ raced'[c] = raced[c]
<1>1. CASE UNCHANGED vars \/ UserEdit
    BY <1>1 DEF vars, UserEdit, store, history
<1>2. ASSUME NEW p \in Procs, p # q, Step(p)
      PROVE  /\ checkpoints'[c] = checkpoints[c]
             /\ pc[q] \in Busy => written'[c] = written[c] /\ raced'[c] = raced[c]
  <2>1. CASE c # mine[p]
      BY <1>2, <2>1, CheckpointKept
  <2>2. CASE c = mine[p]
    <3>1. pc[q] \in Busy => pc[p] \notin Busy
        BY <1>2, <2>2 DEF Sole
    <3>2. BackupBlock(p) \/ WriteMetadata(p) => pc[p] = "backup"
        BY DEF BackupBlock, WriteMetadata
    <3>3. checkpoints'[c] = checkpoints[c]
      <4>1. CASE pc[q] \in Restoring
        <5>1. checkpoints[c].metadata
            BY <4>1 DEF Stages, StageOf
        <5>2. QED
            BY <1>2, <5>1, CheckpointKept
      <4>2. CASE pc[q] \in Busy
        <5>1. pc[p] # "backup"
            BY <3>1, <4>2 DEF Busy
        <5>2. UNCHANGED checkpoints \/ BeginCheckpoint(p)
            BY <1>2, <3>2, <5>1, CheckpointsChange
        <5>3. QED
          <6>1. EmptyCheckpoint \in Checkpoint
              BY DEF EmptyCheckpoint, Checkpoint, MaybeContent
          <6>2. QED
              BY <5>2, <6>1, AppendProperties DEF BeginCheckpoint, TypeOK
      <4>3. QED
          BY <4>1, <4>2
    <3>4. pc[q] \in Busy => written'[c] = written[c] /\ raced'[c] = raced[c]
      <4>1. SUFFICES ASSUME pc[q] \in Busy PROVE written'[c] = written[c] /\ raced'[c] = raced[c]
          OBVIOUS
      <4>2. pc[p] \notin {"apply", "replace"}
          BY <3>1, <4>1 DEF Busy, Covering
      <4>3. UNCHANGED <<written, raced>> \/ BeginCheckpoint(p)
          BY <1>2, <4>2, WrittenEffect
      <4>4. c \in 1 .. Len(written) /\ c \in 1 .. Len(raced)
          BY DEF TypeOK
      <4>5. QED
          BY <4>3, <4>4 DEF BeginCheckpoint, TypeOK
    <3>5. QED
        BY <3>3, <3>4
  <2>3. QED
      BY <2>1, <2>2
<1>3. QED
    BY <1>1, <1>2

\* Which steps lead to which place in apply and rollback.
LEMMA EnteredBy ==
    ASSUME TypeOK, NEW p \in Procs, Step(p)
    PROVE  /\ pc'[p] = "backup" => BeginCheckpoint(p) \/ BackupBlock(p)
           /\ pc'[p] = "prepare" => WriteMetadata(p)
           /\ pc'[p] = "apply" =>
                Prepare(p) \/ SkipMerged(p) \/ ApplyDelete(p) \/ ApplyCreate(p) \/ ReplaceFile(p)
           /\ pc'[p] = "replace" => CheckUpdate(p)
           /\ pc'[p] = "undo" =>
                \/ UpdateRefused(p) \/ OperationFails(p) \/ SyncFails(p)
                \/ UndoMerged(p) \/ UndoOperation(p) \/ UndoFails(p)
           /\ pc'[p] = "failed" => UndoDone(p)
           /\ pc'[p] = "applied" => OperationsDone(p)
           /\ pc'[p] = "audit" => UnlinkPending(p)
           /\ pc'[p] = "restore" => StartRollback(p) \/ RemoveCreated(p) \/ CopyBackup(p)
           /\ pc'[p] = "copy" => TruncateTarget(p)
           /\ pc'[p] = "restored" => RestoreDone(p)
<1>1. pc = [r \in Procs |-> pc[r]]
    BY DEF TypeOK
<1>2. Leave(p) => pc'[p] = "idle"
    BY LeaveLocals
<1>3. \A s : Goto(p, s) => pc'[p] = s
    BY <1>1 DEF Goto
<1>4. CASE Starting(p)
  <2>1. pc'[p] \in {"idle", "begin"}
      BY <1>3, <1>4 DEF Starting, Edit, StartApply, StartNative, StartDirect, Start
  <2>2. QED
      BY <2>1
<1>5. CASE Checkpointing(p)
  <2>1. BeginCheckpoint(p) => pc'[p] = "backup"
      BY <1>3 DEF BeginCheckpoint
  <2>2. BackupBlock(p) => pc'[p] = "backup"
      BY DEF BackupBlock
  <2>3. BackupFails(p) => pc'[p] = "idle"
      BY <1>2 DEF BackupFails
  <2>4. WriteMetadata(p) => pc'[p] = "prepare"
      BY <1>3 DEF WriteMetadata
  <2>5. QED
      BY <1>5, <2>1, <2>2, <2>3, <2>4 DEF Checkpointing
<1>6. CASE Applying(p)
  <2>1. Prepare(p) \/ ReplaceFile(p) => pc'[p] = "apply"
      BY <1>3 DEF Prepare, ReplaceFile
  <2>2. SkipMerged(p) \/ ApplyDelete(p) \/ ApplyCreate(p) => pc'[p] = "apply"
      BY DEF SkipMerged, ApplyDelete, ApplyCreate, AtOperation
  <2>3. PrepareRefused(p) => pc'[p] = "idle"
      BY <1>2 DEF PrepareRefused
  <2>4. CheckUpdate(p) => pc'[p] = "replace"
      BY <1>3 DEF CheckUpdate
  <2>5. UpdateRefused(p) \/ OperationFails(p) \/ SyncFails(p) => pc'[p] = "undo"
      BY <1>3 DEF UpdateRefused, OperationFails, SyncFails, BeginUndo
  <2>6. OperationsDone(p) => pc'[p] = "applied"
      BY <1>3 DEF OperationsDone
  <2>7. QED
      BY <1>6, <2>1, <2>2, <2>3, <2>4, <2>5, <2>6 DEF Applying
<1>7. CASE Undoing(p)
  <2>1. UndoMerged(p) \/ UndoOperation(p) \/ UndoFails(p) => pc'[p] = "undo"
      BY DEF UndoMerged, UndoOperation, UndoFails
  <2>2. UndoDone(p) => pc'[p] = "failed"
      BY <1>3 DEF UndoDone
  <2>3. ReportFailure(p) => pc'[p] = "idle"
      BY <1>2 DEF ReportFailure
  <2>4. QED
      BY <1>7, <2>1, <2>2, <2>3 DEF Undoing
<1>8. CASE Finishing(p)
  <2>1. UnlinkPending(p) => pc'[p] = "audit"
      BY <1>3 DEF UnlinkPending
  <2>2. ReturnApplied(p) \/ Audit(p) => pc'[p] = "idle"
      BY <1>2 DEF ReturnApplied, Audit
  <2>3. QED
      BY <1>8, <2>1, <2>2 DEF Finishing
<1>9. CASE RollingBack(p)
  <2>1. StartRollback(p) \/ CopyBackup(p) => pc'[p] = "restore"
      BY <1>3 DEF StartRollback, CopyBackup
  <2>2. RemoveCreated(p) => pc'[p] = "restore"
      BY DEF RemoveCreated, AtEntry
  <2>3. TruncateTarget(p) => pc'[p] = "copy"
      BY <1>3 DEF TruncateTarget
  <2>4. RestoreDone(p) => pc'[p] = "restored"
      BY <1>3 DEF RestoreDone
  <2>5. RestoreFails(p) \/ UndoCommandReturns(p) => pc'[p] = "idle"
      BY <1>2 DEF RestoreFails, UndoCommandReturns
  <2>6. QED
      BY <1>9, <2>1, <2>2, <2>3, <2>4, <2>5 DEF RollingBack
<1>10. CASE Crash(p)
    BY <1>2, <1>10 DEF Crash
<1>11. QED
    BY <1>4, <1>5, <1>6, <1>7, <1>8, <1>9, <1>10 DEF Step

\* A process keeps its checkpoint and its patch from the first backup to the end.
LEMMA StaysBusy ==
    ASSUME TypeOK, Locals, NEW p \in Procs, Step(p), pc'[p] \in Busy
    PROVE  \/ BeginCheckpoint(p)
           \/ pc[p] \in Busy /\ mine'[p] = mine[p] /\ blocks'[p] = blocks[p]
<1>1. CASE BackupBlock(p) \/ WriteMetadata(p)
    BY <1>1 DEF BackupBlock, WriteMetadata, job, Busy
<1>2. CASE Prepare(p)
    BY <1>2 DEF Prepare, Busy, Covering
<1>3. CASE \/ SkipMerged(p) \/ ApplyDelete(p) \/ ApplyCreate(p) \/ ReplaceFile(p) \/ CheckUpdate(p)
           \/ UpdateRefused(p) \/ OperationFails(p) \/ SyncFails(p) \/ OperationsDone(p)
    BY <1>3
       DEF SkipMerged, ApplyDelete, ApplyCreate, ReplaceFile, CheckUpdate, UpdateRefused,
           OperationFails, SyncFails, OperationsDone, BeginUndo, AtOperation, job, Busy, Covering
<1>4. CASE UndoMerged(p) \/ UndoOperation(p) \/ UndoFails(p) \/ UndoDone(p) \/ UnlinkPending(p)
    BY <1>4
       DEF UndoMerged, UndoOperation, UndoFails, UndoDone, UnlinkPending, job, Busy, Covering
<1>5. pc'[p] \in {"backup", "prepare", "apply", "replace", "undo", "failed", "applied", "audit"}
    BY DEF Busy, Covering
<1>6. QED
    BY <1>1, <1>2, <1>3, <1>4, <1>5, EnteredBy

LEMMA SoleStep ==
    ASSUME TypeOK, Locals, Sole, [Next]_vars
    PROVE  Sole'
<1>1. CASE UNCHANGED vars \/ UserEdit
    BY <1>1 DEF vars, UserEdit, job, Sole
<1>2. ASSUME NEW p \in Procs, Step(p) PROVE Sole'
  <2>1. ASSUME NEW q \in Procs, q # p, pc'[p] \in Busy, pc'[q] \in Busy PROVE mine'[p] # mine'[q]
    <3>1. pc[q] \in Busy /\ mine'[q] = mine[q]
        BY <1>2, <2>1, OthersUntouched
    <3>2. CASE BeginCheckpoint(p)
      <4>1. mine'[p] = Len(checkpoints) + 1
          BY <3>2 DEF BeginCheckpoint, TypeOK
      <4>2. mine[q] \in 1 .. Len(checkpoints)
          BY <3>1, OwnCheckpoint DEF Locals, LocalsOf, Busy, Covering
      <4>3. QED
          BY <3>1, <4>1, <4>2 DEF TypeOK
    <3>3. CASE pc[p] \in Busy /\ mine'[p] = mine[p]
        BY <2>1, <3>1, <3>3 DEF Sole
    <3>4. QED
        BY <1>2, <2>1, <3>2, <3>3, StaysBusy
  <2>2. ASSUME NEW q \in Procs, NEW r \in Procs, q # r, q # p, r # p,
               pc'[q] \in Busy, pc'[r] \in Busy
        PROVE  mine'[q] # mine'[r]
    <3>1. pc[q] \in Busy /\ mine'[q] = mine[q] /\ pc[r] \in Busy /\ mine'[r] = mine[r]
        BY <1>2, <2>2, OthersUntouched
    <3>2. QED
        BY <2>2, <3>1 DEF Sole
  <2>3. QED
      BY <2>1, <2>2 DEF Sole
<1>3. QED
    BY <1>1, <1>2 DEF Next, Step, Starting

\* A step keeps the process that takes it in its place.
LEMMA OwnStageStep ==
    ASSUME TypeOK, TypeOK', Locals, Stages, NEW p \in Procs, Step(p)
    PROVE  StageOf(p)'
<1>1. /\ pc = [r \in Procs |-> pc[r]] /\ at = [r \in Procs |-> at[r]]
      /\ blocks = [r \in Procs |-> blocks[r]] /\ mine = [r \in Procs |-> mine[r]]
    BY DEF TypeOK
<1>2. StageOf(p)
    BY DEF Stages
<1>3. CASE BeginCheckpoint(p)
  <2>1. EmptyCheckpoint \in Checkpoint
      BY DEF EmptyCheckpoint, Checkpoint, MaybeContent
  <2>2. PICK m : m = Len(checkpoints) + 1
      OBVIOUS
  <2>3. mine'[p] = m /\ pc'[p] = "backup"
      BY <1>1, <1>3, <2>2 DEF BeginCheckpoint, Goto
  <2>4. ~ checkpoints'[m].metadata
      BY <1>3, <2>1, <2>2, AppendProperties DEF BeginCheckpoint, EmptyCheckpoint, TypeOK
  <2>5. written'[m] = [f \in Files |-> Unwritten]
      BY <1>3, <2>2, AppendProperties DEF BeginCheckpoint, TypeOK
  <2>6. QED
      BY <2>3, <2>4, <2>5 DEF StageOf, Restoring, Wrote
<1>4. CASE BackupBlock(p)
  <2>1. PICK m : m = mine[p]
      OBVIOUS
  <2>2. pc[p] = "backup" /\ pc'[p] = "backup" /\ mine'[p] = m /\ written' = written
      BY <1>4, <2>1 DEF BackupBlock, job
  <2>3. checkpoints'[m].metadata = checkpoints[m].metadata
      BY <1>4, <2>1, BackupEffect
  <2>4. QED
      BY <1>2, <2>1, <2>2, <2>3 DEF StageOf, Restoring, Wrote
<1>5. CASE WriteMetadata(p)
  <2>1. PICK m : m = mine[p]
      OBVIOUS
  <2>2. pc[p] = "backup" /\ pc'[p] = "prepare" /\ mine'[p] = m /\ written' = written
      BY <1>1, <1>5, <2>1 DEF WriteMetadata, Goto, job, history
  <2>3. QED
      BY <1>2, <2>1, <2>2 DEF StageOf, Restoring, Wrote
<1>6. CASE CheckUpdate(p)
  <2>1. pc'[p] = "replace" /\ ~ Merged(blocks'[p], at'[p])
      BY <1>1, <1>6 DEF CheckUpdate, Goto, job
  <2>2. QED
      BY <2>1 DEF StageOf, Restoring
<1>7. CASE OperationsDone(p)
  <2>1. pc'[p] = "applied" /\ at'[p] > Len(blocks'[p])
      BY <1>1, <1>7 DEF OperationsDone, Goto, job
  <2>2. QED
      BY <2>1 DEF StageOf, Restoring
<1>8. CASE UndoDone(p)
  <2>1. pc'[p] = "failed" /\ at'[p] = 0
      BY <1>1, <1>8 DEF UndoDone, Goto
  <2>2. QED
      BY <2>1 DEF StageOf, Restoring
<1>9. CASE StartRollback(p)
  <2>1. pc'[p] = "restore" /\ checkpoints'[mine'[p]].metadata
      BY <1>1, <1>9 DEF StartRollback, Goto, store
  <2>2. QED
      BY <2>1 DEF StageOf
<1>10. CASE RemoveCreated(p) \/ TruncateTarget(p) \/ CopyBackup(p)
  <2>1. pc'[p] \in {"restore", "copy"} /\ checkpoints'[mine'[p]].metadata
      BY <1>1, <1>2, <1>10
         DEF RemoveCreated, TruncateTarget, CopyBackup, AtEntry, Goto, store, job, StageOf, Restoring
  <2>2. QED
      BY <2>1 DEF StageOf
<1>11. CASE RestoreDone(p)
  <2>1. /\ pc'[p] = "restored" /\ checkpoints'[mine'[p]].metadata
        /\ at'[p] > Len(checkpoints'[mine'[p]].entries)
      BY <1>1, <1>2, <1>11 DEF RestoreDone, Goto, store, job, StageOf, Restoring
  <2>2. QED
      BY <2>1 DEF StageOf
<1>12. CASE pc'[p] \in {"idle", "begin", "apply", "undo", "audit"}
    BY <1>12 DEF StageOf, Restoring
<1>13. pc'[p] \in Steps
    BY DEF TypeOK
<1>14. QED
    BY <1>3, <1>4, <1>5, <1>6, <1>7, <1>8, <1>9, <1>10, <1>11, <1>12, <1>13, EnteredBy DEF Steps

LEMMA StagesStep ==
    ASSUME TypeOK, TypeOK', Locals, Sole, Stages, [Next]_vars
    PROVE  Stages'
<1> SUFFICES ASSUME NEW q \in Procs PROVE StageOf(q)'
    BY DEF Stages
<1>1. CASE Step(q)
    BY <1>1, OwnStageStep
<1>2. CASE UNCHANGED vars \/ UserEdit \/ \E p \in Procs : p # q /\ Step(p)
  <2>1. StageOf(q)
      BY DEF Stages
  <2>2. pc'[q] = pc[q] /\ at'[q] = at[q] /\ blocks'[q] = blocks[q] /\ mine'[q] = mine[q]
      BY <1>2, SamePlace
  <2>3. CASE pc[q] \in Busy \cup Restoring
    <3>1. PICK c \in DOMAIN checkpoints : c = mine[q]
        BY <2>3 DEF Locals, LocalsOf, Busy, Covering, Restoring
    <3>2. checkpoints'[c] = checkpoints[c] /\ (pc[q] \in Busy => written'[c] = written[c])
        BY <1>2, <2>3, <3>1, CheckpointStays
    <3>3. pc[q] \in Busy => Wrote(c)' = Wrote(c)
        BY <3>2 DEF Wrote
    <3>4. pc[q] \in {"backup", "prepare"} => pc[q] \in Busy
        BY DEF Busy, Covering
    <3>5. QED
        BY <2>1, <2>2, <3>1, <3>2, <3>3, <3>4 DEF StageOf, Restoring, Wrote
  <2>4. CASE pc[q] \notin Busy \cup Restoring
      BY <2>2, <2>4 DEF StageOf, Busy, Covering, Restoring
  <2>5. QED
      BY <2>3, <2>4
<1>3. QED
    BY <1>1, <1>2 DEF Next, Step, Starting

-----------------------------------------------------------------------------
(* What a checkpoint keeps *)

LEMMA CheckpointType ==
    ASSUME TypeOK, NEW c \in DOMAIN checkpoints
    PROVE  c \in 1 .. Len(checkpoints) /\ checkpoints[c] \in Checkpoint
<1>1. checkpoints \in Seq(Checkpoint)
    BY DEF TypeOK
<1>2. c \in 1 .. Len(checkpoints)
    BY <1>1
<1>3. QED
    BY <1>1, <1>2, ElementOfSeq

\* A file with an entry has a last one, and Kept chooses that.
LEMMA LastEntry ==
    ASSUME NEW es \in Seq(Entry), NEW f, NEW k \in DOMAIN es, es[k].file = f
    PROVE  \E i \in DOMAIN es : es[i].file = f /\ \A j \in DOMAIN es : es[j].file = f => j <= i
<1> DEFINE S == {j \in 1 .. Len(es) : es[j].file = f}
<1>1. S \in SUBSET (1 .. Len(es)) /\ S # {} /\ Len(es) \in Nat
    OBVIOUS
<1>2. PICK i \in S : \A j \in S : j <= i
    BY <1>1, MaxExists
<1>3. DOMAIN es = 1 .. Len(es)
    OBVIOUS
<1>4. i \in 1 .. Len(es) /\ es[i].file = f
    BY <1>2
<1>5. \A j \in 1 .. Len(es) : es[j].file = f => j <= i
    BY <1>2
<1>6. QED
  <2> HIDE DEF S
  <2> QED
      BY <1>3, <1>4, <1>5

LEMMA ChosenEntry ==
    ASSUME NEW es \in Seq(Entry), NEW f, NEW i \in DOMAIN es, es[i].file = f,
           \A j \in DOMAIN es : es[j].file = f => j <= i
    PROVE  i = CHOOSE n \in DOMAIN es : es[n].file = f /\ \A j \in DOMAIN es : es[j].file = f => j <= n
<1> DEFINE Last(n) == es[n].file = f /\ \A j \in DOMAIN es : es[j].file = f => j <= n
           c == CHOOSE n \in DOMAIN es : Last(n)
<1>1. c \in DOMAIN es /\ Last(c)
    OBVIOUS
<1>2. c <= i /\ i <= c /\ c \in Nat /\ i \in Nat
    BY <1>1
<1>3. i = c
    BY <1>2
<1>4. QED
    BY <1>3

\* The content an entry stands for.
Shown(c, j) ==
    LET e == checkpoints[c].entries[j] IN IF e.existed THEN checkpoints[c].backup[e.file] ELSE Absent

LEMMA KeptIsShown ==
    ASSUME TypeOK, NEW c \in DOMAIN checkpoints, NEW f, NEW i \in DOMAIN checkpoints[c].entries,
           checkpoints[c].entries[i].file = f,
           \A j \in DOMAIN checkpoints[c].entries : checkpoints[c].entries[j].file = f => j <= i
    PROVE  Kept(c, f) = Shown(c, i)
<1> DEFINE es == checkpoints[c].entries
<1>1. es \in Seq(Entry)
    BY CheckpointType DEF Checkpoint
<1>2. i = CHOOSE n \in DOMAIN es : es[n].file = f /\ \A j \in DOMAIN es : es[j].file = f => j <= n
    BY <1>1, ChosenEntry
<1>3. QED
    BY <1>2 DEF Kept, Shown

\* One turn of the loop of create: the target has its content of this moment in
\* the checkpoint, and nothing changes for the targets before it.
LEMMA KeptAfterBackup ==
    ASSUME TypeOK, TypeOK', Locals, NEW p \in Procs, BackupBlock(p), NEW c \in DOMAIN checkpoints,
           c = mine[p], NEW f
    PROVE  /\ f = blocks[p][at[p]].file => Kept(c, f)' = disk[f]
           /\ f # blocks[p][at[p]].file /\ f \in Covered(c) => Kept(c, f)' = Kept(c, f)
<1> DEFINE g == blocks[p][at[p]].file
           es == checkpoints[c].entries
           es2 == checkpoints'[c].entries
<1>1. PICK e \in Entry : e = EntryOf(g, checkpoints[c]) /\ es2 = Append(es, e)
    BY BackupEffect
<1>2. /\ es \in Seq(Entry) /\ g \in Files /\ c \in DOMAIN checkpoints'
      /\ checkpoints'[c].backup = [checkpoints[c].backup EXCEPT ![g] =
                                        IF disk[g] # Absent THEN disk[g] ELSE @]
    BY BackupEffect
<1>3. checkpoints[c].backup \in [Files -> MaybeContent]
    BY CheckpointType DEF Checkpoint
<1>4. PICK n \in Nat : n = Len(es)
    BY <1>2
<1>5. /\ es2 \in Seq(Entry) /\ DOMAIN es2 = 1 .. n + 1 /\ DOMAIN es = 1 .. n
      /\ es2[n + 1] = e /\ \A i \in 1 .. n : es2[i] = es[i]
    BY <1>1, <1>2, <1>4
<1>e. es2[n + 1].file = g
    BY <1>1, <1>5 DEF EntryOf
<1>6. ASSUME f = g PROVE Kept(c, f)' = disk[f]
  <2>1. es2[n + 1].file = f
      BY <1>e, <1>6
  <2>2. \A j \in DOMAIN es2 : es2[j].file = f => j <= n + 1
      BY <1>5
  <2>3. n + 1 = CHOOSE i \in DOMAIN es2 :
                    es2[i].file = f /\ \A j \in DOMAIN es2 : es2[j].file = f => j <= i
      BY <1>5, <2>1, <2>2, ChosenEntry
  <2>4. Kept(c, f)' = IF e.existed THEN checkpoints'[c].backup[f] ELSE Absent
      BY <1>5, <2>3 DEF Kept
  <2>5. e.existed <=> disk[f] # Absent
      BY <1>1, <1>6 DEF EntryOf
  <2>6. disk[f] # Absent => checkpoints'[c].backup[f] = disk[f]
      BY <1>2, <1>3, <1>6
  <2>7. QED
      BY <2>4, <2>5, <2>6
<1>7. ASSUME f # g, f \in Covered(c) PROVE Kept(c, f)' = Kept(c, f)
  <2>1. PICK k \in DOMAIN es : es[k].file = f
      BY <1>7 DEF Covered
  <2>2. PICK i \in DOMAIN es : es[i].file = f /\ \A j \in DOMAIN es : es[j].file = f => j <= i
    <3> HIDE DEF es
    <3> QED
        BY <1>2, <2>1, LastEntry
  <2>3. Kept(c, f) = Shown(c, i)
      BY <2>2, KeptIsShown
  <2>4. es2[n + 1].file # f
      BY <1>e, <1>7
  <2>5. i \in DOMAIN es2 /\ es2[i] = es[i]
      BY <1>5, <2>2
  <2>6. \A j \in DOMAIN es2 : es2[j].file = f => j <= i
    <3>1. SUFFICES ASSUME NEW j \in DOMAIN es2, es2[j].file = f PROVE j <= i
        OBVIOUS
    <3>2. j \in DOMAIN es /\ es2[j] = es[j]
        BY <1>5, <2>4, <3>1
    <3>3. QED
        BY <2>2, <3>1, <3>2
  <2>7. i = CHOOSE m \in DOMAIN es2 :
                es2[m].file = f /\ \A j \in DOMAIN es2 : es2[j].file = f => j <= m
      BY <1>5, <2>2, <2>5, <2>6, ChosenEntry
  <2>8. Kept(c, f)' = IF es[i].existed THEN checkpoints'[c].backup[f] ELSE Absent
      BY <2>5, <2>7 DEF Kept
  <2>9. checkpoints'[c].backup[f] = checkpoints[c].backup[f]
      BY <1>2, <1>3, <1>7
  <2>10. QED
      BY <2>2, <2>3, <2>8, <2>9 DEF Shown
<1>8. QED
    BY <1>6, <1>7

\* metadata.json says nothing about a content.
LEMMA KeptAfterMetadata ==
    ASSUME TypeOK, NEW p \in Procs, WriteMetadata(p), NEW c \in DOMAIN checkpoints, NEW f
    PROVE  Kept(c, f)' = Kept(c, f)
<1>1. checkpoints \in Seq(Checkpoint) /\ checkpoints[c] \in Checkpoint
    BY CheckpointType DEF TypeOK
<1>2. /\ checkpoints'[c].entries = checkpoints[c].entries
      /\ checkpoints'[c].backup = checkpoints[c].backup
    BY <1>1 DEF WriteMetadata, Checkpoint
<1>3. QED
    BY <1>2 DEF Kept

\* From its backup to its first write by the patch, a target nobody else changes
\* has the content the checkpoint keeps.
SavedOf(p) ==
    pc[p] \in {"backup", "prepare", "apply", "replace"} =>
        \A i \in DOMAIN blocks[p] :
            LET f == blocks[p][i].file
            IN  /\ pc[p] = "backup" => i < at[p]
                /\ f \notin sinceBackup[p]
                /\ written[mine[p]][f] = Unwritten
                => disk[f] = Kept(mine[p], f)

Saved == \A p \in Procs : SavedOf(p)

\* So has what _prepare_operations read.
OriginalOf(p) ==
    pc[p] \in {"apply", "replace", "applied"} =>
        \A f \in Targets(blocks[p]) \ sinceBackup[p] : original[p][f] = Kept(mine[p], f)

Originals == \A p \in Procs : OriginalOf(p)

LEMMA TargetType ==
    ASSUME TypeOK, NEW p \in Procs, NEW i \in DOMAIN blocks[p]
    PROVE  /\ blocks[p][i].file \in Files
           /\ blocks[p][i].op \in {"update", "create", "delete"}
           /\ i \in Nat /\ i >= 1 /\ i <= Len(blocks[p])
<1>1. blocks[p] \in Seq(Block)
    BY DEF TypeOK
<1>2. blocks[p][i] \in Block /\ i \in 1 .. Len(blocks[p])
    BY <1>1, ElementOfSeq
<1>3. QED
    BY <1>2, BlockFields

\* Process p, whose checkpoint is c, writes file g for the operation it is at.
Writes(p, c, g) ==
    /\ g \in Files
    /\ at[p] \in DOMAIN blocks[p]
    /\ pc[p] \in {"apply", "replace"}
    /\ blocks'[p] = blocks[p] /\ mine'[p] = mine[p] /\ original'[p] = original[p]
    /\ undoFailed'[p] = undoFailed[p]
    /\ UNCHANGED checkpoints
    /\ sinceBackup'[p] = sinceBackup[p]
    /\ moved'[p] = moved[p] \cup {g}
    /\ \A h \in Files : h # g => disk'[h] = disk[h] /\ written'[c][h] = written[c][h]
    /\ written'[c][g] = IF written[c][g] = Unwritten THEN disk[g] ELSE written[c][g]
    /\ written'[c][g] # Unwritten
    /\ raced'[c] = IF g \in sinceBackup[p] THEN raced[c] \cup {g} ELSE raced[c]

LEMMA WriteEffect ==
    ASSUME TypeOK, Locals, NEW p \in Procs,
           ApplyDelete(p) \/ ApplyCreate(p) \/ ReplaceFile(p) \/ SyncFails(p),
           NEW c \in DOMAIN checkpoints, c = mine[p], NEW g, g = blocks[p][at[p]].file
    PROVE  Writes(p, c, g)
<1>1. pc[p] \in {"apply", "replace"} /\ at[p] <= Len(blocks[p])
    BY DEF ApplyDelete, ApplyCreate, ReplaceFile, SyncFails, AtOperation, Locals, LocalsOf
<1>2. g \in Files /\ at[p] \in DOMAIN blocks[p]
    BY <1>1, OwnBlock DEF Locals, LocalsOf
<1>3. (Unlink(g) \/ \E d : RenameOver(g, d)) /\ RecordWrite(p, g) /\ UNCHANGED <<store, job>>
    BY DEF ApplyDelete, ApplyCreate, ReplaceFile, SyncFails
<1>4. \A h \in Files : h # g => disk'[h] = disk[h]
    BY <1>3 DEF Unlink, RenameOver, TypeOK
<1>5. moved'[p] = moved[p] \cup {g}
    BY <1>1, <1>3 DEF Unlink, RenameOver, Moved, TypeOK
<1>6. c \in DOMAIN written /\ c \in DOMAIN raced
    BY CheckpointType DEF TypeOK
<1>7. written[c] \in [Files -> MaybeContent \cup {Unwritten}]
    BY <1>6, ElementOfSeq DEF TypeOK
<1>8. /\ \A h \in Files : h # g => written'[c][h] = written[c][h]
      /\ written'[c][g] = IF written[c][g] = Unwritten THEN disk[g] ELSE written[c][g]
  <2>1. written' = [written EXCEPT ![c] = [written[c] EXCEPT ![g] =
                        IF written[c][g] = Unwritten THEN disk[g] ELSE written[c][g]]]
      BY <1>3 DEF RecordWrite
  <2>2. written'[c] = [written[c] EXCEPT ![g] =
                        IF written[c][g] = Unwritten THEN disk[g] ELSE written[c][g]]
      BY <1>6, <2>1
  <2>3. QED
      BY <1>2, <1>7, <2>2
<1>9. raced'[c] = IF g \in sinceBackup[p] THEN raced[c] \cup {g} ELSE raced[c]
  <2>1. raced' = [raced EXCEPT ![c] = IF g \in sinceBackup[p] THEN raced[c] \cup {g} ELSE raced[c]]
      BY <1>3 DEF RecordWrite
  <2>2. QED
      BY <1>6, <2>1
<1>10. written'[c][g] # Unwritten
    BY <1>2, <1>8, PatchAssumption DEF TypeOK
<1>11. sinceBackup'[p] = sinceBackup[p]
    BY <1>3 DEF RecordWrite, Surprise, TypeOK
<1>12. QED
    BY <1>1, <1>2, <1>3, <1>4, <1>5, <1>8, <1>9, <1>10, <1>11 DEF store, job, Writes

\* Kept reads nothing but the checkpoint.
LEMMA KeptStays ==
    ASSUME NEW c, checkpoints'[c] = checkpoints[c], NEW f
    PROVE  Kept(c, f)' = Kept(c, f)
BY DEF Kept

LEMMA OwnSavedStep ==
    ASSUME TypeOK, TypeOK', Locals, Coverage, Stages, Saved, NEW p \in Procs, Step(p)
    PROVE  SavedOf(p)'
<1>1. /\ pc = [r \in Procs |-> pc[r]] /\ at = [r \in Procs |-> at[r]]
      /\ blocks = [r \in Procs |-> blocks[r]] /\ mine = [r \in Procs |-> mine[r]]
      /\ sinceBackup = [r \in Procs |-> sinceBackup[r]]
    BY DEF TypeOK
<1>2. SavedOf(p) /\ StageOf(p) /\ CoverageOf(p) /\ LocalsOf(p)
    BY DEF Saved, Stages, Coverage, Locals
<1>3. CASE BeginCheckpoint(p)
  <2>1. pc'[p] = "backup" /\ at'[p] = 1 /\ blocks'[p] = blocks[p]
      BY <1>1, <1>2, <1>3 DEF BeginCheckpoint, Goto, LocalsOf
  <2>2. \A i \in DOMAIN blocks[p] : ~ (i < 1)
      BY DEF TypeOK
  <2>3. QED
      BY <2>1, <2>2 DEF SavedOf
<1>4. CASE BackupBlock(p)
  <2>1. /\ pc[p] = "backup" /\ pc'[p] = "backup" /\ blocks'[p] = blocks[p] /\ mine'[p] = mine[p]
        /\ at'[p] = at[p] + 1 /\ disk' = disk /\ written' = written
        /\ sinceBackup'[p] = sinceBackup[p] \ {blocks[p][at[p]].file}
      BY <1>1, <1>4 DEF BackupBlock, tree, job
  <2>2. PICK c \in DOMAIN checkpoints : c = mine[p]
      BY <1>2, <2>1 DEF LocalsOf
  <2>3. ASSUME NEW i \in DOMAIN blocks[p], i < at[p] + 1, NEW f, f = blocks[p][i].file,
               f \notin sinceBackup'[p], written[c][f] = Unwritten
        PROVE  disk[f] = Kept(c, f)'
    <3>1. CASE f = blocks[p][at[p]].file
        BY <1>4, <2>2, <3>1, KeptAfterBackup
    <3>2. CASE f # blocks[p][at[p]].file
      <4>1. i < at[p]
          BY <2>3, <3>2 DEF TypeOK
      <4>2. f \in Covered(c) /\ f \notin sinceBackup[p]
          BY <1>2, <2>1, <2>2, <2>3, <3>2, <4>1 DEF CoverageOf
      <4>3. disk[f] = Kept(c, f)
          BY <1>2, <2>1, <2>2, <2>3, <4>1, <4>2 DEF SavedOf
      <4>4. Kept(c, f)' = Kept(c, f)
          BY <1>4, <2>2, <3>2, <4>2, KeptAfterBackup
      <4>5. QED
          BY <4>3, <4>4
    <3>3. QED
        BY <3>1, <3>2
  <2>4. QED
      BY <2>1, <2>2, <2>3 DEF SavedOf
<1>5. ASSUME UNCHANGED <<disk, written>>, sinceBackup'[p] = sinceBackup[p],
             pc[p] \in {"backup", "prepare", "apply", "replace"}, pc'[p] # "backup",
             pc[p] = "backup" => at[p] > Len(blocks[p]),
             blocks'[p] = blocks[p], mine'[p] = mine[p],
             NEW c \in DOMAIN checkpoints, c = mine[p], \A f : Kept(c, f)' = Kept(c, f)
      PROVE  SavedOf(p)'
  <2>1. \A i \in DOMAIN blocks[p] : pc[p] = "backup" => i < at[p]
      BY <1>5 DEF TypeOK
  <2>2. ASSUME NEW i \in DOMAIN blocks[p], NEW f, f = blocks[p][i].file,
               f \notin sinceBackup[p], written[c][f] = Unwritten
        PROVE  disk'[f] = Kept(c, f)'
    <3>1. disk[f] = Kept(c, f)
        BY <1>2, <1>5, <2>1, <2>2 DEF SavedOf
    <3>2. QED
        BY <1>5, <3>1
  <2>3. QED
      BY <1>5, <2>2 DEF SavedOf
<1>6. CASE WriteMetadata(p)
  <2>1. PICK c \in DOMAIN checkpoints : c = mine[p]
      BY <1>2, <1>6 DEF WriteMetadata, LocalsOf
  <2>2. \A f : Kept(c, f)' = Kept(c, f)
      BY <1>6, <2>1, KeptAfterMetadata
  <2>3. QED
      BY <1>1, <1>5, <1>6, <2>1, <2>2 DEF WriteMetadata, Goto, tree, job, history, witness
<1>7. CASE Prepare(p) \/ SkipMerged(p) \/ CheckUpdate(p)
  <2>1. pc[p] \in {"prepare", "apply"} /\ pc'[p] \in {"apply", "replace"}
      BY <1>1, <1>7 DEF Prepare, SkipMerged, CheckUpdate, AtOperation, Goto
  <2>2. PICK c \in DOMAIN checkpoints : c = mine[p]
      BY <1>2, <2>1 DEF LocalsOf
  <2>3. /\ UNCHANGED <<disk, written, checkpoints>> /\ sinceBackup'[p] = sinceBackup[p]
        /\ blocks'[p] = blocks[p] /\ mine'[p] = mine[p]
      BY <1>7 DEF Prepare, SkipMerged, CheckUpdate, tree, store, job, history, witness
  <2>4. \A f : Kept(c, f)' = Kept(c, f)
      BY <2>3, KeptStays
  <2>5. QED
      BY <1>5, <2>1, <2>2, <2>3, <2>4
<1>8. CASE ApplyDelete(p) \/ ApplyCreate(p) \/ ReplaceFile(p)
  <2>1. pc[p] \in {"apply", "replace"}
      BY <1>8 DEF ApplyDelete, ApplyCreate, ReplaceFile, AtOperation
  <2>2. PICK c \in DOMAIN checkpoints : c = mine[p]
      BY <1>2, <2>1 DEF LocalsOf
  <2>3. PICK g : g = blocks[p][at[p]].file
      OBVIOUS
  <2>4. Writes(p, c, g)
      BY <1>8, <2>2, <2>3, WriteEffect
  <2>5. pc'[p] = "apply"
      BY <1>1, <1>8 DEF ApplyDelete, ApplyCreate, ReplaceFile, AtOperation, Goto
  <2>6. ASSUME NEW i \in DOMAIN blocks[p], NEW f, f = blocks[p][i].file,
               f \notin sinceBackup[p], written'[c][f] = Unwritten
        PROVE  disk'[f] = Kept(c, f)'
    <3>1. f \in Files
        BY <2>6, TargetType
    <3>2. f # g /\ disk'[f] = disk[f] /\ written[c][f] = Unwritten
        BY <2>4, <2>6, <3>1 DEF Writes
    <3>3. disk[f] = Kept(c, f)
        BY <1>2, <2>1, <2>2, <2>6, <3>2 DEF SavedOf
    <3>4. QED
        BY <2>4, <3>2, <3>3, KeptStays DEF Writes
  <2>7. QED
      BY <2>2, <2>4, <2>5, <2>6 DEF SavedOf, Writes
<1>9. CASE pc'[p] \notin {"backup", "prepare", "apply", "replace"}
    BY <1>9 DEF SavedOf
<1>10. QED
    BY <1>3, <1>4, <1>6, <1>7, <1>8, <1>9, EnteredBy

LEMMA SavedStep ==
    ASSUME TypeOK, TypeOK', Locals, Coverage, Sole, Stages, Saved, [Next]_vars
    PROVE  Saved'
<1> SUFFICES ASSUME NEW q \in Procs PROVE SavedOf(q)'
    BY DEF Saved
<1>1. CASE Step(q)
    BY <1>1, OwnSavedStep
<1>2. CASE UNCHANGED vars \/ UserEdit \/ \E p \in Procs : p # q /\ Step(p)
  <2>1. CASE pc[q] \in {"backup", "prepare", "apply", "replace"}
    <3>1. Apart(q)
        BY <1>2, <2>1, Bystander
    <3>2. PICK c \in DOMAIN checkpoints : c = mine[q]
        BY <2>1 DEF Locals, LocalsOf
    <3>3. checkpoints'[c] = checkpoints[c] /\ written'[c] = written[c]
      <4>1. pc[q] \in Busy
          BY <2>1 DEF Busy, Covering
      <4>2. QED
          BY <1>2, <3>2, <4>1, CheckpointStays
    <3>4. SavedOf(q)
        BY DEF Saved
    <3>5. ASSUME NEW i \in DOMAIN blocks[q], pc[q] = "backup" => i < at[q],
                 NEW f, f = blocks[q][i].file,
                 f \notin sinceBackup'[q], written[c][f] = Unwritten
          PROVE  disk'[f] = Kept(c, f)'
      <4>1. f \in Files
          BY <3>5, TargetType
      <4>2. f \notin sinceBackup[q] /\ disk'[f] = disk[f]
          BY <3>1, <3>5, <4>1 DEF Apart
      <4>3. disk[f] = Kept(c, f)
          BY <2>1, <3>2, <3>4, <3>5, <4>2 DEF SavedOf
      <4>4. QED
          BY <3>3, <4>2, <4>3, KeptStays
    <3>6. QED
        BY <2>1, <3>1, <3>2, <3>3, <3>5 DEF SavedOf, Apart
  <2>2. CASE pc[q] \notin {"backup", "prepare", "apply", "replace"}
    <3>1. pc'[q] = pc[q]
        BY <1>2, SamePlace
    <3>2. QED
        BY <2>2, <3>1 DEF SavedOf
  <2>3. QED
      BY <2>1, <2>2
<1>3. QED
    BY <1>1, <1>2 DEF Next, Step, Starting

\* The first read of a target that nobody changed finds what the checkpoint has.
LEMMA OwnOriginalStep ==
    ASSUME TypeOK, TypeOK', Locals, Stages, Saved, Originals, NEW p \in Procs, Step(p)
    PROVE  OriginalOf(p)'
<1>1. /\ pc = [r \in Procs |-> pc[r]] /\ original = [r \in Procs |-> original[r]]
    BY DEF TypeOK
<1>2. SavedOf(p) /\ StageOf(p) /\ OriginalOf(p) /\ LocalsOf(p)
    BY DEF Saved, Stages, Originals, Locals
<1>3. CASE Prepare(p)
  <2>1. /\ pc[p] = "prepare" /\ UNCHANGED <<disk, checkpoints>> /\ original'[p] = disk
        /\ blocks'[p] = blocks[p] /\ mine'[p] = mine[p] /\ sinceBackup'[p] = sinceBackup[p]
      BY <1>1, <1>3 DEF Prepare, store, history, witness
  <2>2. PICK c \in DOMAIN checkpoints : c = mine[p]
      BY <1>2, <2>1 DEF LocalsOf
  <2>3. Wrote(c) = {}
      BY <1>2, <2>1, <2>2 DEF StageOf
  <2>4. ASSUME NEW f \in Targets(blocks[p]) \ sinceBackup[p] PROVE disk[f] = Kept(c, f)'
    <3>1. PICK i \in DOMAIN blocks[p] : blocks[p][i].file = f
        BY DEF Targets
    <3>2. f \in Files
        BY <3>1, TargetType
    <3>3. written[c][f] = Unwritten
        BY <2>3, <3>2 DEF Wrote
    <3>4. disk[f] = Kept(c, f)
        BY <1>2, <2>1, <2>2, <2>4, <3>1, <3>3 DEF SavedOf
    <3>5. QED
        BY <2>1, <3>4, KeptStays
  <2>5. QED
      BY <2>1, <2>2, <2>4 DEF OriginalOf
<1>4. ASSUME pc[p] \in {"apply", "replace"}, UNCHANGED checkpoints,
             blocks'[p] = blocks[p], mine'[p] = mine[p], original'[p] = original[p],
             sinceBackup'[p] = sinceBackup[p]
      PROVE  OriginalOf(p)'
  <2>1. PICK c \in DOMAIN checkpoints : c = mine[p]
      BY <1>2, <1>4 DEF LocalsOf
  <2>2. ASSUME NEW f \in Targets(blocks[p]) \ sinceBackup[p] PROVE original[p][f] = Kept(c, f)'
      BY <1>2, <1>4, <2>1, KeptStays DEF OriginalOf
  <2>3. QED
      BY <1>4, <2>1, <2>2 DEF OriginalOf
<1>5. CASE SkipMerged(p) \/ CheckUpdate(p) \/ OperationsDone(p)
    BY <1>4, <1>5
       DEF SkipMerged, CheckUpdate, OperationsDone, AtOperation, store, job, history, witness
<1>6. CASE ApplyDelete(p) \/ ApplyCreate(p) \/ ReplaceFile(p)
  <2>1. PICK c \in DOMAIN checkpoints : c = mine[p]
      BY <1>2, <1>6 DEF ApplyDelete, ApplyCreate, ReplaceFile, AtOperation, LocalsOf
  <2>2. PICK g : g = blocks[p][at[p]].file
      OBVIOUS
  <2>3. Writes(p, c, g)
      BY <1>6, <2>1, <2>2, WriteEffect
  <2>4. QED
      BY <1>4, <2>3 DEF Writes
<1>7. CASE pc'[p] \notin {"apply", "replace", "applied"}
    BY <1>7 DEF OriginalOf
<1>8. QED
    BY <1>3, <1>5, <1>6, <1>7, EnteredBy

LEMMA OriginalsStep ==
    ASSUME TypeOK, TypeOK', Locals, Sole, Stages, Saved, Originals, [Next]_vars
    PROVE  Originals'
<1> SUFFICES ASSUME NEW q \in Procs PROVE OriginalOf(q)'
    BY DEF Originals
<1>1. CASE Step(q)
    BY <1>1, OwnOriginalStep
<1>2. CASE UNCHANGED vars \/ UserEdit \/ \E p \in Procs : p # q /\ Step(p)
  <2>1. CASE pc[q] \in {"apply", "replace", "applied"}
    <3>1. Apart(q)
        BY <1>2, <2>1, Bystander
    <3>2. PICK c \in DOMAIN checkpoints : c = mine[q]
        BY <2>1 DEF Locals, LocalsOf
    <3>3. checkpoints'[c] = checkpoints[c]
      <4>1. pc[q] \in Busy
          BY <2>1 DEF Busy, Covering
      <4>2. QED
          BY <1>2, <3>2, <4>1, CheckpointStays
    <3>4. OriginalOf(q)
        BY DEF Originals
    <3>5. ASSUME NEW f \in Targets(blocks[q]) \ sinceBackup'[q] PROVE original[q][f] = Kept(c, f)'
        BY <2>1, <3>1, <3>2, <3>3, <3>4, KeptStays DEF OriginalOf, Apart
    <3>6. QED
        BY <2>1, <3>1, <3>2, <3>5 DEF OriginalOf, Apart
  <2>2. CASE pc[q] \notin {"apply", "replace", "applied"}
      BY <1>2, <2>2, SamePlace DEF OriginalOf
  <2>3. QED
      BY <2>1, <2>2
<1>3. QED
    BY <1>1, <1>2 DEF Next, Step, Starting

\* What a patch overwrites is what its checkpoint keeps.
LEMMA PreimageStep ==
    ASSUME TypeOK, TypeOK', Locals, Stages, Saved, BackupIsPreimage, [Next]_vars
    PROVE  BackupIsPreimage'
<1> SUFFICES ASSUME NEW c \in DOMAIN checkpoints', NEW f \in Files,
                    written'[c][f] # Unwritten, f \notin raced'[c]
             PROVE  Kept(c, f)' = written'[c][f]
    BY DEF BackupIsPreimage, Wrote
<1>1. ASSUME c \in DOMAIN checkpoints, written'[c][f] = written[c][f], f \notin raced[c],
             Kept(c, f)' = Kept(c, f)
      PROVE  Kept(c, f)' = written'[c][f]
    BY <1>1 DEF BackupIsPreimage, Wrote
<1>2. CASE UNCHANGED vars \/ UserEdit
  <2>1. UNCHANGED <<checkpoints, written, raced>>
      BY <1>2 DEF vars, UserEdit, store, history
  <2>2. QED
      BY <1>1, <2>1, KeptStays
<1>3. ASSUME NEW p \in Procs, Step(p) PROVE Kept(c, f)' = written'[c][f]
  <2>1. CASE c \notin DOMAIN checkpoints
    <3>1. DOMAIN checkpoints' # DOMAIN checkpoints
        BY <2>1
    <3>2. BeginCheckpoint(p)
        BY <1>3, <3>1, CheckpointsChange, BackupEffect DEF WriteMetadata
    <3>3. c = Len(written) + 1
        BY <2>1, <3>2 DEF BeginCheckpoint, TypeOK
    <3>4. written'[c] = [g \in Files |-> Unwritten]
        BY <3>2, <3>3 DEF BeginCheckpoint, TypeOK
    <3>5. QED
        BY <3>4
  <2>2. CASE c \in DOMAIN checkpoints /\ c # mine[p]
      BY <1>1, <1>3, <2>2, CheckpointKept, KeptStays
  <2>3. CASE c \in DOMAIN checkpoints /\ c = mine[p]
    <3>1. CASE BackupBlock(p)
      <4>1. pc[p] = "backup" /\ written' = written
          BY <3>1 DEF BackupBlock
      <4>2. Wrote(c) = {}
          BY <2>3, <4>1 DEF Stages, StageOf
      <4>3. QED
          BY <4>1, <4>2 DEF Wrote
    <3>2. CASE WriteMetadata(p)
      <4>1. UNCHANGED <<written, raced>>
          BY <3>2 DEF WriteMetadata, history
      <4>2. QED
          BY <1>1, <2>3, <3>2, <4>1, KeptAfterMetadata
    <3>3. CASE BeginCheckpoint(p)
      <4>1. EmptyCheckpoint \in Checkpoint
          BY DEF EmptyCheckpoint, Checkpoint, MaybeContent
      <4>2. checkpoints'[c] = checkpoints[c]
          BY <2>3, <3>3, <4>1, AppendProperties DEF BeginCheckpoint, TypeOK
      <4>3. written'[c] = written[c] /\ raced'[c] = raced[c]
        <5>1. c \in 1 .. Len(written) /\ c \in 1 .. Len(raced)
            BY <2>3 DEF TypeOK
        <5>2. QED
            BY <3>3, <5>1 DEF BeginCheckpoint, TypeOK
      <4>4. QED
          BY <1>1, <2>3, <4>2, <4>3, KeptStays
    <3>4. CASE UNCHANGED <<checkpoints, written, raced>>
        BY <1>1, <2>3, <3>4, KeptStays
    <3>5. ASSUME pc[p] \in {"apply", "replace"}, at[p] \in DOMAIN blocks[p],
                 NEW g, g = blocks[p][at[p]].file, Writes(p, c, g)
          PROVE  Kept(c, f)' = written'[c][f]
      <4>1. Kept(c, f)' = Kept(c, f)
          BY <3>5, KeptStays DEF Writes
      <4>2. CASE f # g
          BY <1>1, <2>3, <3>5, <4>1, <4>2 DEF Writes
      <4>3. CASE f = g /\ written[c][f] # Unwritten
          BY <1>1, <2>3, <3>5, <4>1, <4>3 DEF Writes
      <4>4. CASE f = g /\ written[c][f] = Unwritten
        <5>1. written'[c][f] = disk[f] /\ f \notin sinceBackup[p]
            BY <3>5, <4>4 DEF Writes
        <5>2. SavedOf(p)
            BY DEF Saved
        <5>3. disk[f] = Kept(c, f)
            BY <2>3, <3>5, <4>4, <5>1, <5>2 DEF SavedOf
        <5>4. QED
            BY <4>1, <5>1, <5>3
      <4>5. QED
          BY <4>2, <4>3, <4>4
    <3>6. QED
      <4>1. PICK g : g = blocks[p][at[p]].file
          OBVIOUS
      <4>2. CASE ApplyDelete(p) \/ ApplyCreate(p) \/ ReplaceFile(p) \/ SyncFails(p)
        <5>1. Writes(p, c, g)
            BY <2>3, <4>1, <4>2, WriteEffect
        <5>2. QED
            BY <3>5, <4>1, <5>1 DEF Writes
      <4>3. QED
          BY <1>3, <3>1, <3>2, <3>3, <3>4, <4>2, CheckpointsChange, WrittenEffect
  <2>4. QED
      BY <2>1, <2>2, <2>3
<1>4. QED
    BY <1>2, <1>3 DEF Next, Step, Starting

-----------------------------------------------------------------------------
(* What a rollback has brought back *)

\* The last entry whose file a rollback has touched.
Touched(p) == IF pc[p] = "copy" THEN at[p] ELSE at[p] - 1

\* While a checkpoint is copied back, each file has what its last restored entry
\* stands for.
RestoredOf(p) ==
    pc[p] \in Restoring =>
        LET es == checkpoints[mine[p]].entries
        IN  \A j \in DOMAIN es :
                /\ j < at[p]
                /\ es[j].file \notin sinceBackup[p]
                /\ \A k \in DOMAIN es : j < k /\ k <= Touched(p) => es[k].file # es[j].file
                => disk[es[j].file] = Shown(mine[p], j)

RestoredFiles == \A p \in Procs : RestoredOf(p)

\* The entries of a checkpoint name files.
LEMMA EntryType ==
    ASSUME TypeOK, NEW c \in DOMAIN checkpoints, NEW j \in DOMAIN checkpoints[c].entries
    PROVE  /\ checkpoints[c].entries[j].file \in Files
           /\ j \in Nat /\ j >= 1 /\ j <= Len(checkpoints[c].entries)
<1>1. checkpoints[c].entries \in Seq(Entry)
    BY CheckpointType DEF Checkpoint
<1>2. checkpoints[c].entries[j] \in Entry /\ j \in 1 .. Len(checkpoints[c].entries)
    BY <1>1, ElementOfSeq
<1>3. QED
    BY <1>2 DEF Entry

\* A step of a rollback that writes entry i: what it leaves in the file is n.
LEMMA RestoreEffect ==
    ASSUME TypeOK, Locals, NEW p \in Procs, NEW c \in DOMAIN checkpoints, c = mine[p],
           RemoveCreated(p) \/ TruncateTarget(p) \/ CopyBackup(p)
    PROVE  /\ at[p] \in DOMAIN checkpoints[c].entries
           /\ UNCHANGED checkpoints /\ mine'[p] = mine[p] /\ sinceBackup'[p] = sinceBackup[p]
           /\ \A h \in Files : h # checkpoints[c].entries[at[p]].file => disk'[h] = disk[h]
           /\ pc[p] \in {"restore", "copy"}
           /\ \/ pc'[p] = "copy" /\ pc[p] = "restore" /\ at'[p] = at[p]
              \/ /\ pc'[p] = "restore" /\ at'[p] = at[p] + 1
                 /\ disk'[checkpoints[c].entries[at[p]].file] = Shown(c, at[p])
<1> DEFINE es == checkpoints[c].entries
           f == es[at[p]].file
<1>1. pc[p] \in {"restore", "copy"} /\ at[p] <= Len(es)
    BY DEF RemoveCreated, TruncateTarget, CopyBackup, AtEntry
<1>2. at[p] \in DOMAIN es
  <2>1. es \in Seq(Entry)
      BY CheckpointType DEF Checkpoint
  <2>2. at[p] >= 1 /\ at[p] \in Nat
      BY <1>1 DEF Locals, LocalsOf, TypeOK
  <2>3. QED
      BY <1>1, <2>1, <2>2
<1>3. f \in Files
    BY <1>2, EntryType
<1>4. /\ disk = [h \in Files |-> disk[h]] /\ pc = [r \in Procs |-> pc[r]]
      /\ at = [r \in Procs |-> at[r]] /\ sinceBackup = [r \in Procs |-> sinceBackup[r]]
    BY DEF TypeOK
<1>5. CASE RemoveCreated(p)
    BY <1>2, <1>3, <1>4, <1>5
       DEF RemoveCreated, AtEntry, RestoredEntry, Unlink, Surprise, Shown, store, job
<1>6. CASE TruncateTarget(p)
    BY <1>2, <1>3, <1>4, <1>6
       DEF TruncateTarget, AtEntry, RestoredEntry, Surprise, Goto, store, job
<1>7. CASE CopyBackup(p)
    BY <1>2, <1>3, <1>4, <1>7
       DEF CopyBackup, AtEntry, RestoredEntry, Surprise, Goto, Shown, store, job
<1>8. QED
    BY <1>5, <1>6, <1>7

LEMMA OwnRestoredStep ==
    ASSUME TypeOK, TypeOK', Locals, RestoredFiles, NEW p \in Procs, Step(p)
    PROVE  RestoredOf(p)'
<1>1. /\ pc = [r \in Procs |-> pc[r]] /\ at = [r \in Procs |-> at[r]]
      /\ mine = [r \in Procs |-> mine[r]]
    BY DEF TypeOK
<1>2. RestoredOf(p) /\ LocalsOf(p)
    BY DEF RestoredFiles, Locals
<1>3. CASE StartRollback(p)
  <2>1. at'[p] = 1 /\ mine'[p] \in DOMAIN checkpoints'
      BY <1>1, <1>3 DEF StartRollback, store
  <2>2. PICK c \in DOMAIN checkpoints' : c = mine'[p]
      BY <2>1
  <2>3. \A j \in DOMAIN checkpoints'[c].entries : ~ (j < 1)
    <3>1. UNCHANGED checkpoints
        BY <1>3 DEF StartRollback, store
    <3>2. QED
        BY <3>1, EntryType
  <2>4. QED
      BY <2>1, <2>2, <2>3 DEF RestoredOf
<1>4. CASE RemoveCreated(p) \/ TruncateTarget(p) \/ CopyBackup(p)
  <2>1. PICK c \in DOMAIN checkpoints : c = mine[p]
      BY <1>2, <1>4 DEF RemoveCreated, TruncateTarget, CopyBackup, AtEntry, LocalsOf
  <2> DEFINE es == checkpoints[c].entries
  <2>2. PICK n \in Nat : n = at[p]
      BY DEF TypeOK
  <2>3. /\ n \in DOMAIN es
        /\ UNCHANGED checkpoints /\ mine'[p] = c /\ sinceBackup'[p] = sinceBackup[p]
        /\ \A h \in Files : h # es[n].file => disk'[h] = disk[h]
        /\ pc[p] \in {"restore", "copy"}
        /\ \/ pc'[p] = "copy" /\ pc[p] = "restore" /\ at'[p] = n
           \/ pc'[p] = "restore" /\ at'[p] = n + 1 /\ disk'[es[n].file] = Shown(c, n)
      BY <1>4, <2>1, <2>2, RestoreEffect
  <2>4. Touched(p)' = n /\ at'[p] <= n + 1 /\ Touched(p) <= n
      BY <2>2, <2>3 DEF Touched
  <2>5. ASSUME NEW j \in DOMAIN es, j < at'[p], NEW f, f = es[j].file, f \notin sinceBackup[p],
               \A k \in DOMAIN es : j < k /\ k <= n => es[k].file # f
        PROVE  disk'[f] = Shown(c, j)
    <3>1. j \in Nat /\ f \in Files
        BY <2>5, EntryType
    <3>2. CASE j = n
        BY <2>3, <2>5, <3>2
    <3>3. CASE j < n
      <4>1. f # es[n].file
          BY <2>3, <2>5, <3>3
      <4>2. ASSUME NEW k \in DOMAIN es, j < k, k <= Touched(p) PROVE es[k].file # f
        <5>1. k \in Nat
            BY EntryType
        <5>2. k <= n
            BY <2>2, <2>3, <4>2, <5>1 DEF Touched
        <5>3. QED
            BY <2>5, <4>2, <5>2
      <4>3. pc[p] \in Restoring
          BY <2>3 DEF Restoring
      <4>4. disk[f] = Shown(c, j)
          BY <1>2, <2>1, <2>2, <2>5, <3>3, <4>2, <4>3 DEF RestoredOf
      <4>5. QED
          BY <2>3, <3>1, <4>1, <4>4
    <3>4. QED
      <4>1. j < n + 1
          BY <2>3, <2>5, <3>1
      <4>2. QED
          BY <2>2, <3>1, <3>2, <3>3, <4>1
  <2>6. \A j : Shown(c, j)' = Shown(c, j)
      BY <2>3 DEF Shown
  <2>7. QED
      BY <2>3, <2>4, <2>5, <2>6 DEF RestoredOf
<1>5. CASE RestoreDone(p)
  <2>1. /\ pc[p] = "restore" /\ pc'[p] = "restored" /\ at' = at /\ mine' = mine
        /\ UNCHANGED <<disk, checkpoints>> /\ sinceBackup' = sinceBackup
      BY <1>1, <1>5 DEF RestoreDone, Goto, tree, store, job, history, witness
  <2>2. Touched(p)' = Touched(p)
      BY <2>1 DEF Touched
  <2>3. \A c, j : Shown(c, j)' = Shown(c, j)
      BY <2>1 DEF Shown
  <2>4. QED
      BY <1>2, <2>1, <2>2, <2>3 DEF RestoredOf, Restoring
<1>6. CASE pc'[p] \notin Restoring
    BY <1>6 DEF RestoredOf
<1>7. QED
    BY <1>3, <1>4, <1>5, <1>6, EnteredBy DEF Restoring

LEMMA RestoredStep ==
    ASSUME TypeOK, TypeOK', Locals, Sole, Stages, RestoredFiles, [Next]_vars
    PROVE  RestoredFiles'
<1> SUFFICES ASSUME NEW q \in Procs PROVE RestoredOf(q)'
    BY DEF RestoredFiles
<1>1. CASE Step(q)
    BY <1>1, OwnRestoredStep
<1>2. CASE UNCHANGED vars \/ UserEdit \/ \E p \in Procs : p # q /\ Step(p)
  <2>1. CASE pc[q] \in Restoring
    <3>1. Apart(q)
        BY <1>2, <2>1, Bystander DEF Restoring
    <3>2. PICK c \in DOMAIN checkpoints : c = mine[q]
        BY <2>1 DEF Locals, LocalsOf, Restoring
    <3>3. checkpoints'[c] = checkpoints[c]
        BY <1>2, <2>1, <3>2, CheckpointStays
    <3>4. RestoredOf(q)
        BY DEF RestoredFiles
    <3> DEFINE es == checkpoints[c].entries
    <3>5. ASSUME NEW j \in DOMAIN es, j < at[q], NEW f, f = es[j].file, f \notin sinceBackup'[q],
                 \A k \in DOMAIN es : j < k /\ k <= Touched(q) => es[k].file # f
          PROVE  disk'[f] = Shown(c, j)
      <4>1. f \in Files
          BY <3>5, EntryType
      <4>2. f \notin sinceBackup[q] /\ disk'[f] = disk[f]
          BY <3>1, <3>5, <4>1 DEF Apart
      <4>3. disk[f] = Shown(c, j)
          BY <2>1, <3>2, <3>4, <3>5, <4>2 DEF RestoredOf
      <4>4. QED
          BY <4>2, <4>3
    <3>6. \A j : Shown(c, j)' = Shown(c, j)
        BY <3>3 DEF Shown
    <3>7. Touched(q)' = Touched(q)
        BY <3>1 DEF Touched, Apart
    <3>8. QED
        BY <2>1, <3>1, <3>2, <3>3, <3>5, <3>6, <3>7 DEF RestoredOf, Apart
  <2>2. CASE pc[q] \notin Restoring
      BY <1>2, <2>2, SamePlace DEF RestoredOf
  <2>3. QED
      BY <2>1, <2>2
<1>3. QED
    BY <1>1, <1>2 DEF Next, Step, Starting

\* A rollback that has finished has restored every file its patch wrote.
LEMMA RestoredIsUndone ==
    ASSUME TypeOK, Locals, Stages, WritesHaveCheckpoint, BackupIsPreimage, RestoredFiles
    PROVE  RollbackUndoesWrites
<1> SUFFICES ASSUME NEW p \in Procs, pc[p] = "restored", NEW c, c = mine[p],
                    NEW f \in Wrote(c) \ (raced[c] \cup sinceBackup[p])
             PROVE  disk[f] = written[c][f]
    BY DEF RollbackUndoesWrites
<1>1. c \in DOMAIN checkpoints
    BY DEF Locals, LocalsOf
<1> DEFINE es == checkpoints[c].entries
<1>2. es \in Seq(Entry)
    BY <1>1, CheckpointType DEF Checkpoint
<1>3. f \in Covered(c)
    BY <1>1 DEF WritesHaveCheckpoint
<1>4. PICK k \in DOMAIN es : es[k].file = f
    BY <1>3 DEF Covered
<1>5. PICK i \in DOMAIN es : es[i].file = f /\ \A j \in DOMAIN es : es[j].file = f => j <= i
  <2> HIDE DEF es
  <2> QED
      BY <1>2, <1>4, LastEntry
<1>6. i < at[p] /\ i \in Nat
  <2>1. at[p] > Len(es)
      BY DEF Stages, StageOf
  <2>2. i \in Nat /\ i <= Len(es)
      BY <1>1, <1>5, EntryType
  <2>3. QED
      BY <1>2, <2>1, <2>2 DEF TypeOK
<1>7. \A j \in DOMAIN es : i < j => es[j].file # f
    BY <1>1, <1>5, <1>6, EntryType
<1>8. disk[f] = Shown(c, i)
    BY <1>5, <1>6, <1>7 DEF RestoredFiles, RestoredOf, Restoring
<1>9. Kept(c, f) = Shown(c, i)
    BY <1>1, <1>5, KeptIsShown
<1>10. Kept(c, f) = written[c][f]
    BY <1>1 DEF BackupIsPreimage
<1>11. QED
    BY <1>8, <1>9, <1>10

-----------------------------------------------------------------------------
(* What a patch has made of its targets *)

\* The operations on f that are done and that are not updates.
Whole(p, f) ==
    {i \in DOMAIN blocks[p] : i < at[p] /\ blocks[p][i].file = f /\ blocks[p][i].op # "update"}

\* An update of f is done, and with it every block that was merged into it.
Folded(p, f) == \E i \in DOMAIN blocks[p] : i < at[p] /\ IsUpdateOf(blocks[p][i], f)

\* What a create or a delete makes of its file.
Outcome(bs, i) == IF bs[i].op = "create" THEN bs[i].content ELSE Absent

\* The file of a create or delete that is done is another inode, so no update
\* follows it; each file nobody else changed shows the last operation on it.
AppliedOf(p) ==
    /\ pc[p] \in {"apply", "replace"} => \A f \in Files : Whole(p, f) # {} => f \in moved[p]
    /\ pc[p] = "replace" => Whole(p, blocks[p][at[p]].file) = {}
    /\ pc[p] \in {"apply", "replace", "applied"} =>
            \A f \in Files \ sinceBackup[p] :
                /\ \A i \in Whole(p, f) :
                        (\A j \in Whole(p, f) : j <= i) => disk[f] = Outcome(blocks[p], i)
                /\ Whole(p, f) = {} =>
                        disk[f] = IF Folded(p, f)
                                  THEN Updated(blocks[p], Len(blocks[p]) + 1, f, original[p][f])
                                  ELSE original[p][f]

AppliedFiles == \A p \in Procs : AppliedOf(p)

\* The loop of apply takes one operation after the other.
LEMMA NextOperation ==
    ASSUME TypeOK, NEW p \in Procs, at[p] \in DOMAIN blocks[p],
           at'[p] = at[p] + 1, blocks'[p] = blocks[p], NEW f
    PROVE  /\ Whole(p, f)' = IF blocks[p][at[p]].file = f /\ blocks[p][at[p]].op # "update"
                             THEN Whole(p, f) \cup {at[p]} ELSE Whole(p, f)
           /\ Folded(p, f)' <=> Folded(p, f) \/ IsUpdateOf(blocks[p][at[p]], f)
<1>1. PICK n \in Nat : n = at[p]
    BY DEF TypeOK
<1>2. \A i \in DOMAIN blocks[p] : i < n + 1 <=> i < n \/ i = n
    BY TargetType
<1>3. QED
    BY <1>1, <1>2 DEF Whole, Folded

\* Nothing is done while at stays where it is.
LEMMA SameOperation ==
    ASSUME NEW p \in Procs, at'[p] = at[p], blocks'[p] = blocks[p], NEW f
    PROVE  Whole(p, f)' = Whole(p, f) /\ Folded(p, f)' = Folded(p, f)
BY DEF Whole, Folded

\* The operation that is written leaves what NewContent says, or nothing.
LEMMA WrittenContent ==
    ASSUME TypeOK, NEW p \in Procs, NEW g \in Files, g = blocks[p][at[p]].file
    PROVE  /\ ApplyDelete(p) => disk'[g] = Outcome(blocks[p], at[p])
           /\ ApplyCreate(p) => disk'[g] = Outcome(blocks[p], at[p])
           /\ ReplaceFile(p) => disk'[g] = NewContent(p, at[p])
<1>1. disk = [h \in Files |-> disk[h]]
    BY DEF TypeOK
<1>2. ApplyDelete(p) => disk'[g] = Outcome(blocks[p], at[p])
    BY <1>1 DEF ApplyDelete, AtOperation, Unlink, Outcome
<1>3. ApplyCreate(p) => disk'[g] = Outcome(blocks[p], at[p])
    BY <1>1 DEF ApplyCreate, AtOperation, RenameOver, NewContent, Outcome
<1>4. ReplaceFile(p) => disk'[g] = NewContent(p, at[p])
    BY <1>1 DEF ReplaceFile, RenameOver
<1>5. QED
    BY <1>2, <1>3, <1>4

LEMMA OwnAppliedStep ==
    ASSUME TypeOK, TypeOK', Locals, Stages, AppliedFiles, NEW p \in Procs, Step(p)
    PROVE  AppliedOf(p)'
<1>1. /\ pc = [r \in Procs |-> pc[r]] /\ at = [r \in Procs |-> at[r]]
      /\ original = [r \in Procs |-> original[r]] /\ moved = [r \in Procs |-> moved[r]]
    BY DEF TypeOK
<1>2. AppliedOf(p) /\ LocalsOf(p) /\ StageOf(p)
    BY DEF AppliedFiles, Locals, Stages
<1>3. CASE Prepare(p)
  <2>1. /\ pc'[p] = "apply" /\ at'[p] = 1 /\ disk' = disk /\ original'[p] = disk
        /\ blocks'[p] = blocks[p]
      BY <1>1, <1>3 DEF Prepare, Goto
  <2>2. \A i \in DOMAIN blocks[p] : ~ (i < 1)
      BY TargetType
  <2>3. \A f : Whole(p, f)' = {} /\ ~ Folded(p, f)'
      BY <2>1, <2>2 DEF Whole, Folded
  <2>4. QED
      BY <2>1, <2>3 DEF AppliedOf
<1>4. CASE SkipMerged(p)
  <2>1. /\ pc[p] = "apply" /\ pc'[p] = "apply" /\ at'[p] = at[p] + 1
        /\ blocks'[p] = blocks[p] /\ original'[p] = original[p] /\ disk' = disk /\ moved' = moved
        /\ sinceBackup' = sinceBackup
        /\ at[p] <= Len(blocks[p]) /\ blocks[p][at[p]].op = "update" /\ Merged(blocks[p], at[p])
      BY <1>1, <1>4 DEF SkipMerged, AtOperation, tree, job, history, witness
  <2>2. at[p] \in DOMAIN blocks[p]
      BY <1>2, <2>1, OwnBlock DEF LocalsOf
  <2>3. \A f : Whole(p, f)' = Whole(p, f)
      BY <2>1, <2>2, NextOperation
  <2>4. ASSUME NEW f, IsUpdateOf(blocks[p][at[p]], f) PROVE Folded(p, f)
    <3>1. PICK j \in 1 .. (at[p] - 1) : IsUpdateOf(blocks[p][j], blocks[p][at[p]].file)
        BY <2>1 DEF Merged
    <3>2. at[p] \in Nat /\ at[p] <= Len(blocks[p])
        BY <2>2, TargetType
    <3>3. j \in DOMAIN blocks[p] /\ j < at[p]
        BY <3>1, <3>2 DEF TypeOK
    <3>4. QED
        BY <2>4, <3>1, <3>3 DEF Folded, IsUpdateOf
  <2>5. \A f : Folded(p, f)' <=> Folded(p, f)
      BY <2>1, <2>2, <2>4, NextOperation
  <2>6. QED
      BY <1>2, <2>1, <2>3, <2>5 DEF AppliedOf
<1>5. CASE CheckUpdate(p) \/ OperationsDone(p)
  <2>1. /\ pc[p] = "apply" /\ at'[p] = at[p] /\ blocks'[p] = blocks[p]
        /\ original'[p] = original[p] /\ disk' = disk /\ moved' = moved /\ sinceBackup' = sinceBackup
      BY <1>5 DEF CheckUpdate, OperationsDone, AtOperation, tree, job, witness
  <2>2. \A f : Whole(p, f)' = Whole(p, f) /\ Folded(p, f)' = Folded(p, f)
      BY <2>1, SameOperation
  <2>3. pc'[p] = "replace" => Whole(p, blocks[p][at[p]].file) = {}
    <3>1. OperationsDone(p) => pc'[p] = "applied"
        BY <1>1 DEF OperationsDone, Goto
    <3>2. CASE CheckUpdate(p)
      <4>1. blocks[p][at[p]].file \notin moved[p]
          BY <3>2 DEF CheckUpdate, Unchanged
      <4>2. blocks[p][at[p]].file \in Files
          BY <1>2, <3>2, OwnBlock DEF CheckUpdate, AtOperation, LocalsOf
      <4>3. QED
          BY <1>2, <2>1, <4>1, <4>2 DEF AppliedOf
    <3>3. QED
        BY <1>5, <3>1, <3>2
  <2>4. QED
      BY <1>2, <2>1, <2>2, <2>3 DEF AppliedOf
<1>6. CASE ApplyDelete(p) \/ ApplyCreate(p) \/ ReplaceFile(p)
  <2>1. PICK c \in DOMAIN checkpoints : c = mine[p]
      BY <1>2, <1>6 DEF ApplyDelete, ApplyCreate, ReplaceFile, AtOperation, LocalsOf
  <2>2. PICK g : g = blocks[p][at[p]].file
      OBVIOUS
  <2>3. Writes(p, c, g)
      BY <1>6, <2>1, <2>2, WriteEffect
  <2>4. /\ pc'[p] = "apply" /\ at'[p] = at[p] + 1 /\ blocks'[p] = blocks[p]
        /\ original'[p] = original[p] /\ at[p] \in DOMAIN blocks[p] /\ g \in Files
        /\ pc[p] \in {"apply", "replace"} /\ sinceBackup'[p] = sinceBackup[p]
      BY <1>1, <1>6, <2>3 DEF ApplyDelete, ApplyCreate, ReplaceFile, AtOperation, Goto, Writes
  <2>5. \A f : f # g => Whole(p, f)' = Whole(p, f) /\ (Folded(p, f)' <=> Folded(p, f))
      BY <2>2, <2>4, NextOperation DEF IsUpdateOf
  <2>6. \A f \in Files : Whole(p, f)' # {} => f \in moved'[p]
      BY <1>2, <2>3, <2>4, <2>5 DEF AppliedOf, Writes
  <2>7. \A f \in Files \ sinceBackup[p] : f # g =>
                /\ \A i \in Whole(p, f)' :
                        (\A j \in Whole(p, f)' : j <= i) => disk'[f] = Outcome(blocks[p], i)
                /\ Whole(p, f)' = {} =>
                        disk'[f] = IF Folded(p, f)'
                                  THEN Updated(blocks[p], Len(blocks[p]) + 1, f, original[p][f])
                                  ELSE original[p][f]
      BY <1>2, <2>3, <2>4, <2>5 DEF AppliedOf, Writes
  <2>8. CASE ApplyDelete(p) \/ ApplyCreate(p)
    <3>1. blocks[p][at[p]].op # "update" /\ disk'[g] = Outcome(blocks[p], at[p])
        BY <2>2, <2>4, <2>8, WrittenContent DEF ApplyDelete, ApplyCreate, AtOperation
    <3>2. Whole(p, g)' = Whole(p, g) \cup {at[p]}
        BY <2>2, <2>4, <3>1, NextOperation
    <3>3. ASSUME NEW i \in Whole(p, g)', \A j \in Whole(p, g)' : j <= i
          PROVE  disk'[g] = Outcome(blocks[p], i)
      <4>1. i = at[p]
        <5>1. at[p] \in Nat /\ at[p] <= i
            BY <2>4, <3>2, <3>3, TargetType
        <5>2. i \in Nat /\ (i = at[p] \/ i < at[p])
            BY <2>4, <3>2, <3>3, TargetType DEF Whole
        <5>3. QED
            BY <5>1, <5>2
      <4>2. QED
          BY <3>1, <4>1
    <3>4. QED
        BY <2>4, <2>6, <2>7, <3>2, <3>3 DEF AppliedOf
  <2>9. CASE ReplaceFile(p)
    <3>1. pc[p] = "replace" /\ blocks[p][at[p]].op = "update"
        BY <1>2, <2>9 DEF ReplaceFile, LocalsOf
    <3>2. Whole(p, g)' = {}
        BY <1>2, <2>2, <2>4, <3>1, NextOperation DEF AppliedOf
    <3>3. Folded(p, g)'
        BY <2>2, <2>4, <3>1, NextOperation DEF IsUpdateOf
    <3>4. disk'[g] = Updated(blocks[p], Len(blocks[p]) + 1, g, original[p][g])
        BY <2>2, <2>4, <2>9, <3>1, WrittenContent DEF NewContent
    <3>5. QED
        BY <2>4, <2>6, <2>7, <3>2, <3>3, <3>4 DEF AppliedOf
  <2>10. QED
      BY <1>6, <2>8, <2>9
<1>7. CASE pc'[p] \notin {"apply", "replace", "applied"}
    BY <1>7 DEF AppliedOf
<1>8. QED
    BY <1>3, <1>4, <1>5, <1>6, <1>7, EnteredBy

LEMMA AppliedStep ==
    ASSUME TypeOK, TypeOK', Locals, Stages, AppliedFiles, [Next]_vars
    PROVE  AppliedFiles'
<1> SUFFICES ASSUME NEW q \in Procs PROVE AppliedOf(q)'
    BY DEF AppliedFiles
<1>1. CASE Step(q)
    BY <1>1, OwnAppliedStep
<1>2. CASE UNCHANGED vars \/ UserEdit \/ \E p \in Procs : p # q /\ Step(p)
  <2>1. CASE pc[q] \in {"apply", "replace", "applied"}
    <3>1. Apart(q)
        BY <1>2, <2>1, Bystander
    <3>2. \A f : Whole(q, f)' = Whole(q, f) /\ Folded(q, f)' = Folded(q, f)
        BY <3>1, SameOperation DEF Apart
    <3>3. AppliedOf(q)
        BY DEF AppliedFiles
    <3>4. \A f \in Files \ sinceBackup'[q] : f \in Files \ sinceBackup[q] /\ disk'[f] = disk[f]
        BY <3>1 DEF Apart
    <3>5. \A f \in Files : pc[q] \in {"apply", "replace"} /\ Whole(q, f) # {} => f \in moved'[q]
        BY <3>1, <3>3 DEF AppliedOf, Apart
    <3>6. QED
        BY <2>1, <3>1, <3>2, <3>3, <3>4, <3>5 DEF AppliedOf, Apart
  <2>2. CASE pc[q] \notin {"apply", "replace", "applied"}
      BY <1>2, <2>2, SamePlace DEF AppliedOf
  <2>3. QED
      BY <2>1, <2>2
<1>3. QED
    BY <1>1, <1>2 DEF Next, Step, Starting

\* A patch that is through has done all of its operations.
LEMMA AppliedIsResult ==
    ASSUME TypeOK, Locals, Stages, Originals, AppliedFiles
    PROVE  AppliedIsWhole
<1> SUFFICES ASSUME NEW p \in Procs, pc[p] = "applied",
                    NEW f \in Targets(blocks[p]) \ sinceBackup[p]
             PROVE  disk[f] = Result(blocks[p], f, Kept(mine[p], f))
    BY DEF AppliedIsWhole
<1>1. AppliedOf(p) /\ OriginalOf(p) /\ StageOf(p)
    BY DEF AppliedFiles, Originals, Stages
<1>2. PICK k \in DOMAIN blocks[p] : blocks[p][k].file = f
    BY DEF Targets
<1>3. f \in Files
    BY <1>2, TargetType
<1>4. \A i \in DOMAIN blocks[p] : i < at[p]
    BY <1>1, TargetType DEF StageOf, TypeOK
<1> DEFINE W == {i \in DOMAIN blocks[p] : blocks[p][i].file = f /\ blocks[p][i].op # "update"}
           last == CHOOSE i \in W : \A j \in W : j <= i
<1>5. W = Whole(p, f)
    BY <1>4 DEF Whole
<1>6. original[p][f] = Kept(mine[p], f)
    BY <1>1 DEF OriginalOf
<1>7. CASE W = {}
  <2>1. Folded(p, f)
    <3>1. blocks[p][k].op = "update"
        BY <1>2, <1>7
    <3>2. QED
        BY <1>2, <1>4, <3>1 DEF Folded, IsUpdateOf
  <2>2. disk[f] = Updated(blocks[p], Len(blocks[p]) + 1, f, original[p][f])
      BY <1>1, <1>3, <1>5, <1>7, <2>1 DEF AppliedOf
  <2>3. QED
      BY <1>6, <1>7, <2>2 DEF Result
<1>8. CASE W # {}
  <2>1. last \in W /\ \A j \in W : j <= last
    <3>1. PICK n \in Nat : n = Len(blocks[p])
        BY DEF TypeOK
    <3>2. W \in SUBSET (1 .. n)
        BY <3>1, TargetType
    <3>3. \E i \in W : \A j \in W : j <= i
        BY <1>8, <3>1, <3>2, MaxExists
    <3>4. QED
        BY <3>3
  <2>2. disk[f] = Outcome(blocks[p], last)
      BY <1>1, <1>3, <1>5, <2>1 DEF AppliedOf
  <2>3. QED
      BY <1>8, <2>2 DEF Result, Outcome
<1>9. QED
    BY <1>7, <1>8

-----------------------------------------------------------------------------
(* What a failed apply has taken back *)

\* The last operation that is done and not undone.
Standing(p) == IF pc[p] \in {"undo", "failed"} THEN at[p] ELSE at[p] - 1

\* No operation on f is done, or the ones that were are undone.
Untouched(p, f) ==
    \A i \in DOMAIN blocks[p] : i <= Standing(p) /\ blocks[p][i].file = f => Merged(blocks[p], i)

\* Such a file has the content the patch was prepared from.
UndoneOf(p) ==
    pc[p] \in {"apply", "replace", "undo", "failed"} /\ ~undoFailed[p] =>
        \A f \in Targets(blocks[p]) \ (sinceBackup[p] \cup unsynced[p] \cup Unforeseen(p)) :
            Untouched(p, f) => disk[f] = original[p][f]

UndoneFiles == \A p \in Procs : UndoneOf(p)

\* A non-empty set of positions has a first one.
LEMMA MinExists ==
    ASSUME NEW S \in SUBSET Nat, S # {}
    PROVE  \E j \in S : \A k \in S : j <= k
<1> DEFINE R == {ss \in Nat \X Nat : ss[1] < ss[2]}
<1>1. IsWellFoundedOn(R, Nat)
    BY NatLessThanWellFounded DEF OpToRel
<1>2. PICK x \in S : \A y \in S : ~ (<<y, x>> \in R)
  <2> HIDE DEF R
  <2> QED
      BY <1>1, WFMin
<1>3. \A y \in S : x <= y
  <2>1. SUFFICES ASSUME NEW y \in S PROVE x <= y
      OBVIOUS
  <2>2. x \in Nat /\ y \in Nat /\ ~ (<<y, x>> \in R)
      BY <1>2
  <2>3. ~ (y < x)
      BY <2>2
  <2>4. QED
      BY <2>2, <2>3
<1>4. QED
    BY <1>3

\* A merged block has an earlier one on its file: where only merged blocks come
\* before a block on the same file, it is the first.
LEMMA FirstOperation ==
    ASSUME TypeOK, NEW p \in Procs, NEW n \in DOMAIN blocks[p], NEW g, g = blocks[p][n].file,
           \A i \in DOMAIN blocks[p] : i < n /\ blocks[p][i].file = g => Merged(blocks[p], i)
    PROVE  \A i \in DOMAIN blocks[p] : blocks[p][i].file = g => n <= i
<1> DEFINE S == {i \in DOMAIN blocks[p] : blocks[p][i].file = g}
<1>1. S \in SUBSET Nat /\ n \in S /\ n \in Nat
    BY TargetType
<1>2. PICK m \in S : \A k \in S : m <= k
  <2> HIDE DEF S
  <2> QED
      BY <1>1, MinExists
<1>3. m \in Nat /\ m <= Len(blocks[p]) /\ m \in DOMAIN blocks[p]
    BY TargetType
<1>4. ~ (m < n)
  <2>1. SUFFICES ASSUME m < n PROVE FALSE
      OBVIOUS
  <2>2. PICK j \in 1 .. (m - 1) : IsUpdateOf(blocks[p][j], blocks[p][m].file)
      BY <1>3, <2>1 DEF Merged
  <2>3. j \in DOMAIN blocks[p] /\ j < m
      BY <1>3, <2>2 DEF TypeOK
  <2>4. j \in S
      BY <2>2, <2>3 DEF IsUpdateOf
  <2>5. m <= j
      BY <1>2, <2>4
  <2>6. QED
      BY <1>3, <2>2, <2>3, <2>5
<1>5. m = n
    BY <1>1, <1>2, <1>3, <1>4
<1>6. QED
    BY <1>2, <1>5

\* Going on to the next operation, or back to the one before, can only make a
\* file touched that the operation at hand is about.
LEMMA StandingStep ==
    ASSUME TypeOK, NEW p \in Procs, blocks'[p] = blocks[p], at[p] \in Nat, at'[p] \in Nat,
           NEW f, Untouched(p, f)',
           \/ Standing(p)' >= Standing(p)
           \/ /\ Standing(p)' = Standing(p) - 1
              /\ Standing(p) \in DOMAIN blocks[p] =>
                    \/ blocks[p][Standing(p)].file # f
                    \/ Merged(blocks[p], Standing(p))
    PROVE  Untouched(p, f)
<1>1. Standing(p) \in Int
    BY DEF Standing
<1>2. PICK n \in Int : n = Standing(p)
    BY <1>1
<1>3. PICK m \in Int : m = Standing(p)'
    BY DEF Standing
<1>4. ASSUME NEW i \in DOMAIN blocks[p], i <= n, blocks[p][i].file = f PROVE Merged(blocks[p], i)
  <2>1. i \in Nat
      BY TargetType
  <2>2. CASE i <= m
      BY <1>3, <1>4, <2>2 DEF Untouched
  <2>3. CASE m = n - 1 /\ i = n
      BY <1>2, <1>4, <2>3 DEF Untouched
  <2>4. i <= m \/ (m = n - 1 /\ i = n)
      BY <1>2, <1>3, <1>4, <2>1
  <2>5. QED
      BY <2>2, <2>3, <2>4
<1>5. QED
    BY <1>2, <1>4 DEF Untouched

LEMMA OwnUndoneStep ==
    ASSUME TypeOK, TypeOK', Locals, Stages, UndoneFiles, NEW p \in Procs, Step(p)
    PROVE  UndoneOf(p)'
<1>1. /\ pc = [r \in Procs |-> pc[r]] /\ at = [r \in Procs |-> at[r]]
      /\ original = [r \in Procs |-> original[r]] /\ disk = [h \in Files |-> disk[h]]
      /\ undoFailed = [r \in Procs |-> undoFailed[r]] /\ unsynced = [r \in Procs |-> unsynced[r]]
      /\ sinceBackup = [r \in Procs |-> sinceBackup[r]]
    BY DEF TypeOK
<1>2. UndoneOf(p) /\ LocalsOf(p) /\ StageOf(p)
    BY DEF UndoneFiles, Locals, Stages
<1>3. at[p] \in Nat /\ at'[p] \in Nat
    BY DEF TypeOK
<1>4. CASE Prepare(p)
  <2>1. disk' = disk /\ original'[p] = disk
      BY <1>1, <1>4 DEF Prepare
  <2>2. QED
      BY <2>1 DEF UndoneOf
\* The step is about file g, if it is about a file at all.
<1>5. ASSUME pc[p] \in {"apply", "replace", "undo"}, undoFailed'[p] = undoFailed[p],
             blocks'[p] = blocks[p], original'[p] = original[p],
             sinceBackup'[p] = sinceBackup[p], unsynced[p] \subseteq unsynced'[p],
             NEW G \in SUBSET Files,
             \A h \in Files : h \notin G => disk'[h] = disk[h],
             \A f \in Files : f \notin G /\ Untouched(p, f)' => Untouched(p, f),
             \A g \in G : Untouched(p, g)' /\ g \notin unsynced'[p] \cup Unforeseen(p)
                              => disk'[g] = original[p][g]
      PROVE  UndoneOf(p)'
  <2>1. Targets(blocks[p]) \subseteq Files
      BY TargetType DEF Targets
  <2>2. Unforeseen(p)' = Unforeseen(p)
      BY <1>5 DEF Unforeseen, Targets
  <2>3. ASSUME NEW f \in Targets(blocks[p]) \ (sinceBackup[p] \cup unsynced'[p] \cup Unforeseen(p)),
               Untouched(p, f)', ~ undoFailed[p]
        PROVE  disk'[f] = original[p][f]
    <3>1. CASE f \in G
        BY <1>5, <2>3, <3>1
    <3>2. CASE f \notin G
      <4>1. disk'[f] = disk[f] /\ Untouched(p, f)
          BY <1>5, <2>1, <2>3, <3>2
      <4>2. disk[f] = original[p][f]
          BY <1>2, <1>5, <2>3, <4>1 DEF UndoneOf
      <4>3. QED
          BY <4>1, <4>2
    <3>3. QED
        BY <3>1, <3>2
  <2>4. QED
      BY <1>5, <2>2, <2>3 DEF UndoneOf
<1>6. CASE SkipMerged(p) \/ CheckUpdate(p) \/ UpdateRefused(p) \/ OperationFails(p)
  <2>1. /\ pc[p] \in {"apply", "replace"} /\ undoFailed' = undoFailed /\ blocks' = blocks
        /\ original' = original /\ sinceBackup' = sinceBackup /\ unsynced' = unsynced /\ disk' = disk
      BY <1>6
         DEF SkipMerged, CheckUpdate, UpdateRefused, OperationFails, BeginUndo, AtOperation, tree,
             job, history, witness
  <2>2. Standing(p)' >= Standing(p)
    <3>1. SkipMerged(p) => pc'[p] = pc[p] /\ at'[p] = at[p] + 1
        BY <1>1 DEF SkipMerged
    <3>2. CheckUpdate(p) => pc'[p] = "replace" /\ at'[p] = at[p]
        BY <1>1 DEF CheckUpdate, Goto
    <3>3. UpdateRefused(p) \/ OperationFails(p) => pc'[p] = "undo" /\ at'[p] = at[p] - 1
        BY <1>1 DEF UpdateRefused, OperationFails, BeginUndo, Goto
    <3>4. QED
        BY <1>3, <1>6, <2>1, <3>1, <3>2, <3>3 DEF Standing
  <2>3. \A f : Untouched(p, f)' => Untouched(p, f)
      BY <1>3, <2>1, <2>2, StandingStep
  <2>4. PICK G \in SUBSET Files : G = {}
      OBVIOUS
  <2>5. QED
      BY <1>5, <2>1, <2>3, <2>4
<1>7. CASE ApplyDelete(p) \/ ApplyCreate(p) \/ ReplaceFile(p) \/ SyncFails(p)
  <2>1. PICK c \in DOMAIN checkpoints : c = mine[p]
      BY <1>2, <1>7 DEF ApplyDelete, ApplyCreate, ReplaceFile, SyncFails, AtOperation, LocalsOf
  <2>2. PICK g : g = blocks[p][at[p]].file
      OBVIOUS
  <2>3. Writes(p, c, g)
      BY <1>7, <2>1, <2>2, WriteEffect
  <2>4. /\ pc[p] \in {"apply", "replace"} /\ undoFailed'[p] = undoFailed[p]
        /\ blocks'[p] = blocks[p] /\ original'[p] = original[p] /\ g \in Files
        /\ sinceBackup'[p] = sinceBackup[p] /\ at[p] \in DOMAIN blocks[p]
        /\ \A h \in Files : h # g => disk'[h] = disk[h]
      BY <2>3 DEF Writes
  <2>5. unsynced[p] \subseteq unsynced'[p]
      BY <1>1, <1>7 DEF ApplyDelete, ApplyCreate, ReplaceFile, SyncFails
  <2>6. Standing(p)' >= Standing(p)
    <3>1. ApplyDelete(p) \/ ApplyCreate(p) => pc'[p] = "apply" /\ at'[p] = at[p] + 1
        BY <1>1 DEF ApplyDelete, ApplyCreate, AtOperation
    <3>2. ReplaceFile(p) => pc'[p] = "apply" /\ at'[p] = at[p] + 1
        BY <1>1 DEF ReplaceFile, Goto
    <3>3. SyncFails(p) => pc'[p] = "undo" /\ at'[p] = at[p] - 1
        BY <1>1 DEF SyncFails, Goto
    <3>4. QED
        BY <1>3, <1>7, <2>4, <3>1, <3>2, <3>3 DEF Standing
  <2>7. \A f : Untouched(p, f)' => Untouched(p, f)
      BY <1>3, <2>4, <2>6, StandingStep
  <2>8. CASE SyncFails(p)
    <3>1. g \in unsynced'[p]
        BY <1>1, <2>2, <2>8 DEF SyncFails
    <3>2. PICK G \in SUBSET Files : G = {g}
        BY <2>4
    <3>3. QED
        BY <1>5, <2>4, <2>5, <2>7, <3>1, <3>2
  <2>9. CASE ApplyDelete(p) \/ ApplyCreate(p) \/ ReplaceFile(p)
    <3>1. ~ Merged(blocks[p], at[p])
        BY <1>2, <2>9 DEF ApplyDelete, ApplyCreate, ReplaceFile, AtOperation, Merged, StageOf
    <3>2. pc'[p] = "apply" /\ at'[p] = at[p] + 1
        BY <1>1, <2>9 DEF ApplyDelete, ApplyCreate, ReplaceFile, AtOperation, Goto
    <3>3. Standing(p)' = at[p]
        BY <1>3, <3>2 DEF Standing
    <3>4. ~ Untouched(p, g)'
        BY <1>3, <2>2, <2>4, <3>1, <3>3 DEF Untouched
    <3>5. PICK G \in SUBSET Files : G = {g}
        BY <2>4
    <3>6. QED
        BY <1>5, <2>4, <2>5, <2>7, <3>4, <3>5
  <2>10. QED
      BY <1>7, <2>8, <2>9
<1>8. CASE UndoMerged(p)
  <2>1. /\ pc[p] = "undo" /\ pc'[p] = "undo" /\ at'[p] = at[p] - 1 /\ at[p] >= 1
        /\ undoFailed' = undoFailed /\ blocks' = blocks /\ original' = original
        /\ sinceBackup' = sinceBackup /\ unsynced' = unsynced /\ disk' = disk
        /\ Merged(blocks[p], at[p])
      BY <1>1, <1>8 DEF UndoMerged, tree, job, history, witness
  <2>2. Standing(p)' = Standing(p) - 1 /\ Standing(p) = at[p]
      BY <2>1 DEF Standing
  <2>3. \A f : Untouched(p, f)' => Untouched(p, f)
      BY <1>3, <2>1, <2>2, StandingStep
  <2>4. PICK G \in SUBSET Files : G = {}
      OBVIOUS
  <2>5. QED
      BY <1>5, <2>1, <2>3, <2>4
<1>9. CASE UndoOperation(p)
  <2>1. /\ pc[p] = "undo" /\ pc'[p] = "undo" /\ at'[p] = at[p] - 1 /\ at[p] >= 1
        /\ undoFailed' = undoFailed /\ blocks' = blocks /\ original' = original
        /\ unsynced' = unsynced /\ TakeBack(p)
      BY <1>1, <1>9 DEF UndoOperation, job
  <2>2. at[p] <= Len(blocks[p]) /\ at[p] \in DOMAIN blocks[p]
      BY <1>2, <2>1, OwnBlock DEF LocalsOf
  <2>3. PICK g \in Files : g = blocks[p][at[p]].file
      BY <2>2, TargetType
  <2>4. /\ \A h \in Files : h # g => disk'[h] = disk[h]
        /\ sinceBackup'[p] = sinceBackup[p]
        /\ disk'[g] = IF blocks[p][at[p]].op = "create" THEN Absent ELSE OldContent(p, at[p])
      BY <1>1, <2>1, <2>3 DEF TakeBack, Unlink, RenameOver, Surprise
  <2>5. Standing(p)' = Standing(p) - 1 /\ Standing(p) = at[p] /\ Standing(p)' = at[p] - 1
      BY <2>1 DEF Standing
  <2>6. \A f : f # g /\ Untouched(p, f)' => Untouched(p, f)
      BY <1>3, <2>1, <2>3, <2>5, StandingStep
  <2>7. ASSUME Untouched(p, g)', g \notin Unforeseen(p) PROVE disk'[g] = original[p][g]
    <3>1. \A i \in DOMAIN blocks[p] : i < at[p] /\ blocks[p][i].file = g => Merged(blocks[p], i)
      <4>1. SUFFICES ASSUME NEW i \in DOMAIN blocks[p], i < at[p], blocks[p][i].file = g
                     PROVE  Merged(blocks[p], i)
          OBVIOUS
      <4>2. i <= at[p] - 1
          BY <1>3, <4>1, TargetType
      <4>3. QED
          BY <2>1, <2>5, <2>7, <4>1, <4>2 DEF Untouched
    <3>2. \A i \in DOMAIN blocks[p] : blocks[p][i].file = g => at[p] <= i
        BY <2>2, <2>3, <3>1, FirstOperation
    <3>3. (blocks[p][at[p]].op = "create") <=> (original[p][g] = Absent)
        BY <2>2, <2>3, <2>7, <3>2 DEF Unforeseen, Targets
    <3>4. original[p][g] # Absent => OldContent(p, at[p]) = original[p][g]
        BY <2>3 DEF OldContent
    <3>5. QED
        BY <2>4, <3>3, <3>4
  <2>8. PICK G \in SUBSET Files : G = {g}
      OBVIOUS
  <2>9. QED
      BY <1>5, <2>1, <2>4, <2>6, <2>7, <2>8
<1>10. CASE UndoFails(p)
    BY <1>1, <1>10 DEF UndoFails, UndoneOf
<1>11. CASE UndoDone(p)
  <2>1. /\ pc[p] = "undo" /\ pc'[p] = "failed" /\ at' = at
        /\ undoFailed' = undoFailed /\ blocks' = blocks /\ original' = original
        /\ sinceBackup' = sinceBackup /\ unsynced' = unsynced /\ disk' = disk
      BY <1>1, <1>11 DEF UndoDone, Goto, tree, job, history, witness
  <2>2. Standing(p)' = Standing(p)
      BY <2>1 DEF Standing
  <2>3. \A f : Untouched(p, f)' => Untouched(p, f)
      BY <2>1, <2>2 DEF Untouched
  <2>4. PICK G \in SUBSET Files : G = {}
      OBVIOUS
  <2>5. QED
      BY <1>5, <2>1, <2>3, <2>4
<1>12. CASE pc'[p] \notin {"apply", "replace", "undo", "failed"}
    BY <1>12 DEF UndoneOf
<1>13. QED
    BY <1>4, <1>6, <1>7, <1>8, <1>9, <1>10, <1>11, <1>12, EnteredBy

LEMMA UndoneStep ==
    ASSUME TypeOK, TypeOK', Locals, Stages, UndoneFiles, [Next]_vars
    PROVE  UndoneFiles'
<1> SUFFICES ASSUME NEW q \in Procs PROVE UndoneOf(q)'
    BY DEF UndoneFiles
<1>1. CASE Step(q)
    BY <1>1, OwnUndoneStep
<1>2. CASE UNCHANGED vars \/ UserEdit \/ \E p \in Procs : p # q /\ Step(p)
  <2>1. CASE pc[q] \in {"apply", "replace", "undo", "failed"}
    <3>1. Apart(q)
        BY <1>2, <2>1, Bystander
    <3>2. Standing(q)' = Standing(q)
        BY <3>1 DEF Standing, Apart
    <3>3. \A f : Untouched(q, f)' => Untouched(q, f)
        BY <3>1, <3>2 DEF Untouched, Apart
    <3>4. Unforeseen(q)' = Unforeseen(q)
        BY <3>1 DEF Unforeseen, Targets, Apart
    <3>5. UndoneOf(q)
        BY DEF UndoneFiles
    <3>6. ASSUME NEW f \in Targets(blocks[q]) \ (sinceBackup'[q] \cup unsynced[q] \cup Unforeseen(q)),
                 Untouched(q, f)', ~ undoFailed[q]
          PROVE  disk'[f] = original[q][f]
      <4>1. f \in Files
          BY TargetType DEF Targets
      <4>2. f \notin sinceBackup[q] /\ disk'[f] = disk[f]
          BY <3>1, <3>6, <4>1 DEF Apart
      <4>3. disk[f] = original[q][f]
          BY <2>1, <3>3, <3>5, <3>6, <4>2 DEF UndoneOf
      <4>4. QED
          BY <4>2, <4>3
    <3>7. QED
        BY <2>1, <3>1, <3>4, <3>6 DEF UndoneOf, Apart
  <2>2. CASE pc[q] \notin {"apply", "replace", "undo", "failed"}
      BY <1>2, <2>2, SamePlace DEF UndoneOf
  <2>3. QED
      BY <2>1, <2>2
<1>3. QED
    BY <1>1, <1>2 DEF Next, Step, Starting

\* When the rollback of a failed apply is through, no operation stands.
LEMMA UndoneIsRestored ==
    ASSUME TypeOK, Stages, UndoneFiles
    PROVE  FailedApplyRestores
<1> SUFFICES ASSUME NEW p \in Procs, pc[p] = "failed", ~ undoFailed[p],
                    NEW f \in Targets(blocks[p]) \ (sinceBackup[p] \cup unsynced[p] \cup Unforeseen(p))
             PROVE  disk[f] = original[p][f]
    BY DEF FailedApplyRestores
<1>1. Standing(p) = 0
    BY DEF Standing, Stages, StageOf
<1>2. Untouched(p, f)
    BY <1>1, TargetType DEF Untouched
<1>3. QED
    BY <1>2 DEF UndoneFiles, UndoneOf

-----------------------------------------------------------------------------
(* The contents are right *)

\* Together with Inductive, what the theorems below rest on: processes do not
\* share a checkpoint they write (Sole), each is where its loop says (Stages),
\* and disk, checkpoint and locals agree about every file nobody else changed.
Faithful ==
    /\ Sole /\ Stages
    /\ Saved /\ Originals /\ BackupIsPreimage
    /\ RestoredFiles /\ AppliedFiles /\ UndoneFiles

LEMMA FaithfulInit == Init => Faithful
<1> SUFFICES ASSUME Init PROVE Faithful
    OBVIOUS
<1>1. \A p \in Procs : pc[p] = "idle"
    BY DEF Init
<1>2. checkpoints = <<>>
    BY DEF Init
<1>3. Sole /\ Stages /\ Saved /\ Originals
    BY <1>1
       DEF Sole, Busy, Covering, Restoring, Stages, StageOf, Saved, SavedOf, Originals, OriginalOf
<1>4. BackupIsPreimage
    BY <1>2 DEF BackupIsPreimage
<1>5. RestoredFiles /\ AppliedFiles /\ UndoneFiles
    BY <1>1
       DEF Restoring, RestoredFiles, RestoredOf, AppliedFiles, AppliedOf, UndoneFiles, UndoneOf
<1>6. QED
    BY <1>3, <1>4, <1>5 DEF Faithful

THEOREM FaithfulInvariant == Spec => []Faithful
<1>1. Inductive /\ Inductive' /\ Faithful /\ [Next]_vars => Faithful'
  <2> SUFFICES ASSUME Inductive, Inductive', Faithful, [Next]_vars PROVE Faithful'
      OBVIOUS
  <2>1. /\ TypeOK /\ TypeOK' /\ Locals /\ Coverage
        /\ Sole /\ Stages /\ Saved /\ Originals /\ BackupIsPreimage
        /\ RestoredFiles /\ AppliedFiles /\ UndoneFiles
      BY DEF Inductive, Faithful
  <2>2. Sole' /\ Stages'
      BY <2>1, SoleStep, StagesStep
  <2>3. Saved' /\ Originals' /\ BackupIsPreimage'
      BY <2>1, SavedStep, OriginalsStep, PreimageStep
  <2>4. RestoredFiles' /\ AppliedFiles' /\ UndoneFiles'
      BY <2>1, RestoredStep, AppliedStep, UndoneStep
  <2>5. QED
      BY <2>2, <2>3, <2>4 DEF Faithful
<1>2. QED
    BY InductiveInvariant, FaithfulInit, <1>1, PTL DEF Spec

\* checkpoint/manager.py:52-98: a checkpoint keeps what its patch went on to
\* overwrite, whatever other processes, editors and failures do in between.
THEOREM CheckpointsKeepPreimages == Spec => []BackupIsPreimage
<1>1. Faithful => BackupIsPreimage
    BY DEF Faithful
<1>2. QED
    BY FaithfulInvariant, <1>1, PTL

\* checkpoint/manager.py:131-171: a rollback that has finished took everything
\* back that the patch of its checkpoint wrote, a patch that was killed included.
THEOREM RollbacksAreComplete == Spec => []RollbackUndoesWrites
<1>1. Inductive /\ Faithful => RollbackUndoesWrites
    BY RestoredIsUndone DEF Inductive, Faithful
<1>2. QED
    BY InductiveInvariant, FaithfulInvariant, <1>1, PTL

\* patch/applier.py:48-123: a patch reported as applied is there with every
\* block, for patches of any length and any mix of operations.
THEOREM AppliedPatchesAreWhole == Spec => []AppliedIsWhole
<1>1. Inductive /\ Faithful => AppliedIsWhole
    BY AppliedIsResult DEF Inductive, Faithful
<1>2. QED
    BY InductiveInvariant, FaithfulInvariant, <1>1, PTL

\* patch/applier.py:102-123: a patch that failed half way leaves no trace where
\* its undo met no error and nobody else was at the file.
THEOREM FailedPatchesLeaveNoTrace == Spec => []FailedApplyRestores
<1>1. Inductive /\ Faithful => FailedApplyRestores
    BY UndoneIsRestored DEF Inductive, Faithful
<1>2. QED
    BY InductiveInvariant, FaithfulInvariant, <1>1, PTL

-----------------------------------------------------------------------------
(* PatchTransaction implements AtomicPatch: one process, and nothing but a *)
(* backup or a write fails                                                 *)

\* Nobody edits, nothing is killed, and the undo of a failed apply succeeds.
Calm == env.edits = 0 /\ env.crashes = 0 /\ \A p \in Procs : ~ undoFailed[p]

\* Nobody has been at a file but the process itself.
Undisturbed == \A p \in Procs : sinceBackup[p] = {} /\ unsynced[p] = {}

\* What it applies is a patch it was given, on the files it was given for.
GivenOf(p) ==
    /\ pc[p] \in {"begin"} \cup Busy => blocks[p] \in Proposed
    /\ pc[p] \in {"begin", "backup", "prepare"} => Sensible(blocks[p])
    /\ pc[p] \in {"apply", "replace", "undo", "failed"} => Unforeseen(p) = {}

Given == pending \in Patches \cup {NoPatch} /\ \A p \in Procs : GivenOf(p)

\* Its checkpoint is the newest, and of its targets alone.
NewestOf(p) ==
    pc[p] \in Busy => mine[p] = Len(checkpoints) /\ Covered(mine[p]) \subseteq Targets(blocks[p])

Newest == \A p \in Procs : NewestOf(p)

Solo == Undisturbed /\ Given /\ Newest

\* Where there is one process, a step is its own.
LEMMA OwnStep ==
    ASSUME Procs = {Worker}, TypeOK, Calm', [Next]_vars
    PROVE  UNCHANGED vars \/ Step(Worker)
<1>1. ~ UserEdit
  <2>1. UserEdit => env'.edits = env.edits + 1 /\ env.edits \in Nat
      BY DEF UserEdit, TypeOK
  <2>2. QED
      BY <2>1 DEF Calm
<1>2. QED
    BY <1>1 DEF Next

\* What the conditions leave out.
LEMMA NothingElse ==
    ASSUME Procs = {Worker}, FaultKinds \subseteq {"backup", "write"}, TypeOK, Calm', NEW p \in Procs
    PROVE  ~ Crash(p) /\ ~ SyncFails(p) /\ ~ UndoFails(p) /\ ~ RestoreFails(p)
<1>1. ~ Crash(p)
  <2>1. Crash(p) => env'.crashes = env.crashes + 1 /\ env.crashes \in Nat
      BY DEF Crash, TypeOK
  <2>2. QED
      BY <2>1 DEF Calm
<1>2. ~ SyncFails(p) /\ ~ RestoreFails(p)
    BY DEF SyncFails, RestoreFails, Fault
<1>3. ~ UndoFails(p)
  <2>1. UndoFails(p) => undoFailed'[p]
      BY DEF UndoFails, TypeOK
  <2>2. QED
      BY <2>1 DEF Calm
<1>4. QED
    BY <1>1, <1>2, <1>3

LEMMA UndisturbedStep ==
    ASSUME Procs = {Worker}, FaultKinds \subseteq {"backup", "write"}, TypeOK, Undisturbed, Calm',
           [Next]_vars
    PROVE  Undisturbed'
<1> DEFINE p == Worker
<1> SUFFICES sinceBackup'[p] = {} /\ unsynced'[p] = {}
    BY DEF Undisturbed
<1>1. /\ p \in Procs /\ sinceBackup[p] = {} /\ unsynced[p] = {}
      /\ sinceBackup = [r \in Procs |-> sinceBackup[r]] /\ unsynced = [r \in Procs |-> unsynced[r]]
    BY DEF Undisturbed, TypeOK
<1>2. CASE UNCHANGED vars
    BY <1>1, <1>2 DEF vars, history, witness
<1>3. CASE Leave(p)
    BY <1>1, <1>3 DEF Leave
<1>4. \A f : Surprise(Procs \ {p}, f) => sinceBackup'[p] = {}
    BY <1>1 DEF Surprise
<1>5. CASE Starting(p)
    BY <1>1, <1>5 DEF Starting, Edit, StartApply, StartNative, StartDirect, Start, history, witness
<1>6. CASE Checkpointing(p)
    BY <1>1, <1>3, <1>6
       DEF Checkpointing, BeginCheckpoint, BackupBlock, BackupFails, WriteMetadata, history, witness
<1>7. CASE Applying(p)
    BY <1>1, <1>3, <1>4, <1>7, NothingElse
       DEF Applying, Prepare, PrepareRefused, SkipMerged, ApplyDelete, ApplyCreate, CheckUpdate,
           UpdateRefused, ReplaceFile, OperationFails, OperationsDone, BeginUndo, RecordWrite,
           history, witness
<1>8. CASE Undoing(p)
    BY <1>1, <1>3, <1>4, <1>8, NothingElse
       DEF Undoing, UndoMerged, UndoOperation, TakeBack, UndoDone, ReportFailure, history, witness
<1>9. CASE Finishing(p)
    BY <1>1, <1>3, <1>9 DEF Finishing, UnlinkPending, ReturnApplied, Audit, history, witness
<1>10. CASE RollingBack(p)
    BY <1>1, <1>3, <1>4, <1>10, NothingElse
       DEF RollingBack, StartRollback, RemoveCreated, TruncateTarget, CopyBackup,
           RestoreDone, UndoCommandReturns, history, witness
<1>11. QED
    BY <1>1, <1>2, <1>5, <1>6, <1>7, <1>8, <1>9, <1>10, OwnStep, NothingElse DEF Step

\* The proposals of the native tools.
LEMMA NativeIsGiven ==
    ASSUME TypeOK, NEW call \in NativeCalls
    PROVE  /\ <<NativeBlock(call)>> \in NativeProposals
           /\ Sensible(<<NativeBlock(call)>>)
<1>1. call \in EditFileCall \cup WriteFileCall
    BY PatchAssumption
<1> DEFINE b == NativeBlock(call)
<1>2. CASE call.tool = "edit_file"
  <2>1. b = [op |-> "update", file |-> call.file, search |-> call.search, replace |-> call.replace]
      BY <1>2 DEF NativeBlock
  <2>2. <<b>> \in Replacements
      BY <1>2, <2>1 DEF Replacements
  <2>3. b.op = "update"
      BY <2>1
  <2>4. QED
      BY <2>2, <2>3 DEF Sensible, NativeProposals
<1>3. CASE call.tool # "edit_file"
  <2>1. call \in WriteCalls /\ call.file \in Files
      BY <1>1, <1>3 DEF EditFileCall, WriteFileCall, WriteCalls
  <2>2. CASE disk[call.file] # Absent
    <3>1. disk[call.file] \in Content
        BY <2>1, <2>2 DEF TypeOK, MaybeContent
    <3>2. b = [op |-> "update", file |-> call.file, search |-> disk[call.file],
               replace |-> call.content]
        BY <1>3, <2>2 DEF NativeBlock
    <3>3. <<b>> \in Overwrites
        BY <2>1, <3>1, <3>2 DEF Overwrites
    <3>4. b.op = "update"
        BY <3>2
    <3>5. QED
        BY <3>3, <3>4 DEF Sensible, NativeProposals
  <2>3. CASE disk[call.file] = Absent
    <3>1. b = [op |-> "create", file |-> call.file, content |-> call.content]
        BY <1>3, <2>3 DEF NativeBlock
    <3>2. <<b>> \in Creations
        BY <2>1, <3>1 DEF Creations
    <3>3. b.op = "create" /\ disk[b.file] = Absent
        BY <2>3, <3>1
    <3>4. QED
        BY <3>2, <3>3 DEF Sensible, NativeProposals
  <2>4. QED
      BY <2>2, <2>3
<1>4. QED
    BY <1>2, <1>3

\* What a command starts with.
LEMMA StartIsGiven ==
    ASSUME TypeOK, Given, NEW p \in Procs, StartApply(p) \/ StartNative(p) \/ StartDirect(p)
    PROVE  /\ pc'[p] = "begin" /\ blocks'[p] \in Proposed /\ Sensible(blocks'[p])
           /\ UNCHANGED <<disk, pending>>
<1>1. \A e, bs : Start(p, e, bs) => /\ pc'[p] = "begin" /\ blocks'[p] = bs
                                    /\ UNCHANGED <<disk, pending>>
    BY DEF Start, Goto, TypeOK, tree, store
<1>2. CASE StartApply(p)
  <2>1. pending \in Patches /\ Start(p, "orchestrator", pending)
      BY <1>2 DEF StartApply, Given
  <2>2. \A i \in DOMAIN pending : pending[i].op = "update"
      BY <1>2 DEF StartApply, Validates
  <2>3. Sensible(pending) /\ pending \in Proposed
      BY <2>1, <2>2 DEF Sensible, Proposed
  <2>4. QED
      BY <1>1, <2>1, <2>3
<1>3. CASE StartNative(p)
  <2>1. PICK call \in NativeCalls : Start(p, "native", <<NativeBlock(call)>>)
      BY <1>3 DEF StartNative
  <2>2. <<NativeBlock(call)>> \in Proposed /\ Sensible(<<NativeBlock(call)>>)
      BY NativeIsGiven DEF Proposed
  <2>3. QED
      BY <1>1, <2>1, <2>2
<1>4. CASE StartDirect(p)
  <2>1. PICK bs \in DirectPatches : Sensible(bs) /\ Start(p, "direct", bs)
      BY <1>4 DEF StartDirect
  <2>2. QED
      BY <1>1, <2>1 DEF Proposed
<1>5. QED
    BY <1>2, <1>3, <1>4

\* A patch is prepared on the files it was started on: its creates find no file,
\* its deletes and updates find one.
LEMMA PreparedIsForeseen ==
    ASSUME TypeOK, NEW p \in Procs, Prepare(p), Sensible(blocks[p])
    PROVE  Unforeseen(p)' = {}
<1>1. /\ original'[p] = disk /\ blocks'[p] = blocks[p] /\ Preparable(blocks[p])
    BY DEF Prepare, TypeOK
<1>2. SUFFICES ASSUME NEW i \in DOMAIN blocks[p],
                      \A j \in DOMAIN blocks[p] : blocks[p][j].file = blocks[p][i].file => i <= j
               PROVE  (blocks[p][i].op = "create") <=> (disk[blocks[p][i].file] = Absent)
    BY <1>1 DEF Unforeseen
<1>3. /\ i \in Nat /\ i <= Len(blocks[p]) /\ Len(blocks[p]) \in Nat
      /\ blocks[p][i].op \in {"update", "create", "delete"}
      /\ DOMAIN blocks[p] = 1 .. Len(blocks[p])
    BY TargetType DEF TypeOK
<1>4. ~ \E j \in 1 .. (i - 1) : blocks[p][j] = [op |-> "delete", file |-> blocks[p][i].file]
  <2>1. SUFFICES ASSUME NEW j \in 1 .. (i - 1),
                        blocks[p][j] = [op |-> "delete", file |-> blocks[p][i].file]
                 PROVE  FALSE
      OBVIOUS
  <2>2. j \in DOMAIN blocks[p] /\ j < i /\ blocks[p][j].file = blocks[p][i].file
      BY <1>3, <2>1
  <2>3. QED
      BY <1>2, <1>3, <2>2
<1>5. blocks[p][i].op = "create" => disk[blocks[p][i].file] = Absent
    BY <1>4 DEF Sensible
<1>6. blocks[p][i].op = "delete" => disk[blocks[p][i].file] # Absent
    BY DEF Sensible
<1>7. blocks[p][i].op = "update" => disk[blocks[p][i].file] # Absent
    BY <1>1 DEF Preparable
<1>8. QED
    BY <1>3, <1>5, <1>6, <1>7

LEMMA GivenStep ==
    ASSUME Procs = {Worker}, FaultKinds \subseteq {"backup", "write"}, TypeOK, Locals, Given, Calm',
           [Next]_vars
    PROVE  Given'
<1> DEFINE p == Worker
<1>1. p \in Procs /\ GivenOf(p) /\ pending \in Patches \cup {NoPatch}
    BY DEF Given
<1>2. CASE UNCHANGED vars
    BY <1>1, <1>2 DEF vars, tree, store, job, Given, GivenOf, Sensible, Unforeseen, Targets
<1>3. CASE Step(p)
  <2>1. pending' \in Patches \cup {NoPatch}
    <3>1. CASE Starting(p)
        BY <1>1, <3>1 DEF Starting, Edit, StartApply, StartNative, StartDirect, Start, store
    <3>2. CASE Checkpointing(p) \/ Applying(p) \/ Undoing(p) \/ RollingBack(p) \/ Crash(p)
        BY <1>1, <3>2
           DEF Checkpointing, BeginCheckpoint, BackupBlock, BackupFails, WriteMetadata,
               Applying, Prepare, PrepareRefused, SkipMerged, ApplyDelete, ApplyCreate, CheckUpdate,
               UpdateRefused, ReplaceFile, OperationFails, SyncFails, OperationsDone, BeginUndo,
               Undoing, UndoMerged, UndoOperation, UndoFails, UndoDone, ReportFailure,
               RollingBack, StartRollback, RemoveCreated, TruncateTarget, CopyBackup, RestoreFails,
               RestoreDone, UndoCommandReturns, Crash, store
    <3>3. CASE Finishing(p)
        BY <1>1, <3>3 DEF Finishing, UnlinkPending, ReturnApplied, Audit, store
    <3>4. QED
        BY <1>3, <3>1, <3>2, <3>3 DEF Step
  <2>2. GivenOf(p)'
    <3>1. CASE StartApply(p) \/ StartNative(p) \/ StartDirect(p)
      <4>1. /\ pc'[p] = "begin" /\ blocks'[p] \in Proposed /\ Sensible(blocks'[p])
            /\ UNCHANGED disk
          BY <1>1, <3>1, StartIsGiven
      <4>2. QED
          BY <4>1 DEF GivenOf, Busy, Covering, Sensible
    <3>2. CASE Prepare(p)
      <4>1. pc[p] = "prepare" /\ pc'[p] = "apply" /\ blocks'[p] = blocks[p]
          BY <3>2 DEF Prepare, Goto, TypeOK
      <4>2. Unforeseen(p)' = {}
          BY <1>1, <3>2, <4>1, PreparedIsForeseen DEF GivenOf
      <4>3. QED
          BY <1>1, <4>1, <4>2 DEF GivenOf, Busy, Covering
    <3>3. CASE BeginCheckpoint(p) \/ BackupBlock(p) \/ WriteMetadata(p)
      <4>1. /\ pc[p] \in {"begin", "backup"} /\ pc'[p] \in {"backup", "prepare"}
            /\ blocks'[p] = blocks[p] /\ UNCHANGED disk
          BY <3>3 DEF BeginCheckpoint, BackupBlock, WriteMetadata, Goto, TypeOK, job, tree
      <4>2. QED
          BY <1>1, <4>1 DEF GivenOf, Busy, Covering, Sensible
    <3>4. CASE \/ SkipMerged(p) \/ ApplyDelete(p) \/ ApplyCreate(p) \/ CheckUpdate(p)
               \/ UpdateRefused(p) \/ ReplaceFile(p) \/ OperationFails(p)
               \/ UndoMerged(p) \/ UndoOperation(p) \/ UndoDone(p)
      <4>1. /\ pc[p] \in {"apply", "replace", "undo"} /\ pc'[p] \in {"apply", "replace", "undo", "failed"}
            /\ blocks'[p] = blocks[p] /\ original'[p] = original[p]
          BY <3>4
             DEF SkipMerged, ApplyDelete, ApplyCreate, CheckUpdate, UpdateRefused, ReplaceFile,
                 OperationFails, BeginUndo, UndoMerged, UndoOperation, UndoDone, AtOperation, Goto,
                 TypeOK, job
      <4>2. QED
          BY <1>1, <4>1 DEF GivenOf, Busy, Covering, Unforeseen, Targets
    <3>5. CASE OperationsDone(p) \/ UnlinkPending(p)
      <4>1. /\ pc[p] \in {"apply", "applied"} /\ pc'[p] \in {"applied", "audit"}
            /\ blocks'[p] = blocks[p]
          BY <3>5 DEF OperationsDone, UnlinkPending, Goto, TypeOK, job
      <4>2. QED
          BY <1>1, <4>1 DEF GivenOf, Busy, Covering
    <3>6. CASE pc'[p] \in {"idle", "restore", "copy", "restored"}
        BY <3>6 DEF GivenOf, Busy, Covering
    <3>7. CASE Edit(p)
      <4>1. pc'[p] = "idle"
          BY <3>7 DEF Edit
      <4>2. QED
          BY <3>6, <4>1
    <3>8. CASE BackupFails(p) \/ PrepareRefused(p) \/ ReportFailure(p) \/ ReturnApplied(p) \/ Audit(p)
      <4>1. Leave(p)
          BY <3>8 DEF BackupFails, PrepareRefused, ReportFailure, ReturnApplied, Audit
      <4>2. QED
          BY <1>1, <3>6, <4>1, LeaveLocals
    <3>9. CASE RollingBack(p)
      <4>1. RestoreFails(p) \/ UndoCommandReturns(p) => pc'[p] = "idle"
          BY <1>1, LeaveLocals DEF RestoreFails, UndoCommandReturns
      <4>2. QED
          BY <3>6, <3>9, <4>1
             DEF RollingBack, StartRollback, RemoveCreated, TruncateTarget, CopyBackup,
                 RestoreDone, AtEntry, Goto, TypeOK
    <3>10. QED
        BY <1>1, <1>3, <3>1, <3>2, <3>3, <3>4, <3>5, <3>7, <3>8, <3>9, NothingElse
           DEF Step, Starting, Checkpointing, Applying, Undoing, Finishing
  <2>3. QED
      BY <2>1, <2>2 DEF Given
<1>4. QED
    BY <1>2, <1>3, OwnStep

\* The checkpoint of a patch under way stays the newest, and gets no entry but
\* for a target.
LEMMA NewestStep ==
    ASSUME Procs = {Worker}, TypeOK, TypeOK', Locals, Stages, Newest, Calm', [Next]_vars
    PROVE  Newest'
<1> DEFINE p == Worker
<1>1. p \in Procs /\ NewestOf(p)
    BY DEF Newest
<1>2. CASE UNCHANGED vars
  <2>1. pc' = pc /\ mine' = mine /\ blocks' = blocks /\ checkpoints' = checkpoints
      BY <1>2 DEF vars, store, job
  <2>2. SUFFICES ASSUME NEW r \in Procs PROVE NewestOf(r)'
      BY DEF Newest
  <2>3. NewestOf(r)
      BY DEF Newest
  <2>4. Covered(mine[r])' = Covered(mine[r]) /\ Targets(blocks[r])' = Targets(blocks[r])
      BY <2>1 DEF Covered, Targets
  <2>5. QED
      BY <2>1, <2>3, <2>4 DEF NewestOf
<1>3. CASE Step(p)
  <2>1. SUFFICES ASSUME pc'[p] \in Busy PROVE NewestOf(p)'
      BY DEF Newest, NewestOf
  <2>2. CASE BeginCheckpoint(p)
    <3>1. checkpoints \in Seq(Checkpoint) /\ EmptyCheckpoint \in Checkpoint
        BY DEF TypeOK, EmptyCheckpoint, Checkpoint, MaybeContent
    <3>2. PICK n \in Nat : n = Len(checkpoints) + 1
        BY <3>1
    <3>3. /\ mine'[p] = n /\ Len(checkpoints') = n /\ checkpoints'[n] = EmptyCheckpoint
          BY <2>2, <3>1, <3>2, AppendProperties DEF BeginCheckpoint, TypeOK
    <3>4. DOMAIN EmptyCheckpoint.entries = {}
        BY DEF EmptyCheckpoint
    <3>5. QED
        BY <3>3, <3>4 DEF NewestOf, Covered
  <2>3. CASE pc[p] \in Busy /\ mine'[p] = mine[p] /\ blocks'[p] = blocks[p]
    <3>1. PICK c \in DOMAIN checkpoints : c = mine[p]
        BY <1>1, <2>3 DEF Locals, LocalsOf, Busy, Covering
    <3>2. c = Len(checkpoints) /\ Covered(c) \subseteq Targets(blocks[p])
        BY <1>1, <2>3, <3>1 DEF NewestOf
    <3>3. Len(checkpoints') = c /\ Covered(c)' \subseteq Targets(blocks[p]) => NewestOf(p)'
      <4>1. mine'[p] = c
          BY <2>3, <3>1
      <4>2. Covered(mine[p])' = Covered(c)'
          BY <4>1 DEF Covered
      <4>3. Targets(blocks[p])' = Targets(blocks[p])
          BY <2>3 DEF Targets
      <4>4. QED
          BY <4>1, <4>2, <4>3 DEF NewestOf
    <3>4. CASE BackupBlock(p)
      <4>1. PICK e \in Entry : /\ e.file = blocks[p][at[p]].file
                               /\ checkpoints'[c].entries = Append(checkpoints[c].entries, e)
          BY <1>1, <3>1, <3>4, BackupEffect DEF EntryOf
      <4>2. /\ DOMAIN checkpoints' = DOMAIN checkpoints /\ at[p] \in DOMAIN blocks[p]
            /\ checkpoints[c].entries \in Seq(Entry)
          BY <1>1, <3>1, <3>4, BackupEffect
      <4>3. Len(checkpoints') = Len(checkpoints)
          BY <4>2 DEF TypeOK
      <4>4. Covered(c)' \subseteq Covered(c) \cup {e.file}
        <5>1. PICK es \in Seq(Entry) : es = checkpoints[c].entries
            BY <4>2
        <5>2. \A i \in DOMAIN Append(es, e) : Append(es, e)[i] = e \/ (i \in DOMAIN es /\ Append(es, e)[i] = es[i])
            BY <5>1
        <5>3. QED
            BY <4>1, <5>1, <5>2 DEF Covered
      <4>5. e.file \in Targets(blocks[p])
          BY <4>1, <4>2 DEF Targets
      <4>6. QED
          BY <3>2, <3>3, <4>3, <4>4, <4>5
    <3>5. CASE WriteMetadata(p)
      <4>1. checkpoints \in Seq(Checkpoint) /\ checkpoints[c] \in Checkpoint
          BY <3>1, CheckpointType DEF TypeOK
      <4>2. /\ Len(checkpoints') = Len(checkpoints)
            /\ checkpoints'[c] = [checkpoints[c] EXCEPT !.metadata = TRUE]
          BY <3>1, <3>5, <4>1 DEF WriteMetadata
      <4>3. checkpoints'[c].entries = checkpoints[c].entries
          BY <4>1, <4>2 DEF Checkpoint
      <4>4. Covered(c)' = Covered(c)
          BY <4>3 DEF Covered
      <4>5. QED
          BY <3>2, <3>3, <4>2, <4>4
    <3>6. CASE UNCHANGED checkpoints
      <4>1. Covered(c)' = Covered(c) /\ Len(checkpoints') = Len(checkpoints)
          BY <3>6 DEF Covered
      <4>2. QED
          BY <3>2, <3>3, <4>1
    <3>7. CASE BeginCheckpoint(p)
        BY <2>3, <3>7 DEF BeginCheckpoint, Busy, Covering
    <3>8. QED
        BY <1>1, <1>3, <3>4, <3>5, <3>6, <3>7, CheckpointsChange
  <2>4. QED
      BY <1>1, <1>3, <2>1, <2>2, <2>3, StaysBusy
<1>4. QED
    BY <1>2, <1>3, OwnStep

-----------------------------------------------------------------------------
(* Each step is a step of AtomicPatch or leaves what it maps to *)

Unseen == {"apply", "replace", "undo", "failed"}

\* The saved contents change when a checkpoint is finished, and only then.
LEMMA ContentsStay ==
    ASSUME TypeOK, Locals, Stages, NEW p \in Procs, Step(p), ~ WriteMetadata(p)
    PROVE  Contents' = Contents
<1>1. ASSUME NEW c \in DOMAIN checkpoints, checkpoints[c].metadata
      PROVE  c \in DOMAIN checkpoints' /\ checkpoints'[c] = checkpoints[c]
    BY <1>1, CheckpointKept
<1>2. ASSUME NEW c \in DOMAIN checkpoints', checkpoints'[c].metadata
      PROVE  c \in DOMAIN checkpoints /\ checkpoints[c].metadata
  <2>1. CASE UNCHANGED checkpoints
      BY <1>2, <2>1
  <2>2. CASE BeginCheckpoint(p)
    <3>1. checkpoints \in Seq(Checkpoint) /\ EmptyCheckpoint \in Checkpoint
        BY DEF TypeOK, EmptyCheckpoint, Checkpoint, MaybeContent
    <3>2. PICK n \in Nat : n = Len(checkpoints)
        BY <3>1
    <3>3. /\ DOMAIN checkpoints' = 1 .. n + 1 /\ DOMAIN checkpoints = 1 .. n
          /\ checkpoints'[n + 1] = EmptyCheckpoint
          /\ \A i \in 1 .. n : checkpoints'[i] = checkpoints[i]
        BY <2>2, <3>1, <3>2, AppendProperties DEF BeginCheckpoint
    <3>4. ~ EmptyCheckpoint.metadata
        BY DEF EmptyCheckpoint
    <3>5. QED
        BY <1>2, <3>3, <3>4
  <2>3. CASE BackupBlock(p)
      BY <1>2, <2>3, BackupEffect
  <2>4. QED
      BY <2>1, <2>2, <2>3, CheckpointsChange
<1>3. Readable' = Readable
    BY <1>1, <1>2 DEF Readable
<1>4. ASSUME NEW c \in Readable
      PROVE  Covered(c)' = Covered(c) /\ \A f : Kept(c, f)' = Kept(c, f)
  <2>1. checkpoints'[c] = checkpoints[c]
      BY <1>1 DEF Readable
  <2>2. QED
      BY <2>1, KeptStays DEF Covered
<1>5. QED
    BY <1>3, <1>4 DEF Contents

LEMMA ViewIsDisk == pc[Worker] \notin Unseen \cup {"restore", "copy"} => View = disk
BY DEF View, Unseen

LEMMA ViewIsOriginal ==
    pc[Worker] \in Unseen =>
        View = [f \in Files |-> IF f \in Targets(blocks[Worker]) THEN original[Worker][f] ELSE disk[f]]
BY DEF View, Unseen

LEMMA ViewIsRestored == pc[Worker] \in {"restore", "copy"} => View = Restored(mine[Worker])
BY DEF View

\* A patch under way is not seen.
LEMMA UnseenSteps ==
    ASSUME Procs = {Worker}, TypeOK, Locals, NEW p, p = Worker, pc[p] \in Unseen, pc'[p] \in Unseen,
           blocks'[p] = blocks[p], original'[p] = original[p],
           \A f \in Files \ Targets(blocks[p]) : disk'[f] = disk[f]
    PROVE  View' = View
<1>1. /\ View = [f \in Files |-> IF f \in Targets(blocks[p]) THEN original[p][f] ELSE disk[f]]
    BY ViewIsOriginal
<1>2. View' = [f \in Files |-> IF f \in Targets(blocks'[p]) THEN original'[p][f] ELSE disk'[f]]
    BY DEF View, Unseen, Targets
<1>3. QED
    BY <1>1, <1>2

LEMMA ApplyingIsUnseen ==
    ASSUME Procs = {Worker}, TypeOK, Locals, NEW p, p = Worker,
           \/ SkipMerged(p) \/ ApplyDelete(p) \/ ApplyCreate(p) \/ CheckUpdate(p)
           \/ UpdateRefused(p) \/ ReplaceFile(p) \/ OperationFails(p)
    PROVE  View' = View
<1>1. p \in Procs
    OBVIOUS
<1>2. /\ pc[p] \in Unseen /\ pc'[p] \in Unseen
      /\ blocks'[p] = blocks[p] /\ original'[p] = original[p]
    BY <1>1
       DEF SkipMerged, ApplyDelete, ApplyCreate, CheckUpdate, UpdateRefused, ReplaceFile,
           OperationFails, BeginUndo, AtOperation, Goto, TypeOK, job, Unseen
<1>3. \A f \in Files \ Targets(blocks[p]) : disk'[f] = disk[f]
  <2>1. CASE ApplyDelete(p) \/ ApplyCreate(p) \/ ReplaceFile(p)
    <3>1. PICK c \in DOMAIN checkpoints : c = mine[p]
        BY <1>1, <2>1 DEF ApplyDelete, ApplyCreate, ReplaceFile, AtOperation, Locals, LocalsOf
    <3>2. PICK g : g = blocks[p][at[p]].file
        OBVIOUS
    <3>3. Writes(p, c, g)
        BY <1>1, <2>1, <3>1, <3>2, WriteEffect
    <3>4. g \in Targets(blocks[p])
        BY <3>2, <3>3 DEF Writes, Targets
    <3>5. QED
        BY <3>3, <3>4 DEF Writes
  <2>2. CASE SkipMerged(p) \/ CheckUpdate(p) \/ UpdateRefused(p) \/ OperationFails(p)
      BY <2>2 DEF SkipMerged, CheckUpdate, UpdateRefused, OperationFails, BeginUndo, tree
  <2>3. QED
      BY <2>1, <2>2
<1>4. QED
    BY <1>2, <1>3, UnseenSteps

LEMMA UndoingIsUnseen ==
    ASSUME Procs = {Worker}, TypeOK, Locals, NEW p, p = Worker,
           UndoMerged(p) \/ UndoOperation(p) \/ UndoDone(p)
    PROVE  View' = View
<1>1. p \in Procs
    OBVIOUS
<1>2. /\ pc[p] \in Unseen /\ pc'[p] \in Unseen
      /\ blocks'[p] = blocks[p] /\ original'[p] = original[p]
    BY <1>1 DEF UndoMerged, UndoOperation, UndoDone, Goto, TypeOK, job, Unseen
<1>3. \A f \in Files \ Targets(blocks[p]) : disk'[f] = disk[f]
  <2>1. CASE UndoOperation(p)
    <3>1. at[p] \in DOMAIN blocks[p]
        BY <1>1, <2>1, OwnBlock DEF UndoOperation, Locals, LocalsOf
    <3>2. PICK g : g = blocks[p][at[p]].file
        OBVIOUS
    <3>3. g \in Targets(blocks[p])
        BY <3>1, <3>2 DEF Targets
    <3>4. Unlink(g) \/ \E d : RenameOver(g, d)
        BY <2>1, <3>2 DEF UndoOperation, TakeBack
    <3>5. \A h \in Files : h # g => disk'[h] = disk[h]
        BY <3>4 DEF Unlink, RenameOver, TypeOK
    <3>6. QED
        BY <3>3, <3>5
  <2>2. CASE UndoMerged(p) \/ UndoDone(p)
      BY <2>2 DEF UndoMerged, UndoDone, tree
  <2>3. QED
      BY <2>1, <2>2
<1>4. QED
    BY <1>2, <1>3, UnseenSteps

\* Where neither end of a step hides anything, what is seen is the disk.
LEMMA PlainStep ==
    ASSUME Procs = {Worker}, NEW p, p = Worker,
           pc[p] \notin Unseen \cup {"restore", "copy"}, pc'[p] \notin Unseen \cup {"restore", "copy"},
           disk' = disk
    PROVE  View' = View
BY DEF View, Unseen

\* The contents the checkpoint keeps are the ones that are seen.
LEMMA SaveStep ==
    ASSUME Procs = {Worker}, TypeOK, Locals, Coverage, Stages, Saved, Solo, NEW p, p = Worker,
           WriteMetadata(p)
    PROVE  Atomic!Save
<1>1. /\ p \in Procs /\ pc[p] = "backup" /\ at[p] > Len(blocks[p]) /\ pc'[p] = "prepare"
      /\ disk' = disk
    BY DEF WriteMetadata, Goto, TypeOK, tree
<1>2. PICK c \in DOMAIN checkpoints : c = mine[p]
    BY <1>1 DEF Locals, LocalsOf
<1>3. /\ ~ checkpoints[c].metadata /\ Wrote(c) = {}
      /\ c = Len(checkpoints) /\ Covered(c) \subseteq Targets(blocks[p])
      /\ blocks[p] \in Proposed /\ sinceBackup[p] = {}
    BY <1>1, <1>2
       DEF Stages, StageOf, Solo, Newest, NewestOf, Given, GivenOf, Busy, Undisturbed
<1>4. \A d \in DOMAIN checkpoints : d <= c
    BY <1>3, CheckpointType
<1>5. /\ DOMAIN checkpoints' = DOMAIN checkpoints
      /\ checkpoints'[c].metadata
      /\ \A d \in DOMAIN checkpoints : d # c => checkpoints'[d] = checkpoints[d]
      /\ \A d \in DOMAIN checkpoints : checkpoints'[d].entries = checkpoints[d].entries
  <2>1. checkpoints \in Seq(Checkpoint) /\ checkpoints[c] \in Checkpoint
      BY CheckpointType DEF TypeOK
  <2>2. checkpoints' = [checkpoints EXCEPT ![c] = [checkpoints[c] EXCEPT !.metadata = TRUE]]
      BY <1>2 DEF WriteMetadata
  <2>3. /\ DOMAIN checkpoints' = DOMAIN checkpoints
        /\ checkpoints'[c] = [checkpoints[c] EXCEPT !.metadata = TRUE]
        /\ \A d \in DOMAIN checkpoints : d # c => checkpoints'[d] = checkpoints[d]
      BY <2>1, <2>2
  <2>4. checkpoints'[c].metadata /\ checkpoints'[c].entries = checkpoints[c].entries
      BY <2>1, <2>3 DEF Checkpoint
  <2>5. QED
      BY <2>3, <2>4
<1>6. /\ Readable' = Readable \cup {c} /\ c \notin Readable
      /\ \A d \in Readable : d < c
  <2>1. Readable' = Readable \cup {c} /\ c \notin Readable
      BY <1>3, <1>5 DEF Readable
  <2>2. \A d \in Readable : d \in Nat /\ d <= c
      BY <1>4, CheckpointType DEF Readable
  <2>3. c \in Nat
      BY CheckpointType
  <2>4. QED
      BY <2>1, <2>2, <2>3
<1>7. \A d \in DOMAIN checkpoints : Covered(d)' = Covered(d) /\ \A f : Kept(d, f)' = Kept(d, f)
  <2>1. \A d \in DOMAIN checkpoints : Covered(d)' = Covered(d)
      BY <1>5 DEF Covered
  <2>2. \A d \in DOMAIN checkpoints : \A f : Kept(d, f)' = Kept(d, f)
      BY <1>1, KeptAfterMetadata
  <2>3. QED
      BY <2>1, <2>2
<1>8. Covered(c) = Targets(blocks[p])
  <2>1. \A i \in DOMAIN blocks[p] : i < at[p]
      BY <1>1, TargetType DEF TypeOK
  <2>2. \A i \in DOMAIN blocks[p] : blocks[p][i].file \in Covered(c)
      BY <1>1, <1>2, <2>1 DEF Coverage, CoverageOf
  <2>3. QED
      BY <1>3, <2>2 DEF Targets
<1>9. \A f \in Targets(blocks[p]) : f \in Files /\ disk[f] = Kept(c, f)
  <2>1. SUFFICES ASSUME NEW i \in DOMAIN blocks[p], NEW f, f = blocks[p][i].file
                 PROVE  f \in Files /\ disk[f] = Kept(c, f)
      BY DEF Targets
  <2>2. f \in Files /\ i < at[p]
      BY <1>1, <2>1, TargetType DEF TypeOK
  <2>3. written[c][f] = Unwritten
      BY <1>3, <2>2 DEF Wrote
  <2>4. QED
      BY <1>1, <1>2, <1>3, <2>1, <2>2, <2>3 DEF Saved, SavedOf
<1>10. View = disk /\ View' = View
    BY <1>1, ViewIsDisk, PlainStep DEF Unseen
<1>11. DOMAIN Contents = Readable /\ DOMAIN Contents' = Readable'
    BY DEF Contents
<1>12. Contents' = [d \in Readable \cup {c} |->
                        IF d = c THEN [f \in Targets(blocks[p]) |-> View[f]] ELSE Contents[d]]
  <2>1. \A d \in Readable \cup {c} : d \in DOMAIN checkpoints
      BY DEF Readable
  <2>2. Contents' = [d \in Readable \cup {c} |-> [f \in Covered(d)' |-> Kept(d, f)']]
      BY <1>6 DEF Contents
  <2>3. \A d \in Readable \cup {c} :
            [f \in Covered(d)' |-> Kept(d, f)'] = [f \in Covered(d) |-> Kept(d, f)]
      BY <1>7, <2>1
  <2>4. [f \in Covered(c) |-> Kept(c, f)] = [f \in Targets(blocks[p]) |-> View[f]]
      BY <1>8, <1>9, <1>10
  <2>5. \A d \in Readable : Contents[d] = [f \in Covered(d) |-> Kept(d, f)]
      BY DEF Contents
  <2>6. QED
      BY <1>6, <2>2, <2>3, <2>4, <2>5
<1>13. /\ c \in DOMAIN Contents' \ DOMAIN Contents
       /\ \A d \in DOMAIN Contents : d < c
       /\ Contents' = [d \in DOMAIN Contents \cup {c} |->
                        IF d = c THEN [f \in Targets(blocks[p]) |-> View[f]] ELSE Contents[d]]
    BY <1>6, <1>11, <1>12
<1>14. QED
    BY <1>3, <1>10, <1>13 DEF Atomic!Save, Atomic!Targets, Targets

\* The last step of an apply shows all of the patch at once.
LEMMA ApplyStep ==
    ASSUME Procs = {Worker}, TypeOK, Locals, Coverage, Stages, Originals, Solo, NEW p, p = Worker,
           OperationsDone(p), AppliedIsWhole'
    PROVE  Atomic!Apply
<1>1. /\ p \in Procs /\ pc[p] = "apply" /\ pc'[p] = "applied"
      /\ disk' = disk /\ blocks' = blocks /\ mine' = mine /\ checkpoints' = checkpoints
      /\ sinceBackup' = sinceBackup
    BY DEF OperationsDone, Goto, TypeOK, tree, job, store, witness
<1>2. PICK c \in DOMAIN checkpoints : c = mine[p]
    BY <1>1 DEF Locals, LocalsOf
<1>3. /\ checkpoints[c].metadata /\ Covered(c) = Targets(blocks[p])
      /\ c = Len(checkpoints) /\ blocks[p] \in Proposed /\ sinceBackup[p] = {}
    BY <1>1, <1>2
       DEF Coverage, CoverageOf, Covering, Solo, Newest, NewestOf, Given, GivenOf, Busy, Undisturbed
<1>4. c \in Readable /\ \A d \in Readable : d <= c
    BY <1>3, CheckpointType DEF Readable
<1>5. /\ DOMAIN Contents = Readable
      /\ Contents[c] = [f \in Targets(blocks[p]) |-> Kept(c, f)]
    BY <1>3, <1>4 DEF Contents
<1>6. \A f \in Targets(blocks[p]) : f \in Files
    BY <1>1, TargetType DEF Targets
<1>7. View = [f \in Files |-> IF f \in Targets(blocks[p]) THEN original[p][f] ELSE disk[f]]
    BY <1>1, ViewIsOriginal DEF Unseen
<1>8. \A f \in Targets(blocks[p]) : View[f] = Kept(c, f)
    BY <1>1, <1>2, <1>3, <1>6, <1>7 DEF Originals, OriginalOf
<1>9. \A f \in Targets(blocks[p]) : disk[f] = Result(blocks[p], f, Kept(c, f))
  <2>1. \A f \in Targets(blocks[p])' \ sinceBackup'[p] :
            disk'[f] = Result(blocks'[p], f, Kept(mine[p], f)')
      BY <1>1 DEF AppliedIsWhole
  <2>2. Targets(blocks[p])' = Targets(blocks[p])
      BY <1>1 DEF Targets
  <2>3. \A f : Kept(mine[p], f)' = Kept(c, f)
      BY <1>1, <1>2 DEF Kept
  <2>4. QED
      BY <1>1, <1>3, <2>1, <2>2, <2>3
<1>10. View' = disk
    BY <1>1 DEF View
<1>11. View' = [f \in Files |-> IF f \in Targets(blocks[p])
                                THEN Result(blocks[p], f, View[f]) ELSE View[f]]
  <2>1. disk = [f \in Files |-> disk[f]]
      BY DEF TypeOK
  <2>2. \A f \in Files : disk[f] = IF f \in Targets(blocks[p])
                                   THEN Result(blocks[p], f, View[f]) ELSE View[f]
      BY <1>7, <1>8, <1>9
  <2>3. QED
      BY <1>10, <2>1, <2>2
<1>12. Contents' = Contents
    BY <1>1 DEF Contents, Readable, Covered, Kept
<1>13. \A bs : Atomic!Targets(bs) = Targets(bs)
    BY DEF Atomic!Targets, Targets
<1>14. \A bs, f, x : Atomic!Result(bs, f, x) = Result(bs, f, x)
    BY DEF Atomic!Result, Atomic!Updated, Atomic!Deciding, Atomic!IsUpdateOf,
           Result, Updated, Deciding, IsUpdateOf
<1>15. /\ blocks[p] \in Proposed /\ c \in DOMAIN Contents
       /\ \A d \in DOMAIN Contents : d <= c
       /\ Targets(blocks[p]) = DOMAIN Contents[c]
       /\ \A f \in Targets(blocks[p]) : View[f] = Contents[c][f]
    BY <1>3, <1>4, <1>5, <1>8
<1>16. QED
    BY <1>11, <1>12, <1>13, <1>14, <1>15 DEF Atomic!Apply

\* The first step of a rollback shows all of the checkpoint at once.
LEMMA BringBackStep ==
    ASSUME Procs = {Worker}, TypeOK, NEW p, p = Worker, StartRollback(p)
    PROVE  Atomic!BringBack
<1>1. p \in Procs /\ pc[p] = "idle" /\ pc'[p] = "restore" /\ disk' = disk /\ checkpoints' = checkpoints
    BY DEF StartRollback, Goto, TypeOK, tree, store
<1>2. PICK c \in DOMAIN checkpoints : checkpoints[c].metadata /\ mine' = [mine EXCEPT ![p] = c]
    BY DEF StartRollback
<1>3. mine'[p] = c
    BY <1>1, <1>2 DEF TypeOK
<1>4. View = disk
    BY <1>1, ViewIsDisk DEF Unseen
<1>5. \A f : Kept(c, f)' = Kept(c, f)
    BY <1>1 DEF Kept
<1>6. View' = [f \in Files |-> IF f \in Covered(c) THEN Kept(c, f) ELSE disk[f]]
  <2>1. View' = [f \in Files |-> IF f \in Covered(mine[p])' THEN Kept(mine[p], f)' ELSE disk'[f]]
    <3>1. View' = Restored(mine[p])'
        BY <1>1 DEF View
    <3>2. QED
        BY <3>1 DEF Restored
  <2>2. Covered(mine[p])' = Covered(c) /\ \A f : Kept(mine[p], f)' = Kept(c, f)
      BY <1>1, <1>3 DEF Covered, Kept
  <2>3. QED
      BY <1>1, <2>1, <2>2
<1>7. c \in DOMAIN Contents /\ Contents[c] = [f \in Covered(c) |-> Kept(c, f)]
    BY <1>2 DEF Contents, Readable
<1>8. Contents' = Contents
    BY <1>1 DEF Contents, Readable, Covered, Kept
<1>9. View' = [f \in Files |-> IF f \in DOMAIN Contents[c] THEN Contents[c][f] ELSE View[f]]
    BY <1>4, <1>6, <1>7
<1>10. QED
    BY <1>7, <1>8, <1>9 DEF Atomic!BringBack

\* Copying back what is seen already.
LEMMA CopyingIsUnseen ==
    ASSUME Procs = {Worker}, TypeOK, Locals, NEW p, p = Worker,
           RemoveCreated(p) \/ TruncateTarget(p) \/ CopyBackup(p)
    PROVE  View' = View
<1>1. p \in Procs /\ pc[p] \in {"restore", "copy"}
    BY RestoreEffect DEF RemoveCreated, TruncateTarget, CopyBackup, AtEntry
<1>2. PICK c \in DOMAIN checkpoints : c = mine[p]
    BY <1>1 DEF Locals, LocalsOf
<1>3. /\ at[p] \in DOMAIN checkpoints[c].entries
      /\ checkpoints' = checkpoints /\ mine'[p] = c /\ pc'[p] \in {"restore", "copy"}
      /\ \A h \in Files : h # checkpoints[c].entries[at[p]].file => disk'[h] = disk[h]
    BY <1>1, <1>2, RestoreEffect
<1>4. checkpoints[c].entries[at[p]].file \in Covered(c)
    BY <1>3 DEF Covered
<1>5. \A h \in Files : h \notin Covered(c) => disk'[h] = disk[h]
    BY <1>3, <1>4
<1>6. View = [f \in Files |-> IF f \in Covered(c) THEN Kept(c, f) ELSE disk[f]]
    BY <1>1, <1>2 DEF View, Restored
<1>7. View' = [f \in Files |-> IF f \in Covered(mine[p])' THEN Kept(mine[p], f)' ELSE disk'[f]]
  <2>1. View' = Restored(mine[p])'
      BY <1>3 DEF View
  <2>2. QED
      BY <2>1 DEF Restored
<1>8. Covered(mine[p])' = Covered(c) /\ \A f : Kept(mine[p], f)' = Kept(c, f)
    BY <1>3 DEF Covered, Kept
<1>9. QED
    BY <1>5, <1>6, <1>7, <1>8

\* When the loop is through, the disk is what was seen from the first step on.
LEMMA RestoredIsSeen ==
    ASSUME Procs = {Worker}, TypeOK, Locals, RestoredFiles, Undisturbed, NEW p, p = Worker, RestoreDone(p)
    PROVE  View' = View
<1>1. /\ p \in Procs /\ pc[p] = "restore" /\ pc'[p] = "restored" /\ disk' = disk
      /\ at[p] > Len(checkpoints[mine[p]].entries) /\ sinceBackup[p] = {}
    BY DEF RestoreDone, Goto, TypeOK, tree, Undisturbed
<1>2. PICK c \in DOMAIN checkpoints : c = mine[p]
    BY <1>1 DEF Locals, LocalsOf
<1> DEFINE es == checkpoints[c].entries
<1>3. es \in Seq(Entry)
    BY CheckpointType DEF Checkpoint
<1>4. ASSUME NEW f \in Covered(c) PROVE disk[f] = Kept(c, f)
  <2>1. PICK k \in DOMAIN es : es[k].file = f
      BY DEF Covered
  <2>2. PICK i \in DOMAIN es : es[i].file = f /\ \A j \in DOMAIN es : es[j].file = f => j <= i
    <3> HIDE DEF es
    <3> QED
        BY <1>3, <2>1, LastEntry
  <2>3. i < at[p] /\ i \in Nat
    <3>1. i \in Nat /\ i <= Len(es)
        BY <2>2, EntryType
    <3>2. QED
        BY <1>1, <1>2, <1>3, <3>1 DEF TypeOK
  <2>4. \A j \in DOMAIN es : i < j => es[j].file # f
      BY <2>2, <2>3, EntryType
  <2>5. disk[f] = Shown(c, i)
      BY <1>1, <1>2, <2>2, <2>3, <2>4 DEF RestoredFiles, RestoredOf, Restoring
  <2>6. QED
      BY <2>2, <2>5, KeptIsShown
<1>5. View = [f \in Files |-> IF f \in Covered(c) THEN Kept(c, f) ELSE disk[f]]
    BY <1>1, <1>2 DEF View, Restored
<1>6. View' = disk /\ disk = [f \in Files |-> disk[f]]
    BY <1>1 DEF View, TypeOK
<1>7. QED
    BY <1>4, <1>5, <1>6

\* A failed apply has changed nothing.
LEMMA FailureIsUnseen ==
    ASSUME Procs = {Worker}, TypeOK, Solo, Calm, FailedApplyRestores, NEW p, p = Worker, ReportFailure(p)
    PROVE  View' = View
<1>1. p \in Procs /\ pc[p] = "failed" /\ pc'[p] = "idle" /\ disk' = disk
    BY LeaveLocals DEF ReportFailure
<1>2. /\ ~ undoFailed[p] /\ sinceBackup[p] = {} /\ unsynced[p] = {} /\ Unforeseen(p) = {}
    BY <1>1 DEF Calm, Solo, Undisturbed, Given, GivenOf
<1>3. \A f \in Targets(blocks[p]) : disk[f] = original[p][f]
    BY <1>1, <1>2 DEF FailedApplyRestores
<1>4. View = [f \in Files |-> IF f \in Targets(blocks[p]) THEN original[p][f] ELSE disk[f]]
    BY <1>1, ViewIsOriginal DEF Unseen
<1>5. View' = disk /\ disk = [f \in Files |-> disk[f]]
    BY <1>1 DEF View, TypeOK
<1>6. QED
    BY <1>3, <1>4, <1>5

\* What is read before anything is written is what is seen.
LEMMA PreparingIsUnseen ==
    ASSUME Procs = {Worker}, TypeOK, NEW p, p = Worker, Prepare(p)
    PROVE  View' = View
<1>1. /\ p \in Procs /\ pc[p] = "prepare" /\ pc'[p] = "apply" /\ disk' = disk /\ original'[p] = disk
    BY DEF Prepare, Goto, TypeOK
<1>2. View = disk /\ disk = [f \in Files |-> disk[f]]
    BY <1>1, ViewIsDisk DEF Unseen, TypeOK
<1>3. View' = [f \in Files |-> IF f \in Targets(blocks'[p]) THEN original'[p][f] ELSE disk'[f]]
    BY <1>1 DEF View, Targets
<1>4. QED
    BY <1>1, <1>2, <1>3

LEMMA SoloInit == Init => Solo
<1> SUFFICES ASSUME Init PROVE Solo
    OBVIOUS
<1>1. \A p \in Procs : pc[p] = "idle" /\ sinceBackup[p] = {} /\ unsynced[p] = {}
    BY DEF Init
<1>2. pending = NoPatch
    BY DEF Init
<1>3. QED
    BY <1>1, <1>2 DEF Solo, Undisturbed, Given, GivenOf, Newest, NewestOf, Busy, Covering

\* No step is anything but one of the three, or unseen.
LEMMA StepIsAtomic ==
    ASSUME Procs = {Worker}, FaultKinds \subseteq {"backup", "write"}, Inductive, Faithful, Solo,
           FailedApplyRestores, AppliedIsWhole', Calm, Calm', [Next]_vars
    PROVE  [Atomic!Save \/ Atomic!Apply \/ Atomic!BringBack]_<<View, Contents>>
<1> DEFINE p == Worker
<1>1. /\ p \in Procs /\ TypeOK /\ Locals /\ Coverage /\ Stages /\ Saved /\ Originals /\ RestoredFiles
      /\ Undisturbed
    BY DEF Inductive, Faithful, Solo
<1>2. CASE UNCHANGED vars
  <2>1. /\ pc' = pc /\ mine' = mine /\ blocks' = blocks /\ checkpoints' = checkpoints
        /\ original' = original /\ disk' = disk
      BY <1>2 DEF vars, tree, store, job
  <2>2. View' = View
      BY <2>1 DEF View, Restored, Covered, Kept, Targets
  <2>3. Contents' = Contents
      BY <2>1 DEF Contents, Readable, Covered, Kept
  <2>4. QED
      BY <2>2, <2>3
<1>3. CASE Step(p)
  <2>1. ~ WriteMetadata(p) => Contents' = Contents
      BY <1>1, <1>3, ContentsStay
  <2>2. WriteMetadata(p) => Atomic!Save
      BY <1>1, SaveStep
  <2>3. OperationsDone(p) => Atomic!Apply
      BY <1>1, ApplyStep
  <2>4. StartRollback(p) => Atomic!BringBack
      BY <1>1, BringBackStep
  <2>5. CASE Starting(p)
    <3>1. pc[p] = "idle" /\ pc'[p] \in {"idle", "begin"} /\ disk' = disk
        BY <1>1, <2>5 DEF Starting, Edit, StartApply, StartNative, StartDirect, Start, Goto, tree, TypeOK
    <3>2. View' = View
        BY <1>1, <3>1, PlainStep DEF Unseen
    <3>3. ~ WriteMetadata(p)
        BY <3>1 DEF WriteMetadata
    <3>4. QED
        BY <2>1, <3>2, <3>3
  <2>6. CASE Checkpointing(p) /\ ~ WriteMetadata(p)
    <3>1. BackupFails(p) => pc'[p] = "idle"
        BY <1>1, LeaveLocals DEF BackupFails
    <3>2. pc[p] \in {"begin", "backup"} /\ pc'[p] \in {"backup", "idle"} /\ disk' = disk
        BY <1>1, <2>6, <3>1 DEF Checkpointing, BeginCheckpoint, BackupBlock, BackupFails, Goto, tree, TypeOK
    <3>3. View' = View
        BY <1>1, <3>2, PlainStep DEF Unseen
    <3>4. QED
        BY <2>1, <2>6, <3>3
  <2>7. CASE Applying(p) /\ ~ OperationsDone(p)
    <3>1. ASSUME PrepareRefused(p) PROVE View' = View
      <4>1. pc[p] = "prepare" /\ pc'[p] = "idle" /\ disk' = disk
          BY <1>1, <3>1, LeaveLocals DEF PrepareRefused
      <4>2. QED
          BY <1>1, <4>1, PlainStep DEF Unseen
    <3>2. View' = View
        BY <1>1, <2>7, <3>1, NothingElse, PreparingIsUnseen, ApplyingIsUnseen DEF Applying
    <3>3. ~ WriteMetadata(p)
        BY <2>7 DEF WriteMetadata, Applying, Prepare, PrepareRefused, SkipMerged, ApplyDelete, ApplyCreate,
            CheckUpdate, UpdateRefused, ReplaceFile, OperationFails, SyncFails, AtOperation
    <3>4. QED
        BY <2>1, <3>2, <3>3
  <2>8. CASE Undoing(p)
    <3>1. View' = View
        BY <1>1, <2>8, NothingElse, UndoingIsUnseen, FailureIsUnseen DEF Undoing
    <3>2. ~ WriteMetadata(p)
        BY <2>8 DEF WriteMetadata, Undoing, UndoMerged, UndoOperation, UndoFails, UndoDone, ReportFailure
    <3>3. QED
        BY <2>1, <3>1, <3>2
  <2>9. CASE Finishing(p) \/ UndoCommandReturns(p)
    <3>1. ReturnApplied(p) \/ Audit(p) \/ UndoCommandReturns(p) => pc'[p] = "idle"
        BY <1>1, LeaveLocals DEF ReturnApplied, Audit, UndoCommandReturns
    <3>2. pc[p] \in {"applied", "audit", "restored"} /\ pc'[p] \in {"audit", "idle"} /\ disk' = disk
        BY <1>1, <2>9, <3>1
           DEF Finishing, UnlinkPending, ReturnApplied, Audit, UndoCommandReturns, Goto, tree, TypeOK
    <3>3. View' = View
        BY <1>1, <3>2, PlainStep DEF Unseen
    <3>4. ~ WriteMetadata(p)
        BY <3>2 DEF WriteMetadata
    <3>5. QED
        BY <2>1, <3>3, <3>4
  <2>10. CASE RemoveCreated(p) \/ TruncateTarget(p) \/ CopyBackup(p) \/ RestoreDone(p)
    <3>1. View' = View
        BY <1>1, <2>10, CopyingIsUnseen, RestoredIsSeen
    <3>2. ~ WriteMetadata(p)
        BY <2>10 DEF WriteMetadata, RemoveCreated, TruncateTarget, CopyBackup, RestoreDone, AtEntry
    <3>3. QED
        BY <2>1, <3>1, <3>2
  <2>11. QED
      BY <1>1, <1>3, <2>2, <2>3, <2>4, <2>5, <2>6, <2>7, <2>8, <2>9, <2>10, NothingElse
         DEF Step, RollingBack, Checkpointing, Applying
<1>4. QED
    BY <1>1, <1>2, <1>3, OwnStep

\* patch/applier.py:44-56: where one process works and only its backups and
\* writes fail, an apply takes effect as a whole or not at all, and a rollback
\* as a whole.
THEOREM ApplyIsAtomic ==
    ASSUME Procs = {Worker}, FaultKinds \subseteq {"backup", "write"}
    PROVE  Spec /\ []Calm => AllOrNothing
<1>1. Init => Atomic!Start
  <2>1. SUFFICES ASSUME Init PROVE Atomic!Start
      OBVIOUS
  <2>2. pc = [p \in Procs |-> "idle"] /\ checkpoints = <<>> /\ disk = InitialDisk
      BY <2>1 DEF Init
  <2>3. View = disk
      BY <2>2 DEF View
  <2>4. DOMAIN Contents = {}
      BY <2>2 DEF Contents, Readable
  <2>5. QED
      BY <2>2, <2>3, <2>4, PatchAssumption
         DEF Atomic!Start, Atomic!MaybeContent, Atomic!Content, MaybeContent, Content
<1>2. Inductive /\ Inductive' /\ Faithful /\ Solo /\ Calm' /\ [Next]_vars => Solo'
  <2>1. SUFFICES ASSUME Inductive, Inductive', Faithful, Solo, Calm', [Next]_vars PROVE Solo'
      OBVIOUS
  <2>2. /\ TypeOK /\ TypeOK' /\ Locals /\ Stages /\ Undisturbed /\ Given /\ Newest
      BY <2>1 DEF Inductive, Faithful, Solo
  <2>3. Undisturbed' /\ Given' /\ Newest'
      BY <2>1, <2>2, UndisturbedStep, GivenStep, NewestStep
  <2>4. QED
      BY <2>3 DEF Solo
<1>3. /\ Inductive /\ Faithful /\ Solo /\ FailedApplyRestores /\ AppliedIsWhole'
      /\ Calm /\ Calm' /\ [Next]_vars
      => [Atomic!Save \/ Atomic!Apply \/ Atomic!BringBack]_<<View, Contents>>
    BY StepIsAtomic
<1>4. QED
    BY InductiveInvariant, FaithfulInvariant, AppliedPatchesAreWhole, FailedPatchesLeaveNoTrace,
       SoloInit, <1>1, <1>2, <1>3, PTL DEF Spec, AllOrNothing, Atomic!Spec
=============================================================================
