--------------------------- MODULE PatchTransaction ---------------------------
(***************************************************************************)
(* How an approved change reaches the working tree and how it is undone:   *)
(* AgentOrchestrator.apply and the native tools edit_file and write_file   *)
(* back the targets up (CheckpointManager.create), write them              *)
(* (PatchApplier.apply, with an in-process rollback when an operation      *)
(* fails) and record the outcome; rollback_last, rollback_by_checkpoint_id *)
(* and /undo copy a checkpoint back.                                       *)
(*                                                                         *)
(* Nothing in this code takes a lock.  The processes in Procs (a shell, a  *)
(* `sac apply` in another terminal) and the user's editor therefore        *)
(* interleave between any two accesses to the disk, any file operation may *)
(* fail, and a process may be killed at any step.                          *)
(*                                                                         *)
(* PatchText has the contents and the patches.  The SHA-256 of a backup is *)
(* the backup itself.                                                      *)
(***************************************************************************)
EXTENDS PatchText, FiniteSets

CONSTANTS
    Procs,          \* processes running SafeCode on the same project
    NoPatch,        \* .sac/pending_patch.json does not exist
    Unwritten,      \* history: the patch has not written this file
    InitialDisk,
    Patches,        \* the block sequences the model proposes to sac edit
    NativeCalls,    \* the edit_file and write_file calls of the model
    DirectPatches,  \* block sequences a caller hands to PatchApplier itself
    Rollbacks,      \* the rollback commands the user has
    FaultKinds,     \* what may fail: the backup copy, a write, the fsync after one, the restore
    MaxCheckpoints, MaxEdits, MaxFaults, MaxCrashes

\* PatchParser yields update blocks only; a NoPatch is not a patch.
ASSUME PatchAssumption ==
    /\ Unwritten \notin MaybeContent
    /\ InitialDisk \in [Files -> MaybeContent]
    /\ Patches \subseteq Seq(UpdateBlock)
    /\ DirectPatches \subseteq Seq(Block)
    /\ NativeCalls \subseteq EditFileCall \cup WriteFileCall
    /\ NoPatch \notin Patches
    /\ Rollbacks \subseteq {"rollback_last", "rollback_checkpoint", "undo_command"}
    /\ FaultKinds \subseteq {"backup", "write", "sync", "restore"}

ASSUME BoundAssumption ==
    {MaxCheckpoints, MaxEdits, MaxFaults, MaxCrashes} \subseteq Nat

VARIABLES
    disk,           \* the working tree
    pending,        \* .sac/pending_patch.json
    checkpoints,    \* .sac/checkpoints, oldest first (the directory names sort by time)
    audited,        \* checkpoints with a patch_applied or rollback_completed event
    \* the locals of a process inside apply or rollback
    pc,
    via,            \* which entry point it runs
    blocks,         \* the proposal
    at,             \* the block or checkpoint entry its loop is at
    mine,           \* the checkpoint it created or restores (0: none)
    original,       \* PreparedOperation.original_content of every target
    moved,          \* files whose inode is no longer PreparedOperation.file_inode
    undoFailed,     \* rollback_errors is not empty
    \* history, read by the properties only
    written,        \* per checkpoint: the content its patch overwrote, per file
    raced,          \* per checkpoint: files another actor changed after their backup
    applied,        \* checkpoints whose patch was applied completely
    sinceBackup,    \* files other actors changed since this process last saved them
    sinceCheck,     \* the same, since the check that precedes a rename
    unsynced,       \* files this process renamed and then reported as not written
    env             \* edits, faults and crashes so far

tree == <<disk, moved>>
store == <<pending, checkpoints, audited>>
job == <<via, blocks, mine, original, undoFailed>>
witness == <<sinceBackup, sinceCheck, unsynced>>
history == <<written, raced, applied, witness>>
vars == <<tree, store, pc, at, job, history, env>>

Steps == {"idle", "begin", "backup", "prepare", "apply", "replace", "undo",
          "failed", "applied", "audit", "restore", "copy", "restored"}
EntryPoints == {"none", "orchestrator", "native", "direct", "rollback_last",
                "rollback_checkpoint", "undo_command"}

Entry == [file : Files, existed : BOOLEAN, sha : MaybeContent]
Checkpoint == [backup : [Files -> MaybeContent], entries : Seq(Entry), metadata : BOOLEAN]

-----------------------------------------------------------------------------
(* Patches against the working tree *)

\* PatchValidator: every block matches the file as it is on the disk.
Validates(bs) ==
    /\ bs # <<>>
    /\ \A i \in DOMAIN bs : bs[i].op = "update" /\ Matches(bs[i].search, disk[bs[i].file])

\* _prepare_operations: a merged block matches the content accumulated so far.
Preparable(bs) ==
    \A i \in DOMAIN bs : bs[i].op = "update" =>
        /\ disk[bs[i].file] # Absent
        /\ Matches(bs[i].search, Updated(bs, i, bs[i].file, disk[bs[i].file]))

\* What operation i writes, and what the in-process rollback writes back
\* (original_content is "" when there was nothing to read).
\* Mutant: a merged block does not reach the file.
NewContentOfFirstBlock(p, i) ==
    LET b == blocks[p][i]
    IN  IF b.op = "create" THEN b.content
        ELSE Updated(blocks[p], i + 1, b.file, original[p][b.file])

NewContent(p, i) ==
    LET b == blocks[p][i]
    IN  IF b.op = "create" THEN b.content
        ELSE Updated(blocks[p], Len(blocks[p]) + 1, b.file, original[p][b.file])

\* Mutant: the rollback writes the updated content again.
OldContentMixedUp(p, i) == NewContent(p, i)

OldContent(p, i) ==
    LET f == blocks[p][i].file
    IN  IF original[p][f] = Absent THEN Empty ELSE original[p][f]

-----------------------------------------------------------------------------
(* Changes to the working tree *)

Goto(p, step) == pc' = [pc EXCEPT ![p] = step]

\* File f changed behind the back of the processes in Q that are at work.
Surprise(Q, f) ==
    /\ sinceBackup' = [q \in Procs |-> IF q \in Q /\ pc[q] # "idle" THEN sinceBackup[q] \cup {f}
                                       ELSE sinceBackup[q]]
    /\ sinceCheck' = [q \in Procs |-> IF q \in Q /\ pc[q] = "replace" THEN sinceCheck[q] \cup {f}
                                      ELSE sinceCheck[q]]

\* Another inode is at path f now.
Moved(f) ==
    moved' = [q \in Procs |-> IF pc[q] \in {"apply", "replace"} THEN moved[q] \cup {f}
                              ELSE moved[q]]

\* _atomic_write: a temporary file renamed over the path.
RenameOver(f, c) == disk' = [disk EXCEPT ![f] = c] /\ Moved(f)

Unlink(f) == disk' = [disk EXCEPT ![f] = Absent] /\ Moved(f)

\* The patch of process p writes f: remember the content it overwrites first.
RecordWrite(p, f) ==
    /\ written' = [written EXCEPT ![mine[p]][f] = IF @ = Unwritten THEN disk[f] ELSE @]
    /\ raced' = [raced EXCEPT ![mine[p]] =
                    IF f \in sinceBackup[p] THEN @ \cup {f} ELSE @]
    /\ UNCHANGED applied
    /\ Surprise(Procs \ {p}, f)

\* The process is done with apply or rollback: its locals are gone.
Leave(p) ==
    /\ Goto(p, "idle")
    /\ via' = [via EXCEPT ![p] = "none"]
    /\ blocks' = [blocks EXCEPT ![p] = <<>>]
    /\ at' = [at EXCEPT ![p] = 0]
    /\ mine' = [mine EXCEPT ![p] = 0]
    /\ original' = [original EXCEPT ![p] = InitialDisk]
    /\ moved' = [moved EXCEPT ![p] = {}]
    /\ undoFailed' = [undoFailed EXCEPT ![p] = FALSE]
    /\ sinceBackup' = [sinceBackup EXCEPT ![p] = {}]
    /\ sinceCheck' = [sinceCheck EXCEPT ![p] = {}]
    /\ unsynced' = [unsynced EXCEPT ![p] = {}]
    /\ UNCHANGED <<written, raced, applied>>

Fault(kind) ==
    /\ kind \in FaultKinds
    /\ env.faults < MaxFaults
    /\ env' = [env EXCEPT !.faults = @ + 1]

-----------------------------------------------------------------------------
(* Entry points *)

\* AgentOrchestrator.edit: a validated proposal replaces the pending patch.
Edit(p) ==
    /\ pc[p] = "idle"
    /\ \E bs \in Patches :
        /\ Validates(bs)
        /\ pending' = bs
    /\ UNCHANGED <<tree, checkpoints, audited, job, history, pc, at, env>>

Start(p, entry, bs) ==
    /\ pc[p] = "idle"
    /\ Len(checkpoints) + Cardinality({q \in Procs : pc[q] = "begin"}) < MaxCheckpoints
    /\ Goto(p, "begin")
    /\ via' = [via EXCEPT ![p] = entry]
    /\ blocks' = [blocks EXCEPT ![p] = bs]
    /\ at' = [at EXCEPT ![p] = 1]
    /\ UNCHANGED <<tree, store, mine, original, undoFailed, history, env>>

\* AgentOrchestrator.apply: an invalid patch, or one whose targets git calls
\* dirty, is refused before anything is touched.
StartApply(p) ==
    /\ pending # NoPatch
    /\ Validates(pending)
    /\ Start(p, "orchestrator", pending)

\* The approved edit_file and write_file handlers build a one-block proposal.
NativeBlock(call) ==
    IF call.tool = "edit_file"
    THEN [op |-> "update", file |-> call.file, search |-> call.search, replace |-> call.replace]
    ELSE IF disk[call.file] # Absent
    THEN [op |-> "update", file |-> call.file, search |-> disk[call.file],
          replace |-> call.content]
    ELSE [op |-> "create", file |-> call.file, content |-> call.content]

StartNative(p) ==
    \E call \in NativeCalls :
        /\ call.tool = "edit_file" => Matches(call.search, disk[call.file])
        /\ Start(p, "native", <<NativeBlock(call)>>)

\* A library caller pairs CheckpointManager.create with PatchApplier.apply.  It
\* deletes files that exist and creates files that do not, or are deleted by then.
Sensible(bs) ==
    \A i \in DOMAIN bs :
        LET deleted == \E j \in 1 .. (i - 1) : bs[j] = [op |-> "delete", file |-> bs[i].file]
        IN  /\ bs[i].op = "delete" => disk[bs[i].file] # Absent
            /\ bs[i].op = "create" => disk[bs[i].file] = Absent \/ deleted

StartDirect(p) == \E bs \in DirectPatches : Sensible(bs) /\ Start(p, "direct", bs)

-----------------------------------------------------------------------------
(* CheckpointManager.create *)

EmptyCheckpoint ==
    [backup |-> [f \in Files |-> Absent], entries |-> <<>>, metadata |-> FALSE]

\* The first mkdir makes the directory rollback_last will sort.
BeginCheckpoint(p) ==
    /\ pc[p] = "begin"
    /\ checkpoints' = Append(checkpoints, EmptyCheckpoint)
    /\ mine' = [mine EXCEPT ![p] = Len(checkpoints) + 1]
    /\ written' = Append(written, [f \in Files |-> Unwritten])
    /\ raced' = Append(raced, {})
    /\ Goto(p, "backup")
    /\ UNCHANGED <<tree, pending, audited, via, blocks, original, undoFailed, applied, witness, at, env>>

\* Mutant: existed_before is tested on the backup, before it is made.
EntryOfNewBackup(f, c) == [file |-> f, existed |-> c.backup[f] # Absent, sha |-> disk[f]]

\* What the loop of create notes for a target.
EntryOf(f, c) == [file |-> f, existed |-> disk[f] # Absent, sha |-> disk[f]]

\* One turn of the loop: copy2 the target, hash the copy, note the operation.
\* Two blocks on one file share the backup and have an entry each.
BackupBlock(p) ==
    /\ pc[p] = "backup"
    /\ at[p] <= Len(blocks[p])
    /\ LET f == blocks[p][at[p]].file
           c == checkpoints[mine[p]]
       IN  /\ checkpoints' = [checkpoints EXCEPT ![mine[p]] =
                [c EXCEPT !.entries = Append(@, EntryOf(f, c)),
                          !.backup[f] = IF disk[f] # Absent THEN disk[f] ELSE @]]
           /\ sinceBackup' = [sinceBackup EXCEPT ![p] = @ \ {f}]
    /\ at' = [at EXCEPT ![p] = @ + 1]
    /\ UNCHANGED <<tree, pending, audited, job, written, raced, applied, sinceCheck, unsynced, pc, env>>

\* An OSError here leaves a checkpoint directory without metadata.json.
BackupFails(p) ==
    /\ pc[p] = "backup"
    /\ Fault("backup")
    /\ Leave(p)
    /\ UNCHANGED <<disk, store>>

\* Mutant: the patch is applied with metadata.json still to be written.
WriteMetadataLater(p) ==
    /\ pc[p] = "backup"
    /\ at[p] > Len(blocks[p])
    /\ Goto(p, "prepare")
    /\ UNCHANGED <<tree, store, job, history, at, env>>

WriteMetadata(p) ==
    /\ pc[p] = "backup"
    /\ at[p] > Len(blocks[p])
    /\ checkpoints' = [checkpoints EXCEPT ![mine[p]].metadata = TRUE]
    /\ Goto(p, "prepare")
    /\ UNCHANGED <<tree, pending, audited, job, history, at, env>>

-----------------------------------------------------------------------------
(* PatchApplier.apply *)

\* Every target is read and rendered before any is written.
Prepare(p) ==
    /\ pc[p] = "prepare"
    /\ Preparable(blocks[p])
    /\ original' = [original EXCEPT ![p] = disk]
    /\ moved' = [moved EXCEPT ![p] = {}]
    /\ undoFailed' = [undoFailed EXCEPT ![p] = FALSE]
    /\ at' = [at EXCEPT ![p] = 1]
    /\ Goto(p, "apply")
    /\ UNCHANGED <<disk, store, via, blocks, mine, history, env>>

\* A failed preparation raises with nothing written.
PrepareRefused(p) ==
    /\ pc[p] = "prepare"
    /\ ~Preparable(blocks[p])
    /\ Leave(p)
    /\ UNCHANGED <<disk, store, env>>

AtOperation(p, op) ==
    /\ pc[p] = "apply"
    /\ at[p] <= Len(blocks[p])
    /\ blocks[p][at[p]].op = op

\* There is no operation for a merged block: the loop does not see it.
SkipMerged(p) ==
    /\ AtOperation(p, "update")
    /\ Merged(blocks[p], at[p])
    /\ at' = [at EXCEPT ![p] = @ + 1]
    /\ UNCHANGED <<tree, store, job, history, pc, env>>

ApplyDelete(p) ==
    /\ AtOperation(p, "delete")
    /\ LET f == blocks[p][at[p]].file IN Unlink(f) /\ RecordWrite(p, f)
    /\ at' = [at EXCEPT ![p] = @ + 1]
    /\ UNCHANGED <<store, job, unsynced, pc, env>>

\* A create writes whatever is at the path: there is no prior content check.
ApplyCreate(p) ==
    /\ AtOperation(p, "create")
    /\ LET f == blocks[p][at[p]].file
       IN  RenameOver(f, NewContent(p, at[p])) /\ RecordWrite(p, f)
    /\ at' = [at EXCEPT ![p] = @ + 1]
    /\ UNCHANGED <<store, job, unsynced, pc, env>>

\* Mutant: the content is not read again.
UnchangedInode(p, f) == disk[f] # Absent /\ f \notin moved[p]

\* _validate_write_target and the comparison with original_content.
Unchanged(p, f) ==
    /\ disk[f] # Absent
    /\ f \notin moved[p]
    /\ disk[f] = original[p][f]

CheckUpdate(p) ==
    /\ AtOperation(p, "update")
    /\ ~Merged(blocks[p], at[p])
    /\ Unchanged(p, blocks[p][at[p]].file)
    /\ sinceCheck' = [sinceCheck EXCEPT ![p] = {}]
    /\ Goto(p, "replace")
    /\ UNCHANGED <<tree, store, job, written, raced, applied, sinceBackup, unsynced, at, env>>

\* Mutant: the failure is raised with the operations before it in place.
BeginNoUndo(p) ==
    /\ at' = [at EXCEPT ![p] = 0]
    /\ Goto(p, "failed")
    /\ UNCHANGED <<tree, store, job, history>>

BeginUndo(p) ==
    /\ at' = [at EXCEPT ![p] = @ - 1]
    /\ Goto(p, "undo")
    /\ UNCHANGED <<tree, store, job, history>>

\* "File changed after validation", or gone, or replaced by another file.
UpdateRefused(p) ==
    /\ AtOperation(p, "update")
    /\ ~Merged(blocks[p], at[p])
    /\ ~Unchanged(p, blocks[p][at[p]].file)
    /\ BeginUndo(p)
    /\ UNCHANGED env

ReplaceFile(p) ==
    /\ pc[p] = "replace"
    /\ LET f == blocks[p][at[p]].file
       IN  RenameOver(f, NewContent(p, at[p])) /\ RecordWrite(p, f)
    /\ at' = [at EXCEPT ![p] = @ + 1]
    /\ Goto(p, "apply")
    /\ UNCHANGED <<store, job, unsynced, env>>

\* An OSError in any of the file operations: nothing was renamed or unlinked.
OperationFails(p) ==
    /\ pc[p] \in {"apply", "replace"}
    /\ at[p] <= Len(blocks[p])
    /\ ~Merged(blocks[p], at[p])
    /\ Fault("write")
    /\ BeginUndo(p)

\* The fsync of the directory raises after the rename: apply takes the operation
\* for one that was not done and will not undo it.
SyncFails(p) ==
    /\ pc[p] = "replace" \/ AtOperation(p, "create")
    /\ Fault("sync")
    /\ LET f == blocks[p][at[p]].file
       IN  /\ RenameOver(f, NewContent(p, at[p]))
           /\ RecordWrite(p, f)
           /\ unsynced' = [unsynced EXCEPT ![p] = @ \cup {f}]
    /\ at' = [at EXCEPT ![p] = @ - 1]
    /\ Goto(p, "undo")
    /\ UNCHANGED <<store, job>>

OperationsDone(p) ==
    /\ pc[p] = "apply"
    /\ at[p] > Len(blocks[p])
    /\ applied' = applied \cup {mine[p]}
    /\ Goto(p, "applied")
    /\ UNCHANGED <<tree, store, job, written, raced, witness, at, env>>

\* The in-process rollback, last applied operation first: a delete and an
\* update are written back, a created file is unlinked.
UndoMerged(p) ==
    /\ pc[p] = "undo"
    /\ at[p] >= 1
    /\ Merged(blocks[p], at[p])
    /\ at' = [at EXCEPT ![p] = @ - 1]
    /\ UNCHANGED <<tree, store, job, history, pc, env>>

TakeBack(p) ==
    LET b == blocks[p][at[p]]
    IN  /\ IF b.op = "create" THEN Unlink(b.file) ELSE RenameOver(b.file, OldContent(p, at[p]))
        /\ Surprise(Procs \ {p}, b.file)

UndoOperation(p) ==
    /\ pc[p] = "undo"
    /\ at[p] >= 1
    /\ ~Merged(blocks[p], at[p])
    /\ TakeBack(p)
    /\ at' = [at EXCEPT ![p] = @ - 1]
    /\ UNCHANGED <<store, job, written, raced, applied, unsynced, pc, env>>

\* A failure while undoing, before the rename or in the fsync after it, is
\* collected and the loop goes on.
UndoFails(p) ==
    /\ pc[p] = "undo"
    /\ at[p] >= 1
    /\ ~Merged(blocks[p], at[p])
    /\ \/ Fault("write") /\ UNCHANGED <<tree, sinceBackup, sinceCheck>>
       \/ Fault("sync") /\ blocks[p][at[p]].op # "create" /\ TakeBack(p)
    /\ undoFailed' = [undoFailed EXCEPT ![p] = TRUE]
    /\ at' = [at EXCEPT ![p] = @ - 1]
    /\ UNCHANGED <<store, via, blocks, mine, original, written, raced, applied, unsynced, pc>>

UndoDone(p) ==
    /\ pc[p] = "undo"
    /\ at[p] = 0
    /\ Goto(p, "failed")
    /\ UNCHANGED <<tree, store, job, history, at, env>>

\* apply re-raises; the native handlers turn the error into a result.
ReportFailure(p) ==
    /\ pc[p] = "failed"
    /\ Leave(p)
    /\ UNCHANGED <<disk, store, env>>

\* AgentOrchestrator.apply unlinks the pending patch, whichever it is by now.
UnlinkPending(p) ==
    /\ pc[p] = "applied"
    /\ via[p] = "orchestrator"
    /\ pending' = NoPatch
    /\ Goto(p, "audit")
    /\ UNCHANGED <<tree, checkpoints, audited, job, history, at, env>>

\* The native handlers return the checkpoint id and write no audit event.
ReturnApplied(p) ==
    /\ pc[p] = "applied"
    /\ via[p] # "orchestrator"
    /\ Leave(p)
    /\ UNCHANGED <<disk, store, env>>

-----------------------------------------------------------------------------
(* CheckpointManager._restore_checkpoint *)

\* Every recorded hash is compared with its backup before a target is touched.
Verified(c) ==
    \A i \in DOMAIN checkpoints[c].entries :
        LET e == checkpoints[c].entries[i] IN e.existed => checkpoints[c].backup[e.file] = e.sha

\* rollback_last takes the newest directory; a directory without metadata.json
\* is "Checkpoint not found".
StartRollback(p) ==
    /\ pc[p] = "idle"
    /\ \E entry \in Rollbacks, c \in DOMAIN checkpoints :
        /\ entry # "rollback_checkpoint" => c = Len(checkpoints)
        /\ checkpoints[c].metadata
        /\ Verified(c)
        /\ via' = [via EXCEPT ![p] = entry]
        /\ mine' = [mine EXCEPT ![p] = c]
    /\ at' = [at EXCEPT ![p] = 1]
    /\ Goto(p, "restore")
    /\ UNCHANGED <<tree, store, blocks, original, undoFailed, history, env>>

RestoredEntry(p) == checkpoints[mine[p]].entries[at[p]]

AtEntry(p, step, existed) ==
    /\ pc[p] = step
    /\ at[p] <= Len(checkpoints[mine[p]].entries)
    /\ RestoredEntry(p).existed = existed

\* The file did not exist before the patch.
RemoveCreated(p) ==
    /\ AtEntry(p, "restore", FALSE)
    /\ Unlink(RestoredEntry(p).file)
    /\ Surprise(Procs \ {p}, RestoredEntry(p).file)
    /\ at' = [at EXCEPT ![p] = @ + 1]
    /\ UNCHANGED <<store, job, written, raced, applied, unsynced, pc, env>>

\* copy2 is no rename: it opens the target, which empties it or makes an empty
\* file, and then writes the backup into it.
TruncateTarget(p) ==
    /\ AtEntry(p, "restore", TRUE)
    /\ LET f == RestoredEntry(p).file
       IN  /\ disk' = [disk EXCEPT ![f] = Empty]
           /\ IF disk[f] = Absent THEN Moved(f) ELSE UNCHANGED moved
           /\ Surprise(Procs \ {p}, f)
    /\ Goto(p, "copy")
    /\ UNCHANGED <<store, job, written, raced, applied, unsynced, at, env>>

CopyBackup(p) ==
    /\ AtEntry(p, "copy", TRUE)
    /\ LET f == RestoredEntry(p).file
       IN  /\ disk' = [disk EXCEPT ![f] = checkpoints[mine[p]].backup[f]]
           /\ Surprise(Procs \ {p}, f)
    /\ at' = [at EXCEPT ![p] = @ + 1]
    /\ Goto(p, "restore")
    /\ UNCHANGED <<moved, store, job, written, raced, applied, unsynced, env>>

\* The exception leaves the entries restored so far, and an emptied file.
RestoreFails(p) ==
    /\ pc[p] \in {"restore", "copy"}
    /\ at[p] <= Len(checkpoints[mine[p]].entries)
    /\ Fault("restore")
    /\ Leave(p)
    /\ UNCHANGED <<disk, store>>

\* Mutant: the loop misses the last entry.
RestoreDoneEarly(p) ==
    /\ pc[p] = "restore"
    /\ at[p] >= Len(checkpoints[mine[p]].entries)
    /\ Goto(p, "restored")
    /\ UNCHANGED <<tree, store, job, history, at, env>>

RestoreDone(p) ==
    /\ pc[p] = "restore"
    /\ at[p] > Len(checkpoints[mine[p]].entries)
    /\ Goto(p, "restored")
    /\ UNCHANGED <<tree, store, job, history, at, env>>

\* /undo calls the manager itself and writes no audit event.
UndoCommandReturns(p) ==
    /\ pc[p] = "restored"
    /\ via[p] = "undo_command"
    /\ Leave(p)
    /\ UNCHANGED <<disk, store, env>>

\* patch_applied (with checkpoint_created), or the rollback_completed of the
\* orchestrator's rollbacks.
Audit(p) ==
    /\ pc[p] = "audit" \/ (pc[p] = "restored" /\ via[p] # "undo_command")
    /\ audited' = audited \cup
        {[event |-> IF pc[p] = "audit" THEN "patch_applied" ELSE "rollback_completed",
          checkpoint |-> mine[p]]}
    /\ Leave(p)
    /\ UNCHANGED <<disk, pending, checkpoints, env>>

-----------------------------------------------------------------------------
(* The environment *)

\* The process is killed: its locals are gone, the disk stays as it is.
Crash(p) ==
    /\ pc[p] # "idle"
    /\ env.crashes < MaxCrashes
    /\ env' = [env EXCEPT !.crashes = @ + 1]
    /\ Leave(p)
    /\ UNCHANGED <<disk, store>>

\* The user's editor saves one region in place or through a rename, or the
\* file is deleted or created by hand.
UserEdit ==
    /\ env.edits < MaxEdits
    /\ env' = [env EXCEPT !.edits = @ + 1]
    /\ \E f \in Files :
        /\ \/ /\ disk[f] # Absent
              /\ \E r \in Regions, t \in Text :
                    /\ t # disk[f][r]
                    /\ disk' = [disk EXCEPT ![f] = [disk[f] EXCEPT ![r] = t]]
              /\ Moved(f) \/ UNCHANGED moved
           \/ disk[f] # Absent /\ Unlink(f)
           \/ disk[f] = Absent /\ \E c \in Content : RenameOver(f, c)
        /\ Surprise(Procs, f)
    /\ UNCHANGED <<store, job, written, raced, applied, unsynced, pc, at>>

-----------------------------------------------------------------------------
Init ==
    /\ disk = InitialDisk
    /\ pending = NoPatch
    /\ checkpoints = <<>>
    /\ audited = {}
    /\ pc = [p \in Procs |-> "idle"]
    /\ via = [p \in Procs |-> "none"]
    /\ blocks = [p \in Procs |-> <<>>]
    /\ at = [p \in Procs |-> 0]
    /\ mine = [p \in Procs |-> 0]
    /\ original = [p \in Procs |-> InitialDisk]
    /\ moved = [p \in Procs |-> {}]
    /\ undoFailed = [p \in Procs |-> FALSE]
    /\ written = <<>>
    /\ raced = <<>>
    /\ applied = {}
    /\ sinceBackup = [p \in Procs |-> {}]
    /\ sinceCheck = [p \in Procs |-> {}]
    /\ unsynced = [p \in Procs |-> {}]
    /\ env = [edits |-> 0, faults |-> 0, crashes |-> 0]

Starting(p) == Edit(p) \/ StartApply(p) \/ StartNative(p) \/ StartDirect(p)

Checkpointing(p) == BeginCheckpoint(p) \/ BackupBlock(p) \/ BackupFails(p) \/ WriteMetadata(p)

Applying(p) ==
    \/ Prepare(p) \/ PrepareRefused(p) \/ SkipMerged(p) \/ ApplyDelete(p) \/ ApplyCreate(p)
    \/ CheckUpdate(p) \/ UpdateRefused(p) \/ ReplaceFile(p) \/ OperationFails(p)
    \/ SyncFails(p) \/ OperationsDone(p)

Undoing(p) == UndoMerged(p) \/ UndoOperation(p) \/ UndoFails(p) \/ UndoDone(p) \/ ReportFailure(p)

Finishing(p) == UnlinkPending(p) \/ ReturnApplied(p) \/ Audit(p)

RollingBack(p) ==
    \/ StartRollback(p) \/ RemoveCreated(p) \/ TruncateTarget(p) \/ CopyBackup(p)
    \/ RestoreFails(p) \/ RestoreDone(p) \/ UndoCommandReturns(p)

Step(p) ==
    Starting(p) \/ Checkpointing(p) \/ Applying(p) \/ Undoing(p) \/ Finishing(p)
    \/ RollingBack(p) \/ Crash(p)

Next == (\E p \in Procs : Step(p)) \/ UserEdit

Spec == Init /\ [][Next]_vars

-----------------------------------------------------------------------------
(* Properties *)

\* Every variable holds a value of its kind.
TypeOK ==
    /\ disk \in [Files -> MaybeContent]
    /\ pending \in Seq(UpdateBlock) \cup {NoPatch}
    /\ checkpoints \in Seq(Checkpoint)
    /\ audited \subseteq [event : {"patch_applied", "rollback_completed"}, checkpoint : Nat]
    /\ pc \in [Procs -> Steps]
    /\ via \in [Procs -> EntryPoints]
    /\ blocks \in [Procs -> Seq(Block)]
    /\ at \in [Procs -> Nat]
    /\ mine \in [Procs -> 0 .. Len(checkpoints)]
    /\ original \in [Procs -> [Files -> MaybeContent]]
    /\ moved \in [Procs -> SUBSET Files]
    /\ undoFailed \in [Procs -> BOOLEAN]
    /\ written \in Seq([Files -> MaybeContent \cup {Unwritten}])
    /\ raced \in Seq(SUBSET Files)
    /\ Len(written) = Len(checkpoints) /\ Len(raced) = Len(checkpoints)
    /\ applied \subseteq DOMAIN checkpoints
    /\ sinceBackup \in [Procs -> SUBSET Files]
    /\ sinceCheck \in [Procs -> SUBSET Files]
    /\ unsynced \in [Procs -> SUBSET Files]
    /\ env \in [edits : Nat, faults : Nat, crashes : Nat]

Wrote(c) == {f \in Files : written[c][f] # Unwritten}
Covered(c) == {checkpoints[c].entries[i].file : i \in DOMAIN checkpoints[c].entries}

\* README.md:31, docs/public-contracts.md:86: whatever a patch has written,
\* even one that was killed half way, a readable checkpoint covers it.
WritesHaveCheckpoint ==
    \A c \in DOMAIN checkpoints :
        Wrote(c) # {} => checkpoints[c].metadata /\ Wrote(c) \subseteq Covered(c)

\* What restoring checkpoint c leaves in file f: its last entry decides.
Kept(c, f) ==
    LET es == checkpoints[c].entries
        last == CHOOSE i \in DOMAIN es : es[i].file = f /\ \A j \in DOMAIN es : es[j].file = f => j <= i
    IN  IF es[last].existed THEN checkpoints[c].backup[f] ELSE Absent

\* A checkpoint keeps the content its patch went on to overwrite, unless
\* another actor changed the file between the copy and the write.
BackupIsPreimage ==
    \A c \in DOMAIN checkpoints : \A f \in Wrote(c) \ raced[c] : Kept(c, f) = written[c][f]

\* Targets whose first operation did not find what it is for: a create whose
\* path was taken by the time the patch was prepared, a delete whose file was gone.
Unforeseen(p) ==
    {f \in Targets(blocks[p]) : \E i \in DOMAIN blocks[p] :
        /\ blocks[p][i].file = f
        /\ \A j \in DOMAIN blocks[p] : blocks[p][j].file = f => i <= j
        /\ (blocks[p][i].op = "create") # (original[p][f] = Absent)}

\* Once a failed apply has undone its operations without an error, no target
\* shows any of them: each has its old content, but for files somebody else
\* changed in the meantime, for the one whose directory was not synced, and for
\* the unforeseen ones, where the undo unlinks a file it did not make or leaves
\* an empty one.
FailedApplyRestores ==
    \A p \in Procs : pc[p] = "failed" /\ ~undoFailed[p] =>
        \A f \in Targets(blocks[p]) \ (sinceBackup[p] \cup unsynced[p] \cup Unforeseen(p)) :
            disk[f] = original[p][f]

\* An update goes over exactly the content it was rendered from; only a change
\* between the last comparison and the rename can be lost.
ReplacesWhatItChecked ==
    \A p \in Procs : pc[p] = "replace" =>
        LET f == blocks[p][at[p]].file IN disk[f] = original[p][f] \/ f \in sinceCheck[p]

\* A patch reported as applied is on the disk with every block in every target
\* nobody else has changed: no block of a merged update is lost.
AppliedIsWhole ==
    \A p \in Procs : pc[p] = "applied" =>
        \A f \in Targets(blocks[p]) \ sinceBackup[p] :
            disk[f] = Result(blocks[p], f, Kept(mine[p], f))

\* Rolling a checkpoint back takes away everything its patch did, killed or
\* not: each file it wrote has again the content it overwrote.
RollbackUndoesWrites ==
    \A p \in Procs : pc[p] = "restored" =>
        \A f \in Wrote(mine[p]) \ (raced[mine[p]] \cup sinceBackup[p]) :
            disk[f] = written[mine[p]][f]

-----------------------------------------------------------------------------
(* What the documents say and the code does not do *)

\* docs/public-contracts.md:212: `sac rollback --last` always undoes the most
\* recent write, that is, the newest checkpoint whose patch was applied.
LastIsMostRecentWrite ==
    \A p \in Procs : pc[p] = "restored" /\ via[p] = "rollback_last" /\ applied # {} =>
        \A c \in applied : c <= mine[p] /\ mine[p] \in applied
=============================================================================
