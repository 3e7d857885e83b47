--------------------------- MODULE EmbeddingIndex ---------------------------
(***************************************************************************)
(* The index for semantic search (index/embedding_store.py, chunker.py,    *)
(* embedding_backend.py; sac index build and rebuild).  A build cuts the   *)
(* files into chunks and, batch by batch, embeds those whose text the      *)
(* index does not have yet and stores them by file and position, all in    *)
(* one transaction.  Files change between builds and during them, two      *)
(* builds may run at once, and the library may be installed later.         *)
(***************************************************************************)
EXTENDS Naturals, Sequences, SequencesExt

CONSTANTS
    MaxSources, \* the project's files are numbered in the order FileIndexer lists them
    Texts,      \* texts of chunks
    MaxChunks,  \* bound: the chunks of a file
    BatchSize,  \* _BATCH_SIZE, 32 in the code
    Builders,   \* processes
    MaxBuilds, MaxChanged  \* bounds

ASSUME IndexAssumption == BatchSize \in Nat \ {0} /\ {MaxSources, MaxChunks} \subseteq Nat

Sources == 1..MaxSources
Bodies == UNION {[1..n -> Texts] : n \in 0..MaxChunks}
Empty == [p \in Sources \X (1..MaxChunks) |-> [text |-> "none", by |-> "none"]]

NoBuild == [at |-> "idle", force |-> FALSE, by |-> "none", fresh |-> {},
            chunks |-> <<>>, next |-> 1, batch |-> {}, own |-> <<>>]

VARIABLES
    content,    \* the chunks of every file
    backend, \* what create_embedding_backend gives
    rows,    \* the table chunks as committed
    build,   \* what every builder is at; own is the table in its transaction
    \* history, read by the properties only
    latest,  \* the build that was committed last
    rivals,  \* two builds ran at once
    builds, changed

indexVars == <<content, backend, rows, build, latest, rivals, builds, changed>>

\* chunk_files.
Chunks == FlattenSeq([f \in Sources |->
              [i \in DOMAIN content[f] |-> [place |-> <<f, i>>, text |-> content[f][i]]]])

InTransaction(b) == build[b].own # <<>>
Table(b) == IF InTransaction(b) THEN build[b].own ELSE rows
MayWrite(b) == \A c \in Builders \ {b} : ~ InTransaction(c)  \* SQLite has one writer

Has(table, text) == \E p \in DOMAIN table : table[p].text = text

\* Mutant: a chunk is known by its place.
KnownPlace(table, c) == table[c.place].text # "none"

\* _get_existing_hashes looks for the text, wherever it is.
HasIts(table, c) == Has(table, c.text)

-----------------------------------------------------------------------------
BeginBuild(b) ==
    /\ build[b] = NoBuild
    /\ builds < MaxBuilds /\ builds' = builds + 1
    /\ \E force \in BOOLEAN :
         build' = [build EXCEPT ![b] = [NoBuild EXCEPT
             !.at = "look", !.force = force, !.by = backend, !.chunks = Chunks,
             !.fresh = {t \in Texts : ~ Has(rows, t)}]]
    /\ rivals' = (rivals \/ \E c \in Builders : build[c] # NoBuild)
    /\ UNCHANGED <<content, backend, rows, latest, changed>>

\* The next batch: what of it is to be embedded.
TakeBatch(b) ==
    /\ build[b].at = "look" /\ build[b].next <= Len(build[b].chunks)
    /\ LET end == build[b].next + BatchSize
           places == {i \in DOMAIN build[b].chunks : build[b].next <= i /\ i < end}
           new == {c \in {build[b].chunks[i] : i \in places} :
                     build[b].force \/ ~ HasIts(Table(b), c)}
       IN build' = [build EXCEPT ![b] = [build[b] EXCEPT
              !.next = end, !.batch = new, !.at = IF new = {} THEN "look" ELSE "embed"]]
    /\ UNCHANGED <<content, backend, rows, latest, rivals, builds, changed>>

\* INSERT OR REPLACE; the first one begins the transaction.
StoreBatch(b) ==
    /\ build[b].at = "embed" /\ MayWrite(b)
    /\ LET At(p) == {c \in build[b].batch : c.place = p}
       IN build' = [build EXCEPT ![b] = [build[b] EXCEPT
              !.at = "look", !.batch = {},
              !.own = [p \in DOMAIN rows |->
                  IF At(p) = {} THEN Table(b)[p]
                  ELSE [text |-> (CHOOSE c \in At(p) : TRUE).text, by |-> build[b].by]]]]
    /\ UNCHANGED <<content, backend, rows, latest, rivals, builds, changed>>

Commit(b) ==
    /\ build[b].at = "look" /\ build[b].next > Len(build[b].chunks) /\ MayWrite(b)
    /\ rows' = Table(b)
    /\ latest' = build[b]
    /\ build' = [build EXCEPT ![b] = NoBuild]
    /\ UNCHANGED <<content, backend, rivals, builds, changed>>

\* The model raises, the lock is waited for too long, or the process is killed:
\* the transaction is rolled back.
AbandonBuild(b) ==
    /\ build[b] # NoBuild
    /\ build' = [build EXCEPT ![b] = NoBuild]
    /\ UNCHANGED <<content, backend, rows, latest, rivals, builds, changed>>

\* A file is edited, made or deleted; sentence-transformers is installed.
ChangeFile ==
    /\ changed < MaxChanged /\ changed' = changed + 1
    /\ \E f \in Sources, new \in Bodies : content' = [content EXCEPT ![f] = new]
    /\ UNCHANGED <<backend, rows, build, latest, rivals, builds>>

InstallLibrary ==
    /\ backend = "null" /\ backend' = "semantic"
    /\ UNCHANGED <<content, rows, build, latest, rivals, builds, changed>>

-----------------------------------------------------------------------------
IndexInit ==
    /\ content \in [Sources -> Bodies]
    /\ backend = "null"
    /\ rows = Empty
    /\ build = [b \in Builders |-> NoBuild]
    /\ latest = NoBuild
    /\ rivals = FALSE /\ builds = 0 /\ changed = 0

IndexNext ==
    \/ \E b \in Builders :
         BeginBuild(b) \/ TakeBatch(b) \/ StoreBatch(b) \/ Commit(b) \/ AbandonBuild(b)
    \/ ChangeFile \/ InstallLibrary

IndexSpec == IndexInit /\ [][IndexNext]_indexVars

-----------------------------------------------------------------------------
\* A forced build leaves every chunk in its row with a vector of its
\* backend, whoever else builds.  An incremental one leaves every
\* text that the index did not have in some row, whatever moved between files
\* and batches, unless another build replaced that row.
StoresWhatIsNew ==
    \A c \in Range(latest.chunks) :
        IF latest.force THEN rows[c.place] = [text |-> c.text, by |-> latest.by]
        ELSE c.text \in latest.fresh => rivals \/ Has(rows, c.text)
=============================================================================
