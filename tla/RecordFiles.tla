----------------------------- MODULE RecordFiles -----------------------------
(***************************************************************************)
(* The record files under .sac: the agent's journal (state/journal.py),    *)
(* the step journal (state/step_journal.py), session summaries, recent     *)
(* failures and edits (memory/session_store.py, memory/facade.py),         *)
(* workspace memory (memory/workspace_memory.py), project facts            *)
(* (memory/facts.py) and the queue (queue/store.py).  A change reads the   *)
(* whole file, changes the list and writes the whole file, and nothing is  *)
(* locked; the stores differ in how they read a damaged file, in how they  *)
(* write, and in what they keep.                                           *)
(***************************************************************************)
EXTENDS Naturals, Sequences, SequencesExt

CONSTANTS
    Kinds,       \* the stores looked at
    Users,       \* processes
    MaxKept,     \* _MAX_ENTRIES, _MAX_SESSIONS, _MAX_FACTS, _MAX_RECENT_ENTRIES, cap
    MaxLong,     \* how many long records _MAX_FILE_BYTES has room for ...
    MinKept,     \* ... and how many are kept however long they are: 10
    MaxRecords, MaxUnreadable, MaxChanges, MaxKilled  \* bounds

AllKinds == {"journal", "steps", "sessions", "workspace", "facts", "queue"}

ASSUME RecordAssumption ==
    /\ Kinds \subseteq AllKinds
    /\ MaxKept \in Nat \ {0} /\ {MaxLong, MinKept, MaxRecords} \subseteq Nat

Capped == AllKinds \ {"journal", "queue"}
Documents == {"facts", "queue"}  \* one JSON text each, the others have a line for each record

VARIABLES
    kind,    \* which store this is
    long,    \* the records, of those to come, that are long; none where bytes are not counted
    lines,   \* its file: the records
    damaged, \* and whether there is text that is no record
    user,    \* what every process is at
    list,    \* and what it will write
    \* history, read by the properties only
    born,    \* how many records have been made; they are numbered by age
    stored,  \* the records whose writing has ended
    settled, \* the records that were approved, rejected or completed
    bad,     \* the records that cannot be read back
    mixed,   \* two processes were at it at once
    pruned,
    changes, deaths

recVars == <<kind, long, lines, damaged, user, list, born, stored, settled, bad, mixed, pruned,
             changes, deaths>>

Free == [at |-> "idle", op |-> "none", id |-> 0]
RecordIds(s) == [i \in DOMAIN s |-> s[i].id]

\* The elements of s that are in some, in their order.
Only(s, some) ==
    LET only[n \in 0..Len(s)] ==
            IF n = 0 THEN <<>>
            ELSE IF s[n] \in some THEN Append(only[n - 1], s[n]) ELSE only[n - 1]
    IN  only[Len(s)]

\* read, list, _read_all, _read_jsonl, _load: a line that cannot be read is
\* skipped, but it empties the step journal.
Readable ==
    IF \/ kind \in Documents /\ damaged
       \/ kind = "steps" /\ (damaged \/ \E r \in Range(lines) : r.id \in bad)
    THEN <<>>
    ELSE Only(lines, {r \in Range(lines) : r.id \notin bad})

\* Mutant: the cap cuts off the newest.
KeepOldest(s) ==
    IF kind \in Capped /\ Len(s) > MaxKept THEN SubSeq(s, 1, MaxKept) ELSE s

\* A file has a limit on its records, and the workspace memory another on its bytes.
Fits(ids, large) ==
    /\ Len(ids) <= MaxKept
    /\ Len(ids) > MinKept => Cardinality(Range(ids) \cap large) <= MaxLong

\* s without its first n.
End(s, n) == SubSeq(s, n + 1, Len(s))

\* How many of the oldest go, one by one, until the rest fits.
Evicted(ids, large) ==
    CHOOSE n \in 0..Len(ids) :
        Fits(End(ids, n), large) /\ \A m \in 0..(n - 1) : ~ Fits(End(ids, m), large)

Kept(s) == IF kind \in Capped THEN End(s, Evicted(RecordIds(s), long)) ELSE s

\* Process u reads the file for change op of record id, and will write s.
Begins(u, op, id, s) ==
    /\ user[u] = Free
    /\ ~ (kind = "queue" /\ damaged)  \* json.loads raises
    /\ user' = [user EXCEPT ![u] = [at |-> "write", op |-> op, id |-> id]]
    /\ list' = [list EXCEPT ![u] = s]
    /\ mixed' = (mixed \/ \E v \in Users \ {u} : user[v] # Free)
    /\ UNCHANGED <<kind, long, lines, damaged, stored, settled, deaths>>

\* append, record, add and _append; record_plan and the like call append.
Add(u) ==
    /\ born < MaxRecords
    /\ born' = born + 1
    /\ Begins(u, "add", born', Kept(Append(Readable, [id |-> born', open |-> TRUE])))
    \* A text may have a line separator that JSON does not escape, and a later
    \* version's records another schema.
    /\ \/ UNCHANGED bad
       \/ kind \notin Documents /\ Cardinality(bad) < MaxUnreadable /\ bad' = bad \cup {born'}
    /\ UNCHANGED <<pruned, changes>>

\* approve takes an open fact, reject any, complete_next the first open task; it
\* also writes the file when there is none.
MaySettle(s, i) ==
    \/ kind = "facts"
    \/ kind = "queue" /\ s[i].open /\ \A j \in 1..(i - 1) : ~ s[j].open

Settle(u) ==
    /\ changes < MaxChanges /\ changes' = changes + 1
    /\ \/ \E i \in DOMAIN Readable :
            /\ MaySettle(Readable, i)
            /\ Begins(u, "settle", Readable[i].id, [Readable EXCEPT ![i].open = FALSE])
       \/ /\ kind = "queue" /\ \A i \in DOMAIN Readable : ~ Readable[i].open
          /\ Begins(u, "look", 0, Readable)
    /\ UNCHANGED <<born, bad, pruned>>

\* clear_stale: load_all lists the newest first, and so the rest is written.
Prune(u) ==
    /\ kind = "workspace"
    /\ changes < MaxChanges /\ changes' = changes + 1
    /\ \E n \in 1..Len(Readable) :
         Begins(u, "prune", 0, Reverse(SubSeq(SortSeq(Readable, LAMBDA r, s : r.id < s.id),
                                             n + 1, Len(Readable))))
    /\ pruned' = TRUE
    /\ UNCHANGED <<born, bad>>

\* MemoryFacade.clear unlinks the file.
Clear(u) ==
    /\ kind = "sessions" /\ user[u] = Free
    /\ changes < MaxChanges /\ changes' = changes + 1
    /\ lines' = <<>> /\ damaged' = FALSE /\ stored' = <<>>
    /\ mixed' = (mixed \/ \E v \in Users : user[v] # Free)
    /\ UNCHANGED <<kind, long, user, list, born, settled, bad, pruned, deaths>>

Done(u) ==
    /\ user' = [user EXCEPT ![u] = Free]
    /\ list' = [list EXCEPT ![u] = <<>>]
    /\ stored' = IF user[u].op = "add" THEN Append(stored, user[u].id) ELSE stored
    /\ settled' = IF user[u].op = "settle" THEN settled \cup {user[u].id} ELSE settled

\* write_text first empties the file ...
Truncate(u) ==
    /\ user[u].at = "write" /\ kind # "journal"
    /\ lines' = <<>> /\ damaged' = TRUE
    /\ user' = [user EXCEPT ![u].at = "fill"]
    /\ UNCHANGED <<kind, long, list, born, stored, settled, bad, mixed, pruned, changes, deaths>>

\* ... and then writes from its start, over what another wrote meanwhile.
Fill(u) ==
    /\ user[u].at = "fill"
    /\ lines' = list[u]
    /\ damaged' \in (IF lines = <<>> THEN {FALSE} ELSE BOOLEAN)
    /\ Done(u)
    /\ UNCHANGED <<kind, long, born, bad, mixed, pruned, changes, deaths>>

\* _atomic_write_jsonl.
Replace(u) ==
    /\ user[u].at = "write" /\ kind = "journal"
    /\ lines' = list[u] /\ damaged' = FALSE
    /\ Done(u)
    /\ UNCHANGED <<kind, long, born, bad, mixed, pruned, changes, deaths>>

\* A kill, or a full disk: a part of the list may have been written.
Die(u) ==
    /\ user[u] # Free /\ deaths < MaxKilled
    /\ deaths' = deaths + 1
    /\ IF user[u].at = "fill"
       THEN \E n \in 0..Len(list[u]) :
              /\ lines' = IF kind \in Documents THEN <<>> ELSE SubSeq(list[u], 1, n)
              /\ damaged' = TRUE
       ELSE UNCHANGED <<lines, damaged>>
    /\ user' = [user EXCEPT ![u] = Free]
    /\ list' = [list EXCEPT ![u] = <<>>]
    /\ UNCHANGED <<kind, long, born, stored, settled, bad, mixed, pruned, changes>>

RecInit ==
    /\ kind \in Kinds
    /\ long \in IF kind = "workspace" THEN SUBSET (1..MaxRecords) ELSE {{}}
    /\ lines = <<>> /\ damaged = FALSE
    /\ user = [u \in Users |-> Free]
    /\ list = [u \in Users |-> <<>>]
    /\ born = 0 /\ stored = <<>> /\ settled = {} /\ bad = {}
    /\ mixed = FALSE /\ pruned = FALSE
    /\ changes = 0 /\ deaths = 0

RecNext ==
    \E u \in Users :
        \/ Add(u) \/ Settle(u) \/ Prune(u) \/ Clear(u)
        \/ Truncate(u) \/ Fill(u) \/ Replace(u) \/ Die(u)

RecSpec == RecInit /\ [][RecNext]_recVars

-----------------------------------------------------------------------------
Newest(ids, large) == End(ids, Evicted(ids, large))

\* As long as processes take turns, a store has what was given to it and nothing
\* else, whatever order the calls come in: the journal all events, also after a
\* kill and next to a line that cannot be read, the queue all tasks, and the
\* others, if nobody was killed and all lines can be read, the newest of all that
\* were given to them, as many as fit; with their approvals and completions.  The
\* queue completes tasks in the order of their coming even when processes do not
\* take turns.
KeepsWhatItWasGiven ==
    /\ ~ mixed /\ (\A u \in Users : user[u] = Free) =>
         /\ kind = "journal" => RecordIds(Readable) = Only(stored, Range(stored) \ bad)
         /\ kind # "journal" /\ deaths = 0 /\ bad = {} /\ ~ pruned =>
              /\ RecordIds(Readable) = IF kind = "queue" THEN stored ELSE Newest(stored, long)
              /\ \A r \in Range(Readable) : r.open <=> r.id \notin settled
    /\ kind = "queue" =>
         \A i, j \in DOMAIN lines : i < j /\ lines[i].open => lines[j].open
=============================================================================
