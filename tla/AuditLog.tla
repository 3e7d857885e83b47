------------------------------ MODULE AuditLog ------------------------------
(***************************************************************************)
(* The audit trail: AuditLogger.write appends a hash-chained line to       *)
(* .sac/logs/events.jsonl and then the new head to the anchor file in the  *)
(* user's home; verify_integrity compares the two (audit/logger.py,        *)
(* audit/anchor.py).  Nothing locks either file.                           *)
(*                                                                         *)
(* SHA-256 is taken to be perfect: the hash of an event stands for its     *)
(* body and its previous_hash, hence for the sequence of bodies up to it.  *)
(* An event is written as JSON that leaves U+0085, U+2028 and U+2029 as    *)
(* they are, and read back with str.splitlines(), for which they end a     *)
(* line: the line of such an event is read as two that do not parse.       *)
(***************************************************************************)
EXTENDS Naturals, Sequences, SequencesExt

CONSTANTS Procs, Missing, MaxEvents, MaxSplits, MaxEdits, MaxCrashes

\* A line as the readers see it: whole, one of the halves of an event that was split,
\* or torn, without a line end; only a whole line parses.
LogLine == [body : Nat, prev : Seq(Nat), hash : Seq(Nat), form : {"whole", "half", "torn"}]
Anchor == [count : Nat, hash : Seq(Nat)]

ASSUME AuditAssumption ==
    /\ {MaxEvents, MaxSplits, MaxEdits, MaxCrashes} \subseteq Nat
    /\ Missing \notin Seq(LogLine) /\ Missing \notin Anchor

VARIABLES
    log,        \* the lines of events.jsonl, or Missing
    anchor,     \* the last line of the anchor file, or Missing
    \* the locals of a process that writes or verifies
    pc,
    prev,       \* what _last_hash returned
    body,       \* the event being written
    seen,       \* line count read back, or the log a verification has checked
    verdict,    \* what the last verification of a process returned
    split,      \* the events whose text holds a line separator
    \* history, read by the properties only
    events,     \* the events so far
    finished,   \* the events whose write returned
    left,       \* the log as the last append left it
    overlapped, \* two writes were ever under way at once
    env         \* edits and crashes so far

vars == <<log, anchor, pc, prev, body, seen, verdict, split, events, finished, left,
          overlapped, env>>
locals == <<pc, prev, body, seen, verdict>>
history == <<split, events, finished, left, overlapped>>

Hash(previous, b) == Append(previous, b)
NoHash == <<>>

Line(previous, b) ==
    [body |-> b, prev |-> previous, hash |-> Hash(previous, b), form |-> "whole"]
Lines == IF log = Missing THEN <<>> ELSE log

Goto(p, step) == pc' = [pc EXCEPT ![p] = step]
Writing(p) == pc[p] \in {"append", "count", "anchor"}

-----------------------------------------------------------------------------
(* AuditLogger.write *)

Torn(lines) == lines # <<>> /\ Last(lines).form = "torn"
Parses(lines) == lines # <<>> => Last(lines).form = "whole"

LastHash(lines) == IF lines = <<>> THEN NoHash ELSE Last(lines).hash

\* _last_hash parses the last line (and the event may be one with a separator) ...
ReadHead(p) ==
    /\ pc[p] = "idle"
    /\ events < MaxEvents
    /\ Parses(Lines)
    /\ \/ split' = split
       \/ Cardinality(split) < MaxSplits /\ split' = split \cup {events + 1}
    /\ prev' = [prev EXCEPT ![p] = LastHash(Lines)]
    /\ body' = [body EXCEPT ![p] = events + 1]
    /\ events' = events + 1
    /\ overlapped' = (overlapped \/ \E q \in Procs : Writing(q))
    /\ Goto(p, "append")
    /\ UNCHANGED <<log, anchor, seen, verdict, finished, left, env>>

\* ... and raises when it cannot: nothing is written.
WriteRaises(p) ==
    /\ pc[p] = "idle"
    /\ events < MaxEvents
    /\ ~Parses(Lines)
    /\ events' = events + 1
    /\ UNCHANGED <<log, anchor, locals, split, finished, left, overlapped, env>>

\* Mutant: every event is written as the first one.
AddedUnchained(p) == Append(Lines, Line(NoHash, body[p]))

\* A torn line has no line end: the first piece that is appended becomes part of it.
Joined(lines, pieces) ==
    IF Torn(lines)
    THEN Front(lines)
         \o <<[Head(pieces) EXCEPT !.form = IF @ = "torn" THEN "torn" ELSE "half"]>>
         \o Tail(pieces)
    ELSE lines \o pieces

\* The line of an event, as splitlines() will read it.
Pieces(p) ==
    LET line == Line(prev[p], body[p])
        half == [line EXCEPT !.form = "half"]
    IN  IF body[p] \in split THEN <<half, half>> ELSE <<line>>

Added(p) == Joined(Lines, Pieces(p))

AppendLine(p) ==
    /\ pc[p] = "append"
    /\ log' = Added(p)
    /\ left' = Added(p)
    /\ Goto(p, "count")
    /\ UNCHANGED <<anchor, prev, body, seen, verdict, split, events, finished, overlapped, env>>

\* _line_count reads the log again.
CountLines(p) ==
    /\ pc[p] = "count"
    /\ seen' = [seen EXCEPT ![p] = Lines]
    /\ Goto(p, "anchor")
    /\ UNCHANGED <<log, anchor, prev, body, verdict, history, env>>

NewHead(p) == [count |-> Len(seen[p]), hash |-> Hash(prev[p], body[p])]

\* Mutant: the first anchor stays the one that counts.
AnchoredOnce(p) == IF anchor = Missing THEN NewHead(p) ELSE anchor

Anchored(p) == NewHead(p)

WriteAnchor(p) ==
    /\ pc[p] = "anchor"
    /\ anchor' = Anchored(p)
    /\ finished' = finished \cup {body[p]}
    /\ Goto(p, "idle")
    /\ UNCHANGED <<log, prev, body, seen, verdict, split, events, left, overlapped, env>>

-----------------------------------------------------------------------------
(* AuditLogger.verify_integrity *)

Previous(lines, i) == IF i = 1 THEN NoHash ELSE lines[i - 1].hash

Chained(lines) ==
    \A i \in DOMAIN lines :
        /\ lines[i].form = "whole"
        /\ lines[i].prev = Previous(lines, i)
        /\ lines[i].hash = Hash(lines[i].prev, lines[i].body)

\* Mutant: the anchor is only compared by its line count.
MatchesCount(lines, a) == IF a = Missing THEN lines = <<>> ELSE a.count = Len(lines)

\* An anchor has to name this head; without one the log must be empty.
Matches(lines, a) ==
    IF a = Missing
    THEN lines = <<>>
    ELSE lines # <<>> /\ a.count = Len(lines) /\ a.hash = Last(lines).hash

Return(p, v) == verdict' = [verdict EXCEPT ![p] = v] /\ Goto(p, "idle")

\* The log is read and its chain checked; without a log there is nothing to verify.
VerifyLog(p) ==
    /\ pc[p] = "idle"
    /\ IF log = Missing
       THEN Return(p, "ok") /\ seen' = [seen EXCEPT ![p] = <<>>]
       ELSE /\ seen' = [seen EXCEPT ![p] = log]
            /\ IF Chained(log)
               THEN verdict' = [verdict EXCEPT ![p] = "none"] /\ Goto(p, "verify")
               ELSE Return(p, "fail")
    /\ UNCHANGED <<log, anchor, prev, body, history, env>>

\* The anchor is read after the log.
VerifyAnchor(p) ==
    /\ pc[p] = "verify"
    /\ Return(p, IF Matches(seen[p], anchor) THEN "ok" ELSE "fail")
    /\ UNCHANGED <<log, anchor, prev, body, seen, history, env>>

-----------------------------------------------------------------------------
(* The environment *)

\* A kill, in the middle of the line for a writer that is about to append it.
Crash(p) ==
    /\ pc[p] # "idle"
    /\ env.crashes < MaxCrashes
    /\ env' = [env EXCEPT !.crashes = @ + 1]
    /\ \/ log' = log
       \/ /\ pc[p] = "append"
          /\ log' = Joined(Lines, <<[Line(prev[p], body[p]) EXCEPT !.form = "torn"]>>)
    /\ Goto(p, "idle")
    /\ UNCHANGED <<anchor, prev, body, seen, verdict, history>>

\* The same bodies with hashes of their own.
Rechained(lines) ==
    [i \in DOMAIN lines |->
        Line([j \in 1..(i - 1) |-> lines[j].body], lines[i].body)]

\* Somebody drops a line or changes its body, and may recompute the hashes.
Edits ==
    LET plain == {RemoveAt(log, i) : i \in DOMAIN log}
                 \cup {[log EXCEPT ![i].body = 0] : i \in DOMAIN log}
    IN  plain \cup {Rechained(lines) : lines \in plain}

EditLog ==
    /\ env.edits < MaxEdits
    /\ env' = [env EXCEPT !.edits = @ + 1]
    /\ log # Missing
    /\ log' \in Edits \cup {Missing}
    /\ UNCHANGED <<anchor, locals, history>>

Init ==
    /\ log = Missing
    /\ anchor = Missing
    /\ pc = [p \in Procs |-> "idle"]
    /\ prev = [p \in Procs |-> NoHash]
    /\ body = [p \in Procs |-> 0]
    /\ seen = [p \in Procs |-> <<>>]
    /\ verdict = [p \in Procs |-> "none"]
    /\ split = {}
    /\ events = 0
    /\ finished = {}
    /\ left = <<>>
    /\ overlapped = FALSE
    /\ env = [edits |-> 0, crashes |-> 0]

Step(p) ==
    \/ ReadHead(p) \/ WriteRaises(p) \/ AppendLine(p) \/ CountLines(p) \/ WriteAnchor(p)
    \/ VerifyLog(p) \/ VerifyAnchor(p) \/ Crash(p)

Next == (\E p \in Procs : Step(p)) \/ EditLog

Spec == Init /\ [][Next]_vars

-----------------------------------------------------------------------------
(* Properties *)

\* Every variable holds a value of its kind.
TypeOK ==
    /\ log \in Seq(LogLine) \cup {Missing}
    /\ anchor \in Anchor \cup {Missing}
    /\ pc \in [Procs -> {"idle", "append", "count", "anchor", "verify"}]
    /\ prev \in [Procs -> Seq(Nat)]
    /\ body \in [Procs -> Nat]
    /\ seen \in [Procs -> Seq(LogLine)]
    /\ verdict \in [Procs -> {"none", "ok", "fail"}]
    /\ split \subseteq Nat
    /\ events \in Nat
    /\ finished \subseteq Nat
    /\ left \in Seq(LogLine)
    /\ overlapped \in BOOLEAN
    /\ env \in [edits : Nat, crashes : Nat]

Verifies == log = Missing \/ (Chained(log) /\ Matches(log, anchor))

\* No write is under way, no two ever overlapped and none was killed.
Serial == ~overlapped /\ env.crashes = 0 /\ \A p \in Procs : ~Writing(p)

\* docs/public-contracts.md:454: between writes that came one after another, in
\* whatever processes, a log nobody edited verifies against its anchor, as long as
\* no event held a line separator (such a log does not verify, and once the event
\* is its last, no other is written).  The exclusions are what the code has no
\* protection against: nothing is locked, and a line is not read as it was written.
SerialVerifies == Serial /\ env.edits = 0 /\ split = {} => Verifies

\* docs/current-status.md:17, tamper-evident: when the log is not as the last
\* write left it, and was in order then, it does not verify, whoever recomputed
\* the hashes.  (Without any log, verify_integrity finds nothing to complain of.)
EditsAreNoticed ==
    Serial /\ Chained(left) /\ log # Missing /\ log # left => ~Verifies

\* A verification that returned ok has seen every event written before it began,
\* and was not fooled by a writer at work between its two reads.
OkIsCurrent ==
    \A p \in Procs :
        pc[p] = "verify" /\ Matches(seen[p], anchor) /\ ~overlapped /\ env = [edits |-> 0, crashes |-> 0] =>
            \A e \in finished : \E i \in DOMAIN seen[p] : seen[p][i].body = e
=============================================================================
