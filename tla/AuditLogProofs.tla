--------------------------- MODULE AuditLogProofs ---------------------------
(***************************************************************************)
(* Theorems about AuditLog, for any number of processes, events, edits and *)
(* crashes.                                                                *)
(***************************************************************************)
EXTENDS AuditLog, TLAPS, SequenceTheorems, WellFoundedInduction

\* Nothing has disturbed the log: no overlap, no edit, no crash.
Calm == ~overlapped /\ env.edits = 0 /\ env.crashes = 0

\* In calm, no line is torn, the log is a chain unless an event was split, and whoever
\* writes is alone with its head.
Tidy ==
    Calm =>
        /\ split = {} => Chained(Lines)
        /\ \A i \in DOMAIN Lines : Lines[i].form # "torn"
        /\ \A p, q \in Procs : Writing(p) /\ Writing(q) => p = q
        /\ \A p \in Procs : pc[p] = "append" => prev[p] = LastHash(Lines)
        /\ \A p \in Procs : pc[p] \in {"count", "anchor"} =>
                Lines # <<>> /\ LastHash(Lines) = Hash(prev[p], body[p])
        /\ \A p \in Procs : pc[p] = "anchor" => seen[p] = Lines
        /\ (\A p \in Procs : ~Writing(p)) => Matches(Lines, anchor)

Inductive == TypeOK /\ Tidy

-----------------------------------------------------------------------------
LEMMA LinesAreLines == ASSUME TypeOK PROVE Lines \in Seq(LogLine)
BY DEF TypeOK, Lines

\* A line carries hashes, whatever it is chained to.
LEMMA LineType == \A h \in Seq(Nat), b \in Nat : Line(h, b) \in LogLine /\ Hash(h, b) \in Seq(Nat)
BY DEF Line, LogLine, Hash

LEMMA FieldTypes ==
    \A l \in LogLine : l.body \in Nat /\ l.prev \in Seq(Nat) /\ l.hash \in Seq(Nat)
BY DEF LogLine

LEMMA LastHashType == \A lines \in Seq(LogLine) : LastHash(lines) \in Seq(Nat)
<1>1. TAKE lines \in Seq(LogLine)
<1>2. lines # <<>> => lines[Len(lines)] \in LogLine
    OBVIOUS
<1>3. QED
    BY <1>2, FieldTypes DEF LastHash, NoHash, Last

\* What an edit leaves is a log.
LEMMA EditsAreLogs == ASSUME log \in Seq(LogLine) PROVE Edits \subseteq Seq(LogLine)
<1>1. \A i \in DOMAIN log : RemoveAt(log, i) \in Seq(LogLine)
  <2>1. TAKE i \in DOMAIN log
  <2>2. SubSeq(log, 1, i - 1) \in Seq(LogLine) /\ SubSeq(log, i + 1, Len(log)) \in Seq(LogLine)
      OBVIOUS
  <2>3. QED
      BY <2>2 DEF RemoveAt
<1>2. \A i \in DOMAIN log : [log EXCEPT ![i].body = 0] \in Seq(LogLine)
  <2>1. TAKE i \in DOMAIN log
  <2>2. log[i] \in LogLine
      OBVIOUS
  <2>3. [log[i] EXCEPT !.body = 0] \in LogLine
      BY <2>2 DEF LogLine
  <2>4. [log EXCEPT ![i] = [log[i] EXCEPT !.body = 0]] \in Seq(LogLine)
      BY <2>3
  <2>5. QED
      BY <2>4
<1>3. \A lines \in Seq(LogLine) : Rechained(lines) \in Seq(LogLine)
  <2>1. TAKE lines \in Seq(LogLine)
  <2>2. \A i \in 1..Len(lines) : Line([j \in 1..(i - 1) |-> lines[j].body], lines[i].body) \in LogLine
    <3>1. TAKE i \in 1..Len(lines)
    <3>6. \A j \in 1..Len(lines) : lines[j] \in LogLine
        OBVIOUS
    <3>2. \A j \in 1..(i - 1) : lines[j].body \in Nat
        BY <3>6, FieldTypes
    <3>3. [j \in 1..(i - 1) |-> lines[j].body] \in Seq(Nat)
        BY <3>2, IsASeq, i - 1 \in Nat
    <3>4. lines[i].body \in Nat
        BY <3>6, FieldTypes
    <3>5. QED
        BY <3>3, <3>4, LineType
  <2>3. DOMAIN lines = 1..Len(lines) /\ Len(lines) \in Nat
      OBVIOUS
  <2>4. QED
      BY <2>2, <2>3, IsASeq DEF Rechained
<1>4. QED
    BY <1>1, <1>2, <1>3 DEF Edits

\* What a writer appends: one whole line, or two halves of it.
LEMMA PiecesAre ==
    ASSUME TypeOK, NEW p \in Procs
    PROVE  /\ Pieces(p) \in Seq(LogLine) /\ Len(Pieces(p)) \in Nat \ {0}
           /\ \A i \in DOMAIN Pieces(p) :
                /\ Pieces(p)[i].form # "torn"
                /\ Pieces(p)[i].body = body[p] /\ Pieces(p)[i].hash = Hash(prev[p], body[p])
           /\ body[p] \notin split => Pieces(p) = <<Line(prev[p], body[p])>>
           /\ body[p] \in split => \A i \in DOMAIN Pieces(p) : Pieces(p)[i].form = "half"
<1> DEFINE line == Line(prev[p], body[p])
           half == [line EXCEPT !.form = "half"]
<1>1. /\ line \in LogLine /\ line.form = "whole" /\ line.body = body[p]
      /\ line.hash = Hash(prev[p], body[p])
    BY LineType DEF TypeOK, Line
<1>2. half \in LogLine /\ half.form = "half" /\ half.body = line.body /\ half.hash = line.hash
    BY <1>1 DEF LogLine
<1>3. Pieces(p) = IF body[p] \in split THEN <<half, half>> ELSE <<line>>
    BY DEF Pieces
<1> HIDE DEF line, half
<1>4. CASE body[p] \in split
    BY <1>1, <1>2, <1>3, <1>4
<1>5. CASE body[p] \notin split
    BY <1>1, <1>3, <1>5 DEF line
<1>6. QED
    BY <1>4, <1>5

\* Behind a line with a line end the pieces are lines of their own; a torn line
\* becomes one that does not parse.
LEMMA JoinedLines ==
    ASSUME NEW lines \in Seq(LogLine), NEW pieces \in Seq(LogLine), pieces # <<>>
    PROVE  /\ Joined(lines, pieces) \in Seq(LogLine)
           /\ ~Torn(lines) => Joined(lines, pieces) = lines \o pieces
           /\ Torn(lines) => \E i \in DOMAIN Joined(lines, pieces) :
                                    Joined(lines, pieces)[i].form # "whole"
<1>1. CASE ~Torn(lines)
    BY <1>1, ConcatProperties DEF Joined
<1>2. CASE Torn(lines)
  <2> DEFINE merged == [Head(pieces) EXCEPT !.form = IF @ = "torn" THEN "torn" ELSE "half"]
  <2>1. merged \in LogLine /\ merged.form # "whole"
    <3>1. Head(pieces) \in LogLine
        BY HeadTailProperties
    <3>2. QED
        BY <3>1 DEF LogLine
  <2> HIDE DEF merged
  <2>2. lines # <<>> /\ Len(lines) \in Nat \ {0}
      BY <1>2 DEF Torn
  <2>3. Front(lines) \in Seq(LogLine) /\ Len(Front(lines)) \in Nat
      BY <2>2 DEF Front
  <2>4. <<merged>> \in Seq(LogLine) /\ Len(<<merged>>) = 1 /\ <<merged>>[1] = merged
      BY <2>1
  <2>5. Tail(pieces) \in Seq(LogLine) /\ Len(Tail(pieces)) \in Nat
      BY HeadTailProperties
  <2>6. PICK front \in Seq(LogLine) : front = Front(lines) \o <<merged>>
      BY <2>3, <2>4, ConcatProperties
  <2>7. Len(front) = Len(Front(lines)) + 1 /\ front[Len(front)] = merged
      BY <2>3, <2>4, <2>6, ConcatProperties
  <2>8. PICK rest \in Seq(LogLine) : rest = Tail(pieces)
      BY <2>5
  <2>9. PICK more \in Seq(LogLine) : more = front \o rest
      BY ConcatProperties
  <2>10. Joined(lines, pieces) = more
      BY <1>2, <2>3, <2>4, <2>6, <2>8, <2>9, ConcatAssociative DEF Joined, merged
  <2>11. Len(more) = Len(front) + Len(rest) /\ more[Len(front)] = merged
    <3>1. Len(front) \in Nat /\ Len(rest) \in Nat /\ Len(front) \in 1 .. (Len(front) + Len(rest))
        BY <2>3, <2>7
    <3>2. /\ Len(more) = Len(front) + Len(rest)
          /\ \A i \in 1 .. (Len(front) + Len(rest)) :
                more[i] = IF i <= Len(front) THEN front[i] ELSE rest[i - Len(front)]
        BY <2>9, ConcatProperties
    <3>3. more[Len(front)] = front[Len(front)]
        BY <3>1, <3>2
    <3>4. QED
        BY <2>7, <3>2, <3>3
  <2>12. Len(front) \in DOMAIN more
      BY <2>3, <2>7, <2>11
  <2>13. QED
      BY <1>2, <2>1, <2>10, <2>11, <2>12
<1>3. QED
    BY <1>1, <1>2

LEMMA AddedIsLog == ASSUME TypeOK, NEW p \in Procs PROVE Added(p) \in Seq(LogLine)
<1>1. Pieces(p) # <<>> /\ Pieces(p) \in Seq(LogLine)
    BY PiecesAre
<1>2. QED
    BY <1>1, LinesAreLines, JoinedLines DEF Added

\* One line is appended.
LEMMA OneMore ==
    ASSUME NEW lines \in Seq(LogLine), NEW l \in LogLine
    PROVE  lines \o <<l>> = Append(lines, l)
<1>1. <<l>> \in Seq(LogLine) /\ Len(<<l>>) = 1 /\ <<l>>[1] = l
    OBVIOUS
<1>2. /\ lines \o <<l>> \in Seq(LogLine) /\ Len(lines \o <<l>>) = Len(lines) + 1
      /\ \A i \in 1 .. Len(lines) + 1 : (lines \o <<l>>)[i] = IF i <= Len(lines) THEN lines[i] ELSE l
    BY <1>1, ConcatProperties
<1>3. /\ Append(lines, l) \in Seq(LogLine) /\ Len(Append(lines, l)) = Len(lines) + 1
      /\ \A i \in 1 .. Len(lines) + 1 : Append(lines, l)[i] = IF i <= Len(lines) THEN lines[i] ELSE l
    OBVIOUS
<1>4. QED
    BY <1>2, <1>3, SeqEqual

\* Types hold in the initial state and are kept by every step.
LEMMA TypeStep == ASSUME TypeOK, [Next]_vars PROVE TypeOK'
<1>1. CASE UNCHANGED vars
    BY <1>1 DEF TypeOK, vars
<1>2. ASSUME NEW p \in Procs, Step(p) PROVE TypeOK'
  <2>1. CASE ReadHead(p)
    <3>1. split' \subseteq Nat /\ events' \in Nat
      <4>1. events \in Nat /\ events + 1 \in Nat /\ split \subseteq Nat
          BY DEF TypeOK
      <4>2. split' = split \/ split' = split \cup {events + 1}
          BY <2>1 DEF ReadHead
      <4>3. events' = events + 1
          BY <2>1 DEF ReadHead
      <4>4. QED
          BY <4>1, <4>2, <4>3
    <3>2. QED
        BY <2>1, <3>1, LinesAreLines, LastHashType DEF TypeOK, ReadHead, Goto
  <2>2. CASE WriteRaises(p)
      BY <2>2 DEF TypeOK, WriteRaises, locals
  <2>3. CASE AppendLine(p)
    <3>1. Added(p) \in Seq(LogLine)
        BY AddedIsLog
    <3>2. QED
        BY <2>3, <3>1 DEF TypeOK, AppendLine, Goto
  <2>4. CASE CountLines(p)
      BY <2>4, LinesAreLines DEF TypeOK, CountLines, Goto, history
  <2>5. CASE WriteAnchor(p)
    <3>1. Len(seen[p]) \in Nat /\ Hash(prev[p], body[p]) \in Seq(Nat)
        BY LineType DEF TypeOK
    <3>2. anchor' \in Anchor
        BY <2>5, <3>1 DEF WriteAnchor, Anchored, NewHead, Anchor
    <3>3. finished' \subseteq Nat
        BY <2>5 DEF TypeOK, WriteAnchor
    <3>4. pc' \in [Procs -> {"idle", "append", "count", "anchor", "verify"}]
        BY <2>5 DEF TypeOK, WriteAnchor, Goto
    <3>5. UNCHANGED <<log, prev, body, seen, verdict, split, events, left, overlapped, env>>
        BY <2>5 DEF WriteAnchor
    <3>6. QED
        BY <3>2, <3>3, <3>4, <3>5 DEF TypeOK
  <2>6. CASE VerifyLog(p)
    <3>1. seen' \in [Procs -> Seq(LogLine)]
      <4>1. CASE log = Missing
        <5>1. <<>> \in Seq(LogLine) /\ seen' = [seen EXCEPT ![p] = <<>>]
            BY <2>6, <4>1 DEF VerifyLog
        <5>2. QED
            BY <5>1 DEF TypeOK
      <4>2. CASE log # Missing
          BY <2>6, <4>2 DEF TypeOK, VerifyLog
      <4>3. QED
          BY <4>1, <4>2
    <3>2. /\ pc' \in [Procs -> {"idle", "append", "count", "anchor", "verify"}]
          /\ verdict' \in [Procs -> {"none", "ok", "fail"}]
        BY <2>6 DEF TypeOK, VerifyLog, Return, Goto
    <3>3. QED
        BY <2>6, <3>1, <3>2 DEF TypeOK, VerifyLog, history
  <2>7. CASE VerifyAnchor(p)
      BY <2>7 DEF TypeOK, VerifyAnchor, Return, Goto, history
  <2>8. CASE Crash(p)
    <3> DEFINE torn == [Line(prev[p], body[p]) EXCEPT !.form = "torn"]
    <3>1. torn \in LogLine
      <4>1. Line(prev[p], body[p]) \in LogLine
          BY LineType DEF TypeOK
      <4>2. QED
          BY <4>1 DEF LogLine
    <3>2. log' \in Seq(LogLine) \cup {Missing}
      <4>1. CASE log' = log
          BY <4>1 DEF TypeOK
      <4>2. CASE log' = Joined(Lines, <<torn>>)
        <5> HIDE DEF torn
        <5>1. <<torn>> \in Seq(LogLine) /\ <<torn>> # <<>>
            BY <3>1
        <5>2. QED
            BY <4>2, <5>1, LinesAreLines, JoinedLines
      <4>3. QED
          BY <2>8, <4>1, <4>2 DEF Crash
    <3>3. env' = [env EXCEPT !.crashes = @ + 1] /\ env \in [edits : Nat, crashes : Nat]
        BY <2>8 DEF TypeOK, Crash
    <3>4. env' \in [edits : Nat, crashes : Nat]
        BY <3>3
    <3>5. pc' \in [Procs -> {"idle", "append", "count", "anchor", "verify"}]
        BY <2>8 DEF TypeOK, Crash, Goto
    <3>6. QED
        BY <2>8, <3>2, <3>4, <3>5 DEF TypeOK, Crash, history
  <2>9. QED
      BY <1>2, <2>1, <2>2, <2>3, <2>4, <2>5, <2>6, <2>7, <2>8 DEF Step
<1>3. CASE EditLog
  <2>1. log' \in Seq(LogLine) \cup {Missing}
      BY <1>3, EditsAreLogs, AuditAssumption DEF TypeOK, EditLog
  <2>2. env' = [env EXCEPT !.edits = @ + 1] /\ env \in [edits : Nat, crashes : Nat]
      BY <1>3 DEF TypeOK, EditLog
  <2>3. env' \in [edits : Nat, crashes : Nat]
      BY <2>2
  <2>4. QED
      BY <1>3, <2>1, <2>3 DEF TypeOK, EditLog, locals, history
<1>4. QED
    BY <1>1, <1>2, <1>3 DEF Next

-----------------------------------------------------------------------------
\* A chain grows by a line that names its head.
LEMMA ChainGrows ==
    ASSUME NEW lines \in Seq(LogLine), NEW b \in Nat, Chained(lines)
    PROVE  LET more == Append(lines, Line(LastHash(lines), b))
           IN  Chained(more) /\ more # <<>> /\ LastHash(more) = Hash(LastHash(lines), b)
<1> DEFINE new == Line(LastHash(lines), b)
           more == Append(lines, new)
<1>1. /\ new \in LogLine /\ new.form = "whole" /\ new.prev = LastHash(lines)
      /\ new.hash = Hash(new.prev, new.body) /\ new.hash = Hash(LastHash(lines), b)
    BY LineType, LastHashType DEF Line
<1> HIDE DEF new
<1>2. /\ more \in Seq(LogLine) /\ Len(more) = Len(lines) + 1 /\ more # <<>>
      /\ \A i \in 1..Len(lines) : more[i] = lines[i]
      /\ more[Len(lines) + 1] = new
    BY <1>1
<1>3. ASSUME NEW i \in DOMAIN more
      PROVE  more[i].form = "whole" /\ more[i].prev = Previous(more, i) /\ more[i].hash = Hash(more[i].prev, more[i].body)
  <2>1. CASE i \in 1..Len(lines)
    <3>1. Previous(more, i) = Previous(lines, i)
        BY <1>2, <2>1 DEF Previous
    <3>2. QED
        BY <1>2, <2>1, <3>1 DEF Chained
  <2>2. CASE i = Len(lines) + 1
    <3>1. Previous(more, i) = LastHash(lines)
        BY <1>2, <2>2 DEF Previous, LastHash, Last
    <3>2. QED
        BY <1>1, <1>2, <2>2, <3>1
  <2>3. QED
      BY <1>2, <2>1, <2>2
<1>4. Chained(more) /\ LastHash(more) = new.hash
    BY <1>2, <1>3 DEF Chained, LastHash, Last
<1>5. QED
    BY <1>1, <1>2, <1>4 DEF new

\* No step of a write, a verification or the outside makes a calm log untidy.
LEMMA TidyStep == ASSUME Inductive, [Next]_vars PROVE Tidy'
<1> USE DEF Inductive
<1>0. SUFFICES ASSUME Calm' PROVE Tidy'
    BY DEF Tidy
<1>1. CASE UNCHANGED vars
    BY <1>1 DEF Tidy, Calm, vars, Lines, Writing
<1>2. CASE EditLog
    BY <1>0, <1>2 DEF EditLog, Calm, TypeOK, history
<1>3. ASSUME NEW p \in Procs, Step(p) PROVE Tidy'
  <2>1. CASE ReadHead(p)
    <3>1. Calm /\ (split' = {} => split = {}) /\ Lines' = Lines /\ anchor' = anchor
        BY <1>0, <2>1 DEF ReadHead, Calm, Lines
    <3>2. /\ \A q \in Procs : ~Writing(q)
          /\ pc' = [pc EXCEPT ![p] = "append"] /\ prev' = [prev EXCEPT ![p] = LastHash(Lines)]
        BY <1>0, <2>1 DEF ReadHead, Goto, Calm
    <3>3. /\ \A q \in Procs : q # p => pc'[q] = pc[q] /\ pc'[q] \notin {"append", "count", "anchor"}
          /\ pc'[p] = "append" /\ prev'[p] = LastHash(Lines)
        BY <3>2 DEF Writing, TypeOK
    <3>4. /\ split' = {} => Chained(Lines)
          /\ \A i \in DOMAIN Lines : Lines[i].form # "torn"
        BY <3>1 DEF Tidy
    <3>5. QED
        BY <3>1, <3>3, <3>4 DEF Tidy, Writing
  <2>2. CASE WriteRaises(p)
      BY <1>0, <2>2 DEF WriteRaises, Tidy, Calm, Lines, Writing, locals
  <2>3. CASE AppendLine(p)
    <3>1. /\ Calm /\ prev[p] = LastHash(Lines) /\ Lines \in Seq(LogLine) /\ body[p] \in Nat
          /\ split' = split /\ \A q \in Procs : q # p => ~Writing(q)
        BY <1>0, <2>3, LinesAreLines DEF AppendLine, Tidy, Calm, TypeOK, Writing
    <3>2. ~Torn(Lines)
        BY <3>1 DEF Torn, Last, Tidy
    <3>3. PICK more \in Seq(LogLine) : more = Pieces(p)
        BY PiecesAre
    <3>4. /\ Len(more) \in Nat \ {0} /\ more # <<>>
          /\ \A i \in 1..Len(more) : more[i].form # "torn" /\ more[i].hash = Hash(prev[p], body[p])
          /\ body[p] \notin split => more = <<Line(prev[p], body[p])>>
        BY <3>3, PiecesAre
    <3>5. log' = Lines \o more /\ log' \in Seq(LogLine)
        BY <2>3, <3>1, <3>2, <3>3, <3>4, JoinedLines DEF AppendLine, Added
    <3>6. Lines' = log'
        BY <3>5, AuditAssumption DEF Lines
    <3>7. /\ Len(Lines') = Len(Lines) + Len(more)
          /\ \A i \in 1..Len(Lines') : Lines'[i] = IF i <= Len(Lines) THEN Lines[i] ELSE more[i - Len(Lines)]
        BY <3>1, <3>5, <3>6, ConcatProperties
    <3>8. /\ Lines' # <<>> /\ Lines' \in Seq(LogLine) /\ LastHash(Lines') = Hash(prev[p], body[p])
          /\ \A i \in DOMAIN Lines' : Lines'[i].form # "torn"
      <4>1. Lines' # <<>> /\ Lines' \in Seq(LogLine) /\ DOMAIN Lines' = 1..Len(Lines')
          BY <3>1, <3>4, <3>5, <3>6, <3>7
      <4>2. Lines'[Len(Lines')] = more[Len(more)]
          BY <3>1, <3>4, <3>7
      <4>3. \A i \in 1..Len(Lines) : Lines[i].form # "torn"
          BY <3>1 DEF Tidy
      <4>4. ASSUME NEW i \in 1..Len(Lines') PROVE Lines'[i].form # "torn"
        <5>1. CASE i <= Len(Lines)
          <6>1. i \in 1..Len(Lines) /\ Lines'[i] = Lines[i]
              BY <3>1, <3>7, <5>1
          <6>2. QED
              BY <4>3, <6>1
        <5>2. CASE ~ (i <= Len(Lines))
          <6>1. i - Len(Lines) \in 1..Len(more) /\ Lines'[i] = more[i - Len(Lines)]
              BY <3>1, <3>4, <3>7, <5>2
          <6>2. QED
              BY <3>4, <6>1
        <5>3. QED
            BY <5>1, <5>2
      <4>5. QED
          BY <3>4, <4>1, <4>2, <4>4 DEF LastHash, Last
    <3>9. ASSUME split' = {} PROVE Chained(Lines')
      <4>1. Chained(Lines) /\ more = <<Line(LastHash(Lines), body[p])>>
          BY <3>1, <3>4, <3>9 DEF Tidy
      <4>2. Line(LastHash(Lines), body[p]) \in LogLine
          BY <3>1, LineType, LastHashType
      <4>3. Lines' = Append(Lines, Line(LastHash(Lines), body[p]))
          BY <3>1, <3>5, <3>6, <4>1, <4>2, OneMore
      <4>4. QED
          BY <3>1, <4>1, <4>3, ChainGrows
    <3>10. /\ pc' = [pc EXCEPT ![p] = "count"] /\ UNCHANGED <<prev, body>>
        BY <2>3 DEF AppendLine, Goto
    <3>11. \A q \in Procs : q # p => pc'[q] \notin {"append", "count", "anchor"}
        BY <3>1, <3>10 DEF Writing, TypeOK
    <3>12. pc'[p] = "count"
        BY <3>10 DEF TypeOK
    <3>13. QED
        BY <3>8, <3>9, <3>10, <3>11, <3>12 DEF Tidy, Writing
  <2>4. CASE CountLines(p)
      BY <1>0, <2>4 DEF CountLines, Goto, Tidy, Calm, Lines, Writing, TypeOK, history
  <2>5. CASE WriteAnchor(p)
    <3>1. Calm /\ seen[p] = Lines /\ Lines # <<>> /\ LastHash(Lines) = Hash(prev[p], body[p])
        BY <1>0, <2>5 DEF WriteAnchor, Tidy, Calm
    <3>2. anchor' = [count |-> Len(Lines), hash |-> LastHash(Lines)] /\ Lines' = Lines
        BY <2>5, <3>1 DEF WriteAnchor, Anchored, NewHead, Lines
    <3>3. anchor' # Missing
      <4>1. anchor' \in Anchor
          BY <2>5, LineType DEF WriteAnchor, Anchored, NewHead, Anchor, TypeOK
      <4>2. QED
          BY <4>1, AuditAssumption
    <3>4. Matches(Lines', anchor')
        BY <3>1, <3>2, <3>3 DEF Matches, LastHash
    <3>5. QED
        BY <2>5, <3>1, <3>2, <3>4 DEF WriteAnchor, Goto, Tidy, Writing, TypeOK, Calm
  <2>6. CASE VerifyLog(p)
    <3>1. Calm /\ split' = split /\ Lines' = Lines /\ anchor' = anchor
        BY <1>0, <2>6 DEF VerifyLog, Calm, Lines, history
    <3>2. /\ \E step \in {"idle", "verify"} : pc' = [pc EXCEPT ![p] = step]
          /\ pc[p] = "idle" /\ prev' = prev /\ body' = body
          /\ \A q \in Procs : q # p => seen'[q] = seen[q]
        BY <2>6 DEF VerifyLog, Return, Goto, TypeOK
    <3>3. \A q \in Procs : /\ pc'[q] \in {"append", "count", "anchor"} <=> pc[q] \in {"append", "count", "anchor"}
                           /\ pc'[q] \in {"append", "count", "anchor"} => pc'[q] = pc[q] /\ seen'[q] = seen[q]
        BY <3>2 DEF TypeOK
    <3>4. /\ split = {} => Chained(Lines)
          /\ \A i \in DOMAIN Lines : Lines[i].form # "torn"
        BY <3>1 DEF Tidy
    <3>5. QED
        BY <3>1, <3>2, <3>3, <3>4 DEF Tidy, Writing
  <2>7. CASE VerifyAnchor(p)
      BY <1>0, <2>7 DEF VerifyAnchor, Return, Goto, Tidy, Calm, Lines, Writing, TypeOK, history
  <2>8. CASE Crash(p)
      BY <1>0, <2>8 DEF Crash, Calm, TypeOK, history
  <2>9. QED
      BY <1>3, <2>1, <2>2, <2>3, <2>4, <2>5, <2>6, <2>7, <2>8 DEF Step
<1>4. QED
    BY <1>1, <1>2, <1>3 DEF Next

LEMMA InitHolds == Init => Inductive
<1> SUFFICES ASSUME Init PROVE Inductive
    OBVIOUS
<1>1. TypeOK
  <2>1. NoHash \in Seq(Nat) /\ <<>> \in Seq(LogLine)
      BY DEF NoHash
  <2>2. env \in [edits : Nat, crashes : Nat] /\ events \in Nat /\ finished \subseteq Nat
      BY DEF Init
  <2>3. QED
      BY <2>1, <2>2 DEF Init, TypeOK
<1>2. Lines = <<>> /\ anchor = Missing /\ \A p \in Procs : pc[p] = "idle"
    BY DEF Init, Lines
<1>3. Tidy
    BY <1>2 DEF Tidy, Chained, Matches, Writing
<1>4. QED
    BY <1>1, <1>3 DEF Inductive

\* Types and the tidy log hold of every behaviour.
THEOREM InductiveInvariant == Spec => []Inductive
<1>1. Inductive /\ [Next]_vars => Inductive'
    BY TypeStep, TidyStep DEF Inductive
<1>2. QED
    BY <1>1, InitHolds, PTL DEF Spec

\* Type correctness.
THEOREM AuditTypes == Spec => []TypeOK
<1>1. Inductive => TypeOK
    BY DEF Inductive
<1>2. QED
    BY <1>1, InductiveInvariant, PTL

\* Writes that come one after another leave a log that verifies against its
\* anchor, for any number of processes and events.
THEOREM SerialWritesVerify == Spec => []SerialVerifies
<1>1. Inductive => SerialVerifies
    BY DEF Inductive, Tidy, Calm, SerialVerifies, Serial, Verifies, Lines
<1>2. QED
    BY <1>1, InductiveInvariant, PTL

-----------------------------------------------------------------------------
(* A verification that returns ok has seen every finished write. *)

Holds(lines, e) == \E i \in DOMAIN lines : lines[i].body = e

\* In calm the log only grows, so a verification has read a prefix of it; what it
\* missed is behind an anchor with a larger count.
Snapshots ==
    Calm =>
        /\ anchor # Missing => anchor.count <= Len(Lines)
        /\ \A e \in finished : Holds(Lines, e)
        /\ \A p \in Procs : pc[p] \in {"count", "anchor"} =>
                Lines # <<>> /\ Lines[Len(Lines)].body = body[p]
        /\ \A p \in Procs : pc[p] = "verify" =>
                /\ Len(seen[p]) <= Len(Lines)
                /\ \A i \in DOMAIN seen[p] : Lines[i] = seen[p][i]
                /\ \A e \in finished :
                        Holds(seen[p], e) \/ (anchor # Missing /\ anchor.count > Len(seen[p]))

LEMMA SnapshotStep == ASSUME Inductive, Snapshots, [Next]_vars PROVE Snapshots'
<1> USE DEF Inductive
<1>0. SUFFICES ASSUME Calm' PROVE Snapshots'
    BY DEF Snapshots
<1>1. CASE UNCHANGED vars
    BY <1>0, <1>1 DEF Snapshots, Calm, vars, Lines
<1>2. CASE EditLog
    BY <1>0, <1>2 DEF EditLog, Calm, TypeOK, history
<1>3. ASSUME NEW p \in Procs, Step(p) PROVE Snapshots'
  <2>0. Lines \in Seq(LogLine) /\ Len(Lines) \in Nat
      BY LinesAreLines
  <2>1. CASE ReadHead(p)
      BY <1>0, <2>1 DEF ReadHead, Goto, Snapshots, Calm, Lines, TypeOK
  <2>2. CASE WriteRaises(p)
      BY <1>0, <2>2 DEF WriteRaises, Snapshots, Calm, Lines, locals
  <2>3. CASE AppendLine(p)
    <3>1. /\ Calm /\ pc' = [pc EXCEPT ![p] = "count"] /\ UNCHANGED <<anchor, body, seen, finished>>
        BY <1>0, <2>3 DEF AppendLine, Goto, Calm
    <3>2. ~Torn(Lines)
        BY <2>0, <3>1 DEF Torn, Last, Tidy
    <3>3. PICK more \in Seq(LogLine) : more = Pieces(p)
        BY PiecesAre
    <3>4. /\ Len(more) \in Nat \ {0} /\ more # <<>>
          /\ \A i \in 1..Len(more) : more[i].body = body[p]
        BY <3>3, PiecesAre
    <3>5. log' = Lines \o more /\ log' \in Seq(LogLine)
        BY <2>0, <2>3, <3>2, <3>3, <3>4, JoinedLines DEF AppendLine, Added
    <3>6. Lines' = log'
        BY <3>5, AuditAssumption DEF Lines
    <3>7. /\ Len(Lines') = Len(Lines) + Len(more) /\ Lines'[Len(Lines')].body = body[p]
          /\ \A i \in 1..Len(Lines) : Lines'[i] = Lines[i]
          /\ DOMAIN Lines = 1..Len(Lines) /\ DOMAIN Lines' = 1..Len(Lines')
      <4>1. /\ Len(Lines') = Len(Lines) + Len(more)
            /\ \A i \in 1..Len(Lines') :
                    Lines'[i] = IF i <= Len(Lines) THEN Lines[i] ELSE more[i - Len(Lines)]
          BY <2>0, <3>5, <3>6, ConcatProperties
      <4>2. Lines'[Len(Lines')] = more[Len(more)]
          BY <2>0, <3>4, <4>1
      <4>3. QED
          BY <2>0, <3>4, <3>5, <3>6, <4>1, <4>2
    <3>8. \A e : Holds(Lines, e) => Holds(Lines', e)
        BY <2>0, <3>7 DEF Holds
    <3>9. /\ anchor' # Missing => anchor'.count <= Len(Lines')
          /\ \A e \in finished' : Holds(Lines', e)
      <4>1. anchor # Missing => anchor.count \in Nat
          BY DEF TypeOK, Anchor
      <4>2. QED
          BY <2>0, <3>1, <3>4, <3>7, <3>8, <4>1 DEF Snapshots
    <3>10. \A q \in Procs : pc'[q] \in {"count", "anchor"} =>
                Lines' # <<>> /\ Lines'[Len(Lines')].body = body'[q]
      <4>1. \A q \in Procs : q # p => ~Writing(q)
          BY <2>3, <3>1 DEF Tidy, Writing, AppendLine
      <4>2. \A q \in Procs : q # p => pc'[q] = pc[q]
          BY <3>1 DEF TypeOK
      <4>3. Lines' # <<>>
          BY <3>4, <3>5, <3>6, <3>7, <2>0
      <4>4. QED
          BY <3>1, <3>7, <4>1, <4>2, <4>3 DEF Writing
    <3>11. ASSUME NEW q \in Procs, pc'[q] = "verify"
           PROVE  /\ Len(seen'[q]) <= Len(Lines')
                  /\ \A i \in DOMAIN seen'[q] : Lines'[i] = seen'[q][i]
                  /\ \A e \in finished' :
                        Holds(seen'[q], e) \/ (anchor' # Missing /\ anchor'.count > Len(seen'[q]))
      <4>1. pc[q] = "verify" /\ seen[q] \in Seq(LogLine) /\ DOMAIN seen[q] = 1..Len(seen[q])
              /\ Len(seen[q]) \in Nat
          BY <3>1, <3>11 DEF TypeOK
      <4>2. QED
          BY <2>0, <3>1, <3>4, <3>7, <4>1 DEF Snapshots
    <3>12. QED
        BY <3>9, <3>10, <3>11 DEF Snapshots
  <2>4. CASE CountLines(p)
      BY <1>0, <2>4 DEF CountLines, Goto, Snapshots, Calm, Lines, TypeOK, history
  <2>5. CASE WriteAnchor(p)
    <3>1. /\ Calm /\ seen[p] = Lines /\ Lines # <<>> /\ Lines[Len(Lines)].body = body[p]
          /\ pc' = [pc EXCEPT ![p] = "idle"] /\ UNCHANGED <<log, seen, body>>
          /\ finished' = finished \cup {body[p]}
        BY <1>0, <2>5 DEF WriteAnchor, Goto, Tidy, Snapshots, Calm
    <3>2. Lines' = Lines /\ anchor' # Missing /\ anchor'.count = Len(Lines)
      <4>1. anchor' = [count |-> Len(Lines), hash |-> Hash(prev[p], body[p])]
          BY <2>5, <3>1 DEF WriteAnchor, Anchored, NewHead
      <4>2. anchor' \in Anchor
          BY <2>0, <4>1, LineType DEF Anchor, TypeOK
      <4>3. QED
          BY <3>1, <4>1, <4>2, AuditAssumption DEF Lines
    <3>3. Holds(Lines, body[p])
      <4>1. Len(Lines) \in DOMAIN Lines
          BY <2>0, <3>1
      <4>2. QED
          BY <3>1, <4>1 DEF Holds
    <3>4. ASSUME NEW q \in Procs, pc'[q] = "verify"
          PROVE  /\ Len(seen'[q]) <= Len(Lines')
                 /\ \A i \in DOMAIN seen'[q] : Lines'[i] = seen'[q][i]
                 /\ \A e \in finished' :
                        Holds(seen'[q], e) \/ (anchor' # Missing /\ anchor'.count > Len(seen'[q]))
      <4>1. /\ pc[q] = "verify" /\ seen'[q] = seen[q] /\ seen[q] \in Seq(LogLine)
            /\ Len(seen[q]) \in Nat /\ DOMAIN seen[q] = 1..Len(seen[q])
          BY <3>1, <3>4 DEF TypeOK
      <4>2. /\ Len(seen[q]) <= Len(Lines)
            /\ \A i \in DOMAIN seen[q] : Lines[i] = seen[q][i]
            /\ \A e \in finished : Holds(seen[q], e) \/ (anchor # Missing /\ anchor.count > Len(seen[q]))
          BY <3>1, <4>1 DEF Snapshots
      <4>3. CASE Len(seen[q]) = Len(Lines)
        <5>1. \A e : Holds(Lines, e) => Holds(seen[q], e)
            BY <2>0, <4>1, <4>2, <4>3 DEF Holds
        <5>2. \A e \in finished' : Holds(Lines, e)
            BY <3>1, <3>3 DEF Snapshots
        <5>3. QED
            BY <3>2, <4>1, <4>2, <5>1, <5>2
      <4>4. CASE Len(seen[q]) < Len(Lines)
          BY <3>2, <4>1, <4>2, <4>4
      <4>5. QED
          BY <2>0, <4>1, <4>2, <4>3, <4>4
    <3>5. \A q \in Procs : pc'[q] \in {"count", "anchor"} => Lines' # <<>> /\ Lines'[Len(Lines')].body = body'[q]
        BY <3>1, <3>2 DEF Snapshots, TypeOK
    <3>6. anchor'.count <= Len(Lines') /\ \A e \in finished' : Holds(Lines', e)
        BY <2>0, <3>1, <3>2, <3>3 DEF Snapshots
    <3>7. QED
        BY <3>4, <3>5, <3>6 DEF Snapshots
  <2>6. CASE VerifyLog(p)
    <3>1. Calm /\ UNCHANGED <<log, anchor, body, finished>> /\ Lines' = Lines
            /\ \A q \in Procs : q # p => pc'[q] = pc[q] /\ seen'[q] = seen[q]
        BY <1>0, <2>6 DEF VerifyLog, Return, Goto, Calm, Lines, TypeOK, history
    <3>2. pc'[p] \in {"idle", "verify"} /\ (pc'[p] = "verify" => seen'[p] = Lines)
        BY <2>6 DEF VerifyLog, Return, Goto, Lines, TypeOK
    <3>3. QED
        BY <2>0, <3>1, <3>2 DEF Snapshots
  <2>7. CASE VerifyAnchor(p)
      BY <1>0, <2>7 DEF VerifyAnchor, Return, Goto, Snapshots, Calm, Lines, TypeOK, history
  <2>8. CASE Crash(p)
      BY <1>0, <2>8 DEF Crash, Calm, TypeOK, history
  <2>9. QED
      BY <1>3, <2>1, <2>2, <2>3, <2>4, <2>5, <2>6, <2>7, <2>8 DEF Step
<1>4. QED
    BY <1>1, <1>2, <1>3 DEF Next

\* verify_integrity reads the log and then the anchor; with writers at work in
\* between it returns ok only if its copy of the log holds every finished write.
THEOREM OkMeansCurrent == Spec => []OkIsCurrent
<1>1. Init => Snapshots
  <2>1. SUFFICES ASSUME Init PROVE Snapshots
      OBVIOUS
  <2>2. anchor = Missing /\ finished = {} /\ \A p \in Procs : pc[p] = "idle"
      BY <2>1 DEF Init
  <2>3. QED
      BY <2>2 DEF Snapshots
<1>2. Inductive /\ Snapshots /\ [Next]_vars => Snapshots'
    BY SnapshotStep
<1>3. Inductive /\ Snapshots => OkIsCurrent
  <2>1. SUFFICES ASSUME Inductive, Snapshots, NEW p \in Procs, pc[p] = "verify", Calm,
                        Matches(seen[p], anchor), NEW e \in finished
                 PROVE  Holds(seen[p], e)
      BY DEF OkIsCurrent, Holds, Calm
  <2>2. ~(anchor # Missing /\ anchor.count > Len(seen[p]))
      BY <2>1 DEF Matches, Inductive, TypeOK
  <2>3. QED
      BY <2>1, <2>2 DEF Snapshots
<1>4. QED
    BY <1>1, <1>2, <1>3, InductiveInvariant, PTL DEF Spec

-----------------------------------------------------------------------------
(* An edited log does not verify, whoever recomputed the hashes. *)

\* A non-empty set of naturals has a least one.
LEMMA LeastExists ==
    ASSUME NEW S \in SUBSET Nat, S # {}
    PROVE  \E m \in S : \A k \in S : m <= k
<1> DEFINE R == {ss \in Nat \X Nat : ss[1] < ss[2]}
<1>1. IsWellFoundedOn(R, Nat)
    BY NatLessThanWellFounded DEF OpToRel
<1>2. PICK m \in S : \A k \in S : ~ (<<k, m>> \in R)
  <2> HIDE DEF R
  <2> QED
      BY <1>1, WFMin
<1>3. ASSUME NEW k \in S PROVE m <= k
  <2>1. m \in Nat /\ k \in Nat /\ ~ (<<k, m>> \in R)
      BY <1>2
  <2>2. ~ (k < m)
      BY <2>1
  <2>3. QED
      BY <2>1, <2>2
<1>4. QED
    BY <1>3

\* A line is its fields.
LEMMA LineFields ==
    ASSUME NEW l \in LogLine
    PROVE  l = [body |-> l.body, prev |-> l.prev, hash |-> l.hash, form |-> l.form]
BY DEF LogLine

\* A hash has one body and one previous hash.
LEMMA SameHash ==
    ASSUME NEW s \in Seq(Nat), NEW t \in Seq(Nat), NEW x \in Nat, NEW y \in Nat,
           Append(s, x) = Append(t, y)
    PROVE  s = t /\ x = y
<1>1. Append(s, x) = Append(t, y) <=> s = t /\ x = y
    BY AppendInjective
<1>2. QED
    BY <1>1

\* Each hash stands for all lines up to its own.
LEMMA SamePredecessors ==
    ASSUME NEW a \in Seq(LogLine), NEW b \in Seq(LogLine), Chained(a), Chained(b),
           NEW i \in DOMAIN a \cap DOMAIN b, a[i].hash = b[i].hash
    PROVE  a[i] = b[i] /\ Previous(a, i) = Previous(b, i)
<1>1. a[i] \in LogLine /\ b[i] \in LogLine
    OBVIOUS
<1>2. /\ a[i].form = "whole" /\ a[i].prev = Previous(a, i) /\ a[i].hash = Append(a[i].prev, a[i].body)
      /\ b[i].form = "whole" /\ b[i].prev = Previous(b, i) /\ b[i].hash = Append(b[i].prev, b[i].body)
    BY DEF Chained, Hash
<1>3. a[i].prev = b[i].prev /\ a[i].body = b[i].body
  <2>1. /\ a[i].prev \in Seq(Nat) /\ b[i].prev \in Seq(Nat)
        /\ a[i].body \in Nat /\ b[i].body \in Nat
      BY <1>1, FieldTypes
  <2>2. Append(a[i].prev, a[i].body) = Append(b[i].prev, b[i].body)
      BY <1>2
  <2> DEFINE s == a[i].prev
             t == b[i].prev
             x == a[i].body
             y == b[i].body
  <2>3. s \in Seq(Nat) /\ t \in Seq(Nat) /\ x \in Nat /\ y \in Nat /\ Append(s, x) = Append(t, y)
      BY <2>1, <2>2
  <2>4. s = t /\ x = y
    <3> HIDE DEF s, t, x, y
    <3> QED
        BY <2>3, SameHash
  <2>5. QED
      BY <2>4
<1>4. a[i].form = b[i].form
    BY <1>2
<1>5. a[i] = b[i]
    BY <1>1, <1>3, <1>4, LineFields
<1>6. QED
    BY <1>2, <1>3, <1>5

\* The hash of a line tells how many there are before it.
LEMMA HashCounts ==
    ASSUME NEW a \in Seq(LogLine), Chained(a), NEW i \in DOMAIN a
    PROVE  Len(a[i].hash) = i
<1> DEFINE S == {n \in DOMAIN a : Len(a[n].hash) # n}
<1>1. SUFFICES ASSUME S # {} PROVE FALSE
    OBVIOUS
<1>2. S \in SUBSET Nat
    OBVIOUS
<1>3. PICK m \in S : \A k \in S : m <= k
  <2> HIDE DEF S
  <2> QED
      BY <1>1, <1>2, LeastExists
<1>4. m \in 1 .. Len(a) /\ Len(a[m].hash) # m
    OBVIOUS
<1>5. /\ a[m].prev = Previous(a, m) /\ a[m].hash = Append(a[m].prev, a[m].body)
    BY <1>4 DEF Chained, Hash
<1>6. a[m].prev \in Seq(Nat) /\ a[m].body \in Nat
    BY <1>4, FieldTypes
<1>7. Len(a[m].hash) = Len(a[m].prev) + 1
    BY <1>5, <1>6, AppendProperties
<1>8. CASE m = 1
  <2>1. a[m].prev = <<>>
      BY <1>5, <1>8 DEF Previous, NoHash
  <2>2. QED
      BY <1>4, <1>7, <1>8, <2>1
<1>9. CASE m # 1
  <2>1. m - 1 \in DOMAIN a /\ m - 1 \notin S
      BY <1>3, <1>4, <1>9
  <2>2. Len(a[m - 1].hash) = m - 1
      BY <2>1
  <2>3. a[m].prev = a[m - 1].hash
      BY <1>5, <1>9 DEF Previous
  <2>4. QED
      BY <1>4, <1>7, <2>2, <2>3
<1>10. QED
    BY <1>8, <1>9

\* Two chains with one head are one log.
LEMMA HeadDeterminesLog ==
    ASSUME NEW a \in Seq(LogLine), NEW b \in Seq(LogLine), Chained(a), Chained(b),
           a # <<>>, b # <<>>, LastHash(a) = LastHash(b)
    PROVE  a = b
<1>1. PICK n \in Nat : n = Len(a) /\ n > 0
    OBVIOUS
<1>2. Len(b) = n /\ a[n].hash = b[n].hash
  <2>1. Len(a) \in DOMAIN a /\ Len(b) \in DOMAIN b
      OBVIOUS
  <2>2. a[Len(a)].hash = b[Len(b)].hash
      BY DEF LastHash, Last
  <2>3. Len(a) = Len(b)
      BY <2>1, <2>2, HashCounts
  <2>4. QED
      BY <1>1, <2>2, <2>3
<1> DEFINE D == {k \in 0 .. (n - 1) : a[n - k] # b[n - k]}
<1>3. D = {}
  <2>1. SUFFICES ASSUME D # {} PROVE FALSE
      OBVIOUS
  <2>2. D \in SUBSET Nat
      OBVIOUS
  <2>3. PICK m \in D : \A k \in D : m <= k
    <3> HIDE DEF D
    <3> QED
        BY <2>1, <2>2, LeastExists
  <2>4. m \in 0 .. (n - 1) /\ a[n - m] # b[n - m]
      OBVIOUS
  <2>5. n - m \in DOMAIN a \cap DOMAIN b
      BY <1>1, <1>2, <2>4
  <2>6. a[n - m].hash = b[n - m].hash
    <3>1. CASE m = 0
        BY <1>2, <3>1
    <3>2. CASE m # 0
      <4>1. m - 1 \in 0 .. (n - 1) /\ m - 1 \notin D /\ n - (m - 1) = n - m + 1
        <5>1. m - 1 \in 0 .. (n - 1) /\ ~ (m <= m - 1) /\ n - (m - 1) = n - m + 1
            BY <1>1, <2>4, <3>2
        <5>2. m - 1 \notin D
          <6> HIDE DEF D
          <6> QED
              BY <2>3, <5>1
        <5>3. QED
            BY <5>1, <5>2
      <4>2. a[n - m + 1] = b[n - m + 1] /\ n - m + 1 \in DOMAIN a \cap DOMAIN b
        <5>1. a[n - (m - 1)] = b[n - (m - 1)]
            BY <4>1
        <5>2. n - m + 1 \in 1 .. n
            BY <2>4, <3>2
        <5>3. QED
            BY <1>1, <1>2, <4>1, <5>1, <5>2
      <4>3. Previous(a, n - m + 1) = Previous(b, n - m + 1)
          BY <4>2, SamePredecessors
      <4>4. n - m + 1 # 1 /\ (n - m + 1) - 1 = n - m
          BY <2>4
      <4>5. QED
          BY <4>3, <4>4 DEF Previous
    <3>3. QED
        BY <3>1, <3>2
  <2>7. QED
      BY <2>4, <2>5, <2>6, SamePredecessors
<1>4. ASSUME NEW i \in 1 .. n PROVE a[i] = b[i]
  <2>1. n - i \in 0 .. (n - 1) /\ n - (n - i) = i
      OBVIOUS
  <2>2. a[n - (n - i)] = b[n - (n - i)]
      BY <1>3, <2>1
  <2>3. QED
      BY <2>1, <2>2
<1>5. QED
    BY <1>1, <1>2, <1>4, SeqEqual

\* Where writes came one after another, whatever was done to the log meanwhile,
\* the anchor names the head the last append left.
Anchoring ==
    ~overlapped /\ env.crashes = 0 =>
        /\ \A p, q \in Procs : Writing(p) /\ Writing(q) => p = q
        /\ \A p \in Procs : pc[p] \in {"count", "anchor"} /\ Chained(left) =>
                left # <<>> /\ LastHash(left) = Hash(prev[p], body[p])
        /\ (\A p \in Procs : ~Writing(p)) /\ Chained(left) =>
                IF anchor = Missing THEN left = <<>>
                ELSE left # <<>> /\ anchor.hash = LastHash(left)

LEMMA AnchoringStep == ASSUME TypeOK, Anchoring, [Next]_vars PROVE Anchoring'
<1>0. SUFFICES ASSUME ~overlapped', env'.crashes = 0 PROVE Anchoring'
    BY DEF Anchoring
<1>1. CASE UNCHANGED vars
    BY <1>1 DEF Anchoring, vars, Writing
<1>2. CASE EditLog
  <2>1. env'.crashes = env.crashes
      BY <1>2 DEF EditLog, TypeOK
  <2>2. QED
      BY <1>2, <2>1 DEF EditLog, Anchoring, locals, history, Writing
<1>3. ASSUME NEW p \in Procs, Step(p) PROVE Anchoring'
  <2>1. CASE ReadHead(p)
      BY <1>0, <2>1 DEF ReadHead, Goto, Anchoring, Writing, TypeOK
  <2>2. CASE WriteRaises(p)
      BY <1>0, <2>2 DEF WriteRaises, Anchoring, Writing, locals
  <2>3. CASE AppendLine(p)
    <3>1. Lines \in Seq(LogLine) /\ Line(prev[p], body[p]) \in LogLine /\ left' = Added(p)
        BY <2>3, LinesAreLines, LineType DEF TypeOK, AppendLine
    <3>2. Chained(left') => left' # <<>> /\ LastHash(left') = Hash(prev[p], body[p])
      <4>1. CASE Torn(Lines)
        <5>1. \E i \in DOMAIN left' : left'[i].form # "whole"
          <6>1. PICK more \in Seq(LogLine) : more = Pieces(p)
              BY PiecesAre
          <6>2. more # <<>> /\ left' = Joined(Lines, more)
              BY <3>1, <6>1, PiecesAre DEF Added
          <6>3. PICK joined \in Seq(LogLine) : joined = Joined(Lines, more)
              BY <3>1, <6>2, JoinedLines
          <6>4. \E i \in DOMAIN joined : joined[i].form # "whole"
              BY <3>1, <4>1, <6>2, <6>3, JoinedLines
          <6>5. QED
              BY <6>2, <6>3, <6>4
        <5>2. QED
            BY <5>1 DEF Chained
      <4>2. CASE ~Torn(Lines)
        <5>1. PICK more \in Seq(LogLine) : more = Pieces(p)
            BY PiecesAre
        <5>2. /\ Len(more) \in Nat \ {0} /\ more # <<>> /\ left' = Lines \o more
              /\ more[Len(more)].hash = Hash(prev[p], body[p])
          <6>1. /\ Len(more) \in Nat \ {0} /\ more # <<>>
                /\ \A i \in 1..Len(more) : more[i].hash = Hash(prev[p], body[p])
              BY <5>1, PiecesAre
          <6>2. left' = Lines \o more
              BY <3>1, <4>2, <5>1, <6>1, JoinedLines DEF Added
          <6>3. Len(more) \in 1..Len(more)
              BY <6>1
          <6>4. QED
              BY <6>1, <6>2, <6>3
        <5>3. left' # <<>> /\ left'[Len(left')] = more[Len(more)]
            BY <3>1, <5>2, ConcatProperties
        <5>4. QED
            BY <5>2, <5>3 DEF LastHash, Last
      <4>3. QED
          BY <4>1, <4>2
    <3>3. /\ pc[p] = "append" /\ pc' = [pc EXCEPT ![p] = "count"]
          /\ prev' = prev /\ body' = body /\ overlapped' = overlapped /\ env' = env
        BY <2>3 DEF AppendLine, Goto
    <3>4. /\ \A q \in Procs : q # p => ~Writing(q) /\ pc'[q] = pc[q]
          /\ pc'[p] = "count"
        BY <1>0, <3>3 DEF Anchoring, Writing, TypeOK
    <3>5. QED
        BY <3>2, <3>3, <3>4 DEF Anchoring, Writing
  <2>4. CASE CountLines(p)
      BY <1>0, <2>4 DEF CountLines, Goto, Anchoring, Writing, TypeOK, history
  <2>5. CASE WriteAnchor(p)
    <3>1. /\ pc[p] = "anchor" /\ pc' = [pc EXCEPT ![p] = "idle"]
          /\ overlapped' = overlapped /\ env' = env /\ left' = left
          /\ anchor' = [count |-> Len(seen[p]), hash |-> Hash(prev[p], body[p])]
        BY <2>5 DEF WriteAnchor, Goto, Anchored, NewHead
    <3>2. \A q \in Procs : ~Writing(q)'
        BY <1>0, <3>1 DEF Anchoring, Writing, TypeOK
    <3>3. anchor' # Missing
      <4>1. Len(seen[p]) \in Nat /\ Hash(prev[p], body[p]) \in Seq(Nat)
          BY LineType DEF TypeOK
      <4>2. anchor' \in Anchor
          BY <3>1, <4>1 DEF Anchor
      <4>3. QED
          BY <4>2, AuditAssumption
    <3>4. Chained(left) => left # <<>> /\ anchor'.hash = LastHash(left)
        BY <1>0, <3>1 DEF Anchoring
    <3>5. \A q \in Procs : pc'[q] \notin {"count", "anchor"}
        BY <3>2 DEF Writing
    <3>6. anchor' # Missing /\ (Chained(left') => left' # <<>> /\ anchor'.hash = LastHash(left'))
        BY <3>1, <3>3, <3>4
    <3>7. \A q, r \in Procs : Writing(q)' /\ Writing(r)' => q = r
        BY <3>2
    <3>8. Chained(left)' => IF anchor' = Missing THEN left' = <<>>
                            ELSE left' # <<>> /\ anchor'.hash = LastHash(left)'
      <4>1. Chained(left)' <=> Chained(left')
          BY DEF Chained
      <4>2. LastHash(left)' = LastHash(left')
          BY DEF LastHash
      <4>3. QED
          BY <3>6, <4>1, <4>2
    <3>9. \A q \in Procs : pc'[q] \in {"count", "anchor"} /\ Chained(left)' =>
                left' # <<>> /\ LastHash(left)' = Hash(prev'[q], body'[q])
        BY <3>5
    <3>10. QED
        BY <3>7, <3>8, <3>9 DEF Anchoring
  <2>6. CASE VerifyLog(p)
    <3>1. \E step \in {"idle", "verify"} : pc' = [pc EXCEPT ![p] = step]
        BY <2>6 DEF VerifyLog, Return, Goto
    <3>2. /\ pc[p] = "idle" /\ anchor' = anchor /\ prev' = prev /\ body' = body
          /\ left' = left /\ overlapped' = overlapped /\ env' = env
        BY <2>6 DEF VerifyLog, history
    <3>3. \A q \in Procs : /\ Writing(q)' <=> Writing(q)
                           /\ pc'[q] \in {"count", "anchor"} <=> pc[q] \in {"count", "anchor"}
        BY <3>1, <3>2 DEF Writing, TypeOK
    <3>4. QED
        BY <1>0, <3>2, <3>3 DEF Anchoring
  <2>7. CASE VerifyAnchor(p)
    <3>1. \E step \in {"idle", "verify"} : pc' = [pc EXCEPT ![p] = step]
        BY <2>7 DEF VerifyAnchor, Return, Goto
    <3>2. /\ pc[p] = "verify" /\ anchor' = anchor /\ prev' = prev /\ body' = body
          /\ left' = left /\ overlapped' = overlapped /\ env' = env
        BY <2>7 DEF VerifyAnchor, history
    <3>3. \A q \in Procs : /\ Writing(q)' <=> Writing(q)
                           /\ pc'[q] \in {"count", "anchor"} <=> pc[q] \in {"count", "anchor"}
        BY <3>1, <3>2 DEF Writing, TypeOK
    <3>4. QED
        BY <1>0, <3>2, <3>3 DEF Anchoring
  <2>8. CASE Crash(p)
      BY <1>0, <2>8 DEF Crash, TypeOK
  <2>9. QED
      BY <1>3, <2>1, <2>2, <2>3, <2>4, <2>5, <2>6, <2>7, <2>8 DEF Step
<1>4. QED
    BY <1>1, <1>2, <1>3 DEF Next

\* audit/logger.py, verify_integrity: after writes that came one after another, a
\* log that is not as the last one left it does not verify, for logs of any
\* length and whatever was done to them, the hashes recomputed or not.
THEOREM EditedLogsFail == Spec => []EditsAreNoticed
<1>1. Init => Anchoring
  <2>1. SUFFICES ASSUME Init PROVE Anchoring
      OBVIOUS
  <2>2. anchor = Missing /\ left = <<>> /\ \A p \in Procs : pc[p] = "idle"
      BY <2>1 DEF Init
  <2>3. QED
      BY <2>2 DEF Anchoring, Writing
<1>2. TypeOK /\ Anchoring /\ [Next]_vars => Anchoring'
    BY AnchoringStep
<1>3. TypeOK /\ Anchoring => EditsAreNoticed
  <2>1. SUFFICES ASSUME TypeOK, Anchoring, Serial, Chained(left), log # Missing, Verifies
                 PROVE  log = left
      BY DEF EditsAreNoticed
  <2>2. /\ log \in Seq(LogLine) /\ left \in Seq(LogLine) /\ Chained(log) /\ Matches(log, anchor)
      BY <2>1 DEF TypeOK, Verifies
  <2>3. IF anchor = Missing THEN left = <<>> ELSE left # <<>> /\ anchor.hash = LastHash(left)
      BY <2>1 DEF Anchoring, Serial
  <2>4. CASE anchor = Missing
      BY <2>2, <2>3, <2>4 DEF Matches
  <2>5. CASE anchor # Missing
    <3>1. log # <<>> /\ left # <<>> /\ LastHash(log) = LastHash(left)
        BY <2>2, <2>3, <2>5 DEF Matches, LastHash
    <3>2. QED
        BY <2>1, <2>2, <3>1, HeadDeterminesLog
  <2>6. QED
      BY <2>4, <2>5
<1>4. QED
    BY <1>1, <1>2, <1>3, AuditTypes, PTL DEF Spec
=============================================================================
