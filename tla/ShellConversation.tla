-------------------------- MODULE ShellConversation --------------------------
(***************************************************************************)
(* The conversations of sac (shell/runtime.py, shell/session.py,           *)
(* agent/conversation.py, cli_session.py).  A terminal holds a copy of one *)
(* manifest, the messages of its conversation and, from the first turn on, *)
(* an agent loop that it makes once and keeps; slash commands change one   *)
(* or another of them.  Messages are numbered in the order of their coming *)
(* and a summary has a line for each of those it was made from; of an      *)
(* older summary among them, that line holds the beginning only.  What a   *)
(* turn does to the agent's session and to the project is in AgentLoop.    *)
(***************************************************************************)
EXTENDS Naturals, Sequences, FiniteSets

CONSTANTS
    Terminals,
    KeptTurns,   \* _MAX_TURNS, 40 in the code
    Batch,       \* _COMPRESS_BATCH, 10 in the code
    LongTalk,    \* _COMPACT_THRESHOLD of native_step, 12 in the code
    LegacyTurns, \* turns of a shell session of an earlier version
    MaxTalks, MaxInputs, MaxToolResults, MaxBad, MaxEnds  \* bounds

Talks == 1..MaxTalks
NoTalk == 0

ASSUME TalkAssumption ==
    /\ {Batch, MaxTalks} \subseteq Nat \ {0}
    /\ {LongTalk, KeptTurns, LegacyTurns} \subseteq Nat
    /\ Batch <= LongTalk /\ LongTalk <= KeptTurns

Window == 2 * KeptTurns  \* what load keeps
Legacy == 1              \* the conversation that the earlier version's session becomes

VARIABLES
    manifest,  \* .sac/sessions/<id>/manifest.json: the mode; nothing is decided by the rest
    latest,    \* .sac/sessions/latest
    file,      \* .sac/sessions/<id>/conversation.jsonl: its messages
    torn,      \* where its last write broke off: "no"where, between "lines" or in a "line"
    desk,      \* the terminals
    mover,     \* the command that takes over the earlier version's session
    \* history, read by the properties only
    said,      \* how many messages a conversation has had
    cut,       \* conversations that were opened with more messages than load keeps
    damaged,   \* ones that were opened with a file whose last write broke off or that
               \* cannot be read, or whose taking over broke off
    shared,    \* conversations that two commands had at once
    inputs, bads, ends

talkVars == <<manifest, latest, file, torn, desk, mover, said, cut, damaged, shared, inputs, bads, ends>>

NoManifest == "none"
NoLoop == [talk |-> NoTalk, plan |-> FALSE, auto |-> FALSE]
ClosedDesk ==
    [at |-> "closed", id |-> NoTalk, held |-> NoManifest, plan |-> FALSE, auto |-> FALSE,
     talk |-> NoTalk, buffer |-> <<>>, loop |-> NoLoop, results |-> 0]

\* at: "no", "opened" once the manifest is saved, "moving"; taken: messages so far.
NoMover == [at |-> "no", taken |-> 0, buffer |-> <<>>]
Moving == mover.at # "no"

Mode(plan) == IF plan THEN "plan" ELSE "build"

\* Somebody but the terminals that are at home here has conversation c.
HeldBeside(here, c) == (\E u \in Terminals \ here : desk[u].id = c) \/ (c = Legacy /\ Moving)

-----------------------------------------------------------------------------
(* The buffer. *)

UserPlaces(s) == {i \in DOMAIN s : s[i].role = "user"}
TurnCount(s) == Cardinality(UserPlaces(s))

\* How many messages a compression takes: up to the user message of the last
\* turn of a batch, whose answer stays.
Boundary(s, force) ==
    IF TurnCount(s) >= Batch
    THEN CHOOSE i \in UserPlaces(s) : Cardinality({j \in UserPlaces(s) : j <= i}) = Batch
    ELSE IF force THEN IF Len(s) < 4 THEN 1 ELSE Len(s) \div 2 ELSE 0

\* made: 0 for a message, 1 for a summary, 2 for one that an older one went into.
Message(role, n, bad) == [role |-> role, made |-> 0, of |-> {n}, bad |-> bad]

\* The messages that messages s have in their own words.
Own(s) == UNION {s[i].of : i \in {j \in DOMAIN s : s[j].made = 0}}

Summary(s) ==
    [role |-> "assistant",
     made |-> IF \E i \in DOMAIN s : s[i].made > 0 THEN 2 ELSE 1,
     of |-> Own(s),
     bad |-> \E i \in DOMAIN s : s[i].bad]

\* Mutant: the summary is built and not inserted.
CompressedAway(s, force) == SubSeq(s, Boundary(s, force) + 1, Len(s))

Compressed(s, force) ==
    LET n == Boundary(s, force)
    IN  IF n = 0 THEN s ELSE <<Summary(SubSeq(s, 1, n))>> \o SubSeq(s, n + 1, Len(s))

Appended(s, m) ==
    LET longer == Append(s, m)
    IN  IF TurnCount(longer) > KeptTurns THEN Compressed(longer, FALSE) ELSE longer

\* A line that was cut, or one with a separator that JSON keeps and splitlines
\* splits at, empties the whole conversation.
Unreadable(c) == torn[c] = "line" \/ \E i \in DOMAIN file[c] : file[c][i].bad

Loaded(c) ==
    IF Unreadable(c) THEN <<>>
    ELSE SubSeq(file[c], IF Len(file[c]) > Window THEN Len(file[c]) - Window + 1 ELSE 1,
                Len(file[c]))

Damaged(c) == Unreadable(c) \/ torn[c] # "no"

-----------------------------------------------------------------------------
(* What the commands have in common. *)

Saves(c, m) ==
    /\ manifest' = [manifest EXCEPT ![c] = m]
    /\ latest' = c

Persists(c, s) ==
    /\ file' = [file EXCEPT ![c] = s]
    /\ torn' = [torn EXCEPT ![c] = "no"]

BreaksOff(c, s) ==
    /\ \E n \in 0..Len(s) : file' = [file EXCEPT ![c] = SubSeq(s, 1, n)]
    /\ \E where \in {"lines", "line"} : torn' = [torn EXCEPT ![c] = where]

Typed == inputs < MaxInputs /\ inputs' = inputs + 1

\* Message n follows messages s of conversation c; its text may hold a separator.
Follows(c, s, role, n) ==
    \E bad \in BOOLEAN :
      /\ bad => bads < MaxBad
      /\ bads' = IF bad THEN bads + 1 ELSE bads
      /\ Persists(c, Appended(s, Message(role, n, bad)))

Says(t, role) ==
    LET c == desk[t].talk
    IN  /\ Follows(c, desk[t].buffer, role, said[c] + 1)
        /\ said' = [said EXCEPT ![c] = @ + 1]

\* Terminal t takes up conversation c with its messages and, for now, no loop.
TakesUp(t, c, m, plan, auto) ==
    /\ Saves(c, m)
    /\ desk' = [desk EXCEPT ![t] =
                  [ClosedDesk EXCEPT !.at = "prompt", !.id = c, !.held = m, !.plan = plan,
                                 !.auto = auto, !.talk = c, !.buffer = Loaded(c)]]
    /\ cut' = IF Len(file[c]) > Window THEN cut \cup {c} ELSE cut
    /\ damaged' = IF Damaged(c) THEN damaged \cup {c} ELSE damaged
    /\ shared' = IF HeldBeside({t}, c) THEN shared \cup {c} ELSE shared
    /\ UNCHANGED <<file, torn, mover, said, bads, ends>>

\* The new manifest of one the terminal holds.
Updates(t, m) == Saves(desk[t].id, m) /\ desk' = [desk EXCEPT ![t].held = m]

Fresh(c) == manifest[c] = NoManifest /\ file[c] = <<>> /\ c # Legacy

-----------------------------------------------------------------------------
(* run_agentic_shell. *)

\* sac, with --resume, --new or the latest conversation; an id that is unknown
\* is taken for a new one.  --mode plan drops --auto-edit and --full-auto.
Open(t, c, plan, auto) ==
    /\ desk[t].at = "closed" /\ Typed
    /\ c = latest \/ Fresh(c) \/ manifest[c] # NoManifest \/ c = Legacy
    /\ plan => ~ auto
    /\ TakesUp(t, c, Mode(plan), plan, auto)

AtPrompt(t) == desk[t].at = "prompt" /\ Typed

\* /exit and the end of the input.
Exit(t) ==
    /\ desk[t].at = "prompt"
    /\ Saves(desk[t].id, desk[t].held)
    /\ desk' = [desk EXCEPT ![t] = ClosedDesk]
    /\ UNCHANGED <<file, torn, mover, said, cut, damaged, shared, inputs, bads, ends>>

\* /new and /clear.
NewTalk(t) ==
    /\ AtPrompt(t)
    /\ \E c \in Talks :
         /\ Fresh(c) /\ \A d \in Talks : Fresh(d) => c <= d
         /\ TakesUp(t, c, Mode(desk[t].plan), desk[t].plan, desk[t].auto)

\* /resume: the mode comes from the conversation.
ResumeTalk(t, c) ==
    /\ AtPrompt(t) /\ manifest[c] # NoManifest
    /\ TakesUp(t, c, manifest[c], manifest[c] = "plan", desk[t].auto)

\* /rename reads the manifest that is on the disk.
Rename(t) ==
    /\ AtPrompt(t)
    /\ Updates(t, manifest[desk[t].id])
    /\ UNCHANGED <<file, torn, mover, said, cut, damaged, shared, bads, ends>>

\* Mutant: /mode keeps the loop.
SetModeOnly(t, plan) ==
    /\ AtPrompt(t)
    /\ Saves(desk[t].id, Mode(plan))
    /\ desk' = [desk EXCEPT ![t] = [@ EXCEPT !.held = Mode(plan), !.plan = plan]]
    /\ UNCHANGED <<file, torn, mover, said, cut, damaged, shared, bads, ends>>

\* /mode plan|build.
SetMode(t, plan) ==
    /\ AtPrompt(t)
    /\ Saves(desk[t].id, Mode(plan))
    /\ desk' = [desk EXCEPT ![t] = [@ EXCEPT !.held = Mode(plan), !.plan = plan, !.loop = NoLoop]]
    /\ UNCHANGED <<file, torn, mover, said, cut, damaged, shared, bads, ends>>

\* /compact.
Compact(t) ==
    /\ AtPrompt(t) /\ Len(desk[t].buffer) > 1
    /\ LET s == Compressed(desk[t].buffer, TRUE)
       IN  Persists(desk[t].talk, s) /\ desk' = [desk EXCEPT ![t].buffer = s]
    /\ UNCHANGED <<manifest, latest, mover, said, cut, damaged, shared, bads, ends>>

\* /continue on an action that waits, and the prompt after a run that stopped for
\* an approval: it is decided, or stays, and the manifest is saved.
Decide(t) ==
    /\ AtPrompt(t)
    /\ Updates(t, desk[t].held)
    /\ UNCHANGED <<file, torn, mover, said, cut, damaged, shared, bads, ends>>

\* A request, or /continue.  A loop that cannot be made is answered by an error.
Request(t) ==
    /\ AtPrompt(t)
    /\ Says(t, "user")
    /\ LET d == desk[t]
       IN  \E made \in BOOLEAN :
             desk' = [desk EXCEPT ![t] =
               [@ EXCEPT !.at = IF made \/ d.loop # NoLoop THEN "running" ELSE "failed",
                         !.buffer = file'[d.talk],
                         !.results = 0,
                         !.loop = IF d.loop # NoLoop THEN d.loop
                                  ELSE IF made
                                  THEN [talk |-> d.id, plan |-> d.plan, auto |-> d.auto /\ ~ d.plan]
                                  ELSE NoLoop]]
    /\ latest' \in {latest, desk[t].id}  \* the first request names the conversation
    /\ UNCHANGED <<manifest, mover, cut, damaged, shared, ends>>

\* A step of the loop compresses a long conversation, by the model or without,
\* and its tools' results are appended.
Summarise(t) ==
    /\ desk[t].at = "running" /\ TurnCount(desk[t].buffer) > LongTalk
    /\ LET s == Compressed(desk[t].buffer, TRUE)
       IN  Persists(desk[t].talk, s) /\ desk' = [desk EXCEPT ![t].buffer = s]
    /\ UNCHANGED <<manifest, latest, mover, said, cut, damaged, shared, inputs, bads, ends>>

ToolResult(t) ==
    /\ desk[t].at = "running" /\ desk[t].results < MaxToolResults
    /\ Says(t, "tool")
    /\ desk' = [desk EXCEPT ![t] =
                  [@ EXCEPT !.results = desk[t].results + 1, !.buffer = file'[desk[t].talk]]]
    /\ UNCHANGED <<manifest, latest, mover, cut, damaged, shared, inputs, ends>>

\* The run ends with an answer, or by Ctrl-C, which is noted as one.
Answer(t) ==
    /\ desk[t].at = "running"
    /\ Says(t, "assistant")
    /\ Saves(desk[t].id, desk[t].held)
    /\ desk' = [desk EXCEPT ![t] = [@ EXCEPT !.at = "prompt", !.buffer = file'[desk[t].talk]]]
    /\ UNCHANGED <<mover, cut, damaged, shared, inputs, ends>>

\* A loop that could not be made, and a run that raised ValueError or FileNotFoundError.
Fail(t) ==
    /\ desk[t].at \in {"running", "failed"}
    /\ Says(t, "assistant")
    /\ desk' = [desk EXCEPT ![t] = [@ EXCEPT !.at = "prompt", !.buffer = file'[desk[t].talk]]]
    /\ UNCHANGED <<manifest, latest, mover, cut, damaged, shared, inputs, ends>>

\* Any other exception, the end of a one-shot run, a kill ...
Leave(t) ==
    /\ desk[t].at # "closed" /\ ends < MaxEnds /\ ends' = ends + 1
    /\ desk' = [desk EXCEPT ![t] = ClosedDesk]
    /\ UNCHANGED <<manifest, latest, file, torn, mover, said, cut, damaged, shared, inputs, bads>>

\* ... and a kill while the messages are written in place, or a full disk, of
\* which nobody is told.
WriteBreaks(t) ==
    LET c == desk[t].talk
    IN  /\ desk[t].at # "closed" /\ ends < MaxEnds /\ ends' = ends + 1
        /\ BreaksOff(c, desk[t].buffer)
        /\ \E killed \in BOOLEAN : desk' = IF killed THEN [desk EXCEPT ![t] = ClosedDesk] ELSE desk
        /\ UNCHANGED <<manifest, latest, mover, said, cut, damaged, shared, inputs, bads>>

-----------------------------------------------------------------------------
(* sac session. *)

\* resume selects a conversation.
Select(c) ==
    /\ Typed /\ manifest[c] # NoManifest
    /\ Saves(c, manifest[c])
    /\ shared' = IF HeldBeside({}, c) THEN shared \cup {c} ELSE shared
    /\ UNCHANGED <<file, torn, desk, mover, said, cut, damaged, bads, ends>>

\* list, show, stats and export take over a session of an earlier version: they save
\* the manifest, with which nobody will do it again, ...
StartMoving ==
    /\ Typed /\ ~ Moving /\ manifest[Legacy] = NoManifest /\ LegacyTurns > 0
    /\ Saves(Legacy, Mode(FALSE))
    /\ mover' = [NoMover EXCEPT !.at = "opened"]
    /\ said' = [said EXCEPT ![Legacy] = 2 * LegacyTurns]
    /\ UNCHANGED <<file, torn, desk, cut, damaged, shared, bads, ends>>

\* ... load the messages, where there are none yet, ...
LookForMessages ==
    /\ mover.at = "opened"
    /\ mover' = IF Loaded(Legacy) = <<>> THEN [mover EXCEPT !.at = "moving"] ELSE NoMover
    /\ UNCHANGED <<manifest, latest, file, torn, desk, said, cut, damaged, shared, inputs, bads, ends>>

\* ... and append the turns, a request and an answer each.
MoveMessage ==
    LET n == mover.taken + 1
    IN  /\ mover.at = "moving" /\ n <= 2 * LegacyTurns
        /\ Follows(Legacy, mover.buffer, IF n % 2 = 1 THEN "user" ELSE "assistant", n)
        /\ mover' = [mover EXCEPT !.taken = n, !.buffer = file'[Legacy]]
        /\ UNCHANGED <<manifest, latest, desk, said, cut, damaged, shared, inputs, ends>>

AllMoved ==
    /\ mover.at = "moving" /\ mover.taken = 2 * LegacyTurns
    /\ mover' = NoMover
    /\ UNCHANGED <<manifest, latest, file, torn, desk, said, cut, damaged, shared, inputs, bads, ends>>

\* A kill, or an error other than of the file: what was not appended yet is never
\* taken over.  A full disk, of which nobody is told, or a kill during a write.
MovingBreaks ==
    /\ Moving /\ ends < MaxEnds /\ ends' = ends + 1
    /\ \E killed \in BOOLEAN :
         /\ mover' = IF killed THEN NoMover ELSE mover
         /\ damaged' = IF killed THEN damaged \cup {Legacy} ELSE damaged
         /\ \/ killed /\ UNCHANGED <<file, torn>>
            \/ mover.at = "moving" /\ BreaksOff(Legacy, mover.buffer)
    /\ UNCHANGED <<manifest, latest, desk, said, cut, shared, inputs, bads>>

TalkInit ==
    /\ manifest = [c \in Talks |-> NoManifest] /\ latest = NoTalk
    /\ file = [c \in Talks |-> <<>>] /\ torn = [c \in Talks |-> "no"]
    /\ desk = [t \in Terminals |-> ClosedDesk]
    /\ mover = NoMover
    /\ said = [c \in Talks |-> 0] /\ cut = {} /\ damaged = {} /\ shared = {}
    /\ inputs = 0 /\ bads = 0 /\ ends = 0

TalkNext ==
    \/ \E t \in Terminals :
         \/ \E c \in Talks, plan, auto \in BOOLEAN : Open(t, c, plan, auto)
         \/ Exit(t) \/ NewTalk(t) \/ Rename(t) \/ Compact(t)
         \/ \E c \in Talks : ResumeTalk(t, c)
         \/ \E plan \in BOOLEAN : SetMode(t, plan)
         \/ Decide(t) \/ Request(t) \/ Summarise(t) \/ ToolResult(t) \/ Answer(t) \/ Fail(t)
         \/ Leave(t) \/ WriteBreaks(t)
    \/ \E c \in Talks : Select(c)
    \/ StartMoving \/ LookForMessages \/ MoveMessage \/ AllMoved \/ MovingBreaks

TalkSpec == TalkInit /\ [][TalkNext]_talkVars

-----------------------------------------------------------------------------
\* A turn runs in the conversation that its terminal shows and in the mode that
\* was chosen for it: whatever commands came before, the loop, the messages and
\* the manifest belong together, so in plan mode no loop may write.
TurnsFollowTheConversation ==
    \A t \in Terminals :
        LET d == desk[t]
        IN  d.at = "running" /\ d.id \notin shared =>
              /\ d.talk = d.id
              /\ d.loop = [talk |-> d.id, plan |-> d.held = "plan",
                           auto |-> d.auto /\ d.held # "plan"]

\* Through compressions, tools' results, interruptions, errors and restarts, what a
\* conversation has of what was said in it is there once and in its order, and from
\* some message on, in its own words or with a line in a summary, without a gap.
\* That message is the first one, unless an older summary went into the summary or
\* load dropped the start.  Left out are conversations that two commands had at once
\* and those that were opened damaged.
NothingForgotten ==
    \A c \in Talks \ (damaged \cup shared) :
        LET s == file[c]
            told == UNION {s[i].of : i \in DOMAIN s}
        IN  torn[c] = "no" /\ ~ (c = Legacy /\ Moving) =>
              /\ \E n \in 1..(said[c] + 1) : told = n..said[c] /\ (said[c] > 0 => n <= said[c])
              /\ c \in cut \/ (s # <<>> /\ s[1].made = 2) \/ told = 1..said[c]
              /\ \A i, j \in DOMAIN s : i < j => \A m \in s[i].of, n \in s[j].of : m < n
=============================================================================
