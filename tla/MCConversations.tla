-------------------------- MODULE MCConversations --------------------------
(***************************************************************************)
(* Turns of the agent loop, and the conversations that the shell runs such *)
(* turns in.  They share no state, so a behaviour is one of one of them,   *)
(* and every property is about one.                                        *)
(***************************************************************************)
EXTENDS MCAgentLoop, ShellConversation

VARIABLE part  \* what the behaviour is one of

conversationVars == <<part, vars, talkVars>>

ConversationsInit ==
    /\ part \in {"loop", "shell"}
    /\ Init /\ TalkInit
    /\ part # "loop" => ~ scoped /\ mode = {"auto_edit"}

\* Every shell was left, the user opens none and no command is at work.
NobodyWorks ==
    part = "shell" /\ mover = NoMover /\ \A t \in Terminals : desk[t] = ClosedDesk

\* A second patch comes in the last step of a run, or outside it.
ConversationsNext ==
    /\ UNCHANGED part
    /\ \/ part = "loop" /\ Next /\ patches' + left' <= 3 /\ UNCHANGED talkVars
       \/ part = "shell" /\ TalkNext /\ UNCHANGED vars
       \/ NobodyWorks /\ UNCHANGED <<vars, talkVars>>

ConversationsSpec == ConversationsInit /\ [][ConversationsNext]_conversationVars
=============================================================================
