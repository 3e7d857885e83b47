------------------------------ MODULE StdioCall ------------------------------
(***************************************************************************)
(* One MCP call over stdio (call_stdio in mcp/transport_stdio.py): it      *)
(* starts the server as a child, writes the request, lets a thread read    *)
(* the child's stdout, and waits.  The child is any program: it may not    *)
(* read, write too much, write something else, stop in the middle, close   *)
(* its output and stay, or leave its output open to a child of its own.    *)
(* What fills its stderr can only make it stop.                            *)
(***************************************************************************)
EXTENDS Naturals

CONSTANTS MaxOutput,  \* max_output_bytes, in pieces
          MaxPieces   \* bound: the pieces a child writes

ASSUME CallAssumption == MaxOutput \in Nat \ {0}

VARIABLES
    caller,  \* what call_stdio is at
    result,  \* what it returns
    large,   \* the request is larger than a pipe
    child,   \* "none", "up" or "gone"
    took,    \* the child has read the request
    holders, \* who holds the child's stdout open
    wrote,   \* the pieces the child has written
    got,     \* and those the thread has read
    first,   \* what the first line is
    thread   \* the stdout thread: "off", "reads", "done" or "over" the limit

callVars == <<caller, result, large, child, took, holders, wrote, got, first, thread>>
childVars == <<took, wrote, first>>

Lines == {"answer", "error", "other"}

\* The child is killed, or has ended; what it started itself lives on.
ChildEnds == child' = "gone" /\ holders' = holders \ {"child"}

Return(r) == caller' = "returned" /\ result' = r

-----------------------------------------------------------------------------
Popen ==
    /\ caller = "start"
    /\ \/ /\ child' = "up" /\ holders' = {"child"}
          /\ caller' = "write" /\ UNCHANGED result
       \/ Return("failed") /\ UNCHANGED <<child, holders>>
    /\ UNCHANGED <<large, childVars, got, thread>>

\* The write of a request that is larger than a pipe waits for the child, with
\* no deadline; a child that is gone breaks it.
WriteRequest ==
    /\ caller = "write"
    /\ \/ /\ child = "up" /\ (large => took)
          /\ caller' = "join" /\ thread' = "reads"
          /\ UNCHANGED <<result, child, holders>>
       \/ child = "gone" /\ Return("failed") /\ UNCHANGED <<child, holders, thread>>
    /\ UNCHANGED <<large, childVars, got>>

\* _read_stdout.
ReadPiece ==
    /\ thread = "reads"
    /\ IF got < wrote
       THEN /\ got' = got + 1
            /\ thread' = IF got' > MaxOutput THEN "over" ELSE "reads"
       ELSE holders = {} /\ thread' = "done" /\ UNCHANGED got
    /\ UNCHANGED <<caller, result, large, child, holders, childVars>>

\* Mutant: the thread is joined without a deadline.
JoinThread ==
    /\ caller = "join" /\ thread # "reads"
    /\ IF thread = "over" THEN ChildEnds /\ Return("overflow")
                          ELSE caller' = "reap" /\ UNCHANGED <<result, child, holders>>
    /\ UNCHANGED <<large, childVars, got, thread>>

\* The thread has ended, or the deadline has passed; a child that is still
\* writing is killed.
JoinEnds ==
    /\ caller = "join"
    /\ CASE thread = "reads" -> ChildEnds /\ Return("timeout")
         [] thread = "over" -> ChildEnds /\ Return("overflow")
         [] thread = "done" -> caller' = "reap" /\ UNCHANGED <<result, child, holders>>
    /\ UNCHANGED <<large, childVars, got, thread>>

\* The child has ended, or is killed after two seconds; then its first line is read.
Reap ==
    /\ caller = "reap"
    /\ ChildEnds
    /\ Return(IF got = 0 THEN "silent"
              ELSE CASE first = "other" -> "refused"
                     [] first = "error" -> "error"
                     [] first = "answer" -> "success")
    /\ UNCHANGED <<large, childVars, got, thread>>

-----------------------------------------------------------------------------
(* The child.                                                              *)

ReadRequest ==
    /\ child = "up" /\ ~ took
    /\ caller = "write" => large
    /\ took' = TRUE
    /\ UNCHANGED <<caller, result, large, child, holders, wrote, got, first, thread>>

WritePiece ==
    /\ holders # {} /\ wrote < MaxPieces
    /\ wrote' = wrote + 1
    /\ first' \in (IF wrote = 0 THEN Lines ELSE {first})
    /\ UNCHANGED <<caller, result, large, child, took, holders, got, thread>>

\* The child's stdout goes to a child of its own as well.
Inherit ==
    /\ child = "up" /\ holders = {"child"}
    /\ holders' = {"child", "grandchild"}
    /\ UNCHANGED <<caller, result, large, child, childVars, got, thread>>

CloseStdout ==
    /\ \E h \in holders : holders' = holders \ {h}
    /\ UNCHANGED <<caller, result, large, child, childVars, got, thread>>

Exit ==
    /\ child = "up" /\ ChildEnds
    /\ UNCHANGED <<caller, result, large, childVars, got, thread>>

-----------------------------------------------------------------------------
CallInit ==
    /\ caller = "start" /\ result = "none"
    /\ large \in BOOLEAN
    /\ child = "none" /\ took = FALSE /\ holders = {}
    /\ wrote = 0 /\ got = 0 /\ first = "other"
    /\ thread = "off"

Call == WriteRequest \/ JoinEnds \/ Reap

CallNext ==
    \/ Popen \/ Call \/ ReadPiece
    \/ ReadRequest \/ WritePiece \/ Inherit \/ CloseStdout \/ Exit

\* A call that has begun and its thread run on; of the child nothing is known.
CallFairness == WF_callVars(Call) /\ WF_callVars(ReadPiece)

CallSpec == CallInit /\ [][CallNext]_callVars /\ CallFairness

-----------------------------------------------------------------------------
\* A call ends and leaves no child behind, whatever the child does, with one exception: a
\* request that is larger than a pipe and that the child does not read is
\* waited for without a deadline.
CallEnds ==
    \/ <>[](caller = "start" \/ (caller = "returned" /\ child # "up"))
    \/ <>[](caller = "write" /\ large /\ child = "up" /\ ~ took)
=============================================================================
