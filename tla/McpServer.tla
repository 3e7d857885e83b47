------------------------------ MODULE McpServer ------------------------------
(***************************************************************************)
(* A background MCP server and the commands that start, stop and restart   *)
(* it (mcp/lifecycle.py).  The only trace of a server is its number in     *)
(* .sac/mcp/<server>.pid; nothing is locked, a command may be killed       *)
(* between any two of its steps, the server may end by itself, and the     *)
(* system gives the number of an ended process to another program.         *)
(***************************************************************************)
EXTENDS Naturals, FiniteSets

CONSTANTS
    Managers,   \* processes that run sac mcp start, stop and restart
    Pids,       \* process numbers
    MaxLifecycles, MaxExits, MaxManagerKills  \* bounds

NoPid == 0

ASSUME ServerAssumption == NoPid \notin Pids

VARIABLES
    process, \* what runs under each number
    pidFile, \* the number in the PID file; a missing or unreadable file is NoPid
    manager, \* what every manager is at, and the number it works with
    \* history, read by the properties only
    tangled, \* two commands ran at once, or one was killed
    lifecycles, exits, managerKills

serverVars == <<process, pidFile, manager, tangled, lifecycles, exits, managerKills>>

\* A deaf server ignores SIGTERM; an ending process has been killed but is still there.
Servers == {"server", "deaf"}
Alive(n) == n # NoPid /\ process[n] # "none"

AtRest == [at |-> "rest", op |-> "none", pid |-> NoPid]

\* The command of manager m takes its next step, with number n.
Goes(m, step, n) == manager' = [manager EXCEPT ![m].at = step, ![m].pid = n]

\* A stop has ended; a restart starts next.
StopEnds(m) ==
    IF manager[m].op = "restart" THEN Goes(m, "look", NoPid)
    ELSE manager' = [manager EXCEPT ![m] = AtRest]

Command(m) ==
    /\ manager[m] = AtRest /\ lifecycles < MaxLifecycles
    /\ lifecycles' = lifecycles + 1
    /\ \E op \in {"start", "stop", "restart"} :
         manager' = [manager EXCEPT ![m] = [at |-> IF op = "start" THEN "look" ELSE "find",
                                            op |-> op, pid |-> NoPid]]
    /\ tangled' = (tangled \/ \E l \in Managers : manager[l] # AtRest)
    /\ UNCHANGED <<process, pidFile, exits, managerKills>>

-----------------------------------------------------------------------------
(* start.                                                                  *)

\* Mutant: start does not look for a running server.
NeverRunning == FALSE

AlreadyRunning == Alive(pidFile)

Look(m) ==
    /\ manager[m].at = "look"
    /\ IF AlreadyRunning THEN manager' = [manager EXCEPT ![m] = AtRest] ELSE Goes(m, "spawn", NoPid)
    /\ UNCHANGED <<process, pidFile, tangled, lifecycles, exits, managerKills>>

Spawn(m) ==
    /\ manager[m].at = "spawn"
    /\ \/ \E n \in Pids, kind \in Servers :
            /\ process[n] = "none"
            /\ process' = [process EXCEPT ![n] = kind]
            /\ Goes(m, "track", n)
       \/ manager' = [manager EXCEPT ![m] = AtRest] /\ UNCHANGED process  \* Popen fails
    /\ UNCHANGED <<pidFile, tangled, lifecycles, exits, managerKills>>

\* _write_pid.
Track(m) ==
    /\ manager[m].at = "track"
    /\ pidFile' = manager[m].pid
    /\ manager' = [manager EXCEPT ![m] = AtRest]
    /\ UNCHANGED <<process, tangled, lifecycles, exits, managerKills>>

-----------------------------------------------------------------------------
(* stop.                                                                   *)

Find(m) ==
    /\ manager[m].at = "find"
    /\ CASE pidFile = NoPid -> StopEnds(m)
         [] pidFile # NoPid /\ ~ Alive(pidFile) -> Goes(m, "forget", pidFile)
         [] OTHER -> Goes(m, "terminate", pidFile)
    /\ UNCHANGED <<process, pidFile, tangled, lifecycles, exits, managerKills>>

\* SIGTERM reaches whatever has the number by now.
Terminate(m) ==
    /\ manager[m].at = "terminate"
    /\ LET n == manager[m].pid IN
       /\ process' = IF process[n] \in {"server", "stranger"}
                     THEN [process EXCEPT ![n] = "ending"] ELSE process
       /\ Goes(m, IF Alive(n) THEN "wait" ELSE "forget", n)
    /\ UNCHANGED <<pidFile, tangled, lifecycles, exits, managerKills>>

\* The process is gone, or the deadline has passed and SIGKILL follows.
WaitEnds(m) ==
    /\ manager[m].at = "wait"
    /\ IF Alive(manager[m].pid)
       THEN /\ process' = [process EXCEPT ![manager[m].pid] = "ending"]
            /\ Goes(m, "killed", manager[m].pid)
       ELSE Goes(m, "forget", manager[m].pid) /\ UNCHANGED process
    /\ UNCHANGED <<pidFile, tangled, lifecycles, exits, managerKills>>

\* _wait_pid_gone: the process is gone or two seconds have passed.
KilledWait(m) ==
    /\ manager[m].at = "killed"
    /\ Goes(m, "forget", manager[m].pid)
    /\ UNCHANGED <<process, pidFile, tangled, lifecycles, exits, managerKills>>

\* _delete_pid, whatever the file says by now.
Forget(m) ==
    /\ manager[m].at = "forget"
    /\ pidFile' = NoPid
    /\ StopEnds(m)
    /\ UNCHANGED <<process, tangled, lifecycles, exits, managerKills>>

-----------------------------------------------------------------------------
(* Signals, the system and other programs.                                 *)

KillManager(m) ==
    /\ manager[m] # AtRest /\ managerKills < MaxManagerKills
    /\ managerKills' = managerKills + 1
    /\ manager' = [manager EXCEPT ![m] = AtRest]
    /\ tangled' = TRUE
    /\ UNCHANGED <<process, pidFile, lifecycles, exits>>

\* A process that was killed goes.
Vanish(n) ==
    /\ process[n] = "ending"
    /\ process' = [process EXCEPT ![n] = "none"]
    /\ UNCHANGED <<pidFile, manager, tangled, lifecycles, exits, managerKills>>

\* A server ends by itself; another program gets a free number, or ends.
ServerExits(n) ==
    /\ process[n] \in Servers \cup {"stranger"}
    /\ exits < MaxExits /\ exits' = exits + 1
    /\ process' = [process EXCEPT ![n] = "none"]
    /\ UNCHANGED <<pidFile, manager, tangled, lifecycles, managerKills>>

Reuse(n) ==
    /\ process[n] = "none"
    /\ exits < MaxExits /\ exits' = exits + 1
    /\ process' = [process EXCEPT ![n] = "stranger"]
    /\ UNCHANGED <<pidFile, manager, tangled, lifecycles, managerKills>>

-----------------------------------------------------------------------------
ServerInit ==
    /\ process = [n \in Pids |-> "none"]
    /\ pidFile = NoPid
    /\ manager = [m \in Managers |-> AtRest]
    /\ tangled = FALSE
    /\ lifecycles = 0 /\ exits = 0 /\ managerKills = 0

Manage(m) ==
    \/ Look(m) \/ Spawn(m) \/ Track(m)
    \/ Find(m) \/ Terminate(m) \/ WaitEnds(m) \/ KilledWait(m) \/ Forget(m)

ServerNext ==
    \/ \E m \in Managers : Command(m) \/ Manage(m) \/ KillManager(m)
    \/ \E n \in Pids : Vanish(n) \/ ServerExits(n) \/ Reuse(n)

\* A command that runs goes on, since each of its waits has a deadline, and the
\* system removes a process that was killed.
ServerFairness ==
    /\ \A m \in Managers : WF_serverVars(Manage(m))
    /\ \A n \in Pids : WF_serverVars(Vanish(n))

ServerSpec == ServerInit /\ [][ServerNext]_serverVars /\ ServerFairness

-----------------------------------------------------------------------------
\* Commands given one after the other keep at most one server, and the PID file
\* leads to it, so that it can be stopped: whatever ended, was started again, or took over a
\* number in between.
OneServer ==
    ~ tangled =>
        /\ Cardinality({n \in Pids : process[n] \in Servers}) <= 1
        /\ \A n \in Pids : process[n] \in Servers =>
             pidFile = n \/ \E m \in Managers : manager[m].at = "track" /\ manager[m].pid = n

\* Every command ends, however deaf the server is and however often the PID file
\* and the numbers change meanwhile; with OneServer, a stop that
\* nothing came in the way of leaves no server.
CommandsEnd == <>[](\A m \in Managers : manager[m] = AtRest)
=============================================================================
