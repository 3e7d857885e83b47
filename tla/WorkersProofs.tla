---------------------------- MODULE WorkersProofs ----------------------------
(***************************************************************************)
(* Theorems about McpServer, for any number of commands and process        *)
(* numbers, about SubagentPool, for any number of requests, threads and    *)
(* terminals, and about StdioCall, for any limit and any child.           *)
(***************************************************************************)
EXTENDS SubagentPool, McpServer, StdioCall, FiniteSetTheorems, TLAPS

-----------------------------------------------------------------------------
(* McpServer: what a command knows of the servers at each of its steps, as *)
(* long as nobody else was at work.                                        *)

\* Every variable has its type.
ServerTypeOK ==
    /\ process \in [Pids -> {"none", "server", "deaf", "stranger", "ending"}]
    /\ pidFile \in Pids \cup {NoPid}
    /\ manager \in [Managers ->
         [at : {"rest", "look", "spawn", "track", "find", "terminate", "wait", "killed", "forget"},
          op : {"none", "start", "stop", "restart"}, pid : Pids \cup {NoPid}]]
    /\ tangled \in BOOLEAN
    /\ lifecycles \in Nat /\ exits \in Nat /\ managerKills \in Nat

Running == {n \in Pids : process[n] \in Servers}

\* One command is at work at a time; when it starts a server, or removes the PID
\* file, no other server runs; while it stops one, that is the one of the file.
OneCommand ==
    /\ \A l, m \in Managers : l # m => manager[l] = AtRest \/ manager[m] = AtRest
    /\ \A m \in Managers :
         /\ manager[m].at \in {"spawn", "killed", "forget"} => Running = {}
         /\ manager[m].at = "track" => Running \subseteq {manager[m].pid}
         /\ manager[m].at \in {"terminate", "wait"} => manager[m].pid = pidFile

\* The PID file leads to every server, or the command that started it will see to it.
Tracked ==
    \A n \in Running : pidFile = n \/ \E m \in Managers : manager[m].at = "track" /\ manager[m].pid = n

ServerInductive == ServerTypeOK /\ (~ tangled => OneCommand /\ Tracked)

-----------------------------------------------------------------------------
(* SubagentPool: what a runner's step says of its task and its answer.     *)

\* Every variable has its type.
PoolTypeOK ==
    /\ taken \in 0..MaxRequests
    /\ answer \in [Requests -> Outcomes]
    /\ cancelled \in BOOLEAN
    /\ parent \in {"before", "waits", "returned"}
    /\ status \in [Requests -> {"none", "pending", "running", "failed", "completed"}]
    /\ report \subseteq Requests
    /\ runner \in [Runners -> [at : {"idle", "create", "created", "running", "written"},
                               task : Requests \cup {NoTask}]]
    /\ late \subseteq Requests /\ overlapped \subseteq Requests
    /\ takeUps \in Nat /\ failures \in Nat

\* A runner at work has a request that was taken, and its files are as its step says.
Busy ==
    \A w \in Runners :
        /\ IF runner[w].at = "idle" THEN runner[w] = Idle ELSE runner[w].task \in 1..taken
        /\ runner[w].at = "create" => w \in Workers /\ status[runner[w].task] = "none"
        /\ runner[w].at \in {"created", "running", "written"} => status[runner[w].task] # "none"
        /\ runner[w].at = "written" => runner[w].task \in report

\* A thread at work owes the answer to a request of its own.
Owed ==
    /\ \A w \in Workers : runner[w].at # "idle" =>
         /\ answer[runner[w].task] = "none"
         /\ \A v \in Workers \ {w} : runner[v].task # runner[w].task
    /\ \A r \in Requests :
         /\ answer[r] # "none" \/ status[r] # "none" => r <= taken
         /\ answer[r] = "success" => r \in report
    /\ parent = "returned" => AllDone

\* A task that two runners have is in overlapped.
Met ==
    \A v, w \in Runners :
        v # w /\ runner[v].task = runner[w].task /\ runner[w].task # NoTask
            => runner[w].task \in overlapped

\* A task with a result was begun, a completed one has a result, and one that only
\* one runner had at a time goes on as long as no audit fails.
Files ==
    /\ \A t \in Requests :
         /\ t \in report => status[t] # "none"
         /\ status[t] = "completed" => t \in report
    /\ \A w \in Runners :
         runner[w].at = "running" /\ runner[w].task \notin overlapped
             => status[runner[w].task] = "running"
    /\ failures = 0 => \A t \in Requests \ overlapped :
         /\ status[t] \in {"pending", "running"} => \E w \in Runners : runner[w].task = t
         /\ t \in report => \/ status[t] = "completed"
                            \/ \E w \in Runners : runner[w] = [at |-> "written", task |-> t]

\* After the cancellation only the threads about to create a task still do.
Creators == {w \in Workers : runner[w].at = "create"}

LateOnes ==
    /\ IsFiniteSet(late)
    /\ ~ cancelled => late = {}
    /\ Cardinality(late) + Cardinality(Creators) <= Cardinality(Workers)

PoolInductive == PoolTypeOK /\ Busy /\ Owed /\ Met /\ Files /\ LateOnes

-----------------------------------------------------------------------------
(* Proofs about McpServer.                                                 *)

\* A manager's record is one, whatever step it goes to.
LEMMA ManagerTypes ==
    ASSUME ServerTypeOK, NEW m \in Managers, NEW n \in Pids \cup {NoPid},
           NEW step \in {"rest", "look", "spawn", "track", "find", "terminate", "wait", "killed",
                         "forget"},
           manager' = [manager EXCEPT ![m].at = step, ![m].pid = n]
               \/ manager' = [manager EXCEPT ![m] = AtRest]
    PROVE  manager' \in [Managers ->
             [at : {"rest", "look", "spawn", "track", "find", "terminate", "wait", "killed", "forget"},
              op : {"none", "start", "stop", "restart"}, pid : Pids \cup {NoPid}]]
BY DEF ServerTypeOK, AtRest

\* Types are kept by every step.
LEMMA ServerTypeStep == ASSUME ServerTypeOK, [ServerNext]_serverVars PROVE ServerTypeOK'
<1>1. CASE UNCHANGED serverVars
    BY <1>1 DEF ServerTypeOK, serverVars
<1>2. ASSUME NEW m \in Managers, Command(m) PROVE ServerTypeOK'
  <2>1. PICK op \in {"start", "stop", "restart"} :
           manager' = [manager EXCEPT ![m] = [at |-> IF op = "start" THEN "look" ELSE "find",
                                              op |-> op, pid |-> NoPid]]
      BY <1>2 DEF Command
  <2>2. QED
      BY <1>2, <2>1 DEF ServerTypeOK, Command
<1>3. ASSUME NEW m \in Managers, Manage(m) PROVE ServerTypeOK'
  <2> manager[m].pid \in Pids \cup {NoPid}
      BY DEF ServerTypeOK
  <2>1. CASE Look(m)
      BY <2>1, ManagerTypes DEF ServerTypeOK, Look, Goes, StopEnds, Servers
  <2>2. CASE Spawn(m)
      BY <2>2, ManagerTypes DEF ServerTypeOK, Spawn, Goes, StopEnds, Servers
  <2>3. CASE Track(m)
      BY <2>3, ManagerTypes DEF ServerTypeOK, Track, Goes, StopEnds, Servers
  <2>4. CASE Find(m)
      BY <2>4, ManagerTypes DEF ServerTypeOK, Find, Goes, StopEnds, Servers
  <2>5. CASE Terminate(m)
      BY <2>5, ManagerTypes DEF ServerTypeOK, Terminate, Goes, StopEnds, Servers
  <2>6. CASE WaitEnds(m)
      BY <2>6, ManagerTypes DEF ServerTypeOK, WaitEnds, Goes, StopEnds, Servers
  <2>7. CASE KilledWait(m)
      BY <2>7, ManagerTypes DEF ServerTypeOK, KilledWait, Goes, StopEnds, Servers
  <2>8. CASE Forget(m)
      BY <2>8, ManagerTypes DEF ServerTypeOK, Forget, Goes, StopEnds, Servers
  <2>9. QED
      BY <1>3, <2>1, <2>2, <2>3, <2>4, <2>5, <2>6, <2>7, <2>8 DEF Manage
<1>4. ASSUME NEW m \in Managers, KillManager(m) PROVE ServerTypeOK'
    BY <1>4 DEF ServerTypeOK, KillManager, AtRest
<1>5. ASSUME NEW n \in Pids, Vanish(n) \/ ServerExits(n) \/ Reuse(n) PROVE ServerTypeOK'
    BY <1>5 DEF ServerTypeOK, Vanish, ServerExits, Reuse
<1>6. QED
    BY <1>1, <1>2, <1>3, <1>4, <1>5 DEF ServerNext

\* Every step of a command.
LEMMA ManageStep ==
    ASSUME ServerTypeOK, OneCommand, Tracked, NEW m \in Managers, Manage(m)
    PROVE  OneCommand' /\ Tracked'
<1>1. /\ manager[m].at # "rest" /\ tangled' = tangled
      /\ \A l \in Managers : l # m => manager[l] = AtRest /\ manager'[l] = AtRest
  <2>1. manager[m].at # "rest"
      BY DEF Manage, Look, Spawn, Track, Find, Terminate, WaitEnds, KilledWait, Forget
  <2>2. \A l \in Managers : l # m => manager[l] = AtRest
      BY <2>1 DEF OneCommand, AtRest
  <2>3. \A l \in Managers : l # m => manager'[l] = manager[l]
      BY DEF ServerTypeOK, Manage, Look, Spawn, Track, Find, Terminate, WaitEnds, KilledWait,
         Forget,
             Goes, StopEnds
  <2>4. QED
      BY <2>1, <2>2, <2>3
         DEF Manage, Look, Spawn, Track, Find, Terminate, WaitEnds, KilledWait, Forget
<1>2. SUFFICES
        /\ manager'[m].at \in {"spawn", "killed", "forget"} => Running' = {}
        /\ manager'[m].at = "track" => Running' \subseteq {manager'[m].pid}
        /\ manager'[m].at \in {"terminate", "wait"} => manager'[m].pid = pidFile'
        /\ \A n \in Running' : pidFile' = n \/ (manager'[m].at = "track" /\ manager'[m].pid = n)
    BY <1>1 DEF OneCommand, Tracked, AtRest
<1>3. \A n \in Running : pidFile = n \/ (manager[m].at = "track" /\ manager[m].pid = n)
  <2>1. \A l \in Managers : l # m => manager[l].at # "track"
      BY <1>1 DEF AtRest
  <2>2. QED
      BY <2>1 DEF Tracked
<1>4. \A k \in Pids : process[k] # "none" => Alive(k)
    BY ServerAssumption DEF Alive
<1> USE DEF ServerTypeOK, OneCommand, Running, Servers, Goes, StopEnds, AtRest
<1>5. CASE Look(m)
  <2>1. UNCHANGED <<process, pidFile>> /\ Running' = Running /\ manager[m].at = "look"
      BY <1>5 DEF Look
  <2>2. CASE AlreadyRunning
    <3>1. manager'[m].at = "rest"
        BY <1>5, <2>2 DEF Look
    <3>2. QED
        BY <1>3, <2>1, <3>1
  <2>3. CASE ~ AlreadyRunning
    <3>1. manager'[m].at = "spawn"
        BY <1>5, <2>3 DEF Look
    <3>2. Running = {}
        BY <1>3, <1>4, <2>1, <2>3 DEF AlreadyRunning
    <3>3. QED
        BY <2>1, <3>1, <3>2
  <2>4. QED
      BY <2>2, <2>3
<1>6. CASE Spawn(m)
    BY <1>6, <1>1, <1>3, <1>4 DEF Spawn
<1>7. CASE Track(m)
  <2>1. /\ manager[m].at = "track" /\ pidFile' = manager[m].pid /\ manager'[m].at = "rest"
        /\ Running' = Running
      BY <1>7 DEF Track
  <2>2. Running \subseteq {manager[m].pid}
      BY <2>1
  <2>3. QED
      BY <2>1, <2>2
<1>8. CASE Find(m)
    BY <1>8, <1>1, <1>3, <1>4 DEF Find, Alive
<1>9. CASE Terminate(m)
    BY <1>9, <1>1, <1>3, <1>4 DEF Terminate, Alive
<1>10. CASE WaitEnds(m)
    BY <1>10, <1>1, <1>3, <1>4 DEF WaitEnds, Alive
<1>11. CASE KilledWait(m)
    BY <1>11, <1>1, <1>3, <1>4 DEF KilledWait
<1>12. CASE Forget(m)
    BY <1>12, <1>1, <1>3, <1>4 DEF Forget
<1>13. QED
    BY <1>5, <1>6, <1>7, <1>8, <1>9, <1>10, <1>11, <1>12 DEF Manage

\* Steps of the system and of other programs.
LEMMA SystemStep ==
    ASSUME ServerTypeOK, OneCommand, Tracked, NEW n \in Pids, Vanish(n) \/ ServerExits(n) \/ Reuse(n)
    PROVE  OneCommand' /\ Tracked'
<1>1. UNCHANGED <<pidFile, manager>> /\ Running' \subseteq Running
    BY DEF ServerTypeOK, Vanish, ServerExits, Reuse, Running, Servers
<1>2. QED
    BY <1>1 DEF OneCommand, Tracked

LEMMA ServerInitInductive == ServerInit => ServerInductive
<1> SUFFICES ASSUME ServerInit PROVE ServerInductive
    OBVIOUS
<1>1. ServerTypeOK
    BY DEF ServerInit, ServerTypeOK, AtRest
<1>2. Running = {}
    BY DEF ServerInit, Running, Servers
<1>3. OneCommand /\ Tracked
    BY <1>2 DEF ServerInit, OneCommand, Tracked, AtRest
<1>4. QED
    BY <1>1, <1>3 DEF ServerInductive

LEMMA ServerNextInductive == ServerInductive /\ [ServerNext]_serverVars => ServerInductive'
<1> SUFFICES ASSUME ServerInductive, [ServerNext]_serverVars PROVE ServerInductive'
    OBVIOUS
<1>1. ServerTypeOK'
    BY ServerTypeStep DEF ServerInductive
<1>2. SUFFICES ASSUME ~ tangled' PROVE OneCommand' /\ Tracked'
    BY <1>1 DEF ServerInductive
<1>3. CASE UNCHANGED serverVars
    BY <1>2, <1>3 DEF ServerInductive, serverVars, OneCommand, Tracked, Running
<1>4. ASSUME NEW m \in Managers, Command(m) PROVE OneCommand' /\ Tracked'
  <2>1. ~ tangled /\ \A l \in Managers : manager[l] = AtRest
      BY <1>2, <1>4 DEF Command
  <2>2. OneCommand /\ Tracked
      BY <2>1 DEF ServerInductive
  <2>3. /\ UNCHANGED <<process, pidFile>>
        /\ \A l \in Managers : l # m => manager'[l] = AtRest
        /\ manager'[m].at \in {"look", "find"}
      BY <1>4, <2>1 DEF Command, ServerInductive, ServerTypeOK
  <2>4. QED
      BY <2>1, <2>2, <2>3 DEF OneCommand, Tracked, Running, AtRest
<1>5. ASSUME NEW m \in Managers, Manage(m) PROVE OneCommand' /\ Tracked'
  <2>1. tangled' = tangled
      BY <1>5 DEF Manage, Look, Spawn, Track, Find, Terminate, WaitEnds, KilledWait, Forget
  <2>2. QED
      BY <1>2, <1>5, <2>1, ManageStep DEF ServerInductive
<1>6. ASSUME NEW m \in Managers, KillManager(m) PROVE FALSE
    BY <1>2, <1>6 DEF KillManager
<1>7. ASSUME NEW n \in Pids, Vanish(n) \/ ServerExits(n) \/ Reuse(n) PROVE OneCommand' /\ Tracked'
  <2>1. tangled' = tangled
      BY <1>7 DEF Vanish, ServerExits, Reuse
  <2>2. QED
      BY <1>2, <1>7, <2>1, SystemStep DEF ServerInductive
<1>8. QED
    BY <1>3, <1>4, <1>5, <1>6, <1>7 DEF ServerNext

\* The invariant about the commands for a server.
THEOREM ServerInvariant == ServerSpec => []ServerInductive
BY ServerInitInductive, ServerNextInductive, PTL DEF ServerSpec

\* Commands given one after the other keep at most one server, which the PID file leads to.
THEOREM AtMostOneServer == ServerSpec => []OneServer
<1>1. ASSUME ServerInductive PROVE OneServer
  <2>1. SUFFICES ASSUME ~ tangled
                 PROVE  /\ Cardinality(Running) <= 1
                        /\ \A n \in Running :
                             pidFile = n \/ \E m \in Managers : manager[m].at = "track" /\ manager[m].pid = n
      BY DEF OneServer, Running
  <2>2. OneCommand /\ Tracked
      BY <1>1, <2>1 DEF ServerInductive
  <2>3. PICK x : Running \subseteq {x}
      BY <2>2 DEF OneCommand, Tracked
  <2>4. Running = {} \/ Running = {x}
      BY <2>3
  <2>5. Cardinality(Running) \in {0, 1}
    <3>1. Cardinality({}) = 0 /\ Cardinality({x}) = 1
        BY FS_EmptySet, FS_Singleton
    <3>2. QED
        BY <2>4, <3>1
  <2>6. QED
      BY <2>2, <2>5 DEF Tracked
<1>2. QED
    BY <1>1, ServerInvariant, PTL

-----------------------------------------------------------------------------
(* Proofs about SubagentPool.                                              *)

Acts(w) == RunnerStep(w) \/ (w \in Workers /\ Take(w)) \/ (w \in Terminals /\ Load(w))

LEMMA PoolSteps == PoolNext <=> (\E w \in Runners : Acts(w)) \/ RunAll \/ Cancel \/ ReturnAll
BY DEF PoolNext, Acts, Runners

\* An answer is one, and the runner rests.
LEMMA AnswerTypes ==
    ASSUME PoolTypeOK, NEW w \in Runners, NEW outcome \in Outcomes, Answer(w, outcome),
           runner[w].task \in Requests
    PROVE  /\ answer' \in [Requests -> Outcomes]
           /\ runner' \in [Runners -> [at : {"idle", "create", "created", "running", "written"},
                                       task : Requests \cup {NoTask}]]
           /\ runner'[w] = Idle
BY DEF PoolTypeOK, Answer, Idle

\* Types are kept by every step.
LEMMA PoolTypeStep == ASSUME PoolTypeOK, Busy, [PoolNext]_poolVars PROVE PoolTypeOK'
<1> USE PoolAssumption
<1>1. CASE UNCHANGED poolVars
    BY <1>1 DEF PoolTypeOK, poolVars
<1>2. CASE RunAll \/ Cancel \/ ReturnAll
    BY <1>2 DEF PoolTypeOK, RunAll, Cancel, ReturnAll
<1>3. ASSUME NEW w \in Runners, RunnerStep(w) PROVE PoolTypeOK'
  <2>1. runner[w].task \in Requests
      BY <1>3 DEF PoolTypeOK, Busy, RunnerStep, Create, Start, WriteResult, RunFails, Complete,
                  AuditRaises, Requests
  <2>2. CASE Create(w)
      BY <2>1, <2>2 DEF PoolTypeOK, Create, Move
  <2>3. CASE Start(w)
    <3>1. CASE NotYetRun(runner[w].task)
        BY <2>1, <2>3, <3>1 DEF PoolTypeOK, Start, Move
    <3>2. CASE ~ NotYetRun(runner[w].task)
        BY <2>1, <2>3, <3>2, AnswerTypes DEF PoolTypeOK, Start, Outcomes
    <3>3. QED
        BY <3>1, <3>2
  <2>4. CASE WriteResult(w)
      BY <2>1, <2>4 DEF PoolTypeOK, WriteResult, Move
  <2>5. CASE RunFails(w)
      BY <2>1, <2>5, AnswerTypes DEF PoolTypeOK, RunFails, Outcomes
  <2>6. CASE Complete(w)
      BY <2>1, <2>6, AnswerTypes DEF PoolTypeOK, Complete, Outcomes
  <2>7. CASE AuditRaises(w)
      BY <2>1, <2>7, AnswerTypes DEF PoolTypeOK, AuditRaises, Outcomes
  <2>8. QED
      BY <1>3, <2>2, <2>3, <2>4, <2>5, <2>6, <2>7 DEF RunnerStep
<1>4. ASSUME NEW w \in Runners, Take(w) PROVE PoolTypeOK'
  <2>1. taken' = taken + 1 /\ taken' \in Requests /\ taken' \in 0..MaxRequests
      BY <1>4 DEF PoolTypeOK, Take, MayTake, Requests
  <2>2. answer' \in [Requests -> Outcomes]
      BY <1>4, <2>1 DEF PoolTypeOK, Take, Outcomes
  <2>3. runner' = runner \/ runner' = [runner EXCEPT ![w] = [at |-> "create", task |-> taken']]
      BY <1>4 DEF Take
  <2>4. QED
      BY <1>4, <2>1, <2>2, <2>3 DEF PoolTypeOK, Take
<1>5. ASSUME NEW w \in Runners, Load(w) PROVE PoolTypeOK'
  <2>1. PICK t \in Requests : /\ runner' = [runner EXCEPT ![w] = [at |-> "created", task |-> t]]
                              /\ Meet(w, t)
      BY <1>5 DEF Load
  <2>2. QED
      BY <1>5, <2>1 DEF PoolTypeOK, Load, Meet
<1>6. QED
    BY <1>1, <1>2, <1>3, <1>4, <1>5, PoolSteps DEF Acts

\* What a runner's step leaves to the others and to the histories.
LEMMA PoolFrame ==
    ASSUME PoolTypeOK, NEW w \in Runners, Acts(w)
    PROVE  /\ \A v \in Runners : v # w => runner'[v] = runner[v]
           /\ report \subseteq report' /\ overlapped \subseteq overlapped'
           /\ failures' = 0 => failures = 0
           /\ UNCHANGED <<cancelled, parent>> /\ taken <= taken'
<1> USE DEF PoolTypeOK
<1>1. CASE Take(w)
    BY <1>1 DEF Take
<1>2. CASE Load(w)
    BY <1>2 DEF Load, Meet
<1>3. CASE RunnerStep(w)
    BY <1>3
       DEF RunnerStep, Create, Start, WriteResult, RunFails, Complete, AuditRaises, Move, Answer
<1>4. QED
    BY <1>1, <1>2, <1>3 DEF Acts

\* Threads about to create a task are few, and only a cancelled one is late.
LEMMA CreatorsAreFinite == IsFiniteSet(Creators) /\ Cardinality(Creators) \in Nat
                             /\ Cardinality(Creators) <= Cardinality(Workers)
<1>1. Creators \subseteq Workers
    BY DEF Creators
<1>2. QED
    BY <1>1, PoolAssumption, FS_Subset, FS_CardinalityType

LEMMA CreatorsAreFiniteNext == IsFiniteSet(Creators') /\ Cardinality(Creators') \in Nat
                                 /\ Cardinality(Creators') <= Cardinality(Workers)
<1>1. Creators' \subseteq Workers
    BY DEF Creators
<1>2. QED
    BY <1>1, PoolAssumption, FS_Subset, FS_CardinalityType

LEMMA FewerCreators ==
    ASSUME LateOnes, Creators' \subseteq Creators, late' = late, ~ cancelled' => ~ cancelled
    PROVE  LateOnes'
<1>1. Cardinality(Creators') <= Cardinality(Creators)
    BY CreatorsAreFinite, FS_Subset
<1>2. Cardinality(late) \in Nat /\ Cardinality(Workers) \in Nat
    BY PoolAssumption, FS_CardinalityType DEF LateOnes
<1>3. QED
    BY <1>1, <1>2, CreatorsAreFinite, CreatorsAreFiniteNext DEF LateOnes

\* A thread takes the next request.
LEMMA TakeStep ==
    ASSUME PoolInductive, NEW w \in Workers, Take(w)
    PROVE  Busy' /\ Owed' /\ Met' /\ Files' /\ LateOnes'
<1> DEFINE r == taken + 1
<1>1. /\ w \in Runners /\ Acts(w) /\ PoolTypeOK /\ w \notin Terminals
      /\ parent = "waits" /\ runner[w].at = "idle" /\ runner[w] = Idle
      /\ taken' = r /\ taken \in Nat /\ r \in Requests
      /\ UNCHANGED <<cancelled, parent, status, report, late, overlapped, failures>>
    BY PoolAssumption
       DEF PoolInductive, PoolTypeOK, Busy, Runners, Acts, Take, MayTake, Requests
<1>2. \/ /\ ~ cancelled /\ answer' = answer
         /\ runner' = [runner EXCEPT ![w] = [at |-> "create", task |-> r]]
      \/ runner' = runner /\ \E a \in {"refused", "cancelled"} : answer' = [answer EXCEPT ![r] = a]
    BY <1>1 DEF Take, MayGo
<1>3. answer[r] = "none" /\ status[r] = "none" /\ \A v \in Runners : runner[v].task # r
    BY <1>1, PoolAssumption
       DEF PoolInductive, PoolTypeOK, Busy, Owed, Idle, NoTask, Requests, Outcomes
<1>4. Busy'
    BY <1>1, <1>2, <1>3 DEF PoolInductive, PoolTypeOK, Busy, Requests
<1>5. Owed'
  <2>1. \A v \in Workers : v \in Runners /\ (runner[v].at # "idle" => runner[v].task # r)
      BY <1>3 DEF Runners
  <2>2. /\ \A q \in Requests : q # r => answer'[q] = answer[q]
        /\ answer'[r] # "success" /\ parent' # "returned"
        /\ \A q \in Requests : q <= taken => q <= taken'
    <3>1. /\ \A q \in Requests : q # r => answer'[q] = answer[q]
          /\ answer'[r] # "success"
        BY <1>1, <1>2, <1>3 DEF PoolTypeOK
    <3>2. ASSUME NEW q \in Requests, q <= taken PROVE q <= taken'
        BY <1>1, <3>2, PoolAssumption DEF Requests
    <3>3. QED
        BY <1>1, <3>1, <3>2
  <2>3. \A q \in Requests : /\ answer'[q] # "none" \/ status'[q] # "none" => q <= taken'
                            /\ answer'[q] = "success" => q \in report'
      BY <1>1, <1>3, <2>2 DEF PoolInductive, Owed, Requests
  <2>4. CASE runner' = runner
    <3>1. \A v \in Workers : runner[v].at # "idle" => runner[v].task \in Requests
      <4>1. \A q : q \in 1..taken => q \in Requests
          BY <1>1, PoolAssumption DEF Requests
      <4>2. QED
          BY <2>1, <4>1 DEF PoolInductive, Busy
    <3>2. QED
        BY <2>1, <2>2, <2>3, <2>4, <3>1 DEF PoolInductive, Owed
  <2>5. CASE answer' = answer /\ runner' = [runner EXCEPT ![w] = [at |-> "create", task |-> r]]
      BY <1>1, <1>3, <2>1, <2>2, <2>3, <2>5 DEF PoolInductive, PoolTypeOK, Owed
  <2>6. QED
      BY <1>2, <2>4, <2>5
<1>6. Met'
    BY <1>1, <1>2, <1>3 DEF PoolInductive, PoolTypeOK, Met
<1>7. Files'
  <2>1. \A v \in Runners : runner'[v] = runner[v] \/ (v = w /\ runner'[v].at = "create")
      BY <1>1, <1>2 DEF PoolInductive, PoolTypeOK
  <2>2. /\ \A t \in Requests : (t \in report => status[t] # "none")
                             /\ (status[t] = "completed" => t \in report)
        /\ \A v \in Runners : runner'[v].at = "running" /\ runner'[v].task \notin overlapped
                             => status[runner'[v].task] = "running"
      BY <2>1 DEF PoolInductive, Files
  <2>3. \A v \in Runners : \A t \in Requests : runner[v].task = t => runner'[v] = runner[v]
      BY <1>1, <2>1, PoolAssumption DEF Idle, NoTask, Requests
  <2>4. ASSUME failures = 0, NEW t \in Requests \ overlapped
        PROVE  /\ status[t] \in {"pending", "running"} => \E v \in Runners : runner'[v].task = t
               /\ t \in report => (\/ status[t] = "completed"
                                   \/ \E v \in Runners : runner'[v] = [at |-> "written", task |-> t])
    <3>1. status[t] \in {"pending", "running"} => \E v \in Runners : runner[v].task = t
        BY <2>4 DEF PoolInductive, Files
    <3>2. t \in report => (\/ status[t] = "completed"
                           \/ \E v \in Runners : runner[v] = [at |-> "written", task |-> t])
        BY <2>4 DEF PoolInductive, Files
    <3>3. QED
        BY <2>3, <3>1, <3>2
  <2>5. QED
      BY <1>1, <2>2, <2>4 DEF Files
<1>8. LateOnes'
  <2>1. CASE runner' = runner
      BY <1>1, <2>1, FewerCreators DEF PoolInductive, Creators
  <2>2. CASE ~ cancelled
    <3>1. late' = {} /\ ~ cancelled'
        BY <1>1, <2>2 DEF PoolInductive, LateOnes
    <3>2. Cardinality(late') = 0 /\ IsFiniteSet(late')
        BY <3>1, FS_EmptySet
    <3>3. QED
        BY <3>1, <3>2, CreatorsAreFiniteNext DEF LateOnes
  <2>3. QED
      BY <1>2, <2>1, <2>2
<1>9. QED
    BY <1>4, <1>5, <1>6, <1>7, <1>8

\* A terminal takes up a task.
LEMMA LoadStep ==
    ASSUME PoolInductive, NEW w \in Terminals, Load(w)
    PROVE  Busy' /\ Owed' /\ Met' /\ Files' /\ LateOnes'
<1>1. PICK t \in Requests :
        /\ status[t] # "none"
        /\ runner' = [runner EXCEPT ![w] = [at |-> "created", task |-> t]]
        /\ Meet(w, t)
    BY DEF Load
<1>2. /\ w \in Runners /\ w \notin Workers /\ runner[w] = Idle /\ Acts(w)
      /\ UNCHANGED <<taken, answer, cancelled, parent, status, report, late, failures>>
    BY PoolAssumption DEF PoolInductive, Busy, Load, Runners, Acts
<1>3. \A v \in Runners : v # w /\ runner[v].task = t => t \in overlapped'
    BY <1>1 DEF Meet
<1>4. overlapped \subseteq overlapped' /\ overlapped' \subseteq overlapped \cup {t}
    BY <1>1 DEF Meet
<1>5. t \in 1..taken
    BY <1>1 DEF PoolInductive, PoolTypeOK, Owed, Requests
<1>6. Busy'
    BY <1>1, <1>2, <1>5 DEF PoolInductive, PoolTypeOK, Busy
<1>7. Owed'
    BY <1>1, <1>2 DEF PoolInductive, PoolTypeOK, Owed, Runners, AllDone
<1>8. Met'
    BY <1>1, <1>2, <1>3, <1>4 DEF PoolInductive, PoolTypeOK, Met
<1>9. Files'
    BY <1>1, <1>2, <1>3, <1>4 DEF PoolInductive, PoolTypeOK, Files, Idle, NoTask, Requests
<1>10. LateOnes'
    BY <1>1, <1>2, FewerCreators DEF PoolInductive, PoolTypeOK, Creators, Runners
<1>11. QED
    BY <1>6, <1>7, <1>8, <1>9, <1>10

\* What a step of a runner at work leaves to the others.
LEMMA AtWork ==
    ASSUME PoolInductive, NEW w \in Runners, RunnerStep(w), NEW t, t = runner[w].task
    PROVE  /\ t \in Requests /\ t \in 1..taken /\ taken' = taken /\ t # NoTask
           /\ UNCHANGED <<cancelled, parent, overlapped>>
           /\ \A r \in Requests : r # t => status'[r] = status[r] /\ answer'[r] = answer[r]
           /\ \A v \in Runners : v # w => runner'[v] = runner[v]
           /\ runner'[w].task = t \/ runner'[w] = Idle
           /\ report \subseteq report' /\ report' \subseteq report \cup {t}
           /\ failures' \in Nat /\ failures' >= failures
<1>1. runner[w].at # "idle" /\ taken' = taken
    BY DEF RunnerStep, Create, Start, WriteResult, RunFails, Complete, AuditRaises
<1>2. t \in Requests /\ t \in 1..taken
  <2>1. t \in 1..taken
      BY <1>1 DEF PoolInductive, Busy
  <2>2. taken \in 0..MaxRequests
      BY DEF PoolInductive, PoolTypeOK
  <2>3. QED
      BY <2>1, <2>2, PoolAssumption DEF Requests
<1> USE <1>1, <1>2 DEF PoolInductive, PoolTypeOK, Move
<1>3. CASE Create(w) \/ WriteResult(w)
    BY <1>3 DEF Create, WriteResult, NoTask
<1>4. CASE Start(w)
    BY <1>4 DEF Start, Answer, NoTask
<1>5. CASE RunFails(w) \/ Complete(w) \/ AuditRaises(w)
    BY <1>5 DEF RunFails, Complete, AuditRaises, Answer, NoTask
<1>6. QED
    BY <1>3, <1>4, <1>5 DEF RunnerStep

\* A runner that goes on leaves who has which task as it is.
LEMMA MetKept == ASSUME PoolInductive, NEW w \in Runners, RunnerStep(w) PROVE Met'
BY AtWork DEF PoolInductive, Met, Idle

\* Only the creation of a task changes who is late or about to create one.
LEMMA LateKept ==
    ASSUME PoolInductive, NEW w \in Runners, RunnerStep(w)
    PROVE  LateOnes'
<1>1. CASE late' = late
  <2>1. Creators' \subseteq Creators
    <3>1. runner'[w].at # "create"
        BY DEF PoolInductive, PoolTypeOK, RunnerStep, Create, Start, WriteResult, RunFails,
           Complete,
               AuditRaises, Move, Answer, Idle
    <3>2. QED
        BY <3>1, AtWork DEF Creators, Runners
  <2>2. QED
      BY <1>1, <2>1, AtWork, FewerCreators DEF PoolInductive
<1>2. CASE late' # late
  <2> DEFINE t == runner[w].task
  <2>1. /\ runner[w].at = "create" /\ runner'[w].at = "created" /\ w \in Workers
        /\ cancelled /\ cancelled' /\ late' = late \cup {t}
    <3>1. Create(w)
        BY <1>2 DEF RunnerStep, Start, WriteResult, RunFails, Complete, AuditRaises
    <3>2. QED
        BY <1>2, <3>1 DEF PoolInductive, PoolTypeOK, Busy, Create, Move
  <2>2. Creators' = Creators \ {w} /\ w \in Creators
      BY <2>1, AtWork DEF Creators, Runners
  <2>3. Cardinality(Creators') = Cardinality(Creators) - 1
      BY <2>2, CreatorsAreFinite, FS_RemoveElement
  <2>4. /\ IsFiniteSet(late') /\ Cardinality(late') \in Nat /\ Cardinality(late) \in Nat
        /\ Cardinality(late') <= Cardinality(late) + 1
    <3>1. IsFiniteSet(late)
        BY DEF PoolInductive, LateOnes
    <3>2. /\ IsFiniteSet(late \cup {t})
          /\ \/ Cardinality(late \cup {t}) = Cardinality(late) + 1
             \/ Cardinality(late \cup {t}) = Cardinality(late)
        BY <3>1, FS_AddElement
    <3>3. Cardinality(late) \in Nat
        BY <3>1, FS_CardinalityType
    <3>4. QED
        BY <2>1, <3>2, <3>3
  <2>5. Cardinality(Workers) \in Nat
      BY PoolAssumption, FS_CardinalityType
  <2>6. QED
      BY <2>1, <2>3, <2>4, <2>5, CreatorsAreFinite DEF PoolInductive, LateOnes
<1>3. QED
    BY <1>1, <1>2

\* The steps of a runner, with what each makes of its task.
Effect(w, t) ==
    /\ status'[t] # "none"
    /\ \/ /\ runner[w].at = "create" /\ runner'[w] = [at |-> "created", task |-> t]
          /\ status'[t] = "pending" /\ UNCHANGED <<answer, report, failures>>
       \/ /\ runner[w].at = "created" /\ runner'[w] = [at |-> "running", task |-> t]
          /\ t \notin report /\ status'[t] = "running" /\ UNCHANGED <<answer, report, failures>>
       \/ /\ runner[w].at = "running" /\ runner'[w] = [at |-> "written", task |-> t]
          /\ t \in report' /\ UNCHANGED <<answer, status, failures>>
       \/ /\ runner[w].at \in {"created", "running", "written"} /\ runner'[w] = Idle
          /\ report' = report
          /\ IF w \in Workers THEN answer'[t] \in {"failed", "success"} ELSE answer' = answer
          /\ answer'[t] = "success" /\ answer'[t] # answer[t] => runner[w].at = "written"
          /\ \/ runner[w].at = "created" /\ t \in report /\ status' = status
             \/ runner[w].at = "running" /\ status'[t] = "failed" /\ failures' = failures
             \/ runner[w].at = "written" /\ status'[t] = "completed"
             \/ runner[w].at \in {"created", "running"} /\ status' = status /\ failures' # 0

LEMMA WorkEffect ==
    ASSUME PoolInductive, NEW w \in Runners, RunnerStep(w)
    PROVE  Effect(w, runner[w].task)
<1> DEFINE t == runner[w].task
<1>1. t \in Requests
    BY AtWork
<1>2. w \in Workers <=> w \notin Terminals
    BY PoolAssumption DEF Runners
<1> USE <1>1 DEF PoolInductive, PoolTypeOK, Busy, Effect
<1>3. CASE Create(w)
    BY <1>3 DEF Create, Move
<1>4. CASE Start(w)
  <2>1. CASE NotYetRun(t)
      BY <1>4, <2>1 DEF Start, Move, NotYetRun
  <2>2. CASE ~ NotYetRun(t)
      BY <1>2, <1>4, <2>2 DEF Start, Answer, NotYetRun
  <2>3. QED
      BY <2>1, <2>2
<1>5. CASE WriteResult(w)
    BY <1>5 DEF WriteResult, Move
<1>6. CASE RunFails(w)
    BY <1>2, <1>6 DEF RunFails, Answer
<1>7. CASE Complete(w)
    BY <1>2, <1>7 DEF Complete, Answer
<1>8. CASE AuditRaises(w)
    BY <1>2, <1>8 DEF AuditRaises, Answer
<1>9. QED
    BY <1>3, <1>4, <1>5, <1>6, <1>7, <1>8 DEF RunnerStep

\* A runner's step leaves each runner with the files that its step needs.
LEMMA WorkKeepsBusy == ASSUME PoolInductive, NEW w \in Runners, RunnerStep(w) PROVE Busy'
<1> DEFINE t == runner[w].task
<1>0. Effect(w, t)
    BY WorkEffect
<1>1. /\ t \in Requests /\ t \in 1..taken /\ taken' = taken
      /\ \A r \in Requests : r # t => status'[r] = status[r]
      /\ \A v \in Runners : v # w => runner'[v] = runner[v]
      /\ report \subseteq report'
    BY AtWork
<1>2. status'[t] # "none"
    BY <1>0 DEF Effect
<1>3. runner[w].at = "create" \/ status[t] # "none"
    BY <1>0 DEF Effect, PoolInductive, Busy
<1>4. ASSUME NEW v \in Runners, v # w
      PROVE  runner[v].at = "create" => runner[v].task # t
  <2>1. SUFFICES ASSUME runner[v].at = "create", runner[v].task = t PROVE FALSE
      OBVIOUS
  <2>2. v \in Workers /\ status[t] = "none"
      BY <2>1 DEF PoolInductive, Busy
  <2>3. w \in Workers /\ runner[w].at = "create"
      BY <1>3, <2>2 DEF PoolInductive, Busy
  <2>4. QED
      BY <1>4, <2>1, <2>2, <2>3 DEF PoolInductive, Owed
<1>5. \A v \in Runners : runner[v].at # "idle" => runner[v].task \in Requests
  <2>1. taken \in 0..MaxRequests
      BY DEF PoolInductive, PoolTypeOK
  <2>2. \A q \in 1..taken : q \in Requests
      BY <2>1, PoolAssumption DEF Requests
  <2>3. QED
      BY <2>2 DEF PoolInductive, Busy
<1>6. runner[w].at \in {"create", "created", "running", "written"}
    BY <1>0 DEF Effect
<1> DEFINE Rightly(v) ==
        /\ IF runner'[v].at = "idle" THEN runner'[v] = Idle ELSE runner'[v].task \in 1..taken'
        /\ runner'[v].at = "create" => v \in Workers /\ status'[runner'[v].task] = "none"
        /\ runner'[v].at \in {"created", "running", "written"} => status'[runner'[v].task] # "none"
        /\ runner'[v].at = "written" => runner'[v].task \in report'
<1>7. ASSUME NEW v \in Runners PROVE Rightly(v)
  <2>1. CASE v # w
      BY <1>1, <1>2, <1>4, <1>5, <1>7, <2>1 DEF PoolInductive, Busy
  <2>2. CASE v = w /\ runner'[w] = Idle
      BY <2>2 DEF Idle
  <2>3. CASE v = w /\ runner'[w] # Idle
    <3>1. /\ runner'[w].task = t /\ runner'[w].at \in {"created", "running", "written"}
          /\ runner'[w].at = "written" => t \in report'
        BY <2>3, <1>0 DEF Effect
    <3>2. QED
        BY <1>1, <1>2, <2>3, <3>1
  <2>4. QED
      BY <2>1, <2>2, <2>3
<1>8. QED
    BY <1>7 DEF Busy

\* A runner's step answers its own request only.
LEMMA WorkKeepsOwed == ASSUME PoolInductive, NEW w \in Runners, RunnerStep(w) PROVE Owed'
<1> DEFINE t == runner[w].task
<1>0. Effect(w, t)
    BY WorkEffect
<1>1. /\ t \in Requests /\ t \in 1..taken /\ taken' = taken /\ parent' = parent
      /\ \A r \in Requests : r # t => status'[r] = status[r] /\ answer'[r] = answer[r]
      /\ \A v \in Runners : v # w => runner'[v] = runner[v]
      /\ report \subseteq report'
    BY AtWork
<1>2. taken \in Nat
    BY DEF PoolInductive, PoolTypeOK
<1>3. \A v \in Workers : v \in Runners
    BY DEF Runners
<1>4. /\ runner[w].at # "idle"
      /\ (runner'[w].task = t /\ answer' = answer) \/ runner'[w] = Idle
      /\ w \notin Workers => answer' = answer
      /\ answer'[t] # answer[t] => answer'[t] \in {"failed", "success"}
      /\ answer'[t] = "success" /\ answer'[t] # answer[t] => runner[w].at = "written"
    BY <1>0 DEF Effect
<1>5. ASSUME NEW v \in Workers, runner'[v].at # "idle"
      PROVE  /\ answer'[runner'[v].task] = "none"
             /\ \A u \in Workers \ {v} : runner'[u].task # runner'[v].task
  <2>1. runner[v].at # "idle" /\ runner'[v].task = runner[v].task
      BY <1>1, <1>3, <1>4, <1>5 DEF Idle
  <2>2. /\ answer[runner[v].task] = "none"
        /\ \A u \in Workers \ {v} : runner[u].task # runner[v].task
      BY <2>1 DEF PoolInductive, Owed
  <2>3. runner[v].task \in Requests /\ runner[v].task # NoTask
    <3>1. runner[v].task \in 1..taken /\ taken \in 0..MaxRequests
        BY <1>3, <2>1 DEF PoolInductive, PoolTypeOK, Busy
    <3>2. QED
        BY <3>1, PoolAssumption DEF Requests, NoTask
  <2>4. \A u \in Workers \ {v} : runner'[u].task # runner'[v].task
      BY <1>1, <1>3, <1>4, <2>1, <2>2, <2>3 DEF Idle
  <2>5. answer'[runner[v].task] = "none"
    <3>1. CASE v = w
        BY <1>4, <1>5, <2>2, <3>1 DEF Idle
    <3>2. CASE v # w /\ w \in Workers
        BY <1>1, <2>2, <2>3, <3>2
    <3>3. CASE w \notin Workers
        BY <1>4, <2>2, <3>3
    <3>4. QED
        BY <3>1, <3>2, <3>3
  <2>6. QED
      BY <2>1, <2>4, <2>5
<1>6. ASSUME NEW r \in Requests
      PROVE  /\ answer'[r] # "none" \/ status'[r] # "none" => r <= taken'
             /\ answer'[r] = "success" => r \in report'
  <2>1. t <= taken
      BY <1>1, <1>2
  <2>2. runner[w].at = "written" => t \in report
      BY DEF PoolInductive, Busy
  <2>3. QED
      BY <1>1, <1>4, <2>1, <2>2 DEF PoolInductive, Owed
<1>7. parent' = "returned" => AllDone'
    BY <1>1, <1>4 DEF PoolInductive, Owed, AllDone
<1>8. QED
    BY <1>5, <1>6, <1>7 DEF Owed

\* A runner's step leaves the files of its task as they must be.
LEMMA WorkKeepsFiles == ASSUME PoolInductive, NEW w \in Runners, RunnerStep(w) PROVE Files'
<1> DEFINE t == runner[w].task
<1>0. Effect(w, t)
    BY WorkEffect
<1>1. /\ t \in Requests /\ t # NoTask /\ overlapped' = overlapped
      /\ \A r \in Requests : r # t => status'[r] = status[r]
      /\ \A v \in Runners : v # w => runner'[v] = runner[v]
      /\ report \subseteq report' /\ report' \subseteq report \cup {t}
      /\ failures \in Nat /\ failures' \in Nat /\ failures' >= failures
    BY AtWork DEF PoolInductive, PoolTypeOK
<1>2. \A v \in Runners : v # w /\ runner[v].task = t => t \in overlapped
    BY <1>1 DEF PoolInductive, Met
<1>3. /\ status'[t] # "none"
      /\ status'[t] = "completed" => t \in report'
      /\ t \in report' => t \in report \/ runner[w].at = "running"
    BY <1>1, <1>0 DEF Effect, PoolInductive, Files, Busy
<1>4. ASSUME NEW r \in Requests
      PROVE  /\ r \in report' => status'[r] # "none"
             /\ status'[r] = "completed" => r \in report'
    BY <1>1, <1>3 DEF PoolInductive, Files
<1>5. ASSUME NEW v \in Runners, runner'[v].at = "running", runner'[v].task \notin overlapped'
      PROVE  status'[runner'[v].task] = "running"
  <2>1. CASE v = w
      BY <1>5, <2>1, <1>0 DEF Effect, Idle
  <2>2. CASE v # w
    <3>1. runner[v].task # t /\ runner[v].task \in Requests
      <4>1. runner[v].task \in 1..taken /\ taken \in 0..MaxRequests
          BY <1>1, <1>5, <2>2 DEF PoolInductive, PoolTypeOK, Busy
      <4>2. QED
          BY <1>1, <1>2, <1>5, <2>2, <4>1, PoolAssumption DEF Requests
    <3>2. QED
        BY <1>1, <1>5, <2>2, <3>1 DEF PoolInductive, Files
  <2>3. QED
      BY <2>1, <2>2
<1>6. ASSUME failures' = 0, NEW r \in Requests \ overlapped'
      PROVE  /\ status'[r] \in {"pending", "running"} => \E v \in Runners : runner'[v].task = r
             /\ r \in report' => \/ status'[r] = "completed"
                                 \/ \E v \in Runners : runner'[v] = [at |-> "written", task |-> r]
  <2>1. /\ failures = 0 /\ r \in Requests /\ r \notin overlapped
      BY <1>1, <1>6
  <2>2. /\ status[r] \in {"pending", "running"} => \E v \in Runners : runner[v].task = r
        /\ r \in report => \/ status[r] = "completed"
                           \/ \E v \in Runners : runner[v] = [at |-> "written", task |-> r]
      BY <2>1 DEF PoolInductive, Files
  <2>3. CASE r # t
      BY <1>1, <2>1, <2>2, <2>3
  <2>4. CASE r = t
    <3>1. r \in report => status[r] = "completed" \/ runner[w].at = "written"
        BY <1>2, <2>1, <2>2, <2>4
    <3>2. runner[w].at = "running" => status[r] = "running"
        BY <2>1, <2>4 DEF PoolInductive, Files
    <3>3. r \in report => status[r] # "none"
        BY DEF PoolInductive, Files
    <3>4. runner[w].at = "create" => status[r] = "none"
        BY <2>4 DEF PoolInductive, Busy
    <3>5. QED
        BY <1>6, <2>4, <3>1, <3>2, <3>3, <3>4, <1>0 DEF Effect
  <2>5. QED
      BY <2>3, <2>4
<1>7. QED
    BY <1>4, <1>5, <1>6 DEF Files

LEMMA PoolInitInductive == PoolInit => PoolInductive
<1> SUFFICES ASSUME PoolInit PROVE PoolInductive
    OBVIOUS
<1>1. PoolTypeOK
  <2>1. taken \in 0..MaxRequests
      BY PoolAssumption DEF PoolInit
  <2>2. answer \in [Requests -> Outcomes]
      BY DEF PoolInit, Outcomes
  <2>3. runner \in [Runners -> [at : {"idle", "create", "created", "running", "written"},
                               task : Requests \cup {NoTask}]]
      BY DEF PoolInit, Idle
  <2>4. QED
      BY <2>1, <2>2, <2>3 DEF PoolInit, PoolTypeOK
<1>2. Busy /\ Met
    BY DEF PoolInit, Busy, Met, Idle
<1>3. Owed /\ Files
    BY DEF PoolInit, Owed, Files, Idle, Runners
<1>4. LateOnes
  <2>1. late = {}
      BY DEF PoolInit
  <2>2. Cardinality(late) = 0 /\ IsFiniteSet(late)
      BY <2>1, FS_EmptySet
  <2>3. QED
      BY <2>1, <2>2, CreatorsAreFinite DEF LateOnes
<1>5. QED
    BY <1>1, <1>2, <1>3, <1>4 DEF PoolInductive

LEMMA PoolNextInductive == PoolInductive /\ [PoolNext]_poolVars => PoolInductive'
<1> SUFFICES ASSUME PoolInductive, [PoolNext]_poolVars PROVE PoolInductive'
    OBVIOUS
<1>1. PoolTypeOK'
    BY PoolTypeStep DEF PoolInductive
<1>2. CASE UNCHANGED poolVars
    BY <1>1, <1>2 DEF PoolInductive, poolVars, Busy, Owed, Met, Files, LateOnes, Creators, AllDone
<1>3. CASE RunAll \/ Cancel \/ ReturnAll
  <2>1. UNCHANGED <<taken, answer, status, report, runner, late, overlapped, failures>>
      BY <1>3 DEF RunAll, Cancel, ReturnAll
  <2>2. parent' = "returned" => AllDone
      BY <1>3 DEF RunAll, Cancel, ReturnAll, PoolInductive, Owed
  <2>3. Busy' /\ Met' /\ Files'
      BY <2>1 DEF PoolInductive, Busy, Met, Files
  <2>4. Owed'
      BY <2>1, <2>2 DEF PoolInductive, Owed, AllDone
  <2>5. LateOnes'
      BY <1>3, <2>1 DEF PoolInductive, LateOnes, Creators, RunAll, Cancel, ReturnAll
  <2>6. QED
      BY <1>1, <2>3, <2>4, <2>5 DEF PoolInductive
<1>4. ASSUME NEW w \in Runners, Acts(w) PROVE PoolInductive'
  <2>1. CASE w \in Workers /\ Take(w)
      BY <1>1, <2>1, TakeStep DEF PoolInductive
  <2>2. CASE w \in Terminals /\ Load(w)
      BY <1>1, <2>2, LoadStep DEF PoolInductive
  <2>3. CASE RunnerStep(w)
      BY <1>1, <2>3, MetKept, LateKept, WorkKeepsBusy, WorkKeepsOwed, WorkKeepsFiles
         DEF PoolInductive
  <2>4. QED
      BY <1>4, <2>1, <2>2, <2>3 DEF Acts
<1>5. QED
    BY <1>2, <1>3, <1>4, PoolSteps

\* The invariant about the pool, its tasks and the terminals.
THEOREM PoolInvariant == PoolSpec => []PoolInductive
BY PoolInitInductive, PoolNextInductive, PTL DEF PoolSpec

\* What run_all leaves when it returns: no thread at work, a result for each
\* success, no task begun and left, and few tasks made after the cancellation.
THEOREM PoolLeavesNothing == PoolSpec => []NothingLeftBehind
<1>1. ASSUME PoolInductive, parent = "returned"
      PROVE  /\ \A w \in Workers : runner[w] = Idle
             /\ \A r \in Requests : answer[r] = "success" => r \in report
             /\ failures = 0 =>
                  \A t \in Requests \ overlapped :
                      status[t] \in {"pending", "running"} => \E w \in Terminals : runner[w].task = t
             /\ Cardinality(late) <= Cardinality(Workers)
  <2> USE <1>1
  <2>1. AllDone
      BY DEF PoolInductive, Owed
  <2>2. ASSUME NEW w \in Workers PROVE runner[w] = Idle
    <3>1. w \in Runners /\ taken \in 0..MaxRequests
        BY DEF PoolInductive, PoolTypeOK, Runners
    <3>2. runner[w].at # "idle" => runner[w].task \in Requests
      <4>1. runner[w].at # "idle" => runner[w].task \in 1..taken
          BY <3>1 DEF PoolInductive, Busy
      <4>2. QED
          BY <3>1, <4>1, PoolAssumption DEF Requests
    <3>3. runner[w].at = "idle"
        BY <2>1, <3>2 DEF AllDone, PoolInductive, Owed
    <3>4. QED
        BY <3>1, <3>3 DEF PoolInductive, Busy
  <2>3. \A r \in Requests : answer[r] = "success" => r \in report
      BY DEF PoolInductive, Owed
  <2>4. ASSUME failures = 0, NEW t \in Requests \ overlapped, status[t] \in {"pending", "running"}
        PROVE  \E w \in Terminals : runner[w].task = t
    <3>1. PICK w \in Runners : runner[w].task = t
        BY <2>4 DEF PoolInductive, Files
    <3>2. t # NoTask
        BY DEF Requests, NoTask
    <3>3. w \notin Workers
        BY <2>2, <3>1, <3>2 DEF Idle
    <3>4. QED
        BY <3>1, <3>3 DEF Runners
  <2>5. Cardinality(late) <= Cardinality(Workers)
    <3>1. Cardinality(late) \in Nat /\ Cardinality(Workers) \in Nat
        BY PoolAssumption, FS_CardinalityType DEF PoolInductive, LateOnes
    <3>2. QED
        BY <3>1, CreatorsAreFinite DEF PoolInductive, LateOnes
  <2>6. QED
      BY <2>2, <2>3, <2>4, <2>5
<1>2. PoolInductive => NothingLeftBehind
    BY <1>1 DEF NothingLeftBehind
<1>3. QED
    BY <1>2, PoolInvariant, PTL

\* No step of any runner takes a completed task up again, or makes it one that
\* failed, unless two runners had it at once.
THEOREM ResultsStay == PoolSpec => CompletedStays
<1> DEFINE Stays == \A t \in Requests :
        status[t] = "completed" /\ t \notin overlapped => status'[t] = "completed"
<1>1. ASSUME PoolInductive, [PoolNext]_poolVars PROVE [Stays]_poolVars
  <2>1. SUFFICES ASSUME NEW t \in Requests, status[t] = "completed", t \notin overlapped
                 PROVE  status'[t] = "completed"
      OBVIOUS
  <2>2. CASE status' = status
      BY <2>1, <2>2
  <2>3. CASE status' # status
    <3>1. PICK w \in Runners : RunnerStep(w)
        BY <1>1, <2>3, PoolSteps DEF poolVars, Acts, Take, Load, RunAll, Cancel, ReturnAll
    <3>2. runner[w].task # t => status'[t] = status[t]
        BY <1>1, <3>1, AtWork
    <3>3. t \in report
        BY <1>1, <2>1 DEF PoolInductive, Files
    <3>4. runner[w].task = t => runner[w].at \notin {"create", "running"}
        BY <1>1, <2>1 DEF PoolInductive, Busy, Files
    <3>5. runner[w].task = t => status'[t] = "completed"
        BY <1>1, <2>1, <3>1, <3>3, <3>4, WorkEffect DEF Effect
    <3>6. QED
        BY <2>1, <3>2, <3>5
  <2>4. QED
      BY <2>2, <2>3
<1>2. QED
    BY <1>1, PoolInvariant, PTL DEF PoolSpec, CompletedStays

-----------------------------------------------------------------------------
(* SubagentPool: what the return of run_all rests on besides fairness.     *)

\* A request that was taken and has no answer is with a thread.
Pursued ==
    \A r \in Requests : r <= taken /\ answer[r] = "none" =>
        \E w \in Workers : runner[w].at # "idle" /\ runner[w].task = r

\* While run_all waits for an answer, a thread is at work or may take a request.
SomebodyAnswers ==
    parent = "waits" /\ ~ AllDone => \E w \in Workers : runner[w].at # "idle" \/ MayTake(w)

\* How far the answer to request r has come, given the answers and the runners.
StageOf(ans, run, r) ==
    LET steps == {run[w].at : w \in {v \in Workers : run[v].task = r}}
    IN  IF ans[r] # "none" THEN 5
        ELSE IF "written" \in steps THEN 4
        ELSE IF "running" \in steps THEN 3
        ELSE IF "created" \in steps THEN 2
        ELSE IF "create" \in steps THEN 1
        ELSE 0

Stage(r) == StageOf(answer, runner, r)

\* Each step of a thread brings an answer nearer, and nobody takes one back.
AnswersComeNearer ==
    /\ \A r \in Requests : Stage(r)' >= Stage(r)
    /\ \A w \in Workers :
         Take(w) \/ RunnerStep(w) => \E r \in Requests : Stage(r)' > Stage(r)

LEMMA PursuedStep == ASSUME PoolInductive, Pursued, [PoolNext]_poolVars PROVE Pursued'
<1>1. CASE UNCHANGED poolVars \/ RunAll \/ Cancel \/ ReturnAll
    BY <1>1 DEF poolVars, RunAll, Cancel, ReturnAll, Pursued
<1>2. ASSUME NEW w \in Workers, Take(w) PROVE Pursued'
  <2>1. /\ w \in Runners /\ runner[w].at = "idle" /\ taken' = taken + 1 /\ taken \in Nat
        /\ \A v \in Workers : v \in Runners
        /\ answer \in [Requests -> Outcomes] /\ taken + 1 \in Requests
      BY <1>2, PoolAssumption
         DEF PoolInductive, PoolTypeOK, Take, MayTake, Runners, Requests
  <2>2. \/ /\ answer' = answer
           /\ runner' = [runner EXCEPT ![w] = [at |-> "create", task |-> taken + 1]]
        \/ /\ runner' = runner
           /\ \E a \in {"refused", "cancelled"} : answer' = [answer EXCEPT ![taken + 1] = a]
      BY <1>2, <2>1 DEF Take
  <2>3. SUFFICES ASSUME NEW r \in Requests, r <= taken + 1, answer'[r] = "none"
                 PROVE  \E v \in Workers : runner'[v].at # "idle" /\ runner'[v].task = r
      BY <2>1 DEF Pursued
  <2>4. CASE r = taken + 1
    <3>1. runner' = [runner EXCEPT ![w] = [at |-> "create", task |-> taken + 1]]
        BY <2>1, <2>2, <2>3, <2>4
    <3>2. runner'[w].at = "create" /\ runner'[w].task = r
        BY <2>1, <2>4, <3>1 DEF PoolInductive, PoolTypeOK
    <3>3. QED
        BY <1>2, <3>2
  <2>5. CASE r # taken + 1
    <3>1. answer'[r] = answer[r]
        BY <2>1, <2>2, <2>5
    <3>2. r <= taken /\ answer[r] = "none"
        BY <2>1, <2>3, <2>5, <3>1 DEF Requests
    <3>3. PICK v \in Workers : runner[v].at # "idle" /\ runner[v].task = r
        BY <3>2 DEF Pursued
    <3>4. v # w /\ v \in Runners
        BY <2>1, <3>3
    <3>5. runner'[v] = runner[v]
        BY <2>2, <3>4 DEF PoolInductive, PoolTypeOK
    <3>6. QED
        BY <3>3, <3>5
  <2>6. QED
      BY <2>4, <2>5
<1>3. ASSUME NEW w \in Terminals, Load(w) PROVE Pursued'
  <2>1. \A v \in Workers : v # w /\ v \in Runners
      BY PoolAssumption DEF Runners
  <2>2. w \in Runners /\ Acts(w)
      BY <1>3 DEF Runners, Acts
  <2>3. \A v \in Workers : runner'[v] = runner[v]
      BY <2>1, <2>2, PoolFrame DEF PoolInductive
  <2>4. answer' = answer /\ taken' = taken
      BY <1>3 DEF Load
  <2>5. QED
      BY <2>3, <2>4 DEF Pursued
<1>4. ASSUME NEW w \in Runners, RunnerStep(w) PROVE Pursued'
  <2> DEFINE t == runner[w].task
  <2>1. /\ t \in Requests /\ taken' = taken
        /\ \A r \in Requests : r # t => answer'[r] = answer[r]
        /\ \A v \in Runners : v # w => runner'[v] = runner[v]
      BY <1>4, AtWork
  <2>2. Effect(w, t)
      BY <1>4, WorkEffect
  <2>3. SUFFICES ASSUME NEW r \in Requests, r <= taken, answer'[r] = "none"
                 PROVE  \E v \in Workers : runner'[v].at # "idle" /\ runner'[v].task = r
      BY <2>1 DEF Pursued
  <2>4. answer[r] = "none"
    <3>1. CASE r # t
        BY <2>1, <2>3, <3>1
    <3>2. CASE r = t /\ w \in Workers
        BY <3>2, <1>4, <2>2, AtWork DEF Effect, PoolInductive, Owed
    <3>3. CASE r = t /\ w \notin Workers
      <4>1. answer' = answer
          BY <2>2, <3>3 DEF Effect
      <4>2. QED
          BY <2>3, <4>1
    <3>4. QED
        BY <3>1, <3>2, <3>3
  <2>5. PICK v \in Workers : runner[v].at # "idle" /\ runner[v].task = r
      BY <2>3, <2>4 DEF Pursued
  <2>6. CASE v # w
    <3>1. v \in Runners
        BY DEF Runners
    <3>2. QED
        BY <2>1, <2>5, <2>6, <3>1
  <2>7. CASE v = w
    <3>1. w \in Workers /\ t = r
        BY <2>5, <2>7
    <3>2. runner'[w].at \in {"created", "running", "written"} /\ runner'[w].task = t
        BY <2>2, <2>3, <3>1 DEF Effect
    <3>3. QED
        BY <3>1, <3>2
  <2>8. QED
      BY <2>6, <2>7
<1>5. QED
    BY <1>1, <1>2, <1>3, <1>4 DEF PoolNext

\* run_all never waits for an answer that no thread owes and none will come to owe,
\* whatever fails, whoever cancels and takes up tasks; max_workers is at least 1
\* (_resolve_max_workers).
THEOREM WaitsForSomebody == ASSUME Workers # {} PROVE PoolSpec => []SomebodyAnswers
<1>1. PoolInit => Pursued
    BY DEF PoolInit, Pursued, Requests
<1>2. PoolInductive /\ Pursued /\ [PoolNext]_poolVars => Pursued'
    BY PursuedStep
<1>3. PoolInductive /\ Pursued => SomebodyAnswers
  <2>1. SUFFICES ASSUME PoolInductive, Pursued, parent = "waits", ~ AllDone
                 PROVE  \E w \in Workers : runner[w].at # "idle" \/ MayTake(w)
      BY DEF SomebodyAnswers
  <2>2. PICK r \in Requests : answer[r] = "none"
      BY <2>1 DEF AllDone
  <2>3. CASE r <= taken
      BY <2>1, <2>2, <2>3 DEF Pursued
  <2>4. CASE ~ (r <= taken)
    <3>1. taken < MaxRequests
        BY <2>1, <2>4, PoolAssumption DEF Requests, PoolInductive, PoolTypeOK
    <3>2. PICK w \in Workers : TRUE
        OBVIOUS
    <3>3. QED
        BY <2>1, <3>1, <3>2 DEF MayTake
  <2>5. QED
      BY <2>3, <2>4
<1>4. QED
    BY <1>1, <1>2, <1>3, PoolInvariant, PTL DEF PoolSpec

\* The stage of a request that one thread has.
LEMMA StageIs ==
    ASSUME NEW ans, NEW run, NEW r, NEW w \in Workers, run[w].task = r, ans[r] = "none",
           \A v \in Workers \ {w} : run[v].task # r
    PROVE  /\ run[w].at = "create" => StageOf(ans, run, r) = 1
           /\ run[w].at = "created" => StageOf(ans, run, r) = 2
           /\ run[w].at = "running" => StageOf(ans, run, r) = 3
           /\ run[w].at = "written" => StageOf(ans, run, r) = 4
<1>1. {run[v].at : v \in {u \in Workers : run[u].task = r}} = {run[w].at}
    OBVIOUS
<1>2. QED
    BY <1>1 DEF StageOf

\* It does not change if the threads that have the request stay where they are.
LEMMA StageSame ==
    ASSUME NEW ans, NEW run, NEW ans2, NEW run2, NEW r, ans2[r] = ans[r],
           \A v \in Workers : run2[v] = run[v] \/ (run[v].task # r /\ run2[v].task # r)
    PROVE  StageOf(ans2, run2, r) = StageOf(ans, run, r)
<1>1. {run2[v].at : v \in {u \in Workers : run2[u].task = r}}
        = {run[v].at : v \in {u \in Workers : run[u].task = r}}
    OBVIOUS
<1>2. QED
    BY <1>1 DEF StageOf

LEMMA StageRange ==
    \A ans, run, r :
        StageOf(ans, run, r) \in 0..5 /\ (ans[r] # "none" => StageOf(ans, run, r) = 5)
BY DEF StageOf

\* A thread takes a request.
LEMMA TakeNearer ==
    ASSUME PoolInductive, NEW w \in Workers, Take(w), NEW r, r = taken + 1
    PROVE  /\ \A q \in Requests : Stage(q)' >= Stage(q)
           /\ \E q \in Requests : Stage(q)' > Stage(q)
<1>1. /\ w \in Runners /\ runner[w] = Idle /\ taken \in Nat /\ r \in Requests /\ taken' = r
      /\ \A v \in Workers : v \in Runners
      /\ answer \in [Requests -> Outcomes]
      /\ runner \in [Runners -> [at : {"idle", "create", "created", "running", "written"},
                               task : Requests \cup {NoTask}]]
    BY PoolAssumption
       DEF PoolInductive, PoolTypeOK, Busy, Runners, Take, MayTake, Requests
<1>2. \/ /\ answer' = answer
         /\ runner' = [runner EXCEPT ![w] = [at |-> "create", task |-> r]]
      \/ /\ runner' = runner
         /\ \E a \in {"refused", "cancelled"} : answer' = [answer EXCEPT ![r] = a]
    BY <1>1 DEF Take
<1>3. answer[r] = "none" /\ \A v \in Runners : runner[v].task # r
    BY <1>1, PoolAssumption
       DEF PoolInductive, PoolTypeOK, Busy, Owed, Idle, NoTask, Requests, Outcomes
<1>4. Idle.task \notin Requests
    BY DEF Idle, NoTask, Requests
<1>5. ASSUME NEW q \in Requests, q # r PROVE Stage(q)' = Stage(q)
  <2>1. answer'[q] = answer[q]
      BY <1>1, <1>2, <1>5
  <2>2. \A v \in Workers :
          runner'[v] = runner[v] \/ (runner[v].task # q /\ runner'[v].task # q)
    <3>1. ASSUME NEW v \in Workers, v = w, runner' # runner
          PROVE  runner[v].task # q /\ runner'[v].task # q
      <4>1. runner'[v] = [at |-> "create", task |-> r]
          BY <1>1, <1>2, <3>1
      <4>2. QED
          BY <1>1, <1>4, <1>5, <3>1, <4>1
    <3>2. \A v \in Workers : v # w => runner'[v] = runner[v]
        BY <1>1, <1>2
    <3>3. QED
        BY <3>1, <3>2
  <2>3. StageOf(answer', runner', q) = StageOf(answer, runner, q)
      BY <2>1, <2>2, StageSame
  <2>4. QED
      BY <2>3 DEF Stage
<1>6. Stage(r) = 0
  <2>1. {runner[v].at : v \in {u \in Workers : runner[u].task = r}} = {}
      BY <1>1, <1>3
  <2>2. QED
      BY <1>3, <2>1 DEF Stage, StageOf
<1>7. Stage(r)' > 0
  <2>1. CASE runner' = [runner EXCEPT ![w] = [at |-> "create", task |-> r]] /\ answer' = answer
    <3>1. /\ runner'[w] = [at |-> "create", task |-> r]
          /\ \A v \in Workers \ {w} : runner'[v] = runner[v]
        BY <1>1, <2>1
    <3>2. runner'[w].task = r /\ runner'[w].at = "create" /\ answer'[r] = "none"
          /\ \A v \in Workers \ {w} : runner'[v].task # r
        BY <1>1, <1>3, <2>1, <3>1
    <3>3. StageOf(answer', runner', r) = 1
        BY <3>2, StageIs
    <3>4. QED
        BY <1>1, <3>3 DEF Stage
  <2>2. CASE \E a \in {"refused", "cancelled"} : answer' = [answer EXCEPT ![r] = a]
    <3>1. answer'[r] # "none"
        BY <1>1, <2>2
    <3>2. StageOf(answer', runner', r) = 5
        BY <3>1, StageRange
    <3>3. QED
        BY <3>2 DEF Stage
  <2>3. QED
      BY <1>2, <2>1, <2>2
<1>8. \A q \in Requests : Stage(q) \in 0..5 /\ Stage(q)' \in 0..5
    BY StageRange DEF Stage
<1>9. \A q \in Requests : Stage(q)' >= Stage(q)
  <2>1. SUFFICES ASSUME NEW q \in Requests PROVE Stage(q)' >= Stage(q)
      OBVIOUS
  <2>2. CASE q = r
      BY <1>6, <1>7, <1>8, <2>2
  <2>3. CASE q # r
      BY <1>5, <1>8, <2>3
  <2>4. QED
      BY <2>2, <2>3
<1>10. QED
    BY <1>1, <1>6, <1>7, <1>9

\* A runner goes on with its task.
LEMMA RunnerNearer ==
    ASSUME PoolInductive, NEW w \in Runners, RunnerStep(w), NEW t, t = runner[w].task
    PROVE  /\ \A q \in Requests : Stage(q)' >= Stage(q)
           /\ w \in Workers => \E q \in Requests : Stage(q)' > Stage(q)
<1>1. /\ t \in Requests /\ t # NoTask
      /\ \A r \in Requests : r # t => answer'[r] = answer[r]
      /\ \A v \in Runners : v # w => runner'[v] = runner[v]
      /\ runner'[w].task = t \/ runner'[w] = Idle
      /\ \A v \in Workers : v \in Runners
    BY AtWork DEF Runners
<1>2. Effect(w, t)
    BY WorkEffect
<1>3. Idle.task \notin Requests
    BY DEF Idle, NoTask, Requests
<1>4. \A q \in Requests : Stage(q) \in 0..5 /\ Stage(q)' \in 0..5
    BY StageRange DEF Stage
<1>5. ASSUME NEW q \in Requests, q # t PROVE Stage(q)' = Stage(q)
  <2>1. \A v \in Workers :
          runner'[v] = runner[v] \/ (runner[v].task # q /\ runner'[v].task # q)
      BY <1>1, <1>3, <1>5
  <2>2. StageOf(answer', runner', q) = StageOf(answer, runner, q)
      BY <1>1, <1>5, <2>1, StageSame
  <2>3. QED
      BY <2>2 DEF Stage
<1>6. CASE w \notin Workers
  <2>1. answer' = answer /\ \A v \in Workers : runner'[v] = runner[v]
      BY <1>1, <1>2, <1>6 DEF Effect
  <2>2. \A q \in Requests : StageOf(answer', runner', q) = StageOf(answer, runner, q)
      BY <2>1, StageSame
  <2>3. QED
      BY <1>4, <1>6, <2>2 DEF Stage
<1>7. CASE w \in Workers
  <2>1. runner[w].at \in {"create", "created", "running", "written"}
      BY <1>2 DEF Effect
  <2>2. answer[t] = "none" /\ \A v \in Workers \ {w} : runner[v].task # t
      BY <1>7, <2>1 DEF PoolInductive, Owed
  <2>3. Stage(t) <= 4 /\
        /\ runner[w].at = "create" => Stage(t) = 1
        /\ runner[w].at = "created" => Stage(t) = 2
        /\ runner[w].at = "running" => Stage(t) = 3
      BY <1>7, <2>1, <2>2, StageIs DEF Stage
  <2>4. CASE runner'[w] = Idle
    <3>1. answer'[t] # "none"
        BY <1>2, <1>7, <2>4 DEF Effect, Idle
    <3>2. StageOf(answer', runner', t) = 5
        BY <3>1, StageRange
    <3>3. Stage(t)' > Stage(t)
        BY <1>1, <1>4, <2>3, <3>2 DEF Stage
    <3>4. QED
        BY <1>1, <1>4, <1>5, <3>3
  <2>5. CASE runner'[w] # Idle
    <3>1. /\ runner'[w].task = t /\ answer'[t] = "none"
          /\ \/ runner[w].at = "create" /\ runner'[w].at = "created"
             \/ runner[w].at = "created" /\ runner'[w].at = "running"
             \/ runner[w].at = "running" /\ runner'[w].at = "written"
        BY <1>2, <2>2, <2>5 DEF Effect
    <3>2. \A v \in Workers \ {w} : runner'[v].task # t
        BY <1>1, <2>2
    <3>3. /\ runner'[w].at = "created" => StageOf(answer', runner', t) = 2
          /\ runner'[w].at = "running" => StageOf(answer', runner', t) = 3
          /\ runner'[w].at = "written" => StageOf(answer', runner', t) = 4
        BY <1>7, <3>1, <3>2, StageIs
    <3>4. Stage(t)' > Stage(t)
        BY <2>3, <3>1, <3>3 DEF Stage
    <3>5. QED
        BY <1>1, <1>4, <1>5, <3>4
  <2>6. QED
      BY <2>4, <2>5
<1>8. QED
    BY <1>6, <1>7

\* Five steps of a thread answer a request, and none is undone by another runner, a
\* failure or a cancellation (subagents/pool.py, run_all).
THEOREM RunAllProgresses == PoolSpec => [][AnswersComeNearer]_poolVars
<1>1. ASSUME PoolInductive, [PoolNext]_poolVars PROVE [AnswersComeNearer]_poolVars
  <2>1. ASSUME UNCHANGED <<answer, runner>> PROVE \A q \in Requests : Stage(q)' >= Stage(q)
    <3>1. \A q \in Requests : Stage(q)' = Stage(q) /\ Stage(q) \in 0..5
        BY <2>1, StageRange DEF Stage
    <3>2. QED
        BY <3>1
  <2>2. SUFFICES ASSUME PoolNext PROVE AnswersComeNearer
      BY <1>1
  <2>3. \A q \in Requests : Stage(q)' >= Stage(q)
    <3>1. CASE RunAll \/ Cancel \/ ReturnAll
        BY <2>1, <3>1 DEF RunAll, Cancel, ReturnAll
    <3>2. ASSUME NEW w \in Workers, Take(w) PROVE \A q \in Requests : Stage(q)' >= Stage(q)
        BY <1>1, <3>2, TakeNearer
    <3>3. ASSUME NEW w \in Runners, RunnerStep(w) PROVE \A q \in Requests : Stage(q)' >= Stage(q)
        BY <1>1, <3>3, RunnerNearer
    <3>4. ASSUME NEW w \in Terminals, Load(w) PROVE \A q \in Requests : Stage(q)' >= Stage(q)
      <4>1. \A v \in Workers : v # w /\ v \in Runners
          BY PoolAssumption DEF Runners
      <4>2. w \in Runners /\ Acts(w)
          BY <3>4 DEF Runners, Acts
      <4>3. answer' = answer /\ \A v \in Workers : runner'[v] = runner[v]
          BY <1>1, <3>4, <4>1, <4>2, PoolFrame DEF PoolInductive, Load
      <4>4. \A q \in Requests : StageOf(answer', runner', q) = StageOf(answer, runner, q)
          BY <4>3, StageSame
      <4>5. \A q \in Requests : Stage(q) \in 0..5
          BY StageRange DEF Stage
      <4>6. QED
          BY <4>4, <4>5 DEF Stage
    <3>5. QED
        BY <2>2, <3>1, <3>2, <3>3, <3>4 DEF PoolNext
  <2>4. ASSUME NEW w \in Workers, Take(w) \/ RunnerStep(w)
        PROVE  \E q \in Requests : Stage(q)' > Stage(q)
    <3>1. w \in Runners
        BY DEF Runners
    <3>2. QED
        BY <1>1, <2>4, <3>1, TakeNearer, RunnerNearer
  <2>5. QED
      BY <2>3, <2>4 DEF AnswersComeNearer
<1>2. QED
    BY <1>1, PoolInvariant, PTL DEF PoolSpec

-----------------------------------------------------------------------------
(* StdioCall: what a call leaves behind and when it says that it succeeded. *)

\* Every variable has its type, and every step of the call finds the child and the
\* thread as the steps before it left them.
CallTypeOK ==
    /\ caller \in {"start", "write", "join", "reap", "returned"}
    /\ result \in {"none", "failed", "overflow", "timeout", "silent", "refused", "error", "success"}
    /\ child \in {"none", "up", "gone"} /\ thread \in {"off", "reads", "done", "over"}
    /\ large \in BOOLEAN /\ took \in BOOLEAN /\ first \in Lines
    /\ wrote \in Nat /\ got \in 0..wrote
    /\ holders \subseteq {"child", "grandchild"}

StepsInOrder ==
    /\ caller = "start" => child = "none" /\ holders = {} /\ thread = "off" /\ result = "none"
    /\ caller = "write" => child # "none" /\ thread = "off" /\ result = "none"
    /\ caller = "join" => child # "none" /\ thread # "off" /\ result = "none"
    /\ caller = "reap" => child # "none" /\ thread = "done" /\ result = "none"
    /\ caller = "returned" => child # "up"

\* The thread has seen the end of the output, or more of it than is allowed.
ThreadKnows ==
    /\ thread = "done" => holders = {} /\ got = wrote
    /\ thread = "over" <=> got > MaxOutput

Succeeded == result = "success" => thread = "done" /\ got > 0 /\ first = "answer"

CallInductive == CallTypeOK /\ StepsInOrder /\ ThreadKnows /\ Succeeded

\* A call that has returned left no child behind.  It succeeds only with an answer:
\* the whole of what the child wrote, which is not empty and within the limit.
ReturnsClean ==
    caller = "returned" =>
        /\ child # "up"
        /\ result = "success" => first = "answer" /\ got = wrote /\ got \in 1..MaxOutput
                                 /\ holders = {}

\* The condition of the next step of a call.
CallerMay ==
    \/ caller = "write" /\ (child = "gone" \/ (child = "up" /\ (large => took)))
    \/ caller = "join" /\ thread \in {"reads", "done", "over"}
    \/ caller = "reap"

\* A call waits for the child only to write a request larger than a pipe.
WaitsOnlyToWrite ==
    caller \notin {"start", "returned"} =>
        CallerMay \/ (caller = "write" /\ large /\ child = "up" /\ ~ took)

\* The steps of the caller and of its thread.
LEMMA CallStep ==
    ASSUME CallInductive, Popen \/ Call \/ ReadPiece PROVE CallInductive'
<1> USE CallAssumption
       DEF CallInductive, CallTypeOK, StepsInOrder, ThreadKnows, Succeeded, childVars
<1>1. CASE Popen
    BY <1>1 DEF Popen, Return
<1>2. CASE WriteRequest
    BY <1>2 DEF WriteRequest, Return
<1>3. CASE JoinEnds
    BY <1>3 DEF JoinEnds, Return, ChildEnds
<1>4. CASE Reap
  <2>1. got = 0 => result' = "silent"
      BY <1>4 DEF Reap, Return, Lines
  <2>2. got # 0 /\ first = "other" => result' = "refused"
      BY <1>4 DEF Reap, Return, Lines
  <2>3. got # 0 /\ first = "error" => result' = "error"
      BY <1>4 DEF Reap, Return, Lines
  <2>4. got # 0 /\ first = "answer" => result' = "success"
      BY <1>4 DEF Reap, Return, Lines
  <2>5. /\ result' \in {"silent", "refused", "error", "success"}
        /\ result' = "success" => got > 0 /\ first = "answer"
      BY <2>1, <2>2, <2>3, <2>4 DEF Lines
  <2>6. QED
      BY <1>4, <2>5 DEF Reap, Return, ChildEnds
<1>5. CASE ReadPiece
    BY <1>5 DEF ReadPiece
<1>6. QED
    BY <1>1, <1>2, <1>3, <1>4, <1>5 DEF Call

\* The steps of the child.
LEMMA ChildStep ==
    ASSUME CallInductive, ReadRequest \/ WritePiece \/ Inherit \/ CloseStdout \/ Exit
    PROVE  CallInductive'
<1> USE CallAssumption
       DEF CallInductive, CallTypeOK, StepsInOrder, ThreadKnows, Succeeded, childVars
<1>1. CASE ReadRequest
    BY <1>1 DEF ReadRequest
<1>2. CASE WritePiece
  <2>1. /\ holders # {} /\ wrote' = wrote + 1 /\ thread # "done"
        /\ UNCHANGED <<caller, result, large, child, took, holders, got, thread>>
      BY <1>2 DEF WritePiece
  <2>2. first' \in Lines /\ (wrote # 0 => first' = first)
      BY <1>2 DEF WritePiece
  <2>3. result # "success"
      BY <2>1
  <2>4. QED
      BY <2>1, <2>2, <2>3
<1>3. CASE Inherit
    BY <1>3 DEF Inherit
<1>4. CASE CloseStdout
    BY <1>4 DEF CloseStdout
<1>5. CASE Exit
    BY <1>5 DEF Exit, ChildEnds
<1>6. QED
    BY <1>1, <1>2, <1>3, <1>4, <1>5

THEOREM CallInvariant == CallSpec => []CallInductive
<1>1. CallInit => CallInductive
  <2>1. CallInit => CallTypeOK /\ StepsInOrder
    <3>1. CallInit => large \in BOOLEAN /\ took \in BOOLEAN /\ first \in Lines
        BY Zenon DEF CallInit, Lines
    <3>2. CallInit => wrote \in Nat /\ got \in 0..wrote
        BY DEF CallInit
    <3>3. CallInit => /\ caller = "start" /\ result = "none" /\ child = "none"
                      /\ holders = {} /\ thread = "off"
        BY DEF CallInit
    <3>4. QED
        BY <3>1, <3>2, <3>3 DEF CallTypeOK, StepsInOrder
  <2>2. CallInit => ThreadKnows /\ Succeeded
      BY CallAssumption DEF CallInit, ThreadKnows, Succeeded
  <2>3. QED
      BY <2>1, <2>2 DEF CallInductive
<1>2. CallInductive /\ [CallNext]_callVars => CallInductive'
  <2>1. CASE UNCHANGED callVars
      BY <2>1 DEF callVars, CallInductive, CallTypeOK, StepsInOrder, ThreadKnows, Succeeded
  <2>2. QED
      BY <2>1, CallStep, ChildStep DEF CallNext
<1>3. QED
    BY <1>1, <1>2, PTL DEF CallSpec

\* Whatever the child does, and whatever it leaves open to a child of its own
\* (call_stdio and _read_stdout in mcp/transport_stdio.py): a call that is over left
\* no child, and its success rests on the whole output, read within the limit.
THEOREM CallsReturnClean == CallSpec => []ReturnsClean
<1>1. CallInductive => ReturnsClean
    BY CallAssumption
       DEF CallInductive, CallTypeOK, StepsInOrder, ThreadKnows, Succeeded, ReturnsClean
<1>2. QED
    BY <1>1, CallInvariant, PTL

\* The one place where a call can hang is the write of a request larger than a pipe
\* to a child that does not read it: everywhere else its next step is possible.
THEOREM CallsWaitOnlyToWrite == CallSpec => []WaitsOnlyToWrite
<1>1. CallInductive => WaitsOnlyToWrite
    BY DEF CallInductive, CallTypeOK, StepsInOrder, WaitsOnlyToWrite, CallerMay
<1>2. QED
    BY <1>1, CallInvariant, PTL
=============================================================================
