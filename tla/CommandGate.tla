----------------------------- MODULE CommandGate -----------------------------
(***************************************************************************)
(* Commands and lifecycle hooks under the effective configuration          *)
(* (policy/commands.py, shell/runner.py, hooks/runner.py,                  *)
(* hooks/approvals.py, and the entry points sac run, sac test run, the     *)
(* run_command tool and the apply of a patch).                             *)
(*                                                                         *)
(* Every entry point loads the configuration once and works with it to its *)
(* end, while an editor changes both files.  Approvals of hooks are lines  *)
(* of a file that every process of the user appends to and reads.          *)
(***************************************************************************)
EXTENDS ConfigMerge

CONSTANTS
    Hosts,      \* the hosts a command may name
    Commands,   \* what the user and the agent ask to run
    Shells,     \* processes
    Uses,       \* per process: the entry points it is started for
    UserFiles, ProjectFiles, EnvPolicies,
    Nothing,
    Fragment,   \* the beginning of a line
    MaxConfigEdits, MaxHookApprovals, MaxTornLines

Entries == {"run", "test", "run_command", "apply", "approve"}

NoNetwork == "offline"
NoHost == "nohost"

\* What the code tells commands apart by; refused is the verdict on their arguments.
Command ==
    [exe : STRING, risk : {"low", "medium", "high"}, refused : BOOLEAN,
     contacts : Hosts \cup {NoNetwork, NoHost}, test : BOOLEAN]

ASSUME CommandAssumption ==
    /\ Hosts \cap {NoNetwork, NoHost} = {}
    /\ Commands \subseteq Command
    /\ UserFiles \cup ProjectFiles \subseteq [named : BOOLEAN, settings : Settings(Command)]
    /\ Uses \in [Shells -> SUBSET Entries]
    /\ {MaxConfigEdits, MaxHookApprovals, MaxTornLines} \subseteq Nat

VARIABLES
    userFile, projectFile,
    envPolicy,  \* SAFECODE_POLICY of every process
    stored,     \* the whole lines of the approval file
    tail,       \* what follows its last newline
    \* the locals of a process
    doing,
    read,       \* the two files as it loaded them
    entry,      \* the command of the CLI or the tool
    asked,      \* the command it was asked to run, or the hook to approve
    approved,
    stage,      \* the hook stage it is in
    queue,      \* commands of that stage yet to run
    \* history, read by the properties only
    ran,        \* per process: what it executed last
    given,      \* every approval the user gave, and the settings it was given under
    lapsed,     \* the numbers of those that have expired
    changes     \* edits of the files and torn lines so far

files == <<userFile, projectFile, envPolicy>>
approvalFile == <<stored, tail>>
choice == <<read, entry, asked, approved>>
progress == <<doing, stage, queue>>
gateVars == <<files, approvalFile, choice, progress, ran, given, lapsed, changes>>

Config(p) == Load(read[p].user, read[p].project, envPolicy)

\* SafeCodeConfig.load at the start of a command.
Loads(p, e) ==
    /\ doing[p] = "idle"
    /\ e \in Uses[p]
    /\ read' = [read EXCEPT ![p] = [user |-> userFile, project |-> projectFile]]
    /\ entry' = [entry EXCEPT ![p] = e]

-----------------------------------------------------------------------------
(* Policy *)

\* CommandPolicy.evaluate
Decision(config, c, yes) ==
    IF c.refused \/ c.exe \notin config.allowed_commands THEN "blocked"
    ELSE IF c.risk = "high" /\ config.block_high_risk THEN "blocked"
    ELSE IF c.risk = "medium" /\ config.require_confirm_for_medium /\ ~ yes THEN "approval_required"
    ELSE "allowed"

\* ShellRunner._check_network_policy
NetworkBlocks(config, c) ==
    /\ c.contacts # NoNetwork
    /\ \/ ~ config.network_enabled
       \/ config.network_allowlist # {} /\ c.contacts \notin config.network_allowlist

\* ShellRunner.run executes the command.
Executes(config, c, yes) == Decision(config, c, yes) = "allowed" /\ ~ NetworkBlocks(config, c)

-----------------------------------------------------------------------------
(* Approvals of hooks *)

\* Mutant: of the settings only the policy's name is hashed.
HashPolicy(config) == [policy |-> config.policy]

\* config_hash: the settings an approval is good for.
ConfigHash(config) ==
    [k \in {"allow_medium_after_apply", "hooks", "allowed_commands", "require_confirm_for_medium",
            "block_high_risk", "policy"} |-> config[k]]

\* The commands worth approving, low risk needing none, and their stages.
HookCommands(hooks) ==
    {c \in UNION {{hooks[s][i] : i \in DOMAIN hooks[s]} : s \in HookStages} : c.risk = "medium"}

\* The lines of the file that parse.
Listed == stored \cup (IF tail \in {Nothing, Fragment} THEN {} ELSE {tail})

\* is_approved; the user is the same for every process.
IsApproved(config, hook, c) ==
    \E a \in Listed :
        /\ a.hook = hook /\ a.command = c /\ a.hash = ConfigHash(config)
        /\ a.number \notin lapsed

\* sac hooks approve
StartHookApproval(p) ==
    /\ Loads(p, "approve")
    /\ Cardinality(given) + Cardinality({q \in Shells : entry[q] = "approve"}) < MaxHookApprovals
    /\ doing' = [doing EXCEPT ![p] = "approve"]
    /\ \E hook \in HookStages, c \in HookCommands(projectFile.settings.hooks) :
        /\ projectFile.settings.hooks[hook] # <<>>
        /\ stage' = [stage EXCEPT ![p] = hook]
        /\ asked' = [asked EXCEPT ![p] = c]
    /\ UNCHANGED <<files, approvalFile, approved, queue, ran, given, lapsed, changes>>

\* The process ends, or the call of the tool returns.
Quit(p) ==
    /\ doing' = [doing EXCEPT ![p] = "idle"]
    /\ read' = [read EXCEPT ![p] = Nothing]
    /\ entry' = [entry EXCEPT ![p] = Nothing]
    /\ asked' = [asked EXCEPT ![p] = Nothing]
    /\ approved' = [approved EXCEPT ![p] = FALSE]
    /\ stage' = [stage EXCEPT ![p] = Nothing]
    /\ queue' = [queue EXCEPT ![p] = <<>>]
    /\ ran' = [ran EXCEPT ![p] = Nothing]

\* The approval that p appends; its number stands for its times.
NewApproval(p) ==
    [number |-> Cardinality(given) + 1, hook |-> stage[p], command |-> asked[p],
     hash |-> ConfigHash(Config(p))]

Given(p) == given' = given \cup {[approval |-> NewApproval(p), config |-> Config(p)]}

\* A line that is appended to a fragment, or to a line without its newline,
\* makes one line of both that does not parse.
AppendApproval(p) ==
    /\ doing[p] = "approve"
    /\ stored' = IF tail = Nothing THEN stored \cup {NewApproval(p)} ELSE stored
    /\ tail' = Nothing
    /\ Given(p)
    /\ Quit(p)
    /\ UNCHANGED <<files, lapsed, changes>>

\* The disk fills up or the process is killed before the newline.
TearApproval(p) ==
    /\ doing[p] = "approve"
    /\ changes.torn < MaxTornLines
    /\ changes' = [changes EXCEPT !.torn = @ + 1]
    /\ tail' \in {Fragment} \cup (IF tail = Nothing THEN {NewApproval(p)} ELSE {})
    /\ Given(p)
    /\ Quit(p)
    /\ UNCHANGED <<files, stored, lapsed>>

-----------------------------------------------------------------------------
(* Entry points *)

\* sac run and sac test run load the configuration and ask.
StartCommand(p) ==
    /\ \E e \in {"run", "test"} : Loads(p, e)
    /\ \E c \in Commands : asked' = [asked EXCEPT ![p] = c]
    /\ doing' = [doing EXCEPT ![p] = "ask"]
    /\ UNCHANGED <<files, approvalFile, approved, stage, queue, ran, given, lapsed, changes>>

\* --yes or the answer to the prompt; sac test run never takes one for a
\* command of high risk.
Answer(p) ==
    /\ doing[p] = "ask"
    /\ \E yes \in BOOLEAN :
        /\ entry[p] = "test" /\ (asked[p].refused \/ asked[p].risk = "high") => ~ yes
        /\ approved' = [approved EXCEPT ![p] = yes]
    /\ doing' = [doing EXCEPT ![p] = IF entry[p] = "test" THEN "run" ELSE "propose"]
    /\ UNCHANGED <<files, approvalFile, read, entry, asked, stage, queue, ran, given, lapsed, changes>>

\* The run_command tool: what the loop hands to it counts as approved.
StartTool(p) ==
    /\ Loads(p, "run_command")
    /\ \E c \in Commands : asked' = [asked EXCEPT ![p] = c]
    /\ approved' = [approved EXCEPT ![p] = TRUE]
    /\ doing' = [doing EXCEPT ![p] = "propose"]
    /\ UNCHANGED <<files, approvalFile, stage, queue, ran, given, lapsed, changes>>

EnterStage(p, s) ==
    /\ doing' = [doing EXCEPT ![p] = "hooks"]
    /\ stage' = [stage EXCEPT ![p] = s]
    /\ queue' = [queue EXCEPT ![p] = Config(p).hooks[s]]

\* before_command runs if the policy would allow the command.
Propose(p) ==
    /\ doing[p] = "propose"
    /\ IF Decision(Config(p), asked[p], approved[p]) = "allowed"
       THEN EnterStage(p, "before_command")
       ELSE doing' = [doing EXCEPT ![p] = "run"] /\ UNCHANGED <<stage, queue>>
    /\ UNCHANGED <<files, approvalFile, choice, ran, given, lapsed, changes>>

\* The hooks of an apply, with the configuration the orchestrator was made with.
StartApplyHooks(p) ==
    /\ Loads(p, "apply")
    /\ doing' = [doing EXCEPT ![p] = "applied"]
    /\ UNCHANGED <<files, approvalFile, asked, approved, stage, queue, ran, given, lapsed, changes>>

AfterEdit(p) ==
    /\ doing[p] = "applied"
    /\ EnterStage(p, "after_edit")
    /\ UNCHANGED <<files, approvalFile, choice, ran, given, lapsed, changes>>

Execution(p, c, s, yes) ==
    [command |-> c, stage |-> s, approved |-> yes, live |-> (1 .. Cardinality(given)) \ lapsed]

HookConsent(p, c) ==
    Config(p).allow_medium_after_apply /\ IsApproved(Config(p), stage[p], c)

\* HookRunner.run_stage, one command; without consent it still runs where the
\* policy asks for none.
RunHook(p) ==
    /\ doing[p] = "hooks" /\ queue[p] # <<>>
    /\ LET c == Head(queue[p])
           yes == HookConsent(p, c)
       IN  ran' = IF Executes(Config(p), c, yes)
                  THEN [ran EXCEPT ![p] = Execution(p, c, stage[p], yes)] ELSE ran
    /\ queue' = [queue EXCEPT ![p] = Tail(@)]
    /\ UNCHANGED <<files, approvalFile, choice, doing, stage, given, lapsed, changes>>

StageDone(p) ==
    /\ doing[p] = "hooks" /\ queue[p] = <<>>
    /\ CASE stage[p] = "before_command" ->
                /\ doing' = [doing EXCEPT ![p] = "run"]
                /\ stage' = [stage EXCEPT ![p] = Nothing]
                /\ UNCHANGED <<choice, queue, ran>>
         [] stage[p] = "after_edit" -> EnterStage(p, "after_apply") /\ UNCHANGED <<choice, ran>>
         [] OTHER -> Quit(p)
    /\ UNCHANGED <<files, approvalFile, given, lapsed, changes>>

\* The command itself; the hooks of a test run whether it was executed or not.
RunCommand(p) ==
    /\ doing[p] = "run"
    /\ ran' = IF Executes(Config(p), asked[p], approved[p])
              THEN [ran EXCEPT ![p] = Execution(p, asked[p], "command", approved[p])] ELSE ran
    /\ IF asked[p].test /\ entry[p] # "test"
       THEN EnterStage(p, "after_test")
       ELSE doing' = [doing EXCEPT ![p] = "done"] /\ UNCHANGED <<stage, queue>>
    /\ UNCHANGED <<files, approvalFile, choice, given, lapsed, changes>>

\* The command returns; at any other step it is a Ctrl-C, a kill or an audit
\* write that raises.
End(p) ==
    /\ doing[p] \notin {"idle", "approve"}
    /\ Quit(p)
    /\ UNCHANGED <<files, approvalFile, given, lapsed, changes>>

-----------------------------------------------------------------------------
(* The environment *)

EditConfig ==
    /\ changes.edits < MaxConfigEdits
    /\ changes' = [changes EXCEPT !.edits = @ + 1]
    /\ \/ userFile' \in UserFiles \ {userFile} /\ UNCHANGED projectFile
       \/ projectFile' \in ProjectFiles \ {projectFile} /\ UNCHANGED userFile
    /\ UNCHANGED <<envPolicy, approvalFile, choice, progress, ran, given, lapsed>>

ApprovalExpires ==
    /\ \E n \in (1 .. Cardinality(given)) \ lapsed : lapsed' = lapsed \cup {n}
    /\ UNCHANGED <<files, approvalFile, choice, progress, ran, given, changes>>

StartWith(users, projects) ==
    /\ userFile \in users
    /\ projectFile \in projects
    /\ envPolicy \in EnvPolicies
    /\ stored = {} /\ tail = Nothing
    /\ doing = [p \in Shells |-> "idle"]
    /\ read = [p \in Shells |-> Nothing]
    /\ entry = [p \in Shells |-> Nothing]
    /\ asked = [p \in Shells |-> Nothing]
    /\ approved = [p \in Shells |-> FALSE]
    /\ stage = [p \in Shells |-> Nothing]
    /\ queue = [p \in Shells |-> <<>>]
    /\ ran = [p \in Shells |-> Nothing]
    /\ given = {} /\ lapsed = {}
    /\ changes = [edits |-> 0, torn |-> 0]

GateInit == StartWith(UserFiles, ProjectFiles)

GateNext ==
    \/ \E p \in Shells :
        \/ StartHookApproval(p) \/ AppendApproval(p) \/ TearApproval(p)
        \/ StartCommand(p) \/ Answer(p) \/ StartTool(p) \/ Propose(p) \/ RunCommand(p)
        \/ StartApplyHooks(p) \/ AfterEdit(p) \/ RunHook(p) \/ StageDone(p) \/ End(p)
    \/ EditConfig
    \/ ApprovalExpires

GateSpec == GateInit /\ [][GateNext]_gateVars

-----------------------------------------------------------------------------
(* Properties *)

\* The two ways in which a project file loosens what the user's file says.
Loosens(user, project) ==
    PresetIsTheProjects(user, project, envPolicy) \/ HostsAreDisjoint(user, project)

\* config.py:329-407: whatever the two files and SAFECODE_POLICY say, the
\* effective configuration is as strict as the user's own, unless a preset
\* comes with the project's policy key alone or the two lists of hosts have
\* nothing in common.
TightensWithin ==
    Loosens(userFile, projectFile)
    \/ AsStrict(Load(userFile, projectFile, envPolicy), Own(userFile, envPolicy))

\* What p executed last is what the user's file, as p loaded it, lets run.
AllowedByTheUser(p) == Executes(Own(read[p].user, envPolicy), ran[p].command, ran[p].approved)

\* Policy, configuration and hooks together: whatever sac run, a test run, the
\* agent's tool or a hook of the project executes, the user's own file would
\* have let run, but for the same two cases.
RunsAreTheUsers ==
    \A p \in Shells :
        ran[p] # Nothing /\ ~ Loosens(read[p].user, read[p].project) => AllowedByTheUser(p)

\* config.py:330 "Merge configs so project config cannot lower user-level
\* safety.": the same without exception.
ProjectCannotLower == \A p \in Shells : ran[p] # Nothing => AllowedByTheUser(p)

\* hooks/approvals.py: a hook that runs as approved has an approval, for its
\* stage and under settings equal to those it runs with, that had not expired,
\* whatever was appended, torn or edited in between.
HooksArePermitted ==
    \A p \in Shells :
        ran[p] # Nothing /\ ran[p].stage \in HookStages
        /\ ran[p].command.risk = "medium" /\ Config(p).require_confirm_for_medium =>
            \E g \in given :
                /\ g.approval.number \in ran[p].live
                /\ g.approval.hook = ran[p].stage /\ g.approval.command = ran[p].command
                /\ g.config.allow_medium_after_apply
                /\ g.config.hooks = Config(p).hooks
                /\ g.config.allowed_commands = Config(p).allowed_commands
=============================================================================
