----------------------------- MODULE ConfigMerge -----------------------------
(***************************************************************************)
(* The effective configuration (config.py): the user's config.toml, the    *)
(* project's .sac/config.toml and SAFECODE_POLICY make one set of settings *)
(* that the project must not make laxer than the user's.                   *)
(*                                                                         *)
(* A file is the settings it yields, what it leaves out being the default, *)
(* and whether it has a `policy` key.  Commands, hosts and paths are sets. *)
(***************************************************************************)
EXTENDS Integers, FiniteSets, Sequences

NoCap == -1    \* a cap that is not set

HookStages == {"before_command", "after_edit", "after_test", "after_apply"}

-----------------------------------------------------------------------------
(* Policy names *)

PolicyOrder ==
    [experimental |-> 0, learning |-> 0, balanced |-> 1, normal |-> 1, strict |-> 2]

Known(name) == name \in DOMAIN PolicyOrder

\* Mutant: an unknown name on the right wins like any other.
LastNamed(left, right) ==
    IF Known(left) /\ Known(right) /\ PolicyOrder[left] >= PolicyOrder[right] THEN left ELSE right

StricterPolicy(left, right) ==
    LET rank == IF Known(left) THEN PolicyOrder[left] ELSE PolicyOrder["balanced"]
    IN  IF Known(right) => rank >= PolicyOrder[right] THEN left ELSE right

Canonical(name) ==
    CASE name = "normal" -> "balanced" [] name = "learning" -> "experimental" [] OTHER -> name

ModeOrder(mode) ==
    CASE mode = "full-auto" -> 0 [] mode = "auto-edit" -> 1 [] OTHER -> 2

StricterMode(left, right) == IF ModeOrder(left) >= ModeOrder(right) THEN left ELSE right

-----------------------------------------------------------------------------
(* Settings *)

Defaults ==
    [limits |-> [max_tree_files |-> 200, max_file_lines |-> 300, max_file_bytes |-> 200000,
                 max_context_chars |-> 40000, default_timeout_seconds |-> 30,
                 auto_max_files |-> 1, auto_max_changed_lines |-> 30],
     caps |-> [max_tokens_per_session |-> NoCap, fallback_on_usd |-> NoCap],
     policy |-> "balanced",
     allowed_commands |-> {"pwd", "ls", "echo", "git"},
     require_confirm_for_medium |-> TRUE,
     block_high_risk |-> TRUE,
     restrict_to_project_root |-> TRUE,
     network_enabled |-> FALSE,
     network_allowlist |-> {},
     sensitive_names |-> {".env", ".ssh", "token"},
     hooks |-> [s \in HookStages |-> <<>>],
     allow_medium_after_apply |-> FALSE,
     mode |-> "suggest",
     never_auto_paths |-> {".env", ".sac/", "pyproject.toml", "uv.lock"},
     formatter_enabled |-> FALSE,
     llm |-> "mock"]

\* The settings a file may yield; an unknown name of a policy or a mode is kept.
Settings(commands) ==
    [limits : [DOMAIN Defaults.limits -> Int],
     caps : [DOMAIN Defaults.caps -> Int],
     policy : STRING,
     allowed_commands : SUBSET STRING,
     require_confirm_for_medium : BOOLEAN,
     block_high_risk : BOOLEAN,
     restrict_to_project_root : BOOLEAN,
     network_enabled : BOOLEAN,
     network_allowlist : SUBSET STRING,
     sensitive_names : SUBSET STRING,
     hooks : [HookStages -> Seq(commands)],
     allow_medium_after_apply : BOOLEAN,
     mode : STRING,
     never_auto_paths : SUBSET STRING,
     formatter_enabled : BOOLEAN,
     llm : STRING]

NoFile == [named |-> FALSE, settings |-> Defaults]

\* The knobs that a preset sets; the others it leaves alone.
Preset(confirm, commands, medium) ==
    [require_confirm_for_medium |-> confirm, block_high_risk |-> TRUE, allowed_commands |-> commands,
     restrict_to_project_root |-> TRUE, network_enabled |-> FALSE, network_allowlist |-> {},
     allow_medium_after_apply |-> medium]

PolicyPresets ==
    [strict |-> Preset(TRUE, {"git", "ls", "pwd"}, FALSE),
     balanced |-> Preset(TRUE, {"echo", "git", "ls", "pwd"}, FALSE),
     experimental |-> Preset(FALSE, {"cat", "echo", "find", "git", "grep", "ls", "pwd"}, TRUE)]

HasPreset(c) == Canonical(c.policy) \in DOMAIN PolicyPresets

WithPreset(c) ==
    LET p == PolicyPresets[Canonical(c.policy)]
    IN  IF ~ HasPreset(c) THEN c
        ELSE [c EXCEPT
                !.require_confirm_for_medium = p.require_confirm_for_medium,
                !.block_high_risk = p.block_high_risk,
                !.allowed_commands = p.allowed_commands,
                !.restrict_to_project_root = p.restrict_to_project_root,
                !.network_enabled = p.network_enabled,
                !.network_allowlist = p.network_allowlist,
                !.allow_medium_after_apply = p.allow_medium_after_apply]

LowerOf(a, b) == IF a < b THEN a ELSE b

LowerCap(a, b) ==
    CASE a = NoCap -> b [] b = NoCap -> a [] OTHER -> LowerOf(a, b)

\* Where the two lists have nothing in common the user's stays.
SharedCommands(user, project) ==
    IF user \cap project = {} THEN user ELSE user \cap project

\* Mutant: the project's list takes the place of the user's.
ProjectsHosts(user, project) == project

\* An empty list allows every host.
SharedHosts(user, project) ==
    CASE user = {} -> project [] project = {} -> user [] OTHER -> user \cap project

\* merge_trusted_config: the llm and trust tables are the user's, the hooks the project's.
Merge(user, project) ==
    [limits |-> [k \in DOMAIN user.limits |-> LowerOf(user.limits[k], project.limits[k])],
     caps |-> [k \in DOMAIN user.caps |-> LowerCap(user.caps[k], project.caps[k])],
     policy |-> StricterPolicy(user.policy, project.policy),
     allowed_commands |-> SharedCommands(user.allowed_commands, project.allowed_commands),
     require_confirm_for_medium |->
        user.require_confirm_for_medium \/ project.require_confirm_for_medium,
     block_high_risk |-> user.block_high_risk \/ project.block_high_risk,
     restrict_to_project_root |-> user.restrict_to_project_root \/ project.restrict_to_project_root,
     network_enabled |-> user.network_enabled /\ project.network_enabled,
     network_allowlist |-> SharedHosts(user.network_allowlist, project.network_allowlist),
     sensitive_names |-> user.sensitive_names \cup project.sensitive_names,
     hooks |-> project.hooks,
     allow_medium_after_apply |-> user.allow_medium_after_apply /\ project.allow_medium_after_apply,
     mode |-> StricterMode(user.mode, project.mode),
     never_auto_paths |-> user.never_auto_paths \cup project.never_auto_paths,
     formatter_enabled |-> user.formatter_enabled /\ project.formatter_enabled,
     llm |-> user.llm]

\* A preset is applied when a file or the environment names a policy.
SelectsPreset(user, project, envPolicy) == user.named \/ project.named \/ Known(envPolicy)

\* SafeCodeConfig.load: the network knobs outlive the preset.
Load(user, project, envPolicy) ==
    LET merged == Merge(user.settings, project.settings)
        chosen == IF Known(envPolicy)
                  THEN [merged EXCEPT !.policy = StricterPolicy(@, envPolicy)] ELSE merged
        preset == WithPreset(chosen)
    IN  IF ~ SelectsPreset(user, project, envPolicy) THEN chosen
        ELSE [preset EXCEPT
                !.network_enabled = @ \/ chosen.network_enabled,
                !.network_allowlist =
                    IF chosen.network_allowlist # {} THEN chosen.network_allowlist ELSE @]

-----------------------------------------------------------------------------
(* What "not laxer" means *)

\* What the user's own file asks for: merging it with itself changes nothing.
Own(user, envPolicy) == Load(user, user, envPolicy)

WithinCap(a, b) == b = NoCap \/ (a # NoCap /\ a <= b)

\* Whatever c lets through, d lets through.
AsStrict(c, d) ==
    /\ \A k \in DOMAIN c.limits : c.limits[k] <= d.limits[k]
    /\ \A k \in DOMAIN c.caps : WithinCap(c.caps[k], d.caps[k])
    /\ c.allowed_commands \subseteq d.allowed_commands
    /\ d.require_confirm_for_medium => c.require_confirm_for_medium
    /\ d.block_high_risk => c.block_high_risk
    /\ d.restrict_to_project_root => c.restrict_to_project_root
    /\ c.network_enabled =>
        /\ d.network_enabled
        /\ d.network_allowlist # {} =>
            c.network_allowlist # {} /\ c.network_allowlist \subseteq d.network_allowlist
    /\ d.sensitive_names \subseteq c.sensitive_names
    /\ c.allow_medium_after_apply => d.allow_medium_after_apply
    /\ ModeOrder(c.mode) >= ModeOrder(d.mode)
    /\ d.never_auto_paths \subseteq c.never_auto_paths
    /\ c.formatter_enabled => d.formatter_enabled
    /\ c.llm = d.llm

\* The project's policy key has a preset applied that the user did not ask for.
PresetIsTheProjects(user, project, envPolicy) ==
    /\ ~ SelectsPreset(user, user, envPolicy) \/ ~ HasPreset(Own(user, envPolicy))
    /\ SelectsPreset(user, project, envPolicy)
    /\ HasPreset(Load(user, project, envPolicy))

HostsAreDisjoint(user, project) ==
    LET mine == user.settings.network_allowlist
        theirs == project.settings.network_allowlist
    IN  mine # {} /\ theirs # {} /\ mine \cap theirs = {}
=============================================================================
