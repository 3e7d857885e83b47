-------------------------- MODULE CommandGateProofs --------------------------
(***************************************************************************)
(* Theorems about CommandGate and ConfigMerge, for any two configuration   *)
(* files, any hosts and commands, and any number of processes, edits and   *)
(* approvals.                                                              *)
(***************************************************************************)
EXTENDS CommandGate, FiniteSetTheorems, TLAPS

-----------------------------------------------------------------------------
(* The merge, knob by knob. *)

LEMMA Lower == \A a, b \in Int : LowerOf(a, b) \in Int /\ LowerOf(a, b) <= a /\ LowerOf(a, a) = a
    BY DEF LowerOf

LEMMA Capped == \A a, b \in Int : LowerCap(a, b) \in Int /\ WithinCap(LowerCap(a, b), LowerCap(a, a))
    BY DEF LowerCap, LowerOf, WithinCap, NoCap

LEMMA StricterModes ==
    \A a, b : ModeOrder(StricterMode(a, b)) >= ModeOrder(StricterMode(a, a))
<1>1. \A a : ModeOrder(a) \in Int
    BY DEF ModeOrder
<1>2. \A a, b : \/ ModeOrder(a) >= ModeOrder(b) /\ StricterMode(a, b) = a
                \/ ModeOrder(b) >= ModeOrder(a) /\ StricterMode(a, b) = b
    BY <1>1 DEF StricterMode
<1>3. QED
    BY <1>1, <1>2

\* The rank of a policy by its name, in the terms of the order itself.
LEMMA Names ==
    /\ \A n : Known(n) <=> n \in {"experimental", "learning", "balanced", "normal", "strict"}
    /\ PolicyOrder["experimental"] = 0 /\ PolicyOrder["learning"] = 0
    /\ PolicyOrder["balanced"] = 1 /\ PolicyOrder["normal"] = 1 /\ PolicyOrder["strict"] = 2
    BY DEF Known, PolicyOrder

LEMMA Presets ==
    /\ DOMAIN PolicyPresets = {"strict", "balanced", "experimental"}
    /\ PolicyPresets["strict"] = Preset(TRUE, {"git", "ls", "pwd"}, FALSE)
    /\ PolicyPresets["balanced"] = Preset(TRUE, {"echo", "git", "ls", "pwd"}, FALSE)
    /\ PolicyPresets["experimental"] =
         Preset(FALSE, {"cat", "echo", "find", "git", "grep", "ls", "pwd"}, TRUE)
    BY DEF PolicyPresets

\* A policy that wins over another one ranks as high as it, if it has a rank.
LEMMA Stricter ==
    ASSUME NEW a, NEW b
    PROVE  /\ StricterPolicy(a, b) \in {a, b}
           /\ StricterPolicy(a, a) = a
           /\ ~ Known(b) => StricterPolicy(a, b) = a
           /\ Known(a) => /\ Known(StricterPolicy(a, b))
                          /\ PolicyOrder[StricterPolicy(a, b)] >= PolicyOrder[a]
           /\ Known(b) => \/ ~ Known(StricterPolicy(a, b)) /\ StricterPolicy(a, b) = a
                          \/ PolicyOrder[StricterPolicy(a, b)] >= PolicyOrder[b]
<1>1. \A n : Known(n) => PolicyOrder[n] \in 0..2
    BY Names
<1>2. PolicyOrder["balanced"] = 1
    BY Names
<1>3. CASE Known(a)
    BY <1>1, <1>2, <1>3 DEF StricterPolicy
<1>4. CASE ~ Known(a)
    BY <1>1, <1>2, <1>4 DEF StricterPolicy
<1>5. QED
    BY <1>3, <1>4

\* The presets tighten with the rank of their names.
Tighter(c, d) ==
    /\ d.require_confirm_for_medium => c.require_confirm_for_medium
    /\ c.block_high_risk /\ c.restrict_to_project_root
    /\ c.allowed_commands \subseteq d.allowed_commands
    /\ ~ c.network_enabled /\ c.network_allowlist = {}
    /\ ~ d.network_enabled /\ d.network_allowlist = {}
    /\ c.allow_medium_after_apply => d.allow_medium_after_apply

HasPresetNamed(n) == Canonical(n) \in DOMAIN PolicyPresets

LEMMA PresetsTighten ==
    /\ \A n : HasPresetNamed(n) <=> Known(n)
    /\ \A m, n : Known(m) /\ Known(n) /\ PolicyOrder[m] >= PolicyOrder[n] =>
         Tighter(PolicyPresets[Canonical(m)], PolicyPresets[Canonical(n)])
<1>1. \A n : HasPresetNamed(n) <=> Known(n)
    BY Names, Presets DEF HasPresetNamed, Canonical
<1>2. /\ Canonical("experimental") = "experimental" /\ Canonical("learning") = "experimental"
      /\ Canonical("balanced") = "balanced" /\ Canonical("normal") = "balanced"
      /\ Canonical("strict") = "strict"
    BY DEF Canonical
<1>3. ASSUME NEW m, NEW n, Known(m), Known(n), PolicyOrder[m] >= PolicyOrder[n]
      PROVE  Tighter(PolicyPresets[Canonical(m)], PolicyPresets[Canonical(n)])
  <2>1. CASE m = "strict"
      BY <1>2, <1>3, <2>1, Names, Presets DEF Tighter, Preset
  <2>2. CASE m \in {"balanced", "normal"} /\ n \in {"balanced", "normal", "experimental", "learning"}
      BY <1>2, <2>2, Presets DEF Tighter, Preset
  <2>3. CASE m \in {"experimental", "learning"} /\ n \in {"experimental", "learning"}
      BY <1>2, <2>3, Presets DEF Tighter, Preset
  <2>4. QED
      BY <1>3, <2>1, <2>2, <2>3, Names
<1>4. QED
    BY <1>1, <1>3

\* The name of the policy that load ends with.
PolicyOf(user, project, env) ==
    IF Known(env)
    THEN StricterPolicy(StricterPolicy(user.settings.policy, project.settings.policy), env)
    ELSE StricterPolicy(user.settings.policy, project.settings.policy)

\* What no preset touches, the network knobs included: they outlive it.
Kept(c, m, name) ==
    /\ c.limits = m.limits /\ c.caps = m.caps /\ c.policy = name
    /\ c.sensitive_names = m.sensitive_names /\ c.mode = m.mode /\ c.hooks = m.hooks
    /\ c.never_auto_paths = m.never_auto_paths /\ c.llm = m.llm
    /\ c.formatter_enabled = m.formatter_enabled
    /\ c.network_enabled = m.network_enabled
    /\ c.network_allowlist = m.network_allowlist

\* What a preset sets.
SetLike(c, m) ==
    /\ c.allowed_commands = m.allowed_commands
    /\ c.require_confirm_for_medium = m.require_confirm_for_medium
    /\ c.block_high_risk = m.block_high_risk
    /\ c.restrict_to_project_root = m.restrict_to_project_root
    /\ c.allow_medium_after_apply = m.allow_medium_after_apply

LEMMA LoadKnobs ==
    ASSUME NEW C, NEW user \in [named : BOOLEAN, settings : Settings(C)],
           NEW project \in [named : BOOLEAN, settings : Settings(C)], NEW env
    PROVE  LET c == Load(user, project, env)
               m == Merge(user.settings, project.settings)
               name == PolicyOf(user, project, env)
           IN  /\ Kept(c, m, name)
               /\ IF SelectsPreset(user, project, env) /\ HasPresetNamed(name)
                  THEN SetLike(c, PolicyPresets[Canonical(name)]) ELSE SetLike(c, m)
<1> DEFINE c == Load(user, project, env)
           m == Merge(user.settings, project.settings)
           name == PolicyOf(user, project, env)
           preset == PolicyPresets[Canonical(name)]
           selected == SelectsPreset(user, project, env)
           chosen == IF Known(env) THEN [m EXCEPT !.policy = StricterPolicy(@, env)] ELSE m
<1>1. m \in [limits : {m.limits}, caps : {m.caps}, policy : {m.policy},
             allowed_commands : {m.allowed_commands},
             require_confirm_for_medium : BOOLEAN, block_high_risk : BOOLEAN,
             restrict_to_project_root : BOOLEAN, network_enabled : BOOLEAN,
             network_allowlist : {m.network_allowlist}, sensitive_names : {m.sensitive_names},
             hooks : {m.hooks}, allow_medium_after_apply : BOOLEAN, mode : {m.mode},
             never_auto_paths : {m.never_auto_paths}, formatter_enabled : BOOLEAN, llm : {m.llm}]
    BY DEF Merge, Settings
<1>2. chosen = [m EXCEPT !.policy = name]
    BY <1>1 DEF PolicyOf, Merge
<1>3. HasPreset(chosen) <=> HasPresetNamed(name)
    BY <1>1, <1>2 DEF HasPreset, HasPresetNamed
<1>4. HasPresetNamed(name) => ~ preset.network_enabled /\ preset.network_allowlist = {}
    BY Presets DEF HasPresetNamed, Preset
<1>5. c = IF ~ selected THEN chosen
          ELSE [WithPreset(chosen) EXCEPT
                !.network_enabled = @ \/ chosen.network_enabled,
                !.network_allowlist =
                    IF chosen.network_allowlist # {} THEN chosen.network_allowlist ELSE @]
    BY DEF Load
<1>6. WithPreset(chosen) =
        IF ~ HasPresetNamed(name) THEN chosen
        ELSE [chosen EXCEPT
                !.require_confirm_for_medium = preset.require_confirm_for_medium,
                !.block_high_risk = preset.block_high_risk,
                !.allowed_commands = preset.allowed_commands,
                !.restrict_to_project_root = preset.restrict_to_project_root,
                !.network_enabled = preset.network_enabled,
                !.network_allowlist = preset.network_allowlist,
                !.allow_medium_after_apply = preset.allow_medium_after_apply]
    BY <1>1, <1>2, <1>3 DEF WithPreset
<1> HIDE DEF c, m, name, preset, chosen, selected
<1>7. Kept(chosen, m, name) /\ SetLike(chosen, m)
    BY <1>1, <1>2 DEF Kept, SetLike
<1>8. ASSUME ~ selected PROVE Kept(c, m, name) /\ SetLike(c, m)
    BY <1>5, <1>7, <1>8
<1>9. ASSUME selected, ~ HasPresetNamed(name) PROVE Kept(c, m, name) /\ SetLike(c, m)
  <2>1. Kept(c, m, name)
      BY <1>1, <1>2, <1>5, <1>6, <1>9 DEF Kept
  <2>2. SetLike(c, m)
      BY <1>1, <1>2, <1>5, <1>6, <1>9 DEF SetLike
  <2>3. QED
      BY <2>1, <2>2
<1>10. ASSUME selected, HasPresetNamed(name) PROVE Kept(c, m, name) /\ SetLike(c, preset)
  <2>1. Kept(c, m, name)
      BY <1>1, <1>2, <1>4, <1>5, <1>6, <1>10 DEF Kept
  <2>2. SetLike(c, preset)
      BY <1>1, <1>2, <1>5, <1>6, <1>10 DEF SetLike
  <2>3. QED
      BY <2>1, <2>2
<1>11. /\ Kept(c, m, name)
       /\ IF selected /\ HasPresetNamed(name) THEN SetLike(c, preset) ELSE SetLike(c, m)
    BY <1>8, <1>9, <1>10
<1>12. QED
    BY <1>11 DEF c, m, name, preset, selected

\* The merge alone.
LEMMA MergeKnobs ==
    ASSUME NEW C, NEW user \in Settings(C), NEW project \in Settings(C),
           \/ user.network_allowlist = {} \/ project.network_allowlist = {}
           \/ user.network_allowlist \cap project.network_allowlist # {}
    PROVE  AsStrict(Merge(user, project), Merge(user, user))
<1> DEFINE c == Merge(user, project)
           d == Merge(user, user)
<1>1. \A k \in DOMAIN c.limits : c.limits[k] <= d.limits[k]
    BY Lower DEF Merge, Settings
<1>2. \A k \in DOMAIN c.caps : WithinCap(c.caps[k], d.caps[k])
    BY Capped DEF Merge, Settings
<1>3. /\ c.allowed_commands \subseteq d.allowed_commands
      /\ d.sensitive_names \subseteq c.sensitive_names
      /\ d.never_auto_paths \subseteq c.never_auto_paths
      /\ c.llm = d.llm
    BY DEF Merge, Settings, SharedCommands
<1>4. /\ d.require_confirm_for_medium => c.require_confirm_for_medium
      /\ d.block_high_risk => c.block_high_risk
      /\ d.restrict_to_project_root => c.restrict_to_project_root
      /\ c.network_enabled => d.network_enabled
      /\ c.allow_medium_after_apply => d.allow_medium_after_apply
      /\ c.formatter_enabled => d.formatter_enabled
    BY DEF Merge
<1>5. d.network_allowlist # {} =>
         c.network_allowlist # {} /\ c.network_allowlist \subseteq d.network_allowlist
    BY DEF Merge, SharedHosts
<1>6. ModeOrder(c.mode) >= ModeOrder(d.mode)
    BY StricterModes DEF Merge
<1>7. QED
    BY <1>1, <1>2, <1>3, <1>4, <1>5, <1>6 DEF AsStrict

\* The project's name and the user's never make one that ranks below the user's.
LEMMA PolicyRanks ==
    ASSUME NEW user, NEW project, NEW env, Known(PolicyOf(user, user, env))
    PROVE  /\ Known(PolicyOf(user, project, env))
           /\ PolicyOrder[PolicyOf(user, project, env)] >= PolicyOrder[PolicyOf(user, user, env)]
<1> DEFINE u == user.settings.policy
           p == project.settings.policy
           own == PolicyOf(user, user, env)
           name == PolicyOf(user, project, env)
<1>1. /\ own = IF Known(env) THEN StricterPolicy(u, env) ELSE u
      /\ name = IF Known(env) THEN StricterPolicy(StricterPolicy(u, p), env)
                ELSE StricterPolicy(u, p)
    BY Stricter DEF PolicyOf
<1>2. Known(own)
    OBVIOUS
<1>3. \A n : Known(n) => PolicyOrder[n] \in 0..2
    BY Names
<1> HIDE DEF u, p, own, name
<1>4. CASE ~ Known(env)
    BY <1>1, <1>2, <1>4, Stricter DEF own, name
<1>5. CASE Known(env) /\ Known(u)
  <2>1. own \in {u, env}
      BY <1>1, <1>5, Stricter
  <2>2. Known(StricterPolicy(u, p)) /\ PolicyOrder[StricterPolicy(u, p)] >= PolicyOrder[u]
      BY <1>5, Stricter
  <2>3. /\ Known(name) /\ PolicyOrder[name] >= PolicyOrder[StricterPolicy(u, p)]
        /\ PolicyOrder[name] >= PolicyOrder[env]
      BY <1>1, <1>5, <2>2, Stricter
  <2>4. Known(name) /\ PolicyOrder[name] >= PolicyOrder[own]
      BY <1>3, <1>5, <2>1, <2>2, <2>3
  <2>5. QED
      BY <2>4 DEF own, name
<1>6. CASE Known(env) /\ ~ Known(u)
  <2>1. own = env
      BY <1>1, <1>2, <1>6, Stricter
  <2>2. CASE StricterPolicy(u, p) = u
    <3>1. name = own
        BY <1>1, <1>6, <2>2
    <3>2. QED
        BY <1>2, <1>3, <3>1 DEF own, name
  <2>3. CASE StricterPolicy(u, p) # u
    <3>1. StricterPolicy(u, p) = p /\ Known(p)
        BY <2>3, Stricter
    <3>2. Known(name) /\ PolicyOrder[name] >= PolicyOrder[env]
        BY <1>1, <1>6, <3>1, Stricter
    <3>3. QED
        BY <2>1, <3>2 DEF own, name
  <2>4. QED
      BY <2>2, <2>3
<1>7. QED
    BY <1>4, <1>5, <1>6 DEF own, name

\* What the merge, SAFECODE_POLICY, the preset and the knobs that outlive it make of any two
\* files is as strict as the user's own, but for the two cases.
LEMMA LoadTightens ==
    ASSUME NEW C, NEW user \in [named : BOOLEAN, settings : Settings(C)],
           NEW project \in [named : BOOLEAN, settings : Settings(C)], NEW env,
           ~ PresetIsTheProjects(user, project, env), ~ HostsAreDisjoint(user, project)
    PROVE  AsStrict(Load(user, project, env), Own(user, env))
<1> DEFINE c == Load(user, project, env)
           d == Load(user, user, env)
           m == Merge(user.settings, project.settings)
           n == Merge(user.settings, user.settings)
           name == PolicyOf(user, project, env)
           own == PolicyOf(user, user, env)
           selected == SelectsPreset(user, project, env)
           mine == SelectsPreset(user, user, env)
<1>1. /\ Kept(c, m, name)
      /\ IF selected /\ HasPresetNamed(name)
         THEN SetLike(c, PolicyPresets[Canonical(name)]) ELSE SetLike(c, m)
    BY LoadKnobs
<1>2. /\ Kept(d, n, own)
      /\ IF mine /\ HasPresetNamed(own)
         THEN SetLike(d, PolicyPresets[Canonical(own)]) ELSE SetLike(d, n)
    BY LoadKnobs
<1>3. AsStrict(m, n)
    BY MergeKnobs DEF HostsAreDisjoint
<1>4. mine => selected
    BY DEF SelectsPreset
<1>5. /\ HasPreset(c) <=> HasPresetNamed(name)
      /\ HasPreset(d) <=> HasPresetNamed(own)
    BY <1>1, <1>2 DEF HasPreset, HasPresetNamed, Kept
<1>6. Known(own) => Known(name) /\ PolicyOrder[name] >= PolicyOrder[own]
    BY PolicyRanks
<1>7. (mine /\ HasPresetNamed(own)) \/ ~ (selected /\ HasPresetNamed(name))
    BY <1>5 DEF PresetIsTheProjects, Own
<1>8. AsStrict(c, d)
  <2> HIDE DEF c, d, m, n, name, own, selected, mine
  <2>1. CASE mine /\ HasPresetNamed(own)
    <3>1. Tighter(PolicyPresets[Canonical(name)], PolicyPresets[Canonical(own)])
        BY <1>6, <2>1, PresetsTighten
    <3>2. HasPresetNamed(name)
        BY <1>6, <2>1, PresetsTighten
    <3>3. SetLike(c, PolicyPresets[Canonical(name)]) /\ SetLike(d, PolicyPresets[Canonical(own)])
        BY <1>1, <1>2, <1>4, <2>1, <3>2
    <3>4. QED
        BY <1>1, <1>2, <1>3, <3>1, <3>3 DEF AsStrict, Tighter, SetLike, Kept
  <2>2. CASE ~ (mine /\ HasPresetNamed(own))
    <3>1. SetLike(c, m) /\ SetLike(d, n)
        BY <1>1, <1>2, <1>7, <2>2
    <3>2. QED
        BY <1>1, <1>2, <1>3, <3>1 DEF AsStrict, SetLike, Kept
  <2>3. QED
      BY <2>1, <2>2
<1>9. QED
    BY <1>8 DEF Own

-----------------------------------------------------------------------------
(* The invariant: what a process works with is what it loaded, what it     *)
(* executed last it was let, and every line that parses is an approval     *)
(* that somebody gave.                                                     *)

Files == [named : BOOLEAN, settings : Settings(Command)]

GateTypeOK ==
    /\ userFile \in Files /\ projectFile \in Files
    /\ doing \in [Shells -> {"idle", "approve", "ask", "propose", "applied", "hooks", "run", "done"}]
    /\ read \in [Shells -> [user : Files, project : Files] \cup {Nothing}]
    /\ DOMAIN entry = Shells /\ DOMAIN asked = Shells /\ DOMAIN stage = Shells
    /\ approved \in [Shells -> BOOLEAN]
    /\ DOMAIN queue = Shells /\ DOMAIN ran = Shells
    /\ IsFiniteSet(given)

\* Who is at something has loaded both files, and who is not has run nothing.
Loaded ==
    \A p \in Shells : IF doing[p] = "idle" THEN ran[p] = Nothing
                      ELSE read[p] \in [user : Files, project : Files]

\* Approvals are numbered as they are given, each under the settings it was given under.
Numbered ==
    \A g \in given : /\ g.approval.number \in 1..Cardinality(given)
                     /\ g.approval.hash = ConfigHash(g.config)

\* Only whole lines are read, and the fragments that follow them never become one.
FromTheUser ==
    /\ stored \subseteq {g.approval : g \in given}
    /\ tail \in {g.approval : g \in given} \cup {Nothing, Fragment}

\* What ran was let run by the settings its process had, and with consent only where there
\* was an approval.
Permitted(p) ==
    /\ Executes(Config(p), ran[p].command, ran[p].approved)
    /\ ran[p].stage \in HookStages /\ ran[p].approved =>
         /\ Config(p).allow_medium_after_apply
         /\ \E g \in given : /\ g.approval.number \in ran[p].live
                             /\ g.approval.hook = ran[p].stage /\ g.approval.command = ran[p].command
                             /\ g.approval.hash = ConfigHash(Config(p))

LastWasPermitted == \A p \in Shells : ran[p] # Nothing => Permitted(p)

GateInductive == GateTypeOK /\ Loaded /\ Numbered /\ FromTheUser /\ LastWasPermitted

LEMMA GateInitially == GateInit => GateInductive
<1> SUFFICES ASSUME GateInit PROVE GateInductive
    OBVIOUS
<1>1. GateTypeOK
  <2>1. userFile \in Files /\ projectFile \in Files
      BY CommandAssumption DEF GateInit, StartWith, Files
  <2>2. IsFiniteSet(given)
      BY FS_EmptySet DEF GateInit, StartWith
  <2>3. QED
      BY <2>1, <2>2 DEF GateInit, StartWith, GateTypeOK
<1>2. Loaded /\ Numbered /\ FromTheUser /\ LastWasPermitted
    BY DEF GateInit, StartWith, Loaded, Numbered, FromTheUser, LastWasPermitted
<1>3. QED
    BY <1>1, <1>2 DEF GateInductive

\* What a process does by itself changes the locals of no other, and no file but the
\* approvals'.
LocalStep(p) ==
    \/ StartHookApproval(p) \/ AppendApproval(p) \/ TearApproval(p)
    \/ StartCommand(p) \/ Answer(p) \/ StartTool(p) \/ Propose(p) \/ RunCommand(p)
    \/ StartApplyHooks(p) \/ AfterEdit(p) \/ RunHook(p) \/ StageDone(p) \/ End(p)

LEMMA QuitTypes ==
    ASSUME GateTypeOK, NEW p \in Shells, Quit(p)
    PROVE  /\ doing' = [doing EXCEPT ![p] = "idle"] /\ ran' = [ran EXCEPT ![p] = Nothing]
           /\ doing' \in [Shells -> {"idle", "approve", "ask", "propose", "applied", "hooks", "run", "done"}]
           /\ read' \in [Shells -> [user : Files, project : Files] \cup {Nothing}]
           /\ DOMAIN entry' = Shells /\ DOMAIN asked' = Shells /\ DOMAIN stage' = Shells
           /\ approved' \in [Shells -> BOOLEAN]
           /\ DOMAIN queue' = Shells /\ DOMAIN ran' = Shells
           /\ \A q \in Shells \ {p} : read'[q] = read[q] /\ ran'[q] = ran[q] /\ doing'[q] = doing[q]
    BY DEF GateTypeOK, Quit

LEMMA GivenFinite ==
    ASSUME GateTypeOK, NEW p \in Shells, Given(p)
    PROVE  IsFiniteSet(given')
    BY FS_AddElement DEF GateTypeOK, Given

LEMMA TypeStep ==
    ASSUME GateTypeOK, [GateNext]_gateVars
    PROVE  GateTypeOK'
<1>1. CASE UNCHANGED gateVars
    BY <1>1 DEF GateTypeOK, gateVars, files, approvalFile, choice, progress
<1>2. CASE EditConfig
    BY <1>2, CommandAssumption DEF EditConfig, GateTypeOK, Files, approvalFile, choice, progress
<1>3. CASE ApprovalExpires
    BY <1>3 DEF ApprovalExpires, GateTypeOK, files, approvalFile, choice, progress
<1>4. ASSUME NEW p \in Shells, LocalStep(p) PROVE GateTypeOK'
  <2>1. CASE StartHookApproval(p)
      BY <2>1 DEF StartHookApproval, Loads, GateTypeOK, files, approvalFile
  <2>2. CASE AppendApproval(p)
      BY <2>2, QuitTypes, GivenFinite DEF AppendApproval, GateTypeOK, files
  <2>3. CASE TearApproval(p)
      BY <2>3, QuitTypes, GivenFinite DEF TearApproval, GateTypeOK, files
  <2>4. CASE StartCommand(p)
      BY <2>4 DEF StartCommand, Loads, GateTypeOK, files, approvalFile
  <2>5. CASE Answer(p)
      BY <2>5 DEF Answer, GateTypeOK, files, approvalFile
  <2>6. CASE StartTool(p)
      BY <2>6 DEF StartTool, Loads, GateTypeOK, files, approvalFile
  <2>7. CASE Propose(p)
      BY <2>7 DEF Propose, EnterStage, GateTypeOK, files, approvalFile, choice
  <2>8. CASE RunCommand(p)
      BY <2>8 DEF RunCommand, EnterStage, GateTypeOK, files, approvalFile, choice
  <2>9. CASE StartApplyHooks(p)
      BY <2>9 DEF StartApplyHooks, Loads, GateTypeOK, files, approvalFile
  <2>10. CASE AfterEdit(p)
      BY <2>10 DEF AfterEdit, EnterStage, GateTypeOK, files, approvalFile, choice
  <2>11. CASE RunHook(p)
      BY <2>11 DEF RunHook, GateTypeOK, files, approvalFile, choice
  <2>12. CASE StageDone(p)
      BY <2>12, QuitTypes DEF StageDone, EnterStage, GateTypeOK, files, approvalFile, choice
  <2>13. CASE End(p)
      BY <2>13, QuitTypes DEF End, GateTypeOK, files, approvalFile
  <2>14. QED
      BY <1>4, <2>1, <2>2, <2>3, <2>4, <2>5, <2>6, <2>7, <2>8, <2>9, <2>10, <2>11, <2>12,
         <2>13 DEF LocalStep
<1>5. QED
    BY <1>1, <1>2, <1>3, <1>4 DEF GateNext, LocalStep

\* Approvals are only ever added, under the settings of the process that adds them.
LEMMA NumberedStep ==
    ASSUME GateTypeOK, Numbered, [GateNext]_gateVars
    PROVE  Numbered' /\ given \subseteq given'
<1>1. CASE UNCHANGED given
    BY <1>1 DEF Numbered
<1>2. ASSUME NEW p \in Shells, Given(p) PROVE Numbered' /\ given \subseteq given'
  <2> DEFINE new == [approval |-> NewApproval(p), config |-> Config(p)]
  <2>1. /\ new.approval.number = Cardinality(given) + 1
        /\ new.approval.hash = ConfigHash(new.config)
      BY DEF NewApproval
  <2>2. given' = given \cup {new}
      BY <1>2 DEF Given
  <2> HIDE DEF new
  <2>3. Cardinality(given) \in Nat
      BY FS_CardinalityType DEF GateTypeOK
  <2>4. new \notin given
      BY <2>1, <2>3 DEF Numbered
  <2>5. Cardinality(given') = Cardinality(given) + 1
      BY <2>2, <2>4, FS_AddElement DEF GateTypeOK
  <2>6. QED
      BY <2>1, <2>2, <2>3, <2>5 DEF Numbered
<1>3. QED
    BY <1>1, <1>2
    DEF GateNext, gateVars, StartHookApproval, AppendApproval, TearApproval, StartCommand, Answer,
        StartTool, Propose, RunCommand, StartApplyHooks, AfterEdit, RunHook, StageDone, End,
        EditConfig, ApprovalExpires

LEMMA FromTheUserStep ==
    ASSUME FromTheUser, given \subseteq given', [GateNext]_gateVars
    PROVE  FromTheUser'
<1>1. CASE UNCHANGED approvalFile
    BY <1>1 DEF FromTheUser, approvalFile
<1>2. ASSUME NEW p \in Shells, AppendApproval(p) \/ TearApproval(p) PROVE FromTheUser'
  <2>1. NewApproval(p) \in {g.approval : g \in given'}
    <3> DEFINE new == [approval |-> NewApproval(p), config |-> Config(p)]
    <3>1. new.approval = NewApproval(p)
        OBVIOUS
    <3>2. new \in given'
        BY <1>2 DEF AppendApproval, TearApproval, Given
    <3>3. QED
        BY <3>1, <3>2
  <2>2. QED
      BY <1>2, <2>1 DEF FromTheUser, AppendApproval, TearApproval
<1>3. QED
    BY <1>1, <1>2
    DEF GateNext, gateVars, approvalFile, StartHookApproval, StartCommand, Answer, StartTool, Propose,
        RunCommand, StartApplyHooks, AfterEdit, RunHook, StageDone, End, EditConfig, ApprovalExpires

\* Who did not move has loaded, run and is at what it was.
LEMMA OthersStay ==
    ASSUME GateTypeOK, [GateNext]_gateVars, NEW q \in Shells, \A p \in Shells : LocalStep(p) => p # q
    PROVE  /\ read'[q] = read[q] /\ ran'[q] = ran[q] /\ doing'[q] = doing[q]
           /\ envPolicy' = envPolicy
<1>1. CASE UNCHANGED gateVars \/ EditConfig \/ ApprovalExpires
    BY <1>1 DEF EditConfig, ApprovalExpires, gateVars, files, choice, progress
<1>2. ASSUME NEW p \in Shells, LocalStep(p), p # q
      PROVE  /\ read'[q] = read[q] /\ ran'[q] = ran[q] /\ doing'[q] = doing[q]
             /\ envPolicy' = envPolicy
  <2>1. CASE StartHookApproval(p) \/ StartCommand(p) \/ StartTool(p) \/ StartApplyHooks(p)
      BY <1>2, <2>1 DEF StartHookApproval, StartCommand, StartTool, StartApplyHooks, Loads,
         GateTypeOK, files
  <2>2. CASE AppendApproval(p) \/ TearApproval(p) \/ End(p)
      BY <1>2, <2>2, QuitTypes DEF AppendApproval, TearApproval, End, files
  <2>3. CASE Answer(p) \/ Propose(p) \/ AfterEdit(p)
      BY <1>2, <2>3 DEF Answer, Propose, AfterEdit, EnterStage, GateTypeOK, files, choice
  <2>4. CASE RunCommand(p)
      BY <1>2, <2>4 DEF RunCommand, EnterStage, GateTypeOK, files, choice
  <2>5. CASE RunHook(p)
      BY <1>2, <2>5 DEF RunHook, GateTypeOK, files, choice
  <2>6. CASE StageDone(p)
      BY <1>2, <2>6, QuitTypes DEF StageDone, EnterStage, GateTypeOK, files, choice
  <2>7. QED
      BY <1>2, <2>1, <2>2, <2>3, <2>4, <2>5, <2>6 DEF LocalStep
<1>3. QED
    BY <1>1, <1>2 DEF GateNext, LocalStep

\* What a step of p does to what p has loaded and run, but for the two that execute.
LEMMA OwnSteps ==
    ASSUME GateTypeOK, Loaded, NEW p \in Shells, LocalStep(p), ~ RunHook(p), ~ RunCommand(p)
    PROVE  /\ envPolicy' = envPolicy
           /\ \/ doing'[p] = "idle" /\ ran'[p] = Nothing
              \/ doing[p] = "idle" /\ read'[p] = [user |-> userFile, project |-> projectFile]
                 /\ ran'[p] = ran[p]
              \/ doing[p] # "idle" /\ doing'[p] # "idle" /\ read'[p] = read[p] /\ ran'[p] = ran[p]
<1>1. CASE StartHookApproval(p) \/ StartCommand(p) \/ StartTool(p) \/ StartApplyHooks(p)
    BY <1>1 DEF StartHookApproval, StartCommand, StartTool, StartApplyHooks, Loads,
       GateTypeOK, files
<1>2. CASE AppendApproval(p) \/ TearApproval(p) \/ End(p)
  <2>1. Quit(p) /\ envPolicy' = envPolicy
      BY <1>2 DEF AppendApproval, TearApproval, End, files
  <2>2. QED
      BY <2>1, QuitTypes DEF GateTypeOK
<1>3. CASE Answer(p) \/ Propose(p) \/ AfterEdit(p)
    BY <1>3 DEF Answer, Propose, AfterEdit, EnterStage, GateTypeOK, files, choice
<1>4. CASE StageDone(p)
  <2>1. CASE stage[p] = "before_command" \/ stage[p] = "after_edit"
      BY <1>4, <2>1 DEF StageDone, EnterStage, GateTypeOK, files, choice
  <2>2. CASE stage[p] # "before_command" /\ stage[p] # "after_edit"
    <3>1. Quit(p) /\ envPolicy' = envPolicy
        BY <1>4, <2>2 DEF StageDone, files
    <3>2. QED
        BY <3>1, QuitTypes DEF GateTypeOK
  <2>3. QED
      BY <2>1, <2>2
<1>5. QED
    BY <1>1, <1>2, <1>3, <1>4 DEF LocalStep

LEMMA Executing ==
    ASSUME GateTypeOK, NEW p \in Shells, RunHook(p) \/ RunCommand(p)
    PROVE  /\ doing[p] # "idle" /\ doing'[p] # "idle" /\ read'[p] = read[p]
           /\ envPolicy' = envPolicy /\ given' = given
<1>1. CASE RunHook(p)
    BY <1>1 DEF RunHook, GateTypeOK, files, choice
<1>2. CASE RunCommand(p)
    BY <1>2 DEF RunCommand, EnterStage, GateTypeOK, files, choice
<1>3. QED
    BY <1>1, <1>2

LEMMA LoadedStep ==
    ASSUME GateTypeOK, Loaded, [GateNext]_gateVars
    PROVE  Loaded'
<1> SUFFICES ASSUME NEW q \in Shells
             PROVE  IF doing'[q] = "idle" THEN ran'[q] = Nothing
                    ELSE read'[q] \in [user : Files, project : Files]
    BY DEF Loaded
<1>1. CASE \A p \in Shells : LocalStep(p) => p # q
    BY <1>1, OthersStay DEF Loaded
<1>2. CASE LocalStep(q) /\ ~ RunHook(q) /\ ~ RunCommand(q)
  <2>1. [user |-> userFile, project |-> projectFile] \in [user : Files, project : Files]
      BY DEF GateTypeOK
  <2>2. doing'[q] = "idle" => ran'[q] = Nothing
      BY <1>2, OwnSteps DEF Loaded
  <2>3. QED
      BY <1>2, <2>1, <2>2, OwnSteps DEF Loaded
<1>3. CASE RunHook(q) \/ RunCommand(q)
    BY <1>3, Executing DEF Loaded
<1>4. QED
    BY <1>1, <1>2, <1>3

\* Permission is about what does not change while a process runs: its copies of the files,
\* SAFECODE_POLICY and the approvals given so far.
LEMMA StaysPermitted ==
    ASSUME NEW p \in Shells, Permitted(p), ran'[p] = ran[p], read'[p] = read[p],
           envPolicy' = envPolicy, given \subseteq given'
    PROVE  Permitted(p)'
    BY DEF Permitted, Config

\* A hook that runs with consent has an approval that was in the file and had not expired.
LEMMA HookPermitted ==
    ASSUME GateTypeOK, Numbered, FromTheUser, NEW p \in Shells, RunHook(p), ran'[p] # ran[p],
           read'[p] = read[p], envPolicy' = envPolicy, given' = given
    PROVE  Permitted(p)'
<1> DEFINE c == Head(queue[p])
           yes == HookConsent(p, c)
           e == Execution(p, c, stage[p], yes)
<1>1. Executes(Config(p), c, yes) /\ ran'[p] = e
    BY DEF RunHook, GateTypeOK
<1>2. /\ e.command = c /\ e.stage = stage[p] /\ e.approved = yes
      /\ e.live = (1 .. Cardinality(given)) \ lapsed
    BY DEF Execution
<1>3. Config(p)' = Config(p)
    BY DEF Config
<1>4. ASSUME yes
      PROVE  /\ Config(p).allow_medium_after_apply
             /\ \E g \in given : /\ g.approval.number \in e.live
                                 /\ g.approval.hook = stage[p] /\ g.approval.command = c
                                 /\ g.approval.hash = ConfigHash(Config(p))
  <2>1. PICK a \in Listed : /\ a.hook = stage[p] /\ a.command = c /\ a.hash = ConfigHash(Config(p))
                            /\ a.number \notin lapsed
      BY <1>4 DEF HookConsent, IsApproved
  <2>2. PICK g \in given : g.approval = a
      BY <2>1 DEF Listed, FromTheUser
  <2>3. g.approval.number \in e.live
      BY <1>2, <2>1, <2>2 DEF Numbered
  <2>4. QED
      BY <1>4, <2>1, <2>2, <2>3 DEF HookConsent
<1> HIDE DEF c, yes, e
<1>5. QED
    BY <1>1, <1>2, <1>3, <1>4 DEF Permitted

LEMMA PermittedStep ==
    ASSUME GateTypeOK, Loaded, Numbered, FromTheUser, LastWasPermitted, given \subseteq given',
           [GateNext]_gateVars
    PROVE  LastWasPermitted'
<1> SUFFICES ASSUME NEW q \in Shells, ran'[q] # Nothing PROVE Permitted(q)'
    BY DEF LastWasPermitted
<1>1. CASE \A p \in Shells : LocalStep(p) => p # q
  <2>1. /\ read'[q] = read[q] /\ ran'[q] = ran[q] /\ envPolicy' = envPolicy
      BY <1>1, OthersStay
  <2>2. QED
      BY <2>1, StaysPermitted DEF LastWasPermitted
<1>2. CASE LocalStep(q) /\ ~ RunHook(q) /\ ~ RunCommand(q)
  <2>1. read'[q] = read[q] /\ ran'[q] = ran[q] /\ envPolicy' = envPolicy
      BY <1>2, OwnSteps DEF Loaded
  <2>2. QED
      BY <2>1, StaysPermitted DEF LastWasPermitted
<1>3. CASE RunHook(q)
  <2>1. read'[q] = read[q] /\ envPolicy' = envPolicy /\ given' = given
      BY <1>3, Executing
  <2>2. CASE ran'[q] = ran[q]
      BY <2>1, <2>2, StaysPermitted DEF LastWasPermitted
  <2>3. CASE ran'[q] # ran[q]
      BY <1>3, <2>1, <2>3, HookPermitted
  <2>4. QED
      BY <2>2, <2>3
<1>4. CASE RunCommand(q)
  <2>1. read'[q] = read[q] /\ envPolicy' = envPolicy /\ given' = given
      BY <1>4, Executing
  <2>2. CASE ran'[q] = ran[q]
      BY <2>1, <2>2, StaysPermitted DEF LastWasPermitted
  <2>3. CASE ran'[q] # ran[q]
    <3>1. /\ Executes(Config(q), asked[q], approved[q])
          /\ ran'[q] = Execution(q, asked[q], "command", approved[q])
        BY <1>4, <2>3 DEF RunCommand, GateTypeOK
    <3>2. /\ ran'[q].command = asked[q] /\ ran'[q].approved = approved[q]
          /\ ran'[q].stage \notin HookStages
        BY <3>1 DEF Execution, HookStages
    <3>3. Config(q)' = Config(q)
        BY <2>1 DEF Config
    <3>4. QED
        BY <3>1, <3>2, <3>3 DEF Permitted
  <2>4. QED
      BY <2>2, <2>3
<1>5. QED
    BY <1>1, <1>2, <1>3, <1>4

\* Types, copies, approvals and what was let run, in every reachable state.
THEOREM GateInvariant == GateSpec => []GateInductive
<1>1. GateInductive /\ [GateNext]_gateVars => GateInductive'
    BY TypeStep, LoadedStep, NumberedStep, FromTheUserStep, PermittedStep DEF GateInductive
<1>2. QED
    BY GateInitially, <1>1, PTL DEF GateSpec

\* Every variable of the command gate has its type.
THEOREM CommandTypes == GateSpec => []GateTypeOK
<1>1. GateInductive => GateTypeOK
    BY DEF GateInductive
<1>2. QED
    BY <1>1, GateInvariant, PTL

\* Whatever the two files and SAFECODE_POLICY say, what they make together is as strict as
\* the user's own file: for every pair of files, not only for the many that a run tries.
THEOREM FilesTighten == GateSpec => []TightensWithin
<1>1. GateInductive => TightensWithin
    BY LoadTightens DEF GateInductive, GateTypeOK, Files, TightensWithin, Loosens
<1>2. QED
    BY <1>1, GateInvariant, PTL

\* What the settings let run, stricter ones let run too: the policy's decision and the check
\* of the network look at nothing that AsStrict leaves out.
LEMMA StricterRunsLess ==
    ASSUME NEW c, NEW d, AsStrict(c, d), NEW command, NEW yes,
           Executes(c, command, yes)
    PROVE  Executes(d, command, yes)
<1>1. Decision(d, command, yes) = "allowed"
    BY DEF AsStrict, Executes, Decision
<1>2. ~ NetworkBlocks(d, command)
    BY DEF AsStrict, Executes, NetworkBlocks
<1>3. QED
    BY <1>1, <1>2 DEF Executes

\* Policy, configuration and hooks together, while files are edited and approvals are torn and
\* expire: what a process executes, the user's own file as it loaded it would have let run.
THEOREM RunsStayTheUsers == GateSpec => []RunsAreTheUsers
<1>1. GateInductive => RunsAreTheUsers
  <2> SUFFICES ASSUME GateInductive, NEW p \in Shells, ran[p] # Nothing,
                      ~ Loosens(read[p].user, read[p].project)
               PROVE  AllowedByTheUser(p)
      BY DEF RunsAreTheUsers
  <2>1. read[p] \in [user : Files, project : Files]
      BY DEF GateInductive, Loaded
  <2>2. AsStrict(Config(p), Own(read[p].user, envPolicy))
      BY <2>1, LoadTightens DEF Config, Loosens, Files
  <2>3. Executes(Config(p), ran[p].command, ran[p].approved)
      BY DEF GateInductive, LastWasPermitted, Permitted
  <2>4. QED
      BY <2>2, <2>3, StricterRunsLess DEF AllowedByTheUser
<1>2. QED
    BY <1>1, GateInvariant, PTL

\* A hook of medium risk that ran, where such commands need consent, had an approval that was
\* given for its stage, under the same hooks and commands, and that had not expired.
THEOREM HooksStayPermitted == GateSpec => []HooksArePermitted
<1>1. \A c, d : ConfigHash(c) = ConfigHash(d) =>
        /\ c.allow_medium_after_apply = d.allow_medium_after_apply
        /\ c.hooks = d.hooks /\ c.allowed_commands = d.allowed_commands
  <2> SUFFICES ASSUME NEW c, NEW d, ConfigHash(c) = ConfigHash(d)
               PROVE  /\ c.allow_medium_after_apply = d.allow_medium_after_apply
                      /\ c.hooks = d.hooks /\ c.allowed_commands = d.allowed_commands
      OBVIOUS
  <2>1. \A e : /\ ConfigHash(e)["allow_medium_after_apply"] = e["allow_medium_after_apply"]
               /\ ConfigHash(e)["hooks"] = e["hooks"]
               /\ ConfigHash(e)["allowed_commands"] = e["allowed_commands"]
      BY DEF ConfigHash
  <2>2. QED
      BY <2>1
<1>2. GateInductive => HooksArePermitted
  <2> SUFFICES ASSUME GateInductive, NEW p \in Shells, ran[p] # Nothing, ran[p].stage \in HookStages,
                      ran[p].command.risk = "medium", Config(p).require_confirm_for_medium
               PROVE  \E g \in given :
                        /\ g.approval.number \in ran[p].live
                        /\ g.approval.hook = ran[p].stage /\ g.approval.command = ran[p].command
                        /\ g.config.allow_medium_after_apply
                        /\ g.config.hooks = Config(p).hooks
                        /\ g.config.allowed_commands = Config(p).allowed_commands
      BY DEF HooksArePermitted
  <2>1. Permitted(p)
      BY DEF GateInductive, LastWasPermitted
  <2>2. ran[p].approved
      BY <2>1 DEF Permitted, Executes, Decision
  <2>3. /\ Config(p).allow_medium_after_apply
        /\ \E g \in given : /\ g.approval.number \in ran[p].live
                            /\ g.approval.hook = ran[p].stage /\ g.approval.command = ran[p].command
                            /\ g.approval.hash = ConfigHash(Config(p))
      BY <2>1, <2>2 DEF Permitted
  <2>4. PICK g \in given : /\ g.approval.number \in ran[p].live
                           /\ g.approval.hook = ran[p].stage /\ g.approval.command = ran[p].command
                           /\ g.approval.hash = ConfigHash(Config(p))
      BY <2>3
  <2>5. ConfigHash(g.config) = ConfigHash(Config(p))
      BY <2>4 DEF GateInductive, Numbered
  <2>6. /\ g.config.allow_medium_after_apply = Config(p).allow_medium_after_apply
        /\ g.config.hooks = Config(p).hooks /\ g.config.allowed_commands = Config(p).allowed_commands
      BY <1>1, <2>5
  <2>7. QED
      BY <2>3, <2>4, <2>6
<1>3. QED
    BY <1>2, GateInvariant, PTL
=============================================================================
