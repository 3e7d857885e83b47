---------------------------- MODULE MCCommandGate ----------------------------
(* Small instances of CommandGate for TLC. *)
EXTENDS CommandGate, TLC

CONSTANTS worker, approver

\* Commands of two workers would share nothing but what neither writes.
OneWorker ==
    (worker :> {"run", "test", "run_command", "apply"}) @@ (approver :> {"approve"})

GitStatus == [exe |-> "git", risk |-> "medium", refused |-> FALSE, contacts |-> NoNetwork, test |-> FALSE]
Find == [exe |-> "find", risk |-> "medium", refused |-> FALSE, contacts |-> "b", test |-> TRUE]
ListFiles == [exe |-> "ls", risk |-> "low", refused |-> FALSE, contacts |-> NoNetwork, test |-> FALSE]

FewCommands == {GitStatus, Find}
JustList == {ListFiles}

With(hooks) == [s \in HookStages |-> IF s \in DOMAIN hooks THEN hooks[s] ELSE <<>>]

Lax == [Defaults EXCEPT !.allow_medium_after_apply = TRUE, !.allowed_commands = @ \cup {"find"},
                        !.network_enabled = TRUE]

File(isNamed, s) == [named |-> isNamed, settings |-> s]

PlainUser == File(FALSE, Lax)

FewUserFiles ==
    {PlainUser,
     File(TRUE, [Lax EXCEPT !.policy = "experimental", !.network_allowlist = {"a"}])}

Hooked == [Lax EXCEPT !.hooks = With([before_command |-> <<GitStatus>>, after_apply |-> <<GitStatus>>])]

\* A user who lets git run and nothing else.
JustGit == {File(FALSE, [Lax EXCEPT !.allowed_commands = {"git"}])}

PlainProject == File(FALSE, Hooked)

FewProjectFiles ==
    {PlainProject,
     File(TRUE, [Hooked EXCEPT !.policy = "experimental"]),
     File(FALSE, [Hooked EXCEPT !.hooks = With([before_command |-> <<GitStatus>>, after_test |-> <<ListFiles>>]),
                                !.network_allowlist = {"b"}])}

-----------------------------------------------------------------------------
\* Many more files, for what is said of every pair of them.
Knobs ==
    [policy : {"balanced", "strict", "learning", "odd"},
     allowed_commands : {Defaults.allowed_commands, {"git", "find"}},
     require_confirm_for_medium : BOOLEAN,
     network_enabled : BOOLEAN,
     network_allowlist : {{}, {"a"}, {"b"}}]

\* The knobs that no preset sets, all loose or all tight.
Loose == [Lax EXCEPT !.block_high_risk = FALSE, !.mode = "full-auto", !.formatter_enabled = TRUE]
Tight == [Defaults EXCEPT !.limits.max_tree_files = 100, !.caps.max_tokens_per_session = 10,
                          !.sensitive_names = @ \cup {"key"}, !.never_auto_paths = @ \cup {"src/"}]

ManyFiles ==
    {File(TRUE, k @@ s) : k \in Knobs, s \in {Loose, Tight}}
        \cup {File(FALSE, k @@ s) : k \in {x \in Knobs : x.policy = "balanced"}, s \in {Loose, Tight}}
=============================================================================
