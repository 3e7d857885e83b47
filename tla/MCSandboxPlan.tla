---------------------------- MODULE MCSandboxPlan ----------------------------
(* Small instances of SandboxPlan for TLC. *)
EXTENDS SandboxPlan

CONSTANTS source, keys, root, out

\* A source directory, one with keys, the root of a project that lies at /tmp,
\* and a directory outside.
SomePlaces == {source, keys, root, out}

NoRoot == [b \in Confining |-> IF b = "macos_seatbelt" THEN {} ELSE {root}]

SomeRequests == {{source}, {source, keys}, {root, out}}

SomeRelinks == {<<source, out>>, <<source, keys>>}

Config(network, restricted, sensitive, permits) ==
    [network |-> network, restricted |-> restricted, sensitive |-> sensitive, permits |-> permits]

AsItComes == Config(TRUE, TRUE, {}, TRUE)

\* Also offline; open; with a sensitive path of its own; with a policy that
\* denies the command.
SomeConfigs ==
    {AsItComes, Config(FALSE, TRUE, {}, TRUE), Config(TRUE, FALSE, {}, TRUE),
     Config(TRUE, TRUE, {source}, TRUE), Config(TRUE, TRUE, {}, FALSE)}

Host(system, tools) == [system |-> system, tools |-> tools, directories |-> TRUE]

Bare == Host("Linux", {})

SomeHosts ==
    {Host("Linux", {"linux_bubblewrap", "docker"}), Host("Darwin", {"macos_seatbelt"}),
     Host("Linux", {"docker"}), Bare}
=============================================================================
