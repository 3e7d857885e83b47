----------------------------- MODULE SandboxPlan -----------------------------
(***************************************************************************)
(* What runs in a sandbox (sandbox/adapter.py, factory.py, strategy.py,    *)
(* capabilities.py, seatbelt.py, bubblewrap.py, docker.py, preflight.py,   *)
(* executor_preflight.py, execution.py).                                   *)
(*                                                                         *)
(* A proposal keeps the hash of the text that its backend was to be given, *)
(* and an execution makes the text anew from the fields of the proposal,   *)
(* with the configuration, the links and the tools of that moment.         *)
(* Commands, purposes and the locks of approvals are in SandboxGate; here  *)
(* one terminal executes while the host changes and others propose.        *)
(***************************************************************************)
EXTENDS Integers, FiniteSets, TLC

CONSTANTS
    Places,        \* paths
    Project,       \* those inside the project
    Secret,        \* those with a built-in sensitive segment
    Unmountable,   \* per backend: those it will not mount writable
    Requests,      \* sets of paths a caller asks to write to
    Configs,       \* configurations somebody may write
    Hosts,         \* machines: the system, the tools on PATH, and whether every
                   \* system directory is there
    Relinks,       \* pairs of a path and one that it may be made a link to
    Nil,
    MaxOffers, MaxMoves

Backends == {"linux_bubblewrap", "macos_seatbelt", "docker", "none"}

Confining == Backends \ {"none"}

\* What SafeCodeConfig says of a sandbox; permits: the policy allows the command.
Settings == [network : BOOLEAN, restricted : BOOLEAN, sensitive : SUBSET Places, permits : BOOLEAN]

ASSUME PlanAssumption ==
    /\ Project \subseteq Places /\ Secret \subseteq Places
    /\ Unmountable \in [Confining -> SUBSET Places]
    /\ Requests \subseteq SUBSET Places
    /\ Configs \subseteq Settings
    /\ Hosts \subseteq [system : {"Linux", "Darwin"}, tools : SUBSET Confining, directories : BOOLEAN]
    /\ Relinks \subseteq Places \X Places
    /\ MaxOffers \in Nat /\ MaxMoves \in Nat

VARIABLES
    settings,  \* the configuration
    links,     \* per path: what it resolves to
    host,      \* the machine
    ready,     \* backends with a passing executor-preflight record
    offered,   \* the pending proposal
    offers,    \* how many there have been
    consents,  \* the approvals that are neither consumed nor expired, by proposal
    run,       \* the locals of execute_pending
    \* history, read by the properties only
    outcome,   \* how the last execution ended
    moves

planVars == <<settings, links, host, ready, offered, offers, consents, run, outcome, moves>>

-----------------------------------------------------------------------------
(* Backends *)

\* SandboxCapabilityDetector.detect_all
Available ==
    {b \in host.tools :
        /\ b = "linux_bubblewrap" => host.system = "Linux"
        /\ b = "macos_seatbelt" => host.system = "Darwin"} \cup {"none"}

\* SandboxBackendStrategy.recommend: the first of these that is available.
Recommended ==
    IF "linux_bubblewrap" \in Available THEN "linux_bubblewrap"
    ELSE IF "macos_seatbelt" \in Available THEN "macos_seatbelt"
    ELSE IF "docker" \in Available THEN "docker"
    ELSE "none"

\* FilesystemBoundary.validate lets a resolved path pass.
Admits(c, q) == (c.restricted => q \in Project) /\ q \notin c.sensitive

Resolved(paths) == {links[q] : q \in paths}

\* The paths of a request that a builder keeps, and those it grants writing to.
Kept(c, request) == {q \in Resolved(request.writable) : Admits(c, q)}

Granted(b, c, request) ==
    IF request.readonly THEN {}
    ELSE {q \in Kept(c, request) \cap Project : q \notin Secret \cup Unmountable[b]}

\* SeatbeltProfileBuilder.build
Profile(c, request) ==
    LET writes == Granted("macos_seatbelt", c, request)
    IN  [network |-> request.network,
         writes |-> writes,
         reads |-> IF request.readonly THEN Kept(c, request) ELSE writes,
         denied |-> [names |-> c.sensitive \cup Secret, readonly |-> request.readonly]]

\* BubblewrapArgsBuilder.build
Arguments(c, request) ==
    [network |-> request.network,
     writes |-> Granted("linux_bubblewrap", c, request),
     directories |-> host.directories]

\* DockerContainerPlanBuilder.build
Container(c, request) ==
    [network |-> request.network,
     writes |-> Granted("docker", c, request),
     readonly |-> request.readonly]

Text(b, c, request) ==
    CASE b = "macos_seatbelt" -> Profile(c, request)
      [] b = "linux_bubblewrap" -> Arguments(c, request)
      [] b = "docker" -> Container(c, request)
      [] OTHER -> Nil

-----------------------------------------------------------------------------
(* create_plan and propose *)

\* The proposal keeps the paths that were granted, and without a sandbox all.
Proposal(b, c, request) ==
    [number |-> offers + 1, backend |-> b, network |-> request.network, readonly |-> request.readonly,
     writable |-> IF b = "none" THEN Resolved(request.writable) ELSE Granted(b, c, request),
     preview |-> Text(b, c, request)]

\* What was there when it was made; read by the properties only.
Circumstances(c) == [config |-> c, links |-> links, directories |-> host.directories]

\* The network only if it is asked for and the configuration has it; every
\* path must pass.
Offer ==
    /\ offered = Nil
    /\ offers < MaxOffers
    /\ settings.permits
    /\ \E writable \in Requests, readonly, asked \in BOOLEAN :
        LET request == [writable |-> writable, readonly |-> readonly,
                        network |-> asked /\ settings.network]
        IN  /\ \A q \in Resolved(writable) : Admits(settings, q)
            /\ offered' = [proposal |-> Proposal(Recommended, settings, request),
                           request |-> request, at |-> Circumstances(settings)]
    /\ offers' = offers + 1
    /\ UNCHANGED <<settings, links, host, ready, consents, run, outcome, moves>>

Withdraw ==
    /\ offered # Nil
    /\ offered' = Nil
    /\ UNCHANGED <<settings, links, host, ready, offers, consents, run, outcome, moves>>

Consent ==
    /\ offered # Nil
    /\ offered.proposal.number \notin consents
    /\ consents' = consents \cup {offered.proposal.number}
    /\ outcome' = Nil
    /\ UNCHANGED <<settings, links, host, ready, offered, offers, run, moves>>

\* sac sandbox executor-preflight: the smoke plan of a backend on this host.
PreflightExecutor ==
    /\ \E b \in Available \ {"none"} : b \notin ready /\ ready' = ready \cup {b}
    /\ UNCHANGED <<settings, links, host, offered, offers, consents, run, outcome, moves>>

-----------------------------------------------------------------------------
(* execute_pending *)

NotRunning == [step |-> "idle", config |-> Nil, offer |-> Nil, swapped |-> FALSE]

\* The configuration is loaded once.
LoadOffer ==
    /\ run.step = "idle" /\ offered # Nil
    /\ run' = [step |-> "loaded", config |-> settings, offer |-> offered, swapped |-> FALSE]
    /\ outcome' = Nil
    /\ UNCHANGED <<settings, links, host, ready, offered, offers, consents, moves>>

\* Mutant: the network is not looked at again.
CheckedOffline(c, proposal) ==
    /\ proposal.number \in consents
    /\ c.permits
    /\ proposal.backend \in Available
    /\ \A q \in Resolved(proposal.writable) : Admits(c, q)

\* SandboxExecutionPreflight.run
Checked(c, proposal) ==
    /\ proposal.number \in consents
    /\ c.permits
    /\ proposal.network => c.network
    /\ proposal.backend \in Available
    /\ \A q \in Resolved(proposal.writable) : Admits(c, q)

\* The preflight loads the pending proposal again.
CheckOffer ==
    /\ run.step = "loaded"
    /\ IF offered # Nil /\ Checked(run.config, offered.proposal)
       THEN run' = [run EXCEPT !.step = "checked", !.swapped = offered # run.offer]
       ELSE run' = NotRunning
    /\ UNCHANGED <<settings, links, host, ready, offered, offers, consents, outcome, moves>>

Executes(b) == run.step = "claimed" /\ run.offer.proposal.backend = b

\* The result is recorded and whatever is pending is discarded.
Settles(how, text) ==
    /\ outcome' = [how |-> how, text |-> text, offer |-> run.offer, config |-> run.config,
                   swapped |-> run.swapped, now |-> Circumstances(run.config)]
    /\ offered' = Nil
    /\ run' = NotRunning

\* Real execution needs the environment variable of the backend and its record.
ClaimOffer ==
    /\ run.step = "checked"
    /\ LET proposal == run.offer.proposal
       IN  \/ proposal.backend # "none" /\ run' = NotRunning /\ UNCHANGED <<offered, consents, outcome>>
           \/ /\ proposal.backend \in ready \cup {"none"}
              /\ IF proposal.number \in consents
                 THEN run' = [run EXCEPT !.step = "claimed"] /\ UNCHANGED <<offered, outcome>>
                 ELSE Settles("denied", Nil)
              /\ consents' = consents \ {proposal.number}
    /\ UNCHANGED <<settings, links, host, ready, offers, moves>>

\* The text made anew, from the paths that were granted.
Rebuilt(b) == Text(b, run.config, run.offer.proposal)

\* A text that differs, a tool that is gone, a run, a timeout (the command ran,
\* the record says it was not executed), an error of the tool.
Attempt(b) ==
    /\ IF Rebuilt(b) # run.offer.proposal.preview THEN Settles("mismatch", Rebuilt(b))
       ELSE IF b \notin host.tools THEN Settles("no_tool", Nil)
       ELSE \E how \in {"ran", "timeout", "failed"} : Settles(how, Rebuilt(b))
    /\ UNCHANGED <<settings, links, host, ready, offers, consents, moves>>

ExecuteBubblewrap == Executes("linux_bubblewrap") /\ Attempt("linux_bubblewrap")

ExecuteSeatbelt == Executes("macos_seatbelt") /\ Attempt("macos_seatbelt")

\* docker info comes first: a daemon that does not answer is a tool that is gone.
ExecuteDocker ==
    /\ Executes("docker")
    /\ \/ Attempt("docker")
       \/ /\ Rebuilt("docker") = run.offer.proposal.preview
          /\ Settles("no_tool", Nil)
          /\ UNCHANGED <<settings, links, host, ready, offers, consents, moves>>

\* ShellRunner.run
ExecuteHere ==
    /\ Executes("none")
    /\ Settles("ran_here", Nil)
    /\ UNCHANGED <<settings, links, host, ready, offers, consents, moves>>

-----------------------------------------------------------------------------
(* The environment *)

Moves == moves < MaxMoves /\ moves' = moves + 1

\* Somebody edits the configuration,
ChangeSettings ==
    /\ Moves
    /\ \E c \in Configs \ {settings} : settings' = c
    /\ UNCHANGED <<links, host, ready, offered, offers, consents, run, outcome>>

\* replaces a directory by a link to another, where what led to it leads as well,
Relink ==
    /\ Moves
    /\ \E pair \in Relinks :
        /\ pair[1] # pair[2] /\ links[pair[2]] = pair[2]
        /\ links' = [q \in Places |-> IF pair[1] \in {q, links[q]} THEN pair[2] ELSE links[q]]
    /\ UNCHANGED <<settings, host, ready, offered, offers, consents, run, outcome>>

\* installs or removes a tool or a system directory,
ChangeHost ==
    /\ Moves
    /\ \/ \E b \in Confining :
            host' = [host EXCEPT !.tools = IF b \in @ THEN @ \ {b} ELSE @ \cup {b}]
       \/ host' = [host EXCEPT !.directories = ~ @]
    /\ UNCHANGED <<settings, links, ready, offered, offers, consents, run, outcome>>

\* revokes an approval or lets it expire.
LoseConsent ==
    /\ Moves
    /\ \E n \in consents : consents' = consents \ {n}
    /\ UNCHANGED <<settings, links, host, ready, offered, offers, run, outcome>>

PlanInit ==
    /\ settings \in Configs
    /\ links = [q \in Places |-> q]
    /\ host \in Hosts
    /\ ready = {}
    /\ offered = Nil /\ offers = 0
    /\ consents = {}
    /\ run = NotRunning
    /\ outcome = Nil
    /\ moves = 0

PlanNext ==
    \/ Offer \/ Withdraw \/ Consent \/ PreflightExecutor
    \/ LoadOffer \/ CheckOffer \/ ClaimOffer
    \/ ExecuteBubblewrap \/ ExecuteSeatbelt \/ ExecuteDocker \/ ExecuteHere
    \/ ChangeSettings \/ Relink \/ ChangeHost \/ LoseConsent

PlanSpec == PlanInit /\ [][PlanNext]_planVars

-----------------------------------------------------------------------------
(* Properties *)

\* What a text lets a command do is what the configuration lets it do.
Within(text, c, proposal) ==
    /\ text.writes \subseteq Project \ (c.sensitive \cup Secret)
    /\ proposal.readonly => text.writes = {}

\* A profile for a read-only run names the paths that were asked for, and the
\* proposal does not keep them.
ForgetsReads(offer) ==
    /\ offer.proposal.backend = "macos_seatbelt"
    /\ offer.request.readonly /\ offer.request.writable # {}

\* docs/public-contracts.md, sandbox/execution.py: what runs in a sandbox was
\* reviewed as it runs, and is within the configuration that the execution has
\* loaded, whatever was edited, linked or installed since the review: no
\* network that is switched off by now, unless the proposal was replaced under
\* the preflight, and no write outside the project or to a sensitive path.
\* An approval is spent on a text that differs only if something did change.
RunsAsReviewed ==
    outcome # Nil =>
        LET proposal == outcome.offer.proposal
        IN  CASE outcome.how \in {"ran", "timeout", "failed"} ->
                    /\ outcome.text = proposal.preview
                    /\ Within(outcome.text, outcome.config, proposal)
                    /\ outcome.text.network => outcome.config.network \/ outcome.swapped
              [] outcome.how = "mismatch" ->
                    outcome.now # outcome.offer.at \/ ForgetsReads(outcome.offer)
              [] OTHER -> TRUE
=============================================================================
