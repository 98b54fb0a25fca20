------------------------------ MODULE Service -------------------------------
(***************************************************************************)
(* Registration of the relay as an OS service (src/service.rs): install,   *)
(* uninstall, start and stop, at system or at user scope.                  *)
(*                                                                         *)
(* One CLI process runs at a time; each of its calls to the service        *)
(* manager is a step of its own, may fail, and may be the last one the     *)
(* process makes.  A user scope is the calling user's own: a process of    *)
(* root and one of the desktop user address different user domains.  What  *)
(* a service manager holds for a domain is a set of at most one            *)
(* registration, a registration is the environment install wrote for it,   *)
(* and a configuration is the set of knobs that differ from the default.   *)
(***************************************************************************)
EXTENDS Integers, Sequences, Functions

CONSTANTS
    Configs,      \* the configurations install is invoked with
    MaxCommands   \* bound on the number of CLI invocations

Scopes == {"system", "user"}
ScopeChoices == Scopes \cup {"auto"}
Domains == {"system", "user", "root_user"}
Ops == {"install", "uninstall", "start", "stop"}

\* The knobs of RelayServerConfig, by what install and config_from_env do
\* with them: "limits" are written and read back, "rates" (the STUN and queue
\* limits, the timeouts, the trusted proxies) are read but never written,
\* "idle_timeout" is a command-line flag only.
Knobs == {"limits", "rates", "idle_timeout", "tls_cert", "tls_key"}

ASSUME ServiceAssumption == Configs \subseteq SUBSET Knobs /\ MaxCommands \in Nat

VARIABLES
    supports_user,  \* PREFERS_USER_LEVEL: false on Windows
    managed,        \* the scopes whose manager manager_at can acquire
    registered,     \* domain -> its registration, if any
    running,        \* domain -> the configuration its process serves, if any
    booting,        \* domains the OS has yet to start since it booted
    cli,            \* the running CLI process
    todo,           \* the scopes it has yet to remove, with their modes
    removal,        \* the removal it is working on
    done,           \* the removals it has made
    report,         \* what the last process reported
    before,         \* history: registrations when it was invoked
    commands        \* number of invocations so far

os == <<supports_user, managed>>
serviceVars == <<os, registered, running, booting, cli, todo, removal, done, report, before, commands>>

Idle == [at |-> "idle", op |-> "stop", root |-> FALSE, choice |-> "auto", config |-> {}]
NoRemoval == [scope |-> "system", found |-> FALSE, unknown |-> FALSE,
              removed |-> FALSE, indeterminate |-> FALSE]

-----------------------------------------------------------------------------
\* Scopes and privilege

\* The service manager's domain a scope names for the caller.
Domain(scope) ==
    IF scope = "system" THEN "system" ELSE IF cli.root THEN "root_user" ELSE "user"

\* The scope a domain is of.
ScopeOf(d) == IF d = "system" THEN "system" ELSE "user"

\* resolve_scope
Resolved ==
    IF ~supports_user THEN "system"
    ELSE IF cli.choice \in Scopes THEN cli.choice
    ELSE IF cli.root THEN "system" ELSE "user"

OtherScope(scope) == IF scope = "system" THEN "user" ELSE "system"

\* Mutant: the privilege is left for the service manager to check.
PrivilegedLater(scope) == TRUE

\* ensure_privilege_for_scope
Privileged(scope) == ~supports_user \/ scope = "user" \/ cli.root

\* cfg!(windows) && !is_elevated()
NotElevated == ~supports_user /\ ~cli.root

\* Mutant: an explicit choice sweeps the other scope too.
UninstallScopesBoth ==
    IF ~supports_user THEN <<Resolved>> ELSE <<Resolved, OtherScope(Resolved)>>

\* uninstall_scopes
UninstallScopes ==
    IF ~supports_user \/ cli.choice # "auto" THEN <<Resolved>>
    ELSE <<Resolved, OtherScope(Resolved)>>

\* What the service manager lets the caller write.
MayWrite(scope) == scope = "user" \/ cli.root

\* The environment install writes for a configuration, and what the process
\* serves with it: config_from_env starts from the defaults.
TlsKnobs == {"tls_cert", "tls_key"}
Environment(config) ==
    (config \cap {"limits"}) \cup (IF TlsKnobs \subseteq config THEN TlsKnobs ELSE {})
ConfigFromEnv(env) == env \ {"idle_timeout"}

\* RelayServerConfig::validate, as far as the knobs go.
Valid(config) == "tls_cert" \in config <=> "tls_key" \in config

-----------------------------------------------------------------------------

\* A host with any registrations in it, none of them running.
ServiceInit ==
    /\ supports_user \in BOOLEAN
    /\ managed \in SUBSET Scopes
    /\ "user" \in managed => supports_user /\ "system" \in managed
    /\ registered \in [Domains -> {{}} \cup {{Environment(config)} : config \in Configs}]
    /\ \A d \in Domains : registered[d] # {} => ScopeOf(d) \in managed
    /\ running = [d \in Domains |-> {}]
    /\ booting = {}
    /\ cli = Idle /\ todo = <<>> /\ removal = NoRemoval /\ done = <<>>
    /\ report = [op |-> "stop", result |-> "none"]
    /\ before = registered
    /\ commands = 0

\* main: a command is invoked.
Invoke(op, root, choice, config) ==
    /\ cli.at = "idle" /\ commands < MaxCommands
    /\ cli' = [at |-> "begin", op |-> op, root |-> root, choice |-> choice, config |-> config]
    /\ commands' = commands + 1
    /\ report' = [op |-> op, result |-> "none"]
    /\ before' = registered
    /\ todo' = <<>> /\ done' = <<>> /\ removal' = NoRemoval
    /\ UNCHANGED <<os, registered, running, booting>>

\* emit: the process prints its outcome and exits.  The caller and its choice
\* stay in cli, for the properties.
Report(result) ==
    /\ cli' = [cli EXCEPT !.at = "idle"]
    /\ report' = [op |-> cli.op, result |-> result]
Goto(at) == cli' = [cli EXCEPT !.at = at] /\ UNCHANGED report

Swept(scope) == [scope |-> scope, mode |-> "swept"]
Requested(scope) == [scope |-> scope, mode |-> "requested"]

\* install, up to its first call that changes anything.
InstallBegin ==
    /\ cli.at = "begin" /\ cli.op = "install"
    /\ \/ /\ NotElevated \/ ~Privileged(Resolved)
          /\ Report("refused") /\ UNCHANGED todo
       \/ /\ ~NotElevated /\ Privileged(Resolved)    \* no manager, no program path
          /\ Report("failed") /\ UNCHANGED todo
       \/ /\ ~NotElevated /\ Privileged(Resolved) /\ Resolved \in managed
          /\ Goto(IF supports_user THEN "probe" ELSE "create")
          /\ todo' = IF supports_user THEN <<Swept(OtherScope(Resolved))>> ELSE <<>>
    /\ UNCHANGED <<os, registered, running, booting, removal, done, before, commands>>

\* uninstall: the scopes to remove, the first of them as requested.
UninstallBegin ==
    /\ cli.at = "begin" /\ cli.op = "uninstall"
    /\ \/ NotElevated /\ Report("refused") /\ UNCHANGED todo
       \/ /\ ~NotElevated
          /\ Goto("probe")
          /\ todo' = [k \in DOMAIN UninstallScopes |->
                        IF k = 1 THEN Requested(UninstallScopes[k]) ELSE Swept(UninstallScopes[k])]
    /\ UNCHANGED <<os, registered, running, booting, removal, done, before, commands>>

\* A removal is over: on to the next scope, to create, or to the outcome.
FinishRemoval(r) ==
    /\ done' = Append(done, r)
    /\ todo' = Tail(todo)
    /\ removal' = NoRemoval
    /\ Goto(IF Len(todo) > 1 THEN "probe" ELSE IF cli.op = "install" THEN "create" ELSE "report")

\* query_installed: what the probe of a domain can say.
ProbeAnswers(d) == {"unknown", IF registered[d] = {} THEN "absent" ELSE "present"}

\* remove_registration after the probe: a sweep ends here unless the probe saw
\* a registration.
Probed(r, mode) ==
    IF mode = "swept" /\ ~r.found THEN {[r EXCEPT !.indeterminate = r.unknown]} ELSE {}

\* remove_registration, or ScopeRemoval::unreachable: the probe.
Probe ==
    /\ cli.at = "probe"
    /\ LET target == Head(todo)
       IN  \/ /\ target.scope \notin managed
              /\ FinishRemoval([NoRemoval EXCEPT !.scope = target.scope,
                                                 !.indeterminate = (target.mode = "requested")])
           \/ /\ target.scope \in managed
              /\ \E answer \in ProbeAnswers(Domain(target.scope)) :
                   LET r == [NoRemoval EXCEPT !.scope = target.scope,
                                              !.found = (answer = "present"),
                                              !.unknown = (answer = "unknown")]
                   IN  \/ \E clean \in Probed(r, target.mode) : FinishRemoval(clean)
                       \/ /\ Probed(r, target.mode) = {}
                          /\ removal' = r /\ Goto("stop")
                          /\ UNCHANGED <<todo, done>>
    /\ UNCHANGED <<os, registered, running, booting, before, commands>>

\* The best-effort stop before the deletion.
StopForRemoval ==
    /\ cli.at = "stop"
    /\ \/ running' = running
       \/ /\ MayWrite(removal.scope)
          /\ running' = [running EXCEPT ![Domain(removal.scope)] = {}]
    /\ Goto("delete")
    /\ UNCHANGED <<os, registered, booting, todo, removal, done, before, commands>>

\* The deletion.  One that fails may have removed the registration all the same.
DeleteForRemoval ==
    LET d == Domain(removal.scope)
    IN  /\ cli.at = "delete"
        /\ \/ /\ registered[d] # {} /\ MayWrite(removal.scope)
              /\ registered' = [registered EXCEPT ![d] = {}]
              /\ FinishRemoval([removal EXCEPT !.removed = TRUE])
           \/ /\ registered' = registered
                 \/ (MayWrite(removal.scope) /\ registered' = [registered EXCEPT ![d] = {}])
              /\ FinishRemoval([removal EXCEPT
                                  !.indeterminate = (removal.unknown \/ removal.found)])
        /\ UNCHANGED <<os, running, booting, before, commands>>

\* Mutant: only what the probe saw is worth a warning.
WarnedIfFound(r) == ~r.removed /\ r.found

\* install's WARNING: a registration may be left at the other scope.
Warned(r) == ~r.removed /\ (r.found \/ r.indeterminate)

\* install_at_scope: the creation at the target, after the sweep.
Create ==
    LET d == Domain(Resolved)
        new == [registered EXCEPT ![d] = {Environment(cli.config)}]
    IN  /\ cli.at = "create"
        /\ \/ /\ MayWrite(Resolved)
              /\ registered' = new
              /\ Report(IF \E r \in Range(done) : Warned(r) THEN "warned" ELSE "ok")
           \/ /\ registered' = registered \/ (MayWrite(Resolved) /\ registered' = new)
              /\ Report("failed")
        /\ UNCHANGED <<os, running, booting, todo, removal, done, before, commands>>

\* Mutant: a scope whose state could not be determined is no problem.
UnresolvedIfFound(r) == r.found /\ ~r.removed

Unresolved(r) == r.indeterminate \/ (r.found /\ ~r.removed)

\* uninstall_outcome
UninstallOutcome ==
    /\ cli.at = "report"
    /\ Report(IF \E r \in Range(done) : Unresolved(r) THEN "incomplete"
              ELSE IF \E r \in Range(done) : r.removed THEN "ok" ELSE "not_found")
    /\ UNCHANGED <<os, registered, running, booting, todo, removal, done, before, commands>>

\* A service process comes up in a domain: run_serve validates its
\* configuration and then binds the ports, which only one process can hold.
Launch(d) ==
    LET served == {ConfigFromEnv(env) : env \in registered[d]}
    IN  running' = IF (\A e \in Domains : running[e] = {}) /\ (\A config \in served : Valid(config))
                   THEN [running EXCEPT ![d] = served] ELSE running

\* start: the service manager is asked; it may refuse.
StartService ==
    /\ cli.at = "begin" /\ cli.op = "start"
    /\ \/ Report("failed") /\ UNCHANGED running
       \/ /\ Resolved \in managed /\ MayWrite(Resolved) /\ registered[Domain(Resolved)] # {}
          /\ Launch(Domain(Resolved))
          /\ Report("ok")
    /\ UNCHANGED <<os, registered, booting, todo, removal, done, before, commands>>

\* stop: likewise.
StopService ==
    /\ cli.at = "begin" /\ cli.op = "stop"
    /\ \/ Report("failed") /\ UNCHANGED running
       \/ /\ Resolved \in managed /\ MayWrite(Resolved)
          /\ running' = [running EXCEPT ![Domain(Resolved)] = {}]
          /\ Report("ok")
    /\ UNCHANGED <<os, registered, booting, todo, removal, done, before, commands>>

\* The CLI process is killed between two calls.
Killed ==
    /\ cli.at # "idle"
    /\ cli' = [cli EXCEPT !.at = "idle"]
    /\ UNCHANGED <<os, registered, running, booting, todo, removal, done, report, before, commands>>

\* The host reboots; the service managers then start what is registered.
Reboot ==
    /\ running' = [d \in Domains |-> {}]
    /\ booting' = {d \in Domains : registered[d] # {}}
    /\ cli' = [cli EXCEPT !.at = "idle"]
    /\ UNCHANGED <<os, registered, todo, removal, done, report, before, commands>>

AutoStart(d) ==
    /\ d \in booting
    /\ booting' = booting \ {d}
    /\ Launch(d)
    /\ UNCHANGED <<os, registered, cli, todo, removal, done, report, before, commands>>

ServiceNext ==
    \/ \E op \in Ops, root \in BOOLEAN, choice \in ScopeChoices, config \in Configs :
          Invoke(op, root, choice, config)
    \/ InstallBegin \/ UninstallBegin
    \/ Probe \/ StopForRemoval \/ DeleteForRemoval \/ Create \/ UninstallOutcome
    \/ StartService \/ StopService
    \/ Killed \/ Reboot \/ \E d \in Domains : AutoStart(d)

ServiceSpec == ServiceInit /\ [][ServiceNext]_serviceVars

-----------------------------------------------------------------------------

\* The last process has reported, and this is what it said.
Reported(op, results) == cli.at = "idle" /\ report.op = op /\ report.result \in results

\* The domains the last process was asked to deal with.
Addressed ==
    {Domain(s) : s \in IF cli.op = "install" \/ (cli.op = "uninstall" /\ cli.choice = "auto")
                       THEN IF supports_user THEN Scopes ELSE {"system"}
                       ELSE {Resolved}}

\* uninstall reports success, or that there was nothing to remove, only when no
\* registration is left in any domain it was asked to clear, whatever the
\* probes could not read and whichever of its calls failed.
UninstallTellsTruth ==
    Reported("uninstall", {"ok", "not_found"}) => \A d \in Addressed : registered[d] = {}

\* install reports an unqualified success only when its own registration is in
\* place and the caller's other scope is clear, so that no stale one competes
\* for the relay's ports.
InstallTellsTruth ==
    Reported("install", {"ok"}) =>
        /\ registered[Domain(Resolved)] = {Environment(cli.config)}
        /\ \A d \in Addressed \ {Domain(Resolved)} : registered[d] = {}

\* An install the caller has no right to make leaves every registration as it
\* was, at whatever point it fails or is killed: a working one is never torn
\* down ahead of a create that cannot succeed.
RefusedInstallHarmless ==
    cli.op = "install" /\ ~MayWrite(Resolved) => registered = before

\* A process changes registrations only in the domains it was asked to deal
\* with: an explicit scope is never widened to the other one.
OnlyAddressedChange ==
    \A d \in Domains \ Addressed : registered[d] = before[d]

\* An installed service serves with the configuration it was installed with
\* (SPEC.md: "an installed OS service serves identically to a manually-run
\* `dig-relay serve` with the same flags").
InstalledServesIdentically ==
    Reported("install", {"ok"}) =>
        \A env \in registered[Domain(Resolved)] : ConfigFromEnv(env) = cli.config
=============================================================================
