------------------------------- MODULE Lifecycle -------------------------------
(***************************************************************************)
(* The relay process (src/main.rs run_serve, src/lib.rs                    *)
(* serve_with_shutdown, src/win_service.rs run_service): configuration and *)
(* TLS identity, the runtime, the background redirect listener, the three  *)
(* core listeners raced by one select, and what the host is told.  The     *)
(* host is a "console" (or systemd, launchd) that sees the exit code, or   *)
(* the Windows service manager, the "scm", which may send Stop.            *)
(***************************************************************************)
Core == {"wire", "health", "stun"}
Setups == {"usable", "invalid", "no_identity"}

VARIABLES
    host,          \* who started the process
    setup,         \* the configuration: usable, or what is wrong with it
    proc,          \* where the process is
    runtime,       \* the tokio runtime: "none", "built" or "failed"
    bound,         \* the state of every listener
    stop,          \* a Stop was put in the shutdown channel
    told,          \* what the service manager was last told
    exit           \* the exit status, "none" before there is one

lifeVars == <<host, setup, proc, runtime, bound, stop, told, exit>>

LifeInit ==
    /\ host \in {"console", "scm"}
    /\ setup \in Setups
    /\ proc = "begin"
    /\ runtime = "none"
    /\ bound = [l \in Core \cup {"redirect"} |-> "unbound"]
    /\ stop = FALSE
    /\ told = "nothing"
    /\ exit = "none"

\* run_service reports Running before anything of the relay has started;
\* registering the control handler, or the report, may fail.
ReportRunning ==
    /\ host = "scm" /\ proc = "begin"
    /\ \/ told' = "running" /\ proc' = "runtime"
       \/ UNCHANGED told /\ proc' = "ended"
    /\ UNCHANGED <<host, setup, runtime, bound, stop, exit>>

\* run_serve validates before it builds the runtime.
Validate ==
    /\ host = "console" /\ proc = "begin"
    /\ IF setup = "invalid"
       THEN proc' = "ended" /\ exit' = "usage"
       ELSE proc' = "runtime" /\ UNCHANGED exit
    /\ UNCHANGED <<host, setup, runtime, bound, stop, told>>

\* Without a runtime run_serve fails, and run_service returns and tells
\* nobody.
BuildRuntime ==
    /\ proc = "runtime"
    /\ \/ runtime' = "built" /\ proc' = "starting" /\ UNCHANGED exit
       \/ /\ runtime' = "failed" /\ proc' = "ended"
          /\ exit' = IF host = "console" THEN "failure" ELSE exit
    /\ UNCHANGED <<host, setup, bound, stop, told>>

\* serve_with_shutdown up to the select: validate, load the TLS identity,
\* spawn the redirect task.
Start ==
    /\ proc = "starting"
    /\ proc' = IF setup = "usable" THEN "serving" ELSE "failed"
    /\ UNCHANGED <<host, setup, runtime, bound, stop, told, exit>>

\* run_redirect on its own task: a refused bind is a warning.
BindRedirect ==
    /\ proc = "serving" /\ bound["redirect"] = "unbound"
    /\ \E outcome \in {"listening", "refused"} : bound' = [bound EXCEPT !["redirect"] = outcome]
    /\ UNCHANGED <<host, setup, proc, runtime, stop, told, exit>>

\* Mutant: a refused bind of a core listener is only logged.
BindCoreLogged(l) ==
    /\ proc = "serving" /\ bound[l] = "unbound"
    /\ \E outcome \in {"listening", "refused"} : bound' = [bound EXCEPT ![l] = outcome]
    /\ UNCHANGED <<host, setup, proc, runtime, stop, told, exit>>

\* A branch of the select is polled for the first time and binds; none of
\* the three returns once it is bound.
BindCore(l) ==
    /\ proc = "serving" /\ bound[l] = "unbound"
    /\ \/ bound' = [bound EXCEPT ![l] = "listening"] /\ UNCHANGED proc
       \/ bound' = [bound EXCEPT ![l] = "refused"] /\ proc' = "failed"
    /\ UNCHANGED <<host, setup, runtime, stop, told, exit>>

\* The control handler: Stop is accepted from Running on.
StopControl ==
    /\ told = "running" /\ ~stop
    /\ stop' = TRUE
    /\ UNCHANGED <<host, setup, proc, runtime, bound, told, exit>>

\* The shutdown branch of the select, for whoever handed it a channel.
Shutdown ==
    /\ proc = "serving" /\ stop
    /\ proc' = "shut"
    /\ UNCHANGED <<host, setup, runtime, bound, stop, told, exit>>

\* Mutant: Stopped is always reported as a success.
FinishAsSuccess ==
    /\ proc \in {"shut", "failed"}
    /\ proc' = "ended"
    /\ exit' = "success"
    /\ told' = IF host = "scm" THEN "stopped" ELSE told
    /\ UNCHANGED <<host, setup, runtime, bound, stop>>

\* Mutant: an error returns before Stopped is reported.
FinishReportsSuccess ==
    /\ proc \in {"shut", "failed"}
    /\ proc' = "ended"
    /\ exit' = IF proc = "shut" THEN "success" ELSE "failure"
    /\ told' = IF host = "scm" /\ proc = "shut" THEN "stopped" ELSE told
    /\ UNCHANGED <<host, setup, runtime, bound, stop>>

\* The result becomes the exit status, and Stopped for the service manager.
Finish ==
    /\ proc \in {"shut", "failed"}
    /\ proc' = "ended"
    /\ exit' = IF proc = "shut" THEN "success" ELSE "failure"
    /\ told' = IF host = "scm" THEN "stopped" ELSE told
    /\ UNCHANGED <<host, setup, runtime, bound, stop>>

\* The host: a console's signal ends the process, and an ended process may
\* be launched again, its configuration changed or not.
Signal ==
    /\ host = "console" /\ proc = "serving"
    /\ proc' = "ended" /\ exit' = "signal"
    /\ UNCHANGED <<host, setup, runtime, bound, stop, told>>

Relaunch ==
    /\ proc = "ended"
    /\ proc' = "begin" /\ runtime' = "none" /\ exit' = "none"
    /\ setup' \in Setups
    /\ bound' = [l \in DOMAIN bound |-> "unbound"]
    /\ stop' = FALSE /\ told' = "nothing"
    /\ UNCHANGED host

LifeStep ==
    \/ ReportRunning \/ Validate \/ BuildRuntime \/ Start \/ BindRedirect
    \/ \E l \in Core : BindCore(l)
    \/ Shutdown \/ Finish

LifeNext == LifeStep \/ StopControl \/ Signal \/ Relaunch

-------------------------------------------------------------------------------

CoreRefused == \E l \in Core : bound[l] = "refused"

\* The exit status tells why the process ended: success is a Stop of a relay
\* none of whose core listeners was refused, and a failure has its reason in
\* the configuration, the runtime or a core listener.  The redirect listener
\* never decides.
ExitTellsWhy ==
    /\ exit = "success" => stop /\ setup = "usable" /\ ~CoreRefused
    /\ exit = "usage" => setup = "invalid"
    /\ exit = "failure" => setup # "usable" \/ runtime = "failed" \/ CoreRefused

\* The process never stays up with a part missing: once serving, all three
\* core listeners come to listen or the process ends.
WholeOrEnded ==
    proc = "serving" ~> (proc = "ended" \/ \A l \in Core : bound[l] = "listening")

\* A Stop the service manager sent is answered with Stopped, before the
\* listeners are bound as well as after; except where the runtime could not
\* be built, of which run_service reports nothing.
StopAnswered == stop ~> (told = "stopped" \/ runtime = "failed")
===============================================================================
