----------------------------- MODULE Surroundings ------------------------------
(***************************************************************************)
(* What surrounds the relay wire, side by side: the public pages, the DHT  *)
(* sweep, the process and its registration as a service.  They share no    *)
(* state the models keep, so a behaviour exercises one of them: `subject`  *)
(* says which.                                                             *)
(***************************************************************************)
EXTENDS Dashboard, DhtSweep, Lifecycle, Service

VARIABLE subject

vars == <<subject, dashVars, sweepVars, lifeVars, serviceVars>>

Init ==
    /\ DashInit /\ SweepInit /\ LifeInit /\ ServiceInit
    /\ subject \in {"offers", "pages", "dht", "process", "service"}
    /\ subject # "pages" => geo
    /\ subject # "process" => host = "console" /\ setup = "usable"
    /\ subject # "service" => supports_user /\ managed = {}

Others(exercised) ==
    /\ exercised \notin {"offers", "pages"} => UNCHANGED dashVars
    /\ exercised # "dht" => UNCHANGED sweepVars
    /\ exercised # "process" => UNCHANGED lifeVars
    /\ exercised # "service" => UNCHANGED serviceVars

Next ==
    /\ UNCHANGED subject
    /\ \/ subject = "offers" /\ DialNext /\ Others("offers")
       \/ subject = "pages" /\ DashNext /\ Others("pages")
       \/ subject = "dht" /\ SweepNext /\ Others("dht")
       \/ subject = "process" /\ LifeNext /\ Others("process")
       \/ subject = "service" /\ ServiceNext /\ Others("service")

\* The process's own steps happen: it starts, binds and ends.  Signals and
\* Stop owe nothing.
Fairness ==
    WF_vars(subject = "process" /\ LifeStep /\ Others("process") /\ UNCHANGED subject)

Spec == Init /\ [][Next]_vars /\ Fairness
===============================================================================
