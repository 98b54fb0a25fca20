----------------------------- MODULE MCTraffic ------------------------------
(* Small instances of Traffic for TLC. *)
EXTENDS Traffic, TLC

CONSTANTS talker, listener

\* One client registers and sends twice; the other registers.
TalkAndListen == (talker :> 3) @@ (listener :> 1)

\* Both register and ask for the list.
RegisterAndAsk == (talker :> 2) @@ (listener :> 2)

\* The state without the histories that only ViewStaysFresh reads: no action
\* reads them, so states that differ in nothing else have the same successors.
WithoutViews ==
    <<registry, session, pc, frames, sends, queue, closed, last, held>>

Symmetric == Permutations(Peers) \cup Permutations(Networks)
=============================================================================
