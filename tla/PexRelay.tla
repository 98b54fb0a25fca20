------------------------------ MODULE PexRelay ------------------------------
(***************************************************************************)
(* The PEX introducer's mirror of the registry (src/pex.rs).  It lives     *)
(* behind a mutex of its own and is updated only after the registry lock   *)
(* has been released.  The external PexEngine of a network is kept as the  *)
(* two sets its callers can observe: the peers it advertises (`known`) and *)
(* the peers subscribed to its deltas (`links`).  `conns` maps an id to    *)
(* the connection whose PEX sender is retained for it.                     *)
(***************************************************************************)
EXTENDS Registry

CONSTANT NoConn \* "no PEX sender under this id"

ASSUME NoConnAssumption == NoConn \notin Conns

PexType == [known : [Networks -> SUBSET Peers],
            links : [Networks -> SUBSET Peers],
            conns : [Peers -> Conns \cup {NoConn}]]

\* PexRelay::new; an engine not yet created advertises nobody.
NewPex == [known |-> [n \in Networks |-> {}],
           links |-> [n \in Networks |-> {}],
           conns |-> [p \in Peers |-> NoConn]]

\* PexRelay::on_register: upsert the entry, retain the sender.
OnRegister(pex, p, n, c) ==
    [pex EXCEPT !.known[n] = @ \cup {p}, !.conns[p] = c]

\* PexRelay::on_unregister: only network n's engine forgets p, but the
\* sender is dropped whatever network it was retained for.
OnUnregister(pex, p, n) ==
    [pex EXCEPT !.known[n] = @ \ {p},
                !.links[n] = @ \ {p},
                !.conns[p] = NoConn]

\* PexRelay::on_node_handshake: the engine mutes an incompatible peer,
\* otherwise the link comes up.
OnNodeHandshake(pex, p, n, muted) ==
    IF muted THEN pex ELSE [pex EXCEPT !.links[n] = @ \cup {p}]
=============================================================================
