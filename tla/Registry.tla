------------------------------ MODULE Registry ------------------------------
(***************************************************************************)
(* The peer registry (src/registry.rs): a map from peer_id to the record   *)
(* of the connection registered under it.  The registry is plain data      *)
(* behind one async mutex, so every method is an operator on its value;    *)
(* Relay.tla says which task calls which method, and when it holds the     *)
(* lock.                                                                   *)
(*                                                                         *)
(* A record keeps what the code decides by: the network and the outbound   *)
(* sender.  The sender is named by the connection at its receiving end;    *)
(* `closed` is the set of connections whose receiver is gone               *)
(* (tx.is_closed()), `stale` the set of those silent for longer than the   *)
(* liveness deadline (they share last_activity with the record).           *)
(***************************************************************************)
EXTENDS FiniteSets

CONSTANTS
    Peers,      \* the peer ids clients may claim
    Networks,   \* the network ids
    Conns,      \* the connections accepted during a behaviour
    Vacant      \* "no record under this id"

\* A registered peer's record (Peer): info is never read to decide anything.
Peer == [network_id : Networks, tx : Conns]

ASSUME VacantAssumption == Vacant \notin Peer

\* HashMap<String, Peer>, as a total function.
RegistryType == [Peers -> Peer \cup {Vacant}]

\* Registry::new
NewRegistry == [p \in Peers |-> Vacant]

\* The ids under which a record is stored.
Registered(reg) == {p \in Peers : reg[p] # Vacant}

\* Registry::len
RegistryLen(reg) == Cardinality(Registered(reg))

\* Mutant: a colliding registration replaces whoever holds the id.
ReplaceOnCollide(reg, closed, p) ==
    IF reg[p] = Vacant THEN "Registered" ELSE "Reconnected"

\* The answer of Registry::register.
RegisterOutcome(reg, closed, p) ==
    IF reg[p] = Vacant THEN "Registered"
    ELSE IF reg[p].tx \in closed THEN "Reconnected"
    ELSE "Occupied"

\* What Registry::register stores unless the id is occupied.
Insert(reg, p, n, c) == [reg EXCEPT ![p] = [network_id |-> n, tx |-> c]]

\* Mutants: the sweep looks at the channel only, or at the silence only.
DeadOnly(reg, closed, stale) == {p \in Registered(reg) : reg[p].tx \in closed}
StaleOnly(reg, closed, stale) == {p \in Registered(reg) : reg[p].tx \in stale}

\* Registry::dead_or_stale: the ids the health sweep prunes.
DeadOrStale(reg, closed, stale) ==
    {p \in Registered(reg) : reg[p].tx \in closed \cup stale}

\* Registry::unregister, for one id or (the sweep, under one lock) for several.
Unregister(reg, ids) == [p \in Peers |-> IF p \in ids THEN Vacant ELSE reg[p]]

\* Mutant: an id is looked up whatever its network.
SenderInAnyNetwork(reg, p, n) == IF reg[p] = Vacant THEN {} ELSE {reg[p].tx}

\* Registry::sender_in_network: the sender, if the id is registered on n.
SenderInNetwork(reg, p, n) ==
    IF reg[p] # Vacant /\ reg[p].network_id = n THEN {reg[p].tx} ELSE {}

\* Registry::peers, for the networks the filter lets through.
PeersIn(reg, ns) == {p \in Registered(reg) : reg[p].network_id \in ns}

\* Registry::broadcast_targets
BroadcastTargets(reg, from, n, exclude) ==
    {<<p, reg[p].tx>> : p \in PeersIn(reg, {n}) \ ({from} \cup exclude)}
=============================================================================
