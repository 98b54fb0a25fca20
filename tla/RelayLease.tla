------------------------------ MODULE RelayLease -------------------------------
(***************************************************************************)
(* The relay of Relay.tla implements IdentityLease: the holder of an id is *)
(* the connection its registry record points to, a channel is lost when    *)
(* its writer task has exited.                                             *)
(***************************************************************************)
EXTENDS Relay

HolderOf == [p \in Peers |-> IF registry[p] = Vacant THEN NoConn ELSE registry[p].tx]

Lease == INSTANCE IdentityLease
    WITH Ids <- Peers, Holders <- Conns, Free <- NoConn,
         Capacity <- MaxConnections, holder <- HolderOf, lost <- Closed

\* Through all interleavings of registration, teardown, writer exits and the
\* health sweep, each of them several steps, the registry behaves as a table
\* of leases that is changed atomically: register_peer grants one free or
\* dead id within max_connections, deregister and sweep_once end leases and
\* grant none, and no closed channel opens again.
RefinesLease == Lease!Spec
===============================================================================
