---------------------------- MODULE RelayProofs -----------------------------
(***************************************************************************)
(* Proofs about Relay, for every set of connections, ids, networks and     *)
(* sources and every value of the caps: the inductive core, the registry   *)
(* with its counter, the owners of its records, how each step moves the    *)
(* slots a source holds, that the caps hold, and that the relay implements *)
(* IdentityLease.  Then that the slots balance, and with them the types    *)
(* (no counter goes below zero); and what the relay keeps under a peer id  *)
(* beside the record: the PEX mirror, the proven identity and, with mTLS,  *)
(* the slots of a source.                                                  *)
(***************************************************************************)
EXTENDS RelayLease, FiniteSetTheorems, TLAPS

-----------------------------------------------------------------------------
(* The inductive core: types and the shape of a task's state *)

\* The counters as integers; that they are never negative follows later,
\* from the balance of the slots.
CountersAreInt ==
    /\ connected \in Int
    /\ open_connections \in Int
    /\ conns_per_ip \in [Ips -> Int]
    /\ regs_per_ip \in [Ips -> Int]

\* What a task holds at each point of handle_connection.
TaskShape ==
    \A c \in Conns :
        /\ pc[c] \in {"registering", "mirroring"} => request[c] \in Identity
        /\ pc[c] = "unmirroring" => session[c] \in Identity
        /\ session[c] # NoIdentity => pc[c] \in Upgraded
        /\ c \in reg_slot => pc[c] \in Upgraded
        /\ writer[c] = "none" => pc[c] \notin Upgraded
        /\ writer[c] # "none" => pc[c] \in Upgraded \cup {"closed"}
        /\ pc[c] = "closed" => writer[c] \in {"none", "exited"}

Core == StateTypeOK /\ CountersAreInt /\ TaskShape

\* Every step is one of these actions.
LEMMA NextCases ==
    ASSUME Next
    PROVE  \/ \E c \in Conns :
                \/ Accept(c) \/ RefuseAtAccept(c) \/ CheckOpenCap(c) \/ AcquireOpen(c)
                \/ AcquireConn(c) \/ Upgrade(c) \/ NotARelayPeer(c) \/ Frame(c)
                \/ \E id \in Identity : RegisterFrame(c, id)
                \/ RegisterPeer(c) \/ RegisterRefused(c) \/ RegisterMirror(c)
                \/ \E muted \in BOOLEAN : PexHandshake(c, muted)
                \/ StreamEnds(c) \/ LastFrame(c) \/ ReadTimeout(c)
                \/ Deregister(c) \/ DeregisterMirror(c) \/ WriterDrained(c)
                \/ WriterFails(c) \/ WriterStalls(c) \/ Finish(c) \/ GoStale(c)
           \/ SweepOnce
           \/ \E id \in pruned : SweepMirror(id)
           \/ Quiet
BY DEF Next, TaskStep, ClientStep, SweepStep

\* RelayState::new_with_tls and the tasks it has not yet spawned are well typed.
LEMMA InitCore == Init => Core
BY VacantAssumption, NoConnAssumption, RelayAssumption
DEF Init, Core, StateTypeOK, CountersAreInt, TaskShape, RegistryType, NewRegistry,
    PexType, NewPex, PcStates, Upgraded, HoldsConn

\* The registry's and the mirror's operators preserve their types.
LEMMA InsertType ==
    ASSUME NEW reg \in RegistryType, NEW p \in Peers, NEW n \in Networks, NEW c \in Conns
    PROVE  Insert(reg, p, n, c) \in RegistryType
BY DEF RegistryType, Insert, Peer

\* Registry::unregister leaves a registry.
LEMMA UnregisterType ==
    ASSUME NEW reg \in RegistryType, NEW ids
    PROVE  Unregister(reg, ids) \in RegistryType
BY DEF RegistryType, Unregister

\* PexRelay::on_register leaves a PEX state.
LEMMA OnRegisterType ==
    ASSUME NEW x \in PexType, NEW p \in Peers, NEW n \in Networks, NEW c \in Conns
    PROVE  OnRegister(x, p, n, c) \in PexType
BY Zenon DEF PexType, OnRegister

\* PexRelay::on_unregister leaves a PEX state.
LEMMA OnUnregisterType ==
    ASSUME NEW x \in PexType, NEW p \in Peers, NEW n \in Networks
    PROVE  OnUnregister(x, p, n) \in PexType
BY Zenon DEF PexType, OnUnregister

\* PexRelay::on_node_handshake leaves a PEX state.
LEMMA OnNodeHandshakeType ==
    ASSUME NEW x \in PexType, NEW p \in Peers, NEW n \in Networks, NEW m \in BOOLEAN
    PROVE  OnNodeHandshake(x, p, n, m) \in PexType
BY DEF PexType, OnNodeHandshake

\* The victims of a sweep are peers, each with the network of its record.
LEMMA VictimsType ==
    ASSUME NEW reg \in RegistryType, NEW S, NEW T
    PROVE  /\ DeadOrStale(reg, S, T) \subseteq Registered(reg)
           /\ Registered(reg) \subseteq Peers
           /\ \A p \in Registered(reg) : reg[p] \in Peer
BY DEF DeadOrStale, Registered, RegistryType

\* A session names a peer and a network.
LEMMA IdentityFields ==
    ASSUME NEW id \in Identity
    PROVE  id.peer_id \in Peers /\ id.network_id \in Networks
BY DEF Identity

\* register_peer under the registry lock serves a Register frame.
LEMMA RequestType ==
    ASSUME Core, NEW c \in Conns, RegisterPeer(c)
    PROVE  request[c] \in Identity
<1>1. pc[c] = "registering"
  BY Zenon DEF RegisterPeer
<1> QED  BY <1>1 DEF Core, TaskShape

\* The core is preserved by every step.
LEMMA CoreStep ==
    ASSUME Core, [Next]_vars
    PROVE  Core'
<1> USE RelayAssumption
<1> USE DEF Core, StateTypeOK, CountersAreInt, TaskShape, PcStates, Upgraded, HoldsConn
<1>1. ASSUME NEW c \in Conns, Accept(c)  PROVE Core'
  BY <1>1 DEF Accept, Goto, counters
<1>2. ASSUME NEW c \in Conns, RefuseAtAccept(c)  PROVE Core'
  BY <1>2 DEF RefuseAtAccept, Goto, counters
<1>3. ASSUME NEW c \in Conns, CheckOpenCap(c)  PROVE Core'
  BY <1>3 DEF CheckOpenCap, Goto, counters
<1>4. ASSUME NEW c \in Conns, AcquireOpen(c)  PROVE Core'
  BY <1>4 DEF AcquireOpen, Goto
<1>5. ASSUME NEW c \in Conns, AcquireConn(c)  PROVE Core'
  BY <1>5 DEF AcquireConn, Goto, Taken
<1>6. ASSUME NEW c \in Conns, Upgrade(c)  PROVE Core'
  BY <1>6 DEF Upgrade, Goto, counters
<1>7. ASSUME NEW c \in Conns, NotARelayPeer(c)  PROVE Core'
  BY <1>7 DEF NotARelayPeer, Goto, DropSlots, Released
<1>8. ASSUME NEW c \in Conns, Frame(c)  PROVE Core'
  BY <1>8 DEF Frame, Stamp, counters
<1>9. ASSUME NEW c \in Conns, NEW id \in Identity, RegisterFrame(c, id)  PROVE Core'
  BY <1>9 DEF RegisterFrame, Goto, Stamp, Taken
<1>10. ASSUME NEW c \in Conns, RegisterPeer(c)  PROVE Core'
  <2>1. request[c] \in Identity
    BY <1>10 DEF RegisterPeer
  <2>2. CASE Admitted(c, request[c])
    <3>1. registry' \in RegistryType
      BY <1>10, <2>1, <2>2, InsertType, IdentityFields DEF RegisterPeer
    <3> QED  BY <1>10, <2>2, <3>1 DEF RegisterPeer, Goto
  <2>3. CASE ~Admitted(c, request[c])
    BY <1>10, <2>3 DEF RegisterPeer, Goto
  <2> QED  BY <2>2, <2>3
<1>11. ASSUME NEW c \in Conns, RegisterRefused(c)  PROVE Core'
  BY <1>11 DEF RegisterRefused, Goto, Released
<1>12. ASSUME NEW c \in Conns, RegisterMirror(c)  PROVE Core'
  <2>1. request[c] \in Identity
    BY <1>12 DEF RegisterMirror
  <2>2. pex' \in PexType
    BY <1>12, <2>1, OnRegisterType, IdentityFields DEF RegisterMirror
  <2> QED  BY <1>12, <2>1, <2>2 DEF RegisterMirror, Goto, Released
<1>13. ASSUME NEW c \in Conns, NEW muted \in BOOLEAN, PexHandshake(c, muted)  PROVE Core'
  <2>1. session[c] \in Identity
    BY <1>13 DEF PexHandshake
  <2>2. pex' \in PexType
    BY <1>13, <2>1, OnRegisterType, OnNodeHandshakeType, IdentityFields DEF PexHandshake
  <2> QED  BY <1>13, <2>1, <2>2 DEF PexHandshake, Stamp, counters
<1>14. ASSUME NEW c \in Conns, StreamEnds(c)  PROVE Core'
  BY <1>14 DEF StreamEnds, Goto, counters
<1>15. ASSUME NEW c \in Conns, LastFrame(c)  PROVE Core'
  BY <1>15 DEF LastFrame, Goto, Stamp, counters
<1>16. ASSUME NEW c \in Conns, ReadTimeout(c)  PROVE Core'
  BY <1>16 DEF ReadTimeout, Goto, counters
<1>17. ASSUME NEW c \in Conns, Deregister(c)  PROVE Core'
  BY <1>17, UnregisterType DEF Deregister, Goto
<1>18. ASSUME NEW c \in Conns, DeregisterMirror(c)  PROVE Core'
  BY <1>18, OnUnregisterType, IdentityFields DEF DeregisterMirror, Goto, counters
<1>19. ASSUME NEW c \in Conns, WriterDrained(c)  PROVE Core'
  BY <1>19 DEF WriterDrained, counters
<1>20. ASSUME NEW c \in Conns, WriterFails(c)  PROVE Core'
  BY <1>20 DEF WriterFails, counters
<1>21. ASSUME NEW c \in Conns, WriterStalls(c)  PROVE Core'
  <2>1. CASE writer[c] = "running" /\ writer' = [writer EXCEPT ![c] = "stalled"]
    BY <1>21, <2>1 DEF WriterStalls, counters
  <2>2. CASE writer[c] = "stalled" /\ writer' = [writer EXCEPT ![c] = "running"]
    BY <1>21, <2>2 DEF WriterStalls, counters
  <2> QED  BY <1>21, <2>1, <2>2 DEF WriterStalls
<1>22. ASSUME NEW c \in Conns, Finish(c)  PROVE Core'
  BY <1>22 DEF Finish, Goto, DropSlots, Released
<1>23. ASSUME NEW c \in Conns, GoStale(c)  PROVE Core'
  BY <1>23 DEF GoStale, counters
<1>24. ASSUME SweepOnce  PROVE Core'
  <2> DEFINE victims == DeadOrStale(registry, Closed, stale)
  <2>1. /\ victims \subseteq Peers
        /\ \A p \in victims : registry[p] \in Peer
    BY VictimsType
  <2>2. registry' \in RegistryType
    BY <1>24, UnregisterType DEF SweepOnce
  <2>3. pruned' \in SUBSET Identity
    BY <1>24, <2>1 DEF SweepOnce, Identity, Peer
  <2>4. connected' \in Int
    BY <1>24, <2>1, FS_Subset, FS_CardinalityType DEF SweepOnce
  <2> QED  BY <1>24, <2>2, <2>3, <2>4 DEF SweepOnce
<1>25. ASSUME NEW id \in pruned, SweepMirror(id)  PROVE Core'
  BY <1>25, OnUnregisterType, IdentityFields DEF SweepMirror, counters
<1>26. ASSUME Quiet  PROVE Core'
  BY <1>26 DEF Quiet, vars, counters
<1>27. CASE UNCHANGED vars
  BY <1>27 DEF vars, counters
<1> HIDE DEF Core
<1> QED
  BY <1>1, <1>2, <1>3, <1>4, <1>5, <1>6, <1>7, <1>8, <1>9, <1>10, <1>11, <1>12, <1>13, Zenon,
     <1>14, <1>15, <1>16, <1>17, <1>18, <1>19, <1>20, <1>21, <1>22, <1>23, <1>24, <1>25,
     <1>26, <1>27, NextCases

\* The core holds in every reachable state.
THEOREM CoreInvariant == Spec => []Core
<1>1. Init => Core
  BY InitCore
<1>2. Core /\ [Next]_vars => Core'
  BY CoreStep, SMTT(40)
<1> QED
  BY <1>1, <1>2, PTL DEF Spec

-----------------------------------------------------------------------------
(* The registry and its counter *)

\* Only register_peer, deregister and sweep_once, each under the registry
\* lock, change the registry or the connected counter.
LEMMA RegistrySteps ==
    ASSUME [Next]_vars
    PROVE  \/ UNCHANGED <<registry, connected>>
           \/ \E c \in Conns : RegisterPeer(c) \/ Deregister(c)
           \/ SweepOnce
BY NextCases, ZenonT(40)
DEF Accept, RefuseAtAccept, CheckOpenCap, AcquireOpen, AcquireConn, Upgrade,
    NotARelayPeer, Frame, RegisterFrame, RegisterRefused, RegisterMirror,
    PexHandshake, StreamEnds, LastFrame, ReadTimeout, DeregisterMirror,
    WriterDrained, WriterFails, WriterStalls, Finish, GoStale, SweepMirror,
    Quiet, vars, counters

\* Removing a part of a finite set takes its size away.
LEMMA CardinalityOfDifference ==
    ASSUME NEW S, IsFiniteSet(S), NEW T \in SUBSET S
    PROVE  Cardinality(S \ T) = Cardinality(S) - Cardinality(T)
<1>1. IsFiniteSet(T) /\ IsFiniteSet(S \ T)
  BY FS_Subset
<1>2. (S \ T) \cup T = S /\ (S \ T) \cap T = {}
  OBVIOUS
<1>3. Cardinality(S) = Cardinality(S \ T) + Cardinality(T) - Cardinality({})
  BY <1>1, <1>2, FS_Union
<1> QED
  BY <1>1, <1>3, FS_EmptySet, FS_CardinalityType

\* Any registry holds finitely many records.
LEMMA RegisteredFinite ==
    ASSUME NEW reg
    PROVE  IsFiniteSet(Registered(reg)) /\ RegistryLen(reg) \in Nat
<1>1. Registered(reg) \in SUBSET Peers
  BY DEF Registered
<1> QED
  BY <1>1, RelayAssumption, FS_Subset, FS_CardinalityType DEF RegistryLen

\* An insertion adds one record unless the id already had one.
LEMMA InsertLen ==
    ASSUME NEW reg \in RegistryType, NEW p \in Peers, NEW n \in Networks, NEW c \in Conns
    PROVE  RegistryLen(Insert(reg, p, n, c)) =
             IF reg[p] = Vacant THEN RegistryLen(reg) + 1 ELSE RegistryLen(reg)
<1>1. [network_id |-> n, tx |-> c] # Vacant
  BY VacantAssumption DEF Peer
<1>2. Registered(Insert(reg, p, n, c)) = Registered(reg) \cup {p}
  BY <1>1 DEF Registered, Insert, RegistryType
<1>3. p \in Registered(reg) <=> reg[p] # Vacant
  BY DEF Registered
<1> QED
  BY <1>2, <1>3, RegisteredFinite, FS_AddElement, ZenonT(40) DEF RegistryLen

\* Removing registered ids shrinks the registry by their number.
LEMMA UnregisterLen ==
    ASSUME NEW reg \in RegistryType, NEW ids \in SUBSET Registered(reg)
    PROVE  RegistryLen(Unregister(reg, ids)) = RegistryLen(reg) - Cardinality(ids)
<1>1. Registered(Unregister(reg, ids)) = Registered(reg) \ ids
  BY DEF Registered, Unregister
<1> QED
  BY <1>1, RegisteredFinite, CardinalityOfDifference DEF RegistryLen

\* The connected counter follows the registry through every lock hold.
LEMMA ConnectedStep ==
    ASSUME Core, ConnectedMatchesRegistry, [Next]_vars
    PROVE  ConnectedMatchesRegistry'
<1> USE DEF ConnectedMatchesRegistry
<1>0. registry \in RegistryType
  BY DEF Core, StateTypeOK
<1>1. CASE UNCHANGED <<registry, connected>>
  BY <1>1 DEF RegistryLen, Registered
<1>2. ASSUME NEW c \in Conns, RegisterPeer(c)  PROVE ConnectedMatchesRegistry'
  <2>1. request[c] \in Identity
    BY <1>2, RequestType, Zenon
  <2>2. CASE Admitted(c, request[c])
    BY <1>0, <1>2, <2>1, <2>2, InsertLen, IdentityFields, RegisteredFinite, SMTT(40)
    DEF RegisterPeer, RegisterOutcome
  <2>3. CASE ~Admitted(c, request[c])
    BY <1>2, <2>3 DEF RegisterPeer
  <2> QED  BY <2>2, <2>3
<1>3. ASSUME NEW c \in Conns, Deregister(c)  PROVE ConnectedMatchesRegistry'
  <2>1. CASE session[c] # NoIdentity /\ session[c].peer_id \in Registered(registry)
    <3>1. RegistryLen(Unregister(registry, {session[c].peer_id})) =
             RegistryLen(registry) - Cardinality({session[c].peer_id})
      BY <1>0, <2>1, UnregisterLen
    <3> QED  BY <1>3, <2>1, <3>1, FS_Singleton, Zenon DEF Deregister
  <2>2. CASE ~(session[c] # NoIdentity /\ session[c].peer_id \in Registered(registry))
    BY <1>3, <2>2 DEF Deregister
  <2> QED  BY <2>1, <2>2, SMTT(40)
<1>4. CASE SweepOnce
  <2>1. DeadOrStale(registry, Closed, stale) \in SUBSET Registered(registry)
    BY DEF DeadOrStale
  <2> QED  BY <1>0, <1>4, <2>1, UnregisterLen DEF SweepOnce
<1> QED
  BY <1>1, <1>2, <1>3, <1>4, RegistrySteps

\* `connected`, which health and the dashboard report, always equals the
\* number of registry records.
THEOREM ConnectedTheorem == Spec => []ConnectedMatchesRegistry
<1>1. Init => ConnectedMatchesRegistry
  <2> SUFFICES ASSUME Init PROVE ConnectedMatchesRegistry
    OBVIOUS
  <2>1. Registered(registry) = {}
    BY DEF Init, NewRegistry, Registered
  <2> QED  BY <2>1, FS_EmptySet DEF Init, ConnectedMatchesRegistry, RegistryLen
<1>2. Core /\ ConnectedMatchesRegistry /\ [Next]_vars => ConnectedMatchesRegistry'
  BY ConnectedStep
<1> QED
  BY <1>1, <1>2, CoreInvariant, PTL DEF Spec

-----------------------------------------------------------------------------
(* The owners of registry records *)

\* What is true of a connection that has a record under p: its task is alive
\* and will deregister an id, or it has finished and its channel is closed.
MayOwn(c, p) ==
    \/ /\ pc[c] \in Upgraded
       /\ session[c] # NoIdentity \/ (pc[c] = "mirroring" /\ request[c].peer_id = p)
    \/ pc[c] = "closed" /\ c \in Closed

RecordOwners == \A p \in Registered(registry) : MayOwn(registry[p].tx, p)

\* Once a connection may own a record, it may own it for good: no step of its
\* own or of another task takes it to a state that would strand the record.
LEMMA MayOwnStable ==
    ASSUME Core, [Next]_vars, NEW d \in Conns, NEW p \in Peers, MayOwn(d, p)
    PROVE  MayOwn(d, p)'
<1>0. ASSUME SweepOnce \/ (\E id \in pruned : SweepMirror(id)) \/ Quiet \/ UNCHANGED vars
       PROVE  MayOwn(d, p)'
  <2>1. UNCHANGED <<pc, session, request, writer>>
    BY <1>0, Zenon DEF SweepOnce, SweepMirror, Quiet, vars
  <2> QED  BY <2>1 DEF MayOwn, Closed
<1> USE DEF Core, StateTypeOK, TaskShape, PcStates, Upgraded, HoldsConn, MayOwn, Closed
<1>1. ASSUME NEW c \in Conns,
             Accept(c) \/ RefuseAtAccept(c) \/ CheckOpenCap(c) \/ AcquireOpen(c)
      PROVE  MayOwn(d, p)'
  BY <1>1 DEF Accept, RefuseAtAccept, CheckOpenCap, AcquireOpen, Goto
<1>2. ASSUME NEW c \in Conns, AcquireConn(c) \/ Upgrade(c) \/ NotARelayPeer(c)
      PROVE  MayOwn(d, p)'
  BY <1>2 DEF AcquireConn, Upgrade, NotARelayPeer, Goto
<1>3. ASSUME NEW c \in Conns, NEW id \in Identity, RegisterFrame(c, id)
      PROVE  MayOwn(d, p)'
  BY <1>3 DEF RegisterFrame, Goto
<1>4. ASSUME NEW c \in Conns, RegisterPeer(c)
      PROVE  MayOwn(d, p)'
  BY <1>4 DEF RegisterPeer, Goto
<1>5. ASSUME NEW c \in Conns, RegisterRefused(c)
      PROVE  MayOwn(d, p)'
  BY <1>5 DEF RegisterRefused, Goto
<1>6. ASSUME NEW c \in Conns, RegisterMirror(c)
      PROVE  MayOwn(d, p)'
  BY <1>6, RelayAssumption DEF RegisterMirror, Goto
<1>7. ASSUME NEW c \in Conns,
             \/ Frame(c) \/ GoStale(c)
             \/ \E muted \in BOOLEAN : PexHandshake(c, muted)
      PROVE  MayOwn(d, p)'
  BY <1>7 DEF Frame, GoStale, PexHandshake
<1>8. ASSUME NEW c \in Conns, StreamEnds(c) \/ LastFrame(c) \/ ReadTimeout(c)
      PROVE  MayOwn(d, p)'
  BY <1>8 DEF StreamEnds, LastFrame, ReadTimeout, Goto
<1>9. ASSUME NEW c \in Conns, Deregister(c) \/ DeregisterMirror(c)
      PROVE  MayOwn(d, p)'
  BY <1>9 DEF Deregister, DeregisterMirror, Goto
<1>10. ASSUME NEW c \in Conns, WriterDrained(c) \/ WriterFails(c) \/ WriterStalls(c)
       PROVE  MayOwn(d, p)'
  BY <1>10 DEF WriterDrained, WriterFails, WriterStalls
<1>11. ASSUME NEW c \in Conns, Finish(c)
       PROVE  MayOwn(d, p)'
  BY <1>11 DEF Finish, Goto
<1> HIDE DEF Core, MayOwn
<1> QED
  BY <1>0, <1>1, <1>2, <1>3, <1>4, <1>5, <1>6, <1>7, <1>8, <1>9, <1>10, <1>11, NextCases

\* What one step can do to the record under p: nothing, remove it, or replace
\* it by the record of a registration that was admitted.
LEMMA RecordStep ==
    ASSUME Core, [Next]_vars, NEW p \in Peers
    PROVE  \/ registry'[p] \in {registry[p], Vacant}
           \/ \E c \in Conns :
                /\ RegisterPeer(c) /\ request[c] \in Identity
                /\ Admitted(c, request[c]) /\ request[c].peer_id = p
                /\ registry'[p] = [network_id |-> request[c].network_id, tx |-> c]
<1>1. registry \in RegistryType
  BY DEF Core, StateTypeOK
<1>2. CASE UNCHANGED <<registry, connected>>
  BY <1>2
<1>3. ASSUME NEW ids, registry' = Unregister(registry, ids)
      PROVE  registry'[p] \in {registry[p], Vacant}
  BY <1>3, Zenon DEF Unregister
<1>4. ASSUME NEW c \in Conns, RegisterPeer(c)
      PROVE  \/ registry'[p] \in {registry[p], Vacant}
             \/ /\ request[c] \in Identity
                /\ Admitted(c, request[c]) /\ request[c].peer_id = p
                /\ registry'[p] = [network_id |-> request[c].network_id, tx |-> c]
  <2>1. request[c] \in Identity
    BY <1>4, RequestType, Zenon
  <2> QED
    BY <1>1, <1>4, <2>1, IdentityFields DEF RegisterPeer, Insert, RegistryType
<1>5. ASSUME NEW c \in Conns, Deregister(c)
      PROVE  registry'[p] \in {registry[p], Vacant}
  BY <1>3, <1>5 DEF Deregister
<1>6. CASE SweepOnce
  BY <1>3, <1>6 DEF SweepOnce
<1> QED
  BY <1>2, <1>4, <1>5, <1>6, RegistrySteps

\* Every step of every task keeps each record with an owner that will look
\* for it.
LEMMA RecordOwnersStep ==
    ASSUME Core, RecordOwners, [Next]_vars
    PROVE  RecordOwners'
<1> SUFFICES ASSUME NEW p \in Peers, registry'[p] # Vacant
             PROVE  MayOwn(registry[p].tx, p)'
  BY DEF RecordOwners, Registered
<1>1. CASE registry'[p] = registry[p]
  <2>1. p \in Registered(registry) /\ registry[p].tx \in Conns
    BY <1>1 DEF Core, StateTypeOK, RegistryType, Registered, Peer
  <2>2. MayOwn(registry[p].tx, p)
    BY <2>1 DEF RecordOwners
  <2>3. PICK d \in Conns : d = registry[p].tx
    BY <2>1
  <2>4. MayOwn(d, p)'
    BY <2>2, <2>3, MayOwnStable
  <2>5. registry'[p].tx = d
    BY <1>1, <2>3, Zenon
  <2> QED  BY <2>4, <2>5 DEF MayOwn, Closed
<1>2. ASSUME NEW c \in Conns, RegisterPeer(c), request[c] \in Identity,
             Admitted(c, request[c]), request[c].peer_id = p,
             registry'[p] = [network_id |-> request[c].network_id, tx |-> c]
      PROVE  MayOwn(registry[p].tx, p)'
  BY <1>2 DEF RegisterPeer, Goto, MayOwn, Core, StateTypeOK, Upgraded, HoldsConn
<1> QED
  BY <1>1, <1>2, RecordStep, Zenon

\* Every record belongs to a task that will deregister it, or is dead.
THEOREM OwnersInvariant == Spec => []RecordOwners
<1>1. Init => RecordOwners
  BY DEF Init, NewRegistry, Registered, RecordOwners
<1>2. Core /\ RecordOwners /\ [Next]_vars => RecordOwners'
  BY RecordOwnersStep
<1> QED
  BY <1>1, <1>2, CoreInvariant, PTL DEF Spec

\* An id is never locked out by a connection that is gone: `register` answers
\* Occupied only on behalf of a task that exists.
THEOREM NoLockoutTheorem == Spec => []NoLockout
<1>1. RecordOwners => NoLockout
  BY DEF RecordOwners, MayOwn, NoLockout
<1> QED
  BY <1>1, OwnersInvariant, PTL

\* deregister's early return on an unregistered session forgets no record.
THEOREM OwnersTheorem == Spec => []OwnersAreSessions
<1>1. RecordOwners => OwnersAreSessions
  BY DEF RecordOwners, MayOwn, OwnersAreSessions
<1> QED
  BY <1>1, OwnersInvariant, PTL

\* The anti-hijack rule: an id passes from one connection to another in one
\* step only when the old connection's channel is closed.
THEOREM NoHijackTheorem == Spec => NoHijack
<1> DEFINE Step == \A p \in Registered(registry) :
              registry'[p] \in {Vacant, registry[p]} \/ registry[p].tx \in Closed
<1>1. Core /\ [Next]_vars => [Step]_vars
  <2> SUFFICES ASSUME Core, [Next]_vars, NEW p \in Peers, registry[p] # Vacant
               PROVE  registry'[p] \in {Vacant, registry[p]} \/ registry[p].tx \in Closed
    BY DEF Registered
  <2>1. ASSUME NEW c \in Conns, Admitted(c, request[c]), request[c].peer_id = p
        PROVE  registry[p].tx \in Closed
    BY <2>1, SMTT(40) DEF Admitted, RegisterOutcome
  <2> QED
    BY <2>1, RecordStep, Zenon
<1> QED
  BY <1>1, CoreInvariant, PTL DEF Spec, NoHijack

-----------------------------------------------------------------------------
(* The slots and their counters *)

\* The members of S that f puts into H.
Holders(f, S, H) == {d \in S : f[d] \in H}

\* By how much the number of holders grows when one of them moves.
Gain(H, from, to) == (IF to \in H THEN 1 ELSE 0) - (IF from \in H THEN 1 ELSE 0)

\* When one task moves, the set of tasks holding a guard gains it, loses it
\* or stays the same.
LEMMA HoldersMove ==
    ASSUME NEW S, IsFiniteSet(S), NEW H, NEW c, NEW f, NEW g,
           \A d \in S \ {c} : g[d] = f[d]
    PROVE  Cardinality(Holders(g, S, H)) =
             Cardinality(Holders(f, S, H)) + (IF c \in S THEN Gain(H, f[c], g[c]) ELSE 0)
<1> DEFINE old == Holders(f, S, H)
           new == Holders(g, S, H)
<1>1. old \in SUBSET S
  BY DEF Holders
<1>2. IsFiniteSet(old) /\ Cardinality(old) \in Nat
  BY <1>1, FS_Subset, FS_CardinalityType
<1>3. CASE c \in S /\ g[c] \in H /\ f[c] \notin H
  <2>1. new = old \cup {c} /\ c \notin old
    BY <1>3 DEF Holders
  <2>2. Cardinality(new) = Cardinality(old) + 1
    BY <1>2, <2>1, FS_AddElement, Zenon
  <2>3. Gain(H, f[c], g[c]) = 1
    BY <1>3 DEF Gain
  <2> QED  BY <1>3, <2>2, <2>3
<1>4. CASE c \in S /\ g[c] \notin H /\ f[c] \in H
  <2>1. new = old \ {c} /\ c \in old
    BY <1>4 DEF Holders
  <2>2. Cardinality(new) = Cardinality(old) - 1
    BY <1>2, <2>1, FS_RemoveElement, Zenon
  <2>3. Gain(H, f[c], g[c]) = -1
    BY <1>4 DEF Gain
  <2> QED  BY <1>2, <1>4, <2>2, <2>3
<1>5. CASE c \notin S \/ (g[c] \in H <=> f[c] \in H)
  <2>1. new = old
    BY <1>5, SMTT(40) DEF Holders
  <2> QED  BY <1>2, <1>5, <2>1 DEF Gain
<1> QED
  BY <1>3, <1>4, <1>5

\* What a move of c's task does to the numbers of slot holders.
LEMMA GotoCounts ==
    ASSUME Core, NEW c \in Conns, NEW to, Goto(c, to)
    PROVE  /\ Cardinality(OpenHolders)' = Cardinality(OpenHolders) + Gain(HoldsOpen, pc[c], to)
           /\ \A i \in Ips :
                /\ Cardinality(ConnHolders(i))' = Cardinality(ConnHolders(i)) +
                     (IF Source[c] = i THEN Gain(HoldsConn, pc[c], to) ELSE 0)
                /\ Cardinality(NewRegHolders(i))' = Cardinality(NewRegHolders(i)) +
                     (IF Source[c] = i THEN Gain(HoldsNewReg, pc[c], to) ELSE 0)
<1>1. pc'[c] = to /\ \A d \in Conns \ {c} : pc'[d] = pc[d]
  BY DEF Core, StateTypeOK, Goto
<1>2. OpenHolders = Holders(pc, Conns, HoldsOpen) /\ OpenHolders' = Holders(pc', Conns, HoldsOpen)
  BY DEF OpenHolders, Holders
<1>3. Cardinality(OpenHolders)' = Cardinality(OpenHolders) + Gain(HoldsOpen, pc[c], to)
  <2>1. IsFiniteSet(Conns)
    BY RelayAssumption
  <2>2. Cardinality(Holders(pc', Conns, HoldsOpen)) = Cardinality(Holders(pc, Conns, HoldsOpen)) +
          (IF c \in Conns THEN Gain(HoldsOpen, pc[c], to) ELSE 0)
    BY <1>1, <2>1, HoldersMove
  <2> QED  BY <1>2, <2>2
<1>4. ASSUME NEW i \in Ips, NEW H
      PROVE  Cardinality(Holders(pc', From(i), H)) = Cardinality(Holders(pc, From(i), H)) +
               (IF Source[c] = i THEN Gain(H, pc[c], to) ELSE 0)
  <2>1. From(i) \in SUBSET Conns /\ (c \in From(i) <=> Source[c] = i)
    BY DEF From
  <2>2. IsFiniteSet(From(i))
    BY <2>1, RelayAssumption, FS_Subset
  <2> HIDE DEF From
  <2>3. Cardinality(Holders(pc', From(i), H)) = Cardinality(Holders(pc, From(i), H)) +
               (IF c \in From(i) THEN Gain(H, pc[c], to) ELSE 0)
    BY <1>1, <2>1, <2>2, HoldersMove
  <2> QED  BY <2>1, <2>3
<1>5. ASSUME NEW i \in Ips
      PROVE  /\ ConnHolders(i) = Holders(pc, From(i), HoldsConn)
             /\ ConnHolders(i)' = Holders(pc', From(i), HoldsConn)
             /\ NewRegHolders(i) = Holders(pc, From(i), HoldsNewReg)
             /\ NewRegHolders(i)' = Holders(pc', From(i), HoldsNewReg)
  BY DEF ConnHolders, NewRegHolders, Holders
<1> QED
  BY <1>3, <1>4, <1>5

slots == <<reg_slot, open_connections, conns_per_ip, regs_per_ip>>

\* A move between two points at which the task holds the same slots.
Neutral(from, to) ==
    \A H \in {HoldsOpen, HoldsConn, HoldsNewReg} : from \in H <=> to \in H

\* The steps that acquire or release slots; every other step moves a task
\* between points with the same holdings, or does not move one at all.
LEMMA SlotSteps ==
    ASSUME [Next]_vars
    PROVE  \/ UNCHANGED <<pc, slots>>
           \/ \E c \in Conns :
                \/ \E to \in PcStates : Goto(c, to) /\ Neutral(pc[c], to) /\ UNCHANGED slots
                \/ AcquireOpen(c) \/ AcquireConn(c) \/ NotARelayPeer(c)
                \/ \E id \in Identity : RegisterFrame(c, id)
                \/ RegisterRefused(c) \/ RegisterMirror(c) \/ Finish(c)
<1> DEFINE Move(c) == \E to \in PcStates : Goto(c, to) /\ Neutral(pc[c], to) /\ UNCHANGED slots
<1> USE DEF PcStates, HoldsOpen, HoldsConn, HoldsNewReg, Neutral, slots, counters
<1>1. ASSUME NEW c \in Conns,
             Accept(c) \/ RefuseAtAccept(c) \/ CheckOpenCap(c) \/ Upgrade(c)
      PROVE  Move(c)
  BY <1>1 DEF Accept, RefuseAtAccept, CheckOpenCap, Upgrade
<1>2. ASSUME NEW c \in Conns, RegisterPeer(c)
      PROVE  Move(c)
  BY <1>2 DEF RegisterPeer
<1>3. ASSUME NEW c \in Conns, StreamEnds(c) \/ LastFrame(c) \/ ReadTimeout(c)
      PROVE  Move(c)
  BY <1>3 DEF StreamEnds, LastFrame, ReadTimeout
<1>4. ASSUME NEW c \in Conns, Deregister(c) \/ DeregisterMirror(c)
      PROVE  Move(c)
  BY <1>4, Zenon DEF Deregister, DeregisterMirror
<1>5. ASSUME NEW c \in Conns,
             \/ Frame(c) \/ WriterDrained(c) \/ WriterFails(c) \/ WriterStalls(c) \/ GoStale(c)
             \/ \E muted \in BOOLEAN : PexHandshake(c, muted)
      PROVE  UNCHANGED <<pc, slots>>
  BY <1>5, Zenon DEF Frame, WriterDrained, WriterFails, WriterStalls, GoStale, PexHandshake
<1>6. ASSUME SweepOnce \/ (\E id \in pruned : SweepMirror(id)) \/ Quiet \/ UNCHANGED vars
      PROVE  UNCHANGED <<pc, slots>>
  BY <1>6 DEF SweepOnce, SweepMirror, Quiet, vars
<1> HIDE DEF Neutral, slots
<1> QED
  BY <1>1, <1>2, <1>3, <1>4, <1>5, <1>6, NextCases, SMTT(40)

\* Every set of guard holders is finite, so it has a size to compare the
\* counters with.
LEMMA HoldersAreCounted ==
    /\ Cardinality(OpenHolders) \in Nat
    /\ \A i \in Ips : /\ Cardinality(ConnHolders(i)) \in Nat
                      /\ Cardinality(NewRegHolders(i)) \in Nat
                      /\ IsFiniteSet(RegHolders(i)) /\ Cardinality(RegHolders(i)) \in Nat
<1>1. IsFiniteSet(Conns)
  BY RelayAssumption
<1>2. OpenHolders \in SUBSET Conns
  BY DEF OpenHolders
<1>3. ASSUME NEW i \in Ips
      PROVE  /\ ConnHolders(i) \in SUBSET Conns /\ NewRegHolders(i) \in SUBSET Conns
             /\ RegHolders(i) \in SUBSET Conns
  BY DEF ConnHolders, NewRegHolders, RegHolders, From
<1> QED
  BY <1>1, <1>2, <1>3, FS_Subset, FS_CardinalityType

\* Dropping c's retained registration slot, or retaining one.
LEMMA RegSlotCounts ==
    ASSUME NEW c \in Conns, NEW i \in Ips
    PROVE  /\ reg_slot' = reg_slot \ {c} =>
                Cardinality(RegHolders(i))' = Cardinality(RegHolders(i)) -
                    (IF c \in reg_slot /\ Source[c] = i THEN 1 ELSE 0)
           /\ reg_slot' = reg_slot \cup {c} =>
                Cardinality(RegHolders(i))' = Cardinality(RegHolders(i)) +
                    (IF c \notin reg_slot /\ Source[c] = i THEN 1 ELSE 0)
           /\ reg_slot' = reg_slot => Cardinality(RegHolders(i))' = Cardinality(RegHolders(i))
<1>1. IsFiniteSet(RegHolders(i)) /\ Cardinality(RegHolders(i)) \in Nat
  BY HoldersAreCounted
<1>2. c \in RegHolders(i) <=> c \in reg_slot /\ Source[c] = i
  BY DEF RegHolders, From
<1>3. ASSUME reg_slot' = reg_slot \ {c}
      PROVE  Cardinality(RegHolders(i))' = Cardinality(RegHolders(i)) -
                 (IF c \in reg_slot /\ Source[c] = i THEN 1 ELSE 0)
  <2>1. RegHolders(i)' = RegHolders(i) \ {c}
    BY <1>3 DEF RegHolders
  <2>2. Cardinality(RegHolders(i))' =
          IF c \in RegHolders(i) THEN Cardinality(RegHolders(i)) - 1 ELSE Cardinality(RegHolders(i))
    BY <1>1, <2>1, FS_RemoveElement, Zenon
  <2> QED  BY <1>1, <1>2, <1>3, <2>1, <2>2
<1>4. ASSUME reg_slot' = reg_slot \cup {c}
      PROVE  Cardinality(RegHolders(i))' = Cardinality(RegHolders(i)) +
                 (IF c \notin reg_slot /\ Source[c] = i THEN 1 ELSE 0)
  <2>1. RegHolders(i)' = IF Source[c] = i THEN RegHolders(i) \cup {c} ELSE RegHolders(i)
    BY <1>4 DEF RegHolders, From
  <2>2. Source[c] = i => Cardinality(RegHolders(i))' =
          IF c \in RegHolders(i) THEN Cardinality(RegHolders(i)) ELSE Cardinality(RegHolders(i)) + 1
    BY <1>1, <2>1, FS_AddElement, ZenonT(40)
  <2> QED  BY <1>1, <1>2, <1>4, <2>1, <2>2
<1>5. ASSUME reg_slot' = reg_slot
      PROVE  Cardinality(RegHolders(i))' = Cardinality(RegHolders(i))
  BY <1>5 DEF RegHolders
<1> QED
  BY <1>3, <1>4, <1>5

\* What the counters of one source have to equal.
OpenBalance == open_connections = Cardinality(OpenHolders)
ConnBalance(i) == MaxConnectionsPerIp # 0 => conns_per_ip[i] = Cardinality(ConnHolders(i))
RegBalance(i) ==
    MaxRegistrationsPerIp # 0 =>
        regs_per_ip[i] = Cardinality(RegHolders(i)) + Cardinality(NewRegHolders(i))

\* A move of c's task keeps a counter balanced when the counter changes by what
\* the move gains or gives up: the relay-wide gauge, the connections of a
\* source, and its registrations (kept: what the step does to reg_slot).
LEMMA OpenMove ==
    ASSUME Core, OpenBalance, NEW c \in Conns, NEW to, Goto(c, to),
           open_connections' = open_connections + Gain(HoldsOpen, pc[c], to)
    PROVE  OpenBalance'
<1>1. Cardinality(OpenHolders)' = Cardinality(OpenHolders) + Gain(HoldsOpen, pc[c], to)
  BY GotoCounts, Zenon
<1> QED  BY <1>1 DEF OpenBalance

\* The same for the connections of one source.
LEMMA ConnMove ==
    ASSUME Core, NEW i \in Ips, ConnBalance(i), NEW c \in Conns, NEW to, Goto(c, to),
           MaxConnectionsPerIp # 0 =>
               conns_per_ip'[i] = conns_per_ip[i] +
                   (IF Source[c] = i THEN Gain(HoldsConn, pc[c], to) ELSE 0)
    PROVE  ConnBalance(i)'
<1>1. Cardinality(ConnHolders(i))' = Cardinality(ConnHolders(i)) +
        (IF Source[c] = i THEN Gain(HoldsConn, pc[c], to) ELSE 0)
  BY GotoCounts, SMTT(40)
<1> QED  BY <1>1, SMTT(40) DEF ConnBalance

\* The same for the registrations of one source.
LEMMA RegMove ==
    ASSUME Core, NEW i \in Ips, RegBalance(i), NEW c \in Conns, NEW to, Goto(c, to),
           NEW kept \in Int, Cardinality(RegHolders(i))' = Cardinality(RegHolders(i)) + kept,
           MaxRegistrationsPerIp # 0 =>
               regs_per_ip'[i] = regs_per_ip[i] + kept +
                   (IF Source[c] = i THEN Gain(HoldsNewReg, pc[c], to) ELSE 0)
    PROVE  RegBalance(i)'
<1> DEFINE gain == IF Source[c] = i THEN Gain(HoldsNewReg, pc[c], to) ELSE 0
<1>1. Cardinality(NewRegHolders(i))' = Cardinality(NewRegHolders(i)) + gain
  BY GotoCounts, SMTT(40)
<1>2. gain \in Int
  BY SMTT(40) DEF Gain
<1>3. /\ Cardinality(RegHolders(i)) \in Nat /\ Cardinality(NewRegHolders(i)) \in Nat
  BY HoldersAreCounted
<1> HIDE DEF gain
<1>4. MaxRegistrationsPerIp # 0 => regs_per_ip'[i] = regs_per_ip[i] + kept + gain
  BY DEF gain
<1> QED  BY <1>1, <1>2, <1>3, <1>4, SMTT(40) DEF RegBalance

-----------------------------------------------------------------------------
(* The caps *)

\* A registration is admitted only below the cap, under the lock that adds it.
LEMMA CapsStep ==
    ASSUME Core, CapsHold, [Next]_vars
    PROVE  CapsHold'
<1>1. /\ registry \in RegistryType /\ MaxConnections \in Nat
      /\ conns_per_ip \in [Ips -> Int] /\ regs_per_ip \in [Ips -> Int]
      /\ MaxConnectionsPerIp \in Nat /\ MaxRegistrationsPerIp \in Nat
  BY RelayAssumption DEF Core, StateTypeOK, CountersAreInt
<1>2. IsFiniteSet(Registered(registry)) /\ RegistryLen(registry) \in Nat
  BY RegisteredFinite, FS_CardinalityType DEF RegistryLen
<1>3. RegistryLen(registry)' <= MaxConnections
  <2>1. CASE UNCHANGED <<registry, connected>>
    BY <2>1 DEF CapsHold, RegistryLen, Registered
  <2>2. ASSUME NEW c \in Conns, RegisterPeer(c)
        PROVE  RegistryLen(registry)' <= MaxConnections
    <3>1. request[c] \in Identity
      BY <2>2, SMTT(40) DEF RegisterPeer, Core, TaskShape
    <3>2. CASE Admitted(c, request[c])
      <4> DEFINE p == request[c].peer_id
                 n == request[c].network_id
      <4>1. p \in Peers /\ n \in Networks
        BY <3>1, IdentityFields, SMTT(40)
      <4>2. registry' = Insert(registry, p, n, c)
        BY <2>2, <3>2, ZenonT(40) DEF RegisterPeer
      <4>3. RegistryLen(registry) < MaxConnections
        BY <3>2, ZenonT(40) DEF Admitted
      <4>4. \/ RegistryLen(Insert(registry, p, n, c)) = RegistryLen(registry) + 1
            \/ RegistryLen(Insert(registry, p, n, c)) = RegistryLen(registry)
        <5> HIDE DEF p, n
        <5> QED  BY <1>1, <4>1, InsertLen
      <4>5. RegistryLen(Insert(registry, p, n, c)) <= MaxConnections
        <5> HIDE DEF p, n
        <5> QED  BY <1>1, <1>2, <4>3, <4>4, SMTT(40)
      <4> QED
        <5> HIDE DEF p, n
        <5> QED  BY <4>2, <4>5, Zenon
    <3>3. CASE ~Admitted(c, request[c])
      <4>1. UNCHANGED <<registry, connected>>
        BY <2>2, <3>3, Zenon DEF RegisterPeer
      <4> QED  BY <2>1, <4>1, Zenon
    <3> QED  BY <3>2, <3>3, Zenon
  <2>3. ASSUME NEW ids \in SUBSET Registered(registry)
        PROVE  RegistryLen(Unregister(registry, ids)) <= MaxConnections
    <3>1. Registered(Unregister(registry, ids)) \in SUBSET Registered(registry)
      BY DEF Registered, Unregister
    <3> QED  BY <1>1, <1>2, <3>1, FS_Subset, RegisteredFinite DEF CapsHold, RegistryLen
  <2>4. ASSUME NEW c \in Conns, Deregister(c)
        PROVE  RegistryLen(registry)' <= MaxConnections
    <3>1. CASE session[c] # NoIdentity /\ session[c].peer_id \in Registered(registry)
      BY <2>3, <2>4, <3>1, Zenon DEF Deregister
    <3>2. CASE ~(session[c] # NoIdentity /\ session[c].peer_id \in Registered(registry))
      <4>1. UNCHANGED <<registry, connected>>
        BY <2>4, <3>2, Zenon DEF Deregister
      <4> QED  BY <2>1, <4>1, Zenon
    <3> QED  BY <3>1, <3>2, Zenon
  <2>5. CASE SweepOnce
    BY <2>3, <2>5, SMTT(40) DEF SweepOnce, DeadOrStale
  <2> QED
    BY <2>1, <2>2, <2>4, <2>5, RegistrySteps
<1>4. \A i \in Ips : MaxConnectionsPerIp # 0 => conns_per_ip'[i] <= MaxConnectionsPerIp
  <2> USE <1>1 DEF CapsHold
  <2>1. ASSUME NEW c \in Conns, AcquireConn(c)
        PROVE  \A i \in Ips : MaxConnectionsPerIp # 0 => conns_per_ip'[i] <= MaxConnectionsPerIp
    BY <2>1 DEF AcquireConn, BelowCap, Taken
  <2>2. ASSUME NEW c \in Conns, DropSlots(c)
        PROVE  \A i \in Ips : MaxConnectionsPerIp # 0 => conns_per_ip'[i] <= MaxConnectionsPerIp
    BY <2>2, SMTT(40) DEF DropSlots, Released
  <2>3. ASSUME NEW c \in Conns,
               \/ AcquireOpen(c) \/ RegisterRefused(c) \/ RegisterMirror(c)
               \/ \E id \in Identity : RegisterFrame(c, id)
        PROVE  UNCHANGED conns_per_ip
    BY <2>3 DEF AcquireOpen, RegisterRefused, RegisterMirror, RegisterFrame
  <2>4. UNCHANGED slots => UNCHANGED conns_per_ip
    BY SMTT(40) DEF slots
  <2> QED
    BY <2>1, <2>2, <2>3, <2>4, SlotSteps, ZenonT(40) DEF NotARelayPeer, Finish
<1>5. \A i \in Ips : MaxRegistrationsPerIp # 0 => regs_per_ip'[i] <= MaxRegistrationsPerIp
  <2> USE <1>1 DEF CapsHold
  <2>1. ASSUME NEW c \in Conns, NEW id \in Identity, RegisterFrame(c, id)
        PROVE  \A i \in Ips : MaxRegistrationsPerIp # 0 => regs_per_ip'[i] <= MaxRegistrationsPerIp
    BY <2>1 DEF RegisterFrame, BelowCap, Taken
  <2>2. ASSUME NEW c \in Conns, DropSlots(c) \/ RegisterRefused(c) \/ RegisterMirror(c)
        PROVE  \A i \in Ips : MaxRegistrationsPerIp # 0 => regs_per_ip'[i] <= MaxRegistrationsPerIp
    <3>1. \/ UNCHANGED regs_per_ip
          \/ regs_per_ip' = Released(regs_per_ip, MaxRegistrationsPerIp, c)
      BY <2>2 DEF DropSlots, RegisterRefused, RegisterMirror
    <3> QED  BY <3>1, SMTT(40) DEF Released
  <2>3. ASSUME NEW c \in Conns, AcquireOpen(c) \/ AcquireConn(c)
        PROVE  UNCHANGED regs_per_ip
    BY <2>3 DEF AcquireOpen, AcquireConn
  <2>4. UNCHANGED slots => UNCHANGED regs_per_ip
    BY DEF slots
  <2> QED
    BY <2>1, <2>2, <2>3, <2>4, SlotSteps, ZenonT(40) DEF NotARelayPeer, Finish
<1> QED
  BY <1>3, <1>4, <1>5 DEF CapsHold

\* The registry never outgrows max_connections and no source holds more
\* slots than its caps.
THEOREM CapsTheorem == Spec => []CapsHold
<1>1. Init => CapsHold
  <2> SUFFICES ASSUME Init PROVE CapsHold
    OBVIOUS
  <2>1. Registered(registry) = {}
    BY DEF Init, NewRegistry, Registered
  <2> QED
    BY <2>1, FS_EmptySet, RelayAssumption DEF Init, CapsHold, RegistryLen
<1>2. Core /\ CapsHold /\ [Next]_vars => CapsHold'
  BY CapsStep
<1> QED
  BY <1>1, <1>2, CoreInvariant, PTL DEF Spec

-----------------------------------------------------------------------------
(* The relay implements IdentityLease *)

\* The writer of a connection decides whether its channel is lost; only the
\* writer's own exit changes that.
LEMMA ClosedSteps ==
    ASSUME Core, [Next]_vars
    PROVE  \/ Closed' = Closed
           \/ /\ UNCHANGED registry
              /\ \E c \in Conns : Closed' = Closed \cup {c}
<1> USE DEF Core, StateTypeOK, Closed
<1>1. ASSUME NEW c \in Conns, WriterDrained(c) \/ WriterFails(c)
      PROVE  UNCHANGED registry /\ Closed' = Closed \cup {c}
  BY <1>1 DEF WriterDrained, WriterFails
<1>2. ASSUME NEW c \in Conns, WriterStalls(c)
      PROVE  Closed' = Closed
  BY <1>2 DEF WriterStalls
<1>3. ASSUME NEW c \in Conns, Upgrade(c)
      PROVE  Closed' = Closed
  BY <1>3 DEF Upgrade, TaskShape, Upgraded, HoldsConn
<1>4. CASE UNCHANGED writer
  BY <1>4, SMTT(40)
<1>5. \/ UNCHANGED writer
      \/ \E c \in Conns : WriterDrained(c) \/ WriterFails(c) \/ WriterStalls(c) \/ Upgrade(c)
  BY NextCases, ZenonT(40)
  DEF Accept, RefuseAtAccept, CheckOpenCap, AcquireOpen, AcquireConn,
      NotARelayPeer, Frame, RegisterFrame, RegisterPeer, RegisterRefused, RegisterMirror,
      PexHandshake, StreamEnds, LastFrame, ReadTimeout, Deregister, DeregisterMirror,
      Finish, GoStale, SweepOnce, SweepMirror, Quiet, vars
<1> QED
  BY <1>1, <1>2, <1>3, <1>4, <1>5, Zenon

\* The holder is NoConn exactly where there is no record.
LEMMA HeldIsRegistered ==
    ASSUME registry \in RegistryType
    PROVE  Lease!Held = Registered(registry)
BY NoConnAssumption DEF Lease!Held, HolderOf, Registered, RegistryType, Peer

\* IdentityLease counts as the relay does.
LEMMA SameCardinality ==
    ASSUME NEW S
    PROVE  Lease!Cardinality(S) = Cardinality(S)
BY DEF Lease!Cardinality, Cardinality

\* register_peer that admits is one Claim.
LEMMA RegisterIsClaim ==
    ASSUME Core, NEW c \in Conns, RegisterPeer(c), Admitted(c, request[c])
    PROVE  Lease!Claim(request[c].peer_id, c)
<1>1. request[c] \in Identity /\ registry \in RegistryType
  BY DEF RegisterPeer, Core, TaskShape, StateTypeOK
<1>2. request[c].peer_id \in Peers /\ request[c].network_id \in Networks
  BY <1>1, IdentityFields, ZenonT(30)
<1> DEFINE p == request[c].peer_id
           n == request[c].network_id
<1>3. registry' = Insert(registry, p, n, c) /\ UNCHANGED writer
  BY ZenonT(30) DEF RegisterPeer
<1>4. HolderOf[p] \in {NoConn} \cup Closed
  BY <1>2 DEF Admitted, RegisterOutcome, HolderOf
<1>5. Lease!Cardinality(Lease!Held) < MaxConnections
  BY <1>1, HeldIsRegistered, SameCardinality DEF Admitted, RegistryLen
<1>6. [network_id |-> n, tx |-> c] # Vacant
  BY <1>2, VacantAssumption DEF Peer
<1>7. HolderOf' = [HolderOf EXCEPT ![p] = c]
  BY <1>1, <1>2, <1>3, <1>6, ZenonT(40) DEF HolderOf, Insert, RegistryType
<1>8. Closed' = Closed
  BY <1>3 DEF Closed
<1> QED
  BY <1>4, <1>5, <1>7, <1>8 DEF Lease!Claim

\* deregister and sweep_once that remove records are one Release.
LEMMA UnregisterIsRelease ==
    ASSUME registry \in RegistryType, NEW ids \in SUBSET Registered(registry),
           registry' = Unregister(registry, ids), UNCHANGED writer
    PROVE  Lease!Release(ids) /\ ids \in SUBSET Lease!Held
<1>1. HolderOf' = [p \in Peers |-> IF p \in ids THEN NoConn ELSE HolderOf[p]]
  BY DEF HolderOf, Unregister
<1>2. Closed' = Closed
  BY DEF Closed
<1> QED
  BY <1>1, <1>2, HeldIsRegistered DEF Lease!Release

\* Every step of every task is a step of the leases or leaves them alone.
LEMMA LeaseStep ==
    ASSUME Core, [Next]_vars
    PROVE  [Lease!Next]_<<HolderOf, Closed>>
<1>0. registry \in RegistryType
  BY DEF Core, StateTypeOK
<1>1. CASE UNCHANGED registry
  <2>1. HolderOf' = HolderOf
    BY <1>1 DEF HolderOf
  <2>2. CASE Closed' = Closed
    BY <2>1, <2>2
  <2>3. ASSUME NEW c \in Conns, Closed' = Closed \cup {c}
        PROVE  Lease!Lose(c)
    BY <2>1, <2>3 DEF Lease!Lose
  <2> QED  BY <2>2, <2>3, ClosedSteps DEF Lease!Next
<1>2. ASSUME NEW c \in Conns, RegisterPeer(c), ~UNCHANGED registry
      PROVE  Lease!Next
  <2>1. Admitted(c, request[c])
    BY <1>2, ZenonT(30) DEF RegisterPeer
  <2>2. request[c].peer_id \in Peers
    BY <1>2, IdentityFields DEF RegisterPeer, Core, TaskShape
  <2> QED  BY <1>2, <2>1, <2>2, RegisterIsClaim, ZenonT(30) DEF Lease!Next
<1>3. ASSUME NEW c \in Conns, Deregister(c), ~UNCHANGED registry
      PROVE  Lease!Next
  <2>1. /\ {session[c].peer_id} \in SUBSET Registered(registry)
        /\ registry' = Unregister(registry, {session[c].peer_id})
        /\ UNCHANGED writer
    BY <1>3 DEF Deregister
  <2> QED  BY <1>0, <2>1, UnregisterIsRelease, ZenonT(30) DEF Lease!Next
<1>4. CASE SweepOnce
  <2>1. /\ DeadOrStale(registry, Closed, stale) \in SUBSET Registered(registry)
        /\ registry' = Unregister(registry, DeadOrStale(registry, Closed, stale))
        /\ UNCHANGED writer
    BY <1>4 DEF SweepOnce, DeadOrStale
  <2> QED  BY <1>0, <2>1, UnregisterIsRelease, ZenonT(30) DEF Lease!Next
<1> QED
  BY <1>1, <1>2, <1>3, <1>4, RegistrySteps

\* For every number of connections, ids and sources the relay implements the
\* lease table: what a client can observe of an id's ownership is a lease
\* that only a free or dead id changes hands by.
THEOREM LeaseTheorem == Spec => RefinesLease
<1>1. Init => Lease!Init
  BY DEF Init, Lease!Init, NewRegistry, HolderOf, Closed
<1>2. Core /\ [Next]_vars => [Lease!Next]_<<HolderOf, Closed>>
  BY LeaseStep
<1> QED
  BY <1>1, <1>2, CoreInvariant, PTL DEF Spec, RefinesLease, Lease!Spec

-----------------------------------------------------------------------------
(* The balance *)

\* Every step of the relay keeps the counters equal to the number of guards
\* its tasks hold.
LEMMA SlotsStep ==
    ASSUME Core, SlotsBalance, [Next]_vars
    PROVE  SlotsBalance'
<1> DEFINE Balanced == OpenBalance /\ \A i \in Ips : ConnBalance(i) /\ RegBalance(i)
<1>1. SlotsBalance <=> Balanced
  BY DEF SlotsBalance, OpenBalance, ConnBalance, RegBalance
<1>2. /\ open_connections \in Int /\ conns_per_ip \in [Ips -> Int] /\ regs_per_ip \in [Ips -> Int]
      /\ pc \in [Conns -> PcStates]
  BY DEF Core, CountersAreInt, StateTypeOK
<1>3. ASSUME NEW c \in Conns PROVE Source[c] \in Ips
  BY <1>3, RelayAssumption
<1>4. MaxConnectionsPerIp \in Int /\ MaxRegistrationsPerIp \in Int
  BY RelayAssumption
<1> HIDE DEF Balanced
<1> SUFFICES Balanced'
  BY <1>1 DEF Balanced, SlotsBalance, OpenBalance, ConnBalance, RegBalance
<1> USE DEF Balanced
<1>5. CASE UNCHANGED <<pc, slots>>
  BY <1>1, <1>5 DEF slots, OpenHolders, ConnHolders, RegHolders, NewRegHolders,
                    OpenBalance, ConnBalance, RegBalance
<1>6. ASSUME NEW c \in Conns, NEW to \in PcStates, Goto(c, to), Neutral(pc[c], to), UNCHANGED slots
      PROVE  Balanced'
  <2>1. Goto(c, to) /\ UNCHANGED <<reg_slot, open_connections, conns_per_ip, regs_per_ip>>
    BY <1>6 DEF slots
  <2>2. /\ Gain(HoldsOpen, pc[c], to) = 0 /\ Gain(HoldsConn, pc[c], to) = 0
        /\ Gain(HoldsNewReg, pc[c], to) = 0
    BY <1>6 DEF Neutral, Gain
  <2>3. OpenBalance'
    BY <1>1, <1>2, <2>1, <2>2, OpenMove
  <2>4. ASSUME NEW i \in Ips PROVE ConnBalance(i)'
    <3>1. MaxConnectionsPerIp # 0 =>
            conns_per_ip'[i] = conns_per_ip[i] +
                (IF Source[c] = i THEN Gain(HoldsConn, pc[c], to) ELSE 0)
      BY <1>2, <1>3, <2>1, <2>2, SMTT(40)
    <3> QED  BY <1>1, <2>1, <3>1, ConnMove
  <2>5. ASSUME NEW i \in Ips PROVE RegBalance(i)'
    <3> DEFINE kept == 0
    <3>1. Cardinality(RegHolders(i))' = Cardinality(RegHolders(i)) + kept /\ kept \in Int
      BY <2>1, RegSlotCounts, HoldersAreCounted
    <3>2. MaxRegistrationsPerIp # 0 =>
            regs_per_ip'[i] = regs_per_ip[i] + kept +
                (IF Source[c] = i THEN Gain(HoldsNewReg, pc[c], to) ELSE 0)
      BY <1>2, <1>3, <2>1, <2>2
    <3> HIDE DEF kept
    <3> QED  BY <1>1, <2>1, <3>1, <3>2, RegMove
  <2> QED  BY <2>3, <2>4, <2>5
<1>7. ASSUME NEW c \in Conns, AcquireOpen(c) PROVE Balanced'
  <2>1. /\ Goto(c, "counted") /\ reg_slot' = reg_slot
        /\ open_connections' = open_connections + 1
        /\ UNCHANGED <<conns_per_ip, regs_per_ip>>
    BY <1>7 DEF AcquireOpen
  <2>2. /\ Gain(HoldsOpen, pc[c], "counted") = 1 /\ Gain(HoldsConn, pc[c], "counted") = 0
        /\ Gain(HoldsNewReg, pc[c], "counted") = 0
    BY <1>7 DEF AcquireOpen, Gain, HoldsOpen, HoldsConn, HoldsNewReg
  <2>3. OpenBalance'
    BY <1>1, <1>2, <2>1, <2>2, OpenMove
  <2>4. ASSUME NEW i \in Ips PROVE ConnBalance(i)'
    <3>1. MaxConnectionsPerIp # 0 =>
            conns_per_ip'[i] = conns_per_ip[i] +
                (IF Source[c] = i THEN Gain(HoldsConn, pc[c], "counted") ELSE 0)
      BY <1>2, <1>3, <2>1, <2>2
    <3> QED  BY <1>1, <2>1, <3>1, ConnMove
  <2>5. ASSUME NEW i \in Ips PROVE RegBalance(i)'
    <3> DEFINE kept == 0
    <3>1. Cardinality(RegHolders(i))' = Cardinality(RegHolders(i)) + kept /\ kept \in Int
      BY <2>1, RegSlotCounts, HoldersAreCounted
    <3>2. MaxRegistrationsPerIp # 0 =>
            regs_per_ip'[i] = regs_per_ip[i] + kept +
                (IF Source[c] = i THEN Gain(HoldsNewReg, pc[c], "counted") ELSE 0)
      BY <1>2, <1>3, <2>1, <2>2
    <3> HIDE DEF kept
    <3> QED  BY <1>1, <2>1, <3>1, <3>2, RegMove
  <2> QED  BY <2>3, <2>4, <2>5
<1>8. ASSUME NEW c \in Conns, AcquireConn(c) PROVE Balanced'
  <2>1. CASE BelowCap(conns_per_ip, MaxConnectionsPerIp, c)
    <3>1. /\ Goto(c, "head") /\ UNCHANGED <<reg_slot, open_connections, regs_per_ip>>
          /\ conns_per_ip' = Taken(conns_per_ip, MaxConnectionsPerIp, c)
      BY <1>8, <2>1 DEF AcquireConn
    <3>2. /\ Gain(HoldsOpen, pc[c], "head") = 0 /\ Gain(HoldsConn, pc[c], "head") = 1
          /\ Gain(HoldsNewReg, pc[c], "head") = 0
      BY <1>8 DEF AcquireConn, Gain, HoldsOpen, HoldsConn, HoldsNewReg
    <3>3. OpenBalance'
      BY <1>1, <1>2, <3>1, <3>2, OpenMove
    <3>4. ASSUME NEW i \in Ips PROVE ConnBalance(i)'
      <4>1. MaxConnectionsPerIp # 0 =>
              conns_per_ip'[i] = conns_per_ip[i] +
                  (IF Source[c] = i THEN Gain(HoldsConn, pc[c], "head") ELSE 0)
        BY <1>2, <1>3, <3>1, <3>2, SMTT(40) DEF Taken
      <4> QED  BY <1>1, <3>1, <4>1, ConnMove
    <3>5. ASSUME NEW i \in Ips PROVE RegBalance(i)'
      <4> DEFINE kept == 0
      <4>1. Cardinality(RegHolders(i))' = Cardinality(RegHolders(i)) + kept /\ kept \in Int
        BY <3>1, RegSlotCounts, HoldersAreCounted
      <4>2. MaxRegistrationsPerIp # 0 =>
              regs_per_ip'[i] = regs_per_ip[i] + kept +
                  (IF Source[c] = i THEN Gain(HoldsNewReg, pc[c], "head") ELSE 0)
        BY <1>2, <1>3, <3>1, <3>2
      <4> HIDE DEF kept
      <4> QED  BY <1>1, <3>1, <4>1, <4>2, RegMove
    <3> QED  BY <3>3, <3>4, <3>5
  <2>2. CASE ~BelowCap(conns_per_ip, MaxConnectionsPerIp, c)
    <3>1. /\ Goto(c, "closed") /\ UNCHANGED <<reg_slot, conns_per_ip, regs_per_ip>>
          /\ open_connections' = open_connections - 1
      BY <1>8, <2>2 DEF AcquireConn
    <3>2. /\ Gain(HoldsOpen, pc[c], "closed") = -1 /\ Gain(HoldsConn, pc[c], "closed") = 0
          /\ Gain(HoldsNewReg, pc[c], "closed") = 0
      BY <1>8 DEF AcquireConn, Gain, HoldsOpen, HoldsConn, HoldsNewReg
    <3>3. OpenBalance'
      BY <1>1, <1>2, <3>1, <3>2, OpenMove
    <3>4. ASSUME NEW i \in Ips PROVE ConnBalance(i)'
      <4>1. MaxConnectionsPerIp # 0 =>
              conns_per_ip'[i] = conns_per_ip[i] +
                  (IF Source[c] = i THEN Gain(HoldsConn, pc[c], "closed") ELSE 0)
        BY <1>2, <1>3, <3>1, <3>2, SMTT(40)
      <4> QED  BY <1>1, <3>1, <4>1, ConnMove
    <3>5. ASSUME NEW i \in Ips PROVE RegBalance(i)'
      <4> DEFINE kept == 0
      <4>1. Cardinality(RegHolders(i))' = Cardinality(RegHolders(i)) + kept /\ kept \in Int
        BY <3>1, RegSlotCounts, HoldersAreCounted
      <4>2. MaxRegistrationsPerIp # 0 =>
              regs_per_ip'[i] = regs_per_ip[i] + kept +
                  (IF Source[c] = i THEN Gain(HoldsNewReg, pc[c], "closed") ELSE 0)
        BY <1>2, <1>3, <3>1, <3>2
      <4> HIDE DEF kept
      <4> QED  BY <1>1, <3>1, <4>1, <4>2, RegMove
    <3> QED  BY <3>3, <3>4, <3>5
  <2> QED  BY <2>1, <2>2
<1>9. ASSUME NEW c \in Conns, NEW id \in Identity, RegisterFrame(c, id) PROVE Balanced'
  <2>1. /\ Goto(c, "registering") /\ UNCHANGED <<reg_slot, open_connections, conns_per_ip>>
        /\ regs_per_ip' = Taken(regs_per_ip, MaxRegistrationsPerIp, c)
    BY <1>9 DEF RegisterFrame
  <2>2. /\ Gain(HoldsOpen, pc[c], "registering") = 0 /\ Gain(HoldsConn, pc[c], "registering") = 0
        /\ Gain(HoldsNewReg, pc[c], "registering") = 1
    BY <1>9 DEF RegisterFrame, Gain, HoldsOpen, HoldsConn, HoldsNewReg
  <2>3. OpenBalance'
    BY <1>1, <1>2, <2>1, <2>2, OpenMove, SMTT(40)
  <2>4. ASSUME NEW i \in Ips PROVE ConnBalance(i)'
    <3>1. MaxConnectionsPerIp # 0 =>
            conns_per_ip'[i] = conns_per_ip[i] +
                (IF Source[c] = i THEN Gain(HoldsConn, pc[c], "registering") ELSE 0)
      BY <1>2, <1>3, <2>1, <2>2, SMTT(40)
    <3> QED  BY <1>1, <2>1, <3>1, ConnMove
  <2>5. ASSUME NEW i \in Ips PROVE RegBalance(i)'
    <3> DEFINE kept == 0
    <3>1. Cardinality(RegHolders(i))' = Cardinality(RegHolders(i)) + kept /\ kept \in Int
      BY <2>1, RegSlotCounts, HoldersAreCounted
    <3>2. MaxRegistrationsPerIp # 0 =>
            regs_per_ip'[i] = regs_per_ip[i] + kept +
                (IF Source[c] = i THEN Gain(HoldsNewReg, pc[c], "registering") ELSE 0)
      BY <1>2, <1>3, <2>1, <2>2 DEF Taken
    <3> HIDE DEF kept
    <3> QED  BY <1>1, <2>1, <3>1, <3>2, RegMove, SMTT(40)
  <2> QED  BY <2>3, <2>4, <2>5
<1>10. ASSUME NEW c \in Conns, RegisterRefused(c) PROVE Balanced'
  <2>1. /\ Goto(c, "teardown") /\ UNCHANGED <<reg_slot, open_connections, conns_per_ip>>
        /\ regs_per_ip' = Released(regs_per_ip, MaxRegistrationsPerIp, c)
    BY <1>10 DEF RegisterRefused
  <2>2. /\ Gain(HoldsOpen, pc[c], "teardown") = 0 /\ Gain(HoldsConn, pc[c], "teardown") = 0
        /\ Gain(HoldsNewReg, pc[c], "teardown") = -1
    BY <1>10 DEF RegisterRefused, Gain, HoldsOpen, HoldsConn, HoldsNewReg
  <2>3. OpenBalance'
    BY <1>1, <1>2, <2>1, <2>2, OpenMove
  <2>4. ASSUME NEW i \in Ips PROVE ConnBalance(i)'
    <3>1. MaxConnectionsPerIp # 0 =>
            conns_per_ip'[i] = conns_per_ip[i] +
                (IF Source[c] = i THEN Gain(HoldsConn, pc[c], "teardown") ELSE 0)
      BY <1>2, <1>3, <2>1, <2>2, SMTT(40)
    <3> QED  BY <1>1, <2>1, <3>1, ConnMove
  <2>5. ASSUME NEW i \in Ips PROVE RegBalance(i)'
    <3> DEFINE kept == 0
    <3>1. Cardinality(RegHolders(i))' = Cardinality(RegHolders(i)) + kept /\ kept \in Int
      BY <2>1, RegSlotCounts, HoldersAreCounted
    <3>2. MaxRegistrationsPerIp # 0 =>
            regs_per_ip'[i] = regs_per_ip[i] + kept +
                (IF Source[c] = i THEN Gain(HoldsNewReg, pc[c], "teardown") ELSE 0)
      BY <1>2, <1>3, <2>1, <2>2 DEF Released
    <3> HIDE DEF kept
    <3> QED  BY <1>1, <2>1, <3>1, <3>2, RegMove
  <2> QED  BY <2>3, <2>4, <2>5
<1>11. ASSUME NEW c \in Conns, RegisterMirror(c) PROVE Balanced'
  <2>1. /\ Goto(c, "reading") /\ UNCHANGED <<open_connections, conns_per_ip>>
        /\ reg_slot' = reg_slot \cup {c}
        /\ regs_per_ip' = IF c \in reg_slot
                          THEN Released(regs_per_ip, MaxRegistrationsPerIp, c)
                          ELSE regs_per_ip
    BY <1>11 DEF RegisterMirror
  <2>2. /\ Gain(HoldsOpen, pc[c], "reading") = 0 /\ Gain(HoldsConn, pc[c], "reading") = 0
        /\ Gain(HoldsNewReg, pc[c], "reading") = -1
    BY <1>11 DEF RegisterMirror, Gain, HoldsOpen, HoldsConn, HoldsNewReg
  <2>3. OpenBalance'
    BY <1>1, <1>2, <2>1, <2>2, OpenMove
  <2>4. ASSUME NEW i \in Ips PROVE ConnBalance(i)'
    <3>1. MaxConnectionsPerIp # 0 =>
            conns_per_ip'[i] = conns_per_ip[i] +
                (IF Source[c] = i THEN Gain(HoldsConn, pc[c], "reading") ELSE 0)
      BY <1>2, <1>3, <2>1, <2>2, SMTT(40)
    <3> QED  BY <1>1, <2>1, <3>1, ConnMove
  <2>5. ASSUME NEW i \in Ips PROVE RegBalance(i)'
    <3> DEFINE kept == IF c \notin reg_slot /\ Source[c] = i THEN 1 ELSE 0
    <3>1. Cardinality(RegHolders(i))' = Cardinality(RegHolders(i)) + kept /\ kept \in Int
      BY <2>1, RegSlotCounts, HoldersAreCounted
    <3>2. MaxRegistrationsPerIp # 0 =>
            regs_per_ip'[i] = regs_per_ip[i] + kept +
                (IF Source[c] = i THEN Gain(HoldsNewReg, pc[c], "reading") ELSE 0)
      BY <1>2, <1>3, <2>1, <2>2 DEF Released
    <3> HIDE DEF kept
    <3> QED  BY <1>1, <2>1, <3>1, <3>2, RegMove, SMTT(40)
  <2> QED  BY <2>3, <2>4, <2>5
<1>12. ASSUME NEW c \in Conns, DropSlots(c), Goto(c, "closed"), pc[c] \in {"head", "draining"}
       PROVE  Balanced'
  <2>1. /\ Goto(c, "closed") /\ reg_slot' = reg_slot \ {c}
        /\ open_connections' = open_connections - 1
        /\ conns_per_ip' = Released(conns_per_ip, MaxConnectionsPerIp, c)
        /\ regs_per_ip' = IF c \in reg_slot
                          THEN Released(regs_per_ip, MaxRegistrationsPerIp, c)
                          ELSE regs_per_ip
    BY <1>12 DEF DropSlots
  <2>2. /\ Gain(HoldsOpen, pc[c], "closed") = -1 /\ Gain(HoldsConn, pc[c], "closed") = -1
        /\ Gain(HoldsNewReg, pc[c], "closed") = 0
    BY <1>12 DEF Gain, HoldsOpen, HoldsConn, HoldsNewReg
  <2>3. OpenBalance'
    BY <1>1, <1>2, <2>1, <2>2, OpenMove, SMTT(40)
  <2>4. ASSUME NEW i \in Ips PROVE ConnBalance(i)'
    <3>1. MaxConnectionsPerIp # 0 =>
            conns_per_ip'[i] = conns_per_ip[i] +
                (IF Source[c] = i THEN Gain(HoldsConn, pc[c], "closed") ELSE 0)
      BY <1>2, <1>3, <2>1, <2>2, SMTT(40) DEF Released
    <3> QED  BY <1>1, <2>1, <3>1, ConnMove
  <2>5. ASSUME NEW i \in Ips PROVE RegBalance(i)'
    <3> DEFINE kept == IF c \in reg_slot /\ Source[c] = i THEN -1 ELSE 0
    <3>1. Cardinality(RegHolders(i))' = Cardinality(RegHolders(i)) + kept /\ kept \in Int
      BY <2>1, RegSlotCounts, HoldersAreCounted
    <3>2. MaxRegistrationsPerIp # 0 =>
            regs_per_ip'[i] = regs_per_ip[i] + kept +
                (IF Source[c] = i THEN Gain(HoldsNewReg, pc[c], "closed") ELSE 0)
      BY <1>2, <1>3, <2>1, <2>2, SMTT(40) DEF Released
    <3> HIDE DEF kept
    <3> QED  BY <1>1, <2>1, <3>1, <3>2, RegMove, SMTT(40)
  <2> QED  BY <2>3, <2>4, <2>5
<1>13. ASSUME NEW c \in Conns, NotARelayPeer(c) \/ Finish(c) PROVE Balanced'
  BY <1>12, <1>13, ZenonT(40) DEF NotARelayPeer, Finish
<1> HIDE DEF OpenBalance, ConnBalance, RegBalance
<1> QED
  BY <1>5, <1>6, <1>7, <1>8, <1>9, <1>10, <1>11, <1>13, SlotSteps

\* No task holds a guard, and no counter has moved, when the relay starts.
LEMMA InitSlots == Init => SlotsBalance
<1> SUFFICES ASSUME Init PROVE SlotsBalance
  OBVIOUS
<1>1. OpenHolders = {}
  BY DEF Init, OpenHolders, HoldsOpen, HoldsConn
<1>2. \A i \in Ips : ConnHolders(i) = {} /\ RegHolders(i) = {} /\ NewRegHolders(i) = {}
  BY DEF Init, ConnHolders, RegHolders, NewRegHolders, From, HoldsConn, HoldsNewReg
<1> QED
  BY <1>1, <1>2, FS_EmptySet DEF Init, SlotsBalance

\* No path of handle_connection leaks or double-frees a guard: each shared
\* counter always equals the number of tasks holding the guard it counts.
THEOREM SlotsTheorem == Spec => []SlotsBalance
<1>1. Core /\ SlotsBalance /\ [Next]_vars => SlotsBalance'
  BY SlotsStep
<1> QED
  BY <1>1, InitSlots, CoreInvariant, PTL DEF Spec

-----------------------------------------------------------------------------
(* Type correctness: no unsigned counter goes below zero *)

\* A cap of 0 hands out slots that are not counted, and releases none.
Uncounted ==
    /\ MaxConnectionsPerIp = 0 => conns_per_ip = [i \in Ips |-> 0]
    /\ MaxRegistrationsPerIp = 0 => regs_per_ip = [i \in Ips |-> 0]

\* With a cap of zero the per-source maps are never written.
LEMMA UncountedStep ==
    ASSUME Uncounted, [Next]_vars
    PROVE  Uncounted'
<1>1. ASSUME NEW c \in Conns, AcquireOpen(c) \/ AcquireConn(c) PROVE Uncounted'
  BY <1>1, SMTT(40) DEF AcquireOpen, AcquireConn, Uncounted, Taken
<1>2. ASSUME NEW c \in Conns, NotARelayPeer(c) \/ Finish(c) PROVE Uncounted'
  BY <1>2, SMTT(40) DEF NotARelayPeer, Finish, DropSlots, Uncounted, Released
<1>3. ASSUME NEW c \in Conns, NEW id \in Identity, RegisterFrame(c, id) PROVE Uncounted'
  BY <1>3, ZenonT(40) DEF RegisterFrame, Uncounted, Taken
<1>4. ASSUME NEW c \in Conns, RegisterRefused(c) \/ RegisterMirror(c) PROVE Uncounted'
  BY <1>4, Zenon DEF RegisterRefused, RegisterMirror, Uncounted, Released
<1>5. ASSUME UNCHANGED slots PROVE Uncounted'
  BY <1>5 DEF slots, Uncounted
<1> QED
  BY <1>1, <1>2, <1>3, <1>4, <1>5, SlotSteps, SMTT(40)

\* The types follow from the shape of the tasks and the two balances.
LEMMA BalancedCountersAreNat ==
    ASSUME Core, SlotsBalance, Uncounted, ConnectedMatchesRegistry
    PROVE  TypeOK
<1>1. connected \in Nat
  <2>1. IsFiniteSet(Registered(registry))
    BY RegisteredFinite
  <2> QED  BY <2>1, FS_CardinalityType DEF ConnectedMatchesRegistry, RegistryLen
<1>2. open_connections \in Nat
  BY HoldersAreCounted DEF SlotsBalance
<1>3. \A i \in Ips : conns_per_ip[i] \in Nat /\ regs_per_ip[i] \in Nat
  BY HoldersAreCounted DEF SlotsBalance, Uncounted
<1> QED
  BY <1>1, <1>2, <1>3 DEF Core, CountersAreInt, TypeOK

\* Type correctness: in particular no fetch_sub and no slot drop takes one of
\* the unsigned counters below zero.
THEOREM TypeTheorem == Spec => []TypeOK
<1>1. Init => Uncounted
  BY DEF Init, Uncounted
<1>2. Uncounted /\ [Next]_vars => Uncounted'
  BY UncountedStep
<1>3. Core /\ SlotsBalance /\ Uncounted /\ ConnectedMatchesRegistry => TypeOK
  BY BalancedCountersAreNat, Zenon
<1> QED
  BY <1>1, <1>2, <1>3, CoreInvariant, SlotsTheorem, ConnectedTheorem, PTL DEF Spec

-----------------------------------------------------------------------------
(* The PEX mirror *)

\* The ways a step can change the mirror.
LEMMA PexSteps ==
    ASSUME Core, [Next]_vars
    PROVE  \/ UNCHANGED pex
           \/ \E c \in Conns :
                /\ RegisterMirror(c) /\ request[c] \in Identity
                /\ pex' = OnRegister(pex, request[c].peer_id, request[c].network_id, c)
           \/ \E c \in Conns, muted \in BOOLEAN :
                /\ session[c] \in Identity
                /\ pex' = OnNodeHandshake(
                              OnRegister(pex, session[c].peer_id, session[c].network_id, c),
                              session[c].peer_id, session[c].network_id, muted)
           \/ \E id \in Identity : pex' = OnUnregister(pex, id.peer_id, id.network_id)
<1>1. ASSUME NEW c \in Conns, RegisterMirror(c)
      PROVE  /\ request[c] \in Identity
             /\ pex' = OnRegister(pex, request[c].peer_id, request[c].network_id, c)
  BY <1>1 DEF RegisterMirror, Core, TaskShape
<1>2. ASSUME NEW c \in Conns, NEW muted \in BOOLEAN, PexHandshake(c, muted)
      PROVE  /\ session[c] \in Identity
             /\ pex' = OnNodeHandshake(
                           OnRegister(pex, session[c].peer_id, session[c].network_id, c),
                           session[c].peer_id, session[c].network_id, muted)
  BY <1>2, Zenon DEF PexHandshake, Core, StateTypeOK
<1>3. ASSUME NEW c \in Conns, DeregisterMirror(c)
      PROVE  \E id \in Identity : pex' = OnUnregister(pex, id.peer_id, id.network_id)
  BY <1>3 DEF DeregisterMirror, Core, TaskShape
<1>4. ASSUME NEW id \in pruned, SweepMirror(id)
      PROVE  id \in Identity /\ pex' = OnUnregister(pex, id.peer_id, id.network_id)
  BY <1>4, SMTT(40) DEF SweepMirror, Core, StateTypeOK
<1>5. ASSUME NEW c \in Conns,
             \/ Accept(c) \/ RefuseAtAccept(c) \/ CheckOpenCap(c) \/ AcquireOpen(c)
             \/ AcquireConn(c) \/ Upgrade(c) \/ NotARelayPeer(c) \/ Frame(c)
             \/ \E id \in Identity : RegisterFrame(c, id)
             \/ RegisterPeer(c) \/ RegisterRefused(c)
             \/ StreamEnds(c) \/ LastFrame(c) \/ ReadTimeout(c) \/ Deregister(c)
             \/ WriterDrained(c) \/ WriterFails(c) \/ WriterStalls(c) \/ Finish(c) \/ GoStale(c)
      PROVE  UNCHANGED pex
  BY <1>5, Zenon
  DEF Accept, RefuseAtAccept, CheckOpenCap, AcquireOpen, AcquireConn, Upgrade, NotARelayPeer,
      Frame, RegisterFrame, RegisterPeer, RegisterRefused, StreamEnds, LastFrame, ReadTimeout,
      Deregister, WriterDrained, WriterFails, WriterStalls, Finish, GoStale
<1>6. ASSUME SweepOnce \/ Quiet \/ UNCHANGED vars PROVE UNCHANGED pex
  BY <1>6, ZenonT(40) DEF SweepOnce, Quiet, vars
<1> QED
  BY <1>1, <1>2, <1>3, <1>4, <1>5, <1>6, NextCases, Zenon

\* The mirror's coherence, as a predicate of its value.
Coherent(x) ==
    /\ \A n \in Networks : x.links[n] \subseteq x.known[n]
    /\ \A p \in Peers : x.conns[p] # NoConn => \E n \in Networks : p \in x.known[n]

\* on_register adds the peer it keeps a sender for.
LEMMA OnRegisterCoherent ==
    ASSUME NEW x \in PexType, Coherent(x), NEW p \in Peers, NEW n \in Networks, NEW c \in Conns
    PROVE  Coherent(OnRegister(x, p, n, c)) /\ p \in OnRegister(x, p, n, c).known[n]
BY DEF PexType, Coherent, OnRegister

\* on_unregister removes a peer from all three parts of the mirror.
LEMMA OnUnregisterCoherent ==
    ASSUME NEW x \in PexType, Coherent(x), NEW p \in Peers, NEW n \in Networks
    PROVE  Coherent(OnUnregister(x, p, n))
BY DEF PexType, Coherent, OnUnregister

\* on_node_handshake subscribes a peer only where it is advertised.
LEMMA OnNodeHandshakeCoherent ==
    ASSUME NEW x \in PexType, Coherent(x), NEW p \in Peers, NEW n \in Networks,
           p \in x.known[n], NEW muted \in BOOLEAN
    PROVE  Coherent(OnNodeHandshake(x, p, n, muted))
BY DEF PexType, Coherent, OnNodeHandshake

\* on_unregister and the handshake leave no half-removed peer in the mirror.
THEOREM PexTheorem == Spec => []PexIsCoherent
<1>1. Init => PexIsCoherent
  BY DEF Init, NewPex, PexIsCoherent
<1>2. Core /\ PexIsCoherent /\ [Next]_vars => PexIsCoherent'
  <2> SUFFICES ASSUME Core, Coherent(pex), [Next]_vars PROVE Coherent(pex')
    BY DEF PexIsCoherent, Coherent
  <2>1. pex \in PexType
    BY DEF Core, StateTypeOK
  <2>2. ASSUME NEW c \in Conns, request[c] \in Identity,
               pex' = OnRegister(pex, request[c].peer_id, request[c].network_id, c)
        PROVE  Coherent(pex')
    BY <2>1, <2>2, IdentityFields, OnRegisterCoherent, Zenon
  <2>3. ASSUME NEW c \in Conns, NEW muted \in BOOLEAN, session[c] \in Identity,
               pex' = OnNodeHandshake(
                          OnRegister(pex, session[c].peer_id, session[c].network_id, c),
                          session[c].peer_id, session[c].network_id, muted)
        PROVE  Coherent(pex')
    BY <2>1, <2>3, IdentityFields, OnRegisterType, OnRegisterCoherent, OnNodeHandshakeCoherent
  <2>4. ASSUME NEW id \in Identity, pex' = OnUnregister(pex, id.peer_id, id.network_id)
        PROVE  Coherent(pex')
    BY <2>1, <2>4, IdentityFields, OnUnregisterCoherent
  <2> QED
    BY <2>2, <2>3, <2>4, PexSteps
<1> QED
  BY <1>1, <1>2, CoreInvariant, PTL DEF Spec

-----------------------------------------------------------------------------
(* Proven identities *)

\* ProvenIdentity says nothing of a registration that is in the registry and
\* not yet mirrored; its request has passed the certificate check too.
RequestProven ==
    \A c \in Conns : pc[c] = "mirroring" => Verified[c] \in {AnyPeer, request[c].peer_id}

\* A registration in progress past the identity check was proven.
LEMMA RequestProvenStep ==
    ASSUME Core, RequestProven, [Next]_vars
    PROVE  RequestProven'
<1> USE DEF Core, StateTypeOK, RequestProven
<1>1. ASSUME NEW c \in Conns,
             \/ Accept(c) \/ RefuseAtAccept(c) \/ CheckOpenCap(c) \/ AcquireOpen(c)
             \/ AcquireConn(c) \/ Upgrade(c) \/ NotARelayPeer(c)
      PROVE  RequestProven'
  BY <1>1, Zenon DEF Accept, RefuseAtAccept, CheckOpenCap, AcquireOpen, AcquireConn, Upgrade,
              NotARelayPeer, Goto
<1>2. ASSUME NEW c \in Conns,
             (\E id \in Identity : RegisterFrame(c, id)) \/ RegisterRefused(c) \/ RegisterMirror(c)
      PROVE  RequestProven'
  BY <1>2, Zenon DEF RegisterFrame, RegisterRefused, RegisterMirror, Goto
<1>3. ASSUME NEW c \in Conns, RegisterPeer(c)
      PROVE  RequestProven'
  BY <1>3, Zenon DEF RegisterPeer, Admitted, Goto
<1>4. ASSUME NEW c \in Conns,
             \/ StreamEnds(c) \/ LastFrame(c) \/ ReadTimeout(c)
             \/ Deregister(c) \/ DeregisterMirror(c) \/ Finish(c)
      PROVE  RequestProven'
  BY <1>4, Zenon DEF StreamEnds, LastFrame, ReadTimeout, Deregister, DeregisterMirror, Finish, Goto
<1>5. ASSUME NEW c \in Conns,
             \/ Frame(c) \/ WriterDrained(c) \/ WriterFails(c) \/ WriterStalls(c) \/ GoStale(c)
             \/ \E muted \in BOOLEAN : PexHandshake(c, muted)
      PROVE  RequestProven'
  BY <1>5, Zenon DEF Frame, WriterDrained, WriterFails, WriterStalls, GoStale, PexHandshake
<1>6. ASSUME SweepOnce \/ (\E id \in pruned : SweepMirror(id)) \/ Quiet \/ UNCHANGED vars
      PROVE  RequestProven'
  BY <1>6, Zenon DEF SweepOnce, SweepMirror, Quiet, vars
<1> HIDE DEF Core, RequestProven
<1> QED
  BY <1>1, <1>2, <1>3, <1>4, <1>5, <1>6, NextCases, SMTT(40)

\* A session is set by the registration it served and reset when its task
\* ends.
LEMMA SessionStep ==
    ASSUME Core, [Next]_vars, NEW d \in Conns
    PROVE  \/ session'[d] \in {session[d], NoIdentity}
           \/ RegisterMirror(d) /\ session'[d] = request[d]
<1>0. session \in [Conns -> Identity \cup {NoIdentity}]
  BY DEF Core, StateTypeOK
<1>1. ASSUME NEW c \in Conns, RegisterMirror(c)
      PROVE  session'[d] = session[d] \/ (c = d /\ session'[d] = request[d])
  BY <1>0, <1>1 DEF RegisterMirror
<1>2. ASSUME NEW c \in Conns, Finish(c)
      PROVE  session'[d] \in {session[d], NoIdentity}
  BY <1>0, <1>2, SMTT(40) DEF Finish
<1>3. ASSUME NEW c \in Conns,
             \/ Accept(c) \/ RefuseAtAccept(c) \/ CheckOpenCap(c) \/ AcquireOpen(c)
             \/ AcquireConn(c) \/ Upgrade(c) \/ NotARelayPeer(c) \/ Frame(c)
             \/ \E id \in Identity : RegisterFrame(c, id)
             \/ RegisterPeer(c) \/ RegisterRefused(c)
             \/ \E muted \in BOOLEAN : PexHandshake(c, muted)
             \/ StreamEnds(c) \/ LastFrame(c) \/ ReadTimeout(c)
             \/ Deregister(c) \/ DeregisterMirror(c)
             \/ WriterDrained(c) \/ WriterFails(c) \/ WriterStalls(c) \/ GoStale(c)
      PROVE  UNCHANGED session
  BY <1>3, Zenon
  DEF Accept, RefuseAtAccept, CheckOpenCap, AcquireOpen, AcquireConn, Upgrade, NotARelayPeer,
      Frame, RegisterFrame, RegisterPeer, RegisterRefused, PexHandshake, StreamEnds, LastFrame,
      ReadTimeout, Deregister, DeregisterMirror, WriterDrained, WriterFails, WriterStalls, GoStale
<1>4. ASSUME SweepOnce \/ (\E id \in pruned : SweepMirror(id)) \/ Quiet \/ UNCHANGED vars
      PROVE  UNCHANGED session
  BY <1>4, Zenon DEF SweepOnce, SweepMirror, Quiet, vars
<1> QED
  BY <1>1, <1>2, <1>3, <1>4, NextCases, ZenonT(40)

\* The PEX sender retained for q after one call into the mirror.
LEMMA SenderOnRegister ==
    ASSUME NEW x \in PexType, NEW p \in Peers, NEW n \in Networks, NEW c \in Conns, NEW q \in Peers
    PROVE  OnRegister(x, p, n, c).conns[q] = IF q = p THEN c ELSE x.conns[q]
BY DEF PexType, OnRegister

\* on_unregister keeps no sender but those it found.
LEMMA SenderOnUnregister ==
    ASSUME NEW x \in PexType, NEW p \in Peers, NEW n \in Networks, NEW q \in Peers
    PROVE  OnUnregister(x, p, n).conns[q] = IF q = p THEN NoConn ELSE x.conns[q]
BY DEF PexType, OnUnregister

\* on_node_handshake touches no sender.
LEMMA SenderOnNodeHandshake ==
    ASSUME NEW x \in PexType, NEW p \in Peers, NEW n \in Networks, NEW muted \in BOOLEAN
    PROVE  OnNodeHandshake(x, p, n, muted).conns = x.conns
BY DEF PexType, OnNodeHandshake

\* Every step keeps the proof behind each record, session and sender.
LEMMA ProvenStep ==
    ASSUME Core, RequestProven, ProvenIdentity, [Next]_vars
    PROVE  ProvenIdentity'
<1>0. registry \in RegistryType /\ pex \in PexType
  BY DEF Core, StateTypeOK
<1>1. ASSUME NEW p \in Peers, registry'[p] # Vacant
      PROVE  Verified[registry'[p].tx] \in {AnyPeer, p}
  <2>1. CASE registry'[p] = registry[p]
    BY <1>1, <2>1 DEF ProvenIdentity, Registered
  <2>2. ASSUME NEW c \in Conns, Admitted(c, request[c]), request[c].peer_id = p,
               registry'[p] = [network_id |-> request[c].network_id, tx |-> c]
        PROVE  Verified[registry'[p].tx] \in {AnyPeer, p}
    BY <2>2 DEF Admitted
  <2> QED
    BY <1>1, <2>1, <2>2, RecordStep, Zenon
<1>2. ASSUME NEW d \in Conns, session'[d] # NoIdentity
      PROVE  Verified[d] \in {AnyPeer, session'[d].peer_id}
  <2>1. CASE session'[d] = session[d]
    BY <1>2, <2>1, Zenon DEF ProvenIdentity
  <2>2. CASE RegisterMirror(d) /\ session'[d] = request[d]
    BY <2>2, Zenon DEF RegisterMirror, RequestProven
  <2> QED
    BY <1>2, <2>1, <2>2, SessionStep
<1>3. ASSUME NEW q \in Peers, pex'.conns[q] # NoConn
      PROVE  Verified[pex'.conns[q]] \in {AnyPeer, q}
  <2>1. CASE pex'.conns[q] = pex.conns[q]
    BY <1>3, <2>1, Zenon DEF ProvenIdentity
  <2>2. ASSUME NEW c \in Conns, RegisterMirror(c), request[c] \in Identity,
               pex' = OnRegister(pex, request[c].peer_id, request[c].network_id, c)
        PROVE  Verified[pex'.conns[q]] \in {AnyPeer, q}
    <3>1. Verified[c] \in {AnyPeer, request[c].peer_id}
      BY <2>2 DEF RegisterMirror, RequestProven
    <3>2. request[c].peer_id \in Peers /\ request[c].network_id \in Networks
      BY <2>2, IdentityFields, Zenon
    <3>3. OnRegister(pex, request[c].peer_id, request[c].network_id, c).conns[q]
          = IF q = request[c].peer_id THEN c ELSE pex.conns[q]
      BY <1>0, <3>2, SenderOnRegister
    <3> QED
      BY <2>1, <2>2, <3>1, <3>3, Zenon
  <2>3. ASSUME NEW c \in Conns, NEW muted \in BOOLEAN, session[c] \in Identity,
               pex' = OnNodeHandshake(
                          OnRegister(pex, session[c].peer_id, session[c].network_id, c),
                          session[c].peer_id, session[c].network_id, muted)
        PROVE  Verified[pex'.conns[q]] \in {AnyPeer, q}
    <3>1. Verified[c] \in {AnyPeer, session[c].peer_id}
      BY <2>3, RelayAssumption DEF ProvenIdentity
    <3>2. pex'.conns[q] = IF q = session[c].peer_id THEN c ELSE pex.conns[q]
      <4> DEFINE y == OnRegister(pex, session[c].peer_id, session[c].network_id, c)
      <4>1. session[c].peer_id \in Peers /\ session[c].network_id \in Networks
        BY <2>3, IdentityFields
      <4>2. y \in PexType /\ y.conns[q] = IF q = session[c].peer_id THEN c ELSE pex.conns[q]
        BY <1>0, <4>1, OnRegisterType, SenderOnRegister
      <4> HIDE DEF y
      <4>3. pex'.conns = y.conns
        BY <2>3, <4>1, <4>2, SenderOnNodeHandshake DEF y
      <4> QED  BY <4>2, <4>3
    <3> QED
      BY <2>1, <3>1, <3>2
  <2>4. ASSUME NEW id \in Identity, pex' = OnUnregister(pex, id.peer_id, id.network_id)
        PROVE  Verified[pex'.conns[q]] \in {AnyPeer, q}
    <3>1. pex'.conns[q] = IF q = id.peer_id THEN NoConn ELSE pex.conns[q]
      BY <1>0, <2>4, IdentityFields, SenderOnUnregister
    <3> QED
      BY <1>3, <2>1, <3>1
  <2> QED
    BY <2>1, <2>2, <2>3, <2>4, PexSteps
<1> QED
  BY <1>1, <1>2, <1>3, Zenon DEF ProvenIdentity, Registered

\* On the mTLS listener whatever the relay keeps under an id belongs to a
\* connection that proved that id.
THEOREM ProvenTheorem == Spec => []ProvenIdentity
<1>1. Init => RequestProven /\ ProvenIdentity
  BY DEF Init, NewRegistry, NewPex, Registered, RequestProven, ProvenIdentity
<1>2. Core /\ RequestProven /\ [Next]_vars => RequestProven'
  BY RequestProvenStep
<1>3. Core /\ RequestProven /\ ProvenIdentity /\ [Next]_vars => ProvenIdentity'
  BY ProvenStep
<1> QED
  BY <1>1, <1>2, <1>3, CoreInvariant, PTL DEF Spec

-----------------------------------------------------------------------------
(* The live registrations of a source *)

\* Every connection came in through the mTLS listener (serve_tls).
Mtls == \A c \in Conns : Verified[c] # AnyPeer

\* Where a connection that owns a record holds a registration slot: the new one
\* of register_peer, or the one its session retains until it has deregistered.
Retains(c) ==
    \/ pc[c] = "mirroring"
    \/ /\ c \in reg_slot /\ session[c] # NoIdentity
       /\ pc[c] \in {"reading", "registering", "refused", "teardown"}

RecordsRetain == \A p \in Registered(registry) : Retains(registry[p].tx)

\* Only its own deregister takes a connection out of that state.
LEMMA RetainsStable ==
    ASSUME Core, [Next]_vars, NEW d \in Conns, Retains(d), ~Deregister(d)
    PROVE  Retains(d)'
<1> USE DEF Core, StateTypeOK, TaskShape, PcStates, Retains
<1>1. ASSUME NEW c \in Conns,
             Accept(c) \/ RefuseAtAccept(c) \/ CheckOpenCap(c) \/ AcquireOpen(c)
      PROVE  Retains(d)'
  BY <1>1 DEF Accept, RefuseAtAccept, CheckOpenCap, AcquireOpen, Goto
<1>2. ASSUME NEW c \in Conns, AcquireConn(c) \/ Upgrade(c)
      PROVE  Retains(d)'
  BY <1>2 DEF AcquireConn, Upgrade, Goto
<1>3. ASSUME NEW c \in Conns, NotARelayPeer(c) \/ Finish(c)
      PROVE  Retains(d)'
  BY <1>3 DEF NotARelayPeer, Finish, DropSlots, Goto
<1>4. ASSUME NEW c \in Conns, NEW id \in Identity, RegisterFrame(c, id)
      PROVE  Retains(d)'
  BY <1>4 DEF RegisterFrame, Goto
<1>5. ASSUME NEW c \in Conns, RegisterPeer(c) \/ RegisterRefused(c)
      PROVE  Retains(d)'
  BY <1>5 DEF RegisterPeer, RegisterRefused, Goto
<1>6. ASSUME NEW c \in Conns, RegisterMirror(c)
      PROVE  Retains(d)'
  BY <1>6, RelayAssumption DEF RegisterMirror, Goto
<1>7. ASSUME NEW c \in Conns,
             \/ Frame(c) \/ GoStale(c) \/ WriterDrained(c) \/ WriterFails(c) \/ WriterStalls(c)
             \/ \E muted \in BOOLEAN : PexHandshake(c, muted)
      PROVE  Retains(d)'
  BY <1>7 DEF Frame, GoStale, PexHandshake, WriterDrained, WriterFails, WriterStalls
<1>8. ASSUME NEW c \in Conns, StreamEnds(c) \/ LastFrame(c) \/ ReadTimeout(c)
      PROVE  Retains(d)'
  BY <1>8 DEF StreamEnds, LastFrame, ReadTimeout, Goto
<1>9. ASSUME NEW c \in Conns, Deregister(c) \/ DeregisterMirror(c)
      PROVE  Retains(d)'
  BY <1>9, Zenon DEF Deregister, DeregisterMirror, Goto
<1>10. ASSUME SweepOnce \/ (\E id \in pruned : SweepMirror(id)) \/ Quiet \/ UNCHANGED vars
       PROVE  Retains(d)'
  BY <1>10, Zenon DEF SweepOnce, SweepMirror, Quiet, vars
<1> HIDE DEF Core, Retains
<1> QED
  BY <1>1, <1>2, <1>3, <1>4, <1>5, <1>6, <1>7, <1>8, <1>9, <1>10, NextCases, Zenon

\* With mTLS a connection has one id, so its deregister takes its record along:
\* no record outlives the slot it was admitted with.
LEMMA RecordsRetainStep ==
    ASSUME Mtls, Core, ProvenIdentity, RecordsRetain, [Next]_vars
    PROVE  RecordsRetain'
<1> SUFFICES ASSUME NEW p \in Peers, registry'[p] # Vacant
             PROVE  Retains(registry[p].tx)'
  BY DEF RecordsRetain, Registered
<1>1. registry \in RegistryType /\ pc \in [Conns -> PcStates]
      /\ session \in [Conns -> Identity \cup {NoIdentity}]
  BY DEF Core, StateTypeOK
<1>2. CASE registry'[p] = registry[p]
  <2>1. p \in Registered(registry) /\ registry[p].tx \in Conns
    BY <1>1, <1>2 DEF RegistryType, Registered, Peer
  <2>2. PICK d \in Conns : d = registry[p].tx
    BY <2>1
  <2>3. Retains(d)
    BY <2>1, <2>2 DEF RecordsRetain
  <2>4. ~Deregister(d)
    <3>1. SUFFICES ASSUME Deregister(d) PROVE FALSE
      OBVIOUS
    <3>2. session[d] # NoIdentity
      BY <2>3, <3>1 DEF Deregister, Retains
    <3>3. session[d].peer_id = Verified[d] /\ Verified[d] = p
      BY <2>1, <2>2, <3>2 DEF Mtls, ProvenIdentity
    <3>4. registry' = Unregister(registry, {p})
      BY <2>1, <3>1, <3>2, <3>3 DEF Deregister
    <3> QED  BY <3>4 DEF Unregister
  <2>5. Retains(d)'
    BY <2>3, <2>4, RetainsStable
  <2>6. registry'[p].tx = d
    BY <1>2, <2>2
  <2> QED  BY <2>5, <2>6, Zenon DEF Retains
<1>3. ASSUME NEW c \in Conns, RegisterPeer(c), Admitted(c, request[c]),
             registry'[p] = [network_id |-> request[c].network_id, tx |-> c]
      PROVE  Retains(registry[p].tx)'
  <2>1. registry'[p].tx = c /\ pc'[c] = "mirroring"
    BY <1>1, <1>3 DEF RegisterPeer, Goto
  <2> QED  BY <2>1, Zenon DEF Retains
<1> QED  BY <1>2, <1>3, RecordStep, Zenon

\* One id per connection and one slot per record: a source has no more records
\* than slots.
LEMMA RecordsWithinSlots ==
    ASSUME Mtls, Core, ProvenIdentity, RecordsRetain, SlotsBalance, CapsHold
    PROVE  RegistrationsWithinCap
<1> SUFFICES ASSUME MaxRegistrationsPerIp # 0, NEW i \in Ips
             PROVE  Cardinality(RegistrationsOf(i)) <= MaxRegistrationsPerIp
  BY DEF RegistrationsWithinCap
<1> DEFINE S == RegistrationsOf(i)
           T == RegHolders(i) \cup NewRegHolders(i)
           owner == [p \in S |-> registry[p].tx]
<1>1. /\ IsFiniteSet(RegHolders(i)) /\ IsFiniteSet(NewRegHolders(i))
      /\ Cardinality(RegHolders(i)) \in Nat /\ Cardinality(NewRegHolders(i)) \in Nat
  <2>1. RegHolders(i) \in SUBSET Conns /\ NewRegHolders(i) \in SUBSET Conns
    BY DEF RegHolders, NewRegHolders, From
  <2> QED  BY <2>1, RelayAssumption, FS_Subset, FS_CardinalityType
<1>2. IsFiniteSet(T) /\ Cardinality(T) \in Nat
      /\ Cardinality(T) <= Cardinality(RegHolders(i)) + Cardinality(NewRegHolders(i))
  <2>1. /\ IsFiniteSet(T)
        /\ Cardinality(T) = Cardinality(RegHolders(i)) + Cardinality(NewRegHolders(i))
                            - Cardinality(RegHolders(i) \cap NewRegHolders(i))
    BY <1>1, FS_Union, Zenon
  <2>2. Cardinality(RegHolders(i) \cap NewRegHolders(i)) \in Nat
    BY <1>1, FS_Intersection, FS_CardinalityType, Zenon
  <2> QED  BY <1>1, <2>1, <2>2, FS_CardinalityType
<1>3. ASSUME NEW p \in S
      PROVE  owner[p] \in T /\ Verified[owner[p]] = p
  <2>1. p \in Registered(registry) /\ owner[p] = registry[p].tx /\ owner[p] \in From(i)
    BY <1>3 DEF RegistrationsOf
  <2>2. Verified[owner[p]] = p
    BY <2>1 DEF ProvenIdentity, Mtls, From
  <2>3. Retains(owner[p])
    BY <2>1 DEF RecordsRetain
  <2>4. owner[p] \in T
    BY <2>1, <2>3 DEF Retains, RegHolders, NewRegHolders, HoldsNewReg
  <2> QED  BY <2>2, <2>4
<1>4. owner \in Injection(S, T)
  <2>1. owner \in [S -> T] /\ DOMAIN owner = S
    BY <1>3
  <2>2. \A p, q \in S : owner[p] = owner[q] => p = q
    <3> HIDE DEF S, owner
    <3> QED  BY <1>3
  <2> HIDE DEF S, T, owner
  <2> QED  BY <2>1, <2>2, Zenon DEF Injection, IsInjective
<1>5. Cardinality(S) <= Cardinality(T)
  BY <1>2, <1>4, FS_Injection
<1>6. IsFiniteSet(S) /\ Cardinality(S) \in Nat
  BY <1>2, <1>4, FS_Injection, FS_CardinalityType
<1>7. /\ regs_per_ip[i] = Cardinality(RegHolders(i)) + Cardinality(NewRegHolders(i))
      /\ regs_per_ip[i] <= MaxRegistrationsPerIp
  BY DEF SlotsBalance, CapsHold
<1> QED  BY <1>1, <1>2, <1>5, <1>6, <1>7, RelayAssumption

\* On the mTLS listener max_registrations_per_ip bounds what it is named for:
\* the registrations a source has in the registry, in every interleaving of
\* re-registration, roaming, teardown and the sweep.  On the plain listener the
\* code promises less: one connection may register several ids.
THEOREM RegistrationsTheorem ==
    ASSUME Mtls
    PROVE  Spec => []RegistrationsWithinCap
<1>1. Init => RecordsRetain
  BY DEF Init, RecordsRetain, Registered, NewRegistry
<1>2. Core /\ ProvenIdentity /\ RecordsRetain /\ [Next]_vars => RecordsRetain'
  BY RecordsRetainStep
<1>3. Core /\ ProvenIdentity /\ RecordsRetain /\ SlotsBalance /\ CapsHold => RegistrationsWithinCap
  BY RecordsWithinSlots
<1> QED
  BY <1>1, <1>2, <1>3, CoreInvariant, ProvenTheorem, SlotsTheorem, CapsTheorem, PTL DEF Spec
==============================================================================
