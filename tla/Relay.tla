------------------------------- MODULE Relay --------------------------------
(***************************************************************************)
(* The life of the relay's connections (src/server.rs): admission, the     *)
(* reader loop, registration, teardown, the writer task and the health     *)
(* sweep, over the shared registry, the PEX mirror and the counters.       *)
(*                                                                         *)
(* A step is what one task does between two points where another thread of *)
(* the multi-threaded runtime can run in between: the acquisition of the   *)
(* registry mutex, of the PEX mutex or of the abuse-policy mutex, an       *)
(* atomic operation on a shared counter, or a wait for the network.  So    *)
(* register_peer is three steps, deregister two and sweep_once one plus    *)
(* one per victim, while a single lock hold is never split.  The guards a  *)
(* task drops on its way out are released in one step: nothing reads two   *)
(* of them together.                                                       *)
(*                                                                         *)
(* Outbound queues are left out: every send is a try_send whose result is  *)
(* discarded, so what is queued never decides what the relay does next.    *)
(* Time appears as the set `stale` of connections that have been silent    *)
(* for longer than liveness_deadline; the registration rate, strikes and   *)
(* bans depend on the clock and are modelled in AbusePolicy.tla, and their *)
(* verdicts are free choices here.                                         *)
(***************************************************************************)
EXTENDS PexRelay, Integers

CONSTANTS
    Ips,                    \* source keys (limits::ip_key)
    Source,                 \* the source key of each connection
    Verified,               \* the mTLS-verified id of each connection, or AnyPeer
    AnyPeer,                \* "no certificate": the plain ws:// listener
    NoIdentity,             \* Session::default(): not registered
    MaxConnections,         \* config.max_connections
    MaxConnectionsPerIp,    \* config.max_connections_per_ip, 0 disables
    MaxRegistrationsPerIp   \* config.max_registrations_per_ip, 0 disables

\* What a Register frame claims, and what a session remembers of it.
Identity == [peer_id : Peers, network_id : Networks]

ASSUME RelayAssumption ==
    /\ IsFiniteSet(Conns) /\ IsFiniteSet(Peers)
    /\ Source \in [Conns -> Ips]
    /\ Verified \in [Conns -> Peers \cup {AnyPeer}]
    /\ AnyPeer \notin Peers
    /\ NoIdentity \notin Identity
    /\ MaxConnections \in Nat \ {0}   \* RelayServerConfig::validate
    /\ MaxConnectionsPerIp \in 0..MaxConnections
    /\ MaxRegistrationsPerIp \in Nat

VARIABLES
    pc,                \* where each connection task is
    session,           \* Session { peer_id, network_id } of the task
    pex_active,        \* connections whose Session.pex_active is set
    request,           \* the Register frame the task is serving
    reg_slot,          \* connections whose local reg_slot holds a slot
    writer,            \* the writer task: none, running, stalled, exited
    stale,             \* connections silent past liveness_deadline
    registry,          \* RelayState.registry
    pex,               \* RelayState.pex
    connected,         \* RelayState.connected
    open_connections,  \* RelayState.open_connections
    conns_per_ip,      \* AbuseState.conns_per_ip
    regs_per_ip,       \* AbuseState.regs_per_ip
    pruned             \* sweep_once: removed, not yet mirrored into PEX

counters == <<connected, open_connections, conns_per_ip, regs_per_ip>>
vars == <<pc, session, pex_active, request, reg_slot, writer, stale,
          registry, pex, counters, pruned>>

PcStates == {"idle", "accepted", "below_cap", "counted", "head", "reading",
             "registering", "refused", "mirroring",
             "teardown", "unmirroring", "draining", "closed"}

\* Where the task holds its OpenConnectionGuard, its ConnSlot, the RegSlot
\* that register_peer has acquired but not yet handed over, its channels.
HoldsConn == {"head", "reading", "registering", "refused", "mirroring",
              "teardown", "unmirroring", "draining"}
HoldsOpen == HoldsConn \cup {"counted"}
HoldsNewReg == {"registering", "refused", "mirroring"}
Upgraded == HoldsConn \ {"head"}

Init ==
    /\ pc = [c \in Conns |-> "idle"]
    /\ session = [c \in Conns |-> NoIdentity]
    /\ pex_active = {}
    /\ request = [c \in Conns |-> NoIdentity]
    /\ reg_slot = {}
    /\ writer = [c \in Conns |-> "none"]
    /\ stale = {}
    /\ registry = NewRegistry
    /\ pex = NewPex
    /\ connected = 0
    /\ open_connections = 0
    /\ conns_per_ip = [i \in Ips |-> 0]
    /\ regs_per_ip = [i \in Ips |-> 0]
    /\ pruned = {}

-----------------------------------------------------------------------------
(* Helpers *)

Goto(c, to) == pc' = [pc EXCEPT ![c] = to]

\* The senders for which tx.is_closed() holds: the receiver lives in the
\* writer task and goes with it.
Closed == {c \in Conns : writer[c] = "exited"}

\* Mutant: the comparison with the cap is off by one.
AtMostCap(count, cap, c) == cap = 0 \/ count[Source[c]] <= cap

\* A per-IP count; a cap of 0 hands out slots that are not counted.
BelowCap(count, cap, c) == cap = 0 \/ count[Source[c]] < cap
Taken(count, cap, c) ==
    IF cap = 0 THEN count ELSE [count EXCEPT ![Source[c]] = @ + 1]
Released(count, cap, c) ==
    IF cap = 0 THEN count ELSE [count EXCEPT ![Source[c]] = @ - 1]

\* An inbound frame: the task stamps last_activity before anything else.
Stamp(c) == stale' = stale \ {c}

\* Some record still holds a clone of c's outbound sender.
SenderInRegistry(c) == \E p \in Registered(registry) : registry[p].tx = c

-----------------------------------------------------------------------------
(* Admission: run, handle_connection up to the WebSocket handshake *)

\* The listener hands a socket to a fresh task; the source is resolved and,
\* with mTLS, the certificate checked.
Accept(c) ==
    /\ pc[c] = "idle"
    /\ Goto(c, "accepted")
    /\ UNCHANGED <<session, pex_active, request, reg_slot, writer, stale,
                   registry, pex, counters, pruned>>

\* Refused for a ban, or because the header or the TLS handshake failed.
RefuseAtAccept(c) ==
    /\ pc[c] = "accepted"
    /\ Goto(c, "closed")
    /\ UNCHANGED <<session, pex_active, request, reg_slot, writer, stale,
                   registry, pex, counters, pruned>>

\* open_connections is loaded here and incremented in the next step.
CheckOpenCap(c) ==
    /\ pc[c] = "accepted"
    /\ Goto(c, IF open_connections >= MaxConnections THEN "closed" ELSE "below_cap")
    /\ UNCHANGED <<session, pex_active, request, reg_slot, writer, stale,
                   registry, pex, counters, pruned>>

\* OpenConnectionGuard::acquire
AcquireOpen(c) ==
    /\ pc[c] = "below_cap"
    /\ Goto(c, "counted")
    /\ open_connections' = open_connections + 1
    /\ UNCHANGED <<session, pex_active, request, reg_slot, writer, stale,
                   registry, pex, connected, conns_per_ip, regs_per_ip, pruned>>

\* try_acquire_conn; at the cap the open guard is dropped on the way out.
AcquireConn(c) ==
    /\ pc[c] = "counted"
    /\ IF BelowCap(conns_per_ip, MaxConnectionsPerIp, c)
       THEN /\ Goto(c, "head")
            /\ conns_per_ip' = Taken(conns_per_ip, MaxConnectionsPerIp, c)
            /\ UNCHANGED open_connections
       ELSE /\ Goto(c, "closed")
            /\ open_connections' = open_connections - 1
            /\ UNCHANGED conns_per_ip
    /\ UNCHANGED <<session, pex_active, request, reg_slot, writer, stale,
                   registry, pex, connected, regs_per_ip, pruned>>

\* The request head arrives, is an upgrade, and the WebSocket handshake
\* succeeds: the channels are made and the writer task is spawned.
Upgrade(c) ==
    /\ pc[c] = "head"
    /\ Goto(c, "reading")
    /\ writer' = [writer EXCEPT ![c] = "running"]
    /\ UNCHANGED <<session, pex_active, request, reg_slot, stale,
                   registry, pex, counters, pruned>>

\* Mutant: the registration slot is forgotten, not dropped.
DropSlotsLeaksReg(c) ==
    /\ open_connections' = open_connections - 1
    /\ conns_per_ip' = Released(conns_per_ip, MaxConnectionsPerIp, c)
    /\ regs_per_ip' = regs_per_ip
    /\ reg_slot' = reg_slot \ {c}

\* What a task's locals release when it returns, in one go.
DropSlots(c) ==
    /\ open_connections' = open_connections - 1
    /\ conns_per_ip' = Released(conns_per_ip, MaxConnectionsPerIp, c)
    /\ regs_per_ip' = IF c \in reg_slot
                      THEN Released(regs_per_ip, MaxRegistrationsPerIp, c)
                      ELSE regs_per_ip
    /\ reg_slot' = reg_slot \ {c}

\* A dashboard request is served and closed; a bad head, an early EOF or a
\* failed handshake returns through `?`.
NotARelayPeer(c) ==
    /\ pc[c] = "head"
    /\ Goto(c, "closed")
    /\ DropSlots(c)
    /\ UNCHANGED <<session, pex_active, request, writer, stale,
                   registry, pex, connected, pruned>>

-----------------------------------------------------------------------------
(* The reader loop and register_peer *)

\* A frame that leaves the relay's state alone: bad JSON, keepalive, gossip,
\* broadcast, hole punch, get_peers, or anything sent before registration.
Frame(c) ==
    /\ pc[c] = "reading"
    /\ Stamp(c)
    /\ UNCHANGED <<pc, session, pex_active, request, reg_slot, writer,
                   registry, pex, counters, pruned>>

\* register_peer up to the registry lock: rate, then concurrent slot.  A
\* registered session may send Register again; dispatch does not object.
RegisterFrame(c, id) ==
    /\ pc[c] = "reading"
    /\ Stamp(c)
    /\ BelowCap(regs_per_ip, MaxRegistrationsPerIp, c)
    /\ regs_per_ip' = Taken(regs_per_ip, MaxRegistrationsPerIp, c)
    /\ request' = [request EXCEPT ![c] = id]
    /\ Goto(c, "registering")
    /\ UNCHANGED <<session, pex_active, reg_slot, writer,
                   registry, pex, connected, open_connections, conns_per_ip, pruned>>

\* Mutants: one of the checks is dropped.
AdmittedUnproven(c, id) ==
    /\ RegistryLen(registry) < MaxConnections
    /\ RegisterOutcome(registry, Closed, id.peer_id) # "Occupied"
AdmittedAtCap(c, id) ==
    /\ Verified[c] \in {AnyPeer, id.peer_id}
    /\ RegisterOutcome(registry, Closed, id.peer_id) # "Occupied"

\* The checks made while the registry is locked, in the code's order.
Admitted(c, id) ==
    /\ Verified[c] \in {AnyPeer, id.peer_id}
    /\ RegistryLen(registry) < MaxConnections
    /\ RegisterOutcome(registry, Closed, id.peer_id) # "Occupied"

\* Mutant: a reconnect is counted like a first registration.
RegisterPeerCountsReconnect(c) ==
    LET id == request[c] IN
    /\ pc[c] = "registering"
    /\ IF Admitted(c, id)
       THEN /\ Goto(c, "mirroring")
            /\ registry' = Insert(registry, id.peer_id, id.network_id, c)
            /\ connected' = connected + 1
       ELSE /\ Goto(c, "refused")
            /\ UNCHANGED <<registry, connected>>
    /\ UNCHANGED <<session, pex_active, request, reg_slot, writer, stale, pex,
                   open_connections, conns_per_ip, regs_per_ip, pruned>>

\* register_peer under the registry lock.
RegisterPeer(c) ==
    LET id == request[c] IN
    /\ pc[c] = "registering"
    /\ IF Admitted(c, id)
       THEN /\ Goto(c, "mirroring")
            /\ registry' = Insert(registry, id.peer_id, id.network_id, c)
            /\ connected' =
                 IF RegisterOutcome(registry, Closed, id.peer_id) = "Registered"
                 THEN connected + 1 ELSE connected
       ELSE /\ Goto(c, "refused")
            /\ UNCHANGED <<registry, connected>>
    /\ UNCHANGED <<session, pex_active, request, reg_slot, writer, stale, pex,
                   open_connections, conns_per_ip, regs_per_ip, pruned>>

\* The refusal returns: the slot acquired for it is dropped, the loop ends.
RegisterRefused(c) ==
    /\ pc[c] = "refused"
    /\ Goto(c, "teardown")
    /\ request' = [request EXCEPT ![c] = NoIdentity]
    /\ regs_per_ip' = Released(regs_per_ip, MaxRegistrationsPerIp, c)
    /\ UNCHANGED <<session, pex_active, reg_slot, writer, stale, registry, pex,
                   connected, open_connections, conns_per_ip, pruned>>

\* Mutants: the new slot is dropped instead of the old one; the session is
\* not remembered.
RegisterMirrorDropsSlot(c) ==
    LET id == request[c] IN
    /\ pc[c] = "mirroring"
    /\ Goto(c, "reading")
    /\ pex' = OnRegister(pex, id.peer_id, id.network_id, c)
    /\ session' = [session EXCEPT ![c] = id]
    /\ request' = [request EXCEPT ![c] = NoIdentity]
    /\ regs_per_ip' = Released(regs_per_ip, MaxRegistrationsPerIp, c)
    /\ reg_slot' = reg_slot \cup {c}
    /\ UNCHANGED <<pex_active, writer, stale, registry, connected,
                   open_connections, conns_per_ip, pruned>>
RegisterMirrorForgetsSession(c) ==
    LET id == request[c] IN
    /\ pc[c] = "mirroring"
    /\ Goto(c, "reading")
    /\ pex' = OnRegister(pex, id.peer_id, id.network_id, c)
    /\ request' = [request EXCEPT ![c] = NoIdentity]
    /\ regs_per_ip' = IF c \in reg_slot
                      THEN Released(regs_per_ip, MaxRegistrationsPerIp, c)
                      ELSE regs_per_ip
    /\ reg_slot' = reg_slot \cup {c}
    /\ UNCHANGED <<session, pex_active, writer, stale, registry, connected,
                   open_connections, conns_per_ip, pruned>>

\* The mirror into PEX under the PEX lock, then the hand-over of the slot
\* (a slot of an earlier registration is dropped) and the session.
RegisterMirror(c) ==
    LET id == request[c] IN
    /\ pc[c] = "mirroring"
    /\ Goto(c, "reading")
    /\ pex' = OnRegister(pex, id.peer_id, id.network_id, c)
    /\ session' = [session EXCEPT ![c] = id]
    /\ request' = [request EXCEPT ![c] = NoIdentity]
    /\ regs_per_ip' = IF c \in reg_slot
                      THEN Released(regs_per_ip, MaxRegistrationsPerIp, c)
                      ELSE regs_per_ip
    /\ reg_slot' = reg_slot \cup {c}
    /\ UNCHANGED <<pex_active, writer, stale, registry, connected,
                   open_connections, conns_per_ip, pruned>>

\* The first pex_handshake of a registered session; on_register and
\* on_node_handshake run under one hold of the PEX lock.
PexHandshake(c, muted) ==
    LET id == session[c] IN
    /\ pc[c] = "reading"
    /\ id # NoIdentity
    /\ c \notin pex_active
    /\ Stamp(c)
    /\ pex' = OnNodeHandshake(OnRegister(pex, id.peer_id, id.network_id, c),
                              id.peer_id, id.network_id, muted)
    /\ pex_active' = pex_active \cup {c}
    /\ UNCHANGED <<pc, session, request, reg_slot, writer,
                   registry, counters, pruned>>

\* The client closes, or the socket fails.
StreamEnds(c) ==
    /\ pc[c] = "reading"
    /\ Goto(c, "teardown")
    /\ UNCHANGED <<session, pex_active, request, reg_slot, writer, stale,
                   registry, pex, counters, pruned>>

\* A frame that ends the loop: Unregister, the per-connection flood limit, a
\* Register over the rate or at the concurrent-registration cap.
LastFrame(c) ==
    /\ pc[c] = "reading"
    /\ Goto(c, "teardown")
    /\ Stamp(c)
    /\ UNCHANGED <<session, pex_active, request, reg_slot, writer,
                   registry, pex, counters, pruned>>

\* The read times out: register_timeout for a session not yet registered,
\* idle_timeout (longer than liveness_deadline) for a registered one.
ReadTimeout(c) ==
    /\ pc[c] = "reading"
    /\ session[c] = NoIdentity \/ c \in stale
    /\ Goto(c, "teardown")
    /\ UNCHANGED <<session, pex_active, request, reg_slot, writer, stale,
                   registry, pex, counters, pruned>>

-----------------------------------------------------------------------------
(* Teardown and the writer task *)

\* deregister under the registry lock (remove_locked): the record under the
\* session's id is removed, whichever connection it belongs to by now.
Deregister(c) ==
    LET id == session[c] IN
    /\ pc[c] = "teardown"
    /\ IF id # NoIdentity /\ id.peer_id \in Registered(registry)
       THEN /\ Goto(c, "unmirroring")
            /\ registry' = Unregister(registry, {id.peer_id})
            /\ connected' = connected - 1
       ELSE /\ Goto(c, "draining")
            /\ UNCHANGED <<registry, connected>>
    /\ UNCHANGED <<session, pex_active, request, reg_slot, writer, stale, pex,
                   open_connections, conns_per_ip, regs_per_ip, pruned>>

\* deregister's mirror into PEX; then pex_tx and out_tx are dropped.
DeregisterMirror(c) ==
    /\ pc[c] = "unmirroring"
    /\ Goto(c, "draining")
    /\ pex' = OnUnregister(pex, session[c].peer_id, session[c].network_id)
    /\ UNCHANGED <<session, pex_active, request, reg_slot, writer, stale,
                   registry, counters, pruned>>

\* Every sender of the RLY channel is gone: the writer's loop ends.  A clone
\* in a fan-out list only delays this and is not modelled.
WriterDrained(c) ==
    /\ pc[c] = "draining"
    /\ writer[c] = "running"
    /\ ~SenderInRegistry(c)
    /\ writer' = [writer EXCEPT ![c] = "exited"]
    /\ UNCHANGED <<pc, session, pex_active, request, reg_slot, stale,
                   registry, pex, counters, pruned>>

\* A write fails: the writer exits, its connection's reader may go on.
WriterFails(c) ==
    /\ pc[c] \in Upgraded
    /\ writer[c] \in {"running", "stalled"}
    /\ writer' = [writer EXCEPT ![c] = "exited"]
    /\ UNCHANGED <<pc, session, pex_active, request, reg_slot, stale,
                   registry, pex, counters, pruned>>

\* The peer stops, or resumes, reading its socket: write.send is pending.
WriterStalls(c) ==
    /\ pc[c] \in Upgraded
    /\ \/ writer[c] = "running" /\ writer' = [writer EXCEPT ![c] = "stalled"]
       \/ writer[c] = "stalled" /\ writer' = [writer EXCEPT ![c] = "running"]
    /\ UNCHANGED <<pc, session, pex_active, request, reg_slot, stale,
                   registry, pex, counters, pruned>>

\* Mutant: the task ends without waiting for its writer.
FinishWithoutWriter(c) ==
    /\ pc[c] = "draining"
    /\ Goto(c, "closed")
    /\ DropSlots(c)
    /\ session' = [session EXCEPT ![c] = NoIdentity]
    /\ pex_active' = pex_active \ {c}
    /\ stale' = stale \ {c}
    /\ UNCHANGED <<request, writer, registry, pex, connected, pruned>>

\* writer.await returns and the task's locals are dropped.
Finish(c) ==
    /\ pc[c] = "draining"
    /\ writer[c] = "exited"
    /\ Goto(c, "closed")
    /\ DropSlots(c)
    /\ session' = [session EXCEPT ![c] = NoIdentity]
    /\ pex_active' = pex_active \ {c}
    /\ stale' = stale \ {c}
    /\ UNCHANGED <<request, writer, registry, pex, connected, pruned>>

-----------------------------------------------------------------------------
(* The liveness clock and the health sweep *)

\* liveness_deadline passes with no inbound frame on c.
GoStale(c) ==
    /\ pc[c] \in Upgraded
    /\ c \notin stale
    /\ stale' = stale \cup {c}
    /\ UNCHANGED <<pc, session, pex_active, request, reg_slot, writer,
                   registry, pex, counters, pruned>>

\* sweep_once under the registry lock.  One task runs the sweep, so a pass
\* starts only after the previous one has mirrored all its victims.
SweepOnce ==
    LET victims == DeadOrStale(registry, Closed, stale) IN
    /\ pruned = {}
    /\ victims # {}
    /\ registry' = Unregister(registry, victims)
    /\ connected' = connected - Cardinality(victims)
    /\ pruned' = {[peer_id |-> p, network_id |-> registry[p].network_id] : p \in victims}
    /\ UNCHANGED <<pc, session, pex_active, request, reg_slot, writer, stale, pex,
                   open_connections, conns_per_ip, regs_per_ip>>

\* sweep_once after the lock: one victim is mirrored into PEX.
SweepMirror(id) ==
    /\ id \in pruned
    /\ pruned' = pruned \ {id}
    /\ pex' = OnUnregister(pex, id.peer_id, id.network_id)
    /\ UNCHANGED <<pc, session, pex_active, request, reg_slot, writer, stale,
                   registry, counters>>

-----------------------------------------------------------------------------

\* Steps of the relay's own tasks, which the runtime schedules.
TaskStep(c) ==
    \/ CheckOpenCap(c) \/ AcquireOpen(c) \/ AcquireConn(c)
    \/ RegisterPeer(c) \/ RegisterRefused(c) \/ RegisterMirror(c)
    \/ Deregister(c) \/ DeregisterMirror(c) \/ WriterDrained(c) \/ Finish(c)

\* Steps of the client behind c, of its network, or of the clock.
ClientStep(c) ==
    \/ Accept(c) \/ RefuseAtAccept(c) \/ Upgrade(c) \/ NotARelayPeer(c)
    \/ Frame(c) \/ LastFrame(c) \/ StreamEnds(c) \/ ReadTimeout(c)
    \/ \E id \in Identity : RegisterFrame(c, id)
    \/ \E muted \in BOOLEAN : PexHandshake(c, muted)
    \/ WriterFails(c) \/ WriterStalls(c) \/ GoStale(c)

SweepStep == SweepOnce \/ \E id \in pruned : SweepMirror(id)

\* Every connection of the instance has come and gone.
Quiet ==
    /\ \A c \in Conns : pc[c] = "closed"
    /\ pruned = {} /\ Registered(registry) = {}
    /\ UNCHANGED vars

Next ==
    \/ \E c \in Conns : TaskStep(c) \/ ClientStep(c)
    \/ SweepStep
    \/ Quiet

Spec == Init /\ [][Next]_vars

(***************************************************************************)
(* Fairness.  The runtime polls every runnable task and both mutexes are   *)
(* FIFO, so a task that can take its next step eventually takes it; the    *)
(* sweep's interval keeps ticking; and a connection whose task no longer   *)
(* reads is never stamped again, so it becomes stale.  Nothing is assumed  *)
(* of clients: none has to send, read, answer or close.                    *)
(***************************************************************************)
Fairness ==
    /\ \A c \in Conns : WF_vars(TaskStep(c))
    /\ \A c \in Conns : WF_vars(pc[c] = "draining" /\ GoStale(c))
    /\ WF_vars(SweepStep)

FairSpec == Spec /\ Fairness

-----------------------------------------------------------------------------
(* Type correctness *)

\* What the tasks hold has the type its Rust declaration gives it.
StateTypeOK ==
    /\ pc \in [Conns -> PcStates]
    /\ session \in [Conns -> Identity \cup {NoIdentity}]
    /\ pex_active \in SUBSET Conns
    /\ request \in [Conns -> Identity \cup {NoIdentity}]
    /\ reg_slot \in SUBSET Conns
    /\ writer \in [Conns -> {"none", "running", "stalled", "exited"}]
    /\ stale \in SUBSET Conns
    /\ registry \in RegistryType
    /\ pex \in PexType
    /\ pruned \in SUBSET Identity

\* Every variable has its type; in particular no fetch_sub and no slot drop
\* takes one of the unsigned counters below zero.
TypeOK ==
    /\ StateTypeOK
    /\ connected \in Nat
    /\ open_connections \in Nat
    /\ conns_per_ip \in [Ips -> Nat]
    /\ regs_per_ip \in [Ips -> Nat]

-----------------------------------------------------------------------------
(* Safety *)

\* The `connected` counter, which health and the dashboard report, equals the
\* number of records after every register, reclaim, deregister and sweep.
ConnectedMatchesRegistry == connected = RegistryLen(registry)

\* No path of handle_connection leaks or double-frees a slot: each counter
\* equals the number of tasks that hold the corresponding guard.  A task
\* inside register_peer holds the new slot beside the old one.
From(i) == {c \in Conns : Source[c] = i}
OpenHolders == {c \in Conns : pc[c] \in HoldsOpen}
ConnHolders(i) == {c \in From(i) : pc[c] \in HoldsConn}
RegHolders(i) == From(i) \cap reg_slot
NewRegHolders(i) == {c \in From(i) : pc[c] \in HoldsNewReg}

SlotsBalance ==
    /\ open_connections = Cardinality(OpenHolders)
    /\ \A i \in Ips :
        /\ MaxConnectionsPerIp # 0 =>
             conns_per_ip[i] = Cardinality(ConnHolders(i))
        /\ MaxRegistrationsPerIp # 0 =>
             regs_per_ip[i] = Cardinality(RegHolders(i)) + Cardinality(NewRegHolders(i))

\* The registry never outgrows max_connections and no source holds more
\* slots than its caps, however the checks and the increments interleave.
CapsHold ==
    /\ RegistryLen(registry) <= MaxConnections
    /\ \A i \in Ips :
        /\ MaxConnectionsPerIp # 0 => conns_per_ip[i] <= MaxConnectionsPerIp
        /\ MaxRegistrationsPerIp # 0 => regs_per_ip[i] <= MaxRegistrationsPerIp

\* An id is never locked out by a connection that is gone: a record whose
\* channel is open belongs to a task that has not finished, so `register`
\* answers Occupied only on behalf of a task that exists.
NoLockout ==
    \A p \in Registered(registry) :
        registry[p].tx \notin Closed => pc[registry[p].tx] \in Upgraded

\* A record is only ever owned by a task whose teardown will look for a
\* record: deregister's early return on an unregistered session forgets none.
\* What a finished task leaves behind is dead, so the sweep collects it.
OwnersAreSessions ==
    \A p \in Registered(registry) :
        LET c == registry[p].tx IN
        \/ session[c] # NoIdentity
        \/ pc[c] = "mirroring" /\ request[c].peer_id = p
        \/ pc[c] = "closed" /\ c \in Closed

\* A peer subscribed to PEX deltas is itself advertised in that network, and
\* a retained PEX sender always belongs to an advertised peer: on_unregister
\* and the handshake leave no half-removed peer in the mirror.
PexIsCoherent ==
    /\ \A n \in Networks : pex.links[n] \subseteq pex.known[n]
    /\ \A p \in Peers :
        pex.conns[p] # NoConn => \E n \in Networks : p \in pex.known[n]

\* On the mTLS listener whatever the relay keeps under an id (the record, the
\* session, the PEX sender) belongs to a connection that proved that id.
ProvenIdentity ==
    /\ \A p \in Registered(registry) : Verified[registry[p].tx] \in {AnyPeer, p}
    /\ \A c \in Conns :
        session[c] # NoIdentity => Verified[c] \in {AnyPeer, session[c].peer_id}
    /\ \A p \in Peers :
        pex.conns[p] # NoConn => Verified[pex.conns[p]] \in {AnyPeer, p}

\* The live registrations of one source never exceed
\* max_registrations_per_ip.
RegistrationsOf(i) == {p \in Registered(registry) : registry[p].tx \in From(i)}
RegistrationsWithinCap ==
    MaxRegistrationsPerIp # 0 =>
        \A i \in Ips : Cardinality(RegistrationsOf(i)) <= MaxRegistrationsPerIp

\* The anti-hijack rule: an id passes from one connection to another in one
\* step only when the old connection's channel is closed.
NoHijack ==
    [][\A p \in Registered(registry) :
          registry'[p] \in {Vacant, registry[p]} \/ registry[p].tx \in Closed]_vars
-----------------------------------------------------------------------------
(* Liveness, under FairSpec *)

\* A connection that leaves its loop gives its slots back, unless its peer
\* has stopped reading and the writer hangs in a write.
TeardownCompletes ==
    \A c \in Conns :
        pc[c] = "teardown" ~> (pc[c] = "closed" \/ writer[c] = "stalled")

\* A record whose channel has closed does not stay in the registry.
DeadRecordsGo ==
    \A p \in Peers, c \in Conns :
        (p \in Registered(registry) /\ registry[p].tx = c /\ c \in Closed)
            ~> ~(p \in Registered(registry) /\ registry[p].tx = c)

-----------------------------------------------------------------------------
(* What the documentation says and the code does not do *)

\* "the live peer keeps its slot and its rendezvous" (registry.rs): the
\* record of a connection that is reading, open and not stale stays put.
LiveIncumbentKeepsSlot ==
    [][\A p \in Registered(registry) :
          LET c == registry[p].tx IN
          pc[c] = "reading" /\ c \notin Closed \cup stale => registry'[p] = registry[p]]_vars

\* No registry change is waiting to be mirrored into PEX.
MirrorSettled ==
    /\ pruned = {}
    /\ \A c \in Conns : pc[c] \notin {"mirroring", "unmirroring"}

\* "The relay's advertise set is therefore exactly its live registrations,
\* nothing more" (DESIGN.md): once every change has been mirrored, a network's
\* engine advertises the peers registered in that network.
AdvertisedAreRegistrations ==
    MirrorSettled =>
        \A n \in Networks :
            pex.known[n] = {p \in Registered(registry) : registry[p].network_id = n}
=============================================================================
