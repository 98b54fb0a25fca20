------------------------------ MODULE Traffic -------------------------------
(***************************************************************************)
(* What the relay delivers, to whom and in what order (dispatch,           *)
(* forward_to, broadcast and the RLY-005 announcements of src/server.rs).  *)
(*                                                                         *)
(* A connection task handles one frame at a time.  It reads or changes the *)
(* registry under the lock and lets go of it; the messages that follow     *)
(* from that go out afterwards, one try_send at a time, between the steps  *)
(* of the other tasks: `sends` holds what a task has still to send.  Every *)
(* connection has a bounded queue and a writer that takes messages off it. *)
(* Admission (rates, caps, bans, identity) is Relay.tla's and              *)
(* AbusePolicy.tla's subject: here it may refuse any registration.         *)
(***************************************************************************)
EXTENDS Registry, Integers, Sequences, Functions

CONSTANTS
    QueueCap,   \* outbound_queue_capacity
    MaxFrames   \* connection -> bound on the frames read from it

ASSUME TrafficAssumption == QueueCap \in Nat \ {0} /\ MaxFrames \in [Conns -> Nat]

Sweep == "sweep"
Tasks == Conns \cup {Sweep}

VARIABLES
    registry,   \* the registry
    session,    \* connection -> {} or the set of its one [peer, net]
    pc,         \* connection -> where its task is
    frames,     \* connection -> number of frames read from it
    sends,      \* task -> the messages it has still to send, with their targets
    queue,      \* connection -> its outbound queue
    closed,     \* connections whose writer is gone
    last,       \* history: connection -> source -> last payload its client got
    view,       \* history: connection -> {} or its client's {view of the network}
    held,       \* history: connection -> every [peer, net] it registered
    lossless    \* history: no message has been dropped so far

vars == <<registry, session, pc, frames, sends, queue, closed, last, view, held, lossless>>

-----------------------------------------------------------------------------
\* Messages carry, for the properties, the connection and frame they come from.

Reply(kind) == [kind |-> kind]
PeerList(ids) == [kind |-> "peers", peers |-> ids]
Announce(kind, p, n) == [kind |-> kind, peer |-> p, net |-> n]
Payload(kind, from, n, c) ==
    [kind |-> kind, from |-> from, net |-> n, src |-> c, seq |-> frames[c] + 1]

Payloads == {"gossip", "result"}

\* A message to a task's own client, one to several clients, and a list of
\* such sends: nothing is left of it once no message in it has a target.
ToSelf(c, msg) == [to |-> {<<"self", c>>}, msg |-> msg]
ToAll(targets, msg) == [to |-> targets, msg |-> msg]
Outgoing(list) == IF \E k \in DOMAIN list : list[k].to # {} THEN list ELSE <<>>

Init ==
    /\ registry = NewRegistry
    /\ session = [c \in Conns |-> {}]
    /\ pc = [c \in Conns |-> "read"]
    /\ frames = [c \in Conns |-> 0]
    /\ sends = [t \in Tasks |-> <<>>]
    /\ queue = [c \in Conns |-> <<>>]
    /\ closed = {}
    /\ last = [c \in Conns |-> [d \in Conns |-> 0]]
    /\ view = [c \in Conns |-> {}]
    /\ held = [c \in Conns |-> {}]
    /\ lossless = TRUE

\* The reader takes a frame.
Frame(c) ==
    /\ pc[c] = "read" /\ sends[c] = <<>> /\ frames[c] < MaxFrames[c]
    /\ frames' = [frames EXCEPT ![c] = @ + 1]
    /\ UNCHANGED <<queue, closed, last, view, lossless>>

\* register_peer accepts: the record goes in under the lock, the ack and the
\* PeerConnected announcements follow.
Register(c, p, n) ==
    /\ Frame(c)
    /\ RegisterOutcome(registry, closed, p) # "Occupied"
    /\ registry' = Insert(registry, p, n, c)
    /\ sends' = [sends EXCEPT ![c] =
                   Outgoing(<<ToSelf(c, Reply("ack")),
                              ToAll(BroadcastTargets(registry', p, n, {}), Announce("connected", p, n))>>)]
    /\ session' = [session EXCEPT ![c] = {[peer |-> p, net |-> n]}]
    /\ held' = [held EXCEPT ![c] = @ \cup session'[c]]
    /\ UNCHANGED pc

\* register_peer refuses, for an id in use or an admission check: a negative
\* ack, an error, and the loop ends.
RegisterRefused(c) ==
    /\ Frame(c)
    /\ sends' = [sends EXCEPT ![c] = <<ToSelf(c, Reply("nack")), ToSelf(c, Reply("error"))>>]
    /\ pc' = [pc EXCEPT ![c] = "deregister"]
    /\ UNCHANGED <<registry, session, held>>

\* A frame that is answered to its sender alone: a ping, or one that is
\* malformed, out of place or sent before registration.
Answer(c) ==
    /\ Frame(c)
    /\ \E kind \in {"error"} \cup {"pong" : s \in session[c]} :
          sends' = [sends EXCEPT ![c] = <<ToSelf(c, Reply(kind))>>]
    /\ UNCHANGED <<registry, session, pc, held>>

\* get_peers, with the network it asks for or else the session's, if any.
GetPeers(c) ==
    /\ Frame(c)
    /\ \E ns \in {{n} : n \in Networks}
                 \cup {IF session[c] = {} THEN Networks ELSE {s.net : s \in session[c]}} :
          sends' = [sends EXCEPT ![c] = <<ToSelf(c, PeerList(PeersIn(registry, ns)))>>]
    /\ UNCHANGED <<registry, session, pc, held>>

\* Mutant: the sender is who the frame says it is.
StampClaimed(s, claimed) == claimed

\* dispatch: the sender is the session's id, whatever the frame claims.
Stamp(s, claimed) == s.peer

\* forward_to: gossip and hole-punch requests carry the sender's id, a
\* hole-punch result only the id it is addressed to.
Forward(c, to, claimed) ==
    /\ Frame(c)
    /\ \E s \in session[c], kind \in {"gossip", "result"} :
         LET found == SenderInNetwork(registry, to, s.net)
             msg == Payload(kind, IF kind = "gossip" THEN Stamp(s, claimed) ELSE to, s.net, c)
         IN  sends' = [sends EXCEPT ![c] =
                         IF found # {} THEN <<ToAll({<<to, d>> : d \in found}, msg)>>
                         ELSE <<ToSelf(c, Reply("error"))>>]
    /\ UNCHANGED <<registry, session, pc, held>>

\* broadcast
Broadcast(c, exclude, claimed) ==
    /\ Frame(c)
    /\ \E s \in session[c] :
         LET from == Stamp(s, claimed)
         IN  sends' = [sends EXCEPT ![c] =
                         Outgoing(<<ToAll(BroadcastTargets(registry, from, s.net, exclude),
                                          Payload("gossip", from, s.net, c))>>)]
    /\ UNCHANGED <<registry, session, pc, held>>

\* The message of a list that its task is at: those before it are sent.
IsNext(list, k) == \A j \in DOMAIN list : j < k => list[j].to = {}

\* What is left to send after one target of it has been dealt with.
Sent(list, k, target) == Outgoing([list EXCEPT ![k].to = @ \ {target}])

\* Mutant: the queue takes whatever comes.
RoomAlways(q) == TRUE

\* The bounded channel takes a message only while it has room.
Room(q) == Len(q) < QueueCap

\* One try_send of a task: to any target left of the message it is at, in the
\* order the registry's hash map happens to give them.
TrySend(t) ==
    /\ \E k \in DOMAIN sends[t] : IsNext(sends[t], k) /\ \E target \in sends[t][k].to :
         LET d == target[2]
             taken == d \notin closed /\ Room(queue[d])
         IN  /\ queue' = IF taken THEN [queue EXCEPT ![d] = Append(@, sends[t][k].msg)] ELSE queue
             /\ lossless' = (lossless /\ taken)
             /\ sends' = [sends EXCEPT ![t] = Sent(sends[t], k, target)]
    /\ UNCHANGED <<registry, session, pc, frames, closed, last, view, held>>

\* The reader leaves its loop: unregister, a closed socket, an error, a timeout.
Leave(c) ==
    /\ pc[c] = "read" /\ sends[c] = <<>>
    /\ pc' = [pc EXCEPT ![c] = "deregister"]
    /\ UNCHANGED <<registry, session, frames, sends, queue, closed, last, view, held, lossless>>

\* deregister: the record under the session's id goes, whoever put it there,
\* and the session's network is told.
Deregister(c) ==
    /\ pc[c] = "deregister" /\ sends[c] = <<>>
    /\ pc' = [pc EXCEPT ![c] = "drain"]
    /\ \/ /\ \A s \in session[c] : registry[s.peer] = Vacant
          /\ UNCHANGED <<registry, sends>>
       \/ \E s \in session[c] :
            /\ registry[s.peer] # Vacant
            /\ registry' = Unregister(registry, {s.peer})
            /\ sends' = [sends EXCEPT ![c] =
                 Outgoing(<<ToAll(BroadcastTargets(registry', s.peer, s.net, {}),
                                  Announce("disconnected", s.peer, s.net))>>)]
    /\ UNCHANGED <<session, frames, queue, closed, last, view, held, lossless>>

\* sweep_once: every record whose writer is gone, or whose client has been
\* silent past the deadline (any may have been: time is not kept), goes under
\* one lock, in some order; the announcements follow, victim by victim.
SweepOnce(silent) ==
    LET victims == DeadOrStale(registry, closed, silent)
    IN  /\ sends[Sweep] = <<>> /\ victims # {}
        /\ registry' = Unregister(registry, victims)
        /\ \E order \in Bijection(1..Cardinality(victims), victims) :
             sends' = [sends EXCEPT ![Sweep] = Outgoing([k \in DOMAIN order |->
                         LET p == order[k]
                             n == registry[p].network_id
                             left == Unregister(registry, {order[j] : j \in 1..k})
                         IN  ToAll(BroadcastTargets(left, p, n, {}), Announce("disconnected", p, n))])]
        /\ UNCHANGED <<session, pc, frames, queue, closed, last, view, held, lossless>>

\* What a client makes of a message: a list replaces its view of the network,
\* an announcement changes the view it has.
ViewAfter(v, m) ==
    CASE m.kind = "peers" -> {m.peers}
      [] m.kind = "connected" -> {ids \cup {m.peer} : ids \in v}
      [] m.kind = "disconnected" -> {ids \ {m.peer} : ids \in v}
      [] m.kind = "ack" -> {}
      [] OTHER -> v

\* Mutant: the writer takes the newest message first.
NextOutNewest(q) == [msg |-> q[Len(q)], rest |-> SubSeq(q, 1, Len(q) - 1)]

\* The receiving end of the channel.
NextOut(q) == [msg |-> Head(q), rest |-> Tail(q)]

\* The writer writes one message to the socket.
Write(c) ==
    /\ c \notin closed /\ queue[c] # <<>>
    /\ LET m == NextOut(queue[c]).msg
       IN  /\ view' = [view EXCEPT ![c] = ViewAfter(@, m)]
           /\ last' = IF m.kind \in Payloads THEN [last EXCEPT ![c][m.src] = m.seq] ELSE last
    /\ queue' = [queue EXCEPT ![c] = NextOut(queue[c]).rest]
    /\ UNCHANGED <<registry, session, pc, frames, sends, closed, held, lossless>>

\* Whether anyone but c's own task holds a sender to c.
SenderHeld(c) ==
    \/ \E p \in Registered(registry) : registry[p].tx = c
    \/ \E t \in Tasks : \E k \in DOMAIN sends[t] : \E target \in sends[t][k].to : target[2] = c

\* The writer ends: on a write that fails, or when the queue is empty and every
\* sender is gone.
WriterEnds(c) ==
    /\ c \notin closed
    /\ \/ queue[c] # <<>>
       \/ pc[c] = "drain" /\ sends[c] = <<>> /\ ~SenderHeld(c)
    /\ closed' = closed \cup {c}
    /\ queue' = [queue EXCEPT ![c] = <<>>]
    /\ lossless' = (lossless /\ queue[c] = <<>>)
    /\ UNCHANGED <<registry, session, pc, frames, sends, last, view, held>>

\* Every connection has ended and left nothing behind: the relay waits for more.
AllEnded ==
    /\ closed = Conns /\ Registered(registry) = {}
    /\ \A c \in Conns : pc[c] = "drain" /\ sends[c] = <<>>
    /\ UNCHANGED vars

Next ==
    \/ \E c \in Conns :
          \/ \E p \in Peers, n \in Networks : Register(c, p, n)
          \/ RegisterRefused(c) \/ Answer(c) \/ GetPeers(c)
          \/ \E to \in Peers, claimed \in Peers : Forward(c, to, claimed)
          \/ \E exclude \in SUBSET Peers, claimed \in Peers : Broadcast(c, exclude, claimed)
          \/ Leave(c) \/ Deregister(c) \/ Write(c) \/ WriterEnds(c)
    \/ \E t \in Tasks : TrySend(t)
    \/ \E silent \in SUBSET Conns : SweepOnce(silent)
    \/ AllEnded

Spec == Init /\ [][Next]_vars

-----------------------------------------------------------------------------

Messages ==
    [kind : {"ack", "nack", "error", "pong"}]
    \cup [kind : {"peers"}, peers : SUBSET Peers]
    \cup [kind : {"connected", "disconnected"}, peer : Peers, net : Networks]
    \cup [kind : {"gossip", "result"}, from : Peers, net : Networks, src : Conns, seq : Nat]

\* The state has its type; no queue outgrows outbound_queue_capacity, however
\* slow its reader.
TrafficTypeOK ==
    /\ registry \in RegistryType
    /\ \A c \in Conns :
         /\ session[c] \subseteq held[c] /\ \A r, s \in session[c] : r = s
         /\ held[c] \subseteq [peer : Peers, net : Networks]
         /\ pc[c] \in {"read", "deregister", "drain"}
         /\ frames[c] \in 0..MaxFrames[c]
         /\ Len(queue[c]) <= QueueCap
         /\ Range(queue[c]) \subseteq Messages
         /\ last[c] \in [Conns -> Nat] /\ view[c] \subseteq SUBSET Peers
    /\ \A t \in Tasks :
         /\ \A k \in DOMAIN sends[t] : sends[t][k].msg \in Messages
         /\ sends[t] # <<>> => \E k \in DOMAIN sends[t] : sends[t][k].to # {}
    /\ closed \subseteq Conns /\ lossless \in BOOLEAN

\* A payload or an announcement is queued for a client only if that client
\* has been registered on the network it belongs to, however registrations,
\* prunings and the sends that lag behind them interleave.
NetworkIsolation ==
    \A c \in Conns : \A m \in Range(queue[c]) :
        m.kind \in Payloads \cup {"connected", "disconnected"} =>
            \E h \in held[c] : h.net = m.net

\* The sender a queued payload names is an id its own connection registered,
\* on the network it was sent to: never one the frame claimed.
AuthenticSender ==
    \A c \in Conns : \A m \in Range(queue[c]) :
        m.kind = "gossip" => [peer |-> m.from, net |-> m.net] \in held[m.src]

\* A payload d sent; and two of them in the order a receiver c may get them.
SentBy(m, d) == m.kind \in Payloads /\ m.src = d
Reregistered(c) == \E g, h \in held[c] : g # h
InOrder(c, first, second) == first < second \/ (first = second /\ Reregistered(c))

\* One client's payloads reach another in the order they were sent; and only
\* once, unless the receiver has registered more than once.
OrderedDelivery ==
    \A c, d \in Conns :
        LET from == {k \in DOMAIN queue[c] : SentBy(queue[c][k], d)}
        IN  /\ \A k \in from : InOrder(c, last[c][d], queue[c][k].seq)
            /\ \A j, k \in from : j < k => InOrder(c, queue[c][j].seq, queue[c][k].seq)

\* Everything sent has been delivered, and nothing was dropped on the way.
Settled == lossless /\ (\A t \in Tasks : sends[t] = <<>>) /\ \A c \in Conns : queue[c] = <<>>

\* Once everything is delivered, a client that asked for the list while
\* registered knows its network: the announcements keep its view fresh
\* (DESIGN.md: "so its view stays fresh without polling").
ViewStaysFresh ==
    Settled => \A c \in Conns : \A s \in session[c], ids \in view[c] :
        registry[s.peer] = [network_id |-> s.net, tx |-> c] /\ Cardinality(held[c]) = 1
        => ids \ {s.peer} = PeersIn(registry, {s.net}) \ {s.peer}
=============================================================================
