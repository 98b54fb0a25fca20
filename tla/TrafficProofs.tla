---------------------------- MODULE TrafficProofs ----------------------------
(***************************************************************************)
(* Proofs about Traffic: bounded queues, isolation of the networks,        *)
(* authentic senders and the order of delivery, for any connections, ids   *)
(* and networks, any queue capacity and any number of frames.              *)
(***************************************************************************)
EXTENDS Traffic, FiniteSetTheorems, TLAPS

-----------------------------------------------------------------------------
(* The inductive invariant *)

Identities == [peer : Peers, net : Networks]
Targets == (Peers \cup {"self"}) \X Conns
Sends == [to : SUBSET Targets, msg : Messages]

StateType ==
    /\ registry \in RegistryType
    /\ session \in [Conns -> SUBSET Identities]
    /\ pc \in [Conns -> {"read", "deregister", "drain"}]
    /\ frames \in [Conns -> Nat]
    /\ sends \in [Tasks -> Seq(Sends)]
    /\ queue \in [Conns -> Seq(Messages)]
    /\ closed \in SUBSET Conns
    /\ last \in [Conns -> [Conns -> Nat]]
    /\ view \in [Conns -> SUBSET SUBSET Peers]
    /\ held \in [Conns -> SUBSET Identities]
    /\ lossless \in BOOLEAN

\* A session is one of the identities its connection has held, a record too;
\* there are finitely many records, however many ids there are.
HeldInv ==
    /\ IsFiniteSet(Registered(registry))
    /\ \A c \in Conns : session[c] \subseteq held[c] /\ \A r, s \in session[c] : r = s
    /\ \A p \in Registered(registry) :
          [peer |-> p, net |-> registry[p].network_id] \in held[registry[p].tx]

\* The bounds: on a queue, and on the frames.  A list of sends is not spent.
Bounds ==
    /\ \A c \in Conns : Len(queue[c]) <= QueueCap /\ frames[c] <= MaxFrames[c]
    /\ \A t \in Tasks : sends[t] # <<>> => \E k \in DOMAIN sends[t] : sends[t][k].to # {}

\* What is true of a message wherever it is, of the frames f read and the
\* identities h held so far.
Sound(f, h, m) ==
    /\ m.kind \in Payloads => m.seq <= f[m.src]
    /\ m.kind = "gossip" => [peer |-> m.from, net |-> m.net] \in h[m.src]

Scoped == Payloads \cup {"connected", "disconnected"}

\* A target of a scoped message has held the id it is addressed by.
Addressee(h, m, target) ==
    m.kind \in Scoped => [peer |-> target[1], net |-> m.net] \in h[target[2]]

\* A payload on its way out is the only message of its task, which reads no
\* frame meanwhile.
GoodSend(f, h, t, list, k) ==
    /\ Sound(f, h, list[k].msg)
    /\ \A target \in list[k].to : Addressee(h, list[k].msg, target)
    /\ list[k].msg.kind \in Payloads =>
         t \in Conns /\ list[k].msg.src = t /\ list[k].msg.seq = f[t] /\ Len(list) = 1

SendsInv == \A t \in Tasks : \A k \in 1..Len(sends[t]) : GoodSend(frames, held, t, sends[t], k)

QueueInv ==
    \A c \in Conns : \A k \in 1..Len(queue[c]) :
        /\ Sound(frames, held, queue[c][k])
        /\ queue[c][k].kind \in Scoped => \E h \in held[c] : h.net = queue[c][k].net

LastInv == \A c, d \in Conns : last[c][d] <= frames[d]

\* What d has sent c so far is older than n, or c has registered again.
Older(c, d, n) ==
    \/ Reregistered(c)
    \/ /\ last[c][d] < n
       /\ \A k \in 1..Len(queue[c]) : SentBy(queue[c][k], d) => queue[c][k].seq < n

\* A payload has not been delivered to a target it is still to be sent to.
FreshInv ==
    \A t \in Conns : \A k \in 1..Len(sends[t]) : sends[t][k].msg.kind \in Payloads =>
        \A target \in sends[t][k].to : Older(target[2], t, frames[t])

OrderInv ==
    \A c, d \in Conns :
        /\ \A k \in 1..Len(queue[c]) : SentBy(queue[c][k], d) =>
              InOrder(c, last[c][d], queue[c][k].seq)
        /\ \A j, k \in 1..Len(queue[c]) :
              SentBy(queue[c][j], d) /\ SentBy(queue[c][k], d) /\ j < k =>
                  InOrder(c, queue[c][j].seq, queue[c][k].seq)

Delivery == SendsInv /\ QueueInv /\ LastInv /\ FreshInv /\ OrderInv

TInv == StateType /\ HeldInv /\ Bounds /\ Delivery

-----------------------------------------------------------------------------
(* Messages and lists *)

\* The fields a message has, by its kind.
LEMMA MessageFields ==
    ASSUME NEW m \in Messages
    PROVE  /\ m.kind \in Payloads =>
                m.from \in Peers /\ m.net \in Networks /\ m.src \in Conns /\ m.seq \in Nat
           /\ m.kind = "peers" => m.peers \in SUBSET Peers
           /\ m.kind \in {"connected", "disconnected"} => m.peer \in Peers /\ m.net \in Networks
BY DEF Messages, Payloads

\* Answers, peer lists and announcements are messages.
LEMMA MessageTypes ==
    /\ \A kind \in {"ack", "nack", "error", "pong"} : Reply(kind) \in Messages
    /\ \A ids \in SUBSET Peers : PeerList(ids) \in Messages
    /\ \A kind \in {"connected", "disconnected"}, p \in Peers, n \in Networks :
          Announce(kind, p, n) \in Messages
<1>1. \A kind \in {"ack", "nack", "error", "pong"} : Reply(kind) \in Messages
  BY DEF Reply, Messages
<1>2. \A ids \in SUBSET Peers : PeerList(ids) \in Messages
  BY DEF PeerList, Messages
<1>3. \A kind \in {"connected", "disconnected"}, p \in Peers, n \in Networks :
          Announce(kind, p, n) \in Messages
  BY DEF Announce, Messages
<1> QED  BY <1>1, <1>2, <1>3

\* A payload is stamped with its sender, network, connection and frame.
LEMMA PayloadFacts ==
    ASSUME frames \in [Conns -> Nat],
           NEW kind \in Payloads, NEW from \in Peers, NEW n \in Networks, NEW c \in Conns
    PROVE  /\ Payload(kind, from, n, c) \in Messages
           /\ Payload(kind, from, n, c).kind = kind
           /\ Payload(kind, from, n, c).from = from
           /\ Payload(kind, from, n, c).net = n
           /\ Payload(kind, from, n, c).src = c
           /\ Payload(kind, from, n, c).seq = frames[c] + 1
<1>1. frames[c] + 1 \in Nat
  OBVIOUS
<1> QED  BY <1>1 DEF Payload, Messages, Payloads

\* What is left of a list after a send: the same messages, one target fewer.
OneFewer(list, k, target, new) ==
    /\ new \in Seq(Sends)
    /\ new # <<>> => Len(new) = Len(list) /\ \E j \in DOMAIN new : new[j].to # {}
    /\ \A j \in 1..Len(new) :
         /\ j \in 1..Len(list) /\ new[j].msg = list[j].msg
         /\ new[j].to = IF j = k THEN list[k].to \ {target} ELSE list[j].to

\* After a try_send the target, and only it, is gone from the list.
LEMMA SentFacts ==
    ASSUME NEW list \in Seq(Sends), NEW k \in 1..Len(list), NEW target
    PROVE  OneFewer(list, k, target, Sent(list, k, target))
<1> DEFINE cut == [list EXCEPT ![k].to = @ \ {target}]
<1>1. list[k] \in Sends /\ \A j \in 1..Len(list) : list[j] \in Sends
  OBVIOUS
<1>2. [list[k] EXCEPT !.to = @ \ {target}] \in Sends
  BY <1>1 DEF Sends
<1>3. cut \in Seq(Sends) /\ Len(cut) = Len(list) /\ DOMAIN cut = 1..Len(list)
  BY <1>2
<1>4. \A j \in 1..Len(list) : j # k => cut[j] = list[j]
  OBVIOUS
<1>5. cut[k].msg = list[k].msg /\ cut[k].to = list[k].to \ {target}
  BY <1>1 DEF Sends
<1>6. Sent(list, k, target) = IF \E j \in DOMAIN cut : cut[j].to # {} THEN cut ELSE <<>>
  BY Zenon DEF Sent, Outgoing
<1> HIDE DEF cut
<1>7. CASE \E j \in DOMAIN cut : cut[j].to # {}
  BY <1>3, <1>4, <1>5, <1>6, <1>7, Zenon DEF OneFewer
<1>8. CASE ~\E j \in DOMAIN cut : cut[j].to # {}
  BY <1>6, <1>8 DEF OneFewer
<1> QED  BY <1>7, <1>8

\* The clients a broadcast or an announcement goes to have held the ids they
\* are found under.
LEMMA TargetsHeld ==
    ASSUME NEW reg \in RegistryType, NEW h, NEW from, NEW n, NEW exclude,
           \A p \in Registered(reg) :
              [peer |-> p, net |-> reg[p].network_id] \in h[reg[p].tx]
    PROVE  \A target \in BroadcastTargets(reg, from, n, exclude) :
              target \in Targets /\ [peer |-> target[1], net |-> n] \in h[target[2]]
<1> SUFFICES ASSUME NEW p \in Registered(reg), reg[p].network_id = n
             PROVE  <<p, reg[p].tx>> \in Targets /\ [peer |-> p, net |-> n] \in h[reg[p].tx]
  BY DEF BroadcastTargets, PeersIn
<1>1. p \in Peers /\ reg[p] \in Peer
  BY DEF Registered, RegistryType
<1> QED  BY <1>1 DEF Targets, Peer

\* The inductive invariant holds of an empty relay.
LEMMA TInvInit == Init => TInv
<1> SUFFICES ASSUME Init PROVE TInv
  OBVIOUS
<1>1. Registered(registry) = {}
  BY DEF Init, Registered, NewRegistry
<1>2. StateType
  BY DEF Init, StateType, RegistryType, NewRegistry
<1>3. HeldInv
  BY <1>1, FS_EmptySet DEF Init, HeldInv
<1>4. Bounds
  BY TrafficAssumption DEF Init, Bounds
<1>5. Delivery
  <2>1. /\ \A t \in Tasks : sends[t] = <<>>
        /\ \A c \in Conns : sends[c] = <<>> /\ queue[c] = <<>>
        /\ \A c, d \in Conns : last[c][d] = 0 /\ frames[d] = 0
    BY DEF Init, Tasks
  <2> QED  BY <2>1 DEF Delivery, SendsInv, QueueInv, LastInv, FreshInv, OrderInv
<1> QED  BY <1>2, <1>3, <1>4, <1>5 DEF TInv

\* A step that changes nothing, or only where tasks are.
LEMMA QuietStep ==
    ASSUME TInv,
           UNCHANGED <<registry, session, frames, sends, queue, closed, last, view, held, lossless>>,
           pc' \in [Conns -> {"read", "deregister", "drain"}]
    PROVE  TInv'
<1>1. StateType'
  BY DEF TInv, StateType
<1>2. HeldInv'
  BY DEF TInv, HeldInv, Registered
<1>3. Bounds'
  BY DEF TInv, Bounds
<1>4. SendsInv' /\ QueueInv' /\ LastInv'
  BY DEF TInv, Delivery, SendsInv, QueueInv, LastInv
<1>5. FreshInv'
  BY DEF TInv, Delivery, FreshInv, Older, Reregistered
<1>6. OrderInv'
  BY DEF TInv, Delivery, OrderInv, InOrder, Reregistered
<1> QED  BY <1>1, <1>2, <1>3, <1>4, <1>5, <1>6 DEF TInv, Delivery

-----------------------------------------------------------------------------
(* Steps that give a task a new list to send *)

\* Neither the frames read nor the identities held ever shrink.
Grow == \A c \in Conns : frames[c] <= frames'[c] /\ held[c] \subseteq held'[c]

\* A message stays sound as frames are read and identities gained.
LEMMA SoundStays ==
    ASSUME NEW f \in [Conns -> Nat], NEW f2 \in [Conns -> Nat], NEW h, NEW h2,
           \A c \in Conns : f[c] <= f2[c] /\ h[c] \subseteq h2[c],
           NEW m \in Messages, Sound(f, h, m)
    PROVE  Sound(f2, h2, m)
<1>1. m.kind \in Payloads => m.src \in Conns /\ m.seq \in Nat
  BY MessageFields
<1>2. m.kind \in Payloads => m.seq <= f2[m.src]
  BY <1>1 DEF Sound
<1>3. m.kind = "gossip" => [peer |-> m.from, net |-> m.net] \in h2[m.src]
  BY <1>1 DEF Sound, Payloads
<1> QED  BY <1>2, <1>3 DEF Sound

\* A step that sets what task t has to send, and lets the queues alone.
LEMMA SendsSet ==
    ASSUME StateType, StateType', Delivery, Grow,
           NEW t \in Tasks, NEW list \in Seq(Sends),
           sends' = [sends EXCEPT ![t] = list],
           \A c \in Conns : c # t => frames'[c] = frames[c],
           UNCHANGED <<queue, last>>,
           \A k \in 1..Len(list) :
              /\ GoodSend(frames', held', t, list, k)
              /\ list[k].msg.kind \in Payloads => frames'[t] = frames[t] + 1
    PROVE  Delivery'
<1>1. ASSUME NEW c \in Conns, NEW k \in 1..Len(queue[c])
      PROVE  /\ queue[c][k] \in Messages
             /\ Sound(frames', held', queue[c][k])
             /\ SentBy(queue[c][k], t) => queue[c][k].seq <= frames[t]
  <2>1. queue[c][k] \in Messages /\ Sound(frames, held, queue[c][k])
    BY DEF StateType, Delivery, QueueInv
  <2>2. frames \in [Conns -> Nat] /\ frames' \in [Conns -> Nat]
    BY DEF StateType
  <2>3. Sound(frames', held', queue[c][k])
    BY <2>1, <2>2, SoundStays, Zenon DEF Grow
  <2> QED  BY <2>1, <2>3 DEF Sound, SentBy
<1>2. QueueInv'
  <2> SUFFICES ASSUME NEW c \in Conns, NEW k \in 1..Len(queue[c])
               PROVE  /\ Sound(frames', held', queue[c][k])
                      /\ queue[c][k].kind \in Scoped => \E h \in held'[c] : h.net = queue[c][k].net
    BY DEF QueueInv
  <2> QED  BY <1>1 DEF Delivery, QueueInv, Grow
<1>3. LastInv'
  <2> SUFFICES ASSUME NEW c \in Conns, NEW d \in Conns
               PROVE  last[c][d] <= frames'[d]
    BY DEF LastInv
  <2>1. last[c][d] <= frames[d] /\ frames[d] <= frames'[d]
    BY DEF Delivery, LastInv, Grow
  <2>2. last[c][d] \in Nat /\ frames[d] \in Nat /\ frames'[d] \in Nat
    BY DEF StateType
  <2> QED  BY <2>1, <2>2
<1>4. \A c \in Conns : Reregistered(c) => Reregistered(c)'
  BY DEF Reregistered, Grow
<1>5. OrderInv'
  <2> SUFFICES ASSUME NEW c \in Conns, NEW d \in Conns
               PROVE  /\ \A k \in 1..Len(queue[c]) : SentBy(queue[c][k], d) =>
                            InOrder(c, last[c][d], queue[c][k].seq)'
                      /\ \A j, k \in 1..Len(queue[c]) :
                            SentBy(queue[c][j], d) /\ SentBy(queue[c][k], d) /\ j < k =>
                                InOrder(c, queue[c][j].seq, queue[c][k].seq)'
    BY DEF OrderInv, SentBy, InOrder
  <2> QED  BY <1>4 DEF Delivery, OrderInv, InOrder
<1>6. ASSUME NEW u \in Tasks, u # t, NEW k \in 1..Len(sends[u])
      PROVE  GoodSend(frames', held', u, sends[u], k)
  <2>1. GoodSend(frames, held, u, sends[u], k)
    BY DEF Delivery, SendsInv
  <2>2. sends[u][k] \in Sends
    BY DEF StateType
  <2>3. sends[u][k].msg \in Messages /\ sends[u][k].to \subseteq Targets
    BY <2>2 DEF Sends
  <2>4. Sound(frames', held', sends[u][k].msg)
    <3>1. frames \in [Conns -> Nat] /\ frames' \in [Conns -> Nat]
      BY DEF StateType
    <3>2. Sound(frames, held, sends[u][k].msg)
      BY <2>1 DEF GoodSend
    <3> QED  BY <2>3, <3>1, <3>2, SoundStays, Zenon DEF Grow
  <2>5. \A target \in sends[u][k].to : Addressee(held', sends[u][k].msg, target)
    BY <2>1, <2>3, Zenon DEF GoodSend, Addressee, Grow, Targets
  <2> QED  BY <1>6, <2>1, <2>4, <2>5 DEF GoodSend
<1>7. sends'[t] = list /\ \A u \in Tasks : u # t => sends'[u] = sends[u]
  BY DEF StateType
<1>8. SendsInv'
  BY <1>6, <1>7 DEF SendsInv
<1>9. FreshInv'
  <2> SUFFICES ASSUME NEW u \in Conns, NEW k \in 1..Len(sends'[u]),
                      sends'[u][k].msg.kind \in Payloads, NEW target \in sends'[u][k].to
               PROVE  Older(target[2], u, frames[u])'
    BY DEF FreshInv
  <2>1. u \in Tasks /\ target[2] \in Conns
    <3>1. u \in Tasks
      BY DEF Tasks
    <3>2. sends'[u][k] \in Sends
      BY <3>1 DEF StateType
    <3> QED  BY <3>1, <3>2 DEF Sends, Targets
  <2>2. CASE u # t
    <3>1. Older(target[2], u, frames[u])
      BY <1>7, <2>1, <2>2 DEF Delivery, FreshInv
    <3> QED  BY <1>4, <2>1, <2>2, <3>1 DEF Older
  <2>3. CASE u = t
    <3>1. frames'[t] = frames[t] + 1
      BY <1>7, <2>3
    <3>2. last[target[2]][t] <= frames[t]
      BY <2>1, <2>3 DEF Delivery, LastInv
    <3>3. frames[t] \in Nat /\ last[target[2]][t] \in Nat
      BY <2>1, <2>3 DEF StateType
    <3>4. \A j \in 1..Len(queue[target[2]]) : SentBy(queue[target[2]][j], t) =>
             queue[target[2]][j].seq < frames'[t]
      <4> SUFFICES ASSUME NEW j \in 1..Len(queue[target[2]]), SentBy(queue[target[2]][j], t)
                   PROVE  queue[target[2]][j].seq < frames'[t]
        OBVIOUS
      <4>1. queue[target[2]][j] \in Messages /\ queue[target[2]][j].seq <= frames[t]
        BY <1>1, <2>1
      <4>2. queue[target[2]][j].seq \in Nat
        BY <4>1, MessageFields DEF SentBy
      <4> QED  BY <3>1, <3>3, <4>1, <4>2
    <3> QED  BY <2>3, <3>1, <3>2, <3>3, <3>4 DEF Older
  <2> QED  BY <2>2, <2>3
<1> QED  BY <1>2, <1>3, <1>5, <1>8, <1>9 DEF Delivery

\* The same, of the whole invariant.
LEMMA ListStep ==
    ASSUME TInv, Grow, HeldInv',
           NEW t \in Tasks, NEW list \in Seq(Sends),
           sends' = [sends EXCEPT ![t] = list],
           list # <<>> => \E k \in DOMAIN list : list[k].to # {},
           registry' \in RegistryType,
           session' \in [Conns -> SUBSET Identities],
           held' \in [Conns -> SUBSET Identities],
           pc' \in [Conns -> {"read", "deregister", "drain"}],
           frames' \in [Conns -> Nat],
           \A c \in Conns : frames'[c] <= MaxFrames[c] /\ (c # t => frames'[c] = frames[c]),
           UNCHANGED <<queue, closed, last, view, lossless>>,
           \A k \in 1..Len(list) :
              /\ GoodSend(frames', held', t, list, k)
              /\ list[k].msg.kind \in Payloads => frames'[t] = frames[t] + 1
    PROVE  TInv'
<1>1. StateType'
  BY DEF TInv, StateType
<1>2. sends'[t] = list /\ \A u \in Tasks : u # t => sends'[u] = sends[u]
  BY DEF TInv, StateType
<1>3. Bounds'
  <2>1. \A c \in Conns : Len(queue'[c]) <= QueueCap /\ frames'[c] <= MaxFrames[c]
    BY DEF TInv, Bounds
  <2>2. \A u \in Tasks : sends'[u] # <<>> => \E k \in DOMAIN sends'[u] : sends'[u][k].to # {}
    BY <1>2 DEF TInv, Bounds
  <2> QED  BY <2>1, <2>2, Zenon DEF Bounds
<1>4. Delivery'
  BY <1>1, SendsSet, Zenon DEF TInv
<1> QED  BY <1>1, <1>3, <1>4 DEF TInv

\* What a frame does to the count, whatever it is.
LEMMA FrameFacts ==
    ASSUME TInv, NEW c \in Conns, Frame(c)
    PROVE  /\ c \in Tasks
           /\ frames' \in [Conns -> Nat] /\ frames'[c] = frames[c] + 1
           /\ \A d \in Conns : /\ frames[d] <= frames'[d] /\ frames'[d] <= MaxFrames[d]
                               /\ d # c => frames'[d] = frames[d]
           /\ UNCHANGED <<queue, closed, last, view, lossless>>
<1>1. frames \in [Conns -> Nat] /\ \A d \in Conns : frames[d] <= MaxFrames[d]
  BY DEF TInv, StateType, Bounds
<1>2. frames[c] < MaxFrames[c] /\ frames' = [frames EXCEPT ![c] = @ + 1]
  BY DEF Frame
<1>3. MaxFrames \in [Conns -> Nat]
  BY TrafficAssumption
<1>4. c \in Tasks /\ UNCHANGED <<queue, closed, last, view, lossless>>
  BY DEF Frame, Tasks
<1>5. /\ frames' \in [Conns -> Nat] /\ frames'[c] = frames[c] + 1
      /\ \A d \in Conns : d # c => frames'[d] = frames[d]
  BY <1>1, <1>2
<1>6. \A d \in Conns : frames[d] <= frames'[d] /\ frames'[d] <= MaxFrames[d]
  BY <1>1, <1>2, <1>3, <1>5
<1> QED  BY <1>4, <1>5, <1>6

\* A message that belongs to no network is sound anywhere.
LEMMA Unscoped ==
    ASSUME NEW f, NEW h, NEW m, m.kind \notin Scoped
    PROVE  Sound(f, h, m) /\ \A target : Addressee(h, m, target)
BY DEF Sound, Addressee, Scoped, Payloads

\* A frame that is answered to its sender alone.
LEMMA AnswerStep ==
    ASSUME TInv, NEW c \in Conns, Frame(c), NEW list \in Seq(Sends), list # <<>>,
           sends' = [sends EXCEPT ![c] = list],
           \A k \in 1..Len(list) : list[k].msg.kind \notin Scoped /\ list[k].to # {},
           pc' \in [Conns -> {"read", "deregister", "drain"}],
           UNCHANGED <<registry, session, held>>
    PROVE  TInv'
<1>1. Grow /\ HeldInv'
  <2>1. Grow
    BY FrameFacts DEF Grow
  <2>2. HeldInv'
    BY DEF TInv, HeldInv, Registered
  <2> QED  BY <2>1, <2>2
<1>2. \E k \in DOMAIN list : list[k].to # {}
  <2>1. 1 \in 1..Len(list) /\ DOMAIN list = 1..Len(list)
    OBVIOUS
  <2> QED  BY <2>1
<1>3. ASSUME NEW k \in 1..Len(list)
      PROVE  /\ GoodSend(frames', held', c, list, k)
             /\ list[k].msg.kind \notin Payloads
  <2>1. list[k].msg.kind \notin Scoped
    OBVIOUS
  <2>2. list[k].msg.kind \notin Payloads
    BY <2>1 DEF Scoped
  <2> QED  BY <2>1, <2>2, Unscoped DEF GoodSend
<1>4. /\ registry' \in RegistryType
      /\ session' \in [Conns -> SUBSET Identities]
      /\ held' \in [Conns -> SUBSET Identities]
  BY DEF TInv, StateType
<1> QED  BY <1>1, <1>2, <1>3, <1>4, FrameFacts, ListStep, Zenon

\* A reply to a task's own client, as an entry of its list.
LEMMA SelfSend ==
    ASSUME NEW c \in Conns, NEW m \in Messages, m.kind \notin Scoped
    PROVE  /\ ToSelf(c, m) \in Sends
           /\ ToSelf(c, m).msg.kind \notin Scoped /\ ToSelf(c, m).to # {}
<1>1. <<"self", c>> \in Targets
  BY DEF Targets
<1> QED  BY <1>1 DEF ToSelf, Sends

\* A reply goes to the client itself and belongs to no network.
LEMMA ReplySend ==
    ASSUME NEW c \in Conns, NEW kind \in {"ack", "nack", "error", "pong"}
    PROVE  /\ ToSelf(c, Reply(kind)) \in Sends
           /\ ToSelf(c, Reply(kind)).msg.kind \notin Scoped /\ ToSelf(c, Reply(kind)).to # {}
<1>1. Reply(kind) \in Messages /\ Reply(kind).kind \notin Scoped
  BY MessageTypes DEF Reply, Scoped, Payloads
<1> QED  BY <1>1, SelfSend

\* Frames that are only answered queue nothing that has a network.
LEMMA AnswerSteps ==
    ASSUME TInv, NEW c \in Conns, RegisterRefused(c) \/ Answer(c) \/ GetPeers(c)
    PROVE  TInv'
<1>1. CASE RegisterRefused(c)
  <2> DEFINE list == <<ToSelf(c, Reply("nack")), ToSelf(c, Reply("error"))>>
  <2>1. list \in Seq(Sends) /\ list # <<>> /\
        \A k \in 1..Len(list) : list[k].msg.kind \notin Scoped /\ list[k].to # {}
    BY ReplySend
  <2>2. sends' = [sends EXCEPT ![c] = list] /\ UNCHANGED <<registry, session, held>> /\ Frame(c)
    BY <1>1 DEF RegisterRefused
  <2>3. pc' \in [Conns -> {"read", "deregister", "drain"}]
    BY <1>1 DEF RegisterRefused, TInv, StateType
  <2> HIDE DEF list
  <2> QED  BY <2>1, <2>2, <2>3, AnswerStep, Zenon
<1>2. CASE Answer(c)
  <2>1. PICK kind \in {"error"} \cup {"pong" : s \in session[c]} :
            sends' = [sends EXCEPT ![c] = <<ToSelf(c, Reply(kind))>>]
    BY <1>2, Zenon DEF Answer
  <2> DEFINE list == <<ToSelf(c, Reply(kind))>>
  <2>2. list \in Seq(Sends) /\ list # <<>> /\
        \A k \in 1..Len(list) : list[k].msg.kind \notin Scoped /\ list[k].to # {}
    BY ReplySend
  <2>3. UNCHANGED <<registry, session, pc, held>> /\ Frame(c)
    BY <1>2 DEF Answer
  <2>4. pc' \in [Conns -> {"read", "deregister", "drain"}]
    BY <2>3 DEF TInv, StateType
  <2>5. sends' = [sends EXCEPT ![c] = list]
    BY <2>1
  <2> HIDE DEF list
  <2> QED  BY <2>2, <2>3, <2>4, <2>5, AnswerStep, Zenon
<1>3. CASE GetPeers(c)
  <2>1. PICK ns : sends' = [sends EXCEPT ![c] = <<ToSelf(c, PeerList(PeersIn(registry, ns)))>>]
    BY <1>3, Zenon DEF GetPeers
  <2> DEFINE list == <<ToSelf(c, PeerList(PeersIn(registry, ns)))>>
  <2>2. list \in Seq(Sends) /\ list # <<>> /\
        \A k \in 1..Len(list) : list[k].msg.kind \notin Scoped /\ list[k].to # {}
    <3>1. PeersIn(registry, ns) \in SUBSET Peers
      BY DEF PeersIn, Registered
    <3>2. PeerList(PeersIn(registry, ns)) \in Messages
      BY <3>1, MessageTypes
    <3>3. PeerList(PeersIn(registry, ns)).kind \notin Scoped
      BY DEF PeerList, Scoped, Payloads
    <3> QED  BY <3>2, <3>3, SelfSend
  <2>3. UNCHANGED <<registry, session, pc, held>> /\ Frame(c)
    BY <1>3 DEF GetPeers
  <2>4. pc' \in [Conns -> {"read", "deregister", "drain"}]
    BY <2>3 DEF TInv, StateType
  <2>5. sends' = [sends EXCEPT ![c] = list]
    BY <2>1
  <2> HIDE DEF list
  <2> QED  BY <2>2, <2>3, <2>4, <2>5, AnswerStep, Zenon
<1> QED  BY <1>1, <1>2, <1>3

-----------------------------------------------------------------------------
(* Registrations, payloads and announcements *)

\* A task is given its list of sends, or none if nobody is to get one.
LEMMA OutgoingFacts ==
    ASSUME NEW list \in Seq(Sends)
    PROVE  /\ Outgoing(list) \in Seq(Sends)
           /\ Outgoing(list) = list \/ Outgoing(list) = <<>>
           /\ Outgoing(list) # <<>> => \E k \in DOMAIN Outgoing(list) : Outgoing(list)[k].to # {}
BY DEF Outgoing

\* An announcement, sent to clients that hold an id on its network.
LEMMA AnnouncementGood ==
    ASSUME NEW f, NEW h, NEW t, NEW list, NEW k, NEW targets,
           NEW kind \in {"connected", "disconnected"}, NEW p \in Peers, NEW n \in Networks,
           \A target \in targets :
              target \in Targets /\ [peer |-> target[1], net |-> n] \in h[target[2]],
           list[k] = ToAll(targets, Announce(kind, p, n))
    PROVE  /\ ToAll(targets, Announce(kind, p, n)) \in Sends
           /\ list[k].msg.kind \notin Payloads
           /\ GoodSend(f, h, t, list, k)
<1>1. /\ list[k].to = targets /\ list[k].msg.kind = kind /\ list[k].msg.net = n
      /\ ToAll(targets, Announce(kind, p, n)) \in Sends
  <2>1. list[k].to = targets /\ list[k].msg = Announce(kind, p, n)
    BY DEF ToAll
  <2>2. Announce(kind, p, n).kind = kind /\ Announce(kind, p, n).net = n
    BY DEF Announce
  <2>3. targets \in SUBSET Targets /\ Announce(kind, p, n) \in Messages
    BY MessageTypes, Zenon
  <2>4. ToAll(targets, Announce(kind, p, n)) \in Sends
    BY <2>3 DEF ToAll, Sends
  <2> QED  BY <2>1, <2>2, <2>4, Zenon
<1>2. list[k].msg.kind \notin Payloads
  BY <1>1 DEF Payloads
<1>3. \A target \in list[k].to : Addressee(h, list[k].msg, target)
  BY <1>1 DEF Addressee
<1>4. Sound(f, h, list[k].msg)
  BY <1>1, <1>2 DEF Sound, Payloads
<1> QED  BY <1>1, <1>2, <1>3, <1>4, Zenon DEF GoodSend

\* Taking records out leaves the others as they are.
LEMMA UnregisterFacts ==
    ASSUME NEW reg \in RegistryType, NEW ids, NEW h, IsFiniteSet(Registered(reg)),
           \A p \in Registered(reg) : [peer |-> p, net |-> reg[p].network_id] \in h[reg[p].tx]
    PROVE  LET left == Unregister(reg, ids)
           IN  /\ left \in RegistryType /\ IsFiniteSet(Registered(left))
               /\ \A p \in Registered(left) : [peer |-> p, net |-> left[p].network_id] \in h[left[p].tx]
<1> DEFINE left == Unregister(reg, ids)
<1>1. left \in RegistryType
  BY DEF Unregister, RegistryType
<1>2. \A p \in Registered(left) : p \in Registered(reg) /\ left[p] = reg[p]
  BY DEF Unregister, Registered
<1>3. IsFiniteSet(Registered(left))
  BY <1>2, FS_Subset
<1> HIDE DEF left
<1>4. \A p \in Registered(left) : [peer |-> p, net |-> left[p].network_id] \in h[left[p].tx]
  BY <1>2
<1> QED  BY <1>1, <1>3, <1>4, Zenon DEF left

\* A step that takes records out and announces it.
LEMMA AnnounceStep ==
    ASSUME TInv, NEW ids, registry' = Unregister(registry, ids),
           NEW t \in Tasks, NEW list \in Seq(Sends),
           sends' = [sends EXCEPT ![t] = Outgoing(list)],
           \A k \in 1..Len(list) :
              GoodSend(frames, held, t, list, k) /\ list[k].msg.kind \notin Payloads,
           pc' \in [Conns -> {"read", "deregister", "drain"}],
           UNCHANGED <<session, frames, queue, closed, last, view, held, lossless>>
    PROVE  TInv'
<1>1. /\ registry \in RegistryType /\ HeldInv
      /\ session \in [Conns -> SUBSET Identities] /\ held \in [Conns -> SUBSET Identities]
      /\ frames \in [Conns -> Nat] /\ \A c \in Conns : frames[c] <= MaxFrames[c]
  BY Zenon DEF TInv, StateType, Bounds
<1>2. /\ registry' \in RegistryType /\ IsFiniteSet(Registered(registry'))
      /\ \A p \in Registered(registry') :
            [peer |-> p, net |-> registry'[p].network_id] \in held[registry'[p].tx]
  BY <1>1, UnregisterFacts, Zenon DEF HeldInv
<1>3. HeldInv'
  BY <1>1, <1>2 DEF HeldInv
<1>4. Grow
  <2>1. \A c \in Conns : frames[c] \in Nat /\ frames'[c] = frames[c] /\ held'[c] = held[c]
    BY <1>1, Zenon
  <2> QED  BY <2>1 DEF Grow
<1> DEFINE out == Outgoing(list)
<1>5. /\ out \in Seq(Sends) /\ (out # <<>> => \E k \in DOMAIN out : out[k].to # {})
      /\ out = list \/ out = <<>>
      /\ sends' = [sends EXCEPT ![t] = out]
  BY OutgoingFacts
<1> HIDE DEF out
<1>6. \A k \in 1..Len(out) :
         /\ GoodSend(frames', held', t, out, k)
         /\ out[k].msg.kind \in Payloads => frames'[t] = frames[t] + 1
  <2>1. CASE out = list
    BY <2>1
  <2>2. CASE out = <<>>
    BY <2>2
  <2> QED  BY <1>5, <2>1, <2>2
<1>7. /\ session' \in [Conns -> SUBSET Identities] /\ held' \in [Conns -> SUBSET Identities]
      /\ frames' \in [Conns -> Nat]
      /\ \A c \in Conns : frames'[c] <= MaxFrames[c] /\ (c # t => frames'[c] = frames[c])
      /\ UNCHANGED <<queue, closed, last, view, lossless>>
  BY <1>1
<1> QED  BY <1>2, <1>3, <1>4, <1>5, <1>6, <1>7, ListStep, Zenon

-----------------------------------------------------------------------------
(* The steps that register, send payloads, deregister and sweep *)

\* register_peer: the newcomer is announced to the others of its network.
LEMMA RegisterStep ==
    ASSUME TInv, NEW c \in Conns, NEW p \in Peers, NEW n \in Networks, Register(c, p, n)
    PROVE  TInv'
<1> DEFINE id == [peer |-> p, net |-> n]
           targets == BroadcastTargets(registry', p, n, {})
           list == <<ToSelf(c, Reply("ack")), ToAll(targets, Announce("connected", p, n))>>
<1>1. /\ Frame(c) /\ UNCHANGED pc
      /\ registry' = Insert(registry, p, n, c)
      /\ sends' = [sends EXCEPT ![c] = Outgoing(list)]
      /\ session' = [session EXCEPT ![c] = {id}]
      /\ held' = [held EXCEPT ![c] = @ \cup session'[c]]
  BY DEF Register
<1>2. /\ registry \in RegistryType /\ session \in [Conns -> SUBSET Identities]
      /\ held \in [Conns -> SUBSET Identities]
      /\ pc \in [Conns -> {"read", "deregister", "drain"}]
      /\ HeldInv
  BY DEF TInv, StateType
<1>3. id \in Identities
  BY DEF Identities
<1> HIDE DEF id
<1>4. /\ session' \in [Conns -> SUBSET Identities] /\ session'[c] = {id}
      /\ \A d \in Conns : d # c => session'[d] = session[d]
  BY <1>1, <1>2, <1>3
<1>5. /\ held' \in [Conns -> SUBSET Identities] /\ held'[c] = held[c] \cup {id}
      /\ \A d \in Conns : d # c => held'[d] = held[d]
  BY <1>1, <1>2, <1>3, <1>4
<1>6. /\ registry' \in RegistryType
      /\ registry'[p].network_id = n /\ registry'[p].tx = c
      /\ \A q \in Peers : q # p => registry'[q] = registry[q]
  BY <1>1, <1>2 DEF RegistryType, Insert, Peer
<1>7. Grow
  BY <1>1, <1>5, FrameFacts DEF Grow
<1>8. \A q \in Registered(registry') :
          [peer |-> q, net |-> registry'[q].network_id] \in held'[registry'[q].tx]
  <2> SUFFICES ASSUME NEW q \in Registered(registry')
               PROVE  [peer |-> q, net |-> registry'[q].network_id] \in held'[registry'[q].tx]
    BY Zenon
  <2>1. CASE q = p
    BY <1>5, <1>6, <2>1 DEF id
  <2>2. CASE q # p
    <3>1. q \in Registered(registry) /\ registry'[q] = registry[q] /\ registry[q] \in Peer
      BY <1>2, <1>6, <2>2 DEF Registered, RegistryType
    <3>2. registry[q].tx \in Conns
      BY <3>1 DEF Peer
    <3> QED  BY <1>2, <1>5, <3>1, <3>2 DEF HeldInv
  <2> QED  BY <2>1, <2>2
<1>9. HeldInv'
  <2>1. IsFiniteSet(Registered(registry'))
    <3>1. Registered(registry') \subseteq Registered(registry) \cup {p}
      BY <1>6 DEF Registered
    <3>2. IsFiniteSet(Registered(registry) \cup {p})
      BY <1>2, FS_AddElement DEF HeldInv
    <3> QED  BY <3>1, <3>2, FS_Subset
  <2>2. \A d \in Conns : session'[d] \subseteq held'[d] /\ \A r, s \in session'[d] : r = s
    BY <1>2, <1>4, <1>5 DEF HeldInv
  <2> QED  BY <1>8, <2>1, <2>2 DEF HeldInv
<1>10. \A target \in targets :
          target \in Targets /\ [peer |-> target[1], net |-> n] \in held'[target[2]]
  BY <1>6, <1>8, TargetsHeld, Zenon
<1> HIDE DEF targets
<1>11. list[1] = ToSelf(c, Reply("ack")) /\ list[2] = ToAll(targets, Announce("connected", p, n))
  OBVIOUS
<1>12. list \in Seq(Sends) /\ Len(list) = 2
  <2>1. ToSelf(c, Reply("ack")) \in Sends
    BY ReplySend
  <2>2. ToAll(targets, Announce("connected", p, n)) \in Sends
    BY <1>10, MessageTypes, Zenon DEF ToAll, Sends
  <2> QED  BY <2>1, <2>2
<1> HIDE DEF list
<1>13. GoodSend(frames', held', c, list, 1) /\ list[1].msg.kind \notin Payloads
  <2>1. list[1].msg.kind \notin Scoped
    BY <1>11, ReplySend
  <2> QED  BY <2>1, Unscoped, Zenon DEF GoodSend, Scoped
<1>14. GoodSend(frames', held', c, list, 2) /\ list[2].msg.kind \notin Payloads
  BY <1>10, <1>11, AnnouncementGood
<1> DEFINE out == Outgoing(list)
<1>15. /\ out \in Seq(Sends) /\ (out # <<>> => \E k \in DOMAIN out : out[k].to # {})
       /\ out = list \/ out = <<>>
  BY <1>12, OutgoingFacts
<1>16. sends' = [sends EXCEPT ![c] = out]
  BY <1>1
<1> HIDE DEF out
<1>17. \A k \in 1..Len(out) :
          GoodSend(frames', held', c, out, k) /\ out[k].msg.kind \notin Payloads
  <2>1. \A k \in 1..Len(list) : k = 1 \/ k = 2
    BY <1>12
  <2>2. CASE out = list
    BY <1>13, <1>14, <2>1, <2>2
  <2>3. CASE out = <<>>
    BY <2>3
  <2> QED  BY <1>15, <2>2, <2>3
<1>18. pc' \in [Conns -> {"read", "deregister", "drain"}]
  BY <1>1, <1>2
<1>19. /\ c \in Tasks /\ frames' \in [Conns -> Nat]
       /\ \A d \in Conns : frames'[d] <= MaxFrames[d] /\ (d # c => frames'[d] = frames[d])
       /\ UNCHANGED <<queue, closed, last, view, lossless>>
  BY <1>1, FrameFacts
<1>20. \A k \in 1..Len(out) :
          /\ GoodSend(frames', held', c, out, k)
          /\ out[k].msg.kind \in Payloads => frames'[c] = frames[c] + 1
  BY <1>17, Zenon
<1> QED  BY <1>4, <1>5, <1>6, <1>7, <1>9, <1>15, <1>16, <1>18, <1>19, <1>20, ListStep, Zenon

\* A payload of c's session, sent to clients that hold an id on its network.
LEMMA PayloadStep ==
    ASSUME TInv, NEW c \in Conns, Frame(c), UNCHANGED <<registry, session, pc, held>>,
           NEW s \in session[c], NEW kind \in Payloads, NEW from \in Peers,
           kind = "gossip" => from = s.peer,
           NEW targets,
           \A target \in targets :
              target \in Targets /\ [peer |-> target[1], net |-> s.net] \in held[target[2]],
           sends' = [sends EXCEPT ![c] = Outgoing(<<ToAll(targets, Payload(kind, from, s.net, c))>>)]
    PROVE  TInv'
<1> DEFINE m == Payload(kind, from, s.net, c)
           list == <<ToAll(targets, m)>>
<1>1. s \in Identities /\ s \in held[c] /\ frames \in [Conns -> Nat]
  BY DEF TInv, StateType, HeldInv
<1>2. s.peer \in Peers /\ s.net \in Networks /\ s = [peer |-> s.peer, net |-> s.net]
  BY <1>1 DEF Identities
<1>3. /\ m \in Messages /\ m.kind = kind /\ m.from = from /\ m.net = s.net
      /\ m.src = c /\ m.seq = frames[c] + 1
  BY <1>1, <1>2, PayloadFacts
<1>4. sends' = [sends EXCEPT ![c] = Outgoing(list)]
  OBVIOUS
<1> HIDE DEF m
<1>5. list \in Seq(Sends) /\ Len(list) = 1 /\ list[1].to = targets /\ list[1].msg = m
  <2>1. targets \in SUBSET Targets
    BY Zenon
  <2>2. ToAll(targets, m) \in Sends
    BY <1>3, <2>1 DEF ToAll, Sends
  <2>3. ToAll(targets, m).to = targets /\ ToAll(targets, m).msg = m
    BY DEF ToAll
  <2> QED  BY <2>2, <2>3
<1> HIDE DEF list
<1>6. Sound(frames', held', m)
  <2>1. m.seq <= frames'[m.src]
    BY <1>1, <1>3, FrameFacts
  <2>2. m.kind = "gossip" => [peer |-> m.from, net |-> m.net] \in held'[m.src]
    BY <1>1, <1>2, <1>3
  <2> QED  BY <2>1, <2>2 DEF Sound
<1>7. \A target \in targets : Addressee(held', m, target)
  BY <1>3 DEF Addressee
<1>8. GoodSend(frames', held', c, list, 1)
  BY <1>3, <1>5, <1>6, <1>7, FrameFacts DEF GoodSend
<1> DEFINE out == Outgoing(list)
<1>9. /\ out \in Seq(Sends) /\ (out # <<>> => \E k \in DOMAIN out : out[k].to # {})
      /\ out = list \/ out = <<>>
      /\ sends' = [sends EXCEPT ![c] = out]
  BY <1>4, <1>5, OutgoingFacts, Zenon
<1> HIDE DEF out
<1>10. Grow /\ HeldInv'
  <2>1. Grow
    BY FrameFacts DEF Grow
  <2>2. HeldInv'
    BY DEF TInv, HeldInv, Registered
  <2> QED  BY <2>1, <2>2
<1>11. /\ registry' \in RegistryType
       /\ session' \in [Conns -> SUBSET Identities]
       /\ held' \in [Conns -> SUBSET Identities]
       /\ pc' \in [Conns -> {"read", "deregister", "drain"}]
  BY DEF TInv, StateType
<1>12. \A k \in 1..Len(out) :
          /\ GoodSend(frames', held', c, out, k)
          /\ out[k].msg.kind \in Payloads => frames'[c] = frames[c] + 1
  <2>1. CASE out = list
    <3>1. \A k \in 1..Len(list) : k = 1
      BY <1>5
    <3> QED  BY <1>8, <2>1, <3>1, FrameFacts
  <2>2. CASE out = <<>>
    BY <2>2
  <2> QED  BY <1>9, <2>1, <2>2
<1>13. /\ c \in Tasks /\ frames' \in [Conns -> Nat]
       /\ \A d \in Conns : frames'[d] <= MaxFrames[d] /\ (d # c => frames'[d] = frames[d])
       /\ UNCHANGED <<queue, closed, last, view, lossless>>
  BY FrameFacts
<1> QED  BY <1>9, <1>10, <1>11, <1>12, <1>13, ListStep, Zenon

\* forward_to and broadcast: the sender is the session's, never the claimed one.
LEMMA PayloadSteps ==
    ASSUME TInv, NEW c \in Conns,
           \/ \E to \in Peers, claimed \in Peers : Forward(c, to, claimed)
           \/ \E exclude \in SUBSET Peers, claimed \in Peers : Broadcast(c, exclude, claimed)
    PROVE  TInv'
<1>1. registry \in RegistryType /\ HeldInv /\ session[c] \subseteq Identities
  BY DEF TInv, StateType
<1>2. ASSUME NEW to \in Peers, NEW claimed \in Peers, Forward(c, to, claimed)
      PROVE  TInv'
  <2>1. Frame(c) /\ UNCHANGED <<registry, session, pc, held>>
    BY <1>2, Zenon DEF Forward
  <2>2. PICK s \in session[c], kind \in {"gossip", "result"} :
          LET found == SenderInNetwork(registry, to, s.net)
              msg == Payload(kind, IF kind = "gossip" THEN Stamp(s, claimed) ELSE to, s.net, c)
          IN  sends' = [sends EXCEPT ![c] =
                          IF found # {} THEN <<ToAll({<<to, d>> : d \in found}, msg)>>
                          ELSE <<ToSelf(c, Reply("error"))>>]
    BY <1>2, Zenon DEF Forward
  <2> DEFINE found == SenderInNetwork(registry, to, s.net)
             targets == {<<to, d>> : d \in found}
             from == IF kind = "gossip" THEN s.peer ELSE to
  <2>3. CASE found = {}
    <3> DEFINE list == <<ToSelf(c, Reply("error"))>>
    <3>1. list \in Seq(Sends) /\ list # <<>> /\
          \A k \in 1..Len(list) : list[k].msg.kind \notin Scoped /\ list[k].to # {}
      BY ReplySend
    <3>2. sends' = [sends EXCEPT ![c] = list]
      BY <2>2, <2>3
    <3>3. pc' \in [Conns -> {"read", "deregister", "drain"}]
      BY <2>1 DEF TInv, StateType
    <3> HIDE DEF list
    <3> QED  BY <2>1, <3>1, <3>2, <3>3, AnswerStep, Zenon
  <2>4. CASE found # {}
    <3>1. sends' = [sends EXCEPT ![c] = <<ToAll(targets, Payload(kind, from, s.net, c))>>]
      BY <2>2, <2>4, Zenon DEF Stamp
    <3>2. \A target \in targets :
             target \in Targets /\ [peer |-> target[1], net |-> s.net] \in held[target[2]]
      <4>1. registry[to] \in Peer /\ registry[to] # Vacant /\ registry[to].network_id = s.net
        BY <1>1, <2>4 DEF SenderInNetwork, RegistryType
      <4>2. found = {registry[to].tx} /\ registry[to].tx \in Conns
        BY <4>1 DEF SenderInNetwork, Peer
      <4>3. [peer |-> to, net |-> s.net] \in held[registry[to].tx]
        BY <1>1, <4>1 DEF HeldInv, Registered
      <4> QED  BY <4>2, <4>3 DEF Targets
    <3>3. from \in Peers /\ (kind = "gossip" => from = s.peer) /\ kind \in Payloads
      BY <1>1 DEF Identities, Payloads
    <3>4. targets # {}
      BY <2>4, Zenon
    <3> HIDE DEF targets, from
    <3> DEFINE m == Payload(kind, from, s.net, c)
    <3>5. Outgoing(<<ToAll(targets, m)>>) = <<ToAll(targets, m)>>
      <4> HIDE DEF m
      <4>1. ToAll(targets, m).to # {}
        BY <3>4 DEF ToAll
      <4>2. 1 \in DOMAIN <<ToAll(targets, m)>> /\ <<ToAll(targets, m)>>[1] = ToAll(targets, m)
        OBVIOUS
      <4> QED  BY <4>1, <4>2, Zenon DEF Outgoing
    <3>6. sends' = [sends EXCEPT ![c] = Outgoing(<<ToAll(targets, Payload(kind, from, s.net, c))>>)]
      BY <3>1, <3>5, Zenon
    <3> QED  BY <2>1, <3>2, <3>3, <3>6, PayloadStep, Zenon
  <2> QED  BY <2>3, <2>4, Zenon
<1>3. ASSUME NEW exclude \in SUBSET Peers, NEW claimed \in Peers, Broadcast(c, exclude, claimed)
      PROVE  TInv'
  <2>1. Frame(c) /\ UNCHANGED <<registry, session, pc, held>>
    BY <1>3 DEF Broadcast
  <2>2. PICK s \in session[c] :
          sends' = [sends EXCEPT ![c] =
                      Outgoing(<<ToAll(BroadcastTargets(registry, s.peer, s.net, exclude),
                                       Payload("gossip", s.peer, s.net, c))>>)]
    BY <1>3, Zenon DEF Broadcast, Stamp
  <2> DEFINE targets == BroadcastTargets(registry, s.peer, s.net, exclude)
  <2>3. \A target \in targets :
           target \in Targets /\ [peer |-> target[1], net |-> s.net] \in held[target[2]]
    BY <1>1, TargetsHeld, Zenon DEF HeldInv
  <2>4. s.peer \in Peers /\ "gossip" \in Payloads
    BY <1>1 DEF Identities, Payloads
  <2>5. sends' = [sends EXCEPT ![c] = Outgoing(<<ToAll(targets, Payload("gossip", s.peer, s.net, c))>>)]
    BY <2>2
  <2> HIDE DEF targets
  <2> QED  BY <2>1, <2>3, <2>4, <2>5, PayloadStep, Zenon
<1> QED  BY <1>2, <1>3

\* deregister: those who stay on the network are told.
LEMMA DeregisterStep ==
    ASSUME TInv, NEW c \in Conns, Deregister(c)
    PROVE  TInv'
<1>1. pc' \in [Conns -> {"read", "deregister", "drain"}] /\ c \in Tasks
  BY Zenon DEF Deregister, TInv, StateType, Tasks
<1>2. UNCHANGED <<session, frames, queue, closed, last, view, held, lossless>>
  BY DEF Deregister
<1>3. CASE UNCHANGED <<registry, sends>>
  BY <1>1, <1>2, <1>3, QuietStep, Zenon
<1>4. ASSUME NEW s \in session[c],
             registry' = Unregister(registry, {s.peer}),
             sends' = [sends EXCEPT ![c] =
               Outgoing(<<ToAll(BroadcastTargets(registry', s.peer, s.net, {}),
                                Announce("disconnected", s.peer, s.net))>>)]
      PROVE  TInv'
  <2> DEFINE targets == BroadcastTargets(registry', s.peer, s.net, {})
             list == <<ToAll(targets, Announce("disconnected", s.peer, s.net))>>
  <2>1. /\ registry \in RegistryType /\ HeldInv
        /\ s.peer \in Peers /\ s.net \in Networks
    BY DEF TInv, StateType, Identities
  <2>2. /\ registry' \in RegistryType
        /\ \A p \in Registered(registry') :
              [peer |-> p, net |-> registry'[p].network_id] \in held[registry'[p].tx]
    BY <1>4, <2>1, UnregisterFacts, Zenon DEF HeldInv
  <2>3. \A target \in targets :
           target \in Targets /\ [peer |-> target[1], net |-> s.net] \in held[target[2]]
    BY <2>2, TargetsHeld, Zenon
  <2>4. sends' = [sends EXCEPT ![c] = Outgoing(list)]
    BY <1>4
  <2> HIDE DEF targets
  <2>5. list[1] = ToAll(targets, Announce("disconnected", s.peer, s.net)) /\ Len(list) = 1
    BY Zenon
  <2>6. /\ ToAll(targets, Announce("disconnected", s.peer, s.net)) \in Sends
        /\ list[1].msg.kind \notin Payloads
        /\ GoodSend(frames, held, c, list, 1)
    <3> HIDE DEF list
    <3> QED  BY <2>1, <2>3, <2>5, AnnouncementGood
  <2>7. list \in Seq(Sends)
    BY <2>6
  <2> HIDE DEF list
  <2>8. \A k \in 1..Len(list) :
           GoodSend(frames, held, c, list, k) /\ list[k].msg.kind \notin Payloads
    <3>1. \A k \in 1..Len(list) : k = 1
      BY <2>5
    <3> QED  BY <2>6, <3>1, Zenon
  <2> QED  BY <1>1, <1>2, <1>4, <2>4, <2>7, <2>8, AnnounceStep, Zenon
<1> QED  BY <1>3, <1>4, Zenon DEF Deregister

\* sweep_once: every victim's network is told, in any order of the victims.
LEMMA SweepStep ==
    ASSUME TInv, NEW silent \in SUBSET Conns, SweepOnce(silent)
    PROVE  TInv'
<1> DEFINE victims == DeadOrStale(registry, closed, silent)
<1>1. /\ registry' = Unregister(registry, victims)
      /\ UNCHANGED <<session, pc, frames, queue, closed, last, view, held, lossless>>
  BY DEF SweepOnce
<1>2. PICK order \in Bijection(1..Cardinality(victims), victims) :
        sends' = [sends EXCEPT ![Sweep] = Outgoing([k \in DOMAIN order |->
                    LET p == order[k]
                        n == registry[p].network_id
                        left == Unregister(registry, {order[j] : j \in 1..k})
                    IN  ToAll(BroadcastTargets(left, p, n, {}), Announce("disconnected", p, n))])]
  BY Zenon DEF SweepOnce
<1> DEFINE p(k) == order[k]
           n(k) == registry[order[k]].network_id
           left(k) == Unregister(registry, {order[j] : j \in 1..k})
           targets(k) == BroadcastTargets(left(k), p(k), n(k), {})
           entry(k) == ToAll(targets(k), Announce("disconnected", p(k), n(k)))
           list == [k \in DOMAIN order |-> entry(k)]
<1>3. sends' = [sends EXCEPT ![Sweep] = Outgoing(list)]
  BY <1>2
<1>4. /\ registry \in RegistryType /\ HeldInv /\ Sweep \in Tasks
      /\ pc' \in [Conns -> {"read", "deregister", "drain"}]
  BY <1>1 DEF TInv, StateType, Tasks
<1>5. victims \subseteq Registered(registry) /\ IsFiniteSet(victims)
  <2>1. victims \subseteq Registered(registry)
    BY DEF DeadOrStale
  <2> QED  BY <1>4, <2>1, FS_Subset DEF HeldInv
<1> HIDE DEF victims
<1>6. Cardinality(victims) \in Nat
  BY <1>5, FS_CardinalityType
<1>7. order \in [1..Cardinality(victims) -> victims]
  BY DEF Bijection, Injection, Surjection
<1>8. ASSUME NEW k \in 1..Cardinality(victims)
      PROVE  /\ entry(k) \in Sends
             /\ list[k] = entry(k)
             /\ list[k].msg.kind \notin Payloads
             /\ GoodSend(frames, held, Sweep, list, k)
  <2>1. p(k) \in Registered(registry)
    BY <1>5, <1>7
  <2>2. p(k) \in Peers /\ n(k) \in Networks
    BY <1>4, <2>1 DEF Registered, RegistryType, Peer
  <2>3. /\ left(k) \in RegistryType
        /\ \A q \in Registered(left(k)) :
              [peer |-> q, net |-> left(k)[q].network_id] \in held[left(k)[q].tx]
    <3> DEFINE gone == {order[j] : j \in 1..k}
    <3>1. left(k) = Unregister(registry, gone)
      OBVIOUS
    <3> HIDE DEF gone, left
    <3> QED  BY <1>4, <3>1, UnregisterFacts DEF HeldInv
  <2> HIDE DEF left, p, n
  <2>4. \A target \in targets(k) :
           target \in Targets /\ [peer |-> target[1], net |-> n(k)] \in held[target[2]]
    BY <2>3, TargetsHeld, Zenon
  <2>5. list[k] = entry(k)
    BY <1>7
  <2> HIDE DEF targets, list
  <2> QED  BY <2>2, <2>4, <2>5, AnnouncementGood, Zenon
<1>9. list \in Seq(Sends) /\ Len(list) = Cardinality(victims)
  <2>1. list = [k \in 1..Cardinality(victims) |-> entry(k)]
    BY <1>7
  <2> HIDE DEF list, entry
  <2>2. list \in [1..Cardinality(victims) -> Sends]
    BY <1>8, <2>1
  <2> QED  BY <1>6, <2>2
<1> HIDE DEF list, entry
<1>10. \A k \in 1..Len(list) :
          GoodSend(frames, held, Sweep, list, k) /\ list[k].msg.kind \notin Payloads
  BY <1>8, <1>9, Zenon
<1>11. UNCHANGED <<session, frames, queue, closed, last, view, held, lossless>>
  BY <1>1
<1> QED  BY <1>1, <1>3, <1>4, <1>9, <1>10, <1>11, AnnounceStep, Zenon

\* A writer that exits closes its queue and discards what is in it.
LEMMA WriterEndsStep ==
    ASSUME TInv, NEW c \in Conns, WriterEnds(c)
    PROVE  TInv'
<1>1. /\ closed' = closed \cup {c} /\ queue' = [queue EXCEPT ![c] = <<>>]
      /\ lossless' = (lossless /\ queue[c] = <<>>)
      /\ UNCHANGED <<registry, session, pc, frames, sends, last, view, held>>
  BY DEF WriterEnds
<1>2. StateType /\ HeldInv /\ Bounds /\ Delivery
  BY DEF TInv
<1>3. /\ queue' \in [Conns -> Seq(Messages)]
      /\ \A d \in Conns : queue'[d] = IF d = c THEN <<>> ELSE queue[d]
  BY <1>1, <1>2 DEF StateType
<1>4. ASSUME NEW d \in Conns, NEW k \in 1..Len(queue'[d])
      PROVE  k \in 1..Len(queue[d]) /\ queue'[d][k] = queue[d][k]
  BY <1>3
<1>5. StateType'
  BY <1>1, <1>2, <1>3, Zenon DEF StateType
<1>6. HeldInv'
  BY <1>1, <1>2, Zenon DEF HeldInv, Registered
<1>7. Bounds'
  <2>1. \A d \in Conns : Len(queue'[d]) <= QueueCap
    <3>1. QueueCap >= 0 /\ Len(<<>>) = 0
      BY TrafficAssumption
    <3>2. \A d \in Conns : Len(queue[d]) <= QueueCap
      BY <1>2, Zenon DEF Bounds
    <3> QED  BY <1>3, <3>1, <3>2
  <2> QED  BY <1>1, <1>2, <2>1 DEF Bounds
<1>8. SendsInv' /\ LastInv'
  BY <1>1, <1>2 DEF Delivery, SendsInv, LastInv
<1>9. QueueInv'
  <2> SUFFICES ASSUME NEW d \in Conns, NEW k \in 1..Len(queue'[d])
               PROVE  /\ Sound(frames', held', queue'[d][k])
                      /\ queue'[d][k].kind \in Scoped =>
                            \E h \in held'[d] : h.net = queue'[d][k].net
    BY Zenon DEF QueueInv
  <2>1. /\ Sound(frames, held, queue[d][k])
        /\ queue[d][k].kind \in Scoped => \E h \in held[d] : h.net = queue[d][k].net
    BY <1>2, <1>4, Zenon DEF Delivery, QueueInv
  <2> QED  BY <1>1, <1>4, <2>1, Zenon
<1>10. FreshInv'
  <2> SUFFICES ASSUME NEW t \in Conns, NEW k \in 1..Len(sends[t]),
                      sends[t][k].msg.kind \in Payloads, NEW target \in sends[t][k].to
               PROVE  Older(target[2], t, frames[t])'
    BY <1>1, Zenon DEF FreshInv
  <2>1. Older(target[2], t, frames[t])
    BY <1>2 DEF Delivery, FreshInv
  <2>2. target[2] \in Conns
    <3>1. t \in Tasks
      BY DEF Tasks
    <3>2. sends[t][k] \in Sends
      BY <1>2, <3>1 DEF StateType
    <3> QED  BY <3>2 DEF Sends, Targets
  <2> QED  BY <1>1, <1>4, <2>1, <2>2, Zenon DEF Older, Reregistered
<1>11. OrderInv'
  BY <1>1, <1>2, <1>4 DEF Delivery, OrderInv, InOrder, Reregistered
<1> QED  BY <1>5, <1>6, <1>7, <1>8, <1>9, <1>10, <1>11 DEF TInv, Delivery

-----------------------------------------------------------------------------
(* A try_send and a write, and the theorems *)

\* One try_send: what is left of the list, and what it adds to a queue.
LEMMA TrySendStep ==
    ASSUME TInv, NEW t \in Tasks, TrySend(t)
    PROVE  TInv'
<1> DEFINE list == sends[t]
<1>1. PICK k \in DOMAIN list : \E target \in list[k].to :
         LET d == target[2]
             taken == d \notin closed /\ Room(queue[d])
         IN  /\ queue' = IF taken THEN [queue EXCEPT ![d] = Append(@, list[k].msg)] ELSE queue
             /\ lossless' = (lossless /\ taken)
             /\ sends' = [sends EXCEPT ![t] = Sent(list, k, target)]
  BY Zenon DEF TrySend
<1>2. PICK target \in list[k].to :
         LET d == target[2]
             taken == d \notin closed /\ Room(queue[d])
         IN  /\ queue' = IF taken THEN [queue EXCEPT ![d] = Append(@, list[k].msg)] ELSE queue
             /\ lossless' = (lossless /\ taken)
             /\ sends' = [sends EXCEPT ![t] = Sent(list, k, target)]
  BY <1>1, Zenon
<1> DEFINE d == target[2]
           m == list[k].msg
           new == Sent(list, k, target)
<1>3. UNCHANGED <<registry, session, pc, frames, closed, last, view, held>>
  BY DEF TrySend
<1>4. StateType /\ HeldInv /\ Bounds /\ Delivery
  BY DEF TInv
<1>5. list \in Seq(Sends) /\ k \in 1..Len(list)
  BY <1>4 DEF StateType
<1>6. /\ m \in Messages /\ d \in Conns /\ target \in Targets
      /\ \A j \in 1..Len(list) : list[j].msg \in Messages /\ list[j].to \subseteq Targets
  <2>1. \A j \in 1..Len(list) : list[j] \in Sends
    BY <1>5
  <2>2. \A j \in 1..Len(list) : list[j].msg \in Messages /\ list[j].to \subseteq Targets
    BY <2>1 DEF Sends
  <2> QED  BY <1>5, <2>2 DEF Targets
<1>7. /\ new \in Seq(Sends)
      /\ new # <<>> => Len(new) = Len(list) /\ \E j \in DOMAIN new : new[j].to # {}
      /\ \A j \in 1..Len(new) :
            /\ j \in 1..Len(list) /\ new[j].msg = list[j].msg
            /\ new[j].to = IF j = k THEN list[k].to \ {target} ELSE list[j].to
  <2>1. OneFewer(list, k, target, new)
    <3> HIDE DEF list
    <3> QED  BY <1>5, SentFacts
  <2> HIDE DEF list, new
  <2> QED  BY <2>1, Zenon DEF OneFewer
<1>8. /\ sends' \in [Tasks -> Seq(Sends)] /\ sends'[t] = new
      /\ \A u \in Tasks : u # t => sends'[u] = sends[u]
  <2> HIDE DEF new
  <2>1. sends' = [sends EXCEPT ![t] = new]
    BY <1>2 DEF new
  <2> QED  BY <1>4, <1>7, <2>1 DEF StateType
<1>9. GoodSend(frames, held, t, list, k) /\ \A j \in 1..Len(list) : GoodSend(frames, held, t, list, j)
  BY <1>4, <1>5 DEF Delivery, SendsInv
<1>10. \/ UNCHANGED queue
       \/ /\ queue' = [queue EXCEPT ![d] = Append(@, m)] /\ Len(queue[d]) < QueueCap
  BY <1>2 DEF Room
<1>11. lossless' \in BOOLEAN
  BY <1>2, <1>4 DEF StateType
<1> HIDE DEF d, m, new, list
<1>12. queue' \in [Conns -> Seq(Messages)] /\ \A c \in Conns : c # d => queue'[c] = queue[c]
  <2>1. queue \in [Conns -> Seq(Messages)]
    BY <1>4 DEF StateType
  <2>2. Append(queue[d], m) \in Seq(Messages)
    BY <1>6, <2>1
  <2>3. CASE UNCHANGED queue
    BY <2>1, <2>3
  <2>4. CASE queue' = [queue EXCEPT ![d] = Append(@, m)]
    BY <2>1, <2>2, <2>4, Zenon
  <2> QED  BY <1>10, <2>3, <2>4
<1>13. \A c \in Conns : Len(queue'[c]) <= QueueCap
  <2>1. queue \in [Conns -> Seq(Messages)] /\ QueueCap \in Nat
    BY <1>4, TrafficAssumption DEF StateType
  <2>2. Len(queue'[d]) <= QueueCap
    BY <1>4, <1>6, <1>10, <2>1 DEF Bounds
  <2> QED  BY <1>4, <1>12, <2>2 DEF Bounds
<1>14. ASSUME NEW c \in Conns, NEW j \in 1..Len(queue'[c])
       PROVE  \/ j \in 1..Len(queue[c]) /\ queue'[c][j] = queue[c][j]
              \/ c = d /\ j = Len(queue[d]) + 1 /\ queue'[c][j] = m
  <2>1. queue \in [Conns -> Seq(Messages)]
    BY <1>4 DEF StateType
  <2>2. CASE UNCHANGED queue \/ c # d
    BY <1>12, <2>2
  <2>3. CASE c = d /\ queue' = [queue EXCEPT ![d] = Append(@, m)]
    <3>1. queue'[c] = Append(queue[d], m) /\ queue[d] \in Seq(Messages)
      BY <1>6, <2>1, <2>3
    <3> QED  BY <1>6, <2>3, <3>1
  <2> QED  BY <1>10, <2>2, <2>3
<1>15. StateType'
  BY <1>3, <1>4, <1>8, <1>11, <1>12 DEF StateType
<1>16. HeldInv'
  BY <1>3, <1>4 DEF HeldInv, Registered
<1>17. Bounds'
  BY <1>3, <1>4, <1>7, <1>8, <1>13 DEF Bounds
<1>18. LastInv'
  BY <1>3, <1>4 DEF Delivery, LastInv
<1>19. QueueInv'
  <2> SUFFICES ASSUME NEW c \in Conns, NEW j \in 1..Len(queue'[c])
               PROVE  /\ Sound(frames, held, queue'[c][j])
                      /\ queue'[c][j].kind \in Scoped => \E h \in held[c] : h.net = queue'[c][j].net
    BY <1>3 DEF QueueInv
  <2>1. CASE j \in 1..Len(queue[c]) /\ queue'[c][j] = queue[c][j]
    BY <1>4, <2>1 DEF Delivery, QueueInv
  <2>2. CASE c = d /\ queue'[c][j] = m
    <3>1. Sound(frames, held, m) /\ Addressee(held, m, target)
      BY <1>9 DEF GoodSend, m
    <3>2. m.kind \in Scoped => [peer |-> target[1], net |-> m.net] \in held[d]
      BY <3>1 DEF Addressee, d
    <3> QED  BY <2>2, <3>1, <3>2
  <2> QED  BY <1>14, <2>1, <2>2
<1>20. SendsInv'
  <2> SUFFICES ASSUME NEW u \in Tasks, NEW j \in 1..Len(sends'[u])
               PROVE  GoodSend(frames, held, u, sends'[u], j)
    BY <1>3 DEF SendsInv
  <2>1. CASE u # t
    BY <1>4, <1>8, <2>1 DEF Delivery, SendsInv
  <2>2. CASE u = t
    <3>1. j \in 1..Len(new) /\ sends'[u] = new
      BY <1>8, <2>2
    <3>2. new # <<>> /\ Len(new) = Len(list)
      BY <1>7, <3>1
    <3>3. new[j].msg = list[j].msg /\ new[j].to \subseteq list[j].to /\ GoodSend(frames, held, t, list, j)
      BY <1>7, <1>9, <3>1
    <3> QED  BY <2>2, <3>1, <3>2, <3>3 DEF GoodSend
  <2> QED  BY <2>1, <2>2
\* A payload is newer than what its source has had queued for the target.
<1>21. ASSUME m.kind \in Payloads
       PROVE  /\ t \in Conns /\ m.src = t /\ Len(list) = 1
              /\ InOrder(d, last[d][t], m.seq)
              /\ \A j \in 1..Len(queue[d]) : SentBy(queue[d][j], t) =>
                    InOrder(d, queue[d][j].seq, m.seq)
  <2>1. t \in Conns /\ m.src = t /\ m.seq = frames[t] /\ Len(list) = 1
    BY <1>9, <1>21 DEF GoodSend, m
  <2>2. Older(d, t, frames[t])
    BY <1>4, <1>5, <1>21, <2>1 DEF Delivery, FreshInv, m, d, list
  <2>3. last[d][t] <= frames[t] /\ last[d][t] \in Nat /\ frames[t] \in Nat
    BY <1>4, <1>6, <2>1 DEF Delivery, LastInv, StateType
  <2>4. ASSUME NEW j \in 1..Len(queue[d]), SentBy(queue[d][j], t)
        PROVE  InOrder(d, queue[d][j].seq, m.seq)
    <3>1. queue[d][j] \in Messages /\ Sound(frames, held, queue[d][j])
      BY <1>4, <1>6 DEF StateType, Delivery, QueueInv
    <3>2. queue[d][j].seq <= frames[t] /\ queue[d][j].seq \in Nat
      BY <2>4, <3>1, MessageFields, Zenon DEF Sound, SentBy
    <3> QED  BY <2>1, <2>2, <2>3, <2>4, <3>2 DEF Older, InOrder
  <2>5. InOrder(d, last[d][t], m.seq)
    BY <2>1, <2>2, <2>3 DEF Older, InOrder
  <2> QED  BY <2>1, <2>4, <2>5, Zenon
<1>22. OrderInv'
  <2> SUFFICES ASSUME NEW c \in Conns, NEW e \in Conns
               PROVE  /\ \A j \in 1..Len(queue'[c]) : SentBy(queue'[c][j], e) =>
                            InOrder(c, last[c][e], queue'[c][j].seq)
                      /\ \A i, j \in 1..Len(queue'[c]) :
                            SentBy(queue'[c][i], e) /\ SentBy(queue'[c][j], e) /\ i < j =>
                                InOrder(c, queue'[c][i].seq, queue'[c][j].seq)
    <3>1. \A c, x, y : InOrder(c, x, y)' <=> InOrder(c, x, y)
      BY <1>3, Zenon DEF InOrder, Reregistered
    <3> QED  BY <1>3, <3>1, Zenon DEF OrderInv
  <2>1. ASSUME NEW j \in 1..Len(queue'[c]), SentBy(queue'[c][j], e)
        PROVE  InOrder(c, last[c][e], queue'[c][j].seq)
    <3>1. CASE j \in 1..Len(queue[c]) /\ queue'[c][j] = queue[c][j]
      BY <1>4, <2>1, <3>1 DEF Delivery, OrderInv
    <3>2. CASE c = d /\ queue'[c][j] = m
      <4>1. m.kind \in Payloads /\ e = t
        BY <1>21, <2>1, <3>2 DEF SentBy
      <4> QED  BY <1>21, <3>2, <4>1, Zenon
    <3> QED  BY <1>14, <3>1, <3>2
  <2>2. ASSUME NEW i \in 1..Len(queue'[c]), NEW j \in 1..Len(queue'[c]), i < j,
               SentBy(queue'[c][i], e), SentBy(queue'[c][j], e)
        PROVE  InOrder(c, queue'[c][i].seq, queue'[c][j].seq)
    <3>1. i \in 1..Len(queue[c]) /\ queue'[c][i] = queue[c][i]
      <4>0. Len(queue[c]) \in Nat
        BY <1>4 DEF StateType
      <4>1. j <= Len(queue[c]) + 1 /\ Len(queue[c]) \in Nat
        BY <1>14, <4>0
      <4> QED  BY <1>14, <2>2, <4>1
    <3>2. CASE j \in 1..Len(queue[c]) /\ queue'[c][j] = queue[c][j]
      BY <1>4, <2>2, <3>1, <3>2, Zenon DEF Delivery, OrderInv
    <3>3. CASE c = d /\ queue'[c][j] = m
      <4>1. m.kind \in Payloads /\ e = t
        BY <1>21, <2>2, <3>3, Zenon DEF SentBy
      <4> QED  BY <1>21, <2>2, <3>1, <3>3, <4>1, Zenon
    <3> QED  BY <1>14, <3>2, <3>3
  <2> QED  BY <2>1, <2>2
<1>23. FreshInv'
  <2> SUFFICES ASSUME NEW u \in Conns, NEW j \in 1..Len(sends'[u]),
                      sends'[u][j].msg.kind \in Payloads, NEW other \in sends'[u][j].to
               PROVE  Older(other[2], u, frames[u])'
    BY DEF FreshInv
  <2>1. u \in Tasks
    BY DEF Tasks
  <2>2. j \in 1..Len(sends[u]) /\ sends[u][j].msg.kind \in Payloads /\ other \in sends[u][j].to
    BY <1>7, <1>8, <2>1, Zenon DEF list
  <2>3. Older(other[2], u, frames[u]) /\ other \in Targets
    <3>1. sends[u][j] \in Sends
      BY <1>4, <2>1, <2>2 DEF StateType
    <3> QED  BY <1>4, <2>2, <3>1, Zenon DEF Delivery, FreshInv, Sends
  <2>4. other[2] \in Conns
    BY <2>3, Zenon DEF Targets
  <2>5. CASE other[2] = d /\ SentBy(m, u)
    <3>1. u = t /\ m.kind \in Payloads
      BY <1>21, <2>5 DEF SentBy
    <3>2. k = j /\ other # target /\ other \in list[k].to
      <4>1. Len(list) = 1
        BY <1>21, <3>1
      <4>2. j = 1 /\ k = 1
        BY <1>5, <2>2, <3>1, <4>1 DEF list
      <4> QED  BY <1>7, <1>8, <2>1, <3>1, <4>2
    <3>3. other[1] # target[1]
      BY <1>6, <2>3, <2>5, <3>2 DEF Targets, d
    <3>4. /\ [peer |-> other[1], net |-> m.net] \in held[d]
          /\ [peer |-> target[1], net |-> m.net] \in held[d]
      BY <1>9, <2>5, <3>1, <3>2, Zenon DEF GoodSend, Addressee, Scoped, m, d
    <3>5. Reregistered(d)
      BY <3>3, <3>4, Zenon DEF Reregistered
    <3> QED  BY <1>3, <2>5, <3>5 DEF Older, Reregistered
  <2>6. CASE ~(other[2] = d /\ SentBy(m, u))
    <3>1. \A i \in 1..Len(queue'[other[2]]) : SentBy(queue'[other[2]][i], u) =>
             i \in 1..Len(queue[other[2]]) /\ queue'[other[2]][i] = queue[other[2]][i]
      BY <1>14, <2>4, <2>6
    <3> QED  BY <1>3, <2>3, <3>1, Zenon DEF Older, Reregistered
  <2> QED  BY <2>5, <2>6
<1> QED  BY <1>15, <1>16, <1>17, <1>18, <1>19, <1>20, <1>22, <1>23 DEF TInv, Delivery

\* The writer hands the oldest message of its queue to the client.
LEMMA WriteStep ==
    ASSUME TInv, NEW c \in Conns, Write(c)
    PROVE  TInv'
<1> DEFINE q == queue[c]
           m == Head(q)
<1>1. /\ q # <<>> /\ queue' = [queue EXCEPT ![c] = Tail(q)]
      /\ view' = [view EXCEPT ![c] = ViewAfter(@, m)]
      /\ last' = IF m.kind \in Payloads THEN [last EXCEPT ![c][m.src] = m.seq] ELSE last
      /\ UNCHANGED <<registry, session, pc, frames, sends, closed, held, lossless>>
  BY DEF Write, NextOut
<1>2. StateType /\ HeldInv /\ Bounds /\ Delivery
  BY DEF TInv
<1>3. /\ q \in Seq(Messages) /\ m \in Messages /\ m = q[1] /\ 1 \in 1..Len(q)
      /\ Tail(q) \in Seq(Messages) /\ Len(Tail(q)) = Len(q) - 1
      /\ \A k \in 1..Len(Tail(q)) : k + 1 \in 1..Len(q) /\ Tail(q)[k] = q[k + 1]
  <2>1. q \in Seq(Messages)
    BY <1>2 DEF StateType
  <2> HIDE DEF q
  <2> QED  BY <1>1, <2>1
<1>4. /\ queue' \in [Conns -> Seq(Messages)] /\ queue'[c] = Tail(q)
      /\ \A d \in Conns : d # c => queue'[d] = queue[d]
  <2>1. queue \in [Conns -> Seq(Messages)]
    BY <1>2 DEF StateType
  <2> HIDE DEF q
  <2> QED  BY <1>1, <1>3, <2>1
\* What is queued now was queued before, at c one place further on.
<1>5. ASSUME NEW d \in Conns, NEW k \in 1..Len(queue'[d])
      PROVE  \/ d = c /\ k + 1 \in 1..Len(queue[d]) /\ queue'[d][k] = queue[d][k + 1]
             \/ d # c /\ k \in 1..Len(queue[d]) /\ queue'[d][k] = queue[d][k]
  BY <1>3, <1>4, Zenon
<1>6. Sound(frames, held, m)
  BY <1>2, <1>3 DEF Delivery, QueueInv
<1>7. m.kind \in Payloads => m.src \in Conns /\ m.seq \in Nat /\ m.seq <= frames[m.src]
  BY <1>3, <1>6, MessageFields DEF Sound
<1> HIDE DEF m
<1>8. /\ last' \in [Conns -> [Conns -> Nat]]
      /\ \A d, e \in Conns :
           last'[d][e] = IF d = c /\ SentBy(m, e) THEN m.seq ELSE last[d][e]
  <2>1. last \in [Conns -> [Conns -> Nat]]
    BY <1>2 DEF StateType
  <2>2. CASE m.kind \in Payloads
    BY <1>1, <1>7, <2>1, <2>2, Zenon DEF SentBy
  <2>3. CASE m.kind \notin Payloads
    BY <1>1, <2>1, <2>3 DEF SentBy
  <2> QED  BY <2>2, <2>3
<1>9. view' \in [Conns -> SUBSET SUBSET Peers]
  <2>1. view \in [Conns -> SUBSET SUBSET Peers]
    BY <1>2 DEF StateType
  <2>2. ViewAfter(view[c], m) \in SUBSET SUBSET Peers
    <3> DEFINE v == view[c]
    <3>1. v \in SUBSET SUBSET Peers
      BY <2>1
    <3>2. m.kind = "peers" => m.peers \in SUBSET Peers
      BY <1>3, MessageFields
    <3>3. m.kind = "connected" => m.peer \in Peers
      BY <1>3, MessageFields
    <3> HIDE DEF v
    <3>4. ViewAfter(v, m) \in SUBSET SUBSET Peers
      BY <3>1, <3>2, <3>3 DEF ViewAfter
    <3> QED  BY <3>4 DEF v
  <2> QED  BY <1>1, <2>1, <2>2
<1>10. StateType'
  BY <1>1, <1>2, <1>4, <1>8, <1>9, Zenon DEF StateType
<1>11. HeldInv'
  BY <1>1, <1>2 DEF HeldInv, Registered
<1>12. Bounds'
  <2>1. \A d \in Conns : Len(queue'[d]) <= QueueCap
    <3>1. Len(q) <= QueueCap /\ Len(q) \in Nat /\ QueueCap \in Nat
      BY <1>2, <1>3, TrafficAssumption DEF Bounds
    <3>2. Len(queue'[c]) <= QueueCap
      BY <1>3, <1>4, <3>1
    <3> QED  BY <1>2, <1>4, <3>2, Zenon DEF Bounds
  <2> QED  BY <1>1, <1>2, <2>1 DEF Bounds
<1>13. SendsInv'
  BY <1>1, <1>2 DEF Delivery, SendsInv
<1>14. QueueInv'
  <2> SUFFICES ASSUME NEW d \in Conns, NEW k \in 1..Len(queue'[d])
               PROVE  /\ Sound(frames, held, queue'[d][k])
                      /\ queue'[d][k].kind \in Scoped => \E h \in held[d] : h.net = queue'[d][k].net
    BY <1>1 DEF QueueInv
  <2>1. \A j \in 1..Len(queue[d]) :
           /\ Sound(frames, held, queue[d][j])
           /\ queue[d][j].kind \in Scoped => \E h \in held[d] : h.net = queue[d][j].net
    BY <1>2 DEF Delivery, QueueInv
  <2>2. \E j \in 1..Len(queue[d]) : queue'[d][k] = queue[d][j]
    BY <1>5, Zenon
  <2> QED  BY <2>1, <2>2, Zenon
<1>15. LastInv'
  <2> SUFFICES ASSUME NEW d \in Conns, NEW e \in Conns
               PROVE  last'[d][e] <= frames[e]
    BY <1>1 DEF LastInv
  <2>1. last[d][e] <= frames[e]
    BY <1>2 DEF Delivery, LastInv
  <2> QED  BY <1>7, <1>8, <2>1 DEF SentBy
<1>16. FreshInv'
  <2> SUFFICES ASSUME NEW t \in Conns, NEW k \in 1..Len(sends[t]),
                      sends[t][k].msg.kind \in Payloads, NEW target \in sends[t][k].to
               PROVE  Older(target[2], t, frames[t])'
    BY <1>1 DEF FreshInv
  <2>1. Older(target[2], t, frames[t])
    BY <1>2 DEF Delivery, FreshInv
  <2>2. target[2] \in Conns
    <3>1. t \in Tasks
      BY DEF Tasks
    <3>2. sends[t][k] \in Sends
      BY <1>2, <3>1 DEF StateType
    <3> QED  BY <3>2 DEF Sends, Targets
  <2>3. CASE Reregistered(target[2])
    BY <1>1, <2>3, Zenon DEF Older, Reregistered
  <2>4. CASE ~Reregistered(target[2])
    <3> DEFINE d == target[2]
    <3>1. /\ last[d][t] < frames[t]
          /\ \A j \in 1..Len(queue[d]) : SentBy(queue[d][j], t) => queue[d][j].seq < frames[t]
      BY <2>1, <2>4 DEF Older
    <3> HIDE DEF d
    <3>2. d \in Conns
      BY <2>2 DEF d
    <3>3. last'[d][t] < frames[t]
      <4>1. CASE d = c /\ SentBy(m, t)
        <5>1. m = queue[d][1] /\ 1 \in 1..Len(queue[d]) /\ last'[d][t] = m.seq
          BY <1>3, <1>8, <4>1
        <5> QED  BY <3>1, <4>1, <5>1, Zenon
      <4>2. CASE ~(d = c /\ SentBy(m, t))
        BY <1>8, <3>1, <3>2, <4>2, Zenon
      <4> QED  BY <4>1, <4>2
    <3>4. \A j \in 1..Len(queue'[d]) : SentBy(queue'[d][j], t) => queue'[d][j].seq < frames[t]
      BY <1>5, <3>1, <3>2, Zenon
    <3> QED  BY <1>1, <3>3, <3>4, Zenon DEF Older, d
  <2> QED  BY <2>3, <2>4
<1>17. OrderInv'
  <2> SUFFICES ASSUME NEW d \in Conns, NEW e \in Conns
               PROVE  /\ \A k \in 1..Len(queue'[d]) : SentBy(queue'[d][k], e) =>
                            InOrder(d, last'[d][e], queue'[d][k].seq)
                      /\ \A j, k \in 1..Len(queue'[d]) :
                            SentBy(queue'[d][j], e) /\ SentBy(queue'[d][k], e) /\ j < k =>
                                InOrder(d, queue'[d][j].seq, queue'[d][k].seq)
    <3>1. \A d \in Conns : Reregistered(d)' <=> Reregistered(d)
      BY <1>1, Zenon DEF Reregistered
    <3> QED  BY <3>1 DEF OrderInv, InOrder
  <2>1. /\ \A k \in 1..Len(queue[d]) : SentBy(queue[d][k], e) =>
              InOrder(d, last[d][e], queue[d][k].seq)
        /\ \A j, k \in 1..Len(queue[d]) :
              SentBy(queue[d][j], e) /\ SentBy(queue[d][k], e) /\ j < k =>
                  InOrder(d, queue[d][j].seq, queue[d][k].seq)
    BY <1>2 DEF Delivery, OrderInv
  <2>2. ASSUME NEW k \in 1..Len(queue'[d]), SentBy(queue'[d][k], e)
        PROVE  InOrder(d, last'[d][e], queue'[d][k].seq)
    <3>1. CASE d = c /\ SentBy(m, e)
      <4>1. last'[d][e] = q[1].seq /\ SentBy(q[1], e) /\ 1 \in 1..Len(q)
        BY <1>3, <1>8, <3>1
      <4>2. k + 1 \in 1..Len(q) /\ queue'[d][k] = q[k + 1] /\ 1 < k + 1
        BY <1>5, <3>1
      <4> QED  BY <2>1, <2>2, <3>1, <4>1, <4>2, Zenon
    <3>2. CASE ~(d = c /\ SentBy(m, e))
      <4>1. last'[d][e] = last[d][e]
        BY <1>8, <3>2
      <4> QED  BY <1>5, <2>1, <2>2, <4>1, Zenon
    <3> QED  BY <3>1, <3>2, Zenon
  <2>3. ASSUME NEW j \in 1..Len(queue'[d]), NEW k \in 1..Len(queue'[d]), j < k,
               SentBy(queue'[d][j], e), SentBy(queue'[d][k], e)
        PROVE  InOrder(d, queue'[d][j].seq, queue'[d][k].seq)
    <3>1. CASE d = c
      <4>1. /\ j + 1 \in 1..Len(queue[d]) /\ queue'[d][j] = queue[d][j + 1]
            /\ k + 1 \in 1..Len(queue[d]) /\ queue'[d][k] = queue[d][k + 1]
            /\ j + 1 < k + 1
        BY <1>5, <2>3, <3>1
      <4> QED  BY <2>1, <2>3, <4>1, Zenon
    <3>2. CASE d # c
      BY <1>5, <2>1, <2>3, <3>2, Zenon
    <3> QED  BY <3>1, <3>2
  <2> QED  BY <2>2, <2>3
<1> QED  BY <1>10, <1>11, <1>12, <1>13, <1>14, <1>15, <1>16, <1>17, Zenon DEF TInv, Delivery

-----------------------------------------------------------------------------
(* The theorems *)

\* Every step preserves the inductive invariant.
LEMMA TInvStep == TInv /\ [Next]_vars => TInv'
<1> SUFFICES ASSUME TInv, [Next]_vars PROVE TInv'
  OBVIOUS
<1>1. ASSUME NEW c \in Conns, \E p \in Peers, n \in Networks : Register(c, p, n)
      PROVE  TInv'
  BY <1>1, RegisterStep
<1>2. ASSUME NEW c \in Conns, RegisterRefused(c) \/ Answer(c) \/ GetPeers(c)
      PROVE  TInv'
  BY <1>2, AnswerSteps
<1>3. ASSUME NEW c \in Conns,
             \/ \E to \in Peers, claimed \in Peers : Forward(c, to, claimed)
             \/ \E exclude \in SUBSET Peers, claimed \in Peers : Broadcast(c, exclude, claimed)
      PROVE  TInv'
  BY <1>3, PayloadSteps, Zenon
<1>4. ASSUME NEW c \in Conns, Leave(c) PROVE TInv'
  <2>1. pc' \in [Conns -> {"read", "deregister", "drain"}]
    BY <1>4 DEF Leave, TInv, StateType
  <2> QED  BY <1>4, <2>1, QuietStep, Zenon DEF Leave
<1>5. ASSUME NEW c \in Conns, Deregister(c) PROVE TInv'
  BY <1>5, DeregisterStep
<1>6. ASSUME NEW c \in Conns, Write(c) PROVE TInv'
  BY <1>6, WriteStep
<1>7. ASSUME NEW c \in Conns, WriterEnds(c) PROVE TInv'
  BY <1>7, WriterEndsStep
<1>8. ASSUME NEW t \in Tasks, TrySend(t) PROVE TInv'
  BY <1>8, TrySendStep
<1>9. ASSUME NEW silent \in SUBSET Conns, SweepOnce(silent) PROVE TInv'
  BY <1>9, SweepStep
<1>10. CASE AllEnded \/ UNCHANGED vars
  <2>1. UNCHANGED vars
    BY <1>10, Zenon DEF AllEnded
  <2>2. pc' \in [Conns -> {"read", "deregister", "drain"}]
    BY <2>1 DEF vars, TInv, StateType
  <2> QED  BY <2>1, <2>2, QuietStep DEF vars
<1> QED  BY <1>1, <1>2, <1>3, <1>4, <1>5, <1>6, <1>7, <1>8, <1>9, <1>10, Zenon DEF Next

\* What forward_to, broadcast and the announcements have still to send, what is
\* queued and what has been delivered are sound, addressed to clients of their
\* network, and in order.
THEOREM TrafficInvariant == Spec => []TInv
BY TInvInit, TInvStep, PTL DEF Spec

\* No outbound queue outgrows outbound_queue_capacity and the state keeps its
\* type, however many tasks send to however slow a reader.
THEOREM TrafficTypeTheorem == Spec => []TrafficTypeOK
<1>1. TInv => TrafficTypeOK
  <2> SUFFICES ASSUME TInv PROVE TrafficTypeOK
    OBVIOUS
  <2>1. /\ registry \in RegistryType /\ closed \subseteq Conns /\ lossless \in BOOLEAN
    BY DEF TInv, StateType
  <2>2. ASSUME NEW c \in Conns
        PROVE  /\ session[c] \subseteq held[c] /\ \A r, s \in session[c] : r = s
               /\ held[c] \subseteq [peer : Peers, net : Networks]
               /\ pc[c] \in {"read", "deregister", "drain"}
               /\ frames[c] \in 0..MaxFrames[c]
               /\ Len(queue[c]) <= QueueCap
               /\ Range(queue[c]) \subseteq Messages
               /\ last[c] \in [Conns -> Nat] /\ view[c] \subseteq SUBSET Peers
    <3>1. session[c] \subseteq held[c] /\ \A r, s \in session[c] : r = s
      BY DEF TInv, HeldInv
    <3>2. held[c] \subseteq [peer : Peers, net : Networks]
      BY DEF TInv, StateType, Identities
    <3>3. pc[c] \in {"read", "deregister", "drain"}
      BY DEF TInv, StateType
    <3>4. frames[c] \in 0..MaxFrames[c] /\ Len(queue[c]) <= QueueCap
      BY TrafficAssumption DEF TInv, StateType, Bounds
    <3>5. Range(queue[c]) \subseteq Messages
      BY DEF TInv, StateType, Range
    <3>6. last[c] \in [Conns -> Nat] /\ view[c] \subseteq SUBSET Peers
      BY DEF TInv, StateType
    <3> QED  BY <3>1, <3>2, <3>3, <3>4, <3>5, <3>6
  <2>3. ASSUME NEW t \in Tasks
        PROVE  /\ \A k \in DOMAIN sends[t] : sends[t][k].msg \in Messages
               /\ sends[t] # <<>> => \E k \in DOMAIN sends[t] : sends[t][k].to # {}
    <3>1. sends[t] \in Seq(Sends)
      BY DEF TInv, StateType
    <3>2. \A k \in DOMAIN sends[t] : sends[t][k] \in Sends
      BY <3>1
    <3> QED  BY <3>2 DEF TInv, Bounds, Sends
  <2> QED  BY <2>1, <2>2, <2>3, Zenon DEF TrafficTypeOK
<1> QED  BY <1>1, TrafficInvariant, PTL

\* A queued message has a place in its queue.
LEMMA QueuedAt ==
    ASSUME TInv, NEW c \in Conns
    PROVE  /\ DOMAIN queue[c] = 1..Len(queue[c])
           /\ \A m \in Range(queue[c]) : \E k \in 1..Len(queue[c]) : m = queue[c][k]
<1>1. queue[c] \in Seq(Messages)
  BY DEF TInv, StateType
<1> QED  BY <1>1 DEF Range

\* Payloads and announcements stay within their network: one is queued for a
\* client only if its connection has been registered there.
THEOREM IsolationTheorem == Spec => []NetworkIsolation
<1>1. TInv => NetworkIsolation
  <2> SUFFICES ASSUME TInv, NEW c \in Conns, NEW m \in Range(queue[c]),
                      m.kind \in Payloads \cup {"connected", "disconnected"}
               PROVE  \E h \in held[c] : h.net = m.net
    BY DEF NetworkIsolation
  <2>1. PICK k \in 1..Len(queue[c]) : m = queue[c][k]
    BY QueuedAt
  <2> QED  BY <2>1 DEF TInv, Delivery, QueueInv, Scoped
<1> QED  BY <1>1, TrafficInvariant, PTL

\* The sender a delivered payload names is an id its connection registered on
\* that network, whatever the frame claimed.
THEOREM AuthenticTheorem == Spec => []AuthenticSender
<1>1. TInv => AuthenticSender
  <2> SUFFICES ASSUME TInv, NEW c \in Conns, NEW m \in Range(queue[c]), m.kind = "gossip"
               PROVE  [peer |-> m.from, net |-> m.net] \in held[m.src]
    BY DEF AuthenticSender
  <2>1. PICK k \in 1..Len(queue[c]) : m = queue[c][k]
    BY QueuedAt, Zenon
  <2> QED  BY <2>1 DEF TInv, Delivery, QueueInv, Sound
<1> QED  BY <1>1, TrafficInvariant, PTL

\* What one client sends another is delivered in the order it was sent, and
\* only once unless the receiver has registered more than once.
THEOREM OrderTheorem == Spec => []OrderedDelivery
<1>1. TInv => OrderedDelivery
  <2> SUFFICES ASSUME TInv PROVE OrderedDelivery
    OBVIOUS
  <2>1. \A c \in Conns : DOMAIN queue[c] = 1..Len(queue[c])
    BY QueuedAt
  <2> QED  BY <2>1 DEF TInv, Delivery, OrderInv, OrderedDelivery
<1> QED  BY <1>1, TrafficInvariant, PTL
==============================================================================
