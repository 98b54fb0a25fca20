# A verification of dig-relay in TLA+

dig-relay is a rendezvous relay: nodes connect over WebSocket, register under a
peer id on a network, learn who else is there, and have messages forwarded to
each other. This directory holds TLA+ modules that model the parts of it where
several tasks meet and the parts around them, small instances that TLC checks
exhaustively, and proofs, checked by TLAPS, of the properties that matter most.

Line numbers below refer to files under `src/`. `PROJECT.json` maps every
definition to the lines it models.

## 1. Inventory

| Part | State | Operations that change it | Modelled in |
|---|---|---|---|
| `server.rs`: connection lifecycle | `open_connections`, `connected`, per-task session, guards, channels, writer task | accept, admit, upgrade, read a frame, register, PEX handshake, deregister, drain, finish; health sweep | `Relay` |
| `server.rs`: the way in | one connection's streams and buffers | resolve the source, TLS, admission, peek the head, answer or upgrade, time out | `FrontDoor` |
| `server.rs`: routing | outbound queues, pending fan-outs | forward, broadcast, get_peers, announcements, `try_send`, write | `Traffic` |
| `registry.rs` | map id -> (network, sender, last activity) | register, reclaim, unregister, dead_or_stale | `Registry`; what it promises: `IdentityLease` |
| `pex.rs` | per-network engines (known peers, links), senders | on_register, on_unregister, on_node_handshake; tick sends only | `PexRelay` |
| `limits.rs`: AbusePolicy | per-source slots, rate buckets, strikes, bans | acquire and drop slots; allow_registration, record_strike, is_banned | `Relay` (slots); `TokenBucket`, `AbusePolicy` (the rest) |
| `limits.rs`: PerConnLimiter | task-local message and byte buckets | admit a frame, or disconnect and strike | `ConnLimiter`, `Limits` |
| `stun.rs` | two-level response budget | one Binding Request | `StunLimiter` |
| `proxy_protocol.rs` | a read buffer | parse the trust list, read the header, replay what is no header | `ProxyProtocol`, `FrontDoor` |
| `http_serve.rs` | a head buffer, a replaying stream | read and parse the head, replay it | `HttpHead`, `FrontDoor` |
| `tls.rs` | - | which certificates are accepted, which identity they give | `Tls`, `FrontDoor` |
| `dashboard.rs`, `health.rs`: routes | - | route a request, redirect plain HTTP | `Routes`, `FrontDoor` |
| `dashboard.rs`, `map.rs`, `geoip.rs`: live pages | what a request has read so far | list, count, locate, render | `Dashboard`, `PeerMap` |
| `dial.rs` | - | rewrite, deduplicate, cap and order advertised addresses | `Dialable` |
| `dht_view.rs`, DHT sweep in `server.rs` | `dht_answers`, the published view | request, collect, drain, publish | `DhtView`, `DhtSweep` |
| `lib.rs`, `main.rs` (serve), `win_service.rs`, `net.rs` | which listeners are bound, what the service manager was told | validate, bind, stop, finish | `Lifecycle` |
| `service.rs`, `main.rs` (CLI) | registrations and processes at system and user scope | install, uninstall, start, stop; kill, reboot | `Service` |
| `config.rs` | immutable after start | - | constants; knobs in `Service` |
| `wire.rs` | - | - | message kinds in `Traffic` |
| `continuation_guard.rs` | - | test-only scanner of the repository's text | no |

How the parts interact. Every connection is a task. It takes the abuse policy's
mutex for its slots, rates and strikes, the registry's mutex to register, look
up and leave, and then, after releasing that, the PEX mutex to mirror the
change. Messages to other connections go out after the registry lock has been
released, through bounded channels whose overflow is dropped. Each connection
has a writer task that owns the receiving end; "channel closed" is how the
registry recognises a dead connection. The health sweep is one more task that
takes the same locks in the same order, and the DHT sweep another, which asks
all peers, waits, drains what has arrived and publishes it. In front of all
this, a connection's bytes pass the PROXY header reader, TLS and a peek at the
request head, each of which may have to hand on bytes it has already taken.

What is hard about it: two locks for one logical change; sends after unlock;
teardown that waits for a channel whose senders live in the registry; counters
kept beside the structure they count; a session that does not know that it has
been pruned; limiter state that must stay bounded and yet not forget; two
replaying streams stacked on one another; pages put together from several reads;
and a service installer in which any call can fail and the host can be at two
scopes at once. The `hazards` of `PROJECT.json` name each with its line.

## 2. Modules

**Registry** gives the registry's value and one operator per method. A record's
sender is the connection that owns it. **PexRelay** does the same for the three
maps of `PexRelay`. Neither has variables.

**Relay** has one program counter per connection task. A step is what a task
does between two points where another thread can act: a lock acquisition, an
atomic on a shared counter, or a wait for the network. `CheckOpenCap` and
`AcquireOpen` are therefore two steps, `register_peer` is `RegisterFrame`,
`RegisterPeer` and `RegisterMirror`, and `sweep_once` is `SweepOnce` and a
`SweepMirror` per victim. A single lock hold is never split. Time is the set
`stale` of connections silent for longer than `liveness_deadline`. Verdicts of
the clock-dependent limits are free choices. Outbound queues are left out, since
the result of every `try_send` is discarded.

**Traffic** keeps the queues and leaves admission out: any registration may be
refused. A task's pending messages are `sends[t]`, and each `try_send` is a
step, to any of the remaining targets (the registry is a hash map). The health
sweep may take any connection to have been silent. The histories `last`,
`view`, `held` and `lossless` record what clients have received and been.

**IdentityLease** is the abstract specification of what the relay owes an id: it
is leased to at most one connection, granted one at a time within the capacity,
and only when it is free or its holder's channel is lost. **RelayLease** maps
`Relay` to it: the holder of an id is the connection its record points to, the
lost connections are those whose writer has exited.

**TokenBucket** is the bucket and the least-recently-seen eviction shared by
the limiters, **Clock** the wall clock, which may be set back. **AbusePolicy**
models rate, strikes and bans as atomic calls under the policy's mutex. Callers
read the clock before taking the lock, so a call may be `MaxLag` ticks late.
**AbuseHistory** adds the calls made so far. **StunLimiter** models the
reflector's single task, **ConnLimiter** the limiter a connection's task keeps
for itself. **Limits** puts them side by side. The three have no state in common
except that a disconnection is a strike, so a behaviour exercises one of them,
which `subject` names; exploring their product would add nothing.

**FrontDoor** follows one connection on either listener from its first byte to
its first frame. A client is a record of the PROXY header, TLS handshake,
request head and body it puts on the socket; each read takes a piece of any size
that is there; the client may hang up anywhere, or just stop. It uses four
modules without variables: **ProxyProtocol** (trust lists, header fields, over
bytes of a few bits), **HttpHead** (the head as a sequence of tokens, each of
which is one read of the reader, and the replaying stream), **Tls** (which
handshakes succeed, and as whom) and **Routes** (the answer to a request).

**Surroundings** puts four parts side by side that have no state in common (the
pages, the DHT sweep, the process, its registration as a service), again with a
`subject`; a fifth subject gives the address rewriting every short list of
offers. **Dialable** (over addresses of a network, a host and a form, the
IPv4-mapped one included) and **PeerMap** are pure operators.
**Dashboard** renders one page at a time: the peer list under the lock, the
counters after it, and for the map a second read of the registry, while peers
come and go. **DhtSweep** takes the sweep's three lock holds apart, with answers
that are late, repeated or never come, and **DhtView** is the aggregation. An
answer in the model also says which node it came from; only properties read that.
**Lifecycle** is the process, on a console or under the Windows service manager,
from validation over the binding of each listener to its exit status.

**Service** runs one CLI process at a time. Each call to the service manager is
a step that may fail, and the process may be killed or the host rebooted between
any two. A probe may always answer "unknown". A failing delete or create may
have taken effect. The manager of a scope may be out of reach. Root's user scope
and the desktop user's are different domains. A configuration is the set of
knobs that differ from the default, and `Environment` and `ConfigFromEnv` are
what becomes of it through installation.

The **...Proofs** modules hold the theorems (section 4); the **MC** modules hold
constants for TLC. Definitions marked "Mutant" are plausible slips that the
properties are known to reject; no specification uses them.

## 3. Runs

| Run | Instance | What it shows |
|---|---|---|
| `relay_safety` | 2 connections, 3 ids, caps of 2, one source | counters match what they count; slots neither leak nor are freed twice; caps hold; every record has an owner that will remove it; `Relay` implements `IdentityLease`, so that no live id changes hands |
| `relay_mtls` | 3 connections, 2 certificates, 2 sources | what is kept under an id was proven; registrations of a source stay within the cap |
| `relay_live` | 1 connection, 2 ids, fair scheduling | teardown completes unless the peer has stopped reading; dead records go |
| `limits` | 3 sources, 2 tracked, late callers; 1 connection with each limit and with all, under a clock that may be set back | budgets hold across windows and evictions; only the least recently seen is forgotten; bans are justified, imposed at the threshold and kept; a STUN request that is refused costs nothing; a connection is ended exactly when it exceeds one of its limits |
| `traffic` | 2 connections, 2 ids, 2 networks, queues of 2 | messages stay in their network, name their real sender, keep their order; queues stay bounded |
| `frontdoor` | 1 connection on either listener, any of 6 trust lists, with and without TLS; 10 PROXY headers, 5 TLS handshakes, 6 request heads | no byte is lost, repeated or reordered on its way through both replaying streams, except behind a trusted proxy's unreadable header; the source is a header's only when a trusted proxy sent it, and trust goes by bits; the answer is the request's; behind TLS everyone is verified; a silent client is timed out while its header or its first frame is awaited |
| `surroundings` | 3 peers and lists of up to 3 addresses; 2 nodes and 3 answers; 1 process; 2 commands by any caller on any host | what is published of a peer is tied to its source; pages add up; DHT answers are neither lost nor counted in two views; the process serves in full or ends, and its exit status tells why; what install and uninstall report is true, a refused install is harmless, only addressed scopes change |
| `relay_incumbent` | 2 connections, 1 id | finding 1 |
| `relay_mirror` | 2 connections, 1 id | finding 2 |
| `traffic_view` | 2 connections, 1 network, queues of 4 | finding 3 |
| `service_identical` | 1 command | finding 4 |
| `frontdoor_header` | as `frontdoor` | finding 5 |

### Why the bounds are enough

- *Relay*: the interesting cases need two owners of one id and an id to spare: a
  reclaim after a writer failure, a second registration on one connection, a
  sweep between two steps of a registration. Two connections and three ids reach
  all of them, and the third id exceeds the registry's cap of two. The mTLS run
  has two connections with the same certificate from different sources and a
  third with another. Each connection identity is used once; a reconnect is
  another connection.
- *Traffic*: one talker registers and sends twice, or registers twice and sends;
  one listener registers. Queues of two fill up. `VIEW` leaves out `view` and
  `lossless`, which no action and, apart from their types, no property of that
  run reads.
- *Limits*: one more source than is tracked, windows short enough that several
  pass, budgets of two so that a refill differs from a leftover. Frames of none,
  most and all of a byte budget.
- *FrontDoor*: bytes have three bits, an IPv4 address one byte and an IPv6
  address two, so that prefixes end inside a byte, between bytes and at the full
  width. The signature begins with two line ends, as the real one does, so a
  header that is not consumed runs into the head reader. Reads take one to three
  bytes, and a head of the capped length and one beyond it occur.
- *Surroundings*: lists longer than the cap, of addresses that rewriting makes
  equal; a peer id that is short, one that is long and one that the cut hits
  inside a character; a place on the far edge of the world; an answer that
  repeats a key and one that is truncated, with more keys than are published, and
  batches in which every node reports once; each listener refused or not.
- *Service*: two commands, so that one finds what the other left. The initial
  state is any combination of registrations, so earlier history is covered.
- `MaxTime`, `MaxCalls`, `MaxHits`, `MaxFrames`, `MaxAnswers` and `MaxCommands`
  are the only bounds that the code does not have; they cap clocks and histories.

Symmetry is used in safety runs only, over sets whose members the constants do
not tell apart.

### Fairness

`relay_live` assumes weak fairness of each connection task and of the sweep:
tokio polls every runnable task, both mutexes are FIFO, and the sweep's interval
keeps ticking. It also assumes that a task which no longer reads becomes stale,
because nothing stamps its `last_activity` any more. Nothing is assumed of
clients: none has to send, read, answer or close. That is why
`TeardownCompletes` excepts a writer that is stuck in a write, for which the
code has no timeout.

`frontdoor` assumes weak fairness of the two timeouts (a tokio timer fires), of
the admission checks and of the detection of an end of stream; a client need
never send another byte. There is none for the request head and the handshakes,
because the code sets no deadline there, and so no property claims one.
`surroundings` assumes weak fairness of the process's own steps: it starts, binds
and ends. Signals and the service manager owe nothing.

### Findings

1. **A late teardown evicts a live successor** (`server.rs:1275`). `deregister`
   removes the record under its id without checking whose it is. A connection
   whose writer has failed can lose its id to a successor and then remove the
   successor's record. `registry.rs:98` says that "the live peer keeps its slot
   and its rendezvous".
2. **The PEX set and the registry drift apart** (`server.rs:956`). A pruned
   session's handshake re-adds its entry, and mirrors of an older change can be
   applied after those of a newer one. `DESIGN.md:168` says that the advertise
   set is exactly the live registrations.
3. **A peer list can overwrite newer news** (`server.rs:858`). The list is
   computed under the lock and queued after it. An announcement can get in
   between, and the client's view then stays wrong. `DESIGN.md:94` says that the
   view "stays fresh without polling".
4. **An installed service does not serve identically** (`service.rs:778`). Some
   knobs are not written to its environment. `SPEC.md:595` says that it does.
5. **An unreadable PROXY header ends the connection** (`proxy_protocol.rs:331`).
   A header with the right signature but a version, command or address block that
   cannot be parsed is replayed as payload. TLS or the head reader then takes it
   for the client's bytes and closes. `SPEC.md:127` says that "an unparseable
   header from a trusted proxy MUST leave the observed source address as the
   socket address rather than failing the connection"; `proxy_protocol.rs:311`
   says the same, and the comment at `:330` that the next layer "will reject" the
   bytes. `HeaderNeverFatal` states the former for clients whose request would be
   served without the header. `BytesIntact` says nothing about them.

Smaller observations without a run of their own, most of them notes of the hazards:

- the open-connection gauge is compared before it is incremented;
- a connection on the plain listener that registers twice exceeds its source's
  registration cap until the sweep;
- the strike window is anchored, not rolling;
- `get_peers` is answered before registration, although SPEC.md answers every
  message before registration with an error;
- uninstall stops the service on a best-effort basis, so the old process can keep
  the relay's ports after a successful uninstall (`service.rs:362`);
- the request head and the TLS and WebSocket handshakes are awaited without a
  deadline, and the register timeout restarts with every frame, while
  `SPEC.md:249` drops a connection that has not registered within it;
- `dht_answers` is not bounded by the number of peers (`server.rs:121` says that
  it is) when a peer answers more than once between two sweeps;
- the DHT view counts answers and records, not nodes: a node that answers twice,
  or names a key twice, is two of the "connected nodes" (`dht_view.rs:66`) and
  "reporting nodes" (`dht_view.rs:54`), and can lift a key in an order that is "by
  how many independent nodes reported the key" (`dht_view.rs:210`, and
  `SPEC.md:104`). `ViewIsTheUnion` therefore claims numbers of nodes, and what the
  cut may leave out, only where no node reports a key or answers twice;
- a page's list and its counter are two reads and can differ, which
  `dashboard.rs:121` does not expect;
- a peer id that is not ASCII can be cut inside a character, which ends the
  task of the page that shows it, although the dashboard is "always available on
  the wire port" (`SPEC.md:402`);
- a place at exactly 90 or 180 degrees is in a cell beyond the edge of the world,
  whose centroid is not "in `[-90, 90]`" (`map.rs:48`) or "in `[-180, 180]`"
  (`map.rs:50`); `MapHonest` excepts the cells with such a place and no other;
- when the runtime cannot be built, the Windows service ends without reporting
  Stopped.

## 4. Proofs

Every component with a run has proofs, and every safety invariant that a run
checks is a theorem for all values of the constants. Each proof has an inductive
invariant of its own; those of `Traffic`, `Limits`, `FrontDoor` and
`Surroundings` were also checked by TLC, on the instances of the runs.

| Module | About |
|---|---|
| `DataLemmas` | induction, recursion, sums, sizes and lists, for the others |
| `RelayProofs` | `Relay`, and that it implements `IdentityLease` |
| `TrafficProofs` | `Traffic` |
| `LimitsProofs` | `Limits`: registrations and bans |
| `BudgetProofs` | `Limits`: the STUN reflector's responses, a connection's frames |
| `ServiceProofs` | `Service` |
| `FrontDoorProofs` | `ProxyProtocol`'s trust list, `FrontDoor` |
| `SurroundingsProofs` | `DhtView`, `DhtSweep`, `Dialable`, `Dashboard`, `PeerMap`, `Lifecycle`, and `Surroundings` |

### Induction over data

Several models compute by recursion: a sum over sources or frames, a list with
its repetitions removed, the records of all answers, a number from its bytes. The
library's induction theorems take an operator for a parameter, which no prover
here can instantiate. `DataLemmas` states induction about sets instead, which
they can: a non-empty set of numbers has a least element (`Least`), so a set that
has 0 and is closed under successor has all numbers (`Induction`,
`InductionUpTo`); a non-empty family of subsets of a finite set has a minimal one
(`Small`). From these follow that a definition by recursion has a value
(`NatRecursion`, `ListRecursion`), that a fold with + is a sum which grows by what
one summand grows (`SumIsFold`, `SumPick`, `SumRaised`), and that the sizes of
the parts of a set add up (`SharesAddUp`). A recursive function of a model is
then shown to be the last of its partial results (`DistinctIs`, `RecordsIs`,
`ProvidersIs`, ...), and the rest is induction along those.

### The relay

For any finite sets of connections and ids, any networks and sources, and any
caps, under `RelayAssumption` alone: each connection has a source and a
certificate or none; `max_connections` is positive; the per-source connection
cap does not exceed it.

- `CoreInvariant`. The types of all variables but the counters, together with
  `TaskShape`: which channels, slots and requests a task has at each point of
  its program. It is inductive by itself, action by action.
- `ConnectedTheorem`. The gauge equals the number of records. Relies on lemmas
  on how registration, reclaim and the removal of a set change the registry's
  cardinality.
- `OwnersInvariant`. The owner of a record, `MayOwn`, has a session, or is
  mirroring this registration, or has finished with its channel closed.
  `NoLockout` is not inductive: it needs to know that an owner which finishes
  has had its writer exit first. `NoLockoutTheorem` and `OwnersTheorem` follow.
- `NoHijackTheorem`. The action property, from the `Occupied` check. The run
  checks the stronger `RefinesLease`.
- `CapsTheorem`. The caps, from the checks made under the lock.
- `LeaseTheorem`. `Relay` implements `IdentityLease` under the mapping of
  `RelayLease`. Only three actions change the registry: an admitted
  `RegisterPeer` is a `Claim`, `Deregister` and `SweepOnce` are `Release`s. Only
  a writer's exit changes the set of lost connections, one at a time (`Lose`);
  that an upgrade, which starts a writer, opens no lost channel again needs
  `TaskShape`. Every other step is a stutter.

Then, on lemmas on how each action moves the slots:

- `SlotsTheorem`. Each counter equals the number of tasks that hold its guard.
  Every action leaves a set of holders alone or adds or removes one connection;
  cardinality lemmas do the rest. During a second registration a task holds two
  slots, which is why two sets of holders are counted.
- `TypeTheorem`. That no unsigned counter wraps is a consequence of
  `ConnectedTheorem` and `SlotsTheorem`, not an inductive fact in its own right.
- `PexTheorem`, `ProvenTheorem`. The PEX maps' coherence and the provenance of
  ids. The latter carries the claim from the request through the session to the
  mirror.
- `RegistrationsTheorem`, behind mTLS (`Mtls`). A record's owner holds a
  registration slot as long as the record stands (`RecordsRetain`), and by
  `ProvenTheorem` two ids have two owners, so the records of a source inject
  into its slot holders, which `SlotsTheorem` and `CapsTheorem` bound. Without
  mTLS the statement is false: a connection may register a second id and its
  first record stays until the sweep.

### Routing

For any connections, ids and networks and any queue capacity above zero. The
bound on frames is any number.

None of the three properties is inductive, because they speak of queues and a
queue is filled from a list made earlier, when the registry was another one.
`TInv` therefore says of a message wherever it is what makes it right:

- `HeldInv`: sessions and records are identities their connections have held,
  which never shrinks; this is what survives a pruning between list and send.
- `SendsInv`, `QueueInv`: a gossip on a list or in a queue names an identity its
  source has held, and each addressee has held one on its network.
- `FreshInv`: a payload still to be sent to a target is newer than all the
  target has queued or received from this sender. It holds since a task reads no
  further frame before its list is empty, and fails once a target has registered
  twice and is listed under two ids; hence the exception in `OrderedDelivery`.
- `LastInv`, `OrderInv`, `Bounds`: what was received is older than what was
  sent, queues are in order, within their capacity, and lists are not spent.

`TrafficTypeTheorem`, `IsolationTheorem`, `AuthenticTheorem` and `OrderTheorem`
follow from `TrafficInvariant`.

### Limits

For any finite set of sources, any capacities, rates, windows, frame lengths and
lag. `BucketAssumption` and `PolicyAssumption` ask for a window, a map, a ban
and a strike window that are not empty, which `config.rs` validates or the code
fixes; a rate or threshold of zero is the switched-off limit.

`LInv` ties the maps to the history of calls:

- `CallsInv`: a tracked source's bucket has the window and the time of its last
  call, and what it still holds plus what was let through is at most the rate
  times the calls that found a full bucket. `RateHolds` alone says nothing about
  the tokens left and is not inductive.
- `HitsInv`: a strike record counts no more strikes than its window holds, the
  callers' lag included. `BanJustified` needs it at the strike that bans.
- `CallsTimely`, `HitsTimely`: nothing recorded is ahead of the clock. Only the
  subjects whose clock is not set back have them (`Subjects`).

`LimitsTypeTheorem` (the maps stay within `MAX_TRACKED_IPS`, the budgets within
their range, the limiters of STUN and of a connection included), `RateTheorem`,
`RecentTheorem` and `BanTheorem` follow; `BansKeptTheorem` is the action
property, from the same step lemmas.

The reflector's budgets need `StunInv`, which accounts for every response:

- `StunGlobal`: what is gone from the global bucket is what was sent in its
  window, summed over all sources, and no later window has a response.
- `StunSources`: what is gone from a tracked source's bucket was sent to that
  source in the bucket's window.
- `StunTimely`: a source that was sent something in the current window is still
  tracked unless as many other sources as the map holds were heard in it. It is
  what eviction could break, and why `ReflectionBounded` promises the
  per-source budget only to a source among few.

`ReflectionTheorem` (no window exceeds the global budget, nor a source among few
its own) and `SpendTheorem` (a refused request costs neither budget anything)
follow. `ConnInv` says that a connection is served exactly while its frames are
within the limits, and that while it is, its limiter holds what they left:
`AdmitTheorem`, whatever the clock does.

### The service installer

`ServiceProofs`, for any configurations and any number of commands, with a
failing call, a kill or a reboot anywhere. What a report says is about
registrations changed many steps before, so the invariant `SInv` has

- `StageShape`: which process can be at which stage, with what right;
- `Progress`: the scopes still to do and those done are those to clear;
- `Knowledge`: a removal recorded as clean left its domain empty, and a probe
  that answered "absent" was right.

`UninstallTheorem`, `InstallTheorem`, `RefusedTheorem` and `AddressedTheorem`
are its conjuncts. They are about `ServiceSpec`; `ServiceBehaves` shows that
`Surroundings`, whose run checks the same properties, implements it.

### The way in

For every client, every trust list, every address width and bits of a byte, and
every way the bytes are cut into reads. `FrontAssumption` says what a client and
an entry of a list are, and that the signature begins with two line ends, as the
code's does.

`TrustByBits`: `Cidr::contains`, which compares whole bytes and then the high bits
of one more, agrees with comparing the leading bits of the two addresses as
numbers, for every prefix length. It is an induction along the bytes.

`DInv` follows the bytes through the layers: while a header is read it is all
that was read (`HeaderStage`); after it, what was handed up, what a stream has
still to replay and what is unread are together what the client meant for the
layer above (`Handed`); the identity is that of the handshake that came first
(`TlsStage`); the head reader's buffer is all that came through TLS, without a
terminator so far (`HeadStage`); what was peeked is replayed in front of what
follows (`ReplayStage`). `ByteStreamIntact`, `SourceIsSound`, `AnswersMatch` and
`IdentityIsVerified` are its consequences. The answer's proof needs the whole of
it: that the head which was parsed is the client's head rests on every byte
before it having been accounted for.

### The surroundings

For any peers and offers, any geo database, any nodes, answers and bounds;
`DashAssumption`, `MapAssumption` and `SweepAssumption` only type them, the last
but one with places of the world and cells that divide it evenly.
`SurroundingsInv` has one part for each of the first three subjects' state:

- `LifeInv`: where the process is says what has been decided. `ExitTellsWhy` is
  about the end alone; that a failing process has its reason still to show is
  what carries it there. `ExitCodeTellsWhy` follows.
- `SweepInv`: outside the building of a view no answer is in a batch, and the
  stored view is the one built from the answers recorded as behind it.
  `NoAnswerLost` is a conjunct. `StoredViewIsTheUnion` is `ViewFacts`, which is
  about every list of answers: the records gathered are those of the answers; a
  key is among them as often as it was reported, which is the number of its nodes
  where none reports it twice; its count is the largest; the
  slots can be put in the order of publication, because `Before` is a strict
  total order on slots of different keys; and what the cut leaves out comes
  after what it keeps.
- `DashInv`: the counter is the size of the registry; a listing is the registry
  of some moment, and the present one until a change overtakes the request; a
  request that reached the map's second read asked for the map. `StatsAddUp` and
  `MapAddsUp` follow with `SharesAddUp`, the latter with lemmas on what `snap` does
  to a coordinate inside the world and on its edge, `PublishedAddressesSound` with lemmas on
  each stage of `resolve_dialable` (rewriting, removal of repetitions, the cap,
  the two families in order).

To be reasoned about, `Distinct` and `OfFamily` of `Dialable` are recursive
functions and `Sorted` of `DhtView` is a choice, in place of library operators
(`SelectSeq`, `SortSeq`) that the prover cannot expand.

### Only model-checked

- *Liveness* (`TeardownCompletes`, `DeadRecordsGo`, `SilentClientReaped`,
  `WholeOrEnded`, `StopAnswered`): it rests on fairness, and TLAPS does not reason
  about `ENABLED`.
- The five findings are counterexamples, so there is nothing to prove.

## 5. Not modelled

- *Encodings and layout*: the JSON of messages and pages, HTML, the bytes of a
  STUN response, logs. The models keep which document or message it is.
- *Relayed-byte counters* of `RelayState`: they only grow and nothing reads them
  but the pages.
- *PEX validation and cadence*: the engine is the dig-pex library. Removal of an
  engine's pending deltas is not represented, only the sets it works on.
- *TLS*: the handshake is rustls's; `Tls` keeps what the verifier decides.
- *The geolocation database*: a table handed to `PeerMap`.
- *Range checks of `config.rs`*: a configuration is usable, invalid, or lacks
  its TLS files.
- *The `status` command and the health line*: they only read.
- *A WebSocket ping* resets the read timer without stamping `last_activity`; the
  models treat only frames that stamp it.
- *`continuation_guard.rs`*: a test-only scanner of the repository's text.
