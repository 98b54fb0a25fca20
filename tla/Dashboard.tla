------------------------------- MODULE Dashboard -------------------------------
(***************************************************************************)
(* The public pages over a changing registry (src/dashboard.rs, serve_http *)
(* with live_snapshot and live_map_snapshot).  A request reads the         *)
(* registry under its lock, the counters afterwards and without it, and    *)
(* for the map the registry a second time; peers register and leave in     *)
(* between.  Registration is modelled by what it leaves in the registry.   *)
(***************************************************************************)
EXTENDS PeerMap

CONSTANTS
    PeerIds,       \* the peers
    LongIds,       \* the peers whose id is longer than PEER_ID_PREFIX_LEN
    SplitIds,      \* those of them whose prefix ends inside a character
    Offers,        \* what a peer may register with: [network, advertised, source]
    AnyOffers,     \* every such offer within bounds, for a peer on its own
    DocPaths       \* the documents asked for

ASSUME DashAssumption ==
    /\ SplitIds \subseteq LongIds /\ LongIds \subseteq PeerIds
    /\ \A p \in PeerIds : \A offer \in Offers[p] : IsOffer(offer)
    /\ \A offer \in AnyOffers : IsOffer(offer)

VARIABLES
    peers,         \* the registry: peer_id -> RelayPeerInfo and how it was offered
    connected,     \* RelayState.connected
    geo,           \* could the geo database be opened
    page           \* the request being served

dashVars == <<peers, connected, geo, page>>

NoPage == [stage |-> "none", path |-> "none", full |-> FALSE, listed |-> <<>>,
           counted |-> 0, changed |-> FALSE]

DashInit ==
    /\ peers = <<>>
    /\ connected = 0
    /\ geo \in BOOLEAN
    /\ page = NoPage

\* register_peer under the registry lock: a new id is counted, a reclaimed
\* one is not.
PeerInfo(offer) ==
    [network |-> offer.network, offer |-> offer,
     addresses |-> ResolveDialable(offer.advertised, offer.source)]

\* The listing and the count of a page no longer show one moment.
Overtaken == [page EXCEPT !.changed = @ \/ page.stage = "count"]

\* Mutant: a reclaimed id is counted again.
RegisteredAlwaysCounts(p, offer) ==
    /\ peers' = [q \in DOMAIN peers \cup {p} |-> IF q = p THEN PeerInfo(offer) ELSE peers[q]]
    /\ connected' = IF connected < Cardinality(PeerIds) THEN connected + 1 ELSE connected
    /\ page' = Overtaken
    /\ UNCHANGED geo

Registered(p, offer) ==
    /\ peers' = [q \in DOMAIN peers \cup {p} |-> IF q = p THEN PeerInfo(offer) ELSE peers[q]]
    /\ connected' = connected + (IF p \in DOMAIN peers THEN 0 ELSE 1)
    /\ page' = Overtaken
    /\ UNCHANGED geo

\* unregister or the health sweep, both under the lock.
Unregistered(p) ==
    /\ p \in DOMAIN peers
    /\ peers' = [q \in DOMAIN peers \ {p} |-> peers[q]]
    /\ connected' = connected - 1
    /\ page' = Overtaken
    /\ UNCHANGED geo

\* serve_http: the head is read; the document is not the STUN vhost's.
Request(path, full) ==
    /\ page.stage = "none"
    /\ page' = [NoPage EXCEPT !.stage = "list", !.path = path, !.full = full]
    /\ UNCHANGED <<peers, connected, geo>>

\* live_snapshot, first half: registry.peers(None) under the lock.
ListPeers ==
    /\ page.stage = "list"
    /\ page' = [page EXCEPT !.stage = "count", !.listed = peers, !.changed = FALSE]
    /\ UNCHANGED <<peers, connected, geo>>

TruncateFails == ~page.full /\ DOMAIN page.listed \cap SplitIds # {}

\* live_snapshot, second half: counters_of reads the atomics without the
\* lock, then build_snapshot.  Cutting an id inside a character panics and
\* ends the connection's task.
CountPeers ==
    /\ page.stage = "count"
    /\ page' = CASE TruncateFails -> [page EXCEPT !.stage = "panicked"]
                 [] ~TruncateFails /\ page.path = "/map.json" ->
                       [page EXCEPT !.stage = "locate", !.listed = <<>>]
                 [] ~TruncateFails /\ page.path # "/map.json" ->
                       [page EXCEPT !.stage = "served", !.counted = connected]
    /\ UNCHANGED <<peers, connected, geo>>

\* live_map_snapshot: a second registry read, whose peers are the map's.
LocatePeers ==
    /\ page.stage = "locate"
    /\ page' = [page EXCEPT !.stage = "served", !.listed = peers]
    /\ UNCHANGED <<peers, connected, geo>>

\* The response is written and the connection closes.
EndPage ==
    /\ page.stage \in {"served", "panicked"}
    /\ page' = NoPage
    /\ UNCHANGED <<peers, connected, geo>>

ServePage == ListPeers \/ CountPeers \/ LocatePeers \/ EndPage

DashNext ==
    \/ \E p \in PeerIds : \E offer \in Offers[p] : Registered(p, offer)
    \/ \E p \in PeerIds : Unregistered(p)
    \/ \E path \in DocPaths, full \in BOOLEAN : Request(path, full)
    \/ ServePage

\* Registrations alone, with every offer there is.
DialNext ==
    \/ /\ peers = <<>>
       /\ \E p \in PeerIds, offer \in AnyOffers : Registered(p, offer)
    \/ \E p \in PeerIds : Unregistered(p)

(***************************************************************************)
(* The documents built from what the request read.                         *)
(***************************************************************************)
\* address_family of the first address.
AddressFamily(addrs) == IF addrs = <<>> THEN "none" ELSE Family(addrs[1])

PeerRow(p, info, full) ==
    [full_id |-> full \/ p \notin LongIds,
     network |-> info.network,
     via |-> IF info.addresses = <<>> THEN "relay" ELSE "direct",
     address_family |-> AddressFamily(info.addresses)]

BuildSnapshot(listed, counted, full) ==
    [active_reservations |-> Cardinality(DOMAIN listed),
     connected_peers |-> counted,
     networks |-> [n \in {listed[p].network : p \in DOMAIN listed} |->
                      Cardinality({p \in DOMAIN listed : listed[p].network = n})],
     peers |-> [p \in DOMAIN listed |-> PeerRow(p, listed[p], full)]]

-------------------------------------------------------------------------------

Stats == BuildSnapshot(page.listed, page.counted, page.full)
Globe == BuildMapSnapshot(page.listed, geo)

\* Whatever a peer advertises and wherever it is seen, each address the relay
\* publishes for it is tied to its own observed source.
DialableSound ==
    \A p \in DOMAIN peers :
        Publishable(peers[p].addresses, peers[p].offer.advertised, peers[p].offer.source)

\* A served /stats.json adds up: one row per reservation, the networks sum to
\* the reservations, a row is "direct" exactly when something was advertised,
\* it says "v4" only where no IPv6 address is published, an id is shown in
\* full only on request or where it is short, and connected_peers equals
\* active_reservations unless the registry changed between the two reads.
StatsHonest ==
    page.stage = "served" /\ page.path = "/stats.json" =>
        /\ FoldFunction(+, 0, Stats.networks) = Stats.active_reservations
        /\ DOMAIN Stats.peers = DOMAIN page.listed
        /\ \A p \in DOMAIN page.listed :
              LET row == Stats.peers[p]
                  info == page.listed[p]
              IN /\ row.via = "direct" <=> info.offer.advertised # <<>>
                 /\ row.address_family = "v4" =>
                       \A a \in Range(info.addresses) : Family(a) = "v4"
                 /\ row.full_id => page.full \/ p \notin LongIds
        /\ ~page.changed => Stats.connected_peers = Stats.active_reservations

\* A served /map.json adds up: located and unknown peers make the total, the
\* cells make the located, every cell holds as many peers as it says, each by
\* an address the database puts inside that cell, a peer is unknown only when
\* none of its addresses can be located, and a centroid is in the world unless
\* a peer of its cell is on the far edge.
MapHonest ==
    page.stage = "served" /\ page.path = "/map.json" =>
        LET unlocatable == {p \in DOMAIN page.listed : Places(page.listed[p], geo) = {}} IN
        /\ Globe.located_peers + Globe.unknown_peers = Globe.total_peers
        /\ Globe.unknown_peers = Cardinality(unlocatable)
        /\ \A c \in DOMAIN Globe.cells :
              LET near == [p \in DOMAIN page.listed |->
                             {place \in Places(page.listed[p], geo) : InCell(place, c)}]
              IN /\ Globe.cells[c] \in 1..Cardinality({p \in DOMAIN near : near[p] # {}})
                 /\ InWorld(c) \/ \E p \in DOMAIN near : \E place \in near[p] : OnFarEdge(place)
===============================================================================
