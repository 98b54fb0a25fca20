-------------------------------- MODULE PeerMap --------------------------------
(***************************************************************************)
(* The globe's data (src/map.rs, src/geoip.rs): every registered peer is   *)
(* snapped to the coarse grid cell of its first locatable address, or      *)
(* counted unknown.  Coordinates are whole degrees; a cell is named by its *)
(* centroid in half degrees, which keeps it an integer.                    *)
(***************************************************************************)
EXTENDS Dialable, FiniteSetsExt

CONSTANTS
    CellDeg,     \* MAP_CELL_DEG
    GeoDb        \* the database: [lat, lon] of each <<net, host>> it can locate

ASSUME MapAssumption ==
    /\ CellDeg \in Nat \ {0} /\ \E n \in 1..90 : 90 = n * CellDeg
    /\ \A place \in DOMAIN GeoDb : GeoDb[place] \in [lat : -90..90, lon : -180..180]

Nowhere == [lat |-> 1000, lon |-> 1000]

IsPublic(ip) ==
    /\ ip.net \notin LocalNets
    /\ ip.form = "v4" => ip.net \notin {"broadcast", "documentation"}

\* lookup_ip in the maxminddb database, which is external.
LookupIp(ip) ==
    IF <<ip.net, ip.host>> \in DOMAIN GeoDb THEN GeoDb[<<ip.net, ip.host>>] ELSE Nowhere

\* geoip::locate; `db` says whether a database could be opened.
Locate(db, ip) ==
    LET canonical == Canonical(ip) IN
    IF db /\ IsPublic(canonical) THEN LookupIp(canonical) ELSE Nowhere

Snap(coord) == (2 * (coord \div CellDeg) + 1) * CellDeg

\* Mutant: only the first address is asked about.
FirstLocatedOfHead(addrs, db) ==
    IF addrs = <<>> THEN Nowhere ELSE Locate(db, addrs[1].ip)

FirstLocated(addrs, db) ==
    LET located == {i \in DOMAIN addrs : Locate(db, addrs[i].ip) # Nowhere} IN
    IF located = {} THEN Nowhere ELSE Locate(db, addrs[Min(located)].ip)

\* `registered` maps each peer_id to its RelayPeerInfo.
BuildMapSnapshot(registered, db) ==
    LET at == [p \in DOMAIN registered |-> FirstLocated(registered[p].addresses, db)]
        located == {p \in DOMAIN registered : at[p] # Nowhere}
        cellOf == [p \in located |-> <<Snap(at[p].lat), Snap(at[p].lon)>>]
        cells == [c \in {cellOf[p] : p \in located} |->
                     Cardinality({p \in located : cellOf[p] = c})]
    IN [total_peers |-> Cardinality(DOMAIN registered),
        located_peers |-> FoldFunction(+, 0, cells),
        unknown_peers |-> Cardinality(DOMAIN registered \ located),
        cells |-> cells]

-------------------------------------------------------------------------------

\* A coordinate lies within half a cell of a centroid, the lower edge included
\* and the upper one where the world ends.
Within(coord, end, centroid) ==
    /\ centroid - CellDeg <= 2 * coord
    /\ 2 * coord < centroid + CellDeg \/ (coord = end /\ 2 * coord = centroid + CellDeg)

\* A place lies in the cell with this centroid.
InCell(place, cell) == Within(place.lat, 90, cell[1]) /\ Within(place.lon, 180, cell[2])

\* A place on the far edge of the world, which begins a cell beyond it, and the
\* centroids that are in the world.
OnFarEdge(place) == place.lat = 90 \/ place.lon = 180
InWorld(cell) == -180 <= cell[1] /\ cell[1] <= 180 /\ -360 <= cell[2] /\ cell[2] <= 360

\* The places the database gives for a peer's published addresses.
Places(info, db) == {Locate(db, a.ip) : a \in Range(info.addresses)} \ {Nowhere}
===============================================================================
