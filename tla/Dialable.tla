------------------------------- MODULE Dialable -------------------------------
(***************************************************************************)
(* The addresses the relay publishes for a peer (src/dial.rs): the         *)
(* candidates the peer advertised, each tied to the source address the     *)
(* relay observed.  An IP address is [form, net, host]: its form ("v4",    *)
(* "v6" or "mapped", an IPv4 address in IPv6 form), its range or, for a    *)
(* global address, its network (the /64 of an IPv6 one), and the host in   *)
(* it.  A socket address adds a port.                                      *)
(***************************************************************************)
EXTENDS Integers, Sequences, FiniteSets, Functions

CONSTANT MaxDialable      \* MAX_DIALABLE_CANDIDATES

ASSUME DialAssumption == MaxDialable \in Nat \ {0}

\* The ranges no other node can dial.
LocalNets == {"unspecified", "loopback", "private", "link_local"}

Forms == {"v4", "v6", "mapped"}

IsIp(ip) == ip = [form |-> ip.form, net |-> ip.net, host |-> ip.host] /\ ip.form \in Forms

\* What a peer may register with: a list of socket addresses, and the source
\* the relay sees it at.
IsOffer(offer) ==
    /\ offer.advertised \in Seq(Range(offer.advertised))
    /\ \A c \in Range(offer.advertised) : c = [ip |-> c.ip, port |-> c.port] /\ IsIp(c.ip)
    /\ IsIp(offer.source)

Canonical(ip) == IF ip.form = "mapped" THEN [ip EXCEPT !.form = "v4"] ELSE ip

IsUnroutable(ip) == Canonical(ip).net \in LocalNets

SameIpv6Prefix64(a, b) == a.net = b.net

\* Mutant: IPv4 addresses too are compared by their networks.
BelongsToSourceByNet(advertised, reflexive) ==
    LET a == Canonical(advertised)
        r == Canonical(reflexive)
    IN a.form = r.form /\ SameIpv6Prefix64(a, r)

BelongsToSource(advertised, reflexive) ==
    LET a == Canonical(advertised)
        r == Canonical(reflexive)
    IN /\ a.form = r.form
       /\ IF a.form = "v4" THEN a = r ELSE SameIpv6Prefix64(a, r)

ResolveOne(candidate, reflexive) ==
    IF ~IsUnroutable(candidate.ip) /\ BelongsToSource(candidate.ip, reflexive)
    THEN candidate
    ELSE [ip |-> reflexive, port |-> candidate.port]

\* Each address at its first occurrence.
Distinct(addrs) ==
    LET kept[i \in 0..Len(addrs)] ==
            IF i = 0 THEN <<>>
            ELSE IF addrs[i] \in Range(kept[i - 1]) THEN kept[i - 1]
                 ELSE Append(kept[i - 1], addrs[i])
    IN kept[Len(addrs)]

Family(addr) == Canonical(addr.ip).form

\* The addresses of one family, in the order they came.
OfFamily(family, addrs) ==
    LET kept[i \in 0..Len(addrs)] ==
            IF i = 0 THEN <<>>
            ELSE IF Family(addrs[i]) = family THEN Append(kept[i - 1], addrs[i])
                 ELSE kept[i - 1]
    IN kept[Len(addrs)]

\* A stable sort by family.
OrderIpv6First(addrs) == OfFamily("v6", addrs) \o OfFamily("v4", addrs)

ResolveDialable(advertised, reflexive) ==
    LET resolved == [i \in DOMAIN advertised |-> ResolveOne(advertised[i], reflexive)]
        unique == Distinct(resolved)
    IN OrderIpv6First(SubSeq(unique, 1, IF Len(unique) < MaxDialable
                                        THEN Len(unique) ELSE MaxDialable))

-------------------------------------------------------------------------------

\* What may be published of a peer seen at `reflexive`: only hosts that are
\* the source itself or its own IPv6 prefix, only ports that were advertised,
\* nothing twice, at most MaxDialable, IPv6 before IPv4, and something
\* whenever the peer advertised anything.
Publishable(addrs, advertised, reflexive) ==
    LET r == Canonical(reflexive) IN
    /\ \A a \in Range(addrs) :
          /\ \/ Canonical(a.ip) = r
             \/ r.form = "v6" /\ a.ip.form = "v6" /\ a.ip.net = r.net
          /\ \E c \in Range(advertised) : c.port = a.port
    /\ Cardinality(Range(addrs)) = Len(addrs)
    /\ Len(addrs) <= MaxDialable
    /\ \A i, j \in DOMAIN addrs :
          Family(addrs[i]) = "v4" /\ Family(addrs[j]) = "v6" => j < i
    /\ advertised # <<>> => addrs # <<>>
===============================================================================
