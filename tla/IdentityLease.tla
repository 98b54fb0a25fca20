---------------------------- MODULE IdentityLease -----------------------------
(***************************************************************************)
(* What the relay promises of peer ids, without saying how: an id is       *)
(* leased to at most one connection at a time; a lease is granted one at a *)
(* time, within the capacity, and only for an id that is free or whose     *)
(* holder's channel is lost; a lost channel stays lost.  Leases end        *)
(* without the holder's consent, so the relay owes no more than that.      *)
(***************************************************************************)
EXTENDS FiniteSets, Naturals

CONSTANTS
    Ids,          \* the peer ids
    Holders,      \* the connections
    Free,         \* "nobody holds it"
    Capacity      \* the most leases at a time

VARIABLES
    holder,       \* who holds each id
    lost          \* the connections whose channel is gone

Held == {p \in Ids : holder[p] # Free}

Init ==
    /\ holder = [p \in Ids |-> Free]
    /\ lost = {}

Claim(p, c) ==
    /\ holder[p] \in {Free} \cup lost
    /\ Cardinality(Held) < Capacity
    /\ holder' = [holder EXCEPT ![p] = c]
    /\ UNCHANGED lost

Release(P) ==
    /\ holder' = [p \in Ids |-> IF p \in P THEN Free ELSE holder[p]]
    /\ UNCHANGED lost

Lose(c) ==
    /\ lost' = lost \cup {c}
    /\ UNCHANGED holder

Next ==
    \/ \E P \in SUBSET Held : Release(P)
    \/ \E c \in Holders : Lose(c)
    \/ \E p \in Ids, c \in Holders : Claim(p, c)

Spec == Init /\ [][Next]_<<holder, lost>>
===============================================================================
