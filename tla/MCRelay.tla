------------------------------ MODULE MCRelay -------------------------------
(* Small instances of Relay for TLC. *)
EXTENDS RelayLease, TLC

CONSTANTS c1, c2, c3, p1, p2, i1, i2

\* All connections from one source, on the plain listener.
OneSource == [c \in Conns |-> i1]
PlainListener == [c \in Conns |-> AnyPeer]

\* mTLS: c1 and c2 hold the key of p1, every other connection that of p2.
MtlsListener == [c \in Conns |-> IF c \in {c1, c2} THEN p1 ELSE p2]

\* The owner of p1 roams: c2 comes from another source than c1 and c3.
Roaming == [c \in Conns |-> IF c = c2 THEN i2 ELSE i1]

ConnSymmetry == Permutations(Conns)
PeerSymmetry == Permutations(Peers)
Symmetry == ConnSymmetry \cup PeerSymmetry \cup Permutations(Networks)
=============================================================================
