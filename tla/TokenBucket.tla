---------------------------- MODULE TokenBucket -----------------------------
(***************************************************************************)
(* The leaf of every rate limit (src/limits.rs): a bucket refilled to its  *)
(* capacity in each new one-second window, and the bound on how many       *)
(* sources a map of such records tracks.                                   *)
(*                                                                         *)
(* A HashMap<IpKey, _> is a function on the set of keys it holds.  Where   *)
(* the victim of an eviction depends on the map's iteration order (several *)
(* records last seen in the same millisecond), any of them may go.         *)
(***************************************************************************)
EXTENDS Integers, FiniteSets, Functions

CONSTANTS
    WindowLen,   \* clock ticks in a one-second window (1000 ms)
    MaxTracked   \* MAX_TRACKED_IPS

ASSUME BucketAssumption == WindowLen \in Nat \ {0} /\ MaxTracked \in Nat \ {0}

Window(now) == now \div WindowLen

\* TokenBucket::new
NewBucket(capacity, now) ==
    [tokens |-> capacity, window |-> Window(now), last_seen |-> now]

\* The tokens a call at `now` finds: a bucket of another window is refilled.
Available(b, capacity, now) == IF b.window = Window(now) THEN b.tokens ELSE capacity

\* Mutant: a bucket that is out of tokens is not touched.
TrySpendUntouched(b, capacity, now) ==
    IF Available(b, capacity, now) = 0 THEN b
    ELSE [tokens |-> Available(b, capacity, now) - 1,
          window |-> Window(now), last_seen |-> now]

\* Mutant: the subtraction is not guarded.
TrySpendUnderflows(b, capacity, now) ==
    [tokens |-> Available(b, capacity, now) - 1, window |-> Window(now), last_seen |-> now]

\* Mutant: the window is not advanced with the refill.
TrySpendStaleWindow(b, capacity, now) ==
    [tokens |-> IF Available(b, capacity, now) = 0 THEN 0
                ELSE Available(b, capacity, now) - 1,
     window |-> b.window, last_seen |-> now]

\* TokenBucket::try_spend: the bucket afterwards; the call succeeds when
\* Available is positive.
TrySpend(b, capacity, now) ==
    [tokens |-> IF Available(b, capacity, now) = 0 THEN 0
                ELSE Available(b, capacity, now) - 1,
     window |-> Window(now), last_seen |-> now]

\* HashMap::insert and HashMap::remove
Put(map, key, value) ==
    [k \in DOMAIN map \cup {key} |-> IF k = key THEN value ELSE map[k]]
Drop(map, key) == Restrict(map, DOMAIN map \ {key})

Full(map, key) == key \notin DOMAIN map /\ Cardinality(DOMAIN map) >= MaxTracked

\* The least recently seen records of a map.
Oldest(map) ==
    {k \in DOMAIN map : \A j \in DOMAIN map : map[k].last_seen <= map[j].last_seen}

\* Mutant: the record seen last is evicted.
MakeRoomNewest(map, key) ==
    IF Full(map, key)
    THEN {Drop(map, victim) : victim \in
             {k \in DOMAIN map : \A j \in DOMAIN map : map[k].last_seen >= map[j].last_seen}}
    ELSE {map}

\* evict_lru_if_full, evict_lru_strikes and bucket_for: the maps that can be
\* left once there is room for key.
MakeRoom(map, key) ==
    IF Full(map, key) THEN {Drop(map, victim) : victim \in Oldest(map)} ELSE {map}
=============================================================================
