---------------------------- MODULE LimitsProofs -----------------------------
(***************************************************************************)
(* Proofs about Limits, for any sources, capacities, windows and lag.      *)
(* First allow_registration: its map stays bounded and typed, the rate     *)
(* holds over every sequence of calls, and only the sources seen longest   *)
(* ago are forgotten.  Then the limiters together: each one's state stays  *)
(* bounded and typed, and bans are kept and justified.                     *)
(***************************************************************************)
EXTENDS Limits, FiniteSetTheorems, TLAPS

-----------------------------------------------------------------------------
(* Windows and maps *)

\* Windows are numbered.
LEMMA WindowType == \A t \in Nat : Window(t) \in Nat
BY BucketAssumption DEF Window

\* Evicting one key of a full map makes room for another.
LEMMA RoomMade ==
    ASSUME NEW D, IsFiniteSet(D), Cardinality(D) <= MaxTracked, NEW E, NEW key,
           \/ E = D /\ ~(key \notin D /\ Cardinality(D) >= MaxTracked)
           \/ \E v \in D : E = D \ {v}
    PROVE  IsFiniteSet(E) /\ Cardinality(E \cup {key}) <= MaxTracked
<1>1. Cardinality(D) \in Nat /\ MaxTracked \in Nat
  BY FS_CardinalityType, BucketAssumption
<1>2. CASE E = D
  <2>1. CASE key \in D
    <3>1. D \cup {key} = D
      BY <2>1
    <3> QED  BY <1>2, <3>1
  <2>2. CASE key \notin D
    <3>1. Cardinality(D \cup {key}) = Cardinality(D) + 1
      BY <2>2, FS_AddElement
    <3> QED  BY <1>1, <1>2, <2>2, <3>1
  <2> QED  BY <2>1, <2>2
<1>3. ASSUME NEW v \in D, E = D \ {v}
      PROVE  IsFiniteSet(E) /\ Cardinality(E \cup {key}) <= MaxTracked
  <2>1. IsFiniteSet(E) /\ Cardinality(E) = Cardinality(D) - 1
    BY <1>3, FS_RemoveElement
  <2>2. Cardinality(E \cup {key}) <= Cardinality(E) + 1
    <3>1. Cardinality(E \cup {key}) = IF key \in E THEN Cardinality(E) ELSE Cardinality(E) + 1
      BY <2>1, FS_AddElement
    <3> QED  BY <1>1, <2>1, <3>1
  <2>3. Cardinality(E \cup {key}) \in Nat
    BY <2>1, FS_AddElement, FS_CardinalityType
  <2> QED  BY <1>1, <2>1, <2>2, <2>3
<1> QED  BY <1>2, <1>3

\* A map left by an eviction, and by one of the least recently seen.
LeftFor(map, key, room) ==
    /\ DOMAIN room \subseteq DOMAIN map /\ IsFiniteSet(DOMAIN room)
    /\ \A k \in DOMAIN room : room[k] = map[k]
    /\ key \in DOMAIN map => room = map
    /\ Cardinality(DOMAIN room \cup {key}) <= MaxTracked

\* What evict_lru_if_full leaves: room for the key, at the cost of an oldest one.
LEMMA MakeRoomFacts ==
    ASSUME NEW T, NEW map, map \in [DOMAIN map -> T], IsFiniteSet(DOMAIN map),
           Cardinality(DOMAIN map) <= MaxTracked,
           NEW key, NEW room \in MakeRoom(map, key)
    PROVE  /\ LeftFor(map, key, room)
           /\ room \in [DOMAIN room -> T]
           /\ \A v \in DOMAIN map \ DOMAIN room :
                 \A j \in DOMAIN map : map[v].last_seen <= map[j].last_seen
<1>1. CASE ~Full(map, key)
  <2>1. room = map
    BY <1>1 DEF MakeRoom
  <2>2. Cardinality(DOMAIN map \cup {key}) <= MaxTracked
    BY <1>1, RoomMade DEF Full
  <2> QED  BY <2>1, <2>2 DEF LeftFor
<1>2. CASE Full(map, key)
  <2>1. PICK v \in Oldest(map) : room = Drop(map, v)
    BY <1>2 DEF MakeRoom
  <2>2. v \in DOMAIN map /\ \A j \in DOMAIN map : map[v].last_seen <= map[j].last_seen
    BY DEF Oldest
  <2>3. /\ DOMAIN room = DOMAIN map \ {v} /\ room \in [DOMAIN room -> T]
        /\ \A k \in DOMAIN room : room[k] = map[k]
    BY <2>1 DEF Drop, Restrict
  <2>4. IsFiniteSet(DOMAIN room) /\ Cardinality(DOMAIN room \cup {key}) <= MaxTracked
    BY <2>2, <2>3, RoomMade, Zenon
  <2> QED  BY <1>2, <2>2, <2>3, <2>4 DEF LeftFor, Full
<1> QED  BY <1>1, <1>2

-----------------------------------------------------------------------------
(* What the calls so far left in the buckets *)

Call == [key : Keys, at : Nat, ok : BOOLEAN, fresh : BOOLEAN]

OkCalls(k) == {i \in CallsOf(k) : calls[i].ok}
RefilledCalls(k) == {i \in CallsOf(k) : Refilled(k, i)}

\* The first call of a source is a fresh one, and before every later one, and
\* now, there is a last.
CallsShape ==
    /\ calls \in Seq(Call)
    /\ \A k \in Keys : \A i \in 1..(Len(calls) + 1) : Earlier(k, i) # {} =>
          \E last \in Earlier(k, i) : \A j \in Earlier(k, i) : j <= last
    /\ \A k \in Keys : \A i \in CallsOf(k) : Earlier(k, i) = {} => calls[i].fresh

\* A tracked source's bucket is as its last call left it, and what it still
\* holds has not been let through.
CallsInv ==
    /\ CallsShape
    /\ \A k \in DOMAIN reg_buckets :
          /\ CallsOf(k) # {}
          /\ reg_buckets[k].last_seen = calls[Last(CallsOf(k))].at
          /\ reg_buckets[k].window = Window(calls[Last(CallsOf(k))].at)
          /\ Cardinality(OkCalls(k)) + reg_buckets[k].tokens
                <= RegRate * Cardinality(RefilledCalls(k))
    /\ RateHolds /\ RecentTracked

\* No call is recorded ahead of the clock.
CallsTimely == \A i \in DOMAIN calls : calls[i].at <= now

-----------------------------------------------------------------------------
(* The registration rate *)

\* The last of a set of calls is the one no other is after.
LEMMA LastFacts ==
    ASSUME NEW S, NEW i \in S, \A j \in S : j <= i, S \subseteq Nat
    PROVE  Last(S) = i
<1>1. Last(S) \in S /\ \A j \in S : j <= Last(S)
  BY Zenon DEF Last
<1>2. Last(S) <= i /\ i <= Last(S) /\ i \in Nat /\ Last(S) \in Nat
  BY <1>1, Zenon
<1> QED  BY <1>2

\* The calls of a source are those before the next, and have a last one.
LEMMA EarlierFacts ==
    ASSUME CallsShape, NEW k \in Keys
    PROVE  /\ CallsOf(k) \subseteq 1..Len(calls) /\ IsFiniteSet(CallsOf(k))
           /\ CallsOf(k) = Earlier(k, Len(calls) + 1)
           /\ \A i \in 1..(Len(calls) + 1) : Earlier(k, i) # {} => Last(Earlier(k, i)) \in Earlier(k, i)
<1>1. calls \in Seq(Call) /\ Len(calls) \in Nat /\ DOMAIN calls = 1..Len(calls)
  BY DEF CallsShape
<1>2. CallsOf(k) \subseteq 1..Len(calls)
  BY <1>1 DEF CallsOf
<1>3. IsFiniteSet(CallsOf(k))
  <2>1. IsFiniteSet(1..Len(calls))
    BY <1>1, FS_Interval
  <2> QED  BY <1>2, <2>1, FS_Subset, Zenon
<1>4. CallsOf(k) = Earlier(k, Len(calls) + 1)
  BY <1>1, <1>2 DEF Earlier
<1>5. ASSUME NEW i \in 1..(Len(calls) + 1), Earlier(k, i) # {}
      PROVE  Last(Earlier(k, i)) \in Earlier(k, i)
  <2>1. PICK m \in Earlier(k, i) : \A j \in Earlier(k, i) : j <= m
    BY <1>5 DEF CallsShape
  <2>2. Earlier(k, i) \subseteq Nat
    BY <1>2 DEF Earlier
  <2> QED  BY <2>1, <2>2, LastFacts
<1> QED  BY <1>2, <1>3, <1>4, <1>5

\* What one more call, numbered n, does to the history.
LEMMA CallRecorded ==
    ASSUME CallsShape, NEW k \in Keys, NEW c \in Call, c.key = k,
           CallsOf(k) = {} => c.fresh,
           calls' = Append(calls, c), NEW n, n = Len(calls) + 1
    PROVE  /\ CallsShape'
           /\ calls'[n] = c /\ \A i \in 1..Len(calls) : calls'[i] = calls[i]
           /\ CallsOf(k)' = CallsOf(k) \cup {n} /\ Last(CallsOf(k)') = n
           /\ \A j \in Keys : j # k => CallsOf(j)' = CallsOf(j)
           /\ \A j \in Keys : \A i \in CallsOf(j) : Refilled(j, i)' <=> Refilled(j, i)
           /\ Refilled(k, n)' <=> c.fresh \/ Window(calls[Last(CallsOf(k))].at) # Window(c.at)
<1>1. calls \in Seq(Call) /\ Len(calls) \in Nat /\ DOMAIN calls = 1..Len(calls)
  BY DEF CallsShape
<1>2. /\ calls' \in Seq(Call) /\ Len(calls') = n /\ DOMAIN calls' = 1..n
      /\ calls'[n] = c /\ \A i \in 1..Len(calls) : calls'[i] = calls[i]
  BY <1>1
<1>3. CallsOf(k)' = CallsOf(k) \cup {n} /\ \A j \in Keys : j # k => CallsOf(j)' = CallsOf(j)
  <2>1. CallsOf(k)' = CallsOf(k) \cup {n}
    BY <1>1, <1>2 DEF CallsOf
  <2>2. \A j \in Keys : j # k => CallsOf(j)' = CallsOf(j)
    BY <1>1, <1>2 DEF CallsOf
  <2> QED  BY <2>1, <2>2
<1>4. \A j \in Keys : CallsOf(j) \subseteq 1..Len(calls)
  BY EarlierFacts
<1>5. Last(CallsOf(k)') = n
  <2>1. \A j \in CallsOf(k)' : j <= n
    BY <1>1, <1>3, <1>4
  <2>2. n \in CallsOf(k)' /\ CallsOf(k)' \subseteq Nat
    BY <1>1, <1>3, <1>4
  <2> QED  BY <2>1, <2>2, LastFacts
<1>6. ASSUME NEW j \in Keys, NEW i \in 1..n PROVE Earlier(j, i)' = Earlier(j, i)
  BY <1>1, <1>3, <1>4 DEF Earlier
<1>7. ASSUME NEW j \in Keys, NEW i \in CallsOf(j) PROVE Refilled(j, i)' <=> Refilled(j, i)
  <2>1. i \in 1..Len(calls) /\ i \in 1..n /\ calls'[i] = calls[i] /\ Earlier(j, i)' = Earlier(j, i)
    BY <1>1, <1>2, <1>4, <1>6
  <2>2. CASE Earlier(j, i) = {}
    <3>1. calls[i].fresh
      BY <2>2 DEF CallsShape
    <3> QED  BY <2>1, <3>1 DEF Refilled
  <2>3. CASE Earlier(j, i) # {}
    <3>1. Last(Earlier(j, i)) \in 1..Len(calls)
      BY <1>4, <2>1, <2>3, EarlierFacts, Zenon DEF Earlier
    <3> QED  BY <1>2, <2>1, <3>1 DEF Refilled
  <2> QED  BY <2>2, <2>3
<1>8. Refilled(k, n)' <=> c.fresh \/ Window(calls[Last(CallsOf(k))].at) # Window(c.at)
  <2>1. n \in 1..n /\ Earlier(k, n)' = CallsOf(k)
    BY <1>1, <1>6, EarlierFacts
  <2>2. CASE CallsOf(k) = {}
    BY <1>2, <2>2 DEF Refilled
  <2>3. CASE CallsOf(k) # {}
    <3>1. Last(CallsOf(k)) \in 1..Len(calls)
      BY <1>1, <1>4, <2>3, EarlierFacts
    <3> QED  BY <1>2, <2>1, <3>1 DEF Refilled
  <2> QED  BY <2>2, <2>3
<1>9. CallsShape'
  <2>1. ASSUME NEW j \in Keys, NEW i \in 1..(n + 1), Earlier(j, i)' # {}
        PROVE  \E last \in Earlier(j, i)' : \A x \in Earlier(j, i)' : x <= last
    <3>1. CASE i \in 1..n
      BY <1>6, <2>1, <3>1 DEF CallsShape
    <3>2. CASE i = n + 1 /\ j = k
      <4>1. Earlier(k, i)' = CallsOf(k) \cup {n}
        BY <1>1, <1>3, <1>4, <3>2 DEF Earlier
      <4>2. \A x \in CallsOf(k) \cup {n} : x <= n
        BY <1>1, <1>4
      <4> QED  BY <3>2, <4>1, <4>2
    <3>3. CASE i = n + 1 /\ j # k
      <4>1. Earlier(j, i)' = CallsOf(j)
        BY <1>1, <1>3, <1>4, <3>3 DEF Earlier
      <4>2. CallsOf(j) = Earlier(j, n) /\ n \in 1..n
        BY <1>1, EarlierFacts
      <4> QED  BY <2>1, <4>1, <4>2 DEF CallsShape
    <3> QED  BY <1>1, <3>1, <3>2, <3>3
  <2>2. ASSUME NEW j \in Keys, NEW i \in CallsOf(j)', Earlier(j, i)' = {}
        PROVE  calls'[i].fresh
    <3>1. CASE i \in CallsOf(j)
      <4>1. i \in 1..Len(calls) /\ i \in 1..n
        BY <1>1, <1>4, <3>1
      <4> QED  BY <1>2, <1>6, <2>2, <3>1, <4>1 DEF CallsShape
    <3>2. CASE i = n /\ j = k
      <4>1. CallsOf(k) = {}
        BY <1>1, <1>6, <2>2, <3>2, EarlierFacts
      <4> QED  BY <1>2, <3>2, <4>1
    <3> QED  BY <1>3, <3>1, <3>2, Zenon
  <2> QED  BY <1>2, <2>1, <2>2, Zenon DEF CallsShape
<1> QED  BY <1>2, <1>3, <1>5, <1>7, <1>8, <1>9

\* try_spend stays within the capacity and stamps the bucket.
LEMMA SpendFacts ==
    ASSUME NEW cap \in Nat, NEW b \in [tokens : 0..cap, window : Nat, last_seen : Nat],
           NEW at \in Nat
    PROVE  /\ TrySpend(b, cap, at) \in [tokens : 0..cap, window : Nat, last_seen : Nat]
           /\ Available(b, cap, at) \in 0..cap
           /\ TrySpend(b, cap, at).window = Window(at) /\ TrySpend(b, cap, at).last_seen = at
           /\ TrySpend(b, cap, at).tokens =
                 IF Available(b, cap, at) = 0 THEN 0 ELSE Available(b, cap, at) - 1
<1>1. Available(b, cap, at) \in 0..cap
  BY DEF Available
<1>2. Window(at) \in Nat
  BY WindowType
<1> QED  BY <1>1, <1>2 DEF TrySpend

\* One more element, or not, of a finite set of naturals.
LEMMA CountOne ==
    ASSUME NEW S, IsFiniteSet(S), NEW n, n \notin S, NEW p \in BOOLEAN,
           NEW T, T = IF p THEN S \cup {n} ELSE S
    PROVE  Cardinality(T) = Cardinality(S) + (IF p THEN 1 ELSE 0) /\ Cardinality(S) \in Nat
BY FS_AddElement, FS_CardinalityType

\* allow_registration preserves all that is said of its map and its calls.
LEMMA RegisterStep ==
    ASSUME PolicyTypeOK, MapsBounded, CallsInv, CallsTimely,
           NEW k \in Keys, NEW at \in Readings, NEW ok \in BOOLEAN, Register(k, at, ok)
    PROVE  PolicyTypeOK' /\ MapsBounded' /\ CallsInv' /\ CallsTimely'
<1> DEFINE c == [key |-> k, at |-> at, ok |-> ok, fresh |-> k \notin DOMAIN reg_buckets]
<1>1. /\ now \in Nat /\ at \in Nat /\ at <= now /\ now <= at + MaxLag
      /\ MaxLag \in Nat /\ RegRate \in Nat \ {0}
  BY PolicyAssumption DEF Readings, PolicyTypeOK, Register, AllowRegistration
<1>2. /\ reg_buckets \in [DOMAIN reg_buckets -> Bucket] /\ DOMAIN reg_buckets \subseteq Keys
      /\ IsFiniteSet(DOMAIN reg_buckets) /\ Cardinality(DOMAIN reg_buckets) <= MaxTracked
  BY PolicyAssumption, FS_Subset DEF PolicyTypeOK, MapsBounded
<1>3. PICK map \in MakeRoom(reg_buckets, k) :
         LET b == IF k \in DOMAIN map THEN map[k] ELSE NewBucket(RegRate, at) IN
         /\ ok = (Available(b, RegRate, at) > 0)
         /\ reg_buckets' = Put(map, k, TrySpend(b, RegRate, at))
  BY DEF Register, AllowRegistration
<1> DEFINE b == IF k \in DOMAIN map THEN map[k] ELSE NewBucket(RegRate, at)
           spent == TrySpend(b, RegRate, at)
<1>4. ok = (Available(b, RegRate, at) > 0) /\ reg_buckets' = Put(map, k, spent)
  BY <1>3
<1> HIDE DEF c, b, spent
<1>5. /\ LeftFor(reg_buckets, k, map) /\ map \in [DOMAIN map -> Bucket]
      /\ \A v \in DOMAIN reg_buckets \ DOMAIN map : \A j \in DOMAIN reg_buckets :
            reg_buckets[v].last_seen <= reg_buckets[j].last_seen
  BY <1>2, MakeRoomFacts, Zenon
<1>6. /\ DOMAIN map \subseteq DOMAIN reg_buckets /\ (\A j \in DOMAIN map : map[j] = reg_buckets[j])
      /\ k \in DOMAIN reg_buckets => map = reg_buckets
      /\ Cardinality(DOMAIN map \cup {k}) <= MaxTracked
  BY <1>5 DEF LeftFor
<1>7. b \in Bucket
  BY <1>1, <1>5, WindowType DEF NewBucket, Bucket, b
<1>8. /\ spent \in Bucket /\ Available(b, RegRate, at) \in 0..RegRate
      /\ spent.window = Window(at) /\ spent.last_seen = at
      /\ spent.tokens = IF Available(b, RegRate, at) = 0 THEN 0 ELSE Available(b, RegRate, at) - 1
  BY <1>1, <1>7, SpendFacts DEF Bucket, spent
<1>9. /\ DOMAIN reg_buckets' = DOMAIN map \cup {k}
      /\ reg_buckets' \in [DOMAIN reg_buckets' -> Bucket]
      /\ reg_buckets'[k] = spent
      /\ \A j \in DOMAIN map : j # k => reg_buckets'[j] = map[j]
  <2>1. /\ DOMAIN Put(map, k, spent) = DOMAIN map \cup {k}
        /\ Put(map, k, spent) \in [DOMAIN Put(map, k, spent) -> Bucket]
        /\ Put(map, k, spent)[k] = spent
        /\ \A j \in DOMAIN map : j # k => Put(map, k, spent)[j] = map[j]
    <3>1. map \in [DOMAIN map -> Bucket] /\ spent \in Bucket
      BY <1>5, <1>8
    <3> QED  BY <3>1 DEF Put
  <2> QED  BY <1>4, <2>1, Zenon
<1>10. PolicyTypeOK' /\ MapsBounded'
  BY <1>2, <1>6, <1>9 DEF PolicyTypeOK, MapsBounded, Register, AllowRegistration
<1>11. c \in Call /\ c.key = k /\ calls' = Append(calls, c)
  BY <1>1 DEF Call, Register, c
<1>12. CallsShape /\ calls \in Seq(Call) /\ Len(calls) \in Nat
  BY DEF CallsInv, CallsShape
<1>13. PICK n : n = Len(calls) + 1
  BY Zenon
<1>14. CallsOf(k) = {} => c.fresh
  BY Zenon DEF CallsInv, c
<1> DEFINE refilled == c.fresh \/ Window(calls[Last(CallsOf(k))].at) # Window(c.at)
<1>15. /\ CallsShape'
       /\ calls'[n] = c /\ \A i \in 1..Len(calls) : calls'[i] = calls[i]
       /\ CallsOf(k)' = CallsOf(k) \cup {n} /\ Last(CallsOf(k)') = n
       /\ \A j \in Keys : j # k => CallsOf(j)' = CallsOf(j)
       /\ \A j \in Keys : \A i \in CallsOf(j) : Refilled(j, i)' <=> Refilled(j, i)
       /\ Refilled(k, n)' <=> refilled
  BY <1>11, <1>12, <1>13, <1>14, CallRecorded DEF refilled
<1>16. \A j \in Keys : CallsOf(j) \subseteq 1..Len(calls) /\ IsFiniteSet(CallsOf(j))
  BY <1>12, EarlierFacts
<1>17. n \notin 1..Len(calls) /\ n \in Nat
  BY <1>12, <1>13
<1> HIDE DEF refilled
<1>18. ASSUME NEW j \in Keys, j # k
       PROVE  OkCalls(j)' = OkCalls(j) /\ RefilledCalls(j)' = RefilledCalls(j)
  BY <1>15, <1>16, <1>18 DEF OkCalls, RefilledCalls
<1>19. c.ok = ok /\ c.at = at /\ c.fresh = (k \notin DOMAIN reg_buckets)
  BY Zenon DEF c
<1>20. OkCalls(k)' = IF ok THEN OkCalls(k) \cup {n} ELSE OkCalls(k)
  BY <1>15, <1>16, <1>19, Zenon DEF OkCalls
<1>21. RefilledCalls(k)' = IF refilled THEN RefilledCalls(k) \cup {n} ELSE RefilledCalls(k)
  BY <1>15, <1>16 DEF RefilledCalls
<1>22. /\ IsFiniteSet(OkCalls(k)) /\ IsFiniteSet(RefilledCalls(k))
       /\ n \notin OkCalls(k) /\ n \notin RefilledCalls(k)
  BY <1>16, <1>17, FS_Subset DEF OkCalls, RefilledCalls
<1>23. /\ Cardinality(OkCalls(k)') = Cardinality(OkCalls(k)) + (IF ok THEN 1 ELSE 0)
       /\ Cardinality(OkCalls(k)) \in Nat
  BY <1>20, <1>22, CountOne
<1>24. /\ Cardinality(RefilledCalls(k)') = Cardinality(RefilledCalls(k)) + (IF refilled THEN 1 ELSE 0)
       /\ Cardinality(RefilledCalls(k)) \in Nat
  <2>1. refilled \in BOOLEAN
    BY DEF refilled
  <2> QED  BY <1>21, <1>22, <2>1, CountOne
<1>25. /\ refilled => Available(b, RegRate, at) = RegRate
       /\ ~refilled => k \in DOMAIN reg_buckets /\ Available(b, RegRate, at) = reg_buckets[k].tokens
  <2>1. CASE k \notin DOMAIN reg_buckets
    BY <1>6, <1>19, <2>1, Zenon DEF refilled, b, NewBucket, Available
  <2>2. CASE k \in DOMAIN reg_buckets
    <3>1. b = reg_buckets[k] /\ b.window = Window(calls[Last(CallsOf(k))].at)
      BY <1>6, <2>2 DEF b, CallsInv
    <3> QED  BY <1>19, <2>2, <3>1, Zenon DEF refilled, Available
  <2> QED  BY <2>1, <2>2, Zenon
<1>26. /\ Cardinality(OkCalls(k)) <= RegRate * Cardinality(RefilledCalls(k))
       /\ k \in DOMAIN reg_buckets => Cardinality(OkCalls(k)) + reg_buckets[k].tokens
                                         <= RegRate * Cardinality(RefilledCalls(k))
  BY DEF CallsInv, RateHolds, OkCalls, RefilledCalls
<1>27. Cardinality(OkCalls(k)') + spent.tokens <= RegRate * Cardinality(RefilledCalls(k)')
  <2>1. Cardinality(OkCalls(k)') + spent.tokens = Cardinality(OkCalls(k)) + Available(b, RegRate, at)
    <3>1. CASE Available(b, RegRate, at) = 0
      <4>1. ~(Available(b, RegRate, at) > 0)
        BY <3>1
      <4>2. ~ok
        BY <1>4, <4>1, Zenon
      <4>3. Cardinality(OkCalls(k)') = Cardinality(OkCalls(k))
        BY <1>23, <4>2
      <4> QED  BY <1>8, <1>23, <3>1, <4>3
    <3>2. CASE Available(b, RegRate, at) # 0
      <4>3. Available(b, RegRate, at) > 0
        BY <1>8, <3>2
      <4>1. ok
        BY <1>4, <4>3, Zenon
      <4>2. Cardinality(OkCalls(k)') = Cardinality(OkCalls(k)) + 1
        BY <1>23, <4>1
      <4> QED  BY <1>8, <1>23, <3>2, <4>2
    <3> QED  BY <3>1, <3>2
  <2>2. CASE refilled
    <3>1. RegRate * Cardinality(RefilledCalls(k)') = RegRate * Cardinality(RefilledCalls(k)) + RegRate
      BY <1>1, <1>24, <2>2
    <3>2. RegRate * Cardinality(RefilledCalls(k)) \in Nat
      BY <1>1, <1>24
    <3> QED  BY <1>1, <1>23, <1>25, <1>26, <2>1, <2>2, <3>1, <3>2
  <2>3. CASE ~refilled
    BY <1>24, <1>25, <1>26, <2>1, <2>3
  <2> QED  BY <2>2, <2>3
<1>28. RateHolds'
  <2>1. Cardinality(OkCalls(k)') <= RegRate * Cardinality(RefilledCalls(k)')
    BY <1>1, <1>8, <1>23, <1>24, <1>27 DEF Bucket
  <2>2. ASSUME NEW j \in Keys
        PROVE  Cardinality(OkCalls(j)') <= RegRate * Cardinality(RefilledCalls(j)')
    BY <1>18, <2>1, Zenon DEF CallsInv, RateHolds, OkCalls, RefilledCalls
  <2> QED  BY <2>2 DEF RateHolds, OkCalls, RefilledCalls
<1>29. ASSUME NEW j \in Keys, CallsOf(j) # {}, j # k
       PROVE  /\ Last(CallsOf(j)) \in 1..Len(calls) /\ CallsOf(j)' = CallsOf(j)
              /\ calls'[Last(CallsOf(j)')] = calls[Last(CallsOf(j))]
  <2>1. Len(calls) + 1 \in 1..(Len(calls) + 1)
    BY <1>12
  <2>2. Last(CallsOf(j)) \in CallsOf(j)
    BY <1>12, <1>29, <2>1, EarlierFacts
  <2> QED  BY <1>15, <1>16, <1>29, <2>2
<1>30. ASSUME NEW j \in DOMAIN reg_buckets'
       PROVE  /\ CallsOf(j)' # {}
              /\ reg_buckets'[j].last_seen = calls'[Last(CallsOf(j)')].at
              /\ reg_buckets'[j].window = Window(calls'[Last(CallsOf(j)')].at)
              /\ Cardinality(OkCalls(j)') + reg_buckets'[j].tokens
                    <= RegRate * Cardinality(RefilledCalls(j)')
  <2>1. CASE j = k
    BY <1>8, <1>9, <1>15, <1>19, <1>27, <2>1, Zenon
  <2>2. CASE j # k
    <3>1. j \in DOMAIN reg_buckets /\ j \in Keys /\ reg_buckets'[j] = reg_buckets[j]
      BY <1>2, <1>6, <1>9, <1>30, <2>2
    <3>2. CallsOf(j) # {}
      BY <3>1 DEF CallsInv
    <3>3. OkCalls(j)' = OkCalls(j) /\ RefilledCalls(j)' = RefilledCalls(j)
      BY <1>18, <2>2, <3>1, Zenon
    <3> QED  BY <1>29, <2>2, <3>1, <3>2, <3>3 DEF CallsInv
  <2> QED  BY <2>1, <2>2
<1>31. RecentTracked'
  <2>1. SUFFICES ASSUME NEW j \in Keys, NEW t \in Keys, CallsOf(j)' # {},
                        j \notin DOMAIN reg_buckets', t \in DOMAIN reg_buckets'
                 PROVE  calls'[Last(CallsOf(j)')].at <= calls'[Last(CallsOf(t)')].at + MaxLag
    BY DEF RecentTracked
  <2>2. j # k /\ j \notin DOMAIN map
    BY <1>9, <2>1, Zenon
  <2>3. CallsOf(j) # {}
    BY <1>15, <2>1, <2>2, Zenon
  <2>4. calls'[Last(CallsOf(j)')] = calls[Last(CallsOf(j))] /\ Last(CallsOf(j)) \in 1..Len(calls)
    BY <1>29, <2>2, <2>3, Zenon
  <2>5. calls[Last(CallsOf(j))].at <= now /\ calls[Last(CallsOf(j))].at \in Nat
    <3>1. calls[Last(CallsOf(j))] \in Call /\ Last(CallsOf(j)) \in DOMAIN calls
      BY <1>12, <2>4
    <3> QED  BY <3>1 DEF CallsTimely, Call
  <2>6. CASE t = k
    <3>1. calls'[Last(CallsOf(t)')].at = at
      BY <1>15, <1>19, <2>6, Zenon
    <3> QED  BY <1>1, <2>4, <2>5, <3>1
  <2>7. CASE t # k
    <3>1. t \in DOMAIN reg_buckets /\ CallsOf(t) # {}
      BY <1>6, <1>9, <2>1, <2>7 DEF CallsInv
    <3>2. calls'[Last(CallsOf(t)')] = calls[Last(CallsOf(t))]
      BY <1>29, <2>7, <3>1
    <3>3. CASE j \notin DOMAIN reg_buckets
      BY <2>3, <2>4, <3>1, <3>2, <3>3, Zenon DEF CallsInv, RecentTracked
    <3>4. CASE j \in DOMAIN reg_buckets
      <4>1. reg_buckets[j].last_seen <= reg_buckets[t].last_seen
        BY <1>5, <2>2, <3>1, <3>4, Zenon
      <4>2. /\ reg_buckets[j].last_seen = calls[Last(CallsOf(j))].at
            /\ reg_buckets[t].last_seen = calls[Last(CallsOf(t))].at
        BY <3>1, <3>4 DEF CallsInv
      <4>3. reg_buckets[t].last_seen \in Nat
        BY <1>2, <3>1, Zenon DEF Bucket
      <4> QED  BY <1>1, <2>4, <2>5, <3>2, <4>1, <4>2, <4>3
    <3> QED  BY <3>3, <3>4
  <2> QED  BY <2>6, <2>7, Zenon
<1>32. CallsTimely'
  <2>1. now' = now /\ DOMAIN calls' = 1..n
    BY <1>11, <1>12, <1>13 DEF Register, AllowRegistration
  <2>2. \A i \in 1..n : i = n \/ i \in 1..Len(calls)
    BY <1>12, <1>13
  <2>3. DOMAIN calls = 1..Len(calls)
    BY <1>12
  <2> QED  BY <1>1, <1>15, <1>19, <2>1, <2>2, <2>3, Zenon DEF CallsTimely
<1> QED  BY <1>10, <1>15, <1>28, <1>30, <1>31, <1>32 DEF CallsInv

-----------------------------------------------------------------------------
(* The inductive invariant *)

Hit == [key : Keys, at : Nat]

\* The strikes a record counts lie in its window, up to the callers' lag.
HitsInv ==
    /\ hits \in Seq(Hit)
    /\ \A k \in DOMAIN strikes :
          LET start == strikes[k].window_start
          IN  Cardinality(StrikesIn(k, start - MaxLag, start + StrikeWindow)) >= strikes[k].count
    /\ BanJustified

\* No strike, no window and no ban is ahead of the clock.
HitsTimely ==
    /\ \A i \in DOMAIN hits : hits[i].at <= now
    /\ \A k \in DOMAIN strikes : strikes[k].window_start <= now
    /\ \A k \in DOMAIN bans : bans[k] <= now + BanDuration

\* Only a connection's own limiter sees the clock set back, and a connection
\* is struck once, at its end.
Subjects ==
    /\ subject = "rate" => CallsTimely
    /\ subject = "bans" => HitsTimely
    /\ subject = "conn" /\ serving => hits = <<>> /\ DOMAIN strikes = {} /\ DOMAIN bans = {}

\* The limiter of the connection is a record of its two buckets and a total.
ConnShape ==
    /\ conn \in [msgs : [tokens : Nat, window : Nat, last_seen : Nat],
                 bytes : [remaining : Nat, window : Nat], relayed_total : Nat]
    /\ frames \in Seq([second : Nat, len : Nat])

LInv == LimitsTypeOK /\ CallsInv /\ HitsInv /\ Subjects /\ ConnShape

-----------------------------------------------------------------------------
(* Strikes and bans *)

\* What BansKept says of one step.
BansMove ==
    \A k \in DOMAIN bans :
        \/ k \in DOMAIN bans' /\ bans'[k] >= bans[k] - MaxLag
        \/ now >= bans[k]
        \/ /\ Cardinality(DOMAIN bans) >= MaxTracked
           /\ \A j \in DOMAIN bans : bans[k] <= bans[j]

\* What evict_soonest_ban leaves: room for the key, at the cost of the
\* ban closest to lapsing.
LEMMA BanRoomFacts ==
    ASSUME PolicyTypeOK, MapsBounded, NEW k, NEW room \in MakeBanRoom(k)
    PROVE  /\ LeftFor(bans, k, room)
           /\ room \in [DOMAIN room -> Nat]
           /\ \A v \in DOMAIN bans \ DOMAIN room :
                 /\ Cardinality(DOMAIN bans) >= MaxTracked
                 /\ \A j \in DOMAIN bans : bans[v] <= bans[j]
<1>1. /\ bans \in [DOMAIN bans -> Nat] /\ IsFiniteSet(DOMAIN bans)
      /\ Cardinality(DOMAIN bans) <= MaxTracked
  BY PolicyAssumption, FS_Subset DEF PolicyTypeOK, MapsBounded
<1>2. CASE ~Full(bans, k)
  <2>1. room = bans
    BY <1>2 DEF MakeBanRoom
  <2>2. Cardinality(DOMAIN bans \cup {k}) <= MaxTracked
    BY <1>1, <1>2, RoomMade DEF Full
  <2> QED  BY <1>1, <2>1, <2>2 DEF LeftFor
<1>3. CASE Full(bans, k)
  <2>1. PICK v \in DOMAIN bans : /\ \A j \in DOMAIN bans : bans[v] <= bans[j]
                                 /\ room = Drop(bans, v)
    BY <1>3 DEF MakeBanRoom
  <2>2. /\ DOMAIN room = DOMAIN bans \ {v} /\ room \in [DOMAIN room -> Nat]
        /\ \A j \in DOMAIN room : room[j] = bans[j]
    BY <1>1, <2>1 DEF Drop, Restrict
  <2>3. IsFiniteSet(DOMAIN room) /\ Cardinality(DOMAIN room \cup {k}) <= MaxTracked
    BY <1>1, <2>2, RoomMade, Zenon
  <2> QED  BY <1>3, <2>1, <2>2, <2>3 DEF LeftFor, Full
<1> QED  BY <1>2, <1>3

\* The strikes of k in a list of them.
HitsOf(list, k, first, last) ==
    {i \in DOMAIN list : list[i].key = k /\ list[i].at \in first..last}

\* One more strike, at `at`, of k.
LEMMA HitRecorded ==
    ASSUME hits \in Seq(Hit), NEW k \in Keys, NEW at \in Nat,
           hits' = Append(hits, [key |-> k, at |-> at])
    PROVE  /\ hits' \in Seq(Hit)
           /\ \A j, first, last : /\ IsFiniteSet(HitsOf(hits', j, first, last))
                                  /\ Cardinality(HitsOf(hits', j, first, last)) \in Nat
                                  /\ Cardinality(HitsOf(hits, j, first, last)) \in Nat
                                  /\ Cardinality(HitsOf(hits, j, first, last))
                                        <= Cardinality(HitsOf(hits', j, first, last))
           /\ \A first, last : at \in first..last =>
                 Cardinality(HitsOf(hits', k, first, last))
                    = Cardinality(HitsOf(hits, k, first, last)) + 1
           /\ \A i \in DOMAIN hits' : hits'[i].at = at \/ \E j \in DOMAIN hits : hits'[i].at = hits[j].at
<1> DEFINE n == Len(hits) + 1
<1>1. /\ DOMAIN hits = 1..Len(hits) /\ Len(hits) \in Nat /\ n \notin DOMAIN hits
      /\ hits' \in Seq(Hit) /\ DOMAIN hits' = DOMAIN hits \cup {n}
      /\ hits'[n] = [key |-> k, at |-> at]
      /\ \A i \in DOMAIN hits : hits'[i] = hits[i]
  BY DEF Hit
<1>2. IsFiniteSet(DOMAIN hits) /\ IsFiniteSet(DOMAIN hits')
  BY <1>1, FS_Interval, FS_AddElement
<1> HIDE DEF n
<1>3. ASSUME NEW j, NEW first, NEW last
      PROVE  /\ IsFiniteSet(HitsOf(hits', j, first, last))
             /\ Cardinality(HitsOf(hits', j, first, last)) \in Nat
             /\ Cardinality(HitsOf(hits, j, first, last)) \in Nat
             /\ Cardinality(HitsOf(hits, j, first, last))
                   <= Cardinality(HitsOf(hits', j, first, last))
  <2>1. HitsOf(hits', j, first, last) \subseteq DOMAIN hits'
    BY DEF HitsOf
  <2>2. HitsOf(hits, j, first, last) \subseteq HitsOf(hits', j, first, last)
    BY <1>1 DEF HitsOf
  <2>3. IsFiniteSet(HitsOf(hits', j, first, last))
    BY <1>2, <2>1, FS_Subset, Zenon
  <2> QED  BY <2>2, <2>3, FS_Subset, FS_CardinalityType, Zenon
<1>4. ASSUME NEW first, NEW last, at \in first..last
      PROVE  Cardinality(HitsOf(hits', k, first, last))
                = Cardinality(HitsOf(hits, k, first, last)) + 1
  <2>1. HitsOf(hits', k, first, last) = HitsOf(hits, k, first, last) \cup {n}
    BY <1>1, <1>4 DEF HitsOf
  <2>2. n \notin HitsOf(hits, k, first, last) /\ HitsOf(hits, k, first, last) \subseteq DOMAIN hits
    BY <1>1, Zenon DEF HitsOf
  <2>3. IsFiniteSet(HitsOf(hits, k, first, last))
    BY <1>2, <2>2, FS_Subset, Zenon
  <2> QED  BY <2>1, <2>2, <2>3, FS_AddElement, Zenon
<1>5. \A i \in DOMAIN hits' : hits'[i].at = at \/ \E j \in DOMAIN hits : hits'[i].at = hits[j].at
  BY <1>1
<1> QED  BY <1>1, <1>3, <1>4, <1>5

\* The record one more strike leaves counts strikes of its window.
LEMMA StruckFacts ==
    ASSUME PolicyTypeOK, HitsInv, HitsTimely, NEW k \in Keys, NEW at \in Readings,
           NEW map, map \in [DOMAIN map -> StrikeRecord], LeftFor(strikes, k, map),
           hits' = Append(hits, [key |-> k, at |-> at]), NEW r, r = Struck(map, k, at)
    PROVE  /\ r \in StrikeRecord /\ r.count >= 1 /\ r.window_start <= now
           /\ at - r.window_start <= StrikeWindow
           /\ Cardinality(HitsOf(hits', k, r.window_start - MaxLag, r.window_start + StrikeWindow))
                 >= r.count
<1>1. /\ now \in Nat /\ at \in Nat /\ at <= now /\ now - at <= MaxLag
      /\ MaxLag \in Nat /\ StrikeWindow \in Nat
  BY PolicyAssumption DEF Readings, PolicyTypeOK
<1>2. hits \in Seq(Hit)
  BY DEF HitsInv
<1> DEFINE first == r.window_start - MaxLag
           last == r.window_start + StrikeWindow
<1>3. CASE r = [count |-> 1, window_start |-> at, last_seen |-> at]
  <2>1. /\ r \in StrikeRecord /\ r.count = 1 /\ r.window_start = at
        /\ at \in first..last
    BY <1>1, <1>3 DEF StrikeRecord
  <2>2. /\ Cardinality(HitsOf(hits', k, first, last)) = Cardinality(HitsOf(hits, k, first, last)) + 1
        /\ Cardinality(HitsOf(hits, k, first, last)) \in Nat
    BY <1>1, <1>2, <2>1, HitRecorded
  <2> QED  BY <1>1, <2>1, <2>2
<1>4. CASE /\ k \in DOMAIN map /\ at - map[k].window_start <= StrikeWindow
           /\ r = [count |-> map[k].count + 1, window_start |-> map[k].window_start,
                   last_seen |-> at]
  <2>1. map = strikes /\ map[k] \in StrikeRecord
    BY <1>4 DEF LeftFor
  <2>2. /\ r \in StrikeRecord /\ r.count = strikes[k].count + 1 /\ r.count >= 1
        /\ r.window_start = strikes[k].window_start
    BY <1>1, <1>4, <2>1 DEF StrikeRecord
  <2>3. strikes[k].window_start <= now /\ strikes[k].count \in Nat /\ strikes[k].window_start \in Nat
    BY <1>4, <2>1 DEF HitsTimely, StrikeRecord
  <2>4. at \in first..last
    BY <1>1, <1>4, <2>1, <2>2, <2>3
  <2>5. /\ Cardinality(HitsOf(hits', k, first, last)) = Cardinality(HitsOf(hits, k, first, last)) + 1
        /\ Cardinality(HitsOf(hits, k, first, last)) \in Nat
    BY <1>1, <1>2, <2>4, HitRecorded
  <2>6. Cardinality(HitsOf(hits, k, first, last)) >= strikes[k].count
    BY <1>4, <2>1, <2>2, Zenon DEF HitsInv, HitsOf, StrikesIn
  <2> QED  BY <1>1, <1>4, <2>1, <2>2, <2>3, <2>5, <2>6
<1>5. \/ r = [count |-> 1, window_start |-> at, last_seen |-> at]
      \/ /\ k \in DOMAIN map /\ at - map[k].window_start <= StrikeWindow
         /\ r = [count |-> map[k].count + 1, window_start |-> map[k].window_start,
                 last_seen |-> at]
  <2>1. CASE k \notin DOMAIN map
    BY <1>1, <2>1 DEF Struck
  <2>2. CASE k \in DOMAIN map
    <3>1. map[k].window_start \in Nat
      BY <2>2 DEF StrikeRecord
    <3> QED  BY <1>1, <2>2, <3>1 DEF Struck
  <2> QED  BY <2>1, <2>2, Zenon
<1> QED  BY <1>3, <1>4, <1>5

\* record_strike preserves all that is said of strikes and bans.
LEMMA StrikeStep ==
    ASSUME PolicyTypeOK, MapsBounded, HitsInv, HitsTimely,
           NEW k \in Keys, NEW at \in Readings, Strike(k, at)
    PROVE  PolicyTypeOK' /\ MapsBounded' /\ HitsInv' /\ HitsTimely' /\ BansMove
<1>1. /\ now \in Nat /\ now' = now /\ at \in Nat /\ at <= now /\ now - at <= MaxLag
      /\ MaxLag \in Nat /\ StrikeWindow \in Nat /\ BanDuration \in Nat /\ BanThreshold \in Nat \ {0}
  BY PolicyAssumption DEF Readings, PolicyTypeOK, Strike, RecordStrike
<1>2. /\ strikes \in [DOMAIN strikes -> StrikeRecord] /\ DOMAIN strikes \subseteq Keys
      /\ IsFiniteSet(DOMAIN strikes) /\ Cardinality(DOMAIN strikes) <= MaxTracked
      /\ bans \in [DOMAIN bans -> Nat] /\ DOMAIN bans \subseteq Keys
      /\ hits \in Seq(Hit) /\ hits' = Append(hits, [key |-> k, at |-> at])
  BY PolicyAssumption, FS_Subset, Zenon DEF PolicyTypeOK, MapsBounded, HitsInv, Strike
<1>3. PICK map \in MakeRoom(strikes, k) :
         IF Struck(map, k, at).count >= BanThreshold
         THEN /\ strikes' = Drop(map, k)
              /\ \E room \in MakeBanRoom(k) : bans' = Put(room, k, at + BanDuration)
         ELSE /\ strikes' = Put(map, k, Struck(map, k, at))
              /\ UNCHANGED bans
  BY DEF Strike, RecordStrike
<1>4. LeftFor(strikes, k, map) /\ map \in [DOMAIN map -> StrikeRecord]
  BY <1>2, MakeRoomFacts, Zenon
<1>5. /\ DOMAIN map \subseteq DOMAIN strikes /\ IsFiniteSet(DOMAIN map)
      /\ \A j \in DOMAIN map : map[j] = strikes[j]
      /\ Cardinality(DOMAIN map \cup {k}) <= MaxTracked
  BY <1>4 DEF LeftFor
<1>6. PICK r : r = Struck(map, k, at)
  BY Zenon
<1>7. /\ r \in StrikeRecord /\ r.count >= 1 /\ r.window_start <= now
      /\ at - r.window_start <= StrikeWindow
      /\ Cardinality(HitsOf(hits', k, r.window_start - MaxLag, r.window_start + StrikeWindow))
            >= r.count
  BY <1>2, <1>4, <1>6, StruckFacts
<1>8. /\ hits' \in Seq(Hit)
      /\ \A j, first, last : /\ IsFiniteSet(HitsOf(hits', j, first, last))
                             /\ Cardinality(HitsOf(hits', j, first, last)) \in Nat
                             /\ Cardinality(HitsOf(hits, j, first, last)) \in Nat
                             /\ Cardinality(HitsOf(hits, j, first, last))
                                   <= Cardinality(HitsOf(hits', j, first, last))
      /\ \A i \in DOMAIN hits' : hits'[i].at = at \/ \E j \in DOMAIN hits : hits'[i].at = hits[j].at
  BY <1>1, <1>2, HitRecorded, Zenon
<1>9. \A i \in DOMAIN hits' : hits'[i].at <= now /\ hits'[i].at \in Nat
  <2>1. \A i \in DOMAIN hits : hits[i].at <= now /\ hits[i].at \in Nat
    <3>1. \A i \in DOMAIN hits : hits[i] \in Hit
      BY <1>2
    <3> QED  BY <3>1 DEF HitsTimely, Hit
  <2> QED  BY <1>1, <1>8, <2>1, Zenon
\* A record that is kept, and a ban that is kept, stay justified.
<1>10. ASSUME NEW j \in DOMAIN strikes
       PROVE  /\ strikes[j].window_start <= now /\ strikes[j].count \in 1..(BanThreshold - 1)
              /\ Cardinality(HitsOf(hits', j, strikes[j].window_start - MaxLag,
                                    strikes[j].window_start + StrikeWindow)) >= strikes[j].count
  <2> DEFINE first == strikes[j].window_start - MaxLag
             last == strikes[j].window_start + StrikeWindow
  <2>1. /\ Cardinality(HitsOf(hits, j, first, last)) >= strikes[j].count
        /\ strikes[j].count \in 1..(BanThreshold - 1)
    BY Zenon DEF HitsInv, BanJustified, HitsOf, StrikesIn
  <2>2. /\ Cardinality(HitsOf(hits, j, first, last)) <= Cardinality(HitsOf(hits', j, first, last))
        /\ Cardinality(HitsOf(hits, j, first, last)) \in Nat
        /\ Cardinality(HitsOf(hits', j, first, last)) \in Nat
    BY <1>8
  <2>3. strikes[j].window_start <= now
    BY Zenon DEF HitsTimely
  <2> HIDE DEF first, last
  <2>4. Cardinality(HitsOf(hits', j, first, last)) >= strikes[j].count
    BY <1>1, <2>1, <2>2
  <2> QED  BY <2>1, <2>3, <2>4, Zenon DEF first, last
<1>11. ASSUME NEW j \in DOMAIN bans
       PROVE  /\ bans[j] <= now + BanDuration
              /\ Cardinality(HitsOf(hits', j, bans[j] - BanDuration - StrikeWindow - MaxLag,
                                    bans[j] - BanDuration + MaxLag)) >= BanThreshold
  <2> DEFINE first == bans[j] - BanDuration - StrikeWindow - MaxLag
             last == bans[j] - BanDuration + MaxLag
  <2>1. Cardinality(HitsOf(hits, j, first, last)) >= BanThreshold
    BY Zenon DEF HitsInv, BanJustified, HitsOf, StrikesIn
  <2>2. /\ Cardinality(HitsOf(hits, j, first, last)) <= Cardinality(HitsOf(hits', j, first, last))
        /\ Cardinality(HitsOf(hits, j, first, last)) \in Nat
        /\ Cardinality(HitsOf(hits', j, first, last)) \in Nat
    BY <1>8
  <2>3. bans[j] <= now + BanDuration
    BY DEF HitsTimely
  <2> HIDE DEF first, last
  <2>4. Cardinality(HitsOf(hits', j, first, last)) >= BanThreshold
    BY <1>1, <2>1, <2>2
  <2> QED  BY <2>3, <2>4, Zenon DEF first, last
<1>12. CASE r.count >= BanThreshold
  <2>1. strikes' = Drop(map, k)
    BY <1>3, <1>6, <1>12, Zenon
  <2>2. PICK room \in MakeBanRoom(k) : bans' = Put(room, k, at + BanDuration)
    BY <1>3, <1>6, <1>12
  <2>3. /\ DOMAIN strikes' \subseteq DOMAIN strikes /\ DOMAIN strikes' = DOMAIN map \ {k}
        /\ strikes' \in [DOMAIN strikes' -> StrikeRecord]
        /\ \A j \in DOMAIN strikes' : strikes'[j] = strikes[j]
    BY <1>4, <1>5, <2>1 DEF Drop, Restrict
  <2>4. /\ LeftFor(bans, k, room) /\ room \in [DOMAIN room -> Nat]
        /\ \A v \in DOMAIN bans \ DOMAIN room :
              /\ Cardinality(DOMAIN bans) >= MaxTracked
              /\ \A j \in DOMAIN bans : bans[v] <= bans[j]
    BY BanRoomFacts
  <2>5. /\ DOMAIN bans' = DOMAIN room \cup {k} /\ DOMAIN room \subseteq DOMAIN bans
        /\ bans' \in [DOMAIN bans' -> Nat] /\ bans'[k] = at + BanDuration
        /\ \A j \in DOMAIN room : j # k => bans'[j] = bans[j]
        /\ Cardinality(DOMAIN bans') <= MaxTracked
    BY <1>1, <2>2, <2>4 DEF Put, LeftFor
  <2>6. Cardinality(DOMAIN strikes') <= MaxTracked
    <3>1. IsFiniteSet(DOMAIN strikes') /\ Cardinality(DOMAIN strikes') <= Cardinality(DOMAIN strikes)
      BY <1>2, <2>3, FS_Subset, Zenon
    <3> QED  BY <1>2, <3>1, FS_CardinalityType, BucketAssumption
  <2>7. PolicyTypeOK' /\ MapsBounded'
    BY <1>1, <1>2, <2>3, <2>5, <2>6, Zenon DEF PolicyTypeOK, MapsBounded, Strike, RecordStrike
  <2>8. Cardinality(HitsOf(hits', k, at - StrikeWindow - MaxLag, at + MaxLag)) >= BanThreshold
    <3>1. r.window_start \in Nat /\ r.count \in Nat
      BY <1>7, Zenon DEF StrikeRecord
    <3>2. HitsOf(hits', k, r.window_start - MaxLag, r.window_start + StrikeWindow)
             \subseteq HitsOf(hits', k, at - StrikeWindow - MaxLag, at + MaxLag)
      BY <1>1, <1>7, <1>9, <3>1 DEF HitsOf
    <3>3. Cardinality(HitsOf(hits', k, r.window_start - MaxLag, r.window_start + StrikeWindow))
             <= Cardinality(HitsOf(hits', k, at - StrikeWindow - MaxLag, at + MaxLag))
      BY <1>8, <3>2, FS_Subset, Zenon
    <3> QED  BY <1>1, <1>7, <1>8, <1>12, <3>1, <3>3
  <2>9. HitsInv'
    <3>1. ASSUME NEW j \in DOMAIN bans'
          PROVE  Cardinality(HitsOf(hits', j, bans'[j] - BanDuration - StrikeWindow - MaxLag,
                                    bans'[j] - BanDuration + MaxLag)) >= BanThreshold
      <4>1. CASE j = k
        <5>1. bans'[j] - BanDuration = at
          BY <1>1, <2>5, <4>1
        <5> QED  BY <2>8, <4>1, <5>1
      <4>2. CASE j # k
        BY <1>11, <2>5, <3>1, <4>2
      <4> QED  BY <4>1, <4>2
    <3>2. ASSUME NEW j \in DOMAIN strikes'
          PROVE  /\ strikes'[j].count \in 1..(BanThreshold - 1)
                 /\ Cardinality(HitsOf(hits', j, strikes'[j].window_start - MaxLag,
                                       strikes'[j].window_start + StrikeWindow)) >= strikes'[j].count
      BY <1>10, <2>3
    <3> QED  BY <1>8, <3>1, <3>2, Zenon DEF HitsInv, BanJustified, HitsOf, StrikesIn
  <2>10. HitsTimely'
    <3>1. \A j \in DOMAIN strikes' : strikes'[j].window_start <= now
      BY <1>10, <2>3
    <3>2. \A j \in DOMAIN bans' : bans'[j] <= now + BanDuration
      BY <1>1, <1>11, <2>5
    <3> QED  BY <1>1, <1>9, <3>1, <3>2 DEF HitsTimely
  <2>11. BansMove
    <3>1. SUFFICES ASSUME NEW j \in DOMAIN bans
                   PROVE  \/ j \in DOMAIN bans' /\ bans'[j] >= bans[j] - MaxLag
                          \/ now >= bans[j]
                          \/ /\ Cardinality(DOMAIN bans) >= MaxTracked
                             /\ \A i \in DOMAIN bans : bans[j] <= bans[i]
      BY DEF BansMove
    <3>2. CASE j = k
      BY <1>1, <1>2, <1>11, <2>5, <3>2
    <3>3. CASE j # k /\ j \in DOMAIN room
      BY <1>1, <1>2, <2>5, <3>3
    <3>4. CASE j \notin DOMAIN room
      BY <2>4, <3>4
    <3> QED  BY <3>2, <3>3, <3>4, Zenon
  <2> QED  BY <2>7, <2>9, <2>10, <2>11
<1>13. CASE ~(r.count >= BanThreshold)
  <2>1. strikes' = Put(map, k, r) /\ bans' = bans
    BY <1>3, <1>6, <1>13
  <2>2. /\ DOMAIN strikes' = DOMAIN map \cup {k} /\ strikes'[k] = r
        /\ strikes' \in [DOMAIN strikes' -> StrikeRecord]
        /\ \A j \in DOMAIN map : j # k => strikes'[j] = strikes[j]
    BY <1>4, <1>5, <1>7, <2>1, Zenon DEF Put
  <2>3. PolicyTypeOK' /\ MapsBounded'
    BY <1>1, <1>2, <1>5, <2>1, <2>2, Zenon DEF PolicyTypeOK, MapsBounded, Strike, RecordStrike
  <2>4. ASSUME NEW j \in DOMAIN strikes'
        PROVE  /\ strikes'[j].window_start <= now /\ strikes'[j].count \in 1..(BanThreshold - 1)
               /\ Cardinality(HitsOf(hits', j, strikes'[j].window_start - MaxLag,
                                     strikes'[j].window_start + StrikeWindow)) >= strikes'[j].count
    <3>1. CASE j = k
      <4>1. r.count \in 1..(BanThreshold - 1)
        BY <1>1, <1>7, <1>13 DEF StrikeRecord
      <4> QED  BY <1>7, <2>2, <3>1, <4>1
    <3>2. CASE j # k
      BY <1>5, <1>10, <2>2, <2>4, <3>2, Zenon
    <3> QED  BY <3>1, <3>2
  <2>5. HitsInv'
    BY <1>8, <1>11, <2>1, <2>4, Zenon DEF HitsInv, BanJustified, HitsOf, StrikesIn
  <2>6. HitsTimely'
    BY <1>1, <1>9, <1>11, <2>1, <2>4, Zenon DEF HitsTimely
  <2>7. BansMove
    <3>1. \A j \in DOMAIN bans : bans[j] >= bans[j] - MaxLag
      BY <1>1, <1>2
    <3> QED  BY <2>1, <3>1 DEF BansMove
  <2> QED  BY <2>3, <2>5, <2>6, <2>7, Zenon
<1> QED  BY <1>12, <1>13

-----------------------------------------------------------------------------
(* The other steps *)

\* is_banned forgets only bans that have lapsed.
LEMMA IsBannedStep ==
    ASSUME PolicyTypeOK, MapsBounded, HitsInv,
           NEW k \in Keys, NEW at \in Readings, NEW b \in BOOLEAN,
           IsBanned(k, at, b), UNCHANGED hits
    PROVE  /\ PolicyTypeOK' /\ MapsBounded' /\ HitsInv' /\ BansMove
           /\ HitsTimely => HitsTimely'
<1>1. /\ now \in Nat /\ at \in Nat /\ at <= now /\ MaxLag \in Nat /\ BanDuration \in Nat
      /\ now' = now /\ reg_buckets' = reg_buckets /\ strikes' = strikes /\ hits' = hits
  BY PolicyAssumption DEF Readings, PolicyTypeOK, IsBanned
<1>2. /\ bans \in [DOMAIN bans -> Nat] /\ IsFiniteSet(DOMAIN bans)
      /\ Cardinality(DOMAIN bans) <= MaxTracked
  BY PolicyAssumption, FS_Subset DEF PolicyTypeOK, MapsBounded
<1>3. /\ DOMAIN bans' \subseteq DOMAIN bans /\ bans' \in [DOMAIN bans' -> Nat]
      /\ \A j \in DOMAIN bans' : bans'[j] = bans[j]
      /\ \A j \in DOMAIN bans \ DOMAIN bans' : now >= bans[j]
  <2>1. CASE bans' = bans
    BY <1>2, <2>1
  <2>2. CASE bans' = Drop(bans, k) /\ ~(k \in DOMAIN bans /\ at < bans[k])
    <3>1. DOMAIN bans' = DOMAIN bans \ {k} /\ \A j \in DOMAIN bans' : bans'[j] = bans[j]
      BY <1>2, <2>2 DEF Drop, Restrict
    <3>2. bans' \in [DOMAIN bans' -> Nat]
      BY <1>2, <2>2 DEF Drop, Restrict
    <3> QED  BY <1>1, <1>2, <2>2, <3>1, <3>2
  <2> QED  BY <2>1, <2>2, Zenon DEF IsBanned
<1>4. Cardinality(DOMAIN bans') <= MaxTracked
  <2>1. Cardinality(DOMAIN bans') <= Cardinality(DOMAIN bans) /\ IsFiniteSet(DOMAIN bans')
    BY <1>2, <1>3, FS_Subset
  <2> QED  BY <1>2, <2>1, FS_CardinalityType, BucketAssumption
<1>5. PolicyTypeOK' /\ MapsBounded'
  BY <1>1, <1>3, <1>4, Zenon DEF PolicyTypeOK, MapsBounded
<1>6. HitsInv'
  BY <1>1, <1>3 DEF HitsInv, BanJustified, StrikesIn
<1>7. BansMove
  <2>1. \A j \in DOMAIN bans : bans[j] >= bans[j] - MaxLag
    BY <1>1, <1>2
  <2> QED  BY <1>3, <2>1 DEF BansMove
<1>8. HitsTimely => HitsTimely'
  BY <1>1, <1>3 DEF HitsTimely
<1> QED  BY <1>5, <1>6, <1>7, <1>8

\* The ban list does not move where it is not consulted.
LEMMA BansStay ==
    ASSUME PolicyTypeOK, UNCHANGED bans
    PROVE  BansMove
<1>1. MaxLag \in Nat /\ \A j \in DOMAIN bans : bans[j] \in Nat
  BY PolicyAssumption DEF PolicyTypeOK
<1>2. \A j \in DOMAIN bans : bans[j] >= bans[j] - MaxLag
  BY <1>1
<1> QED  BY <1>2 DEF BansMove

\* Steps that make no registration call change nothing about them.
LEMMA CallsStay ==
    ASSUME CallsInv, UNCHANGED <<calls, reg_buckets>>
    PROVE  CallsInv'
<1>1. calls' = calls /\ reg_buckets' = reg_buckets
  BY Zenon
<1>2. \A k : CallsOf(k)' = CallsOf(k)
  BY <1>1 DEF CallsOf
<1>3. \A k, i : Earlier(k, i)' = Earlier(k, i)
  BY <1>2 DEF Earlier
<1>4. \A k, i : Refilled(k, i)' <=> Refilled(k, i)
  BY <1>1, <1>3 DEF Refilled
<1>5. \A k : OkCalls(k)' = OkCalls(k) /\ RefilledCalls(k)' = RefilledCalls(k)
  BY <1>1, <1>2, <1>4, Zenon DEF OkCalls, RefilledCalls
<1>6. CallsShape'
  BY <1>1, <1>2, <1>3, Zenon DEF CallsInv, CallsShape
<1>7. RateHolds'
  BY <1>5, Zenon DEF CallsInv, RateHolds, OkCalls, RefilledCalls
<1>8. RecentTracked'
  BY <1>1, <1>2, Zenon DEF CallsInv, RecentTracked
<1> QED  BY <1>1, <1>2, <1>5, <1>6, <1>7, <1>8 DEF CallsInv

\* Steps that strike nobody change nothing about strikes and bans.
LEMMA HitsStay ==
    ASSUME HitsInv, UNCHANGED <<hits, strikes, bans>>
    PROVE  HitsInv'
BY Zenon DEF HitsInv, BanJustified, StrikesIn

\* A clock that only goes forward leaves nothing ahead of it.
LEMMA TickStep ==
    ASSUME PolicyTypeOK, MapsBounded, CallsInv, HitsInv, UNCHANGED policyState, now' \in Nat
    PROVE  /\ PolicyTypeOK' /\ MapsBounded' /\ CallsInv' /\ HitsInv'
           /\ now <= now' => (CallsTimely => CallsTimely') /\ (HitsTimely => HitsTimely')
<1>1. /\ reg_buckets' = reg_buckets /\ strikes' = strikes /\ bans' = bans
      /\ calls' = calls /\ hits' = hits /\ now \in Nat
  BY DEF policyState, PolicyTypeOK
<1>2. PolicyTypeOK' /\ MapsBounded'
  BY <1>1 DEF PolicyTypeOK, MapsBounded
<1>3. CallsInv'
  BY <1>1, CallsStay
<1>4. HitsInv'
  BY <1>1, HitsStay
<1>5. ASSUME now <= now', CallsTimely PROVE CallsTimely'
  <2>1. \A i \in DOMAIN calls : calls[i].at \in Nat
    <3>1. \A i \in DOMAIN calls : calls[i] \in Call
      BY DEF CallsInv, CallsShape
    <3> QED  BY <3>1 DEF Call
  <2> QED  BY <1>1, <1>5, <2>1 DEF CallsTimely
<1>6. ASSUME now <= now', HitsTimely PROVE HitsTimely'
  <2>1. \A i \in DOMAIN hits : hits[i].at \in Nat
    <3>1. \A i \in DOMAIN hits : hits[i] \in Hit
      BY DEF HitsInv
    <3> QED  BY <3>1 DEF Hit
  <2>2. \A j \in DOMAIN strikes : strikes[j].window_start \in Nat
    BY DEF PolicyTypeOK, StrikeRecord
  <2>3. \A j \in DOMAIN bans : bans[j] \in Nat /\ BanDuration \in Nat
    BY PolicyAssumption DEF PolicyTypeOK
  <2> QED  BY <1>1, <1>6, <2>1, <2>2, <2>3 DEF HitsTimely
<1> QED  BY <1>2, <1>3, <1>4, <1>5, <1>6

\* bucket_for makes room before it inserts, and allow only replaces buckets.
LEMMA BindingStep ==
    ASSUME StunTypeOK, NEW s \in Sources, BindingRequest(s)
    PROVE  StunTypeOK'
<1>1. /\ now \in Nat /\ now' = now /\ Window(now) \in Nat
      /\ PerIpCapacity \in Nat /\ GlobalCapacity \in Nat
  BY StunAssumption, WindowType DEF StunTypeOK, BindingRequest
<1>2. /\ per_ip \in [DOMAIN per_ip -> SourceBucket] /\ DOMAIN per_ip \subseteq Sources
      /\ IsFiniteSet(DOMAIN per_ip) /\ Cardinality(DOMAIN per_ip) <= MaxTracked
  BY StunAssumption, FS_Subset DEF StunTypeOK
<1>3. PICK map \in BucketFor(s) : Allow(s, map)
  BY DEF BindingRequest
<1>4. /\ DOMAIN map \subseteq Sources /\ map \in [DOMAIN map -> SourceBucket]
      /\ Cardinality(DOMAIN map) <= MaxTracked
  <2>1. CASE PerIpCapacity = 0
    BY <1>2, <2>1 DEF BucketFor
  <2>2. CASE PerIpCapacity # 0
    <3> DEFINE new == NewBucket(AtLeastOne(PerIpCapacity), now)
    <3>1. PICK room \in MakeRoom(per_ip, s) :
             map = IF s \in DOMAIN room THEN room ELSE Put(room, s, new)
      BY <2>2 DEF BucketFor
    <3>2. LeftFor(per_ip, s, room) /\ room \in [DOMAIN room -> SourceBucket]
      BY <1>2, MakeRoomFacts
    <3>3. new \in SourceBucket
      BY <1>1, <2>2 DEF NewBucket, AtLeastOne, SourceBucket
    <3> HIDE DEF new
    <3>4. CASE s \in DOMAIN room
      <4>1. DOMAIN room \cup {s} = DOMAIN room
        BY <3>4
      <4> QED  BY <1>2, <3>1, <3>2, <3>4, <4>1 DEF LeftFor
    <3>5. CASE s \notin DOMAIN room
      BY <1>2, <3>1, <3>2, <3>3, <3>5 DEF LeftFor, Put
    <3> QED  BY <3>4, <3>5
  <2> QED  BY <2>1, <2>2
<1>5. DOMAIN per_ip' = DOMAIN map /\ per_ip' \in [DOMAIN map -> SourceBucket]
  <2>1. CASE per_ip' = [map EXCEPT ![s].last_seen = now]
    <3>1. s \in DOMAIN map => [map[s] EXCEPT !.last_seen = now] \in SourceBucket
      BY <1>1, <1>4 DEF SourceBucket
    <3> QED  BY <1>4, <2>1, <3>1, Zenon
  <2>2. CASE per_ip' = map
    BY <1>4, <2>2
  <2>3. CASE per_ip' = [map EXCEPT ![s] = TrySpend(@, PerIpCapacity, now)]
    <3>1. s \in DOMAIN map => TrySpend(map[s], PerIpCapacity, now) \in SourceBucket
      BY <1>1, <1>4, SpendFacts DEF SourceBucket
    <3> QED  BY <1>4, <2>3, <3>1, Zenon
  <2> QED  BY <1>3, <2>1, <2>2, <2>3 DEF Allow, SpendSource
<1>6. global' \in [tokens : 0..AtLeastOne(GlobalCapacity), window : Nat, last_seen : Nat]
  <2>1. CASE global' = global
    BY <2>1 DEF StunTypeOK
  <2>2. CASE GlobalCapacity # 0 /\ global' = TrySpend(global, GlobalCapacity, now)
    <3>1. AtLeastOne(GlobalCapacity) = GlobalCapacity
      BY <2>2 DEF AtLeastOne
    <3> QED  BY <1>1, <2>2, <3>1, SpendFacts DEF StunTypeOK
  <2> QED  BY <1>3, <2>1, <2>2 DEF Allow, SpendGlobal
<1>7. answered' \in [Sources -> [Windows -> Nat]]
  <2>1. CASE answered' = answered
    BY <2>1 DEF StunTypeOK
  <2>2. CASE answered' = [answered EXCEPT ![s][Window(now)] = @ + 1]
    <3>1. answered \in [Sources -> [Windows -> Nat]] /\ answered[s] \in [Windows -> Nat]
      BY DEF StunTypeOK
    <3>2. [answered[s] EXCEPT ![Window(now)] = @ + 1] \in [Windows -> Nat]
      <4>1. CASE Window(now) \in Windows
        BY <3>1, <4>1
      <4>2. CASE Window(now) \notin Windows
        <5>1. [answered[s] EXCEPT ![Window(now)] = @ + 1] = answered[s]
          BY <3>1, <4>2
        <5> QED  BY <3>1, <5>1, Zenon
      <4> QED  BY <4>1, <4>2
    <3>3. answered' = [answered EXCEPT ![s] = [answered[s] EXCEPT ![Window(now)] = @ + 1]]
      BY <2>2, <3>1
    <3> QED  BY <3>1, <3>2, <3>3
  <2> QED  BY <1>3, <2>1, <2>2 DEF Allow
<1>8. heard' \in [Windows -> SUBSET Sources]
  BY Zenon DEF StunTypeOK, BindingRequest
<1> QED  BY <1>1, <1>4, <1>5, <1>6, <1>7, <1>8, Zenon DEF StunTypeOK

\* admit spends only what a budget holds.
LEMMA InboundStep ==
    ASSUME ConnTypeOK, ConnShape, now \in Nat, NEW len \in FrameLens, InboundFrame(len)
    PROVE  ConnTypeOK' /\ ConnShape'
<1>1. /\ limits \in ConnLimits /\ limits' = limits /\ len \in Nat /\ MaxFrames \in Nat
      /\ limits.msgs \in Nat /\ limits.bytes \in Nat /\ Window(now) \in Nat
  BY ConnAssumption, WindowType, Zenon DEF ConnTypeOK, InboundFrame
<1>2. /\ conn.msgs \in [tokens : 0..limits.msgs, window : Nat, last_seen : Nat]
      /\ conn.bytes \in [remaining : 0..limits.bytes, window : Nat]
      /\ conn.relayed_total \in Nat
  BY DEF ConnTypeOK, ConnShape
<1>3. SpendMessage \in [tokens : 0..limits.msgs, window : Nat, last_seen : Nat]
  BY <1>1, <1>2, SpendFacts DEF SpendMessage
<1>4. SpendFrame(len) \in [remaining : 0..limits.bytes, window : Nat]
  BY <1>1, <1>2 DEF SpendFrame, SpendBytes, BytesFit, Remaining
<1>5. /\ conn' \in [msgs : [tokens : 0..limits.msgs, window : Nat, last_seen : Nat],
                    bytes : [remaining : 0..limits.bytes, window : Nat], relayed_total : Nat]
      /\ serving' \in BOOLEAN
  <2>1. CASE conn' = [conn EXCEPT !.msgs = SpendMessage] /\ serving' = FALSE
    BY <1>2, <1>3, <2>1, Zenon DEF ConnShape
  <2>2. CASE /\ conn' = [conn EXCEPT !.msgs = SpendMessage, !.bytes = SpendFrame(len)]
             /\ serving' = FALSE
    BY <1>2, <1>3, <1>4, <2>2, Zenon DEF ConnShape
  <2>3. CASE /\ conn' = [msgs |-> SpendMessage, bytes |-> SpendFrame(len),
                         relayed_total |-> conn.relayed_total + len]
             /\ serving' = TotalFits(len)
    <3>1. conn.relayed_total + len \in Nat
      BY <1>1, <1>2
    <3>2. TotalFits(len) \in BOOLEAN
      BY DEF TotalFits
    <3> QED  BY <1>3, <1>4, <2>3, <3>1, <3>2
  <2> QED  BY <2>1, <2>2, <2>3, Zenon DEF InboundFrame, Admit
<1>6. frames' \in Seq([second : Nat, len : Nat]) /\ Len(frames') <= MaxFrames
  BY <1>1 DEF ConnShape, InboundFrame
<1>7. ConnTypeOK'
  BY <1>1, <1>5, <1>6, Zenon DEF ConnTypeOK
<1>8. ConnShape'
  BY <1>1, <1>5, <1>6 DEF ConnShape
<1> QED  BY <1>7, <1>8

-----------------------------------------------------------------------------
(* The theorems *)

\* The inductive invariant holds of limiters that have seen nobody.
LEMMA LInvInit == Init => LInv
<1> SUFFICES ASSUME Init PROVE LInv
  OBVIOUS
<1>1. /\ now = 0 /\ reg_buckets = EmptyMap /\ strikes = EmptyMap /\ bans = EmptyMap
      /\ calls = <<>> /\ hits = <<>> /\ serving = TRUE
  BY DEF Init, AbuseInit, PolicyInit, ConnInit
<1>2. DOMAIN EmptyMap = {} /\ Cardinality({}) = 0 /\ \A T : EmptyMap \in [{} -> T]
  BY FS_EmptySet DEF EmptyMap
<1>3. MaxTracked \in Nat /\ RegRate \in Nat /\ Window(0) \in Nat
  BY BucketAssumption, PolicyAssumption, WindowType
<1>4. PolicyTypeOK /\ MapsBounded
  BY <1>1, <1>2, <1>3 DEF PolicyTypeOK, MapsBounded
<1>5. StunTypeOK
  <2>1. AtLeastOne(GlobalCapacity) \in Nat
    BY StunAssumption DEF AtLeastOne
  <2>2. global \in [tokens : 0..AtLeastOne(GlobalCapacity), window : Nat, last_seen : Nat]
    BY <1>3, <2>1 DEF Init, StunInit, NewBucket
  <2>3. DOMAIN per_ip = {} /\ per_ip \in [{} -> SourceBucket]
    BY DEF Init, StunInit
  <2>4. answered \in [Sources -> [Windows -> Nat]] /\ heard \in [Windows -> SUBSET Sources]
    BY Zenon DEF Init, StunInit
  <2> QED  BY <1>1, <1>2, <1>3, <2>2, <2>3, <2>4 DEF StunTypeOK
<1>6. ConnTypeOK /\ ConnShape
  <2>1. limits \in ConnLimits /\ limits.msgs \in Nat /\ limits.bytes \in Nat /\ MaxFrames \in Nat
    BY ConnAssumption DEF Init, ConnInit
  <2>2. /\ conn = [msgs |-> NewBucket(limits.msgs, 0), bytes |-> NewByteBucket(limits.bytes, 0),
                   relayed_total |-> 0]
        /\ frames = <<>>
    BY <1>1 DEF Init, ConnInit
  <2>3. Len(frames) <= MaxFrames /\ frames \in Seq([second : Nat, len : Nat])
    BY <2>1, <2>2
  <2> QED  BY <1>1, <1>3, <2>1, <2>2, <2>3 DEF ConnTypeOK, ConnShape, NewBucket, NewByteBucket
<1>7. \A k, i : CallsOf(k) = {} /\ Earlier(k, i) = {} /\ OkCalls(k) = {} /\ RefilledCalls(k) = {}
  BY <1>1 DEF CallsOf, Earlier, OkCalls, RefilledCalls
<1>8. CallsInv
  <2>1. RateHolds
    <3>1. RegRate * 0 = 0
      BY <1>3
    <3>2. \A k : Cardinality(OkCalls(k)) = 0 /\ Cardinality(RefilledCalls(k)) = 0
      BY <1>2, <1>7, Zenon
    <3>3. \A k : Cardinality(OkCalls(k)) <= RegRate * Cardinality(RefilledCalls(k))
      BY <3>1, <3>2
    <3> QED  BY <3>3 DEF RateHolds, OkCalls, RefilledCalls
  <2> QED  BY <1>1, <1>2, <1>7, <2>1 DEF CallsInv, CallsShape, RecentTracked
<1>9. HitsInv
  BY <1>1, <1>2 DEF HitsInv, BanJustified
<1>10. Subjects
  BY <1>1, <1>2 DEF Subjects, CallsTimely, HitsTimely
<1> QED  BY <1>4, <1>5, <1>6, <1>8, <1>9, <1>10 DEF LInv, LimitsTypeOK

\* Every step preserves the invariant and moves bans only as BansKept allows.
LEMMA LInvStep == LInv /\ [Next]_vars => LInv' /\ BansMove
<1> SUFFICES ASSUME LInv, [Next]_vars PROVE LInv' /\ BansMove
  OBVIOUS
<1>1. /\ PolicyTypeOK /\ MapsBounded /\ StunTypeOK /\ ConnTypeOK /\ ConnShape
      /\ CallsInv /\ HitsInv /\ Subjects /\ now \in Nat /\ MaxLag \in Nat
  BY PolicyAssumption DEF LInv, LimitsTypeOK, PolicyTypeOK
\* What an action that leaves a component alone keeps of it.
<1>2. ASSUME UNCHANGED <<per_ip, global, answered, heard>>, now' \in Nat PROVE StunTypeOK'
  BY <1>1, <1>2 DEF StunTypeOK
<1>3. ASSUME UNCHANGED connVars PROVE ConnTypeOK' /\ ConnShape'
  BY <1>1, <1>3 DEF ConnTypeOK, ConnShape, connVars
<1>4. CASE subject = "rate" /\ UNCHANGED subject /\ RateNext /\ Others("rate")
  <2>1. CallsTimely
    BY <1>1, <1>4 DEF Subjects
  <2>2. UNCHANGED <<per_ip, global, answered, heard>> /\ UNCHANGED connVars /\ subject' = "rate"
    BY <1>4 DEF Others
  <2>3. /\ now' \in Nat /\ PolicyTypeOK' /\ MapsBounded' /\ CallsInv' /\ HitsInv'
        /\ CallsTimely' /\ BansMove
    <3>1. ASSUME NEW k \in Keys, NEW at \in Readings, NEW b \in BOOLEAN, Register(k, at, b)
          PROVE  /\ now' \in Nat /\ PolicyTypeOK' /\ MapsBounded' /\ CallsInv' /\ HitsInv'
                 /\ CallsTimely' /\ BansMove
      <4>1. now' = now /\ UNCHANGED <<hits, strikes, bans>>
        BY <3>1 DEF Register, AllowRegistration
      <4>2. PolicyTypeOK' /\ MapsBounded' /\ CallsInv' /\ CallsTimely'
        BY <1>1, <2>1, <3>1, RegisterStep
      <4>3. HitsInv' /\ BansMove
        BY <1>1, <4>1, HitsStay, BansStay, Zenon
      <4> QED  BY <1>1, <4>1, <4>2, <4>3, Zenon
    <3>2. ASSUME NEW k \in Keys, NEW at \in Readings, NEW b \in BOOLEAN,
                 IsBanned(k, at, b), UNCHANGED <<calls, hits>>
          PROVE  /\ now' \in Nat /\ PolicyTypeOK' /\ MapsBounded' /\ CallsInv' /\ HitsInv'
                 /\ CallsTimely' /\ BansMove
      <4>1. now' = now /\ UNCHANGED <<calls, reg_buckets>> /\ UNCHANGED hits
        BY <3>2 DEF IsBanned
      <4>2. PolicyTypeOK' /\ MapsBounded' /\ HitsInv' /\ BansMove
        BY <1>1, <3>2, <4>1, IsBannedStep
      <4>3. CallsInv'
        BY <1>1, <4>1, CallsStay
      <4>4. CallsTimely'
        BY <2>1, <4>1 DEF CallsTimely
      <4> QED  BY <1>1, <4>1, <4>2, <4>3, <4>4
    <3>3. CASE PolicyTick /\ UNCHANGED <<calls, hits>>
      <4>1. UNCHANGED policyState /\ now' \in Nat /\ now <= now' /\ UNCHANGED bans
        BY <1>1, <3>3 DEF PolicyTick, Advances, policyState
      <4> QED  BY <1>1, <2>1, <4>1, TickStep, BansStay
    <3> QED  BY <1>4, <3>1, <3>2, <3>3, Zenon DEF RateNext
  <2>4. Subjects'
    BY <2>2, <2>3 DEF Subjects
  <2> QED  BY <1>2, <1>3, <2>2, <2>3, <2>4 DEF LInv, LimitsTypeOK
<1>5. CASE subject = "bans" /\ UNCHANGED subject /\ BansNext /\ Others("bans")
  <2>1. HitsTimely
    BY <1>1, <1>5 DEF Subjects
  <2>2. UNCHANGED <<per_ip, global, answered, heard>> /\ UNCHANGED connVars /\ subject' = "bans"
    BY <1>5 DEF Others
  <2>3. /\ now' \in Nat /\ PolicyTypeOK' /\ MapsBounded' /\ CallsInv' /\ HitsInv'
        /\ HitsTimely' /\ BansMove
    <3>1. ASSUME NEW k \in Keys, NEW at \in Readings, Strike(k, at)
          PROVE  /\ now' \in Nat /\ PolicyTypeOK' /\ MapsBounded' /\ CallsInv' /\ HitsInv'
                 /\ HitsTimely' /\ BansMove
      <4>1. now' = now /\ UNCHANGED <<calls, reg_buckets>>
        BY <3>1 DEF Strike, RecordStrike
      <4>2. PolicyTypeOK' /\ MapsBounded' /\ HitsInv' /\ HitsTimely' /\ BansMove
        BY <1>1, <2>1, <3>1, StrikeStep
      <4>3. CallsInv'
        BY <1>1, <4>1, CallsStay
      <4> QED  BY <1>1, <4>1, <4>2, <4>3, Zenon
    <3>2. ASSUME NEW k \in Keys, NEW at \in Readings, NEW b \in BOOLEAN,
                 IsBanned(k, at, b), UNCHANGED <<calls, hits>>
          PROVE  /\ now' \in Nat /\ PolicyTypeOK' /\ MapsBounded' /\ CallsInv' /\ HitsInv'
                 /\ HitsTimely' /\ BansMove
      <4>1. now' = now /\ UNCHANGED <<calls, reg_buckets>> /\ UNCHANGED hits
        BY <3>2 DEF IsBanned
      <4>2. PolicyTypeOK' /\ MapsBounded' /\ HitsInv' /\ BansMove /\ HitsTimely'
        BY <1>1, <2>1, <3>2, <4>1, IsBannedStep, Zenon
      <4>3. CallsInv'
        BY <1>1, <4>1, CallsStay
      <4> QED  BY <1>1, <4>1, <4>2, <4>3, Zenon
    <3>3. CASE PolicyTick /\ UNCHANGED <<calls, hits>>
      <4>1. UNCHANGED policyState /\ now' \in Nat /\ now <= now' /\ UNCHANGED bans
        BY <1>1, <3>3 DEF PolicyTick, Advances, policyState
      <4> QED  BY <1>1, <2>1, <4>1, TickStep, BansStay, Zenon
    <3> QED  BY <1>5, <3>1, <3>2, <3>3, Zenon DEF BansNext
  <2>4. Subjects'
    BY <2>2, <2>3 DEF Subjects
  <2> QED  BY <1>2, <1>3, <2>2, <2>3, <2>4 DEF LInv, LimitsTypeOK
<1>6. CASE subject = "stun" /\ UNCHANGED subject /\ StunNext /\ Others("stun")
  <2>1. UNCHANGED policyState /\ UNCHANGED connVars /\ subject' = "stun" /\ UNCHANGED bans
    BY <1>6 DEF Others, policyState
  <2>2. now' \in Nat /\ StunTypeOK'
    <3>1. CASE Advances /\ UNCHANGED <<per_ip, global, answered, heard>>
      <4>1. now' \in Nat
        BY <1>1, <3>1 DEF Advances
      <4> QED  BY <1>2, <3>1, <4>1
    <3>2. ASSUME NEW s \in Sources, BindingRequest(s) PROVE now' \in Nat /\ StunTypeOK'
      BY <1>1, <3>2, BindingStep DEF StunTypeOK
    <3> QED  BY <1>6, <3>1, <3>2, Zenon DEF StunNext
  <2>3. PolicyTypeOK' /\ MapsBounded' /\ CallsInv' /\ HitsInv' /\ BansMove
    BY <1>1, <2>1, <2>2, TickStep, BansStay
  <2>4. Subjects'
    BY <2>1 DEF Subjects
  <2> QED  BY <1>3, <2>1, <2>2, <2>3, <2>4, Zenon DEF LInv, LimitsTypeOK
<1>7. CASE subject = "conn" /\ UNCHANGED subject /\ ConnStep /\ Others("conn")
  <2>1. UNCHANGED <<per_ip, global, answered, heard>> /\ subject' = "conn"
    BY <1>7 DEF Others
  <2>2. now' \in Nat /\ ConnTypeOK' /\ ConnShape' /\ (serving' => serving)
    <3>1. ASSUME NEW len \in FrameLens, InboundFrame(len)
          PROVE  now' \in Nat /\ ConnTypeOK' /\ ConnShape' /\ (serving' => serving)
      <4>1. now' = now /\ serving
        BY <3>1 DEF InboundFrame
      <4> QED  BY <1>1, <3>1, <4>1, InboundStep
    <3>2. CASE (Advances \/ SetBack) /\ UNCHANGED connVars
      <4>1. now' \in Nat
        BY <1>1, <3>2 DEF Advances, SetBack
      <4> QED  BY <1>3, <3>2, <4>1 DEF connVars
    <3> QED  BY <1>7, <3>1, <3>2, Zenon DEF ConnStep, ConnNext
  <2>3. CASE serving /\ ~serving' /\ \E k \in Keys : Strike(k, now)
    <3>1. PICK k \in Keys : Strike(k, now)
      BY <2>3
    <3>2. hits = <<>> /\ DOMAIN strikes = {} /\ DOMAIN bans = {}
      BY <1>1, <1>7, <2>3 DEF Subjects
    <3>3. HitsTimely /\ now \in Readings
      BY <1>1, <3>2 DEF HitsTimely, Readings
    <3>4. PolicyTypeOK' /\ MapsBounded' /\ HitsInv' /\ BansMove
      BY <1>1, <3>1, <3>3, StrikeStep, Zenon
    <3>5. UNCHANGED <<calls, reg_buckets>>
      BY <3>1 DEF Strike, RecordStrike
    <3>6. CallsInv'
      BY <1>1, <3>5, CallsStay
    <3>7. Subjects'
      BY <2>1, <2>3 DEF Subjects
    <3> QED  BY <1>2, <2>1, <2>2, <3>4, <3>6, <3>7 DEF LInv, LimitsTypeOK
  <2>4. CASE UNCHANGED policyState
    <3>1. UNCHANGED bans
      BY <2>4 DEF policyState
    <3>2. PolicyTypeOK' /\ MapsBounded' /\ CallsInv' /\ HitsInv' /\ BansMove
      BY <1>1, <2>2, <2>4, <3>1, TickStep, BansStay, Zenon
    <3>3. Subjects'
      BY <1>1, <1>7, <2>1, <2>2, <2>4, Zenon DEF Subjects, policyState
    <3> QED  BY <1>2, <2>1, <2>2, <3>2, <3>3 DEF LInv, LimitsTypeOK
  <2> QED  BY <1>7, <2>3, <2>4 DEF ConnStep
<1>8. CASE UNCHANGED vars
  <2>1. /\ UNCHANGED policyState /\ UNCHANGED connVars /\ UNCHANGED <<per_ip, global, answered, heard>>
        /\ now' = now /\ subject' = subject /\ UNCHANGED bans
    BY <1>8 DEF vars, abuseVars, policyVars, policyState
  <2>2. PolicyTypeOK' /\ MapsBounded' /\ CallsInv' /\ HitsInv' /\ BansMove
    BY <1>1, <2>1, TickStep, BansStay, Zenon
  <2>3. Subjects'
    BY <1>1, <2>1 DEF Subjects, policyState, connVars, CallsTimely, HitsTimely
  <2> QED  BY <1>1, <1>2, <1>3, <2>1, <2>2, <2>3, Zenon DEF LInv, LimitsTypeOK
<1> QED  BY <1>4, <1>5, <1>6, <1>7, <1>8 DEF Next

\* The maps of AbuseState agree with the calls made: each bucket of
\* allow_registration is as the source's last call left it, and each record of
\* record_strike counts strikes of its window.
THEOREM LimitsInvariant == Spec => []LInv
<1>1. LInv /\ [Next]_vars => LInv'
  BY LInvStep
<1> QED  BY <1>1, LInvInit, PTL DEF Spec

\* However many sources call, no per-source map outgrows MAX_TRACKED_IPS and
\* no unsigned budget goes below zero or above its capacity, for any rates.
THEOREM LimitsTypeTheorem == Spec => []LimitsTypeOK
<1>1. LInv => LimitsTypeOK
  BY DEF LInv
<1> QED  BY <1>1, LimitsInvariant, PTL

\* allow_registration lets a source through at most RegRate times for each
\* window it moves to and each time it had been forgotten.
THEOREM RateTheorem == Spec => []RateHolds
<1>1. LInv => RateHolds
  BY Zenon DEF LInv, CallsInv
<1> QED  BY <1>1, LimitsInvariant, PTL

\* evict_lru_if_full forgets only the sources seen longest ago, up to the lag
\* of their callers.
THEOREM RecentTheorem == Spec => []RecentTracked
<1>1. LInv => RecentTracked
  BY DEF LInv, CallsInv
<1> QED  BY <1>1, LimitsInvariant, PTL

\* record_strike bans only a source with enough strikes within one window.
THEOREM BanTheorem == Spec => []BanJustified
<1>1. LInv => BanJustified
  BY DEF LInv, HitsInv
<1> QED  BY <1>1, LimitsInvariant, PTL

\* is_banned and record_strike drop a ban in force only to make room in a full
\* map, the one closest to lapsing, and shorten it by no more than the lag.
THEOREM BansKeptTheorem == Spec => BansKept
<1>1. LInv /\ [Next]_vars => [BansMove]_policyVars
  BY LInvStep
<1>2. Spec => [][BansMove]_policyVars
  BY <1>1, LimitsInvariant, PTL DEF Spec
<1> QED  BY <1>2, PTL DEF BansKept, BansMove
===============================================================================
