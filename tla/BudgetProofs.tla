---------------------------- MODULE BudgetProofs -----------------------------
(*****************************************************************************)
(* Proofs about Limits, continued: the budgets that add up.  The responses   *)
(* of the STUN reflector, over all sources and windows, against the bytes    *)
(* that paid for them; then the frames of a connection against its share of  *)
(* a window.  For any sources, capacities, windows and lag.                  *)
(*****************************************************************************)
EXTENDS LimitsProofs, DataLemmas

-----------------------------------------------------------------------------
(* Responses over all sources *)

\* Later readings fall in later windows.
LEMMA WindowMonotone == \A s, t \in Nat : s <= t => Window(s) <= Window(t)
<1> SUFFICES ASSUME NEW s \in Nat, NEW t \in Nat, s <= t PROVE Window(s) <= Window(t)
  OBVIOUS
<1>1. WindowLen \in Nat \ {0}
  BY BucketAssumption
<1>2. PICK q \in Nat : q = Window(s) /\ WindowLen * q <= s /\ s < WindowLen * (q + 1)
  BY <1>1 DEF Window
<1>3. PICK r \in Nat : r = Window(t) /\ WindowLen * r <= t /\ t < WindowLen * (r + 1)
  BY <1>1 DEF Window
<1>4. ASSUME r < q PROVE FALSE
  <2>1. r + 1 <= q
    BY <1>4
  <2>2. WindowLen * (r + 1) <= WindowLen * q
    BY <1>1, <2>1
  <2>3. WindowLen * (r + 1) \in Nat /\ WindowLen * q \in Nat
    BY <1>1
  <2> QED BY <1>2, <1>3, <2>2, <2>3
<1> QED BY <1>2, <1>3, <1>4

\* A reading within the model's clock falls in one of its windows.
LEMMA WindowIn ==
    ASSUME NEW t \in Nat, t <= MaxTime
    PROVE  Window(t) \in Windows
BY ClockAssumption, WindowType, WindowMonotone DEF Windows

\* The responses of a window, over all sources.
Total(counts, w) == SumOver([t \in Sources |-> counts[t][w]], Sources)

\* It is what the property counts.
LEMMA AnsweredTotal == \A w : AnsweredIn(w) = Total(answered, w)
BY Zenon DEF AnsweredIn, FoldFunction, SumOver, Total

\* It is a number.
LEMMA TotalType ==
    ASSUME NEW counts \in [Sources -> [Windows -> Nat]], NEW w \in Windows
    PROVE  Total(counts, w) \in Nat
<1> DEFINE f == [t \in Sources |-> counts[t][w]]
<1>1. \A t \in Sources : f[t] \in Nat
  OBVIOUS
<1>2. Total(counts, w) = SumOver(f, Sources)
  BY Zenon DEF Total
<1> HIDE DEF f
<1> QED BY <1>1, <1>2, SumPick, StunAssumption

\* Source s was sent one more response in window v.
OneMore(counts, more, s, v) ==
    /\ counts \in [Sources -> [Windows -> Nat]] /\ s \in Sources /\ v \in Windows
    /\ more = [counts EXCEPT ![s][v] = @ + 1]

\* One response counts once, in its window.
LEMMA TotalStep ==
    ASSUME NEW counts, NEW more, NEW s, NEW v, OneMore(counts, more, s, v), NEW w \in Windows
    PROVE  Total(more, w) = Total(counts, w) + (IF w = v THEN 1 ELSE 0)
<1> DEFINE f == [t \in Sources |-> counts[t][w]]
           g == [t \in Sources |-> more[t][w]]
           d == IF w = v THEN 1 ELSE 0
<1>1. Total(counts, w) = SumOver(f, Sources) /\ Total(more, w) = SumOver(g, Sources)
  BY Zenon DEF Total
<1>2. Raised(f, g, Sources, s, d)
  BY DEF Raised, OneMore
<1>3. IsFiniteSet(Sources)
  BY StunAssumption
<1> HIDE DEF f, g, d
<1>4. SumOver(g, Sources) = SumOver(f, Sources) + d
  BY <1>2, <1>3, SumRaised, Zenon
<1> QED BY <1>1, <1>4 DEF d

-----------------------------------------------------------------------------
(* The STUN reflector *)

\* Fewer sources than the map tracks, not counting s.
Few(names, s) == Cardinality(names \ {s}) < MaxTracked

\* A tracked source's bucket: what is gone from it was answered, and the
\* source was heard when it was last touched, not before its last answer.
StunKept(s) ==
    LET b == per_ip[s]
    IN  /\ b.window \in Windows /\ Window(b.last_seen) \in Windows
        /\ b.window <= Window(b.last_seen)
        /\ PerIpCapacity - b.tokens <= answered[s][b.window]
        /\ s \in heard[Window(b.last_seen)]
        /\ \A w \in Windows : answered[s][w] # 0 => w <= Window(b.last_seen)

\* The global bucket holds what the current window's responses left, and no
\* window had more of them than it may.
StunGlobal ==
    /\ global.window \in Windows
    /\ GlobalCapacity # 0 =>
          /\ \A w \in Windows : Total(answered, w) <= GlobalCapacity
          /\ \A w \in Windows : w > global.window => Total(answered, w) = 0
          /\ GlobalCapacity - global.tokens = Total(answered, global.window)

\* Every tracked bucket is accounted for, and a source among few was sent no
\* more in any window than its budget.
StunSources ==
    /\ PerIpCapacity = 0 => DOMAIN per_ip = {}
    /\ PerIpCapacity # 0 =>
          /\ \A s \in DOMAIN per_ip : StunKept(s)
          /\ \A s \in Sources, w \in Windows :
                Few(heard[w], s) => answered[s][w] <= PerIpCapacity

\* Nothing is ahead of the clock, and a source answered in the current window
\* is tracked unless it is one of many.
StunTimely ==
    /\ now <= MaxTime /\ global.window <= Window(now)
    /\ \A s \in DOMAIN per_ip : per_ip[s].last_seen <= now
    /\ \A s \in Sources, w \in Windows : w > Window(now) => answered[s][w] = 0
    /\ PerIpCapacity # 0 =>
          \A s \in Sources : Few(heard[Window(now)], s) /\ answered[s][Window(now)] # 0 =>
              /\ s \in DOMAIN per_ip /\ per_ip[s].window = Window(now)
              /\ answered[s][Window(now)] <= PerIpCapacity - per_ip[s].tokens

\* The global budget, by what allow did with it.
LEMMA GlobalStep ==
    ASSUME StunTypeOK, StunGlobal, now \in Nat, now <= MaxTime, global.window <= Window(now),
           GlobalCapacity # 0, NEW s \in Sources,
           \/ UNCHANGED <<global, answered>>
           \/ /\ GlobalPermits /\ global' = SpendGlobal
              /\ answered' = [answered EXCEPT ![s][Window(now)] = @ + 1]
    PROVE  /\ global'.window \in Windows /\ global'.window <= Window(now)
           /\ \A w \in Windows : Total(answered', w) <= GlobalCapacity
           /\ \A w \in Windows : w > global'.window => Total(answered', w) = 0
           /\ GlobalCapacity - global'.tokens = Total(answered', global'.window)
<1>1. /\ GlobalCapacity \in Nat \ {0} /\ global.window \in Nat /\ global.window \in Windows
      /\ global.tokens \in 0..GlobalCapacity /\ Window(now) \in Windows /\ Window(now) \in Nat
  BY StunAssumption, WindowIn, WindowType DEF StunTypeOK, AtLeastOne, StunGlobal
<1>2. /\ \A w \in Windows : Total(answered, w) <= GlobalCapacity
      /\ \A w \in Windows : w > global.window => Total(answered, w) = 0
      /\ GlobalCapacity - global.tokens = Total(answered, global.window)
  BY Zenon DEF StunGlobal
<1>3. \A w \in Windows : Total(answered, w) \in Nat
  BY TotalType DEF StunTypeOK
<1>4. CASE UNCHANGED <<global, answered>>
  <2>1. \A w : Total(answered', w) = Total(answered, w)
    BY <1>4, Zenon
  <2> QED BY <1>1, <1>2, <1>4, <2>1
<1>5. CASE /\ GlobalPermits /\ global' = SpendGlobal
           /\ answered' = [answered EXCEPT ![s][Window(now)] = @ + 1]
  <2>1. \A w \in Windows : Total(answered', w) = Total(answered, w) + (IF w = Window(now) THEN 1 ELSE 0)
    <3>1. OneMore(answered, answered', s, Window(now))
      BY <1>1, <1>5 DEF OneMore, StunTypeOK
    <3> QED BY <3>1, TotalStep, Zenon
  <2>2. /\ global'.window = Window(now)
        /\ global'.tokens = Available(global, GlobalCapacity, now) - 1
        /\ Available(global, GlobalCapacity, now) > 0
    BY <1>1, <1>5 DEF SpendGlobal, TrySpend, GlobalPermits, Available
  <2>3. GlobalCapacity - Available(global, GlobalCapacity, now) = Total(answered, Window(now))
    BY <1>1, <1>2 DEF Available
  <2>4. Available(global, GlobalCapacity, now) \in Nat
    BY <1>1 DEF Available
  <2>5. Total(answered', Window(now)) = Total(answered, Window(now)) + 1
    BY <1>1, <2>1
  <2>6. Total(answered, Window(now)) \in Nat
    BY <1>1, <1>3
  <2>7. GlobalCapacity - global'.tokens = Total(answered', global'.window)
    BY <1>1, <2>2, <2>3, <2>4, <2>5, <2>6
  <2>8. ASSUME NEW w \in Windows, w > global'.window PROVE Total(answered', w) = 0
    <3>1. w # Window(now) /\ w > global.window
      BY <1>1, <2>2, <2>8 DEF Windows
    <3> QED BY <1>2, <1>3, <2>1, <3>1
  <2>9. ASSUME NEW w \in Windows PROVE Total(answered', w) <= GlobalCapacity
    <3>1. CASE w = Window(now)
      BY <1>1, <2>2, <2>3, <2>4, <2>5, <2>6, <3>1
    <3>2. CASE w # Window(now)
      BY <1>2, <1>3, <2>1, <3>2
    <3> QED BY <3>1, <3>2
  <2> QED BY <1>1, <2>2, <2>7, <2>8, <2>9
<1> QED BY <1>4, <1>5

\* bucket_for: the source is tracked, and only one seen longest ago is lost.
LEMMA BucketForFacts ==
    ASSUME StunTypeOK, PerIpCapacity # 0, NEW s \in Sources, NEW map \in BucketFor(s)
    PROVE  /\ map \in [DOMAIN map -> SourceBucket]
           /\ s \in DOMAIN map /\ DOMAIN map \subseteq DOMAIN per_ip \cup {s}
           /\ \A t \in DOMAIN map : t \in DOMAIN per_ip => map[t] = per_ip[t]
           /\ s \notin DOMAIN per_ip => map[s] = NewBucket(PerIpCapacity, now)
           /\ \A v \in DOMAIN per_ip : v \notin DOMAIN map =>
                 /\ s \notin DOMAIN per_ip /\ Cardinality(DOMAIN per_ip) >= MaxTracked
                 /\ \A j \in DOMAIN per_ip : per_ip[v].last_seen <= per_ip[j].last_seen
<1>1. /\ now \in Nat /\ Window(now) \in Nat /\ PerIpCapacity \in Nat \ {0}
      /\ per_ip \in [DOMAIN per_ip -> SourceBucket]
      /\ IsFiniteSet(DOMAIN per_ip) /\ Cardinality(DOMAIN per_ip) <= MaxTracked
  BY StunAssumption, FS_Subset, WindowType DEF StunTypeOK
<1> DEFINE new == NewBucket(PerIpCapacity, now)
<1>2. new \in SourceBucket
  BY <1>1 DEF NewBucket, SourceBucket
<1>3. PICK room \in MakeRoom(per_ip, s) : map = IF s \in DOMAIN room THEN room ELSE Put(room, s, new)
  BY <1>1 DEF BucketFor, AtLeastOne
<1> HIDE DEF new
<1>4. /\ LeftFor(per_ip, s, room) /\ room \in [DOMAIN room -> SourceBucket]
      /\ \A v \in DOMAIN per_ip \ DOMAIN room :
            \A j \in DOMAIN per_ip : per_ip[v].last_seen <= per_ip[j].last_seen
  BY <1>1, MakeRoomFacts, Zenon
<1>5. /\ DOMAIN room \subseteq DOMAIN per_ip /\ \A t \in DOMAIN room : room[t] = per_ip[t]
      /\ s \in DOMAIN per_ip => room = per_ip
  BY <1>4 DEF LeftFor
<1>6. room # per_ip => s \notin DOMAIN per_ip /\ Cardinality(DOMAIN per_ip) >= MaxTracked
  BY <1>5 DEF MakeRoom, Full
<1>7. CASE s \in DOMAIN room
  <2>1. map = room /\ s \in DOMAIN per_ip /\ room = per_ip
    BY <1>3, <1>5, <1>7
  <2> QED BY <1>1, <1>7, <2>1
<1>8. CASE s \notin DOMAIN room
  <2>1. s \notin DOMAIN per_ip
    BY <1>5, <1>8
  <2>2. /\ DOMAIN map = DOMAIN room \cup {s} /\ map[s] = new
        /\ \A t \in DOMAIN room : map[t] = per_ip[t]
    BY <1>3, <1>5, <1>8 DEF Put
  <2>3. map \in [DOMAIN map -> SourceBucket]
    BY <1>2, <1>3, <1>4, <1>8 DEF Put
  <2>4. \A v \in DOMAIN per_ip : v \notin DOMAIN map => v \in DOMAIN per_ip \ DOMAIN room /\ room # per_ip
    BY <2>2
  <2> QED BY <1>4, <1>5, <1>6, <2>1, <2>2, <2>3, <2>4, Zenon DEF new
<1> QED BY <1>7, <1>8

\* A full map of others, and one more, are not few.
LEMMA Crowded ==
    ASSUME NEW D, IsFiniteSet(D), Cardinality(D) >= MaxTracked, NEW t \in D, NEW s, s \notin D,
           NEW H, IsFiniteSet(H), D \cup {s} \subseteq H
    PROVE  ~Few(H, t)
<1>1. IsFiniteSet(D \ {t}) /\ Cardinality(D \ {t}) = Cardinality(D) - 1
  BY FS_RemoveElement
<1>2. /\ IsFiniteSet((D \ {t}) \cup {s})
      /\ Cardinality((D \ {t}) \cup {s}) = Cardinality(D \ {t}) + 1
  BY <1>1, FS_AddElement
<1>3. IsFiniteSet(H \ {t}) /\ (D \ {t}) \cup {s} \subseteq H \ {t}
  BY FS_Subset
<1>4. Cardinality((D \ {t}) \cup {s}) <= Cardinality(H \ {t}) /\ Cardinality(H \ {t}) \in Nat
  BY <1>3, FS_Subset, FS_CardinalityType
<1>5. Cardinality(D) \in Nat /\ MaxTracked \in Nat
  BY FS_CardinalityType, BucketAssumption
<1> QED BY <1>1, <1>2, <1>4, <1>5 DEF Few

\* Hearing more sources does not make them fewer.
LEMMA FewBefore ==
    ASSUME NEW G, NEW H, IsFiniteSet(H), G \subseteq H, NEW t, Few(H, t)
    PROVE  Few(G, t)
<1>1. IsFiniteSet(H \ {t}) /\ G \ {t} \subseteq H \ {t}
  BY FS_Subset
<1>2. Cardinality(G \ {t}) <= Cardinality(H \ {t}) /\ Cardinality(H \ {t}) \in Nat
      /\ Cardinality(G \ {t}) \in Nat
  BY <1>1, FS_Subset, FS_CardinalityType
<1> QED BY <1>2, BucketAssumption DEF Few

\* What a bucket owes to the answers of its source.
Owes(b, counts) ==
    /\ b.window \in Windows /\ Window(b.last_seen) \in Windows
    /\ b.window <= Window(b.last_seen) /\ b.last_seen <= now
    /\ PerIpCapacity - b.tokens <= counts[b.window]
    /\ \A w \in Windows : counts[w] # 0 => w <= Window(b.last_seen)

\* A Binding Request, as allow decides it on the map bucket_for left.
LEMMA OwesStep ==
    ASSUME StunTypeOK, StunSources, StunTimely, PerIpCapacity # 0, NEW s \in Sources,
           NEW map \in BucketFor(s), Allow(s, map)
    PROVE  /\ s \in DOMAIN per_ip' /\ DOMAIN per_ip' = DOMAIN map
           /\ \A t \in DOMAIN map : t # s => per_ip'[t] = map[t]
           /\ Owes(per_ip'[s], answered'[s])
           /\ \/ per_ip'[s] = map[s] /\ answered' = answered
              \/ /\ per_ip'[s].last_seen = now /\ per_ip'[s].window = map[s].window
                 /\ per_ip'[s].tokens = map[s].tokens /\ answered' = answered
              \/ /\ per_ip'[s].last_seen = now /\ per_ip'[s].window = Window(now)
                 /\ Available(map[s], PerIpCapacity, now) \in 1..PerIpCapacity
                 /\ per_ip'[s].tokens = Available(map[s], PerIpCapacity, now) - 1
                 /\ answered' = [answered EXCEPT ![s][Window(now)] = @ + 1]
<1>1. /\ now \in Nat /\ Window(now) \in Windows /\ Window(now) \in Nat /\ PerIpCapacity \in Nat \ {0}
      /\ answered \in [Sources -> [Windows -> Nat]] /\ answered[s] \in [Windows -> Nat]
      /\ \A w \in Windows : w \in Nat
  BY StunAssumption, WindowIn, WindowType DEF StunTypeOK, StunTimely, Windows
<1>2. /\ map \in [DOMAIN map -> SourceBucket] /\ s \in DOMAIN map
      /\ s \in DOMAIN per_ip => map[s] = per_ip[s]
      /\ s \notin DOMAIN per_ip => map[s] = NewBucket(PerIpCapacity, now)
  BY BucketForFacts
<1>3. map[s] \in SourceBucket
  BY <1>2
<1>4. /\ map[s].tokens \in 0..PerIpCapacity /\ map[s].window \in Nat /\ map[s].last_seen \in Nat
  BY <1>3 DEF SourceBucket
<1>5. Owes(map[s], answered[s])
  <2>1. CASE s \in DOMAIN per_ip
    <3>1. StunKept(s) /\ per_ip[s].last_seen <= now /\ map[s] = per_ip[s]
      BY <1>2, <2>1 DEF StunSources, StunTimely
    <3> QED BY <3>1, Zenon DEF StunKept, Owes
  <2>2. CASE s \notin DOMAIN per_ip
    <3>1. map[s].tokens = PerIpCapacity /\ map[s].window = Window(now) /\ map[s].last_seen = now
      BY <1>2, <2>2 DEF NewBucket
    <3>2. \A w \in Windows : answered[s][w] # 0 => w <= Window(now)
      BY <1>1 DEF StunTimely
    <3>3. PerIpCapacity - PerIpCapacity <= answered[s][Window(now)] /\ now <= now /\ Window(now) <= Window(now)
      BY <1>1
    <3> QED BY <1>1, <3>1, <3>2, <3>3 DEF Owes
  <2> QED BY <2>1, <2>2
<1>6. /\ Window(map[s].last_seen) \in Windows /\ Window(map[s].last_seen) \in Nat
      /\ Window(map[s].last_seen) <= Window(now) /\ map[s].window <= Window(map[s].last_seen)
  <2>1. Window(map[s].last_seen) \in Windows /\ map[s].last_seen <= now /\ map[s].window <= Window(map[s].last_seen)
    BY <1>5 DEF Owes
  <2> QED BY <1>1, <1>4, <2>1, WindowMonotone
<1>7. /\ \A w \in Windows : answered[s][w] # 0 => w <= Window(now)
      /\ PerIpCapacity - map[s].tokens <= answered[s][map[s].window] /\ map[s].window \in Windows
      /\ map[s].last_seen <= now
  BY <1>1, <1>5 DEF StunTimely, Owes
<1>8. CASE /\ ~SourcePermits(map, s) /\ per_ip' = [map EXCEPT ![s].last_seen = now]
           /\ UNCHANGED <<global, answered>>
  <2>1. /\ per_ip'[s] = [map[s] EXCEPT !.last_seen = now] /\ DOMAIN per_ip' = DOMAIN map
        /\ \A t \in DOMAIN map : t # s => per_ip'[t] = map[t]
    BY <1>2, <1>8
  <2>2. /\ per_ip'[s].last_seen = now /\ per_ip'[s].window = map[s].window
        /\ per_ip'[s].tokens = map[s].tokens /\ answered' = answered
    BY <1>3, <1>8, <2>1 DEF SourceBucket
  <2>3. map[s].window <= Window(now)
    BY <1>1, <1>4, <1>6
  <2>4. Owes(per_ip'[s], answered[s])
    BY <1>1, <1>7, <2>2, <2>3 DEF Owes
  <2> QED BY <1>2, <2>1, <2>2, <2>4
<1>9. CASE per_ip' = map /\ UNCHANGED <<global, answered>>
  BY <1>2, <1>5, <1>9
<1>10. CASE /\ SourcePermits(map, s) /\ per_ip' = SpendSource(map, s)
            /\ answered' = [answered EXCEPT ![s][Window(now)] = @ + 1]
  <2> DEFINE a == Available(map[s], PerIpCapacity, now)
  <2>1. a \in 1..PerIpCapacity
    BY <1>1, <1>4, <1>10 DEF SourcePermits, Available
  <2>2. /\ per_ip'[s] = TrySpend(map[s], PerIpCapacity, now) /\ DOMAIN per_ip' = DOMAIN map
        /\ \A t \in DOMAIN map : t # s => per_ip'[t] = map[t]
    BY <1>1, <1>2, <1>10 DEF SpendSource
  <2>3. /\ per_ip'[s].last_seen = now /\ per_ip'[s].window = Window(now)
        /\ per_ip'[s].tokens = a - 1
    BY <2>1, <2>2 DEF TrySpend
  <2>4. /\ answered'[s][Window(now)] = answered[s][Window(now)] + 1
        /\ \A w \in Windows : w # Window(now) => answered'[s][w] = answered[s][w]
    BY <1>1, <1>10
  <2>5. PerIpCapacity - a <= answered[s][Window(now)]
    <3>1. CASE map[s].window = Window(now)
      BY <1>7, <3>1 DEF Available
    <3>2. CASE map[s].window # Window(now)
      BY <1>1, <3>2 DEF Available
    <3> QED BY <3>1, <3>2
  <2> HIDE DEF a
  <2>6. PerIpCapacity - (a - 1) <= answered'[s][Window(now)]
    <3>1. answered[s][Window(now)] \in Nat
      BY <1>1
    <3> QED BY <1>1, <2>1, <2>4, <2>5, <3>1
  <2>7. \A w \in Windows : answered'[s][w] # 0 => w <= Window(now)
    BY <1>1, <1>7, <2>4
  <2>8. Owes(per_ip'[s], answered'[s])
    BY <1>1, <2>3, <2>6, <2>7 DEF Owes
  <2> QED BY <1>2, <1>10, <2>1, <2>2, <2>3, <2>8 DEF a
<1> QED BY <1>8, <1>9, <1>10, Zenon DEF Allow

\* A source answered in the current window loses its bucket only to as many
\* others as the map tracks.
LEMMA EvictedByMany ==
    ASSUME StunTypeOK, StunSources, StunTimely, PerIpCapacity # 0, NEW s \in Sources,
           NEW map \in BucketFor(s), NEW t \in DOMAIN per_ip, t \notin DOMAIN map,
           answered[t][Window(now)] # 0
    PROVE  ~Few(heard[Window(now)] \cup {s}, t)
<1>1. /\ now \in Nat /\ Window(now) \in Windows /\ Window(now) \in Nat
      /\ \A j \in DOMAIN per_ip : per_ip[j].last_seen \in Nat
      /\ IsFiniteSet(DOMAIN per_ip) /\ DOMAIN per_ip \subseteq Sources
      /\ heard[Window(now)] \subseteq Sources /\ IsFiniteSet(Sources)
  BY StunAssumption, WindowIn, WindowType, FS_Subset DEF StunTypeOK, StunTimely, SourceBucket
<1>2. /\ s \notin DOMAIN per_ip /\ Cardinality(DOMAIN per_ip) >= MaxTracked
      /\ \A j \in DOMAIN per_ip : per_ip[t].last_seen <= per_ip[j].last_seen
  BY BucketForFacts, Zenon
<1>3. Window(now) <= Window(per_ip[t].last_seen)
  BY <1>1, Zenon DEF StunSources, StunKept
<1>4. ASSUME NEW j \in DOMAIN per_ip PROVE j \in heard[Window(now)]
  <2>1. per_ip[t].last_seen <= per_ip[j].last_seen /\ per_ip[j].last_seen <= now
    BY <1>2 DEF StunTimely
  <2>2. Window(per_ip[t].last_seen) <= Window(per_ip[j].last_seen) /\ Window(per_ip[j].last_seen) <= Window(now)
    BY <1>1, <2>1, WindowMonotone
  <2>3. Window(per_ip[j].last_seen) = Window(now)
    BY <1>1, <1>3, <2>2, WindowType
  <2>4. j \in heard[Window(per_ip[j].last_seen)]
    BY Zenon DEF StunSources, StunKept
  <2> QED BY <2>3, <2>4
<1>5. IsFiniteSet(heard[Window(now)] \cup {s})
  BY <1>1, FS_Subset, FS_AddElement
<1>6. DOMAIN per_ip \cup {s} \subseteq heard[Window(now)] \cup {s}
  BY <1>4
<1> QED BY <1>1, <1>2, <1>5, <1>6, Crowded

\* The per-source budgets under a Binding Request.
LEMMA SourceStep ==
    ASSUME StunTypeOK, StunSources, StunTimely, PerIpCapacity # 0, NEW s \in Sources,
           NEW map \in BucketFor(s), Allow(s, map),
           heard' = [heard EXCEPT ![Window(now)] = @ \cup {s}]
    PROVE  /\ StunSources'
           /\ \A t \in DOMAIN per_ip' : per_ip'[t].last_seen <= now
           /\ \A t \in Sources, w \in Windows : w > Window(now) => answered'[t][w] = 0
           /\ \A t \in Sources : Few(heard'[Window(now)], t) /\ answered'[t][Window(now)] # 0 =>
                 /\ t \in DOMAIN per_ip' /\ per_ip'[t].window = Window(now)
                 /\ answered'[t][Window(now)] <= PerIpCapacity - per_ip'[t].tokens
<1> DEFINE W == Window(now)
<1>1. /\ now \in Nat /\ W \in Windows /\ W \in Nat /\ PerIpCapacity \in Nat \ {0}
      /\ answered \in [Sources -> [Windows -> Nat]] /\ heard \in [Windows -> SUBSET Sources]
      /\ \A w \in Windows : w \in Nat
  BY StunAssumption, WindowIn, WindowType DEF StunTypeOK, StunTimely, Windows
<1>2. /\ s \in DOMAIN map /\ DOMAIN map \subseteq DOMAIN per_ip \cup {s}
      /\ \A t \in DOMAIN map : t \in DOMAIN per_ip => map[t] = per_ip[t]
      /\ s \notin DOMAIN per_ip => map[s] = NewBucket(PerIpCapacity, now)
      /\ map[s] \in SourceBucket
  BY BucketForFacts
<1>3. /\ s \in DOMAIN per_ip' /\ DOMAIN per_ip' = DOMAIN map
      /\ \A t \in DOMAIN map : t # s => per_ip'[t] = map[t]
      /\ Owes(per_ip'[s], answered'[s])
  BY OwesStep
<1>4. \/ per_ip'[s] = map[s] /\ answered' = answered
      \/ /\ per_ip'[s].last_seen = now /\ per_ip'[s].window = map[s].window
         /\ per_ip'[s].tokens = map[s].tokens /\ answered' = answered
      \/ /\ per_ip'[s].last_seen = now /\ per_ip'[s].window = W
         /\ Available(map[s], PerIpCapacity, now) \in 1..PerIpCapacity
         /\ per_ip'[s].tokens = Available(map[s], PerIpCapacity, now) - 1
         /\ answered' = [answered EXCEPT ![s][W] = @ + 1]
  BY OwesStep
<1> HIDE DEF W
<1>5. /\ \A t \in Sources : t # s => answered'[t] = answered[t]
      /\ \A w \in Windows : w # W => answered'[s][w] = answered[s][w]
  BY <1>1, <1>4
<1>6. \A w \in Windows : heard[w] \subseteq heard'[w] /\ heard'[w] \subseteq Sources
  BY <1>1
<1>7. heard'[W] = heard[W] \cup {s}
  BY <1>1 DEF W
<1>8. \A w \in Windows : IsFiniteSet(heard'[w])
  BY <1>6, FS_Subset, StunAssumption
<1>9. \A t, w : w \in Windows /\ Few(heard'[w], t) => Few(heard[w], t)
  BY <1>6, <1>8, FewBefore, Zenon
<1>10. ASSUME NEW t \in DOMAIN per_ip' PROVE StunKept(t)' /\ per_ip'[t].last_seen <= now
  <2>1. CASE t = s
    <3>1. s \in heard'[Window(per_ip'[s].last_seen)]
      <4>1. CASE per_ip'[s].last_seen = now
        BY <1>7, <4>1 DEF W
      <4>2. CASE per_ip'[s] = map[s] /\ s \notin DOMAIN per_ip
        <5>1. per_ip'[s].last_seen = now
          BY <1>2, <4>2 DEF NewBucket
        <5> QED BY <4>1, <5>1
      <4>3. CASE per_ip'[s] = map[s] /\ s \in DOMAIN per_ip
        <5>1. s \in heard[Window(per_ip[s].last_seen)] /\ Window(per_ip[s].last_seen) \in Windows
          BY <4>3, Zenon DEF StunSources, StunKept
        <5>2. per_ip'[s] = per_ip[s]
          BY <1>2, <4>3
        <5> QED BY <1>6, <5>1, <5>2
      <4> QED BY <1>4, <4>1, <4>2, <4>3
    <3> QED BY <1>3, <2>1, <3>1, Zenon DEF StunKept, Owes
  <2>2. CASE t # s
    <3>1. t \in DOMAIN per_ip /\ per_ip'[t] = per_ip[t]
      BY <1>2, <1>3, <2>2
    <3>2. t \in Sources
      BY <3>1 DEF StunTypeOK
    <3>3. answered'[t] = answered[t]
      BY <1>5, <2>2, <3>2
    <3>4. StunKept(t) /\ per_ip[t].last_seen <= now
      BY <3>1 DEF StunSources, StunTimely
    <3>5. t \in heard'[Window(per_ip[t].last_seen)]
      BY <1>6, <3>4, Zenon DEF StunKept
    <3> QED BY <3>1, <3>3, <3>4, <3>5, Zenon DEF StunKept
  <2> QED BY <2>1, <2>2
<1>11. ASSUME NEW t \in Sources, NEW w \in Windows, w > W PROVE answered'[t][w] = 0
  <2>1. answered[t][w] = 0 /\ w # W
    BY <1>1, <1>11 DEF StunTimely, W
  <2> QED BY <1>5, <2>1
<1>12. ASSUME NEW t \in Sources, Few(heard'[W], t), answered'[t][W] # 0
       PROVE  /\ t \in DOMAIN per_ip' /\ per_ip'[t].window = W
              /\ answered'[t][W] <= PerIpCapacity - per_ip'[t].tokens
  <2>1. answered[t][W] # 0 => /\ t \in DOMAIN per_ip /\ per_ip[t].window = W
                              /\ answered[t][W] <= PerIpCapacity - per_ip[t].tokens
    <3>1. Few(heard[W], t)
      BY <1>1, <1>9, <1>12
    <3> QED BY <3>1, Zenon DEF StunTimely, W
  <2>2. CASE t # s
    <3>1. answered'[t] = answered[t]
      BY <1>5, <2>2
    <3>2. t \in DOMAIN per_ip
      BY <1>12, <2>1, <3>1
    <3>3. t \in DOMAIN map
      BY <1>7, <1>12, <3>1, <3>2, EvictedByMany DEF W
    <3>4. per_ip'[t] = per_ip[t]
      BY <1>2, <1>3, <2>2, <3>2, <3>3
    <3> QED BY <1>3, <1>12, <2>1, <3>1, <3>3, <3>4
  <2>3. CASE t = s /\ answered' = answered
    <3>1. t \in DOMAIN per_ip /\ map[s] = per_ip[s]
      BY <1>2, <1>12, <2>1, <2>3
    <3>2. per_ip'[s].window = map[s].window /\ per_ip'[s].tokens = map[s].tokens
      <4>1. answered[s] \in [Windows -> Nat]
        BY <1>1
      <4>2. [answered EXCEPT ![s][W] = @ + 1] # answered
        BY <1>1, <4>1
      <4> QED BY <1>4, <2>3, <4>2
    <3> QED BY <1>3, <1>12, <2>1, <2>3, <3>1, <3>2
  <2>4. CASE /\ t = s /\ per_ip'[s].window = W
             /\ Available(map[s], PerIpCapacity, now) \in 1..PerIpCapacity
             /\ per_ip'[s].tokens = Available(map[s], PerIpCapacity, now) - 1
             /\ answered' = [answered EXCEPT ![s][W] = @ + 1]
    <3> DEFINE a == Available(map[s], PerIpCapacity, now)
    <3>1. answered'[s][W] = answered[s][W] + 1 /\ answered[s][W] \in Nat
      BY <1>1, <2>4
    <3>2. answered[s][W] <= PerIpCapacity - a
      <4>1. CASE answered[s][W] = 0
        BY <1>1, <2>4, <4>1
      <4>2. CASE answered[s][W] # 0
        <5>1. map[s] = per_ip[s] /\ per_ip[s].window = W /\ answered[s][W] <= PerIpCapacity - per_ip[s].tokens
          BY <1>2, <2>1, <2>4, <4>2
        <5>2. a = per_ip[s].tokens
          BY <5>1 DEF Available, W
        <5> QED BY <5>1, <5>2
      <4> QED BY <4>1, <4>2
    <3>3. a \in Nat /\ per_ip'[s].tokens = a - 1
      BY <2>4
    <3> HIDE DEF a
    <3>4. answered'[s][W] <= PerIpCapacity - (a - 1)
      BY <1>1, <3>1, <3>2, <3>3
    <3> QED BY <1>3, <2>4, <3>3, <3>4
  <2> QED BY <1>4, <2>2, <2>3, <2>4
<1>13. ASSUME NEW t \in Sources, NEW w \in Windows, Few(heard'[w], t)
       PROVE  answered'[t][w] <= PerIpCapacity
  <2>1. answered[t][w] <= PerIpCapacity
    <3>1. Few(heard[w], t)
      BY <1>9, <1>13
    <3> QED BY <3>1, Zenon DEF StunSources
  <2>2. CASE t # s \/ w # W
    BY <1>5, <2>1, <2>2
  <2>3. CASE t = s /\ w = W /\ answered'[s][W] # 0
    <3>1. answered'[s][W] <= PerIpCapacity - per_ip'[s].tokens
      BY <1>12, <1>13, <2>3
    <3>2. per_ip'[s].tokens \in Nat
      BY <1>2, <1>4 DEF SourceBucket
    <3>3. answered'[s][W] \in Nat
      BY <1>1, <1>4
    <3> QED BY <1>1, <2>3, <3>1, <3>2, <3>3
  <2>4. CASE t = s /\ w = W /\ answered'[s][W] = 0
    BY <1>1, <2>4
  <2> QED BY <2>2, <2>3, <2>4
<1>14. StunSources'
  BY <1>10, <1>13, Zenon DEF StunSources
<1> QED BY <1>10, <1>11, <1>12, <1>14, Zenon DEF W

\* What StunRateLimiter's two budgets owe; what mentions the clock is said while
\* the reflector is the one exercised.
StunInv == StunGlobal /\ StunSources /\ (subject = "stun" => StunTimely)

\* A Binding Request keeps both budgets' accounts.
LEMMA StunRequestStep ==
    ASSUME StunTypeOK, StunGlobal, StunSources, StunTimely, NEW s \in Sources, BindingRequest(s)
    PROVE  StunGlobal' /\ StunSources' /\ StunTimely'
<1>1. /\ now \in Nat /\ now <= MaxTime /\ global.window <= Window(now) /\ now' = now
      /\ Window(now) \in Nat /\ Window(now) \in Windows /\ Window(now') = Window(now)
  BY WindowType, WindowIn DEF StunTypeOK, StunTimely, BindingRequest
<1>2. PICK map \in BucketFor(s) : Allow(s, map)
  BY DEF BindingRequest
<1>3. \/ UNCHANGED <<global, answered>>
      \/ /\ GlobalPermits /\ global' = SpendGlobal
         /\ answered' = [answered EXCEPT ![s][Window(now)] = @ + 1]
  BY <1>2, Zenon DEF Allow
<1>4. StunGlobal' /\ global'.window <= Window(now)
  <2>1. CASE GlobalCapacity = 0
    <3>1. global' = global
      BY <1>3, <2>1 DEF SpendGlobal
    <3> QED BY <1>1, <2>1, <3>1 DEF StunGlobal
  <2>2. CASE GlobalCapacity # 0
    <3>1. /\ global'.window \in Windows /\ global'.window <= Window(now)
          /\ \A w \in Windows : Total(answered', w) <= GlobalCapacity
          /\ \A w \in Windows : w > global'.window => Total(answered', w) = 0
          /\ GlobalCapacity - global'.tokens = Total(answered', global'.window)
      BY <1>1, <1>3, <2>2, GlobalStep
    <3> QED BY <3>1, Zenon DEF StunGlobal
  <2> QED BY <2>1, <2>2
<1>5. CASE PerIpCapacity = 0
  <2>1. per_ip' = per_ip /\ DOMAIN per_ip = {}
    BY <1>2, <1>5 DEF BucketFor, Allow, SourcePermits, SpendSource, StunSources
  <2>2. \A t \in Sources, w \in Windows : w > Window(now) => answered'[t][w] = 0
    <3>1. answered \in [Sources -> [Windows -> Nat]]
      BY DEF StunTypeOK
    <3>2. \A t \in Sources, w \in Windows : w # Window(now) => answered'[t][w] = answered[t][w]
      BY <1>1, <1>3, <3>1
    <3>3. \A w \in Windows : w > Window(now) => w # Window(now)
      BY <1>1 DEF Windows
    <3> QED BY <3>2, <3>3 DEF StunTimely
  <2> QED BY <1>1, <1>4, <1>5, <2>1, <2>2 DEF StunSources, StunTimely
<1>6. CASE PerIpCapacity # 0
  <2>1. heard' = [heard EXCEPT ![Window(now)] = @ \cup {s}]
    BY DEF BindingRequest
  <2>2. /\ StunSources'
        /\ \A t \in DOMAIN per_ip' : per_ip'[t].last_seen <= now
        /\ \A t \in Sources, w \in Windows : w > Window(now) => answered'[t][w] = 0
        /\ \A t \in Sources : Few(heard'[Window(now)], t) /\ answered'[t][Window(now)] # 0 =>
              /\ t \in DOMAIN per_ip' /\ per_ip'[t].window = Window(now)
              /\ answered'[t][Window(now)] <= PerIpCapacity - per_ip'[t].tokens
    BY <1>2, <1>6, <2>1, SourceStep, Zenon
  <2>3. StunTimely'
    BY <1>1, <1>4, <2>2, Zenon DEF StunTimely
  <2> QED BY <1>4, <2>2, <2>3
<1> QED BY <1>5, <1>6

\* Time passes: the next window starts with nothing sent in it.
LEMMA StunTickStep ==
    ASSUME StunTypeOK, StunTimely, Advances, UNCHANGED <<per_ip, global, answered, heard>>
    PROVE  StunTimely'
<1>1. now \in Nat /\ now' = now + 1 /\ now' \in Nat /\ now' <= MaxTime /\ MaxTime \in Nat
  BY ClockAssumption DEF StunTypeOK, Advances
<1>2. /\ Window(now) \in Nat /\ Window(now') \in Nat /\ Window(now) <= Window(now')
      /\ Window(now') \in Windows
  BY <1>1, WindowType, WindowMonotone, WindowIn
<1>3. global.window \in Nat /\ \A t \in DOMAIN per_ip : per_ip[t].last_seen \in Nat
  BY DEF StunTypeOK, SourceBucket
<1>4. \A t \in DOMAIN per_ip : per_ip[t].last_seen <= now'
  BY <1>1, <1>3 DEF StunTimely
<1>5. \A t \in Sources, w \in Windows : w > Window(now') => answered[t][w] = 0
  BY <1>2 DEF StunTimely, Windows
<1>6. global.window <= Window(now')
  BY <1>2, <1>3 DEF StunTimely
<1>7. CASE Window(now') = Window(now)
  BY <1>1, <1>4, <1>5, <1>6, <1>7, Zenon DEF StunTimely
<1>8. CASE Window(now') # Window(now)
  <2>1. Window(now') > Window(now)
    BY <1>2, <1>8
  <2>2. \A t \in Sources : answered[t][Window(now')] = 0
    BY <1>2, <2>1 DEF StunTimely
  <2> QED BY <1>1, <1>4, <1>5, <1>6, <2>2 DEF StunTimely
<1> QED BY <1>7, <1>8

\* Nothing has been sent when the reflector starts.
LEMMA StunInvInit == Init => StunInv
<1> SUFFICES ASSUME Init PROVE StunInv
  OBVIOUS
<1>1. /\ now = 0 /\ DOMAIN per_ip = {} /\ global = NewBucket(AtLeastOne(GlobalCapacity), 0)
      /\ answered = [s \in Sources |-> [w \in Windows |-> 0]]
  BY DEF Init, StunInit
<1>2. MaxTime \in Nat /\ Window(0) \in Nat /\ Window(0) \in Windows /\ PerIpCapacity \in Nat /\ GlobalCapacity \in Nat
  BY ClockAssumption, WindowType, WindowIn, StunAssumption
<1>3. \A s \in Sources, w \in Windows : answered[s][w] = 0
  BY <1>1
<1>4. ASSUME NEW w \in Windows PROVE Total(answered, w) = 0
  <2> DEFINE f == [t \in Sources |-> answered[t][w]]
  <2>1. \A t \in Sources : f[t] = 0
    BY <1>3
  <2>2. Total(answered, w) = SumOver(f, Sources)
    BY Zenon DEF Total
  <2> HIDE DEF f
  <2> QED BY <2>1, <2>2, SumZero, StunAssumption
<1>5. global.window = Window(0) /\ global.tokens = AtLeastOne(GlobalCapacity)
  BY <1>1 DEF NewBucket
<1>6. StunGlobal
  BY <1>2, <1>4, <1>5 DEF StunGlobal, AtLeastOne
<1>7. StunSources
  BY <1>1, <1>2, <1>3 DEF StunSources
<1>8. StunTimely
  BY <1>1, <1>2, <1>3, <1>5 DEF StunTimely
<1> QED BY <1>6, <1>7, <1>8 DEF StunInv

\* Requests and time keep the accounts, and other limiters' steps leave them.
LEMMA StunInvStep == LInv /\ StunInv /\ [Next]_vars => StunInv'
<1> SUFFICES ASSUME LInv, StunInv, [Next]_vars PROVE StunInv'
  OBVIOUS
<1>1. StunTypeOK /\ StunGlobal /\ StunSources
  BY DEF LInv, LimitsTypeOK, StunInv
<1>2. ASSUME UNCHANGED <<per_ip, global, answered, heard>> PROVE StunGlobal' /\ StunSources'
  BY <1>1, <1>2, Zenon DEF StunGlobal, StunSources, StunKept
<1>3. CASE subject = "stun" /\ subject' = "stun" /\ StunNext
  <2>1. StunTimely
    BY <1>3 DEF StunInv
  <2>2. CASE Advances /\ UNCHANGED <<per_ip, global, answered, heard>>
    BY <1>1, <1>2, <2>1, <2>2, StunTickStep DEF StunInv
  <2>3. ASSUME NEW s \in Sources, BindingRequest(s) PROVE StunInv'
    BY <1>1, <2>1, <2>3, StunRequestStep DEF StunInv
  <2> QED BY <1>3, <2>2, <2>3, Zenon DEF StunNext
<1>4. CASE subject # "stun" /\ subject' # "stun" /\ UNCHANGED <<per_ip, global, answered, heard>>
  BY <1>2, <1>4, Zenon DEF StunInv
<1>5. CASE UNCHANGED vars
  <2>1. UNCHANGED <<per_ip, global, answered, heard>> /\ now' = now /\ subject' = subject
    BY <1>5 DEF vars, abuseVars, policyVars
  <2>2. StunTimely => StunTimely'
    BY <2>1, Zenon DEF StunTimely
  <2> QED BY <1>2, <2>1, <2>2, Zenon DEF StunInv
<1> QED BY <1>3, <1>4, <1>5, Zenon DEF Next, Others

\* Through any sequence of Binding Requests and evictions, the two budgets of
\* StunRateLimiter account for every response sent.
THEOREM StunInvariant == Spec => []StunInv
<1>1. LInv /\ StunInv /\ [Next]_vars => StunInv'
  BY StunInvStep
<1> QED BY <1>1, StunInvInit, LimitsInvariant, PTL DEF Spec

\* The STUN reflector never sends more than the global budget in a window,
\* nor more than the per-source budget to one of few sources.
THEOREM ReflectionTheorem == Spec => []ReflectionBounded
<1>1. StunInv => ReflectionBounded
  BY AnsweredTotal, Zenon DEF StunInv, StunGlobal, StunSources, ReflectionBounded, Few
<1> QED BY <1>1, StunInvariant, PTL

\* StunRateLimiter::allow spends a token only on a response.
THEOREM SpendTheorem == Spec => []OnlyAnswersSpend
<1>1. StunInv => OnlyAnswersSpend
  BY AnsweredTotal, Zenon DEF StunInv, StunGlobal, StunSources, StunKept, OnlyAnswersSpend
<1> QED BY <1>1, StunInvariant, PTL

-----------------------------------------------------------------------------
(* The frames of a connection *)

\* A frame as the limiter sees it.
Frame == [second : Nat, len : Nat]

\* BytesIn, SameSpell and WithinLimits of a list of frames.
Bytes(list, I) == SumOver([i \in DOMAIN list |-> list[i].len], I)
Spell(list, i) == {j \in 1..i : \A k \in j..i : list[k].second = list[i].second}
Within(list, lim, i) ==
    /\ lim.msgs # 0 => \A j \in 1..i : Cardinality(Spell(list, j)) <= lim.msgs
    /\ lim.bytes # 0 => \A j \in 1..i : Bytes(list, Spell(list, j)) <= lim.bytes
    /\ lim.total # 0 => Bytes(list, 1..i) <= lim.total

\* They are the ones the property is stated with.
LEMMA FramesAre ==
    /\ \A I : BytesIn(I) = Bytes(frames, I)
    /\ \A i : SameSpell(i) = Spell(frames, i)
    /\ \A i : WithinLimits(i) <=> Within(frames, limits, i)
<1>1. \A I : BytesIn(I) = Bytes(frames, I)
  BY Zenon DEF BytesIn, Bytes, SumOver
<1>2. \A i : SameSpell(i) = Spell(frames, i)
  BY Zenon DEF SameSpell, Spell
<1>3. \A i : WithinLimits(i) <=> Within(frames, limits, i)
  BY <1>1, <1>2, Zenon DEF WithinLimits, Within
<1> QED BY <1>1, <1>2, <1>3, Zenon

\* Bytes of some of the frames, and of those with one more.
LEMMA BytesMore ==
    ASSUME NEW list \in Seq(Frame), NEW f \in Frame, NEW I, I \subseteq 1..Len(list)
    PROVE  /\ IsFiniteSet(I) /\ Bytes(list, I) \in Nat
           /\ Bytes(Append(list, f), I) = Bytes(list, I)
           /\ Bytes(Append(list, f), I \cup {Len(list) + 1}) = Bytes(list, I) + f.len
<1> DEFINE n == Len(list)
           old == [i \in DOMAIN list |-> list[i].len]
           new == [i \in DOMAIN Append(list, f) |-> Append(list, f)[i].len]
           J == I \cup {n + 1}
<1>1. n \in Nat /\ IsFiniteSet(1..n)
  BY FS_Interval
<1>2. IsFiniteSet(I) /\ IsFiniteSet(J) /\ n + 1 \in J
  BY <1>1, FS_Subset, FS_AddElement, Zenon
<1>3. \A i \in I : old[i] \in Nat /\ new[i] = old[i]
  <2>1. SUFFICES ASSUME NEW i \in I PROVE old[i] \in Nat /\ new[i] = old[i]
    OBVIOUS
  <2>2. i \in 1..n /\ list[i] \in Frame /\ Append(list, f)[i] = list[i]
    OBVIOUS
  <2>3. list[i].len \in Nat
    BY <2>2 DEF Frame
  <2> QED BY <2>2, <2>3
<1>4. new[n + 1] = f.len /\ f.len \in Nat
  BY DEF Frame
<1>5. J \ {n + 1} = I
  BY <1>1
<1>6. /\ Bytes(list, I) = SumOver(old, I)
      /\ Bytes(Append(list, f), I) = SumOver(new, I)
      /\ Bytes(Append(list, f), J) = SumOver(new, J)
  BY Zenon DEF Bytes
<1>7. \A i \in J : new[i] \in Nat
  BY <1>3, <1>4, Zenon
<1> HIDE DEF old, new, J
<1>8. SumOver(old, I) \in Nat /\ SumOver(new, I) = SumOver(old, I)
  BY <1>2, <1>3, SumPick, SumSame, Zenon
<1>9. SumOver(new, J) = new[n + 1] + SumOver(new, J \ {n + 1})
  BY <1>2, <1>7, SumPick
<1>10. Bytes(Append(list, f), J) = Bytes(list, I) + f.len
  <2>1. SumOver(new, J) = f.len + SumOver(old, I)
    BY <1>4, <1>5, <1>8, <1>9, Zenon
  <2>2. f.len + SumOver(old, I) = SumOver(old, I) + f.len
    BY <1>4, <1>8
  <2> QED BY <1>6, <2>1, <2>2, Zenon
<1>11. Bytes(list, I) \in Nat /\ Bytes(Append(list, f), I) = Bytes(list, I)
  BY <1>6, <1>8, Zenon
<1> QED BY <1>2, <1>10, <1>11, Zenon DEF J, n

\* The spell of a frame that arrives.
LEMMA SpellMore ==
    ASSUME NEW list \in Seq(Frame), NEW f \in Frame
    PROVE  LET n == Len(list)
           IN  /\ \A i \in 1..n : /\ Spell(Append(list, f), i) = Spell(list, i)
                                  /\ Spell(list, i) \subseteq 1..n
               /\ n # 0 /\ list[n].second = f.second =>
                     Spell(Append(list, f), n + 1) = Spell(list, n) \cup {n + 1}
               /\ n = 0 \/ list[n].second # f.second =>
                     Spell(Append(list, f), n + 1) = {n + 1}
<1> DEFINE n == Len(list)
           more == Append(list, f)
<1>1. /\ n \in Nat /\ more[n + 1] = f /\ \A i \in 1..n : more[i] = list[i]
  OBVIOUS
<1> HIDE DEF more, n
<1>2. ASSUME NEW i \in 1..n PROVE Spell(more, i) = Spell(list, i) /\ Spell(list, i) \subseteq 1..n
  BY <1>1 DEF Spell
<1>3. ASSUME n # 0, list[n].second = f.second PROVE Spell(more, n + 1) = Spell(list, n) \cup {n + 1}
  <2>1. ASSUME NEW j \in 1..(n + 1)
        PROVE  (\A k \in j..(n + 1) : more[k].second = f.second)
                 <=> j = n + 1 \/ (j \in 1..n /\ \A k \in j..n : list[k].second = list[n].second)
    BY <1>1, <1>3
  <2>2. Spell(more, n + 1) = {j \in 1..(n + 1) : \A k \in j..(n + 1) : more[k].second = f.second}
    BY <1>1 DEF Spell
  <2>3. Spell(list, n) = {j \in 1..n : \A k \in j..n : list[k].second = list[n].second}
    BY DEF Spell
  <2>4. 1..n \subseteq 1..(n + 1) /\ n + 1 \in 1..(n + 1)
    BY <1>1
  <2> QED BY <2>1, <2>2, <2>3, <2>4
<1>4. ASSUME n = 0 \/ list[n].second # f.second PROVE Spell(more, n + 1) = {n + 1}
  <2>1. ASSUME NEW j \in 1..n PROVE ~(\A k \in j..(n + 1) : more[k].second = f.second)
    <3>1. n \in j..(n + 1) /\ more[n] = list[n] /\ n # 0
      BY <1>1
    <3> QED BY <1>4, <3>1
  <2>2. Spell(more, n + 1) = {j \in 1..(n + 1) : \A k \in j..(n + 1) : more[k].second = f.second}
    BY <1>1 DEF Spell
  <2>3. \A j \in 1..(n + 1) : j \in 1..n \/ j = n + 1
    BY <1>1
  <2>4. n + 1 \in 1..(n + 1) /\ \A k \in (n + 1)..(n + 1) : more[k].second = f.second
    BY <1>1
  <2> QED BY <2>1, <2>2, <2>3, <2>4
<1> QED BY <1>2, <1>3, <1>4 DEF n, more

-----------------------------------------------------------------------------

\* While the connection is served its budgets are what the frames left, those
\* of the running spell in the two buckets, and all of them in the total.
ConnSpent ==
    LET n == Len(frames)
    IN  /\ conn.relayed_total = Bytes(frames, 1..n)
        /\ limits.msgs # 0 =>
              IF n = 0 THEN conn.msgs.tokens = limits.msgs
              ELSE /\ conn.msgs.window = frames[n].second
                   /\ conn.msgs.tokens = limits.msgs - Cardinality(Spell(frames, n))
        /\ limits.bytes # 0 =>
              IF n = 0 THEN conn.bytes.remaining = limits.bytes
              ELSE /\ conn.bytes.window = frames[n].second
                   /\ conn.bytes.remaining = limits.bytes - Bytes(frames, Spell(frames, n))

\* A connection is served exactly while its frames are within the limits.
ConnInv ==
    /\ serving <=> Within(frames, limits, Len(frames))
    /\ serving => ConnSpent

\* A frame that arrives is within the limits when what it adds is.
LEMMA WithinMore ==
    ASSUME NEW list \in Seq(Frame), NEW f \in Frame, NEW lim, Within(list, lim, Len(list))
    PROVE  LET n == Len(list)
               more == Append(list, f)
           IN  Within(more, lim, n + 1) <=>
                 /\ lim.msgs # 0 => Cardinality(Spell(more, n + 1)) <= lim.msgs
                 /\ lim.bytes # 0 => Bytes(more, Spell(more, n + 1)) <= lim.bytes
                 /\ lim.total # 0 => Bytes(more, 1..(n + 1)) <= lim.total
<1> DEFINE n == Len(list)
           more == Append(list, f)
<1>1. n \in Nat /\ \A j : j \in 1..(n + 1) <=> j \in 1..n \/ j = n + 1
  OBVIOUS
<1>2. \A j \in 1..n : Spell(more, j) = Spell(list, j) /\ Spell(list, j) \subseteq 1..n
  BY SpellMore
<1>3. \A j \in 1..n : Bytes(more, Spell(more, j)) = Bytes(list, Spell(list, j))
  <2>1. \A I : I \subseteq 1..n => Bytes(more, I) = Bytes(list, I)
    BY BytesMore, Zenon
  <2> QED BY <1>2, <2>1
<1> HIDE DEF more, n
<1>4. /\ lim.msgs # 0 => \A j \in 1..n : Cardinality(Spell(more, j)) <= lim.msgs
      /\ lim.bytes # 0 => \A j \in 1..n : Bytes(more, Spell(more, j)) <= lim.bytes
  BY <1>2, <1>3 DEF Within, n
<1>5. /\ lim.msgs # 0 => ((\A j \in 1..(n + 1) : Cardinality(Spell(more, j)) <= lim.msgs)
                             <=> Cardinality(Spell(more, n + 1)) <= lim.msgs)
      /\ lim.bytes # 0 => ((\A j \in 1..(n + 1) : Bytes(more, Spell(more, j)) <= lim.bytes)
                             <=> Bytes(more, Spell(more, n + 1)) <= lim.bytes)
  BY <1>1, <1>4, Zenon
<1> QED BY <1>5, Zenon DEF Within, n, more

\* admit decides by exactly what the frame adds to its spell and to the total.
LEMMA AdmitStep ==
    ASSUME ConnTypeOK, ConnShape, ConnInv, now \in Nat, NEW len \in FrameLens, InboundFrame(len)
    PROVE  ConnInv'
<1> DEFINE n == Len(frames)
           W == Window(now)
           f == [second |-> W, len |-> len]
           more == Append(frames, f)
           spell == Spell(more, n + 1)
<1>1. /\ limits.msgs \in Nat /\ limits.bytes \in Nat /\ limits.total \in Nat /\ len \in Nat
      /\ W \in Nat /\ frames \in Seq(Frame) /\ f \in Frame /\ n \in Nat /\ serving
      /\ limits' = limits /\ frames' = more
  <2>1. limits.msgs \in Nat /\ limits.bytes \in Nat /\ limits.total \in Nat /\ len \in Nat
    BY ConnAssumption DEF ConnTypeOK
  <2>2. W \in Nat
    BY WindowType
  <2>3. frames \in Seq(Frame) /\ n \in Nat
    BY DEF ConnShape, Frame
  <2>4. f \in Frame
    BY <2>1, <2>2 DEF Frame
  <2>5. serving /\ limits' = limits /\ frames' = more
    BY DEF InboundFrame
  <2> QED BY <2>1, <2>2, <2>3, <2>4, <2>5
<1>2. /\ ConnSpent /\ Within(frames, limits, n)
      /\ conn.msgs \in [tokens : Nat, window : Nat, last_seen : Nat]
      /\ conn.bytes \in [remaining : Nat, window : Nat] /\ conn.relayed_total \in Nat
  BY <1>1 DEF ConnInv, ConnShape
<1>3. frames'[n + 1].second = W /\ Len(frames') = n + 1
  BY <1>1
<1>4. /\ Spell(frames, n) \subseteq 1..n
      /\ n # 0 /\ frames[n].second = W => spell = Spell(frames, n) \cup {n + 1}
      /\ n = 0 \/ frames[n].second # W => spell = {} \cup {n + 1}
  <2>1. n # 0 => n \in 1..n
    BY <1>1
  <2>2. n = 0 => Spell(frames, n) = {}
    BY DEF Spell
  <2>3. f.second = W
    OBVIOUS
  <2> QED BY <1>1, <2>1, <2>2, <2>3, SpellMore
<1>5. \A I : I \subseteq 1..n =>
        /\ IsFiniteSet(I) /\ Cardinality(I) \in Nat /\ Bytes(frames, I) \in Nat
        /\ Cardinality(I \cup {n + 1}) = Cardinality(I) + 1
        /\ Bytes(more, I \cup {n + 1}) = Bytes(frames, I) + len
  <2> SUFFICES ASSUME NEW I, I \subseteq 1..n
               PROVE  /\ IsFiniteSet(I) /\ Cardinality(I) \in Nat /\ Bytes(frames, I) \in Nat
                      /\ Cardinality(I \cup {n + 1}) = Cardinality(I) + 1
                      /\ Bytes(more, I \cup {n + 1}) = Bytes(frames, I) + len
    BY Zenon
  <2>1. /\ IsFiniteSet(I) /\ Bytes(frames, I) \in Nat
        /\ Bytes(more, I \cup {n + 1}) = Bytes(frames, I) + f.len
    BY <1>1, BytesMore, Zenon
  <2>2. n + 1 \notin I
    BY <1>1
  <2>3. Cardinality(I) \in Nat /\ Cardinality(I \cup {n + 1}) = Cardinality(I) + 1
    BY <2>1, <2>2, FS_AddElement, FS_CardinalityType, Zenon
  <2> QED BY <2>1, <2>3
<1>6. Bytes(more, 1..(n + 1)) = conn.relayed_total + len
  <2>1. 1..(n + 1) = (1..n) \cup {n + 1} /\ 1..n \subseteq 1..n
    BY <1>1
  <2> QED BY <1>2, <1>5, <2>1, Zenon DEF ConnSpent
<1>7. Cardinality({}) = 0 /\ Bytes(frames, {}) = 0
  <2>1. Bytes(frames, {}) = SumOver([i \in DOMAIN frames |-> frames[i].len], {})
    BY DEF Bytes
  <2> QED BY <2>1, FS_EmptySet, SumZero
<1> HIDE DEF spell, more
<1>8. limits.msgs # 0 => /\ Available(conn.msgs, limits.msgs, now) = limits.msgs - (Cardinality(spell) - 1)
                         /\ Cardinality(spell) \in Nat
  <2> SUFFICES ASSUME limits.msgs # 0
               PROVE  /\ Available(conn.msgs, limits.msgs, now) = limits.msgs - (Cardinality(spell) - 1)
                      /\ Cardinality(spell) \in Nat
    OBVIOUS
  <2>1. CASE n # 0 /\ frames[n].second = W
    <3>1. Available(conn.msgs, limits.msgs, now) = limits.msgs - Cardinality(Spell(frames, n))
      BY <1>2, <2>1 DEF ConnSpent, Available
    <3>2. Cardinality(spell) = Cardinality(Spell(frames, n)) + 1 /\ Cardinality(Spell(frames, n)) \in Nat
      BY <1>4, <1>5, <2>1, Zenon
    <3> QED BY <1>1, <3>1, <3>2
  <2>2. CASE n = 0 \/ frames[n].second # W
    <3>1. Available(conn.msgs, limits.msgs, now) = limits.msgs
      BY <1>2, <2>2 DEF ConnSpent, Available
    <3>2. Cardinality(spell) = 0 + 1
      <4>1. {} \subseteq 1..n /\ spell = {} \cup {n + 1}
        BY <1>4, <2>2
      <4> QED BY <1>5, <1>7, <4>1, Zenon
    <3> QED BY <1>1, <3>1, <3>2
  <2> QED BY <2>1, <2>2
<1>9. limits.bytes # 0 => /\ Remaining(conn.bytes, limits.bytes, now) = limits.bytes - (Bytes(more, spell) - len)
                          /\ Bytes(more, spell) \in Nat
  <2> SUFFICES ASSUME limits.bytes # 0
               PROVE  /\ Remaining(conn.bytes, limits.bytes, now) = limits.bytes - (Bytes(more, spell) - len)
                      /\ Bytes(more, spell) \in Nat
    OBVIOUS
  <2>1. CASE n # 0 /\ frames[n].second = W
    <3>1. Remaining(conn.bytes, limits.bytes, now) = limits.bytes - Bytes(frames, Spell(frames, n))
      BY <1>2, <2>1 DEF ConnSpent, Remaining
    <3>2. /\ Bytes(more, spell) = Bytes(frames, Spell(frames, n)) + len
          /\ Bytes(frames, Spell(frames, n)) \in Nat
      BY <1>4, <1>5, <2>1, Zenon
    <3> QED BY <1>1, <3>1, <3>2
  <2>2. CASE n = 0 \/ frames[n].second # W
    <3>1. Remaining(conn.bytes, limits.bytes, now) = limits.bytes
      BY <1>2, <2>2 DEF ConnSpent, Remaining
    <3>2. Bytes(more, spell) = 0 + len
      BY <1>4, <1>5, <1>7, <2>2, Zenon
    <3> QED BY <1>1, <3>1, <3>2
  <2> QED BY <2>1, <2>2
<1>10. MessageFits <=> (limits.msgs # 0 => Cardinality(spell) <= limits.msgs)
  BY <1>1, <1>8 DEF MessageFits
<1>11. FrameFits(len) <=> (limits.bytes # 0 => Bytes(more, spell) <= limits.bytes)
  BY <1>1, <1>9 DEF FrameFits, BytesFit
<1>12. TotalFits(len) <=> (limits.total # 0 => Bytes(more, 1..(n + 1)) <= limits.total)
  BY <1>6, Zenon DEF TotalFits
<1>13. Within(more, limits, n + 1) <=> MessageFits /\ FrameFits(len) /\ TotalFits(len)
  BY <1>1, <1>2, <1>10, <1>11, <1>12, WithinMore DEF spell, more
<1>14. serving' <=> MessageFits /\ FrameFits(len) /\ TotalFits(len)
  <2>1. TotalFits(len) \in BOOLEAN
    BY DEF TotalFits
  <2> QED BY <2>1 DEF InboundFrame, Admit
<1>15. ASSUME serving' PROVE ConnSpent'
  <2>1. /\ MessageFits /\ FrameFits(len)
        /\ conn' = [msgs |-> SpendMessage, bytes |-> SpendFrame(len),
                    relayed_total |-> conn.relayed_total + len]
    BY <1>14, <1>15 DEF InboundFrame, Admit
  <2>2. conn'.relayed_total = Bytes(frames', 1..(n + 1))
    BY <1>1, <1>6, <2>1
  <2>3. limits.msgs # 0 => /\ conn'.msgs.window = W
                           /\ conn'.msgs.tokens = limits.msgs - Cardinality(spell)
    <3> SUFFICES ASSUME limits.msgs # 0
                 PROVE  conn'.msgs.window = W /\ conn'.msgs.tokens = limits.msgs - Cardinality(spell)
      OBVIOUS
    <3>1. conn'.msgs = TrySpend(conn.msgs, limits.msgs, now) /\ Available(conn.msgs, limits.msgs, now) > 0
      BY <2>1 DEF SpendMessage, MessageFits
    <3>2. conn'.msgs.window = W /\ conn'.msgs.tokens = Available(conn.msgs, limits.msgs, now) - 1
      BY <1>1, <1>8, <3>1 DEF TrySpend
    <3> QED BY <1>1, <1>8, <3>2
  <2>4. limits.bytes # 0 => /\ conn'.bytes.window = W
                            /\ conn'.bytes.remaining = limits.bytes - Bytes(more, spell)
    <3> SUFFICES ASSUME limits.bytes # 0
                 PROVE  conn'.bytes.window = W /\ conn'.bytes.remaining = limits.bytes - Bytes(more, spell)
      OBVIOUS
    <3>1. /\ conn'.bytes = SpendBytes(conn.bytes, limits.bytes, len, now)
          /\ BytesFit(conn.bytes, limits.bytes, len, now)
      BY <2>1 DEF SpendFrame, FrameFits
    <3>2. conn'.bytes.window = W /\ conn'.bytes.remaining = Remaining(conn.bytes, limits.bytes, now) - len
      BY <3>1 DEF SpendBytes
    <3> QED BY <1>1, <1>9, <3>2
  <2>5. n + 1 # 0
    BY <1>1
  <2> QED BY <1>1, <1>3, <2>2, <2>3, <2>4, <2>5 DEF ConnSpent, spell
<1>16. Within(frames', limits', Len(frames')) <=> Within(more, limits, n + 1)
  BY <1>1, <1>3
<1> QED BY <1>13, <1>14, <1>15, <1>16 DEF ConnInv

\* A connection without frames is within any limits.
LEMMA ConnInvInit == Init => ConnInv
<1> SUFFICES ASSUME Init PROVE ConnInv
  OBVIOUS
<1>1. /\ frames = <<>> /\ serving = TRUE /\ limits \in ConnLimits
      /\ conn = [msgs |-> NewBucket(limits.msgs, now), bytes |-> NewByteBucket(limits.bytes, now),
                 relayed_total |-> 0]
  BY DEF Init, ConnInit
<1>2. Len(frames) = 0 /\ 1..0 = {}
  BY <1>1
<1>3. Bytes(frames, 1..0) = 0
  <2>1. Bytes(frames, {}) = SumOver([i \in DOMAIN frames |-> frames[i].len], {})
    BY DEF Bytes
  <2> QED BY <1>2, <2>1, FS_EmptySet, SumZero
<1>4. limits.total \in Nat
  BY <1>1, ConnAssumption
<1>5. Within(frames, limits, Len(frames))
  BY <1>2, <1>3, <1>4 DEF Within
<1>6. ConnSpent
  BY <1>1, <1>2, <1>3 DEF ConnSpent, NewBucket, NewByteBucket
<1> QED BY <1>1, <1>5, <1>6 DEF ConnInv

\* Frames keep it, and other limiters' steps leave it.
LEMMA ConnInvStep == LInv /\ ConnInv /\ [Next]_vars => ConnInv'
<1> SUFFICES ASSUME LInv, ConnInv, [Next]_vars PROVE ConnInv'
  OBVIOUS
<1>1. ConnTypeOK /\ ConnShape /\ now \in Nat
  BY DEF LInv, LimitsTypeOK, StunTypeOK
<1>2. ASSUME UNCHANGED connVars PROVE ConnInv'
  BY <1>2, Zenon DEF connVars, ConnInv, ConnSpent
<1>3. ASSUME NEW len \in FrameLens, InboundFrame(len) PROVE ConnInv'
  BY <1>1, <1>3, AdmitStep
<1>4. CASE ConnNext
  BY <1>2, <1>3, <1>4, Zenon DEF ConnNext
<1>5. \/ ConnNext
      \/ UNCHANGED connVars
  BY DEF Next, Others, ConnStep, vars
<1> QED BY <1>2, <1>4, <1>5

\* While a connection is served, its PerConnLimiter holds what its frames have
\* left of each budget.
THEOREM ConnInvariant == Spec => []ConnInv
<1>1. LInv /\ ConnInv /\ [Next]_vars => ConnInv'
  BY ConnInvStep
<1> QED BY <1>1, ConnInvInit, LimitsInvariant, PTL DEF Spec

\* PerConnLimiter::admit disconnects exactly the connections that exceed a
\* configured limit, whatever the clock does.
THEOREM AdmitTheorem == Spec => []AdmitIsExact
<1>1. ConnInv => AdmitIsExact
  BY FramesAre, Zenon DEF ConnInv, AdmitIsExact
<1> QED BY <1>1, ConnInvariant, PTL
==============================================================================
