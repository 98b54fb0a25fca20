------------------------- MODULE SurroundingsProofs --------------------------
(*****************************************************************************)
(* The public pages, the DHT sweep and the process side by side, proved for  *)
(* every set of peers, every offer, every geo database, every list of        *)
(* answers and every bound.                                                  *)
(*                                                                           *)
(* First build_dht_view and dht_sweep: the view of any list of answers is    *)
(* the one they call for (ViewFacts), and the sweep keeps every answer in    *)
(* one place.  The recursions of the view are resolved one at a time: the    *)
(* records gathered, the positions of a key, its largest count, then the     *)
(* order of publication, which exists for any finite set of slots.  Then     *)
(* the process, the addresses, the statistics and the map, and last the      *)
(* pages and the sweep together.                                             *)
(*****************************************************************************)
EXTENDS Surroundings, DataLemmas

-------------------------------------------------------------------------------
(* The records of all answers *)

Recs == [key : Nat, providers : Nat]

\* The answers the sweep can hold.
Sent == {PeerAnswer(n, a) : n \in Nodes, a \in Answers}

\* They consist of records, and say whether they are complete.
LEMMA SentType == \A s \in Sent : s.records \in Seq(Recs) /\ s.truncated \in BOOLEAN
BY SweepAssumption DEF Sent, PeerAnswer, Recs

\* The positions of a key in a list of records.
Spots(key, recs) == {x \in 1..Len(recs) : recs[x].key = key}

\* Positions in a list are finitely many.
LEMMA SpotsFinite ==
    ASSUME NEW key, NEW V, NEW recs \in Seq(V)
    PROVE  IsFiniteSet(Spots(key, recs)) /\ Cardinality(Spots(key, recs)) \in Nat
<1>1. IsFiniteSet(1..Len(recs)) /\ Spots(key, recs) \subseteq 1..Len(recs)
  BY FS_Interval DEF Spots
<1>2. IsFiniteSet(Spots(key, recs))
  BY <1>1, FS_Subset
<1> QED BY <1>2, FS_CardinalityType

\* The reports of a key in two lists add up.
LEMMA SpotsConcat ==
    ASSUME NEW key, NEW V, NEW s \in Seq(V), NEW t \in Seq(V)
    PROVE  Cardinality(Spots(key, s \o t)) = Cardinality(Spots(key, s)) + Cardinality(Spots(key, t))
<1> DEFINE A == Spots(key, s)
           f == [x \in 1..Len(t) |-> Len(s) + x]
           B == {f[x] : x \in Spots(key, t)}
<1>1. /\ s \o t \in Seq(V) /\ Len(s \o t) = Len(s) + Len(t)
      /\ \A x \in 1..Len(s) : (s \o t)[x] = s[x]
      /\ \A x \in 1..Len(t) : (s \o t)[Len(s) + x] = t[x]
      /\ Len(s) \in Nat /\ Len(t) \in Nat
  BY ConcatFacts
<1>2. \A x \in Spots(key, t) : x \in 1..Len(t) /\ x \in Nat /\ f[x] = Len(s) + x /\ t[x].key = key
  BY <1>1 DEF Spots
<1> HIDE DEF f
<1>3. \A x, y \in Spots(key, t) : f[x] = f[y] => x = y
  BY <1>1, <1>2
<1>4. IsFiniteSet(B) /\ Cardinality(B) = Cardinality(Spots(key, t))
  BY <1>3, SpotsFinite, RenamedCard
<1>5. A \cap B = {}
  BY <1>1, <1>2 DEF Spots
<1>6. Spots(key, s \o t) = A \cup B
  <2>1. ASSUME NEW x \in Spots(key, s \o t) PROVE x \in A \cup B
    <3>1. x \in 1..(Len(s) + Len(t)) /\ (s \o t)[x].key = key
      BY <1>1 DEF Spots
    <3>2. CASE x <= Len(s)
      <4>1. x \in 1..Len(s) /\ (s \o t)[x] = s[x]
        BY <1>1, <3>1, <3>2
      <4> QED BY <3>1, <4>1 DEF Spots
    <3>3. CASE x > Len(s)
      <4> DEFINE y == x - Len(s)
      <4>1. y \in 1..Len(t) /\ x = Len(s) + y
        BY <1>1, <3>1, <3>3
      <4> HIDE DEF y
      <4>2. t[y].key = key
        BY <1>1, <3>1, <4>1
      <4>3. y \in Spots(key, t)
        BY <4>1, <4>2 DEF Spots
      <4>4. x = f[y]
        BY <1>2, <4>1, <4>3
      <4> QED BY <4>3, <4>4
    <3> QED BY <1>1, <3>1, <3>2, <3>3
  <2>2. ASSUME NEW x \in A PROVE x \in Spots(key, s \o t)
    BY <1>1 DEF Spots
  <2>3. ASSUME NEW x \in B PROVE x \in Spots(key, s \o t)
    <3>1. PICK y \in Spots(key, t) : x = f[y]
      OBVIOUS
    <3>2. y \in 1..Len(t) /\ x = Len(s) + y /\ t[y].key = key
      BY <1>2, <3>1
    <3>3. x \in 1..(Len(s) + Len(t)) /\ (s \o t)[x].key = key
      BY <1>1, <3>2
    <3> QED BY <1>1, <3>3 DEF Spots
  <2> HIDE DEF A, B
  <2> QED BY <2>1, <2>2, <2>3
<1> HIDE DEF B
<1> QED BY <1>4, <1>5, <1>6, SpotsFinite, DisjointCard, Zenon

\* R[i] is the list of the records of the first i answers.
Gathers(R, answers) ==
    /\ R \in [0..Len(answers) -> Seq(Recs)]
    /\ R[0] = <<>>
    /\ \A i \in 1..Len(answers) : R[i] = R[i - 1] \o answers[i].records

\* Records is the last of these lists.
LEMMA RecordsIs ==
    ASSUME NEW answers \in Seq(Sent)
    PROVE  \E R : Gathers(R, answers) /\ Records(answers) = R[Len(answers)]
<1> DEFINE n == Len(answers)
           D(K) == K = [i \in 0..n |-> IF i = 0 THEN <<>> ELSE K[i - 1] \o answers[i].records]
           g == [i \in 1..n |-> [k \in Seq(Recs) |-> k \o answers[i].records]]
<1>1. n \in Nat /\ \A i \in 1..n : answers[i].records \in Seq(Recs)
  BY SentType
<1> HIDE DEF n
<1>2. g \in [1..n -> [Seq(Recs) -> Seq(Recs)]]
  BY <1>1, ConcatFacts, Zenon
<1>3. PICK K \in [0..n -> Seq(Recs)] : Runs(K, n, <<>>, g)
  <2>1. <<>> \in Seq(Recs)
    OBVIOUS
  <2> HIDE DEF g
  <2> QED BY <1>1, <1>2, <2>1, ListRecursion, Zenon
<1>4. K[0] = <<>>
  BY <1>3 DEF Runs
<1>5. ASSUME NEW i \in 1..n PROVE K[i] = K[i - 1] \o answers[i].records
  <2>1. i - 1 \in 0..n
    BY <1>1
  <2>2. K[i] = g[i][K[i - 1]] /\ K[i - 1] \in Seq(Recs)
    BY <1>3, <2>1, Zenon DEF Runs
  <2> QED BY <2>2, Zenon
<1>6. D(K)
  <2>1. \A i \in 0..n : i # 0 => i \in 1..n
    BY <1>1
  <2>2. \A i \in 0..n : K[i] = IF i = 0 THEN <<>> ELSE K[i - 1] \o answers[i].records
    BY <1>4, <1>5, <2>1, Zenon
  <2> QED BY <2>2, Zenon
<1> DEFINE C == CHOOSE F : D(F)
<1>7. D(C)
  BY <1>6, Zenon
<1>8. Records(answers) = C[n]
  BY Zenon DEF Records, n
<1> HIDE DEF C
<1>9. \A i \in 0..n : C[i] = IF i = 0 THEN <<>> ELSE C[i - 1] \o answers[i].records
  BY <1>7, Zenon
<1> DEFINE T == {i \in 0..n : C[i] = K[i]}
<1>10. 0..n \subseteq T
  <2>1. 0 \in T
    BY <1>1, <1>4, <1>9
  <2>2. ASSUME NEW i \in 1..n, i - 1 \in T PROVE i \in T
    <3>1. i \in 0..n /\ i # 0
      BY <1>1
    <3> QED BY <1>5, <1>9, <2>2, <3>1, Zenon
  <2> HIDE DEF T
  <2> QED BY <1>1, <2>1, <2>2, InductionUpTo, Zenon
<1>11. Records(answers) = K[n]
  BY <1>1, <1>8, <1>10
<1>12. Gathers(K, answers)
  BY <1>4, <1>5, Zenon DEF Gathers, n
<1> QED BY <1>11, <1>12, Zenon DEF n

\* The positions of a key in the first n answers.
ReportsUpTo(answers, key, n) ==
    UNION {{<<i, j>> : j \in Spots(key, answers[i].records)} : i \in 1..n}

\* The records gathered are those of the answers, and a key is found among
\* them as often as in the answers.
LEMMA RecordsFacts ==
    ASSUME NEW answers \in Seq(Sent)
    PROVE  /\ Records(answers) \in Seq(Recs)
           /\ Range(Records(answers)) = UNION {Range(answers[i].records) : i \in 1..Len(answers)}
           /\ \A key : Cardinality(Spots(key, Records(answers)))
                          = Cardinality(ReportsUpTo(answers, key, Len(answers)))
<1> DEFINE n == Len(answers)
           part(i) == answers[i].records
           seen(i) == UNION {Range(part(j)) : j \in 1..i}
<1>1. PICK R : Gathers(R, answers) /\ Records(answers) = R[n]
  BY RecordsIs, Zenon
<1>2. n \in Nat /\ \A i \in 1..n : part(i) \in Seq(Recs)
  BY SentType
<1>3. /\ R \in [0..n -> Seq(Recs)] /\ R[0] = <<>>
      /\ \A i \in 1..n : R[i] = R[i - 1] \o part(i)
  BY <1>1, Zenon DEF Gathers
<1> HIDE DEF n, part
<1>4. ASSUME NEW i \in 1..n
      PROVE  /\ i - 1 \in 0..n /\ i \in 0..n /\ R[i - 1] \in Seq(Recs) /\ part(i) \in Seq(Recs)
             /\ R[i] = R[i - 1] \o part(i) /\ 1..i = 1..(i - 1) \cup {i} /\ i \notin 1..(i - 1)
  <2>1. i - 1 \in 0..n /\ i \in 0..n /\ 1..i = 1..(i - 1) \cup {i} /\ i \notin 1..(i - 1)
    BY <1>2
  <2> QED BY <1>2, <1>3, <2>1, Zenon
<1>5. Range(R[n]) = seen(n)
  <2> DEFINE T == {i \in 0..n : Range(R[i]) = seen(i)}
  <2>1. 0 \in T
    <3>1. Range(<<>>) = {} /\ seen(0) = {}
      BY DEF Range
    <3> QED BY <1>2, <1>3, <3>1
  <2>2. ASSUME NEW i \in 1..n, i - 1 \in T PROVE i \in T
    <3>0. R[i - 1] \in Seq(Recs) /\ part(i) \in Seq(Recs) /\ R[i] = R[i - 1] \o part(i)
      BY <1>4
    <3>1. Range(R[i]) = Range(R[i - 1]) \cup Range(part(i))
      <4>1. HasBoth(R[i - 1] \o part(i), R[i - 1], part(i))
        BY <3>0, ConcatRange, Zenon
      <4> QED BY <3>0, <4>1 DEF HasBoth
    <3>2. seen(i) = seen(i - 1) \cup Range(part(i))
      <4>1. {Range(part(j)) : j \in 1..i} = {Range(part(j)) : j \in 1..(i - 1)} \cup {Range(part(i))}
        <5>1. 1..i = 1..(i - 1) \cup {i}
          BY <1>4
        <5>2. \A A : {Range(part(j)) : j \in A \cup {i}} = {Range(part(j)) : j \in A} \cup {Range(part(i))}
          BY Zenon
        <5> QED BY <5>1, <5>2, Zenon
      <4>2. \A X, y : UNION (X \cup {y}) = (UNION X) \cup y
        BY Zenon
      <4> QED BY <4>1, <4>2, Zenon
    <3>3. Range(R[i - 1]) = seen(i - 1)
      BY <2>2
    <3> HIDE DEF seen
    <3> QED BY <1>4, <3>1, <3>2, <3>3, Zenon
  <2>3. 0..n \subseteq T
    <3> HIDE DEF T
    <3> QED BY <1>2, <2>1, <2>2, InductionUpTo, Zenon
  <2> QED BY <1>2, <2>3
<1>6. ASSUME NEW key PROVE Cardinality(Spots(key, R[n])) = Cardinality(ReportsUpTo(answers, key, n))
  <2> DEFINE U(i) == ReportsUpTo(answers, key, i)
             row(i) == {<<i, j>> : j \in Spots(key, part(i))}
             T == {i \in 0..n : IsFiniteSet(U(i)) /\ Cardinality(Spots(key, R[i])) = Cardinality(U(i))}
  <2>0. \A i : U(i) = UNION {row(j) : j \in 1..i}
    BY Zenon DEF ReportsUpTo, part
  <2> HIDE DEF U
  <2>1. 0 \in T
    <3>1. U(0) = {} /\ Spots(key, <<>>) = {}
      BY <2>0 DEF Spots
    <3>2. IsFiniteSet(U(0)) /\ Cardinality(Spots(key, R[0])) = Cardinality(U(0))
      BY <1>3, <3>1, FS_EmptySet, Zenon
    <3>3. 0 \in 0..n
      BY <1>2
    <3> QED BY <3>2, <3>3
  <2>2. ASSUME NEW i \in 1..n, i - 1 \in T PROVE i \in T
    <3>1. U(i) = U(i - 1) \cup row(i)
      <4>1. {row(j) : j \in 1..i} = {row(j) : j \in 1..(i - 1)} \cup {row(i)}
        <5>1. 1..i = 1..(i - 1) \cup {i}
          BY <1>4
        <5>2. \A A : {row(j) : j \in A \cup {i}} = {row(j) : j \in A} \cup {row(i)}
          BY Zenon
        <5> QED BY <5>1, <5>2, Zenon
      <4>2. \A X, y : UNION (X \cup {y}) = (UNION X) \cup y
        BY Zenon
      <4>3. U(i) = UNION {row(j) : j \in 1..i} /\ U(i - 1) = UNION {row(j) : j \in 1..(i - 1)}
        BY <2>0, Zenon
      <4> HIDE DEF row
      <4> QED BY <4>1, <4>2, <4>3, Zenon
    <3>2. U(i - 1) \cap row(i) = {}
      <4> SUFFICES ASSUME NEW x \in U(i - 1), x \in row(i) PROVE FALSE
        OBVIOUS
      <4>1. PICK k \in 1..(i - 1) : x \in row(k)
        BY <2>0, Zenon
      <4>2. x[1] = k /\ x[1] = i
        BY <4>1
      <4> QED BY <1>4, <4>1, <4>2
    <3>3. IsFiniteSet(row(i)) /\ Cardinality(row(i)) = Cardinality(Spots(key, part(i)))
      <4> DEFINE f == [j \in Spots(key, part(i)) |-> <<i, j>>]
      <4>1. row(i) = {f[j] : j \in Spots(key, part(i))}
        BY Zenon
      <4>2. \A x, y \in Spots(key, part(i)) : f[x] = f[y] => x = y
        OBVIOUS
      <4>3. IsFiniteSet(Spots(key, part(i)))
        BY <1>4, SpotsFinite
      <4> HIDE DEF f, row
      <4> QED BY <4>1, <4>2, <4>3, RenamedCard
    <3>4. Cardinality(Spots(key, R[i])) = Cardinality(Spots(key, R[i - 1])) + Cardinality(Spots(key, part(i)))
      <4>1. R[i - 1] \in Seq(Recs) /\ part(i) \in Seq(Recs) /\ R[i] = R[i - 1] \o part(i)
        BY <1>4
      <4>2. Cardinality(Spots(key, R[i - 1] \o part(i)))
               = Cardinality(Spots(key, R[i - 1])) + Cardinality(Spots(key, part(i)))
        BY <4>1, SpotsConcat, Zenon
      <4> QED BY <4>1, <4>2, Zenon
    <3>5. IsFiniteSet(U(i - 1)) /\ Cardinality(Spots(key, R[i - 1])) = Cardinality(U(i - 1))
      BY <2>2
    <3> HIDE DEF row
    <3>6. IsFiniteSet(U(i)) /\ Cardinality(U(i)) = Cardinality(U(i - 1)) + Cardinality(row(i))
      BY <3>1, <3>2, <3>3, <3>5, DisjointCard, Zenon
    <3> QED BY <1>4, <3>3, <3>4, <3>5, <3>6
  <2>3. 0..n \subseteq T
    <3> HIDE DEF T
    <3> QED BY <1>2, <2>1, <2>2, InductionUpTo, Zenon
  <2> QED BY <1>2, <2>3 DEF U
<1>7. R[n] \in Seq(Recs)
  BY <1>2, <1>3
<1> QED BY <1>1, <1>5, <1>6, <1>7 DEF n, part

-------------------------------------------------------------------------------
(* The slot of a key *)

\* M[i] is the most providers the first i records give the key.
Mosts(M, key, recs) ==
    /\ M \in [0..Len(recs) -> Nat]
    /\ M[0] = 0
    /\ \A i \in 1..Len(recs) :
          M[i] = IF recs[i].key = key /\ recs[i].providers > M[i - 1] THEN recs[i].providers ELSE M[i - 1]

\* Providers is the last of these numbers.
LEMMA ProvidersIs ==
    ASSUME NEW key, NEW recs \in Seq(Recs)
    PROVE  \E M : Mosts(M, key, recs) /\ Providers(key, recs) = M[Len(recs)]
<1> DEFINE n == Len(recs)
           E(i, x) == IF recs[i].key = key /\ recs[i].providers > x THEN recs[i].providers ELSE x
           D(K) == K = [i \in 0..n |-> IF i = 0 THEN 0 ELSE E(i, K[i - 1])]
           g == [i \in 1..n |-> [k \in Nat |-> E(i, k)]]
<1>1. n \in Nat /\ \A i \in 1..n : recs[i].providers \in Nat
  <2>1. \A r \in Recs : r.providers \in Nat
    BY DEF Recs
  <2> QED BY <2>1
<1> HIDE DEF n
<1>2. g \in [1..n -> [Nat -> Nat]]
  <2>1. \A i \in 1..n, k \in Nat : E(i, k) \in Nat
    BY <1>1, Zenon
  <2> HIDE DEF E
  <2> QED BY <2>1, Zenon
<1>3. PICK K \in [0..n -> Nat] : Runs(K, n, 0, g)
  <2>1. 0 \in Nat
    OBVIOUS
  <2> HIDE DEF g
  <2> QED BY <1>1, <1>2, <2>1, ListRecursion, Zenon
<1>4. K[0] = 0
  BY <1>3 DEF Runs
<1>5. ASSUME NEW i \in 1..n PROVE K[i] = E(i, K[i - 1])
  <2>1. i - 1 \in 0..n
    BY <1>1
  <2>2. K[i] = g[i][K[i - 1]] /\ K[i - 1] \in Nat
    BY <1>3, <2>1, Zenon DEF Runs
  <2> HIDE DEF E
  <2> QED BY <2>2, Zenon
<1>6. D(K)
  <2>1. \A i \in 0..n : i # 0 => i \in 1..n
    BY <1>1
  <2> HIDE DEF E
  <2>2. \A i \in 0..n : K[i] = IF i = 0 THEN 0 ELSE E(i, K[i - 1])
    BY <1>4, <1>5, <2>1, Zenon
  <2> QED BY <2>2, Zenon
<1> DEFINE C == CHOOSE F : D(F)
<1>7. D(C)
  BY <1>6, Zenon
<1>8. Providers(key, recs) = C[n]
  BY Zenon DEF Providers, n
<1> HIDE DEF C
<1>9. \A i \in 0..n : C[i] = IF i = 0 THEN 0 ELSE E(i, C[i - 1])
  <2> HIDE DEF E
  <2> QED BY <1>7, Zenon
<1> DEFINE T == {i \in 0..n : C[i] = K[i]}
<1>10. 0..n \subseteq T
  <2>1. 0 \in T
    BY <1>1, <1>4, <1>9
  <2>2. ASSUME NEW i \in 1..n, i - 1 \in T PROVE i \in T
    <3>1. i \in 0..n /\ i # 0
      BY <1>1
    <3> HIDE DEF E
    <3> QED BY <1>5, <1>9, <2>2, <3>1, Zenon
  <2> HIDE DEF T
  <2> QED BY <1>1, <2>1, <2>2, InductionUpTo, Zenon
<1>11. Providers(key, recs) = K[n]
  BY <1>1, <1>8, <1>10
<1>12. Mosts(K, key, recs)
  BY <1>4, <1>5, Zenon DEF Mosts, n
<1> QED BY <1>11, <1>12, Zenon DEF n

\* Providers is the largest count a record gives the key.
LEMMA ProvidersFacts ==
    ASSUME NEW key, NEW recs \in Seq(Recs)
    PROVE  /\ Providers(key, recs) \in Nat
           /\ \A r \in Range(recs) : r.key = key => r.providers <= Providers(key, recs)
           /\ Spots(key, recs) # {} =>
                 \E r \in Range(recs) : r.key = key /\ r.providers = Providers(key, recs)
<1> DEFINE n == Len(recs)
<1>1. PICK M : Mosts(M, key, recs) /\ Providers(key, recs) = M[n]
  BY ProvidersIs, Zenon
<1>2. n \in Nat /\ DOMAIN recs = 1..n /\ \A i \in 1..n : recs[i].providers \in Nat
  <2>1. \A r \in Recs : r.providers \in Nat
    BY DEF Recs
  <2> QED BY <2>1
<1>3. /\ M \in [0..n -> Nat] /\ M[0] = 0
      /\ \A i \in 1..n :
            M[i] = IF recs[i].key = key /\ recs[i].providers > M[i - 1] THEN recs[i].providers ELSE M[i - 1]
  BY <1>1, Zenon DEF Mosts
<1> HIDE DEF n
<1> DEFINE Above(i) == \A j \in 1..i : recs[j].key = key => recs[j].providers <= M[i]
           Met(i) == \A j \in 1..i : recs[j].key = key =>
                        \E k \in 1..i : recs[k].key = key /\ recs[k].providers = M[i]
           None(i) == (\A j \in 1..i : recs[j].key # key) => M[i] = 0
           T == {i \in 0..n : Above(i) /\ Met(i) /\ None(i)}
<1>4. 0 \in T
  BY <1>2, <1>3
<1>5. ASSUME NEW i \in 1..n, i - 1 \in T PROVE i \in T
  <2>1. /\ i \in 0..n /\ i - 1 \in 0..n /\ M[i - 1] \in Nat /\ M[i] \in Nat /\ recs[i].providers \in Nat
        /\ \A j \in 1..i : j = i \/ j \in 1..(i - 1)
        /\ \A j \in 1..(i - 1) : j \in 1..i /\ j \in 1..n
        /\ i \in 1..i
    BY <1>2, <1>3
  <2>2. Above(i - 1) /\ Met(i - 1) /\ None(i - 1)
    BY <1>5
  <2>3. CASE recs[i].key = key /\ recs[i].providers > M[i - 1]
    <3>1. M[i] = recs[i].providers
      BY <1>3, <2>3
    <3>2. Above(i)
      BY <1>2, <2>1, <2>2, <2>3, <3>1
    <3>3. Met(i)
      BY <2>1, <2>3, <3>1
    <3>4. None(i)
      BY <2>1, <2>2, <3>1, <2>3
    <3> HIDE DEF Above, Met, None
    <3> QED BY <2>1, <3>2, <3>3, <3>4
  <2>4. CASE recs[i].key # key
    <3>1. M[i] = M[i - 1]
      BY <1>3, <2>4
    <3>2. Above(i)
      BY <2>1, <2>2, <2>4, <3>1
    <3>3. Met(i)
      BY <2>1, <2>2, <2>4, <3>1
    <3>4. None(i)
      BY <2>1, <2>2, <3>1, <2>4
    <3> HIDE DEF Above, Met, None
    <3> QED BY <2>1, <3>2, <3>3, <3>4
  <2>5. CASE recs[i].key = key /\ ~(recs[i].providers > M[i - 1])
    <3>1. M[i] = M[i - 1] /\ recs[i].providers <= M[i]
      BY <1>3, <2>1, <2>5
    <3>2. Above(i)
      BY <2>1, <2>2, <3>1
    <3>3. Met(i)
      <4>1. CASE \E j \in 1..(i - 1) : recs[j].key = key
        BY <2>1, <2>2, <3>1, <4>1
      <4>2. CASE ~ \E j \in 1..(i - 1) : recs[j].key = key
        <5>1. M[i - 1] = 0
          BY <2>2, <4>2
        <5> QED BY <2>1, <2>5, <3>1, <5>1
      <4> QED BY <4>1, <4>2
    <3>4. None(i)
      BY <2>1, <2>2, <3>1, <2>5
    <3> HIDE DEF Above, Met, None
    <3> QED BY <2>1, <3>2, <3>3, <3>4
  <2> QED BY <2>3, <2>4, <2>5
<1>6. 0..n \subseteq T
  <2> HIDE DEF T
  <2> QED BY <1>2, <1>4, <1>5, InductionUpTo, Zenon
<1>7. n \in 0..n /\ Above(n) /\ Met(n)
  BY <1>2, <1>6
<1>8. M[n] \in Nat
  BY <1>3, <1>7
<1>9. \A r \in Range(recs) : r.key = key => r.providers <= M[n]
  BY <1>2, <1>7 DEF Range
<1>10. Spots(key, recs) # {} => \E r \in Range(recs) : r.key = key /\ r.providers = M[n]
  <2> SUFFICES ASSUME Spots(key, recs) # {}
               PROVE  \E r \in Range(recs) : r.key = key /\ r.providers = M[n]
    OBVIOUS
  <2>1. PICK j \in 1..n : recs[j].key = key
    BY DEF Spots, n
  <2>2. PICK k \in 1..n : recs[k].key = key /\ recs[k].providers = M[n]
    BY <1>7, <2>1
  <2> QED BY <1>2, <2>2 DEF Range
<1> QED BY <1>1, <1>8, <1>9, <1>10

-------------------------------------------------------------------------------
(* The order of publication *)

\* Entries of distinct keys.
Ranked(E) ==
    /\ \A a \in E : a.key \in Nat /\ a.providers \in Nat /\ a.reported_by \in Nat
    /\ \A a, b \in E : a.key = b.key => a = b

\* On them sort_by's comparison is a strict total order.
LEMMA BeforeOrder ==
    ASSUME NEW E, Ranked(E)
    PROVE  /\ \A a \in E : ~Before(a, a)
           /\ \A a, b \in E : a # b => Before(a, b) \/ Before(b, a)
           /\ \A a, b, c \in E : Before(a, b) /\ Before(b, c) => Before(a, c)
<1>1. \A a \in E : ~Before(a, a)
  BY DEF Ranked, Before
<1>2. \A a, b \in E : a # b => Before(a, b) \/ Before(b, a)
  BY DEF Ranked, Before
<1>3. \A a, b, c \in E : Before(a, b) /\ Before(b, c) => Before(a, c)
  BY DEF Ranked, Before
<1> QED BY <1>1, <1>2, <1>3

\* x is the last of T.
IsLast(x, T) == x \in T /\ \A y \in T : y # x => Before(y, x)

\* A finite set of entries has a last one.
LEMMA LastExists ==
    ASSUME NEW E, IsFiniteSet(E), Ranked(E), NEW W \in SUBSET E, W # {}
    PROVE  \E x : IsLast(x, W)
<1> DEFINE C == {T \in SUBSET E : T # {} /\ ~ \E x : IsLast(x, T)}
<1>1. ASSUME C # {} PROVE FALSE
  <2>1. PICK T \in C : \A U \in C : U \subseteq T => U = T
    <3>1. Subfamily(C, E)
      BY <1>1 DEF Subfamily
    <3> HIDE DEF C
    <3>2. HasLeast(C)
      BY <3>1, Small, Zenon
    <3> QED BY <3>2 DEF HasLeast
  <2>2. T \in SUBSET E /\ T # {} /\ ~ \E x : IsLast(x, T)
    OBVIOUS
  <2>3. PICK a \in T : TRUE
    BY <2>2
  <2> DEFINE U == T \ {a}
  <2>4. U \in SUBSET E /\ U \subseteq T /\ U # T /\ T = U \cup {a} /\ a \in E
    BY <2>2, <2>3
  <2>5. CASE U = {}
    <3>1. IsLast(a, T)
      BY <2>4, <2>5 DEF IsLast
    <3> QED BY <2>2, <3>1
  <2>6. CASE U # {}
    <3>1. PICK b : IsLast(b, U)
      BY <2>1, <2>4, <2>6, Zenon
    <3>2. b \in U /\ b \in E /\ b # a /\ \A y \in U : y # b => Before(y, b)
      BY <2>4, <3>1 DEF IsLast
    <3>3. CASE Before(a, b)
      <4>1. IsLast(b, T)
        BY <2>4, <3>2, <3>3 DEF IsLast
      <4> QED BY <2>2, <4>1
    <3>4. CASE Before(b, a)
      <4>1. \A y \in U : Before(y, a)
        BY <2>4, <3>2, <3>4, BeforeOrder
      <4>2. IsLast(a, T)
        BY <2>4, <4>1 DEF IsLast
      <4> QED BY <2>2, <4>2
    <3> QED BY <2>4, <3>2, <3>3, <3>4, BeforeOrder
  <2> QED BY <2>5, <2>6
<1> QED BY <1>1

\* s is T in order.
InOrder(s, T) ==
    /\ s \in [1..Cardinality(T) -> T]
    /\ \A i, j \in 1..Cardinality(T) : i < j => Before(s[i], s[j])

\* A finite set of entries can be put in order.
LEMMA OrderExists ==
    ASSUME NEW E, IsFiniteSet(E), Ranked(E)
    PROVE  \E s : InOrder(s, E)
<1> DEFINE C == {T \in SUBSET E : ~ \E s : InOrder(s, T)}
<1>1. ASSUME C # {} PROVE FALSE
  <2>1. PICK T \in C : \A U \in C : U \subseteq T => U = T
    <3>1. Subfamily(C, E)
      BY <1>1 DEF Subfamily
    <3> HIDE DEF C
    <3>2. HasLeast(C)
      BY <3>1, Small, Zenon
    <3> QED BY <3>2 DEF HasLeast
  <2>2. T \in SUBSET E /\ ~ \E s : InOrder(s, T)
    OBVIOUS
  <2>3. CASE T = {}
    <3>1. Cardinality(T) = 0
      BY <2>3, FS_EmptySet
    <3>2. InOrder([i \in {} |-> 0], T)
      BY <2>3, <3>1 DEF InOrder
    <3> QED BY <2>2, <3>2
  <2>4. CASE T # {}
    <3>1. PICK x : IsLast(x, T)
      BY <2>2, <2>4, LastExists, Zenon
    <3> DEFINE U == T \ {x}
               n == Cardinality(U)
    <3>2. /\ x \in T /\ U \in SUBSET E /\ U \subseteq T /\ U # T /\ T = U \cup {x} /\ x \notin U
          /\ \A y \in U : Before(y, x)
      BY <2>2, <3>1 DEF IsLast
    <3>3. IsFiniteSet(U) /\ n \in Nat /\ Cardinality(T) = n + 1
      <4>1. IsFiniteSet(U)
        BY <3>2, FS_Subset
      <4>2. n \in Nat
        BY <4>1, FS_CardinalityType
      <4> HIDE DEF U
      <4> QED BY <3>2, <4>1, <4>2, FS_AddElement, Zenon
    <3>4. PICK s : InOrder(s, U)
      BY <2>1, <3>2, Zenon
    <3>5. s \in [1..n -> U] /\ \A i, j \in 1..n : i < j => Before(s[i], s[j])
      BY <3>4, Zenon DEF InOrder
    <3> HIDE DEF U, n
    <3> DEFINE t == [i \in 1..(n + 1) |-> IF i = n + 1 THEN x ELSE s[i]]
    <3>6. \A i \in 1..(n + 1) : i # n + 1 => i \in 1..n
      BY <3>3
    <3>7. t \in [1..(n + 1) -> T]
      BY <3>2, <3>5, <3>6
    <3>8. ASSUME NEW i \in 1..(n + 1), NEW j \in 1..(n + 1), i < j PROVE Before(t[i], t[j])
      <4>1. i \in 1..n /\ t[i] = s[i]
        BY <3>3, <3>8
      <4>2. CASE j = n + 1
        <5>1. t[j] = x /\ s[i] \in U
          BY <3>5, <4>1, <4>2
        <5> QED BY <3>2, <4>1, <5>1
      <4>3. CASE j # n + 1
        <5>1. j \in 1..n /\ t[j] = s[j]
          BY <3>6, <4>3
        <5> QED BY <3>5, <3>8, <4>1, <5>1
      <4> QED BY <4>2, <4>3
    <3> HIDE DEF t
    <3>9. InOrder(t, T)
      BY <3>3, <3>7, <3>8 DEF InOrder
    <3> QED BY <2>2, <3>9
  <2> QED BY <2>3, <2>4
<1>2. E \in SUBSET E
  OBVIOUS
<1> QED BY <1>1, <1>2

\* Sorted puts them in order and leaves none out.
LEMMA SortedFacts ==
    ASSUME NEW E, IsFiniteSet(E), Ranked(E)
    PROVE  /\ Cardinality(E) \in Nat
           /\ Sorted(E) \in [1..Cardinality(E) -> E]
           /\ \A i, j \in 1..Cardinality(E) : i < j => Before(Sorted(E)[i], Sorted(E)[j])
           /\ \A a \in E : \E i \in 1..Cardinality(E) : Sorted(E)[i] = a
<1> DEFINE n == Cardinality(E)
           s == Sorted(E)
<1>1. n \in Nat
  BY FS_CardinalityType
<1>2. PICK o : InOrder(o, E)
  BY OrderExists, Zenon
<1>3. o \in [1..n -> E] /\ \A i, j \in DOMAIN o : i < j => Before(o[i], o[j])
  BY <1>2 DEF InOrder
<1>4. s \in [1..n -> E] /\ \A i, j \in DOMAIN s : i < j => Before(s[i], s[j])
  BY <1>3, Zenon DEF Sorted
<1> HIDE DEF s
<1>5. \A i, j \in 1..n : i < j => Before(s[i], s[j])
  BY <1>4
<1> HIDE DEF n
<1>6. ASSUME NEW i \in 1..n, NEW j \in 1..n, s[i] = s[j] PROVE i = j
  <2>1. s[i] \in E /\ ~Before(s[i], s[i])
    BY <1>4, BeforeOrder
  <2>2. ~(i < j) /\ ~(j < i)
    BY <1>5, <1>6, <2>1, Zenon
  <2> QED BY <1>1, <2>2
<1>7. s \in Injection(1..n, E)
  BY <1>4, <1>6 DEF Injection, IsInjective
<1>8. IsFiniteSet(1..n) /\ Cardinality(1..n) = n
  BY <1>1, FS_Interval
<1>9. s \in Surjection(1..n, E)
  BY <1>7, <1>8, FS_Injection DEF n
<1>10. \A a \in E : \E i \in 1..n : s[i] = a
  BY <1>9, Zenon DEF Surjection
<1> QED BY <1>1, <1>4, <1>5, <1>10 DEF s, n

-------------------------------------------------------------------------------
(* The view *)

\* The largest of a set that has one.
LEMMA MaxIs ==
    ASSUME NEW P, P \subseteq Nat, NEW m \in P, \A y \in P : y <= m
    PROVE  Max(P) = m
<1>1. \E x \in P : \A y \in P : x >= y
  <2>1. \A y \in P : m >= y
    OBVIOUS
  <2> QED BY <2>1
<1>2. Max(P) \in P /\ \A y \in P : Max(P) >= y
  BY <1>1, Zenon DEF Max
<1>3. Max(P) \in Nat /\ m \in Nat /\ Max(P) <= m /\ Max(P) >= m
  BY <1>2, Zenon
<1> QED BY <1>3

\* The smaller of two numbers.
LEMMA MinIs ==
    ASSUME NEW a \in Nat, NEW b \in Nat
    PROVE  Min({a, b}) = IF a <= b THEN a ELSE b
<1>1. \E x \in {a, b} : \A y \in {a, b} : x =< y
  OBVIOUS
<1>2. Min({a, b}) \in {a, b} /\ \A y \in {a, b} : Min({a, b}) =< y
  BY <1>1, Zenon DEF Min
<1>3. Min({a, b}) <= a /\ Min({a, b}) <= b
  BY <1>2, Zenon
<1> HIDE DEF Min
<1> QED BY <1>2, <1>3

\* What the answers name, and what they say of a key.
NamedBy(answers) ==
    UNION {{answers[i].records[j].key : j \in DOMAIN answers[i].records} : i \in DOMAIN answers}

DueTo(answers, k) ==
    [key |-> k, reported_by |-> Cardinality(Reports(answers, k)),
     providers |-> Max({answers[at[1]].records[at[2]].providers : at \in Reports(answers, k)})]

\* The slot build_dht_view makes for a key.
Entry(k, recs) == [key |-> k, providers |-> Providers(k, recs), reported_by |-> ReportedBy(k, recs)]

\* A record somebody sent, and where.
LEMMA SentAt ==
    ASSUME NEW answers \in Seq(Sent), NEW r
    PROVE  r \in Range(Records(answers)) <=>
              \E i \in 1..Len(answers) : \E j \in 1..Len(answers[i].records) :
                  r = answers[i].records[j]
<1>1. Range(Records(answers)) = UNION {Range(answers[i].records) : i \in 1..Len(answers)}
  BY RecordsFacts
<1>2. ASSUME NEW i \in 1..Len(answers)
      PROVE  r \in Range(answers[i].records) <=> \E j \in 1..Len(answers[i].records) : r = answers[i].records[j]
  <2>1. answers[i].records \in Seq(Recs)
    BY SentType
  <2>2. DOMAIN answers[i].records = 1..Len(answers[i].records)
    BY <2>1
  <2> QED BY <2>2, Zenon DEF Range
<1> QED BY <1>1, <1>2, Zenon

\* The union has the keys the answers name.
LEMMA UnionIsNamed ==
    ASSUME NEW answers \in Seq(Sent)
    PROVE  {r.key : r \in Range(Records(answers))} = NamedBy(answers)
<1>1. DOMAIN answers = 1..Len(answers)
  OBVIOUS
<1>2. \A i \in 1..Len(answers) : DOMAIN answers[i].records = 1..Len(answers[i].records)
  <2>1. \A i \in 1..Len(answers) : answers[i].records \in Seq(Recs)
    BY SentType
  <2> QED BY <2>1
<1>3. ASSUME NEW k PROVE k \in {r.key : r \in Range(Records(answers))} <=> k \in NamedBy(answers)
  <2>1. k \in NamedBy(answers) <=>
          \E i \in 1..Len(answers) : \E j \in 1..Len(answers[i].records) : k = answers[i].records[j].key
    <3> DEFINE row(i) == {answers[i].records[j].key : j \in DOMAIN answers[i].records}
    <3>1. NamedBy(answers) = UNION {row(i) : i \in 1..Len(answers)}
      BY <1>1, Zenon DEF NamedBy
    <3>2. \A i \in 1..Len(answers) :
             k \in row(i) <=> \E j \in 1..Len(answers[i].records) : k = answers[i].records[j].key
      BY <1>2, Zenon
    <3> HIDE DEF row
    <3>3. k \in UNION {row(i) : i \in 1..Len(answers)} <=> \E i \in 1..Len(answers) : k \in row(i)
      BY Zenon
    <3> QED BY <3>1, <3>2, <3>3, Zenon
  <2>2. k \in {r.key : r \in Range(Records(answers))} <=> \E r \in Range(Records(answers)) : k = r.key
    BY Zenon
  <2>3. ASSUME NEW r \in Range(Records(answers)), k = r.key PROVE k \in NamedBy(answers)
    <3>0. r \in Range(Records(answers)) =>
            \E i \in 1..Len(answers) : \E j \in 1..Len(answers[i].records) : r = answers[i].records[j]
      BY SentAt
    <3>1i. PICK i \in 1..Len(answers) : \E j \in 1..Len(answers[i].records) : r = answers[i].records[j]
      BY <3>0, Zenon
    <3>1. PICK j \in 1..Len(answers[i].records) : r = answers[i].records[j]
      BY <3>1i, Zenon
    <3> QED BY <2>1, <2>3, <3>1, Zenon
  <2>4. ASSUME k \in NamedBy(answers) PROVE \E r \in Range(Records(answers)) : k = r.key
    <3>1i. PICK i \in 1..Len(answers) : \E j \in 1..Len(answers[i].records) : k = answers[i].records[j].key
      BY <2>1, <2>4, Zenon
    <3>1. PICK j \in 1..Len(answers[i].records) : k = answers[i].records[j].key
      BY <3>1i, Zenon
    <3>2. answers[i].records[j] \in Range(Records(answers))
      BY <3>1, SentAt, Zenon
    <3> QED BY <3>1, <3>2, Zenon
  <2> QED BY <2>2, <2>3, <2>4, Zenon
<1> QED BY <1>3, Zenon

\* The reports of a key are the positions it has in the answers.
LEMMA ReportsIs ==
    ASSUME NEW answers \in Seq(Sent), NEW k
    PROVE  Reports(answers, k) = ReportsUpTo(answers, k, Len(answers))
<1>1. DOMAIN answers = 1..Len(answers)
  OBVIOUS
<1>2. ASSUME NEW i \in 1..Len(answers)
      PROVE  {n \in DOMAIN answers[i].records : answers[i].records[n].key = k} = Spots(k, answers[i].records)
  <2>1. answers[i].records \in Seq(Recs)
    BY SentType
  <2>2. DOMAIN answers[i].records = 1..Len(answers[i].records)
    BY <2>1
  <2> QED BY <2>2, Zenon DEF Spots
<1> DEFINE found(i) == {n \in DOMAIN answers[i].records : answers[i].records[n].key = k}
           rowOf(i, S) == {<<i, j>> : j \in S}
<1>3. Reports(answers, k) = UNION {rowOf(i, found(i)) : i \in 1..Len(answers)}
  BY <1>1, Zenon DEF Reports
<1>4. ReportsUpTo(answers, k, Len(answers))
        = UNION {rowOf(i, Spots(k, answers[i].records)) : i \in 1..Len(answers)}
  BY Zenon DEF ReportsUpTo
<1>5. \A i \in 1..Len(answers) : found(i) = Spots(k, answers[i].records)
  BY <1>2, Zenon
<1> HIDE DEF rowOf, found
<1>6. {rowOf(i, found(i)) : i \in 1..Len(answers)}
        = {rowOf(i, Spots(k, answers[i].records)) : i \in 1..Len(answers)}
  BY <1>5, Zenon
<1> QED BY <1>3, <1>4, <1>6, Zenon

\* A slot says what the answers say of the key.
LEMMA EntryIsDue ==
    ASSUME NEW answers \in Seq(Sent), NEW k \in NamedBy(answers)
    PROVE  /\ Entry(k, Records(answers)) = DueTo(answers, k)
           /\ Entry(k, Records(answers)).providers \in Nat
           /\ Entry(k, Records(answers)).reported_by \in Nat
<1> DEFINE recs == Records(answers)
           P == {answers[at[1]].records[at[2]].providers : at \in Reports(answers, k)}
           m == Providers(k, recs)
<1>1. recs \in Seq(Recs) /\ DOMAIN recs = 1..Len(recs)
  BY RecordsFacts
<1>2. ReportedBy(k, recs) = Cardinality(Spots(k, recs))
  BY <1>1, Zenon DEF ReportedBy, Spots
<1>3. Cardinality(Spots(k, recs)) = Cardinality(Reports(answers, k))
  BY RecordsFacts, ReportsIs, Zenon
<1>4. Cardinality(Spots(k, recs)) \in Nat
  BY <1>1, SpotsFinite
<1>5. PICK r0 \in Range(recs) : r0.key = k
  BY UnionIsNamed, Zenon
<1>6. Spots(k, recs) # {}
  BY <1>1, <1>5 DEF Spots, Range
<1> HIDE DEF recs
<1>7. /\ m \in Nat
      /\ \A r \in Range(recs) : r.key = k => r.providers <= m
      /\ \E r \in Range(recs) : r.key = k /\ r.providers = m
  BY <1>1, <1>6, ProvidersFacts
<1>8. ASSUME NEW x PROVE x \in P <=> \E r \in Range(recs) : r.key = k /\ r.providers = x
  <2>1. x \in P <=> \E at \in Reports(answers, k) : x = answers[at[1]].records[at[2]].providers
    BY Zenon
  <2>2. ASSUME NEW at
        PROVE  at \in Reports(answers, k) <=>
                 \E i \in 1..Len(answers) : \E j \in Spots(k, answers[i].records) : at = <<i, j>>
    <3> DEFINE row(i) == {<<i, j>> : j \in Spots(k, answers[i].records)}
    <3>1. Reports(answers, k) = UNION {row(i) : i \in 1..Len(answers)}
      BY ReportsIs, Zenon DEF ReportsUpTo
    <3>2. \A i : at \in row(i) <=> \E j \in Spots(k, answers[i].records) : at = <<i, j>>
      BY Zenon
    <3> HIDE DEF row
    <3>3. at \in UNION {row(i) : i \in 1..Len(answers)} <=> \E i \in 1..Len(answers) : at \in row(i)
      BY Zenon
    <3> QED BY <3>1, <3>2, <3>3, Zenon
  <2>3. x \in P <=> \E i \in 1..Len(answers) : \E j \in Spots(k, answers[i].records) :
                        x = answers[i].records[j].providers
    <3>1. \A i, j : <<i, j>>[1] = i /\ <<i, j>>[2] = j
      OBVIOUS
    <3> HIDE DEF P
    <3>2. ASSUME x \in P
          PROVE  \E i \in 1..Len(answers) : \E j \in Spots(k, answers[i].records) :
                        x = answers[i].records[j].providers
      <4>1. PICK at \in Reports(answers, k) : x = answers[at[1]].records[at[2]].providers
        BY <2>1, <3>2, Zenon
      <4>2i. PICK i \in 1..Len(answers) : \E j \in Spots(k, answers[i].records) : at = <<i, j>>
        BY <2>2, <4>1, Zenon
      <4>2. PICK j \in Spots(k, answers[i].records) : at = <<i, j>>
        BY <4>2i, Zenon
      <4>3. at[1] = i /\ at[2] = j
        BY <3>1, <4>2, Zenon
      <4> QED BY <4>1, <4>2, <4>3, Zenon
    <3>3. ASSUME NEW i \in 1..Len(answers), NEW j \in Spots(k, answers[i].records),
                 x = answers[i].records[j].providers
          PROVE  x \in P
      <4>1. <<i, j>> \in Reports(answers, k)
        BY <2>2, Zenon
      <4>2. answers[<<i, j>>[1]].records[<<i, j>>[2]].providers = x
        BY <3>1, <3>3, Zenon
      <4> QED BY <2>1, <4>1, <4>2, Zenon
    <3> QED BY <3>2, <3>3, Zenon
  <2>4. \A i : \A j : j \in Spots(k, answers[i].records) <=>
                 j \in 1..Len(answers[i].records) /\ answers[i].records[j].key = k
    BY Zenon DEF Spots
  <2>5. \A r : r \in Range(recs) <=>
              \E i \in 1..Len(answers) : \E j \in 1..Len(answers[i].records) :
                  r = answers[i].records[j]
    BY SentAt, Zenon DEF recs
  <2> HIDE DEF P
  <2>6. ASSUME x \in P PROVE \E r \in Range(recs) : r.key = k /\ r.providers = x
    <3>1i. PICK i \in 1..Len(answers) : \E j \in Spots(k, answers[i].records) : x = answers[i].records[j].providers
      BY <2>3, <2>6, Zenon
    <3>1. PICK j \in Spots(k, answers[i].records) : x = answers[i].records[j].providers
      BY <3>1i, Zenon
    <3>2. j \in 1..Len(answers[i].records) /\ answers[i].records[j].key = k
      BY <2>4, <3>1, Zenon
    <3>3. answers[i].records[j] \in Range(recs)
      BY <2>5, <3>1, <3>2, Zenon
    <3> QED BY <3>1, <3>2, <3>3, Zenon
  <2>7. ASSUME NEW r \in Range(recs), r.key = k, r.providers = x PROVE x \in P
    <3>1i. PICK i \in 1..Len(answers) : \E j \in 1..Len(answers[i].records) : r = answers[i].records[j]
      BY <2>5, Zenon
    <3>1. PICK j \in 1..Len(answers[i].records) : r = answers[i].records[j]
      BY <3>1i, Zenon
    <3>2. j \in Spots(k, answers[i].records)
      BY <2>4, <2>7, <3>1, Zenon
    <3> QED BY <2>3, <2>7, <3>1, <3>2, Zenon
  <2> QED BY <2>6, <2>7, Zenon
<1> HIDE DEF P
<1>9. P \subseteq Nat
  <2>1. \A r \in Range(recs) : r.providers \in Nat
    <3>1. Range(recs) \subseteq Recs
      BY <1>1 DEF Range
    <3>2. \A r \in Recs : r.providers \in Nat
      BY DEF Recs
    <3> QED BY <3>1, <3>2
  <2> QED BY <1>8, <2>1
<1>10. m \in P /\ \A y \in P : y <= m
  BY <1>7, <1>8
<1>11. Max(P) = m
  BY <1>9, <1>10, MaxIs, Zenon
<1>12. Entry(k, recs) = DueTo(answers, k)
  BY <1>2, <1>3, <1>11, Zenon DEF Entry, DueTo, P
<1>13. Entry(k, recs).providers = m /\ Entry(k, recs).reported_by = ReportedBy(k, recs)
  BY DEF Entry
<1> QED BY <1>2, <1>4, <1>7, <1>12, <1>13 DEF recs

\* The slots are one per key, and can be put in order.
LEMMA EntriesFacts ==
    ASSUME NEW answers \in Seq(Sent)
    PROVE  LET recs == Records(answers)
               named == NamedBy(answers)
               E == {Entry(k, recs) : k \in named}
           IN  /\ IsFiniteSet(named) /\ IsFiniteSet(E) /\ Cardinality(E) = Cardinality(named)
               /\ Ranked(E)
<1> DEFINE recs == Records(answers)
           named == NamedBy(answers)
           f == [k \in named |-> Entry(k, recs)]
           E == {Entry(k, recs) : k \in named}
<1>1. recs \in Seq(Recs) /\ DOMAIN recs = 1..Len(recs) /\ Len(recs) \in Nat
  BY RecordsFacts
<1>2. Range(recs) = {recs[i] : i \in 1..Len(recs)} /\ Range(recs) \subseteq Recs
  BY <1>1 DEF Range
<1> HIDE DEF recs
<1>3. IsFiniteSet(1..Len(recs))
  BY <1>1, FS_Interval
<1>4. IsFiniteSet(Range(recs))
  BY <1>2, <1>3, ImageFinite
<1>5. named = {r.key : r \in Range(recs)}
  BY UnionIsNamed DEF recs
<1>6. IsFiniteSet(named)
  <2> DEFINE g == [r \in Range(recs) |-> r.key]
  <2>1. {g[r] : r \in Range(recs)} = {r.key : r \in Range(recs)}
    BY Zenon
  <2> HIDE DEF g
  <2>2. IsFiniteSet({g[r] : r \in Range(recs)})
    BY <1>4, ImageFinite, Zenon
  <2> QED BY <1>5, <2>1, <2>2, Zenon
<1>7. named \subseteq Nat
  <2>1. \A r \in Recs : r.key \in Nat
    BY DEF Recs
  <2> QED BY <1>2, <1>5, <2>1
<1> HIDE DEF named
<1>8. \A k \in named : f[k] = Entry(k, recs) /\ Entry(k, recs).key = k
  BY DEF Entry
<1>9. E = {f[k] : k \in named}
  BY <1>8, Zenon
<1>10. \A k, m \in named : f[k] = f[m] => k = m
  BY <1>8, Zenon
<1> HIDE DEF f
<1>11. IsFiniteSet({f[k] : k \in named}) /\ Cardinality({f[k] : k \in named}) = Cardinality(named)
  BY <1>6, <1>10, RenamedCard, Zenon
<1>12. \A k \in named : Entry(k, recs).providers \in Nat /\ Entry(k, recs).reported_by \in Nat
  BY EntryIsDue, Zenon DEF named, recs
<1>13. Ranked(E)
  <2> DEFINE e(k) == Entry(k, recs)
  <2>1. \A k \in named : e(k).key = k /\ k \in Nat /\ e(k).providers \in Nat /\ e(k).reported_by \in Nat
    BY <1>7, <1>8, <1>12, Zenon
  <2>2. \A a \in E : \E k \in named : a = e(k)
    OBVIOUS
  <2> HIDE DEF e, E
  <2>3. \A a \in E : a.key \in Nat /\ a.providers \in Nat /\ a.reported_by \in Nat
    BY <2>1, <2>2
  <2>4. \A a, b \in E : a.key = b.key => a = b
    BY <2>1, <2>2
  <2> QED BY <2>3, <2>4 DEF Ranked
<1> QED BY <1>6, <1>9, <1>11, <1>13, Zenon DEF named, recs

\* What build_dht_view makes of its answers, in numbers of reports.
CountsReports(view, answers) ==
    LET named == NamedBy(answers)
        due == [k \in named |-> DueTo(answers, k)]
        shown == {view.keys[n].key : n \in DOMAIN view.keys}
    IN /\ view.reporting_peers = Len(answers)
       /\ view.total_keys = Cardinality(named)
       /\ Len(view.keys) = Min({Cardinality(named), MaxPublishedKeys})
       /\ shown \subseteq named
       /\ \A n \in DOMAIN view.keys :
             /\ view.keys[n] = due[view.keys[n].key]
             /\ \A x \in DOMAIN view.keys : n < x => Before(view.keys[n], view.keys[x])
             /\ \A k \in named \ shown : Before(view.keys[n], due[k])
       /\ ~view.truncated => named = shown /\ \A i \in DOMAIN answers : ~answers[i].truncated

\* build_dht_view counts reports.
LEMMA ViewCounts ==
    ASSUME NEW answers \in Seq(Sent)
    PROVE  CountsReports(BuildDhtView(answers), answers)
<1> DEFINE recs == Records(answers)
           named == NamedBy(answers)
           E == {Entry(k, recs) : k \in named}
           c == Cardinality(named)
           s == Sorted(E)
           m == Min({c, MaxPublishedKeys})
           keys == SubSeq(s, 1, m)
           view == BuildDhtView(answers)
           shown == {view.keys[n].key : n \in DOMAIN view.keys}
           due == [k \in named |-> DueTo(answers, k)]
<1>1. IsFiniteSet(named) /\ IsFiniteSet(E) /\ Cardinality(E) = c /\ Ranked(E)
  BY EntriesFacts, Zenon
<1>2. /\ c \in Nat /\ s \in [1..c -> E]
      /\ \A i, j \in 1..c : i < j => Before(s[i], s[j])
      /\ \A a \in E : \E i \in 1..c : s[i] = a
  <2> HIDE DEF E, c
  <2>1. Cardinality(E) = c
    BY <1>1
  <2>2. /\ Cardinality(E) \in Nat /\ Sorted(E) \in [1..Cardinality(E) -> E]
        /\ \A i, j \in 1..Cardinality(E) : i < j => Before(Sorted(E)[i], Sorted(E)[j])
        /\ \A a \in E : \E i \in 1..Cardinality(E) : Sorted(E)[i] = a
    BY <1>1, SortedFacts, Zenon
  <2> QED BY <2>1, <2>2, Zenon
<1>3. \A a \in E : a.key \in named /\ a = due[a.key]
  <2>1. \A k \in named : Entry(k, recs) = DueTo(answers, k) /\ Entry(k, recs).key = k
    BY EntryIsDue DEF Entry
  <2> HIDE DEF named, recs
  <2> QED BY <2>1
<1>4. \A k \in named : due[k] \in E /\ due[k].key = k
  <2>1. \A k \in named : Entry(k, recs) = DueTo(answers, k) /\ Entry(k, recs).key = k
    BY EntryIsDue DEF Entry
  <2> HIDE DEF named, recs
  <2> QED BY <2>1
<1>5. m = (IF c <= MaxPublishedKeys THEN c ELSE MaxPublishedKeys) /\ m \in Nat /\ m <= c
  <2> HIDE DEF c
  <2> QED BY <1>2, DhtViewAssumption, MinIs
<1> HIDE DEF s, c, m
<1>6. s \in Seq(E) /\ Len(s) = c
  <2> HIDE DEF E
  <2> QED BY <1>2
<1>7. keys \in Seq(E) /\ Len(keys) = m /\ \A n \in 1..m : keys[n] = s[n]
  <2> HIDE DEF E
  <2> QED BY <1>5, <1>6
<1>8. /\ view.reporting_peers = Len(answers)
      /\ view.total_keys = c
      /\ view.truncated = \/ \E i \in DOMAIN answers : answers[i].truncated
                          \/ c > MaxPublishedKeys
      /\ view.keys = keys
  <2> DEFINE union == {r.key : r \in Range(recs)}
             entry(k) == [key |-> k, providers |-> Providers(k, recs), reported_by |-> ReportedBy(k, recs)]
             sorted == Sorted({entry(k) : k \in union})
  <2>1. union = named
    BY UnionIsNamed, Zenon
  <2>2. {entry(k) : k \in union} = E
    BY <2>1, Zenon DEF Entry
  <2>3. sorted = s
    BY <2>2, Zenon DEF s
  <2>4. view = [reporting_peers |-> Len(answers), total_keys |-> Cardinality(union),
                truncated |-> \/ \E i \in DOMAIN answers : answers[i].truncated
                              \/ Cardinality(union) > MaxPublishedKeys,
                keys |-> SubSeq(sorted, 1, Min({Len(sorted), MaxPublishedKeys}))]
    BY Zenon DEF BuildDhtView
  <2>5. Cardinality(union) = c
    BY <2>1, Zenon DEF c
  <2>6. Min({Len(sorted), MaxPublishedKeys}) = m
    BY <1>6, <2>3, Zenon DEF m
  <2> HIDE DEF view, union, sorted, keys
  <2>7. /\ view.reporting_peers = Len(answers) /\ view.total_keys = Cardinality(union)
        /\ view.keys = SubSeq(sorted, 1, Min({Len(sorted), MaxPublishedKeys}))
    BY <2>4, Zenon
  <2>8. view.truncated = (\/ \E i \in DOMAIN answers : answers[i].truncated
                          \/ Cardinality(union) > MaxPublishedKeys)
    BY <2>4
  <2> QED BY <2>3, <2>5, <2>6, <2>7, <2>8, Zenon DEF keys
<1> HIDE DEF view, keys, E, named, due
<1>9. DOMAIN view.keys = 1..m /\ \A n \in 1..m : view.keys[n] = s[n] /\ s[n] \in E /\ n \in 1..c
  BY <1>2, <1>5, <1>7, <1>8
<1>10. shown \subseteq named
  BY <1>3, <1>9
<1>11. ASSUME NEW n \in 1..m
       PROVE  /\ view.keys[n] = due[view.keys[n].key]
              /\ \A x \in 1..m : n < x => Before(view.keys[n], view.keys[x])
              /\ \A k \in named \ shown : Before(view.keys[n], due[k])
  <2>1. view.keys[n] = due[view.keys[n].key]
    BY <1>3, <1>9
  <2>2. \A x \in 1..m : n < x => Before(view.keys[n], view.keys[x])
    BY <1>2, <1>9
  <2>3. ASSUME NEW k \in named \ shown PROVE Before(view.keys[n], due[k])
    <3>1. PICK x \in 1..c : s[x] = due[k]
      BY <1>2, <1>4
    <3>2. x \notin 1..m
      <4> SUFFICES ASSUME x \in 1..m PROVE FALSE
        OBVIOUS
      <4>1. view.keys[x] = due[k] /\ x \in DOMAIN view.keys
        BY <1>9, <3>1
      <4>2. view.keys[x].key = k
        BY <1>4, <2>3, <4>1
      <4> QED BY <2>3, <4>1, <4>2
    <3>3. n < x
      BY <1>2, <1>5, <3>1, <3>2
    <3>4. Before(s[n], s[x])
      BY <1>2, <1>9, <3>1, <3>3
    <3> QED BY <1>9, <3>1, <3>4
  <2> QED BY <2>1, <2>2, <2>3
<1>12. ASSUME ~view.truncated
       PROVE  named = shown /\ \A i \in DOMAIN answers : ~answers[i].truncated
  <2>1. ~(\E i \in DOMAIN answers : answers[i].truncated) /\ ~(c > MaxPublishedKeys)
    BY <1>8, <1>12, Zenon
  <2>2. m = c
    BY <1>2, <1>5, <2>1, DhtViewAssumption
  <2>3. ASSUME NEW k \in named PROVE k \in shown
    <3>1. PICK x \in 1..c : s[x] = due[k]
      BY <1>2, <1>4
    <3>2. x \in DOMAIN view.keys /\ view.keys[x] = due[k] /\ due[k].key = k
      BY <1>4, <1>9, <2>2, <3>1
    <3> QED BY <3>2
  <2> HIDE DEF shown
  <2>4. named = shown
    BY <1>10, <2>3, Zenon
  <2> QED BY <2>1, <2>4, Zenon
<1>13. Len(view.keys) = m
  BY <1>7, <1>8
<1> HIDE DEF shown
<1>15. /\ view.reporting_peers = Len(answers)
       /\ view.total_keys = Cardinality(named)
       /\ Len(view.keys) = Min({Cardinality(named), MaxPublishedKeys})
       /\ shown \subseteq named
       /\ \A n \in DOMAIN view.keys :
             /\ view.keys[n] = due[view.keys[n].key]
             /\ \A x \in DOMAIN view.keys : n < x => Before(view.keys[n], view.keys[x])
             /\ \A k \in named \ shown : Before(view.keys[n], due[k])
       /\ ~view.truncated => named = shown /\ \A i \in DOMAIN answers : ~answers[i].truncated
  BY <1>8, <1>9, <1>10, <1>11, <1>12, <1>13, Zenon DEF c, m
<1>16. CountsReports(view, answers)
  BY <1>15, Zenon DEF CountsReports, shown, named, due
<1> QED BY <1>16 DEF view

\* When every node answers once and names no key twice, the reports of a key
\* are as many as the nodes that name it.
LEMMA ReportersCount ==
    ASSUME NEW answers \in Seq(Sent), OneReportEach(answers), NEW k
    PROVE  Cardinality(Reporters(answers, k)) = Cardinality(Reports(answers, k))
<1> DEFINE D == DOMAIN answers
           rows(i) == DOMAIN answers[i].records
           says(i, j) == j \in rows(i) /\ answers[i].records[j].key = k
           I == {i \in D : \E j : says(i, j)}
           g == [i \in I |-> <<i, CHOOSE j : says(i, j)>>]
           h == [i \in I |-> answers[i].from]
<1>1. IsFiniteSet(I)
  <2>1. D = 1..Len(answers) /\ Len(answers) \in Nat
    OBVIOUS
  <2>2. IsFiniteSet(D)
    BY <2>1, FS_Interval
  <2>3. I \subseteq D
    BY Zenon
  <2> HIDE DEF I, D
  <2> QED BY <2>2, <2>3, FS_Subset
<1>2. ASSUME NEW at PROVE at \in Reports(answers, k) <=> \E i \in D : \E j : says(i, j) /\ at = <<i, j>>
  <2> DEFINE row(i) == {<<i, j>> : j \in {n \in rows(i) : answers[i].records[n].key = k}}
  <2>1. Reports(answers, k) = UNION {row(i) : i \in D}
    BY Zenon DEF Reports
  <2>2. \A i \in D : at \in row(i) <=> \E j : says(i, j) /\ at = <<i, j>>
    BY Zenon
  <2> HIDE DEF row
  <2> QED BY <2>1, <2>2, Zenon
<1>3. \A i \in D : \A j, n : says(i, j) /\ says(i, n) => j = n
  BY Zenon DEF OneReportEach
<1>4. \A i \in I : i \in D /\ g[i] = <<i, CHOOSE j : says(i, j)>> /\ says(i, CHOOSE j : says(i, j))
  BY Zenon
<1>5. \A i, n \in I : g[i] = g[n] => i = n
  <2>1. \A i, n \in I : g[i][1] = i
    BY <1>4, Zenon
  <2> HIDE DEF g, I
  <2> QED BY <2>1, ZenonT(40)
<1>6. \A i, n \in I : h[i] = h[n] => i = n
  <2>1. \A i \in I : h[i] = answers[i].from /\ i \in D
    BY Zenon
  <2> HIDE DEF h, I
  <2> QED BY <2>1, Zenon DEF OneReportEach
<1>7. Reports(answers, k) = {g[i] : i \in I}
  <2>1. ASSUME NEW at \in Reports(answers, k) PROVE at \in {g[i] : i \in I}
    <3>1i. PICK i \in D : \E j : says(i, j) /\ at = <<i, j>>
      BY <1>2, <2>1, Zenon
    <3>1. PICK j : says(i, j) /\ at = <<i, j>>
      BY <3>1i, Zenon
    <3>2. i \in I
      BY <3>1, Zenon
    <3>3. j = CHOOSE n : says(i, n)
      BY <1>3, <1>4, <3>1, <3>2, Zenon
    <3>4. g[i] = at
      BY <1>4, <3>1, <3>2, <3>3, Zenon
    <3> QED BY <3>2, <3>4, Zenon
  <2>2. ASSUME NEW i \in I PROVE g[i] \in Reports(answers, k)
    BY <1>2, <1>4, Zenon
  <2> HIDE DEF g, I
  <2> QED BY <2>1, <2>2, Zenon
<1>8. Reporters(answers, k) = {h[i] : i \in I}
  <2>1. \A i \in I : h[i] = answers[g[i][1]].from
    BY <1>4, Zenon
  <2> DEFINE sender(at) == answers[at[1]].from
  <2>2. Reporters(answers, k) = {sender(at) : at \in {g[i] : i \in I}}
    BY <1>7, Zenon DEF Reporters
  <2>3. \A i \in I : h[i] = sender(g[i])
    BY <2>1, Zenon
  <2> HIDE DEF g, h, I, sender
  <2>4. ASSUME NEW x PROVE x \in Reporters(answers, k) <=> x \in {h[i] : i \in I}
    BY <2>2, <2>3, Zenon
  <2> QED BY <2>4, ZenonT(40)
<1> HIDE DEF g, h, I
<1>9. Cardinality({g[i] : i \in I}) = Cardinality(I)
  BY <1>1, <1>5, RenamedCard, Zenon
<1>10. Cardinality({h[i] : i \in I}) = Cardinality(I)
  BY <1>1, <1>6, RenamedCard, Zenon
<1> QED BY <1>7, <1>8, <1>9, <1>10, Zenon

\* Nor are there then more answers than nodes that answered.
LEMMA AnswerersCount ==
    ASSUME NEW answers \in Seq(Sent), OneReportEach(answers)
    PROVE  Cardinality(Answerers(answers)) = Len(answers)
<1> DEFINE h == [i \in 1..Len(answers) |-> answers[i].from]
<1>1. DOMAIN answers = 1..Len(answers) /\ Len(answers) \in Nat
  OBVIOUS
<1>2. IsFiniteSet(1..Len(answers)) /\ Cardinality(1..Len(answers)) = Len(answers)
  BY <1>1, FS_Interval, SMTT(30)
<1>3. \A i \in 1..Len(answers) : h[i] = answers[i].from
  BY Zenon
<1> HIDE DEF h
<1>4. \A i, n \in 1..Len(answers) : h[i] = h[n] => i = n
  BY <1>1, <1>3, Zenon DEF OneReportEach
<1>5. Answerers(answers) = {h[i] : i \in 1..Len(answers)}
  BY <1>1, <1>3, Zenon DEF Answerers
<1>6. ASSUME NEW A, IsFiniteSet(A), \A i, n \in A : h[i] = h[n] => i = n
      PROVE  Cardinality({h[i] : i \in A}) = Cardinality(A)
  BY <1>6, RenamedCard, Zenon
<1>7. Cardinality({h[i] : i \in 1..Len(answers)}) = Cardinality(1..Len(answers))
  BY <1>2, <1>4, <1>6, Zenon
<1> QED BY <1>2, <1>5, <1>7, Zenon

\* build_dht_view gives the view of its answers.
LEMMA ViewFacts ==
    ASSUME NEW answers \in Seq(Sent)
    PROVE  IsViewOf(BuildDhtView(answers), answers)
<1> DEFINE view == BuildDhtView(answers)
           named == NamedBy(answers)
           shown == {view.keys[n].key : n \in DOMAIN view.keys}
           most == [k \in named |-> Max({answers[at[1]].records[at[2]].providers :
                                            at \in Reports(answers, k)})]
           owed == [k \in named |-> DueTo(answers, k)]
           due == [k \in named |-> [key |-> k, providers |-> most[k],
                                    reported_by |-> Cardinality(Reporters(answers, k))]]
<1>1. CountsReports(view, answers)
  BY ViewCounts, Zenon
<1> HIDE DEF view
<1>2. /\ view.reporting_peers = Len(answers)
      /\ view.total_keys = Cardinality(named)
      /\ Len(view.keys) = Min({Cardinality(named), MaxPublishedKeys})
      /\ shown \subseteq named
      /\ \A n \in DOMAIN view.keys :
            /\ view.keys[n] = owed[view.keys[n].key]
            /\ \A x \in DOMAIN view.keys : n < x => Before(view.keys[n], view.keys[x])
            /\ \A k \in named \ shown : Before(view.keys[n], owed[k])
      /\ ~view.truncated => named = shown /\ \A i \in DOMAIN answers : ~answers[i].truncated
  BY <1>1, Zenon DEF CountsReports
<1> HIDE DEF named
<1>3. \A k \in named : owed[k].providers = most[k]
  BY DEF DueTo
<1>4. ASSUME OneReportEach(answers) PROVE \A k \in named : owed[k] = due[k]
  <2>1. \A k \in named : Cardinality(Reporters(answers, k)) = Cardinality(Reports(answers, k))
    BY <1>4, ReportersCount, Zenon
  <2>2. \A k \in named : owed[k] = [key |-> k, reported_by |-> Cardinality(Reports(answers, k)),
                                  providers |-> most[k]]
    BY Zenon DEF DueTo
  <2>3. \A k \in named : due[k] = [key |-> k, providers |-> most[k],
                                 reported_by |-> Cardinality(Reporters(answers, k))]
    BY Zenon
  <2> HIDE DEF owed, due, most
  <2> QED BY <2>1, <2>2, <2>3, Zenon
<1>5. \A n \in DOMAIN view.keys : view.keys[n].key \in named
  BY <1>2, Zenon
<1> HIDE DEF owed, due, most
<1>6. \A n \in DOMAIN view.keys : view.keys[n].providers = most[view.keys[n].key]
  BY <1>2, <1>3, <1>5, Zenon
<1>7. ASSUME OneReportEach(answers)
      PROVE  /\ view.reporting_peers = Cardinality(Answerers(answers))
             /\ \A n \in DOMAIN view.keys :
                   /\ view.keys[n] = due[view.keys[n].key]
                   /\ \A k \in named \ shown : Before(view.keys[n], due[k])
  <2>1. view.reporting_peers = Cardinality(Answerers(answers))
    BY <1>2, <1>7, AnswerersCount, Zenon
  <2>2. \A k \in named : owed[k] = due[k]
    BY <1>4, <1>7, Zenon
  <2>3. \A n \in DOMAIN view.keys : view.keys[n] = due[view.keys[n].key]
    BY <1>2, <1>5, <2>2, Zenon
  <2> HIDE DEF shown
  <2>4. \A n \in DOMAIN view.keys : \A k \in named \ shown : Before(view.keys[n], due[k])
    BY <1>2, <2>2, Zenon
  <2> QED BY <2>1, <2>3, <2>4, Zenon
<1>8. IsViewOf(view, answers)
  BY <1>2, <1>6, <1>7, Zenon DEF IsViewOf, named, NamedBy, shown, most, due
<1> QED BY <1>8, Zenon DEF view

-------------------------------------------------------------------------------
(* The sweep *)

\* Outside the building of a view no answer is in a batch, and the stored view
\* is the one built from the answers behind it.
SweepInv ==
    /\ dht_answers \in Seq(Sent) /\ batch \in Seq(Sent) /\ behind \in Seq(Sent)
    /\ accepted \in Nat /\ reported \in Nat
    /\ sweep # "building" => batch = <<>>
    /\ dht_view = BuildDhtView(behind)
    /\ AnswersConserved

\* It holds before the first sweep.
LEMMA SweepInvInit == SweepInit => SweepInv
BY DEF SweepInit, SweepInv, AnswersConserved

\* Every step of the sweep, of a node and of the registry keeps it.
LEMMA SweepStepInv ==
    ASSUME SweepInv, SweepNext
    PROVE  SweepInv'
<1> USE DEF SweepInv
<1>1. CASE \E n \in Nodes : Join(n) \/ Leave(n) \/ Prune(n)
  BY <1>1, SMTT(30) DEF Join, Leave, Prune, AnswersConserved
<1>2. CASE \E n \in Nodes, a \in Answers : Answer(n, a)
  <2>1. PICK n \in Nodes, a \in Answers : Answer(n, a)
    BY <1>2
  <2>2. CASE n \in session
    <3>0. PeerAnswer(n, a) \in Sent
      BY DEF Sent
    <3>1. dht_answers' \in Seq(Sent) /\ Len(dht_answers') = Len(dht_answers) + 1
      BY <2>1, <2>2, <3>0, SMTT(30) DEF Answer
    <3> QED BY <2>1, <2>2, <3>1 DEF Answer, AnswersConserved
  <2>3. CASE n \notin session
    BY <2>1, <2>3 DEF Answer, AnswersConserved
  <2> QED BY <2>2, <2>3
<1>3. CASE Ask
  BY <1>3 DEF Ask, AnswersConserved
<1>4. CASE Take
  BY <1>4 DEF Take, AnswersConserved
<1>5. CASE StoreView
  <2>1. Len(batch) \in Nat /\ Len(dht_answers) \in Nat
    OBVIOUS
  <2>2. behind' = batch /\ dht_view' = BuildDhtView(behind)'
    BY <1>5 DEF StoreView
  <2> QED BY <1>5, <2>1, <2>2 DEF StoreView, AnswersConserved
<1> QED BY <1>1, <1>2, <1>3, <1>4, <1>5 DEF SweepNext, SweepStep

\* A step of another part leaves the sweep alone.
LEMMA SweepSame == SweepInv /\ UNCHANGED sweepVars => SweepInv'
BY DEF SweepInv, sweepVars, AnswersConserved

-------------------------------------------------------------------------------
(* The process *)

\* Where the process is says what has been decided: no core listener has been
\* refused while it starts, serves or shuts down, it serves only with a usable
\* configuration, it shuts down only for a Stop, it fails only for a reason
\* that is still to be seen, and it has an exit status only at the end.
LifeInv ==
    /\ bound \in [Core \cup {"redirect"} -> {"unbound", "listening", "refused"}]
    /\ proc \in {"begin", "runtime", "starting", "serving", "shut", "failed", "ended"}
    /\ proc # "ended" => exit = "none"
    /\ proc \in {"begin", "runtime", "starting", "serving", "shut"} => ~CoreRefused
    /\ proc \in {"serving", "shut"} => setup = "usable"
    /\ proc = "shut" => stop
    /\ proc = "failed" => setup # "usable" \/ CoreRefused
    /\ ExitTellsWhy

\* A process that is starting satisfies it.
LEMMA LifeInvInit == LifeInit => LifeInv
BY SMTT(30) DEF LifeInit, LifeInv, ExitTellsWhy, CoreRefused, Core

\* Every step of the process and of its host keeps it.  A refused redirect
\* listener fails nothing: it is no core listener.
LEMMA LifeStepInv ==
    ASSUME LifeInv, LifeNext
    PROVE  LifeInv'
<1> USE DEF LifeInv
<1>1. CASE ReportRunning
  BY <1>1 DEF ReportRunning, ExitTellsWhy, CoreRefused
<1>2. CASE Validate
  BY <1>2 DEF Validate, ExitTellsWhy, CoreRefused
<1>3. CASE BuildRuntime
  BY <1>3 DEF BuildRuntime, ExitTellsWhy, CoreRefused
<1>4. CASE Start
  BY <1>4 DEF Start, ExitTellsWhy, CoreRefused
<1>5. CASE BindRedirect
  <2>1. bound' \in [Core \cup {"redirect"} -> {"unbound", "listening", "refused"}]
        /\ \A l \in Core : bound'[l] = bound[l]
    BY <1>5 DEF BindRedirect, Core
  <2> QED BY <1>5, <2>1 DEF BindRedirect, ExitTellsWhy, CoreRefused
<1>6. CASE \E l \in Core : BindCore(l)
  <2>1. PICK l \in Core : BindCore(l)
    BY <1>6
  <2>2. bound' \in [Core \cup {"redirect"} -> {"unbound", "listening", "refused"}]
    BY <2>1 DEF BindCore
  <2>3. CASE bound' = [bound EXCEPT ![l] = "listening"] /\ UNCHANGED proc
    BY <2>1, <2>2, <2>3 DEF BindCore, ExitTellsWhy, CoreRefused
  <2>4. CASE bound' = [bound EXCEPT ![l] = "refused"] /\ proc' = "failed"
    BY <2>1, <2>2, <2>4 DEF BindCore, ExitTellsWhy, CoreRefused
  <2> QED BY <2>1, <2>3, <2>4 DEF BindCore
<1>7. CASE Shutdown
  BY <1>7 DEF Shutdown, ExitTellsWhy, CoreRefused
<1>8. CASE Finish
  BY <1>8 DEF Finish, ExitTellsWhy, CoreRefused
<1>9. CASE StopControl
  BY <1>9 DEF StopControl, ExitTellsWhy, CoreRefused
<1>10. CASE Signal
  BY <1>10 DEF Signal, ExitTellsWhy, CoreRefused
<1>11. CASE Relaunch
  BY <1>11 DEF Relaunch, ExitTellsWhy, CoreRefused
<1> QED BY <1>1, <1>2, <1>3, <1>4, <1>5, <1>6, <1>7, <1>8, <1>9, <1>10, <1>11, SMTT(30)
         DEF LifeNext, LifeStep

\* A step of another part leaves the process alone.
LEMMA LifeSame == LifeInv /\ UNCHANGED lifeVars => LifeInv'
BY DEF LifeInv, lifeVars, ExitTellsWhy, CoreRefused

-------------------------------------------------------------------------------
(* The published addresses *)

\* K[i] is what the first i addresses leave in resolve_dialable's list.
Keeps(K, addrs) ==
    /\ K[0] = <<>>
    /\ \A i \in 1..Len(addrs) :
          K[i] = IF addrs[i] \in Range(K[i - 1]) THEN K[i - 1] ELSE Append(K[i - 1], addrs[i])

\* Distinct is the last of these lists.
LEMMA DistinctIs ==
    ASSUME NEW V, NEW addrs \in Seq(V)
    PROVE  \E K \in [0..Len(addrs) -> Seq(V)] : Keeps(K, addrs) /\ Distinct(addrs) = K[Len(addrs)]
<1> DEFINE n == Len(addrs)
           D(K) == K = [i \in 0..n |-> IF i = 0 THEN <<>>
                          ELSE IF addrs[i] \in Range(K[i - 1]) THEN K[i - 1]
                               ELSE Append(K[i - 1], addrs[i])]
           g == [i \in 1..n |-> [k \in Seq(V) |->
                    IF addrs[i] \in Range(k) THEN k ELSE Append(k, addrs[i])]]
<1>1. n \in Nat /\ \A i \in 1..n : addrs[i] \in V
  OBVIOUS
<1> HIDE DEF n
<1>2. g \in [1..n -> [Seq(V) -> Seq(V)]]
  BY <1>1, AppendFacts, Zenon
<1>3. PICK K \in [0..n -> Seq(V)] : Runs(K, n, <<>>, g)
  <2>1. <<>> \in Seq(V)
    OBVIOUS
  <2> HIDE DEF g
  <2> QED BY <1>1, <1>2, <2>1, ListRecursion, Zenon
<1>4. K[0] = <<>>
  BY <1>3 DEF Runs
<1>5. ASSUME NEW i \in 1..n
      PROVE  K[i] = IF addrs[i] \in Range(K[i - 1]) THEN K[i - 1] ELSE Append(K[i - 1], addrs[i])
  <2>1. i - 1 \in 0..n
    BY <1>1
  <2>2. K[i] = g[i][K[i - 1]] /\ K[i - 1] \in Seq(V)
    BY <1>3, <2>1, Zenon DEF Runs
  <2> QED BY <2>2, Zenon
<1>6. D(K)
  <2>1. \A i \in 0..n : i # 0 => i \in 1..n
    BY <1>1
  <2>2. \A i \in 0..n : K[i] = IF i = 0 THEN <<>>
                          ELSE IF addrs[i] \in Range(K[i - 1]) THEN K[i - 1]
                               ELSE Append(K[i - 1], addrs[i])
    BY <1>4, <1>5, <2>1, Zenon
  <2> QED BY <2>2, Zenon
<1> DEFINE C == CHOOSE F : D(F)
<1>7. D(C)
  BY <1>6, Zenon
<1>8. Distinct(addrs) = C[n]
  BY Zenon DEF Distinct, n
<1> HIDE DEF C
<1>9. \A i \in 0..n : C[i] = IF i = 0 THEN <<>>
                          ELSE IF addrs[i] \in Range(C[i - 1]) THEN C[i - 1]
                               ELSE Append(C[i - 1], addrs[i])
  BY <1>7, Zenon
<1> DEFINE T == {i \in 0..n : C[i] = K[i]}
<1>10. 0..n \subseteq T
  <2>1. 0 \in T
    BY <1>1, <1>4, <1>9
  <2>2. ASSUME NEW i \in 1..n, i - 1 \in T PROVE i \in T
    <3>1. i \in 0..n /\ i # 0
      BY <1>1
    <3> QED BY <1>5, <1>9, <2>2, <3>1, Zenon
  <2> HIDE DEF T
  <2> QED BY <1>1, <2>1, <2>2, InductionUpTo, Zenon
<1>11. Distinct(addrs) = K[n]
  BY <1>1, <1>8, <1>10
<1>12. Keeps(K, addrs)
  BY <1>4, <1>5, Zenon DEF Keeps, n
<1> QED BY <1>11, <1>12, Zenon DEF n

\* Distinct keeps what there is, once.
LEMMA DistinctFacts ==
    ASSUME NEW V, NEW addrs \in Seq(V)
    PROVE  /\ Distinct(addrs) \in Seq(V)
           /\ NoTwice(Distinct(addrs))
           /\ addrs # <<>> => Distinct(addrs) # <<>>
           /\ addrs = <<>> => Distinct(addrs) = <<>>
<1> DEFINE n == Len(addrs)
<1>1. PICK K \in [0..n -> Seq(V)] : Keeps(K, addrs) /\ Distinct(addrs) = K[n]
  BY DistinctIs, Zenon
<1>2. n \in Nat /\ (addrs = <<>> <=> n = 0) /\ \A i \in 1..n : addrs[i] \in V
  OBVIOUS
<1>3. K[0] = <<>> /\ \A i \in 1..n :
          K[i] = IF addrs[i] \in Range(K[i - 1]) THEN K[i - 1] ELSE Append(K[i - 1], addrs[i])
  BY <1>1 DEF Keeps
<1> HIDE DEF n
<1> DEFINE T == {i \in 0..n : NoTwice(K[i]) /\ (i # 0 => K[i] # <<>>)}
<1>4. 0..n \subseteq T
  <2>1. 0 \in T
    BY <1>2, <1>3 DEF NoTwice
  <2>2. ASSUME NEW i \in 1..n, i - 1 \in T PROVE i \in T
    <3>1. i - 1 \in 0..n /\ i \in 0..n /\ K[i - 1] \in Seq(V) /\ NoTwice(K[i - 1])
      BY <1>2, <2>2
    <3>2. CASE addrs[i] \in Range(K[i - 1])
      <4>1. K[i] = K[i - 1]
        BY <1>3, <3>2
      <4>2. K[i - 1] # <<>>
        BY <3>2 DEF Range
      <4> QED BY <3>1, <4>1, <4>2
    <3>3. CASE addrs[i] \notin Range(K[i - 1])
      <4>1. K[i] = Append(K[i - 1], addrs[i])
        BY <1>3, <3>3, Zenon
      <4>2. NoTwice(K[i])
        BY <1>2, <3>1, <3>3, <4>1, AppendFacts
      <4>3. K[i] # <<>>
        BY <1>2, <3>1, <4>1, AppendFacts, Zenon
      <4> QED BY <3>1, <4>2, <4>3
    <3> QED BY <3>2, <3>3
  <2> HIDE DEF T
  <2> QED BY <1>2, <2>1, <2>2, InductionUpTo, Zenon
<1>5. n \in T /\ n \in 0..n
  BY <1>2, <1>4
<1> QED BY <1>1, <1>2, <1>3, <1>5

\* K[i] is what the first i addresses have of the family.
Sifts(K, family, addrs) ==
    /\ K[0] = <<>>
    /\ \A i \in 1..Len(addrs) :
          K[i] = IF Family(addrs[i]) = family THEN Append(K[i - 1], addrs[i]) ELSE K[i - 1]

\* OfFamily is the last of these lists.
LEMMA OfFamilyIs ==
    ASSUME NEW V, NEW addrs \in Seq(V), NEW family
    PROVE  \E K \in [0..Len(addrs) -> Seq(V)] :
              Sifts(K, family, addrs) /\ OfFamily(family, addrs) = K[Len(addrs)]
<1> DEFINE n == Len(addrs)
           D(K) == K = [i \in 0..n |-> IF i = 0 THEN <<>>
                          ELSE IF Family(addrs[i]) = family THEN Append(K[i - 1], addrs[i])
                               ELSE K[i - 1]]
           g == [i \in 1..n |-> [k \in Seq(V) |->
                    IF Family(addrs[i]) = family THEN Append(k, addrs[i]) ELSE k]]
<1>1. n \in Nat /\ \A i \in 1..n : addrs[i] \in V
  OBVIOUS
<1> HIDE DEF n
<1>2. g \in [1..n -> [Seq(V) -> Seq(V)]]
  BY <1>1, AppendFacts, Zenon
<1>3. PICK K \in [0..n -> Seq(V)] : Runs(K, n, <<>>, g)
  <2>1. <<>> \in Seq(V)
    OBVIOUS
  <2> HIDE DEF g
  <2> QED BY <1>1, <1>2, <2>1, ListRecursion, Zenon
<1>4. K[0] = <<>>
  BY <1>3 DEF Runs
<1>5. ASSUME NEW i \in 1..n
      PROVE  K[i] = IF Family(addrs[i]) = family THEN Append(K[i - 1], addrs[i]) ELSE K[i - 1]
  <2>1. i - 1 \in 0..n
    BY <1>1
  <2>2. K[i] = g[i][K[i - 1]] /\ K[i - 1] \in Seq(V)
    BY <1>3, <2>1, Zenon DEF Runs
  <2> QED BY <2>2, Zenon
<1>6. D(K)
  <2>1. \A i \in 0..n : i # 0 => i \in 1..n
    BY <1>1
  <2>2. \A i \in 0..n : K[i] = IF i = 0 THEN <<>>
                          ELSE IF Family(addrs[i]) = family THEN Append(K[i - 1], addrs[i])
                               ELSE K[i - 1]
    BY <1>4, <1>5, <2>1, Zenon
  <2> QED BY <2>2, Zenon
<1> DEFINE C == CHOOSE F : D(F)
<1>7. D(C)
  BY <1>6, Zenon
<1>8. OfFamily(family, addrs) = C[n]
  BY Zenon DEF OfFamily, n
<1> HIDE DEF C
<1>9. \A i \in 0..n : C[i] = IF i = 0 THEN <<>>
                          ELSE IF Family(addrs[i]) = family THEN Append(C[i - 1], addrs[i])
                               ELSE C[i - 1]
  BY <1>7, Zenon
<1> DEFINE T == {i \in 0..n : C[i] = K[i]}
<1>10. 0..n \subseteq T
  <2>1. 0 \in T
    BY <1>1, <1>4, <1>9
  <2>2. ASSUME NEW i \in 1..n, i - 1 \in T PROVE i \in T
    <3>1. i \in 0..n /\ i # 0
      BY <1>1
    <3> QED BY <1>5, <1>9, <2>2, <3>1, Zenon
  <2> HIDE DEF T
  <2> QED BY <1>1, <2>1, <2>2, InductionUpTo, Zenon
<1>11. OfFamily(family, addrs) = K[n]
  BY <1>1, <1>8, <1>10
<1>12. Sifts(K, family, addrs)
  BY <1>4, <1>5, Zenon DEF Sifts, n
<1> QED BY <1>11, <1>12, Zenon DEF n

\* OfFamily has exactly the addresses of the family, and repeats none that its
\* list does not repeat.
LEMMA OfFamilyFacts ==
    ASSUME NEW V, NEW addrs \in Seq(V), NoTwice(addrs), NEW family
    PROVE  /\ OfFamily(family, addrs) \in Seq(V)
           /\ Range(OfFamily(family, addrs)) = {a \in Range(addrs) : Family(a) = family}
           /\ NoTwice(OfFamily(family, addrs))
<1> DEFINE n == Len(addrs)
<1>1. PICK K \in [0..n -> Seq(V)] : Sifts(K, family, addrs) /\ OfFamily(family, addrs) = K[n]
  BY OfFamilyIs, Zenon
<1>2. n \in Nat /\ \A i \in 1..n : addrs[i] \in V
  OBVIOUS
<1>3. K[0] = <<>> /\ \A i \in 1..n :
          K[i] = IF Family(addrs[i]) = family THEN Append(K[i - 1], addrs[i]) ELSE K[i - 1]
  BY <1>1 DEF Sifts
<1>4. Range(addrs) = {addrs[j] : j \in 1..n}
  BY DEF Range
<1>5. \A i, j \in 1..n : addrs[i] = addrs[j] => i = j
  BY DEF NoTwice
<1> HIDE DEF n
<1> DEFINE Sifted(i) == {a \in {addrs[j] : j \in 1..i} : Family(a) = family}
           T == {i \in 0..n : NoTwice(K[i]) /\ Range(K[i]) = Sifted(i)}
<1>6. 0..n \subseteq T
  <2>1. 0 \in T
    <3>1. NoTwice(<<>>) /\ Range(<<>>) = {}
      BY DEF NoTwice, Range
    <3>2. Sifted(0) = {}
      OBVIOUS
    <3> QED BY <1>2, <1>3, <3>1, <3>2
  <2>2. ASSUME NEW i \in 1..n, i - 1 \in T PROVE i \in T
    <3>1. /\ i - 1 \in 0..n /\ i \in 0..n /\ K[i - 1] \in Seq(V) /\ NoTwice(K[i - 1])
          /\ Range(K[i - 1]) = Sifted(i - 1) /\ addrs[i] \in V
      BY <1>2, <2>2
    <3>2. {addrs[j] : j \in 1..i} = {addrs[j] : j \in 1..(i - 1)} \cup {addrs[i]}
      <4>1. 1..i = 1..(i - 1) \cup {i}
        BY <1>2
      <4> QED BY <4>1, Zenon
    <3>3. CASE Family(addrs[i]) = family
      <4>1. K[i] = Append(K[i - 1], addrs[i])
        BY <1>3, <3>3, Zenon
      <4>2. Sifted(i) = Sifted(i - 1) \cup {addrs[i]}
        BY <3>2, <3>3, Zenon
      <4>3. \A j \in 1..(i - 1) : addrs[j] # addrs[i]
        BY <1>2, <1>5
      <4>4. addrs[i] \notin Sifted(i - 1)
        BY <4>3, Zenon
      <4> HIDE DEF Sifted
      <4>5. NoTwice(K[i]) /\ Range(K[i]) = Range(K[i - 1]) \cup {addrs[i]}
        BY <3>1, <4>1, <4>4, AppendFacts
      <4> QED BY <3>1, <4>2, <4>5, Zenon
    <3>4. CASE Family(addrs[i]) # family
      <4>1. K[i] = K[i - 1]
        BY <1>3, <3>4
      <4>2. Sifted(i) = Sifted(i - 1)
        BY <3>2, <3>4, Zenon
      <4> HIDE DEF Sifted
      <4> QED BY <3>1, <4>1, <4>2
    <3> QED BY <3>3, <3>4
  <2> HIDE DEF T
  <2> QED BY <1>2, <2>1, <2>2, InductionUpTo, Zenon
<1>7. n \in T /\ n \in 0..n
  BY <1>2, <1>6
<1>8. NoTwice(K[n]) /\ Range(K[n]) = Sifted(n) /\ K[n] \in Seq(V)
  BY <1>7
<1> QED BY <1>1, <1>4, <1>8

\* Every address has one of the two families.
LEMMA TwoFamilies ==
    ASSUME NEW addr, IsIp(addr.ip)
    PROVE  Family(addr) \in {"v4", "v6"}
BY DEF IsIp, Forms, Family, Canonical

\* order_ipv6_first gives the same addresses, the IPv6 ones first.
LEMMA OrderFacts ==
    ASSUME NEW V, \A a \in V : IsIp(a.ip), NEW addrs \in Seq(V), NoTwice(addrs)
    PROVE  /\ OrderIpv6First(addrs) \in Seq(V)
           /\ Range(OrderIpv6First(addrs)) = Range(addrs)
           /\ NoTwice(OrderIpv6First(addrs))
           /\ Len(OrderIpv6First(addrs)) = Len(addrs)
           /\ \A i, j \in 1..Len(OrderIpv6First(addrs)) :
                 Family(OrderIpv6First(addrs)[i]) = "v4" /\ Family(OrderIpv6First(addrs)[j]) = "v6"
                    => j < i
<1> DEFINE six == OfFamily("v6", addrs)
           four == OfFamily("v4", addrs)
           all == six \o four
<1>1. /\ six \in Seq(V) /\ NoTwice(six) /\ Range(six) = {a \in Range(addrs) : Family(a) = "v6"}
      /\ four \in Seq(V) /\ NoTwice(four) /\ Range(four) = {a \in Range(addrs) : Family(a) = "v4"}
  BY OfFamilyFacts
<1>2. OrderIpv6First(addrs) = all
  BY DEF OrderIpv6First
<1> HIDE DEF six, four
<1>3. all \in Seq(V) /\ Len(all) = Len(six) + Len(four)
  BY <1>1
<1>4. ASSUME NEW i \in 1..Len(all)
      PROVE  \/ i \in 1..Len(six) /\ all[i] = six[i] /\ all[i] \in Range(six)
             \/ i - Len(six) \in 1..Len(four) /\ all[i] = four[i - Len(six)] /\ all[i] \in Range(four)
  <2>1. Len(six) \in Nat /\ Len(four) \in Nat
    BY <1>1
  <2>2. CASE i <= Len(six)
    <3>1. i \in 1..Len(six) /\ all[i] = six[i]
      BY <1>1, <1>3, <2>1, <2>2
    <3>2. six[i] \in Range(six)
      BY <1>1, <3>1 DEF Range
    <3> QED BY <3>1, <3>2
  <2>3. CASE i > Len(six)
    <3>1. i - Len(six) \in 1..Len(four) /\ all[i] = four[i - Len(six)]
      BY <1>1, <1>3, <2>1, <2>3
    <3>2. four[i - Len(six)] \in Range(four)
      BY <1>1, <3>1 DEF Range
    <3> QED BY <3>1, <3>2
  <2> QED BY <2>1, <2>2, <2>3
<1>5. Range(all) = Range(six) \cup Range(four)
  <2>1. Range(all) \subseteq Range(six) \cup Range(four)
    BY <1>3, <1>4 DEF Range
  <2>2. ASSUME NEW k \in 1..Len(six) PROVE six[k] \in Range(all)
    <3>1. k \in 1..Len(all) /\ all[k] = six[k]
      BY <1>1, <1>3
    <3>2. DOMAIN all = 1..Len(all)
      BY <1>3
    <3> QED BY <3>1, <3>2, Zenon DEF Range
  <2>3. ASSUME NEW k \in 1..Len(four) PROVE four[k] \in Range(all)
    <3>1. Len(six) + k \in 1..Len(all) /\ all[Len(six) + k] = four[k]
      BY <1>1, <1>3
    <3>2. DOMAIN all = 1..Len(all)
      BY <1>3
    <3> QED BY <3>1, <3>2, Zenon DEF Range
  <2>4. Range(six) \subseteq Range(all)
    <3>1. DOMAIN six = 1..Len(six)
      BY <1>1
    <3> QED BY <2>2, <3>1, Zenon DEF Range
  <2>5. Range(four) \subseteq Range(all)
    <3>1. DOMAIN four = 1..Len(four)
      BY <1>1
    <3> QED BY <2>3, <3>1, Zenon DEF Range
  <2> QED BY <2>1, <2>4, <2>5, Zenon
<1>6. Range(addrs) \subseteq V
  BY DEF Range
<1>7. Range(all) = Range(addrs)
  <2>1. \A a \in Range(addrs) : Family(a) \in {"v4", "v6"}
    BY <1>6, TwoFamilies
  <2> QED BY <1>1, <1>5, <2>1
<1>8. NoTwice(all)
  <2> SUFFICES ASSUME NEW i \in 1..Len(all), NEW j \in 1..Len(all), all[i] = all[j]
               PROVE  i = j
    BY DEF NoTwice
  <2>1. Range(six) \cap Range(four) = {}
    BY <1>1
  <2>2. Len(six) \in Nat /\ i \in Int /\ j \in Int
    BY <1>1
  <2> HIDE DEF all
  <2>3. CASE all[i] \in Range(six)
    <3>1. /\ i \in 1..Len(six) /\ all[i] = six[i]
          /\ j \in 1..Len(six) /\ all[j] = six[j]
      BY <1>4, <2>1, <2>3
    <3> QED BY <1>1, <3>1, Zenon DEF NoTwice
  <2>4. CASE all[i] \notin Range(six)
    <3> DEFINE k == i - Len(six)
               m == j - Len(six)
    <3>1. /\ k \in 1..Len(four) /\ all[i] = four[k]
          /\ m \in 1..Len(four) /\ all[j] = four[m]
      BY <1>4, <2>4
    <3>2. k = m
      <4> HIDE DEF k, m
      <4> QED BY <1>1, <3>1, Zenon DEF NoTwice
    <3> QED BY <2>2, <3>2
  <2> QED BY <2>3, <2>4
<1>9. Len(all) = Len(addrs)
  BY <1>3, <1>7, <1>8, NoTwiceCard, Zenon
<1>10. ASSUME NEW i \in 1..Len(all), NEW j \in 1..Len(all),
              Family(all[i]) = "v4", Family(all[j]) = "v6"
       PROVE  j < i
  <2>1. Len(six) \in Nat /\ i \in Int /\ j \in Int
    BY <1>1
  <2>2. all[i] \notin Range(six) /\ all[j] \notin Range(four)
    BY <1>1, <1>10
  <2> HIDE DEF all
  <2> QED BY <1>4, <2>1, <2>2
<1> HIDE DEF all
<1> QED BY <1>2, <1>3, <1>7, <1>8, <1>9, <1>10, SMTT(30)

\* What resolve_one gives: the source itself or a host of its IPv6 prefix, at
\* the port that was advertised.
LEMMA ResolveOneFacts ==
    ASSUME NEW c, NEW reflexive, IsIp(c.ip), IsIp(reflexive), c = [ip |-> c.ip, port |-> c.port]
    PROVE  LET a == ResolveOne(c, reflexive)
               r == Canonical(reflexive)
           IN  /\ IsIp(a.ip) /\ a.port = c.port
               /\ \/ Canonical(a.ip) = r
                  \/ r.form = "v6" /\ a.ip.form = "v6" /\ a.ip.net = r.net
<1> DEFINE a == ResolveOne(c, reflexive)
<1>1. CASE ~IsUnroutable(c.ip) /\ BelongsToSource(c.ip, reflexive)
  <2>1. a = c
    BY <1>1 DEF ResolveOne
  <2>2. CASE Canonical(c.ip).form = "v4"
    <3>1. Canonical(c.ip) = Canonical(reflexive)
      BY <1>1, <2>2 DEF BelongsToSource
    <3> QED BY <2>1, <3>1
  <2>3. CASE Canonical(c.ip).form # "v4"
    <3>1. c.ip.form = "v6" /\ Canonical(c.ip) = c.ip
      BY <2>3 DEF IsIp, Forms, Canonical
    <3>2. Canonical(reflexive).form = "v6" /\ c.ip.net = Canonical(reflexive).net
      BY <1>1, <2>3, <3>1 DEF BelongsToSource, SameIpv6Prefix64
    <3> QED BY <2>1, <3>1, <3>2
  <2> QED BY <2>2, <2>3
<1>2. CASE ~(~IsUnroutable(c.ip) /\ BelongsToSource(c.ip, reflexive))
  <2>1. a = [ip |-> reflexive, port |-> c.port]
    BY <1>2 DEF ResolveOne
  <2>2. a.ip = reflexive /\ a.port = c.port
    BY <2>1
  <2> QED BY <2>2
<1> QED BY <1>1, <1>2

\* A list cut at the cap is still without repetitions, and empty only if the
\* whole list is.
LEMMA CutFacts ==
    ASSUME NEW V, NEW s \in Seq(V), NoTwice(s), NEW m \in Nat, m <= Len(s)
    PROVE  /\ SubSeq(s, 1, m) \in Seq(V) /\ NoTwice(SubSeq(s, 1, m))
           /\ Len(SubSeq(s, 1, m)) = m /\ Range(SubSeq(s, 1, m)) \subseteq Range(s)
<1> DEFINE t == SubSeq(s, 1, m)
<1>1. t \in Seq(V) /\ Len(t) = m /\ \A i \in 1..m : t[i] = s[i]
  OBVIOUS
<1> HIDE DEF t
<1>2. NoTwice(t)
  BY <1>1 DEF NoTwice
<1>3. Range(t) \subseteq Range(s)
  BY <1>1 DEF Range
<1> QED BY <1>1, <1>2, <1>3 DEF t

\* Whatever a peer advertises and wherever it is seen, what resolve_dialable
\* gives may be published, and it is empty exactly when nothing was advertised.
LEMMA ResolveFacts ==
    ASSUME NEW offer, IsOffer(offer)
    PROVE  LET addrs == ResolveDialable(offer.advertised, offer.source)
           IN  /\ addrs \in Seq(Range(addrs))
               /\ Publishable(addrs, offer.advertised, offer.source)
               /\ offer.advertised = <<>> <=> addrs = <<>>
               /\ \A a \in Range(addrs) : Family(a) \in {"v4", "v6"}
<1> DEFINE adv == offer.advertised
           src == offer.source
           r == Canonical(src)
           resolved == [i \in DOMAIN adv |-> ResolveOne(adv[i], src)]
           V == {ResolveOne(c, src) : c \in Range(adv)}
           unique == Distinct(resolved)
           m == IF Len(unique) < MaxDialable THEN Len(unique) ELSE MaxDialable
           cut == SubSeq(unique, 1, m)
           addrs == OrderIpv6First(cut)
<1>1. adv \in Seq(Range(adv)) /\ IsIp(src)
  BY DEF IsOffer
<1>2. ASSUME NEW c \in Range(adv)
      PROVE  LET a == ResolveOne(c, src)
             IN  /\ IsIp(a.ip) /\ a.port = c.port
                 /\ \/ Canonical(a.ip) = r
                    \/ r.form = "v6" /\ a.ip.form = "v6" /\ a.ip.net = r.net
  BY ResolveOneFacts DEF IsOffer
<1>3. \A a \in V : /\ IsIp(a.ip) /\ \E c \in Range(adv) : c.port = a.port
                  /\ \/ Canonical(a.ip) = r
                     \/ r.form = "v6" /\ a.ip.form = "v6" /\ a.ip.net = r.net
  BY <1>2, Zenon
<1>4. /\ DOMAIN adv = 1..Len(adv) /\ Len(adv) \in Nat /\ (adv = <<>> <=> Len(adv) = 0)
      /\ \A i \in DOMAIN adv : adv[i] \in Range(adv)
  BY <1>1
<1>5. resolved \in Seq(V) /\ Len(resolved) = Len(adv)
  <2>1. resolved \in [1..Len(adv) -> V]
    BY <1>4, Zenon
  <2> HIDE DEF resolved, V
  <2> QED BY <1>4, <2>1
<1>6. adv = <<>> <=> resolved = <<>>
  <2> HIDE DEF resolved, V
  <2> QED BY <1>4, <1>5
<1> HIDE DEF resolved, V, r
<1>7. /\ unique \in Seq(V) /\ NoTwice(unique)
      /\ resolved # <<>> => unique # <<>>
      /\ resolved = <<>> => unique = <<>>
  BY <1>5, DistinctFacts
<1> HIDE DEF unique
<1>8. Len(unique) \in Nat /\ (unique = <<>> <=> Len(unique) = 0)
  BY <1>7
<1>9. m \in Nat /\ m <= Len(unique) /\ m <= MaxDialable /\ (m = 0 <=> Len(unique) = 0)
  BY <1>8, DialAssumption
<1> HIDE DEF m
<1>10. cut \in Seq(V) /\ NoTwice(cut) /\ Len(cut) = m
  BY <1>7, <1>9, CutFacts, SMTT(30)
<1> HIDE DEF cut
<1>11. /\ addrs \in Seq(V) /\ NoTwice(addrs) /\ Len(addrs) = m
       /\ \A i, j \in 1..Len(addrs) : Family(addrs[i]) = "v4" /\ Family(addrs[j]) = "v6" => j < i
  BY <1>3, <1>10, OrderFacts
<1>12. ResolveDialable(offer.advertised, offer.source) = addrs
  BY Zenon DEF ResolveDialable, cut, m, unique, resolved
<1> HIDE DEF addrs
<1>13. Range(addrs) \subseteq V /\ DOMAIN addrs = 1..Len(addrs) /\ addrs \in Seq(Range(addrs))
  BY <1>11 DEF Range
<1>14. Cardinality(Range(addrs)) = Len(addrs)
  BY <1>11, NoTwiceCard
<1>15. adv = <<>> <=> addrs = <<>>
  BY <1>6, <1>7, <1>8, <1>9, <1>11
<1>16. Publishable(addrs, adv, src)
  <2>1. \A a \in Range(addrs) :
          /\ \/ Canonical(a.ip) = r
             \/ r.form = "v6" /\ a.ip.form = "v6" /\ a.ip.net = r.net
          /\ \E c \in Range(adv) : c.port = a.port
    BY <1>3, <1>13, Zenon
  <2>2. Len(addrs) <= MaxDialable
    BY <1>9, <1>11
  <2> QED BY <1>11, <1>13, <1>14, <1>15, <2>1, <2>2, Zenon DEF Publishable, r
<1>17. \A a \in Range(addrs) : Family(a) \in {"v4", "v6"}
  BY <1>3, <1>13, TwoFamilies, Zenon
<1> QED BY <1>12, <1>13, <1>15, <1>16, <1>17, Zenon

-------------------------------------------------------------------------------
(* The registry the pages read *)

\* A registry as register_peer leaves it: finitely many peers, each with the
\* addresses resolved from what it offered.
IsRegistry(reg) ==
    /\ IsFiniteSet(DOMAIN reg)
    /\ \A p \in DOMAIN reg : IsOffer(reg[p].offer) /\ reg[p] = PeerInfo(reg[p].offer)

\* The counter is the registry's size, a listing is a registry of some moment,
\* it is the present one until something overtakes the request, and then the
\* count that goes with it is its size.
DashInv ==
    /\ IsRegistry(peers) /\ connected = Cardinality(DOMAIN peers)
    /\ page = [stage |-> page.stage, path |-> page.path, full |-> page.full,
               listed |-> page.listed, counted |-> page.counted, changed |-> page.changed]
    /\ page.changed \in BOOLEAN
    /\ IsRegistry(page.listed)
    /\ page.stage = "locate" => page.path = "/map.json"
    /\ page.stage = "count" /\ ~page.changed => page.listed = peers
    /\ page.stage = "served" /\ page.path # "/map.json" /\ ~page.changed
          => page.counted = Cardinality(DOMAIN page.listed)

\* An empty registry is one.
LEMMA EmptyRegistry == IsRegistry(<<>>) /\ Cardinality(DOMAIN <<>>) = 0
<1>1. DOMAIN <<>> = {}
  OBVIOUS
<1> QED BY <1>1, FS_EmptySet DEF IsRegistry

\* It holds when the relay starts.
LEMMA DashInvInit == DashInit => DashInv
BY EmptyRegistry DEF DashInit, DashInv, NoPage

\* A registration leaves a registry, larger by one if the id is new.
LEMMA RegisteredFacts ==
    ASSUME IsRegistry(peers), NEW p, NEW offer, IsOffer(offer),
           peers' = [q \in DOMAIN peers \cup {p} |-> IF q = p THEN PeerInfo(offer) ELSE peers[q]]
    PROVE  /\ IsRegistry(peers')
           /\ Cardinality(DOMAIN peers') = Cardinality(DOMAIN peers) + (IF p \in DOMAIN peers THEN 0 ELSE 1)
<1>1. DOMAIN peers' = DOMAIN peers \cup {p}
  OBVIOUS
<1>2. /\ IsFiniteSet(DOMAIN peers \cup {p})
      /\ Cardinality(DOMAIN peers \cup {p})
           = IF p \in DOMAIN peers THEN Cardinality(DOMAIN peers) ELSE Cardinality(DOMAIN peers) + 1
  BY FS_AddElement DEF IsRegistry
<1>3. Cardinality(DOMAIN peers) \in Nat
  BY FS_CardinalityType DEF IsRegistry
<1>4. ASSUME NEW q \in DOMAIN peers \cup {p}
      PROVE  IsOffer(peers'[q].offer) /\ peers'[q] = PeerInfo(peers'[q].offer)
  <2>1. CASE q = p
    <3>1. peers'[q] = PeerInfo(offer) /\ PeerInfo(offer).offer = offer
      BY <2>1 DEF PeerInfo
    <3> QED BY <3>1, SMTT(30)
  <2>2. CASE q # p
    <3>1. peers'[q] = peers[q] /\ q \in DOMAIN peers
      BY <2>2
    <3> QED BY <3>1 DEF IsRegistry
  <2> QED BY <2>1, <2>2
<1>5. IsRegistry(peers')
  BY <1>1, <1>2, <1>4, Zenon DEF IsRegistry
<1> QED BY <1>1, <1>2, <1>3, <1>5

\* A removal leaves a registry, smaller by one.
LEMMA UnregisteredFacts ==
    ASSUME IsRegistry(peers), NEW p \in DOMAIN peers,
           peers' = [q \in DOMAIN peers \ {p} |-> peers[q]]
    PROVE  IsRegistry(peers') /\ Cardinality(DOMAIN peers') = Cardinality(DOMAIN peers) - 1
<1>1. DOMAIN peers' = DOMAIN peers \ {p}
  OBVIOUS
<1>2. /\ IsFiniteSet(DOMAIN peers \ {p})
      /\ Cardinality(DOMAIN peers \ {p}) = Cardinality(DOMAIN peers) - 1
  BY FS_RemoveElement DEF IsRegistry
<1>3. \A q \in DOMAIN peers \ {p} : peers'[q] = peers[q]
  OBVIOUS
<1>4. IsRegistry(peers')
  BY <1>1, <1>2, <1>3, Zenon DEF IsRegistry
<1> QED BY <1>1, <1>2, <1>4

\* A page that is overtaken is no longer of one moment.
LEMMA OvertakenInv ==
    ASSUME DashInv, page' = Overtaken, IsRegistry(peers'), connected' = Cardinality(DOMAIN peers')
    PROVE  DashInv'
<1>1. /\ page'.stage = page.stage /\ page'.path = page.path /\ page'.full = page.full
      /\ page'.listed = page.listed /\ page'.counted = page.counted
      /\ page'.changed = (page.changed \/ page.stage = "count")
      /\ page' = [stage |-> page.stage, path |-> page.path, full |-> page.full,
                  listed |-> page.listed, counted |-> page.counted,
                  changed |-> (page.changed \/ page.stage = "count")]
  BY DEF DashInv, Overtaken
<1> QED BY <1>1, Zenon DEF DashInv

\* Registrations and removals keep it.
LEMMA ChangeInv ==
    ASSUME DashInv, \/ \E p, offer : IsOffer(offer) /\ Registered(p, offer)
                    \/ \E p : Unregistered(p)
    PROVE  DashInv'
<1>0. IsRegistry(peers) /\ connected = Cardinality(DOMAIN peers)
  BY DEF DashInv
<1>1. CASE \E p, offer : IsOffer(offer) /\ Registered(p, offer)
  <2>1. PICK p, offer : IsOffer(offer) /\ Registered(p, offer)
    BY <1>1, SMTT(30)
  <2>2. IsRegistry(peers') /\ connected' = Cardinality(DOMAIN peers') /\ page' = Overtaken
    BY <1>0, <2>1, RegisteredFacts DEF Registered
  <2> QED BY <2>2, OvertakenInv
<1>2. CASE \E p : Unregistered(p)
  <2>1. PICK p : Unregistered(p)
    BY <1>2
  <2>2. IsRegistry(peers') /\ connected' = Cardinality(DOMAIN peers') /\ page' = Overtaken
    BY <1>0, <2>1, UnregisteredFacts, SMTT(30) DEF Unregistered
  <2> QED BY <2>2, OvertakenInv
<1> QED BY <1>1, <1>2

\* So does every step of a request.
LEMMA PageInv ==
    ASSUME DashInv, ServePage \/ \E path, full : Request(path, full)
    PROVE  DashInv'
<1>0. UNCHANGED <<peers, connected, geo>>
  BY Zenon DEF ServePage, Request, ListPeers, CountPeers, LocatePeers, EndPage
<1> USE DEF DashInv
<1>1. CASE \E path, full : Request(path, full)
  BY <1>0, <1>1, EmptyRegistry, Zenon DEF Request, NoPage
<1>2. CASE ListPeers
  BY <1>0, <1>2, ZenonT(40) DEF ListPeers
<1>3. CASE CountPeers
  <2>1. CASE TruncateFails
    <3>1. page' = [page EXCEPT !.stage = "panicked"]
      BY <1>3, <2>1 DEF CountPeers
    <3> QED BY <1>0, <3>1
  <2>2. CASE ~TruncateFails /\ page.path = "/map.json"
    <3>1. page' = [page EXCEPT !.stage = "locate", !.listed = <<>>]
      BY <1>3, <2>2 DEF CountPeers
    <3>2. page' = [stage |-> "locate", path |-> page.path, full |-> page.full, listed |-> <<>>,
                   counted |-> page.counted, changed |-> page.changed]
      BY <3>1, Zenon
    <3>3. IsRegistry(<<>>)
      BY EmptyRegistry
    <3> QED BY <1>0, <2>2, <3>2, <3>3
  <2>3. CASE ~TruncateFails /\ page.path # "/map.json"
    <3>1. page' = [page EXCEPT !.stage = "served", !.counted = connected]
      BY <1>3, <2>3 DEF CountPeers
    <3>2. page.stage = "count"
      BY <1>3 DEF CountPeers
    <3> QED BY <1>0, <3>1, <3>2, Zenon
  <2> QED BY <2>1, <2>2, <2>3
<1>4. CASE LocatePeers
  BY <1>0, <1>4, Zenon DEF LocatePeers
<1>5. CASE EndPage
  BY <1>0, <1>5, EmptyRegistry DEF EndPage, NoPage
<1> QED BY <1>1, <1>2, <1>3, <1>4, <1>5 DEF ServePage

-------------------------------------------------------------------------------
(* The documents *)

\* What a row of a registry publishes.
LEMMA RowFacts ==
    ASSUME NEW reg, IsRegistry(reg), NEW p \in DOMAIN reg
    PROVE  /\ reg[p].addresses \in Seq(Range(reg[p].addresses))
           /\ Publishable(reg[p].addresses, reg[p].offer.advertised, reg[p].offer.source)
           /\ reg[p].offer.advertised = <<>> <=> reg[p].addresses = <<>>
           /\ \A a \in Range(reg[p].addresses) : Family(a) \in {"v4", "v6"}
<1>1. reg[p] = PeerInfo(reg[p].offer) /\ IsOffer(reg[p].offer)
  BY DEF IsRegistry
<1>2. reg[p].addresses = ResolveDialable(reg[p].offer.advertised, reg[p].offer.source)
  <2>1. \A o : PeerInfo(o).addresses = ResolveDialable(o.advertised, o.source)
    BY DEF PeerInfo
  <2> QED BY <1>1, <2>1, Zenon
<1> QED BY <1>1, <1>2, ResolveFacts, Zenon

\* The counts of a registry's peers by some feature of theirs add up.
LEMMA CountsAddUp ==
    ASSUME NEW S, IsFiniteSet(S), NEW f
    PROVE  FoldFunction(+, 0, [c \in {f[p] : p \in S} |-> Cardinality({p \in S : f[p] = c})])
              = Cardinality(S)
<1> DEFINE B == {f[p] : p \in S}
           h == [c \in B |-> Cardinality({p \in S : f[p] = c})]
<1>1. h = Shares(f, S, B) /\ DOMAIN h = B
  BY DEF Shares
<1>2. FoldFunction(+, 0, h) = SumOver(h, DOMAIN h)
  BY FoldIsSum, Zenon
<1> HIDE DEF h
<1>3. FoldFunction(+, 0, h) = SumOver(Shares(f, S, B), B)
  BY <1>1, <1>2, Zenon
<1> QED BY <1>3, SharesAddUp, Zenon DEF h

\* /stats.json adds up.
LEMMA StatsFacts == DashInv => StatsHonest
<1> SUFFICES ASSUME DashInv, page.stage = "served", page.path = "/stats.json"
             PROVE  StatsHonest
  BY Zenon DEF StatsHonest
<1> DEFINE listed == page.listed
<1>1. IsRegistry(listed) /\ IsFiniteSet(DOMAIN listed)
  BY DEF DashInv, IsRegistry
<1>2. /\ Stats.active_reservations = Cardinality(DOMAIN listed)
      /\ Stats.connected_peers = page.counted
      /\ Stats.networks = [n \in {listed[p].network : p \in DOMAIN listed} |->
                      Cardinality({p \in DOMAIN listed : listed[p].network = n})]
      /\ Stats.peers = [p \in DOMAIN listed |-> PeerRow(p, listed[p], page.full)]
  BY Zenon DEF Stats, BuildSnapshot
<1>3. FoldFunction(+, 0, Stats.networks) = Stats.active_reservations
  <2> DEFINE f == [p \in DOMAIN listed |-> listed[p].network]
             h == [c \in {f[p] : p \in DOMAIN listed} |-> Cardinality({p \in DOMAIN listed : f[p] = c})]
  <2>1. Stats.networks = h
    <3>1. \A p \in DOMAIN listed : f[p] = listed[p].network
      OBVIOUS
    <3>2. {f[p] : p \in DOMAIN listed} = {listed[p].network : p \in DOMAIN listed}
      BY <3>1, Zenon
    <3>3. \A n : {p \in DOMAIN listed : f[p] = n} = {p \in DOMAIN listed : listed[p].network = n}
      BY <3>1, Zenon
    <3> DEFINE k == [n \in {listed[p].network : p \in DOMAIN listed} |->
                      Cardinality({p \in DOMAIN listed : listed[p].network = n})]
    <3> HIDE DEF f
    <3>4. DOMAIN k = DOMAIN h
      BY <3>2, Zenon
    <3>5. \A n \in DOMAIN h : k[n] = h[n]
      BY <3>2, <3>3, Zenon
    <3>6. k = h
      BY <3>4, <3>5, Zenon
    <3> QED BY <1>2, <3>6, Zenon
  <2>2. FoldFunction(+, 0, h) = Cardinality(DOMAIN listed)
    <3> HIDE DEF f
    <3> QED BY <1>1, CountsAddUp, Zenon
  <2> HIDE DEF h
  <2> QED BY <1>2, <2>1, <2>2, Zenon
<1>4. DOMAIN Stats.peers = DOMAIN listed
  BY <1>2
<1>5. ASSUME NEW p \in DOMAIN listed
      PROVE  LET row == Stats.peers[p]
                 info == listed[p]
             IN /\ row.via = "direct" <=> info.offer.advertised # <<>>
                /\ row.address_family = "v4" => \A a \in Range(info.addresses) : Family(a) = "v4"
                /\ row.full_id => page.full \/ p \notin LongIds
  <2> DEFINE info == listed[p]
             addrs == info.addresses
  <2>1. /\ addrs \in Seq(Range(addrs))
        /\ Publishable(addrs, info.offer.advertised, info.offer.source)
        /\ info.offer.advertised = <<>> <=> addrs = <<>>
        /\ \A a \in Range(addrs) : Family(a) \in {"v4", "v6"}
    BY <1>1, RowFacts, Zenon
  <2>2. Stats.peers[p] = PeerRow(p, info, page.full)
    BY <1>2
  <2>3. /\ Stats.peers[p].via = IF addrs = <<>> THEN "relay" ELSE "direct"
        /\ Stats.peers[p].address_family = AddressFamily(addrs)
        /\ Stats.peers[p].full_id = (page.full \/ p \notin LongIds)
    <3>1. /\ PeerRow(p, info, page.full).via = IF info.addresses = <<>> THEN "relay" ELSE "direct"
          /\ PeerRow(p, info, page.full).address_family = AddressFamily(info.addresses)
      BY DEF PeerRow
    <3>2. PeerRow(p, info, page.full).full_id = (page.full \/ p \notin LongIds)
      BY SMTT(30) DEF PeerRow
    <3> QED BY <2>2, <3>1, <3>2, ZenonT(40)
  <2>4. ASSUME AddressFamily(addrs) = "v4", NEW a \in Range(addrs) PROVE Family(a) = "v4"
    <3>1. PICK j \in DOMAIN addrs : a = addrs[j]
      BY DEF Range
    <3>2. DOMAIN addrs = 1..Len(addrs) /\ 1 \in DOMAIN addrs
      BY <2>1, <3>1
    <3>3. addrs # <<>>
      BY <3>2
    <3>4. Family(addrs[1]) = "v4"
      BY <2>4, <3>3 DEF AddressFamily
    <3>5. \A k, m \in DOMAIN addrs : Family(addrs[k]) = "v4" /\ Family(addrs[m]) = "v6" => m < k
      BY <2>1, Zenon DEF Publishable
    <3>6. Family(addrs[j]) = "v6" => j < 1
      BY <3>2, <3>4, <3>5, Zenon
    <3>7. Family(addrs[j]) # "v6"
      BY <3>1, <3>2, <3>6
    <3> QED BY <2>1, <3>1, <3>7
  <2>5. "relay" # "direct"
    OBVIOUS
  <2> QED BY <2>1, <2>3, <2>4, <2>5, Zenon
<1>6. ~page.changed => Stats.connected_peers = Stats.active_reservations
  BY <1>2 DEF DashInv
<1> QED BY <1>3, <1>4, <1>5, <1>6, Zenon DEF StatsHonest

\* Everything in the registry may be published.
LEMMA DialableFacts == DashInv => DialableSound
BY RowFacts DEF DashInv, DialableSound

\* The centroid snap gives is at most half a cell away, the lower edge included.
LEMMA SnapFacts ==
    ASSUME NEW coord \in Int
    PROVE  /\ Snap(coord) \in Int
           /\ Snap(coord) - CellDeg <= 2 * coord /\ 2 * coord < Snap(coord) + CellDeg
<1> DEFINE q == coord \div CellDeg
           m == coord % CellDeg
           z == q * CellDeg
<1>1. CellDeg \in Int /\ CellDeg > 0
  BY MapAssumption
<1>2. q \in Int /\ m \in Int /\ 0 <= m /\ m < CellDeg /\ coord = CellDeg * q + m
  BY <1>1
<1> HIDE DEF q, m
<1>3. z \in Int /\ CellDeg * q = z
  BY <1>1, <1>2
<1>4. (2 * q + 1) * CellDeg = 2 * z + CellDeg
  BY <1>1, <1>2
<1>5. Snap(coord) = 2 * z + CellDeg
  BY <1>4 DEF Snap, q
<1> HIDE DEF z
<1> QED BY <1>1, <1>2, <1>3, <1>5

\* The centroid of a coordinate below the far edge is in the world.
LEMMA SnapInside ==
    ASSUME NEW n \in Nat, NEW coord \in Int, -(n * CellDeg) <= coord, coord < n * CellDeg
    PROVE  -(2 * (n * CellDeg)) <= Snap(coord) /\ Snap(coord) <= 2 * (n * CellDeg)
<1> DEFINE q == coord \div CellDeg
           m == coord % CellDeg
           z == q * CellDeg
           e == n * CellDeg
<1>1. CellDeg \in Int /\ CellDeg > 0 /\ n \in Int
  BY MapAssumption
<1>2. q \in Int /\ m \in Int /\ 0 <= m /\ m < CellDeg /\ coord = CellDeg * q + m
  BY <1>1
<1>3. Snap(coord) = (2 * q + 1) * CellDeg
  BY DEF Snap
<1> HIDE DEF q, m
<1>4. z \in Int /\ e \in Int /\ CellDeg * q = z /\ (2 * q + 1) * CellDeg = 2 * z + CellDeg
  BY <1>1, <1>2
<1>5. q <= n - 1
  <2> SUFFICES ASSUME q >= n PROVE FALSE
    BY <1>1, <1>2
  <2>1. q * CellDeg >= n * CellDeg
    BY <1>1, <1>2
  <2> HIDE DEF z, e
  <2>2. z >= e /\ coord < e
    BY <2>1 DEF z, e
  <2> QED BY <1>1, <1>2, <1>4, <2>2
<1>6. q >= -n
  <2> SUFFICES ASSUME q + 1 <= -n PROVE FALSE
    BY <1>1, <1>2
  <2>1. (q + 1) * CellDeg <= (-n) * CellDeg
    BY <1>1, <1>2
  <2>2. (q + 1) * CellDeg = z + CellDeg /\ (-n) * CellDeg = -e
    BY <1>1, <1>2
  <2> HIDE DEF z, e
  <2>3. -e <= coord
    BY DEF e
  <2> QED BY <1>1, <1>2, <1>4, <2>1, <2>2, <2>3
<1>7. q * CellDeg <= (n - 1) * CellDeg /\ q * CellDeg >= (-n) * CellDeg
  BY <1>1, <1>2, <1>5, <1>6
<1>8. (n - 1) * CellDeg = e - CellDeg /\ (-n) * CellDeg = -e
  BY <1>1
<1> HIDE DEF z, e
<1>9. z <= e - CellDeg /\ z >= -e
  BY <1>7, <1>8 DEF z
<1>10. -(2 * e) <= Snap(coord) /\ Snap(coord) <= 2 * e
  BY <1>1, <1>3, <1>4, <1>9
<1> QED BY <1>10 DEF e

\* The centroid of a place that is not on the far edge is in the world.
LEMMA SnappedInWorld ==
    ASSUME NEW place \in [lat : -90..90, lon : -180..180], ~OnFarEdge(place)
    PROVE  InWorld(<<Snap(place.lat), Snap(place.lon)>>)
<1>1. /\ place.lat \in Int /\ -90 <= place.lat /\ place.lat < 90
      /\ place.lon \in Int /\ -180 <= place.lon /\ place.lon < 180
  BY DEF OnFarEdge
<1>2. PICK n \in Nat : 90 = n * CellDeg
  BY MapAssumption
<1>3. 2 * n \in Nat /\ 180 = (2 * n) * CellDeg /\ CellDeg \in Nat
  BY <1>2, MapAssumption
<1>4. -180 <= Snap(place.lat) /\ Snap(place.lat) <= 180
  <2>1. -(2 * (n * CellDeg)) <= Snap(place.lat) /\ Snap(place.lat) <= 2 * (n * CellDeg)
    BY <1>1, <1>2, SnapInside
  <2> QED BY <1>2, <2>1
<1>5. -360 <= Snap(place.lon) /\ Snap(place.lon) <= 360
  <2> DEFINE k == 2 * n
  <2>1. k \in Nat /\ 180 = k * CellDeg
    BY <1>3
  <2> HIDE DEF k
  <2>2. -(2 * (k * CellDeg)) <= Snap(place.lon) /\ Snap(place.lon) <= 2 * (k * CellDeg)
    BY <1>1, <2>1, SnapInside, SMTT(30)
  <2> QED BY <2>1, <2>2
<1> QED BY <1>4, <1>5 DEF InWorld

\* A place of a peer's is one of the database's.
LEMMA PlaceType ==
    ASSUME NEW info, NEW db, NEW place \in Places(info, db)
    PROVE  place \in [lat : -90..90, lon : -180..180]
<1>1. PICK a \in Range(info.addresses) : place = Locate(db, a.ip) /\ place # Nowhere
  BY Zenon DEF Places
<1>2. place = LookupIp(Canonical(a.ip))
  BY <1>1, Zenon DEF Locate
<1>3. PICK at \in DOMAIN GeoDb : place = GeoDb[at]
  BY <1>1, <1>2, Zenon DEF LookupIp
<1> QED BY <1>3, MapAssumption

\* first_located finds a place of the peer's whenever there is one.
LEMMA FirstLocatedFacts ==
    ASSUME NEW info, info.addresses \in Seq(Range(info.addresses)), NEW db
    PROVE  /\ FirstLocated(info.addresses, db) = Nowhere <=> Places(info, db) = {}
           /\ FirstLocated(info.addresses, db) # Nowhere
                 => FirstLocated(info.addresses, db) \in Places(info, db)
<1> DEFINE addrs == info.addresses
           located == {i \in DOMAIN addrs : Locate(db, addrs[i].ip) # Nowhere}
<1>1. DOMAIN addrs \subseteq Nat
  <2>1. DOMAIN addrs = 1..Len(addrs) /\ Len(addrs) \in Nat
    OBVIOUS
  <2> QED BY <2>1
<1>2. ASSUME NEW i \in located PROVE Locate(db, addrs[i].ip) \in Places(info, db)
  BY Zenon DEF Places, Range
<1>3. ASSUME NEW place \in Places(info, db) PROVE located # {}
  BY Zenon DEF Places, Range
<1>4. CASE located = {}
  <2>1. FirstLocated(addrs, db) = Nowhere
    BY <1>4, Zenon DEF FirstLocated
  <2>2. Places(info, db) = {}
    BY <1>3, <1>4, Zenon
  <2> QED BY <2>1, <2>2
<1>5. CASE located # {}
  <2>1. \E x \in located : \A y \in located : x <= y
    BY <1>1, <1>5, Least, Zenon
  <2>2. Min(located) \in located
    BY <2>1, Zenon DEF Min
  <2>3. FirstLocated(addrs, db) = Locate(db, addrs[Min(located)].ip)
    BY <1>5, Zenon DEF FirstLocated
  <2>4. Locate(db, addrs[Min(located)].ip) # Nowhere
    BY <2>2, Zenon
  <2>5. Locate(db, addrs[Min(located)].ip) \in Places(info, db)
    BY <1>2, <2>2, Zenon
  <2> QED BY <2>3, <2>4, <2>5, Zenon
<1> QED BY <1>4, <1>5

\* A place lies in the cell it is snapped to.
LEMMA SnappedIn ==
    ASSUME NEW place \in [lat : Int, lon : Int]
    PROVE  InCell(place, <<Snap(place.lat), Snap(place.lon)>>)
<1>1. place.lat \in Int /\ place.lon \in Int
  OBVIOUS
<1>2. /\ Snap(place.lat) - CellDeg <= 2 * place.lat /\ 2 * place.lat < Snap(place.lat) + CellDeg
      /\ Snap(place.lon) - CellDeg <= 2 * place.lon /\ 2 * place.lon < Snap(place.lon) + CellDeg
  BY <1>1, SnapFacts
<1>3. Within(place.lat, 90, Snap(place.lat)) /\ Within(place.lon, 180, Snap(place.lon))
  BY <1>2, Zenon DEF Within
<1> DEFINE cell == <<Snap(place.lat), Snap(place.lon)>>
<1>4. cell[1] = Snap(place.lat) /\ cell[2] = Snap(place.lon)
  OBVIOUS
<1> HIDE DEF cell
<1>5. InCell(place, cell)
  BY <1>3, <1>4, Zenon DEF InCell
<1> QED BY <1>5, Zenon DEF cell

\* /map.json adds up.
LEMMA MapFacts == DashInv => MapHonest
<1> SUFFICES ASSUME DashInv, page.stage = "served", page.path = "/map.json"
             PROVE  MapHonest
  BY Zenon DEF MapHonest
<1> DEFINE listed == page.listed
           all == DOMAIN listed
           at == [p \in all |-> FirstLocated(listed[p].addresses, geo)]
           located == {p \in all : at[p] # Nowhere}
           cellOf == [p \in located |-> <<Snap(at[p].lat), Snap(at[p].lon)>>]
           cells == [c \in {cellOf[p] : p \in located} |-> Cardinality({p \in located : cellOf[p] = c})]
           unlocatable == {p \in all : Places(listed[p], geo) = {}}
           near(c) == [p \in all |-> {place \in Places(listed[p], geo) : InCell(place, c)}]
           in(c) == {p \in DOMAIN near(c) : near(c)[p] # {}}
<1>1. IsRegistry(listed) /\ IsFiniteSet(all)
  BY DEF DashInv, IsRegistry
<1>2. /\ Globe.total_peers = Cardinality(all)
      /\ Globe.located_peers = FoldFunction(+, 0, cells)
      /\ Globe.unknown_peers = Cardinality(all \ located)
      /\ Globe.cells = cells
  BY Zenon DEF Globe, BuildMapSnapshot
<1>3. ASSUME NEW p \in all
      PROVE  /\ at[p] = Nowhere <=> Places(listed[p], geo) = {}
             /\ at[p] # Nowhere => at[p] \in Places(listed[p], geo)
  <2>1. listed[p].addresses \in Seq(Range(listed[p].addresses))
    BY <1>1, RowFacts, Zenon
  <2>2. at[p] = FirstLocated(listed[p].addresses, geo)
    OBVIOUS
  <2> HIDE DEF at
  <2> QED BY <2>1, <2>2, FirstLocatedFacts, Zenon
<1>5. \A p \in located : cellOf[p] = <<Snap(at[p].lat), Snap(at[p].lon)>>
  BY Zenon
<1>6. IsFiniteSet(located) /\ located \subseteq all
  BY <1>1, FS_Subset, Zenon
<1>7. FoldFunction(+, 0, cells) = Cardinality(located)
  <2> HIDE DEF cellOf, located
  <2> QED BY <1>6, CountsAddUp, Zenon
<1>8. ASSUME NEW p \in located
      PROVE  /\ at[p] \in near(cellOf[p])[p] /\ p \in in(cellOf[p])
             /\ InWorld(cellOf[p]) \/ OnFarEdge(at[p])
  <2>1. p \in all /\ at[p] \in Places(listed[p], geo)
    BY <1>3
  <2>2. at[p] \in [lat : -90..90, lon : -180..180]
    BY <2>1, PlaceType, ZenonT(40)
  <2>3. at[p] \in [lat : Int, lon : Int]
    <3> HIDE DEF at
    <3> QED BY <2>2, SMTT(30)
  <2>4. InCell(at[p], cellOf[p])
    BY <1>5, <2>3, SnappedIn, Zenon
  <2>5. InWorld(cellOf[p]) \/ OnFarEdge(at[p])
    BY <1>5, <2>2, SnappedInWorld, Zenon
  <2> HIDE DEF at, cellOf
  <2>6. at[p] \in near(cellOf[p])[p] /\ p \in DOMAIN near(cellOf[p])
    BY <2>1, <2>4, Zenon
  <2> QED BY <2>5, <2>6, Zenon
<1>9. unlocatable = all \ located
  BY <1>3, Zenon
<1> HIDE DEF at, located, cellOf
<1>10. Globe.located_peers + Globe.unknown_peers = Globe.total_peers
  <2>1. all \cap located = located
    BY <1>6
  <2>2. Cardinality(all \ located) = Cardinality(all) - Cardinality(located)
    BY <1>1, <2>1, FS_Difference
  <2>3. Cardinality(all) \in Nat /\ Cardinality(located) \in Nat
    BY <1>1, <1>6, FS_CardinalityType
  <2>4. Globe.located_peers = Cardinality(located)
    BY <1>2, <1>7, Zenon
  <2>5. Globe.unknown_peers = Cardinality(all \ located) /\ Globe.total_peers = Cardinality(all)
    BY <1>2, Zenon
  <2> QED BY <2>2, <2>3, <2>4, <2>5
<1>11. Globe.unknown_peers = Cardinality(unlocatable)
  BY <1>2, <1>9, Zenon
<1>12. ASSUME NEW c \in DOMAIN Globe.cells
       PROVE  /\ Globe.cells[c] \in 1..Cardinality(in(c))
              /\ InWorld(c) \/ \E p \in DOMAIN near(c) : \E place \in near(c)[p] : OnFarEdge(place)
  <2> DEFINE here == {p \in located : cellOf[p] = c}
  <2>1. c \in {cellOf[p] : p \in located} /\ Globe.cells[c] = Cardinality(here)
    BY <1>2, <1>12, Zenon
  <2>2. here # {}
    BY <2>1, Zenon
  <2> HIDE DEF near
  <2>3. here \subseteq in(c)
    BY <1>8, Zenon
  <2>4. IsFiniteSet(in(c))
    <3>1. DOMAIN near(c) = all
      BY Zenon DEF near
    <3>2. in(c) \subseteq all
      BY <3>1
    <3> HIDE DEF in
    <3> QED BY <1>1, <3>2, FS_Subset
  <2>5. InWorld(c) \/ \E p \in DOMAIN near(c) : \E place \in near(c)[p] : OnFarEdge(place)
    <3>1. PICK p \in located : cellOf[p] = c
      BY <2>2, Zenon
    <3> QED BY <1>8, <3>1, Zenon
  <2> HIDE DEF here, in
  <2>6. IsFiniteSet(here) /\ Cardinality(here) <= Cardinality(in(c))
    BY <2>3, <2>4, FS_Subset
  <2>7. Cardinality(here) \in Nat /\ Cardinality(here) # 0 /\ Cardinality(in(c)) \in Nat
    BY <2>2, <2>4, <2>6, FS_EmptySet, FS_CardinalityType, SMTT(30)
  <2>8. Globe.cells[c] \in 1..Cardinality(in(c))
    BY <2>1, <2>6, <2>7
  <2> QED BY <2>5, <2>8, Zenon
<1> QED BY <1>10, <1>11, <1>12, Zenon DEF MapHonest

-------------------------------------------------------------------------------
(* Side by side *)

\* Steps of the other components leave it.
LEMMA DashSame == DashInv /\ UNCHANGED dashVars => DashInv'
BY DEF DashInv, dashVars

\* Every step of the registry and of a page request keeps the pages' invariant,
\* whether a peer registers with one of its usual offers or with any.
LEMMA DashStepInv ==
    ASSUME DashInv, DialNext \/ DashNext
    PROVE  DashInv'
<1>1. \/ \E p, offer : IsOffer(offer) /\ Registered(p, offer)
      \/ \E p : Unregistered(p)
      \/ ServePage \/ \E path, full : Request(path, full)
  BY DashAssumption, Zenon DEF DialNext, DashNext
<1> QED BY <1>1, ChangeInv, PageInv

\* The state of the three with invariants here: it makes all six inductive.
SurroundingsInv == LifeInv /\ SweepInv /\ DashInv

\* The process, the sweep and the pages start in it.
LEMMA SurroundingsInit == Init => SurroundingsInv
BY LifeInvInit, SweepInvInit, DashInvInit DEF Init, SurroundingsInv

\* Every step keeps it: one component moves, the others do not.
LEMMA SurroundingsStep == SurroundingsInv /\ [Next]_vars => SurroundingsInv'
<1> SUFFICES ASSUME LifeInv, SweepInv, DashInv, [Next]_vars
             PROVE  SurroundingsInv'
  BY DEF SurroundingsInv
<1>1. LifeNext \/ UNCHANGED lifeVars
  BY DEF Next, Others, vars
<1>2. SweepNext \/ UNCHANGED sweepVars
  BY DEF Next, Others, vars
<1>3. DialNext \/ DashNext \/ UNCHANGED dashVars
  BY DEF Next, Others, vars
<1>4. LifeInv'
  BY <1>1, LifeStepInv, LifeSame
<1>5. SweepInv'
  BY <1>2, SweepStepInv, SweepSame
<1>6. DashInv'
  BY <1>3, DashStepInv, DashSame
<1> QED BY <1>4, <1>5, <1>6 DEF SurroundingsInv

\* The inductive invariant of the pages, the sweep and the process.
THEOREM SurroundingsInvariant == Spec => []SurroundingsInv
BY SurroundingsInit, SurroundingsStep, PTL DEF Spec

\* However the listeners' binds, the configuration, signals and a service
\* manager's Stop interleave, the exit code of the process tells why it ended
\* (main.rs, lib.rs): success is a Stop of a relay none of whose core
\* listeners was refused.
THEOREM ExitCodeTellsWhy == Spec => []ExitTellsWhy
<1>1. SurroundingsInv => ExitTellsWhy
  BY DEF SurroundingsInv, LifeInv
<1> QED BY <1>1, SurroundingsInvariant, PTL

\* dht_sweep loses no answer and reports none twice, whatever arrives between
\* its mem::take and the store of its view, for any number of nodes.
THEOREM NoAnswerLost == Spec => []AnswersConserved
<1>1. SurroundingsInv => AnswersConserved
  BY DEF SurroundingsInv, SweepInv
<1> QED BY <1>1, SurroundingsInvariant, PTL

\* The stored DHT view is the one its answers call for (build_dht_view): for
\* every list of answers and every bound on the keys published, the largest
\* provider count of each key, in order, and nothing called complete that was
\* cut; and when no node reports twice, the number of nodes that named each
\* key, the best corroborated ones published.
THEOREM StoredViewIsTheUnion == Spec => []ViewIsTheUnion
<1>1. SurroundingsInv => ViewIsTheUnion
  <2> SUFFICES ASSUME SurroundingsInv PROVE ViewIsTheUnion
    OBVIOUS
  <2>1. behind \in Seq(Sent) /\ dht_view = BuildDhtView(behind)
    BY DEF SurroundingsInv, SweepInv
  <2>2. IsViewOf(BuildDhtView(behind), behind)
    BY <2>1, ViewFacts, Zenon
  <2> QED BY <2>1, <2>2, Zenon DEF ViewIsTheUnion
<1> QED BY <1>1, SurroundingsInvariant, PTL

\* For every list of candidates and every source, resolve_dialable publishes
\* no address that is not tied to the peer's observed source, none twice, the
\* IPv6 ones first and within the bound.
THEOREM PublishedAddressesSound == Spec => []DialableSound
<1>1. SurroundingsInv => DialableSound
  BY DialableFacts DEF SurroundingsInv
<1> QED BY <1>1, SurroundingsInvariant, PTL

\* A served /stats.json adds up for every registry, also when registrations
\* and removals fall between its reads of the registry and of the counter.
THEOREM StatsAddUp == Spec => []StatsHonest
<1>1. SurroundingsInv => StatsHonest
  BY StatsFacts DEF SurroundingsInv
<1> QED BY <1>1, SurroundingsInvariant, PTL

\* A served /map.json adds up for every registry and every geo database, puts
\* no peer in a cell that none of its addresses is in, and no centroid outside
\* of the world but for a peer on its far edge.
THEOREM MapAddsUp == Spec => []MapHonest
<1>1. SurroundingsInv => MapHonest
  BY MapFacts DEF SurroundingsInv
<1> QED BY <1>1, SurroundingsInvariant, PTL

\* The registration of the service proceeds as Service says it does, so what is
\* proved of Service alone holds here.
THEOREM ServiceBehaves == Spec => ServiceSpec
<1>1. Init => ServiceInit
  BY DEF Init
<1>2. [Next]_vars => [ServiceNext]_serviceVars
  <2>1. Next => ServiceNext \/ UNCHANGED serviceVars
    BY Zenon DEF Next, Others
  <2>2. UNCHANGED vars => UNCHANGED serviceVars
    BY Zenon DEF vars
  <2> QED BY <2>1, <2>2
<1> QED BY <1>1, <1>2, PTL DEF Spec, ServiceSpec
==============================================================================
