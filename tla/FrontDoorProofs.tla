--------------------------- MODULE FrontDoorProofs ---------------------------
(*****************************************************************************)
(* The life of one connection (FrontDoor), proved for every client, every    *)
(* list of trusted proxies, every width and every way the bytes are cut into *)
(* reads.  First the trusted-proxy list of src/proxy_protocol.rs:            *)
(* prefix_matches, which compares whole bytes and then the high bits of the  *)
(* next, against the leading bits of the addresses read as numbers.  Then    *)
(* the connection: the byte stream reaches the layers above intact, and the  *)
(* source, the identity and the HTTP answer are the ones that the client's   *)
(* own bytes call for.                                                       *)
(*****************************************************************************)
EXTENDS FrontDoor, DataLemmas

-------------------------------------------------------------------------------
(* Lists of bytes *)

\* An element of a list of members of S is a member of S.
LEMMA ListElement ==
    ASSUME NEW S, NEW s \in Seq(S), NEW n \in 1..Len(s)
    PROVE  s[n] \in S
  OBVIOUS

\* Lists of one length that agree at every place are the same.
LEMMA ListEqual ==
    ASSUME NEW S, NEW s \in Seq(S), NEW t \in Seq(S),
           Len(s) = Len(t), \A i \in 1..Len(s) : s[i] = t[i]
    PROVE  s = t
  OBVIOUS

\* A list over a set is a list over a larger one.
LEMMA ListWider ==
    ASSUME NEW S, NEW T, NEW s \in Seq(S), S \subseteq T
    PROVE  s \in Seq(T)
  OBVIOUS

\* Two adjacent pieces of a list make one.
LEMMA ListPieces ==
    ASSUME NEW S, NEW s \in Seq(S), NEW m \in 1..(Len(s) + 1),
           NEW k \in (m - 1)..Len(s), NEW n \in k..Len(s)
    PROVE  SubSeq(s, m, k) \o SubSeq(s, k + 1, n) = SubSeq(s, m, n)
  OBVIOUS

\* All of a list is the list.
LEMMA ListWhole ==
    ASSUME NEW S, NEW s \in Seq(S)
    PROVE  SubSeq(s, 1, Len(s)) = s
  OBVIOUS

\* The tail of a list is what follows its first element.
LEMMA ListTail ==
    ASSUME NEW S, NEW s \in Seq(S), s # <<>>
    PROVE  Tail(s) = SubSeq(s, 2, Len(s))
  OBVIOUS

\* A piece that ends before it begins is empty.
LEMMA ListNone ==
    ASSUME NEW s, NEW m \in Int, NEW n \in Int, n < m
    PROVE  SubSeq(s, m, n) = <<>>
  OBVIOUS

-------------------------------------------------------------------------------
(* The trusted proxies *)

\* Pow2 satisfies its recursive definition: a power of two for every number.
LEMMA Pow2Step ==
    /\ Pow2 \in [Nat -> Nat]
    /\ Pow2[0] = 1
    /\ \A n \in Nat : Pow2[n + 1] = 2 * Pow2[n]
<1> DEFINE g == [n \in Nat |-> [x \in Nat |-> 2 * x]]
           D(f) == f = [n \in Nat |-> IF n = 0 THEN 1 ELSE 2 * f[n - 1]]
<1>1. PICK f \in [Nat -> Nat] : Recurs(f, 1, g)
  <2>1. g \in [Nat -> [Nat -> Nat]] /\ 1 \in Nat
    OBVIOUS
  <2> HIDE DEF g
  <2> QED BY <2>1, NatRecursion, Zenon
<1>2. D(f)
  <2>1. ASSUME NEW n \in Nat, n # 0 PROVE f[n] = 2 * f[n - 1]
    <3>1. n - 1 \in Nat /\ (n - 1) + 1 = n
      BY <2>1
    <3>2. f[n] = g[n][f[n - 1]]
      BY <1>1, <3>1, Zenon DEF Recurs
    <3> QED BY <3>1, <3>2
  <2> QED BY <1>1, <2>1 DEF Recurs
<1>3. Pow2 = CHOOSE h : D(h)
  BY DEF Pow2
<1>4. D(Pow2)
  BY <1>2, <1>3
<1>5. \A n \in Nat : Pow2[n] = IF n = 0 THEN 1 ELSE 2 * Pow2[n - 1]
  BY <1>4
<1>6. Pow2[0] = 1 /\ \A n \in Nat : Pow2[n + 1] = 2 * Pow2[n]
  BY <1>5
<1>7. Pow2 \in [Nat -> Nat]
  <2> DEFINE T == {n \in Nat : Pow2[n] \in Nat}
  <2>1. 0 \in T /\ \A n \in Nat : n \in T => n + 1 \in T
    BY <1>6
  <2>2. Nat \subseteq T
    <3> HIDE DEF T
    <3> QED BY <2>1, Induction
  <2> QED BY <1>4, <2>2
<1> QED BY <1>6, <1>7

\* Products and sums of numbers are numbers.
LEMMA Products == \A x, y, z \in Nat : x * y \in Nat /\ x * y + z \in Nat
  OBVIOUS

\* A power of two is never zero, so dividing by it is defined.
LEMMA Pow2Positive == \A n \in Nat : Pow2[n] \in Nat /\ Pow2[n] >= 1
<1> DEFINE T == {n \in Nat : Pow2[n] \in Nat /\ Pow2[n] >= 1}
<1>1. 0 \in T /\ \A n \in Nat : n \in T => n + 1 \in T
  BY Pow2Step
<1>2. Nat \subseteq T
  <2> HIDE DEF T
  <2> QED BY <1>1, Induction
<1> QED BY <1>2

\* Shifting by m + n bits is shifting by m and then by n.
LEMMA Pow2Sum == \A m, n \in Nat : Pow2[m + n] = Pow2[m] * Pow2[n]
<1> SUFFICES ASSUME NEW m \in Nat PROVE \A n \in Nat : Pow2[m + n] = Pow2[m] * Pow2[n]
  OBVIOUS
<1> DEFINE T == {n \in Nat : Pow2[m + n] = Pow2[m] * Pow2[n]}
<1>1. 0 \in T
  <2>1. m + 0 = m /\ Pow2[m] \in Nat /\ Pow2[0] = 1
    BY Pow2Step
  <2> QED BY <2>1
<1>2. ASSUME NEW n \in Nat, n \in T PROVE n + 1 \in T
  <2>1. Pow2[m + n + 1] = 2 * Pow2[m + n] /\ Pow2[n + 1] = 2 * Pow2[n]
    BY Pow2Step
  <2>2. Pow2[m] \in Nat /\ Pow2[n] \in Nat /\ Pow2[m + n] = Pow2[m] * Pow2[n]
    BY <1>2, Pow2Step
  <2>3. m + (n + 1) = m + n + 1
    OBVIOUS
  <2>4. \A x, y \in Nat : 2 * (x * y) = x * (2 * y)
    OBVIOUS
  <2>5. Pow2[m + (n + 1)] = Pow2[m] * Pow2[n + 1]
    BY <2>1, <2>2, <2>3, <2>4
  <2> QED BY <2>5
<1>3. Nat \subseteq T
  <2> HIDE DEF T
  <2> QED BY <1>1, <1>2, Induction
<1> QED BY <1>3

\* N[i] is the number the first i bytes of a make.
Leading(N, a) ==
    /\ N \in [0..Len(a) -> Nat]
    /\ N[0] = 0
    /\ \A i \in 1..Len(a) : N[i] = Pow2[ByteBits] * N[i - 1] + a[i]

\* Number is the last entry of such a sequence, for every byte sequence.
LEMMA NumberIs ==
    ASSUME NEW a \in Seq(Nat)
    PROVE  \E N : Leading(N, a) /\ Number(a) = N[Len(a)]
<1> DEFINE B == Pow2[ByteBits]
           L == Len(a)
           D(N) == N = [i \in 0..L |-> IF i = 0 THEN 0 ELSE B * N[i - 1] + a[i]]
           at == [i \in Nat |-> IF i \in 1..L THEN a[i] ELSE 0]
           g == [i \in Nat |-> [x \in Nat |-> B * x + at[i]]]
<1>1. B \in Nat /\ L \in Nat
  BY Pow2Positive, ProxyAssumption
<1>2. at \in [Nat -> Nat]
  OBVIOUS
<1> HIDE DEF B, L
<1>3. g \in [Nat -> [Nat -> Nat]]
  <2>1. ASSUME NEW i \in Nat, NEW x \in Nat PROVE B * x + at[i] \in Nat
    <3> HIDE DEF at
    <3>1. at[i] \in Nat
      BY <1>2
    <3> QED BY <1>1, <3>1, Products
  <2> HIDE DEF at, B
  <2> QED BY <2>1, Zenon
<1>4. PICK f \in [Nat -> Nat] : Recurs(f, 0, g)
  <2> HIDE DEF g
  <2>1. 0 \in Nat
    OBVIOUS
  <2> QED BY <1>3, <2>1, NatRecursion, Zenon
<1> DEFINE M == [i \in 0..L |-> f[i]]
<1>5. ASSUME NEW i \in 1..L PROVE f[i] = B * f[i - 1] + a[i]
  <2>1. i \in Nat /\ i - 1 \in Nat /\ (i - 1) + 1 = i
    BY <1>1
  <2>2. f[i] = g[i][f[i - 1]]
    BY <1>4, <2>1, Zenon DEF Recurs
  <2>3. f[i - 1] \in Nat /\ at[i] = a[i]
    BY <2>1, Zenon
  <2> HIDE DEF at
  <2> QED BY <2>1, <2>2, <2>3
<1>6. f[0] = 0
  BY <1>4 DEF Recurs
<1>7. D(M)
  BY <1>1, <1>5, <1>6
<1> DEFINE N == CHOOSE x : D(x)
<1>8. D(N)
  <2> HIDE DEF D
  <2> QED BY <1>7
<1>9. Number(a) = N[L]
  BY DEF Number, B, L
<1> HIDE DEF N
<1>10. ASSUME NEW i \in 0..L PROVE N[i] = IF i = 0 THEN 0 ELSE B * N[i - 1] + a[i]
  BY <1>8, Zenon
<1>11. \A i \in 0..L : N[i] \in Nat
  <2> DEFINE T == {i \in Nat : i <= L => N[i] \in Nat}
  <2>1. 0 \in T
    BY <1>1, <1>10
  <2>2. ASSUME NEW i \in Nat, i \in T PROVE i + 1 \in T
    <3>1. SUFFICES ASSUME i + 1 <= L PROVE N[i + 1] \in Nat
      OBVIOUS
    <3>2. i + 1 \in 0..L /\ i + 1 # 0 /\ (i + 1) - 1 = i /\ N[i] \in Nat
      BY <1>1, <2>2, <3>1
    <3>3. a[i + 1] \in Nat
      <4>1. i + 1 \in 1..Len(a)
        BY <3>1 DEF L
      <4> QED BY <4>1, ListElement, Zenon
    <3>4. N[i + 1] = B * N[i] + a[i + 1]
      BY <1>10, <3>2
    <3> QED BY <1>1, <3>2, <3>3, <3>4, Products, Zenon
  <2>3. Nat \subseteq T
    <3> HIDE DEF T
    <3> QED BY <2>1, <2>2, Induction, Zenon
  <2> QED BY <1>1, <2>3
<1>12. N \in [0..L -> Nat]
  BY <1>8, <1>11, Zenon
<1>13. Leading(N, a)
  <2>1. N[0] = 0
    BY <1>1, <1>10
  <2>2. \A i \in 1..L : N[i] = B * N[i - 1] + a[i]
    BY <1>1, <1>10
  <2> QED BY <1>12, <2>1, <2>2 DEF Leading, B, L
<1> QED BY <1>9, <1>13 DEF L

\* A quotient with a remainder below the divisor is the quotient.
LEMMA DivUnique ==
    ASSUME NEW d \in Nat \ {0}, NEW q \in Nat, NEW r \in 0..(d - 1)
    PROVE  (q * d + r) \div d = q
  OBVIOUS

\* A number is its quotient times the divisor plus a remainder.
LEMMA DivRest ==
    ASSUME NEW d \in Nat \ {0}, NEW n \in Nat
    PROVE  n \div d \in Nat /\ \E r \in 0..(d - 1) : n = (n \div d) * d + r
  OBVIOUS

\* Dropping the last byte: a factor common to both is divided out.
LEMMA DivBoth ==
    ASSUME NEW B \in Nat \ {0}, NEW x \in Nat \ {0}, NEW n \in Nat, NEW d \in 0..(B - 1)
    PROVE  (B * n + d) \div (B * x) = n \div x
<1>1. PICK q \in Nat, r \in 0..(x - 1) : q = n \div x /\ n = q * x + r
  BY DivRest
<1>2. B * n + d = q * (B * x) + (B * r + d)
  <2>1. B * (q * x + r) = q * (B * x) + B * r
    OBVIOUS
  <2>2. B * n = q * (B * x) + B * r
    BY <1>1, <2>1, Zenon
  <2> QED BY <2>2
<1>3. B * r + d \in 0..(B * x - 1) /\ B * x \in Nat \ {0}
  <2>1. B * r <= B * (x - 1)
    BY <1>1
  <2> QED BY <2>1
<1>4. (q * (B * x) + (B * r + d)) \div (B * x) = q
  BY <1>3, DivUnique, Zenon
<1> QED BY <1>1, <1>2, <1>4

\* A number determines its high part and its low digit.
LEMMA PairUnique ==
    ASSUME NEW B \in Nat \ {0}, NEW m \in Nat, NEW n \in Nat,
           NEW c \in 0..(B - 1), NEW d \in 0..(B - 1)
    PROVE  B * m + c = B * n + d <=> m = n /\ c = d
<1>1. (m * B + c) \div B = m /\ (n * B + d) \div B = n
  BY DivUnique
<1>2. m * B = B * m /\ n * B = B * n
  OBVIOUS
<1> QED BY <1>1, <1>2

\* The number of i bytes from that of i - 1 and byte i.
LEMMA LeadingStep ==
    ASSUME NEW a \in Seq(Byte), NEW N, Leading(N, a), NEW i \in 1..Len(a)
    PROVE  /\ Pow2[ByteBits] \in Nat \ {0}
           /\ N[i - 1] \in Nat /\ N[i] \in Nat
           /\ a[i] \in 0..(Pow2[ByteBits] - 1)
           /\ N[i] = Pow2[ByteBits] * N[i - 1] + a[i]
<1>1. Pow2[ByteBits] \in Nat \ {0}
  BY Pow2Positive, ProxyAssumption
<1>2. a[i] \in Byte
  BY ListElement
<1>3. N \in [0..Len(a) -> Nat] /\ N[i] = Pow2[ByteBits] * N[i - 1] + a[i]
  BY DEF Leading
<1>4. i \in 0..Len(a) /\ i - 1 \in 0..Len(a)
  OBVIOUS
<1> QED BY <1>1, <1>2, <1>3, <1>4, Zenon DEF Byte

\* Shifting an address right by j whole bytes leaves the number of its
\* leading bytes.
LEMMA DivDown ==
    ASSUME NEW a \in Seq(Byte), NEW N, Leading(N, a), NEW L, Len(a) = L
    PROVE  \A j \in 0..L : \A x \in Nat \ {0} :
              N[L] \div (Pow2[ByteBits * j] * x) = N[L - j] \div x
<1> DEFINE B == Pow2[ByteBits]
           P(j) == \A x \in Nat \ {0} : N[L] \div (Pow2[ByteBits * j] * x) = N[L - j] \div x
           T == {j \in Nat : j <= L => P(j)}
<1>1. L \in Nat /\ ByteBits \in Nat /\ B \in Nat \ {0}
  BY Pow2Positive, ProxyAssumption
<1>2. 0 \in T
  <2>1. ByteBits * 0 = 0 /\ Pow2[0] = 1 /\ L - 0 = L
    BY <1>1, Pow2Step
  <2>2. \A x \in Nat \ {0} : Pow2[ByteBits * 0] * x = x
    BY <2>1
  <2> QED BY <2>1, <2>2
<1>3. ASSUME NEW j \in Nat, j \in T PROVE j + 1 \in T
  <2> SUFFICES ASSUME j + 1 <= L, NEW x \in Nat \ {0}
               PROVE  N[L] \div (Pow2[ByteBits * (j + 1)] * x) = N[L - (j + 1)] \div x
    OBVIOUS
  <2>1. P(j)
    BY <1>1, <1>3
  <2>2. B * x \in Nat \ {0}
    BY <1>1
  <2>3. ByteBits * j \in Nat /\ ByteBits * (j + 1) = ByteBits * j + ByteBits
    BY <1>1
  <2>4. Pow2[ByteBits * (j + 1)] = Pow2[ByteBits * j] * B
    BY <1>1, <2>3, Pow2Sum
  <2>5. Pow2[ByteBits * j] \in Nat
    BY <2>3, Pow2Positive
  <2>6. Pow2[ByteBits * (j + 1)] * x = Pow2[ByteBits * j] * (B * x)
    <3>1. \A p, b, y \in Nat : (p * b) * y = p * (b * y)
      OBVIOUS
    <3> QED BY <1>1, <2>4, <2>5, <3>1
  <2>7. N[L] \div (Pow2[ByteBits * j] * (B * x)) = N[L - j] \div (B * x)
    BY <2>1, <2>2
  <2>8. L - j \in 1..Len(a) /\ (L - j) - 1 = L - (j + 1)
    BY <1>1
  <2>9. /\ N[L - (j + 1)] \in Nat /\ a[L - j] \in 0..(B - 1)
        /\ N[L - j] = B * N[L - (j + 1)] + a[L - j]
    BY <2>8, LeadingStep, Zenon
  <2>10. N[L - j] \div (B * x) = N[L - (j + 1)] \div x
    <3> HIDE DEF B
    <3>1. (B * N[L - (j + 1)] + a[L - j]) \div (B * x) = N[L - (j + 1)] \div x
      BY <1>1, <2>9, DivBoth, Zenon
    <3> QED BY <2>9, <3>1
  <2> QED BY <2>6, <2>7, <2>10
<1>4. Nat \subseteq T
  <2> HIDE DEF T
  <2> QED BY <1>2, <1>3, Induction
<1> QED BY <1>1, <1>4

\* Two addresses have the same leading k bytes exactly when the numbers of
\* those bytes are the same.
LEMMA LeadingEqual ==
    ASSUME NEW a \in Seq(Byte), NEW b \in Seq(Byte), Len(a) = Len(b),
           NEW M, NEW N, Leading(M, a), Leading(N, b)
    PROVE  \A k \in 0..Len(a) : M[k] = N[k] <=> \A i \in 1..k : a[i] = b[i]
<1> DEFINE P(k) == M[k] = N[k] <=> \A i \in 1..k : a[i] = b[i]
           T == {k \in Nat : k <= Len(a) => P(k)}
<1>1. 0 \in T
  BY DEF Leading
<1>2. ASSUME NEW k \in Nat, k \in T PROVE k + 1 \in T
  <2>1. SUFFICES ASSUME k + 1 <= Len(a) PROVE P(k + 1)
    OBVIOUS
  <2>2. P(k)
    BY <1>2, <2>1
  <2>3. k + 1 \in 1..Len(a) /\ k + 1 \in 1..Len(b) /\ (k + 1) - 1 = k
    BY <2>1
  <2> DEFINE B == Pow2[ByteBits]
  <2>4. /\ B \in Nat \ {0} /\ M[k] \in Nat /\ a[k + 1] \in 0..(B - 1)
        /\ M[k + 1] = B * M[k] + a[k + 1]
    BY <2>3, LeadingStep
  <2>5. /\ N[k] \in Nat /\ b[k + 1] \in 0..(B - 1)
        /\ N[k + 1] = B * N[k] + b[k + 1]
    BY <2>3, LeadingStep
  <2> HIDE DEF B
  <2>6. M[k + 1] = N[k + 1] <=> M[k] = N[k] /\ a[k + 1] = b[k + 1]
    <3>1. B * M[k] + a[k + 1] = B * N[k] + b[k + 1] <=> M[k] = N[k] /\ a[k + 1] = b[k + 1]
      <4>1. PICK m \in Nat, n \in Nat, c \in 0..(B - 1), d \in 0..(B - 1) :
              m = M[k] /\ n = N[k] /\ c = a[k + 1] /\ d = b[k + 1]
        BY <2>4, <2>5, Zenon
      <4>2. B \in Nat \ {0}
        BY <2>4
      <4>3. B * m + c = B * n + d <=> m = n /\ c = d
        BY <4>2, PairUnique
      <4> QED BY <4>1, <4>3
    <3> QED BY <2>4, <2>5, <3>1
  <2>7. (\A i \in 1..(k + 1) : a[i] = b[i]) <=> (\A i \in 1..k : a[i] = b[i]) /\ a[k + 1] = b[k + 1]
    OBVIOUS
  <2> QED BY <2>2, <2>6, <2>7
<1>3. Nat \subseteq T
  <2> HIDE DEF T
  <2> QED BY <1>1, <1>2, Induction
<1> QED BY <1>3

\* Shifting a byte string right by s < ByteBits bits keeps the high bits of
\* its last byte and everything before it.
LEMMA HighBits ==
    ASSUME NEW r \in 0..ByteBits, NEW m \in Nat, NEW d \in Byte
    PROVE  LET s == ByteBits - r IN
           /\ (Pow2[ByteBits] * m + d) \div Pow2[s] = Pow2[r] * m + (d \div Pow2[s])
           /\ d \div Pow2[s] \in 0..(Pow2[r] - 1)
           /\ Pow2[r] \in Nat \ {0}
<1> DEFINE s == ByteBits - r
           S == Pow2[s]
           R == Pow2[r]
<1>1. s \in Nat /\ r \in Nat /\ r + s = ByteBits
  BY ProxyAssumption
<1>2. S \in Nat \ {0} /\ R \in Nat \ {0}
  BY <1>1, Pow2Positive
<1>3. Pow2[ByteBits] = R * S
  BY <1>1, Pow2Sum, Zenon
<1>4. d \in Nat /\ d < R * S
  BY <1>2, <1>3 DEF Byte
<1> HIDE DEF S, R
<1>5. PICK q \in Nat, t \in 0..(S - 1) : q = d \div S /\ d = q * S + t
  BY <1>2, <1>4, DivRest
<1>6. q < R
  <2> SUFFICES ASSUME q >= R PROVE FALSE
    BY <1>2
  <2>1. q * S >= R * S
    BY <1>2
  <2> QED BY <1>2, <1>4, <1>5, <2>1
<1>7. (R * S) * m + d = (R * m + q) * S + t
  BY <1>2, <1>5
<1>8. R * m + q \in Nat
  BY <1>2, Products
<1>9. ((R * S) * m + d) \div S = R * m + q
  BY <1>2, <1>7, <1>8, DivUnique
<1> QED BY <1>2, <1>3, <1>5, <1>6, <1>9 DEF S, R

\* Equal slices are equal byte by byte, as prefix_matches compares them.
LEMMA SamePrefix ==
    ASSUME NEW a \in Seq(Nat), NEW b \in Seq(Nat), NEW w \in 0..Len(a), w <= Len(b)
    PROVE  SubSeq(a, 1, w) = SubSeq(b, 1, w) <=> \A i \in 1..w : a[i] = b[i]
<1>1. /\ SubSeq(a, 1, w) \in Seq(Nat) /\ Len(SubSeq(a, 1, w)) = w
      /\ \A i \in 1..w : SubSeq(a, 1, w)[i] = a[i]
  OBVIOUS
<1>2. /\ SubSeq(b, 1, w) \in Seq(Nat) /\ Len(SubSeq(b, 1, w)) = w
      /\ \A i \in 1..w : SubSeq(b, 1, w)[i] = b[i]
  OBVIOUS
<1> QED BY <1>1, <1>2, ListEqual, Zenon

\* prefix_matches, whole bytes first and then the high bits of the next, says
\* that the two addresses agree on their leading prefix_len bits, whatever
\* the prefix length, the byte width and the address length.
LEMMA PrefixBits ==
    ASSUME NEW a \in Seq(Byte), NEW b \in Seq(Byte), NEW W \in Nat \ {0},
           Len(a) = W, Len(b) = W, NEW p \in Nat, p <= ByteBits * W
    PROVE  LET low == Pow2[ByteBits * W - p] IN
           PrefixMatches(a, b, p) <=> Number(a) \div low = Number(b) \div low
<1> DEFINE w == p \div ByteBits
           r == p % ByteBits
           low == Pow2[ByteBits * W - p]
<1>0. ByteBits \in Nat \ {0} /\ Byte \subseteq Nat
  BY Pow2Positive, ProxyAssumption DEF Byte
<1>1. w \in Nat /\ r \in 0..(ByteBits - 1) /\ p = ByteBits * w + r
  BY <1>0
<1>2. a \in Seq(Nat) /\ b \in Seq(Nat)
  BY <1>0, ListWider, Zenon
<1>3. PICK M : Leading(M, a) /\ Number(a) = M[W]
  BY <1>2, NumberIs
<1>4. PICK N : Leading(N, b) /\ Number(b) = N[W]
  BY <1>2, NumberIs
<1>5. w \in 0..W /\ (r # 0 => w + 1 \in 1..W)
  <2> HIDE DEF w, r
  <2>1. ASSUME w >= W, w # W \/ r # 0 PROVE FALSE
    <3>1. CASE w = W
      <4>1. ByteBits * w = ByteBits * W /\ ByteBits * W \in Nat
        BY <1>0, <3>1, Products
      <4> QED BY <1>1, <2>1, <3>1, <4>1
    <3>2. CASE w >= W + 1
      <4>1. ByteBits * w >= ByteBits * (W + 1)
        BY <1>0, <1>1, <3>2
      <4>2. ByteBits * (W + 1) = ByteBits * W + ByteBits
        BY <1>0
      <4> QED BY <1>0, <1>1, <4>1, <4>2
    <3> QED BY <1>1, <2>1, <3>1, <3>2
  <2> QED BY <1>1, <2>1
<1>10. ASSUME NEW j \in 0..W, NEW x \in Nat \ {0}
       PROVE  /\ M[W] \div (Pow2[ByteBits * j] * x) = M[W - j] \div x
              /\ N[W] \div (Pow2[ByteBits * j] * x) = N[W - j] \div x
  <2>1. M[W] \div (Pow2[ByteBits * j] * x) = M[W - j] \div x
    BY <1>3, DivDown
  <2>2. N[W] \div (Pow2[ByteBits * j] * x) = N[W - j] \div x
    BY <1>4, DivDown
  <2> QED BY <2>1, <2>2
<1>6. PrefixMatches(a, b, p) <=>
        /\ \A i \in 1..w : a[i] = b[i]
        /\ \/ r = 0
           \/ a[w + 1] \div Pow2[ByteBits - r] = b[w + 1] \div Pow2[ByteBits - r]
  <2>1. SubSeq(a, 1, w) = SubSeq(b, 1, w) <=> \A i \in 1..w : a[i] = b[i]
    <3> HIDE DEF w
    <3> QED BY <1>2, <1>5, SamePrefix
  <2> QED BY <2>1, Zenon DEF PrefixMatches
<1> HIDE DEF w, r
<1>7. M[w] = N[w] <=> \A i \in 1..w : a[i] = b[i]
  BY <1>3, <1>4, <1>5, LeadingEqual
<1>8. CASE r = 0
  <2>1. W - w \in 0..W /\ W - (W - w) = w /\ ByteBits * W - p = ByteBits * (W - w)
    BY <1>0, <1>1, <1>5, <1>8
  <2>2. /\ M[W] \div (Pow2[ByteBits * (W - w)] * 1) = M[w] \div 1
        /\ N[W] \div (Pow2[ByteBits * (W - w)] * 1) = N[w] \div 1
    <3>1. /\ M[W] \div (Pow2[ByteBits * (W - w)] * 1) = M[W - (W - w)] \div 1
          /\ N[W] \div (Pow2[ByteBits * (W - w)] * 1) = N[W - (W - w)] \div 1
      <4>1. 1 \in Nat \ {0}
        OBVIOUS
      <4> QED BY <1>10, <2>1, <4>1, Zenon
    <3> QED BY <2>1, <3>1
  <2>3. M[w] \in Nat /\ N[w] \in Nat
    BY <1>3, <1>4, <1>5 DEF Leading
  <2>4. low \in Nat /\ low = Pow2[ByteBits * (W - w)]
    <3>1. ByteBits * (W - w) \in Nat
      BY <1>0, <2>1, Products
    <3> QED BY <2>1, <3>1, Pow2Positive
  <2>5. M[W] \div low = M[w] /\ N[W] \div low = N[w]
    <3> HIDE DEF low
    <3>1. low * 1 = low /\ M[w] \div 1 = M[w] /\ N[w] \div 1 = N[w]
      BY <2>3, <2>4
    <3> QED BY <2>2, <2>4, <3>1
  <2>6. PrefixMatches(a, b, p) <=> M[w] = N[w]
    BY <1>6, <1>7, <1>8
  <2> QED BY <1>3, <1>4, <2>5, <2>6
<1>9. CASE r # 0
  <2> DEFINE k == w + 1
             s == ByteBits - r
             S == Pow2[s]
             R == Pow2[r]
  <2>1. k \in 1..W /\ s \in Nat /\ r \in 0..ByteBits /\ W - k \in 0..W /\ W - (W - k) = k
    BY <1>0, <1>1, <1>5, <1>9
  <2>2. S \in Nat \ {0}
    BY <2>1, Pow2Positive
  <2>3. low = Pow2[ByteBits * (W - k)] * S
    <3>1. ByteBits * W - p = ByteBits * (W - k) + s
      BY <1>0, <1>1
    <3>2. ByteBits * (W - k) \in Nat
      BY <1>0, <2>1, Products
    <3> QED BY <2>1, <3>1, <3>2, Pow2Sum, Zenon
  <2>4. /\ M[W] \div low = M[k] \div S
        /\ N[W] \div low = N[k] \div S
    <3> HIDE DEF low, S, k
    <3>1. /\ M[W] \div (Pow2[ByteBits * (W - k)] * S) = M[W - (W - k)] \div S
          /\ N[W] \div (Pow2[ByteBits * (W - k)] * S) = N[W - (W - k)] \div S
      BY <1>10, <2>1, <2>2, Zenon
    <3> QED BY <2>1, <2>3, <3>1
  <2> DEFINE B == Pow2[ByteBits]
  <2>5. /\ M[w] \in Nat /\ a[k] \in Byte /\ M[k] = B * M[w] + a[k]
        /\ N[w] \in Nat /\ b[k] \in Byte /\ N[k] = B * N[w] + b[k]
    <3>1. k - 1 = w /\ k \in 1..Len(a) /\ k \in 1..Len(b)
      BY <1>1, <2>1
    <3> HIDE DEF k, B
    <3>2. M[k - 1] \in Nat /\ a[k] \in 0..(B - 1) /\ M[k] = B * M[k - 1] + a[k]
      BY <1>3, <3>1, LeadingStep, Zenon DEF B
    <3>3. N[k - 1] \in Nat /\ b[k] \in 0..(B - 1) /\ N[k] = B * N[k - 1] + b[k]
      BY <1>4, <3>1, LeadingStep, Zenon DEF B
    <3> QED BY <3>1, <3>2, <3>3, Zenon DEF Byte, B
  <2>6. /\ (B * M[w] + a[k]) \div S = R * M[w] + (a[k] \div S)
        /\ (B * N[w] + b[k]) \div S = R * N[w] + (b[k] \div S)
        /\ a[k] \div S \in 0..(R - 1) /\ b[k] \div S \in 0..(R - 1) /\ R \in Nat \ {0}
    <3> HIDE DEF k
    <3> QED BY <2>1, <2>5, HighBits, Zenon
  <2> HIDE DEF low, S, R, B, k
  <2>7. R * M[w] + (a[k] \div S) = R * N[w] + (b[k] \div S)
            <=> M[w] = N[w] /\ a[k] \div S = b[k] \div S
    <3>1. PICK m \in Nat, n \in Nat, c \in 0..(R - 1), d \in 0..(R - 1) :
            m = M[w] /\ n = N[w] /\ c = a[k] \div S /\ d = b[k] \div S
      BY <2>5, <2>6, Zenon
    <3>2. R * m + c = R * n + d <=> m = n /\ c = d
      BY <2>6, PairUnique
    <3> QED BY <3>1, <3>2
  <2>8. M[W] \div low = N[W] \div low <=> M[w] = N[w] /\ a[k] \div S = b[k] \div S
    BY <2>4, <2>5, <2>6, <2>7
  <2>9. PrefixMatches(a, b, p) <=> M[w] = N[w] /\ a[k] \div S = b[k] \div S
    BY <1>6, <1>7, <1>9 DEF k, S
  <2> QED BY <1>3, <1>4, <2>8, <2>9 DEF low
<1> QED BY <1>8, <1>9

\* to_canonical of an address is an address.
LEMMA CanonicalIp ==
    ASSUME NEW ip, IsIp(ip)
    PROVE  IsIp(Canonical(ip))
<1>1. CASE ip.fam = 6 /\ SubSeq(ip.bytes, 1, Len(MappedPrefix)) = MappedPrefix
  <2> DEFINE m == Len(MappedPrefix)
             t == SubSeq(ip.bytes, m + 1, Width[6])
  <2>1. m \in Nat /\ Width[4] \in Nat /\ Width[6] = m + Width[4]
    BY ProxyAssumption
  <2>2. ip.bytes \in Seq(Byte) /\ Len(ip.bytes) = Width[6]
    BY <1>1 DEF IsIp
  <2> HIDE DEF m
  <2>3. t \in Seq(Byte) /\ Len(t) = Width[4]
    BY <2>1, <2>2
  <2>4. Canonical(ip) = [fam |-> 4, bytes |-> t]
    BY <1>1 DEF Canonical, Ip, m
  <2> HIDE DEF t
  <2> QED BY <2>3, <2>4 DEF IsIp
<1>2. CASE ~(ip.fam = 6 /\ SubSeq(ip.bytes, 1, Len(MappedPrefix)) = MappedPrefix)
  BY <1>2 DEF Canonical
<1> QED BY <1>1, <1>2

\* A parsed entry of the trusted list: an address and a prefix within it.
IsCidr(c) == IsIp(c.base) /\ c.prefix_len \in Nat /\ c.prefix_len <= BitsOf(c.base)

\* Cidr::contains accepts an address exactly when its canonical form has the
\* family of the block and the same leading prefix_len bits: no off-by-one at
\* a byte boundary, for any prefix length from 0 to the full width.
THEOREM TrustByBits ==
    ASSUME NEW c, IsCidr(c), NEW ip, IsIp(ip)
    PROVE  CidrContains(c, ip) <=> AgreesOnBits(c, ip)
<1> DEFINE d == Canonical(ip)
           W == Width[c.base.fam]
<1>1. IsIp(d) /\ IsIp(c.base) /\ c.prefix_len \in Nat /\ c.prefix_len <= ByteBits * W
  BY CanonicalIp DEF IsCidr, BitsOf
<1>2. CASE c.base.fam # d.fam
  BY <1>2 DEF CidrContains, AgreesOnBits
<1>3. CASE c.base.fam = d.fam
  <2> DEFINE low == Pow2[ByteBits * W - c.prefix_len]
  <2>1. W \in Nat \ {0}
    <3>1. c.base.fam \in {4, 6}
      BY <1>1 DEF IsIp
    <3> QED BY <3>1, ProxyAssumption
  <2>2. /\ c.base.bytes \in Seq(Byte) /\ Len(c.base.bytes) = W
        /\ d.bytes \in Seq(Byte) /\ Len(d.bytes) = W
    BY <1>1, <1>3 DEF IsIp
  <2> HIDE DEF d, W
  <2>3. PrefixMatches(c.base.bytes, d.bytes, c.prefix_len) <=>
          Number(c.base.bytes) \div low = Number(d.bytes) \div low
    BY <1>1, <2>1, <2>2, PrefixBits, Zenon
  <2>4. CidrContains(c, ip) <=> PrefixMatches(c.base.bytes, d.bytes, c.prefix_len)
    BY <1>3 DEF CidrContains, d
  <2>5. AgreesOnBits(c, ip) <=> Number(c.base.bytes) \div low = Number(d.bytes) \div low
    BY <1>3 DEF AgreesOnBits, BitsOf, d, W
  <2> QED BY <2>3, <2>4, <2>5
<1> QED BY <1>2, <1>3

-------------------------------------------------------------------------------
(* Byte streams *)

\* Cutting a byte stream and gluing it again gives the stream.
LEMMA Split ==
    ASSUME NEW s \in Seq(Nat), NEW n \in 0..Len(s)
    PROVE  /\ SubSeq(s, 1, n) \in Seq(Nat) /\ Len(SubSeq(s, 1, n)) = n
           /\ SubSeq(s, n + 1, Len(s)) \in Seq(Nat) /\ Len(SubSeq(s, n + 1, Len(s))) = Len(s) - n
           /\ SubSeq(s, 1, n) \o SubSeq(s, n + 1, Len(s)) = s
<1>1. SubSeq(s, 1, n) \in Seq(Nat) /\ Len(SubSeq(s, 1, n)) = n
  OBVIOUS
<1>2. SubSeq(s, n + 1, Len(s)) \in Seq(Nat) /\ Len(SubSeq(s, n + 1, Len(s))) = Len(s) - n
  OBVIOUS
<1>3. SubSeq(s, 1, n) \o SubSeq(s, n + 1, Len(s)) = SubSeq(s, 1, Len(s))
  <2>1. 1 \in 1..(Len(s) + 1) /\ n \in (1 - 1)..Len(s) /\ Len(s) \in n..Len(s)
    OBVIOUS
  <2> QED BY <2>1, ListPieces, Zenon
<1>4. SubSeq(s, 1, Len(s)) = s
  BY ListWhole
<1> QED BY <1>1, <1>2, <1>3, <1>4, Zenon

\* A piece cut from the unread rest is the next piece of the whole.
LEMMA SplitTwice ==
    ASSUME NEW s \in Seq(Nat), NEW m \in Nat, NEW n \in Nat, m + n <= Len(s)
    PROVE  LET t == SubSeq(s, m + 1, Len(s)) IN
           /\ SubSeq(t, 1, n) = SubSeq(s, m + 1, m + n)
           /\ SubSeq(s, 1, m) \o SubSeq(t, 1, n) = SubSeq(s, 1, m + n)
           /\ t = SubSeq(t, 1, n) \o SubSeq(s, m + n + 1, Len(s))
<1> DEFINE t == SubSeq(s, m + 1, Len(s))
<1>1. t \in Seq(Nat) /\ Len(t) = Len(s) - m
  OBVIOUS
<1>2. SubSeq(t, 1, n) = SubSeq(s, m + 1, m + n)
  BY <1>1
<1>3. SubSeq(t, n + 1, Len(t)) = SubSeq(s, m + n + 1, Len(s))
  BY <1>1
<1>4. SubSeq(s, 1, m) \o SubSeq(s, m + 1, m + n) = SubSeq(s, 1, m + n)
  OBVIOUS
<1> HIDE DEF t
<1>5. t = SubSeq(t, 1, n) \o SubSeq(t, n + 1, Len(t))
  <2>1. n \in 0..Len(t)
    BY <1>1
  <2> QED BY <1>1, <2>1, Split, Zenon
<1> QED BY <1>2, <1>3, <1>4, <1>5, Zenon DEF t

\* Slices of a slice are slices of the whole.
LEMMA PrefixOfPrefix ==
    ASSUME NEW s \in Seq(Nat), NEW n \in 0..Len(s), NEW m \in 0..n
    PROVE  /\ SubSeq(SubSeq(s, 1, n), 1, m) = SubSeq(s, 1, m)
           /\ SubSeq(SubSeq(s, 1, n), m + 1, n) = SubSeq(s, m + 1, n)
           /\ SubSeq(s, m + 1, n) \in Seq(Nat) /\ Len(SubSeq(s, m + 1, n)) = n - m
<1>1. SubSeq(s, 1, n) \in Seq(Nat) /\ Len(SubSeq(s, 1, n)) = n
  BY Split
<1>2. SubSeq(SubSeq(s, 1, n), 1, m) = SubSeq(s, 1, m)
  BY <1>1
<1>3. SubSeq(SubSeq(s, 1, n), m + 1, n) = SubSeq(s, m + 1, n)
  BY <1>1
<1>4. SubSeq(s, m + 1, n) \in Seq(Nat) /\ Len(SubSeq(s, m + 1, n)) = n - m
  OBVIOUS
<1> QED BY <1>2, <1>3, <1>4

\* Gluing is associative.
LEMMA Assoc ==
    ASSUME NEW s \in Seq(Nat), NEW t \in Seq(Nat), NEW u \in Seq(Nat)
    PROVE  s \o (t \o u) = (s \o t) \o u
  OBVIOUS

\* Two byte sequences glued are a byte sequence.
LEMMA GluedType ==
    ASSUME NEW s \in Seq(Nat), NEW t \in Seq(Nat)
    PROVE  s \o t \in Seq(Nat) /\ Len(s \o t) = Len(s) + Len(t)
  OBVIOUS

\* What gluing keeps: the parts, their order, the first byte.
LEMMA Glued ==
    ASSUME NEW s \in Seq(Nat), NEW t \in Seq(Nat)
    PROVE  /\ s \o t \in Seq(Nat) /\ Len(s \o t) = Len(s) + Len(t)
           /\ SubSeq(s \o t, 1, Len(s)) = s
           /\ SubSeq(s \o t, Len(s) + 1, Len(s \o t)) = t
           /\ s \o <<>> = s /\ <<>> \o s = s
           /\ s # <<>> => /\ Tail(s \o t) = Tail(s) \o t /\ (s \o t)[1] = s[1]
                          /\ Tail(s) \in Seq(Nat)
  OBVIOUS

\* A stream with a prefix to replay, at a position within it.
IsStream(s) == s \in [prefix : Seq(Nat), pos : Nat] /\ s.pos <= Len(s.prefix)

\* The types of the connection's state; the trusted list holds parsed entries.
TypeOK ==
    /\ tls \in BOOLEAN
    /\ \A c \in trusted : IsCidr(c)
    /\ port \in {"wire", "plain"}
    /\ client \in Clients
    /\ gone \in BOOLEAN
    /\ taken \in 0..Len(Socket)
    /\ pc \in {"listening", "proxy_fixed", "proxy_block", "tls", "admission", "head",
               "handshake", "relay", "closed"}
    /\ buf \in Seq(Nat)
    /\ IsStream(proxied) /\ IsStream(peeked)
    /\ upper \in Seq(Nat) /\ replayed \in Seq(Nat)

\* The parts of what a client sends are byte sequences.
LEMMA ClientParts ==
    ASSUME client \in Clients
    PROVE  /\ client.header.sig \in BOOLEAN /\ client.header.ver \in 0..15
           /\ client.header.cmd \in 0..15 /\ client.header.family \in Nat
           /\ client.header.len \in Nat /\ client.header.block \in Seq(Nat)
           /\ client.header.len = Len(client.header.block)
           /\ client.hello \in Seq(Nat) /\ client.head \in Seq(Nat)
           /\ client.body \in Seq(Nat)
           /\ HeaderBytes(client.header) \in Seq(Nat)
           /\ Socket \in Seq(Nat)
<1>1. IsClient(client)
  BY FrontAssumption
<1>2. client.header \in [sig : BOOLEAN, ver : 0..15, cmd : 0..15, family : Nat, len : Nat,
                        block : Seq(Nat)]
  BY <1>1 DEF IsClient
<1>3. client.header.len = Len(client.header.block) /\ client.head \in Seq(Nat)
      /\ client.body \in Seq(Nat)
  BY <1>1 DEF IsClient
<1>4. client.hello \in Seq(Nat)
  <2>1. client.hello = <<>> \/ \E t \in DOMAIN Handshake : client.hello = <<t>>
    BY <1>1 DEF IsClient
  <2>2. \A t \in DOMAIN Handshake : t \in Nat
    BY FrontAssumption
  <2>3. \A t \in DOMAIN Handshake : <<t>> \in Seq(Nat)
    BY <2>2
  <2>4. <<>> \in Seq(Nat)
    OBVIOUS
  <2> QED BY <2>1, <2>3, <2>4, Zenon
<1>5. HeaderBytes(client.header) \in Seq(Nat)
  <2> DEFINE h == client.header
             mid == <<16 * h.ver + h.cmd, h.family, h.len>>
  <2>1. mid \in Seq(Nat)
    <3>1. h.ver \in 0..15 /\ h.cmd \in 0..15 /\ h.family \in Nat /\ h.len \in Nat
      BY <1>2
    <3>2. 16 * h.ver + h.cmd \in Nat
      BY <3>1
    <3> QED BY <3>1, <3>2
  <2>2. h.block \in Seq(Nat) /\ Signature \in Seq(Nat)
    BY <1>2, ProxyAssumption
  <2> HIDE DEF mid
  <2>3. Signature \o mid \o h.block \in Seq(Nat)
    BY <2>1, <2>2
  <2> QED BY <2>3 DEF HeaderBytes, mid
<1>6. Socket \in Seq(Nat)
  BY <1>3, <1>4, <1>5 DEF Socket
<1> QED BY <1>2, <1>3, <1>4, <1>5, <1>6

\* A read off the socket returns the next bytes and leaves the rest.
LEMMA PieceFacts ==
    ASSUME client \in Clients, taken \in 0..Len(Socket), NEW lacking \in Nat,
           NEW piece \in Piece(lacking)
    PROVE  /\ piece \in Seq(Nat) /\ Len(piece) >= 1 /\ Len(piece) <= lacking
           /\ taken + Len(piece) <= Len(Socket)
           /\ piece = SubSeq(Socket, taken + 1, taken + Len(piece))
           /\ SubSeq(Socket, 1, taken) \o piece = SubSeq(Socket, 1, taken + Len(piece))
           /\ Unread = piece \o SubSeq(Socket, taken + Len(piece) + 1, Len(Socket))
<1> DEFINE s == Socket
           t == SubSeq(s, taken + 1, Len(s))
<1>1. s \in Seq(Nat) /\ taken \in Nat /\ Len(s) \in Nat
  BY ClientParts
<1>2. t \in Seq(Nat) /\ Len(t) = Len(s) - taken
  BY <1>1, Split
<1>3. PICK n \in 1..Min2(Readable, Min2(lacking, MaxChunk)) : piece = SubSeq(t, 1, n)
  BY Zenon DEF Piece, Unread
<1>4. n >= 1 /\ n <= lacking /\ n <= Len(t)
  <2>1. Readable = 0 \/ Readable = Len(t)
    BY DEF Readable, Unread
  <2> QED BY <1>2, <2>1, FrontAssumption DEF Min2
<1>5. taken + n <= Len(s) /\ n \in Nat
  BY <1>1, <1>2, <1>4
<1> HIDE DEF s
<1>6. piece \in Seq(Nat) /\ Len(piece) = n
  BY <1>2, <1>3, <1>4, Split
<1>7. /\ piece = SubSeq(s, taken + 1, taken + n)
      /\ SubSeq(s, 1, taken) \o piece = SubSeq(s, 1, taken + n)
      /\ t = piece \o SubSeq(s, taken + n + 1, Len(s))
  <2>1. /\ SubSeq(t, 1, n) = SubSeq(s, taken + 1, taken + n)
        /\ SubSeq(s, 1, taken) \o SubSeq(t, 1, n) = SubSeq(s, 1, taken + n)
        /\ t = SubSeq(t, 1, n) \o SubSeq(s, taken + n + 1, Len(s))
    BY <1>1, <1>5, SplitTwice, Zenon
  <2> QED BY <1>3, <2>1, Zenon
<1> QED BY <1>4, <1>5, <1>6, <1>7 DEF s, Unread

\* poll_read of a pending prefix returns its next bytes and advances past
\* exactly them.
LEMMA PrefixFacts ==
    ASSUME NEW s, IsStream(s), Pending(s) # <<>>, NEW n \in Nat \ {0},
           NEW b, b = FromPrefix(s, n)
    PROVE  /\ b \in Seq(Nat) /\ Len(b) >= 1 /\ Len(b) <= n
           /\ IsStream(Advance(s, b))
           /\ Pending(s) = b \o Pending(Advance(s, b))
<1> DEFINE p == s.prefix
           t == SubSeq(p, s.pos + 1, Len(p))
<1>1. p \in Seq(Nat) /\ s.pos \in Nat /\ s.pos <= Len(p) /\ Len(p) \in Nat
  BY DEF IsStream
<1> HIDE DEF p
<1>2. t \in Seq(Nat) /\ Len(t) = Len(p) - s.pos /\ t # <<>>
  <2>1. s.pos \in 0..Len(p)
    BY <1>1
  <2> QED BY <1>1, <2>1, Split, Zenon DEF Pending, p
<1>3. PICK k \in Nat : k = (IF Len(t) < n THEN Len(t) ELSE n)
  BY <1>2
<1>4. k >= 1 /\ k <= n /\ k <= Len(t)
  BY <1>2, <1>3
<1>5. b = SubSeq(t, 1, k)
  BY <1>3 DEF FromPrefix, Pending, p
<1>6. t = SubSeq(p, s.pos + 1, Len(p)) /\ t = Pending(s)
  BY DEF Pending, p
<1> HIDE DEF t
<1>7. b \in Seq(Nat) /\ Len(b) = k
  <2>1. k \in 0..Len(t)
    BY <1>2, <1>4
  <2> QED BY <1>2, <1>5, <2>1, Split
<1>8. s.pos + k <= Len(p)
  BY <1>1, <1>2, <1>4
<1>9. t = b \o SubSeq(p, s.pos + k + 1, Len(p))
  <2>1. t = SubSeq(t, 1, k) \o SubSeq(p, s.pos + k + 1, Len(p))
    BY <1>1, <1>3, <1>8, SplitTwice, Zenon DEF t
  <2> QED BY <1>5, <2>1, Zenon
<1>10. Advance(s, b).prefix = p /\ Advance(s, b).pos = s.pos + k
  BY <1>7 DEF Advance, IsStream, p
<1>11. IsStream(Advance(s, b))
  <2>1. Advance(s, b) = [prefix |-> p, pos |-> s.pos + k]
    BY <1>7 DEF Advance, IsStream, p
  <2> QED BY <1>1, <1>8, <2>1 DEF IsStream
<1> QED BY <1>4, <1>6, <1>7, <1>9, <1>10, <1>11, Zenon DEF Pending

\* What a stream still has to replay is a byte sequence.
LEMMA PendingType ==
    ASSUME NEW s, IsStream(s)
    PROVE  Pending(s) \in Seq(Nat)
  BY Split DEF IsStream, Pending

\* A fresh replay has all of its prefix pending.
LEMMA ReplayFacts ==
    ASSUME NEW s \in Seq(Nat)
    PROVE  IsStream(Replay(s)) /\ Pending(Replay(s)) = s /\ Replay(s).prefix = s
  BY Split, ListWhole DEF IsStream, Pending, Replay

\* What the socket still holds is a byte sequence.
LEMMA UnreadType ==
    ASSUME client \in Clients, taken \in 0..Len(Socket)
    PROVE  Unread \in Seq(Nat)
  BY Split, ClientParts DEF Unread

\* PrefixedStream::poll_read hands up the next bytes: what was handed up,
\* what is pending and what is unread, glued, do not change.
LEMMA ProxiedReadStep ==
    ASSUME client \in Clients, taken \in 0..Len(Socket), IsStream(proxied),
           upper \in Seq(Nat), NEW n \in Nat \ {0}, NEW bytes, bytes # <<>>,
           ProxiedRead(n, bytes), UNCHANGED client
    PROVE  /\ bytes \in Seq(Nat) /\ Len(bytes) >= 1 /\ Len(bytes) <= n
           /\ Socket' = Socket
           /\ taken' \in 0..Len(Socket) /\ IsStream(proxied')
           /\ upper' = upper \o bytes /\ upper' \in Seq(Nat)
           /\ upper' \o Pending(proxied)' \o Unread' = upper \o Pending(proxied) \o Unread
<1>1. Socket' = Socket
  BY DEF Socket
<1>0. Socket \in Seq(Nat) /\ Len(Socket) \in Nat
  BY ClientParts
<1>2. Unread \in Seq(Nat) /\ Pending(proxied) \in Seq(Nat)
  BY UnreadType, PendingType
<1>3. upper' = upper \o bytes
  BY DEF ProxiedRead
<1>4. CASE Pending(proxied) # <<>> /\ bytes = FromPrefix(proxied, n)
           /\ proxied' = Advance(proxied, bytes) /\ UNCHANGED taken
  <2>1. /\ bytes \in Seq(Nat) /\ Len(bytes) >= 1 /\ Len(bytes) <= n
        /\ IsStream(Advance(proxied, bytes))
        /\ Pending(proxied) = bytes \o Pending(Advance(proxied, bytes))
    BY <1>4, PrefixFacts, Zenon
  <2>2. PICK q : q = Pending(Advance(proxied, bytes))
    OBVIOUS
  <2>3. q \in Seq(Nat) /\ Pending(proxied)' = q
    BY <1>4, <2>1, <2>2, PendingType, Zenon DEF Pending
  <2>4. Unread' = Unread
    BY <1>1, <1>4 DEF Unread
  <2>5. upper \o (bytes \o q) = (upper \o bytes) \o q
    BY <2>1, <2>3, Assoc, Zenon
  <2> QED BY <1>1, <1>3, <1>4, <2>1, <2>2, <2>3, <2>4, <2>5, Glued
<1>5. CASE Pending(proxied) = <<>> /\ bytes \in Piece(n)
           /\ taken' = taken + Len(bytes) /\ UNCHANGED proxied
  <2> DEFINE rest == SubSeq(Socket, taken + Len(bytes) + 1, Len(Socket))
  <2>1. /\ bytes \in Seq(Nat) /\ Len(bytes) >= 1 /\ Len(bytes) <= n
        /\ taken + Len(bytes) <= Len(Socket)
        /\ Unread = bytes \o rest
    BY <1>5, PieceFacts, Zenon
  <2>2. Unread' = rest
    BY <1>1, <1>5 DEF Unread
  <2>3. rest \in Seq(Nat)
    <3>1. taken + Len(bytes) \in 0..Len(Socket)
      BY <1>0, <2>1
    <3> QED BY <1>0, <3>1, Split
  <2>4. Pending(proxied)' = <<>>
    BY <1>5 DEF Pending
  <2> HIDE DEF rest
  <2>5. upper \o (bytes \o rest) = (upper \o bytes) \o rest
    BY <2>1, <2>3, Assoc, Zenon
  <2>6. upper \o bytes \in Seq(Nat)
    BY <2>1
  <2>7. (upper \o bytes) \o <<>> = upper \o bytes /\ upper \o <<>> = upper
    BY <2>6, Glued
  <2>8. upper' \o Pending(proxied)' \o Unread' = upper \o Pending(proxied) \o Unread
    BY <1>3, <1>5, <2>1, <2>2, <2>4, <2>5, <2>7, Zenon
  <2>9. taken' \in 0..Len(Socket)
    BY <1>0, <1>5, <2>1
  <2> QED BY <1>1, <1>3, <1>5, <2>1, <2>6, <2>8, <2>9, Zenon
<1> QED BY <1>4, <1>5, Zenon DEF ProxiedRead

\* What a client sends after its PROXY header.
Rest == client.hello \o client.head \o client.body

\* The socket carries the header, if any, and then the rest.
LEMMA SocketParts ==
    ASSUME client \in Clients
    PROVE  /\ Rest \in Seq(Nat)
           /\ Socket = HeaderBytes(client.header) \o Rest
           /\ ~client.header.sig => Socket = Rest
<1> DEFINE h == HeaderBytes(client.header)
           a == client.hello
           b == client.head
           c == client.body
<1>1. h \in Seq(Nat) /\ a \in Seq(Nat) /\ b \in Seq(Nat) /\ c \in Seq(Nat)
  BY ClientParts
<1>2. Socket = ((h \o a) \o b) \o c /\ Rest = (a \o b) \o c
  BY DEF Socket, Rest
<1>3. ~client.header.sig => h = <<>>
  BY DEF HeaderBytes
<1> HIDE DEF h, a, b, c
<1>4. h \o (a \o b) = (h \o a) \o b
  BY <1>1, Assoc, Zenon
<1>5. PICK d : d = a \o b
  BY Zenon
<1>6. d \in Seq(Nat) /\ d \o c \in Seq(Nat)
  BY <1>1, <1>5, GluedType, Zenon
<1>8. h \o (d \o c) = (h \o d) \o c
  BY <1>1, <1>6, Assoc, Zenon
<1>7. <<>> \o Rest = Rest
  BY <1>2, <1>5, <1>6, Glued, Zenon
<1> QED BY <1>2, <1>3, <1>4, <1>5, <1>6, <1>7, <1>8, Zenon DEF h

\* The rest is the client's hello, then its request head and body.
LEMMA RestParts ==
    ASSUME client \in Clients
    PROVE  Rest = client.hello \o (client.head \o client.body)
<1>1. client.hello \in Seq(Nat) /\ client.head \in Seq(Nat) /\ client.body \in Seq(Nat)
  BY ClientParts
<1> QED BY <1>1, Assoc, Zenon DEF Rest

\* Where the parts of a PROXY header stand on the socket.
LEMMA HeaderParts ==
    ASSUME client \in Clients, client.header.sig
    PROVE  LET h == client.header
               mid == <<16 * h.ver + h.cmd, h.family, h.len>>
           IN  /\ mid \in Seq(Nat)
               /\ HeaderBytes(h) = (Signature \o mid) \o h.block
               /\ Signature \o mid \in Seq(Nat)
               /\ Len(Signature \o mid) = V2_FIXED_LEN
               /\ Len(HeaderBytes(h)) = V2_FIXED_LEN + h.len
               /\ Len(Socket) = V2_FIXED_LEN + h.len + Len(Rest)
               /\ SubSeq(Socket, 1, V2_FIXED_LEN) = Signature \o mid
               /\ SubSeq(Socket, V2_FIXED_LEN + 1, V2_FIXED_LEN + h.len) = h.block
               /\ SubSeq(Socket, V2_FIXED_LEN + h.len + 1, Len(Socket)) = Rest
<1> DEFINE h == client.header
           mid == <<16 * h.ver + h.cmd, h.family, h.len>>
           f == Signature \o mid
           b == h.block
<1>1. b \in Seq(Nat) /\ h.len = Len(b) /\ h.len \in Nat
  BY ClientParts
<1>2. mid \in Seq(Nat) /\ Len(mid) = 3
  <2>1. h.ver \in 0..15 /\ h.cmd \in 0..15 /\ h.family \in Nat /\ h.len \in Nat
    BY ClientParts
  <2>2. 16 * h.ver + h.cmd \in Nat
    BY <2>1
  <2> QED BY <2>1, <2>2
<1>3. HeaderBytes(h) = f \o b
  BY Zenon DEF HeaderBytes
<1> HIDE DEF mid
<1>4. f \in Seq(Nat) /\ Len(f) = V2_FIXED_LEN
  <2>1. Signature \in Seq(Nat)
    BY ProxyAssumption
  <2>2. f \in Seq(Nat) /\ Len(f) = Len(Signature) + Len(mid)
    BY <1>2, <2>1, GluedType, Zenon
  <2> QED BY <1>2, <2>2 DEF V2_FIXED_LEN
<1>5. Rest \in Seq(Nat) /\ Socket = (f \o b) \o Rest
  BY <1>3, SocketParts, Zenon
<1> HIDE DEF f, b
<1>6. (f \o b) \in Seq(Nat) /\ Len(f \o b) = Len(f) + Len(b)
  BY <1>1, <1>4, Glued, Zenon
<1>7. Len(Socket) = Len(f) + Len(b) + Len(Rest)
  BY <1>5, <1>6, Glued
<1>8. SubSeq(Socket, Len(f) + Len(b) + 1, Len(Socket)) = Rest
  BY <1>5, <1>6, Glued
<1>9. b \o Rest \in Seq(Nat) /\ f \o (b \o Rest) = (f \o b) \o Rest
  <2>1. f \o (b \o Rest) = (f \o b) \o Rest
    BY <1>1, <1>4, <1>5, Assoc, Zenon
  <2> QED BY <1>1, <1>5, <2>1
<1>10. SubSeq(Socket, 1, Len(f)) = f
  BY <1>4, <1>5, <1>9, Glued
<1>11. SubSeq(Socket, Len(f) + 1, Len(f) + Len(b)) = b
  BY <1>1, <1>4, <1>5
<1> QED BY <1>1, <1>2, <1>3, <1>4, <1>6, <1>7, <1>8, <1>10, <1>11, Zenon DEF f, b, mid

\* The version and the command are the two nibbles of one byte.
LEMMA Nibbles ==
    ASSUME NEW v \in 0..15, NEW c \in 0..15
    PROVE  (16 * v + c) \div 16 = v /\ (16 * v + c) % 16 = c
  OBVIOUS

\* parse_fixed reads off the first V2_FIXED_LEN bytes of the socket exactly
\* whether the client sent a header the relay takes, and which.
LEMMA FixedParsed ==
    ASSUME client \in Clients, Len(Socket) >= V2_FIXED_LEN,
           NEW fixed, fixed = SubSeq(Socket, 1, V2_FIXED_LEN)
    PROVE  LET h == client.header
               p == ParseFixed(fixed)
           IN  /\ p.kind = "ok" <=> /\ h.sig /\ h.ver = 2 /\ h.cmd \in {CMD_PROXY, CMD_LOCAL}
                                    /\ h.len <= MaxBlock
               /\ p.kind = "ok" => p.cmd = h.cmd /\ p.family = h.family /\ p.len = h.len
<1> DEFINE h == client.header
           p == ParseFixed(fixed)
           n == Len(Signature)
<1>0. n \in Nat /\ Signature \in Seq(Nat) /\ V2_FIXED_LEN = n + 3
  BY ProxyAssumption DEF V2_FIXED_LEN
<1>1. CASE ~h.sig
  <2>1. Socket = Rest /\ Rest \in Seq(Nat)
    BY <1>1, SocketParts
  <2>2. SubSeq(Rest, 1, n) # Signature
    <3>1. IsClient(client)
      BY FrontAssumption
    <3>2. n <= Len(Rest)
      BY <1>0, <2>1
    <3> QED BY <1>1, <3>1, <3>2, Zenon DEF IsClient, Rest
  <2>3. SubSeq(fixed, 1, n) = SubSeq(Rest, 1, n)
    BY <1>0, <2>1
  <2>4. p.kind = "not_proxy"
    BY <2>2, <2>3, Zenon DEF ParseFixed, NotProxyProtocol
  <2> QED BY <1>1, <2>4
<1>2. CASE h.sig
  <2> DEFINE mid == <<16 * h.ver + h.cmd, h.family, h.len>>
  <2>1. fixed = Signature \o mid /\ mid \in Seq(Nat)
    BY <1>2, HeaderParts, Zenon
  <2>2. h.ver \in 0..15 /\ h.cmd \in 0..15
    BY ClientParts
  <2>3. SubSeq(fixed, 1, n) = Signature
    BY <1>0, <2>1, Glued
  <2>4. /\ fixed[n + 1] = 16 * h.ver + h.cmd
        /\ fixed[n + 2] = h.family /\ fixed[n + 3] = h.len
    BY <1>0, <2>1
  <2>5. /\ (16 * h.ver + h.cmd) \div 16 = h.ver
        /\ (16 * h.ver + h.cmd) % 16 = h.cmd
    BY <2>2, Nibbles, Zenon
  <2>6. p = IF \/ h.ver # 2 \/ h.cmd \notin {CMD_PROXY, CMD_LOCAL} \/ h.len > MaxBlock
            THEN Malformed
            ELSE [kind |-> "ok", cmd |-> h.cmd, family |-> h.family, len |-> h.len]
    BY <2>3, <2>4, <2>5, Zenon DEF ParseFixed
  <2>7. Malformed.kind = "malformed"
    BY DEF Malformed, NotProxyProtocol
  <2>8. h.len \in Nat /\ MaxBlock \in Nat
    BY ClientParts, ProxyAssumption
  <2> QED BY <1>2, <2>6, <2>7, <2>8
<1>3. h.sig \in BOOLEAN
  BY ClientParts
<1> QED BY <1>1, <1>2

\* The bytes that reach the head reader.
AboveTls(s) == IF tls /\ port = "wire" THEN Tail(s) ELSE s

\* While the header is read it is all that was read.
HeaderStage ==
    pc \in {"proxy_fixed", "proxy_block"} =>
        /\ port = "wire" /\ Trusts(trusted, client.ip)
        /\ buf = SubSeq(Socket, 1, taken)
        /\ upper = <<>> /\ proxied = Replay(<<>>)
        /\ source = client.ip /\ verified = Anonymous
        /\ pc = "proxy_fixed" => taken < V2_FIXED_LEN
        /\ pc = "proxy_block" =>
            /\ Consumable(client.header)
            /\ taken >= V2_FIXED_LEN /\ taken < V2_FIXED_LEN + client.header.len

\* After the header reader, nothing is lost, repeated or reordered.
Handed == Resolved => upper \o Pending(proxied) \o Unread = Meant

\* The identity is the one of the handshake that was handed up first.
TlsStage ==
    /\ pc = "tls" => port = "wire" /\ tls /\ upper = <<>> /\ verified = Anonymous
    /\ pc \in {"admission", "head", "handshake", "relay"} =>
        IF tls /\ port = "wire"
        THEN /\ upper # <<>> /\ TlsAccepts(upper[1])
             /\ verified = ExtractClientPeerId(upper[1])
        ELSE verified = Anonymous
    /\ pc \in {"admission", "handshake", "relay"} => port = "wire"

\* The head reader's buffer is all that came through TLS, within the cap and
\* without a terminator.
HeadStage ==
    /\ pc \in {"tls", "admission"} => buf = <<>>
    /\ pc = "admission" => AboveTls(upper) = <<>>
    /\ pc = "head" =>
        /\ buf = AboveTls(upper)
        /\ Len(buf) < MaxHead
        /\ \A n \in 1..Len(buf) : ~EndsWithTerminator(SubSeq(buf, 1, n))

\* The peeked bytes are replayed in front of what follows.
ReplayStage ==
    /\ pc \in {"handshake", "relay"} => replayed \o Pending(peeked) = AboveTls(upper)
    /\ pc \in {"proxy_fixed", "proxy_block", "tls", "admission", "head"} => replayed = <<>>

\* The inductive invariant of one connection, from accept to close.
DInv ==
    /\ TypeOK /\ HeaderStage /\ Handed /\ TlsStage /\ HeadStage /\ ReplayStage
    /\ SourceSound /\ AnswerMatchesRequest

\* A client's socket address is an address.
LEMMA ClientIp ==
    ASSUME client \in Clients
    PROVE  IsIp(client.ip)
  BY FrontAssumption, Zenon DEF IsClient

\* Trusts is agreement on the leading bits with some entry of the list.
LEMMA Trust ==
    ASSUME NEW cidrs, \A c \in cidrs : IsCidr(c), NEW ip, IsIp(ip)
    PROVE  (\E c \in cidrs : AgreesOnBits(c, ip)) <=> Trusts(cidrs, ip)
<1>1. \A c \in cidrs : CidrContains(c, ip) <=> AgreesOnBits(c, ip)
  BY TrustByBits
<1> QED BY <1>1 DEF Trusts

\* What the client meant depends on the client, the port and the list only.
LEMMA SameRequest ==
    ASSUME UNCHANGED <<trusted, port, client>>
    PROVE  /\ Socket' = Socket /\ Rest' = Rest /\ FromTrusted' = FromTrusted
           /\ Consumable(client.header)' = Consumable(client.header)
           /\ Meant' = Meant
<1>1. Socket' = Socket /\ Rest' = Rest
  BY DEF Socket, Rest
<1>2. FromTrusted' = FromTrusted
  BY DEF FromTrusted
<1>3. Consumable(client.header)' = Consumable(client.header)
  BY <1>2 DEF Consumable
<1>4. Meant' = Meant
  BY <1>1, <1>3 DEF Meant
<1> QED BY <1>1, <1>2, <1>3, <1>4

\* What the client meant is a byte sequence.
LEMMA MeantType ==
    ASSUME client \in Clients
    PROVE  Meant \in Seq(Nat)
  BY SocketParts, ClientParts DEF Meant, Rest

\* TrustedProxies::parse yields parsed entries only.
LEMMA ParsedLists == Init => \A c \in trusted : IsCidr(c)
<1> SUFFICES ASSUME Init, NEW c \in trusted PROVE IsCidr(c)
  OBVIOUS
<1>1. PICK list \in Lists : ListOK(list) /\ trusted = ParseList(list)
  BY DEF Init
<1>2. PICK e \in Entries(list) : c = ParseCidr(e)
  BY <1>1 DEF ParseList
<1>3. CidrOK(e) /\ IsEntry(e)
  BY <1>1, FrontAssumption DEF ListOK
<1>4. IsIp(e.base) /\ e.prefix_len \in Nat \cup {NoPrefix} /\ e.prefix_len <= BitsOf(e.base)
  BY <1>3 DEF IsEntry, CidrOK
<1>5. BitsOf(e.base) \in Nat
  <2>1. e.base.fam \in {4, 6}
    BY <1>4 DEF IsIp
  <2>2. Width[e.base.fam] \in Nat /\ ByteBits \in Nat
    BY <2>1, ProxyAssumption
  <2> QED BY <2>2, Products DEF BitsOf
<1>6. c.base = e.base /\ c.prefix_len = (IF e.prefix_len = NoPrefix THEN BitsOf(e.base) ELSE e.prefix_len)
  BY <1>2 DEF ParseCidr
<1> QED BY <1>4, <1>5, <1>6 DEF IsCidr

\* A replay of nothing has nothing pending.
LEMMA EmptyStream ==
    <<>> \in Seq(Nat) /\ IsStream(Replay(<<>>)) /\ Pending(Replay(<<>>)) = <<>>
<1>1. <<>> \in Seq(Nat)
  OBVIOUS
<1> QED BY <1>1, ReplayFacts, Zenon

\* The invariant holds before the first connection.
LEMMA InitInv == Init => DInv
<1> SUFFICES ASSUME Init PROVE DInv
  OBVIOUS
<1>2. client \in Clients /\ 0 \in 0..Len(Socket)
  BY ClientParts DEF Init
<1>3. TypeOK
  BY <1>2, EmptyStream, ParsedLists, Zenon DEF Init, TypeOK
<1>4. HeaderStage /\ Handed /\ TlsStage /\ HeadStage /\ ReplayStage /\ SourceSound
  BY DEF Init, HeaderStage, Handed, TlsStage, HeadStage, ReplayStage, SourceSound, Resolved
<1>5. AnswerMatchesRequest
  BY DEF Init, AnswerMatchesRequest
<1> QED BY <1>3, <1>4, <1>5 DEF DInv

\* A closed connection satisfies the invariant as long as its answer does.
LEMMA Closed ==
    ASSUME TypeOK', pc' = "closed", AnswerMatchesRequest'
    PROVE  DInv'
  BY DEF DInv, HeaderStage, Handed, TlsStage, HeadStage, ReplayStage, SourceSound, Resolved

\* The two timeouts and the end of the stream preserve the invariant.
LEMMA ClosingSteps ==
    ASSUME DInv, ProxyTimeout \/ WsRefused \/ RegisterTimeout \/ Eof
    PROVE  DInv'
<1>1. /\ pc' = "closed" /\ buf' = <<>>
      /\ UNCHANGED <<tls, trusted, port, client, gone, taken, proxied, peeked, upper, replayed, answer>>
  BY DEF ProxyTimeout, WsRefused, RegisterTimeout, Eof, Close, config, request
<1>2. TypeOK'
  <2>1. Socket' = Socket
    BY <1>1 DEF Socket
  <2>2. <<>> \in Seq(Nat)
    OBVIOUS
  <2> QED BY <1>1, <2>1, <2>2 DEF DInv, TypeOK, IsStream
<1>3. AnswerMatchesRequest'
  BY <1>1 DEF DInv, AnswerMatchesRequest
<1> QED BY <1>1, <1>2, <1>3, Closed

\* A client that hangs up preserves the invariant.
LEMMA HangupStep ==
    ASSUME DInv, Hangup
    PROVE  DInv'
<1>1. gone' = TRUE
      /\ UNCHANGED <<tls, trusted, port, client, taken, pc, buf, proxied, peeked, source,
                     verified, upper, replayed, answer>>
  BY DEF Hangup, config, request
<1>2. TypeOK'
  <2>1. Socket' = Socket
    BY <1>1 DEF Socket
  <2> QED BY <1>1, <2>1 DEF DInv, TypeOK, IsStream
<1>3. Socket' = Socket /\ Consumable(client.header)' = Consumable(client.header)
      /\ Meant' = Meant /\ Unread' = Unread
  BY <1>1, SameRequest, Zenon DEF Unread
<1>4. HeaderStage'
  BY <1>1, <1>3 DEF DInv, HeaderStage
<1>5. Handed'
  BY <1>1, <1>3, Zenon DEF DInv, Handed, Resolved, Pending
<1>6. TlsStage' /\ HeadStage'
  BY <1>1 DEF DInv, TlsStage, HeadStage, AboveTls
<1>7. ReplayStage'
  BY <1>1, Zenon DEF DInv, ReplayStage, AboveTls, Pending
<1>8. SourceSound' /\ AnswerMatchesRequest'
  BY <1>1, <1>3 DEF DInv, SourceSound, Resolved, AnswerMatchesRequest
<1> QED BY <1>2, <1>4, <1>5, <1>6, <1>7, <1>8 DEF DInv

\* A fresh task has handed up nothing and owes the whole socket.
LEMMA StartedStep ==
    ASSUME DInv, NEW listener \in {"wire", "plain"},
           NEW stage \in {"proxy_fixed", "tls", "admission", "head"},
           Started(listener, stage)
    PROVE  /\ TypeOK'
           /\ Socket' = Socket /\ Socket \in Seq(Nat)
           /\ upper' \o Pending(proxied)' \o Unread' = Socket
           /\ (stage = "proxy_fixed" \/ ~FromTrusted') => Handed' /\ SourceSound'
           /\ AnswerMatchesRequest' /\ ReplayStage'
<1>1. /\ port' = listener /\ pc' = stage /\ gone' = FALSE /\ taken' = 0 /\ buf' = <<>>
      /\ proxied' = Replay(<<>>) /\ peeked' = Replay(<<>>) /\ source' = client.ip
      /\ upper' = <<>> /\ replayed' = <<>> /\ answer' = NoAnswer
      /\ UNCHANGED <<tls, trusted, client>>
  BY DEF Started, config
<1>2. Socket' = Socket
  BY <1>1 DEF Socket
<1>3. Socket \in Seq(Nat) /\ 0 \in 0..Len(Socket)
  BY ClientParts DEF DInv, TypeOK
<1>4. TypeOK'
  BY <1>1, <1>2, <1>3, EmptyStream, Zenon DEF DInv, TypeOK
<1>5. Unread' = Socket
  <2>1. Unread' = SubSeq(Socket, 0 + 1, Len(Socket))
    BY <1>1, <1>2 DEF Unread
  <2> QED BY <1>3, <2>1, ListWhole
<1>6. Pending(proxied)' = <<>>
  BY <1>1, EmptyStream DEF Pending
<1>7. upper' \o Pending(proxied)' \o Unread' = Socket
  <2>1. <<>> \o <<>> \o Socket = Socket
    BY <1>3
  <2> QED BY <1>1, <1>5, <1>6, <2>1, Zenon
<1>8. stage = "proxy_fixed" => Handed' /\ SourceSound'
  BY <1>1 DEF Handed, SourceSound, Resolved
<1>9. ASSUME ~FromTrusted' PROVE Handed' /\ SourceSound'
  <2>1. ~Consumable(client.header)'
    BY <1>9 DEF Consumable
  <2>2. Meant' = Socket
    BY <1>2, <2>1 DEF Meant
  <2> QED BY <1>1, <1>7, <2>1, <2>2 DEF Handed, SourceSound
<1>10. AnswerMatchesRequest' /\ ReplayStage'
  BY <1>1 DEF AnswerMatchesRequest, ReplayStage, NoAnswer
<1> QED BY <1>2, <1>3, <1>4, <1>7, <1>8, <1>9, <1>10

\* Accepting on the wire port preserves the invariant.
LEMMA AcceptWireStep ==
    ASSUME DInv, AcceptWire
    PROVE  DInv'
<1> DEFINE stage == IF Trusts(trusted, client.ip) THEN "proxy_fixed" ELSE AfterResolve
<1>1. Started("wire", stage) /\ stage \in {"proxy_fixed", "tls", "admission", "head"}
  BY DEF AcceptWire, AfterResolve
<1>2. /\ port' = "wire" /\ pc' = stage /\ taken' = 0 /\ buf' = <<>> /\ upper' = <<>>
      /\ proxied' = Replay(<<>>) /\ source' = client.ip /\ verified' = Anonymous
      /\ UNCHANGED <<tls, trusted, client>>
  BY <1>1 DEF Started, config
<1>3. /\ TypeOK' /\ Socket' = Socket /\ Socket \in Seq(Nat)
      /\ (stage = "proxy_fixed" \/ ~FromTrusted') => Handed' /\ SourceSound'
      /\ AnswerMatchesRequest' /\ ReplayStage'
  <2> HIDE DEF stage
  <2> QED BY <1>1, StartedStep
<1>4. stage # "proxy_fixed" => ~FromTrusted'
  <2>1. (\E c \in trusted : AgreesOnBits(c, client.ip)) <=> Trusts(trusted, client.ip)
    BY ClientIp, Trust, Zenon DEF DInv, TypeOK
  <2> QED BY <1>2, <2>1 DEF FromTrusted
<1>5. HeaderStage'
  <2>1. SubSeq(Socket, 1, 0) = <<>>
    BY <1>3
  <2>2. 0 < V2_FIXED_LEN
    BY ProxyAssumption DEF V2_FIXED_LEN
  <2>3. pc' = "proxy_fixed" => Trusts(trusted, client.ip)
    BY <1>2 DEF AfterResolve
  <2>4. pc' # "proxy_block"
    BY <1>2 DEF AfterResolve
  <2> QED BY <1>2, <1>3, <2>1, <2>2, <2>3, <2>4 DEF HeaderStage
<1>6. TlsStage' /\ HeadStage'
  BY <1>2 DEF TlsStage, HeadStage, AboveTls, AfterResolve
<1> QED BY <1>3, <1>4, <1>5, <1>6 DEF DInv

\* Accepting on the plain port preserves the invariant.
LEMMA AcceptPlainStep ==
    ASSUME DInv, AcceptPlain
    PROVE  DInv'
<1>1. Started("plain", "head")
  BY DEF AcceptPlain
<1>2. /\ port' = "plain" /\ pc' = "head" /\ buf' = <<>> /\ upper' = <<>>
      /\ verified' = Anonymous /\ UNCHANGED <<tls, trusted, client>>
  BY <1>1 DEF Started, config
<1>3. /\ TypeOK' /\ (~FromTrusted' => Handed' /\ SourceSound')
      /\ AnswerMatchesRequest' /\ ReplayStage'
  BY <1>1, StartedStep
<1>4. ~FromTrusted'
  BY <1>2 DEF FromTrusted
<1>5. HeaderStage' /\ TlsStage'
  BY <1>2 DEF HeaderStage, TlsStage
<1>6. HeadStage'
  <2>1. Len(<<>>) = 0 /\ Len(<<>>) < MaxHead
    BY HeadAssumption
  <2> QED BY <1>2, <2>1 DEF HeadStage, AboveTls
<1> QED BY <1>3, <1>4, <1>5, <1>6 DEF DInv

\* parse_address_block declares a source exactly when a PROXY command comes
\* with a TCP family and a block long enough, and then it is the block's first
\* address.
LEMMA BlockDeclares ==
    ASSUME NEW header, header.cmd \in {CMD_PROXY, CMD_LOCAL},
           NEW block, NEW n \in Nat, Len(block) = n
    PROVE  LET w == Width[FamilyOf(header.family)]
               src == ParseAddressBlock(header, block)
           IN  /\ src.declared <=> /\ header.cmd = CMD_PROXY
                                   /\ header.family \in {AF_TCP4, AF_TCP6}
                                   /\ n >= 2 * w + 2
               /\ src.declared => src.ip = Ip(FamilyOf(header.family), SubSeq(block, 1, w))
<1> DEFINE w == Width[FamilyOf(header.family)]
           ip == Ip(FamilyOf(header.family), SubSeq(block, 1, w))
           src == ParseAddressBlock(header, block)
           reads == header.cmd = CMD_PROXY /\ Translated(header.family) /\ n >= 2 * w + 2
<1>1. w \in Nat
  BY ProxyAssumption DEF FamilyOf
<1>2. (header.cmd = CMD_LOCAL \/ ~Translated(header.family) \/ Len(block) < 2 * w + 2) <=> ~reads
  BY <1>1 DEF CMD_LOCAL, CMD_PROXY
<1>3. CASE reads
  <2>1. src = [declared |-> TRUE, ip |-> ip, port |-> block[2 * w + 1]]
    BY <1>2, <1>3, Zenon DEF ParseAddressBlock
  <2>2. src.declared /\ src.ip = ip
    BY <2>1
  <2> QED BY <1>3, <2>2, Zenon DEF Translated
<1>4. CASE ~reads
  <2>1. src = NoSource
    BY <1>2, <1>4, Zenon DEF ParseAddressBlock
  <2>2. ~src.declared
    BY <2>1 DEF NoSource
  <2> QED BY <1>4, <2>2, Zenon DEF Translated
<1> QED BY <1>3, <1>4, Zenon

\* The header has been taken off the stream: what is left is meant for above.
LEMMA ConsumedStep ==
    ASSUME DInv, Consumable(client.header), pc \in {"proxy_fixed", "proxy_block"},
           UNCHANGED <<tls, trusted, port, client, gone, peeked, verified, upper, replayed, answer>>,
           taken' = V2_FIXED_LEN + client.header.len,
           NEW header, header.cmd = client.header.cmd, header.family = client.header.family,
           Consumed(header, client.header.block)
    PROVE  DInv'
<1> DEFINE h == client.header
<1>1. /\ proxied' = Replay(<<>>) /\ pc' = AfterResolve /\ buf' = <<>>
      /\ source' = LET src == ParseAddressBlock(header, h.block)
                   IN  IF src.declared THEN src.ip ELSE client.ip
  BY DEF Consumed
<1>2. /\ TypeOK /\ port = "wire" /\ upper = <<>> /\ verified = Anonymous /\ replayed = <<>>
      /\ AnswerMatchesRequest
  BY Zenon DEF DInv, HeaderStage, ReplayStage
<1>3. h.sig /\ client \in Clients
  BY <1>2 DEF Consumable, TypeOK
<1>4. /\ Len(Socket) = V2_FIXED_LEN + h.len + Len(Rest)
      /\ SubSeq(Socket, V2_FIXED_LEN + h.len + 1, Len(Socket)) = Rest
      /\ Rest \in Seq(Nat) /\ Len(Rest) \in Nat /\ h.len \in Nat /\ Len(h.block) = h.len
  <2>1. Len(Socket) = V2_FIXED_LEN + h.len + Len(Rest)
    BY <1>3, HeaderParts, Zenon
  <2>2. SubSeq(Socket, V2_FIXED_LEN + h.len + 1, Len(Socket)) = Rest
    BY <1>3, HeaderParts
  <2>3. Rest \in Seq(Nat) /\ h.len \in Nat /\ Len(h.block) = h.len
    BY <1>3, SocketParts, ClientParts
  <2> QED BY <2>1, <2>2, <2>3
<1>5. V2_FIXED_LEN \in Nat
  BY ProxyAssumption DEF V2_FIXED_LEN
<1>6. Socket' = Socket /\ Meant' = Meant /\ Consumable(client.header)'
  BY SameRequest, Zenon
<1>7. TypeOK'
  <2>1. taken' \in 0..Len(Socket)
    <3>1. PICK k \in Nat : k = h.len
      BY <1>4
    <3>2. PICK n \in Nat : n = Len(Rest)
      BY <1>4
    <3>3. taken' = V2_FIXED_LEN + k /\ Len(Socket) = V2_FIXED_LEN + k + n
      BY <1>4, <3>1, <3>2, Zenon
    <3> QED BY <1>5, <3>3
  <2>2. pc' \in {"tls", "admission"}
    BY <1>1 DEF AfterResolve
  <2> QED BY <1>1, <1>2, <1>6, <2>1, <2>2, EmptyStream DEF TypeOK
<1>8. Handed'
  <2>1. Unread' = Rest
    BY <1>4, <1>6, Zenon DEF Unread
  <2>2. Meant' = Rest
    BY <1>6, Zenon DEF Meant, Rest
  <2>3. <<>> \o <<>> \o Rest = Rest
    BY <1>4
  <2>4. Pending(proxied)' = <<>>
    BY <1>1, EmptyStream DEF Pending
  <2> QED BY <1>2, <2>1, <2>2, <2>3, <2>4, Zenon DEF Handed
<1>9. SourceSound'
  <2> DEFINE w == Width[FamilyOf(h.family)]
             declares == /\ h.cmd = CMD_PROXY /\ h.family \in {AF_TCP4, AF_TCP6}
                         /\ h.len >= 2 * w + 2
             src == ParseAddressBlock(header, h.block)
  <2>2. h.cmd \in {CMD_PROXY, CMD_LOCAL}
    BY Zenon DEF Consumable
  <2>3. /\ src.declared <=> declares
        /\ src.declared => src.ip = Ip(FamilyOf(h.family), SubSeq(h.block, 1, w))
    <3>1. header.cmd \in {CMD_PROXY, CMD_LOCAL} /\ h.len \in Nat /\ Len(h.block) = h.len
      BY <1>4, <2>2, Zenon
    <3> QED BY <3>1, BlockDeclares
  <2>5. source' = IF declares THEN Ip(FamilyOf(h.family), SubSeq(h.block, 1, w)) ELSE client.ip
    BY <1>1, <2>3, Zenon
  <2> QED BY <1>6, <2>5 DEF SourceSound
<1>10. HeaderStage' /\ TlsStage' /\ HeadStage' /\ ReplayStage'
  BY <1>1, <1>2, Zenon DEF HeaderStage, TlsStage, HeadStage, ReplayStage, AboveTls, AfterResolve
<1>11. AnswerMatchesRequest'
  BY <1>2 DEF AnswerMatchesRequest
<1> QED BY <1>7, <1>8, <1>9, <1>10, <1>11, Zenon DEF DInv

\* Reading the fixed part of a PROXY header preserves the invariant: short
\* reads, a header that is none, one that is malformed, one without a block.
LEMMA ReadFixedStep ==
    ASSUME DInv, ReadFixed
    PROVE  DInv'
<1> DEFINE h == client.header
<1>1. pc = "proxy_fixed"
      /\ UNCHANGED <<tls, trusted, port, client, gone, peeked, verified, upper, replayed, answer>>
  BY DEF ReadFixed, config, request
<1>2. /\ TypeOK /\ client \in Clients /\ port = "wire" /\ Trusts(trusted, client.ip)
      /\ buf = SubSeq(Socket, 1, taken) /\ upper = <<>> /\ proxied = Replay(<<>>)
      /\ source = client.ip /\ verified = Anonymous /\ taken < V2_FIXED_LEN
      /\ replayed = <<>> /\ AnswerMatchesRequest
  BY <1>1 DEF DInv, TypeOK, HeaderStage, ReplayStage
<1>3. V2_FIXED_LEN \in Nat /\ Socket \in Seq(Nat) /\ taken \in 0..Len(Socket) /\ Len(Socket) \in Nat
  BY <1>2, ProxyAssumption, ClientParts DEF TypeOK, V2_FIXED_LEN
<1>4. Len(buf) = taken
  BY <1>2, <1>3, Split
<1>5. Socket' = Socket /\ Meant' = Meant
      /\ Consumable(client.header)' = Consumable(client.header)
  BY <1>1, SameRequest
<1>6. FromTrusted
  <2>1. (\E c \in trusted : AgreesOnBits(c, client.ip)) <=> Trusts(trusted, client.ip)
    BY <1>2, ClientIp, Trust, Zenon DEF TypeOK
  <2> QED BY <1>2, <2>1 DEF FromTrusted
<1>7. AnswerMatchesRequest'
  BY <1>1, <1>2 DEF AnswerMatchesRequest
<1>8. PICK piece \in Piece(V2_FIXED_LEN - Len(buf)) :
        LET fixed == buf \o piece
            header == ParseFixed(fixed)
        IN  /\ taken' = taken + Len(piece)
            /\ \/ /\ Len(fixed) < V2_FIXED_LEN
                  /\ buf' = fixed
                  /\ UNCHANGED <<pc, proxied, source>>
               \/ /\ Len(fixed) = V2_FIXED_LEN
                  /\ header.kind # "ok"
                  /\ proxied' = Replay(fixed)
                  /\ pc' = AfterResolve
                  /\ buf' = <<>>
                  /\ UNCHANGED source
               \/ /\ Len(fixed) = V2_FIXED_LEN
                  /\ header.kind = "ok"
                  /\ IF header.len = 0
                     THEN Consumed(header, <<>>)
                     ELSE /\ pc' = "proxy_block"
                          /\ buf' = fixed
                          /\ UNCHANGED <<proxied, source>>
  BY DEF ReadFixed
<1> DEFINE fixed == buf \o piece
           header == ParseFixed(fixed)
<1>9. /\ piece \in Seq(Nat) /\ Len(piece) >= 1
      /\ taken + Len(piece) <= Len(Socket)
      /\ fixed = SubSeq(Socket, 1, taken + Len(piece))
      /\ Len(piece) <= V2_FIXED_LEN - taken
  <2>1. V2_FIXED_LEN - Len(buf) \in Nat
    BY <1>2, <1>3, <1>4
  <2> QED BY <1>2, <1>3, <1>4, <2>1, PieceFacts, Zenon
<1>10. PICK t \in Nat : t = taken + Len(piece) /\ taken' = t /\ t <= Len(Socket) /\ t <= V2_FIXED_LEN
  BY <1>3, <1>8, <1>9
<1>11. fixed = SubSeq(Socket, 1, t) /\ fixed \in Seq(Nat) /\ Len(fixed) = t
  BY <1>3, <1>9, <1>10, Split
<1>12. taken' \in 0..Len(Socket)'
  BY <1>3, <1>5, <1>10
<1> HIDE DEF fixed, header
<1>13. CASE Len(fixed) < V2_FIXED_LEN /\ buf' = fixed /\ UNCHANGED <<pc, proxied, source>>
  <2>1. TypeOK'
    BY <1>1, <1>2, <1>5, <1>11, <1>12, <1>13, Zenon DEF TypeOK, IsStream
  <2>2. HeaderStage'
    BY <1>1, <1>2, <1>5, <1>10, <1>11, <1>13, Zenon DEF HeaderStage
  <2>3. Handed' /\ TlsStage' /\ HeadStage' /\ ReplayStage' /\ SourceSound'
    BY <1>1, <1>2, <1>13, Zenon DEF Handed, TlsStage, HeadStage, ReplayStage, SourceSound, Resolved
  <2> QED BY <1>7, <2>1, <2>2, <2>3 DEF DInv
<1>14. ASSUME Len(fixed) = V2_FIXED_LEN
       PROVE  /\ Len(Socket) >= V2_FIXED_LEN /\ t = V2_FIXED_LEN
              /\ fixed = SubSeq(Socket, 1, V2_FIXED_LEN)
              /\ header.kind = "ok" <=> Consumable(h)
              /\ header.kind = "ok" => header.cmd = h.cmd /\ header.family = h.family
                                        /\ header.len = h.len
  <2>1. t = V2_FIXED_LEN /\ Len(Socket) >= V2_FIXED_LEN /\ fixed = SubSeq(Socket, 1, V2_FIXED_LEN)
    BY <1>10, <1>11, <1>14, Zenon
  <2>2. /\ header.kind = "ok" <=> /\ h.sig /\ h.ver = 2 /\ h.cmd \in {CMD_PROXY, CMD_LOCAL}
                                  /\ h.len <= MaxBlock
        /\ header.kind = "ok" => header.cmd = h.cmd /\ header.family = h.family
                                  /\ header.len = h.len
    BY <1>2, <2>1, FixedParsed, Zenon DEF header
  <2>3. header.kind = "ok" <=> Consumable(h)
    BY <1>6, <2>2 DEF Consumable
  <2> QED BY <2>1, <2>2, <2>3
<1>15. CASE /\ Len(fixed) = V2_FIXED_LEN /\ header.kind # "ok"
            /\ proxied' = Replay(fixed) /\ pc' = AfterResolve /\ buf' = <<>>
            /\ UNCHANGED source
  <2>1. t = V2_FIXED_LEN /\ fixed = SubSeq(Socket, 1, t) /\ ~Consumable(h)
    BY <1>14, <1>15
  <2>2. IsStream(Replay(fixed)) /\ Pending(Replay(fixed)) = fixed
    BY <1>11, ReplayFacts, Zenon
  <2>3. pc' \in {"tls", "admission"}
    BY <1>15 DEF AfterResolve
  <2>4. TypeOK'
    BY <1>1, <1>2, <1>5, <1>12, <1>15, <2>2, <2>3, EmptyStream DEF TypeOK
  <2>5. Handed'
    <3>1. Pending(proxied)' = fixed
      BY <1>15, <2>2 DEF Pending
    <3>2. Unread' = SubSeq(Socket, t + 1, Len(Socket))
      BY <1>5, <1>10 DEF Unread
    <3>3. Meant' = Socket
      BY <1>5, <2>1 DEF Meant
    <3>4. fixed \o SubSeq(Socket, t + 1, Len(Socket)) = Socket
      <4>1. t \in 0..Len(Socket)
        BY <1>3, <1>10
      <4> QED BY <1>3, <2>1, <4>1, Split, Zenon
    <3>5. <<>> \o fixed = fixed
      BY <1>11
    <3> QED BY <1>1, <1>2, <3>1, <3>2, <3>3, <3>4, <3>5, Zenon DEF Handed
  <2>6. SourceSound'
    BY <1>1, <1>2, <1>5, <1>15, <2>1 DEF SourceSound
  <2>7. HeaderStage' /\ TlsStage' /\ HeadStage' /\ ReplayStage'
    BY <1>1, <1>2, <1>15, Zenon DEF HeaderStage, TlsStage, HeadStage, ReplayStage, AboveTls, AfterResolve
  <2> QED BY <1>7, <2>4, <2>5, <2>6, <2>7 DEF DInv
<1>16. CASE Len(fixed) = V2_FIXED_LEN /\ header.kind = "ok" /\ header.len = 0
            /\ Consumed(header, <<>>)
  <2>1. /\ t = V2_FIXED_LEN /\ Consumable(h) /\ header.cmd = h.cmd
        /\ header.family = h.family /\ h.len = 0
    BY <1>14, <1>16, Zenon
  <2>2. h.block = <<>>
    BY <1>2, <2>1, ClientParts
  <2>3. taken' = V2_FIXED_LEN + h.len
    BY <1>3, <1>10, <2>1
  <2> QED BY <1>1, <1>16, <2>1, <2>2, <2>3, ConsumedStep, Zenon
<1>17. CASE /\ Len(fixed) = V2_FIXED_LEN /\ header.kind = "ok" /\ header.len # 0
            /\ pc' = "proxy_block" /\ buf' = fixed /\ UNCHANGED <<proxied, source>>
  <2>1. t = V2_FIXED_LEN /\ Consumable(h) /\ h.len # 0 /\ h.len \in Nat
    BY <1>2, <1>14, <1>17, ClientParts, Zenon
  <2>2. TypeOK'
    BY <1>1, <1>2, <1>5, <1>11, <1>12, <1>17, Zenon DEF TypeOK, IsStream
  <2>3. HeaderStage'
    <3>1. t >= V2_FIXED_LEN /\ t < V2_FIXED_LEN + h.len
      BY <1>3, <2>1
    <3> QED BY <1>1, <1>2, <1>5, <1>10, <1>11, <1>17, <2>1, <3>1 DEF HeaderStage
  <2>4. Handed' /\ TlsStage' /\ HeadStage' /\ ReplayStage' /\ SourceSound'
    BY <1>1, <1>2, <1>17 DEF Handed, TlsStage, HeadStage, ReplayStage, SourceSound, Resolved
  <2> QED BY <1>7, <2>2, <2>3, <2>4 DEF DInv
<1> QED BY <1>8, <1>13, <1>15, <1>16, <1>17, Zenon DEF fixed, header

\* Reading the address block preserves the invariant.
LEMMA ReadBlockStep ==
    ASSUME DInv, ReadBlock
    PROVE  DInv'
<1> DEFINE h == client.header
           V == V2_FIXED_LEN
           header == ParseFixed(SubSeq(buf, 1, V))
           have == SubSeq(buf, V + 1, Len(buf))
<1>1. pc = "proxy_block"
      /\ UNCHANGED <<tls, trusted, port, client, gone, peeked, verified, upper, replayed, answer>>
  BY Zenon DEF ReadBlock, config, request
<1>2. /\ TypeOK /\ client \in Clients /\ port = "wire" /\ Trusts(trusted, client.ip)
      /\ buf = SubSeq(Socket, 1, taken) /\ upper = <<>> /\ proxied = Replay(<<>>)
      /\ source = client.ip /\ verified = Anonymous
      /\ Consumable(h) /\ taken >= V /\ taken < V + h.len
      /\ replayed = <<>> /\ AnswerMatchesRequest
  BY <1>1 DEF DInv, TypeOK, HeaderStage, ReplayStage
<1>3. V \in Nat /\ Socket \in Seq(Nat) /\ taken \in 0..Len(Socket) /\ Len(Socket) \in Nat
  <2>1. V \in Nat
    BY ProxyAssumption DEF V2_FIXED_LEN
  <2>2. Socket \in Seq(Nat)
    BY <1>2, ClientParts
  <2>3. taken \in 0..Len(Socket)
    BY <1>2, Zenon DEF TypeOK
  <2> QED BY <2>1, <2>2, <2>3
<1>16. PICK k \in Nat : k = h.len
  BY <1>2, ClientParts
<1>17. taken \in Nat /\ taken <= Len(Socket) /\ taken >= V /\ taken < V + k
  BY <1>2, <1>3, <1>16
<1>4. Socket' = Socket /\ Meant' = Meant
      /\ Consumable(client.header)' = Consumable(client.header)
  BY <1>1, SameRequest, Zenon
<1>5. AnswerMatchesRequest'
  BY <1>1, <1>2 DEF AnswerMatchesRequest
<1> HIDE DEF V
<1>6. /\ Len(buf) = taken /\ SubSeq(buf, 1, V) = SubSeq(Socket, 1, V)
      /\ have = SubSeq(Socket, V + 1, taken) /\ have \in Seq(Nat) /\ Len(have) = taken - V
  <2>1. Len(buf) = taken
    BY <1>2, <1>3, Split
  <2>2. V \in 0..taken
    BY <1>2, <1>3
  <2>3. /\ SubSeq(SubSeq(Socket, 1, taken), 1, V) = SubSeq(Socket, 1, V)
        /\ SubSeq(SubSeq(Socket, 1, taken), V + 1, taken) = SubSeq(Socket, V + 1, taken)
        /\ SubSeq(Socket, V + 1, taken) \in Seq(Nat)
        /\ Len(SubSeq(Socket, V + 1, taken)) = taken - V
    BY <1>3, <2>2, PrefixOfPrefix
  <2> QED BY <1>2, <2>1, <2>3, Zenon
<1>7. header.cmd = h.cmd /\ header.family = h.family /\ header.len = h.len
  <2>1. Len(Socket) >= V2_FIXED_LEN
    BY <1>2, <1>3 DEF V
  <2>2. h.sig /\ h.ver = 2 /\ h.cmd \in {CMD_PROXY, CMD_LOCAL} /\ h.len <= MaxBlock
    BY <1>2 DEF Consumable
  <2> QED BY <1>2, <1>6, <2>1, <2>2, FixedParsed, Zenon DEF V
<1>8. PICK piece \in Piece(header.len - Len(have)) :
        /\ taken' = taken + Len(piece)
        /\ IF Len(have \o piece) < header.len
           THEN /\ buf' = buf \o piece
                /\ UNCHANGED <<pc, proxied, source>>
           ELSE Consumed(header, have \o piece)
  BY Zenon DEF ReadBlock, V
<1> HIDE DEF header, have
<1>9. /\ piece \in Seq(Nat) /\ Len(piece) >= 1
      /\ taken + Len(piece) <= Len(Socket)
      /\ piece = SubSeq(Socket, taken + 1, taken + Len(piece))
      /\ buf \o piece = SubSeq(Socket, 1, taken + Len(piece))
      /\ Len(piece) <= k - (taken - V)
  <2>1. header.len - Len(have) \in Nat /\ header.len - Len(have) = k - (taken - V)
    <3>1. header.len - Len(have) = k - (taken - V)
      BY <1>6, <1>7, <1>16, Zenon
    <3>2. V \in Nat
      BY <1>3
    <3>3. k - (taken - V) \in Nat
      BY <1>17, <3>2
    <3> QED BY <3>1, <3>3, Zenon
  <2> QED BY <1>2, <1>3, <2>1, PieceFacts, Zenon
<1>18. Len(piece) \in Nat /\ Len(piece) >= 1 /\ taken + Len(piece) <= Len(Socket)
       /\ Len(piece) <= k - (taken - V)
  BY <1>9
<1>10. PICK t \in Nat : t = taken + Len(piece) /\ t <= Len(Socket) /\ t <= V + k /\ t > taken
  BY <1>3, <1>17, <1>18
<1>19. taken' = t
  BY <1>8, <1>10
<1>11. buf \o piece = SubSeq(Socket, 1, t) /\ buf \o piece \in Seq(Nat)
  <2>1. t \in 0..Len(Socket)
    BY <1>3, <1>10
  <2>2. SubSeq(Socket, 1, t) \in Seq(Nat)
    BY <1>3, <2>1, Split
  <2> QED BY <1>9, <1>10, <2>2
<1>12. have \o piece = SubSeq(Socket, V + 1, t) /\ Len(have \o piece) = t - V
  <2>1. V + 1 \in 1..(Len(Socket) + 1) /\ taken \in ((V + 1) - 1)..Len(Socket) /\ t \in taken..Len(Socket)
    BY <1>3, <1>10, <1>17
  <2>2. SubSeq(Socket, V + 1, taken) \o SubSeq(Socket, taken + 1, t) = SubSeq(Socket, V + 1, t)
    BY <1>3, <2>1, ListPieces
  <2>3. Len(have \o piece) = (taken - V) + Len(piece)
    BY <1>6, <1>9
  <2>4. have \o piece = SubSeq(Socket, V + 1, t)
    BY <1>6, <1>9, <1>10, <2>2, Zenon
  <2>5. (taken - V) + Len(piece) = t - V
    BY <1>3, <1>10, <1>17, <1>18
  <2> QED BY <2>3, <2>4, <2>5
<1>13. taken' \in 0..Len(Socket)'
  BY <1>3, <1>4, <1>10, <1>19
<1>14. CASE Len(have \o piece) < header.len
  <2>1. buf' = buf \o piece /\ UNCHANGED <<pc, proxied, source>>
    BY <1>8, <1>14
  <2>2. TypeOK'
    BY <1>1, <1>2, <1>4, <1>11, <1>13, <2>1, Zenon DEF TypeOK, IsStream
  <2>3. HeaderStage'
    <3>1. t - V < k
      BY <1>7, <1>12, <1>14, <1>16, Zenon
    <3>2. t >= V /\ t < V + k
      BY <1>3, <1>10, <1>17, <3>1
    <3> QED BY <1>1, <1>2, <1>4, <1>11, <1>16, <1>19, <2>1, <3>2 DEF HeaderStage, V
  <2>4. Handed' /\ TlsStage' /\ HeadStage' /\ ReplayStage' /\ SourceSound'
    BY <1>1, <1>2, <2>1 DEF Handed, TlsStage, HeadStage, ReplayStage, SourceSound, Resolved
  <2> QED BY <1>5, <2>2, <2>3, <2>4 DEF DInv
<1>15. CASE ~(Len(have \o piece) < header.len)
  <2>1. Consumed(header, have \o piece)
    BY <1>8, <1>15
  <2>2. t = V + k
    <3>1. ~(t - V < k)
      BY <1>7, <1>12, <1>15, <1>16, Zenon
    <3>2. V \in Nat /\ t <= V + k
      BY <1>3, <1>10
    <3> QED BY <3>1, <3>2
  <2>3. have \o piece = h.block
    <3>1. h.sig
      BY <1>2, Zenon DEF Consumable
    <3>2. SubSeq(Socket, V + 1, V + h.len) = h.block
      BY <1>2, <3>1, HeaderParts DEF V
    <3> QED BY <1>12, <1>16, <2>2, <3>2
  <2>4. taken' = V2_FIXED_LEN + h.len
    BY <1>16, <1>19, <2>2 DEF V
  <2> QED BY <1>1, <1>2, <1>7, <2>1, <2>3, <2>4, ConsumedStep, Zenon
<1> QED BY <1>14, <1>15

\* A non-empty read of at most one byte is one byte.
LEMMA Single ==
    ASSUME NEW s \in Seq(Nat), Len(s) >= 1, Len(s) <= 1
    PROVE  Len(s) = 1 /\ Tail(s) = <<>> /\ s # <<>>
<1>1. PICK n \in Nat : n = Len(s)
  OBVIOUS
<1>2. n = 1
  BY <1>1
<1>3. s # <<>>
  <2>1. Len(<<>>) = 0 /\ 1 # 0
    OBVIOUS
  <2> QED BY <1>1, <1>2, <2>1, Zenon
<1>4. Tail(s) = SubSeq(s, 2, Len(s))
  BY <1>3, ListTail
<1>5. SubSeq(s, 2, 1) = <<>>
  BY ListNone
<1> QED BY <1>1, <1>2, <1>3, <1>4, <1>5

\* The TLS handshake, accepted or not, preserves the invariant.
LEMMA TlsAcceptStep ==
    ASSUME DInv, TlsAccept
    PROVE  DInv'
<1>1. /\ pc = "tls"
      /\ UNCHANGED <<tls, trusted, port, client, gone, buf, peeked, source, replayed, answer>>
  BY DEF TlsAccept, config, request
<1>2. PICK bytes \in Pieces(1) :
        /\ bytes # <<>>
        /\ ProxiedRead(1, bytes)
        /\ IF TlsAccepts(bytes[1])
           THEN pc' = "admission" /\ verified' = ExtractClientPeerId(bytes[1])
           ELSE pc' = "closed" /\ UNCHANGED verified
  BY DEF TlsAccept
<1>3. /\ TypeOK /\ Handed /\ port = "wire" /\ tls /\ upper = <<>> /\ verified = Anonymous
      /\ buf = <<>> /\ replayed = <<>> /\ SourceSound /\ AnswerMatchesRequest
  BY <1>1 DEF DInv, TlsStage, HeadStage, ReplayStage
<1>4. /\ bytes \in Seq(Nat) /\ Len(bytes) = 1 /\ Socket' = Socket
      /\ taken' \in 0..Len(Socket) /\ IsStream(proxied')
      /\ upper' = upper \o bytes /\ upper' \in Seq(Nat)
      /\ upper' \o Pending(proxied)' \o Unread' = upper \o Pending(proxied) \o Unread
  <2>1. /\ bytes \in Seq(Nat) /\ Len(bytes) >= 1 /\ Len(bytes) <= 1
        /\ Socket' = Socket
        /\ taken' \in 0..Len(Socket) /\ IsStream(proxied')
        /\ upper' = upper \o bytes /\ upper' \in Seq(Nat)
        /\ upper' \o Pending(proxied)' \o Unread' = upper \o Pending(proxied) \o Unread
    <3>1. 1 \in Nat \ {0}
      OBVIOUS
    <3> QED BY <1>1, <1>2, <1>3, <3>1, ProxiedReadStep, Zenon DEF TypeOK
  <2>2. Len(bytes) = 1
    BY <2>1, Single, Zenon
  <2> QED BY <2>1, <2>2, Zenon
<1>5. TypeOK'
  <2>1. pc' \in {"admission", "closed"}
    BY <1>2, Zenon
  <2> QED BY <1>1, <1>3, <1>4, <2>1 DEF TypeOK, IsStream
<1>6. AnswerMatchesRequest'
  BY <1>1, <1>3 DEF AnswerMatchesRequest
<1>7. CASE ~TlsAccepts(bytes[1])
  BY <1>2, <1>5, <1>6, <1>7, Closed, Zenon
<1>8. CASE TlsAccepts(bytes[1])
  <2>1. pc' = "admission" /\ verified' = ExtractClientPeerId(bytes[1])
    BY <1>2, <1>8
  <2>2. upper' = bytes /\ bytes # <<>> /\ Tail(bytes) = <<>>
    <3>1. bytes \in Seq(Nat) /\ Len(bytes) = 1 /\ upper' = <<>> \o bytes
      BY <1>3, <1>4
    <3>2. 1 >= 1 /\ 1 <= 1
      OBVIOUS
    <3>3. Tail(bytes) = <<>>
      BY <3>1, <3>2, Single, Zenon
    <3> QED BY <1>2, <3>1, <3>3, Glued, Zenon
  <2>3. Meant' = Meant /\ Consumable(client.header)' = Consumable(client.header)
    BY <1>1, SameRequest, Zenon
  <2>4. Handed'
    BY <1>1, <1>3, <1>4, <2>3, Zenon DEF Handed, Resolved
  <2>5. TlsStage'
    BY <1>1, <1>3, <1>8, <2>1, <2>2 DEF TlsStage
  <2>6. HeadStage' /\ HeaderStage' /\ ReplayStage'
    BY <1>1, <1>3, <2>1, <2>2 DEF HeadStage, HeaderStage, ReplayStage, AboveTls
  <2>7. SourceSound'
    BY <1>1, <1>3, <2>3 DEF SourceSound, Resolved
  <2> QED BY <1>5, <1>6, <2>4, <2>5, <2>6, <2>7, Zenon DEF DInv
<1> QED BY <1>7, <1>8

\* Admission by the resolved source preserves the invariant.
LEMMA AdmitStep ==
    ASSUME DInv, Admit
    PROVE  DInv'
<1>1. /\ pc = "admission" /\ pc' \in {"head", "closed"}
      /\ UNCHANGED <<tls, trusted, port, client, gone, taken, buf, proxied, peeked, source,
                     verified, upper, replayed, answer>>
  BY DEF Admit, config, request
<1>2. Socket' = Socket /\ Meant' = Meant /\ Consumable(client.header)' = Consumable(client.header)
  BY <1>1, SameRequest, Zenon
<1>3. TypeOK'
  BY <1>1, <1>2, Zenon DEF DInv, TypeOK, IsStream
<1>4. AnswerMatchesRequest'
  BY <1>1 DEF DInv, AnswerMatchesRequest
<1>5. CASE pc' = "closed"
  BY <1>3, <1>4, <1>5, Closed, Zenon
<1>6. CASE pc' = "head"
  <2>1. Handed'
    BY <1>1, <1>2, <1>6, Zenon DEF DInv, Handed, Resolved, Unread, Pending
  <2>2. TlsStage' /\ HeaderStage'
    BY <1>1, <1>6 DEF DInv, TlsStage, HeaderStage
  <2>3. HeadStage'
    <3>1. Len(<<>>) = 0 /\ Len(<<>>) < MaxHead
      BY HeadAssumption
    <3>2. buf' = <<>> /\ AboveTls(upper)' = <<>>
      BY <1>1 DEF DInv, HeadStage, AboveTls
    <3> QED BY <1>6, <3>1, <3>2 DEF HeadStage
  <2>4. ReplayStage'
    BY <1>1, <1>6, Zenon DEF DInv, ReplayStage
  <2>5. SourceSound'
    BY <1>1, <1>2, <1>6 DEF DInv, SourceSound, Resolved
  <2> QED BY <1>3, <1>4, <2>1, <2>2, <2>3, <2>4, <2>5, Zenon DEF DInv
<1> QED BY <1>1, <1>5, <1>6

\* Bytes that follow the handshake reach the head reader.
LEMMA AboveMore ==
    ASSUME NEW s \in Seq(Nat), NEW t \in Seq(Nat), tls /\ port = "wire" => s # <<>>
    PROVE  AboveTls(s \o t) = AboveTls(s) \o t /\ AboveTls(s) \in Seq(Nat)
  BY Glued, Zenon DEF AboveTls

\* The WebSocket layer's reads, replayed or fresh, preserve the invariant.
LEMMA WsReadStep ==
    ASSUME DInv, WsRead
    PROVE  DInv'
<1>1. /\ pc \in {"handshake", "relay"}
      /\ UNCHANGED <<tls, trusted, port, client, gone, buf, source, verified, answer>>
  BY DEF WsRead, config, request
<1>11. PICK n \in 1..MaxChunk : \E bytes \in Pieces(n) :
        /\ bytes # <<>>
        /\ \/ /\ Pending(peeked) # <<>>
              /\ bytes = FromPrefix(peeked, n)
              /\ peeked' = Advance(peeked, bytes)
              /\ UNCHANGED <<proxied, taken, upper>>
           \/ /\ Pending(peeked) = <<>>
              /\ ProxiedRead(n, bytes)
              /\ UNCHANGED peeked
        /\ replayed' = replayed \o bytes
        /\ pc' = IF Len(replayed') >= Len(peeked.prefix) THEN "relay" ELSE pc
  BY DEF WsRead
<1>2. PICK bytes :
        /\ bytes # <<>>
        /\ \/ /\ Pending(peeked) # <<>>
              /\ bytes = FromPrefix(peeked, n)
              /\ peeked' = Advance(peeked, bytes)
              /\ UNCHANGED <<proxied, taken, upper>>
           \/ /\ Pending(peeked) = <<>>
              /\ ProxiedRead(n, bytes)
              /\ UNCHANGED peeked
        /\ replayed' = replayed \o bytes
        /\ pc' = IF Len(replayed') >= Len(peeked.prefix) THEN "relay" ELSE pc
  BY <1>11
<1>3. /\ TypeOK /\ client \in Clients /\ Handed /\ TlsStage /\ SourceSound /\ AnswerMatchesRequest
      /\ port = "wire" /\ replayed \o Pending(peeked) = AboveTls(upper)
      /\ replayed \in Seq(Nat) /\ upper \in Seq(Nat) /\ IsStream(peeked) /\ IsStream(proxied)
      /\ taken \in 0..Len(Socket)
      /\ tls /\ port = "wire" => upper # <<>>
  BY <1>1 DEF DInv, TypeOK, TlsStage, ReplayStage
<1>4. pc' \in {"handshake", "relay"}
  BY <1>1, <1>2
<1>5. Socket' = Socket /\ Meant' = Meant /\ Consumable(client.header)' = Consumable(client.header)
  BY <1>1, SameRequest
<1>6. n \in Nat \ {0}
  BY FrontAssumption
<1>7. SourceSound' /\ AnswerMatchesRequest'
  BY <1>1, <1>3, <1>5, Zenon DEF SourceSound, AnswerMatchesRequest, Resolved
<1>8. HeaderStage' /\ HeadStage'
  BY <1>4 DEF HeaderStage, HeadStage
<1>9. CASE /\ Pending(peeked) # <<>>
           /\ bytes = FromPrefix(peeked, n)
           /\ peeked' = Advance(peeked, bytes)
           /\ UNCHANGED <<proxied, taken, upper>>
  <2>1. /\ bytes \in Seq(Nat) /\ IsStream(Advance(peeked, bytes))
        /\ Pending(peeked) = bytes \o Pending(Advance(peeked, bytes))
    BY <1>3, <1>6, <1>9, PrefixFacts, Zenon
  <2>2. PICK q : q = Pending(Advance(peeked, bytes))
    OBVIOUS
  <2>3. q \in Seq(Nat) /\ Pending(peeked)' = q
    BY <1>9, <2>1, <2>2, PendingType DEF Pending
  <2>4. replayed' \in Seq(Nat)
    BY <1>2, <1>3, <2>1, GluedType
  <2>5. TypeOK'
    BY <1>1, <1>3, <1>4, <1>5, <1>9, <2>1, <2>4, Zenon DEF TypeOK, IsStream
  <2>6. Handed'
    BY <1>1, <1>3, <1>5, <1>9, Zenon DEF Handed, Resolved, Unread, Pending
  <2>7. TlsStage'
    BY <1>1, <1>3, <1>4, <1>9 DEF TlsStage
  <2>8. ReplayStage'
    <3>1. replayed \o (bytes \o q) = (replayed \o bytes) \o q
      BY <1>3, <2>1, <2>3, Assoc, Zenon
    <3>2. AboveTls(upper)' = AboveTls(upper)
      BY <1>1, <1>9 DEF AboveTls
    <3> QED BY <1>2, <1>3, <1>4, <2>1, <2>2, <2>3, <3>1, <3>2, Zenon DEF ReplayStage
  <2> QED BY <1>7, <1>8, <2>5, <2>6, <2>7, <2>8 DEF DInv
<1>10. CASE Pending(peeked) = <<>> /\ ProxiedRead(n, bytes) /\ UNCHANGED peeked
  <2>1. /\ bytes \in Seq(Nat)
        /\ taken' \in 0..Len(Socket) /\ IsStream(proxied')
        /\ upper' = upper \o bytes /\ upper' \in Seq(Nat)
        /\ upper' \o Pending(proxied)' \o Unread' = upper \o Pending(proxied) \o Unread
    BY <1>1, <1>2, <1>3, <1>6, <1>10, ProxiedReadStep, Zenon
  <2>2. replayed' \in Seq(Nat)
    BY <1>2, <1>3, <2>1, GluedType
  <2>3. TypeOK'
    BY <1>1, <1>3, <1>4, <1>5, <1>10, <2>1, <2>2 DEF TypeOK, IsStream
  <2>4. Handed'
    BY <1>1, <1>3, <1>5, <2>1, Zenon DEF Handed, Resolved
  <2>5. upper # <<>> => upper' # <<>> /\ upper'[1] = upper[1]
    BY <1>3, <2>1
  <2>6. TlsStage'
    BY <1>1, <1>3, <1>4, <2>5 DEF TlsStage
  <2>7. ReplayStage'
    <3>1. AboveTls(upper \o bytes) = AboveTls(upper) \o bytes
      BY <1>3, <2>1, AboveMore, Zenon
    <3>2. replayed \o <<>> = replayed /\ replayed' \o <<>> = replayed'
      BY <1>3, <2>2, Glued
    <3>3. AboveTls(upper)' = AboveTls(upper')
      BY <1>1 DEF AboveTls
    <3>4. Pending(peeked)' = <<>>
      BY <1>10 DEF Pending
    <3> QED BY <1>2, <1>3, <1>4, <1>10, <2>1, <3>1, <3>2, <3>3, <3>4, Zenon DEF ReplayStage
  <2> QED BY <1>7, <1>8, <2>3, <2>4, <2>6, <2>7 DEF DInv
<1> QED BY <1>2, <1>9, <1>10

\* The PROXY signature begins with an empty line.
LEMMA SignatureOpens ==
    Signature[1] = CRLF /\ Signature[2] = CRLF /\ Len(Signature) >= 2
<1>1. Signature \in Seq(Nat) /\ Len(Signature) >= 2 /\ SubSeq(Signature, 1, 2) = <<CRLF, CRLF>>
  BY ProxyAssumption, FrontAssumption DEF Terminator
<1>2. SubSeq(Signature, 1, 2)[1] = Signature[1] /\ SubSeq(Signature, 1, 2)[2] = Signature[2]
  BY <1>1
<1>3. <<CRLF, CRLF>>[1] = CRLF /\ <<CRLF, CRLF>>[2] = CRLF
  OBVIOUS
<1> QED BY <1>1, <1>2, <1>3, Zenon

\* A head that begins with an empty line does not parse.
LEMMA BlankFirstLine ==
    ASSUME NEW now \in Seq(Nat), Len(now) >= 2, now[1] = CRLF
    PROVE  ~ParseRequestHead(now).ok
<1>1. 1 \in DOMAIN now /\ now[1] = CRLF /\ \A j \in 1..(1 - 1) : now[j] # CRLF
  OBVIOUS
<1>2. /\ FirstCrlf(now) \in DOMAIN now
      /\ \A j \in 1..(FirstCrlf(now) - 1) : now[j] # CRLF
  BY <1>1, Zenon DEF FirstCrlf
<1>3. FirstCrlf(now) \in Nat /\ FirstCrlf(now) >= 1
  BY <1>2
<1>4. FirstCrlf(now) = 1
  <2> SUFFICES ASSUME FirstCrlf(now) >= 2 PROVE FALSE
    BY <1>3
  <2>1. 1 \in 1..(FirstCrlf(now) - 1)
    BY <1>3
  <2> QED BY <1>2, <2>1
<1>5. ParseRequestHead(now) = ParseError
  BY <1>4 DEF ParseRequestHead
<1> QED BY <1>5 DEF ParseError

\* A head that begins with a TLS record does not parse.
LEMMA NoHelloInText ==
    ASSUME NEW now \in Seq(Nat), Len(now) >= 1, now[1] >= FirstHello
    PROVE  ~ParseRequestHead(now).ok
<1>1. 1 \in DOMAIN now
  OBVIOUS
<1>2. ParseRequestHead(now) = ParseError
  BY <1>1 DEF ParseRequestHead
<1> QED BY <1>2 DEF ParseError

\* Slices of the front are not changed by what is glued behind.
LEMMA Opening ==
    ASSUME NEW s \in Seq(Nat), NEW t \in Seq(Nat), NEW n \in 0..Len(s)
    PROVE  SubSeq(s \o t, 1, n) = SubSeq(s, 1, n)
  OBVIOUS

\* Bytes that end with the first terminator of the client's stream are the
\* client's head.
LEMMA HeadEnds ==
    ASSUME client \in Clients, NEW now \in Seq(Nat), NEW rest \in Seq(Nat),
           now \o rest = client.head \o client.body,
           EndsWithTerminator(now),
           \A n \in 1..(Len(now) - 1) : ~EndsWithTerminator(SubSeq(now, 1, n))
    PROVE  now = client.head
<1> DEFINE h == client.head
           b == client.body
<1>1. h \in Seq(Nat) /\ b \in Seq(Nat)
  BY ClientParts
<1>2. /\ \A n \in 1..(Len(h) - 1) : ~EndsWithTerminator(SubSeq(h, 1, n))
      /\ b # <<>> => EndsWithTerminator(h)
  BY FrontAssumption, Zenon DEF IsClient
<1> HIDE DEF h, b
<1>3. now \o rest = h \o b
  BY DEF h, b
<1>4. Len(now) \in Nat /\ Len(h) \in Nat /\ Len(now) >= 2
  BY <1>1 DEF EndsWithTerminator
<1>5. /\ Len(now) <= Len(h) => now = SubSeq(h, 1, Len(now))
      /\ Len(h) <= Len(now) => h = SubSeq(now, 1, Len(h))
      /\ Len(now) + Len(rest) = Len(h) + Len(b)
  <2> DEFINE hb == h \o b
             nr == now \o rest
  <2>1. nr = hb
    BY <1>3
  <2>2. /\ Len(hb) = Len(h) + Len(b) /\ Len(nr) = Len(now) + Len(rest)
    BY <1>1, GluedType, Zenon
  <2>3. SubSeq(hb, 1, Len(h)) = h /\ SubSeq(nr, 1, Len(now)) = now
    BY <1>1, Glued, Zenon
  <2>4. Len(now) <= Len(h) => SubSeq(hb, 1, Len(now)) = SubSeq(h, 1, Len(now))
    BY <1>1, <1>4, Opening
  <2>5. ASSUME Len(h) <= Len(now) PROVE SubSeq(nr, 1, Len(h)) = SubSeq(now, 1, Len(h))
    <3>1. Len(h) \in 0..Len(now)
      BY <1>4, <2>5
    <3> QED BY <3>1, Opening, Zenon
  <2> HIDE DEF hb, nr
  <2> QED BY <2>1, <2>2, <2>3, <2>4, <2>5, Zenon
<1>6. CASE Len(now) < Len(h)
  <2>1. Len(now) \in 1..(Len(h) - 1) /\ Len(now) <= Len(h)
    BY <1>4, <1>6
  <2> QED BY <1>2, <1>5, <2>1, Zenon
<1>7. CASE Len(now) > Len(h)
  <2>1. b # <<>>
    <3>1. Len(rest) \in Nat
      OBVIOUS
    <3>2. Len(b) # 0
      BY <1>1, <1>4, <1>5, <1>7, <3>1
    <3>3. Len(<<>>) = 0
      OBVIOUS
    <3> QED BY <3>2, <3>3, Zenon
  <2>2. EndsWithTerminator(h)
    BY <1>2, <2>1
  <2>3. Len(h) >= 2
    BY <2>2 DEF EndsWithTerminator
  <2>4. Len(h) \in 1..(Len(now) - 1) /\ Len(h) <= Len(now)
    BY <1>4, <1>7, <2>3
  <2> QED BY <1>5, <2>2, <2>4, Zenon
<1>8. CASE Len(now) = Len(h)
  <2>1. SubSeq(h, 1, Len(h)) = h
    BY <1>1, ListWhole
  <2>2. Len(now) <= Len(h)
    BY <1>4, <1>8
  <2>3. now = h
    BY <1>5, <1>8, <2>1, <2>2, Zenon
  <2> QED BY <2>3 DEF h
<1> QED BY <1>4, <1>6, <1>7, <1>8

\* A head that parses is the client's own: the first bytes after the PROXY
\* header and the handshake, up to the first empty line.  A header that was
\* not taken off the stream, and a handshake on a plain listener, never parse.
LEMMA HeadIs ==
    ASSUME client \in Clients, NEW up \in Seq(Nat), NEW rest \in Seq(Nat),
           NEW now \in Seq(Nat), now = AboveTls(up), up \o rest = Meant,
           tls /\ port = "wire" => up # <<>> /\ TlsAccepts(up[1]),
           EndsWithTerminator(now),
           \A n \in 1..(Len(now) - 1) : ~EndsWithTerminator(SubSeq(now, 1, n)),
           ParseRequestHead(now).ok
    PROVE  now = client.head
<1> DEFINE a == client.hello
           h == client.head
           b == client.body
           hb == h \o b
           secured == tls /\ port = "wire"
<1>1. /\ a \in Seq(Nat) /\ h \in Seq(Nat) /\ b \in Seq(Nat) /\ hb \in Seq(Nat)
      /\ Rest \in Seq(Nat) /\ Rest = a \o hb
  <2>1. a \in Seq(Nat) /\ h \in Seq(Nat) /\ b \in Seq(Nat)
    BY ClientParts
  <2>2. Rest \in Seq(Nat) /\ Rest = a \o hb
    BY RestParts, SocketParts, Zenon
  <2>3. h \o b \in Seq(Nat)
    BY <2>1, GluedType
  <2> QED BY <2>1, <2>2, <2>3
<1>2. /\ \/ a = <<>> /\ (h # <<>> => h[1] \notin DOMAIN Handshake)
         \/ \E t \in DOMAIN Handshake : a = <<t>>
      /\ b # <<>> => EndsWithTerminator(h)
  BY FrontAssumption, Zenon DEF IsClient
<1>3. \A t \in DOMAIN Handshake : t \in Nat /\ t >= FirstHello
  BY FrontAssumption
<1>4. Len(now) >= 2 /\ now # <<>> /\ Len(now) \in Nat
  <2>1. Len(now) >= 2 /\ Len(now) \in Nat
    BY DEF EndsWithTerminator
  <2>2. Len(<<>>) = 0 /\ Len(now) # 0
    BY <2>1
  <2> QED BY <2>1, <2>2, Zenon
<1>5. secured => up # <<>> /\ up[1] \in DOMAIN Handshake
  BY DEF TlsAccepts
<1>6. up # <<>>
  BY <1>4, <1>5 DEF AboveTls
<1>7. CASE Meant = Rest
  <2>1. now \o rest = hb
    <3>1. CASE a = <<>> /\ (h # <<>> => h[1] \notin DOMAIN Handshake)
      <4>1. Rest = hb
        BY <1>1, <3>1, Glued
      <4>2. ~secured
        <5> SUFFICES ASSUME secured PROVE FALSE
          OBVIOUS
        <5>1. CASE h # <<>>
          <6>1. up \o rest = h \o b
            BY <1>7, <4>1
          <6>2. up[1] = h[1]
            <7> HIDE DEF h, b
            <7>1. (up \o rest)[1] = up[1]
              BY <1>6, Glued
            <7>2. (h \o b)[1] = h[1]
              BY <1>1, <5>1, Glued
            <7> QED BY <6>1, <7>1, <7>2
          <6> QED BY <1>5, <3>1, <5>1, <6>2
        <5>2. CASE h = <<>>
          <6>1. b = <<>>
            BY <1>2, <5>2 DEF EndsWithTerminator
          <6>2. up \o rest = <<>>
            BY <1>7, <4>1, <5>2, <6>1
          <6> QED BY <1>6, <6>2
        <5> QED BY <5>1, <5>2
      <4> QED BY <1>7, <4>1, <4>2, Zenon DEF AboveTls
    <3>2. ASSUME NEW t \in DOMAIN Handshake, a = <<t>> PROVE now \o rest = hb
      <4>1. a # <<>> /\ a[1] = t /\ Tail(a) = <<>> /\ t \in Nat /\ t >= FirstHello
        BY <1>3, <3>2
      <4>2. secured
        <5> SUFFICES ASSUME ~secured PROVE FALSE
          OBVIOUS
        <5>1. now = up
          BY DEF AboveTls
        <5>2. now[1] = t
          <6>1. up \o rest = a \o hb
            BY <1>1, <1>7
          <6>2. up[1] = a[1]
            <7> HIDE DEF a, hb
            <7>1. (up \o rest)[1] = up[1]
              BY <1>6, Glued
            <7>2. (a \o hb)[1] = a[1]
              BY <1>1, <4>1, Glued
            <7> QED BY <6>1, <7>1, <7>2
          <6> QED BY <4>1, <5>1, <6>2, Zenon
        <5> QED BY <1>4, <4>1, <5>2, NoHelloInText
      <4>3. now = Tail(up)
        BY <4>2, Zenon DEF AboveTls
      <4>4. Tail(up \o rest) = Tail(up) \o rest /\ Tail(a \o hb) = Tail(a) \o hb
        BY <1>1, <1>6, <4>1, Glued, Zenon
      <4>5. <<>> \o hb = hb
        BY <1>1, Glued
      <4> QED BY <1>1, <1>7, <4>1, <4>3, <4>4, <4>5, Zenon
    <3> QED BY <1>2, <3>1, <3>2, Zenon
  <2> QED BY <2>1, HeadEnds, Zenon
<1>8. CASE Meant # Rest
  <2>1. Meant = Socket /\ client.header.sig
    BY <1>8, SocketParts, Zenon DEF Meant, Rest
  <2> DEFINE hd == HeaderBytes(client.header)
  <2>2. hd \in Seq(Nat) /\ Socket = hd \o Rest
    BY SocketParts, ClientParts, Zenon
  <2>3. hd # <<>> /\ hd[1] = CRLF
    <3> DEFINE x == client.header
               mid == <<16 * x.ver + x.cmd, x.family, x.len>>
               f == Signature \o mid
    <3>1. hd = f \o x.block /\ mid \in Seq(Nat) /\ f \in Seq(Nat)
      BY <2>1, HeaderParts, Zenon
    <3>2. Signature \in Seq(Nat) /\ Signature # <<>> /\ x.block \in Seq(Nat)
      BY ProxyAssumption, ClientParts
    <3> HIDE DEF mid
    <3>3. f # <<>> /\ f[1] = Signature[1]
      BY <3>1, <3>2
    <3> HIDE DEF f, x
    <3>4. hd # <<>> /\ hd[1] = f[1]
      BY <3>1, <3>2, <3>3
    <3> QED BY <3>3, <3>4, SignatureOpens
  <2>4. up[1] = CRLF
    <3> HIDE DEF hd
    <3>1. up \o rest = hd \o Rest
      BY <2>1, <2>2
    <3>2. up[1] = hd[1]
      <4>1. (up \o rest)[1] = up[1]
        BY <1>6, Glued
      <4>2. (hd \o Rest)[1] = hd[1]
        BY <1>1, <2>2, <2>3, Glued, Zenon
      <4> QED BY <3>1, <4>1, <4>2
    <3> QED BY <2>3, <3>2
  <2>5. ~secured
    BY <1>3, <1>5, <2>4 DEF CRLF, FirstHello
  <2>6. now[1] = CRLF
    BY <2>4, <2>5 DEF AboveTls
  <2> QED BY <1>4, <2>6, BlankFirstLine
<1> QED BY <1>7, <1>8, Zenon

\* decide_redirect never answers with a live document.
LEMMA PlainIsDead ==
    ASSUME NEW host, NEW path
    PROVE  DecideRedirect(host, path).body \notin LivePaths
<1>1. RouteStun(path) \in {Response(200, "stun_page", "none"), Response(200, "/stun.json", "no-store"),
                           Response(200, "asset", "immutable"), NotFound}
  BY DEF RouteStun
<1>2. DecideRedirect(host, path) \in {Response(200, "stun_page", "none"), Response(200, "/stun.json", "no-store"),
                           Response(200, "asset", "immutable"), NotFound, Redirected}
  BY <1>1 DEF DecideRedirect
<1>3. DecideRedirect(host, path).body \in {"stun_page", "/stun.json", "asset", "none"}
  BY <1>2 DEF Response, NotFound, Redirected
<1> QED BY <1>3 DEF LivePaths

\* One more byte keeps every earlier slice.
LEMMA Longer ==
    ASSUME NEW s \in Seq(Nat), NEW t \in Seq(Nat), Len(t) = 1
    PROVE  /\ s \o t \in Seq(Nat) /\ Len(s \o t) = Len(s) + 1
           /\ \A n \in 1..Len(s) : SubSeq(s \o t, 1, n) = SubSeq(s, 1, n)
           /\ SubSeq(s \o t, 1, Len(s) + 1) = s \o t
<1>1. s \o t \in Seq(Nat) /\ Len(s \o t) = Len(s) + 1
  BY GluedType, Zenon
<1>2. \A n \in 1..Len(s) : SubSeq(s \o t, 1, n) = SubSeq(s, 1, n)
  BY Opening
<1>3. SubSeq(s \o t, 1, Len(s) + 1) = s \o t
  BY <1>1, ListWhole
<1> QED BY <1>1, <1>2, <1>3

\* A byte of the request head preserves the invariant: an unparsable head, an
\* HTTP answer, the hand-over to the WebSocket handshake, a full buffer, or
\* another byte to wait for.
LEMMA ReadHeadStep ==
    ASSUME DInv, ReadHead
    PROVE  DInv'
<1>1. /\ pc = "head"
      /\ UNCHANGED <<tls, trusted, port, client, gone, source, verified, replayed>>
  BY DEF ReadHead, config, request
<1>2. PICK byte :
        /\ byte # <<>>
        /\ ProxiedRead(1, byte)
        /\ \/ EndsWithTerminator(buf \o byte) /\ HeadDone(buf \o byte)
           \/ /\ ~EndsWithTerminator(buf \o byte)
              /\ HeadFull(buf \o byte)
              /\ Close
              /\ UNCHANGED <<peeked, answer>>
           \/ /\ ~EndsWithTerminator(buf \o byte)
              /\ ~HeadFull(buf \o byte)
              /\ buf' = buf \o byte
              /\ UNCHANGED <<pc, peeked, answer>>
  BY DEF ReadHead
<1>3. /\ TypeOK /\ client \in Clients /\ Handed /\ TlsStage /\ SourceSound /\ AnswerMatchesRequest
      /\ buf \in Seq(Nat) /\ upper \in Seq(Nat) /\ replayed = <<>>
      /\ IsStream(proxied) /\ IsStream(peeked) /\ taken \in 0..Len(Socket)
      /\ buf = AboveTls(upper) /\ Len(buf) < MaxHead
      /\ \A n \in 1..Len(buf) : ~EndsWithTerminator(SubSeq(buf, 1, n))
      /\ tls /\ port = "wire" => upper # <<>> /\ TlsAccepts(upper[1])
  BY <1>1 DEF DInv, TypeOK, TlsStage, HeadStage, ReplayStage
<1>4. Socket' = Socket /\ Meant' = Meant /\ Consumable(client.header)' = Consumable(client.header)
  BY <1>1, SameRequest
<1>5. /\ byte \in Seq(Nat) /\ Len(byte) = 1
      /\ taken' \in 0..Len(Socket) /\ IsStream(proxied')
      /\ upper' = upper \o byte /\ upper' \in Seq(Nat)
      /\ upper' \o Pending(proxied)' \o Unread' = upper \o Pending(proxied) \o Unread
  <2>1. /\ byte \in Seq(Nat) /\ Len(byte) >= 1 /\ Len(byte) <= 1
        /\ taken' \in 0..Len(Socket) /\ IsStream(proxied')
        /\ upper' = upper \o byte /\ upper' \in Seq(Nat)
        /\ upper' \o Pending(proxied)' \o Unread' = upper \o Pending(proxied) \o Unread
    <3>1. 1 \in Nat \ {0}
      OBVIOUS
    <3> QED BY <1>1, <1>2, <1>3, <3>1, ProxiedReadStep, Zenon
  <2>2. Len(byte) = 1
    BY <2>1, Single, Zenon
  <2> QED BY <2>1, <2>2
<1> DEFINE now == buf \o byte
<1>6. /\ now \in Seq(Nat) /\ Len(now) = Len(buf) + 1
      /\ \A n \in 1..Len(buf) : SubSeq(now, 1, n) = SubSeq(buf, 1, n)
      /\ SubSeq(now, 1, Len(buf) + 1) = now
  BY <1>3, <1>5, Longer, Zenon
<1>7. now = AboveTls(upper') /\ AboveTls(upper)' = AboveTls(upper')
  <2>1. AboveTls(upper \o byte) = AboveTls(upper) \o byte
    BY <1>3, <1>5, AboveMore, Zenon
  <2> QED BY <1>1, <1>3, <1>5, <2>1, Zenon DEF AboveTls
<1>8. upper # <<>> => upper' # <<>> /\ upper'[1] = upper[1]
  BY <1>3, <1>5
<1>9. upper' \o Pending(proxied)' \o Unread' = Meant
  BY <1>1, <1>3, <1>5, Zenon DEF Handed, Resolved
<1>10. \A n \in 1..(Len(now) - 1) : ~EndsWithTerminator(SubSeq(now, 1, n))
  <2> SUFFICES ASSUME NEW n \in 1..(Len(now) - 1) PROVE ~EndsWithTerminator(SubSeq(now, 1, n))
    OBVIOUS
  <2> HIDE DEF now
  <2>1. Len(buf) \in Nat
    BY <1>3
  <2>2. n \in 1..Len(buf)
    BY <1>6, <2>1
  <2> QED BY <1>3, <1>6, <2>2, Zenon
<1>11. Len(now) <= MaxHead
  BY <1>3, <1>6, HeadAssumption
<1>12. EndsWithTerminator(now) /\ ParseRequestHead(now).ok => now = client.head
  <2> SUFFICES ASSUME EndsWithTerminator(now), ParseRequestHead(now).ok PROVE now = client.head
    OBVIOUS
  <2>1. PICK p \in Seq(Nat) : p = Pending(proxied)'
    BY <1>5, PendingType, Zenon DEF Pending
  <2>2. PICK u \in Seq(Nat) : u = Unread'
    <3>1. Unread' = SubSeq(Socket, taken' + 1, Len(Socket))
      BY <1>4 DEF Unread
    <3> QED BY <1>3, <1>5, <3>1, Split, ClientParts, Zenon
  <2>3. upper' \o (p \o u) = (upper' \o p) \o u
    BY <1>5, Assoc, Zenon
  <2>4. PICK rest \in Seq(Nat) : rest = p \o u
    BY GluedType, Zenon
  <2>5. PICK up \in Seq(Nat) : up = upper'
    BY <1>5, Zenon
  <2>6. up \o rest = Meant
    BY <1>9, <2>1, <2>2, <2>3, <2>4, <2>5, Zenon
  <2>7. tls /\ port = "wire" => up # <<>> /\ TlsAccepts(up[1])
    BY <1>3, <1>8, <2>5
  <2>8. now = AboveTls(up)
    BY <1>7, <2>5
  <2> HIDE DEF now
  <2> QED BY <1>3, <1>6, <1>10, <2>6, <2>7, <2>8, HeadIs, Zenon
<1> HIDE DEF now
<1>13. ASSUME buf' \in Seq(Nat), pc' \in {"head", "handshake", "closed"}, IsStream(peeked')
       PROVE  TypeOK'
  BY <1>1, <1>3, <1>4, <1>5, <1>13, Zenon DEF TypeOK, IsStream
<1>14. <<>> \in Seq(Nat)
  OBVIOUS
<1>15. CASE Close /\ UNCHANGED <<peeked, answer>>
  <2>1. TypeOK'
    BY <1>3, <1>13, <1>14, <1>15, Zenon DEF Close, IsStream
  <2>2. AnswerMatchesRequest'
    BY <1>1, <1>3, <1>15 DEF AnswerMatchesRequest
  <2> QED BY <1>15, <2>1, <2>2, Closed, Zenon DEF Close
<1>16. CASE /\ EndsWithTerminator(now) /\ ParseRequestHead(now).ok
            /\ port = "plain" \/ ~ParseRequestHead(now).upgrade
            /\ answer' = IF port = "plain"
                         THEN DecideRedirect(ParseRequestHead(now).host, PathOf[ParseRequestHead(now).target])
                         ELSE ServeHttp(ParseRequestHead(now).host, PathOf[ParseRequestHead(now).target])
            /\ Close /\ UNCHANGED peeked
  <2>1. TypeOK'
    BY <1>3, <1>13, <1>14, <1>16, Zenon DEF Close, IsStream
  <2>2. now = client.head
    BY <1>12, <1>16
  <2>3. port \in {"plain", "wire"}
    BY <1>3 DEF TypeOK
  <2> DEFINE r == ParseRequestHead(client.head)
             path == PathOf[r.target]
  <2>4. /\ r.ok /\ Len(client.head) <= MaxHead
        /\ port = "plain" \/ ~r.upgrade
        /\ answer' = IF port = "plain" THEN DecideRedirect(r.host, path) ELSE ServeHttp(r.host, path)
    BY <1>11, <1>16, <2>2
  <2>5. DecideRedirect(r.host, path).body \notin LivePaths
    BY PlainIsDead, Zenon
  <2>6. AnswerMatchesRequest'
    BY <1>1, <2>3, <2>4, <2>5, Zenon DEF AnswerMatchesRequest
  <2> QED BY <1>16, <2>1, <2>6, Closed, Zenon DEF Close
<1>17. CASE /\ port = "wire" /\ pc' = "handshake" /\ peeked' = Replay(now)
            /\ buf' = <<>> /\ UNCHANGED answer
  <2>1. IsStream(Replay(now)) /\ Pending(Replay(now)) = now
    BY <1>6, ReplayFacts
  <2>2. TypeOK'
    BY <1>13, <1>14, <1>17, <2>1 DEF IsStream
  <2>3. Handed'
    BY <1>4, <1>9, <1>17 DEF Handed
  <2>4. TlsStage'
    BY <1>1, <1>3, <1>8, <1>17 DEF TlsStage
  <2>5. HeadStage' /\ HeaderStage'
    BY <1>17 DEF HeadStage, HeaderStage
  <2>6. ReplayStage'
    <3>1. <<>> \o now = now
      BY <1>6, Glued
    <3>2. Pending(peeked)' = now
      BY <1>17, <2>1 DEF Pending
    <3> QED BY <1>1, <1>3, <1>7, <1>17, <3>1, <3>2, Zenon DEF ReplayStage
  <2>7. SourceSound'
    BY <1>1, <1>3, <1>4, <1>17, Zenon DEF SourceSound, Resolved
  <2>8. AnswerMatchesRequest'
    BY <1>1, <1>3, <1>17 DEF AnswerMatchesRequest
  <2> QED BY <2>2, <2>3, <2>4, <2>5, <2>6, <2>7, <2>8, Zenon DEF DInv
<1>18. CASE /\ ~EndsWithTerminator(now) /\ ~HeadFull(now) /\ buf' = now
            /\ UNCHANGED <<pc, peeked, answer>>
  <2>1. TypeOK'
    BY <1>1, <1>3, <1>6, <1>13, <1>18, Zenon DEF IsStream
  <2>2. Handed'
    BY <1>4, <1>9 DEF Handed
  <2>3. TlsStage' /\ HeaderStage'
    BY <1>1, <1>3, <1>8, <1>18 DEF TlsStage, HeaderStage
  <2>4. HeadStage'
    <3>1. Len(now) < MaxHead
      BY <1>6, <1>18, HeadAssumption DEF HeadFull
    <3>2. \A n \in 1..Len(now) : ~EndsWithTerminator(SubSeq(now, 1, n))
      <4> SUFFICES ASSUME NEW n \in 1..Len(now) PROVE ~EndsWithTerminator(SubSeq(now, 1, n))
        OBVIOUS
      <4>1. Len(buf) \in Nat
        BY <1>3
      <4>2. n \in 1..(Len(now) - 1) \/ n = Len(buf) + 1
        BY <1>6, <4>1
      <4> QED BY <1>6, <1>10, <1>18, <4>2, Zenon
    <3> QED BY <1>1, <1>7, <1>18, <3>1, <3>2 DEF HeadStage
  <2>5. ReplayStage'
    BY <1>1, <1>3, <1>18, Zenon DEF ReplayStage
  <2>6. SourceSound'
    BY <1>1, <1>3, <1>4, <1>18, Zenon DEF SourceSound, Resolved
  <2>7. AnswerMatchesRequest'
    BY <1>1, <1>3, <1>18, Zenon DEF AnswerMatchesRequest
  <2> QED BY <2>1, <2>2, <2>3, <2>4, <2>5, <2>6, <2>7, Zenon DEF DInv
<1>19. CASE EndsWithTerminator(now) /\ HeadDone(now)
  BY <1>15, <1>16, <1>17, <1>19, Zenon DEF HeadDone
<1> QED BY <1>2, <1>15, <1>18, <1>19 DEF now

\* A step that changes nothing preserves the invariant.
LEMMA StutterStep ==
    ASSUME DInv, UNCHANGED vars
    PROVE  DInv'
<1>1. UNCHANGED <<tls, trusted, port, client, gone, taken, pc, buf, proxied, peeked,
          source, verified, upper, replayed, answer>>
  BY DEF vars
<1>2. Socket' = Socket /\ Meant' = Meant /\ Consumable(client.header)' = Consumable(client.header)
  BY <1>1, SameRequest
<1>3. TypeOK'
  BY <1>1, <1>2, Zenon DEF DInv, TypeOK, IsStream
<1>4. HeaderStage' /\ Handed'
  BY <1>1, <1>2, Zenon DEF DInv, HeaderStage, Handed, Resolved, Unread, Pending
<1>5. TlsStage' /\ HeadStage'
  BY <1>1 DEF DInv, TlsStage, HeadStage, AboveTls
<1>6. ReplayStage' /\ AnswerMatchesRequest'
  BY <1>1, Zenon DEF DInv, ReplayStage, AboveTls, AnswerMatchesRequest, Pending
<1>7. SourceSound'
  BY <1>1, <1>2 DEF DInv, SourceSound, Resolved
<1> QED BY <1>3, <1>4, <1>5, <1>6, <1>7 DEF DInv

\* DInv holds in every state of every connection, for every client, list and
\* split of the bytes.
THEOREM FrontDoorInvariant == Spec => []DInv
<1>1. DInv /\ [Next]_vars => DInv'
  <2> SUFFICES ASSUME DInv, [Next]_vars PROVE DInv'
    OBVIOUS
  <2>1. CASE AcceptWire
    BY <2>1, AcceptWireStep
  <2>2. CASE AcceptPlain
    BY <2>2, AcceptPlainStep, Zenon
  <2>3. CASE ReadFixed
    BY <2>3, ReadFixedStep
  <2>4. CASE ReadBlock
    BY <2>4, ReadBlockStep
  <2>5. CASE ProxyTimeout \/ WsRefused \/ RegisterTimeout \/ Eof
    BY <2>5, ClosingSteps, Zenon
  <2>6. CASE TlsAccept
    BY <2>6, TlsAcceptStep
  <2>7. CASE Admit
    BY <2>7, AdmitStep
  <2>8. CASE ReadHead
    BY <2>8, ReadHeadStep
  <2>9. CASE WsRead
    BY <2>9, WsReadStep
  <2>10. CASE Hangup
    BY <2>10, HangupStep
  <2>11. CASE UNCHANGED vars
    BY <2>11, StutterStep
  <2> QED BY <2>1, <2>2, <2>3, <2>4, <2>5, <2>6, <2>7, <2>8, <2>9, <2>10, <2>11, Zenon DEF Next
<1> QED BY <1>1, InitInv, PTL DEF Spec

\* PrefixedStream and Prefixed together lose, repeat and reorder nothing:
\* read_source_addr takes off exactly the header of a trusted proxy, unless it
\* cannot parse it, and the WebSocket handshake sees the peeked head again.
THEOREM ByteStreamIntact == Spec => []BytesIntact
<1>1. DInv => BytesIntact
  <2> SUFFICES ASSUME DInv PROVE BytesIntact
    OBVIOUS
  <2>1. Resolved => upper \o Pending(proxied) \o Unread = Meant
    BY DEF DInv, Handed
  <2>2. ASSUME pc \in {"handshake", "relay"}
        PROVE  replayed \o Pending(peeked) \o Pending(proxied) \o Unread = MeantAboveTls
    <3>1. /\ port = "wire" /\ upper \in Seq(Nat) /\ replayed \o Pending(peeked) = AboveTls(upper)
          /\ tls /\ port = "wire" => upper # <<>>
          /\ upper \o Pending(proxied) \o Unread = Meant
      BY <2>1, <2>2, Zenon DEF DInv, TypeOK, TlsStage, ReplayStage, Resolved
    <3>2. PICK p \in Seq(Nat) : p = Pending(proxied)
      BY PendingType DEF DInv, TypeOK
    <3>3. PICK u \in Seq(Nat) : u = Unread
      BY UnreadType DEF DInv, TypeOK
    <3>4. AboveTls(upper \o p) = AboveTls(upper) \o p /\ upper \o p \in Seq(Nat)
      BY <3>1, AboveMore, GluedType, Zenon
    <3>5. tls /\ port = "wire" => upper \o p # <<>>
      BY <3>1
    <3>6. AboveTls((upper \o p) \o u) = AboveTls(upper \o p) \o u
      BY <3>4, <3>5, AboveMore, Zenon
    <3>7. MeantAboveTls = AboveTls(Meant)
      BY <3>1 DEF MeantAboveTls, AboveTls
    <3> QED BY <3>1, <3>2, <3>3, <3>4, <3>6, <3>7, Zenon
  <2> QED BY <2>1, <2>2 DEF BytesIntact
<1> QED BY <1>1, FrontDoorInvariant, PTL

\* resolve_source takes the declared address only from a proxy on the list.
THEOREM SourceIsSound == Spec => []SourceSound
<1>1. DInv => SourceSound
  BY DEF DInv
<1> QED BY <1>1, FrontDoorInvariant, PTL

\* Every HTTP answer is the one that the client's own request calls for, and
\* the plain port never serves a live document.
THEOREM AnswersMatch == Spec => []AnswerMatchesRequest
<1>1. DInv => AnswerMatchesRequest
  BY DEF DInv
<1> QED BY <1>1, FrontDoorInvariant, PTL

\* Behind mTLS a connection is served only under the identity of a key whose
\* holder signed this very handshake.
THEOREM IdentityIsVerified == Spec => []VerifiedBehindTls
<1>1. DInv => VerifiedBehindTls
  <2> SUFFICES ASSUME DInv, port = "wire", pc \in {"admission", "head", "handshake", "relay"}
               PROVE  IF tls
                      THEN \E i \in DOMAIN Socket :
                              /\ Socket[i] \in DOMAIN Handshake
                              /\ Handshake[Socket[i]].signed
                              /\ verified = Handshake[Socket[i]].key
                      ELSE verified = Anonymous
    BY DEF VerifiedBehindTls
  <2>1. CASE ~tls
    BY <2>1 DEF DInv, TlsStage
  <2>2. CASE tls
    <3>1. /\ upper \in Seq(Nat) /\ upper # <<>> /\ TlsAccepts(upper[1])
          /\ verified = ExtractClientPeerId(upper[1]) /\ client \in Clients
          /\ upper \o Pending(proxied) \o Unread = Meant
      BY <2>2 DEF DInv, TypeOK, TlsStage, Handed, Resolved
    <3>2. PICK p \in Seq(Nat) : p = Pending(proxied)
      BY PendingType DEF DInv, TypeOK
    <3>3. PICK u \in Seq(Nat) : u = Unread
      BY UnreadType DEF DInv, TypeOK
    <3>4. Meant \in Seq(Nat) /\ Meant # <<>> /\ Meant[1] = upper[1]
      <4>1. PICK x \in Seq(Nat) : x = upper
        BY <3>1
      <4>2. x \o p \in Seq(Nat) /\ x \o p # <<>> /\ (x \o p)[1] = x[1]
        BY <3>1, <4>1
      <4>3. PICK y \in Seq(Nat) : y = x \o p
        BY <4>2, Zenon
      <4>4. y \o u \in Seq(Nat) /\ y \o u # <<>> /\ (y \o u)[1] = y[1]
        BY <4>2, <4>3
      <4> QED BY <3>1, <3>2, <3>3, <4>1, <4>2, <4>3, <4>4, Zenon
    <3>5. \E i \in DOMAIN Socket : Socket[i] = Meant[1]
      <4>1. CASE Meant = Socket
        BY <3>4, <4>1
      <4>2. CASE Meant = Rest
        <5>1. PICK h \in Seq(Nat) : Socket = h \o Rest
          BY <3>1, SocketParts, ClientParts, Zenon
        <5>2. PICK r \in Seq(Nat) : r = Rest /\ r # <<>> /\ r[1] = Meant[1]
          BY <3>4, <4>2
        <5>3. Len(h) + 1 \in DOMAIN (h \o r) /\ (h \o r)[Len(h) + 1] = r[1]
          BY <5>2
        <5> QED BY <5>1, <5>2, <5>3, Zenon
      <4> QED BY <4>1, <4>2, Zenon DEF Meant, Rest
    <3>6. PICK i \in DOMAIN Socket : Socket[i] = upper[1]
      BY <3>4, <3>5
    <3>7. /\ upper[1] \in DOMAIN Handshake /\ Handshake[upper[1]].signed
          /\ verified = Handshake[upper[1]].key
      BY <3>1 DEF TlsAccepts, VerifyClientCert, ExtractClientPeerId, PeerIdFromClientCertDer
    <3> QED BY <2>2, <3>6, <3>7
  <2> QED BY <2>1, <2>2
<1> QED BY <1>1, FrontDoorInvariant, PTL
==============================================================================
