----------------------------- MODULE DataLemmas ------------------------------
(*****************************************************************************)
(* Induction over data, in the form the provers can use: over the numbers    *)
(* and over the finite sets, by a least element of the set of what has not   *)
(* been shown.  From it, that definitions by recursion have a value, how the *)
(* sums the models take (FoldFunction over a finite domain) behave, and what *)
(* sizes and lists do.                                                       *)
(*****************************************************************************)
EXTENDS Integers, Sequences, FiniteSets, Functions, FiniteSetTheorems,
        WellFoundedInduction, TLAPS

-------------------------------------------------------------------------------
(* The numbers *)

\* A non-empty set of numbers has a least element.
LEMMA Least ==
    ASSUME NEW T, T \subseteq Nat, T # {}
    PROVE  \E x \in T : \A y \in T : x <= y
<1> DEFINE R == OpToRel(<, Nat)
<1>1. IsWellFoundedOn(R, Nat)
  BY NatLessThanWellFounded, Zenon
<1>2. PICK x \in T : \A y \in T : ~(<<y, x>> \in R)
  BY <1>1, WFMin, Zenon
<1>3. \A y \in T : ~(y < x)
  BY <1>2, Zenon DEF OpToRel
<1> QED BY <1>3

\* Induction over the numbers, for a set: the form the provers can use.
LEMMA Induction ==
    ASSUME NEW T, 0 \in T, \A n \in Nat : n \in T => n + 1 \in T
    PROVE  Nat \subseteq T
<1> SUFFICES ASSUME Nat \ T # {} PROVE FALSE
  OBVIOUS
<1>1. PICK x \in Nat \ T : \A y \in Nat \ T : x <= y
  BY Least, Zenon
<1>2. x - 1 \in Nat /\ x - 1 \in T
  BY <1>1
<1> QED BY <1>1, <1>2

\* f is the sequence that starts at a and is continued by g.
Recurs(f, a, g) == f[0] = a /\ \A n \in Nat : f[n + 1] = g[n + 1][f[n]]

\* A sequence defined by recursion exists: the least number up to which no
\* initial piece can be built leads to a contradiction.
LEMMA NatRecursion ==
    ASSUME NEW S, NEW f0 \in S, NEW g \in [Nat -> [S -> S]]
    PROVE  \E f \in [Nat -> S] : Recurs(f, f0, g)
<1> DEFINE Approx(n) == {h \in [0..n -> S] : h[0] = f0 /\ \A i \in 1..n : h[i] = g[i][h[i - 1]]}
           T == {n \in Nat : Approx(n) # {}}
<1>1. Nat \subseteq T
  <2>1. 0 \in T
    <3> DEFINE h == [i \in 0..0 |-> f0]
    <3>1. h \in Approx(0)
      OBVIOUS
    <3> QED BY <3>1
  <2>2. ASSUME NEW n \in Nat, n \in T PROVE n + 1 \in T
    <3>1. PICK h : h \in Approx(n)
      BY <2>2
    <3> DEFINE k == [i \in 0..(n + 1) |-> IF i = n + 1 THEN g[n + 1][h[n]] ELSE h[i]]
    <3>2. h \in [0..n -> S] /\ h[0] = f0 /\ \A i \in 1..n : h[i] = g[i][h[i - 1]]
      BY <3>1
    <3>3. k \in [0..(n + 1) -> S]
      BY <3>2
    <3>4. ASSUME NEW i \in 1..(n + 1) PROVE k[i] = g[i][k[i - 1]]
      <4>1. i \in 0..(n + 1) /\ i - 1 \in 0..(n + 1) /\ i - 1 # n + 1
        OBVIOUS
      <4>2. k[i - 1] = h[i - 1]
        BY <4>1
      <4>3. CASE i = n + 1
        BY <4>1, <4>2, <4>3
      <4>4. CASE i # n + 1
        BY <3>2, <4>1, <4>2, <4>4
      <4> QED BY <4>3, <4>4
    <3>5. k[0] = f0
      BY <3>2
    <3> HIDE DEF k
    <3>6. k \in Approx(n + 1)
      BY <3>3, <3>4, <3>5
    <3> HIDE DEF Approx
    <3> QED BY <3>6
  <2> HIDE DEF T
  <2> QED BY <2>1, <2>2, Induction
<1>2. ASSUME NEW m \in Nat, NEW n \in Nat, m <= n, NEW h \in Approx(m), NEW k \in Approx(n)
      PROVE  \A i \in 0..m : h[i] = k[i]
  <2> DEFINE U == {i \in Nat : i <= m => h[i] = k[i]}
  <2>1. 0 \in U
    BY <1>2
  <2>2. ASSUME NEW i \in Nat, i \in U PROVE i + 1 \in U
    <3>1. SUFFICES ASSUME i + 1 <= m PROVE h[i + 1] = k[i + 1]
      OBVIOUS
    <3>2. i + 1 \in 1..m /\ i + 1 \in 1..n /\ (i + 1) - 1 = i
      BY <1>2, <3>1
    <3>3. h[i] = k[i]
      BY <2>2, <3>1
    <3>4. h[i + 1] = g[i + 1][h[i]] /\ k[i + 1] = g[i + 1][k[i]]
      BY <1>2, <3>2
    <3> QED BY <3>3, <3>4
  <2>3. Nat \subseteq U
    <3> HIDE DEF U
    <3> QED BY <2>1, <2>2, Induction, Zenon
  <2> QED BY <2>3
<1> DEFINE A(n) == CHOOSE h : h \in Approx(n)
           f == [n \in Nat |-> A(n)[n]]
<1>3. \A n \in Nat : A(n) \in Approx(n)
  BY <1>1, Zenon
<1>4. f \in [Nat -> S]
  <2> SUFFICES ASSUME NEW n \in Nat PROVE A(n)[n] \in S
    BY Zenon
  <2>1. A(n) \in [0..n -> S]
    BY <1>3, Zenon
  <2> HIDE DEF A
  <2> QED BY <2>1
<1>5. ASSUME NEW n \in Nat PROVE f[n] = IF n = 0 THEN f0 ELSE g[n][f[n - 1]]
  <2>1. A(n) \in Approx(n) /\ (n # 0 => A(n - 1) \in Approx(n - 1))
    <3>1. n # 0 => n - 1 \in Nat
      OBVIOUS
    <3> HIDE DEF A, Approx
    <3> QED BY <1>3, <3>1
  <2>2. n # 0 => A(n - 1)[n - 1] = A(n)[n - 1]
    <3> HIDE DEF A, Approx
    <3> SUFFICES ASSUME n # 0 PROVE A(n - 1)[n - 1] = A(n)[n - 1]
      OBVIOUS
    <3>1. n - 1 \in Nat /\ n - 1 <= n /\ n - 1 \in 0..(n - 1)
      OBVIOUS
    <3> QED BY <1>2, <2>1, <3>1
  <2>3. n = 0 => A(n)[n] = f0
    <3> HIDE DEF A
    <3> QED BY <2>1
  <2>4. n # 0 => A(n)[n] = g[n][A(n)[n - 1]]
    <3> HIDE DEF A
    <3> QED BY <2>1
  <2> HIDE DEF A, Approx
  <2> QED BY <2>2, <2>3, <2>4
<1> HIDE DEF f
<1>6. f[0] = f0 /\ \A n \in Nat : f[n + 1] = g[n + 1][f[n]]
  <2>1. ASSUME NEW n \in Nat PROVE f[n + 1] = g[n + 1][f[n]]
    <3>1. n + 1 \in Nat /\ n + 1 # 0 /\ (n + 1) - 1 = n
      OBVIOUS
    <3> QED BY <1>5, <3>1
  <2> QED BY <1>5, <2>1
<1>7. Recurs(f, f0, g)
  BY <1>6 DEF Recurs
<1> QED BY <1>4, <1>7

\* Induction up to a bound.
LEMMA InductionUpTo ==
    ASSUME NEW n \in Nat, NEW T, 0 \in T, \A i \in 1..n : i - 1 \in T => i \in T
    PROVE  0..n \subseteq T
<1> DEFINE U == {i \in Nat : i <= n => i \in T}
<1>1. 0 \in U
  OBVIOUS
<1>2. ASSUME NEW i \in Nat, i \in U PROVE i + 1 \in U
  <2> SUFFICES ASSUME i + 1 <= n PROVE i + 1 \in T
    OBVIOUS
  <2>1. i + 1 \in 1..n /\ (i + 1) - 1 = i /\ i \in T
    BY <1>2
  <2> QED BY <2>1
<1>3. Nat \subseteq U
  <2> HIDE DEF U
  <2> QED BY <1>1, <1>2, Induction
<1> QED BY <1>3

\* f runs from a, its i-th value made by g[i] of the one before.
Runs(f, n, a, g) == f[0] = a /\ \A i \in 1..n : f[i] = g[i][f[i - 1]]

\* A bounded recursion, over a list say, has a value.
LEMMA ListRecursion ==
    ASSUME NEW S, NEW n \in Nat, NEW a \in S, NEW g \in [1..n -> [S -> S]]
    PROVE  \E f \in [0..n -> S] : Runs(f, n, a, g)
<1> DEFINE h == [i \in Nat |-> IF i \in 1..n THEN g[i] ELSE [x \in S |-> x]]
<1>1. h \in [Nat -> [S -> S]]
  OBVIOUS
<1>2. \A i \in 1..n : h[i] = g[i]
  OBVIOUS
<1> HIDE DEF h
<1>3. PICK f \in [Nat -> S] : Recurs(f, a, h)
  BY <1>1, NatRecursion, Zenon
<1> DEFINE k == [i \in 0..n |-> f[i]]
<1>4. k \in [0..n -> S]
  OBVIOUS
<1>5. k[0] = a
  BY <1>3 DEF Recurs
<1>6. ASSUME NEW i \in 1..n PROVE k[i] = g[i][k[i - 1]]
  <2>1. i - 1 \in Nat /\ (i - 1) + 1 = i /\ i - 1 \in 0..n /\ i \in 0..n
    OBVIOUS
  <2>2. f[i] = h[i][f[i - 1]]
    BY <1>3, <2>1, Zenon DEF Recurs
  <2> QED BY <1>2, <2>1, <2>2
<1> HIDE DEF k
<1>7. Runs(k, n, a, g)
  BY <1>5, <1>6, Zenon DEF Runs
<1> QED BY <1>4, <1>7

-------------------------------------------------------------------------------
(* The finite sets *)

\* C is a non-empty family of subsets of S.
Subfamily(C, S) == C \subseteq SUBSET S /\ C # {}
\* C has a member with none of the others inside it.
HasLeast(C) == \E T \in C : \A U \in C : U \subseteq T => U = T

\* A family of finite sets has a least one.
LEMMA Small ==
    ASSUME NEW S, IsFiniteSet(S), NEW C, Subfamily(C, S)
    PROVE  HasLeast(C)
<1>0. C \subseteq SUBSET S /\ C # {}
  BY DEF Subfamily
<1>1. IsWellFoundedOn(StrictSubsetOrdering(S), FiniteSubsetsOf(S))
  BY FS_StrictSubsetOrderingWellFounded
<1>2. C \subseteq FiniteSubsetsOf(S)
  BY <1>0, FS_Subset DEF FiniteSubsetsOf
<1>3. PICK T \in C : \A U \in C : ~(<<U, T>> \in StrictSubsetOrdering(S))
  BY <1>0, <1>1, <1>2, WFMin, Zenon
<1>4. \A U \in C : U \subseteq T => U = T
  BY <1>0, <1>3, Zenon DEF StrictSubsetOrdering
<1> QED BY <1>4 DEF HasLeast

\* The element a fold takes out of the set first.
Chosen(s) == CHOOSE x \in s : TRUE

\* The partial sums of f over the subsets of S, as the fold takes them.
Sums(f, S, h) ==
    /\ h \in [SUBSET S -> Nat]
    /\ \A s \in SUBSET S : h[s] = IF s = {} THEN 0 ELSE f[Chosen(s)] + h[s \ {Chosen(s)}]

\* It is an element of the set.
LEMMA ChosenIn == \A s : s # {} => Chosen(s) \in s
BY DEF Chosen

\* The partial sums over a set and over a part of it agree on that part.
LEMMA SumsAgree ==
    ASSUME NEW f, NEW S, IsFiniteSet(S), NEW T, T \subseteq S, NEW h, NEW k,
           Sums(f, S, h), Sums(f, T, k)
    PROVE  \A s \in SUBSET T : h[s] = k[s]
<1> DEFINE C == {s \in SUBSET T : h[s] # k[s]}
<1>1. ASSUME C # {} PROVE FALSE
  <2>1. IsFiniteSet(T)
    BY FS_Subset
  <2>2. PICK s \in C : \A U \in C : U \subseteq s => U = s
    <3>1. Subfamily(C, T)
      BY <1>1 DEF Subfamily
    <3> HIDE DEF C
    <3>2. HasLeast(C)
      BY <3>1, <2>1, Small, Zenon
    <3> QED BY <3>2 DEF HasLeast
  <2>3. s \in SUBSET T /\ s \in SUBSET S /\ h[s] # k[s]
    OBVIOUS
  <2>4. s # {}
    BY <2>3, Zenon DEF Sums
  <2>5. /\ h[s] = f[Chosen(s)] + h[s \ {Chosen(s)}]
        /\ k[s] = f[Chosen(s)] + k[s \ {Chosen(s)}]
    BY <2>3, <2>4 DEF Sums
  <2>6. s \ {Chosen(s)} \notin C
    BY <2>2, <2>4, ChosenIn
  <2>7. h[s \ {Chosen(s)}] = k[s \ {Chosen(s)}]
    BY <2>3, <2>6
  <2> QED BY <2>3, <2>5, <2>7, Zenon
<1> QED BY <1>1

\* Every finite set has its partial sums.
LEMMA SumsExist ==
    ASSUME NEW S, IsFiniteSet(S), NEW f, \A x \in S : f[x] \in Nat
    PROVE  \E h : Sums(f, S, h)
<1> DEFINE C == {T \in SUBSET S : ~ \E h : Sums(f, T, h)}
<1>1. ASSUME C # {} PROVE FALSE
  <2>1. PICK T \in C : \A U \in C : U \subseteq T => U = T
    <3>1. Subfamily(C, S)
      BY <1>1 DEF Subfamily
    <3> HIDE DEF C
    <3>2. HasLeast(C)
      BY <3>1, Small, Zenon
    <3> QED BY <3>2 DEF HasLeast
  <2>2. T \in SUBSET S /\ IsFiniteSet(T)
    BY FS_Subset
  <2> DEFINE A(U) == CHOOSE h : Sums(f, U, h)
             rest(s) == s \ {Chosen(s)}
             k == [s \in SUBSET T |-> IF s = {} THEN 0 ELSE f[Chosen(s)] + A(rest(s))[rest(s)]]
  <2>3. ASSUME NEW U \in SUBSET T, U # T PROVE Sums(f, U, A(U))
    <3>1. \E h : Sums(f, U, h)
      BY <2>1, <2>2, <2>3
    <3> QED BY <3>1, Zenon
  <2>4. ASSUME NEW s \in SUBSET T, s # {}
        PROVE  /\ Chosen(s) \in s /\ f[Chosen(s)] \in Nat
               /\ rest(s) \in SUBSET T /\ rest(s) # T /\ Sums(f, rest(s), A(rest(s)))
    <3>1. Chosen(s) \in s
      BY <2>4, ChosenIn
    <3>2. rest(s) \in SUBSET T /\ rest(s) # T
      BY <3>1
    <3>3. Sums(f, rest(s), A(rest(s)))
      BY <2>3, <3>2, Zenon
    <3> QED BY <2>2, <3>1, <3>2, <3>3
  <2> HIDE DEF A, rest
  <2>5. k \in [SUBSET T -> Nat]
    <3> SUFFICES ASSUME NEW s \in SUBSET T, s # {} PROVE f[Chosen(s)] + A(rest(s))[rest(s)] \in Nat
      OBVIOUS
    <3>1. f[Chosen(s)] \in Nat /\ A(rest(s))[rest(s)] \in Nat
      BY <2>4, Zenon DEF Sums
    <3> QED BY <3>1
  <2>6. ASSUME NEW s \in SUBSET T, s # {} PROVE k[rest(s)] = A(rest(s))[rest(s)]
    <3> DEFINE r == rest(s)
    <3>1. r \in SUBSET T /\ r # T /\ Sums(f, r, A(r)) /\ IsFiniteSet(r)
      BY <2>2, <2>4, <2>6, FS_Subset
    <3>2. CASE r = {}
      <4>1. A(r)[r] = 0
        BY <3>1, <3>2, Zenon DEF Sums
      <4>2. k[r] = 0
        BY <3>1, <3>2
      <4> QED BY <4>1, <4>2
    <3>3. CASE r # {}
      <4>1. Sums(f, rest(r), A(rest(r))) /\ rest(r) \in SUBSET r
        BY <2>4, <3>1, <3>3 DEF rest
      <4>2. A(r)[rest(r)] = A(rest(r))[rest(r)]
        BY <3>1, <4>1, SumsAgree
      <4>3. A(r)[r] = f[Chosen(r)] + A(r)[rest(r)]
        BY <3>1, <3>3, Zenon DEF Sums, rest
      <4>4. k[r] = f[Chosen(r)] + A(rest(r))[rest(r)]
        BY <3>1, <3>3
      <4> QED BY <4>2, <4>3, <4>4
    <3> QED BY <3>2, <3>3
  <2>7. \A s \in SUBSET T : k[s] = IF s = {} THEN 0 ELSE f[Chosen(s)] + k[rest(s)]
    <3> SUFFICES ASSUME NEW s \in SUBSET T PROVE k[s] = IF s = {} THEN 0 ELSE f[Chosen(s)] + k[rest(s)]
      BY Zenon
    <3>1. k[s] = IF s = {} THEN 0 ELSE f[Chosen(s)] + A(rest(s))[rest(s)]
      OBVIOUS
    <3> HIDE DEF k
    <3> QED BY <2>6, <3>1
  <2>8. Sums(f, T, k)
    <3> HIDE DEF k
    <3> QED BY <2>5, <2>7 DEF Sums, rest
  <2> HIDE DEF k
  <2> QED BY <2>1, <2>8
<1> QED BY <1>1

\* The sum of f over S, as the models write it.
SumOver(f, S) == FoldFunctionOnSet(+, 0, f, S)

\* The fold is the last of the partial sums.
LEMMA SumIsFold ==
    ASSUME NEW S, IsFiniteSet(S), NEW f, \A x \in S : f[x] \in Nat, NEW h, Sums(f, S, h)
    PROVE  SumOver(f, S) = h[S]
<1> DEFINE It == CHOOSE iter : iter = [s \in SUBSET S |->
                    IF s = {} THEN 0 ELSE f[CHOOSE x \in s : TRUE] + iter[s \ {CHOOSE x \in s : TRUE}]]
<1>1. SumOver(f, S) = It[S]
  BY Zenon DEF SumOver, FoldFunctionOnSet, MapThenFoldSet
<1>2. h = [s \in SUBSET S |->
                    IF s = {} THEN 0 ELSE f[CHOOSE x \in s : TRUE] + h[s \ {CHOOSE x \in s : TRUE}]]
  BY DEF Sums, Chosen
<1>3. It = [s \in SUBSET S |->
                    IF s = {} THEN 0 ELSE f[CHOOSE x \in s : TRUE] + It[s \ {CHOOSE x \in s : TRUE}]]
  BY <1>2, Zenon
<1> HIDE DEF It
<1>4. \A s \in SUBSET S : It[s] = IF s = {} THEN 0 ELSE f[Chosen(s)] + It[s \ {Chosen(s)}]
  BY <1>3, Zenon DEF Chosen
<1> DEFINE C == {s \in SUBSET S : It[s] # h[s]}
<1>5. ASSUME C # {} PROVE FALSE
  <2>2. PICK s \in C : \A U \in C : U \subseteq s => U = s
    <3>1. Subfamily(C, S)
      BY <1>5 DEF Subfamily
    <3> HIDE DEF C
    <3>2. HasLeast(C)
      BY <3>1, Small, Zenon
    <3> QED BY <3>2 DEF HasLeast
  <2>3. s \in SUBSET S /\ It[s] # h[s]
    OBVIOUS
  <2>4. s # {}
    BY <1>4, <2>3, Zenon DEF Sums
  <2>5. /\ h[s] = f[Chosen(s)] + h[s \ {Chosen(s)}]
        /\ It[s] = f[Chosen(s)] + It[s \ {Chosen(s)}]
    BY <1>4, <2>3, <2>4 DEF Sums
  <2>6. s \ {Chosen(s)} \notin C
    BY <2>2, <2>4, ChosenIn
  <2>7. h[s \ {Chosen(s)}] = It[s \ {Chosen(s)}]
    BY <2>3, <2>6
  <2> QED BY <2>3, <2>5, <2>7, Zenon
<1> QED BY <1>1, <1>5

\* A sum is a number, and taking one term out of it leaves the sum of the rest.
LEMMA SumPick ==
    ASSUME NEW S, IsFiniteSet(S), NEW f, \A x \in S : f[x] \in Nat
    PROVE  /\ SumOver(f, S) \in Nat
           /\ S = {} => SumOver(f, S) = 0
           /\ \A a \in S : SumOver(f, S) = f[a] + SumOver(f, S \ {a})
<1>1. PICK h : Sums(f, S, h)
  BY SumsExist
<1>2. ASSUME NEW T \in SUBSET S PROVE SumOver(f, T) = h[T]
  <2>1. IsFiniteSet(T) /\ \A x \in T : f[x] \in Nat
    BY FS_Subset
  <2>2. PICK k : Sums(f, T, k)
    BY <2>1, SumsExist
  <2>3. SumOver(f, T) = k[T]
    BY <2>1, <2>2, SumIsFold
  <2>4. h[T] = k[T]
    BY <1>1, <2>2, SumsAgree
  <2> QED BY <2>3, <2>4
<1> DEFINE C == {T \in SUBSET S : \E a \in T : h[T] # f[a] + h[T \ {a}]}
<1>3. ASSUME C # {} PROVE FALSE
  <2>1. PICK T \in C : \A U \in C : U \subseteq T => U = T
    <3>1. Subfamily(C, S)
      BY <1>3 DEF Subfamily
    <3> HIDE DEF C
    <3>2. HasLeast(C)
      BY <3>1, Small, Zenon
    <3> QED BY <3>2 DEF HasLeast
  <2>2. T \in SUBSET S
    OBVIOUS
  <2>3. PICK a \in T : h[T] # f[a] + h[T \ {a}]
    OBVIOUS
  <2> DEFINE x == Chosen(T)
  <2>4. x \in T /\ h[T] = f[x] + h[T \ {x}]
    BY <1>1, <2>2, ChosenIn DEF Sums
  <2> HIDE DEF x
  <2>5. x # a
    BY <2>3, <2>4, Zenon
  <2>6. h[T \ {x}] = f[a] + h[(T \ {x}) \ {a}]
    <3>1. T \ {x} \in SUBSET S /\ T \ {x} \notin C /\ a \in T \ {x}
      BY <2>1, <2>2, <2>4, <2>5
    <3> QED BY <3>1, Zenon
  <2>7. h[T \ {a}] = f[x] + h[(T \ {a}) \ {x}]
    <3>1. T \ {a} \in SUBSET S /\ T \ {a} \notin C /\ x \in T \ {a}
      BY <2>1, <2>2, <2>4, <2>5
    <3> QED BY <3>1, Zenon
  <2> DEFINE both == (T \ {a}) \ {x}
  <2>8. (T \ {x}) \ {a} = both /\ both \in SUBSET S
    BY <2>2
  <2>9. f[a] \in Nat /\ f[x] \in Nat /\ h[both] \in Nat
    BY <1>1, <2>2, <2>4, <2>8 DEF Sums
  <2> HIDE DEF both
  <2>10. h[T] = f[x] + (f[a] + h[both]) /\ h[T \ {a}] = f[x] + h[both]
    BY <2>4, <2>6, <2>7, <2>8, Zenon DEF both
  <2>11. f[x] + (f[a] + h[both]) = f[a] + (f[x] + h[both])
    BY <2>9
  <2> QED BY <2>3, <2>10, <2>11, Zenon
<1>4. \A a \in S : h[S] = f[a] + h[S \ {a}]
  BY <1>3, Zenon
<1>5. h[S] \in Nat /\ (S = {} => h[S] = 0)
  BY <1>1, Zenon DEF Sums
<1>6. \A a \in S : S \ {a} \in SUBSET S
  OBVIOUS
<1>7. S \in SUBSET S
  OBVIOUS
<1> QED BY <1>2, <1>4, <1>5, <1>6, <1>7

\* A sum depends on the terms summed alone.
LEMMA SumSame ==
    ASSUME NEW S, IsFiniteSet(S), NEW f, NEW g, \A x \in S : f[x] \in Nat /\ g[x] = f[x]
    PROVE  SumOver(g, S) = SumOver(f, S)
<1>1. PICK h : Sums(f, S, h)
  BY SumsExist
<1>2. Sums(g, S, h)
  <2>1. \A s \in SUBSET S : s # {} => g[Chosen(s)] = f[Chosen(s)]
    BY ChosenIn
  <2> QED BY <1>1, <2>1 DEF Sums
<1>3. \A x \in S : g[x] \in Nat
  OBVIOUS
<1> QED BY <1>1, <1>2, <1>3, SumIsFold

\* g is f with d more at a.
Raised(f, g, S, a, d) ==
    /\ a \in S /\ d \in Nat /\ \A x \in S : f[x] \in Nat
    /\ g[a] = f[a] + d /\ \A x \in S : x # a => g[x] = f[x]

\* More at one place is as much more in the sum.
LEMMA SumRaised ==
    ASSUME NEW S, IsFiniteSet(S), NEW f, NEW g, NEW a, NEW d, Raised(f, g, S, a, d)
    PROVE  SumOver(g, S) = SumOver(f, S) + d
<1> USE DEF Raised
<1>1. \A x \in S : g[x] \in Nat
  OBVIOUS
<1>2. SumOver(f, S) = f[a] + SumOver(f, S \ {a}) /\ SumOver(g, S) = g[a] + SumOver(g, S \ {a})
  BY <1>1, SumPick
<1>3. IsFiniteSet(S \ {a}) /\ \A x \in S \ {a} : f[x] \in Nat /\ g[x] = f[x]
  BY FS_Subset
<1>4. SumOver(g, S \ {a}) = SumOver(f, S \ {a}) /\ SumOver(f, S \ {a}) \in Nat
  BY <1>3, SumSame, SumPick
<1>5. f[a] \in Nat
  OBVIOUS
<1> QED BY <1>2, <1>4, <1>5

\* A sum of zeros is zero.
LEMMA SumZero ==
    ASSUME NEW S, IsFiniteSet(S), NEW f, \A x \in S : f[x] = 0
    PROVE  SumOver(f, S) = 0
<1> DEFINE h == [s \in SUBSET S |-> 0]
<1>1. Sums(f, S, h)
  <2>1. \A s \in SUBSET S : s # {} => f[Chosen(s)] = 0 /\ s \ {Chosen(s)} \in SUBSET S
    BY ChosenIn
  <2> QED BY <2>1 DEF Sums
<1>2. \A x \in S : f[x] \in Nat
  OBVIOUS
<1>3. h[S] = 0
  OBVIOUS
<1> HIDE DEF h
<1> QED BY <1>1, <1>2, <1>3, SumIsFold

-------------------------------------------------------------------------------
(* Sizes *)

\* Finite sets that share nothing: their sizes add.
LEMMA DisjointCard ==
    ASSUME NEW A, NEW B, IsFiniteSet(A), IsFiniteSet(B), A \cap B = {}
    PROVE  IsFiniteSet(A \cup B) /\ Cardinality(A \cup B) = Cardinality(A) + Cardinality(B)
<1>1. /\ IsFiniteSet(A \cup B)
      /\ Cardinality(A \cup B) = Cardinality(A) + Cardinality(B) - Cardinality(A \cap B)
  BY FS_Union
<1>2. Cardinality(A) \in Nat /\ Cardinality(B) \in Nat /\ Cardinality({}) = 0
  BY FS_CardinalityType, FS_EmptySet
<1>3. Cardinality(A \cap B) = 0
  BY <1>2, Zenon
<1>4. \A a, b \in Nat : a + b - 0 = a + b
  OBVIOUS
<1> QED BY <1>1, <1>2, <1>3, <1>4, Zenon

\* A renaming of a finite set has its size.
LEMMA RenamedCard ==
    ASSUME NEW A, IsFiniteSet(A), NEW f, \A x, y \in A : f[x] = f[y] => x = y
    PROVE  IsFiniteSet({f[x] : x \in A}) /\ Cardinality({f[x] : x \in A}) = Cardinality(A)
<1> DEFINE g == [x \in A |-> f[x]]
           B == {f[x] : x \in A}
<1>1. g \in [A -> B]
  BY Zenon
<1>2. \A x \in A : g[x] = f[x]
  OBVIOUS
<1>3. \A y \in B : \E x \in A : g[x] = y
  BY <1>2, Zenon
<1> HIDE DEF g, B
<1>4. g \in Bijection(A, B)
  BY <1>1, <1>2, <1>3 DEF Bijection, Injection, Surjection, IsInjective
<1>5. ExistsBijection(A, B)
  BY <1>4 DEF ExistsBijection
<1> QED BY <1>5, FS_Bijection DEF B

\* The values a function has on a finite set are finitely many.
LEMMA ImageFinite ==
    ASSUME NEW S, IsFiniteSet(S), NEW f
    PROVE  IsFiniteSet({f[p] : p \in S})
<1> DEFINE g == [p \in S |-> f[p]]
<1>1. g \in Surjection(S, {f[p] : p \in S})
  BY DEF Surjection
<1> QED BY <1>1, FS_Surjection, Zenon

\* How many members of T the function f sends to each value of B.
Shares(f, T, B) == [c \in B |-> Cardinality({p \in T : f[p] = c})]

\* The shares of a finite set add up to the set.
LEMMA SharesAddUp ==
    ASSUME NEW S, IsFiniteSet(S), NEW f
    PROVE  SumOver(Shares(f, S, {f[p] : p \in S}), {f[p] : p \in S}) = Cardinality(S)
<1> DEFINE B == {f[p] : p \in S}
           C == {T \in SUBSET S : SumOver(Shares(f, T, B), B) # Cardinality(T)}
<1>1. IsFiniteSet(B)
  BY ImageFinite
<1>2. \A T \in SUBSET S : IsFiniteSet(T)
  BY FS_Subset
<1>3. ASSUME NEW T \in SUBSET S, NEW c \in B
      PROVE  /\ IsFiniteSet({p \in T : f[p] = c}) /\ Cardinality({p \in T : f[p] = c}) \in Nat
             /\ Shares(f, T, B)[c] = Cardinality({p \in T : f[p] = c})
  <2>1. {p \in T : f[p] = c} \subseteq S
    OBVIOUS
  <2>2. IsFiniteSet({p \in T : f[p] = c})
    BY <2>1, FS_Subset, Zenon
  <2> HIDE DEF B
  <2> QED BY <2>2, FS_CardinalityType, Zenon DEF Shares
<1>4. B = {f[p] : p \in S}
  OBVIOUS
<1> HIDE DEF B
<1>5. ASSUME C # {} PROVE FALSE
  <2>1. PICK T \in C : \A U \in C : U \subseteq T => U = T
    <3>1. Subfamily(C, S)
      BY <1>5 DEF Subfamily
    <3> HIDE DEF C
    <3>2. HasLeast(C)
      BY <3>1, Small, Zenon
    <3> QED BY <3>2 DEF HasLeast
  <2>2. T \in SUBSET S /\ IsFiniteSet(T) /\ SumOver(Shares(f, T, B), B) # Cardinality(T)
    BY <1>2
  <2>3. CASE T = {}
    <3>1. \A c \in B : Shares(f, T, B)[c] = 0
      <4>1. \A c \in B : {p \in T : f[p] = c} = {}
        BY <2>3
      <4> QED BY <1>3, <2>2, <4>1, FS_EmptySet
    <3>2. SumOver(Shares(f, T, B), B) = 0
      BY <1>1, <3>1, SumZero
    <3> QED BY <2>2, <2>3, <3>2, FS_EmptySet
  <2>4. CASE T # {}
    <3>1. PICK a \in T : TRUE
      BY <2>4
    <3> DEFINE U == T \ {a}
    <3>2. U \in SUBSET S /\ IsFiniteSet(U) /\ U \notin C /\ a \notin U /\ T = U \cup {a}
      BY <1>2, <2>1, <2>2
    <3>3. SumOver(Shares(f, U, B), B) = Cardinality(U)
      BY <3>2
    <3>4. Cardinality(T) = Cardinality(U) + 1
      BY <3>2, FS_AddElement
    <3> HIDE DEF U
    <3>5. f[a] \in B
      BY <1>4, <2>2
    <3>6. Shares(f, T, B)[f[a]] = Shares(f, U, B)[f[a]] + 1
      <4> DEFINE X == {p \in U : f[p] = f[a]}
      <4>1. {p \in T : f[p] = f[a]} = X \cup {a} /\ a \notin X
        BY <3>2
      <4>2. IsFiniteSet(X) /\ Shares(f, U, B)[f[a]] = Cardinality(X)
        BY <1>3, <3>2, <3>5
      <4>3. Shares(f, T, B)[f[a]] = Cardinality(X \cup {a})
        BY <1>3, <2>2, <3>5, <4>1
      <4> HIDE DEF X
      <4> QED BY <4>1, <4>2, <4>3, FS_AddElement, Zenon
    <3>7. ASSUME NEW c \in B, c # f[a] PROVE Shares(f, T, B)[c] = Shares(f, U, B)[c]
      <4>1. {p \in T : f[p] = c} = {p \in U : f[p] = c}
        BY <3>2, <3>7
      <4>2. Shares(f, T, B)[c] = Cardinality({p \in T : f[p] = c})
        BY <1>3, <2>2
      <4>3. Shares(f, U, B)[c] = Cardinality({p \in U : f[p] = c})
        BY <1>3, <3>2
      <4> QED BY <4>1, <4>2, <4>3, Zenon
    <3>8. Raised(Shares(f, U, B), Shares(f, T, B), B, f[a], 1)
      <4>1. \A c \in B : Shares(f, U, B)[c] \in Nat
        BY <1>3, <3>2, Zenon
      <4> QED BY <3>5, <3>6, <3>7, <4>1 DEF Raised
    <3>9. SumOver(Shares(f, T, B), B) = SumOver(Shares(f, U, B), B) + 1
      BY <1>1, <3>8, SumRaised, Zenon
    <3> QED BY <2>2, <3>3, <3>4, <3>9
  <2> QED BY <2>3, <2>4
<1>6. S \in SUBSET S /\ S \notin C
  BY <1>5
<1> QED BY <1>4, <1>6

\* A fold of a function is the sum over its domain.
LEMMA FoldIsSum == ASSUME NEW f PROVE FoldFunction(+, 0, f) = SumOver(f, DOMAIN f)
BY Zenon DEF FoldFunction, SumOver

-------------------------------------------------------------------------------
(* Lists *)

\* No entry of a list is repeated.
NoTwice(s) == \A i, j \in 1..Len(s) : s[i] = s[j] => i = j

\* A list without repetitions is as long as it has members.
LEMMA NoTwiceCard ==
    ASSUME NEW V, NEW s \in Seq(V), NoTwice(s)
    PROVE  IsFiniteSet(Range(s)) /\ Cardinality(Range(s)) = Len(s)
<1>1. s \in Bijection(1..Len(s), Range(s))
  BY DEF NoTwice, Bijection, Injection, Surjection, Range, IsInjective
<1>2. Len(s) \in Nat
  OBVIOUS
<1>3. ExistsBijection(1..Len(s), Range(s))
  BY <1>1 DEF ExistsBijection
<1> QED BY <1>2, <1>3, FS_CountingElements, FS_NatBijection

\* What a list has, with one more at its end.
LEMMA AppendFacts ==
    ASSUME NEW V, NEW s \in Seq(V), NEW x \in V
    PROVE  /\ Append(s, x) \in Seq(V) /\ Append(s, x) # <<>>
           /\ Range(Append(s, x)) = Range(s) \cup {x}
           /\ NoTwice(s) /\ x \notin Range(s) => NoTwice(Append(s, x))
<1>1. Append(s, x) \in Seq(V) /\ Len(Append(s, x)) = Len(s) + 1
  OBVIOUS
<1>2. \A i \in 1..(Len(s) + 1) : Append(s, x)[i] = IF i = Len(s) + 1 THEN x ELSE s[i]
  OBVIOUS
<1>3. Range(Append(s, x)) = Range(s) \cup {x}
  <2>1. DOMAIN s = 1..Len(s) /\ DOMAIN Append(s, x) = 1..(Len(s) + 1)
    OBVIOUS
  <2>2. x \in Range(Append(s, x))
    BY <1>2, <2>1 DEF Range
  <2>3. \A i \in 1..Len(s) : s[i] \in Range(Append(s, x))
    BY <1>2, <2>1 DEF Range
  <2>4. \A i \in 1..(Len(s) + 1) : Append(s, x)[i] \in Range(s) \cup {x}
    BY <1>2, <2>1 DEF Range
  <2> QED BY <2>1, <2>2, <2>3, <2>4 DEF Range
<1>4. ASSUME NoTwice(s), x \notin Range(s) PROVE NoTwice(Append(s, x))
  <2>1. \A i \in 1..Len(s) : s[i] # x
    BY <1>4 DEF Range
  <2> QED BY <1>1, <1>2, <1>4, <2>1 DEF NoTwice
<1>5. Append(s, x) # <<>>
  <2>1. Len(<<>>) = 0 /\ Len(s) \in Nat /\ Len(s) + 1 # 0
    OBVIOUS
  <2> QED BY <1>1, <2>1, Zenon
<1> QED BY <1>1, <1>3, <1>4, <1>5

\* Where the elements of two lists are once they are put together.
LEMMA ConcatFacts ==
    ASSUME NEW V, NEW s \in Seq(V), NEW t \in Seq(V)
    PROVE  /\ s \o t \in Seq(V) /\ Len(s \o t) = Len(s) + Len(t)
           /\ \A x \in 1..Len(s) : (s \o t)[x] = s[x]
           /\ \A x \in 1..Len(t) : (s \o t)[Len(s) + x] = t[x]
           /\ Range(s \o t) = Range(s) \cup Range(t)
<1>1. s \o t \in Seq(V) /\ Len(s \o t) = Len(s) + Len(t) /\ Len(s) \in Nat /\ Len(t) \in Nat
  OBVIOUS
<1>2. \A x \in 1..Len(s) : (s \o t)[x] = s[x]
  OBVIOUS
<1>3. \A x \in 1..Len(t) : (s \o t)[Len(s) + x] = t[x]
  OBVIOUS
<1> DEFINE u == s \o t
<1>4. DOMAIN s = 1..Len(s) /\ DOMAIN t = 1..Len(t) /\ DOMAIN u = 1..Len(u)
  OBVIOUS
<1> HIDE DEF u
<1>5. ASSUME NEW x \in 1..Len(u) PROVE u[x] \in Range(s) \cup Range(t)
  <2>1. CASE x <= Len(s)
    <3>1. x \in 1..Len(s)
      BY <1>1, <2>1
    <3> QED BY <1>2, <1>4, <3>1 DEF u, Range
  <2>2. CASE x > Len(s)
    <3>1. x - Len(s) \in 1..Len(t) /\ Len(s) + (x - Len(s)) = x
      BY <1>1, <2>2 DEF u
    <3>2. u[x] = t[x - Len(s)]
      BY <1>3, <3>1 DEF u
    <3> QED BY <1>4, <3>1, <3>2 DEF Range
  <2> QED BY <1>1, <2>1, <2>2
<1>6. ASSUME NEW x \in 1..Len(s) PROVE s[x] \in Range(u)
  <2>1. x \in 1..Len(u) /\ u[x] = s[x]
    BY <1>1, <1>2 DEF u
  <2> QED BY <1>4, <2>1 DEF Range
<1>7. ASSUME NEW x \in 1..Len(t) PROVE t[x] \in Range(u)
  <2>1. Len(s) + x \in 1..Len(u) /\ u[Len(s) + x] = t[x]
    BY <1>1, <1>3 DEF u
  <2> QED BY <1>4, <2>1 DEF Range
<1>8. Range(u) = Range(s) \cup Range(t)
  <2>1. Range(u) \subseteq Range(s) \cup Range(t)
    BY <1>4, <1>5, Zenon DEF Range
  <2>2. Range(s) \subseteq Range(u)
    BY <1>4, <1>6, Zenon DEF Range
  <2>3. Range(t) \subseteq Range(u)
    BY <1>4, <1>7, Zenon DEF Range
  <2> QED BY <2>1, <2>2, <2>3, Zenon
<1> QED BY <1>1, <1>2, <1>3, <1>8 DEF u

\* u has what s and t have.
HasBoth(u, s, t) == Range(u) = Range(s) \cup Range(t)

\* So has the list of both put together.
LEMMA ConcatRange ==
    ASSUME NEW V, NEW s \in Seq(V), NEW t \in Seq(V)
    PROVE  HasBoth(s \o t, s, t)
BY ConcatFacts DEF HasBoth
==============================================================================
