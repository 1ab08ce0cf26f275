------------------------------ MODULE DataLemmas ------------------------------
(***************************************************************************)
(* Facts about data that the proofs of the other modules need, none of     *)
(* which names a variable: induction over numbers and finite sets, with    *)
(* the hypothesis given as a set; the functions that a recursive           *)
(* definition or a fold stands for, and that they exist; the laws of the   *)
(* sums over stores and accounts; and the arithmetic of a quotient, by     *)
(* which the target of a difficulty is found.                              *)
(***************************************************************************)
EXTENDS FiniteSetTheorems, TLAPS

(* A set of numbers that holds 0 and every successor holds them all.         *)
LEMMA NatSetInduction ==
    ASSUME NEW H, 0 \in H, \A n \in Nat : n \in H => n + 1 \in H
    PROVE  Nat \subseteq H
<1> DEFINE bad == Nat \ H
<1>1. SUFFICES ASSUME bad # {} PROVE FALSE
  OBVIOUS
<1>2. PICK n \in bad : \A m \in bad : ~(<<m, n>> \in OpToRel(<, Nat))
  <2> HIDE DEF bad
  <2>1. bad \subseteq Nat
    BY DEF bad
  <2> QED
    BY <1>1, <2>1, NatLessThanWellFounded, WFMin
<1>3. n \in Nat /\ n # 0
  OBVIOUS
<1>4. n - 1 \in Nat /\ n - 1 < n /\ (n - 1) + 1 = n
  BY <1>3
<1>5. n - 1 \in bad
  BY <1>4
<1>6. <<n - 1, n>> \in {s \in Nat \X Nat : s[1] < s[2]}
  BY <1>3, <1>4
<1> QED
  BY <1>2, <1>5, <1>6 DEF OpToRel

(* A set of subsets that holds a subset whenever it holds the smaller ones.  *)
LEMMA FiniteSetInduction ==
    ASSUME NEW S, IsFiniteSet(S), NEW H,
           \A T \in SUBSET S : ((SUBSET T) \ {T} \subseteq H) => T \in H
    PROVE  SUBSET S \subseteq H
<1> DEFINE bad == (SUBSET S) \ H
<1>1. SUFFICES ASSUME bad # {} PROVE FALSE
  OBVIOUS
<1>2. PICK T \in bad : \A U \in bad : <<U, T>> \notin StrictSubsetOrdering(S)
  <2> HIDE DEF bad
  <2>1. bad \subseteq FiniteSubsetsOf(S)
    BY FS_FiniteSubsetsOfFinite DEF bad
  <2> QED
    BY <1>1, <2>1, FS_StrictSubsetOrderingWellFounded, WFMin
<1>3. ASSUME NEW U \in (SUBSET T) \ {T} PROVE U \in H
  <2>1. U \in SUBSET S /\ <<U, T>> \in StrictSubsetOrdering(S)
    BY <1>2 DEF StrictSubsetOrdering
  <2> QED
    BY <1>2, <2>1
<1> QED
  BY <1>2, <1>3

(* An image of a finite set is finite.                                       *)
LEMMA ImageFinite ==
    ASSUME NEW S, IsFiniteSet(S), NEW b
    PROVE  IsFiniteSet({b[x] : x \in S})
<1>1. [x \in S |-> b[x]] \in Surjection(S, {b[x] : x \in S})
  BY DEF Surjection
<1> QED
  BY <1>1, FS_Surjection

(* A recursive definition over the naturals is satisfied by a function.      *)
LEMMA RecursionExists ==
    ASSUME NEW A, NEW a \in A, NEW step \in [Nat -> [A -> A]]
    PROVE  \E g \in [Nat -> A] :
              g = [n \in Nat |-> IF n = 0 THEN a ELSE step[n][g[n - 1]]]
<1> DEFINE Upto(n) == {g \in [Nat -> A] :
                          \A i \in 0 .. n : g[i] = IF i = 0 THEN a ELSE step[i][g[i - 1]]}
           H == {n \in Nat : Upto(n) # {}}
           Same(n) == \A f, g \in Upto(n) : \A i \in 0 .. n : f[i] = g[i]
           J == {n \in Nat : Same(n)}
<1>1. Nat \subseteq H
  <2>1. 0 \in H
    <3> DEFINE g == [n \in Nat |-> a]
    <3>1. g \in Upto(0)
      OBVIOUS
    <3> QED
      BY <3>1
  <2>2. ASSUME NEW n \in Nat, n \in H PROVE n + 1 \in H
    <3>1. PICK g \in Upto(n) : TRUE
      BY <2>2
    <3> DEFINE h == [g EXCEPT ![n + 1] = step[n + 1][g[n]]]
    <3>2. h \in [Nat -> A]
      BY <3>1
    <3>3. ASSUME NEW i \in 0 .. n + 1 PROVE h[i] = IF i = 0 THEN a ELSE step[i][h[i - 1]]
      <4>1. CASE i = n + 1
        <5>1. i # 0 /\ i - 1 = n /\ i - 1 # n + 1
          BY <4>1
        <5>2. h[i - 1] = g[n] /\ h[i] = step[i][g[n]]
          BY <3>1, <4>1, <5>1
        <5> QED
          BY <5>1, <5>2
      <4>2. CASE i # n + 1
        <5>1. i \in 0 .. n /\ h[i] = g[i]
          BY <3>1, <4>2
        <5>2. i # 0 => h[i - 1] = g[i - 1]
          BY <3>1, <4>2
        <5> QED
          BY <3>1, <5>1, <5>2
      <4> QED
        BY <4>1, <4>2
    <3>4. h \in Upto(n + 1)
      <4> HIDE DEF h
      <4> QED BY <3>2, <3>3
    <3> QED
      <4> HIDE DEF h, Upto
      <4> QED BY <3>4
  <2> HIDE DEF H
  <2> QED
    BY <2>1, <2>2, NatSetInduction
<1>2. Nat \subseteq J
  <2>1. 0 \in J
    OBVIOUS
  <2>2. ASSUME NEW n \in Nat, n \in J PROVE n + 1 \in J
    <3>1. SUFFICES ASSUME NEW f \in Upto(n + 1), NEW g \in Upto(n + 1), NEW i \in 0 .. n + 1
                   PROVE  f[i] = g[i]
      OBVIOUS
    <3>2. f \in Upto(n) /\ g \in Upto(n)
      OBVIOUS
    <3>3. \A j \in 0 .. n : f[j] = g[j]
      BY <2>2, <3>2
    <3>4. CASE i = n + 1
      <4>1. i # 0 /\ i - 1 \in 0 .. n
        BY <3>4
      <4>2. f[i] = step[i][f[i - 1]] /\ g[i] = step[i][g[i - 1]]
        BY <3>1, <4>1
      <4> QED
        BY <3>3, <4>1, <4>2
    <3>5. CASE i # n + 1
      BY <3>3, <3>5
    <3> QED
      BY <3>4, <3>5
  <2> HIDE DEF J
  <2> QED
    BY <2>1, <2>2, NatSetInduction
<1>3. PICK pick \in [Nat -> [Nat -> A]] : \A n \in Nat : pick[n] \in Upto(n)
  <2> HIDE DEF Upto
  <2>1. \A n \in Nat : \E g \in [Nat -> A] : g \in Upto(n)
    <3> USE DEF Upto
    <3> QED BY <1>1
  <2>2. [n \in Nat |-> CHOOSE g \in [Nat -> A] : g \in Upto(n)] \in [Nat -> [Nat -> A]]
    BY <2>1
  <2> QED
    BY <2>1, <2>2
<1>4. ASSUME NEW n \in Nat, NEW i \in 0 .. n
      PROVE  pick[n][i] = IF i = 0 THEN a ELSE step[i][pick[n][i - 1]]
  BY <1>3
<1>5. ASSUME NEW n \in Nat \ {0} PROVE pick[n][n - 1] = pick[n - 1][n - 1]
  <2>1. n - 1 \in Nat /\ n - 1 \in 0 .. n - 1 /\ 0 .. n - 1 \subseteq 0 .. n
    OBVIOUS
  <2>2. pick[n] \in Upto(n) /\ pick[n - 1] \in Upto(n - 1)
    <3> HIDE DEF Upto
    <3> QED BY <1>3, <2>1
  <2>3. pick[n] \in Upto(n - 1)
    BY <2>1, <2>2
  <2>4. Same(n - 1)
    BY <1>2, <2>1
  <2> QED
    <3> HIDE DEF Upto
    <3> QED BY <2>1, <2>2, <2>3, <2>4
<1> DEFINE r == [n \in Nat |-> pick[n][n]]
<1>6. r \in [Nat -> A]
  BY <1>3
<1>7. ASSUME NEW n \in Nat PROVE r[n] = IF n = 0 THEN a ELSE step[n][r[n - 1]]
  <2>1. n \in 0 .. n /\ r[n] = pick[n][n]
    OBVIOUS
  <2>2. n # 0 => n - 1 \in Nat /\ r[n - 1] = pick[n - 1][n - 1]
    OBVIOUS
  <2> HIDE DEF r
  <2> QED
    BY <1>4, <1>5, <2>1, <2>2
<1>8. r = [n \in Nat |-> IF n = 0 THEN a ELSE step[n][r[n - 1]]]
  <2> HIDE DEF r
  <2> QED BY <1>6, <1>7
<1> QED
  <2> HIDE DEF r
  <2> QED BY <1>6, <1>8

(* The element that the folds take first.                                    *)
Chosen(s) == CHOOSE x \in s : TRUE

(* g gives every subset of S the sum of f over it, in the order of the folds *)
(* of the community modules.                                                 *)
FoldsOver(f, S, g) ==
    g = [s \in SUBSET S |->
            IF s = {} THEN 0 ELSE f[Chosen(s)] + g[s \ {Chosen(s)}]]

(* Such a function exists: it is reached in as many rounds as S has elements.*)
LEMMA FoldExists ==
    ASSUME NEW S, IsFiniteSet(S), NEW f, \A x \in S : f[x] \in Int
    PROVE  \E g \in [SUBSET S -> Int] : FoldsOver(f, S, g)
<1> DEFINE A == [SUBSET S -> Int]
           Fold(g) == [s \in SUBSET S |->
                          IF s = {} THEN 0 ELSE f[Chosen(s)] + g[s \ {Chosen(s)}]]
           zero == [s \in SUBSET S |-> 0]
           step == [n \in Nat |-> [g \in A |-> Fold(g)]]
<1>1. \A s \in SUBSET S : s # {} => Chosen(s) \in s /\ s \ {Chosen(s)} \in SUBSET S
  BY DEF Chosen
<1>2. \A g \in A : Fold(g) \in A
  BY <1>1
<1>3. zero \in A /\ step \in [Nat -> [A -> A]]
  <2>1. zero \in A
    OBVIOUS
  <2>2. step \in [Nat -> [A -> A]]
    <3> HIDE DEF A, Fold
    <3> QED BY <1>2
  <2> HIDE DEF A, step, zero
  <2> QED
    BY <2>1, <2>2
<1>4. PICK r \in [Nat -> A] :
         r = [n \in Nat |-> IF n = 0 THEN zero ELSE step[n][r[n - 1]]]
  <2> HIDE DEF A, zero, step
  <2> QED BY <1>3, RecursionExists
<1>5. r[0] = zero /\ \A n \in Nat : r[n] \in A /\ r[n + 1] = Fold(r[n])
  <2> HIDE DEF A, Fold, zero
  <2>1. r[0] = zero
    BY <1>4
  <2>2. ASSUME NEW n \in Nat PROVE r[n] \in A /\ r[n + 1] = Fold(r[n])
    <3>1. n + 1 \in Nat /\ n + 1 # 0 /\ (n + 1) - 1 = n /\ r[n] \in A
      OBVIOUS
    <3>2. r[n + 1] = step[n + 1][r[n]]
      BY <1>4, <3>1
    <3> QED
      BY <3>1, <3>2
  <2> QED
    BY <2>1, <2>2
<1> HIDE DEF step
<1> DEFINE Settled(n) == \A s \in SUBSET S : Cardinality(s) <= n => r[n + 1][s] = r[n][s]
           H == {n \in Nat : Settled(n)}
<1>6. \A s \in SUBSET S : IsFiniteSet(s) /\ Cardinality(s) \in Nat
  BY FS_Subset, FS_CardinalityType
<1>7. Nat \subseteq H
  <2>1. 0 \in H
    <3>1. SUFFICES ASSUME NEW s \in SUBSET S, Cardinality(s) <= 0 PROVE r[1][s] = r[0][s]
      OBVIOUS
    <3>2. s = {}
      BY <1>6, <3>1, FS_EmptySet
    <3>3. r[1] = Fold(r[0])
      <4> HIDE DEF A, Fold, zero
      <4> QED BY <1>5
    <3> QED
      BY <1>5, <3>2, <3>3
  <2>2. ASSUME NEW n \in Nat, n \in H PROVE n + 1 \in H
    <3>1. SUFFICES ASSUME NEW s \in SUBSET S, Cardinality(s) <= n + 1
                   PROVE  r[(n + 1) + 1][s] = r[n + 1][s]
      OBVIOUS
    <3>2. r[(n + 1) + 1] = Fold(r[n + 1]) /\ r[n + 1] = Fold(r[n])
      <4> HIDE DEF A, Fold, zero
      <4> QED BY <1>5
    <3>3. CASE s = {}
      BY <3>2, <3>3
    <3>4. CASE s # {}
      <4> DEFINE t == s \ {Chosen(s)}
      <4>1. t \in SUBSET S /\ Cardinality(t) <= n
        BY <1>1, <1>6, <3>1, <3>4, FS_RemoveElement
      <4>2. r[n + 1][t] = r[n][t]
        BY <2>2, <4>1
      <4> QED
        BY <3>2, <3>4, <4>2
    <3> QED
      BY <3>3, <3>4
  <2> HIDE DEF H
  <2> QED
    BY <2>1, <2>2, NatSetInduction
<1> DEFINE N == Cardinality(S)
<1>8. N \in Nat /\ \A s \in SUBSET S : Cardinality(s) <= N
  BY <1>6, FS_Subset
<1>9. \A s \in SUBSET S : r[N + 1][s] = r[N][s]
  <2>1. Settled(N)
    BY <1>7, <1>8
  <2> QED
    BY <1>8, <2>1
<1>10. r[N] \in A /\ r[N + 1] = Fold(r[N]) /\ r[N + 1] \in A
  <2> HIDE DEF A, Fold, N
  <2> QED BY <1>2, <1>5, <1>8
<1>11. r[N] = Fold(r[N])
  BY <1>9, <1>10
<1> QED
  BY <1>10, <1>11 DEF FoldsOver

(* Folds over different sets, of functions that agree, agree.                *)
LEMMA FoldsAgree ==
    ASSUME NEW S, NEW U \in SUBSET S, IsFiniteSet(U), NEW f, NEW g, NEW e, NEW h,
           \A x \in U : e[x] = f[x], FoldsOver(f, S, g), FoldsOver(e, U, h)
    PROVE  \A T \in SUBSET U : h[T] = g[T]
<1> DEFINE H == {T \in SUBSET U : h[T] = g[T]}
<1>1. ASSUME NEW T \in SUBSET U, (SUBSET T) \ {T} \subseteq H PROVE T \in H
  <2>1. CASE T = {}
    BY <2>1 DEF FoldsOver
  <2>2. CASE T # {}
    <3> DEFINE x == Chosen(T)
    <3>1. x \in T
      BY <2>2 DEF Chosen
    <3>2. h[T] = e[x] + h[T \ {x}] /\ g[T] = f[x] + g[T \ {x}]
      BY <2>2 DEF FoldsOver
    <3>3. h[T \ {x}] = g[T \ {x}]
      BY <1>1, <3>1
    <3> QED
      BY <3>1, <3>2, <3>3
  <2> QED
    BY <2>1, <2>2
<1>2. SUBSET U \subseteq H
  <2> HIDE DEF H
  <2> QED BY <1>1, FiniteSetInduction
<1> QED
  BY <1>2

(* The operator of the community modules gives those sums.                   *)
IsSumOf(f, S, g) ==
    FoldsOver(f, S, g) /\ \A T \in SUBSET S : SumFunctionOnSet(f, T) = g[T]

(* Every function to the integers has its sums.                              *)
LEMMA SumIsFold ==
    ASSUME NEW S, IsFiniteSet(S), NEW f, \A x \in S : f[x] \in Int
    PROVE  \E g \in [SUBSET S -> Int] :
              IsSumOf(f, S, g)
<1>1. PICK g \in [SUBSET S -> Int] : FoldsOver(f, S, g)
  BY FoldExists
<1>2. ASSUME NEW T \in SUBSET S PROVE SumFunctionOnSet(f, T) = g[T]
  <2> DEFINE h == CHOOSE k : FoldsOver(f, T, k)
  <2>1. IsFiniteSet(T) /\ \A x \in T : f[x] \in Int
    BY FS_Subset
  <2>2. FoldsOver(f, T, h)
    BY <2>1, FoldExists
  <2>3. SumFunctionOnSet(f, T) = h[T]
    BY DEF SumFunctionOnSet, FoldFunctionOnSet, MapThenFoldSet, FoldsOver, Chosen
  <2> HIDE DEF h
  <2> QED
    BY <1>1, <2>1, <2>2, <2>3, FoldsAgree
<1> QED
  BY <1>1, <1>2 DEF IsSumOf

(* A sum over a finite set: its type, and one element taken out of it.       *)
LEMMA SumLaws ==
    ASSUME NEW S, IsFiniteSet(S), NEW f, \A x \in S : f[x] \in Int
    PROVE  /\ SumFunctionOnSet(f, S) \in Int
           /\ SumFunctionOnSet(f, {}) = 0
           /\ \A x \in S : SumFunctionOnSet(f, S) = f[x] + SumFunctionOnSet(f, S \ {x})
<1>1. PICK g \in [SUBSET S -> Int] :
         IsSumOf(f, S, g)
  BY SumIsFold
<1> DEFINE H == {T \in SUBSET S : \A x \in T : g[T] = f[x] + g[T \ {x}]}
<1>2. ASSUME NEW T \in SUBSET S, (SUBSET T) \ {T} \subseteq H PROVE T \in H
  <2>1. SUFFICES ASSUME NEW x \in T PROVE g[T] = f[x] + g[T \ {x}]
    OBVIOUS
  <2> DEFINE y == Chosen(T)
             rest == (T \ {x}) \ {y}
  <2>2. y \in T /\ g[T] = f[y] + g[T \ {y}]
    BY <1>1, <2>1 DEF IsSumOf, FoldsOver, Chosen
  <2> HIDE DEF y
  <2>3. CASE x = y
    BY <2>2, <2>3
  <2>4. CASE x # y
    <3>1. T \ {x} \in H /\ T \ {y} \in H
      BY <1>2, <2>1, <2>2
    <3>2. (T \ {y}) \ {x} = rest /\ x \in T \ {y} /\ y \in T \ {x}
      BY <2>1, <2>2, <2>4
    <3>3. g[T \ {x}] = f[y] + g[rest] /\ g[T \ {y}] = f[x] + g[rest]
      BY <3>1, <3>2
    <3>4. f[x] \in Int /\ f[y] \in Int /\ g[rest] \in Int
      BY <2>1, <2>2
    <3> HIDE DEF rest
    <3> QED
      BY <2>2, <3>3, <3>4
  <2> QED
    BY <2>3, <2>4
<1>3. SUBSET S \subseteq H
  <2> HIDE DEF H
  <2> QED BY <1>2, FiniteSetInduction
<1>4. ASSUME NEW x \in S PROVE SumFunctionOnSet(f, S) = f[x] + SumFunctionOnSet(f, S \ {x})
  BY <1>1, <1>3 DEF IsSumOf
<1>5. SumFunctionOnSet(f, S) \in Int /\ SumFunctionOnSet(f, {}) = 0
  BY <1>1 DEF IsSumOf, FoldsOver
<1> QED
  BY <1>4, <1>5

(* Only the values of the function on the set count.                         *)
LEMMA SumAgrees ==
    ASSUME NEW S, IsFiniteSet(S), NEW f, NEW e, \A x \in S : f[x] \in Int /\ e[x] = f[x]
    PROVE  SumFunctionOnSet(e, S) = SumFunctionOnSet(f, S)
<1>1. PICK g \in [SUBSET S -> Int] :
         IsSumOf(f, S, g)
  BY SumIsFold
<1>2. PICK h \in [SUBSET S -> Int] :
         IsSumOf(e, S, h)
  BY SumIsFold
<1> QED
  BY <1>1, <1>2, FoldsAgree DEF IsSumOf

(* Sums of naturals.                                                         *)
LEMMA SumOfNaturals ==
    ASSUME NEW S, IsFiniteSet(S), NEW f, \A x \in S : f[x] \in Nat
    PROVE  SumFunctionOnSet(f, S) \in Nat
<1> DEFINE H == {T \in SUBSET S : SumFunctionOnSet(f, T) \in Nat}
<1>1. ASSUME NEW T \in SUBSET S, (SUBSET T) \ {T} \subseteq H PROVE T \in H
  <2>1. IsFiniteSet(T) /\ \A x \in T : f[x] \in Int /\ f[x] \in Nat
    BY FS_Subset
  <2>2. CASE T = {}
    BY <2>1, <2>2, SumLaws
  <2>3. CASE T # {}
    <3>1. PICK x \in T : TRUE
      BY <2>3
    <3>2. SumFunctionOnSet(f, T) = f[x] + SumFunctionOnSet(f, T \ {x})
      BY <2>1, SumLaws
    <3>3. SumFunctionOnSet(f, T \ {x}) \in Nat
      BY <1>1
    <3> QED
      BY <2>1, <3>2, <3>3
  <2> QED
    BY <2>2, <2>3
<1>2. SUBSET S \subseteq H
  <2> HIDE DEF H
  <2> QED BY <1>1, FiniteSetInduction
<1> QED
  BY <1>2

(* Sums over disjoint sets add up.                                           *)
LEMMA SumDisjoint ==
    ASSUME NEW S, IsFiniteSet(S), NEW T, IsFiniteSet(T), S \cap T = {},
           NEW f, \A x \in S \cup T : f[x] \in Int
    PROVE  SumFunctionOnSet(f, S \cup T) = SumFunctionOnSet(f, S) + SumFunctionOnSet(f, T)
<1> DEFINE Sum(V) == SumFunctionOnSet(f, V)
           H == {V \in SUBSET T : Sum(S \cup V) = Sum(S) + Sum(V)}
<1>1. ASSUME NEW V \in SUBSET T, (SUBSET V) \ {V} \subseteq H PROVE V \in H
  <2>1. IsFiniteSet(V) /\ IsFiniteSet(S \cup V) /\ \A x \in S \cup V : f[x] \in Int
    BY FS_Subset, FS_Union
  <2>2. CASE V = {}
    <3>1. S \cup V = S /\ Sum(S) \in Int /\ Sum({}) = 0
      BY <2>2, SumLaws
    <3> QED
      BY <2>2, <3>1
  <2>3. CASE V # {}
    <3>1. PICK x \in V : TRUE
      BY <2>3
    <3>2. Sum(V) = f[x] + Sum(V \ {x})
      BY <2>1, SumLaws
    <3>3. Sum(S \cup V) = f[x] + Sum((S \cup V) \ {x})
      BY <2>1, SumLaws
    <3>4. (S \cup V) \ {x} = S \cup (V \ {x})
      OBVIOUS
    <3>5. Sum(S \cup (V \ {x})) = Sum(S) + Sum(V \ {x})
      BY <1>1
    <3>6. IsFiniteSet(V \ {x}) /\ \A y \in V \ {x} : f[y] \in Int
      BY <2>1, FS_Subset
    <3>7. f[x] \in Int /\ Sum(S) \in Int /\ Sum(V \ {x}) \in Int
      BY <2>1, <3>6, SumLaws
    <3>8. Sum(S \cup V) = Sum(S) + Sum(V)
      <4>1. Sum(S \cup V) = f[x] + (Sum(S) + Sum(V \ {x}))
        BY <3>3, <3>4, <3>5
      <4> DEFINE p == Sum(S)
                 q == Sum(V \ {x})
      <4>2. p \in Int /\ q \in Int /\ f[x] + (p + q) = p + (f[x] + q)
        <5>1. p \in Int /\ q \in Int
          BY <3>7
        <5> HIDE DEF p, q
        <5> QED BY <3>7, <5>1
      <4> QED
        BY <3>2, <4>1, <4>2
    <3> QED
      BY <3>8
  <2> QED
    BY <2>2, <2>3
<1>2. SUBSET T \subseteq H
  <2> HIDE DEF H
  <2> QED BY <1>1, FiniteSetInduction
<1> QED
  BY <1>2

(* A sum of naturals over fewer terms is no larger.                          *)
LEMMA SumOverSubset ==
    ASSUME NEW S, IsFiniteSet(S), NEW T \in SUBSET S, NEW f, \A x \in S : f[x] \in Nat
    PROVE  SumFunctionOnSet(f, T) <= SumFunctionOnSet(f, S)
<1> DEFINE U == S \ T
<1>1. IsFiniteSet(T) /\ IsFiniteSet(U) /\ T \cap U = {} /\ T \cup U = S
  BY FS_Subset
<1>2. \A x \in T \cup U : f[x] \in Int /\ f[x] \in Nat
  BY <1>1
<1> HIDE DEF U
<1>3. SumFunctionOnSet(f, T \cup U) = SumFunctionOnSet(f, T) + SumFunctionOnSet(f, U)
  BY <1>1, <1>2, SumDisjoint
<1>4. SumFunctionOnSet(f, T) \in Nat /\ SumFunctionOnSet(f, U) \in Nat
  BY <1>1, <1>2, SumOfNaturals
<1> DEFINE p == SumFunctionOnSet(f, T)
           q == SumFunctionOnSet(f, U)
<1>5. SumFunctionOnSet(f, S) = p + q
  BY <1>1, <1>3
<1>6. p <= p + q
  <2>1. p \in Nat /\ q \in Nat
    BY <1>4
  <2> HIDE DEF p, q
  <2> QED
    BY <2>1
<1> QED
  BY <1>5, <1>6

(* A sum over other names for the same terms.                                *)
LEMMA SumReindexed ==
    ASSUME NEW S, IsFiniteSet(S), NEW b, \A x, y \in S : b[x] = b[y] => x = y,
           NEW e, NEW f, \A x \in S : e[x] \in Int /\ f[b[x]] = e[x]
    PROVE  SumFunctionOnSet(f, {b[x] : x \in S}) = SumFunctionOnSet(e, S)
<1> DEFINE Image(V) == {b[x] : x \in V}
           H == {V \in SUBSET S : SumFunctionOnSet(f, Image(V)) = SumFunctionOnSet(e, V)}
<1>1. ASSUME NEW V \in SUBSET S, (SUBSET V) \ {V} \subseteq H PROVE V \in H
  <2>1. IsFiniteSet(V) /\ \A x \in V : e[x] \in Int
    BY FS_Subset
  <2>2. IsFiniteSet(Image(V))
    <3>1. [x \in V |-> b[x]] \in Surjection(V, Image(V))
      BY DEF Surjection
    <3> QED
      BY <2>1, <3>1, FS_Surjection
  <2>3. \A y \in Image(V) : f[y] \in Int
    OBVIOUS
  <2>4. CASE V = {}
    <3>1. Image(V) = {}
      BY <2>4
    <3>2. SumFunctionOnSet(f, Image(V)) = 0 /\ SumFunctionOnSet(e, V) = 0
      BY <2>1, <2>2, <2>3, <2>4, <3>1, SumLaws
    <3> QED
      BY <3>2
  <2>5. CASE V # {}
    <3>1. PICK x \in V : TRUE
      BY <2>5
    <3>2. SumFunctionOnSet(e, V) = e[x] + SumFunctionOnSet(e, V \ {x})
      BY <2>1, SumLaws
    <3>3. b[x] \in Image(V) /\ Image(V) \ {b[x]} = Image(V \ {x})
      OBVIOUS
    <3>4. SumFunctionOnSet(f, Image(V)) = f[b[x]] + SumFunctionOnSet(f, Image(V) \ {b[x]})
      <4> HIDE DEF Image
      <4> QED BY <2>2, <2>3, <3>3, SumLaws
    <3>5. SumFunctionOnSet(f, Image(V \ {x})) = SumFunctionOnSet(e, V \ {x})
      BY <1>1
    <3> HIDE DEF Image
    <3> QED
      BY <3>2, <3>3, <3>4, <3>5
  <2> QED
    BY <2>4, <2>5
<1>2. SUBSET S \subseteq H
  <2> HIDE DEF H
  <2> QED BY <1>1, FiniteSetInduction
<1> QED
  BY <1>2

(* A sum of which one term changes.                                          *)
LEMMA SumWithOneChanged ==
    ASSUME NEW S, IsFiniteSet(S), NEW z \in S, NEW f, NEW e,
           \A x \in S : f[x] \in Int /\ e[x] \in Int,
           \A x \in S \ {z} : e[x] = f[x]
    PROVE  SumFunctionOnSet(e, S) = SumFunctionOnSet(f, S) + e[z] - f[z]
<1> DEFINE T == S \ {z}
<1>1. IsFiniteSet(T)
  BY FS_Subset
<1>2. SumFunctionOnSet(e, S) = e[z] + SumFunctionOnSet(e, T)
  BY SumLaws
<1>3. SumFunctionOnSet(f, S) = f[z] + SumFunctionOnSet(f, T)
  BY SumLaws
<1>4. SumFunctionOnSet(e, T) = SumFunctionOnSet(f, T) /\ SumFunctionOnSet(f, T) \in Int
  <2>1. \A x \in T : f[x] \in Int /\ e[x] = f[x]
    OBVIOUS
  <2> HIDE DEF T
  <2> QED
    BY <1>1, <2>1, SumAgrees, SumLaws
<1> HIDE DEF T
<1> QED
  BY <1>2, <1>3, <1>4

-----------------------------------------------------------------------------
(* The quotient and its remainder.                                           *)
LEMMA QuotientBounds ==
    ASSUME NEW m \in Nat, NEW d \in Nat \ {0}
    PROVE  /\ m \div d \in Nat
           /\ d * (m \div d) <= m
           /\ m < d * (m \div d) + d
<1>1. m = d * (m \div d) + (m % d) /\ m % d \in 0 .. d - 1
  OBVIOUS
<1>2. m \div d \in Int /\ d * (m \div d) \in Int
  OBVIOUS
<1>3. m \div d >= 0
  OBVIOUS
<1> QED
  BY <1>1, <1>2, <1>3

(* A product fits exactly if its first factor is at most the quotient.       *)
LEMMA ProductFits ==
    ASSUME NEW m \in Nat, NEW d \in Nat \ {0}, NEW h \in Nat
    PROVE  h * d <= m <=> h <= m \div d
<1> DEFINE q == m \div d
<1>1. q \in Nat /\ d * q <= m /\ m < d * q + d
  BY QuotientBounds
<1> HIDE DEF q
<1>2. ASSUME h <= q PROVE h * d <= m
  <2>1. PICK k \in Nat : q = h + k
    <3>1. q - h \in Nat /\ q = h + (q - h)
      BY <1>1, <1>2
    <3> QED
      BY <3>1
  <2>2. d * q = h * d + d * k /\ d * k \in Nat /\ h * d \in Nat
    BY <2>1
  <2> QED
    BY <1>1, <2>2
<1>3. ASSUME ~(h <= q) PROVE ~(h * d <= m)
  <2>1. PICK k \in Nat : h = q + 1 + k
    <3>1. h - q - 1 \in Nat /\ h = q + 1 + (h - q - 1)
      BY <1>1, <1>3
    <3> QED
      BY <3>1
  <2>2. h * d = d * q + d + d * k /\ d * k \in Nat /\ d * q \in Nat
    BY <1>1, <2>1
  <2> QED
    BY <1>1, <2>2
<1> QED
  BY <1>2, <1>3 DEF q

(* No quotient exceeds its dividend.                                         *)
LEMMA QuotientAtMost ==
    ASSUME NEW m \in Nat, NEW d \in Nat \ {0}
    PROVE  m \div d <= m
<1> DEFINE q == m \div d
<1>1. q \in Nat /\ d * q <= m
  BY QuotientBounds
<1> HIDE DEF q
<1>2. PICK k \in Nat : d = 1 + k
  <2>1. d - 1 \in Nat /\ d = 1 + (d - 1)
    OBVIOUS
  <2> QED
    BY <2>1
<1>3. d * q = q + q * k /\ q * k \in Nat
  BY <1>1, <1>2
<1>4. q <= m
  BY <1>1, <1>3
<1> QED
  BY <1>4 DEF q

(* A larger factor makes no smaller product.                                 *)
LEMMA ProductGrows ==
    ASSUME NEW h \in Nat, NEW d \in Nat, NEW e \in Nat, d <= e
    PROVE  h * d <= h * e
<1>1. PICK k \in Nat : e = d + k
  <2>1. e - d \in Nat /\ e = d + (e - d)
    OBVIOUS
  <2> QED
    BY <2>1
<1>2. h * e = h * d + h * k /\ h * k \in Nat /\ h * d \in Nat
  BY <1>1
<1> QED
  BY <1>2

===============================================================================
