------------------------------ MODULE SumLemmas ------------------------------
(***************************************************************************)
(* What SumFunctionOnSet of Functions.tla computes.  It is a fold, defined *)
(* by recursion over the subsets of a finite set in an order of CHOOSE's.  *)
(* The induction theorems of the library have an operator parameter, so    *)
(* induction is stated here over sets: a set of numbers, or of subsets,    *)
(* that is closed under the step is everything.                            *)
(***************************************************************************)
EXTENDS Integers, Functions, FiniteSetTheorems, TLAPS

\* Induction on the naturals, for a set of them.
LEMMA SetOfNaturals ==
  ASSUME NEW A, 0 \in A, \A n \in Nat : n \in A => n + 1 \in A
  PROVE  Nat \subseteq A
<1> DEFINE T == Nat \ A
<1> SUFFICES ASSUME T # {} PROVE FALSE
  OBVIOUS
<1> DEFINE R == OpToRel(<, Nat)
<1>1. PICK x \in T : \A y \in T : ~(<<y, x>> \in R)
  <2>1. IsWellFoundedOn(R, Nat)
    BY NatLessThanWellFounded
  <2> HIDE DEF R
  <2> QED BY <2>1, WFMin, Zenon
<1>2. x \in Nat /\ x \notin A /\ x # 0
  OBVIOUS
<1>3. x - 1 \in Nat /\ (x - 1) + 1 = x /\ x - 1 < x
  BY <1>2
<1>4. x - 1 \notin A
  BY <1>2, <1>3
<1>5. <<x - 1, x>> \in R
  BY <1>2, <1>3 DEF OpToRel
<1> QED BY <1>1, <1>3, <1>4, <1>5

\* Induction on the subsets of a finite set: one in Good whenever all smaller
\* ones are.
LEMMA SetOfSubsets ==
  ASSUME NEW S, IsFiniteSet(S), NEW Good,
         \A T \in SUBSET S : (\A U \in SUBSET T : U # T => U \in Good) => T \in Good
  PROVE  SUBSET S \subseteq Good
<1> DEFINE Bad == (SUBSET S) \ Good
           R == StrictSubsetOrdering(S)
<1>1. ASSUME Bad # {} PROVE FALSE
  <2>1. IsWellFoundedOn(R, SUBSET S)
    <3>1. IsWellFoundedOn(R, FiniteSubsetsOf(S)) /\ FiniteSubsetsOf(S) = SUBSET S
      BY FS_StrictSubsetOrderingWellFounded, FS_FiniteSubsetsOfFinite
    <3> HIDE DEF R
    <3> QED BY <3>1
  <2>2. PICK T \in Bad : \A U \in Bad : ~(<<U, T>> \in R)
    <3>1. Bad \subseteq SUBSET S
      OBVIOUS
    <3>2. \A X : X \subseteq SUBSET S /\ X # {} => \E x \in X : \A y \in X : ~(<<y, x>> \in R)
      <4> HIDE DEF R
      <4> QED BY <2>1, WFMin
    <3> HIDE DEF R
    <3> QED BY <1>1, <3>1, <3>2
  <2>3. \A U \in SUBSET T : U # T => <<U, T>> \in R
    BY DEF StrictSubsetOrdering
  <2>4. \A U \in SUBSET T : U # T => U \in Good
    <3>1. ASSUME NEW U \in SUBSET T, U # T, U \notin Good PROVE FALSE
      <4>1. U \in Bad /\ <<U, T>> \in R
        BY <2>3, <3>1
      <4> HIDE DEF R, Bad
      <4> QED BY <2>2, <4>1
    <3> QED BY <3>1
  <2> QED BY <2>2, <2>4
<1> QED BY <1>1

-----------------------------------------------------------------------------
(* The fold as a recursive function over the subsets, and its equation *)

Pick(s) == CHOOSE x \in s : TRUE
Folded(f, g, s) == IF s = {} THEN 0 ELSE f[Pick(s)] + g[s \ {Pick(s)}]
SumFcn(f, S) == CHOOSE g : g = [s \in SUBSET S |-> Folded(f, g, s)]

\* The sum over a set is the value of the recursive function at that set.
LEMMA SumIsFold ==
  ASSUME NEW f, NEW S
  PROVE  SumFunctionOnSet(f, S) = SumFcn(f, S)[S]
BY DEF SumFunctionOnSet, FoldFunctionOnSet, MapThenFoldSet, SumFcn, Pick, Folded

\* The fold takes a member.
LEMMA PickIn == \A s : s # {} => Pick(s) \in s
  BY DEF Pick

\* There is such a function: level by level, for subsets of at most n elements.
LEMMA FoldExists ==
  ASSUME NEW S, IsFiniteSet(S), NEW f, \A x \in S : f[x] \in Int
  PROVE  \E g \in [SUBSET S -> Int] : \A s \in SUBSET S : g[s] = Folded(f, g, s)
<1> DEFINE Upto(g, n) == \A s \in SUBSET S : Cardinality(s) <= n => g[s] = Folded(f, g, s)
           A == {n \in Nat : \E g \in [SUBSET S -> Int] : Upto(g, n)}
<1>1. \A s \in SUBSET S : /\ IsFiniteSet(s) /\ Cardinality(s) \in Nat /\ Cardinality(s) <= Cardinality(S)
                          /\ Cardinality(s) = 0 <=> s = {}
  BY FS_Subset, FS_CardinalityType, FS_EmptySet
<1>2. \A s \in SUBSET S : s # {} => /\ Pick(s) \in S /\ s \ {Pick(s)} \in SUBSET S
                                    /\ Cardinality(s \ {Pick(s)}) = Cardinality(s) - 1
  <2>1. ASSUME NEW s \in SUBSET S, s # {}
        PROVE  /\ Pick(s) \in S /\ s \ {Pick(s)} \in SUBSET S
               /\ Cardinality(s \ {Pick(s)}) = Cardinality(s) - 1
    <3>1. Pick(s) \in s /\ IsFiniteSet(s)
      BY <1>1, <2>1, PickIn
    <3>2. Cardinality(s \ {Pick(s)}) = Cardinality(s) - 1
      BY <3>1, FS_RemoveElement, Zenon
    <3> QED BY <3>1, <3>2
  <2> QED BY <2>1
<1>3. 0 \in A
  <2> DEFINE g == [s \in SUBSET S |-> 0]
  <2>1. g \in [SUBSET S -> Int] /\ Upto(g, 0)
    BY <1>1 DEF Folded
  <2> QED BY <2>1
<1>4. ASSUME NEW n \in Nat, n \in A PROVE n + 1 \in A
  <2>1. PICK g \in [SUBSET S -> Int] : Upto(g, n)
    BY <1>4
  <2> DEFINE h == [s \in SUBSET S |-> IF Cardinality(s) <= n THEN g[s] ELSE Folded(f, g, s)]
  <2>2. ASSUME NEW s \in SUBSET S PROVE Folded(f, g, s) \in Int
    <3>1. CASE s # {}
      <4>1. f[Pick(s)] \in Int /\ g[s \ {Pick(s)}] \in Int
        BY <1>2, <3>1
      <4> QED BY <4>1 DEF Folded
    <3> QED BY <3>1 DEF Folded
  <2>3. h \in [SUBSET S -> Int]
    BY <2>2
  <2>4. ASSUME NEW s \in SUBSET S, Cardinality(s) <= n + 1 PROVE h[s] = Folded(f, h, s)
    <3>1. h[s] = Folded(f, g, s)
      BY <2>1
    <3>2. CASE s = {}
      BY <3>1, <3>2 DEF Folded
    <3>3. CASE s # {}
      <4>1. Cardinality(s \ {Pick(s)}) <= n /\ s \ {Pick(s)} \in SUBSET S
        BY <1>1, <1>2, <2>4, <3>3
      <4>2. h[s \ {Pick(s)}] = g[s \ {Pick(s)}]
        BY <4>1
      <4> HIDE DEF h
      <4> QED BY <3>1, <3>3, <4>2 DEF Folded
    <3> QED BY <3>2, <3>3
  <2>5. Upto(h, n + 1)
    BY <2>4
  <2> HIDE DEF h, Upto
  <2> QED BY <2>3, <2>5
<1>5. Nat \subseteq A
  <2> HIDE DEF A
  <2> QED BY <1>3, <1>4, SetOfNaturals
<1>6. PICK g \in [SUBSET S -> Int] : Upto(g, Cardinality(S))
  BY <1>5, FS_CardinalityType
<1> QED BY <1>1, <1>6

\* The function chosen is one that satisfies the recursive equation, and its values
\* are integers.
LEMMA FoldEquation ==
  ASSUME NEW S, IsFiniteSet(S), NEW f, \A x \in S : f[x] \in Int
  PROVE  /\ SumFcn(f, S) \in [SUBSET S -> Int]
         /\ \A s \in SUBSET S : SumFcn(f, S)[s] = Folded(f, SumFcn(f, S), s)
<1>1. PICK g \in [SUBSET S -> Int] : \A s \in SUBSET S : g[s] = Folded(f, g, s)
  BY FoldExists
<1>2. g = [s \in SUBSET S |-> Folded(f, g, s)]
  BY <1>1
<1> DEFINE F == SumFcn(f, S)
<1>3. F = [s \in SUBSET S |-> Folded(f, F, s)]
  BY <1>2, Zenon DEF SumFcn
<1> HIDE DEF F
<1>4. ASSUME NEW T \in SUBSET S, \A U \in SUBSET T : U # T => F[U] \in Int PROVE F[T] \in Int
  <2>1. CASE T = {}
    BY <1>3, <2>1 DEF Folded
  <2>2. CASE T # {}
    <3>1. Pick(T) \in S /\ T \ {Pick(T)} \in SUBSET T /\ T \ {Pick(T)} # T
      BY <2>2, PickIn
    <3>2. F[T \ {Pick(T)}] \in Int
      BY <1>4, <3>1
    <3>3. F[T] = f[Pick(T)] + F[T \ {Pick(T)}]
      BY <1>3, <2>2 DEF Folded
    <3> QED BY <3>1, <3>2, <3>3
  <2> QED BY <2>1, <2>2
<1> DEFINE Good == {T \in SUBSET S : F[T] \in Int}
<1>5. SUBSET S \subseteq Good
  <2>1. ASSUME NEW T \in SUBSET S, \A U \in SUBSET T : U # T => U \in Good PROVE T \in Good
    BY <1>4, <2>1
  <2> HIDE DEF Good
  <2> QED BY <2>1, SetOfSubsets
<1>6. F \in [SUBSET S -> Int] /\ \A s \in SUBSET S : F[s] = Folded(f, F, s)
  BY <1>3, <1>5
<1> QED BY <1>6 DEF F

\* The fold over a subset is the same function, restricted.
LEMMA FoldRestricts ==
  ASSUME NEW S, IsFiniteSet(S), NEW f, \A x \in S : f[x] \in Int, NEW T \in SUBSET S
  PROVE  SumFunctionOnSet(f, T) = SumFcn(f, S)[T]
<1> DEFINE F == SumFcn(f, S)
           G == SumFcn(f, T)
<1>1. /\ F \in [SUBSET S -> Int] /\ \A s \in SUBSET S : F[s] = Folded(f, F, s)
      /\ G \in [SUBSET T -> Int] /\ \A s \in SUBSET T : G[s] = Folded(f, G, s)
  BY FoldEquation, FS_Subset
<1> HIDE DEF F, G
<1> DEFINE Good == {U \in SUBSET T : G[U] = F[U]}
<1>2. ASSUME NEW U \in SUBSET T, \A V \in SUBSET U : V # U => V \in Good PROVE U \in Good
  <2>1. CASE U = {}
    BY <1>1, <2>1 DEF Folded
  <2>2. CASE U # {}
    <3>1. U \ {Pick(U)} \in SUBSET U /\ U \ {Pick(U)} # U
      BY <2>2, PickIn
    <3>2. G[U \ {Pick(U)}] = F[U \ {Pick(U)}]
      BY <1>2, <3>1
    <3>3. G[U] = f[Pick(U)] + G[U \ {Pick(U)}] /\ F[U] = f[Pick(U)] + F[U \ {Pick(U)}]
      BY <1>1, <2>2 DEF Folded
    <3> QED BY <3>2, <3>3
  <2> QED BY <2>1, <2>2
<1>3. SUBSET T \subseteq Good
  <2>1. IsFiniteSet(T)
    BY FS_Subset
  <2> HIDE DEF Good
  <2> QED BY <1>2, <2>1, SetOfSubsets
<1>4. G[T] = F[T]
  BY <1>3
<1> QED BY <1>4, SumIsFold DEF F, G

-----------------------------------------------------------------------------
(* What a sum is, in the terms of SumFunctionOnSet alone *)

\* A sum of integers is one, and a sum of naturals too; over nothing it is 0.
LEMMA SumType ==
  ASSUME NEW S, IsFiniteSet(S), NEW f, \A x \in S : f[x] \in Int
  PROVE  SumFunctionOnSet(f, S) \in Int
BY FoldEquation, SumIsFold

\* Nothing sums up to nothing.
LEMMA SumEmpty == ASSUME NEW f PROVE SumFunctionOnSet(f, {}) = 0
<1>1. IsFiniteSet({}) /\ \A x \in {} : f[x] \in Int
  BY FS_EmptySet
<1>2. SumFcn(f, {})[{}] = Folded(f, SumFcn(f, {}), {})
  BY <1>1, FoldEquation
<1> QED BY <1>2, SumIsFold DEF Folded

\* Any member can be taken out first.
LEMMA SumRemove ==
  ASSUME NEW S, IsFiniteSet(S), NEW f, \A x \in S : f[x] \in Int, NEW a \in S
  PROVE  SumFunctionOnSet(f, S) = f[a] + SumFunctionOnSet(f, S \ {a})
<1> DEFINE F == SumFcn(f, S)
<1>1. F \in [SUBSET S -> Int] /\ \A s \in SUBSET S : F[s] = Folded(f, F, s)
  BY FoldEquation
<1>2. \A T \in SUBSET S : SumFunctionOnSet(f, T) = F[T]
  BY FoldRestricts
<1> HIDE DEF F
<1> DEFINE Good == {T \in SUBSET S : \A x \in T : F[T] = f[x] + F[T \ {x}]}
<1>3. ASSUME NEW T \in SUBSET S, \A U \in SUBSET T : U # T => U \in Good PROVE T \in Good
  <2> SUFFICES ASSUME NEW x \in T PROVE F[T] = f[x] + F[T \ {x}]
    OBVIOUS
  <2> DEFINE p == Pick(T)
  <2>1. p \in T /\ x \in S /\ p \in S
    BY PickIn
  <2> HIDE DEF p
  <2>2. F[T] = f[p] + F[T \ {p}]
    BY <1>1, <2>1 DEF Folded, p
  <2>3. CASE x = p
    BY <2>2, <2>3
  <2>4. CASE x # p
    <3> DEFINE U == T \ {p}
               V == T \ {x}
    <3>1. U \in Good /\ V \in Good /\ x \in U /\ p \in V
      BY <1>3, <2>1, <2>4
    <3>2. F[U] = f[x] + F[U \ {x}] /\ F[V] = f[p] + F[V \ {p}]
      <4> HIDE DEF U, V
      <4> QED BY <3>1
    <3>3. U \ {x} = V \ {p} /\ U \ {x} \in SUBSET S
      OBVIOUS
    <3>4. F[U \ {x}] \in Int /\ f[x] \in Int /\ f[p] \in Int
      BY <1>1, <2>1, <3>3
    <3>5. F[V] = f[p] + F[U \ {x}]
      BY <3>2, <3>3
    <3>6. F[T] = f[p] + F[U] /\ F[U] = f[x] + F[U \ {x}]
      BY <2>2, <3>2
    <3> QED BY <3>4, <3>5, <3>6
  <2> QED BY <2>3, <2>4
<1>4. SUBSET S \subseteq Good
  <2> HIDE DEF Good
  <2> QED BY <1>3, SetOfSubsets
<1>5. F[S] = f[a] + F[S \ {a}]
  BY <1>4
<1> QED BY <1>2, <1>5

\* Two functions that agree on a set have the same sum over it.
LEMMA SumSame ==
  ASSUME NEW S, IsFiniteSet(S), NEW f, NEW g, \A x \in S : f[x] \in Int /\ f[x] = g[x]
  PROVE  SumFunctionOnSet(f, S) = SumFunctionOnSet(g, S)
<1> DEFINE Good == {T \in SUBSET S : SumFunctionOnSet(f, T) = SumFunctionOnSet(g, T)}
<1>1. ASSUME NEW T \in SUBSET S, \A U \in SUBSET T : U # T => U \in Good PROVE T \in Good
  <2>1. CASE T = {}
    BY <2>1, SumEmpty
  <2>2. CASE T # {}
    <3>1. PICK x \in T : TRUE
      BY <2>2
    <3>2. T \ {x} \in Good
      BY <1>1
    <3>3. IsFiniteSet(T) /\ \A y \in T : f[y] \in Int /\ g[y] \in Int
      BY FS_Subset
    <3>4. SumFunctionOnSet(f, T) = f[x] + SumFunctionOnSet(f, T \ {x})
      BY <3>3, SumRemove
    <3>5. SumFunctionOnSet(g, T) = g[x] + SumFunctionOnSet(g, T \ {x})
      BY <3>3, SumRemove
    <3> QED BY <3>2, <3>4, <3>5
  <2> QED BY <2>1, <2>2
<1>2. SUBSET S \subseteq Good
  <2> HIDE DEF Good
  <2> QED BY <1>1, SetOfSubsets
<1> QED BY <1>2

\* A change at one place changes the sum by as much.
LEMMA SumChange ==
  ASSUME NEW S, IsFiniteSet(S), NEW f, \A x \in S : f[x] \in Int,
         NEW a \in S, NEW g, g[a] \in Int, \A x \in S \ {a} : g[x] = f[x]
  PROVE  SumFunctionOnSet(g, S) = SumFunctionOnSet(f, S) + g[a] - f[a]
<1>1. IsFiniteSet(S \ {a}) /\ \A x \in S : g[x] \in Int
  BY FS_RemoveElement
<1>2. SumFunctionOnSet(g, S \ {a}) = SumFunctionOnSet(f, S \ {a})
  BY <1>1, SumSame
<1>3. SumFunctionOnSet(f, S \ {a}) \in Int
  BY <1>1, SumType
<1>4. SumFunctionOnSet(g, S) = g[a] + SumFunctionOnSet(g, S \ {a})
  BY <1>1, SumRemove
<1>5. SumFunctionOnSet(f, S) = f[a] + SumFunctionOnSet(f, S \ {a})
  BY SumRemove
<1> QED BY <1>1, <1>2, <1>3, <1>4, <1>5

\* A sum of naturals is one.
LEMMA SumNat ==
  ASSUME NEW S, IsFiniteSet(S), NEW f, \A x \in S : f[x] \in Nat
  PROVE  SumFunctionOnSet(f, S) \in Nat
<1> DEFINE Good == {T \in SUBSET S : SumFunctionOnSet(f, T) \in Nat}
<1>1. ASSUME NEW T \in SUBSET S, \A U \in SUBSET T : U # T => U \in Good PROVE T \in Good
  <2>1. CASE T = {}
    BY <2>1, SumEmpty
  <2>2. CASE T # {}
    <3>1. PICK x \in T : TRUE
      BY <2>2
    <3>2. T \ {x} \in Good
      BY <1>1
    <3>3. IsFiniteSet(T) /\ \A y \in T : f[y] \in Int
      BY FS_Subset
    <3>4. SumFunctionOnSet(f, T) = f[x] + SumFunctionOnSet(f, T \ {x})
      BY <3>3, SumRemove
    <3> QED BY <3>2, <3>4
  <2> QED BY <2>1, <2>2
<1>2. SUBSET S \subseteq Good
  <2> HIDE DEF Good
  <2> QED BY <1>1, SetOfSubsets
<1> QED BY <1>2

\* A sum of nothing but zeros is zero.
LEMMA SumZero ==
  ASSUME NEW S, IsFiniteSet(S), NEW f, \A x \in S : f[x] = 0
  PROVE  SumFunctionOnSet(f, S) = 0
<1> DEFINE Good == {T \in SUBSET S : SumFunctionOnSet(f, T) = 0}
<1>1. ASSUME NEW T \in SUBSET S, \A U \in SUBSET T : U # T => U \in Good PROVE T \in Good
  <2>1. CASE T = {}
    BY <2>1, SumEmpty
  <2>2. CASE T # {}
    <3>1. PICK x \in T : TRUE
      BY <2>2
    <3>2. T \ {x} \in Good
      BY <1>1
    <3>3. IsFiniteSet(T) /\ \A y \in T : f[y] \in Int
      BY FS_Subset
    <3>4. SumFunctionOnSet(f, T) = f[x] + SumFunctionOnSet(f, T \ {x})
      BY <3>3, SumRemove
    <3> QED BY <3>2, <3>4
  <2> QED BY <2>1, <2>2
<1>2. SUBSET S \subseteq Good
  <2> HIDE DEF Good
  <2> QED BY <1>1, SetOfSubsets
<1> QED BY <1>2

\* A sum is that over a part and that over the rest.
LEMMA SumSplit ==
  ASSUME NEW S, IsFiniteSet(S), NEW f, \A x \in S : f[x] \in Int, NEW R \in SUBSET S
  PROVE  SumFunctionOnSet(f, S) = SumFunctionOnSet(f, R) + SumFunctionOnSet(f, S \ R)
<1> DEFINE Good == {T \in SUBSET S : SumFunctionOnSet(f, S) = SumFunctionOnSet(f, T) + SumFunctionOnSet(f, S \ T)}
<1>1. ASSUME NEW T \in SUBSET S, \A U \in SUBSET T : U # T => U \in Good PROVE T \in Good
  <2>1. CASE T = {}
    <3>1. S \ T = S /\ SumFunctionOnSet(f, S) \in Int
      BY <2>1, SumType
    <3> QED BY <2>1, <3>1, SumEmpty
  <2>2. CASE T # {}
    <3>1. PICK x \in T : TRUE
      BY <2>2
    <3> DEFINE U == T \ {x}
    <3>2. U \in Good
      BY <1>1
    <3>3. SumFunctionOnSet(f, S) = SumFunctionOnSet(f, U) + SumFunctionOnSet(f, S \ U)
      BY <3>2
    <3>4. /\ IsFiniteSet(T) /\ IsFiniteSet(U) /\ IsFiniteSet(S \ U) /\ IsFiniteSet(S \ T)
          /\ \A y \in T : f[y] \in Int
          /\ \A y \in S \ U : f[y] \in Int
          /\ x \in S \ U
      BY FS_Subset
    <3>5. SumFunctionOnSet(f, T) = f[x] + SumFunctionOnSet(f, U)
      BY <3>4, SumRemove
    <3>6. SumFunctionOnSet(f, S \ U) = f[x] + SumFunctionOnSet(f, (S \ U) \ {x})
      <4> HIDE DEF U
      <4> QED BY <3>4, SumRemove
    <3>7. (S \ U) \ {x} = S \ T
      BY <3>1
    <3>8. SumFunctionOnSet(f, U) \in Int /\ SumFunctionOnSet(f, S \ T) \in Int /\ f[x] \in Int
      <4>1. (\A y \in U : f[y] \in Int) /\ \A y \in S \ T : f[y] \in Int
        OBVIOUS
      <4> QED BY <3>4, <4>1, SumType
    <3>9. SumFunctionOnSet(f, S) = SumFunctionOnSet(f, T) + SumFunctionOnSet(f, S \ T)
      <4>1. SumFunctionOnSet(f, S \ U) = f[x] + SumFunctionOnSet(f, S \ T)
        BY <3>6, <3>7
      <4> HIDE DEF U
      <4> QED BY <3>3, <3>5, <4>1, <3>8
    <3> QED BY <3>9
  <2> QED BY <2>1, <2>2
<1>2. SUBSET S \subseteq Good
  <2> HIDE DEF Good
  <2> QED BY <1>1, SetOfSubsets
<1> QED BY <1>2

\* New members, one for each of the first n numbers, add what they are worth.
Joined(S, n, row) == S \cup {row[i] : i \in 1..n}
Brings(f, S, n, row, g) ==
  /\ \A i \in 1..n : row[i] \notin S /\ g[i] \in Int /\ f[row[i]] = g[i]
  /\ \A i, j \in 1..n : row[i] = row[j] => i = j
LEMMA SumJoin ==
  ASSUME NEW S, IsFiniteSet(S), NEW f, \A x \in S : f[x] \in Int,
         NEW n \in Nat, NEW row, NEW g, Brings(f, S, n, row, g)
  PROVE  SumFunctionOnSet(f, Joined(S, n, row)) = SumFunctionOnSet(f, S) + SumFunctionOnSet(g, 1..n)
<1> USE DEF Brings
<1> DEFINE New(k) == {row[i] : i \in 1..k}
           A == {k \in Nat : k <= n => /\ IsFiniteSet(S \cup New(k))
                                       /\ SumFunctionOnSet(f, S \cup New(k))
                                            = SumFunctionOnSet(f, S) + SumFunctionOnSet(g, 1..k)}
<1>1. 0 \in A
  <2>1. 1..0 = {} /\ S \cup New(0) = S
    OBVIOUS
  <2>2. SumFunctionOnSet(f, S) \in Int /\ SumFunctionOnSet(g, {}) = 0
    BY SumType, SumEmpty
  <2>3. IsFiniteSet(S \cup New(0))
    BY <2>1
  <2>4. SumFunctionOnSet(f, S \cup New(0)) = SumFunctionOnSet(f, S) /\ SumFunctionOnSet(g, 1..0) = 0
    BY <2>1, <2>2
  <2>5. SumFunctionOnSet(f, S \cup New(0)) = SumFunctionOnSet(f, S) + SumFunctionOnSet(g, 1..0)
    <3> HIDE DEF New
    <3> QED BY <2>2, <2>4
  <2> QED BY <2>3, <2>5
<1>2. ASSUME NEW k \in Nat, k \in A PROVE k + 1 \in A
  <2> SUFFICES ASSUME k + 1 <= n PROVE k + 1 \in A
    OBVIOUS
  <2> DEFINE T == S \cup New(k)
             U == S \cup New(k + 1)
             x == row[k + 1]
  <2>1. IsFiniteSet(T) /\ SumFunctionOnSet(f, T) = SumFunctionOnSet(f, S) + SumFunctionOnSet(g, 1..k)
    BY <1>2
  <2>2. k + 1 \in 1..n /\ 1..(k + 1) = 1..k \cup {k + 1} /\ 1..k \subseteq 1..n /\ k + 1 \notin 1..k
    OBVIOUS
  <2>3. x \notin T /\ U = T \cup {x}
    BY <2>2
  <2>4. (\A y \in U : f[y] \in Int) /\ f[x] = g[k + 1] /\ g[k + 1] \in Int /\ x \in U /\ U \ {x} = T
    BY <2>2, <2>3
  <2>5. IsFiniteSet(U)
    <3>1. IsFiniteSet(T \cup {x})
      <4> HIDE DEF T, x
      <4> QED BY <2>1, FS_AddElement
    <3> QED BY <2>3, <3>1
  <2>6. SumFunctionOnSet(f, U) = f[x] + SumFunctionOnSet(f, U \ {x})
    <3> HIDE DEF U, x
    <3> QED BY <2>4, <2>5, SumRemove
  <2>7. IsFiniteSet(1..(k + 1)) /\ \A i \in 1..(k + 1) : g[i] \in Int
    BY <2>2, FS_Interval
  <2>8. SumFunctionOnSet(g, 1..(k + 1)) = g[k + 1] + SumFunctionOnSet(g, (1..(k + 1)) \ {k + 1})
    BY <2>7, SumRemove
  <2>9. (1..(k + 1)) \ {k + 1} = 1..k /\ IsFiniteSet(1..k) /\ \A i \in 1..k : g[i] \in Int
    BY <2>2, FS_Interval
  <2>10. SumFunctionOnSet(g, 1..k) \in Int /\ SumFunctionOnSet(f, S) \in Int
    BY <2>9, SumType
  <2>12. SumFunctionOnSet(f, U) = f[x] + SumFunctionOnSet(f, T)
    BY <2>4, <2>6
  <2>13. SumFunctionOnSet(g, 1..(k + 1)) = g[k + 1] + SumFunctionOnSet(g, 1..k)
    BY <2>8, <2>9
  <2>11. SumFunctionOnSet(f, U) = SumFunctionOnSet(f, S) + SumFunctionOnSet(g, 1..(k + 1))
    <3> HIDE DEF U, T, x
    <3> QED BY <2>1, <2>4, <2>12, <2>13, <2>10
  <2> QED BY <2>5, <2>11
<1>3. n \in A
  <2> HIDE DEF A
  <2> QED BY <1>1, <1>2, SetOfNaturals
<1>4. Joined(S, n, row) = S \cup New(n)
  BY DEF Joined
<1>5. SumFunctionOnSet(f, S \cup New(n)) = SumFunctionOnSet(f, S) + SumFunctionOnSet(g, 1..n)
  BY <1>3
<1> HIDE DEF New
<1> QED BY <1>4, <1>5

-----------------------------------------------------------------------------
(* Two facts about finite sets *)

\* The values of a function over a finite set are finitely many, and no more.
LEMMA ImageIsFinite ==
  ASSUME NEW S, IsFiniteSet(S), NEW f, NEW T, \A y \in T : \E x \in S : y = f[x]
  PROVE  IsFiniteSet(T) /\ Cardinality(T) <= Cardinality(S)
<1> DEFINE U == {f[x] : x \in S}
           g == [x \in S |-> f[x]]
<1>1. g \in Surjection(S, U)
  BY DEF Surjection
<1>2. T \subseteq U
  OBVIOUS
<1> HIDE DEF U, g
<1>3. IsFiniteSet(U) /\ Cardinality(U) <= Cardinality(S)
  BY <1>1, FS_Surjection
<1>4. IsFiniteSet(T) /\ Cardinality(T) <= Cardinality(U)
  BY <1>2, <1>3, FS_Subset
<1>5. Cardinality(T) \in Nat /\ Cardinality(U) \in Nat /\ Cardinality(S) \in Nat
  BY <1>3, <1>4, FS_CardinalityType
<1> QED BY <1>3, <1>4, <1>5

\* A finite set of numbers has a largest one.
LEMMA HasLargest ==
  ASSUME NEW S \in SUBSET Int, IsFiniteSet(S), S # {}
  PROVE  \E x \in S : \A y \in S : x >= y
<1> DEFINE Good == {T \in SUBSET S : T # {} => \E x \in T : \A y \in T : x >= y}
<1>1. ASSUME NEW T \in SUBSET S, \A U \in SUBSET T : U # T => U \in Good PROVE T \in Good
  <2> SUFFICES ASSUME T # {} PROVE \E x \in T : \A y \in T : x >= y
    OBVIOUS
  <2>1. PICK t \in T : TRUE
    OBVIOUS
  <2>2. T \ {t} \in Good /\ T \subseteq Int
    BY <1>1
  <2>3. CASE T \ {t} = {}
    BY <2>1, <2>2, <2>3
  <2>4. CASE T \ {t} # {}
    <3>1. PICK u \in T \ {t} : \A y \in T \ {t} : u >= y
      BY <2>2, <2>4
    <3>2. CASE u >= t
      BY <2>2, <3>1, <3>2
    <3>3. CASE t > u
      <4>1. \A y \in T : t >= y
        BY <2>1, <2>2, <3>1, <3>3
      <4> QED BY <4>1
    <3> QED BY <2>1, <2>2, <3>1, <3>2, <3>3
  <2> QED BY <2>3, <2>4
<1>2. SUBSET S \subseteq Good
  <2> HIDE DEF Good
  <2> QED BY <1>1, SetOfSubsets
<1> QED BY <1>2
=============================================================================
