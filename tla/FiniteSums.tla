------------------------------- MODULE FiniteSums -------------------------------
(***************************************************************************)
(* What the proofs about the other modules use of finite sets: induction   *)
(* over the subsets of one, the greatest member of a set of numbers, how   *)
(* sizes change, and the sums of the community module Functions.           *)
(*                                                                         *)
(* SumFunctionOnSet is a recursive function over the subsets of a set that *)
(* takes their members in the order of CHOOSE.  The lemmas show that the   *)
(* function is there, and that the order does not matter.                  *)
(***************************************************************************)
EXTENDS Integers, Functions, TLAPS, FiniteSetTheorems, WellFoundedInduction

\* The natural numbers are well founded: a set of them that is not empty has a least one.
LEMMA Least ==
    ASSUME NEW K \in SUBSET Nat, K # {}
    PROVE  \E k \in K : \A j \in K : k <= j
  <1>1. PICK k \in K : \A j \in K : ~(<<j, k>> \in OpToRel(<, Nat))
    BY NatLessThanWellFounded, WFMin
  <1>2. \A j \in K : ~(j < k)
    BY <1>1 DEF OpToRel
  <1> QED BY <1>2

\* Induction over the subsets of a finite set: of some subsets there is one that is
\* not among them any more when it loses any of its members.
LEMMA SmallestSubset ==
    ASSUME NEW S, IsFiniteSet(S), NEW B \in SUBSET SUBSET S, B # {}
    PROVE  \E T \in B : \A x \in T : T \ {x} \notin B
  <1> DEFINE Sizes == {Cardinality(T) : T \in B}
  <1>1. \A T \in SUBSET S : IsFiniteSet(T) /\ Cardinality(T) \in Nat
    BY FS_Subset, FS_CardinalityType
  <1>2. Sizes \in SUBSET Nat /\ Sizes # {}
    BY <1>1
  <1>3. PICK k \in Sizes : \A j \in Sizes : k <= j
    <2> HIDE DEF Sizes
    <2> QED BY <1>2, Least
  <1>4. PICK T \in B : Cardinality(T) = k
    BY <1>3
  <1>5. ASSUME NEW x \in T, T \ {x} \in B PROVE FALSE
    <2>1. Cardinality(T \ {x}) = k - 1
      BY <1>1, <1>4, FS_RemoveElement
    <2>2. k <= k - 1 /\ k \in Nat
      BY <1>1, <1>3, <1>4, <1>5, <2>1
    <2> QED BY <2>2
  <1> QED BY <1>5

\* A finite set of natural numbers that is not empty has a greatest.
LEMMA Greatest ==
    ASSUME NEW S \in SUBSET Nat, IsFiniteSet(S), S # {}
    PROVE  \E n \in S : \A m \in S : n >= m
  <1> DEFINE B == {T \in SUBSET S : T # {} /\ \A n \in T : \E m \in T : m > n}
  <1>1. SUFFICES B = {}
    BY <1>1
  <1>2. SUFFICES ASSUME B # {} PROVE FALSE
    OBVIOUS
  <1>3. PICK T \in B : \A x \in T : T \ {x} \notin B
    <2>1. B \in SUBSET SUBSET S
      OBVIOUS
    <2> HIDE DEF B
    <2> QED BY <1>2, <2>1, SmallestSubset
  <1>4. PICK x \in T : TRUE
    BY <1>3
  <1>5. PICK y \in T : y > x
    BY <1>3, <1>4
  <1>6. PICK n \in T \ {x} : \A m \in T \ {x} : n >= m
    BY <1>3, <1>4, <1>5
  <1>7. \A m \in T : n >= m
    BY <1>4, <1>5, <1>6
  <1> QED BY <1>3, <1>6, <1>7

-----------------------------------------------------------------------------
(* Sizes *)

\* A part of a finite set is finite and no larger.
LEMMA CountWithin ==
    ASSUME NEW A, IsFiniteSet(A), NEW B, B \subseteq A
    PROVE  IsFiniteSet(B) /\ Cardinality(B) \in Nat /\ Cardinality(B) <= Cardinality(A)
  BY FS_Subset, FS_CardinalityType

\* One member more makes it one larger at most.
LEMMA CountGrows ==
    ASSUME NEW A, IsFiniteSet(A), NEW x, NEW B, B \subseteq A \cup {x}
    PROVE  IsFiniteSet(B) /\ Cardinality(B) \in Nat /\ Cardinality(B) <= Cardinality(A) + 1
  <1>0. Cardinality(A) \in Nat
    BY FS_CardinalityType
  <1>1. IsFiniteSet(A \cup {x}) /\ Cardinality(A \cup {x}) <= Cardinality(A) + 1
    <2>1. /\ IsFiniteSet(A \cup {x})
          /\ Cardinality(A \cup {x}) = IF x \in A THEN Cardinality(A) ELSE Cardinality(A) + 1
      BY FS_AddElement
    <2> QED BY <1>0, <2>1
  <1>2. IsFiniteSet(B) /\ Cardinality(B) \in Nat /\ Cardinality(B) <= Cardinality(A \cup {x})
    BY <1>1, CountWithin
  <1>3. Cardinality(A \cup {x}) \in Nat
    BY <1>1, FS_CardinalityType
  <1> QED BY <1>0, <1>1, <1>2, <1>3

\* One member less makes it smaller.
LEMMA CountDrops ==
    ASSUME NEW A, IsFiniteSet(A), NEW x \in A, NEW B, B \subseteq A \ {x}
    PROVE  IsFiniteSet(B) /\ Cardinality(B) \in Nat /\ Cardinality(B) <= Cardinality(A) - 1
  <1>1. /\ IsFiniteSet(A \ {x}) /\ Cardinality(A) \in Nat
        /\ Cardinality(A \ {x}) = Cardinality(A) - 1
    BY FS_RemoveElement, FS_CardinalityType
  <1> QED BY <1>1, CountWithin

\* A finite set has one member when it has one and no two.
LEMMA CountOne ==
    ASSUME NEW A, IsFiniteSet(A)
    PROVE  /\ Cardinality(A) \in Nat
           /\ Cardinality(A) = 1 <=> A # {} /\ \A x, y \in A : x = y
           /\ Cardinality(A) <= 1 <=> \A x, y \in A : x = y
  <1>1. Cardinality(A) = 1 <=> \E x : A = {x}
    BY FS_Singleton
  <1>2. Cardinality(A) = 0 <=> A = {}
    BY FS_EmptySet
  <1>3. Cardinality(A) \in Nat
    BY FS_CardinalityType
  <1>4. (\E x : A = {x}) <=> A # {} /\ \A x, y \in A : x = y
    OBVIOUS
  <1>5. Cardinality(A) <= 1 <=> Cardinality(A) = 0 \/ Cardinality(A) = 1
    BY <1>3
  <1> QED BY <1>1, <1>2, <1>3, <1>4, <1>5

-----------------------------------------------------------------------------
(* The recursive function of a sum *)

Pick(s) == CHOOSE x \in s : TRUE

\* One unfolding, on the subsets of S.
Unfolded(f, S, g) ==
    [s \in SUBSET S |-> IF s = {} THEN 0 ELSE f[Pick(s)] + g[s \ {Pick(s)}]]

\* The member picked from a set is one of it.
LEMMA PickIsMember == ASSUME NEW s, s # {} PROVE Pick(s) \in s
  BY DEF Pick

\* The function is there on every finite set: it is on the subsets of each size.
LEMMA SumIsThere ==
    ASSUME NEW f, NEW S, IsFiniteSet(S)
    PROVE  \E g : g = Unfolded(f, S, g)
  <1> DEFINE Small(n) == {s \in SUBSET S : Cardinality(s) <= n}
             Next(n, g) == [s \in Small(n) |-> IF s = {} THEN 0 ELSE f[Pick(s)] + g[s \ {Pick(s)}]]
             Bad == {n \in Nat : ~ \E g : g = Next(n, g)}
  <1>1. \A s \in SUBSET S : /\ IsFiniteSet(s) /\ Cardinality(s) \in Nat
                            /\ Cardinality(s) = 0 => s = {}
                            /\ s # {} => /\ s \ {Pick(s)} \in SUBSET S
                                         /\ Cardinality(s \ {Pick(s)}) = Cardinality(s) - 1
    BY FS_Subset, FS_CardinalityType, FS_EmptySet, FS_RemoveElement, PickIsMember
  <1>2. ASSUME Bad # {} PROVE FALSE
    <2>1. PICK k \in Bad : \A j \in Bad : k <= j
      <3>1. Bad \in SUBSET Nat
        OBVIOUS
      <3> HIDE DEF Bad
      <3> QED BY <1>2, <3>1, Least
    <2>2. PICK h : k # 0 => h = Next(k - 1, h)
      <3>1. k \in Nat
        BY <2>1
      <3>2. k # 0 => k - 1 \in Nat /\ k - 1 \notin Bad
        <4> HIDE DEF Bad
        <4> QED BY <2>1, <3>1
      <3> QED BY <3>2
    <2> DEFINE g == Next(k, h)
    <2>3. ASSUME NEW s \in Small(k), s # {}
          PROVE  g[s \ {Pick(s)}] = h[s \ {Pick(s)}]
      <3> DEFINE u == s \ {Pick(s)}
      <3>1. u \in Small(k - 1) /\ u \in Small(k) /\ k # 0
        BY <1>1, <2>1, <2>3
      <3>2. h[u] = IF u = {} THEN 0 ELSE f[Pick(u)] + h[u \ {Pick(u)}]
        BY <2>2, <3>1, Zenon
      <3>3. g[u] = IF u = {} THEN 0 ELSE f[Pick(u)] + h[u \ {Pick(u)}]
        BY <3>1, Zenon
      <3> QED BY <3>2, <3>3
    <2>4. \A s \in Small(k) : (IF s = {} THEN 0 ELSE f[Pick(s)] + h[s \ {Pick(s)}])
                             = (IF s = {} THEN 0 ELSE f[Pick(s)] + g[s \ {Pick(s)}])
      <3> HIDE DEF g, Small
      <3> QED BY <2>3
    <2>5. g = Next(k, g)
      <3>1. Next(k, h) = Next(k, g)
        <4> HIDE DEF g, Small
        <4> QED BY <2>4, Zenon
      <3> QED BY <3>1
    <2> QED BY <2>1, <2>5
  <1>3. PICK g : g = Next(Cardinality(S), g)
    BY <1>1, <1>2
  <1>4. Small(Cardinality(S)) = SUBSET S
    BY FS_Subset
  <1>5. g = Unfolded(f, S, g)
    BY <1>3, <1>4, Zenon DEF Unfolded
  <1> QED BY <1>5

\* There is one such function only, whatever larger set it is on.
LEMMA SumIsUnique ==
    ASSUME NEW f, NEW S, IsFiniteSet(S), NEW T \in SUBSET S,
           NEW g, g = Unfolded(f, S, g), NEW h, h = Unfolded(f, T, h)
    PROVE  g[T] = h[T]
  <1> DEFINE B == {s \in SUBSET T : g[s] # h[s]}
  <1>1. ASSUME B # {} PROVE FALSE
    <2>1. PICK s \in B : \A x \in s : s \ {x} \notin B
      <3>1. B \in SUBSET SUBSET T /\ IsFiniteSet(T)
        BY FS_Subset
      <3> HIDE DEF B
      <3> QED BY <1>1, <3>1, SmallestSubset
    <2>2. /\ g[s] = IF s = {} THEN 0 ELSE f[Pick(s)] + g[s \ {Pick(s)}]
          /\ h[s] = IF s = {} THEN 0 ELSE f[Pick(s)] + h[s \ {Pick(s)}]
      BY <2>1, Zenon DEF Unfolded
    <2>3. s # {} => g[s \ {Pick(s)}] = h[s \ {Pick(s)}]
      BY <2>1, PickIsMember
    <2> QED BY <2>1, <2>2, <2>3
  <1> QED BY <1>1

\* A sum is that function.
LEMMA SumUnfolds ==
    ASSUME NEW f, NEW S, IsFiniteSet(S)
    PROVE  \E g : g = Unfolded(f, S, g) /\ SumFunctionOnSet(f, S) = g[S]
  <1> DEFINE g == CHOOSE g : g = Unfolded(f, S, g)
  <1>1. g = Unfolded(f, S, g)
    BY SumIsThere
  <1>2. SumFunctionOnSet(f, S) = g[S]
    BY DEF SumFunctionOnSet, FoldFunctionOnSet, MapThenFoldSet, Unfolded, Pick
  <1> QED BY <1>1, <1>2

-----------------------------------------------------------------------------
(* Sums *)

\* There is nothing to add.
LEMMA SumEmpty == ASSUME NEW f PROVE SumFunctionOnSet(f, {}) = 0
  <1>1. PICK g : g = Unfolded(f, {}, g) /\ SumFunctionOnSet(f, {}) = g[{}]
    BY FS_EmptySet, SumUnfolds
  <1> QED BY <1>1, Zenon DEF Unfolded

\* The member that CHOOSE takes, and the rest.
LEMMA SumPick ==
    ASSUME NEW f, NEW S, IsFiniteSet(S), S # {}
    PROVE  SumFunctionOnSet(f, S) = f[Pick(S)] + SumFunctionOnSet(f, S \ {Pick(S)})
  <1> DEFINE T == S \ {Pick(S)}
  <1>1. PICK g : g = Unfolded(f, S, g) /\ SumFunctionOnSet(f, S) = g[S]
    BY SumUnfolds
  <1>2. PICK h : h = Unfolded(f, T, h) /\ SumFunctionOnSet(f, T) = h[T]
    BY SumUnfolds, FS_Subset
  <1>3. g[T] = h[T]
    BY <1>1, <1>2, SumIsUnique
  <1>4. g[S] = f[Pick(S)] + g[T]
    BY <1>1, Zenon DEF Unfolded
  <1> QED BY <1>1, <1>2, <1>3, <1>4

\* A sum of integers is one, and of natural numbers is one.
LEMMA SumType ==
    ASSUME NEW f, NEW S, IsFiniteSet(S), \A x \in S : f[x] \in Int
    PROVE  /\ SumFunctionOnSet(f, S) \in Int
           /\ (\A x \in S : f[x] >= 0) => SumFunctionOnSet(f, S) >= 0
  <1> DEFINE Good(T) == /\ SumFunctionOnSet(f, T) \in Int
                        /\ (\A x \in S : f[x] >= 0) => SumFunctionOnSet(f, T) >= 0
             B == {T \in SUBSET S : ~Good(T)}
  <1>1. ASSUME B # {} PROVE FALSE
    <2>1. PICK T \in B : \A x \in T : T \ {x} \notin B
      <3>1. B \in SUBSET SUBSET S
        OBVIOUS
      <3> HIDE DEF B
      <3> QED BY <1>1, <3>1, SmallestSubset
    <2>2. T # {}
      BY <2>1, SumEmpty
    <2>3. SumFunctionOnSet(f, T) = f[Pick(T)] + SumFunctionOnSet(f, T \ {Pick(T)})
      BY <2>1, <2>2, SumPick, FS_Subset
    <2>4. f[Pick(T)] \in Int /\ Pick(T) \in S /\ Good(T \ {Pick(T)})
      BY <2>1, <2>2, PickIsMember
    <2> QED BY <2>1, <2>3, <2>4
  <1> QED BY <1>1

\* Nothing adds up to nothing.
LEMMA SumOfZeros ==
    ASSUME NEW f, NEW S, IsFiniteSet(S), \A x \in S : f[x] = 0
    PROVE  SumFunctionOnSet(f, S) = 0
  <1> DEFINE B == {T \in SUBSET S : SumFunctionOnSet(f, T) # 0}
  <1>1. ASSUME B # {} PROVE FALSE
    <2>1. PICK T \in B : \A x \in T : T \ {x} \notin B
      <3>1. B \in SUBSET SUBSET S
        OBVIOUS
      <3> HIDE DEF B
      <3> QED BY <1>1, <3>1, SmallestSubset
    <2>2. T # {}
      BY <2>1, SumEmpty
    <2>3. SumFunctionOnSet(f, T) = f[Pick(T)] + SumFunctionOnSet(f, T \ {Pick(T)})
      BY <2>1, <2>2, SumPick, FS_Subset
    <2>4. f[Pick(T)] = 0 /\ SumFunctionOnSet(f, T \ {Pick(T)}) = 0
      BY <2>1, <2>2, PickIsMember
    <2> QED BY <2>1, <2>3, <2>4
  <1> QED BY <1>1

\* Any member, and the rest: the order does not matter.
LEMMA SumWithout ==
    ASSUME NEW f, NEW S, IsFiniteSet(S), \A x \in S : f[x] \in Int, NEW y \in S
    PROVE  SumFunctionOnSet(f, S) = f[y] + SumFunctionOnSet(f, S \ {y})
  <1> DEFINE Sum(T) == SumFunctionOnSet(f, T)
             B == {T \in SUBSET S : \E x \in T : Sum(T) # f[x] + Sum(T \ {x})}
  <1>1. ASSUME B # {} PROVE FALSE
    <2>1. PICK T \in B : \A x \in T : T \ {x} \notin B
      <3>1. B \in SUBSET SUBSET S
        OBVIOUS
      <3> HIDE DEF B
      <3> QED BY <1>1, <3>1, SmallestSubset
    <2>2. PICK x \in T : Sum(T) # f[x] + Sum(T \ {x})
      BY <2>1
    <2> DEFINE c == Pick(T)
               R == (T \ {x}) \ {c}
    <2>3. c \in T /\ Sum(T) = f[c] + Sum(T \ {c})
      BY <2>1, <2>2, PickIsMember, SumPick, FS_Subset
    <2>4. x # c
      BY <2>2, <2>3
    <2>5. Sum(T \ {x}) = f[c] + Sum(R)
      BY <2>1, <2>2, <2>3, <2>4
    <2>6. (T \ {c}) \ {x} = R
      OBVIOUS
    <2>7. Sum(T \ {c}) = f[x] + Sum(R)
      BY <2>1, <2>2, <2>3, <2>4, <2>6
    <2>8. f[x] \in Int /\ f[c] \in Int /\ Sum(R) \in Int
      BY <2>1, <2>2, <2>3, SumType, FS_Subset
    <2> HIDE DEF Sum, c, R
    <2> QED BY <2>2, <2>3, <2>5, <2>7, <2>8
  <1> QED BY <1>1

\* Of two functions that agree on the set the sums are the same.
LEMMA SumSame ==
    ASSUME NEW f, NEW g, NEW S, IsFiniteSet(S), \A x \in S : f[x] = g[x]
    PROVE  SumFunctionOnSet(f, S) = SumFunctionOnSet(g, S)
  <1> DEFINE B == {T \in SUBSET S : SumFunctionOnSet(f, T) # SumFunctionOnSet(g, T)}
  <1>1. ASSUME B # {} PROVE FALSE
    <2>1. PICK T \in B : \A x \in T : T \ {x} \notin B
      <3>1. B \in SUBSET SUBSET S
        OBVIOUS
      <3> HIDE DEF B
      <3> QED BY <1>1, <3>1, SmallestSubset
    <2>2. T # {}
      BY <2>1, SumEmpty
    <2>3. /\ SumFunctionOnSet(f, T) = f[Pick(T)] + SumFunctionOnSet(f, T \ {Pick(T)})
          /\ SumFunctionOnSet(g, T) = g[Pick(T)] + SumFunctionOnSet(g, T \ {Pick(T)})
      BY <2>1, <2>2, SumPick, FS_Subset
    <2>4. Pick(T) \in T /\ Pick(T) \in S
      BY <2>1, <2>2, PickIsMember
    <2> QED BY <2>1, <2>3, <2>4
  <1> QED BY <1>1

\* A sum moves with the one member that moves.
LEMMA SumMoves ==
    ASSUME NEW f, NEW g, NEW S, IsFiniteSet(S), \A x \in S : f[x] \in Int /\ g[x] \in Int,
           NEW y \in S, \A x \in S \ {y} : f[x] = g[x]
    PROVE  SumFunctionOnSet(g, S) = SumFunctionOnSet(f, S) + (g[y] - f[y])
  <1> DEFINE R == S \ {y}
  <1>1. IsFiniteSet(R) /\ SumFunctionOnSet(f, R) = SumFunctionOnSet(g, R)
    BY FS_Subset, SumSame
  <1>2. /\ SumFunctionOnSet(f, S) = f[y] + SumFunctionOnSet(f, R)
        /\ SumFunctionOnSet(g, S) = g[y] + SumFunctionOnSet(g, R)
    BY SumWithout
  <1>3. SumFunctionOnSet(f, R) \in Int /\ f[y] \in Int /\ g[y] \in Int
    BY <1>1, SumType
  <1> HIDE DEF R
  <1> QED BY <1>1, <1>2, <1>3

\* The sum of a part and of the rest.
LEMMA SumSplits ==
    ASSUME NEW f, NEW S, IsFiniteSet(S), \A x \in S : f[x] \in Int, NEW P \in SUBSET S
    PROVE  SumFunctionOnSet(f, S) = SumFunctionOnSet(f, P) + SumFunctionOnSet(f, S \ P)
  <1> DEFINE Sum(T) == SumFunctionOnSet(f, T)
             B == {T \in SUBSET S : Sum(T) # Sum(T \cap P) + Sum(T \ P)}
  <1>0. \A T \in SUBSET S : Sum(T) \in Int
    BY SumType, FS_Subset
  <1>1. ASSUME B # {} PROVE FALSE
    <2>1. PICK T \in B : \A x \in T : T \ {x} \notin B
      <3>1. B \in SUBSET SUBSET S
        OBVIOUS
      <3> HIDE DEF B
      <3> QED BY <1>1, <3>1, SmallestSubset
    <2>7. Sum(T) # Sum(T \cap P) + Sum(T \ P)
      BY <2>1
    <2>2. PICK x \in T : TRUE
      <3>1. Sum({}) = 0 /\ {} \cap P = {} /\ {} \ P = {}
        BY SumEmpty
      <3>2. ASSUME T = {} PROVE FALSE
        <4>1. T \cap P = {} /\ T \ P = {}
          BY <3>2
        <4>2. Sum(T) = 0 /\ Sum(T \cap P) = 0 /\ Sum(T \ P) = 0
          BY <3>1, <3>2, <4>1
        <4> HIDE DEF Sum
        <4> QED BY <2>7, <4>2
      <3> QED BY <3>2
    <2> DEFINE R == T \ {x}
    <2>3. Sum(R) = Sum(R \cap P) + Sum(R \ P)
      <3>1. R \in SUBSET S /\ R \notin B
        BY <2>1, <2>2
      <3> HIDE DEF Sum, R
      <3> QED BY <3>1
    <2>4. f[x] \in Int /\ Sum(T) = f[x] + Sum(R)
      BY <2>1, <2>2, SumWithout, FS_Subset
    <2>5. CASE x \in P
      <3>1. R \cap P = (T \cap P) \ {x} /\ R \ P = T \ P
        BY <2>5
      <3>2. Sum(T \cap P) = f[x] + Sum(R \cap P)
        <4>1. IsFiniteSet(T \cap P) /\ x \in T \cap P /\ \A y \in T \cap P : f[y] \in Int
          BY <2>1, <2>2, <2>5, FS_Subset
        <4>2. Sum(T \cap P) = f[x] + Sum((T \cap P) \ {x})
          BY <4>1, SumWithout
        <4> QED BY <3>1, <4>2
      <3>3. Sum(R \cap P) \in Int /\ Sum(R \ P) \in Int
        BY <1>0, <2>1
      <3> HIDE DEF Sum, R
      <3>4. Sum(R \ P) = Sum(T \ P)
        BY <3>1
      <3>5. Sum(T) = Sum(T \cap P) + Sum(T \ P)
        BY <2>3, <2>4, <3>2, <3>3, <3>4
      <3> QED BY <2>7, <3>5
    <2>6. CASE x \notin P
      <3>1. R \cap P = T \cap P /\ R \ P = (T \ P) \ {x}
        BY <2>6
      <3>2. Sum(T \ P) = f[x] + Sum(R \ P)
        <4>1. IsFiniteSet(T \ P) /\ x \in T \ P /\ \A y \in T \ P : f[y] \in Int
          BY <2>1, <2>2, <2>6, FS_Subset
        <4>2. Sum(T \ P) = f[x] + Sum((T \ P) \ {x})
          BY <4>1, SumWithout
        <4> QED BY <3>1, <4>2
      <3>3. Sum(R \cap P) \in Int /\ Sum(R \ P) \in Int
        BY <1>0, <2>1
      <3> HIDE DEF Sum, R
      <3>4. Sum(R \cap P) = Sum(T \cap P)
        BY <3>1
      <3>5. Sum(T) = Sum(T \cap P) + Sum(T \ P)
        BY <2>3, <2>4, <3>2, <3>3, <3>4
      <3> QED BY <2>7, <3>5
    <2> QED BY <2>5, <2>6
  <1>2. S \cap P = P
    OBVIOUS
  <1> QED BY <1>1, <1>2
=============================================================================
