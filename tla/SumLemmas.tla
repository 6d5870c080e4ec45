------------------------------ MODULE SumLemmas -------------------------------
(***************************************************************************)
(* What a sum over a finite set is: SumFunctionOnSet of the library is a   *)
(* recursive function, of which these lemmas establish the recursion, and  *)
(* from it how the sum changes when a term joins it.  Induction is on the  *)
(* number of terms, in the form that a set of numbers has a least one.     *)
(***************************************************************************)
EXTENDS Integers, FiniteSets, Functions, FiniteSetTheorems, TLAPS

\* A set of naturals that is not empty has a least member.
LEMMA LeastNumber ==
  ASSUME NEW T \in SUBSET Nat, T # {}
  PROVE  \E n \in T : \A m \in T : n <= m
  <1> DEFINE less == {p \in Nat \X Nat : p[1] < p[2]}
  <1>1. IsWellFoundedOn(less, Nat)
    BY NatLessThanWellFounded DEF OpToRel
  <1>2. \A m, n \in Nat : <<m, n>> \in less <=> m < n
    OBVIOUS
  <1> HIDE DEF less
  <1>3. PICK n \in T : \A m \in T : ~(<<m, n>> \in less)
    BY <1>1, WFMin
  <1>4. \A m \in T : m \in Nat /\ n \in Nat /\ ~(m < n)
    BY <1>2, <1>3
  <1>5. \A m \in T : n <= m
    BY <1>4
  <1> QED BY <1>5

\* What is true of the empty set, and of a set when it is true of the set
\* without any one member, is true of every finite set.
LEMMA FiniteInduction ==
  ASSUME NEW S, IsFiniteSet(S), NEW good, {} \in good,
         \A T \in SUBSET S : T # {} /\ (\A x \in T : T \ {x} \in good) => T \in good
  PROVE  \A T \in SUBSET S : T \in good
  <1> DEFINE bad == {T \in SUBSET S : T \notin good}
             sizes == {Cardinality(T) : T \in bad}
  <1> SUFFICES ASSUME bad # {} PROVE FALSE
    OBVIOUS
  <1>1. \A T \in SUBSET S : IsFiniteSet(T) /\ Cardinality(T) \in Nat
    BY FS_Subset, FS_CardinalityType
  <1>2. sizes \in SUBSET Nat /\ sizes # {}
    BY <1>1
  <1> HIDE DEF sizes
  <1>3. PICK n \in sizes : \A m \in sizes : n <= m
    BY <1>2, LeastNumber
  <1>4. PICK T \in bad : \A U \in bad : Cardinality(T) <= Cardinality(U)
    BY <1>3 DEF sizes
  <1>5. ASSUME NEW x \in T  PROVE T \ {x} \in good
    <2>1. Cardinality(T \ {x}) = Cardinality(T) - 1
      BY <1>1, FS_RemoveElement
    <2>2. Cardinality(T) \in Nat
      BY <1>1
    <2>3. ~(Cardinality(T) <= Cardinality(T \ {x}))
      BY ONLY <2>1, <2>2
    <2>4. T \ {x} \notin bad
      BY <1>4, <2>3
    <2>5. T \ {x} \in SUBSET S
      OBVIOUS
    <2> QED BY <2>4, <2>5
  <1> QED BY <1>5

\* The term that the sum takes first.
First(T) == CHOOSE x \in T : TRUE

\* g is the sum of f over every subset of S.
Sums(f, S, g) ==
  g = [T \in SUBSET S |-> IF T = {} THEN 0 ELSE f[First(T)] + g[T \ {First(T)}]]

LEMMA SumIsChosen ==
  ASSUME NEW f, NEW S
  PROVE  SumFunctionOnSet(f, S) = (CHOOSE g : Sums(f, S, g))[S]
  BY DEF SumFunctionOnSet, FoldFunctionOnSet, MapThenFoldSet, Sums, First

\* There is such a g: if there is one for the subsets of n members, there is
\* one for those of n + 1.
LEMMA SumsExist ==
  ASSUME NEW f, NEW S, IsFiniteSet(S)
  PROVE  \E g : Sums(f, S, g)
  <1> DEFINE SumUpTo(n, g) ==
               \A T \in SUBSET S : Cardinality(T) <= n =>
                 g[T] = IF T = {} THEN 0 ELSE f[First(T)] + g[T \ {First(T)}]
             bad == {n \in Nat : ~\E g : SumUpTo(n, g)}
  <1>1. \A T \in SUBSET S : /\ IsFiniteSet(T) /\ Cardinality(T) \in Nat
                            /\ Cardinality(T) <= Cardinality(S)
    BY FS_Subset, FS_CardinalityType
  <1>2. \A T \in SUBSET S : T # {} =>
          /\ First(T) \in T
          /\ T \ {First(T)} \in SUBSET S
          /\ Cardinality(T \ {First(T)}) = Cardinality(T) - 1
    BY <1>1, FS_RemoveElement DEF First
  <1>3. bad = {}
    <2> SUFFICES ASSUME bad # {} PROVE FALSE
      OBVIOUS
    <2>1. PICK n \in bad : \A m \in bad : n <= m
      <3>1. bad \in SUBSET Nat
        OBVIOUS
      <3> QED BY <3>1, LeastNumber
    <2>2. n # 0
      <3> SUFFICES ASSUME n = 0 PROVE FALSE
        OBVIOUS
      <3> DEFINE g == [T \in SUBSET S |-> 0]
      <3>1. \A T \in SUBSET S : Cardinality(T) <= 0 => T = {}
        BY <1>1, FS_EmptySet
      <3>2. SumUpTo(0, g)
        BY <3>1
      <3> QED BY <3>2
    <2>3. n - 1 \in Nat /\ ~(n <= n - 1)
      BY <2>2
    <2>4. PICK g : SumUpTo(n - 1, g)
      BY <2>1, <2>3
    <2> DEFINE next(T) == f[First(T)] + g[T \ {First(T)}]
               h == [T \in SUBSET S |-> IF Cardinality(T) <= n - 1 THEN g[T] ELSE next(T)]
    <2>5. ASSUME NEW T \in SUBSET S, Cardinality(T) <= n
          PROVE  h[T] = IF T = {} THEN 0 ELSE f[First(T)] + h[T \ {First(T)}]
      <3>1. CASE T = {}
        <4>1. Cardinality(T) <= n - 1
          BY <2>3, <3>1, FS_EmptySet
        <4> QED BY <2>4, <3>1, <4>1
      <3>2. CASE T # {}
        <4>1. Cardinality(T \ {First(T)}) <= n - 1 /\ T \ {First(T)} \in SUBSET S
          BY <1>1, <1>2, <2>3, <2>5, <3>2
        <4>2. h[T \ {First(T)}] = g[T \ {First(T)}]
          BY <4>1
        <4>3. h[T] = next(T)
          BY <2>4, <3>2
        <4> HIDE DEF h
        <4> QED BY <3>2, <4>2, <4>3
      <3> QED BY <3>1, <3>2
    <2>6. SumUpTo(n, h)
      BY <2>5
    <2> QED BY <2>1, <2>6
  <1>4. PICK g : SumUpTo(Cardinality(S), g)
    BY <1>1, <1>3
  <1> DEFINE sums == [T \in SUBSET S |-> g[T]]
  <1>5. \A T \in SUBSET S :
          sums[T] = IF T = {} THEN 0 ELSE f[First(T)] + sums[T \ {First(T)}]
    BY <1>1, <1>2, <1>4
  <1>6. sums = [T \in SUBSET S |-> sums[T]]
    OBVIOUS
  <1> HIDE DEF sums
  <1>7. sums = [T \in SUBSET S |->
                  IF T = {} THEN 0 ELSE f[First(T)] + sums[T \ {First(T)}]]
    BY <1>5, <1>6
  <1> QED BY <1>7 DEF Sums

\* A sum of naturals is one.
LEMMA SumsType ==
  ASSUME NEW f, NEW S, IsFiniteSet(S), \A x \in S : f[x] \in Nat,
         NEW g, Sums(f, S, g)
  PROVE  \A T \in SUBSET S : g[T] \in Nat
  <1> DEFINE good == {T \in SUBSET S : g[T] \in Nat}
  <1>1. \A T \in SUBSET S :
          g[T] = IF T = {} THEN 0 ELSE f[First(T)] + g[T \ {First(T)}]
    BY DEF Sums
  <1>2. {} \in good
    BY <1>1
  <1>3. ASSUME NEW T \in SUBSET S, T # {}, \A x \in T : T \ {x} \in good
        PROVE  T \in good
    <2>1. First(T) \in T
      BY <1>3 DEF First
    <2>2. g[T \ {First(T)}] \in Nat /\ f[First(T)] \in Nat
      BY <1>3, <2>1
    <2>3. g[T] = f[First(T)] + g[T \ {First(T)}]
      BY <1>1, <1>3
    <2>4. g[T] \in Nat
      BY <2>2, <2>3
    <2> QED BY <2>4
  <1> HIDE DEF good
  <1>4. \A T \in SUBSET S : T \in good
    BY <1>2, <1>3, FiniteInduction
  <1> QED BY <1>4 DEF good

\* Any term can be taken first.
LEMMA SumsTake ==
  ASSUME NEW f, NEW S, IsFiniteSet(S), \A x \in S : f[x] \in Nat,
         NEW g, Sums(f, S, g)
  PROVE  /\ g[{}] = 0
         /\ \A T \in SUBSET S :
              g[T] \in Nat /\ \A x \in T : g[T] = f[x] + g[T \ {x}]
  <1> DEFINE good == {T \in SUBSET S :
                        \A x \in T : g[T] = f[x] + g[T \ {x}]}
  <1>1. \A T \in SUBSET S :
          g[T] = IF T = {} THEN 0 ELSE f[First(T)] + g[T \ {First(T)}]
    BY DEF Sums
  <1>2. g[{}] = 0
    BY <1>1
  <1>3. {} \in good
    BY <1>2
  <1>4. ASSUME NEW T \in SUBSET S, T # {}, \A x \in T : T \ {x} \in good
        PROVE  T \in good
    <2> DEFINE c == First(T)
    <2>1. c \in T
      BY <1>4 DEF First
    <2>2. g[T] = f[c] + g[T \ {c}]
      BY <1>1, <1>4
    <2> HIDE DEF c
    <2>3. f[c] \in Nat
      BY <1>4, <2>1
    <2>4. ASSUME NEW x \in T  PROVE g[T] = f[x] + g[T \ {x}]
      <3>1. CASE x = c
        BY <2>2, <3>1
      <3>2. CASE x # c
        <4> DEFINE rest == (T \ {c}) \ {x}
        <4>1. (T \ {x}) \ {c} = rest
          OBVIOUS
        <4>2. T \ {c} \in good /\ x \in T \ {c} /\ T \ {x} \in good /\ c \in T \ {x}
          BY <1>4, <2>1, <3>2
        <4>3. g[T \ {c}] = f[x] + g[rest]
          BY <4>2
        <4>4. g[T \ {x}] = f[c] + g[rest]
          BY <4>1, <4>2
        <4>5. g[rest] \in Nat
          BY SumsType
        <4> HIDE DEF rest
        <4> QED BY <2>2, <2>3, <4>3, <4>4, <4>5
      <3> QED BY <3>1, <3>2
    <2> QED BY <2>4
  <1> HIDE DEF good
  <1>5. \A T \in SUBSET S : T \in good
    BY <1>3, <1>4, FiniteInduction
  <1> QED BY <1>2, <1>5, SumsType DEF good

\* The sums over a set depend on the terms of the set only.
LEMMA SumsAgree ==
  ASSUME NEW T, IsFiniteSet(T),
         NEW f1, NEW S1, NEW g1, Sums(f1, S1, g1), T \subseteq S1,
         NEW f2, NEW S2, NEW g2, Sums(f2, S2, g2), T \subseteq S2,
         \A x \in T : f1[x] = f2[x]
  PROVE  g1[T] = g2[T]
  <1> DEFINE good == {U \in SUBSET T : g1[U] = g2[U]}
  <1>0. /\ \A U \in SUBSET S1 :
             g1[U] = IF U = {} THEN 0 ELSE f1[First(U)] + g1[U \ {First(U)}]
        /\ \A U \in SUBSET S2 :
             g2[U] = IF U = {} THEN 0 ELSE f2[First(U)] + g2[U \ {First(U)}]
    BY DEF Sums
  <1>1. /\ \A U \in SUBSET T :
             g1[U] = IF U = {} THEN 0 ELSE f1[First(U)] + g1[U \ {First(U)}]
        /\ \A U \in SUBSET T :
             g2[U] = IF U = {} THEN 0 ELSE f2[First(U)] + g2[U \ {First(U)}]
    BY <1>0
  <1>2. {} \in good
    BY <1>1
  <1>3. ASSUME NEW U \in SUBSET T, U # {}, \A x \in U : U \ {x} \in good
        PROVE  U \in good
    <2>1. First(U) \in U
      BY <1>3 DEF First
    <2>2. g1[U \ {First(U)}] = g2[U \ {First(U)}] /\ f1[First(U)] = f2[First(U)]
      BY <1>3, <2>1
    <2>3. g1[U] = g2[U]
      BY <1>1, <1>3, <2>2
    <2> QED BY <2>3
  <1> HIDE DEF good
  <1>4. \A U \in SUBSET T : U \in good
    BY <1>2, <1>3, FiniteInduction
  <1>5. T \in good
    BY <1>4
  <1> QED BY <1>5 DEF good

-----------------------------------------------------------------------------
(* The sum of the library *)

LEMMA SumIsOneOfSums ==
  ASSUME NEW f, NEW S, IsFiniteSet(S)
  PROVE  \E g : Sums(f, S, g) /\ SumFunctionOnSet(f, S) = g[S]
  <1> DEFINE g == CHOOSE h : Sums(f, S, h)
  <1>1. Sums(f, S, g)
    BY SumsExist
  <1>2. SumFunctionOnSet(f, S) = g[S]
    BY SumIsChosen
  <1> QED BY <1>1, <1>2

\* No term sums to nothing.
LEMMA SumOfNone ==
  ASSUME NEW f
  PROVE  SumFunctionOnSet(f, {}) = 0
  <1>1. PICK g : Sums(f, {}, g) /\ SumFunctionOnSet(f, {}) = g[{}]
    BY SumIsOneOfSums, FS_EmptySet
  <1> QED BY <1>1, SumsTake, FS_EmptySet

LEMMA SumType ==
  ASSUME NEW f, NEW S, IsFiniteSet(S), \A x \in S : f[x] \in Nat
  PROVE  SumFunctionOnSet(f, S) \in Nat
  <1>1. PICK g : Sums(f, S, g) /\ SumFunctionOnSet(f, S) = g[S]
    BY SumIsOneOfSums
  <1> QED BY <1>1, SumsType

\* Only the terms over the set count.
LEMMA SumSame ==
  ASSUME NEW S, IsFiniteSet(S), NEW f1, NEW f2, \A x \in S : f1[x] = f2[x]
  PROVE  SumFunctionOnSet(f1, S) = SumFunctionOnSet(f2, S)
  <1>1. PICK g1 : Sums(f1, S, g1) /\ SumFunctionOnSet(f1, S) = g1[S]
    BY SumIsOneOfSums
  <1>2. PICK g2 : Sums(f2, S, g2) /\ SumFunctionOnSet(f2, S) = g2[S]
    BY SumIsOneOfSums
  <1> QED BY <1>1, <1>2, SumsAgree

\* A term that is taken out lowers the sum by itself.
LEMMA SumWithout ==
  ASSUME NEW f, NEW S, IsFiniteSet(S), \A y \in S : f[y] \in Nat, NEW x \in S
  PROVE  SumFunctionOnSet(f, S) = f[x] + SumFunctionOnSet(f, S \ {x})
  <1> DEFINE T == S \ {x}
  <1>1. IsFiniteSet(T) /\ T \subseteq S
    BY FS_Subset
  <1> HIDE DEF T
  <1>2. PICK g : Sums(f, S, g) /\ SumFunctionOnSet(f, S) = g[S]
    BY SumIsOneOfSums
  <1>3. PICK h : Sums(f, T, h) /\ SumFunctionOnSet(f, T) = h[T]
    BY <1>1, SumIsOneOfSums
  <1>4. g[T] = h[T]
    BY <1>1, <1>2, <1>3, SumsAgree
  <1>5. g[S] = f[x] + g[T]
    BY <1>2, SumsTake DEF T
  <1> QED BY <1>2, <1>3, <1>4, <1>5 DEF T

\* Part of the terms sum to no more than all.
LEMMA SumOfPart ==
  ASSUME NEW f, NEW S, IsFiniteSet(S), \A x \in S : f[x] \in Nat,
         NEW T \in SUBSET S
  PROVE  SumFunctionOnSet(f, T) <= SumFunctionOnSet(f, S)
  <1> DEFINE sum(U) == SumFunctionOnSet(f, U)
             good == {U \in SUBSET S : T \subseteq U => sum(T) <= sum(U)}
  <1>1. \A U \in SUBSET S : IsFiniteSet(U) /\ sum(U) \in Nat
    BY FS_Subset, SumType
  <1>2. \A U \in SUBSET S : \A x \in U : sum(U) = f[x] + sum(U \ {x})
    <2> TAKE U \in SUBSET S
    <2> TAKE x \in U
    <2>1. IsFiniteSet(U) /\ \A y \in U : f[y] \in Nat
      BY <1>1
    <2> QED BY <2>1, SumWithout
  <1> HIDE DEF sum
  <1>3. {} \in good
    <2>1. sum({}) <= sum({})
      BY <1>1
    <2>2. T \subseteq {} => T = {}
      OBVIOUS
    <2> QED BY <2>1, <2>2
  <1>4. ASSUME NEW U \in SUBSET S, U # {}, \A x \in U : U \ {x} \in good
        PROVE  U \in good
    <2>1. CASE ~(T \subseteq U)
      BY <2>1
    <2>2. CASE T = U
      BY <1>1, <2>2
    <2>3. CASE T \subseteq U /\ T # U
      <3>1. PICK x \in U : x \notin T
        BY <2>3
      <3>2. sum(T) <= sum(U \ {x})
        BY <1>4, <2>3, <3>1
      <3>3. sum(U) = f[x] + sum(U \ {x}) /\ f[x] \in Nat /\ U \ {x} \in SUBSET S
        BY <1>2
      <3>4. sum(T) \in Nat /\ sum(U \ {x}) \in Nat
        BY <1>1, <3>3
      <3>5. sum(T) <= sum(U)
        BY ONLY <3>2, <3>3, <3>4
      <3> QED BY <3>5
    <2> QED BY <2>1, <2>2, <2>3
  <1> HIDE DEF good
  <1>5. \A U \in SUBSET S : U \in good
    BY <1>3, <1>4, FiniteInduction
  <1>6. S \in good
    BY <1>5
  <1> QED BY <1>6 DEF good, sum

\* A term that joins raises the sum by itself.
LEMMA SumWith ==
  ASSUME NEW f, NEW S, IsFiniteSet(S), NEW x, x \notin S,
         \A y \in S \cup {x} : f[y] \in Nat
  PROVE  SumFunctionOnSet(f, S \cup {x}) = SumFunctionOnSet(f, S) + f[x]
  <1> DEFINE T == S \cup {x}
  <1>1. IsFiniteSet(T) /\ x \in T /\ T \ {x} = S
    BY FS_AddElement
  <1> HIDE DEF T
  <1>2. SumFunctionOnSet(f, T) = f[x] + SumFunctionOnSet(f, S)
    BY <1>1, SumWithout DEF T
  <1>3. \A y \in S : f[y] \in Nat
    OBVIOUS
  <1>4. SumFunctionOnSet(f, S) \in Nat
    BY <1>3, SumType
  <1>5. f[x] \in Nat
    OBVIOUS
  <1> QED BY ONLY <1>2, <1>4, <1>5 DEF T
=============================================================================
