----------------------------- MODULE SumTheorems ----------------------------
(***************************************************************************)
(* What sums over finite sets (SumFunctionOnSet) are and how they change:  *)
(* the facts about failures by age and about the lines of a demand that    *)
(* BreakerProofs and DevelopmentModeProofs rest on.                        *)
(*                                                                         *)
(* The sum is a recursive function over the subsets of a set.  That one    *)
(* exists, and everything about it, is proved by induction; a theorem with *)
(* a predicate as its parameter cannot be cited, so the induction schemes  *)
(* below speak of the set of the values that have the property.            *)
(***************************************************************************)
EXTENDS Functions, FiniteSetTheorems, WellFoundedInduction, TLAPS

-----------------------------------------------------------------------------
\* A nonempty set of natural numbers has a least element.
LEMMA Least ==
  ASSUME NEW S \in SUBSET Nat, S # {}
  PROVE  \E i \in S : \A j \in S : i <= j
<1> DEFINE R == {ss \in Nat \X Nat : ss[1] < ss[2]}
<1>1. IsWellFoundedOn(R, Nat)
  BY Zenon, NatLessThanWellFounded DEF OpToRel
<1> HIDE DEF R
<1>2. PICK i \in S : \A j \in S : ~(<<j, i>> \in R)
  BY <1>1, WFMin, Zenon
<1>3. \A j \in S : j < i => <<j, i>> \in R
  BY DEF R
<1>4. \A j \in S : ~(j < i)
  BY <1>2, <1>3, Zenon
<1> QED  BY <1>4

\* Induction: a set of naturals with 0 and every successor is all of them.
LEMMA NaturalInduction ==
  ASSUME NEW G \in SUBSET Nat, 0 \in G, \A n \in G : n + 1 \in G
  PROVE  G = Nat
<1> SUFFICES ASSUME Nat \ G # {} PROVE FALSE
  OBVIOUS
<1>1. PICK n \in Nat \ G : \A m \in Nat \ G : n <= m
  BY Least
<1>2. n - 1 \in Nat /\ n - 1 \notin G
  BY <1>1
<1> QED  BY <1>1, <1>2

\* Induction over a finite set: what the empty set is, and a subset of S
\* whenever all that lack one of its elements are, S itself is.
LEMMA SubsetInduction ==
  ASSUME NEW S, IsFiniteSet(S), NEW G \in SUBSET (SUBSET S), {} \in G,
         \A U \in SUBSET S : U # {} /\ (\A x \in U : U \ {x} \in G) => U \in G
  PROVE  S \in G
<1> DEFINE N == {n \in Nat : \A U \in SUBSET S : Cardinality(U) = n => U \in G}
<1>1. ASSUME NEW U \in SUBSET S
      PROVE  IsFiniteSet(U) /\ Cardinality(U) \in Nat
  BY FS_Subset, FS_CardinalityType
<1>2. 0 \in N
  BY <1>1, FS_EmptySet
<1>3. ASSUME NEW n \in N PROVE n + 1 \in N
  <2> SUFFICES ASSUME NEW U \in SUBSET S, Cardinality(U) = n + 1
               PROVE  U \in G
    OBVIOUS
  <2>1. U # {}
    BY FS_EmptySet
  <2>2. ASSUME NEW x \in U PROVE U \ {x} \in G
    <3>1. Cardinality(U \ {x}) = n
      BY <1>1, FS_RemoveElement
    <3> QED  BY <3>1
  <2> QED  BY <2>1, <2>2
<1> HIDE DEF N
<1>4. N = Nat
  <2>1. N \subseteq Nat
    BY DEF N
  <2> QED  BY <1>2, <1>3, <2>1, NaturalInduction
<1>5. Cardinality(S) \in N
  BY <1>1, <1>4
<1> QED  BY <1>5 DEF N

-----------------------------------------------------------------------------
\* The element a fold takes next, and one round of the sum.
Pick(s) == CHOOSE x \in s : TRUE

SumStep(f, g, s) == IF s = {} THEN 0 ELSE f[Pick(s)] + g[s \ {Pick(s)}]

\* g is the sum of f on the sets of D.
IsSum(f, g, D) == g = [s \in D |-> SumStep(f, g, s)]

Small(S, n) == {s \in SUBSET S : Cardinality(s) <= n}

LEMMA PickIn ==
  ASSUME NEW s, s # {}
  PROVE  Pick(s) \in s
BY DEF Pick

LEMMA IsSumValue ==
  ASSUME NEW f, NEW D, NEW g, IsSum(f, g, D), NEW s \in D
  PROVE  g[s] = SumStep(f, g, s)
<1> DEFINE h == [u \in D |-> SumStep(f, g, u)]
<1>1. g = h
  BY DEF IsSum
<1>2. h[s] = SumStep(f, g, s)
  OBVIOUS
<1> HIDE DEF h
<1> QED  BY <1>1, <1>2

\* The recursion has a solution on every finite set.
LEMMA SumExists ==
  ASSUME NEW f, NEW S, IsFiniteSet(S)
  PROVE  \E g : IsSum(f, g, SUBSET S)
<1> DEFINE N == {n \in Nat : \E g : IsSum(f, g, Small(S, n))}
<1>1. ASSUME NEW s \in SUBSET S
      PROVE  IsFiniteSet(s) /\ Cardinality(s) \in Nat
  BY FS_Subset, FS_CardinalityType
<1>2. 0 \in N
  <2> DEFINE z == [s \in Small(S, 0) |-> 0]
  <2>1. ASSUME NEW s \in Small(S, 0) PROVE s = {}
    <3>1. s \in SUBSET S /\ Cardinality(s) = 0
      BY <1>1 DEF Small
    <3> QED  BY <1>1, <3>1, FS_EmptySet
  <2>2. \A s \in Small(S, 0) : SumStep(f, z, s) = 0
    BY <2>1 DEF SumStep
  <2>3. IsSum(f, z, Small(S, 0))
    BY <2>2 DEF IsSum
  <2> QED  BY <2>3
<1>3. ASSUME NEW n \in N PROVE n + 1 \in N
  <2>1. PICK g : IsSum(f, g, Small(S, n))
    OBVIOUS
  <2> DEFINE h == [s \in Small(S, n + 1) |-> SumStep(f, g, s)]
  <2>2. ASSUME NEW s \in Small(S, n + 1) PROVE SumStep(f, h, s) = SumStep(f, g, s)
    <3>1. CASE s = {}
      BY <3>1 DEF SumStep
    <3>2. CASE s # {}
      <4> DEFINE t == s \ {Pick(s)}
      <4>1. s \in SUBSET S /\ Cardinality(s) <= n + 1
        BY DEF Small
      <4>2. t \in SUBSET S /\ Cardinality(t) = Cardinality(s) - 1
        BY <1>1, <3>2, <4>1, PickIn, FS_RemoveElement
      <4>3. t \in Small(S, n) /\ t \in Small(S, n + 1)
        BY <1>1, <4>1, <4>2 DEF Small
      <4>4. h[t] = SumStep(f, g, t)
        BY <4>3
      <4>5. g[t] = SumStep(f, g, t)
        BY <2>1, <4>3, IsSumValue
      <4> HIDE DEF h
      <4> QED  BY <4>4, <4>5 DEF SumStep
    <3> QED  BY <3>1, <3>2
  <2>3. IsSum(f, h, Small(S, n + 1))
    BY <2>2, Zenon DEF IsSum
  <2> HIDE DEF h
  <2> QED  BY <2>3
<1> HIDE DEF N
<1>4. N = Nat
  <2>1. N \subseteq Nat
    BY DEF N
  <2> QED  BY <1>2, <1>3, <2>1, NaturalInduction
<1>5. Small(S, Cardinality(S)) = SUBSET S
  BY FS_Subset DEF Small
<1>6. Cardinality(S) \in N
  BY <1>1, <1>4
<1> QED  BY <1>5, <1>6 DEF N

\* SumFunctionOnSet is that recursion.
LEMMA SumIsSum ==
  ASSUME NEW f, NEW S, IsFiniteSet(S)
  PROVE  \E g : IsSum(f, g, SUBSET S) /\ SumFunctionOnSet(f, S) = g[S]
<1> DEFINE c == CHOOSE h : IsSum(f, h, SUBSET S)
<1>1. IsSum(f, c, SUBSET S)
  BY SumExists
<1>2. SumFunctionOnSet(f, S) = c[S]
  BY Zenon
  DEF SumFunctionOnSet, FoldFunctionOnSet, MapThenFoldSet, IsSum, SumStep, Pick
<1> HIDE DEF c
<1> QED  BY <1>1, <1>2

LEMMA SumEmpty ==
  ASSUME NEW f
  PROVE  SumFunctionOnSet(f, {}) = 0
<1>1. PICK g : IsSum(f, g, SUBSET {}) /\ SumFunctionOnSet(f, {}) = g[{}]
  BY SumIsSum, FS_EmptySet
<1>2. g[{}] = SumStep(f, g, {})
  BY <1>1, IsSumValue
<1> QED  BY <1>1, <1>2 DEF SumStep

\* It has only one, so the sum of a set is also found on the way to the sum
\* of a greater one.
LEMMA SumOfSubset ==
  ASSUME NEW f, NEW S, IsFiniteSet(S), NEW g, IsSum(f, g, SUBSET S),
         NEW T \in SUBSET S
  PROVE  SumFunctionOnSet(f, T) = g[T]
<1>1. IsFiniteSet(T)
  BY FS_Subset
<1>2. PICK h : IsSum(f, h, SUBSET T) /\ SumFunctionOnSet(f, T) = h[T]
  BY <1>1, SumIsSum
<1> DEFINE G == {U \in SUBSET T : g[U] = h[U]}
<1>3. ASSUME NEW U \in SUBSET T
      PROVE  g[U] = SumStep(f, g, U) /\ h[U] = SumStep(f, h, U)
  <2>1. U \in SUBSET S
    OBVIOUS
  <2> QED  BY <1>2, <2>1, IsSumValue
<1>4. {} \in G
  BY <1>3 DEF SumStep
<1>5. ASSUME NEW U \in SUBSET T, U # {}, \A x \in U : U \ {x} \in G
      PROVE  U \in G
  <2>1. U \ {Pick(U)} \in G
    BY <1>5, PickIn
  <2> QED  BY <1>3, <1>5, <2>1 DEF SumStep
<1> HIDE DEF G
<1>6. T \in G
  <2>1. G \in SUBSET (SUBSET T)
    BY DEF G
  <2> QED  BY <1>1, <1>4, <1>5, <2>1, SubsetInduction
<1> QED  BY <1>2, <1>6 DEF G

LEMMA SumPick ==
  ASSUME NEW f, NEW S, IsFiniteSet(S), S # {}
  PROVE  SumFunctionOnSet(f, S)
           = f[Pick(S)] + SumFunctionOnSet(f, S \ {Pick(S)})
<1>1. PICK g : IsSum(f, g, SUBSET S)
  BY SumExists
<1>2. S \in SUBSET S /\ S \ {Pick(S)} \in SUBSET S
  OBVIOUS
<1>3. /\ SumFunctionOnSet(f, S) = g[S]
      /\ SumFunctionOnSet(f, S \ {Pick(S)}) = g[S \ {Pick(S)}]
  BY <1>1, <1>2, SumOfSubset
<1>4. g[S] = SumStep(f, g, S)
  BY <1>1, <1>2, IsSumValue
<1> QED  BY <1>3, <1>4 DEF SumStep

-----------------------------------------------------------------------------
\* Sums of integers are integers, sums of naturals naturals.
LEMMA SumInt ==
  ASSUME NEW f, NEW S, IsFiniteSet(S), \A x \in S : f[x] \in Int
  PROVE  SumFunctionOnSet(f, S) \in Int
<1> DEFINE G == {U \in SUBSET S : SumFunctionOnSet(f, U) \in Int}
<1>1. {} \in G
  BY SumEmpty
<1>2. ASSUME NEW U \in SUBSET S, U # {}, \A x \in U : U \ {x} \in G
      PROVE  U \in G
  <2>1. Pick(U) \in U
    BY <1>2, PickIn
  <2>2. SumFunctionOnSet(f, U)
          = f[Pick(U)] + SumFunctionOnSet(f, U \ {Pick(U)})
    BY <1>2, FS_Subset, SumPick
  <2> QED  BY <1>2, <2>1, <2>2
<1> HIDE DEF G
<1>3. S \in G
  <2>1. G \in SUBSET (SUBSET S)
    BY DEF G
  <2> QED  BY <1>1, <1>2, <2>1, SubsetInduction
<1> QED  BY <1>3 DEF G

LEMMA SumNat ==
  ASSUME NEW f, NEW S, IsFiniteSet(S), \A x \in S : f[x] \in Nat
  PROVE  SumFunctionOnSet(f, S) \in Nat
<1> DEFINE G == {U \in SUBSET S : SumFunctionOnSet(f, U) \in Nat}
<1>1. {} \in G
  BY SumEmpty
<1>2. ASSUME NEW U \in SUBSET S, U # {}, \A x \in U : U \ {x} \in G
      PROVE  U \in G
  <2>1. Pick(U) \in U
    BY <1>2, PickIn
  <2>2. SumFunctionOnSet(f, U)
          = f[Pick(U)] + SumFunctionOnSet(f, U \ {Pick(U)})
    BY <1>2, FS_Subset, SumPick
  <2> QED  BY <1>2, <2>1, <2>2
<1> HIDE DEF G
<1>3. S \in G
  <2>1. G \in SUBSET (SUBSET S)
    BY DEF G
  <2> QED  BY <1>1, <1>2, <2>1, SubsetInduction
<1> QED  BY <1>3 DEF G

\* The order of the summands is no matter: any of them can be taken out.
LEMMA SumRemove ==
  ASSUME NEW f, NEW S, IsFiniteSet(S), \A x \in S : f[x] \in Int, NEW x \in S
  PROVE  SumFunctionOnSet(f, S) = f[x] + SumFunctionOnSet(f, S \ {x})
<1> DEFINE Sum(U) == SumFunctionOnSet(f, U)
           G == {U \in SUBSET S : \A y \in U : Sum(U) = f[y] + Sum(U \ {y})}
<1>0. ASSUME NEW U \in SUBSET S PROVE IsFiniteSet(U) /\ Sum(U) \in Int
  BY FS_Subset, SumInt
<1>1. {} \in G
  OBVIOUS
<1>2. ASSUME NEW U \in SUBSET S, U # {}, \A y \in U : U \ {y} \in G
      PROVE  U \in G
  <2> SUFFICES ASSUME NEW y \in U PROVE Sum(U) = f[y] + Sum(U \ {y})
    OBVIOUS
  <2>1. PICK p \in U : Sum(U) = f[p] + Sum(U \ {p})
    <3>1. Pick(U) \in U /\ IsFiniteSet(U)
      BY <1>0, <1>2, PickIn
    <3>2. Sum(U) = f[Pick(U)] + Sum(U \ {Pick(U)})
      BY <1>2, <3>1, SumPick
    <3> QED  BY <3>1, <3>2
  <2>2. CASE y # p
    <3>1. Sum(U \ {p}) = f[y] + Sum((U \ {p}) \ {y})
      BY <1>2, <2>2
    <3>2. Sum(U \ {y}) = f[p] + Sum((U \ {y}) \ {p})
      BY <1>2, <2>2
    <3>3. Sum((U \ {p}) \ {y}) = Sum((U \ {y}) \ {p})
      <4>1. (U \ {p}) \ {y} = (U \ {y}) \ {p}
        OBVIOUS
      <4> QED  BY <4>1
    <3>4. (U \ {y}) \ {p} \in SUBSET S
      OBVIOUS
    <3>5. Sum((U \ {y}) \ {p}) \in Int
      BY <1>0, <3>4
    <3>6. f[y] \in Int /\ f[p] \in Int
      OBVIOUS
    <3> HIDE DEF Sum, G
    <3> QED  BY <2>1, <3>1, <3>2, <3>3, <3>5, <3>6
  <2> QED  BY <2>1, <2>2
<1> HIDE DEF G
<1>3. S \in G
  <2>1. G \in SUBSET (SUBSET S)
    BY DEF G
  <2> QED  BY <1>1, <1>2, <2>1, SubsetInduction
<1> QED  BY <1>3 DEF G

\* One more summand.
LEMMA SumAddElement ==
  ASSUME NEW f, NEW S, IsFiniteSet(S), NEW x, x \notin S,
         \A y \in S \cup {x} : f[y] \in Int
  PROVE  SumFunctionOnSet(f, S \cup {x}) = f[x] + SumFunctionOnSet(f, S)
<1>1. (S \cup {x}) \ {x} = S
  OBVIOUS
<1>2. IsFiniteSet(S \cup {x})
  BY FS_AddElement
<1> QED  BY <1>1, <1>2, SumRemove

LEMMA SumSingleton ==
  ASSUME NEW f, NEW x, f[x] \in Int
  PROVE  SumFunctionOnSet(f, {x}) = f[x]
<1>1. SumFunctionOnSet(f, {} \cup {x}) = f[x] + SumFunctionOnSet(f, {})
  BY SumAddElement, FS_EmptySet
<1>2. {} \cup {x} = {x}
  OBVIOUS
<1> QED  BY <1>1, <1>2, SumEmpty

\* Summand by summand: the sum of h is that of f and g together ...
LEMMA SumAdd ==
  ASSUME NEW f, NEW g, NEW h, NEW S, IsFiniteSet(S),
         \A x \in S : f[x] \in Int /\ g[x] \in Int /\ h[x] = f[x] + g[x]
  PROVE  SumFunctionOnSet(h, S)
           = SumFunctionOnSet(f, S) + SumFunctionOnSet(g, S)
<1> DEFINE G == {U \in SUBSET S :
                   SumFunctionOnSet(h, U)
                     = SumFunctionOnSet(f, U) + SumFunctionOnSet(g, U)}
<1>0. ASSUME NEW U \in SUBSET S
      PROVE  /\ IsFiniteSet(U)
             /\ SumFunctionOnSet(f, U) \in Int
             /\ SumFunctionOnSet(g, U) \in Int
  BY FS_Subset, SumInt
<1>1. {} \in G
  BY SumEmpty
<1>2. ASSUME NEW U \in SUBSET S, U # {}, \A x \in U : U \ {x} \in G
      PROVE  U \in G
  <2>1. PICK x \in U : TRUE
    BY <1>2
  <2>2. /\ SumFunctionOnSet(f, U) = f[x] + SumFunctionOnSet(f, U \ {x})
        /\ SumFunctionOnSet(g, U) = g[x] + SumFunctionOnSet(g, U \ {x})
        /\ SumFunctionOnSet(h, U) = h[x] + SumFunctionOnSet(h, U \ {x})
    <3>1. \A y \in U : f[y] \in Int /\ g[y] \in Int /\ h[y] \in Int
      OBVIOUS
    <3>2. IsFiniteSet(U)
      BY <1>0
    <3> HIDE DEF G
    <3> QED  BY <3>1, <3>2, SumRemove
  <2>3. SumFunctionOnSet(h, U \ {x})
          = SumFunctionOnSet(f, U \ {x}) + SumFunctionOnSet(g, U \ {x})
    BY <1>2
  <2>4. /\ SumFunctionOnSet(f, U \ {x}) \in Int
        /\ SumFunctionOnSet(g, U \ {x}) \in Int
    BY <1>0
  <2> QED  BY <2>2, <2>3, <2>4
<1> HIDE DEF G
<1>3. S \in G
  <2>1. G \in SUBSET (SUBSET S)
    BY DEF G
  <2> QED  BY <1>1, <1>2, <2>1, SubsetInduction
<1> QED  BY <1>3 DEF G

\* ... a sum depends on the summands only ...
LEMMA SumEqual ==
  ASSUME NEW f, NEW g, NEW S, IsFiniteSet(S), \A x \in S : f[x] = g[x]
  PROVE  SumFunctionOnSet(f, S) = SumFunctionOnSet(g, S)
<1> DEFINE G == {U \in SUBSET S :
                   SumFunctionOnSet(f, U) = SumFunctionOnSet(g, U)}
<1>1. {} \in G
  BY SumEmpty
<1>2. ASSUME NEW U \in SUBSET S, U # {}, \A x \in U : U \ {x} \in G
      PROVE  U \in G
  <2>1. Pick(U) \in U /\ IsFiniteSet(U)
    BY <1>2, PickIn, FS_Subset
  <2>2. /\ SumFunctionOnSet(f, U)
             = f[Pick(U)] + SumFunctionOnSet(f, U \ {Pick(U)})
        /\ SumFunctionOnSet(g, U)
             = g[Pick(U)] + SumFunctionOnSet(g, U \ {Pick(U)})
    BY <1>2, <2>1, SumPick
  <2> QED  BY <1>2, <2>1, <2>2
<1> HIDE DEF G
<1>3. S \in G
  <2>1. G \in SUBSET (SUBSET S)
    BY DEF G
  <2> QED  BY <1>1, <1>2, <2>1, SubsetInduction
<1> QED  BY <1>3 DEF G

\* ... it is no greater for smaller summands ...
LEMMA SumAtMost ==
  ASSUME NEW f, NEW g, NEW S, IsFiniteSet(S),
         \A x \in S : f[x] \in Int /\ g[x] \in Int /\ f[x] <= g[x]
  PROVE  SumFunctionOnSet(f, S) <= SumFunctionOnSet(g, S)
<1> DEFINE d == [x \in S |-> g[x] - f[x]]
<1>1. \A x \in S : d[x] \in Nat /\ d[x] \in Int /\ g[x] = f[x] + d[x]
  OBVIOUS
<1> HIDE DEF d
<1>2. SumFunctionOnSet(g, S)
        = SumFunctionOnSet(f, S) + SumFunctionOnSet(d, S)
  BY <1>1, SumAdd
<1>3. SumFunctionOnSet(d, S) \in Nat /\ SumFunctionOnSet(f, S) \in Int
  BY <1>1, SumNat, SumInt
<1> QED  BY <1>2, <1>3

\* ... and nothing but zeros is zero.
LEMMA SumZero ==
  ASSUME NEW f, NEW S, IsFiniteSet(S), \A x \in S : f[x] = 0
  PROVE  SumFunctionOnSet(f, S) = 0
<1>1. SumFunctionOnSet(f, S)
        = SumFunctionOnSet(f, S) + SumFunctionOnSet(f, S)
  BY SumAdd
<1>2. SumFunctionOnSet(f, S) \in Int
  BY SumInt
<1> QED  BY <1>1, <1>2

-----------------------------------------------------------------------------
\* Two sets without a common element.
LEMMA SumUnion ==
  ASSUME NEW f, NEW S, IsFiniteSet(S), NEW T, IsFiniteSet(T), S \cap T = {},
         \A x \in S \cup T : f[x] \in Int
  PROVE  SumFunctionOnSet(f, S \cup T)
           = SumFunctionOnSet(f, S) + SumFunctionOnSet(f, T)
<1> DEFINE Sum(U) == SumFunctionOnSet(f, U)
           G == {U \in SUBSET T : Sum(S \cup U) = Sum(S) + Sum(U)}
<1>0. ASSUME NEW U \in SUBSET T
      PROVE  IsFiniteSet(U) /\ IsFiniteSet(S \cup U)
             /\ Sum(S) \in Int /\ Sum(U) \in Int
  BY FS_Subset, FS_Union, SumInt
<1>1. {} \in G
  <2>1. Sum(S \cup {}) = Sum(S)
    <3>1. S \cup {} = S
      OBVIOUS
    <3> QED  BY <3>1
  <2>2. Sum({}) = 0 /\ Sum(S) \in Int
    BY SumEmpty, SumInt
  <2> QED  BY <2>1, <2>2
<1>2. ASSUME NEW U \in SUBSET T, U # {}, \A x \in U : U \ {x} \in G
      PROVE  U \in G
  <2>1. PICK x \in U : TRUE
    BY <1>2
  <2>2. /\ Sum(U) = f[x] + Sum(U \ {x})
        /\ Sum(S \cup U) = f[x] + Sum((S \cup U) \ {x})
    <3>1. \A y \in S \cup U : f[y] \in Int
      OBVIOUS
    <3>2. IsFiniteSet(U) /\ IsFiniteSet(S \cup U)
      BY <1>0
    <3> HIDE DEF G
    <3> QED  BY <3>1, <3>2, SumRemove
  <2>3. (S \cup U) \ {x} = S \cup (U \ {x})
    OBVIOUS
  <2>4. Sum((S \cup U) \ {x}) = Sum(S \cup (U \ {x}))
    BY <2>3
  <2>5. Sum(S \cup (U \ {x})) = Sum(S) + Sum(U \ {x})
    BY <1>2
  <2>6. f[x] \in Int /\ Sum(S) \in Int /\ Sum(U \ {x}) \in Int
    BY <1>0
  <2>7. Sum(S \cup U) = Sum(S) + Sum(U)
    <3> HIDE DEF Sum, G
    <3> QED  BY <2>2, <2>4, <2>5, <2>6
  <2> QED  BY <2>7
<1> HIDE DEF G
<1>3. T \in G
  <2>1. G \in SUBSET (SUBSET T)
    BY DEF G
  <2> QED  BY <1>1, <1>2, <2>1, SubsetInduction
<1> QED  BY <1>3 DEF G

\* Part of a set of naturals.
LEMMA SumPart ==
  ASSUME NEW f, NEW S, IsFiniteSet(S), \A x \in S : f[x] \in Nat,
         NEW T \in SUBSET S
  PROVE  SumFunctionOnSet(f, T) <= SumFunctionOnSet(f, S)
<1>1. IsFiniteSet(T) /\ IsFiniteSet(S \ T)
  BY FS_Subset
<1>2. SumFunctionOnSet(f, T \cup (S \ T)) = SumFunctionOnSet(f, S)
  <2>1. T \cup (S \ T) = S
    OBVIOUS
  <2> QED  BY <2>1
<1>3. SumFunctionOnSet(f, T \cup (S \ T))
        = SumFunctionOnSet(f, T) + SumFunctionOnSet(f, S \ T)
  <2>1. T \cap (S \ T) = {} /\ \A x \in T \cup (S \ T) : f[x] \in Int
    OBVIOUS
  <2> QED  BY <1>1, <2>1, SumUnion
<1>4. SumFunctionOnSet(f, T) \in Nat /\ SumFunctionOnSet(f, S \ T) \in Nat
  BY <1>1, SumNat
<1> QED  BY <1>2, <1>3, <1>4

\* What differs at one element differs by as much in sum.
LEMMA SumChange ==
  ASSUME NEW f, NEW g, NEW S, IsFiniteSet(S), NEW x \in S,
         \A y \in S : f[y] \in Int /\ g[y] \in Int,
         \A y \in S \ {x} : g[y] = f[y]
  PROVE  SumFunctionOnSet(g, S) = SumFunctionOnSet(f, S) + (g[x] - f[x])
<1>1. /\ SumFunctionOnSet(g, S) = g[x] + SumFunctionOnSet(g, S \ {x})
      /\ SumFunctionOnSet(f, S) = f[x] + SumFunctionOnSet(f, S \ {x})
  BY SumRemove
<1>2. IsFiniteSet(S \ {x})
  BY FS_Subset
<1>3. SumFunctionOnSet(g, S \ {x}) = SumFunctionOnSet(f, S \ {x})
  BY <1>2, SumEqual
<1>4. SumFunctionOnSet(f, S \ {x}) \in Int
  BY <1>2, SumInt
<1> QED  BY <1>1, <1>3, <1>4

\* Values that all move up by one: the last one is lost.
LEMMA SumShift ==
  ASSUME NEW k \in Nat, NEW f, NEW g, \A a \in 0..k : f[a] \in Int, g[0] = 0,
         \A a \in 1..k : g[a] = f[a - 1]
  PROVE  SumFunctionOnSet(g, 0..k) = SumFunctionOnSet(f, 0..k-1)
<1> DEFINE N == {n \in Nat : n <= k =>
                   SumFunctionOnSet(g, 0..n) = SumFunctionOnSet(f, 0..n-1)}
<1>1. \A a \in 0..k : g[a] \in Int
  OBVIOUS
<1>2. 0 \in N
  <2>1. 0..0 = {0} /\ 0..0-1 = {}
    OBVIOUS
  <2>2. SumFunctionOnSet(g, {0}) = 0 /\ SumFunctionOnSet(f, {}) = 0
    BY SumSingleton, SumEmpty
  <2> QED  BY <2>1, <2>2
<1>3. ASSUME NEW n \in N PROVE n + 1 \in N
  <2> SUFFICES ASSUME n + 1 <= k
               PROVE  SumFunctionOnSet(g, 0..n+1) = SumFunctionOnSet(f, 0..n)
    OBVIOUS
  <2>1. n \in Nat /\ SumFunctionOnSet(g, 0..n) = SumFunctionOnSet(f, 0..n-1)
    OBVIOUS
  <2>2. 0..n+1 = (0..n) \cup {n+1} /\ 0..n = (0..n-1) \cup {n}
    BY <2>1
  <2>3. IsFiniteSet(0..n) /\ IsFiniteSet(0..n-1)
    BY <2>1, FS_Interval
  <2>4. SumFunctionOnSet(g, (0..n) \cup {n+1})
          = g[n+1] + SumFunctionOnSet(g, 0..n)
    <3>1. n + 1 \notin 0..n /\ \A a \in (0..n) \cup {n+1} : g[a] \in Int
      BY <1>1, <2>1, <2>2
    <3> QED  BY <2>3, <3>1, SumAddElement
  <2>5. SumFunctionOnSet(f, (0..n-1) \cup {n})
          = f[n] + SumFunctionOnSet(f, 0..n-1)
    <3>1. n \notin 0..n-1 /\ \A a \in (0..n-1) \cup {n} : f[a] \in Int
      BY <2>1, <2>2
    <3> QED  BY <2>3, <3>1, SumAddElement
  <2>6. g[n+1] = f[n]
    BY <2>1
  <2> QED  BY <2>1, <2>2, <2>4, <2>5, <2>6
<1> HIDE DEF N
<1>4. k \in N
  <2>1. N \subseteq Nat
    BY DEF N
  <2> QED  BY <1>2, <1>3, <2>1, NaturalInduction
<1> QED  BY <1>4 DEF N

\* Sorted by colour and summed colour by colour, a sum is the same.
LEMMA SumByColour ==
  ASSUME NEW f, NEW S, IsFiniteSet(S), \A x \in S : f[x] \in Int,
         NEW colour, NEW C, IsFiniteSet(C), NEW t,
         \A c \in C : t[c] = SumFunctionOnSet(f, {x \in S : colour[x] = c})
  PROVE  SumFunctionOnSet(t, C)
           = SumFunctionOnSet(f, {x \in S : colour[x] \in C})
<1> DEFINE Of(c) == {x \in S : colour[x] = c}
           In(D) == {x \in S : colour[x] \in D}
           G == {D \in SUBSET C :
                   SumFunctionOnSet(t, D) = SumFunctionOnSet(f, In(D))}
<1>0. ASSUME NEW D PROVE IsFiniteSet(In(D))
  BY FS_Subset
<1>1. ASSUME NEW c \in C
      PROVE  IsFiniteSet(Of(c)) /\ SumFunctionOnSet(f, Of(c)) \in Int
             /\ t[c] = SumFunctionOnSet(f, Of(c))
  BY FS_Subset, SumInt
<1>2. {} \in G
  <2>1. In({}) = {}
    OBVIOUS
  <2> QED  BY <2>1, SumEmpty
<1>3. ASSUME NEW D \in SUBSET C, D # {}, \A c \in D : D \ {c} \in G
      PROVE  D \in G
  <2>1. PICK c \in D : TRUE
    BY <1>3
  <2>2. In(D) = In(D \ {c}) \cup Of(c) /\ In(D \ {c}) \cap Of(c) = {}
    OBVIOUS
  <2>3. SumFunctionOnSet(f, In(D \ {c}) \cup Of(c))
          = SumFunctionOnSet(f, In(D \ {c})) + SumFunctionOnSet(f, Of(c))
    <3>1. \A x \in In(D \ {c}) \cup Of(c) : f[x] \in Int
      OBVIOUS
    <3>2. IsFiniteSet(In(D \ {c})) /\ IsFiniteSet(Of(c))
      BY <1>0, <1>1
    <3> HIDE DEF In, Of
    <3> QED  BY <2>2, <3>1, <3>2, SumUnion
  <2>4. SumFunctionOnSet(t, D) = t[c] + SumFunctionOnSet(t, D \ {c})
    <3>1. \A d \in D : t[d] \in Int
      BY <1>1
    <3>2. IsFiniteSet(D)
      BY FS_Subset
    <3> HIDE DEF In, Of, G
    <3> QED  BY <3>1, <3>2, SumRemove
  <2>5. SumFunctionOnSet(t, D \ {c}) = SumFunctionOnSet(f, In(D \ {c}))
    BY <1>3
  <2>6. SumFunctionOnSet(f, In(D \ {c})) \in Int
    BY <1>0, SumInt
  <2>7. SumFunctionOnSet(f, In(D))
          = SumFunctionOnSet(f, In(D \ {c}) \cup Of(c))
    BY <2>2
  <2>8. SumFunctionOnSet(f, Of(c)) \in Int /\ t[c] = SumFunctionOnSet(f, Of(c))
    BY <1>1
  <2>9. SumFunctionOnSet(t, D) = SumFunctionOnSet(f, In(D))
    <3> HIDE DEF In, Of, G
    <3> QED  BY <2>3, <2>4, <2>5, <2>6, <2>7, <2>8
  <2> QED  BY <2>9
<1> HIDE DEF G
<1>4. C \in G
  <2>1. G \in SUBSET (SUBSET C)
    BY DEF G
  <2> QED  BY <1>2, <1>3, <2>1, SubsetInduction
<1> QED  BY <1>4 DEF G
=============================================================================
