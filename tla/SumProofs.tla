------------------------------ MODULE SumProofs ------------------------------
(***************************************************************************)
(* Laws of MapThenSumSet over a function of integers: what the theorems    *)
(* about balances in RollingJettonProofs and about the airdrop's cap in    *)
(* GameServerProofs rest on.  The fold is a recursive function that takes  *)
(* its elements in an unspecified order; the laws say that the order does  *)
(* not matter and what one changed element does to the sum.                *)
(***************************************************************************)
EXTENDS FiniteSetsExt, FiniteSetTheorems, TLAPS

\* The sum of f over a subset S of its domain.
SumOver(f, S) == MapThenSumSet(LAMBDA x : f[x], S)

\* The element that the fold takes first.
First(S) == CHOOSE x \in S : TRUE

\* One level of the fold, with g for the sums of smaller sets.
Level(f, g, s) == IF s = {} THEN 0 ELSE f[First(s)] + g[s \ {First(s)}]

\* The recursive function inside the fold.
Partial(f, S) == CHOOSE g : g = [s \in SUBSET S |-> Level(f, g, s)]

-----------------------------------------------------------------------------
(* Induction over the natural numbers, for a set of them. *)
LEMMA NatSetInduction ==
    ASSUME NEW T \in SUBSET Nat, 0 \in T, \A n \in T : n + 1 \in T
    PROVE  T = Nat
<1> DEFINE C == Nat \ T
           R == OpToRel(<, Nat)
<1> SUFFICES ASSUME C # {} PROVE FALSE
  OBVIOUS
<1>1. IsWellFoundedOn(R, Nat)
  BY NatLessThanWellFounded
<1>2. PICK n \in C : \A m \in C : ~(<<m, n>> \in R)
  <2> HIDE DEF R
  <2> QED BY <1>1, WFMin
<1>3. \A m \in C : ~(m < n)
  BY <1>2 DEF OpToRel
<1>4. n - 1 \in Nat /\ n - 1 < n /\ n - 1 + 1 = n
  OBVIOUS
<1> QED BY <1>3, <1>4

(* Induction over the finite subsets of S, for a set of them. *)
LEMMA SubsetInduction ==
    ASSUME NEW S, IsFiniteSet(S), NEW G \in SUBSET (SUBSET S), {} \in G,
           \A s \in SUBSET S : s # {} /\ (\A x \in s : s \ {x} \in G) => s \in G
    PROVE  G = SUBSET S
<1> DEFINE T == {n \in Nat : \A s \in SUBSET S : Cardinality(s) = n => s \in G}
<1>1. \A s \in SUBSET S : IsFiniteSet(s) /\ Cardinality(s) \in Nat
  BY FS_Subset, FS_CardinalityType
<1>2. 0 \in T
  BY <1>1, FS_EmptySet
<1>3. ASSUME NEW n \in T
      PROVE  n + 1 \in T
  <2> SUFFICES ASSUME NEW s \in SUBSET S, Cardinality(s) = n + 1
               PROVE  s \in G
    OBVIOUS
  <2>1. s # {}
    BY FS_EmptySet
  <2>2. ASSUME NEW x \in s
        PROVE  s \ {x} \in G
    <3>1. Cardinality(s \ {x}) = n
      BY <1>1, FS_RemoveElement
    <3> QED BY <3>1
  <2> QED BY <2>1, <2>2
<1>4. T = Nat
  <2> HIDE DEF T
  <2>1. T \in SUBSET Nat
    BY DEF T
  <2> QED BY <1>2, <1>3, <2>1, NatSetInduction
<1> QED BY <1>1, <1>4

-----------------------------------------------------------------------------
(* The fold computes what its definition says. *)

LEMMA SumIsPartial ==
    ASSUME NEW f, NEW S
    PROVE  SumOver(f, S) = Partial(f, S)[S]
BY DEF SumOver, MapThenSumSet, MapThenFoldSet, Partial, Level, First

(* The recursive function exists: for every n there is a function that is    *)
(* right on the subsets of at most n elements, by one level more each time.  *)
LEMMA PartialShape ==
    ASSUME NEW f, NEW S, IsFiniteSet(S)
    PROVE  /\ \A s \in SUBSET S : Partial(f, S)[s] = Level(f, Partial(f, S), s)
           /\ Partial(f, S) = [s \in SUBSET S |-> Partial(f, S)[s]]
<1> DEFINE RightUpTo(n, g) ==
               /\ g = [s \in SUBSET S |-> g[s]]
               /\ \A s \in SUBSET S : Cardinality(s) <= n => g[s] = Level(f, g, s)
           T == {n \in Nat : \E g : RightUpTo(n, g)}
<1>1. \A s \in SUBSET S : IsFiniteSet(s) /\ Cardinality(s) \in Nat
                        /\ Cardinality(s) <= Cardinality(S)
  BY FS_Subset, FS_CardinalityType
<1>2. \A s \in SUBSET S : s # {} =>
        /\ s \ {First(s)} \in SUBSET S
        /\ Cardinality(s \ {First(s)}) = Cardinality(s) - 1
  BY <1>1, FS_RemoveElement DEF First
<1>3. 0 \in T
  <2> DEFINE g == [s \in SUBSET S |-> 0]
  <2>1. \A s \in SUBSET S : Cardinality(s) <= 0 => s = {}
    BY <1>1, FS_EmptySet
  <2>2. RightUpTo(0, g)
    BY <2>1 DEF Level
  <2> QED BY <2>2
<1>4. ASSUME NEW n \in T
      PROVE  n + 1 \in T
  <2>1. PICK g : RightUpTo(n, g)
    OBVIOUS
  <2> DEFINE h == [s \in SUBSET S |-> Level(f, g, s)]
  <2>2. \A s \in SUBSET S : Cardinality(s) <= n => h[s] = g[s]
    BY <2>1
  <2>3. ASSUME NEW s \in SUBSET S, Cardinality(s) <= n + 1
        PROVE  h[s] = Level(f, h, s)
    <3>1. CASE s = {}
      BY <3>1 DEF Level
    <3>2. CASE s # {}
      <4>1. h[s \ {First(s)}] = g[s \ {First(s)}]
        <5> DEFINE r == s \ {First(s)}
        <5>1. r \in SUBSET S /\ Cardinality(r) = Cardinality(s) - 1 /\ Cardinality(s) \in Nat
          BY <1>1, <1>2, <3>2
        <5>2. Cardinality(r) <= n
          <6> HIDE DEF r
          <6> QED BY <2>3, <5>1
        <5> HIDE DEF r, h
        <5>3. h[r] = g[r]
          BY <2>2, <5>1, <5>2
        <5> QED BY <5>3 DEF r
      <4> QED BY <4>1 DEF Level
    <3> QED BY <3>1, <3>2
  <2>4. RightUpTo(n + 1, h)
    BY <2>3
  <2> HIDE DEF RightUpTo, h
  <2> QED BY <2>4
<1>5. T = Nat
  <2>1. T \in SUBSET Nat
    OBVIOUS
  <2> HIDE DEF T
  <2> QED BY <1>3, <1>4, <2>1, NatSetInduction
<1>6. PICK g : RightUpTo(Cardinality(S), g)
  BY <1>5, FS_CardinalityType
<1>7. g = [s \in SUBSET S |-> Level(f, g, s)]
  BY <1>1, <1>6
<1>8. Partial(f, S) = [s \in SUBSET S |-> Level(f, Partial(f, S), s)]
  BY <1>7 DEF Partial
<1> HIDE DEF T, RightUpTo
<1>9. \A s \in SUBSET S : Partial(f, S)[s] = Level(f, Partial(f, S), s)
  BY <1>8, Zenon
<1>10. Partial(f, S) = [s \in SUBSET S |-> Partial(f, S)[s]]
  BY <1>8, Zenon
<1> QED BY <1>9, <1>10

LEMMA PartialUnfolds ==
    ASSUME NEW f, NEW S, IsFiniteSet(S)
    PROVE  \A s \in SUBSET S : Partial(f, S)[s] = Level(f, Partial(f, S), s)
BY PartialShape, Zenon

(* A sum over a subset does not depend on the set the fold was started on, *)
(* nor on values outside the subset.                                       *)
LEMMA PartialAgrees ==
    ASSUME NEW f, NEW g, NEW S, NEW U, IsFiniteSet(S), U \subseteq S,
           \A x \in U : f[x] = g[x]
    PROVE  Partial(f, S)[U] = Partial(g, U)[U]
<1> DEFINE p == Partial(f, S)
           q == Partial(g, U)
           G == {s \in SUBSET U : p[s] = q[s]}
<1>0. IsFiniteSet(U)
  BY FS_Subset
<1>1. \A s \in SUBSET S : p[s] = Level(f, p, s)
  BY PartialUnfolds
<1>2. \A s \in SUBSET U : q[s] = Level(g, q, s)
  BY <1>0, PartialUnfolds
<1> HIDE DEF p, q
<1>3. {} \in G
  BY <1>1, <1>2 DEF Level
<1>4. ASSUME NEW s \in SUBSET U, s # {}, \A x \in s : s \ {x} \in G
      PROVE  s \in G
  <2>1. First(s) \in s
    BY <1>4 DEF First
  <2>2. p[s \ {First(s)}] = q[s \ {First(s)}] /\ f[First(s)] = g[First(s)]
    BY <1>4, <2>1
  <2>3. p[s] = Level(f, p, s) /\ q[s] = Level(g, q, s)
    BY <1>1, <1>2
  <2> QED BY <1>4, <2>2, <2>3 DEF Level
<1>5. G = SUBSET U
  <2>1. G \in SUBSET (SUBSET U)
    OBVIOUS
  <2> HIDE DEF G
  <2> QED BY <1>0, <1>3, <1>4, <2>1, SubsetInduction
<1> QED BY <1>5 DEF p, q

-----------------------------------------------------------------------------
(* The laws *)

(* Only the values of the summed elements matter. *)
LEMMA SumAgrees ==
    ASSUME NEW f, NEW g, NEW S, IsFiniteSet(S), \A x \in S : f[x] = g[x]
    PROVE  SumOver(f, S) = SumOver(g, S)
BY PartialAgrees, SumIsPartial

(* The empty sum. *)
LEMMA SumEmpty ==
    ASSUME NEW f
    PROVE  SumOver(f, {}) = 0
<1>1. IsFiniteSet({})
  BY FS_EmptySet
<1>2. Partial(f, {})[{}] = 0
  BY <1>1, PartialUnfolds DEF Level
<1> QED BY <1>2, SumIsPartial

(* The fold's own order: its first element and the rest. *)
LEMMA SumFirst ==
    ASSUME NEW f, NEW S, IsFiniteSet(S), S # {}
    PROVE  First(S) \in S /\ SumOver(f, S) = f[First(S)] + SumOver(f, S \ {First(S)})
<1> DEFINE R == S \ {First(S)}
<1>1. First(S) \in S
  BY DEF First
<1>2. Partial(f, S)[S] = f[First(S)] + Partial(f, S)[R]
  BY PartialUnfolds DEF Level
<1>3. Partial(f, S)[R] = Partial(f, R)[R]
  BY PartialAgrees
<1> QED BY <1>1, <1>2, <1>3, SumIsPartial

(* A sum of integers is an integer. *)
LEMMA SumInteger ==
    ASSUME NEW f, NEW S, IsFiniteSet(S), \A x \in S : f[x] \in Int
    PROVE  SumOver(f, S) \in Int
<1> DEFINE G == {s \in SUBSET S : SumOver(f, s) \in Int}
<1>1. {} \in G
  BY SumEmpty
<1>2. ASSUME NEW s \in SUBSET S, s # {}, \A x \in s : s \ {x} \in G
      PROVE  s \in G
  <2>1. IsFiniteSet(s)
    BY FS_Subset
  <2>2. First(s) \in s /\ SumOver(f, s) = f[First(s)] + SumOver(f, s \ {First(s)})
    BY <1>2, <2>1, SumFirst
  <2>3. s \ {First(s)} \in G
    BY <1>2, <2>2
  <2> QED BY <2>2, <2>3
<1>3. G = SUBSET S
  <2>1. G \in SUBSET (SUBSET S)
    OBVIOUS
  <2> HIDE DEF G
  <2> QED BY <1>1, <1>2, <2>1, SubsetInduction
<1> QED BY <1>3

(* A sum of naturals is a natural. *)
LEMMA SumNatural ==
    ASSUME NEW f, NEW S, IsFiniteSet(S), \A x \in S : f[x] \in Nat
    PROVE  SumOver(f, S) \in Nat
<1> DEFINE G == {s \in SUBSET S : SumOver(f, s) \in Nat}
<1>1. {} \in G
  BY SumEmpty
<1>2. ASSUME NEW s \in SUBSET S, s # {}, \A x \in s : s \ {x} \in G
      PROVE  s \in G
  <2>1. IsFiniteSet(s)
    BY FS_Subset
  <2>2. First(s) \in s /\ SumOver(f, s) = f[First(s)] + SumOver(f, s \ {First(s)})
    BY <1>2, <2>1, SumFirst
  <2>3. s \ {First(s)} \in G
    BY <1>2, <2>2
  <2> QED BY <2>2, <2>3
<1>3. G = SUBSET S
  <2>1. G \in SUBSET (SUBSET S)
    OBVIOUS
  <2> HIDE DEF G
  <2> QED BY <1>1, <1>2, <2>1, SubsetInduction
<1> QED BY <1>3

(* Any element may be taken first: the order of the fold does not matter. *)
LEMMA SumTakeOut ==
    ASSUME NEW f, NEW S, IsFiniteSet(S), \A x \in S : f[x] \in Int, NEW a \in S
    PROVE  SumOver(f, S) = f[a] + SumOver(f, S \ {a})
<1> DEFINE G == {s \in SUBSET S : \A x \in s : SumOver(f, s) = f[x] + SumOver(f, s \ {x})}
<1>0. \A s \in SUBSET S : IsFiniteSet(s) /\ SumOver(f, s) \in Int
  BY FS_Subset, SumInteger
<1>1. {} \in G
  OBVIOUS
<1>2. ASSUME NEW s \in SUBSET S, s # {}, \A x \in s : s \ {x} \in G
      PROVE  s \in G
  <2> DEFINE p == First(s)
  <2>1. p \in s /\ SumOver(f, s) = f[p] + SumOver(f, s \ {p})
    BY <1>0, <1>2, SumFirst
  <2> HIDE DEF p
  <2>2. ASSUME NEW x \in s, x # p
        PROVE  SumOver(f, s) = f[x] + SumOver(f, s \ {x})
    <3> DEFINE rest == (s \ {p}) \ {x}
    <3>1. SumOver(f, s \ {p}) = f[x] + SumOver(f, rest)
      BY <1>2, <2>1, <2>2
    <3>2. rest = (s \ {x}) \ {p}
      OBVIOUS
    <3>3. SumOver(f, s \ {x}) = f[p] + SumOver(f, rest)
      BY <1>2, <2>1, <2>2, <3>2
    <3>4. f[x] \in Int /\ f[p] \in Int /\ SumOver(f, rest) \in Int
      BY <1>0, <2>1
    <3> QED BY <2>1, <3>1, <3>3, <3>4
  <2> QED BY <2>1, <2>2
<1>3. G = SUBSET S
  <2>1. G \in SUBSET (SUBSET S)
    OBVIOUS
  <2> HIDE DEF G
  <2> QED BY <1>1, <1>2, <2>1, SubsetInduction
<1> QED BY <1>3

(* Two functions that differ in one element. *)
LEMMA SumChange ==
    ASSUME NEW f, NEW g, NEW S, IsFiniteSet(S), NEW a \in S,
           \A x \in S : f[x] \in Int /\ g[x] \in Int,
           \A x \in S \ {a} : f[x] = g[x]
    PROVE  SumOver(g, S) = SumOver(f, S) + (g[a] - f[a])
<1> DEFINE R == S \ {a}
<1>1. IsFiniteSet(R)
  BY FS_Subset
<1>2. SumOver(f, R) = SumOver(g, R) /\ SumOver(f, R) \in Int
  BY <1>1, SumAgrees, SumInteger
<1>3. SumOver(f, S) = f[a] + SumOver(f, R) /\ SumOver(g, S) = g[a] + SumOver(g, R)
  BY SumTakeOut
<1> HIDE DEF R
<1> QED BY <1>2, <1>3

(* One element more. *)
LEMMA SumAdd ==
    ASSUME NEW f, NEW S, IsFiniteSet(S), NEW a, a \notin S,
           f[a] \in Int, \A x \in S : f[x] \in Int
    PROVE  SumOver(f, S \cup {a}) = SumOver(f, S) + f[a]
<1> DEFINE W == S \cup {a}
<1>1. IsFiniteSet(W) /\ a \in W /\ W \ {a} = S
  BY FS_AddElement
<1>2. SumOver(f, W) = f[a] + SumOver(f, S)
  BY <1>1, SumTakeOut
<1>3. SumOver(f, S) \in Int
  BY SumInteger
<1> QED BY <1>2, <1>3

(* A sum of values that are all 0. *)
LEMMA SumZero ==
    ASSUME NEW f, NEW S, IsFiniteSet(S), \A x \in S : f[x] = 0
    PROVE  SumOver(f, S) = 0
<1> DEFINE G == {s \in SUBSET S : SumOver(f, s) = 0}
<1>1. {} \in G
  BY SumEmpty
<1>2. ASSUME NEW s \in SUBSET S, s # {}, \A x \in s : s \ {x} \in G
      PROVE  s \in G
  <2>1. IsFiniteSet(s)
    BY FS_Subset
  <2>2. First(s) \in s /\ SumOver(f, s) = f[First(s)] + SumOver(f, s \ {First(s)})
    BY <1>2, <2>1, SumFirst
  <2>3. s \ {First(s)} \in G
    BY <1>2, <2>2
  <2> QED BY <2>2, <2>3
<1>3. G = SUBSET S
  <2>1. G \in SUBSET (SUBSET S)
    OBVIOUS
  <2> HIDE DEF G
  <2> QED BY <1>1, <1>2, <2>1, SubsetInduction
<1> QED BY <1>3

(* A sum of values that are nowhere larger. *)
LEMMA SumBelow ==
    ASSUME NEW f, NEW g, NEW S, IsFiniteSet(S),
           \A x \in S : f[x] \in Int /\ g[x] \in Int /\ f[x] <= g[x]
    PROVE  SumOver(f, S) <= SumOver(g, S)
<1> DEFINE G == {s \in SUBSET S : SumOver(f, s) <= SumOver(g, s)}
<1>1. {} \in G
  BY SumEmpty
<1>2. ASSUME NEW s \in SUBSET S, s # {}, \A x \in s : s \ {x} \in G
      PROVE  s \in G
  <2> DEFINE p == First(s)
             r == s \ {p}
  <2>1. IsFiniteSet(s) /\ IsFiniteSet(r)
    BY FS_Subset
  <2>2. p \in s /\ SumOver(f, s) = f[p] + SumOver(f, r) /\ SumOver(g, s) = g[p] + SumOver(g, r)
    BY <1>2, <2>1, SumFirst
  <2>3. SumOver(f, r) <= SumOver(g, r)
    BY <1>2, <2>2
  <2>4. SumOver(f, r) \in Int /\ SumOver(g, r) \in Int
    BY <2>1, SumInteger
  <2>5. f[p] \in Int /\ g[p] \in Int /\ f[p] <= g[p]
    BY <2>2
  <2> HIDE DEF p, r
  <2> QED BY <2>2, <2>3, <2>4, <2>5
<1>3. G = SUBSET S
  <2>1. G \in SUBSET (SUBSET S)
    OBVIOUS
  <2> HIDE DEF G
  <2> QED BY <1>1, <1>2, <2>1, SubsetInduction
<1> QED BY <1>3

(* The sum of two functions, added up element by element. *)
LEMMA SumPlus ==
    ASSUME NEW f, NEW g, NEW h, NEW S, IsFiniteSet(S),
           \A x \in S : f[x] \in Int /\ g[x] \in Int /\ h[x] = f[x] + g[x]
    PROVE  SumOver(h, S) = SumOver(f, S) + SumOver(g, S)
<1> DEFINE G == {s \in SUBSET S : SumOver(h, s) = SumOver(f, s) + SumOver(g, s)}
<1>1. {} \in G
  BY SumEmpty
<1>2. ASSUME NEW s \in SUBSET S, s # {}, \A x \in s : s \ {x} \in G
      PROVE  s \in G
  <2> DEFINE p == First(s)
             r == s \ {p}
  <2>1. IsFiniteSet(s) /\ IsFiniteSet(r)
    BY FS_Subset
  <2>2. /\ p \in s /\ SumOver(f, s) = f[p] + SumOver(f, r)
        /\ SumOver(g, s) = g[p] + SumOver(g, r)
        /\ SumOver(h, s) = h[p] + SumOver(h, r)
    BY <1>2, <2>1, SumFirst
  <2>3. SumOver(h, r) = SumOver(f, r) + SumOver(g, r)
    BY <1>2, <2>2
  <2>4. SumOver(f, r) \in Int /\ SumOver(g, r) \in Int
    BY <2>1, SumInteger
  <2>5. f[p] \in Int /\ g[p] \in Int /\ h[p] = f[p] + g[p]
    BY <2>2
  <2> HIDE DEF p, r
  <2> QED BY <2>2, <2>3, <2>4, <2>5
<1>3. G = SUBSET S
  <2>1. G \in SUBSET (SUBSET S)
    OBVIOUS
  <2> HIDE DEF G
  <2> QED BY <1>1, <1>2, <2>1, SubsetInduction
<1> QED BY <1>3

(* A sum of equal values. *)
LEMMA SumConstant ==
    ASSUME NEW f, NEW S, IsFiniteSet(S), NEW c \in Int, \A x \in S : f[x] = c
    PROVE  SumOver(f, S) = Cardinality(S) * c
<1> DEFINE G == {s \in SUBSET S : SumOver(f, s) = Cardinality(s) * c}
<1>1. {} \in G
  BY SumEmpty, FS_EmptySet
<1>2. ASSUME NEW s \in SUBSET S, s # {}, \A x \in s : s \ {x} \in G
      PROVE  s \in G
  <2> DEFINE p == First(s)
             r == s \ {p}
  <2>1. IsFiniteSet(s)
    BY FS_Subset
  <2>2. p \in s /\ SumOver(f, s) = f[p] + SumOver(f, r)
    BY <1>2, <2>1, SumFirst
  <2>3. SumOver(f, r) = Cardinality(r) * c /\ f[p] = c
    BY <1>2, <2>2
  <2>4. Cardinality(r) = Cardinality(s) - 1 /\ Cardinality(s) \in Nat
    BY <2>1, <2>2, FS_RemoveElement, FS_CardinalityType
  <2>5. \A n \in Nat : c + (n - 1) * c = n * c
    OBVIOUS
  <2> HIDE DEF p, r
  <2> QED BY <2>2, <2>3, <2>4, <2>5
<1>3. G = SUBSET S
  <2>1. G \in SUBSET (SUBSET S)
    OBVIOUS
  <2> HIDE DEF G
  <2> QED BY <1>1, <1>2, <2>1, SubsetInduction
<1> QED BY <1>3
=============================================================================
