----------------------------- MODULE SwarmProofs -----------------------------
(***************************************************************************)
(* What holds of a swarm for any names, budgets, limits, crashes and       *)
(* interleavings of its runner, its drivers and an abort from outside.     *)
(*                                                                         *)
(* The invariant says of every registry that may come to count (the        *)
(* runner's, the one its iteration loaded, the one in the file) that its   *)
(* books are true, and that what they have closed nobody opens again.  Its *)
(* predicates take the files f, the runner's registry g and the drivers t  *)
(* as arguments, so that a step is a fact about two values of each.        *)
(***************************************************************************)
EXTENDS Swarm, FiniteSetTheorems, WellFoundedInduction, TLAPS

(* Induction, over sets of numbers and of sets instead of predicates.      *)
LEMMA LeastNumber ==
  ASSUME NEW P \in SUBSET Nat, P # {}
  PROVE  \E n \in P : \A m \in P : n <= m
<1>1. PICK n \in P : \A m \in P : ~ (<<m, n>> \in OpToRel(<, Nat))
  <2>1. IsWellFoundedOn(OpToRel(<, Nat), Nat)
    BY NatLessThanWellFounded
  <2> QED BY <2>1, WFMin
<1>2. ASSUME NEW m \in P, m < n PROVE FALSE
  <2>1. <<m, n>> \in OpToRel(<, Nat)
    BY <1>2 DEF OpToRel
  <2> QED BY <1>1, <2>1
<1> QED BY <1>2

LEMMA NumberInduction ==
  ASSUME NEW P \in SUBSET Nat, 0 \in P, \A n \in P : n + 1 \in P
  PROVE  P = Nat
<1> SUFFICES ASSUME Nat \ P # {} PROVE FALSE
  OBVIOUS
<1>1. PICK n \in Nat \ P : \A m \in Nat \ P : n <= m
  BY LeastNumber
<1>2. n - 1 \in Nat
  BY <1>1
<1>3. n - 1 \in P
  BY <1>1, <1>2
<1> QED BY <1>1, <1>3

LEMMA SubsetInduction ==
  ASSUME NEW S, IsFiniteSet(S), NEW Q \in SUBSET SUBSET S,
         \A T \in SUBSET S : (\A x \in T : T \ {x} \in Q) => T \in Q
  PROVE  Q = SUBSET S
<1> DEFINE P == {n \in Nat : \A T \in SUBSET S : Cardinality(T) = n => T \in Q}
<1>1. \A T \in SUBSET S : IsFiniteSet(T) /\ Cardinality(T) \in Nat
  BY FS_Subset, FS_CardinalityType
<1>2. 0 \in P
  <2>1. ASSUME NEW T \in SUBSET S, Cardinality(T) = 0 PROVE T = {}
    BY <1>1, <2>1, FS_EmptySet
  <2> QED BY <2>1
<1>3. ASSUME NEW n \in P PROVE n + 1 \in P
  <2> SUFFICES ASSUME NEW T \in SUBSET S, Cardinality(T) = n + 1, NEW x \in T
               PROVE  T \ {x} \in Q
    OBVIOUS
  <2>1. Cardinality(T \ {x}) = Cardinality(T) - 1
    BY <1>1, FS_RemoveElement
  <2>2. Cardinality(T \ {x}) = n
    <3>1. n \in Nat
      OBVIOUS
    <3> HIDE DEF P
    <3> QED BY <2>1, <3>1
  <2> QED BY <2>2
<1> HIDE DEF P
<1>4. P = Nat
  BY <1>2, <1>3, NumberInduction DEF P
<1> QED BY <1>1, <1>4 DEF P
-----------------------------------------------------------------------------
(* Sums.  Adds(g, f, S): g adds up f over the subsets of S, as a fold does. *)
Any(T) == CHOOSE x \in T : TRUE
Body(h, f, T) == IF T = {} THEN 0 ELSE f[Any(T)] + h[T \ {Any(T)}]
Adds(g, f, S) == g = [T \in SUBSET S |-> Body(g, f, T)]

LEMMA SumIsFold ==
  ASSUME NEW f, NEW S
  PROVE  SumFunctionOnSet(f, S) = (CHOOSE g : Adds(g, f, S))[S]
BY DEF SumFunctionOnSet, FoldFunctionOnSet, MapThenFoldSet, Adds, Body, Any

LEMMA AnyIn == ASSUME NEW T, T # {} PROVE Any(T) \in T
BY DEF Any

LEMMA FoldExists ==
  ASSUME NEW f, NEW S, IsFiniteSet(S)
  PROVE  \E g : Adds(g, f, S)
<1> DEFINE Upto(n) == {T \in SUBSET S : Cardinality(T) <= n}
           Level(h, n) == /\ h = [T \in SUBSET S |-> h[T]]
                          /\ \A T \in Upto(n) : h[T] = Body(h, f, T)
           P == {n \in Nat : \E h : Level(h, n)}
<1>1. \A T \in SUBSET S : IsFiniteSet(T) /\ Cardinality(T) \in Nat
  BY FS_Subset, FS_CardinalityType
<1>2. 0 \in P
  <2> DEFINE h == [T \in SUBSET S |-> 0]
  <2>1. h = [T \in SUBSET S |-> h[T]]
    OBVIOUS
  <2>2. ASSUME NEW T \in Upto(0) PROVE T = {}
    BY <1>1, FS_EmptySet
  <2>3. \A T \in Upto(0) : h[T] = Body(h, f, T)
    BY <2>2 DEF Body
  <2> HIDE DEF h
  <2> QED BY <2>1, <2>3
<1>3. ASSUME NEW n \in P PROVE n + 1 \in P
  <2>1. PICK h : Level(h, n)
    OBVIOUS
  <2> DEFINE k == [T \in SUBSET S |-> Body(h, f, T)]
  <2>2. k = [T \in SUBSET S |-> k[T]]
    OBVIOUS
  <2>3. ASSUME NEW T \in Upto(n + 1), T # {}
        PROVE  k[T \ {Any(T)}] = h[T \ {Any(T)}]
    <3>1. Any(T) \in T
      BY <2>3, AnyIn
    <3>2. T \ {Any(T)} \in Upto(n)
      <4>1. Cardinality(T \ {Any(T)}) = Cardinality(T) - 1
        BY <1>1, <3>1, FS_RemoveElement
      <4>2. Cardinality(T) \in Nat /\ Cardinality(T) <= n + 1 /\ n \in Nat
        BY <1>1
      <4> QED BY <4>1, <4>2
    <3> QED BY <2>1, <3>2
  <2>4. ASSUME NEW T \in Upto(n + 1) PROVE k[T] = Body(k, f, T)
    <3>1. k[T] = Body(h, f, T)
      OBVIOUS
    <3> HIDE DEF k
    <3> QED BY <2>3, <3>1 DEF Body
  <2> HIDE DEF k
  <2>5. Level(k, n + 1)
    BY <2>2, <2>4
  <2>6. n + 1 \in Nat
    OBVIOUS
  <2> QED BY <2>5, <2>6
<1> HIDE DEF P
<1>4. P = Nat
  BY <1>2, <1>3, NumberInduction DEF P
<1>5. Cardinality(S) \in P
  BY <1>1, <1>4
<1>6. PICK h : Level(h, Cardinality(S))
  BY <1>5 DEF P
<1>7. ASSUME NEW T \in SUBSET S PROVE h[T] = Body(h, f, T)
  <2>1. T \in Upto(Cardinality(S))
    BY FS_Subset
  <2> QED BY <1>6, <2>1
<1>8. h = [T \in SUBSET S |-> Body(h, f, T)]
  BY <1>6, <1>7
<1> QED BY <1>8 DEF Adds

(* The equation of a sum.                                                  *)
LEMMA SumStep ==
  ASSUME NEW f, NEW S, IsFiniteSet(S)
  PROVE  SumFunctionOnSet(f, S) =
           IF S = {} THEN 0 ELSE f[Any(S)] + SumFunctionOnSet(f, S \ {Any(S)})
<1> DEFINE G(U) == CHOOSE g : Adds(g, f, U)
           Q == {T \in SUBSET S : \A U \in SUBSET S :
                   T \subseteq U => G(U)[T] = SumFunctionOnSet(f, T)}
<1>1. ASSUME NEW U \in SUBSET S, NEW T \in SUBSET U PROVE G(U)[T] = Body(G(U), f, T)
  <2>1. IsFiniteSet(U)
    BY FS_Subset
  <2>2. Adds(G(U), f, U)
    BY <2>1, FoldExists
  <2> HIDE DEF G
  <2> QED BY <2>2 DEF Adds
<1>2. \A T \in SUBSET S : SumFunctionOnSet(f, T) = G(T)[T]
  BY SumIsFold
<1> HIDE DEF G
<1>3. ASSUME NEW T \in SUBSET S, \A x \in T : T \ {x} \in Q PROVE T \in Q
  <2>1. ASSUME NEW U \in SUBSET S, T \subseteq U PROVE G(U)[T] = SumFunctionOnSet(f, T)
    <3>1. G(U)[T] = Body(G(U), f, T) /\ G(T)[T] = Body(G(T), f, T)
      BY <1>1, <2>1
    <3>2. CASE T = {}
      BY <1>2, <3>1, <3>2 DEF Body
    <3>3. CASE T # {}
      <4>1. T \ {Any(T)} \in Q
        BY <1>3, <3>3, AnyIn
      <4>2. G(U)[T \ {Any(T)}] = G(T)[T \ {Any(T)}]
        BY <2>1, <4>1
      <4> QED BY <1>2, <3>1, <3>3, <4>2 DEF Body
    <3> QED BY <3>2, <3>3
  <2> QED BY <2>1
<1>4. Q = SUBSET S
  <2>1. Q \in SUBSET SUBSET S
    OBVIOUS
  <2> HIDE DEF Q
  <2> QED BY <1>3, <2>1, SubsetInduction
<1> HIDE DEF Q
<1>5. SumFunctionOnSet(f, S) = Body(G(S), f, S)
  BY <1>1, <1>2
<1>6. S # {} => G(S)[S \ {Any(S)}] = SumFunctionOnSet(f, S \ {Any(S)})
  BY <1>4 DEF Q
<1> QED BY <1>5, <1>6 DEF Body

LEMMA SumEmpty == \A f : SumFunctionOnSet(f, {}) = 0
BY SumStep, FS_EmptySet

LEMMA SumType ==
  ASSUME NEW f, NEW S, IsFiniteSet(S), \A x \in S : f[x] \in Nat
  PROVE  \A T \in SUBSET S : SumFunctionOnSet(f, T) \in Nat
<1> DEFINE Q == {T \in SUBSET S : SumFunctionOnSet(f, T) \in Nat}
<1>1. ASSUME NEW T \in SUBSET S, \A x \in T : T \ {x} \in Q PROVE T \in Q
  <2>1. IsFiniteSet(T)
    BY FS_Subset
  <2>2. CASE T = {}
    BY <2>2, SumEmpty
  <2>3. CASE T # {}
    <3>1. SumFunctionOnSet(f, T) = f[Any(T)] + SumFunctionOnSet(f, T \ {Any(T)})
      BY <2>1, <2>3, SumStep
    <3>2. Any(T) \in T
      BY <2>3, AnyIn
    <3>3. SumFunctionOnSet(f, T \ {Any(T)}) \in Nat /\ f[Any(T)] \in Nat
      BY <1>1, <3>2
    <3> QED BY <3>1, <3>3
  <2> QED BY <2>2, <2>3
<1>2. Q \in SUBSET SUBSET S
  OBVIOUS
<1> HIDE DEF Q
<1>3. Q = SUBSET S
  BY <1>1, <1>2, SubsetInduction
<1> QED BY <1>3 DEF Q

(* Any element may come first. *)
LEMMA SumSplit ==
  ASSUME NEW f, NEW S, IsFiniteSet(S), \A x \in S : f[x] \in Nat, NEW y \in S
  PROVE  SumFunctionOnSet(f, S) = f[y] + SumFunctionOnSet(f, S \ {y})
<1> DEFINE Sum(T) == SumFunctionOnSet(f, T)
           Q == {T \in SUBSET S : \A x \in T : Sum(T) = f[x] + Sum(T \ {x})}
<1>1. \A T \in SUBSET S : IsFiniteSet(T) /\ Sum(T) \in Nat
  BY FS_Subset, SumType
<1>2. \A T \in SUBSET S : T # {} => Sum(T) = f[Any(T)] + Sum(T \ {Any(T)})
  BY <1>1, SumStep
<1> HIDE DEF Sum
<1>3. ASSUME NEW T \in SUBSET S, \A x \in T : T \ {x} \in Q, NEW x \in T
      PROVE  Sum(T) = f[x] + Sum(T \ {x})
  <2> DEFINE c == Any(T)
  <2>1. c \in T /\ Sum(T) = f[c] + Sum(T \ {c})
    BY <1>2, AnyIn
  <2> HIDE DEF c
  <2>2. CASE c = x
    BY <2>1, <2>2
  <2>3. CASE c # x
    <3>1. Sum(T \ {c}) = f[x] + Sum((T \ {c}) \ {x})
      BY <1>3, <2>1, <2>3
    <3>2. Sum(T \ {x}) = f[c] + Sum((T \ {x}) \ {c})
      BY <1>3, <2>1, <2>3
    <3>3. (T \ {c}) \ {x} = (T \ {x}) \ {c}
      OBVIOUS
    <3>4. f[c] \in Nat /\ f[x] \in Nat /\ Sum((T \ {x}) \ {c}) \in Nat
      BY <1>1, <2>1
    <3> QED BY <2>1, <3>1, <3>2, <3>3, <3>4
  <2> QED BY <2>2, <2>3
<1>4. Q = SUBSET S
  <2>1. Q \in SUBSET SUBSET S
    OBVIOUS
  <2>2. ASSUME NEW T \in SUBSET S, \A x \in T : T \ {x} \in Q PROVE T \in Q
    <3>1. \A x \in T : Sum(T) = f[x] + Sum(T \ {x})
      <4> HIDE DEF Q
      <4> QED BY <1>3, <2>2
    <3> QED BY <3>1
  <2> HIDE DEF Q
  <2> QED BY <2>1, <2>2, SubsetInduction
<1> QED BY <1>4 DEF Sum

LEMMA SumAdd ==
  ASSUME NEW f, NEW S, IsFiniteSet(S), NEW y, y \notin S,
         \A x \in S \union {y} : f[x] \in Nat
  PROVE  SumFunctionOnSet(f, S \union {y}) = f[y] + SumFunctionOnSet(f, S)
<1>1. IsFiniteSet(S \union {y})
  BY FS_AddElement
<1>2. (S \union {y}) \ {y} = S
  OBVIOUS
<1> QED BY <1>1, <1>2, SumSplit

LEMMA SumSame ==
  ASSUME NEW f, NEW g, NEW S, IsFiniteSet(S), \A x \in S : f[x] = g[x]
  PROVE  SumFunctionOnSet(f, S) = SumFunctionOnSet(g, S)
<1> DEFINE Q == {T \in SUBSET S : SumFunctionOnSet(f, T) = SumFunctionOnSet(g, T)}
<1>1. ASSUME NEW T \in SUBSET S, \A x \in T : T \ {x} \in Q PROVE T \in Q
  <2>1. IsFiniteSet(T)
    BY FS_Subset
  <2>2. CASE T = {}
    BY <2>2, SumEmpty
  <2>3. CASE T # {}
    <3>1. /\ SumFunctionOnSet(f, T) = f[Any(T)] + SumFunctionOnSet(f, T \ {Any(T)})
          /\ SumFunctionOnSet(g, T) = g[Any(T)] + SumFunctionOnSet(g, T \ {Any(T)})
      BY <2>1, <2>3, SumStep
    <3>2. Any(T) \in T
      BY <2>3, AnyIn
    <3>3. /\ SumFunctionOnSet(f, T \ {Any(T)}) = SumFunctionOnSet(g, T \ {Any(T)})
          /\ f[Any(T)] = g[Any(T)]
      BY <1>1, <3>2
    <3> QED BY <3>1, <3>3
  <2> QED BY <2>2, <2>3
<1>2. Q \in SUBSET SUBSET S
  OBVIOUS
<1> HIDE DEF Q
<1>3. Q = SUBSET S
  BY <1>1, <1>2, SubsetInduction
<1> QED BY <1>3 DEF Q

LEMMA SumLeq ==
  ASSUME NEW f, NEW g, NEW S, IsFiniteSet(S),
         \A x \in S : f[x] \in Nat /\ g[x] \in Nat /\ f[x] <= g[x]
  PROVE  SumFunctionOnSet(f, S) <= SumFunctionOnSet(g, S)
<1> DEFINE F(T) == SumFunctionOnSet(f, T)
           G(T) == SumFunctionOnSet(g, T)
           Q == {T \in SUBSET S : F(T) <= G(T)}
<1>1. ASSUME NEW T \in SUBSET S
      PROVE  /\ F(T) \in Nat /\ G(T) \in Nat
             /\ T = {} => F(T) = 0 /\ G(T) = 0
             /\ T # {} => /\ Any(T) \in T
                         /\ F(T) = f[Any(T)] + F(T \ {Any(T)})
                         /\ G(T) = g[Any(T)] + G(T \ {Any(T)})
  BY FS_Subset, SumType, SumStep, SumEmpty, AnyIn
<1> HIDE DEF F, G
<1>2. ASSUME NEW T \in SUBSET S, \A x \in T : T \ {x} \in Q PROVE T \in Q
  <2>1. CASE T = {}
    BY <1>1, <2>1
  <2>2. CASE T # {}
    <3> DEFINE c == Any(T)
    <3>1. /\ c \in T /\ F(T) = f[c] + F(T \ {c}) /\ G(T) = g[c] + G(T \ {c})
      BY <1>1, <2>2
    <3> HIDE DEF c
    <3>2. F(T \ {c}) <= G(T \ {c}) /\ F(T \ {c}) \in Nat /\ G(T \ {c}) \in Nat
      BY <1>1, <1>2, <3>1
    <3>3. f[c] \in Nat /\ g[c] \in Nat /\ f[c] <= g[c]
      BY <3>1
    <3> QED BY <3>1, <3>2, <3>3
  <2> QED BY <2>1, <2>2
<1>3. Q \in SUBSET SUBSET S
  OBVIOUS
<1>4. Q = SUBSET S
  <2> HIDE DEF Q
  <2> QED BY <1>2, <1>3, SubsetInduction
<1> QED BY <1>4 DEF F, G

LEMMA SumPart ==
  ASSUME NEW f, NEW S, IsFiniteSet(S), \A x \in S : f[x] \in Nat, NEW R \in SUBSET S
  PROVE  SumFunctionOnSet(f, S) = SumFunctionOnSet(f, R) + SumFunctionOnSet(f, S \ R)
<1> DEFINE Sum(T) == SumFunctionOnSet(f, T)
           Q == {T \in SUBSET R : Sum((S \ R) \union T) = Sum(T) + Sum(S \ R)}
<1>1. \A T \in SUBSET S : Sum(T) \in Nat /\ IsFiniteSet(T)
  BY SumType, FS_Subset
<1>2. ASSUME NEW T \in SUBSET S, NEW x \in T PROVE Sum(T) = f[x] + Sum(T \ {x})
  BY <1>1, SumSplit
<1>3. Sum({}) = 0
  BY SumEmpty
<1> HIDE DEF Sum
<1>4. ASSUME NEW T \in SUBSET R, \A x \in T : T \ {x} \in Q
      PROVE  Sum((S \ R) \union T) = Sum(T) + Sum(S \ R)
  <2>1. CASE T = {}
    <3>1. (S \ R) \union T = S \ R
      BY <2>1
    <3> QED BY <1>1, <1>3, <2>1, <3>1
  <2>2. ASSUME NEW x \in T PROVE Sum((S \ R) \union T) = Sum(T) + Sum(S \ R)
    <3>1. ((S \ R) \union T) \ {x} = (S \ R) \union (T \ {x})
      OBVIOUS
    <3>2. Sum((S \ R) \union T) = f[x] + Sum((S \ R) \union (T \ {x}))
      <4>1. (S \ R) \union T \in SUBSET S /\ x \in (S \ R) \union T
        OBVIOUS
      <4> QED BY <1>2, <3>1, <4>1
    <3>3. Sum(T) = f[x] + Sum(T \ {x})
      BY <1>2
    <3>4. Sum((S \ R) \union (T \ {x})) = Sum(T \ {x}) + Sum(S \ R)
      BY <1>4
    <3>5. f[x] \in Nat /\ Sum(T \ {x}) \in Nat /\ Sum(S \ R) \in Nat
      BY <1>1
    <3> QED BY <3>2, <3>3, <3>4, <3>5
  <2> QED BY <2>1, <2>2
<1>5. Q = SUBSET R
  <2>1. Q \in SUBSET SUBSET R /\ IsFiniteSet(R)
    BY <1>1
  <2>2. ASSUME NEW T \in SUBSET R, \A x \in T : T \ {x} \in Q PROVE T \in Q
    BY <1>4, <2>2
  <2> HIDE DEF Q
  <2> QED BY <2>1, <2>2, SubsetInduction
<1>6. (S \ R) \union R = S
  OBVIOUS
<1> QED BY <1>5, <1>6 DEF Sum

(* If every part of S weighs no more than its bound, S weighs no more than *)
(* the bounds together.                                                    *)
LEMMA SumCover ==
  ASSUME NEW f, NEW S, IsFiniteSet(S), \A x \in S : f[x] \in Nat,
         NEW b, NEW T, IsFiniteSet(T), \A t \in T : b[t] \in Nat,
         NEW O, \A x \in S : \E t \in T : x \in O[t],
         \A t \in T : O[t] \subseteq S /\ SumFunctionOnSet(f, O[t]) <= b[t]
  PROVE  SumFunctionOnSet(f, S) <= SumFunctionOnSet(b, T)
<1> DEFINE Sum(R) == SumFunctionOnSet(f, R)
           Bound(V) == SumFunctionOnSet(b, V)
           Below(V) == {R \in SUBSET S : \A x \in R : \E t \in V : x \in O[t]}
           Q == {V \in SUBSET T : \A R \in Below(V) : Sum(R) <= Bound(V)}
<1>1. \A R \in SUBSET S : Sum(R) \in Nat /\ IsFiniteSet(R)
  BY SumType, FS_Subset
<1>2. \A V \in SUBSET T : Bound(V) \in Nat /\ IsFiniteSet(V)
  BY SumType, FS_Subset
<1>3. Sum({}) = 0 /\ Bound({}) = 0
  BY SumEmpty
<1>4. ASSUME NEW V \in SUBSET T, NEW t \in V PROVE Bound(V) = b[t] + Bound(V \ {t})
  BY <1>2, SumSplit
<1>5. ASSUME NEW R \in SUBSET S, NEW P \in SUBSET R PROVE Sum(R) = Sum(P) + Sum(R \ P)
  BY <1>1, SumPart
<1> HIDE DEF Sum, Bound
<1>6. ASSUME NEW V \in SUBSET T, \A t \in V : V \ {t} \in Q, NEW R \in Below(V)
      PROVE  Sum(R) <= Bound(V)
  <2>1. CASE V = {}
    <3>1. R = {}
      BY <2>1
    <3> QED BY <1>3, <2>1, <3>1
  <2>2. ASSUME NEW t \in V PROVE Sum(R) <= Bound(V)
    <3> DEFINE P == R \intersect O[t]
    <3>1. Sum(R) = Sum(P) + Sum(R \ P)
      BY <1>5
    <3>2. Sum(O[t]) = Sum(P) + Sum(O[t] \ P)
      BY <1>5
    <3>3. Sum(O[t]) <= b[t]
      BY DEF Sum
    <3>4. R \ P \in Below(V \ {t})
      OBVIOUS
    <3>5. Sum(R \ P) <= Bound(V \ {t})
      BY <1>6, <3>4
    <3>6. Bound(V) = b[t] + Bound(V \ {t})
      BY <1>4
    <3>7. /\ Sum(P) \in Nat /\ Sum(R \ P) \in Nat /\ Sum(O[t] \ P) \in Nat
          /\ b[t] \in Nat /\ Bound(V \ {t}) \in Nat
      BY <1>1, <1>2
    <3> HIDE DEF P
    <3> QED BY <3>1, <3>2, <3>3, <3>5, <3>6, <3>7
  <2> QED BY <2>1, <2>2
<1>7. Q = SUBSET T
  <2>1. Q \in SUBSET SUBSET T
    OBVIOUS
  <2>2. ASSUME NEW V \in SUBSET T, \A t \in V : V \ {t} \in Q PROVE V \in Q
    BY <1>6, <2>2
  <2> HIDE DEF Q
  <2> QED BY <2>1, <2>2, SubsetInduction
<1>8. S \in Below(T)
  OBVIOUS
<1> QED BY <1>7, <1>8 DEF Sum, Bound

-----------------------------------------------------------------------------
(* The invariant *)

Files == [Sessions -> [state: {"none", "open", "met", "unmet"}, iters: Nat,
                       cap: Caps \union {0}]]
Entries == [session: Sessions \union {NoSession}, reserved: Caps \union {0}, consumed: Nat,
            settled: BOOLEAN, prior: SUBSET Sessions, max: {0, MaxRespawns}]
Drivers == [Slots -> {"none", "ready", "queued", "iterating", "finalising", "revising"}]

MadeIn(f) == {i \in Sessions : f[i].state # "none"}
ValueIn(f) ==
  [i \in Sessions |-> IF f[i].state = "open" THEN f[i].cap ELSE Least(f[i].iters, f[i].cap)]

(* A session is past if it is closed and no slot is alive with it: nothing *)
(* touches its file any more.                                              *)
Past(f, g, i) == f[i].state # "open" /\ \A s \in Slots : g[s].session = i => g[s].settled

(* A correct entry e of the slot s.                                        *)
Correct(f, g, s, e) ==
  /\ Own(e) \subseteq MadeIn(f) /\ e.session \notin e.prior
  /\ s \in Sessions => e.session = s /\ e.prior = {} /\ e.max = 0
  /\ e.reserved = IF e.settled THEN 0 ELSE f[e.session].cap
  /\ e.consumed = SumFunctionOnSet(ValueIn(f), Closed(e))
  /\ \A i \in Closed(e) : Past(f, g, i)

(* Correct books r.                                                        *)
Booked(f, g, r) ==
  /\ r \in Registries
  /\ \A s \in Slots : IF s \in Taken(r) THEN Correct(f, g, s, r[s]) ELSE r[s] = Vacant
  /\ \A s, q \in Taken(r) : s # q => Own(r[s]) \intersect Own(r[q]) = {}

Numbered(f) == MadeIn(f) = 1..Cardinality(MadeIn(f)) /\ \A i \in MadeIn(f) : f[i].cap \in Caps

DrivenAt(t, g, s) ==
  /\ t[s] \notin {"none", "revising"} => s \in Live(g)
  /\ t[s] = "revising" => s \in Taken(g) \ Live(g) /\ s \in Revised
Driven(t, g) == \A s \in Slots : DrivenAt(t, g, s)

(* A session is up if it is open, or a driver will save it as open: an     *)
(* abort from outside may have closed it meanwhile.  The limits hold of    *)
(* those.                                                                  *)
Up(f, g, t, i) == f[i].state = "open" \/ \E s \in Slots : t[s] = "iterating" /\ g[s].session = i
Reach(f, g, t) ==
  [i \in Sessions |-> IF Up(f, g, t, i) THEN f[i].cap ELSE Least(f[i].iters, f[i].cap)]
Within(f, g, t) ==
  /\ SumFunctionOnSet(Reach(f, g, t), MadeIn(f)) <= Pool
  /\ Cardinality({i \in MadeIn(f) : Up(f, g, t, i)}) <= MaxChildren

Core(f, g, t) ==
  /\ f \in Files /\ t \in Drivers
  /\ Booked(f, g, g) /\ Numbered(f) /\ Driven(t, g) /\ Within(f, g, t)

(* Until the books d are written, what is settled in the runner's books is *)
(* as in d.                                                                *)
Written(d) == ~dirty => \A s \in Slots : registry[s].settled => d[s] = registry[s]

(* Once the orchestrator has ended, an abort may have put back the books   *)
(* it loaded: they are out of date, and settled all through.               *)
RunnerOK ==
  /\ ~Driving => tasks = NoTasks
  /\ runner = "down" => registry = Empty
  /\ runner \in {"over", "cascade", "done"} => ended

BooksInv ==
  /\ runner # "down" => Owned(registry) = Made /\ (Written(disk) \/ (ended /\ Live(disk) = {}))
  /\ ~ended => Booked(sessions, registry, disk)
  /\ runner \in {"iterating", "finalising"} => Booked(sessions, registry, held) /\ Written(held)
  /\ runner = "done" => Live(registry) = {} /\ Live(disk) = {}

RestTyped ==
  /\ disk \in Registries /\ held \in Registries /\ ended \in BOOLEAN /\ dirty \in BOOLEAN
  /\ turns \in 0..MaxTurns /\ faults \in 0..MaxFaults
  /\ abort \in [on: BOOLEAN, books: Registries, calls: 0..MaxAborts]
  /\ runner \in {"down", "checking", "waiting", "iterating", "finalising", "flushing", "over",
                "cascade", "done"}

SwarmInv == RestTyped /\ Core(sessions, registry, tasks) /\ RunnerOK /\ BooksInv
-----------------------------------------------------------------------------
(* Files and books *)

LEMMA Finite ==
  /\ IsFiniteSet(Sessions) /\ IsFiniteSet(Slots) /\ NoSession \notin Sessions
  /\ \A f : MadeIn(f) \subseteq Sessions /\ IsFiniteSet(MadeIn(f))
  /\ \A r : Taken(r) \subseteq Slots /\ IsFiniteSet(Taken(r)) /\ IsFiniteSet(Live(r))
<1>1. IsFiniteSet(Sessions) /\ NoSession \notin Sessions
  BY FS_Interval, RailsAssumption DEF Sessions, NoSession
<1>2. IsFiniteSet(Slots)
  BY <1>1, FS_Union, RailsAssumption DEF Slots
<1> QED BY <1>1, <1>2, FS_Subset DEF MadeIn, Taken, Live

LEMMA LeastType ==
  ASSUME NEW a \in Nat, NEW b \in Nat
  PROVE  Least(a, b) \in Nat /\ Least(a, b) <= a /\ Least(a, b) <= b
BY DEF Least

LEMMA CapsTyped == Caps \union {0} \subseteq Nat /\ Caps \subseteq Nat \ {0}
BY RailsAssumption

LEMMA FileTyped ==
  ASSUME NEW f \in Files, NEW i \in Sessions
  PROVE  /\ f[i].state \in {"none", "open", "met", "unmet"}
         /\ f[i].iters \in Nat /\ f[i].cap \in Nat /\ Least(f[i].iters, f[i].cap) \in Nat
         /\ Least(f[i].iters, f[i].cap) <= f[i].cap
         /\ ValueIn(f)[i] \in Nat
         /\ f[i].state # "open" => ValueIn(f)[i] = Least(f[i].iters, f[i].cap)
<1>1. f[i].state \in {"none", "open", "met", "unmet"} /\ f[i].iters \in Nat /\ f[i].cap \in Nat
  <2>1. f[i].state \in {"none", "open", "met", "unmet"} /\ f[i].iters \in Nat
        /\ f[i].cap \in Caps \union {0}
    BY DEF Files
  <2> QED BY <2>1, CapsTyped
<1>2. Least(f[i].iters, f[i].cap) \in Nat /\ Least(f[i].iters, f[i].cap) <= f[i].cap
  BY <1>1, LeastType
<1> QED BY <1>1, <1>2 DEF ValueIn

LEMMA BookTyped ==
  ASSUME NEW f, NEW g, NEW r, Booked(f, g, r), NEW s \in Slots
  PROVE  /\ r[s].session \in Sessions \union {NoSession} /\ r[s].prior \in SUBSET Sessions
         /\ r[s].reserved \in Nat /\ r[s].consumed \in Nat /\ r[s].settled \in BOOLEAN
         /\ s \in Taken(r) <=> r[s].session \in Sessions
         /\ s \in Taken(r) => /\ Correct(f, g, s, r[s]) /\ Own(r[s]) \subseteq Sessions
                              /\ Closed(r[s]) \subseteq Own(r[s]) /\ r[s].session \in Own(r[s])
         /\ s \notin Taken(r) => r[s] = Vacant /\ r[s].settled
         /\ s \in Live(r) <=> s \in Taken(r) /\ ~r[s].settled
<1>1. /\ r[s].session \in Sessions \union {NoSession} /\ r[s].prior \in SUBSET Sessions
      /\ r[s].reserved \in Nat /\ r[s].consumed \in Nat /\ r[s].settled \in BOOLEAN
  <2>1. /\ r[s].session \in Sessions \union {NoSession} /\ r[s].prior \in SUBSET Sessions
        /\ r[s].reserved \in Caps \union {0} /\ r[s].consumed \in Nat
        /\ r[s].settled \in BOOLEAN
    BY DEF Booked, Registries
  <2> QED BY <2>1, CapsTyped
<1>2. s \in Taken(r) <=> r[s].session \in Sessions
  BY <1>1, Finite DEF Taken
<1>3. s \in Taken(r) => /\ Correct(f, g, s, r[s]) /\ Own(r[s]) \subseteq Sessions
                       /\ Closed(r[s]) \subseteq Own(r[s]) /\ r[s].session \in Own(r[s])
  BY <1>1, <1>2 DEF Booked, Own, Closed
<1>4. s \notin Taken(r) => r[s] = Vacant /\ r[s].settled
  <2>1. s \notin Taken(r) => r[s] = Vacant
    BY DEF Booked
  <2>2. Vacant.settled = TRUE
    BY DEF Vacant
  <2> QED BY <2>1, <2>2
<1>5. s \in Live(r) <=> s \in Taken(r) /\ ~r[s].settled
  BY DEF Live
<1> QED BY <1>1, <1>2, <1>3, <1>4, <1>5

LEMMA BookEntries ==
  /\ Registries = [Slots -> Entries]
  /\ \A f, g, r : Booked(f, g, r) => r \in [Slots -> Entries]
BY DEF Booked, Registries, Entries

(* A step onward keeps what was made, and leaves alone what is past.       *)
Onward(f, g, h, k) ==
  \A i \in MadeIn(f) :
    /\ i \in MadeIn(h) /\ h[i].cap = f[i].cap
    /\ Past(f, g, i) => Past(h, k, i) /\ h[i].iters = f[i].iters

LEMMA OnwardTrans ==
  ASSUME NEW f, NEW g, NEW h, NEW k, NEW m, NEW n, Onward(f, g, h, k), Onward(h, k, m, n)
  PROVE  Onward(f, g, m, n)
BY DEF Onward

(* So an entry stays true, and so do books.                                *)
LEMMA EntryStays ==
  ASSUME NEW f \in Files, NEW h \in Files, NEW g, NEW k, Onward(f, g, h, k),
         NEW s, NEW e, Own(e) \subseteq Sessions, Correct(f, g, s, e)
  PROVE  Correct(h, k, s, e)
<1>1. e.session \in MadeIn(f) /\ Closed(e) \subseteq MadeIn(f) /\ MadeIn(f) \subseteq MadeIn(h)
  BY DEF Correct, Own, Closed, Onward
<1>2. \A i \in Closed(e) : Past(f, g, i) /\ Past(h, k, i) /\ h[i].iters = f[i].iters
                          /\ h[i].cap = f[i].cap
  BY <1>1 DEF Correct, Onward
<1>3. \A i \in Closed(e) : ValueIn(f)[i] = ValueIn(h)[i]
  BY <1>1, <1>2, Finite DEF ValueIn, Past
<1>4. IsFiniteSet(Closed(e))
  BY <1>1, Finite, FS_Subset
<1>5. SumFunctionOnSet(ValueIn(f), Closed(e)) = SumFunctionOnSet(ValueIn(h), Closed(e))
  BY <1>3, <1>4, SumSame
<1>6. h[e.session].cap = f[e.session].cap
  BY <1>1 DEF Onward
<1> QED BY <1>1, <1>2, <1>5, <1>6 DEF Correct

LEMMA BooksStay ==
  ASSUME NEW f \in Files, NEW h \in Files, NEW g, NEW k, Onward(f, g, h, k),
         NEW r, Booked(f, g, r)
  PROVE  Booked(h, k, r)
<1>1. ASSUME NEW s \in Taken(r) PROVE Correct(h, k, s, r[s])
  BY <1>1, BookTyped, Finite, EntryStays
<1> QED BY <1>1 DEF Booked
-----------------------------------------------------------------------------
(* Steps of the files f and of the books g.                                *)

(* Two slots have no session in common. *)
LEMMA Apart ==
  ASSUME NEW f, NEW g, NEW r, Booked(f, g, r), NEW s \in Taken(r), NEW q \in Slots,
         NEW i, i \in Own(r[s]), r[q].session = i \/ (q \in Taken(r) /\ i \in Own(r[q]))
  PROVE  q = s
<1>1. s \in Slots /\ Own(r[s]) \subseteq Sessions
  BY BookTyped DEF Taken
<1>2. q \in Taken(r) /\ i \in Own(r[q])
  BY <1>1, BookTyped DEF Own
<1> QED BY <1>2 DEF Booked

(* The session of the slot s is closed, and the slot settled. *)
Closes(f, h, g, k, s) ==
  /\ h[g[s].session].state \in {"met", "unmet"} /\ h[g[s].session].cap = f[g[s].session].cap
  /\ \A j \in Sessions : j # g[s].session => h[j] = f[j]
  /\ k = [g EXCEPT ![s] = Settled(g[s], h[g[s].session].iters)]

LEMMA Settling ==
  ASSUME NEW f \in Files, NEW h \in Files, NEW g, Booked(f, g, g), NEW s \in Live(g),
         NEW k, Closes(f, h, g, k, s)
  PROVE  /\ Onward(f, g, h, k) /\ Booked(h, k, k) /\ MadeIn(h) = MadeIn(f)
         /\ Taken(k) = Taken(g) /\ Live(k) = Live(g) \ {s} /\ Owned(k) = Owned(g)
         /\ \A q \in Slots : k[q].session = g[q].session
         /\ k[s].prior = g[s].prior /\ k[s].max = g[s].max /\ k[s].settled
<1> USE DEF Closes
<1> DEFINE i == g[s].session
<1>1. /\ s \in Slots /\ s \in Taken(g) /\ ~g[s].settled /\ i \in Sessions
      /\ Correct(f, g, s, g[s]) /\ Own(g[s]) \subseteq Sessions /\ g \in [Slots -> Entries]
      /\ g[s] \in Entries
  <2>1. s \in Slots
    BY DEF Live, Taken
  <2>2. g \in [Slots -> Entries]
    BY BookEntries
  <2> QED BY <2>1, <2>2, BookTyped
<1>2. /\ g[s].reserved = f[i].cap /\ i \notin g[s].prior /\ i \in MadeIn(f)
      /\ Closed(g[s]) = g[s].prior
  BY <1>1 DEF Correct, Own, Closed
<1> DEFINE used == Least(h[i].iters, h[i].cap)
<1>3. used \in Nat /\ ValueIn(h)[i] = used
  BY <1>1, FileTyped
<1>4. k[s] = [g[s] EXCEPT !.consumed = g[s].consumed + used, !.reserved = 0, !.settled = TRUE]
  BY <1>1, <1>2 DEF Settled
<1>5. \A q \in Slots \ {s} : k[q] = g[q]
  BY <1>1
<1> HIDE DEF used
<1>6. /\ k[s].session = i /\ k[s].prior = g[s].prior /\ k[s].max = g[s].max /\ k[s].settled
      /\ k[s].reserved = 0 /\ k[s].consumed = g[s].consumed + used
  BY <1>1, <1>4 DEF Entries
<1>7. \A q \in Slots : k[q].session = g[q].session /\ k[q].prior = g[q].prior
                       /\ Own(k[q]) = Own(g[q])
  BY <1>5, <1>6 DEF Own
<1>8. Taken(k) = Taken(g) /\ Owned(k) = Owned(g)
  BY <1>7 DEF Taken, Owned
<1>9. Live(k) = Live(g) \ {s}
  BY <1>5, <1>6, <1>8 DEF Live, Taken
<1>10. MadeIn(h) = MadeIn(f)
  <2>1. h[i].state # "none" /\ f[i].state # "none"
    BY <1>2 DEF MadeIn
  <2> QED BY <2>1 DEF MadeIn
<1>11. Onward(f, g, h, k)
  <2> SUFFICES ASSUME NEW j \in MadeIn(f)
               PROVE  /\ h[j].cap = f[j].cap
                      /\ Past(f, g, j) => Past(h, k, j) /\ h[j].iters = f[j].iters
    BY <1>10 DEF Onward
  <2>1. j \in Sessions
    BY DEF MadeIn
  <2>2. CASE j = i
    <3>1. ~Past(f, g, j)
      BY <1>1, <2>2 DEF Past
    <3> QED BY <2>2, <3>1
  <2>3. CASE j # i
    <3>1. h[j] = f[j]
      BY <2>1, <2>3
    <3>2. ASSUME Past(f, g, j) PROVE Past(h, k, j)
      BY <1>5, <1>6, <2>3, <3>1, <3>2 DEF Past
    <3> QED BY <3>1, <3>2
  <2> QED BY <2>2, <2>3
<1>12. k \in Registries
  <2>1. k[s].consumed \in Nat
    BY <1>1, <1>3, <1>6, BookTyped
  <2>2. k[s] \in Entries
    BY <1>1, <1>4, <1>6, <2>1 DEF Entries
  <2> QED BY <1>1, <1>5, <2>2, BookEntries
<1>13. Correct(h, k, s, k[s])
  <2>1. Correct(h, k, s, g[s])
    BY <1>1, <1>11, EntryStays
  <2>2. Closed(k[s]) = g[s].prior \union {i} /\ Own(k[s]) = g[s].prior \union {i}
    BY <1>6 DEF Closed, Own
  <2>3. /\ g[s].consumed = SumFunctionOnSet(ValueIn(h), g[s].prior)
        /\ \A j \in g[s].prior : Past(h, k, j)
    BY <2>1, <1>2 DEF Correct
  <2>4. Past(h, k, i)
    <3>1. ASSUME NEW q \in Slots, k[q].session = i PROVE k[q].settled
      <4>1. g[q].session = i /\ i \in Own(g[s])
        BY <1>7, <3>1 DEF Own
      <4>2. q = s
        BY <1>1, <4>1, Apart
      <4> QED BY <1>6, <4>2
    <3> QED BY <3>1 DEF Past
  <2>5. SumFunctionOnSet(ValueIn(h), g[s].prior \union {i}) = used + g[s].consumed
    <3>1. g[s].prior \subseteq Sessions /\ IsFiniteSet(g[s].prior)
      BY <1>1, Finite, FS_Subset DEF Own
    <3>2. \A j \in g[s].prior \union {i} : ValueIn(h)[j] \in Nat
      BY <1>1, <3>1, FileTyped
    <3> QED BY <1>2, <1>3, <2>3, <3>1, <3>2, SumAdd
  <2>6. k[s].consumed = used + g[s].consumed
    BY <1>3, <1>6, <1>1, BookTyped
  <2>7. Own(k[s]) \subseteq MadeIn(h) /\ (s \in Sessions => i = s /\ g[s].prior = {} /\ g[s].max = 0)
    BY <1>7, <2>1, <1>1 DEF Correct
  <2>8. \A j \in Closed(k[s]) : Past(h, k, j)
    BY <2>2, <2>3, <2>4
  <2>9. k[s].consumed = SumFunctionOnSet(ValueIn(h), Closed(k[s]))
    BY <2>2, <2>5, <2>6
  <2>10. k[s].session \notin k[s].prior
    BY <1>2, <1>6
  <2>11. s \in Sessions => k[s].session = s /\ k[s].prior = {} /\ k[s].max = 0
    BY <1>6, <2>7
  <2>12. k[s].reserved = IF k[s].settled THEN 0 ELSE h[k[s].session].cap
    BY <1>6
  <2> HIDE DEF i
  <2> QED BY <2>7, <2>8, <2>9, <2>10, <2>11, <2>12 DEF Correct
<1>14. Booked(h, k, k)
  <2>1. ASSUME NEW q \in Slots, q # s
        PROVE  IF q \in Taken(k) THEN Correct(h, k, q, k[q]) ELSE k[q] = Vacant
    <3>1. k[q] = g[q] /\ (q \in Taken(k) <=> q \in Taken(g))
      BY <1>5, <1>8, <2>1
    <3>2. q \in Taken(g) => Correct(h, k, q, g[q])
      BY <1>11, BookTyped, EntryStays
    <3>3. q \notin Taken(g) => g[q] = Vacant
      BY BookTyped
    <3> QED BY <3>1, <3>2, <3>3
  <2>2. \A q, p \in Taken(k) : q # p => Own(k[q]) \intersect Own(k[p]) = {}
    BY <1>7, <1>8, Apart DEF Taken
  <2> QED BY <1>1, <1>8, <1>12, <1>13, <2>1, <2>2 DEF Booked
<1> QED BY <1>6, <1>7, <1>8, <1>9, <1>10, <1>11, <1>14

(* The session i is new; the slot s, empty or settled, gets it. *)
Opens(f, h, i, cap) == h = [f EXCEPT ![i] = [state |-> "open", iters |-> 0, cap |-> cap]]
Gets(g, k, s, i, cap) ==
  /\ k \in [Slots -> Entries] /\ \A q \in Slots \ {s} : k[q] = g[q]
  /\ k[s].session = i /\ k[s].reserved = cap /\ ~k[s].settled
  /\ k[s].consumed = g[s].consumed
  /\ k[s].prior = IF s \in Taken(g) THEN Own(g[s]) ELSE {}

LEMMA Growing ==
  ASSUME NEW f \in Files, NEW g, Booked(f, g, g), NEW i \in Sessions, i \notin MadeIn(f),
         NEW cap \in Caps, NEW h, Opens(f, h, i, cap),
         NEW s \in Slots, s \notin Sessions, s \notin Live(g), NEW k, Gets(g, k, s, i, cap)
  PROVE  /\ h \in Files /\ MadeIn(h) = MadeIn(f) \union {i}
         /\ Onward(f, g, h, k) /\ Booked(h, k, k) /\ Owned(k) = Owned(g) \union {i}
         /\ Live(k) = Live(g) \union {s}
<1>1. h \in Files /\ h[i] = [state |-> "open", iters |-> 0, cap |-> cap]
      /\ \A j \in Sessions \ {i} : h[j] = f[j]
  BY DEF Files, Opens
<1>2. MadeIn(h) = MadeIn(f) \union {i}
  <2>1. h[i].state = "open"
    BY <1>1
  <2> QED BY <1>1, <2>1 DEF MadeIn
<1>3. g \in [Slots -> Entries]
  BY BookEntries
<1>4. /\ k \in [Slots -> Entries] /\ \A q \in Slots \ {s} : k[q] = g[q]
      /\ k[s].session = i /\ k[s].reserved = cap /\ ~k[s].settled
      /\ k[s].consumed = g[s].consumed
      /\ k[s].prior = IF s \in Taken(g) THEN Own(g[s]) ELSE {}
  BY DEF Gets
<1>5. ASSUME NEW q \in Slots PROVE i \notin Own(g[q])
  <2>1. q \in Taken(g) => Own(g[q]) \subseteq MadeIn(f)
    BY BookTyped DEF Correct
  <2>2. q \notin Taken(g) => Own(g[q]) = {NoSession}
    <3>1. q \notin Taken(g) => g[q] = Vacant
      BY BookTyped
    <3> QED BY <3>1 DEF Own, Vacant
  <2> QED BY <2>1, <2>2, Finite
<1>6. ASSUME NEW q \in Slots PROVE g[q].session # i
  BY <1>5 DEF Own
<1>7. s \in Taken(g) => g[s].settled
  BY BookTyped
<1>8. ASSUME NEW j \in MadeIn(f), Past(f, g, j) PROVE Past(h, k, j)
  <2>1. j # i /\ h[j] = f[j]
    BY <1>1, Finite
  <2>2. ASSUME NEW q \in Slots, k[q].session = j PROVE k[q].settled
    <3>1. q # s /\ k[q] = g[q]
      BY <1>4, <2>1, <2>2
    <3> QED BY <1>8, <2>2, <3>1 DEF Past
  <2> QED BY <1>8, <2>1, <2>2 DEF Past
<1>9. Onward(f, g, h, k)
  <2>1. \A j \in MadeIn(f) : h[j] = f[j]
    BY <1>1, Finite
  <2> QED BY <1>2, <1>8, <2>1 DEF Onward
<1>10. Taken(k) = Taken(g) \union {s} /\ Live(k) = Live(g) \union {s}
  BY <1>4, Finite DEF Live, Taken
<1>11. Own(k[s]) = {i} \union (IF s \in Taken(g) THEN Own(g[s]) ELSE {}) /\ Closed(k[s]) = k[s].prior
  BY <1>4 DEF Own, Closed
<1>12. Owned(k) = Owned(g) \union {i}
  <2>1. \A q \in Slots \ {s} : Own(k[q]) = Own(g[q])
    BY <1>4
  <2> QED BY <1>10, <1>11, <2>1 DEF Owned, Taken
<1>13. Correct(h, k, s, k[s])
  <2>1. CASE s \in Taken(g)
    <3>1. Correct(h, k, s, g[s])
      BY <1>1, <1>9, <2>1, BookTyped, EntryStays
    <3>2. Closed(g[s]) = Own(g[s]) /\ Closed(k[s]) = Own(g[s])
      BY <1>4, <1>7, <1>11, <2>1 DEF Closed
    <3>3. /\ k[s].consumed = SumFunctionOnSet(ValueIn(h), Closed(k[s]))
          /\ \A j \in Closed(k[s]) : Past(h, k, j)
      BY <1>4, <3>1, <3>2 DEF Correct
    <3>4. Own(k[s]) \subseteq MadeIn(h)
      BY <1>2, <1>11, <2>1, <3>1 DEF Correct
    <3>5. k[s].session \notin k[s].prior /\ k[s].session = i
      BY <1>4, <1>5, <2>1
    <3>6. h[i].cap = cap
      BY <1>1
    <3> QED BY <1>4, <3>3, <3>4, <3>5, <3>6 DEF Correct
  <2>2. CASE s \notin Taken(g)
    <3>1. Closed(k[s]) = {} /\ Own(k[s]) = {i} /\ k[s].prior = {}
      BY <1>4, <1>11, <2>2
    <3>2. k[s].consumed = 0
      <4>1. g[s] = Vacant
        BY <2>2, BookTyped
      <4> QED BY <1>4, <4>1 DEF Vacant
    <3>3. k[s].consumed = SumFunctionOnSet(ValueIn(h), Closed(k[s]))
      BY <3>1, <3>2, SumEmpty
    <3>4. h[i].cap = cap
      BY <1>1
    <3> QED BY <1>2, <1>4, <3>1, <3>3, <3>4 DEF Correct
  <2> QED BY <2>1, <2>2
<1>14. Booked(h, k, k)
  <2>1. ASSUME NEW q \in Slots, q # s
        PROVE  IF q \in Taken(k) THEN Correct(h, k, q, k[q]) ELSE k[q] = Vacant
    <3>1. k[q] = g[q] /\ (q \in Taken(k) <=> q \in Taken(g))
      BY <1>4, <1>10, <2>1
    <3>2. q \in Taken(g) => Correct(h, k, q, g[q])
      BY <1>1, <1>9, BookTyped, EntryStays
    <3>3. q \notin Taken(g) => g[q] = Vacant
      BY BookTyped
    <3> QED BY <3>1, <3>2, <3>3
  <2>2. ASSUME NEW q \in Taken(k), NEW p \in Taken(k), q # p, q # s
        PROVE  Own(k[q]) \intersect Own(k[p]) = {}
    <3>1. q \in Taken(g) /\ k[q] = g[q] /\ q \in Slots
      BY <1>4, <1>10, <2>2 DEF Taken
    <3>2. i \notin Own(g[q])
      BY <1>5, <3>1
    <3>3. CASE p = s
      <4>1. s \in Taken(g) => Own(g[q]) \intersect Own(g[s]) = {}
        BY <2>2, <3>1, <3>3 DEF Booked
      <4> QED BY <1>11, <3>1, <3>2, <3>3, <4>1
    <3>4. CASE p # s
      <4>1. p \in Taken(g) /\ k[p] = g[p]
        BY <1>4, <1>10, <3>4 DEF Taken
      <4> QED BY <2>2, <3>1, <4>1 DEF Booked
    <3> QED BY <3>3, <3>4
  <2>3. ASSUME NEW q \in Taken(k), NEW p \in Taken(k), q # p
        PROVE  Own(k[q]) \intersect Own(k[p]) = {}
    <3>1. CASE q # s
      BY <2>2, <2>3, <3>1
    <3>2. CASE p # s
      <4>1. Own(k[p]) \intersect Own(k[q]) = {}
        BY <2>2, <2>3, <3>2
      <4> QED BY <4>1
    <3> QED BY <2>3, <3>1, <3>2
  <2>4. \A q \in Slots : IF q \in Taken(k) THEN Correct(h, k, q, k[q]) ELSE k[q] = Vacant
    BY <1>10, <1>13, <2>1
  <2> QED BY <1>4, <2>3, <2>4, BookEntries DEF Booked
<1> QED BY <1>1, <1>2, <1>9, <1>10, <1>12, <1>14

(* A runner that starts takes the books d of the file. *)
LEMMA Empties ==
  /\ Empty \in Registries /\ Taken(Empty) = {} /\ Live(Empty) = {} /\ Owned(Empty) = {}
  /\ \A s \in Slots : Empty[s] = Vacant /\ Empty[s].settled /\ Empty[s].session = NoSession
  /\ \A f, g : Booked(f, g, Empty)
  /\ \A f : \A i \in MadeIn(f) : Past(f, Empty, i) <=> f[i].state # "open"
<1>1. \A s \in Slots : Empty[s] = Vacant /\ Empty[s].settled /\ Empty[s].session = NoSession
  BY DEF Empty, Vacant
<1>2. Taken(Empty) = {}
  BY <1>1 DEF Taken
<1>3. Live(Empty) = {} /\ Owned(Empty) = {}
  BY <1>2 DEF Live, Owned
<1>4. Vacant \in Entries
  BY DEF Vacant, Entries
<1>5. Empty \in Registries
  BY <1>4, BookEntries DEF Empty
<1>6. \A f, g : Booked(f, g, Empty)
  BY <1>1, <1>2, <1>5 DEF Booked
<1>7. \A f : \A i \in MadeIn(f) : Past(f, Empty, i) <=> f[i].state # "open"
  BY <1>1, Finite DEF Past
<1> QED BY <1>1, <1>2, <1>3, <1>5, <1>6, <1>7

(* A runner that is gone leaves every slot to be settled by the next. *)
LEMMA Emptying ==
  ASSUME NEW f, NEW g
  PROVE  Onward(f, g, f, Empty)
BY Empties DEF Onward, Past

(* Every session that no slot of d owns gets a slot, and none that is owned. *)
LEMMA Adopting ==
  ASSUME NEW f \in Files, Numbered(f), NEW d, Booked(f, Empty, d),
         NEW k, k = [s \in Slots |-> IF s \in MadeIn(f) \ Owned(d)
                                     THEN NewEntry(s, f[s].cap, 0) ELSE d[s]]
  PROVE  Booked(f, k, k) /\ Owned(k) = MadeIn(f)
<1> DEFINE Orphans == MadeIn(f) \ Owned(d)
<1>1. Orphans \subseteq Sessions /\ Orphans \subseteq Slots
  BY Finite DEF Slots
<1>2. d \in [Slots -> Entries]
  BY BookEntries
<1>3. ASSUME NEW s \in Orphans
      PROVE  /\ s \in Sessions /\ s \notin Taken(d)
             /\ k[s] = NewEntry(s, f[s].cap, 0) /\ k[s] \in Entries
             /\ k[s].session = s /\ k[s].prior = {} /\ k[s].max = 0 /\ ~k[s].settled
             /\ k[s].reserved = f[s].cap /\ k[s].consumed = 0
  <2>1. s \in Sessions /\ s \in Slots /\ f[s].cap \in Caps
    BY <1>1 DEF Numbered
  <2>2. s \notin Taken(d)
    <3> SUFFICES ASSUME s \in Taken(d) PROVE FALSE
      OBVIOUS
    <3>1. d[s].session = s /\ d[s].session \in Own(d[s])
      BY <2>1, BookTyped DEF Correct
    <3> QED BY <3>1 DEF Owned
  <2>3. k[s] = NewEntry(s, f[s].cap, 0)
    BY <2>1
  <2> QED BY <2>1, <2>2, <2>3 DEF NewEntry, Entries
<1>4. ASSUME NEW s \in Slots \ Orphans PROVE k[s] = d[s]
  OBVIOUS
<1> HIDE DEF Orphans
<1>5. k \in [Slots -> Entries]
  BY <1>2, <1>3, <1>4
<1>6. Taken(k) = Taken(d) \union Orphans
  <2>1. \A s \in Slots : s \in Taken(k) <=> s \in Taken(d) \/ s \in Orphans
    BY <1>3, <1>4, Finite DEF Taken
  <2> QED BY <1>1, <2>1 DEF Taken
<1>7. ASSUME NEW s \in Orphans PROVE Own(k[s]) = {s} /\ Closed(k[s]) = {} /\ s \notin Owned(d)
  BY <1>3 DEF Own, Closed, Orphans
<1>8. ASSUME NEW s \in Taken(d) PROVE k[s] = d[s] /\ Own(d[s]) \subseteq Owned(d) /\ s \in Slots
  <2>1. s \notin Orphans
    BY <1>3
  <2> QED BY <1>4, <2>1 DEF Owned, Taken
<1>9. Owned(d) \subseteq MadeIn(f)
  <2>1. ASSUME NEW s \in Taken(d) PROVE Own(d[s]) \subseteq MadeIn(f)
    BY <1>8, BookTyped DEF Correct
  <2> QED BY <2>1 DEF Owned
<1>10. Owned(k) = MadeIn(f)
  <2>1. \A s \in Taken(d) : Own(k[s]) = Own(d[s])
    BY <1>8
  <2>2. \A s \in Orphans : Own(k[s]) = {s}
    BY <1>7
  <2>3. Owned(k) = Owned(d) \union Orphans
    <3>1. \A i : i \in Owned(k) <=> \E s \in Taken(k) : i \in Own(k[s])
      BY DEF Owned
    <3>2. \A i : i \in Owned(d) <=> \E s \in Taken(d) : i \in Own(d[s])
      BY DEF Owned
    <3>3. \A i : (\E s \in Taken(k) : i \in Own(k[s]))
                 <=> (\E s \in Taken(d) : i \in Own(k[s])) \/ (\E s \in Orphans : i \in Own(k[s]))
      BY <1>6
    <3>4. \A i : (\E s \in Taken(d) : i \in Own(k[s])) <=> i \in Owned(d)
      BY <2>1, <3>2
    <3>5. \A i : (\E s \in Orphans : i \in Own(k[s])) <=> i \in Orphans
      BY <2>2
    <3>6. \A i : i \in Owned(k) <=> i \in Owned(d) \/ i \in Orphans
      BY <3>1, <3>3, <3>4, <3>5
    <3> QED BY <3>6
  <2> QED BY <1>9, <2>3 DEF Orphans
<1>11. ASSUME NEW s \in Taken(k), NEW q \in Taken(k), s # q
       PROVE  Own(k[s]) \intersect Own(k[q]) = {}
  <2>1. CASE s \in Taken(d) /\ q \in Taken(d)
    BY <1>8, <1>11, <2>1 DEF Booked
  <2>2. CASE s \in Orphans /\ q \in Taken(d)
    <3>1. Own(k[s]) = {s} /\ s \notin Owned(d) /\ Own(k[q]) \subseteq Owned(d)
      BY <1>7, <1>8, <2>2
    <3> QED BY <3>1
  <2>3. CASE s \in Taken(d) /\ q \in Orphans
    <3>1. Own(k[q]) = {q} /\ q \notin Owned(d) /\ Own(k[s]) \subseteq Owned(d)
      BY <1>7, <1>8, <2>3
    <3> QED BY <3>1
  <2>4. CASE s \in Orphans /\ q \in Orphans
    BY <1>7, <1>11, <2>4
  <2> QED BY <1>6, <2>1, <2>2, <2>3, <2>4
<1>12. ASSUME NEW s \in Taken(d), NEW i \in Closed(d[s]) PROVE Past(f, k, i)
  <2>1. Correct(f, Empty, s, d[s]) /\ i \in Own(d[s]) /\ s \in Slots /\ i \in MadeIn(f)
    <3>1. s \in Slots
      BY <1>8
    <3>2. Correct(f, Empty, s, d[s]) /\ Closed(d[s]) \subseteq Own(d[s])
      BY <3>1, BookTyped
    <3> QED BY <1>12, <3>1, <3>2 DEF Correct
  <2>2. f[i].state # "open"
    BY <2>1 DEF Correct, Past
  <2>3. ASSUME NEW q \in Slots, k[q].session = i PROVE k[q].settled
    <3>1. i \in Sessions /\ i \in Owned(d)
      BY <1>8, <2>1, Finite
    <3>2. q \notin Orphans
      BY <1>3, <1>7, <2>3, <3>1
    <3>3. k[q] = d[q]
      BY <1>4, <3>2
    <3>4. q = s
      BY <2>1, <2>3, <3>3, Apart
    <3>5. i \notin d[s].prior
      BY <2>1, <2>3, <3>3, <3>4 DEF Correct
    <3>6. d[s].settled
      BY <3>5 DEF Closed
    <3> QED BY <3>3, <3>4, <3>6
  <2> QED BY <2>2, <2>3 DEF Past
<1>13. ASSUME NEW s \in Taken(d) PROVE Correct(f, k, s, k[s])
  <2>1. Correct(f, Empty, s, d[s]) /\ k[s] = d[s]
    BY <1>8, BookTyped
  <2> QED BY <1>12, <2>1 DEF Correct
<1>14. ASSUME NEW s \in Orphans PROVE Correct(f, k, s, k[s])
  <2>1. k[s].consumed = SumFunctionOnSet(ValueIn(f), Closed(k[s]))
    <3>1. k[s].consumed = 0 /\ Closed(k[s]) = {}
      BY <1>3, <1>7
    <3> QED BY <3>1, SumEmpty
  <2>2. Own(k[s]) \subseteq MadeIn(f)
    BY <1>7 DEF Orphans
  <2> QED BY <1>3, <1>7, <2>1, <2>2 DEF Correct
<1>15. ASSUME NEW s \in Slots, s \notin Taken(k) PROVE k[s] = Vacant
  BY <1>4, <1>6, <1>15, BookTyped
<1> QED BY <1>5, <1>6, <1>10, <1>11, <1>13, <1>14, <1>15, BookEntries DEF Booked

-----------------------------------------------------------------------------
(* The limits *)

(* They stay, if nothing is made, nothing else is up, and what is not up is *)
(* left alone.                                                             *)
LEMMA WithinStays ==
  ASSUME NEW f \in Files, NEW g, NEW t, Within(f, g, t),
         NEW h \in Files, NEW k, NEW u, MadeIn(h) = MadeIn(f),
         \A i \in MadeIn(f) : /\ h[i].cap = f[i].cap
                              /\ Up(h, k, u, i) => Up(f, g, t, i)
                              /\ ~Up(f, g, t, i) => h[i].iters = f[i].iters
  PROVE  Within(h, k, u)
<1> DEFINE S == MadeIn(f)
           F == Reach(f, g, t)
           H == Reach(h, k, u)
           A == {i \in S : Up(f, g, t, i)}
           B == {i \in S : Up(h, k, u, i)}
<1>1. IsFiniteSet(S) /\ S \subseteq Sessions
  BY Finite
<1>2. \A i \in S : /\ F[i] \in Nat /\ H[i] \in Nat
                   /\ H[i] <= F[i]
  <2> SUFFICES ASSUME NEW i \in S PROVE F[i] \in Nat /\ H[i] \in Nat /\ H[i] <= F[i]
    OBVIOUS
  <2>1. /\ f[i].cap \in Nat /\ Least(f[i].iters, f[i].cap) \in Nat
        /\ h[i].cap \in Nat /\ Least(h[i].iters, h[i].cap) \in Nat
        /\ Least(h[i].iters, h[i].cap) <= h[i].cap /\ i \in Sessions
    BY <1>1, FileTyped
  <2>2. F[i] = IF Up(f, g, t, i) THEN f[i].cap ELSE Least(f[i].iters, f[i].cap)
    BY <2>1 DEF Reach
  <2>3. H[i] = IF Up(h, k, u, i) THEN h[i].cap ELSE Least(h[i].iters, h[i].cap)
    BY <2>1 DEF Reach
  <2> QED BY <2>1, <2>2, <2>3
<1>3. SumFunctionOnSet(H, S) <= SumFunctionOnSet(F, S)
  <2> HIDE DEF F, H, S
  <2> QED BY <1>1, <1>2, SumLeq
<1>4. SumFunctionOnSet(H, S) \in Nat /\ SumFunctionOnSet(F, S) \in Nat
  <2> HIDE DEF F, H, S
  <2> QED BY <1>1, <1>2, SumType
<1>5. IsFiniteSet(A) /\ B \subseteq A
  BY <1>1, FS_Subset
<1>6. Cardinality(B) <= Cardinality(A) /\ Cardinality(B) \in Nat /\ Cardinality(A) \in Nat
  BY <1>5, FS_Subset, FS_CardinalityType
<1>7. SumFunctionOnSet(F, S) <= Pool /\ Cardinality(A) <= MaxChildren
  BY DEF Within
<1>8. Pool \in Nat /\ MaxChildren \in Nat
  BY RailsAssumption
<1>9. SumFunctionOnSet(H, S) <= Pool /\ Cardinality(B) <= MaxChildren
  <2> HIDE DEF F, H, A, B, S
  <2> QED BY <1>3, <1>4, <1>6, <1>7, <1>8
<1> QED BY <1>9 DEF Within

(* What is up is alive in its slot, and the registry is charged for what   *)
(* the sessions may reach.                                                 *)
LEMMA Accounted ==
  ASSUME NEW f \in Files, NEW g, Booked(f, g, g), Owned(g) = MadeIn(f),
         NEW t, \A s \in Slots : t[s] = "iterating" => s \in Live(g)
  PROVE  /\ SumFunctionOnSet(Reach(f, g, t), MadeIn(f)) <= Charged(g)
         /\ Cardinality({i \in MadeIn(f) : Up(f, g, t, i)}) <= Cardinality(Live(g))
         /\ SumFunctionOnSet(Reach(f, g, t), MadeIn(f)) \in Nat
         /\ Charged(g) \in Nat
<1> DEFINE S == MadeIn(f)
           F == Reach(f, g, t)
           O == [s \in Slots |-> Own(g[s])]
           b == [s \in Slots |-> g[s].reserved + g[s].consumed]
           A == {i \in S : Up(f, g, t, i)}
<1>1. /\ IsFiniteSet(S) /\ S \subseteq Sessions /\ IsFiniteSet(Taken(g)) /\ IsFiniteSet(Live(g))
      /\ Taken(g) \subseteq Slots
  BY Finite
<1>2. ASSUME NEW i \in S
      PROVE  /\ F[i] = IF Up(f, g, t, i) THEN f[i].cap ELSE Least(f[i].iters, f[i].cap)
             /\ F[i] \in Nat /\ F[i] <= f[i].cap /\ f[i].cap \in Nat
  <2>1. /\ i \in Sessions /\ f[i].cap \in Nat /\ Least(f[i].iters, f[i].cap) \in Nat
        /\ Least(f[i].iters, f[i].cap) <= f[i].cap
    BY <1>1, FileTyped
  <2>2. F[i] = IF Up(f, g, t, i) THEN f[i].cap ELSE Least(f[i].iters, f[i].cap)
    BY <2>1 DEF Reach
  <2> QED BY <2>1, <2>2
<1>3. ASSUME NEW i \in S, Past(f, g, i) PROVE ~Up(f, g, t, i) /\ F[i] = ValueIn(f)[i]
  <2>1. ~Up(f, g, t, i)
    BY <1>3 DEF Up, Past, Live
  <2>2. ValueIn(f)[i] = Least(f[i].iters, f[i].cap)
    BY <1>1, <1>3, FileTyped DEF Past
  <2> QED BY <1>2, <2>1, <2>2
<1>4. ASSUME NEW i \in A PROVE \E s \in Live(g) : g[s].session = i
  <2>1. PICK s \in Taken(g) : i \in Own(g[s])
    BY DEF Owned
  <2>2. i \notin Closed(g[s])
    BY <1>1, <1>3, <2>1, BookTyped DEF Correct
  <2>3. ~g[s].settled /\ g[s].session = i
    BY <2>1, <2>2 DEF Closed, Own
  <2> QED BY <2>3 DEF Live
<1>5. \A i \in S : \E s \in Taken(g) : i \in O[s]
  BY <1>1 DEF Owned
<1>6. ASSUME NEW s \in Taken(g)
      PROVE  O[s] \subseteq S /\ SumFunctionOnSet(F, O[s]) <= b[s] /\ b[s] \in Nat
  <2>1. /\ s \in Slots /\ Correct(f, g, s, g[s]) /\ Closed(g[s]) \subseteq Own(g[s])
        /\ g[s].reserved \in Nat /\ g[s].consumed \in Nat
        /\ g[s].settled \in BOOLEAN
    BY <1>1, BookTyped
  <2>2. O[s] = Own(g[s]) /\ b[s] = g[s].reserved + g[s].consumed /\ b[s] \in Nat
    BY <2>1
  <2>3. Own(g[s]) \subseteq S
    BY <2>1 DEF Correct
  <2>4. IsFiniteSet(Closed(g[s])) /\ Closed(g[s]) \subseteq S
    BY <1>1, <2>1, <2>3, FS_Subset
  <2>5. SumFunctionOnSet(F, Closed(g[s])) = g[s].consumed
    <3>1. \A i \in Closed(g[s]) : F[i] = ValueIn(f)[i]
      BY <1>3, <2>1, <2>4 DEF Correct
    <3>2. SumFunctionOnSet(F, Closed(g[s])) = SumFunctionOnSet(ValueIn(f), Closed(g[s]))
      <4> HIDE DEF F
      <4> QED BY <2>4, <3>1, SumSame
    <3> QED BY <2>1, <3>2 DEF Correct
  <2>6. SumFunctionOnSet(F, Own(g[s])) <= g[s].reserved + g[s].consumed
    <3>1. CASE g[s].settled
      <4>1. Closed(g[s]) = Own(g[s]) /\ g[s].reserved = 0
        BY <2>1, <3>1 DEF Closed, Correct
      <4> QED BY <2>1, <2>5, <4>1
    <3>2. CASE ~g[s].settled
      <4> DEFINE i == g[s].session
      <4>1. Closed(g[s]) = g[s].prior /\ i \notin g[s].prior /\ g[s].reserved = f[i].cap
        BY <2>1, <3>2 DEF Closed, Correct
      <4>2. Own(g[s]) = Closed(g[s]) \union {i} /\ i \in S
        BY <2>3, <4>1 DEF Own
      <4>3. SumFunctionOnSet(F, Own(g[s])) = F[i] + SumFunctionOnSet(F, Closed(g[s]))
        <5>1. \A j \in Closed(g[s]) \union {i} : F[j] \in Nat
          BY <1>2, <2>4, <4>2
        <5> HIDE DEF F, i
        <5> QED BY <2>4, <4>1, <4>2, <5>1, SumAdd
      <4>4. F[i] \in Nat /\ F[i] <= g[s].reserved
        BY <1>2, <4>1, <4>2
      <4> HIDE DEF F, i
      <4> QED BY <2>1, <2>5, <4>3, <4>4
    <3> QED BY <3>1, <3>2
  <2> QED BY <2>2, <2>3, <2>6
<1>7. SumFunctionOnSet(F, S) <= SumFunctionOnSet(b, Taken(g))
  <2>1. \A i \in S : F[i] \in Nat
    BY <1>2
  <2> HIDE DEF F, S, b, O
  <2> QED BY <1>1, <1>5, <1>6, <2>1, SumCover
<1>8. SumFunctionOnSet(F, S) \in Nat
  <2>1. \A i \in S : F[i] \in Nat
    BY <1>2
  <2> HIDE DEF F, S
  <2> QED BY <1>1, <2>1, SumType
<1>9. SumFunctionOnSet(b, Taken(g)) \in Nat
  <2> HIDE DEF b
  <2> QED BY <1>1, <1>6, SumType
<1>10. Cardinality(A) <= Cardinality(Live(g))
  <2> DEFINE Home == [i \in A |-> CHOOSE s \in Live(g) : g[s].session = i]
  <2>1. \A i \in A : Home[i] \in Live(g) /\ g[Home[i]].session = i
    BY <1>4
  <2> HIDE DEF Home
  <2>2. Home \in Injection(A, Live(g))
    <3>1. Home \in [A -> Live(g)]
      BY <2>1 DEF Home
    <3> QED BY <2>1, <3>1 DEF Injection, IsInjective
  <2> QED BY <1>1, <2>2, FS_Injection DEF ExistsInjection
<1> QED BY <1>7, <1>8, <1>9, <1>10 DEF Charged

(* They stay too, if what is made is admitted. *)
LEMMA WithinGrows ==
  ASSUME NEW f \in Files, NEW g, Booked(f, g, g), Owned(g) = MadeIn(f),
         NEW t, \A q \in Slots : t[q] = "iterating" => q \in Live(g),
         NEW i \in Sessions, i \notin MadeIn(f), NEW cap \in Caps,
         NEW h \in Files, Opens(f, h, i, cap),
         MadeIn(h) = MadeIn(f) \union {i},
         NEW s \in Slots, s \notin Live(g), NEW k, \A q \in Slots \ {s} : k[q] = g[q],
         NEW u, \A q \in Slots : u[q] = "iterating" => t[q] = "iterating",
         Cardinality(Live(g)) < MaxChildren, Charged(g) + cap <= Pool
  PROVE  Within(h, k, u)
<1> DEFINE S == MadeIn(f)
           F == Reach(f, g, t)
           H == Reach(h, k, u)
           A == {j \in S : Up(f, g, t, j)}
           B == {j \in S \union {i} : Up(h, k, u, j)}
<1>1. IsFiniteSet(S) /\ S \subseteq Sessions /\ IsFiniteSet(Live(g))
  BY Finite
<1>2. h[i].cap = cap /\ \A j \in S : h[j] = f[j]
  BY <1>1 DEF Files, Opens
<1>3. \A j \in S : Up(h, k, u, j) => Up(f, g, t, j)
  <2> SUFFICES ASSUME NEW j \in S, Up(h, k, u, j) PROVE Up(f, g, t, j)
    OBVIOUS
  <2>1. CASE h[j].state = "open"
    BY <1>2, <2>1 DEF Up
  <2>2. ASSUME NEW q \in Slots, u[q] = "iterating", k[q].session = j PROVE Up(f, g, t, j)
    <3>1. t[q] = "iterating" /\ q # s
      BY <2>2
    <3>2. g[q].session = j
      BY <2>2, <3>1
    <3> QED BY <3>1, <3>2 DEF Up
  <2> QED BY <2>1, <2>2 DEF Up
<1>4. \A j \in S \union {i} :
        /\ H[j] = IF Up(h, k, u, j) THEN h[j].cap ELSE Least(h[j].iters, h[j].cap)
        /\ H[j] \in Nat /\ H[j] <= h[j].cap
  <2> SUFFICES ASSUME NEW j \in S \union {i}
        PROVE  /\ H[j] = IF Up(h, k, u, j) THEN h[j].cap ELSE Least(h[j].iters, h[j].cap)
               /\ H[j] \in Nat /\ H[j] <= h[j].cap
    OBVIOUS
  <2>1. /\ j \in Sessions /\ h[j].cap \in Nat /\ Least(h[j].iters, h[j].cap) \in Nat
        /\ Least(h[j].iters, h[j].cap) <= h[j].cap
    BY <1>1, FileTyped
  <2>2. H[j] = IF Up(h, k, u, j) THEN h[j].cap ELSE Least(h[j].iters, h[j].cap)
    BY <2>1 DEF Reach
  <2> QED BY <2>1, <2>2
<1>5. \A j \in S : F[j] \in Nat /\ H[j] <= F[j]
  <2> SUFFICES ASSUME NEW j \in S PROVE F[j] \in Nat /\ H[j] <= F[j]
    OBVIOUS
  <2>1. /\ j \in Sessions /\ f[j].cap \in Nat /\ Least(f[j].iters, f[j].cap) \in Nat
        /\ Least(f[j].iters, f[j].cap) <= f[j].cap
    BY <1>1, FileTyped
  <2>2. F[j] = IF Up(f, g, t, j) THEN f[j].cap ELSE Least(f[j].iters, f[j].cap)
    BY <2>1 DEF Reach
  <2>3. H[j] = IF Up(h, k, u, j) THEN f[j].cap ELSE Least(f[j].iters, f[j].cap)
    BY <1>2, <1>4
  <2>4. Up(h, k, u, j) => Up(f, g, t, j)
    BY <1>3
  <2> HIDE DEF F, H
  <2> QED BY <2>1, <2>2, <2>3, <2>4
<1> HIDE DEF S, F, H
<1>6. SumFunctionOnSet(H, S \union {i}) = H[i] + SumFunctionOnSet(H, S)
  BY <1>1, <1>4, SumAdd DEF S
<1>7. SumFunctionOnSet(H, S) <= SumFunctionOnSet(F, S)
  BY <1>1, <1>4, <1>5, SumLeq
<1>8. SumFunctionOnSet(H, S) \in Nat /\ SumFunctionOnSet(F, S) \in Nat
  BY <1>1, <1>4, <1>5, SumType
<1>9. /\ SumFunctionOnSet(F, S) <= Charged(g) /\ Cardinality(A) <= Cardinality(Live(g))
      /\ Charged(g) \in Nat
  BY Accounted DEF S, F
<1>10. H[i] <= cap /\ H[i] \in Nat /\ cap \in Nat /\ Pool \in Nat /\ MaxChildren \in Nat
  BY <1>2, <1>4, RailsAssumption, CapsTyped
<1>11. SumFunctionOnSet(H, S \union {i}) <= Pool
  BY <1>6, <1>7, <1>8, <1>9, <1>10
<1>12. Cardinality(B) <= MaxChildren
  <2>1. IsFiniteSet(A) /\ Cardinality(A) \in Nat /\ Cardinality(Live(g)) \in Nat
    BY <1>1, FS_Subset, FS_CardinalityType
  <2>2. B \subseteq A \union {i}
    BY <1>3
  <2>3. IsFiniteSet(A \union {i}) /\ Cardinality(A \union {i}) <= Cardinality(A) + 1
    <3> HIDE DEF A
    <3>1. i \in A => Cardinality(A \union {i}) = Cardinality(A)
      BY <2>1, FS_AddElement
    <3>2. i \notin A => Cardinality(A \union {i}) = Cardinality(A) + 1
      BY <2>1, FS_AddElement
    <3> QED BY <2>1, <3>1, <3>2, FS_AddElement
  <2>4. Cardinality(B) <= Cardinality(A \union {i}) /\ Cardinality(B) \in Nat
        /\ Cardinality(A \union {i}) \in Nat
    BY <2>2, <2>3, FS_Subset, FS_CardinalityType
  <2> HIDE DEF A, B
  <2> QED BY <1>9, <1>10, <2>1, <2>3, <2>4
<1> QED BY <1>11, <1>12 DEF Within, S, H

LEMMA NumberedStays ==
  ASSUME NEW f, NEW h, Numbered(f), MadeIn(h) = MadeIn(f),
         \A i \in MadeIn(f) : h[i].cap = f[i].cap
  PROVE  Numbered(h)
BY DEF Numbered

LEMMA NumberedGrows ==
  ASSUME NEW f \in Files, Numbered(f), NEW i \in Sessions, i = Cardinality(MadeIn(f)) + 1,
         NEW cap \in Caps, NEW h, Opens(f, h, i, cap)
  PROVE  i \notin MadeIn(f) /\ (MadeIn(h) = MadeIn(f) \union {i} => Numbered(h))
<1>1. IsFiniteSet(MadeIn(f)) /\ MadeIn(f) \subseteq Sessions
  BY Finite
<1>2. PICK n \in Nat : n = Cardinality(MadeIn(f))
  BY <1>1, FS_CardinalityType
<1>3. i = n + 1 /\ MadeIn(f) = 1..n /\ \A j \in MadeIn(f) : f[j].cap \in Caps
  BY <1>2 DEF Numbered
<1>4. i \notin MadeIn(f)
  BY <1>3
<1>5. ASSUME MadeIn(h) = MadeIn(f) \union {i} PROVE Numbered(h)
  <2>1. Cardinality(MadeIn(h)) = n + 1
    BY <1>1, <1>2, <1>4, <1>5, FS_AddElement
  <2>2. MadeIn(h) = 1..(n + 1)
    BY <1>3, <1>5
  <2>3. \A j \in MadeIn(h) : h[j].cap \in Caps
    BY <1>1, <1>3, <1>5 DEF Files, Opens
  <2> QED BY <2>1, <2>2, <2>3 DEF Numbered
<1> QED BY <1>4, <1>5

-----------------------------------------------------------------------------
(* Steps of the core.                                                      *)

(* Files change that are not past. *)
LEMMA Touching ==
  ASSUME NEW f \in Files, NEW h \in Files, NEW g,
         \A i \in Sessions : h[i] # f[i] =>
           i \in MadeIn(f) /\ i \in MadeIn(h) /\ ~Past(f, g, i) /\ h[i].cap = f[i].cap
  PROVE  MadeIn(h) = MadeIn(f) /\ Onward(f, g, h, g) /\ \A i \in MadeIn(f) : h[i].cap = f[i].cap
<1>1. MadeIn(h) = MadeIn(f)
  BY DEF MadeIn
<1>2. ASSUME NEW i \in MadeIn(f)
      PROVE  h[i].cap = f[i].cap /\ (Past(f, g, i) => Past(h, g, i) /\ h[i].iters = f[i].iters)
  <2>1. i \in Sessions
    BY Finite
  <2> QED BY <2>1 DEF Past
<1> QED BY <1>1, <1>2 DEF Onward

LEMMA CoreTouches ==
  ASSUME NEW f \in Files, NEW h \in Files, NEW g, NEW t, Core(f, g, t),
         \A i \in Sessions : h[i] # f[i] =>
           i \in MadeIn(f) /\ i \in MadeIn(h) /\ ~Past(f, g, i) /\ h[i].cap = f[i].cap,
         NEW u \in Drivers, Driven(u, g),
         \A i \in MadeIn(f) : /\ Up(h, g, u, i) => Up(f, g, t, i)
                              /\ ~Up(f, g, t, i) => h[i].iters = f[i].iters
  PROVE  Core(h, g, u) /\ MadeIn(h) = MadeIn(f) /\ Onward(f, g, h, g)
<1>1. MadeIn(h) = MadeIn(f) /\ Onward(f, g, h, g) /\ \A i \in MadeIn(f) : h[i].cap = f[i].cap
  BY Touching
<1>2. Booked(h, g, g)
  BY <1>1, BooksStay DEF Core
<1>3. Numbered(h)
  BY <1>1, NumberedStays DEF Core
<1>4. Within(h, g, u)
  BY <1>1, WithinStays DEF Core
<1> QED BY <1>1, <1>2, <1>3, <1>4 DEF Core

(* A slot is settled, and its driver ends or has its replacement revised. *)
LEMMA CoreSettles ==
  ASSUME NEW f \in Files, NEW h \in Files, NEW g, NEW t, Core(f, g, t), NEW s \in Live(g),
         h[g[s].session].iters = f[g[s].session].iters \/ t[s] = "iterating",
         NEW k, Closes(f, h, g, k, s),
         NEW u \in Drivers, \A q \in Slots \ {s} : u[q] = t[q],
         u[s] = "none" \/ (u[s] = "revising" /\ s \in Revised)
  PROVE  Core(h, k, u) /\ MadeIn(h) = MadeIn(f) /\ Onward(f, g, h, k) /\ Owned(k) = Owned(g)
<1>1. Booked(f, g, g) /\ Numbered(f) /\ Driven(t, g) /\ Within(f, g, t) /\ s \in Slots
      /\ s \in Taken(g)
  BY DEF Core, Live, Taken
<1>2. /\ Onward(f, g, h, k) /\ Booked(h, k, k) /\ MadeIn(h) = MadeIn(f)
      /\ Taken(k) = Taken(g) /\ Live(k) = Live(g) \ {s} /\ Owned(k) = Owned(g)
      /\ \A q \in Slots : k[q].session = g[q].session
  BY <1>1, Settling
<1>3. g[s].session \in Sessions
  BY <1>1, BookTyped
<1>4. ASSUME NEW i \in MadeIn(f)
      PROVE  /\ h[i].cap = f[i].cap
             /\ Up(h, k, u, i) => Up(f, g, t, i)
             /\ ~Up(f, g, t, i) => h[i].iters = f[i].iters
  <2>1. i \in Sessions /\ \A j \in Sessions : j # g[s].session => h[j] = f[j]
    BY Finite DEF Closes
  <2>2. h[i].cap = f[i].cap
    BY <1>2 DEF Onward
  <2>3. ASSUME Up(h, k, u, i) PROVE Up(f, g, t, i)
    <3>1. CASE h[i].state = "open"
      <4>1. h[g[s].session].state # "open"
        BY DEF Closes
      <4>2. h[i] = f[i]
        BY <2>1, <3>1, <4>1
      <4> QED BY <3>1, <4>2 DEF Up
    <3>2. ASSUME NEW q \in Slots, u[q] = "iterating", k[q].session = i PROVE Up(f, g, t, i)
      <4>1. q # s
        BY <3>2
      <4>2. t[q] = "iterating" /\ g[q].session = i
        BY <1>2, <3>2, <4>1
      <4> QED BY <4>2 DEF Up
    <3> QED BY <2>3, <3>1, <3>2 DEF Up
  <2>4. ASSUME ~Up(f, g, t, i) PROVE h[i].iters = f[i].iters
    <3>1. CASE i = g[s].session
      BY <1>1, <2>4, <3>1 DEF Up
    <3>2. CASE i # g[s].session
      BY <2>1, <3>2
    <3> QED BY <3>1, <3>2
  <2> QED BY <2>2, <2>3, <2>4
<1>5. Within(h, k, u)
  BY <1>1, <1>2, <1>4, WithinStays
<1>6. Numbered(h)
  BY <1>1, <1>2, <1>4, NumberedStays
<1>7. Driven(u, k)
  <2>1. ASSUME NEW q \in Slots PROVE DrivenAt(u, k, q)
    <3>1. CASE q = s
      BY <1>1, <1>2, <3>1 DEF DrivenAt
    <3>2. CASE q # s
      BY <1>1, <1>2, <3>2 DEF DrivenAt, Driven
    <3> QED BY <3>1, <3>2
  <2> QED BY <2>1 DEF Driven
<1> QED BY <1>2, <1>5, <1>6, <1>7 DEF Core

(* A slot gets a new session. *)
LEMMA CoreGrows ==
  ASSUME NEW f \in Files, NEW g, Booked(f, g, g), Numbered(f), Owned(g) = MadeIn(f),
         NEW s \in Slots, s \notin Sessions, s \notin Live(g),
         NEW t, \A q \in Slots \ {s} : DrivenAt(t, g, q), t[s] # "iterating",
         NEW i \in Sessions, i = Cardinality(MadeIn(f)) + 1, NEW cap \in Caps,
         NEW h, Opens(f, h, i, cap), NEW k, Gets(g, k, s, i, cap),
         Cardinality(Live(g)) < MaxChildren, Charged(g) + cap <= Pool,
         NEW u \in Drivers, \A q \in Slots \ {s} : u[q] = t[q], u[s] \in {"none", "ready"}
  PROVE  Core(h, k, u) /\ Onward(f, g, h, k) /\ Owned(k) = MadeIn(h)
<1>1. i \notin MadeIn(f) /\ (MadeIn(h) = MadeIn(f) \union {i} => Numbered(h))
  BY NumberedGrows
<1>2. /\ h \in Files /\ MadeIn(h) = MadeIn(f) \union {i}
      /\ Onward(f, g, h, k) /\ Booked(h, k, k) /\ Owned(k) = Owned(g) \union {i}
      /\ Live(k) = Live(g) \union {s}
  BY <1>1, Growing
<1>4. \A q \in Slots \ {s} : k[q] = g[q]
  BY DEF Gets
<1>5. \A q \in Slots : t[q] = "iterating" => q \in Live(g)
  BY DEF DrivenAt
<1>6. \A q \in Slots : u[q] = "iterating" => t[q] = "iterating"
  OBVIOUS
<1>7. Within(h, k, u)
  BY <1>1, <1>2, <1>4, <1>5, <1>6, WithinGrows
<1>8. Driven(u, k)
  <2>1. ASSUME NEW q \in Slots PROVE DrivenAt(u, k, q)
    <3>1. CASE q = s
      BY <1>2, <3>1 DEF DrivenAt
    <3>2. CASE q # s
      <4>1. u[q] = t[q] /\ k[q] = g[q] /\ DrivenAt(t, g, q)
        BY <1>4, <3>2
      <4>2. (q \in Live(k) <=> q \in Live(g)) /\ (q \in Taken(k) <=> q \in Taken(g))
        BY <4>1 DEF Live, Taken
      <4> QED BY <4>1, <4>2 DEF DrivenAt
    <3> QED BY <3>1, <3>2
  <2> QED BY <2>1 DEF Driven
<1> QED BY <1>1, <1>2, <1>7, <1>8 DEF Core

-----------------------------------------------------------------------------
(* The steps of the specification                                          *)

LEMMA SwarmInit == Init => SwarmInv
<1> SUFFICES ASSUME Init PROVE SwarmInv
  OBVIOUS
<1> USE DEF Init
<1>1. MadeIn(sessions) = {}
  BY DEF MadeIn
<1>2. sessions \in Files /\ tasks \in Drivers
  BY DEF Files, Drivers, NoTasks
<1>3. Numbered(sessions)
  <2>1. Cardinality({}) = 0 /\ 1..0 = {}
    BY FS_EmptySet
  <2> QED BY <1>1, <2>1 DEF Numbered
<1>4. Driven(tasks, registry)
  BY DEF Driven, DrivenAt, NoTasks
<1>5. Within(sessions, registry, tasks)
  <2>1. {i \in {} : Up(sessions, registry, tasks, i)} = {}
    OBVIOUS
  <2>2. Cardinality({}) = 0 /\ \A f : SumFunctionOnSet(f, {}) = 0
    BY FS_EmptySet, SumEmpty
  <2> QED BY <1>1, <2>1, <2>2, RailsAssumption DEF Within
<1>6. Core(sessions, registry, tasks)
  BY <1>2, <1>3, <1>4, <1>5, Empties DEF Core
<1>7. RestTyped
  <2>1. 0 \in 0..MaxTurns /\ 0 \in 0..MaxFaults /\ 0 \in 0..MaxAborts
    BY RailsAssumption
  <2>2. Empty \in Registries
    BY Empties
  <2> QED BY <2>1, <2>2 DEF RestTyped, NoAbort
<1>8. RunnerOK
  BY RailsAssumption DEF RunnerOK, Driving
<1>9. BooksInv
  BY Empties DEF BooksInv
<1> QED BY <1>6, <1>7, <1>8, <1>9 DEF SwarmInv

LEMMA SwarmTypes == SwarmInv => TypeOK
<1> SUFFICES ASSUME SwarmInv PROVE TypeOK
  OBVIOUS
<1>1. /\ sessions \in Files /\ tasks \in Drivers /\ registry \in Registries
      /\ RestTyped
  BY DEF SwarmInv, Core, Booked
<1> QED BY <1>1 DEF TypeOK, RestTyped, Files, Drivers

(* What the invariant says of a driver. *)
LEMMA Driver ==
  ASSUME SwarmInv, NEW s \in Slots, tasks[s] # "none"
  PROVE  /\ Driving /\ Owned(registry) = Made /\ registry[s].session \in Sessions
         /\ tasks[s] # "revising" => s \in Live(registry)
         /\ tasks[s] = "revising" => s \in Taken(registry) \ Live(registry) /\ s \in Revised
         /\ Child(s) \in Made /\ sessions[Child(s)].cap \in Caps
         /\ sessions[Child(s)].iters \in Nat
<1>1. Driving
  BY DEF SwarmInv, RunnerOK, NoTasks
<1>2. Owned(registry) = Made
  BY <1>1 DEF SwarmInv, BooksInv, Driving
<1>3. /\ tasks[s] # "revising" => s \in Live(registry)
      /\ tasks[s] = "revising" => s \in Taken(registry) \ Live(registry) /\ s \in Revised
  BY DEF SwarmInv, Core, Driven, DrivenAt
<1>4. s \in Taken(registry)
  BY <1>3 DEF Live
<1>5. registry[s].session \in Sessions /\ registry[s].session \in Own(registry[s])
  BY <1>4, BookTyped DEF SwarmInv, Core
<1>6. Child(s) \in Made
  BY <1>2, <1>4, <1>5 DEF Owned, Child
<1>7. sessions[Child(s)].cap \in Caps
  BY <1>6 DEF SwarmInv, Core, Numbered, MadeIn, Made
<1>8. sessions[Child(s)].iters \in Nat
  BY <1>5, FileTyped DEF Child, SwarmInv, Core
<1> QED BY <1>1, <1>2, <1>3, <1>5, <1>6, <1>7, <1>8

(* A step of a tool or a driver. *)
LEMMA Keeping ==
  ASSUME SwarmInv, UNCHANGED <<disk, ended, turns, abort, runner, held>>,
         runner \notin {"down", "done"}, Driving \/ tasks' = NoTasks,
         faults' \in 0..MaxFaults, dirty' = TRUE \/ (dirty' = dirty /\ registry' = registry),
         Core(sessions', registry', tasks'),
         Onward(sessions, registry, sessions', registry'), Owned(registry') = MadeIn(sessions')
  PROVE  SwarmInv'
<1>1. RestTyped'
  BY DEF SwarmInv, RestTyped
<1>2. RunnerOK'
  BY DEF SwarmInv, RunnerOK, Driving
<1>3. \A r : Booked(sessions, registry, r) => Booked(sessions', registry', r)
  BY BooksStay DEF SwarmInv, Core
<1>4. BooksInv'
  <2>1. Owned(registry') = Made'
    BY DEF Made, MadeIn
  <2>2. (Written(disk) => Written(disk)') /\ (Written(held) => Written(held)')
    BY DEF Written
  <2> QED BY <1>3, <2>1, <2>2 DEF SwarmInv, BooksInv
<1>5. Core(sessions, registry, tasks)'
  OBVIOUS
<1> QED BY <1>1, <1>2, <1>4, <1>5 DEF SwarmInv

LEMMA QueueKeeps == ASSUME SwarmInv, NEW s \in Slots, Queue(s) PROVE SwarmInv'
<1>1. tasks[s] = "ready" /\ UNCHANGED <<sessions, disk, ended, turns, abort, runner, held, registry,
                                        dirty, faults>>
  BY DEF Queue
<1>2. Driving /\ Owned(registry) = Made /\ s \in Live(registry)
  BY <1>1, Driver
<1>3. /\ Core(sessions, registry, tasks) /\ sessions \in Files /\ tasks \in Drivers
      /\ Driven(tasks, registry) /\ faults \in 0..MaxFaults
  BY DEF SwarmInv, Core, RestTyped
<1>4. tasks' \in Drivers /\ tasks'[s] = "queued" /\ \A q \in Slots \ {s} : tasks'[q] = tasks[q]
  BY <1>3 DEF Queue, Drivers
<1>5. Driven(tasks', registry)
  BY <1>2, <1>3, <1>4 DEF Driven, DrivenAt
<1>6. \A i : Up(sessions, registry, tasks', i) => Up(sessions, registry, tasks, i)
  BY <1>4 DEF Up
<1>7. Core(sessions, registry, tasks') /\ Onward(sessions, registry, sessions, registry)
  BY <1>3, <1>4, <1>5, <1>6, CoreTouches
<1>8. Owned(registry') = MadeIn(sessions')
  BY <1>1, <1>2 DEF Made, MadeIn
<1> QED BY <1>1, <1>2, <1>3, <1>7, <1>8, Keeping DEF Driving

(* The slot s is settled. *)
LEMMA ClosesKeeps ==
  ASSUME SwarmInv, UNCHANGED <<disk, ended, turns, abort, runner, held>>,
         Driving \/ runner = "cascade", faults' \in 0..MaxFaults, dirty' = TRUE,
         NEW s \in Live(registry), sessions' \in Files,
         Closes(sessions, sessions', registry, registry', s),
         \/ sessions'[registry[s].session].iters = sessions[registry[s].session].iters
         \/ tasks[s] = "iterating",
         tasks' \in Drivers, \A q \in Slots \ {s} : tasks'[q] = tasks[q],
         tasks'[s] = "none" \/ (tasks'[s] = "revising" /\ s \in Revised),
         Driving \/ tasks' = NoTasks
  PROVE  SwarmInv'
<1>1. Core(sessions, registry, tasks) /\ sessions \in Files /\ Owned(registry) = MadeIn(sessions)
  BY DEF SwarmInv, Core, BooksInv, Driving, Made, MadeIn
<1>2. /\ Core(sessions', registry', tasks') /\ MadeIn(sessions') = MadeIn(sessions)
      /\ Onward(sessions, registry, sessions', registry') /\ Owned(registry') = Owned(registry)
  BY <1>1, CoreSettles
<1>3. runner \notin {"down", "done"}
  BY DEF Driving
<1> QED BY <1>1, <1>2, <1>3, Keeping

(* What ends an open session and settles its slot closes it. *)
LEMMA Terminating ==
  ASSUME SwarmInv, runner # "down", NEW s \in Live(registry),
         sessions' = Terminated(registry[s].session), Settles(s)
  PROVE  /\ sessions' \in Files /\ Closes(sessions, sessions', registry, registry', s)
         /\ sessions'[registry[s].session].iters = sessions[registry[s].session].iters
         /\ dirty' = TRUE
<1> DEFINE i == registry[s].session
<1>1. sessions \in Files /\ Booked(sessions, registry, registry) /\ s \in Slots /\ s \in Taken(registry)
  BY DEF SwarmInv, Core, Live, Taken
<1>2. i \in Sessions /\ i \in MadeIn(sessions)
  BY <1>1, BookTyped DEF Correct, Own
<1>3. sessions[i].state \in {"open", "met", "unmet"}
  BY <1>1, <1>2, FileTyped DEF MadeIn
<1> HIDE DEF i
<1>4. sessions' = [sessions EXCEPT ![i].state = IF sessions[i].state = "open" THEN "unmet" ELSE @]
  BY DEF Terminated, i
<1>5. /\ sessions' \in Files /\ sessions'[i].state \in {"met", "unmet"}
      /\ sessions'[i].cap = sessions[i].cap /\ sessions'[i].iters = sessions[i].iters
      /\ \A j \in Sessions : j # i => sessions'[j] = sessions[j]
  BY <1>1, <1>2, <1>3, <1>4 DEF Files
<1>6. registry' = [registry EXCEPT ![s] = Settled(registry[s], sessions[i].iters)] /\ dirty' = TRUE
  BY DEF Settles, i
<1> QED BY <1>5, <1>6 DEF Closes, i

LEMMA CascadeChildKeeps == ASSUME SwarmInv, NEW s \in Slots, CascadeChild(s) PROVE SwarmInv'
<1>1. /\ runner = "cascade" /\ s \in Live(registry) /\ sessions' = Terminated(registry[s].session)
      /\ Settles(s) /\ UNCHANGED <<disk, ended, turns, abort, runner, held, tasks, faults>>
  BY DEF CascadeChild
<1>2. tasks = NoTasks /\ tasks \in Drivers /\ faults \in 0..MaxFaults
  BY <1>1 DEF SwarmInv, RunnerOK, Driving, Core, RestTyped
<1>3. /\ sessions' \in Files /\ Closes(sessions, sessions', registry, registry', s)
      /\ sessions'[registry[s].session].iters = sessions[registry[s].session].iters
      /\ dirty' = TRUE
  BY <1>1, Terminating
<1>4. tasks'[s] = "none"
  BY <1>1, <1>2 DEF NoTasks
<1> QED BY <1>1, <1>2, <1>3, <1>4, ClosesKeeps

LEMMA AbortChildKeeps == ASSUME SwarmInv, NEW s \in Slots, AbortChild(s) PROVE SwarmInv'
<1>1. /\ runner = "iterating" /\ s \in Taken(registry)
      /\ tasks' = [tasks EXCEPT ![s] = "none"]
      /\ UNCHANGED <<disk, ended, turns, abort, runner, held, faults>>
  BY DEF AbortChild
<1>2. /\ Core(sessions, registry, tasks) /\ sessions \in Files /\ tasks \in Drivers
      /\ Driven(tasks, registry) /\ faults \in 0..MaxFaults /\ Owned(registry) = MadeIn(sessions)
  BY <1>1 DEF SwarmInv, Core, RestTyped, BooksInv, Made, MadeIn
<1>3. tasks' \in Drivers /\ tasks'[s] = "none" /\ \A q \in Slots \ {s} : tasks'[q] = tasks[q]
  BY <1>1, <1>2 DEF Drivers
<1>4. Driving /\ runner \notin {"down", "done"}
  BY <1>1 DEF Driving
<1>5. CASE registry[s].settled
  <2>1. UNCHANGED <<sessions, registry, dirty>>
    BY <1>5 DEF AbortChild
  <2>2. Driven(tasks', registry)
    BY <1>2, <1>3 DEF Driven, DrivenAt
  <2>3. \A i : Up(sessions, registry, tasks', i) => Up(sessions, registry, tasks, i)
    BY <1>3 DEF Up
  <2>4. Core(sessions, registry, tasks') /\ Onward(sessions, registry, sessions, registry)
    BY <1>2, <1>3, <2>2, <2>3, CoreTouches
  <2> QED BY <1>1, <1>2, <1>4, <2>1, <2>4, Keeping
<1>6. CASE ~registry[s].settled
  <2>1. s \in Live(registry) /\ sessions' = Terminated(registry[s].session) /\ Settles(s)
    BY <1>1, <1>6 DEF AbortChild, Live
  <2>2. /\ sessions' \in Files /\ Closes(sessions, sessions', registry, registry', s)
        /\ sessions'[registry[s].session].iters = sessions[registry[s].session].iters
        /\ dirty' = TRUE
    BY <1>4, <2>1, Terminating
  <2> QED BY <1>1, <1>2, <1>3, <1>4, <2>1, <2>2, ClosesKeeps
<1> QED BY <1>5, <1>6

LEMMA BeginIterationKeeps == ASSUME SwarmInv, NEW s \in Slots, BeginIteration(s) PROVE SwarmInv'
<1>1. tasks[s] = "queued" /\ UNCHANGED <<sessions, disk, ended, turns, abort, runner, held, faults>>
  BY DEF BeginIteration
<1>2. Driving /\ Owned(registry) = Made /\ s \in Live(registry) /\ registry[s].session \in Sessions
      /\ Child(s) \in Made
  BY <1>1, Driver
<1>3. /\ Core(sessions, registry, tasks) /\ sessions \in Files /\ tasks \in Drivers
      /\ Driven(tasks, registry) /\ faults \in 0..MaxFaults
  BY DEF SwarmInv, Core, RestTyped
<1>4. CASE Open(Child(s))
  <2>1. tasks' = [tasks EXCEPT ![s] = "iterating"] /\ UNCHANGED <<registry, dirty>>
    BY <1>4 DEF BeginIteration
  <2>2. tasks' \in Drivers /\ tasks'[s] = "iterating" /\ \A q \in Slots \ {s} : tasks'[q] = tasks[q]
    BY <1>3, <2>1 DEF Drivers
  <2>3. Driven(tasks', registry)
    BY <1>2, <1>3, <2>2 DEF Driven, DrivenAt
  <2>4. \A i : Up(sessions, registry, tasks', i) => Up(sessions, registry, tasks, i)
    BY <1>4, <2>2 DEF Up, Open, Child
  <2>5. Core(sessions, registry, tasks') /\ Onward(sessions, registry, sessions, registry)
    BY <1>3, <2>2, <2>3, <2>4, CoreTouches
  <2>6. Owned(registry') = MadeIn(sessions')
    BY <1>1, <1>2, <2>1 DEF Made, MadeIn
  <2> QED BY <1>1, <1>2, <1>3, <2>1, <2>5, <2>6, Keeping DEF Driving
<1>5. CASE ~Open(Child(s))
  <2>1. Gives(s, sessions[Child(s)].iters)
    BY <1>5 DEF BeginIteration
  <2>2. /\ registry' = [registry EXCEPT ![s] = Settled(registry[s], sessions[Child(s)].iters)]
        /\ dirty' = TRUE /\ tasks' = [tasks EXCEPT ![s] = "none"]
    BY <2>1 DEF Gives
  <2>3. tasks' \in Drivers /\ tasks'[s] = "none" /\ \A q \in Slots \ {s} : tasks'[q] = tasks[q]
    BY <1>3, <2>2 DEF Drivers
  <2>4. sessions[Child(s)].state \in {"met", "unmet"}
    BY <1>2, <1>3, <1>5, FileTyped DEF Child, Open, Made
  <2>5. Closes(sessions, sessions', registry, registry', s)
    BY <1>1, <2>2, <2>4 DEF Closes, Child
  <2> QED BY <1>1, <1>2, <1>3, <2>2, <2>3, <2>5, ClosesKeeps
<1> QED BY <1>4, <1>5

LEMMA SaveIterationKeeps == ASSUME SwarmInv, NEW s \in Slots, SaveIteration(s) PROVE SwarmInv'
<1> DEFINE c == registry[s].session
<1>1. /\ tasks[s] = "iterating"
      /\ UNCHANGED <<disk, ended, turns, abort, runner, held, registry, dirty, faults>>
  BY DEF SaveIteration
<1>2. Driving /\ Owned(registry) = Made /\ s \in Live(registry) /\ c \in Sessions /\ c \in Made
  BY <1>1, Driver DEF Child
<1>3. /\ Core(sessions, registry, tasks) /\ sessions \in Files /\ tasks \in Drivers
      /\ Driven(tasks, registry) /\ faults \in 0..MaxFaults
  BY DEF SwarmInv, Core, RestTyped
<1>4. sessions' = [sessions EXCEPT ![c].state = "open", ![c].iters = @ + 1]
  BY DEF SaveIteration, Child
<1>5. PICK x \in {"finalising", "ready"} : tasks' = [tasks EXCEPT ![s] = x]
  BY DEF SaveIteration
<1> HIDE DEF c
<1>6. /\ sessions' \in Files /\ sessions'[c].state = "open" /\ sessions'[c].cap = sessions[c].cap
      /\ \A j \in Sessions : j # c => sessions'[j] = sessions[j]
  BY <1>2, <1>3, <1>4 DEF Files
<1>7. tasks' \in Drivers /\ tasks'[s] = x /\ \A q \in Slots \ {s} : tasks'[q] = tasks[q]
  BY <1>3, <1>5 DEF Drivers
<1>8. Driven(tasks', registry)
  BY <1>2, <1>3, <1>7 DEF Driven, DrivenAt
<1>9. Up(sessions, registry, tasks, c) /\ ~Past(sessions, registry, c)
  BY <1>1, <1>2 DEF Up, Past, c, Live
<1>10. c \in MadeIn(sessions) /\ c \in MadeIn(sessions')
  BY <1>2, <1>6 DEF Made, MadeIn
<1>11. ASSUME NEW i \in MadeIn(sessions)
       PROVE  /\ Up(sessions', registry, tasks', i) => Up(sessions, registry, tasks, i)
              /\ ~Up(sessions, registry, tasks, i) => sessions'[i].iters = sessions[i].iters
  <2>1. CASE i = c
    BY <1>9, <2>1
  <2>2. CASE i # c
    <3>1. sessions'[i] = sessions[i]
      BY <1>6, <2>2, Finite
    <3>2. \A q \in Slots : tasks'[q] = "iterating" => tasks[q] = "iterating"
      BY <1>7
    <3> QED BY <3>1, <3>2 DEF Up
  <2> QED BY <2>1, <2>2
<1>12. /\ Core(sessions', registry, tasks') /\ Onward(sessions, registry, sessions', registry)
       /\ MadeIn(sessions') = MadeIn(sessions)
  BY <1>3, <1>6, <1>7, <1>8, <1>9, <1>10, <1>11, CoreTouches
<1>13. Owned(registry') = MadeIn(sessions')
  BY <1>1, <1>2, <1>12 DEF Made, MadeIn
<1> QED BY <1>1, <1>2, <1>3, <1>12, <1>13, Keeping DEF Driving

LEMMA FinaliseIterationKeeps ==
  ASSUME SwarmInv, NEW s \in Slots, FinaliseIteration(s) PROVE SwarmInv'
<1> DEFINE c == registry[s].session
<1>1. /\ tasks[s] = "finalising" /\ tasks' = [tasks EXCEPT ![s] = "ready"]
      /\ UNCHANGED <<disk, ended, turns, abort, runner, held, registry, dirty, faults>>
  BY DEF FinaliseIteration
<1>2. Driving /\ Owned(registry) = Made /\ s \in Live(registry) /\ c \in Sessions /\ c \in Made
  BY <1>1, Driver DEF Child
<1>3. /\ Core(sessions, registry, tasks) /\ sessions \in Files /\ tasks \in Drivers
      /\ Driven(tasks, registry) /\ faults \in 0..MaxFaults
  BY DEF SwarmInv, Core, RestTyped
<1>4. PICK verdict \in {"met", "unmet"} : sessions' = [sessions EXCEPT ![c].state = verdict]
  BY DEF FinaliseIteration, Child
<1>5. ~Past(sessions, registry, c)
  BY <1>2 DEF Past, Live
<1> HIDE DEF c
<1>6. /\ sessions' \in Files /\ sessions'[c].state = verdict /\ sessions'[c].cap = sessions[c].cap
      /\ sessions'[c].iters = sessions[c].iters
      /\ \A j \in Sessions : j # c => sessions'[j] = sessions[j]
  BY <1>2, <1>3, <1>4 DEF Files
<1>7. tasks' \in Drivers /\ tasks'[s] = "ready" /\ \A q \in Slots \ {s} : tasks'[q] = tasks[q]
  BY <1>1, <1>3 DEF Drivers
<1>8. Driven(tasks', registry)
  BY <1>2, <1>3, <1>7 DEF Driven, DrivenAt
<1>9. c \in MadeIn(sessions) /\ c \in MadeIn(sessions')
  BY <1>2, <1>6 DEF Made, MadeIn
<1>10. \A q \in Slots : tasks'[q] = "iterating" => tasks[q] = "iterating"
  BY <1>7
<1>11. ASSUME NEW i \in MadeIn(sessions)
       PROVE  /\ Up(sessions', registry, tasks', i) => Up(sessions, registry, tasks, i)
              /\ ~Up(sessions, registry, tasks, i) => sessions'[i].iters = sessions[i].iters
  <2>1. i \in Sessions
    BY Finite
  <2>2. sessions'[i].state = "open" => sessions[i].state = "open"
    BY <1>6, <2>1
  <2> QED BY <1>6, <1>10, <2>1, <2>2 DEF Up
<1>12. /\ Core(sessions', registry, tasks') /\ Onward(sessions, registry, sessions', registry)
       /\ MadeIn(sessions') = MadeIn(sessions)
  BY <1>3, <1>5, <1>6, <1>7, <1>8, <1>9, <1>11, CoreTouches
<1>13. Owned(registry') = MadeIn(sessions')
  BY <1>1, <1>2, <1>12 DEF Made, MadeIn
<1> QED BY <1>1, <1>2, <1>3, <1>12, <1>13, Keeping DEF Driving

LEMMA FailIterationKeeps == ASSUME SwarmInv, NEW s \in Slots, FailIteration(s) PROVE SwarmInv'
<1> DEFINE c == registry[s].session
<1>1. /\ tasks[s] = "iterating" /\ UNCHANGED <<disk, ended, turns, abort, runner, held>>
      /\ sessions' = [sessions EXCEPT ![c].state = "unmet", ![c].iters = @ + 1]
      /\ registry' = [registry EXCEPT ![s] = Settled(registry[s], sessions[c].iters + 1)]
      /\ dirty' = TRUE /\ tasks' = [tasks EXCEPT ![s] = "none"] /\ Spend
  BY DEF FailIteration, Gives, Child
<1>2. Driving /\ s \in Live(registry) /\ c \in Sessions
  BY <1>1, Driver
<1>3. sessions \in Files /\ tasks \in Drivers /\ faults \in 0..MaxFaults
  BY DEF SwarmInv, Core, RestTyped
<1>4. /\ sessions' \in Files /\ sessions'[c].state = "unmet" /\ sessions'[c].cap = sessions[c].cap
      /\ sessions'[c].iters = sessions[c].iters + 1
      /\ \A j \in Sessions : j # c => sessions'[j] = sessions[j]
  <2> HIDE DEF c
  <2> QED BY <1>1, <1>2, <1>3 DEF Files
<1>5. Closes(sessions, sessions', registry, registry', s)
  BY <1>1, <1>4 DEF Closes
<1>6. tasks' \in Drivers /\ tasks'[s] = "none" /\ \A q \in Slots \ {s} : tasks'[q] = tasks[q]
  BY <1>1, <1>3 DEF Drivers
<1>7. faults' \in 0..MaxFaults
  BY <1>1, <1>3, RailsAssumption DEF Spend
<1> QED BY <1>1, <1>2, <1>4, <1>5, <1>6, <1>7, ClosesKeeps

(* A settled slot of the books r gets a replacement of its session. *)
Freed(u, v, s) == v[s] = "none" /\ \A q \in Slots \ {s} : v[q] = u[q]

LEMMA Respawning ==
  ASSUME NEW r, NEW u, Core(sessions, r, u), Owned(r) = MadeIn(sessions),
         NEW s \in Taken(r) \ Live(r), s \notin Sessions, u[s] # "iterating",
         NEW cap \in Caps, Admits(r, cap),
         \E i \in Sessions : /\ Makes(i, cap)
                             /\ registry' = [r EXCEPT ![s] = Respawned(r[s], i, cap)],
         tasks' \in Drivers, Freed(u, tasks', s)
  PROVE  /\ Core(sessions', registry', tasks') /\ Onward(sessions, r, sessions', registry')
         /\ Owned(registry') = MadeIn(sessions') /\ dirty' = TRUE
<1>1. PICK i \in Sessions : /\ Makes(i, cap)
                            /\ registry' = [r EXCEPT ![s] = Respawned(r[s], i, cap)]
  OBVIOUS
<1>2. i = Cardinality(MadeIn(sessions)) + 1 /\ Opens(sessions, sessions', i, cap) /\ dirty' = TRUE
  BY <1>1 DEF Makes, Opens, Made, MadeIn
<1>3. /\ sessions \in Files /\ Booked(sessions, r, r) /\ Numbered(sessions) /\ s \in Slots
      /\ \A q \in Slots \ {s} : DrivenAt(u, r, q)
  BY DEF Core, Driven, Taken
<1>4. r \in [Slots -> Entries] /\ r[s].session \in Sessions
  BY <1>3, BookEntries, BookTyped
<1>5. Cardinality(Live(r)) < MaxChildren /\ Charged(r) + cap <= Pool
  BY DEF Admits
<1>6. Gets(r, registry', s, i, cap)
  <2>1. Respawned(r[s], i, cap) = [r[s] EXCEPT !.session = i, !.reserved = cap,
                                     !.settled = FALSE, !.prior = Own(r[s])]
    BY <1>3, <1>4 DEF Respawned, Own, Entries
  <2>2. Own(r[s]) \in SUBSET Sessions
    BY <1>3, BookTyped
  <2>3. r[s] \in Entries
    BY <1>3, <1>4
  <2>4. /\ Respawned(r[s], i, cap) \in Entries
        /\ Respawned(r[s], i, cap).session = i /\ Respawned(r[s], i, cap).reserved = cap
        /\ Respawned(r[s], i, cap).settled = FALSE /\ Respawned(r[s], i, cap).prior = Own(r[s])
        /\ Respawned(r[s], i, cap).consumed = r[s].consumed
    BY <2>1, <2>2, <2>3 DEF Entries
  <2> QED BY <1>1, <1>3, <1>4, <2>4 DEF Gets
<1>7. (\A q \in Slots \ {s} : tasks'[q] = u[q]) /\ tasks'[s] = "none"
  BY DEF Freed
<1> QED BY <1>2, <1>3, <1>5, <1>6, <1>7, CoreGrows

LEMMA ReviseKeeps == ASSUME SwarmInv, NEW s \in Slots, Revise(s) PROVE SwarmInv'
<1>1. /\ tasks[s] = "revising" /\ RespawnOrDeny(s, registry)
      /\ UNCHANGED <<disk, ended, turns, abort, runner, held, faults>>
  BY DEF Revise
<1>2. /\ Driving /\ Owned(registry) = Made /\ s \in Taken(registry) \ Live(registry) /\ s \in Revised
      /\ sessions[registry[s].session].cap \in Caps
  BY <1>1, Driver DEF Child
<1>3. /\ Core(sessions, registry, tasks) /\ sessions \in Files /\ tasks \in Drivers
      /\ Driven(tasks, registry) /\ faults \in 0..MaxFaults
  BY DEF SwarmInv, Core, RestTyped
<1>4. tasks' = [tasks EXCEPT ![s] = "none"]
  BY <1>1 DEF RespawnOrDeny
<1>5. tasks' \in Drivers /\ tasks'[s] = "none" /\ \A q \in Slots \ {s} : tasks'[q] = tasks[q]
  BY <1>3, <1>4 DEF Drivers
<1> DEFINE cap == sessions[registry[s].session].cap
<1>6. CASE Admits(registry, cap)
  <2>1. \E i \in Sessions :
          /\ Makes(i, cap) /\ registry' = [registry EXCEPT ![s] = Respawned(registry[s], i, cap)]
    BY <1>1, <1>6 DEF RespawnOrDeny
  <2>2. s \notin Sessions
    BY <1>2, RailsAssumption DEF Sessions
  <2>3. Owned(registry) = MadeIn(sessions)
    BY <1>2 DEF Made, MadeIn
  <2>4. cap \in Caps /\ tasks[s] # "iterating" /\ s \in Taken(registry) \ Live(registry)
    BY <1>1, <1>2
  <2> HIDE DEF cap
  <2>5. Freed(tasks, tasks', s)
    BY <1>5 DEF Freed
  <2>6. /\ Core(sessions', registry', tasks') /\ Onward(sessions, registry, sessions', registry')
        /\ Owned(registry') = MadeIn(sessions') /\ dirty' = TRUE
    BY <1>3, <1>5, <1>6, <2>1, <2>2, <2>3, <2>4, <2>5, Respawning
  <2> QED BY <1>1, <1>2, <1>3, <2>6, Keeping DEF Driving
<1>7. CASE ~Admits(registry, cap)
  <2>1. registry' = registry /\ dirty' = TRUE /\ UNCHANGED sessions
    BY <1>1, <1>7 DEF RespawnOrDeny
  <2>2. Driven(tasks', registry)
    BY <1>3, <1>5 DEF Driven, DrivenAt
  <2>3. \A i : Up(sessions, registry, tasks', i) => Up(sessions, registry, tasks, i)
    BY <1>5 DEF Up
  <2>4. Core(sessions, registry, tasks') /\ Onward(sessions, registry, sessions, registry)
    BY <1>3, <1>5, <2>2, <2>3, CoreTouches
  <2>5. Owned(registry') = MadeIn(sessions')
    BY <1>2, <2>1 DEF Made, MadeIn
  <2> QED BY <1>1, <1>2, <1>3, <2>1, <2>4, <2>5, Keeping DEF Driving
<1> QED BY <1>6, <1>7

LEMMA EndDriverKeeps == ASSUME SwarmInv, NEW s \in Slots, EndDriver(s) PROVE SwarmInv'
<1> DEFINE c == registry[s].session
           e == Settled(registry[s], sessions[c].iters)
           r == [registry EXCEPT ![s] = e]
           cap == sessions[r[s].session].cap
           none == [tasks EXCEPT ![s] = "none"]
<1>1. /\ tasks[s] = "ready" /\ ~Open(Child(s))
      /\ UNCHANGED <<disk, ended, turns, abort, runner, held, faults>>
  BY DEF EndDriver
<1>2. /\ \/ /\ registry' = r /\ dirty' = TRUE /\ UNCHANGED sessions
            /\ tasks' = [tasks EXCEPT ![s] = "none"]
         \/ /\ s \in Revised /\ registry' = r /\ dirty' = TRUE /\ UNCHANGED sessions
            /\ tasks' = [tasks EXCEPT ![s] = "revising"]
         \/ ShouldRespawn(e) /\ RespawnOrDeny(s, r)
  BY DEF EndDriver, Child
<1>3. Driving /\ Owned(registry) = Made /\ s \in Live(registry) /\ c \in Sessions /\ c \in Made
      /\ sessions[c].cap \in Caps
  BY <1>1, Driver DEF Child
<1>4. /\ Core(sessions, registry, tasks) /\ sessions \in Files /\ tasks \in Drivers
      /\ faults \in 0..MaxFaults /\ Booked(sessions, registry, registry)
  BY DEF SwarmInv, Core, RestTyped
<1>5. sessions[c].state \in {"met", "unmet"}
  BY <1>1, <1>3, <1>4, FileTyped DEF Child, Open, Made
<1>6. Closes(sessions, sessions, registry, r, s)
  BY <1>5 DEF Closes
<1>7. none \in Drivers /\ none[s] = "none" /\ \A q \in Slots \ {s} : none[q] = tasks[q]
  BY <1>4 DEF Drivers
<1>8. CASE registry' = r /\ dirty' = TRUE /\ sessions' = sessions /\ tasks' = none
  BY <1>1, <1>3, <1>4, <1>6, <1>7, <1>8, ClosesKeeps
<1>9. CASE /\ s \in Revised /\ registry' = r /\ dirty' = TRUE /\ sessions' = sessions
           /\ tasks' = [tasks EXCEPT ![s] = "revising"]
  <2>1. tasks' \in Drivers /\ tasks'[s] = "revising" /\ \A q \in Slots \ {s} : tasks'[q] = tasks[q]
    BY <1>4, <1>9 DEF Drivers
  <2> QED BY <1>1, <1>3, <1>4, <1>6, <1>9, <2>1, ClosesKeeps
<1>10. ASSUME ShouldRespawn(e), RespawnOrDeny(s, r), Admits(r, cap) PROVE SwarmInv'
  <2>1. registry \in [Slots -> Entries] /\ r[s] = e
    BY <1>4, BookEntries
  <2>2. /\ Core(sessions, r, none) /\ Onward(sessions, registry, sessions, r)
        /\ Owned(r) = MadeIn(sessions)
    <3>1. Owned(registry) = MadeIn(sessions)
      BY <1>3 DEF Made, MadeIn
    <3> HIDE DEF r, none
    <3> QED BY <1>3, <1>4, <1>6, <1>7, <3>1, CoreSettles
  <2>3. /\ Taken(r) = Taken(registry) /\ Live(r) = Live(registry) \ {s} /\ r[s].session = c
        /\ r[s].max = registry[s].max /\ r[s].prior = registry[s].prior
    <3> HIDE DEF r
    <3> QED BY <1>3, <1>4, <1>6, Settling
  <2>4. s \in Taken(r) \ Live(r)
    BY <1>3, <2>3 DEF Live
  <2>5. s \notin Sessions
    <3> SUFFICES ASSUME s \in Sessions PROVE FALSE
      OBVIOUS
    <3>1. registry[s].max = 0 /\ registry[s].prior = {}
      BY <1>3, <1>4, BookTyped DEF Correct, Live
    <3>2. Cardinality(e.prior) < e.max
      BY <1>10 DEF ShouldRespawn
    <3>3. e.prior = {} /\ e.max = 0
      <4> HIDE DEF e, r
      <4> QED BY <2>1, <2>3, <3>1
    <3>4. Cardinality({}) = 0
      BY FS_EmptySet
    <3> QED BY <3>2, <3>3, <3>4
  <2>6. cap \in Caps
    BY <1>3, <2>3
  <2>7. /\ \E i \in Sessions :
             Makes(i, cap) /\ registry' = [r EXCEPT ![s] = Respawned(r[s], i, cap)]
        /\ tasks' = none
    BY <1>10 DEF RespawnOrDeny
  <2> HIDE DEF r, cap, none, e
  <2>8. tasks' \in Drivers /\ Freed(none, tasks', s)
    BY <1>7, <2>7 DEF Freed
  <2>9. /\ Core(sessions', registry', tasks') /\ Onward(sessions, r, sessions', registry')
        /\ Owned(registry') = MadeIn(sessions') /\ dirty' = TRUE
    BY <1>7, <1>10, <2>2, <2>4, <2>5, <2>6, <2>7, <2>8, Respawning
  <2>10. Onward(sessions, registry, sessions', registry')
    BY <2>2, <2>9, OnwardTrans
  <2> QED BY <1>1, <1>3, <1>4, <2>9, <2>10, Keeping DEF Driving
<1>11. ASSUME RespawnOrDeny(s, r), ~Admits(r, cap) PROVE SwarmInv'
  <2>1. registry' = r /\ dirty' = TRUE /\ UNCHANGED sessions /\ tasks' = none
    BY <1>11 DEF RespawnOrDeny
  <2> QED BY <1>8, <2>1
<1> QED BY <1>2, <1>8, <1>9, <1>10, <1>11

LEMMA SpawnKeeps ==
  ASSUME SwarmInv, NEW name \in Names, NEW cap \in Caps, Spawn(name, cap) PROVE SwarmInv'
<1>1. /\ runner = "iterating" /\ name \notin Taken(registry) /\ Admits(registry, cap)
      /\ UNCHANGED <<disk, ended, turns, abort, runner, held, faults>>
  BY DEF Spawn
<1>2. PICK i \in Sessions :
        Makes(i, cap) /\ registry' = [registry EXCEPT ![name] = NewEntry(i, cap, MaxRespawns)]
  BY DEF Spawn
<1>3. tasks' = [tasks EXCEPT ![name] = IF tasks[name] = "none" THEN "ready" ELSE @]
  BY DEF Spawn, Schedules
<1>4. /\ Core(sessions, registry, tasks) /\ sessions \in Files /\ tasks \in Drivers
      /\ Driven(tasks, registry) /\ faults \in 0..MaxFaults /\ Owned(registry) = MadeIn(sessions)
      /\ Booked(sessions, registry, registry) /\ Numbered(sessions)
  BY <1>1 DEF SwarmInv, Core, RestTyped, BooksInv, Made, MadeIn
<1>5. name \in Slots /\ name \notin Sessions /\ name \notin Live(registry)
  BY <1>1, RailsAssumption DEF Sessions, Slots, Live
<1>6. tasks[name] = "none"
  BY <1>1, <1>4, <1>5 DEF Driven, DrivenAt
<1>7. tasks' \in Drivers /\ tasks'[name] = "ready" /\ \A q \in Slots \ {name} : tasks'[q] = tasks[q]
  BY <1>3, <1>4, <1>5, <1>6 DEF Drivers
<1>8. i = Cardinality(MadeIn(sessions)) + 1 /\ Opens(sessions, sessions', i, cap) /\ dirty' = TRUE
  BY <1>2 DEF Makes, Opens, Made, MadeIn
<1>9. Gets(registry, registry', name, i, cap)
  <2>1. registry \in [Slots -> Entries] /\ registry[name] = Vacant
    BY <1>1, <1>4, <1>5, BookEntries, BookTyped
  <2>2. registry[name].consumed = 0
    BY <2>1 DEF Vacant
  <2>3. NewEntry(i, cap, MaxRespawns) \in Entries
    BY DEF NewEntry, Entries
  <2>4. registry'[name] = NewEntry(i, cap, MaxRespawns)
        /\ registry' \in [Slots -> Entries] /\ \A q \in Slots \ {name} : registry'[q] = registry[q]
    BY <1>2, <1>5, <2>1, <2>3
  <2> QED BY <1>1, <2>2, <2>4 DEF Gets, NewEntry
<1>10. Cardinality(Live(registry)) < MaxChildren /\ Charged(registry) + cap <= Pool
  BY <1>1 DEF Admits
<1>11. /\ Core(sessions', registry', tasks') /\ Onward(sessions, registry, sessions', registry')
       /\ Owned(registry') = MadeIn(sessions')
  BY <1>4, <1>5, <1>6, <1>7, <1>8, <1>9, <1>10, CoreGrows DEF Driven
<1> QED BY <1>1, <1>4, <1>8, <1>11, Keeping DEF Driving

-----------------------------------------------------------------------------
(* The steps of the runner                                                 *)

(* Its registry is dropped, or its drivers are, and no file changes. *)
LEMMA CoreRests ==
  ASSUME NEW f \in Files, NEW g, NEW t, Core(f, g, t),
         NEW k, Booked(f, k, k), NEW u \in Drivers, Driven(u, k),
         \A s \in Slots : u[s] # "iterating"
  PROVE  Core(f, k, u)
<1>1. \A i \in MadeIn(f) : Up(f, k, u, i) => Up(f, g, t, i)
  BY DEF Up
<1>2. Within(f, k, u)
  BY <1>1, WithinStays DEF Core
<1> QED BY <1>2 DEF Core

LEMMA Idle ==
  /\ NoTasks \in Drivers /\ \A s \in Slots : NoTasks[s] = "none"
  /\ \A g : Driven(NoTasks, g)
BY DEF NoTasks, Drivers, Driven, DrivenAt

LEMMA StartKeeps == ASSUME SwarmInv, Start PROVE SwarmInv'
<1>1. /\ runner = "down" /\ ~ended /\ registry' = Adopted(disk) /\ disk' = registry'
      /\ dirty' = FALSE /\ runner' = "checking"
      /\ tasks' = [s \in Slots |-> IF s \in Live(registry') THEN "ready" ELSE "none"]
      /\ UNCHANGED <<sessions, ended, turns, abort, held, faults>>
  BY DEF Start
<1>2. /\ Core(sessions, registry, tasks) /\ sessions \in Files /\ registry = Empty
      /\ Booked(sessions, Empty, disk) /\ Numbered(sessions) /\ RestTyped
  BY <1>1 DEF SwarmInv, Core, BooksInv, RunnerOK
<1>3. registry' = [s \in Slots |-> IF s \in MadeIn(sessions) \ Owned(disk)
                                   THEN NewEntry(s, sessions[s].cap, 0) ELSE disk[s]]
  BY <1>1 DEF Adopted, Made, MadeIn
<1>4. Booked(sessions, registry', registry') /\ Owned(registry') = MadeIn(sessions)
  BY <1>2, <1>3, Adopting
<1>5. tasks' \in Drivers /\ Driven(tasks', registry') /\ \A s \in Slots : tasks'[s] # "iterating"
  BY <1>1 DEF Drivers, Driven, DrivenAt
<1>6. Core(sessions, registry', tasks')
  BY <1>2, <1>4, <1>5, CoreRests
<1>7. RestTyped'
  BY <1>1, <1>2, <1>4 DEF RestTyped, Booked
<1>8. RunnerOK'
  BY <1>1 DEF SwarmInv, RunnerOK, Driving
<1>9. BooksInv'
  BY <1>1, <1>4 DEF BooksInv, Written, Made, MadeIn
<1>10. Core(sessions, registry, tasks)'
  BY <1>1, <1>6
<1> QED BY <1>7, <1>8, <1>9, <1>10 DEF SwarmInv

LEMMA TurnKeeps == ASSUME SwarmInv, Turn PROVE SwarmInv'
<1>1. /\ runner = "waiting" /\ ~ended /\ runner' = "iterating" /\ held' = disk
      /\ UNCHANGED <<sessions, disk, ended, turns, abort, registry, dirty, tasks, faults>>
  BY DEF Turn
<1>2. RestTyped'
  BY <1>1 DEF SwarmInv, RestTyped
<1>3. RunnerOK'
  BY <1>1 DEF SwarmInv, RunnerOK, Driving
<1>4. BooksInv'
  BY <1>1 DEF SwarmInv, BooksInv, Written, Made
<1>5. Core(sessions, registry, tasks)'
  BY <1>1 DEF SwarmInv
<1> QED BY <1>2, <1>3, <1>4, <1>5 DEF SwarmInv

LEMMA ProceedKeeps == ASSUME SwarmInv, Proceed PROVE SwarmInv'
<1>1. /\ runner = "checking" /\ ~ended /\ runner' = "waiting"
      /\ UNCHANGED <<sessions, disk, ended, turns, abort, held, registry, dirty, tasks, faults>>
  BY DEF Proceed
<1>2. RestTyped'
  BY <1>1 DEF SwarmInv, RestTyped
<1>3. RunnerOK'
  BY <1>1 DEF SwarmInv, RunnerOK, Driving
<1>4. BooksInv'
  BY <1>1 DEF SwarmInv, BooksInv, Written, Made
<1>5. Core(sessions, registry, tasks)'
  BY <1>1 DEF SwarmInv
<1> QED BY <1>2, <1>3, <1>4, <1>5 DEF SwarmInv

LEMMA StandDownKeeps == ASSUME SwarmInv, StandDown PROVE SwarmInv'
<1>1. /\ runner = "checking" /\ ended /\ runner' = "cascade" /\ tasks' = NoTasks
      /\ UNCHANGED <<sessions, disk, ended, turns, abort, held, registry, dirty, faults>>
  BY DEF StandDown
<1>2. RestTyped'
  BY <1>1 DEF SwarmInv, RestTyped
<1>3. RunnerOK'
  BY <1>1 DEF SwarmInv, RunnerOK, Driving
<1>4. BooksInv'
  BY <1>1 DEF SwarmInv, BooksInv, Written, Made
<1>5. Core(sessions, registry, NoTasks)
  BY Idle, CoreRests DEF SwarmInv, Core
<1>6. Core(sessions, registry, tasks)'
  BY <1>1, <1>5
<1> QED BY <1>2, <1>3, <1>4, <1>6 DEF SwarmInv

LEMMA SaveTurnKeeps == ASSUME SwarmInv, SaveTurn PROVE SwarmInv'
<1>1. /\ runner = "iterating" /\ disk' = held /\ ended' = FALSE
      /\ turns' = Least(turns + 1, MaxTurns)
      /\ UNCHANGED <<sessions, abort, held, registry, dirty, tasks, faults>>
  BY DEF SaveTurn
<1>2. runner' \in {"finalising", "flushing"}
  BY DEF SaveTurn
<1>3. turns' \in 0..MaxTurns
  <2>1. turns \in 0..MaxTurns /\ MaxTurns \in Nat
    BY RailsAssumption DEF SwarmInv, RestTyped
  <2> QED BY <1>1, <2>1 DEF Least
<1>4. RestTyped'
  BY <1>1, <1>2, <1>3 DEF SwarmInv, RestTyped
<1>5. RunnerOK'
  BY <1>1, <1>2 DEF SwarmInv, RunnerOK, Driving
<1>6. BooksInv'
  BY <1>1, <1>2 DEF SwarmInv, BooksInv, Written, Made
<1>7. Core(sessions, registry, tasks)'
  BY <1>1 DEF SwarmInv
<1> QED BY <1>4, <1>5, <1>6, <1>7 DEF SwarmInv

LEMMA FinaliseTurnKeeps == ASSUME SwarmInv, FinaliseTurn PROVE SwarmInv'
<1>1. /\ runner = "finalising" /\ disk' = held /\ ended' = TRUE /\ runner' = "over"
      /\ UNCHANGED <<sessions, turns, abort, held, registry, dirty, tasks, faults>>
  BY DEF FinaliseTurn
<1>2. RestTyped'
  BY <1>1 DEF SwarmInv, RestTyped
<1>3. RunnerOK'
  BY <1>1 DEF SwarmInv, RunnerOK, Driving
<1>4. BooksInv'
  BY <1>1 DEF SwarmInv, BooksInv, Written, Made
<1>5. Core(sessions, registry, tasks)'
  BY <1>1 DEF SwarmInv
<1> QED BY <1>2, <1>3, <1>4, <1>5 DEF SwarmInv

LEMMA FlushKeeps == ASSUME SwarmInv, Flush PROVE SwarmInv'
<1>1. /\ runner \in {"flushing", "over"} /\ disk' = (IF dirty THEN registry ELSE disk)
      /\ dirty' = FALSE
      /\ \/ runner = "over" /\ runner' = "cascade" /\ tasks' = NoTasks
         \/ runner = "flushing" /\ runner' = "checking" /\ tasks' = tasks
      /\ UNCHANGED <<sessions, ended, turns, abort, held, registry, faults>>
  BY DEF Flush, Flushed
<1>2. Core(sessions, registry, tasks) /\ Booked(sessions, registry, registry)
  BY DEF SwarmInv, Core
<1>3. RestTyped'
  BY <1>1, <1>2 DEF SwarmInv, RestTyped, Booked
<1>4. RunnerOK'
  BY <1>1 DEF SwarmInv, RunnerOK, Driving
<1>5. BooksInv'
  <2>1. CASE dirty
    <3>1. Written(disk)' /\ (~ended => Booked(sessions, registry, disk'))
      BY <1>1, <1>2, <2>1 DEF Written
    <3> QED BY <1>1, <3>1 DEF SwarmInv, BooksInv, Made
  <2>2. CASE ~dirty
    <3>1. disk' = disk /\ (Written(disk) => Written(disk)')
      BY <1>1, <2>2 DEF Written
    <3>2. Live(disk)' = Live(disk)
      BY <3>1 DEF Live, Taken
    <3> QED BY <1>1, <3>1, <3>2 DEF SwarmInv, BooksInv, Made
  <2> QED BY <2>1, <2>2 DEF SwarmInv, RestTyped
<1>6. Core(sessions, registry, tasks')
  BY <1>1, <1>2, Idle, CoreRests DEF Core
<1>7. Core(sessions, registry, tasks)'
  BY <1>1, <1>6
<1> QED BY <1>3, <1>4, <1>5, <1>7 DEF SwarmInv

(* The runner is gone. *)
LEMMA StopsKeeps ==
  ASSUME SwarmInv, Stops, UNCHANGED sessions, faults' = faults \/ Spend,
         disk' \in Registries, ended' \in BOOLEAN, ended => ended',
         ~ended' => Booked(sessions, registry, disk')
  PROVE  SwarmInv'
<1>1. /\ runner' = "down" /\ tasks' = NoTasks /\ registry' = Empty /\ held' = Empty
      /\ dirty' = FALSE /\ UNCHANGED <<turns, abort>>
  BY DEF Stops
<1>2. Core(sessions, registry, tasks) /\ sessions \in Files
  BY DEF SwarmInv, Core
<1>3. faults' \in 0..MaxFaults
  BY RailsAssumption DEF SwarmInv, RestTyped, Spend
<1>4. RestTyped'
  BY <1>1, <1>3, Empties DEF SwarmInv, RestTyped
<1>5. RunnerOK'
  BY <1>1 DEF SwarmInv, RunnerOK, Driving
<1>6. ~ended' => Booked(sessions, Empty, disk')
  BY <1>2, Emptying, BooksStay
<1>7. BooksInv'
  BY <1>1, <1>6 DEF BooksInv
<1>8. Core(sessions, Empty, NoTasks)
  BY <1>2, Idle, Empties, CoreRests
<1>9. Core(sessions, registry, tasks)'
  BY <1>1, <1>8
<1> QED BY <1>4, <1>5, <1>7, <1>9 DEF SwarmInv

(* It flushes its books a last time. *)
LEMMA LastFlushKeeps ==
  ASSUME SwarmInv, LastFlush, Stops, UNCHANGED <<sessions, ended>>, faults' = faults \/ Spend
  PROVE  SwarmInv'
<1>1. /\ Booked(sessions, registry, registry) /\ disk \in Registries /\ ended \in BOOLEAN
      /\ ~ended => Booked(sessions, registry, disk)
  BY DEF SwarmInv, Core, BooksInv, RestTyped
<1>2. disk' \in Registries /\ (~ended => Booked(sessions, registry, disk'))
  BY <1>1 DEF Booked, LastFlush
<1> QED BY <1>1, <1>2, StopsKeeps

LEMMA DetachKeeps == ASSUME SwarmInv, Detach PROVE SwarmInv'
BY LastFlushKeeps DEF Detach

LEMMA RefuseTurnKeeps == ASSUME SwarmInv, RefuseTurn PROVE SwarmInv'
BY LastFlushKeeps DEF RefuseTurn

LEMMA FailTurnKeeps == ASSUME SwarmInv, FailTurn PROVE SwarmInv'
<1>1. /\ Stops /\ Spend /\ UNCHANGED sessions /\ ended' = TRUE
      /\ disk' = (IF dirty THEN registry ELSE held)
  BY DEF FailTurn
<1>2. registry \in Registries /\ held \in Registries
  BY DEF SwarmInv, Core, Booked, RestTyped
<1>3. disk' \in Registries
  BY <1>1, <1>2
<1> QED BY <1>1, <1>3, StopsKeeps

LEMMA CrashKeeps == ASSUME SwarmInv, Crash PROVE SwarmInv'
<1>1. Stops /\ Spend /\ UNCHANGED <<sessions, disk, ended>>
  BY DEF Crash
<1>2. /\ disk \in Registries /\ ended \in BOOLEAN
      /\ ~ended => Booked(sessions, registry, disk)
  BY DEF SwarmInv, BooksInv, RestTyped
<1> QED BY <1>1, <1>2, StopsKeeps

LEMMA EndCascadeKeeps == ASSUME SwarmInv, EndCascade PROVE SwarmInv'
<1>1. /\ runner = "cascade" /\ Live(registry) = {} /\ disk' = (IF dirty THEN registry ELSE disk)
      /\ dirty' = FALSE /\ runner' = "done"
      /\ UNCHANGED <<sessions, ended, turns, abort, held, registry, tasks, faults>>
  BY DEF EndCascade, Flushed
<1>2. /\ Core(sessions, registry, tasks) /\ Booked(sessions, registry, registry)
      /\ registry \in [Slots -> Entries] /\ disk \in [Slots -> Entries]
  BY BookEntries DEF SwarmInv, Core, RestTyped
<1>3. disk' \in Registries /\ Live(disk') = {}
  <2>1. ASSUME ~dirty, Written(disk) PROVE disk = registry
    <3>1. \A s \in Slots : registry[s].settled
      BY <1>1, <1>2, BookTyped
    <3>2. \A s \in Slots : disk[s] = registry[s]
      BY <2>1, <3>1 DEF Written
    <3> QED BY <1>2, <3>2
  <2>2. ~dirty => Live(disk) = {}
    BY <1>1, <2>1 DEF SwarmInv, BooksInv
  <2> QED BY <1>1, <1>2, <2>2, BookEntries
<1>4. RestTyped'
  BY <1>1, <1>3 DEF SwarmInv, RestTyped
<1>5. RunnerOK'
  BY <1>1 DEF SwarmInv, RunnerOK, Driving
<1>6. BooksInv'
  <2>1. ended /\ Owned(registry) = Made
    BY <1>1 DEF SwarmInv, RunnerOK, BooksInv
  <2>2. Live(disk)' = {} /\ Live(registry)' = {}
    BY <1>1, <1>3 DEF Live, Taken
  <2> QED BY <1>1, <2>1, <2>2 DEF BooksInv, Made
<1>7. Core(sessions, registry, tasks)'
  BY <1>1, <1>2
<1> QED BY <1>4, <1>5, <1>6, <1>7 DEF SwarmInv

-----------------------------------------------------------------------------
(* The steps of an abort from outside                                      *)

(* What it does to its own books. *)
LEMMA AbortElsewhere ==
  ASSUME SwarmInv, abort' \in [on: BOOLEAN, books: Registries, calls: 0..MaxAborts],
         UNCHANGED <<sessions, disk, ended, turns, runner, held, registry, dirty, tasks>>,
         faults' = faults \/ Spend
  PROVE  SwarmInv'
<1>1. faults' \in 0..MaxFaults
  BY RailsAssumption DEF SwarmInv, RestTyped, Spend
<1>2. RestTyped'
  BY <1>1 DEF SwarmInv, RestTyped
<1>3. RunnerOK'
  BY DEF SwarmInv, RunnerOK, Driving
<1>4. BooksInv'
  BY DEF SwarmInv, BooksInv, Written, Made
<1>5. Core(sessions, registry, tasks)'
  BY DEF SwarmInv
<1> QED BY <1>2, <1>3, <1>4, <1>5 DEF SwarmInv

LEMMA AbortBeginsKeeps == ASSUME SwarmInv, AbortBegins PROVE SwarmInv'
<1>1. /\ abort.calls < MaxAborts
      /\ abort' = [on |-> TRUE, books |-> disk, calls |-> abort.calls + 1]
      /\ UNCHANGED <<sessions, disk, ended, turns, runner, held, registry, dirty, tasks, faults>>
  BY DEF AbortBegins
<1>2. abort' \in [on: BOOLEAN, books: Registries, calls: 0..MaxAborts]
  <2>1. abort.calls \in 0..MaxAborts /\ MaxAborts \in Nat /\ disk \in Registries
    BY RailsAssumption DEF SwarmInv, RestTyped
  <2>2. abort.calls + 1 \in 0..MaxAborts
    BY <1>1, <2>1
  <2> QED BY <1>1, <2>1, <2>2
<1> QED BY <1>1, <1>2, AbortElsewhere

LEMMA AbortStopped ==
  ASSUME SwarmInv, AbortStops
  PROVE  abort' \in [on: BOOLEAN, books: Registries, calls: 0..MaxAborts]
<1>1. abort \in [on: BOOLEAN, books: Registries, calls: 0..MaxAborts]
  BY DEF SwarmInv, RestTyped
<1> QED BY <1>1, Empties DEF AbortStops

LEMMA AbortDiesKeeps == ASSUME SwarmInv, AbortDies PROVE SwarmInv'
BY AbortStopped, AbortElsewhere DEF AbortDies

(* A child's file is closed if it is open, whosever it is. *)
LEMMA AbortClosesKeeps == ASSUME SwarmInv, NEW s \in Slots, AbortCloses(s) PROVE SwarmInv'
<1> DEFINE i == abort.books[s].session
<1>1. /\ s \in Live(abort.books) /\ sessions' = Terminated(i)
      /\ abort' = [abort EXCEPT !.books[s] = Settled(abort.books[s], sessions[i].iters)]
      /\ UNCHANGED <<disk, ended, turns, runner, held, registry, dirty, tasks, faults>>
  BY DEF AbortCloses
<1>2. /\ Core(sessions, registry, tasks) /\ sessions \in Files /\ tasks \in Drivers
      /\ Driven(tasks, registry) /\ RestTyped
      /\ abort \in [on: BOOLEAN, books: [Slots -> Entries], calls: 0..MaxAborts]
  BY BookEntries DEF SwarmInv, Core, RestTyped
<1>3. i \in Sessions /\ abort.books[s] \in Entries
  <2>1. abort.books[s] \in Entries /\ i # NoSession
    BY <1>1, <1>2 DEF Live, Taken
  <2> QED BY <2>1 DEF Entries
<1>4. sessions[i].iters \in Nat
  BY <1>2, <1>3, FileTyped
<1> HIDE DEF i
<1>5. /\ sessions' \in Files
      /\ \A j \in Sessions :
           /\ sessions'[j].iters = sessions[j].iters /\ sessions'[j].cap = sessions[j].cap
           /\ sessions'[j].state = "open" => sessions[j].state = "open"
           /\ sessions'[j] # sessions[j] =>
                sessions[j].state = "open" /\ sessions'[j].state = "unmet"
  <2>1. sessions' = [sessions EXCEPT ![i].state =
                       IF sessions[i].state = "open" THEN "unmet" ELSE sessions[i].state]
    BY <1>1 DEF Terminated
  <2>2. CASE sessions[i].state = "open"
    BY <1>2, <1>3, <2>1, <2>2 DEF Files
  <2>3. CASE sessions[i].state # "open"
    <3>1. sessions' = sessions
      BY <1>2, <1>3, <2>1, <2>3 DEF Files
    <3> QED BY <1>2, <3>1
  <2> QED BY <2>2, <2>3
<1>6. \A j \in Sessions : sessions'[j] # sessions[j] =>
        /\ j \in MadeIn(sessions) /\ j \in MadeIn(sessions') /\ ~Past(sessions, registry, j)
        /\ sessions'[j].cap = sessions[j].cap
  BY <1>5 DEF MadeIn, Past
<1>7. \A j \in MadeIn(sessions) :
        /\ Up(sessions', registry, tasks, j) => Up(sessions, registry, tasks, j)
        /\ ~Up(sessions, registry, tasks, j) => sessions'[j].iters = sessions[j].iters
  BY <1>5, Finite DEF Up
<1>8. /\ Core(sessions', registry, tasks) /\ Onward(sessions, registry, sessions', registry)
      /\ MadeIn(sessions') = MadeIn(sessions)
  BY <1>2, <1>5, <1>6, <1>7, CoreTouches
<1>9. abort' \in [on: BOOLEAN, books: [Slots -> Entries], calls: 0..MaxAborts]
  <2> DEFINE e == abort.books[s]
             n == Least(sessions[i].iters, e.reserved)
  <2>1. e.reserved \in Nat /\ e.consumed \in Nat
    <3>1. e.reserved \in Caps \union {0} /\ e.consumed \in Nat
      BY <1>3 DEF Entries
    <3> QED BY <3>1, CapsTyped
  <2>2. n \in Nat
    BY <1>4, <2>1, LeastType
  <2>3. Settled(e, sessions[i].iters)
          \in {e, [e EXCEPT !.consumed = e.consumed + n, !.reserved = 0, !.settled = TRUE]}
    BY DEF Settled
  <2>4. e \in Entries /\ e.consumed + n \in Nat
    BY <1>3, <2>1, <2>2
  <2> HIDE DEF e, n
  <2>5. [e EXCEPT !.consumed = e.consumed + n, !.reserved = 0, !.settled = TRUE] \in Entries
    BY <2>4 DEF Entries
  <2>6. Settled(e, sessions[i].iters) \in Entries
    BY <2>3, <2>4, <2>5
  <2> QED BY <1>1, <1>2, <2>6 DEF e
<1>10. RestTyped'
  BY <1>1, <1>2, <1>9, BookEntries DEF RestTyped
<1>11. RunnerOK'
  BY <1>1 DEF SwarmInv, RunnerOK, Driving
<1>12. \A r : Booked(sessions, registry, r) => Booked(sessions', registry, r)
  BY <1>2, <1>5, <1>8, BooksStay
<1>13. BooksInv'
  <2>1. Made' = Made
    BY <1>8 DEF Made, MadeIn
  <2>2. Written(disk)' = Written(disk) /\ Written(held)' = Written(held)
    BY <1>1 DEF Written
  <2> QED BY <1>1, <1>12, <2>1, <2>2 DEF SwarmInv, BooksInv
<1>14. Core(sessions, registry, tasks)'
  BY <1>1, <1>8
<1> QED BY <1>10, <1>11, <1>13, <1>14 DEF SwarmInv

LEMMA AbortEndsKeeps == ASSUME SwarmInv, AbortEnds PROVE SwarmInv'
<1>1. /\ Live(abort.books) = {} /\ disk' = abort.books /\ ended' = TRUE /\ AbortStops
      /\ UNCHANGED <<sessions, turns, runner, held, registry, dirty, tasks, faults>>
  BY DEF AbortEnds
<1>2. abort.books \in Registries
  BY DEF SwarmInv, RestTyped
<1>3. RestTyped'
  BY <1>1, <1>2, AbortStopped DEF SwarmInv, RestTyped
<1>4. RunnerOK'
  BY <1>1 DEF SwarmInv, RunnerOK, Driving
<1>5. BooksInv'
  <2>1. Live(disk)' = {} /\ Live(registry)' = Live(registry)
    BY <1>1 DEF Live, Taken
  <2>2. Written(held)' = Written(held) /\ Made' = Made
    BY <1>1 DEF Written, Made
  <2> QED BY <1>1, <2>1, <2>2 DEF SwarmInv, BooksInv
<1>6. Core(sessions, registry, tasks)'
  BY <1>1 DEF SwarmInv
<1> QED BY <1>3, <1>4, <1>5, <1>6 DEF SwarmInv

-----------------------------------------------------------------------------
LEMMA SwarmNext == ASSUME SwarmInv, [Next]_swarmVars PROVE SwarmInv'
<1>1. CASE Next
  BY <1>1, StartKeeps, ProceedKeeps, StandDownKeeps, TurnKeeps, SaveTurnKeeps, FinaliseTurnKeeps,
     FlushKeeps, DetachKeeps, RefuseTurnKeeps, FailTurnKeeps, CrashKeeps, CascadeChildKeeps, EndCascadeKeeps, SpawnKeeps, AbortChildKeeps,
     QueueKeeps, BeginIterationKeeps, SaveIterationKeeps, FinaliseIterationKeeps,
     FailIterationKeeps, EndDriverKeeps, ReviseKeeps, AbortBeginsKeeps, AbortClosesKeeps, AbortEndsKeeps,
     AbortDiesKeeps DEF Next
<1>2. CASE UNCHANGED swarmVars
  <2>1. UNCHANGED <<sessions, disk, ended, turns, abort, runner, held, registry, dirty, tasks,
                    faults>>
    BY <1>2 DEF swarmVars
  <2>2. Core(sessions, registry, tasks)' /\ RestTyped' /\ RunnerOK' /\ BooksInv'
    BY <2>1 DEF SwarmInv, RestTyped, RunnerOK, Driving, BooksInv, Written, Made
  <2> QED BY <2>2 DEF SwarmInv
<1> QED BY <1>1, <1>2

(* Every reachable state of a swarm satisfies the invariant. *)
THEOREM SwarmInvariant == Spec => []SwarmInv
<1>1. SwarmInv /\ [Next]_swarmVars => SwarmInv'
  BY SwarmNext
<1> QED BY <1>1, SwarmInit, PTL DEF Spec

(* Sessions, slots and drivers keep their types, the runner's books and    *)
(* those of the file alike (swarm.py: SwarmChild, SwarmState).             *)
THEOREM SwarmTypeCorrect == Spec => []TypeOK
BY SwarmInvariant, SwarmTypes, PTL

(* However the runner crashed, resumed, respawned a child or was aborted   *)
(* from outside, the children hold no more of the iteration pool than      *)
(* there is, and no more of them are open than max_children                *)
(* (swarm_runner.py: the rails that spawns and respawns are admitted by).  *)
THEOREM SwarmLimits == Spec => []LimitsHold
<1>1. ASSUME SwarmInv PROVE LimitsHold
  <2> DEFINE F == Reach(sessions, registry, tasks)
             V == Holdings
             A == {i \in Made : Up(sessions, registry, tasks, i)}
             B == {i \in Made : Open(i)}
  <2>1. /\ sessions \in Files /\ Within(sessions, registry, tasks) /\ Made = MadeIn(sessions)
        /\ Made \subseteq Sessions /\ IsFiniteSet(Made)
    BY <1>1, Finite DEF SwarmInv, Core, Made, MadeIn
  <2>2. ASSUME NEW i \in Made PROVE F[i] \in Nat /\ V[i] \in Nat /\ V[i] <= F[i]
    <3>1. /\ i \in Sessions /\ sessions[i].cap \in Nat
          /\ Least(sessions[i].iters, sessions[i].cap) \in Nat
          /\ Least(sessions[i].iters, sessions[i].cap) <= sessions[i].cap
      BY <2>1, FileTyped
    <3>2. F[i] = IF Up(sessions, registry, tasks, i) THEN sessions[i].cap
                 ELSE Least(sessions[i].iters, sessions[i].cap)
      BY <3>1 DEF Reach
    <3>3. V[i] = IF Open(i) THEN sessions[i].cap ELSE Least(sessions[i].iters, sessions[i].cap)
      BY <3>1 DEF Holdings
    <3>4. Open(i) => Up(sessions, registry, tasks, i)
      BY DEF Open, Up
    <3> HIDE DEF F, V
    <3> QED BY <3>1, <3>2, <3>3, <3>4
  <2>3. SumFunctionOnSet(F, Made) <= Pool /\ Cardinality(A) <= MaxChildren
    BY <2>1 DEF Within
  <2>4. IsFiniteSet(A) /\ B \subseteq A
    BY <2>1, FS_Subset DEF Open, Up
  <2>5. /\ Cardinality(B) <= Cardinality(A) /\ Cardinality(A) \in Nat /\ Cardinality(B) \in Nat
    BY <2>4, FS_Subset, FS_CardinalityType
  <2> HIDE DEF F, V, A, B
  <2>6. SumFunctionOnSet(V, Made) <= SumFunctionOnSet(F, Made)
    BY <2>1, <2>2, SumLeq
  <2>7. SumFunctionOnSet(V, Made) \in Nat /\ SumFunctionOnSet(F, Made) \in Nat
    BY <2>1, <2>2, SumType
  <2>8. Pool \in Nat /\ MaxChildren \in Nat
    BY RailsAssumption
  <2>9. SumFunctionOnSet(V, Made) <= Pool /\ Cardinality(B) <= MaxChildren
    BY <2>3, <2>5, <2>6, <2>7, <2>8
  <2> QED BY <2>9 DEF LimitsHold, V, B
<1> QED BY <1>1, SwarmInvariant, PTL

(* A runner at work owns every session that was ever made, each in one     *)
(* slot, and a slot is charged for exactly what its closed sessions        *)
(* recorded (swarm_runner.py: adoption of orphans, settlement, lineage).   *)
THEOREM SwarmAccounts == Spec => []AccountsAgree
<1>1. ASSUME SwarmInv PROVE AccountsAgree
  <2>1. Booked(sessions, registry, registry) /\ (Driving => Owned(registry) = Made)
    BY <1>1 DEF SwarmInv, Core, BooksInv, Driving
  <2>2. Holdings = ValueIn(sessions)
    BY DEF Holdings, ValueIn, Open
  <2>3. \A s \in Taken(registry) :
          registry[s].consumed = SumFunctionOnSet(ValueIn(sessions), Closed(registry[s]))
    BY <2>1, Finite DEF Booked, Correct
  <2>4. \A s, q \in Taken(registry) :
          s # q => Own(registry[s]) \intersect Own(registry[q]) = {}
    BY <2>1 DEF Booked
  <2> QED BY <2>1, <2>2, <2>3, <2>4 DEF AccountsAgree
<1> QED BY <1>1, SwarmInvariant, PTL

(* A runner that came to the end of its cascade left no session open and   *)
(* no slot unsettled, in its books and in the file, whatever an abort from *)
(* outside closed, saved or left out beside it (swarm_runner.py:           *)
(* _cascade_shutdown, abort_swarm).                                        *)
THEOREM SwarmCleanEnd == Spec => []CleanEnd
<1>1. ASSUME SwarmInv, runner = "done"
      PROVE  /\ ended /\ \A i \in Made : ~Open(i)
             /\ Live(registry) = {} /\ Live(disk) = {}
  <2>1. /\ ended /\ Owned(registry) = Made /\ Live(registry) = {} /\ Live(disk) = {}
        /\ Booked(sessions, registry, registry)
    BY <1>1 DEF SwarmInv, Core, BooksInv, RunnerOK
  <2>2. ASSUME NEW i \in Made PROVE ~Open(i)
    <3>1. PICK s \in Taken(registry) : i \in Own(registry[s])
      BY <2>1 DEF Owned
    <3>2. Closed(registry[s]) = Own(registry[s])
      BY <2>1 DEF Closed, Live
    <3>3. Past(sessions, registry, i)
      BY <2>1, <3>1, <3>2, Finite DEF Booked, Correct
    <3> QED BY <3>3 DEF Past, Open
  <2> QED BY <2>1, <2>2
<1>2. SwarmInv => CleanEnd
  BY <1>1 DEF CleanEnd
<1> QED BY <1>2, SwarmInvariant, PTL
=============================================================================
