------------------------------ MODULE SumTheorems ------------------------------
(***************************************************************************)
(* Sums of integers over finite sets: what the proofs about used minutes   *)
(* need to know of SumFunctionOnSet, which agentd's modules use for        *)
(* SELECT SUM(duration_s) and for the loops over the active sessions.      *)
(***************************************************************************)
EXTENDS Integers, FiniteSets, Functions, FiniteSetTheorems, WellFoundedInduction, TLAPS

(* Induction over the naturals, for a set. *)
LEMMA NatInduct ==
  ASSUME NEW S \in SUBSET Nat, 0 \in S, \A n \in S : n + 1 \in S
  PROVE  S = Nat
<1> DEFINE R == OpToRel(<, Nat)
           Rest == Nat \ S
<1> SUFFICES ASSUME Rest # {} PROVE FALSE
  OBVIOUS
<1>1. PICK m \in Rest : \A k \in Rest : ~(<<k, m>> \in R)
  <2>1. IsWellFoundedOn(R, Nat)
    BY NatLessThanWellFounded, Zenon DEF R
  <2> HIDE DEF R
  <2> QED BY <2>1, WFMin
<1>2. \A k \in Rest : ~(k < m)
  <2>1. ASSUME NEW k \in Rest, k < m PROVE <<k, m>> \in R
    BY <2>1, Zenon DEF OpToRel
  <2> QED BY <1>1, <2>1
<1>3. m \in Nat /\ m \notin S /\ m # 0
  OBVIOUS
<1>4. m - 1 \in Nat /\ m - 1 < m /\ (m - 1) + 1 = m
  BY <1>3
<1> HIDE DEF R
<1>5. m - 1 \in S
  BY <1>2, <1>4
<1> QED BY <1>3, <1>4, <1>5

(* Induction over the subsets of a finite set: a family that holds the     *)
(* empty set, and a set whenever it holds it without any one of its        *)
(* elements, holds them all.                                               *)
LEMMA FiniteInduct ==
  ASSUME NEW S, IsFiniteSet(S), NEW Good, {} \in Good,
         \A T \in SUBSET S : T # {} /\ (\A x \in T : T \ {x} \in Good) => T \in Good
  PROVE  SUBSET S \subseteq Good
<1> DEFINE Sizes == {n \in Nat : \A T \in SUBSET S : Cardinality(T) = n => T \in Good}
<1>1. \A T \in SUBSET S : IsFiniteSet(T) /\ Cardinality(T) \in Nat
  BY FS_Subset, FS_CardinalityType
<1>2. 0 \in Sizes
  <2>1. \A T \in SUBSET S : Cardinality(T) = 0 => T = {}
    BY <1>1, FS_EmptySet
  <2> QED BY <2>1
<1>3. ASSUME NEW n \in Sizes PROVE n + 1 \in Sizes
  <2>1. ASSUME NEW T \in SUBSET S, Cardinality(T) = n + 1 PROVE T \in Good
    <3>1. T # {}
      BY <1>1, <2>1, FS_EmptySet
    <3>2. ASSUME NEW x \in T PROVE T \ {x} \in Good
      <4>1. Cardinality(T \ {x}) = n /\ T \ {x} \in SUBSET S
        BY <1>1, <2>1, FS_RemoveElement
      <4> QED BY <4>1
    <3> QED BY <3>1, <3>2
  <2> QED BY <2>1
<1>4. Sizes = Nat
  <2> HIDE DEF Sizes
  <2>1. Sizes \subseteq Nat
    BY DEF Sizes
  <2> QED BY <1>2, <1>3, <2>1, NatInduct
<1> QED BY <1>1, <1>4

-----------------------------------------------------------------------------
(* The element that a fold takes first, and the equation it solves. *)
First(T) == CHOOSE x \in T : TRUE

Unfolds(it, f, T) == it[T] = IF T = {} THEN 0 ELSE f[First(T)] + it[T \ {First(T)}]

Solves(it, f, S) ==
  it = [T \in SUBSET S |-> IF T = {} THEN 0 ELSE f[First(T)] + it[T \ {First(T)}]]

(* The equation has a solution: one that is right up to a size is right up *)
(* to the next when it is unfolded once more.                              *)
LEMMA Solvable ==
  ASSUME NEW f, NEW S, IsFiniteSet(S)
  PROVE  \E it : Solves(it, f, S)
<1> DEFINE RightTo(it, n) ==
             /\ it = [T \in SUBSET S |-> it[T]]
             /\ \A T \in SUBSET S : Cardinality(T) <= n => Unfolds(it, f, T)
           Sizes == {n \in Nat : \E it : RightTo(it, n)}
<1>1. \A T \in SUBSET S : IsFiniteSet(T) /\ Cardinality(T) \in Nat
                          /\ Cardinality(T) <= Cardinality(S)
  BY FS_Subset, FS_CardinalityType
<1>2. 0 \in Sizes
  <2> DEFINE zero == [T \in SUBSET S |-> 0]
  <2>1. \A T \in SUBSET S : Cardinality(T) <= 0 => T = {}
    BY <1>1, FS_EmptySet
  <2>2. RightTo(zero, 0)
    BY <2>1 DEF Unfolds
  <2> QED BY <2>2
<1>3. ASSUME NEW n \in Sizes PROVE n + 1 \in Sizes
  <2>1. PICK it : RightTo(it, n)
    OBVIOUS
  <2> DEFINE next == [T \in SUBSET S |-> IF T = {} THEN 0 ELSE f[First(T)] + it[T \ {First(T)}]]
  <2>2. \A T \in SUBSET S : Cardinality(T) <= n => next[T] = it[T]
    BY <2>1 DEF Unfolds
  <2>3. ASSUME NEW T \in SUBSET S, Cardinality(T) <= n + 1 PROVE Unfolds(next, f, T)
    <3>1. CASE T = {}
      BY <3>1 DEF Unfolds
    <3>2. CASE T # {}
      <4>1. First(T) \in T
        BY <3>2 DEF First
      <4>2. Cardinality(T \ {First(T)}) = Cardinality(T) - 1
        BY <1>1, <4>1, FS_RemoveElement
      <4>3. T \ {First(T)} \in SUBSET S /\ Cardinality(T \ {First(T)}) <= n
        BY <1>1, <2>3, <4>2
      <4>4. next[T] = f[First(T)] + it[T \ {First(T)}]
        BY <3>2
      <4>5. next[T \ {First(T)}] = it[T \ {First(T)}]
        BY <2>2, <4>3
      <4> HIDE DEF next
      <4> QED BY <3>2, <4>4, <4>5 DEF Unfolds
    <3> QED BY <3>1, <3>2
  <2>4. next = [T \in SUBSET S |-> next[T]]
    OBVIOUS
  <2>5. RightTo(next, n + 1)
    <3> HIDE DEF next
    <3> QED BY <2>3, <2>4
  <2> HIDE DEF RightTo, next
  <2> QED BY <2>5
<1>4. Sizes = Nat
  <2> HIDE DEF Sizes
  <2>1. Sizes \subseteq Nat
    BY DEF Sizes
  <2> QED BY <1>2, <1>3, <2>1, NatInduct
<1>5. Cardinality(S) \in Sizes
  BY <1>4, FS_CardinalityType
<1>6. PICK it : RightTo(it, Cardinality(S))
  BY <1>5
<1>7. \A T \in SUBSET S : Unfolds(it, f, T)
  BY <1>1, <1>6
<1>8. it = [T \in SUBSET S |-> it[T]]
  BY <1>6
<1>9. Solves(it, f, S)
  BY <1>7, <1>8 DEF Solves, Unfolds
<1> QED BY <1>9

(* Solutions agree wherever both are defined. *)
LEMMA SolutionsAgree ==
  ASSUME NEW f, NEW S, IsFiniteSet(S), NEW it1, Solves(it1, f, S),
         NEW S2, S2 \subseteq S, NEW it2, Solves(it2, f, S2)
  PROVE  it1[S2] = it2[S2]
<1> DEFINE Good == {T \in SUBSET S2 : it1[T] = it2[T]}
<1>1. IsFiniteSet(S2)
  BY FS_Subset
<1>2. \A T \in SUBSET S2 : Unfolds(it1, f, T) /\ Unfolds(it2, f, T)
  BY DEF Solves, Unfolds
<1>3. {} \in Good
  BY <1>2 DEF Unfolds
<1>4. ASSUME NEW T \in SUBSET S2, T # {}, \A x \in T : T \ {x} \in Good PROVE T \in Good
  <2>1. First(T) \in T
    BY <1>4 DEF First
  <2>2. it1[T \ {First(T)}] = it2[T \ {First(T)}]
    BY <1>4, <2>1
  <2> QED BY <1>2, <1>4, <2>2 DEF Unfolds
<1>5. SUBSET S2 \subseteq Good
  <2> HIDE DEF Good
  <2> QED BY <1>1, <1>3, <1>4, FiniteInduct
<1> QED BY <1>5

(* The library's sum is the chosen solution, at the whole set. *)
LEMMA SumIsSolution ==
  ASSUME NEW f, NEW S, IsFiniteSet(S)
  PROVE  \E it : Solves(it, f, S) /\ SumFunctionOnSet(f, S) = it[S]
<1> DEFINE it == CHOOSE g : Solves(g, f, S)
<1>1. SumFunctionOnSet(f, S) = it[S]
  BY DEF SumFunctionOnSet, FoldFunctionOnSet, MapThenFoldSet, Solves, First
<1>2. Solves(it, f, S)
  BY Solvable
<1> HIDE DEF it
<1> QED BY <1>1, <1>2

(* Nothing sums to nothing. *)
LEMMA SumEmpty == \A f : SumFunctionOnSet(f, {}) = 0
<1> TAKE f
<1>1. PICK it : Solves(it, f, {}) /\ SumFunctionOnSet(f, {}) = it[{}]
  BY SumIsSolution, FS_EmptySet
<1> QED BY <1>1 DEF Solves

(* One step of the fold. *)
LEMMA SumFirst ==
  ASSUME NEW f, NEW S, IsFiniteSet(S), S # {}
  PROVE  SumFunctionOnSet(f, S) = f[First(S)] + SumFunctionOnSet(f, S \ {First(S)})
<1> DEFINE U == S \ {First(S)}
<1>1. IsFiniteSet(U)
  BY FS_Subset
<1>2. PICK it1 : Solves(it1, f, S) /\ SumFunctionOnSet(f, S) = it1[S]
  BY SumIsSolution
<1>3. PICK it2 : Solves(it2, f, U) /\ SumFunctionOnSet(f, U) = it2[U]
  BY <1>1, SumIsSolution
<1>4. it1[U] = it2[U]
  <2>1. U \subseteq S
    OBVIOUS
  <2> HIDE DEF U
  <2> QED BY <1>2, <1>3, <2>1, SolutionsAgree
<1>5. it1[S] = f[First(S)] + it1[U]
  BY <1>2 DEF Solves
<1> QED BY <1>2, <1>3, <1>4, <1>5

-----------------------------------------------------------------------------
(* A sum of integers is an integer. *)
LEMMA SumInt ==
  ASSUME NEW f, NEW S, IsFiniteSet(S), \A x \in S : f[x] \in Int
  PROVE  SumFunctionOnSet(f, S) \in Int
<1> DEFINE Good == {T \in SUBSET S : SumFunctionOnSet(f, T) \in Int}
<1>1. {} \in Good
  BY SumEmpty
<1>2. ASSUME NEW T \in SUBSET S, T # {}, \A x \in T : T \ {x} \in Good PROVE T \in Good
  <2>1. First(T) \in T
    BY <1>2 DEF First
  <2>2. SumFunctionOnSet(f, T) = f[First(T)] + SumFunctionOnSet(f, T \ {First(T)})
    BY <1>2, FS_Subset, SumFirst
  <2> QED BY <1>2, <2>1, <2>2
<1>3. SUBSET S \subseteq Good
  <2> HIDE DEF Good
  <2> QED BY <1>1, <1>2, FiniteInduct
<1> QED BY <1>3

(* Any element may be taken out first: the order does not matter. *)
LEMMA SumRemove ==
  ASSUME NEW f, NEW S, IsFiniteSet(S), \A x \in S : f[x] \in Int, NEW e \in S
  PROVE  SumFunctionOnSet(f, S) = f[e] + SumFunctionOnSet(f, S \ {e})
<1> DEFINE Sum(T) == SumFunctionOnSet(f, T)
           Good == {T \in SUBSET S : \A x \in T : Sum(T) = f[x] + Sum(T \ {x})}
<1>1. \A T \in SUBSET S : IsFiniteSet(T)
  BY FS_Subset
<1>2. \A T \in SUBSET S : Sum(T) \in Int
  BY <1>1, SumInt
<1>3. \A T \in SUBSET S : T # {} => Sum(T) = f[First(T)] + Sum(T \ {First(T)})
  BY <1>1, SumFirst
<1> HIDE DEF Sum
<1>4. {} \in Good
  OBVIOUS
<1>5. ASSUME NEW T \in SUBSET S, T # {}, \A x \in T : T \ {x} \in Good PROVE T \in Good
  <2> DEFINE c == First(T)
  <2>1. c \in T /\ Sum(T) = f[c] + Sum(T \ {c})
    BY <1>3, <1>5 DEF First
  <2> HIDE DEF c
  <2>2. ASSUME NEW x \in T, x # c PROVE Sum(T) = f[x] + Sum(T \ {x})
    <3> DEFINE U == (T \ {c}) \ {x}
    <3>1. Sum(T \ {c}) = f[x] + Sum(U)
      BY <1>5, <2>1, <2>2
    <3>2. Sum(T \ {x}) = f[c] + Sum(U)
      <4>1. U = (T \ {x}) \ {c}
        OBVIOUS
      <4> HIDE DEF U
      <4> QED BY <1>5, <2>1, <2>2, <4>1
    <3>3. Sum(U) \in Int /\ f[x] \in Int /\ f[c] \in Int
      BY <1>2, <2>1, <2>2
    <3> HIDE DEF U
    <3> QED BY <2>1, <3>1, <3>2, <3>3
  <2> QED BY <2>1, <2>2
<1>6. SUBSET S \subseteq Good
  <2> HIDE DEF Good
  <2> QED BY <1>4, <1>5, FiniteInduct
<1> QED BY <1>6 DEF Sum
(* One more element adds its value. *)
LEMMA SumAdd ==
  ASSUME NEW f, NEW S, IsFiniteSet(S), \A x \in S : f[x] \in Int,
         NEW e, e \notin S, f[e] \in Int
  PROVE  SumFunctionOnSet(f, S \cup {e}) = f[e] + SumFunctionOnSet(f, S)
<1> DEFINE T == S \cup {e}
<1>1. IsFiniteSet(T) /\ e \in T /\ T \ {e} = S
  BY FS_AddElement
<1>2. \A x \in T : f[x] \in Int
  OBVIOUS
<1> HIDE DEF T
<1>3. SumFunctionOnSet(f, T) = f[e] + SumFunctionOnSet(f, T \ {e})
  BY <1>1, <1>2, SumRemove
<1> QED BY <1>1, <1>3 DEF T

(* The sum at one place, and at none. *)
LEMMA SumOne ==
  ASSUME NEW f, NEW e, f[e] \in Int
  PROVE  SumFunctionOnSet(f, {e}) = f[e]
<1>1. SumFunctionOnSet(f, {} \cup {e}) = f[e] + SumFunctionOnSet(f, {})
  BY FS_EmptySet, SumAdd
<1>2. {} \cup {e} = {e}
  OBVIOUS
<1> QED BY <1>1, <1>2, SumEmpty

(* A sum of natural numbers is one. *)
LEMMA SumNat ==
  ASSUME NEW f, NEW S, IsFiniteSet(S), \A x \in S : f[x] \in Nat
  PROVE  SumFunctionOnSet(f, S) \in Nat
<1> DEFINE Good == {T \in SUBSET S : SumFunctionOnSet(f, T) \in Nat}
<1>1. {} \in Good
  BY SumEmpty
<1>2. ASSUME NEW T \in SUBSET S, T # {}, \A x \in T : T \ {x} \in Good PROVE T \in Good
  <2>1. First(T) \in T
    BY <1>2 DEF First
  <2>2. SumFunctionOnSet(f, T) = f[First(T)] + SumFunctionOnSet(f, T \ {First(T)})
    BY <1>2, FS_Subset, SumFirst
  <2> QED BY <1>2, <2>1, <2>2
<1>3. SUBSET S \subseteq Good
  <2> HIDE DEF Good
  <2> QED BY <1>1, <1>2, FiniteInduct
<1> QED BY <1>3

(* Where all are zero, so is their sum. *)
LEMMA SumZero ==
  ASSUME NEW f, NEW S, IsFiniteSet(S), \A x \in S : f[x] = 0
  PROVE  SumFunctionOnSet(f, S) = 0
<1> DEFINE Good == {T \in SUBSET S : SumFunctionOnSet(f, T) = 0}
<1>1. {} \in Good
  BY SumEmpty
<1>2. ASSUME NEW T \in SUBSET S, T # {}, \A x \in T : T \ {x} \in Good PROVE T \in Good
  <2>1. First(T) \in T
    BY <1>2 DEF First
  <2>2. SumFunctionOnSet(f, T) = f[First(T)] + SumFunctionOnSet(f, T \ {First(T)})
    BY <1>2, FS_Subset, SumFirst
  <2> QED BY <1>2, <2>1, <2>2
<1>3. SUBSET S \subseteq Good
  <2> HIDE DEF Good
  <2> QED BY <1>1, <1>2, FiniteInduct
<1> QED BY <1>3

(* What is larger by d at every element is larger by d for each of them. *)
LEMMA SumPlus ==
  ASSUME NEW f, NEW g, NEW S, IsFiniteSet(S), NEW d \in Int,
         \A x \in S : g[x] \in Int /\ f[x] = g[x] + d
  PROVE  SumFunctionOnSet(f, S) = SumFunctionOnSet(g, S) + d * Cardinality(S)
<1> DEFINE Good == {T \in SUBSET S :
             SumFunctionOnSet(f, T) = SumFunctionOnSet(g, T) + d * Cardinality(T)}
<1>1. \A T \in SUBSET S : /\ IsFiniteSet(T) /\ Cardinality(T) \in Nat
                          /\ SumFunctionOnSet(g, T) \in Int
  BY FS_Subset, FS_CardinalityType, SumInt
<1>2. {} \in Good
  BY SumEmpty, FS_EmptySet
<1>3. ASSUME NEW T \in SUBSET S, T # {}, \A x \in T : T \ {x} \in Good PROVE T \in Good
  <2> DEFINE c == First(T)
             U == T \ {c}
  <2>1. c \in T
    BY <1>3 DEF First
  <2>2. SumFunctionOnSet(f, T) = f[c] + SumFunctionOnSet(f, U)
    BY <1>1, <1>3, SumFirst
  <2>3. SumFunctionOnSet(g, T) = g[c] + SumFunctionOnSet(g, U)
    BY <1>1, <1>3, SumFirst
  <2>4. Cardinality(U) = Cardinality(T) - 1
    BY <1>1, <2>1, FS_RemoveElement
  <2> HIDE DEF c
  <2>5. SumFunctionOnSet(f, U) = SumFunctionOnSet(g, U) + d * Cardinality(U)
    BY <1>3, <2>1
  <2>6. /\ SumFunctionOnSet(g, U) \in Int /\ Cardinality(T) \in Nat
        /\ g[c] \in Int /\ f[c] = g[c] + d
    BY <1>1, <2>1
  <2>7. d * Cardinality(T) = d * (Cardinality(T) - 1) + d
    BY <2>6
  <2> HIDE DEF U
  <2>8. d * Cardinality(T) \in Int /\ d * (Cardinality(T) - 1) \in Int
    BY <2>6
  <2> QED BY <2>2, <2>3, <2>4, <2>5, <2>6, <2>7, <2>8
<1>4. SUBSET S \subseteq Good
  <2> HIDE DEF Good
  <2> QED BY <1>2, <1>3, FiniteInduct
<1> QED BY <1>4

(* Only the values at the elements matter. *)
LEMMA SumEqual ==
  ASSUME NEW f, NEW g, NEW S, IsFiniteSet(S), \A x \in S : g[x] \in Int /\ f[x] = g[x]
  PROVE  SumFunctionOnSet(f, S) = SumFunctionOnSet(g, S)
<1>1. SumFunctionOnSet(f, S) = SumFunctionOnSet(g, S) + 0 * Cardinality(S)
  BY SumPlus
<1> QED BY <1>1, SumInt, FS_CardinalityType

(* A sum grows with its set and with the values: whatever a one-to-one map *)
(* sends to something no smaller is no more than the whole of the target.  *)
LEMMA SumInject ==
  ASSUME NEW f, NEW S, NEW g, NEW T, IsFiniteSet(S), IsFiniteSet(T),
         \A x \in S : f[x] \in Int, \A y \in T : g[y] \in Nat,
         NEW h, \A x \in S : h[x] \in T /\ f[x] <= g[h[x]],
         \A x, y \in S : h[x] = h[y] => x = y
  PROVE  SumFunctionOnSet(f, S) <= SumFunctionOnSet(g, T)
<1> DEFINE Fits(U, V) == SumFunctionOnSet(f, U) <= SumFunctionOnSet(g, V)
           Good == {U \in SUBSET S :
             \A V \in SUBSET T : (\A x \in U : h[x] \in V) => Fits(U, V)}
<1>1. /\ \A U \in SUBSET S : IsFiniteSet(U) /\ SumFunctionOnSet(f, U) \in Int
      /\ \A V \in SUBSET T : IsFiniteSet(V) /\ SumFunctionOnSet(g, V) \in Nat
  BY FS_Subset, SumInt, SumNat
<1>2. {} \in Good
  BY <1>1, SumEmpty
<1>3. ASSUME NEW U \in SUBSET S, U # {}, \A x \in U : U \ {x} \in Good PROVE U \in Good
  <2> DEFINE c == First(U)
  <2>1. c \in U
    BY <1>3 DEF First
  <2>2. SumFunctionOnSet(f, U) = f[c] + SumFunctionOnSet(f, U \ {c})
    BY <1>1, <1>3, SumFirst
  <2> HIDE DEF c
  <2>3. ASSUME NEW V \in SUBSET T, \A x \in U : h[x] \in V PROVE Fits(U, V)
    <3>1. h[c] \in V /\ \A y \in V : g[y] \in Int
      BY <2>1, <2>3
    <3>2. SumFunctionOnSet(g, V) = g[h[c]] + SumFunctionOnSet(g, V \ {h[c]})
      BY <1>1, <3>1, SumRemove
    <3>3. \A x \in U \ {c} : h[x] \in V \ {h[c]}
      BY <2>1, <2>3
    <3>4. Fits(U \ {c}, V \ {h[c]})
      BY <1>3, <2>1, <3>3
    <3>5. /\ SumFunctionOnSet(f, U \ {c}) \in Int
          /\ SumFunctionOnSet(g, V \ {h[c]}) \in Int
          /\ f[c] \in Int /\ g[h[c]] \in Int /\ f[c] <= g[h[c]]
      BY <1>1, <2>1, <3>1
    <3> QED BY <2>2, <3>2, <3>4, <3>5
  <2> QED BY <2>3
<1>4. SUBSET S \subseteq Good
  <2> HIDE DEF Good
  <2> QED BY <1>2, <1>3, FiniteInduct
<1> QED BY <1>4
=============================================================================
