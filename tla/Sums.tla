-------------------------------- MODULE Sums --------------------------------
(***************************************************************************)
(* What SumFunctionOnSet, the sum of a function's values over a finite set *)
(* of the Functions module, computes: the order in which it picks the      *)
(* elements does not matter.  The ledger, the recorder and the             *)
(* orchestrator add up their costs with it.                                *)
(***************************************************************************)
EXTENDS Integers, FiniteSets, Functions, FiniteSetTheorems, WellFoundedInduction, TLAPS

-----------------------------------------------------------------------------
(* Induction over finite sets, as the existence of a least counterexample. *)

(***************************************************************************)
(* Among any subsets of a finite set there is a minimal one.               *)
(***************************************************************************)
LEMMA MinimalSubset ==
  ASSUME NEW S, IsFiniteSet(S), NEW C, C \subseteq SUBSET S, C # {}
  PROVE  \E T \in C : \A U \in C : U \subseteq T => U = T
<1>1. IsWellFoundedOn(StrictSubsetOrdering(S), SUBSET S)
  BY FS_StrictSubsetOrderingWellFounded, FS_FiniteSubsetsOfFinite
<1>2. PICK T \in C : \A U \in C : ~ (<<U, T>> \in StrictSubsetOrdering(S))
  BY <1>1, WFMin
<1> QED BY <1>2 DEF StrictSubsetOrdering

(***************************************************************************)
(* Among any numbers up to a bound there is a least one.                   *)
(***************************************************************************)
LEMMA LeastNumber ==
  ASSUME NEW N \in Nat, NEW C, C \subseteq 0..N, C # {}
  PROVE  \E m \in C : \A k \in C : m <= k
<1> DEFINE D == { 0..k : k \in C }
<1>1. IsFiniteSet(0..N)
  BY FS_Interval
<1>2. D \subseteq SUBSET (0..N) /\ D # {}
  <2>1. \A k \in C : 0..k \subseteq 0..N
    OBVIOUS
  <2> QED BY <2>1
<1>3. PICK T \in D : \A U \in D : U \subseteq T => U = T
  <2> DEFINE S == 0..N
  <2>1. IsFiniteSet(S) /\ D \subseteq SUBSET S /\ D # {}
    BY <1>1, <1>2
  <2> HIDE DEF D, S
  <2> QED BY <2>1, MinimalSubset
<1>4. PICK m \in C : T = 0..m
  OBVIOUS
<1>5. ASSUME NEW k \in C, ~ (m <= k) PROVE FALSE
  <2>1. k \in Nat /\ m \in Nat /\ k < m
    BY <1>5
  <2>2. 0..k \subseteq 0..m /\ m \in 0..m /\ m \notin 0..k
    BY <2>1
  <2> QED BY <1>3, <1>4, <2>2
<1> QED BY <1>4, <1>5

(***************************************************************************)
(* And a greatest one.                                                     *)
(***************************************************************************)
LEMMA GreatestNumber ==
  ASSUME NEW N \in Nat, NEW C, C \subseteq 0..N, C # {}
  PROVE  \E m \in C : \A k \in C : k <= m
<1> DEFINE D == { N - k : k \in C }
<1>1. D \subseteq 0..N /\ D # {}
  <2>1. ASSUME NEW k \in C PROVE N - k \in 0..N
    <3>1. k \in Nat /\ k <= N
      OBVIOUS
    <3> QED BY <3>1
  <2>2. D # {}
    OBVIOUS
  <2> QED BY <2>1, <2>2
<1>2. PICK d \in D : \A e \in D : d <= e
  <2> HIDE DEF D
  <2> QED BY <1>1, LeastNumber
<1>3. PICK m \in C : d = N - m
  OBVIOUS
<1>4. ASSUME NEW k \in C PROVE k <= m
  <2>1. N - m <= N - k
    BY <1>2, <1>3
  <2>2. k \in Nat /\ m \in Nat
    OBVIOUS
  <2> QED BY <2>1, <2>2
<1> QED BY <1>4

-----------------------------------------------------------------------------
(* The recursive function inside the sum exists and is unique.             *)

Pick(s) == CHOOSE x \in s : TRUE

\* g[s] is the sum of f over s, for every s \subseteq T.
IsSumOf(g, f, T) ==
  g = [s \in SUBSET T |-> IF s = {} THEN 0 ELSE f[Pick(s)] + g[s \ {Pick(s)}]]

(***************************************************************************)
(* The element that is picked is one of the set's.                         *)
(***************************************************************************)
LEMMA PickIn == \A s : s # {} => Pick(s) \in s /\ s \ {Pick(s)} \subseteq s /\ s \ {Pick(s)} # s
BY DEF Pick

(***************************************************************************)
(* Two such functions agree where both are defined.                        *)
(***************************************************************************)
LEMMA SumUnique ==
  ASSUME NEW S, IsFiniteSet(S), NEW f, NEW g, NEW h, NEW T \in SUBSET S, NEW U \in SUBSET S,
         IsSumOf(g, f, T), IsSumOf(h, f, U), NEW s \in (SUBSET T) \cap (SUBSET U)
  PROVE  g[s] = h[s]
<1> DEFINE C == { t \in (SUBSET T) \cap (SUBSET U) : g[t] # h[t] }
<1> SUFFICES ASSUME C # {} PROVE FALSE
  OBVIOUS
<1>1. PICK t \in C : \A u \in C : u \subseteq t => u = t
  <2>1. C \subseteq SUBSET S
    OBVIOUS
  <2> HIDE DEF C
  <2> QED BY <2>1, MinimalSubset
<1>2. t # {}
  BY <1>1 DEF IsSumOf
<1>3. t \ {Pick(t)} \in (SUBSET T) \cap (SUBSET U) /\ t \ {Pick(t)} \notin C
  BY <1>1, <1>2, PickIn
<1>4. g[t] = f[Pick(t)] + g[t \ {Pick(t)}] /\ h[t] = f[Pick(t)] + h[t \ {Pick(t)}]
  BY <1>1, <1>2 DEF IsSumOf
<1> QED BY <1>1, <1>3, <1>4

(***************************************************************************)
(* It exists, and its values are natural numbers.                          *)
(***************************************************************************)
LEMMA SumExists ==
  ASSUME NEW S, IsFiniteSet(S), NEW f, \A x \in S : f[x] \in Nat
  PROVE  \E g \in [SUBSET S -> Nat] : IsSumOf(g, f, S)
<1> DEFINE Has(T) == \E g \in [SUBSET T -> Nat] : IsSumOf(g, f, T)
           C == { T \in SUBSET S : ~ Has(T) }
<1> SUFFICES ASSUME C # {} PROVE FALSE
  OBVIOUS
<1>1. PICK T \in C : \A U \in C : U \subseteq T => U = T
  <2>1. C \subseteq SUBSET S
    OBVIOUS
  <2> HIDE DEF C
  <2> QED BY <2>1, MinimalSubset
<1> DEFINE SumAt(s) == CHOOSE v \in Nat : \E g \in [SUBSET s -> Nat] : IsSumOf(g, f, s) /\ v = g[s]
           Rest(s) == s \ {Pick(s)}
           g0 == [s \in SUBSET T |-> IF s = {} THEN 0 ELSE f[Pick(s)] + SumAt(Rest(s))]
<1>2. \A s \in SUBSET T : s # T => Has(s)
  BY <1>1
<1>3. ASSUME NEW s \in SUBSET T, s # T
      PROVE  \E g \in [SUBSET s -> Nat] : IsSumOf(g, f, s) /\ SumAt(s) = g[s]
  <2>1. PICK g \in [SUBSET s -> Nat] : IsSumOf(g, f, s)
    BY <1>2, <1>3
  <2>2. g[s] \in Nat
    BY <2>1
  <2> QED BY <2>1, <2>2
<1>4. ASSUME NEW s \in SUBSET T, s # {}
      PROVE  Rest(s) \in SUBSET T /\ Rest(s) # T /\ Pick(s) \in S
  BY <1>1, <1>4, PickIn
<1>5. g0 \in [SUBSET T -> Nat]
  <2> SUFFICES ASSUME NEW s \in SUBSET T, s # {} PROVE f[Pick(s)] + SumAt(Rest(s)) \in Nat
    OBVIOUS
  <2>1. PICK g \in [SUBSET Rest(s) -> Nat] : SumAt(Rest(s)) = g[Rest(s)]
    BY <1>3, <1>4
  <2>2. g[Rest(s)] \in Nat
    BY <2>1
  <2> HIDE DEF SumAt, Rest
  <2> QED BY <1>4, <2>1, <2>2
<1>6. \A s \in SUBSET T : s # T => g0[s] = SumAt(s)
  <2> SUFFICES ASSUME NEW s \in SUBSET T, s # T PROVE g0[s] = SumAt(s)
    OBVIOUS
  <2>1. PICK g \in [SUBSET s -> Nat] : IsSumOf(g, f, s) /\ SumAt(s) = g[s]
    BY <1>3
  <2>2. CASE s = {}
    BY <2>1, <2>2 DEF IsSumOf
  <2>3. CASE s # {}
    <3>1. PICK h \in [SUBSET Rest(s) -> Nat] : IsSumOf(h, f, Rest(s)) /\ SumAt(Rest(s)) = h[Rest(s)]
      BY <1>3, <1>4, <2>3
    <3>2. Rest(s) \subseteq s /\ s \in SUBSET S /\ Rest(s) \in SUBSET S
      BY <1>1, <1>4
    <3> HIDE DEF SumAt, Rest
    <3>3. h[Rest(s)] = g[Rest(s)]
      BY <2>1, <3>1, <3>2, SumUnique
    <3>4. g[s] = f[Pick(s)] + g[Rest(s)]
      BY <2>1, <2>3 DEF IsSumOf, Rest
    <3> QED BY <2>1, <2>3, <3>1, <3>3, <3>4
  <2> QED BY <2>2, <2>3
<1>7. IsSumOf(g0, f, T)
  <2>1. \A s \in SUBSET T : s # {} => SumAt(Rest(s)) = g0[Rest(s)]
    BY <1>4, <1>6
  <2> DEFINE g1 == [s \in SUBSET T |-> IF s = {} THEN 0 ELSE f[Pick(s)] + g0[s \ {Pick(s)}]]
  <2>2. \A s \in SUBSET T : g0[s] = g1[s]
    <3> SUFFICES ASSUME NEW s \in SUBSET T PROVE g0[s] = g1[s]
      OBVIOUS
    <3>1. g0[s] = IF s = {} THEN 0 ELSE f[Pick(s)] + SumAt(Rest(s))
      <4> HIDE DEF SumAt, Rest
      <4> QED OBVIOUS
    <3>2. g1[s] = IF s = {} THEN 0 ELSE f[Pick(s)] + g0[Rest(s)]
      <4> HIDE DEF g0
      <4> QED OBVIOUS
    <3> HIDE DEF g0, g1, SumAt, Rest
    <3> QED BY <2>1, <3>1, <3>2
  <2>3. g0 = g1
    <3>1. DOMAIN g0 = SUBSET T /\ g0 = [s \in SUBSET T |-> g0[s]]
      <4> HIDE DEF SumAt, Rest
      <4> QED OBVIOUS
    <3>2. g1 = [s \in SUBSET T |-> g1[s]]
      <4> HIDE DEF g0
      <4> QED OBVIOUS
    <3> HIDE DEF g0, g1
    <3> QED BY <2>2, <3>1, <3>2
  <2> HIDE DEF g0
  <2> QED BY <2>3 DEF IsSumOf
<1> QED BY <1>1, <1>5, <1>7

-----------------------------------------------------------------------------
(* The sum.                                                                *)

(***************************************************************************)
(* The operator of the library is the value at S of the recursive function *)
(* above.                                                                  *)
(***************************************************************************)
LEMMA SumIs ==
  ASSUME NEW S, IsFiniteSet(S), NEW f, \A x \in S : f[x] \in Nat
  PROVE  \E g \in [SUBSET S -> Nat] : IsSumOf(g, f, S) /\ SumFunctionOnSet(f, S) = g[S]
<1> DEFINE g == CHOOSE g : IsSumOf(g, f, S)
<1>1. SumFunctionOnSet(f, S) = g[S]
  BY DEF SumFunctionOnSet, FoldFunctionOnSet, MapThenFoldSet, IsSumOf, Pick
<1>2. PICK h \in [SUBSET S -> Nat] : IsSumOf(h, f, S)
  BY SumExists
<1>3. IsSumOf(g, f, S)
  BY <1>2
<1>4. \A s \in SUBSET S : g[s] = h[s]
  BY <1>2, <1>3, SumUnique
<1>5. g \in [SUBSET S -> Nat]
  BY <1>3, <1>4 DEF IsSumOf
<1> QED BY <1>1, <1>3, <1>5

(***************************************************************************)
(* The sum over no elements.                                               *)
(***************************************************************************)
LEMMA SumEmpty == \A f : SumFunctionOnSet(f, {}) = 0
<1> SUFFICES ASSUME NEW f PROVE SumFunctionOnSet(f, {}) = 0
  OBVIOUS
<1>1. PICK g \in [SUBSET {} -> Nat] : IsSumOf(g, f, {}) /\ SumFunctionOnSet(f, {}) = g[{}]
  BY SumIs, FS_EmptySet
<1> QED BY <1>1 DEF IsSumOf

(***************************************************************************)
(* The sum of natural numbers is one.                                      *)
(***************************************************************************)
LEMMA SumNat ==
  ASSUME NEW S, IsFiniteSet(S), NEW f, \A x \in S : f[x] \in Nat
  PROVE  SumFunctionOnSet(f, S) \in Nat
<1>1. PICK g \in [SUBSET S -> Nat] : SumFunctionOnSet(f, S) = g[S]
  BY SumIs
<1> QED BY <1>1

(***************************************************************************)
(* Taking out the element that the definition picks.                       *)
(***************************************************************************)
LEMMA SumPick ==
  ASSUME NEW S, IsFiniteSet(S), NEW f, \A x \in S : f[x] \in Nat, S # {}
  PROVE  SumFunctionOnSet(f, S) = f[Pick(S)] + SumFunctionOnSet(f, S \ {Pick(S)})
<1> DEFINE R == S \ {Pick(S)}
<1>1. R \in SUBSET S /\ IsFiniteSet(R)
  BY FS_Subset
<1>2. PICK g \in [SUBSET S -> Nat] : IsSumOf(g, f, S) /\ SumFunctionOnSet(f, S) = g[S]
  BY SumIs
<1>3. PICK h \in [SUBSET R -> Nat] : IsSumOf(h, f, R) /\ SumFunctionOnSet(f, R) = h[R]
  <2> \A x \in R : f[x] \in Nat
    BY <1>1
  <2> HIDE DEF R
  <2> QED BY <1>1, SumIs
<1>4. g[S] = f[Pick(S)] + g[R]
  BY <1>2 DEF IsSumOf
<1>5. g[R] = h[R]
  <2> HIDE DEF R
  <2>1. S \in SUBSET S /\ R \in (SUBSET S) \cap (SUBSET R)
    BY <1>1
  <2> QED BY <1>1, <1>2, <1>3, <2>1, SumUnique
<1> QED BY <1>2, <1>3, <1>4, <1>5

(***************************************************************************)
(* Taking out any element: the order of the sum does not matter.           *)
(***************************************************************************)
LEMMA SumRemove ==
  ASSUME NEW S, IsFiniteSet(S), NEW f, \A x \in S : f[x] \in Nat, NEW x \in S
  PROVE  SumFunctionOnSet(f, S) = f[x] + SumFunctionOnSet(f, S \ {x})
<1> DEFINE Sum(T) == SumFunctionOnSet(f, T)
           Off(T, y) == Sum(T) # f[y] + Sum(T \ {y})
           C == { T \in SUBSET S : \E y \in T : Off(T, y) }
<1> SUFFICES ASSUME C # {} PROVE FALSE
  OBVIOUS
<1>0. C \subseteq SUBSET S
  OBVIOUS
<1>1. PICK T \in C : \A U \in C : U \subseteq T => U = T
  <2> HIDE DEF C
  <2> QED BY <1>0, MinimalSubset
<1>2. PICK y \in T : Off(T, y)
  OBVIOUS
<1> DEFINE p == Pick(T)
<1>3. p \in T /\ T \in SUBSET S /\ IsFiniteSet(T)
  BY <1>0, <1>2, PickIn, FS_Subset
<1>4. Sum(T) = f[p] + Sum(T \ {p})
  <2> \A z \in T : f[z] \in Nat
    BY <1>3
  <2> QED BY <1>3, SumPick
<1>5. y # p
  BY <1>2, <1>4
<1>6. Sum(T \ {p}) = f[y] + Sum((T \ {p}) \ {y})
  <2>1. T \ {p} \in SUBSET S /\ T \ {p} \notin C /\ y \in T \ {p}
    BY <1>1, <1>2, <1>3, <1>5
  <2> QED BY <2>1
<1>7. Sum(T \ {y}) = f[p] + Sum((T \ {y}) \ {p})
  <2>1. T \ {y} \in SUBSET S /\ T \ {y} \notin C /\ p \in T \ {y}
    BY <1>1, <1>2, <1>3, <1>5
  <2> QED BY <2>1
<1>8. (T \ {p}) \ {y} = (T \ {y}) \ {p}
  OBVIOUS
<1>9. Sum((T \ {y}) \ {p}) \in Nat /\ f[p] \in Nat /\ f[y] \in Nat
  <2>1. IsFiniteSet((T \ {y}) \ {p}) /\ \A z \in (T \ {y}) \ {p} : f[z] \in Nat
    BY <1>3, FS_Subset
  <2> QED BY <1>2, <1>3, <2>1, SumNat
<1>10. Sum(T) # f[y] + Sum(T \ {y})
  BY <1>2
<1>11. Sum((T \ {p}) \ {y}) = Sum((T \ {y}) \ {p})
  BY <1>8
<1> HIDE DEF Sum, Off, C, p
<1>12. Sum(T) = f[p] + (f[y] + Sum((T \ {y}) \ {p}))
  BY <1>4, <1>6, <1>11
<1>13. Sum(T) # f[y] + (f[p] + Sum((T \ {y}) \ {p}))
  BY <1>7, <1>10
<1> QED BY <1>9, <1>12, <1>13

(***************************************************************************)
(* Adding an element.                                                      *)
(***************************************************************************)
LEMMA SumAdd ==
  ASSUME NEW S, IsFiniteSet(S), NEW x, x \notin S,
         NEW f, \A y \in S \cup {x} : f[y] \in Nat
  PROVE  SumFunctionOnSet(f, S \cup {x}) = f[x] + SumFunctionOnSet(f, S)
<1>1. IsFiniteSet(S \cup {x}) /\ (S \cup {x}) \ {x} = S
  BY FS_AddElement
<1> QED BY <1>1, SumRemove

(***************************************************************************)
(* A function that is nowhere above another has no larger sum.             *)
(***************************************************************************)
LEMMA SumLeq ==
  ASSUME NEW S, IsFiniteSet(S), NEW f, NEW g,
         \A x \in S : f[x] \in Nat /\ g[x] \in Nat /\ f[x] <= g[x]
  PROVE  SumFunctionOnSet(f, S) <= SumFunctionOnSet(g, S)
<1> DEFINE C == { T \in SUBSET S : ~ (SumFunctionOnSet(f, T) <= SumFunctionOnSet(g, T)) }
<1> SUFFICES ASSUME C # {} PROVE FALSE
  OBVIOUS
<1>0. C \subseteq SUBSET S
  OBVIOUS
<1>1. PICK T \in C : \A U \in C : U \subseteq T => U = T
  <2> HIDE DEF C
  <2> QED BY <1>0, MinimalSubset
<1>2. T # {}
  BY SumEmpty
<1>3. PICK x \in T : TRUE
  BY <1>2
<1> DEFINE R == T \ {x}
<1>4. /\ IsFiniteSet(T) /\ \A y \in T : f[y] \in Nat /\ g[y] \in Nat
      /\ IsFiniteSet(R) /\ \A y \in R : f[y] \in Nat /\ g[y] \in Nat
  BY <1>0, FS_Subset
<1>5. /\ SumFunctionOnSet(f, T) = f[x] + SumFunctionOnSet(f, R)
      /\ SumFunctionOnSet(g, T) = g[x] + SumFunctionOnSet(g, R)
  BY <1>4, SumRemove
<1>6. SumFunctionOnSet(f, R) \in Nat /\ SumFunctionOnSet(g, R) \in Nat
  <2> HIDE DEF R
  <2> QED BY <1>4, SumNat
<1>7. SumFunctionOnSet(f, R) <= SumFunctionOnSet(g, R)
  <2>1. R \in SUBSET S /\ R \notin C
    BY <1>0, <1>1, <1>3
  <2> QED BY <2>1
<1>8. f[x] \in Nat /\ g[x] \in Nat /\ f[x] <= g[x]
  BY <1>0
<1>9. ~ (SumFunctionOnSet(f, T) <= SumFunctionOnSet(g, T))
  OBVIOUS
<1> HIDE DEF R, C
<1> QED BY <1>5, <1>6, <1>7, <1>8, <1>9

(***************************************************************************)
(* Functions that agree on S have the same sum over it.                    *)
(***************************************************************************)
LEMMA SumEqual ==
  ASSUME NEW S, IsFiniteSet(S), NEW f, NEW g,
         \A x \in S : f[x] \in Nat /\ g[x] = f[x]
  PROVE  SumFunctionOnSet(f, S) = SumFunctionOnSet(g, S)
<1>1. \A x \in S : f[x] \in Nat /\ g[x] \in Nat /\ f[x] <= g[x] /\ g[x] <= f[x]
  OBVIOUS
<1>2. SumFunctionOnSet(f, S) <= SumFunctionOnSet(g, S) /\ SumFunctionOnSet(g, S) <= SumFunctionOnSet(f, S)
  BY <1>1, SumLeq
<1>3. SumFunctionOnSet(f, S) \in Nat /\ SumFunctionOnSet(g, S) \in Nat
  BY <1>1, SumNat
<1> QED BY <1>2, <1>3

(***************************************************************************)
(* Changing one value changes the sum by the difference.                   *)
(***************************************************************************)
LEMMA SumUpdate ==
  ASSUME NEW S, IsFiniteSet(S), NEW f, NEW g, NEW x \in S,
         \A y \in S : f[y] \in Nat /\ g[y] \in Nat,
         \A y \in S \ {x} : g[y] = f[y]
  PROVE  SumFunctionOnSet(g, S) = SumFunctionOnSet(f, S) + g[x] - f[x]
<1> DEFINE R == S \ {x}
<1>1. IsFiniteSet(R) /\ \A y \in R : f[y] \in Nat /\ g[y] = f[y]
  BY FS_Subset
<1>2. /\ SumFunctionOnSet(f, S) = f[x] + SumFunctionOnSet(f, R)
      /\ SumFunctionOnSet(g, S) = g[x] + SumFunctionOnSet(g, R)
  BY SumRemove
<1> HIDE DEF R
<1>3. SumFunctionOnSet(f, R) = SumFunctionOnSet(g, R) /\ SumFunctionOnSet(f, R) \in Nat
  BY <1>1, SumEqual, SumNat
<1> QED BY <1>2, <1>3

(***************************************************************************)
(* Zeros add up to zero.                                                   *)
(***************************************************************************)
LEMMA SumZero ==
  ASSUME NEW S, IsFiniteSet(S), NEW f, \A x \in S : f[x] = 0
  PROVE  SumFunctionOnSet(f, S) = 0
<1> DEFINE Sum(T) == SumFunctionOnSet(f, T)
           C == { T \in SUBSET S : Sum(T) # 0 }
<1> SUFFICES ASSUME C # {} PROVE FALSE
  OBVIOUS
<1>0. C \subseteq SUBSET S
  OBVIOUS
<1>1. PICK T \in C : \A U \in C : U \subseteq T => U = T
  <2> HIDE DEF C
  <2> QED BY <1>0, MinimalSubset
<1>2. T # {}
  BY SumEmpty
<1>3. PICK x \in T : TRUE
  BY <1>2
<1>4. Sum(T \ {x}) = 0
  BY <1>1
<1>5. Sum(T) = f[x] + Sum(T \ {x})
  <2> IsFiniteSet(T) /\ \A y \in T : f[y] \in Nat
    BY FS_Subset
  <2> QED BY SumRemove
<1>6. f[x] = 0 /\ Sum(T) # 0
  OBVIOUS
<1> HIDE DEF Sum, C
<1> QED BY <1>4, <1>5, <1>6

(***************************************************************************)
(* More elements have no smaller sum.                                      *)
(***************************************************************************)
LEMMA SumSubset ==
  ASSUME NEW S, IsFiniteSet(S), NEW f, \A x \in S : f[x] \in Nat, NEW T \in SUBSET S
  PROVE  SumFunctionOnSet(f, T) <= SumFunctionOnSet(f, S)
<1> DEFINE Low(U) == SumFunctionOnSet(f, T) <= SumFunctionOnSet(f, U)
           C == { U \in SUBSET S : T \subseteq U /\ ~ Low(U) }
<1> SUFFICES ASSUME C # {} PROVE FALSE
  OBVIOUS
<1>0. C \subseteq SUBSET S
  OBVIOUS
<1>1. PICK U \in C : \A V \in C : V \subseteq U => V = U
  <2> HIDE DEF C
  <2> QED BY <1>0, MinimalSubset
<1>2. T \subseteq U /\ ~ Low(U) /\ U \in SUBSET S /\ IsFiniteSet(T) /\ IsFiniteSet(U)
  BY <1>1, FS_Subset
<1>3. SumFunctionOnSet(f, T) \in Nat
  <2> \A x \in T : f[x] \in Nat
    OBVIOUS
  <2> QED BY <1>2, SumNat
<1>4. U # T
  BY <1>2, <1>3
<1>5. PICK x \in U \ T : TRUE
  BY <1>2, <1>4
<1> DEFINE R == U \ {x}
<1>6. IsFiniteSet(R) /\ (\A y \in R : f[y] \in Nat) /\ (\A y \in U : f[y] \in Nat)
  BY <1>2, FS_Subset
<1>7. SumFunctionOnSet(f, U) = f[x] + SumFunctionOnSet(f, R)
  BY <1>2, <1>6, SumRemove
<1>8. SumFunctionOnSet(f, R) \in Nat /\ f[x] \in Nat
  <2> HIDE DEF R
  <2> QED BY <1>2, <1>6, SumNat
<1>9. Low(R)
  BY <1>1, <1>2, <1>5
<1> HIDE DEF R
<1> QED BY <1>2, <1>3, <1>7, <1>8, <1>9

(***************************************************************************)
(* The sum over two disjoint sets is the sum of their sums.                *)
(***************************************************************************)
LEMMA SumDisjoint ==
  ASSUME NEW S, IsFiniteSet(S), NEW f, \A x \in S : f[x] \in Nat,
         NEW A \in SUBSET S, NEW B \in SUBSET S, A \cup B = S, A \cap B = {}
  PROVE  SumFunctionOnSet(f, S) = SumFunctionOnSet(f, A) + SumFunctionOnSet(f, B)
<1> DEFINE Sum(U) == SumFunctionOnSet(f, U)
           Split(U) == Sum(U \cup B) = Sum(U) + Sum(B)
           C == { U \in SUBSET A : ~ Split(U) }
<1>1. IsFiniteSet(A) /\ IsFiniteSet(B) /\ Sum(B) \in Nat
  BY FS_Subset, SumNat
<1> SUFFICES ASSUME C # {} PROVE FALSE
  OBVIOUS
<1>2. C \subseteq SUBSET A
  OBVIOUS
<1>3. PICK U \in C : \A V \in C : V \subseteq U => V = U
  <2> HIDE DEF C
  <2> QED BY <1>1, <1>2, MinimalSubset
<1>4. U # {}
  <2>1. {} \cup B = B /\ Sum({}) = 0
    BY SumEmpty
  <2>2. Split({})
    BY <1>1, <2>1
  <2> QED BY <2>2
<1>5. PICK x \in U : TRUE
  BY <1>4
<1> DEFINE R == U \ {x}
<1>6. Split(R)
  BY <1>3, <1>5
<1>7. IsFiniteSet(U) /\ IsFiniteSet(R) /\ IsFiniteSet(U \cup B)
  BY <1>1, <1>2, FS_Subset
<1>8. Sum(U) = f[x] + Sum(R) /\ Sum(R) \in Nat /\ f[x] \in Nat
  <2>1. (\A y \in U : f[y] \in Nat) /\ (\A y \in R : f[y] \in Nat)
    OBVIOUS
  <2>2. Sum(U) = f[x] + Sum(U \ {x})
    BY <1>7, <2>1, SumRemove
  <2> HIDE DEF R
  <2>3. Sum(R) \in Nat
    BY <1>7, <2>1, SumNat
  <2> QED BY <1>5, <2>1, <2>2, <2>3 DEF R
<1>9. Sum(U \cup B) = f[x] + Sum(R \cup B)
  <2>1. x \in U \cup B /\ \A y \in U \cup B : f[y] \in Nat
    OBVIOUS
  <2>2. (U \cup B) \ {x} = R \cup B
    BY <1>5
  <2> QED BY <1>7, <2>1, <2>2, SumRemove
<1>10. ~ Split(U)
  OBVIOUS
<1>11. Sum(U \cup B) # Sum(U) + Sum(B) /\ Sum(R \cup B) = Sum(R) + Sum(B)
  BY <1>6, <1>10
<1> HIDE DEF Sum, R, C, Split
<1> QED BY <1>1, <1>8, <1>9, <1>11

(***************************************************************************)
(* The sum of two functions' sums is that of the function that adds them.  *)
(***************************************************************************)
LEMMA SumPlus ==
  ASSUME NEW S, IsFiniteSet(S), NEW f, NEW g, NEW h,
         \A x \in S : f[x] \in Nat /\ g[x] \in Nat /\ h[x] = f[x] + g[x]
  PROVE  SumFunctionOnSet(h, S) = SumFunctionOnSet(f, S) + SumFunctionOnSet(g, S)
<1> DEFINE C == { T \in SUBSET S : SumFunctionOnSet(h, T) # SumFunctionOnSet(f, T) + SumFunctionOnSet(g, T) }
<1> SUFFICES ASSUME C # {} PROVE FALSE
  OBVIOUS
<1>0. C \subseteq SUBSET S
  OBVIOUS
<1>1. PICK T \in C : \A U \in C : U \subseteq T => U = T
  <2> HIDE DEF C
  <2> QED BY <1>0, MinimalSubset
<1>2. T # {}
  <2>1. SumFunctionOnSet(h, {}) = SumFunctionOnSet(f, {}) + SumFunctionOnSet(g, {})
    BY SumEmpty
  <2> QED BY <2>1
<1>3. PICK x \in T : TRUE
  BY <1>2
<1> DEFINE R == T \ {x}
<1>4. /\ IsFiniteSet(T) /\ \A y \in T : f[y] \in Nat /\ g[y] \in Nat /\ h[y] \in Nat
      /\ IsFiniteSet(R) /\ \A y \in R : f[y] \in Nat /\ g[y] \in Nat /\ h[y] \in Nat
  BY <1>0, FS_Subset
<1>5. /\ SumFunctionOnSet(f, T) = f[x] + SumFunctionOnSet(f, R)
      /\ SumFunctionOnSet(g, T) = g[x] + SumFunctionOnSet(g, R)
      /\ SumFunctionOnSet(h, T) = h[x] + SumFunctionOnSet(h, R)
  BY <1>4, SumRemove
<1>6. SumFunctionOnSet(f, R) \in Nat /\ SumFunctionOnSet(g, R) \in Nat /\ SumFunctionOnSet(h, R) \in Nat
  <2> HIDE DEF R
  <2> QED BY <1>4, SumNat
<1>7. SumFunctionOnSet(h, R) = SumFunctionOnSet(f, R) + SumFunctionOnSet(g, R)
  <2>1. R \in SUBSET S /\ R \notin C
    BY <1>0, <1>1, <1>3
  <2> QED BY <2>1
<1>8. f[x] \in Nat /\ g[x] \in Nat /\ h[x] = f[x] + g[x]
  BY <1>0
<1>9. SumFunctionOnSet(h, T) # SumFunctionOnSet(f, T) + SumFunctionOnSet(g, T)
  OBVIOUS
<1> HIDE DEF R, C
<1> QED BY <1>5, <1>6, <1>7, <1>8, <1>9
=============================================================================
