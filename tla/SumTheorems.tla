---------------------------- MODULE SumTheorems ----------------------------
(***************************************************************************)
(* Facts about SumFunctionOnSet, the sum of f[x] for x in a finite set S.  *)
(* The contracts keep their money in mappings (claimable, contributions)   *)
(* and a scalar next to each (totalClaimable, totalFunded); every solvency *)
(* theorem of this project relates the two and rests on the lemmas below.  *)
(*                                                                         *)
(* The community modules define the sum by recursion over the subsets of   *)
(* S, so the first half of this module shows that the recursion is well    *)
(* defined and that the order in which elements are taken is irrelevant;   *)
(* the second half is the arithmetic that the other modules cite.          *)
(***************************************************************************)
EXTENDS Integers, FiniteSets, Functions, FiniteSetTheorems,
        WellFoundedInduction, TLAPS

----------------------------------------------------------------------------
(* Induction over the subsets of a finite set, with the property given as  *)
(* the set D of the subsets that have it: D contains S when it contains    *)
(* every subset of S all of whose proper subsets it contains.              *)
LEMMA SubsetInduction ==
  ASSUME NEW S, IsFiniteSet(S), NEW D,
         \A T \in SUBSET S :
            (\A U \in SUBSET T : U # T => U \in D) => T \in D
  PROVE  S \in D
<1> DEFINE B == {T \in SUBSET S : T \notin D}
<1>1. IsWellFoundedOn(StrictSubsetOrdering(S), FiniteSubsetsOf(S))
  BY FS_StrictSubsetOrderingWellFounded
<1>2. FiniteSubsetsOf(S) = SUBSET S
  BY FS_FiniteSubsetsOfFinite
<1>3. SUFFICES ASSUME B # {} PROVE FALSE
  OBVIOUS
<1>4. PICK T \in B : \A U \in B : <<U, T>> \notin StrictSubsetOrdering(S)
  <2>1. B \subseteq SUBSET S
    OBVIOUS
  <2> HIDE DEF B
  <2> QED
    BY <1>1, <1>2, <1>3, <2>1, WFMin
<1>5. PICK U \in SUBSET T : U # T /\ U \notin D
  OBVIOUS
<1>6. <<U, T>> \in StrictSubsetOrdering(S)
  BY <1>5 DEF StrictSubsetOrdering
<1> QED
  BY <1>4, <1>5, <1>6

(* The recursive equation of the sum, as a relation between f, S and the   *)
(* function g that gives the sum of f over every subset of S.              *)
SumEquation(f, S, g) ==
  g = [s \in SUBSET S |->
         IF s = {} THEN 0
         ELSE LET x == CHOOSE x \in s : TRUE IN f[x] + g[s \ {x}]]

(* Two solutions of the equation agree wherever both are defined.          *)
LEMMA SumEquationUnique ==
  ASSUME NEW f, NEW S, NEW T, NEW g, NEW h,
         SumEquation(f, S, g), SumEquation(f, T, h),
         NEW U, IsFiniteSet(U), U \subseteq S, U \subseteq T
  PROVE  g[U] = h[U]
<1> DEFINE D == {V \in SUBSET U : g[V] = h[V]}
<1>1. ASSUME NEW V \in SUBSET U, \A W \in SUBSET V : W # V => W \in D
      PROVE  V \in D
  <2>1. CASE V = {}
    BY <2>1 DEF SumEquation
  <2>2. CASE V # {}
    <3> DEFINE x == CHOOSE x \in V : TRUE
    <3>1. x \in V
      BY <2>2
    <3>2. V \ {x} \in D
      BY <3>1, <1>1
    <3>3. g[V] = f[x] + g[V \ {x}] /\ h[V] = f[x] + h[V \ {x}]
      BY <2>2 DEF SumEquation
    <3> QED
      BY <3>2, <3>3
  <2> QED
    BY <2>1, <2>2
<1>2. U \in D
  <2> HIDE DEF D
  <2> QED
    BY <1>1, SubsetInduction
<1> QED
  BY <1>2

(* Every finite set has a solution of the equation.                        *)
LEMMA SumEquationExists ==
  ASSUME NEW f, NEW S, IsFiniteSet(S)
  PROVE  \E g : SumEquation(f, S, g)
<1> DEFINE D == {T \in SUBSET S : \E g : SumEquation(f, T, g)}
           sol(T) == CHOOSE g : SumEquation(f, T, g)
<1>1. ASSUME NEW T \in SUBSET S, \A U \in SUBSET T : U # T => U \in D
      PROVE  T \in D
  <2> DEFINE g == [s \in SUBSET T |->
                     IF s = {} THEN 0
                     ELSE LET x == CHOOSE x \in s : TRUE
                          IN  f[x] + sol(s \ {x})[s \ {x}]]
  <2>1. ASSUME NEW U \in SUBSET T, U # T
        PROVE  SumEquation(f, U, sol(U))
    BY <1>1, <2>1
  <2>2. ASSUME NEW U \in SUBSET T, U # T
        PROVE  sol(U)[U] = g[U]
    <3>1. SumEquation(f, U, sol(U))
      BY <2>1, <2>2
    <3>2. CASE U = {}
      BY <3>1, <3>2 DEF SumEquation
    <3>3. CASE U # {}
      <4> DEFINE x == CHOOSE x \in U : TRUE
      <4>1. x \in U
        BY <3>3
      <4>2. sol(U)[U] = f[x] + sol(U)[U \ {x}]
        <5> HIDE DEF sol
        <5> QED BY <3>1, <3>3 DEF SumEquation
      <4>3. SumEquation(f, U \ {x}, sol(U \ {x}))
        <5>1. U \ {x} \in SUBSET T /\ U \ {x} # T
          BY <4>1
        <5> HIDE DEF sol, x
        <5> QED BY <2>1, <5>1
      <4>4. sol(U)[U \ {x}] = sol(U \ {x})[U \ {x}]
        <5>1. IsFiniteSet(U \ {x})
          BY FS_Subset
        <5> HIDE DEF sol, x
        <5> QED BY <3>1, <4>3, <5>1, SumEquationUnique
      <4>5. g[U] = f[x] + sol(U \ {x})[U \ {x}]
        BY <3>3
      <4> HIDE DEF g, sol, x
      <4> QED BY <4>2, <4>4, <4>5
    <3> QED BY <3>2, <3>3
  <2>3. SumEquation(f, T, g)
    <3>1. ASSUME NEW s \in SUBSET T, s # {}
          PROVE  LET x == CHOOSE x \in s : TRUE
                 IN  sol(s \ {x})[s \ {x}] = g[s \ {x}]
      <4> DEFINE x == CHOOSE x \in s : TRUE
      <4>1. x \in s
        BY <3>1
      <4>2. s \ {x} \in SUBSET T /\ s \ {x} # T
        BY <4>1
      <4> HIDE DEF g, sol, x
      <4>3. sol(s \ {x})[s \ {x}] = g[s \ {x}]
        BY <4>2, <2>2
      <4> QED BY <4>3 DEF x
    <3>2. g = [s \in SUBSET T |-> g[s]]
      OBVIOUS
    <3>3. ASSUME NEW s \in SUBSET T
          PROVE  g[s] = IF s = {} THEN 0
                        ELSE LET x == CHOOSE x \in s : TRUE
                             IN  f[x] + g[s \ {x}]
      <4>1. CASE s = {}
        BY <4>1
      <4>2. CASE s # {}
        <5> DEFINE x == CHOOSE x \in s : TRUE
        <5>1. g[s] = f[x] + sol(s \ {x})[s \ {x}]
          BY <4>2
        <5>2. sol(s \ {x})[s \ {x}] = g[s \ {x}]
          BY <3>1, <4>2
        <5> HIDE DEF g, sol
        <5> QED BY <4>2, <5>1, <5>2
      <4> QED BY <4>1, <4>2
    <3> HIDE DEF g
    <3> QED BY <3>2, <3>3 DEF SumEquation
  <2> HIDE DEF g
  <2> QED BY <2>3
<1>2. S \in D
  <2> HIDE DEF D
  <2> QED BY <1>1, SubsetInduction
<1> QED BY <1>2

(* SumFunctionOnSet(f, S) is the value at S of a solution of the equation. *)
LEMMA SumIsSolution ==
  ASSUME NEW f, NEW S, IsFiniteSet(S)
  PROVE  \E g : SumEquation(f, S, g) /\ SumFunctionOnSet(f, S) = g[S]
<1> DEFINE g == CHOOSE g : SumEquation(f, S, g)
<1>1. SumEquation(f, S, g)
  BY SumEquationExists
<1>2. SumFunctionOnSet(f, S) = g[S]
  BY DEF SumFunctionOnSet, FoldFunctionOnSet, MapThenFoldSet, SumEquation
<1> QED
  BY <1>1, <1>2

(* The sum over the empty set is zero.                                     *)
LEMMA SumEmpty == ASSUME NEW f PROVE SumFunctionOnSet(f, {}) = 0
<1>1. IsFiniteSet({})
  BY FS_EmptySet
<1>2. PICK g : SumEquation(f, {}, g) /\ SumFunctionOnSet(f, {}) = g[{}]
  BY <1>1, SumIsSolution
<1> QED
  BY <1>2 DEF SumEquation

(* The sum takes the chosen element out first.                             *)
LEMMA SumChosen ==
  ASSUME NEW f, NEW S, IsFiniteSet(S), S # {}
  PROVE  LET x == CHOOSE x \in S : TRUE
         IN  SumFunctionOnSet(f, S) = f[x] + SumFunctionOnSet(f, S \ {x})
<1> DEFINE x == CHOOSE x \in S : TRUE
<1>1. x \in S
  OBVIOUS
<1>2. IsFiniteSet(S \ {x})
  BY FS_Subset
<1>3. PICK g : SumEquation(f, S, g) /\ SumFunctionOnSet(f, S) = g[S]
  BY SumIsSolution
<1>4. PICK h : /\ SumEquation(f, S \ {x}, h)
               /\ SumFunctionOnSet(f, S \ {x}) = h[S \ {x}]
  <2> HIDE DEF x
  <2> QED BY <1>2, SumIsSolution
<1>5. g[S] = f[x] + g[S \ {x}]
  BY <1>3 DEF SumEquation
<1>6. g[S \ {x}] = h[S \ {x}]
  <2> HIDE DEF x
  <2> QED BY <1>2, <1>3, <1>4, SumEquationUnique
<1> QED
  BY <1>3, <1>4, <1>5, <1>6

----------------------------------------------------------------------------
(* Any element can be taken out of the sum, and a sum of integers is an    *)
(* integer.                                                                *)
LEMMA SumRemove ==
  ASSUME NEW f, NEW S, IsFiniteSet(S), \A x \in S : f[x] \in Int
  PROVE  /\ SumFunctionOnSet(f, S) \in Int
         /\ \A y \in S : SumFunctionOnSet(f, S)
                            = f[y] + SumFunctionOnSet(f, S \ {y})
<1> DEFINE Good(T) ==
      /\ SumFunctionOnSet(f, T) \in Int
      /\ \A y \in T : SumFunctionOnSet(f, T)
                         = f[y] + SumFunctionOnSet(f, T \ {y})
    D == {T \in SUBSET S : Good(T)}
<1>1. ASSUME NEW T \in SUBSET S, \A U \in SUBSET T : U # T => U \in D
      PROVE  T \in D
  <2>1. CASE T = {}
    BY <2>1, SumEmpty
  <2>2. CASE T # {}
    <3> DEFINE x == CHOOSE x \in T : TRUE
    <3>1. x \in T
      BY <2>2
    <3>2. IsFiniteSet(T)
      BY FS_Subset
    <3>3. SumFunctionOnSet(f, T) = f[x] + SumFunctionOnSet(f, T \ {x})
      BY <2>2, <3>2, SumChosen
    <3> HIDE DEF x
    <3>4. ASSUME NEW z \in T PROVE Good(T \ {z})
      BY <1>1
    <3> HIDE DEF D
    <3>5. SumFunctionOnSet(f, T) \in Int
      BY <3>1, <3>3, <3>4
    <3>6. ASSUME NEW y \in T
          PROVE  SumFunctionOnSet(f, T) = f[y] + SumFunctionOnSet(f, T \ {y})
      <4>1. CASE y = x
        BY <4>1, <3>3
      <4>2. CASE y # x
        <5>1. SumFunctionOnSet(f, T \ {x})
                = f[y] + SumFunctionOnSet(f, (T \ {x}) \ {y})
          BY <3>1, <3>4, <4>2
        <5>2. SumFunctionOnSet(f, T \ {y})
                = f[x] + SumFunctionOnSet(f, (T \ {y}) \ {x})
          BY <3>1, <3>4, <4>2
        <5>3. (T \ {x}) \ {y} = (T \ {y}) \ {x}
          OBVIOUS
        <5> DEFINE r == SumFunctionOnSet(f, (T \ {x}) \ {y})
        <5>4. r \in Int
          BY <1>1, <3>1 DEF D
        <5>5. SumFunctionOnSet(f, (T \ {y}) \ {x}) = r
          BY <5>3
        <5>6. f[x] \in Int /\ f[y] \in Int
          BY <3>1
        <5> HIDE DEF r
        <5> QED
          BY <3>3, <5>1, <5>2, <5>4, <5>5, <5>6 DEF r
      <4> QED BY <4>1, <4>2
    <3> QED BY <3>5, <3>6 DEF D
  <2> QED BY <2>1, <2>2
<1>2. S \in D
  <2> HIDE DEF D
  <2> QED BY <1>1, SubsetInduction
<1> QED BY <1>2

(* The sum of natural numbers is a natural number, and no summand exceeds  *)
(* it.                                                                     *)
LEMMA SumNat ==
  ASSUME NEW f, NEW S, IsFiniteSet(S), \A x \in S : f[x] \in Nat
  PROVE  /\ SumFunctionOnSet(f, S) \in Nat
         /\ \A y \in S : f[y] <= SumFunctionOnSet(f, S)
<1> DEFINE D == {T \in SUBSET S : SumFunctionOnSet(f, T) \in Nat}
<1>1. ASSUME NEW T \in SUBSET S, \A U \in SUBSET T : U # T => U \in D
      PROVE  T \in D
  <2>1. CASE T = {}
    BY <2>1, SumEmpty
  <2>2. CASE T # {}
    <3>1. PICK x \in T : TRUE
      BY <2>2
    <3>2. IsFiniteSet(T) /\ \A z \in T : f[z] \in Int
      BY FS_Subset
    <3>3. SumFunctionOnSet(f, T) = f[x] + SumFunctionOnSet(f, T \ {x})
      BY <3>2, SumRemove
    <3>4. T \ {x} \in D
      BY <1>1, <3>1
    <3> QED
      BY <3>3, <3>4
  <2> QED BY <2>1, <2>2
<1>2. SUBSET S \subseteq D
  <2> SUFFICES ASSUME NEW T \in SUBSET S PROVE T \in D
    OBVIOUS
  <2>1. IsFiniteSet(T)
    BY FS_Subset
  <2>2. \A V \in SUBSET T : (\A U \in SUBSET V : U # V => U \in D) => V \in D
    <3> HIDE DEF D
    <3> QED BY <1>1
  <2> HIDE DEF D
  <2> QED BY <2>1, <2>2, SubsetInduction
<1>3. ASSUME NEW y \in S PROVE f[y] <= SumFunctionOnSet(f, S)
  <2>1. SumFunctionOnSet(f, S) = f[y] + SumFunctionOnSet(f, S \ {y})
    BY SumRemove
  <2>2. SumFunctionOnSet(f, S \ {y}) \in Nat
    BY <1>2
  <2> QED BY <2>1, <2>2
<1>4. SumFunctionOnSet(f, S) \in Nat
  BY <1>2
<1> QED BY <1>3, <1>4

(* Functions that agree on S have the same sum over S.                     *)
LEMMA SumEqual ==
  ASSUME NEW f, NEW g, NEW S, IsFiniteSet(S), \A x \in S : f[x] = g[x]
  PROVE  SumFunctionOnSet(f, S) = SumFunctionOnSet(g, S)
<1> DEFINE D == {T \in SUBSET S :
                   SumFunctionOnSet(f, T) = SumFunctionOnSet(g, T)}
<1>1. ASSUME NEW T \in SUBSET S, \A U \in SUBSET T : U # T => U \in D
      PROVE  T \in D
  <2>1. CASE T = {}
    BY <2>1, SumEmpty
  <2>2. CASE T # {}
    <3> DEFINE x == CHOOSE x \in T : TRUE
    <3>1. x \in T
      BY <2>2
    <3>2. IsFiniteSet(T)
      BY FS_Subset
    <3>3. /\ SumFunctionOnSet(f, T) = f[x] + SumFunctionOnSet(f, T \ {x})
          /\ SumFunctionOnSet(g, T) = g[x] + SumFunctionOnSet(g, T \ {x})
      BY <2>2, <3>2, SumChosen
    <3> HIDE DEF x
    <3> QED
      BY <1>1, <3>1, <3>3
  <2> QED BY <2>1, <2>2
<1>2. S \in D
  <2> HIDE DEF D
  <2> QED BY <1>1, SubsetInduction
<1> QED BY <1>2

(* Writing one entry changes the sum by the difference of its values.      *)
LEMMA SumUpdate ==
  ASSUME NEW f, NEW g, NEW S, IsFiniteSet(S), NEW a \in S,
         \A x \in S : f[x] \in Int,  \A x \in S : g[x] \in Int,
         \A x \in S \ {a} : g[x] = f[x]
  PROVE  SumFunctionOnSet(g, S) = SumFunctionOnSet(f, S) - f[a] + g[a]
<1>1. IsFiniteSet(S \ {a})
  BY FS_Subset
<1>2. SumFunctionOnSet(f, S \ {a}) = SumFunctionOnSet(g, S \ {a})
  BY <1>1, SumEqual
<1>3. /\ SumFunctionOnSet(f, S) = f[a] + SumFunctionOnSet(f, S \ {a})
      /\ SumFunctionOnSet(g, S) = g[a] + SumFunctionOnSet(g, S \ {a})
  BY SumRemove
<1>4. SumFunctionOnSet(f, S \ {a}) \in Int
  BY <1>1, SumRemove
<1> QED BY <1>2, <1>3, <1>4

(* The sum of a pointwise sum is the sum of the sums.                      *)
LEMMA SumPlus ==
  ASSUME NEW f, NEW g, NEW h, NEW S, IsFiniteSet(S),
         \A x \in S : f[x] \in Int /\ g[x] \in Int,
         \A x \in S : h[x] = f[x] + g[x]
  PROVE  SumFunctionOnSet(h, S)
           = SumFunctionOnSet(f, S) + SumFunctionOnSet(g, S)
<1> DEFINE D == {T \in SUBSET S :
                   SumFunctionOnSet(h, T)
                     = SumFunctionOnSet(f, T) + SumFunctionOnSet(g, T)}
<1>1. ASSUME NEW T \in SUBSET S, \A U \in SUBSET T : U # T => U \in D
      PROVE  T \in D
  <2>1. CASE T = {}
    BY <2>1, SumEmpty
  <2>2. CASE T # {}
    <3>1. PICK x \in T : TRUE
      BY <2>2
    <3>2. IsFiniteSet(T) /\ IsFiniteSet(T \ {x})
      BY FS_Subset
    <3>3. /\ SumFunctionOnSet(f, T) = f[x] + SumFunctionOnSet(f, T \ {x})
          /\ SumFunctionOnSet(g, T) = g[x] + SumFunctionOnSet(g, T \ {x})
          /\ SumFunctionOnSet(h, T) = h[x] + SumFunctionOnSet(h, T \ {x})
      BY <3>2, SumRemove
    <3>4. /\ SumFunctionOnSet(f, T \ {x}) \in Int
          /\ SumFunctionOnSet(g, T \ {x}) \in Int
      BY <3>2, SumRemove
    <3>5. SumFunctionOnSet(h, T \ {x})
            = SumFunctionOnSet(f, T \ {x}) + SumFunctionOnSet(g, T \ {x})
      BY <1>1, <3>1
    <3> HIDE DEF D
    <3>6. SumFunctionOnSet(h, T)
            = SumFunctionOnSet(f, T) + SumFunctionOnSet(g, T)
      BY <3>1, <3>3, <3>4, <3>5
    <3> QED BY <3>6 DEF D
  <2> QED BY <2>1, <2>2
<1>2. S \in D
  <2> HIDE DEF D
  <2> QED BY <1>1, SubsetInduction
<1> QED BY <1>2

(* Only the elements of T count when f is cut off outside T.               *)
LEMMA SumSupport ==
  ASSUME NEW f, NEW h, NEW S, IsFiniteSet(S), NEW T \in SUBSET S,
         \A x \in S : f[x] \in Int,
         \A x \in S : h[x] = IF x \in T THEN f[x] ELSE 0
  PROVE  SumFunctionOnSet(h, S) = SumFunctionOnSet(f, T)
<1> DEFINE D == {U \in SUBSET S :
                   SumFunctionOnSet(h, U) = SumFunctionOnSet(f, U \cap T)}
<1>1. ASSUME NEW U \in SUBSET S, \A V \in SUBSET U : V # U => V \in D
      PROVE  U \in D
  <2>1. CASE U = {}
    <3>1. U \cap T = {}
      BY <2>1
    <3> QED BY <2>1, <3>1, SumEmpty
  <2>2. CASE U # {}
    <3>1. PICK x \in U : TRUE
      BY <2>2
    <3>2. /\ IsFiniteSet(U) /\ IsFiniteSet(U \ {x}) /\ IsFiniteSet(U \cap T)
          /\ \A y \in S : h[y] \in Int
      BY FS_Subset
    <3>3. SumFunctionOnSet(h, U) = h[x] + SumFunctionOnSet(h, U \ {x})
      BY <3>2, SumRemove
    <3>4. SumFunctionOnSet(h, U \ {x}) = SumFunctionOnSet(f, (U \ {x}) \cap T)
      BY <1>1, <3>1
    <3>5. SumFunctionOnSet(h, U \ {x}) \in Int
      BY <3>2, SumRemove
    <3>6. CASE x \in T
      <4>1. (U \cap T) \ {x} = (U \ {x}) \cap T
        OBVIOUS
      <4>2. SumFunctionOnSet(f, U \cap T)
              = f[x] + SumFunctionOnSet(f, (U \cap T) \ {x})
        BY <3>2, <3>6, SumRemove
      <4> QED BY <3>1, <3>3, <3>4, <3>6, <4>1, <4>2
    <3>7. CASE x \notin T
      <4>1. U \cap T = (U \ {x}) \cap T
        BY <3>7
      <4> QED BY <3>1, <3>3, <3>4, <3>5, <3>7, <4>1
    <3> QED BY <3>6, <3>7
  <2> QED BY <2>1, <2>2
<1>2. S \in D
  <2> HIDE DEF D
  <2> QED BY <1>1, SubsetInduction
<1>3. S \cap T = T
  OBVIOUS
<1> QED BY <1>2, <1>3

(* Setting the entries in T to zero takes their sum away.                  *)
LEMMA SumClear ==
  ASSUME NEW f, NEW g, NEW S, IsFiniteSet(S), NEW T \in SUBSET S,
         \A x \in S : f[x] \in Int,
         \A x \in S : g[x] = IF x \in T THEN 0 ELSE f[x]
  PROVE  SumFunctionOnSet(f, S)
           = SumFunctionOnSet(g, S) + SumFunctionOnSet(f, T)
<1> DEFINE h == [x \in S |-> IF x \in T THEN f[x] ELSE 0]
<1>1. \A x \in S : h[x] = IF x \in T THEN f[x] ELSE 0
  OBVIOUS
<1>2. \A x \in S : /\ g[x] \in Int /\ h[x] \in Int
                   /\ f[x] = g[x] + h[x]
  OBVIOUS
<1> HIDE DEF h
<1>3. SumFunctionOnSet(f, S)
        = SumFunctionOnSet(g, S) + SumFunctionOnSet(h, S)
  BY <1>2, SumPlus
<1>4. SumFunctionOnSet(h, S) = SumFunctionOnSet(f, T)
  BY <1>1, SumSupport
<1> QED BY <1>3, <1>4

(* A function that is zero everywhere sums to zero.                        *)
LEMMA SumZero ==
  ASSUME NEW f, NEW S, IsFiniteSet(S), \A x \in S : f[x] = 0
  PROVE  SumFunctionOnSet(f, S) = 0
<1>1. \A x \in S : f[x] \in Int
  OBVIOUS
<1>2. \A x \in S : f[x] = IF x \in {} THEN f[x] ELSE 0
  OBVIOUS
<1>3. SumFunctionOnSet(f, S) = SumFunctionOnSet(f, {})
  BY <1>1, <1>2, SumSupport
<1> QED BY <1>3, SumEmpty

(* A function that is zero except at w sums to its value there.            *)
LEMMA SumSingle ==
  ASSUME NEW f, NEW S, IsFiniteSet(S), NEW w \in S, f[w] \in Int,
         \A x \in S \ {w} : f[x] = 0
  PROVE  SumFunctionOnSet(f, S) = f[w]
<1>1. SumFunctionOnSet(f, S) = f[w] + SumFunctionOnSet(f, S \ {w})
  BY SumRemove
<1>2. IsFiniteSet(S \ {w})
  BY FS_Subset
<1>3. SumFunctionOnSet(f, S \ {w}) = 0
  BY <1>2, SumZero
<1> QED BY <1>1, <1>3

(* The matrix m, given by rows, has the row sums `row` and, read by        *)
(* columns as n, the column sums `col`.                                    *)
MatrixSums(m, n, S, W, row, col) ==
  /\ \A x \in S, i \in W : m[x][i] \in Int /\ n[i][x] = m[x][i]
  /\ \A x \in S : row[x] = SumFunctionOnSet(m[x], W)
  /\ \A i \in W : col[i] = SumFunctionOnSet(n[i], S)

(* Two finite sums can be exchanged.                                       *)
LEMMA SumSwap ==
  ASSUME NEW S, IsFiniteSet(S), NEW W, IsFiniteSet(W),
         NEW row, NEW col, NEW m, NEW n, MatrixSums(m, n, S, W, row, col)
  PROVE  SumFunctionOnSet(row, S) = SumFunctionOnSet(col, W)
<1> USE DEF MatrixSums
<1> DEFINE part(V) == [x \in S |-> SumFunctionOnSet(m[x], V)]
           D == {V \in SUBSET W :
                   SumFunctionOnSet(part(V), S) = SumFunctionOnSet(col, V)}
<1>0. \A i \in W : col[i] \in Int
  BY SumRemove
<1>1. ASSUME NEW V \in SUBSET W, \A U \in SUBSET V : U # V => U \in D
      PROVE  V \in D
  <2>1. CASE V = {}
    <3> DEFINE p == part({})
    <3>1. \A x \in S : p[x] = 0
      BY SumEmpty
    <3>2. SumFunctionOnSet(p, S) = 0
      <4> HIDE DEF p
      <4> QED BY <3>1, SumZero
    <3> QED BY <2>1, <3>2, SumEmpty
  <2>2. CASE V # {}
    <3>1. PICK i \in V : TRUE
      BY <2>2
    <3>2. IsFiniteSet(V) /\ IsFiniteSet(V \ {i})
      BY FS_Subset
    <3>3. SumFunctionOnSet(col, V) = col[i] + SumFunctionOnSet(col, V \ {i})
      BY <1>0, <3>1, <3>2, SumRemove
    <3> DEFINE p == part(V)
               q == part(V \ {i})
    <3>4. ASSUME NEW x \in S
          PROVE  /\ p[x] = n[i][x] + q[x]
                 /\ n[i][x] \in Int /\ q[x] \in Int
      <4>1. /\ SumFunctionOnSet(m[x], V)
                 = m[x][i] + SumFunctionOnSet(m[x], V \ {i})
            /\ SumFunctionOnSet(m[x], V \ {i}) \in Int
        BY <3>1, <3>2, SumRemove
      <4> QED BY <3>1, <4>1
    <3> HIDE DEF p, q
    <3>5. SumFunctionOnSet(p, S)
            = SumFunctionOnSet(n[i], S) + SumFunctionOnSet(q, S)
      BY <3>4, SumPlus
    <3>6. SumFunctionOnSet(n[i], S) = col[i]
      BY <3>1
    <3>7. SumFunctionOnSet(q, S) = SumFunctionOnSet(col, V \ {i})
      BY <1>1, <3>1 DEF q
    <3>8. SumFunctionOnSet(p, S) = SumFunctionOnSet(col, V)
      BY <3>3, <3>5, <3>6, <3>7
    <3> QED BY <3>8 DEF p
  <2> QED BY <2>1, <2>2
<1>2. W \in D
  <2> HIDE DEF D
  <2> QED BY <1>1, SubsetInduction
<1> DEFINE p == part(W)
<1>3. \A x \in S : p[x] = row[x]
  OBVIOUS
<1>4. SumFunctionOnSet(p, S) = SumFunctionOnSet(col, W)
  BY <1>2
<1> HIDE DEF p
<1>5. SumFunctionOnSet(p, S) = SumFunctionOnSet(row, S)
  BY <1>3, SumEqual
<1> QED BY <1>4, <1>5

(* A part of a sum of natural numbers is at most the whole.                *)
LEMMA SumSubset ==
  ASSUME NEW f, NEW S, IsFiniteSet(S), NEW T \in SUBSET S,
         \A x \in S : f[x] \in Nat
  PROVE  SumFunctionOnSet(f, T) <= SumFunctionOnSet(f, S)
<1> DEFINE g == [x \in S |-> IF x \in T THEN 0 ELSE f[x]]
<1>1. \A x \in S : f[x] \in Int /\ g[x] = IF x \in T THEN 0 ELSE f[x]
  OBVIOUS
<1>2. \A x \in S : g[x] \in Nat
  OBVIOUS
<1> HIDE DEF g
<1>3. SumFunctionOnSet(f, S)
        = SumFunctionOnSet(g, S) + SumFunctionOnSet(f, T)
  BY <1>1, SumClear
<1>4. SumFunctionOnSet(g, S) \in Nat
  BY <1>2, SumNat
<1>5. SumFunctionOnSet(f, T) \in Nat
  <2>1. IsFiniteSet(T)
    BY FS_Subset
  <2> QED BY <2>1, SumNat
<1> QED BY <1>3, <1>4, <1>5

(* The bijection r from S to R reads f off g.                              *)
Reindexes(r, f, S, g, R) ==
  /\ \A x \in S : r[x] \in R
  /\ \A y \in R : \E x \in S : y = r[x]
  /\ \A x, y \in S : r[x] = r[y] => x = y
  /\ \A x \in S : f[x] \in Int /\ f[x] = g[r[x]]

(* The sum does not depend on how the summands are indexed.                *)
LEMMA SumImage ==
  ASSUME NEW f, NEW S, IsFiniteSet(S), NEW g, NEW R, IsFiniteSet(R),
         NEW r, Reindexes(r, f, S, g, R)
  PROVE  SumFunctionOnSet(f, S) = SumFunctionOnSet(g, R)
<1> USE DEF Reindexes
<1> DEFINE img(U) == {r[x] : x \in U}
           D == {U \in SUBSET S :
                   SumFunctionOnSet(f, U) = SumFunctionOnSet(g, img(U))}
<1>1. ASSUME NEW U \in SUBSET S, \A V \in SUBSET U : V # U => V \in D
      PROVE  U \in D
  <2>1. CASE U = {}
    <3>1. img({}) = {}
      OBVIOUS
    <3> HIDE DEF img
    <3>2. SumFunctionOnSet(f, {}) = SumFunctionOnSet(g, img({}))
      BY <3>1, SumEmpty
    <3> QED BY <2>1, <3>2
  <2>2. CASE U # {}
    <3>1. PICK x \in U : TRUE
      BY <2>2
    <3>2. IsFiniteSet(U)
      BY FS_Subset
    <3>3. SumFunctionOnSet(f, U) = f[x] + SumFunctionOnSet(f, U \ {x})
      BY <3>2, SumRemove
    <3> DEFINE T == img(U)
    <3>4. IsFiniteSet(T) /\ \A z \in T : g[z] \in Int
      <4>1. T \subseteq R
        OBVIOUS
      <4>2. IsFiniteSet(T)
        BY <4>1, FS_Subset
      <4> QED BY <4>2
    <3>5. r[x] \in T
      BY <3>1
    <3>6. T \ {r[x]} = img(U \ {x})
      BY <3>1
    <3> HIDE DEF T
    <3>7. SumFunctionOnSet(g, T) = g[r[x]] + SumFunctionOnSet(g, T \ {r[x]})
      BY <3>4, <3>5, SumRemove
    <3>8. SumFunctionOnSet(f, U \ {x}) = SumFunctionOnSet(g, img(U \ {x}))
      BY <1>1, <3>1
    <3>9. f[x] = g[r[x]]
      BY <3>1
    <3> HIDE DEF img, D
    <3>10. SumFunctionOnSet(f, U) = SumFunctionOnSet(g, T)
      BY <3>3, <3>6, <3>7, <3>8, <3>9
    <3> QED BY <3>10 DEF T, D
  <2> QED BY <2>1, <2>2
<1>2. S \in D
  <2> HIDE DEF D
  <2> QED BY <1>1, SubsetInduction
<1>3. img(S) = R
  OBVIOUS
<1> HIDE DEF img
<1> QED BY <1>2, <1>3

(* A bound on the summands, up to factors, bounds the sums.                *)
LEMMA SumScaled ==
  ASSUME NEW f, NEW g, NEW S, IsFiniteSet(S), NEW c \in Nat, NEW d \in Nat,
         \A x \in S : f[x] \in Nat /\ g[x] \in Nat /\ c * f[x] <= d * g[x]
  PROVE  c * SumFunctionOnSet(f, S) <= d * SumFunctionOnSet(g, S)
<1> DEFINE D == {U \in SUBSET S :
                   c * SumFunctionOnSet(f, U) <= d * SumFunctionOnSet(g, U)}
<1>1. ASSUME NEW U \in SUBSET S, \A V \in SUBSET U : V # U => V \in D
      PROVE  U \in D
  <2>1. CASE U = {}
    BY <2>1, SumEmpty
  <2>2. CASE U # {}
    <3>1. PICK x \in U : TRUE
      BY <2>2
    <3>2. IsFiniteSet(U) /\ IsFiniteSet(U \ {x})
      BY FS_Subset
    <3> DEFINE F == SumFunctionOnSet(f, U \ {x})
               G == SumFunctionOnSet(g, U \ {x})
               u == f[x]
               v == g[x]
    <3>3. /\ SumFunctionOnSet(f, U) = u + F
          /\ SumFunctionOnSet(g, U) = v + G
      BY <3>2, SumRemove
    <3>4. F \in Nat /\ G \in Nat
      BY <3>2, SumNat
    <3>5. u \in Nat /\ v \in Nat /\ c * u <= d * v
      BY <3>1
    <3>6. c * F <= d * G
      BY <1>1, <3>1
    <3> HIDE DEF F, G, u, v
    <3>7. c * (u + F) = c * u + c * F /\ d * (v + G) = d * v + d * G
      BY <3>4, <3>5
    <3>8. c * u + c * F <= d * v + d * G
      <4> DEFINE p == c * u
                 q == c * F
                 r == d * v
                 t == d * G
      <4>1. p \in Nat /\ q \in Nat /\ r \in Nat /\ t \in Nat
        BY <3>4, <3>5
      <4>2. p <= r /\ q <= t
        BY <3>5, <3>6
      <4> HIDE DEF p, q, r, t
      <4>3. p + q <= r + t
        BY <4>1, <4>2
      <4> QED BY <4>3 DEF p, q, r, t
    <3> QED BY <3>3, <3>7, <3>8
  <2> QED BY <2>1, <2>2
<1>2. S \in D
  <2> HIDE DEF D
  <2> QED BY <1>1, SubsetInduction
<1> QED BY <1>2
=============================================================================
