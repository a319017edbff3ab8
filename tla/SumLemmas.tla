----------------------------- MODULE SumLemmas -----------------------------
(***************************************************************************)
(* What SumFunctionOnSet of the community modules, the sum behind every    *)
(* score and every number of points, computes for any finite set.  The     *)
(* library defines it by recursion over the subsets, in an order that a    *)
(* CHOOSE decides.  The proofs go by the least set that would contradict   *)
(* the claim: strict inclusion is well founded on finite sets.             *)
(***************************************************************************)
EXTENDS Functions, Integers, FiniteSets, FiniteSetTheorems, WellFoundedInduction, TLAPS

Pick(s) == CHOOSE x \in s : TRUE
Rest(s) == s \ {Pick(s)}

\* What the library's recursion makes of the subset s, given all smaller ones.
SumStep(f, g, s) == IF s = {} THEN 0 ELSE f[Pick(s)] + g[Rest(s)]
Solves(f, g, S) == g = [s \in SUBSET S |-> SumStep(f, g, s)]
Solution(f, S) == CHOOSE g : Solves(f, g, S)

\* A subset in C that no other in C is a part of.
Least(T, C) == \A U \in C : ~ (U \subseteq T /\ U # T)

IntOn(f, S) == \A x \in S : f[x] \in Int
-----------------------------------------------------------------------------
\* A set of subsets of a finite set has a least member, by inclusion.
LEMMA LeastSet ==
  ASSUME NEW S, IsFiniteSet(S), NEW C, C \subseteq SUBSET S, C # {}
  PROVE  \E T \in C : Least(T, C)
<1>1. C \subseteq FiniteSubsetsOf(S)
  BY FS_Subset DEF FiniteSubsetsOf
<1>2. PICK T \in C : \A U \in C : ~ (<<U, T>> \in StrictSubsetOrdering(S))
  BY <1>1, FS_StrictSubsetOrderingWellFounded, WFMin, Zenon
<1> QED BY <1>2 DEF StrictSubsetOrdering, Least

\* The element that CHOOSE takes out of a set is one of it.
LEMMA PickProps ==
  ASSUME NEW s, s # {}
  PROVE  Pick(s) \in s /\ Rest(s) \subseteq s /\ Rest(s) # s
BY DEF Pick, Rest

\* The sum is the value at S of a solution of the recursion.
LEMMA SumIsSolution ==
  ASSUME NEW f, NEW S
  PROVE  SumFunctionOnSet(f, S) = Solution(f, S)[S]
BY Zenon DEF SumFunctionOnSet, FoldFunctionOnSet, MapThenFoldSet, Solution, Solves,
             SumStep, Pick, Rest

\* Two solutions agree where both are defined.
LEMMA SolutionsAgree ==
  ASSUME NEW f, NEW S, IsFiniteSet(S), NEW V, NEW W, S \subseteq V, S \subseteq W,
         NEW g, Solves(f, g, V), NEW h, Solves(f, h, W)
  PROVE  g[S] = h[S]
<1> DEFINE C == {s \in SUBSET S : g[s] # h[s]}
<1> SUFFICES ASSUME C # {} PROVE FALSE  OBVIOUS
<1>1. PICK T \in C : Least(T, C)
  <2>1. C \subseteq SUBSET S  OBVIOUS
  <2> HIDE DEF C
  <2> QED BY <2>1, LeastSet
<1>2. g[T] = SumStep(f, g, T) /\ h[T] = SumStep(f, h, T)
  BY <1>1 DEF Solves
<1>3. T # {}
  BY <1>1, <1>2 DEF SumStep
<1>4. Rest(T) \subseteq T /\ Rest(T) # T
  BY <1>3, PickProps
<1>5. g[Rest(T)] = h[Rest(T)]
  BY <1>1, <1>4 DEF Least
<1> QED BY <1>1, <1>2, <1>3, <1>5 DEF SumStep

\* The recursion has a solution, so the sum follows it.
LEMMA SolutionExists ==
  ASSUME NEW f, NEW S, IsFiniteSet(S)
  PROVE  Solves(f, Solution(f, S), S)
<1> DEFINE Bad == {s \in SUBSET S : ~ \E g : Solves(f, g, s)}
<1>1. ASSUME Bad # {} PROVE FALSE
  <2>1. PICK T \in Bad : Least(T, Bad)
    <3>1. Bad \subseteq SUBSET S  OBVIOUS
    <3> HIDE DEF Bad
    <3> QED BY <1>1, <3>1, LeastSet
  <2>2. \A U \in SUBSET T : U # T => Solves(f, Solution(f, U), U)
    <3> SUFFICES ASSUME NEW U \in SUBSET T, U # T PROVE \E g : Solves(f, g, U)
      BY DEF Solution
    <3> QED BY <2>1 DEF Least
  <2> DEFINE val(U) == Solution(f, U)[U]
             g == [s \in SUBSET T |->
                     IF s = {} THEN 0 ELSE f[Pick(s)] + val(Rest(s))]
  <2>3. \A s \in SUBSET T : s # T => g[s] = val(s)
    <3> SUFFICES ASSUME NEW s \in SUBSET T, s # T PROVE g[s] = val(s)
      OBVIOUS
    <3>1. val(s) = SumStep(f, Solution(f, s), s)
      BY <2>2 DEF Solves
    <3>2. CASE s = {}
      BY <3>1, <3>2 DEF SumStep
    <3>3. CASE s # {}
      <4>1. Rest(s) \subseteq s /\ Rest(s) # s
        BY <3>3, PickProps
      <4>2. Rest(s) \in SUBSET T /\ Rest(s) # T
        BY <4>1
      <4>3. IsFiniteSet(Rest(s))
        BY <4>2, <2>1, FS_Subset
      <4>4. Solves(f, Solution(f, s), s) /\ Solves(f, Solution(f, Rest(s)), Rest(s))
        BY <2>2, <4>2
      <4>5. Solution(f, s)[Rest(s)] = val(Rest(s))
        BY <4>1, <4>3, <4>4, SolutionsAgree
      <4> QED BY <3>1, <3>3, <4>5 DEF SumStep
    <3> QED BY <3>2, <3>3
  <2>4. Solves(f, g, T)
    <3>1. ASSUME NEW s \in SUBSET T PROVE g[s] = SumStep(f, g, s)
      <4>1. CASE s = {}
        BY <4>1 DEF SumStep
      <4>2. CASE s # {}
        <5>1. Rest(s) \in SUBSET T /\ Rest(s) # T
          BY <4>2, PickProps
        <5> QED BY <4>2, <5>1, <2>3 DEF SumStep
      <4> QED BY <4>1, <4>2
    <3>2. g = [s \in SUBSET T |-> g[s]]
      OBVIOUS
    <3> HIDE DEF g
    <3> QED BY <3>1, <3>2 DEF Solves
  <2> QED BY <2>1, <2>4
<1>2. \E g : Solves(f, g, S)
  BY <1>1
<1> QED BY <1>2 DEF Solution

\* The sum over nothing.
LEMMA SumOfNone ==
  ASSUME NEW f
  PROVE  SumFunctionOnSet(f, {}) = 0
<1>1. Solves(f, Solution(f, {}), {})
  BY SolutionExists, FS_EmptySet
<1> QED BY <1>1, SumIsSolution DEF Solves, SumStep

\* The solution for a set has the sum over each of its parts.
LEMMA SumOfPart ==
  ASSUME NEW f, NEW S, IsFiniteSet(S), NEW R, R \subseteq S
  PROVE  Solution(f, S)[R] = SumFunctionOnSet(f, R)
<1>1. IsFiniteSet(R) /\ R \subseteq R
  BY FS_Subset
<1>2. Solves(f, Solution(f, S), S) /\ Solves(f, Solution(f, R), R)
  BY <1>1, SolutionExists
<1>3. \A g, h : Solves(f, g, S) /\ Solves(f, h, R) => g[R] = h[R]
  BY <1>1, SolutionsAgree
<1> QED BY <1>2, <1>3, SumIsSolution

\* More than nothing: the library takes the elements out as CHOOSE does.
LEMMA SumUnfolds ==
  ASSUME NEW f, NEW S, IsFiniteSet(S), S # {}
  PROVE  SumFunctionOnSet(f, S) = f[Pick(S)] + SumFunctionOnSet(f, Rest(S))
<1>1. Rest(S) \subseteq S
  BY PickProps
<1>2. Solution(f, S)[S] = SumStep(f, Solution(f, S), S)
  <2>1. Solves(f, Solution(f, S), S)
    BY SolutionExists
  <2> QED BY <2>1 DEF Solves
<1>3. /\ Solution(f, S)[S] = SumFunctionOnSet(f, S)
      /\ Solution(f, S)[Rest(S)] = SumFunctionOnSet(f, Rest(S))
  BY <1>1, SumOfPart
<1> QED BY <1>2, <1>3 DEF SumStep
-----------------------------------------------------------------------------
\* A sum of integers is an integer.
LEMMA SumIsInt ==
  ASSUME NEW f, NEW S, IsFiniteSet(S), IntOn(f, S)
  PROVE  SumFunctionOnSet(f, S) \in Int
<1> DEFINE Bad == {s \in SUBSET S : SumFunctionOnSet(f, s) \notin Int}
<1>1. ASSUME Bad # {} PROVE FALSE
  <2>1. PICK T \in Bad : Least(T, Bad)
    <3>1. Bad \subseteq SUBSET S  OBVIOUS
    <3> HIDE DEF Bad
    <3> QED BY <1>1, <3>1, LeastSet
  <2>2. IsFiniteSet(T)
    BY <2>1, FS_Subset
  <2>3. T # {}
    BY <2>1, SumOfNone, 0 \in Int, Zenon
  <2>4. Pick(T) \in S /\ Rest(T) \subseteq T /\ Rest(T) # T
    BY <2>1, <2>3, PickProps
  <2>5. SumFunctionOnSet(f, Rest(T)) \in Int
    BY <2>1, <2>4 DEF Least
  <2>6. SumFunctionOnSet(f, T) = f[Pick(T)] + SumFunctionOnSet(f, Rest(T))
    BY <2>2, <2>3, SumUnfolds
  <2> QED BY <2>1, <2>4, <2>5, <2>6 DEF IntOn
<1> QED BY <1>1

\* Any element may be taken out first.
LEMMA SumTakeOut ==
  ASSUME NEW f, NEW S, IsFiniteSet(S), IntOn(f, S), NEW x \in S
  PROVE  SumFunctionOnSet(f, S) = f[x] + SumFunctionOnSet(f, S \ {x})
<1> DEFINE Out(s, y) == SumFunctionOnSet(f, s) = f[y] + SumFunctionOnSet(f, s \ {y})
           Bad == {s \in SUBSET S : \E y \in s : ~ Out(s, y)}
<1>1. ASSUME Bad # {} PROVE FALSE
  <2>1. PICK T \in Bad : Least(T, Bad)
    <3>1. Bad \subseteq SUBSET S  OBVIOUS
    <3> HIDE DEF Bad
    <3> QED BY <1>1, <3>1, LeastSet
  <2>2. PICK y \in T : ~ Out(T, y)
    BY <2>1
  <2>3. IsFiniteSet(T) /\ T \subseteq S
    BY <2>1, FS_Subset
  <2> DEFINE p == Pick(T)
  <2>4. p \in T /\ Out(T, p)
    BY <2>2, <2>3, SumUnfolds, PickProps DEF Rest
  <2>5. p # y
    BY <2>2, <2>4
  <2>6. Out(T \ {p}, y) /\ Out(T \ {y}, p)
    <3>1. \A U \in SUBSET T : U # T => \A z \in U : Out(U, z)
      BY <2>1 DEF Least
    <3> HIDE DEF Out, p
    <3> QED BY <3>1, <2>2, <2>4, <2>5
  <2>7. SumFunctionOnSet(f, (T \ {p}) \ {y}) = SumFunctionOnSet(f, (T \ {y}) \ {p})
    <3>1. (T \ {p}) \ {y} = (T \ {y}) \ {p}
      OBVIOUS
    <3> QED BY <3>1, Zenon
  <2>8. f[p] \in Int /\ f[y] \in Int
    BY <2>2, <2>3, <2>4 DEF IntOn
  <2>9. SumFunctionOnSet(f, (T \ {y}) \ {p}) \in Int
    <3>1. IsFiniteSet((T \ {y}) \ {p}) /\ IntOn(f, (T \ {y}) \ {p})
      BY <2>3, FS_Subset DEF IntOn
    <3> QED BY <3>1, SumIsInt
  <2> HIDE DEF p
  <2> QED BY <2>2, <2>4, <2>6, <2>7, <2>8, <2>9
<1>2. Bad = {}
  BY <1>1
<1> QED BY <1>2

\* Functions that agree on a set have the same sum over it.
LEMMA SumSame ==
  ASSUME NEW f, NEW g, NEW S, IsFiniteSet(S), \A x \in S : f[x] = g[x]
  PROVE  SumFunctionOnSet(f, S) = SumFunctionOnSet(g, S)
<1> DEFINE Bad == {s \in SUBSET S : SumFunctionOnSet(f, s) # SumFunctionOnSet(g, s)}
<1>1. ASSUME Bad # {} PROVE FALSE
  <2>1. PICK T \in Bad : Least(T, Bad)
    <3>1. Bad \subseteq SUBSET S  OBVIOUS
    <3> HIDE DEF Bad
    <3> QED BY <1>1, <3>1, LeastSet
  <2>2. IsFiniteSet(T)
    BY <2>1, FS_Subset
  <2>3. T # {}
    BY <2>1, SumOfNone, Zenon
  <2>4. Pick(T) \in S /\ Rest(T) \subseteq T /\ Rest(T) # T
    BY <2>1, <2>3, PickProps
  <2>5. SumFunctionOnSet(f, Rest(T)) = SumFunctionOnSet(g, Rest(T))
    BY <2>1, <2>4 DEF Least
  <2>6. SumFunctionOnSet(f, T) = f[Pick(T)] + SumFunctionOnSet(f, Rest(T))
    BY <2>2, <2>3, SumUnfolds
  <2>7. SumFunctionOnSet(g, T) = g[Pick(T)] + SumFunctionOnSet(g, Rest(T))
    BY <2>2, <2>3, SumUnfolds
  <2> QED BY <2>1, <2>4, <2>5, <2>6, <2>7
<1> QED BY <1>1

\* A change of one summand changes the sum by as much.
LEMMA SumChange ==
  ASSUME NEW f, NEW g, NEW S, IsFiniteSet(S), IntOn(f, S), IntOn(g, S), NEW x \in S,
         \A y \in S \ {x} : f[y] = g[y]
  PROVE  SumFunctionOnSet(g, S) = SumFunctionOnSet(f, S) + (g[x] - f[x])
<1>1. IsFiniteSet(S \ {x})
  BY FS_Subset
<1>2. SumFunctionOnSet(f, S \ {x}) = SumFunctionOnSet(g, S \ {x})
  BY <1>1, SumSame
<1>3. /\ SumFunctionOnSet(f, S) = f[x] + SumFunctionOnSet(f, S \ {x})
      /\ SumFunctionOnSet(g, S) = g[x] + SumFunctionOnSet(g, S \ {x})
  BY SumTakeOut
<1>4. SumFunctionOnSet(f, S \ {x}) \in Int /\ f[x] \in Int /\ g[x] \in Int
  BY <1>1, SumIsInt DEF IntOn
<1> QED BY <1>2, <1>3, <1>4

\* The sum of nothing but zeros is zero.
LEMMA SumOfZeros ==
  ASSUME NEW f, NEW S, IsFiniteSet(S), \A x \in S : f[x] = 0
  PROVE  SumFunctionOnSet(f, S) = 0
<1> DEFINE Bad == {s \in SUBSET S : SumFunctionOnSet(f, s) # 0}
<1>1. ASSUME Bad # {} PROVE FALSE
  <2>1. PICK T \in Bad : Least(T, Bad)
    <3>1. Bad \subseteq SUBSET S  OBVIOUS
    <3> HIDE DEF Bad
    <3> QED BY <1>1, <3>1, LeastSet
  <2>2. IsFiniteSet(T)
    BY <2>1, FS_Subset
  <2>3. T # {}
    BY <2>1, SumOfNone, Zenon
  <2>4. Pick(T) \in S /\ Rest(T) \subseteq T /\ Rest(T) # T
    BY <2>1, <2>3, PickProps
  <2>5. SumFunctionOnSet(f, Rest(T)) = 0
    BY <2>1, <2>4 DEF Least
  <2>6. SumFunctionOnSet(f, T) = f[Pick(T)] + SumFunctionOnSet(f, Rest(T))
    BY <2>2, <2>3, SumUnfolds
  <2> QED BY <2>1, <2>4, <2>5, <2>6
<1> QED BY <1>1

\* A sum of natural numbers is one.
LEMMA SumIsNat ==
  ASSUME NEW f, NEW S, IsFiniteSet(S), \A x \in S : f[x] \in Nat
  PROVE  SumFunctionOnSet(f, S) \in Nat
<1> DEFINE Bad == {s \in SUBSET S : SumFunctionOnSet(f, s) \notin Nat}
<1>1. ASSUME Bad # {} PROVE FALSE
  <2>1. PICK T \in Bad : Least(T, Bad)
    <3>1. Bad \subseteq SUBSET S  OBVIOUS
    <3> HIDE DEF Bad
    <3> QED BY <1>1, <3>1, LeastSet
  <2>2. IsFiniteSet(T)
    BY <2>1, FS_Subset
  <2>3. T # {}
    BY <2>1, SumOfNone, 0 \in Nat, Zenon
  <2>4. Pick(T) \in S /\ Rest(T) \subseteq T /\ Rest(T) # T
    BY <2>1, <2>3, PickProps
  <2>5. SumFunctionOnSet(f, Rest(T)) \in Nat
    BY <2>1, <2>4 DEF Least
  <2>6. SumFunctionOnSet(f, T) = f[Pick(T)] + SumFunctionOnSet(f, Rest(T))
    BY <2>2, <2>3, SumUnfolds
  <2> QED BY <2>1, <2>4, <2>5, <2>6
<1> QED BY <1>1

\* What is left out of a sum of natural numbers makes it no larger.
LEMMA SumOfFewer ==
  ASSUME NEW f, NEW S, IsFiniteSet(S), \A x \in S : f[x] \in Nat, NEW R, R \subseteq S
  PROVE  SumFunctionOnSet(f, R) <= SumFunctionOnSet(f, S)
<1> DEFINE Fewer(s) == SumFunctionOnSet(f, s \cap R) <= SumFunctionOnSet(f, s)
           Bad == {s \in SUBSET S : ~ Fewer(s)}
<1>1. ASSUME Bad # {} PROVE FALSE
  <2>1. PICK T \in Bad : Least(T, Bad)
    <3>1. Bad \subseteq SUBSET S  OBVIOUS
    <3> HIDE DEF Bad
    <3> QED BY <1>1, <3>1, LeastSet
  <2>2. T # {}
    <3>1. SumFunctionOnSet(f, {}) <= SumFunctionOnSet(f, {})
      BY SumOfNone
    <3>2. {} \cap R = {}
      OBVIOUS
    <3> QED BY <2>1, <3>1, <3>2
  <2>3. PICK y \in T : TRUE
    BY <2>2
  <2> DEFINE U == T \ {y}
  <2>4. Fewer(U)
    <3>1. U \in SUBSET S /\ U \subseteq T /\ U # T
      BY <2>1, <2>3
    <3> HIDE DEF U, Fewer
    <3> QED BY <2>1, <3>1 DEF Least
  <2>5. /\ IsFiniteSet(T) /\ IsFiniteSet(U) /\ IsFiniteSet(T \cap R) /\ IsFiniteSet(U \cap R)
        /\ IntOn(f, T) /\ IntOn(f, T \cap R) /\ f[y] \in Nat
        /\ \A x \in U : f[x] \in Nat
    BY <2>1, FS_Subset DEF IntOn
  <2>6. SumFunctionOnSet(f, U) \in Nat /\ SumFunctionOnSet(f, U \cap R) \in Nat
    <3>1. \A x \in U \cap R : f[x] \in Nat
      BY <2>5
    <3> HIDE DEF U
    <3> QED BY <2>5, <3>1, SumIsNat
  <2>7. SumFunctionOnSet(f, T) = f[y] + SumFunctionOnSet(f, U)
    BY <2>5, SumTakeOut
  <2>8. CASE y \in R
    <3>1. y \in T \cap R /\ (T \cap R) \ {y} = U \cap R
      BY <2>8
    <3>2. SumFunctionOnSet(f, T \cap R) = f[y] + SumFunctionOnSet(f, U \cap R)
      <4>1. SumFunctionOnSet(f, T \cap R) = f[y] + SumFunctionOnSet(f, (T \cap R) \ {y})
        BY <2>5, <3>1, SumTakeOut
      <4> QED BY <3>1, <4>1, Zenon
    <3>3. Fewer(T)
      <4> HIDE DEF U
      <4> QED BY <2>4, <2>5, <2>6, <2>7, <3>2
    <3> QED BY <2>1, <3>3
  <2>9. CASE y \notin R
    <3>1. T \cap R = U \cap R
      BY <2>9
    <3>2. SumFunctionOnSet(f, T \cap R) = SumFunctionOnSet(f, U \cap R)
      BY <3>1, Zenon
    <3>3. SumFunctionOnSet(f, U \cap R) <= SumFunctionOnSet(f, U)
      BY <2>4
    <3>4. Fewer(T)
      <4> HIDE DEF U
      <4> QED BY <2>5, <2>6, <2>7, <3>2, <3>3
    <3> QED BY <2>1, <3>4
  <2> QED BY <2>8, <2>9
<1>2. Fewer(S)
  BY <1>1
<1>3. S \cap R = R
  OBVIOUS
<1> HIDE DEF Bad
<1> QED BY <1>2, <1>3, Zenon
=============================================================================
