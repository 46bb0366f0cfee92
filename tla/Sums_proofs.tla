---------------------------- MODULE Sums_proofs ------------------------------
(***************************************************************************)
(* Sums over finite sets, as SumFunctionOnSet defines them.  The library's *)
(* induction theorems take a predicate; here the induction is over a set    *)
(* of good subsets, which a prover can instantiate.                         *)
(***************************************************************************)
EXTENDS Integers, FiniteSets, Functions, FiniteSetTheorems, TLAPS

(* Induction over the subsets of a finite set: if a subset is good whenever *)
(* all its strict subsets are, all of them are good.                        *)
LEMMA SubsetInduction ==
  ASSUME NEW S, IsFiniteSet(S), NEW Good,
         \A T \in SUBSET S : (\A U \in SUBSET T : U # T => U \in Good) => T \in Good
  PROVE  \A T \in SUBSET S : T \in Good
<1> DEFINE Bad == {T \in SUBSET S : T \notin Good}
<1> SUFFICES ASSUME Bad # {} PROVE FALSE
  OBVIOUS
<1>1. Bad \subseteq FiniteSubsetsOf(S)
  BY FS_FiniteSubsetsOfFinite
<1>2. PICK T \in Bad : \A U \in Bad : ~(<<U, T>> \in StrictSubsetOrdering(S))
  <2> HIDE DEF Bad
  <2> QED BY <1>1, FS_StrictSubsetOrderingWellFounded, WFMin
<1>3. \A U \in SUBSET T : U # T => U \in Good
  BY <1>2 DEF StrictSubsetOrdering
<1> QED BY <1>3

(***************************************************************************)
(* The fold is well defined                                                *)
(***************************************************************************)
pick(s) == CHOOSE x \in s : TRUE
Adds(f, g, s) == IF s = {} THEN 0 ELSE f[pick(s)] + g[s \ {pick(s)}]
IsSum(f, S, g) == g = [s \in SUBSET S |-> Adds(f, g, s)]

LEMMA PickIn == \A s : s # {} => pick(s) \in s
  BY DEF pick

LEMMA SumIs ==
  ASSUME NEW f, NEW S
  PROVE  SumFunctionOnSet(f, S) = (CHOOSE g : IsSum(f, S, g))[S]
  BY DEF SumFunctionOnSet, FoldFunctionOnSet, MapThenFoldSet, IsSum, Adds, pick

(* Two functions that satisfy the recursion agree.                          *)
LEMMA SumUnique ==
  ASSUME NEW f, NEW S, NEW T \in SUBSET S, IsFiniteSet(T), NEW g, NEW h,
         IsSum(f, S, g), IsSum(f, T, h)
  PROVE  g[T] = h[T]
<1> DEFINE Good == {U \in SUBSET T : g[U] = h[U]}
<1>1. ASSUME NEW U \in SUBSET T, \A V \in SUBSET U : V # U => V \in Good
      PROVE  U \in Good
  <2>1. g[U] = Adds(f, g, U) /\ h[U] = Adds(f, h, U)
    BY DEF IsSum
  <2>2. CASE U = {}
    BY <2>1, <2>2 DEF Adds
  <2>3. CASE U # {}
    <3>1. pick(U) \in U
      BY <2>3, PickIn
    <3>2. g[U \ {pick(U)}] = h[U \ {pick(U)}]
      BY <1>1, <3>1
    <3> QED BY <2>1, <3>2 DEF Adds
  <2> QED BY <2>2, <2>3
<1>2. \A U \in SUBSET T : U \in Good
  <2> HIDE DEF Good
  <2> QED BY <1>1, SubsetInduction
<1> QED BY <1>2

(* The function of all sums below a finite set satisfies the recursion.     *)
LEMMA SumsAreSum ==
  ASSUME NEW f, NEW S, IsFiniteSet(S)
  PROVE  IsSum(f, S, [s \in SUBSET S |-> SumFunctionOnSet(f, s)])
<1> DEFINE Below(T) == [s \in SUBSET T |-> SumFunctionOnSet(f, s)]
           Good == {T \in SUBSET S : IsSum(f, T, Below(T))}
<1>1. ASSUME NEW T \in SUBSET S, \A U \in SUBSET T : U # T => U \in Good
      PROVE  T \in Good
  <2> DEFINE g == [s \in SUBSET T |-> IF s = T THEN Adds(f, Below(T), T) ELSE SumFunctionOnSet(f, s)]
             c == CHOOSE h : IsSum(f, T, h)
  <2>f. IsFiniteSet(T)
    BY FS_Subset
  <2>1. ASSUME NEW s \in SUBSET T PROVE Adds(f, Below(T), s) = Adds(f, g, s)
    <3>1. CASE s = {}
      BY <3>1 DEF Adds
    <3>2. CASE s # {}
      <4>1. pick(s) \in s
        BY <3>2, PickIn
      <4>2. s \ {pick(s)} \in SUBSET T /\ s \ {pick(s)} # T
        BY <4>1
      <4>3. Below(T)[s \ {pick(s)}] = g[s \ {pick(s)}]
        BY <4>2
      <4> QED BY <4>3 DEF Adds
    <3> QED BY <3>1, <3>2
  <2>2. ASSUME NEW s \in SUBSET T, s # T PROVE SumFunctionOnSet(f, s) = Adds(f, Below(T), s)
    <3>1. IsSum(f, s, Below(s))
      BY <1>1, <2>2
    <3>2. SumFunctionOnSet(f, s) = Adds(f, Below(s), s)
      <4>1. Below(s)[s] = Adds(f, Below(s), s)
        BY <3>1 DEF IsSum
      <4> QED BY <4>1
    <3>3. Adds(f, Below(s), s) = Adds(f, Below(T), s)
      <4>1. CASE s = {}
        BY <4>1 DEF Adds
      <4>2. CASE s # {}
        BY <4>2 DEF Adds
      <4> QED BY <4>1, <4>2
    <3> QED BY <3>2, <3>3
  <2>3. IsSum(f, T, g)
    <3>1. \A s \in SUBSET T : g[s] = Adds(f, g, s)
      BY <2>1, <2>2
    <3>2. g = [s \in SUBSET T |-> g[s]]
      OBVIOUS
    <3> HIDE DEF g
    <3> QED BY <3>1, <3>2 DEF IsSum
  <2>4. IsSum(f, T, c)
    <3> HIDE DEF g
    <3> QED BY <2>3
  <2>5. SumFunctionOnSet(f, T) = c[T]
    BY SumIs
  <2>6. c[T] = g[T]
    <3> HIDE DEF g, c
    <3> QED BY <2>f, <2>3, <2>4, SumUnique
  <2>7. \A s \in SUBSET T : SumFunctionOnSet(f, s) = Adds(f, Below(T), s)
    BY <2>2, <2>5, <2>6
  <2>8. Below(T) = [s \in SUBSET T |-> Adds(f, Below(T), s)]
    BY <2>7
  <2> QED BY <2>8 DEF IsSum
<1>2. \A T \in SUBSET S : T \in Good
  <2> HIDE DEF Good
  <2> QED BY <1>1, SubsetInduction
<1> QED BY <1>2

(* The sum over a set from the sum over the set without one element.        *)
LEMMA SumEmpty ==
  ASSUME NEW f
  PROVE  SumFunctionOnSet(f, {}) = 0
<1> DEFINE g == [s \in SUBSET {} |-> SumFunctionOnSet(f, s)]
<1>1. IsSum(f, {}, g)
  BY FS_EmptySet, SumsAreSum
<1>2. g[{}] = Adds(f, g, {})
  <2> HIDE DEF g
  <2> QED BY <1>1 DEF IsSum
<1>3. Adds(f, g, {}) = 0
  <2> HIDE DEF g
  <2> QED BY DEF Adds
<1>4. \A s \in SUBSET {} : g[s] = SumFunctionOnSet(f, s)
  OBVIOUS
<1> HIDE DEF g
<1> QED BY <1>2, <1>3, <1>4

LEMMA SumPick ==
  ASSUME NEW f, NEW S, IsFiniteSet(S), S # {}
  PROVE  SumFunctionOnSet(f, S) = f[pick(S)] + SumFunctionOnSet(f, S \ {pick(S)})
<1> DEFINE g == [s \in SUBSET S |-> SumFunctionOnSet(f, s)]
<1>1. IsSum(f, S, g)
  BY SumsAreSum
<1>2. \A s \in SUBSET S : g[s] = SumFunctionOnSet(f, s)
  OBVIOUS
<1> HIDE DEF g
<1>3. g[S] = Adds(f, g, S)
  BY <1>1 DEF IsSum
<1>4. S \in SUBSET S /\ S \ {pick(S)} \in SUBSET S
  OBVIOUS
<1> QED BY <1>2, <1>3, <1>4 DEF Adds

(***************************************************************************)
(* What sums are                                                           *)
(***************************************************************************)
LEMMA SumNat ==
  ASSUME NEW f, NEW S, IsFiniteSet(S), \A x \in S : f[x] \in Nat
  PROVE  SumFunctionOnSet(f, S) \in Nat
<1> DEFINE Good == {T \in SUBSET S : SumFunctionOnSet(f, T) \in Nat}
<1>1. ASSUME NEW T \in SUBSET S, \A U \in SUBSET T : U # T => U \in Good
      PROVE  T \in Good
  <2>1. CASE T = {}
    BY <2>1, SumEmpty
  <2>2. CASE T # {}
    <3>1. pick(T) \in T /\ IsFiniteSet(T)
      BY <2>2, PickIn, FS_Subset
    <3>2. SumFunctionOnSet(f, T \ {pick(T)}) \in Nat
      BY <1>1, <3>1
    <3>3. SumFunctionOnSet(f, T) = f[pick(T)] + SumFunctionOnSet(f, T \ {pick(T)})
      BY <2>2, <3>1, SumPick
    <3> QED BY <3>1, <3>2, <3>3
  <2> QED BY <2>1, <2>2
<1>2. \A T \in SUBSET S : T \in Good
  <2> HIDE DEF Good
  <2> QED BY <1>1, SubsetInduction
<1> QED BY <1>2

LEMMA SumInt ==
  ASSUME NEW f, NEW S, IsFiniteSet(S), \A x \in S : f[x] \in Int
  PROVE  SumFunctionOnSet(f, S) \in Int
<1> DEFINE Good == {T \in SUBSET S : SumFunctionOnSet(f, T) \in Int}
<1>1. ASSUME NEW T \in SUBSET S, \A U \in SUBSET T : U # T => U \in Good
      PROVE  T \in Good
  <2>1. CASE T = {}
    BY <2>1, SumEmpty
  <2>2. CASE T # {}
    <3>1. pick(T) \in T /\ IsFiniteSet(T)
      BY <2>2, PickIn, FS_Subset
    <3>2. SumFunctionOnSet(f, T \ {pick(T)}) \in Int
      BY <1>1, <3>1
    <3>3. SumFunctionOnSet(f, T) = f[pick(T)] + SumFunctionOnSet(f, T \ {pick(T)})
      BY <2>2, <3>1, SumPick
    <3> QED BY <3>1, <3>2, <3>3
  <2> QED BY <2>1, <2>2
<1>2. \A T \in SUBSET S : T \in Good
  <2> HIDE DEF Good
  <2> QED BY <1>1, SubsetInduction
<1> QED BY <1>2

(* Functions that agree on a set have the same sum over it.                 *)
LEMMA SumSame ==
  ASSUME NEW f, NEW g, NEW S, IsFiniteSet(S), \A x \in S : f[x] = g[x]
  PROVE  SumFunctionOnSet(f, S) = SumFunctionOnSet(g, S)
<1> DEFINE Good == {T \in SUBSET S : SumFunctionOnSet(f, T) = SumFunctionOnSet(g, T)}
<1>1. ASSUME NEW T \in SUBSET S, \A U \in SUBSET T : U # T => U \in Good
      PROVE  T \in Good
  <2>1. CASE T = {}
    BY <2>1, SumEmpty
  <2>2. CASE T # {}
    <3>1. pick(T) \in T /\ IsFiniteSet(T)
      BY <2>2, PickIn, FS_Subset
    <3>2. T \ {pick(T)} \in Good
      BY <1>1, <3>1
    <3> QED BY <2>2, <3>1, <3>2, SumPick
  <2> QED BY <2>1, <2>2
<1>2. \A T \in SUBSET S : T \in Good
  <2> HIDE DEF Good
  <2> QED BY <1>1, SubsetInduction
<1> QED BY <1>2

(* Any element can be split off.                                            *)
LEMMA SumSplit ==
  ASSUME NEW f, NEW S, IsFiniteSet(S), \A x \in S : f[x] \in Int, NEW x \in S
  PROVE  SumFunctionOnSet(f, S) = f[x] + SumFunctionOnSet(f, S \ {x})
<1> DEFINE Good == {T \in SUBSET S : \A y \in T :
                      SumFunctionOnSet(f, T) = f[y] + SumFunctionOnSet(f, T \ {y})}
<1>1. ASSUME NEW T \in SUBSET S, \A U \in SUBSET T : U # T => U \in Good
      PROVE  T \in Good
  <2> SUFFICES ASSUME NEW y \in T
               PROVE  SumFunctionOnSet(f, T) = f[y] + SumFunctionOnSet(f, T \ {y})
    OBVIOUS
  <2>f. IsFiniteSet(T)
    BY FS_Subset
  <2>1. SumFunctionOnSet(f, T) = f[pick(T)] + SumFunctionOnSet(f, T \ {pick(T)})
    BY <2>f, SumPick
  <2>2. CASE y = pick(T)
    BY <2>1, <2>2
  <2>3. CASE y # pick(T)
    <3> DEFINE p == pick(T)
               R == (T \ {p}) \ {y}
    <3>1. p \in T
      BY PickIn
    <3>2. R = (T \ {y}) \ {p} /\ R \in SUBSET S
      OBVIOUS
    <3>3. SumFunctionOnSet(f, T \ {p}) = f[y] + SumFunctionOnSet(f, R)
      BY <1>1, <2>3, <3>1
    <3>4. SumFunctionOnSet(f, T \ {y}) = f[p] + SumFunctionOnSet(f, R)
      BY <1>1, <2>3, <3>1, <3>2
    <3>5. SumFunctionOnSet(f, R) \in Int
      BY <3>2, FS_Subset, SumInt
    <3>6. f[p] \in Int /\ f[y] \in Int
      BY <3>1
    <3> HIDE DEF p, R
    <3> QED BY <2>1, <3>3, <3>4, <3>5, <3>6 DEF p
  <2> QED BY <2>2, <2>3
<1>2. \A T \in SUBSET S : T \in Good
  <2> HIDE DEF Good
  <2> QED BY <1>1, SubsetInduction
<1> QED BY <1>2

(* What an assignment to one element does to the sum.                       *)
LEMMA SumExcept ==
  ASSUME NEW S, IsFiniteSet(S), NEW f, \A y \in S : f[y] \in Int,
         NEW x \in S, NEW g, g[x] \in Int, \A y \in S : y # x => g[y] = f[y]
  PROVE  SumFunctionOnSet(g, S) = SumFunctionOnSet(f, S) + (g[x] - f[x])
<1>1. /\ SumFunctionOnSet(f, S) = f[x] + SumFunctionOnSet(f, S \ {x})
      /\ SumFunctionOnSet(g, S) = g[x] + SumFunctionOnSet(g, S \ {x})
  BY SumSplit
<1>2. IsFiniteSet(S \ {x}) /\ \A y \in S \ {x} : g[y] = f[y]
  BY FS_RemoveElement
<1>3. /\ SumFunctionOnSet(g, S \ {x}) = SumFunctionOnSet(f, S \ {x})
      /\ SumFunctionOnSet(f, S \ {x}) \in Int
  BY <1>2, SumSame, SumInt
<1> QED BY <1>1, <1>3

(* A sum of values that are not negative is at least that of a part.        *)
LEMMA SumPart ==
  ASSUME NEW S, IsFiniteSet(S), NEW f, \A x \in S : f[x] \in Nat, NEW P \in SUBSET S
  PROVE  SumFunctionOnSet(f, P) <= SumFunctionOnSet(f, S)
<1> DEFINE Good == {T \in SUBSET S : P \subseteq T =>
                      SumFunctionOnSet(f, P) <= SumFunctionOnSet(f, T)}
<1>1. ASSUME NEW T \in SUBSET S, \A U \in SUBSET T : U # T => U \in Good
      PROVE  T \in Good
  <2> SUFFICES ASSUME P \subseteq T
               PROVE  SumFunctionOnSet(f, P) <= SumFunctionOnSet(f, T)
    OBVIOUS
  <2>f. IsFiniteSet(T) /\ IsFiniteSet(P) /\ SumFunctionOnSet(f, P) \in Nat
    BY FS_Subset, SumNat
  <2>1. CASE T = P
    BY <2>f, <2>1
  <2>2. CASE T # P
    <3>1. PICK x \in T : x \notin P
      BY <2>2
    <3>2. SumFunctionOnSet(f, P) <= SumFunctionOnSet(f, T \ {x})
      BY <1>1, <3>1
    <3>3. SumFunctionOnSet(f, T) = f[x] + SumFunctionOnSet(f, T \ {x})
      BY <2>f, SumSplit
    <3>4. SumFunctionOnSet(f, T \ {x}) \in Nat
      BY FS_Subset, SumNat
    <3>5. f[x] \in Nat
      OBVIOUS
    <3> QED BY <2>f, <3>2, <3>3, <3>4, <3>5
  <2> QED BY <2>1, <2>2
<1>2. \A T \in SUBSET S : T \in Good
  <2> HIDE DEF Good
  <2> QED BY <1>1, SubsetInduction
<1> QED BY <1>2

(* Values in proportion have sums in proportion.                            *)
LEMMA Distributes == \A n, a, b \in Int : n * (a + b) = n * a + n * b
  BY SMT

LEMMA ProductInt == \A n, a \in Int : n * a \in Int
  BY SMT

LEMMA SumScaled ==
  ASSUME NEW S, IsFiniteSet(S), NEW f, NEW g, NEW n \in Int, NEW k \in Int,
         \A x \in S : f[x] \in Int /\ g[x] \in Int /\ n * g[x] <= k * f[x]
  PROVE  n * SumFunctionOnSet(g, S) <= k * SumFunctionOnSet(f, S)
<1> DEFINE Good == {T \in SUBSET S : n * SumFunctionOnSet(g, T) <= k * SumFunctionOnSet(f, T)}
<1>1. ASSUME NEW T \in SUBSET S, \A U \in SUBSET T : U # T => U \in Good
      PROVE  T \in Good
  <2>1. CASE T = {}
    BY <2>1, SumEmpty
  <2>2. CASE T # {}
    <3> DEFINE p == pick(T)
               F == SumFunctionOnSet(f, T \ {p})
               G == SumFunctionOnSet(g, T \ {p})
    <3>1. p \in T /\ IsFiniteSet(T) /\ IsFiniteSet(T \ {p})
      BY <2>2, PickIn, FS_Subset
    <3>2. n * G <= k * F
      BY <1>1, <3>1
    <3>3. F \in Int /\ G \in Int
      BY <3>1, SumInt
    <3>4. /\ SumFunctionOnSet(f, T) = f[p] + F
          /\ SumFunctionOnSet(g, T) = g[p] + G
      BY <2>2, <3>1, SumPick
    <3>5. f[p] \in Int /\ g[p] \in Int /\ n * g[p] <= k * f[p]
      BY <3>1
    <3>6. n * (g[p] + G) = n * g[p] + n * G /\ k * (f[p] + F) = k * f[p] + k * F
      <4> HIDE DEF p, F, G
      <4> QED BY <3>3, <3>5, Distributes
    <3>7. n * g[p] \in Int /\ n * G \in Int /\ k * f[p] \in Int /\ k * F \in Int
      <4> HIDE DEF p, F, G
      <4> QED BY <3>3, <3>5, ProductInt
    <3> HIDE DEF p, F, G
    <3>8. n * (g[p] + G) <= k * (f[p] + F)
      BY <3>2, <3>5, <3>6, <3>7
    <3> QED BY <3>4, <3>8
  <2> QED BY <2>1, <2>2
<1>2. \A T \in SUBSET S : T \in Good
  <2> HIDE DEF Good
  <2> QED BY <1>1, SubsetInduction
<1> QED BY <1>2
=============================================================================
