------------------------ MODULE AccountingTheorems -------------------------
(***************************************************************************)
(* What a sum over a function with a finite domain does when the function  *)
(* changes, and what rounding a quotient down or up costs: the facts       *)
(* behind every balance sheet in this project.                             *)
(*                                                                         *)
(* SumFunction is the fold of the community modules, defined by a          *)
(* recursion over the subsets of the domain.  The induction theorems of    *)
(* the library take a predicate as a parameter, which the provers cannot   *)
(* instantiate; here the predicate is a set, whose least missing number a  *)
(* well-founded order provides, and the instance is a matter of set        *)
(* membership.                                                             *)
(***************************************************************************)
EXTENDS Integers, FiniteSets, Functions, FiniteSetTheorems, WellFoundedInduction, TLAPS
-----------------------------------------------------------------------------
(* Induction on the naturals, over a set.                                  *)
LEMMA CountUp ==
  ASSUME NEW A, 0 \in A, \A n \in Nat : n \in A => n + 1 \in A
  PROVE  \A n \in Nat : n \in A
<1> SUFFICES ASSUME Nat \ A # {} PROVE FALSE
  OBVIOUS
<1>1. \E x \in Nat \ A : \A y \in Nat \ A : ~ (<<y, x>> \in OpToRel(<, Nat))
  <2>1. IsWellFoundedOn(OpToRel(<, Nat), Nat)
    BY NatLessThanWellFounded
  <2>. QED
    BY <2>1, WFMin
<1>2. PICK x \in Nat \ A : \A y \in Nat \ A : ~ (<<y, x>> \in OpToRel(<, Nat))
  BY <1>1
<1>3. x \in Nat /\ x \notin A /\ x # 0
  OBVIOUS
<1>4. x - 1 \in Nat /\ x - 1 < x /\ (x - 1) + 1 = x
  BY <1>3
<1>5. x - 1 \in A
  <2>1. CASE x - 1 \notin A
    <3>1. ~ (<<x - 1, x>> \in OpToRel(<, Nat))
      BY <1>2, <1>4, <2>1
    <3>. QED
      BY <3>1, <1>4, <1>2 DEF OpToRel
  <2>. QED
    BY <2>1
<1>6. (x - 1) + 1 \in A
  BY <1>4, <1>5
<1>. QED
  BY <1>3, <1>4, <1>6

(* Induction on a finite set, one element at a time, over a set of sets.   *)
LEMMA SetInduction ==
  ASSUME NEW S, IsFiniteSet(S),
         NEW A, {} \in A,
         \A T \in SUBSET S, x \in S : T \in A /\ x \notin T => T \cup {x} \in A
  PROVE  S \in A
<1> DEFINE N == {n \in Nat : \A T \in SUBSET S : Cardinality(T) = n => T \in A}
<1>1. \A T \in SUBSET S : IsFiniteSet(T) /\ Cardinality(T) \in Nat
  BY FS_Subset, FS_CardinalityType
<1>2. 0 \in N
  BY <1>1, FS_EmptySet
<1>3. \A n \in Nat : n \in N => n + 1 \in N
  <2> SUFFICES ASSUME NEW n \in Nat, n \in N, NEW T \in SUBSET S, Cardinality(T) = n + 1
               PROVE  T \in A
    OBVIOUS
  <2>1. T # {}
    <3>1. Cardinality({}) = 0
      BY FS_EmptySet
    <3>2. n + 1 # 0
      OBVIOUS
    <3>. QED
      BY <3>1, <3>2
  <2>2. PICK x \in T : TRUE
    BY <2>1
  <2>3. Cardinality(T \ {x}) = n
    BY <1>1, FS_RemoveElement
  <2>4. T \ {x} \in A
    BY <2>3
  <2>5. (T \ {x}) \cup {x} = T
    OBVIOUS
  <2>6. (T \ {x}) \cup {x} \in A
    BY <2>4
  <2>. QED
    BY <2>5, <2>6
<1> HIDE DEF N
<1>4. \A n \in Nat : n \in N
  BY <1>2, <1>3, CountUp
<1>. QED
  BY <1>1, <1>4 DEF N

-----------------------------------------------------------------------------
(* The recursion of SumFunction: the sums over the subsets of the domain.  *)
Choice(T) == CHOOSE x \in T : TRUE

Added(f, g, T) == IF T = {} THEN 0 ELSE f[Choice(T)] + g[T \ {Choice(T)}]

IsPartial(f, g) == g = [T \in SUBSET DOMAIN f |-> Added(f, g, T)]

Partial(f) == CHOOSE g : IsPartial(f, g)

(* The sum of a function is its partial sum over the whole domain.         *)
LEMMA SumIsPartial ==
  ASSUME NEW f
  PROVE  SumFunction(f) = Partial(f)[DOMAIN f]
BY DEF SumFunction, SumFunctionOnSet, FoldFunctionOnSet, MapThenFoldSet, Partial, IsPartial,
       Added, Choice

(* The recursion has a solution: one for the sets of at most n elements    *)
(* gives one for the sets of n + 1.                                        *)
LEMMA PartialExists ==
  ASSUME NEW S, IsFiniteSet(S), NEW f \in [S -> Int]
  PROVE  IsPartial(f, Partial(f))
<1> DEFINE Good(g, n) == \A T \in SUBSET S : Cardinality(T) <= n => g[T] = Added(f, g, T)
           N == {n \in Nat : \E g \in [SUBSET S -> Int] : Good(g, n)}
<1>1. \A T \in SUBSET S : IsFiniteSet(T) /\ Cardinality(T) \in Nat
  BY FS_Subset, FS_CardinalityType
<1>2. \A T \in SUBSET S : T # {} => /\ Choice(T) \in T /\ T \ {Choice(T)} \in SUBSET S
                                   /\ Cardinality(T \ {Choice(T)}) = Cardinality(T) - 1
  BY <1>1, FS_RemoveElement DEF Choice
<1>3. \A g \in [SUBSET S -> Int], T \in SUBSET S : Added(f, g, T) \in Int
  BY <1>2 DEF Added
<1>4. 0 \in N
  <2> DEFINE g == [T \in SUBSET S |-> 0]
  <2>1. g \in [SUBSET S -> Int]
    OBVIOUS
  <2>2. ASSUME NEW T \in SUBSET S, Cardinality(T) <= 0 PROVE g[T] = Added(f, g, T)
    <3>1. T = {}
      BY <1>1, <2>2, FS_EmptySet
    <3>. QED
      BY <3>1 DEF Added
  <2>. QED
    BY <2>1, <2>2
<1>5. ASSUME NEW n \in Nat, n \in N PROVE n + 1 \in N
  <2>1. PICK g \in [SUBSET S -> Int] : Good(g, n)
    BY <1>5
  <2> DEFINE h == [T \in SUBSET S |-> Added(f, g, T)]
  <2>2. h \in [SUBSET S -> Int]
    BY <1>3
  <2>3. ASSUME NEW T \in SUBSET S, Cardinality(T) <= n + 1 PROVE h[T] = Added(f, h, T)
    <3>1. CASE T = {}
      BY <3>1 DEF Added
    <3>2. CASE T # {}
      <4>1. T \ {Choice(T)} \in SUBSET S /\ Cardinality(T \ {Choice(T)}) <= n
        BY <1>1, <1>2, <2>3, <3>2
      <4>2. h[T \ {Choice(T)}] = g[T \ {Choice(T)}]
        BY <2>1, <4>1
      <4>. QED
        BY <3>2, <4>2 DEF Added
    <3>. QED
      BY <3>1, <3>2
  <2> HIDE DEF h
  <2>. QED
    BY <2>2, <2>3
<1> HIDE DEF N
<1>6. Cardinality(S) \in N
  BY <1>1, <1>4, <1>5, CountUp
<1>7. PICK g \in [SUBSET S -> Int] : Good(g, Cardinality(S))
  BY <1>6 DEF N
<1>8. IsPartial(f, g)
  <2>1. ASSUME NEW T \in SUBSET S PROVE g[T] = Added(f, g, T)
    BY <1>1, <1>7, FS_Subset
  <2>. QED
    BY <2>1 DEF IsPartial
<1>9. IsPartial(f, Partial(f))
  BY <1>8 DEF Partial
<1>. QED
  BY <1>9

(* A partial sum is an integer, and any element can be taken out first.    *)
LEMMA PartialRemove ==
  ASSUME NEW S, IsFiniteSet(S), NEW f \in [S -> Int], NEW T \in SUBSET S
  PROVE  /\ Partial(f)[T] \in Int
         /\ Partial(f)[{}] = 0
         /\ \A x \in T : Partial(f)[T] = f[x] + Partial(f)[T \ {x}]
<1> DEFINE P == Partial(f)
           Fine(U) == P[U] \in Int /\ \A x \in U : P[U] = f[x] + P[U \ {x}]
           N == {n \in Nat : \A U \in SUBSET S : Cardinality(U) <= n => Fine(U)}
<1>1. \A U \in SUBSET S : IsFiniteSet(U) /\ Cardinality(U) \in Nat
  BY FS_Subset, FS_CardinalityType
<1>2. \A U \in SUBSET S : \A x \in U : /\ U \ {x} \in SUBSET S
                                       /\ Cardinality(U \ {x}) = Cardinality(U) - 1
  BY <1>1, FS_RemoveElement
<1>3. \A U \in SUBSET S : P[U] = Added(f, P, U)
  BY PartialExists DEF IsPartial
<1>4. P[{}] = 0
  BY <1>3 DEF Added
<1> HIDE DEF P
<1>5. 0 \in N
  <2> SUFFICES ASSUME NEW U \in SUBSET S, Cardinality(U) <= 0 PROVE Fine(U)
    OBVIOUS
  <2>1. U = {}
    BY <1>1, FS_EmptySet
  <2>. QED
    BY <1>4, <2>1
<1>6. ASSUME NEW n \in Nat, n \in N PROVE n + 1 \in N
  <2> SUFFICES ASSUME NEW U \in SUBSET S, Cardinality(U) <= n + 1 PROVE Fine(U)
    OBVIOUS
  <2>1. CASE U = {}
    BY <1>4, <2>1
  <2>2. CASE U # {}
    <3> DEFINE c == Choice(U)
    <3>1. c \in U
      BY <2>2 DEF Choice
    <3>2. P[U] = f[c] + P[U \ {c}]
      BY <1>3, <2>2 DEF Added
    <3> HIDE DEF c
    <3>3. Fine(U \ {c})
      BY <1>1, <1>2, <1>6, <3>1, SMTT(60)
    <3>4. f[c] \in Int /\ P[U] \in Int
      BY <3>1, <3>2, <3>3
    <3>5. ASSUME NEW x \in U, x # c PROVE P[U] = f[x] + P[U \ {x}]
      <4>1. Fine(U \ {x})
        BY <1>1, <1>2, <1>6
      <4>2. P[U \ {c}] = f[x] + P[(U \ {c}) \ {x}]
        BY <3>3, <3>5
      <4>3. P[U \ {x}] = f[c] + P[(U \ {x}) \ {c}]
        BY <3>1, <3>5, <4>1
      <4>4. (U \ {c}) \ {x} = (U \ {x}) \ {c}
        OBVIOUS
      <4>5. Fine((U \ {x}) \ {c})
        <5> DEFINE V == U \ {x}
                   W == V \ {c}
        <5>1. V \in SUBSET S /\ Cardinality(V) = Cardinality(U) - 1 /\ c \in V
          BY <1>2, <3>1, <3>5
        <5> HIDE DEF V
        <5>2. W \in SUBSET S /\ Cardinality(W) = Cardinality(V) - 1
          BY <1>2, <5>1
        <5> HIDE DEF W
        <5>3. Cardinality(W) <= n
          BY <1>1, <5>1, <5>2
        <5>4. Fine(W)
          BY <1>6, <5>2, <5>3
        <5>. QED
          BY <5>4 DEF V, W
      <4>6. f[x] \in Int
        OBVIOUS
      <4>7. f[c] \in Int
        BY <3>4
      <4> DEFINE rest == P[(U \ {x}) \ {c}]
      <4>8. rest \in Int
        BY <4>5
      <4>9. P[U] = f[c] + (f[x] + rest) /\ P[U \ {x}] = f[c] + rest
        BY <3>2, <4>2, <4>3, <4>4
      <4> HIDE DEF rest
      <4>. QED
        BY <4>6, <4>7, <4>8, <4>9
    <3>. QED
      BY <3>2, <3>4, <3>5
  <2>. QED
    BY <2>1, <2>2
<1> HIDE DEF N
<1>7. Cardinality(T) \in N
  BY <1>1, <1>5, <1>6, CountUp
<1>8. Fine(T)
  BY <1>1, <1>7 DEF N
<1>. QED
  BY <1>4, <1>8 DEF P

(* ... or put in last.                                                     *)
LEMMA PartialAdd ==
  ASSUME NEW S, IsFiniteSet(S), NEW f \in [S -> Int], NEW T \in SUBSET S,
         NEW x \in S, x \notin T
  PROVE  Partial(f)[T \cup {x}] = f[x] + Partial(f)[T]
<1>1. T \cup {x} \in SUBSET S /\ x \in T \cup {x} /\ (T \cup {x}) \ {x} = T
  OBVIOUS
<1>. QED
  BY <1>1, PartialRemove

(* A partial sum depends on the values it adds, not on the function.       *)
LEMMA PartialLocal ==
  ASSUME NEW S, IsFiniteSet(S), NEW f \in [S -> Int],
         NEW R, IsFiniteSet(R), NEW e \in [R -> Int],
         NEW T, T \subseteq S, T \subseteq R, \A x \in T : f[x] = e[x]
  PROVE  Partial(f)[T] = Partial(e)[T]
<1>1. ASSUME NEW U \in SUBSET T, NEW x \in T, x \notin U, Partial(f)[U] = Partial(e)[U]
      PROVE  Partial(f)[U \cup {x}] = Partial(e)[U \cup {x}]
  <2>1. U \in SUBSET S /\ x \in S /\ U \in SUBSET R /\ x \in R
    OBVIOUS
  <2>2. Partial(f)[U \cup {x}] = f[x] + Partial(f)[U]
    BY <1>1, <2>1, PartialAdd
  <2>3. Partial(e)[U \cup {x}] = e[x] + Partial(e)[U]
    BY <1>1, <2>1, PartialAdd
  <2>. QED
    BY <1>1, <2>2, <2>3
<1> DEFINE A == {U \in SUBSET T : Partial(f)[U] = Partial(e)[U]}
<1>2. IsFiniteSet(T)
  BY FS_Subset
<1>3. {} \in A
  BY PartialRemove
<1>4. \A U \in SUBSET T, x \in T : U \in A /\ x \notin U => U \cup {x} \in A
  BY <1>1
<1> HIDE DEF A
<1>5. T \in A
  BY <1>2, <1>3, <1>4, SetInduction
<1>. QED
  BY <1>5 DEF A
-----------------------------------------------------------------------------
(* The sum of integers is one; over the empty set it is zero.              *)
LEMMA SumType ==
  ASSUME NEW S, IsFiniteSet(S), NEW f \in [S -> Int]
  PROVE  SumFunction(f) \in Int /\ (S = {} => SumFunction(f) = 0)
<1>1. DOMAIN f = S /\ S \in SUBSET S
  OBVIOUS
<1>2. Partial(f)[S] \in Int /\ Partial(f)[{}] = 0
  BY <1>1, PartialRemove
<1>. QED
  BY <1>1, <1>2, SumIsPartial

(* One element at a time.                                                  *)
LEMMA SumRemove ==
  ASSUME NEW S, IsFiniteSet(S), NEW f \in [S -> Int], NEW x \in S
  PROVE  SumFunction(f) = f[x] + SumFunction([y \in S \ {x} |-> f[y]])
<1> DEFINE R == S \ {x}
           e == [y \in R |-> f[y]]
<1>1. IsFiniteSet(R) /\ e \in [R -> Int] /\ R \in SUBSET S /\ DOMAIN e = R /\ DOMAIN f = S
  BY FS_RemoveElement
<1>2. \A y \in R : f[y] = e[y]
  OBVIOUS
<1>3. Partial(f)[S] = f[x] + Partial(f)[R]
  BY PartialRemove
<1> HIDE DEF R, e
<1>4. Partial(f)[R] = Partial(e)[R]
  BY <1>1, <1>2, PartialLocal
<1>. QED
  BY <1>1, <1>3, <1>4, SumIsPartial DEF R, e

(* A domain that grows by one.                                             *)
LEMMA SumExtend ==
  ASSUME NEW S, IsFiniteSet(S), NEW x, x \notin S
  PROVE  \A f \in [S -> Int], g \in [S \cup {x} -> Int] :
           (\A y \in S : g[y] = f[y]) => SumFunction(g) = SumFunction(f) + g[x]
<1> SUFFICES ASSUME NEW f \in [S -> Int], NEW g \in [S \cup {x} -> Int], \A y \in S : g[y] = f[y]
             PROVE  SumFunction(g) = SumFunction(f) + g[x]
  OBVIOUS
<1>1. IsFiniteSet(S \cup {x})
  BY FS_AddElement
<1>2. SumFunction(g) = g[x] + SumFunction([y \in (S \cup {x}) \ {x} |-> g[y]])
  BY <1>1, SumRemove
<1>3. [y \in (S \cup {x}) \ {x} |-> g[y]] = f
  OBVIOUS
<1>4. g[x] \in Int /\ SumFunction(f) \in Int
  BY SumType
<1>. QED
  BY <1>2, <1>3, <1>4

(* One value replaced.                                                     *)
LEMMA SumUpdate ==
  ASSUME NEW S, IsFiniteSet(S), NEW f \in [S -> Int], NEW g \in [S -> Int],
         NEW x \in S, \A y \in S : y # x => g[y] = f[y]
  PROVE  SumFunction(g) = SumFunction(f) - f[x] + g[x]
<1> DEFINE rest(e) == [y \in S \ {x} |-> e[y]]
<1>1. ASSUME NEW e \in [S -> Int]
      PROVE  /\ SumFunction(e) = e[x] + SumFunction(rest(e))
             /\ SumFunction(rest(e)) \in Int /\ e[x] \in Int
  <2>1. SumFunction(e) = e[x] + SumFunction(rest(e))
    BY SumRemove
  <2>2. IsFiniteSet(S \ {x}) /\ rest(e) \in [S \ {x} -> Int] /\ e[x] \in Int
    BY FS_RemoveElement
  <2> HIDE DEF rest
  <2>3. SumFunction(rest(e)) \in Int
    BY <2>2, SumType
  <2>. QED
    BY <2>1, <2>2, <2>3
<1>2. rest(f) = rest(g)
  OBVIOUS
<1> HIDE DEF rest
<1>. QED
  BY <1>1, <1>2

(* The sum of a pointwise sum.                                             *)
LEMMA SumPlus ==
  ASSUME NEW S, IsFiniteSet(S), NEW f \in [S -> Int], NEW g \in [S -> Int], NEW h \in [S -> Int],
         \A x \in S : h[x] = f[x] + g[x]
  PROVE  SumFunction(h) = SumFunction(f) + SumFunction(g)
<1>1. ASSUME NEW U \in SUBSET S, NEW x \in S, x \notin U,
             Partial(h)[U] = Partial(f)[U] + Partial(g)[U]
      PROVE  Partial(h)[U \cup {x}] = Partial(f)[U \cup {x}] + Partial(g)[U \cup {x}]
  <2>0. \A e \in [S -> Int] : Partial(e)[U \cup {x}] = e[x] + Partial(e)[U]
    BY <1>1, PartialAdd
  <2>1. Partial(f)[U \cup {x}] = f[x] + Partial(f)[U]
    BY <2>0
  <2>2. Partial(g)[U \cup {x}] = g[x] + Partial(g)[U]
    BY <2>0
  <2>3. Partial(h)[U \cup {x}] = h[x] + Partial(h)[U]
    BY <2>0
  <2>4. Partial(f)[U] \in Int /\ Partial(g)[U] \in Int /\ f[x] \in Int /\ g[x] \in Int
    BY PartialRemove
  <2>. QED
    BY <1>1, <2>1, <2>2, <2>3, <2>4
<1> DEFINE A == {U \in SUBSET S : Partial(h)[U] = Partial(f)[U] + Partial(g)[U]}
<1>2. {} \in A
  BY PartialRemove
<1>3. \A U \in SUBSET S, x \in S : U \in A /\ x \notin U => U \cup {x} \in A
  BY <1>1
<1> HIDE DEF A
<1>9. S \in A
  BY <1>2, <1>3, SetInduction
<1>8. DOMAIN f = S /\ DOMAIN g = S /\ DOMAIN h = S
  OBVIOUS
<1>. QED
  BY <1>9, <1>8, SumIsPartial DEF A

(* Larger values, larger sum.                                              *)
LEMMA SumMonotonic ==
  ASSUME NEW S, IsFiniteSet(S), NEW f \in [S -> Int], NEW g \in [S -> Int],
         \A x \in S : f[x] <= g[x]
  PROVE  SumFunction(f) <= SumFunction(g)
<1>1. ASSUME NEW U \in SUBSET S, NEW x \in S, x \notin U,
             Partial(f)[U] <= Partial(g)[U]
      PROVE  Partial(f)[U \cup {x}] <= Partial(g)[U \cup {x}]
  <2>1. Partial(f)[U \cup {x}] = f[x] + Partial(f)[U]
    BY <1>1, PartialAdd
  <2>2. Partial(g)[U \cup {x}] = g[x] + Partial(g)[U]
    BY <1>1, PartialAdd
  <2>3. Partial(f)[U] \in Int /\ Partial(g)[U] \in Int /\ f[x] \in Int /\ g[x] \in Int
    BY PartialRemove
  <2>. QED
    BY <1>1, <2>1, <2>2, <2>3
<1> DEFINE A == {U \in SUBSET S : Partial(f)[U] <= Partial(g)[U]}
<1>2. {} \in A
  BY PartialRemove
<1>3. \A U \in SUBSET S, x \in S : U \in A /\ x \notin U => U \cup {x} \in A
  BY <1>1
<1> HIDE DEF A
<1>9. S \in A
  BY <1>2, <1>3, SetInduction
<1>8. DOMAIN f = S /\ DOMAIN g = S
  OBVIOUS
<1>. QED
  BY <1>9, <1>8, SumIsPartial DEF A

(* Nothing anywhere adds up to nothing.                                    *)
LEMMA SumZero ==
  ASSUME NEW S, IsFiniteSet(S), NEW f \in [S -> Int], \A x \in S : f[x] = 0
  PROVE  SumFunction(f) = 0
<1>1. SumFunction(f) = SumFunction(f) + SumFunction(f)
  <2>1. \A x \in S : f[x] = f[x] + f[x]
    OBVIOUS
  <2>2. \A g \in [S -> Int] : (\A x \in S : f[x] = g[x] + g[x])
                           => SumFunction(f) = SumFunction(g) + SumFunction(g)
    BY SumPlus
  <2>. QED
    BY <2>1, <2>2
<1> DEFINE total == SumFunction(f)
<1>2. total \in Int
  BY SumType
<1>3. total = total + total
  BY <1>1
<1> HIDE DEF total
<1>4. total = 0
  BY <1>2, <1>3
<1>. QED
  BY <1>4 DEF total

(* Naturals add up to a natural, no less than any one of them.             *)
LEMMA SumNat ==
  ASSUME NEW S, IsFiniteSet(S), NEW f \in [S -> Nat]
  PROVE  SumFunction(f) \in Nat /\ \A x \in S : f[x] <= SumFunction(f)
<1> DEFINE zero == [x \in S |-> 0]
<1>1. f \in [S -> Int] /\ zero \in [S -> Int] /\ \A y \in S : zero[y] = 0 /\ zero[y] <= f[y]
  OBVIOUS
<1>2. SumFunction(f) \in Int
  BY <1>1, SumType
<1> HIDE DEF zero
<1>3. SumFunction(zero) = 0
  BY <1>1, SumZero
<1>4. SumFunction(zero) <= SumFunction(f)
  BY <1>1, SumMonotonic
<1>5. ASSUME NEW x \in S PROVE f[x] <= SumFunction(f)
  <2> DEFINE one == [y \in S |-> IF y = x THEN f[x] ELSE 0]
  <2>1. one \in [S -> Int] /\ one[x] = f[x] /\ \A y \in S : one[y] <= f[y] /\ (y # x => one[y] = zero[y])
    BY DEF zero
  <2> HIDE DEF one
  <2>2. SumFunction(one) = SumFunction(zero) - zero[x] + one[x]
    BY <1>1, <2>1, SumUpdate
  <2>3. SumFunction(one) <= SumFunction(f)
    BY <1>1, <2>1, SumMonotonic
  <2>4. zero[x] = 0 /\ f[x] \in Int
    BY <1>1
  <2>. QED
    BY <1>2, <1>3, <2>1, <2>2, <2>3, <2>4
<1>. QED
  BY <1>2, <1>3, <1>4, <1>5
-----------------------------------------------------------------------------
(* Products of naturals.                                                   *)
LEMMA ProductNat == ASSUME NEW x \in Nat, NEW y \in Nat PROVE x * y \in Nat
OBVIOUS

LEMMA ProductMonotonic ==
  ASSUME NEW a \in Nat, NEW b \in Nat, NEW c \in Nat, NEW d \in Nat, a <= b, c <= d
  PROVE  a * c <= b * d
OBVIOUS

LEMMA CancelFactor ==
  ASSUME NEW a \in Nat, NEW b \in Nat, NEW c \in Nat \ {0}, a * c <= b * c
  PROVE  a <= b
OBVIOUS

LEMMA CancelFactorStrict ==
  ASSUME NEW a \in Nat, NEW b \in Nat, NEW c \in Nat, a * c < b * c
  PROVE  a < b
OBVIOUS

(* A quotient rounded down, within one of the exact one.                   *)
LEMMA QuotientDown ==
  ASSUME NEW a \in Nat, NEW b \in Nat \ {0}
  PROVE  /\ a \div b \in Nat
         /\ b * (a \div b) <= a
         /\ a < b * (a \div b) + b
OBVIOUS

(* ... and up.                                                             *)
LEMMA QuotientUp ==
  ASSUME NEW a \in Nat, NEW b \in Nat \ {0}
  PROVE  /\ (a + b - 1) \div b \in Nat
         /\ a <= b * ((a + b - 1) \div b)
<1> DEFINE c == a + b - 1
           q == c \div b
<1>1. c \in Nat /\ c + 1 = a + b
  OBVIOUS
<1> HIDE DEF c
<1>2. q \in Nat /\ c < b * q + b
  BY <1>1, QuotientDown
<1> HIDE DEF q
<1>3. b * q \in Nat
  BY <1>2
<1>4. a <= b * q
  BY <1>1, <1>2, <1>3
<1>. QED
  BY <1>2, <1>4 DEF q, c

(* Part of a holding, as the same part of what it is a share of, is at     *)
(* most that, and less unless the part is the whole.                       *)
LEMMA PartOfWhole ==
  ASSUME NEW part \in Nat, NEW whole \in Nat \ {0}, part <= whole, NEW reserve \in Nat
  PROVE  LET out == (part * reserve) \div whole
         IN  /\ out \in Nat /\ out <= reserve
             /\ part < whole /\ reserve > 0 => out < reserve
             /\ reserve * (whole - part) <= whole * (reserve - out)
<1> DEFINE out == (part * reserve) \div whole
<1>1. part * reserve \in Nat /\ whole * reserve \in Nat
  BY ProductNat
<1>2. out \in Nat /\ whole * out <= part * reserve
  BY <1>1, QuotientDown
<1> HIDE DEF out
<1>3. part * reserve <= whole * reserve
  BY ProductMonotonic
<1>4. whole * out \in Nat
  BY <1>2, ProductNat
<1>5. out * whole <= reserve * whole
  BY <1>1, <1>2, <1>3, <1>4
<1>6. out <= reserve
  BY <1>2, <1>5, CancelFactor
<1>7. ASSUME part < whole, reserve > 0 PROVE out < reserve
  <2>1. part * reserve < whole * reserve
    BY <1>7
  <2>2. out * whole < reserve * whole
    BY <1>1, <1>2, <1>4, <2>1
  <2>. QED
    BY <1>2, <2>2, CancelFactorStrict
<1>8. reserve * (whole - part) <= whole * (reserve - out)
  <2>1. reserve * (whole - part) = whole * reserve - part * reserve
    OBVIOUS
  <2>2. whole * (reserve - out) = whole * reserve - whole * out
    BY <1>2
  <2>. QED
    BY <1>1, <1>2, <1>4, <2>1, <2>2
<1>. QED
  BY <1>2, <1>6, <1>7, <1>8 DEF out

(* The constant-product trade: the fee stays in, the division rounds down, *)
(* and the product of the reserves does not fall.                          *)
LEMMA TradeKeepsProduct ==
  ASSUME NEW rIn \in Nat \ {0}, NEW rOut \in Nat \ {0}, NEW a \in Nat,
         NEW B \in Nat \ {0}, NEW x \in Nat, x <= a * B
  PROVE  LET out == (rOut * x) \div (rIn * B + x)
         IN  /\ out \in Nat /\ out < rOut
             /\ rIn * rOut <= (rIn + a) * (rOut - out)
<1> DEFINE D == rIn * B + x
           out == (rOut * x) \div D
<1>1. rIn * B \in Nat \ {0}
  OBVIOUS
<1>2. D \in Nat \ {0} /\ D > x
  BY <1>1
<1>3. rOut * x \in Nat
  BY ProductNat
<1>4. D = rIn * B + x
  OBVIOUS
<1> HIDE DEF D
<1>5. out \in Nat /\ D * out <= rOut * x
  BY <1>2, <1>3, QuotientDown
<1> HIDE DEF out
<1>6. out < rOut
  <2>1. rOut * x < rOut * D
    BY <1>2
  <2>2. rOut * D \in Nat /\ D * out \in Nat
    BY <1>2, <1>5, ProductNat
  <2>3. out * D < rOut * D
    BY <1>2, <1>3, <1>5, <2>1, <2>2
  <2>. QED
    BY <1>2, <1>5, <2>3, CancelFactorStrict
<1> DEFINE left == rOut - out
<1>7. left \in Nat /\ rOut = left + out
  BY <1>5, <1>6
<1> HIDE DEF left
<1>8. (out * rIn) * B <= left * x
  <2>1. D * out = (out * rIn) * B + x * out
    BY <1>4, <1>5
  <2>2. rOut * x = left * x + x * out
    BY <1>5, <1>7
  <2>3. (out * rIn) * B \in Nat /\ left * x \in Nat /\ x * out \in Nat
    BY <1>5, <1>7, ProductNat
  <2>. QED
    BY <1>5, <2>1, <2>2, <2>3
<1>9. out * rIn <= left * a
  <2>1. left * x <= left * (a * B)
    BY <1>7, ProductMonotonic, ProductNat
  <2>2. left * (a * B) = (left * a) * B
    BY <1>7
  <2>3. out * rIn \in Nat /\ left * a \in Nat
    BY <1>5, <1>7, ProductNat
  <2>4. (out * rIn) * B \in Nat /\ left * x \in Nat /\ (left * a) * B \in Nat
    BY <1>7, <2>3, ProductNat
  <2>5. (out * rIn) * B <= (left * a) * B
    BY <1>8, <2>1, <2>2, <2>4
  <2>. QED
    BY <2>3, <2>5, CancelFactor
<1>10. rIn * rOut <= (rIn + a) * left
  <2>1. rIn * rOut = rIn * left + out * rIn
    BY <1>5, <1>7
  <2>2. (rIn + a) * left = rIn * left + left * a
    BY <1>7
  <2>3. out * rIn \in Nat /\ left * a \in Nat /\ rIn * left \in Nat
    BY <1>5, <1>7, ProductNat
  <2>. QED
    BY <1>9, <2>1, <2>2, <2>3
<1>. QED
  BY <1>5, <1>6, <1>10 DEF left, out, D
(* Two reserves that keep up with the shares keep the product per share    *)
(* squared.                                                                *)
LEMMA BothSidesKept ==
  ASSUME NEW r \in Nat, NEW r2 \in Nat, NEW q \in Nat, NEW q2 \in Nat,
         NEW t \in Nat, NEW t2 \in Nat,
         r * t2 <= t * r2, q * t2 <= t * q2
  PROVE  r2 * q2 * t * t >= r * q * t2 * t2
<1>1. /\ r * t2 \in Nat /\ t * r2 \in Nat /\ q * t2 \in Nat /\ t * q2 \in Nat
  BY ProductNat
<1>2. (r * t2) * (q * t2) <= (t * r2) * (t * q2)
  BY <1>1, ProductMonotonic
<1>3. (r * t2) * (q * t2) = r * q * t2 * t2
  OBVIOUS
<1>4. (t * r2) * (t * q2) = r2 * q2 * t * t
  OBVIOUS
<1>. QED
  BY <1>2, <1>3, <1>4

(* Every natural has a square root, rounded down.                          *)
LEMMA SquareRoot ==
  ASSUME NEW y \in Nat
  PROVE  \E z \in 0 .. y : z * z <= y /\ (z + 1) * (z + 1) > y
<1> DEFINE Root(n, z) == z * z <= n /\ (z + 1) * (z + 1) > n
           A == {n \in Nat : \E z \in 0 .. n : Root(n, z)}
<1>1. 0 \in A
  <2>1. 0 \in 0 .. 0 /\ Root(0, 0)
    OBVIOUS
  <2>. QED
    BY <2>1
<1>2. ASSUME NEW n \in Nat, n \in A PROVE n + 1 \in A
  <2>1. PICK z \in 0 .. n : Root(n, z)
    BY <1>2
  <2>2. CASE (z + 1) * (z + 1) > n + 1
    <3>1. z \in 0 .. n + 1 /\ Root(n + 1, z)
      BY <2>1, <2>2
    <3>. QED
      BY <3>1
  <2>3. CASE ~((z + 1) * (z + 1) > n + 1)
    <3>1. (z + 2) * (z + 2) = (z + 1) * (z + 1) + 2 * z + 3 /\ (z + 1) + 1 = z + 2
      OBVIOUS
    <3>2. (z + 1) * (z + 1) \in Nat
      OBVIOUS
    <3>3. z + 1 \in 0 .. n + 1
      OBVIOUS
    <3>4. (z + 1) * (z + 1) <= n + 1
      BY <2>3, <3>2
    <3>5. (z + 2) * (z + 2) > n + 1
      BY <2>1, <3>1, <3>2
    <3> DEFINE w == z + 1
    <3>6. w \in 0 .. n + 1 /\ w * w <= n + 1 /\ (w + 1) * (w + 1) > n + 1
      BY <3>1, <3>3, <3>4, <3>5
    <3> HIDE DEF w
    <3>. QED
      BY <3>6
  <2>. QED
    BY <2>2, <2>3
<1> HIDE DEF A
<1>3. y \in A
  BY <1>1, <1>2, CountUp
<1>. QED
  BY <1>3 DEF A
-----------------------------------------------------------------------------
(* PartialAdd for every function at once.                                 *)
LEMMA PartialsAdd ==
  ASSUME NEW S, IsFiniteSet(S), NEW T \in SUBSET S, NEW x \in S, x \notin T
  PROVE  \A f \in [S -> Int] : Partial(f)[T \cup {x}] = f[x] + Partial(f)[T]
BY PartialAdd

(* A sum over part of the domain, as a sum over all of it.                 *)
LEMMA SumRestrict ==
  ASSUME NEW S, IsFiniteSet(S), NEW T \in SUBSET S, NEW f \in [T -> Int], NEW g \in [S -> Int],
         \A x \in S : g[x] = IF x \in T THEN f[x] ELSE 0
  PROVE  SumFunction(f) = SumFunction(g)
<1>1. ASSUME NEW U \in SUBSET (S \ T), NEW x \in S \ T, x \notin U,
             SumFunction([y \in T \cup U |-> g[y]]) = SumFunction(f)
      PROVE  SumFunction([y \in T \cup (U \cup {x}) |-> g[y]]) = SumFunction(f)
  <2> DEFINE V == T \cup U
             h == [y \in V |-> g[y]]
             k == [y \in V \cup {x} |-> g[y]]
  <2>1. IsFiniteSet(V)
    BY FS_Subset
  <2>2. x \notin V /\ h \in [V -> Int] /\ k \in [V \cup {x} -> Int]
        /\ (\A y \in V : k[y] = h[y]) /\ k[x] = 0
    <3>1. V \in SUBSET S /\ x \in S /\ x \notin V /\ g[x] = 0
      BY <1>1
    <3> HIDE DEF V
    <3>. QED
      BY <3>1
  <2>3. SumFunction(h) \in Int
    BY <2>1, <2>2, SumType
  <2>4. T \cup (U \cup {x}) = V \cup {x}
    OBVIOUS
  <2>5. SumFunction(h) = SumFunction(f)
    BY <1>1
  <2> HIDE DEF V, h, k
  <2>6. SumFunction(k) = SumFunction(h) + k[x]
    <3>1. \A e \in [V -> Int], e2 \in [V \cup {x} -> Int] :
            (\A y \in V : e2[y] = e[y]) => SumFunction(e2) = SumFunction(e) + e2[x]
      <4>1. IsFiniteSet(V) /\ x \notin V
        BY <2>1, <2>2
      <4>. QED
        BY ONLY <4>1, SumExtend, Zenon
    <3>. QED
      BY <2>2, <3>1, Zenon
  <2>7. SumFunction(k) = SumFunction(f)
    BY <2>2, <2>3, <2>5, <2>6
  <2>. QED
    BY <2>4, <2>7 DEF k
<1> DEFINE A == {U \in SUBSET (S \ T) : SumFunction([y \in T \cup U |-> g[y]]) = SumFunction(f)}
<1>2. {} \in A
  <2>1. T \cup {} = T /\ [y \in T |-> g[y]] = f
    OBVIOUS
  <2>2. [y \in T \cup {} |-> g[y]] = f
    BY <2>1
  <2>. QED
    BY <2>2
<1>3. \A U \in SUBSET (S \ T), x \in S \ T : U \in A /\ x \notin U => U \cup {x} \in A
  BY <1>1
<1> HIDE DEF A
<1>4. IsFiniteSet(S \ T)
  BY FS_Subset
<1>5. S \ T \in A
  BY <1>2, <1>3, <1>4, SetInduction
<1>6. T \cup (S \ T) = S /\ [y \in S |-> g[y]] = g
  OBVIOUS
<1>7. [y \in T \cup (S \ T) |-> g[y]] = g
  BY <1>6
<1>. QED
  BY <1>5, <1>7 DEF A

(* A constant factor.                                                      *)
LEMMA SumScale ==
  ASSUME NEW S, IsFiniteSet(S), NEW f \in [S -> Int], NEW c \in Int, NEW g \in [S -> Int],
         \A x \in S : g[x] = c * f[x]
  PROVE  SumFunction(g) = c * SumFunction(f)
<1>1. ASSUME NEW U \in SUBSET S, NEW x \in S, x \notin U, Partial(g)[U] = c * Partial(f)[U]
      PROVE  Partial(g)[U \cup {x}] = c * Partial(f)[U \cup {x}]
  <2>9. x \notin U
    BY <1>1
  <2>0. \A e \in [S -> Int] : Partial(e)[U \cup {x}] = e[x] + Partial(e)[U]
    BY <2>9, PartialsAdd, ZenonT(60)
  <2>1. Partial(f)[U \cup {x}] = f[x] + Partial(f)[U]
    BY <2>0
  <2>2. Partial(g)[U \cup {x}] = g[x] + Partial(g)[U]
    BY <2>0
  <2> DEFINE m == Partial(f)[U]
             n == f[x]
  <2>3. m \in Int /\ n \in Int
    BY PartialRemove
  <2>4. g[x] = c * n
    OBVIOUS
  <2>5. Partial(f)[U \cup {x}] = n + m /\ Partial(g)[U \cup {x}] = c * n + c * m
    BY <1>1, <2>1, <2>2, <2>4
  <2> HIDE DEF m, n
  <2>6. c * n + c * m = c * (n + m)
    BY <2>3
  <2>. QED
    BY <2>5, <2>6
<1> DEFINE A == {U \in SUBSET S : Partial(g)[U] = c * Partial(f)[U]}
<1>2. {} \in A
  <2>1. Partial(f)[{}] = 0 /\ Partial(g)[{}] = 0
    BY PartialRemove
  <2>2. c * 0 = 0
    OBVIOUS
  <2>. QED
    BY <2>1, <2>2
<1>3. \A U \in SUBSET S, x \in S : U \in A /\ x \notin U => U \cup {x} \in A
  BY <1>1
<1> HIDE DEF A
<1>9. S \in A
  BY <1>2, <1>3, SetInduction
<1>8. DOMAIN f = S /\ DOMAIN g = S
  OBVIOUS
<1>. QED
  BY <1>9, <1>8, SumIsPartial DEF A

(* A round that is cut: everybody's part of r, in proportion to what he    *)
(* asked and rounded down, adds up to at most r.                           *)
LEMMA SumOfParts ==
  ASSUME NEW S, IsFiniteSet(S), NEW f \in [S -> Nat], NEW r \in Nat, SumFunction(f) > 0,
         NEW g \in [S -> Nat], \A x \in S : g[x] = (f[x] * r) \div SumFunction(f)
  PROVE  SumFunction(g) <= r
<1> DEFINE total == SumFunction(f)
           cut   == SumFunction(g)
           big   == [x \in S |-> total * g[x]]
           asked == [x \in S |-> r * f[x]]
<1>1. f \in [S -> Int] /\ g \in [S -> Int]
  OBVIOUS
<1>2. total \in Nat /\ cut \in Nat /\ total # 0
  BY SumNat
<1>3. \A x \in S : g[x] = (f[x] * r) \div total
  OBVIOUS
<1> HIDE DEF total, cut
<1>4. ASSUME NEW x \in S PROVE total * g[x] <= r * f[x] /\ total * g[x] \in Int /\ r * f[x] \in Int
  <2>1. f[x] \in Nat /\ f[x] * r \in Nat
    BY ProductNat
  <2>2. total * ((f[x] * r) \div total) <= f[x] * r
    BY <1>2, <2>1, QuotientDown
  <2>3. f[x] * r = r * f[x] /\ g[x] \in Nat
    BY <2>1
  <2>. QED
    BY <1>2, <1>3, <2>1, <2>2, <2>3
<1>5. big \in [S -> Int] /\ asked \in [S -> Int] /\ \A x \in S : big[x] <= asked[x]
  BY <1>4
<1>6. \A x \in S : big[x] = total * g[x] /\ asked[x] = r * f[x]
  OBVIOUS
<1> HIDE DEF big, asked
<1>7. SumFunction(big) <= SumFunction(asked)
  BY <1>5, SumMonotonic
<1>8. SumFunction(big) = total * cut
  BY <1>1, <1>2, <1>5, <1>6, SumScale DEF cut
<1>9. SumFunction(asked) = r * total
  BY <1>1, <1>2, <1>5, <1>6, SumScale DEF total
<1>10. cut * total <= r * total
  <2>1. total * cut = cut * total
    BY <1>2
  <2>. QED
    BY <1>7, <1>8, <1>9, <2>1
<1>11. cut <= r
  BY <1>2, <1>10, CancelFactor
<1>. QED
  BY <1>11 DEF cut

(* Things counted once for their owner add up, over owners, to no more     *)
(* than all of them.                                                       *)
OwnedBy(D, f, owner, a) == SumFunction([x \in D |-> IF owner[x] = a THEN f[x] ELSE 0])

LEMMA SumByOwner ==
  ASSUME NEW S, IsFiniteSet(S), NEW D, IsFiniteSet(D), NEW f \in [D -> Nat], NEW owner,
         NEW g \in [S -> Nat],
         \A a \in S : g[a] = OwnedBy(D, f, owner, a)
  PROVE  SumFunction(g) <= SumFunction(f)
<1> DEFINE part(T, a) == [x \in T |-> IF owner[x] = a THEN f[x] ELSE 0]
           each(T)    == [a \in S |-> SumFunction(part(T, a))]
           whole(T)   == [x \in T |-> f[x]]
           A == {T \in SUBSET D : SumFunction(each(T)) <= SumFunction(whole(T))}
<1>1. ASSUME NEW T \in SUBSET D
      PROVE  /\ IsFiniteSet(T) /\ whole(T) \in [T -> Int] /\ SumFunction(whole(T)) \in Int
             /\ \A a \in S : part(T, a) \in [T -> Int] /\ SumFunction(part(T, a)) \in Int
             /\ each(T) \in [S -> Int] /\ SumFunction(each(T)) \in Int
  <2>1. IsFiniteSet(T)
    BY FS_Subset
  <2>2. whole(T) \in [T -> Int]
    OBVIOUS
  <2>3. \A a \in S : part(T, a) \in [T -> Int]
    OBVIOUS
  <2> HIDE DEF whole, part
  <2>4. SumFunction(whole(T)) \in Int
    BY <2>1, <2>2, SumType
  <2>5. \A e \in [T -> Int] : SumFunction(e) \in Int
    BY <2>1, SumType
  <2>6. \A a \in S : SumFunction(part(T, a)) \in Int
    BY <2>3, <2>5
  <2>7. each(T) \in [S -> Int]
    BY <2>6
  <2> HIDE DEF each
  <2>8. SumFunction(each(T)) \in Int
    BY <2>7, SumType
  <2>. QED
    BY <2>1, <2>2, <2>3, <2>4, <2>6, <2>7, <2>8
<1>2. {} \in A
  <2>1. {} \in SUBSET D
    OBVIOUS
  <2>2. \A a \in S : SumFunction(part({}, a)) = 0
    <3>1. \A e \in [{} -> Int] : SumFunction(e) = 0
      BY FS_EmptySet, SumType
    <3> HIDE DEF part
    <3>. QED
      BY <1>1, <2>1, <3>1
  <2>3. each({}) \in [S -> Int] /\ \A a \in S : each({})[a] = 0
    BY <2>2
  <2>4. SumFunction(whole({})) = 0
    <3> HIDE DEF whole
    <3>. QED
      BY <1>1, <2>1, SumType
  <2> HIDE DEF each
  <2>5. SumFunction(each({})) = 0
    BY <2>3, SumZero
  <2>. QED
    BY <2>1, <2>4, <2>5
<1>3. ASSUME NEW T \in SUBSET D, NEW d \in D, T \in A, d \notin T PROVE T \cup {d} \in A
  <2> DEFINE R == T \cup {d}
             more == [a \in S |-> IF owner[d] = a THEN f[d] ELSE 0]
             zero == [a \in S |-> 0]
  <2>1. R \in SUBSET D /\ f[d] \in Nat
    OBVIOUS
  <2>2. ASSUME NEW a \in S PROVE SumFunction(part(R, a)) = SumFunction(part(T, a)) + more[a]
    <3>1. part(T, a) \in [T -> Int] /\ part(R, a) \in [R -> Int]
          /\ (\A x \in T : part(R, a)[x] = part(T, a)[x]) /\ part(R, a)[d] = more[a]
      OBVIOUS
    <3>2. IsFiniteSet(T)
      BY <1>1
    <3> HIDE DEF part, more
    <3>3. SumFunction(part(R, a)) = SumFunction(part(T, a)) + part(R, a)[d]
      <4>1. \A e \in [T -> Int], e2 \in [R -> Int] :
              (\A x \in T : e2[x] = e[x]) => SumFunction(e2) = SumFunction(e) + e2[d]
        <5>1. IsFiniteSet(T) /\ d \notin T
          BY <1>3, <3>2
        <5>. QED
          BY ONLY <5>1, SumExtend, Zenon
      <4> HIDE DEF R
      <4>. QED
        BY <3>1, <4>1, Zenon
    <3>. QED
      BY <3>1, <3>3
  <2>3. more \in [S -> Int] /\ zero \in [S -> Int]
        /\ \A a \in S : zero[a] = 0 /\ (a # owner[d] => more[a] = zero[a])
    BY <2>1
  <2>4. owner[d] \in S => more[owner[d]] = f[d]
    OBVIOUS
  <2>5. SumFunction(more) <= f[d] /\ SumFunction(more) \in Int
    <3> HIDE DEF more, zero
    <3>1. SumFunction(zero) = 0
      BY <2>3, SumZero
    <3>2. CASE owner[d] \in S
      <4>1. SumFunction(more) = SumFunction(zero) - zero[owner[d]] + more[owner[d]]
        BY <2>3, <3>2, SumUpdate
      <4>. QED
        BY <2>1, <2>3, <2>4, <3>1, <3>2, <4>1
    <3>3. CASE owner[d] \notin S
      <4>1. \A a \in S : more[a] = 0
        BY <2>3, <3>3
      <4>2. SumFunction(more) = 0
        BY <2>3, <4>1, SumZero
      <4>. QED
        BY <2>1, <4>2
    <3>. QED
      BY <3>2, <3>3
  <2>6. \A a \in S : each(R)[a] = each(T)[a] + more[a]
    BY <2>2
  <2>7. SumFunction(whole(R)) = SumFunction(whole(T)) + f[d]
    <3>1. (\A x \in T : whole(R)[x] = whole(T)[x]) /\ whole(R)[d] = f[d]
      OBVIOUS
    <3>2. IsFiniteSet(T) /\ whole(T) \in [T -> Int] /\ whole(R) \in [R -> Int]
      BY <1>1, <2>1
    <3> HIDE DEF whole
    <3>3. SumFunction(whole(R)) = SumFunction(whole(T)) + whole(R)[d]
      <4>1. \A e \in [T -> Int], e2 \in [R -> Int] :
              (\A x \in T : e2[x] = e[x]) => SumFunction(e2) = SumFunction(e) + e2[d]
        <5>1. IsFiniteSet(T) /\ d \notin T
          BY <1>3, <3>2
        <5>. QED
          BY ONLY <5>1, SumExtend, Zenon
      <4> HIDE DEF R
      <4>. QED
        BY <3>1, <3>2, <4>1, Zenon
    <3>. QED
      BY <3>1, <3>3
  <2>8. each(T) \in [S -> Int] /\ each(R) \in [S -> Int]
    BY <1>1, <2>1
  <2>9. SumFunction(each(T)) \in Int /\ SumFunction(whole(T)) \in Int
    BY <1>1
  <2>10. SumFunction(each(T)) <= SumFunction(whole(T))
    BY <1>3
  <2> HIDE DEF each, more, whole, R
  <2>11. SumFunction(each(R)) = SumFunction(each(T)) + SumFunction(more)
    BY <2>3, <2>6, <2>8, SumPlus
  <2>12. SumFunction(each(R)) <= SumFunction(whole(R))
    BY <2>1, <2>5, <2>7, <2>9, <2>10, <2>11
  <2>. QED
    BY <2>1, <2>12 DEF R
<1> HIDE DEF A
<1>4. D \in A
  BY <1>2, <1>3, SetInduction
<1>5. each(D) = g /\ whole(D) = f
  BY DEF OwnedBy
<1>. QED
  BY <1>4, <1>5 DEF A
-----------------------------------------------------------------------------
(* A function defined by recursion along 0 .. n exists, and stays in E.    *)
Run(n, base, step, g) == g = [i \in 0 .. n |-> IF i = 0 THEN base ELSE step[i][g[i - 1]]]

LEMMA RunExists ==
  ASSUME NEW E, NEW n \in Nat, NEW base \in E, NEW step \in [1 .. n -> [E -> E]]
  PROVE  \E g \in [0 .. n -> E] : Run(n, base, step, g)
<1> DEFINE A == {m \in Nat : m <= n => \E g \in [0 .. m -> E] : Run(m, base, step, g)}
<1>1. 0 \in A
  <2> DEFINE g == [i \in 0 .. 0 |-> base]
  <2>1. g \in [0 .. 0 -> E] /\ Run(0, base, step, g)
    BY DEF Run
  <2>. QED
    BY <2>1
<1>2. ASSUME NEW m \in Nat, m \in A PROVE m + 1 \in A
  <2> SUFFICES ASSUME m + 1 <= n PROVE \E g \in [0 .. m + 1 -> E] : Run(m + 1, base, step, g)
    OBVIOUS
  <2>1. PICK g \in [0 .. m -> E] : Run(m, base, step, g)
    BY <1>2
  <2> DEFINE h == [i \in 0 .. m + 1 |-> IF i <= m THEN g[i] ELSE step[m + 1][g[m]]]
  <2>2. step[m + 1][g[m]] \in E
    OBVIOUS
  <2>3. h \in [0 .. m + 1 -> E]
    BY <2>2
  <2>4. ASSUME NEW i \in 0 .. m + 1 PROVE h[i] = IF i = 0 THEN base ELSE step[i][h[i - 1]]
    <3>1. CASE i = 0
      BY <2>1, <3>1 DEF Run
    <3>2. CASE i \in 1 .. m
      <4>1. g[i] = step[i][g[i - 1]]
        BY <2>1, <3>2 DEF Run
      <4>2. h[i] = g[i] /\ h[i - 1] = g[i - 1]
        BY <3>2
      <4>. QED
        BY <3>2, <4>1, <4>2
    <3>3. CASE i = m + 1
      <4>1. h[i] = step[m + 1][g[m]] /\ h[i - 1] = g[m]
        BY <3>3
      <4>. QED
        BY <3>3, <4>1
    <3>. QED
      BY <3>1, <3>2, <3>3
  <2>5. Run(m + 1, base, step, h)
    BY <2>4 DEF Run
  <2>. QED
    BY <2>3, <2>5
<1> HIDE DEF A
<1>3. n \in A
  BY <1>1, <1>2, CountUp
<1>. QED
  BY <1>3 DEF A
-----------------------------------------------------------------------------
(* Of a value and what a function holds over a finite set one is the       *)
(* greatest.                                                               *)
LEMMA GreatestExists ==
  ASSUME NEW N, IsFiniteSet(N), NEW f, \A m \in N : f[m] \in Int, NEW c \in Int
  PROVE  \/ \A m \in N : f[m] <= c
         \/ \E k \in N : f[k] >= c /\ \A m \in N : f[m] <= f[k]
<1> DEFINE Tops(T) == \/ \A m \in T : f[m] <= c
                      \/ \E k \in T : f[k] >= c /\ \A m \in T : f[m] <= f[k]
           A == {T \in SUBSET N : Tops(T)}
<1>1. {} \in A
  OBVIOUS
<1>2. ASSUME NEW T \in SUBSET N, NEW x \in N, T \in A, x \notin T
      PROVE  T \cup {x} \in A
  <2>1. \A m \in T \cup {x} : f[m] \in Int
    OBVIOUS
  <2>2. CASE \A m \in T : f[m] <= c
    <3>1. CASE f[x] <= c
      BY <2>2, <3>1
    <3>2. CASE ~(f[x] <= c)
      BY <2>1, <2>2, <3>2
    <3> QED BY <3>1, <3>2
  <2>3. CASE \E k \in T : f[k] >= c /\ \A m \in T : f[m] <= f[k]
    <3>1. PICK k \in T : f[k] >= c /\ \A m \in T : f[m] <= f[k]
      BY <2>3
    <3>2. CASE f[x] <= f[k]
      BY <3>1, <3>2
    <3>3. CASE ~(f[x] <= f[k])
      BY <2>1, <3>1, <3>3
    <3> QED BY <3>2, <3>3
  <2> QED BY <1>2, <2>2, <2>3
<1> HIDE DEF A
<1>3. N \in A
  BY <1>1, <1>2, SetInduction
<1> QED BY <1>3 DEF A
=============================================================================
