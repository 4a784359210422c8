------------------------------ MODULE BankProofs ------------------------------
(***************************************************************************)
(* Theorems about the demo bank, for every set of customers, number of     *)
(* requests, width of integers and bound.  Balances are sums, which the    *)
(* model writes as folds: the first part shows what such a sum is.         *)
(***************************************************************************)
EXTENDS BankServer, SequenceTheorems, FiniteSetTheorems, WellFoundedInduction, TLAPS

\* Induction, as a fact about sets of natural numbers.
LEMMA SetInduction ==
  ASSUME NEW T \in SUBSET Nat, 0 \in T, \A n \in T : n + 1 \in T
  PROVE  T = Nat
<1> DEFINE R == OpToRel(<, Nat)
<1>1. \A a, b \in Nat : a < b => <<a, b>> \in R
  BY DEF OpToRel
<1>2. IsWellFoundedOn(R, Nat)
  BY NatLessThanWellFounded
<1> HIDE DEF R
<1>3. SUFFICES ASSUME Nat \ T # {} PROVE FALSE
  OBVIOUS
<1>4. PICK x \in Nat \ T : \A y \in Nat \ T : ~ (<<y, x>> \in R)
  BY <1>2, <1>3, WFMin
<1>5. x - 1 \in Nat /\ x - 1 < x /\ x = (x - 1) + 1
  BY <1>4
<1>6. x - 1 \in T
  BY <1>1, <1>4, <1>5
<1> QED
  BY <1>4, <1>5, <1>6
-------------------------------------------------------------------------------
(* Sums. *)

\* The sum of f over a set, as Sum makes it.
SumOn(f, S) == FoldFunctionOnSet(+, 0, f, S)
Chosen(T) == CHOOSE x \in T : TRUE
Step(g, f, T) == IF T = {} THEN 0 ELSE f[Chosen(T)] + g[T \ {Chosen(T)}]
IsIter(g, f, S) == g = [T \in SUBSET S |-> Step(g, f, T)] /\ g \in [SUBSET S -> Int]
IntOn(f, S) == \A x \in S : f[x] \in Int

LEMMA ChosenIn ==
  ASSUME NEW S, IsFiniteSet(S), NEW T \in SUBSET S, T # {}
  PROVE  /\ Chosen(T) \in T /\ Chosen(T) \in S
         /\ \A x \in T : /\ T \ {x} \in SUBSET S
                         /\ IsFiniteSet(T \ {x}) /\ IsFiniteSet(T)
                         /\ Cardinality(T) \in Nat \ {0}
                         /\ Cardinality(T \ {x}) = Cardinality(T) - 1
<1>1. IsFiniteSet(T) /\ Cardinality(T) \in Nat
  BY FS_Subset, FS_CardinalityType
<1>2. Cardinality(T) # 0
  BY <1>1, FS_EmptySet
<1>3. \A x \in T : /\ IsFiniteSet(T \ {x})
                   /\ Cardinality(T \ {x}) = Cardinality(T) - 1
  BY <1>1, FS_RemoveElement
<1> QED
  BY <1>1, <1>2, <1>3 DEF Chosen

\* The recursion that the fold is defined by has a solution.
LEMMA IterExists ==
  ASSUME NEW S, IsFiniteSet(S), NEW f, IntOn(f, S)
  PROVE  \E g : IsIter(g, f, S)
<1> DEFINE Good(g, n) == \A T \in SUBSET S :
                            Cardinality(T) <= n => g[T] = Step(g, f, T)
           N == {n \in Nat : \E g \in [SUBSET S -> Int] : Good(g, n)}
<1>1. \A T \in SUBSET S : Cardinality(T) \in Nat /\ (Cardinality(T) = 0 => T = {})
  BY FS_Subset, FS_CardinalityType, FS_EmptySet
<1>2. \A g \in [SUBSET S -> Int] : \A T \in SUBSET S : Step(g, f, T) \in Int
  <2> SUFFICES ASSUME NEW g \in [SUBSET S -> Int], NEW T \in SUBSET S
               PROVE  Step(g, f, T) \in Int
    OBVIOUS
  <2>1. CASE T = {}
    BY <2>1 DEF Step
  <2>2. CASE T # {}
    <3>1. f[Chosen(T)] \in Int /\ g[T \ {Chosen(T)}] \in Int
      BY <2>2, ChosenIn DEF IntOn
    <3> QED
      BY <2>2, <3>1 DEF Step
  <2> QED
    BY <2>1, <2>2
<1>3. 0 \in N
  <2> DEFINE g == [T \in SUBSET S |-> 0]
  <2>1. \A T \in SUBSET S : Cardinality(T) <= 0 => g[T] = Step(g, f, T)
    BY <1>1 DEF Step
  <2>2. g \in [SUBSET S -> Int]
    OBVIOUS
  <2> QED
    BY <2>1, <2>2
<1>4. ASSUME NEW n \in N PROVE n + 1 \in N
  <2>1. PICK g \in [SUBSET S -> Int] : Good(g, n)
    OBVIOUS
  <2> DEFINE h == [T \in SUBSET S |-> Step(g, f, T)]
  <2>2. h \in [SUBSET S -> Int]
    BY <1>2
  <2>3. \A T \in SUBSET S : Cardinality(T) <= n => h[T] = g[T]
    BY <2>1
  <2>4. ASSUME NEW T \in SUBSET S, Cardinality(T) <= n + 1
        PROVE  h[T] = Step(h, f, T)
    <3>1. CASE T = {}
      BY <3>1 DEF Step
    <3>2. CASE T # {}
      <4>1. /\ T \ {Chosen(T)} \in SUBSET S /\ Cardinality(T) \in Nat
            /\ Cardinality(T \ {Chosen(T)}) = Cardinality(T) - 1
        BY <3>2, ChosenIn
      <4>2. Cardinality(T \ {Chosen(T)}) <= n
        BY <2>4, <4>1
      <4>3. h[T \ {Chosen(T)}] = g[T \ {Chosen(T)}]
        BY <2>3, <4>1, <4>2
      <4> QED
        BY <3>2, <4>3 DEF Step
    <3> QED
      BY <3>1, <3>2
  <2> HIDE DEF h
  <2>5. Good(h, n + 1)
    BY <2>4
  <2>6. n + 1 \in Nat
    OBVIOUS
  <2> QED
    BY <2>2, <2>5, <2>6
<1>5. N = Nat
  <2> HIDE DEF N
  <2>1. N \in SUBSET Nat
    BY DEF N
  <2> QED
    BY <1>3, <1>4, <2>1, SetInduction
<1>6. PICK g \in [SUBSET S -> Int] : Good(g, Cardinality(S))
  BY <1>1, <1>5
<1>7. \A T \in SUBSET S : Cardinality(T) <= Cardinality(S)
  BY FS_Subset
<1>8. \A T \in SUBSET S : g[T] = Step(g, f, T)
  BY <1>6, <1>7
<1>9. g = [T \in SUBSET S |-> Step(g, f, T)]
  BY <1>8
<1> QED
  BY <1>9 DEF IsIter

\* Solutions agree wherever the functions they sum do.
LEMMA IterSame ==
  ASSUME NEW S, IsFiniteSet(S), NEW R, IsFiniteSet(R), NEW f, NEW e, NEW g, NEW h,
         IsIter(g, f, S), IsIter(h, e, R),
         NEW U \in SUBSET (S \cap R), \A x \in U : f[x] = e[x]
  PROVE  g[U] = h[U]
<1> DEFINE Same(n) == \A T \in SUBSET U : Cardinality(T) = n => g[T] = h[T]
           N == {n \in Nat : Same(n)}
<1>1. \A T \in SUBSET U : g[T] = Step(g, f, T) /\ h[T] = Step(h, e, T)
  BY DEF IsIter
<1>2. IsFiniteSet(U)
  BY FS_Subset
<1>3. \A T \in SUBSET U : Cardinality(T) \in Nat /\ (Cardinality(T) = 0 => T = {})
  BY <1>2, FS_Subset, FS_CardinalityType, FS_EmptySet
<1>4. 0 \in N
  BY <1>1, <1>3 DEF Step
<1>5. ASSUME NEW n \in N PROVE n + 1 \in N
  <2>1. ASSUME NEW T \in SUBSET U, Cardinality(T) = n + 1 PROVE g[T] = h[T]
    <3>1. T # {}
      <4>1. n + 1 # 0 /\ Cardinality({}) = 0
        BY FS_EmptySet
      <4> QED
        BY <2>1, <4>1
    <3>2. /\ Chosen(T) \in T /\ T \ {Chosen(T)} \in SUBSET U
          /\ Cardinality(T \ {Chosen(T)}) = Cardinality(T) - 1
      BY <1>2, <3>1, ChosenIn
    <3>3. Cardinality(T \ {Chosen(T)}) = n
      BY <2>1, <3>2
    <3>4. g[T \ {Chosen(T)}] = h[T \ {Chosen(T)}]
      BY <3>2, <3>3
    <3>5. f[Chosen(T)] = e[Chosen(T)]
      BY <3>2
    <3> QED
      BY <1>1, <3>1, <3>4, <3>5 DEF Step
  <2> QED
    BY <2>1
<1>6. N = Nat
  <2> HIDE DEF N
  <2>1. N \in SUBSET Nat
    BY DEF N
  <2> QED
    BY <1>4, <1>5, <2>1, SetInduction
<1> QED
  BY <1>3, <1>6

\* The order in which elements are chosen does not matter.
LEMMA IterRemove ==
  ASSUME NEW S, IsFiniteSet(S), NEW f, IntOn(f, S), NEW g, IsIter(g, f, S),
         NEW T \in SUBSET S, NEW x \in T
  PROVE  g[T] = f[x] + g[T \ {x}]
<1> DEFINE Any(n) == \A U \in SUBSET S : Cardinality(U) = n =>
                        \A y \in U : g[U] = f[y] + g[U \ {y}]
           N == {n \in Nat : Any(n)}
<1>1. \A U \in SUBSET S : g[U] = Step(g, f, U) /\ g[U] \in Int
  BY DEF IsIter
<1>2. \A U \in SUBSET S : Cardinality(U) \in Nat /\ (Cardinality(U) = 0 => U = {})
  BY FS_Subset, FS_CardinalityType, FS_EmptySet
<1>3. 0 \in N
  BY <1>2
<1>4. ASSUME NEW n \in N PROVE n + 1 \in N
  <2>1. ASSUME NEW U \in SUBSET S, Cardinality(U) = n + 1, NEW y \in U
        PROVE  g[U] = f[y] + g[U \ {y}]
    <3> DEFINE c == Chosen(U)
    <3>1. /\ c \in U /\ c \in S /\ y \in S
          /\ \A z \in U : U \ {z} \in SUBSET S /\ Cardinality(U \ {z}) = Cardinality(U) - 1
      BY ChosenIn
    <3>2. \A z \in U : Cardinality(U \ {z}) = n
      BY <2>1, <3>1
    <3>3. g[U] = f[c] + g[U \ {c}]
      BY <1>1 DEF Step
    <3> HIDE DEF c
    <3>4. CASE y = c
      BY <3>3, <3>4
    <3>5. CASE y # c
      <4>1. g[U \ {c}] = f[y] + g[(U \ {c}) \ {y}]
        BY <3>1, <3>2, <3>5
      <4>2. g[U \ {y}] = f[c] + g[(U \ {y}) \ {c}]
        BY <3>1, <3>2, <3>5
      <4>3. (U \ {c}) \ {y} = (U \ {y}) \ {c} /\ (U \ {c}) \ {y} \in SUBSET S
        OBVIOUS
      <4>4. f[y] \in Int /\ f[c] \in Int /\ g[(U \ {y}) \ {c}] \in Int
        BY <1>1, <3>1, <4>3 DEF IntOn
      <4>5. g[U \ {c}] = f[y] + g[(U \ {y}) \ {c}]
        BY <4>1, <4>3
      <4> QED
        BY <3>3, <4>2, <4>4, <4>5
    <3> QED
      BY <3>4, <3>5
  <2> QED
    BY <2>1
<1>5. N = Nat
  <2> HIDE DEF N
  <2>1. N \in SUBSET Nat
    BY DEF N
  <2> QED
    BY <1>3, <1>4, <2>1, SetInduction
<1> QED
  BY <1>2, <1>5

\* A sum is what a solution gives.
LEMMA SumIs ==
  ASSUME NEW S, IsFiniteSet(S), NEW f, IntOn(f, S)
  PROVE  \E g : IsIter(g, f, S) /\ SumOn(f, S) = g[S]
<1> DEFINE iter[T \in SUBSET S] ==
             IF T = {} THEN 0
             ELSE LET x == CHOOSE y \in T : TRUE IN f[x] + iter[T \ {x}]
<1>1. SumOn(f, S) = iter[S]
  BY DEF SumOn, FoldFunctionOnSet, MapThenFoldSet
<1>2. iter = CHOOSE g : g = [T \in SUBSET S |-> Step(g, f, T)]
  BY DEF Step, Chosen
<1> HIDE DEF iter
<1>3. PICK g : IsIter(g, f, S)
  BY IterExists
<1>4. iter = [T \in SUBSET S |-> Step(iter, f, T)]
  BY <1>2, <1>3 DEF IsIter
<1>5. IsIter(iter, f, S)
  <2> DEFINE Typed(n) == \A T \in SUBSET S : Cardinality(T) = n => iter[T] \in Int
             N == {n \in Nat : Typed(n)}
  <2>1. \A T \in SUBSET S : iter[T] = Step(iter, f, T)
    BY <1>4
  <2>2. \A T \in SUBSET S : Cardinality(T) \in Nat /\ (Cardinality(T) = 0 => T = {})
    BY FS_Subset, FS_CardinalityType, FS_EmptySet
  <2>3. 0 \in N
    <3>1. iter[{}] = 0
      BY <2>1 DEF Step
    <3> QED
      BY <2>2, <3>1
  <2>4. ASSUME NEW n \in N PROVE n + 1 \in N
    <3>1. ASSUME NEW T \in SUBSET S, Cardinality(T) = n + 1 PROVE iter[T] \in Int
      <4>1. T # {}
        <5>1. n + 1 # 0 /\ Cardinality({}) = 0
          BY FS_EmptySet
        <5> QED
          BY <3>1, <5>1
      <4>2. /\ Chosen(T) \in S /\ T \ {Chosen(T)} \in SUBSET S
            /\ Cardinality(T \ {Chosen(T)}) = Cardinality(T) - 1
        BY <4>1, ChosenIn
      <4>3. Cardinality(T \ {Chosen(T)}) = n
        BY <3>1, <4>2
      <4>4. iter[T \ {Chosen(T)}] \in Int /\ f[Chosen(T)] \in Int
        BY <4>2, <4>3 DEF IntOn
      <4> QED
        BY <2>1, <4>1, <4>4 DEF Step
    <3> QED
      BY <3>1
  <2>5. N = Nat
    <3> HIDE DEF N
    <3>1. N \in SUBSET Nat
      BY DEF N
    <3> QED
      BY <2>3, <2>4, <3>1, SetInduction
  <2>6. \A T \in SUBSET S : iter[T] \in Int
    BY <2>2, <2>5
  <2> QED
    BY <1>4, <2>6 DEF IsIter
<1> QED
  BY <1>1, <1>5

\* Two functions with the same values have the same sum.
LEMMA SumSame ==
  ASSUME NEW S, IsFiniteSet(S), NEW f, IntOn(f, S), NEW e, \A x \in S : f[x] = e[x]
  PROVE  SumOn(f, S) = SumOn(e, S)
<1>1. IntOn(e, S)
  BY DEF IntOn
<1>2. PICK g : IsIter(g, f, S) /\ SumOn(f, S) = g[S]
  BY SumIs
<1>3. PICK h : IsIter(h, e, S) /\ SumOn(e, S) = h[S]
  BY <1>1, SumIs
<1>4. S \in SUBSET (S \cap S)
  OBVIOUS
<1> QED
  BY <1>2, <1>3, <1>4, IterSame

\* One value may be split off.
LEMMA SumRemove ==
  ASSUME NEW S, IsFiniteSet(S), NEW f, IntOn(f, S), NEW x \in S
  PROVE  /\ SumOn(f, S) = f[x] + SumOn(f, S \ {x})
         /\ f[x] \in Int /\ SumOn(f, S) \in Int /\ SumOn(f, S \ {x}) \in Int
<1>1. IsFiniteSet(S \ {x}) /\ IntOn(f, S \ {x})
  BY FS_RemoveElement DEF IntOn
<1>2. PICK g : IsIter(g, f, S) /\ SumOn(f, S) = g[S]
  BY SumIs
<1>3. PICK h : IsIter(h, f, S \ {x}) /\ SumOn(f, S \ {x}) = h[S \ {x}]
  BY <1>1, SumIs
<1>4. g[S \ {x}] = h[S \ {x}]
  <2>1. S \ {x} \in SUBSET (S \cap (S \ {x}))
    OBVIOUS
  <2> QED
    BY <1>1, <1>2, <1>3, <2>1, IterSame
<1>5. S \in SUBSET S /\ S \ {x} \in SUBSET S
  OBVIOUS
<1>6. g[S] = f[x] + g[S \ {x}]
  BY <1>2, <1>5, IterRemove
<1>7. f[x] \in Int /\ g[S] \in Int /\ g[S \ {x}] \in Int
  BY <1>2, <1>5 DEF IsIter, IntOn
<1> QED
  BY <1>2, <1>3, <1>4, <1>6, <1>7

\* The sum of nothing.
LEMMA SumEmpty == \A f : SumOn(f, {}) = 0
<1> SUFFICES ASSUME NEW f PROVE SumOn(f, {}) = 0
  OBVIOUS
<1>1. IsFiniteSet({}) /\ IntOn(f, {})
  BY FS_EmptySet DEF IntOn
<1>2. PICK g : IsIter(g, f, {}) /\ SumOn(f, {}) = g[{}]
  BY <1>1, SumIs
<1>3. g[{}] = Step(g, f, {})
  BY <1>2 DEF IsIter
<1> QED
  BY <1>2, <1>3 DEF Step

LEMMA SumDef == \A f : Sum(f) = SumOn(f, DOMAIN f)
  BY DEF Sum, SumOn, FoldFunction

\* A function that changes at x changes its sum by as much.
LEMMA SumChange ==
  ASSUME NEW D, IsFiniteSet(D), NEW f, NEW e, DOMAIN f = D, DOMAIN e = D,
         IntOn(f, D), IntOn(e, D), NEW x \in D, \A y \in D : y # x => f[y] = e[y]
  PROVE  Sum(f) \in Int /\ Sum(e) = Sum(f) - f[x] + e[x]
<1>1. IsFiniteSet(D \ {x}) /\ IntOn(f, D \ {x})
  BY FS_RemoveElement DEF IntOn
<1>2. SumOn(f, D \ {x}) = SumOn(e, D \ {x})
  BY <1>1, SumSame
<1>3. /\ SumOn(f, D) = f[x] + SumOn(f, D \ {x})
      /\ f[x] \in Int /\ SumOn(f, D) \in Int /\ SumOn(f, D \ {x}) \in Int
  BY SumRemove
<1>4. /\ SumOn(e, D) = e[x] + SumOn(e, D \ {x}) /\ e[x] \in Int
  BY SumRemove
<1>5. Sum(f) = SumOn(f, D) /\ Sum(e) = SumOn(e, D)
  BY SumDef
<1> QED
  BY <1>2, <1>3, <1>4, <1>5

LEMMA SuffixIs ==
  ASSUME NEW s \in Seq(Int), NEW k \in Nat, NEW n \in Nat, k <= n, n <= Len(s)
  PROVE  /\ SubSeq(s, k + 1, n) \in Seq(Int) /\ Len(SubSeq(s, k + 1, n)) = n - k
         /\ \A i \in 1 .. n - k : SubSeq(s, k + 1, n)[i] = s[k + i]
<1>1. k + 1 \in Int /\ n \in Int /\ \A i \in k + 1 .. n : s[i] \in Int
  OBVIOUS
<1>2. /\ SubSeq(s, k + 1, n) \in Seq(Int)
      /\ Len(SubSeq(s, k + 1, n)) = IF k + 1 <= n THEN n - (k + 1) + 1 ELSE 0
      /\ \A i \in 1 .. n - (k + 1) + 1 : SubSeq(s, k + 1, n)[i] = s[k + 1 + i - 1]
  BY ONLY <1>1, SubSeqProperties
<1>3. n - (k + 1) + 1 = n - k /\ \A i \in 1 .. n - k : k + 1 + i - 1 = k + i
  OBVIOUS
<1>4. (IF k + 1 <= n THEN n - (k + 1) + 1 ELSE 0) = n - k
  OBVIOUS
<1> QED
  BY <1>2, <1>3, <1>4

\* A longer sequence has a sum larger by its last element.
LEMMA SumAppend ==
  ASSUME NEW s \in Seq(Int), NEW t \in Seq(Int), Len(t) = Len(s) + 1,
         \A i \in 1 .. Len(s) : t[i] = s[i]
  PROVE  Sum(s) \in Int /\ Sum(t) = Sum(s) + t[Len(t)]
<1> DEFINE n == Len(s)
<1>1. n \in Nat /\ DOMAIN s = 1 .. n /\ DOMAIN t = 1 .. n + 1
  OBVIOUS
<1>2. (1 .. n + 1) \ {n + 1} = 1 .. n /\ n + 1 \in 1 .. n + 1
  BY <1>1
<1>3. IntOn(s, 1 .. n) /\ IntOn(t, 1 .. n + 1)
  BY <1>1 DEF IntOn
<1>4. IsFiniteSet(1 .. n) /\ IsFiniteSet(1 .. n + 1)
  BY <1>1, FS_Interval
<1>5. SumOn(t, 1 .. n + 1) = t[n + 1] + SumOn(t, 1 .. n)
      /\ t[n + 1] \in Int /\ SumOn(t, 1 .. n) \in Int
  BY <1>2, <1>3, <1>4, SumRemove
<1>6. SumOn(s, 1 .. n) = SumOn(t, 1 .. n)
  BY <1>3, <1>4, SumSame
<1>7. Sum(s) = SumOn(s, 1 .. n) /\ Sum(t) = SumOn(t, 1 .. n + 1) /\ Len(t) = n + 1
  BY <1>1, SumDef
<1> HIDE DEF n
<1> QED
  BY <1>5, <1>6, <1>7

LEMMA SumNone ==
  ASSUME NEW s, s = <<>>
  PROVE  Sum(s) = 0
  BY SumDef, SumEmpty
-------------------------------------------------------------------------------
(* Integers of the program, and its slices. *)

\* newTransaction lets no sum through that the width of integers would change.
LEMMA WrapIs ==
  ASSUME NEW b \in 0 .. MaxInt, NEW a \in Int, -MaxInt <= a, a <= MaxInt, Wrap(b + a) >= 0
  PROVE  Wrap(b + a) = b + a /\ b + a \in 0 .. MaxInt
<1>1. MaxInt \in Nat
  BY BankAssumption
<1>2. CASE b + a < 0
  <2>1. b + a + MaxInt + 1 \in 0 .. MaxInt
    BY <1>1, <1>2
  <2>2. (b + a + MaxInt + 1) % (2 * (MaxInt + 1)) = b + a + MaxInt + 1
    BY <1>1, <2>1
  <2>3. Wrap(b + a) = b + a
    BY <1>1, <2>2 DEF Wrap
  <2> QED
    BY <1>1, <1>2, <2>3
<1>3. CASE b + a \in 0 .. MaxInt
  <2>1. (b + a + MaxInt + 1) % (2 * (MaxInt + 1)) = b + a + MaxInt + 1
    BY <1>1, <1>3
  <2> QED
    BY <1>1, <1>3, <2>1 DEF Wrap
<1>4. CASE b + a > MaxInt
  <2> DEFINE i == b + a + MaxInt + 1
             m == 2 * (MaxInt + 1)
  <2>1. i - m \in 0 .. m - 1 /\ i \in Nat /\ m \in Nat \ {0}
    BY <1>1, <1>4
  <2>2. i % m = i - m
    <3> HIDE DEF i, m
    <3> QED
      BY <2>1
  <2>3. Wrap(b + a) = b + a - m
    BY <1>1, <2>2 DEF Wrap
  <2>4. b + a - m < 0 /\ b + a - m \in Int
    BY <1>1
  <2>5. \A w \in Int : w < 0 => ~(w >= 0)
    OBVIOUS
  <2> QED
    BY <2>3, <2>4, <2>5
<1> QED
  BY <1>1, <1>2, <1>3, <1>4

NumbersIn(s, some) == IF s.array = Nil THEN <<>> ELSE SubSeq(some[s.array], 1, s.len)

\* What a valid slice holds.
LEMMA SliceIs ==
  ASSUME NEW some \in Seq(Seq(Nat)), NEW s, Valid(s, some)
  PROVE  /\ s.array \in Nat \ {0} /\ s.len \in Nat
         /\ NumbersIn(s, some) \in Seq(Number)
         /\ Len(NumbersIn(s, some)) = s.len
         /\ DOMAIN NumbersIn(s, some) = 1 .. s.len
         /\ \A i \in 1 .. s.len : NumbersIn(s, some)[i] = some[s.array][i]
<1> DEFINE a == some[s.array]
<1>1. s.array \in Nat \ {0} /\ a \in Seq(Nat)
  BY DEF Valid
<1>2. s.len \in Nat /\ s.len <= Len(a) /\ Len(a) \in Nat
  BY <1>1 DEF Valid
<1>3. \A i \in 1 .. s.len : a[i] \in Number
  BY DEF Valid
<1>4. NumbersIn(s, some) = SubSeq(a, 1, s.len)
  BY <1>1 DEF NumbersIn, Nil
<1> HIDE DEF a
<1>5. /\ SubSeq(a, 1, s.len) \in Seq(Nat) /\ Len(SubSeq(a, 1, s.len)) = s.len
      /\ \A i \in 1 .. s.len : SubSeq(a, 1, s.len)[i] = a[i]
  BY <1>1, <1>2
<1>6. SubSeq(a, 1, s.len) \in Seq(Number)
  BY <1>2, <1>3, <1>5
<1> QED
  BY <1>1, <1>2, <1>4, <1>5, <1>6 DEF a

\* Appending a number to a customer's list, with or without a new array, changes
\* no other slice, and leaves older slices of the same array valid.
LEMMA AppendNumberIs ==
  ASSUME arrays \in Seq(Seq(Nat)), lists \in [Known -> Slice], SliceInv,
         NEW c, NEW n \in Number, AppendNumber(c, n)
  PROVE  /\ arrays' \in Seq(Seq(Nat)) /\ lists' \in [Known \cup {c} -> Slice]
         /\ \A v : Valid(v, arrays) => Valid(v, arrays')
         /\ Valid(lists'[c], arrays')
         /\ \A d \in Known \ {c} : /\ lists'[d] = lists[d]
                                   /\ lists[d].array # lists'[c].array
                                   /\ arrays'[lists[d].array] = arrays[lists[d].array]
         /\ lists'[c].len = (IF c \in Known THEN lists[c].len ELSE 0) + 1
         /\ arrays'[lists'[c].array][lists'[c].len] = n
         /\ c \in Known => \A i \in 1 .. lists[c].len :
               arrays'[lists'[c].array][i] = arrays[lists[c].array][i]
<1> DEFINE s == IF c \in Known THEN lists[c] ELSE [array |-> Nil, len |-> 0]
           t == [array |-> IF HasRoom(s) THEN s.array ELSE Len(arrays) + 1,
                 len |-> s.len + 1]
           K == Len(arrays)
<1>1. /\ lists' = [d \in Known \cup {c} |-> IF d = c THEN t ELSE lists[d]]
      /\ arrays' = IF HasRoom(s)
                   THEN [arrays EXCEPT ![s.array][t.len] = n]
                   ELSE Append(arrays, [Grown(NumbersOf(s)) EXCEPT ![t.len] = n])
  BY DEF AppendNumber
<1>2. /\ s.len \in Nat /\ s.array \in Nat
      /\ (c \in Known => s = lists[c] /\ Valid(s, arrays))
      /\ (c \notin Known => s.array = Nil /\ s.len = 0)
  <2>1. CASE c \in Known
    <3>1. s = lists[c] /\ lists[c] \in Slice /\ Valid(lists[c], arrays)
      BY <2>1 DEF SliceInv
    <3> QED
      BY <2>1, <3>1 DEF Slice
  <2>2. CASE c \notin Known
    <3>1. s = [array |-> Nil, len |-> 0]
      BY <2>2
    <3> QED
      BY <2>2, <3>1 DEF Nil
  <2> QED
    BY <2>1, <2>2
<1>3. /\ K \in Nat /\ DOMAIN arrays = 1 .. K /\ n \in Nat
      /\ \A a \in 1 .. K : arrays[a] \in Seq(Nat)
  BY BankAssumption DEF Number
<1>4. t.array = (IF HasRoom(s) THEN s.array ELSE K + 1) /\ t.len = s.len + 1
  OBVIOUS
<1> DEFINE Rest == /\ \A v : Valid(v, arrays) => Valid(v, arrays')
                   /\ Valid(t, arrays') /\ arrays'[t.array][t.len] = n
                   /\ \A i \in 1 .. s.len : c \in Known =>
                         arrays'[t.array][i] = arrays[s.array][i]
                   /\ \A a \in 1 .. K : a # t.array => arrays'[a] = arrays[a]
                   /\ arrays' \in Seq(Seq(Nat))
                   /\ t.array = s.array \/ t.array = K + 1
<1> HIDE DEF s, t
<1>a. s.len \in Nat /\ t.len = s.len + 1
  BY <1>2, <1>4
<1>b. \A i \in 1 .. t.len : i \in 1 .. s.len \/ i = t.len
  BY <1>a
<1>5. ASSUME HasRoom(s) PROVE Rest
  <2> DEFINE a == s.array
             old == arrays[a]
             new == [old EXCEPT ![t.len] = n]
  <2>1. a \in 1 .. K /\ s.len < Len(old) /\ Valid(s, arrays) /\ t.array = a
    BY <1>2, <1>3, <1>4, <1>5 DEF HasRoom, Valid
  <2>2. arrays' = [arrays EXCEPT ![a] = new]
    BY <1>1, <1>5
  <2>3. old \in Seq(Nat) /\ Len(old) \in Nat /\ DOMAIN old = 1 .. Len(old)
    BY <1>3, <2>1
  <2>4. t.len \in 1 .. Len(old)
    BY ONLY <1>a, <2>1, <2>3
  <2>5. /\ new \in Seq(Nat) /\ Len(new) = Len(old) /\ new[t.len] = n
        /\ \A i \in 1 .. Len(old) : i # t.len => new[i] = old[i]
    BY <1>3, <2>3, <2>4
  <2> HIDE DEF new
  <2>6. /\ arrays' \in Seq(Seq(Nat)) /\ DOMAIN arrays' = 1 .. K
        /\ arrays'[a] = new /\ \A b \in 1 .. K : b # a => arrays'[b] = arrays[b]
    BY <1>3, <2>1, <2>2, <2>5
  <2>7. \A i \in 1 .. s.len : i \in 1 .. Len(old) /\ i # t.len
    BY ONLY <1>a, <2>1, <2>3
  <2>8. \A v : Valid(v, arrays) => Valid(v, arrays')
    <3> SUFFICES ASSUME NEW v, Valid(v, arrays) PROVE Valid(v, arrays')
      OBVIOUS
    <3>1. CASE v.array = a
      <4>1. \A i \in 1 .. v.len : i \in 1 .. Len(old)
        BY <2>3, <3>1 DEF Valid
      <4>2. \A i \in 1 .. v.len : new[i] \in Number
        BY <2>5, <3>1, <4>1 DEF Valid
      <4> QED
        BY <1>3, <2>5, <2>6, <3>1, <4>2 DEF Valid
    <3>2. CASE v.array # a
      BY <1>3, <2>6, <3>2 DEF Valid
    <3> QED
      BY <3>1, <3>2
  <2>9. \A i \in 1 .. t.len : new[i] \in Number
    BY <1>b, <2>1, <2>5, <2>7 DEF Valid
  <2>10. Valid(t, arrays')
    <3>1. t.len \in 0 .. Len(new)
      BY ONLY <2>3, <2>4, <2>5
    <3>2. t.array \in DOMAIN arrays' /\ arrays'[t.array] = new
      BY ONLY <2>1, <2>6
    <3> QED
      BY ONLY <2>9, <3>1, <3>2 DEF Valid
  <2>11. /\ arrays'[t.array][t.len] = n
         /\ \A i \in 1 .. s.len : arrays'[t.array][i] = arrays[s.array][i]
    BY <2>1, <2>5, <2>6, <2>7
  <2>12. \A b \in 1 .. K : b # t.array => arrays'[b] = arrays[b]
    BY <2>1, <2>6
  <2> HIDE DEF K
  <2> QED
    BY <2>1, <2>6, <2>8, <2>10, <2>11, <2>12
<1>6. ASSUME ~HasRoom(s) PROVE Rest
  <2> DEFINE nums == NumbersOf(s)
             cap == IF nums = <<>> THEN 1 ELSE 2 * Len(nums)
             new == [Grown(nums) EXCEPT ![t.len] = n]
  <2>1. /\ nums \in Seq(Nat) /\ Len(nums) = s.len
        /\ \A i \in 1 .. s.len : nums[i] \in Number
        /\ c \in Known => \A i \in 1 .. s.len : nums[i] = arrays[s.array][i]
    <3>1. CASE c \in Known
      <4>1. Valid(s, arrays) /\ nums = NumbersIn(s, arrays)
        BY <1>2, <3>1 DEF NumbersOf, NumbersIn
      <4>2. nums \in Seq(Number) /\ Len(nums) = s.len
            /\ \A i \in 1 .. s.len : nums[i] = arrays[s.array][i]
        BY <4>1, SliceIs
      <4> HIDE DEF nums
      <4>3. nums \in Seq(Nat) /\ \A i \in 1 .. s.len : nums[i] \in Number
        BY <1>2, <4>2, BankAssumption DEF Number
      <4> QED
        BY <4>2, <4>3
    <3>2. CASE c \notin Known
      <4>1. nums = <<>> /\ s.len = 0
        BY <1>2, <3>2 DEF NumbersOf
      <4> QED
        BY <3>2, <4>1
    <3> QED
      BY <3>1, <3>2
  <2>8. arrays' = Append(arrays, new) /\ t.array = K + 1
    BY <1>1, <1>4, <1>6
  <2> HIDE DEF nums
  <2>2. cap \in Nat /\ t.len \in 1 .. cap
    <3>1. nums = <<>> <=> s.len = 0
      BY <2>1
    <3> QED
      BY <1>2, <1>4, <2>1, <3>1
  <2>3. Grown(nums) = [i \in 1 .. cap |-> IF i <= s.len THEN nums[i] ELSE 0]
    BY <2>1 DEF Grown
  <2> HIDE DEF cap
  <2>4. \A i \in 1 .. s.len : i \in 1 .. cap /\ i # t.len /\ i <= s.len
    BY <1>2, <1>4, <2>2
  <2>5. \A i \in 1 .. cap : i <= s.len => i \in 1 .. s.len
    BY <1>2, <2>2
  <2>6. /\ new \in [1 .. cap -> Nat] /\ new[t.len] = n
        /\ \A i \in 1 .. s.len : new[i] = nums[i]
    <3>1. Grown(nums) \in [1 .. cap -> Nat]
      <4>1. \A i \in 1 .. s.len : nums[i] \in Nat
        BY <2>1
      <4> QED
        BY <2>3, <2>5, <4>1
    <3>2. \A i \in 1 .. s.len : Grown(nums)[i] = nums[i]
      BY <2>3, <2>4
    <3>3. n \in Nat
      BY BankAssumption DEF Number
    <3> QED
      BY <2>2, <2>4, <3>1, <3>2, <3>3
  <2> HIDE DEF new
  <2>7. new \in Seq(Nat) /\ Len(new) = cap
    BY <2>2, <2>6
  <2>9. /\ arrays' \in Seq(Seq(Nat)) /\ DOMAIN arrays' = 1 .. K + 1
        /\ arrays'[K + 1] = new /\ \A b \in 1 .. K : arrays'[b] = arrays[b]
        /\ 1 .. K \subseteq 1 .. K + 1 /\ K + 1 \in 1 .. K + 1
    BY <1>3, <2>7, <2>8
  <2>10. \A v : Valid(v, arrays) => Valid(v, arrays')
    BY <1>3, <2>9 DEF Valid
  <2>11. \A i \in 1 .. t.len : new[i] \in Number
    BY <1>b, <2>1, <2>6
  <2>12. Valid(t, arrays')
    BY <1>4, <2>2, <2>7, <2>8, <2>9, <2>11 DEF Valid
  <2>13. /\ arrays'[t.array][t.len] = n
         /\ \A i \in 1 .. s.len : c \in Known =>
               arrays'[t.array][i] = arrays[s.array][i]
    BY <2>1, <2>6, <2>8, <2>9
  <2> HIDE DEF K
  <2> QED
    BY <2>8, <2>9, <2>10, <2>12, <2>13
<1>7. Rest
  BY <1>5, <1>6
<1>8. /\ lists'[c] = t /\ t \in Slice
      /\ \A d \in Known \ {c} : lists'[d] = lists[d]
      /\ lists' \in [Known \cup {c} -> Slice]
  <2>1. t \in Slice
    BY <1>2, <1>3, <1>4 DEF Slice, t
  <2> QED
    BY <1>1, <2>1
<1>9. ASSUME NEW d \in Known \ {c}
      PROVE  lists[d].array \in 1 .. K /\ lists[d].array # t.array
  <2>1. lists[d].array \in 1 .. K /\ lists[d].array # K + 1
    BY <1>3 DEF SliceInv, Valid
  <2>2. lists[d].array # s.array
    <3>1. CASE c \in Known
      BY <1>2, <3>1 DEF SliceInv
    <3>2. CASE c \notin Known
      BY <1>2, <2>1, <3>2 DEF Nil
    <3> QED
      BY <3>1, <3>2
  <2> QED
    BY <1>7, <2>1, <2>2
<1> QED
  BY <1>2, <1>4, <1>7, <1>8, <1>9

\* Removing a number moves those behind it, in an array no other customer has.
LEMMA RemoveNumberIs ==
  ASSUME arrays \in Seq(Seq(Nat)), lists \in [Known -> Slice], SliceInv,
         NEW c \in Known, NEW i \in 1 .. lists[c].len, RemoveNumber(c, i)
  PROVE  /\ arrays' \in Seq(Seq(Nat)) /\ lists' \in [Known -> Slice]
         /\ \A v : Valid(v, arrays) => Valid(v, arrays')
         /\ Valid(lists'[c], arrays') /\ lists'[c].array = lists[c].array
         /\ lists'[c].len = lists[c].len - 1
         /\ \A d \in Known \ {c} : /\ lists'[d] = lists[d]
                                   /\ lists[d].array # lists[c].array
                                   /\ arrays'[lists[d].array] = arrays[lists[d].array]
         /\ \A j \in 1 .. lists[c].len - 1 :
               arrays'[lists[c].array][j] =
                  arrays[lists[c].array][IF j < i THEN j ELSE j + 1]
<1> DEFINE s == lists[c]
           a == s.array
           old == arrays[a]
           new == [j \in DOMAIN old |-> IF j \in i .. s.len - 1 THEN old[j + 1] ELSE old[j]]
           K == Len(arrays)
<1>1. /\ s \in Slice /\ Valid(s, arrays) /\ arrays' = [arrays EXCEPT ![a] = new]
      /\ lists' = [lists EXCEPT ![c].len = @ - 1]
  BY DEF SliceInv, RemoveNumber
<1>2. /\ s.len \in Nat /\ a \in 1 .. K /\ DOMAIN arrays = 1 .. K /\ old \in Seq(Nat)
      /\ s = [array |-> a, len |-> s.len]
  BY <1>1 DEF Slice, Valid
<1>3. /\ s.len \in 0 .. Len(old) /\ DOMAIN old = 1 .. Len(old) /\ Len(old) \in Nat
      /\ i \in 1 .. s.len /\ \A j \in 1 .. s.len : old[j] \in Number
  BY <1>1, <1>2 DEF Valid
<1> HIDE DEF old, s
<1>n. /\ s.len \in Nat /\ Len(old) \in Nat /\ i \in Nat
      /\ s.len <= Len(old) /\ 1 <= i /\ i <= s.len
  BY <1>2, <1>3
<1>4. /\ \A j \in i .. s.len - 1 : j + 1 \in 1 .. s.len /\ j + 1 \in 1 .. Len(old)
      /\ i \in Nat
  BY ONLY <1>n
<1>5. \A j \in 1 .. Len(old) : old[j] \in Nat
  BY <1>2
<1>6. /\ new \in [1 .. Len(old) -> Nat]
      /\ \A j \in 1 .. Len(old) : new[j] = old[j] \/ new[j] \in Number
  BY <1>3, <1>4, <1>5
<1>7. \A j \in 1 .. s.len - 1 : new[j] = old[IF j < i THEN j ELSE j + 1]
  <2> SUFFICES ASSUME NEW j \in 1 .. s.len - 1
               PROVE  new[j] = old[IF j < i THEN j ELSE j + 1]
    OBVIOUS
  <2>1. j \in 1 .. Len(old) /\ (j < i \/ j \in i .. s.len - 1)
        /\ (j < i => j \notin i .. s.len - 1) /\ (j \in i .. s.len - 1 => ~(j < i))
    <3>1. j \in 1 .. s.len - 1
      OBVIOUS
    <3> QED
      BY ONLY <1>n, <3>1
  <2> QED
    BY <1>3, <2>1
<1>8. new \in Seq(Nat) /\ Len(new) = Len(old)
  <2> HIDE DEF new
  <2> QED
    BY <1>3, <1>6
<1> HIDE DEF new
<1>9. /\ arrays' \in Seq(Seq(Nat)) /\ DOMAIN arrays' = 1 .. K
      /\ arrays'[a] = new /\ \A b \in 1 .. K : b # a => arrays'[b] = arrays[b]
  BY <1>1, <1>2, <1>8
<1>10. \A v : Valid(v, arrays) => Valid(v, arrays')
  <2> SUFFICES ASSUME NEW v, Valid(v, arrays) PROVE Valid(v, arrays')
    OBVIOUS
  <2>1. CASE v.array = a
    <3>1. v.len \in 0 .. Len(old) /\ \A j \in 1 .. v.len : old[j] \in Number
      BY <2>1 DEF Valid, old
    <3>2. \A j \in 1 .. v.len : j \in 1 .. Len(old)
      BY <1>3, <3>1
    <3>3. \A j \in 1 .. v.len : new[j] \in Number
      BY <1>6, <3>1, <3>2
    <3> QED
      BY <1>2, <1>8, <1>9, <2>1, <3>1, <3>3 DEF Valid
  <2>2. CASE v.array # a
    BY <1>2, <1>9, <2>2 DEF Valid
  <2> QED
    BY <2>1, <2>2
<1> DEFINE t == [array |-> a, len |-> s.len - 1]
<1>11. /\ lists'[c] = t /\ \A d \in Known \ {c} : lists'[d] = lists[d]
       /\ lists' = [lists EXCEPT ![c] = t]
  <2>1. lists' = [lists EXCEPT ![c] = [s EXCEPT !.len = @ - 1]]
    BY <1>1 DEF s
  <2>2. [s EXCEPT !.len = @ - 1] = t
    BY ONLY <1>2
  <2> QED
    BY <2>1, <2>2
<1>12. s.len - 1 \in 0 .. Len(old) /\ s.len - 1 \in Nat /\ a \in Nat
       /\ \A j \in 1 .. s.len - 1 : j \in 1 .. s.len
  <2>1. a \in Nat
    BY <1>2
  <2> QED
    BY ONLY <1>n, <2>1
<1>13. lists' \in [Known -> Slice]
  BY <1>11, <1>12 DEF Slice
<1>14. Valid(t, arrays')
  <2>1. Valid(t, arrays)
    BY <1>2, <1>3, <1>12 DEF Valid, old
  <2> QED
    BY <1>10, <2>1
<1>15. \A d \in Known \ {c} :
          lists[d].array # a /\ arrays'[lists[d].array] = arrays[lists[d].array]
  BY <1>2, <1>9 DEF SliceInv, Valid, s
<1> QED
  BY <1>7, <1>9, <1>10, <1>11, <1>13, <1>14, <1>15 DEF s, old
-------------------------------------------------------------------------------
(* The accounts that customers list. *)

\* ListedOnce, place by place.
ListedAt(K, ls, ars, N) ==
    /\ \A c \in K : \A i \in 1 .. ls[c].len : ars[ls[c].array][i] \in N
    /\ \A n \in N : \E c \in K : \E i \in 1 .. ls[c].len : ars[ls[c].array][i] = n
    /\ \A c, d \in K : \A i \in 1 .. ls[c].len, j \in 1 .. ls[d].len :
          ars[ls[c].array][i] = ars[ls[d].array][j] => c = d /\ i = j

Place(K, ls, c, i) == c \in K /\ i \in 1 .. ls[c].len
ListedForm(K, ls, ars, N) ==
    /\ \A c, i : Place(K, ls, c, i) => ars[ls[c].array][i] \in N
    /\ \A n \in N : \E c, i : Place(K, ls, c, i) /\ ars[ls[c].array][i] = n
    /\ \A c, d, i, j : (Place(K, ls, c, i) /\ Place(K, ls, d, j)
                          /\ ars[ls[c].array][i] = ars[ls[d].array][j]) => c = d /\ i = j

LEMMA ListedForms ==
  ASSUME NEW K, NEW ls, NEW ars, NEW N
  PROVE  ListedAt(K, ls, ars, N) <=> ListedForm(K, ls, ars, N)
<1>1. (\A c \in K : \A i \in 1 .. ls[c].len : ars[ls[c].array][i] \in N)
      <=> (\A c, i : Place(K, ls, c, i) => ars[ls[c].array][i] \in N)
  BY DEF Place
<1>2. (\A n \in N : \E c \in K : \E i \in 1 .. ls[c].len : ars[ls[c].array][i] = n)
      <=> (\A n \in N : \E c, i : Place(K, ls, c, i) /\ ars[ls[c].array][i] = n)
  BY DEF Place
<1>3. (\A c, d \in K : \A i \in 1 .. ls[c].len, j \in 1 .. ls[d].len :
          ars[ls[c].array][i] = ars[ls[d].array][j] => c = d /\ i = j)
      <=> (\A c, d, i, j : (Place(K, ls, c, i) /\ Place(K, ls, d, j)
              /\ ars[ls[c].array][i] = ars[ls[d].array][j]) => c = d /\ i = j)
  BY DEF Place
<1> QED
  BY <1>1, <1>2, <1>3 DEF ListedAt, ListedForm

LEMMA ListedOnceIs ==
  (arrays \in Seq(Seq(Nat)) /\ \A c \in Known : Valid(lists[c], arrays)) =>
     (ListedOnce <=> (restarts = 0 => ListedAt(Known, lists, arrays, DOMAIN byNumber)))
<1> SUFFICES ASSUME arrays \in Seq(Seq(Nat)), \A c \in Known : Valid(lists[c], arrays)
             PROVE  ListedOnce <=>
                       (restarts = 0 => ListedAt(Known, lists, arrays, DOMAIN byNumber))
  OBVIOUS
<1>1. \A c \in Known : /\ DOMAIN Numbers(c) = 1 .. lists[c].len
                       /\ \A i \in 1 .. lists[c].len :
                             Numbers(c)[i] = arrays[lists[c].array][i]
  <2> SUFFICES ASSUME NEW c \in Known
               PROVE  /\ DOMAIN Numbers(c) = 1 .. lists[c].len
                      /\ \A i \in 1 .. lists[c].len :
                            Numbers(c)[i] = arrays[lists[c].array][i]
    OBVIOUS
  <2>1. Numbers(c) = NumbersIn(lists[c], arrays)
    BY DEF Numbers, NumbersOf, NumbersIn
  <2>2. arrays \in Seq(Seq(Nat)) /\ Valid(lists[c], arrays)
    OBVIOUS
  <2>3. /\ DOMAIN NumbersIn(lists[c], arrays) = 1 .. lists[c].len
        /\ \A i \in 1 .. lists[c].len :
              NumbersIn(lists[c], arrays)[i] = arrays[lists[c].array][i]
    BY ONLY <2>2, SliceIs
  <2> QED
    BY <2>1, <2>3
<1>2. \A n : n \in Listed <=>
         \E c \in Known : \E i \in 1 .. lists[c].len : arrays[lists[c].array][i] = n
  <2>1. \A n : n \in Listed <=> \E c \in Known : n \in Range(Numbers(c))
    BY DEF Listed
  <2>2. \A c \in Known : \A n : n \in Range(Numbers(c)) <=>
           \E i \in 1 .. lists[c].len : arrays[lists[c].array][i] = n
    <3> SUFFICES ASSUME NEW c \in Known, NEW n
                 PROVE  n \in Range(Numbers(c)) <=>
                           \E i \in 1 .. lists[c].len : arrays[lists[c].array][i] = n
      OBVIOUS
    <3>1. n \in Range(Numbers(c)) <=> \E i \in DOMAIN Numbers(c) : n = Numbers(c)[i]
      BY DEF Range
    <3> QED
      BY <1>1, <3>1
  <2> QED
    BY <2>1, <2>2
<1>3. (\A c, d \in Known : \A i \in DOMAIN Numbers(c), j \in DOMAIN Numbers(d) :
          Numbers(c)[i] = Numbers(d)[j] => c = d /\ i = j)
      <=> (\A c, d \in Known : \A i \in 1 .. lists[c].len, j \in 1 .. lists[d].len :
             arrays[lists[c].array][i] = arrays[lists[d].array][j] => c = d /\ i = j)
  <2>1. ASSUME NEW c \in Known, NEW d \in Known
        PROVE  (\A i \in DOMAIN Numbers(c), j \in DOMAIN Numbers(d) :
                   Numbers(c)[i] = Numbers(d)[j] => c = d /\ i = j)
               <=> (\A i \in 1 .. lists[c].len, j \in 1 .. lists[d].len :
                   arrays[lists[c].array][i] = arrays[lists[d].array][j]
                      => c = d /\ i = j)
    <3> DEFINE C == Numbers(c)
               D == Numbers(d)
    <3>1. DOMAIN C = 1 .. lists[c].len /\ DOMAIN D = 1 .. lists[d].len
      BY <1>1
    <3>2. /\ \A i \in 1 .. lists[c].len : C[i] = arrays[lists[c].array][i]
          /\ \A i \in 1 .. lists[d].len : D[i] = arrays[lists[d].array][i]
      BY <1>1
    <3> HIDE DEF C, D
    <3>3. (\A i \in DOMAIN C, j \in DOMAIN D : C[i] = D[j] => c = d /\ i = j)
          <=> (\A i \in 1 .. lists[c].len, j \in 1 .. lists[d].len :
                 arrays[lists[c].array][i] = arrays[lists[d].array][j] => c = d /\ i = j)
      BY <3>1, <3>2
    <3> QED
      BY <3>3 DEF C, D
  <2> QED
    BY <2>1
<1>4. Listed = DOMAIN byNumber
      <=> /\ \A c \in Known : \A i \in 1 .. lists[c].len :
                arrays[lists[c].array][i] \in DOMAIN byNumber
          /\ \A n \in DOMAIN byNumber : \E c \in Known : \E i \in 1 .. lists[c].len :
                arrays[lists[c].array][i] = n
  BY <1>2
<1> QED
  BY <1>3, <1>4 DEF ListedOnce, ListedAt

LEMMA ListedOnceNext ==
  (arrays \in Seq(Seq(Nat)) /\ \A c \in Known : Valid(lists[c], arrays))' =>
     (ListedOnce <=> (restarts = 0 => ListedAt(Known, lists, arrays, DOMAIN byNumber)))'
<1>1. ((arrays \in Seq(Seq(Nat)) /\ \A c \in Known : Valid(lists[c], arrays)) =>
       (ListedOnce <=> (restarts = 0 => ListedAt(Known, lists, arrays, DOMAIN byNumber))))'
  BY ListedOnceIs, PTL
<1> QED
  BY <1>1

\* A new number goes to the end of one list.
LEMMA ListedAppend ==
  ASSUME NEW K, NEW ls, NEW ars, NEW N, ListedAt(K, ls, ars, N), NEW c, NEW n, n \notin N,
         NEW K2, K2 = K \cup {c}, NEW N2, N2 = N \cup {n},
         NEW ls2, NEW ars2, c \in K => ls[c].len \in Nat,
         ls2[c].len = (IF c \in K THEN ls[c].len ELSE 0) + 1,
         ars2[ls2[c].array][ls2[c].len] = n,
         c \in K => \A i \in 1 .. ls[c].len :
            ars2[ls2[c].array][i] = ars[ls[c].array][i],
         \A d \in K \ {c} : ls2[d] = ls[d] /\ ars2[ls[d].array] = ars[ls[d].array]
  PROVE  ListedAt(K2, ls2, ars2, N2)
<1> DEFINE At(d, i) == ars[ls[d].array][i]
           At2(d, i) == ars2[ls2[d].array][i]
           Old(d, i) == Place(K, ls, d, i)
           New(d, i) == Place(K2, ls2, d, i)
           L == ls2[c].len
<1>1. \A d, i : New(d, i) <=> Old(d, i) \/ (d = c /\ i = L)
  <2> SUFFICES ASSUME NEW d, NEW i PROVE New(d, i) <=> Old(d, i) \/ (d = c /\ i = L)
    OBVIOUS
  <2>1. CASE d # c
    BY <2>1 DEF Place
  <2>2. CASE d = c /\ c \in K
    <3>1. ls[c].len \in Nat /\ L = ls[c].len + 1
      BY <2>2
    <3>2. i \in 1 .. L <=> i \in 1 .. ls[c].len \/ i = L
      <4> HIDE DEF L
      <4> QED
        BY <3>1
    <3> QED
      BY <2>2, <3>2 DEF Place
  <2>3. CASE d = c /\ c \notin K
    BY <2>3 DEF Place
  <2> QED
    BY <2>1, <2>2, <2>3
<1>2. \A d, i : Old(d, i) => At2(d, i) = At(d, i)
  BY DEF Place
<1>3. At2(c, L) = n
  OBVIOUS
<1>4. ~Old(c, L)
  <2> SUFFICES ASSUME c \in K PROVE L \notin 1 .. ls[c].len
    BY DEF Place
  <2>1. ls[c].len \in Nat /\ L = ls[c].len + 1
    OBVIOUS
  <2> HIDE DEF L
  <2> QED
    BY <2>1
<1>5. /\ \A d, i : Old(d, i) => At(d, i) \in N
      /\ \A m \in N : \E d, i : Old(d, i) /\ At(d, i) = m
      /\ \A d, e, i, j : Old(d, i) /\ Old(e, j) /\ At(d, i) = At(e, j) => d = e /\ i = j
  BY ListedForms DEF ListedForm
<1>6. SUFFICES
      /\ \A d, i : New(d, i) => At2(d, i) \in N2
      /\ \A m \in N2 : \E d, i : New(d, i) /\ At2(d, i) = m
      /\ \A d, e, i, j : New(d, i) /\ New(e, j) /\ At2(d, i) = At2(e, j) => d = e /\ i = j
  BY ListedForms DEF ListedForm
<1> HIDE DEF At, At2, Old, New, L
<1>7. \A d, i : New(d, i) => At2(d, i) \in N2
  BY <1>1, <1>2, <1>3, <1>5
<1>8. \A m \in N2 : \E d, i : New(d, i) /\ At2(d, i) = m
  <2>1. \A m \in N : \E d, i : New(d, i) /\ At2(d, i) = m
    BY <1>1, <1>2, <1>5
  <2>2. New(c, L)
    BY <1>1
  <2> QED
    BY <1>3, <2>1, <2>2
<1>9. \A d, e, i, j : New(d, i) /\ New(e, j) /\ At2(d, i) = At2(e, j) => d = e /\ i = j
  BY <1>1, <1>2, <1>3, <1>5
<1> QED
  BY <1>7, <1>8, <1>9

\* A number leaves its list, and those behind it move up.
LEMMA ListedRemove ==
  ASSUME NEW K, NEW ls, NEW ars, NEW N, ListedAt(K, ls, ars, N),
         NEW c \in K, ls[c].len \in Nat, NEW k \in 1 .. ls[c].len,
         NEW N2, N2 = N \ {ars[ls[c].array][k]},
         NEW ls2, NEW ars2, ls2[c].len = ls[c].len - 1,
         \A j \in 1 .. ls[c].len - 1 : ars2[ls2[c].array][j] =
            ars[ls[c].array][IF j < k THEN j ELSE j + 1],
         \A d \in K \ {c} : ls2[d] = ls[d] /\ ars2[ls[d].array] = ars[ls[d].array]
  PROVE  ListedAt(K, ls2, ars2, N2)
<1> DEFINE At(d, i) == ars[ls[d].array][i]
           At2(d, i) == ars2[ls2[d].array][i]
           Old(d, i) == Place(K, ls, d, i)
           New(d, i) == Place(K, ls2, d, i)
           From(d, i) == IF d # c \/ i < k THEN i ELSE i + 1
           L == ls[c].len
<1>0. L \in Nat /\ k \in 1 .. L
  OBVIOUS
<1>1. \A d, i : New(d, i) => /\ Old(d, From(d, i)) /\ At2(d, i) = At(d, From(d, i))
                             /\ ~(d = c /\ From(d, i) = k)
  <2> SUFFICES ASSUME NEW d, NEW i, New(d, i)
               PROVE  /\ Old(d, From(d, i)) /\ At2(d, i) = At(d, From(d, i))
                      /\ ~(d = c /\ From(d, i) = k)
    OBVIOUS
  <2>1. CASE d # c
    BY <2>1 DEF Place
  <2>2. CASE d = c
    <3>1. i \in 1 .. L - 1
      BY <2>2 DEF Place
    <3>2. At2(c, i) = At(c, IF i < k THEN i ELSE i + 1)
      BY <3>1
    <3>3. From(c, i) = IF i < k THEN i ELSE i + 1
      OBVIOUS
    <3> HIDE DEF L
    <3>4. /\ i < k => i \in 1 .. L /\ i # k
          /\ ~(i < k) => i + 1 \in 1 .. L /\ i + 1 # k
      BY <1>0, <3>1
    <3> QED
      BY <2>2, <3>2, <3>3, <3>4 DEF L, Place
  <2> QED
    BY <2>1, <2>2
<1>2. \A d, i : Old(d, i) /\ ~(d = c /\ i = k) => \E j : New(d, j) /\ From(d, j) = i
  <2> SUFFICES ASSUME NEW d, NEW i, Old(d, i), ~(d = c /\ i = k)
               PROVE  \E j : New(d, j) /\ From(d, j) = i
    OBVIOUS
  <2>1. CASE d # c
    BY <2>1 DEF Place
  <2>2. CASE d = c
    <3>1. i \in 1 .. L /\ i # k
      BY <2>2 DEF Place
    <3> DEFINE j == IF i < k THEN i ELSE i - 1
    <3>2. j \in 1 .. L - 1 /\ (IF j < k THEN j ELSE j + 1) = i
      <4> HIDE DEF L
      <4> QED
        BY <1>0, <3>1
    <3> HIDE DEF j
    <3>3. New(d, j) /\ From(d, j) = i
      BY <2>2, <3>2 DEF Place
    <3> QED
      BY <3>3
  <2> QED
    BY <2>1, <2>2
<1>3. \A d, i, j : New(d, i) /\ New(d, j) /\ From(d, i) = From(d, j) => i = j
  <2> SUFFICES ASSUME NEW d, NEW i, NEW j, New(d, i), New(d, j), From(d, i) = From(d, j)
               PROVE  i = j
    OBVIOUS
  <2>1. CASE d # c
    BY <2>1 DEF Place
  <2>2. CASE d = c
    <3>1. i \in 1 .. L - 1 /\ j \in 1 .. L - 1
      BY <2>2 DEF Place
    <3>2. (IF i < k THEN i ELSE i + 1) = (IF j < k THEN j ELSE j + 1)
      BY <2>2
    <3> HIDE DEF L
    <3> QED
      BY <1>0, <3>1, <3>2
  <2> QED
    BY <2>1, <2>2
<1>4. /\ \A d, i : Old(d, i) => At(d, i) \in N
      /\ \A m \in N : \E d, i : Old(d, i) /\ At(d, i) = m
      /\ \A d, e, i, j : Old(d, i) /\ Old(e, j) /\ At(d, i) = At(e, j) => d = e /\ i = j
      /\ Old(c, k)
  BY ListedForms DEF ListedForm, Place
<1> DEFINE M == N \ {At(c, k)}
<1>5. SUFFICES
      /\ \A d, i : New(d, i) => At2(d, i) \in M
      /\ \A m \in M : \E d, i : New(d, i) /\ At2(d, i) = m
      /\ \A d, e, i, j : New(d, i) /\ New(e, j) /\ At2(d, i) = At2(e, j) => d = e /\ i = j
  BY ListedForms DEF ListedForm
<1> HIDE DEF At, At2, Old, New, From
<1>6. \A d, i : New(d, i) => At2(d, i) \in M
  BY <1>1, <1>4
<1>7. \A m \in M : \E d, i : New(d, i) /\ At2(d, i) = m
  BY <1>1, <1>2, <1>4
<1>8. \A d, e, i, j : New(d, i) /\ New(e, j) /\ At2(d, i) = At2(e, j) => d = e /\ i = j
  BY <1>1, <1>3, <1>4
<1> QED
  BY <1>6, <1>7, <1>8
-------------------------------------------------------------------------------
(* Money in the accounts and on its way. *)

LEMMA AccountIs ==
  ASSUME NEW a \in Account
  PROVE  /\ a.balance \in 0 .. MaxInt /\ a.balance \in Int
         /\ a.txns \in Seq(Int) /\ a.loaded \in Nat
         /\ a = [balance |-> a.balance, txns |-> a.txns, loaded |-> a.loaded]
  BY BankAssumption DEF Account

\* The total changes as one balance does.
LEMMA TotalChange ==
  ASSUME objects \in Seq(Account), objects' \in Seq(Account),
         DOMAIN objects' = DOMAIN objects, NEW o \in DOMAIN objects,
         \A p \in DOMAIN objects : p # o => objects'[p] = objects[p]
  PROVE  /\ Total \in Int
         /\ Total' = Total - objects[o].balance + objects'[o].balance
<1> DEFINE D == DOMAIN objects
           f == [p \in D |-> objects[p].balance]
           e == [p \in D |-> objects'[p].balance]
<1>1. IsFiniteSet(D)
  BY FS_Interval
<1>2. IntOn(f, D) /\ IntOn(e, D)
  <2>1. \A p \in D : objects[p] \in Account /\ objects'[p] \in Account
    OBVIOUS
  <2> QED
    BY <2>1, AccountIs DEF IntOn
<1>3. \A p \in D : p # o => f[p] = e[p]
  OBVIOUS
<1>4. Total = Sum(f) /\ Total' = Sum(e)
  BY DEF Total
<1>5. DOMAIN f = D /\ DOMAIN e = D /\ f[o] = objects[o].balance
      /\ e[o] = objects'[o].balance
  OBVIOUS
<1> HIDE DEF f, e, D
<1>6. o \in D
  BY DEF D
<1>7. Sum(f) \in Int /\ Sum(e) = Sum(f) - f[o] + e[o]
  BY <1>1, <1>2, <1>3, <1>5, <1>6, SumChange
<1> QED
  BY <1>4, <1>5, <1>7

\* A new account adds its balance.
LEMMA TotalAppend ==
  ASSUME objects \in Seq(Account), NEW a \in Account, objects' = Append(objects, a)
  PROVE  Total \in Int /\ Total' = Total + a.balance
<1> DEFINE f == [p \in DOMAIN objects |-> objects[p].balance]
           e == [p \in DOMAIN objects' |-> objects'[p].balance]
           n == Len(objects)
<1>1. /\ n \in Nat /\ DOMAIN objects = 1 .. n /\ objects' \in Seq(Account)
      /\ DOMAIN objects' = 1 .. n + 1 /\ \A i \in 1 .. n : objects'[i] = objects[i]
      /\ objects'[n + 1] = a
  OBVIOUS
<1>2. \A i \in 1 .. n : i \in 1 .. n + 1
  BY <1>1
<1>3. \A i \in 1 .. n : f[i] \in Int /\ e[i] = f[i]
  BY <1>1, <1>2, AccountIs
<1>4. n + 1 \in 1 .. n + 1 /\ e[n + 1] = a.balance
  BY <1>1
<1>5. \A i \in 1 .. n + 1 : e[i] \in Int
  BY <1>1, AccountIs
<1>6. Total = Sum(f) /\ Total' = Sum(e)
  BY DEF Total
<1>7. DOMAIN f = 1 .. n /\ DOMAIN e = 1 .. n + 1 /\ f = [i \in 1 .. n |-> f[i]]
      /\ e = [i \in 1 .. n + 1 |-> e[i]]
  BY <1>1
<1> HIDE DEF f, e, n
<1>8. f \in Seq(Int) /\ e \in Seq(Int) /\ Len(f) = n /\ Len(e) = n + 1
  <2>1. f \in [1 .. n -> Int] /\ e \in [1 .. n + 1 -> Int]
    BY <1>3, <1>5, <1>7
  <2>2. n \in Nat /\ n + 1 \in Nat
    BY <1>1
  <2> QED
    BY <2>1, <2>2
<1>9. Sum(f) \in Int /\ Sum(e) = Sum(f) + e[Len(e)]
  BY <1>3, <1>8, SumAppend
<1> QED
  BY <1>4, <1>6, <1>8, <1>9

\* newTransaction: the account, the sum of what it did, and the total.
LEMMA NewTransactionIs ==
  ASSUME objects \in Seq(Account), BalanceInv, NEW o \in DOMAIN objects,
         NEW amount \in Int, -MaxInt <= amount, amount <= MaxInt,
         Accepts(o, amount), NewTransaction(o, amount)
  PROVE  /\ objects' \in Seq(Account) /\ DOMAIN objects' = DOMAIN objects
         /\ Len(objects') = Len(objects) /\ BalanceInv'
         /\ Total \in Int /\ Total' = Total + amount
<1> DEFINE a == objects[o]
           b == [balance |-> a.balance + amount, txns |-> Append(a.txns, amount),
                 loaded |-> a.loaded]
<1>1. a \in Account
  OBVIOUS
<1>2. /\ a.balance \in 0 .. MaxInt /\ a.txns \in Seq(Int) /\ a.loaded \in Nat
      /\ a = [balance |-> a.balance, txns |-> a.txns, loaded |-> a.loaded]
  BY <1>1, AccountIs
<1>3. Wrap(a.balance + amount) = a.balance + amount /\ a.balance + amount \in 0 .. MaxInt
  BY <1>2, WrapIs DEF Accepts
<1>4. objects' = [objects EXCEPT ![o] = b]
  <2>1. objects' = [objects EXCEPT ![o] = [[a EXCEPT !.balance = Wrap(@ + amount)]
                                              EXCEPT !.txns = Append(@, amount)]]
    BY DEF NewTransaction
  <2>2. [[a EXCEPT !.balance = Wrap(@ + amount)] EXCEPT !.txns = Append(@, amount)] = b
    <3> DEFINE w == Wrap(a.balance + amount)
               c == [a EXCEPT !.balance = w]
               t == Append(a.txns, amount)
    <3>1. w = a.balance + amount
      BY <1>3
    <3> HIDE DEF w, t
    <3>2. c = [balance |-> w, txns |-> a.txns, loaded |-> a.loaded]
      <4> HIDE DEF a
      <4> QED
        BY <1>2
    <3>3. c.txns = a.txns
      BY <3>2
    <3> HIDE DEF c
    <3>4. [c EXCEPT !.txns = t] = [balance |-> w, txns |-> t, loaded |-> a.loaded]
      BY <3>2
    <3> QED
      BY <3>1, <3>3, <3>4 DEF w, c, t
  <2> QED
    BY <2>1, <2>2
<1>5. b \in Account
  BY <1>2, <1>3 DEF Account
<1>6. /\ b.balance = a.balance + amount /\ b.txns = Append(a.txns, amount)
      /\ b.loaded = a.loaded
  OBVIOUS
<1> HIDE DEF a, b
<1>7. /\ objects' \in Seq(Account) /\ DOMAIN objects' = DOMAIN objects
      /\ Len(objects') = Len(objects) /\ objects'[o] = b
      /\ \A p \in DOMAIN objects : p # o => objects'[p] = objects[p]
  BY <1>4, <1>5
<1>8. Total \in Int /\ Total' = Total + amount
  <2>1. Total \in Int /\ Total' = Total - a.balance + b.balance
    BY <1>7, TotalChange DEF a
  <2> QED
    BY <1>2, <1>6, <2>1
<1>9. /\ b.loaded <= Len(b.txns)
      /\ b.balance = Sum(SubSeq(b.txns, b.loaded + 1, Len(b.txns)))
  <2> DEFINE n == Len(a.txns)
             l == a.loaded
             t == Append(a.txns, amount)
             u == SubSeq(a.txns, l + 1, n)
             v == SubSeq(t, l + 1, n + 1)
  <2>1. n \in Nat /\ l \in Nat /\ l <= n /\ a.balance = Sum(u)
    BY <1>2 DEF BalanceInv, a
  <2>0. n = Len(a.txns) /\ a.txns \in Seq(Int) /\ l + 1 \in Nat
        /\ \A i \in l + 1 .. n : a.txns[i] \in Int
    BY <1>2, <2>1
  <2>2. /\ t \in Seq(Int) /\ Len(t) = n + 1 /\ t[n + 1] = amount
        /\ \A i \in 1 .. n : t[i] = a.txns[i]
    BY <1>2
  <2>3. /\ u \in Seq(Int) /\ Len(u) = n - l
        /\ \A i \in 1 .. n - l : u[i] = a.txns[l + i]
    <3> HIDE DEF n, l
    <3>1. /\ a.txns \in Seq(Int) /\ l \in Nat /\ n \in Nat
          /\ l <= n /\ n <= Len(a.txns)
      BY <2>0, <2>1
    <3> HIDE DEF a
    <3> QED
      BY <3>1, SuffixIs
  <2> HIDE DEF t
  <2>4. /\ v \in Seq(Int) /\ Len(v) = n + 1 - l
        /\ \A i \in 1 .. n + 1 - l : v[i] = t[l + i]
    <3> HIDE DEF n, l
    <3>1. n + 1 \in Nat /\ l <= n + 1 /\ Len(t) = n + 1
      BY <2>1, <2>2
    <3>2. /\ t \in Seq(Int) /\ l \in Nat /\ n + 1 \in Nat
          /\ l <= n + 1 /\ n + 1 <= Len(t)
      BY <2>1, <2>2, <3>1
    <3> DEFINE m == n + 1
    <3>4. m \in Nat /\ l <= m /\ m <= Len(t)
      BY <3>2
    <3> HIDE DEF a, t, m
    <3>5. /\ SubSeq(t, l + 1, m) \in Seq(Int) /\ Len(SubSeq(t, l + 1, m)) = m - l
          /\ \A i \in 1 .. m - l : SubSeq(t, l + 1, m)[i] = t[l + i]
      BY <3>2, <3>4, SuffixIs
    <3>6. v = SubSeq(t, l + 1, m)
      BY DEF m
    <3>7. n + 1 - l = m - l
      <4>1. n \in Nat /\ l \in Nat
        BY <2>1
      <4> HIDE DEF n, l
      <4> QED
        BY <4>1 DEF m
    <3> HIDE DEF v, n, l
    <3> QED
      BY ONLY <3>5, <3>6, <3>7
  <2> HIDE DEF n, l
  <2>5. \A i \in 1 .. n - l : v[i] = u[i]
    <3>1. \A i \in 1 .. n - l : i \in 1 .. n + 1 - l /\ l + i \in 1 .. n
      BY <2>1
    <3> QED
      BY <2>2, <2>3, <2>4, <3>1
  <2>6. v[n + 1 - l] = amount
    <3>1. n + 1 - l \in 1 .. n + 1 - l /\ l + (n + 1 - l) = n + 1
      BY <2>1
    <3> QED
      BY <2>2, <2>4, <3>1
  <2>7. n + 1 - l = (n - l) + 1
    BY <2>1
  <2> HIDE DEF u, v
  <2>8. Sum(v) = Sum(u) + amount
    BY <2>3, <2>4, <2>5, <2>6, <2>7, SumAppend
  <2>9. l <= n + 1
    BY <2>1
  <2> QED
    BY <1>6, <2>1, <2>2, <2>8, <2>9 DEF t, v, l, n
<1>10. BalanceInv'
  BY <1>7, <1>9 DEF BalanceInv
<1> QED
  BY <1>7, <1>8, <1>10
-------------------------------------------------------------------------------
(* Requests. *)

Steps == {"source", "dest", "debit", "credit"}

LEMMA RequestIs ==
  ASSUME NEW q \in Request
  PROVE  /\ q.step \in Steps /\ q.op \in {"deposit", "withdraw", "transfer"}
         /\ q.customer \in Customers
         /\ q.from \in Number \cup {External} /\ q.to \in Number \cup {External}
         /\ q.amount \in 1 .. MaxInt /\ q.amount \in Int /\ q.amount > 0
         /\ q.amount <= MaxInt
         /\ q.src \in Nat /\ q.dst \in Nat
         /\ q.step # "idle" /\ q # Idle
<1>1. q.step \in Steps /\ q.amount \in 1 .. MaxInt
  BY DEF Request, Steps
<1>2. q.step # "idle" /\ Idle.step = "idle"
  BY <1>1 DEF Steps, Idle
<1>3. q.amount \in Int /\ q.amount > 0 /\ q.amount <= MaxInt
  BY <1>1, BankAssumption
<1> QED
  BY <1>1, <1>2, <1>3 DEF Request

\* What is in transit with a request.
Held(q) == IF q.step = "credit" /\ q.from # External THEN q.amount ELSE 0

LEMMA HeldIs ==
  ASSUME NEW q \in Request \cup {Idle}
  PROVE  Held(q) \in Int /\ Held(q) >= 0 /\ Held(Idle) = 0
<1>1. Held(Idle) = 0
  BY DEF Held, Idle
<1>2. CASE q \in Request
  BY <1>1, <1>2, RequestIs DEF Held
<1> QED
  BY <1>1, <1>2

\* It changes as one request does.
LEMMA TransitChange ==
  ASSUME request \in [Requests -> Request \cup {Idle}],
         request' \in [Requests -> Request \cup {Idle}],
         NEW r \in Requests, \A x \in Requests : x # r => request'[x] = request[x]
  PROVE  /\ InTransit \in Int
         /\ InTransit' = InTransit - Held(request[r]) + Held(request'[r])
<1> DEFINE f == [x \in Requests |-> Held(request[x])]
           e == [x \in Requests |-> Held(request'[x])]
<1>1. InTransit = Sum(f) /\ InTransit' = Sum(e)
  BY DEF InTransit, Held
<1>2. IntOn(f, Requests) /\ IntOn(e, Requests)
  BY HeldIs DEF IntOn
<1>3. /\ DOMAIN f = Requests /\ DOMAIN e = Requests /\ f[r] = Held(request[r])
      /\ e[r] = Held(request'[r]) /\ \A x \in Requests : x # r => f[x] = e[x]
  OBVIOUS
<1> HIDE DEF f, e
<1>4. Sum(f) \in Int /\ Sum(e) = Sum(f) - f[r] + e[r]
  BY <1>2, <1>3, SumChange, BankAssumption
<1> QED
  BY <1>1, <1>3, <1>4

\* Without requests nothing is in transit.
LEMMA TransitNone ==
  ASSUME \A r \in Requests : request[r] = Idle
  PROVE  InTransit = 0
<1> DEFINE f == [x \in Requests |-> Held(request[x])]
           N == {n \in Nat : \A S \in SUBSET Requests :
                    Cardinality(S) = n => SumOn(f, S) = 0}
<1>1. InTransit = SumOn(f, Requests)
  BY SumDef DEF InTransit, Held
<1>2. \A x \in Requests : f[x] = 0
  BY DEF Held, Idle
<1> HIDE DEF f
<1>3. \A S \in SUBSET Requests : /\ IsFiniteSet(S) /\ Cardinality(S) \in Nat
                                 /\ (Cardinality(S) = 0 => S = {})
  BY BankAssumption, FS_Subset, FS_CardinalityType, FS_EmptySet
<1>4. 0 \in N
  BY <1>3, SumEmpty
<1>5. ASSUME NEW n \in N PROVE n + 1 \in N
  <2>1. ASSUME NEW S \in SUBSET Requests, Cardinality(S) = n + 1 PROVE SumOn(f, S) = 0
    <3>1. n + 1 # 0 /\ Cardinality({}) = 0
      BY FS_EmptySet
    <3>2. PICK x : x \in S
      BY <2>1, <3>1
    <3>3. Cardinality(S \ {x}) = n
      <4>1. IsFiniteSet(S) /\ Cardinality(S \ {x}) = Cardinality(S) - 1
        BY <1>3, <3>2, FS_RemoveElement
      <4>2. n \in Int
        BY <1>5
      <4> QED
        BY ONLY <2>1, <4>1, <4>2
    <3>4. SumOn(f, S \ {x}) = 0
      BY <3>3
    <3>5. IntOn(f, S)
      BY <1>2 DEF IntOn
    <3>6. SumOn(f, S) = f[x] + SumOn(f, S \ {x})
      BY <1>3, <3>2, <3>5, SumRemove
    <3> QED
      BY <1>2, <3>2, <3>4, <3>6
  <2> QED
    BY <2>1
<1>6. N = Nat
  <2> HIDE DEF N
  <2>1. N \in SUBSET Nat
    BY DEF N
  <2> QED
    BY <1>4, <1>5, <2>1, SetInduction
<1> QED
  BY <1>1, <1>3, <1>6
-------------------------------------------------------------------------------
(* The handlers. *)

\* What holds of the accounts and the requests for them.
BankSafe == BankTypeOK /\ SliceInv /\ AccountInv /\ BalanceInv /\ FirstRunInv

\* What a saver that has read some of it relies on.
Grows ==
    /\ Known \subseteq Known'
    /\ DOMAIN objects \subseteq DOMAIN objects'
    /\ \A v : Valid(v, arrays) => Valid(v, arrays')

LEMMA TotalInt ==
  ASSUME objects \in Seq(Account)
  PROVE  Total \in Int
<1> DEFINE D == DOMAIN objects
           f == [o \in D |-> objects[o].balance]
<1>1. IsFiniteSet(D) /\ DOMAIN f = D /\ Total = Sum(f)
  BY FS_Interval DEF Total
<1>2. IntOn(f, D)
  <2>1. \A o \in D : objects[o] \in Account
    OBVIOUS
  <2> QED
    BY <2>1, AccountIs DEF IntOn
<1> HIDE DEF f, D
<1>3. PICK g : IsIter(g, f, D) /\ SumOn(f, D) = g[D]
  BY <1>1, <1>2, SumIs
<1>4. g[D] \in Int
  BY <1>3 DEF IsIter
<1> QED
  BY <1>1, <1>3, <1>4, SumDef

LEMMA TransitInt ==
  ASSUME request \in [Requests -> Request \cup {Idle}]
  PROVE  InTransit \in Int
<1> DEFINE f == [x \in Requests |-> Held(request[x])]
<1>1. InTransit = SumOn(f, Requests)
  BY SumDef DEF InTransit, Held
<1>2. IntOn(f, Requests)
  BY HeldIs DEF IntOn
<1> HIDE DEF f
<1>3. PICK g : IsIter(g, f, Requests) /\ SumOn(f, Requests) = g[Requests]
  BY <1>2, SumIs, BankAssumption
<1>4. g[Requests] \in Int
  BY <1>3 DEF IsIter
<1> QED
  BY <1>1, <1>3, <1>4

\* The lists stay what they are.
LEMMA ListsKept ==
  ASSUME BankTypeOK, SliceInv, ListedOnce, UNCHANGED <<listVars, byNumber, restarts>>
  PROVE  SliceInv' /\ ListedOnce' /\ \A v : Valid(v, arrays) => Valid(v, arrays')
<1>1. UNCHANGED <<customers, lists, arrays, byNumber, restarts>>
  BY DEF listVars
<1>2. SliceInv'
  BY <1>1 DEF SliceInv, Known
<1>3. \A c : Numbers(c)' = Numbers(c)
  BY <1>1 DEF Numbers, NumbersOf, Known
<1>4. Listed' = Listed /\ Known' = Known
  BY <1>1, <1>3 DEF Listed, Known
<1>5. ListedOnce'
  BY <1>1, <1>3, <1>4 DEF ListedOnce
<1> QED
  BY <1>1, <1>2, <1>5

\* A request goes on, with or without a transaction on one account.
LEMMA AccountStep ==
  ASSUME BankSafe, UNCHANGED <<listVars, byNumber, lastNum, restarts>>,
         NEW r \in Requests, NEW p \in Request \cup {Idle},
         request' = [request EXCEPT ![r] = p], paidIn' \in Int,
         NEW amount \in Int, objects' \in Seq(Account), DOMAIN objects' = DOMAIN objects,
         Len(objects') = Len(objects), BalanceInv', Total' = Total + amount,
         p # Idle =>
            /\ {p.src, p.dst} \subseteq DOMAIN objects \cup {Nil}
            /\ restarts = 0 /\ p.step # "source" /\ p.from # External => p.src # Nil,
         restarts = 0 => amount + Held(p) - Held(request[r]) <= paidIn' - paidIn
  PROVE  BankSafe' /\ Grows
<1>1. /\ BankTypeOK /\ SliceInv /\ AccountInv /\ BalanceInv /\ FirstRunInv
      /\ UNCHANGED <<customers, lists, arrays, byNumber, lastNum, restarts>>
  BY DEF BankSafe, listVars
<1>2. /\ request \in [Requests -> Request \cup {Idle}] /\ objects \in Seq(Account)
      /\ paidIn \in Int
  BY <1>1 DEF BankTypeOK
<1>3. /\ request' \in [Requests -> Request \cup {Idle}] /\ request'[r] = p
      /\ \A x \in Requests : x # r => request'[x] = request[x]
  BY <1>2
<1>4. BankTypeOK'
  BY <1>1, <1>3 DEF BankTypeOK, Known
<1>5. SliceInv' /\ ListedOnce' /\ \A v : Valid(v, arrays) => Valid(v, arrays')
  BY <1>1, ListsKept DEF FirstRunInv
<1>6. \A x \in InProgress' : \/ x = r /\ p # Idle
                             \/ x \in InProgress /\ x # r /\ request'[x] = request[x]
  BY <1>3 DEF InProgress
<1>7. AccountInv'
  BY <1>1, <1>3, <1>6 DEF AccountInv
<1>8. ASSUME restarts = 0 PROVE (Total + InTransit <= paidIn)'
  <2>1. /\ InTransit \in Int
        /\ InTransit' = InTransit - Held(request[r]) + Held(p)
    BY <1>2, <1>3, TransitChange
  <2>2. Total \in Int /\ Total + InTransit <= paidIn
    BY <1>1, <1>2, <1>8, TotalInt DEF FirstRunInv
  <2>3. Held(request[r]) \in Int /\ Held(p) \in Int
    BY <1>2, HeldIs
  <2>4. amount + Held(p) - Held(request[r]) <= paidIn' - paidIn
    BY <1>8
  <2>5. (Total + amount) + (InTransit - Held(request[r]) + Held(p)) <= paidIn'
    <3>1. paidIn \in Int /\ paidIn' \in Int /\ amount \in Int
      BY <1>2
    <3> QED
      BY ONLY <2>1, <2>2, <2>3, <2>4, <3>1
  <2> QED
    BY <2>1, <2>5
<1>9. FirstRunInv'
  <2>1. ASSUME restarts = 0
        PROVE  /\ DOMAIN byNumber' \subseteq 1 .. lastNum'
               /\ \A x \in InProgress' :
                    request'[x].step # "source" /\ request'[x].from # External
                        => request'[x].src # Nil
    BY <1>1, <1>3, <1>6, <2>1 DEF FirstRunInv
  <2> QED
    BY <1>1, <1>5, <1>8, <2>1 DEF FirstRunInv
<1> QED
  BY <1>1, <1>4, <1>5, <1>7, <1>9 DEF BankSafe, Grows, Known

\* A request goes on without one.
LEMMA RequestStep ==
  ASSUME BankSafe, UNCHANGED <<listVars, accountVars, paidIn, restarts>>,
         NEW r \in Requests, NEW p \in Request \cup {Idle},
         request' = [request EXCEPT ![r] = p],
         p # Idle =>
            /\ {p.src, p.dst} \subseteq DOMAIN objects \cup {Nil}
            /\ restarts = 0 /\ p.step # "source" /\ p.from # External => p.src # Nil,
         restarts = 0 => Held(p) <= Held(request[r])
  PROVE  BankSafe' /\ Grows
<1>1. UNCHANGED <<byNumber, objects, lastNum, paidIn>>
  BY DEF accountVars
<1>2. /\ objects \in Seq(Account) /\ paidIn \in Int /\ BalanceInv
      /\ request[r] \in Request \cup {Idle}
  BY DEF BankSafe, BankTypeOK
<1>3. BalanceInv' /\ Total' = Total
  BY <1>1, <1>2 DEF BalanceInv, Total
<1>4. Total' = Total + 0
  BY <1>2, <1>3, TotalInt
<1>5. Held(p) \in Int /\ Held(request[r]) \in Int
  BY <1>2, HeldIs
<1>6. restarts = 0 => 0 + Held(p) - Held(request[r]) <= paidIn' - paidIn
  BY <1>1, <1>2, <1>5
<1>7. /\ 0 \in Int /\ paidIn' \in Int /\ objects' \in Seq(Account)
      /\ DOMAIN objects' = DOMAIN objects /\ Len(objects') = Len(objects)
      /\ UNCHANGED <<listVars, byNumber, lastNum, restarts>>
  BY <1>1, <1>2
<1> QED
  BY <1>3, <1>4, <1>6, <1>7, AccountStep

\* The accounts of a request that is in progress are those it had.
LEMMA RequestsKept ==
  ASSUME AccountInv, UNCHANGED request, DOMAIN objects \subseteq DOMAIN objects',
         lastNum' <= Len(objects')
  PROVE  AccountInv' /\ InProgress' = InProgress
  BY DEF AccountInv, InProgress

LEMMA NewAccountIs ==
  ASSUME NEW initial \in 0 .. MaxInt
  PROVE  /\ [balance |-> initial, txns |-> <<initial>>, loaded |-> 0] \in Account
         /\ initial = Sum(SubSeq(<<initial>>, 0 + 1, Len(<<initial>>)))
<1>1. initial \in Int
  BY BankAssumption
<1>2. <<>> \in Seq(Int) /\ <<initial>> \in Seq(Int)
      /\ Len(<<>>) = 0 /\ Len(<<initial>>) = 1 /\ <<initial>>[1] = initial
  BY <1>1
<1> DEFINE e == <<>>
           t == <<initial>>
           u == SubSeq(t, 0 + 1, Len(t))
<1>3. /\ e \in Seq(Int) /\ t \in Seq(Int) /\ Len(e) = 0 /\ Len(t) = 1 /\ t[1] = initial
      /\ e = <<>>
  BY <1>2
<1>4. u \in Seq(Int) /\ Len(u) = 1 /\ u[1] = initial
  <2> HIDE DEF t
  <2> QED
    BY <1>3
<1>5. [balance |-> initial, txns |-> t, loaded |-> 0] \in Account
  BY <1>3 DEF Account
<1> HIDE DEF e, t, u
<1>6. Sum(u) = Sum(e) + u[Len(u)]
  <2>1. Len(u) = Len(e) + 1 /\ \A i \in 1 .. Len(e) : u[i] = e[i]
    BY <1>3, <1>4
  <2> QED
    BY <1>3, <1>4, <2>1, SumAppend
<1>7. Sum(e) = 0
  BY <1>3, SumNone
<1>8. initial = Sum(u)
  BY <1>1, <1>4, <1>6, <1>7
<1> QED
  BY <1>5, <1>8 DEF t, u

LEMMA OpenAccountSafe ==
  ASSUME BankSafe, NEW c \in Customers, NEW initial \in 0 .. MaxInt,
         OpenAccount(c, initial), UNCHANGED restarts
  PROVE  BankSafe' /\ Grows
<1> DEFINE a == [balance |-> initial, txns |-> <<initial>>, loaded |-> 0]
           n == lastNum + 1
           k == Len(objects)
<1>1. /\ BankTypeOK /\ SliceInv /\ AccountInv /\ BalanceInv /\ FirstRunInv
  BY DEF BankSafe
<1>2. /\ objects \in Seq(Account) /\ lists \in [Known -> Slice]
      /\ arrays \in Seq(Seq(Nat)) /\ customers \in Seq(Customers)
      /\ Known = Range(customers) /\ lastNum \in Number \cup {0} /\ paidIn \in Int
      /\ request \in [Requests -> Request \cup {Idle}]
      /\ byNumber \in [DOMAIN byNumber -> DOMAIN objects] /\ DOMAIN byNumber \subseteq Number
  BY <1>1 DEF BankTypeOK
<1>3. /\ k < MaxAccounts /\ lastNum' = n /\ AppendNumber(c, n)
      /\ customers' = IF c \in Known THEN customers ELSE Append(customers, c)
      /\ objects' = Append(objects, a) /\ paidIn' = paidIn + initial
      /\ request' = request
      /\ byNumber' = [m \in DOMAIN byNumber \cup {n} |->
                         IF m = n THEN Len(objects') ELSE byNumber[m]]
  BY DEF OpenAccount
<1>4. a \in Account /\ a.loaded = 0 /\ a.txns = <<initial>> /\ a.balance = initial
      /\ a.balance = Sum(SubSeq(a.txns, a.loaded + 1, Len(a.txns))) /\ initial \in Int
      /\ a.loaded <= Len(a.txns)
  BY NewAccountIs, BankAssumption
<1> HIDE DEF a
<1>5. /\ k \in Nat /\ DOMAIN objects = 1 .. k /\ objects' \in Seq(Account)
      /\ Len(objects') = k + 1 /\ DOMAIN objects' = 1 .. k + 1
      /\ objects'[k + 1] = a /\ \A o \in 1 .. k : objects'[o] = objects[o]
  BY <1>2, <1>3, <1>4
<1>6. n \in Number /\ lastNum <= k /\ n <= k + 1 /\ lastNum \in Nat
  <2>1. lastNum <= Len(objects) /\ MaxAccounts \in Nat
    BY <1>1, BankAssumption DEF AccountInv
  <2> QED
    BY <1>2, <1>3, <1>5, <2>1 DEF Number
<1>7. /\ arrays' \in Seq(Seq(Nat)) /\ lists' \in [Known \cup {c} -> Slice]
      /\ \A v : Valid(v, arrays) => Valid(v, arrays')
      /\ Valid(lists'[c], arrays')
      /\ \A d \in Known \ {c} : /\ lists'[d] = lists[d]
                                /\ lists[d].array # lists'[c].array
                                /\ arrays'[lists[d].array] = arrays[lists[d].array]
      /\ lists'[c].len = (IF c \in Known THEN lists[c].len ELSE 0) + 1
      /\ arrays'[lists'[c].array][lists'[c].len] = n
      /\ c \in Known => \A i \in 1 .. lists[c].len :
            arrays'[lists'[c].array][i] = arrays[lists[c].array][i]
  BY <1>1, <1>2, <1>3, <1>6, AppendNumberIs
<1>8. Known' = Known \cup {c}
  BY <1>7 DEF Known
<1>9. customers' \in Seq(Customers) /\ Known' = Range(customers')
  <2>1. CASE c \in Known
    BY <1>2, <1>3, <1>8, <2>1
  <2>2. CASE c \notin Known
    <3>1. customers' = Append(customers, c)
      BY <1>3, <2>2
    <3>2. Range(customers') = Range(customers) \cup {c}
      <4>1. /\ DOMAIN customers' = 1 .. Len(customers) + 1 /\ Len(customers) \in Nat
            /\ DOMAIN customers = 1 .. Len(customers)
            /\ customers'[Len(customers) + 1] = c
            /\ \A i \in 1 .. Len(customers) : customers'[i] = customers[i]
        BY <1>2, <3>1
      <4>2. \A i : i \in DOMAIN customers'
                     <=> i \in DOMAIN customers \/ i = Len(customers) + 1
        BY <4>1
      <4> QED
        BY <4>1, <4>2 DEF Range
    <3> QED
      BY <1>2, <1>8, <3>1, <3>2
  <2> QED
    BY <2>1, <2>2
<1>10. /\ DOMAIN byNumber' = DOMAIN byNumber \cup {n}
       /\ byNumber' \in [DOMAIN byNumber' -> DOMAIN objects']
  BY <1>2, <1>3, <1>5
<1>11. BankTypeOK'
  <2>1. paidIn' \in Int
    BY <1>2, <1>3, <1>4
  <2>2. DOMAIN byNumber' \subseteq Number /\ lastNum' \in Number \cup {0}
    BY <1>2, <1>3, <1>6, <1>10
  <2> QED
    BY <1>2, <1>3, <1>5, <1>7, <1>8, <1>9, <1>10, <2>1, <2>2 DEF BankTypeOK
<1>12. SliceInv'
  <2>1. \A d \in Known : Valid(lists[d], arrays)
    BY <1>1 DEF SliceInv
  <2>2. \A d \in Known' : Valid(lists'[d], arrays')
    BY <1>7, <1>8, <2>1
  <2>3. \A d, e \in Known : lists[d].array = lists[e].array => d = e
    BY <1>1 DEF SliceInv
  <2>4. \A d, e \in Known' : lists'[d].array = lists'[e].array => d = e
    <3> SUFFICES ASSUME NEW d \in Known', NEW e \in Known',
                        lists'[d].array = lists'[e].array
                 PROVE  d = e
      OBVIOUS
    <3>0. \A x \in Known' \ {c} : /\ x \in Known /\ lists'[x] = lists[x]
                                  /\ lists[x].array # lists'[c].array
      BY <1>7, <1>8
    <3>1. CASE d # c /\ e # c
      BY <2>3, <3>0, <3>1
    <3>2. CASE d = c /\ e # c
      <4>1. lists'[e].array = lists[e].array /\ lists[e].array # lists'[c].array
        BY <3>0, <3>2
      <4> QED
        BY <3>2, <4>1
    <3>3. CASE d # c /\ e = c
      <4>1. lists'[d].array = lists[d].array /\ lists[d].array # lists'[c].array
        BY <3>0, <3>3
      <4> QED
        BY <3>3, <4>1
    <3> QED
      BY <3>1, <3>2, <3>3
  <2> QED
    BY <2>2, <2>4 DEF SliceInv
<1>13. DOMAIN objects \subseteq DOMAIN objects'
  BY <1>5
<1>14. AccountInv' /\ InProgress' = InProgress
  BY <1>1, <1>3, <1>5, <1>6, <1>13, RequestsKept
<1>15. BalanceInv'
  <2>1. \A o \in 1 .. k + 1 : o \in 1 .. k \/ o = k + 1
    BY <1>5
  <2> QED
    BY <1>1, <1>4, <1>5, <2>1 DEF BalanceInv
<1>16. ListedOnce'
  <2>1. ASSUME restarts = 0
        PROVE  ListedAt(Known', lists', arrays', DOMAIN byNumber')
    <3>1. ListedAt(Known, lists, arrays, DOMAIN byNumber)
      BY <1>1, <1>2, <2>1, ListedOnceIs DEF SliceInv, FirstRunInv
    <3>2. n \notin DOMAIN byNumber
      BY <1>1, <1>6, <2>1 DEF FirstRunInv
    <3>3. c \in Known => lists[c].len \in Nat
      BY <1>2 DEF Slice
    <3>4. /\ lists'[c].len = (IF c \in Known THEN lists[c].len ELSE 0) + 1
          /\ arrays'[lists'[c].array][lists'[c].len] = n
          /\ c \in Known => \A i \in 1 .. lists[c].len :
                arrays'[lists'[c].array][i] = arrays[lists[c].array][i]
          /\ \A d \in Known \ {c} : /\ lists'[d] = lists[d]
                                    /\ arrays'[lists[d].array] = arrays[lists[d].array]
      BY <1>7
    <3>5. ListedAt(Known \cup {c}, lists', arrays', DOMAIN byNumber \cup {n})
      <4> DEFINE K == Known
                 N == DOMAIN byNumber
                 K2 == Known \cup {c}
                 N2 == DOMAIN byNumber \cup {n}
                 ls == lists
                 ars == arrays
                 ls2 == lists'
                 ars2 == arrays'
      <4>1. /\ ListedAt(K, ls, ars, N) /\ n \notin N /\ (c \in K => ls[c].len \in Nat)
            /\ ls2[c].len = (IF c \in K THEN ls[c].len ELSE 0) + 1
            /\ ars2[ls2[c].array][ls2[c].len] = n
            /\ c \in K => \A i \in 1 .. ls[c].len :
                  ars2[ls2[c].array][i] = ars[ls[c].array][i]
            /\ \A d \in K \ {c} : ls2[d] = ls[d] /\ ars2[ls[d].array] = ars[ls[d].array]
            /\ K2 = K \cup {c} /\ N2 = N \cup {n}
        BY <3>1, <3>2, <3>3, <3>4
      <4> HIDE DEF n, K, N, K2, N2, ls, ars, ls2, ars2
      <4>2. ListedAt(K2, ls2, ars2, N2)
        BY <4>1, ListedAppend
      <4> QED
        BY <4>2 DEF K2, N2, ls2, ars2
    <3> QED
      BY <1>8, <1>10, <3>5
  <2> QED
    BY <1>7, <1>12, <2>1, ListedOnceNext DEF SliceInv
<1>17. ASSUME restarts = 0
       PROVE  /\ DOMAIN byNumber' \subseteq 1 .. lastNum'
              /\ Total' + InTransit' <= paidIn'
  <2>1. DOMAIN byNumber \subseteq 1 .. lastNum /\ Total + InTransit <= paidIn
    BY <1>1, <1>17 DEF FirstRunInv
  <2>2. 1 .. lastNum \subseteq 1 .. n /\ n \in 1 .. n
    BY <1>6
  <2>3. Total \in Int /\ Total' = Total + initial
    BY <1>2, <1>3, <1>4, TotalAppend
  <2>4. InTransit' = InTransit
    BY <1>3 DEF InTransit
  <2>5. InTransit \in Int
    BY <1>2, TransitInt
  <2>6. (Total + initial) + InTransit <= paidIn + initial
    BY <1>2, <1>4, <2>1, <2>3, <2>5
  <2> QED
    BY <1>3, <1>10, <2>1, <2>2, <2>3, <2>4, <2>6
<1>18. FirstRunInv'
  BY <1>1, <1>3, <1>14, <1>16, <1>17 DEF FirstRunInv
<1> QED
  BY <1>7, <1>8, <1>11, <1>12, <1>13, <1>14, <1>15, <1>18 DEF BankSafe, Grows

LEMMA CloseAccountSafe ==
  ASSUME BankSafe, NEW c, NEW n, CloseAccount(c, n), UNCHANGED restarts
  PROVE  BankSafe' /\ Grows
<1>1. BankTypeOK /\ SliceInv /\ AccountInv /\ BalanceInv /\ FirstRunInv
  BY DEF BankSafe
<1>2. /\ lists \in [Known -> Slice] /\ arrays \in Seq(Seq(Nat))
      /\ request \in [Requests -> Request \cup {Idle}]
      /\ byNumber \in [DOMAIN byNumber -> DOMAIN objects] /\ DOMAIN byNumber \subseteq Number
  BY <1>1 DEF BankTypeOK
<1>3. PICK i \in DOMAIN Numbers(c) : Numbers(c)[i] = n /\ RemoveNumber(c, i)
  BY DEF CloseAccount
<1>4. /\ byNumber' = [m \in DOMAIN byNumber \ {n} |-> byNumber[m]]
      /\ customers' = customers /\ objects' = objects /\ lastNum' = lastNum
      /\ request' = request /\ paidIn' = paidIn
  BY DEF CloseAccount
<1>5. c \in Known
  <2>1. CASE c \notin Known
    <3>1. Numbers(c) = <<>>
      BY <2>1 DEF Numbers
    <3>2. DOMAIN Numbers(c) = {}
      BY <3>1
    <3> QED
      BY <1>3, <3>2
  <2> QED
    BY <2>1
<1>6. /\ DOMAIN Numbers(c) = 1 .. lists[c].len /\ lists[c].len \in Nat
      /\ Numbers(c)[i] = arrays[lists[c].array][i]
  <2>1. Numbers(c) = NumbersIn(lists[c], arrays)
    BY <1>5 DEF Numbers, NumbersOf, NumbersIn
  <2>2. Valid(lists[c], arrays)
    BY <1>1, <1>5 DEF SliceInv
  <2>3. /\ DOMAIN Numbers(c) = 1 .. lists[c].len /\ lists[c].len \in Nat
        /\ \A j \in 1 .. lists[c].len : Numbers(c)[j] = arrays[lists[c].array][j]
    BY <1>2, <2>1, <2>2, SliceIs
  <2> QED
    BY <1>3, <2>3
<1>7. i \in 1 .. lists[c].len
  BY <1>3, <1>6
<1>8. /\ arrays' \in Seq(Seq(Nat)) /\ lists' \in [Known -> Slice]
      /\ \A v : Valid(v, arrays) => Valid(v, arrays')
      /\ Valid(lists'[c], arrays') /\ lists'[c].array = lists[c].array
      /\ lists'[c].len = lists[c].len - 1
      /\ \A d \in Known \ {c} : /\ lists'[d] = lists[d]
                                /\ lists[d].array # lists[c].array
                                /\ arrays'[lists[d].array] = arrays[lists[d].array]
      /\ \A j \in 1 .. lists[c].len - 1 :
            arrays'[lists[c].array][j] =
               arrays[lists[c].array][IF j < i THEN j ELSE j + 1]
  BY <1>1, <1>2, <1>3, <1>5, <1>7, RemoveNumberIs
<1>9. Known' = Known
  BY <1>8 DEF Known
<1>10. /\ DOMAIN byNumber' = DOMAIN byNumber \ {n}
       /\ byNumber' \in [DOMAIN byNumber' -> DOMAIN objects']
  BY <1>2, <1>4
<1>11. BankTypeOK'
  BY <1>1, <1>2, <1>4, <1>8, <1>9, <1>10 DEF BankTypeOK
<1>12. SliceInv'
  <2>1. \A d \in Known : Valid(lists[d], arrays)
    BY <1>1 DEF SliceInv
  <2>2. \A d \in Known' : Valid(lists'[d], arrays')
    BY <1>8, <1>9, <2>1
  <2>3. \A d \in Known' : lists'[d].array = lists[d].array
    BY <1>8, <1>9
  <2> QED
    BY <1>1, <1>9, <2>2, <2>3 DEF SliceInv
<1>13. DOMAIN objects \subseteq DOMAIN objects' /\ lastNum' <= Len(objects')
  BY <1>1, <1>4 DEF AccountInv
<1>14. AccountInv' /\ InProgress' = InProgress
  BY <1>1, <1>4, <1>13, RequestsKept
<1>15. BalanceInv' /\ Total' = Total /\ InTransit' = InTransit
  BY <1>1, <1>4 DEF BalanceInv, Total, InTransit
<1>16. ListedOnce'
  <2>1. ASSUME restarts = 0
        PROVE  ListedAt(Known', lists', arrays', DOMAIN byNumber')
    <3> DEFINE K == Known
               N == DOMAIN byNumber
               N2 == DOMAIN byNumber'
               ls == lists
               ars == arrays
               ls2 == lists'
               ars2 == arrays'
    <3>1. ListedAt(K, ls, ars, N)
      BY <1>1, <1>2, <2>1, ListedOnceIs DEF SliceInv, FirstRunInv
    <3>2. /\ c \in K /\ ls[c].len \in Nat /\ i \in 1 .. ls[c].len
          /\ N2 = N \ {ars[ls[c].array][i]}
          /\ ls2[c].len = ls[c].len - 1
          /\ \A j \in 1 .. ls[c].len - 1 : ars2[ls2[c].array][j] =
                ars[ls[c].array][IF j < i THEN j ELSE j + 1]
          /\ \A d \in K \ {c} : ls2[d] = ls[d] /\ ars2[ls[d].array] = ars[ls[d].array]
      BY <1>3, <1>5, <1>6, <1>7, <1>8, <1>10
    <3> HIDE DEF K, N, N2, ls, ars, ls2, ars2
    <3>3. ListedAt(K, ls2, ars2, N2)
      BY <3>1, <3>2, ListedRemove
    <3> QED
      BY <1>9, <3>3 DEF K, N2, ls2, ars2
  <2> QED
    BY <1>8, <1>12, <2>1, ListedOnceNext DEF SliceInv
<1>17. FirstRunInv'
  BY <1>1, <1>4, <1>10, <1>14, <1>15, <1>16 DEF FirstRunInv
<1> QED
  BY <1>8, <1>9, <1>11, <1>12, <1>13, <1>14, <1>15, <1>17 DEF BankSafe, Grows

LEMMA RequestParts ==
  ASSUME NEW q \in Request
  PROVE  \E s \in Steps, op \in {"deposit", "withdraw", "transfer"}, c \in Customers,
            f \in Number \cup {External}, t \in Number \cup {External},
            m \in 1 .. MaxInt, a \in Nat, b \in Nat :
              q = [step |-> s, op |-> op, customer |-> c, from |-> f, to |-> t,
                   amount |-> m, src |-> a, dst |-> b]
<1>1. q = [step |-> q.step, op |-> q.op, customer |-> q.customer, from |-> q.from,
           to |-> q.to, amount |-> q.amount, src |-> q.src, dst |-> q.dst]
  BY DEF Request
<1> QED
  BY <1>1, RequestIs

WithSource(q, o, st) == [q EXCEPT !.src = o, !.step = st]
WithDest(q, o, st) == [q EXCEPT !.dst = o, !.step = st]
WithCredit(q) == [q EXCEPT !.step = "credit"]

\* A request that goes on keeps what it asks for: after its source is found,
LEMMA SourceFound ==
  ASSUME NEW q \in Request, NEW st \in Steps, NEW o \in Nat,
         NEW p, p = WithSource(q, o, st)
  PROVE  /\ p \in Request /\ p.step = st /\ p.from = q.from /\ p.to = q.to
         /\ p.amount = q.amount /\ p.src = o /\ p.dst = q.dst
<1>1. PICK s \in Steps, op \in {"deposit", "withdraw", "transfer"}, c \in Customers,
           f \in Number \cup {External}, t \in Number \cup {External},
           m \in 1 .. MaxInt, a \in Nat, b \in Nat :
        q = [step |-> s, op |-> op, customer |-> c, from |-> f, to |-> t,
             amount |-> m, src |-> a, dst |-> b]
  BY RequestParts
<1>2. q.from = f /\ q.to = t /\ q.amount = m /\ q.src = a /\ q.dst = b
  BY <1>1
<1> DEFINE e == [q EXCEPT !.src = o]
<1>3. e = [step |-> s, op |-> op, customer |-> c, from |-> f, to |-> t, amount |-> m,
           src |-> o, dst |-> b]
  BY <1>1
<1>4. p = [e EXCEPT !.step = st]
  BY DEF WithSource
<1> HIDE DEF e
<1>5. p = [step |-> st, op |-> op, customer |-> c, from |-> f, to |-> t, amount |-> m,
           src |-> o, dst |-> b]
  BY <1>3, <1>4
<1> QED
  BY <1>5, <1>2 DEF Request, Steps

\* after its destination is found,
LEMMA DestFound ==
  ASSUME NEW q \in Request, NEW st \in Steps, NEW o \in Nat,
         NEW p, p = WithDest(q, o, st)
  PROVE  /\ p \in Request /\ p.step = st /\ p.from = q.from /\ p.to = q.to
         /\ p.amount = q.amount /\ p.src = q.src /\ p.dst = o
<1>1. PICK s \in Steps, op \in {"deposit", "withdraw", "transfer"}, c \in Customers,
           f \in Number \cup {External}, t \in Number \cup {External},
           m \in 1 .. MaxInt, a \in Nat, b \in Nat :
        q = [step |-> s, op |-> op, customer |-> c, from |-> f, to |-> t,
             amount |-> m, src |-> a, dst |-> b]
  BY RequestParts
<1>2. q.from = f /\ q.to = t /\ q.amount = m /\ q.src = a /\ q.dst = b
  BY <1>1
<1> DEFINE e == [q EXCEPT !.dst = o]
<1>3. e = [step |-> s, op |-> op, customer |-> c, from |-> f, to |-> t, amount |-> m,
           src |-> a, dst |-> o]
  BY <1>1
<1>4. p = [e EXCEPT !.step = st]
  BY DEF WithDest
<1> HIDE DEF e
<1>5. p = [step |-> st, op |-> op, customer |-> c, from |-> f, to |-> t, amount |-> m,
           src |-> a, dst |-> o]
  BY <1>3, <1>4
<1> QED
  BY <1>5, <1>2 DEF Request, Steps

\* and after its debit.
LEMMA DebitDone ==
  ASSUME NEW q \in Request, NEW p, p = WithCredit(q)
  PROVE  /\ p \in Request /\ p.step = "credit" /\ p.from = q.from /\ p.to = q.to
         /\ p.amount = q.amount /\ p.src = q.src /\ p.dst = q.dst
<1>1. PICK s \in Steps, op \in {"deposit", "withdraw", "transfer"}, c \in Customers,
           f \in Number \cup {External}, t \in Number \cup {External},
           m \in 1 .. MaxInt, a \in Nat, b \in Nat :
        q = [step |-> s, op |-> op, customer |-> c, from |-> f, to |-> t,
             amount |-> m, src |-> a, dst |-> b]
  BY RequestParts
<1>2. q.from = f /\ q.to = t /\ q.amount = m /\ q.src = a /\ q.dst = b
  BY <1>1
<1>3. p = [step |-> "credit", op |-> op, customer |-> c, from |-> f, to |-> t, amount |-> m,
           src |-> a, dst |-> b]
  BY <1>1 DEF WithCredit
<1> QED
  BY <1>3, <1>2 DEF Request, Steps

\* The pointer to an account that a customer owns; it is not nil until a file has
\* been loaded.
LEMMA PointerIs ==
  ASSUME BankSafe, NEW c, NEW n
  PROVE  /\ Pointer(n) \in DOMAIN objects \cup {Nil} /\ Pointer(n) \in Nat
         /\ restarts = 0 /\ Owns(c, n) => Pointer(n) # Nil
<1>1. /\ byNumber \in [DOMAIN byNumber -> DOMAIN objects] /\ objects \in Seq(Account)
      /\ ListedOnce
  BY DEF BankSafe, BankTypeOK, FirstRunInv
<1>2. DOMAIN objects \subseteq Nat /\ Nil \notin DOMAIN objects /\ Nil \in Nat
  BY <1>1 DEF Nil
<1>3. ASSUME restarts = 0, Owns(c, n) PROVE n \in DOMAIN byNumber
  <2>1. c \in Known
    <3>1. n \in Range(Numbers(c))
      BY <1>3 DEF Owns
    <3>2. CASE c \notin Known
      <4>1. Numbers(c) = <<>>
        BY <3>2 DEF Numbers
      <4>2. Range(Numbers(c)) = {}
        BY <4>1 DEF Range
      <4> QED
        BY <3>1, <4>2
    <3> QED
      BY <3>2
  <2>2. n \in Listed
    BY <1>3, <2>1 DEF Listed, Owns
  <2> QED
    BY <1>1, <1>3, <2>2 DEF ListedOnce
<1> QED
  BY <1>1, <1>2, <1>3 DEF Pointer

\* What is known of a request in progress.
LEMMA InProgressIs ==
  ASSUME BankSafe, NEW r \in Requests, request[r].step # "idle"
  PROVE  /\ request[r] \in Request /\ r \in InProgress
         /\ {request[r].src, request[r].dst} \subseteq DOMAIN objects \cup {Nil}
         /\ restarts = 0 /\ request[r].step # "source" /\ request[r].from # External
               => request[r].src # Nil
<1>1. request \in [Requests -> Request \cup {Idle}] /\ AccountInv /\ FirstRunInv
  BY DEF BankSafe, BankTypeOK
<1>2. request[r] \in Request /\ r \in InProgress
  BY <1>1 DEF Idle, InProgress
<1> QED
  BY <1>1, <1>2 DEF AccountInv, FirstRunInv

LEMMA BeginSafe ==
  ASSUME BankSafe, NEW r \in Requests, NEW op \in {"deposit", "withdraw", "transfer"},
         NEW c \in Customers, NEW from \in Number \cup {External},
         NEW to \in Number \cup {External}, NEW amount \in Amounts,
         Begin(r, op, c, from, to, amount), UNCHANGED restarts
  PROVE  BankSafe' /\ Grows
<1> DEFINE p == [step |-> IF from = External THEN "dest" ELSE "source", op |-> op,
                 customer |-> c, from |-> from, to |-> to, amount |-> amount,
                 src |-> Nil, dst |-> Nil]
<1>1. /\ request[r] = Idle /\ request' = [request EXCEPT ![r] = p]
      /\ UNCHANGED <<listVars, accountVars, paidIn, restarts>>
  BY DEF Begin
<1>2. p \in Request
  BY BankAssumption DEF Request, Nil
<1>3. /\ p.src = Nil /\ p.dst = Nil /\ p.from = from
      /\ p.step = IF from = External THEN "dest" ELSE "source"
  OBVIOUS
<1> HIDE DEF p
<1>4. Held(p) <= Held(request[r])
  BY <1>1, <1>3 DEF Held, Idle
<1>5. /\ {p.src, p.dst} \subseteq DOMAIN objects \cup {Nil}
      /\ p.step # "source" /\ p.from # External => p.src # Nil
  BY <1>3
<1> QED
  BY <1>1, <1>2, <1>4, <1>5, RequestStep

LEMMA FindSourceSafe ==
  ASSUME BankSafe, NEW r \in Requests, FindSource(r), UNCHANGED restarts
  PROVE  BankSafe' /\ Grows
<1> DEFINE q == request[r]
           st == IF q.to = External THEN "debit" ELSE "dest"
           o == Pointer(q.from)
           p == IF Owns(q.customer, q.from) THEN [q EXCEPT !.src = o, !.step = st]
                ELSE Idle
<1>1. /\ q.step = "source" /\ request' = [request EXCEPT ![r] = p]
      /\ UNCHANGED <<listVars, accountVars, paidIn, restarts>>
  BY DEF FindSource
<1>2. q \in Request /\ {q.src, q.dst} \subseteq DOMAIN objects \cup {Nil}
  BY <1>1, InProgressIs
<1>3. /\ o \in DOMAIN objects \cup {Nil} /\ o \in Nat
      /\ restarts = 0 /\ Owns(q.customer, q.from) => o # Nil
  BY PointerIs
<1>4. ASSUME Owns(q.customer, q.from)
      PROVE  p \in Request /\ p.step = st /\ p.src = o /\ p.dst = q.dst
  <2>1. p = WithSource(q, o, st) /\ st \in Steps
    BY <1>4 DEF WithSource, Steps
  <2> HIDE DEF p, q, st, o
  <2> QED
    BY <1>2, <1>3, <2>1, SourceFound
<1>5. CASE Owns(q.customer, q.from)
  <2>1. Held(p) <= Held(q)
    BY <1>1, <1>4, <1>5 DEF Held
  <2> HIDE DEF p, st, o
  <2>2. /\ {p.src, p.dst} \subseteq DOMAIN objects \cup {Nil}
        /\ restarts = 0 => p.src # Nil
    BY <1>2, <1>3, <1>4, <1>5
  <2> QED
    BY <1>1, <1>4, <1>5, <2>1, <2>2, RequestStep
<1>6. CASE ~Owns(q.customer, q.from)
  <2>1. p = Idle /\ Held(p) <= Held(q)
    BY <1>1, <1>6 DEF Held, Idle
  <2> HIDE DEF p
  <2> QED
    BY <1>1, <2>1, RequestStep
<1> QED
  BY <1>5, <1>6

LEMMA FindDestSafe ==
  ASSUME BankSafe, NEW r \in Requests, FindDest(r), UNCHANGED restarts
  PROVE  BankSafe' /\ Grows
<1> DEFINE q == request[r]
           st == IF q.from = External THEN "credit" ELSE "debit"
           o == Pointer(q.to)
           p == IF Owns(q.customer, q.to) THEN [q EXCEPT !.dst = o, !.step = st]
                ELSE Idle
<1>1. /\ q.step = "dest" /\ request' = [request EXCEPT ![r] = p]
      /\ UNCHANGED <<listVars, accountVars, paidIn, restarts>>
  BY DEF FindDest
<1>2. /\ q \in Request /\ {q.src, q.dst} \subseteq DOMAIN objects \cup {Nil}
      /\ restarts = 0 /\ q.from # External => q.src # Nil
  BY <1>1, InProgressIs
<1>3. o \in DOMAIN objects \cup {Nil} /\ o \in Nat
  BY PointerIs
<1>4. ASSUME Owns(q.customer, q.to)
      PROVE  p \in Request /\ p.step = st /\ p.from = q.from /\ p.src = q.src /\ p.dst = o
  <2>1. p = WithDest(q, o, st) /\ st \in Steps
    BY <1>4 DEF WithDest, Steps
  <2> HIDE DEF p, q, st, o
  <2> QED
    BY <1>2, <1>3, <2>1, DestFound
<1>5. CASE Owns(q.customer, q.to)
  <2>1. Held(p) <= Held(q)
    BY <1>1, <1>4, <1>5 DEF Held
  <2> HIDE DEF p, st, o
  <2>2. /\ {p.src, p.dst} \subseteq DOMAIN objects \cup {Nil}
        /\ restarts = 0 /\ p.from # External => p.src # Nil
    BY <1>2, <1>3, <1>4, <1>5
  <2> QED
    BY <1>1, <1>4, <1>5, <2>1, <2>2, RequestStep
<1>6. CASE ~Owns(q.customer, q.to)
  <2>1. p = Idle /\ Held(p) <= Held(q)
    BY <1>1, <1>6 DEF Held, Idle
  <2> HIDE DEF p
  <2> QED
    BY <1>1, <2>1, RequestStep
<1> QED
  BY <1>5, <1>6

LEMMA DebitSafe ==
  ASSUME BankSafe, NEW r \in Requests, Debit(r), UNCHANGED restarts
  PROVE  BankSafe' /\ Grows
<1> DEFINE q == request[r]
           p == IF q.to = External THEN Idle ELSE [q EXCEPT !.step = "credit"]
<1>1. /\ q.step = "debit" /\ UNCHANGED <<listVars, byNumber, lastNum, restarts>>
      /\ \/ /\ q.src # Nil /\ Accepts(q.src, -q.amount)
            /\ NewTransaction(q.src, -q.amount)
            /\ paidIn' = IF q.to = External THEN paidIn - q.amount ELSE paidIn
            /\ request' = [request EXCEPT ![r] = p]
         \/ /\ q.src # Nil
            /\ request' = [request EXCEPT ![r] = Idle]
            /\ UNCHANGED <<objects, paidIn>>
         \/ /\ q.src = Nil
            /\ request' = [request EXCEPT ![r] = p]
            /\ UNCHANGED <<objects, paidIn>>
  BY DEF Debit
<1>2. /\ q \in Request /\ {q.src, q.dst} \subseteq DOMAIN objects \cup {Nil}
      /\ restarts = 0 /\ q.from # External => q.src # Nil
  BY <1>1, InProgressIs
<1>3. /\ objects \in Seq(Account) /\ BalanceInv /\ paidIn \in Int
      /\ UNCHANGED accountVars <=> UNCHANGED <<byNumber, objects, lastNum>>
  BY DEF BankSafe, BankTypeOK, accountVars
<1>4. q.amount \in Int /\ q.amount > 0 /\ q.amount <= MaxInt /\ MaxInt \in Int
  BY <1>2, RequestIs, BankAssumption
<1>5. Held(q) = 0 /\ Held(Idle) = 0
  BY <1>1 DEF Held, Idle
<1>6. q.to # External =>
         /\ p \in Request /\ p.step = "credit" /\ p.from = q.from
         /\ p.amount = q.amount /\ p.src = q.src /\ p.dst = q.dst
  <2> SUFFICES ASSUME q.to # External
               PROVE  /\ p \in Request /\ p.step = "credit" /\ p.from = q.from
                      /\ p.amount = q.amount /\ p.src = q.src /\ p.dst = q.dst
    OBVIOUS
  <2>1. p = WithCredit(q)
    BY DEF WithCredit
  <2> HIDE DEF p, q
  <2> QED
    BY <1>2, <2>1, DebitDone
<1>7. /\ p \in Request \cup {Idle}
      /\ q.to = External => p = Idle
      /\ p # Idle => /\ {p.src, p.dst} \subseteq DOMAIN objects \cup {Nil}
                     /\ restarts = 0 /\ p.from # External => p.src # Nil
      /\ Held(p) = IF q.to # External /\ q.from # External THEN q.amount ELSE 0
  <2>1. CASE q.to = External
    BY <1>5, <2>1
  <2>2. CASE q.to # External
    <3> HIDE DEF p, q
    <3> QED
      BY <1>2, <1>6, <2>2 DEF Held
  <2> QED
    BY <2>1, <2>2
<1> HIDE DEF p
<1>8. CASE /\ q.src # Nil /\ Accepts(q.src, -q.amount)
           /\ NewTransaction(q.src, -q.amount)
           /\ paidIn' = IF q.to = External THEN paidIn - q.amount ELSE paidIn
           /\ request' = [request EXCEPT ![r] = p]
  <2> DEFINE amount == -q.amount
  <2>1. amount \in Int /\ -MaxInt <= amount /\ amount <= MaxInt /\ q.src \in DOMAIN objects
    BY <1>2, <1>4, <1>8
  <2>2. /\ objects' \in Seq(Account) /\ DOMAIN objects' = DOMAIN objects
        /\ Len(objects') = Len(objects) /\ BalanceInv' /\ Total' = Total + amount
    <3> HIDE DEF q
    <3>1. Accepts(q.src, amount) /\ NewTransaction(q.src, amount)
      BY <1>8
    <3> HIDE DEF amount
    <3> QED
      BY <1>3, <2>1, <3>1, NewTransactionIs
  <2>3. /\ paidIn' \in Int
        /\ amount + Held(p) - Held(q) <= paidIn' - paidIn
    <3> HIDE DEF q
    <3> QED
      BY <1>3, <1>4, <1>5, <1>7, <1>8
  <2> HIDE DEF amount
  <2> QED
    BY <1>1, <1>7, <1>8, <2>1, <2>2, <2>3, AccountStep
<1>9. CASE /\ q.src # Nil
           /\ request' = [request EXCEPT ![r] = Idle]
           /\ UNCHANGED <<objects, paidIn>>
  <2>1. Held(Idle) <= Held(q) /\ UNCHANGED <<listVars, accountVars, paidIn, restarts>>
    BY <1>1, <1>3, <1>5, <1>9
  <2> QED
    BY <1>9, <2>1, RequestStep
<1>10. CASE /\ q.src = Nil
            /\ request' = [request EXCEPT ![r] = p]
            /\ UNCHANGED <<objects, paidIn>>
  <2>1. restarts = 0 => Held(p) <= Held(q)
    BY <1>2, <1>5, <1>7, <1>10
  <2>2. UNCHANGED <<listVars, accountVars, paidIn, restarts>>
    BY <1>1, <1>3, <1>10
  <2> QED
    BY <1>7, <1>10, <2>1, <2>2, RequestStep
<1> QED
  BY <1>1, <1>8, <1>9, <1>10

LEMMA CreditSafe ==
  ASSUME BankSafe, NEW r \in Requests, Credit(r), UNCHANGED restarts
  PROVE  BankSafe' /\ Grows
<1> DEFINE q == request[r]
<1>1. /\ q.step = "credit" /\ UNCHANGED <<listVars, byNumber, lastNum, restarts>>
      /\ request' = [request EXCEPT ![r] = Idle]
      /\ \/ /\ q.dst # Nil /\ Accepts(q.dst, q.amount)
            /\ NewTransaction(q.dst, q.amount)
            /\ paidIn' = IF q.from = External THEN paidIn + q.amount ELSE paidIn
         \/ UNCHANGED <<objects, paidIn>>
  BY DEF Credit
<1>2. q \in Request /\ {q.src, q.dst} \subseteq DOMAIN objects \cup {Nil}
  BY <1>1, InProgressIs
<1>3. /\ objects \in Seq(Account) /\ BalanceInv /\ paidIn \in Int
      /\ UNCHANGED accountVars <=> UNCHANGED <<byNumber, objects, lastNum>>
  BY DEF BankSafe, BankTypeOK, accountVars
<1>4. q.amount \in Int /\ q.amount > 0 /\ q.amount <= MaxInt /\ MaxInt \in Int
  BY <1>2, RequestIs, BankAssumption
<1>5. Held(Idle) = 0 /\ Held(q) = IF q.from = External THEN 0 ELSE q.amount
  BY <1>1 DEF Held, Idle
<1> DEFINE p == Idle
<1>6. p \in Request \cup {Idle} /\ p = Idle /\ request' = [request EXCEPT ![r] = p]
  BY <1>1
<1> HIDE DEF p
<1>7. CASE /\ q.dst # Nil /\ Accepts(q.dst, q.amount)
           /\ NewTransaction(q.dst, q.amount)
           /\ paidIn' = IF q.from = External THEN paidIn + q.amount ELSE paidIn
  <2> DEFINE amount == q.amount
  <2>1. amount \in Int /\ -MaxInt <= amount /\ amount <= MaxInt /\ q.dst \in DOMAIN objects
    BY <1>2, <1>4, <1>7
  <2>2. /\ objects' \in Seq(Account) /\ DOMAIN objects' = DOMAIN objects
        /\ Len(objects') = Len(objects) /\ BalanceInv' /\ Total' = Total + amount
    <3> HIDE DEF q
    <3>1. Accepts(q.dst, amount) /\ NewTransaction(q.dst, amount)
      BY <1>7
    <3> HIDE DEF amount
    <3> QED
      BY <1>3, <2>1, <3>1, NewTransactionIs
  <2>3. /\ paidIn' \in Int
        /\ amount + Held(p) - Held(q) <= paidIn' - paidIn
    <3> HIDE DEF q
    <3> QED
      BY <1>3, <1>4, <1>5, <1>6, <1>7
  <2> HIDE DEF amount
  <2> QED
    BY <1>1, <1>6, <2>1, <2>2, <2>3, AccountStep
<1>8. CASE UNCHANGED <<objects, paidIn>>
  <2>1. Held(p) <= Held(q) /\ UNCHANGED <<listVars, accountVars, paidIn, restarts>>
    BY <1>1, <1>3, <1>4, <1>5, <1>6, <1>8
  <2> QED
    BY <1>6, <2>1, RequestStep
<1> QED
  BY <1>1, <1>7, <1>8
-------------------------------------------------------------------------------
(* The process. *)

\* The types of its own state.
FileOK == \/ file.state \in {"empty", "torn"}
          \/ file.state = "saved" /\ IsClone(file.clone)
ServerOK ==
    /\ mode \in {"up", "stopping", "flushing", "down"}
    /\ restarts \in 0 .. MaxRestarts
    /\ saves \in 0 .. MaxSaves
    /\ DOMAIN saver = Savers
    /\ \A f \in Savers : saver[f] = Resting \/ IsSaving(saver[f])
    /\ FileOK

LEMMA IInvIs == IInv <=> BankSafe /\ ServerOK /\ SaverInv /\ ModeInv /\ FinalInv
  BY DEF IInv, TypeOK, BankSafe, ServerOK, FileOK

LEMMA IInvNext ==
  IInv' <=> BankSafe' /\ ServerOK' /\ SaverInv' /\ ModeInv' /\ FinalInv'
<1>1. (IInv <=> BankSafe /\ ServerOK /\ SaverInv /\ ModeInv /\ FinalInv)'
  BY IInvIs, PTL
<1> QED
  BY <1>1

\* What main writes, of any saver.
Complete(s) ==
    s.step = "write" =>
        LET d == s.clone
        IN  /\ d.customers = customers
            /\ d.lists = [c \in Known |-> Numbers(c)]
            /\ \A n \in Listed : n \in DOMAIN d.txns
                                 /\ d.txns[n] = objects[byNumber[n]].txns

LEMMA FinalInvIs == FinalInv <=> ReadsAll(saver["main"]) /\ Complete(saver["main"])
  BY DEF FinalInv, FinalSaveIsComplete, Complete

LEMMA RestingIs == Reads(Resting) /\ ReadsAll(Resting) /\ Complete(Resting)
  BY DEF Resting, Reads, ReadsAll, Complete

\* Nothing happens to the accounts.
LEMMA SafeKept ==
  ASSUME BankSafe, UNCHANGED <<bankVars, restarts>>
  PROVE  BankSafe' /\ Grows
<1>1. /\ UNCHANGED <<customers, lists, arrays, byNumber, objects, lastNum, request, paidIn>>
      /\ UNCHANGED <<listVars, restarts>>
  BY DEF bankVars, listVars, accountVars
<1>2. BankTypeOK /\ SliceInv /\ AccountInv /\ BalanceInv /\ FirstRunInv
  BY DEF BankSafe
<1>3. BankTypeOK'
  BY <1>1, <1>2 DEF BankTypeOK, Known
<1>4. SliceInv' /\ ListedOnce' /\ \A v : Valid(v, arrays) => Valid(v, arrays')
  BY <1>1, <1>2, ListsKept DEF FirstRunInv
<1>5. AccountInv' /\ InProgress' = InProgress
  BY <1>1, <1>2 DEF AccountInv, InProgress
<1>6. BalanceInv' /\ Total' = Total /\ InTransit' = InTransit
  BY <1>1, <1>2 DEF BalanceInv, Total, InTransit
<1>7. FirstRunInv'
  BY <1>1, <1>2, <1>4, <1>5, <1>6 DEF FirstRunInv
<1> QED
  BY <1>1, <1>3, <1>4, <1>5, <1>6, <1>7 DEF BankSafe, Grows, Known

\* Savers do not mind what happens to the accounts meanwhile.
LEMMA ReadsKept ==
  ASSUME Grows, SaverInv, UNCHANGED saver
  PROVE  SaverInv'
<1> SUFFICES ASSUME NEW f \in Savers, Reads(saver[f]) PROVE Reads(saver[f])'
  BY DEF SaverInv
<1> QED
  BY DEF Reads, Grows

LEMMA BankStep ==
  ASSUME IInv, BankSafe', Grows, UNCHANGED <<processVars, saver, file>>,
         mode \in {"up", "stopping"}
  PROVE  IInv'
<1>1. BankSafe /\ ServerOK /\ SaverInv /\ ModeInv /\ FinalInv
  BY IInvIs
<1>2. UNCHANGED <<mode, restarts, saves, saver, file>>
  BY DEF processVars
<1>3. ServerOK'
  BY <1>1, <1>2 DEF ServerOK, FileOK
<1>4. SaverInv'
  BY <1>1, <1>2, ReadsKept
<1>5. saver'["main"] = Resting
  BY <1>1, <1>2 DEF ModeInv
<1>6. ModeInv'
  BY <1>2, <1>5 DEF ModeInv
<1>7. FinalInv'
  BY <1>5 DEF FinalInv, FinalSaveIsComplete, ReadsAll, Resting
<1> QED
  BY <1>3, <1>4, <1>6, <1>7, IInvNext

LEMMA AcceptSafe == IInv /\ Accept => IInv'
<1> SUFFICES ASSUME IInv, Accept PROVE IInv'
  OBVIOUS
<1>1. /\ BankSafe /\ mode = "up" /\ UNCHANGED <<processVars, saver, file>>
      /\ UNCHANGED restarts
  BY IInvIs DEF Accept, processVars
<1>2. CASE OpenSome
  <2>1. PICK c \in Customers, initial \in Amounts \cup {0} : OpenAccount(c, initial)
    BY <1>2 DEF OpenSome
  <2>2. initial \in 0 .. MaxInt
    BY BankAssumption
  <2>3. BankSafe' /\ Grows
    BY <1>1, <2>1, <2>2, OpenAccountSafe
  <2> QED
    BY <1>1, <2>3, BankStep
<1>3. CASE CloseSome
  <2>1. PICK c \in Customers, n \in Number : CloseAccount(c, n)
    BY <1>3 DEF CloseSome
  <2>2. BankSafe' /\ Grows
    BY <1>1, <2>1, CloseAccountSafe
  <2> QED
    BY <1>1, <2>2, BankStep
<1>4. CASE BeginSome
  <2>1. PICK r \in Requests, op \in {"deposit", "withdraw", "transfer"}, c \in Customers,
             from \in Number \cup {External}, to \in Number \cup {External}, a \in Amounts :
               Begin(r, op, c, from, to, a)
    BY <1>4 DEF BeginSome
  <2>2. BankSafe' /\ Grows
    BY <1>1, <2>1, BeginSafe
  <2> QED
    BY <1>1, <2>2, BankStep
<1> QED
  BY <1>2, <1>3, <1>4 DEF Accept

LEMMA HandleSafe == IInv /\ Handle => IInv'
<1> SUFFICES ASSUME IInv, Handle PROVE IInv'
  OBVIOUS
<1>1. /\ BankSafe /\ ServerOK /\ ModeInv /\ UNCHANGED <<processVars, saver, file>>
      /\ UNCHANGED restarts
  BY IInvIs DEF Handle, processVars
<1>2. PICK r \in Requests : FindSource(r) \/ FindDest(r) \/ Debit(r) \/ Credit(r)
  BY DEF Handle
<1>3. request[r].step # "idle"
  BY <1>2 DEF FindSource, FindDest, Debit, Credit
<1>4. r \in InProgress
  BY <1>1, <1>3, InProgressIs
<1>5. mode \in {"up", "stopping"}
  BY <1>1, <1>4 DEF ModeInv, ServerOK
<1>6. BankSafe' /\ Grows
  BY <1>1, <1>2, FindSourceSafe, FindDestSafe, DebitSafe, CreditSafe
<1> QED
  BY <1>1, <1>5, <1>6, BankStep

LEMMA GracefulStopSafe == IInv /\ GracefulStop => IInv'
<1> SUFFICES ASSUME IInv, GracefulStop PROVE IInv'
  OBVIOUS
<1>1. /\ UNCHANGED <<bankVars, restarts, saves, saver, file>>
      /\ mode = "up" /\ mode' = "stopping"
  BY DEF GracefulStop
<1>2. BankSafe /\ ServerOK /\ SaverInv /\ ModeInv
  BY IInvIs
<1>3. BankSafe' /\ Grows
  BY <1>1, <1>2, SafeKept
<1>4. SaverInv' /\ ServerOK'
  BY <1>1, <1>2, <1>3, ReadsKept DEF ServerOK, FileOK
<1>5. saver'["main"] = Resting
  BY <1>1, <1>2 DEF ModeInv
<1>6. ModeInv' /\ FinalInv'
  BY <1>1, <1>5 DEF ModeInv, FinalInv, FinalSaveIsComplete, ReadsAll, Resting
<1> QED
  BY <1>3, <1>4, <1>6, IInvNext

LEMMA StoppedSafe == IInv /\ Stopped => IInv'
<1> SUFFICES ASSUME IInv, Stopped PROVE IInv'
  OBVIOUS
<1>1. /\ UNCHANGED <<bankVars, restarts, saves, saver, file>>
      /\ mode = "stopping" /\ mode' = "flushing" /\ InProgress = {}
  BY DEF Stopped
<1>2. BankSafe /\ ServerOK /\ SaverInv /\ ModeInv
  BY IInvIs
<1>3. BankSafe' /\ Grows
  BY <1>1, <1>2, SafeKept
<1>4. SaverInv' /\ ServerOK'
  BY <1>1, <1>2, <1>3, ReadsKept DEF ServerOK, FileOK
<1>5. saver'["main"] = Resting
  BY <1>1, <1>2 DEF ModeInv
<1>6. InProgress' = {}
  BY <1>1 DEF InProgress, bankVars
<1>7. ModeInv' /\ FinalInv'
  BY <1>1, <1>5, <1>6 DEF ModeInv, FinalInv, FinalSaveIsComplete, ReadsAll, Resting
<1> QED
  BY <1>3, <1>4, <1>7, IInvNext
-------------------------------------------------------------------------------
(* Saving. *)

\* A step of a saver changes only what it has read, and the file.
LEMMA SaverStep ==
  ASSUME IInv, NEW f \in Savers, NEW t, Save(f, t), saves' \in 0 .. MaxSaves, FileOK',
         t = Resting \/ IsSaving(t), Reads(t),
         IF f = "main" THEN mode = "flushing" /\ ReadsAll(t) /\ Complete(t)
         ELSE mode # "down"
  PROVE  IInv'
<1>1. BankSafe /\ ServerOK /\ SaverInv /\ ModeInv /\ FinalInv
  BY IInvIs
<1>2. /\ saver' = [saver EXCEPT ![f] = t] /\ UNCHANGED <<bankVars, mode, restarts>>
      /\ UNCHANGED <<customers, lists, arrays, byNumber, objects, lastNum, request, paidIn>>
  BY DEF Save, bankVars, listVars, accountVars
<1>3. BankSafe'
  BY <1>1, <1>2, SafeKept
<1>4. /\ DOMAIN saver' = Savers /\ saver'[f] = t
      /\ \A g \in Savers : g # f => saver'[g] = saver[g]
  BY <1>1, <1>2 DEF ServerOK
<1>5. ServerOK'
  BY <1>1, <1>2, <1>4 DEF ServerOK
<1>6. SaverInv'
  <2> SUFFICES ASSUME NEW g \in Savers PROVE Reads(saver[g])'
    BY DEF SaverInv
  <2>1. Reads(saver'[g])
    BY <1>1, <1>4 DEF SaverInv
  <2> QED
    BY <1>2, <2>1 DEF Reads, Known, Valid
<1>7. FinalInv'
  <2>1. ReadsAll(saver'["main"]) /\ Complete(saver'["main"])
    BY <1>1, <1>4, FinalInvIs DEF Savers
  <2>2. \A c : Numbers(c)' = Numbers(c)
    BY <1>2 DEF Numbers, NumbersOf, Known
  <2>3. Listed' = Listed /\ Known' = Known
    BY <1>2, <2>2 DEF Listed, Known
  <2>4. ReadsAll(saver["main"])'
    BY <1>2, <2>1 DEF ReadsAll
  <2>5. FinalSaveIsComplete'
    BY <1>2, <2>1, <2>2, <2>3 DEF FinalSaveIsComplete, Complete
  <2> QED
    BY <2>4, <2>5 DEF FinalInv
<1>8. ModeInv'
  <2>1. InProgress' = InProgress
    BY <1>2 DEF InProgress
  <2> QED
    BY <1>1, <1>2, <1>4, <2>1 DEF ModeInv, Savers
<1> QED
  BY <1>3, <1>5, <1>6, <1>7, <1>8, IInvNext

\* A saver that is at work does so in a process that lives.
LEMMA Running ==
  ASSUME IInv, NEW f \in Savers, saver[f].step # "idle"
  PROVE  /\ IsSaving(saver[f]) /\ Reads(saver[f])
         /\ IF f = "main" THEN /\ mode = "flushing"
                               /\ ReadsAll(saver[f]) /\ Complete(saver[f])
            ELSE mode # "down"
<1>1. ServerOK /\ SaverInv /\ ModeInv /\ FinalInv
  BY IInvIs
<1>2. saver[f] # Resting
  BY DEF Resting
<1> QED
  BY <1>1, <1>2, FinalInvIs DEF ServerOK, SaverInv, ModeInv, Savers

\* clone at work, field by field.
Work(st, names, slices, done, at, account, number, txns) ==
    [step |-> st, names |-> names, slices |-> slices, done |-> done, at |-> at,
     account |-> account, number |-> number, txns |-> txns]

LEMMA WorkIs ==
  ASSUME NEW s, IsSaving(s), s.step # "write"
  PROVE  /\ s.step \in {"numbers", "account", "txns", "marshal"}
         /\ s.names \in Seq(Customers) /\ s.slices \in Seq(Slice)
         /\ s.done \in Nat /\ s.at \in Nat /\ s.account \in Nat
         /\ s.number \in Number \cup {0} /\ Len(s.slices) = s.done
         /\ DOMAIN s.txns \subseteq Number /\ s.txns \in [DOMAIN s.txns -> Seq(Int)]
         /\ s = Work(s.step, s.names, s.slices, s.done, s.at, s.account, s.number, s.txns)
<1>1. PICK read \in SUBSET Number : s \in Cloning(read)
  BY DEF IsSaving
<1>2. Len(s.slices) = s.done
  BY DEF IsSaving
<1> QED
  BY <1>1, <1>2 DEF Cloning, Work

LEMMA WorkFields ==
  ASSUME NEW st, NEW names, NEW slices, NEW done, NEW at, NEW account, NEW number,
         NEW txns, NEW s, s = Work(st, names, slices, done, at, account, number, txns)
  PROVE  /\ s.step = st /\ s.names = names /\ s.slices = slices /\ s.done = done
         /\ s.at = at /\ s.account = account /\ s.number = number /\ s.txns = txns
  BY DEF Work

LEMMA WorkTyped ==
  ASSUME NEW s, s.step \in {"numbers", "account", "txns", "marshal"},
         s.names \in Seq(Customers), s.slices \in Seq(Slice),
         s.done \in Nat, s.at \in Nat, s.account \in Nat,
         s.number \in Number \cup {0}, Len(s.slices) = s.done,
         DOMAIN s.txns \subseteq Number, s.txns \in [DOMAIN s.txns -> Seq(Int)],
         s = Work(s.step, s.names, s.slices, s.done, s.at, s.account, s.number, s.txns)
  PROVE  IsSaving(s)
<1> DEFINE read == DOMAIN s.txns
<1>1. read \in SUBSET Number /\ s.txns \in [read -> Seq(Int)]
  OBVIOUS
<1> HIDE DEF read
<1>2. s \in Cloning(read)
  BY <1>1 DEF Work, Cloning
<1> QED
  BY <1>1, <1>2 DEF IsSaving

\* A clone that is under way, before it is said what comes next.
WorkOK(s) ==
    /\ s.names \in Seq(Customers) /\ s.slices \in Seq(Slice)
    /\ s.done \in Nat /\ s.at \in Nat /\ s.account \in Nat
    /\ s.number \in Number \cup {0} /\ Len(s.slices) = s.done
    /\ DOMAIN s.txns \subseteq Number /\ s.txns \in [DOMAIN s.txns -> Seq(Int)]
    /\ s = Work(s.step, s.names, s.slices, s.done, s.at, s.account, s.number, s.txns)
    /\ Range(s.names) \subseteq Known
    /\ s.done <= Len(s.names)
    /\ \A i \in 1 .. s.done : Valid(s.slices[i], arrays)

LEMMA WorkOKIs ==
  ASSUME NEW s, IsSaving(s), Reads(s), s.step # "write"
  PROVE  WorkOK(s)
  BY WorkIs DEF WorkOK, Reads

LEMMA ProceedIs ==
  ASSUME NEW s, WorkOK(s), NEW t, t = Proceed(s)
  PROVE  /\ IsSaving(t) /\ Reads(t) /\ t.step \in {"account", "numbers", "marshal"}
         /\ t.names = s.names /\ t.slices = s.slices /\ t.done = s.done /\ t.at = s.at
         /\ t.txns = s.txns
         /\ t.step \in {"numbers", "marshal"} /\ t.done > 0 => t.at >= t.slices[t.done].len
<1> DEFINE st == IF s.done > 0 /\ s.at < s.slices[s.done].len THEN "account"
                 ELSE IF s.done < Len(s.names) THEN "numbers" ELSE "marshal"
<1>1. t = [s EXCEPT !.step = st]
  BY DEF Proceed
<1>2. PICK step, names, slices, done, at, account, number, txns :
        s = Work(step, names, slices, done, at, account, number, txns)
  BY DEF WorkOK
<1>3. /\ s.names = names /\ s.slices = slices /\ s.done = done /\ s.at = at
      /\ s.account = account /\ s.number = number /\ s.txns = txns
  BY <1>2, WorkFields
<1>4. st \in {"account", "numbers", "marshal"}
  OBVIOUS
<1>5. /\ st = "account" <=> s.done > 0 /\ s.at < s.slices[s.done].len
      /\ st = "numbers" => s.done < Len(s.names)
      /\ st = "marshal" => ~(s.done < Len(s.names))
  OBVIOUS
<1> HIDE DEF st
<1>6. t = Work(st, names, slices, done, at, account, number, txns)
  BY <1>1, <1>2 DEF Work
<1>7. /\ t.step = st /\ t.names = names /\ t.slices = slices /\ t.done = done
      /\ t.at = at /\ t.account = account /\ t.number = number /\ t.txns = txns
  BY <1>6, WorkFields
<1>8. IsSaving(t)
  BY <1>3, <1>4, <1>6, <1>7, WorkTyped DEF WorkOK
<1>9. done \in Nat /\ at \in Nat /\ Len(names) \in Nat /\ done <= Len(names)
  BY <1>3 DEF WorkOK
<1>10. done > 0 => slices[done].len \in Nat
  <2>1. slices \in Seq(Slice) /\ Len(slices) = done
    BY <1>3 DEF WorkOK
  <2>2. done > 0 => slices[done] \in Slice
    BY <1>9, <2>1
  <2> QED
    BY <2>2 DEF Slice
<1>11. Reads(t)
  BY <1>3, <1>4, <1>5, <1>7, <1>9 DEF Reads, WorkOK
<1>12. st \in {"numbers", "marshal"} /\ done > 0 => at >= slices[done].len
  BY <1>3, <1>5, <1>9, <1>10
<1> QED
  BY <1>3, <1>4, <1>7, <1>8, <1>11, <1>12

LEMMA ReadCustomersSafe ==
  ASSUME IInv, NEW f \in Savers, ReadCustomers(f)
  PROVE  IInv'
<1> DEFINE s == [step |-> "begin", names |-> customers, slices |-> <<>>, done |-> 0,
                 at |-> 0, account |-> Nil, number |-> 0, txns |-> <<>>]
           t == Proceed(s)
<1>1. /\ Save(f, t) /\ UNCHANGED file
      /\ \/ f = "bg" /\ mode # "down" /\ saves < MaxSaves /\ saves' = saves + 1
         \/ f = "main" /\ mode = "flushing" /\ saves' = saves
  BY DEF ReadCustomers
<1>2. BankTypeOK /\ ServerOK /\ ModeInv
  BY IInvIs DEF BankSafe
<1>3. saves' \in 0 .. MaxSaves /\ FileOK'
  BY <1>1, <1>2, ServerAssumption DEF ServerOK, FileOK
<1>4. /\ s.names = customers /\ s.slices = <<>> /\ s.done = 0 /\ s.at = 0
      /\ s.account = 0 /\ s.number = 0 /\ s.txns = <<>>
      /\ s = Work(s.step, s.names, s.slices, s.done, s.at, s.account, s.number, s.txns)
  BY DEF Work, Nil
<1>5. /\ <<>> \in Seq(Slice) /\ Len(<<>>) = 0 /\ DOMAIN <<>> = {}
      /\ <<>> \in [{} -> Seq(Int)]
  OBVIOUS
<1> HIDE DEF s
<1>6. WorkOK(s)
  <2>1. customers \in Seq(Customers) /\ Range(customers) \subseteq Known
    BY <1>2 DEF BankTypeOK
  <2> QED
    BY <1>4, <1>5, <2>1 DEF WorkOK
<1>7. /\ IsSaving(t) /\ Reads(t) /\ t.step \in {"account", "numbers", "marshal"}
      /\ t.names = s.names /\ t.slices = s.slices /\ t.done = s.done /\ t.at = s.at
      /\ t.txns = s.txns
      /\ t.step \in {"numbers", "marshal"} /\ t.done > 0 => t.at >= t.slices[t.done].len
  BY <1>6, ProceedIs
<1> HIDE DEF t
<1>8. ReadsAll(t) /\ Complete(t)
  BY <1>4, <1>5, <1>7 DEF ReadsAll, Complete
<1> QED
  BY <1>1, <1>3, <1>7, <1>8, SaverStep

LEMMA ReadNumbersSafe ==
  ASSUME IInv, NEW f \in Savers, ReadNumbers(f)
  PROVE  IInv'
<1> DEFINE s == saver[f]
           v == lists[s.names[s.done + 1]]
           w == [s EXCEPT !.slices = Append(@, v), !.done = @ + 1, !.at = 0]
           t == Proceed(w)
<1>1. s.step = "numbers" /\ Save(f, t) /\ UNCHANGED <<saves, file>>
  BY DEF ReadNumbers
<1>2. /\ IsSaving(s) /\ Reads(s)
      /\ IF f = "main" THEN mode = "flushing" /\ ReadsAll(s) ELSE mode # "down"
  BY <1>1, Running
<1>3. BankTypeOK /\ SliceInv /\ ServerOK
  BY IInvIs DEF BankSafe
<1>4. saves' \in 0 .. MaxSaves /\ FileOK'
  BY <1>1, <1>3 DEF ServerOK, FileOK
<1>5. WorkOK(s) /\ s.done < Len(s.names)
  BY <1>1, <1>2, WorkOKIs DEF Reads
<1>6. PICK step, names, slices, done, at, account, number, txns :
        s = Work(step, names, slices, done, at, account, number, txns)
  BY <1>5 DEF WorkOK
<1>7. /\ s.names = names /\ s.slices = slices /\ s.done = done /\ s.at = at
      /\ s.account = account /\ s.number = number /\ s.txns = txns
  BY <1>6, WorkFields
<1> HIDE DEF s
<1>8. names[done + 1] \in Known /\ done + 1 \in 1 .. Len(names) /\ done \in Nat
  <2>1. done + 1 \in DOMAIN names /\ done \in Nat
    BY <1>5, <1>7 DEF WorkOK
  <2>2. names[done + 1] \in Range(names)
    BY <2>1 DEF Range
  <2> QED
    BY <1>5, <1>7, <2>1, <2>2 DEF WorkOK
<1>9. v = lists[names[done + 1]] /\ v \in Slice /\ Valid(v, arrays)
  BY <1>3, <1>7, <1>8 DEF BankTypeOK, SliceInv
<1> HIDE DEF v
<1> DEFINE more == Append(slices, v)
<1>10. w = Work(step, names, more, done + 1, 0, account, number, txns)
  <2> DEFINE w1 == [s EXCEPT !.slices = Append(@, v)]
             w2 == [w1 EXCEPT !.done = @ + 1]
  <2>1. w1 = Work(step, names, more, done, at, account, number, txns)
    BY <1>6, <1>7 DEF Work
  <2>2. w2 = Work(step, names, more, done + 1, at, account, number, txns)
    <3> HIDE DEF w1, more
    <3> QED
      BY <2>1 DEF Work
  <2>3. w = [w2 EXCEPT !.at = 0]
    OBVIOUS
  <2> HIDE DEF w, w1, w2, more
  <2> QED
    BY <2>2, <2>3 DEF Work
<1>11. /\ more \in Seq(Slice) /\ Len(more) = done + 1 /\ more[done + 1] = v
       /\ \A i \in 1 .. done : more[i] = slices[i]
  BY <1>5, <1>7, <1>9 DEF WorkOK
<1> HIDE DEF w, more
<1>12. /\ w.step = step /\ w.names = names /\ w.slices = more /\ w.done = done + 1
       /\ w.at = 0 /\ w.account = account /\ w.number = number /\ w.txns = txns
  BY <1>10, WorkFields
<1>13. WorkOK(w)
  <2>1. \A i \in 1 .. done + 1 : i \in 1 .. done \/ i = done + 1
    BY <1>8
  <2>2. \A i \in 1 .. done + 1 : Valid(more[i], arrays)
    BY <1>5, <1>7, <1>9, <1>11, <2>1 DEF WorkOK
  <2>3. w = Work(w.step, w.names, w.slices, w.done, w.at, w.account, w.number, w.txns)
    BY <1>10, <1>12
  <2> QED
    BY <1>5, <1>7, <1>8, <1>11, <1>12, <2>2, <2>3 DEF WorkOK
<1>14. /\ IsSaving(t) /\ Reads(t) /\ t.step \in {"account", "numbers", "marshal"}
       /\ t.names = w.names /\ t.slices = w.slices /\ t.done = w.done /\ t.at = w.at
       /\ t.txns = w.txns
       /\ t.step \in {"numbers", "marshal"} /\ t.done > 0 => t.at >= t.slices[t.done].len
  BY <1>13, ProceedIs
<1> HIDE DEF t
<1>15. ASSUME f = "main" PROVE ReadsAll(t) /\ Complete(t)
  <2>1. ReadsAll(s)
    BY <1>2, <1>15
  <2>2. /\ names = customers
        /\ \A i \in 1 .. done : slices[i] = lists[customers[i]]
        /\ \A n \in DOMAIN txns :
              n \in DOMAIN byNumber /\ txns[n] = objects[byNumber[n]].txns
        /\ \A i \in 1 .. done : \A k \in 1 .. slices[i].len :
              i < done \/ k <= at => arrays[slices[i].array][k] \in DOMAIN txns
        /\ done > 0 => at >= slices[done].len
    <3>1. at \in Nat
      BY <1>5, <1>7 DEF WorkOK
    <3>2. /\ names = customers
          /\ \A i \in 1 .. done : slices[i] = lists[customers[i]]
          /\ \A n \in DOMAIN txns :
                n \in DOMAIN byNumber /\ txns[n] = objects[byNumber[n]].txns
          /\ \A i \in 1 .. done : \A k \in 1 .. slices[i].len :
                i < done \/ k < at \/ k = at
                    => arrays[slices[i].array][k] \in DOMAIN txns
          /\ done > 0 => at >= slices[done].len
      BY <1>1, <1>7, <2>1 DEF ReadsAll
    <3>3. \A k \in Int : k <= at => k < at \/ k = at
      BY <3>1
    <3> QED
      BY <3>2, <3>3
  <2>3. ASSUME NEW i \in 1 .. done, NEW k \in 1 .. slices[i].len
        PROVE  arrays[slices[i].array][k] \in DOMAIN txns
    <3>1. at \in Nat /\ slices[i].len \in Nat
      <4>1. slices[i] \in Slice /\ at \in Nat
        BY <1>5, <1>7 DEF WorkOK
      <4> QED
        BY <4>1 DEF Slice
    <3>2. i < done \/ k <= at
      BY <1>8, <2>2, <3>1
    <3> QED
      BY <2>2, <3>2
  <2>4. ASSUME NEW i \in 1 .. done + 1
        PROVE  /\ more[i] = lists[customers[i]]
               /\ i < done + 1 => i \in 1 .. done /\ more[i] = slices[i]
    <3>1. i = done + 1 \/ i \in 1 .. done
      BY <1>8
    <3> QED
      BY <1>8, <1>9, <1>11, <2>2, <3>1
  <2>5. ASSUME NEW i \in 1 .. done + 1, NEW k \in 1 .. more[i].len,
               i < done + 1 \/ k <= 0
        PROVE  arrays[more[i].array][k] \in DOMAIN txns
    <3>1. i < done + 1
      BY <2>5
    <3> QED
      BY <2>3, <2>4, <3>1
  <2>6. \A k \in Int : k < 0 \/ k = 0 => k <= 0
    OBVIOUS
  <2> QED
    BY <1>12, <1>14, <2>2, <2>4, <2>5, <2>6 DEF ReadsAll, Complete
<1> QED
  BY <1>1, <1>2, <1>4, <1>14, <1>15, SaverStep

LEMMA FindAccountSafe ==
  ASSUME IInv, NEW f \in Savers, FindAccount(f)
  PROVE  IInv'
<1> DEFINE s == saver[f]
           n == NextNumber(s)
           t == [s EXCEPT !.step = "txns", !.at = @ + 1, !.number = n,
                          !.account = byNumber[n]]
<1>1. s.step = "account" /\ n \in DOMAIN byNumber /\ Save(f, t) /\ UNCHANGED <<saves, file>>
  BY DEF FindAccount
<1>2. /\ IsSaving(s) /\ Reads(s)
      /\ IF f = "main" THEN mode = "flushing" /\ ReadsAll(s) ELSE mode # "down"
  BY <1>1, Running
<1>3. BankTypeOK /\ ServerOK
  BY IInvIs DEF BankSafe
<1>4. saves' \in 0 .. MaxSaves /\ FileOK'
  BY <1>1, <1>3 DEF ServerOK, FileOK
<1>5. WorkOK(s) /\ s.done > 0 /\ s.at < s.slices[s.done].len
  BY <1>1, <1>2, WorkOKIs DEF Reads
<1>6. PICK step, names, slices, done, at, account, number, txns :
        s = Work(step, names, slices, done, at, account, number, txns)
  BY <1>5 DEF WorkOK
<1>7. /\ s.names = names /\ s.slices = slices /\ s.done = done /\ s.at = at
      /\ s.account = account /\ s.number = number /\ s.txns = txns
  BY <1>6, WorkFields
<1>8. n = arrays[slices[done].array][at + 1]
  BY <1>7 DEF NextNumber
<1> DEFINE o == byNumber[n]
<1>9. n \in Number /\ o \in DOMAIN objects /\ o \in Nat
  BY <1>1, <1>3 DEF BankTypeOK
<1> HIDE DEF s, n
<1>10. t = Work("txns", names, slices, done, at + 1, o, n, txns)
  <2> DEFINE t1 == [s EXCEPT !.step = "txns"]
             t2 == [t1 EXCEPT !.at = @ + 1]
             t3 == [t2 EXCEPT !.number = n]
  <2>1. t1 = Work("txns", names, slices, done, at, account, number, txns)
    BY <1>6 DEF Work
  <2>2. t2 = Work("txns", names, slices, done, at + 1, account, number, txns)
    <3> HIDE DEF t1
    <3> QED
      BY <2>1 DEF Work
  <2>3. t3 = Work("txns", names, slices, done, at + 1, account, n, txns)
    <3> HIDE DEF t2
    <3> QED
      BY <2>2 DEF Work
  <2>4. t = [t3 EXCEPT !.account = o]
    OBVIOUS
  <2> HIDE DEF t, t1, t2, t3, o
  <2> QED
    BY <2>3, <2>4 DEF Work
<1> HIDE DEF t, o
<1>11. /\ t.step = "txns" /\ t.names = names /\ t.slices = slices /\ t.done = done
       /\ t.at = at + 1 /\ t.account = o /\ t.number = n /\ t.txns = txns
  BY <1>10, WorkFields
<1>12. /\ at \in Nat /\ at + 1 \in Nat /\ done \in Nat /\ done > 0
       /\ slices[done].len \in Nat /\ at + 1 \in 1 .. slices[done].len
  <2>1. at \in Nat /\ done \in Nat /\ slices \in Seq(Slice) /\ Len(slices) = done
    BY <1>5, <1>7 DEF WorkOK
  <2>2. done > 0 /\ at < slices[done].len
    BY <1>5, <1>7
  <2>3. slices[done] \in Slice
    BY <2>1, <2>2
  <2>4. slices[done].len \in Nat
    BY <2>3 DEF Slice
  <2> QED
    BY <2>1, <2>2, <2>4
<1>13. IsSaving(t)
  <2>1. t = Work(t.step, t.names, t.slices, t.done, t.at, t.account, t.number, t.txns)
    BY <1>10, <1>11
  <2> QED
    BY <1>5, <1>7, <1>9, <1>11, <1>12, <2>1, WorkTyped DEF WorkOK
<1>14. Reads(t)
  BY <1>5, <1>7, <1>9, <1>11, <1>12 DEF WorkOK, Reads
<1>15. ASSUME f = "main" PROVE ReadsAll(t) /\ Complete(t)
  <2>1. ReadsAll(s)
    BY <1>2, <1>15
  <2>2. /\ names = customers
        /\ \A i \in 1 .. done : slices[i] = lists[customers[i]]
        /\ \A m \in DOMAIN txns :
              m \in DOMAIN byNumber /\ txns[m] = objects[byNumber[m]].txns
        /\ \A i \in 1 .. done : \A k \in 1 .. slices[i].len :
              i < done \/ k < at \/ k = at
                  => arrays[slices[i].array][k] \in DOMAIN txns
    BY <1>1, <1>7, <2>1 DEF ReadsAll
  <2>3. \A k \in Int : k < at + 1 => k < at \/ k = at
    BY <1>12
  <2>4. \A i \in 1 .. done : \A k \in 1 .. slices[i].len :
           i < done \/ k < at + 1 => arrays[slices[i].array][k] \in DOMAIN txns
    BY <2>2, <2>3
  <2>5. o = byNumber[n] /\ n \in DOMAIN byNumber
    BY <1>1 DEF o
  <2> QED
    BY <1>8, <1>11, <1>12, <2>2, <2>4, <2>5 DEF ReadsAll, Complete
<1> QED
  BY <1>1, <1>2, <1>4, <1>13, <1>14, <1>15, SaverStep

LEMMA ReadTransactionsSafe ==
  ASSUME IInv, NEW f \in Savers, ReadTransactions(f)
  PROVE  IInv'
<1> DEFINE s == saver[f]
           more == [n \in DOMAIN s.txns \cup {s.number} |->
                       IF n = s.number THEN objects[s.account].txns ELSE s.txns[n]]
           w == [s EXCEPT !.txns = more, !.number = 0, !.account = Nil]
           t == Proceed(w)
<1>1. s.step = "txns" /\ Save(f, t) /\ UNCHANGED <<saves, file>>
  BY DEF ReadTransactions
<1>2. /\ IsSaving(s) /\ Reads(s)
      /\ IF f = "main" THEN mode = "flushing" /\ ReadsAll(s) ELSE mode # "down"
  BY <1>1, Running
<1>3. BankTypeOK /\ ServerOK
  BY IInvIs DEF BankSafe
<1>4. saves' \in 0 .. MaxSaves /\ FileOK'
  BY <1>1, <1>3 DEF ServerOK, FileOK
<1>5. WorkOK(s) /\ s.done > 0 /\ s.number \in Number /\ s.account \in DOMAIN objects
  BY <1>1, <1>2, WorkOKIs DEF Reads
<1>6. PICK step, names, slices, done, at, account, number, txns :
        s = Work(step, names, slices, done, at, account, number, txns)
  BY <1>5 DEF WorkOK
<1>7. /\ s.names = names /\ s.slices = slices /\ s.done = done /\ s.at = at
      /\ s.account = account /\ s.number = number /\ s.txns = txns
  BY <1>6, WorkFields
<1> HIDE DEF s
<1>8. /\ DOMAIN more = DOMAIN txns \cup {number} /\ more[number] = objects[account].txns
      /\ \A m \in DOMAIN txns : m # number => more[m] = txns[m]
      /\ more \in [DOMAIN more -> Seq(Int)] /\ DOMAIN more \subseteq Number
  <2>1. objects[account] \in Account
    BY <1>3, <1>5, <1>7 DEF BankTypeOK
  <2>2. objects[account].txns \in Seq(Int)
    BY <2>1, AccountIs
  <2>3. number \in Number /\ DOMAIN txns \subseteq Number /\ txns \in [DOMAIN txns -> Seq(Int)]
    BY <1>5, <1>7 DEF WorkOK
  <2> QED
    BY <1>7, <2>2, <2>3
<1> HIDE DEF more
<1>9. w = Work(step, names, slices, done, at, 0, 0, more)
  <2> DEFINE w1 == [s EXCEPT !.txns = more]
             w2 == [w1 EXCEPT !.number = 0]
  <2>1. w1 = Work(step, names, slices, done, at, account, number, more)
    BY <1>6 DEF Work
  <2>2. w2 = Work(step, names, slices, done, at, account, 0, more)
    <3> HIDE DEF w1
    <3> QED
      BY <2>1 DEF Work
  <2>3. w = [w2 EXCEPT !.account = 0]
    BY DEF Nil
  <2> HIDE DEF w, w1, w2
  <2> QED
    BY <2>2, <2>3 DEF Work
<1> HIDE DEF w
<1>10. /\ w.step = step /\ w.names = names /\ w.slices = slices /\ w.done = done
       /\ w.at = at /\ w.account = 0 /\ w.number = 0 /\ w.txns = more
  BY <1>9, WorkFields
<1>11. WorkOK(w)
  <2>1. w = Work(w.step, w.names, w.slices, w.done, w.at, w.account, w.number, w.txns)
    BY <1>9, <1>10
  <2> QED
    BY <1>5, <1>7, <1>8, <1>10, <2>1 DEF WorkOK
<1>12. /\ IsSaving(t) /\ Reads(t) /\ t.step \in {"account", "numbers", "marshal"}
       /\ t.names = w.names /\ t.slices = w.slices /\ t.done = w.done /\ t.at = w.at
       /\ t.txns = w.txns
       /\ t.step \in {"numbers", "marshal"} /\ t.done > 0 => t.at >= t.slices[t.done].len
  BY <1>11, ProceedIs
<1> HIDE DEF t
<1>13. ASSUME f = "main" PROVE ReadsAll(t) /\ Complete(t)
  <2>1. ReadsAll(s)
    BY <1>2, <1>13
  <2>2. /\ names = customers
        /\ \A i \in 1 .. done : slices[i] = lists[customers[i]]
        /\ \A m \in DOMAIN txns :
              m \in DOMAIN byNumber /\ txns[m] = objects[byNumber[m]].txns
        /\ \A i \in 1 .. done : \A k \in 1 .. slices[i].len :
              i < done \/ k < at => arrays[slices[i].array][k] \in DOMAIN txns
        /\ number = arrays[slices[done].array][at]
        /\ number \in DOMAIN byNumber /\ account = byNumber[number]
    BY <1>1, <1>7, <2>1 DEF ReadsAll
  <2>3. \A m \in DOMAIN more :
           m \in DOMAIN byNumber /\ more[m] = objects[byNumber[m]].txns
    BY <1>8, <2>2
  <2>4. ASSUME NEW i \in 1 .. done, NEW k \in 1 .. slices[i].len,
               i < done \/ k < at \/ k = at
        PROVE  arrays[slices[i].array][k] \in DOMAIN more
    <3>1. i < done \/ i = done
      BY <1>5, <1>7 DEF WorkOK
    <3> QED
      BY <1>8, <2>2, <2>4, <3>1
  <2> QED
    BY <1>10, <1>12, <2>2, <2>3, <2>4 DEF ReadsAll, Complete
<1> QED
  BY <1>1, <1>2, <1>4, <1>12, <1>13, SaverStep

LEMMA NumbersOfIs ==
  ASSUME BankTypeOK, NEW v, Valid(v, arrays)
  PROVE  /\ v.len \in Nat /\ NumbersOf(v) \in Seq(Number) /\ DOMAIN NumbersOf(v) = 1 .. v.len
         /\ \A i \in 1 .. v.len : NumbersOf(v)[i] = arrays[v.array][i]
<1>1. NumbersOf(v) = NumbersIn(v, arrays)
  BY DEF NumbersOf, NumbersIn
<1>2. arrays \in Seq(Seq(Nat))
  BY DEF BankTypeOK
<1> QED
  BY <1>1, <1>2, SliceIs

LEMMA MarshalSafe ==
  ASSUME IInv, NEW f \in Savers, Marshal(f)
  PROVE  IInv'
<1> DEFINE s == saver[f]
           place(c) == CHOOSE i \in DOMAIN s.names : s.names[i] = c
           numbers == [c \in Range(s.names) |-> NumbersOf(s.slices[place(c)])]
           d == [customers |-> s.names, lists |-> numbers, txns |-> s.txns]
           t == [step |-> "write", clone |-> d]
<1>1. s.step = "marshal" /\ Save(f, t) /\ file' = Empty /\ saves' = saves
  BY DEF Marshal
<1>2. /\ IsSaving(s) /\ Reads(s)
      /\ IF f = "main" THEN mode = "flushing" /\ ReadsAll(s) ELSE mode # "down"
  BY <1>1, Running
<1>3. BankTypeOK /\ ServerOK
  BY IInvIs DEF BankSafe
<1>4. saves' \in 0 .. MaxSaves /\ FileOK'
  BY <1>1, <1>3 DEF ServerOK, FileOK, Empty
<1>5. WorkOK(s) /\ s.done = Len(s.names)
  BY <1>1, <1>2, WorkOKIs DEF Reads
<1> HIDE DEF s
<1>6. ASSUME NEW c \in Range(s.names)
      PROVE  /\ place(c) \in DOMAIN s.names /\ s.names[place(c)] = c
             /\ place(c) \in 1 .. s.done /\ Valid(s.slices[place(c)], arrays)
  <2>1. \E i \in DOMAIN s.names : s.names[i] = c
    BY DEF Range
  <2>2. place(c) \in DOMAIN s.names /\ s.names[place(c)] = c
    BY <2>1
  <2> HIDE DEF place
  <2> QED
    BY <1>5, <2>2 DEF WorkOK
<1> HIDE DEF place
<1>7. /\ numbers \in [Range(s.names) -> Seq(Number)]
      /\ \A c \in Range(s.names) : numbers[c] = NumbersOf(s.slices[place(c)])
  BY <1>3, <1>6, NumbersOfIs
<1> HIDE DEF numbers
<1>8. d.customers = s.names /\ d.lists = numbers /\ d.txns = s.txns
  OBVIOUS
<1> HIDE DEF d
<1>9. t.step = "write" /\ t.clone = d
  OBVIOUS
<1> HIDE DEF t
<1>10. IsSaving(t) /\ Reads(t) /\ ReadsAll(t)
  <2>1. IsClone(d)
    BY <1>5, <1>7, <1>8 DEF IsClone, WorkOK
  <2> QED
    BY <1>9, <2>1 DEF IsSaving, Reads, ReadsAll
<1>11. ASSUME f = "main" PROVE Complete(t)
  <2>1. ReadsAll(s)
    BY <1>2, <1>11
  <2>2. /\ s.names = customers
        /\ \A i \in 1 .. s.done : s.slices[i] = lists[customers[i]]
        /\ \A n \in DOMAIN s.txns :
              n \in DOMAIN byNumber /\ s.txns[n] = objects[byNumber[n]].txns
        /\ \A i \in 1 .. s.done : \A k \in 1 .. s.slices[i].len :
              i < s.done \/ k < s.at \/ k = s.at
                  => arrays[s.slices[i].array][k] \in DOMAIN s.txns
        /\ s.done > 0 => s.at >= s.slices[s.done].len
    BY <1>1, <2>1 DEF ReadsAll
  <2>3. Range(s.names) = Known
    BY <1>3, <2>2 DEF BankTypeOK
  <2>4. ASSUME NEW c \in Known PROVE lists[c] = s.slices[place(c)] /\ numbers[c] = Numbers(c)
    BY <1>6, <1>7, <2>2, <2>3 DEF Numbers
  <2>5. numbers = [c \in Known |-> Numbers(c)]
    BY <1>7, <2>3, <2>4
  <2>6. ASSUME NEW n \in Listed PROVE n \in DOMAIN s.txns
    <3>1. PICK c \in Known : n \in Range(Numbers(c))
      BY DEF Listed
    <3> DEFINE i == place(c)
    <3>2. i \in 1 .. s.done /\ Valid(s.slices[i], arrays) /\ Numbers(c) = NumbersOf(s.slices[i])
      BY <1>6, <1>7, <2>3, <2>4
    <3> HIDE DEF i
    <3>3. PICK k \in DOMAIN Numbers(c) : Numbers(c)[k] = n
      BY <3>1 DEF Range
    <3>4. /\ k \in 1 .. s.slices[i].len /\ s.slices[i].len \in Nat
          /\ n = arrays[s.slices[i].array][k]
      BY <1>3, <3>2, <3>3, NumbersOfIs
    <3>5. s.done \in Nat /\ s.at \in Nat
      BY <1>5 DEF WorkOK
    <3>6. i < s.done \/ i = s.done
      BY <3>2, <3>5
    <3>7. i = s.done => k < s.at \/ k = s.at
      BY <2>2, <3>2, <3>4, <3>5
    <3> QED
      BY <2>2, <3>2, <3>4, <3>6, <3>7
  <2>7. \A n \in Listed : n \in DOMAIN s.txns /\ s.txns[n] = objects[byNumber[n]].txns
    BY <2>2, <2>6
  <2> QED
    BY <1>8, <1>9, <2>2, <2>5, <2>7 DEF Complete
<1> QED
  BY <1>1, <1>2, <1>4, <1>10, <1>11, SaverStep

\* What a save leaves in the file is a clone, or half of one.
LEMMA WrittenIs ==
  ASSUME ServerOK, NEW f \in Savers, Written(f)
  PROVE  FileOK'
<1>1. CASE file' = file
  BY <1>1 DEF ServerOK, FileOK
<1>2. CASE saver[f].step = "write" /\ file' = Torn
  BY <1>2 DEF FileOK, Torn
<1>3. CASE saver[f].step = "write" /\ file' = Saved(saver[f].clone)
  <2>1. IsClone(saver[f].clone)
    <3>1. saver[f] # Resting
      BY <1>3 DEF Resting
    <3>2. \A read : saver[f] \notin Cloning(read)
      BY <1>3 DEF Cloning
    <3> QED
      BY <3>1, <3>2 DEF ServerOK, IsSaving
  <2> QED
    BY <1>3, <2>1 DEF FileOK, Saved
<1> QED
  BY <1>1, <1>2, <1>3 DEF Written

LEMMA FinishSaveSafe ==
  ASSUME IInv, NEW f \in Savers, FinishSave(f)
  PROVE  IInv'
<1>1. f = "bg" /\ Written(f) /\ Save(f, Resting) /\ saves' = saves
  BY DEF FinishSave
<1>2. ServerOK
  BY IInvIs
<1>3. saver[f].step # "idle"
  BY <1>1 DEF Written
<1>4. mode # "down"
  BY <1>1, <1>3, Running
<1>5. saves' \in 0 .. MaxSaves /\ FileOK'
  BY <1>1, <1>2, WrittenIs DEF ServerOK
<1> QED
  BY <1>1, <1>4, <1>5, RestingIs, SaverStep
-------------------------------------------------------------------------------
(* The end of a process, and the next one. *)

LEMMA NoAccountsSafe == NoAccounts => BankSafe /\ InProgress = {}
<1> SUFFICES ASSUME NoAccounts PROVE BankSafe /\ InProgress = {}
  OBVIOUS
<1>1. /\ customers = <<>> /\ lists = <<>> /\ arrays = <<>> /\ byNumber = <<>>
      /\ objects = <<>> /\ lastNum = 0 /\ paidIn = 0
      /\ \A r \in Requests : request[r] = Idle
      /\ request \in [Requests -> Request \cup {Idle}]
  BY DEF NoAccounts
<1>2. /\ DOMAIN <<>> = {} /\ <<>> \in [{} -> Slice] /\ <<>> \in [{} -> {}]
      /\ <<>> \in Seq(Customers) /\ <<>> \in Seq(Seq(Nat)) /\ <<>> \in Seq(Account)
      /\ Len(<<>>) = 0
  OBVIOUS
<1>3. Known = {} /\ Range(customers) = {} /\ DOMAIN objects = {} /\ DOMAIN byNumber = {}
  BY <1>1, <1>2 DEF Known, Range
<1>4. BankTypeOK
  BY <1>1, <1>2, <1>3 DEF BankTypeOK
<1>5. SliceInv /\ InProgress = {}
  BY <1>1, <1>3 DEF SliceInv, InProgress
<1>6. AccountInv /\ BalanceInv
  BY <1>1, <1>2, <1>3, <1>5 DEF AccountInv, BalanceInv
<1>7. ListedOnce
  BY <1>3 DEF ListedOnce, Listed
<1>8. Total = 0
  <2> DEFINE e == [o \in DOMAIN objects |-> objects[o].balance]
  <2>1. DOMAIN e = {}
    BY <1>3
  <2>2. Total = Sum(e)
    BY DEF Total
  <2> HIDE DEF e
  <2> QED
    BY <2>1, <2>2, SumDef, SumEmpty
<1>9. InTransit = 0
  BY <1>1, TransitNone
<1>10. FirstRunInv
  BY <1>1, <1>3, <1>5, <1>7, <1>8, <1>9 DEF FirstRunInv
<1> QED
  BY <1>4, <1>5, <1>6, <1>10 DEF BankSafe

LEMMA DieSafe ==
  ASSUME IInv, Die, FileOK'
  PROVE  IInv'
<1>1. /\ mode' = "down" /\ NoAccounts' /\ saver' = [f \in Savers |-> Resting]
      /\ UNCHANGED <<restarts, saves>>
  BY DEF Die, LoseAccounts, NoAccounts
<1>2. BankSafe' /\ InProgress' = {}
  <2>1. (NoAccounts => BankSafe /\ InProgress = {})'
    BY NoAccountsSafe, PTL
  <2> QED
    BY <1>1, <2>1
<1>3. \A f \in Savers : saver'[f] = Resting
  BY <1>1
<1>4. ServerOK /\ "main" \in Savers /\ "bg" \in Savers
  BY IInvIs DEF Savers
<1>5. ServerOK'
  BY <1>1, <1>3, <1>4 DEF ServerOK
<1>6. SaverInv'
  BY <1>3 DEF SaverInv, Reads, Resting
<1>7. FinalInv'
  BY <1>3, <1>4 DEF FinalInv, FinalSaveIsComplete, ReadsAll, Resting
<1>8. ModeInv'
  BY <1>1, <1>2, <1>3, <1>4 DEF ModeInv, NoAccounts
<1> QED
  BY <1>2, <1>5, <1>6, <1>7, <1>8, IInvNext

LEMMA EndSafe == IInv /\ (Exit \/ Panic \/ Crash) => IInv'
<1> SUFFICES ASSUME IInv, Exit \/ Panic \/ Crash PROVE IInv'
  OBVIOUS
<1>1. Die /\ (Written("main") \/ Interrupted)
  BY DEF Exit, Panic, Crash
<1>2. ServerOK
  BY IInvIs
<1>3. CASE Written("main")
  BY <1>1, <1>2, <1>3, WrittenIs, DieSafe DEF Savers
<1>4. CASE Interrupted
  <2>1. FileOK'
    BY <1>2, <1>4 DEF Interrupted, ServerOK, FileOK, Torn
  <2> QED
    BY <1>1, <2>1, DieSafe
<1> QED
  BY <1>1, <1>3, <1>4

\* The loaded accounts are numbered by their places.
LEMMA PlacesExist ==
  ASSUME NEW D \in SUBSET Number
  PROVE  /\ Cardinality(D) \in Nat
         /\ \E s \in [1 .. Cardinality(D) -> D] : Range(s) = D
<1>1. IsFiniteSet(D)
  <2>1. IsFiniteSet(Number)
    BY BankAssumption, FS_Interval DEF Number
  <2> QED
    BY <2>1, FS_Subset
<1>2. Cardinality(D) \in Nat /\ ExistsBijection(1 .. Cardinality(D), D)
  BY <1>1, FS_CardinalityType
<1>3. PICK s \in [1 .. Cardinality(D) -> D] :
        \A n \in D : \E i \in 1 .. Cardinality(D) : s[i] = n
  BY <1>2 DEF ExistsBijection, Bijection, Surjection
<1>4. Range(s) = D
  BY <1>3 DEF Range
<1> QED
  BY <1>2, <1>4

\* An account as it is loaded: its transactions are those of the file.
LEMMA LoadedAccountIs ==
  ASSUME NEW txns \in Seq(Int), NEW a,
         a = [balance |-> 0, txns |-> txns, loaded |-> Len(txns)]
  PROVE  /\ a \in Account /\ a.loaded <= Len(a.txns)
         /\ a.balance = Sum(SubSeq(a.txns, a.loaded + 1, Len(a.txns)))
<1>1. Len(txns) \in Nat /\ 0 \in 0 .. MaxInt
  BY BankAssumption
<1>2. SubSeq(txns, Len(txns) + 1, Len(txns)) = <<>>
  BY <1>1, SubSeqEmpty
<1>3. Sum(SubSeq(txns, Len(txns) + 1, Len(txns))) = 0
  BY <1>2, SumNone
<1> QED
  BY <1>1, <1>3 DEF Account

LEMMA LoadSafe ==
  ASSUME BankTypeOK, InProgress = {}, lastNum = 0, NEW d, IsClone(d), Load(d), restarts' # 0
  PROVE  BankSafe' /\ InProgress' = {} /\ lastNum' = 0
<1> DEFINE D == DOMAIN d.txns
           k == Cardinality(D)
           numbers == CHOOSE s \in [1 .. k -> D] : Range(s) = D
           names == d.customers
           place(c) == CHOOSE i \in DOMAIN names : names[i] = c
           account(i) == [balance |-> 0, txns |-> d.txns[numbers[i]],
                          loaded |-> Len(d.txns[numbers[i]])]
<1>1. /\ customers' = names
      /\ arrays' = [i \in DOMAIN names |-> d.lists[names[i]]]
      /\ lists' = [c \in Range(names) |-> [array |-> place(c), len |-> Len(d.lists[c])]]
      /\ objects' = [i \in DOMAIN numbers |-> account(i)]
      /\ byNumber' = [n \in D |-> CHOOSE i \in DOMAIN numbers : numbers[i] = n]
      /\ lastNum' = 0 /\ request' = request /\ paidIn' = paidIn
  BY DEF Load
<1>2. /\ names \in Seq(Customers) /\ d.lists \in [Range(names) -> Seq(Number)]
      /\ D \subseteq Number /\ d.txns \in [D -> Seq(Int)]
  BY DEF IsClone
<1>3. k \in Nat /\ numbers \in [1 .. k -> D] /\ Range(numbers) = D
  BY <1>2, PlacesExist
<1> HIDE DEF numbers, k
<1>4. ASSUME NEW c \in Range(names) PROVE place(c) \in DOMAIN names /\ names[place(c)] = c
  <2>1. \E i \in DOMAIN names : names[i] = c
    BY DEF Range
  <2> QED
    BY <2>1
<1> HIDE DEF place
<1>5. /\ Known' = Range(names) /\ arrays' \in Seq(Seq(Number)) /\ arrays' \in Seq(Seq(Nat))
      /\ DOMAIN arrays' = DOMAIN names
  <2>1. Known' = Range(names)
    BY <1>1 DEF Known
  <2>2. Len(names) \in Nat /\ DOMAIN names = 1 .. Len(names)
    BY <1>2
  <2>3. \A i \in 1 .. Len(names) : d.lists[names[i]] \in Seq(Number)
    BY <1>2, <2>2 DEF Range
  <2>4. arrays' = [i \in 1 .. Len(names) |-> d.lists[names[i]]]
    BY <1>1, <2>2
  <2>5. arrays' \in [1 .. Len(names) -> Seq(Number)]
    BY <2>3, <2>4
  <2>6. arrays' \in Seq(Seq(Number)) /\ DOMAIN arrays' = 1 .. Len(names)
    BY <2>2, <2>5
  <2>7. ASSUME NEW x \in Seq(Number) PROVE x \in Seq(Nat)
    <3>1. Number \subseteq Nat
      BY DEF Number
    <3>2. Len(x) \in Nat /\ x \in [1 .. Len(x) -> Number]
      BY LenProperties
    <3> DEFINE n == Len(x)
    <3>3. x \in [1 .. n -> Nat] /\ n \in Nat
      BY <3>1, <3>2
    <3> HIDE DEF n
    <3> QED
      BY <3>3
  <2>8. arrays' \in Seq(Seq(Nat))
    <3>1. arrays' \in [1 .. Len(names) -> Seq(Nat)]
      BY <2>5, <2>7
    <3> QED
      BY <2>2, <3>1
  <2> QED
    BY <2>1, <2>2, <2>6, <2>8
<1>6. ASSUME NEW c \in Range(names)
      PROVE  /\ lists'[c].array = place(c) /\ lists'[c] \in Slice
             /\ Valid(lists'[c], arrays')
  <2>1. lists'[c].array = place(c) /\ lists'[c].len = Len(d.lists[c])
        /\ lists'[c] = [array |-> place(c), len |-> Len(d.lists[c])]
    BY <1>1
  <2>2. arrays'[place(c)] = d.lists[c]
    BY <1>1, <1>4
  <2>3. d.lists[c] \in Seq(Number) /\ Len(d.lists[c]) \in Nat
    BY <1>2
  <2>4. place(c) \in DOMAIN arrays' /\ place(c) \in Nat
    BY <1>2, <1>4, <1>5
  <2>5. \A i \in 1 .. Len(d.lists[c]) : d.lists[c][i] \in Number
    BY <2>3
  <2> QED
    BY <2>1, <2>2, <2>3, <2>4, <2>5 DEF Valid, Slice
<1>7. lists' \in [Known' -> Slice]
  BY <1>1, <1>5, <1>6
<1>8. SliceInv'
  <2>1. \A c \in Known' : Valid(lists'[c], arrays')
    BY <1>5, <1>6
  <2>2. \A c, e \in Known' : lists'[c].array = lists'[e].array => c = e
    BY <1>4, <1>5, <1>6
  <2> QED
    BY <2>1, <2>2 DEF SliceInv
<1>9. ASSUME NEW i \in 1 .. k
      PROVE  /\ account(i) \in Account /\ account(i).loaded <= Len(account(i).txns)
             /\ account(i).balance = Sum(SubSeq(account(i).txns, account(i).loaded + 1,
                                                Len(account(i).txns)))
  <2>1. d.txns[numbers[i]] \in Seq(Int)
    BY <1>2, <1>3
  <2> DEFINE a == account(i)
  <2>2. a = [balance |-> 0, txns |-> d.txns[numbers[i]],
             loaded |-> Len(d.txns[numbers[i]])]
    OBVIOUS
  <2> HIDE DEF a
  <2>3. /\ a \in Account /\ a.loaded <= Len(a.txns)
        /\ a.balance = Sum(SubSeq(a.txns, a.loaded + 1, Len(a.txns)))
    BY <2>1, <2>2, LoadedAccountIs
  <2> QED
    BY <2>3 DEF a
<1> HIDE DEF account
<1>10. objects' \in Seq(Account) /\ DOMAIN objects' = 1 .. k /\ Len(objects') = k
       /\ \A i \in 1 .. k : objects'[i] = account(i)
  <2>1. objects' = [i \in 1 .. k |-> account(i)]
    BY <1>1, <1>3
  <2>2. objects' \in [1 .. k -> Account]
    BY <1>9, <2>1
  <2> QED
    BY <1>3, <2>1, <2>2
<1>11. BalanceInv'
  BY <1>9, <1>10 DEF BalanceInv
<1>12. byNumber' \in [D -> DOMAIN objects'] /\ DOMAIN byNumber' = D
  <2>1. \A n \in D : \E i \in DOMAIN numbers : numbers[i] = n
    BY <1>3 DEF Range
  <2>2. DOMAIN numbers = 1 .. k
    BY <1>3
  <2> QED
    BY <1>1, <1>10, <2>1, <2>2
<1>13. InProgress' = {}
  BY <1>1 DEF InProgress
<1>14. AccountInv'
  BY <1>1, <1>3, <1>10, <1>13 DEF AccountInv
<1>15. BankTypeOK'
  BY <1>1, <1>2, <1>5, <1>7, <1>10, <1>12 DEF BankTypeOK
<1>16. FirstRunInv'
  BY DEF FirstRunInv, ListedOnce
<1> QED
  BY <1>1, <1>8, <1>11, <1>13, <1>14, <1>15, <1>16 DEF BankSafe

LEMMA RestartSafe == IInv /\ Restart => IInv'
<1> SUFFICES ASSUME IInv, Restart PROVE IInv'
  OBVIOUS
<1>1. /\ mode = "down" /\ restarts < MaxRestarts /\ mode' = "up"
      /\ restarts' = restarts + 1 /\ UNCHANGED <<saves, saver, file>>
      /\ \/ UNCHANGED bankVars
         \/ file.state = "saved" /\ Load(file.clone)
  BY DEF Restart
<1>2. BankSafe /\ BankTypeOK /\ ServerOK /\ ModeInv
  BY IInvIs DEF BankSafe
<1>3. InProgress = {} /\ lastNum = 0 /\ \A f \in Savers : saver[f] = Resting
  BY <1>1, <1>2 DEF ModeInv, Savers
<1>4. restarts' \in 0 .. MaxRestarts /\ restarts' # 0
  BY <1>1, <1>2, ServerAssumption DEF ServerOK
<1>5. BankSafe'
  <2>1. CASE file.state = "saved" /\ Load(file.clone)
    <3>1. IsClone(file.clone)
      BY <1>2, <2>1 DEF ServerOK, FileOK
    <3> QED
      BY <1>2, <1>3, <1>4, <2>1, <3>1, LoadSafe
  <2>2. CASE UNCHANGED bankVars
    <3>1. UNCHANGED <<customers, lists, arrays, byNumber, objects, lastNum, request, paidIn>>
      BY <2>2 DEF bankVars, listVars, accountVars
    <3>2. BankTypeOK /\ SliceInv /\ AccountInv /\ BalanceInv
      BY <1>2 DEF BankSafe
    <3>3. BankTypeOK' /\ SliceInv' /\ AccountInv' /\ BalanceInv'
      BY <3>1, <3>2 DEF BankTypeOK, SliceInv, AccountInv, BalanceInv, Known, InProgress, Valid
    <3>4. FirstRunInv'
      BY <1>4 DEF FirstRunInv, ListedOnce
    <3> QED
      BY <3>3, <3>4 DEF BankSafe
  <2> QED
    BY <1>1, <2>1, <2>2
<1>6. \A f \in Savers : saver'[f] = Resting
  BY <1>1, <1>3
<1>7. ServerOK'
  BY <1>1, <1>2, <1>4 DEF ServerOK, FileOK
<1>8. SaverInv'
  BY <1>6 DEF SaverInv, Reads, Resting
<1>9. FinalInv'
  BY <1>6 DEF FinalInv, FinalSaveIsComplete, ReadsAll, Resting, Savers
<1>10. ModeInv'
  BY <1>1, <1>6 DEF ModeInv, Savers
<1> QED
  BY <1>5, <1>7, <1>8, <1>9, <1>10, IInvNext
-------------------------------------------------------------------------------
(* The theorems. *)

LEMMA Starts == Init => IInv
<1> SUFFICES ASSUME Init PROVE IInv
  OBVIOUS
<1>1. /\ NoAccounts /\ mode = "up" /\ restarts = 0 /\ saves = 0
      /\ saver = [f \in Savers |-> Resting] /\ file = Empty
  BY DEF Init
<1>2. BankSafe
  BY <1>1, NoAccountsSafe
<1>3. ServerOK
  BY <1>1, ServerAssumption DEF ServerOK, FileOK, Empty
<1>4. SaverInv /\ FinalInv
  BY <1>1, RestingIs, FinalInvIs DEF SaverInv, Savers
<1>5. ModeInv
  BY <1>1 DEF ModeInv, Savers
<1> QED
  BY <1>2, <1>3, <1>4, <1>5, IInvIs

LEMMA Stutters == IInv /\ UNCHANGED vars => IInv'
<1> SUFFICES ASSUME IInv, UNCHANGED vars PROVE IInv'
  OBVIOUS
<1>1. BankSafe /\ ServerOK /\ SaverInv /\ ModeInv /\ FinalInv
  BY IInvIs
<1>2. /\ UNCHANGED <<bankVars, mode, restarts, saves, saver, file>>
      /\ UNCHANGED <<customers, lists, arrays, byNumber, objects, lastNum, request, paidIn>>
  BY DEF vars, processVars, bankVars, listVars, accountVars
<1>3. BankSafe' /\ Grows
  BY <1>1, <1>2, SafeKept
<1>4. ServerOK' /\ SaverInv'
  BY <1>1, <1>2, <1>3, ReadsKept DEF ServerOK, FileOK
<1>5. InProgress' = InProgress
  BY <1>2 DEF InProgress
<1>6. ModeInv'
  BY <1>1, <1>2, <1>5 DEF ModeInv
<1>7. FinalInv'
  <2>1. \A c : Numbers(c)' = Numbers(c)
    BY <1>2 DEF Numbers, NumbersOf, Known
  <2>2. Listed' = Listed /\ Known' = Known
    BY <1>2, <2>1 DEF Listed, Known
  <2>3. ReadsAll(saver["main"])'
    BY <1>1, <1>2 DEF FinalInv, ReadsAll
  <2>4. FinalSaveIsComplete'
    BY <1>1, <1>2, <2>1, <2>2 DEF FinalInv, FinalSaveIsComplete
  <2> QED
    BY <2>3, <2>4 DEF FinalInv
<1> QED
  BY <1>3, <1>4, <1>6, <1>7, IInvNext

\* What the bank's handlers, its two savers, a graceful stop, a crash and a
\* restart from the file rely on and keep.
THEOREM Inductive == Spec => []IInv
<1>1. IInv /\ [Next]_vars => IInv'
  <2> SUFFICES ASSUME IInv, [Next]_vars PROVE IInv'
    OBVIOUS
  <2>1. CASE Accept \/ Handle
    BY <2>1, AcceptSafe, HandleSafe
  <2>2. CASE GracefulStop \/ Stopped
    BY <2>2, GracefulStopSafe, StoppedSafe
  <2>3. ASSUME NEW f \in Savers,
               \/ ReadCustomers(f) \/ ReadNumbers(f) \/ FindAccount(f)
               \/ ReadTransactions(f) \/ Marshal(f) \/ FinishSave(f)
        PROVE  IInv'
    BY <2>3, ReadCustomersSafe, ReadNumbersSafe, FindAccountSafe, ReadTransactionsSafe,
       MarshalSafe, FinishSaveSafe
  <2>4. CASE Exit \/ Panic \/ Crash
    BY <2>4, EndSafe
  <2>5. CASE Restart
    BY <2>5, RestartSafe
  <2>6. CASE Terminated \/ UNCHANGED vars
    BY <2>6, Stutters DEF Terminated
  <2> QED
    BY <2>1, <2>2, <2>3, <2>4, <2>5, <2>6 DEF Next
<1> QED
  BY Starts, <1>1, PTL DEF Spec

\* The state of the bank (bankdemo/db.go, main.go) keeps its types: an amount
\* fits in its integer, a pointer is to an account, a saver holds slices.
THEOREM TypeCorrect == Spec => []TypeOK
<1>1. IInv => TypeOK
  BY DEF IInv
<1> QED
  BY <1>1, Inductive, PTL

\* newTransaction (bankdemo/db.go) keeps each balance what its transactions add up
\* to, whatever the width of integers, and no transfer makes money.
THEOREM NoMoneyCreated == Spec => []MoneyNotCreated
<1>1. IInv => MoneyNotCreated
  BY DEF IInv, BalanceInv, FirstRunInv, MoneyNotCreated
<1> QED
  BY <1>1, Inductive, PTL

\* openAccount and closeAccount (bankdemo/db.go) share arrays between slices;
\* still, until a file is loaded, every number is listed once, with an account.
THEOREM NumbersListedOnce == Spec => []ListedOnce
<1>1. IInv => ListedOnce
  BY DEF IInv, FirstRunInv
<1> QED
  BY <1>1, Inductive, PTL

\* clone (bankdemo/db.go) takes its locks anew for each read; what main writes
\* after a graceful stop is nevertheless all there is.
THEOREM FinalSaveComplete == Spec => []FinalSaveIsComplete
<1>1. IInv => FinalSaveIsComplete
  BY DEF IInv, FinalInv
<1> QED
  BY <1>1, Inductive, PTL
===============================================================================
