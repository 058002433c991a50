----------------------------- MODULE DataProofs -----------------------------
(***************************************************************************)
(* Facts about the data the model is built from: sums over finite sets,    *)
(* loops written as recursive functions, and least elements.  Each is      *)
(* proved by looking at a least counterexample, which WFMin provides.      *)
(***************************************************************************)
EXTENDS SequencesExt, FiniteSetTheorems, WellFoundedInduction, TLAPS

-----------------------------------------------------------------------------
(* Least elements *)

\* A nonempty set of naturals has a least element.
LEMMA LeastNatural ==
  ASSUME NEW T, T \subseteq Nat, T # {}
  PROVE  \E x \in T : \A y \in T : x <= y
<1> DEFINE R == OpToRel(<, Nat)
<1>1. IsWellFoundedOn(R, Nat)
  BY NatLessThanWellFounded
<1>2. PICK x \in T : \A y \in T : ~(<<y, x>> \in R)
  <2> HIDE DEF R
  <2> QED BY <1>1, WFMin
<1>3. \A y \in T : ~(y < x)
  BY <1>2 DEF OpToRel
<1> QED BY <1>3

\* What holds of no least counterexample holds of every natural number.
LEMMA NoLeastCounterexample ==
  ASSUME NEW Good, 
         \A n \in Nat : (\A m \in Nat : m < n => m \in Good) => n \in Good
  PROVE  Nat \subseteq Good
<1> SUFFICES ASSUME Nat \ Good # {} PROVE FALSE
  OBVIOUS
<1>1. PICK n \in Nat \ Good : \A m \in Nat \ Good : n <= m
  BY LeastNatural
<1>2. \A m \in Nat : m < n => m \in Good
  BY <1>1
<1> QED BY <1>1, <1>2

-----------------------------------------------------------------------------
(* Least and greatest elements of finite sets *)

\* Among finitely many elements some has the least value.
LEMMA FiniteLeast ==
  ASSUME NEW S, IsFiniteSet(S), S # {}, NEW f, \A x \in S : f[x] \in Int
  PROVE  \E x \in S : \A y \in S : f[x] <= f[y]
<1> DEFINE Good == {n \in Nat : \A s \in SUBSET S : s # {} /\ Cardinality(s) = n =>
                      \E x \in s : \A y \in s : f[x] <= f[y]}
<1>1. ASSUME NEW n \in Nat, \A m \in Nat : m < n => m \in Good
      PROVE  n \in Good
  <2>1. ASSUME NEW s \in SUBSET S, s # {}, Cardinality(s) = n
        PROVE  \E x \in s : \A y \in s : f[x] <= f[y]
    <3>1. PICK z \in s : TRUE
      BY <2>1
    <3> DEFINE t == s \ {z}
    <3>2. CASE t = {}
      <4>1. \A y \in s : y = z
        BY <3>2
      <4> QED BY <4>1, <3>1
    <3>3. CASE t # {}
      <4>1. t \in SUBSET S /\ IsFiniteSet(s)
        BY FS_Subset
      <4>2. Cardinality(t) \in Nat /\ Cardinality(t) < n
        <5>1. IsFiniteSet(t) /\ Cardinality(t) = Cardinality(s) - 1
          BY <3>1, <4>1, FS_RemoveElement
        <5>2. Cardinality(t) \in Nat
          BY <5>1, FS_CardinalityType
        <5> QED BY <2>1, <5>1, <5>2
      <4>3. Cardinality(t) \in Good
        <5> HIDE DEF Good, t
        <5> QED BY <1>1, <4>2
      <4>4. PICK x \in t : \A y \in t : f[x] <= f[y]
        BY <3>3, <4>1, <4>3
      <4>5. \A y \in s : y \in t \/ y = z
        OBVIOUS
      <4> QED BY <3>1, <4>4, <4>5
    <3> QED BY <3>2, <3>3
  <2> QED BY <2>1
<1>2. Nat \subseteq Good
  <2> HIDE DEF Good
  <2> QED BY <1>1, NoLeastCounterexample
<1>3. Cardinality(S) \in Nat
  BY FS_CardinalityType
<1> QED BY <1>2, <1>3

\* So does some have the least value f, and among those the least value g.
LEMMA LexicographicLeast ==
  ASSUME NEW S, IsFiniteSet(S), S # {}, NEW f, NEW g,
         \A x \in S : f[x] \in Int /\ g[x] \in Int
  PROVE  \E x \in S : \A y \in S : f[x] < f[y] \/ (f[x] = f[y] /\ g[x] <= g[y])
<1>1. PICK a \in S : \A y \in S : f[a] <= f[y]
  BY FiniteLeast
<1> DEFINE T == {x \in S : f[x] = f[a]}
<1>2. IsFiniteSet(T) /\ T # {} /\ T \subseteq S
  BY FS_Subset
<1>3. PICK x \in T : \A y \in T : g[x] <= g[y]
  <2> HIDE DEF T
  <2> QED BY <1>2, FiniteLeast
<1>4. \A y \in S : f[x] < f[y] \/ (f[x] = f[y] /\ g[x] <= g[y])
  BY <1>1, <1>3
<1> QED BY <1>4

\* The maximum of a nonempty finite set of integers is in it, and bounds it.
LEMMA MaxOfFinite ==
  ASSUME NEW S, IsFiniteSet(S), S # {}, S \subseteq Int
  PROVE  Max(S) \in S /\ \A y \in S : y <= Max(S)
<1> DEFINE f == [x \in S |-> -x]
<1>1. \A x \in S : f[x] \in Int /\ f[x] = -x /\ x \in Int
  OBVIOUS
<1> HIDE DEF f
<1>2. PICK x \in S : \A y \in S : f[x] <= f[y]
  BY <1>1, FiniteLeast
<1>3. \A y \in S : x >= y
  BY <1>1, <1>2
<1> QED BY <1>3 DEF Max

\* The image of a finite set is finite.
LEMMA FiniteImage ==
  ASSUME NEW S, IsFiniteSet(S), NEW f
  PROVE  IsFiniteSet({f[x] : x \in S})
<1> DEFINE T == {f[x] : x \in S}
           g == [x \in S |-> f[x]]
<1>1. g \in Surjection(S, T)
  BY DEF Surjection
<1> HIDE DEF g, T
<1> QED BY <1>1, FS_Surjection DEF T

-----------------------------------------------------------------------------
(* Sums *)

\* The sum of the weights of the elements of a finite set.
SumOver(w, S) == MapThenSumSet(LAMBDA x : w[x], S)

Pick(s) == CHOOSE x \in s : TRUE

\* f holds the sum of every subset of S, each computed from a smaller one.
SumStep(w, S, f) ==
  [s \in SUBSET S |-> IF s = {} THEN 0 ELSE w[Pick(s)] + f[s \ {Pick(s)}]]

\* The sum of a set is defined by such a function.
LEMMA SumDef ==
  ASSUME NEW w, NEW S
  PROVE  SumOver(w, S) = (CHOOSE f : f = SumStep(w, S, f))[S]
BY DEF SumOver, MapThenSumSet, MapThenFoldSet, SumStep, Pick

\* There is one such function: it is built up by the size of the subsets.
LEMMA SumExists ==
  ASSUME NEW w, NEW S, IsFiniteSet(S)
  PROVE  \E f : f = SumStep(w, S, f)
<1> DEFINE Small(n) == {s \in SUBSET S : Cardinality(s) <= n}
           Sums(f, n) ==
             f = [s \in Small(n) |-> IF s = {} THEN 0
                                     ELSE w[Pick(s)] + f[s \ {Pick(s)}]]
           Good == {n \in Nat : \E f : Sums(f, n)}
<1>1. \A s \in SUBSET S : s # {} =>
        /\ Pick(s) \in s
        /\ s \ {Pick(s)} \in SUBSET S
        /\ Cardinality(s) \in Nat /\ Cardinality(s) > 0
        /\ Cardinality(s \ {Pick(s)}) = Cardinality(s) - 1
  <2> SUFFICES ASSUME NEW s \in SUBSET S, s # {}
               PROVE  /\ Pick(s) \in s
                      /\ s \ {Pick(s)} \in SUBSET S
                      /\ Cardinality(s) \in Nat /\ Cardinality(s) > 0
                      /\ Cardinality(s \ {Pick(s)}) = Cardinality(s) - 1
    OBVIOUS
  <2>1. Pick(s) \in s
    BY DEF Pick
  <2>2. IsFiniteSet(s) /\ Cardinality(s) \in Nat /\ Cardinality(s) # 0
    BY FS_Subset, FS_CardinalityType, FS_EmptySet
  <2>3. Cardinality(s \ {Pick(s)}) = Cardinality(s) - 1
    BY <2>1, <2>2, FS_RemoveElement
  <2> QED BY <2>1, <2>2, <2>3
<1>2. /\ Cardinality({}) = 0
      /\ \A s \in SUBSET S : Cardinality(s) \in Nat
  BY FS_EmptySet, FS_Subset, FS_CardinalityType
<1>3. ASSUME NEW n \in Nat, \A m \in Nat : m < n => m \in Good
      PROVE  n \in Good
  <2>1. CASE n = 0
    <3> DEFINE f == [s \in Small(0) |-> 0]
    <3>1. \A s \in Small(0) : s = {}
      <4> SUFFICES ASSUME NEW s \in SUBSET S, Cardinality(s) <= 0, s # {}
                   PROVE  FALSE
        OBVIOUS
      <4>1. Cardinality(s) \in Nat /\ Cardinality(s) > 0
        BY <1>1
      <4> QED BY <4>1
    <3>2. f = [s \in Small(0) |-> IF s = {} THEN 0
                                  ELSE w[Pick(s)] + f[s \ {Pick(s)}]]
      BY <3>1
    <3> QED BY <2>1, <3>2
  <2>2. CASE n # 0
    <3>1. n - 1 \in Nat /\ n - 1 < n
      BY <2>2
    <3>2. n - 1 \in Good
      <4> HIDE DEF Good
      <4> QED BY <1>3, <3>1
    <3>3. PICK g : Sums(g, n - 1)
      BY <3>2
    <3> DEFINE f == [s \in Small(n) |-> IF s = {} THEN 0
                                        ELSE w[Pick(s)] + g[s \ {Pick(s)}]]
    <3>4. \A s \in Small(n) : s # {} => s \ {Pick(s)} \in Small(n - 1)
      BY <1>1, <1>2
    <3>5. \A t \in Small(n - 1) : t \in Small(n)
      BY <1>2
    <3>6. \A t \in Small(n - 1) : f[t] = g[t]
      <4> SUFFICES ASSUME NEW t \in Small(n - 1) PROVE f[t] = g[t]
        OBVIOUS
      <4> HIDE DEF Small
      <4>1. f[t] = IF t = {} THEN 0 ELSE w[Pick(t)] + g[t \ {Pick(t)}]
        BY <3>5
      <4>2. g[t] = IF t = {} THEN 0 ELSE w[Pick(t)] + g[t \ {Pick(t)}]
        BY <3>3
      <4> QED BY <4>1, <4>2
    <3>7. \A s \in Small(n) :
            (IF s = {} THEN 0 ELSE w[Pick(s)] + g[s \ {Pick(s)}])
              = IF s = {} THEN 0 ELSE w[Pick(s)] + f[s \ {Pick(s)}]
      <4> HIDE DEF Small, f
      <4> QED BY <3>4, <3>6
    <3>8. Sums(f, n)
      <4> HIDE DEF Small
      <4> QED BY <3>7
    <3> HIDE DEF f, Small
    <3> QED BY <3>8
  <2> QED BY <2>1, <2>2
<1>4. Nat \subseteq Good
  <2> HIDE DEF Good
  <2> QED BY <1>3, NoLeastCounterexample
<1>5. Cardinality(S) \in Nat /\ Small(Cardinality(S)) = SUBSET S
  BY FS_CardinalityType, FS_Subset
<1>6. PICK f : Sums(f, Cardinality(S))
  <2> HIDE DEF Sums
  <2> QED BY <1>4, <1>5
<1> QED BY <1>5, <1>6 DEF SumStep

\* Two such functions agree on the sets they share, and on equal weights.
LEMMA SumAgree ==
  ASSUME NEW w, NEW v, NEW S, IsFiniteSet(S), NEW T, \A x \in S : w[x] = v[x],
         NEW f, f = SumStep(w, S, f), NEW g, g = SumStep(v, T, g)
  PROVE  \A s \in SUBSET S : s \subseteq T => f[s] = g[s]
<1> DEFINE Good == {n \in Nat : \A s \in SUBSET S :
                      s \subseteq T /\ Cardinality(s) = n => f[s] = g[s]}
<1>1. ASSUME NEW n \in Nat, \A m \in Nat : m < n => m \in Good
      PROVE  n \in Good
  <2>1. ASSUME NEW s \in SUBSET S, s \subseteq T, Cardinality(s) = n
        PROVE  f[s] = g[s]
    <3>1. /\ f[s] = IF s = {} THEN 0 ELSE w[Pick(s)] + f[s \ {Pick(s)}]
          /\ g[s] = IF s = {} THEN 0 ELSE v[Pick(s)] + g[s \ {Pick(s)}]
      BY <2>1 DEF SumStep
    <3>2. CASE s = {}
      BY <3>1, <3>2
    <3>3. CASE s # {}
      <4> DEFINE t == s \ {Pick(s)}
      <4>1. Pick(s) \in s
        BY <3>3 DEF Pick
      <4>2. IsFiniteSet(s)
        BY FS_Subset
      <4>3. Cardinality(t) \in Nat /\ Cardinality(t) = n - 1 /\ n - 1 < n
        BY <2>1, <4>1, <4>2, FS_RemoveElement, FS_CardinalityType
      <4>4. Cardinality(t) \in Good
        <5> HIDE DEF Good, t
        <5> QED BY <1>1, <4>3
      <4>5. t \in SUBSET S /\ t \subseteq T
        BY <2>1
      <4>6. f[t] = g[t]
        <5> HIDE DEF t
        <5> QED BY <4>4, <4>5
      <4> QED BY <3>1, <3>3, <4>1, <4>6
    <3> QED BY <3>2, <3>3
  <2> QED BY <2>1
<1>2. Nat \subseteq Good
  <2> HIDE DEF Good
  <2> QED BY <1>1, NoLeastCounterexample
<1>3. \A s \in SUBSET S : Cardinality(s) \in Nat
  BY FS_Subset, FS_CardinalityType
<1> QED BY <1>2, <1>3

\* The sum of a nonempty set takes the element it picks from it.
LEMMA SumUnfolds ==
  ASSUME NEW w, NEW S, IsFiniteSet(S)
  PROVE  /\ S = {} => SumOver(w, S) = 0
         /\ S # {} => /\ Pick(S) \in S
                      /\ SumOver(w, S) = w[Pick(S)] + SumOver(w, S \ {Pick(S)})
<1> DEFINE f == CHOOSE h : h = SumStep(w, S, h)
           T == S \ {Pick(S)}
           g == CHOOSE h : h = SumStep(w, T, h)
<1>1. IsFiniteSet(T) /\ T \subseteq S
  BY FS_Subset
<1>2. f = SumStep(w, S, f)
  <2>1. \E h : h = SumStep(w, S, h)
    BY SumExists
  <2> QED BY <2>1
<1>3. g = SumStep(w, T, g)
  <2>1. \E h : h = SumStep(w, T, h)
    BY <1>1, SumExists
  <2> QED BY <2>1
<1>4. SumOver(w, S) = f[S] /\ SumOver(w, T) = g[T]
  BY SumDef
<1> HIDE DEF f, g, T
<1>5. g[T] = f[T]
  BY <1>1, <1>2, <1>3, SumAgree
<1>6. f[S] = IF S = {} THEN 0 ELSE w[Pick(S)] + f[S \ {Pick(S)}]
  BY <1>2 DEF SumStep
<1>7. S # {} => Pick(S) \in S
  BY DEF Pick
<1> QED BY <1>4, <1>5, <1>6, <1>7 DEF T

\* Equal weights have equal sums.
LEMMA SumEqual ==
  ASSUME NEW w, NEW v, NEW S, IsFiniteSet(S), \A x \in S : w[x] = v[x]
  PROVE  SumOver(w, S) = SumOver(v, S)
<1> DEFINE f == CHOOSE h : h = SumStep(w, S, h)
           g == CHOOSE h : h = SumStep(v, S, h)
<1>1. f = SumStep(w, S, f)
  <2>1. \E h : h = SumStep(w, S, h)
    BY SumExists
  <2> QED BY <2>1
<1>2. g = SumStep(v, S, g)
  <2>1. \E h : h = SumStep(v, S, h)
    BY SumExists
  <2> QED BY <2>1
<1>3. SumOver(w, S) = f[S] /\ SumOver(v, S) = g[S]
  BY SumDef
<1> HIDE DEF f, g
<1> QED BY <1>1, <1>2, <1>3, SumAgree

\* The sum of integers is an integer, and any element may be taken out first.
LEMMA SumRemove ==
  ASSUME NEW w, NEW S, IsFiniteSet(S), \A x \in S : w[x] \in Int
  PROVE  /\ SumOver(w, S) \in Int
         /\ \A x \in S : SumOver(w, S) = w[x] + SumOver(w, S \ {x})
<1> DEFINE Good == {n \in Nat : \A s \in SUBSET S : Cardinality(s) = n =>
                      /\ SumOver(w, s) \in Int
                      /\ \A x \in s : SumOver(w, s) = w[x] + SumOver(w, s \ {x})}
<1>1. ASSUME NEW n \in Nat, \A m \in Nat : m < n => m \in Good
      PROVE  n \in Good
  <2>1. ASSUME NEW s \in SUBSET S, Cardinality(s) = n
        PROVE  /\ SumOver(w, s) \in Int
               /\ \A x \in s : SumOver(w, s) = w[x] + SumOver(w, s \ {x})
    <3>1. IsFiniteSet(s)
      BY FS_Subset
    <3>2. CASE s = {}
      <4>1. SumOver(w, s) = 0
        BY <3>1, <3>2, SumUnfolds
      <4> QED BY <3>2, <4>1
    <3>3. CASE s # {}
      <4> DEFINE p == Pick(s)
      <4>1. p \in s /\ SumOver(w, s) = w[p] + SumOver(w, s \ {p})
        BY <3>1, <3>3, SumUnfolds
      <4> HIDE DEF p
      <4>2. \A x \in s :
              /\ Cardinality(s \ {x}) \in Nat /\ Cardinality(s \ {x}) = n - 1
              /\ n - 1 < n /\ s \ {x} \in SUBSET S
        <5> SUFFICES ASSUME NEW x \in s
                     PROVE  /\ Cardinality(s \ {x}) \in Nat
                            /\ Cardinality(s \ {x}) = n - 1
                            /\ n - 1 < n /\ s \ {x} \in SUBSET S
          OBVIOUS
        <5>1. IsFiniteSet(s \ {x}) /\ Cardinality(s \ {x}) = Cardinality(s) - 1
          BY <3>1, FS_RemoveElement
        <5>2. Cardinality(s \ {x}) \in Nat
          BY <5>1, FS_CardinalityType
        <5> QED BY <2>1, <5>1, <5>2
      <4>3. \A x \in s :
              /\ SumOver(w, s \ {x}) \in Int
              /\ \A y \in s \ {x} :
                   SumOver(w, s \ {x}) = w[y] + SumOver(w, (s \ {x}) \ {y})
        <5> SUFFICES ASSUME NEW x \in s
                     PROVE  /\ SumOver(w, s \ {x}) \in Int
                            /\ \A y \in s \ {x} : SumOver(w, s \ {x})
                                 = w[y] + SumOver(w, (s \ {x}) \ {y})
          OBVIOUS
        <5>1. Cardinality(s \ {x}) \in Good
          <6> HIDE DEF Good
          <6> QED BY <1>1, <4>2
        <5> QED BY <4>2, <5>1
      <4>4. w[p] \in Int
        BY <2>1, <4>1
      <4>5. ASSUME NEW x \in s
            PROVE  SumOver(w, s) = w[x] + SumOver(w, s \ {x})
        <5>1. CASE x = p
          BY <4>1, <5>1
        <5>2. CASE x # p
          <6>1. (s \ {x}) \ {p} = (s \ {p}) \ {x}
            OBVIOUS
          <6>2. SumOver(w, s \ {x}) = w[p] + SumOver(w, (s \ {p}) \ {x})
            BY <4>1, <4>3, <5>2, <6>1
          <6>3. SumOver(w, s \ {p}) = w[x] + SumOver(w, (s \ {p}) \ {x})
            BY <4>1, <4>3, <5>2
          <6>4. w[x] \in Int /\ SumOver(w, (s \ {p}) \ {x}) \in Int
            <7> DEFINE t == (s \ {p}) \ {x}
            <7>1. IsFiniteSet(t) /\ t \in SUBSET S
              BY <3>1, FS_Subset
            <7>2. Cardinality(t) \in Nat /\ Cardinality(t) < n
              <8>1. Cardinality(t) = Cardinality(s \ {p}) - 1 /\ IsFiniteSet(s \ {p})
                BY <3>1, <4>1, <5>2, FS_RemoveElement
              <8>2. Cardinality(t) \in Nat
                BY <7>1, FS_CardinalityType
              <8> QED BY <4>1, <4>2, <8>1, <8>2
            <7>3. Cardinality(t) \in Good
              <8> HIDE DEF Good, t
              <8> QED BY <1>1, <7>2
            <7>4. w[x] \in Int
              BY <2>1
            <7> HIDE DEF t
            <7>5. SumOver(w, t) \in Int
              BY <7>1, <7>3
            <7> QED BY <7>4, <7>5 DEF t
          <6> QED BY <4>1, <4>4, <6>2, <6>3, <6>4
        <5> QED BY <5>1, <5>2
      <4>6. SumOver(w, s) \in Int
        BY <4>1, <4>3, <4>4
      <4> QED BY <4>5, <4>6
    <3> QED BY <3>2, <3>3
  <2> QED BY <2>1
<1>2. Nat \subseteq Good
  <2> HIDE DEF Good
  <2> QED BY <1>1, NoLeastCounterexample
<1>3. Cardinality(S) \in Nat
  BY FS_CardinalityType
<1> QED BY <1>2, <1>3

\* A sum of naturals is a natural number, and no part of it is greater.
LEMMA SumNatural ==
  ASSUME NEW w, NEW S, IsFiniteSet(S), \A x \in S : w[x] \in Nat
  PROVE  /\ SumOver(w, S) \in Nat
         /\ \A T \in SUBSET S : SumOver(w, T) <= SumOver(w, S)
         /\ \A x \in S : w[x] <= SumOver(w, S)
<1> DEFINE Good == {n \in Nat : \A s \in SUBSET S : Cardinality(s) = n =>
                      /\ SumOver(w, s) \in Nat
                      /\ \A T \in SUBSET s : SumOver(w, T) <= SumOver(w, s)}
<1>1. ASSUME NEW n \in Nat, \A m \in Nat : m < n => m \in Good
      PROVE  n \in Good
  <2>1. ASSUME NEW s \in SUBSET S, Cardinality(s) = n
        PROVE  /\ SumOver(w, s) \in Nat
               /\ \A T \in SUBSET s : SumOver(w, T) <= SumOver(w, s)
    <3>1. IsFiniteSet(s) /\ \A x \in s : w[x] \in Nat
      BY FS_Subset
    <3>2. \A x \in s :
            /\ SumOver(w, s) = w[x] + SumOver(w, s \ {x})
            /\ SumOver(w, s \ {x}) \in Nat
            /\ \A T \in SUBSET (s \ {x}) : SumOver(w, T) <= SumOver(w, s \ {x})
      <4> SUFFICES ASSUME NEW x \in s
                   PROVE  /\ SumOver(w, s) = w[x] + SumOver(w, s \ {x})
                          /\ SumOver(w, s \ {x}) \in Nat
                          /\ \A T \in SUBSET (s \ {x}) :
                               SumOver(w, T) <= SumOver(w, s \ {x})
        OBVIOUS
      <4> DEFINE t == s \ {x}
      <4>1. SumOver(w, s) = w[x] + SumOver(w, t)
        BY <3>1, SumRemove
      <4>2. IsFiniteSet(t) /\ Cardinality(t) = n - 1 /\ t \in SUBSET S
        BY <2>1, <3>1, FS_RemoveElement
      <4>3. Cardinality(t) \in Nat /\ Cardinality(t) < n
        BY <4>2, FS_CardinalityType
      <4>4. Cardinality(t) \in Good
        <5> HIDE DEF Good, t
        <5> QED BY <1>1, <4>3
      <4> HIDE DEF t
      <4>5. /\ SumOver(w, t) \in Nat
            /\ \A T \in SUBSET t : SumOver(w, T) <= SumOver(w, t)
        BY <4>2, <4>4
      <4> QED BY <4>1, <4>5 DEF t
    <3>3. s = {} => SumOver(w, s) = 0
      BY <3>1, SumUnfolds
    <3>4. SumOver(w, s) \in Nat
      <4>1. CASE s # {}
        <5>1. PICK x \in s : TRUE
          BY <4>1
        <5>2. /\ SumOver(w, s) = w[x] + SumOver(w, s \ {x})
              /\ SumOver(w, s \ {x}) \in Nat /\ w[x] \in Nat
          BY <3>1, <3>2, <5>1
        <5> QED BY <5>2
      <4> QED BY <3>3, <4>1
    <3>5. ASSUME NEW T \in SUBSET s PROVE SumOver(w, T) <= SumOver(w, s)
      <4>1. CASE T = s
        BY <3>4, <4>1
      <4>2. CASE T # s
        <5>1. PICK x \in s : x \notin T
          BY <4>2
        <5>2. SumOver(w, T) <= SumOver(w, s \ {x})
          BY <3>2, <5>1
        <5>3. SumOver(w, T) \in Int
          <6>1. IsFiniteSet(T) /\ \A y \in T : w[y] \in Int
            BY <3>1, FS_Subset
          <6> QED BY <6>1, SumRemove
        <5>4. /\ SumOver(w, s) = w[x] + SumOver(w, s \ {x})
              /\ SumOver(w, s \ {x}) \in Nat /\ w[x] \in Nat
          BY <3>1, <3>2
        <5> QED BY <5>2, <5>3, <5>4
      <4> QED BY <4>1, <4>2
    <3> QED BY <3>4, <3>5
  <2> QED BY <2>1
<1>2. Nat \subseteq Good
  <2> HIDE DEF Good
  <2> QED BY <1>1, NoLeastCounterexample
<1>3. Cardinality(S) \in Nat
  BY FS_CardinalityType
<1>4. /\ SumOver(w, S) \in Nat
      /\ \A T \in SUBSET S : SumOver(w, T) <= SumOver(w, S)
  BY <1>2, <1>3
<1>5. ASSUME NEW x \in S PROVE w[x] <= SumOver(w, S)
  <2>1. SumOver(w, S) = w[x] + SumOver(w, S \ {x}) /\ w[x] \in Nat
    BY SumRemove
  <2>2. SumOver(w, S \ {x}) \in Nat
    <3>1. S \ {x} \in SUBSET S
      OBVIOUS
    <3>2. Cardinality(S \ {x}) \in Nat
      BY FS_Subset, FS_CardinalityType
    <3> QED BY <1>2, <3>1, <3>2
  <2> QED BY <2>1, <2>2
<1> QED BY <1>4, <1>5

\* One element more adds its weight.
LEMMA SumAdd ==
  ASSUME NEW w, NEW S, IsFiniteSet(S), \A y \in S : w[y] \in Int,
         NEW x, x \notin S, w[x] \in Int
  PROVE  SumOver(w, S \cup {x}) = w[x] + SumOver(w, S)
<1> DEFINE T == S \cup {x}
<1>1. IsFiniteSet(T)
  BY FS_AddElement
<1>2. T \ {x} = S /\ x \in T /\ \A y \in T : w[y] \in Int
  OBVIOUS
<1> HIDE DEF T
<1>3. SumOver(w, T) = w[x] + SumOver(w, T \ {x})
  BY <1>1, <1>2, SumRemove
<1> QED BY <1>2, <1>3 DEF T

\* One weight more or less moves the sum by as much.
LEMMA SumChange ==
  ASSUME NEW w, NEW v, NEW S, IsFiniteSet(S), NEW x \in S,
         \A y \in S : w[y] \in Int /\ v[y] \in Int,
         \A y \in S : y # x => v[y] = w[y]
  PROVE  SumOver(v, S) = SumOver(w, S) + (v[x] - w[x])
<1>1. /\ SumOver(w, S) = w[x] + SumOver(w, S \ {x})
      /\ SumOver(v, S) = v[x] + SumOver(v, S \ {x})
  BY SumRemove
<1>2. IsFiniteSet(S \ {x}) /\ SumOver(w, S \ {x}) \in Int
  <2>1. IsFiniteSet(S \ {x})
    BY FS_Subset
  <2> QED BY <2>1, SumRemove
<1>3. SumOver(v, S \ {x}) = SumOver(w, S \ {x})
  BY <1>2, SumEqual
<1> QED BY <1>1, <1>2, <1>3

\* A sum splits into the sums of two disjoint parts.
LEMMA SumSplit ==
  ASSUME NEW w, NEW S, IsFiniteSet(S), \A x \in S : w[x] \in Int, NEW A \in SUBSET S
  PROVE  SumOver(w, S) = SumOver(w, A) + SumOver(w, S \ A)
<1> DEFINE Good == {n \in Nat : \A s \in SUBSET A : Cardinality(s) = n =>
                      SumOver(w, S) = SumOver(w, s) + SumOver(w, S \ s)}
<1>1. \A s \in SUBSET S :
        /\ IsFiniteSet(s) /\ Cardinality(s) \in Nat
        /\ SumOver(w, s) \in Int
        /\ \A x \in s : SumOver(w, s) = w[x] + SumOver(w, s \ {x})
  <2> SUFFICES ASSUME NEW s \in SUBSET S
               PROVE  /\ IsFiniteSet(s) /\ Cardinality(s) \in Nat
                      /\ SumOver(w, s) \in Int
                      /\ \A x \in s : SumOver(w, s) = w[x] + SumOver(w, s \ {x})
    OBVIOUS
  <2>1. IsFiniteSet(s) /\ \A x \in s : w[x] \in Int
    BY FS_Subset
  <2> QED BY <2>1, SumRemove, FS_CardinalityType
<1>2. ASSUME NEW n \in Nat, \A m \in Nat : m < n => m \in Good
      PROVE  n \in Good
  <2>1. ASSUME NEW s \in SUBSET A, Cardinality(s) = n
        PROVE  SumOver(w, S) = SumOver(w, s) + SumOver(w, S \ s)
    <3>1. CASE s = {}
      <4>1. SumOver(w, s) = 0
        BY <1>1, <3>1, SumUnfolds
      <4>2. S \ s = S /\ SumOver(w, S) \in Int
        BY <1>1, <3>1
      <4> QED BY <4>1, <4>2
    <3>2. CASE s # {}
      <4>1. PICK x \in s : TRUE
        BY <3>2
      <4> DEFINE t == s \ {x}
      <4>2. /\ t \in SUBSET A /\ s \in SUBSET S /\ t \in SUBSET S
            /\ x \in S \ t /\ x \in s
            /\ (S \ t) \ {x} = S \ s
        BY <4>1
      <4>3. Cardinality(t) \in Nat /\ Cardinality(t) < n
        <5>1. Cardinality(t) = Cardinality(s) - 1
          BY <1>1, <4>2, FS_RemoveElement
        <5> QED BY <1>1, <2>1, <4>2, <5>1
      <4>4. Cardinality(t) \in Good
        <5> HIDE DEF Good, t
        <5> QED BY <1>2, <4>3
      <4>5. SumOver(w, s) = w[x] + SumOver(w, t)
        BY <1>1, <4>2
      <4> HIDE DEF t
      <4>6. SumOver(w, S) = SumOver(w, t) + SumOver(w, S \ t)
        BY <4>2, <4>4
      <4>7. SumOver(w, S \ t) = w[x] + SumOver(w, S \ s)
        BY <1>1, <4>2
      <4>8. /\ w[x] \in Int /\ SumOver(w, t) \in Int
            /\ SumOver(w, S \ s) \in Int
        BY <1>1, <4>2
      <4> QED BY <4>5, <4>6, <4>7, <4>8
    <3> QED BY <3>1, <3>2
  <2> QED BY <2>1
<1>3. Nat \subseteq Good
  <2> HIDE DEF Good
  <2> QED BY <1>2, NoLeastCounterexample
<1>4. Cardinality(A) \in Nat
  BY <1>1
<1> QED BY <1>3, <1>4

\* All that the sets A[x] hold.
UnionOf(A, S) == UNION {A[x] : x \in S}

\* The sum of the cardinalities of disjoint sets is the cardinality of their union.
LEMMA SumOfCardinalities ==
  ASSUME NEW S, IsFiniteSet(S), NEW A, NEW w,
         \A x \in S : IsFiniteSet(A[x]) /\ w[x] = Cardinality(A[x]),
         \A x, y \in S : x # y => A[x] \cap A[y] = {}
  PROVE  SumOver(w, S) = Cardinality(UnionOf(A, S))
<1> DEFINE U(s) == UNION {A[x] : x \in s}
           Good == {n \in Nat : \A s \in SUBSET S : Cardinality(s) = n =>
                      IsFiniteSet(U(s)) /\ SumOver(w, s) = Cardinality(U(s))}
<1>1. ASSUME NEW n \in Nat, \A m \in Nat : m < n => m \in Good
      PROVE  n \in Good
  <2>1. ASSUME NEW s \in SUBSET S, Cardinality(s) = n
        PROVE  IsFiniteSet(U(s)) /\ SumOver(w, s) = Cardinality(U(s))
    <3>1. IsFiniteSet(s) /\ \A x \in s : w[x] \in Int
      BY FS_Subset, FS_CardinalityType
    <3>2. CASE s = {}
      <4>1. U(s) = {}
        BY <3>2
      <4> HIDE DEF U
      <4> QED BY <3>1, <3>2, <4>1, SumUnfolds, FS_EmptySet
    <3>3. CASE s # {}
      <4>1. PICK x \in s : TRUE
        BY <3>3
      <4>2. PICK t : t = s \ {x}
        OBVIOUS
      <4>3. IsFiniteSet(t) /\ Cardinality(t) = n - 1 /\ t \in SUBSET S
        BY <2>1, <3>1, <4>1, <4>2, FS_RemoveElement
      <4>4. Cardinality(t) \in Nat /\ Cardinality(t) < n
        BY <4>3, FS_CardinalityType
      <4>5. Cardinality(t) \in Good
        <5> HIDE DEF Good
        <5> QED BY <1>1, <4>4
      <4>6. IsFiniteSet(U(t)) /\ SumOver(w, t) = Cardinality(U(t))
        <5> HIDE DEF U
        <5> QED BY <4>3, <4>5
      <4>7. SumOver(w, s) = w[x] + SumOver(w, t)
        BY <3>1, <4>1, <4>2, SumRemove
      <4>8. U(s) = A[x] \cup U(t)
        BY <4>1, <4>2
      <4>9. A[x] \cap U(t) = {}
        BY <2>1, <4>1, <4>2
      <4> HIDE DEF U
      <4>10. IsFiniteSet(A[x]) /\ w[x] = Cardinality(A[x])
        BY <2>1, <4>1
      <4>11. /\ IsFiniteSet(U(s))
             /\ Cardinality(U(s)) = Cardinality(A[x]) + Cardinality(U(t))
                                      - Cardinality(A[x] \cap U(t))
        BY <4>6, <4>8, <4>10, FS_Union
      <4>12. Cardinality(A[x] \cap U(t)) = 0
        BY <4>9, FS_EmptySet
      <4>13. Cardinality(A[x]) \in Nat /\ Cardinality(U(t)) \in Nat
        BY <4>6, <4>10, FS_CardinalityType
      <4> QED BY <4>6, <4>7, <4>10, <4>11, <4>12, <4>13
    <3> QED BY <3>2, <3>3
  <2> HIDE DEF U
  <2> QED BY <2>1
<1>2. Nat \subseteq Good
  <2> HIDE DEF Good
  <2> QED BY <1>1, NoLeastCounterexample
<1>3. Cardinality(S) \in Nat
  BY FS_CardinalityType
<1>4. IsFiniteSet(U(S)) /\ SumOver(w, S) = Cardinality(U(S))
  <2> HIDE DEF U
  <2> QED BY <1>2, <1>3
<1> QED BY <1>4 DEF UnionOf

\* A sum of zeros is zero.
LEMMA SumOfZeros ==
  ASSUME NEW w, NEW S, IsFiniteSet(S), \A x \in S : w[x] = 0
  PROVE  SumOver(w, S) = 0
<1>1. PICK A : A = [x \in S |-> {}]
  OBVIOUS
<1>2. \A x \in S : A[x] = {} /\ IsFiniteSet(A[x]) /\ w[x] = Cardinality(A[x])
  BY <1>1, FS_EmptySet
<1>3. SumOver(w, S) = Cardinality(UnionOf(A, S))
  BY <1>2, SumOfCardinalities
<1>4. UnionOf(A, S) = {}
  BY <1>2 DEF UnionOf
<1> QED BY <1>3, <1>4, FS_EmptySet

\* A sum defined with another expression of the same weights is this one.
LEMMA SumIs ==
  ASSUME NEW w, NEW S, IsFiniteSet(S), NEW f, f = SumStep(w, S, f)
  PROVE  SumOver(w, S) = f[S]
<1> DEFINE g == CHOOSE h : h = SumStep(w, S, h)
<1>1. g = SumStep(w, S, g)
  <2>1. \E h : h = SumStep(w, S, h)
    BY SumExists
  <2> QED BY <2>1
<1>2. SumOver(w, S) = g[S]
  BY SumDef
<1> HIDE DEF g
<1>3. \A s \in SUBSET S : s \subseteq S => g[s] = f[s]
  BY <1>1, SumAgree
<1>4. g[S] = f[S]
  BY <1>3
<1> QED BY <1>2, <1>4

-----------------------------------------------------------------------------
(* Loops *)

\* The states of a loop of n rounds, written as a recursive function of the round.
LoopStep(n, start, step, f) ==
  [k \in 0 .. n |-> IF k = 0 THEN start ELSE step[f[k - 1]]]

\* Such a loop has the states that its step leads to.
LEMMA LoopExists ==
  ASSUME NEW n \in Nat, NEW D, NEW start \in D, NEW step \in [D -> D]
  PROVE  \E f : f \in [0 .. n -> D] /\ f = LoopStep(n, start, step, f)
<1> DEFINE Runs(f, m) ==
             /\ f \in [0 .. m -> D]
             /\ f = [k \in 0 .. m |-> IF k = 0 THEN start ELSE step[f[k - 1]]]
           Good == {m \in Nat : \E f : Runs(f, m)}
<1>1. ASSUME NEW m \in Nat, \A k \in Nat : k < m => k \in Good
      PROVE  m \in Good
  <2>1. CASE m = 0
    <3> DEFINE f == [k \in 0 .. 0 |-> start]
    <3>1. Runs(f, 0)
      OBVIOUS
    <3> QED BY <2>1, <3>1
  <2>2. CASE m # 0
    <3>1. m - 1 \in Nat /\ m - 1 < m
      BY <2>2
    <3>2. m - 1 \in Good
      <4> HIDE DEF Good
      <4> QED BY <1>1, <3>1
    <3>3. PICK g : Runs(g, m - 1)
      BY <3>2
    <3> DEFINE f == [k \in 0 .. m |-> IF k = 0 THEN start ELSE step[g[k - 1]]]
    <3>4. \A k \in 0 .. m - 1 : g[k] \in D /\ f[k] = g[k]
      BY <3>1, <3>3
    <3>5. \A k \in 0 .. m : k # 0 => k - 1 \in 0 .. m - 1
      OBVIOUS
    <3>6. f \in [0 .. m -> D]
      <4>1. \A k \in 0 .. m : (IF k = 0 THEN start ELSE step[g[k - 1]]) \in D
        BY <3>4, <3>5
      <4> QED BY <4>1
    <3>7. f = [k \in 0 .. m |-> IF k = 0 THEN start ELSE step[f[k - 1]]]
      <4>1. \A k \in 0 .. m : (IF k = 0 THEN start ELSE step[g[k - 1]])
                                = IF k = 0 THEN start ELSE step[f[k - 1]]
        <5> HIDE DEF f
        <5> QED BY <3>4, <3>5
      <4> QED BY <4>1
    <3> HIDE DEF f
    <3>8. Runs(f, m)
      BY <3>6, <3>7
    <3> QED BY <3>8
  <2> QED BY <2>1, <2>2
<1>2. Nat \subseteq Good
  <2> HIDE DEF Good
  <2> QED BY <1>1, NoLeastCounterexample
<1> QED BY <1>2 DEF LoopStep

\* Whatever holds at the start of a loop and is kept by its rounds holds in every
\* round.
LEMMA LoopStays ==
  ASSUME NEW n \in Nat, NEW D, NEW f, f[0] \in D,
         \A k \in 1 .. n : f[k - 1] \in D => f[k] \in D
  PROVE  \A k \in 0 .. n : f[k] \in D
<1> DEFINE Good == {m \in Nat : m <= n => f[m] \in D}
<1>1. ASSUME NEW m \in Nat, \A k \in Nat : k < m => k \in Good
      PROVE  m \in Good
  <2>1. CASE m # 0 /\ m <= n
    <3>1. m - 1 \in Nat /\ m - 1 < m /\ m \in 1 .. n
      BY <2>1
    <3>2. m - 1 \in Good
      <4> HIDE DEF Good
      <4> QED BY <1>1, <3>1
    <3> QED BY <3>1, <3>2
  <2> QED BY <2>1
<1>2. Nat \subseteq Good
  <2> HIDE DEF Good
  <2> QED BY <1>1, NoLeastCounterexample
<1> QED BY <1>2

-----------------------------------------------------------------------------
(* Selections *)

\* F holds the selection of every prefix: the values of the chosen positions.
SelectStep(n, chosen, value, F) ==
  [i \in 0 .. n |-> IF i = 0 THEN <<>>
                    ELSE IF i \in chosen THEN Append(F[i - 1], value[i])
                    ELSE F[i - 1]]

\* The values at the chosen positions up to n, in the order of the positions.
Selected(n, chosen, value) ==
  (CHOOSE F : F = SelectStep(n, chosen, value, F))[n]

\* There is such a function, and it holds sequences of the values.
LEMMA SelectionExists ==
  ASSUME NEW n \in Nat, NEW chosen, NEW value, NEW V,
         \A i \in (1 .. n) \cap chosen : value[i] \in V
  PROVE  \E F \in [0 .. n -> Seq(V)] : F = SelectStep(n, chosen, value, F)
<1> DEFINE Selects(F, m) ==
             F \in [0 .. m -> Seq(V)] /\ F = SelectStep(m, chosen, value, F)
           Good == {m \in Nat : m <= n => \E F : Selects(F, m)}
<1>1. ASSUME NEW m \in Nat, \A k \in Nat : k < m => k \in Good
      PROVE  m \in Good
  <2>1. CASE m = 0
    <3> DEFINE F == [i \in 0 .. 0 |-> <<>>]
    <3>1. \A i \in 0 .. 0 : i = 0
      OBVIOUS
    <3>2. F \in [0 .. 0 -> Seq(V)]
      OBVIOUS
    <3>3. F = SelectStep(0, chosen, value, F)
      BY <3>1 DEF SelectStep
    <3> HIDE DEF F
    <3> QED BY <2>1, <3>2, <3>3
  <2>2. CASE m # 0 /\ m <= n
    <3>1. m - 1 \in Nat /\ m - 1 < m /\ m - 1 <= n
      BY <2>2
    <3>2. m - 1 \in Good
      <4> HIDE DEF Good
      <4> QED BY <1>1, <3>1
    <3>3. PICK G : Selects(G, m - 1)
      BY <3>1, <3>2
    <3> DEFINE Next(i, H) == IF i = 0 THEN <<>>
                             ELSE IF i \in chosen THEN Append(H[i - 1], value[i])
                             ELSE H[i - 1]
               F == [i \in 0 .. m |-> Next(i, G)]
    <3>4. \A i \in 0 .. m : i # 0 => i - 1 \in 0 .. m - 1 /\ i \in 1 .. n
      BY <2>2
    <3>5. \A i \in 0 .. m - 1 : i \in 0 .. m /\ F[i] = G[i] /\ G[i] \in Seq(V)
      <4>1. G \in [0 .. m - 1 -> Seq(V)] /\ G = [i \in 0 .. m - 1 |-> Next(i, G)]
        BY <3>3 DEF SelectStep
      <4>2. \A i \in 0 .. m - 1 : i \in 0 .. m
        OBVIOUS
      <4> HIDE DEF Next
      <4> QED BY <4>1, <4>2
    <3>6. \A i \in 0 .. m : Next(i, G) = Next(i, F) /\ Next(i, G) \in Seq(V)
      <4> SUFFICES ASSUME NEW i \in 0 .. m
                   PROVE  Next(i, G) = Next(i, F) /\ Next(i, G) \in Seq(V)
        OBVIOUS
      <4> HIDE DEF F
      <4>1. CASE i = 0
        BY <4>1
      <4>2. CASE i # 0
        <5>1. F[i - 1] = G[i - 1] /\ G[i - 1] \in Seq(V)
          BY <3>4, <3>5, <4>2
        <5>2. i \in chosen => value[i] \in V
          BY <3>4, <4>2
        <5> QED BY <4>2, <5>1, <5>2
      <4> QED BY <4>1, <4>2
    <3>7. F \in [0 .. m -> Seq(V)]
      <4> HIDE DEF Next
      <4> QED BY <3>6
    <3>8. F = [i \in 0 .. m |-> Next(i, F)]
      <4>1. F = [i \in 0 .. m |-> Next(i, G)]
        OBVIOUS
      <4> HIDE DEF F, Next
      <4> QED BY <3>6, <4>1
    <3>9. F = SelectStep(m, chosen, value, F)
      <4> HIDE DEF F
      <4> QED BY <3>8 DEF SelectStep
    <3> HIDE DEF F
    <3> QED BY <3>7, <3>9
  <2> QED BY <2>1, <2>2
<1>2. Nat \subseteq Good
  <2> HIDE DEF Good
  <2> QED BY <1>1, NoLeastCounterexample
<1>3. PICK F : Selects(F, n)
  BY <1>2
<1> QED BY <1>3

\* The positions chosen up to k are the same, and so are the values there.
AgreeUpTo(k, chosen, value, other, worth) ==
  \A i \in 1 .. k : /\ i \in chosen <=> i \in other
                    /\ i \in chosen => value[i] = worth[i]

\* Two such functions agree as far as their positions and values do.
LEMMA SelectionsAgree ==
  ASSUME NEW n \in Nat, NEW m \in Nat, NEW chosen, NEW other, NEW value, NEW worth,
         NEW k \in Nat, k <= n, k <= m,
         AgreeUpTo(k, chosen, value, other, worth),
         NEW F, F = SelectStep(n, chosen, value, F),
         NEW G, G = SelectStep(m, other, worth, G)
  PROVE  F[k] = G[k]
<1> DEFINE Good == {i \in Nat : i <= k => F[i] = G[i]}
<1>1. ASSUME NEW i \in Nat, \A j \in Nat : j < i => j \in Good
      PROVE  i \in Good
  <2>1. CASE i = 0
    <3>1. F[0] = <<>> /\ G[0] = <<>>
      BY DEF SelectStep
    <3> QED BY <2>1, <3>1
  <2>2. CASE i # 0 /\ i <= k
    <3>1. i - 1 \in Nat /\ i - 1 < i /\ i - 1 <= k /\ i \in 1 .. k
      BY <2>2
    <3>2. i - 1 \in Good
      <4> HIDE DEF Good
      <4> QED BY <1>1, <3>1
    <3>3. /\ F[i] = IF i \in chosen THEN Append(F[i - 1], value[i]) ELSE F[i - 1]
          /\ G[i] = IF i \in other THEN Append(G[i - 1], worth[i]) ELSE G[i - 1]
      <4>1. i \in 0 .. n /\ i \in 0 .. m
        BY <2>2
      <4> QED BY <2>2, <4>1 DEF SelectStep
    <3>4. F[i - 1] = G[i - 1]
      BY <3>1, <3>2
    <3>5. F[i] = G[i]
      <4> HIDE DEF Good
      <4> QED BY <3>1, <3>3, <3>4 DEF AgreeUpTo
    <3> QED BY <3>5
  <2> QED BY <2>1, <2>2
<1>2. Nat \subseteq Good
  <2> HIDE DEF Good
  <2> QED BY <1>1, NoLeastCounterexample
<1> QED BY <1>2

\* The function of a selection holds it, whatever expression defines it.
LEMMA SelectedIs ==
  ASSUME NEW n \in Nat, NEW chosen, NEW value,
         NEW F, F = SelectStep(n, chosen, value, F)
  PROVE  Selected(n, chosen, value) = F[n]
<1> DEFINE G == CHOOSE H : H = SelectStep(n, chosen, value, H)
<1>1. G = SelectStep(n, chosen, value, G)
  OBVIOUS
<1>2. Selected(n, chosen, value) = G[n]
  BY DEF Selected
<1> HIDE DEF G
<1>3. G[n] = F[n]
  <2>1. AgreeUpTo(n, chosen, value, chosen, value) /\ n <= n
    BY DEF AgreeUpTo
  <2> QED BY <1>1, <2>1, SelectionsAgree
<1> QED BY <1>2, <1>3

\* The values at the positions chosen up to k are in V.
ValuesIn(k, chosen, value, V) == \A i \in (1 .. k) \cap chosen : value[i] \in V

\* What a selection of no position, of one position more, and of positions that
\* agree is.
LEMMA SelectedFacts ==
  ASSUME NEW n \in Nat, NEW chosen, NEW value, NEW V, ValuesIn(n, chosen, value, V)
  PROVE  /\ Selected(n, chosen, value) \in Seq(V)
         /\ n = 0 => Selected(n, chosen, value) = <<>>
         /\ n # 0 => Selected(n, chosen, value) =
              IF n \in chosen THEN Append(Selected(n - 1, chosen, value), value[n])
              ELSE Selected(n - 1, chosen, value)
         /\ \A other, worth : AgreeUpTo(n, chosen, value, other, worth)
              => Selected(n, other, worth) = Selected(n, chosen, value)
<1>1. PICK F : /\ F \in [0 .. n -> Seq(V)]
               /\ F = SelectStep(n, chosen, value, F)
  BY SelectionExists DEF ValuesIn
<1>2. Selected(n, chosen, value) = F[n]
  BY <1>1, SelectedIs
<1>3. Selected(n, chosen, value) \in Seq(V)
  BY <1>1, <1>2
<1>4. n = 0 => Selected(n, chosen, value) = <<>>
  BY <1>1, <1>2 DEF SelectStep
<1>5. ASSUME n # 0
      PROVE  Selected(n, chosen, value) =
               IF n \in chosen THEN Append(Selected(n - 1, chosen, value), value[n])
               ELSE Selected(n - 1, chosen, value)
  <2>1. n - 1 \in Nat /\ n - 1 <= n
    BY <1>5
  <2>2. \A i \in (1 .. n - 1) \cap chosen : value[i] \in V
    BY DEF ValuesIn
  <2>3. PICK G : G = SelectStep(n - 1, chosen, value, G)
    BY <2>1, <2>2, SelectionExists
  <2>4. Selected(n - 1, chosen, value) = G[n - 1]
    BY <2>1, <2>3, SelectedIs
  <2>5. F[n - 1] = G[n - 1]
    <3>1. F = SelectStep(n, chosen, value, F) /\ n - 1 <= n - 1
      BY <1>1, <2>1
    <3>2. /\ AgreeUpTo(n - 1, chosen, value, chosen, value)
          /\ G = SelectStep(n - 1, chosen, value, G)
      BY <2>3 DEF AgreeUpTo
    <3> QED BY <2>1, <3>1, <3>2, SelectionsAgree
  <2>6. F[n] = IF n \in chosen THEN Append(F[n - 1], value[n]) ELSE F[n - 1]
    <3>1. n \in 0 .. n
      OBVIOUS
    <3>2. F = SelectStep(n, chosen, value, F)
      BY <1>1
    <3>3. SelectStep(n, chosen, value, F)[n]
            = IF n \in chosen THEN Append(F[n - 1], value[n]) ELSE F[n - 1]
      BY <1>5, <3>1 DEF SelectStep
    <3> QED BY <3>2, <3>3
  <2> QED BY <1>2, <2>4, <2>5, <2>6
<1>6. ASSUME NEW other, NEW worth, AgreeUpTo(n, chosen, value, other, worth)
      PROVE  Selected(n, other, worth) = Selected(n, chosen, value)
  <2>1. \A i \in (1 .. n) \cap other : worth[i] \in V
    BY <1>6 DEF AgreeUpTo, ValuesIn
  <2>2. PICK G : G = SelectStep(n, other, worth, G)
    BY <2>1, SelectionExists
  <2>3. Selected(n, other, worth) = G[n]
    BY <2>2, SelectedIs
  <2>4. F[n] = G[n]
    <3>1. n <= n /\ F = SelectStep(n, chosen, value, F)
                 /\ G = SelectStep(n, other, worth, G)
      BY <1>1, <2>2
    <3> QED BY <1>6, <3>1, SelectionsAgree
  <2> QED BY <1>2, <2>3, <2>4
<1> QED BY <1>3, <1>4, <1>5, <1>6

\* One position more appends its value, if it is chosen.
LEMMA SelectedGrows ==
  ASSUME NEW n \in Nat, NEW chosen, NEW value, NEW other, NEW worth, NEW V,
         ValuesIn(n, chosen, value, V), ValuesIn(n + 1, other, worth, V),
         AgreeUpTo(n, chosen, value, other, worth)
  PROVE  Selected(n + 1, other, worth) =
           IF n + 1 \in other THEN Append(Selected(n, chosen, value), worth[n + 1])
           ELSE Selected(n, chosen, value)
<1>1. ASSUME NEW m \in Nat, m # 0, ValuesIn(m, other, worth, V)
      PROVE  Selected(m, other, worth) =
               IF m \in other THEN Append(Selected(m - 1, other, worth), worth[m])
               ELSE Selected(m - 1, other, worth)
  BY <1>1, SelectedFacts
<1>2. PICK m : m = n + 1 /\ m \in Nat /\ m # 0 /\ m - 1 = n
  OBVIOUS
<1>3. ValuesIn(m, other, worth, V)
  BY <1>2
<1>4. Selected(n, other, worth) = Selected(n, chosen, value)
  BY SelectedFacts
<1> QED BY <1>1, <1>2, <1>3, <1>4

-----------------------------------------------------------------------------
(* Sequences of sequences *)

\* What is in a concatenation is in one of its parts.
LEMMA ConcatHolds ==
  ASSUME NEW V, NEW a \in Seq(V), NEW b \in Seq(V)
  PROVE  a \o b \in Seq(V) /\ ToSet(a \o b) = ToSet(a) \cup ToSet(b)
<1>1. PICK t : t = a \o b
  OBVIOUS
<1>2. /\ t \in Seq(V) /\ Len(t) = Len(a) + Len(b)
      /\ \A i \in 1 .. Len(t) :
           t[i] = IF i <= Len(a) THEN a[i] ELSE b[i - Len(a)]
  BY <1>1
<1>3. DOMAIN t = 1 .. Len(t) /\ DOMAIN a = 1 .. Len(a) /\ DOMAIN b = 1 .. Len(b)
  BY <1>2
<1>4. Len(a) \in Nat /\ Len(b) \in Nat
  OBVIOUS
<1>5. ASSUME NEW x \in ToSet(t)
      PROVE  x \in ToSet(a) \cup ToSet(b)
  <2>1. PICK i \in 1 .. Len(t) : x = t[i]
    BY <1>3, <1>5 DEF ToSet
  <2>2. CASE i <= Len(a)
    <3>1. i \in 1 .. Len(a) /\ x = a[i]
      BY <1>2, <1>4, <2>1, <2>2
    <3> QED BY <1>3, <3>1 DEF ToSet
  <2>3. CASE ~ i <= Len(a)
    <3>1. PICK j \in 1 .. Len(b) : x = b[j]
      BY <1>2, <1>4, <2>1, <2>3
    <3> QED BY <1>3, <3>1 DEF ToSet
  <2> QED BY <2>2, <2>3
<1>6. ASSUME NEW x \in ToSet(a)
      PROVE  x \in ToSet(t)
  <2>1. PICK i \in 1 .. Len(a) : x = a[i]
    BY <1>3, <1>6 DEF ToSet
  <2>2. i \in 1 .. Len(t) /\ t[i] = a[i]
    BY <1>2, <1>4
  <2> QED BY <1>3, <2>1, <2>2 DEF ToSet
<1>7. ASSUME NEW x \in ToSet(b)
      PROVE  x \in ToSet(t)
  <2>1. PICK i \in 1 .. Len(b) : x = b[i]
    BY <1>3, <1>7 DEF ToSet
  <2>2. PICK k \in 1 .. Len(t) : k = Len(a) + i
    BY <1>2, <1>4
  <2>3. t[k] = b[i]
    BY <1>2, <1>4, <2>2
  <2> QED BY <1>3, <2>1, <2>3 DEF ToSet
<1> QED BY <1>1, <1>2, <1>5, <1>6, <1>7

\* f holds the concatenations of the first sequences of s.
FlatStep(s, n, f) == [i \in 1 .. n |-> IF i = 1 THEN s[i] ELSE f[i - 1] \o s[i]]

\* There is such a function.
LEMMA FlatExists ==
  ASSUME NEW V, NEW s \in Seq(Seq(V))
  PROVE  \E f : f = FlatStep(s, Len(s), f)
<1> DEFINE Good == {n \in Nat : n <= Len(s) =>
                      \E f \in [1 .. n -> Seq(V)] : f = FlatStep(s, n, f)}
<1>1. ASSUME NEW n \in Nat, \A m \in Nat : m < n => m \in Good
      PROVE  n \in Good
  <2> SUFFICES ASSUME n <= Len(s)
               PROVE  \E f \in [1 .. n -> Seq(V)] : f = FlatStep(s, n, f)
    OBVIOUS
  <2>0. \A i \in 1 .. n : s[i] \in Seq(V)
    OBVIOUS
  <2>1. CASE n = 0
    <3>1. 1 .. n = {}
      BY <2>1
    <3>2. PICK f : f = FlatStep(s, n, <<>>)
      OBVIOUS
    <3>3. f = [i \in {} |-> <<>>] /\ FlatStep(s, n, f) = [i \in {} |-> <<>>]
      BY <3>1, <3>2 DEF FlatStep
    <3>4. f \in [1 .. n -> Seq(V)]
      BY <3>1, <3>3
    <3> QED BY <3>3, <3>4
  <2>2. CASE n # 0
    <3>1. PICK g \in [1 .. n - 1 -> Seq(V)] : g = FlatStep(s, n - 1, g)
      <4>1. n - 1 \in Nat /\ n - 1 < n /\ n - 1 <= Len(s)
        BY <2>2
      <4>2. n - 1 \in Good
        BY <1>1, <4>1
      <4> QED BY <4>1, <4>2
    <3>2. PICK last \in Seq(V) :
            last = IF n = 1 THEN s[n] ELSE g[n - 1] \o s[n]
      <4>1. CASE n = 1
        BY <2>0, <4>1
      <4>2. CASE n # 1
        <5>1. g[n - 1] \in Seq(V) /\ s[n] \in Seq(V)
          BY <2>0, <2>2, <3>1, <4>2
        <5>2. g[n - 1] \o s[n] \in Seq(V)
          BY <5>1
        <5> QED BY <4>2, <5>2
      <4> QED BY <4>1, <4>2
    <3> DEFINE f == [i \in 1 .. n |-> IF i = n THEN last ELSE g[i]]
    <3>3. f \in [1 .. n -> Seq(V)]
      BY <3>1, <3>2
    <3>4. \A i \in 1 .. n : f[i] = IF i = 1 THEN s[i] ELSE f[i - 1] \o s[i]
      <4> SUFFICES ASSUME NEW i \in 1 .. n
                   PROVE  f[i] = IF i = 1 THEN s[i] ELSE f[i - 1] \o s[i]
        OBVIOUS
      <4>1. CASE i = n
        BY <2>2, <3>2, <4>1
      <4>2. CASE i # n
        <5>1. i \in 1 .. n - 1 /\ f[i] = g[i] /\ (i # 1 => f[i - 1] = g[i - 1])
          BY <4>2
        <5>2. g[i] = IF i = 1 THEN s[i] ELSE g[i - 1] \o s[i]
          BY <3>1, <5>1 DEF FlatStep
        <5>3. CASE i = 1
          BY <5>1, <5>2, <5>3
        <5>4. CASE i # 1
          BY <5>1, <5>2, <5>4
        <5> QED BY <5>3, <5>4
      <4> QED BY <4>1, <4>2
    <3>5. f = FlatStep(s, n, f)
      BY <3>4 DEF FlatStep
    <3> QED BY <3>3, <3>5
  <2> QED BY <2>1, <2>2
<1> HIDE DEF Good
<1>2. Nat \subseteq Good
  BY <1>1, NoLeastCounterexample
<1>3. Len(s) \in Good
  BY <1>2
<1> QED BY <1>3 DEF Good

\* Flattening gives a sequence of the same elements.
LEMMA FlattenHolds ==
  ASSUME NEW V, NEW s \in Seq(Seq(V))
  PROVE  /\ FlattenSeq(s) \in Seq(V)
         /\ ToSet(FlattenSeq(s)) = UNION {ToSet(s[i]) : i \in DOMAIN s}
<1>0. PICK n \in Nat : n = Len(s) /\ DOMAIN s = 1 .. n
  OBVIOUS
<1>1. CASE n = 0
  <2>1. s = <<>> /\ FlattenSeq(s) = s
    BY <1>0, <1>1 DEF FlattenSeq
  <2>2. DOMAIN s = {}
    BY <1>0, <1>1
  <2>3. ToSet(s) = {} /\ UNION {ToSet(s[i]) : i \in DOMAIN s} = {}
    BY <2>2 DEF ToSet
  <2>4. <<>> \in Seq(V)
    OBVIOUS
  <2>5. FlattenSeq(s) \in Seq(V)
    BY <2>1, <2>4
  <2>6. ToSet(FlattenSeq(s)) = {}
    BY <2>1, <2>3
  <2> QED BY <2>3, <2>5, <2>6
<1>2. CASE n # 0
  <2>1. PICK f : f = FlatStep(s, n, f) /\ FlattenSeq(s) = f[n]
    <3>1. FlattenSeq(s) = (CHOOSE f : f = FlatStep(s, Len(s), f))[Len(s)]
      BY <1>0, <1>2 DEF FlattenSeq, FlatStep
    <3> QED BY <1>0, <3>1, FlatExists
  <2> DEFINE Before(i) == UNION {ToSet(s[j]) : j \in 1 .. i}
             Good == {i \in Nat : i \in 1 .. n => f[i] \in Seq(V) /\ ToSet(f[i]) = Before(i)}
  <2>2. ASSUME NEW i \in Nat, \A m \in Nat : m < i => m \in Good
        PROVE  i \in Good
    <3> SUFFICES ASSUME i \in 1 .. n
                 PROVE  f[i] \in Seq(V) /\ ToSet(f[i]) = Before(i)
      OBVIOUS
    <3>0. s[i] \in Seq(V) /\ f[i] = IF i = 1 THEN s[i] ELSE f[i - 1] \o s[i]
      <4>1. s[i] \in Seq(V)
        BY <1>0
      <4>2. f = [k \in 1 .. n |-> IF k = 1 THEN s[k] ELSE f[k - 1] \o s[k]]
        BY <2>1 DEF FlatStep
      <4>3. f[i] = IF i = 1 THEN s[i] ELSE f[i - 1] \o s[i]
        BY <4>2
      <4> QED BY <4>1, <4>3
    <3>1. CASE i = 1
      <4>1. 1 .. i = {i} /\ f[i] = s[i]
        BY <3>0, <3>1
      <4>2. Before(i) = ToSet(s[i])
        BY <4>1
      <4> QED BY <3>0, <4>1, <4>2
    <3>2. CASE i # 1
      <4>0. i - 1 \in Nat /\ i - 1 < i /\ i - 1 \in 1 .. n
        BY <3>2
      <4>1. i - 1 \in Good
        BY <2>2, <4>0
      <4>2. f[i - 1] \in Seq(V) /\ ToSet(f[i - 1]) = Before(i - 1)
        BY <4>0, <4>1
      <4>3. f[i] = f[i - 1] \o s[i]
        BY <3>0, <3>2
      <4>4. f[i] \in Seq(V) /\ ToSet(f[i]) = ToSet(f[i - 1]) \cup ToSet(s[i])
        BY <3>0, <4>2, <4>3, ConcatHolds
      <4>5. 1 .. i = 1 .. i - 1 \cup {i}
        BY <3>2
      <4>6. Before(i) = Before(i - 1) \cup ToSet(s[i])
        BY <4>5
      <4> QED BY <4>2, <4>4, <4>6
    <3> QED BY <3>1, <3>2
  <2> HIDE DEF Good
  <2>3. n \in Good
    BY <2>2, NoLeastCounterexample
  <2>4. f[n] \in Seq(V) /\ ToSet(f[n]) = Before(n)
    BY <1>2, <2>3 DEF Good
  <2> QED BY <1>0, <2>1, <2>4
<1> QED BY <1>1, <1>2

\* At every place what is held there, if it is kept.
Places(n, held, kept) == [i \in 1 .. n |-> IF i \in kept THEN <<held[i]>> ELSE <<>>]

\* Flattening leaves what is kept.
LEMMA FlattenFilters ==
  ASSUME NEW V, NEW n \in Nat, NEW held, \A i \in 1 .. n : held[i] \in V,
         NEW kept, kept \subseteq 1 .. n,
         NEW s, s = Places(n, held, kept)
  PROVE  FlattenSeq(s) \in Seq(V) /\ ToSet(FlattenSeq(s)) = {held[i] : i \in kept}
<1>0. s = [i \in 1 .. n |-> IF i \in kept THEN <<held[i]>> ELSE <<>>]
  BY DEF Places
<1>1. s \in Seq(Seq(V)) /\ DOMAIN s = 1 .. n
  <2>1. \A i \in 1 .. n : s[i] \in Seq(V)
    BY <1>0
  <2> QED BY <1>0, <2>1
<1>2. \A i \in 1 .. n : ToSet(s[i]) = IF i \in kept THEN {held[i]} ELSE {}
  BY <1>0 DEF ToSet
<1>3. UNION {ToSet(s[i]) : i \in 1 .. n} = {held[i] : i \in kept}
  BY <1>2
<1> QED BY <1>1, <1>3, FlattenHolds
=============================================================================
