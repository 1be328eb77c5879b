----------------------------- MODULE SumTheorems -----------------------------
(***************************************************************************)
(* What the sums of the community modules are worth, for the proofs about  *)
(* the models that use them: MapThenSumSet of a function's values, which   *)
(* SumFunctionOnSet is too. They are defined by a recursive function that  *)
(* takes the elements of a set in an order CHOOSE picks; the results say   *)
(* that there is such a function, that the order does not matter, and how  *)
(* two sums compare.                                                       *)
(*                                                                         *)
(* Each induction is the search for a smallest counterexample, on the      *)
(* number of elements of a set.                                            *)
(***************************************************************************)
EXTENDS Integers, FiniteSets, FiniteSetsExt, Functions, FiniteSetTheorems,
        WellFoundedInduction, TLAPS

Total(f, S) == MapThenSumSet(LAMBDA k : f[k], S)

(* The recursive function of the library's definition.                     *)
Picked(s) == CHOOSE x \in s : TRUE
Step(f, g, s) == IF s = {} THEN 0 ELSE f[Picked(s)] + g[s \ {Picked(s)}]
Adds(f, S, g) == g = [s \in SUBSET S |-> Step(f, g, s)]

(* Both forms of a sum are the value of that function.                     *)
LEMMA TotalIsRecursive ==
    ASSUME NEW f, NEW S
    PROVE  /\ Total(f, S) = (CHOOSE g : Adds(f, S, g))[S]
           /\ SumFunctionOnSet(f, S) = Total(f, S)
<1>1. Total(f, S) = (CHOOSE g : Adds(f, S, g))[S]
  BY DEF Total, MapThenSumSet, MapThenFoldSet, Adds, Step, Picked
<1>2. SumFunctionOnSet(f, S) = (CHOOSE g : Adds(f, S, g))[S]
  BY DEF SumFunctionOnSet, FoldFunctionOnSet, MapThenFoldSet, Adds, Step, Picked
<1>3. QED
  BY <1>1, <1>2

(* A set of naturals has a least element.                                  *)
LEMMA LeastNatural ==
    ASSUME NEW N \in SUBSET Nat, N # {}
    PROVE  \E n \in N : \A m \in N : n =< m
<1>1. PICK n \in N : \A m \in N : ~(<<m, n>> \in OpToRel(<, Nat))
  BY NatLessThanWellFounded, WFMin
<1>2. ASSUME NEW m \in N PROVE n =< m
  <2>1. n \in Nat /\ m \in Nat
    OBVIOUS
  <2>2. ~(m < n)
    BY <1>1, <2>1 DEF OpToRel
  <2>3. QED
    BY <2>1, <2>2
<1>3. QED
  BY <1>2

(* Taking the picked element of a finite set away makes it smaller.        *)
LEMMA PickedLeaves ==
    ASSUME NEW s, IsFiniteSet(s), s # {}
    PROVE  /\ Picked(s) \in s
           /\ IsFiniteSet(s \ {Picked(s)})
           /\ Cardinality(s) \in Nat
           /\ Cardinality(s \ {Picked(s)}) = Cardinality(s) - 1
<1>1. Picked(s) \in s
  BY DEF Picked
<1>2. QED
  BY <1>1, FS_RemoveElement, FS_CardinalityType

(* There is a function that adds up the subsets of a finite set.           *)
LEMMA AddsExists ==
    ASSUME NEW f, NEW S, IsFiniteSet(S)
    PROVE  \E g : Adds(f, S, g)
<1> DEFINE Small(n) == {s \in SUBSET S : Cardinality(s) < n}
           Partial(n, g) == g = [s \in Small(n) |-> Step(f, g, s)]
           Bad == {n \in Nat : ~\E g : Partial(n, g)}
<1>1. \A s \in SUBSET S : IsFiniteSet(s) /\ Cardinality(s) \in Nat
  BY FS_Subset, FS_CardinalityType
<1>2. Partial(0, [s \in Small(0) |-> 0])
  <2>1. Small(0) = {}
    BY <1>1
  <2>2. QED
    BY <2>1
<1>3. ASSUME NEW n \in Nat \ {0}, NEW g, Partial(n - 1, g) PROVE \E h : Partial(n, h)
  <2> DEFINE h == [s \in Small(n) |-> Step(f, g, s)]
  <2>1. ASSUME NEW s \in Small(n) PROVE Step(f, g, s) = Step(f, h, s)
    <3>1. CASE s = {}
      BY <3>1 DEF Step
    <3>2. CASE s # {}
      <4> DEFINE t == s \ {Picked(s)}
      <4>1. t \in SUBSET S /\ Cardinality(t) = Cardinality(s) - 1 /\ Cardinality(s) < n
            /\ Cardinality(s) \in Nat
        BY <3>2, <1>1, PickedLeaves
      <4>2. t \in Small(n - 1) /\ t \in Small(n)
        BY <4>1
      <4>3. g[t] = Step(f, g, t) /\ h[t] = Step(f, g, t)
        BY <4>2, <1>3
      <4>4. QED
        BY <4>3 DEF Step
    <3>3. QED
      BY <3>1, <3>2
  <2>2. h = [s \in Small(n) |-> Step(f, h, s)]
    <3> HIDE DEF h
    <3>1. [s \in Small(n) |-> Step(f, g, s)] = [s \in Small(n) |-> Step(f, h, s)]
      BY <2>1
    <3>2. QED
      BY <3>1 DEF h
  <2>3. QED
    BY <2>2
<1>4. Bad = {}
  <2>1. SUFFICES ASSUME Bad # {} PROVE FALSE
    OBVIOUS
  <2>2. PICK n \in Bad : \A m \in Bad : n =< m
    BY <2>1, LeastNatural
  <2>3. n \in Nat /\ n # 0
    BY <1>2
  <2>4. n - 1 \in Nat /\ n - 1 \notin Bad
    <3> HIDE DEF Bad
    <3>1. n - 1 \in Nat /\ ~(n =< n - 1)
      BY <2>3
    <3>2. QED
      BY <2>2, <3>1
  <2>5. PICK g : Partial(n - 1, g)
    BY <2>4
  <2>6. QED
    BY <1>3, <2>3, <2>5
<1>5. Cardinality(S) + 1 \in Nat /\ Small(Cardinality(S) + 1) = SUBSET S
  <2>1. \A s \in SUBSET S : Cardinality(s) =< Cardinality(S)
    BY FS_Subset
  <2>2. QED
    BY <1>1, <2>1
<1>6. PICK g : Partial(Cardinality(S) + 1, g)
  BY <1>4, <1>5
<1>7. QED
  BY <1>5, <1>6 DEF Adds

LEMMA TotalAdds ==
    ASSUME NEW f, NEW S, IsFiniteSet(S)
    PROVE  \E g : Adds(f, S, g) /\ Total(f, S) = g[S]
BY AddsExists, TotalIsRecursive

(* The order does not matter: the sum is the value of any one element, and *)
(* the sum of the others.                                                  *)
LEMMA AnyFirst ==
    ASSUME NEW f, NEW S, IsFiniteSet(S), NEW g, Adds(f, S, g),
           \A x \in S : f[x] \in Int
    PROVE  \A T \in SUBSET S :
               g[T] \in Int /\ \A x \in T : g[T] = f[x] + g[T \ {x}]
<1> DEFINE Good(T) == g[T] \in Int /\ \A x \in T : g[T] = f[x] + g[T \ {x}]
           Bad == {n \in Nat : \E T \in SUBSET S : Cardinality(T) = n /\ ~Good(T)}
<1>1. \A T \in SUBSET S : IsFiniteSet(T) /\ Cardinality(T) \in Nat
  BY FS_Subset, FS_CardinalityType
<1>2. ASSUME NEW T \in SUBSET S,
             \A U \in SUBSET S : Cardinality(U) < Cardinality(T) => Good(U)
      PROVE  Good(T)
  <2>1. CASE T = {}
    <3>1. g[T] = 0
      BY <2>1 DEF Adds, Step
    <3>2. QED
      BY <2>1, <3>1
  <2>2. CASE T # {}
    <3> DEFINE c == Picked(T)
               R == T \ {c}
    <3>1. c \in T /\ f[c] \in Int /\ R \in SUBSET S
      BY <2>2, <1>1, PickedLeaves
    <3>2. g[T] = f[c] + g[R]
      BY <2>2 DEF Adds, Step
    <3>3. Cardinality(R) < Cardinality(T)
      BY <2>2, <1>1, PickedLeaves
    <3>4. Good(R)
      BY <1>2, <3>1, <3>3
    <3>5. ASSUME NEW x \in T PROVE g[T] = f[x] + g[T \ {x}]
      <4>1. CASE x = c
        BY <4>1, <3>2
      <4>2. CASE x # c
        <5> DEFINE U == T \ {x}
                   V == R \ {x}
        <5>1. U \in SUBSET S /\ Cardinality(U) < Cardinality(T)
          BY <1>1, FS_RemoveElement
        <5>2. Good(U)
          BY <1>2, <5>1
        <5>3. c \in U /\ U \ {c} = V /\ x \in R /\ f[x] \in Int
          BY <4>2, <3>1
        <5>4. g[U] = f[c] + g[V] /\ g[R] = f[x] + g[V]
          BY <5>2, <5>3, <3>4
        <5>5. Good(V)
          <6>1. V \in SUBSET S /\ IsFiniteSet(R) /\ Cardinality(R) \in Nat
                /\ Cardinality(T) \in Nat
            BY <3>1, <1>1
          <6>2. Cardinality(V) = Cardinality(R) - 1
            BY <5>3, <6>1, FS_RemoveElement
          <6>3. Cardinality(V) < Cardinality(T)
            BY <6>1, <6>2, <3>3
          <6>4. QED
            BY <1>2, <6>1, <6>3
        <5>6. g[V] \in Int
          BY <5>5
        <5> HIDE DEF U, V, R, c
        <5>7. g[T] = f[x] + g[U]
          BY <3>1, <3>2, <5>3, <5>4, <5>6
        <5>8. QED
          BY <5>7 DEF U
      <4>3. QED
        BY <4>1, <4>2
    <3>6. g[T] \in Int
      <4>1. g[R] \in Int
        BY <3>4
      <4>2. QED
        BY <3>1, <3>2, <4>1
    <3>7. QED
      BY <3>5, <3>6
  <2>3. QED
    BY <2>1, <2>2
<1>3. Bad = {}
  <2>1. SUFFICES ASSUME Bad # {} PROVE FALSE
    OBVIOUS
  <2>2. PICK n \in Bad : \A m \in Bad : n =< m
    BY <2>1, LeastNatural
  <2>3. PICK T \in SUBSET S : Cardinality(T) = n /\ ~Good(T)
    OBVIOUS
  <2>4. ASSUME NEW U \in SUBSET S, Cardinality(U) < n PROVE Good(U)
    <3>1. Cardinality(U) \in Nat /\ n \in Nat /\ ~(n =< Cardinality(U))
      BY <1>1, <2>4
    <3>2. Cardinality(U) \notin Bad
      <4> HIDE DEF Bad
      <4>1. QED
        BY <3>1, <2>2
    <3>3. QED
      BY <3>1, <3>2
  <2>5. QED
    BY <1>2, <2>3, <2>4
<1>4. QED
  BY <1>1, <1>3

-----------------------------------------------------------------------------
(* The sum of nothing is zero, ...                                         *)
LEMMA TotalOfNone ==
    ASSUME NEW f
    PROVE  Total(f, {}) = 0
<1>1. PICK g : Adds(f, {}, g) /\ Total(f, {}) = g[{}]
  BY TotalAdds, FS_EmptySet
<1>2. QED
  BY <1>1 DEF Adds, Step

(* Two such functions agree on a set where what they add up does.          *)
LEMMA AddsAgree ==
    ASSUME NEW f, NEW S, NEW g, Adds(f, S, g),
           NEW h, NEW R, NEW k, Adds(h, R, k),
           NEW T \in SUBSET (S \intersect R), IsFiniteSet(T),
           \A x \in T : f[x] = h[x]
    PROVE  g[T] = k[T]
<1> DEFINE Bad == {n \in Nat : \E U \in SUBSET T : Cardinality(U) = n /\ g[U] # k[U]}
<1>1. \A U \in SUBSET T : IsFiniteSet(U) /\ Cardinality(U) \in Nat
  BY FS_Subset, FS_CardinalityType
<1>2. ASSUME NEW U \in SUBSET T,
             \A V \in SUBSET T : Cardinality(V) < Cardinality(U) => g[V] = k[V]
      PROVE  g[U] = k[U]
  <2>1. g[U] = Step(f, g, U) /\ k[U] = Step(h, k, U)
    BY DEF Adds
  <2>2. CASE U = {}
    BY <2>1, <2>2 DEF Step
  <2>3. CASE U # {}
    <3> DEFINE c == Picked(U)
               V == U \ {c}
    <3>1. c \in T /\ V \in SUBSET T /\ Cardinality(V) < Cardinality(U)
      <4>1. /\ c \in U /\ Cardinality(U) \in Nat
            /\ Cardinality(V) = Cardinality(U) - 1
        BY <2>3, <1>1, PickedLeaves
      <4>2. QED
        BY <4>1
    <3>2. f[c] = h[c] /\ g[V] = k[V]
      BY <1>2, <3>1
    <3>3. QED
      BY <2>1, <2>3, <3>2 DEF Step
  <2>4. QED
    BY <2>2, <2>3
<1>3. Bad = {}
  <2>1. SUFFICES ASSUME Bad # {} PROVE FALSE
    OBVIOUS
  <2>2. PICK n \in Bad : \A m \in Bad : n =< m
    BY <2>1, LeastNatural
  <2>3. PICK U \in SUBSET T : Cardinality(U) = n /\ g[U] # k[U]
    OBVIOUS
  <2>4. ASSUME NEW V \in SUBSET T, Cardinality(V) < n PROVE g[V] = k[V]
    <3>1. Cardinality(V) \in Nat /\ n \in Nat /\ ~(n =< Cardinality(V))
      BY <1>1, <2>4
    <3>2. Cardinality(V) \notin Bad
      <4> HIDE DEF Bad
      <4>1. QED
        BY <3>1, <2>2
    <3>3. QED
      BY <3>1, <3>2
  <2>5. QED
    BY <1>2, <2>3, <2>4
<1>4. QED
  BY <1>1, <1>3

(* A sum depends on the values of its elements only.                       *)
LEMMA TotalIsSame ==
    ASSUME NEW f, NEW S, IsFiniteSet(S), NEW h, \A x \in S : f[x] = h[x]
    PROVE  Total(f, S) = Total(h, S)
<1>1. PICK g : Adds(f, S, g) /\ Total(f, S) = g[S]
  BY TotalAdds
<1>2. PICK k : Adds(h, S, k) /\ Total(h, S) = k[S]
  BY TotalAdds
<1>3. S \in SUBSET (S \intersect S)
  OBVIOUS
<1>4. g[S] = k[S]
  BY <1>1, <1>2, <1>3, AddsAgree
<1>5. QED
  BY <1>1, <1>2, <1>4

(* A sum of integers is one, and what any one element adds to the others'. *)
LEMMA TotalOfOneMore ==
    ASSUME NEW f, NEW S, IsFiniteSet(S), \A x \in S : f[x] \in Int
    PROVE  /\ Total(f, S) \in Int
           /\ \A x \in S : Total(f, S) = f[x] + Total(f, S \ {x})
<1>1. PICK g : Adds(f, S, g) /\ Total(f, S) = g[S]
  BY TotalAdds
<1>2. S \in SUBSET S
  OBVIOUS
<1>3. g[S] \in Int /\ \A x \in S : g[S] = f[x] + g[S \ {x}]
  BY <1>1, <1>2, AnyFirst
<1>4. ASSUME NEW x \in S PROVE g[S \ {x}] = Total(f, S \ {x})
  <2> DEFINE R == S \ {x}
  <2>1. IsFiniteSet(R)
    BY FS_Subset
  <2>2. PICK k : Adds(f, R, k) /\ Total(f, R) = k[R]
    BY <2>1, TotalAdds
  <2>3. R \in SUBSET (S \intersect R)
    OBVIOUS
  <2>4. g[R] = k[R]
    BY <1>1, <2>1, <2>2, <2>3, AddsAgree
  <2>5. QED
    BY <2>2, <2>4
<1>5. QED
  BY <1>1, <1>3, <1>4

(* An element that was not there adds its value.                           *)
LEMMA TotalOfNew ==
    ASSUME NEW f, NEW S, IsFiniteSet(S), NEW x, x \notin S,
           \A y \in S \union {x} : f[y] \in Int
    PROVE  Total(f, S \union {x}) = f[x] + Total(f, S)
<1>1. IsFiniteSet(S \union {x}) /\ (S \union {x}) \ {x} = S
  BY FS_AddElement
<1>2. QED
  BY <1>1, TotalOfOneMore

(* One value that changes moves the sum as much.                           *)
LEMMA TotalOfChanged ==
    ASSUME NEW f, NEW h, NEW S, IsFiniteSet(S), NEW x \in S,
           \A y \in S : f[y] \in Int /\ h[y] \in Int,
           \A y \in S \ {x} : h[y] = f[y]
    PROVE  Total(h, S) = Total(f, S) - f[x] + h[x]
<1> DEFINE R == S \ {x}
<1>1. IsFiniteSet(R)
  BY FS_Subset
<1>2. Total(f, S) = f[x] + Total(f, R) /\ Total(h, S) = h[x] + Total(h, R)
  BY TotalOfOneMore
<1>3. Total(h, R) = Total(f, R) /\ Total(f, R) \in Int
  BY <1>1, TotalIsSame, TotalOfOneMore
<1>4. QED
  BY <1>2, <1>3

(* A sum of naturals is one.                                               *)
LEMMA TotalOfNaturals ==
    ASSUME NEW f, NEW S, IsFiniteSet(S), \A x \in S : f[x] \in Nat
    PROVE  Total(f, S) \in Nat
<1> DEFINE Bad == {n \in Nat : \E U \in SUBSET S :
                      Cardinality(U) = n /\ Total(f, U) \notin Nat}
<1>1. \A U \in SUBSET S : IsFiniteSet(U) /\ Cardinality(U) \in Nat
  BY FS_Subset, FS_CardinalityType
<1>2. ASSUME NEW U \in SUBSET S,
             \A V \in SUBSET S : Cardinality(V) < Cardinality(U) => Total(f, V) \in Nat
      PROVE  Total(f, U) \in Nat
  <2>1. CASE U = {}
    BY <2>1, TotalOfNone
  <2>2. CASE U # {}
    <3>1. PICK x \in U : TRUE
      BY <2>2
    <3> DEFINE V == U \ {x}
    <3>2. V \in SUBSET S /\ Cardinality(V) < Cardinality(U)
      <4>1. Cardinality(V) = Cardinality(U) - 1 /\ Cardinality(U) \in Nat
        BY <1>1, FS_RemoveElement
      <4>2. QED
        BY <4>1
    <3>3. f[x] \in Nat /\ Total(f, V) \in Nat
      BY <1>2, <3>2
    <3>4. Total(f, U) = f[x] + Total(f, V)
      <4>1. IsFiniteSet(U) /\ \A y \in U : f[y] \in Int
        BY <1>1
      <4>2. QED
        BY <4>1, TotalOfOneMore
    <3>5. QED
      BY <3>3, <3>4
  <2>3. QED
    BY <2>1, <2>2
<1>3. Bad = {}
  <2>1. SUFFICES ASSUME Bad # {} PROVE FALSE
    OBVIOUS
  <2>2. PICK n \in Bad : \A m \in Bad : n =< m
    BY <2>1, LeastNatural
  <2>3. PICK U \in SUBSET S : Cardinality(U) = n /\ Total(f, U) \notin Nat
    OBVIOUS
  <2>4. ASSUME NEW V \in SUBSET S, Cardinality(V) < n PROVE Total(f, V) \in Nat
    <3>1. Cardinality(V) \in Nat /\ n \in Nat /\ ~(n =< Cardinality(V))
      BY <1>1, <2>4
    <3>2. Cardinality(V) \notin Bad
      <4> HIDE DEF Bad
      <4>1. QED
        BY <3>1, <2>2
    <3>3. QED
      BY <3>1, <3>2
  <2>5. QED
    BY <1>2, <2>3, <2>4
<1>4. QED
  BY <1>1, <1>3

(* Sums of naturals compare as their elements do: one of fewer and smaller *)
(* ones is not larger. Elements that count for nothing need not be there.  *)
LEMMA TotalsCompare ==
    ASSUME NEW f, NEW S, IsFiniteSet(S), NEW h, NEW T, IsFiniteSet(T),
           \A x \in S : f[x] \in Nat,
           \A x \in T : h[x] \in Nat,
           \A x \in S : f[x] # 0 => x \in T /\ f[x] =< h[x]
    PROVE  Total(f, S) =< Total(h, T)
<1> DEFINE Fit(U, V) == \A x \in U : f[x] # 0 => x \in V
           Below(U, V) == Total(f, U) =< Total(h, V)
           Bad == {n \in Nat : \E U \in SUBSET S, V \in SUBSET T :
                      Cardinality(U) = n /\ Fit(U, V) /\ ~Below(U, V)}
<1>1. \A U \in SUBSET S : IsFiniteSet(U) /\ Cardinality(U) \in Nat
  BY FS_Subset, FS_CardinalityType
<1>2. \A V \in SUBSET T : IsFiniteSet(V)
  BY FS_Subset
<1>3. ASSUME NEW U \in SUBSET S, NEW x \in U
      PROVE  /\ f[x] \in Nat /\ Total(f, U \ {x}) \in Nat
             /\ Total(f, U) = f[x] + Total(f, U \ {x})
             /\ Cardinality(U \ {x}) < Cardinality(U)
  <2>1. /\ IsFiniteSet(U) /\ IsFiniteSet(U \ {x})
        /\ \A y \in U : f[y] \in Nat
        /\ \A y \in U : f[y] \in Int
    BY <1>1
  <2>2. Total(f, U \ {x}) \in Nat /\ Total(f, U) = f[x] + Total(f, U \ {x})
    BY <2>1, TotalOfNaturals, TotalOfOneMore
  <2>3. Cardinality(U \ {x}) = Cardinality(U) - 1 /\ Cardinality(U) \in Nat
    BY <1>1, FS_RemoveElement
  <2>4. QED
    BY <2>1, <2>2, <2>3
<1>4. ASSUME NEW V \in SUBSET T
      PROVE  /\ Total(h, V) \in Nat
             /\ \A x \in V : /\ Total(h, V \ {x}) \in Nat
                             /\ Total(h, V) = h[x] + Total(h, V \ {x})
  <2>1. /\ IsFiniteSet(V)
        /\ \A y \in V : h[y] \in Nat
        /\ \A y \in V : h[y] \in Int
        /\ \A x \in V : IsFiniteSet(V \ {x})
    BY <1>2
  <2>2. QED
    BY <2>1, TotalOfNaturals, TotalOfOneMore
<1>5. ASSUME NEW U \in SUBSET S, NEW V \in SUBSET T, Fit(U, V),
             \A P \in SUBSET S, Q \in SUBSET T :
                 Cardinality(P) < Cardinality(U) /\ Fit(P, Q) => Below(P, Q)
      PROVE  Below(U, V)
  <2>1. CASE U = {}
    BY <2>1, <1>4, TotalOfNone
  <2>2. CASE U # {}
    <3>1. PICK x \in U : TRUE
      BY <2>2
    <3> DEFINE P == U \ {x}
    <3>2. P \in SUBSET S /\ Cardinality(P) < Cardinality(U)
      BY <1>3
    <3>3. CASE f[x] = 0
      <4>1. Fit(P, V)
        BY <1>5
      <4>2. Below(P, V)
        BY <1>5, <3>2, <4>1
      <4>3. QED
        BY <4>2, <3>3, <1>3
    <3>4. CASE f[x] # 0
      <4> DEFINE Q == V \ {x}
      <4>1. x \in V /\ f[x] =< h[x] /\ h[x] \in Nat
        BY <3>4, <1>5
      <4>2. Fit(P, Q) /\ Q \in SUBSET T
        BY <1>5
      <4>3. Below(P, Q)
        BY <1>5, <3>2, <4>2
      <4>4. /\ Total(f, U) = f[x] + Total(f, P) /\ Total(f, P) \in Nat
            /\ f[x] \in Nat
        BY <1>3
      <4>5. Total(h, V) = h[x] + Total(h, Q) /\ Total(h, Q) \in Nat
        BY <1>4, <4>1
      <4> HIDE DEF P, Q
      <4>6. QED
        BY <4>1, <4>3, <4>4, <4>5
    <3>5. QED
      BY <3>3, <3>4
  <2>3. QED
    BY <2>1, <2>2
<1>6. Bad = {}
  <2>1. SUFFICES ASSUME Bad # {} PROVE FALSE
    OBVIOUS
  <2>2. PICK n \in Bad : \A m \in Bad : n =< m
    BY <2>1, LeastNatural
  <2>3. PICK U \in SUBSET S, V \in SUBSET T :
            Cardinality(U) = n /\ Fit(U, V) /\ ~Below(U, V)
    OBVIOUS
  <2>4. ASSUME NEW P \in SUBSET S, NEW Q \in SUBSET T, Cardinality(P) < n, Fit(P, Q)
        PROVE  Below(P, Q)
    <3>1. Cardinality(P) \in Nat /\ n \in Nat /\ ~(n =< Cardinality(P))
      BY <1>1, <2>4
    <3>2. Cardinality(P) \notin Bad
      <4> HIDE DEF Bad
      <4>1. QED
        BY <3>1, <2>2
    <3>3. QED
      BY <3>1, <3>2, <2>4
  <2>5. QED
    BY <1>5, <2>3, <2>4
<1>7. QED
  BY <1>1, <1>6
=============================================================================
