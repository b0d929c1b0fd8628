----------------------------- MODULE BasicLemmas -----------------------------
(***************************************************************************)
(* Facts about numbers, functions and sums that know nothing of poker: Min *)
(* and Max of sets of naturals, and recursive functions.                   *)
(***************************************************************************)
EXTENDS Integers, FiniteSetsExt, FiniteSetTheorems, WellFoundedInduction, TLAPS

(* A non-empty set of naturals has a least element, and Min returns it.    *)
LEMMA MinOfNats ==
  ASSUME NEW S, S \subseteq Nat, S # {}
  PROVE  Min(S) \in S /\ \A x \in S : Min(S) <= x
<1> DEFINE Below(x) == 0..x
           Segments == {Below(x) : x \in S}
<1>1. Segments \subseteq FiniteSubsetsOf(Nat)
  <2>1. \A x \in S : Below(x) \in SUBSET Nat /\ IsFiniteSet(Below(x))
    BY FS_Interval
  <2>2. QED
    BY <2>1 DEF FiniteSubsetsOf
<1>2. PICK T \in Segments :
         \A U \in Segments : ~(<<U, T>> \in StrictSubsetOrdering(Nat))
  <2>1. Segments # {}
    OBVIOUS
  <2>2. QED
    BY ONLY <1>1, <2>1, FS_StrictSubsetOrderingWellFounded, WFMin
<1>3. PICK x \in S : T = Below(x)
  OBVIOUS
<1>4. \A y \in S : x <= y
  <2>1. SUFFICES ASSUME NEW y \in S, y < x
                 PROVE  FALSE
    OBVIOUS
  <2>2. Below(y) \subseteq Below(x) /\ Below(y) # Below(x)
    <3>1. x \in Below(x) /\ x \notin Below(y)
      BY <2>1
    <3>2. QED
      BY <2>1, <3>1
  <2>3. Below(y) \in SUBSET Nat /\ Below(x) \in SUBSET Nat
    OBVIOUS
  <2>4. <<Below(y), Below(x)>> \in StrictSubsetOrdering(Nat)
    BY <2>2, <2>3 DEF StrictSubsetOrdering
  <2>5. Below(y) \in Segments
    OBVIOUS
  <2>6. QED
    BY <1>2, <1>3, <2>4, <2>5
<1>5. QED
  BY <1>4 DEF Min

(* A non-empty bounded set of naturals has a greatest element, and Max     *)
(* returns it.                                                             *)
LEMMA MaxOfNats ==
  ASSUME NEW S, S \subseteq Nat, S # {},
         NEW bound \in Nat, \A x \in S : x <= bound
  PROVE  Max(S) \in S /\ \A x \in S : x <= Max(S)
<1> DEFINE Gaps == {gap \in Nat : bound - gap \in S}
<1>1. Gaps \subseteq Nat /\ Gaps # {}
  <2>1. PICK x \in S : TRUE
    OBVIOUS
  <2>2. bound - x \in Gaps
    BY <2>1
  <2>3. QED
    BY <2>2
<1> HIDE DEF Gaps
<1>2. Min(Gaps) \in Gaps /\ \A gap \in Gaps : Min(Gaps) <= gap
  BY <1>1, MinOfNats
<1>3. PICK least \in Nat : /\ bound - least \in S
                           /\ \A gap \in Gaps : least <= gap
  BY <1>2 DEF Gaps
<1>4. \A y \in S : bound - y \in Gaps
  BY DEF Gaps
<1>5. \A y \in S : bound - least >= y
  BY <1>3, <1>4
<1>6. QED
  BY <1>3, <1>5 DEF Max

-----------------------------------------------------------------------------
(* Remainders.                                                             *)

(* The remainder of a number that is written as quotient and remainder.    *)
LEMMA Remainder ==
  ASSUME NEW n \in Nat \ {0}, NEW k \in Nat, NEW r \in 0..n - 1
  PROVE  (n * k + r) % n = r
OBVIOUS
LEMMA DivMod ==
  ASSUME NEW n \in Nat \ {0}, NEW h \in Nat
  PROVE  h \div n \in Nat /\ h % n \in 0..n-1 /\ h = n * (h \div n) + (h % n)
OBVIOUS

(* The seat of a player who moves on by one from hand to hand.             *)
LEMMA NextRemainder ==
  ASSUME NEW n \in Nat \ {0}, NEW h \in Nat
  PROVE  (h + 1) % n = ((h % n) + 1) % n
<1>1. PICK k \in Nat, r \in 0..n - 1 : h = n * k + r /\ h % n = r
  BY DivMod
<1>2. CASE r + 1 \in 0..n - 1
  <2>1. (n * k + (r + 1)) % n = r + 1
    BY <1>2, Remainder
  <2>2. (n * 0 + (r + 1)) % n = r + 1
    BY <1>2, Remainder
  <2>3. h + 1 = n * k + (r + 1) /\ n * 0 + (r + 1) = r + 1
    BY <1>1
  <2>4. QED
    BY <1>1, <2>1, <2>2, <2>3
<1>3. CASE r + 1 = n
  <2>1. (n * (k + 1) + 0) % n = 0 /\ (n * 1 + 0) % n = 0
    BY Remainder
  <2>2. h + 1 = n * (k + 1) + 0 /\ n * 1 + 0 = r + 1
    <3>1. n * (k + 1) = n * k + n
      OBVIOUS
    <3>2. QED
      BY <1>1, <1>3, <3>1
  <2>4. QED
    BY <1>1, <2>1, <2>2
<1>4. QED
  BY <1>2, <1>3

(* Seats counted from the button and back.                                 *)
Rotates(n, h, seat, p) == (p + h) % n = seat <=> p = (seat + n - (h % n)) % n

LEMMA Rotations ==
  ASSUME NEW n \in Nat \ {0}, NEW h \in Nat, NEW seat \in 0..n - 1, NEW p \in 0..n - 1
  PROVE  Rotates(n, h, seat, p)
<1> SUFFICES (p + h) % n = seat <=> p = (seat + n - (h % n)) % n
  BY Zenon DEF Rotates
<1>1. PICK k \in Nat, r \in 0..n - 1 : h = n * k + r /\ h % n = r
  BY DivMod
<1>2. (p + h) % n = IF p + r < n THEN p + r ELSE p + r - n
  <2>1. CASE p + r < n
    <3>1. (n * k + (p + r)) % n = p + r
      BY <2>1, Remainder
    <3>2. n * k + (p + r) = p + h
      BY <1>1
    <3>3. QED
      BY <2>1, <3>1, <3>2
  <2>2. CASE p + r >= n
    <3>1. p + r - n \in 0..n - 1
      BY <2>2
    <3>2. (n * (k + 1) + (p + r - n)) % n = p + r - n
      <4>1. PICK j \in 0..n - 1 : j = p + r - n
        BY <3>1
      <4>2. (n * (k + 1) + j) % n = j
        BY Remainder
      <4>3. QED
        BY <4>1, <4>2
    <3>3. n * (k + 1) + (p + r - n) = p + h
      <4>1. n * (k + 1) = n * k + n
        OBVIOUS
      <4>2. PICK nk \in Nat : nk = n * k
        OBVIOUS
      <4>3. QED
        BY <1>1, <4>1, <4>2
    <3>4. QED
      BY <2>2, <3>2, <3>3
  <2>3. QED
    BY <2>1, <2>2
<1>3. (seat + n - r) % n = IF seat < r THEN seat + n - r ELSE seat - r
  <2>1. CASE seat < r
    <3>1. (n * 0 + (seat + n - r)) % n = seat + n - r
      BY <2>1, Remainder
    <3>2. QED
      BY <2>1, <3>1
  <2>2. CASE seat >= r
    <3>1. (n * 1 + (seat - r)) % n = seat - r
      BY <2>2, Remainder
    <3>2. QED
      BY <2>2, <3>1
  <2>3. QED
    BY <2>1, <2>2
<1>4. QED
  BY <1>1, <1>2, <1>3

-----------------------------------------------------------------------------
(* Recursion over the numbers to n.                                        *)

(* A function that is defined step by step exists.                         *)
StepsIn(A, a, n, step) == a \in A /\ n \in Nat /\ step \in [A \X (1..n) -> A]

IsSteps(A, a, n, step, f) ==
  f \in [0..n -> A] /\ f[0] = a /\ \A i \in 1..n : f[i] = step[<<f[i - 1], i>>]

(* Its existence, by the smallest number it could not reach.               *)
LEMMA StepsExist ==
  ASSUME NEW A, NEW a \in A, NEW n \in Nat, NEW step \in [A \X (1..n) -> A]
  PROVE  \E f : IsSteps(A, a, n, step, f)
<1> USE DEF IsSteps
<1> DEFINE Upto(k, f) ==
             f \in [0..k -> A] /\ f[0] = a /\ \A i \in 1..k : f[i] = step[<<f[i - 1], i>>]
           Bad == {k \in 0..n : ~\E f : Upto(k, f)}
<1>1. ASSUME Bad = {}
      PROVE  \E f : Upto(n, f)
  <2> HIDE DEF Upto
  <2>1. n \in 0..n
    OBVIOUS
  <2>2. QED
    BY <1>1, <2>1
<1>2. SUFFICES ASSUME Bad # {}
               PROVE  FALSE
  BY <1>1, Zenon
<1>3. PICK k \in Bad : \A j \in Bad : k <= j
  <2>1. Bad \subseteq Nat
    OBVIOUS
  <2> HIDE DEF Bad
  <2>2. QED
    BY <1>2, <2>1, MinOfNats
<1>4. CASE k = 0
  <2>1. Upto(0, [i \in 0..0 |-> a])
    OBVIOUS
  <2>2. QED
    BY <1>3, <1>4, <2>1
<1>5. CASE k # 0
  <2>1. k - 1 \in 0..n /\ k - 1 \notin Bad
    <3>1. k \in 0..n
      OBVIOUS
    <3> HIDE DEF Bad
    <3>2. k - 1 \in 0..n /\ ~(k <= k - 1)
      BY <1>5, <3>1
    <3>3. QED
      BY <1>3, <3>2
  <2>2. PICK g : Upto(k - 1, g)
    BY <2>1
  <2> DEFINE last == step[<<g[k - 1], k>>]
             f == [i \in 0..k |-> IF i = k THEN last ELSE g[i]]
  <2>3. k \in 1..n /\ g[k - 1] \in A
    BY <1>3, <1>5, <2>2
  <2>4. last \in A
    BY <2>3
  <2> HIDE DEF last
  <2>5. f \in [0..k -> A] /\ f[0] = a
    BY <2>2, <2>3, <2>4
  <2>6. ASSUME NEW i \in 1..k
        PROVE  f[i] = step[<<f[i - 1], i>>]
    <3>1. CASE i = k
      <4>1. k - 1 \in 0..k /\ k \in 0..k /\ k - 1 # k
        BY <2>3
      <4>2. f[k] = last /\ f[k - 1] = g[k - 1]
        BY <4>1
      <4>3. QED
        BY <3>1, <4>2 DEF last
    <3>2. CASE i # k
      <4>1. i \in 1..k - 1 /\ f[i] = g[i] /\ f[i - 1] = g[i - 1]
        BY <2>3, <3>2
      <4>2. QED
        BY <2>2, <4>1
    <3>3. QED
      BY <3>1, <3>2
  <2>7. Upto(k, f)
    BY <2>5, <2>6
  <2>8. QED
    BY <1>3, <2>7
<1>6. QED
  BY <1>4, <1>5

(* The same with the types under one name.                                 *)
LEMMA StepByStep ==
  ASSUME NEW A, NEW a, NEW n, NEW step, StepsIn(A, a, n, step)
  PROVE  \E f : IsSteps(A, a, n, step, f)
BY StepsExist DEF StepsIn

(* Functions that start alike and go on alike are alike.                   *)
GoOnAlike(n, f, g) ==
  f[0] = g[0] /\ \A i \in 1..n : f[i - 1] = g[i - 1] => f[i] = g[i]

(* Equal starts and equal steps make equal functions.                      *)
LEMMA SameSteps ==
  ASSUME NEW n \in Nat, NEW f, NEW g, GoOnAlike(n, f, g)
  PROVE  \A i \in 0..n : f[i] = g[i]
<1> DEFINE Bad == {i \in 0..n : f[i] # g[i]}
<1>1. SUFFICES ASSUME Bad # {}
               PROVE  FALSE
  OBVIOUS
<1>2. PICK k \in Bad : \A j \in Bad : k <= j
  <2>1. Bad \subseteq Nat
    OBVIOUS
  <2> HIDE DEF Bad
  <2>2. QED
    BY <1>1, <2>1, MinOfNats
<1>3. k # 0 /\ k \in 1..n
  BY DEF GoOnAlike
<1>4. k - 1 \in 0..n /\ k - 1 < k
  BY <1>3
<1>5. f[k - 1] = g[k - 1]
  BY <1>2, <1>4
<1>6. QED
  BY <1>3, <1>5 DEF GoOnAlike

-----------------------------------------------------------------------------
(* Folds over finite sets, as MapThenSumSet() and ProductSet() compute     *)
(* them, taking out one element after the other; op is a function here.    *)

IsFold(op, base, f, S, g) ==
  g = [s \in SUBSET S |->
         IF s = {} THEN base
         ELSE LET x == CHOOSE x \in s : TRUE
              IN  op[<<f[x], g[s \ {x}]>>]]

IsSum(f, S, g) ==
  g = [s \in SUBSET S |->
         IF s = {} THEN 0
         ELSE LET x == CHOOSE x \in s : TRUE
              IN  f[x] + g[s \ {x}]]

IsProduct(f, S, g) ==
  g = [s \in SUBSET S |->
         IF s = {} THEN 1
         ELSE LET x == CHOOSE x \in s : TRUE
              IN  f[x] * g[s \ {x}]]

(* What is true of the empty set, and of a set when it is true of all the  *)
(* sets that lack one of its elements, is true of every finite set.        *)
LEMMA SmallerSetsFirst ==
  ASSUME NEW S, IsFiniteSet(S), NEW Good, {} \in Good,
         \A s \in SUBSET S : (\A x \in s : s \ {x} \in Good) => s \in Good
  PROVE  SUBSET S \subseteq Good
<1> DEFINE Sizes == {Cardinality(s) : s \in (SUBSET S) \ Good}
<1>1. ASSUME NEW s \in SUBSET S
      PROVE  /\ IsFiniteSet(s) /\ Cardinality(s) \in Nat
             /\ \A x \in s : s \ {x} \in SUBSET S /\ Cardinality(s \ {x}) < Cardinality(s)
  BY FS_Subset, FS_CardinalityType, FS_RemoveElement
<1>2. SUFFICES ASSUME Sizes # {}
               PROVE  FALSE
  OBVIOUS
<1>3. PICK n \in Sizes : \A k \in Sizes : n <= k
  <2>1. Sizes \subseteq Nat
    BY <1>1
  <2> HIDE DEF Sizes
  <2>2. QED
    BY <1>2, <2>1, MinOfNats
<1>4. PICK s \in (SUBSET S) \ Good : n = Cardinality(s)
  OBVIOUS
<1>5. \A x \in s : s \ {x} \in Good
  <2>1. SUFFICES ASSUME NEW x \in s, s \ {x} \notin Good
                 PROVE  FALSE
    OBVIOUS
  <2>2. Cardinality(s \ {x}) \in Sizes /\ Cardinality(s \ {x}) < Cardinality(s)
        /\ Cardinality(s \ {x}) \in Nat /\ Cardinality(s) \in Nat
    BY <1>1, <2>1
  <2> HIDE DEF Sizes
  <2>3. QED
    BY <1>3, <1>4, <2>2
<1>6. QED
  BY <1>4, <1>5

(* There is such a function.                                               *)
LEMMA FoldExists ==
  ASSUME NEW A, NEW op \in [A \X A -> A], NEW base \in A,
         NEW S, IsFiniteSet(S), NEW f, \A x \in S : f[x] \in A
  PROVE  \E g : IsFold(op, base, f, S, g)
<1> DEFINE Small(n) == {s \in SUBSET S : Cardinality(s) <= n}
           Value(g, s) == IF s = {} THEN base
                          ELSE LET x == CHOOSE x \in s : TRUE
                               IN  op[<<f[x], g[s \ {x}]>>]
           Sums(n, g) == g \in [Small(n) -> A] /\ \A s \in Small(n) : g[s] = Value(g, s)
           Able(n) == \E g : Sums(n, g)
           Bad == {n \in Nat : ~Able(n)}
<1>1. ASSUME NEW s \in SUBSET S, s # {}
      PROVE  LET x == CHOOSE x \in s : TRUE
             IN  /\ x \in s /\ s \ {x} \in SUBSET S
                 /\ Cardinality(s) \in Nat /\ Cardinality(s \ {x}) = Cardinality(s) - 1
                 /\ Cardinality(s) # 0
  <2>1. IsFiniteSet(s)
    BY FS_Subset
  <2>2. (CHOOSE x \in s : TRUE) \in s
    BY <1>1
  <2>3. QED
    BY <1>1, <2>1, <2>2, FS_RemoveElement, FS_CardinalityType, FS_EmptySet
<1>2. ASSUME NEW s \in SUBSET S
      PROVE  Cardinality(s) \in Nat /\ (Cardinality(s) = 0 <=> s = {})
  BY <1>2, FS_Subset, FS_CardinalityType, FS_EmptySet
<1>3. Bad = {}
  <2>1. SUFFICES ASSUME Bad # {}
                 PROVE  FALSE
    OBVIOUS
  <2>2. PICK n \in Bad : \A k \in Bad : n <= k
    <3>1. Bad \subseteq Nat
      OBVIOUS
    <3> HIDE DEF Bad
    <3>2. QED
      BY <2>1, <3>1, MinOfNats
  <2>6. n \in Nat /\ ~Able(n)
    <3> HIDE DEF Able
    <3>1. QED
      BY <2>2
  <2>3. CASE n = 0
    <3>1. \A s \in Small(0) : s = {}
      BY <1>2
    <3>2. Sums(0, [s \in Small(0) |-> base])
      BY <3>1
    <3>3. Able(0)
      BY <3>2
    <3> HIDE DEF Able
    <3>4. QED
      BY <2>6, <2>3, <3>3
  <2>4. CASE n # 0
    <3>1. n \in Nat /\ n - 1 \in Nat /\ n - 1 < n
      BY <2>4, <2>6
    <3>7. n - 1 \notin Bad
      <4> HIDE DEF Bad
      <4>1. QED
        BY <2>2, <3>1
    <3>8. Able(n - 1)
      BY <3>1, <3>7
    <3>2. PICK g : Sums(n - 1, g)
      BY <3>8
    <3> DEFINE h == [s \in Small(n) |-> Value(g, s)]
    <3>3. ASSUME NEW s \in Small(n)
          PROVE  h[s] \in A /\ h[s] = Value(h, s)
      <4>1. CASE s = {}
        BY <4>1
      <4>2. CASE s # {}
        <5> DEFINE x == CHOOSE x \in s : TRUE
        <5>1. /\ x \in s /\ x \in S /\ s \ {x} \in SUBSET S
              /\ Cardinality(s) \in Nat /\ Cardinality(s \ {x}) = Cardinality(s) - 1
          BY <1>1, <4>2
        <5>2. s \ {x} \in Small(n - 1) /\ s \ {x} \in Small(n)
          BY <3>1, <5>1
        <5>3. h[s \ {x}] = g[s \ {x}] /\ g[s \ {x}] \in A
          BY <3>2, <5>2
        <5>4. h[s] = op[<<f[x], g[s \ {x}]>>]
          BY <4>2
        <5>5. QED
          BY <4>2, <5>1, <5>3, <5>4
      <4>3. QED
        BY <4>1, <4>2
    <3>4. Sums(n, h)
      <4>1. h = [s \in Small(n) |-> h[s]]
        OBVIOUS
      <4> HIDE DEF h
      <4>2. QED
        BY <3>3, <4>1
    <3>5. Able(n)
      <4> HIDE DEF h, Sums
      <4>1. QED
        BY <3>4
    <3> HIDE DEF Able
    <3>6. QED
      BY <2>6, <3>5
  <2>5. QED
    BY <2>3, <2>4
<1>4. Cardinality(S) \in Nat
  BY FS_CardinalityType
<1>5. PICK g : Sums(Cardinality(S), g)
  BY <1>3, <1>4
<1>6. Small(Cardinality(S)) = SUBSET S
  <2>1. \A s \in SUBSET S : Cardinality(s) <= Cardinality(S)
    BY FS_Subset
  <2>2. QED
    BY <2>1
<1>7. g \in [SUBSET S -> A] /\ \A s \in SUBSET S : g[s] = Value(g, s)
  BY <1>5, <1>6
<1>8. IsFold(op, base, f, S, g)
  <2>1. g = [s \in SUBSET S |-> g[s]]
    BY <1>7
  <2>2. QED
    BY <1>7, <2>1 DEF IsFold
<1>9. QED
  BY <1>7, <1>8

(* Whichever it is, its values have the type of what is folded.            *)
LEMMA FoldHasType ==
  ASSUME NEW A, NEW op \in [A \X A -> A], NEW base \in A,
         NEW S, IsFiniteSet(S), NEW f, \A x \in S : f[x] \in A,
         NEW g, IsFold(op, base, f, S, g)
  PROVE  \A s \in SUBSET S : g[s] \in A
<1> DEFINE Good == {s \in SUBSET S : g[s] \in A}
<1>1. {} \in Good
  BY DEF IsFold
<1>2. ASSUME NEW s \in SUBSET S, \A x \in s : s \ {x} \in Good
      PROVE  s \in Good
  <2>1. CASE s # {}
    <3>1. PICK c \in s : c = CHOOSE x \in s : TRUE
      BY <2>1
    <3>2. g[s] = op[<<f[c], g[s \ {c}]>>]
      BY <2>1, <3>1 DEF IsFold
    <3>3. g[s \ {c}] \in A /\ f[c] \in A
      BY <1>2
    <3>4. QED
      BY <3>2, <3>3
  <2>2. QED
    BY <1>1, <2>1
<1>3. SUBSET S \subseteq Good
  <2> HIDE DEF Good
  <2>1. QED
    BY <1>1, <1>2, SmallerSetsFirst
<1>4. QED
  BY <1>3

(* A sum exists for every function to the integers, ...                    *)
LEMMA SumExists ==
  ASSUME NEW S, IsFiniteSet(S), NEW f, \A x \in S : f[x] \in Int
  PROVE  \E g : IsSum(f, S, g)
<1> DEFINE plus == [xy \in Int \X Int |-> xy[1] + xy[2]]
<1>1. plus \in [Int \X Int -> Int] /\ 0 \in Int
  OBVIOUS
<1>2. \A x, y \in Int : plus[<<x, y>>] = x + y
  OBVIOUS
<1> HIDE DEF plus
<1>3. PICK g : IsFold(plus, 0, f, S, g)
  BY <1>1, FoldExists
<1>4. \A s \in SUBSET S : g[s] \in Int
  BY <1>1, <1>3, FoldHasType
<1>5. ASSUME NEW s \in SUBSET S, s # {}
      PROVE  LET x == CHOOSE x \in s : TRUE
             IN  plus[<<f[x], g[s \ {x}]>>] = f[x] + g[s \ {x}]
  <2>1. (CHOOSE x \in s : TRUE) \in s
    BY <1>5
  <2>2. QED
    BY <1>2, <1>4, <2>1
<1>6. IsSum(f, S, g)
  BY <1>3, <1>5 DEF IsFold, IsSum
<1>7. QED
  BY <1>6

(* ... and so does a product.                                              *)
LEMMA ProductExists ==
  ASSUME NEW S, IsFiniteSet(S), NEW f, \A x \in S : f[x] \in Int
  PROVE  \E g : IsProduct(f, S, g)
<1> DEFINE times == [xy \in Int \X Int |-> xy[1] * xy[2]]
<1>1. times \in [Int \X Int -> Int] /\ 1 \in Int
  OBVIOUS
<1>2. \A x, y \in Int : times[<<x, y>>] = x * y
  OBVIOUS
<1> HIDE DEF times
<1>3. PICK g : IsFold(times, 1, f, S, g)
  BY <1>1, FoldExists
<1>4. \A s \in SUBSET S : g[s] \in Int
  BY <1>1, <1>3, FoldHasType
<1>5. ASSUME NEW s \in SUBSET S, s # {}
      PROVE  LET x == CHOOSE x \in s : TRUE
             IN  times[<<f[x], g[s \ {x}]>>] = f[x] * g[s \ {x}]
  <2>1. (CHOOSE x \in s : TRUE) \in s
    BY <1>5
  <2>2. QED
    BY <1>2, <1>4, <2>1
<1>6. IsProduct(f, S, g)
  BY <1>3, <1>5 DEF IsFold, IsProduct
<1>7. QED
  BY <1>6

(* A sum of integers is an integer, whatever the order.                    *)
IsTally(f, S, g) ==
  /\ g[{}] = 0
  /\ \A s \in SUBSET S : g[s] \in Int
  /\ \A s \in SUBSET S : \A x \in s : g[s] = f[x] + g[s \ {x}]

LEMMA SumAddsUp ==
  ASSUME NEW S, IsFiniteSet(S), NEW f, \A x \in S : f[x] \in Int,
         NEW g, IsSum(f, S, g)
  PROVE  IsTally(f, S, g)
<1> DEFINE Good == {s \in SUBSET S : /\ g[s] \in Int
                                    /\ \A x \in s : /\ g[s \ {x}] \in Int
                                                    /\ g[s] = f[x] + g[s \ {x}]}
<1>1. g[{}] = 0 /\ {} \in Good
  BY DEF IsSum
<1>2. ASSUME NEW s \in SUBSET S, \A x \in s : s \ {x} \in Good
      PROVE  s \in Good
  <2>1. CASE s = {}
    BY <1>1, <2>1
  <2>2. CASE s # {}
    <3>1. PICK c \in s : g[s] = f[c] + g[s \ {c}]
      BY <2>2 DEF IsSum
    <3>2. \A x \in s : g[s \ {x}] \in Int /\ f[x] \in Int
      BY <1>2
    <3>3. ASSUME NEW x \in s, x # c
          PROVE  g[s] = f[x] + g[s \ {x}]
      <4>1. x \in s \ {c} /\ c \in s \ {x} /\ (s \ {x}) \ {c} = (s \ {c}) \ {x}
        BY <3>3
      <4>2. /\ g[s \ {c}] = f[x] + g[(s \ {c}) \ {x}]
            /\ g[s \ {x}] = f[c] + g[(s \ {x}) \ {c}]
        BY <1>2, <4>1
      <4>3. PICK rest : rest = g[(s \ {c}) \ {x}]
        OBVIOUS
      <4>4. rest \in Int
        BY <1>2, <4>1, <4>3
      <4>5. PICK less, all : less = g[s \ {x}] /\ all = g[s]
        OBVIOUS
      <4>6. all = f[c] + (f[x] + rest) /\ less = f[c] + rest
        BY <3>1, <4>1, <4>2, <4>3, <4>5
      <4>7. f[c] \in Int /\ f[x] \in Int
        OBVIOUS
      <4>8. all = f[x] + less
        BY <4>4, <4>6, <4>7
      <4>9. QED
        BY <4>5, <4>8
    <3>4. g[s] \in Int
      <4>1. PICK rest : rest = g[s \ {c}]
        OBVIOUS
      <4>2. rest \in Int /\ f[c] \in Int /\ g[s] = f[c] + rest
        BY <3>1, <3>2, <4>1
      <4>3. f[c] + rest \in Int
        BY <4>2
      <4>4. QED
        BY <4>2, <4>3
    <3>5. \A x \in s : g[s] = f[x] + g[s \ {x}]
      BY <3>1, <3>3
    <3>6. QED
      BY <3>2, <3>4, <3>5
  <2>3. QED
    BY <2>1, <2>2
<1>3. SUBSET S \subseteq Good
  <2> HIDE DEF Good
  <2>1. QED
    BY <1>1, <1>2, SmallerSetsFirst
<1>4. QED
  BY <1>1, <1>3 DEF IsTally

-----------------------------------------------------------------------------
(* Sums of a function over a finite set.                                   *)

(* The sum of f over S.                                                    *)
Total(f, S) == LET total[s \in SUBSET S] ==
                     IF s = {} THEN 0
                     ELSE LET x == CHOOSE x \in s : TRUE
                          IN  f[x] + total[s \ {x}]
               IN  total[S]

(* It is one of the sums above.                                             *)
LEMMA TotalIsASum ==
  ASSUME NEW S, IsFiniteSet(S), NEW f, \A x \in S : f[x] \in Int
  PROVE  \E g : IsSum(f, S, g) /\ Total(f, S) = g[S]
<1> DEFINE Body(g) == g = [s \in SUBSET S |->
                             IF s = {} THEN 0
                             ELSE LET x == CHOOSE x \in s : TRUE
                                  IN  f[x] + g[s \ {x}]]
<1>1. PICK g : IsSum(f, S, g)
  BY SumExists
<1>2. Body(g)
  BY <1>1 DEF IsSum
<1>3. Body(CHOOSE h : Body(h))
  <2> HIDE DEF Body
  <2>1. QED
    BY <1>2, Zenon
<1>4. Total(f, S) = (CHOOSE h : Body(h))[S]
  BY DEF Total
<1>5. IsSum(f, S, CHOOSE h : Body(h))
  BY <1>3 DEF IsSum
<1>6. QED
  BY <1>4, <1>5

(* There is only one such function, on the whole set and on a part of it.  *)
LEMMA SumsAgree ==
  ASSUME NEW S, IsFiniteSet(S), NEW f, \A x \in S : f[x] \in Int,
         NEW g, IsSum(f, S, g), NEW T \in SUBSET S
  PROVE  g[T] = Total(f, T)
<1>1. IsFiniteSet(T) /\ \A x \in T : f[x] \in Int
  BY FS_Subset
<1>2. PICK h : IsSum(f, T, h) /\ Total(f, T) = h[T]
  BY <1>1, TotalIsASum
<1> DEFINE Good == {s \in SUBSET T : g[s] = h[s]}
<1>3. {} \in Good
  BY <1>2 DEF IsSum
<1>4. ASSUME NEW s \in SUBSET T, \A x \in s : s \ {x} \in Good
      PROVE  s \in Good
  <2>1. CASE s # {}
    <3>1. PICK c \in s : c = CHOOSE x \in s : TRUE
      BY <2>1
    <3>2. g[s] = f[c] + g[s \ {c}]
      BY <2>1, <3>1 DEF IsSum
    <3>3. h[s] = f[c] + h[s \ {c}]
      BY <1>2, <2>1, <3>1 DEF IsSum
    <3>4. g[s \ {c}] = h[s \ {c}]
      BY <1>4
    <3>5. QED
      BY <3>2, <3>3, <3>4
  <2>2. QED
    BY <1>3, <2>1
<1>5. SUBSET T \subseteq Good
  <2> HIDE DEF Good
  <2>1. QED
    BY <1>1, <1>3, <1>4, SmallerSetsFirst
<1>6. QED
  BY <1>2, <1>5

(* It is an integer, and one element may be taken out.                     *)
LEMMA TotalStep ==
  ASSUME NEW S, IsFiniteSet(S), NEW f, \A x \in S : f[x] \in Int
  PROVE  /\ Total(f, {}) = 0
         /\ \A T \in SUBSET S :
              /\ Total(f, T) \in Int
              /\ \A x \in T : Total(f, T) = f[x] + Total(f, T \ {x})
<1>1. PICK g : IsSum(f, S, g)
  BY SumExists
<1>2. \A T \in SUBSET S : Total(f, T) = g[T]
  BY <1>1, SumsAgree
<1>3. /\ g[{}] = 0
      /\ \A s \in SUBSET S : g[s] \in Int
      /\ \A s \in SUBSET S : \A x \in s : g[s] = f[x] + g[s \ {x}]
  <2>1. IsTally(f, S, g)
    BY <1>1, SumAddsUp
  <2>2. QED
    BY <2>1, Zenon DEF IsTally
<1>4. \A T \in SUBSET S : \A x \in T : T \ {x} \in SUBSET S
  OBVIOUS
<1>5. QED
  BY <1>2, <1>3, <1>4

(* Taking an element out of any subset of S takes its value out of the sum.*)
SumsUp(f, S) ==
  \A T \in SUBSET S : \A x \in T : Total(f, T) = f[x] + Total(f, T \ {x})

LEMMA PartsSumUp ==
  ASSUME NEW S, IsFiniteSet(S), NEW f, \A x \in S : f[x] \in Int
  PROVE  SumsUp(f, S)
<1>1. SUFFICES ASSUME NEW T \in SUBSET S, NEW x \in T
               PROVE  Total(f, T) = f[x] + Total(f, T \ {x})
  BY DEF SumsUp
<1>2. QED
  BY TotalStep

(* The sum of the sums.                                                    *)
LEMMA TotalOfSum ==
  ASSUME NEW S, IsFiniteSet(S), NEW f, NEW g, NEW h,
         \A x \in S : f[x] \in Int /\ g[x] \in Int /\ h[x] = f[x] + g[x]
  PROVE  Total(h, S) = Total(f, S) + Total(g, S)
<1> DEFINE Good == {T \in SUBSET S : Total(h, T) = Total(f, T) + Total(g, T)}
<1>1. \A x \in S : h[x] \in Int
  OBVIOUS
<1>2. {} \in Good
  BY <1>1, TotalStep
<1>3. ASSUME NEW T \in SUBSET S, \A x \in T : T \ {x} \in Good
      PROVE  T \in Good
  <2>1. CASE T # {}
    <3>1. PICK x \in T : TRUE
      BY <2>1
    <3>2. PICK a, b, c : a = Total(f, T \ {x}) /\ b = Total(g, T \ {x}) /\ c = Total(h, T \ {x})
      OBVIOUS
    <3>3. a \in Int /\ b \in Int /\ c = a + b
      BY <1>3, <3>1, <3>2, TotalStep
    <3>4. Total(f, T) = f[x] + a /\ Total(g, T) = g[x] + b /\ Total(h, T) = h[x] + c
      BY <1>1, <3>1, <3>2, TotalStep
    <3>5. f[x] \in Int /\ g[x] \in Int /\ h[x] = f[x] + g[x]
      BY <3>1
    <3>6. h[x] + c = (f[x] + a) + (g[x] + b)
      BY <3>3, <3>5
    <3>7. QED
      BY <3>4, <3>6
  <2>2. QED
    BY <1>2, <2>1
<1>4. SUBSET S \subseteq Good
  <2> HIDE DEF Good
  <2>1. QED
    BY <1>2, <1>3, SmallerSetsFirst
<1>5. QED
  BY <1>4

(* A common factor comes out of the sum.                                   *)
LEMMA TotalOfProduct ==
  ASSUME NEW S, IsFiniteSet(S), NEW k \in Int, NEW f, NEW h,
         \A x \in S : f[x] \in Int /\ h[x] = k * f[x]
  PROVE  Total(h, S) = k * Total(f, S)
<1> DEFINE Good == {T \in SUBSET S : Total(h, T) = k * Total(f, T)}
<1>1. \A x \in S : h[x] \in Int
  OBVIOUS
<1>2. {} \in Good
  BY <1>1, TotalStep
<1>3. ASSUME NEW T \in SUBSET S, \A x \in T : T \ {x} \in Good
      PROVE  T \in Good
  <2>1. CASE T # {}
    <3>1. PICK x \in T : TRUE
      BY <2>1
    <3>2. PICK a, c : a = Total(f, T \ {x}) /\ c = Total(h, T \ {x})
      OBVIOUS
    <3>3. a \in Int /\ c = k * a
      BY <1>3, <3>1, <3>2, TotalStep
    <3>4. Total(f, T) = f[x] + a /\ Total(h, T) = h[x] + c
      BY <1>1, <3>1, <3>2, TotalStep
    <3>5. f[x] \in Int /\ h[x] = k * f[x]
      BY <3>1
    <3>6. h[x] + c = k * (f[x] + a)
      <4>1. \A m, n \in Int : k * m + k * n = k * (m + n)
        OBVIOUS
      <4>2. QED
        BY <3>3, <3>5, <4>1
    <3>7. QED
      BY <3>4, <3>6
  <2>2. QED
    BY <1>2, <2>1
<1>4. SUBSET S \subseteq Good
  <2> HIDE DEF Good
  <2>1. QED
    BY <1>2, <1>3, SmallerSetsFirst
<1>5. QED
  BY <1>4

(* Larger terms, larger sum.                                               *)
LEMMA TotalIsMonotone ==
  ASSUME NEW S, IsFiniteSet(S), NEW f, NEW g,
         \A x \in S : f[x] \in Int /\ g[x] \in Int /\ f[x] <= g[x]
  PROVE  Total(f, S) <= Total(g, S)
<1> DEFINE Good == {T \in SUBSET S : Total(f, T) <= Total(g, T)}
<1>2. {} \in Good
  BY TotalStep
<1>3. ASSUME NEW T \in SUBSET S, \A x \in T : T \ {x} \in Good
      PROVE  T \in Good
  <2>1. CASE T # {}
    <3>1. PICK x \in T : TRUE
      BY <2>1
    <3>2. PICK a, b : a = Total(f, T \ {x}) /\ b = Total(g, T \ {x})
      OBVIOUS
    <3>3. a \in Int /\ b \in Int /\ a <= b
      BY <1>3, <3>1, <3>2, TotalStep
    <3>4. Total(f, T) = f[x] + a /\ Total(g, T) = g[x] + b
      BY <3>1, <3>2, TotalStep
    <3>5. f[x] \in Int /\ g[x] \in Int /\ f[x] <= g[x]
      BY <3>1
    <3>6. f[x] + a <= g[x] + b
      BY <3>3, <3>5
    <3>7. QED
      BY <3>4, <3>6
  <2>2. QED
    BY <1>2, <2>1
<1>4. SUBSET S \subseteq Good
  <2> HIDE DEF Good
  <2>1. QED
    BY <1>2, <1>3, SmallerSetsFirst
<1>5. QED
  BY <1>4

(* The same terms, the same sum.                                           *)
LEMMA SameTotal ==
  ASSUME NEW S, IsFiniteSet(S), NEW f, NEW g,
         \A x \in S : f[x] \in Int /\ f[x] = g[x]
  PROVE  Total(f, S) = Total(g, S)
<1>1. Total(f, S) <= Total(g, S) /\ Total(g, S) <= Total(f, S)
  BY TotalIsMonotone
<1>2. Total(f, S) \in Int /\ Total(g, S) \in Int
  BY TotalStep
<1>3. QED
  BY <1>1, <1>2

(* Every term the same.                                                    *)
LEMMA TotalOfConstant ==
  ASSUME NEW S, IsFiniteSet(S), NEW c \in Int, NEW f, \A x \in S : f[x] = c
  PROVE  Total(f, S) = c * Cardinality(S)
<1> DEFINE Good == {T \in SUBSET S : Total(f, T) = c * Cardinality(T)}
<1>1. \A x \in S : f[x] \in Int
  OBVIOUS
<1>2. {} \in Good
  BY <1>1, TotalStep, FS_EmptySet
<1>3. ASSUME NEW T \in SUBSET S, \A x \in T : T \ {x} \in Good
      PROVE  T \in Good
  <2>1. CASE T # {}
    <3>1. PICK x \in T : TRUE
      BY <2>1
    <3>2. Total(f, T) = f[x] + Total(f, T \ {x}) /\ f[x] = c
      BY <1>1, <3>1, TotalStep
    <3>3. Total(f, T \ {x}) = c * Cardinality(T \ {x})
      BY <1>3, <3>1
    <3>4. IsFiniteSet(T)
      BY FS_Subset
    <3>5. PICK n : n = Cardinality(T)
      OBVIOUS
    <3>6. n \in Nat /\ Cardinality(T \ {x}) = n - 1
      BY <3>1, <3>4, <3>5, FS_RemoveElement, FS_CardinalityType
    <3>7. c + c * (n - 1) = c * n
      BY <3>6
    <3>8. QED
      BY <3>2, <3>3, <3>5, <3>6, <3>7
  <2>2. QED
    BY <1>2, <2>1
<1>4. SUBSET S \subseteq Good
  <2> HIDE DEF Good
  <2>1. QED
    BY <1>2, <1>3, SmallerSetsFirst
<1>5. QED
  BY <1>4

(* No term negative.                                                       *)
LEMMA TotalIsNatural ==
  ASSUME NEW S, IsFiniteSet(S), NEW f, \A x \in S : f[x] \in Nat
  PROVE  Total(f, S) \in Nat
<1> DEFINE zero == [x \in S |-> 0]
<1>1. Total(zero, S) = 0 * Cardinality(S) /\ Cardinality(S) \in Int
  BY TotalOfConstant, FS_CardinalityType
<1>2. Total(zero, S) <= Total(f, S)
  BY TotalIsMonotone
<1>3. Total(f, S) \in Int
  BY TotalStep
<1>4. QED
  BY <1>1, <1>2, <1>3

(* Terms that are zero may be left out.                                    *)
LEMMA TotalOfPart ==
  ASSUME NEW S, IsFiniteSet(S), NEW f, \A x \in S : f[x] \in Int,
         NEW P \in SUBSET S, \A x \in S : x \notin P => f[x] = 0
  PROVE  Total(f, S) = Total(f, P)
<1> DEFINE Rest == S \ P
           Good == {T \in SUBSET Rest : Total(f, P \union T) = Total(f, P)}
<1>1. IsFiniteSet(Rest)
  BY FS_Subset
<1>2. {} \in Good
  <2>1. P \union {} = P
    OBVIOUS
  <2>2. QED
    BY <2>1
<1>3. ASSUME NEW T \in SUBSET Rest, \A x \in T : T \ {x} \in Good
      PROVE  T \in Good
  <2>1. CASE T # {}
    <3>1. PICK x \in T : TRUE
      BY <2>1
    <3>2. /\ P \union T \in SUBSET S /\ x \in P \union T
          /\ (P \union T) \ {x} = P \union (T \ {x})
      BY <3>1
    <3>3. Total(f, P \union T) = f[x] + Total(f, P \union (T \ {x}))
      BY <3>2, TotalStep
    <3>4. f[x] = 0 /\ Total(f, P \union (T \ {x})) = Total(f, P) /\ Total(f, P) \in Int
      BY <1>3, <3>1, TotalStep
    <3>5. QED
      BY <3>3, <3>4
  <2>2. QED
    BY <1>2, <2>1
<1>4. SUBSET Rest \subseteq Good
  <2> HIDE DEF Good, Rest
  <2>1. QED
    BY <1>1, <1>2, <1>3, SmallerSetsFirst
<1>5. P \union Rest = S /\ Rest \in Good
  <2>1. Rest \in SUBSET Rest
    OBVIOUS
  <2>2. Rest \in Good
    <3> HIDE DEF Good, Rest
    <3>1. QED
      BY <1>4, <2>1
  <2>3. QED
    BY <2>2
<1>6. QED
  BY <1>5

(* A double sum may be taken by rows or by columns.                        *)
Transposed(a, b, S, U) == \A x \in S, y \in U : a[x][y] \in Int /\ b[y][x] = a[x][y]

Totals(rows, a, S, U) == \A x \in S : rows[x] = Total(a[x], U)

(* The rows together are the columns together.                             *)
LEMMA TotalsSwap ==
  ASSUME NEW S, IsFiniteSet(S), NEW U, IsFiniteSet(U),
         NEW a, NEW b, Transposed(a, b, S, U),
         NEW rows, Totals(rows, a, S, U), NEW columns, Totals(columns, b, U, S)
  PROVE  Total(rows, S) = Total(columns, U)
<1> DEFINE cols(T) == [y \in U |-> Total(b[y], T)]
           Good == {T \in SUBSET S : Total(rows, T) = Total(cols(T), U)}
<1>0. ASSUME NEW x \in S, NEW y \in U
      PROVE  a[x][y] \in Int /\ b[y][x] = a[x][y]
  BY DEF Transposed
<1>1. ASSUME NEW x \in S
      PROVE  rows[x] \in Int /\ rows[x] = Total(a[x], U)
  <2>1. PICK g : g = a[x] /\ \A y \in U : g[y] \in Int
    BY <1>0
  <2>2. Total(g, U) \in Int
    BY <2>1, TotalStep
  <2>3. QED
    BY <2>1, <2>2 DEF Totals
<1>2. ASSUME NEW T \in SUBSET S, NEW y \in U
      PROVE  /\ cols(T)[y] \in Int /\ cols(T)[y] = Total(b[y], T)
             /\ \A x \in T : Total(b[y], T) = a[x][y] + Total(b[y], T \ {x})
  <2>1. PICK g : g = b[y] /\ \A x \in S : g[x] \in Int /\ g[x] = a[x][y]
    BY <1>0
  <2>2. Total(g, T) \in Int /\ \A x \in T : Total(g, T) = g[x] + Total(g, T \ {x})
    BY <2>1, TotalStep
  <2>3. QED
    BY <2>1, <2>2
<1>3. {} \in Good
  <2>1. \A y \in U : cols({})[y] = 0
    <3>1. SUFFICES ASSUME NEW y \in U
                   PROVE  Total(b[y], {}) = 0
      OBVIOUS
    <3>2. PICK g : g = b[y] /\ \A x \in S : g[x] \in Int
      BY <1>0
    <3>3. QED
      BY <3>2, TotalStep
  <2>2. Total(cols({}), U) = 0 * Cardinality(U) /\ Cardinality(U) \in Int
    <3> HIDE DEF cols
    <3>1. QED
      BY <2>1, TotalOfConstant, FS_CardinalityType
  <2>3. QED
    BY <1>1, <2>2, TotalStep
<1>4. ASSUME NEW T \in SUBSET S, \A x \in T : T \ {x} \in Good
      PROVE  T \in Good
  <2>1. CASE T # {}
    <3>1. PICK x \in T : TRUE
      BY <2>1
    <3>2. T \ {x} \in SUBSET S /\ Total(rows, T \ {x}) = Total(cols(T \ {x}), U)
      BY <1>4, <3>1
    <3>3. Total(rows, T) = Total(a[x], U) + Total(rows, T \ {x})
      <4>1. \A y \in S : rows[y] \in Int
        BY <1>1
      <4>2. Total(rows, T) = rows[x] + Total(rows, T \ {x})
        BY <3>1, <4>1, TotalStep
      <4>3. rows[x] = Total(a[x], U)
        BY <1>1, <3>1
      <4>4. QED
        BY <4>2, <4>3, Zenon
    <3>4. \A y \in U : /\ a[x][y] \in Int /\ cols(T \ {x})[y] \in Int
                       /\ cols(T)[y] = a[x][y] + cols(T \ {x})[y]
      <4> HIDE DEF cols
      <4>1. TAKE y \in U
      <4>2. a[x][y] \in Int
        BY <1>0, <3>1
      <4>3. cols(T \ {x})[y] \in Int /\ cols(T \ {x})[y] = Total(b[y], T \ {x})
        BY <1>2, <3>2
      <4>4. cols(T)[y] = Total(b[y], T) /\ Total(b[y], T) = a[x][y] + Total(b[y], T \ {x})
        BY <1>2, <3>1
      <4>5. QED
        BY <4>2, <4>3, <4>4
    <3>5. Total(cols(T), U) = Total(a[x], U) + Total(cols(T \ {x}), U)
      <4>1. PICK c, d, e : c = cols(T) /\ d = cols(T \ {x}) /\ e = a[x]
        OBVIOUS
      <4> HIDE DEF cols
      <4>2. \A y \in U : e[y] \in Int /\ d[y] \in Int /\ c[y] = e[y] + d[y]
        BY <3>4, <4>1
      <4>3. Total(c, U) = Total(e, U) + Total(d, U)
        BY <4>2, TotalOfSum
      <4>4. QED
        BY <4>1, <4>3
    <3>6. QED
      BY <3>2, <3>3, <3>5
  <2>2. QED
    BY <1>3, <2>1
<1>5. SUBSET S \subseteq Good
  <2> HIDE DEF Good
  <2>1. QED
    BY <1>3, <1>4, SmallerSetsFirst
<1>6. S \in Good
  BY <1>5
<1>7. Total(rows, S) = Total(cols(S), U)
  BY <1>6
<1>8. \A y \in U : cols(S)[y] \in Int /\ cols(S)[y] = columns[y]
  <2>1. S \in SUBSET S
    OBVIOUS
  <2> HIDE DEF cols
  <2>2. QED
    BY <1>2, <2>1 DEF Totals
<1>9. Total(cols(S), U) = Total(columns, U)
  <2> HIDE DEF cols
  <2>1. QED
    BY <1>8, SameTotal
<1>10. QED
  BY <1>7, <1>9

(* A product of natural numbers is one, and every factor divides it.       *)
LEMMA ProductMultipliesUp ==
  ASSUME NEW S, IsFiniteSet(S), NEW f, \A x \in S : f[x] \in Nat,
         NEW g, IsProduct(f, S, g)
  PROVE  \A s \in SUBSET S : /\ g[s] \in Nat
                             /\ \A x \in s : g[s] = f[x] * g[s \ {x}]
<1> DEFINE Good == {s \in SUBSET S : /\ g[s] \in Nat
                                    /\ \A x \in s : /\ g[s \ {x}] \in Nat
                                                    /\ g[s] = f[x] * g[s \ {x}]}
<1>1. {} \in Good
  BY DEF IsProduct
<1>2. ASSUME NEW s \in SUBSET S, \A x \in s : s \ {x} \in Good
      PROVE  s \in Good
  <2>1. CASE s = {}
    BY <1>1, <2>1
  <2>2. CASE s # {}
    <3>1. PICK c \in s : g[s] = f[c] * g[s \ {c}]
      BY <2>2 DEF IsProduct
    <3>2. \A x \in s : g[s \ {x}] \in Nat /\ f[x] \in Nat
      BY <1>2
    <3>3. ASSUME NEW x \in s, x # c
          PROVE  g[s] = f[x] * g[s \ {x}]
      <4>1. x \in s \ {c} /\ c \in s \ {x} /\ (s \ {x}) \ {c} = (s \ {c}) \ {x}
        BY <3>3
      <4>2. /\ g[s \ {c}] = f[x] * g[(s \ {c}) \ {x}]
            /\ g[s \ {x}] = f[c] * g[(s \ {x}) \ {c}]
        BY <1>2, <4>1
      <4>3. PICK rest : rest = g[(s \ {c}) \ {x}]
        OBVIOUS
      <4>4. rest \in Nat /\ f[c] \in Nat /\ f[x] \in Nat
        BY <1>2, <4>1, <4>3
      <4>5. \A m, n, k \in Nat : m * (n * k) = n * (m * k)
        OBVIOUS
      <4>6. f[c] * (f[x] * rest) = f[x] * (f[c] * rest)
        BY <4>4, <4>5
      <4>7. QED
        BY <3>1, <4>1, <4>2, <4>3, <4>6
    <3>4. g[s] \in Nat
      <4>1. \A m, n \in Nat : m * n \in Nat
        OBVIOUS
      <4>2. QED
        BY <3>1, <3>2, <4>1
    <3>5. QED
      BY <3>1, <3>2, <3>3, <3>4
  <2>3. QED
    BY <2>1, <2>2
<1>3. SUBSET S \subseteq Good
  <2> HIDE DEF Good
  <2>1. QED
    BY <1>1, <1>2, SmallerSetsFirst
<1>4. QED
  BY <1>3

(* A function to the integers is largest somewhere on a finite set.        *)
LEMMA LargestSomewhere ==
  ASSUME NEW S, IsFiniteSet(S), S # {}, NEW f, \A x \in S : f[x] \in Int
  PROVE  \E x \in S : \A y \in S : f[y] <= f[x]
<1> DEFINE Good == {T \in SUBSET S : T # {} => \E x \in T : \A y \in T : f[y] <= f[x]}
<1>1. {} \in Good
  OBVIOUS
<1>2. ASSUME NEW T \in SUBSET S, \A x \in T : T \ {x} \in Good
      PROVE  T \in Good
  <2>1. CASE T # {}
    <3>1. PICK c \in T : TRUE
      BY <2>1
    <3>2. CASE T \ {c} = {}
      <4>1. \A y \in T : y = c
        BY <3>2
      <4>2. \A y \in T : f[y] <= f[c]
        BY <4>1
      <4>3. QED
        BY <4>2
    <3>3. CASE T \ {c} # {}
      <4>1. PICK x \in T \ {c} : \A y \in T \ {c} : f[y] <= f[x]
        BY <1>2, <3>3
      <4>2. f[x] \in Int /\ f[c] \in Int /\ \A y \in T : f[y] \in Int
        OBVIOUS
      <4>3. CASE f[c] <= f[x]
        BY <4>1, <4>3
      <4>4. CASE f[x] <= f[c]
        BY <4>1, <4>2, <4>4
      <4>5. QED
        BY <4>2, <4>3, <4>4
    <3>4. QED
      BY <3>2, <3>3
  <2>2. QED
    BY <1>1, <2>1
<1>3. SUBSET S \subseteq Good
  <2> HIDE DEF Good
  <2>1. QED
    BY <1>1, <1>2, SmallerSetsFirst
<1>4. QED
  BY <1>3
=============================================================================
