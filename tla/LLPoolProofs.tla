---------------------------- MODULE LLPoolProofs ----------------------------
(***************************************************************************)
(* Facts about the pools of the benchmark server: what the loops over a    *)
(* pool keep, in which order, and that adding and removing entries leaves  *)
(* a pool a pool.                                                          *)
(***************************************************************************)
EXTENDS LLPool, BasicLemmas, SequenceTheorems

-----------------------------------------------------------------------------
(* The recursive function in Within exists, and picks from s, in order,    *)
(* the elements that are in S.                                             *)

Keeps(s, S, n, f) ==
  f = [i \in 0..n |-> IF i = 0 THEN <<>>
                      ELSE IF s[i] \in S THEN Append(f[i - 1], s[i])
                      ELSE f[i - 1]]

LEMMA KeptExists ==
  ASSUME NEW s, NEW S, NEW n \in Nat
  PROVE  \E f : Keeps(s, S, n, f)
<1> DEFINE Bad == {m \in Nat : ~\E f : Keeps(s, S, m, f)}
<1>1. SUFFICES Bad = {}
  OBVIOUS
<1>2. SUFFICES ASSUME Bad # {}
               PROVE  FALSE
  OBVIOUS
<1>3. PICK m \in Bad : \A k \in Bad : m <= k
  BY <1>2, MinOfNats
<1>4. CASE m = 0
  <2>1. Keeps(s, S, 0, [i \in 0..0 |-> <<>>])
    BY DEF Keeps
  <2>2. QED
    BY <1>3, <1>4, <2>1
<1>5. CASE m # 0
  <2>1. m - 1 \in Nat /\ m - 1 \notin Bad
    BY <1>3, <1>5
  <2>2. PICK g : Keeps(s, S, m - 1, g)
    BY <2>1
  <2> DEFINE last == IF s[m] \in S THEN Append(g[m - 1], s[m]) ELSE g[m - 1]
             f == [i \in 0..m |-> IF i = m THEN last ELSE g[i]]
  <2>3. ASSUME NEW i \in 0..m
        PROVE  f[i] = IF i = 0 THEN <<>>
                      ELSE IF s[i] \in S THEN Append(f[i - 1], s[i])
                      ELSE f[i - 1]
    <3>1. m \in Nat
      BY <1>3
    <3>2. CASE i = m
      <4>1. f[m - 1] = g[m - 1] /\ f[m] = last
        BY <3>1, <1>5
      <4>2. QED
        BY <3>2, <4>1, <1>5
    <3>3. CASE i # m
      <4>1. i \in 0..m - 1 /\ f[i] = g[i] /\ (i # 0 => i - 1 \in 0..m - 1 /\ f[i - 1] = g[i - 1])
        BY <3>1, <3>3
      <4>2. g[i] = IF i = 0 THEN <<>>
                   ELSE IF s[i] \in S THEN Append(g[i - 1], s[i])
                   ELSE g[i - 1]
        BY <2>2, <4>1 DEF Keeps
      <4>3. QED
        BY <4>1, <4>2
    <3>4. QED
      BY <3>2, <3>3
  <2>4. Keeps(s, S, m, f)
    <3> HIDE DEF last
    <3>1. DOMAIN f = 0..m
      OBVIOUS
    <3>2. f = [i \in 0..m |-> f[i]]
      OBVIOUS
    <3> HIDE DEF f
    <3>3. QED
      BY <2>3, <3>2 DEF Keeps
  <2>5. QED
    BY <1>3, <2>4
<1>6. QED
  BY <1>4, <1>5

LEMMA WithinKeeps ==
  ASSUME NEW s, NEW S, Len(s) \in Nat
  PROVE  \E f : Keeps(s, S, Len(s), f) /\ Within(s, S) = f[Len(s)]
<1> DEFINE F == CHOOSE f : Keeps(s, S, Len(s), f)
<1>1. Keeps(s, S, Len(s), F)
  BY KeptExists
<1>2. Within(s, S) = F[Len(s)]
  BY DEF Within, Keeps
<1>3. QED
  BY <1>1, <1>2

(* h names the places of s that r consists of: all those up to n that hold *)
(* an element of S, in their order.                                        *)
Picks(s, S, n, r, h) ==
  /\ h \in [1..Len(r) -> 1..n]
  /\ \A i, j \in 1..Len(r) : i < j => h[i] < h[j]
  /\ \A i \in 1..Len(r) : r[i] = s[h[i]] /\ r[i] \in S
  /\ \A k \in 1..n : s[k] \in S => \E i \in 1..Len(r) : h[i] = k

LEMMA PicksStart ==
  ASSUME NEW s, NEW S
  PROVE  Picks(s, S, 0, <<>>, <<>>)
BY DEF Picks

LEMMA PicksOneMore ==
  ASSUME NEW X, NEW s \in Seq(X), NEW S, NEW n \in Nat, n + 1 <= Len(s),
         NEW r \in Seq(X), NEW h, Picks(s, S, n, r, h)
  PROVE  /\ s[n + 1] \in S => \E g : Picks(s, S, n + 1, Append(r, s[n + 1]), g)
         /\ s[n + 1] \notin S => Picks(s, S, n + 1, r, h)
<1>1. s[n + 1] \in X /\ Len(s) \in Nat
  BY ElementOfSeq
<1>2. Len(r) \in Nat
  BY LenProperties
<1> DEFINE len == Len(r)
           more == Append(r, s[n + 1])
           g == [i \in 1..len + 1 |-> IF i = len + 1 THEN n + 1 ELSE h[i]]
<1>3. Len(more) = len + 1 /\ more[len + 1] = s[n + 1]
      /\ \A i \in 1..len : more[i] = r[i]
  BY <1>1, AppendProperties
<1> HIDE DEF more
<1>4. /\ h \in [1..len -> 1..n]
      /\ \A i, j \in 1..len : i < j => h[i] < h[j]
      /\ \A i \in 1..len : r[i] = s[h[i]] /\ r[i] \in S
      /\ \A k \in 1..n : s[k] \in S => \E i \in 1..len : h[i] = k
  BY DEF Picks
<1> HIDE DEF len
<1>5. len \in Nat
  BY <1>2 DEF len
<1>6. /\ \A i \in 1..len : g[i] = h[i] /\ h[i] \in 1..n
      /\ g[len + 1] = n + 1
      /\ g \in [1..len + 1 -> 1..n + 1]
  BY <1>4, <1>5
<1> HIDE DEF g
<1>7. \A i, j \in 1..len + 1 : i < j => g[i] < g[j]
  <2>1. TAKE i, j \in 1..len + 1
  <2>2. HAVE i < j
  <2>3. i \in 1..len
    BY <1>5, <2>2
  <2>4. CASE j = len + 1
    BY <1>6, <2>3, <2>4
  <2>5. CASE j \in 1..len
    BY <1>4, <1>6, <2>2, <2>3, <2>5
  <2>6. QED
    BY <1>5, <2>4, <2>5
<1>8. s[n + 1] \in S => \A i \in 1..len + 1 : more[i] = s[g[i]] /\ more[i] \in S
  <2>0. HAVE s[n + 1] \in S
  <2>1. TAKE i \in 1..len + 1
  <2>2. CASE i = len + 1
    BY <1>3, <1>6, <2>0, <2>2 DEF len
  <2>3. CASE i \in 1..len
    BY <1>3, <1>4, <1>6, <2>3 DEF len
  <2>4. QED
    BY <1>5, <2>2, <2>3
<1>9. s[n + 1] \in S => Picks(s, S, n + 1, more, g)
  <2>1. ASSUME NEW k \in 1..n + 1, s[k] \in S
        PROVE  \E i \in 1..len + 1 : g[i] = k
    <3>1. CASE k = n + 1
      BY <1>5, <1>6, <3>1
    <3>2. CASE k \in 1..n
      <4>1. PICK i \in 1..len : h[i] = k
        BY <1>4, <2>1, <3>2
      <4>2. i \in 1..len + 1 /\ g[i] = k
        BY <1>5, <1>6, <4>1
      <4>3. QED
        BY <4>2
    <3>3. QED
      BY <3>1, <3>2
  <2>2. Len(more) = len + 1
    BY <1>3 DEF len
  <2>3. QED
    BY <1>6, <1>7, <1>8, <2>1, <2>2 DEF Picks
<1>10. s[n + 1] \notin S => Picks(s, S, n + 1, r, h)
  <2>1. ASSUME s[n + 1] \notin S, NEW k \in 1..n + 1, s[k] \in S
        PROVE  \E i \in 1..len : h[i] = k
    <3>1. k \in 1..n
      BY <2>1
    <3>2. QED
      BY <1>4, <2>1, <3>1
  <2>2. h \in [1..len -> 1..n + 1]
    BY <1>4
  <2>3. QED
    BY <1>4, <2>1, <2>2 DEF Picks, len
<1>11. QED
  BY <1>9, <1>10 DEF more

LEMMA KeptPicks ==
  ASSUME NEW X, NEW s \in Seq(X), NEW S, NEW f, Keeps(s, S, Len(s), f)
  PROVE  \A n \in 0..Len(s) : f[n] \in Seq(X) /\ \E h : Picks(s, S, n, f[n], h)
<1> DEFINE Good(n) == f[n] \in Seq(X) /\ \E h : Picks(s, S, n, f[n], h)
           Bad == {n \in 0..Len(s) : ~Good(n)}
<1>1. Len(s) \in Nat
  BY LenProperties
<1>2. \A n \in 0..Len(s) :
        f[n] = IF n = 0 THEN <<>>
               ELSE IF s[n] \in S THEN Append(f[n - 1], s[n])
               ELSE f[n - 1]
  BY DEF Keeps
<1>3. SUFFICES ASSUME Bad # {}
               PROVE  FALSE
  OBVIOUS
<1>4. PICK m \in Bad : \A k \in Bad : m <= k
  <2>1. Bad \subseteq Nat
    BY <1>1
  <2>2. QED
    BY <1>3, <2>1, MinOfNats
<1>5. CASE m = 0
  <2>1. f[0] = <<>> /\ <<>> \in Seq(X)
    BY <1>1, <1>2
  <2>2. Good(0)
    BY <2>1, PicksStart
  <2>3. QED
    BY <1>4, <1>5, <2>2
<1>6. CASE m # 0
  <2>1. m - 1 \in Nat /\ m - 1 + 1 <= Len(s) /\ m - 1 \notin Bad /\ m - 1 \in 0..Len(s)
        /\ m - 1 + 1 = m /\ m \in 1..Len(s)
    BY <1>1, <1>4, <1>6, SMTT(20)
  <2>2. f[m - 1] \in Seq(X)
    BY <2>1
  <2>3. PICK h : Picks(s, S, m - 1, f[m - 1], h)
    BY <2>1
  <2>4. /\ s[m] \in S => \E g : Picks(s, S, m, Append(f[m - 1], s[m]), g)
        /\ s[m] \notin S => Picks(s, S, m, f[m - 1], h)
    <3> DEFINE k == m - 1
    <3> HIDE DEF k
    <3>1. /\ s[k + 1] \in S => \E g : Picks(s, S, k + 1, Append(f[k], s[k + 1]), g)
          /\ s[k + 1] \notin S => Picks(s, S, k + 1, f[k], h)
      <4>1. k \in Nat /\ k + 1 <= Len(s) /\ f[k] \in Seq(X) /\ Picks(s, S, k, f[k], h)
        BY <2>1, <2>2, <2>3 DEF k
      <4>2. QED
        BY <4>1, PicksOneMore
    <3>2. k + 1 = m
      BY <2>1 DEF k
    <3>3. QED
      BY <3>1, <3>2 DEF k
  <2>5. s[m] \in X
    BY <2>1, ElementOfSeq
  <2>6. f[m] = IF s[m] \in S THEN Append(f[m - 1], s[m]) ELSE f[m - 1]
    BY <1>2, <1>6, <2>1
  <2>7. CASE s[m] \in S
    <3>1. f[m] \in Seq(X)
      BY <2>2, <2>5, <2>6, <2>7, AppendProperties
    <3>2. QED
      BY <1>4, <2>4, <2>6, <2>7, <3>1
  <2>8. CASE s[m] \notin S
    BY <1>4, <2>2, <2>4, <2>6, <2>8
  <2>9. QED
    BY <2>7, <2>8
<1>7. QED
  BY <1>5, <1>6

LEMMA WithinPicks ==
  ASSUME NEW X, NEW s \in Seq(X), NEW S
  PROVE  /\ Within(s, S) \in Seq(X)
         /\ \E h : Picks(s, S, Len(s), Within(s, S), h)
<1>1. Len(s) \in Nat /\ Len(s) \in 0..Len(s)
  BY LenProperties
<1>2. PICK f : Keeps(s, S, Len(s), f) /\ Within(s, S) = f[Len(s)]
  BY <1>1, WithinKeeps
<1>3. QED
  BY <1>1, <1>2, KeptPicks

-----------------------------------------------------------------------------
(* What Within() and Without() keep: which elements, none twice, and in    *)
(* their order.                                                            *)

InOrder(s, a, b) == \E i, j \in DOMAIN s : i < j /\ s[i] = a /\ s[j] = b

LEMMA WithinSet ==
  ASSUME NEW X, NEW s \in Seq(X), NEW S
  PROVE  /\ Within(s, S) \in Seq(X)
         /\ ToSet(Within(s, S)) = ToSet(s) \cap S
         /\ IsInjective(s) => IsInjective(Within(s, S))
         /\ \A a, b \in S : InOrder(Within(s, S), a, b) <=> InOrder(s, a, b)
<1> DEFINE r == Within(s, S)
           m == Len(r)
           n == Len(s)
<1>1. r \in Seq(X)
  BY WithinPicks
<1>2. PICK h : Picks(s, S, n, r, h)
  BY WithinPicks
<1>3. /\ n \in Nat /\ m \in Nat
      /\ DOMAIN s = 1..n /\ DOMAIN r = 1..m
  BY <1>1, LenProperties
<1> HIDE DEF r
<1>4. /\ h \in [1..m -> 1..n]
      /\ \A i, j \in 1..m : i < j => h[i] < h[j]
      /\ \A i \in 1..m : r[i] = s[h[i]] /\ r[i] \in S
      /\ \A k \in 1..n : s[k] \in S => \E i \in 1..m : h[i] = k
  BY <1>2 DEF Picks
<1> HIDE DEF m, n
<1>5. ToSet(r) = ToSet(s) \cap S
  <2>1. \A i \in 1..m : h[i] \in 1..n /\ r[i] = s[h[i]] /\ r[i] \in S
    BY <1>4
  <2>2. \A k \in 1..n : s[k] \in S => \E i \in 1..m : r[i] = s[k]
    BY <1>4
  <2>3. QED
    BY <1>3, <2>1, <2>2 DEF ToSet
<1>6. IsInjective(s) => IsInjective(r)
  <2>1. SUFFICES ASSUME IsInjective(s), NEW i \in 1..m, NEW j \in 1..m, r[i] = r[j]
                 PROVE  i = j
    BY <1>3 DEF IsInjective
  <2>2. h[i] \in 1..n /\ h[j] \in 1..n /\ s[h[i]] = s[h[j]]
    BY <1>4, <2>1
  <2>3. h[i] = h[j]
    BY <1>3, <2>1, <2>2 DEF IsInjective
  <2>4. ~(i < j) /\ ~(j < i)
    BY <1>3, <1>4, <2>2, <2>3
  <2>5. QED
    BY <1>3, <2>4
<1>7. ASSUME NEW a \in S, NEW b \in S
      PROVE  InOrder(r, a, b) <=> InOrder(s, a, b)
  <2>1. ASSUME InOrder(r, a, b)
        PROVE  InOrder(s, a, b)
    <3>1. PICK i, j \in 1..m : i < j /\ r[i] = a /\ r[j] = b
      BY <1>3, <2>1 DEF InOrder
    <3>2. h[i] \in 1..n /\ h[j] \in 1..n /\ h[i] < h[j] /\ s[h[i]] = a /\ s[h[j]] = b
      BY <1>4, <3>1
    <3>3. QED
      BY <1>3, <3>2 DEF InOrder
  <2>2. ASSUME InOrder(s, a, b)
        PROVE  InOrder(r, a, b)
    <3>1. PICK k, l \in 1..n : k < l /\ s[k] = a /\ s[l] = b
      BY <1>3, <2>2 DEF InOrder
    <3>2. PICK i \in 1..m : h[i] = k
      BY <1>4, <3>1
    <3>3. PICK j \in 1..m : h[j] = l
      BY <1>4, <3>1
    <3>4. r[i] = a /\ r[j] = b
      BY <1>4, <3>1, <3>2, <3>3
    <3>5. i < j
      <4>1. ~(j < i) /\ i # j
        BY <1>3, <1>4, <3>1, <3>2, <3>3
      <4>2. QED
        BY <1>3, <4>1
    <3>6. QED
      BY <1>3, <3>4, <3>5 DEF InOrder
  <2>3. QED
    BY <2>1, <2>2
<1>8. QED
  BY <1>1, <1>5, <1>6, <1>7 DEF r

LEMMA WithoutSet ==
  ASSUME NEW X, NEW s \in Seq(X), NEW S
  PROVE  /\ Without(s, S) \in Seq(X)
         /\ ToSet(Without(s, S)) = ToSet(s) \ S
         /\ IsInjective(s) => IsInjective(Without(s, S))
         /\ \A a, b : a \notin S /\ b \notin S =>
              (InOrder(Without(s, S), a, b) <=> InOrder(s, a, b))
<1> DEFINE K == ToSet(s) \ S
           r == Without(s, S)
<1>1. /\ r \in Seq(X) /\ ToSet(r) = ToSet(s) \cap K
      /\ IsInjective(s) => IsInjective(r)
      /\ \A a, b \in K : InOrder(r, a, b) <=> InOrder(s, a, b)
  BY WithinSet DEF Without
<1> HIDE DEF r
<1>2. ASSUME NEW t, NEW a, NEW b, InOrder(t, a, b)
      PROVE  a \in ToSet(t) /\ b \in ToSet(t)
  BY <1>2 DEF InOrder, ToSet
<1>3. ASSUME NEW a, NEW b, a \notin S, b \notin S
      PROVE  InOrder(r, a, b) <=> InOrder(s, a, b)
  BY <1>1, <1>2, <1>3
<1>4. QED
  BY <1>1, <1>3 DEF r

(* An element put at the end comes after all that were there.              *)
LEMMA AppendedLast ==
  ASSUME NEW X, NEW s \in Seq(X), NEW e \in X
  PROVE  /\ Append(s, e) \in Seq(X)
         /\ ToSet(Append(s, e)) = ToSet(s) \cup {e}
         /\ IsInjective(s) /\ e \notin ToSet(s) => IsInjective(Append(s, e))
         /\ \A a \in ToSet(s) : InOrder(Append(s, e), a, e)
         /\ \A a, b : InOrder(s, a, b) => InOrder(Append(s, e), a, b)
<1> DEFINE r == Append(s, e)
           n == Len(s)
<1>1. /\ r \in Seq(X) /\ Len(r) = n + 1 /\ n \in Nat
      /\ \A i \in 1..n : r[i] = s[i]
      /\ r[n + 1] = e
  BY AppendProperties, LenProperties
<1>2. DOMAIN s = 1..n /\ DOMAIN r = 1..n + 1
  BY <1>1, LenProperties
<1> HIDE DEF r, n
<1>3. \A i \in 1..n : i \in 1..n + 1 /\ i < n + 1 /\ i # n + 1
  BY <1>1
<1>4. \A i \in 1..n + 1 : i \in 1..n \/ i = n + 1
  BY <1>1
<1>5. n + 1 \in 1..n + 1
  BY <1>1
<1>6. ToSet(r) = ToSet(s) \cup {e}
  BY <1>1, <1>2, <1>3, <1>4, <1>5 DEF ToSet
<1>7. IsInjective(s) /\ e \notin ToSet(s) => IsInjective(r)
  BY <1>1, <1>2, <1>3, <1>4 DEF ToSet, IsInjective
<1>8. \A a \in ToSet(s) : InOrder(r, a, e)
  BY <1>1, <1>2, <1>3, <1>5 DEF ToSet, InOrder
<1>9. \A a, b : InOrder(s, a, b) => InOrder(r, a, b)
  BY <1>1, <1>2, <1>3 DEF InOrder
<1>10. QED
  BY <1>1, <1>6, <1>7, <1>8, <1>9 DEF r

LEMMA ReverseSet ==
  ASSUME NEW X, NEW s \in Seq(X)
  PROVE  /\ Reverse(s) \in Seq(X)
         /\ ToSet(Reverse(s)) = ToSet(s)
         /\ IsInjective(s) => IsInjective(Reverse(s))
<1> DEFINE n == Len(s)
           r == Reverse(s)
<1>1. n \in Nat /\ DOMAIN s = 1..n /\ \A i \in 1..n : s[i] \in X
  BY LenProperties, ElementOfSeq
<1>2. r = [i \in 1..n |-> s[(n - i) + 1]]
  BY DEF Reverse
<1> HIDE DEF n, r
<1>3. \A i \in 1..n : (n - i) + 1 \in 1..n /\ (n - ((n - i) + 1)) + 1 = i
  BY <1>1
<1>4. DOMAIN r = 1..n /\ \A i \in 1..n : r[i] = s[(n - i) + 1]
  BY <1>2
<1>5. r \in Seq(X)
  BY <1>1, <1>2, <1>3, SeqDef
<1>6. ToSet(r) = ToSet(s)
  <2>1. \A i \in 1..n : \E k \in 1..n : r[i] = s[k]
    BY <1>3, <1>4
  <2>2. ASSUME NEW k \in 1..n
        PROVE  \E i \in 1..n : r[i] = s[k]
    <3>1. (n - k) + 1 \in 1..n /\ r[(n - k) + 1] = s[(n - ((n - k) + 1)) + 1]
      BY <1>3, <1>4
    <3>2. r[(n - k) + 1] = s[k]
      BY <1>3, <3>1
    <3>3. QED
      BY <3>1, <3>2
  <2>3. ToSet(s) = {s[k] : k \in 1..n} /\ ToSet(r) = {r[i] : i \in 1..n}
    BY <1>1, <1>4 DEF ToSet
  <2>4. ToSet(r) \subseteq ToSet(s)
    BY <2>1, <2>3, Zenon
  <2>5. ToSet(s) \subseteq ToSet(r)
    BY <2>2, <2>3, Zenon
  <2>6. QED
    BY <2>4, <2>5
<1>7. IsInjective(s) => IsInjective(r)
  <2>1. SUFFICES ASSUME IsInjective(s), NEW i \in 1..n, NEW j \in 1..n, r[i] = r[j]
                 PROVE  i = j
    BY <1>4 DEF IsInjective
  <2>2. (n - i) + 1 = (n - j) + 1
    BY <1>1, <1>3, <1>4, <2>1 DEF IsInjective
  <2>3. QED
    BY <1>1, <2>2
<1>8. QED
  BY <1>5, <1>6, <1>7 DEF r

LEMMA JoinSet ==
  ASSUME NEW X, NEW s \in Seq(X), NEW t \in Seq(X)
  PROVE  /\ s \o t \in Seq(X)
         /\ ToSet(s \o t) = ToSet(s) \cup ToSet(t)
         /\ IsInjective(s) /\ IsInjective(t) /\ ToSet(s) \cap ToSet(t) = {}
              => IsInjective(s \o t)
<1> DEFINE m == Len(s)
           n == Len(t)
           r == s \o t
<1>1. /\ m \in Nat /\ n \in Nat /\ DOMAIN s = 1..m /\ DOMAIN t = 1..n
      /\ r \in Seq(X) /\ Len(r) = m + n
      /\ \A i \in 1..m + n : r[i] = IF i <= m THEN s[i] ELSE t[i - m]
  BY ConcatProperties, LenProperties
<1>2. DOMAIN r = 1..m + n
  BY <1>1, LenProperties
<1> HIDE DEF m, n, r
<1>3. \A i \in 1..m + n : \/ i \in 1..m /\ r[i] = s[i]
                          \/ i - m \in 1..n /\ r[i] = t[i - m]
  BY <1>1
<1>4. \A i \in 1..m : i \in 1..m + n /\ r[i] = s[i]
  BY <1>1
<1>5. \A i \in 1..n : m + i \in 1..m + n /\ r[m + i] = t[i]
  <2>1. TAKE i \in 1..n
  <2>2. m + i \in 1..m + n /\ ~(m + i <= m) /\ (m + i) - m = i
    BY <1>1
  <2>3. QED
    BY <1>1, <2>2
<1>6. ToSet(r) = ToSet(s) \cup ToSet(t)
  <2>1. \A i \in 1..m + n : r[i] \in ToSet(s) \cup ToSet(t)
    BY <1>1, <1>3 DEF ToSet
  <2>2. ToSet(s) \subseteq ToSet(r)
    BY <1>1, <1>2, <1>4 DEF ToSet
  <2>3. ToSet(t) \subseteq ToSet(r)
    <3>1. ASSUME NEW i \in 1..n
          PROVE  t[i] \in ToSet(r)
      <4>1. m + i \in DOMAIN r /\ r[m + i] = t[i]
        BY <1>2, <1>5
      <4> DEFINE k == m + i
      <4> HIDE DEF k
      <4>2. k \in DOMAIN r /\ r[k] = t[i]
        BY <4>1 DEF k
      <4>3. QED
        BY <4>2 DEF ToSet
    <3>2. QED
      BY <1>1, <3>1 DEF ToSet
  <2>4. ToSet(r) \subseteq ToSet(s) \cup ToSet(t)
    BY <1>2, <2>1 DEF ToSet
  <2>5. QED
    BY <2>2, <2>3, <2>4
<1>7. ASSUME IsInjective(s), IsInjective(t), ToSet(s) \cap ToSet(t) = {}
      PROVE  IsInjective(r)
  <2>1. SUFFICES ASSUME NEW i \in 1..m + n, NEW j \in 1..m + n, r[i] = r[j]
                 PROVE  i = j
    BY <1>2 DEF IsInjective
  <2>2. \A k \in 1..m, l \in 1..n : s[k] # t[l]
    BY <1>1, <1>7 DEF ToSet
  <2>3. CASE i \in 1..m /\ j \in 1..m /\ r[i] = s[i] /\ r[j] = s[j]
    BY <1>1, <1>7, <2>1, <2>3 DEF IsInjective
  <2>4. CASE i - m \in 1..n /\ j - m \in 1..n /\ r[i] = t[i - m] /\ r[j] = t[j - m]
    <3>1. i - m = j - m
      BY <1>1, <1>7, <2>1, <2>4 DEF IsInjective
    <3>2. QED
      BY <1>1, <3>1
  <2>5. QED
    BY <1>3, <2>1, <2>2, <2>3, <2>4
<1>8. QED
  BY <1>1, <1>6, <1>7 DEF r

LEMMA TailSet ==
  ASSUME NEW X, NEW s \in Seq(X), s # <<>>, IsInjective(s)
  PROVE  /\ Tail(s) \in Seq(X) /\ IsInjective(Tail(s))
         /\ ToSet(Tail(s)) = ToSet(s) \ {Head(s)}
         /\ Head(s) \in ToSet(s)
<1> DEFINE n == Len(s)
           t == Tail(s)
<1>1. /\ n \in Nat \ {0} /\ DOMAIN s = 1..n
      /\ t \in Seq(X) /\ Len(t) = n - 1
      /\ \A i \in 1..Len(t) : t[i] = s[i + 1]
  BY HeadTailProperties, LenProperties, EmptySeq
<1>2. DOMAIN t = 1..n - 1
  BY <1>1, LenProperties
<1>3. Head(s) = s[1]
  OBVIOUS
<1> HIDE DEF n, t
<1>4. \A i \in 1..n - 1 : t[i] = s[i + 1] /\ i + 1 \in 1..n /\ i + 1 # 1
  BY <1>1
<1>5. ASSUME NEW i \in 1..n, i # 1
      PROVE  i - 1 \in 1..n - 1 /\ t[i - 1] = s[i]
  BY <1>1, <1>4, <1>5
<1>6. 1 \in 1..n
  BY <1>1
<1>7. ToSet(t) = {t[i] : i \in 1..n - 1} /\ ToSet(s) = {s[i] : i \in 1..n}
  BY <1>1, <1>2 DEF ToSet
<1>8. \A i \in 1..n - 1 : t[i] \in ToSet(s) /\ t[i] # s[1]
  <2>1. TAKE i \in 1..n - 1
  <2>2. t[i] = s[i + 1] /\ i + 1 \in 1..n /\ i + 1 # 1
    BY <1>4
  <2>3. QED
    BY <1>1, <1>6, <1>7, <2>2 DEF IsInjective
<1>9. ToSet(t) = ToSet(s) \ {s[1]}
  BY <1>5, <1>7, <1>8
<1>10. IsInjective(t)
  <2>1. SUFFICES ASSUME NEW i \in 1..n - 1, NEW j \in 1..n - 1, t[i] = t[j]
                 PROVE  i = j
    BY <1>2 DEF IsInjective
  <2>2. i + 1 = j + 1
    BY <1>1, <1>4, <2>1, ZenonT(30) DEF IsInjective
  <2>3. QED
    BY <2>2
<1>11. QED
  BY <1>1, <1>3, <1>6, <1>7, <1>9, <1>10 DEF t

-----------------------------------------------------------------------------
(* Pools                                                                   *)

LEMMA PoolShape ==
  ASSUME NEW pool, NEW Items, IsLLPool(pool, Items)
  PROVE  pool = [x \in {"head", "free", "data"} |-> pool[x]]
<1>1. PICK A, B, C : pool \in [head : A, free : B, data : C]
  BY DEF IsLLPool
<1>2. QED
  BY <1>1

LEMMA PoolRecord ==
  ASSUME NEW pool, pool = [x \in {"head", "free", "data"} |-> pool[x]],
         NEW h, NEW f, NEW d
  PROVE  /\ [pool EXCEPT !.head = h, !.free = f]
               = [head |-> h, free |-> f, data |-> pool.data]
         /\ [pool EXCEPT !.data = d]
               = [head |-> pool.head, free |-> pool.free, data |-> d]
<1> DEFINE fields == {"head", "free", "data"}
           r == [pool EXCEPT !.head = h, !.free = f]
<1>1. /\ r.head = h /\ r.free = f /\ r.data = pool.data
      /\ r = [x \in fields |-> r[x]]
  OBVIOUS
<1> HIDE DEF r
<1>2. r = [head |-> h, free |-> f, data |-> pool.data]
  BY <1>1
<1>3. [pool EXCEPT !.data = d] = [head |-> pool.head, free |-> pool.free, data |-> d]
  OBVIOUS
<1>4. QED
  BY <1>2, <1>3 DEF r

LEMMA EntriesFinite ==
  ASSUME NEW X, NEW s \in Seq(X)
  PROVE  IsFiniteSet(ToSet(s))
<1>1. Len(s) \in Nat /\ DOMAIN s = 1..Len(s)
  BY LenProperties
<1>2. s \in Surjection(1..Len(s), ToSet(s))
  BY <1>1 DEF Surjection, ToSet
<1>3. IsFiniteSet(1..Len(s))
  BY <1>1, FS_Interval
<1>4. QED
  BY <1>2, <1>3, FS_Surjection

LEMMA NewPool ==
  ASSUME NEW Items
  PROVE  IsLLPool(newLLPool, Items) /\ Entries(newLLPool) = {}
<1>1. DOMAIN newLLPool.data = {} /\ <<>> \in Seq(DOMAIN newLLPool.data) /\ <<>> \in Seq(Items)
  BY DEF newLLPool
<1>2. ToSet(<<>>) = {} /\ IsInjective(<<>>)
  BY DEF ToSet, IsInjective
<1>3. QED
  BY <1>1, <1>2 DEF IsLLPool, newLLPool, Entries

(* What holds of every pool.                                               *)
LEMMA PoolFacts ==
  ASSUME NEW pool, NEW Items, IsLLPool(pool, Items)
  PROVE  /\ Entries(pool) \subseteq DOMAIN pool.data
         /\ IsFiniteSet(Entries(pool))
         /\ Len(pool.data) \in Nat /\ DOMAIN pool.data = 1..Len(pool.data)
         /\ \A e \in DOMAIN pool.data : pool.data[e] \in Items
<1>1. pool.data \in Seq(Items) /\ pool.head \in Seq(DOMAIN pool.data)
  BY DEF IsLLPool
<1>2. IsFiniteSet(Entries(pool))
  BY <1>1, EntriesFinite DEF Entries
<1>3. Len(pool.data) \in Nat /\ DOMAIN pool.data = 1..Len(pool.data)
  BY <1>1, LenProperties
<1>4. \A e \in DOMAIN pool.data : pool.data[e] \in Items
  BY <1>1, <1>3, ElementOfSeq
<1>5. QED
  BY <1>2, <1>3, <1>4 DEF IsLLPool

LEMMA PoolAdd ==
  ASSUME NEW pool, NEW Items, IsLLPool(pool, Items), NEW item \in Items
  PROVE  LET e     == NextEntry(pool)
             after == LLPoolAddItem(pool, item)
         IN  /\ IsLLPool(after, Items)
             /\ e \notin Entries(pool)
             /\ Entries(after) = Entries(pool) \cup {e}
             /\ DOMAIN after.data = DOMAIN pool.data \cup {e}
             /\ after.data[e] = item
             /\ \A d \in DOMAIN pool.data : d # e => after.data[d] = pool.data[d]
             /\ e \in Nat /\ e # 0
<1> DEFINE D == DOMAIN pool.data
           n == Len(pool.data)
           e == NextEntry(pool)
           after == LLPoolAddItem(pool, item)
<1>1. /\ pool.head \in Seq(D) /\ pool.free \in Seq(D) /\ pool.data \in Seq(Items)
      /\ IsInjective(pool.head) /\ IsInjective(pool.free)
      /\ Entries(pool) \cap ToSet(pool.free) = {}
      /\ Entries(pool) \cup ToSet(pool.free) = D
  BY DEF IsLLPool
<1>2. n \in Nat /\ D = 1..n
  BY <1>1, LenProperties
<1>3. /\ after.head = <<e>> \o pool.head
      /\ after.free = IF pool.free # <<>> THEN Tail(pool.free) ELSE <<>>
      /\ after.data = IF pool.free # <<>> THEN [pool.data EXCEPT ![Head(pool.free)] = item]
                                          ELSE Append(pool.data, item)
      /\ after = [head |-> after.head, free |-> after.free, data |-> after.data]
  BY DEF LLPoolAddItem
<1>4. /\ after.data \in Seq(Items) /\ DOMAIN after.data = D \cup {e}
      /\ after.data[e] = item
      /\ \A d \in D : d # e => after.data[d] = pool.data[d]
      /\ after.free \in Seq(D) /\ IsInjective(after.free)
      /\ ToSet(after.free) = ToSet(pool.free) \ {e}
      /\ e \notin Entries(pool) /\ e \in Nat /\ e # 0
  <2>1. CASE pool.free # <<>>
    <3> DEFINE t == Tail(pool.free)
    <3>2. e = Head(pool.free) /\ after.free = t
          /\ after.data = [pool.data EXCEPT ![e] = item]
      BY <1>3, <2>1 DEF NextEntry
    <3>3. /\ t \in Seq(D) /\ IsInjective(t)
          /\ ToSet(t) = ToSet(pool.free) \ {e} /\ e \in ToSet(pool.free)
      BY <1>1, <2>1, <3>2, TailSet
    <3> HIDE DEF t, after, e
    <3>10. /\ e \in D /\ e \notin Entries(pool)
      BY <1>1, <3>3
    <3>11. /\ after.data \in Seq(Items) /\ DOMAIN after.data = D
           /\ after.data[e] = item
           /\ \A d \in D : d # e => after.data[d] = pool.data[d]
      BY <1>1, <1>2, <3>2, <3>10, ExceptSeq
    <3>12. e \in Nat /\ e # 0 /\ D \cup {e} = D
      BY <1>2, <3>10
    <3>13. QED
      BY <3>2, <3>3, <3>10, <3>11, <3>12
  <2>2. CASE pool.free = <<>>
    <3>1. e = n + 1 /\ after.free = <<>> /\ after.data = Append(pool.data, item)
      BY <1>3, <2>2 DEF NextEntry
    <3>2. ToSet(<<>>) = {} /\ IsInjective(<<>>) /\ <<>> \in Seq(D)
      BY DEF ToSet, IsInjective
    <3>3. after.data \in Seq(Items) /\ Len(after.data) = n + 1
          /\ (\A i \in 1..n : after.data[i] = pool.data[i]) /\ after.data[n + 1] = item
      BY <1>1, <3>1, AppendProperties
    <3>4. DOMAIN after.data = 1..n + 1
      BY <3>3, LenProperties
    <3>5. 1..n + 1 = 1..n \cup {n + 1} /\ n + 1 \notin 1..n /\ n + 1 \in Nat /\ n + 1 # 0
      BY <1>2
    <3>6. Entries(pool) = D
      BY <1>1, <2>2, <3>2
    <3> HIDE DEF after, e, n
    <3>7. QED
      BY <1>2, <2>2, <3>1, <3>2, <3>3, <3>4, <3>5, <3>6
  <2>3. QED
    BY <2>1, <2>2
<1>5. /\ after.head \in Seq(D \cup {e})
      /\ ToSet(after.head) = Entries(pool) \cup {e} /\ IsInjective(after.head)
  <2> DEFINE one == <<e>>
             E == D \cup {e}
  <2>1. /\ one \in Seq(E) /\ pool.head \in Seq(E) /\ ToSet(one) = {e} /\ IsInjective(one)
    <3>1. e \in E /\ D \subseteq E
      OBVIOUS
    <3> HIDE DEF e, E
    <3>2. one \in Seq(E) /\ ToSet(one) = {e} /\ IsInjective(one)
      BY <3>1 DEF ToSet, IsInjective
    <3>3. pool.head \in Seq(E)
      BY <1>1, <3>1, SeqMonotonic
    <3>4. QED
      BY <3>2, <3>3
  <2> HIDE DEF one, E, after, e
  <2>2. ToSet(one) \cap ToSet(pool.head) = {}
    BY <1>4, <2>1 DEF Entries
  <2>3. after.head = one \o pool.head
    BY <1>3 DEF one
  <2>4. QED
    BY <1>1, <2>1, <2>2, <2>3, JoinSet DEF Entries, E
<1> HIDE DEF e, after
<1>6. after.free \in Seq(D \cup {e})
  BY <1>4, SeqMonotonic
<1>7. IsLLPool(after, Items)
  <2>1. after \in [head : Seq(D \cup {e}), free : Seq(D \cup {e}), data : Seq(Items)]
    BY <1>3, <1>4, <1>5, <1>6
  <2>2. QED
    BY <1>1, <1>4, <1>5, <2>1 DEF IsLLPool, Entries
<1>8. QED
  BY <1>4, <1>5, <1>7 DEF e, after, Entries

LEMMA PoolRemove ==
  ASSUME NEW pool, NEW Items, IsLLPool(pool, Items), NEW S, S \subseteq Entries(pool)
  PROVE  /\ IsLLPool(RemoveAll(pool, S), Items)
         /\ Entries(RemoveAll(pool, S)) = Entries(pool) \ S
         /\ RemoveAll(pool, S).data = pool.data
<1> DEFINE D == DOMAIN pool.data
           gone == Within(pool.head, S)
           back == Reverse(gone)
           after == RemoveAll(pool, S)
<1>1. /\ pool.head \in Seq(D) /\ pool.free \in Seq(D) /\ pool.data \in Seq(Items)
      /\ IsInjective(pool.head) /\ IsInjective(pool.free)
      /\ Entries(pool) \cap ToSet(pool.free) = {}
      /\ Entries(pool) \cup ToSet(pool.free) = D
  BY DEF IsLLPool
<1>2. /\ after.head = Without(pool.head, S)
      /\ after.free = back \o pool.free
      /\ after.data = pool.data
      /\ after = [head |-> after.head, free |-> after.free, data |-> after.data]
  <2> DEFINE h == Without(pool.head, S)
             f == back \o pool.free
  <2> HIDE DEF h, f
  <2>1. after = [pool EXCEPT !.head = h, !.free = f]
    BY DEF RemoveAll, h, f
  <2>2. after = [head |-> h, free |-> f, data |-> pool.data]
    BY <2>1, PoolShape, PoolRecord
  <2> HIDE DEF after
  <2>3. after.head = h /\ after.free = f /\ after.data = pool.data
    BY <2>2
  <2>4. QED
    BY <2>2, <2>3 DEF h, f
<1>3. /\ gone \in Seq(D) /\ ToSet(gone) = S /\ IsInjective(gone)
  <2>1. /\ gone \in Seq(D) /\ ToSet(gone) = ToSet(pool.head) \cap S
        /\ IsInjective(gone)
    <3>1. pool.head \in Seq(D) /\ IsInjective(pool.head)
      BY <1>1
    <3> HIDE DEF D
    <3>2. QED
      BY <3>1, WithinSet
  <2>2. QED
    BY <2>1 DEF Entries
<1> HIDE DEF gone
<1>4. /\ back \in Seq(D) /\ ToSet(back) = S /\ IsInjective(back)
  BY <1>3, ReverseSet
<1> HIDE DEF back, after
<1>5. /\ after.free \in Seq(D) /\ ToSet(after.free) = S \cup ToSet(pool.free)
      /\ IsInjective(after.free)
  <2>1. /\ pool.free \in Seq(D) /\ IsInjective(pool.free)
        /\ ToSet(back) \cap ToSet(pool.free) = {}
    BY <1>1, <1>4
  <2> HIDE DEF D
  <2>2. QED
    BY <1>2, <1>4, <2>1, JoinSet
<1>6. /\ after.head \in Seq(D) /\ ToSet(after.head) = Entries(pool) \ S
      /\ IsInjective(after.head)
  BY <1>1, <1>2, WithoutSet DEF Entries
<1>7. IsLLPool(after, Items)
  <2>1. after \in [head : Seq(D), free : Seq(D), data : Seq(Items)]
    BY <1>1, <1>2, <1>5, <1>6
  <2>2. QED
    BY <1>1, <1>2, <1>5, <1>6, <2>1 DEF IsLLPool, Entries
<1>8. QED
  BY <1>2, <1>6, <1>7 DEF after, Entries

(* The items in a pool change, the entries do not.                         *)
LEMMA PoolUpdate ==
  ASSUME NEW pool, NEW Items, NEW Others, IsLLPool(pool, Items),
         NEW data, DOMAIN data = DOMAIN pool.data, \A e \in DOMAIN data : data[e] \in Others,
         data = [e \in DOMAIN data |-> data[e]]
  PROVE  LET after == [pool EXCEPT !.data = data]
         IN  /\ IsLLPool(after, Others)
             /\ after.data = data /\ after.head = pool.head
             /\ Entries(after) = Entries(pool)
<1> DEFINE D == DOMAIN pool.data
           after == [pool EXCEPT !.data = data]
<1>1. /\ pool.head \in Seq(D) /\ pool.free \in Seq(D) /\ pool.data \in Seq(Items)
      /\ pool = [head |-> pool.head, free |-> pool.free, data |-> pool.data]
  BY DEF IsLLPool
<1>2. after = [head |-> pool.head, free |-> pool.free, data |-> data]
  <2>1. pool = [x \in {"head", "free", "data"} |-> pool[x]]
    BY PoolShape
  <2> HIDE DEF after
  <2>2. [pool EXCEPT !.data = data]
          = [head |-> pool.head, free |-> pool.free, data |-> data]
    BY <2>1, PoolRecord
  <2>3. QED
    BY <2>2 DEF after
<1>3. D = 1..Len(pool.data) /\ Len(pool.data) \in Nat
  BY <1>1, LenProperties
<1>4. data \in [1..Len(pool.data) -> Others]
  BY <1>3
<1>5. data \in Seq(Others)
  BY <1>3, <1>4, SeqDef
<1> HIDE DEF after
<1>6. after \in [head : Seq(D), free : Seq(D), data : Seq(Others)]
  BY <1>1, <1>2, <1>5
<1>7. /\ after.data = data /\ after.head = pool.head /\ after.free = pool.free
  BY <1>2
<1>8. IsLLPool(after, Others)
  BY <1>6, <1>7 DEF IsLLPool, Entries
<1>9. QED
  BY <1>7, <1>8 DEF after, Entries

(* One item is replaced.                                                   *)
LEMMA PoolReplace ==
  ASSUME NEW pool, NEW Items, IsLLPool(pool, Items), NEW e \in DOMAIN pool.data,
         NEW item \in Items
  PROVE  LET after == [pool EXCEPT !.data[e] = item]
         IN  /\ IsLLPool(after, Items)
             /\ Entries(after) = Entries(pool) /\ after.head = pool.head
             /\ DOMAIN after.data = DOMAIN pool.data
             /\ after.data[e] = item
             /\ \A d \in DOMAIN pool.data : d # e => after.data[d] = pool.data[d]
<1> DEFINE data == [pool.data EXCEPT ![e] = item]
           after == [pool EXCEPT !.data[e] = item]
<1>1. pool = [head |-> pool.head, free |-> pool.free, data |-> pool.data]
      /\ pool.data \in Seq(Items)
  BY DEF IsLLPool
<1>2. after = [pool EXCEPT !.data = data]
  BY <1>1
<1>3. \A d \in DOMAIN pool.data : pool.data[d] \in Items
  BY PoolFacts
<1>4. /\ DOMAIN data = DOMAIN pool.data /\ data[e] = item
      /\ \A d \in DOMAIN pool.data : d # e => data[d] = pool.data[d]
      /\ data = [d \in DOMAIN data |-> data[d]]
  OBVIOUS
<1> HIDE DEF data, after
<1>5. \A d \in DOMAIN data : data[d] \in Items
  BY <1>3, <1>4
<1>6. QED
  BY <1>2, <1>4, <1>5, PoolUpdate DEF after
=============================================================================
