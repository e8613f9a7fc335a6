---------------------- MODULE EncoderCacheManagerProofs ----------------------
(***************************************************************************)
(* What each operation of the encoder cache manager keeps, whatever the     *)
(* requests, the items and their sizes: MgrOK, which says that the two      *)
(* counters of the manager agree with the items it holds, and that its two  *)
(* records of the references agree.                                         *)
(***************************************************************************)
EXTENDS EncoderCacheManager, WellFoundedInduction, TLAPS

-----------------------------------------------------------------------------
(* Loops and lists.                                                         *)

\* Induction, about the set of the numbers that have the property.
LEMMA NatSetInduction ==
  ASSUME NEW S, 0 \in S, \A n \in Nat : n \in S => n + 1 \in S
  PROVE  \A n \in Nat : n \in S
<1> DEFINE T == Nat \ S
<1> SUFFICES ASSUME T # {} PROVE FALSE
  OBVIOUS
<1>1. PICK m \in T : \A y \in T : ~ (<<y, m>> \in OpToRel(<, Nat))
  <2>1. T \subseteq Nat
    OBVIOUS
  <2> HIDE DEF T
  <2> QED BY <2>1, NatLessThanWellFounded, WFMin
<1>2. m \in Nat /\ m # 0 /\ m - 1 \in Nat /\ m - 1 + 1 = m
  OBVIOUS
<1>3. m - 1 \notin T
  <2>1. <<m - 1, m>> \in OpToRel(<, Nat)
    BY <1>2 DEF OpToRel
  <2> QED BY <1>1, <2>1
<1> QED BY <1>2, <1>3

\* A set of naturals has a least member.
LEMMA LeastExists ==
  ASSUME NEW S \in SUBSET Nat, S # {}
  PROVE  \E x \in S : \A y \in S : x <= y
<1>1. PICK m \in S : \A y \in S : ~ (<<y, m>> \in OpToRel(<, Nat))
  BY NatLessThanWellFounded, WFMin
<1>2. ASSUME NEW y \in S PROVE m <= y
  <2>1. y \in Nat /\ m \in Nat
    OBVIOUS
  <2>2. ~ (y < m)
    <3>1. y < m => <<y, m>> \in OpToRel(<, Nat)
      BY <2>1 DEF OpToRel
    <3> QED BY <1>1, <3>1
  <2> QED BY <2>1, <2>2
<1> QED BY <1>2

\* g runs the loop with body step, n times, from x.
Iterates(g, n, x, step) ==
  g[0] = x /\ \A i \in 1 .. n : g[i] = step[i][g[i - 1]]

\* A loop has a result.
LEMMA IterationExists ==
  ASSUME NEW N \in Nat, NEW X, NEW x \in X, NEW step \in [1 .. N -> [X -> X]]
  PROVE  \E g \in [0 .. N -> X] : Iterates(g, N, x, step)
<1> DEFINE S == {n \in Nat : n <= N => \E g \in [0 .. n -> X] : Iterates(g, n, x, step)}
<1>1. 0 \in S
  <2> DEFINE g == [i \in 0 .. 0 |-> x]
  <2>1. g \in [0 .. 0 -> X] /\ Iterates(g, 0, x, step)
    BY DEF Iterates
  <2> QED BY <2>1
<1>2. \A n \in Nat : n \in S => n + 1 \in S
  <2> SUFFICES ASSUME NEW n \in Nat, n \in S, n + 1 <= N
               PROVE  \E h \in [0 .. n + 1 -> X] : Iterates(h, n + 1, x, step)
    OBVIOUS
  <2>1. PICK g \in [0 .. n -> X] : Iterates(g, n, x, step)
    OBVIOUS
  <2> DEFINE h == [i \in 0 .. n + 1 |-> IF i = n + 1 THEN step[n + 1][g[n]] ELSE g[i]]
  <2>2. n + 1 \in 1 .. N /\ g[n] \in X /\ step[n + 1][g[n]] \in X
    OBVIOUS
  <2>3. /\ h \in [0 .. n + 1 -> X] /\ h[0] = x /\ h[n + 1] = step[n + 1][g[n]]
        /\ \A i \in 0 .. n : h[i] = g[i]
    BY <2>1, <2>2 DEF Iterates
  <2> HIDE DEF h
  <2>4. ASSUME NEW i \in 1 .. n + 1 PROVE h[i] = step[i][h[i - 1]]
    <3>1. CASE i = n + 1
      BY <2>3, <3>1
    <3>2. CASE i # n + 1
      <4>1. i \in 1 .. n /\ i \in 0 .. n /\ i - 1 \in 0 .. n
        BY <3>2
      <4> QED BY <2>1, <2>3, <4>1 DEF Iterates
    <3> QED BY <3>1, <3>2
  <2> QED BY <2>3, <2>4 DEF Iterates
<1>3. N \in S
  <2> HIDE DEF S
  <2> QED BY <1>1, <1>2, NatSetInduction
<1> QED BY <1>3

\* What every pass of a loop keeps holds of its result.
LEMMA LoopKeeps ==
  ASSUME NEW N \in Nat, NEW X, NEW h, NEW step, NEW J,
         h[0] \in J[0], \A i \in 0 .. N : J[i] \subseteq X,
         \A i \in 1 .. N : h[i - 1] \in X => h[i] = step[i][h[i - 1]],
         \A i \in 1 .. N : \A y \in J[i - 1] : step[i][y] \in J[i]
  PROVE  h[N] \in J[N]
<1> DEFINE S == {n \in Nat : n <= N => h[n] \in J[n]}
<1>1. 0 \in S
  OBVIOUS
<1>2. \A n \in Nat : n \in S => n + 1 \in S
  <2> SUFFICES ASSUME NEW n \in Nat, n \in S, n + 1 <= N PROVE h[n + 1] \in J[n + 1]
    OBVIOUS
  <2>1. n + 1 \in 1 .. N /\ n \in 0 .. N /\ n + 1 - 1 = n /\ h[n] \in J[n]
    OBVIOUS
  <2>2. h[n] \in X
    BY <2>1
  <2> QED BY <2>1, <2>2
<1>3. N \in S
  <2> HIDE DEF S
  <2> QED BY <1>1, <1>2, NatSetInduction
<1> QED BY <1>3

LEMMA ConcatPlaces ==
  ASSUME NEW S, NEW s \in Seq(S), NEW t \in Seq(S)
  PROVE  /\ s \o t \in Seq(S) /\ Len(s \o t) = Len(s) + Len(t)
         /\ \A k \in 1 .. Len(s) + Len(t) :
              (s \o t)[k] = IF k <= Len(s) THEN s[k] ELSE t[k - Len(s)]
OBVIOUS

\* A list that loses one place.
Without(q, i) == SubSeq(q, 1, i - 1) \o SubSeq(q, i + 1, Len(q))

LEMMA WithoutPlaces ==
  ASSUME NEW S, NEW q \in Seq(S), NEW i \in 1 .. Len(q)
  PROVE  /\ Without(q, i) \in Seq(S)
         /\ Len(Without(q, i)) = Len(q) - 1
         /\ \A k \in 1 .. Len(q) - 1 : Without(q, i)[k] = IF k < i THEN q[k] ELSE q[k + 1]
<1> DEFINE u == SubSeq(q, 1, i - 1)
           v == SubSeq(q, i + 1, Len(q))
<1>1. Len(q) \in Nat
  OBVIOUS
<1>3. Without(q, i) = u \o v
  BY DEF Without
<1>4. /\ u \in Seq(S) /\ Len(u) = i - 1 /\ \A k \in 1 .. i - 1 : u[k] = q[k]
  BY <1>1
<1>5. /\ v \in Seq(S) /\ Len(v) = Len(q) - i
      /\ \A k \in 1 .. Len(q) - i : v[k] = q[i + k]
  BY <1>1
<1> HIDE DEF u, v
<1>6. /\ u \o v \in Seq(S) /\ Len(u \o v) = Len(q) - 1
      /\ \A k \in 1 .. Len(q) - 1 : (u \o v)[k] = IF k <= i - 1 THEN u[k] ELSE v[k - (i - 1)]
  <2>1. /\ u \o v \in Seq(S) /\ Len(u \o v) = Len(u) + Len(v)
        /\ \A k \in 1 .. Len(u) + Len(v) :
             (u \o v)[k] = IF k <= Len(u) THEN u[k] ELSE v[k - Len(u)]
    <3>1. u \in Seq(S) /\ v \in Seq(S)
      BY <1>4, <1>5
    <3> QED BY <3>1, ConcatPlaces, Zenon
  <2>2. Len(u) + Len(v) = Len(q) - 1
    BY <1>1, <1>4, <1>5
  <2> QED BY <1>4, <2>1, <2>2
<1>7. ASSUME NEW k \in 1 .. Len(q) - 1 PROVE (u \o v)[k] = IF k < i THEN q[k] ELSE q[k + 1]
  <2>1. CASE k < i
    <3>1. k \in 1 .. i - 1 /\ k <= i - 1
      BY <2>1
    <3> QED BY <1>4, <1>6, <2>1, <3>1
  <2>2. CASE ~(k < i)
    <3>1. k - (i - 1) \in 1 .. Len(q) - i /\ i + (k - (i - 1)) = k + 1 /\ ~(k <= i - 1)
      BY <1>1, <2>2
    <3> QED BY <1>5, <1>6, <2>2, <3>1
  <2> QED BY <2>1, <2>2
<1> QED BY <1>3, <1>6, <1>7

LEMMA Distinct ==
  ASSUME NEW X, NEW s \in Seq(X)
  PROVE  /\ Len(s) \in Nat /\ DOMAIN s = 1 .. Len(s)
         /\ Range(s) \subseteq X
         /\ \A x : x \in Range(s) <=> \E i \in 1 .. Len(s) : s[i] = x
         /\ IsInjective(s) <=> \A i, j \in 1 .. Len(s) : s[i] = s[j] => i = j
BY DEF Range, IsInjective

\* list.remove of a list without repetition.
LEMMA RemoveFacts ==
  ASSUME NEW X, NEW s \in Seq(X), IsInjective(s), NEW x
  PROVE  /\ Remove(s, x) \in Seq(X) /\ IsInjective(Remove(s, x))
         /\ Range(Remove(s, x)) = Range(s) \ {x}
<1>1. CASE x \notin Range(s)
  BY <1>1 DEF Remove
<1>2. CASE x \in Range(s)
  <2> DEFINE c == CHOOSE i \in DOMAIN s : s[i] = x
             t == Remove(s, x)
  <2>1. /\ Len(s) \in Nat /\ DOMAIN s = 1 .. Len(s)
        /\ \A i, j \in 1 .. Len(s) : s[i] = s[j] => i = j
        /\ \E i \in 1 .. Len(s) : s[i] = x
    BY <1>2, Distinct
  <2>2. c \in 1 .. Len(s) /\ s[c] = x
    BY <2>1
  <2>3. t = Without(s, c)
    BY <1>2 DEF Remove, Without
  <2> HIDE DEF c, t
  <2>4. /\ t \in Seq(X) /\ Len(t) = Len(s) - 1
        /\ \A k \in 1 .. Len(s) - 1 : t[k] = IF k < c THEN s[k] ELSE s[k + 1]
    BY <2>2, <2>3, WithoutPlaces
  <2>5. ASSUME NEW i \in 1 .. Len(t), NEW j \in 1 .. Len(t), t[i] = t[j] PROVE i = j
    <3> DEFINE p(k) == IF k < c THEN k ELSE k + 1
    <3>1. p(i) \in 1 .. Len(s) /\ p(j) \in 1 .. Len(s) /\ t[i] = s[p(i)] /\ t[j] = s[p(j)]
      BY <2>1, <2>2, <2>4
    <3>2. p(i) = p(j)
      BY <2>1, <2>5, <3>1
    <3> QED BY <2>1, <2>2, <2>4, <3>2
  <2>6. ASSUME NEW i \in 1 .. Len(t) PROVE t[i] # x /\ \E j \in 1 .. Len(s) : s[j] = t[i]
    <3> DEFINE p == IF i < c THEN i ELSE i + 1
    <3>1. p \in 1 .. Len(s) /\ t[i] = s[p] /\ p # c
      BY <2>1, <2>2, <2>4
    <3> QED BY <2>1, <2>2, <3>1
  <2>7. ASSUME NEW j \in 1 .. Len(s), s[j] # x PROVE \E i \in 1 .. Len(t) : t[i] = s[j]
    <3> DEFINE p == IF j < c THEN j ELSE j - 1
    <3>1. j # c
      BY <2>2, <2>7
    <3>2. p \in 1 .. Len(t) /\ t[p] = s[j]
      BY <2>1, <2>2, <2>4, <3>1
    <3> QED BY <3>2
  <2>8. t \in Seq(X) /\ IsInjective(t)
    BY <2>4, <2>5, Distinct
  <2>9. \A y : y \in Range(t) <=> y \in Range(s) /\ y # x
    <3>1. \A y : y \in Range(t) <=> \E i \in 1 .. Len(t) : t[i] = y
      BY <2>4, Distinct
    <3>2. \A y : y \in Range(s) <=> \E i \in 1 .. Len(s) : s[i] = y
      BY Distinct
    <3> QED BY <2>6, <2>7, <3>1, <3>2
  <2> QED BY <2>8, <2>9 DEF t
<1> QED BY <1>1, <1>2

LEMMA RemoveType ==
  ASSUME NEW X, NEW s \in Seq(X), NEW x
  PROVE  Remove(s, x) \in Seq(X)
<1>1. CASE x \notin Range(s)
  BY <1>1 DEF Remove
<1>2. CASE x \in Range(s)
  <2> DEFINE c == CHOOSE i \in DOMAIN s : s[i] = x
  <2>1. c \in 1 .. Len(s)
    BY <1>2, Distinct
  <2>2. Remove(s, x) = Without(s, c)
    BY <1>2 DEF Remove, Without
  <2> HIDE DEF c
  <2> QED BY <2>1, <2>2, WithoutPlaces
<1> QED BY <1>1, <1>2

\* Taking the last element off a list keeps the places of the others.
LEMMA RemoveLast ==
  ASSUME NEW X, NEW s \in Seq(X), IsInjective(s), s # <<>>
  PROVE  /\ Len(Remove(s, s[Len(s)])) = Len(s) - 1
         /\ \A k \in 1 .. Len(s) - 1 : Remove(s, s[Len(s)])[k] = s[k]
<1> DEFINE n == Len(s)
           x == s[n]
           i == CHOOSE j \in DOMAIN s : s[j] = x
<1>1. n \in Nat /\ n \in 1 .. n /\ DOMAIN s = 1 .. n
  OBVIOUS
<1>2. x \in Range(s) /\ \A j, k \in 1 .. n : s[j] = s[k] => j = k
  BY <1>1, Distinct
<1>3. i \in DOMAIN s /\ s[i] = x
  <2>1. \E j \in DOMAIN s : s[j] = x
    BY <1>1
  <2> QED BY <2>1
<1>4. i = n
  <2> HIDE DEF i
  <2> QED BY <1>1, <1>2, <1>3
<1>5. Remove(s, x) = Without(s, i)
  BY <1>2 DEF Remove, Without
<1> HIDE DEF i, x
<1>6. Remove(s, x) = Without(s, n)
  BY <1>4, <1>5
<1>7. /\ Len(Without(s, n)) = n - 1
      /\ \A k \in 1 .. n - 1 : Without(s, n)[k] = s[k]
  <2>1. /\ Len(Without(s, n)) = n - 1
        /\ \A k \in 1 .. n - 1 : Without(s, n)[k] = IF k < n THEN s[k] ELSE s[k + 1]
    BY <1>1, WithoutPlaces
  <2> QED BY <1>1, <2>1
<1> QED BY <1>6, <1>7 DEF x

LEMMA AppendFacts ==
  ASSUME NEW X, NEW s \in Seq(X), NEW x \in X
  PROVE  /\ Append(s, x) \in Seq(X) /\ Len(Append(s, x)) = Len(s) + 1
         /\ \A i \in 1 .. Len(s) : Append(s, x)[i] = s[i]
         /\ Append(s, x)[Len(s) + 1] = x
OBVIOUS

LEMMA AppendDistinct ==
  ASSUME NEW X, NEW s \in Seq(X), NEW x \in X
  PROVE  /\ Append(s, x) \in Seq(X)
         /\ Range(Append(s, x)) = Range(s) \union {x}
         /\ IsInjective(s) /\ x \notin Range(s) => IsInjective(Append(s, x))
<1> DEFINE t == Append(s, x)
<1>1. /\ t \in Seq(X) /\ Len(t) = Len(s) + 1 /\ t[Len(s) + 1] = x
      /\ \A i \in 1 .. Len(s) : t[i] = s[i]
  BY AppendFacts
<1> HIDE DEF t
<1>2. /\ Len(s) \in Nat
      /\ \A y : y \in Range(s) <=> \E i \in 1 .. Len(s) : s[i] = y
      /\ \A y : y \in Range(t) <=> \E i \in 1 .. Len(t) : t[i] = y
      /\ IsInjective(s) <=> \A i, j \in 1 .. Len(s) : s[i] = s[j] => i = j
      /\ IsInjective(t) <=> \A i, j \in 1 .. Len(t) : t[i] = t[j] => i = j
  BY <1>1, Distinct
<1>3. ASSUME NEW y PROVE y \in Range(t) <=> y \in Range(s) \union {x}
  <2>1. ASSUME NEW i \in 1 .. Len(t) PROVE t[i] \in Range(s) \union {x}
    <3>1. i = Len(s) + 1 \/ i \in 1 .. Len(s)
      BY <1>1, <1>2
    <3> QED BY <1>1, <1>2, <3>1
  <2>2. ASSUME NEW i \in 1 .. Len(s) PROVE s[i] \in Range(t)
    <3>1. i \in 1 .. Len(t) /\ t[i] = s[i]
      BY <1>1, <1>2
    <3> QED BY <1>2, <3>1
  <2>3. x \in Range(t)
    <3>1. Len(s) + 1 \in 1 .. Len(t)
      BY <1>1, <1>2
    <3> QED BY <1>1, <1>2, <3>1
  <2> QED BY <1>2, <2>1, <2>2, <2>3
<1>4. ASSUME IsInjective(s), x \notin Range(s) PROVE IsInjective(t)
  <2>1. ASSUME NEW i \in 1 .. Len(t), NEW j \in 1 .. Len(t), t[i] = t[j] PROVE i = j
    <3>1. (i = Len(s) + 1 \/ i \in 1 .. Len(s)) /\ (j = Len(s) + 1 \/ j \in 1 .. Len(s))
      BY <1>1, <1>2
    <3>2. \A k \in 1 .. Len(s) : s[k] # x
      BY <1>2, <1>4
    <3> QED BY <1>1, <1>2, <1>4, <2>1, <3>1, <3>2
  <2> QED BY <1>2, <2>1
<1> QED BY <1>1, <1>3, <1>4 DEF t

LEMMA MinFacts ==
  ASSUME NEW S \in SUBSET Nat, S # {}
  PROVE  Min(S) \in S /\ \A y \in S : Min(S) <= y
<1>1. \E x \in S : \A y \in S : x <= y
  BY LeastExists
<1> QED BY <1>1 DEF Min

\* An element that is put behind the first k.
LEMMA InsertFacts ==
  ASSUME NEW X, NEW s \in Seq(X), IsInjective(s), NEW x \in X, x \notin Range(s),
         NEW k \in 0 .. Len(s)
  PROVE  LET t == SubSeq(s, 1, k) \o <<x>> \o SubSeq(s, k + 1, Len(s))
         IN  t \in Seq(X) /\ IsInjective(t) /\ Range(t) = Range(s) \union {x}
<1> DEFINE a == SubSeq(s, 1, k)
           b == SubSeq(s, k + 1, Len(s))
           c == <<x>>
           d == a \o c
           t == d \o b
<1>1. /\ Len(s) \in Nat /\ \A y : y \in Range(s) <=> \E i \in 1 .. Len(s) : s[i] = y
      /\ \A i, j \in 1 .. Len(s) : s[i] = s[j] => i = j
  BY Distinct
<1>2. a \in Seq(X) /\ Len(a) = k /\ \A i \in 1 .. k : a[i] = s[i]
  BY <1>1
<1>3. b \in Seq(X) /\ Len(b) = Len(s) - k /\ \A i \in 1 .. Len(s) - k : b[i] = s[i + k]
  BY <1>1
<1>4. c \in Seq(X) /\ Len(c) = 1 /\ c[1] = x
  OBVIOUS
<1> HIDE DEF a, b, c
<1>5. d \in Seq(X) /\ Len(d) = k + 1 /\ d[k + 1] = x /\ \A i \in 1 .. k : d[i] = s[i]
  <2>1. /\ d \in Seq(X) /\ Len(d) = Len(a) + Len(c)
        /\ \A i \in 1 .. Len(a) + Len(c) : d[i] = IF i <= Len(a) THEN a[i] ELSE c[i - Len(a)]
    BY <1>2, <1>4, ConcatPlaces
  <2>2. k \in Nat /\ k + 1 - k = 1 /\ k + 1 \in 1 .. k + 1 /\ ~ (k + 1 <= k)
        /\ \A i \in 1 .. k : i \in 1 .. k + 1 /\ i <= k
    BY <1>1
  <2> HIDE DEF d
  <2> QED BY <1>2, <1>4, <2>1, <2>2
<1> HIDE DEF d
<1>6. /\ t \in Seq(X) /\ Len(t) = Len(s) + 1
      /\ \A i \in 1 .. Len(s) + 1 :
           t[i] = IF i <= k THEN s[i] ELSE IF i = k + 1 THEN x ELSE s[i - 1]
  <2>1. /\ t \in Seq(X) /\ Len(t) = Len(d) + Len(b)
        /\ \A i \in 1 .. Len(d) + Len(b) : t[i] = IF i <= Len(d) THEN d[i] ELSE b[i - Len(d)]
    BY <1>3, <1>5, ConcatPlaces
  <2>2. Len(d) + Len(b) = Len(s) + 1
    BY <1>1, <1>3, <1>5
  <2>3. ASSUME NEW i \in 1 .. Len(s) + 1
        PROVE  t[i] = IF i <= k THEN s[i] ELSE IF i = k + 1 THEN x ELSE s[i - 1]
    <3> HIDE DEF t
    <3>1. CASE i <= k
      <4>1. i \in 1 .. k /\ i <= k + 1
        BY <1>1, <3>1
      <4> QED BY <1>5, <2>1, <2>2, <3>1, <4>1
    <3>2. CASE i = k + 1
      BY <1>1, <1>5, <2>1, <2>2, <3>2
    <3>3. CASE i > k + 1
      <4>1. i - (k + 1) \in 1 .. Len(s) - k /\ i - (k + 1) + k = i - 1 /\ ~ (i <= k + 1)
        BY <1>1, <3>3
      <4>2. t[i] = b[i - (k + 1)]
        BY <1>5, <2>1, <2>2, <4>1
      <4>3. b[i - (k + 1)] = s[i - 1]
        BY <1>3, <4>1
      <4> QED BY <1>1, <3>3, <4>2, <4>3
    <3> QED BY <1>1, <3>1, <3>2, <3>3
  <2> QED BY <2>1, <2>2, <2>3
<1> HIDE DEF t
<1>7. /\ \A y : y \in Range(t) <=> \E i \in 1 .. Len(t) : t[i] = y
      /\ IsInjective(t) <=> \A i, j \in 1 .. Len(t) : t[i] = t[j] => i = j
  BY <1>6, Distinct
<1>8. ASSUME NEW i \in 1 .. Len(t), NEW j \in 1 .. Len(t), t[i] = t[j] PROVE i = j
  <2> DEFINE p(n) == IF n <= k THEN n ELSE n - 1
  <2>1. /\ i # k + 1 => p(i) \in 1 .. Len(s) /\ t[i] = s[p(i)]
        /\ j # k + 1 => p(j) \in 1 .. Len(s) /\ t[j] = s[p(j)]
        /\ i = k + 1 => t[i] = x
        /\ j = k + 1 => t[j] = x
    BY <1>1, <1>6
  <2>2. \A n \in 1 .. Len(s) : s[n] # x
    BY <1>1
  <2>3. (i = k + 1 /\ j = k + 1) \/ (i # k + 1 /\ j # k + 1 /\ p(i) = p(j))
    <3> HIDE DEF p
    <3> QED BY <1>1, <1>8, <2>1, <2>2
  <2> QED BY <1>1, <1>6, <2>3
<1>9. ASSUME NEW y \in Range(t) PROVE y \in Range(s) \union {x}
  <2>1. PICK i \in 1 .. Len(t) : t[i] = y
    BY <1>7
  <2>2. i <= k => i \in 1 .. Len(s)
    BY <1>1, <1>6
  <2>3. ~ (i <= k) /\ i # k + 1 => i - 1 \in 1 .. Len(s)
    BY <1>1, <1>6
  <2> QED BY <1>1, <1>6, <2>1, <2>2, <2>3
<1>10. ASSUME NEW y \in Range(s) PROVE y \in Range(t)
  <2>1. PICK i \in 1 .. Len(s) : s[i] = y
    BY <1>1
  <2> DEFINE p == IF i <= k THEN i ELSE i + 1
  <2>2. p \in 1 .. Len(t) /\ t[p] = s[i]
    BY <1>1, <1>6, <2>1
  <2> QED BY <1>7, <2>1, <2>2
<1>11. x \in Range(t)
  <2>1. k + 1 \in 1 .. Len(t) /\ t[k + 1] = x
    BY <1>1, <1>6
  <2> QED BY <1>7, <2>1
<1>12. t \in Seq(X) /\ IsInjective(t) /\ Range(t) = Range(s) \union {x}
  BY <1>6, <1>7, <1>8, <1>9, <1>10, <1>11
<1> QED BY <1>12 DEF t, a, b, c, d

\* A list of numbers has a largest one.
LEMMA MaxOfList ==
  ASSUME NEW X \in SUBSET Nat, NEW s \in Seq(X), s # <<>>
  PROVE  Max(Range(s)) \in Range(s)
<1> DEFINE P == {n \in Nat : 1 <= n /\ n <= Len(s) =>
                               \E i \in 1 .. n : \A j \in 1 .. n : s[j] <= s[i]}
<1>1. Len(s) \in Nat /\ Len(s) >= 1 /\ \A i \in 1 .. Len(s) : s[i] \in Nat
  <2>1. Len(s) \in Nat /\ Len(s) >= 1
    OBVIOUS
  <2>2. \A i \in 1 .. Len(s) : s[i] \in X
    OBVIOUS
  <2> QED BY <2>1, <2>2
<1>2. 0 \in P
  OBVIOUS
<1>3. ASSUME NEW n \in Nat, n \in P PROVE n + 1 \in P
  <2> SUFFICES ASSUME n + 1 <= Len(s)
               PROVE  \E i \in 1 .. n + 1 : \A j \in 1 .. n + 1 : s[j] <= s[i]
    OBVIOUS
  <2>1. n + 1 \in 1 .. Len(s) /\ \A j \in 1 .. n + 1 : s[j] \in Nat /\ (j = n + 1 \/ j \in 1 .. n)
    BY <1>1
  <2>2. CASE n = 0
    <3>1. \A j \in 1 .. n + 1 : s[j] <= s[1]
      BY <2>1, <2>2
    <3> QED BY <2>2, <3>1
  <2>3. CASE n # 0
    <3>1. PICK i \in 1 .. n : \A j \in 1 .. n : s[j] <= s[i]
      BY <1>1, <1>3, <2>3
    <3>2. CASE s[n + 1] <= s[i]
      <4>1. i \in 1 .. n + 1
        OBVIOUS
      <4>2. \A j \in 1 .. n + 1 : s[j] <= s[i]
        BY <2>1, <3>1, <3>2
      <4> QED BY <4>1, <4>2
    <3>3. CASE ~ (s[n + 1] <= s[i])
      <4>1. n + 1 \in 1 .. n + 1 /\ i \in 1 .. n + 1
        OBVIOUS
      <4>2. s[i] \in Nat /\ s[n + 1] \in Nat /\ s[i] <= s[n + 1]
        BY <2>1, <3>3, <4>1
      <4>3. \A j \in 1 .. n + 1 : s[j] <= s[n + 1]
        BY <2>1, <3>1, <4>2
      <4> QED BY <4>1, <4>3
    <3> QED BY <3>2, <3>3
  <2> QED BY <2>2, <2>3
<1>4. Len(s) \in P
  <2> HIDE DEF P
  <2> QED BY <1>1, <1>2, <1>3, NatSetInduction
<1>5. PICK i \in 1 .. Len(s) : \A j \in 1 .. Len(s) : s[j] <= s[i]
  BY <1>1, <1>4
<1>6. s[i] \in Range(s) /\ \A y \in Range(s) : s[i] >= y
  <2>1. \A x : x \in Range(s) <=> \E j \in 1 .. Len(s) : s[j] = x
    BY Distinct
  <2> QED BY <1>1, <1>5, <2>1
<1> QED BY <1>6 DEF Max

LEMMA MaxWithZero ==
  ASSUME NEW x \in Int
  PROVE  Max({0, x}) = IF x > 0 THEN x ELSE 0
<1> DEFINE S == {0, x}
           v == IF x > 0 THEN x ELSE 0
<1>1. v \in S /\ \A y \in S : v >= y
  OBVIOUS
<1>2. ASSUME NEW w \in S, \A y \in S : w >= y PROVE w = v
  BY <1>1, <1>2
<1>3. Max(S) \in S /\ \A y \in S : Max(S) >= y
  <2> HIDE DEF S, v
  <2> QED BY <1>1 DEF Max
<1> HIDE DEF S
<1>4. Max(S) = v
  BY <1>2, <1>3
<1> QED BY <1>4 DEF S

-----------------------------------------------------------------------------
(* Sizes.                                                                   *)

LEMMA Constants ==
  /\ CacheSize \in Nat /\ CacheSize >= 1
  /\ NumItems \in Nat /\ Items = 1 .. NumItems
  /\ \A h \in Items : Size[h] \in Nat /\ Size[h] >= 1 /\ Size[h] <= CacheSize
  /\ \A r \in Requests : /\ r \in Nat /\ Inputs[r] \in Seq(Items) /\ Len(Inputs[r]) \in Nat
                         /\ DOMAIN Inputs[r] = 1 .. Len(Inputs[r])
                         /\ \A i \in DOMAIN Inputs[r] : ItemOf(r, i) \in Items
<1>1. /\ CacheSize \in Nat /\ CacheSize >= 1 /\ NumItems \in Nat
      /\ \A h \in Items : Size[h] \in Nat /\ Size[h] >= 1 /\ Size[h] <= CacheSize
  BY ItemsAssumption
<1>2. ASSUME NEW r \in Requests
      PROVE  /\ r \in Nat /\ Inputs[r] \in Seq(Items) /\ Len(Inputs[r]) \in Nat
             /\ DOMAIN Inputs[r] = 1 .. Len(Inputs[r])
             /\ \A i \in DOMAIN Inputs[r] : ItemOf(r, i) \in Items
  <2>1. r \in Nat /\ Inputs[r] \in Seq(Items)
    BY InputsAssumption
  <2> QED BY <2>1 DEF ItemOf
<1> QED BY <1>1, <1>2 DEF Items

\* f[n] is the size of the items up to n of S.
Sums(f, S) ==
  /\ f \in [0 .. NumItems -> Nat] /\ f[0] = 0
  /\ \A h \in Items : f[h] = f[h - 1] + (IF h \in S THEN Size[h] ELSE 0)

\* The loop of Sizes has a result, and it obeys its equations.
LEMMA SizesSum ==
  ASSUME NEW S \in SUBSET Items
  PROVE  \E f : Sums(f, S) /\ f[NumItems] = Sizes(S)
<1> DEFINE N == NumItems
           part(i) == IF i \in S THEN Size[i] ELSE 0
           pass == [i \in 1 .. N |-> [y \in Nat |-> y + part(i)]]
           Loop(l) == l = [i \in 0 .. N |-> IF i = 0 THEN 0 ELSE l[i - 1] + part(i)]
           f == CHOOSE l : Loop(l)
           J == [i \in 0 .. N |-> Nat]
<1>1. Sizes(S) = f[N]
  BY DEF Sizes
<1>2. N \in Nat /\ \A i \in 1 .. N : i \in Items /\ part(i) \in Nat
  BY Constants
<1> HIDE DEF N, part
<1>3. PICK g \in [0 .. N -> Nat] : Iterates(g, N, 0, pass)
  <2>1. pass \in [1 .. N -> [Nat -> Nat]]
    BY <1>2
  <2> HIDE DEF pass
  <2> QED BY <1>2, <2>1, IterationExists
<1>4. Loop(g)
  <2>1. ASSUME NEW i \in 0 .. N, i # 0 PROVE g[i] = g[i - 1] + part(i)
    <3>1. i \in 1 .. N /\ i - 1 \in 0 .. N
      BY <1>2, <2>1
    <3>2. g[i] = pass[i][g[i - 1]] /\ g[i - 1] \in Nat
      BY <1>3, <3>1 DEF Iterates
    <3> QED BY <3>1, <3>2
  <2>2. g[0] = 0
    BY <1>3 DEF Iterates
  <2> QED BY <1>3, <2>1, <2>2
<1>5. Loop(f)
  BY <1>4
<1> HIDE DEF f
<1>6. f[0] = 0 /\ \A i \in 1 .. N : f[i] = f[i - 1] + part(i)
  <2>1. \A i \in 0 .. N : f[i] = IF i = 0 THEN 0 ELSE f[i - 1] + part(i)
    BY <1>5
  <2>2. 0 \in 0 .. N /\ \A i \in 1 .. N : i \in 0 .. N /\ i # 0
    BY <1>2
  <2> QED BY <2>1, <2>2
<1>7. \A n \in 0 .. N : f[n] \in Nat
  <2> DEFINE P == {n \in Nat : n <= N => f[n] \in Nat}
  <2>1. 0 \in P
    BY <1>6
  <2>2. ASSUME NEW n \in Nat, n \in P PROVE n + 1 \in P
    BY <1>2, <1>6, <2>2
  <2>3. \A n \in Nat : n \in P
    <3> HIDE DEF P
    <3> QED BY <2>1, <2>2, NatSetInduction
  <2> QED BY <1>2, <2>3
<1>8. DOMAIN f = 0 .. N /\ f = [n \in 0 .. N |-> f[n]]
  BY <1>5
<1>9. f \in [0 .. N -> Nat]
  BY <1>7, <1>8
<1>10. Items = 1 .. N
  BY Constants DEF N
<1>11. Sums(f, S)
  BY <1>6, <1>9, <1>10 DEF Sums, N, part
<1> QED BY <1>1, <1>11 DEF N

LEMMA SizesType ==
  ASSUME NEW S \in SUBSET Items
  PROVE  Sizes(S) \in Nat
<1>1. PICK f : Sums(f, S) /\ f[NumItems] = Sizes(S)
  BY SizesSum
<1>2. NumItems \in 0 .. NumItems
  BY Constants
<1> QED BY <1>1, <1>2 DEF Sums

\* The sizes of disjoint sets of items add up.
LEMMA SizesUnion ==
  ASSUME NEW S \in SUBSET Items, NEW T \in SUBSET Items, S \cap T = {}
  PROVE  Sizes(S \union T) = Sizes(S) + Sizes(T)
<1> DEFINE U == S \union T
<1>1. PICK f : Sums(f, S) /\ f[NumItems] = Sizes(S)
  BY SizesSum
<1>2. PICK g : Sums(g, T) /\ g[NumItems] = Sizes(T)
  BY SizesSum
<1>3. PICK k : Sums(k, U) /\ k[NumItems] = Sizes(U)
  BY SizesSum
<1> DEFINE P == {n \in Nat : n <= NumItems => k[n] = f[n] + g[n]}
<1>4. 0 \in P
  BY <1>1, <1>2, <1>3 DEF Sums
<1>5. ASSUME NEW n \in Nat, n \in P PROVE n + 1 \in P
  <2> SUFFICES ASSUME n + 1 <= NumItems PROVE k[n + 1] = f[n + 1] + g[n + 1]
    OBVIOUS
  <2> DEFINE h == n + 1
  <2>1. h \in Items /\ h - 1 = n /\ n \in 0 .. NumItems /\ Size[h] \in Nat
    BY Constants
  <2>2. k[n] = f[n] + g[n]
    BY <1>5, <2>1, Constants
  <2> HIDE DEF h
  <2>3. /\ f[h] = f[n] + (IF h \in S THEN Size[h] ELSE 0) /\ f[n] \in Nat
        /\ g[h] = g[n] + (IF h \in T THEN Size[h] ELSE 0) /\ g[n] \in Nat
        /\ k[h] = k[n] + (IF h \in U THEN Size[h] ELSE 0)
    BY <1>1, <1>2, <1>3, <2>1 DEF Sums
  <2>4. k[h] = f[h] + g[h]
    BY <2>1, <2>2, <2>3
  <2> QED BY <2>4 DEF h
<1>6. NumItems \in P
  <2> HIDE DEF P
  <2> QED BY <1>4, <1>5, NatSetInduction, Constants
<1> QED BY <1>1, <1>2, <1>3, <1>6

LEMMA SizesEmpty == Sizes({}) = 0
<1>1. PICK f : Sums(f, {}) /\ f[NumItems] = Sizes({})
  BY SizesSum
<1> DEFINE P == {n \in Nat : n <= NumItems => f[n] = 0}
<1>2. 0 \in P
  BY <1>1 DEF Sums
<1>3. ASSUME NEW n \in Nat, n \in P PROVE n + 1 \in P
  BY <1>1, <1>3, Constants DEF Sums
<1>4. NumItems \in P
  <2> HIDE DEF P
  <2> QED BY <1>2, <1>3, NatSetInduction, Constants
<1> QED BY <1>1, <1>4

LEMMA SizesOne ==
  ASSUME NEW h \in Items
  PROVE  Sizes({h}) = Size[h]
<1>1. PICK f : Sums(f, {h}) /\ f[NumItems] = Sizes({h})
  BY SizesSum
<1> DEFINE P == {n \in Nat : n <= NumItems => f[n] = IF h <= n THEN Size[h] ELSE 0}
<1>2. h \in Nat /\ h >= 1 /\ h <= NumItems /\ NumItems \in Nat /\ Size[h] \in Nat
  BY Constants
<1>3. 0 \in P
  BY <1>1, <1>2 DEF Sums
<1>4. ASSUME NEW n \in Nat, n \in P PROVE n + 1 \in P
  <2> SUFFICES ASSUME n + 1 <= NumItems PROVE f[n + 1] = IF h <= n + 1 THEN Size[h] ELSE 0
    OBVIOUS
  <2>1. n + 1 \in Items /\ n + 1 - 1 = n /\ f[n] = IF h <= n THEN Size[h] ELSE 0
    BY <1>2, <1>4, Constants
  <2>2. f[n + 1] = f[n] + (IF n + 1 = h THEN Size[h] ELSE 0)
    BY <1>1, <2>1 DEF Sums
  <2> QED BY <1>2, <2>1, <2>2
<1>5. NumItems \in P
  <2> HIDE DEF P
  <2> QED BY <1>2, <1>3, <1>4, NatSetInduction
<1> QED BY <1>1, <1>2, <1>5

LEMMA SizesAdd ==
  ASSUME NEW S \in SUBSET Items, NEW h \in Items, h \notin S
  PROVE  Sizes(S \union {h}) = Sizes(S) + Size[h]
BY SizesUnion, SizesOne

LEMMA SizesDrop ==
  ASSUME NEW S \in SUBSET Items, NEW h \in S
  PROVE  Sizes(S \ {h}) = Sizes(S) - Size[h]
<1> DEFINE T == S \ {h}
<1>1. T \in SUBSET Items /\ h \in Items /\ h \notin T /\ T \union {h} = S
  OBVIOUS
<1> HIDE DEF T
<1>2. Sizes(S) = Sizes(T) + Size[h] /\ Sizes(T) \in Nat /\ Size[h] \in Nat
  BY <1>1, SizesAdd, SizesType, Constants
<1> QED BY <1>2 DEF T

-----------------------------------------------------------------------------
(* The manager.                                                             *)

Caches == UNION {[D -> SUBSET Requests] : D \in SUBSET Items}

Managers ==
  [cached : Caches, ids : [Requests -> SUBSET Nat], freeable : Seq(Items),
   freed : SUBSET Items, num_free : Int, num_freeable : Int]

\* Request r references item h.
Holds(m, r, h) == h \in DOMAIN m.cached /\ r \in m.cached[h]

Used(m) == {h \in DOMAIN m.cached : m.cached[h] # {}}

Slots(m) ==
  /\ m.num_free = CacheSize - Sizes(DOMAIN m.cached)
  /\ m.num_freeable = CacheSize - Sizes(Used(m))
  /\ Range(m.freeable) = DOMAIN m.cached \ Used(m)
  /\ IsInjective(m.freeable)

Refs(m) ==
  \A r \in Requests :
    /\ m.ids[r] \subseteq DOMAIN Inputs[r]
    /\ \A h \in Items : Holds(m, r, h) <=> \E i \in m.ids[r] : ItemOf(r, i) = h

MgrOK(m) == m \in Managers /\ Slots(m) /\ Refs(m)

LEMMA ManagerFields ==
  ASSUME NEW m \in Managers
  PROVE  /\ DOMAIN m.cached \subseteq Items
         /\ m.cached \in [DOMAIN m.cached -> SUBSET Requests]
         /\ m.ids \in [Requests -> SUBSET Nat]
         /\ m.freeable \in Seq(Items) /\ m.freed \subseteq Items
         /\ m.num_free \in Int /\ m.num_freeable \in Int
         /\ Used(m) \subseteq DOMAIN m.cached /\ Used(m) \subseteq Items
<1>1. m.cached \in Caches
  BY DEF Managers
<1>2. PICK D \in SUBSET Items : m.cached \in [D -> SUBSET Requests]
  BY <1>1 DEF Caches
<1>3. DOMAIN m.cached \subseteq Items /\ m.cached \in [DOMAIN m.cached -> SUBSET Requests]
  BY <1>2
<1> QED BY <1>3 DEF Managers, Used

LEMMA IsManager ==
  ASSUME NEW c, NEW D \in SUBSET Items, c \in [D -> SUBSET Requests],
         NEW i \in [Requests -> SUBSET Nat], NEW f \in Seq(Items), NEW g \in SUBSET Items,
         NEW n \in Int, NEW k \in Int
  PROVE  [cached |-> c, ids |-> i, freeable |-> f, freed |-> g,
          num_free |-> n, num_freeable |-> k] \in Managers
BY DEF Managers, Caches

\* The manager of __init__ and of reset.
LEMMA FreshOK == MgrOK(Fresh)
<1>1. Fresh.cached = [h \in {} |-> {}] /\ DOMAIN Fresh.cached = {} /\ Used(Fresh) = {}
  BY DEF Fresh, Used
<1>2. /\ Fresh.ids = [r \in Requests |-> {}] /\ Fresh.freeable = <<>>
      /\ Fresh.num_free = CacheSize /\ Fresh.num_freeable = CacheSize
  BY DEF Fresh
<1>3. Fresh \in Managers
  <2>1. /\ [h \in {} |-> {}] \in [{} -> SUBSET Requests]
        /\ [r \in Requests |-> {}] \in [Requests -> SUBSET Nat]
        /\ <<>> \in Seq(Items) /\ {} \in SUBSET Items /\ CacheSize \in Int
    BY Constants
  <2> QED BY <2>1, IsManager DEF Fresh
<1>4. Slots(Fresh)
  <2>1. Range(Fresh.freeable) = {} /\ IsInjective(Fresh.freeable)
    BY <1>2 DEF Range, IsInjective
  <2> QED BY <1>1, <1>2, <2>1, SizesEmpty, Constants DEF Slots
<1>5. Refs(Fresh)
  BY <1>1, <1>2 DEF Refs, Holds
<1> QED BY <1>3, <1>4, <1>5 DEF MgrOK

\* check_and_update_cache: r references one more item, which leaves the eviction
\* list if it was there.
LEMMA ReferenceFields ==
  ASSUME NEW m \in Managers, NEW r \in Requests, NEW i \in DOMAIN Inputs[r],
         ItemOf(r, i) \in DOMAIN m.cached
  PROVE  LET h == ItemOf(r, i)
             idle == m.cached[h] = {}
             n == Reference(m, r, i)
         IN  /\ n.cached = [m.cached EXCEPT ![h] = @ \union {r}]
             /\ n.ids = [m.ids EXCEPT ![r] = @ \union {i}]
             /\ n.freeable = IF idle THEN Remove(m.freeable, h) ELSE m.freeable
             /\ n.num_freeable = IF idle THEN m.num_freeable - Size[h] ELSE m.num_freeable
             /\ n.freed = m.freed /\ n.num_free = m.num_free
<1> DEFINE h == ItemOf(r, i)
           idle == m.cached[h] = {}
           n == Reference(m, r, i)
<1>1. n.cached = [m.cached EXCEPT ![h] = @ \union {r}]
  BY DEF Reference, Managers
<1>2. n.ids = [m.ids EXCEPT ![r] = @ \union {i}]
  BY DEF Reference, Managers
<1>3. n.freeable = IF idle THEN Remove(m.freeable, h) ELSE m.freeable
  BY DEF Reference, Managers
<1>4. n.num_freeable = IF idle THEN m.num_freeable - Size[h] ELSE m.num_freeable
  BY DEF Reference, Managers
<1>5. n.freed = m.freed /\ n.num_free = m.num_free
  BY DEF Reference, Managers
<1> QED BY <1>1, <1>2, <1>3, <1>4, <1>5

\* The references of r after a change to its inputs on record and to one item.
LEMMA RefsAfter ==
  ASSUME NEW m, NEW n, Refs(m), NEW r \in Requests,
         n.ids[r] \subseteq DOMAIN Inputs[r],
         \A s \in Requests : s # r => n.ids[s] = m.ids[s],
         \A s \in Requests, h \in Items : s # r => (Holds(n, s, h) <=> Holds(m, s, h)),
         \A h \in Items : Holds(n, r, h) <=> \E i \in n.ids[r] : ItemOf(r, i) = h
  PROVE  Refs(n)
BY DEF Refs

\* check_and_update_cache adds one reference; an item that had none leaves the eviction list.
LEMMA ReferenceKeeps ==
  ASSUME NEW m, MgrOK(m), NEW r \in Requests, NEW i \in DOMAIN Inputs[r],
         ItemOf(r, i) \in DOMAIN m.cached
  PROVE  /\ MgrOK(Reference(m, r, i))
         /\ DOMAIN Reference(m, r, i).cached = DOMAIN m.cached
         /\ Reference(m, r, i).num_free = m.num_free
         /\ Reference(m, r, i).freed = m.freed
         /\ \A s \in Requests : s # r => Reference(m, r, i).ids[s] = m.ids[s]
         /\ \A s \in Requests, g \in Items :
              Holds(Reference(m, r, i), s, g) <=> Holds(m, s, g) \/ (s = r /\ g = ItemOf(r, i))
<1> DEFINE h == ItemOf(r, i)
           n == Reference(m, r, i)
<1>1. m \in Managers /\ Slots(m) /\ Refs(m)
  BY DEF MgrOK
<1>2. /\ DOMAIN m.cached \subseteq Items
      /\ m.cached \in [DOMAIN m.cached -> SUBSET Requests]
      /\ m.ids \in [Requests -> SUBSET Nat]
      /\ m.freeable \in Seq(Items) /\ m.freed \subseteq Items
      /\ m.num_free \in Int /\ m.num_freeable \in Int
      /\ Used(m) \subseteq DOMAIN m.cached /\ Used(m) \subseteq Items
  BY <1>1, ManagerFields
<1>3. h \in Items /\ h \in DOMAIN m.cached /\ Size[h] \in Nat /\ i \in Nat
  BY Constants
<1>4. /\ n.cached = [m.cached EXCEPT ![h] = @ \union {r}]
      /\ n.ids = [m.ids EXCEPT ![r] = @ \union {i}]
      /\ n.freeable = IF m.cached[h] = {} THEN Remove(m.freeable, h) ELSE m.freeable
      /\ n.num_freeable = IF m.cached[h] = {} THEN m.num_freeable - Size[h]
                          ELSE m.num_freeable
      /\ n.freed = m.freed /\ n.num_free = m.num_free
  BY <1>1, ReferenceFields
<1>5. /\ Remove(m.freeable, h) \in Seq(Items) /\ IsInjective(Remove(m.freeable, h))
      /\ Range(Remove(m.freeable, h)) = Range(m.freeable) \ {h}
  BY <1>1, <1>2, RemoveFacts DEF Slots
<1>6. n \in Managers
  <2>1. /\ n.cached \in [DOMAIN m.cached -> SUBSET Requests]
        /\ n.ids \in [Requests -> SUBSET Nat]
        /\ n.freeable \in Seq(Items) /\ n.num_freeable \in Int
    BY <1>2, <1>3, <1>4, <1>5
  <2>2. n.cached \in Caches
    BY <1>2, <2>1 DEF Caches
  <2> QED BY <1>1, <2>1, <2>2 DEF Reference, Managers
<1> HIDE DEF n, h
<1>7. /\ DOMAIN n.cached = DOMAIN m.cached
      /\ n.cached[h] = m.cached[h] \union {r}
      /\ \A g \in DOMAIN m.cached : g # h => n.cached[g] = m.cached[g]
      /\ n.ids[r] = m.ids[r] \union {i}
      /\ \A s \in Requests : s # r => n.ids[s] = m.ids[s]
  BY <1>2, <1>3, <1>4
<1>8. \A s \in Requests, g \in Items : Holds(n, s, g) <=> Holds(m, s, g) \/ (s = r /\ g = h)
  BY <1>3, <1>7 DEF Holds
<1>9. Refs(n)
  <2>1. n.ids[r] \subseteq DOMAIN Inputs[r]
    BY <1>1, <1>7 DEF Refs
  <2>2. ASSUME NEW g \in Items PROVE Holds(n, r, g) <=> \E j \in n.ids[r] : ItemOf(r, j) = g
    <3>1. Holds(m, r, g) <=> \E j \in m.ids[r] : ItemOf(r, j) = g
      BY <1>1 DEF Refs
    <3> QED BY <1>7, <1>8, <3>1 DEF h
  <2> QED BY <1>1, <1>7, <1>8, <2>1, <2>2, RefsAfter
<1>10. Slots(n)
  <2>1. Used(n) = Used(m) \union {h}
    BY <1>3, <1>7 DEF Used
  <2>2. CASE m.cached[h] = {}
    <3>1. h \notin Used(m) /\ h \in Range(m.freeable)
      BY <1>1, <1>3, <2>2 DEF Used, Slots
    <3>2. Sizes(Used(n)) = Sizes(Used(m)) + Size[h] /\ Sizes(Used(m)) \in Nat
      BY <1>2, <1>3, <2>1, <3>1, SizesAdd, SizesType
    <3>3. n.num_freeable = CacheSize - Sizes(Used(n))
      BY <1>1, <1>3, <1>4, <2>2, <3>2, Constants DEF Slots
    <3>4. Range(n.freeable) = DOMAIN n.cached \ Used(n) /\ IsInjective(n.freeable)
      BY <1>1, <1>4, <1>5, <1>7, <2>1, <2>2 DEF Slots
    <3> QED BY <1>1, <1>4, <1>7, <3>3, <3>4 DEF Slots
  <2>3. CASE m.cached[h] # {}
    <3>1. Used(n) = Used(m)
      BY <1>3, <2>1, <2>3 DEF Used
    <3> QED BY <1>1, <1>4, <1>7, <2>3, <3>1 DEF Slots
  <2> QED BY <2>2, <2>3
<1> QED BY <1>4, <1>6, <1>7, <1>8, <1>9, <1>10 DEF MgrOK, n, h

\* free_encoder_input: what it does, given whether r keeps the item for another of
\* its inputs and whether another request references it.
LEMMA FreeOneFields ==
  ASSUME NEW m \in Managers, NEW r \in Requests, NEW i \in DOMAIN Inputs[r]
  PROVE  LET h == ItemOf(r, i)
             n == FreeEncoderInput(m, r, i)
             kept == \/ h \notin DOMAIN m.cached \/ m.cached[h] = {}
                     \/ \E j \in m.ids[r] \ {i} : ItemOf(r, j) = h
             idle == ~kept /\ m.cached[h] \ {r} = {}
         IN  /\ n.cached = IF kept THEN m.cached ELSE [m.cached EXCEPT ![h] = m.cached[h] \ {r}]
             /\ n.ids = [m.ids EXCEPT ![r] = m.ids[r] \ {i}]
             /\ n.freeable = IF idle THEN Append(m.freeable, h) ELSE m.freeable
             /\ n.num_freeable = IF idle THEN m.num_freeable + Size[h] ELSE m.num_freeable
             /\ n.freed = m.freed /\ n.num_free = m.num_free
             /\ n \in Managers
<1> DEFINE h == ItemOf(r, i)
           n == FreeEncoderInput(m, r, i)
           kept == \/ h \notin DOMAIN m.cached \/ m.cached[h] = {}
                   \/ \E j \in m.ids[r] \ {i} : ItemOf(r, j) = h
           idle == ~kept /\ m.cached[h] \ {r} = {}
           m1 == [m EXCEPT !.ids[r] = m.ids[r] \ {i}]
<1>1. /\ DOMAIN m.cached \subseteq Items
      /\ m.cached \in [DOMAIN m.cached -> SUBSET Requests]
      /\ m.ids \in [Requests -> SUBSET Nat]
      /\ m.freeable \in Seq(Items) /\ m.freed \subseteq Items
      /\ m.num_free \in Int /\ m.num_freeable \in Int
  BY ManagerFields
<1>2. h \in Items /\ Size[h] \in Nat
  BY Constants
<1>3. /\ m1 \in Managers /\ m1.cached = m.cached /\ m1.freeable = m.freeable
      /\ m1.num_freeable = m.num_freeable /\ m1.freed = m.freed /\ m1.num_free = m.num_free
      /\ m1.ids = [m.ids EXCEPT ![r] = m.ids[r] \ {i}]
  BY <1>1 DEF Managers
<1>4. n = IF kept THEN m1
          ELSE IF m.cached[h] \ {r} # {}
               THEN [m1 EXCEPT !.cached[h] = @ \ {r}]
               ELSE [m1 EXCEPT !.cached[h] = {}, !.freeable = Append(@, h),
                               !.num_freeable = @ + Size[h]]
  BY DEF FreeEncoderInput
<1> HIDE DEF n, m1, h
<1>5. /\ n.cached = IF kept THEN m.cached ELSE [m.cached EXCEPT ![h] = m.cached[h] \ {r}]
      /\ n.ids = [m.ids EXCEPT ![r] = m.ids[r] \ {i}]
      /\ n.freeable = IF idle THEN Append(m.freeable, h) ELSE m.freeable
      /\ n.num_freeable = IF idle THEN m.num_freeable + Size[h] ELSE m.num_freeable
      /\ n.freed = m.freed /\ n.num_free = m.num_free
      /\ n \in Managers
  <2>1. CASE kept
    <3>1. n = m1 /\ ~idle
      BY <1>4, <2>1
    <3> HIDE DEF kept, idle
    <3> QED BY <1>3, <2>1, <3>1
  <2>2. CASE ~kept /\ m.cached[h] \ {r} # {}
    <3>1. n = [m1 EXCEPT !.cached[h] = @ \ {r}]
      BY <1>4, <2>2
    <3>2. n.cached = [m1.cached EXCEPT ![h] = m1.cached[h] \ {r}]
      BY <1>3, <3>1 DEF Managers
    <3>3. /\ n.ids = m1.ids /\ n.freeable = m1.freeable /\ n.num_freeable = m1.num_freeable
          /\ n.freed = m1.freed /\ n.num_free = m1.num_free
      BY <1>3, <3>1 DEF Managers
    <3>4. n.cached \in Caches
      <4>1. h \in DOMAIN m.cached /\ m.cached[h] \ {r} \in SUBSET Requests
        BY <1>1, <2>2
      <4>2. n.cached = [m.cached EXCEPT ![h] = m.cached[h] \ {r}]
        BY <1>3, <3>2
      <4>3. n.cached \in [DOMAIN m.cached -> SUBSET Requests]
        BY <1>1, <4>1, <4>2
      <4> QED BY <1>1, <4>3 DEF Caches
    <3>5. n \in Managers
      BY <1>3, <3>1, <3>4 DEF Managers
    <3>6. ~kept /\ ~idle
      BY <2>2
    <3> HIDE DEF kept, idle
    <3> QED BY <1>3, <3>2, <3>3, <3>5, <3>6
  <2>3. CASE ~kept /\ m.cached[h] \ {r} = {}
    <3>1. n = [m1 EXCEPT !.cached[h] = {}, !.freeable = Append(@, h), !.num_freeable = @ + Size[h]]
      BY <1>4, <2>3
    <3>2. n.cached = [m1.cached EXCEPT ![h] = {}]
      BY <1>3, <3>1 DEF Managers
    <3>3. /\ n.ids = m1.ids /\ n.freeable = Append(m1.freeable, h)
          /\ n.num_freeable = m1.num_freeable + Size[h]
          /\ n.freed = m1.freed /\ n.num_free = m1.num_free
      BY <1>3, <3>1 DEF Managers
    <3>4. n.cached \in Caches
      <4>1. n.cached = [m.cached EXCEPT ![h] = {}]
        BY <1>3, <3>2
      <4>2. n.cached \in [DOMAIN m.cached -> SUBSET Requests]
        BY <1>1, <4>1
      <4> QED BY <1>1, <4>2 DEF Caches
    <3>5. n \in Managers
      <4>1. n.freeable \in Seq(Items) /\ n.num_freeable \in Int
        BY <1>1, <1>2, <1>3, <3>3
      <4> QED BY <1>3, <3>1, <3>4, <4>1 DEF Managers
    <3>6. ~kept /\ idle /\ m.cached[h] \ {r} = {}
      BY <2>3
    <3> HIDE DEF kept, idle
    <3> QED BY <1>3, <3>2, <3>3, <3>5, <3>6
  <2> QED BY <2>1, <2>2, <2>3
<1> QED BY <1>5 DEF n, h

\* free_encoder_input: the reference goes with the last input of the request that shows the item.
LEMMA FreeOneKeeps ==
  ASSUME NEW m, MgrOK(m), NEW r \in Requests, NEW i \in m.ids[r]
  PROVE  /\ MgrOK(FreeEncoderInput(m, r, i))
         /\ DOMAIN FreeEncoderInput(m, r, i).cached = DOMAIN m.cached
         /\ FreeEncoderInput(m, r, i).num_free = m.num_free
         /\ FreeEncoderInput(m, r, i).freed = m.freed
         /\ FreeEncoderInput(m, r, i).ids[r] = m.ids[r] \ {i}
         /\ \A s \in Requests : s # r => FreeEncoderInput(m, r, i).ids[s] = m.ids[s]
         /\ \A s \in Requests, g \in Items :
              s # r => (Holds(FreeEncoderInput(m, r, i), s, g) <=> Holds(m, s, g))
<1> DEFINE h == ItemOf(r, i)
           n == FreeEncoderInput(m, r, i)
           other == \E j \in m.ids[r] \ {i} : ItemOf(r, j) = h
           idle == ~other /\ m.cached[h] \ {r} = {}
<1>1. m \in Managers /\ Slots(m) /\ Refs(m)
  BY DEF MgrOK
<1>2. /\ DOMAIN m.cached \subseteq Items
      /\ m.cached \in [DOMAIN m.cached -> SUBSET Requests]
      /\ m.ids \in [Requests -> SUBSET Nat]
      /\ m.freeable \in Seq(Items) /\ m.freed \subseteq Items
      /\ m.num_free \in Int /\ m.num_freeable \in Int
      /\ Used(m) \subseteq DOMAIN m.cached /\ Used(m) \subseteq Items
  BY <1>1, ManagerFields
<1>3. /\ i \in DOMAIN Inputs[r] /\ h \in Items /\ Size[h] \in Nat
      /\ Holds(m, r, h) /\ h \in DOMAIN m.cached /\ r \in m.cached[h] /\ h \in Used(m)
  <2>1. i \in DOMAIN Inputs[r]
    BY <1>1 DEF Refs
  <2>2. h \in Items /\ Size[h] \in Nat
    BY <2>1, Constants
  <2>3. Holds(m, r, h)
    BY <1>1, <2>2 DEF Refs
  <2> QED BY <2>1, <2>2, <2>3 DEF Holds, Used
<1>4. /\ n.cached = IF other THEN m.cached ELSE [m.cached EXCEPT ![h] = m.cached[h] \ {r}]
      /\ n.ids = [m.ids EXCEPT ![r] = m.ids[r] \ {i}]
      /\ n.freeable = IF idle THEN Append(m.freeable, h) ELSE m.freeable
      /\ n.num_freeable = IF idle THEN m.num_freeable + Size[h] ELSE m.num_freeable
      /\ n.freed = m.freed /\ n.num_free = m.num_free
      /\ n \in Managers
  <2>1. h \in DOMAIN m.cached /\ m.cached[h] # {}
    BY <1>3
  <2> QED BY <1>1, <1>3, <2>1, FreeOneFields
<1> HIDE DEF n, h
<1>5. /\ DOMAIN n.cached = DOMAIN m.cached
      /\ n.cached[h] = IF other THEN m.cached[h] ELSE m.cached[h] \ {r}
      /\ \A g \in DOMAIN m.cached : g # h => n.cached[g] = m.cached[g]
      /\ n.ids[r] = m.ids[r] \ {i}
      /\ \A s \in Requests : s # r => n.ids[s] = m.ids[s]
  BY <1>2, <1>3, <1>4
<1>6. \A s \in Requests, g \in Items : s # r => (Holds(n, s, g) <=> Holds(m, s, g))
  BY <1>3, <1>5 DEF Holds
<1>7. Refs(n)
  <2>1. n.ids[r] \subseteq DOMAIN Inputs[r]
    BY <1>1, <1>5 DEF Refs
  <2>2. ASSUME NEW g \in Items PROVE Holds(n, r, g) <=> \E j \in n.ids[r] : ItemOf(r, j) = g
    <3>1. Holds(m, r, g) <=> \E j \in m.ids[r] : ItemOf(r, j) = g
      BY <1>1 DEF Refs
    <3>2. CASE g # h
      BY <1>5, <3>1, <3>2 DEF Holds, h
    <3>3. CASE g = h
      BY <1>3, <1>5, <3>3 DEF Holds
    <3> QED BY <3>2, <3>3
  <2> QED BY <1>1, <1>5, <1>6, <2>1, <2>2, RefsAfter
<1>8. Slots(n)
  <2>1. CASE idle
    <3>1. Used(n) = Used(m) \ {h}
      BY <1>3, <1>5, <2>1 DEF Used
    <3>2. Sizes(Used(n)) = Sizes(Used(m)) - Size[h] /\ Sizes(Used(m)) \in Nat
      BY <1>2, <1>3, <3>1, SizesDrop, SizesType
    <3>3. n.num_freeable = CacheSize - Sizes(Used(n))
      BY <1>1, <1>3, <1>4, <2>1, <3>2, Constants DEF Slots
    <3>4. h \notin Range(m.freeable)
      BY <1>1, <1>3 DEF Slots
    <3>5. Range(n.freeable) = Range(m.freeable) \union {h} /\ IsInjective(n.freeable)
      <4>1. n.freeable = Append(m.freeable, h) /\ IsInjective(m.freeable)
        BY <1>1, <1>4, <2>1 DEF Slots
      <4> QED BY <1>2, <1>3, <3>4, <4>1, AppendDistinct
    <3>6. Range(n.freeable) = DOMAIN n.cached \ Used(n)
      BY <1>1, <1>3, <1>5, <3>1, <3>5 DEF Slots
    <3> QED BY <1>1, <1>4, <1>5, <3>3, <3>5, <3>6 DEF Slots
  <2>2. CASE ~idle
    <3>1. Used(n) = Used(m)
      BY <1>3, <1>5, <2>2 DEF Used
    <3> QED BY <1>1, <1>4, <1>5, <2>2, <3>1 DEF Slots
  <2> QED BY <2>1, <2>2
<1> QED BY <1>4, <1>5, <1>6, <1>7, <1>8 DEF MgrOK, n

\* The manager n is m after the inputs ids of r were freed.
Frees(m, n, r, ids) ==
  /\ MgrOK(n)
  /\ DOMAIN n.cached = DOMAIN m.cached
  /\ n.num_free = m.num_free
  /\ n.freed = m.freed
  /\ n.ids[r] = m.ids[r] \ ids
  /\ \A s \in Requests : s # r => n.ids[s] = m.ids[s]
  /\ \A s \in Requests, g \in Items : s # r => (Holds(n, s, g) <=> Holds(m, s, g))

\* The loop over the inputs that are freed.
LEMMA FreeInputsKeeps ==
  ASSUME NEW m, MgrOK(m), NEW r \in Requests, NEW ids \in SUBSET m.ids[r]
  PROVE  Frees(m, FreeInputs(m, r, ids), r, ids)
<1> DEFINE N == Len(Inputs[r])
           body(y, i) == IF i \in ids THEN FreeEncoderInput(y, r, i) ELSE y
           pass == [i \in 1 .. N |-> [y \in Managers |-> body(y, i)]]
           Loop(l) == l = [i \in 0 .. N |-> IF i = 0 THEN m ELSE body(l[i - 1], i)]
           h == CHOOSE l : Loop(l)
           upto(i) == {j \in ids : j <= i}
           J == [i \in 0 .. N |-> {y \in Managers : Frees(m, y, r, upto(i))}]
<1>1. N \in Nat /\ DOMAIN Inputs[r] = 1 .. N /\ m \in Managers /\ ids \subseteq 1 .. N
  BY Constants DEF MgrOK, Refs
<1>2. FreeInputs(m, r, ids) = h[N]
  BY DEF FreeInputs
<1>3. \A y \in Managers, i \in 1 .. N : body(y, i) \in Managers
  <2> SUFFICES ASSUME NEW y \in Managers, NEW i \in 1 .. N PROVE FreeEncoderInput(y, r, i) \in Managers
    OBVIOUS
  <2> QED BY <1>1, FreeOneFields
<1> HIDE DEF body
<1>4. pass \in [1 .. N -> [Managers -> Managers]]
  BY <1>3
<1>5. PICK g \in [0 .. N -> Managers] : Iterates(g, N, m, pass)
  <2> HIDE DEF N, pass
  <2> QED BY <1>1, <1>4, IterationExists
<1>6. Loop(g)
  <2>1. ASSUME NEW i \in 0 .. N, i # 0 PROVE g[i] = body(g[i - 1], i)
    <3>1. i \in 1 .. N /\ i - 1 \in 0 .. N
      BY <1>1, <2>1
    <3>2. g[i] = pass[i][g[i - 1]] /\ g[i - 1] \in Managers
      BY <1>5, <3>1 DEF Iterates
    <3> QED BY <3>1, <3>2
  <2>2. g[0] = m
    BY <1>5 DEF Iterates
  <2> QED BY <1>5, <2>1, <2>2
<1>7. Loop(h)
  BY <1>6
<1> HIDE DEF h
<1>8. h[0] = m /\ \A i \in 1 .. N : h[i] = body(h[i - 1], i)
  <2>1. \A i \in 0 .. N : h[i] = IF i = 0 THEN m ELSE body(h[i - 1], i)
    BY <1>7
  <2>2. 0 \in 0 .. N /\ \A i \in 1 .. N : i \in 0 .. N /\ i # 0
    BY <1>1
  <2> HIDE DEF N
  <2> QED BY <2>1, <2>2
<1>9. h[0] \in J[0]
  <2>1. Frees(m, m, r, {})
    BY DEF Frees
  <2>2. upto(0) = {} /\ 0 \in 0 .. N
    BY <1>1
  <2> QED BY <1>1, <1>8, <2>1, <2>2
<1>10. \A i \in 1 .. N : h[i - 1] \in Managers => h[i] = pass[i][h[i - 1]]
  BY <1>8
<1>11. ASSUME NEW i \in 1 .. N, NEW y \in J[i - 1] PROVE pass[i][y] \in J[i]
  <2>1. i - 1 \in 0 .. N /\ i \in 0 .. N
    BY <1>1
  <2>2. y \in Managers /\ Frees(m, y, r, upto(i - 1))
    BY <2>1
  <2>3. CASE i \in ids
    <3>1. upto(i) = upto(i - 1) \union {i} /\ i \notin upto(i - 1)
      BY <1>1, <2>3
    <3> HIDE DEF upto
    <3>2. MgrOK(y) /\ y.ids[r] = m.ids[r] \ upto(i - 1) /\ i \in y.ids[r]
      BY <2>2, <2>3, <3>1 DEF Frees
    <3> DEFINE z == FreeEncoderInput(y, r, i)
    <3>3. /\ MgrOK(z) /\ DOMAIN z.cached = DOMAIN y.cached /\ z.num_free = y.num_free
          /\ z.freed = y.freed /\ z.ids[r] = y.ids[r] \ {i}
          /\ \A s \in Requests : s # r => z.ids[s] = y.ids[s]
          /\ \A s \in Requests, k \in Items : s # r => (Holds(z, s, k) <=> Holds(y, s, k))
      BY <3>2, FreeOneKeeps
    <3> HIDE DEF z
    <3>4. Frees(m, z, r, upto(i))
      BY <2>2, <3>1, <3>2, <3>3 DEF Frees
    <3>5. pass[i][y] = z /\ z \in Managers
      BY <2>2, <2>3, <3>3 DEF body, z, MgrOK
    <3> QED BY <2>1, <3>4, <3>5
  <2>4. CASE i \notin ids
    <3>1. upto(i) = upto(i - 1)
      <4>1. \A j \in ids : j \in Int /\ j # i
        BY <1>1, <2>4
      <4>2. \A j \in ids : j <= i <=> j <= i - 1
        BY <4>1
      <4> QED BY <4>2
    <3>2. pass[i][y] = y
      BY <2>2, <2>4 DEF body
    <3> QED BY <2>1, <2>2, <3>1, <3>2
  <2> QED BY <2>3, <2>4
<1>12. \A i \in 0 .. N : J[i] \subseteq Managers
  OBVIOUS
<1>13. h[N] \in J[N]
  <2>1. N \in Nat
    BY <1>1
  <2>2. \A i \in 1 .. N : \A y \in J[i - 1] : pass[i][y] \in J[i]
    BY <1>11
  <2> HIDE DEF N, J, pass
  <2> QED BY <2>1, <2>2, <1>9, <1>10, <1>12, LoopKeeps
<1>14. upto(N) = ids /\ N \in 0 .. N
  BY <1>1
<1> QED BY <1>2, <1>13, <1>14

LEMMA FreeKeeps ==
  ASSUME NEW m, MgrOK(m), NEW r \in Requests
  PROVE  Frees(m, Free(m, r), r, m.ids[r])
BY FreeInputsKeeps DEF Free

\* allocate: the references of an item that is not cached yet are those of r alone.
LEMMA AllocateFields ==
  ASSUME NEW m \in Managers, NEW r \in Requests, NEW i \in DOMAIN Inputs[r]
  PROVE  LET h == ItemOf(r, i)
             n == Allocate(m, r, i)
         IN  /\ DOMAIN n.cached = DOMAIN m.cached \union {h}
             /\ \A x \in DOMAIN m.cached : x # h => n.cached[x] = m.cached[x]
             /\ h \notin DOMAIN m.cached => n.cached[h] = {r}
             /\ n.ids = [m.ids EXCEPT ![r] = m.ids[r] \union {i}]
             /\ n.freeable = m.freeable /\ n.freed = m.freed
             /\ n.num_free = m.num_free - Size[h]
             /\ n.num_freeable = m.num_freeable - Size[h]
             /\ n \in Managers
<1> DEFINE h == ItemOf(r, i)
           n == Allocate(m, r, i)
           refs == IF h \in DOMAIN m.cached THEN m.cached[h] ELSE {}
<1>1. /\ DOMAIN m.cached \subseteq Items
      /\ m.cached \in [DOMAIN m.cached -> SUBSET Requests]
      /\ m.ids \in [Requests -> SUBSET Nat]
      /\ m.freeable \in Seq(Items) /\ m.freed \subseteq Items
      /\ m.num_free \in Int /\ m.num_freeable \in Int
  BY ManagerFields
<1>2. h \in Items /\ Size[h] \in Nat /\ i \in Nat
  BY Constants
<1>3. n.cached = [x \in DOMAIN m.cached \union {h} |-> IF x = h THEN refs \union {r} ELSE m.cached[x]]
  BY DEF Allocate, Managers
<1>4. n.ids = [m.ids EXCEPT ![r] = m.ids[r] \union {i}]
  BY DEF Allocate, Managers
<1>5. n.freeable = m.freeable /\ n.freed = m.freed
  BY DEF Allocate, Managers
<1>6. n.num_free = m.num_free - Size[h] /\ n.num_freeable = m.num_freeable - Size[h]
  BY DEF Allocate, Managers
<1>7. n.cached \in [DOMAIN m.cached \union {h} -> SUBSET Requests]
  <2>1. refs \union {r} \in SUBSET Requests
    BY <1>1
  <2> HIDE DEF refs, h, n
  <2> QED BY <1>1, <1>3, <2>1
<1>8. n \in Managers
  <2>1. n.cached \in Caches
    <3>1. DOMAIN m.cached \union {h} \in SUBSET Items
      BY <1>1, <1>2
    <3> HIDE DEF n, h
    <3> QED BY <1>7, <3>1 DEF Caches
  <2>2. n.ids \in [Requests -> SUBSET Nat] /\ n.num_free \in Int /\ n.num_freeable \in Int
    <3> HIDE DEF n, h
    <3> QED BY <1>1, <1>2, <1>4, <1>6
  <2> QED BY <2>1, <2>2 DEF Allocate, Managers
<1>9. /\ DOMAIN n.cached = DOMAIN m.cached \union {h}
      /\ \A x \in DOMAIN m.cached : x # h => n.cached[x] = m.cached[x]
      /\ h \notin DOMAIN m.cached => n.cached[h] = {r}
  <2> HIDE DEF n, h
  <2> QED BY <1>3
<1> QED BY <1>4, <1>5, <1>6, <1>8, <1>9

\* The manager n is m after the inputs of r in ins got their space.
Allocates(m, n, r, ins) ==
  /\ MgrOK(n)
  /\ DOMAIN n.cached = DOMAIN m.cached \union {ItemOf(r, i) : i \in ins}
  /\ n.freed = m.freed
  /\ \A s \in Requests : s # r => n.ids[s] = m.ids[s]
  /\ \A s \in Requests, g \in Items :
       Holds(n, s, g) <=> Holds(m, s, g) \/ (s = r /\ g \in {ItemOf(r, i) : i \in ins})

\* allocate, for an item that is not cached.
LEMMA AllocateKeeps ==
  ASSUME NEW m, MgrOK(m), NEW r \in Requests, NEW i \in DOMAIN Inputs[r],
         ItemOf(r, i) \notin DOMAIN m.cached
  PROVE  Allocates(m, Allocate(m, r, i), r, {i})
<1> DEFINE h == ItemOf(r, i)
           n == Allocate(m, r, i)
<1>1. m \in Managers /\ Slots(m) /\ Refs(m)
  BY DEF MgrOK
<1>2. /\ DOMAIN m.cached \subseteq Items
      /\ m.cached \in [DOMAIN m.cached -> SUBSET Requests]
      /\ m.ids \in [Requests -> SUBSET Nat]
      /\ m.num_free \in Int /\ m.num_freeable \in Int
      /\ Used(m) \subseteq DOMAIN m.cached /\ Used(m) \subseteq Items
  BY <1>1, ManagerFields
<1>3. h \in Items /\ h \notin DOMAIN m.cached /\ Size[h] \in Nat
  BY Constants
<1>4. /\ DOMAIN n.cached = DOMAIN m.cached \union {h}
      /\ \A x \in DOMAIN m.cached : n.cached[x] = m.cached[x]
      /\ n.cached[h] = {r}
      /\ n.ids = [m.ids EXCEPT ![r] = m.ids[r] \union {i}]
      /\ n.freeable = m.freeable /\ n.freed = m.freed
      /\ n.num_free = m.num_free - Size[h]
      /\ n.num_freeable = m.num_freeable - Size[h]
      /\ n \in Managers
  BY <1>1, <1>3, AllocateFields
<1> HIDE DEF n
<1>5. {ItemOf(r, j) : j \in {i}} = {h}
  OBVIOUS
<1> HIDE DEF h
<1>6. /\ n.ids[r] = m.ids[r] \union {i}
      /\ \A s \in Requests : s # r => n.ids[s] = m.ids[s]
  BY <1>2, <1>4
<1>7. \A s \in Requests, g \in Items : Holds(n, s, g) <=> Holds(m, s, g) \/ (s = r /\ g = h)
  BY <1>3, <1>4 DEF Holds
<1>8. Refs(n)
  <2>1. n.ids[r] \subseteq DOMAIN Inputs[r]
    BY <1>1, <1>6 DEF Refs
  <2>2. ASSUME NEW g \in Items PROVE Holds(n, r, g) <=> \E j \in n.ids[r] : ItemOf(r, j) = g
    <3>1. Holds(m, r, g) <=> \E j \in m.ids[r] : ItemOf(r, j) = g
      BY <1>1 DEF Refs
    <3> QED BY <1>6, <1>7, <3>1 DEF h
  <2> QED BY <1>1, <1>6, <1>7, <2>1, <2>2, RefsAfter
<1>9. Slots(n)
  <2>1. Used(n) = Used(m) \union {h} /\ h \notin Used(m)
    BY <1>2, <1>3, <1>4 DEF Used
  <2>2. /\ Sizes(Used(n)) = Sizes(Used(m)) + Size[h] /\ Sizes(Used(m)) \in Nat
        /\ Sizes(DOMAIN n.cached) = Sizes(DOMAIN m.cached) + Size[h]
        /\ Sizes(DOMAIN m.cached) \in Nat
    BY <1>2, <1>3, <1>4, <2>1, SizesAdd, SizesType
  <2>3. DOMAIN n.cached \ Used(n) = DOMAIN m.cached \ Used(m)
    BY <1>3, <1>4, <2>1
  <2>4. /\ n.num_free = CacheSize - Sizes(DOMAIN n.cached)
        /\ n.num_freeable = CacheSize - Sizes(Used(n))
    <3>1. /\ m.num_free = CacheSize - Sizes(DOMAIN m.cached)
          /\ m.num_freeable = CacheSize - Sizes(Used(m)) /\ CacheSize \in Nat
      BY <1>1, Constants DEF Slots
    <3> QED BY <1>3, <1>4, <2>2, <3>1
  <2> QED BY <1>1, <1>4, <2>3, <2>4 DEF Slots
<1> QED BY <1>4, <1>5, <1>6, <1>7, <1>8, <1>9 DEF MgrOK, Allocates, n, h

\* The loop over the inputs that were chosen: they show different items that are not cached.
LEMMA AllocateInputsKeeps ==
  ASSUME NEW m, MgrOK(m), NEW r \in Requests, NEW ids \in SUBSET (DOMAIN Inputs[r]),
         \A j, k \in ids : ItemOf(r, j) = ItemOf(r, k) => j = k,
         \A j \in ids : ItemOf(r, j) \notin DOMAIN m.cached
  PROVE  Allocates(m, AllocateInputs(m, r, ids), r, ids)
<1> DEFINE N == Len(Inputs[r])
           body(y, i) == IF i \in ids THEN Allocate(y, r, i) ELSE y
           pass == [i \in 1 .. N |-> [y \in Managers |-> body(y, i)]]
           Loop(l) == l = [i \in 0 .. N |-> IF i = 0 THEN m ELSE body(l[i - 1], i)]
           h == CHOOSE l : Loop(l)
           upto(i) == {j \in ids : j <= i}
           J == [i \in 0 .. N |-> {y \in Managers : Allocates(m, y, r, upto(i))}]
<1>1. N \in Nat /\ DOMAIN Inputs[r] = 1 .. N /\ m \in Managers /\ ids \subseteq 1 .. N
  BY Constants DEF MgrOK
<1>2. AllocateInputs(m, r, ids) = h[N]
  BY DEF AllocateInputs
<1>3. \A y \in Managers, i \in 1 .. N : body(y, i) \in Managers
  <2> SUFFICES ASSUME NEW y \in Managers, NEW i \in 1 .. N PROVE Allocate(y, r, i) \in Managers
    OBVIOUS
  <2> QED BY <1>1, AllocateFields
<1> HIDE DEF body
<1>4. pass \in [1 .. N -> [Managers -> Managers]]
  BY <1>3
<1>5. PICK g \in [0 .. N -> Managers] : Iterates(g, N, m, pass)
  <2> HIDE DEF N, pass
  <2> QED BY <1>1, <1>4, IterationExists
<1>6. Loop(g)
  <2>1. ASSUME NEW i \in 0 .. N, i # 0 PROVE g[i] = body(g[i - 1], i)
    <3>1. i \in 1 .. N /\ i - 1 \in 0 .. N
      BY <1>1, <2>1
    <3>2. g[i] = pass[i][g[i - 1]] /\ g[i - 1] \in Managers
      BY <1>5, <3>1 DEF Iterates
    <3> QED BY <3>1, <3>2
  <2>2. g[0] = m
    BY <1>5 DEF Iterates
  <2> QED BY <1>5, <2>1, <2>2
<1>7. Loop(h)
  BY <1>6
<1> HIDE DEF h
<1>8. h[0] = m /\ \A i \in 1 .. N : h[i] = body(h[i - 1], i)
  <2>1. \A i \in 0 .. N : h[i] = IF i = 0 THEN m ELSE body(h[i - 1], i)
    BY <1>7
  <2>2. 0 \in 0 .. N /\ \A i \in 1 .. N : i \in 0 .. N /\ i # 0
    BY <1>1
  <2> HIDE DEF N
  <2> QED BY <2>1, <2>2
<1>9. h[0] \in J[0]
  <2>1. Allocates(m, m, r, {})
    BY DEF Allocates
  <2>2. upto(0) = {} /\ 0 \in 0 .. N
    BY <1>1
  <2> QED BY <1>1, <1>8, <2>1, <2>2
<1>10. \A i \in 1 .. N : h[i - 1] \in Managers => h[i] = pass[i][h[i - 1]]
  BY <1>8
<1>11. ASSUME NEW i \in 1 .. N, NEW y \in J[i - 1] PROVE pass[i][y] \in J[i]
  <2>1. i - 1 \in 0 .. N /\ i \in 0 .. N
    BY <1>1
  <2>2. y \in Managers /\ Allocates(m, y, r, upto(i - 1))
    BY <2>1
  <2>3. CASE i \in ids
    <3>1. upto(i) = upto(i - 1) \union {i} /\ i \notin upto(i - 1)
      BY <1>1, <2>3
    <3> HIDE DEF upto
    <3>2. upto(i - 1) \subseteq ids
      BY DEF upto
    <3>3. MgrOK(y) /\ ItemOf(r, i) \notin DOMAIN y.cached
      <4>1. \A j \in upto(i - 1) : ItemOf(r, j) # ItemOf(r, i)
        BY <2>3, <3>1, <3>2
      <4> QED BY <2>2, <2>3, <4>1 DEF Allocates
    <3> DEFINE z == Allocate(y, r, i)
    <3>6. Allocates(y, z, r, {i})
      BY <1>1, <3>3, AllocateKeeps
    <3> HIDE DEF z
    <3>7. {ItemOf(r, j) : j \in upto(i)} =
            {ItemOf(r, j) : j \in upto(i - 1)} \union {ItemOf(r, j) : j \in {i}}
      BY <3>1
    <3>4. Allocates(m, z, r, upto(i))
      BY <2>2, <3>6, <3>7 DEF Allocates
    <3>5. pass[i][y] = z /\ z \in Managers
      BY <2>2, <2>3, <3>6 DEF body, z, MgrOK, Allocates
    <3> QED BY <2>1, <3>4, <3>5
  <2>4. CASE i \notin ids
    <3>1. upto(i) = upto(i - 1)
      <4>1. \A j \in ids : j \in Int /\ j # i
        BY <1>1, <2>4
      <4>2. \A j \in ids : j <= i <=> j <= i - 1
        BY <4>1
      <4> QED BY <4>2
    <3>2. pass[i][y] = y
      BY <2>2, <2>4 DEF body
    <3> QED BY <2>1, <2>2, <3>1, <3>2
  <2> QED BY <2>3, <2>4
<1>12. \A i \in 0 .. N : J[i] \subseteq Managers
  OBVIOUS
<1>13. h[N] \in J[N]
  <2>1. N \in Nat
    BY <1>1
  <2>2. \A i \in 1 .. N : \A y \in J[i - 1] : pass[i][y] \in J[i]
    BY <1>11
  <2> HIDE DEF N, J, pass
  <2> QED BY <2>1, <2>2, <1>9, <1>10, <1>12, LoopKeeps
<1>14. upto(N) = ids /\ N \in 0 .. N
  BY <1>1
<1> QED BY <1>2, <1>13, <1>14

LEMMA Suffix ==
  ASSUME NEW X, NEW s \in Seq(X), IsInjective(s), NEW k \in 0 .. Len(s)
  PROVE  /\ SubSeq(s, k + 1, Len(s)) \in Seq(X)
         /\ IsInjective(SubSeq(s, k + 1, Len(s)))
         /\ Range(SubSeq(s, k + 1, Len(s))) = Range(s) \ {s[x] : x \in 1 .. k}
<1> DEFINE t == SubSeq(s, k + 1, Len(s))
<1>1. /\ Len(s) \in Nat /\ \A x : x \in Range(s) <=> \E i \in 1 .. Len(s) : s[i] = x
      /\ \A i, j \in 1 .. Len(s) : s[i] = s[j] => i = j
  BY Distinct
<1>2. /\ t \in Seq(X) /\ Len(t) = Len(s) - k
      /\ \A i \in 1 .. Len(s) - k : t[i] = s[i + k] /\ i + k \in 1 .. Len(s)
  BY <1>1
<1> HIDE DEF t
<1>3. /\ \A x : x \in Range(t) <=> \E i \in 1 .. Len(t) : t[i] = x
      /\ IsInjective(t) <=> \A i, j \in 1 .. Len(t) : t[i] = t[j] => i = j
  BY <1>2, Distinct
<1>4. IsInjective(t)
  <2>1. ASSUME NEW i \in 1 .. Len(t), NEW j \in 1 .. Len(t), t[i] = t[j] PROVE i = j
    <3>1. i \in 1 .. Len(s) - k /\ j \in 1 .. Len(s) - k
      BY <1>2
    <3>2. s[i + k] = s[j + k] /\ i + k \in 1 .. Len(s) /\ j + k \in 1 .. Len(s)
      BY <1>2, <2>1, <3>1
    <3>3. i + k = j + k
      BY <1>1, <3>2
    <3> QED BY <1>1, <3>1, <3>3
  <2> QED BY <1>3, <2>1
<1>5. ASSUME NEW x \in Range(t) PROVE x \in Range(s) \ {s[y] : y \in 1 .. k}
  <2>1. PICK i \in 1 .. Len(t) : t[i] = x
    BY <1>3
  <2>2. s[i + k] = x /\ i + k \in 1 .. Len(s) /\ i + k \notin 1 .. k
    BY <1>1, <1>2, <2>1
  <2>3. \A y \in 1 .. k : y \in 1 .. Len(s)
    BY <1>1
  <2> QED BY <1>1, <2>2, <2>3
<1>6. ASSUME NEW x \in Range(s) \ {s[y] : y \in 1 .. k} PROVE x \in Range(t)
  <2>1. PICK i \in 1 .. Len(s) : s[i] = x
    BY <1>1
  <2>2. i \notin 1 .. k
    BY <2>1
  <2>3. i - k \in 1 .. Len(t) /\ t[i - k] = s[i]
    BY <1>1, <1>2, <2>2
  <2> QED BY <1>3, <2>1, <2>3
<1> QED BY <1>2, <1>4, <1>5, <1>6 DEF t

\* The manager n is m after the evictions of can_allocate.
Evicts(m, n, need) ==
  /\ MgrOK(n)
  /\ DOMAIN n.cached \subseteq DOMAIN m.cached
  /\ n.num_free >= need
  /\ n.ids = m.ids
  /\ \A s \in Requests, g \in Items : Holds(n, s, g) <=> Holds(m, s, g)

\* The evictions of can_allocate: the oldest unreferenced items go, and no others.
LEMMA EvictKeeps ==
  ASSUME NEW m, MgrOK(m), NEW r \in Requests, NEW i \in DOMAIN Inputs[r], NEW embeds \in Nat,
         \/ Size[ItemOf(r, i)] + embeds <= m.num_free
         \/ Size[ItemOf(r, i)] + embeds <= m.num_freeable
  PROVE  Evicts(m, Evict(m, r, i, embeds), Size[ItemOf(r, i)] + embeds)
<1> DEFINE need == Size[ItemOf(r, i)] + embeds
           f == m.freeable
           Oldest(x) == {f[y] : y \in 1 .. x}
           K == {x \in 0 .. Len(f) : need <= m.num_free + Sizes(Oldest(x))}
           k == Min(K)
           n == Evict(m, r, i, embeds)
<1>1. m \in Managers /\ Slots(m) /\ Refs(m)
  BY DEF MgrOK
<1>2. /\ DOMAIN m.cached \subseteq Items
      /\ m.cached \in [DOMAIN m.cached -> SUBSET Requests]
      /\ m.ids \in [Requests -> SUBSET Nat]
      /\ f \in Seq(Items) /\ m.freed \subseteq Items
      /\ m.num_free \in Int /\ m.num_freeable \in Int
      /\ Used(m) \subseteq DOMAIN m.cached /\ Used(m) \subseteq Items
  BY <1>1, ManagerFields
<1>3. need \in Nat
  BY Constants
<1>4. /\ Len(f) \in Nat /\ Range(f) = DOMAIN m.cached \ Used(m) /\ IsInjective(f)
      /\ \A x : x \in Range(f) <=> \E y \in 1 .. Len(f) : f[y] = x
  BY <1>1, <1>2, Distinct DEF Slots
<1>5. K # {}
  <2>1. Oldest(0) = {} /\ Oldest(Len(f)) = DOMAIN m.cached \ Used(m)
    BY <1>4
  <2>2. CASE need <= m.num_free
    <3>1. 0 \in K
      <4>1. Sizes(Oldest(0)) = 0
        BY <2>1, SizesEmpty
      <4> HIDE DEF f, Oldest, need
      <4> QED BY <1>2, <1>3, <1>4, <2>2, <4>1
    <3> QED BY <3>1
  <2>3. CASE need <= m.num_freeable
    <3> DEFINE D == DOMAIN m.cached \ Used(m)
    <3>1. D \union Used(m) = DOMAIN m.cached /\ D \cap Used(m) = {} /\ D \in SUBSET Items
      BY <1>2
    <3> HIDE DEF D
    <3>2. /\ Sizes(DOMAIN m.cached) = Sizes(D) + Sizes(Used(m))
          /\ Sizes(D) \in Nat /\ Sizes(Used(m)) \in Nat
      BY <1>2, <3>1, SizesUnion, SizesType
    <3>3. m.num_freeable = m.num_free + Sizes(D)
      BY <1>1, <3>2, Constants DEF Slots
    <3>4. Len(f) \in K
      <4>1. Oldest(Len(f)) = D
        BY <2>1 DEF D
      <4> HIDE DEF f, Oldest
      <4> QED BY <1>4, <2>3, <3>3, <4>1
    <3> QED BY <3>4
  <2> QED BY <2>2, <2>3
<1>6. k \in K
  <2>1. K \in SUBSET Nat
    BY <1>4
  <2> HIDE DEF K
  <2> QED BY <1>5, <2>1, MinFacts
<1>7. k \in 0 .. Len(f) /\ need <= m.num_free + Sizes(Oldest(k))
  BY <1>6
<1> DEFINE O == Oldest(k)
<1>8. n = [m EXCEPT !.freeable = SubSeq(@, k + 1, Len(@)),
                    !.cached = Restrict(@, DOMAIN @ \ O),
                    !.freed = @ \union O,
                    !.num_free = @ + Sizes(O)]
  BY DEF Evict
<1> HIDE DEF n, k, O
<1>9. n.cached = Restrict(m.cached, DOMAIN m.cached \ O)
  BY <1>1, <1>8 DEF Managers
<1>10. n.freed = m.freed \union O
  BY <1>1, <1>8 DEF Managers
<1>11. n.num_free = m.num_free + Sizes(O)
  BY <1>1, <1>8 DEF Managers
<1>12. n.ids = m.ids /\ n.num_freeable = m.num_freeable /\ n.freeable = SubSeq(f, k + 1, Len(f))
  BY <1>1, <1>8 DEF Managers
<1>13. O \subseteq DOMAIN m.cached /\ O \cap Used(m) = {} /\ O \in SUBSET Items
  <2>1. \A y \in 1 .. k : y \in 1 .. Len(f)
    BY <1>4, <1>7
  <2>2. \A y \in 1 .. k : f[y] \in Range(f)
    BY <1>4, <2>1
  <2> QED BY <1>2, <1>4, <2>2 DEF O
<1>14. /\ n.freeable \in Seq(Items) /\ IsInjective(n.freeable)
       /\ Range(n.freeable) = Range(f) \ O
  <2> HIDE DEF f
  <2>1. /\ SubSeq(f, k + 1, Len(f)) \in Seq(Items) /\ IsInjective(SubSeq(f, k + 1, Len(f)))
        /\ Range(SubSeq(f, k + 1, Len(f))) = Range(f) \ {f[y] : y \in 1 .. k}
    <3>1. f \in Seq(Items) /\ IsInjective(f) /\ k \in 0 .. Len(f)
      BY <1>2, <1>4, <1>7
    <3> QED BY <3>1, Suffix
  <2> QED BY <1>12, <2>1 DEF O
<1>15. /\ DOMAIN n.cached = DOMAIN m.cached \ O
       /\ \A x \in DOMAIN m.cached \ O : n.cached[x] = m.cached[x]
  <2>1. n.cached = [x \in DOMAIN m.cached \ O |-> m.cached[x]]
    BY <1>9 DEF Restrict
  <2> QED BY <2>1
<1>16. n \in Managers
  <2>1. n.cached \in Caches
    <3> DEFINE D == DOMAIN m.cached \ O
    <3>1. n.cached = [x \in D |-> m.cached[x]] /\ D \in SUBSET Items
      BY <1>2, <1>9 DEF Restrict
    <3>2. \A x \in D : m.cached[x] \in SUBSET Requests
      BY <1>2
    <3> HIDE DEF D
    <3>3. n.cached \in [D -> SUBSET Requests]
      BY <3>1, <3>2
    <3> QED BY <3>1, <3>3 DEF Caches
  <2>2. n.num_free \in Int /\ n.freed \in SUBSET Items
    <3>1. Sizes(O) \in Nat
      BY <1>13, SizesType
    <3> QED BY <1>2, <1>10, <1>11, <1>13, <3>1
  <2> QED BY <1>1, <1>8, <1>14, <2>1, <2>2 DEF Managers
<1> HIDE DEF f
<1>17. Used(n) = Used(m)
  BY <1>13, <1>15 DEF Used
<1>18. Slots(n)
  <2> DEFINE D == DOMAIN m.cached \ O
  <2>1. D \union O = DOMAIN m.cached /\ D \cap O = {} /\ D \in SUBSET Items
    BY <1>2, <1>13
  <2> HIDE DEF D
  <2>2. Sizes(DOMAIN m.cached) = Sizes(D) + Sizes(O) /\ Sizes(D) \in Nat /\ Sizes(O) \in Nat
    BY <1>13, <2>1, SizesUnion, SizesType
  <2>3. n.num_free = CacheSize - Sizes(DOMAIN n.cached)
    BY <1>1, <1>11, <1>15, <2>2, Constants DEF Slots, D
  <2>4. Range(n.freeable) = DOMAIN n.cached \ Used(n)
    BY <1>4, <1>14, <1>15, <1>17
  <2> QED BY <1>1, <1>12, <1>14, <1>17, <2>3, <2>4 DEF Slots
<1>19. \A s \in Requests, g \in Items : Holds(n, s, g) <=> Holds(m, s, g)
  BY <1>13, <1>15 DEF Holds, Used
<1>20. Refs(n)
  BY <1>1, <1>12, <1>19 DEF Refs
<1>21. n.num_free >= need
  <2>1. Sizes(O) \in Nat
    BY <1>13, SizesType
  <2> HIDE DEF need
  <2> QED BY <1>2, <1>3, <1>7, <1>11, <2>1 DEF O
<1> QED BY <1>12, <1>15, <1>16, <1>18, <1>19, <1>20, <1>21 DEF Evicts, MgrOK, n

=============================================================================
