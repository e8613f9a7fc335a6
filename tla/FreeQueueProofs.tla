-------------------------- MODULE FreeQueueProofs --------------------------
(***************************************************************************)
(* The linked list of FreeKVCacheBlockQueue implements the sequence of      *)
(* BlockQueue, for every number of blocks.                                  *)
(*                                                                         *)
(* The links always thread some sequence of distinct blocks, and the walk   *)
(* of get_all_free_blocks finds it again.  So each operation on the links   *)
(* is an operation on that sequence.                                        *)
(***************************************************************************)
EXTENDS FreeKVCacheBlockQueue, WellFoundedInduction, FiniteSetTheorems, TLAPS

-----------------------------------------------------------------------------
(* Loops that are written as recursive functions, and lists.                *)

\* Induction, about the set of the numbers that have the property.
LEMMA NatSetInduction ==
  ASSUME NEW S, 0 \in S, \A n \in Nat : n \in S => n + 1 \in S
  PROVE  \A n \in Nat : n \in S
<1> DEFINE T == Nat \ S
<1> SUFFICES ASSUME T # {} PROVE FALSE
  OBVIOUS
<1>1. PICK m \in T : \A y \in T : ~ (<<y, m>> \in OpToRel(<, Nat))
  <2>1. T \subseteq Nat
    OBVIOUS
  <2> HIDE DEF T
  <2> QED BY <2>1, NatLessThanWellFounded, WFMin
<1>2. m \in Nat /\ m # 0 /\ m - 1 \in Nat /\ m - 1 + 1 = m
  OBVIOUS
<1>3. m - 1 \notin T
  <2>1. <<m - 1, m>> \in OpToRel(<, Nat)
    BY <1>2 DEF OpToRel
  <2> QED BY <1>1, <2>1
<1> QED BY <1>2, <1>3

\* g runs the loop with body step, n times, from x.
Iterates(g, n, x, step) ==
  g[0] = x /\ \A i \in 1 .. n : g[i] = step[i][g[i - 1]]

\* A loop has a result.
LEMMA IterationExists ==
  ASSUME NEW N \in Nat, NEW X, NEW x \in X, NEW step \in [1 .. N -> [X -> X]]
  PROVE  \E g \in [0 .. N -> X] : Iterates(g, N, x, step)
<1> DEFINE S == {n \in Nat : n <= N => \E g \in [0 .. n -> X] : Iterates(g, n, x, step)}
<1>1. 0 \in S
  <2> DEFINE g == [i \in 0 .. 0 |-> x]
  <2>1. g \in [0 .. 0 -> X] /\ Iterates(g, 0, x, step)
    BY DEF Iterates
  <2> QED BY <2>1
<1>2. \A n \in Nat : n \in S => n + 1 \in S
  <2> SUFFICES ASSUME NEW n \in Nat, n \in S, n + 1 <= N
               PROVE  \E h \in [0 .. n + 1 -> X] : Iterates(h, n + 1, x, step)
    OBVIOUS
  <2>1. PICK g \in [0 .. n -> X] : Iterates(g, n, x, step)
    OBVIOUS
  <2> DEFINE h == [i \in 0 .. n + 1 |-> IF i = n + 1 THEN step[n + 1][g[n]] ELSE g[i]]
  <2>2. n + 1 \in 1 .. N /\ g[n] \in X /\ step[n + 1][g[n]] \in X
    OBVIOUS
  <2>3. /\ h \in [0 .. n + 1 -> X] /\ h[0] = x /\ h[n + 1] = step[n + 1][g[n]]
        /\ \A i \in 0 .. n : h[i] = g[i]
    BY <2>1, <2>2 DEF Iterates
  <2> HIDE DEF h
  <2>4. ASSUME NEW i \in 1 .. n + 1 PROVE h[i] = step[i][h[i - 1]]
    <3>1. CASE i = n + 1
      BY <2>3, <3>1
    <3>2. CASE i # n + 1
      <4>1. i \in 1 .. n /\ i \in 0 .. n /\ i - 1 \in 0 .. n
        BY <3>2
      <4> QED BY <2>1, <2>3, <4>1 DEF Iterates
    <3> QED BY <3>1, <3>2
  <2> QED BY <2>3, <2>4 DEF Iterates
<1>3. N \in S
  <2> HIDE DEF S
  <2> QED BY <1>1, <1>2, NatSetInduction
<1> QED BY <1>3

LEMMA ConcatPlaces ==
  ASSUME NEW S, NEW s \in Seq(S), NEW t \in Seq(S)
  PROVE  /\ s \o t \in Seq(S) /\ Len(s \o t) = Len(s) + Len(t)
         /\ \A k \in 1 .. Len(s) + Len(t) :
              (s \o t)[k] = IF k <= Len(s) THEN s[k] ELSE t[k - Len(s)]
OBVIOUS

\* A list that loses one place.
Without(q, i) == SubSeq(q, 1, i - 1) \o SubSeq(q, i + 1, Len(q))

LEMMA WithoutPlaces ==
  ASSUME NEW S, NEW q \in Seq(S), NEW i \in 1 .. Len(q)
  PROVE  /\ Without(q, i) \in Seq(S)
         /\ Len(Without(q, i)) = Len(q) - 1
         /\ \A k \in 1 .. Len(q) - 1 : Without(q, i)[k] = IF k < i THEN q[k] ELSE q[k + 1]
<1> DEFINE u == SubSeq(q, 1, i - 1)
           v == SubSeq(q, i + 1, Len(q))
<1>1. Len(q) \in Nat
  OBVIOUS
<1>3. Without(q, i) = u \o v
  BY DEF Without
<1>4. /\ u \in Seq(S) /\ Len(u) = i - 1 /\ \A k \in 1 .. i - 1 : u[k] = q[k]
  BY <1>1
<1>5. /\ v \in Seq(S) /\ Len(v) = Len(q) - i
      /\ \A k \in 1 .. Len(q) - i : v[k] = q[i + k]
  BY <1>1
<1> HIDE DEF u, v
<1>6. /\ u \o v \in Seq(S) /\ Len(u \o v) = Len(q) - 1
      /\ \A k \in 1 .. Len(q) - 1 : (u \o v)[k] = IF k <= i - 1 THEN u[k] ELSE v[k - (i - 1)]
  <2>1. /\ u \o v \in Seq(S) /\ Len(u \o v) = Len(u) + Len(v)
        /\ \A k \in 1 .. Len(u) + Len(v) :
             (u \o v)[k] = IF k <= Len(u) THEN u[k] ELSE v[k - Len(u)]
    <3>1. u \in Seq(S) /\ v \in Seq(S)
      BY <1>4, <1>5
    <3> QED BY <3>1, ConcatPlaces, Zenon
  <2>2. Len(u) + Len(v) = Len(q) - 1
    BY <1>1, <1>4, <1>5
  <2> QED BY <1>4, <2>1, <2>2
<1>7. ASSUME NEW k \in 1 .. Len(q) - 1 PROVE (u \o v)[k] = IF k < i THEN q[k] ELSE q[k + 1]
  <2>1. CASE k < i
    <3>1. k \in 1 .. i - 1 /\ k <= i - 1
      BY <2>1
    <3> QED BY <1>4, <1>6, <2>1, <3>1
  <2>2. CASE ~(k < i)
    <3>1. k - (i - 1) \in 1 .. Len(q) - i /\ i + (k - (i - 1)) = k + 1 /\ ~(k <= i - 1)
      BY <1>1, <2>2
    <3> QED BY <1>5, <1>6, <2>2, <3>1
  <2> QED BY <2>1, <2>2
<1> QED BY <1>3, <1>6, <1>7

-----------------------------------------------------------------------------
(* The inductive invariant.                                                 *)

\* The list with its fake ends.
At(q, i) == IF i = 0 THEN FakeHead ELSE IF i = Len(q) + 1 THEN FakeTail ELSE q[i]

Links == [Nodes -> Nodes \union {None}]

\* The links go through the blocks of q in order, both ways, and no others.
Threads(q, next, prev) ==
  /\ q \in Seq(AllBlocks) /\ IsInjective(q)
  /\ next \in Links /\ prev \in Links
  /\ \A i \in 0 .. Len(q) : next[At(q, i)] = At(q, i + 1) /\ prev[At(q, i + 1)] = At(q, i)
  /\ \A b \in AllBlocks \ Range(q) : next[b] = None /\ prev[b] = None

IInv == \E q \in Seq(AllBlocks) :
          Threads(q, next_free_block, prev_free_block) /\ num_free_blocks = Len(q)

-----------------------------------------------------------------------------
(* Nodes and sequences of blocks.                                           *)

LEMMA Distinct ==
  /\ NumBlocks \in Nat /\ NumBlocks >= 1
  /\ FakeHead # FakeTail /\ FakeHead # None /\ FakeTail # None
  /\ FakeHead \notin AllBlocks /\ FakeTail \notin AllBlocks /\ None \notin AllBlocks
<1> DEFINE A == AllBlocks \union {None}
           B == A \union {FakeTail}
           C == B \union {FakeHead}
<1>1. NumBlocks \in Nat /\ NumBlocks >= 1
  BY NodesAssumption
<1>2. IsFiniteSet(AllBlocks) /\ Cardinality(AllBlocks) = NumBlocks
  BY <1>1, FS_Interval DEF AllBlocks
<1>3. IsFiniteSet(A) /\ Cardinality(A) = IF None \in AllBlocks THEN NumBlocks ELSE NumBlocks + 1
  BY <1>2, FS_AddElement
<1> HIDE DEF A
<1>4. /\ IsFiniteSet(B)
      /\ Cardinality(B) = IF FakeTail \in A THEN Cardinality(A) ELSE Cardinality(A) + 1
  BY <1>3, FS_AddElement
<1> HIDE DEF B
<1>5. Cardinality(C) = IF FakeHead \in B THEN Cardinality(B) ELSE Cardinality(B) + 1
  BY <1>4, FS_AddElement
<1>6. C = {FakeHead, FakeTail, None} \cup AllBlocks
  BY DEF A, B
<1>7. Cardinality(C) = NumBlocks + 3
  BY <1>6, NodesAssumption
<1>8. None \notin AllBlocks /\ FakeTail \notin A /\ FakeHead \notin B
  BY <1>1, <1>3, <1>4, <1>5, <1>7
<1> QED BY <1>1, <1>8 DEF A, B

LEMMA Lengths ==
  ASSUME NEW q \in Seq(AllBlocks), IsInjective(q)
  PROVE  /\ Len(q) \in Nat /\ Len(q) <= NumBlocks
         /\ Cardinality(Range(q)) = Len(q)
<1>1. Len(q) \in Nat /\ q \in [1 .. Len(q) -> AllBlocks] /\ DOMAIN q = 1 .. Len(q)
  OBVIOUS
<1>2. /\ IsFiniteSet(AllBlocks) /\ Cardinality(AllBlocks) = NumBlocks
      /\ IsFiniteSet(1 .. Len(q)) /\ Cardinality(1 .. Len(q)) = Len(q)
  <2>1. \A n \in Nat : IsFiniteSet(1 .. n) /\ Cardinality(1 .. n) = n
    BY FS_Interval
  <2> QED BY <1>1, <2>1, Distinct DEF AllBlocks
<1>3. q \in Injection(1 .. Len(q), AllBlocks)
  <2>1. \A i, j \in 1 .. Len(q) : q[i] = q[j] => i = j
    BY <1>1 DEF IsInjective
  <2> QED BY <1>1, <2>1 DEF Injection, IsInjective
<1>4. q \in Bijection(1 .. Len(q), Range(q))
  BY <1>1 DEF Bijection, Injection, Surjection, IsInjective, Range
<1>5. ExistsBijection(1 .. Len(q), Range(q))
  BY <1>4 DEF ExistsBijection
<1> QED BY <1>1, <1>2, <1>3, <1>5, FS_Injection, FS_Bijection

\* The places of the list are different nodes.
LEMMA Places ==
  ASSUME NEW q \in Seq(AllBlocks), IsInjective(q)
  PROVE  /\ Len(q) \in Nat
         /\ \A i \in 0 .. Len(q) + 1 : At(q, i) \in Nodes
         /\ \A i \in 1 .. Len(q) : At(q, i) = q[i] /\ q[i] \in AllBlocks /\ q[i] \in Range(q)
         /\ At(q, 0) = FakeHead /\ At(q, Len(q) + 1) = FakeTail
         /\ \A i, j \in 0 .. Len(q) + 1 : At(q, i) = At(q, j) => i = j
         /\ \A b \in Range(q) : \E i \in 1 .. Len(q) : b = q[i]
<1>1. Len(q) \in Nat /\ DOMAIN q = 1 .. Len(q) /\ \A i \in 1 .. Len(q) : q[i] \in AllBlocks
  OBVIOUS
<1>2. \A i \in 1 .. Len(q) : At(q, i) = q[i]
  BY <1>1 DEF At
<1>3. At(q, 0) = FakeHead /\ At(q, Len(q) + 1) = FakeTail
  BY <1>1 DEF At
<1>4. ASSUME NEW i \in 0 .. Len(q) + 1
      PROVE  i = 0 \/ i = Len(q) + 1 \/ i \in 1 .. Len(q)
  BY <1>1
<1>5. ASSUME NEW i \in 0 .. Len(q) + 1 PROVE At(q, i) \in Nodes
  BY <1>1, <1>2, <1>3, <1>4 DEF Nodes
<1>6. ASSUME NEW i \in 0 .. Len(q) + 1, NEW j \in 0 .. Len(q) + 1, At(q, i) = At(q, j)
      PROVE  i = j
  <2>1. CASE i \in 1 .. Len(q) /\ j \in 1 .. Len(q)
    BY <1>1, <1>2, <1>6, <2>1 DEF IsInjective
  <2>2. CASE i = 0 \/ i = Len(q) + 1 \/ j = 0 \/ j = Len(q) + 1
    BY <1>1, <1>2, <1>3, <1>4, <1>6, <2>2, Distinct
  <2> QED BY <1>4, <2>1, <2>2
<1>7. \A b \in Range(q) : \E i \in 1 .. Len(q) : b = q[i]
  BY <1>1 DEF Range
<1>8. \A i \in 1 .. Len(q) : q[i] \in Range(q)
  BY <1>1 DEF Range
<1> QED BY <1>1, <1>2, <1>3, <1>5, <1>6, <1>7, <1>8

-----------------------------------------------------------------------------
(* The walk of get_all_free_blocks.                                         *)

\* The step of the walk.
Walks(f, next, start) ==
  f = [n \in 0 .. NumBlocks |->
         IF n = 0 THEN next[start]
         ELSE IF f[n - 1] \in AllBlocks THEN next[f[n - 1]] ELSE None]

\* A function that takes the same steps as the walk is the walk.
LEMMA HopsUnique ==
  ASSUME NEW next, NEW start, NEW g, Walks(g, next, start)
  PROVE  Hops(next, start) = g
<1> DEFINE h == CHOOSE f : Walks(f, next, start)
<1>1. Hops(next, start) = h
  BY DEF Hops, Walks
<1>2. Walks(h, next, start)
  OBVIOUS
<1> HIDE DEF h
<1> DEFINE S == {n \in Nat : n \in 0 .. NumBlocks => h[n] = g[n]}
<1>3. 0 \in S
  BY <1>2 DEF Walks
<1>4. \A n \in Nat : n \in S => n + 1 \in S
  <2> SUFFICES ASSUME NEW n \in Nat, n \in S, n + 1 \in 0 .. NumBlocks
               PROVE  h[n + 1] = g[n + 1]
    BY Distinct
  <2>1. h[n] = g[n] /\ n + 1 # 0 /\ n + 1 - 1 = n
    BY Distinct
  <2>2. ASSUME NEW f, Walks(f, next, start)
        PROVE  f[n + 1] = IF f[n] \in AllBlocks THEN next[f[n]] ELSE None
    <3>1. \A k \in 0 .. NumBlocks :
            f[k] = IF k = 0 THEN next[start]
                   ELSE IF f[k - 1] \in AllBlocks THEN next[f[k - 1]] ELSE None
      <4> HIDE DEF S
      <4> QED BY <2>2 DEF Walks
    <3> QED BY <2>1, <3>1
  <2>3. /\ h[n + 1] = IF h[n] \in AllBlocks THEN next[h[n]] ELSE None
        /\ g[n + 1] = IF g[n] \in AllBlocks THEN next[g[n]] ELSE None
    BY <1>2, <2>2
  <2> QED BY <2>1, <2>3
<1>5. \A n \in Nat : n \in S
  <2> HIDE DEF S
  <2> QED BY <1>3, <1>4, NatSetInduction
<1>6. \A n \in 0 .. NumBlocks : h[n] = g[n]
  <2>1. \A n \in 0 .. NumBlocks : n \in Nat
    BY Distinct
  <2> QED BY <1>5, <2>1
<1>7. h = [n \in 0 .. NumBlocks |-> h[n]] /\ g = [n \in 0 .. NumBlocks |-> g[n]]
  BY <1>2 DEF Walks
<1> QED BY <1>1, <1>6, <1>7

\* The walk from start along a chain of blocks finds the chain, and then its end.
LEMMA Walk ==
  ASSUME NEW next, NEW start, NEW q \in Seq(AllBlocks), Len(q) <= NumBlocks,
         NEW end, end \notin AllBlocks,
         next[start] = IF Len(q) = 0 THEN end ELSE q[1],
         \A i \in 1 .. Len(q) : next[q[i]] = IF i = Len(q) THEN end ELSE q[i + 1]
  PROVE  /\ \A k \in 0 .. Len(q) : Hops(next, start)[k] = IF k = Len(q) THEN end ELSE q[k + 1]
         /\ GetAllFreeBlocks(next, start) = q
<1> DEFINE g == [k \in 0 .. NumBlocks |-> IF k < Len(q) THEN q[k + 1]
                                          ELSE IF k = Len(q) THEN end ELSE None]
           h == Hops(next, start)
<1>1. Len(q) \in Nat /\ NumBlocks \in Nat /\ \A i \in 1 .. Len(q) : q[i] \in AllBlocks
  BY Distinct
<1>2. ASSUME NEW n \in 0 .. NumBlocks
      PROVE  g[n] = IF n = 0 THEN next[start]
                    ELSE IF g[n - 1] \in AllBlocks THEN next[g[n - 1]] ELSE None
  <2>1. CASE n = 0
    BY <1>1, <2>1
  <2>2. CASE n # 0 /\ n <= Len(q)
    <3>1. n \in 1 .. Len(q) /\ n - 1 \in 0 .. NumBlocks /\ n - 1 < Len(q) /\ n - 1 + 1 = n
      BY <1>1, <2>2
    <3>2. g[n - 1] = q[n] /\ q[n] \in AllBlocks
      BY <1>1, <3>1
    <3>3. next[q[n]] = IF n = Len(q) THEN end ELSE q[n + 1]
      BY <3>1
    <3>4. g[n] = IF n = Len(q) THEN end ELSE q[n + 1]
      BY <1>1, <3>1
    <3> QED BY <2>2, <3>2, <3>3, <3>4
  <2>3. CASE n # 0 /\ n > Len(q)
    <3>1. n - 1 \in 0 .. NumBlocks /\ ~(n - 1 < Len(q)) /\ ~(n < Len(q)) /\ n # Len(q)
      BY <1>1, <2>3
    <3>2. g[n] = None /\ (g[n - 1] = end \/ g[n - 1] = None)
      BY <3>1
    <3> QED BY <2>3, <3>2, Distinct
  <2> QED BY <1>1, <2>1, <2>2, <2>3
<1>3. Walks(g, next, start)
  <2>1. g = [n \in 0 .. NumBlocks |-> g[n]]
    OBVIOUS
  <2> HIDE DEF g
  <2> QED BY <1>2, <2>1 DEF Walks
<1>4. h = g
  BY <1>3, HopsUnique
<1>5. \A k \in 0 .. Len(q) : g[k] = IF k = Len(q) THEN end ELSE q[k + 1]
  BY <1>1
<1>6. {k \in 0 .. NumBlocks - 1 : h[k] \in AllBlocks} = 0 .. Len(q) - 1
  <2>1. ASSUME NEW k \in 0 .. NumBlocks - 1
        PROVE  h[k] \in AllBlocks <=> k < Len(q)
    <3>1. k \in 0 .. NumBlocks /\ (k < Len(q) => k + 1 \in 1 .. Len(q))
      BY <1>1
    <3> QED BY <1>1, <1>4, <3>1, Distinct
  <2> HIDE DEF h
  <2> QED BY <1>1, <2>1
<1>7. Cardinality(0 .. Len(q) - 1) = Len(q)
  <2>1. 0 \in Int /\ Len(q) - 1 \in Int
    BY <1>1
  <2>2. Cardinality(0 .. Len(q) - 1) = IF 0 > Len(q) - 1 THEN 0 ELSE Len(q) - 1 - 0 + 1
    BY <2>1, FS_Interval
  <2> QED BY <1>1, <2>2
<1>8. GetAllFreeBlocks(next, start) = [i \in 1 .. Len(q) |-> h[i - 1]]
  BY <1>6, <1>7 DEF GetAllFreeBlocks
<1>9. \A i \in 1 .. Len(q) : h[i - 1] = q[i]
  <2>1. \A i \in 1 .. Len(q) : i - 1 \in 0 .. NumBlocks /\ i - 1 < Len(q) /\ i - 1 + 1 = i
    BY <1>1
  <2> QED BY <1>4, <2>1
<1>10. q = [i \in 1 .. Len(q) |-> q[i]]
  OBVIOUS
<1> HIDE DEF g, h
<1>11. GetAllFreeBlocks(next, start) = q
  BY <1>8, <1>9, <1>10
<1> QED BY <1>4, <1>5, <1>11 DEF h

\* What is read from links that thread q, along either direction.
LEMMA Reads ==
  ASSUME NEW q, NEW next, NEW prev, Threads(q, next, prev)
  PROVE  /\ \A k \in 0 .. Len(q) : Hops(next, FakeHead)[k] = At(q, k + 1)
         /\ GetAllFreeBlocks(next, FakeHead) = q
         /\ GetAllFreeBlocks(prev, FakeTail) = Backwards(q)
<1>1. q \in Seq(AllBlocks) /\ IsInjective(q) /\ Len(q) \in Nat /\ Len(q) <= NumBlocks
  BY Lengths DEF Threads
<1>2. /\ \A i \in 1 .. Len(q) : At(q, i) = q[i] /\ q[i] \in AllBlocks
      /\ At(q, 0) = FakeHead /\ At(q, Len(q) + 1) = FakeTail
  BY <1>1, Places
<1>3. \A i \in 0 .. Len(q) : next[At(q, i)] = At(q, i + 1) /\ prev[At(q, i + 1)] = At(q, i)
  BY DEF Threads
<1>4. next[FakeHead] = IF Len(q) = 0 THEN FakeTail ELSE q[1]
  <2>1. 0 \in 0 .. Len(q) /\ next[FakeHead] = At(q, 1)
    BY <1>1, <1>2, <1>3
  <2>2. Len(q) # 0 => 1 \in 1 .. Len(q)
    BY <1>1
  <2> QED BY <1>2, <2>1, <2>2
<1>5. ASSUME NEW i \in 1 .. Len(q) PROVE next[q[i]] = IF i = Len(q) THEN FakeTail ELSE q[i + 1]
  <2>1. i \in 0 .. Len(q) /\ (i # Len(q) => i + 1 \in 1 .. Len(q))
    BY <1>1
  <2> QED BY <1>2, <1>3, <2>1
<1>6. /\ \A k \in 0 .. Len(q) :
           Hops(next, FakeHead)[k] = IF k = Len(q) THEN FakeTail ELSE q[k + 1]
      /\ GetAllFreeBlocks(next, FakeHead) = q
  <2>1. q \in Seq(AllBlocks) /\ Len(q) <= NumBlocks /\ FakeTail \notin AllBlocks
    BY <1>1, Distinct
  <2> QED BY <1>4, <1>5, <2>1, Walk, ZenonT(60)
<1>7. ASSUME NEW k \in 0 .. Len(q) PROVE Hops(next, FakeHead)[k] = At(q, k + 1)
  <2>1. k # Len(q) => k + 1 \in 1 .. Len(q)
    BY <1>1
  <2> QED BY <1>2, <1>6, <2>1
<1> DEFINE r == Backwards(q)
<1>8. /\ r \in Seq(AllBlocks) /\ Len(r) = Len(q)
      /\ \A i \in 1 .. Len(q) : r[i] = q[Len(q) - i + 1]
  <2>1. r = [i \in 1 .. Len(q) |-> q[Len(q) - i + 1]]
    BY DEF Backwards
  <2>2. \A i \in 1 .. Len(q) : Len(q) - i + 1 \in 1 .. Len(q)
    BY <1>1
  <2> HIDE DEF r
  <2>3. r \in [1 .. Len(q) -> AllBlocks]
    BY <1>2, <2>1, <2>2
  <2> QED BY <1>1, <2>1, <2>3
<1> HIDE DEF r
<1>9. prev[FakeTail] = IF Len(r) = 0 THEN FakeHead ELSE r[1]
  <2>1. Len(q) \in 0 .. Len(q) /\ prev[FakeTail] = At(q, Len(q))
    BY <1>1, <1>2, <1>3
  <2>2. Len(q) # 0 => 1 \in 1 .. Len(q) /\ Len(q) \in 1 .. Len(q) /\ Len(q) - 1 + 1 = Len(q)
    BY <1>1
  <2> QED BY <1>2, <1>8, <2>1, <2>2
<1>10. ASSUME NEW i \in 1 .. Len(r) PROVE prev[r[i]] = IF i = Len(r) THEN FakeHead ELSE r[i + 1]
  <2> DEFINE j == Len(q) - i
  <2>0. Len(r) = Len(q)
    BY <1>8
  <2>1. /\ i \in 1 .. Len(q) /\ j \in 0 .. Len(q) /\ j + 1 \in 1 .. Len(q)
        /\ (i = Len(q) <=> j = 0) /\ j + 1 = Len(q) - i + 1
    BY <1>1, <2>0
  <2>2. i # Len(q) => i + 1 \in 1 .. Len(q) /\ Len(q) - (i + 1) + 1 = j /\ j \in 1 .. Len(q)
    BY <1>1, <2>0
  <2>3. r[i] = q[j + 1] /\ (i # Len(q) => r[i + 1] = q[j])
    BY <1>8, <2>1, <2>2
  <2> HIDE DEF j
  <2>4. prev[r[i]] = At(q, j)
    BY <1>2, <1>3, <2>1, <2>3
  <2> QED BY <1>2, <1>8, <2>1, <2>2, <2>3, <2>4
<1>11. GetAllFreeBlocks(prev, FakeTail) = r
  <2>1. Len(r) <= NumBlocks /\ FakeHead \notin AllBlocks
    BY <1>1, <1>8, Distinct
  <2>2. r \in Seq(AllBlocks)
    BY <1>8
  <2> QED BY <1>9, <1>10, <2>1, <2>2, Walk, ZenonT(60)
<1> QED BY <1>6, <1>7, <1>11 DEF r

-----------------------------------------------------------------------------
(* The loop of prepend_n and append_n.                                      *)

State == [next : Links, prev : Links, last : Nodes]

LinkBody(p, b) == [next |-> [p.next EXCEPT ![p.last] = b],
                   prev |-> [p.prev EXCEPT ![b] = p.last],
                   last |-> b]

\* Where the loop stands after n blocks of s.
LinkedSoFar(l, s, start, n) ==
  /\ l \in State /\ l.last = IF n = 0 THEN start ELSE s[n]
  /\ n > 0 => l.next[start] = s[1] /\ l.prev[s[1]] = start
  /\ \A i \in 1 .. n - 1 : l.next[s[i]] = s[i + 1] /\ l.prev[s[i + 1]] = s[i]
  /\ \A x \in Nodes : (\A i \in 1 .. n - 1 : x # s[i]) /\ (n > 0 => x # start) =>
       l.next[x] = next_free_block[x]
  /\ \A x \in Nodes : (\A i \in 1 .. n : x # s[i]) => l.prev[x] = prev_free_block[x]

LEMMA LinkBodyFacts ==
  ASSUME NEW p \in State, NEW b \in Nodes
  PROVE  /\ LinkBody(p, b) \in State /\ LinkBody(p, b).last = b
         /\ LinkBody(p, b).next[p.last] = b /\ LinkBody(p, b).prev[b] = p.last
         /\ \A x \in Nodes : x # p.last => LinkBody(p, b).next[x] = p.next[x]
         /\ \A x \in Nodes : x # b => LinkBody(p, b).prev[x] = p.prev[x]
<1> DEFINE nx == [p.next EXCEPT ![p.last] = b]
           pv == [p.prev EXCEPT ![b] = p.last]
           l == LinkBody(p, b)
<1>1. p.last \in Nodes /\ p.next \in Links /\ p.prev \in Links
  BY DEF State
<1>2. /\ nx \in Links /\ nx[p.last] = b
      /\ \A x \in Nodes : x # p.last => nx[x] = p.next[x]
  BY <1>1 DEF Links
<1>3. /\ pv \in Links /\ pv[b] = p.last
      /\ \A x \in Nodes : x # b => pv[x] = p.prev[x]
  BY <1>1 DEF Links
<1>4. l = [next |-> nx, prev |-> pv, last |-> b]
  BY DEF LinkBody
<1> HIDE DEF nx, pv, l
<1>5. l \in State /\ l.next = nx /\ l.prev = pv /\ l.last = b
  BY <1>2, <1>3, <1>4 DEF State
<1> QED BY <1>2, <1>3, <1>5 DEF l

\* One pass of the loop.
LEMMA LinkOne ==
  ASSUME NEW s \in Seq(AllBlocks), IsInjective(s), NEW start \in Nodes,
         \A i \in 1 .. Len(s) : s[i] # start,
         NEW n \in Nat, n + 1 <= Len(s), NEW p, LinkedSoFar(p, s, start, n)
  PROVE  LinkedSoFar(LinkBody(p, s[n + 1]), s, start, n + 1)
<1> DEFINE b == s[n + 1]
           l == LinkBody(p, b)
<1>1. /\ Len(s) \in Nat /\ n + 1 \in 1 .. Len(s) /\ b \in AllBlocks /\ b \in Nodes
      /\ \A i, j \in 1 .. Len(s) : s[i] = s[j] => i = j
      /\ \A i \in 1 .. Len(s) : s[i] \in Nodes
  BY DEF Nodes, IsInjective
<1>2. p \in State /\ p.last \in Nodes /\ p.next \in Links /\ p.prev \in Links
  BY DEF LinkedSoFar, State
<1>3. /\ l \in State /\ l.last = b /\ l.next[p.last] = b /\ l.prev[b] = p.last
      /\ \A x \in Nodes : x # p.last => l.next[x] = p.next[x]
      /\ \A x \in Nodes : x # b => l.prev[x] = p.prev[x]
  <2>1. p \in State /\ b \in Nodes
    BY <1>1, <1>2
  <2> HIDE DEF b
  <2> QED BY <2>1, LinkBodyFacts, ZenonT(60)
<1> HIDE DEF l, b
<1>4. p.last = IF n = 0 THEN start ELSE s[n]
  BY DEF LinkedSoFar
<1>5. l.next[start] = s[1] /\ l.prev[s[1]] = start
  <2>1. CASE n = 0
    BY <1>3, <1>4, <2>1 DEF b
  <2>2. CASE n # 0
    <3>1. n \in 1 .. Len(s) /\ 1 \in 1 .. Len(s) /\ n > 0 /\ 1 # n + 1
      BY <1>1, <2>2
    <3>2. s[n] # start /\ s[1] # b /\ s[1] \in Nodes
      BY <1>1, <3>1 DEF b
    <3>3. p.next[start] = s[1] /\ p.prev[s[1]] = start
      BY <3>1 DEF LinkedSoFar
    <3> QED BY <1>3, <1>4, <2>2, <3>2, <3>3
  <2> QED BY <2>1, <2>2
<1>6. ASSUME NEW i \in 1 .. n PROVE l.next[s[i]] = s[i + 1] /\ l.prev[s[i + 1]] = s[i]
  <2>1. /\ i \in 1 .. Len(s) /\ n \in 1 .. Len(s) /\ i + 1 \in 1 .. Len(s) /\ n # 0
        /\ p.last = s[n]
    BY <1>1, <1>4
  <2>2. CASE i = n
    BY <1>3, <2>1, <2>2 DEF b
  <2>3. CASE i # n
    <3>1. i \in 1 .. n - 1 /\ i + 1 # n + 1
      BY <2>3
    <3>2. p.next[s[i]] = s[i + 1] /\ p.prev[s[i + 1]] = s[i]
      BY <3>1 DEF LinkedSoFar
    <3>3. s[i] # p.last /\ s[i + 1] # b
      BY <1>1, <2>1, <2>3, <3>1 DEF b
    <3> QED BY <1>1, <1>3, <2>1, <3>2, <3>3
  <2> QED BY <2>2, <2>3
<1>7. ASSUME NEW x \in Nodes, \A i \in 1 .. n : x # s[i], x # start
      PROVE  l.next[x] = next_free_block[x]
  <2>1. x # p.last
    BY <1>4, <1>7
  <2>2. \A i \in 1 .. n - 1 : i \in 1 .. n
    OBVIOUS
  <2>3. p.next[x] = next_free_block[x]
    BY <1>7, <2>2 DEF LinkedSoFar
  <2> QED BY <1>3, <2>1, <2>3
<1>8. ASSUME NEW x \in Nodes, \A i \in 1 .. n + 1 : x # s[i]
      PROVE  l.prev[x] = prev_free_block[x]
  <2>1. n + 1 \in 1 .. n + 1 /\ \A i \in 1 .. n : i \in 1 .. n + 1
    OBVIOUS
  <2>2. x # b /\ p.prev[x] = prev_free_block[x]
    BY <1>8, <2>1 DEF LinkedSoFar, b
  <2> QED BY <1>3, <2>2
<1>9. n + 1 > 0 /\ n + 1 # 0 /\ n + 1 - 1 = n
  OBVIOUS
<1>10. LinkedSoFar(l, s, start, n + 1)
  BY <1>3, <1>5, <1>6, <1>7, <1>8, <1>9 DEF LinkedSoFar, b
<1> QED BY <1>10 DEF l, b

\* The function of the loop.
Loop(f, s, start) ==
  f = [i \in 0 .. Len(s) |->
         IF i = 0
         THEN [next |-> next_free_block, prev |-> prev_free_block, last |-> start]
         ELSE LinkBody(f[i - 1], s[i])]

\* The links after the loop.
LEMMA LinkAll ==
  ASSUME next_free_block \in Links, prev_free_block \in Links,
         NEW s \in Seq(AllBlocks), IsInjective(s), NEW start \in Nodes,
         \A i \in 1 .. Len(s) : s[i] # start
  PROVE  LinkedSoFar(LinkAfter(s, start), s, start, Len(s))
<1> DEFINE N == Len(s)
           x == [next |-> next_free_block, prev |-> prev_free_block, last |-> start]
           step == [i \in 1 .. N |-> [p \in State |-> LinkBody(p, s[i])]]
           h == CHOOSE f : Loop(f, s, start)
<1>1. N \in Nat /\ \A i \in 1 .. N : s[i] \in Nodes
  BY DEF Nodes
<1>2. x \in State
  BY DEF State
<1>3. LinkAfter(s, start) = h[N]
  BY DEF LinkAfter, Loop, LinkBody
<1>4. step \in [1 .. N -> [State -> State]]
  BY <1>1, LinkBodyFacts
<1>5. PICK g \in [0 .. N -> State] : Iterates(g, N, x, step)
  <2> HIDE DEF N, x, step
  <2> QED BY <1>1, <1>2, <1>4, IterationExists
<1>6. Loop(g, s, start)
  <2>1. ASSUME NEW i \in 0 .. N, i # 0 PROVE g[i] = LinkBody(g[i - 1], s[i])
    <3>1. i \in 1 .. N /\ i - 1 \in 0 .. N
      BY <1>1, <2>1
    <3>2. g[i] = step[i][g[i - 1]] /\ g[i - 1] \in State
      BY <1>5, <3>1 DEF Iterates
    <3> QED BY <3>1, <3>2
  <2>2. g[0] = x
    BY <1>5 DEF Iterates
  <2>3. g = [i \in 0 .. N |-> IF i = 0 THEN x ELSE LinkBody(g[i - 1], s[i])]
    <3> HIDE DEF x, step
    <3> QED BY <1>5, <2>1, <2>2
  <2> QED BY <2>3 DEF Loop
<1>7. Loop(h, s, start)
  BY <1>6
<1> HIDE DEF h
<1> DEFINE S == {n \in Nat : n \in 0 .. N => LinkedSoFar(h[n], s, start, n)}
<1>8. h[0] = x /\ \A i \in 1 .. N : h[i] = LinkBody(h[i - 1], s[i])
  <2> HIDE DEF S
  <2>1. \A i \in 0 .. N : h[i] = IF i = 0 THEN x ELSE LinkBody(h[i - 1], s[i])
    BY <1>7 DEF Loop
  <2>2. 0 \in 0 .. N /\ \A i \in 1 .. N : i \in 0 .. N /\ i # 0
    BY <1>1
  <2> HIDE DEF x, N
  <2> QED BY <2>1, <2>2
<1>9. 0 \in S
  <2>1. /\ x \in State /\ x.last = start
        /\ x.next = next_free_block /\ x.prev = prev_free_block
    BY <1>2
  <2> HIDE DEF x
  <2>2. LinkedSoFar(x, s, start, 0)
    BY <2>1 DEF LinkedSoFar
  <2> QED BY <1>8, <2>2
<1>10. \A n \in Nat : n \in S => n + 1 \in S
  <2> SUFFICES ASSUME NEW n \in Nat, n \in S, n + 1 \in 0 .. N
               PROVE  LinkedSoFar(h[n + 1], s, start, n + 1)
    OBVIOUS
  <2>1. n \in 0 .. N /\ n + 1 \in 1 .. N /\ n + 1 <= Len(s) /\ n + 1 - 1 = n
    BY <1>1
  <2>2. LinkedSoFar(h[n], s, start, n)
    BY <2>1
  <2>3. h[n + 1] = LinkBody(h[n], s[n + 1])
    BY <1>8, <2>1
  <2> QED BY <2>1, <2>2, <2>3, LinkOne
<1>11. N \in S
  <2> HIDE DEF S
  <2> QED BY <1>1, <1>9, <1>10, NatSetInduction
<1>12. LinkedSoFar(h[N], s, start, N)
  BY <1>1, <1>11
<1> QED BY <1>3, <1>12

-----------------------------------------------------------------------------
(* The operations.                                                          *)

ThreadsNow(q) == Threads(q, next_free_block, prev_free_block) /\ num_free_blocks = Len(q)

\* Links that thread q, place by place.
LEMMA ThreadsIf ==
  ASSUME NEW q \in Seq(AllBlocks), NEW next \in Links, NEW prev \in Links,
         \A i, j \in 1 .. Len(q) : q[i] = q[j] => i = j,
         \A i \in 0 .. Len(q) : next[At(q, i)] = At(q, i + 1) /\ prev[At(q, i + 1)] = At(q, i),
         \A b \in AllBlocks : (\A i \in 1 .. Len(q) : b # q[i]) => next[b] = None /\ prev[b] = None
  PROVE  Threads(q, next, prev)
<1>1. DOMAIN q = 1 .. Len(q)
  OBVIOUS
<1>2. IsInjective(q)
  BY <1>1 DEF IsInjective
<1>3. \A b \in AllBlocks \ Range(q) : \A i \in 1 .. Len(q) : b # q[i]
  BY <1>1 DEF Range
<1> QED BY <1>2, <1>3 DEF Threads

\* What threading says, place by place.
LEMMA ThreadsThen ==
  ASSUME NEW q, ThreadsNow(q)
  PROVE  /\ q \in Seq(AllBlocks) /\ IsInjective(q) /\ Len(q) \in Nat
         /\ next_free_block \in Links /\ prev_free_block \in Links
         /\ \A i, j \in 1 .. Len(q) : q[i] = q[j] => i = j
         /\ \A i \in 0 .. Len(q) : /\ next_free_block[At(q, i)] = At(q, i + 1)
                                   /\ prev_free_block[At(q, i + 1)] = At(q, i)
         /\ \A b \in AllBlocks : (\A i \in 1 .. Len(q) : b # q[i]) =>
              b \notin Range(q) /\ next_free_block[b] = None /\ prev_free_block[b] = None
<1>1. q \in Seq(AllBlocks) /\ IsInjective(q)
  BY DEF ThreadsNow, Threads
<1>2. DOMAIN q = 1 .. Len(q) /\ Len(q) \in Nat
  BY <1>1
<1>3. \A i, j \in 1 .. Len(q) : q[i] = q[j] => i = j
  BY <1>1, <1>2 DEF IsInjective
<1>4. \A b : (\A i \in 1 .. Len(q) : b # q[i]) => b \notin Range(q)
  BY <1>2 DEF Range
<1> QED BY <1>1, <1>2, <1>3, <1>4 DEF ThreadsNow, Threads

LEMMA PopThreads ==
  ASSUME NEW q, ThreadsNow(q), NEW n \in 1 .. NumBlocks, PopLeftN(n)
  PROVE  n <= Len(q) /\ ThreadsNow(SubSeq(q, n + 1, Len(q)))'
<1> DEFINE r == SubSeq(q, n + 1, Len(q))
           node == Hops(next_free_block, FakeHead)
           popped == {node[k] : k \in 0 .. n - 1}
           rest == node[n]
<1>1. /\ q \in Seq(AllBlocks) /\ IsInjective(q) /\ Len(q) \in Nat
      /\ next_free_block \in Links /\ prev_free_block \in Links
  BY ThreadsThen
<1>2. n \in Nat /\ n >= 1 /\ n <= Len(q) /\ num_free_blocks' = Len(q) - n
  BY <1>1, Distinct DEF PopLeftN, ThreadsNow
<1>3. /\ \A i \in 0 .. Len(q) + 1 : At(q, i) \in Nodes
      /\ \A i \in 1 .. Len(q) : At(q, i) = q[i] /\ q[i] \in AllBlocks
      /\ At(q, 0) = FakeHead /\ At(q, Len(q) + 1) = FakeTail
      /\ \A i, j \in 0 .. Len(q) + 1 : At(q, i) = At(q, j) => i = j
  BY <1>1, Places
<1>4. /\ \A k \in 0 .. Len(q) : node[k] = At(q, k + 1)
  BY Reads DEF ThreadsNow
<1>5. /\ next_free_block' = [x \in Nodes |->
             IF x = FakeHead THEN rest ELSE IF x \in popped THEN None ELSE next_free_block[x]]
      /\ prev_free_block' = [x \in Nodes |->
             IF x = rest THEN FakeHead ELSE IF x \in popped THEN None ELSE prev_free_block[x]]
  BY DEF PopLeftN
<1> HIDE DEF node
<1>6. rest = At(q, n + 1) /\ rest \in Nodes
  BY <1>2, <1>3, <1>4
<1>7. \A x : x \in popped <=> \E i \in 1 .. n : x = At(q, i)
  <2>1. ASSUME NEW k \in 0 .. n - 1 PROVE k + 1 \in 1 .. n /\ node[k] = At(q, k + 1)
    BY <1>1, <1>2, <1>4
  <2>2. ASSUME NEW i \in 1 .. n PROVE i - 1 \in 0 .. n - 1 /\ node[i - 1] = At(q, i)
    BY <1>1, <1>2, <1>4
  <2> QED BY <2>1, <2>2
<1> HIDE DEF rest, popped
<1>8. next_free_block' \in Links /\ prev_free_block' \in Links
  BY <1>1, <1>5, <1>6 DEF Links, Nodes
<1>9. /\ r \in Seq(AllBlocks) /\ Len(r) = Len(q) - n
      /\ \A i \in 1 .. Len(r) : r[i] = q[n + i]
  BY <1>1, <1>2
<1> HIDE DEF r
<1>10. At(r, 0) = FakeHead /\ \A i \in 1 .. Len(r) + 1 : At(r, i) = At(q, n + i)
  <2>1. At(r, 0) = FakeHead
    BY DEF At
  <2>2. ASSUME NEW i \in 1 .. Len(r) + 1 PROVE At(r, i) = At(q, n + i)
    <3>0. n \in Nat /\ n <= Len(q) /\ Len(q) \in Nat /\ Len(r) = Len(q) - n
      BY <1>1, <1>2, <1>9
    <3>1. /\ i # 0 /\ n + i # 0
          /\ (i = Len(r) + 1) <=> (n + i = Len(q) + 1)
          /\ (i # Len(r) + 1) => i \in 1 .. Len(r)
      BY <3>0
    <3> QED BY <1>9, <3>1 DEF At
  <2> QED BY <2>1, <2>2
<1>11. \A i, j \in 1 .. Len(r) : r[i] = r[j] => i = j
  <2> SUFFICES ASSUME NEW i \in 1 .. Len(r), NEW j \in 1 .. Len(r), r[i] = r[j] PROVE i = j
    OBVIOUS
  <2>1. n + i \in 1 .. Len(q) /\ n + j \in 1 .. Len(q)
    BY <1>1, <1>2, <1>9
  <2>2. n + i = n + j
    BY <1>9, <2>1, ThreadsThen
  <2> QED BY <1>2, <2>2
\* A node behind the popped ones keeps its links, except for the new first one.
<1>12. ASSUME NEW i \in 1 .. Len(r)
       PROVE  /\ next_free_block'[At(q, n + i)] = At(q, n + i + 1)
              /\ prev_free_block'[At(q, n + i + 1)] = At(q, n + i)
  <2>1. /\ n + i \in 0 .. Len(q) /\ n + i \in 0 .. Len(q) + 1 /\ n + i + 1 \in 0 .. Len(q) + 1
        /\ n + 1 \in 0 .. Len(q) + 1 /\ n + i # 0 /\ n + i + 1 # n + 1 /\ 0 \in 0 .. Len(q) + 1
        /\ \A j \in 1 .. n : j \in 0 .. Len(q) + 1 /\ j # n + i /\ j # n + i + 1
    BY <1>1, <1>2, <1>9
  <2>2. /\ At(q, n + i) \in Nodes /\ At(q, n + i) # FakeHead /\ At(q, n + i) \notin popped
        /\ At(q, n + i + 1) \in Nodes /\ At(q, n + i + 1) # rest
        /\ At(q, n + i + 1) \notin popped
    BY <1>3, <1>6, <1>7, <2>1
  <2>3. /\ next_free_block[At(q, n + i)] = At(q, n + i + 1)
        /\ prev_free_block[At(q, n + i + 1)] = At(q, n + i)
    BY <2>1, ThreadsThen
  <2> QED BY <1>5, <2>2, <2>3
<1>13. ASSUME NEW i \in 0 .. Len(r)
       PROVE  /\ next_free_block'[At(r, i)] = At(r, i + 1)
              /\ prev_free_block'[At(r, i + 1)] = At(r, i)
  <2>1. CASE i = 0
    <3>1. 1 \in 1 .. Len(r) + 1 /\ At(r, 1) = rest /\ At(r, 0) = FakeHead /\ i + 1 = 1
      BY <1>1, <1>2, <1>6, <1>9, <1>10, <2>1
    <3>2. FakeHead \in Nodes
      BY DEF Nodes
    <3> QED BY <1>5, <1>6, <2>1, <3>1, <3>2
  <2>2. CASE i # 0
    <3>1. /\ i \in 1 .. Len(r) /\ i \in 1 .. Len(r) + 1 /\ i + 1 \in 1 .. Len(r) + 1
          /\ n + (i + 1) = n + i + 1
      BY <1>1, <1>2, <1>9, <2>2
    <3> QED BY <1>10, <1>12, <3>1
  <2> QED BY <2>1, <2>2
<1>14. ASSUME NEW b \in AllBlocks, \A i \in 1 .. Len(r) : b # r[i]
       PROVE  next_free_block'[b] = None /\ prev_free_block'[b] = None
  <2>1. b \in Nodes /\ b # FakeHead /\ b # FakeTail
    BY Distinct DEF Nodes
  <2>2. b # rest
    <3>1. CASE n = Len(q)
      BY <1>3, <1>6, <2>1, <3>1
    <3>2. CASE n # Len(q)
      <4>1. n + 1 \in 1 .. Len(q) /\ 1 \in 1 .. Len(r)
        BY <1>1, <1>2, <1>9, <3>2
      <4> QED BY <1>3, <1>6, <1>9, <1>14, <4>1
    <3> QED BY <3>1, <3>2
  <2>3. CASE b \in popped
    BY <1>5, <2>1, <2>2, <2>3
  <2>4. CASE b \notin popped
    <3>1. ASSUME NEW i \in 1 .. Len(q) PROVE b # q[i]
      <4>1. CASE i <= n
        BY <1>2, <1>3, <1>7, <2>4, <4>1
      <4>2. CASE i > n
        <5>1. i - n \in 1 .. Len(r) /\ n + (i - n) = i
          BY <1>1, <1>2, <1>9, <4>2
        <5> QED BY <1>9, <1>14, <5>1
      <4> QED BY <1>2, <4>1, <4>2
    <3>2. next_free_block[b] = None /\ prev_free_block[b] = None
      BY <3>1, ThreadsThen
    <3> QED BY <1>5, <2>1, <2>2, <2>4, <3>2
  <2> QED BY <2>3, <2>4
<1>15. Threads(r, next_free_block', prev_free_block')
  BY <1>8, <1>9, <1>11, <1>13, <1>14, ThreadsIf
<1> QED BY <1>2, <1>9, <1>15 DEF ThreadsNow, r

LEMMA RemoveThreads ==
  ASSUME NEW q, ThreadsNow(q), NEW b \in AllBlocks, RemoveBlock(b)
  PROVE  \E i \in 1 .. Len(q) : q[i] = b /\ ThreadsNow(Without(q, i))'
<1> DEFINE p == prev_free_block[b]
           n == next_free_block[b]
<1>1. /\ q \in Seq(AllBlocks) /\ IsInjective(q) /\ Len(q) \in Nat
      /\ next_free_block \in Links /\ prev_free_block \in Links
      /\ \A i, j \in 1 .. Len(q) : q[i] = q[j] => i = j
  BY ThreadsThen
<1>2. PICK i \in 1 .. Len(q) : b = q[i]
  BY ThreadsThen DEF RemoveBlock
<1> DEFINE r == Without(q, i)
<1>3. /\ \A k \in 0 .. Len(q) + 1 : At(q, k) \in Nodes
      /\ \A k \in 1 .. Len(q) : At(q, k) = q[k] /\ q[k] \in AllBlocks
      /\ At(q, 0) = FakeHead /\ At(q, Len(q) + 1) = FakeTail
      /\ \A k, j \in 0 .. Len(q) + 1 : At(q, k) = At(q, j) => k = j
  BY <1>1, Places
<1>4. /\ i \in 0 .. Len(q) /\ i - 1 \in 0 .. Len(q) /\ i - 1 + 1 = i
      /\ i - 1 \in 0 .. Len(q) + 1 /\ i \in 0 .. Len(q) + 1 /\ i + 1 \in 0 .. Len(q) + 1
  BY <1>1
<1>5. b = At(q, i) /\ p = At(q, i - 1) /\ n = At(q, i + 1)
  BY <1>2, <1>3, <1>4, ThreadsThen
<1>6. p \in Nodes /\ n \in Nodes /\ b \in Nodes /\ p # b /\ n # b
  BY <1>1, <1>3, <1>4, <1>5
<1>7. /\ next_free_block' = [next_free_block EXCEPT ![p] = n, ![b] = None]
      /\ prev_free_block' = [prev_free_block EXCEPT ![n] = p, ![b] = None]
      /\ num_free_blocks' = Len(q) - 1
  BY DEF RemoveBlock, ThreadsNow
<1> HIDE DEF p, n
<1>8. /\ next_free_block' \in Links /\ prev_free_block' \in Links
      /\ next_free_block'[p] = n /\ prev_free_block'[n] = p
      /\ next_free_block'[b] = None /\ prev_free_block'[b] = None
      /\ \A x \in Nodes : x # p /\ x # b => next_free_block'[x] = next_free_block[x]
      /\ \A x \in Nodes : x # n /\ x # b => prev_free_block'[x] = prev_free_block[x]
  BY <1>1, <1>6, <1>7 DEF Links
<1>9. /\ r \in Seq(AllBlocks) /\ Len(r) = Len(q) - 1
      /\ \A k \in 1 .. Len(r) : r[k] = IF k < i THEN q[k] ELSE q[k + 1]
  BY <1>1, <1>2, WithoutPlaces
<1> HIDE DEF r
<1>10. ASSUME NEW k \in 0 .. Len(r) + 1 PROVE At(r, k) = IF k < i THEN At(q, k) ELSE At(q, k + 1)
  <2>1. CASE k \in 1 .. Len(r)
    <3>1. /\ k # 0 /\ k # Len(r) + 1 /\ k # Len(q) + 1 /\ k + 1 # 0 /\ k + 1 # Len(q) + 1
      BY <1>1, <1>9, <2>1
    <3> QED BY <1>9, <2>1, <3>1 DEF At
  <2>2. CASE k = 0
    BY <1>1, <2>2 DEF At
  <2>3. CASE k = Len(r) + 1
    <3>1. ~(k < i) /\ k + 1 = Len(q) + 1 /\ k # 0 /\ k + 1 # 0
      BY <1>1, <1>9, <2>3
    <3> QED BY <2>3, <3>1 DEF At
  <2> QED BY <1>1, <1>9, <2>1, <2>2, <2>3
<1>11. \A k, j \in 1 .. Len(r) : r[k] = r[j] => k = j
  <2> SUFFICES ASSUME NEW k \in 1 .. Len(r), NEW j \in 1 .. Len(r), r[k] = r[j] PROVE k = j
    OBVIOUS
  <2> DEFINE kk == IF k < i THEN k ELSE k + 1
             jj == IF j < i THEN j ELSE j + 1
  <2>1. kk \in 1 .. Len(q) /\ jj \in 1 .. Len(q) /\ (kk = jj => k = j)
    BY <1>1, <1>9
  <2>2. r[k] = q[kk] /\ r[j] = q[jj]
    BY <1>9
  <2> HIDE DEF kk, jj
  <2> QED BY <1>1, <2>1, <2>2
<1>12. ASSUME NEW k \in 0 .. Len(r)
       PROVE  /\ next_free_block'[At(r, k)] = At(r, k + 1)
              /\ prev_free_block'[At(r, k + 1)] = At(r, k)
  <2>0. /\ k \in 0 .. Len(r) + 1 /\ k + 1 \in 0 .. Len(r) + 1 /\ k \in 0 .. Len(q)
        /\ k \in 0 .. Len(q) + 1 /\ k + 1 \in 0 .. Len(q) + 1 /\ k + 2 \in 0 .. Len(q) + 1
        /\ k + 1 \in 0 .. Len(q) /\ k + 1 + 1 = k + 2
    BY <1>1, <1>9
  <2>1. CASE k + 1 = i
    <3>1. k < i /\ ~(k + 1 < i) /\ k = i - 1 /\ k + 1 + 1 = i + 1
      BY <2>1
    <3> QED BY <1>5, <1>8, <1>10, <2>0, <3>1
  <2>2. CASE k + 1 < i
    <3>1. k < i /\ k # i - 1 /\ k # i /\ k + 1 # i + 1 /\ k + 1 # i
      BY <2>2
    <3>2. At(r, k) = At(q, k) /\ At(r, k + 1) = At(q, k + 1)
      BY <1>10, <2>0, <2>2, <3>1
    <3>3. /\ At(q, k) \in Nodes /\ At(q, k) # p /\ At(q, k) # b
          /\ At(q, k + 1) \in Nodes /\ At(q, k + 1) # n /\ At(q, k + 1) # b
      BY <1>3, <1>4, <1>5, <2>0, <3>1
    <3> QED BY <1>8, <2>0, <3>2, <3>3, ThreadsThen
  <2>3. CASE k + 1 > i
    <3>1. ~(k < i) /\ ~(k + 1 < i) /\ k + 1 # i - 1 /\ k + 1 # i /\ k + 2 # i + 1 /\ k + 2 # i
      BY <2>3
    <3>2. At(r, k) = At(q, k + 1) /\ At(r, k + 1) = At(q, k + 2)
      BY <1>10, <2>0, <3>1
    <3>3. /\ At(q, k + 1) \in Nodes /\ At(q, k + 1) # p /\ At(q, k + 1) # b
          /\ At(q, k + 2) \in Nodes /\ At(q, k + 2) # n /\ At(q, k + 2) # b
      BY <1>3, <1>4, <1>5, <2>0, <3>1
    <3>4. /\ next_free_block[At(q, k + 1)] = At(q, k + 2)
          /\ prev_free_block[At(q, k + 2)] = At(q, k + 1)
      BY <2>0, ThreadsThen
    <3> QED BY <1>8, <3>2, <3>3, <3>4
  <2> QED BY <1>1, <2>1, <2>2, <2>3
<1>13. ASSUME NEW c \in AllBlocks, \A k \in 1 .. Len(r) : c # r[k]
       PROVE  next_free_block'[c] = None /\ prev_free_block'[c] = None
  <2>1. c \in Nodes
    BY DEF Nodes
  <2>2. CASE c = b
    BY <1>8, <2>2
  <2>3. CASE c # b
    <3>1. ASSUME NEW k \in 1 .. Len(q) PROVE c # q[k]
      <4>1. CASE k = i
        BY <1>2, <2>3, <4>1
      <4>2. CASE k < i
        <5>1. k \in 1 .. Len(r)
          BY <1>1, <1>9, <4>2
        <5> QED BY <1>9, <1>13, <4>2, <5>1
      <4>3. CASE k > i
        <5>1. k - 1 \in 1 .. Len(r) /\ ~(k - 1 < i) /\ k - 1 + 1 = k
          BY <1>1, <1>9, <4>3
        <5> QED BY <1>9, <1>13, <5>1
      <4> QED BY <1>1, <4>1, <4>2, <4>3
    <3>2. c # p /\ c # n
      <4>1. ASSUME NEW k \in 0 .. Len(q) + 1 PROVE c # At(q, k)
        <5>1. k = 0 \/ k = Len(q) + 1 \/ k \in 1 .. Len(q)
          BY <1>1
        <5> QED BY <1>3, <3>1, <5>1, Distinct
      <4> QED BY <1>4, <1>5, <4>1
    <3>3. next_free_block[c] = None /\ prev_free_block[c] = None
      BY <3>1, ThreadsThen
    <3> QED BY <1>8, <2>1, <2>3, <3>2, <3>3
  <2> QED BY <2>2, <2>3
<1>14. Threads(r, next_free_block', prev_free_block')
  BY <1>8, <1>9, <1>11, <1>12, <1>13, ThreadsIf
<1>15. ThreadsNow(r)'
  BY <1>7, <1>9, <1>14 DEF ThreadsNow
<1> QED BY <1>2, <1>15 DEF r

\* The lists that callers free: distinct blocks that are not in the list.
LEMMA NewListFacts ==
  ASSUME NEW q, ThreadsNow(q), NEW s \in NewLists
  PROVE  /\ s \in Seq(AllBlocks) /\ IsInjective(s) /\ Len(s) \in Nat
         /\ \A i, j \in 1 .. Len(s) : s[i] = s[j] => i = j
         /\ \A i \in 1 .. Len(s), j \in 0 .. Len(q) + 1 : s[i] # At(q, j)
<1>1. GetAllFreeBlocks(next_free_block, FakeHead) = q
  BY Reads DEF ThreadsNow
<1>2. PICK B \in SUBSET (AllBlocks \ Range(q)) : s \in Injection(1 .. Cardinality(B), B)
  BY <1>1 DEF NewLists, Listed
<1>3. IsFiniteSet(AllBlocks)
  BY Distinct, FS_Interval DEF AllBlocks
<1>4. Cardinality(B) \in Nat
  BY <1>2, <1>3, FS_Subset, FS_CardinalityType
<1>5. /\ s \in [1 .. Cardinality(B) -> B]
      /\ \A i, j \in 1 .. Cardinality(B) : i # j => s[i] # s[j]
  BY <1>2 DEF Injection, IsInjective
<1>6. s \in Seq(AllBlocks) /\ Len(s) = Cardinality(B) /\ DOMAIN s = 1 .. Cardinality(B)
  BY <1>2, <1>4, <1>5
<1>7. \A i, j \in 1 .. Len(s) : s[i] = s[j] => i = j
  BY <1>5, <1>6
<1>8. q \in Seq(AllBlocks) /\ IsInjective(q) /\ Len(q) \in Nat
  BY ThreadsThen
<1>9. ASSUME NEW i \in 1 .. Len(s), NEW j \in 0 .. Len(q) + 1 PROVE s[i] # At(q, j)
  <2>1. s[i] \in AllBlocks /\ s[i] \notin Range(q)
    BY <1>2, <1>5, <1>6
  <2>2. j = 0 \/ j = Len(q) + 1 \/ j \in 1 .. Len(q)
    BY <1>8
  <2>3. /\ \A k \in 1 .. Len(q) : At(q, k) = q[k] /\ q[k] \in Range(q)
        /\ At(q, 0) = FakeHead /\ At(q, Len(q) + 1) = FakeTail
    BY <1>8, Places
  <2> QED BY <2>1, <2>2, <2>3, Distinct
<1> QED BY <1>4, <1>6, <1>7, <1>9 DEF IsInjective

\* Two lists without a common block, one after the other.
LEMMA JoinedLists ==
  ASSUME NEW s \in Seq(AllBlocks), NEW t \in Seq(AllBlocks),
         \A i, j \in 1 .. Len(s) : s[i] = s[j] => i = j,
         \A i, j \in 1 .. Len(t) : t[i] = t[j] => i = j,
         \A i \in 1 .. Len(s), j \in 1 .. Len(t) : s[i] # t[j]
  PROVE  /\ s \o t \in Seq(AllBlocks) /\ Len(s \o t) = Len(s) + Len(t)
         /\ \A i, j \in 1 .. Len(s \o t) : (s \o t)[i] = (s \o t)[j] => i = j
         /\ \A k \in 0 .. Len(s) : At(s \o t, k) = At(s, k)
         /\ \A k \in 1 .. Len(t) + 1 : At(s \o t, Len(s) + k) = At(t, k)
         /\ \A b : (\A i \in 1 .. Len(s \o t) : b # (s \o t)[i]) =>
              (\A i \in 1 .. Len(s) : b # s[i]) /\ (\A i \in 1 .. Len(t) : b # t[i])
<1> DEFINE r == s \o t
           m == Len(s)
           n == Len(t)
<1>1. /\ r \in Seq(AllBlocks) /\ Len(r) = m + n /\ m \in Nat /\ n \in Nat
      /\ \A k \in 1 .. m + n : r[k] = IF k <= m THEN s[k] ELSE t[k - m]
  BY ConcatPlaces
<1> HIDE DEF r, m, n
<1>2. \A k \in 1 .. m : k \in 1 .. Len(r) /\ r[k] = s[k]
  <2>1. \A k \in 1 .. m : k \in 1 .. m + n /\ k <= m
    BY <1>1
  <2> QED BY <1>1, <2>1
<1>3. \A k \in 1 .. n : m + k \in 1 .. Len(r) /\ r[m + k] = t[k]
  <2>1. \A k \in 1 .. n : m + k \in 1 .. m + n /\ ~(m + k <= m) /\ m + k - m = k
    BY <1>1
  <2> QED BY <1>1, <2>1
<1>4. ASSUME NEW k \in 1 .. Len(r)
      PROVE  k \in 1 .. m \/ (k - m \in 1 .. n /\ m + (k - m) = k)
  BY <1>1
<1>5. ASSUME NEW i \in 1 .. Len(r), NEW j \in 1 .. Len(r), r[i] = r[j] PROVE i = j
  <2>1. CASE i \in 1 .. m /\ j \in 1 .. m
    <3>1. r[i] = s[i] /\ r[j] = s[j]
      BY <1>2, <2>1
    <3> QED BY <1>5, <2>1, <3>1 DEF m
  <2>2. CASE i - m \in 1 .. n /\ m + (i - m) = i /\ j - m \in 1 .. n /\ m + (j - m) = j
    <3>1. r[i] = t[i - m] /\ r[j] = t[j - m]
      BY <1>3, <2>2
    <3>2. i - m = j - m
      BY <1>5, <2>2, <3>1 DEF n
    <3> QED BY <1>1, <2>2, <3>2
  <2>3. CASE i \in 1 .. m /\ j - m \in 1 .. n /\ m + (j - m) = j
    <3>1. r[i] = s[i] /\ r[j] = t[j - m]
      BY <1>2, <1>3, <2>3
    <3> QED BY <1>5, <2>3, <3>1 DEF m, n
  <2>4. CASE j \in 1 .. m /\ i - m \in 1 .. n /\ m + (i - m) = i
    <3>1. r[j] = s[j] /\ r[i] = t[i - m]
      BY <1>2, <1>3, <2>4
    <3> QED BY <1>5, <2>4, <3>1 DEF m, n
  <2> QED BY <1>4, <2>1, <2>2, <2>3, <2>4
<1>6. ASSUME NEW k \in 0 .. m PROVE At(r, k) = At(s, k)
  <2>1. k = 0 \/ (k \in 1 .. m /\ k # 0 /\ k # m + 1 /\ k # m + n + 1)
    BY <1>1
  <2> QED BY <1>1, <1>2, <2>1 DEF At, m
<1>7. ASSUME NEW k \in 1 .. n + 1 PROVE At(r, m + k) = At(t, k)
  <2>1. /\ m + k # 0 /\ k # 0 /\ (m + k = m + n + 1) <=> (k = n + 1)
        /\ (k # n + 1) => k \in 1 .. n
    BY <1>1
  <2> QED BY <1>1, <1>3, <2>1 DEF At, n
<1>8. ASSUME NEW b, \A i \in 1 .. Len(r) : b # r[i]
      PROVE  (\A i \in 1 .. m : b # s[i]) /\ (\A i \in 1 .. n : b # t[i])
  BY <1>2, <1>3, <1>8
<1> QED BY <1>1, <1>5, <1>6, <1>7, <1>8 DEF r, m, n

LEMMA PrependThreads ==
  ASSUME NEW q, ThreadsNow(q), NEW s \in NewLists, PrependN(s)
  PROVE  ThreadsNow(s \o q)'
<1> DEFINE r == s \o q
           n == Len(s)
           first == next_free_block[FakeHead]
           l == LinkAfter(s, FakeHead)
<1>1. /\ q \in Seq(AllBlocks) /\ IsInjective(q) /\ Len(q) \in Nat
      /\ next_free_block \in Links /\ prev_free_block \in Links
      /\ \A i, j \in 1 .. Len(q) : q[i] = q[j] => i = j
  BY ThreadsThen
<1>2. /\ s \in Seq(AllBlocks) /\ IsInjective(s) /\ n \in Nat
      /\ \A i, j \in 1 .. n : s[i] = s[j] => i = j
      /\ \A i \in 1 .. n, j \in 0 .. Len(q) + 1 : s[i] # At(q, j)
  BY NewListFacts
<1>3. /\ \A i \in 0 .. Len(q) + 1 : At(q, i) \in Nodes
      /\ \A i \in 1 .. Len(q) : At(q, i) = q[i]
      /\ At(q, 0) = FakeHead /\ At(q, Len(q) + 1) = FakeTail
      /\ \A i, j \in 0 .. Len(q) + 1 : At(q, i) = At(q, j) => i = j
  BY <1>1, Places
<1>4. /\ s # <<>> /\ num_free_blocks' = Len(q) + n
      /\ next_free_block' = [l.next EXCEPT ![l.last] = first]
      /\ prev_free_block' = [l.prev EXCEPT ![first] = l.last]
  BY DEF PrependN, ThreadsNow
<1>5. n >= 1 /\ n \in 1 .. n /\ 1 \in 1 .. n
  <2>1. n # 0
    BY <1>2, <1>4
  <2> QED BY <1>2, <2>1
<1>6. first = At(q, 1) /\ first \in Nodes /\ 1 \in 0 .. Len(q) + 1
  <2>1. 0 \in 0 .. Len(q) /\ 1 \in 0 .. Len(q) + 1 /\ 0 + 1 = 1
    BY <1>1
  <2> QED BY <1>3, <2>1, ThreadsThen
<1>7. \A i \in 1 .. n : s[i] # FakeHead /\ s[i] # first /\ s[i] \in Nodes /\ s[i] \in AllBlocks
  <2>1. 0 \in 0 .. Len(q) + 1
    BY <1>1
  <2> QED BY <1>2, <1>3, <1>6, <2>1 DEF Nodes
<1>8. LinkedSoFar(l, s, FakeHead, n)
  <2>1. FakeHead \in Nodes
    BY DEF Nodes
  <2> QED BY <1>1, <1>2, <1>7, <2>1, LinkAll
<1> HIDE DEF n, l, first, r
<1>9. /\ l \in State /\ l.next \in Links /\ l.prev \in Links /\ l.last = s[n]
      /\ l.next[FakeHead] = s[1] /\ l.prev[s[1]] = FakeHead
      /\ \A i \in 1 .. n - 1 : l.next[s[i]] = s[i + 1] /\ l.prev[s[i + 1]] = s[i]
      /\ \A x \in Nodes : (\A i \in 1 .. n : x # s[i]) => l.prev[x] = prev_free_block[x]
  <2>1. n > 0 /\ n # 0
    BY <1>2, <1>5
  <2>2. l \in State /\ l.next \in Links /\ l.prev \in Links
    BY <1>8 DEF LinkedSoFar, State
  <2> QED BY <1>8, <2>1, <2>2 DEF LinkedSoFar
<1>10. \A x \in Nodes : (\A i \in 1 .. n : x # s[i]) /\ x # FakeHead =>
         l.next[x] = next_free_block[x]
  <2>1. \A i \in 1 .. n - 1 : i \in 1 .. n
    BY <1>2
  <2> QED BY <1>8, <2>1 DEF LinkedSoFar
<1>11. /\ next_free_block' \in Links /\ prev_free_block' \in Links
       /\ next_free_block'[s[n]] = first /\ prev_free_block'[first] = s[n]
       /\ \A x \in Nodes : x # s[n] => next_free_block'[x] = l.next[x]
       /\ \A x \in Nodes : x # first => prev_free_block'[x] = l.prev[x]
  BY <1>4, <1>5, <1>6, <1>7, <1>9 DEF Links
<1>12. /\ next_free_block'[FakeHead] = s[1] /\ prev_free_block'[s[1]] = FakeHead
       /\ \A i \in 1 .. n - 1 : /\ next_free_block'[s[i]] = s[i + 1]
                                /\ prev_free_block'[s[i + 1]] = s[i]
  <2>1. FakeHead \in Nodes
    BY DEF Nodes
  <2>2. \A i \in 1 .. n - 1 : i \in 1 .. n /\ i + 1 \in 1 .. n /\ i # n
    BY <1>2
  <2> QED BY <1>2, <1>5, <1>7, <1>9, <1>11, <2>1, <2>2, SMTT(30)
<1>13. ASSUME NEW x \in Nodes, \A i \in 1 .. n : x # s[i]
       PROVE  /\ x # FakeHead => next_free_block'[x] = next_free_block[x]
              /\ x # first => prev_free_block'[x] = prev_free_block[x]
  BY <1>5, <1>9, <1>10, <1>11, <1>13
<1>14. /\ r \in Seq(AllBlocks) /\ Len(r) = n + Len(q)
       /\ \A i, j \in 1 .. Len(r) : r[i] = r[j] => i = j
       /\ \A k \in 0 .. n : At(r, k) = At(s, k)
       /\ \A k \in 1 .. Len(q) + 1 : At(r, n + k) = At(q, k)
       /\ \A b : (\A i \in 1 .. Len(r) : b # r[i]) =>
              (\A i \in 1 .. n : b # s[i]) /\ (\A i \in 1 .. Len(q) : b # q[i])
  <2>1. \A i \in 1 .. n, j \in 1 .. Len(q) : s[i] # q[j]
    <3>1. \A j \in 1 .. Len(q) : j \in 0 .. Len(q) + 1
      BY <1>1
    <3> QED BY <1>2, <1>3, <3>1
  <2> QED BY <1>1, <1>2, <2>1, JoinedLists DEF r, n
<1>15. At(r, 0) = FakeHead /\ \A k \in 1 .. n : At(r, k) = s[k]
  <2>1. 0 \in 0 .. n /\ \A k \in 1 .. n : k \in 0 .. n
    BY <1>2
  <2>2. At(s, 0) = FakeHead /\ \A k \in 1 .. n : At(s, k) = s[k]
    BY <1>2, Places DEF n
  <2> QED BY <1>14, <2>1, <2>2
<1>16. ASSUME NEW k \in 0 .. Len(r)
       PROVE  /\ next_free_block'[At(r, k)] = At(r, k + 1)
              /\ prev_free_block'[At(r, k + 1)] = At(r, k)
  <2>1. CASE k = 0
    BY <1>5, <1>12, <1>15, <2>1
  <2>2. CASE k \in 1 .. n - 1
    <3>1. k \in 1 .. n /\ k + 1 \in 1 .. n
      BY <1>2, <2>2
    <3> QED BY <1>12, <1>15, <2>2, <3>1
  <2>3. CASE k = n
    <3>1. 1 \in 1 .. Len(q) + 1
      BY <1>1
    <3>2. At(r, k) = s[n] /\ At(r, k + 1) = first
      BY <1>5, <1>6, <1>14, <1>15, <2>3, <3>1
    <3> QED BY <1>11, <3>2
  <2>4. CASE k > n
    <3> DEFINE j == k - n
    <3>1. /\ j \in 1 .. Len(q) /\ j \in 1 .. Len(q) + 1 /\ j + 1 \in 1 .. Len(q) + 1
          /\ j \in 0 .. Len(q) /\ j \in 0 .. Len(q) + 1 /\ j + 1 \in 0 .. Len(q) + 1
          /\ n + j = k /\ n + (j + 1) = k + 1 /\ 0 \in 0 .. Len(q) + 1 /\ j # 0 /\ j + 1 # 1
      BY <1>1, <1>2, <1>14, <2>4
    <3> HIDE DEF j
    <3>2. At(r, k) = At(q, j) /\ At(r, k + 1) = At(q, j + 1)
      BY <1>14, <3>1
    <3>3. At(q, j) \in Nodes /\ At(q, j + 1) \in Nodes /\ At(q, j) # FakeHead /\ At(q, j + 1) # first
      BY <1>3, <1>6, <3>1
    <3>4. /\ \A i \in 1 .. n : At(q, j) # s[i]
          /\ \A i \in 1 .. n : At(q, j + 1) # s[i]
      BY <1>2, <3>1
    <3>5. next_free_block[At(q, j)] = At(q, j + 1) /\ prev_free_block[At(q, j + 1)] = At(q, j)
      BY <3>1, ThreadsThen
    <3> QED BY <1>13, <3>2, <3>3, <3>4, <3>5
  <2>5. k = 0 \/ k \in 1 .. n - 1 \/ k = n \/ k > n
    BY <1>1, <1>2, <1>14
  <2> QED BY <2>1, <2>2, <2>3, <2>4, <2>5
<1>17. ASSUME NEW b \in AllBlocks, \A i \in 1 .. Len(r) : b # r[i]
       PROVE  next_free_block'[b] = None /\ prev_free_block'[b] = None
  <2>1. (\A i \in 1 .. n : b # s[i]) /\ (\A i \in 1 .. Len(q) : b # q[i])
    BY <1>14, <1>17
  <2>2. b \in Nodes /\ b # FakeHead /\ b # FakeTail
    BY Distinct DEF Nodes
  <2>3. b # first
    <3>1. 1 = Len(q) + 1 \/ 1 \in 1 .. Len(q)
      BY <1>1
    <3> QED BY <1>3, <1>6, <2>1, <2>2, <3>1
  <2>4. next_free_block[b] = None /\ prev_free_block[b] = None
    BY <2>1, ThreadsThen
  <2> QED BY <1>13, <2>1, <2>2, <2>3, <2>4
<1>18. Threads(r, next_free_block', prev_free_block')
  BY <1>11, <1>14, <1>16, <1>17, ThreadsIf
<1>19. num_free_blocks' = Len(r)
  BY <1>1, <1>2, <1>4, <1>14
<1> QED BY <1>18, <1>19 DEF ThreadsNow, r

LEMMA AppendThreads ==
  ASSUME NEW q, ThreadsNow(q), NEW s \in NewLists, AppendN(s)
  PROVE  ThreadsNow(q \o s)'
<1> DEFINE r == q \o s
           m == Len(q)
           n == Len(s)
           e == prev_free_block[FakeTail]
           l == LinkAfter(s, e)
<1>1. /\ q \in Seq(AllBlocks) /\ IsInjective(q) /\ m \in Nat
      /\ next_free_block \in Links /\ prev_free_block \in Links
      /\ \A i, j \in 1 .. m : q[i] = q[j] => i = j
  BY ThreadsThen
<1>2. /\ s \in Seq(AllBlocks) /\ IsInjective(s) /\ n \in Nat
      /\ \A i, j \in 1 .. n : s[i] = s[j] => i = j
      /\ \A i \in 1 .. n, j \in 0 .. m + 1 : s[i] # At(q, j)
  BY NewListFacts
<1>3. /\ \A i \in 0 .. m + 1 : At(q, i) \in Nodes
      /\ \A i \in 1 .. m : At(q, i) = q[i]
      /\ At(q, 0) = FakeHead /\ At(q, m + 1) = FakeTail
      /\ \A i, j \in 0 .. m + 1 : At(q, i) = At(q, j) => i = j
  BY <1>1, Places
<1>4. /\ s # <<>> /\ num_free_blocks' = m + n
      /\ next_free_block' = [l.next EXCEPT ![l.last] = FakeTail]
      /\ prev_free_block' = [l.prev EXCEPT ![FakeTail] = l.last]
  BY DEF AppendN, ThreadsNow
<1>5. n >= 1 /\ n \in 1 .. n /\ 1 \in 1 .. n
  <2>1. n # 0
    BY <1>2, <1>4
  <2> QED BY <1>2, <2>1
<1>6. e = At(q, m) /\ e \in Nodes /\ m \in 0 .. m + 1 /\ FakeTail \in Nodes
  <2>1. m \in 0 .. m /\ m \in 0 .. m + 1
    BY <1>1
  <2> QED BY <1>3, <2>1, ThreadsThen DEF Nodes
<1>7. \A i \in 1 .. n : s[i] # FakeTail /\ s[i] # e /\ s[i] \in Nodes /\ s[i] \in AllBlocks
  <2>1. m + 1 \in 0 .. m + 1
    BY <1>1
  <2> QED BY <1>2, <1>3, <1>6, <2>1 DEF Nodes
<1>8. LinkedSoFar(l, s, e, n)
  BY <1>1, <1>2, <1>6, <1>7, LinkAll
<1> HIDE DEF n, m, l, e, r
<1>9. /\ l \in State /\ l.next \in Links /\ l.prev \in Links /\ l.last = s[n]
      /\ l.next[e] = s[1] /\ l.prev[s[1]] = e
      /\ \A i \in 1 .. n - 1 : l.next[s[i]] = s[i + 1] /\ l.prev[s[i + 1]] = s[i]
      /\ \A x \in Nodes : (\A i \in 1 .. n : x # s[i]) => l.prev[x] = prev_free_block[x]
  <2>1. n > 0 /\ n # 0
    BY <1>2, <1>5
  <2>2. l \in State /\ l.next \in Links /\ l.prev \in Links
    BY <1>8 DEF LinkedSoFar, State
  <2> QED BY <1>8, <2>1, <2>2 DEF LinkedSoFar
<1>10. \A x \in Nodes : (\A i \in 1 .. n : x # s[i]) /\ x # e => l.next[x] = next_free_block[x]
  <2>1. \A i \in 1 .. n - 1 : i \in 1 .. n
    BY <1>2
  <2> QED BY <1>8, <2>1 DEF LinkedSoFar
<1>11. /\ next_free_block' \in Links /\ prev_free_block' \in Links
       /\ next_free_block'[s[n]] = FakeTail /\ prev_free_block'[FakeTail] = s[n]
       /\ \A x \in Nodes : x # s[n] => next_free_block'[x] = l.next[x]
       /\ \A x \in Nodes : x # FakeTail => prev_free_block'[x] = l.prev[x]
  BY <1>4, <1>5, <1>6, <1>7, <1>9 DEF Links
<1>12. /\ next_free_block'[e] = s[1] /\ prev_free_block'[s[1]] = e
       /\ \A i \in 1 .. n - 1 : /\ next_free_block'[s[i]] = s[i + 1]
                                /\ prev_free_block'[s[i + 1]] = s[i]
  <2>1. \A i \in 1 .. n - 1 : i \in 1 .. n /\ i + 1 \in 1 .. n /\ i # n
    BY <1>2
  <2> QED BY <1>2, <1>5, <1>6, <1>7, <1>9, <1>11, <2>1, ZenonT(60)
<1>13. ASSUME NEW x \in Nodes, \A i \in 1 .. n : x # s[i]
       PROVE  /\ x # e => next_free_block'[x] = next_free_block[x]
              /\ x # FakeTail => prev_free_block'[x] = prev_free_block[x]
  BY <1>5, <1>9, <1>10, <1>11, <1>13
<1>14. /\ r \in Seq(AllBlocks) /\ Len(r) = m + n
       /\ \A i, j \in 1 .. Len(r) : r[i] = r[j] => i = j
       /\ \A k \in 0 .. m : At(r, k) = At(q, k)
       /\ \A k \in 1 .. n + 1 : At(r, m + k) = At(s, k)
       /\ \A b : (\A i \in 1 .. Len(r) : b # r[i]) =>
              (\A i \in 1 .. m : b # q[i]) /\ (\A i \in 1 .. n : b # s[i])
  <2>1. \A i \in 1 .. m, j \in 1 .. n : q[i] # s[j]
    <3>1. \A j \in 1 .. m : j \in 0 .. m + 1
      BY <1>1
    <3> QED BY <1>2, <1>3, <3>1
  <2> QED BY <1>1, <1>2, <2>1, JoinedLists DEF r, n, m
<1>15. At(r, m + n + 1) = FakeTail /\ \A k \in 1 .. n : At(r, m + k) = s[k]
  <2>1. n + 1 \in 1 .. n + 1 /\ m + (n + 1) = m + n + 1 /\ \A k \in 1 .. n : k \in 1 .. n + 1
    BY <1>1, <1>2
  <2>2. At(s, n + 1) = FakeTail /\ \A k \in 1 .. n : At(s, k) = s[k]
    BY <1>2, Places DEF n
  <2> QED BY <1>14, <2>1, <2>2
<1>16. ASSUME NEW k \in 0 .. Len(r)
       PROVE  /\ next_free_block'[At(r, k)] = At(r, k + 1)
              /\ prev_free_block'[At(r, k + 1)] = At(r, k)
  <2>1. CASE k < m
    <3>1. /\ k \in 0 .. m /\ k + 1 \in 0 .. m /\ k \in 0 .. m + 1 /\ k + 1 \in 0 .. m + 1
          /\ m + 1 \in 0 .. m + 1 /\ k # m /\ k + 1 # m + 1
      BY <1>1, <1>14, <2>1
    <3>2. At(r, k) = At(q, k) /\ At(r, k + 1) = At(q, k + 1)
      BY <1>14, <3>1
    <3>3. At(q, k) \in Nodes /\ At(q, k + 1) \in Nodes /\ At(q, k) # e /\ At(q, k + 1) # FakeTail
      BY <1>3, <1>6, <3>1
    <3>4. /\ \A i \in 1 .. n : At(q, k) # s[i]
          /\ \A i \in 1 .. n : At(q, k + 1) # s[i]
      BY <1>2, <3>1
    <3>5. next_free_block[At(q, k)] = At(q, k + 1) /\ prev_free_block[At(q, k + 1)] = At(q, k)
      BY <3>1, ThreadsThen DEF m
    <3> QED BY <1>13, <3>2, <3>3, <3>4, <3>5
  <2>2. CASE k = m
    <3>1. m \in 0 .. m
      BY <1>1
    <3>2. At(r, k) = e /\ At(r, k + 1) = s[1]
      BY <1>5, <1>6, <1>14, <1>15, <2>2, <3>1
    <3> QED BY <1>12, <3>2
  <2>3. CASE k > m /\ k < m + n
    <3> DEFINE j == k - m
    <3>1. j \in 1 .. n - 1 /\ j \in 1 .. n /\ j + 1 \in 1 .. n /\ m + j = k /\ m + (j + 1) = k + 1
      BY <1>1, <1>2, <1>14, <2>3
    <3> HIDE DEF j
    <3>2. At(r, k) = s[j] /\ At(r, k + 1) = s[j + 1]
      BY <1>15, <3>1
    <3> QED BY <1>12, <3>1, <3>2
  <2>4. CASE k = m + n
    BY <1>5, <1>11, <1>15, <2>4
  <2>5. k < m \/ k = m \/ (k > m /\ k < m + n) \/ k = m + n
    BY <1>1, <1>2, <1>14
  <2> QED BY <2>1, <2>2, <2>3, <2>4, <2>5
<1>17. ASSUME NEW b \in AllBlocks, \A i \in 1 .. Len(r) : b # r[i]
       PROVE  next_free_block'[b] = None /\ prev_free_block'[b] = None
  <2>1. (\A i \in 1 .. n : b # s[i]) /\ (\A i \in 1 .. m : b # q[i])
    BY <1>14, <1>17
  <2>2. b \in Nodes /\ b # FakeHead /\ b # FakeTail
    BY Distinct DEF Nodes
  <2>3. b # e
    <3>1. m = 0 \/ m \in 1 .. m
      BY <1>1
    <3> QED BY <1>3, <1>6, <2>1, <2>2, <3>1
  <2>4. next_free_block[b] = None /\ prev_free_block[b] = None
    BY <2>1, ThreadsThen DEF m
  <2> QED BY <1>13, <2>1, <2>2, <2>3, <2>4
<1>18. Threads(r, next_free_block', prev_free_block')
  BY <1>11, <1>14, <1>16, <1>17, ThreadsIf
<1> QED BY <1>4, <1>14, <1>18 DEF ThreadsNow, r

-----------------------------------------------------------------------------
(* The theorems.                                                            *)

LEMMA InitThreads == Init => ThreadsNow([i \in AllBlocks |-> i])
<1> SUFFICES ASSUME Init PROVE ThreadsNow([i \in AllBlocks |-> i])
  OBVIOUS
<1> DEFINE q == [i \in AllBlocks |-> i]
<1>1. NumBlocks \in Nat /\ NumBlocks >= 1 /\ NumBlocks \in AllBlocks /\ 1 \in AllBlocks
  BY Distinct DEF AllBlocks
<1>2. q \in Seq(AllBlocks) /\ Len(q) = NumBlocks /\ \A i \in 1 .. NumBlocks : q[i] = i
  BY <1>1 DEF AllBlocks
<1> HIDE DEF q
<1>3. ASSUME NEW i \in 1 .. NumBlocks
      PROVE  /\ i \in AllBlocks /\ i \in Nodes /\ i # FakeHead /\ i # FakeTail
             /\ next_free_block[i] = IF i = NumBlocks THEN FakeTail ELSE i + 1
             /\ prev_free_block[i] = IF i = 1 THEN FakeHead ELSE i - 1
  <2>1. i \in AllBlocks /\ i \in Nodes /\ i # FakeHead /\ i # FakeTail
    BY Distinct DEF AllBlocks, Nodes
  <2>2. next_free_block[i] = CASE i = FakeHead -> 1
                               [] i = FakeTail -> None
                               [] i = NumBlocks -> FakeTail
                               [] OTHER -> i + 1
    BY <2>1 DEF Init
  <2>3. prev_free_block[i] = CASE i = FakeHead -> None
                               [] i = FakeTail -> NumBlocks
                               [] i = 1 -> FakeHead
                               [] OTHER -> i - 1
    BY <2>1 DEF Init
  <2> QED BY <2>1, <2>2, <2>3
<1>4. /\ next_free_block[FakeHead] = 1 /\ prev_free_block[FakeHead] = None
      /\ next_free_block[FakeTail] = None /\ prev_free_block[FakeTail] = NumBlocks
  <2>1. FakeHead \in Nodes /\ FakeTail \in Nodes /\ FakeHead # FakeTail
    BY Distinct DEF Nodes
  <2>2. /\ next_free_block[FakeHead] = CASE FakeHead = FakeHead -> 1
                                         [] FakeHead = FakeTail -> None
                                         [] FakeHead = NumBlocks -> FakeTail
                                         [] OTHER -> FakeHead + 1
        /\ prev_free_block[FakeHead] = CASE FakeHead = FakeHead -> None
                                         [] FakeHead = FakeTail -> NumBlocks
                                         [] FakeHead = 1 -> FakeHead
                                         [] OTHER -> FakeHead - 1
    BY <2>1 DEF Init
  <2>3. next_free_block[FakeTail] = CASE FakeTail = FakeHead -> 1
                                      [] FakeTail = FakeTail -> None
                                      [] FakeTail = NumBlocks -> FakeTail
                                      [] OTHER -> FakeTail + 1
    BY <2>1 DEF Init
  <2>4. prev_free_block[FakeTail] = CASE FakeTail = FakeHead -> None
                                      [] FakeTail = FakeTail -> NumBlocks
                                      [] FakeTail = 1 -> FakeHead
                                      [] OTHER -> FakeTail - 1
    BY <2>1 DEF Init
  <2>5. FakeTail # NumBlocks /\ FakeTail # 1 /\ FakeHead # NumBlocks /\ FakeHead # 1
    BY <1>1, Distinct
  <2> QED BY <2>1, <2>2, <2>3, <2>4, <2>5
<1>5. next_free_block \in Links /\ prev_free_block \in Links
  <2>1. ASSUME NEW x \in Nodes
        PROVE  next_free_block[x] \in Nodes \union {None} /\ prev_free_block[x] \in Nodes \union {None}
    <3>1. x = FakeHead \/ x = FakeTail \/ x \in 1 .. NumBlocks
      BY DEF Nodes, AllBlocks
    <3>2. CASE x \in 1 .. NumBlocks
      <4>1. /\ x # NumBlocks => x + 1 \in AllBlocks
            /\ x # 1 => x - 1 \in AllBlocks
        BY <1>1, <3>2 DEF AllBlocks
      <4> QED BY <1>3, <3>2, <4>1 DEF Nodes
    <3> QED BY <1>1, <1>4, <3>1, <3>2 DEF Nodes
  <2>2. /\ next_free_block = [x \in Nodes |-> next_free_block[x]]
        /\ prev_free_block = [x \in Nodes |-> prev_free_block[x]]
    BY DEF Init
  <2> QED BY <2>1, <2>2 DEF Links
<1>6. At(q, 0) = FakeHead /\ At(q, NumBlocks + 1) = FakeTail /\ \A i \in 1 .. NumBlocks : At(q, i) = i
  BY <1>1, <1>2 DEF At
<1>7. ASSUME NEW i \in 0 .. Len(q)
      PROVE  next_free_block[At(q, i)] = At(q, i + 1) /\ prev_free_block[At(q, i + 1)] = At(q, i)
  <2>1. CASE i = 0
    <3>1. 1 \in 1 .. NumBlocks /\ i + 1 = 1
      BY <1>1, <2>1
    <3>2. At(q, i) = FakeHead /\ At(q, i + 1) = 1
      BY <1>6, <2>1, <3>1
    <3> QED BY <1>3, <1>4, <3>1, <3>2
  <2>2. CASE i = NumBlocks
    <3>1. NumBlocks \in 1 .. NumBlocks
      BY <1>1
    <3> QED BY <1>3, <1>4, <1>6, <2>2, <3>1
  <2>3. CASE i # 0 /\ i # NumBlocks
    <3>1. i \in 1 .. NumBlocks /\ i + 1 \in 1 .. NumBlocks /\ i + 1 # 1 /\ i + 1 - 1 = i
      BY <1>1, <1>2, <2>3
    <3> QED BY <1>3, <1>6, <2>3, <3>1
  <2> QED BY <2>1, <2>2, <2>3
<1>8. \A b \in AllBlocks : ~ \A i \in 1 .. Len(q) : b # q[i]
  BY <1>2 DEF AllBlocks
<1>9. Threads(q, next_free_block, prev_free_block)
  BY <1>2, <1>5, <1>7, <1>8, ThreadsIf
<1> QED BY <1>2, <1>9 DEF ThreadsNow, q, Init

\* What each step of the code does to the list that the links thread.
LEMMA StepThreads ==
  ASSUME NEW q, ThreadsNow(q), Next
  PROVE  \/ \E n \in 0 .. NumBlocks : /\ n <= Len(q)
                                      /\ ThreadsNow(SubSeq(q, n + 1, Len(q)))'
         \/ \E b \in AllBlocks : \E i \in 1 .. Len(q) : q[i] = b /\ ThreadsNow(Without(q, i))'
         \/ \E s \in NewLists : ThreadsNow(s \o q)' \/ ThreadsNow(q \o s)'
<1>1. CASE \E n \in 1 .. NumBlocks : PopLeftN(n)
  <2>1. PICK n \in 1 .. NumBlocks : PopLeftN(n)
    BY <1>1
  <2>2. n \in 0 .. NumBlocks
    BY Distinct
  <2> QED BY <2>1, <2>2, PopThreads
<1>2. CASE \E b \in AllBlocks : RemoveBlock(b)
  BY <1>2, RemoveThreads
<1>3. CASE \E s \in NewLists : PrependN(s)
  BY <1>3, PrependThreads
<1>4. CASE \E s \in NewLists : AppendN(s)
  BY <1>4, AppendThreads
<1> QED BY <1>1, <1>2, <1>3, <1>4 DEF Next

\* The links thread some list all the time.
LEMMA Threaded == Spec => []IInv
<1>1. IInv <=> \E q : ThreadsNow(q)
  BY DEF IInv, ThreadsNow, Threads
<1>2. Init => IInv
  BY <1>1, InitThreads
<1>3. IInv /\ [Next]_vars => IInv'
  <2> SUFFICES ASSUME IInv, [Next]_vars PROVE IInv'
    OBVIOUS
  <2>1. PICK q : ThreadsNow(q)
    BY <1>1
  <2>2. \E r : ThreadsNow(r)'
    <3>1. CASE Next
      BY <2>1, <3>1, StepThreads
    <3>2. CASE UNCHANGED vars
      BY <2>1, <3>2 DEF vars, ThreadsNow
    <3> QED BY <3>1, <3>2
  <2> QED BY <2>2 DEF IInv, ThreadsNow, Threads
<1> QED BY <1>2, <1>3, PTL DEF Spec

\* For every number of blocks, the list is the same read from either end, the
\* counter is its length, and a block outside of it has no links
\* (FreeKVCacheBlockQueue: popleft and remove raise on a block without links).
THEOREM ListIsConsistent == Spec => []LinksConsistent
<1>1. IInv => LinksConsistent
  <2> SUFFICES ASSUME IInv PROVE LinksConsistent
    OBVIOUS
  <2>1. PICK q : ThreadsNow(q)
    BY DEF IInv, ThreadsNow
  <2>2. /\ GetAllFreeBlocks(next_free_block, FakeHead) = q
        /\ GetAllFreeBlocks(prev_free_block, FakeTail) = Backwards(q)
    BY <2>1, Reads DEF ThreadsNow
  <2>3. Listed = Range(q)
    BY <2>2 DEF Listed
  <2>4. num_free_blocks = Cardinality(Listed)
    BY <2>1, <2>3, Lengths DEF ThreadsNow, Threads
  <2>5. \A b \in AllBlocks \ Listed : prev_free_block[b] = None /\ next_free_block[b] = None
    BY <2>1, <2>3 DEF ThreadsNow, Threads
  <2> QED BY <2>2, <2>4, <2>5 DEF LinksConsistent
<1> QED BY <1>1, Threaded, PTL

\* For every number of blocks, the operations on the links are those on the
\* sequence that the docstrings of FreeKVCacheBlockQueue speak of.
THEOREM ListImplementsQueue == Spec => ImplementsQueue
<1> DEFINE queue == GetAllFreeBlocks(next_free_block, FakeHead)
<1>1. ASSUME NEW q, ThreadsNow(q) PROVE queue = q
  BY <1>1, Reads DEF ThreadsNow
<1>2. ASSUME NEW q, ThreadsNow(q)' PROVE queue' = q
  <2>1. Threads(q, next_free_block', prev_free_block')
    BY <1>2 DEF ThreadsNow
  <2> QED BY <2>1, Reads
<1>3. Init => Queue!Init
  <2> SUFFICES ASSUME Init PROVE queue = [i \in AllBlocks |-> i]
    BY DEF Queue!Init, Queue!AllBlocks, AllBlocks
  <2> QED BY <1>1, InitThreads
<1>4. IInv /\ [Next]_vars => [Queue!Next]_queue
  <2> SUFFICES ASSUME IInv, [Next]_vars PROVE Queue!Next \/ queue' = queue
    OBVIOUS
  <2>1. PICK q : ThreadsNow(q)
    BY DEF IInv, ThreadsNow
  <2>2. queue = q
    BY <1>1, <2>1
  <2>3. CASE UNCHANGED vars
    BY <2>3 DEF vars
  <2>4. CASE Next
    <3>0. Queue!AllBlocks = AllBlocks /\ Queue!NewLists = NewLists
      <4>1. \A B : Queue!Cardinality(B) = Cardinality(B)
        BY DEF Queue!Cardinality, Cardinality
      <4>2. \A S, B : Queue!Injection(S, B) = Injection(S, B)
        BY DEF Queue!Injection, Injection, Queue!IsInjective, IsInjective
      <4>3. Queue!AllBlocks = AllBlocks /\ Queue!Outside = AllBlocks \ Listed
        BY DEF Queue!AllBlocks, AllBlocks, Queue!Outside, Listed, Queue!Range, Range
      <4> QED BY <4>1, <4>2, <4>3 DEF Queue!NewLists, NewLists
    <3>1. CASE \E n \in 0 .. NumBlocks : n <= Len(q) /\ ThreadsNow(SubSeq(q, n + 1, Len(q)))'
      <4>1. PICK n \in 0 .. NumBlocks : n <= Len(q) /\ ThreadsNow(SubSeq(q, n + 1, Len(q)))'
        BY <3>1
      <4>2. Queue!PopLeftN(n)
        BY <1>2, <2>2, <4>1 DEF Queue!PopLeftN
      <4> QED BY <4>2 DEF Queue!Next
    <3>2. CASE \E b \in AllBlocks : \E i \in 1 .. Len(q) : q[i] = b /\ ThreadsNow(Without(q, i))'
      <4>1. PICK b \in AllBlocks, i \in 1 .. Len(q) : q[i] = b /\ ThreadsNow(Without(q, i))'
        BY <3>2
      <4>2. i \in DOMAIN q
        BY <2>1, ThreadsThen
      <4>3. Queue!RemoveBlock(b)
        BY <1>2, <2>2, <4>1, <4>2 DEF Queue!RemoveBlock, Without
      <4> QED BY <3>0, <4>3 DEF Queue!Next
    <3>3. CASE \E s \in NewLists : ThreadsNow(s \o q)' \/ ThreadsNow(q \o s)'
      <4>1. PICK s \in NewLists : ThreadsNow(s \o q)' \/ ThreadsNow(q \o s)'
        BY <3>3
      <4>2. Queue!PrependN(s) \/ Queue!AppendN(s)
        BY <1>2, <2>2, <4>1 DEF Queue!PrependN, Queue!AppendN
      <4> QED BY <3>0, <4>2 DEF Queue!Next
    <3> QED BY <2>1, <2>4, <3>1, <3>2, <3>3, StepThreads
  <2> QED BY <2>3, <2>4
<1>5. Spec => Queue!Spec
  BY <1>3, <1>4, Threaded, PTL DEF Spec, Queue!Spec
<1> QED BY <1>5 DEF ImplementsQueue

=============================================================================
