--------------------------- MODULE BlockPoolProofs ---------------------------
(***************************************************************************)
(* The guarantees of BlockPool, proved for every number of blocks, every    *)
(* set of hashes and every finite set of holders.                           *)
(***************************************************************************)
EXTENDS BlockPool, FiniteSetTheorems, TLAPS

-----------------------------------------------------------------------------
(* Sequences without repetition.                                            *)

\* The concatenation of two sequences without repetition and without a common
\* element has no repetition: prepend_n and append_n of freed blocks.
LEMMA ConcatInjective ==
    ASSUME NEW S, NEW s \in Seq(S), NEW t \in Seq(S),
           IsInjective(s), IsInjective(t), Range(s) \cap Range(t) = {}
    PROVE  /\ s \o t \in Seq(S)
           /\ IsInjective(s \o t)
           /\ Range(s \o t) = Range(s) \cup Range(t)
<1>1. /\ s \o t \in Seq(S)
      /\ DOMAIN (s \o t) = 1 .. Len(s) + Len(t)
      /\ \A i \in 1 .. Len(s) + Len(t) :
            (s \o t)[i] = IF i <= Len(s) THEN s[i] ELSE t[i - Len(s)]
  OBVIOUS
<1>2. DOMAIN s = 1 .. Len(s) /\ DOMAIN t = 1 .. Len(t) /\ Len(s) \in Nat /\ Len(t) \in Nat
  OBVIOUS
<1>3. ASSUME NEW i \in 1 .. Len(s) + Len(t), NEW j \in 1 .. Len(s) + Len(t),
             (s \o t)[i] = (s \o t)[j]
      PROVE  i = j
  <2>1. CASE i <= Len(s) /\ j <= Len(s)
    BY <1>1, <1>2, <1>3, <2>1 DEF IsInjective
  <2>2. CASE i > Len(s) /\ j > Len(s)
    <3>1. i - Len(s) \in 1 .. Len(t) /\ j - Len(s) \in 1 .. Len(t)
      BY <1>2, <2>2
    <3>2. t[i - Len(s)] = t[j - Len(s)]
      BY <1>1, <1>2, <1>3, <2>2
    <3>3. i - Len(s) = j - Len(s)
      BY <1>2, <3>1, <3>2 DEF IsInjective
    <3> QED BY <1>2, <3>3
  <2>3. CASE i <= Len(s) /\ j > Len(s)
    <3>1. i \in 1 .. Len(s) /\ j - Len(s) \in 1 .. Len(t)
      BY <1>2, <2>3
    <3>2. s[i] = t[j - Len(s)]
      BY <1>1, <1>2, <1>3, <2>3
    <3> QED BY <1>2, <3>1, <3>2 DEF Range
  <2>4. CASE i > Len(s) /\ j <= Len(s)
    <3>1. j \in 1 .. Len(s) /\ i - Len(s) \in 1 .. Len(t)
      BY <1>2, <2>4
    <3>2. s[j] = t[i - Len(s)]
      BY <1>1, <1>2, <1>3, <2>4
    <3> QED BY <1>2, <3>1, <3>2 DEF Range
  <2> QED BY <1>2, <2>1, <2>2, <2>3, <2>4
<1>4. Range(s \o t) = Range(s) \cup Range(t)
  <2>1. ASSUME NEW i \in 1 .. Len(s)
        PROVE  i \in 1 .. Len(s) + Len(t) /\ (s \o t)[i] = s[i]
    BY <1>1, <1>2
  <2>2. ASSUME NEW i \in 1 .. Len(t)
        PROVE  Len(s) + i \in 1 .. Len(s) + Len(t) /\ (s \o t)[Len(s) + i] = t[i]
    BY <1>1, <1>2
  <2>3. ASSUME NEW i \in 1 .. Len(s) + Len(t)
        PROVE  (s \o t)[i] \in Range(s) \cup Range(t)
    <3>1. CASE i <= Len(s)
      BY <1>1, <1>2, <3>1 DEF Range
    <3>2. CASE i > Len(s)
      <4>1. i - Len(s) \in 1 .. Len(t) /\ (s \o t)[i] = t[i - Len(s)]
        BY <1>1, <1>2, <3>2
      <4> QED BY <1>2, <4>1 DEF Range
    <3> QED BY <1>2, <3>1, <3>2
  <2>4. ASSUME NEW x \in Range(s) PROVE x \in Range(s \o t)
    <3>1. PICK i \in 1 .. Len(s) : x = s[i]
      BY <1>2 DEF Range
    <3> QED BY <1>1, <2>1, <3>1 DEF Range
  <2>5. ASSUME NEW x \in Range(t) PROVE x \in Range(s \o t)
    <3>1. PICK i \in 1 .. Len(t) : x = t[i]
      BY <1>2 DEF Range
    <3> QED BY <1>1, <2>2, <3>1 DEF Range
  <2>6. ASSUME NEW x \in Range(s \o t) PROVE x \in Range(s) \cup Range(t)
    <3>1. PICK i \in 1 .. Len(s) + Len(t) : x = (s \o t)[i]
      BY <1>1 DEF Range
    <3> QED BY <2>3, <3>1
  <2> QED BY <2>4, <2>5, <2>6
<1> QED BY <1>1, <1>3, <1>4 DEF IsInjective

\* Dropping the first n entries of a sequence without repetition leaves exactly
\* the other elements: popleft_n.
LEMMA DropInjective ==
    ASSUME NEW S, NEW q \in Seq(S), IsInjective(q), NEW n \in Nat, n <= Len(q)
    PROVE  /\ SubSeq(q, n + 1, Len(q)) \in Seq(S)
           /\ IsInjective(SubSeq(q, n + 1, Len(q)))
           /\ Range(SubSeq(q, n + 1, Len(q))) = Range(q) \ {q[i] : i \in 1 .. n}
<1> DEFINE r == SubSeq(q, n + 1, Len(q))
<1>1. /\ r \in Seq(S)
      /\ DOMAIN r = 1 .. Len(q) - n
      /\ \A i \in 1 .. Len(q) - n : r[i] = q[n + i]
  OBVIOUS
<1>2. DOMAIN q = 1 .. Len(q) /\ Len(q) \in Nat
  OBVIOUS
<1> HIDE DEF r
<1>3. IsInjective(r)
  <2>1. ASSUME NEW i \in 1 .. Len(q) - n, NEW j \in 1 .. Len(q) - n, r[i] = r[j]
        PROVE  i = j
    <3>1. n + i \in 1 .. Len(q) /\ n + j \in 1 .. Len(q)
      BY <1>2
    <3>2. q[n + i] = q[n + j]
      BY <1>1, <2>1
    <3>3. n + i = n + j
      BY <1>2, <3>1, <3>2 DEF IsInjective
    <3> QED BY <3>3
  <2> QED BY <1>1, <2>1 DEF IsInjective
<1>4. ASSUME NEW x \in Range(r) PROVE x \in Range(q) \ {q[i] : i \in 1 .. n}
  <2>1. PICK j \in 1 .. Len(q) - n : x = q[n + j]
    BY <1>1 DEF Range
  <2>2. n + j \in 1 .. Len(q) /\ n + j > n
    BY <1>2
  <2>3. ASSUME NEW i \in 1 .. n PROVE q[i] # q[n + j]
    <3>1. i \in 1 .. Len(q) /\ i # n + j
      BY <1>2, <2>2
    <3> QED BY <1>2, <2>2, <3>1 DEF IsInjective
  <2> QED BY <1>2, <2>1, <2>2, <2>3 DEF Range
<1>5. ASSUME NEW x \in Range(q), x \notin {q[i] : i \in 1 .. n} PROVE x \in Range(r)
  <2>1. PICK j \in 1 .. Len(q) : x = q[j]
    BY <1>2 DEF Range
  <2>2. j > n
    BY <1>2, <1>5, <2>1
  <2>3. j - n \in 1 .. Len(q) - n /\ r[j - n] = q[j]
    BY <1>1, <1>2, <2>2
  <2> QED BY <1>1, <2>1, <2>3 DEF Range
<1>6. Range(r) = Range(q) \ {q[i] : i \in 1 .. n}
  BY <1>4, <1>5
<1> QED BY <1>1, <1>3, <1>6 DEF r

\* Unlinking an element of a sequence without repetition leaves exactly the
\* others: FreeKVCacheBlockQueue.remove.
LEMMA QueueRemoveInjective ==
    ASSUME NEW S, NEW q \in Seq(S), IsInjective(q), NEW b \in Range(q)
    PROVE  /\ QueueRemove(q, b) \in Seq(S)
           /\ IsInjective(QueueRemove(q, b))
           /\ Range(QueueRemove(q, b)) = Range(q) \ {b}
<1> DEFINE i == CHOOSE j \in 1 .. Len(q) : q[j] = b
           u == SubSeq(q, 1, i - 1)
           v == SubSeq(q, i + 1, Len(q))
<1>1. DOMAIN q = 1 .. Len(q) /\ Len(q) \in Nat
  OBVIOUS
<1>2. i \in 1 .. Len(q) /\ q[i] = b
  BY <1>1 DEF Range
<1> HIDE DEF i
<1>3. /\ u \in Seq(S) /\ DOMAIN u = 1 .. i - 1
      /\ \A k \in 1 .. i - 1 : u[k] = q[k]
  BY <1>1, <1>2
<1>4. /\ v \in Seq(S) /\ DOMAIN v = 1 .. Len(q) - i
      /\ \A k \in 1 .. Len(q) - i : v[k] = q[i + k]
  BY <1>1, <1>2
<1> HIDE DEF u, v
<1>5. IsInjective(u)
  BY <1>1, <1>2, <1>3 DEF IsInjective
<1>6. IsInjective(v)
  <2>1. ASSUME NEW k \in 1 .. Len(q) - i, NEW m \in 1 .. Len(q) - i, v[k] = v[m]
        PROVE  k = m
    <3>1. i + k \in 1 .. Len(q) /\ i + m \in 1 .. Len(q) /\ q[i + k] = q[i + m]
      BY <1>1, <1>2, <1>4, <2>1
    <3>2. i + k = i + m
      BY <1>1, <3>1 DEF IsInjective
    <3> QED BY <1>2, <3>2
  <2> QED BY <1>4, <2>1 DEF IsInjective
<1>7. Range(u) = {q[k] : k \in 1 .. i - 1}
  BY <1>3 DEF Range
<1>8. Range(v) = {q[i + k] : k \in 1 .. Len(q) - i}
  BY <1>4 DEF Range
<1>9. Range(u) \cap Range(v) = {}
  <2>1. ASSUME NEW k \in 1 .. i - 1, NEW m \in 1 .. Len(q) - i PROVE q[k] # q[i + m]
    <3>1. k \in 1 .. Len(q) /\ i + m \in 1 .. Len(q) /\ k # i + m
      BY <1>1, <1>2
    <3> QED BY <1>1, <3>1 DEF IsInjective
  <2> QED BY <1>7, <1>8, <2>1
<1>10. Range(u) \cup Range(v) = Range(q) \ {b}
  <2>1. ASSUME NEW k \in 1 .. i - 1 PROVE q[k] \in Range(q) \ {b}
    <3>1. k \in 1 .. Len(q) /\ k # i
      BY <1>1, <1>2
    <3> QED BY <1>1, <1>2, <3>1 DEF IsInjective, Range
  <2>2. ASSUME NEW k \in 1 .. Len(q) - i PROVE q[i + k] \in Range(q) \ {b}
    <3>1. i + k \in 1 .. Len(q) /\ i + k # i
      BY <1>1, <1>2
    <3> QED BY <1>1, <1>2, <3>1 DEF IsInjective, Range
  <2>3. ASSUME NEW x \in Range(q) \ {b} PROVE x \in Range(u) \cup Range(v)
    <3>1. PICK k \in 1 .. Len(q) : x = q[k]
      BY <1>1 DEF Range
    <3>2. CASE k < i
      <4>1. k \in 1 .. i - 1
        BY <1>1, <1>2, <3>2
      <4> QED BY <1>7, <3>1, <4>1
    <3>3. CASE k > i
      <4>1. k - i \in 1 .. Len(q) - i /\ i + (k - i) = k
        BY <1>1, <1>2, <3>3
      <4> QED BY <1>8, <3>1, <4>1
    <3> QED BY <1>1, <1>2, <3>1, <3>2, <3>3
  <2> QED BY <1>7, <1>8, <2>1, <2>2, <2>3
<1>11. QueueRemove(q, b) = u \o v
  BY DEF QueueRemove, i, u, v
<1> QED BY <1>3, <1>4, <1>5, <1>6, <1>9, <1>10, <1>11, ConcatInjective

\* What a list of blocks to free looks like.
LEMMA InjSeqProperties ==
    ASSUME NEW S, NEW s \in InjSeq(S)
    PROVE  s \in Seq(S) /\ IsInjective(s) /\ Range(s) \subseteq S
<1>1. PICK n \in 0 .. Cardinality(S) : s \in [1 .. n -> S]
  BY DEF InjSeq
<1>2. s \in Seq(S)
  <2>1. CASE n \in Nat
    BY <1>1, <2>1
  <2>2. CASE n \notin Nat
    BY <1>1, <2>2
  <2> QED BY <2>1, <2>2
<1> QED BY <1>1, <1>2 DEF InjSeq, Range

-----------------------------------------------------------------------------
(* The inductive invariant.                                                 *)

\* A reader that unpinned a block is registered for its reuse.
ReadersWatch == \A b \in Blocks : reader[b] # "none" => reader[b] = "reading" /\ b \in watchers

IInv == TypeOK /\ RefCntExact /\ FreeExact /\ HashMapExact /\ ReadersWatch

USE NumBlocksAssumption, HashesAssumption, HashTokensAssumption, HoldersAssumption,
    EnableCachingAssumption

\* The tables after a step that adds G to those of c, takes F away, and may leave
\* c holding the null block, whose count means nothing (P).
HeldAfter(c, F, G, P) == [held EXCEPT ![c] = ((@ \ F) \cup G) \cup P]

\* The counts that go with it.
CountsAfter(F, G) == [b \in Blocks |-> IF b \in F THEN ref_cnt[b] - 1
                                       ELSE IF b \in G THEN ref_cnt[b] + 1
                                       ELSE ref_cnt[b]]

\* Reference counts of a step that adds holder c to the blocks of G and takes it
\* away from those of F, with ref_cnt moved accordingly.
LEMMA RefCntStep ==
    ASSUME TypeOK, RefCntExact, NEW c \in Holders,
           NEW G \in SUBSET Blocks, NEW F \in SUBSET Blocks,
           G \cap held[c] = {}, F \subseteq held[c],
           NEW P \in SUBSET {NullBlock},
           held' = HeldAfter(c, F, G, P), ref_cnt' = CountsAfter(F, G)
    PROVE  RefCntExact'
<1> USE DEF HeldAfter, CountsAfter
<1> SUFFICES ASSUME NEW b \in RealBlocks
             PROVE  ref_cnt'[b] = Cardinality(HoldersOf(b)')
  BY DEF RefCntExact
<1>1. b \in Blocks /\ b \notin P
  BY DEF RealBlocks
<1>2. ref_cnt[b] = Cardinality(HoldersOf(b)) /\ ref_cnt[b] \in Int
  BY <1>1 DEF RefCntExact, TypeOK
<1>3. IsFiniteSet(HoldersOf(b))
  BY FS_Subset DEF HoldersOf
<1>4. held \in [Holders -> SUBSET Blocks]
  BY DEF TypeOK
<1>5. CASE b \in F
  <2>1. HoldersOf(b)' = HoldersOf(b) \ {c}
    BY <1>1, <1>4, <1>5 DEF HoldersOf
  <2>2. c \in HoldersOf(b)
    BY <1>5 DEF HoldersOf
  <2>3. Cardinality(HoldersOf(b) \ {c}) = Cardinality(HoldersOf(b)) - 1
    BY <1>3, <2>2, FS_RemoveElement
  <2> QED BY <1>1, <1>2, <1>5, <2>1, <2>3
<1>6. CASE b \in G
  <2>1. HoldersOf(b)' = HoldersOf(b) \cup {c}
    BY <1>1, <1>4, <1>6 DEF HoldersOf
  <2>2. c \notin HoldersOf(b)
    BY <1>6 DEF HoldersOf
  <2>3. Cardinality(HoldersOf(b) \cup {c}) = Cardinality(HoldersOf(b)) + 1
    BY <1>3, <2>2, FS_AddElement
  <2> QED BY <1>1, <1>2, <1>6, <2>1, <2>3
<1>7. CASE b \notin F /\ b \notin G
  <2>1. HoldersOf(b)' = HoldersOf(b)
    BY <1>1, <1>4, <1>7 DEF HoldersOf
  <2> QED BY <1>1, <1>2, <1>7, <2>1
<1> QED BY <1>5, <1>6, <1>7

\* A block nobody holds has count 0, and conversely.
LEMMA UnheldCount ==
    ASSUME TypeOK, RefCntExact, NEW b \in RealBlocks
    PROVE  /\ ref_cnt[b] \in Nat
           /\ ref_cnt[b] = 0 <=> \A c \in Holders : b \notin held[c]
<1>1. IsFiniteSet(HoldersOf(b))
  BY FS_Subset DEF HoldersOf
<1>2. Cardinality(HoldersOf(b)) \in Nat /\ (Cardinality(HoldersOf(b)) = 0 <=> HoldersOf(b) = {})
  BY <1>1, FS_CardinalityType, FS_EmptySet
<1> QED BY <1>2 DEF RefCntExact, HoldersOf

LEMMA InitIInv == Init => IInv
<1> SUFFICES ASSUME Init PROVE IInv
  OBVIOUS
<1>1. TypeOK
  BY DEF Init, TypeOK, Blocks, RealBlocks, NullBlock
<1>2. RefCntExact
  <2>1. ASSUME NEW b \in RealBlocks PROVE HoldersOf(b) = {} /\ ref_cnt[b] = 0
    BY DEF Init, HoldersOf, RealBlocks
  <2> QED BY <2>1, FS_EmptySet DEF RefCntExact
<1>3. FreeExact
  <2>1. free_block_queue = [i \in 1 .. NumBlocks - 1 |-> i]
    BY DEF Init
  <2>2. Range(free_block_queue) = 1 .. NumBlocks - 1
    BY <2>1 DEF Range
  <2>3. RealBlocks = 1 .. NumBlocks - 1
    BY DEF RealBlocks, Blocks, NullBlock
  <2>4. \A b \in RealBlocks : ref_cnt[b] = 0
    BY DEF Init, RealBlocks
  <2> QED BY <2>1, <2>2, <2>3, <2>4 DEF FreeExact, IsInjective
<1>4. HashMapExact
  BY DEF Init, HashMapExact, HashesOf
<1>5. ReadersWatch
  BY DEF Init, ReadersWatch
<1> QED BY <1>1, <1>2, <1>3, <1>4, <1>5 DEF IInv

-----------------------------------------------------------------------------
(* The prefix-cache side of a step.                                         *)

\* The part of TypeOK about hashes.
HashTypeOK ==
    /\ block_hash \in [Blocks -> Hashes \cup {NoHash}]
    /\ extra_hashes \in [Blocks -> SUBSET Hashes]
    /\ cached \in [Hashes -> SUBSET RealBlocks]

\* _remove_cached_block_hashes of a set of blocks keeps map and blocks in step.
LEMMA RemoveHashesStep ==
    ASSUME HashTypeOK, HashMapExact, NEW B \in SUBSET Blocks, RemoveHashes(B)
    PROVE  HashTypeOK' /\ HashMapExact'
<1>1. HashTypeOK'
  BY DEF HashTypeOK, RemoveHashes
<1>2. ASSUME NEW h \in Hashes PROVE cached'[h] = {b \in Blocks : h \in HashesOf(b)'}
  BY <1>1 DEF HashTypeOK, HashMapExact, RemoveHashes, HashesOf
<1>3. ASSUME NEW b \in Blocks, block_hash'[b] = NoHash PROVE extra_hashes'[b] = {}
  BY <1>3 DEF HashMapExact, RemoveHashes
<1> QED BY <1>1, <1>2, <1>3 DEF HashMapExact

\* Replacing the keys of a block by one key keeps map and blocks in step.
LEMMA ReplaceHashesStep ==
    ASSUME HashTypeOK, HashMapExact, NEW b \in RealBlocks, NEW h \in Hashes,
           ReplaceHashes(b, h)
    PROVE  HashTypeOK' /\ HashMapExact'
<1>0. b \in Blocks
  BY DEF RealBlocks
<1>1. HashTypeOK'
  BY <1>0 DEF HashTypeOK, ReplaceHashes
<1>2. ASSUME NEW g \in Hashes PROVE cached'[g] = {x \in Blocks : g \in HashesOf(x)'}
  BY <1>0, <1>1 DEF HashTypeOK, HashMapExact, ReplaceHashes, HashesOf
<1>3. ASSUME NEW x \in Blocks, block_hash'[x] = NoHash PROVE extra_hashes'[x] = {}
  BY <1>0, <1>3 DEF HashTypeOK, HashMapExact, ReplaceHashes
<1> QED BY <1>1, <1>2, <1>3 DEF HashMapExact

\* Adding a key to a block keeps map and blocks in step.
LEMMA InsertHashStep ==
    ASSUME HashTypeOK, HashMapExact, NEW b \in RealBlocks, NEW h \in Hashes,
           InsertHash(b, h)
    PROVE  HashTypeOK' /\ HashMapExact'
<1>0. b \in Blocks
  BY DEF RealBlocks
<1>1. CASE block_hash[b] = h \/ b \in cached[h]
  BY <1>1 DEF HashTypeOK, HashMapExact, InsertHash, HashesOf
<1>2. CASE ~(block_hash[b] = h \/ b \in cached[h])
  <2>1. HashTypeOK'
    BY <1>0, <1>2 DEF HashTypeOK, InsertHash
  <2>2. ASSUME NEW g \in Hashes PROVE cached'[g] = {x \in Blocks : g \in HashesOf(x)'}
    BY <1>0, <1>2, <2>1 DEF HashTypeOK, HashMapExact, InsertHash, HashesOf
  <2>3. ASSUME NEW x \in Blocks, block_hash'[x] = NoHash PROVE extra_hashes'[x] = {}
    BY <1>0, <1>2, <2>3 DEF HashTypeOK, HashMapExact, InsertHash
  <2> QED BY <2>1, <2>2, <2>3 DEF HashMapExact
<1> QED BY <1>1, <1>2

\* Re-pointing the keys of one block to another keeps map and blocks in step.
LEMMA MoveHashesStep ==
    ASSUME HashTypeOK, HashMapExact, NEW src \in RealBlocks, NEW dst \in RealBlocks,
           MoveBlockHashes(src, dst)
    PROVE  HashTypeOK' /\ HashMapExact'
<1>0. src \in Blocks /\ dst \in Blocks
  BY DEF RealBlocks
<1>1. HashTypeOK'
  BY <1>0 DEF HashTypeOK, MoveBlockHashes
<1>2. ASSUME NEW g \in Hashes PROVE cached'[g] = {x \in Blocks : g \in HashesOf(x)'}
  <2>1. CASE src = dst
    BY <1>0, <1>1, <2>1 DEF HashTypeOK, HashMapExact, MoveBlockHashes, HashesOf
  <2>2. CASE src # dst
    <3>1. HashesOf(src)' = {} /\ HashesOf(dst)' = HashesOf(src) /\ HashesOf(dst) = {}
      BY <1>0, <2>2 DEF HashTypeOK, MoveBlockHashes, HashesOf
    <3>2. \A x \in Blocks \ {src, dst} : HashesOf(x)' = HashesOf(x)
      BY <1>0 DEF HashTypeOK, MoveBlockHashes, HashesOf
    <3>3. cached[g] = {x \in Blocks : g \in HashesOf(x)}
      BY DEF HashMapExact
    <3>4. cached'[g] = IF g \in HashesOf(src) THEN (cached[g] \ {src}) \cup {dst} ELSE cached[g]
      BY DEF MoveBlockHashes
    <3> QED BY <1>0, <2>2, <3>1, <3>2, <3>3, <3>4
  <2> QED BY <2>1, <2>2
<1>3. ASSUME NEW x \in Blocks, block_hash'[x] = NoHash PROVE extra_hashes'[x] = {}
  BY <1>0, <1>3 DEF HashTypeOK, HashMapExact, MoveBlockHashes
<1> QED BY <1>1, <1>2, <1>3 DEF HashMapExact

\* A step that leaves the keys alone leaves map and blocks in step.
LEMMA SameHashesStep ==
    ASSUME HashTypeOK, HashMapExact, UNCHANGED <<block_hash, extra_hashes, cached>>
    PROVE  HashTypeOK' /\ HashMapExact'
BY DEF HashTypeOK, HashMapExact, HashesOf

-----------------------------------------------------------------------------
(* Each operation preserves the invariant.                                  *)

LEMMA GetNewBlocksStep ==
    ASSUME IInv, NEW c \in Holders, NEW n \in Nat, GetNewBlocks(c, n)
    PROVE  IInv'
<1> DEFINE got == {free_block_queue[i] : i \in 1 .. n}
<1> USE DEF IInv
<1>1. /\ SubSeq(free_block_queue, n + 1, Len(free_block_queue)) \in Seq(RealBlocks)
      /\ IsInjective(free_block_queue')
      /\ Range(free_block_queue') = Range(free_block_queue) \ got
  BY DropInjective DEF TypeOK, FreeExact, GetNewBlocks
<1>2. got \subseteq Range(free_block_queue)
  <2>1. \A i \in 1 .. n : i \in DOMAIN free_block_queue
    BY DEF GetNewBlocks, TypeOK
  <2> QED BY <2>1 DEF Range
<1>3. got \subseteq RealBlocks /\ got \subseteq Blocks
  BY <1>2 DEF FreeExact, RealBlocks
<1>4. /\ free_block_queue' = SubSeq(free_block_queue, n + 1, Len(free_block_queue))
      /\ watchers' = watchers \ got
      /\ reader' = [b \in Blocks |->
                    IF b \notin got \/ reader[b] = "none" THEN reader[b]
                    ELSE IF b \in watchers THEN "none" ELSE "overwritten"]
      /\ IF EnableCaching THEN RemoveHashes(got) ELSE UNCHANGED hashVars
      /\ ref_cnt' = [b \in Blocks |-> IF b \in got THEN ref_cnt[b] + 1 ELSE ref_cnt[b]]
      /\ held' = [held EXCEPT ![c] = @ \cup got]
  BY DEF GetNewBlocks
<1>5. \A b \in got : ref_cnt[b] = 0
  BY <1>2 DEF FreeExact
<1> HIDE DEF got
<1>6. HashTypeOK' /\ HashMapExact'
  <2>1. HashTypeOK
    BY DEF HashTypeOK, TypeOK
  <2>2. CASE EnableCaching
    BY <1>3, <1>4, <2>1, <2>2, RemoveHashesStep
  <2>3. CASE ~EnableCaching
    BY <1>4, <2>1, <2>3, SameHashesStep DEF hashVars
  <2> QED BY <2>2, <2>3
<1>7. TypeOK'
  BY <1>1, <1>3, <1>4, <1>6 DEF TypeOK, HashTypeOK
<1>8. RefCntExact'
  <2>1. got \cap held[c] = {}
    <3>1. \A b \in got : \A d \in Holders : b \notin held[d]
      BY <1>3, <1>5, UnheldCount
    <3> QED BY <3>1
  <2> DEFINE F == {}
             P == {}
  <2>2. held' = HeldAfter(c, F, got, P)
    BY <1>4 DEF TypeOK, HeldAfter
  <2>3. ref_cnt' = CountsAfter(F, got)
    BY <1>4 DEF CountsAfter
  <2>4. /\ got \in SUBSET Blocks /\ F \in SUBSET Blocks
        /\ F \subseteq held[c] /\ P \in SUBSET {NullBlock}
    BY <1>3
  <2> HIDE DEF F, P
  <2> QED BY <2>1, <2>2, <2>3, <2>4, RefCntStep
<1>9. FreeExact'
  <2>1. \A b \in RealBlocks : b \in Blocks /\ ref_cnt[b] \in Int
    BY DEF RealBlocks, TypeOK
  <2>2. \A b \in RealBlocks : ref_cnt'[b] = 0 <=> ref_cnt[b] = 0 /\ b \notin got
    BY <1>4, <1>5, <2>1
  <2> QED BY <1>1, <2>2 DEF FreeExact
<1>10. ReadersWatch'
  BY <1>4 DEF ReadersWatch
<1> QED BY <1>6, <1>7, <1>8, <1>9, <1>10

LEMMA TouchStep ==
    ASSUME IInv, NEW c \in Holders, NEW b \in Blocks, Touch(c, b)
    PROVE  IInv'
<1> USE DEF IInv
<1>1. /\ b \notin held[c]
      /\ ref_cnt' = [ref_cnt EXCEPT ![b] = @ + 1]
      /\ held' = [held EXCEPT ![c] = @ \cup {b}]
      /\ UNCHANGED <<block_hash, extra_hashes, cached, watchers, reader>>
      /\ free_block_queue' = IF ref_cnt[b] = 0 /\ b # NullBlock
                             THEN QueueRemove(free_block_queue, b)
                             ELSE free_block_queue
  BY DEF Touch
<1>2. HashTypeOK' /\ HashMapExact'
  BY <1>1, SameHashesStep DEF TypeOK, HashTypeOK
<1>3. RefCntExact'
  <2> DEFINE F == {}
             G == {b}
             P == {}
  <2>1. held' = HeldAfter(c, F, G, P)
    BY <1>1 DEF TypeOK, HeldAfter
  <2>2. ref_cnt' = CountsAfter(F, G)
    BY <1>1 DEF TypeOK, CountsAfter
  <2>3. /\ G \in SUBSET Blocks /\ G \cap held[c] = {}
        /\ F \in SUBSET Blocks /\ F \subseteq held[c] /\ P \in SUBSET {NullBlock}
    BY <1>1
  <2> HIDE DEF F, G, P
  <2> QED BY <2>1, <2>2, <2>3, RefCntStep
<1>4. free_block_queue' \in Seq(RealBlocks) /\ FreeExact'
  <2>1. \A x \in RealBlocks : x \in Blocks /\ ref_cnt[x] \in Nat
    BY UnheldCount DEF RealBlocks
  <2>2. \A x \in RealBlocks : ref_cnt'[x] = 0 <=> ref_cnt[x] = 0 /\ x # b
    BY <1>1, <2>1 DEF TypeOK
  <2>3. CASE ref_cnt[b] = 0 /\ b # NullBlock
    <3>1. b \in Range(free_block_queue)
      BY <2>3 DEF FreeExact, RealBlocks
    <3>2. /\ free_block_queue' \in Seq(RealBlocks)
          /\ IsInjective(free_block_queue')
          /\ Range(free_block_queue') = Range(free_block_queue) \ {b}
      BY <1>1, <2>3, <3>1, QueueRemoveInjective DEF TypeOK, FreeExact
    <3> QED BY <2>2, <3>2 DEF FreeExact
  <2>4. CASE ~(ref_cnt[b] = 0 /\ b # NullBlock)
    <3>1. free_block_queue' = free_block_queue
      BY <1>1, <2>4
    <3>2. \A x \in RealBlocks : ref_cnt'[x] = 0 <=> ref_cnt[x] = 0
      BY <2>2, <2>4 DEF RealBlocks
    <3> QED BY <3>1, <3>2 DEF FreeExact, TypeOK
  <2> QED BY <2>3, <2>4
<1>5. TypeOK'
  BY <1>1, <1>2, <1>4 DEF TypeOK, HashTypeOK
<1>6. ReadersWatch'
  BY <1>1 DEF ReadersWatch
<1> QED BY <1>2, <1>3, <1>4, <1>5, <1>6

LEMMA FreeBlocksStep ==
    ASSUME IInv, NEW c \in Holders,
           NEW first \in InjSeq({b \in held[c] : EvictFirst(b)}),
           NEW last \in InjSeq({b \in held[c] : EvictLast(b)}),
           NEW shared \in SUBSET {b \in held[c] : ~LastReference(b)},
           NEW placeholder \in BOOLEAN,
           FreeBlocks(c, first, last, shared, placeholder)
    PROVE  IInv'
<1> DEFINE freed == Range(first) \cup Range(last) \cup shared
           P == IF placeholder THEN {NullBlock} ELSE {}
<1> USE DEF IInv
<1>1. /\ free_block_queue' = first \o free_block_queue \o last
      /\ ref_cnt' = [b \in Blocks |-> IF b \in freed THEN ref_cnt[b] - 1 ELSE ref_cnt[b]]
      /\ held' = [held EXCEPT ![c] = (@ \ freed) \cup P]
      /\ UNCHANGED <<block_hash, extra_hashes, cached, watchers, reader>>
  BY DEF FreeBlocks
<1>2. /\ first \in Seq({b \in held[c] : EvictFirst(b)}) /\ IsInjective(first)
      /\ Range(first) \subseteq {b \in held[c] : EvictFirst(b)}
      /\ last \in Seq({b \in held[c] : EvictLast(b)}) /\ IsInjective(last)
      /\ Range(last) \subseteq {b \in held[c] : EvictLast(b)}
  BY InjSeqProperties
<1>3. held[c] \subseteq Blocks
  BY DEF TypeOK
<1>4. /\ {b \in held[c] : EvictFirst(b)} \subseteq RealBlocks
      /\ {b \in held[c] : EvictLast(b)} \subseteq RealBlocks
  BY <1>3 DEF EvictFirst, EvictLast, LastReference, RealBlocks
<1>5. first \in Seq(RealBlocks) /\ last \in Seq(RealBlocks)
  BY <1>2, <1>4
<1>6. /\ \A b \in Range(first) : b \in RealBlocks /\ ref_cnt[b] = 1 /\ ~EvictLast(b)
      /\ \A b \in Range(last) : b \in RealBlocks /\ ref_cnt[b] = 1 /\ EvictLast(b)
      /\ \A b \in shared : b = NullBlock \/ ref_cnt[b] # 1
  BY <1>2, <1>4 DEF EvictFirst, EvictLast, LastReference
<1>7. freed \subseteq held[c]
  BY <1>2
<1>8. /\ Range(first) \cap Range(free_block_queue) = {}
      /\ Range(last) \cap Range(free_block_queue) = {}
      /\ Range(first) \cap Range(last) = {}
  BY <1>6 DEF FreeExact
<1>9. /\ free_block_queue' \in Seq(RealBlocks)
      /\ IsInjective(free_block_queue')
      /\ Range(free_block_queue') = Range(first) \cup Range(free_block_queue) \cup Range(last)
  <2>1. free_block_queue \in Seq(RealBlocks) /\ IsInjective(free_block_queue)
    BY DEF TypeOK, FreeExact
  <2>2. /\ first \o free_block_queue \in Seq(RealBlocks)
        /\ IsInjective(first \o free_block_queue)
        /\ Range(first \o free_block_queue) = Range(first) \cup Range(free_block_queue)
    BY <1>2, <1>5, <1>8, <2>1, ConcatInjective
  <2> DEFINE mid == first \o free_block_queue
  <2>3. Range(mid) \cap Range(last) = {}
    BY <1>8, <2>2
  <2>4. mid \in Seq(RealBlocks) /\ IsInjective(mid) /\ free_block_queue' = mid \o last
    BY <1>1, <2>2
  <2> HIDE DEF mid
  <2>5. /\ mid \o last \in Seq(RealBlocks)
        /\ IsInjective(mid \o last)
        /\ Range(mid \o last) = Range(mid) \cup Range(last)
    BY <1>2, <1>5, <2>3, <2>4, ConcatInjective
  <2> QED BY <2>2, <2>4, <2>5 DEF mid
<1> HIDE DEF freed, P
<1>10. HashTypeOK' /\ HashMapExact'
  BY <1>1, SameHashesStep DEF TypeOK, HashTypeOK
<1>11. P \in SUBSET {NullBlock} /\ NullBlock \in Blocks
  BY DEF P, NullBlock, Blocks
<1>12. TypeOK'
  <2>1. held' \in [Holders -> SUBSET Blocks]
    BY <1>1, <1>11 DEF TypeOK
  <2> QED BY <1>1, <1>9, <1>10, <2>1 DEF TypeOK, HashTypeOK
<1>13. RefCntExact'
  <2> DEFINE G == {}
  <2>1. held' = HeldAfter(c, freed, G, P)
    BY <1>1 DEF TypeOK, HeldAfter
  <2>2. ref_cnt' = CountsAfter(freed, G)
    BY <1>1 DEF CountsAfter
  <2>3. freed \in SUBSET Blocks /\ G \in SUBSET Blocks /\ G \cap held[c] = {}
    BY <1>3, <1>7
  <2> HIDE DEF G
  <2> QED BY <1>7, <1>11, <2>1, <2>2, <2>3, RefCntStep
<1>14. FreeExact'
  <2>1. \A b \in RealBlocks : b \in Blocks /\ b # NullBlock /\ ref_cnt[b] \in Nat
    BY UnheldCount DEF RealBlocks
  <2>2. \A b \in RealBlocks : b \in held[c] => ref_cnt[b] # 0
    BY UnheldCount
  <2>3. ASSUME NEW b \in RealBlocks
        PROVE  ref_cnt'[b] = 0 <=> ref_cnt[b] = 0 \/ b \in Range(first) \cup Range(last)
    <3>1. CASE b \in freed
      <4>1. ref_cnt'[b] = ref_cnt[b] - 1 /\ ref_cnt[b] \in Nat /\ ref_cnt[b] # 0
        BY <1>1, <1>7, <2>1, <2>2, <3>1
      <4>2. ref_cnt[b] = 1 <=> b \in Range(first) \cup Range(last)
        BY <1>6, <2>1, <3>1 DEF freed
      <4> QED BY <4>1, <4>2
    <3>2. CASE b \notin freed
      BY <1>1, <2>1, <3>2 DEF freed
    <3> QED BY <3>1, <3>2
  <2>4. Range(first) \cup Range(last) \subseteq RealBlocks
    BY <1>6
  <2> QED BY <1>9, <2>3, <2>4 DEF FreeExact
<1>15. ReadersWatch'
  BY <1>1 DEF ReadersWatch
<1> QED BY <1>10, <1>12, <1>13, <1>14, <1>15

LEMMA UnpinBlockStep ==
    ASSUME IInv, NEW c \in Holders, NEW b \in held[c], UnpinBlock(c, b)
    PROVE  IInv'
<1> USE DEF IInv
<1>1. /\ b \in RealBlocks
      /\ ref_cnt' = [ref_cnt EXCEPT ![b] = @ - 1]
      /\ watchers' = watchers \cup {b}
      /\ reader' = [reader EXCEPT ![b] = "reading"]
      /\ free_block_queue' = IF ref_cnt[b] = 1 THEN Append(free_block_queue, b)
                                               ELSE free_block_queue
      /\ held' = [held EXCEPT ![c] = @ \ {b}]
      /\ UNCHANGED <<block_hash, extra_hashes, cached>>
  BY DEF UnpinBlock, TypeOK, RealBlocks, hashVars
<1>2. HashTypeOK' /\ HashMapExact'
  BY <1>1, SameHashesStep DEF TypeOK, HashTypeOK
<1>3. RefCntExact'
  <2> DEFINE F == {b}
             G == {}
             P == {}
  <2>1. held' = HeldAfter(c, F, G, P)
    BY <1>1 DEF TypeOK, HeldAfter
  <2>2. ref_cnt' = CountsAfter(F, G)
    BY <1>1 DEF TypeOK, CountsAfter
  <2>3. /\ F \in SUBSET Blocks /\ F \subseteq held[c]
        /\ G \in SUBSET Blocks /\ P \in SUBSET {NullBlock} /\ G \cap held[c] = {}
    BY <1>1 DEF RealBlocks
  <2> HIDE DEF F, G, P
  <2> QED BY <2>1, <2>2, <2>3, RefCntStep
<1>4. free_block_queue' \in Seq(RealBlocks) /\ FreeExact'
  <2>1. \A x \in RealBlocks : x \in Blocks /\ ref_cnt[x] \in Nat
    BY UnheldCount DEF RealBlocks
  <2>2. ref_cnt[b] \in Nat \ {0}
    BY <1>1, UnheldCount
  <2>3. \A x \in RealBlocks : ref_cnt'[x] = 0 <=> ref_cnt[x] = 0 \/ (x = b /\ ref_cnt[b] = 1)
    BY <1>1, <2>1, <2>2 DEF TypeOK
  <2>4. CASE ref_cnt[b] = 1
    <3> DEFINE one == <<b>>
    <3>1. free_block_queue' = free_block_queue \o one
      BY <1>1, <2>4 DEF TypeOK
    <3>2. one \in Seq(RealBlocks) /\ IsInjective(one) /\ Range(one) = {b}
      BY <1>1 DEF IsInjective, Range
    <3>3. Range(free_block_queue) \cap Range(one) = {}
      BY <2>4, <3>2 DEF FreeExact
    <3> HIDE DEF one
    <3>4. free_block_queue \in Seq(RealBlocks) /\ IsInjective(free_block_queue)
      BY DEF TypeOK, FreeExact
    <3>5. /\ free_block_queue \o one \in Seq(RealBlocks)
          /\ IsInjective(free_block_queue \o one)
          /\ Range(free_block_queue \o one) = Range(free_block_queue) \cup Range(one)
      BY <3>2, <3>3, <3>4, ConcatInjective
    <3>6. /\ free_block_queue' \in Seq(RealBlocks)
          /\ IsInjective(free_block_queue')
          /\ Range(free_block_queue') = Range(free_block_queue) \cup {b}
      BY <3>1, <3>2, <3>5
    <3> QED BY <1>1, <2>3, <2>4, <3>6 DEF FreeExact
  <2>5. CASE ref_cnt[b] # 1
    BY <1>1, <2>3, <2>5 DEF FreeExact, TypeOK
  <2> QED BY <2>4, <2>5
<1>5. TypeOK'
  BY <1>1, <1>2, <1>4 DEF TypeOK, HashTypeOK
<1>6. ReadersWatch'
  BY <1>1 DEF ReadersWatch, TypeOK
<1> QED BY <1>2, <1>3, <1>4, <1>5, <1>6

\* A step that only moves keys preserves the rest of the invariant.
LEMMA HashOnlyStep ==
    ASSUME IInv, UNCHANGED <<free_block_queue, ref_cnt, watchers, reader, held>>,
           HashTypeOK', HashMapExact'
    PROVE  IInv'
<1>1. TypeOK'
  BY DEF IInv, TypeOK, HashTypeOK
<1>2. RefCntExact' /\ FreeExact' /\ ReadersWatch'
  BY DEF IInv, RefCntExact, FreeExact, ReadersWatch, HoldersOf
<1> QED BY <1>1, <1>2 DEF IInv

\* Every step of the pool preserves the invariant.
LEMMA NextIInv == IInv /\ [Next]_poolVars => IInv'
<1> SUFFICES ASSUME IInv, [Next]_poolVars PROVE IInv'
  OBVIOUS
<1>0. HashTypeOK /\ HashMapExact
  BY DEF IInv, TypeOK, HashTypeOK
<1>1. ASSUME NEW c \in Holders, NEW n \in 1 .. NumBlocks, GetNewBlocks(c, n) PROVE IInv'
  BY <1>1, GetNewBlocksStep
<1>2. ASSUME NEW c \in Holders, NEW h \in Hashes, TouchCached(c, h) PROVE IInv'
  <2>1. PICK b \in cached[h] : Touch(c, b)
    BY <1>2 DEF TouchCached
  <2>2. b \in Blocks
    BY <1>0 DEF HashTypeOK, RealBlocks
  <2> QED BY <1>2, <2>1, <2>2, TouchStep
<1>3. ASSUME NEW c \in Holders, TouchNull(c) PROVE IInv'
  <2>1. NullBlock \in Blocks
    BY DEF NullBlock, Blocks
  <2> QED BY <1>3, <2>1, TouchStep DEF TouchNull
<1>4. ASSUME NEW c \in Holders,
             NEW first \in InjSeq({b \in held[c] : EvictFirst(b)}),
             NEW last \in InjSeq({b \in held[c] : EvictLast(b)}),
             NEW shared \in SUBSET {b \in held[c] : ~LastReference(b)},
             NEW placeholder \in BOOLEAN,
             FreeBlocks(c, first, last, shared, placeholder)
      PROVE  IInv'
  BY <1>4, FreeBlocksStep
<1>5. ASSUME NEW c \in Holders, NEW h \in Hashes, NEW b \in held[c], CacheFullBlock(c, b, h)
      PROVE  IInv'
  <2>1. b \in RealBlocks
    BY <1>5 DEF CacheFullBlock, IInv, TypeOK, RealBlocks
  <2>2. HashTypeOK' /\ HashMapExact'
    BY <1>0, <1>5, <2>1, ReplaceHashesStep DEF CacheFullBlock
  <2> QED BY <1>5, <2>2, HashOnlyStep DEF CacheFullBlock
<1>6. ASSUME NEW c \in Holders, NEW h \in Hashes, NEW replace \in BOOLEAN, NEW b \in held[c],
             CachePartialBlock(c, b, h, replace)
      PROVE  IInv'
  <2>1. b \in RealBlocks
    BY <1>6 DEF CachePartialBlock, IInv, TypeOK, RealBlocks
  <2>2. ReplaceHashes(b, h) \/ InsertHash(b, h)
    BY <1>6 DEF CachePartialBlock
  <2>3. HashTypeOK' /\ HashMapExact'
    BY <1>0, <2>1, <2>2, ReplaceHashesStep, InsertHashStep
  <2> QED BY <1>6, <2>3, HashOnlyStep DEF CachePartialBlock
<1>7. ASSUME NEW src \in (UNION {held[c] : c \in Holders}) \ {NullBlock},
             NEW dst \in (UNION {held[c] : c \in Holders}) \ {NullBlock},
             MoveBlockHashes(src, dst)
      PROVE  IInv'
  <2>1. src \in RealBlocks /\ dst \in RealBlocks
    BY DEF IInv, TypeOK, RealBlocks
  <2>2. HashTypeOK' /\ HashMapExact'
    BY <1>0, <1>7, <2>1, MoveHashesStep
  <2> QED BY <1>7, <2>2, HashOnlyStep DEF MoveBlockHashes
<1>8. ASSUME NEW c \in Holders, NEW b \in held[c], UnpinBlock(c, b) PROVE IInv'
  BY <1>8, UnpinBlockStep
<1>9. ASSUME NEW B \in SUBSET Blocks, EvictBlocks(B) PROVE IInv'
  <2>1. HashTypeOK' /\ HashMapExact'
    BY <1>0, <1>9, RemoveHashesStep DEF EvictBlocks
  <2> QED BY <1>9, <2>1, HashOnlyStep DEF EvictBlocks
<1>10. ASSUME ResetPrefixCache PROVE IInv'
  <2>1. HashTypeOK' /\ HashMapExact'
    BY <1>10 DEF ResetPrefixCache, HashTypeOK, HashMapExact, HashesOf
  <2>2. TypeOK'
    BY <1>10, <2>1 DEF ResetPrefixCache, IInv, TypeOK, HashTypeOK
  <2>3. RefCntExact' /\ FreeExact'
    BY <1>10 DEF ResetPrefixCache, IInv, RefCntExact, FreeExact, HoldersOf
  <2>4. ReadersWatch'
    BY <1>10 DEF ResetPrefixCache, IInv, ReadersWatch
  <2> QED BY <2>1, <2>2, <2>3, <2>4 DEF IInv
<1>11. CASE UNCHANGED poolVars
  <2>1. HashTypeOK' /\ HashMapExact'
    BY <1>0, <1>11, SameHashesStep DEF poolVars
  <2> QED BY <1>11, <2>1, HashOnlyStep DEF poolVars
<1> QED BY <1>1, <1>2, <1>3, <1>4, <1>5, <1>6, <1>7, <1>8, <1>9, <1>10, <1>11 DEF Next

-----------------------------------------------------------------------------
(* The theorems.                                                            *)

\* The state of block_pool.py's BlockPool keeps its types.
THEOREM TypeCorrect == Spec => []TypeOK
<1>1. IInv => TypeOK
  BY DEF IInv
<1> QED BY <1>1, InitIInv, NextIInv, PTL DEF Spec

\* The reference counts of touch, get_new_blocks, free_blocks and unpin_blocks
\* are exact: a block is neither leaked nor freed twice.
THEOREM RefCntCorrect == Spec => []RefCntExact
<1>1. IInv => RefCntExact
  BY DEF IInv
<1> QED BY <1>1, InitIInv, NextIInv, PTL DEF Spec

\* The free queue holds exactly the unreferenced blocks, each once: what
\* get_new_blocks hands out is referenced by nobody.
THEOREM FreeQueueCorrect == Spec => []FreeExact
<1>1. IInv => FreeExact
  BY DEF IInv
<1> QED BY <1>1, InitIInv, NextIInv, PTL DEF Spec

\* The prefix-cache map leads to a block exactly by the keys the block carries.
THEOREM HashMapCorrect == Spec => []HashMapExact
<1>1. IInv => HashMapExact
  BY DEF IInv
<1> QED BY <1>1, InitIInv, NextIInv, PTL DEF Spec

\* unpin_blocks readers are told before their block is handed out.
THEOREM ReadersCorrect == Spec => []NoStaleReader
<1>1. IInv => NoStaleReader
  BY DEF IInv, ReadersWatch, NoStaleReader
<1> QED BY <1>1, InitIInv, NextIInv, PTL DEF Spec
=============================================================================
