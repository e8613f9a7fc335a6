--------------------------- MODULE KVCacheManager ---------------------------
(***************************************************************************)
(* The block tables of requests and the prefix cache, as the scheduler     *)
(* uses them: KVCacheManager (vllm/v1/core/kv_cache_manager.py) over one    *)
(* full-attention group (FullAttentionManager, UnitaryKVCacheCoordinator).  *)
(*                                                                         *)
(* The pool's reference counts and hash map are not repeated here: module  *)
(* BlockPool has them and BlockPoolProofs shows that a count is the number *)
(* of tables that hold the block and that the map lists exactly the hashed *)
(* blocks.  A block is thus referenced when a table (or a deferred free)   *)
(* holds it, and cached under its block_hash.                              *)
(***************************************************************************)
EXTENDS Integers, Sequences, FiniteSets, SequencesExt

CONSTANTS Requests,       \* request ids: 1..N, in order of arrival_time
          NumBlocks,      \* usable blocks (the null block left out)
          BlockSize,
          PromptLen,      \* num_prompt_tokens of each request
          SharedLen,      \* length of the prefix all prompts share
          EnableCaching,
          Watermark       \* watermark_blocks

ASSUME RequestsAssumption == Requests \subseteq Nat \ {0} /\ IsFiniteSet(Requests)
ASSUME SizesAssumption == NumBlocks \in Nat \ {0} /\ BlockSize \in Nat \ {0}
ASSUME PromptAssumption == PromptLen \in [Requests -> Nat \ {0}] /\ SharedLen \in Nat
ASSUME CachingAssumption == EnableCaching \in BOOLEAN /\ Watermark \in Nat

VARIABLES free,        \* the free block queue, first evicted first
          table,       \* req_to_blocks
          num_cached,  \* num_cached_block
          block_hash   \* the prefix hash a block is cached under

kvVars == <<free, table, num_cached, block_hash>>

Blocks == 1 .. NumBlocks
NoHash == <<>>

KVInit ==
    /\ free = [i \in Blocks |-> i]
    /\ table = [r \in Requests |-> <<>>]
    /\ num_cached = [r \in Requests |-> 0]
    /\ block_hash = [b \in Blocks |-> NoHash]

\* cdiv(num_tokens, block_size)
NumRequired(num_tokens) == (num_tokens + BlockSize - 1) \div BlockSize

\* The chained hash of the k-th block of r: requests agree on it exactly while
\* the block lies in the prefix that they share.
BlockHash(r, k) ==
    IF k * BlockSize <= SharedLen /\ k * BlockSize <= PromptLen[r]
    THEN <<0, k>>
    ELSE <<r, k>>

CachedHashes == {block_hash[b] : b \in Blocks} \ {NoHash}

\* find_longest_cache_hit of full attention: walk the chain until a miss.
HitLength(r, max_length) ==
    Max({n \in 0 .. max_length \div BlockSize :
            \A k \in 1 .. n : BlockHash(r, k) \in CachedHashes})

\* get_computed_blocks: at least the last token is always recomputed.  Of
\* several blocks cached under one hash any may be returned.
GetComputedBlocks(r, num_tokens) ==
    IF ~EnableCaching
    THEN {<<>>}
    ELSE LET n == HitLength(r, num_tokens - 1)
         IN  {s \in [1 .. n -> Blocks] :
                \A k \in 1 .. n : block_hash[s[k]] = BlockHash(r, k)}

\* The blocks get_new_blocks pops when r needs slots for num_tokens tokens.
NumNewBlocks(r, hits, num_tokens) ==
    Max({0, NumRequired(num_tokens) - Len(table[r]) - Len(hits)})

\* get_num_blocks_to_allocate: touching a hit takes it from the free queue too.
NumBlocksToAllocate(r, hits, num_tokens) ==
    NumNewBlocks(r, hits, num_tokens)
    + Cardinality(ToSet(hits) \cap ToSet(free))

\* cache_blocks: the full blocks among the first num_tokens tokens of r that are
\* not cached yet get their hash.
HashesWith(hash, r, blocks, cached_already, num_tokens) ==
    [b \in Blocks |->
        LET ks == {k \in cached_already + 1 .. num_tokens \div BlockSize : blocks[k] = b}
        IN  IF EnableCaching /\ ks # {} THEN BlockHash(r, CHOOSE k \in ks : TRUE) ELSE hash[b]]

NumCachedWith(cached_already, num_tokens) ==
    IF EnableCaching THEN Max({cached_already, num_tokens \div BlockSize}) ELSE cached_already

\* Mutant: the new blocks are popped before the hits are touched.
AllocateBeforeTouch(r, hits, num_tokens, num_cacheable) ==
    LET n    == NumNewBlocks(r, hits, num_tokens)
        new  == SubSeq(free, 1, n)
        blks == table[r] \o hits \o new
        kept == [b \in Blocks |-> IF b \in ToSet(new) THEN NoHash ELSE block_hash[b]]
        done == num_cached[r] + Len(hits)
    IN  /\ free' = SelectSeq(free, LAMBDA b : b \notin ToSet(hits \o new))
        /\ table' = [table EXCEPT ![r] = blks]
        /\ block_hash' = HashesWith(kept, r, blks, done, num_cacheable)
        /\ num_cached' = [num_cached EXCEPT ![r] = NumCachedWith(done, num_cacheable)]

\* Mutant: a popped block keeps the hash of its former content.
AllocateKeepsHash(r, hits, num_tokens, num_cacheable) ==
    LET rest == SelectSeq(free, LAMBDA b : b \notin ToSet(hits))
        n    == NumNewBlocks(r, hits, num_tokens)
        blks == table[r] \o hits \o SubSeq(rest, 1, n)
        done == num_cached[r] + Len(hits)
    IN  /\ free' = SubSeq(rest, n + 1, Len(rest))
        /\ table' = [table EXCEPT ![r] = blks]
        /\ block_hash' = HashesWith(block_hash, r, blks, done, num_cacheable)
        /\ num_cached' = [num_cached EXCEPT ![r] = NumCachedWith(done, num_cacheable)]

\* allocate_slots once its capacity checks have passed: touch the hits, pop the
\* new blocks (which lose their old hash), then cache the first num_cacheable
\* tokens.
AllocateSlots(r, hits, num_tokens, num_cacheable) ==
    LET rest == SelectSeq(free, LAMBDA b : b \notin ToSet(hits))
        n    == NumNewBlocks(r, hits, num_tokens)
        new  == SubSeq(rest, 1, n)
        blks == table[r] \o hits \o new
        kept == [b \in Blocks |-> IF b \in ToSet(new) THEN NoHash ELSE block_hash[b]]
        done == num_cached[r] + Len(hits)
    IN  /\ free' = SubSeq(rest, n + 1, Len(rest))
        /\ table' = [table EXCEPT ![r] = blks]
        /\ block_hash' = HashesWith(kept, r, blks, done, num_cacheable)
        /\ num_cached' = [num_cached EXCEPT ![r] = NumCachedWith(done, num_cacheable)]

\* cache_blocks on its own.
CacheBlocks(r, num_tokens) ==
    /\ block_hash' = HashesWith(block_hash, r, table[r], num_cached[r], num_tokens)
    /\ num_cached' = [num_cached EXCEPT ![r] = NumCachedWith(@, num_tokens)]

\* Mutant: the blocks are freed from the head of the table.
FreedInOrder(blocks, live, hash) ==
    LET dead == SelectSeq(blocks, LAMBDA b : b \notin live)
        Hit(b) == EnableCaching /\ hash[b] # NoHash
    IN  SelectSeq(dead, LAMBDA b : ~Hit(b)) \o free \o SelectSeq(dead, Hit)

\* free_blocks(reversed(blocks)): those no longer referenced return to the pool,
\* unhashed ones to the head of the queue, hashed ones to its tail.
Freed(blocks, live, hash) ==
    LET dead == SelectSeq(Reverse(blocks), LAMBDA b : b \notin live)
        Hit(b) == EnableCaching /\ hash[b] # NoHash
    IN  SelectSeq(dead, LAMBDA b : ~Hit(b)) \o free \o SelectSeq(dead, Hit)

\* pop_blocks_for_free: forget the table of r.
PopBlocks(r) ==
    /\ table' = [table EXCEPT ![r] = <<>>]
    /\ num_cached' = [num_cached EXCEPT ![r] = 0]

\* reset_prefix_cache: only while every block is free.
ResetPrefixCache ==
    /\ block_hash' = IF Len(free) = NumBlocks THEN [b \in Blocks |-> NoHash] ELSE block_hash
    /\ UNCHANGED <<free, table, num_cached>>

=============================================================================
