------------------------------ MODULE BlockPool ------------------------------
(***************************************************************************)
(* The pool of KV-cache blocks of the V1 engine: vllm/v1/core/block_pool.py *)
(* (BlockPool and BlockHashToBlockMap) over the free queue of               *)
(* vllm/v1/core/kv_cache_utils.py.                                          *)
(*                                                                         *)
(* A block is an id in 0..NumBlocks-1; block 0 is the null block.  A holder *)
(* is whoever owns references to blocks: the block table of a request in    *)
(* one KV cache group, or a copy-on-write retention.  held is that          *)
(* ownership; the pool itself only keeps the counts.  A hash stands for a   *)
(* BlockHashWithGroupId: prefix hash and group id together.                 *)
(*                                                                         *)
(* One action is one call into the pool.  Calls are atomic: the engine core *)
(* runs its scheduler on a single thread.                                   *)
(***************************************************************************)
EXTENDS Integers, Sequences, FiniteSets, Functions

CONSTANTS NumBlocks,      \* num_gpu_blocks, the null block included
          Hashes,         \* block hashes with group id
          HashTokens,     \* length of the prefix a hash stands for
          Holders,        \* owners of block references
          EnableCaching,  \* enable_caching
          NoHash          \* block_hash is None

ASSUME NumBlocksAssumption == NumBlocks \in Nat \ {0}
ASSUME HashesAssumption == NoHash \notin Hashes
ASSUME HashTokensAssumption == HashTokens \in [Hashes -> Nat]
ASSUME HoldersAssumption == IsFiniteSet(Holders)
ASSUME EnableCachingAssumption == EnableCaching \in BOOLEAN

VARIABLES
    free_block_queue,   \* FreeKVCacheBlockQueue, least recently used first
    ref_cnt,            \* KVCacheBlock.ref_cnt
    block_hash,         \* KVCacheBlock.block_hash, the primary key
    extra_hashes,       \* cached_block_hashes_by_block, the further keys
    cached,             \* cached_block_hash_to_block: the blocks of each key
    watchers,           \* blocks with a callback in _reuse_watchers
    reader,             \* who reads a block it has unpinned
    held                \* blocks each holder references

poolVars == <<free_block_queue, ref_cnt, block_hash, extra_hashes, cached,
              watchers, reader, held>>

Blocks == 0 .. NumBlocks - 1
NullBlock == 0
RealBlocks == Blocks \ {NullBlock}

\* The sequences without repetition over S.
InjSeq(S) ==
    {s \in UNION {[1 .. n -> S] : n \in 0 .. Cardinality(S)} : IsInjective(s)}

Init ==
    /\ free_block_queue = [i \in 1 .. NumBlocks - 1 |-> i]
    /\ ref_cnt = [b \in Blocks |-> 0]
    /\ block_hash = [b \in Blocks |-> NoHash]
    /\ extra_hashes = [b \in Blocks |-> {}]
    /\ cached = [h \in Hashes |-> {}]
    /\ watchers = {}
    /\ reader = [b \in Blocks |-> "none"]
    /\ held = [c \in Holders |-> {}]

-----------------------------------------------------------------------------
(* Helpers of the pool.                                                     *)

\* FreeKVCacheBlockQueue.remove: unlink block b.
QueueRemove(q, b) ==
    LET i == CHOOSE j \in 1 .. Len(q) : q[j] = b
    IN  SubSeq(q, 1, i - 1) \o SubSeq(q, i + 1, Len(q))

\* Every key under which block b is reachable.
HashesOf(b) == extra_hashes[b] \cup ({block_hash[b]} \ {NoHash})

\* Mutant: only the primary key leaves the map.
RemovePrimaryOnly(B) ==
    /\ block_hash' = [b \in Blocks |-> IF b \in B THEN NoHash ELSE block_hash[b]]
    /\ extra_hashes' = [b \in Blocks |-> IF b \in B THEN {} ELSE extra_hashes[b]]
    /\ cached' = [h \in Hashes |-> {b \in cached[h] : b \notin B \/ h # block_hash[b]}]

\* _remove_cached_block_hashes of every block of B.
RemoveHashes(B) ==
    /\ block_hash' = [b \in Blocks |-> IF b \in B THEN NoHash ELSE block_hash[b]]
    /\ extra_hashes' = [b \in Blocks |-> IF b \in B THEN {} ELSE extra_hashes[b]]
    /\ cached' = [h \in Hashes |-> {b \in cached[h] : b \notin B \/ h \notin HashesOf(b)}]

\* _remove_cached_block_hashes(b), then _insert_block_hash(h, b).
ReplaceHashes(b, h) ==
    /\ block_hash' = [block_hash EXCEPT ![b] = h]
    /\ extra_hashes' = [extra_hashes EXCEPT ![b] = {}]
    /\ cached' = [g \in Hashes |->
                    (IF g \in HashesOf(b) THEN cached[g] \ {b} ELSE cached[g])
                    \cup (IF g = h THEN {b} ELSE {})]

\* _insert_block_hash(h, b): a block already reachable by h is left alone,
\* the first key of a block is its primary one, later keys are extra.
InsertHash(b, h) ==
    IF block_hash[b] = h \/ b \in cached[h]
    THEN UNCHANGED <<block_hash, extra_hashes, cached>>
    ELSE /\ IF block_hash[b] = NoHash
            THEN /\ block_hash' = [block_hash EXCEPT ![b] = h]
                 /\ UNCHANGED extra_hashes
            ELSE /\ extra_hashes' = [extra_hashes EXCEPT ![b] = @ \cup {h}]
                 /\ UNCHANGED block_hash
         /\ cached' = [cached EXCEPT ![h] = @ \cup {b}]

hashVars == <<block_hash, extra_hashes, cached>>

\* Mutant: free_blocks forgets that the null block is special.
LastReferenceOrNull(b) == ref_cnt[b] = 1

\* free_blocks sorts what it is given: blocks that lose their last reference go
\* to the tail of the queue if they can still be hit and to its head if not.
LastReference(b) == ref_cnt[b] = 1 /\ b # NullBlock
EvictLast(b) == LastReference(b) /\ block_hash[b] # NoHash /\ EnableCaching
EvictFirst(b) == LastReference(b) /\ ~(block_hash[b] # NoHash /\ EnableCaching)

\* is_block_writable
IsBlockWritable(b) == b # NullBlock /\ ref_cnt[b] = 1 /\ block_hash[b] = NoHash

-----------------------------------------------------------------------------
(* The operations.                                                          *)

\* Mutant: get_new_blocks does not call _notify_reuse.
GetNewBlocksSilently(c, n) ==
    LET got == {free_block_queue[i] : i \in 1 .. n} IN
    /\ n <= Len(free_block_queue)
    /\ free_block_queue' = SubSeq(free_block_queue, n + 1, Len(free_block_queue))
    /\ reader' = [b \in Blocks |->
                    IF b \in got /\ reader[b] # "none" THEN "overwritten" ELSE reader[b]]
    /\ IF EnableCaching THEN RemoveHashes(got) ELSE UNCHANGED hashVars
    /\ ref_cnt' = [b \in Blocks |-> IF b \in got THEN ref_cnt[b] + 1 ELSE ref_cnt[b]]
    /\ held' = [held EXCEPT ![c] = @ \cup got]
    /\ UNCHANGED watchers

\* get_new_blocks(n): pop the n least recently used blocks, tell the readers
\* that watch them, drop them from the prefix cache, reference each once.
GetNewBlocks(c, n) ==
    LET got == {free_block_queue[i] : i \in 1 .. n} IN
    /\ n <= Len(free_block_queue)
    /\ free_block_queue' = SubSeq(free_block_queue, n + 1, Len(free_block_queue))
    /\ watchers' = watchers \ got
    /\ reader' = [b \in Blocks |->
                    IF b \notin got \/ reader[b] = "none" THEN reader[b]
                    ELSE IF b \in watchers THEN "none" ELSE "overwritten"]
    /\ IF EnableCaching THEN RemoveHashes(got) ELSE UNCHANGED hashVars
    /\ ref_cnt' = [b \in Blocks |-> IF b \in got THEN ref_cnt[b] + 1 ELSE ref_cnt[b]]
    /\ held' = [held EXCEPT ![c] = @ \cup got]

\* Mutant: a hit on an unreferenced block leaves it in the free queue.
TouchKeepsQueued(c, b) ==
    /\ b \notin held[c]
    /\ ref_cnt' = [ref_cnt EXCEPT ![b] = @ + 1]
    /\ held' = [held EXCEPT ![c] = @ \cup {b}]
    /\ UNCHANGED <<free_block_queue, block_hash, extra_hashes, cached, watchers, reader>>

\* touch, for one block: a hit (or the null block of a sliding-window hit)
\* gains a reference and leaves the free queue if it was unreferenced.
Touch(c, b) ==
    /\ b \notin held[c]
    /\ free_block_queue' = IF ref_cnt[b] = 0 /\ b # NullBlock
                           THEN QueueRemove(free_block_queue, b)
                           ELSE free_block_queue
    /\ ref_cnt' = [ref_cnt EXCEPT ![b] = @ + 1]
    /\ held' = [held EXCEPT ![c] = @ \cup {b}]
    /\ UNCHANGED <<block_hash, extra_hashes, cached, watchers, reader>>

\* get_cached_block(h), then touch of the block found.  The code returns the
\* oldest entry of h; the pool's guarantees do not depend on which.
TouchCached(c, h) == \E b \in cached[h] : Touch(c, b)

TouchNull(c) == Touch(c, NullBlock)

\* free_blocks(ordered_blocks), the list split by what happens to its members:
\* first and last are the sublists that become free, shared the rest of it.
\* placeholder tells whether the holder keeps the null block in their place
\* (remove_skipped_blocks) or not (free).
FreeBlocks(c, first, last, shared, placeholder) ==
    LET freed == Range(first) \cup Range(last) \cup shared IN
    /\ free_block_queue' = first \o free_block_queue \o last
    /\ ref_cnt' = [b \in Blocks |-> IF b \in freed THEN ref_cnt[b] - 1 ELSE ref_cnt[b]]
    /\ held' = [held EXCEPT ![c] =
                  (@ \ freed) \cup (IF placeholder THEN {NullBlock} ELSE {})]
    /\ UNCHANGED <<block_hash, extra_hashes, cached, watchers, reader>>

\* cache_full_blocks, for one full block (the managers call it only with caching
\* enabled).  A block that already has a hash must be promoted from a shorter
\* prefix: the assertion in the code.
CacheFullBlock(c, b, h) ==
    /\ EnableCaching
    /\ b \in held[c] \ {NullBlock}
    /\ block_hash[b] # NoHash => HashTokens[block_hash[b]] < HashTokens[h]
    /\ ReplaceHashes(b, h)
    /\ UNCHANGED <<free_block_queue, ref_cnt, watchers, reader, held>>

\* cache_partial_block: replace drops every older key; so does a longer prefix
\* than the primary key's; otherwise h becomes a further key of the block.
CachePartialBlock(c, b, h, replace) ==
    LET alreadyCached == block_hash[b] = h \/ b \in cached[h]
        promotion == /\ ~alreadyCached
                     /\ block_hash[b] # NoHash
                     /\ HashTokens[block_hash[b]] < HashTokens[h]
    IN  /\ EnableCaching
        /\ b \in held[c] \ {NullBlock}
        /\ IF replace \/ promotion THEN ReplaceHashes(b, h) ELSE InsertHash(b, h)
        /\ UNCHANGED <<free_block_queue, ref_cnt, watchers, reader, held>>

\* move_block_hashes(src, dst): the keys of src now lead to dst.
MoveBlockHashes(src, dst) ==
    /\ block_hash[dst] = NoHash /\ extra_hashes[dst] = {}
    /\ block_hash' = [block_hash EXCEPT ![dst] = block_hash[src], ![src] = NoHash]
    /\ extra_hashes' = [extra_hashes EXCEPT ![dst] = extra_hashes[src], ![src] = {}]
    /\ cached' = [h \in Hashes |-> IF h \in HashesOf(src)
                                   THEN (cached[h] \ {src}) \cup {dst}
                                   ELSE cached[h]]
    /\ UNCHANGED <<free_block_queue, ref_cnt, watchers, reader, held>>

\* Mutant: unpinning keeps the count.
UnpinKeepsCount(c, b) ==
    /\ b \in held[c] \ {NullBlock}
    /\ watchers' = watchers \cup {b}
    /\ reader' = [reader EXCEPT ![b] = "reading"]
    /\ free_block_queue' = IF ref_cnt[b] = 1 THEN Append(free_block_queue, b)
                                             ELSE free_block_queue
    /\ held' = [held EXCEPT ![c] = @ \ {b}]
    /\ UNCHANGED <<ref_cnt, block_hash, extra_hashes, cached>>

\* unpin_blocks, for one block: drop the reference, keep reading until told.
UnpinBlock(c, b) ==
    /\ b \in held[c] \ {NullBlock}
    /\ ref_cnt' = [ref_cnt EXCEPT ![b] = @ - 1]
    /\ watchers' = watchers \cup {b}
    /\ reader' = [reader EXCEPT ![b] = "reading"]
    /\ free_block_queue' = IF ref_cnt[b] = 1 THEN Append(free_block_queue, b)
                                             ELSE free_block_queue
    /\ held' = [held EXCEPT ![c] = @ \ {b}]
    /\ UNCHANGED hashVars

\* evict_blocks: drop blocks from the prefix cache, whoever references them.
EvictBlocks(B) ==
    /\ RemoveHashes(B)
    /\ UNCHANGED <<free_block_queue, ref_cnt, watchers, reader, held>>

\* reset_prefix_cache, refused (FALSE, no change) while a block is in use.
ResetPrefixCache ==
    /\ NumBlocks - Len(free_block_queue) = 1
    /\ block_hash' = [b \in Blocks |-> NoHash]
    /\ extra_hashes' = [b \in Blocks |-> {}]
    /\ cached' = [h \in Hashes |-> {}]
    /\ watchers' = {}
    /\ reader' = [b \in Blocks |-> IF b \in watchers THEN "none" ELSE reader[b]]
    /\ UNCHANGED <<free_block_queue, ref_cnt, held>>

Next ==
    \/ \E c \in Holders, n \in 1 .. NumBlocks : GetNewBlocks(c, n)
    \/ \E c \in Holders, h \in Hashes : TouchCached(c, h)
    \/ \E c \in Holders : TouchNull(c)
    \/ \E c \in Holders : \E first \in InjSeq({b \in held[c] : EvictFirst(b)}),
                            last \in InjSeq({b \in held[c] : EvictLast(b)}),
                            shared \in SUBSET {b \in held[c] : ~LastReference(b)},
                            placeholder \in BOOLEAN :
         FreeBlocks(c, first, last, shared, placeholder)
    \/ \E c \in Holders, h \in Hashes : \E b \in held[c] : CacheFullBlock(c, b, h)
    \/ \E c \in Holders, h \in Hashes, replace \in BOOLEAN : \E b \in held[c] :
         CachePartialBlock(c, b, h, replace)
    \/ \E src, dst \in (UNION {held[c] : c \in Holders}) \ {NullBlock} :
         MoveBlockHashes(src, dst)
    \/ \E c \in Holders : \E b \in held[c] : UnpinBlock(c, b)
    \/ \E B \in SUBSET Blocks : EvictBlocks(B)
    \/ ResetPrefixCache

Spec == Init /\ [][Next]_poolVars

-----------------------------------------------------------------------------
(* Properties.                                                              *)

\* The pool's fields keep their types; the null block is never queued, cached or
\* watched, although touch and free_blocks also change its count.
TypeOK ==
    /\ free_block_queue \in Seq(RealBlocks)
    /\ ref_cnt \in [Blocks -> Int]
    /\ block_hash \in [Blocks -> Hashes \cup {NoHash}]
    /\ extra_hashes \in [Blocks -> SUBSET Hashes]
    /\ cached \in [Hashes -> SUBSET RealBlocks]
    /\ watchers \in SUBSET RealBlocks
    /\ reader \in [Blocks -> {"none", "reading", "overwritten"}]
    /\ held \in [Holders -> SUBSET Blocks]

\* The holders of block b.
HoldersOf(b) == {c \in Holders : b \in held[c]}

\* No leak, no double free: the reference count touch, get_new_blocks,
\* free_blocks and unpin_blocks maintain is the number of holders.
RefCntExact == \A b \in RealBlocks : ref_cnt[b] = Cardinality(HoldersOf(b))

\* The free queue holds each unreferenced block exactly once and nothing else:
\* a block somebody references is never handed out, a block nobody references
\* is never lost, and the null block is never free.
FreeExact ==
    /\ IsInjective(free_block_queue)
    /\ Range(free_block_queue) = {b \in RealBlocks : ref_cnt[b] = 0}

\* The hash map and the blocks agree: a lookup of h finds exactly the blocks that
\* carry h as primary or extra key, so no evicted or reallocated block is hit,
\* and eviction removes every key of a block.
HashMapExact ==
    /\ \A h \in Hashes : cached[h] = {b \in Blocks : h \in HashesOf(b)}
    /\ \A b \in Blocks : block_hash[b] = NoHash => extra_hashes[b] = {}

\* unpin_blocks promises that on_reuse fires before an unpinned block is handed
\* out: no reader reads a block that get_new_blocks gave to somebody else.
NoStaleReader == \A b \in Blocks : reader[b] # "overwritten"
=============================================================================
