------------------------ MODULE CPUOffloadingManager ------------------------
(***************************************************************************)
(* The chunk cache in CPU memory: CPUOffloadingManager                      *)
(* (vllm/v1/kv_offload/cpu/manager.py), with the replacement policy known   *)
(* only by the contract of CachePolicy.evict: any idle chunk that is not    *)
(* protected may go.                                                        *)
(*                                                                         *)
(* The operations are functions from one state of the manager to the next;  *)
(* module OffloadingConnector calls them.  A chunk has ref = -1 while it is *)
(* being written, else the number of loads that read it.                    *)
(***************************************************************************)
EXTENDS Integers, Sequences, FiniteSets, SequencesExt, FiniteSetsExt, Functions

CONSTANT NumChunks     \* num_chunks

ASSUME ChunksAssumption == NumChunks \in Nat \ {0}

VARIABLE mgr    \* chunks (by key), free_list, num_allocated, num_evictable

Empty == <<>>

Reset == [chunks |-> Empty, free_list |-> <<>>, num_allocated |-> 0, num_evictable |-> 0]

MgrInit == mgr = Reset

Has(m, key) == key \in DOMAIN m.chunks
IsReady(m, key) == Has(m, key) /\ m.chunks[key].ref >= 0
Idle(m) == {key \in DOMAIN m.chunks : m.chunks[key].ref = 0}

\* lookup
Lookup(m, key) ==
    CASE ~Has(m, key)     -> "MISS"
      [] IsReady(m, key)  -> "HIT"
      [] OTHER            -> "HIT_PENDING"

WithRefs(m, keys, d) ==
    [key \in DOMAIN m.chunks |->
        IF key \in keys THEN [m.chunks[key] EXCEPT !.ref = @ + d] ELSE m.chunks[key]]

\* Mutant: pinned chunks still count as evictable.
PrepareLoadEvictable(m, keys) == [m EXCEPT !.chunks = WithRefs(m, keys, 1)]

\* prepare_load: the chunks are pinned.
PrepareLoad(m, keys) ==
    [m EXCEPT !.chunks = WithRefs(m, keys, 1),
              !.num_evictable = @ - Cardinality(keys \cap Idle(m))]

\* complete_load
CompleteLoad(m, keys) ==
    [m EXCEPT !.chunks = WithRefs(m, keys, -1),
              !.num_evictable = @ + Cardinality({key \in keys : m.chunks[key].ref = 1})]

\* complete_store: the chunks can be read from now on.
CompleteStore(m, keys) ==
    LET written == {key \in keys : Has(m, key) /\ ~IsReady(m, key)}
    IN  [m EXCEPT !.chunks = WithRefs(m, written, 1), !.num_evictable = @ + Cardinality(written)]

\* The ids of n chunks: fresh ones first, then from the end of the free list.
ChunkIds(m, n) ==
    LET fresh == Min({n, NumChunks - m.num_allocated})
    IN  [i \in 1 .. n |-> IF i <= fresh THEN m.num_allocated + i
                          ELSE m.free_list[Len(m.free_list) + fresh + 1 - i]]

\* _allocate_chunks and insert, for the keys in order; there is room for them.
Insert(m, keys) ==
    LET n     == Len(keys)
        ids   == ChunkIds(m, n)
        fresh == Min({n, NumChunks - m.num_allocated})
    IN  [m EXCEPT !.chunks = [key \in DOMAIN @ \cup ToSet(keys) |->
                                IF key \in DOMAIN @ THEN @[key]
                                ELSE [ref |-> -1, id |-> ids[CHOOSE i \in 1 .. n : keys[i] = key]]],
                  !.num_allocated = @ + fresh,
                  !.free_list = SubSeq(@, 1, Len(@) - (n - fresh))]

\* The victims leave the cache and their chunks are free; the order in which
\* the policy lists them decides only which chunk is used first.
Evict(m, victims) ==
    [m EXCEPT !.chunks = Restrict(@, DOMAIN @ \ ToSet(victims)),
              !.free_list = @ \o [i \in DOMAIN victims |-> m.chunks[victims[i]].id],
              !.num_evictable = @ - Len(victims)]

NumFree(m) == Len(m.free_list) + NumChunks - m.num_allocated

\* The sets of chunks that evict(n, protected = keys) may choose; none if it fails.
Victims(m, keys, n) == IF n <= 0 THEN {{}} ELSE kSubset(n, Idle(m) \ ToSet(keys))

\* prepare_store: the keys still to be stored and the state of the manager, for
\* every choice of victims; no outcome at all stands for None.
PrepareStore(m, keys) ==
    LET new  == SelectSeq(keys, LAMBDA key : ~Has(m, key))
        need == Len(new) - NumFree(m)
    IN  IF need > m.num_evictable THEN {}
        ELSE {[keys |-> new, mgr |-> Insert(Evict(m, SetToSeq(V)), new)] :
                V \in Victims(m, keys, need)}

=============================================================================
