----------------------------- MODULE BlockQueue -----------------------------
(***************************************************************************)
(* What FreeKVCacheBlockQueue promises (the docstrings of its methods in    *)
(* vllm/v1/core/kv_cache_utils.py): a sequence of free blocks that can be   *)
(* popped at the head, extended at both ends and thinned in the middle.     *)
(* BlockPool keeps its free blocks in such a sequence.                      *)
(***************************************************************************)
EXTENDS Integers, Sequences, FiniteSets, Functions

CONSTANT NumBlocks

VARIABLE queue

AllBlocks == 1 .. NumBlocks
Outside == AllBlocks \ Range(queue)

\* The lists of distinct blocks that are not in the queue.
NewLists == UNION {Injection(1 .. Cardinality(B), B) : B \in SUBSET Outside}

Init == queue = [i \in AllBlocks |-> i]

PopLeftN(n) == n <= Len(queue) /\ queue' = SubSeq(queue, n + 1, Len(queue))

RemoveBlock(b) ==
    \E i \in DOMAIN queue :
      queue[i] = b /\ queue' = SubSeq(queue, 1, i - 1) \o SubSeq(queue, i + 1, Len(queue))

PrependN(s) == queue' = s \o queue

AppendN(s) == queue' = queue \o s

Next ==
    \/ \E n \in 0 .. NumBlocks : PopLeftN(n)
    \/ \E b \in AllBlocks : RemoveBlock(b)
    \/ \E s \in NewLists : PrependN(s) \/ AppendN(s)

Spec == Init /\ [][Next]_queue
=============================================================================
