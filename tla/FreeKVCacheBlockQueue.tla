----------------------- MODULE FreeKVCacheBlockQueue -----------------------
(***************************************************************************)
(* FreeKVCacheBlockQueue of vllm/v1/core/kv_cache_utils.py: the free blocks *)
(* as a doubly linked list threaded through the blocks themselves, between  *)
(* a fake head and a fake tail.  It implements the sequence of BlockQueue.  *)
(*                                                                         *)
(* Callers free only blocks that are not in the list, each once, and remove *)
(* only blocks whose links are set: remove() raises otherwise.              *)
(***************************************************************************)
EXTENDS Integers, Sequences, FiniteSets, Functions

CONSTANTS NumBlocks, FakeHead, FakeTail, None

VARIABLES prev_free_block, next_free_block, num_free_blocks

vars == <<prev_free_block, next_free_block, num_free_blocks>>

AllBlocks == 1 .. NumBlocks
Nodes == AllBlocks \cup {FakeHead, FakeTail}

ASSUME NodesAssumption ==
    /\ NumBlocks \in Nat \ {0}
    /\ Cardinality({FakeHead, FakeTail, None} \cup AllBlocks) = NumBlocks + 3

\* The nodes n hops after start along the links of next, None beyond the end.
Hops(next, start) ==
    LET node[n \in 0 .. NumBlocks] ==
          IF n = 0 THEN next[start]
          ELSE IF node[n - 1] \in AllBlocks THEN next[node[n - 1]] ELSE None
    IN  node

\* get_all_free_blocks: the blocks between the fake ends, in list order.
GetAllFreeBlocks(next, start) ==
    LET node == Hops(next, start)
        n == Cardinality({k \in 0 .. NumBlocks - 1 : node[k] \in AllBlocks})
    IN  [i \in 1 .. n |-> node[i - 1]]

Listed == Range(GetAllFreeBlocks(next_free_block, FakeHead))
NewLists == UNION {Injection(1 .. Cardinality(B), B) : B \in SUBSET (AllBlocks \ Listed)}

Init ==
    /\ num_free_blocks = NumBlocks
    /\ next_free_block = [x \in Nodes |->
         CASE x = FakeHead -> 1
           [] x = FakeTail -> None
           [] x = NumBlocks -> FakeTail
           [] OTHER -> x + 1]
    /\ prev_free_block = [x \in Nodes |->
         CASE x = FakeHead -> None
           [] x = FakeTail -> NumBlocks
           [] x = 1 -> FakeHead
           [] OTHER -> x - 1]

\* popleft_n, and popleft for n = 1: unlink the first n blocks.
PopLeftN(n) ==
    LET node == Hops(next_free_block, FakeHead)
        popped == {node[k] : k \in 0 .. n - 1}
        rest == node[n]
    IN  /\ n > 0
        /\ num_free_blocks >= n
        /\ num_free_blocks' = num_free_blocks - n
        /\ next_free_block' = [x \in Nodes |->
             IF x = FakeHead THEN rest ELSE IF x \in popped THEN None ELSE next_free_block[x]]
        /\ prev_free_block' = [x \in Nodes |->
             IF x = rest THEN FakeHead ELSE IF x \in popped THEN None ELSE prev_free_block[x]]

\* Mutant: remove() does not clear the links of the removed block.
RemoveKeepsLinks(b) ==
    LET p == prev_free_block[b]
        n == next_free_block[b]
    IN  /\ p # None /\ n # None
        /\ next_free_block' = [next_free_block EXCEPT ![p] = n]
        /\ prev_free_block' = [prev_free_block EXCEPT ![n] = p]
        /\ num_free_blocks' = num_free_blocks - 1

\* remove: link the neighbours of b to each other.
RemoveBlock(b) ==
    LET p == prev_free_block[b]
        n == next_free_block[b]
    IN  /\ p # None /\ n # None
        /\ next_free_block' = [next_free_block EXCEPT ![p] = n, ![b] = None]
        /\ prev_free_block' = [prev_free_block EXCEPT ![n] = p, ![b] = None]
        /\ num_free_blocks' = num_free_blocks - 1

\* The loop of prepend_n and append_n: link each block of s after the last one.
LinkAfter(s, start) ==
    LET l[i \in 0 .. Len(s)] ==
          IF i = 0 THEN [next |-> next_free_block, prev |-> prev_free_block, last |-> start]
          ELSE LET p == l[i - 1]
               IN  [next |-> [p.next EXCEPT ![p.last] = s[i]],
                    prev |-> [p.prev EXCEPT ![s[i]] = p.last],
                    last |-> s[i]]
    IN  l[Len(s)]

\* Mutant: prepend_n does not link the old first block back.
PrependNForwardOnly(s) ==
    LET first == next_free_block[FakeHead]
        l == LinkAfter(s, FakeHead)
    IN  /\ s # <<>>
        /\ next_free_block' = [l.next EXCEPT ![l.last] = first]
        /\ prev_free_block' = l.prev
        /\ num_free_blocks' = num_free_blocks + Len(s)

\* prepend_n
PrependN(s) ==
    LET first == next_free_block[FakeHead]
        l == LinkAfter(s, FakeHead)
    IN  /\ s # <<>>
        /\ next_free_block' = [l.next EXCEPT ![l.last] = first]
        /\ prev_free_block' = [l.prev EXCEPT ![first] = l.last]
        /\ num_free_blocks' = num_free_blocks + Len(s)

\* append_n, and append for a list of one block
AppendN(s) ==
    LET l == LinkAfter(s, prev_free_block[FakeTail])
    IN  /\ s # <<>>
        /\ next_free_block' = [l.next EXCEPT ![l.last] = FakeTail]
        /\ prev_free_block' = [l.prev EXCEPT ![FakeTail] = l.last]
        /\ num_free_blocks' = num_free_blocks + Len(s)

Next ==
    \/ \E n \in 1 .. NumBlocks : PopLeftN(n)
    \/ \E b \in AllBlocks : RemoveBlock(b)
    \/ \E s \in NewLists : PrependN(s)
    \/ \E s \in NewLists : AppendN(s)

Spec == Init /\ [][Next]_vars

-----------------------------------------------------------------------------

\* The list of the code is the sequence of BlockQueue: every operation, read
\* along next_free_block, is the sequence operation of its docstring.
Queue == INSTANCE BlockQueue
           WITH queue <- GetAllFreeBlocks(next_free_block, FakeHead)
ImplementsQueue == Queue!Spec

Backwards(s) == [i \in 1 .. Len(s) |-> s[Len(s) - i + 1]]

\* Both directions and the counter agree, and a block outside the list has no
\* links: that is how popleft, remove and the callers tell the two apart.
LinksConsistent ==
    /\ num_free_blocks = Cardinality(Listed)
    /\ GetAllFreeBlocks(prev_free_block, FakeTail)
         = Backwards(GetAllFreeBlocks(next_free_block, FakeHead))
    /\ \A b \in AllBlocks \ Listed : prev_free_block[b] = None /\ next_free_block[b] = None
=============================================================================
