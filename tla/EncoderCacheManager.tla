------------------------- MODULE EncoderCacheManager -------------------------
(***************************************************************************)
(* EncoderCacheManager (vllm/v1/core/encoder_cache_manager.py): the encoder *)
(* outputs of multi-modal inputs, shared between the requests that show the *)
(* same item, kept until space is needed.  m is the manager's state before  *)
(* the call; module EncoderCache makes the calls.                           *)
(***************************************************************************)
EXTENDS Integers, Sequences, FiniteSetsExt, Functions

CONSTANTS Requests,        \* request ids
          NumItems,        \* the multi-modal items, by number for their mm_hash
          Inputs,          \* mm_features of each request: a sequence of items
          Size,            \* get_num_encoder_embeds of an item
          CacheSize

Items == 1 .. NumItems

ASSUME InputsAssumption == Requests \subseteq Nat /\ Inputs \in [Requests -> Seq(Items)]
\* compute_mm_encoder_budget: the limit is at least the largest item.
ASSUME ItemsAssumption ==
    /\ NumItems \in Nat /\ CacheSize \in Nat \ {0} /\ Size \in [Items -> Nat \ {0}]
    /\ \A h \in Items : Size[h] <= CacheSize

-----------------------------------------------------------------------------
Fresh ==
    [cached   |-> [h \in {} |-> {}],          \* item -> requests that reference it
     ids      |-> [r \in Requests |-> {}],    \* request_cached_ids
     freeable |-> <<>>, freed |-> {},
     num_free |-> CacheSize, num_freeable |-> CacheSize]

ItemOf(r, i) == Inputs[r][i]

\* The slots that the items of S take.
Sizes(S) ==
    LET sum[h \in 0 .. NumItems] ==
          IF h = 0 THEN 0 ELSE sum[h - 1] + (IF h \in S THEN Size[h] ELSE 0)
    IN  sum[NumItems]

\* list.remove and dict.pop: s without its element x.
Remove(s, x) ==
    IF x \in Range(s)
    THEN LET i == CHOOSE i \in DOMAIN s : s[i] = x
         IN  SubSeq(s, 1, i - 1) \o SubSeq(s, i + 1, Len(s))
    ELSE s

\* Mutant: the item is not taken off the eviction list.
ReferenceStaysFreeable(m, r, i) ==
    [m EXCEPT !.cached[ItemOf(r, i)] = @ \cup {r}, !.ids[r] = @ \cup {i}]

\* check_and_update_cache, when it returns True.
Reference(m, r, i) ==
    LET h == ItemOf(r, i)
        idle == m.cached[h] = {}
    IN  [m EXCEPT !.cached[h] = @ \cup {r},
                  !.ids[r] = @ \cup {i},
                  !.freeable = IF idle THEN Remove(@, h) ELSE @,
                  !.num_freeable = IF idle THEN @ - Size[h] ELSE @]

\* can_allocate ...
CanAllocate(m, r, i, budget, embeds) ==
    LET h == ItemOf(r, i)
    IN  /\ Size[h] <= budget
        /\ \/ Size[h] + embeds <= m.num_free
           \/ Size[h] + embeds <= m.num_freeable

\* ... and the evictions it makes: the oldest freeable items, until it fits.
Evict(m, r, i, embeds) ==
    LET need == Size[ItemOf(r, i)] + embeds
        Oldest(n) == {m.freeable[x] : x \in 1 .. n}
        k == Min({n \in 0 .. Len(m.freeable) : need <= m.num_free + Sizes(Oldest(n))})
    IN  [m EXCEPT !.freeable = SubSeq(@, k + 1, Len(@)),
                  !.cached = Restrict(@, DOMAIN @ \ Oldest(k)),
                  !.freed = @ \cup Oldest(k),
                  !.num_free = @ + Sizes(Oldest(k))]

Allocate(m, r, i) ==
    LET h == ItemOf(r, i)
        refs == IF h \in DOMAIN m.cached THEN m.cached[h] ELSE {}
    IN  [m EXCEPT !.cached = [x \in DOMAIN @ \cup {h} |-> IF x = h THEN refs \cup {r} ELSE @[x]],
                  !.ids[r] = @ \cup {i},
                  !.num_free = @ - Size[h],
                  !.num_freeable = @ - Size[h]]

\* allocate, for the inputs of r that were chosen.
AllocateInputs(m, r, inputs) ==
    LET l[i \in 0 .. Len(Inputs[r])] ==
          IF i = 0 THEN m
          ELSE IF i \in inputs THEN Allocate(l[i - 1], r, i) ELSE l[i - 1]
    IN  l[Len(Inputs[r])]

\* Mutant: the reference is dropped although another input of r repeats the item.
FreeFirstOccurrence(m, r, i) ==
    LET h == ItemOf(r, i)
        ids == m.ids[r] \ {i}
        m1 == [m EXCEPT !.ids[r] = ids]
    IN  IF h \notin DOMAIN m.cached \/ m.cached[h] = {}
        THEN m1
        ELSE IF m.cached[h] # {r}
             THEN [m1 EXCEPT !.cached[h] = @ \ {r}]
             ELSE [m1 EXCEPT !.cached[h] = {},
                             !.freeable = Append(@, h),
                             !.num_freeable = @ + Size[h]]

\* free_encoder_input
FreeEncoderInput(m, r, i) ==
    LET h == ItemOf(r, i)
        ids == m.ids[r] \ {i}
        m1 == [m EXCEPT !.ids[r] = ids]
    IN  IF \/ h \notin DOMAIN m.cached \/ m.cached[h] = {}
           \/ \E j \in ids : ItemOf(r, j) = h
        THEN m1
        ELSE IF m.cached[h] \ {r} # {}
             THEN [m1 EXCEPT !.cached[h] = @ \ {r}]
             ELSE [m1 EXCEPT !.cached[h] = {},
                             !.freeable = Append(@, h),
                             !.num_freeable = @ + Size[h]]

FreeInputs(m, r, ids) ==
    LET l[i \in 0 .. Len(Inputs[r])] ==
          IF i = 0 THEN m
          ELSE IF i \in ids THEN FreeEncoderInput(l[i - 1], r, i) ELSE l[i - 1]
    IN  l[Len(Inputs[r])]

\* Mutant: the references of a preempted or finished request are kept.
FreeForgets(m, r) == m

\* free: when the request is preempted or finished.
Free(m, r) == FreeInputs(m, r, m.ids[r])

\* get_freed_mm_hashes
FreedItems(m) == m.freed \ DOMAIN m.cached

=============================================================================
