------------------------------ MODULE Scheduler ------------------------------
(***************************************************************************)
(* The V1 scheduler and the engine-core loop that drives it:               *)
(* vllm/v1/core/sched/scheduler.py, async_scheduler.py, request_queue.py    *)
(* and EngineCore.step / step_with_batch_queue of vllm/v1/engine/core.py.   *)
(*                                                                         *)
(* The engine core is one thread.  One iteration of a loop of schedule() or *)
(* update_from_output() is one action, and pc says which loop is running:   *)
(*   idle -> running -> waiting -> finish -> (idle or pop)                  *)
(*   pop -> drain -> update -> end -> idle,      reset -> idle              *)
(* Between two engine steps (idle) requests arrive, and are aborted; aborts *)
(* are also taken while a step's result is awaited (pop).                   *)
(*                                                                         *)
(* The two fence counters of deferred frees only matter through their       *)
(* difference to processed_step_seq, so they are kept relative to it.       *)
(***************************************************************************)
EXTENDS KVCacheManager

CONSTANTS Policy,              \* "fcfs" or "priority"
          Priority,            \* priority of each request, smaller first
          MaxTokens,           \* max_tokens of every request
          MaxModelLen,
          MaxNumSeqs,          \* max_num_seqs
          TokenBudget,         \* max_num_scheduled_tokens
          LongPrefill,         \* long_prefill_token_threshold; 0 is none
          ReserveFullISL,      \* scheduler_reserve_full_isl
          AsyncScheduling,     \* AsyncScheduler in place of Scheduler
          QueueSize,           \* batch_queue_size; 1 is EngineCore.step
          DeferBlockFree,      \* defer_block_free
          RequiresDelivery,    \* the requires_kv_delivery settings of the connector
          RemoteReqs,          \* requests whose prompt KV is loaded remotely
          SendReqs,            \* requests whose KV is sent when they finish
          RecomputeFailures,   \* recompute_kv_load_failures
          PauseStates,         \* pause states that set_pause_state may set
          MaxResets,           \* bound on calls of reset_prefix_cache
          Aborts               \* requests that clients may abort

ASSUME PolicyAssumption == Policy \in {"fcfs", "priority"} /\ Priority \in [Requests -> Nat]
ASSUME LimitsAssumption ==
    /\ {MaxTokens, MaxModelLen, MaxNumSeqs, TokenBudget, QueueSize} \subseteq Nat \ {0}
    /\ \A r \in Requests : PromptLen[r] < MaxModelLen
    /\ MaxResets \in Nat /\ LongPrefill \in Nat
\* Start-up refuses a pool in which one request of maximal length does not fit.
ASSUME PoolAssumption == NumBlocks * BlockSize >= MaxModelLen
ASSUME FlagsAssumption ==
    /\ {ReserveFullISL, AsyncScheduling, DeferBlockFree, RecomputeFailures} \subseteq BOOLEAN
    /\ RequiresDelivery \subseteq BOOLEAN
ASSUME SubsetsAssumption ==
    /\ RemoteReqs \cup SendReqs \cup Aborts \subseteq Requests
    /\ "UNPAUSED" \in PauseStates
    /\ PauseStates \subseteq {"UNPAUSED", "PAUSED_NEW", "PAUSED_ALL"}

VARIABLES pc,
          req,                \* the Request objects
          running, waiting, skipped_waiting,
          inflight_prefills,  \* _inflight_prefills
          finished_req_ids,
          pause_state,
          sched_lag,          \* sched_step_seq - processed_step_seq
          deferred_frees,     \* fences (relative) and blocks
          step,               \* locals of the schedule() in progress
          batch_queue,        \* dispatched steps, oldest first
          todo,               \* scheduled requests update_from_output has left
          kvx,                \* KV transfers: connector and worker
          runner,             \* the sequence length the model runner knows
          content,            \* ghost: the prefix whose KV a block holds
          resets

queueVars == <<running, waiting, skipped_waiting>>
fenceVars == <<sched_lag, deferred_frees>>
engineVars == <<step, batch_queue, todo>>
vars == <<kvVars, pc, req, queueVars, inflight_prefills, finished_req_ids,
          pause_state, fenceVars, engineVars, kvx, runner, content, resets>>

NoStep == [i |-> 1, budget |-> 0, sched |-> <<>>, preempted |-> FALSE, skipped |-> <<>>]

Init ==
    /\ KVInit
    /\ pc = "idle"
    /\ req = [r \in Requests |->
                [status |-> "NONE", num_tokens |-> PromptLen[r], computed |-> 0,
                 in_flight |-> 0, placeholders |-> 0, stale |-> 0, drop |-> FALSE,
                 preempted |-> FALSE, lag |-> 0]]
    /\ running = <<>> /\ waiting = <<>> /\ skipped_waiting = <<>>
    /\ inflight_prefills = {} /\ finished_req_ids = {}
    /\ pause_state = "UNPAUSED"
    /\ sched_lag = 0 /\ deferred_frees = <<>>
    /\ step = NoStep /\ batch_queue = <<>> /\ todo = <<>>
    /\ \E required \in RequiresDelivery :
         kvx = [requires_delivery |-> required, remote |-> RemoteReqs, loading |-> {},
                arrived |-> {}, recvd |-> {}, failed |-> {}, errors |-> {}, sending |-> {},
                sent |-> {}, push |-> FALSE]
    /\ runner = [r \in Requests |-> 0]
    /\ content = [b \in Blocks |-> NoHash]
    /\ resets = 0

-----------------------------------------------------------------------------
(* Request queues (request_queue.py).                                       *)

\* Request.__lt__: priority, then arrival.
Before(r, s) == Priority[r] < Priority[s] \/ (Priority[r] = Priority[s] /\ r < s)

HeapAdd(q, r) ==
    SelectSeq(q, LAMBDA s : Before(s, r)) \o <<r>> \o SelectSeq(q, LAMBDA s : Before(r, s))

AddTo(q, r) == IF Policy = "fcfs" THEN Append(q, r) ELSE HeapAdd(q, r)
PrependTo(q, r) == IF Policy = "fcfs" THEN <<r>> \o q ELSE HeapAdd(q, r)

\* prepend_requests: a deque is extended on the left, which reverses s.
PrependAll(q, s) == IF Policy = "fcfs" THEN Reverse(s) \o q ELSE FoldLeft(HeapAdd, q, s)

Without(q, r) == SelectSeq(q, LAMBDA s : s # r)

\* _select_waiting_queue_for_scheduling
SelectSkipped ==
    IF Policy = "fcfs" \/ waiting = <<>> \/ skipped_waiting = <<>>
    THEN skipped_waiting # <<>>
    ELSE ~Before(Head(waiting), Head(skipped_waiting))

WaitingHead == Head(IF SelectSkipped THEN skipped_waiting ELSE waiting)

PopWaiting ==
    IF SelectSkipped
    THEN skipped_waiting' = Tail(skipped_waiting) /\ UNCHANGED waiting
    ELSE waiting' = Tail(waiting) /\ UNCHANGED skipped_waiting

-----------------------------------------------------------------------------
(* Freeing.                                                                 *)

Finished(r) == req[r].status \in {"FINISHED", "DONE"}

\* Blocks referenced by someone other than the table of r.
LiveWithout(r) ==
    UNION {ToSet(table[s]) : s \in Requests \ {r}}
    \cup UNION {ToSet(d.blocks) : d \in ToSet(deferred_frees)}

\* Mutant: blocks are freed although a step in flight may write them.
AlwaysFreed(r) == TRUE

\* _request_blocks_can_be_freed
BlocksCanBeFreed(r) == ~DeferBlockFree \/ req[r].lag = 0

\* _free_request_blocks, given the hashes at that moment.
FreeRequestBlocks(r, hash) ==
    /\ PopBlocks(r)
    /\ IF BlocksCanBeFreed(r)
       THEN /\ free' = Freed(table[r], LiveWithout(r), hash)
            /\ UNCHANGED deferred_frees
       ELSE /\ deferred_frees' = IF table[r] = <<>> THEN deferred_frees
                                 ELSE Append(deferred_frees,
                                             [fence |-> sched_lag, blocks |-> table[r]])
            /\ UNCHANGED free

\* _free_request of the finished r; the connector may keep the blocks (delay).
\* The new Request object is given as q.
FreeRequest(r, q, delay, hash) ==
    /\ inflight_prefills' = inflight_prefills \ {r}
    /\ finished_req_ids' = finished_req_ids \cup {r}
    /\ IF delay
       THEN /\ req' = [req EXCEPT ![r] = [q EXCEPT !.status = "FINISHED"]]
            /\ UNCHANGED <<free, table, num_cached, deferred_frees>>
       ELSE /\ req' = [req EXCEPT ![r] = [q EXCEPT !.status = "DONE"]]
            /\ FreeRequestBlocks(r, hash)

\* Mutant: the preempted request is not queued again.
PreemptForgets(r, drop) ==
    /\ FreeRequestBlocks(r, block_hash)
    /\ inflight_prefills' = inflight_prefills \ {r}
    /\ req' = [req EXCEPT ![r].status = "PREEMPTED", ![r].computed = 0,
                          ![r].stale = req[r].in_flight, ![r].placeholders = 0]
    /\ UNCHANGED <<block_hash, waiting, skipped_waiting>>

\* _preempt_request; the caller has taken r off the running queue.
PreemptRequest(r, drop) ==
    /\ FreeRequestBlocks(r, block_hash)
    /\ inflight_prefills' = inflight_prefills \ {r}
    /\ req' = [req EXCEPT ![r] =
                 [@ EXCEPT !.status = "PREEMPTED", !.computed = 0,
                           !.drop = drop \/ (@ /\ req[r].stale > 0),
                           !.stale = req[r].in_flight, !.placeholders = 0,
                           !.preempted = TRUE]]
    /\ waiting' = PrependTo(waiting, r)
    /\ UNCHANGED <<block_hash, skipped_waiting>>

-----------------------------------------------------------------------------
(* schedule(): the running requests.                                        *)

\* has_unfinished_requests and has_requests.
HasUnfinished ==
    CASE pause_state = "PAUSED_ALL" -> FALSE
      [] pause_state = "PAUSED_NEW" -> running # <<>>
      [] OTHER -> running # <<>> \/ waiting # <<>> \/ skipped_waiting # <<>>

HasRequests ==
    \/ HasUnfinished
    \/ finished_req_ids # {}
    \/ \E r \in Requests : req[r].status = "FINISHED"
    \/ kvx.push    \* connector.has_pending_push_work()

StartSchedule ==
    /\ pc = "idle" /\ HasRequests
    /\ pc' = "running"
    /\ step' = [NoStep EXCEPT !.budget = IF pause_state = "PAUSED_ALL" THEN 0 ELSE TokenBudget]
    /\ UNCHANGED <<kvVars, req, queueVars, inflight_prefills, finished_req_ids, pause_state,
                   fenceVars, batch_queue, todo, kvx, runner, content, resets>>

InRunningLoop == pc = "running" /\ step.i <= Len(running) /\ step.budget > 0
Current == running[step.i]

\* The step in flight is sure to reach max_tokens.
AtMaxTokens(r) ==
    /\ req[r].placeholders > 0
    /\ req[r].computed + 2 - req[r].placeholders >= PromptLen[r] + MaxTokens

\* long_prefill_token_threshold bounds the tokens of one request in one step.
Chunk(n) == IF LongPrefill \in 1 .. n THEN LongPrefill ELSE n

NumNewRunning(r) ==
    Min({Chunk(req[r].num_tokens + req[r].placeholders - req[r].computed),
         step.budget,
         MaxModelLen - req[r].computed - 1})

RunSkip ==
    /\ InRunningLoop
    /\ AtMaxTokens(Current) \/ NumNewRunning(Current) = 0
    /\ step' = [step EXCEPT !.i = @ + 1]
    /\ UNCHANGED <<kvVars, pc, req, queueVars, inflight_prefills, finished_req_ids,
                   pause_state, fenceVars, batch_queue, todo, kvx, runner, content, resets>>

Wanted == InRunningLoop /\ ~AtMaxTokens(Current) /\ NumNewRunning(Current) # 0

CanExtend(r, n) == NumBlocksToAllocate(r, <<>>, req[r].computed + n) <= Len(free)

RunSchedule ==
    /\ Wanted
    /\ LET r == Current
           n == NumNewRunning(r)
       IN  /\ CanExtend(r, n)
           /\ AllocateSlots(r, <<>>, req[r].computed + n,
                            Min({req[r].computed + n, req[r].num_tokens}))
           /\ step' = [step EXCEPT !.i = @ + 1, !.budget = @ - n,
                                   !.sched = Append(@, [r |-> r, n |-> n])]
    /\ UNCHANGED <<pc, req, queueVars, inflight_prefills, finished_req_ids, pause_state,
                   fenceVars, batch_queue, todo, kvx, runner, content, resets>>

\* The request to preempt: the last one, or the one of lowest priority.
Victim ==
    IF Policy = "fcfs" THEN Last(running)
    ELSE CHOOSE v \in ToSet(running) : \A s \in ToSet(running) \ {v} : Before(s, v)

ScheduledTokens(r) == MapThenSumSet(LAMBDA e : e.n, {e \in ToSet(step.sched) : e.r = r})

\* Mutant: the tokens of the un-scheduled victim are not given back.
RunPreemptKeepsBudget ==
    /\ Wanted
    /\ ~CanExtend(Current, NumNewRunning(Current))
    /\ BlocksCanBeFreed(Victim)
    /\ PreemptRequest(Victim, kvx.requires_delivery)
    /\ running' = Without(running, Victim)
    /\ step' = [step EXCEPT
                  !.i = IF \E j \in 1 .. step.i - 1 : running[j] = Victim THEN @ - 1 ELSE @,
                  !.sched = SelectSeq(@, LAMBDA e : e.r # Victim),
                  !.preempted = TRUE]
    /\ pc' = IF Victim = Current THEN "finish" ELSE "running"
    /\ UNCHANGED <<finished_req_ids, pause_state, sched_lag, batch_queue, todo, kvx, runner,
                   content, resets>>

RunPreempt ==
    /\ Wanted
    /\ ~CanExtend(Current, NumNewRunning(Current))
    /\ BlocksCanBeFreed(Victim)
    /\ PreemptRequest(Victim, kvx.requires_delivery)
    /\ running' = Without(running, Victim)
    /\ step' = [step EXCEPT
                  !.i = IF \E j \in 1 .. step.i - 1 : running[j] = Victim
                        THEN @ - 1 ELSE @,
                  !.budget = @ + ScheduledTokens(Victim),
                  !.sched = SelectSeq(@, LAMBDA e : e.r # Victim),
                  !.preempted = TRUE]
    /\ pc' = IF Victim = Current THEN "finish" ELSE "running"
    /\ UNCHANGED <<finished_req_ids, pause_state, sched_lag, batch_queue, todo, kvx, runner,
                   content, resets>>

\* The running loop ends: no request or no budget is left, or the victim's
\* blocks could not be reused at once.
RunEnd ==
    /\ pc = "running"
    /\ \/ ~InRunningLoop
       \/ /\ Wanted
          /\ ~CanExtend(Current, NumNewRunning(Current))
          /\ ~BlocksCanBeFreed(Victim)
    /\ pc' = IF ~step.preempted /\ pause_state = "UNPAUSED" THEN "waiting" ELSE "finish"
    /\ UNCHANGED <<kvVars, req, queueVars, inflight_prefills, finished_req_ids, pause_state,
                   fenceVars, engineVars, kvx, runner, content, resets>>

-----------------------------------------------------------------------------
(* schedule(): the waiting requests.                                        *)

InWaitingLoop ==
    /\ pc = "waiting"
    /\ waiting # <<>> \/ skipped_waiting # <<>>
    /\ step.budget > 0
    /\ Len(running) < MaxNumSeqs

IsBlocked(r) == req[r].status = "WAITING_FOR_REMOTE_KVS"
OutputPending(r) == req[r].stale > 0 /\ ~req[r].drop

\* The head of the waiting requests is passed over in this step.
PassOver ==
    /\ PopWaiting
    /\ step' = [step EXCEPT !.skipped = PrependTo(@, WaitingHead)]
    /\ UNCHANGED <<kvVars, pc, req, running, inflight_prefills, finished_req_ids, pause_state,
                   fenceVars, batch_queue, todo, kvx, runner, content, resets>>

\* A request that still waits for its KV, or for output that was in flight when
\* it was preempted, is passed over.
WaitSkip ==
    /\ InWaitingLoop
    /\ \/ IsBlocked(WaitingHead) /\ WaitingHead \notin kvx.recvd
       \/ ~IsBlocked(WaitingHead) /\ OutputPending(WaitingHead)
    /\ PassOver

\* _try_promote_blocked_waiting_request, _update_waiting_for_remote_kv
WaitPromote ==
    /\ InWaitingLoop
    /\ LET r == WaitingHead
           c == req[r].computed
           failed == r \in kvx.failed
       IN  /\ IsBlocked(r) /\ r \in kvx.recvd
           /\ req' = [req EXCEPT ![r] =
                        [@ EXCEPT !.status = IF req[r].preempted THEN "PREEMPTED" ELSE "WAITING",
                                  !.computed = IF ~failed /\ c = req[r].num_tokens
                                               THEN c - 1 ELSE c]]
           /\ IF failed /\ c = 0
              THEN /\ PopBlocks(r)
                   /\ free' = Freed(table[r], LiveWithout(r), block_hash)
                   /\ UNCHANGED block_hash
              ELSE CacheBlocks(r, c) /\ UNCHANGED <<free, table>>
           /\ kvx' = [kvx EXCEPT !.recvd = @ \ {r}, !.failed = @ \ {r}]
    /\ UNCHANGED <<pc, queueVars, inflight_prefills, finished_req_ids, pause_state, fenceVars,
                   engineVars, runner, content, resets>>

Ready == InWaitingLoop /\ ~IsBlocked(WaitingHead) /\ ~OutputPending(WaitingHead)

\* The ways in which the cache and the connector can answer for r: the blocks
\* hit, and the number of tokens the connector will load asynchronously.
\* A request that already has computed tokens asks neither.
Lookups(r) ==
    IF req[r].computed > 0
    THEN {[hits |-> <<>>, local |-> req[r].computed, ext |-> 0]}
    ELSE LET h == GetComputedBlocks(r, req[r].num_tokens)
             L(s) == Len(s) * BlockSize
         IN  {[hits |-> s, local |-> L(s),
               ext |-> IF r \in kvx.remote /\ L(s) < PromptLen[r] THEN PromptLen[r] - L(s) ELSE 0] :
               s \in h}

\* _request_remaining_blocks over _inflight_prefills
ReservedBlocks ==
    MapThenSumSet(LAMBDA r : Max({0, NumRequired(req[r].num_tokens) - Len(table[r])}),
                  inflight_prefills)

\* allocate_slots has room for r: n new tokens after the lookup l.
CanAdmit(r, l, n) ==
    LET headroom == IF running # <<>> THEN Watermark ELSE 0
    IN  /\ ReserveFullISL =>
              NumBlocksToAllocate(r, l.hits, req[r].num_tokens) + headroom <= Len(free)
        /\ NumBlocksToAllocate(r, l.hits, l.local + l.ext + n) + headroom
              <= Len(free) - (IF l.ext > 0 THEN ReservedBlocks ELSE 0)

NumNewWaiting(r, l) ==
    IF l.ext > 0 THEN 0 ELSE Min({Chunk(req[r].num_tokens - l.local), step.budget})

\* The request starts to run.
Admit(r, l) ==
    LET n == NumNewWaiting(r, l)
    IN  /\ l.ext = 0 /\ CanAdmit(r, l, n)
        /\ AllocateSlots(r, l.hits, l.local + n, l.local + n)
        /\ req' = [req EXCEPT ![r].status = "RUNNING", ![r].computed = l.local]
        /\ running' = Append(running, r)
        /\ PopWaiting
        /\ step' = [step EXCEPT !.budget = @ - n, !.sched = Append(@, [r |-> r, n |-> n])]
        /\ inflight_prefills' = IF l.local + n < req[r].num_tokens
                                THEN inflight_prefills \cup {r}
                                ELSE inflight_prefills
        /\ runner' = [runner EXCEPT ![r] = req[r].num_tokens]
        /\ UNCHANGED <<pc, finished_req_ids, pause_state, fenceVars, batch_queue, todo, kvx,
                       content, resets>>

WaitAdmit == Ready /\ \E l \in Lookups(WaitingHead) : Admit(WaitingHead, l)

\* The connector loads the KV of the request asynchronously: slots are taken,
\* nothing is cached (delay_cache_blocks) and nothing runs yet.
Load(r, l) ==
    /\ l.ext > 0 /\ CanAdmit(r, l, 0)
    /\ AllocateSlots(r, l.hits, l.local + l.ext, 0)
    /\ req' = [req EXCEPT ![r].status = "WAITING_FOR_REMOTE_KVS",
                          ![r].computed = l.local + l.ext]
    /\ PopWaiting
    /\ step' = [step EXCEPT !.skipped = PrependTo(@, r)]
    /\ inflight_prefills' = inflight_prefills \cup {r}
    /\ kvx' = [kvx EXCEPT !.remote = @ \ {r}, !.loading = @ \cup {r}]
    /\ UNCHANGED <<pc, running, finished_req_ids, pause_state, fenceVars, batch_queue, todo,
                   runner, content, resets>>

WaitLoad == Ready /\ \E l \in Lookups(WaitingHead) : Load(WaitingHead, l)

\* There is no room for the request: the waiting loop stops.
NoRoom(r, l) == ~CanAdmit(r, l, NumNewWaiting(r, l))

\* Mutant: requests that were passed over are not queued again.
WaitEndForgets ==
    /\ pc = "waiting"
    /\ \/ ~InWaitingLoop
       \/ Ready /\ \E l \in Lookups(WaitingHead) : NoRoom(WaitingHead, l)
    /\ step' = [step EXCEPT !.skipped = <<>>]
    /\ pc' = "finish"
    /\ UNCHANGED <<kvVars, req, queueVars, inflight_prefills, finished_req_ids,
                   pause_state, fenceVars, batch_queue, todo, kvx, runner, content, resets>>

\* The waiting loop ends; what it passed over goes ahead of older skipped requests.
StopWaiting ==
    /\ skipped_waiting' = PrependAll(skipped_waiting, step.skipped)
    /\ step' = [step EXCEPT !.skipped = <<>>]
    /\ pc' = "finish"
    /\ UNCHANGED <<kvVars, req, running, waiting, inflight_prefills, finished_req_ids,
                   pause_state, fenceVars, batch_queue, todo, kvx, runner, content, resets>>

WaitEnd ==
    /\ pc = "waiting"
    /\ \/ ~InWaitingLoop
       \/ Ready /\ \E l \in Lookups(WaitingHead) : NoRoom(WaitingHead, l)
    /\ StopWaiting

-----------------------------------------------------------------------------
(* The end of schedule(): _update_after_schedule, and dispatch of the step.  *)

NextComputed(r) == req[r].computed + ScheduledTokens(r)
IsPrefillChunk(r) == NextComputed(r) < req[r].num_tokens + req[r].placeholders

\* What the worker is given for r: the tokens to compute, the position of the
\* token it samples (0: none, the runner's sequence goes on), and the blocks
\* it writes.
StepEntry(r) ==
    [r |-> r, n |-> ScheduledTokens(r),
     pos |-> IF NextComputed(r) = runner[r] THEN runner[r] + 1 ELSE 0,
     writes |-> IF DeferBlockFree
                THEN {<<table[r][k], BlockHash(r, k)>> :
                        k \in req[r].computed \div BlockSize + 1 .. NumRequired(NextComputed(r))}
                ELSE {}]

\* The KV of the first n tokens of r is in its blocks.
WrittenBy(r, from, n) ==
    [k \in from \div BlockSize + 1 .. NumRequired(n) |->
        IF k * BlockSize <= n THEN BlockHash(r, k) ELSE NoHash]

\* The blocks once the tokens from[r] to to[r] of each r in the domain are written.
ContentAfter(from, to) ==
    LET written == [r \in DOMAIN from |-> WrittenBy(r, from[r], to[r])]
    IN  [b \in Blocks |->
            LET hits == {w \in (DOMAIN from) \X (1 .. NumBlocks) :
                            w[2] \in DOMAIN written[w[1]] /\ table[w[1]][w[2]] = b}
            IN  IF hits = {} THEN content[b]
                ELSE LET w == CHOOSE h \in hits : TRUE IN written[w[1]][w[2]]]

FinishSchedule ==
    /\ pc = "finish"
    /\ LET S == {e.r : e \in ToSet(step.sched)}
           executed == S # {}
       IN  /\ sched_lag' = IF DeferBlockFree /\ executed THEN sched_lag + 1 ELSE sched_lag
           /\ req' = [r \in Requests |->
                        IF r \notin S THEN req[r] ELSE
                        [req[r] EXCEPT
                          !.computed = NextComputed(r),
                          !.in_flight = @ + ScheduledTokens(r),
                          !.lag = IF DeferBlockFree THEN sched_lag' ELSE @,
                          !.placeholders = IF AsyncScheduling /\ ~IsPrefillChunk(r)
                                           THEN @ + 1 ELSE @]]
           /\ inflight_prefills' = inflight_prefills \ {r \in S : ~IsPrefillChunk(r)}
           /\ finished_req_ids' = {}
           /\ batch_queue' = Append(batch_queue,
                                    [j \in DOMAIN step.sched |-> StepEntry(step.sched[j].r)])
           /\ runner' = [r \in Requests |->
                           IF r \in S /\ NextComputed(r) = runner[r] THEN runner[r] + 1
                           ELSE runner[r]]
           /\ content' = ContentAfter([r \in S |-> req[r].computed],
                                      [r \in S |-> NextComputed(r)])
           /\ step' = NoStep
           /\ UNCHANGED <<kvVars, queueVars, pause_state, deferred_frees, todo, kvx, resets>>
           /\ pc' = IF Len(batch_queue') < QueueSize /\ (executed \/ HasRequests')
                    THEN "idle" ELSE "pop"

-----------------------------------------------------------------------------
(* update_from_output().                                                    *)

\* With nothing to schedule the engine waits for the oldest step.
PopBatch ==
    /\ pc = "idle" /\ ~HasRequests /\ batch_queue # <<>>
    /\ pc' = "pop"
    /\ UNCHANGED <<kvVars, req, queueVars, inflight_prefills, finished_req_ids, pause_state,
                   fenceVars, engineVars, kvx, runner, content, resets>>

Decrement(n) == Max({0, n - 1})

\* The fence advances, and requests whose asynchronous load failed fall back to
\* the blocks before the first bad one (or fail).
BeginUpdate ==
    /\ pc = "pop"
    /\ todo' = Head(batch_queue) /\ batch_queue' = Tail(batch_queue)
    /\ LET passed == DeferBlockFree /\ todo' # <<>>
           Lag(n) == IF passed THEN Decrement(n) ELSE n
       IN  \E F \in SUBSET {r \in kvx.arrived : IsBlocked(r)} :
           \E valid \in [F -> 0 .. NumBlocks - 1] :
             /\ \A r \in F : valid[r] >= num_cached[r] /\ valid[r] < NumRequired(req[r].computed)
             /\ sched_lag' = Lag(sched_lag)
             /\ deferred_frees' = [d \in DOMAIN deferred_frees |->
                                     [deferred_frees[d] EXCEPT !.fence = Lag(@)]]
             /\ req' = [r \in Requests |->
                          [req[r] EXCEPT !.lag = Lag(@),
                                         !.computed = IF r \in F THEN valid[r] * BlockSize ELSE @]]
             /\ kvx' = [kvx EXCEPT !.failed = IF RecomputeFailures THEN @ \cup F ELSE @,
                                   !.errors = IF RecomputeFailures THEN {} ELSE F]
             /\ content' = [b \in Blocks |->
                              IF \E r \in F : \E k \in valid[r] + 1 .. Len(table[r]) :
                                    table[r][k] = b
                              THEN NoHash ELSE content[b]]
    /\ pc' = "drain"
    /\ UNCHANGED <<kvVars, queueVars, inflight_prefills, finished_req_ids, pause_state, step,
                   runner, resets>>

FencePassed == deferred_frees # <<>> /\ Head(deferred_frees).fence = 0

\* Mutant: the drained blocks do not reach the pool.
DrainForgets ==
    /\ pc = "drain" /\ FencePassed
    /\ deferred_frees' = Tail(deferred_frees)
    /\ UNCHANGED <<kvVars, pc, req, queueVars, inflight_prefills,
                   finished_req_ids, pause_state, sched_lag, engineVars, kvx, runner, content,
                   resets>>

\* _drain_deferred_frees
DrainOne ==
    /\ pc = "drain" /\ FencePassed
    /\ deferred_frees' = Tail(deferred_frees)
    /\ LET live == UNION {ToSet(table[r]) : r \in Requests}
                   \cup UNION {ToSet(d.blocks) : d \in ToSet(Tail(deferred_frees))}
       IN  free' = Freed(Head(deferred_frees).blocks, live, block_hash)
    /\ UNCHANGED <<table, num_cached, block_hash, pc, req, queueVars, inflight_prefills,
                   finished_req_ids, pause_state, sched_lag, engineVars, kvx, runner, content,
                   resets>>

DrainEnd ==
    /\ pc = "drain" /\ ~FencePassed
    /\ pc' = "update"
    /\ UNCHANGED <<kvVars, req, queueVars, inflight_prefills, finished_req_ids, pause_state,
                   fenceVars, engineVars, kvx, runner, content, resets>>

\* Mutant: the stale share is not drained.
LandedKeepsStale(e) == [req[e.r] EXCEPT !.in_flight = @ - e.n]

\* The Request once its share of the step is no longer in flight.
Landed(e) ==
    [req[e.r] EXCEPT !.in_flight = @ - e.n, !.stale = IF @ > 0 THEN @ - e.n ELSE 0]

IsStale(e) == req[e.r].stale > 0

\* Mutant: drop mode is not looked at.
DeliversDropped(e) == ~Finished(e.r) /\ e.pos # 0

Delivers(e) == ~Finished(e.r) /\ ~(IsStale(e) /\ req[e.r].drop) /\ e.pos # 0

UpdateSkip ==
    /\ pc = "update" /\ todo # <<>> /\ ~Delivers(Head(todo))
    /\ LET e == Head(todo)
       IN  req' = IF req[e.r].status = "DONE" THEN req ELSE [req EXCEPT ![e.r] = Landed(e)]
    /\ todo' = Tail(todo)
    /\ UNCHANGED <<kvVars, pc, queueVars, inflight_prefills, finished_req_ids, pause_state,
                   fenceVars, step, batch_queue, kvx, runner, content, resets>>

\* _update_request_with_output: the token is appended; the AsyncScheduler gives
\* up a placeholder for it, unless the output is stale.
WithToken(e) ==
    [Landed(e) EXCEPT !.num_tokens = @ + 1,
                      !.placeholders = IF AsyncScheduling /\ ~IsStale(e) THEN @ - 1 ELSE @]

\* ... and caches what is now final, if the request runs.
HashesAfter(e) ==
    IF AsyncScheduling /\ req[e.r].status = "RUNNING"
    THEN HashesWith(block_hash, e.r, table[e.r], num_cached[e.r],
                    WithToken(e).computed - WithToken(e).placeholders)
    ELSE block_hash

CachedAfter(e) ==
    IF AsyncScheduling /\ req[e.r].status = "RUNNING"
    THEN NumCachedWith(num_cached[e.r], WithToken(e).computed - WithToken(e).placeholders)
    ELSE num_cached[e.r]

\* check_stop: the length limits; stop tokens may end a request at any time.
AtLimit(e) ==
    \/ WithToken(e).num_tokens >= MaxModelLen
    \/ WithToken(e).num_tokens - PromptLen[e.r] >= MaxTokens

UpdateToken ==
    /\ pc = "update" /\ todo # <<>>
    /\ LET e == Head(todo)
       IN  /\ Delivers(e) /\ ~AtLimit(e)
           /\ req' = [req EXCEPT ![e.r] = WithToken(e)]
           /\ block_hash' = HashesAfter(e)
           /\ num_cached' = [num_cached EXCEPT ![e.r] = CachedAfter(e)]
    /\ todo' = Tail(todo)
    /\ UNCHANGED <<free, table, pc, queueVars, inflight_prefills, finished_req_ids, pause_state,
                   fenceVars, step, batch_queue, kvx, runner, content, resets>>

\* connector.request_finished may ask to keep the blocks until they are sent.
SendDelays(r) == IF r \in SendReqs THEN BOOLEAN ELSE {FALSE}

UpdateStop ==
    /\ pc = "update" /\ todo # <<>>
    /\ LET e == Head(todo)
           r == e.r
       IN  /\ Delivers(e)
           /\ \E delay \in SendDelays(r) :
                /\ FreeRequest(r, WithToken(e), delay, HashesAfter(e))
                /\ kvx' = IF delay THEN [kvx EXCEPT !.sending = @ \cup {r}] ELSE kvx
           /\ block_hash' = HashesAfter(e)
           /\ running' = Without(running, r)
           /\ waiting' = Without(waiting, r)
           /\ skipped_waiting' = Without(skipped_waiting, r)
    /\ todo' = Tail(todo)
    /\ UNCHANGED <<pc, pause_state, sched_lag, step, batch_queue, runner, content, resets>>

UpdateEnd ==
    /\ pc = "update" /\ todo = <<>>
    /\ pc' = "xfer"
    /\ UNCHANGED <<kvVars, req, queueVars, inflight_prefills, finished_req_ids, pause_state,
                   fenceVars, engineVars, kvx, runner, content, resets>>

\* Mutant: the blocks of a request being loaded are freed at once.
FinishDuringLoad(r, delay) ==
    /\ running' = Without(running, r)
    /\ waiting' = Without(waiting, r)
    /\ skipped_waiting' = Without(skipped_waiting, r)
    /\ FreeRequest(r, req[r], delay, block_hash)
    /\ UNCHANGED block_hash

\* finish_requests(r): off the queues, then freed, unless its KV is still being
\* loaded or the connector still sends it.
FinishRequest(r, delay) ==
    /\ running' = Without(running, r)
    /\ waiting' = Without(waiting, r)
    /\ skipped_waiting' = Without(skipped_waiting, r)
    /\ FreeRequest(r, req[r], delay \/ (IsBlocked(r) /\ r \notin kvx.recvd), block_hash)
    /\ UNCHANGED block_hash

\* Requests whose KV could not be loaded are failed, if they are not recomputed.
FinishError ==
    /\ pc = "xfer"
    /\ \E r \in kvx.errors :
         /\ FinishRequest(r, FALSE)
         /\ kvx' = [kvx EXCEPT !.errors = @ \ {r}, !.recvd = @ \ {r}, !.failed = @ \ {r}]
    /\ UNCHANGED <<pc, pause_state, sched_lag, engineVars, runner, content, resets>>

\* _free_blocks of a request that finished earlier.
FreeBlocks(r) ==
    /\ FreeRequestBlocks(r, block_hash)
    /\ req' = [req EXCEPT ![r].status = "DONE"]
    /\ UNCHANGED block_hash

\* _update_from_kv_xfer_finished, finished_recving: the request can be promoted,
\* or, if it was aborted meanwhile, its blocks can be freed at last.
RecvFinished ==
    /\ pc = "xfer" /\ kvx.errors = {}
    /\ \E r \in kvx.arrived :
         /\ IF IsBlocked(r)
            THEN /\ kvx' = [kvx EXCEPT !.recvd = @ \cup {r}, !.loading = @ \ {r},
                                       !.arrived = @ \ {r}]
                 /\ UNCHANGED <<kvVars, req, deferred_frees>>
            ELSE /\ kvx' = [kvx EXCEPT !.loading = @ \ {r}, !.arrived = @ \ {r}]
                 /\ FreeBlocks(r)
    /\ UNCHANGED <<pc, queueVars, inflight_prefills, finished_req_ids, pause_state, sched_lag,
                   engineVars, runner, content, resets>>

\* ... finished_sending
SendFinished ==
    /\ pc = "xfer" /\ kvx.errors = {}
    /\ \E r \in kvx.sent :
         /\ kvx' = [kvx EXCEPT !.sending = @ \ {r}, !.sent = @ \ {r}]
         /\ FreeBlocks(r)
    /\ UNCHANGED <<pc, queueVars, inflight_prefills, finished_req_ids, pause_state, sched_lag,
                   engineVars, runner, content, resets>>

XferEnd ==
    /\ pc = "xfer" /\ kvx.errors = {} /\ kvx.arrived = {} /\ kvx.sent = {}
    /\ pc' = "idle"
    /\ UNCHANGED <<kvVars, req, queueVars, inflight_prefills, finished_req_ids, pause_state,
                   fenceVars, engineVars, kvx, runner, content, resets>>

-----------------------------------------------------------------------------
(* Client requests, and the transfers of the worker.                        *)

\* add_request
AddRequest(r) ==
    /\ pc = "idle" /\ req[r].status = "NONE"
    /\ req' = [req EXCEPT ![r].status = "WAITING"]
    /\ waiting' = AddTo(waiting, r)
    /\ UNCHANGED <<kvVars, pc, running, skipped_waiting, inflight_prefills, finished_req_ids,
                   pause_state, fenceVars, engineVars, kvx, runner, content, resets>>

\* abort_requests, from the input queue or while a step's result is awaited.
Abort(r) ==
    /\ pc \in {"idle", "pop"}
    /\ ~Finished(r) /\ req[r].status # "NONE"
    /\ \E delay \in SendDelays(r) :
         /\ delay => ~IsBlocked(r)
         /\ FinishRequest(r, delay)
         /\ kvx' = [kvx EXCEPT !.recvd = @ \ {r}, !.failed = @ \ {r},
                               !.sending = IF delay THEN @ \cup {r} ELSE @]
    /\ UNCHANGED <<pc, pause_state, sched_lag, engineVars, runner, content, resets>>

SetPauseState(p) ==
    /\ pc = "idle" /\ pause_state # p
    /\ pause_state' = p
    /\ UNCHANGED <<kvVars, pc, req, queueVars, inflight_prefills, finished_req_ids, fenceVars,
                   engineVars, kvx, runner, content, resets>>

\* reset_prefix_cache(reset_running_requests=True): preempt from the back.
ResetStart ==
    /\ pc = "idle" /\ resets < MaxResets
    /\ pc' = "reset" /\ resets' = resets + 1
    /\ UNCHANGED <<kvVars, req, queueVars, inflight_prefills, finished_req_ids, pause_state,
                   fenceVars, engineVars, kvx, runner, content>>

ResetPreempt ==
    /\ pc = "reset" /\ running # <<>>
    /\ PreemptRequest(Last(running), TRUE)
    /\ running' = Front(running)
    /\ UNCHANGED <<pc, finished_req_ids, pause_state, sched_lag, engineVars, kvx, runner,
                   content, resets>>

ResetEnd ==
    /\ pc = "reset" /\ running = <<>>
    /\ ResetPrefixCache
    /\ pc' = "idle"
    /\ UNCHANGED <<req, queueVars, inflight_prefills, finished_req_ids, pause_state, fenceVars,
                   engineVars, kvx, runner, content, resets>>

\* The worker has loaded the KV of r (some of it may yet be reported invalid).
LoadArrives(r) ==
    /\ pc = "idle" /\ r \in kvx.loading \ kvx.arrived
    /\ kvx' = [kvx EXCEPT !.arrived = @ \cup {r}]
    /\ content' = ContentAfter([s \in {r} |-> num_cached[s] * BlockSize],
                               [s \in {r} |-> req[s].computed])
    /\ UNCHANGED <<kvVars, pc, req, queueVars, inflight_prefills, finished_req_ids, pause_state,
                   fenceVars, engineVars, runner, resets>>

\* The KV of the finished r has been sent.
SendArrives(r) ==
    /\ pc = "idle" /\ r \in kvx.sending \ kvx.sent
    /\ kvx' = [kvx EXCEPT !.sent = @ \cup {r}]
    /\ UNCHANGED <<kvVars, pc, req, queueVars, inflight_prefills, finished_req_ids, pause_state,
                   fenceVars, engineVars, runner, content, resets>>

\* Every request has come and gone and the engine waits for input.
Quiescent ==
    /\ pc = "idle" /\ ~HasRequests /\ batch_queue = <<>>
    /\ \A r \in Requests : req[r].status = "DONE"
    /\ UNCHANGED vars

Engine ==
    \/ StartSchedule \/ RunSkip \/ RunSchedule \/ RunPreempt \/ RunEnd
    \/ WaitSkip \/ WaitPromote \/ WaitAdmit \/ WaitLoad \/ WaitEnd \/ FinishSchedule
    \/ PopBatch \/ BeginUpdate \/ DrainOne \/ DrainEnd
    \/ UpdateSkip \/ UpdateToken \/ UpdateStop \/ UpdateEnd
    \/ FinishError \/ RecvFinished \/ SendFinished \/ XferEnd
    \/ ResetPreempt \/ ResetEnd

Next ==
    \/ Engine
    \/ \E r \in Requests : AddRequest(r)
    \/ \E r \in Aborts : Abort(r)
    \/ \E p \in PauseStates : SetPauseState(p)
    \/ ResetStart
    \/ \E r \in RemoteReqs : LoadArrives(r)
    \/ \E r \in SendReqs : SendArrives(r)
    \/ Quiescent

Spec == Init /\ [][Next]_vars

-----------------------------------------------------------------------------
(* Properties.                                                              *)

Statuses == {"NONE", "WAITING", "WAITING_FOR_REMOTE_KVS", "RUNNING", "PREEMPTED",
             "FINISHED", "DONE"}

\* The variables have the values the fields of the code's objects can have; in
\* particular no counter goes below zero (the asserts of update_from_output).
TypeOK ==
    /\ pc \in {"idle", "running", "waiting", "finish", "pop", "drain", "update", "xfer", "reset"}
    /\ \A r \in Requests :
         /\ req[r].status \in Statuses
         /\ req[r].num_tokens \in PromptLen[r] .. MaxModelLen
         /\ req[r].computed \in 0 .. MaxModelLen
         /\ {req[r].in_flight, req[r].placeholders, req[r].stale, req[r].lag} \subseteq Nat
         /\ ToSet(table[r]) \subseteq Blocks
    /\ ToSet(free) \subseteq Blocks
    /\ step.budget \in 0 .. TokenBudget /\ sched_lag \in 0 .. QueueSize
    /\ Len(batch_queue) <= QueueSize

\* A request is in the queue its status names, in one place only, and nowhere
\* once it is finished: no request is lost or scheduled twice by preemption,
\* skipping, promotion, abort or a late stop.
QueuesExact ==
    LET all == running \o waiting \o skipped_waiting \o step.skipped
    IN  /\ IsInjective(all)
        /\ ToSet(running) = {r \in Requests : req[r].status = "RUNNING"}
        /\ ToSet(all) = {r \in Requests : ~Finished(r) /\ req[r].status # "NONE"}

\* Free blocks are exactly those that no table and no deferred free holds: no
\* block leaks or is handed out twice, whichever way a request ends.
BlocksExact ==
    /\ IsInjective(free)
    /\ ToSet(free) = Blocks \ (LiveWithout(0))
    /\ \A r \in Requests : req[r].status = "DONE" => table[r] = <<>>

\* schedule() keeps its books: the budget left and the tokens handed out add up
\* (also after a preempted request is un-scheduled), every scheduled request is
\* still running, none is scheduled twice, max_num_seqs is kept.
StepExact ==
    /\ Len(running) <= MaxNumSeqs
    /\ pc \in {"running", "waiting", "finish"} =>
         /\ step.budget + MapThenSumSet(LAMBDA j : step.sched[j].n, DOMAIN step.sched)
              = (IF pause_state = "PAUSED_ALL" THEN 0 ELSE TokenBudget)
         /\ \A j \in DOMAIN step.sched :
              step.sched[j].n > 0 /\ step.sched[j].r \in ToSet(running)
         /\ IsInjective([j \in DOMAIN step.sched |-> step.sched[j].r])

InFlight(r) == SelectSeq(FlattenSeq(batch_queue), LAMBDA e : e.r = r)
Tokens(E) == MapThenSumSet(LAMBDA j : E[j].n, DOMAIN E)
Samples(E) == Cardinality({j \in DOMAIN E : E[j].pos # 0})

\* Between steps the counters of a request describe the steps in flight: their
\* tokens, the oldest of them that a preemption made stale and, under
\* asynchronous scheduling, one placeholder for each token still to come.
AccountingExact ==
    pc \in {"idle", "pop"} =>
      \A r \in Requests : req[r].status # "DONE" =>
        LET E == InFlight(r)
        IN  /\ req[r].in_flight = Tokens(E)
            /\ \E j \in 0 .. Len(E) :
                 /\ req[r].stale = Tokens(SubSeq(E, 1, j))
                 /\ AsyncScheduling /\ ~Finished(r) =>
                       req[r].placeholders = Samples(SubSeq(E, j + 1, Len(E)))

\* Every token that is appended to a request was sampled for exactly the next
\* position: preemption, resumption and late output neither skip, repeat nor
\* reorder tokens.
DeliveredInOrder ==
    [][\A r \in Requests : req'[r].num_tokens # req[r].num_tokens =>
          /\ todo # <<>> /\ Head(todo).r = r
          /\ Head(todo).pos = req[r].num_tokens + 1
          /\ req'[r].num_tokens = req[r].num_tokens + 1]_vars

\* Between steps the tokens a running request counts as computed have slots,
\* and their KV is in its blocks (or will be once the dispatched steps ran).
ComputedIsWritten ==
    pc = "idle" =>
      \A r \in ToSet(running) :
        /\ req[r].computed <= Len(table[r]) * BlockSize
        /\ req[r].computed <= req[r].num_tokens + req[r].placeholders
        /\ \A k \in 1 .. req[r].computed \div BlockSize :
             content[table[r][k]] = BlockHash(r, k)

\* Between steps a block is cached only under the prefix whose KV it holds.
CachedIsComputed ==
    pc = "idle" =>
      \A b \in Blocks : block_hash[b] # NoHash => content[b] = block_hash[b]

\* The cached prefixes are closed: freeing a table from its tail keeps every
\* ancestor of a cached block cached, so a walk that stops at the first miss
\* finds the longest hit.
PrefixClosed ==
    \A h \in CachedHashes : h[2] > 1 =>
      (IF h[1] = 0 THEN <<0, h[2] - 1>> ELSE BlockHash(h[1], h[2] - 1)) \in CachedHashes

\* With defer_block_free, a block that a step in flight may still write is not
\* free, and the table of another request holds it only as the very prefix that
\* is being written (a hit on a block of the same step).
WritesOwned ==
    DeferBlockFree =>
      \A e \in ToSet(FlattenSeq(batch_queue)) : \A w \in e.writes :
        /\ w[1] \notin ToSet(free)
        /\ \A s \in Requests \ {e.r} : \A k \in DOMAIN table[s] :
              table[s][k] = w[1] => BlockHash(s, k) = w[2]

\* While the worker loads or sends the KV of a request, the scheduler knows the
\* request and keeps its blocks.
TransfersOwned ==
    \A r \in kvx.loading \cup kvx.sending :
      req[r].status \in {"WAITING_FOR_REMOTE_KVS", "FINISHED"} /\ table[r] # <<>>

\* Every request that arrives is finished in the end and its blocks returned.
AllServed ==
    \A r \in Requests : (req[r].status = "WAITING") ~> (req[r].status = "DONE")

\* The engine loop keeps running, and transfers complete: the worker's transfer
\* threads do not wait for the engine, which is looked at here only when idle.
FairSpec ==
    /\ Spec /\ WF_vars(Engine)
    /\ \A r \in RemoteReqs : SF_vars(LoadArrives(r))
    /\ \A r \in SendReqs : SF_vars(SendArrives(r))

=============================================================================
