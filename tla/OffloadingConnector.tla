------------------------- MODULE OffloadingConnector -------------------------
(***************************************************************************)
(* KV offloading to CPU memory, composed with the scheduler:                *)
(* OffloadingConnectorScheduler and OffloadingConnectorWorker               *)
(* (vllm/distributed/kv_transfer/kv_connector/v1/offloading), the CPU chunk *)
(* cache of module CPUOffloadingManager and the transfer handlers of        *)
(* vllm/v1/kv_offload/cpu/gpu_worker.py, driven by module Scheduler.        *)
(*                                                                         *)
(* The scheduler's actions are taken from module Scheduler, each with the   *)
(* connector call it makes.  hook is the connector method in progress:      *)
(*   finish: off -> store -> built -> off     (build_connector_meta)        *)
(*   xfer:   off -> report -> off             (update_connector_output)     *)
(*   idle:   off -> reset -> off              (reset_cache)                 *)
(* The worker runs the steps it was sent, in order; its two directions of   *)
(* copies run beside it.  Engine and worker share only the queues metas and *)
(* reports.                                                                 *)
(*                                                                         *)
(* One full-attention group, one GPU block per chunk, one worker.           *)
(***************************************************************************)
EXTENDS Scheduler, CPUOffloadingManager

CONSTANT ConnectorResets   \* whether resets also reset the connector

ASSUME OffAssumption == RemoteReqs = {} /\ SendReqs = {} /\ ConnectorResets \subseteq BOOLEAN

VARIABLES hook,
          aborted,   \* requests whose status is FINISHED_ABORTED
          conn,      \* the state of OffloadingConnectorScheduler
          cur,       \* its _current_batch_* fields, and reset_preempted_req_ids
          metas,     \* steps sent to the worker, oldest first
          worker,    \* OffloadingConnectorWorker and its transfer handlers
          gpu, cpu,  \* what the blocks and the chunks hold: prefix hashes
          reports    \* results of the worker, oldest first

connVars == <<hook, aborted, conn, cur, mgr>>
workerVars == <<metas, worker, gpu, cpu, reports>>
offVars == <<connVars, workerVars>>
allVars == <<vars, offVars>>

Chunks == 1 .. NumChunks
NoBatch == [flush |-> {}, allocated |-> {}, loads |-> <<>>, stores |-> <<>>, todo |-> <<>>,
            preempted |-> {}]

OffInit ==
    /\ Init /\ MgrInit
    /\ hook = "off" /\ aborted = {} /\ cur = NoBatch
    /\ conn = [tracked |-> {}, signaled |-> {}, block_ids |-> [r \in Requests |-> <<>>],
               next_stored |-> [r \in Requests |-> 0], jobs |-> <<>>, job_counter |-> 0,
               stale_threshold |-> 0, fences |-> [b \in Blocks |-> {}], being_loaded |-> {}]
    /\ metas = <<>> /\ reports = <<>>
    /\ worker = [phase |-> "get", unsubmitted |-> <<>>, stores |-> <<>>, loads |-> <<>>,
                 copied |-> {}]
    /\ gpu = [b \in Blocks |-> NoHash] /\ cpu = [c \in Chunks |-> NoHash]

Unhooked == hook = "off"

Keys(r, from, to) == [i \in 1 .. to - from |-> BlockHash(r, from + i)]

\* transfer_jobs of r
JobsOf(r) == {j \in DOMAIN conn.jobs : conn.jobs[j].r = r}
BlocksOf(j) == {m[1] : m \in conn.jobs[j].moves}

-----------------------------------------------------------------------------
(* Calls made by the waiting loop of schedule().                            *)

\* _maximal_prefix_lookup: the chunks after the local hit, up to the first miss.
LastHit(r, local) ==
    Max({n \in local .. req[r].num_tokens \div BlockSize :
            \A k \in local + 1 .. n : Lookup(mgr, BlockHash(r, k)) # "MISS"})

\* get_num_new_matched_tokens cannot answer yet: transfers of r are in flight, or
\* a hit is still being stored, or is being loaded for another request.
Defers(r, local) ==
    \/ JobsOf(r) # {}
    \/ \E k \in local + 1 .. LastHit(r, local) :
         Lookup(mgr, BlockHash(r, k)) = "HIT_PENDING" \/ BlockHash(r, k) \in conn.being_loaded

\* The answers of the prefix cache and of the connector.
OffLookups(r) ==
    IF req[r].computed > 0
    THEN {[hits |-> <<>>, local |-> req[r].computed, ext |-> 0, defer |-> FALSE]}
    ELSE {[hits |-> s, local |-> Len(s) * BlockSize,
           ext |-> (LastHit(r, Len(s)) - Len(s)) * BlockSize, defer |-> Defers(r, Len(s))] :
            s \in GetComputedBlocks(r, req[r].num_tokens)}

\* get_num_new_matched_tokens forgets the blocks of r.
Asked(r) == IF req[r].computed > 0 THEN conn ELSE [conn EXCEPT !.block_ids[r] = <<>>]

\* The connector needs more time: the request is passed over.
WaitDefer ==
    /\ Unhooked /\ Ready
    /\ \E l \in OffLookups(WaitingHead) : l.defer
    /\ PassOver
    /\ conn' = Asked(WaitingHead)
    /\ UNCHANGED <<hook, aborted, cur, mgr, workerVars>>

OffAdmit ==
    /\ Unhooked /\ Ready
    /\ \E l \in OffLookups(WaitingHead) : ~l.defer /\ Admit(WaitingHead, l)
    /\ conn' = Asked(WaitingHead)
    /\ UNCHANGED <<hook, aborted, cur, mgr, workerVars>>

\* Mutant: the chunks go to the first blocks of the request, past the local hit or not.
NewLoadUnaligned(r, from, to) ==
    LET j     == conn.job_counter
        keys  == ToSet(Keys(r, from, to))
        moves == {<<table'[r][k - from], mgr.chunks[BlockHash(r, k)].id>> : k \in from + 1 .. to}
        job   == [r |-> r, store |-> FALSE, keys |-> keys, moves |-> moves]
    IN  /\ mgr' = PrepareLoad(mgr, keys)
        /\ conn' = [Asked(r) EXCEPT !.jobs = (j :> job) @@ @, !.job_counter = j + 1,
                                    !.next_stored[r] = to, !.being_loaded = @ \cup keys]
        /\ cur' = [cur EXCEPT !.allocated = @ \cup ToSet(table'[r]),
                              !.loads = Append(@, [id |-> j, r |-> r, moves |-> moves])]

\* update_state_after_alloc: a load job for the chunks from..to of r, into the
\* blocks just allocated.
NewLoad(r, from, to) ==
    LET j     == conn.job_counter
        keys  == ToSet(Keys(r, from, to))
        moves == {<<table'[r][k], mgr.chunks[BlockHash(r, k)].id>> : k \in from + 1 .. to}
        job   == [r |-> r, store |-> FALSE, keys |-> keys, moves |-> moves]
    IN  /\ mgr' = PrepareLoad(mgr, keys)
        /\ conn' = [Asked(r) EXCEPT !.jobs = (j :> job) @@ @, !.job_counter = j + 1,
                                    !.next_stored[r] = to,
                                    !.being_loaded = IF EnableCaching THEN @ \cup keys ELSE @]
        /\ cur' = [cur EXCEPT !.allocated = @ \cup ToSet(table'[r]),
                              !.loads = Append(@, [id |-> j, r |-> r, moves |-> moves])]

OffLoad ==
    /\ Unhooked /\ Ready
    /\ LET r == WaitingHead
       IN  \E l \in OffLookups(r) :
             /\ ~l.defer /\ Load(r, l)
             /\ NewLoad(r, Len(l.hits), Len(l.hits) + l.ext \div BlockSize)
    /\ UNCHANGED <<hook, aborted, workerVars>>

OffWaitEnd ==
    /\ Unhooked /\ pc = "waiting"
    /\ \/ ~InWaitingLoop /\ UNCHANGED conn
       \/ /\ Ready /\ conn' = Asked(WaitingHead)
          /\ \E l \in OffLookups(WaitingHead) : ~l.defer /\ NoRoom(WaitingHead, l)
    /\ StopWaiting
    /\ UNCHANGED <<hook, aborted, cur, mgr, workerVars>>

\* _preempt_request records the request for the next step's output.
OffPreempt ==
    /\ Unhooked
    /\ \/ RunPreempt /\ cur' = [cur EXCEPT !.preempted = @ \cup {Victim}]
       \/ ResetPreempt /\ cur' = [cur EXCEPT !.preempted = @ \cup {Last(running)}]
    /\ UNCHANGED <<hook, aborted, conn, mgr, workerVars>>

-----------------------------------------------------------------------------
(* build_connector_meta, at the end of schedule().                          *)

Scheduled == {e.r : e \in ToSet(step.sched)}

\* The blocks that this step adds to the ones the connector knows of r.
NewBlockIds(r) == SubSeq(table[r], Len(conn.block_ids[r]) + 1, Len(table[r]))

\* Mutant: jobs that read blocks allocated in this step are not flushed.
BuildBeginUnfenced ==
    /\ Unhooked /\ pc = "finish"
    /\ hook' = "store"
    /\ cur' = [cur EXCEPT
                 !.allocated = @ \cup UNION {ToSet(NewBlockIds(r)) : r \in Scheduled},
                 !.flush = @ \cup UNION {JobsOf(r) : r \in cur.preempted},
                 !.todo = [i \in DOMAIN step.sched |-> step.sched[i].r]
                            \o SetToSeq(finished_req_ids)]
    /\ conn' = [conn EXCEPT !.block_ids =
                  [r \in Requests |-> IF r \in Scheduled THEN @[r] \o NewBlockIds(r) ELSE @[r]]]
    /\ UNCHANGED <<vars, aborted, mgr, workerVars>>

\* _update_req_states; then the jobs of preempted requests, and those that read
\* blocks allocated in this step, are to be flushed.
BuildBegin ==
    /\ Unhooked /\ pc = "finish"
    /\ hook' = "store"
    /\ LET alloc == cur.allocated \cup UNION {ToSet(NewBlockIds(r)) : r \in Scheduled}
       IN  cur' = [cur EXCEPT
                     !.allocated = alloc,
                     !.flush = @ \cup UNION {JobsOf(r) : r \in cur.preempted}
                                 \cup UNION {conn.fences[b] : b \in alloc},
                     !.todo = [i \in DOMAIN step.sched |-> step.sched[i].r]
                                \o SetToSeq(finished_req_ids)]
    /\ conn' = [conn EXCEPT !.block_ids =
                  [r \in Requests |-> IF r \in Scheduled THEN @[r] \o NewBlockIds(r) ELSE @[r]]]
    /\ UNCHANGED <<vars, aborted, mgr, workerVars>>

\* The tokens of r whose KV will be in its blocks once this step has run.
NumTokensAfter(r) ==
    CASE r \in aborted -> req[r].computed
      [] Finished(r)   -> Max({PromptLen[r], req[r].num_tokens - 1})
      [] OTHER         -> req[r].computed + ScheduledTokens(r)

\* storable_chunks
Storable(r) ==
    Min({NumTokensAfter(r) \div BlockSize, req[r].num_tokens \div BlockSize,
         Len(conn.block_ids[r])})

\* Fences on the blocks of a job of a finished request.
FencedBy(fences, j, blocks) ==
    [b \in Blocks |-> IF b \in blocks THEN fences[b] \cup {j} ELSE fences[b]]

\* A store job for the keys that prepare_store returned in out.
NewStore(r, to, out) ==
    LET j     == conn.job_counter
        keys  == ToSet(out.keys)
        moves == {<<conn.block_ids[r][k], out.mgr.chunks[BlockHash(r, k)].id>> :
                    k \in {i \in conn.next_stored[r] + 1 .. to : BlockHash(r, i) \in keys}}
        from  == {m[1] : m \in moves}
    IN  /\ mgr' = out.mgr
        /\ conn' = [conn EXCEPT
                      !.next_stored[r] = to, !.job_counter = j + 1,
                      !.jobs = (j :> [r |-> r, store |-> TRUE, keys |-> keys, moves |-> moves]) @@ @,
                      !.fences = IF Finished(r) THEN FencedBy(@, j, from) ELSE @]
        /\ cur' = [cur EXCEPT
                      !.todo = Tail(@), !.stores = Append(@, [id |-> j, r |-> r, moves |-> moves]),
                      !.flush = IF Finished(r) /\ from \cap cur.allocated # {}
                                THEN @ \cup {j} ELSE @]

\* _build_store_jobs, for one request: nothing to store, no room for it, nothing
\* of it missing, or a new job.
BuildStore ==
    /\ hook = "store" /\ cur.todo # <<>>
    /\ LET r    == Head(cur.todo)
           from == conn.next_stored[r]
           to   == Storable(r)
           outs == PrepareStore(mgr, Keys(r, from, to))
       IN  \/ /\ r \notin conn.tracked \/ to <= from \/ outs = {}
              /\ cur' = [cur EXCEPT !.todo = Tail(@)]
              /\ UNCHANGED <<conn, mgr>>
           \/ /\ r \in conn.tracked /\ to > from
              /\ \E out \in outs :
                   \/ /\ out.keys = <<>>
                      /\ conn' = [conn EXCEPT !.next_stored[r] = to]
                      /\ cur' = [cur EXCEPT !.todo = Tail(@)]
                      /\ UNCHANGED mgr
                   \/ out.keys # <<>> /\ NewStore(r, to, out)
    /\ UNCHANGED <<vars, hook, aborted, workerVars>>

\* What the step computes: the blocks it reads, and what it writes into blocks
\* (a block it leaves incomplete holds no prefix).
ReadBy(r) == {<<table[r][k], BlockHash(r, k)>> : k \in 1 .. req[r].computed \div BlockSize}
WritesOf(r) ==
    {<<table[r][k], IF k * BlockSize <= NextComputed(r) THEN BlockHash(r, k) ELSE NoHash>> :
        k \in req[r].computed \div BlockSize + 1 .. NumRequired(NextComputed(r))}

\* Mutant: finished requests are forgotten at once.
BuildEndForgets ==
    /\ hook = "store" /\ cur.todo = <<>>
    /\ hook' = "built"
    /\ metas' = Append(metas, [reads |-> UNION {ReadBy(r) : r \in Scheduled},
                               writes |-> UNION {WritesOf(r) : r \in Scheduled},
                               loads |-> cur.loads, stores |-> cur.stores, flush |-> cur.flush])
    /\ conn' = [conn EXCEPT !.tracked = @ \ finished_req_ids]
    /\ cur' = NoBatch
    /\ kvx' = [kvx EXCEPT !.push = DOMAIN conn.jobs # {}]
    /\ UNCHANGED <<kvVars, pc, req, queueVars, inflight_prefills, finished_req_ids, pause_state,
                   fenceVars, engineVars, runner, content, resets>>
    /\ UNCHANGED <<aborted, mgr, worker, gpu, cpu, reports>>

\* The finished requests are signalled, and forgotten unless jobs are left.
BuildEnd ==
    /\ hook = "store" /\ cur.todo = <<>>
    /\ hook' = "built"
    /\ metas' = Append(metas, [reads |-> UNION {ReadBy(r) : r \in Scheduled},
                               writes |-> UNION {WritesOf(r) : r \in Scheduled},
                               loads |-> cur.loads, stores |-> cur.stores, flush |-> cur.flush])
    /\ LET F == finished_req_ids \cap conn.tracked
           gone == {r \in F : JobsOf(r) = {}}
       IN  conn' = [conn EXCEPT !.signaled = (@ \cup F) \ gone, !.tracked = @ \ gone]
    /\ cur' = NoBatch
    /\ kvx' = [kvx EXCEPT !.push = DOMAIN conn.jobs # {}]
    /\ UNCHANGED <<kvVars, pc, req, queueVars, inflight_prefills, finished_req_ids, pause_state,
                   fenceVars, engineVars, runner, content, resets>>
    /\ UNCHANGED <<aborted, mgr, worker, gpu, cpu, reports>>

OffFinishSchedule ==
    /\ hook = "built" /\ FinishSchedule
    /\ hook' = "off"
    /\ UNCHANGED <<aborted, conn, cur, mgr, workerVars>>

-----------------------------------------------------------------------------
(* Requests finish.                                                         *)

\* request_finished: the blocks that jobs of r still read are fenced.
RequestFinished(r) ==
    [conn EXCEPT !.fences =
        [b \in Blocks |-> @[b] \cup {j \in JobsOf(r) : conn.jobs[j].store /\ b \in BlocksOf(j)}]]

OffStop ==
    /\ Unhooked /\ UpdateStop
    /\ conn' = RequestFinished(Head(todo).r)
    /\ UNCHANGED <<hook, aborted, cur, mgr, workerVars>>

OffAbort(r) ==
    /\ Unhooked /\ Abort(r)
    /\ aborted' = aborted \cup {r}
    /\ conn' = RequestFinished(r)
    /\ UNCHANGED <<hook, cur, mgr, workerVars>>

\* on_new_request
OffAddRequest(r) ==
    /\ Unhooked /\ AddRequest(r)
    /\ conn' = [conn EXCEPT !.tracked = @ \cup {r}]
    /\ UNCHANGED <<hook, aborted, cur, mgr, workerVars>>

-----------------------------------------------------------------------------
(* update_connector_output, within update_from_output().                    *)

\* The engine waits for the result of its oldest step.
OffBeginUpdate ==
    /\ Unhooked /\ reports # <<>> /\ BeginUpdate
    /\ UNCHANGED offVars


\* The job is done: its chunks can be read, or are unpinned; its fences fall.
Completed(j) ==
    LET job  == conn.jobs[j]
        rest == Restrict(conn.jobs, DOMAIN conn.jobs \ {j})
        last == job.r \in conn.signaled /\ \A i \in DOMAIN rest : rest[i].r # job.r
    IN  [conn EXCEPT !.jobs = rest,
                     !.being_loaded = IF job.store THEN @ ELSE @ \ job.keys,
                     !.fences = IF Finished(job.r) THEN [b \in Blocks |-> @[b] \ {j}] ELSE @,
                     !.tracked = IF last THEN @ \ {job.r} ELSE @,
                     !.signaled = IF last THEN @ \ {job.r} ELSE @]

\* Reports of jobs from before a reset are ignored.
CompleteJob ==
    /\ Unhooked /\ pc = "xfer" /\ Head(reports).completed # <<>>
    /\ LET j == Head(Head(reports).completed)
       IN  IF j < conn.stale_threshold
           THEN UNCHANGED <<conn, mgr>>
           ELSE /\ conn' = Completed(j)
                /\ mgr' = IF conn.jobs[j].store THEN CompleteStore(mgr, conn.jobs[j].keys)
                          ELSE CompleteLoad(mgr, conn.jobs[j].keys)
    /\ reports' = [reports EXCEPT ![1].completed = Tail(@)]
    /\ UNCHANGED <<vars, hook, aborted, cur, metas, worker, gpu, cpu>>

\* Then the scheduler learns which loads have arrived.
ReportLoads ==
    /\ Unhooked /\ pc = "xfer" /\ Head(reports).completed = <<>>
    /\ hook' = "report"
    /\ kvx' = [kvx EXCEPT !.arrived = Head(reports).recving, !.push = DOMAIN conn.jobs # {}]
    /\ content' = ContentAfter([r \in Head(reports).recving |-> num_cached[r] * BlockSize],
                               [r \in Head(reports).recving |-> req[r].computed])
    /\ UNCHANGED <<kvVars, pc, req, queueVars, inflight_prefills, finished_req_ids, pause_state,
                   fenceVars, engineVars, runner, resets>>
    /\ UNCHANGED <<aborted, conn, cur, mgr, workerVars>>

OffXfer ==
    /\ hook = "report"
    /\ \/ RecvFinished /\ UNCHANGED <<hook, reports>>
       \/ XferEnd /\ hook' = "off" /\ reports' = Tail(reports)
    /\ UNCHANGED <<aborted, conn, cur, mgr, metas, worker, gpu, cpu>>

-----------------------------------------------------------------------------
(* reset_prefix_cache(reset_connector=True), between two steps.             *)

\* After the running requests were preempted the connector is only reset if
\* that freed every block: otherwise RuntimeError.
OffResetEnd ==
    /\ Unhooked /\ ResetEnd
    /\ \E c \in ConnectorResets :
         hook' = IF c /\ Len(free) = NumBlocks THEN "reset" ELSE "off"
    /\ UNCHANGED <<aborted, conn, cur, mgr, workerVars>>

\* The running requests are left alone; then the connector is reset in any case.
ResetIdle ==
    /\ Unhooked /\ pc = "idle" /\ resets < MaxResets
    /\ resets' = resets + 1
    /\ \E c \in ConnectorResets : hook' = IF c THEN "reset" ELSE "off"
    /\ ResetPrefixCache
    /\ UNCHANGED <<pc, req, queueVars, inflight_prefills, finished_req_ids, pause_state, fenceVars,
                   engineVars, kvx, runner, content>>
    /\ UNCHANGED <<aborted, conn, cur, mgr, workerVars>>

\* reset_cache.  The assertion that no step is being scheduled fails when the
\* jobs of an earlier reset are still to be flushed, and nothing is done.
ConnectorReset ==
    /\ hook = "reset" /\ hook' = "off"
    /\ IF cur.flush # {} THEN UNCHANGED <<conn, cur, mgr, kvx>>
       ELSE LET gone == {r \in conn.tracked : Finished(r)}
            IN  /\ cur' = [cur EXCEPT !.flush = DOMAIN conn.jobs]
                /\ conn' = [conn EXCEPT
                              !.tracked = @ \ gone, !.signaled = @ \ gone,
                              !.next_stored = [r \in Requests |-> 0],
                              !.jobs = <<>>, !.stale_threshold = conn.job_counter,
                              !.fences = [b \in Blocks |-> {}], !.being_loaded = {}]
                /\ mgr' = Reset
                /\ kvx' = [kvx EXCEPT !.push = FALSE]
    /\ UNCHANGED <<kvVars, pc, req, queueVars, inflight_prefills, finished_req_ids, pause_state,
                   fenceVars, engineVars, runner, content, resets>>
    /\ UNCHANGED <<aborted, workerVars>>

-----------------------------------------------------------------------------
(* The worker: execute_model for the oldest step sent, and the copies.       *)

\* The engine looks at results only once it waits for one; the worker's steps
\* before that commute with the engine's, and are taken then.
WorkerMay == Unhooked /\ pc = "pop"

Ids(jobs) == {jobs[i].id : i \in DOMAIN jobs}

\* handle_preemptions: the stores of the last step, and those of this step that
\* are to be flushed, are submitted.
HandlePreemptions ==
    /\ WorkerMay /\ worker.phase = "get" /\ metas # <<>>
    /\ worker' = [worker EXCEPT
                    !.phase = "forward", !.unsubmitted = <<>>,
                    !.stores = @ \o worker.unsubmitted
                                 \o SelectSeq(Head(metas).stores,
                                              LAMBDA t : t.id \in Head(metas).flush)]
    /\ UNCHANGED <<vars, connVars, metas, gpu, cpu, reports>>

\* Its wait(jobs_to_flush) returns; the model runs; start_kv_transfers submits
\* the loads.
Forward ==
    /\ WorkerMay /\ worker.phase = "forward"
    /\ Head(metas).flush \cap Ids(worker.stores \o worker.loads) \subseteq worker.copied
    /\ gpu' = [b \in Blocks |->
                 IF \E w \in Head(metas).writes : w[1] = b
                 THEN (CHOOSE w \in Head(metas).writes : w[1] = b)[2] ELSE gpu[b]]
    /\ worker' = [worker EXCEPT !.phase = "finish", !.loads = @ \o Head(metas).loads]
    /\ UNCHANGED <<vars, connVars, metas, cpu, reports>>

\* get_finished: the other stores of the step wait for the next one, and the
\* transfers that have ended are reported.
GetFinished ==
    /\ WorkerMay /\ worker.phase = "finish"
    /\ LET Done(t) == t.id \in worker.copied
           Left(t) == ~Done(t)
           loaded == SelectSeq(worker.loads, Done)
           ended == SelectSeq(worker.stores, Done) \o loaded
       IN  /\ worker' = [phase |-> "get",
                         unsubmitted |-> SelectSeq(Head(metas).stores,
                                                   LAMBDA t : t.id \notin Head(metas).flush),
                         stores |-> SelectSeq(worker.stores, Left),
                         loads |-> SelectSeq(worker.loads, Left), copied |-> {}]
           /\ reports' = Append(reports, [completed |-> [i \in DOMAIN ended |-> ended[i].id],
                                          recving |-> {loaded[i].r : i \in DOMAIN loaded}])
    /\ metas' = Tail(metas)
    /\ UNCHANGED <<vars, connVars, gpu, cpu>>

Waiting(jobs) == SelectSeq(jobs, LAMBDA t : t.id \notin worker.copied)

\* The transfers of each direction take place one after another.
CopyStore ==
    /\ WorkerMay /\ Waiting(worker.stores) # <<>>
    /\ LET t == Head(Waiting(worker.stores))
       IN  /\ worker' = [worker EXCEPT !.copied = @ \cup {t.id}]
           /\ cpu' = [c \in Chunks |-> IF \E m \in t.moves : m[2] = c
                                       THEN gpu[(CHOOSE m \in t.moves : m[2] = c)[1]] ELSE cpu[c]]
    /\ UNCHANGED <<vars, connVars, metas, gpu, reports>>

CopyLoad ==
    /\ WorkerMay /\ Waiting(worker.loads) # <<>>
    /\ LET t == Head(Waiting(worker.loads))
       IN  /\ worker' = [worker EXCEPT !.copied = @ \cup {t.id}]
           /\ gpu' = [b \in Blocks |-> IF \E m \in t.moves : m[1] = b
                                       THEN cpu[(CHOOSE m \in t.moves : m[1] = b)[2]] ELSE gpu[b]]
    /\ UNCHANGED <<vars, connVars, metas, cpu, reports>>

-----------------------------------------------------------------------------
\* The steps of the scheduler that call no connector method.
Plain ==
    /\ Unhooked
    /\ \/ StartSchedule \/ RunSkip \/ RunSchedule \/ RunEnd \/ WaitSkip \/ WaitPromote
       \/ PopBatch \/ DrainOne \/ DrainEnd \/ UpdateSkip \/ UpdateToken \/ UpdateEnd
    /\ UNCHANGED offVars

OffEngine ==
    \/ Plain \/ WaitDefer \/ OffAdmit \/ OffLoad \/ OffWaitEnd \/ OffPreempt
    \/ BuildBegin \/ BuildStore \/ BuildEnd \/ OffFinishSchedule
    \/ OffBeginUpdate \/ OffStop \/ CompleteJob \/ ReportLoads \/ OffXfer
    \/ OffResetEnd \/ ConnectorReset

Worker == HandlePreemptions \/ Forward \/ GetFinished

OffQuiescent == Unhooked /\ Quiescent /\ UNCHANGED offVars

OffNext ==
    \/ OffEngine \/ Worker \/ CopyStore \/ CopyLoad
    \/ \E r \in Requests : OffAddRequest(r)
    \/ \E r \in Aborts : OffAbort(r)
    \/ Unhooked /\ ResetStart /\ UNCHANGED offVars
    \/ ResetIdle
    \/ OffQuiescent

OffSpec == OffInit /\ [][OffNext]_allVars

\* The engine and the worker keep running; the copies do not wait for them.
OffFairSpec ==
    /\ OffSpec /\ WF_allVars(OffEngine) /\ WF_allVars(Worker)
    /\ SF_allVars(CopyStore) /\ SF_allVars(CopyLoad)

-----------------------------------------------------------------------------
(* Properties.                                                              *)

\* A chunk that lookup answers HIT for holds the KV of its key: no store reads a
\* block after it was given to another request or preempted, no chunk is handed
\* out while a transfer still uses it, and no late report of a job from before a
\* reset makes a chunk readable (update_connector_output).
ReadyHolds ==
    \A key \in DOMAIN mgr.chunks :
      mgr.chunks[key].ref >= 0 => cpu[mgr.chunks[key].id] = key

\* When the model runs, every block it reads holds the KV of the prefix that the
\* scheduler takes it for, computed or loaded from a chunk: no load comes late,
\* reads a chunk that was overwritten, or hits a block that is in use.
PrefixPresent ==
    worker.phase = "forward" =>
      \A w \in Head(metas).reads : gpu[w[1]] = w[2] \/ w \in Head(metas).writes

JobsWith(key, store) ==
    {j \in DOMAIN conn.jobs : conn.jobs[j].store = store /\ key \in conn.jobs[j].keys}

\* The counters of the chunk cache agree with the jobs: a chunk is being written
\* by exactly one store, or is pinned once for each load of it; the ids of chunks
\* in use and free ones are distinct, and num_evictable counts the idle chunks,
\* so that prepare_store never fails to find the victims it was promised.
RefsExact ==
    LET ids == {mgr.chunks[key].id : key \in DOMAIN mgr.chunks}
    IN  /\ \A j \in DOMAIN conn.jobs : conn.jobs[j].keys \subseteq DOMAIN mgr.chunks
        /\ \A key \in DOMAIN mgr.chunks :
             /\ Cardinality(JobsWith(key, TRUE)) = (IF mgr.chunks[key].ref = -1 THEN 1 ELSE 0)
             /\ Cardinality(JobsWith(key, FALSE)) = Max({mgr.chunks[key].ref, 0})
        /\ IsInjective(mgr.free_list) /\ ids \cap ToSet(mgr.free_list) = {}
        /\ Cardinality(ids) = Cardinality(DOMAIN mgr.chunks)
        /\ ids \cup ToSet(mgr.free_list) = 1 .. mgr.num_allocated
        /\ mgr.num_evictable = Cardinality(Idle(mgr))

IdSeq(jobs) == [i \in DOMAIN jobs |-> jobs[i].id]

\* The jobs of the i-th step sent that the worker has not taken over yet.
Untaken(i) ==
    LET m == metas[i]
        submitted == i = 1 /\ worker.phase # "get"
    IN  IdSeq(SelectSeq(m.stores, LAMBDA t : ~(submitted /\ t.id \in m.flush)))
        \o (IF i = 1 /\ worker.phase = "finish" THEN <<>> ELSE IdSeq(m.loads))

InTransit ==
    IdSeq(cur.loads \o cur.stores)
    \o FlattenSeq([i \in DOMAIN metas |-> Untaken(i)])
    \o IdSeq(worker.unsubmitted \o worker.stores \o worker.loads)
    \o FlattenSeq([i \in DOMAIN reports |-> reports[i].completed])

\* Every job is on its way exactly once until it is completed, and its request is
\* known until then: no transfer is lost, submitted twice or reported for a job
\* or a request that is gone, and has_pending_push_work is true as long as needed.
JobsExact ==
    /\ IsInjective(InTransit)
    /\ {j \in ToSet(InTransit) : j >= conn.stale_threshold} = DOMAIN conn.jobs
    /\ \A j \in DOMAIN conn.jobs :
         /\ conn.jobs[j].r \in conn.tracked
         /\ ~conn.jobs[j].store => JobsOf(conn.jobs[j].r) = {j}
    /\ pc = "idle" /\ Unhooked => (kvx.push <=> DOMAIN conn.jobs # {})


=============================================================================
