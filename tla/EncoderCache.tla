---------------------------- MODULE EncoderCache ----------------------------
(***************************************************************************)
(* The encoder cache in use: the parts of the scheduler that drive module   *)
(* EncoderCacheManager (_try_schedule_encoder_inputs, preemption,           *)
(* _free_encoder_inputs) and the encoder outputs the model runner keeps.    *)
(*                                                                         *)
(* A prompt is its multi-modal inputs, ItemLen tokens each, and one token   *)
(* of text.  Decoding does not touch the cache and is left out; whether     *)
(* allocate_slots finds KV blocks is open (module Scheduler has it), and so *)
(* is the number of tokens a step gives a request.                          *)
(***************************************************************************)
EXTENDS EncoderCacheManager

CONSTANTS ItemLen,         \* mm_position.length of an input
          Budget,          \* max_num_encoder_input_tokens
          Policy,          \* "fcfs" or "priority" (smaller ids first)
          DisableChunked,  \* the settings of disable_chunked_mm_input to consider
          QueueSize,       \* batch_queue_size
          MaxShortages,    \* bound: how often KV blocks or the token budget run out
          MaxResets        \* bound on calls of reset_encoder_cache

\* compute_mm_encoder_budget: the limit is at least the largest item.
ASSUME LimitsAssumption ==
    /\ {Budget, ItemLen, QueueSize} \subseteq Nat \ {0}
    /\ {MaxResets, MaxShortages} \subseteq Nat
    /\ \A h \in Items : Size[h] <= Budget
ASSUME FlagsAssumption ==
    Policy \in {"fcfs", "priority"} /\ DisableChunked \subseteq BOOLEAN

VARIABLES mgr,          \* the EncoderCacheManager
          pc, waiting, running, computed,
          step,         \* locals of schedule()
          try,          \* locals of _try_schedule_encoder_inputs
          batch_queue,  \* the requests of each step in flight, oldest first
          todo,         \* requests update_from_output has left
          worker,       \* items whose encoder output the model runner holds
          arrived,
          env           \* the setting, and the counters of the two bounds

vars == <<mgr, pc, waiting, running, computed, step, try, batch_queue, todo, worker, arrived, env>>

-----------------------------------------------------------------------------
(* schedule().                                                              *)

NumPrompt(r) == ItemLen * Len(Inputs[r]) + 1
StartPos(i) == ItemLen * (i - 1)
EndPos(i) == ItemLen * i

\* get_mm_features_in_window: the inputs that overlap [start, start + n).
Window(r, start, n) ==
    {i \in DOMAIN Inputs[r] : EndPos(i) > start /\ StartPos(i) < start + n}

NoTry == [r |-> -1]
NoStep == [i |-> 1, budget |-> Budget, sched |-> <<>>, preempted |-> FALSE]

Init ==
    /\ mgr = Fresh
    /\ pc = "idle" /\ waiting = <<>> /\ running = <<>>
    /\ computed = [r \in Requests |-> 0]
    /\ step = NoStep /\ try = NoTry /\ batch_queue = <<>> /\ todo = <<>>
    /\ worker = {} /\ arrived = {}
    /\ env \in [disable_chunked : DisableChunked, resets : {0}, shortages : {0}]

Live == Range(running) \cup Range(waiting)

\* KV blocks or the token budget run out (at most MaxShortages times).
Shortage == env.shortages < MaxShortages /\ env' = [env EXCEPT !.shortages = @ + 1]

StartSchedule ==
    /\ pc = "idle" /\ Live # {}
    /\ pc' = "running" /\ step' = NoStep
    /\ UNCHANGED <<mgr, waiting, running, computed, try, batch_queue, todo, worker, arrived, env>>

Trying(r, start, n, from) ==
    [r |-> r, start |-> start, n |-> n, from |-> from, left |-> Window(r, start, n),
     inputs |-> {}, embeds |-> 0, budget |-> step.budget]

InRunningLoop == pc = "running" /\ step.i <= Len(running)

\* A request in its decode phase has no inputs in its window.
RunDecode ==
    /\ InRunningLoop /\ computed[running[step.i]] = NumPrompt(running[step.i])
    /\ step' = [step EXCEPT !.i = @ + 1]
    /\ UNCHANGED <<mgr, pc, waiting, running, computed, try, batch_queue, todo, worker, arrived,
                   env>>

RunTry ==
    /\ InRunningLoop
    /\ LET r == running[step.i]
       IN  \E n \in 1 .. NumPrompt(r) - computed[r] :
             try' = Trying(r, computed[r], n, "running")
    /\ pc' = "try"
    /\ UNCHANGED <<mgr, waiting, running, computed, step, batch_queue, todo, worker, arrived, env>>

RunEnd ==
    /\ pc = "running"
    /\ IF step.i > Len(running) THEN UNCHANGED env ELSE Shortage
    /\ pc' = IF step.preempted THEN "finish" ELSE "waiting"
    /\ UNCHANGED <<mgr, waiting, running, computed, step, try, batch_queue, todo, worker, arrived>>

\* A preempted request with output still in flight is passed over.
Eligible(k) == \A b \in Range(batch_queue) : waiting[k] \notin Range(b)

\* The next waiting request; the prefix cache may have some of its prompt.
WaitTry ==
    /\ pc = "waiting"
    /\ \E k \in DOMAIN waiting :
         /\ Eligible(k) /\ \A j \in 1 .. k - 1 : ~Eligible(j)
         /\ \E hit \in 0 .. NumPrompt(waiting[k]) - 1 :
            \E n \in 1 .. NumPrompt(waiting[k]) - hit :
              try' = Trying(waiting[k], hit, n, "waiting")
    /\ pc' = "try"
    /\ UNCHANGED <<mgr, waiting, running, computed, step, batch_queue, todo, worker, arrived, env>>

WaitEnd ==
    /\ pc = "waiting"
    /\ IF \E k \in DOMAIN waiting : Eligible(k) THEN Shortage ELSE UNCHANGED env
    /\ pc' = "finish"
    /\ UNCHANGED <<mgr, waiting, running, computed, step, try, batch_queue, todo, worker, arrived>>

-----------------------------------------------------------------------------
(* _try_schedule_encoder_inputs: one action per turn of its loop.            *)

Trial == pc = "try" /\ try.left # {}
Candidate == Min(try.left)
TryItem == ItemOf(try.r, Candidate)
Chosen == {ItemOf(try.r, i) : i \in try.inputs}

\* Mutant: inputs chosen earlier in the loop are not counted.
EmbedsForgotten == 0

\* num_embeds_to_schedule
Embeds == try.embeds

tryVars == <<pc, waiting, running, computed, step, batch_queue, todo, worker, arrived, env>>

\* The item is scheduled already for another input of the request ...
TryRepeated ==
    /\ Trial /\ TryItem \in Chosen
    /\ try' = [try EXCEPT !.left = @ \ {Candidate}]
    /\ UNCHANGED <<mgr, tryVars>>

\* ... or cached.
TryCached ==
    /\ Trial /\ TryItem \notin Chosen /\ TryItem \in DOMAIN mgr.cached
    /\ mgr' = Reference(mgr, try.r, Candidate)
    /\ try' = [try EXCEPT !.left = @ \ {Candidate}]
    /\ UNCHANGED tryVars

Missing == Trial /\ TryItem \notin Chosen \cup DOMAIN mgr.cached

\* disable_chunked_mm_input: the step must not end inside the input.
RollsBack ==
    /\ env.disable_chunked /\ try.start < StartPos(Candidate)
    /\ try.start + try.n < EndPos(Candidate)

HasRoom == CanAllocate(mgr, try.r, Candidate, try.budget, Embeds)

\* The step is cut short before an input that cannot be encoded now.
TryStop ==
    /\ Missing /\ (RollsBack \/ ~HasRoom)
    /\ try' = [try EXCEPT !.left = {}, !.n = Max({0, StartPos(Candidate) - try.start})]
    /\ UNCHANGED <<mgr, tryVars>>

TryEncode ==
    /\ Missing /\ ~RollsBack /\ HasRoom
    /\ mgr' = Evict(mgr, try.r, Candidate, Embeds)
    /\ try' = [try EXCEPT !.left = @ \ {Candidate}, !.inputs = @ \cup {Candidate},
                          !.embeds = @ + Size[TryItem], !.budget = @ - Size[TryItem]]
    /\ UNCHANGED tryVars

TryEnd ==
    /\ pc = "try" /\ try.left = {}
    /\ IF try.n > 0
       THEN pc' = "alloc" /\ UNCHANGED <<step, try>>
       ELSE /\ pc' = IF try.from = "running" THEN "running" ELSE "finish"
            /\ step' = [step EXCEPT !.i = @ + 1]
            /\ try' = NoTry
    /\ UNCHANGED <<mgr, waiting, running, computed, batch_queue, todo, worker, arrived, env>>

\* Slots were allocated: the request is scheduled and its inputs get their space.
AllocateSlots ==
    /\ pc = "alloc"
    /\ mgr' = AllocateInputs(mgr, try.r, try.inputs)
    /\ step' = [step EXCEPT !.i = @ + 1, !.budget = IF try.inputs # {} THEN try.budget ELSE @,
                            !.sched = Append(@, [r |-> try.r, n |-> try.n,
                                                 inputs |-> try.inputs])]
    /\ IF try.from = "running"
       THEN UNCHANGED <<waiting, running, computed>>
       ELSE /\ waiting' = Remove(waiting, try.r)
            /\ running' = Append(running, try.r)
            /\ computed' = [computed EXCEPT ![try.r] = try.start]
    /\ pc' = try.from /\ try' = NoTry
    /\ UNCHANGED <<batch_queue, todo, worker, arrived, env>>

\* add_request of a heap: r comes behind all that precede it.
HeapAdd(r) ==
    LET k == Min({j \in 0 .. Len(waiting) : \A i \in j + 1 .. Len(waiting) : waiting[i] > r})
    IN  SubSeq(waiting, 1, k) \o <<r>> \o SubSeq(waiting, k + 1, Len(waiting))

\* prepend_request of a deque or of a heap
PrependRequest(r) == IF Policy = "fcfs" THEN <<r>> \o waiting ELSE HeapAdd(r)

Victim == IF Policy = "fcfs" THEN running[Len(running)] ELSE Max(Range(running))

\* No slots: a victim is preempted; if it was scheduled in this step it no longer
\* is, its encoder inputs included, and their compute budget is returned.
Preempt ==
    /\ pc = "alloc" /\ try.from = "running" /\ Shortage
    /\ LET v == Victim
           passed == \E k \in 1 .. step.i - 1 : running[k] = v
           undone == {e \in Range(step.sched) : e.r = v}
           back == {ItemOf(v, i) : i \in UNION {e.inputs : e \in undone}}
       IN  /\ mgr' = Free(mgr, v)
           /\ computed' = [computed EXCEPT ![v] = 0]
           /\ waiting' = PrependRequest(v)
           /\ running' = Remove(running, v)
           /\ step' = [i |-> IF passed THEN step.i - 1 ELSE step.i,
                       budget |-> step.budget + Sizes(back),
                       sched |-> IF undone = {} THEN step.sched
                                 ELSE Remove(step.sched, CHOOSE e \in undone : TRUE),
                       preempted |-> TRUE]
           /\ IF v = try.r THEN pc' = "finish" /\ try' = NoTry ELSE UNCHANGED <<pc, try>>
    /\ UNCHANGED <<batch_queue, todo, worker, arrived>>

\* No slots for a waiting request: it gives up what it referenced.
WaitNoSlots ==
    /\ pc = "alloc" /\ try.from = "waiting" /\ Shortage
    /\ mgr' = Free(mgr, try.r)
    /\ pc' = "finish" /\ try' = NoTry
    /\ UNCHANGED <<waiting, running, computed, step, batch_queue, todo, worker, arrived>>

\* The step is dispatched.  The model runner drops the freed outputs, encodes the
\* scheduled inputs and gathers what the step's tokens need.
FinishSchedule ==
    /\ pc = "finish"
    /\ worker' = (worker \ FreedItems(mgr))
                 \cup UNION {{ItemOf(e.r, i) : i \in e.inputs} : e \in Range(step.sched)}
    /\ mgr' = [mgr EXCEPT !.freed = {}]
    /\ computed' = [r \in Requests |->
                      IF \E e \in Range(step.sched) : e.r = r
                      THEN computed[r] + (CHOOSE e \in Range(step.sched) : e.r = r).n
                      ELSE computed[r]]
    /\ batch_queue' = Append(batch_queue, [k \in DOMAIN step.sched |-> step.sched[k].r])
    /\ step' = NoStep
    /\ pc' = IF Len(batch_queue') < QueueSize THEN "idle" ELSE "pop"
    /\ UNCHANGED <<waiting, running, try, todo, arrived, env>>

-----------------------------------------------------------------------------
(* update_from_output() and the other calls.                                *)

PopBatch ==
    /\ \/ pc = "pop"
       \/ pc = "idle" /\ Live = {} /\ batch_queue # <<>>
    /\ todo' = Head(batch_queue) /\ batch_queue' = Tail(batch_queue)
    /\ pc' = "update"
    /\ UNCHANGED <<mgr, waiting, running, computed, step, try, worker, arrived, env>>

\* The inputs of r all of whose tokens are computed.
Passed(r) == {i \in mgr.ids[r] : EndPos(i) <= computed[r]}

\* _free_encoder_inputs
UpdateFree ==
    /\ pc = "update" /\ todo # <<>>
    /\ mgr' = IF Head(todo) \in Live THEN FreeInputs(mgr, Head(todo), Passed(Head(todo))) ELSE mgr
    /\ todo' = Tail(todo)
    /\ UNCHANGED <<pc, waiting, running, computed, step, try, batch_queue, worker, arrived, env>>

UpdateEnd ==
    /\ pc = "update" /\ todo = <<>>
    /\ pc' = "idle"
    /\ UNCHANGED <<mgr, waiting, running, computed, step, try, batch_queue, todo, worker,
                   arrived, env>>

AddRequest(r) ==
    /\ pc = "idle" /\ r \notin arrived
    /\ arrived' = arrived \cup {r}
    /\ waiting' = IF Policy = "fcfs" THEN Append(waiting, r) ELSE HeapAdd(r)
    /\ UNCHANGED <<mgr, pc, running, computed, step, try, batch_queue, todo, worker, env>>

\* A request is aborted, or stops after its prefill: _free_request.
FinishRequest(r) ==
    /\ r \in Live
    /\ pc \in {"idle", "pop"} \/ (pc = "update" /\ computed[r] = NumPrompt(r))
    /\ mgr' = Free(mgr, r)
    /\ running' = Remove(running, r)
    /\ waiting' = Remove(waiting, r)
    /\ UNCHANGED <<pc, computed, step, try, batch_queue, todo, worker, arrived, env>>

\* reset_encoder_cache, of the scheduler and of the model runner.
ResetEncoderCache ==
    /\ pc = "idle" /\ env.resets < MaxResets
    /\ mgr' = Fresh /\ worker' = {} /\ env' = [env EXCEPT !.resets = @ + 1]
    /\ UNCHANGED <<pc, waiting, running, computed, step, try, batch_queue, todo, arrived>>

Engine ==
    \/ StartSchedule \/ RunDecode \/ RunTry \/ RunEnd \/ WaitTry \/ WaitEnd
    \/ TryRepeated \/ TryCached \/ TryStop \/ TryEncode \/ TryEnd
    \/ AllocateSlots \/ Preempt \/ WaitNoSlots \/ FinishSchedule
    \/ PopBatch \/ UpdateFree \/ UpdateEnd

\* All requests have finished and the engine waits for input.
Quiescent == pc = "idle" /\ Live = {} /\ batch_queue = <<>> /\ UNCHANGED vars

Next ==
    \/ Engine
    \/ \E r \in Requests : AddRequest(r) \/ FinishRequest(r)
    \/ ResetEncoderCache
    \/ Quiescent

Spec == Init /\ [][Next]_vars

-----------------------------------------------------------------------------
(* Properties.                                                              *)

\* The fields of the manager and the locals of schedule() have their types; the
\* slot counts never leave 0 .. cache_size (the asserts of allocate).
TypeOK ==
    /\ pc \in {"idle", "running", "waiting", "try", "alloc", "finish", "pop", "update"}
    /\ DOMAIN mgr.cached \subseteq Items
    /\ \A h \in DOMAIN mgr.cached : mgr.cached[h] \subseteq Requests
    /\ \A r \in Requests : mgr.ids[r] \subseteq DOMAIN Inputs[r]
    /\ mgr.num_free \in 0 .. CacheSize /\ mgr.num_freeable \in 0 .. CacheSize
    /\ \A r \in Requests : computed[r] \in 0 .. NumPrompt(r)
    /\ step.budget \in 0 .. Budget /\ env.shortages \in 0 .. MaxShortages
    /\ Live \subseteq Requests /\ worker \subseteq Items

\* The slot counts are what they stand for: space not taken by a cached item, and
\* space not taken by a referenced one; and the eviction list holds exactly the
\* cached items that nobody references, each once.  What can_allocate promised to
\* the inputs of one _try_schedule_encoder_inputs was there when they were
\* allocated: the cache is never overfull.
SlotsExact ==
    LET referenced == {h \in DOMAIN mgr.cached : mgr.cached[h] # {}}
    IN  /\ mgr.num_free >= 0
        /\ mgr.num_free = CacheSize - Sizes(DOMAIN mgr.cached)
        /\ mgr.num_freeable = CacheSize - Sizes(referenced)
        /\ Range(mgr.freeable) = DOMAIN mgr.cached \ referenced
        /\ IsInjective(mgr.freeable)

\* A request references an item exactly while one of its inputs with that item is
\* on record for it; finished and waiting requests reference nothing, save one
\* that is being tried.
ReferencesExact ==
    /\ \A r \in Requests :
         {h \in DOMAIN mgr.cached : r \in mgr.cached[h]} = {ItemOf(r, i) : i \in mgr.ids[r]}
    /\ \A r \in Requests \ (Range(running) \cup {try.r}) : mgr.ids[r] = {}

\* The tokens of a dispatched step find the encoder outputs they need in the
\* model runner ("Encoder cache miss" is never raised).
NoEncoderCacheMiss ==
    [][pc = "finish" =>
         \A e \in Range(step.sched) : \A i \in Window(e.r, computed[e.r], e.n) :
           ItemOf(e.r, i) \in worker']_vars

\* A running request gets through its prompt: requests do not block each other by
\* the items they hold.
PrefillEnds ==
    \A r \in Requests : (r \in Range(running)) ~> (r \notin Live \/ computed[r] = NumPrompt(r))

FairSpec == Spec /\ WF_vars(Engine)

=============================================================================
