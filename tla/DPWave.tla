------------------------------- MODULE DPWave -------------------------------
(***************************************************************************)
(* Request waves of lockstep data parallelism: the API-server clients      *)
(* (core_client.DPAsyncMPClient), the DP coordinator process               *)
(* (coordinator.DPCoordinatorProc) and the engine ranks                    *)
(* (core.DPEngineCoreProc), talking over ordered ZMQ sockets.              *)
(*                                                                         *)
(* Every forward pass of a rank is a collective: a rank that steps waits   *)
(* for all the others (the expert-parallel exchange, then the all-reduce). *)
(* So the ranks must start and stop together, and a request that reaches   *)
(* one rank while all are idle must wake every other one.                  *)
(***************************************************************************)
EXTENDS Integers, FiniteSets, Sequences, TLC

CONSTANTS
  NumEngines,     \* data_parallel_size
  Clients,        \* the API-server processes
  Requests,
  Aborts,         \* the requests their client may abort
  Steps,          \* engine steps a request takes
  SyncInterval,   \* dp_sync_interval
  MaxPauses,      \* bound: pause_generation calls
  PauseModes,     \* the modes they may use
  MaxTicks,       \* bound: periodic publications of the coordinator
  MaxFirst        \* bound: FIRST_REQ messages a client's stats task leaves queued

ASSUME DPAssumption ==
  /\ NumEngines \in Nat \ {0, 1}
  /\ Aborts \subseteq Requests
  /\ Steps \in Nat \ {0}
  /\ SyncInterval \in Nat \ {0}
  /\ MaxPauses \in Nat /\ MaxTicks \in Nat /\ MaxFirst \in Nat \ {0}
  /\ PauseModes \subseteq {"abort", "wait", "keep"}

VARIABLES
  eng,      \* the ranks: loop phase, wave state, pause state, local requests
  coord,    \* the coordinator's wave, running flag, and periodic publications
  cli,      \* each client's view: wave and running
  inputs,   \* inputs[c][e]: client c's socket to rank e
  starts,   \* starts[e]: the coordinator's START_DP_WAVE broadcasts to rank e
  notes,    \* notes[e]: wave notifications of rank e to the coordinator
  firsts,   \* firsts[c]: FIRST_REQ messages of client c to its stats task
  wakes,    \* wakes[c]: new-request messages of client c to the coordinator
  pubs,     \* pubs[c]: the coordinator's publications to client c
  left,     \* steps each request still needs; 0 once finished
  sent,     \* the requests handed to add_request_async: by whom, to which rank
  op        \* the operator's pause/resume call and the replies it waits for

vars == <<eng, coord, cli, inputs, starts, notes, firsts, wakes, pubs, left, sent, op>>

Engines == 0 .. NumEngines - 1
NoEngine == -1

-----------------------------------------------------------------------------

Init ==
  /\ eng = [e \in Engines |->
       [phase |-> "poll", wave |-> 0, running |-> FALSE, was |-> FALSE,
        counter |-> 0, pending |-> FALSE, ignore |-> FALSE, pause |-> "none",
        run |-> {}, wait |-> {}, finished |-> FALSE, local |-> FALSE,
        callback |-> FALSE, failed |-> FALSE]]
  /\ coord = [wave |-> 0, running |-> FALSE, ticks |-> 0]
  /\ cli = [c \in Clients |-> [wave |-> 0, running |-> FALSE]]
  /\ inputs = [c \in Clients |-> [e \in Engines |-> <<>>]]
  /\ starts = [e \in Engines |-> <<>>]
  /\ notes = [e \in Engines |-> <<>>]
  /\ firsts = [c \in Clients |-> <<>>]
  /\ wakes = [c \in Clients |-> <<>>]
  /\ pubs = [c \in Clients |-> <<>>]
  /\ left = [r \in Requests |-> Steps]
  /\ sent = <<>>
  /\ op = [state |-> "idle", waiting |-> {}, pauses |-> 0]

-----------------------------------------------------------------------------
(* The clients. *)

AddRequestAsync(c, r, e) ==
  /\ r \notin DOMAIN sent
  /\ cli[c].running \/ Len(firsts[c]) < MaxFirst
  /\ sent' = sent @@ (r :> [by |-> c, to |-> e, wave |-> cli[c].wave,
                            aborted |-> FALSE])
  /\ inputs' = [inputs EXCEPT ![c][e] =
                  Append(@, [type |-> "add", req |-> r, wave |-> cli[c].wave])]
  /\ firsts' = IF cli[c].running THEN firsts
               ELSE [firsts EXCEPT ![c] = Append(@, e)]
  /\ UNCHANGED <<eng, coord, cli, starts, notes, wakes, pubs, left, op>>

AbortRequestsAsync(r) ==
  /\ r \in Aborts \intersect DOMAIN sent
  /\ ~sent[r].aborted
  /\ left[r] > 0
  /\ sent' = [sent EXCEPT ![r].aborted = TRUE]
  /\ inputs' = [inputs EXCEPT ![sent[r].by][sent[r].to] =
                  Append(@, [type |-> "abort_request", req |-> r, wave |-> 0])]
  /\ UNCHANGED <<eng, coord, cli, starts, notes, firsts, wakes, pubs, left, op>>

FirstReq(c) ==
  /\ firsts[c] # <<>>
  /\ firsts' = [firsts EXCEPT ![c] = Tail(@)]
  /\ cli' = [cli EXCEPT ![c].running = TRUE]
  /\ wakes' = [wakes EXCEPT ![c] =
                 Append(@, [eng |-> Head(firsts[c]), wave |-> cli[c].wave])]
  /\ UNCHANGED <<eng, coord, inputs, starts, notes, pubs, left, sent, op>>

\* With both sockets ready, a client that believes the engines idle takes the
\* FIRST_REQ first, and one that believes them running the publication.
RecvPublication(c) ==
  /\ pubs[c] # <<>>
  /\ firsts[c] = <<>> \/ cli[c].running
  /\ pubs' = [pubs EXCEPT ![c] = Tail(@)]
  /\ cli' = [cli EXCEPT ![c] = Head(pubs[c])]
  /\ UNCHANGED <<eng, coord, inputs, starts, notes, firsts, wakes, left, sent, op>>

\* A utility call goes to every rank and returns when each has replied.
Broadcast(c, type) ==
  [inputs EXCEPT ![c] = [e \in Engines |->
     Append(inputs[c][e], [type |-> type, req |-> NoEngine, wave |-> 0])]]

PauseAsync(c, mode) ==
  /\ op.state \in {"idle", "paused"}
  /\ op.pauses < MaxPauses
  /\ inputs' = Broadcast(c, mode)
  /\ op' = [state |-> "pausing", waiting |-> Engines, pauses |-> op.pauses + 1]
  /\ UNCHANGED <<eng, coord, cli, starts, notes, firsts, wakes, pubs, left, sent>>

ResumeAsync(c) ==
  /\ op.state = "paused"
  /\ inputs' = Broadcast(c, "resume")
  /\ op' = [op EXCEPT !.state = "resuming", !.waiting = Engines]
  /\ UNCHANGED <<eng, coord, cli, starts, notes, firsts, wakes, pubs, left, sent>>

\* The reply of the ranks in E to the operator's call.
Reply(E) ==
  LET waiting == op.waiting \ E
      over    == waiting = {}
      after   == IF op.state = "pausing" THEN "paused" ELSE "idle"
  IN  [op EXCEPT !.waiting = waiting, !.state = IF over THEN after ELSE @]

-----------------------------------------------------------------------------
(* The coordinator. *)

StartAll(wave, exclude) ==
  [e \in Engines |-> Append(starts[e], [wave |-> wave, exclude |-> exclude])]

PublishAll(wave, running) ==
  [c \in Clients |-> Append(pubs[c], [wave |-> wave, running |-> running])]

\* Mutant: the named rank is excluded although its request's wave is over.
CoordNewRequestExcludes(c) ==
  /\ wakes[c] # <<>>
  /\ wakes' = [wakes EXCEPT ![c] = Tail(@)]
  /\ starts' = IF coord.running THEN starts
               ELSE StartAll(coord.wave, Head(wakes[c]).eng)
  /\ UNCHANGED <<eng, coord, cli, inputs, notes, firsts, pubs, left, sent, op>>

CoordNewRequest(c) ==
  /\ wakes[c] # <<>>
  /\ wakes' = [wakes EXCEPT ![c] = Tail(@)]
  /\ LET m == Head(wakes[c])
         exclude == IF m.wave < coord.wave THEN NoEngine ELSE m.eng
     IN  starts' = IF coord.running THEN starts ELSE StartAll(coord.wave, exclude)
  /\ UNCHANGED <<eng, coord, cli, inputs, notes, firsts, pubs, left, sent, op>>

\* Mutant: the end of a wave does not move the coordinator to the next one.
CoordWaveCompleteStays(e) ==
  /\ notes[e] # <<>>
  /\ Head(notes[e]).type = "wave_complete"
  /\ notes' = [notes EXCEPT ![e] = Tail(@)]
  /\ coord' = [coord EXCEPT !.running = FALSE]
  /\ pubs' = PublishAll(coord.wave, FALSE)
  /\ UNCHANGED <<eng, cli, inputs, starts, firsts, wakes, left, sent, op>>

CoordWaveComplete(e) ==
  /\ notes[e] # <<>>
  /\ Head(notes[e]).type = "wave_complete"
  /\ notes' = [notes EXCEPT ![e] = Tail(@)]
  /\ LET w == Head(notes[e]).wave IN
       IF coord.wave <= w
         THEN /\ coord' = [coord EXCEPT !.wave = w + 1, !.running = FALSE]
              /\ pubs' = PublishAll(w + 1, FALSE)
         ELSE UNCHANGED <<coord, pubs>>
  /\ UNCHANGED <<eng, cli, inputs, starts, firsts, wakes, left, sent, op>>

\* Mutant: a rank's notice of the current wave is taken for a duplicate.
StartsWaveNewer(w) == w > coord.wave

StartsWave(w) == w > coord.wave \/ (w = coord.wave /\ ~coord.running)

CoordStartWave(e) ==
  /\ notes[e] # <<>>
  /\ Head(notes[e]).type = "start_wave"
  /\ notes' = [notes EXCEPT ![e] = Tail(@)]
  /\ LET w == Head(notes[e]).wave IN
       IF StartsWave(w)
         THEN /\ coord' = [coord EXCEPT !.wave = w, !.running = TRUE]
              /\ pubs' = PublishAll(w, TRUE)
              /\ starts' = StartAll(w, e)
         ELSE UNCHANGED <<coord, pubs, starts>>
  /\ UNCHANGED <<eng, cli, inputs, firsts, wakes, left, sent, op>>

\* Poller timeout: the statistics, with the wave state, go to the clients.
CoordPublish ==
  /\ coord.ticks < MaxTicks
  /\ coord' = [coord EXCEPT !.ticks = @ + 1]
  /\ pubs' = PublishAll(coord.wave, coord.running)
  /\ UNCHANGED <<eng, cli, inputs, starts, notes, firsts, wakes, left, sent, op>>

-----------------------------------------------------------------------------
(* The ranks. *)

\* Scheduler.has_unfinished_requests under the three pause states.
Unfinished(s) ==
  CASE s.pause = "none" -> s.run \union s.wait
    [] s.pause = "new"  -> s.run
    [] s.pause = "all"  -> {}

HasWork(e) == eng[e].running \/ Unfinished(eng[e]) # {} \/ eng[e].finished

\* The rank reads its input queue: an idle rank first runs its idle callbacks.
Polling(e) == eng[e].phase = "poll" /\ (eng[e].callback => HasWork(e))

Receives(c, e, type) ==
  /\ Polling(e)
  /\ inputs[c][e] # <<>>
  /\ Head(inputs[c][e]).type = type
  /\ inputs' = [inputs EXCEPT ![c][e] = Tail(@)]

Note(e, type, wave) ==
  [notes EXCEPT ![e] = Append(@, [type |-> type, wave |-> wave])]

AddRequest(c, e) ==
  /\ Receives(c, e, "add")
  /\ LET m == Head(inputs[c][e])
         stale == m.wave < eng[e].wave /\ ~eng[e].running /\ eng[e].pause = "none"
     IN  /\ eng' = [eng EXCEPT ![e].wait = @ \union {m.req},
                              ![e].wave = IF m.wave > @ THEN m.wave ELSE @,
                              ![e].running = @ \/ stale]
         /\ notes' = IF stale THEN Note(e, "start_wave", eng[e].wave) ELSE notes
  /\ UNCHANGED <<coord, cli, starts, firsts, wakes, pubs, left, sent, op>>

AbortRequest(c, e) ==
  /\ Receives(c, e, "abort_request")
  /\ LET r == Head(inputs[c][e]).req
         here == r \in eng[e].run \union eng[e].wait
     IN  /\ eng' = [eng EXCEPT ![e].run = @ \ {r}, ![e].wait = @ \ {r},
                              ![e].finished = @ \/ here]
         /\ left' = [left EXCEPT ![r] = IF here THEN 0 ELSE @]
  /\ UNCHANGED <<coord, cli, starts, notes, firsts, wakes, pubs, sent, op>>

PauseScheduler(c, e, mode) ==
  /\ Receives(c, e, mode)
  /\ LET aborted == IF mode = "abort" THEN eng[e].run \union eng[e].wait ELSE {}
     IN  /\ eng' = [eng EXCEPT ![e].run = @ \ aborted, ![e].wait = @ \ aborted,
                              ![e].finished = @ \/ aborted # {},
                              ![e].pause = IF mode = "keep" THEN "all" ELSE "new",
                              ![e].pending = TRUE, ![e].running = TRUE,
                              ![e].callback = TRUE]
         /\ left' = [r \in Requests |-> IF r \in aborted THEN 0 ELSE left[r]]
  /\ UNCHANGED <<coord, cli, starts, notes, firsts, wakes, pubs, sent, op>>

\* The idle callback of the pause resolves its future.
NotifyIdle(e) ==
  /\ eng[e].phase = "poll"
  /\ eng[e].callback /\ ~HasWork(e)
  /\ eng' = [eng EXCEPT ![e].callback = FALSE]
  /\ op' = Reply({e})
  /\ UNCHANGED <<coord, cli, inputs, starts, notes, firsts, wakes, pubs, left, sent>>

PauseInFlight(s) == s.pending \/ (s.running /\ s.ignore)

ResumeScheduler(c, e) ==
  /\ Receives(c, e, "resume")
  /\ \/ /\ PauseInFlight(eng[e])
        /\ eng' = [eng EXCEPT ![e].failed = TRUE]
        /\ op' = Reply({e})
     \/ /\ ~PauseInFlight(eng[e])
        /\ eng[e].running
        /\ op' = Reply({e})
        /\ UNCHANGED eng
     \/ /\ ~PauseInFlight(eng[e])
        /\ ~eng[e].running
        /\ eng' = [eng EXCEPT ![e].pause = "none", ![e].ignore = FALSE,
                             ![e].phase = "resume",
                             ![e].local = eng[e].run \union eng[e].wait # {}]
        /\ UNCHANGED op
  /\ UNCHANGED <<coord, cli, starts, notes, firsts, wakes, pubs, left, sent>>

\* The all-reduce of resume_scheduler completes on every rank.
ResumeBarrier ==
  /\ \A e \in Engines : eng[e].phase = "resume"
  /\ LET any == \E e \in Engines : eng[e].local IN
       eng' = [e \in Engines |-> [eng[e] EXCEPT !.phase = "poll", !.running = any]]
  /\ op' = Reply(Engines)
  /\ UNCHANGED <<coord, cli, inputs, starts, notes, firsts, wakes, pubs, left, sent>>

StartDPWave(e) ==
  /\ Polling(e)
  /\ starts[e] # <<>>
  /\ starts' = [starts EXCEPT ![e] = Tail(@)]
  /\ LET m == Head(starts[e])
         joins == ~eng[e].ignore /\ m.exclude # e /\ m.wave >= eng[e].wave
     IN  eng' = IF joins
                  THEN [eng EXCEPT ![e].wave = m.wave, ![e].running = TRUE]
                  ELSE eng
  /\ UNCHANGED <<coord, cli, inputs, notes, firsts, wakes, pubs, left, sent, op>>

\* step_counter, folded so that it stays finite: all that is read of it is
\* whether it is 1, and its remainder by SyncInterval.
Count(n) == IF n > 2 * SyncInterval THEN n - SyncInterval ELSE n

\* schedule(): the finished ids are handed out, the waiting requests run.
Scheduled(s) ==
  [s EXCEPT !.run = @ \union Unfinished(s), !.wait = @ \ Unfinished(s),
            !.finished = FALSE]

\* Mutant: dummy batches are not counted.
EnterUncounted(s) ==
  [s EXCEPT !.phase = "sync",
            !.counter = IF Unfinished(s) = {} THEN @ ELSE Count(@ + 1)]

\* The rank enters the collectives of a real or a dummy batch.
Enter(s) == [s EXCEPT !.phase = "sync", !.counter = Count(@ + 1)]

\* A rank with nothing to run in no wave goes back to its input queue.
EngineStep(e) ==
  /\ eng[e].phase = "poll"
  /\ HasWork(e)
  /\ LET s == Scheduled(eng[e])
         idle == Unfinished(eng[e]) = {} /\ ~eng[e].running
     IN  eng' = [eng EXCEPT ![e] = IF idle THEN s ELSE Enter(s)]
  /\ UNCHANGED <<coord, cli, inputs, starts, notes, firsts, wakes, pubs, left, sent, op>>

\* The batch of rank e has run: the requests that finish with it.
Done(e) == {r \in Unfinished(eng[e]) : left[r] = 1}

Updated(e) == [eng[e] EXCEPT !.run = @ \ Done(e), !.finished = Done(e) # {}]

Pending == {e \in Engines : eng[e].pending}
Consensus == Pending = Engines

\* Mutant: a pause wanted by some ranks only does not keep the wave going.
GlobalUnfinishedUnpaused == \E e \in Engines : Unfinished(Updated(e)) # {}

\* sync_dp_state: any rank has work, or only some of them want to pause.
GlobalUnfinished ==
  \/ \E e \in Engines : Unfinished(Updated(e)) # {}
  \/ Cardinality(Pending) % NumEngines # 0

SyncsState(s) == s.counter = 1 \/ s.counter % SyncInterval = 0

\* Mutant: START_DP_WAVE is not ignored after the pause.
AfterSyncHeeds(s) ==
  IF ~SyncsState(s) THEN [s EXCEPT !.running = TRUE]
  ELSE [s EXCEPT !.running = GlobalUnfinished, !.pending = @ /\ ~Consensus]

AfterSync(s) ==
  IF ~SyncsState(s) THEN [s EXCEPT !.running = TRUE]
  ELSE [s EXCEPT !.running = GlobalUnfinished,
                 !.ignore = @ \/ Consensus,
                 !.pending = @ /\ ~Consensus]

\* The end of the loop body: the next pass reads engines_running first.
NextPass(s) ==
  LET t == IF s.running THEN s ELSE [s EXCEPT !.wave = @ + 1, !.counter = 0]
  IN  [t EXCEPT !.phase = "poll", !.was = t.running]

\* What rank 0 tells the coordinator after the all-reduce.
Notify(s) ==
  IF ~s.running THEN Note(0, "wave_complete", s.wave)
  ELSE IF ~s.was /\ ~s.pending THEN Note(0, "start_wave", s.wave)
  ELSE notes

\* The collectives of one step complete on every rank.
SyncStep ==
  /\ \A e \in Engines : eng[e].phase = "sync"
  /\ eng' = [e \in Engines |-> NextPass(AfterSync(Updated(e)))]
  /\ left' = [r \in Requests |->
       IF \E e \in Engines : r \in Unfinished(eng[e]) THEN left[r] - 1 ELSE left[r]]
  /\ notes' = Notify(AfterSync(Updated(0)))
  /\ UNCHANGED <<coord, cli, inputs, starts, firsts, wakes, pubs, sent, op>>

-----------------------------------------------------------------------------

Client(c) == FirstReq(c) \/ RecvPublication(c) \/ CoordNewRequest(c)

Coordinate(e) == CoordWaveComplete(e) \/ CoordStartWave(e)

Input(c, e) ==
  \/ AddRequest(c, e)
  \/ AbortRequest(c, e)
  \/ \E mode \in PauseModes : PauseScheduler(c, e, mode)
  \/ ResumeScheduler(c, e)

Quiet ==
  /\ \A e \in Engines : eng[e].phase = "poll" /\ ~HasWork(e) /\ ~eng[e].callback
  /\ \A e \in Engines : starts[e] = <<>> /\ notes[e] = <<>>
  /\ \A c \in Clients : firsts[c] = <<>> /\ wakes[c] = <<>> /\ pubs[c] = <<>>
  /\ \A c \in Clients, e \in Engines : inputs[c][e] = <<>>

Next ==
  \/ \E c \in Clients, r \in Requests, e \in Engines : AddRequestAsync(c, r, e)
  \/ \E r \in Requests : AbortRequestsAsync(r)
  \/ \E c \in Clients, mode \in PauseModes : PauseAsync(c, mode)
  \/ \E c \in Clients : ResumeAsync(c)
  \/ \E c \in Clients : Client(c)
  \/ \E e \in Engines : Coordinate(e)
  \/ CoordPublish
  \/ \E c \in Clients, e \in Engines : Input(c, e)
  \/ \E e \in Engines : StartDPWave(e) \/ NotifyIdle(e) \/ EngineStep(e)
  \/ ResumeBarrier
  \/ SyncStep

Spec == Init /\ [][Next]_vars

\* Every process keeps running and every socket delivers. A rank drains its
\* input queue on each pass of its loop, so a message that waits there is read
\* although the rank is not polling all the time: strong fairness.
Fairness ==
  /\ \A c \in Clients : WF_vars(FirstReq(c)) /\ WF_vars(RecvPublication(c))
  /\ \A c \in Clients : WF_vars(CoordNewRequest(c))
  /\ \A e \in Engines : WF_vars(Coordinate(e))
  /\ \A c \in Clients, e \in Engines : SF_vars(Input(c, e))
  /\ \A e \in Engines : SF_vars(StartDPWave(e))
  /\ \A e \in Engines : WF_vars(NotifyIdle(e)) /\ WF_vars(EngineStep(e))
  /\ WF_vars(ResumeBarrier) /\ WF_vars(SyncStep)

FairSpec == Spec /\ Fairness

-----------------------------------------------------------------------------
(* Properties. *)

Message == [type : {"add", "abort_request", "abort", "wait", "keep", "resume"},
            req : Requests \union {NoEngine}, wave : Nat]

\* The variables of ranks, coordinator, clients and sockets keep their types.
TypeOK ==
  /\ eng \in [Engines ->
       [phase : {"poll", "sync", "resume"}, wave : Nat, running : BOOLEAN,
        was : BOOLEAN, counter : 0 .. 2 * SyncInterval, pending : BOOLEAN,
        ignore : BOOLEAN, pause : {"none", "new", "all"},
        run : SUBSET Requests, wait : SUBSET Requests, finished : BOOLEAN,
        local : BOOLEAN, callback : BOOLEAN, failed : BOOLEAN]]
  /\ coord \in [wave : Nat, running : BOOLEAN, ticks : 0 .. MaxTicks]
  /\ cli \in [Clients -> [wave : Nat, running : BOOLEAN]]
  /\ inputs \in [Clients -> [Engines -> Seq(Message)]]
  /\ starts \in [Engines -> Seq([wave : Nat, exclude : Engines \union {NoEngine}])]
  /\ notes \in [Engines -> Seq([type : {"wave_complete", "start_wave"}, wave : Nat])]
  /\ firsts \in [Clients -> Seq(Engines)]
  /\ wakes \in [Clients -> Seq([eng : Engines, wave : Nat])]
  /\ pubs \in [Clients -> Seq([wave : Nat, running : BOOLEAN])]
  /\ left \in [Requests -> 0 .. Steps]
  /\ DOMAIN sent \subseteq Requests
  /\ op \in [state : {"idle", "pausing", "paused", "resuming"},
             waiting : SUBSET Engines, pauses : 0 .. MaxPauses]

\* When the ranks meet in the collectives of a step they are in the same wave
\* and at the same step of it: "step_counter is identical across DP ranks"
\* (_should_throttle_prefills), so all of them or none run the all-reduce.
LockStep ==
  (\A e \in Engines : eng[e].phase = "sync") =>
    \A e, f \in Engines : eng[e].wave = eng[f].wave /\ eng[e].counter = eng[f].counter

\* No rank waits in the all-reduce of resume_scheduler while another waits in
\* that of a step: the two would answer each other.
CollectivesMatch ==
  ~ \E e, f \in Engines : eng[e].phase = "sync" /\ eng[f].phase = "resume"

\* Once the pause futures of all ranks have resolved, no rank steps again
\* until the operator resumes, whatever late requests, wake-ups or START_DP_WAVE
\* messages arrive; and resume_scheduler never finds the pause still in flight.
PauseHolds ==
  /\ op.state = "paused" =>
       \A e \in Engines : eng[e].phase = "poll" /\ ~eng[e].running
                          /\ eng[e].pause # "none"
  /\ \A e \in Engines : ~eng[e].failed

\* A pause completes: the ranks, which receive it at different times, idle or in
\* the middle of a wave, all reach the consensus and resolve their futures (no
\* deadlock "when pause requests are staggered", test_dp_pause_keep_race_staggered_engines).
PauseCompletes == (op.state = "pausing") ~> (op.state = "paused")

\* When nothing is in flight and no rank has work, the coordinator knows that
\* the ranks are idle, and it and the clients know their wave: a late request
\* must not leave "the coordinator believing the engines are running"
\* (test_dp_pause_late_request_does_not_block_drain).
QuietAgrees ==
  Quiet => /\ ~coord.running
           /\ \A e \in Engines : eng[e].wave = coord.wave
           /\ \A c \in Clients : cli[c].wave = coord.wave

\* Ranks that wait in the collectives of a step are joined by all the others, and
\* all leave it: "Engines will move into running state when receiving a new request
\* or START_DP_WAVE message" (DPCoordinator).
RanksJoin ==
  (\E e \in Engines : eng[e].phase = "sync") ~> (\A e \in Engines : eng[e].phase # "sync")

\* The requests handed to clients are all finished eventually, unless the operator
\* leaves the engines paused.
AllServed ==
  (DOMAIN sent # {}) ~> (op.state = "paused" \/ \A r \in DOMAIN sent : left[r] = 0)

=============================================================================
