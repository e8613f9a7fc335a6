---------------------------- MODULE DPWaveProofs ----------------------------
(***************************************************************************)
(* The theorems about DPWave: the steps that all ranks take together, and   *)
(* what follows from the invariant of DPWaveInvariant.                      *)
(***************************************************************************)
EXTENDS DPWaveInvariant

Syncing == \A e \in Engines : eng[e].phase = "sync"

\* Whether this step ends with the all-reduce, and whether the wave goes on.
Reduces == SyncsState(eng[0])
GoesOn == ~Reduces \/ GlobalUnfinished
Agreed == Reduces /\ Consensus

\* All ranks leave a step with the same answers.
LEMMA SyncRank ==
  ASSUME WaveInv, Syncing, NEW e \in Engines, NEW s, s = NextPass(AfterSync(Updated(e)))
  PROVE  /\ s \in Rank /\ s.phase = "poll" /\ s.running = GoesOn
         /\ s.wave = (IF GoesOn THEN Wave ELSE Wave + 1)
         /\ s.counter = (IF GoesOn THEN eng[0].counter ELSE 0)
         /\ s.pending = (eng[e].pending /\ ~Agreed) /\ s.ignore = (eng[e].ignore \/ Agreed)
         /\ s.pause = eng[e].pause /\ s.callback = eng[e].callback /\ s.failed = eng[e].failed
         /\ s.run = eng[e].run \ Done(e) /\ s.wait = eng[e].wait
<1> DEFINE u == Updated(e)
           a == AfterSync(u)
<1>1. /\ eng[e] \in Rank /\ eng[e].wave = Wave /\ Wave \in Nat
      /\ eng[e].counter = eng[0].counter /\ eng[e].counter \in Nat
  BY RankFacts, EnginesFacts DEF WaveInv, SameStep, Syncing, Waits
<1>2. /\ u \in Rank /\ u.wave = Wave /\ u.counter = eng[0].counter /\ u.phase = "sync"
      /\ u.pending = eng[e].pending /\ u.ignore = eng[e].ignore
      /\ u.pause = eng[e].pause /\ u.callback = eng[e].callback /\ u.failed = eng[e].failed
      /\ u.run = eng[e].run \ Done(e) /\ u.wait = eng[e].wait
  <2>1. u = [eng[e] EXCEPT !.run = eng[e].run \ Done(e), !.finished = Done(e) # {}]
    BY DEF Updated
  <2>2. eng[e].run \ Done(e) \in SUBSET Requests /\ (Done(e) # {}) \in BOOLEAN
    BY <1>1 DEF Rank
  <2> QED BY <1>1, <2>1, <2>2 DEF Rank, Syncing
<1> HIDE DEF u
<1>3. SyncsState(u) = Reduces
  BY <1>2 DEF SyncsState, Reduces
<1>4. GlobalUnfinished \in BOOLEAN /\ Consensus \in BOOLEAN /\ Reduces \in BOOLEAN
  BY DEF GlobalUnfinished, Consensus, Reduces, SyncsState
<1>5. a = IF ~Reduces THEN [u EXCEPT !.running = TRUE]
          ELSE [u EXCEPT !.running = GlobalUnfinished, !.ignore = @ \/ Consensus,
                         !.pending = @ /\ ~Consensus]
  BY <1>3 DEF AfterSync
<1>6. /\ a \in Rank /\ a.running = GoesOn /\ a.wave = u.wave /\ a.counter = u.counter
      /\ a.pending = (u.pending /\ ~Agreed) /\ a.ignore = (u.ignore \/ Agreed)
      /\ a.pause = u.pause /\ a.callback = u.callback /\ a.failed = u.failed
      /\ a.run = u.run /\ a.wait = u.wait
  <2> HIDE DEF a
  <2>1. CASE Reduces
    BY <1>2, <1>4, <1>5, <2>1, ZenonT(60) DEF Rank, GoesOn, Agreed
  <2>2. CASE ~Reduces
    BY <1>2, <1>4, <1>5, <2>2, ZenonT(60) DEF Rank, GoesOn, Agreed
  <2> QED BY <2>1, <2>2
<1> HIDE DEF a
<1> DEFINE t == IF a.running THEN a ELSE [a EXCEPT !.wave = @ + 1, !.counter = 0]
<1>7. s = [t EXCEPT !.phase = "poll", !.was = t.running]
  BY DEF NextPass, a, u
<1>8. /\ t \in Rank /\ t.running = GoesOn
      /\ t.wave = (IF GoesOn THEN Wave ELSE Wave + 1)
      /\ t.counter = (IF GoesOn THEN eng[0].counter ELSE 0)
      /\ t.pending = a.pending /\ t.ignore = a.ignore
      /\ t.pause = a.pause /\ t.callback = a.callback /\ t.failed = a.failed
      /\ t.run = a.run /\ t.wait = a.wait
  <2>1. CASE a.running
    BY <1>2, <1>6, <2>1
  <2>2. CASE ~a.running
    <3>1. a.wave + 1 \in Nat /\ a.wave + 1 = Wave + 1 /\ 0 \in Nat
      BY <1>1, <1>2, <1>6
    <3>2. t = [a EXCEPT !.wave = a.wave + 1, !.counter = 0]
      BY <2>2
    <3> HIDE DEF t
    <3> QED BY <1>6, <2>2, <3>1, <3>2 DEF Rank
  <2> QED BY <2>1, <2>2
<1> HIDE DEF t
<1>9. t.running \in BOOLEAN
  BY <1>8 DEF Rank
<1>10. /\ s \in Rank /\ s.phase = "poll" /\ s.running = t.running /\ s.wave = t.wave
       /\ s.counter = t.counter /\ s.pending = t.pending /\ s.ignore = t.ignore
       /\ s.pause = t.pause /\ s.callback = t.callback /\ s.failed = t.failed
       /\ s.run = t.run /\ s.wait = t.wait
  BY <1>7, <1>8, <1>9 DEF Rank
<1> QED BY <1>2, <1>6, <1>8, <1>10
LEMMA ResumeBarrierStep ==
  ASSUME WaveInv, ResumeBarrier
  PROVE  WaveInv'
<1> DEFINE any == \E e \in Engines : eng[e].local
<1>1. /\ \A e \in Engines : eng[e].phase = "resume"
      /\ eng' = [e \in Engines |-> [eng[e] EXCEPT !.phase = "poll", !.running = any]]
      /\ op' = Reply(Engines)
      /\ UNCHANGED <<coord, cli, inputs, starts, notes, firsts, wakes, pubs>>
  BY DEF ResumeBarrier
<1>2. any \in BOOLEAN
  OBVIOUS
<1> HIDE DEF any
<1>3. ASSUME NEW e \in Engines
      PROVE  /\ eng'[e] \in Rank /\ eng'[e].wave = eng[e].wave
             /\ eng'[e].counter = eng[e].counter /\ eng'[e].phase = "poll"
             /\ ~eng[e].running
  <2>1. eng[e] \in Rank /\ ~eng[e].running
    BY <1>1, RankFacts
  <2>2. eng'[e] = [eng[e] EXCEPT !.phase = "poll", !.running = any]
    BY <1>1
  <2> QED BY <1>2, <2>1, <2>2 DEF Rank
<1>4. eng' \in [Engines -> Rank]
  <2>1. eng' = [e \in Engines |-> eng'[e]]
    BY <1>1
  <2> QED BY <1>3, <2>1
<1>5. SameWave' /\ SameStep' /\ Wave' = Wave
  <2>1. \A e \in Engines : /\ eng'[e].wave = eng[e].wave
                           /\ eng'[e].counter = eng[e].counter
                           /\ Waits(e)' = Waits(e)
                           /\ eng'[e].phase = "resume" => ~eng'[e].running
    BY <1>1, <1>3 DEF Waits
  <2> QED BY <2>1, CalmRanks DEF WaveInv
<1>6. /\ inputs' \in [Clients -> [Engines -> Seq(SocketMessage)]]
      /\ \A d \in Clients, f \in Engines : UpTo(inputs'[d][f], Wave)
      /\ starts' \in [Engines -> Seq(Start)] /\ \A f \in Engines : UpTo(starts'[f], Wave)
  BY <1>1 DEF WaveInv, Types, Bounded
<1>7. op' \in Operator
  BY <1>1, ReplyType
<1>8. (\E f \in Engines : eng[f].running) => \E f \in Engines : eng'[f].running
  BY <1>3
<1> QED BY <1>1, <1>4, <1>5, <1>6, <1>7, <1>8, EnginesFacts, LocalWave

\* A wave ends on all ranks: they are in the next one, and rank 0 tells of it.
LEMMA WaveEnds ==
  ASSUME WaveInv, eng' \in [Engines -> Rank],
         \A e \in Engines : /\ eng'[e].phase = "poll" /\ eng'[e].wave = Wave + 1
                            /\ eng'[e].counter = 0,
         notes' = Note(0, "wave_complete", Wave),
         UNCHANGED <<coord, cli, inputs, starts, firsts, wakes, pubs, op>>
  PROVE  WaveInv'
<1> DEFINE m == [type |-> "wave_complete", wave |-> Wave]
<1>1. m \in Notice /\ IsEnd(m, Wave) /\ Wave \in Nat /\ 0 \in Engines
  BY EnginesFacts, RankFacts DEF Notice, IsEnd
<1>2. Notifies(0, m)
  BY DEF Note, Notifies
<1> HIDE DEF m
<1>3. /\ notes' \in [Engines -> Seq(Notice)]
      /\ \A f \in Engines : \A i \in 1 .. Len(notes'[f]) :
           notes'[f][i] = m \/ \E j \in 1 .. Len(notes[f]) : notes'[f][i] = notes[f][j]
      /\ \E i \in 1 .. Len(notes'[0]) : notes'[0][i] = m
  BY <1>1, <1>2, SendNotice DEF WaveInv
<1>4. Wave' = Wave + 1
  BY EnginesFacts DEF Wave
<1>5. SameWave' /\ SameStep'
  BY <1>4 DEF SameWave, SameStep, Waits
<1>6. Types'
  BY <1>3 DEF WaveInv, Types
<1>7. ASSUME NEW f \in Engines, NEW i \in 1 .. Len(notes'[f])
      PROVE  notes'[f][i].wave \in Nat /\ notes'[f][i].wave <= Wave
  <2>1. CASE notes'[f][i] = m
    BY <1>1, <2>1 DEF IsEnd
  <2>2. CASE \E j \in 1 .. Len(notes[f]) : notes'[f][i] = notes[f][j]
    <3>1. PICK j \in 1 .. Len(notes[f]) : notes'[f][i] = notes[f][j]
      BY <2>2
    <3>2. notes[f] \in Seq(Notice) /\ UpTo(notes[f], Wave)
      BY DEF WaveInv, Types, Bounded
    <3>3. notes[f][j] \in Notice
      BY <3>2
    <3> QED BY <3>1, <3>2, <3>3 DEF UpTo, Notice
  <2> QED BY <1>3, <2>1, <2>2
<1>8. Bounded'
  <2>1. /\ coord.wave \in Nat /\ coord.wave <= Wave
        /\ \A c \in Clients : cli[c].wave \in Nat /\ cli[c].wave <= Wave
    BY DEF WaveInv, Types, Bounded, View
  <2>2. ASSUME NEW c \in Clients PROVE UpTo(pubs[c], Wave + 1)
    <3>1. pubs[c] \in Seq(View) /\ UpTo(pubs[c], Wave) /\ \A v \in View : v.wave \in Nat
      BY DEF WaveInv, Types, Bounded, View
    <3> QED BY <1>1, <3>1, UpToLater
  <2>3. ASSUME NEW c \in Clients, NEW e \in Engines PROVE UpTo(inputs[c][e], Wave + 1)
    <3>1. inputs[c][e] \in Seq(SocketMessage) /\ UpTo(inputs[c][e], Wave)
      BY DEF WaveInv, Types, Bounded
    <3>2. \A v \in SocketMessage : v.wave \in Nat
      BY DEF SocketMessage, RequestMessage, CallMessage
    <3> QED BY <1>1, <3>1, <3>2, UpToLater
  <2>4. ASSUME NEW e \in Engines PROVE UpTo(starts[e], Wave + 1)
    <3>1. starts[e] \in Seq(Start) /\ UpTo(starts[e], Wave) /\ \A v \in Start : v.wave \in Nat
      BY DEF WaveInv, Types, Bounded, Start
    <3> QED BY <1>1, <3>1, UpToLater
  <2>5. \A f \in Engines : \A i \in 1 .. Len(notes'[f]) :
          notes'[f][i].wave <= Wave + 1 /\ notes'[f][i].wave < Wave + 1
    BY <1>1, <1>7
  <2>6. /\ coord.wave <= Wave + 1 /\ \A c \in Clients : cli[c].wave <= Wave + 1
    BY <1>1, <2>1
  <2> QED BY <1>4, <2>2, <2>3, <2>4, <2>5, <2>6 DEF Bounded, UpTo
<1>9. Coordinated'
  <2>1. coord.wave \in Nat /\ coord.wave <= Wave
    BY DEF WaveInv, Types, Bounded
  <2>2. ~Started'
    <3>1. coord'.wave # Wave + 1
      BY <1>1, <2>1
    <3>2. \A f \in Engines : \A i \in 1 .. Len(notes'[f]) : notes'[f][i].wave # Wave + 1
      BY <1>1, <1>7
    <3> QED BY <1>4, <3>1, <3>2 DEF Started
  <2>3. Ended'
    <3>1. Wave' - 1 = Wave
      BY <1>1, <1>4
    <3> QED BY <1>1, <1>3, <3>1 DEF Ended, IsEnd
  <2> QED BY <2>2, <2>3 DEF Coordinated
<1>10. Published'
  BY DEF WaveInv, Published
<1> QED BY <1>5, <1>6, <1>8, <1>9, <1>10 DEF WaveInv

LEMMA SyncStepStep ==
  ASSUME WaveInv, SyncStep
  PROVE  WaveInv'
<1>1. /\ Syncing
      /\ eng' = [e \in Engines |-> NextPass(AfterSync(Updated(e)))]
      /\ notes' = Notify(AfterSync(Updated(0)))
      /\ UNCHANGED <<coord, cli, inputs, starts, firsts, wakes, pubs, op>>
  BY DEF SyncStep, Syncing
<1>2. \A e \in Engines : /\ eng'[e] \in Rank /\ eng'[e].phase = "poll"
                         /\ eng'[e].running = GoesOn
                         /\ eng'[e].wave = (IF GoesOn THEN Wave ELSE Wave + 1)
                         /\ eng'[e].counter = (IF GoesOn THEN eng[0].counter ELSE 0)
  <2> SUFFICES ASSUME NEW e \in Engines
               PROVE  /\ eng'[e] \in Rank /\ eng'[e].phase = "poll"
                      /\ eng'[e].running = GoesOn
                      /\ eng'[e].wave = (IF GoesOn THEN Wave ELSE Wave + 1)
                      /\ eng'[e].counter = (IF GoesOn THEN eng[0].counter ELSE 0)
    OBVIOUS
  <2>1. eng'[e] = NextPass(AfterSync(Updated(e)))
    BY <1>1
  <2> QED BY <1>1, <2>1, SyncRank
<1>3. eng' \in [Engines -> Rank]
  <2>1. eng' = [e \in Engines |-> eng'[e]]
    BY <1>1
  <2> QED BY <1>2, <2>1
<1>4. /\ ~GoesOn => notes' = Note(0, "wave_complete", Wave)
      /\ GoesOn => (UNCHANGED notes \/ notes' = Note(0, "start_wave", Wave))
  <2> DEFINE u == Updated(0)
             a == AfterSync(u)
  <2>1. u \in Rank /\ u.wave = Wave /\ u.counter = eng[0].counter
    BY EnginesFacts, RankFacts, ZenonT(60) DEF Updated, Rank
  <2>2. notes' = Notify(a)
    BY <1>1
  <2> HIDE DEF u
  <2>3. SyncsState(u) = Reduces
    BY <2>1 DEF SyncsState, Reduces
  <2>4. a.running = GoesOn /\ a.wave = Wave
    <3>1. CASE Reduces
      <4>1. a = [u EXCEPT !.running = GlobalUnfinished, !.ignore = @ \/ Consensus,
                          !.pending = @ /\ ~Consensus]
        BY <2>3, <3>1 DEF AfterSync
      <4>2. GlobalUnfinished \in BOOLEAN /\ GoesOn = GlobalUnfinished
        BY <3>1 DEF GoesOn, GlobalUnfinished
      <4> HIDE DEF a
      <4> QED BY <2>1, <4>1, <4>2 DEF Rank
    <3>2. CASE ~Reduces
      <4>1. a = [u EXCEPT !.running = TRUE] /\ GoesOn = TRUE
        BY <2>3, <3>2 DEF AfterSync, GoesOn
      <4> HIDE DEF a
      <4> QED BY <2>1, <4>1 DEF Rank
    <3> QED BY <3>1, <3>2
  <2> HIDE DEF a
  <2>5. GoesOn \in BOOLEAN
    BY DEF GoesOn, Reduces, SyncsState, GlobalUnfinished
  <2>6. CASE GoesOn
    BY <2>2, <2>4, <2>6 DEF Notify
  <2>7. CASE ~GoesOn
    <3>1. ~a.running
      BY <2>4, <2>5, <2>7
    <3>2. notes' = Note(0, "wave_complete", a.wave)
      BY <2>2, <3>1 DEF Notify
    <3> QED BY <2>4, <2>7, <3>2
  <2> QED BY <2>6, <2>7
<1>5. CASE ~GoesOn
  BY <1>1, <1>2, <1>3, <1>4, <1>5, WaveEnds
<1>6. CASE GoesOn
  <2>1. Wave' = Wave /\ SameWave' /\ SameStep'
    BY <1>2, <1>6, EnginesFacts DEF Wave, SameWave, SameStep, Waits
  <2>2. 0 \in Engines /\ eng'[0].running
    BY <1>2, <1>6, EnginesFacts
  <2>3. /\ inputs' \in [Clients -> [Engines -> Seq(SocketMessage)]]
        /\ \A d \in Clients, f \in Engines : UpTo(inputs'[d][f], Wave)
        /\ starts' \in [Engines -> Seq(Start)] /\ \A f \in Engines : UpTo(starts'[f], Wave)
        /\ op' \in Operator
    BY <1>1 DEF WaveInv, Types, Bounded
  <2> QED BY <1>1, <1>3, <1>4, <1>6, <2>1, <2>2, <2>3, LocalWave
<1> QED BY <1>5, <1>6

-----------------------------------------------------------------------------

LEMMA StepWave == WaveInv /\ [Next]_vars => WaveInv'
<1> SUFFICES ASSUME WaveInv, [Next]_vars PROVE WaveInv'
  OBVIOUS
<1>1. CASE \E c \in Clients, r \in Requests, e \in Engines : AddRequestAsync(c, r, e)
  BY <1>1, AddRequestAsyncStep
<1>2. CASE \E r \in Requests : AbortRequestsAsync(r)
  BY <1>2, AbortRequestsAsyncStep
<1>3. CASE \E c \in Clients, mode \in PauseModes : PauseAsync(c, mode)
  BY <1>3, PauseAsyncStep
<1>4. CASE \E c \in Clients : ResumeAsync(c)
  BY <1>4, ResumeAsyncStep
<1>5. CASE \E c \in Clients : Client(c)
  BY <1>5, FirstReqStep, RecvPublicationStep, CoordNewRequestStep DEF Client
<1>6. CASE \E e \in Engines : Coordinate(e)
  BY <1>6, CoordWaveCompleteStep, CoordStartWaveStep DEF Coordinate
<1>7. CASE CoordPublish
  BY <1>7, CoordPublishStep
<1>8. CASE \E c \in Clients, e \in Engines : Input(c, e)
  BY <1>8, AddRequestStep, AbortRequestStep, PauseSchedulerStep, ResumeSchedulerStep
     DEF Input
<1>9. CASE \E e \in Engines : StartDPWave(e) \/ NotifyIdle(e) \/ EngineStep(e)
  BY <1>9, StartDPWaveStep, NotifyIdleStep, EngineStepStep
<1>10. CASE ResumeBarrier
  BY <1>10, ResumeBarrierStep
<1>11. CASE SyncStep
  BY <1>11, SyncStepStep
<1>12. CASE UNCHANGED vars
  BY <1>12 DEF vars, WaveInv, Types, SameWave, SameStep, Waits, Bounded, Coordinated,
     Started, Ended, Published, Wave
<1> QED BY <1>1, <1>2, <1>3, <1>4, <1>5, <1>6, <1>7, <1>8, <1>9, <1>10, <1>11, <1>12
        DEF Next

LEMMA WaveInvariant == Spec => []WaveInv
BY InitWave, StepWave, PTL DEF Spec

\* LockStep, for any number of ranks and clients, any requests and any step and
\* sync intervals: ranks that meet in the collectives of run_busy_loop are in the
\* same wave and have the same step_counter, so either all or none of them go on
\* to the all-reduce of _has_global_unfinished_reqs.
THEOREM RanksInLockStep == Spec => []LockStep
<1>1. WaveInv => LockStep
  BY DEF WaveInv, SameWave, SameStep, Waits, LockStep
<1> QED BY <1>1, WaveInvariant, PTL

\* QuietAgrees, for every value of the constants: once everything has been
\* delivered and no rank has work, DPCoordinatorProc and every DPAsyncMPClient
\* are in the ranks' wave and the coordinator takes the engines for paused.
THEOREM CoordinatorAgrees == Spec => []QuietAgrees
<1>1. ASSUME WaveInv, Quiet
      PROVE  /\ ~coord.running
             /\ \A e \in Engines : eng[e].wave = coord.wave
             /\ \A c \in Clients : cli[c].wave = coord.wave
  <2>1. \A e \in Engines : ~eng[e].running /\ notes[e] = <<>>
    BY <1>1 DEF Quiet, HasWork
  <2>2. \A c \in Clients : pubs[c] = <<>>
    BY <1>1 DEF Quiet
  <2>3. coord.wave = Wave /\ ~coord.running
    <3>1. \A e \in Engines : Len(notes[e]) = 0
      BY <2>1
    <3>2. ~Ended /\ (Started => coord.running /\ coord.wave = Wave)
      BY <3>1, EnginesFacts DEF Started, Ended
    <3>3. coord.wave \in Nat /\ coord.wave <= Wave /\ Wave \in Nat
      BY <1>1, EnginesFacts, RankFacts DEF WaveInv, Types, Bounded
    <3>4. ~(coord.wave < Wave) /\ ~Started
      BY <1>1, <2>1, <3>2 DEF WaveInv, Coordinated
    <3>5. coord.wave = Wave
      BY <3>3, <3>4
    <3> QED BY <3>4, <3>5 DEF Started
  <2>4. \A e \in Engines : eng[e].wave = coord.wave
    BY <1>1, <2>3 DEF WaveInv, SameWave
  <2>5. \A c \in Clients : cli[c].wave = coord.wave
    BY <1>1, <2>2, EmptySeq DEF WaveInv, Published
  <2> QED BY <2>3, <2>4, <2>5
<1>2. WaveInv => QuietAgrees
  BY <1>1 DEF QuietAgrees
<1> QED BY <1>2, WaveInvariant, PTL

-----------------------------------------------------------------------------
(* Pausing and resuming: where each rank stands while the operator's call   *)
(* is on its way, gathers the ranks, drains them and resumes them.          *)

\* No call of the operator waits in the sockets of rank e.
Told(e) ==
  \A c \in Clients : \A i \in 1 .. Len(inputs[c][e]) : inputs[c][e][i].type \notin Calls

\* Exactly one call does, of a type in T.
Due(e, T) ==
  \E c \in Clients : \E i \in 1 .. Len(inputs[c][e]) :
    /\ inputs[c][e][i].type \in T
    /\ \A d \in Clients : \A j \in 1 .. Len(inputs[d][e]) :
         inputs[d][e][j].type \in Calls => d = c /\ j = i

\* A rank that serves requests.
Free(s) == s.pause = "none" /\ ~s.pending /\ ~s.ignore /\ ~s.callback /\ s.phase # "resume"

\* A rank that has not read its pause yet, and one that has.
Asked(s) == ~s.pending /\ ~s.callback /\ s.phase # "resume"
Wants(s) == s.pending /\ s.running /\ s.callback /\ s.pause # "none" /\ s.phase # "resume"

\* A rank that finishes its requests after the consensus, and one that has none.
Drains(s) == /\ ~s.pending /\ s.ignore /\ s.running /\ s.callback
             /\ s.pause # "none" /\ s.phase # "resume"
Still(s) == /\ ~s.pending /\ s.ignore /\ ~s.running /\ s.phase = "poll"
            /\ s.pause # "none" /\ Unfinished(s) = {}

\* A rank that waits in the all-reduce of resume_scheduler.
Resumes(s) == /\ s.phase = "resume" /\ s.pause = "none" /\ ~s.pending /\ ~s.ignore
              /\ ~s.callback /\ ~s.running

Idle == op.state = "idle" /\ \A e \in Engines : Told(e) /\ Free(eng[e])

Gathering ==
  /\ op.state = "pausing" /\ op.waiting = Engines
  /\ \A e \in Engines : \/ Due(e, PauseModes) /\ Asked(eng[e])
                        \/ Told(e) /\ Wants(eng[e])

Draining ==
  /\ op.state = "pausing" /\ op.waiting = Engines
  /\ \A e \in Engines : Told(e) /\ Drains(eng[e])

Drained ==
  /\ op.state = "pausing" /\ op.waiting # {}
  /\ \A e \in Engines : /\ Told(e) /\ Still(eng[e])
                        /\ eng[e].callback <=> e \in op.waiting

Paused ==
  op.state = "paused" /\ \A e \in Engines : Told(e) /\ Still(eng[e]) /\ ~eng[e].callback

Resuming ==
  /\ op.state = "resuming" /\ op.waiting = Engines
  /\ \A e \in Engines : \/ Due(e, {"resume"}) /\ Still(eng[e]) /\ ~eng[e].callback
                        \/ Told(e) /\ Resumes(eng[e])

PauseInv ==
  /\ \A e \in Engines : ~eng[e].failed
  /\ Idle \/ Gathering \/ Draining \/ Drained \/ Paused \/ Resuming

\* A step that leaves the calls to rank e where they are.
KeepsCalls(e) ==
  (Told(e) => Told(e)') /\ \A T \in SUBSET Calls : Due(e, T) => Due(e, T)'

LEMMA CallsSame ==
  ASSUME NEW e \in Engines, \A d \in Clients : inputs'[d][e] = inputs[d][e]
  PROVE  KeepsCalls(e)
<1>1. Told(e) => Told(e)'
  BY DEF Told
<1>2. ASSUME NEW T \in SUBSET Calls, Due(e, T)
      PROVE  Due(e, T)'
  <2>1. PICK c \in Clients : \E i \in 1 .. Len(inputs[c][e]) :
          /\ inputs[c][e][i].type \in T
          /\ \A d \in Clients : \A j \in 1 .. Len(inputs[d][e]) :
               inputs[d][e][j].type \in Calls => d = c /\ j = i
    BY <1>2 DEF Due
  <2> QED BY <2>1 DEF Due
<1> QED BY <1>1, <1>2 DEF KeepsCalls

\* A message that is no call is sent.
LEMMA CallsSend ==
  ASSUME Types, NEW e \in Engines, NEW m \in SocketMessage, m.type \notin Calls,
         \A d \in Clients :
           inputs'[d][e] = inputs[d][e] \/ inputs'[d][e] = Append(inputs[d][e], m)
  PROVE  KeepsCalls(e)
<1>1. ASSUME NEW d \in Clients
      PROVE  /\ \A i \in 1 .. Len(inputs[d][e]) :
                  i \in 1 .. Len(inputs'[d][e]) /\ inputs'[d][e][i] = inputs[d][e][i]
             /\ \A i \in 1 .. Len(inputs'[d][e]) :
                  inputs'[d][e][i].type \in Calls => i \in 1 .. Len(inputs[d][e])
  <2> DEFINE n == inputs[d][e]
             k == inputs'[d][e]
  <2>1. n \in Seq(SocketMessage) /\ (k = n \/ k = Append(n, m))
    BY DEF Types
  <2> HIDE DEF n, k
  <2>2. /\ \A i \in 1 .. Len(n) : i \in 1 .. Len(k) /\ k[i] = n[i]
        /\ \A i \in 1 .. Len(k) : i \in 1 .. Len(n) \/ k[i] = m
    BY <2>1
  <2> QED BY <2>2 DEF n, k
<1>2. Told(e) => Told(e)'
  BY <1>1 DEF Told
<1>3. ASSUME NEW T \in SUBSET Calls, Due(e, T)
      PROVE  Due(e, T)'
  <2>1. PICK c \in Clients : \E i \in 1 .. Len(inputs[c][e]) :
          /\ inputs[c][e][i].type \in T
          /\ \A d \in Clients : \A j \in 1 .. Len(inputs[d][e]) :
               inputs[d][e][j].type \in Calls => d = c /\ j = i
    BY <1>3 DEF Due
  <2>2. PICK i \in 1 .. Len(inputs[c][e]) :
          /\ inputs[c][e][i].type \in T
          /\ \A d \in Clients : \A j \in 1 .. Len(inputs[d][e]) :
               inputs[d][e][j].type \in Calls => d = c /\ j = i
    BY <2>1
  <2>3. i \in 1 .. Len(inputs'[c][e]) /\ inputs'[c][e][i].type \in T
    BY <1>1, <2>2
  <2>4. \A d \in Clients : \A j \in 1 .. Len(inputs'[d][e]) :
          inputs'[d][e][j].type \in Calls => d = c /\ j = i
    BY <1>1, <2>2
  <2> QED BY <2>3, <2>4 DEF Due
<1> QED BY <1>2, <1>3 DEF KeepsCalls

\* Rank e reads a message of client c: one that is no call, or the call it is due.
LEMMA CallsTake ==
  ASSUME Types, NEW c \in Clients, NEW e \in Engines, NEW type, Receives(c, e, type)
  PROVE  /\ \A f \in Engines : f # e \/ type \notin Calls => KeepsCalls(f)
         /\ type \in Calls => /\ ~Told(e)
                              /\ \A T \in SUBSET Calls : Due(e, T) => type \in T /\ Told(e)'
<1> DEFINE n == inputs[c][e]
           t == Tail(n)
<1>1. /\ n # <<>> /\ n \in Seq(SocketMessage) /\ Head(n).type = type
      /\ inputs \in [Clients -> [Engines -> Seq(SocketMessage)]]
      /\ inputs' = [inputs EXCEPT ![c] = [inputs[c] EXCEPT ![e] = t]]
  BY DEF Types, Receives
<1>2. /\ \A d \in Clients, f \in Engines : d # c \/ f # e => inputs'[d][f] = inputs[d][f]
      /\ inputs'[c][e] = t
  <2> HIDE DEF t
  <2> QED BY <1>1
<1>3. /\ Len(n) \in Nat /\ Len(n) >= 1 /\ n[1].type = type
      /\ Len(t) = Len(n) - 1 /\ \A i \in 1 .. Len(n) - 1 : t[i] = n[i + 1]
  BY <1>1, TailFacts
<1> HIDE DEF t
<1>4. ASSUME NEW f \in Engines, f # e \/ type \notin Calls
      PROVE  KeepsCalls(f)
  <2>1. CASE f # e
    BY <1>2, <2>1, CallsSame
  <2>2. CASE f = e /\ type \notin Calls
    <3>1. Told(e) => Told(e)'
      <4> SUFFICES ASSUME Told(e), NEW d \in Clients, NEW i \in 1 .. Len(inputs'[d][e])
                   PROVE  inputs'[d][e][i].type \notin Calls
        BY DEF Told
      <4>1. CASE d # c
        BY <1>2, <4>1 DEF Told
      <4>2. CASE d = c
        <5>1. i + 1 \in 1 .. Len(n) /\ i \in 1 .. Len(n) - 1
          BY <1>2, <1>3, <4>2
        <5> QED BY <1>2, <1>3, <4>2, <5>1 DEF Told
      <4> QED BY <4>1, <4>2
    <3>2. ASSUME NEW T \in SUBSET Calls, Due(e, T)
          PROVE  Due(e, T)'
      <4>1. PICK a \in Clients : \E i \in 1 .. Len(inputs[a][e]) :
              /\ inputs[a][e][i].type \in T
              /\ \A d \in Clients : \A j \in 1 .. Len(inputs[d][e]) :
                   inputs[d][e][j].type \in Calls => d = a /\ j = i
        BY <3>2 DEF Due
      <4>2. PICK i \in 1 .. Len(inputs[a][e]) :
              /\ inputs[a][e][i].type \in T
              /\ \A d \in Clients : \A j \in 1 .. Len(inputs[d][e]) :
                   inputs[d][e][j].type \in Calls => d = a /\ j = i
        BY <4>1
      <4>3. CASE a # c
        <5>1. inputs'[a][e] = inputs[a][e]
          BY <1>2, <4>3
        <5>2. ASSUME NEW d \in Clients, NEW j \in 1 .. Len(inputs'[d][e]),
                     inputs'[d][e][j].type \in Calls
              PROVE  d = a /\ j = i
          <6>1. CASE d # c
            BY <1>2, <4>2, <5>2, <6>1
          <6>2. CASE d = c
            <7>1. j + 1 \in 1 .. Len(n) /\ t[j] = n[j + 1]
              BY <1>2, <1>3, <6>2
            <7> QED BY <1>2, <4>2, <4>3, <5>2, <6>2, <7>1
          <6> QED BY <6>1, <6>2
        <5> QED BY <4>2, <5>1, <5>2 DEF Due
      <4>4. CASE a = c
        <5>1. i # 1
          BY <1>3, <2>2, <4>2, <4>4
        <5>2. i - 1 \in 1 .. Len(n) - 1 /\ (i - 1) + 1 = i
          BY <1>3, <4>2, <4>4, <5>1
        <5>3. i - 1 \in 1 .. Len(t) /\ t[i - 1] = n[i]
          BY <1>3, <5>2
        <5>4. ASSUME NEW d \in Clients, NEW j \in 1 .. Len(inputs'[d][e]),
                     inputs'[d][e][j].type \in Calls
              PROVE  d = c /\ j = i - 1
          <6>1. CASE d # c
            BY <1>2, <4>2, <4>4, <5>4, <6>1
          <6>2. CASE d = c
            <7>1. j \in 1 .. Len(n) - 1 /\ j + 1 \in 1 .. Len(n) /\ t[j] = n[j + 1]
              BY <1>2, <1>3, <6>2
            <7>2. j + 1 = i
              BY <1>2, <4>2, <4>4, <5>4, <6>2, <7>1
            <7> QED BY <6>2, <7>1, <7>2
          <6> QED BY <6>1, <6>2
        <5>5. i - 1 \in 1 .. Len(inputs'[c][e]) /\ inputs'[c][e][i - 1].type \in T
          BY <1>2, <4>2, <4>4, <5>3
        <5> QED BY <5>4, <5>5 DEF Due
      <4> QED BY <4>3, <4>4
    <3> QED BY <2>2, <3>1, <3>2 DEF KeepsCalls
  <2> QED BY <1>4, <2>1, <2>2
<1>5. ASSUME type \in Calls
      PROVE  /\ ~Told(e)
             /\ \A T \in SUBSET Calls : Due(e, T) => type \in T /\ Told(e)'
  <2>1. 1 \in 1 .. Len(inputs[c][e]) /\ inputs[c][e][1].type = type
    BY <1>3
  <2>2. ~Told(e)
    BY <1>5, <2>1 DEF Told
  <2>3. ASSUME NEW T \in SUBSET Calls, Due(e, T)
        PROVE  type \in T /\ Told(e)'
    <3>1. /\ type \in T
          /\ \A d \in Clients : \A j \in 1 .. Len(inputs[d][e]) :
               inputs[d][e][j].type \in Calls => d = c /\ j = 1
      BY <1>5, <2>1, <2>3 DEF Due
    <3>2. ASSUME NEW d \in Clients, NEW j \in 1 .. Len(inputs'[d][e])
          PROVE  inputs'[d][e][j].type \notin Calls
      <4>1. CASE d # c
        BY <1>2, <3>1, <4>1
      <4>2. CASE d = c
        <5>1. j + 1 \in 1 .. Len(n) /\ t[j] = n[j + 1] /\ j + 1 # 1
          BY <1>2, <1>3, <4>2
        <5> QED BY <1>2, <3>1, <4>2, <5>1
      <4> QED BY <4>1, <4>2
    <3> QED BY <3>1, <3>2 DEF Told
  <2> QED BY <2>2, <2>3
<1> QED BY <1>4, <1>5

\* A step that leaves rank e where it stands between pause and resume.
KeepsRank(e) ==
  /\ eng'[e].failed = eng[e].failed
  /\ eng'[e].pending = eng[e].pending /\ eng'[e].ignore = eng[e].ignore
  /\ eng'[e].pause = eng[e].pause /\ eng'[e].callback = eng[e].callback
  /\ eng'[e].phase = "resume" <=> eng[e].phase = "resume"
  /\ eng[e].running => eng'[e].running
  /\ eng[e].phase = "resume" => eng'[e].running = eng[e].running
  /\ Still(eng[e]) => Still(eng'[e])

LEMMA PauseFrame ==
  ASSUME PauseInv, UNCHANGED op, \A e \in Engines : KeepsCalls(e) /\ KeepsRank(e)
  PROVE  PauseInv'
<1>1. \A e \in Engines : ~eng'[e].failed
  BY DEF PauseInv, KeepsRank
<1>2. PauseModes \in SUBSET Calls /\ {"resume"} \in SUBSET Calls
  BY DEF Calls
<1>3. CASE Idle
  BY <1>1, <1>3 DEF PauseInv, KeepsCalls, KeepsRank, Idle, Free
<1>4. CASE Gathering
  <2>1. ASSUME NEW e \in Engines
        PROVE  \/ Due(e, PauseModes)' /\ Asked(eng'[e])
               \/ Told(e)' /\ Wants(eng'[e])
    BY <1>2, <1>4 DEF KeepsCalls, KeepsRank, Gathering, Asked, Wants
  <2> QED BY <1>1, <1>4, <2>1 DEF Gathering, PauseInv
<1>5. CASE Draining
  BY <1>1, <1>5 DEF PauseInv, KeepsCalls, KeepsRank, Draining, Drains
<1>6. CASE Drained
  BY <1>1, <1>6 DEF PauseInv, KeepsCalls, KeepsRank, Drained
<1>7. CASE Paused
  BY <1>1, <1>7 DEF PauseInv, KeepsCalls, KeepsRank, Paused
<1>8. CASE Resuming
  <2>1. ASSUME NEW e \in Engines
        PROVE  \/ Due(e, {"resume"})' /\ Still(eng'[e]) /\ ~eng'[e].callback
               \/ Told(e)' /\ Resumes(eng'[e])
    BY <1>2, <1>8 DEF KeepsCalls, KeepsRank, Resuming, Resumes
  <2> QED BY <1>1, <1>8, <2>1 DEF Resuming, PauseInv
<1> QED BY <1>3, <1>4, <1>5, <1>6, <1>7, <1>8 DEF PauseInv

LEMMA SameRanksKept ==
  ASSUME UNCHANGED eng
  PROVE  \A e \in Engines : KeepsRank(e)
BY DEF KeepsRank

\* Clients and coordinator: nothing but requests is sent to the ranks.
LEMMA OutsidePause ==
  ASSUME WaveInv, PauseInv,
         \/ \E c \in Clients, r \in Requests, e \in Engines : AddRequestAsync(c, r, e)
         \/ \E r \in Requests : AbortRequestsAsync(r)
         \/ \E c \in Clients : Client(c)
         \/ \E e \in Engines : Coordinate(e)
         \/ CoordPublish
  PROVE  PauseInv'
<1>1. UNCHANGED <<eng, op>>
  BY DEF AddRequestAsync, AbortRequestsAsync, Client, FirstReq, RecvPublication,
     CoordNewRequest, Coordinate, CoordWaveComplete, CoordStartWave, CoordPublish
<1>2. \A f \in Engines : KeepsCalls(f)
  <2>1. ASSUME NEW m \in SocketMessage, NEW a, NEW b, Sends(a, b, m), m.type \notin Calls
        PROVE  \A f \in Engines : KeepsCalls(f)
    BY <2>1, SocketSend, CallsSend DEF WaveInv
  <2>2. "add" \notin Calls /\ "abort_request" \notin Calls
    BY DPAssumption DEF Calls
  <2>3. CASE \E c \in Clients, r \in Requests, e \in Engines : AddRequestAsync(c, r, e)
    <3>1. PICK c \in Clients, r \in Requests, e \in Engines : AddRequestAsync(c, r, e)
      BY <2>3
    <3> DEFINE m == [type |-> "add", req |-> r, wave |-> cli[c].wave]
    <3>2. m \in SocketMessage /\ m.type = "add"
      BY DEF WaveInv, Types, View, RequestMessage, SocketMessage
    <3>3. Sends(c, e, m)
      BY <3>1 DEF AddRequestAsync, Sends
    <3> HIDE DEF m
    <3> QED BY <2>1, <2>2, <3>2, <3>3
  <2>4. CASE \E r \in Requests : AbortRequestsAsync(r)
    <3>1. PICK r \in Requests : AbortRequestsAsync(r)
      BY <2>4
    <3> DEFINE m == [type |-> "abort_request", req |-> r, wave |-> 0]
    <3>2. m \in SocketMessage /\ m.type = "abort_request"
      BY DEF RequestMessage, SocketMessage
    <3>3. Sends(sent[r].by, sent[r].to, m)
      BY <3>1 DEF AbortRequestsAsync, Sends
    <3> HIDE DEF m
    <3> QED BY <2>1, <2>2, <3>2, <3>3
  <2>5. CASE \/ \E c \in Clients : Client(c)
             \/ \E e \in Engines : Coordinate(e)
             \/ CoordPublish
    <3>1. UNCHANGED inputs
      BY <2>5 DEF Client, FirstReq, RecvPublication,
         CoordNewRequest, Coordinate, CoordWaveComplete, CoordStartWave, CoordPublish
    <3> QED BY <3>1, CallsSame
  <2> QED BY <2>3, <2>4, <2>5
<1> QED BY <1>1, <1>2, SameRanksKept, PauseFrame

LEMMA AppendPlaces ==
  ASSUME NEW S, NEW s \in Seq(S), NEW m \in S
  PROVE  /\ Len(s) \in Nat /\ Len(Append(s, m)) = Len(s) + 1 /\ Append(s, m)[Len(s) + 1] = m
         /\ \A i \in 1 .. Len(s) : Append(s, m)[i] = s[i]
OBVIOUS

LEMMA CallsBroadcast ==
  ASSUME WaveInv, NEW c \in Clients, NEW type \in Calls, inputs' = Broadcast(c, type),
         NEW e \in Engines, Told(e), NEW T, type \in T
  PROVE  Due(e, T)'
<1> DEFINE m == [type |-> type, req |-> NoEngine, wave |-> 0]
           n == inputs[c][e]
<1>1. /\ inputs' = [inputs EXCEPT ![c] = [f \in Engines |-> Append(inputs[c][f], m)]]
      /\ inputs \in [Clients -> [Engines -> Seq(SocketMessage)]] /\ m.type = type
      /\ m \in SocketMessage
  BY DEF Broadcast, WaveInv, Types, SocketMessage, CallMessage
<1> HIDE DEF m
<1>2. /\ inputs'[c][e] = Append(n, m) /\ n \in Seq(SocketMessage)
      /\ \A d \in Clients \ {c} : inputs'[d][e] = inputs[d][e]
  BY <1>1
<1> HIDE DEF n
<1>3. /\ Len(n) \in Nat /\ Len(Append(n, m)) = Len(n) + 1 /\ Append(n, m)[Len(n) + 1] = m
      /\ \A i \in 1 .. Len(n) : Append(n, m)[i] = n[i]
  <2>1. n \in Seq(SocketMessage) /\ m \in SocketMessage
    BY <1>1, <1>2
  <2> QED BY <2>1, AppendPlaces, ZenonT(60)
<1>4. Len(n) + 1 \in 1 .. Len(inputs'[c][e]) /\ inputs'[c][e][Len(n) + 1].type \in T
  BY <1>1, <1>2, <1>3, SMTT(30)
<1>5. ASSUME NEW d \in Clients, NEW j \in 1 .. Len(inputs'[d][e]),
             inputs'[d][e][j].type \in Calls
      PROVE  d = c /\ j = Len(n) + 1
  <2>1. CASE d # c
    BY <1>2, <1>5, <2>1 DEF Told
  <2>2. CASE d = c /\ j # Len(n) + 1
    <3>1. j \in 1 .. Len(n) /\ inputs'[c][e][j] = n[j]
      BY <1>2, <1>3, <2>2
    <3> QED BY <1>5, <2>2, <3>1 DEF Told, n
  <2> QED BY <2>1, <2>2
<1> QED BY <1>4, <1>5 DEF Due

LEMMA PauseAsyncPause ==
  ASSUME WaveInv, PauseInv, NEW c \in Clients, NEW mode \in PauseModes, PauseAsync(c, mode)
  PROVE  PauseInv'
<1>1. /\ mode \in Calls /\ inputs' = Broadcast(c, mode) /\ UNCHANGED eng
      /\ op.state \in {"idle", "paused"}
      /\ op'.state = "pausing" /\ op'.waiting = Engines
  BY DEF PauseAsync, Calls
<1>2. \A e \in Engines : Told(e) /\ Asked(eng[e])
  BY <1>1 DEF PauseInv, Idle, Gathering, Draining, Drained, Paused, Resuming, Free, Still,
     Asked
<1>3. \A e \in Engines : Due(e, PauseModes)' /\ Asked(eng'[e])
  BY <1>1, <1>2, CallsBroadcast
<1>4. Gathering'
  BY <1>1, <1>3 DEF Gathering
<1> QED BY <1>1, <1>4 DEF PauseInv

LEMMA ResumeAsyncPause ==
  ASSUME WaveInv, PauseInv, NEW c \in Clients, ResumeAsync(c)
  PROVE  PauseInv'
<1>1. /\ "resume" \in Calls /\ inputs' = Broadcast(c, "resume") /\ UNCHANGED eng
      /\ op.state = "paused"
      /\ op' = [op EXCEPT !.state = "resuming", !.waiting = Engines]
  BY DEF ResumeAsync, Calls
<1>2. op'.state = "resuming" /\ op'.waiting = Engines
  BY <1>1 DEF WaveInv, Types, Operator
<1>3. Paused
  BY <1>1 DEF PauseInv, Idle, Gathering, Draining, Drained, Resuming
<1>4. \A e \in Engines : Due(e, {"resume"})'
  BY <1>1, <1>3, CallsBroadcast DEF Paused
<1>5. Resuming'
  BY <1>1, <1>2, <1>3, <1>4 DEF Resuming, Paused
<1> QED BY <1>1, <1>5 DEF PauseInv

LEMMA AddRequestPause ==
  ASSUME WaveInv, PauseInv, NEW c \in Clients, NEW e \in Engines, AddRequest(c, e)
  PROVE  PauseInv'
<1> DEFINE m == Head(inputs[c][e])
           stale == m.wave < eng[e].wave /\ ~eng[e].running /\ eng[e].pause = "none"
           w == IF m.wave > eng[e].wave THEN m.wave ELSE eng[e].wave
           s == [eng[e] EXCEPT !.wait = @ \union {m.req}, !.wave = w, !.running = @ \/ stale]
<1>1. eng[e] \in Rank /\ eng \in [Engines -> Rank]
  BY RankFacts
<1>2. Receives(c, e, "add") /\ UNCHANGED op /\ eng[e].phase = "poll" /\ "add" \notin Calls
  BY DPAssumption DEF AddRequest, Receives, Polling, Calls
<1>3. eng' = [eng EXCEPT ![e] = s]
  BY <1>1 DEF AddRequest
<1> HIDE DEF m, w
<1>4. /\ s.failed = eng[e].failed /\ s.pending = eng[e].pending /\ s.ignore = eng[e].ignore
      /\ s.pause = eng[e].pause /\ s.callback = eng[e].callback /\ s.phase = eng[e].phase
      /\ s.running = (eng[e].running \/ stale) /\ s.run = eng[e].run
  BY <1>1 DEF Rank
<1>5. eng'[e] = s /\ \A f \in Engines \ {e} : eng'[f] = eng[f]
  BY <1>1, <1>3
<1> HIDE DEF s
<1>6. Still(eng[e]) => Still(s)
  BY <1>1, <1>4 DEF Still, Unfinished, Rank
<1> HIDE DEF stale
<1>7. KeepsRank(e)
  BY <1>2, <1>4, <1>5, <1>6 DEF KeepsRank
<1>8. \A f \in Engines \ {e} : KeepsRank(f)
  BY <1>5 DEF KeepsRank
<1>9. \A f \in Engines : KeepsCalls(f)
  BY <1>2, CallsTake DEF WaveInv
<1> QED BY <1>2, <1>7, <1>8, <1>9, PauseFrame

LEMMA AbortRequestPause ==
  ASSUME WaveInv, PauseInv, NEW c \in Clients, NEW e \in Engines, AbortRequest(c, e)
  PROVE  PauseInv'
<1> DEFINE r == Head(inputs[c][e]).req
           here == r \in eng[e].run \union eng[e].wait
           s == [eng[e] EXCEPT !.run = @ \ {r}, !.wait = @ \ {r}, !.finished = @ \/ here]
<1>1. eng[e] \in Rank /\ eng \in [Engines -> Rank]
  BY RankFacts
<1>2. /\ Receives(c, e, "abort_request") /\ UNCHANGED op /\ eng[e].phase = "poll"
      /\ "abort_request" \notin Calls
  BY DPAssumption DEF AbortRequest, Receives, Polling, Calls
<1>3. eng' = [eng EXCEPT ![e] = s]
  BY <1>1 DEF AbortRequest
<1> HIDE DEF r, here
<1>4. /\ s.failed = eng[e].failed /\ s.pending = eng[e].pending /\ s.ignore = eng[e].ignore
      /\ s.pause = eng[e].pause /\ s.callback = eng[e].callback /\ s.phase = eng[e].phase
      /\ s.running = eng[e].running /\ s.run = eng[e].run \ {r}
  BY <1>1 DEF Rank
<1>5. eng'[e] = s /\ \A f \in Engines \ {e} : eng'[f] = eng[f]
  BY <1>1, <1>3
<1> HIDE DEF s
<1>6. Still(eng[e]) => Still(s)
  BY <1>1, <1>4 DEF Still, Unfinished, Rank
<1>7. KeepsRank(e)
  BY <1>2, <1>4, <1>5, <1>6 DEF KeepsRank
<1>8. \A f \in Engines \ {e} : KeepsRank(f)
  BY <1>5 DEF KeepsRank
<1>9. \A f \in Engines : KeepsCalls(f)
  BY <1>2, CallsTake DEF WaveInv
<1> QED BY <1>2, <1>7, <1>8, <1>9, PauseFrame

LEMMA PauseSchedulerPause ==
  ASSUME WaveInv, PauseInv, NEW c \in Clients, NEW e \in Engines, NEW mode \in PauseModes,
         PauseScheduler(c, e, mode)
  PROVE  PauseInv'
<1> DEFINE aborted == IF mode = "abort" THEN eng[e].run \union eng[e].wait ELSE {}
           s == [eng[e] EXCEPT !.run = @ \ aborted, !.wait = @ \ aborted,
                               !.finished = @ \/ aborted # {},
                               !.pause = IF mode = "keep" THEN "all" ELSE "new",
                               !.pending = TRUE, !.running = TRUE, !.callback = TRUE]
<1>1. eng[e] \in Rank /\ eng \in [Engines -> Rank]
  BY RankFacts
<1>2. /\ Receives(c, e, mode) /\ UNCHANGED op /\ eng[e].phase = "poll"
      /\ mode \in Calls /\ mode # "resume" /\ PauseModes \in SUBSET Calls
      /\ {"resume"} \in SUBSET Calls
  BY DPAssumption DEF PauseScheduler, Receives, Polling, Calls
<1>3. eng' = [eng EXCEPT ![e] = s]
  BY <1>1, ZenonT(60) DEF PauseScheduler
<1> HIDE DEF aborted
<1>4. s.failed = eng[e].failed /\ Wants(s)
  BY <1>1, <1>2, SMTT(30) DEF Rank, Wants
<1>5. eng'[e] = s /\ \A f \in Engines \ {e} : eng'[f] = eng[f]
  BY <1>1, <1>3
<1> HIDE DEF s
<1>6. /\ \A f \in Engines \ {e} : KeepsCalls(f)
      /\ ~Told(e) /\ ~Due(e, {"resume"}) /\ (Due(e, PauseModes) => Told(e)')
  BY <1>2, CallsTake DEF WaveInv
<1>7. Gathering
  BY <1>6 DEF PauseInv, Idle, Draining, Drained, Paused, Resuming
<1>8. Told(e)' /\ Wants(eng'[e])
  BY <1>4, <1>5, <1>6, <1>7 DEF Gathering
<1>9. \A f \in Engines \ {e} : \/ Due(f, PauseModes)' /\ Asked(eng'[f])
                               \/ Told(f)' /\ Wants(eng'[f])
  BY <1>2, <1>5, <1>6, <1>7 DEF Gathering, KeepsCalls
<1>10. Gathering'
  BY <1>2, <1>7, <1>8, <1>9 DEF Gathering
<1>11. \A f \in Engines : ~eng'[f].failed
  BY <1>4, <1>5 DEF PauseInv
<1> QED BY <1>10, <1>11 DEF PauseInv

LEMMA ResumeSchedulerPause ==
  ASSUME WaveInv, PauseInv, NEW c \in Clients, NEW e \in Engines, ResumeScheduler(c, e)
  PROVE  PauseInv'
<1> DEFINE s == [eng[e] EXCEPT !.pause = "none", !.ignore = FALSE, !.phase = "resume",
                               !.local = eng[e].run \union eng[e].wait # {}]
<1>1. eng[e] \in Rank /\ eng \in [Engines -> Rank]
  BY RankFacts
<1>2. /\ Receives(c, e, "resume") /\ "resume" \in Calls /\ "resume" \notin PauseModes
      /\ PauseModes \in SUBSET Calls /\ {"resume"} \in SUBSET Calls
  BY DPAssumption DEF ResumeScheduler, Calls
<1>3. /\ \A f \in Engines \ {e} : KeepsCalls(f)
      /\ ~Told(e) /\ ~Due(e, PauseModes) /\ (Due(e, {"resume"}) => Told(e)')
  BY <1>2, CallsTake DEF WaveInv
<1>4. Resuming
  BY <1>3 DEF PauseInv, Idle, Gathering, Draining, Drained, Paused
<1>5. Due(e, {"resume"}) /\ Still(eng[e]) /\ ~eng[e].callback
  BY <1>3, <1>4 DEF Resuming
<1>6. ~PauseInFlight(eng[e]) /\ ~eng[e].running
  BY <1>5 DEF Still, PauseInFlight
<1>7. eng' = [eng EXCEPT ![e] = s] /\ UNCHANGED op
  BY <1>1, <1>6 DEF ResumeScheduler
<1>8. s.failed = eng[e].failed /\ Resumes(s)
  BY <1>1, <1>5 DEF Rank, Still, Resumes
<1>9. eng'[e] = s /\ \A f \in Engines \ {e} : eng'[f] = eng[f]
  BY <1>1, <1>7
<1> HIDE DEF s
<1>10. Told(e)' /\ Resumes(eng'[e])
  BY <1>3, <1>5, <1>8, <1>9
<1>11. \A f \in Engines \ {e} : \/ Due(f, {"resume"})' /\ Still(eng'[f]) /\ ~eng'[f].callback
                                \/ Told(f)' /\ Resumes(eng'[f])
  BY <1>2, <1>3, <1>4, <1>9 DEF Resuming, KeepsCalls
<1>12. Resuming'
  BY <1>4, <1>7, <1>10, <1>11 DEF Resuming
<1>13. \A f \in Engines : ~eng'[f].failed
  BY <1>8, <1>9 DEF PauseInv
<1> QED BY <1>12, <1>13 DEF PauseInv

LEMMA NotifyIdlePause ==
  ASSUME WaveInv, PauseInv, NEW e \in Engines, NotifyIdle(e)
  PROVE  PauseInv'
<1> DEFINE s == [eng[e] EXCEPT !.callback = FALSE]
<1>1. eng[e] \in Rank /\ eng \in [Engines -> Rank]
  BY RankFacts
<1>2. /\ eng[e].callback /\ ~eng[e].running /\ op' = Reply({e}) /\ UNCHANGED inputs
  BY DEF NotifyIdle, HasWork
<1>3. eng' = [eng EXCEPT ![e] = s]
  BY <1>1 DEF NotifyIdle
<1>4. s.failed = eng[e].failed /\ (Still(eng[e]) => Still(s)) /\ ~s.callback
  BY <1>1 DEF Rank, Still, Unfinished
<1>5. eng'[e] = s /\ \A f \in Engines \ {e} : eng'[f] = eng[f]
  BY <1>1, <1>3
<1> HIDE DEF s
<1>6. Drained
  <2>1. /\ ~Free(eng[e]) /\ ~Asked(eng[e]) /\ ~Wants(eng[e]) /\ ~Drains(eng[e])
        /\ ~Resumes(eng[e])
    BY <1>2 DEF Free, Asked, Wants, Drains, Resumes
  <2> QED BY <1>2, <2>1 DEF PauseInv, Idle, Gathering, Draining, Paused, Resuming
<1>7. \A f \in Engines : Told(f)'
  BY <1>2, <1>6, CallsSame DEF Drained, KeepsCalls
<1>8. \A f \in Engines : Still(eng'[f]) /\ (eng'[f].callback <=> f \in op.waiting \ {e})
  BY <1>4, <1>5, <1>6 DEF Drained
<1>9. /\ op'.waiting = op.waiting \ {e}
      /\ op'.state = IF op.waiting \ {e} = {} THEN "paused" ELSE "pausing"
  BY <1>2, <1>6 DEF Reply, Drained, WaveInv, Types, Operator
<1>10. Drained' \/ Paused'
  BY <1>7, <1>8, <1>9 DEF Drained, Paused
<1>11. \A f \in Engines : ~eng'[f].failed
  BY <1>4, <1>5 DEF PauseInv
<1> QED BY <1>10, <1>11 DEF PauseInv

LEMMA StartDPWavePause ==
  ASSUME WaveInv, PauseInv, NEW e \in Engines, StartDPWave(e)
  PROVE  PauseInv'
<1> DEFINE w == Head(starts[e]).wave
           s == [eng[e] EXCEPT !.wave = w, !.running = TRUE]
<1>1. eng[e] \in Rank /\ eng \in [Engines -> Rank]
  BY RankFacts
<1>2. UNCHANGED <<op, inputs>> /\ eng[e].phase = "poll"
  BY DEF StartDPWave, Polling
<1>3. UNCHANGED eng \/ (~eng[e].ignore /\ eng' = [eng EXCEPT ![e] = s])
  BY <1>1 DEF StartDPWave
<1>4. \A f \in Engines : KeepsCalls(f)
  BY <1>2, CallsSame
<1>5. CASE UNCHANGED eng
  BY <1>2, <1>4, <1>5, SameRanksKept, PauseFrame
<1>6. CASE ~eng[e].ignore /\ eng' = [eng EXCEPT ![e] = s]
  <2> HIDE DEF w
  <2>1. /\ s.failed = eng[e].failed /\ s.pending = eng[e].pending /\ s.ignore = eng[e].ignore
        /\ s.pause = eng[e].pause /\ s.callback = eng[e].callback /\ s.phase = eng[e].phase
        /\ s.running
    BY <1>1 DEF Rank
  <2>2. eng'[e] = s /\ \A f \in Engines \ {e} : eng'[f] = eng[f]
    BY <1>1, <1>6
  <2> HIDE DEF s
  <2>3. KeepsRank(e)
    BY <1>2, <1>6, <2>1, <2>2 DEF KeepsRank, Still
  <2>4. \A f \in Engines \ {e} : KeepsRank(f)
    BY <2>2 DEF KeepsRank
  <2> QED BY <1>2, <1>4, <2>3, <2>4, PauseFrame
<1> QED BY <1>3, <1>5, <1>6

LEMMA EngineStepPause ==
  ASSUME WaveInv, PauseInv, NEW e \in Engines, EngineStep(e)
  PROVE  PauseInv'
<1> DEFINE u == Unfinished(eng[e])
           s == Scheduled(eng[e])
           t == Enter(s)
<1>1. eng[e] \in Rank /\ eng \in [Engines -> Rank]
  BY RankFacts
<1>2. UNCHANGED <<op, inputs>> /\ eng[e].phase = "poll"
  BY DEF EngineStep
<1>3. \/ eng' = [eng EXCEPT ![e] = s]
      \/ (u # {} \/ eng[e].running) /\ eng' = [eng EXCEPT ![e] = t]
  BY DEF EngineStep
<1>4. s = [eng[e] EXCEPT !.run = @ \union u, !.wait = @ \ u, !.finished = FALSE]
  BY DEF Scheduled
<1> HIDE DEF u
<1>5. /\ s.failed = eng[e].failed /\ s.pending = eng[e].pending /\ s.ignore = eng[e].ignore
      /\ s.pause = eng[e].pause /\ s.callback = eng[e].callback /\ s.phase = eng[e].phase
      /\ s.running = eng[e].running /\ s.run = eng[e].run \union u
      /\ DOMAIN s = DOMAIN eng[e]
  <2> HIDE DEF s
  <2> QED BY <1>1, <1>4 DEF Rank
<1> HIDE DEF s
<1>6. /\ t.failed = s.failed /\ t.pending = s.pending /\ t.ignore = s.ignore
      /\ t.pause = s.pause /\ t.callback = s.callback /\ t.phase = "sync"
      /\ t.running = s.running
  <2> DEFINE n == Count(s.counter + 1)
  <2>1. t = [s EXCEPT !.phase = "sync", !.counter = n]
    BY DEF Enter
  <2>2. "phase" \in DOMAIN s
    BY <1>1, <1>5 DEF Rank
  <2> HIDE DEF n, t
  <2> QED BY <2>1, <2>2
<1> HIDE DEF t
<1>7. Still(eng[e]) => u = {} /\ ~eng[e].running
  BY DEF Still, u
<1>8. Still(eng[e]) => Still(s)
  <2> SUFFICES ASSUME Still(eng[e]) PROVE Still(s)
    OBVIOUS
  <2>1. s.run = eng[e].run
    BY <1>5, <1>7
  <2> QED BY <1>1, <1>5, <2>1 DEF Still, Unfinished, Rank
<1>9. \A f \in Engines : KeepsCalls(f)
  BY <1>2, CallsSame
<1>10. KeepsRank(e) /\ \A f \in Engines \ {e} : eng'[f] = eng[f]
  <2>1. CASE eng' = [eng EXCEPT ![e] = s]
    <3>1. eng'[e] = s /\ \A f \in Engines \ {e} : eng'[f] = eng[f]
      BY <1>1, <2>1
    <3> QED BY <1>2, <1>5, <1>8, <3>1 DEF KeepsRank
  <2>2. CASE (u # {} \/ eng[e].running) /\ eng' = [eng EXCEPT ![e] = t]
    <3>1. eng'[e] = t /\ \A f \in Engines \ {e} : eng'[f] = eng[f]
      BY <1>1, <2>2
    <3> QED BY <1>2, <1>5, <1>6, <1>7, <2>2, <3>1 DEF KeepsRank
  <2> QED BY <1>3, <2>1, <2>2
<1>11. \A f \in Engines \ {e} : KeepsRank(f)
  BY <1>10 DEF KeepsRank
<1> QED BY <1>2, <1>9, <1>10, <1>11, PauseFrame

LEMMA ResumeBarrierPause ==
  ASSUME WaveInv, PauseInv, ResumeBarrier
  PROVE  PauseInv'
<1> DEFINE any == \E e \in Engines : eng[e].local
<1>1. /\ \A e \in Engines : eng[e].phase = "resume"
      /\ eng' = [e \in Engines |-> [eng[e] EXCEPT !.phase = "poll", !.running = any]]
      /\ op' = Reply(Engines) /\ UNCHANGED inputs
  BY DEF ResumeBarrier
<1> HIDE DEF any
<1>2. eng[0].phase = "resume" /\ 0 \in Engines
  BY <1>1, EnginesFacts
<1>3. Resuming
  BY <1>2 DEF PauseInv, Idle, Gathering, Draining, Drained, Paused, Free, Asked, Wants,
     Drains, Still
<1>4. \A e \in Engines : Told(e) /\ Resumes(eng[e])
  BY <1>1, <1>3 DEF Resuming, Still
<1>5. ASSUME NEW e \in Engines
      PROVE  Told(e)' /\ Free(eng'[e]) /\ eng'[e].failed = eng[e].failed
  <2>1. eng[e] \in Rank /\ eng'[e] = [eng[e] EXCEPT !.phase = "poll", !.running = any]
    BY <1>1, RankFacts
  <2>2. Told(e)'
    BY <1>1, <1>4, CallsSame DEF KeepsCalls
  <2>3. Resumes(eng[e])
    BY <1>4
  <2> QED BY <2>1, <2>2, <2>3 DEF Free, Resumes, Rank
<1>6. op'.state = "idle"
  BY <1>1, <1>3 DEF Resuming, Reply, WaveInv, Types, Operator
<1>7. Idle'
  BY <1>5, <1>6 DEF Idle
<1>8. \A e \in Engines : ~eng'[e].failed
  BY <1>5 DEF PauseInv
<1> QED BY <1>7, <1>8 DEF PauseInv

\* Some of the ranks want to pause, not all of them: their count is no multiple.
LEMMA SomePending ==
  ASSUME NEW e \in Engines, eng[e].pending, ~Consensus
  PROVE  Cardinality(Pending) % NumEngines # 0
<1>1. Pending \subseteq Engines /\ Pending # Engines /\ Pending # {}
  BY DEF Pending, Consensus
<1>2. /\ IsFiniteSet(Pending) /\ Cardinality(Pending) <= Cardinality(Engines)
      /\ Cardinality(Pending) = Cardinality(Engines) => Pending = Engines
  BY <1>1, EnginesFacts, FS_Subset
<1>3. Cardinality(Pending) \in Nat /\ Cardinality(Pending) # 0
  BY <1>1, <1>2, FS_CardinalityType, FS_EmptySet
<1> DEFINE n == Cardinality(Pending)
<1>4. n \in Nat /\ n > 0 /\ n < NumEngines /\ NumEngines \in Nat
  BY <1>1, <1>2, <1>3, EnginesFacts, DPAssumption
<1> HIDE DEF n
<1>5. n % NumEngines = n
  BY <1>4
<1> QED BY <1>4, <1>5 DEF n

LEMMA SyncStepPause ==
  ASSUME WaveInv, PauseInv, SyncStep
  PROVE  PauseInv'
<1>1. Syncing /\ UNCHANGED <<inputs, op>>
  BY DEF SyncStep, Syncing
<1>2. ASSUME NEW e \in Engines
      PROVE  /\ eng'[e].phase = "poll" /\ eng'[e].running = GoesOn
             /\ eng'[e].pending = (eng[e].pending /\ ~Agreed)
             /\ eng'[e].ignore = (eng[e].ignore \/ Agreed)
             /\ eng'[e].pause = eng[e].pause /\ eng'[e].callback = eng[e].callback
             /\ eng'[e].failed = eng[e].failed
             /\ eng'[e].run = eng[e].run \ Done(e) /\ eng'[e].wait = eng[e].wait
  <2>1. eng'[e] = NextPass(AfterSync(Updated(e)))
    BY DEF SyncStep
  <2> QED BY <1>1, <2>1, SyncRank
<1>3. \A e \in Engines : ~eng'[e].failed
  BY <1>2 DEF PauseInv
<1>4. \A e \in Engines : (Told(e) => Told(e)') /\ (Due(e, PauseModes) => Due(e, PauseModes)')
  <2>1. PauseModes \in SUBSET Calls
    BY DEF Calls
  <2> QED BY <1>1, <2>1, CallsSame DEF KeepsCalls
<1>5. ASSUME NEW e \in Engines, ~GoesOn
      PROVE  Unfinished(eng'[e]) = {}
  <2> DEFINE u == Updated(e)
  <2>1. eng[e] \in Rank
    BY RankFacts
  <2>2. u.pause = eng[e].pause /\ u.run = eng[e].run \ Done(e) /\ u.wait = eng[e].wait
    BY <2>1 DEF Updated, Rank
  <2>3. Unfinished(u) = {}
    BY <1>5 DEF GoesOn, GlobalUnfinished
  <2> HIDE DEF u
  <2>4. eng'[e].pause = u.pause /\ eng'[e].run = u.run /\ eng'[e].wait = u.wait
    BY <1>2, <2>2
  <2> QED BY <2>3, <2>4 DEF Unfinished
<1>6. ~Drained /\ ~Paused /\ ~Resuming
  <2>1. ~Still(eng[0]) /\ ~Resumes(eng[0]) /\ 0 \in Engines
    BY <1>1, EnginesFacts DEF Syncing, Still, Resumes
  <2> QED BY <2>1 DEF Drained, Paused, Resuming
<1>7. Agreed => \A e \in Engines : eng[e].pending
  BY DEF Agreed, Consensus, Pending
<1>8. GoesOn \in BOOLEAN /\ Agreed \in BOOLEAN
  BY DEF GoesOn, Reduces, SyncsState, GlobalUnfinished, Agreed, Consensus
\* The consensus has been reached, now or before.
<1>9. ASSUME op.state = "pausing", op.waiting = Engines,
             \A e \in Engines : /\ Told(e) /\ eng[e].callback /\ eng[e].pause # "none"
                                /\ ~eng'[e].pending /\ eng'[e].ignore
      PROVE  Draining' \/ Drained'
  <2>1. CASE GoesOn
    <3>1. ASSUME NEW e \in Engines PROVE Told(e)' /\ Drains(eng'[e])
      BY <1>2, <1>4, <1>8, <1>9, <2>1, ZenonT(60) DEF Drains
    <3> QED BY <1>1, <1>9, <3>1 DEF Draining
  <2>2. CASE ~GoesOn
    <3>1. ASSUME NEW e \in Engines PROVE Told(e)' /\ Still(eng'[e]) /\ eng'[e].callback
      BY <1>2, <1>4, <1>5, <1>8, <1>9, <2>2, SMTT(30) DEF Still
    <3>2. op'.waiting = Engines /\ op'.waiting # {} /\ op'.state = "pausing"
      BY <1>1, <1>9, EnginesFacts
    <3> QED BY <3>1, <3>2 DEF Drained
  <2> QED BY <2>1, <2>2
<1>10. CASE Idle
  <2>1. ~Agreed
    BY <1>7, <1>10, EnginesFacts DEF Idle, Free
  <2>2. \A e \in Engines : Told(e)' /\ Free(eng'[e])
    BY <1>2, <1>4, <1>10, <2>1 DEF Idle, Free
  <2> QED BY <1>1, <1>3, <1>10, <2>2 DEF PauseInv, Idle
<1>11. CASE Gathering
  <2>1. CASE Agreed
    <3>1. \A e \in Engines : Told(e) /\ Wants(eng[e])
      BY <1>7, <1>11, <2>1 DEF Gathering, Asked
    <3>2. \A e \in Engines : /\ Told(e) /\ eng[e].callback /\ eng[e].pause # "none"
                             /\ ~eng'[e].pending /\ eng'[e].ignore
      BY <1>2, <2>1, <3>1 DEF Wants
    <3>3. Draining' \/ Drained'
      BY <1>9, <1>11, <3>2 DEF Gathering
    <3> QED BY <1>3, <3>3 DEF PauseInv
  <2>2. CASE ~Agreed
    <3>1. ASSUME NEW e \in Engines, Wants(eng[e])
          PROVE  GoesOn
      <4>1. CASE ~Reduces
        BY <4>1 DEF GoesOn
      <4>2. CASE Reduces
        <5>1. ~Consensus /\ eng[e].pending
          BY <2>2, <3>1, <4>2 DEF Agreed, Wants
        <5>2. Cardinality(Pending) % NumEngines # 0
          BY <5>1, SomePending
        <5> QED BY <5>2 DEF GoesOn, GlobalUnfinished
      <4> QED BY <4>1, <4>2
    <3>2. ASSUME NEW e \in Engines
          PROVE  \/ Due(e, PauseModes)' /\ Asked(eng'[e])
                 \/ Told(e)' /\ Wants(eng'[e])
      <4>1. CASE Due(e, PauseModes) /\ Asked(eng[e])
        BY <1>2, <1>4, <4>1 DEF Asked
      <4>2. CASE Told(e) /\ Wants(eng[e])
        <5>1. GoesOn
          BY <3>1, <4>2
        <5> QED BY <1>2, <1>4, <1>8, <2>2, <4>2, <5>1 DEF Wants
      <4> QED BY <1>11, <4>1, <4>2 DEF Gathering
    <3> QED BY <1>1, <1>3, <1>11, <3>2 DEF PauseInv, Gathering
  <2> QED BY <2>1, <2>2
<1>12. CASE Draining
  <2>1. \A e \in Engines : /\ Told(e) /\ eng[e].callback /\ eng[e].pause # "none"
                           /\ ~eng'[e].pending /\ eng'[e].ignore
    BY <1>2, <1>12 DEF Draining, Drains
  <2>2. Draining' \/ Drained'
    BY <1>9, <1>12, <2>1 DEF Draining
  <2> QED BY <1>3, <2>2 DEF PauseInv
<1> QED BY <1>6, <1>10, <1>11, <1>12 DEF PauseInv

LEMMA InitPause == Init => PauseInv
<1> SUFFICES ASSUME Init PROVE PauseInv
  OBVIOUS
<1>1. ASSUME NEW e \in Engines
      PROVE  Told(e) /\ Free(eng[e]) /\ ~eng[e].failed
  <2>1. \A c \in Clients : inputs[c][e] = <<>>
    BY DEF Init
  <2>2. Told(e)
    BY <2>1 DEF Told
  <2>3. Free(eng[e]) /\ ~eng[e].failed
    BY DEF Init, Free
  <2> QED BY <2>2, <2>3
<1>2. op.state = "idle"
  BY DEF Init
<1> QED BY <1>1, <1>2 DEF PauseInv, Idle

LEMMA StepPause == WaveInv /\ PauseInv /\ [Next]_vars => PauseInv'
<1> SUFFICES ASSUME WaveInv, PauseInv, [Next]_vars PROVE PauseInv'
  OBVIOUS
<1>1. CASE \/ \E c \in Clients, r \in Requests, e \in Engines : AddRequestAsync(c, r, e)
           \/ \E r \in Requests : AbortRequestsAsync(r)
           \/ \E c \in Clients : Client(c)
           \/ \E e \in Engines : Coordinate(e)
           \/ CoordPublish
  BY <1>1, OutsidePause
<1>2. CASE \E c \in Clients, mode \in PauseModes : PauseAsync(c, mode)
  BY <1>2, PauseAsyncPause
<1>3. CASE \E c \in Clients : ResumeAsync(c)
  BY <1>3, ResumeAsyncPause
<1>4. CASE \E c \in Clients, e \in Engines : Input(c, e)
  BY <1>4, AddRequestPause, AbortRequestPause, PauseSchedulerPause, ResumeSchedulerPause
     DEF Input
<1>5. CASE \E e \in Engines : StartDPWave(e) \/ NotifyIdle(e) \/ EngineStep(e)
  BY <1>5, StartDPWavePause, NotifyIdlePause, EngineStepPause
<1>6. CASE ResumeBarrier
  BY <1>6, ResumeBarrierPause
<1>7. CASE SyncStep
  BY <1>7, SyncStepPause
<1>8. CASE UNCHANGED vars
  <2>1. UNCHANGED <<eng, op, inputs>>
    BY <1>8 DEF vars
  <2> QED BY <2>1, CallsSame, SameRanksKept, PauseFrame
<1> QED BY <1>1, <1>2, <1>3, <1>4, <1>5, <1>6, <1>7, <1>8 DEF Next

LEMMA PauseInvariant == Spec => []PauseInv
BY WaveInvariant, InitPause, StepPause, PTL DEF Spec

\* PauseHolds, for any number of ranks and clients and any sequence of pauses and
\* resumes: once pause_scheduler has been answered by every rank, no late request,
\* wake-up or START_DP_WAVE makes a rank step before resume_scheduler, and that
\* call never finds a rank whose pause is still in flight (its RuntimeError).
THEOREM PauseIsKept == Spec => []PauseHolds
<1>1. PauseInv => PauseHolds
  BY DEF PauseInv, Idle, Gathering, Draining, Drained, Paused, Resuming, Still, PauseHolds
<1> QED BY <1>1, PauseInvariant, PTL

\* CollectivesMatch, for every value of the constants: a rank that waits in the
\* all-reduce of resume_scheduler never meets one that waits in that of a step, so
\* no rank takes the answer to another question.
THEOREM CollectivesNeverCross == Spec => []CollectivesMatch
<1>1. PauseInv => CollectivesMatch
  BY DEF PauseInv, Idle, Gathering, Draining, Drained, Paused, Resuming, Free, Asked, Wants,
     Drains, Still, Resumes, CollectivesMatch
<1> QED BY <1>1, PauseInvariant, PTL

=============================================================================
