--------------------------- MODULE DPWaveInvariant ---------------------------
(***************************************************************************)
(* The inductive invariant of the request waves of DPWave, for any number   *)
(* of ranks and clients, and the steps that one process takes alone.        *)
(*                                                                         *)
(* The argument.  All ranks are always in the same wave: it only moves when *)
(* they leave the collectives of a step together, and no message names a    *)
(* later one (SameWave, Bounded).  The step counter of a rank is that of    *)
(* the others, or one step ahead of it while it waits for them (SameStep):  *)
(* so the ranks agree on whether to run the all-reduce, and on its answer.  *)
(* While the coordinator is behind, rank 0's notice of the last end of a    *)
(* wave is under way; and while the coordinator believes the current wave   *)
(* is running, some rank is in it (Coordinated).                            *)
(***************************************************************************)
EXTENDS DPWave, FiniteSetTheorems, SequenceTheorems, TLAPS

Rank ==
  [phase : {"poll", "sync", "resume"}, wave : Nat, running : BOOLEAN,
   was : BOOLEAN, counter : Nat, pending : BOOLEAN,
   ignore : BOOLEAN, pause : {"none", "new", "all"},
   run : SUBSET Requests, wait : SUBSET Requests, finished : BOOLEAN,
   local : BOOLEAN, callback : BOOLEAN, failed : BOOLEAN]

RequestMessage == [type : {"add", "abort_request"}, req : Requests, wave : Nat]
Calls == PauseModes \union {"resume"}
CallMessage == [type : Calls, req : {NoEngine}, wave : {0}]
SocketMessage == RequestMessage \union CallMessage
Start == [wave : Nat, exclude : Engines \union {NoEngine}]
Notice == [type : {"wave_complete", "start_wave"}, wave : Nat]
View == [wave : Nat, running : BOOLEAN]
Wake == [eng : Engines, wave : Nat]
Operator == [state : {"idle", "pausing", "paused", "resuming"},
             waiting : SUBSET Engines, pauses : Nat]

\* What the proofs need of the types of the variables.
Types ==
  /\ eng \in [Engines -> Rank]
  /\ coord \in [wave : Nat, running : BOOLEAN, ticks : Nat]
  /\ cli \in [Clients -> View]
  /\ inputs \in [Clients -> [Engines -> Seq(SocketMessage)]]
  /\ starts \in [Engines -> Seq(Start)]
  /\ notes \in [Engines -> Seq(Notice)]
  /\ firsts \in [Clients -> Seq(Engines)]
  /\ wakes \in [Clients -> Seq(Wake)]
  /\ pubs \in [Clients -> Seq(View)]
  /\ op \in Operator

Wave == eng[0].wave

\* The ranks are in the same wave, and none runs while it waits to resume.
SameWave ==
  \A e \in Engines : /\ eng[e].wave = Wave
                     /\ eng[e].phase = "resume" => ~eng[e].running

Waits(e) == eng[e].phase = "sync"

\* A rank that waits in the collectives has counted one step more.
SameStep ==
  \A e, f \in Engines :
    eng[e].counter = IF Waits(e) /\ ~Waits(f) THEN Count(eng[f].counter + 1)
                     ELSE IF Waits(f) /\ ~Waits(e) THEN eng[e].counter
                     ELSE eng[f].counter

UpTo(s, w) == \A i \in 1 .. Len(s) : s[i].wave <= w

\* Nobody has heard of a later wave, and only rank 0 tells of the end of one.
Bounded ==
  /\ coord.wave <= Wave
  /\ \A c \in Clients : cli[c].wave <= Wave /\ UpTo(pubs[c], Wave)
  /\ \A c \in Clients, e \in Engines : UpTo(inputs[c][e], Wave)
  /\ \A e \in Engines : UpTo(starts[e], Wave) /\ UpTo(notes[e], Wave)
  /\ \A e \in Engines : \A i \in 1 .. Len(notes[e]) :
       notes[e][i].type = "wave_complete" => notes[e][i].wave < Wave

Started ==
  \/ coord.running /\ coord.wave = Wave
  \/ \E e \in Engines : \E i \in 1 .. Len(notes[e]) :
       notes[e][i].type = "start_wave" /\ notes[e][i].wave = Wave

Ended ==
  \E i \in 1 .. Len(notes[0]) :
    notes[0][i].type = "wave_complete" /\ notes[0][i].wave = Wave - 1

\* The coordinator's news of the current wave, and of the end of the last one.
Coordinated ==
  /\ Started => \E e \in Engines : eng[e].running
  /\ coord.wave < Wave => Ended

\* The last thing each client was told is the wave of the coordinator.
Published ==
  \A c \in Clients :
    IF pubs[c] = <<>> THEN cli[c].wave = coord.wave
    ELSE pubs[c][Len(pubs[c])].wave = coord.wave

WaveInv == Types /\ SameWave /\ SameStep /\ Bounded /\ Coordinated /\ Published

-----------------------------------------------------------------------------
(* Facts about the sockets.                                                 *)

LEMMA EnginesFacts == /\ 0 \in Engines /\ NoEngine \notin Engines
                      /\ IsFiniteSet(Engines) /\ Cardinality(Engines) = NumEngines
<1>1. NumEngines \in Nat /\ NumEngines > 1
  BY DPAssumption
<1>2. IsFiniteSet(Engines) /\ Cardinality(Engines) = NumEngines
  BY <1>1, FS_Interval DEF Engines
<1> QED BY <1>1, <1>2 DEF Engines, NoEngine

\* A message is sent that names no later wave.
LEMMA UpToAppend ==
  ASSUME NEW S, NEW s \in Seq(S), NEW m \in S, NEW w, UpTo(s, w), m.wave <= w
  PROVE  UpTo(Append(s, m), w)
BY DEF UpTo

LEMMA TailFacts ==
  ASSUME NEW S, NEW s \in Seq(S), s # <<>>
  PROVE  /\ Len(s) \in Nat /\ Len(s) >= 1 /\ Head(s) = s[1] /\ Head(s) \in S
         /\ Tail(s) \in Seq(S) /\ Len(Tail(s)) = Len(s) - 1
         /\ \A i \in 1 .. Len(s) - 1 : Tail(s)[i] = s[i + 1]
         /\ Tail(s) = <<>> <=> Len(s) = 1
<1>1. /\ Head(s) \in S /\ Tail(s) \in Seq(S) /\ Len(Tail(s)) = Len(s) - 1
      /\ \A i \in 1 .. Len(Tail(s)) : Tail(s)[i] = s[i + 1]
  BY HeadTailProperties
<1>2. Len(s) \in Nat /\ Len(s) >= 1
  BY EmptySeq
<1>3. Tail(s) = <<>> <=> Len(Tail(s)) = 0
  BY <1>1, EmptySeq
<1>4. Head(s) = s[1]
  OBVIOUS
<1> QED BY <1>1, <1>2, <1>3, <1>4

\* A message is taken from a socket.
LEMMA UpToTail ==
  ASSUME NEW S, NEW s \in Seq(S), s # <<>>, NEW w, UpTo(s, w)
  PROVE  Tail(s) \in Seq(S) /\ UpTo(Tail(s), w) /\ Head(s) \in S /\ Head(s).wave <= w
<1>1. Tail(s) \in Seq(S) /\ Head(s) \in S /\ Head(s) = s[1] /\ Len(s) \in Nat /\ Len(s) >= 1
  OBVIOUS
<1>2. Len(Tail(s)) = Len(s) - 1 /\ \A i \in 1 .. Len(Tail(s)) : Tail(s)[i] = s[i + 1]
  OBVIOUS
<1> QED BY <1>1, <1>2 DEF UpTo

\* The wave moves on.
LEMMA UpToLater ==
  ASSUME NEW S, NEW s \in Seq(S), \A m \in S : m.wave \in Nat,
         NEW w \in Nat, NEW v \in Nat, UpTo(s, w), w <= v
  PROVE  UpTo(s, v)
<1>1. \A i \in 1 .. Len(s) : s[i] \in S
  OBVIOUS
<1> QED BY <1>1 DEF UpTo

\* The client at one end of a socket sends m; whatever the ends of the socket are.
Sends(a, b, m) ==
  inputs' = [inputs EXCEPT ![a] = [inputs[a] EXCEPT ![b] = Append(inputs[a][b], m)]]

LEMMA SocketSend ==
  ASSUME Types, NEW m \in SocketMessage, NEW a, NEW b, Sends(a, b, m)
  PROVE  /\ inputs' \in [Clients -> [Engines -> Seq(SocketMessage)]]
         /\ \A c \in Clients, d \in Engines :
              inputs'[c][d] = inputs[c][d] \/ inputs'[c][d] = Append(inputs[c][d], m)
<1> DEFINE t == [inputs[a] EXCEPT ![b] = Append(inputs[a][b], m)]
<1>1. /\ inputs' = [inputs EXCEPT ![a] = t]
      /\ inputs \in [Clients -> [Engines -> Seq(SocketMessage)]]
  BY DEF Sends, Types
<1>2. CASE a \in Clients
  <2>1. inputs[a] \in [Engines -> Seq(SocketMessage)]
    BY <1>1, <1>2
  <2>2. \A d \in Engines :
          t[d] = inputs[a][d] \/ (d = b /\ t[d] = Append(inputs[a][d], m))
    BY <2>1
  <2>3. \A d \in Engines : /\ inputs[a][d] \in Seq(SocketMessage)
                           /\ Append(inputs[a][d], m) \in Seq(SocketMessage)
    BY <2>1
  <2>4. t \in [Engines -> Seq(SocketMessage)]
    BY <2>1, <2>2, <2>3
  <2> HIDE DEF t
  <2> QED BY <1>1, <1>2, <2>2, <2>4
<1>3. CASE a \notin Clients
  <2> HIDE DEF t
  <2>1. [inputs EXCEPT ![a] = t] = inputs
    BY <1>1, <1>3
  <2> QED BY <1>1, <2>1
<1> QED BY <1>2, <1>3

-----------------------------------------------------------------------------
(* The initial states.                                                      *)

LEMMA InitWave == Init => WaveInv
<1> SUFFICES ASSUME Init PROVE WaveInv
  OBVIOUS
<1>1. \A S : <<>> \in Seq(S)
  OBVIOUS
<1>2. Types
  <2>1. \A e \in Engines : eng[e] \in Rank
    BY DEF Init, Rank
  <2>2. eng \in [Engines -> Rank]
    BY <2>1 DEF Init
  <2>3. inputs \in [Clients -> [Engines -> Seq(SocketMessage)]]
    BY <1>1 DEF Init
  <2>4. op \in Operator
    BY DEF Init, Operator
  <2> QED BY <1>1, <2>2, <2>3, <2>4 DEF Init, Types, View
<1>3. \A e \in Engines : /\ eng[e].wave = 0 /\ eng[e].phase = "poll"
                         /\ eng[e].counter = 0
  BY DEF Init
<1>4. SameWave /\ SameStep
  BY <1>3, EnginesFacts DEF SameWave, SameStep, Wave, Waits
<1>5. Bounded
  BY <1>3, EnginesFacts DEF Init, Bounded, Wave, UpTo
<1>6. Coordinated
  BY <1>3, EnginesFacts DEF Init, Coordinated, Started, Wave
<1>7. Published
  BY DEF Init, Published
<1> QED BY <1>2, <1>4, <1>5, <1>6, <1>7 DEF WaveInv

-----------------------------------------------------------------------------
(* What steps that leave a part of the state alone preserve.                *)

\* No rank counts a step or moves to another wave.
LEMMA CalmRanks ==
  ASSUME SameWave, SameStep,
         \A e \in Engines : /\ eng'[e].wave = eng[e].wave
                            /\ eng'[e].counter = eng[e].counter
                            /\ Waits(e)' = Waits(e)
                            /\ eng'[e].phase = "resume" => ~eng'[e].running
  PROVE  SameWave' /\ SameStep' /\ Wave' = Wave
<1>1. Wave' = Wave
  BY EnginesFacts DEF Wave
<1>2. SameWave'
  BY <1>1 DEF SameWave
<1>3. SameStep'
  BY DEF SameStep
<1> QED BY <1>1, <1>2, <1>3

LEMMA SameRanks ==
  ASSUME SameWave, SameStep, UNCHANGED eng
  PROVE  SameWave' /\ SameStep' /\ Wave' = Wave
BY CalmRanks DEF SameWave, Waits

\* Nothing new reaches the coordinator, and a wave that runs goes on.
LEMMA NoNews ==
  ASSUME Coordinated, Wave' = Wave, UNCHANGED <<coord, notes>>,
         (\E e \in Engines : eng[e].running) => \E e \in Engines : eng'[e].running
  PROVE  Coordinated'
<1>1. Started' = Started /\ Ended' = Ended
  BY DEF Started, Ended
<1> QED BY <1>1 DEF Coordinated

\* The clients send requests and calls to the ranks; nothing else happens.
LEMMA InputStep ==
  ASSUME WaveInv, UNCHANGED <<eng, coord, cli, starts, notes, pubs>>,
         inputs' \in [Clients -> [Engines -> Seq(SocketMessage)]],
         \A c \in Clients, e \in Engines :
           \/ inputs'[c][e] = inputs[c][e]
           \/ \E m \in SocketMessage :
                m.wave <= Wave /\ inputs'[c][e] = Append(inputs[c][e], m),
         firsts' \in [Clients -> Seq(Engines)], UNCHANGED wakes,
         op' \in Operator
  PROVE  WaveInv'
<1>1. Types'
  BY DEF WaveInv, Types
<1>2. SameWave' /\ SameStep' /\ Wave' = Wave
  BY SameRanks DEF WaveInv
<1>3. Bounded'
  <2>1. \A c \in Clients, e \in Engines : UpTo(inputs'[c][e], Wave)
    <3> SUFFICES ASSUME NEW c \in Clients, NEW e \in Engines
                 PROVE  UpTo(inputs'[c][e], Wave)
      OBVIOUS
    <3>1. /\ inputs[c][e] \in Seq(SocketMessage)
          /\ UpTo(inputs[c][e], Wave)
      BY DEF WaveInv, Types, Bounded
    <3>2. ASSUME NEW m \in SocketMessage, m.wave <= Wave
          PROVE  UpTo(Append(inputs[c][e], m), Wave)
      BY <3>1, <3>2, UpToAppend
    <3> QED BY <3>1, <3>2
  <2> QED BY <1>2, <2>1 DEF WaveInv, Bounded
<1>4. Coordinated'
  BY <1>2, NoNews DEF WaveInv
<1>5. Published'
  BY DEF WaveInv, Published
<1> QED BY <1>1, <1>2, <1>3, <1>4, <1>5 DEF WaveInv

-----------------------------------------------------------------------------
(* The clients.                                                             *)

LEMMA AddRequestAsyncStep ==
  ASSUME WaveInv, NEW c \in Clients, NEW r \in Requests, NEW e \in Engines,
         AddRequestAsync(c, r, e)
  PROVE  WaveInv'
<1> DEFINE m == [type |-> "add", req |-> r, wave |-> cli[c].wave]
<1>1. m \in SocketMessage /\ m.wave <= Wave
  BY DEF WaveInv, Types, Bounded, View, RequestMessage, SocketMessage
<1>2. Sends(c, e, m)
  BY DEF AddRequestAsync, Sends
<1> HIDE DEF m
<1>3. /\ inputs' \in [Clients -> [Engines -> Seq(SocketMessage)]]
      /\ \A d \in Clients, f \in Engines :
           inputs'[d][f] = inputs[d][f] \/ inputs'[d][f] = Append(inputs[d][f], m)
  BY <1>1, <1>2, SocketSend DEF WaveInv
<1>4. firsts' \in [Clients -> Seq(Engines)]
  BY DEF AddRequestAsync, WaveInv, Types
<1>5. UNCHANGED <<eng, coord, cli, starts, notes, wakes, pubs, op>>
  BY DEF AddRequestAsync
<1>6. op' \in Operator
  BY <1>5 DEF WaveInv, Types
<1> QED BY <1>1, <1>3, <1>4, <1>5, <1>6, InputStep

LEMMA AbortRequestsAsyncStep ==
  ASSUME WaveInv, NEW r \in Requests, AbortRequestsAsync(r)
  PROVE  WaveInv'
<1> DEFINE m == [type |-> "abort_request", req |-> r, wave |-> 0]
           c == sent[r].by
           e == sent[r].to
<1>1. m \in SocketMessage /\ m.wave <= Wave
  BY EnginesFacts DEF WaveInv, Types, RequestMessage, SocketMessage, Wave, Rank
<1>2. Sends(c, e, m)
  BY DEF AbortRequestsAsync, Sends
<1> HIDE DEF m, c, e
<1>3. /\ inputs' \in [Clients -> [Engines -> Seq(SocketMessage)]]
      /\ \A d \in Clients, f \in Engines :
           inputs'[d][f] = inputs[d][f] \/ inputs'[d][f] = Append(inputs[d][f], m)
  BY <1>1, <1>2, SocketSend DEF WaveInv
<1>4. UNCHANGED <<eng, coord, cli, starts, notes, firsts, wakes, pubs, op>>
  BY DEF AbortRequestsAsync
<1>5. /\ firsts' \in [Clients -> Seq(Engines)]
      /\ op' \in Operator
  BY <1>4 DEF WaveInv, Types
<1> QED BY <1>1, <1>3, <1>4, <1>5, InputStep

LEMMA BroadcastInputs ==
  ASSUME WaveInv, NEW c \in Clients, NEW type \in Calls, inputs' = Broadcast(c, type)
  PROVE  /\ inputs' \in [Clients -> [Engines -> Seq(SocketMessage)]]
         /\ \A d \in Clients, e \in Engines :
              \/ inputs'[d][e] = inputs[d][e]
              \/ \E m \in SocketMessage :
                   m.wave <= Wave /\ inputs'[d][e] = Append(inputs[d][e], m)
<1> DEFINE m == [type |-> type, req |-> NoEngine, wave |-> 0]
<1>1. m \in SocketMessage /\ m.wave <= Wave
  BY EnginesFacts DEF WaveInv, Types, CallMessage, SocketMessage, Wave, Rank
<1>2. inputs' = [inputs EXCEPT ![c] = [e \in Engines |-> Append(inputs[c][e], m)]]
  BY DEF Broadcast
<1> HIDE DEF m
<1>3. inputs \in [Clients -> [Engines -> Seq(SocketMessage)]]
  BY DEF WaveInv, Types
<1>4. [e \in Engines |-> Append(inputs[c][e], m)] \in [Engines -> Seq(SocketMessage)]
  BY <1>1, <1>3
<1>5. inputs' \in [Clients -> [Engines -> Seq(SocketMessage)]]
  BY <1>2, <1>3, <1>4
<1>6. \A d \in Clients, e \in Engines :
        inputs'[d][e] = inputs[d][e] \/ inputs'[d][e] = Append(inputs[d][e], m)
  BY <1>2, <1>3
<1> QED BY <1>1, <1>5, <1>6

LEMMA PauseAsyncStep ==
  ASSUME WaveInv, NEW c \in Clients, NEW mode \in PauseModes, PauseAsync(c, mode)
  PROVE  WaveInv'
<1>1. mode \in Calls /\ inputs' = Broadcast(c, mode)
  BY DEF PauseAsync, Calls
<1>2. UNCHANGED <<eng, coord, cli, starts, notes, firsts, wakes, pubs>>
  BY DEF PauseAsync
<1>3. /\ firsts' \in [Clients -> Seq(Engines)]
      /\ op' \in Operator
  BY <1>2 DEF WaveInv, Types, Operator, PauseAsync
<1> QED BY <1>1, <1>2, <1>3, BroadcastInputs, InputStep

LEMMA ResumeAsyncStep ==
  ASSUME WaveInv, NEW c \in Clients, ResumeAsync(c)
  PROVE  WaveInv'
<1>1. "resume" \in Calls /\ inputs' = Broadcast(c, "resume")
  BY DEF ResumeAsync, Calls
<1>2. UNCHANGED <<eng, coord, cli, starts, notes, firsts, wakes, pubs>>
  BY DEF ResumeAsync
<1>3. /\ firsts' \in [Clients -> Seq(Engines)]
      /\ op' \in Operator
  BY <1>2 DEF WaveInv, Types, Operator, ResumeAsync
<1> QED BY <1>1, <1>2, <1>3, BroadcastInputs, InputStep

LEMMA FirstReqStep ==
  ASSUME WaveInv, NEW c \in Clients, FirstReq(c)
  PROVE  WaveInv'
<1>1. UNCHANGED <<eng, coord, inputs, starts, notes, pubs, op>>
  BY DEF FirstReq
<1>2. /\ cli' \in [Clients -> View]
      /\ \A d \in Clients : cli'[d].wave = cli[d].wave
  BY DEF FirstReq, WaveInv, Types, View
<1>3. Types'
  <2>1. firsts' \in [Clients -> Seq(Engines)] /\ Head(firsts[c]) \in Engines
    BY DEF FirstReq, WaveInv, Types
  <2> DEFINE m == [eng |-> Head(firsts[c]), wave |-> cli[c].wave]
  <2>2. m \in Wake
    BY <2>1 DEF WaveInv, Types, View, Wake
  <2>3. wakes' = [wakes EXCEPT ![c] = Append(@, m)]
    BY DEF FirstReq
  <2> HIDE DEF m
  <2>4. wakes' \in [Clients -> Seq(Wake)]
    BY <2>2, <2>3 DEF WaveInv, Types
  <2> QED BY <1>1, <1>2, <2>1, <2>4 DEF WaveInv, Types
<1>4. SameWave' /\ SameStep' /\ Wave' = Wave
  BY <1>1, SameRanks DEF WaveInv
<1>5. Bounded'
  BY <1>1, <1>2, <1>4 DEF WaveInv, Bounded
<1>6. Coordinated'
  BY <1>1, <1>4, NoNews DEF WaveInv
<1>7. Published'
  BY <1>1, <1>2 DEF WaveInv, Published
<1> QED BY <1>3, <1>4, <1>5, <1>6, <1>7 DEF WaveInv

LEMMA RecvPublicationStep ==
  ASSUME WaveInv, NEW c \in Clients, RecvPublication(c)
  PROVE  WaveInv'
<1>1. UNCHANGED <<eng, coord, inputs, starts, notes, firsts, wakes, op>>
  BY DEF RecvPublication
<1> DEFINE p == pubs[c]
<1>2. /\ p \in Seq(View) /\ p # <<>> /\ UpTo(p, Wave)
      /\ p[Len(p)].wave = coord.wave
  BY DEF RecvPublication, WaveInv, Types, Bounded, Published
<1>3. /\ pubs' = [pubs EXCEPT ![c] = Tail(p)] /\ cli' = [cli EXCEPT ![c] = Head(p)]
      /\ pubs \in [Clients -> Seq(View)] /\ cli \in [Clients -> View]
  BY DEF RecvPublication, WaveInv, Types
<1> HIDE DEF p
<1>4. Tail(p) \in Seq(View) /\ UpTo(Tail(p), Wave) /\ Head(p) \in View /\ Head(p).wave <= Wave
  BY <1>2, UpToTail
<1>5. /\ pubs' \in [Clients -> Seq(View)] /\ cli' \in [Clients -> View]
      /\ pubs'[c] = Tail(p) /\ cli'[c] = Head(p)
      /\ \A d \in Clients \ {c} : pubs'[d] = pubs[d] /\ cli'[d] = cli[d]
  BY <1>3, <1>4
<1>6. SameWave' /\ SameStep' /\ Wave' = Wave
  BY <1>1, SameRanks DEF WaveInv
<1>7. Types'
  BY <1>1, <1>5 DEF WaveInv, Types
<1>8. Bounded'
  <2>1. \A d \in Clients : cli'[d].wave <= Wave /\ UpTo(pubs'[d], Wave)
    BY <1>4, <1>5 DEF WaveInv, Bounded
  <2> QED BY <1>1, <1>6, <2>1 DEF WaveInv, Bounded
<1>9. Coordinated'
  BY <1>1, <1>6, NoNews DEF WaveInv
<1>10. Published'
  <2>1. IF Tail(p) = <<>> THEN Head(p).wave = coord.wave
        ELSE Tail(p)[Len(Tail(p))].wave = coord.wave
    <3>0. /\ Len(p) \in Nat /\ Len(p) >= 1 /\ Head(p) = p[1] /\ Tail(p) \in Seq(View)
          /\ Len(Tail(p)) = Len(p) - 1
          /\ \A i \in 1 .. Len(p) - 1 : Tail(p)[i] = p[i + 1]
          /\ Tail(p) = <<>> <=> Len(p) = 1
      BY <1>2, TailFacts
    <3>1. CASE Len(p) = 1
      BY <1>2, <3>0, <3>1
    <3>2. CASE Len(p) > 1
      <4>1. Tail(p)[Len(p) - 1] = p[Len(p)]
        BY <3>0, <3>2
      <4> QED BY <1>2, <3>0, <3>2, <4>1
    <3> QED BY <3>0, <3>1, <3>2
  <2> QED BY <1>1, <1>5, <2>1 DEF WaveInv, Published
<1> QED BY <1>6, <1>7, <1>8, <1>9, <1>10 DEF WaveInv

-----------------------------------------------------------------------------
(* The coordinator.                                                         *)

LEMMA StartAllStarts ==
  ASSUME WaveInv, NEW w \in Nat, w <= Wave, NEW x \in Engines \union {NoEngine},
         starts' = StartAll(w, x)
  PROVE  starts' \in [Engines -> Seq(Start)] /\ \A e \in Engines : UpTo(starts'[e], Wave)
<1> DEFINE m == [wave |-> w, exclude |-> x]
<1>1. m \in Start /\ m.wave <= Wave /\ starts' = [e \in Engines |-> Append(starts[e], m)]
  BY DEF Start, StartAll
<1> HIDE DEF m
<1>2. \A e \in Engines : starts[e] \in Seq(Start) /\ UpTo(starts[e], Wave)
  BY DEF WaveInv, Types, Bounded
<1>3. \A e \in Engines : UpTo(Append(starts[e], m), Wave) /\ Append(starts[e], m) \in Seq(Start)
  BY <1>1, <1>2, UpToAppend
<1> QED BY <1>1, <1>3

LEMMA PublishAllPubs ==
  ASSUME WaveInv, NEW w \in Nat, w <= Wave, NEW r \in BOOLEAN, pubs' = PublishAll(w, r)
  PROVE  /\ pubs' \in [Clients -> Seq(View)]
         /\ \A c \in Clients : /\ UpTo(pubs'[c], Wave) /\ pubs'[c] # <<>>
                               /\ pubs'[c][Len(pubs'[c])].wave = w
<1> DEFINE m == [wave |-> w, running |-> r]
<1>1. m \in View /\ m.wave = w /\ pubs' = [c \in Clients |-> Append(pubs[c], m)]
  BY DEF View, PublishAll
<1> HIDE DEF m
<1>2. \A c \in Clients : pubs[c] \in Seq(View) /\ UpTo(pubs[c], Wave)
  BY DEF WaveInv, Types, Bounded
<1>3. \A c \in Clients : UpTo(Append(pubs[c], m), Wave)
  BY <1>1, <1>2, UpToAppend
<1>4. \A c \in Clients : /\ Append(pubs[c], m) \in Seq(View) /\ Append(pubs[c], m) # <<>>
                         /\ Append(pubs[c], m)[Len(Append(pubs[c], m))] = m
  BY <1>1, <1>2
<1> QED BY <1>1, <1>3, <1>4

LEMMA CoordNewRequestStep ==
  ASSUME WaveInv, NEW c \in Clients, CoordNewRequest(c)
  PROVE  WaveInv'
<1>1. UNCHANGED <<eng, coord, cli, inputs, notes, firsts, pubs, op>>
  BY DEF CoordNewRequest
<1>2. /\ Head(wakes[c]) \in Wake
      /\ wakes' \in [Clients -> Seq(Wake)]
  BY DEF CoordNewRequest, WaveInv, Types
<1>3. starts' \in [Engines -> Seq(Start)] /\ \A e \in Engines : UpTo(starts'[e], Wave)
  <2>1. coord.wave \in Nat /\ coord.wave <= Wave
    BY DEF WaveInv, Types, Bounded
  <2>2. \/ starts' = starts
        \/ \E x \in Engines \union {NoEngine} : starts' = StartAll(coord.wave, x)
    <3> DEFINE x == IF Head(wakes[c]).wave < coord.wave THEN NoEngine ELSE Head(wakes[c]).eng
    <3>1. Head(wakes[c]).eng \in Engines
      BY <1>2 DEF Wake
    <3>2. x \in Engines \union {NoEngine}
      BY <3>1
    <3>3. starts' = IF coord.running THEN starts ELSE StartAll(coord.wave, x)
      BY DEF CoordNewRequest
    <3> HIDE DEF x
    <3> QED BY <3>2, <3>3
  <2>3. CASE starts' = starts
    BY <2>3 DEF WaveInv, Types, Bounded
  <2> QED BY <2>1, <2>2, <2>3, StartAllStarts
<1>4. Types'
  BY <1>1, <1>2, <1>3 DEF WaveInv, Types
<1>5. SameWave' /\ SameStep' /\ Wave' = Wave
  BY <1>1, SameRanks DEF WaveInv
<1>6. Bounded'
  BY <1>1, <1>3, <1>5 DEF WaveInv, Bounded
<1>7. Coordinated'
  BY <1>1, <1>5, NoNews DEF WaveInv
<1>8. Published'
  BY <1>1 DEF WaveInv, Published
<1> QED BY <1>4, <1>5, <1>6, <1>7, <1>8 DEF WaveInv

LEMMA CoordPublishStep ==
  ASSUME WaveInv, CoordPublish
  PROVE  WaveInv'
<1>1. /\ UNCHANGED <<eng, cli, inputs, starts, notes, firsts, wakes, op>>
      /\ pubs' = PublishAll(coord.wave, coord.running)
  BY DEF CoordPublish
<1>2. /\ coord' \in [wave : Nat, running : BOOLEAN, ticks : Nat]
      /\ coord'.wave = coord.wave /\ coord'.running = coord.running
  <2>1. coord' = [coord EXCEPT !.ticks = coord.ticks + 1]
    BY DEF CoordPublish
  <2>2. coord \in [wave : Nat, running : BOOLEAN, ticks : Nat] /\ coord.ticks + 1 \in Nat
    BY DEF WaveInv, Types
  <2> QED BY <2>1, <2>2
<1>3. /\ pubs' \in [Clients -> Seq(View)]
      /\ \A c \in Clients : /\ UpTo(pubs'[c], Wave) /\ pubs'[c] # <<>>
                            /\ pubs'[c][Len(pubs'[c])].wave = coord.wave
  <2>1. coord.wave \in Nat /\ coord.wave <= Wave /\ coord.running \in BOOLEAN
    BY DEF WaveInv, Types, Bounded
  <2> QED BY <1>1, <2>1, PublishAllPubs
<1>4. Types'
  BY <1>1, <1>2, <1>3 DEF WaveInv, Types
<1>5. SameWave' /\ SameStep' /\ Wave' = Wave
  BY <1>1, SameRanks DEF WaveInv
<1>6. Bounded'
  BY <1>1, <1>2, <1>3, <1>5 DEF WaveInv, Bounded
<1>7. Coordinated'
  <2>1. Started' = Started /\ Ended' = Ended
    BY <1>1, <1>2, <1>5 DEF Started, Ended
  <2> QED BY <1>1, <1>2, <1>5, <2>1 DEF WaveInv, Coordinated
<1>8. Published'
  BY <1>2, <1>3 DEF Published
<1> QED BY <1>4, <1>5, <1>6, <1>7, <1>8 DEF WaveInv

IsEnd(m, w) == m.type = "wave_complete" /\ m.wave = w
IsStart(m, w) == m.type = "start_wave" /\ m.wave = w

\* The coordinator takes the oldest notice m of rank e.
LEMMA TakeNotice ==
  ASSUME WaveInv, NEW e \in Engines, notes[e] # <<>>,
         NEW m, m = Head(notes[e]), notes' = [notes EXCEPT ![e] = Tail(@)]
  PROVE  /\ notes' \in [Engines -> Seq(Notice)]
         /\ m \in Notice /\ m.wave <= Wave
         /\ m.type = "wave_complete" => m.wave < Wave
         /\ IsStart(m, Wave) => Started
         /\ \A f \in Engines : UpTo(notes'[f], Wave)
         /\ \A f \in Engines : \A i \in 1 .. Len(notes'[f]) :
              \E j \in 1 .. Len(notes[f]) : notes'[f][i] = notes[f][j]
         /\ Ended => \/ IsEnd(m, Wave - 1)
                     \/ \E i \in 1 .. Len(notes'[0]) : IsEnd(notes'[0][i], Wave - 1)
<1> DEFINE n == notes[e]
           t == Tail(n)
<1>1. notes \in [Engines -> Seq(Notice)] /\ n \in Seq(Notice) /\ UpTo(n, Wave)
  BY DEF WaveInv, Types, Bounded
<1>2. /\ Len(n) \in Nat /\ Len(n) >= 1 /\ m = n[1] /\ m \in Notice
      /\ t \in Seq(Notice) /\ Len(t) = Len(n) - 1
      /\ \A i \in 1 .. Len(n) - 1 : t[i] = n[i + 1]
  BY <1>1, TailFacts
<1>3. UpTo(t, Wave) /\ m.wave <= Wave
  BY <1>1, UpToTail
<1>4. m.type = "wave_complete" => m.wave < Wave
  BY <1>2 DEF WaveInv, Bounded
<1>5. IsStart(m, Wave) => Started
  BY <1>2 DEF IsStart, Started
<1>6. notes' = [notes EXCEPT ![e] = t]
  OBVIOUS
<1>7. \A i \in 1 .. Len(t) : \E j \in 1 .. Len(n) : t[i] = n[j]
  <2> SUFFICES ASSUME NEW i \in 1 .. Len(t) PROVE \E j \in 1 .. Len(n) : t[i] = n[j]
    OBVIOUS
  <2>1. i + 1 \in 1 .. Len(n) /\ t[i] = n[i + 1]
    BY <1>2
  <2> QED BY <2>1
<1>8. \A i \in 1 .. Len(n) : n[i] = m \/ \E j \in 1 .. Len(t) : t[j] = n[i]
  <2> SUFFICES ASSUME NEW i \in 1 .. Len(n), i # 1 PROVE \E j \in 1 .. Len(t) : t[j] = n[i]
    BY <1>2
  <2>1. i - 1 \in 1 .. Len(t) /\ t[i - 1] = n[i]
    BY <1>2
  <2> QED BY <2>1
<1> HIDE DEF n, t
<1>9. /\ notes' \in [Engines -> Seq(Notice)] /\ notes'[e] = t
      /\ \A f \in Engines \ {e} : notes'[f] = notes[f]
  BY <1>1, <1>2, <1>6
<1>10. \A f \in Engines : UpTo(notes'[f], Wave)
  BY <1>3, <1>9 DEF WaveInv, Bounded
<1>11. \A f \in Engines : \A i \in 1 .. Len(notes'[f]) :
         \E j \in 1 .. Len(notes[f]) : notes'[f][i] = notes[f][j]
  BY <1>7, <1>9 DEF n
<1>12. Ended => \/ IsEnd(m, Wave - 1)
                \/ \E i \in 1 .. Len(notes'[0]) : IsEnd(notes'[0][i], Wave - 1)
  <2>1. CASE e = 0
    <3>1. n = notes[0] /\ t = notes'[0]
      BY <1>9, <2>1 DEF n
    <3>2. Ended => \E i \in 1 .. Len(n) : IsEnd(n[i], Wave - 1)
      BY <3>1 DEF Ended, IsEnd
    <3>3. ASSUME NEW i \in 1 .. Len(n), IsEnd(n[i], Wave - 1)
          PROVE  IsEnd(m, Wave - 1) \/ \E j \in 1 .. Len(t) : IsEnd(t[j], Wave - 1)
      BY <1>8, <3>3
    <3> QED BY <3>1, <3>2, <3>3
  <2>2. CASE e # 0
    BY <1>9, <2>2, EnginesFacts DEF Ended, IsEnd
  <2> QED BY <2>1, <2>2
<1> QED BY <1>2, <1>3, <1>4, <1>5, <1>9, <1>10, <1>11, <1>12

\* The coordinator has read a notice: what it knows, and what is still under way.
LEMMA CoordinatorStep ==
  ASSUME WaveInv, NEW e \in Engines, notes[e] # <<>>,
         NEW m, m = Head(notes[e]), notes' = [notes EXCEPT ![e] = Tail(@)],
         UNCHANGED <<eng, cli, inputs, firsts, wakes, op>>,
         coord' \in [wave : Nat, running : BOOLEAN, ticks : Nat],
         starts' \in [Engines -> Seq(Start)], \A f \in Engines : UpTo(starts'[f], Wave),
         \/ UNCHANGED <<coord, pubs>>
         \/ pubs' = PublishAll(coord'.wave, coord'.running),
         coord'.wave >= coord.wave, coord'.wave <= Wave,
         coord'.running /\ coord'.wave = Wave => Started,
         IsEnd(m, Wave - 1) => coord'.wave = Wave
  PROVE  WaveInv'
<1>1. SameWave' /\ SameStep' /\ Wave' = Wave
  BY SameRanks DEF WaveInv
<1>2. /\ notes' \in [Engines -> Seq(Notice)]
      /\ \A f \in Engines : UpTo(notes'[f], Wave)
      /\ \A f \in Engines : \A i \in 1 .. Len(notes'[f]) :
           \E j \in 1 .. Len(notes[f]) : notes'[f][i] = notes[f][j]
      /\ Ended => \/ IsEnd(m, Wave - 1)
                  \/ \E i \in 1 .. Len(notes'[0]) : IsEnd(notes'[0][i], Wave - 1)
  BY TakeNotice
<1>3. coord.wave \in Nat /\ coord'.wave \in Nat /\ coord'.running \in BOOLEAN /\ Wave \in Nat
  BY EnginesFacts DEF WaveInv, Types, Wave, Rank
<1>4. pubs' \in [Clients -> Seq(View)] /\ \A c \in Clients : UpTo(pubs'[c], Wave)
  <2>1. CASE UNCHANGED <<coord, pubs>>
    BY <2>1 DEF WaveInv, Types, Bounded
  <2>2. CASE pubs' = PublishAll(coord'.wave, coord'.running)
    BY <1>3, <2>2, PublishAllPubs
  <2> QED BY <2>1, <2>2
<1>5. Types'
  BY <1>2, <1>4 DEF WaveInv, Types
<1>6. Bounded'
  <2>1. \A f \in Engines : \A i \in 1 .. Len(notes'[f]) :
          notes'[f][i].type = "wave_complete" => notes'[f][i].wave < Wave
    <3> SUFFICES ASSUME NEW f \in Engines, NEW i \in 1 .. Len(notes'[f])
                 PROVE  notes'[f][i].type = "wave_complete" => notes'[f][i].wave < Wave
      OBVIOUS
    <3>1. PICK j \in 1 .. Len(notes[f]) : notes'[f][i] = notes[f][j]
      BY <1>2
    <3> QED BY <3>1 DEF WaveInv, Bounded
  <2> QED BY <1>1, <1>2, <1>4, <2>1 DEF WaveInv, Bounded
<1>7. Coordinated'
  <2>1. Started' => Started
    <3>1. ASSUME NEW f \in Engines, NEW i \in 1 .. Len(notes'[f]), IsStart(notes'[f][i], Wave)
          PROVE  Started
      <4>1. PICK j \in 1 .. Len(notes[f]) : notes'[f][i] = notes[f][j]
        BY <1>2
      <4> QED BY <3>1, <4>1 DEF Started, IsStart
    <3>2. Started' => \/ coord'.running /\ coord'.wave = Wave
                      \/ \E f \in Engines : \E i \in 1 .. Len(notes'[f]) :
                           IsStart(notes'[f][i], Wave)
      BY <1>1 DEF Started, IsStart
    <3> QED BY <3>1, <3>2
  <2>2. coord'.wave < Wave => Ended'
    <3> SUFFICES ASSUME coord'.wave < Wave PROVE Ended'
      OBVIOUS
    <3>1. coord.wave < Wave /\ ~IsEnd(m, Wave - 1)
      BY <1>3
    <3>2. Ended
      BY <3>1 DEF WaveInv, Coordinated
    <3> QED BY <1>1, <1>2, <3>1, <3>2 DEF Ended, IsEnd
  <2> QED BY <1>1, <2>1, <2>2 DEF WaveInv, Coordinated
<1>8. Published'
  <2>1. CASE UNCHANGED <<coord, pubs>>
    BY <2>1 DEF WaveInv, Published
  <2>2. CASE pubs' = PublishAll(coord'.wave, coord'.running)
    BY <1>3, <2>2, PublishAllPubs DEF Published
  <2> QED BY <2>1, <2>2
<1> QED BY <1>1, <1>5, <1>6, <1>7, <1>8 DEF WaveInv

LEMMA CoordWaveCompleteStep ==
  ASSUME WaveInv, NEW e \in Engines, CoordWaveComplete(e)
  PROVE  WaveInv'
<1> DEFINE m == Head(notes[e])
<1>1. /\ notes[e] # <<>> /\ m.type = "wave_complete"
      /\ notes' = [notes EXCEPT ![e] = Tail(@)]
      /\ UNCHANGED <<eng, cli, inputs, starts, firsts, wakes, op>>
  BY DEF CoordWaveComplete
<1>2. m \in Notice /\ m.wave < Wave
  BY <1>1, TakeNotice
<1>3. /\ m.wave \in Nat /\ coord \in [wave : Nat, running : BOOLEAN, ticks : Nat]
      /\ coord.wave <= Wave /\ Wave \in Nat
  BY <1>2, EnginesFacts DEF Notice, WaveInv, Types, Bounded, Wave, Rank
<1>4. starts' \in [Engines -> Seq(Start)] /\ \A f \in Engines : UpTo(starts'[f], Wave)
  BY <1>1 DEF WaveInv, Types, Bounded
<1>5. \/ /\ coord.wave <= m.wave
         /\ coord' = [coord EXCEPT !.wave = m.wave + 1, !.running = FALSE]
         /\ pubs' = PublishAll(m.wave + 1, FALSE)
      \/ m.wave < coord.wave /\ UNCHANGED <<coord, pubs>>
  <2>1. IF coord.wave <= m.wave
        THEN /\ coord' = [coord EXCEPT !.wave = m.wave + 1, !.running = FALSE]
             /\ pubs' = PublishAll(m.wave + 1, FALSE)
        ELSE UNCHANGED <<coord, pubs>>
    BY DEF CoordWaveComplete
  <2>2. coord.wave \in Nat
    BY <1>3
  <2>3. CASE coord.wave <= m.wave
    BY <2>1, <2>3
  <2>4. CASE ~(coord.wave <= m.wave)
    <3>1. m.wave < coord.wave
      <4> HIDE DEF m
      <4> QED BY <1>3, <2>2, <2>4
    <3> QED BY <2>1, <2>4, <3>1
  <2> QED BY <2>3, <2>4
<1> HIDE DEF m
<1>6. CASE /\ coord.wave <= m.wave
           /\ coord' = [coord EXCEPT !.wave = m.wave + 1, !.running = FALSE]
           /\ pubs' = PublishAll(m.wave + 1, FALSE)
  <2>1. /\ coord' \in [wave : Nat, running : BOOLEAN, ticks : Nat]
        /\ coord'.wave = m.wave + 1 /\ coord'.running = FALSE
    <3>1. m.wave + 1 \in Nat
      BY <1>3
    <3> QED BY <1>3, <1>6, <3>1
  <2>2. coord'.wave >= coord.wave /\ coord'.wave <= Wave
    BY <1>2, <1>3, <1>6, <2>1
  <2>3. IsEnd(m, Wave - 1) => coord'.wave = Wave
    BY <1>3, <2>1 DEF IsEnd
  <2> QED BY <1>1, <1>4, <1>6, <2>1, <2>2, <2>3, CoordinatorStep DEF m
<1>7. CASE m.wave < coord.wave /\ UNCHANGED <<coord, pubs>>
  <2>1. ~IsEnd(m, Wave - 1) \/ coord'.wave = Wave
    BY <1>3, <1>7 DEF IsEnd
  <2>2. coord'.running /\ coord'.wave = Wave => Started
    BY <1>7 DEF Started
  <2>3. /\ coord' \in [wave : Nat, running : BOOLEAN, ticks : Nat]
        /\ coord'.wave >= coord.wave /\ coord'.wave <= Wave
    BY <1>3, <1>7
  <2> QED BY <1>1, <1>4, <1>7, <2>1, <2>2, <2>3, CoordinatorStep DEF m
<1> QED BY <1>5, <1>6, <1>7

LEMMA CoordStartWaveStep ==
  ASSUME WaveInv, NEW e \in Engines, CoordStartWave(e)
  PROVE  WaveInv'
<1> DEFINE m == Head(notes[e])
<1>1. /\ notes[e] # <<>> /\ m.type = "start_wave"
      /\ notes' = [notes EXCEPT ![e] = Tail(@)]
      /\ UNCHANGED <<eng, cli, inputs, firsts, wakes, op>>
  BY DEF CoordStartWave
<1>2. m \in Notice /\ m.wave <= Wave /\ (IsStart(m, Wave) => Started)
  BY <1>1, TakeNotice
<1>3. /\ m.wave \in Nat /\ coord \in [wave : Nat, running : BOOLEAN, ticks : Nat]
      /\ coord.wave <= Wave /\ Wave \in Nat
  BY <1>2, EnginesFacts DEF Notice, WaveInv, Types, Bounded, Wave, Rank
<1>4. ~IsEnd(m, Wave - 1)
  BY <1>1 DEF IsEnd
<1>5. \/ /\ StartsWave(m.wave)
         /\ coord' = [coord EXCEPT !.wave = m.wave, !.running = TRUE]
         /\ pubs' = PublishAll(m.wave, TRUE) /\ starts' = StartAll(m.wave, e)
      \/ UNCHANGED <<coord, pubs, starts>>
  BY DEF CoordStartWave
<1> HIDE DEF m
<1>6. CASE /\ StartsWave(m.wave)
           /\ coord' = [coord EXCEPT !.wave = m.wave, !.running = TRUE]
           /\ pubs' = PublishAll(m.wave, TRUE) /\ starts' = StartAll(m.wave, e)
  <2>1. /\ coord' \in [wave : Nat, running : BOOLEAN, ticks : Nat]
        /\ coord'.wave = m.wave /\ coord'.running = TRUE
    BY <1>3, <1>6
  <2>2. coord'.wave >= coord.wave /\ coord'.wave <= Wave
    BY <1>2, <1>3, <1>6, <2>1 DEF StartsWave
  <2>3. starts' \in [Engines -> Seq(Start)] /\ \A f \in Engines : UpTo(starts'[f], Wave)
    BY <1>2, <1>3, <1>6, StartAllStarts
  <2>4. coord'.running /\ coord'.wave = Wave => Started
    BY <1>1, <1>2, <2>1 DEF IsStart, m
  <2> QED BY <1>1, <1>4, <1>6, <2>1, <2>2, <2>3, <2>4, CoordinatorStep DEF m
<1>7. CASE UNCHANGED <<coord, pubs, starts>>
  <2>1. starts' \in [Engines -> Seq(Start)] /\ \A f \in Engines : UpTo(starts'[f], Wave)
    BY <1>7 DEF WaveInv, Types, Bounded
  <2>2. coord'.running /\ coord'.wave = Wave => Started
    BY <1>7 DEF Started
  <2>3. /\ coord' \in [wave : Nat, running : BOOLEAN, ticks : Nat]
        /\ coord'.wave >= coord.wave /\ coord'.wave <= Wave
    BY <1>3, <1>7
  <2> QED BY <1>1, <1>4, <1>7, <2>1, <2>2, <2>3, CoordinatorStep DEF m
<1> QED BY <1>5, <1>6, <1>7

-----------------------------------------------------------------------------
(* One rank.                                                                *)

\* A rank takes the oldest message m of client c.
LEMMA TakeInput ==
  ASSUME Types, Bounded, NEW c \in Clients, NEW e \in Engines, inputs[c][e] # <<>>,
         inputs' = [inputs EXCEPT ![c][e] = Tail(@)], NEW m, m = Head(inputs[c][e])
  PROVE  /\ inputs' \in [Clients -> [Engines -> Seq(SocketMessage)]]
         /\ m \in SocketMessage /\ m.wave <= Wave
         /\ \A d \in Clients, f \in Engines : UpTo(inputs'[d][f], Wave)
<1> DEFINE t == Tail(inputs[c][e])
           u == [inputs[c] EXCEPT ![e] = t]
<1>1. /\ inputs \in [Clients -> [Engines -> Seq(SocketMessage)]]
      /\ \A d \in Clients, f \in Engines : UpTo(inputs[d][f], Wave)
  BY DEF Types, Bounded
<1>2. inputs[c] \in [Engines -> Seq(SocketMessage)] /\ inputs[c][e] \in Seq(SocketMessage)
  BY <1>1
<1>3. t \in Seq(SocketMessage) /\ UpTo(t, Wave) /\ m \in SocketMessage /\ m.wave <= Wave
  BY <1>1, <1>2, UpToTail
<1>4. inputs' = [inputs EXCEPT ![c] = u]
  OBVIOUS
<1> HIDE DEF t
<1>5. /\ u \in [Engines -> Seq(SocketMessage)]
      /\ \A f \in Engines : u[f] = IF f = e THEN t ELSE inputs[c][f]
  BY <1>2, <1>3
<1> HIDE DEF u
<1>6. /\ inputs' \in [Clients -> [Engines -> Seq(SocketMessage)]]
      /\ \A d \in Clients : inputs'[d] = IF d = c THEN u ELSE inputs[d]
  BY <1>1, <1>4, <1>5
<1> QED BY <1>1, <1>3, <1>5, <1>6

\* Rank e changes its state to s, without counting a step.
LEMMA RankStep ==
  ASSUME WaveInv, NEW e \in Engines, NEW s \in Rank, eng' = [eng EXCEPT ![e] = s],
         s.wave = Wave, s.counter = eng[e].counter,
         s.phase = "sync" <=> eng[e].phase = "sync",
         s.phase = "resume" => ~s.running, eng[e].running => s.running
  PROVE  /\ eng' \in [Engines -> Rank] /\ SameWave' /\ SameStep' /\ Wave' = Wave
         /\ (\E f \in Engines : eng[f].running) => \E f \in Engines : eng'[f].running
<1>1. eng \in [Engines -> Rank]
  BY DEF WaveInv, Types
<1>2. /\ eng' \in [Engines -> Rank] /\ eng'[e] = s
      /\ \A f \in Engines \ {e} : eng'[f] = eng[f]
  BY <1>1
<1>3. \A f \in Engines : /\ eng'[f].wave = eng[f].wave
                         /\ eng'[f].counter = eng[f].counter
                         /\ Waits(f)' = Waits(f)
                         /\ eng'[f].phase = "resume" => ~eng'[f].running
  BY <1>2 DEF WaveInv, SameWave, Waits
<1>4. SameWave' /\ SameStep' /\ Wave' = Wave
  BY <1>3, CalmRanks DEF WaveInv
<1> QED BY <1>2, <1>4

\* A notice m is sent by rank e.
Notifies(e, m) == notes' = [notes EXCEPT ![e] = Append(@, m)]

LEMMA SendNotice ==
  ASSUME Types, NEW e \in Engines, NEW m \in Notice, Notifies(e, m)
  PROVE  /\ notes' \in [Engines -> Seq(Notice)]
         /\ \A f \in Engines : \A i \in 1 .. Len(notes'[f]) :
              notes'[f][i] = m \/ \E j \in 1 .. Len(notes[f]) : notes'[f][i] = notes[f][j]
         /\ \A f \in Engines : \A j \in 1 .. Len(notes[f]) :
              \E i \in 1 .. Len(notes'[f]) : notes'[f][i] = notes[f][j]
         /\ \E i \in 1 .. Len(notes'[e]) : notes'[e][i] = m
<1> DEFINE n == notes[e]
           a == Append(n, m)
<1>1. notes \in [Engines -> Seq(Notice)] /\ n \in Seq(Notice)
  BY DEF Types
<1>2. /\ a \in Seq(Notice) /\ Len(n) \in Nat /\ Len(a) = Len(n) + 1 /\ a[Len(n) + 1] = m
      /\ \A i \in 1 .. Len(n) : a[i] = n[i]
  BY <1>1
<1>3. notes' = [notes EXCEPT ![e] = a]
  BY DEF Notifies
<1> HIDE DEF a
<1>4. /\ notes' \in [Engines -> Seq(Notice)] /\ notes'[e] = a
      /\ \A f \in Engines \ {e} : notes'[f] = notes[f]
  BY <1>1, <1>2, <1>3
<1>5. \A i \in 1 .. Len(a) : a[i] = m \/ \E j \in 1 .. Len(n) : a[i] = n[j]
  <2> HIDE DEF n
  <2> SUFFICES ASSUME NEW i \in 1 .. Len(a), i # Len(n) + 1
               PROVE  \E j \in 1 .. Len(n) : a[i] = n[j]
    BY <1>2
  <2>1. i \in 1 .. Len(n)
    BY <1>2
  <2> QED BY <1>2, <2>1
<1>6. \A j \in 1 .. Len(n) : j \in 1 .. Len(a) /\ a[j] = n[j]
  BY <1>2
<1>7. Len(n) + 1 \in 1 .. Len(a)
  BY <1>2
<1> HIDE DEF n
<1> QED BY <1>2, <1>4, <1>5, <1>6, <1>7, SMTT(30) DEF n

\* A step of rank e in its wave, which it may announce.
LEMMA LocalWave ==
  ASSUME WaveInv, NEW e \in Engines,
         eng' \in [Engines -> Rank], SameWave', SameStep', Wave' = Wave,
         (\E f \in Engines : eng[f].running) => \E f \in Engines : eng'[f].running,
         inputs' \in [Clients -> [Engines -> Seq(SocketMessage)]],
         \A d \in Clients, f \in Engines : UpTo(inputs'[d][f], Wave),
         starts' \in [Engines -> Seq(Start)], \A f \in Engines : UpTo(starts'[f], Wave),
         \/ UNCHANGED notes
         \/ eng'[e].running /\ notes' = Note(e, "start_wave", Wave),
         op' \in Operator,
         UNCHANGED <<coord, cli, firsts, wakes, pubs>>
  PROVE  WaveInv'
<1>1. /\ notes' \in [Engines -> Seq(Notice)]
      /\ \A f \in Engines : UpTo(notes'[f], Wave)
      /\ \A f \in Engines : \A i \in 1 .. Len(notes'[f]) :
            notes'[f][i].type = "wave_complete" => notes'[f][i].wave < Wave
      /\ Ended => Ended'
      /\ Started' => Started \/ eng'[e].running
  <2>1. CASE UNCHANGED notes
    BY <2>1 DEF WaveInv, Types, Bounded, Started, Ended
  <2>2. CASE eng'[e].running /\ notes' = Note(e, "start_wave", Wave)
    <3> DEFINE m == [type |-> "start_wave", wave |-> Wave]
    <3>1. m \in Notice /\ m.type = "start_wave" /\ m.wave = Wave /\ Wave \in Nat
      BY EnginesFacts DEF Notice, WaveInv, Types, Wave, Rank
    <3>2. Notifies(e, m)
      BY <2>2 DEF Note, Notifies
    <3> HIDE DEF m
    <3>3. /\ notes' \in [Engines -> Seq(Notice)]
          /\ \A f \in Engines : \A i \in 1 .. Len(notes'[f]) :
               notes'[f][i] = m \/ \E j \in 1 .. Len(notes[f]) : notes'[f][i] = notes[f][j]
          /\ \A f \in Engines : \A j \in 1 .. Len(notes[f]) :
               \E i \in 1 .. Len(notes'[f]) : notes'[f][i] = notes[f][j]
      BY <3>1, <3>2, SendNotice DEF WaveInv
    <3>4. ASSUME NEW f \in Engines, NEW i \in 1 .. Len(notes'[f])
          PROVE  /\ notes'[f][i].wave <= Wave
                 /\ notes'[f][i].type = "wave_complete" => notes'[f][i].wave < Wave
      <4>1. CASE notes'[f][i] = m
        BY <3>1, <4>1
      <4>2. CASE \E j \in 1 .. Len(notes[f]) : notes'[f][i] = notes[f][j]
        BY <4>2 DEF WaveInv, Bounded, UpTo
      <4> QED BY <3>3, <4>1, <4>2
    <3>5. Ended => Ended'
      <4> SUFFICES ASSUME Ended PROVE Ended'
        OBVIOUS
      <4>1. PICK j \in 1 .. Len(notes[0]) : IsEnd(notes[0][j], Wave - 1)
        BY DEF Ended, IsEnd
      <4>2. PICK i \in 1 .. Len(notes'[0]) : notes'[0][i] = notes[0][j]
        BY <3>3, EnginesFacts
      <4> QED BY <4>1, <4>2 DEF Ended, IsEnd
    <3> QED BY <2>2, <3>3, <3>4, <3>5 DEF UpTo
  <2> QED BY <2>1, <2>2
<1>2. Types'
  BY <1>1 DEF WaveInv, Types
<1>3. Bounded'
  BY <1>1 DEF WaveInv, Bounded
<1>4. Coordinated'
  BY <1>1 DEF WaveInv, Coordinated
<1>5. Published'
  BY DEF WaveInv, Published
<1> QED BY <1>2, <1>3, <1>4, <1>5 DEF WaveInv

LEMMA RankFacts ==
  ASSUME WaveInv, NEW e \in Engines
  PROVE  /\ eng \in [Engines -> Rank] /\ eng[e] \in Rank /\ eng[e].wave = Wave /\ Wave \in Nat
         /\ eng[e].running \in BOOLEAN /\ eng[e].counter \in Nat
         /\ eng[e].run \subseteq Requests /\ eng[e].wait \subseteq Requests
         /\ eng[e].phase = "resume" => ~eng[e].running
BY EnginesFacts DEF WaveInv, Types, SameWave, Wave, Rank

LEMMA AddRequestStep ==
  ASSUME WaveInv, NEW c \in Clients, NEW e \in Engines, AddRequest(c, e)
  PROVE  WaveInv'
<1> DEFINE m == Head(inputs[c][e])
           stale == m.wave < eng[e].wave /\ ~eng[e].running /\ eng[e].pause = "none"
           s == [eng[e] EXCEPT !.wait = @ \union {m.req}, !.running = @ \/ stale]
<1>1. /\ inputs[c][e] # <<>> /\ m.type = "add" /\ eng[e].phase = "poll"
      /\ inputs' = [inputs EXCEPT ![c][e] = Tail(@)]
      /\ UNCHANGED <<coord, cli, starts, firsts, wakes, pubs, op>>
  BY DEF AddRequest, Receives, Polling
<1>2. /\ inputs' \in [Clients -> [Engines -> Seq(SocketMessage)]]
      /\ m \in SocketMessage /\ m.wave <= Wave
      /\ \A d \in Clients, f \in Engines : UpTo(inputs'[d][f], Wave)
  BY <1>1, TakeInput DEF WaveInv
<1>3. m.wave \in Nat /\ m.req \in Requests
  BY <1>1, <1>2, DPAssumption DEF SocketMessage, RequestMessage, CallMessage, Calls
<1>4. /\ eng \in [Engines -> Rank] /\ eng[e] \in Rank /\ eng[e].wave = Wave /\ Wave \in Nat
  BY RankFacts
<1>5. /\ eng' = [eng EXCEPT ![e] = [eng[e] EXCEPT
                   !.wait = @ \union {m.req}, !.wave = IF m.wave > @ THEN m.wave ELSE @,
                   !.running = @ \/ stale]]
      /\ notes' = IF stale THEN Note(e, "start_wave", eng[e].wave) ELSE notes
  BY <1>4 DEF AddRequest
<1> HIDE DEF m
<1>6. (IF m.wave > eng[e].wave THEN m.wave ELSE eng[e].wave) = eng[e].wave
  BY <1>2, <1>3, <1>4
<1>7. /\ s \in Rank /\ s.wave = Wave /\ s.counter = eng[e].counter /\ s.phase = "poll"
      /\ s.running = (eng[e].running \/ stale)
  BY <1>1, <1>3, <1>4 DEF Rank
<1> HIDE DEF stale
<1>8. eng' = [eng EXCEPT ![e] = s]
  BY <1>4, <1>5, <1>6 DEF Rank
<1> HIDE DEF s
<1>9. /\ eng' \in [Engines -> Rank] /\ SameWave' /\ SameStep' /\ Wave' = Wave
      /\ (\E f \in Engines : eng[f].running) => \E f \in Engines : eng'[f].running
  BY <1>1, <1>7, <1>8, RankStep
<1>10. notes' = notes \/ (eng'[e].running /\ notes' = Note(e, "start_wave", Wave))
  BY <1>4, <1>5, <1>7, <1>8
<1>11. /\ starts' \in [Engines -> Seq(Start)] /\ \A f \in Engines : UpTo(starts'[f], Wave)
       /\ op' \in Operator
  BY <1>1 DEF WaveInv, Types, Bounded
<1> QED BY <1>1, <1>2, <1>9, <1>10, <1>11, LocalWave

LEMMA ReplyType ==
  ASSUME WaveInv, NEW E
  PROVE  op \in Operator /\ Reply(E) \in Operator
BY DEF WaveInv, Types, Operator, Reply

\* Rank e reads a message of client c that concerns no wave, and is then in state s.
LEMMA ReceiveStep ==
  ASSUME WaveInv, NEW c \in Clients, NEW e \in Engines, NEW type, Receives(c, e, type),
         NEW s \in Rank, eng' = [eng EXCEPT ![e] = s],
         s.wave = Wave, s.counter = eng[e].counter, s.phase # "sync",
         s.phase = "resume" => ~s.running, eng[e].running => s.running,
         op' \in Operator, UNCHANGED <<coord, cli, starts, notes, firsts, wakes, pubs>>
  PROVE  WaveInv'
<1>1. /\ inputs[c][e] # <<>> /\ eng[e].phase = "poll"
      /\ inputs' = [inputs EXCEPT ![c][e] = Tail(@)]
  BY DEF Receives, Polling
<1>2. /\ inputs' \in [Clients -> [Engines -> Seq(SocketMessage)]]
      /\ \A d \in Clients, f \in Engines : UpTo(inputs'[d][f], Wave)
  BY <1>1, TakeInput DEF WaveInv
<1>3. /\ eng' \in [Engines -> Rank] /\ SameWave' /\ SameStep' /\ Wave' = Wave
      /\ (\E f \in Engines : eng[f].running) => \E f \in Engines : eng'[f].running
  BY <1>1, RankStep
<1>4. starts' \in [Engines -> Seq(Start)] /\ \A f \in Engines : UpTo(starts'[f], Wave)
  BY DEF WaveInv, Types, Bounded
<1> QED BY <1>2, <1>3, <1>4, LocalWave

LEMMA AbortRequestStep ==
  ASSUME WaveInv, NEW c \in Clients, NEW e \in Engines, AbortRequest(c, e)
  PROVE  WaveInv'
<1> DEFINE r == Head(inputs[c][e]).req
           here == r \in eng[e].run \union eng[e].wait
           s == [eng[e] EXCEPT !.run = @ \ {r}, !.wait = @ \ {r}, !.finished = @ \/ here]
<1>1. /\ Receives(c, e, "abort_request") /\ eng[e].phase = "poll"
      /\ UNCHANGED <<coord, cli, starts, notes, firsts, wakes, pubs, op>>
  BY DEF AbortRequest, Receives, Polling
<1>2. /\ eng \in [Engines -> Rank] /\ eng[e] \in Rank /\ eng[e].wave = Wave
      /\ eng[e].running \in BOOLEAN
  BY RankFacts
<1>3. eng' = [eng EXCEPT ![e] = s]
  BY <1>2 DEF AbortRequest
<1> HIDE DEF r
<1>4. /\ s \in Rank /\ s.wave = Wave /\ s.counter = eng[e].counter /\ s.phase = "poll"
      /\ s.running = eng[e].running
  BY <1>1, <1>2 DEF Rank
<1> HIDE DEF s
<1> QED BY <1>1, <1>3, <1>4, ReceiveStep, ReplyType

LEMMA PauseSchedulerStep ==
  ASSUME WaveInv, NEW c \in Clients, NEW e \in Engines, NEW mode \in PauseModes,
         PauseScheduler(c, e, mode)
  PROVE  WaveInv'
<1> DEFINE aborted == IF mode = "abort" THEN eng[e].run \union eng[e].wait ELSE {}
           s == [eng[e] EXCEPT !.run = @ \ aborted, !.wait = @ \ aborted,
                               !.finished = @ \/ aborted # {},
                               !.pause = IF mode = "keep" THEN "all" ELSE "new",
                               !.pending = TRUE, !.running = TRUE, !.callback = TRUE]
<1>1. /\ Receives(c, e, mode) /\ eng[e].phase = "poll"
      /\ UNCHANGED <<coord, cli, starts, notes, firsts, wakes, pubs, op>>
  BY DEF PauseScheduler, Receives, Polling
<1>2. /\ eng \in [Engines -> Rank] /\ eng[e] \in Rank /\ eng[e].wave = Wave
  BY RankFacts
<1>3. eng' = [eng EXCEPT ![e] = s]
  BY <1>2, ZenonT(60) DEF PauseScheduler
<1> HIDE DEF aborted
<1>4. /\ s \in Rank /\ s.wave = Wave /\ s.counter = eng[e].counter /\ s.phase = "poll"
      /\ s.running = TRUE
  BY <1>1, <1>2 DEF Rank
<1> HIDE DEF s
<1> QED BY <1>1, <1>3, <1>4, ReceiveStep, ReplyType

LEMMA ResumeSchedulerStep ==
  ASSUME WaveInv, NEW c \in Clients, NEW e \in Engines, ResumeScheduler(c, e)
  PROVE  WaveInv'
<1> DEFINE failed == [eng[e] EXCEPT !.failed = TRUE]
           s == [eng[e] EXCEPT !.pause = "none", !.ignore = FALSE, !.phase = "resume",
                               !.local = eng[e].run \union eng[e].wait # {}]
<1>1. /\ Receives(c, e, "resume") /\ eng[e].phase = "poll"
      /\ UNCHANGED <<coord, cli, starts, notes, firsts, wakes, pubs>>
  BY DEF ResumeScheduler, Receives, Polling
<1>2. /\ eng \in [Engines -> Rank] /\ eng[e] \in Rank /\ eng[e].wave = Wave
      /\ eng[e].running \in BOOLEAN
  BY RankFacts
<1>3. \/ eng' = [eng EXCEPT ![e] = failed] /\ op' = Reply({e})
      \/ eng' = eng /\ op' = Reply({e})
      \/ eng' = [eng EXCEPT ![e] = s] /\ ~eng[e].running /\ op' = op
  BY <1>2 DEF ResumeScheduler
<1>4. CASE eng' = [eng EXCEPT ![e] = failed] /\ op' = Reply({e})
  <2>1. /\ failed \in Rank /\ failed.wave = Wave /\ failed.counter = eng[e].counter
        /\ failed.phase = "poll" /\ failed.running = eng[e].running
    BY <1>1, <1>2 DEF Rank
  <2> HIDE DEF failed
  <2> QED BY <1>1, <1>4, <2>1, ReceiveStep, ReplyType
<1>5. CASE eng' = eng /\ op' = Reply({e})
  <2>1. eng' = [eng EXCEPT ![e] = eng[e]]
    BY <1>2, <1>5
  <2> QED BY <1>1, <1>2, <1>5, <2>1, ReceiveStep, ReplyType
<1>6. CASE eng' = [eng EXCEPT ![e] = s] /\ ~eng[e].running /\ op' = op
  <2>1. /\ s \in Rank /\ s.wave = Wave /\ s.counter = eng[e].counter /\ s.phase = "resume"
        /\ s.running = eng[e].running
    BY <1>1, <1>2 DEF Rank
  <2> HIDE DEF s
  <2> QED BY <1>1, <1>6, <2>1, ReceiveStep, ReplyType
<1> QED BY <1>3, <1>4, <1>5, <1>6

LEMMA NotifyIdleStep ==
  ASSUME WaveInv, NEW e \in Engines, NotifyIdle(e)
  PROVE  WaveInv'
<1> DEFINE s == [eng[e] EXCEPT !.callback = FALSE]
<1>1. /\ eng[e].phase = "poll" /\ op' = Reply({e})
      /\ UNCHANGED <<coord, cli, inputs, starts, notes, firsts, wakes, pubs>>
  BY DEF NotifyIdle
<1>2. /\ eng \in [Engines -> Rank] /\ eng[e] \in Rank /\ eng[e].wave = Wave
      /\ eng[e].running \in BOOLEAN
  BY RankFacts
<1>3. eng' = [eng EXCEPT ![e] = s]
  BY <1>2 DEF NotifyIdle
<1>4. /\ s \in Rank /\ s.wave = Wave /\ s.counter = eng[e].counter /\ s.phase = "poll"
      /\ s.running = eng[e].running
  BY <1>1, <1>2 DEF Rank
<1> HIDE DEF s
<1>5. /\ eng' \in [Engines -> Rank] /\ SameWave' /\ SameStep' /\ Wave' = Wave
      /\ (\E f \in Engines : eng[f].running) => \E f \in Engines : eng'[f].running
  BY <1>1, <1>3, <1>4, RankStep
<1>6. /\ inputs' \in [Clients -> [Engines -> Seq(SocketMessage)]]
      /\ \A d \in Clients, f \in Engines : UpTo(inputs'[d][f], Wave)
      /\ starts' \in [Engines -> Seq(Start)] /\ \A f \in Engines : UpTo(starts'[f], Wave)
  BY <1>1 DEF WaveInv, Types, Bounded
<1>7. op' \in Operator
  BY <1>1, ReplyType
<1> QED BY <1>1, <1>5, <1>6, <1>7, LocalWave

LEMMA StartDPWaveStep ==
  ASSUME WaveInv, NEW e \in Engines, StartDPWave(e)
  PROVE  WaveInv'
<1> DEFINE m == Head(starts[e])
           s == [eng[e] EXCEPT !.wave = m.wave, !.running = TRUE]
<1>1. /\ eng[e].phase = "poll" /\ starts[e] # <<>>
      /\ starts' = [starts EXCEPT ![e] = Tail(starts[e])]
      /\ UNCHANGED <<coord, cli, inputs, notes, firsts, wakes, pubs, op>>
  BY DEF StartDPWave, Polling
<1>2. /\ eng \in [Engines -> Rank] /\ eng[e] \in Rank /\ eng[e].wave = Wave /\ Wave \in Nat
      /\ eng[e].running \in BOOLEAN
  BY RankFacts
<1>3. starts \in [Engines -> Seq(Start)] /\ \A f \in Engines : UpTo(starts[f], Wave)
  BY DEF WaveInv, Types, Bounded
<1>4. /\ Tail(starts[e]) \in Seq(Start) /\ UpTo(Tail(starts[e]), Wave)
      /\ m \in Start /\ m.wave <= Wave
  <2>1. starts[e] \in Seq(Start)
    BY <1>3
  <2> QED BY <1>1, <1>3, <2>1, UpToTail
<1>5. starts' \in [Engines -> Seq(Start)] /\ \A f \in Engines : UpTo(starts'[f], Wave)
  <2> DEFINE t == Tail(starts[e])
  <2>1. starts' = [starts EXCEPT ![e] = t] /\ t \in Seq(Start) /\ UpTo(t, Wave)
    BY <1>1, <1>4
  <2> HIDE DEF t
  <2> QED BY <1>3, <2>1
<1>6. \/ eng' = eng
      \/ m.wave >= eng[e].wave /\ eng' = [eng EXCEPT ![e] = s]
  BY <1>2 DEF StartDPWave
<1> HIDE DEF m
<1>7. /\ eng' \in [Engines -> Rank] /\ SameWave' /\ SameStep' /\ Wave' = Wave
      /\ (\E f \in Engines : eng[f].running) => \E f \in Engines : eng'[f].running
  <2>1. CASE eng' = eng
    BY <1>2, <2>1, SameRanks DEF WaveInv
  <2>2. CASE m.wave >= eng[e].wave /\ eng' = [eng EXCEPT ![e] = s]
    <3>1. m.wave = Wave
      BY <1>2, <1>4, <2>2 DEF Start
    <3>2. /\ s \in Rank /\ s.wave = Wave /\ s.counter = eng[e].counter /\ s.phase = "poll"
          /\ s.running = TRUE
      BY <1>1, <1>2, <3>1 DEF Rank
    <3> HIDE DEF s
    <3> QED BY <1>1, <2>2, <3>2, RankStep
  <2> QED BY <1>6, <2>1, <2>2
<1>8. /\ inputs' \in [Clients -> [Engines -> Seq(SocketMessage)]]
      /\ \A d \in Clients, f \in Engines : UpTo(inputs'[d][f], Wave)
      /\ op' \in Operator
  BY <1>1 DEF WaveInv, Types, Bounded
<1> QED BY <1>1, <1>5, <1>7, <1>8, LocalWave

LEMMA CountType == \A n \in Nat : Count(n + 1) \in Nat
<1>1. SyncInterval \in Nat
  BY DPAssumption
<1> QED BY <1>1 DEF Count

LEMMA EngineStepStep ==
  ASSUME WaveInv, NEW e \in Engines, EngineStep(e)
  PROVE  WaveInv'
<1> DEFINE s == Scheduled(eng[e])
           t == Enter(s)
<1>1. /\ eng[e].phase = "poll"
      /\ UNCHANGED <<coord, cli, inputs, starts, notes, firsts, wakes, pubs, op>>
  BY DEF EngineStep
<1>2. /\ eng \in [Engines -> Rank] /\ eng[e] \in Rank /\ eng[e].wave = Wave /\ Wave \in Nat
      /\ eng[e].running \in BOOLEAN /\ eng[e].counter \in Nat
      /\ eng[e].run \subseteq Requests /\ eng[e].wait \subseteq Requests
  BY RankFacts
<1>3. eng' = [eng EXCEPT ![e] = s] \/ eng' = [eng EXCEPT ![e] = t]
  BY DEF EngineStep
<1>4. Unfinished(eng[e]) \subseteq Requests
  BY <1>2 DEF Unfinished, Rank
<1>5. /\ s \in Rank /\ s.wave = Wave /\ s.counter = eng[e].counter /\ s.phase = "poll"
      /\ s.running = eng[e].running
  <2>1. s = [eng[e] EXCEPT !.run = @ \union Unfinished(eng[e]),
                           !.wait = @ \ Unfinished(eng[e]), !.finished = FALSE]
    BY DEF Scheduled
  <2>2. /\ eng[e].run \union Unfinished(eng[e]) \in SUBSET Requests
        /\ eng[e].wait \ Unfinished(eng[e]) \in SUBSET Requests
    BY <1>2, <1>4
  <2> QED BY <1>1, <1>2, <2>1, <2>2 DEF Rank
<1> HIDE DEF s
<1>6. /\ t \in Rank /\ t.wave = Wave /\ t.counter = Count(eng[e].counter + 1)
      /\ t.phase = "sync" /\ t.running = eng[e].running
  <2> DEFINE n == Count(s.counter + 1)
  <2>1. t = [s EXCEPT !.phase = "sync", !.counter = n]
    BY DEF Enter
  <2>2. n \in Nat /\ n = Count(eng[e].counter + 1)
    BY <1>2, <1>5, CountType
  <2> HIDE DEF n, t
  <2>3. /\ t \in Rank /\ t.wave = s.wave /\ t.counter = n /\ t.phase = "sync"
        /\ t.running = s.running
    BY <1>5, <2>1, <2>2 DEF Rank
  <2> QED BY <1>5, <2>2, <2>3
<1> HIDE DEF t
<1>7. /\ eng' \in [Engines -> Rank] /\ SameWave' /\ SameStep' /\ Wave' = Wave
      /\ (\E f \in Engines : eng[f].running) => \E f \in Engines : eng'[f].running
  <2>1. CASE eng' = [eng EXCEPT ![e] = s]
    BY <1>1, <1>5, <2>1, RankStep
  <2>2. CASE eng' = [eng EXCEPT ![e] = t]
    <3>1. /\ eng' \in [Engines -> Rank] /\ eng'[e] = t
          /\ \A f \in Engines \ {e} : eng'[f] = eng[f]
      BY <1>2, <1>6, <2>2
    <3>2. Wave' = Wave
      BY <1>2, <1>6, <3>1, EnginesFacts DEF Wave
    <3>3. SameWave'
      BY <1>2, <1>6, <3>1, <3>2 DEF WaveInv, SameWave
    <3>4. SameStep'
      <4> SUFFICES ASSUME NEW f \in Engines, NEW g \in Engines
                   PROVE  eng'[f].counter =
                            IF Waits(f)' /\ ~Waits(g)' THEN Count(eng'[g].counter + 1)
                            ELSE IF Waits(g)' /\ ~Waits(f)' THEN eng'[f].counter
                            ELSE eng'[g].counter
        BY DEF SameStep
      <4>1. Waits(e)' /\ ~Waits(e) /\ eng'[e].counter = Count(eng[e].counter + 1)
        BY <1>1, <1>6, <3>1 DEF Waits
      <4>2. \A h \in Engines \ {e} : Waits(h)' = Waits(h) /\ eng'[h].counter = eng[h].counter
        BY <3>1 DEF Waits
      <4>3. \A h, k \in Engines :
              eng[h].counter = IF Waits(h) /\ ~Waits(k) THEN Count(eng[k].counter + 1)
                               ELSE IF Waits(k) /\ ~Waits(h) THEN eng[h].counter
                               ELSE eng[k].counter
        BY DEF WaveInv, SameStep
      <4>4. CASE f = e /\ g = e
        BY <4>4
      <4>5. CASE f = e /\ g # e
        BY <4>1, <4>2, <4>3, <4>5
      <4>6. CASE f # e /\ g = e
        BY <4>1, <4>2, <4>3, <4>6
      <4>7. CASE f # e /\ g # e
        BY <4>2, <4>3, <4>7
      <4> QED BY <4>4, <4>5, <4>6, <4>7
    <3> QED BY <1>6, <3>1, <3>2, <3>3, <3>4
  <2> QED BY <1>3, <2>1, <2>2
<1>8. /\ inputs' \in [Clients -> [Engines -> Seq(SocketMessage)]]
      /\ \A d \in Clients, f \in Engines : UpTo(inputs'[d][f], Wave)
      /\ starts' \in [Engines -> Seq(Start)] /\ \A f \in Engines : UpTo(starts'[f], Wave)
      /\ op' \in Operator
  BY <1>1 DEF WaveInv, Types, Bounded
<1> QED BY <1>1, <1>7, <1>8, LocalWave

=============================================================================
