------------------------- MODULE EncoderCacheProofs -------------------------
(***************************************************************************)
(* The encoder cache under every interleaving of schedule(), the end of     *)
(* steps, arrivals, aborts and resets, for every set of requests and items, *)
(* every cache size and budget, and any number of steps in flight.          *)
(*                                                                         *)
(* Inv is inductive: the manager is right (MgrOK), the queues hold a        *)
(* request once, and Attempt says what the locals of                        *)
(* _try_schedule_encoder_inputs, which are kept over several steps here,    *)
(* still say of the manager.  The first two theorems follow from it.  For   *)
(* the third, PlanOK says what stays true of the step that is being put     *)
(* together until it is dispatched.                                         *)
(***************************************************************************)
EXTENDS EncoderCache, EncoderCacheManagerProofs

-----------------------------------------------------------------------------
(* Positions in a prompt.                                                   *)

LEMMA ItemLenType == ItemLen \in Nat /\ ItemLen >= 1
BY LimitsAssumption

LEMMA Positions ==
  ASSUME NEW i \in Nat, NEW j \in Nat, i < j
  PROVE  /\ StartPos(i) \in Int /\ EndPos(i) \in Int
         /\ StartPos(j) \in Int /\ EndPos(j) \in Int
         /\ EndPos(i) <= StartPos(j)
<1>1. ItemLen \in Nat /\ ItemLen >= 1
  BY ItemLenType
<1> DEFINE d == j - 1 - i
<1>2. d \in Nat /\ j - 1 = i + d
  OBVIOUS
<1> HIDE DEF d
<1>3. ItemLen * d \in Nat /\ ItemLen * i \in Int
  BY <1>1, <1>2
<1>4. ItemLen * (i + d) = ItemLen * i + ItemLen * d
  BY <1>1, <1>2
<1> QED BY <1>1, <1>2, <1>3, <1>4 DEF StartPos, EndPos

LEMMA PositionType ==
  ASSUME NEW i \in Nat
  PROVE  StartPos(i) \in Int /\ EndPos(i) \in Int
BY ItemLenType DEF StartPos, EndPos

-----------------------------------------------------------------------------
(* The invariant.                                                           *)

Entries ==
  {e \in [r : Requests, n : Nat, inputs : SUBSET Nat] : e.inputs \subseteq DOMAIN Inputs[e.r]}

Steps == [i : Nat \ {0}, budget : Int, sched : Seq(Entries), preempted : BOOLEAN]

Tries ==
  [r : Requests, start : Nat, n : Nat, from : {"running", "waiting"}, left : SUBSET Nat,
   inputs : SUBSET Nat, embeds : Nat, budget : Int]

TypesOK ==
  step \in Steps /\ computed \in [Requests -> Nat] /\ arrived \subseteq Requests

QueuesOK ==
  /\ running \in Seq(Requests) /\ IsInjective(running)
  /\ waiting \in Seq(Requests) /\ IsInjective(waiting)
  /\ Range(running) \cap Range(waiting) = {}
  /\ Live \subseteq arrived

\* The items of the inputs that t has chosen.
ChosenOf(t) == {ItemOf(t.r, j) : j \in t.inputs}

\* The locals t of _try_schedule_encoder_inputs against the manager m: the chosen
\* items are not cached, differ, and have room; the inputs of the window that were
\* passed are chosen or referenced; a waiting request that references something
\* already has been given tokens.
Attempt(t, m) ==
  /\ t \in Tries
  /\ t.left \subseteq Window(t.r, t.start, t.n)
  /\ t.n = 0 => t.left = {}
  /\ t.inputs \subseteq DOMAIN Inputs[t.r]
  /\ \A j, k \in t.inputs : ItemOf(t.r, j) = ItemOf(t.r, k) => j = k
  /\ ChosenOf(t) \cap DOMAIN m.cached = {}
  /\ t.embeds = Sizes(ChosenOf(t)) /\ t.embeds <= m.num_free
  /\ t.from = "waiting" =>
       /\ m.ids[t.r] # {} => \A i \in t.left : StartPos(i) > t.start
       /\ t.n = 0 => m.ids[t.r] = {}
  /\ t.n > 0 => \A i \in Window(t.r, t.start, t.n) \ t.left :
                  ItemOf(t.r, i) \in ChosenOf(t) \/ Holds(m, t.r, ItemOf(t.r, i))

TryOK ==
  /\ pc \notin {"try", "alloc"} => try = NoTry
  /\ pc \in {"try", "alloc"} =>
       /\ Attempt(try, mgr)
       /\ try.r \in IF try.from = "running" THEN Range(running) ELSE Range(waiting)
  /\ pc = "alloc" => try.left = {} /\ try.n > 0

IdsOK == \A r \in Requests \ (Range(running) \union {try.r}) : mgr.ids[r] = {}

Inv ==
  /\ TypesOK /\ QueuesOK
  /\ MgrOK(mgr) /\ mgr.num_free >= 0
  /\ TryOK /\ IdsOK

\* With the first-come-first-served policy the victim of a preemption comes after
\* the requests that have been scheduled, so what was scheduled stays scheduled.
SchedItems == UNION {{ItemOf(e.r, i) : i \in e.inputs} : e \in Range(step.sched)}

InRunning == pc = "running" \/ (pc \in {"try", "alloc"} /\ try.from = "running")
InWaiting == pc = "waiting" \/ (pc \in {"try", "alloc"} /\ try.from = "waiting")

ItemsOK ==
  /\ pc \in {"idle", "pop", "update"} => step.sched = <<>>
  /\ DOMAIN mgr.cached \subseteq worker \union SchedItems
  /\ \A e \in Range(step.sched) : \A i \in Window(e.r, computed[e.r], e.n) :
       Holds(mgr, e.r, ItemOf(e.r, i))

PlacesOK ==
  /\ InRunning => \A e \in Range(step.sched) :
       \E k \in 1 .. Len(running) : k < step.i /\ running[k] = e.r
  /\ InRunning /\ pc # "running" =>
       step.i <= Len(running) /\ running[step.i] = try.r /\ try.start = computed[try.r]
  /\ InWaiting => \A e \in Range(step.sched) : e.r \in Range(running)

PlanOK == ItemsOK /\ PlacesOK

LEMMA NoStepType == NoStep \in Steps
<1>1. Budget \in Int /\ <<>> \in Seq(Entries)
  BY LimitsAssumption
<1> QED BY <1>1 DEF NoStep, Steps

\* Init, and one lemma per action: it keeps Inv.
LEMMA InitInv ==
  ASSUME Init PROVE Inv
<1>1. /\ running = <<>> /\ waiting = <<>> /\ arrived = {} /\ pc = "idle" /\ try = NoTry
      /\ step = NoStep /\ computed = [r \in Requests |-> 0] /\ mgr = Fresh
  BY DEF Init
<1>2. Range(running) = {} /\ Range(waiting) = {} /\ IsInjective(running) /\ IsInjective(waiting)
  BY <1>1 DEF Range, IsInjective
<1>3. QueuesOK
  BY <1>1, <1>2 DEF QueuesOK, Live
<1>4. TypesOK
  BY <1>1, NoStepType DEF TypesOK
<1>5. TryOK
  BY <1>1 DEF TryOK
<1>6. IdsOK /\ mgr.num_free >= 0
  BY <1>1, Constants DEF IdsOK, Fresh
<1> QED BY <1>1, <1>3, <1>4, <1>5, <1>6, FreshOK DEF Inv

\* Steps outside _try_schedule_encoder_inputs that leave the cache alone.
LEMMA SameCache ==
  ASSUME Inv, pc \notin {"try", "alloc"}, pc' \notin {"try", "alloc"}, step' \in Steps,
         UNCHANGED <<mgr, running, waiting, arrived, computed, try>>
  PROVE  Inv'
<1>1. TypesOK' /\ QueuesOK' /\ MgrOK(mgr)' /\ (mgr.num_free >= 0)' /\ IdsOK'
  BY DEF Inv, TypesOK, QueuesOK, IdsOK, Live
<1>2. TryOK'
  BY DEF Inv, TryOK
<1> QED BY <1>1, <1>2 DEF Inv

LEMMA StartScheduleInv ==
  ASSUME Inv, StartSchedule PROVE Inv'
BY SameCache, NoStepType DEF StartSchedule

LEMMA RunDecodeInv ==
  ASSUME Inv, RunDecode PROVE Inv'
<1>1. step \in Steps
  BY DEF Inv, TypesOK
<1>2. step' \in Steps
  BY <1>1 DEF RunDecode, Steps
<1> QED BY <1>2, SameCache DEF RunDecode, InRunningLoop

LEMMA RunEndInv ==
  ASSUME Inv, RunEnd PROVE Inv'
<1>1. step \in Steps
  BY DEF Inv, TypesOK
<1> QED BY <1>1, SameCache DEF RunEnd

LEMMA WaitEndInv ==
  ASSUME Inv, WaitEnd PROVE Inv'
<1>1. step \in Steps
  BY DEF Inv, TypesOK
<1> QED BY <1>1, SameCache DEF WaitEnd

LEMMA PopBatchInv ==
  ASSUME Inv, PopBatch PROVE Inv'
<1>1. step \in Steps
  BY DEF Inv, TypesOK
<1> QED BY <1>1, SameCache DEF PopBatch

LEMMA UpdateEndInv ==
  ASSUME Inv, UpdateEnd PROVE Inv'
<1>1. step \in Steps
  BY DEF Inv, TypesOK
<1> QED BY <1>1, SameCache DEF UpdateEnd

LEMMA StutterInv ==
  ASSUME Inv, UNCHANGED vars PROVE Inv'
<1>1. UNCHANGED <<mgr, running, waiting, arrived, computed, try, step, pc>>
  BY DEF vars
<1>2. TypesOK' /\ QueuesOK' /\ MgrOK(mgr)' /\ (mgr.num_free >= 0)' /\ IdsOK'
  BY <1>1 DEF Inv, TypesOK, QueuesOK, IdsOK, Live
<1>3. TryOK'
  BY <1>1 DEF Inv, TryOK
<1> QED BY <1>2, <1>3 DEF Inv

\* The facts of Inv that most steps use.
LEMMA InvFacts ==
  ASSUME Inv
  PROVE  /\ step \in Steps /\ computed \in [Requests -> Nat] /\ arrived \subseteq Requests
         /\ running \in Seq(Requests) /\ IsInjective(running)
         /\ waiting \in Seq(Requests) /\ IsInjective(waiting)
         /\ Range(running) \cap Range(waiting) = {}
         /\ Range(running) \subseteq Requests /\ Range(waiting) \subseteq Requests
         /\ Live \subseteq arrived
         /\ MgrOK(mgr) /\ mgr.num_free >= 0 /\ mgr.num_free \in Int
         /\ mgr \in Managers
         /\ \A r \in Requests : mgr.ids[r] \subseteq DOMAIN Inputs[r]
<1>1. /\ step \in Steps /\ computed \in [Requests -> Nat] /\ arrived \subseteq Requests
      /\ running \in Seq(Requests) /\ IsInjective(running)
      /\ waiting \in Seq(Requests) /\ IsInjective(waiting)
      /\ Range(running) \cap Range(waiting) = {}
      /\ Live \subseteq arrived
      /\ MgrOK(mgr) /\ mgr.num_free >= 0
  BY DEF Inv, TypesOK, QueuesOK
<1>2. Range(running) \subseteq Requests /\ Range(waiting) \subseteq Requests
  BY <1>1 DEF Live
<1>3. mgr \in Managers /\ \A r \in Requests : mgr.ids[r] \subseteq DOMAIN Inputs[r]
  BY <1>1 DEF MgrOK, Refs
<1> QED BY <1>1, <1>2, <1>3, ManagerFields

\* _try_schedule_encoder_inputs begins.
LEMMA StartTry ==
  ASSUME Inv, pc \notin {"try", "alloc"}, pc' = "try",
         NEW r \in Requests, NEW start \in Nat, NEW n \in Nat \ {0},
         NEW from \in {"running", "waiting"},
         r \in IF from = "running" THEN Range(running) ELSE Range(waiting),
         try' = Trying(r, start, n, from),
         UNCHANGED <<mgr, running, waiting, arrived, computed, step>>
  PROVE  Inv'
<1>1. /\ step \in Steps /\ try = NoTry
      /\ mgr.num_free \in Int /\ mgr.num_free >= 0
      /\ \A s \in Requests : s \notin Range(running) => mgr.ids[s] = {}
  <2>1. try = NoTry
    BY DEF Inv, TryOK
  <2>2. \A s \in Requests : s \notin Range(running) => mgr.ids[s] = {}
    <3>1. \A s \in Requests : s # try.r
      BY <2>1, Constants DEF NoTry
    <3> QED BY <3>1 DEF Inv, IdsOK
  <2> QED BY <2>1, <2>2, InvFacts
<1>2. from = "waiting" => mgr.ids[r] = {}
  <2>1. from = "waiting" => r \notin Range(running)
    BY InvFacts
  <2> QED BY <1>1, <2>1
<1> DEFINE t == Trying(r, start, n, from)
<1>3. /\ t.r = r /\ t.start = start /\ t.n = n /\ t.from = from
      /\ t.left = Window(r, start, n) /\ t.inputs = {} /\ t.embeds = 0
      /\ t \in Tries
  <2>1. step.budget \in Int
    BY <1>1 DEF Steps
  <2>2. Window(r, start, n) \in SUBSET Nat
    BY Constants DEF Window
  <2> QED BY <2>1, <2>2 DEF Trying, Tries
<1> HIDE DEF t
<1>4. Attempt(t, mgr)
  <2>1. ChosenOf(t) = {}
    BY <1>3 DEF ChosenOf
  <2> QED BY <1>1, <1>2, <1>3, <2>1, SizesEmpty DEF Attempt
<1>5. try' = t
  BY DEF t
<1>6. TryOK'
  <2>1. Attempt(try', mgr')
    BY <1>4, <1>5
  <2> QED BY <1>3, <1>5, <2>1 DEF TryOK
<1>7. IdsOK'
  BY <1>1 DEF IdsOK
<1>8. TypesOK' /\ QueuesOK' /\ MgrOK(mgr)' /\ (mgr.num_free >= 0)'
  BY DEF Inv, TypesOK, QueuesOK, Live
<1> QED BY <1>6, <1>7, <1>8 DEF Inv

LEMMA NumPromptType ==
  ASSUME NEW r \in Requests PROVE NumPrompt(r) \in Nat
<1>1. ItemLen \in Nat /\ Len(Inputs[r]) \in Nat
  BY Constants, ItemLenType
<1> QED BY <1>1 DEF NumPrompt

LEMMA RunTryInv ==
  ASSUME Inv, RunTry PROVE Inv'
<1> DEFINE r == running[step.i]
<1>1. step.i \in 1 .. Len(running) /\ r \in Range(running) /\ r \in Requests
  <2>1. step.i \in Nat \ {0} /\ Len(running) \in Nat /\ step.i <= Len(running)
    BY InvFacts DEF Steps, RunTry, InRunningLoop
  <2>2. step.i \in 1 .. Len(running)
    BY <2>1
  <2> QED BY <2>2, InvFacts, Distinct
<1>2. PICK n \in 1 .. NumPrompt(r) - computed[r] : try' = Trying(r, computed[r], n, "running")
  BY DEF RunTry
<1>3. n \in Nat \ {0} /\ computed[r] \in Nat
  BY <1>1, <1>2, InvFacts, NumPromptType
<1> HIDE DEF r
<1> QED BY <1>1, <1>2, <1>3, StartTry DEF RunTry, InRunningLoop

LEMMA WaitTryInv ==
  ASSUME Inv, WaitTry PROVE Inv'
<1>1. PICK k \in DOMAIN waiting : \E hit \in 0 .. NumPrompt(waiting[k]) - 1 :
        \E n \in 1 .. NumPrompt(waiting[k]) - hit :
          try' = Trying(waiting[k], hit, n, "waiting")
  BY DEF WaitTry
<1> DEFINE r == waiting[k]
<1>2. r \in Range(waiting) /\ r \in Requests
  BY InvFacts, Distinct
<1> HIDE DEF r
<1>3. PICK hit \in 0 .. NumPrompt(r) - 1 :
        \E n \in 1 .. NumPrompt(r) - hit : try' = Trying(r, hit, n, "waiting")
  BY <1>1 DEF r
<1>4. PICK n \in 1 .. NumPrompt(r) - hit : try' = Trying(r, hit, n, "waiting")
  BY <1>3
<1>5. hit \in Nat /\ n \in Nat \ {0}
  BY <1>2, NumPromptType
<1> QED BY <1>2, <1>4, <1>5, StartTry DEF WaitTry

LEMMA TryFacts ==
  ASSUME Inv, pc \in {"try", "alloc"}
  PROVE  /\ Attempt(try, mgr)
         /\ try.r \in Requests /\ try.start \in Nat /\ try.n \in Nat
         /\ try.from \in {"running", "waiting"} /\ try.embeds \in Nat /\ try.budget \in Int
         /\ try.r \in IF try.from = "running" THEN Range(running) ELSE Range(waiting)
<1>1. Attempt(try, mgr) /\ try.r \in IF try.from = "running" THEN Range(running) ELSE Range(waiting)
  BY DEF Inv, TryOK
<1>2. try \in Tries
  BY <1>1 DEF Attempt
<1> QED BY <1>1, <1>2 DEF Tries

\* A pass of the loop: it is enough to look at the locals and at the manager.
LEMMA TryStepInv ==
  ASSUME Inv, pc = "try", UNCHANGED tryVars,
         Attempt(try', mgr'), try'.r = try.r, try'.from = try.from,
         MgrOK(mgr'), mgr'.num_free >= 0,
         \A s \in Requests : s # try.r => mgr'.ids[s] = mgr.ids[s]
  PROVE  Inv'
<1>1. UNCHANGED <<pc, waiting, running, computed, step, arrived>>
  BY DEF tryVars
<1>2. TryOK'
  <2>1. try.r \in IF try.from = "running" THEN Range(running) ELSE Range(waiting)
    BY TryFacts
  <2> QED BY <1>1, <2>1 DEF TryOK
<1>3. IdsOK'
  <2>1. \A s \in Requests \ (Range(running) \union {try.r}) : mgr.ids[s] = {}
    BY DEF Inv, IdsOK
  <2> QED BY <1>1, <2>1 DEF IdsOK
<1>4. TypesOK' /\ QueuesOK'
  BY <1>1 DEF Inv, TypesOK, QueuesOK, Live
<1> QED BY <1>2, <1>3, <1>4 DEF Inv

LEMMA CandidateFacts ==
  ASSUME Inv, Trial
  PROVE  /\ Candidate \in try.left /\ Candidate \in DOMAIN Inputs[try.r] /\ Candidate \in Nat
         /\ Candidate \in Window(try.r, try.start, try.n)
         /\ \A i \in try.left : i \in Nat /\ Candidate <= i
         /\ EndPos(Candidate) > try.start /\ StartPos(Candidate) < try.start + try.n
         /\ \A i \in try.left \ {Candidate} : StartPos(i) > try.start
         /\ TryItem \in Items /\ Size[TryItem] \in Nat
<1>1. Attempt(try, mgr) /\ try.r \in Requests /\ try.start \in Nat /\ try.left # {}
  BY TryFacts DEF Trial
<1>2. try.left \subseteq Window(try.r, try.start, try.n)
  BY <1>1 DEF Attempt
<1>3. Window(try.r, try.start, try.n) \subseteq DOMAIN Inputs[try.r] /\ DOMAIN Inputs[try.r] \subseteq Nat
  BY <1>1, Constants DEF Window
<1>4. Candidate \in try.left /\ \A i \in try.left : i \in Nat /\ Candidate <= i
  <2>1. try.left \in SUBSET Nat
    BY <1>2, <1>3
  <2> QED BY <1>1, <2>1, MinFacts DEF Candidate
<1> HIDE DEF Candidate
<1>5. EndPos(Candidate) > try.start /\ StartPos(Candidate) < try.start + try.n
  BY <1>2, <1>4 DEF Window
<1>6. ASSUME NEW i \in try.left \ {Candidate} PROVE StartPos(i) > try.start
  <2>1. i \in Nat /\ Candidate \in Nat /\ Candidate < i
    BY <1>4
  <2>2. EndPos(Candidate) <= StartPos(i) /\ EndPos(Candidate) \in Int /\ StartPos(i) \in Int
    BY <2>1, Positions
  <2> QED BY <1>1, <1>5, <2>2
<1>7. TryItem \in Items /\ Size[TryItem] \in Nat
  BY <1>1, <1>2, <1>3, <1>4, Constants DEF TryItem
<1> QED BY <1>2, <1>3, <1>4, <1>5, <1>6, <1>7

\* The passes of the loop of _try_schedule_encoder_inputs.
LEMMA TryRepeatedInv ==
  ASSUME Inv, TryRepeated PROVE Inv'
<1> DEFINE c == Candidate
<1>1. /\ Attempt(try, mgr) /\ pc = "try" /\ try' = [try EXCEPT !.left = @ \ {c}]
      /\ mgr' = mgr /\ UNCHANGED tryVars
  BY TryFacts DEF TryRepeated, Trial
<1> HIDE DEF c
<1>2. /\ try' \in Tries /\ try'.r = try.r /\ try'.start = try.start /\ try'.n = try.n
      /\ try'.from = try.from /\ try'.left = try.left \ {c} /\ try'.inputs = try.inputs
      /\ try'.embeds = try.embeds /\ ChosenOf(try') = ChosenOf(try)
  <2>1. try \in Tries
    BY <1>1 DEF Attempt
  <2>2. /\ try' \in Tries /\ try'.r = try.r /\ try'.start = try.start /\ try'.n = try.n
        /\ try'.from = try.from /\ try'.left = try.left \ {c} /\ try'.inputs = try.inputs
        /\ try'.embeds = try.embeds
    BY <1>1, <2>1 DEF Tries
  <2> QED BY <2>2 DEF ChosenOf
<1>3. ItemOf(try.r, c) \in ChosenOf(try)
  BY DEF TryRepeated, Chosen, ChosenOf, TryItem, c
<1>4. Attempt(try', mgr)
  BY <1>1, <1>2, <1>3 DEF Attempt
<1> QED BY <1>1, <1>2, <1>4, TryStepInv, InvFacts

LEMMA TryCachedInv ==
  ASSUME Inv, TryCached PROVE Inv'
<1> DEFINE c == Candidate
<1>1. /\ Attempt(try, mgr) /\ pc = "try" /\ try' = [try EXCEPT !.left = @ \ {c}]
      /\ mgr' = Reference(mgr, try.r, c) /\ UNCHANGED tryVars
      /\ try.r \in Requests /\ try.n \in Nat /\ Trial
      /\ ItemOf(try.r, c) \in DOMAIN mgr.cached
  BY TryFacts DEF TryCached, Trial, TryItem
<1> HIDE DEF c
<1>2. /\ try' \in Tries /\ try'.r = try.r /\ try'.start = try.start /\ try'.n = try.n
      /\ try'.from = try.from /\ try'.left = try.left \ {c} /\ try'.inputs = try.inputs
      /\ try'.embeds = try.embeds /\ ChosenOf(try') = ChosenOf(try)
  <2>1. try \in Tries
    BY <1>1 DEF Attempt
  <2>2. /\ try' \in Tries /\ try'.r = try.r /\ try'.start = try.start /\ try'.n = try.n
        /\ try'.from = try.from /\ try'.left = try.left \ {c} /\ try'.inputs = try.inputs
        /\ try'.embeds = try.embeds
    BY <1>1, <2>1 DEF Tries
  <2> QED BY <2>2 DEF ChosenOf
<1>3. /\ c \in DOMAIN Inputs[try.r] /\ \A i \in try.left \ {c} : StartPos(i) > try.start
      /\ StartPos(c) < try.start + try.n /\ EndPos(c) > try.start /\ ItemOf(try.r, c) \in Items
      /\ c \in try.left
  BY <1>1, CandidateFacts DEF TryItem, c
<1>4. /\ MgrOK(mgr') /\ DOMAIN mgr'.cached = DOMAIN mgr.cached
      /\ mgr'.num_free = mgr.num_free
      /\ \A s \in Requests : s # try.r => mgr'.ids[s] = mgr.ids[s]
      /\ \A s \in Requests, g \in Items :
           Holds(mgr', s, g) <=> Holds(mgr, s, g) \/ (s = try.r /\ g = ItemOf(try.r, c))
  BY <1>1, <1>3, InvFacts, ReferenceKeeps
<1>5. ~ (try.from = "waiting" /\ try.n = 0)
  BY <1>1, <1>3 DEF Attempt
<1>6. Attempt(try', mgr')
  <2>1. ASSUME NEW i \in Window(try.r, try.start, try.n) \ (try.left \ {c}), try.n > 0
        PROVE  ItemOf(try.r, i) \in ChosenOf(try) \/ Holds(mgr', try.r, ItemOf(try.r, i))
    <3>1. ItemOf(try.r, i) \in Items
      BY <1>1, Constants DEF Window
    <3>2. CASE i = c
      BY <1>1, <1>3, <1>4, <3>2
    <3>3. CASE i # c
      BY <1>1, <1>4, <2>1, <3>1, <3>3 DEF Attempt
    <3> QED BY <3>2, <3>3
  <2> QED BY <1>1, <1>2, <1>3, <1>4, <1>5, <2>1 DEF Attempt
<1>7. mgr'.num_free >= 0
  BY <1>4, InvFacts
<1> QED BY <1>1, <1>2, <1>4, <1>6, <1>7, TryStepInv

LEMMA InputLength ==
  ASSUME NEW i \in Nat
  PROVE  StartPos(i) < EndPos(i)
<1>1. ItemLen \in Nat /\ ItemLen >= 1
  BY ItemLenType
<1>2. ItemLen * (i - 1) = ItemLen * i - ItemLen /\ ItemLen * i \in Int
  BY <1>1
<1> QED BY <1>1, <1>2 DEF StartPos, EndPos

LEMMA TryStopInv ==
  ASSUME Inv, TryStop PROVE Inv'
<1> DEFINE c == Candidate
           d == StartPos(c) - try.start
<1>1. /\ Attempt(try, mgr) /\ pc = "try"
      /\ try' = [try EXCEPT !.left = {}, !.n = Max({0, d})]
      /\ mgr' = mgr /\ UNCHANGED tryVars /\ Trial
      /\ try.r \in Requests /\ try.n \in Nat /\ try.start \in Nat
  BY TryFacts DEF TryStop, Missing, Trial
<1>2. /\ c \in try.left /\ c \in Nat /\ \A i \in try.left : i \in Nat /\ c <= i
      /\ StartPos(c) < try.start + try.n /\ EndPos(c) > try.start
  BY <1>1, CandidateFacts
<1> HIDE DEF c
<1>3. StartPos(c) \in Int /\ EndPos(c) \in Int /\ StartPos(c) < EndPos(c) /\ d \in Int
  BY <1>1, <1>2, PositionType, InputLength
<1>4. Max({0, d}) = (IF d > 0 THEN d ELSE 0) /\ Max({0, d}) \in Nat
  <2> HIDE DEF d
  <2>1. Max({0, d}) = IF d > 0 THEN d ELSE 0
    BY <1>3, MaxWithZero
  <2> QED BY <1>3, <2>1
<1> DEFINE n == Max({0, d})
<1> HIDE DEF n
<1>5. /\ try' \in Tries /\ try'.r = try.r /\ try'.start = try.start /\ try'.n = n
      /\ try'.from = try.from /\ try'.left = {} /\ try'.inputs = try.inputs
      /\ try'.embeds = try.embeds /\ ChosenOf(try') = ChosenOf(try)
  <2>1. try \in Tries
    BY <1>1 DEF Attempt
  <2>2. n \in Nat /\ try' = [try EXCEPT !.left = {}, !.n = n]
    BY <1>1, <1>4 DEF n
  <2>3. /\ try' \in Tries /\ try'.r = try.r /\ try'.start = try.start /\ try'.n = n
        /\ try'.from = try.from /\ try'.left = {} /\ try'.inputs = try.inputs
        /\ try'.embeds = try.embeds
    BY <2>1, <2>2 DEF Tries
  <2> QED BY <2>3 DEF ChosenOf
<1>6. Attempt(try', mgr)
  <2>1. ASSUME n > 0, NEW i \in Window(try.r, try.start, n)
        PROVE  ItemOf(try.r, i) \in ChosenOf(try) \/ Holds(mgr, try.r, ItemOf(try.r, i))
    <3>1. n = d /\ try.n > 0
      BY <1>1, <1>2, <1>3, <1>4, <2>1 DEF n
    <3>2. i \in DOMAIN Inputs[try.r] /\ EndPos(i) > try.start /\ StartPos(i) < try.start + n
      BY DEF Window
    <3>3. i \in Nat /\ StartPos(i) \in Int
      <4>1. i \in Nat
        BY <1>1, <3>2, Constants
      <4> QED BY <4>1, PositionType
    <3>4. StartPos(i) < StartPos(c)
      BY <1>1, <1>3, <3>1, <3>2, <3>3
    <3>5. i \in Window(try.r, try.start, try.n)
      BY <1>1, <1>2, <1>3, <3>2, <3>3, <3>4 DEF Window
    <3>6. i \notin try.left
      <4> SUFFICES ASSUME i \in try.left, i # c PROVE FALSE
        BY <1>3, <3>4
      <4>1. c < i
        BY <1>2, <3>3
      <4>2. EndPos(c) <= StartPos(i)
        BY <1>2, <3>3, <4>1, Positions
      <4> QED BY <1>3, <3>3, <3>4, <4>2
    <3> QED BY <1>1, <3>1, <3>5, <3>6 DEF Attempt
  <2>2. ASSUME try.from = "waiting", n = 0 PROVE mgr.ids[try.r] = {}
    <3>1. ~ (StartPos(c) > try.start)
      BY <1>1, <1>3, <1>4, <2>2 DEF n
    <3> QED BY <1>1, <1>2, <2>2, <3>1 DEF Attempt
  <2> QED BY <1>1, <1>5, <2>1, <2>2 DEF Attempt
<1> QED BY <1>1, <1>5, <1>6, TryStepInv, InvFacts

LEMMA TryEncodeInv ==
  ASSUME Inv, TryEncode PROVE Inv'
<1> DEFINE c == Candidate
           h == ItemOf(try.r, c)
<1>1. /\ Attempt(try, mgr) /\ pc = "try" /\ Trial /\ UNCHANGED tryVars
      /\ try' = [try EXCEPT !.left = @ \ {c}, !.inputs = @ \union {c},
                            !.embeds = @ + Size[h], !.budget = @ - Size[h]]
      /\ mgr' = Evict(mgr, try.r, c, try.embeds)
      /\ try.r \in Requests /\ try.n \in Nat /\ try.embeds \in Nat
  BY TryFacts DEF TryEncode, Missing, Trial, TryItem, Embeds
<1>2. /\ c \in try.left /\ c \in Nat /\ c \in DOMAIN Inputs[try.r]
      /\ h \in Items /\ Size[h] \in Nat
      /\ h \notin ChosenOf(try) /\ h \notin DOMAIN mgr.cached
      /\ Size[h] + try.embeds <= mgr.num_free \/ Size[h] + try.embeds <= mgr.num_freeable
  BY <1>1, CandidateFacts
     DEF TryItem, TryEncode, Missing, Chosen, ChosenOf, HasRoom, CanAllocate, Embeds
<1> HIDE DEF c
<1>3. Evicts(mgr, mgr', Size[h] + try.embeds)
  BY <1>1, <1>2, InvFacts, EvictKeeps
<1> HIDE DEF h
<1>4. /\ try' \in Tries /\ try'.r = try.r /\ try'.start = try.start /\ try'.n = try.n
      /\ try'.from = try.from /\ try'.left = try.left \ {c}
      /\ try'.inputs = try.inputs \union {c} /\ try'.embeds = try.embeds + Size[h]
  <2>1. try \in Tries
    BY <1>1 DEF Attempt
  <2>2. /\ try.left \ {c} \in SUBSET Nat /\ try.inputs \union {c} \in SUBSET Nat
        /\ try.embeds + Size[h] \in Nat /\ try.budget - Size[h] \in Int
    BY <1>2, <2>1 DEF Tries
  <2>3. try' = [try EXCEPT !.left = try.left \ {c}, !.inputs = try.inputs \union {c},
                          !.embeds = try.embeds + Size[h], !.budget = try.budget - Size[h]]
    BY <1>1, <2>1 DEF Tries
  <2> QED BY <2>1, <2>2, <2>3 DEF Tries
<1>5. ChosenOf(try') = ChosenOf(try) \union {h}
  BY <1>4 DEF ChosenOf, h
<1>6. Attempt(try', mgr')
  <2>1. \A j, k \in try.inputs \union {c} : ItemOf(try.r, j) = ItemOf(try.r, k) => j = k
    <3>1. \A j \in try.inputs : ItemOf(try.r, j) # h
      BY <1>2 DEF ChosenOf
    <3> QED BY <1>1, <3>1 DEF Attempt, h
  <2>2. try'.inputs \subseteq DOMAIN Inputs[try.r]
    BY <1>1, <1>2, <1>4 DEF Attempt
  <2>3. ChosenOf(try') \cap DOMAIN mgr'.cached = {}
    BY <1>1, <1>2, <1>3, <1>5 DEF Attempt, Evicts
  <2>4. try'.embeds = Sizes(ChosenOf(try'))
    <3>1. ChosenOf(try) \in SUBSET Items
      BY <1>1, Constants DEF Attempt, ChosenOf
    <3> QED BY <1>1, <1>2, <1>4, <1>5, <3>1, SizesAdd DEF Attempt
  <2>5. try'.embeds <= mgr'.num_free
    <3>1. mgr'.num_free \in Int
      BY <1>3, ManagerFields DEF Evicts, MgrOK
    <3> QED BY <1>1, <1>2, <1>3, <1>4, <3>1 DEF Evicts
  <2>6. try.n > 0
    BY <1>1, <1>2 DEF Attempt
  <2>7. ASSUME NEW i \in Window(try.r, try.start, try.n) \ (try.left \ {c})
        PROVE  ItemOf(try.r, i) \in ChosenOf(try') \/ Holds(mgr', try.r, ItemOf(try.r, i))
    <3>1. ItemOf(try.r, i) \in Items
      BY <1>1, Constants DEF Window
    <3>2. CASE i = c
      BY <1>5, <3>2 DEF h
    <3>3. CASE i # c
      BY <1>1, <1>3, <1>5, <2>6, <3>1, <3>3 DEF Attempt, Evicts
    <3> QED BY <3>2, <3>3
  <2>8. try.from = "waiting" /\ mgr'.ids[try.r] # {} => \A i \in try'.left : StartPos(i) > try.start
    BY <1>1, <1>3, <1>4 DEF Attempt, Evicts
  <2>9. try'.left \subseteq Window(try.r, try.start, try.n)
    BY <1>1, <1>4 DEF Attempt
  <2> QED BY <1>4, <2>1, <2>2, <2>3, <2>4, <2>5, <2>6, <2>7, <2>8, <2>9 DEF Attempt
<1>7. mgr'.num_free >= 0 /\ MgrOK(mgr') /\ mgr'.ids = mgr.ids
  <2>1. mgr'.num_free \in Int
    BY <1>3, ManagerFields DEF Evicts, MgrOK
  <2> QED BY <1>1, <1>2, <1>3, <2>1 DEF Evicts
<1> QED BY <1>1, <1>4, <1>6, <1>7, TryStepInv

LEMMA TryEndInv ==
  ASSUME Inv, TryEnd PROVE Inv'
<1>1. /\ Attempt(try, mgr) /\ try.left = {} /\ try.n \in Nat /\ pc = "try"
      /\ try.r \in IF try.from = "running" THEN Range(running) ELSE Range(waiting)
      /\ try.from \in {"running", "waiting"}
      /\ UNCHANGED <<mgr, waiting, running, computed, arrived>>
  BY TryFacts DEF TryEnd
<1>2. CASE try.n > 0
  <2>1. pc' = "alloc" /\ UNCHANGED <<step, try>>
    BY <1>2 DEF TryEnd
  <2>2. TryOK'
    BY <1>1, <1>2, <2>1 DEF TryOK
  <2> QED BY <1>1, <2>1, <2>2 DEF Inv, TypesOK, QueuesOK, IdsOK, Live
<1>3. CASE ~ (try.n > 0)
  <2>1. /\ pc' \in {"running", "finish"} /\ try' = NoTry /\ step' = [step EXCEPT !.i = @ + 1]
    BY <1>1, <1>3 DEF TryEnd
  <2>2. step' \in Steps
    <3>1. step \in Steps
      BY InvFacts
    <3> QED BY <2>1, <3>1 DEF Steps
  <2>3. IdsOK'
    <3>1. try.r \in Range(running) \/ mgr.ids[try.r] = {}
      BY <1>1, <1>3 DEF Attempt
    <3> QED BY <1>1, <3>1 DEF IdsOK, Inv
  <2>4. TryOK'
    BY <2>1 DEF TryOK
  <2> QED BY <1>1, <2>2, <2>3, <2>4 DEF Inv, TypesOK, QueuesOK, Live
<1> QED BY <1>2, <1>3

\* add_request and prepend_request put a request that is not there into the queue.
LEMMA HeapAddFacts ==
  ASSUME Inv, NEW r \in Requests, r \notin Range(waiting)
  PROVE  /\ HeapAdd(r) \in Seq(Requests) /\ IsInjective(HeapAdd(r))
         /\ Range(HeapAdd(r)) = Range(waiting) \union {r}
<1> DEFINE J == {j \in 0 .. Len(waiting) : \A i \in j + 1 .. Len(waiting) : waiting[i] > r}
           k == Min(J)
<1>1. waiting \in Seq(Requests) /\ IsInjective(waiting) /\ Len(waiting) \in Nat
      /\ DOMAIN waiting = 1 .. Len(waiting)
  BY InvFacts
<1>2. k \in 0 .. Len(waiting)
  <2>1. J \subseteq 0 .. Len(waiting) /\ J \subseteq Nat /\ Len(waiting) \in J
    BY <1>1
  <2> HIDE DEF J
  <2>2. Min(J) \in J
    BY <2>1, MinFacts
  <2> QED BY <2>1, <2>2
<1>3. HeapAdd(r) = SubSeq(waiting, 1, k) \o <<r>> \o SubSeq(waiting, k + 1, Len(waiting))
  BY DEF HeapAdd
<1> HIDE DEF k
<1>4. LET t == SubSeq(waiting, 1, k) \o <<r>> \o SubSeq(waiting, k + 1, Len(waiting))
      IN  t \in Seq(Requests) /\ IsInjective(t) /\ Range(t) = Range(waiting) \union {r}
  BY <1>1, <1>2, InsertFacts
<1> QED BY <1>3, <1>4

LEMMA PrependFacts ==
  ASSUME Inv, NEW r \in Requests, r \notin Range(waiting)
  PROVE  /\ PrependRequest(r) \in Seq(Requests) /\ IsInjective(PrependRequest(r))
         /\ Range(PrependRequest(r)) = Range(waiting) \union {r}
<1>1. CASE Policy = "fcfs"
  <2>1. waiting \in Seq(Requests) /\ IsInjective(waiting) /\ Len(waiting) \in Nat
    BY InvFacts
  <2>2. LET t == SubSeq(waiting, 1, 0) \o <<r>> \o SubSeq(waiting, 0 + 1, Len(waiting))
        IN  t \in Seq(Requests) /\ IsInjective(t) /\ Range(t) = Range(waiting) \union {r}
    <3>1. 0 \in 0 .. Len(waiting)
      BY <2>1
    <3> QED BY <2>1, <3>1, InsertFacts
  <2>3. /\ SubSeq(waiting, 1, 0) = <<>> /\ SubSeq(waiting, 0 + 1, Len(waiting)) = waiting
        /\ <<>> \o <<r>> = <<r>>
    BY <2>1
  <2>4. PrependRequest(r) = SubSeq(waiting, 1, 0) \o <<r>> \o SubSeq(waiting, 0 + 1, Len(waiting))
    BY <1>1, <2>3 DEF PrependRequest
  <2> QED BY <2>2, <2>4
<1>2. CASE Policy # "fcfs"
  BY <1>2, HeapAddFacts DEF PrependRequest
<1> QED BY <1>1, <1>2

\* The victim of a preemption is a running request.
LEMMA VictimFacts ==
  ASSUME Inv, NEW r \in Range(running)
  PROVE  Victim \in Range(running)
<1>1. running \in Seq(Requests) /\ Len(running) \in Nat
      /\ \A x : x \in Range(running) <=> \E i \in 1 .. Len(running) : running[i] = x
  BY InvFacts, Distinct
<1>2. Len(running) \in 1 .. Len(running) /\ running # <<>>
  BY <1>1
<1>3. CASE Policy = "fcfs"
  BY <1>1, <1>2, <1>3 DEF Victim
<1>4. CASE Policy # "fcfs"
  <2>1. Requests \in SUBSET Nat
    BY InputsAssumption
  <2> QED BY <1>1, <1>2, <1>4, <2>1, MaxOfList DEF Victim
<1> QED BY <1>3, <1>4

\* What allocate does for the inputs that were chosen, and the entry of the plan.
LEMMA AllocateSlotsFacts ==
  ASSUME Inv, AllocateSlots
  PROVE  /\ Allocates(mgr, mgr', try.r, try.inputs)
         /\ [r |-> try.r, n |-> try.n, inputs |-> try.inputs] \in Entries
<1> DEFINE r == try.r
<1>1. Attempt(try, mgr) /\ r \in Requests /\ try.n \in Nat
  BY TryFacts DEF AllocateSlots
<1>2. /\ try.inputs \in SUBSET (DOMAIN Inputs[r])
      /\ \A j, k \in try.inputs : ItemOf(r, j) = ItemOf(r, k) => j = k
      /\ \A j \in try.inputs : ItemOf(r, j) \notin DOMAIN mgr.cached
  BY <1>1 DEF Attempt, ChosenOf
<1>3. MgrOK(mgr) /\ mgr' = AllocateInputs(mgr, r, try.inputs)
  BY InvFacts DEF AllocateSlots
<1>4. Allocates(mgr, mgr', r, try.inputs)
  BY <1>1, <1>2, <1>3, AllocateInputsKeeps
<1>5. DOMAIN Inputs[r] \subseteq Nat
  BY <1>1, Constants
<1> QED BY <1>1, <1>2, <1>4, <1>5 DEF Entries

LEMMA AllocateSlotsInv ==
  ASSUME Inv, AllocateSlots PROVE Inv'
<1> DEFINE r == try.r
<1>1. /\ Attempt(try, mgr) /\ r \in Requests /\ try.start \in Nat /\ try.n \in Nat
      /\ try.from \in {"running", "waiting"} /\ try.budget \in Int
      /\ r \in IF try.from = "running" THEN Range(running) ELSE Range(waiting)
  BY TryFacts DEF AllocateSlots
<1>2. /\ mgr' = AllocateInputs(mgr, r, try.inputs) /\ pc' = try.from /\ try' = NoTry
      /\ arrived' = arrived
  BY DEF AllocateSlots
<1>3. Allocates(mgr, mgr', r, try.inputs)
  BY AllocateSlotsFacts
<1>4. mgr'.num_free >= 0
  <2> DEFINE C == ChosenOf(try)
             D == DOMAIN mgr.cached
  <2>1. DOMAIN mgr'.cached = D \union C /\ C \cap D = {} /\ C \in SUBSET Items /\ D \in SUBSET Items
    <3>1. D \in SUBSET Items
      BY InvFacts, ManagerFields
    <3> QED BY <1>1, <1>3, <3>1, Constants DEF Allocates, ChosenOf, Attempt
  <2>2. Sizes(C) <= mgr.num_free
    BY <1>1 DEF Attempt
  <2>3. mgr.num_free = CacheSize - Sizes(D) /\ mgr'.num_free = CacheSize - Sizes(DOMAIN mgr'.cached)
    BY <1>3, InvFacts DEF Allocates, MgrOK, Slots
  <2> HIDE DEF C, D
  <2>4. Sizes(D \union C) = Sizes(D) + Sizes(C) /\ Sizes(D) \in Nat /\ Sizes(C) \in Nat
    BY <2>1, SizesUnion, SizesType
  <2> QED BY <2>1, <2>2, <2>3, <2>4, Constants
<1>5. step' \in Steps
  <2>1. step \in Steps
    BY InvFacts
  <2>2. [r |-> try.r, n |-> try.n, inputs |-> try.inputs] \in Entries
    BY AllocateSlotsFacts
  <2> DEFINE e == [r |-> try.r, n |-> try.n, inputs |-> try.inputs]
             b == IF try.inputs # {} THEN try.budget ELSE step.budget
  <2>3. step' = [step EXCEPT !.i = step.i + 1, !.budget = b, !.sched = Append(step.sched, e)]
    BY <2>1 DEF AllocateSlots, Steps
  <2> HIDE DEF e, b
  <2>4. step.i + 1 \in Nat \ {0} /\ b \in Int /\ Append(step.sched, e) \in Seq(Entries)
    BY <1>1, <2>1, <2>2 DEF Steps, e, b
  <2> QED BY <2>1, <2>3, <2>4 DEF Steps
<1>6. TypesOK' /\ QueuesOK' /\ Range(running') = Range(running) \union {r}
  <2>1. CASE try.from = "running"
    <3>1. UNCHANGED <<waiting, running, computed>>
      BY <2>1 DEF AllocateSlots
    <3>2. Range(running) = Range(running) \union {r}
      BY <1>1, <2>1
    <3> QED BY <1>2, <1>5, <3>1, <3>2 DEF Inv, TypesOK, QueuesOK, Live
  <2>2. CASE try.from # "running"
    <3>1. /\ waiting' = Remove(waiting, r) /\ running' = Append(running, r)
          /\ computed' = [computed EXCEPT ![r] = try.start]
      BY <2>2 DEF AllocateSlots
    <3>2. r \in Range(waiting) /\ r \notin Range(running)
      BY <1>1, <2>2, InvFacts
    <3>3. waiting' \in Seq(Requests) /\ IsInjective(waiting') /\ Range(waiting') = Range(waiting) \ {r}
      BY <3>1, InvFacts, RemoveFacts
    <3>4. /\ running' \in Seq(Requests) /\ IsInjective(running')
          /\ Range(running') = Range(running) \union {r}
      BY <1>1, <3>1, <3>2, InvFacts, AppendDistinct
    <3>5. computed' \in [Requests -> Nat]
      BY <1>1, <3>1, InvFacts
    <3>6. QueuesOK'
      <4>1. Range(running') \cap Range(waiting') = {} /\ Live' \subseteq arrived'
        BY <1>2, <3>2, <3>3, <3>4, InvFacts DEF Live
      <4> QED BY <3>3, <3>4, <4>1 DEF QueuesOK
    <3> QED BY <1>2, <1>5, <3>4, <3>5, <3>6, InvFacts DEF TypesOK
  <2> QED BY <2>1, <2>2
<1>7. TryOK'
  BY <1>1, <1>2 DEF TryOK
<1>8. IdsOK'
  <2>1. \A s \in Requests \ (Range(running) \union {r}) : mgr.ids[s] = {} /\ mgr'.ids[s] = mgr.ids[s]
    BY <1>3 DEF Inv, IdsOK, Allocates
  <2> QED BY <1>6, <2>1 DEF IdsOK
<1> QED BY <1>3, <1>4, <1>6, <1>7, <1>8 DEF Inv, Allocates

\* The locals stay right when another request is freed.
LEMMA AttemptAfterFree ==
  ASSUME NEW t, NEW m, NEW n, NEW v \in Requests, Attempt(t, m), t.r # v, Frees(m, n, v, m.ids[v])
  PROVE  Attempt(t, n)
<1>1. t.r \in Requests /\ t.inputs \subseteq DOMAIN Inputs[t.r]
  BY DEF Attempt, Tries
<1>2. \A i \in Window(t.r, t.start, t.n) :
        Holds(n, t.r, ItemOf(t.r, i)) <=> Holds(m, t.r, ItemOf(t.r, i))
  <2>1. \A i \in Window(t.r, t.start, t.n) : ItemOf(t.r, i) \in Items
    BY <1>1, Constants DEF Window
  <2> QED BY <1>1, <2>1 DEF Frees
<1>3. /\ DOMAIN n.cached = DOMAIN m.cached /\ n.num_free = m.num_free
      /\ n.ids[t.r] = m.ids[t.r]
  BY <1>1 DEF Frees
<1> QED BY <1>2, <1>3 DEF Attempt

LEMMA PreemptStep ==
  ASSUME Inv, Preempt
  PROVE  step' \in Steps
<1> DEFINE v == Victim
           passed == \E k \in 1 .. step.i - 1 : running[k] = v
           undone == {e \in Range(step.sched) : e.r = v}
           back == {ItemOf(v, i) : i \in UNION {e.inputs : e \in undone}}
           plan == IF undone = {} THEN step.sched ELSE Remove(step.sched, CHOOSE e \in undone : TRUE)
<1>1. step \in Steps
  BY InvFacts
<1>2. /\ step.i \in Nat \ {0} /\ step.budget \in Int /\ step.sched \in Seq(Entries)
  BY <1>1 DEF Steps
<1>3. step' = [i |-> IF passed THEN step.i - 1 ELSE step.i, budget |-> step.budget + Sizes(back),
               sched |-> plan, preempted |-> TRUE]
  BY DEF Preempt
<1>4. (IF passed THEN step.i - 1 ELSE step.i) \in Nat \ {0}
  BY <1>2
<1>5. back \in SUBSET Items
  <2>1. ASSUME NEW e \in undone, NEW i \in e.inputs PROVE ItemOf(v, i) \in Items
    <3>1. e \in Entries /\ e.r = v
      BY <1>2, Distinct
    <3> HIDE DEF v
    <3>2. i \in DOMAIN Inputs[v] /\ v \in Requests
      BY <3>1 DEF Entries
    <3> QED BY <3>2, Constants
  <2> HIDE DEF undone, v
  <2> QED BY <2>1
<1>6. step.budget + Sizes(back) \in Int
  <2> HIDE DEF back
  <2> QED BY <1>2, <1>5, SizesType
<1>7. plan \in Seq(Entries)
  <2> HIDE DEF undone
  <2> QED BY <1>2, RemoveType
<1> HIDE DEF v, passed, undone, back, plan
<1> QED BY <1>3, <1>4, <1>6, <1>7 DEF Steps

\* A preemption frees the victim: the one that is being tried, or another one.
LEMMA PreemptInv ==
  ASSUME Inv, Preempt PROVE Inv'
<1> DEFINE v == Victim
<1>1. /\ Attempt(try, mgr) /\ try.r \in Range(running) /\ try.from = "running" /\ pc = "alloc"
      /\ try.left = {} /\ try.n > 0
  BY TryFacts DEF Preempt, Inv, TryOK
<1>2. /\ mgr' = Free(mgr, v) /\ computed' = [computed EXCEPT ![v] = 0]
      /\ waiting' = PrependRequest(v) /\ running' = Remove(running, v) /\ arrived' = arrived
      /\ IF v = try.r THEN pc' = "finish" /\ try' = NoTry ELSE pc' = pc /\ try' = try
  BY DEF Preempt
<1>3. v \in Range(running)
  BY <1>1, VictimFacts
<1> HIDE DEF v
<1>4. v \in Requests /\ v \notin Range(waiting)
  BY <1>3, InvFacts
<1>5. Frees(mgr, mgr', v, mgr.ids[v])
  BY <1>2, <1>4, InvFacts, FreeKeeps
<1>6. /\ running' \in Seq(Requests) /\ IsInjective(running')
      /\ Range(running') = Range(running) \ {v}
  BY <1>2, InvFacts, RemoveFacts
<1>7. /\ waiting' \in Seq(Requests) /\ IsInjective(waiting')
      /\ Range(waiting') = Range(waiting) \union {v}
  BY <1>2, <1>4, PrependFacts
<1>8. QueuesOK'
  <2>1. Range(running') \cap Range(waiting') = {} /\ Live' \subseteq arrived'
    BY <1>2, <1>3, <1>6, <1>7, InvFacts DEF Live
  <2> QED BY <1>6, <1>7, <2>1 DEF QueuesOK
<1>9. TypesOK'
  <2>1. computed' \in [Requests -> Nat]
    BY <1>2, InvFacts
  <2> QED BY <1>2, <2>1, PreemptStep, InvFacts DEF TypesOK
<1>10. mgr'.num_free >= 0
  BY <1>5, InvFacts DEF Frees
<1>11. \A s \in Requests : s \notin Range(running') /\ s # try.r => mgr'.ids[s] = {}
  <2> SUFFICES ASSUME NEW s \in Requests, s \notin Range(running'), s # try.r PROVE mgr'.ids[s] = {}
    OBVIOUS
  <2>1. CASE s = v
    BY <1>5, <2>1 DEF Frees
  <2>2. CASE s # v
    <3>1. mgr.ids[s] = {}
      BY <1>6, <2>2 DEF Inv, IdsOK
    <3> QED BY <1>5, <2>2, <3>1 DEF Frees
  <2> QED BY <2>1, <2>2
<1>12. CASE v = try.r
  <2>1. pc' = "finish" /\ try' = NoTry
    BY <1>2, <1>12
  <2>2. TryOK'
    BY <2>1 DEF TryOK
  <2>3. mgr'.ids[v] = {}
    BY <1>5 DEF Frees
  <2>4. IdsOK'
    BY <1>11, <1>12, <2>3 DEF IdsOK
  <2> QED BY <1>5, <1>8, <1>9, <1>10, <2>2, <2>4 DEF Inv, Frees
<1>13. CASE v # try.r
  <2>1. pc' = pc /\ try' = try
    BY <1>2, <1>13
  <2>2. Attempt(try, mgr')
    BY <1>1, <1>4, <1>5, <1>13, AttemptAfterFree
  <2>3. TryOK'
    <3>1. try.r \in Range(running')
      BY <1>1, <1>6, <1>13
    <3> QED BY <1>1, <2>1, <2>2, <3>1 DEF TryOK
  <2>4. IdsOK'
    BY <1>11, <2>1 DEF IdsOK
  <2> QED BY <1>5, <1>8, <1>9, <1>10, <2>3, <2>4 DEF Inv, Frees
<1> QED BY <1>12, <1>13

\* Steps outside schedule(): the manager and the queues change.
LEMMA CacheChange ==
  ASSUME Inv, pc' \notin {"try", "alloc"}, try' = NoTry,
         TypesOK', QueuesOK', MgrOK(mgr'), mgr'.num_free >= 0,
         \A s \in Requests : s \notin Range(running') => mgr'.ids[s] = {}
  PROVE  Inv'
<1>1. TryOK'
  BY DEF TryOK
<1>2. IdsOK'
  BY DEF IdsOK
<1> QED BY <1>1, <1>2 DEF Inv

LEMMA WaitNoSlotsInv ==
  ASSUME Inv, WaitNoSlots PROVE Inv'
<1> DEFINE r == try.r
<1>1. /\ r \in Requests /\ mgr' = Free(mgr, r) /\ pc' = "finish" /\ try' = NoTry
      /\ UNCHANGED <<waiting, running, computed, step, arrived>>
  BY TryFacts DEF WaitNoSlots
<1>2. Frees(mgr, mgr', r, mgr.ids[r])
  BY <1>1, InvFacts, FreeKeeps
<1>3. \A s \in Requests : s \notin Range(running') => mgr'.ids[s] = {}
  <2>1. mgr'.ids[r] = {}
    BY <1>2 DEF Frees
  <2>2. \A s \in Requests \ (Range(running) \union {r}) : mgr.ids[s] = {} /\ mgr'.ids[s] = mgr.ids[s]
    BY <1>2 DEF Frees, Inv, IdsOK
  <2> QED BY <1>1, <2>1, <2>2
<1>4. MgrOK(mgr') /\ mgr'.num_free >= 0
  BY <1>2, InvFacts DEF Frees
<1>5. TypesOK' /\ QueuesOK'
  BY <1>1 DEF Inv, TypesOK, QueuesOK, Live
<1> QED BY <1>1, <1>3, <1>4, <1>5, CacheChange

LEMMA FinishScheduleInv ==
  ASSUME Inv, FinishSchedule PROVE Inv'
<1>1. /\ pc = "finish" /\ mgr' = [mgr EXCEPT !.freed = {}] /\ step' = NoStep
      /\ computed' = [r \in Requests |->
                        IF \E e \in Range(step.sched) : e.r = r
                        THEN computed[r] + (CHOOSE e \in Range(step.sched) : e.r = r).n
                        ELSE computed[r]]
      /\ pc' \in {"idle", "pop"} /\ UNCHANGED <<waiting, running, try, arrived>>
  BY DEF FinishSchedule
<1>2. computed' \in [Requests -> Nat]
  <2>1. step.sched \in Seq(Entries)
    BY InvFacts DEF Steps
  <2>2. \A e \in Range(step.sched) : e.n \in Nat
    BY <2>1, Distinct DEF Entries
  <2>3. \A r \in Requests : computed[r] \in Nat
    BY InvFacts
  <2>4. ASSUME NEW r \in Requests, \E e \in Range(step.sched) : e.r = r
        PROVE  (CHOOSE e \in Range(step.sched) : e.r = r).n \in Nat
    BY <2>2, <2>4
  <2> QED BY <1>1, <2>3, <2>4
<1>3. /\ mgr' \in Managers /\ mgr'.cached = mgr.cached /\ mgr'.ids = mgr.ids
      /\ mgr'.freeable = mgr.freeable /\ mgr'.num_free = mgr.num_free
      /\ mgr'.num_freeable = mgr.num_freeable
  <2>1. mgr \in Managers
    BY InvFacts
  <2> QED BY <1>1, <2>1 DEF Managers
<1>4. MgrOK(mgr') /\ mgr'.num_free >= 0
  <2>1. Slots(mgr) /\ Refs(mgr) /\ mgr.num_free >= 0
    BY InvFacts DEF MgrOK
  <2>2. Slots(mgr') /\ Refs(mgr')
    BY <1>3, <2>1 DEF Slots, Refs, Used, Holds
  <2> QED BY <1>3, <2>1, <2>2 DEF MgrOK
<1>5. IdsOK'
  BY <1>1, <1>3 DEF Inv, IdsOK
<1>6. TryOK'
  BY <1>1 DEF Inv, TryOK
<1>7. TypesOK' /\ QueuesOK'
  BY <1>1, <1>2, NoStepType DEF Inv, TypesOK, QueuesOK, Live
<1> QED BY <1>4, <1>5, <1>6, <1>7 DEF Inv

\* update_from_output frees the inputs that lie before the computed tokens.
LEMMA UpdateFreeInv ==
  ASSUME Inv, UpdateFree PROVE Inv'
<1> DEFINE r == Head(todo)
<1>1. /\ pc' \notin {"try", "alloc"} /\ try' = NoTry /\ try = NoTry
      /\ mgr' = (IF r \in Live THEN FreeInputs(mgr, r, Passed(r)) ELSE mgr)
      /\ UNCHANGED <<waiting, running, computed, step, arrived>>
  BY DEF UpdateFree, Inv, TryOK
<1> HIDE DEF r
<1>2. \A s \in Requests : s \notin Range(running) => mgr.ids[s] = {}
  <2>1. \A s \in Requests : s # try.r
    BY <1>1, Constants DEF NoTry
  <2> QED BY <2>1 DEF Inv, IdsOK
<1>3. TypesOK' /\ QueuesOK'
  BY <1>1 DEF Inv, TypesOK, QueuesOK, Live
<1>4. CASE r \in Live
  <2>1. r \in Requests
    BY <1>4, InvFacts
  <2>2. Passed(r) \in SUBSET mgr.ids[r]
    BY DEF Passed
  <2>3. Frees(mgr, mgr', r, Passed(r))
    BY <1>1, <1>4, <2>1, <2>2, InvFacts, FreeInputsKeeps
  <2>4. MgrOK(mgr') /\ mgr'.num_free >= 0
    BY <2>3, InvFacts DEF Frees
  <2>5. \A s \in Requests : s \notin Range(running') => mgr'.ids[s] = {}
    <3> SUFFICES ASSUME NEW s \in Requests, s \notin Range(running') PROVE mgr'.ids[s] = {}
      OBVIOUS
    <3>1. mgr.ids[s] = {}
      BY <1>1, <1>2
    <3>2. mgr'.ids[s] = mgr.ids[s] \/ mgr'.ids[s] = mgr.ids[s] \ Passed(r)
      BY <2>3 DEF Frees
    <3> QED BY <3>1, <3>2
  <2> QED BY <1>1, <1>3, <2>4, <2>5, CacheChange
<1>5. CASE r \notin Live
  BY <1>1, <1>2, <1>3, <1>5, InvFacts, CacheChange
<1> QED BY <1>4, <1>5

LEMMA AddRequestInv ==
  ASSUME Inv, NEW r \in Requests, AddRequest(r) PROVE Inv'
<1>1. /\ pc' \notin {"try", "alloc"} /\ try' = NoTry /\ try = NoTry /\ mgr' = mgr
      /\ r \notin arrived /\ arrived' = arrived \union {r}
      /\ waiting' = (IF Policy = "fcfs" THEN Append(waiting, r) ELSE HeapAdd(r))
      /\ UNCHANGED <<running, computed, step>>
  BY DEF AddRequest, Inv, TryOK
<1>2. r \notin Range(running) /\ r \notin Range(waiting)
  BY <1>1, InvFacts DEF Live
<1>3. /\ waiting' \in Seq(Requests) /\ IsInjective(waiting')
      /\ Range(waiting') = Range(waiting) \union {r}
  <2>1. CASE Policy = "fcfs"
    BY <1>1, <1>2, <2>1, InvFacts, AppendDistinct
  <2>2. CASE Policy # "fcfs"
    BY <1>1, <1>2, <2>2, HeapAddFacts
  <2> QED BY <2>1, <2>2
<1>4. QueuesOK'
  <2>1. Range(running') \cap Range(waiting') = {} /\ Live' \subseteq arrived'
    BY <1>1, <1>2, <1>3, InvFacts DEF Live
  <2> QED BY <1>1, <1>3, <2>1, InvFacts DEF QueuesOK
<1>5. TypesOK'
  BY <1>1, InvFacts DEF TypesOK
<1>6. \A s \in Requests : s \notin Range(running') => mgr'.ids[s] = {}
  <2>1. \A s \in Requests : s # try.r
    BY <1>1, Constants DEF NoTry
  <2> QED BY <1>1, <2>1 DEF Inv, IdsOK
<1> QED BY <1>1, <1>4, <1>5, <1>6, InvFacts, CacheChange

LEMMA FinishRequestInv ==
  ASSUME Inv, NEW r \in Requests, FinishRequest(r) PROVE Inv'
<1>1. /\ pc' \notin {"try", "alloc"} /\ try' = NoTry /\ try = NoTry /\ mgr' = Free(mgr, r)
      /\ running' = Remove(running, r) /\ waiting' = Remove(waiting, r)
      /\ UNCHANGED <<computed, step, arrived>>
  BY DEF FinishRequest, Inv, TryOK
<1>2. /\ running' \in Seq(Requests) /\ IsInjective(running')
      /\ Range(running') = Range(running) \ {r}
  BY <1>1, InvFacts, RemoveFacts
<1>3. /\ waiting' \in Seq(Requests) /\ IsInjective(waiting')
      /\ Range(waiting') = Range(waiting) \ {r}
  BY <1>1, InvFacts, RemoveFacts
<1>4. QueuesOK'
  <2>1. Range(running') \cap Range(waiting') = {} /\ Live' \subseteq arrived'
    BY <1>1, <1>2, <1>3, InvFacts DEF Live
  <2> QED BY <1>2, <1>3, <2>1 DEF QueuesOK
<1>5. TypesOK'
  BY <1>1, InvFacts DEF TypesOK
<1>6. Frees(mgr, mgr', r, mgr.ids[r])
  BY <1>1, InvFacts, FreeKeeps
<1>7. \A s \in Requests : s \notin Range(running') => mgr'.ids[s] = {}
  <2> SUFFICES ASSUME NEW s \in Requests, s \notin Range(running') PROVE mgr'.ids[s] = {}
    OBVIOUS
  <2>1. CASE s = r
    BY <1>6, <2>1 DEF Frees
  <2>2. CASE s # r
    <3>1. s # try.r
      BY <1>1, Constants DEF NoTry
    <3>2. mgr.ids[s] = {}
      BY <1>2, <2>2, <3>1 DEF Inv, IdsOK
    <3> QED BY <1>6, <2>2, <3>2 DEF Frees
  <2> QED BY <2>1, <2>2
<1>8. MgrOK(mgr') /\ mgr'.num_free >= 0
  BY <1>6, InvFacts DEF Frees
<1> QED BY <1>1, <1>4, <1>5, <1>7, <1>8, CacheChange

LEMMA ResetInv ==
  ASSUME Inv, ResetEncoderCache PROVE Inv'
<1>1. /\ pc' \notin {"try", "alloc"} /\ try' = NoTry /\ mgr' = Fresh
      /\ UNCHANGED <<waiting, running, computed, step, arrived>>
  BY DEF ResetEncoderCache, Inv, TryOK
<1>2. TypesOK' /\ QueuesOK'
  BY <1>1 DEF Inv, TypesOK, QueuesOK, Live
<1>3. MgrOK(mgr') /\ mgr'.num_free >= 0 /\ \A s \in Requests : mgr'.ids[s] = {}
  <2>1. Fresh.num_free = CacheSize /\ \A s \in Requests : Fresh.ids[s] = {}
    BY DEF Fresh
  <2> QED BY <1>1, <2>1, FreshOK, Constants
<1> QED BY <1>1, <1>2, <1>3, CacheChange

LEMMA NextInv ==
  ASSUME Inv, [Next]_vars PROVE Inv'
<1>1. CASE Engine
  BY <1>1, StartScheduleInv, RunDecodeInv, RunTryInv, RunEndInv, WaitTryInv, WaitEndInv,
     TryRepeatedInv, TryCachedInv, TryStopInv, TryEncodeInv, TryEndInv, AllocateSlotsInv,
     PreemptInv, WaitNoSlotsInv, FinishScheduleInv, PopBatchInv, UpdateFreeInv, UpdateEndInv
     DEF Engine
<1>2. CASE \E r \in Requests : AddRequest(r) \/ FinishRequest(r)
  BY <1>2, AddRequestInv, FinishRequestInv
<1>3. CASE ResetEncoderCache
  BY <1>3, ResetInv
<1>4. CASE Quiescent \/ UNCHANGED vars
  BY <1>4, StutterInv DEF Quiescent
<1> QED BY <1>1, <1>2, <1>3, <1>4 DEF Next

LEMMA InvHolds == Spec => []Inv
<1>1. Init => Inv
  BY InitInv
<1>2. Inv /\ [Next]_vars => Inv'
  BY NextInv
<1> QED BY <1>1, <1>2, PTL DEF Spec

-----------------------------------------------------------------------------
(* The plan of a step, for the first-come-first-served policy.               *)

\* With nothing scheduled, only the cached items matter.
LEMMA NoPlan ==
  ASSUME step'.sched = <<>>, pc' \notin {"try", "alloc"}, DOMAIN mgr'.cached \subseteq worker'
  PROVE  PlanOK'
<1>1. Range(step'.sched) = {}
  BY DEF Range
<1> QED BY <1>1 DEF PlanOK, ItemsOK, PlacesOK, InRunning, InWaiting

LEMMA Idle ==
  ASSUME PlanOK, pc \in {"idle", "pop", "update"}
  PROVE  step.sched = <<>> /\ DOMAIN mgr.cached \subseteq worker
<1>1. step.sched = <<>>
  BY DEF PlanOK, ItemsOK
<1>2. Range(step.sched) = {}
  BY <1>1 DEF Range
<1>3. SchedItems = {}
  BY <1>2 DEF SchedItems
<1> QED BY <1>1, <1>3 DEF PlanOK, ItemsOK

LEMMA SchedFacts ==
  ASSUME Inv, NEW e \in Range(step.sched)
  PROVE  /\ e \in Entries /\ e.r \in Requests /\ e.n \in Nat
         /\ e.inputs \subseteq DOMAIN Inputs[e.r]
         /\ \A x, y : \A i \in Window(e.r, x, y) : ItemOf(e.r, i) \in Items
<1>1. step \in Steps
  BY InvFacts
<1>2. step.sched \in Seq(Entries)
  BY <1>1 DEF Steps
<1>3. e \in Entries
  BY <1>2, Distinct
<1>4. e.r \in Requests /\ e.n \in Nat /\ e.inputs \subseteq DOMAIN Inputs[e.r]
  BY <1>3 DEF Entries
<1> QED BY <1>3, <1>4, Constants DEF Window

\* A step that schedules nothing more, and takes nothing from those scheduled.
LEMMA SamePlan ==
  ASSUME Inv, PlanOK, pc \notin {"idle", "pop", "update"}, pc' \notin {"idle", "pop", "update"},
         step'.sched = step.sched, worker' = worker, DOMAIN mgr'.cached \subseteq DOMAIN mgr.cached,
         \A e \in Range(step.sched) : computed'[e.r] = computed[e.r],
         \A e \in Range(step.sched), h \in Items : Holds(mgr, e.r, h) => Holds(mgr', e.r, h)
  PROVE  ItemsOK'
<1>1. SchedItems' = SchedItems
  BY DEF SchedItems
<1>2. DOMAIN mgr'.cached \subseteq worker' \union SchedItems'
  BY <1>1 DEF PlanOK, ItemsOK
<1>3. ASSUME NEW e \in Range(step'.sched), NEW i \in Window(e.r, computed'[e.r], e.n)
      PROVE  Holds(mgr', e.r, ItemOf(e.r, i))
  <2>1. e \in Range(step.sched) /\ i \in Window(e.r, computed[e.r], e.n)
    BY <1>3
  <2>2. Holds(mgr, e.r, ItemOf(e.r, i))
    BY <2>1 DEF PlanOK, ItemsOK
  <2>3. ItemOf(e.r, i) \in Items
    BY <2>1, SchedFacts
  <2> QED BY <2>1, <2>2, <2>3
<1> QED BY <1>2, <1>3 DEF ItemsOK

LEMMA StartSchedulePlan ==
  ASSUME Inv, PlanOK, StartSchedule PROVE PlanOK'
<1>1. pc = "idle" /\ pc' = "running" /\ step' = NoStep /\ mgr' = mgr /\ worker' = worker
  BY DEF StartSchedule
<1>2. step'.sched = <<>>
  BY <1>1 DEF NoStep
<1> QED BY <1>1, <1>2, Idle, NoPlan

LEMMA RunDecodePlan ==
  ASSUME Inv, PlanOK, RunDecode PROVE PlanOK'
<1>1. /\ pc = "running" /\ pc' = "running" /\ step' = [step EXCEPT !.i = @ + 1]
      /\ UNCHANGED <<mgr, worker, computed, running>>
  BY DEF RunDecode, InRunningLoop
<1>2. step \in Steps
  BY InvFacts
<1>3. step'.sched = step.sched /\ step'.i = step.i + 1 /\ step.i \in Nat
  BY <1>1, <1>2 DEF Steps
<1>4. ItemsOK'
  BY <1>1, <1>3, SamePlan
<1>5. \A k \in 1 .. Len(running) : k < step.i => k < step'.i
  BY <1>3
<1>6. PlacesOK'
  BY <1>1, <1>3, <1>5 DEF PlanOK, PlacesOK, InRunning, InWaiting
<1> QED BY <1>4, <1>6 DEF PlanOK

LEMMA RunTryPlan ==
  ASSUME Inv, PlanOK, RunTry PROVE PlanOK'
<1> DEFINE r == running[step.i]
<1>1. /\ pc = "running" /\ pc' = "try" /\ step.i <= Len(running)
      /\ UNCHANGED <<mgr, worker, computed, running, step>>
  BY DEF RunTry, InRunningLoop
<1>2. PICK n : try' = Trying(r, computed[r], n, "running")
  BY DEF RunTry
<1>3. try'.r = r /\ try'.start = computed[r] /\ try'.from = "running"
  BY <1>2 DEF Trying
<1>4. ItemsOK'
  BY <1>1, SamePlan
<1>5. PlacesOK'
  BY <1>1, <1>3 DEF PlanOK, PlacesOK, InRunning, InWaiting
<1> QED BY <1>4, <1>5 DEF PlanOK

LEMMA RunEndPlan ==
  ASSUME Inv, PlanOK, RunEnd PROVE PlanOK'
<1>1. /\ pc = "running" /\ pc' \in {"finish", "waiting"}
      /\ UNCHANGED <<mgr, worker, computed, running, step>>
  BY DEF RunEnd
<1>2. ItemsOK'
  BY <1>1, SamePlan
<1>3. \A e \in Range(step.sched) : e.r \in Range(running)
  <2>1. \A x : x \in Range(running) <=> \E i \in 1 .. Len(running) : running[i] = x
    BY InvFacts, Distinct
  <2> QED BY <1>1, <2>1 DEF PlanOK, PlacesOK, InRunning
<1>4. PlacesOK'
  BY <1>1, <1>3 DEF PlacesOK, InRunning, InWaiting
<1> QED BY <1>2, <1>4 DEF PlanOK

LEMMA WaitTryPlan ==
  ASSUME Inv, PlanOK, WaitTry PROVE PlanOK'
<1>1. /\ pc = "waiting" /\ pc' = "try" /\ UNCHANGED <<mgr, worker, computed, running, step>>
  BY DEF WaitTry
<1>2. PICK k \in DOMAIN waiting : \E hit, n : try' = Trying(waiting[k], hit, n, "waiting")
  BY DEF WaitTry
<1>3. try'.from = "waiting"
  BY <1>2 DEF Trying
<1>4. ItemsOK'
  BY <1>1, SamePlan
<1>5. PlacesOK'
  BY <1>1, <1>3 DEF PlanOK, PlacesOK, InRunning, InWaiting
<1> QED BY <1>4, <1>5 DEF PlanOK

LEMMA WaitEndPlan ==
  ASSUME Inv, PlanOK, WaitEnd PROVE PlanOK'
<1>1. /\ pc = "waiting" /\ pc' = "finish" /\ UNCHANGED <<mgr, worker, computed, running, step>>
  BY DEF WaitEnd
<1>2. ItemsOK'
  BY <1>1, SamePlan
<1> QED BY <1>1, <1>2 DEF PlanOK, PlacesOK, InRunning, InWaiting

\* A turn of the loop of _try_schedule_encoder_inputs.
LEMMA TryPlan ==
  ASSUME Inv, PlanOK, pc = "try", UNCHANGED tryVars,
         try'.r = try.r, try'.start = try.start, try'.from = try.from,
         DOMAIN mgr'.cached \subseteq DOMAIN mgr.cached,
         \A s \in Requests, h \in Items : Holds(mgr, s, h) => Holds(mgr', s, h)
  PROVE  PlanOK'
<1>1. UNCHANGED <<pc, running, computed, step, worker>>
  BY DEF tryVars
<1>2. \A e \in Range(step.sched) : e.r \in Requests
  BY SchedFacts
<1>3. ItemsOK'
  BY <1>1, <1>2, SamePlan
<1>4. PlacesOK'
  BY <1>1 DEF PlanOK, PlacesOK, InRunning, InWaiting
<1> QED BY <1>3, <1>4 DEF PlanOK

LEMMA TryTurnPlan ==
  ASSUME Inv, PlanOK, TryRepeated \/ TryCached \/ TryStop \/ TryEncode PROVE PlanOK'
<1>1. /\ pc = "try" /\ Trial /\ UNCHANGED tryVars
  BY DEF TryRepeated, TryCached, TryStop, TryEncode, Trial, Missing
<1>2. try \in Tries
  BY <1>1, TryFacts DEF Attempt
<1>3. try'.r = try.r /\ try'.start = try.start /\ try'.from = try.from
  BY <1>2 DEF TryRepeated, TryCached, TryStop, TryEncode, Tries
<1>4. /\ try.r \in Requests /\ Candidate \in DOMAIN Inputs[try.r] /\ try.embeds \in Nat
      /\ MgrOK(mgr)
  BY <1>1, TryFacts, CandidateFacts, InvFacts
<1>5. CASE TryRepeated \/ TryStop
  <2>1. mgr' = mgr
    BY <1>5 DEF TryRepeated, TryStop
  <2> QED BY <1>1, <1>3, <2>1, TryPlan
<1>6. CASE TryCached
  <2>1. mgr' = Reference(mgr, try.r, Candidate) /\ ItemOf(try.r, Candidate) \in DOMAIN mgr.cached
    BY <1>6 DEF TryCached, TryItem
  <2>2. /\ DOMAIN mgr'.cached = DOMAIN mgr.cached
        /\ \A s \in Requests, g \in Items : Holds(mgr, s, g) => Holds(mgr', s, g)
    BY <1>4, <2>1, ReferenceKeeps
  <2> QED BY <1>1, <1>3, <2>2, TryPlan
<1>7. CASE TryEncode
  <2>1. /\ mgr' = Evict(mgr, try.r, Candidate, try.embeds)
        /\ \/ Size[ItemOf(try.r, Candidate)] + try.embeds <= mgr.num_free
           \/ Size[ItemOf(try.r, Candidate)] + try.embeds <= mgr.num_freeable
    BY <1>7 DEF TryEncode, HasRoom, CanAllocate, Embeds
  <2>2. Evicts(mgr, mgr', Size[ItemOf(try.r, Candidate)] + try.embeds)
    BY <1>4, <2>1, EvictKeeps
  <2>3. /\ DOMAIN mgr'.cached \subseteq DOMAIN mgr.cached
        /\ \A s \in Requests, g \in Items : Holds(mgr, s, g) => Holds(mgr', s, g)
    BY <2>2 DEF Evicts
  <2> QED BY <1>1, <1>3, <2>3, TryPlan
<1> QED BY <1>5, <1>6, <1>7

LEMMA TryEndPlan ==
  ASSUME Inv, PlanOK, TryEnd PROVE PlanOK'
<1>1. pc = "try" /\ UNCHANGED <<mgr, computed, running, worker>>
  BY DEF TryEnd
<1>2. step \in Steps
  BY InvFacts
<1>3. /\ step'.sched = step.sched /\ step.i \in Nat /\ step'.i \in Nat /\ step.i <= step'.i
      /\ \/ pc' = "alloc" /\ try' = try /\ step' = step
         \/ pc' = "running" /\ try.from = "running"
         \/ pc' = "finish"
  BY <1>2 DEF TryEnd, Steps
<1>4. ItemsOK'
  BY <1>1, <1>3, SamePlan
<1>5. \A k \in 1 .. Len(running) : k < step.i => k < step'.i
  BY <1>3
<1>6. PlacesOK'
  <2>1. CASE pc' = "alloc" /\ try' = try /\ step' = step
    BY <1>1, <2>1 DEF PlanOK, PlacesOK, InRunning, InWaiting
  <2>2. CASE pc' = "running" /\ try.from = "running"
    BY <1>1, <1>3, <1>5, <2>2 DEF PlanOK, PlacesOK, InRunning, InWaiting
  <2>3. CASE pc' = "finish"
    BY <2>3 DEF PlacesOK, InRunning, InWaiting
  <2> QED BY <1>3, <2>1, <2>2, <2>3
<1> QED BY <1>4, <1>6 DEF PlanOK

LEMMA AllocateSlotsPlan ==
  ASSUME Inv, PlanOK, AllocateSlots PROVE PlanOK'
<1> DEFINE r == try.r
           new == [r |-> try.r, n |-> try.n, inputs |-> try.inputs]
<1>1. /\ Attempt(try, mgr) /\ r \in Requests /\ try.n \in Nat /\ try.start \in Nat
      /\ try.from \in {"running", "waiting"} /\ pc = "alloc" /\ try.left = {} /\ try.n > 0
      /\ r \in IF try.from = "running" THEN Range(running) ELSE Range(waiting)
  BY TryFacts DEF AllocateSlots, Inv, TryOK
<1>2. /\ mgr' = AllocateInputs(mgr, r, try.inputs) /\ pc' = try.from /\ worker' = worker
  BY DEF AllocateSlots
<1>3. Allocates(mgr, mgr', r, try.inputs)
  BY AllocateSlotsFacts
<1>4. /\ step'.sched = Append(step.sched, new) /\ step'.i = step.i + 1
      /\ step.i \in Nat /\ step.sched \in Seq(Entries)
  <2>1. step \in Steps
    BY InvFacts
  <2>2. step.i \in Nat /\ step.sched \in Seq(Entries)
    BY <2>1 DEF Steps
  <2>3. step'.sched = Append(step.sched, new) /\ step'.i = step.i + 1
    BY DEF AllocateSlots
  <2> QED BY <2>2, <2>3
<1>5. Range(step'.sched) = Range(step.sched) \union {new}
  <2>1. new \in Entries
    BY AllocateSlotsFacts
  <2> HIDE DEF new
  <2> QED BY <1>4, <2>1, AppendDistinct
<1>6. new.r = r /\ new.n = try.n /\ new.inputs = try.inputs
  OBVIOUS
<1> HIDE DEF new
<1>7. /\ \A e \in Range(step.sched) : computed'[e.r] = computed[e.r]
      /\ computed'[r] = try.start
  <2>1. CASE try.from = "running"
    <3>1. computed' = computed
      BY <2>1 DEF AllocateSlots
    <3>2. computed[r] = try.start
      BY <1>1, <2>1 DEF PlanOK, PlacesOK, InRunning
    <3> QED BY <3>1, <3>2
  <2>2. CASE try.from # "running"
    <3>1. computed' = [computed EXCEPT ![r] = try.start]
      BY <2>2 DEF AllocateSlots
    <3>2. \A e \in Range(step.sched) : e.r # r
      BY <1>1, <2>2, InvFacts DEF PlanOK, PlacesOK, InWaiting
    <3> QED BY <1>1, <3>1, <3>2, InvFacts
  <2> QED BY <2>1, <2>2
<1>8. SchedItems' = SchedItems \union ChosenOf(try)
  BY <1>5, <1>6 DEF SchedItems, ChosenOf
<1>9. DOMAIN mgr'.cached \subseteq worker' \union SchedItems'
  <2>1. DOMAIN mgr'.cached = DOMAIN mgr.cached \union ChosenOf(try)
    BY <1>3 DEF Allocates, ChosenOf
  <2> QED BY <1>2, <1>8, <2>1 DEF PlanOK, ItemsOK
<1>10. ASSUME NEW e \in Range(step'.sched), NEW i \in Window(e.r, computed'[e.r], e.n)
       PROVE  Holds(mgr', e.r, ItemOf(e.r, i))
  <2>1. CASE e \in Range(step.sched)
    <3>1. i \in Window(e.r, computed[e.r], e.n)
      BY <1>7, <1>10, <2>1
    <3>2. Holds(mgr, e.r, ItemOf(e.r, i))
      BY <2>1, <3>1 DEF PlanOK, ItemsOK
    <3>3. e.r \in Requests /\ ItemOf(e.r, i) \in Items
      BY <2>1, <3>1, SchedFacts
    <3> QED BY <1>3, <3>2, <3>3 DEF Allocates
  <2>2. CASE e \notin Range(step.sched)
    <3>1. e.r = r /\ i \in Window(r, try.start, try.n)
      BY <1>5, <1>6, <1>7, <1>10, <2>2
    <3>2. ItemOf(r, i) \in ChosenOf(try) \/ Holds(mgr, r, ItemOf(r, i))
      BY <1>1, <3>1 DEF Attempt
    <3>3. ItemOf(r, i) \in Items
      BY <1>1, <3>1, Constants DEF Window
    <3> QED BY <1>1, <1>3, <3>1, <3>2, <3>3 DEF Allocates, ChosenOf
  <2> QED BY <2>1, <2>2
<1>11. ItemsOK'
  BY <1>1, <1>2, <1>9, <1>10 DEF ItemsOK
<1>12. PlacesOK'
  <2>1. CASE try.from = "running"
    <3>1. running' = running /\ pc' = "running"
      BY <1>2, <2>1 DEF AllocateSlots
    <3>2. step.i <= Len(running) /\ running[step.i] = r
      BY <1>1, <2>1 DEF PlanOK, PlacesOK, InRunning
    <3>3. \A e \in Range(step.sched) : \E k \in 1 .. Len(running) : k < step.i /\ running[k] = e.r
      BY <1>1, <2>1 DEF PlanOK, PlacesOK, InRunning
    <3>4. step.i \in 1 .. Len(running) /\ step.i < step'.i
          /\ \A k \in 1 .. Len(running) : k < step.i => k < step'.i
      <4>1. step \in Steps /\ Len(running) \in Nat
        BY InvFacts, Distinct
      <4>2. step.i \in Nat \ {0}
        BY <4>1 DEF Steps
      <4> QED BY <1>4, <3>2, <4>1, <4>2
    <3>5. \A e \in Range(step'.sched) : \E k \in 1 .. Len(running) : k < step'.i /\ running[k] = e.r
      BY <1>5, <1>6, <3>2, <3>3, <3>4
    <3> QED BY <3>1, <3>5 DEF PlacesOK, InRunning, InWaiting
  <2>2. CASE try.from = "waiting"
    <3>1. running' = Append(running, r) /\ pc' = "waiting"
      BY <1>2, <2>2 DEF AllocateSlots
    <3>2. Range(running') = Range(running) \union {r}
      BY <1>1, <3>1, InvFacts, AppendDistinct
    <3>3. \A e \in Range(step.sched) : e.r \in Range(running)
      BY <1>1, <2>2 DEF PlanOK, PlacesOK, InWaiting
    <3> QED BY <1>5, <1>6, <3>1, <3>2, <3>3 DEF PlacesOK, InRunning, InWaiting
  <2> QED BY <1>1, <2>1, <2>2
<1> QED BY <1>11, <1>12 DEF PlanOK

\* The victim is the last running request: it was not scheduled in this step.
LEMMA PreemptPlan ==
  ASSUME Inv, PlanOK, Preempt, Policy = "fcfs" PROVE PlanOK'
<1> DEFINE v == Victim
           n == Len(running)
           passed == \E k \in 1 .. step.i - 1 : running[k] = v
           undone == {e \in Range(step.sched) : e.r = v}
<1>1. /\ Attempt(try, mgr) /\ try.r \in Range(running) /\ try.from = "running" /\ pc = "alloc"
      /\ try.r \in Requests
  BY TryFacts DEF Preempt
<1>2. /\ step.i <= n /\ running[step.i] = try.r /\ try.start = computed[try.r]
      /\ \A e \in Range(step.sched) : \E k \in 1 .. n : k < step.i /\ running[k] = e.r
  BY <1>1 DEF PlanOK, PlacesOK, InRunning
<1>3. /\ step.i \in Nat \ {0} /\ n \in Nat /\ n \in 1 .. n
      /\ \A j, k \in 1 .. n : running[j] = running[k] => j = k
  <2>1. step \in Steps
    BY InvFacts
  <2>2. step.i \in Nat \ {0}
    BY <2>1 DEF Steps
  <2>3. n \in Nat /\ \A j, k \in 1 .. n : running[j] = running[k] => j = k
    BY InvFacts, Distinct
  <2> QED BY <1>2, <2>2, <2>3
<1>4. v = running[n] /\ v \in Requests /\ v \in Range(running)
  <2>1. v \in Range(running)
    BY <1>1, VictimFacts
  <2> QED BY <2>1, InvFacts DEF Victim
<1>5. ~ passed /\ undone = {}
  BY <1>2, <1>3, <1>4
<1>6. /\ mgr' = Free(mgr, v) /\ computed' = [computed EXCEPT ![v] = 0]
      /\ running' = Remove(running, v) /\ worker' = worker
      /\ IF v = try.r THEN pc' = "finish" /\ try' = NoTry ELSE pc' = pc /\ try' = try
  BY DEF Preempt
<1>7. step'.sched = step.sched /\ step'.i = step.i
  <2>1. /\ passed \/ step'.i = step.i
        /\ undone = {} => step'.sched = step.sched
    BY DEF Preempt
  <2> HIDE DEF passed, undone
  <2> QED BY <1>5, <2>1
<1>8. \A e \in Range(step.sched) : e.r # v /\ e.r \in Requests
  BY <1>5, SchedFacts
<1> HIDE DEF v, passed, undone
<1>9. Frees(mgr, mgr', v, mgr.ids[v])
  BY <1>4, <1>6, InvFacts, FreeKeeps
<1>10. ItemsOK'
  <2>1. \A e \in Range(step.sched) : computed'[e.r] = computed[e.r]
    BY <1>6, <1>8, InvFacts
  <2>2. \A e \in Range(step.sched), h \in Items : Holds(mgr, e.r, h) => Holds(mgr', e.r, h)
    BY <1>8, <1>9 DEF Frees
  <2>3. DOMAIN mgr'.cached \subseteq DOMAIN mgr.cached
    BY <1>9 DEF Frees
  <2>4. pc' \notin {"idle", "pop", "update"}
    BY <1>1, <1>6
  <2> QED BY <1>1, <1>6, <1>7, <2>1, <2>2, <2>3, <2>4, SamePlan
<1>11. PlacesOK'
  <2>1. CASE v = try.r
    BY <1>6, <2>1 DEF PlacesOK, InRunning, InWaiting
  <2>2. CASE v # try.r
    <3>1. step.i \in 1 .. n - 1
      BY <1>2, <1>3, <1>4, <2>2
    <3>2. Len(running') = n - 1 /\ \A k \in 1 .. n - 1 : running'[k] = running[k]
      <4>1. running # <<>>
        BY <1>3
      <4> QED BY <1>4, <1>6, <4>1, InvFacts, RemoveLast
    <3>3. \A e \in Range(step.sched) :
            \E k \in 1 .. Len(running') : k < step.i /\ running'[k] = e.r
      <4> SUFFICES ASSUME NEW e \in Range(step.sched)
                   PROVE  \E k \in 1 .. Len(running') : k < step.i /\ running'[k] = e.r
        OBVIOUS
      <4>1. PICK k \in 1 .. n : k < step.i /\ running[k] = e.r
        BY <1>2
      <4>2. k \in 1 .. n - 1
        BY <1>3, <3>1, <4>1
      <4> QED BY <3>2, <4>1, <4>2
    <3>4. step.i <= Len(running') /\ running'[step.i] = try.r
      BY <1>2, <1>3, <3>1, <3>2
    <3>5. try.start = computed'[try.r]
      BY <1>1, <1>2, <1>6, <2>2, InvFacts
    <3>6. pc' = "alloc" /\ try' = try
      BY <1>1, <1>6, <2>2
    <3> QED BY <1>1, <1>7, <3>3, <3>4, <3>5, <3>6 DEF PlacesOK, InRunning, InWaiting
  <2> QED BY <2>1, <2>2
<1> QED BY <1>10, <1>11 DEF PlanOK

LEMMA WaitNoSlotsPlan ==
  ASSUME Inv, PlanOK, WaitNoSlots PROVE PlanOK'
<1>1. /\ pc = "alloc" /\ try.from = "waiting" /\ mgr' = Free(mgr, try.r) /\ pc' = "finish"
      /\ UNCHANGED <<running, computed, step, worker>>
  BY DEF WaitNoSlots
<1>2. try.r \in Requests /\ try.r \in Range(waiting)
  BY <1>1, TryFacts
<1>3. Frees(mgr, mgr', try.r, mgr.ids[try.r])
  BY <1>1, <1>2, InvFacts, FreeKeeps
<1>4. \A e \in Range(step.sched) : e.r # try.r /\ e.r \in Requests
  BY <1>1, <1>2, InvFacts, SchedFacts DEF PlanOK, PlacesOK, InWaiting
<1>5. \A e \in Range(step.sched), h \in Items : Holds(mgr, e.r, h) => Holds(mgr', e.r, h)
  BY <1>3, <1>4 DEF Frees
<1>6. DOMAIN mgr'.cached \subseteq DOMAIN mgr.cached
  BY <1>3 DEF Frees
<1>7. ItemsOK'
  BY <1>1, <1>5, <1>6, SamePlan
<1> QED BY <1>1, <1>7 DEF PlanOK, PlacesOK, InRunning, InWaiting

\* What the model runner holds once the step is dispatched.
LEMMA WorkerHolds ==
  ASSUME Inv, PlanOK, FinishSchedule
  PROVE  DOMAIN mgr.cached \subseteq worker'
<1>1. worker' = (worker \ FreedItems(mgr)) \union SchedItems
  BY DEF FinishSchedule, SchedItems
<1> QED BY <1>1 DEF PlanOK, ItemsOK, FreedItems

LEMMA FinishSchedulePlan ==
  ASSUME Inv, PlanOK, FinishSchedule PROVE PlanOK'
<1>1. mgr' = [mgr EXCEPT !.freed = {}] /\ step' = NoStep /\ pc' \in {"idle", "pop"}
  BY DEF FinishSchedule
<1>2. mgr'.cached = mgr.cached
  BY <1>1, InvFacts DEF Managers
<1>3. step'.sched = <<>>
  BY <1>1 DEF NoStep
<1> QED BY <1>1, <1>2, <1>3, WorkerHolds, NoPlan

\* Between steps nothing is scheduled; frees and resets cache nothing new.
LEMMA OutsidePlan ==
  ASSUME Inv, PlanOK,
         \/ PopBatch \/ UpdateFree \/ UpdateEnd \/ ResetEncoderCache
         \/ \E r \in Requests : AddRequest(r) \/ FinishRequest(r)
  PROVE  PlanOK'
<1>1. /\ pc \in {"idle", "pop", "update"} /\ pc' \in {"idle", "pop", "update"} /\ step' = step
      /\ worker' = worker \/ ResetEncoderCache
  BY DEF PopBatch, UpdateFree, UpdateEnd, ResetEncoderCache, AddRequest, FinishRequest
<1>2. step'.sched = <<>> /\ DOMAIN mgr.cached \subseteq worker
  BY <1>1, Idle
<1>3. DOMAIN mgr'.cached \subseteq worker'
  <2>1. CASE ResetEncoderCache
    <3>1. mgr' = Fresh /\ DOMAIN Fresh.cached = {}
      BY <2>1 DEF ResetEncoderCache, Fresh
    <3> QED BY <3>1
  <2>2. CASE ~ResetEncoderCache
    <3>1. CASE PopBatch \/ UpdateEnd \/ \E r \in Requests : AddRequest(r)
      <4>1. mgr' = mgr
        BY <3>1 DEF PopBatch, UpdateEnd, AddRequest
      <4> QED BY <1>1, <1>2, <2>2, <4>1
    <3>2. ASSUME NEW r \in Requests, FinishRequest(r) PROVE DOMAIN mgr'.cached = DOMAIN mgr.cached
      <4>1. mgr' = Free(mgr, r)
        BY <3>2 DEF FinishRequest
      <4> QED BY <4>1, InvFacts, FreeKeeps DEF Frees
    <3>3. CASE UpdateFree
      <4> DEFINE r == Head(todo)
      <4>1. mgr' = IF r \in Live THEN FreeInputs(mgr, r, Passed(r)) ELSE mgr
        BY <3>3 DEF UpdateFree
      <4> HIDE DEF r
      <4>2. r \in Live => r \in Requests
        BY InvFacts
      <4>3. r \in Live => Passed(r) \in SUBSET mgr.ids[r]
        BY DEF Passed
      <4>4. r \in Live => Frees(mgr, FreeInputs(mgr, r, Passed(r)), r, Passed(r))
        BY <4>2, <4>3, InvFacts, FreeInputsKeeps
      <4>5. DOMAIN mgr'.cached = DOMAIN mgr.cached
        BY <4>1, <4>4 DEF Frees
      <4> QED BY <1>1, <1>2, <2>2, <4>5
    <3> QED BY <1>1, <1>2, <2>2, <3>1, <3>2, <3>3
  <2> QED BY <2>1, <2>2
<1> QED BY <1>1, <1>2, <1>3, NoPlan

LEMMA StutterPlan ==
  ASSUME PlanOK, UNCHANGED vars PROVE PlanOK'
BY DEF vars, PlanOK, ItemsOK, PlacesOK, SchedItems, InRunning, InWaiting, Holds

LEMMA InitPlan ==
  ASSUME Init PROVE PlanOK
<1>1. pc = "idle" /\ step.sched = <<>> /\ DOMAIN mgr.cached = {}
  BY DEF Init, NoStep, Fresh
<1>2. Range(step.sched) = {}
  BY <1>1 DEF Range
<1> QED BY <1>1, <1>2 DEF PlanOK, ItemsOK, PlacesOK, InRunning, InWaiting

LEMMA NextPlan ==
  ASSUME Inv, PlanOK, [Next]_vars, Policy = "fcfs" PROVE PlanOK'
<1>1. CASE Engine
  BY <1>1, StartSchedulePlan, RunDecodePlan, RunTryPlan, RunEndPlan, WaitTryPlan, WaitEndPlan,
     TryTurnPlan, TryEndPlan, AllocateSlotsPlan, PreemptPlan, WaitNoSlotsPlan,
     FinishSchedulePlan, OutsidePlan
     DEF Engine
<1>2. CASE \E r \in Requests : AddRequest(r) \/ FinishRequest(r)
  BY <1>2, OutsidePlan
<1>3. CASE ResetEncoderCache
  BY <1>3, OutsidePlan
<1>4. CASE Quiescent \/ UNCHANGED vars
  BY <1>4, StutterPlan DEF Quiescent
<1> QED BY <1>1, <1>2, <1>3, <1>4 DEF Next

-----------------------------------------------------------------------------

\* EncoderCacheManager counts right under every interleaving of schedule(),
\* update_from_output, aborts and reset_encoder_cache, for both policies: the free
\* and freeable slots are what the cached and the referenced items leave, the
\* eviction list holds the unreferenced items once each, and an allocation never
\* overfills the cache (the asserts of allocate).
THEOREM SlotsTheorem == Spec => []SlotsExact
<1>1. Inv => SlotsExact
  BY DEF Inv, MgrOK, Slots, Used, SlotsExact
<1> QED BY <1>1, InvHolds, PTL

\* cached and request_cached_ids agree: a request is among the references of an
\* item exactly while an input of it with that item is on record, and a request
\* that is neither running nor being tried references nothing, so that finished,
\* aborted and preempted requests hold no encoder output.
THEOREM ReferencesTheorem == Spec => []ReferencesExact
<1>1. ASSUME Inv PROVE ReferencesExact
  <2>1. ASSUME NEW r \in Requests
        PROVE  {h \in DOMAIN mgr.cached : r \in mgr.cached[h]} = {ItemOf(r, i) : i \in mgr.ids[r]}
    <3>1. /\ DOMAIN mgr.cached \subseteq Items /\ mgr.ids[r] \subseteq DOMAIN Inputs[r]
          /\ \A h \in Items : Holds(mgr, r, h) <=> \E i \in mgr.ids[r] : ItemOf(r, i) = h
      BY <1>1, <2>1, InvFacts, ManagerFields DEF MgrOK, Refs
    <3>2. \A i \in mgr.ids[r] : ItemOf(r, i) \in Items
      BY <2>1, <3>1, Constants
    <3> QED BY <3>1, <3>2 DEF Holds
  <2> QED BY <1>1, <2>1 DEF Inv, IdsOK, ReferencesExact
<1> QED BY <1>1, InvHolds, PTL

\* With the first-come-first-served policy the model runner has the encoder output
\* of every input that the tokens of a dispatched step reach into: no eviction,
\* preemption, abort or reset between the choice of an input and its use makes
\* _gather_mm_embeddings raise "Encoder cache miss".
THEOREM NoMissTheorem ==
  ASSUME Policy = "fcfs"
  PROVE  Spec => NoEncoderCacheMiss
<1> DEFINE Found == pc = "finish" =>
             \A e \in Range(step.sched) : \A i \in Window(e.r, computed[e.r], e.n) :
               ItemOf(e.r, i) \in worker'
<1>1. Init => PlanOK
  BY InitPlan
<1>2. Inv /\ PlanOK /\ [Next]_vars => PlanOK'
  BY NextPlan
<1>3. Inv /\ PlanOK /\ [Next]_vars => [Found]_vars
  <2> SUFFICES ASSUME Inv, PlanOK, [Next]_vars, ~(UNCHANGED vars), pc = "finish" PROVE Found
    OBVIOUS
  <2>1. FinishSchedule
    BY DEF Next, Engine, Quiescent, StartSchedule, RunDecode, RunTry, RunEnd, WaitTry, WaitEnd,
       TryRepeated, TryCached, TryStop, TryEncode, TryEnd, AllocateSlots, Preempt, WaitNoSlots,
       PopBatch, UpdateFree, UpdateEnd, AddRequest, FinishRequest, ResetEncoderCache,
       InRunningLoop, Trial, Missing
  <2>2. DOMAIN mgr.cached \subseteq worker'
    BY <2>1, WorkerHolds
  <2> QED BY <2>2 DEF PlanOK, ItemsOK, Holds
<1>4. NoEncoderCacheMiss <=> [][Found]_vars
  BY DEF NoEncoderCacheMiss
<1> HIDE DEF Found
<1> QED BY <1>1, <1>2, <1>3, <1>4, InvHolds, PTL DEF Spec

=============================================================================
