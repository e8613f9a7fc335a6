----------------------- MODULE MultiprocExecutorProofs -----------------------
(***************************************************************************)
(* Responses and calls match until a future has ended in an exception, for *)
(* every number of workers, of calls and of chunks, and all faults.        *)
(*                                                                         *)
(* The responses of a worker, those in its response queue followed by      *)
(* those its output thread still has, answer its calls in increasing       *)
(* order; none is left of a call that has been drained, and none is        *)
(* missing of a call before one that is there.  So when a call is drained  *)
(* and a response is there, the first one is its own.                      *)
(***************************************************************************)
EXTENDS MultiprocExecutor, TLAPS

-----------------------------------------------------------------------------
(* Increasing sequences: the futures in their queue, the responses in theirs. *)

\* s lists the members of S in increasing order.
Lists(s, S) ==
  /\ s \in Seq(Nat)
  /\ \A i, j \in 1 .. Len(s) : i < j => s[i] < s[j]
  /\ \A k \in S : \E i \in 1 .. Len(s) : s[i] = k
  /\ \A i \in 1 .. Len(s) : s[i] \in S

\* A list that gets a number larger than all that are in it.
LEMMA ListsAppend ==
  ASSUME NEW s, NEW S, Lists(s, S), NEW m \in Nat, \A k \in S : k < m
  PROVE  Lists(Append(s, m), S \union {m})
<1>1. /\ Append(s, m) \in Seq(Nat)
      /\ Len(Append(s, m)) = Len(s) + 1 /\ Len(s) \in Nat
      /\ \A i \in 1 .. Len(s) : Append(s, m)[i] = s[i]
      /\ Append(s, m)[Len(s) + 1] = m
  BY DEF Lists
<1> DEFINE t == Append(s, m)
<1> HIDE DEF t
<1>2. ASSUME NEW i \in 1 .. Len(t), NEW j \in 1 .. Len(t), i < j PROVE t[i] < t[j]
  <2>1. i \in 1 .. Len(s) /\ t[i] = s[i] /\ s[i] \in S
    BY <1>1, <1>2 DEF t, Lists
  <2>2. CASE j = Len(s) + 1
    BY <1>1, <2>1, <2>2 DEF t
  <2>3. CASE j # Len(s) + 1
    BY <1>1, <1>2, <2>1, <2>3 DEF t, Lists
  <2> QED BY <2>2, <2>3
<1>3. ASSUME NEW k \in S \union {m} PROVE \E i \in 1 .. Len(t) : t[i] = k
  <2>1. CASE k \in S
    <3>1. PICK i \in 1 .. Len(s) : s[i] = k
      BY <2>1 DEF Lists
    <3>2. i \in 1 .. Len(t) /\ t[i] = k
      BY <1>1, <3>1 DEF t
    <3> QED BY <3>2
  <2>2. CASE k = m
    <3>1. Len(s) + 1 \in 1 .. Len(t) /\ t[Len(s) + 1] = k
      BY <1>1, <2>2 DEF t
    <3> QED BY <3>1
  <2> QED BY <1>3, <2>1, <2>2
<1>4. ASSUME NEW i \in 1 .. Len(t) PROVE t[i] \in S \union {m}
  BY <1>1 DEF t, Lists
<1> QED BY <1>1, <1>2, <1>3, <1>4 DEF Lists, t

\* A list that loses its first number: it is the smallest.
LEMMA ListsTail ==
  ASSUME NEW s, NEW S, Lists(s, S), s # <<>>
  PROVE  /\ Head(s) \in S /\ Head(s) \in Nat
         /\ \A k \in S : Head(s) <= k
         /\ Lists(Tail(s), S \ {Head(s)})
<1>1. /\ Len(s) \in Nat /\ Len(s) >= 1 /\ Head(s) = s[1] /\ 1 \in 1 .. Len(s)
      /\ Tail(s) \in Seq(Nat)
      /\ Len(Tail(s)) = Len(s) - 1
      /\ \A i \in 1 .. Len(s) - 1 : Tail(s)[i] = s[i + 1]
  BY DEF Lists
<1> DEFINE t == Tail(s)
<1> HIDE DEF t
<1>2. \A i \in 1 .. Len(s) : s[i] \in Nat
  BY <1>1 DEF Lists
<1>3. ASSUME NEW i \in 1 .. Len(t)
      PROVE  i + 1 \in 1 .. Len(s) /\ t[i] = s[i + 1] /\ s[i + 1] > s[1]
  <2>1. i + 1 \in 1 .. Len(s) /\ t[i] = s[i + 1]
    BY <1>1 DEF t
  <2> QED BY <1>1, <1>2, <2>1 DEF Lists
<1>4. ASSUME NEW k \in S PROVE Head(s) <= k
  <2>1. PICK i \in 1 .. Len(s) : s[i] = k
    BY DEF Lists
  <2> QED BY <1>1, <1>2, <2>1 DEF Lists
<1>5. ASSUME NEW i \in 1 .. Len(t), NEW j \in 1 .. Len(t), i < j PROVE t[i] < t[j]
  BY <1>1, <1>3, <1>5 DEF Lists
<1>6. ASSUME NEW k \in S \ {Head(s)} PROVE \E i \in 1 .. Len(t) : t[i] = k
  <2>1. PICK i \in 1 .. Len(s) : s[i] = k
    BY DEF Lists
  <2>2. i - 1 \in 1 .. Len(t) /\ t[i - 1] = k
    BY <1>1, <2>1 DEF t
  <2> QED BY <2>2
<1>7. ASSUME NEW i \in 1 .. Len(t) PROVE t[i] \in S \ {Head(s)}
  BY <1>1, <1>2, <1>3 DEF Lists
<1> QED BY <1>1, <1>2, <1>4, <1>5, <1>6, <1>7 DEF Lists, t

-----------------------------------------------------------------------------
(* The inductive invariant. *)

\* The workers get the calls in order and execute each before the next.
QueueInv ==
  /\ sent \in 0 .. MaxMessages
  /\ published \in 0 .. sent
  /\ taken \in [Workers -> Nat] /\ got \in [Workers -> Nat] /\ last = got
  /\ \A w \in Workers : /\ executed[w] <= got[w] /\ got[w] <= executed[w] + 1
                        /\ got[w] <= taken[w] /\ taken[w] <= published

\* The calls whose futures are in futures_queue.
Queued == {c \in 1 .. sent : calls[c].state \in {"pending", "empty"} /\ c # drain.call}

\* The futures are queued in the order of the calls, and drained in it.
EngineInv ==
  /\ Len(calls) = sent
  /\ Lists(futures, Queued)
  /\ epc = "enqueue" => sent >= 1 /\ calls[sent].state = "sent"
  /\ epc = "result" => drain.target \in 1 .. sent /\ calls[drain.target].state # "sent"
  /\ drain.call # 0 =>
       /\ epc = "result"
       /\ drain.call \in 1 .. sent /\ calls[drain.call].state = "pending"
       /\ FirstRank(drain.call) <= drain.rank /\ drain.rank <= LastRank(drain.call)
       /\ \A c \in 1 .. drain.call - 1 : calls[c].state \in {"done", "error"}
  /\ \A c \in 1 .. sent :
       /\ calls[c].state = "sent" => c = sent /\ (epc = "enqueue" \/ monitor = "down")
       /\ calls[c].state = "empty" => c = sent /\ monitor = "down"

CallsOf(s) == [i \in 1 .. Len(s) |-> s[i].call]
CallSet(s) == {s[i].call : i \in 1 .. Len(s)}

\* The calls with a response of w in one of its queues.
Answered(w) == CallSet(resp[w]) \union CallSet(outq[w])

\* The responses of a worker are those of executed calls, in order; its output
\* thread has some only with AsyncScheduling.
ResponsesInv ==
  \A w \in Workers :
    /\ Lists(CallsOf(resp[w]), CallSet(resp[w]))
    /\ Lists(CallsOf(outq[w]), CallSet(outq[w]))
    /\ \A b \in CallSet(resp[w]), c \in CallSet(outq[w]) : b < c
    /\ \A c \in Answered(w) : c \in 1 .. executed[w] /\ Responds(w, c)
    /\ AsyncScheduling \/ CallSet(outq[w]) = {}

NoError == \A c \in 1 .. sent : calls[c].state # "error"

\* get_response still has to take w's response to call c.
Due(w, c) ==
  /\ Responds(w, c)
  /\ calls[c].state # "done"
  /\ drain.call = c => w >= drain.rank

\* The calls with a response of w that get_response has not taken, or that w
\* has yet to execute.
Awaited(w) == Answered(w) \union {c \in 1 .. sent : c > executed[w] /\ Responds(w, c)}

\* No response is left over, or comes after its call has been drained, and none
\* is missing before one that is there.
MatchInv ==
  \A w \in Workers :
    /\ \A c \in Awaited(w) : /\ calls[c].state = "done" => c = sent /\ monitor = "down"
                             /\ drain.call = c => w >= drain.rank
    /\ \A c \in Answered(w) : \A b \in 1 .. c : Due(w, b) => b \in Answered(w)
    /\ alive[w] => \A c \in 1 .. executed[w] : Due(w, c) => c \in Answered(w)

IInv == TypeOK /\ QueueInv /\ EngineInv /\ ResponsesInv /\ (NoError => MatchInv)

-----------------------------------------------------------------------------
(* Queues of responses. *)

\* The workers are numbered from 0.
LEMMA Ranks ==
  /\ Cardinality(Workers) \in Nat /\ Cardinality(Workers) >= 1
  /\ Workers = 0 .. Cardinality(Workers) - 1
  /\ 0 \in Workers /\ OutputRank \in Workers /\ MaxMessages \in Nat
<1>1. Workers = Local
  BY ExecutorAssumption DEF Workers, Readers
<1>2. Cardinality(Workers) \in Nat
  BY <1>1, ExecutorAssumption
<1>3. Workers = 0 .. Cardinality(Workers) - 1 /\ Workers # {}
  BY <1>1, ExecutorAssumption
<1> QED BY <1>1, <1>2, <1>3, ExecutorAssumption

\* A queue that gets the response to a call after all those that are in it.
LEMMA ResponseAppend ==
  ASSUME NEW s \in Seq(Response), NEW m \in Response,
         Lists(CallsOf(s), CallSet(s)), \A c \in CallSet(s) : c < m.call
  PROVE  /\ Append(s, m) \in Seq(Response)
         /\ CallSet(Append(s, m)) = CallSet(s) \union {m.call}
         /\ Lists(CallsOf(Append(s, m)), CallSet(Append(s, m)))
<1>1. /\ Append(s, m) \in Seq(Response)
      /\ Len(Append(s, m)) = Len(s) + 1 /\ Len(s) \in Nat
      /\ \A i \in 1 .. Len(s) : Append(s, m)[i] = s[i]
      /\ Append(s, m)[Len(s) + 1] = m
  OBVIOUS
<1> DEFINE t == Append(s, m)
<1> HIDE DEF t
<1>2. m.call \in Nat
  BY Ranks DEF Response
<1>3. CallSet(t) = CallSet(s) \union {m.call}
  <2>1. ASSUME NEW c \in CallSet(t) PROVE c \in CallSet(s) \union {m.call}
    BY <1>1 DEF CallSet, t
  <2>2. ASSUME NEW c \in CallSet(s) PROVE c \in CallSet(t)
    <3>1. PICK i \in 1 .. Len(s) : c = s[i].call
      BY DEF CallSet
    <3>2. i \in 1 .. Len(t) /\ t[i].call = c
      BY <1>1, <3>1 DEF t
    <3> QED BY <3>2 DEF CallSet
  <2>3. m.call \in CallSet(t)
    <3>1. Len(s) + 1 \in 1 .. Len(t) /\ t[Len(s) + 1].call = m.call
      BY <1>1 DEF t
    <3> QED BY <3>1 DEF CallSet
  <2> QED BY <2>1, <2>2, <2>3
<1>4. CallsOf(t) = Append(CallsOf(s), m.call)
  <2>1. CallsOf(s) \in Seq(Nat) /\ Len(CallsOf(s)) = Len(s)
    BY <1>1 DEF CallsOf, Lists
  <2>2. /\ Append(CallsOf(s), m.call) \in Seq(Nat)
        /\ Len(Append(CallsOf(s), m.call)) = Len(s) + 1
        /\ \A i \in 1 .. Len(s) : Append(CallsOf(s), m.call)[i] = CallsOf(s)[i]
        /\ Append(CallsOf(s), m.call)[Len(s) + 1] = m.call
    BY <1>1, <1>2, <2>1
  <2>3. \A i \in 1 .. Len(s) + 1 : Append(CallsOf(s), m.call)[i] = t[i].call
    BY <1>1, <2>2 DEF t, CallsOf
  <2>4. Append(CallsOf(s), m.call) = [i \in 1 .. Len(s) + 1 |-> Append(CallsOf(s), m.call)[i]]
    BY <2>2
  <2> QED BY <1>1, <2>3, <2>4 DEF CallsOf, t
<1>5. Lists(CallsOf(t), CallSet(t))
  BY <1>2, <1>3, <1>4, ListsAppend
<1> QED BY <1>1, <1>3, <1>5 DEF t

\* A queue that loses its first response: it is that of the first call.
LEMMA ResponseTail ==
  ASSUME NEW s \in Seq(Response), s # <<>>, Lists(CallsOf(s), CallSet(s))
  PROVE  /\ Head(s) \in Response /\ Tail(s) \in Seq(Response)
         /\ Head(s).call \in CallSet(s)
         /\ \A c \in CallSet(s) : Head(s).call <= c
         /\ CallSet(Tail(s)) = CallSet(s) \ {Head(s).call}
         /\ Lists(CallsOf(Tail(s)), CallSet(Tail(s)))
<1>1. /\ Len(s) \in Nat /\ Len(s) >= 1 /\ Head(s) = s[1] /\ s[1] \in Response
      /\ Tail(s) \in Seq(Response) /\ Len(Tail(s)) = Len(s) - 1
      /\ \A i \in 1 .. Len(s) - 1 : Tail(s)[i] = s[i + 1]
  OBVIOUS
<1> DEFINE t == Tail(s)
           q == CallsOf(s)
<1>2. q \in Seq(Nat) /\ Len(q) = Len(s) /\ q # <<>> /\ Head(q) = s[1].call
  <2>1. q \in Seq(Nat) /\ Len(q) = Len(s)
    BY <1>1 DEF CallsOf, Lists
  <2> QED BY <1>1, <2>1 DEF CallsOf
<1> DEFINE u == Tail(q)
<1>3. CallsOf(t) = u /\ Len(u) = Len(s) - 1
  <2>1. /\ u \in Seq(Nat) /\ Len(u) = Len(s) - 1
        /\ \A i \in 1 .. Len(s) - 1 : u[i] = q[i + 1]
    <3> HIDE DEF q
    <3> QED BY <1>1, <1>2
  <2>2. \A i \in 1 .. Len(s) - 1 : u[i] = t[i].call
    BY <1>1, <2>1 DEF CallsOf
  <2>3. Len(t) = Len(s) - 1
    BY <1>1
  <2> HIDE DEF u, t
  <2>4. u = [i \in 1 .. Len(s) - 1 |-> u[i]]
    BY <2>1
  <2> QED BY <2>1, <2>2, <2>3, <2>4 DEF CallsOf
<1>4. /\ Head(s).call \in CallSet(s)
      /\ \A c \in CallSet(s) : Head(s).call <= c
      /\ Lists(CallsOf(t), CallSet(s) \ {Head(s).call})
  <2> HIDE DEF q
  <2>1. Lists(q, CallSet(s))
    BY DEF q
  <2> QED BY <1>1, <1>2, <1>3, <2>1, ListsTail
<1>5. CallSet(t) = CallSet(s) \ {Head(s).call}
  <2> DEFINE S == CallSet(s) \ {Head(s).call}
  <2>1. \A i \in 1 .. Len(t) : CallsOf(t)[i] = t[i].call
    BY DEF CallsOf
  <2>2. Len(CallsOf(t)) = Len(t)
    <3>1. Len(t) = Len(s) - 1
      BY <1>1
    <3> HIDE DEF u, t
    <3> QED BY <1>3, <3>1
  <2>3. CallSet(t) = {CallsOf(t)[i] : i \in 1 .. Len(t)}
    BY <2>1 DEF CallSet
  <2> HIDE DEF t, S
  <2>4. \A c \in S : c \in CallSet(t)
    BY <1>4, <2>2, <2>3 DEF Lists, S
  <2>5. \A c \in CallSet(t) : c \in S
    BY <1>4, <2>2, <2>3 DEF Lists, S
  <2> QED BY <2>4, <2>5 DEF S
<1> QED BY <1>1, <1>4, <1>5

-----------------------------------------------------------------------------
(* The initial state, and what a step leaves alone. *)

LEMMA InitInv == Init => IInv
<1> SUFFICES ASSUME Init PROVE IInv
  OBVIOUS
<1>1. TypeOK
  BY Ranks DEF Init, QInit, TypeOK, NoDrain
<1>2. QueueInv
  BY Ranks DEF Init, QInit, QueueInv, Workers
<1>3. EngineInv
  <2>1. Queued = {}
    BY DEF Init, QInit, Queued
  <2>2. Lists(futures, Queued)
    BY <2>1 DEF Init, Lists
  <2> QED BY <2>2 DEF Init, QInit, EngineInv, NoDrain
<1>4. \A w \in Workers : /\ CallSet(resp[w]) = {} /\ CallSet(outq[w]) = {}
                         /\ CallsOf(resp[w]) = <<>> /\ CallsOf(outq[w]) = <<>>
  BY DEF Init, CallSet, CallsOf
<1>5. ResponsesInv
  <2>1. Lists(<<>>, {})
    BY DEF Lists
  <2> QED BY <1>4, <2>1 DEF ResponsesInv, Answered
<1>6. MatchInv
  <2>1. \A w \in Workers : Answered(w) = {} /\ Awaited(w) = {}
    BY <1>4 DEF Init, QInit, Answered, Awaited
  <2> QED BY <2>1 DEF Init, MatchInv
<1> QED BY <1>1, <1>2, <1>3, <1>5, <1>6 DEF IInv

LEMMA EngineFrame ==
  ASSUME EngineInv, UNCHANGED <<sent, calls, futures, drain, epc>>,
         monitor = "down" => monitor' = "down"
  PROVE  EngineInv'
<1>1. Queued' = Queued
  BY DEF Queued
<1> QED BY <1>1 DEF EngineInv, FirstRank, LastRank, Lists

LEMMA ResponsesFrame ==
  ASSUME ResponsesInv, UNCHANGED <<calls, executed, outq, resp>>
  PROVE  ResponsesInv'
<1>1. \A w \in Workers : resp'[w] = resp[w] /\ outq'[w] = outq[w]
  OBVIOUS
<1>2. /\ \A w \in Workers : Answered(w)' = Answered(w)
      /\ \A w, c : Responds(w, c)' = Responds(w, c)
  BY DEF Answered, Responds
<1> QED BY <1>1, <1>2 DEF ResponsesInv

LEMMA MatchFrame ==
  ASSUME NoError => MatchInv, UNCHANGED <<sent, calls, drain, executed, outq, resp>>,
         monitor = "down" => monitor' = "down",
         \A w \in Workers : alive'[w] => alive[w]
  PROVE  (NoError => MatchInv)'
<1>1. NoError' = NoError
  BY DEF NoError
<1>2. /\ \A w \in Workers : Answered(w)' = Answered(w) /\ Awaited(w)' = Awaited(w)
      /\ \A w, c : Due(w, c)' = Due(w, c)
  BY DEF Answered, Awaited, Due, Responds
<1> QED BY <1>1, <1>2 DEF MatchInv

\* A worker executes calls that have been made.
LEMMA ExecutedRange ==
  ASSUME IInv, NEW w \in Workers
  PROVE  /\ sent \in Nat /\ executed[w] \in Nat /\ executed[w] <= sent
         /\ \A c \in Answered(w) : c \in 1 .. executed[w] /\ c \in 1 .. sent
         /\ \A c \in Awaited(w) : c \in 1 .. sent
<1>1. /\ executed[w] \in Nat /\ got[w] \in Nat /\ taken[w] \in Nat /\ sent \in Nat
      /\ published \in 0 .. sent
  BY ExecutorAssumption DEF IInv, TypeOK, QueueInv
<1>2. executed[w] <= got[w] /\ got[w] <= taken[w] /\ taken[w] <= published
  BY DEF IInv, QueueInv
<1>3. executed[w] <= sent
  BY <1>1, <1>2
<1>4. \A c \in Answered(w) : c \in 1 .. executed[w]
  BY DEF IInv, ResponsesInv
<1> QED BY <1>1, <1>3, <1>4 DEF Awaited

\* Calls are made and change state; their responses stay where they are.
LEMMA ResponsesCalls ==
  ASSUME IInv, UNCHANGED <<executed, outq, resp>>,
         \A c \in 1 .. sent : calls'[c].reply = calls[c].reply
  PROVE  ResponsesInv'
<1>1. ASSUME NEW w \in Workers
      PROVE  /\ resp'[w] = resp[w] /\ outq'[w] = outq[w] /\ executed'[w] = executed[w]
             /\ Answered(w)' = Answered(w)
             /\ \A c \in Answered(w) : Responds(w, c)' = Responds(w, c)
  BY ExecutedRange DEF Answered, Responds
<1> QED BY <1>1 DEF IInv, ResponsesInv

\* Calls are made and change state, and no response is taken.
LEMMA MatchCalls ==
  ASSUME IInv, UNCHANGED <<executed, outq, resp, alive, monitor>>,
         sent' \in Nat, sent <= sent', sent' = sent \/ monitor # "down",
         \A c \in 1 .. sent :
           /\ calls'[c].reply = calls[c].reply
           /\ calls[c].state = "error" => calls'[c].state = "error"
           /\ calls[c].state = "done" => calls'[c].state = "done"
           /\ calls'[c].state = "done" =>
                calls[c].state = "done" \/ (c = sent /\ monitor = "down"),
         \A c \in 1 .. sent' : c > sent => calls'[c].state # "done" /\ drain'.call # c,
         drain.call = 0,
         drain'.call # 0 => \A w \in Workers : Responds(w, drain'.call) => w >= drain'.rank
  PROVE  (NoError => MatchInv)'
<1> SUFFICES ASSUME NoError' PROVE MatchInv'
  OBVIOUS
<1>0. sent \in Nat
  BY ExecutorAssumption DEF IInv, QueueInv
<1>1. NoError
  BY <1>0 DEF NoError
<1>2. MatchInv
  BY <1>1 DEF IInv
<1> SUFFICES ASSUME NEW w \in Workers
             PROVE  /\ \A c \in Awaited(w)' :
                         /\ calls'[c].state = "done" => c = sent' /\ monitor' = "down"
                         /\ drain'.call = c => w >= drain'.rank
                    /\ \A c \in Answered(w)' : \A b \in 1 .. c :
                         Due(w, b)' => b \in Answered(w)'
                    /\ alive'[w] => \A c \in 1 .. executed'[w] :
                         Due(w, c)' => c \in Answered(w)'
  BY DEF MatchInv
<1>3. Answered(w)' = Answered(w)
  BY DEF Answered
<1>4. \A c \in 1 .. sent : Due(w, c)' => Due(w, c)
  BY DEF Due, Responds
<1>5. ASSUME NEW c \in Awaited(w)', c \in 1 .. sent
      PROVE  c \in Awaited(w) /\ Responds(w, c)
  <2>1. CASE c \in Answered(w)
    BY <2>1 DEF IInv, ResponsesInv, Awaited
  <2>2. CASE c \notin Answered(w)
    BY <1>3, <1>5, <2>2 DEF Awaited, Responds
  <2> QED BY <2>1, <2>2
<1>6. ASSUME NEW c \in Awaited(w)'
      PROVE  /\ calls'[c].state = "done" => c = sent' /\ monitor' = "down"
             /\ drain'.call = c => w >= drain'.rank
  <2>1. c \in 1 .. sent'
    BY <1>0, <1>3, ExecutedRange DEF Awaited
  <2>2. CASE c \in 1 .. sent
    BY <1>0, <1>2, <1>5, <2>2 DEF MatchInv
  <2>3. CASE c \notin 1 .. sent
    BY <1>0, <2>1, <2>3
  <2> QED BY <2>2, <2>3
<1>7. ASSUME NEW c \in Answered(w), NEW b \in 1 .. c, Due(w, b)' PROVE b \in Answered(w)
  <2>1. b \in 1 .. sent
    BY <1>0, ExecutedRange
  <2> QED BY <1>2, <1>4, <1>7, <2>1 DEF MatchInv
<1>8. ASSUME alive[w], NEW c \in 1 .. executed[w], Due(w, c)' PROVE c \in Answered(w)
  <2>1. c \in 1 .. sent
    BY <1>0, ExecutedRange
  <2> QED BY <1>2, <1>4, <1>8, <2>1 DEF MatchInv
<1> QED BY <1>3, <1>6, <1>7, <1>8

-----------------------------------------------------------------------------
(* Steps that leave the calls, the futures and the responses alone. *)

LEMMA PublishStep ==
  ASSUME IInv, Publish, UNCHANGED exVars
  PROVE  IInv'
<1>1. TypeOK'
  BY DEF IInv, TypeOK, exVars
<1>2. QueueInv'
  <2>1. executed \in [Workers -> Nat] /\ executed' = executed /\ MaxMessages \in Nat
    BY ExecutorAssumption DEF IInv, TypeOK, exVars
  <2> QED BY <2>1 DEF IInv, QueueInv, Publish
<1>3. EngineInv'
  BY EngineFrame DEF IInv, Publish, exVars
<1>4. ResponsesInv'
  BY ResponsesFrame DEF IInv, exVars
<1>5. (NoError => MatchInv)'
  BY MatchFrame DEF IInv, Publish, exVars
<1> QED BY <1>1, <1>2, <1>3, <1>4, <1>5 DEF IInv

LEMMA WorkerDequeueStep ==
  ASSUME IInv, NEW w \in Workers, WorkerDequeue(w)
  PROVE  IInv'
<1>0. UNCHANGED exVars /\ UNCHANGED <<sent, published>>
  BY DEF WorkerDequeue, Receive, Take, Deliver
<1>1. TypeOK'
  BY <1>0 DEF IInv, TypeOK, exVars
<1>2. QueueInv'
  <2>0. /\ executed \in [Workers -> Nat] /\ executed' = executed /\ MaxMessages \in Nat
        /\ executed[w] = got[w] /\ QueueInv
    BY <1>0, ExecutorAssumption DEF IInv, TypeOK, exVars, WorkerDequeue
  <2>1. CASE Receive(w)
    BY <1>0, <2>0, <2>1 DEF QueueInv, Receive, Returned
  <2>2. CASE Take(w)
    BY <1>0, <2>0, <2>2 DEF QueueInv, Take
  <2>3. CASE Deliver(w)
    BY <1>0, <2>0, <2>3 DEF QueueInv, Deliver, Returned
  <2> QED BY <2>1, <2>2, <2>3 DEF WorkerDequeue
<1>3. EngineInv'
  BY <1>0, EngineFrame DEF IInv, exVars
<1>4. ResponsesInv'
  BY <1>0, ResponsesFrame DEF IInv, exVars
<1>5. (NoError => MatchInv)'
  BY <1>0, MatchFrame DEF IInv, exVars
<1> QED BY <1>1, <1>2, <1>3, <1>4, <1>5 DEF IInv

LEMMA ShutdownStep ==
  ASSUME IInv, StartShutdown \/ EndShutdown
  PROVE  IInv'
<1>0. /\ UNCHANGED <<queue, epc, calls, futures, drain, executed, outq, resp, alive>>
      /\ monitor # "down" /\ monitor' \in {"stop", "down"} /\ death' \in {death, Workers}
  BY DEF StartShutdown, EndShutdown
<1>1. TypeOK'
  BY <1>0 DEF IInv, TypeOK
<1>2. QueueInv'
  BY <1>0 DEF IInv, QueueInv, queue
<1>3. EngineInv'
  BY <1>0, EngineFrame DEF IInv, queue
<1>4. ResponsesInv'
  BY <1>0, ResponsesFrame DEF IInv
<1>5. (NoError => MatchInv)'
  BY <1>0, MatchFrame DEF IInv, queue
<1> QED BY <1>1, <1>2, <1>3, <1>4, <1>5 DEF IInv

\* The engine's thread becomes idle or ends, without a future being drained.
LEMMA EngineIdleStep ==
  ASSUME IInv, InitExecutor \/ ExecutorFailed
  PROVE  IInv'
<1>0. /\ UNCHANGED <<sent, published, taken, got, last>>
      /\ UNCHANGED <<calls, futures, drain, executed, outq, resp, alive, monitor, death>>
      /\ epc \in {"boot", "idle"} /\ epc' \in {"idle", "dead"}
  BY DEF InitExecutor, ExecutorFailed, Start, queue
<1>1. TypeOK'
  BY <1>0 DEF IInv, TypeOK
<1>2. QueueInv'
  BY <1>0 DEF IInv, QueueInv
<1>3. EngineInv'
  <2>1. Queued' = Queued
    BY <1>0 DEF Queued
  <2> QED BY <1>0, <2>1 DEF IInv, EngineInv, FirstRank, LastRank, Lists
<1>4. ResponsesInv'
  BY <1>0, ResponsesFrame DEF IInv
<1>5. (NoError => MatchInv)'
  BY <1>0, MatchFrame DEF IInv
<1> QED BY <1>1, <1>2, <1>3, <1>4, <1>5 DEF IInv

LEMMA ResultStep ==
  ASSUME IInv, NEW c \in 1 .. MaxMessages, Result(c)
  PROVE  IInv'
<1>0. /\ UNCHANGED <<sent, published, taken, got, last>>
      /\ UNCHANGED <<calls, futures, executed, outq, resp, alive, monitor, death>>
      /\ epc = "idle" /\ epc' = "result"
      /\ drain' = [target |-> c, call |-> 0, rank |-> 0]
      /\ c \in 1 .. sent /\ calls[c].state # "sent"
      /\ drain.call = 0
  BY DEF Result, queue, NoDrain, IInv, EngineInv, TypeOK
<1>1. TypeOK'
  <2>1. drain' \in [target : 0 .. MaxMessages, call : 0 .. MaxMessages, rank : Workers]
    BY <1>0, Ranks
  <2> QED BY <1>0, <2>1 DEF IInv, TypeOK
<1>2. QueueInv'
  BY <1>0 DEF IInv, QueueInv
<1>3. EngineInv'
  <2>1. Queued' = Queued
    BY <1>0 DEF Queued
  <2> QED BY <1>0, <2>1 DEF IInv, EngineInv, Lists
<1>4. ResponsesInv'
  BY <1>0, ResponsesFrame DEF IInv
<1>5. (NoError => MatchInv)'
  <2>1. sent \in Nat /\ drain'.call = 0
    BY <1>0, ExecutorAssumption DEF IInv, QueueInv
  <2> QED BY <1>0, <2>1, MatchCalls
<1> QED BY <1>1, <1>2, <1>3, <1>4, <1>5 DEF IInv

-----------------------------------------------------------------------------
(* The engine's thread makes calls and collects the responses. *)

CallRecord == [reply : Replies, held : BOOLEAN,
               state : {"sent", "pending", "empty", "done", "error"}]

LEMMA CallsType == IInv => calls \in Seq(CallRecord) /\ Len(calls) = sent /\ sent \in Nat
BY ExecutorAssumption DEF IInv, TypeOK, EngineInv, QueueInv, CallRecord

\* The state of one call changes.
LEMMA StateChange ==
  ASSUME IInv, NEW n \in 1 .. sent, NEW st \in {"sent", "pending", "empty", "done", "error"},
         calls' = [calls EXCEPT ![n].state = st]
  PROVE  /\ calls' \in Seq(CallRecord) /\ Len(calls') = sent
         /\ calls'[n].state = st
         /\ \A c \in 1 .. sent : /\ calls'[c].reply = calls[c].reply
                                 /\ c # n => calls'[c] = calls[c]
<1>1. calls \in Seq(CallRecord) /\ Len(calls) = sent
  BY CallsType
<1>2. calls[n] \in CallRecord
  BY <1>1
<1> DEFINE m == [calls[n] EXCEPT !.state = st]
<1>3. m \in CallRecord /\ m.state = st /\ m.reply = calls[n].reply
  BY <1>2 DEF CallRecord
<1>4. calls' = [calls EXCEPT ![n] = m]
  OBVIOUS
<1> HIDE DEF m
<1>5. calls' \in Seq(CallRecord) /\ Len(calls') = sent
  BY <1>1, <1>3, <1>4
<1>6. calls'[n] = m /\ \A c \in 1 .. sent : c # n => calls'[c] = calls[c]
  BY <1>1, <1>4
<1> QED BY <1>3, <1>5, <1>6

LEMMA CollectiveRpcStep ==
  ASSUME IInv, NEW reply \in Replies, NEW non_block \in NonBlock,
         CollectiveRpc(reply, non_block)
  PROVE  IInv'
<1> DEFINE m == [reply |-> reply, state |-> "sent", held |-> non_block]
<1>0. /\ sent' = sent + 1 /\ sent < MaxMessages /\ MaxMessages \in Nat
      /\ UNCHANGED <<published, taken, got, last>>
      /\ UNCHANGED <<futures, drain, executed, outq, resp, alive, monitor, death>>
      /\ epc = "idle" /\ epc' = "enqueue" /\ monitor = "watch"
      /\ calls' = Append(calls, m)
  BY ExecutorAssumption DEF CollectiveRpc, Send, is_failed
<1>1. m \in CallRecord
  BY ExecutorAssumption DEF CallRecord
<1>2. drain.call = 0
  BY <1>0 DEF IInv, EngineInv
<1>3. /\ calls' \in Seq(CallRecord) /\ Len(calls') = sent' /\ sent \in Nat
      /\ calls'[sent + 1] = m
      /\ \A c \in 1 .. sent : calls'[c] = calls[c]
  <2> HIDE DEF m
  <2> QED BY <1>0, <1>1, CallsType
<1>4. TypeOK'
  BY <1>0, <1>3 DEF IInv, TypeOK, CallRecord
<1>5. QueueInv'
  BY <1>0 DEF IInv, QueueInv
<1>6. EngineInv'
  <2>1. calls'[sent'].state = "sent"
    BY <1>0, <1>3
  <2>2. \A c \in 1 .. sent : calls[c].state \notin {"sent", "empty"}
    BY <1>0 DEF IInv, EngineInv
  <2>3. Queued' = Queued
    BY <1>0, <1>2, <1>3, <2>1 DEF Queued
  <2>4. Lists(futures, Queued)'
    BY <1>0, <2>3 DEF IInv, EngineInv
  <2>5. \A c \in 1 .. sent' : /\ calls'[c].state = "sent" => c = sent'
                              /\ calls'[c].state # "empty"
    BY <1>0, <1>3, <2>1, <2>2
  <2> QED BY <1>0, <1>2, <1>3, <2>1, <2>4, <2>5 DEF EngineInv
<1>7. ResponsesInv'
  BY <1>0, <1>3, ResponsesCalls
<1>8. (NoError => MatchInv)'
  <2>1. \A c \in 1 .. sent' : c > sent => calls'[c].state # "done" /\ drain'.call # c
    BY <1>0, <1>2, <1>3
  <2> QED BY <1>0, <1>2, <1>3, <2>1, MatchCalls
<1> QED BY <1>4, <1>5, <1>6, <1>7, <1>8 DEF IInv

LEMMA SubmitStep ==
  ASSUME IInv, Submit
  PROVE  IInv'
<1>0. /\ UNCHANGED <<sent, published, taken, got, last>>
      /\ UNCHANGED <<executed, outq, resp, alive, monitor, death>>
      /\ epc = "enqueue" /\ sent \in Nat /\ sent >= 1 /\ calls[sent].state = "sent"
      /\ drain.call = 0 /\ sent <= MaxMessages /\ MaxMessages \in Nat
  BY ExecutorAssumption DEF Submit, Return, IInv, EngineInv, QueueInv
<1>1. QueueInv'
  BY <1>0 DEF IInv, QueueInv
<1>2. CASE monitor # "down" \/ calls[sent].reply = All
  <2> DEFINE st == IF monitor = "down" THEN "empty" ELSE "pending"
  <2>1. /\ futures' = Append(futures, sent)
        /\ calls' = [calls EXCEPT ![sent].state = st]
        /\ \/ epc' = "idle" /\ drain' = NoDrain
           \/ epc' = "result" /\ drain' = [NoDrain EXCEPT !.target = sent]
    BY <1>2 DEF Submit
  <2>2. st \in {"pending", "empty"} /\ (st = "empty" => monitor = "down")
    OBVIOUS
  <2> HIDE DEF st
  <2>3. /\ calls' \in Seq(CallRecord) /\ Len(calls') = sent
        /\ calls'[sent].state = st
        /\ \A c \in 1 .. sent : calls'[c].reply = calls[c].reply /\ (c # sent => calls'[c] = calls[c])
    <3>1. sent \in 1 .. sent
      BY <1>0
    <3> QED BY <2>1, <2>2, <3>1, StateChange
  <2>4. drain'.call = 0 /\ (epc' = "result" => drain'.target = sent)
    BY <2>1 DEF NoDrain
  <2>5. TypeOK'
    <3>1. drain' \in [target : 0 .. MaxMessages, call : 0 .. MaxMessages, rank : Workers]
      BY <1>0, <2>1, Ranks DEF NoDrain
    <3>2. futures' \in Seq(1 .. MaxMessages)
      BY <1>0, <2>1 DEF IInv, TypeOK
    <3> QED BY <1>0, <2>1, <2>3, <3>1, <3>2 DEF IInv, TypeOK, CallRecord
  <2>6. EngineInv'
    <3>1. Queued' = Queued \union {sent}
      BY <1>0, <2>2, <2>3, <2>4 DEF Queued
    <3>2. \A c \in Queued : c < sent
      BY <1>0 DEF Queued
    <3>3. Lists(futures, Queued)
      BY DEF IInv, EngineInv
    <3>4. Lists(futures, Queued)'
      BY <1>0, <2>1, <3>1, <3>2, <3>3, ListsAppend
    <3>5. \A c \in 1 .. sent : /\ calls'[c].state # "sent"
                               /\ calls'[c].state = "empty" => c = sent /\ monitor = "down"
      BY <1>0, <2>2, <2>3 DEF IInv, EngineInv
    <3> QED BY <1>0, <2>1, <2>2, <2>3, <2>4, <3>4, <3>5 DEF EngineInv
  <2>7. ResponsesInv'
    BY <1>0, <2>3, ResponsesCalls
  <2>8. (NoError => MatchInv)'
    <3>1. \A c \in 1 .. sent :
            /\ calls[c].state = "error" => calls'[c].state = "error"
            /\ calls[c].state = "done" <=> calls'[c].state = "done"
      BY <1>0, <2>2, <2>3
    <3> QED BY <1>0, <2>3, <2>4, <3>1, MatchCalls
  <2> QED BY <1>1, <2>5, <2>6, <2>7, <2>8 DEF IInv
<1>3. CASE ~(monitor # "down" \/ calls[sent].reply = All)
  <2>1. UNCHANGED <<futures, calls, drain>> /\ epc' \in {"idle", "dead"} /\ monitor = "down"
    BY <1>3 DEF Submit, AfterError
  <2>2. TypeOK'
    BY <1>0, <2>1 DEF IInv, TypeOK
  <2>3. EngineInv'
    <3>1. Queued' = Queued
      BY <1>0, <2>1 DEF Queued
    <3> QED BY <1>0, <2>1, <3>1 DEF IInv, EngineInv, FirstRank, LastRank, Lists
  <2>4. ResponsesInv'
    BY <1>0, <2>1, ResponsesFrame DEF IInv
  <2>5. (NoError => MatchInv)'
    BY <1>0, <2>1, MatchFrame DEF IInv
  <2> QED BY <1>1, <2>2, <2>3, <2>4, <2>5 DEF IInv
<1> QED BY <1>2, <1>3

\* The ranks that get_response reads are those that respond.
LEMMA RankRange ==
  ASSUME IInv, NEW c \in 1 .. sent
  PROVE  /\ FirstRank(c) \in Workers /\ FirstRank(c) <= LastRank(c)
         /\ \A w \in Workers : Responds(w, c) <=> FirstRank(c) <= w /\ w <= LastRank(c)
<1>1. calls[c] \in CallRecord
  BY CallsType
<1>2. calls[c].reply = OutputRank \/ calls[c].reply = -1
  BY <1>1 DEF CallRecord, Replies, All
<1>3. CASE calls[c].reply = -1
  BY <1>3, Ranks DEF FirstRank, LastRank, Responds, All
<1>4. CASE calls[c].reply = OutputRank
  <2>1. OutputRank \in Nat /\ OutputRank \in Workers /\ \A w \in Workers : w \in Nat
    BY Ranks
  <2>2. FirstRank(c) = OutputRank /\ LastRank(c) = OutputRank
    BY <1>4, <2>1 DEF FirstRank, LastRank, All
  <2>3. \A w \in Workers : Responds(w, c) <=> OutputRank = w
    BY <1>4, <2>1 DEF Responds, All
  <2> QED BY <2>1, <2>2, <2>3
<1> QED BY <1>2, <1>3, <1>4

LEMMA PopFutureStep ==
  ASSUME IInv, PopFuture
  PROVE  IInv'
<1> DEFINE c == Head(futures)
<1>0. /\ UNCHANGED queue
      /\ UNCHANGED <<epc, executed, outq, resp, alive, monitor, death>>
      /\ epc = "result" /\ drain.call = 0 /\ sent \in Nat
      /\ calls[drain.target].state \in {"pending", "empty"} /\ drain.target \in 1 .. sent
      /\ futures' = Tail(futures) /\ Lists(futures, Queued)
  BY CallsType DEF PopFuture, Oldest, IInv, EngineInv
<1>1. futures # <<>>
  <2>1. drain.target \in Queued
    BY <1>0 DEF Queued
  <2>2. \E i \in 1 .. Len(futures) : futures[i] = drain.target
    BY <1>0, <2>1 DEF Lists
  <2> QED BY <2>2
<1>2. /\ c \in Queued /\ \A k \in Queued : c <= k
      /\ Lists(futures', Queued \ {c})
  BY <1>0, <1>1, ListsTail
<1>3. IF calls[c].state = "empty"
        THEN calls' = [calls EXCEPT ![c].state = "done"] /\ drain' = drain
        ELSE drain' = [drain EXCEPT !.call = c, !.rank = FirstRank(c)] /\ calls' = calls
  BY DEF PopFuture, Oldest
<1>4. c \in 1 .. sent /\ calls[c].state \in {"pending", "empty"}
  BY <1>2 DEF Queued
<1>5. QueueInv'
  BY <1>0 DEF IInv, QueueInv, queue
<1>6. futures' \in Seq(1 .. MaxMessages)
  BY <1>0, <1>1 DEF IInv, TypeOK
<1> HIDE DEF c
<1>7. sent' = sent /\ drain \in [target : 0 .. MaxMessages, call : 0 .. MaxMessages, rank : Workers]
  BY <1>0 DEF queue, IInv, TypeOK
<1>8. CASE calls[c].state = "empty"
  <2>1. calls' = [calls EXCEPT ![c].state = "done"] /\ drain' = drain
    BY <1>3, <1>8
  <2>2. /\ calls' \in Seq(CallRecord) /\ Len(calls') = sent
        /\ calls'[c].state = "done"
        /\ \A b \in 1 .. sent : calls'[b].reply = calls[b].reply /\ (b # c => calls'[b] = calls[b])
    BY <1>4, <2>1, StateChange
  <2>3. c = sent /\ monitor = "down"
    BY <1>4, <1>8 DEF IInv, EngineInv
  <2>4. TypeOK'
    BY <1>0, <1>6, <2>1, <2>2 DEF IInv, TypeOK, CallRecord
  <2>5. EngineInv'
    <3>1. Queued' = Queued \ {c}
      BY <1>0, <1>7, <2>1, <2>2 DEF Queued
    <3>2. Lists(futures, Queued)'
      BY <1>2, <3>1
    <3>3. drain'.target = drain.target /\ calls'[drain.target].state # "sent"
      BY <1>0, <2>1, <2>2
    <3>4. \A b \in 1 .. sent : /\ calls'[b].state = "sent" => calls[b].state = "sent"
                               /\ calls'[b].state = "empty" => calls[b].state = "empty"
      BY <2>2
    <3> QED BY <1>0, <1>7, <2>1, <2>2, <3>2, <3>3, <3>4 DEF IInv, EngineInv
  <2>6. ResponsesInv'
    BY <1>0, <2>2, ResponsesCalls
  <2>7. (NoError => MatchInv)'
    <3>1. \A b \in 1 .. sent :
            /\ calls[b].state = "error" => calls'[b].state = "error"
            /\ calls[b].state = "done" => calls'[b].state = "done"
            /\ calls'[b].state = "done" =>
                 calls[b].state = "done" \/ (b = sent /\ monitor = "down")
      BY <1>8, <2>2, <2>3
    <3> QED BY <1>0, <1>7, <2>1, <2>2, <3>1, MatchCalls
  <2> QED BY <1>5, <2>4, <2>5, <2>6, <2>7 DEF IInv
<1>9. CASE calls[c].state # "empty"
  <2>1. drain' = [drain EXCEPT !.call = c, !.rank = FirstRank(c)] /\ calls' = calls
    BY <1>3, <1>9
  <2>2. drain'.call = c /\ drain'.rank = FirstRank(c) /\ drain'.target = drain.target
    BY <1>7, <2>1
  <2>3. /\ FirstRank(c) \in Workers /\ FirstRank(c) <= LastRank(c)
        /\ \A w \in Workers : Responds(w, c) => w >= FirstRank(c)
    BY <1>4, RankRange, Ranks
  <2>4. TypeOK'
    <3>1. drain' \in [target : 0 .. MaxMessages, call : 0 .. MaxMessages, rank : Workers]
      <4>1. c \in 0 .. MaxMessages
        BY <1>0, <1>4, ExecutorAssumption DEF IInv, QueueInv
      <4> QED BY <1>7, <2>1, <2>3, <4>1
    <3> QED BY <1>0, <1>6, <2>1, <3>1 DEF IInv, TypeOK
  <2>5. EngineInv'
    <3>1. Queued' = Queued \ {c}
      BY <1>0, <1>4, <1>7, <2>1, <2>2 DEF Queued
    <3>2. Lists(futures, Queued)'
      BY <1>2, <3>1
    <3>3. ASSUME NEW b \in 1 .. c - 1 PROVE calls[b].state \in {"done", "error"}
      <4>1. b \in 1 .. sent /\ b < c /\ c <= sent
        BY <1>0, <1>4
      <4>2. b \notin Queued
        BY <1>0, <1>2, <1>4, <4>1
      <4>3. calls[b].state \notin {"pending", "empty"}
        BY <1>0, <4>1, <4>2 DEF Queued
      <4>4. calls[b].state # "sent"
        BY <1>0, <1>4, <4>1 DEF IInv, EngineInv
      <4>5. calls[b] \in CallRecord
        BY <4>1, CallsType
      <4> QED BY <4>3, <4>4, <4>5 DEF CallRecord
    <3>4. epc' = "result" /\ calls'[drain'.target].state # "sent"
      BY <1>0, <2>1, <2>2
    <3>5. calls[c].state = "pending"
      BY <1>4, <1>9
    <3>6. /\ FirstRank(drain.call)' <= drain'.rank /\ drain'.rank <= LastRank(drain.call)'
      <4>1. FirstRank(drain.call)' = FirstRank(c) /\ LastRank(drain.call)' = LastRank(c)
        BY <2>1, <2>2 DEF FirstRank, LastRank
      <4>2. FirstRank(c) \in Int
        BY <2>3, Ranks
      <4> QED BY <2>2, <2>3, <4>1, <4>2
    <3> QED BY <1>0, <1>4, <1>7, <2>1, <2>2, <3>2, <3>3, <3>4, <3>5, <3>6 DEF IInv, EngineInv
  <2>6. ResponsesInv'
    BY <1>0, <2>1, ResponsesFrame DEF IInv
  <2>7. (NoError => MatchInv)'
    BY <1>0, <1>7, <2>1, <2>2, <2>3, MatchCalls
  <2> QED BY <1>5, <2>4, <2>5, <2>6, <2>7 DEF IInv
<1> QED BY <1>8, <1>9

LEMMA ResultReturnsStep ==
  ASSUME IInv, ResultReturns
  PROVE  IInv'
<1>0. /\ UNCHANGED queue
      /\ UNCHANGED <<futures, executed, outq, resp, alive, monitor, death>>
      /\ epc = "result" /\ epc' \in {"idle", "dead"} /\ sent \in Nat /\ sent' = sent
      /\ drain.call = 0 /\ drain.target \in 1 .. sent
      /\ drain' = [target |-> 0, call |-> 0, rank |-> 0]
      /\ calls' = [calls EXCEPT ![drain.target].held = FALSE]
  BY CallsType DEF ResultReturns, AfterError, NoDrain, queue, IInv, EngineInv
<1>1. /\ calls' \in Seq(CallRecord) /\ Len(calls') = sent
      /\ \A c \in 1 .. sent : calls'[c].reply = calls[c].reply /\ calls'[c].state = calls[c].state
  <2> DEFINE n == drain.target
             m == [calls[n] EXCEPT !.held = FALSE]
  <2>1. calls \in Seq(CallRecord) /\ Len(calls) = sent
    BY CallsType
  <2>2. calls[n] \in CallRecord
    BY <1>0, <2>1
  <2>3. m \in CallRecord /\ m.state = calls[n].state /\ m.reply = calls[n].reply
    BY <2>2 DEF CallRecord
  <2>4. calls' = [calls EXCEPT ![n] = m]
    BY <1>0
  <2> HIDE DEF m
  <2> QED BY <1>0, <2>1, <2>3, <2>4
<1>2. TypeOK'
  <2>1. drain' \in [target : 0 .. MaxMessages, call : 0 .. MaxMessages, rank : Workers]
    BY <1>0, Ranks
  <2> QED BY <1>0, <1>1, <2>1 DEF IInv, TypeOK, CallRecord
<1>3. QueueInv'
  BY <1>0 DEF IInv, QueueInv, queue
<1>4. EngineInv'
  <2>1. Queued' = Queued
    BY <1>0, <1>1 DEF Queued
  <2>2. Lists(futures, Queued)'
    BY <1>0, <2>1 DEF IInv, EngineInv
  <2> QED BY <1>0, <1>1, <2>2 DEF IInv, EngineInv
<1>5. ResponsesInv'
  BY <1>0, <1>1, ResponsesCalls
<1>6. (NoError => MatchInv)'
  BY <1>0, <1>1, MatchCalls
<1> QED BY <1>2, <1>3, <1>4, <1>5, <1>6 DEF IInv

-----------------------------------------------------------------------------
(* Responses are taken. *)

\* The invariant implies the property: the first response that is there answers
\* the call being drained, since no earlier one is left and its own is not missing.
LEMMA FirstResponse ==
  ASSUME IInv, NoError, drain.call # 0, resp[drain.rank] # <<>>
  PROVE  Head(resp[drain.rank]).call = drain.call
<1> DEFINE k == drain.rank
           c == drain.call
           h == Head(resp[k]).call
<1>0. /\ k \in Workers /\ k \in Nat /\ c \in 1 .. sent /\ calls[c].state = "pending"
      /\ \A b \in 1 .. c - 1 : calls[b].state \in {"done", "error"}
      /\ FirstRank(c) <= k /\ k <= LastRank(c)
      /\ sent \in Nat
  <2>1. k \in Workers
    BY DEF IInv, TypeOK
  <2>2. k \in Nat
    BY <2>1, Ranks
  <2> QED BY <2>1, <2>2, CallsType DEF IInv, EngineInv
<1>1. resp[k] \in Seq(Response) /\ Lists(CallsOf(resp[k]), CallSet(resp[k])) /\ MatchInv
  BY <1>0 DEF IInv, TypeOK, ResponsesInv
<1>2. h \in CallSet(resp[k]) /\ \A b \in CallSet(resp[k]) : h <= b
  BY <1>1, ResponseTail
<1> HIDE DEF k, c, h
<1>3. h \in Answered(k) /\ h \in Awaited(k) /\ h \in 1 .. sent
  <2>1. h \in Answered(k) /\ h \in Awaited(k)
    BY <1>2 DEF Answered, Awaited
  <2> QED BY <1>0, <2>1, ExecutedRange
<1>4. Responds(k, c)
  BY <1>0, RankRange
<1>5. ~ (h < c)
  <2> SUFFICES ASSUME h < c PROVE FALSE
    OBVIOUS
  <2>1. calls[h].state = "done"
    BY <1>0, <1>3 DEF NoError
  <2>2. h = sent
    BY <1>0, <1>1, <1>3, <2>1 DEF MatchInv
  <2> QED BY <1>0, <2>2
<1>6. ~ (h > c)
  <2> SUFFICES ASSUME h > c PROVE FALSE
    OBVIOUS
  <2>1. Due(k, c)
    BY <1>0, <1>4 DEF Due, k, c
  <2>2. c \in Answered(k)
    BY <1>0, <1>1, <1>3, <2>1 DEF MatchInv
  <2>3. c \in CallSet(resp[k]) => h <= c
    BY <1>2
  <2>4. c \in CallSet(outq[k]) => h < c
    BY <1>0, <1>2 DEF IInv, ResponsesInv
  <2> QED BY <1>0, <1>3, <2>2, <2>3, <2>4 DEF Answered
<1> QED BY <1>0, <1>3, <1>5, <1>6 DEF k, c, h

\* The drained call is settled: the futures keep their order.
LEMMA SettleEngine ==
  ASSUME IInv, NEW st \in {"done", "error"}, epc = "result", drain.call # 0,
         Settle(st), UNCHANGED <<sent, epc, futures, monitor>>
  PROVE  /\ EngineInv'
         /\ calls' \in Seq(CallRecord)
         /\ calls'[drain.call].state = st
         /\ \A c \in 1 .. sent : /\ calls'[c].reply = calls[c].reply
                                 /\ c # drain.call => calls'[c] = calls[c]
         /\ drain' \in [target : 0 .. MaxMessages, call : 0 .. MaxMessages, rank : Workers]
         /\ drain'.call = 0
<1>0. /\ drain.call \in 1 .. sent /\ calls[drain.call].state = "pending"
      /\ drain \in [target : 0 .. MaxMessages, call : 0 .. MaxMessages, rank : Workers]
      /\ drain.target \in 1 .. sent /\ calls[drain.target].state # "sent"
  BY DEF IInv, TypeOK, EngineInv
<1>1. /\ drain' \in [target : 0 .. MaxMessages, call : 0 .. MaxMessages, rank : Workers]
      /\ drain'.call = 0 /\ drain'.target = drain.target
  <2>1. 0 \in Workers /\ 0 \in 0 .. MaxMessages
    BY Ranks
  <2> QED BY <1>0, <2>1 DEF Settle
<1>2. /\ calls' \in Seq(CallRecord) /\ Len(calls') = sent
      /\ calls'[drain.call].state = st
      /\ \A c \in 1 .. sent : /\ calls'[c].reply = calls[c].reply
                              /\ c # drain.call => calls'[c] = calls[c]
  BY <1>0, StateChange DEF Settle
<1>3. EngineInv'
  <2>1. Queued' = Queued
    <3>1. \A c \in 1 .. sent : c # drain.call =>
            /\ calls'[c].state = calls[c].state /\ c # drain'.call
      BY <1>1, <1>2
    <3>2. calls'[drain.call].state \notin {"pending", "empty"}
      BY <1>2
    <3>3. Queued' = {c \in 1 .. sent : calls'[c].state \in {"pending", "empty"}
                                         /\ c # drain'.call}
      BY DEF Queued
    <3> QED BY <3>1, <3>2, <3>3 DEF Queued
  <2>2. Lists(futures, Queued)'
    BY <2>1 DEF IInv, EngineInv
  <2>3. \A c \in 1 .. sent : /\ calls'[c].state = "sent" => calls[c].state = "sent"
                             /\ calls'[c].state = "empty" => calls[c].state = "empty"
    BY <1>2
  <2>4. calls'[drain.target].state # "sent"
    BY <1>0, <2>3
  <2> QED BY <1>0, <1>1, <1>2, <2>2, <2>3, <2>4 DEF IInv, EngineInv
<1> QED BY <1>1, <1>2, <1>3

LEMMA ResponseRaisesStep ==
  ASSUME IInv, ResponseRaises
  PROVE  IInv'
<1>0. /\ UNCHANGED <<sent, published, taken, got, last>>
      /\ UNCHANGED <<epc, futures, executed, outq, resp, alive, monitor, death>>
      /\ epc = "result" /\ drain.call # 0 /\ Settle("error") /\ drain.call \in 1 .. sent
  BY DEF ResponseRaises, queue, IInv, EngineInv
<1>1. /\ EngineInv'
      /\ calls' \in Seq(CallRecord)
      /\ calls'[drain.call].state = "error"
      /\ \A c \in 1 .. sent : calls'[c].reply = calls[c].reply
      /\ drain' \in [target : 0 .. MaxMessages, call : 0 .. MaxMessages, rank : Workers]
  BY <1>0, SettleEngine
<1>2. TypeOK'
  BY <1>0, <1>1 DEF IInv, TypeOK, CallRecord
<1>3. QueueInv'
  BY <1>0 DEF IInv, QueueInv
<1>4. ResponsesInv'
  BY <1>0, <1>1, ResponsesCalls
<1>5. ~ NoError'
  BY <1>0, <1>1 DEF NoError
<1> QED BY <1>1, <1>2, <1>3, <1>4, <1>5 DEF IInv

LEMMA GetResponseStep ==
  ASSUME IInv, GetResponse
  PROVE  IInv'
<1> DEFINE k == drain.rank
           c == drain.call
           m == Head(resp[k])
<1>0. /\ UNCHANGED <<sent, published, taken, got, last>>
      /\ UNCHANGED <<epc, futures, executed, outq, alive, monitor, death>>
      /\ epc = "result" /\ c # 0 /\ c \in 1 .. sent /\ calls[c].state = "pending"
      /\ resp[k] # <<>> /\ resp' = [resp EXCEPT ![k] = Tail(resp[k])] /\ k \in Workers
      /\ drain \in [target : 0 .. MaxMessages, call : 0 .. MaxMessages, rank : Workers]
  BY DEF GetResponse, queue, IInv, TypeOK, EngineInv
<1>1. \/ m.failure /\ Settle("error")
      \/ ~m.failure /\ k = LastRank(c) /\ Settle("done")
      \/ ~m.failure /\ k # LastRank(c) /\ drain' = [drain EXCEPT !.rank = k + 1] /\ calls' = calls
  BY DEF GetResponse
<1>2. /\ resp \in [Workers -> Seq(Response)]
      /\ resp[k] \in Seq(Response) /\ Lists(CallsOf(resp[k]), CallSet(resp[k]))
  BY <1>0 DEF IInv, TypeOK, ResponsesInv
<1>3. /\ Tail(resp[k]) \in Seq(Response)
      /\ m.call \in CallSet(resp[k])
      /\ CallSet(Tail(resp[k])) = CallSet(resp[k]) \ {m.call}
      /\ Lists(CallsOf(Tail(resp[k])), CallSet(Tail(resp[k])))
  BY <1>0, <1>2, ResponseTail
<1>4. /\ resp' \in [Workers -> Seq(Response)]
      /\ resp'[k] = Tail(resp[k])
      /\ \A w \in Workers : w # k => resp'[w] = resp[w]
  BY <1>0, <1>2, <1>3
<1>5. QueueInv'
  BY <1>0 DEF IInv, QueueInv
<1> HIDE DEF k, c, m
\* The response leaves the queue of rank k, and only that one.
<1>6. \A w \in Workers :
        Answered(w)' = IF w = k THEN Answered(w) \ {m.call} ELSE Answered(w)
  <2>1. \A b \in CallSet(outq[k]) : m.call < b
    BY <1>0, <1>3 DEF IInv, ResponsesInv
  <2>2. m.call \in Nat
    <3>1. m.call \in Answered(k)
      BY <1>3 DEF Answered
    <3> QED BY <1>0, <3>1, ExecutedRange
  <2>3. m.call \notin CallSet(outq[k])
    BY <2>1, <2>2
  <2>4. \A w \in Workers : Answered(w)' = CallSet(resp'[w]) \union CallSet(outq[w])
    BY <1>0 DEF Answered
  <2> QED BY <1>3, <1>4, <2>3, <2>4 DEF Answered
<1>7. ASSUME \A b \in 1 .. sent : calls'[b].reply = calls[b].reply
      PROVE  ResponsesInv'
  <2> SUFFICES ASSUME NEW w \in Workers
               PROVE  /\ Lists(CallsOf(resp'[w]), CallSet(resp'[w]))
                      /\ Lists(CallsOf(outq'[w]), CallSet(outq'[w]))
                      /\ \A a \in CallSet(resp'[w]), b \in CallSet(outq'[w]) : a < b
                      /\ \A b \in Answered(w)' : b \in 1 .. executed'[w] /\ Responds(w, b)'
                      /\ AsyncScheduling \/ CallSet(outq'[w]) = {}
    BY DEF ResponsesInv
  <2>1. CallSet(resp'[w]) \subseteq CallSet(resp[w]) /\ Lists(CallsOf(resp'[w]), CallSet(resp'[w]))
    BY <1>3, <1>4 DEF IInv, ResponsesInv
  <2>2. Answered(w)' \subseteq Answered(w)
    BY <1>6
  <2>3. \A b \in Answered(w) : /\ b \in 1 .. sent /\ b \in 1 .. executed[w] /\ Responds(w, b)
                               /\ Responds(w, b)' = Responds(w, b)
    BY <1>7, ExecutedRange DEF IInv, ResponsesInv, Responds
  <2> QED BY <1>0, <2>1, <2>2, <2>3 DEF IInv, ResponsesInv
<1>8. CASE m.failure /\ Settle("error")
  <2>1. /\ EngineInv' /\ calls' \in Seq(CallRecord)
        /\ calls'[c].state = "error"
        /\ \A b \in 1 .. sent : calls'[b].reply = calls[b].reply
        /\ drain' \in [target : 0 .. MaxMessages, call : 0 .. MaxMessages, rank : Workers]
    BY <1>0, <1>8, SettleEngine DEF c
  <2>2. TypeOK'
    BY <1>0, <1>4, <2>1 DEF IInv, TypeOK, CallRecord
  <2>3. ~ NoError'
    BY <1>0, <2>1 DEF NoError
  <2> QED BY <1>5, <1>7, <2>1, <2>2, <2>3 DEF IInv
<1>9. CASE ~m.failure /\ k = LastRank(c) /\ Settle("done")
  <2>1. /\ EngineInv' /\ calls' \in Seq(CallRecord)
        /\ calls'[c].state = "done"
        /\ \A b \in 1 .. sent : calls'[b].reply = calls[b].reply /\ (b # c => calls'[b] = calls[b])
        /\ drain' \in [target : 0 .. MaxMessages, call : 0 .. MaxMessages, rank : Workers]
        /\ drain'.call = 0
    BY <1>0, <1>9, SettleEngine DEF c
  <2>2. TypeOK'
    BY <1>0, <1>4, <2>1 DEF IInv, TypeOK, CallRecord
  <2>3. ResponsesInv'
    BY <1>7, <2>1
  <2>4. ASSUME NoError' PROVE MatchInv'
    <3>1. NoError
      BY <1>0, <2>1, <2>4 DEF NoError
    <3>2. m.call = c /\ MatchInv
      BY <1>0, <3>1, FirstResponse DEF IInv, m, c, k
    <3> SUFFICES ASSUME NEW w \in Workers
                 PROVE  /\ \A b \in Awaited(w)' :
                             /\ calls'[b].state = "done" => b = sent' /\ monitor' = "down"
                             /\ drain'.call = b => w >= drain'.rank
                        /\ \A a \in Answered(w)' : \A b \in 1 .. a :
                             Due(w, b)' => b \in Answered(w)'
                        /\ alive'[w] => \A b \in 1 .. executed'[w] :
                             Due(w, b)' => b \in Answered(w)'
      BY DEF MatchInv
    <3>3. /\ Answered(w)' \subseteq Answered(w)
          /\ \A b \in Answered(w) : b # c => b \in Answered(w)'
          /\ w = k => c \notin Answered(w)'
      BY <1>6, <3>2
    <3>4. \A b \in 1 .. sent : Responds(w, b)' = Responds(w, b)
      BY <2>1 DEF Responds
    <3>5. \A b \in Awaited(w)' : b \in Awaited(w)
      BY <1>0, <3>3, <3>4 DEF Awaited
    <3>6. \A b \in 1 .. sent : Due(w, b)' => Due(w, b) /\ b # c
      BY <2>1, <3>4 DEF Due, c
    \* The last rank has been read: no other rank has a response to c left.
    <3>7. c \notin Awaited(w)'
      <4> SUFFICES ASSUME c \in Awaited(w)' PROVE FALSE
        OBVIOUS
      <4>1. c \in Awaited(w) /\ w >= k
        BY <3>2, <3>5 DEF MatchInv, c, k
      <4>2. Responds(w, c)
        BY <4>1 DEF Awaited, IInv, ResponsesInv
      <4>3. w <= k
        BY <1>0, <1>9, <4>2, RankRange
      <4>4. w = k
        BY <1>0, <4>1, <4>3, Ranks
      <4>5. c \in Answered(k)
        BY <1>3, <3>2 DEF Answered
      <4>6. c <= executed[w] /\ executed[w] \in Nat /\ c \in Nat
        BY <1>0, <4>4, <4>5, ExecutedRange
      <4> QED BY <1>0, <3>3, <4>4, <4>6 DEF Awaited
    <3>8. \A b \in Awaited(w)' : /\ calls'[b].state = "done" => b = sent' /\ monitor' = "down"
                                 /\ drain'.call # b
      <4> SUFFICES ASSUME NEW b \in Awaited(w)'
                   PROVE  /\ calls'[b].state = "done" => b = sent' /\ monitor' = "down"
                          /\ drain'.call # b
        OBVIOUS
      <4>1. b \in Awaited(w) /\ b # c
        BY <3>5, <3>7
      <4>2. b \in 1 .. sent
        BY <4>1, ExecutedRange
      <4>3. calls[b].state = "done" => b = sent /\ monitor = "down"
        BY <3>2, <4>1 DEF MatchInv
      <4>4. calls'[b] = calls[b] /\ drain'.call = 0 /\ b # 0
        BY <2>1, <4>1, <4>2
      <4>5. sent' = sent /\ monitor' = monitor
        BY <1>0
      <4> QED BY <4>3, <4>4, <4>5
    <3>9. ASSUME NEW a \in Answered(w), NEW b \in 1 .. a, Due(w, b)' PROVE b \in Answered(w)'
      <4>1. b \in 1 .. sent
        BY ExecutedRange
      <4> QED BY <3>2, <3>3, <3>6, <3>9, <4>1 DEF MatchInv
    <3>10. ASSUME alive[w], NEW b \in 1 .. executed[w], Due(w, b)' PROVE b \in Answered(w)'
      <4>1. b \in 1 .. sent
        BY ExecutedRange
      <4> QED BY <3>2, <3>3, <3>6, <3>10, <4>1 DEF MatchInv
    <3> QED BY <1>0, <3>3, <3>8, <3>9, <3>10
  <2> QED BY <1>5, <2>1, <2>2, <2>3, <2>4 DEF IInv
<1>10. CASE ~m.failure /\ k # LastRank(c) /\ drain' = [drain EXCEPT !.rank = k + 1] /\ calls' = calls
  <2>1. /\ FirstRank(c) <= k /\ k <= LastRank(c) /\ k \in Nat /\ LastRank(c) \in Nat
        /\ k + 1 \in Workers
    <3>1. FirstRank(c) <= k /\ k <= LastRank(c)
      BY <1>0 DEF IInv, EngineInv, c, k
    <3>2. calls[c] \in CallRecord
      BY <1>0, CallsType
    <3>3. calls[c].reply = OutputRank \/ calls[c].reply = -1
      BY <3>2 DEF CallRecord, Replies, All
    <3>4. calls[c].reply = -1 /\ LastRank(c) = Cardinality(Workers) - 1
      BY <1>0, <1>10, <3>1, <3>3, Ranks DEF FirstRank, LastRank, All
    <3>5. k \in Nat /\ Cardinality(Workers) \in Nat /\ Cardinality(Workers) >= 1
      BY <1>0, Ranks
    <3>6. k + 1 \in 0 .. Cardinality(Workers) - 1
      BY <1>10, <3>1, <3>4, <3>5
    <3>7. k + 1 \in Workers
      BY <3>6, Ranks
    <3> QED BY <3>1, <3>4, <3>5, <3>7
  <2>2. /\ drain'.call = c /\ drain'.rank = k + 1 /\ drain'.target = drain.target
        /\ drain' \in [target : 0 .. MaxMessages, call : 0 .. MaxMessages, rank : Workers]
    BY <1>0, <1>10, <2>1 DEF c
  <2>3. TypeOK'
    BY <1>0, <1>4, <1>10, <2>2 DEF IInv, TypeOK
  <2>4. EngineInv'
    <3>1. Queued' = Queued
      BY <1>0, <1>10, <2>2 DEF Queued, c
    <3>2. Lists(futures, Queued)'
      BY <1>0, <3>1 DEF IInv, EngineInv
    <3>3. FirstRank(drain.call)' = FirstRank(c) /\ LastRank(drain.call)' = LastRank(c)
      BY <1>10, <2>2 DEF FirstRank, LastRank
    <3>4. FirstRank(drain.call)' <= drain'.rank /\ drain'.rank <= LastRank(drain.call)'
      <4>1. FirstRank(c) \in Nat
        BY <1>0, RankRange, Ranks
      <4> QED BY <1>10, <2>1, <2>2, <3>3, <4>1
    <3>5. drain.call = c
      BY DEF c
    <3> QED BY <1>0, <1>10, <2>2, <3>2, <3>4, <3>5 DEF IInv, EngineInv
  <2>5. ResponsesInv'
    BY <1>7, <1>10
  <2>6. ASSUME NoError' PROVE MatchInv'
    <3>1. NoError
      BY <1>0, <1>10, <2>6 DEF NoError
    <3>2. m.call = c /\ MatchInv
      BY <1>0, <3>1, FirstResponse DEF IInv, m, c, k
    <3> SUFFICES ASSUME NEW w \in Workers
                 PROVE  /\ \A b \in Awaited(w)' :
                             /\ calls'[b].state = "done" => b = sent' /\ monitor' = "down"
                             /\ drain'.call = b => w >= drain'.rank
                        /\ \A a \in Answered(w)' : \A b \in 1 .. a :
                             Due(w, b)' => b \in Answered(w)'
                        /\ alive'[w] => \A b \in 1 .. executed'[w] :
                             Due(w, b)' => b \in Answered(w)'
      BY DEF MatchInv
    <3>3. /\ Answered(w)' \subseteq Answered(w)
          /\ \A b \in Answered(w) : b # c => b \in Answered(w)'
          /\ w = k => c \notin Answered(w)'
          /\ w \in Nat
      BY <1>6, <3>2, Ranks
    <3>4. \A b : Responds(w, b)' = Responds(w, b)
      BY <1>10 DEF Responds
    <3>5. \A b \in Awaited(w)' : b \in Awaited(w)
      BY <1>0, <3>3, <3>4 DEF Awaited
    <3>6. \A b : Due(w, b)' => Due(w, b) /\ (w = k => b # c)
      BY <1>10, <2>1, <2>2, <3>3, <3>4 DEF Due, c, k
    <3>7. c \in Awaited(w)' => w >= k + 1
      <4> SUFFICES ASSUME c \in Awaited(w)' PROVE w >= k + 1
        OBVIOUS
      <4>1. w >= k
        BY <3>2, <3>5 DEF MatchInv, c, k
      <4>2. CASE w = k
        <5>1. c \in Answered(k)
          BY <1>3, <3>2 DEF Answered
        <5>2. c <= executed[w] /\ executed[w] \in Nat /\ c \in Nat
          BY <1>0, <4>2, <5>1, ExecutedRange
        <5> QED BY <1>0, <3>3, <4>2, <5>2 DEF Awaited
      <4> QED BY <2>1, <3>3, <4>1, <4>2
    <3>8. \A b \in Awaited(w)' : /\ calls'[b].state = "done" => b = sent' /\ monitor' = "down"
                                 /\ drain'.call = b => w >= drain'.rank
      BY <1>0, <1>10, <2>2, <3>2, <3>5, <3>7 DEF MatchInv
    <3>9. ASSUME NEW a \in Answered(w), NEW b \in 1 .. a, Due(w, b)' PROVE b \in Answered(w)'
      BY <1>6, <3>2, <3>3, <3>6, <3>9 DEF MatchInv
    <3>10. ASSUME alive[w], NEW b \in 1 .. executed[w], Due(w, b)' PROVE b \in Answered(w)'
      BY <1>6, <3>2, <3>3, <3>6, <3>10 DEF MatchInv
    <3> QED BY <1>0, <3>3, <3>8, <3>9, <3>10
  <2> QED BY <1>5, <2>3, <2>4, <2>5, <2>6 DEF IInv
<1> QED BY <1>1, <1>8, <1>9, <1>10

-----------------------------------------------------------------------------
(* The workers respond, and die. *)

\* A response is appended to one of the worker's queues, or none is due.
LEMMA ExecuteResponses ==
  ASSUME IInv, NEW w \in Workers, NEW failure \in BOOLEAN, Execute(w, failure)
  PROVE  /\ last[w] = executed[w] + 1 /\ last[w] \in 1 .. sent
         /\ outq' \in [Workers -> Seq(Response)] /\ resp' \in [Workers -> Seq(Response)]
         /\ \A v \in Workers \ {w} : outq'[v] = outq[v] /\ resp'[v] = resp[v]
         /\ Lists(CallsOf(resp'[w]), CallSet(resp'[w]))
         /\ Lists(CallsOf(outq'[w]), CallSet(outq'[w]))
         /\ \A b \in CallSet(resp'[w]), c \in CallSet(outq'[w]) : b < c
         /\ CallSet(resp'[w]) \union CallSet(outq'[w]) =
              IF Responds(w, last[w]) THEN Answered(w) \union {last[w]} ELSE Answered(w)
         /\ AsyncScheduling \/ CallSet(outq'[w]) = {}
<1> DEFINE n == last[w]
           m == [call |-> n, failure |-> failure]
<1>1. n = executed[w] + 1 /\ n \in 1 .. sent
  <2>1. /\ executed[w] < got[w] /\ got[w] <= executed[w] + 1 /\ last[w] = got[w]
        /\ got[w] \in Nat /\ taken[w] \in Nat /\ got[w] <= taken[w] /\ taken[w] <= published
        /\ published \in 0 .. sent
    BY DEF Execute, IInv, QueueInv
  <2>2. executed[w] \in Nat /\ sent \in Nat
    BY ExecutedRange
  <2>3. got[w] = executed[w] + 1 /\ got[w] >= 1
    BY <2>1, <2>2
  <2>4. published <= sent /\ published \in Nat
    BY <2>1, <2>2
  <2>5. got[w] <= sent
    <3>1. /\ got[w] \in Nat /\ taken[w] \in Nat /\ got[w] <= taken[w]
          /\ taken[w] <= published
      BY <2>1
    <3> QED BY <2>2, <2>4, <3>1
  <2>6. got[w] \in 1 .. sent
    <3>1. got[w] \in Nat
      BY <2>1
    <3>2. got[w] >= 1
      BY <2>3
    <3> QED BY <2>2, <2>5, <3>1, <3>2
  <2> QED BY <2>1, <2>3, <2>6
<1>2. m \in Response
  BY <1>1, ExecutorAssumption DEF Response, IInv, QueueInv
<1>3. \A c \in Answered(w) : c < n
  BY <1>1, ExecutedRange
<1>4. /\ outq \in [Workers -> Seq(Response)] /\ resp \in [Workers -> Seq(Response)]
      /\ Lists(CallsOf(resp[w]), CallSet(resp[w])) /\ Lists(CallsOf(outq[w]), CallSet(outq[w]))
      /\ \A b \in CallSet(resp[w]), c \in CallSet(outq[w]) : b < c
      /\ AsyncScheduling \/ CallSet(outq[w]) = {}
  BY DEF IInv, TypeOK, ResponsesInv
<1>5. CASE ~ Responds(w, n)
  <2>1. outq' = outq /\ resp' = resp
    BY <1>5 DEF Execute
  <2> QED BY <1>1, <1>4, <1>5, <2>1 DEF Answered
<1>6. CASE Responds(w, n) /\ AsyncScheduling
  <2>1. outq' = [outq EXCEPT ![w] = Append(outq[w], m)] /\ resp' = resp
    BY <1>6 DEF Execute
  <2>2. m.call = n
    OBVIOUS
  <2> HIDE DEF m, n
  <2>3. /\ Append(outq[w], m) \in Seq(Response)
        /\ CallSet(Append(outq[w], m)) = CallSet(outq[w]) \union {n}
        /\ Lists(CallsOf(Append(outq[w], m)), CallSet(Append(outq[w], m)))
    BY <1>2, <1>3, <1>4, <2>2, ResponseAppend DEF Answered
  <2>4. /\ outq' \in [Workers -> Seq(Response)] /\ outq'[w] = Append(outq[w], m)
        /\ \A v \in Workers \ {w} : outq'[v] = outq[v]
    BY <1>4, <2>1, <2>3
  <2>5. \A b \in CallSet(resp'[w]), c \in CallSet(outq'[w]) : b < c
    BY <1>3, <1>4, <2>1, <2>3, <2>4 DEF Answered
  <2> QED BY <1>1, <1>4, <1>6, <2>1, <2>3, <2>4, <2>5 DEF Answered, n
<1>7. CASE Responds(w, n) /\ ~ AsyncScheduling
  <2>1. resp' = [resp EXCEPT ![w] = Append(resp[w], m)] /\ outq' = outq
    BY <1>7 DEF Execute
  <2>2. m.call = n
    OBVIOUS
  <2> HIDE DEF m, n
  <2>3. /\ Append(resp[w], m) \in Seq(Response)
        /\ CallSet(Append(resp[w], m)) = CallSet(resp[w]) \union {n}
        /\ Lists(CallsOf(Append(resp[w], m)), CallSet(Append(resp[w], m)))
    BY <1>2, <1>3, <1>4, <2>2, ResponseAppend DEF Answered
  <2>4. /\ resp' \in [Workers -> Seq(Response)] /\ resp'[w] = Append(resp[w], m)
        /\ \A v \in Workers \ {w} : resp'[v] = resp[v]
    BY <1>4, <2>1, <2>3
  <2> QED BY <1>1, <1>4, <1>7, <2>1, <2>3, <2>4 DEF Answered, n
<1> QED BY <1>5, <1>6, <1>7

LEMMA ExecuteStep ==
  ASSUME IInv, NEW w \in Workers, NEW failure \in BOOLEAN, Execute(w, failure)
  PROVE  IInv'
<1> DEFINE n == last[w]
<1>0. /\ UNCHANGED <<sent, published, taken, got, last>>
      /\ UNCHANGED <<epc, calls, futures, drain, alive, monitor, death>>
      /\ executed' = [executed EXCEPT ![w] = executed[w] + 1] /\ executed[w] < got[w]
      /\ alive[w] /\ executed \in [Workers -> Nat]
  BY DEF Execute, queue, IInv, TypeOK
<1>1. /\ n = executed[w] + 1 /\ n \in 1 .. sent
      /\ outq' \in [Workers -> Seq(Response)] /\ resp' \in [Workers -> Seq(Response)]
      /\ \A v \in Workers \ {w} : outq'[v] = outq[v] /\ resp'[v] = resp[v]
  BY ExecuteResponses
<1>2. /\ executed' \in [Workers -> Nat] /\ executed'[w] = n
      /\ \A v \in Workers \ {w} : executed'[v] = executed[v]
  <2> HIDE DEF n
  <2>0. executed[w] \in Nat
    BY <1>0
  <2>1. executed[w] + 1 \in Nat
    BY <2>0
  <2>2. executed'[w] = executed[w] + 1 /\ executed' \in [Workers -> Nat]
    BY <1>0, <2>1
  <2> QED BY <1>0, <1>1, <2>2
<1>3. TypeOK'
  BY <1>0, <1>1, <1>2 DEF IInv, TypeOK
<1>4. QueueInv'
  <2>1. last = got /\ \A v \in Workers : got[v] \in Nat /\ executed[v] <= got[v]
                                           /\ got[v] <= executed[v] + 1
    BY DEF IInv, QueueInv
  <2>2. executed'[w] = got[w]
    BY <1>2, <2>1
  <2> HIDE DEF n
  <2>3. \A v \in Workers : executed'[v] <= got[v] /\ got[v] <= executed'[v] + 1
    <3> SUFFICES ASSUME NEW v \in Workers
                 PROVE  executed'[v] <= got[v] /\ got[v] <= executed'[v] + 1
      OBVIOUS
    <3>1. CASE v = w
      <4>1. got[w] \in Nat
        BY <2>1
      <4> QED BY <2>2, <3>1, <4>1
    <3>2. CASE v # w
      BY <1>2, <2>1, <3>2
    <3> QED BY <3>1, <3>2
  <2> QED BY <1>0, <2>3 DEF IInv, QueueInv
<1>5. EngineInv'
  BY <1>0, EngineFrame DEF IInv
<1> HIDE DEF n
<1>6. /\ \A v \in Workers \ {w} : Answered(v)' = Answered(v)
      /\ Answered(w)' = IF Responds(w, n) THEN Answered(w) \union {n} ELSE Answered(w)
  <2>1. Answered(w)' = CallSet(resp'[w]) \union CallSet(outq'[w])
    BY DEF Answered
  <2>2. Answered(w)' = IF Responds(w, n) THEN Answered(w) \union {n} ELSE Answered(w)
    BY <2>1, ExecuteResponses DEF n
  <2> QED BY <1>1, <2>2 DEF Answered
<1>7. \A v, c : Responds(v, c)' = Responds(v, c) /\ Due(v, c)' = Due(v, c)
  BY <1>0 DEF Responds, Due
<1>8. ResponsesInv'
  <2> SUFFICES ASSUME NEW v \in Workers
               PROVE  /\ Lists(CallsOf(resp'[v]), CallSet(resp'[v]))
                      /\ Lists(CallsOf(outq'[v]), CallSet(outq'[v]))
                      /\ \A a \in CallSet(resp'[v]), b \in CallSet(outq'[v]) : a < b
                      /\ \A b \in Answered(v)' : b \in 1 .. executed'[v] /\ Responds(v, b)'
                      /\ AsyncScheduling \/ CallSet(outq'[v]) = {}
    BY DEF ResponsesInv
  <2>1. CASE v # w
    BY <1>1, <1>2, <1>6, <1>7, <2>1 DEF IInv, ResponsesInv
  <2>2. CASE v = w
    <3>1. \A b \in Answered(w) : b \in 1 .. executed[w] /\ Responds(w, b)
      BY DEF IInv, ResponsesInv
    <3>2. \A b \in Answered(w)' : b \in 1 .. n /\ Responds(w, b)
      <4>1. executed[w] \in Nat /\ n = executed[w] + 1
        BY <1>0, <1>1
      <4>2. n \in 1 .. n /\ \A b \in 1 .. executed[w] : b \in 1 .. n
        BY <4>1
      <4> QED BY <1>6, <3>1, <4>2
    <3> QED BY <1>2, <1>7, <2>2, <3>2, ExecuteResponses
  <2> QED BY <2>1, <2>2
<1>9. ASSUME NoError' PROVE MatchInv'
  <2>1. MatchInv
    BY <1>0, <1>9 DEF IInv, NoError
  <2> SUFFICES ASSUME NEW v \in Workers
               PROVE  /\ \A b \in Awaited(v)' :
                           /\ calls'[b].state = "done" => b = sent' /\ monitor' = "down"
                           /\ drain'.call = b => v >= drain'.rank
                      /\ \A a \in Answered(v)' : \A b \in 1 .. a :
                           Due(v, b)' => b \in Answered(v)'
                      /\ alive'[v] => \A b \in 1 .. executed'[v] :
                           Due(v, b)' => b \in Answered(v)'
    BY DEF MatchInv
  <2>2. Awaited(v)' \subseteq Awaited(v)
    <3>1. CASE v # w
      BY <1>0, <1>2, <1>6, <1>7, <3>1 DEF Awaited
    <3>2. CASE v = w
      <4>1. executed[w] \in Nat /\ n = executed[w] + 1 /\ n \in 1 .. sent /\ sent' = sent
        BY <1>0, <1>1
      <4>2. n > executed[w] /\ \A b \in 1 .. sent : b > n => b > executed[w]
        BY <4>1
      <4>3. Awaited(w)' = Answered(w)' \union
                            {c \in 1 .. sent : c > n /\ Responds(w, c)}
        BY <1>2, <1>7, <4>1 DEF Awaited
      <4>4. Answered(w)' \subseteq Answered(w) \union {c \in {n} : Responds(w, c)}
        BY <1>6
      <4>5. Awaited(w)' \subseteq Awaited(w)
        BY <4>1, <4>2, <4>3, <4>4 DEF Awaited
      <4> QED BY <3>2, <4>5
    <3> QED BY <3>1, <3>2
  <2>3. CASE v # w
    BY <1>0, <1>2, <1>6, <1>7, <2>1, <2>2, <2>3 DEF MatchInv
  <2>4. CASE v = w
    <3>1. ASSUME NEW b \in 1 .. n, Due(w, b) PROVE b \in Answered(w)'
      <4>1. CASE b = n
        BY <1>6, <3>1, <4>1 DEF Due
      <4>2. CASE b # n
        <5>1. b \in 1 .. executed[w]
          <6>1. executed[w] \in Nat /\ n = executed[w] + 1
            BY <1>0, <1>1
          <6> QED BY <4>2, <6>1
        <5>2. alive[w] /\ \A c \in 1 .. executed[w] : Due(w, c) => c \in Answered(w)
          BY <1>0, <2>1 DEF MatchInv
        <5> QED BY <1>6, <3>1, <5>1, <5>2
      <4> QED BY <4>1, <4>2
    <3>2. \A a \in Answered(w)' : a \in 1 .. n
      BY <1>2, <1>8 DEF ResponsesInv
    <3>3. \A a \in Answered(w)' : \A b \in 1 .. a : b \in 1 .. n
      BY <1>1, <3>2
    <3> QED BY <1>0, <1>2, <1>7, <2>1, <2>2, <2>4, <3>1, <3>3 DEF MatchInv
  <2> QED BY <2>3, <2>4
<1> QED BY <1>3, <1>4, <1>5, <1>8, <1>9 DEF IInv

LEMMA AsyncOutputStep ==
  ASSUME IInv, NEW w \in Workers, AsyncOutput(w)
  PROVE  IInv'
<1> DEFINE m == Head(outq[w])
<1>0. /\ UNCHANGED queue
      /\ UNCHANGED <<epc, calls, futures, drain, executed, alive, monitor, death>>
      /\ outq[w] # <<>>
      /\ resp' = [resp EXCEPT ![w] = Append(resp[w], m)]
      /\ outq' = [outq EXCEPT ![w] = Tail(outq[w])]
  BY DEF AsyncOutput
<1>1. /\ outq \in [Workers -> Seq(Response)] /\ resp \in [Workers -> Seq(Response)]
      /\ Lists(CallsOf(resp[w]), CallSet(resp[w])) /\ Lists(CallsOf(outq[w]), CallSet(outq[w]))
      /\ \A b \in CallSet(resp[w]), c \in CallSet(outq[w]) : b < c
  BY DEF IInv, TypeOK, ResponsesInv
<1>2. /\ m \in Response /\ Tail(outq[w]) \in Seq(Response)
      /\ m.call \in CallSet(outq[w])
      /\ \A c \in CallSet(outq[w]) : m.call <= c
      /\ CallSet(Tail(outq[w])) = CallSet(outq[w]) \ {m.call}
      /\ Lists(CallsOf(Tail(outq[w])), CallSet(Tail(outq[w])))
  BY <1>0, <1>1, ResponseTail
<1> HIDE DEF m
<1>3. /\ Append(resp[w], m) \in Seq(Response)
      /\ CallSet(Append(resp[w], m)) = CallSet(resp[w]) \union {m.call}
      /\ Lists(CallsOf(Append(resp[w], m)), CallSet(Append(resp[w], m)))
  BY <1>1, <1>2, ResponseAppend
<1>4. /\ resp' \in [Workers -> Seq(Response)] /\ resp'[w] = Append(resp[w], m)
      /\ outq' \in [Workers -> Seq(Response)] /\ outq'[w] = Tail(outq[w])
      /\ \A v \in Workers \ {w} : resp'[v] = resp[v] /\ outq'[v] = outq[v]
  BY <1>0, <1>1, <1>2, <1>3
<1>5. TypeOK'
  BY <1>0, <1>4 DEF IInv, TypeOK
<1>6. QueueInv'
  BY <1>0 DEF IInv, QueueInv, queue
<1>7. EngineInv'
  BY <1>0, EngineFrame DEF IInv, queue
<1>8. \A v \in Workers : Answered(v)' = Answered(v)
  <2>1. Answered(w)' = Answered(w)
    BY <1>2, <1>3, <1>4 DEF Answered
  <2> QED BY <1>4, <2>1 DEF Answered
<1>9. \A v, c : Responds(v, c)' = Responds(v, c) /\ Due(v, c)' = Due(v, c)
  BY <1>0 DEF Responds, Due
<1>10. ResponsesInv'
  <2>1. \A b \in CallSet(resp'[w]), c \in CallSet(outq'[w]) : b < c
    <3>1. \A c \in Answered(w) : c \in Nat
      BY ExecutedRange
    <3>2. m.call \in Nat /\ \A c \in CallSet(outq[w]) : c \in Nat
      BY <1>2, <3>1 DEF Answered
    <3>3. \A c \in CallSet(outq'[w]) : m.call < c /\ c \in CallSet(outq[w])
      BY <1>2, <1>4, <3>2, SMTT(30)
    <3>4. \A b \in CallSet(resp'[w]) : b \in CallSet(resp[w]) \/ b = m.call
      BY <1>3, <1>4
    <3> QED BY <1>1, <3>3, <3>4
  <2>2. AsyncScheduling \/ CallSet(outq'[w]) = {}
    BY <1>2, <1>4 DEF IInv, ResponsesInv
  <2>3. /\ Lists(CallsOf(resp'[w]), CallSet(resp'[w]))
        /\ Lists(CallsOf(outq'[w]), CallSet(outq'[w]))
    BY <1>2, <1>3, <1>4
  <2>4. \A v \in Workers : \A c \in Answered(v)' : c \in 1 .. executed'[v] /\ Responds(v, c)'
    BY <1>0, <1>8, <1>9 DEF IInv, ResponsesInv
  <2>5. \A v \in Workers \ {w} :
          /\ Lists(CallsOf(resp'[v]), CallSet(resp'[v]))
          /\ Lists(CallsOf(outq'[v]), CallSet(outq'[v]))
          /\ \A b \in CallSet(resp'[v]), c \in CallSet(outq'[v]) : b < c
          /\ AsyncScheduling \/ CallSet(outq'[v]) = {}
    BY <1>4 DEF IInv, ResponsesInv
  <2> QED BY <2>1, <2>2, <2>3, <2>4, <2>5 DEF ResponsesInv
<1>11. (NoError => MatchInv)'
  <2>0. UNCHANGED <<sent, calls, drain, executed, alive, monitor>>
    BY <1>0 DEF queue
  <2>1. \A v \in Workers : Awaited(v)' = Awaited(v)
    BY <2>0, <1>8, <1>9 DEF Awaited
  <2>2. NoError' = NoError
    BY <2>0 DEF NoError
  <2>3. ASSUME MatchInv PROVE MatchInv'
    BY <2>0, <1>8, <1>9, <2>1, <2>3, SMTT(30) DEF MatchInv
  <2> QED BY <2>2, <2>3 DEF IInv
<1> QED BY <1>5, <1>6, <1>7, <1>10, <1>11 DEF IInv

\* The responses that the output thread still had are lost: they are the last ones.
LEMMA DiesStep ==
  ASSUME IInv, NEW w \in Workers, Dies(w)
  PROVE  IInv'
<1>0. /\ UNCHANGED queue
      /\ UNCHANGED <<epc, calls, futures, drain, executed, resp, monitor, death>>
      /\ alive' = [alive EXCEPT ![w] = FALSE]
      /\ outq' = [outq EXCEPT ![w] = <<>>]
  BY DEF Dies
<1>1. /\ outq' \in [Workers -> Seq(Response)] /\ outq'[w] = <<>>
      /\ alive' \in [Workers -> BOOLEAN] /\ alive'[w] = FALSE
      /\ \A v \in Workers \ {w} : outq'[v] = outq[v] /\ alive'[v] = alive[v]
  <2>1. outq \in [Workers -> Seq(Response)] /\ alive \in [Workers -> BOOLEAN]
    BY DEF IInv, TypeOK
  <2>2. <<>> \in Seq(Response)
    OBVIOUS
  <2> QED BY <1>0, <2>1, <2>2
<1>2. CallSet(outq'[w]) = {} /\ Lists(CallsOf(outq'[w]), CallSet(outq'[w]))
  <2>1. CallSet(<<>>) = {} /\ CallsOf(<<>>) = <<>> /\ Lists(<<>>, {})
    BY DEF CallSet, CallsOf, Lists
  <2> QED BY <1>1, <2>1
<1>3. TypeOK'
  BY <1>0, <1>1 DEF IInv, TypeOK
<1>4. QueueInv'
  BY <1>0 DEF IInv, QueueInv, queue
<1>5. EngineInv'
  BY <1>0, EngineFrame DEF IInv, queue
<1>6. /\ \A v \in Workers \ {w} : Answered(v)' = Answered(v)
      /\ Answered(w)' = CallSet(resp[w]) /\ Answered(w)' \subseteq Answered(w)
  BY <1>0, <1>1, <1>2 DEF Answered
<1>7. \A v, c : Responds(v, c)' = Responds(v, c) /\ Due(v, c)' = Due(v, c)
  BY <1>0 DEF Responds, Due
<1>8. ResponsesInv'
  <2>1. \A v \in Workers : \A c \in Answered(v)' : c \in 1 .. executed'[v] /\ Responds(v, c)'
    BY <1>0, <1>6, <1>7 DEF IInv, ResponsesInv
  <2>2. \A v \in Workers \ {w} :
          /\ Lists(CallsOf(outq'[v]), CallSet(outq'[v]))
          /\ \A b \in CallSet(resp'[v]), c \in CallSet(outq'[v]) : b < c
          /\ AsyncScheduling \/ CallSet(outq'[v]) = {}
    BY <1>0, <1>1 DEF IInv, ResponsesInv
  <2>3. \A v \in Workers : Lists(CallsOf(resp'[v]), CallSet(resp'[v]))
    BY <1>0 DEF IInv, ResponsesInv
  <2> QED BY <1>2, <2>1, <2>2, <2>3 DEF ResponsesInv
<1>9. ASSUME NoError' PROVE MatchInv'
  <2>1. MatchInv
    BY <1>0, <1>9 DEF IInv, NoError, queue
  <2>2. \A v \in Workers : Awaited(v)' \subseteq Awaited(v)
    BY <1>0, <1>6, <1>7 DEF Awaited, queue
  <2>3. ASSUME NEW c \in Answered(w)', NEW b \in 1 .. c, Due(w, b) PROVE b \in Answered(w)'
    <3>1. b \in Answered(w) /\ c \in Nat
      BY <1>6, <2>1, <2>3, ExecutedRange, SMTT(30) DEF MatchInv
    <3>2. b \in CallSet(outq[w]) => c < b
      BY <1>6 DEF IInv, ResponsesInv
    <3> QED BY <1>6, <3>1, <3>2, SMTT(30) DEF Answered
  <2>4. \A v \in Workers : \A c \in Answered(v)' : \A b \in 1 .. c :
          Due(v, b)' => b \in Answered(v)'
    BY <1>6, <1>7, <2>1, <2>3 DEF MatchInv
  <2>5. \A v \in Workers : alive'[v] => \A c \in 1 .. executed'[v] :
          Due(v, c)' => c \in Answered(v)'
    BY <1>0, <1>1, <1>6, <1>7, <2>1 DEF MatchInv
  <2>6. \A v \in Workers : \A c \in Awaited(v)' :
          /\ calls'[c].state = "done" => c = sent' /\ monitor' = "down"
          /\ drain'.call = c => v >= drain'.rank
    BY <1>0, <2>1, <2>2 DEF MatchInv, queue
  <2> QED BY <2>4, <2>5, <2>6 DEF MatchInv
<1> QED BY <1>3, <1>4, <1>5, <1>8, <1>9 DEF IInv

-----------------------------------------------------------------------------

LEMMA StepInv == IInv /\ [Next]_vars => IInv'
<1> SUFFICES ASSUME IInv, [Next]_vars PROVE IInv'
  OBVIOUS
<1>1. CASE UNCHANGED vars
  <2>1. UNCHANGED queue /\ UNCHANGED exVars
    BY <1>1 DEF vars
  <2>2. TypeOK' /\ QueueInv'
    BY <2>1 DEF IInv, TypeOK, QueueInv, queue, exVars
  <2>3. EngineInv'
    BY <2>1, EngineFrame DEF IInv, queue, exVars
  <2>4. ResponsesInv'
    BY <2>1, ResponsesFrame DEF IInv, exVars
  <2>5. (NoError => MatchInv)'
    BY <2>1, MatchFrame DEF IInv, queue, exVars
  <2> QED BY <2>2, <2>3, <2>4, <2>5 DEF IInv
<1>2. CASE Main
  <2>1. CASE InitExecutor \/ ExecutorFailed
    BY <2>1, EngineIdleStep
  <2>2. CASE Submit
    BY <2>2, SubmitStep
  <2>3. CASE PopFuture
    BY <2>3, PopFutureStep
  <2>4. CASE GetResponse
    BY <2>4, GetResponseStep
  <2>5. CASE ResultReturns
    BY <2>5, ResultReturnsStep
  <2>6. CASE Publish /\ UNCHANGED exVars
    BY <2>6, PublishStep
  <2> QED BY <1>2, <2>1, <2>2, <2>3, <2>4, <2>5, <2>6 DEF Main
<1>3. CASE ResponseRaises
  BY <1>3, ResponseRaisesStep
<1>4. CASE \E reply \in Replies, non_block \in NonBlock : CollectiveRpc(reply, non_block)
  BY <1>4, CollectiveRpcStep
<1>5. CASE \E c \in 1 .. MaxMessages : Result(c)
  BY <1>5, ResultStep
<1>6. ASSUME NEW w \in Workers, WorkerDequeue(w) PROVE IInv'
  BY <1>6, WorkerDequeueStep
<1>7. ASSUME NEW w \in Workers, NEW failure \in BOOLEAN, Execute(w, failure) PROVE IInv'
  BY <1>7, ExecuteStep
<1>8. ASSUME NEW w \in Workers, AsyncOutput(w) PROVE IInv'
  BY <1>8, AsyncOutputStep
<1>9. ASSUME NEW w \in Workers, Exit(w) \/ Crash(w) \/ Kill(w) PROVE IInv'
  BY <1>9, DiesStep DEF Exit, Crash, Kill
<1>10. CASE StartShutdown \/ EndShutdown
  BY <1>10, ShutdownStep
<1> QED BY <1>1, <1>2, <1>3, <1>4, <1>5, <1>6, <1>7, <1>8, <1>9, <1>10 DEF Next

\* Whatever the faults, the order of the processes and the deaths, no call gets
\* the response to another one before a future has ended in an exception
\* (FutureWrapper.result, get_response, worker_busy_loop).
THEOREM ResponsesMatchCalls == Spec => []RepliesMatchUntilError
<1>1. IInv => RepliesMatchUntilError
  <2> SUFFICES ASSUME IInv, \A c \in DOMAIN calls : calls[c].state # "error",
                      drain.call # 0, resp[drain.rank] # <<>>
               PROVE  Head(resp[drain.rank]).call = drain.call
    BY DEF RepliesMatchUntilError, RepliesMatch
  <2>1. NoError
    BY CallsType DEF NoError
  <2> QED BY <2>1, FirstResponse
<1> QED BY <1>1, InitInv, StepInv, PTL DEF Spec

=============================================================================
