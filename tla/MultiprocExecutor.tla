------------------------- MODULE MultiprocExecutor -------------------------
(***************************************************************************)
(* multiproc_executor: the engine's thread broadcasts a call to every      *)
(* worker process through rpc_broadcast_mq (MessageQueue) and collects the *)
(* responses from one queue per worker, through futures that are drained   *)
(* in order.  Workers may raise, die, or answer after the deadline; a      *)
(* monitor thread shuts the executor down when one dies.                   *)
(*                                                                         *)
(* The executor of one node.  rpc_broadcast_mq is a MessageQueue, taken    *)
(* here as the Broadcast it implements; so is each response queue: with    *)
(* one reader that is a sequence.                                          *)
(***************************************************************************)
EXTENDS Broadcast, Sequences, FiniteSets

CONSTANTS
  OutputRank,       \* output_rank
  AsyncScheduling,  \* outputs go through the worker's output thread
  NonBlock,         \* the values of non_block that the callers use
  Faults,           \* subset of {"failure", "crash", "timeout"}
  Utility           \* calls come from utility methods, whose exceptions the engine survives

ASSUME ExecutorAssumption ==
  /\ AsyncScheduling \in BOOLEAN /\ Utility \in BOOLEAN /\ NonBlock \subseteq BOOLEAN
  /\ Faults \subseteq {"failure", "crash", "timeout"}
  /\ Remote = {} /\ OutputRank \in Local
  /\ Cardinality(Local) \in Nat \ {0} /\ Local = 0 .. Cardinality(Local) - 1
  /\ MaxMessages \in Nat

Workers == Readers
All == -1   \* output_rank None: every worker responds

VARIABLES
  epc,       \* the engine's thread: where it is in collective_rpc or result
  calls,     \* calls[c]: output_rank; state of call c's future; the engine holds it
  futures,   \* futures_queue, oldest first
  drain,     \* the future whose result() runs, the one being drained, its next rank
  executed,  \* number of calls each worker has executed
  outq,      \* async_output_queue of each worker
  resp,      \* response queue of each worker
  alive,     \* the worker processes
  monitor,   \* the worker monitor: "watch", "stop" (in shutdown) or "down"
  death      \* the workers whose death pipe has closed

exVars == <<epc, calls, futures, drain, executed, outq, resp, alive, monitor, death>>
vars == <<queue, exVars>>

NoDrain == [target |-> 0, call |-> 0, rank |-> 0]

Init ==
  /\ QInit
  /\ epc = "boot"
  /\ calls = <<>>
  /\ futures = <<>>
  /\ drain = NoDrain
  /\ executed = [w \in Workers |-> 0]
  /\ outq = [w \in Workers |-> <<>>]
  /\ resp = [w \in Workers |-> <<>>]
  /\ alive = [w \in Workers |-> TRUE]
  /\ monitor = "watch"
  /\ death = {}

is_failed == monitor # "watch"

-----------------------------------------------------------------------------
(* The engine's thread. *)

\* _init_executor returns: rpc_broadcast_mq and the response queues are ready.
InitExecutor ==
  /\ epc = "boot"
  /\ Start
  /\ epc' = "idle"
  /\ UNCHANGED <<calls, futures, drain, executed, outq, resp, alive, monitor, death>>

\* An exception leaves the engine's thread: it ends, unless a utility method raised.
AfterError == IF Utility /\ ~is_failed THEN "idle" ELSE "dead"

CollectiveRpc(reply, non_block) ==
  /\ epc = "idle"
  /\ ~is_failed
  /\ Send
  /\ calls' = Append(calls, [reply |-> reply, state |-> "sent", held |-> non_block])
  /\ epc' = "enqueue"
  /\ UNCHANGED <<futures, drain, executed, outq, resp, alive, monitor, death>>

\* The executor has failed: collective_rpc raises, or the engine reads EXECUTOR_FAILED.
ExecutorFailed ==
  /\ epc = "idle"
  /\ is_failed
  /\ epc' = "dead"
  /\ UNCHANGED <<queue, calls, futures, drain, executed, outq, resp, alive, monitor, death>>

\* enqueue returns and the call gets its future; shutdown may have emptied response_mqs.
Submit ==
  /\ epc = "enqueue"
  /\ Return
  /\ \/ /\ monitor # "down" \/ calls[sent].reply = All
        /\ futures' = Append(futures, sent)
        /\ calls' = [calls EXCEPT ![sent].state = IF monitor = "down" THEN "empty" ELSE "pending"]
        /\ epc' = IF calls[sent].held THEN "idle" ELSE "result"
        /\ drain' = IF calls[sent].held THEN NoDrain ELSE [NoDrain EXCEPT !.target = sent]
     \/ /\ monitor = "down" /\ calls[sent].reply # All
        /\ epc' = AfterError
        /\ UNCHANGED <<futures, calls, drain>>
  /\ UNCHANGED <<executed, outq, resp, alive, monitor, death>>

\* The engine asks for the result of an outstanding future.
Result(c) ==
  /\ epc = "idle"
  /\ c \in DOMAIN calls
  /\ calls[c].held /\ calls[c].state \in {"pending", "empty", "done", "error"}
  /\ epc' = "result"
  /\ drain' = [NoDrain EXCEPT !.target = c]
  /\ UNCHANGED <<queue, calls, futures, executed, outq, resp, alive, monitor, death>>

FirstRank(c) == IF calls[c].reply = All THEN 0 ELSE calls[c].reply

LastRank(c) == IF calls[c].reply = All THEN Cardinality(Workers) - 1 ELSE calls[c].reply

\* futures_queue.pop(): the future queued first.
Oldest == Head(futures)

\* result() drains the futures ahead of its own, and its own.
PopFuture ==
  /\ epc = "result"
  /\ drain.call = 0
  /\ calls[drain.target].state \in {"pending", "empty"}
  /\ LET c == Oldest IN
       /\ futures' = Tail(futures)
       /\ IF calls[c].state = "empty"
            THEN calls' = [calls EXCEPT ![c].state = "done"] /\ UNCHANGED drain
            ELSE drain' = [drain EXCEPT !.call = c, !.rank = FirstRank(c)] /\ UNCHANGED calls
  /\ UNCHANGED <<queue, epc, executed, outq, resp, alive, monitor, death>>

\* get_response ends for the future being drained.
Settle(state) ==
  /\ calls' = [calls EXCEPT ![drain.call].state = state]
  /\ drain' = [drain EXCEPT !.call = 0, !.rank = 0]

\* The next response queue yields a response: a FAILURE ends get_response.
GetResponse ==
  /\ epc = "result"
  /\ drain.call # 0
  /\ resp[drain.rank] # <<>>
  /\ resp' = [resp EXCEPT ![drain.rank] = Tail(@)]
  /\ LET m == Head(resp[drain.rank]) IN
       \/ m.failure /\ Settle("error")
       \/ ~m.failure /\ drain.rank = LastRank(drain.call) /\ Settle("done")
       \/ /\ ~m.failure /\ drain.rank # LastRank(drain.call)
          /\ drain' = [drain EXCEPT !.rank = @ + 1]
          /\ UNCHANGED calls
  /\ UNCHANGED <<queue, epc, futures, executed, outq, alive, monitor, death>>

\* The dequeue of a response raises: its deadline passes, or shutdown cancels it.
ResponseRaises ==
  /\ epc = "result"
  /\ drain.call # 0
  /\ resp[drain.rank] = <<>>
  /\ "timeout" \in Faults \/ monitor = "down"
  /\ Settle("error")
  /\ UNCHANGED <<queue, epc, futures, executed, outq, resp, alive, monitor, death>>

\* result() returns or raises.
ResultReturns ==
  /\ epc = "result"
  /\ drain.call = 0
  /\ calls[drain.target].state \in {"done", "error"}
  /\ epc' = IF calls[drain.target].state = "error" THEN AfterError ELSE "idle"
  /\ calls' = [calls EXCEPT ![drain.target].held = FALSE]
  /\ drain' = NoDrain
  /\ UNCHANGED <<queue, futures, executed, outq, resp, alive, monitor, death>>

-----------------------------------------------------------------------------
(* The workers. *)

\* worker_busy_loop: the next call is taken when the last one has been executed.
WorkerDequeue(w) ==
  /\ alive[w]
  /\ executed[w] = got[w]
  /\ Receive(w) \/ Take(w) \/ Deliver(w)
  /\ UNCHANGED exVars

\* Mutant: a worker answers although another one was asked.
RespondsAlways(w, c) == TRUE

Responds(w, c) == calls[c].reply \in {All, w}

\* _execute_worker_rpc: an exception becomes a FAILURE response.
Execute(w, failure) ==
  /\ alive[w]
  /\ executed[w] < got[w]
  /\ failure => "failure" \in Faults
  /\ executed' = [executed EXCEPT ![w] = @ + 1]
  /\ LET m == [call |-> last[w], failure |-> failure]
         to(q) == IF Responds(w, last[w]) THEN [q EXCEPT ![w] = Append(@, m)] ELSE q
     IN  IF AsyncScheduling THEN outq' = to(outq) /\ UNCHANGED resp
                            ELSE resp' = to(resp) /\ UNCHANGED outq
  /\ UNCHANGED <<queue, epc, calls, futures, drain, alive, monitor, death>>

AsyncOutput(w) ==
  /\ alive[w]
  /\ outq[w] # <<>>
  /\ resp' = [resp EXCEPT ![w] = Append(@, Head(outq[w]))]
  /\ outq' = [outq EXCEPT ![w] = Tail(@)]
  /\ UNCHANGED <<queue, epc, calls, futures, drain, executed, alive, monitor, death>>

Dies(w) ==
  /\ alive[w]
  /\ alive' = [alive EXCEPT ![w] = FALSE]
  /\ outq' = [outq EXCEPT ![w] = <<>>]
  /\ UNCHANGED <<queue, epc, calls, futures, drain, executed, resp, monitor, death>>

\* The death pipe's thread has shut the queue down: the wait for a call raises.
\* A wait for the second part of a large one does not.
Exit(w) == w \in death /\ executed[w] = got[w] /\ taken[w] = got[w] /\ Dies(w)

Crash(w) == "crash" \in Faults /\ epc # "boot" /\ Dies(w)

-----------------------------------------------------------------------------
(* The monitor thread and shutdown. *)


\* A worker has died, or the engine's thread has ended: shutdown begins and
\* closes the death pipes.
StartShutdown ==
  /\ monitor = "watch"
  /\ epc = "dead" \/ \E w \in Workers : ~alive[w]
  /\ monitor' = "stop"
  /\ death' = Workers
  /\ UNCHANGED <<queue, epc, calls, futures, drain, executed, outq, resp, alive>>

\* _ensure_worker_termination: SIGTERM and SIGKILL for those that stay.
Kill(w) == monitor = "stop" /\ Dies(w)


\* All workers are gone: the response queues are shut down and forgotten.
EndShutdown ==
  /\ monitor = "stop"
  /\ \A w \in Workers : ~alive[w]
  /\ monitor' = "down"
  /\ UNCHANGED <<queue, epc, calls, futures, drain, executed, outq, resp, alive, death>>

-----------------------------------------------------------------------------

Main ==
  \/ InitExecutor
  \/ ExecutorFailed
  \/ Submit
  \/ PopFuture
  \/ GetResponse
  \/ ResultReturns
  \/ Publish /\ UNCHANGED exVars

Replies == {OutputRank, All}

Next ==
  \/ Main
  \/ ResponseRaises
  \/ \E reply \in Replies, non_block \in NonBlock : CollectiveRpc(reply, non_block)
  \/ \E c \in 1 .. MaxMessages : Result(c)
  \/ \E w \in Workers : \/ WorkerDequeue(w)
                        \/ \E failure \in BOOLEAN : Execute(w, failure)
                        \/ AsyncOutput(w)
                        \/ Exit(w)
                        \/ Crash(w)
                        \/ Kill(w)
  \/ StartShutdown
  \/ EndShutdown

Spec == Init /\ [][Next]_vars

\* Processes and threads keep running; a wait that shutdown cancels ends.
Fairness ==
  /\ WF_vars(Main)
  /\ WF_vars(ResponseRaises /\ monitor = "down")
  /\ \A w \in Workers :
       /\ WF_vars(WorkerDequeue(w))
       /\ WF_vars(\E failure \in BOOLEAN : Execute(w, failure))
       /\ WF_vars(AsyncOutput(w))
       /\ WF_vars(Exit(w))
       /\ WF_vars(Kill(w))
  /\ WF_vars(StartShutdown)
  /\ WF_vars(EndShutdown)

FairSpec == Spec /\ Fairness

-----------------------------------------------------------------------------
(* Properties. *)

Response == [call : 1 .. MaxMessages, failure : BOOLEAN]

\* The executor's variables keep their types.
TypeOK ==
  /\ epc \in {"boot", "idle", "enqueue", "result", "dead"}
  /\ calls \in Seq([reply : Replies, held : BOOLEAN,
                    state : {"sent", "pending", "empty", "done", "error"}])
  /\ futures \in Seq(1 .. MaxMessages)
  /\ drain \in [target : 0 .. MaxMessages, call : 0 .. MaxMessages, rank : Workers]
  /\ executed \in [Workers -> Nat]
  /\ outq \in [Workers -> Seq(Response)] /\ resp \in [Workers -> Seq(Response)]
  /\ alive \in [Workers -> BOOLEAN]
  /\ monitor \in {"watch", "stop", "down"}
  /\ death \in {{}, Workers}

\* The response that get_response takes from a worker's queue is the answer to
\* the call whose future it completes: "A list containing the results from each
\* worker" (Executor.collective_rpc).
RepliesMatch ==
  epc = "result" /\ drain.call # 0 /\ resp[drain.rank] # <<>> =>
    Head(resp[drain.rank]).call = drain.call

\* Until a future has ended in an exception, responses and calls match: with
\* calls pipelined, answered by one worker or all, and futures drained from any.
RepliesMatchUntilError ==
  (\A c \in DOMAIN calls : calls[c].state # "error") => RepliesMatch



=============================================================================
