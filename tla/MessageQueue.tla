---------------------------- MODULE MessageQueue ----------------------------
(***************************************************************************)
(* shm_broadcast.MessageQueue: one writer, several readers.  Readers of    *)
(* the same node share a ring of chunks with the writer; each chunk has a  *)
(* written flag and one read flag per reader and nothing else guards it.   *)
(* A message too large for a chunk goes through a publish-subscribe socket *)
(* behind a marker in the ring; readers of other nodes have a socket only. *)
(*                                                                         *)
(* Every load and store of a flag is a step of its own: this is lock-free  *)
(* code and its correctness is the order of those steps.  The fences make  *)
(* the memory sequentially consistent.  Messages are their numbers: the    *)
(* m-th call of enqueue sends m.                                           *)
(***************************************************************************)
EXTENDS Integers, Sequences

CONSTANTS
  NumLocal,     \* n_local_reader
  Remote,       \* the readers of other nodes
  MaxChunks,    \* max_chunks
  MaxMessages,  \* bound: calls of enqueue
  Closing       \* bound: the readers that may be shut down

Local == 0 .. NumLocal - 1
Readers == Local \union Remote
Chunks == 0 .. MaxChunks - 1

ASSUME QueueAssumption ==
  /\ NumLocal \in Nat \ {0}
  /\ MaxChunks \in Nat \ {0}
  /\ MaxMessages \in Nat
  /\ Remote \intersect Int \subseteq Nat \ Local
  /\ Closing \subseteq Local

VARIABLES
  written,    \* written[i]: metadata byte 0 of chunk i
  readFlag,   \* readFlag[i][r]: metadata byte r + 1 of chunk i
  data,       \* data[i]: the message in chunk i; number 0 while it is torn
  wpc,        \* where the writer is in wait_until_ready or enqueue
  widx,       \* the writer's current_idx
  msg,        \* the message being enqueued
  reset,      \* the next read flag the writer resets
  sent,       \* number of enqueue calls so far
  rpc,        \* where each reader is in wait_until_ready or dequeue
  ridx,       \* each local reader's current_idx
  seen,       \* the read flag a local reader has loaded in check()
  notified,   \* a notification is waiting in the reader's notify socket
  socket,     \* each reader's subscription socket
  got,        \* number of messages dequeue has returned to each reader
  last,       \* the message it returned last
  closed      \* the readers with shutting_down set

ring == <<written, readFlag, data>>
writer == <<wpc, widx, msg, reset, sent>>
reader == <<rpc, ridx, seen>>
mqVars == <<ring, writer, reader, notified, socket, got, last, closed>>

READY == 0   \* the handshake message

MQInit ==
  /\ written = [i \in Chunks |-> FALSE]
  /\ readFlag = [i \in Chunks |-> [r \in Local |-> FALSE]]
  /\ data = [i \in Chunks |-> [id |-> 0, overflow |-> FALSE]]
  /\ wpc = "connect"
  /\ widx = 0
  /\ msg = [id |-> 0, overflow |-> FALSE]
  /\ reset = 0
  /\ sent = 0
  /\ rpc = [r \in Readers |-> "new"]
  /\ ridx = [r \in Local |-> 0]
  /\ seen = [r \in Local |-> FALSE]
  /\ notified = [r \in Local |-> FALSE]
  /\ socket = [r \in Readers |-> <<>>]
  /\ got = [r \in Readers |-> 0]
  /\ last = [r \in Readers |-> 0]
  /\ closed = {}

NextIdx(i) == (i + 1) % MaxChunks

\* The socket publishes m to the readers in R.
Published(R, m) ==
  [r \in Readers |-> IF r \in R THEN Append(socket[r], m) ELSE socket[r]]

-----------------------------------------------------------------------------
(* wait_until_ready. *)

\* A reader opens the queue: its socket subscribes.
CreateFromHandle(r) ==
  /\ rpc[r] = "new"
  /\ rpc' = [rpc EXCEPT ![r] = "join"]
  /\ UNCHANGED <<ring, writer, ridx, seen, notified, socket, got, last, closed>>

\* The writer has the subscriptions of the readers in R and tells them so.
Ready(from, R, to) ==
  /\ wpc = from
  /\ \A r \in R : rpc[r] # "new"
  /\ wpc' = to
  /\ socket' = Published(R, READY)
  /\ UNCHANGED <<ring, widx, msg, reset, sent, reader, notified, got, last, closed>>

WriterReady == Ready("connect", Local, "connectRemote") \/ Ready("connectRemote", Remote, "idle")

ReaderReady(r) ==
  /\ rpc[r] = "join"
  /\ socket[r] # <<>>
  /\ socket' = [socket EXCEPT ![r] = Tail(@)]
  /\ rpc' = [rpc EXCEPT ![r] = IF Head(socket[r]) = READY THEN "idle" ELSE "failed"]
  /\ UNCHANGED <<ring, writer, ridx, seen, notified, got, last, closed>>

-----------------------------------------------------------------------------
(* enqueue. *)

Enqueue(overflow) ==
  /\ wpc = "idle"
  /\ sent < MaxMessages
  /\ sent' = sent + 1
  /\ msg' = [id |-> sent + 1, overflow |-> overflow]
  /\ wpc' = "acquire"
  /\ UNCHANGED <<ring, widx, reset, reader, notified, socket, got, last, closed>>

\* Cases 1 and 4 of the metadata: not written, or read by all.
Writable(i) == written[i] => \A r \in Local : readFlag[i][r]

AcquireWrite ==
  /\ wpc = "acquire"
  /\ Writable(widx)
  /\ written' = [written EXCEPT ![widx] = FALSE]
  /\ wpc' = "fill"
  /\ UNCHANGED <<readFlag, data, widx, msg, reset, sent, reader, notified, socket, got, last, closed>>

\* The caller copies the message into the chunk: not at once.
BeginFill ==
  /\ wpc = "fill"
  /\ data' = [data EXCEPT ![widx] = [id |-> 0, overflow |-> msg.overflow]]
  /\ wpc' = "filling"
  /\ UNCHANGED <<written, readFlag, widx, msg, reset, sent, reader, notified, socket, got, last, closed>>

EndFill ==
  /\ wpc = "filling"
  /\ data' = [data EXCEPT ![widx] = msg]
  /\ wpc' = "reset"
  /\ reset' = 0
  /\ UNCHANGED <<written, readFlag, widx, msg, sent, reader, notified, socket, got, last, closed>>

ResetFlag ==
  /\ wpc = "reset"
  /\ reset < NumLocal
  /\ readFlag' = [readFlag EXCEPT ![widx][reset] = FALSE]
  /\ reset' = reset + 1
  /\ UNCHANGED <<written, data, wpc, widx, msg, sent, reader, notified, socket, got, last, closed>>

\* Mutant: the chunk is published before the read flags are reset.
PublishEarly ==
  /\ wpc = "reset"
  /\ written' = [written EXCEPT ![widx] = TRUE]
  /\ reset < NumLocal => UNCHANGED <<wpc, widx>>
  /\ reset = NumLocal => /\ widx' = NextIdx(widx)
                         /\ wpc' = IF msg.overflow THEN "overflow" ELSE "notify"
  /\ UNCHANGED <<readFlag, data, msg, reset, sent, reader, notified, socket, got, last, closed>>

Publish ==
  /\ wpc = "reset"
  /\ reset = NumLocal
  /\ written' = [written EXCEPT ![widx] = TRUE]
  /\ widx' = NextIdx(widx)
  /\ wpc' = IF msg.overflow THEN "overflow" ELSE "notify"
  /\ UNCHANGED <<readFlag, data, msg, reset, sent, reader, notified, socket, got, last, closed>>

SendOverflow ==
  /\ wpc = "overflow"
  /\ socket' = Published(Local, msg.id)
  /\ wpc' = "notify"
  /\ UNCHANGED <<ring, widx, msg, reset, sent, reader, notified, got, last, closed>>

\* Beyond the high-water mark of 1 a notification is dropped: any may be.
Notify(R) ==
  /\ wpc = "notify"
  /\ notified' = [r \in Local |-> notified[r] \/ r \in R]
  /\ wpc' = "remote"
  /\ UNCHANGED <<ring, widx, msg, reset, sent, reader, socket, got, last, closed>>

SendRemote ==
  /\ wpc = "remote"
  /\ socket' = Published(Remote, msg.id)
  /\ wpc' = "idle"
  /\ UNCHANGED <<ring, widx, msg, reset, sent, reader, notified, got, last, closed>>

WriterStep ==
  \/ WriterReady
  \/ AcquireWrite
  \/ BeginFill
  \/ EndFill
  \/ ResetFlag
  \/ Publish
  \/ SendOverflow
  \/ \E R \in SUBSET Local : Notify(R)
  \/ SendRemote

-----------------------------------------------------------------------------
(* dequeue. *)

\* dequeue returns m to reader r.
Returns(r, m) ==
  /\ got' = [got EXCEPT ![r] = @ + 1]
  /\ last' = [last EXCEPT ![r] = m]

\* A local reader looks at its chunk, a remote one at its socket.
Dequeue(r) ==
  /\ rpc[r] = "idle"
  /\ rpc' = [rpc EXCEPT ![r] = IF r \in Local THEN "flag" ELSE "recv"]
  /\ UNCHANGED <<ring, writer, ridx, seen, notified, socket, got, last, closed>>

\* Mutant: the reader's own flag is ignored.
LoadReadFlagIgnored(r) ==
  /\ rpc[r] = "flag"
  /\ rpc' = [rpc EXCEPT ![r] = "written"]
  /\ UNCHANGED <<ring, writer, ridx, seen, notified, socket, got, last, closed>>

\* check(): the reader's own flag first, then the writer's.
LoadReadFlag(r) ==
  /\ rpc[r] = "flag"
  /\ seen' = [seen EXCEPT ![r] = readFlag[ridx[r]][r]]
  /\ rpc' = [rpc EXCEPT ![r] = "written"]
  /\ UNCHANGED <<ring, writer, ridx, notified, socket, got, last, closed>>

\* The chunk is not readable: after a recent read wait() returns at once,
\* otherwise it polls the notify socket.
LoadWritten(r) ==
  /\ rpc[r] = "written"
  /\ \/ /\ written[ridx[r]] /\ ~seen[r]
        /\ rpc' = [rpc EXCEPT ![r] = "read"]
     \/ /\ ~(written[ridx[r]] /\ ~seen[r])
        /\ \/ rpc' = [rpc EXCEPT ![r] = "woken"]
           \/ rpc' = [rpc EXCEPT ![r] = "park"]
  /\ seen' = [seen EXCEPT ![r] = FALSE]
  /\ UNCHANGED <<ring, writer, ridx, notified, socket, got, last, closed>>

\* Mutant: the poll has no timeout.
RecheckNever == FALSE

\* The poll times out within SHM_READER_RECHECK_INTERVAL_MS.
Recheck == TRUE

Wake(r) ==
  /\ rpc[r] = "park"
  /\ notified[r] \/ r \in closed \/ Recheck
  /\ notified' = [notified EXCEPT ![r] = @ /\ r \in closed]
  /\ rpc' = [rpc EXCEPT ![r] = "woken"]
  /\ UNCHANGED <<ring, writer, ridx, seen, socket, got, last, closed>>

\* wait() has returned: shutting_down ends the dequeue with an exception.
Woken(r) ==
  /\ rpc[r] = "woken"
  /\ rpc' = [rpc EXCEPT ![r] = IF r \in closed THEN "cancelled" ELSE "flag"]
  /\ UNCHANGED <<ring, writer, ridx, seen, notified, socket, got, last, closed>>

\* The caller has read the chunk: it is marked, and a large message follows
\* through the socket.
MarkRead(r) ==
  /\ rpc[r] = "read"
  /\ readFlag' = [readFlag EXCEPT ![ridx[r]][r] = TRUE]
  /\ ridx' = [ridx EXCEPT ![r] = NextIdx(@)]
  /\ \/ /\ data[ridx[r]].overflow
        /\ rpc' = [rpc EXCEPT ![r] = "recv"]
        /\ UNCHANGED <<got, last>>
     \/ /\ ~data[ridx[r]].overflow
        /\ rpc' = [rpc EXCEPT ![r] = "idle"]
        /\ Returns(r, data[ridx[r]].id)
  /\ UNCHANGED <<written, data, writer, seen, notified, socket, closed>>

Recv(r) ==
  /\ rpc[r] = "recv"
  /\ socket[r] # <<>>
  /\ Returns(r, Head(socket[r]))
  /\ socket' = [socket EXCEPT ![r] = Tail(@)]
  /\ rpc' = [rpc EXCEPT ![r] = "idle"]
  /\ UNCHANGED <<ring, writer, ridx, seen, notified, closed>>

LocalStep(r) == LoadReadFlag(r) \/ LoadWritten(r) \/ Wake(r) \/ Woken(r) \/ MarkRead(r)

ReaderStep(r) == CreateFromHandle(r) \/ ReaderReady(r) \/ Dequeue(r) \/ Recv(r)

\* Another thread of the reader's process shuts the queue down.
Shutdown(r) ==
  /\ r \notin closed
  /\ closed' = closed \union {r}
  /\ UNCHANGED <<ring, writer, reader, notified, socket, got, last>>

MQNext ==
  \/ \E overflow \in BOOLEAN : Enqueue(overflow)
  \/ WriterStep
  \/ \E r \in Readers : ReaderStep(r)
  \/ \E r \in Local : LocalStep(r)
  \/ \E r \in Closing : Shutdown(r)

MQSpec == MQInit /\ [][MQNext]_mqVars

\* Writer and readers keep running; a waiting reader looks at its flags again.
MQFairness ==
  /\ WF_mqVars(WriterStep)
  /\ \A r \in Readers : WF_mqVars(ReaderStep(r))
  /\ \A r \in Local : WF_mqVars(LocalStep(r))

MQFairSpec == MQSpec /\ MQFairness

-----------------------------------------------------------------------------
(* Properties. *)

Message == [id : Nat, overflow : BOOLEAN]

\* Flags, chunks, sockets and program counters keep their types.
MQTypeOK ==
  /\ written \in [Chunks -> BOOLEAN]
  /\ readFlag \in [Chunks -> [Local -> BOOLEAN]]
  /\ data \in [Chunks -> Message]
  /\ wpc \in {"connect", "connectRemote", "idle", "acquire", "fill", "filling", "reset",
              "overflow", "notify", "remote"}
  /\ widx \in Chunks
  /\ msg \in Message
  /\ reset \in 0 .. NumLocal
  /\ sent \in Nat
  /\ rpc \in [Readers -> {"new", "join", "idle", "flag", "written", "park", "woken", "read",
                          "recv", "cancelled", "failed"}]
  /\ ridx \in [Local -> Chunks]
  /\ seen \in [Local -> BOOLEAN]
  /\ notified \in [Local -> BOOLEAN]
  /\ socket \in [Readers -> Seq(Nat)]
  /\ got \in [Readers -> Nat]
  /\ last \in [Readers -> Nat]
  /\ closed \subseteq Local

\* While a reader reads a chunk, the chunk holds the message the reader is due,
\* complete: the writer neither reuses it nor is it still filling it ("Only after
\* the caller finishes reading the block, the reader can mark the block as read").
NoOverwrite ==
  \A r \in Local : rpc[r] = "read" =>
    written[ridx[r]] /\ data[ridx[r]].id = got[r] + 1

\* Every reader gets every message, once and in order: the m-th message that
\* dequeue returns is the m-th that was enqueued, large or small, local or remote;
\* and the handshake finds READY and nothing else in the socket.
InOrder ==
  \A r \in Readers : last[r] = got[r] /\ got[r] <= sent /\ rpc[r] # "failed"

\* The message being enqueued is not yet in the ring.
Unpublished == wpc \in {"acquire", "fill", "filling", "reset"}

Pub == IF Unpublished THEN sent - 1 ELSE sent

\* A local reader in recv has marked its chunk but not returned.
Taken == [r \in Readers |-> IF r \in Local /\ rpc[r] = "recv" THEN got[r] + 1 ELSE got[r]]

Phase == CASE wpc \in {"connect", "connectRemote"} -> "start"
           [] wpc = "idle" -> "idle"
           [] OTHER -> "busy"

Q == INSTANCE Broadcast WITH phase <- Phase, published <- Pub, taken <- Taken

\* The lock-free ring with its sockets implements the broadcast queue.
Implements == Q!QSpec

\* Every message reaches every reader, although notifications are lost, unless a
\* reader is shut down: it takes nothing more and the ring stays full.
Delivered ==
  \A r \in Readers, m \in 1 .. MaxMessages :
    (sent >= m) ~> (got[r] >= m \/ closed # {})

=============================================================================
