----------------------------- MODULE Broadcast -----------------------------
(***************************************************************************)
(* What shm_broadcast.MessageQueue promises to its users: every reader gets *)
(* every message, once, in the order of the enqueue calls.  A local reader *)
(* holds the writer back when it is MaxChunks messages behind; a remote    *)
(* one never does.  MessageQueue implements this specification, and        *)
(* MultiprocExecutor is built on it.                                       *)
(***************************************************************************)
EXTENDS Integers

CONSTANTS
  Local,        \* the readers of the writer's node
  Remote,       \* the readers of other nodes
  MaxChunks,    \* max_chunks
  MaxMessages   \* bound: calls of enqueue

VARIABLES
  phase,      \* the writer: "start" (handshake), "idle" or "busy" (in enqueue)
  sent,       \* number of enqueue calls so far
  published,  \* number of messages the readers can see
  taken,      \* number of messages each reader has freed the chunk of
  got,        \* number of messages dequeue has returned to each reader
  last        \* the message it returned last

Readers == Local \union Remote
queue == <<phase, sent, published, taken, got, last>>

QInit ==
  /\ phase = "start"
  /\ sent = 0
  /\ published = 0
  /\ taken = [r \in Readers |-> 0]
  /\ got = [r \in Readers |-> 0]
  /\ last = [r \in Readers |-> 0]

\* The handshake with all readers has succeeded.
Start ==
  /\ phase = "start"
  /\ phase' = "idle"
  /\ UNCHANGED <<sent, published, taken, got, last>>

\* enqueue is called.
Send ==
  /\ phase = "idle"
  /\ sent < MaxMessages
  /\ phase' = "busy"
  /\ sent' = sent + 1
  /\ UNCHANGED <<published, taken, got, last>>

\* A chunk is free: every local reader is at most MaxChunks behind.
Publish ==
  /\ phase = "busy"
  /\ published < sent
  /\ \A r \in Local : sent - taken[r] <= MaxChunks
  /\ published' = sent
  /\ UNCHANGED <<phase, sent, taken, got, last>>

\* enqueue returns.
Return ==
  /\ phase = "busy"
  /\ published = sent
  /\ phase' = "idle"
  /\ UNCHANGED <<sent, published, taken, got, last>>

Returned(r) ==
  /\ got' = [got EXCEPT ![r] = @ + 1]
  /\ last' = [last EXCEPT ![r] = got[r] + 1]

\* dequeue returns the next message.
Receive(r) ==
  /\ taken[r] = got[r]
  /\ taken[r] < published
  /\ taken' = [taken EXCEPT ![r] = @ + 1]
  /\ Returned(r)
  /\ UNCHANGED <<phase, sent, published>>

\* A large message, in two steps: the chunk with its marker, then the socket.
Take(r) ==
  /\ taken[r] = got[r]
  /\ taken[r] < published
  /\ taken' = [taken EXCEPT ![r] = @ + 1]
  /\ UNCHANGED <<phase, sent, published, got, last>>

Deliver(r) ==
  /\ got[r] < taken[r]
  /\ Returned(r)
  /\ UNCHANGED <<phase, sent, published, taken>>

WriterNext == Start \/ Send \/ Publish \/ Return
ReaderNext(r) == Receive(r) \/ Deliver(r)

QNext ==
  \/ WriterNext
  \/ \E r \in Readers : ReaderNext(r)
  \/ \E r \in Local : Take(r)

QSpec == QInit /\ [][QNext]_queue
=============================================================================
