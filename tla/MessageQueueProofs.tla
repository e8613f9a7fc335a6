------------------------- MODULE MessageQueueProofs -------------------------
(***************************************************************************)
(* MessageQueue implements Broadcast, and no chunk is overwritten while it *)
(* is read: for every number of chunks and messages and every set of       *)
(* readers.                                                                *)
(*                                                                         *)
(* First come the inductive invariant and what the proofs need of          *)
(* positions in the ring, of socket contents and of the types; then the    *)
(* writer's steps (enqueue, acquire_write, wait_until_ready) and the       *)
(* readers' (dequeue, acquire_read, recv, wait_until_ready), which keep    *)
(* the invariant and map to steps of Broadcast; then the theorems.         *)
(***************************************************************************)
EXTENDS MessageQueue, TLAPS

-----------------------------------------------------------------------------
(* Increasing sequences: the messages in a socket.                         *)

\* s lists the members of S in increasing order.
Lists(s, S) ==
  /\ s \in Seq(Nat)
  /\ \A i, j \in 1 .. Len(s) : i < j => s[i] < s[j]
  /\ \A k \in S : \E i \in 1 .. Len(s) : s[i] = k
  /\ \A i \in 1 .. Len(s) : s[i] \in S

\* A list that gets a number larger than all that are in it.
LEMMA ListsAppend ==
  ASSUME NEW s, NEW S, Lists(s, S), NEW m \in Nat, \A k \in S : k < m
  PROVE  Lists(Append(s, m), S \union {m})
<1>1. /\ Append(s, m) \in Seq(Nat)
      /\ Len(Append(s, m)) = Len(s) + 1 /\ Len(s) \in Nat
      /\ \A i \in 1 .. Len(s) : Append(s, m)[i] = s[i]
      /\ Append(s, m)[Len(s) + 1] = m
  BY DEF Lists
<1> DEFINE t == Append(s, m)
<1> HIDE DEF t
<1>2. ASSUME NEW i \in 1 .. Len(t), NEW j \in 1 .. Len(t), i < j PROVE t[i] < t[j]
  <2>1. i \in 1 .. Len(s) /\ t[i] = s[i] /\ s[i] \in S
    BY <1>1, <1>2 DEF t, Lists
  <2>2. CASE j = Len(s) + 1
    BY <1>1, <2>1, <2>2 DEF t
  <2>3. CASE j # Len(s) + 1
    BY <1>1, <1>2, <2>1, <2>3 DEF t, Lists
  <2> QED BY <2>2, <2>3
<1>3. ASSUME NEW k \in S \union {m} PROVE \E i \in 1 .. Len(t) : t[i] = k
  <2>1. CASE k \in S
    <3>1. PICK i \in 1 .. Len(s) : s[i] = k
      BY <2>1 DEF Lists
    <3>2. i \in 1 .. Len(t) /\ t[i] = k
      BY <1>1, <3>1 DEF t
    <3> QED BY <3>2
  <2>2. CASE k = m
    <3>1. Len(s) + 1 \in 1 .. Len(t) /\ t[Len(s) + 1] = k
      BY <1>1, <2>2 DEF t
    <3> QED BY <3>1
  <2> QED BY <1>3, <2>1, <2>2
<1>4. ASSUME NEW i \in 1 .. Len(t) PROVE t[i] \in S \union {m}
  BY <1>1 DEF t, Lists
<1> QED BY <1>1, <1>2, <1>3, <1>4 DEF Lists, t

\* A list that loses its first number: it is the smallest.
LEMMA ListsTail ==
  ASSUME NEW s, NEW S, Lists(s, S), s # <<>>
  PROVE  /\ Head(s) \in S /\ Head(s) \in Nat
         /\ \A k \in S : Head(s) <= k
         /\ Lists(Tail(s), S \ {Head(s)})
<1>1. /\ Len(s) \in Nat /\ Len(s) >= 1 /\ Head(s) = s[1] /\ 1 \in 1 .. Len(s)
      /\ Tail(s) \in Seq(Nat)
      /\ Len(Tail(s)) = Len(s) - 1
      /\ \A i \in 1 .. Len(s) - 1 : Tail(s)[i] = s[i + 1]
  BY DEF Lists
<1> DEFINE t == Tail(s)
<1> HIDE DEF t
<1>2. \A i \in 1 .. Len(s) : s[i] \in Nat
  BY <1>1 DEF Lists
<1>3. ASSUME NEW i \in 1 .. Len(t)
      PROVE  i + 1 \in 1 .. Len(s) /\ t[i] = s[i + 1] /\ s[i + 1] > s[1]
  <2>1. i + 1 \in 1 .. Len(s) /\ t[i] = s[i + 1]
    BY <1>1 DEF t
  <2> QED BY <1>1, <1>2, <2>1 DEF Lists
<1>4. ASSUME NEW k \in S PROVE Head(s) <= k
  <2>1. PICK i \in 1 .. Len(s) : s[i] = k
    BY DEF Lists
  <2> QED BY <1>1, <1>2, <2>1 DEF Lists
<1>5. ASSUME NEW i \in 1 .. Len(t), NEW j \in 1 .. Len(t), i < j PROVE t[i] < t[j]
  BY <1>1, <1>3, <1>5 DEF Lists
<1>6. ASSUME NEW k \in S \ {Head(s)} PROVE \E i \in 1 .. Len(t) : t[i] = k
  <2>1. PICK i \in 1 .. Len(s) : s[i] = k
    BY DEF Lists
  <2>2. i - 1 \in 1 .. Len(t) /\ t[i - 1] = k
    BY <1>1, <2>1 DEF t
  <2> QED BY <2>2
<1>7. ASSUME NEW i \in 1 .. Len(t) PROVE t[i] \in S \ {Head(s)}
  BY <1>1, <1>2, <1>3 DEF Lists
<1> QED BY <1>1, <1>2, <1>4, <1>5, <1>6, <1>7 DEF Lists, t

-----------------------------------------------------------------------------
(* Positions in the ring: message n + 1 is in chunk n % MaxChunks.         *)

At == [n \in Nat |-> n % MaxChunks]

\* A quotient of at least one makes a product of at least the divisor.
LEMMA Product ==
  ASSUME NEW c \in Nat \ {0}, NEW d \in Int, 0 < c * d
  PROVE  c * d >= c
<1>1. d >= 1
  OBVIOUS
<1> QED BY <1>1

\* Quotient and remainder.
LEMMA DivMod ==
  ASSUME NEW c \in Int, c > 0, NEW a \in Int
  PROVE  a = c * (a \div c) + (a % c)
BY Z3

\* The remainder is a chunk.
LEMMA ModRange ==
  ASSUME NEW c \in Nat \ {0}, NEW a \in Nat
  PROVE  a % c \in 0 .. c - 1 /\ a \div c \in Int
OBVIOUS

\* Numbers less than c apart have different remainders.
LEMMA ModDistinct ==
  ASSUME NEW c \in Nat \ {0}, NEW a \in Nat, NEW b \in Nat, a < b, b < a + c
  PROVE  a % c # b % c
<1>1. SUFFICES ASSUME a % c = b % c PROVE FALSE
  OBVIOUS
<1> DEFINE p == b \div c
           q == a \div c
<1>2. p \in Int /\ q \in Int /\ a % c \in Int
  BY ModRange
<1>3. a = c * q + (a % c) /\ b = c * p + (b % c)
  BY DivMod
<1> HIDE DEF p, q
<1>4. c * p \in Int /\ c * q \in Int /\ c * p - c * q = c * (p - q)
  BY <1>2
<1>5. b - a = c * (p - q)
  BY <1>1, <1>2, <1>3, <1>4
<1>6. c * (p - q) >= c
  BY <1>2, <1>5, Product
<1> QED BY <1>5, <1>6

\* The remainder of a multiple and a rest.
LEMMA ModUnique ==
  ASSUME NEW c \in Nat \ {0}, NEW q \in Int, NEW r \in 0 .. c - 1, c * q + r \in Nat
  PROVE  (c * q + r) % c = r
OBVIOUS

\* (i + 1) % max_chunks moves an index with the number it stands for.
LEMMA ModNext ==
  ASSUME NEW c \in Nat \ {0}, NEW a \in Nat
  PROVE  (a + 1) % c = ((a % c) + 1) % c
<1> DEFINE q == a \div c
           m == a % c
<1>1. q \in Int /\ m \in 0 .. c - 1
  BY ModRange
<1>2. a = c * q + m
  BY DivMod
<1> HIDE DEF q, m
<1>3. c * q \in Int /\ c * (q + 1) = c * q + c
  BY <1>1
<1>4. CASE m + 1 = c
  <2>1. a + 1 = c * (q + 1) + 0
    BY <1>1, <1>2, <1>3, <1>4
  <2>2. q + 1 \in Int /\ 0 \in 0 .. c - 1 /\ c * (q + 1) + 0 \in Nat
    BY <1>1, <2>1
  <2>3. (c * (q + 1) + 0) % c = 0
    BY ZenonT(30), <2>2, ModUnique
  <2>4. (a + 1) % c = 0
    BY <2>1, <2>3
  <2>5. (m + 1) % c = 0
    BY <1>1, <1>4
  <2> QED BY <2>4, <2>5 DEF m
<1>5. CASE m + 1 # c
  <2>1. a + 1 = c * q + (m + 1) /\ m + 1 \in 0 .. c - 1
    BY <1>1, <1>2, <1>3, <1>5
  <2> DEFINE k == m + 1
  <2>4. k \in 0 .. c - 1 /\ c * q + k \in Nat
    BY <2>1
  <2> HIDE DEF k
  <2>5. (c * q + k) % c = k
    BY <1>1, <2>4, ModUnique
  <2>2. (c * q + (m + 1)) % c = m + 1
    BY <2>5 DEF k
  <2>3. (m + 1) % c = m + 1
    BY <2>1
  <2> QED BY <2>1, <2>2, <2>3 DEF m
<1> QED BY <1>4, <1>5

\* A turn of the ring ends at the same chunk.
LEMMA ModPeriod ==
  ASSUME NEW c \in Nat \ {0}, NEW a \in Nat
  PROVE  (a + c) % c = a % c
<1> DEFINE q == a \div c
           m == a % c
<1>1. q \in Int /\ m \in 0 .. c - 1 /\ q + 1 \in Int
  BY ModRange
<1>2. a = c * q + m
  BY DivMod
<1> HIDE DEF q, m
<1>3. c * q \in Int /\ c * (q + 1) = c * q + c
  BY <1>1
<1>4. a + c = c * (q + 1) + m /\ c * (q + 1) + m \in Nat
  BY <1>1, <1>2, <1>3
<1>5. (c * (q + 1) + m) % c = m
  BY ZenonT(30), <1>1, <1>4, ModUnique
<1> QED BY <1>4, <1>5 DEF m

\* What the proofs use of the ring: positions are chunks, the next position is
\* next_idx, and messages less than MaxChunks apart are in different chunks.
LEMMA Positions ==
  /\ \A n \in Nat : At[n] \in Chunks /\ At[n + 1] = NextIdx(At[n])
  /\ \A m, n \in Nat : m < n /\ n < m + MaxChunks => At[m] # At[n]
  /\ \A n \in Nat : n < MaxChunks => At[n] = n
  /\ \A n \in Nat : At[n + MaxChunks] = At[n]
  /\ At[0] = 0
<1>0. MaxChunks \in Nat \ {0}
  BY QueueAssumption
<1>1. ASSUME NEW n \in Nat PROVE At[n] \in Chunks /\ At[n + 1] = NextIdx(At[n])
  <2>1. n % MaxChunks \in 0 .. MaxChunks - 1
    BY <1>0, ModRange
  <2>2. (n + 1) % MaxChunks = ((n % MaxChunks) + 1) % MaxChunks
    BY ZenonT(30), <1>0, ModNext
  <2>3. At[n] = n % MaxChunks /\ At[n + 1] = (n + 1) % MaxChunks
    BY DEF At
  <2> QED BY <2>1, <2>2, <2>3 DEF Chunks, NextIdx
<1>2. ASSUME NEW m \in Nat, NEW n \in Nat, m < n, n < m + MaxChunks PROVE At[m] # At[n]
  BY ZenonT(30), <1>0, <1>2, ModDistinct DEF At
<1>3. ASSUME NEW n \in Nat, n < MaxChunks PROVE At[n] = n
  BY <1>0, <1>3 DEF At
<1>4. ASSUME NEW n \in Nat PROVE At[n + MaxChunks] = At[n]
  <2>1. (n + MaxChunks) % MaxChunks = n % MaxChunks
    BY ZenonT(30), <1>0, ModPeriod
  <2>2. n + MaxChunks \in Nat
    BY <1>0
  <2> QED BY <2>1, <2>2 DEF At
<1> QED BY <1>0, <1>1, <1>2, <1>3, <1>4

-----------------------------------------------------------------------------
(* The inductive invariant.                                                *)

Filling == wpc \in {"fill", "filling", "reset"}

\* Indices stand for positions; no reader is ahead of the writer nor more than
\* MaxChunks behind it, and one less while the writer refills a chunk.
Indices ==
  /\ widx = At[Pub]
  /\ \A r \in Local : /\ ridx[r] = At[Taken[r]]
                      /\ Taken[r] <= Pub
                      /\ Pub <= Taken[r] + MaxChunks
                      /\ Filling => Pub < Taken[r] + MaxChunks

\* Chunks not yet used, and the chunk being refilled, are not written.
Unwritten ==
  /\ \A i \in Chunks : i >= Pub => ~written[i]
  /\ Filling => ~written[widx]

InWindow(n) == n < Pub /\ Pub <= n + MaxChunks /\ (Filling => Pub < n + MaxChunks)

\* The chunk of a message in the window holds it and knows who has read it.
Window ==
  \A n \in Nat : InWindow(n) =>
    /\ written[At[n]]
    /\ data[At[n]].id = n + 1
    /\ \A r \in Local : readFlag[At[n]][r] <=> Taken[r] > n

\* The message being written.
Writing ==
  /\ wpc \in {"connect", "connectRemote"} => sent = 0
  /\ wpc \notin {"connect", "connectRemote", "idle"} => sent >= 1 /\ msg.id = sent
  /\ wpc = "reset" => /\ data[widx] = msg
                      /\ \A r \in Local : r < reset => ~readFlag[widx][r]
  /\ wpc = "overflow" => /\ data[At[Pub - 1]].overflow
                         /\ \A r \in Local : got[r] < Pub

\* A reader that has found its chunk readable is behind the writer; one that has
\* found it not read and is not behind looks at a chunk that is not written.
Reading ==
  \A r \in Local :
    /\ rpc[r] = "read" => Taken[r] < Pub
    /\ rpc[r] = "written" /\ ~seen[r] /\ Taken[r] = Pub => ~written[ridx[r]]

Connected(r) == wpc # "connect" /\ (r \in Remote => wpc # "connectRemote")

\* The messages a remote reader's socket has been given.
SentRemote == IF wpc \in {"connect", "connectRemote", "idle"} THEN sent ELSE sent - 1

\* Message k reaches local reader r through its socket.
Large(r, k) == k <= Taken[r] \/ data[At[k - 1]].overflow

\* The messages that reader r's socket holds.
Due(r) ==
  {k \in Nat :
     \/ k = READY /\ rpc[r] = "join" /\ Connected(r)
     \/ k > got[r] /\ r \in Remote /\ k <= SentRemote
     \/ k > got[r] /\ r \in Local /\ k <= Pub /\ Large(r, k) /\ ~(wpc = "overflow" /\ k = Pub)}

Sockets ==
  \A r \in Readers :
    /\ Lists(socket[r], Due(r))
    /\ rpc[r] = "new" => ~Connected(r)
    /\ rpc[r] \notin {"new", "join"} => Connected(r)
    /\ r \in Remote => got[r] <= SentRemote /\ rpc[r] \in {"new", "join", "idle", "recv", "failed"}

Counts == \A r \in Readers : last[r] = got[r] /\ rpc[r] # "failed"

IInv ==
  /\ MQTypeOK
  /\ Indices
  /\ Unwritten
  /\ Window
  /\ Writing
  /\ Reading
  /\ Sockets
  /\ Counts

-----------------------------------------------------------------------------
(* Facts used by every step.                                               *)

\* Local readers are integers and no remote reader is one of them.
LEMMA ReaderSets ==
  /\ Local \subseteq Nat /\ Local \subseteq Readers /\ Remote \subseteq Readers
  /\ \A r \in Remote : r \notin Local
  /\ \A r \in Readers : r \in Local \/ r \in Remote
  /\ MaxChunks \in Nat \ {0} /\ NumLocal \in Nat \ {0}
BY QueueAssumption DEF Local, Readers

\* Pub and Taken are numbers.
LEMMA Numbers ==
  ASSUME MQTypeOK, Writing
  PROVE  /\ Pub \in Nat /\ Taken \in [Readers -> Nat]
         /\ \A r \in Readers : Taken[r] = IF r \in Local /\ rpc[r] = "recv" THEN got[r] + 1 ELSE got[r]
         /\ SentRemote \in Nat /\ SentRemote <= Pub
         /\ wpc \notin {"acquire", "fill", "filling", "reset"} => Pub = sent
         /\ wpc \in {"acquire", "fill", "filling", "reset"} => Pub = sent - 1
BY DEF MQTypeOK, Writing, Pub, Taken, Unpublished, SentRemote

\* A step of a reader that leaves the ring and its own counts alone.
LEMMA ReaderFrame ==
  ASSUME IInv, MQTypeOK', Reading',
         UNCHANGED <<ring, writer, ridx, socket, got, last>>,
         \A r \in Local : rpc'[r] = "recv" <=> rpc[r] = "recv",
         \A r \in Readers : /\ rpc[r] = "join" => rpc'[r] = "join"
                            /\ rpc'[r] = "join" => rpc[r] = "join" \/ ~Connected(r)
                            /\ rpc'[r] = "new" => rpc[r] = "new"
                            /\ rpc'[r] \notin {"new", "join"} => rpc[r] \notin {"new", "join"}
                            /\ rpc'[r] # "failed",
         \A r \in Remote : rpc'[r] \in {"new", "join", "idle", "recv", "failed"}
  PROVE  IInv' /\ UNCHANGED Q!queue
<1>1. Taken' = Taken /\ Pub' = Pub /\ Filling' = Filling /\ Phase' = Phase
  BY ReaderSets DEF Taken, Pub, Unpublished, Filling, Phase, writer
<1>2. UNCHANGED <<written, readFlag, data, wpc, widx, msg, reset, sent, ridx, socket, got, last>>
  BY DEF ring, writer
<1>3. Indices'
  BY <1>1, <1>2 DEF IInv, Indices
<1>4. Unwritten'
  BY <1>1, <1>2 DEF IInv, Unwritten
<1>5. Window'
  BY <1>1, <1>2 DEF IInv, Window, InWindow
<1>6. Writing'
  BY <1>1, <1>2 DEF IInv, Writing
<1>7. Sockets'
  <2>1. ASSUME NEW r \in Readers PROVE Due(r)' = Due(r)
    BY <1>1, <1>2 DEF Due, Connected, SentRemote, Large
  <2> QED BY <1>2, <2>1 DEF IInv, Sockets, Connected, SentRemote
<1>8. Counts'
  BY <1>2 DEF IInv, Counts
<1> QED BY <1>1, <1>2, <1>3, <1>4, <1>5, <1>6, <1>7, <1>8 DEF IInv, Q!queue

-----------------------------------------------------------------------------
(* Steps of the writer in the ring.                                        *)

\* enqueue begins.
LEMMA EnqueueStep ==
  ASSUME IInv, NEW overflow \in BOOLEAN, Enqueue(overflow)
  PROVE  IInv' /\ Q!Send
<1>0. MQTypeOK /\ Indices /\ Unwritten /\ Window /\ Writing /\ Reading /\ Sockets /\ Counts
  BY DEF IInv
<1>1. /\ UNCHANGED <<written, readFlag, data, widx, reset, rpc, ridx, seen, notified, socket, got,
                     last, closed>>
      /\ wpc = "idle" /\ wpc' = "acquire" /\ sent' = sent + 1 /\ sent < MaxMessages
      /\ msg' = [id |-> sent + 1, overflow |-> overflow]
  BY DEF Enqueue, ring, reader
<1>2. MQTypeOK'
  BY <1>0, <1>1 DEF MQTypeOK, Message
<1>3. /\ Taken' = Taken /\ Pub' = Pub /\ Filling' = Filling /\ SentRemote' = SentRemote
      /\ Pub = sent /\ sent \in Nat
  BY <1>0, <1>1 DEF Taken, Pub, Unpublished, Filling, SentRemote, MQTypeOK
<1>4. Indices' /\ Unwritten' /\ Window'
  BY <1>0, <1>1, <1>3 DEF Indices, Unwritten, Window, InWindow
<1>5. Writing' /\ Reading' /\ Counts'
  BY <1>0, <1>1, <1>3 DEF Writing, Reading, Counts
<1>6. ASSUME NEW r \in Readers PROVE Due(r)' = Due(r) /\ Connected(r)' = Connected(r)
  BY <1>1, <1>3 DEF Due, Connected, Large
<1>7. Sockets'
  BY <1>0, <1>1, <1>3, <1>6 DEF Sockets
<1>8. Phase = "idle" /\ Phase' = "busy"
  BY <1>1 DEF Phase
<1> QED BY <1>1, <1>2, <1>3, <1>4, <1>5, <1>7, <1>8 DEF IInv, Q!Send

\* The chunk is free: every reader has read what it holds.
LEMMA AcquireWriteStep ==
  ASSUME IInv, AcquireWrite
  PROVE  IInv' /\ UNCHANGED Q!queue
<1>0. MQTypeOK /\ Indices /\ Unwritten /\ Window /\ Writing /\ Reading /\ Sockets /\ Counts
  BY DEF IInv
<1>1. /\ UNCHANGED <<readFlag, data, widx, msg, reset, sent, rpc, ridx, seen, notified, socket, got,
                     last, closed>>
      /\ wpc = "acquire" /\ wpc' = "fill" /\ Writable(widx)
      /\ written' = [written EXCEPT ![widx] = FALSE]
  BY DEF AcquireWrite, reader
<1>2. MQTypeOK'
  BY <1>0, <1>1 DEF MQTypeOK
<1>3. Taken' = Taken /\ Pub' = Pub /\ ~Filling /\ Filling' /\ SentRemote' = SentRemote
  BY <1>0, <1>1 DEF Taken, Pub, Unpublished, Filling, SentRemote
<1>4. Pub \in Nat /\ Taken \in [Readers -> Nat] /\ widx = At[Pub] /\ widx \in Chunks
  BY <1>0, Numbers DEF Indices, MQTypeOK
<1>5. ASSUME NEW r \in Local PROVE Pub < Taken[r] + MaxChunks
  <2>1. CASE Pub < MaxChunks
    BY <1>4, <2>1, ReaderSets
  <2>2. CASE Pub >= MaxChunks
    <3> DEFINE n == Pub - MaxChunks
    <3>1. n \in Nat /\ InWindow(n) /\ n + MaxChunks = Pub
      BY <1>3, <1>4, <2>2, ReaderSets DEF InWindow
    <3>2. At[n] = widx
      BY <1>4, <3>1, Positions
    <3>3. Taken[r] > n
      BY <1>0, <1>1, <3>1, <3>2 DEF Window, Writable
    <3> QED BY <1>4, <3>1, <3>3, ReaderSets
  <2> QED BY <1>4, <2>1, <2>2, ReaderSets
<1>6. Indices' /\ Unwritten'
  BY <1>0, <1>1, <1>3, <1>4, <1>5 DEF Indices, Unwritten, MQTypeOK
<1>7. Window'
  <2>1. ASSUME NEW n \in Nat, InWindow(n)' PROVE InWindow(n) /\ At[n] # widx
    BY <1>3, <1>4, <2>1, Positions, ReaderSets DEF InWindow
  <2> QED BY ZenonT(30), <1>0, <1>1, <1>3, <2>1, Positions DEF Window, MQTypeOK
<1>8. Writing' /\ Reading' /\ Counts'
  BY <1>0, <1>1, <1>3, <1>4 DEF Writing, Reading, Counts, MQTypeOK
<1>9. ASSUME NEW r \in Readers PROVE Due(r)' = Due(r) /\ Connected(r)' = Connected(r)
  BY <1>1, <1>3 DEF Due, Connected, Large
<1>10. Sockets'
  BY <1>0, <1>1, <1>3, <1>9 DEF Sockets
<1>11. Phase' = Phase
  BY <1>1 DEF Phase
<1> QED BY <1>1, <1>2, <1>3, <1>6, <1>7, <1>8, <1>10, <1>11 DEF IInv, Q!queue

\* The chunk is filled, in two steps: no message that a reader is due is in it.
LEMMA FillStep ==
  ASSUME IInv, BeginFill \/ EndFill
  PROVE  IInv' /\ UNCHANGED Q!queue
<1>0. MQTypeOK /\ Indices /\ Unwritten /\ Window /\ Writing /\ Reading /\ Sockets /\ Counts
  BY DEF IInv
<1>1. /\ UNCHANGED <<written, readFlag, widx, msg, sent, rpc, ridx, seen, notified, socket, got,
                     last, closed>>
      /\ wpc \in {"fill", "filling"} /\ wpc' \in {"filling", "reset"}
      /\ \E m \in Message : data' = [data EXCEPT ![widx] = m] /\ (wpc' = "reset" => m = msg)
      /\ wpc' = "reset" => reset' = 0
      /\ reset' \in {0, reset}
  BY <1>0 DEF BeginFill, EndFill, reader, MQTypeOK, Message
<1>2. MQTypeOK'
  BY <1>0, <1>1, ReaderSets DEF MQTypeOK
<1>3. Taken' = Taken /\ Pub' = Pub /\ Filling /\ Filling' /\ SentRemote' = SentRemote
  BY <1>0, <1>1 DEF Taken, Pub, Unpublished, Filling, SentRemote
<1>4. Pub \in Nat /\ Taken \in [Readers -> Nat] /\ widx = At[Pub] /\ widx \in Chunks
  BY <1>0, Numbers DEF Indices, MQTypeOK
<1>5. Indices' /\ Unwritten'
  BY <1>0, <1>1, <1>3 DEF Indices, Unwritten
<1>6. ASSUME NEW n \in Nat, InWindow(n) PROVE At[n] # widx /\ data'[At[n]] = data[At[n]]
  <2>1. At[n] # widx
    BY <1>3, <1>4, <1>6, Positions DEF InWindow
  <2> QED BY <1>0, <1>1, <2>1, Positions DEF MQTypeOK
<1>7. Window'
  BY <1>0, <1>1, <1>3, <1>6 DEF Window, InWindow
<1>8. Writing'
  BY <1>0, <1>1, <1>3, <1>4, ReaderSets DEF Writing, MQTypeOK
<1>9. Reading' /\ Counts'
  BY <1>0, <1>1, <1>3 DEF Reading, Counts
<1>10. ASSUME NEW r \in Readers PROVE Due(r)' = Due(r) /\ Connected(r)' = Connected(r)
  <2>1. Connected(r)' = Connected(r)
    BY <1>1 DEF Connected
  <2>2. ASSUME NEW k \in Nat, r \in Local, k > got[r], k <= Pub
        PROVE  Large(r, k)' <=> Large(r, k)
    <3>1. CASE k <= Taken[r]
      BY <1>3, <3>1 DEF Large
    <3>2. CASE k > Taken[r]
      <4>1. k - 1 \in Nat /\ InWindow(k - 1)
        BY <1>0, <1>3, <1>4, <2>2, <3>2, ReaderSets DEF InWindow, Indices
      <4> QED BY <1>3, <1>6, <4>1 DEF Large
    <3> QED BY <1>4, <3>1, <3>2
  <2>3. wpc # "overflow" /\ wpc' # "overflow"
    BY <1>1
  <2> QED BY <1>1, <1>3, <2>1, <2>2, <2>3 DEF Due
<1>11. Sockets'
  BY <1>0, <1>1, <1>3, <1>10 DEF Sockets
<1>12. Phase' = Phase
  BY <1>1 DEF Phase
<1> QED BY <1>1, <1>2, <1>3, <1>5, <1>7, <1>8, <1>9, <1>11, <1>12 DEF IInv, Q!queue

\* A read flag of the chunk is cleared: nobody looks at this chunk.
LEMMA ResetFlagStep ==
  ASSUME IInv, ResetFlag
  PROVE  IInv' /\ UNCHANGED Q!queue
<1>0. MQTypeOK /\ Indices /\ Unwritten /\ Window /\ Writing /\ Reading /\ Sockets /\ Counts
  BY DEF IInv
<1>1. /\ UNCHANGED <<written, data, wpc, widx, msg, sent, rpc, ridx, seen, notified, socket, got,
                     last, closed>>
      /\ wpc = "reset" /\ reset < NumLocal /\ reset' = reset + 1
      /\ readFlag' = [readFlag EXCEPT ![widx][reset] = FALSE]
  BY DEF ResetFlag, reader
<1>2. MQTypeOK'
  <2>1. readFlag' \in [Chunks -> [Local -> BOOLEAN]]
    BY ZenonT(30), <1>0, <1>1 DEF MQTypeOK
  <2>2. reset' \in 0 .. NumLocal
    BY <1>0, <1>1, ReaderSets DEF MQTypeOK
  <2> QED BY <1>0, <1>1, <2>1, <2>2 DEF MQTypeOK
<1>3. Taken' = Taken /\ Pub' = Pub /\ Filling /\ Filling' /\ SentRemote' = SentRemote
  BY <1>0, <1>1 DEF Taken, Pub, Unpublished, Filling, SentRemote
<1>4. Pub \in Nat /\ widx = At[Pub] /\ widx \in Chunks
  BY <1>0, Numbers DEF Indices, MQTypeOK
<1>5. Indices' /\ Unwritten' /\ Reading' /\ Counts'
  BY <1>0, <1>1, <1>3 DEF Indices, Unwritten, Reading, Counts
<1>6. Window'
  <2>1. ASSUME NEW n \in Nat, InWindow(n) PROVE readFlag'[At[n]] = readFlag[At[n]]
    <3>1. At[n] # widx
      BY <1>3, <1>4, <2>1, Positions DEF InWindow
    <3> QED BY <1>0, <1>1, <3>1, Positions DEF MQTypeOK
  <2> QED BY <1>0, <1>1, <1>3, <2>1 DEF Window, InWindow
<1>7. Writing'
  <2>1. ASSUME NEW r \in Local, r < reset' PROVE ~readFlag'[widx][r]
    BY <1>0, <1>1, <1>4, <2>1, ReaderSets DEF Writing, MQTypeOK
  <2> QED BY <1>0, <1>1, <1>3, <2>1 DEF Writing
<1>8. ASSUME NEW r \in Readers PROVE Due(r)' = Due(r) /\ Connected(r)' = Connected(r)
  BY <1>1, <1>3 DEF Due, Connected, Large
<1>9. Sockets'
  BY <1>0, <1>1, <1>3, <1>8 DEF Sockets
<1>10. Phase' = Phase
  BY <1>1 DEF Phase
<1> QED BY <1>1, <1>2, <1>3, <1>5, <1>6, <1>7, <1>9, <1>10 DEF IInv, Q!queue

\* The chunk is published: it holds the new message, which nobody has read.
LEMMA PublishStep ==
  ASSUME IInv, Publish
  PROVE  IInv' /\ Q!Publish
<1>0. MQTypeOK /\ Indices /\ Unwritten /\ Window /\ Writing /\ Reading /\ Sockets /\ Counts
  BY DEF IInv
<1>1. /\ UNCHANGED <<readFlag, data, msg, reset, sent, rpc, ridx, seen, notified, socket, got,
                     last, closed>>
      /\ wpc = "reset" /\ reset = NumLocal /\ widx' = NextIdx(widx)
      /\ wpc' = IF msg.overflow THEN "overflow" ELSE "notify"
      /\ written' = [written EXCEPT ![widx] = TRUE]
  BY DEF Publish, reader
<1>2. /\ Taken' = Taken /\ Pub' = Pub + 1 /\ Filling /\ ~Filling' /\ SentRemote' = SentRemote
      /\ Pub = sent - 1 /\ Pub' = sent
  BY <1>0, <1>1 DEF Taken, Pub, Unpublished, Filling, SentRemote, MQTypeOK
<1>3. Pub \in Nat /\ Taken \in [Readers -> Nat] /\ widx = At[Pub] /\ widx \in Chunks
  BY <1>0, Numbers DEF Indices, MQTypeOK
<1>4. /\ widx' = At[Pub'] /\ widx' \in Chunks
      /\ \A r \in Local : Taken[r] <= Pub /\ Pub < Taken[r] + MaxChunks
  BY <1>0, <1>1, <1>2, <1>3, Positions DEF Indices
<1>5. MQTypeOK'
  BY <1>0, <1>1, <1>4 DEF MQTypeOK
<1>6. Indices'
  BY <1>0, <1>1, <1>2, <1>3, <1>4, ReaderSets DEF Indices
<1>7. Unwritten'
  <2>1. ASSUME NEW i \in Chunks, i >= Pub' PROVE ~written'[i]
    <3>1. i # widx /\ i >= Pub
      BY <1>2, <1>3, <2>1, Positions, ReaderSets DEF Chunks
    <3> QED BY <1>0, <1>1, <3>1 DEF Unwritten, MQTypeOK
  <2> QED BY <1>2, <2>1 DEF Unwritten
<1>8. Window'
  <2>1. SUFFICES ASSUME NEW n \in Nat, InWindow(n)'
                 PROVE  /\ written'[At[n]]
                        /\ data[At[n]].id = n + 1
                        /\ \A r \in Local : readFlag[At[n]][r] <=> Taken[r] > n
    BY <1>1, <1>2 DEF Window
  <2>2. CASE n = Pub
    <3>1. \A r \in Local : ~readFlag[widx][r]
      BY <1>0, <1>1, ReaderSets DEF Writing, Local
    <3>2. data[widx].id = n + 1
      BY <1>0, <1>1, <1>2, <2>2 DEF Writing, MQTypeOK
    <3> QED BY <1>0, <1>1, <1>3, <1>4, <2>2, <3>1, <3>2, ReaderSets DEF MQTypeOK
  <2>3. CASE n # Pub
    <3>1. InWindow(n) /\ At[n] # widx
      BY <1>2, <1>3, <2>1, <2>3, Positions, ReaderSets DEF InWindow
    <3> QED BY <1>0, <1>1, <3>1, Positions DEF Window, MQTypeOK
  <2> QED BY SMTT(30), <2>2, <2>3
<1>9. \A r \in Local : got[r] \in Nat /\ got[r] <= Taken[r]
  BY SMTT(30), <1>0, <1>3, Numbers, ReaderSets DEF MQTypeOK
<1>10. Writing'
  <2>1. wpc' = "overflow" => data'[At[Pub' - 1]].overflow
    BY <1>0, <1>1, <1>2, <1>3 DEF Writing
  <2>2. \A r \in Local : got'[r] < Pub'
    BY <1>1, <1>2, <1>3, <1>4, <1>9, ReaderSets
  <2> QED BY <1>0, <1>1, <2>1, <2>2 DEF Writing
<1>11. Reading'
  BY <1>0, <1>1, <1>2, <1>3, <1>4, ReaderSets DEF Reading
<1>12. Counts'
  BY <1>0, <1>1 DEF Counts
<1>13. ASSUME NEW r \in Readers PROVE Due(r)' = Due(r) /\ Connected(r)' = Connected(r)
  <2>1. Connected(r)' = Connected(r)
    BY <1>1 DEF Connected
  <2>2. ASSUME NEW k \in Nat PROVE Large(r, k)' <=> Large(r, k)
    BY <1>1, <1>2 DEF Large
  <2>3. r \in Local => (Large(r, Pub + 1) <=> msg.overflow)
    BY <1>0, <1>1, <1>3, <1>4, ReaderSets DEF Large, Writing
  <2>4. ASSUME NEW k \in Nat, r \in Local
        PROVE  (k <= Pub' /\ Large(r, k)' /\ ~(wpc' = "overflow" /\ k = Pub'))
                 <=> (k <= Pub /\ Large(r, k) /\ ~(wpc = "overflow" /\ k = Pub))
    BY <1>1, <1>2, <1>3, <2>2, <2>3, <2>4
  <2> QED BY <1>1, <1>2, <2>1, <2>4 DEF Due
<1>14. Sockets'
  BY <1>0, <1>1, <1>2, <1>13 DEF Sockets
<1>15. Phase = "busy" /\ Phase' = "busy"
  BY <1>1 DEF Phase
<1>16. Q!Publish
  BY <1>1, <1>2, <1>3, <1>4, <1>15, ReaderSets DEF Q!Publish
<1> QED BY <1>5, <1>6, <1>7, <1>8, <1>10, <1>11, <1>12, <1>14, <1>16 DEF IInv

-----------------------------------------------------------------------------
(* Steps of the writer with its sockets.                                   *)

\* A step of the writer outside the ring.
LEMMA WriterFrame ==
  ASSUME IInv, MQTypeOK', Writing', Sockets',
         UNCHANGED <<ring, widx, sent, rpc, ridx, seen, got, last>>,
         ~Unpublished, ~Unpublished'
  PROVE  IInv' /\ UNCHANGED <<sent, Pub, Taken, got, last>>
<1>1. UNCHANGED <<written, readFlag, data, widx, sent, rpc, ridx, seen, got, last>>
  BY DEF ring
<1>2. Taken' = Taken /\ Pub' = Pub /\ ~Filling /\ ~Filling'
  BY <1>1 DEF Taken, Pub, Unpublished, Filling
<1>3. Indices' /\ Unwritten' /\ Window'
  BY <1>1, <1>2 DEF IInv, Indices, Unwritten, Window, InWindow
<1>4. Reading' /\ Counts'
  BY <1>1, <1>2 DEF IInv, Reading, Counts
<1> QED BY <1>1, <1>2, <1>3, <1>4 DEF IInv

\* The large message follows its marker.
LEMMA SendOverflowStep ==
  ASSUME IInv, SendOverflow
  PROVE  IInv' /\ UNCHANGED Q!queue
<1>0. MQTypeOK /\ Indices /\ Writing /\ Sockets
  BY DEF IInv
<1>1. /\ UNCHANGED <<written, readFlag, data, widx, msg, reset, sent, rpc, ridx, seen, notified, got,
                     last, closed>>
      /\ wpc = "overflow" /\ wpc' = "notify"
      /\ socket' = Published(Local, msg.id)
  BY DEF SendOverflow, ring, reader
<1>2. /\ Taken' = Taken /\ Pub' = Pub /\ SentRemote' = SentRemote
      /\ Pub = sent /\ msg.id = Pub /\ Pub \in Nat /\ Pub >= 1
  BY <1>0, <1>1 DEF Taken, Pub, Unpublished, SentRemote, MQTypeOK, Writing
<1>3. /\ \A r \in Local : socket'[r] = Append(socket[r], Pub)
      /\ \A r \in Readers : r \notin Local => socket'[r] = socket[r]
      /\ socket' = [r \in Readers |-> IF r \in Local THEN Append(socket[r], Pub) ELSE socket[r]]
  BY <1>1, <1>2, ReaderSets DEF Published
<1>4. MQTypeOK'
  <2>1. socket' \in [Readers -> Seq(Nat)]
    BY <1>0, <1>2, <1>3 DEF MQTypeOK
  <2> QED BY <1>0, <1>1, <2>1 DEF MQTypeOK
<1>5. Writing'
  BY <1>0, <1>1, <1>2 DEF Writing
<1>6. ASSUME NEW r \in Readers PROVE Connected(r)' = Connected(r)
  BY <1>1 DEF Connected
<1>7. ASSUME NEW r \in Readers PROVE Lists(socket[r], Due(r))'
  <2>1. CASE r \in Remote
    <3>1. r \notin Local /\ Due(r)' = Due(r)
      BY <1>1, <1>2, <1>6, <2>1, ReaderSets DEF Due
    <3> QED BY <1>0, <1>3, <3>1 DEF Sockets
  <2>2. CASE r \in Local
    <3>1. Large(r, Pub) /\ got[r] < Pub
      BY <1>0, <1>1, <2>2 DEF Writing, Large
    <3>2. \A k \in Nat : Large(r, k)' <=> Large(r, k)
      BY <1>1, <1>2 DEF Large
    <3>3. Due(r)' = Due(r) \union {Pub}
      BY <1>1, <1>2, <1>6, <2>2, <3>1, <3>2, ReaderSets DEF Due
    <3>4. \A k \in Due(r) : k < Pub
      BY <1>1, <1>2, <2>2, ReaderSets DEF Due, READY
    <3>5. Lists(socket[r], Due(r))
      BY <1>0 DEF Sockets
    <3>6. Lists(Append(socket[r], Pub), Due(r) \union {Pub})
      BY SMTT(30), <1>2, <3>4, <3>5, ListsAppend
    <3> QED BY <1>3, <2>2, <3>3, <3>6
  <2> QED BY <2>1, <2>2, ReaderSets
<1>8. Sockets'
  BY <1>0, <1>1, <1>2, <1>6, <1>7 DEF Sockets
<1>9. Phase' = Phase /\ ~Unpublished /\ ~Unpublished'
  BY <1>1 DEF Phase, Unpublished
<1> QED BY <1>1, <1>4, <1>5, <1>8, <1>9, WriterFrame DEF Q!queue, ring

\* Notifications reach some readers.
LEMMA NotifyStep ==
  ASSUME IInv, NEW R \in SUBSET Local, Notify(R)
  PROVE  IInv' /\ UNCHANGED Q!queue
<1>0. MQTypeOK /\ Indices /\ Writing /\ Sockets
  BY DEF IInv
<1>1. /\ UNCHANGED <<written, readFlag, data, widx, msg, reset, sent, rpc, ridx, seen, socket, got,
                     last, closed>>
      /\ wpc = "notify" /\ wpc' = "remote"
  BY DEF Notify, ring, reader
<1>2. Taken' = Taken /\ Pub' = Pub /\ SentRemote' = SentRemote
  BY <1>1 DEF Taken, Pub, Unpublished, SentRemote
<1>3. MQTypeOK'
  BY <1>0, <1>1 DEF MQTypeOK, Notify
<1>4. Writing'
  BY <1>0, <1>1, <1>2 DEF Writing
<1>5. ASSUME NEW r \in Readers PROVE Due(r)' = Due(r) /\ Connected(r)' = Connected(r)
  BY <1>1, <1>2 DEF Due, Connected, Large
<1>6. Sockets'
  BY <1>0, <1>1, <1>2, <1>5 DEF Sockets
<1>7. Phase' = Phase /\ ~Unpublished /\ ~Unpublished'
  BY <1>1 DEF Phase, Unpublished
<1> QED BY <1>1, <1>3, <1>4, <1>6, <1>7, WriterFrame DEF Q!queue, ring

\* The message goes to the remote readers and enqueue returns.
LEMMA SendRemoteStep ==
  ASSUME IInv, SendRemote
  PROVE  IInv' /\ Q!Return
<1>0. MQTypeOK /\ Indices /\ Writing /\ Sockets
  BY DEF IInv
<1>1. /\ UNCHANGED <<written, readFlag, data, widx, msg, reset, sent, rpc, ridx, seen, notified, got,
                     last, closed>>
      /\ wpc = "remote" /\ wpc' = "idle"
      /\ socket' = Published(Remote, msg.id)
  BY DEF SendRemote, ring, reader
<1>2. /\ Taken' = Taken /\ Pub' = Pub /\ SentRemote = sent - 1 /\ SentRemote' = sent
      /\ Pub = sent /\ msg.id = sent /\ sent \in Nat /\ sent >= 1
  BY <1>0, <1>1 DEF Taken, Pub, Unpublished, SentRemote, MQTypeOK, Writing
<1>3. /\ \A r \in Remote : socket'[r] = Append(socket[r], sent)
      /\ \A r \in Readers : r \notin Remote => socket'[r] = socket[r]
      /\ socket' = [r \in Readers |-> IF r \in Remote THEN Append(socket[r], sent) ELSE socket[r]]
  BY <1>1, <1>2, ReaderSets DEF Published
<1>4. MQTypeOK'
  <2>1. socket' \in [Readers -> Seq(Nat)]
    BY <1>0, <1>2, <1>3 DEF MQTypeOK
  <2> QED BY <1>0, <1>1, <2>1 DEF MQTypeOK
<1>5. Writing'
  BY <1>0, <1>1, <1>2 DEF Writing
<1>6. ASSUME NEW r \in Readers PROVE Connected(r)' = Connected(r)
  BY <1>1 DEF Connected
<1>7. ASSUME NEW r \in Readers PROVE Lists(socket[r], Due(r))'
  <2>1. CASE r \in Local
    <3>1. \A k \in Nat : Large(r, k)' <=> Large(r, k)
      BY <1>1, <1>2 DEF Large
    <3>2. r \notin Remote /\ Due(r)' = Due(r)
      BY <1>1, <1>2, <1>6, <2>1, <3>1, ReaderSets DEF Due
    <3> QED BY <1>0, <1>3, <3>2 DEF Sockets
  <2>2. CASE r \in Remote
    <3>1. got[r] \in Nat /\ got[r] < sent
      BY <1>0, <1>2, <2>2, ReaderSets DEF Sockets, MQTypeOK
    <3>2. Due(r)' = Due(r) \union {sent}
      BY <1>1, <1>2, <1>6, <2>2, <3>1, ReaderSets DEF Due
    <3>3. \A k \in Due(r) : k < sent
      BY <1>1, <1>2, <2>2, ReaderSets DEF Due, READY
    <3>4. Lists(socket[r], Due(r))
      BY <1>0 DEF Sockets
    <3>5. Lists(Append(socket[r], sent), Due(r) \union {sent})
      BY SMTT(30), <1>2, <3>3, <3>4, ListsAppend
    <3> QED BY <1>3, <2>2, <3>2, <3>5
  <2> QED BY <2>1, <2>2, ReaderSets
<1>8. Sockets'
  <2>1. ASSUME NEW r \in Remote PROVE got[r] <= sent
    BY <1>0, <1>2, <2>1, ReaderSets DEF Sockets, MQTypeOK
  <2> QED BY <1>0, <1>1, <1>2, <1>6, <1>7, <2>1 DEF Sockets
<1>9. Phase = "busy" /\ Phase' = "idle" /\ ~Unpublished /\ ~Unpublished'
  BY <1>1 DEF Phase, Unpublished
<1>10. IInv' /\ UNCHANGED <<sent, Pub, Taken, got, last>>
  BY <1>1, <1>4, <1>5, <1>8, <1>9, WriterFrame DEF ring
<1> QED BY <1>2, <1>9, <1>10 DEF Q!Return

\* The handshake: the readers that have subscribed are told so, nothing else is in
\* their sockets.
LEMMA ReadyStep ==
  ASSUME IInv, NEW R, NEW from, NEW to, Ready(from, R, to),
         \/ from = "connect" /\ R = Local /\ to = "connectRemote"
         \/ from = "connectRemote" /\ R = Remote /\ to = "idle"
  PROVE  IInv' /\ (UNCHANGED Q!queue \/ Q!Start)
<1>0. MQTypeOK /\ Indices /\ Writing /\ Sockets
  BY DEF IInv
<1>1. /\ UNCHANGED <<written, readFlag, data, widx, msg, reset, sent, rpc, ridx, seen, notified, got,
                     last, closed>>
      /\ wpc = from /\ wpc' = to /\ R \subseteq Readers
      /\ \A r \in R : rpc[r] # "new"
      /\ socket' = Published(R, READY)
  BY ZenonT(30), ReaderSets DEF Ready, ring, reader
<1>2. /\ Taken' = Taken /\ Pub' = Pub /\ SentRemote' = 0 /\ SentRemote = 0
      /\ Pub = 0 /\ sent = 0
  BY <1>0, <1>1 DEF Taken, Pub, Unpublished, SentRemote, MQTypeOK, Writing
<1>3. /\ \A r \in R : socket'[r] = Append(socket[r], READY)
      /\ \A r \in Readers : r \notin R => socket'[r] = socket[r]
      /\ socket' = [r \in Readers |-> IF r \in R THEN Append(socket[r], READY) ELSE socket[r]]
  BY <1>1 DEF Published
<1>4. MQTypeOK'
  <2>1. socket' \in [Readers -> Seq(Nat)]
    BY <1>0, <1>3 DEF MQTypeOK, READY
  <2> QED BY <1>0, <1>1, <2>1 DEF MQTypeOK
<1>5. Writing'
  BY <1>0, <1>1, <1>2 DEF Writing
<1>6. /\ \A r \in R : ~Connected(r) /\ Connected(r)' /\ rpc[r] = "join"
      /\ \A r \in Readers : r \notin R => Connected(r)' = Connected(r)
  BY <1>0, <1>1, ReaderSets DEF Connected, Sockets
<1>7. ASSUME NEW r \in Readers PROVE Lists(socket[r], Due(r))'
  <2>0. got[r] \in Nat
    BY <1>0 DEF MQTypeOK
  <2>1. CASE r \notin R
    <3>1. Due(r)' = Due(r)
      BY <1>1, <1>2, <1>6, <2>0, <2>1 DEF Due
    <3> QED BY <1>0, <1>3, <2>1, <3>1 DEF Sockets
  <2>2. CASE r \in R
    <3>1. Due(r) = {}
      BY SMTT(30), <1>2, <1>6, <2>0, <2>2 DEF Due
    <3>2. Due(r)' = {READY}
      BY <1>1, <1>2, <1>6, <2>0, <2>2 DEF Due, READY
    <3>3. Lists(socket[r], {})
      BY <1>0, <3>1 DEF Sockets
    <3>4. Lists(Append(socket[r], READY), {} \union {READY})
      BY <3>3, ListsAppend DEF READY
    <3> QED BY <1>3, <2>2, <3>2, <3>4
  <2> QED BY <2>1, <2>2
<1>8. Sockets'
  BY <1>0, <1>1, <1>2, <1>6, <1>7 DEF Sockets
<1>9. ~Unpublished /\ ~Unpublished'
  BY <1>1 DEF Unpublished
<1>10. IInv' /\ UNCHANGED <<sent, Pub, Taken, got, last>>
  BY <1>1, <1>4, <1>5, <1>8, <1>9, WriterFrame DEF ring
<1>11. Phase = "start" /\ Phase' \in {"start", "idle"}
  BY <1>1 DEF Phase
<1> QED BY <1>10, <1>11 DEF Q!Start, Q!queue

-----------------------------------------------------------------------------
(* Steps of a reader that change nothing but where the reader is.          *)

\* A reader subscribes, begins dequeue, wakes or is cancelled.
LEMMA ReaderMoves ==
  ASSUME IInv, NEW r \in Readers,
         CreateFromHandle(r) \/ Dequeue(r) \/ (r \in Local /\ (Wake(r) \/ Woken(r)))
  PROVE  IInv' /\ UNCHANGED Q!queue
<1>0. MQTypeOK /\ Reading /\ Sockets /\ Counts
  BY DEF IInv
<1>1. /\ UNCHANGED <<ring, writer, ridx, seen, socket, got, last>>
      /\ rpc[r] \in {"new", "idle", "park", "woken"}
      /\ \E x \in {"join", "flag", "recv", "woken", "cancelled"} :
            /\ rpc' = [rpc EXCEPT ![r] = x]
            /\ x = "join" <=> rpc[r] = "new"
            /\ r \in Local => x # "recv"
            /\ r \in Remote => x \in {"join", "recv"}
  BY ReaderSets DEF CreateFromHandle, Dequeue, Wake, Woken
<1>2. MQTypeOK'
  BY ZenonT(30), <1>0, <1>1, ReaderSets DEF MQTypeOK, CreateFromHandle, Dequeue, Wake, Woken, ring, writer
<1>3. Taken' = Taken /\ Pub' = Pub
  BY <1>0, <1>1, ReaderSets DEF Taken, Pub, Unpublished, writer, MQTypeOK
<1>4. Reading'
  BY <1>0, <1>1, <1>3, ReaderSets DEF Reading, MQTypeOK, ring
<1>5. /\ \A q \in Local : rpc'[q] = "recv" <=> rpc[q] = "recv"
      /\ \A q \in Readers : /\ rpc[q] = "join" => rpc'[q] = "join"
                            /\ rpc'[q] = "join" => rpc[q] = "join" \/ ~Connected(q)
                            /\ rpc'[q] = "new" => rpc[q] = "new"
                            /\ rpc'[q] \notin {"new", "join"} => rpc[q] \notin {"new", "join"}
                            /\ rpc'[q] # "failed"
      /\ \A q \in Remote : rpc'[q] \in {"new", "join", "idle", "recv", "failed"}
  BY <1>0, <1>1, ReaderSets DEF MQTypeOK, Sockets, Counts
<1> QED BY <1>1, <1>2, <1>4, <1>5, ReaderFrame

\* The reader loads its own flag: set, if the reader is not behind the writer and
\* the chunk is written.
LEMMA LoadReadFlagStep ==
  ASSUME IInv, NEW r \in Local, LoadReadFlag(r)
  PROVE  IInv' /\ UNCHANGED Q!queue
<1>0. MQTypeOK /\ Reading /\ Sockets /\ Counts /\ Indices /\ Unwritten /\ Window /\ Writing
  BY DEF IInv
<1>1. /\ UNCHANGED <<ring, writer, ridx, socket, got, last>>
      /\ rpc[r] = "flag" /\ rpc' = [rpc EXCEPT ![r] = "written"]
      /\ seen' = [seen EXCEPT ![r] = readFlag[ridx[r]][r]]
  BY DEF LoadReadFlag
<1>2. MQTypeOK'
  BY <1>0, <1>1, ReaderSets DEF MQTypeOK, LoadReadFlag, ring, writer
<1>3. Taken' = Taken /\ Pub' = Pub
  BY <1>0, <1>1, ReaderSets DEF Taken, Pub, Unpublished, writer, MQTypeOK
<1>4. ~readFlag[ridx[r]][r] /\ Taken[r] = Pub => ~written[ridx[r]]
  <2>1. SUFFICES ASSUME ~readFlag[ridx[r]][r], Taken[r] = Pub, written[ridx[r]]
                 PROVE  FALSE
    OBVIOUS
  <2>2. Pub \in Nat /\ ridx[r] = At[Pub] /\ widx = At[Pub] /\ ~Filling
    BY <1>0, <2>1, Numbers DEF Indices, Unwritten
  <2>3. CASE Pub < MaxChunks
    BY <1>0, <2>1, <2>2, <2>3, Positions DEF Unwritten
  <2>4. CASE Pub >= MaxChunks
    <3> DEFINE n == Pub - MaxChunks
    <3>1. n \in Nat /\ InWindow(n) /\ n < Pub
      BY <2>2, <2>4, ReaderSets DEF InWindow
    <3>2. At[n] = At[Pub]
      BY <2>2, <3>1, ReaderSets, Positions
    <3>3. readFlag[At[n]][r] <=> Taken[r] > n
      BY <1>0, <3>1 DEF Window
    <3> QED BY <2>1, <2>2, <3>1, <3>2, <3>3
  <2> QED BY <2>2, <2>3, <2>4, ReaderSets
<1>5. Reading'
  BY <1>0, <1>1, <1>3, <1>4, ReaderSets DEF Reading, MQTypeOK, ring
<1>6. /\ \A q \in Local : rpc'[q] = "recv" <=> rpc[q] = "recv"
      /\ \A q \in Readers : /\ rpc[q] = "join" => rpc'[q] = "join"
                            /\ rpc'[q] = "join" => rpc[q] = "join" \/ ~Connected(q)
                            /\ rpc'[q] = "new" => rpc[q] = "new"
                            /\ rpc'[q] \notin {"new", "join"} => rpc[q] \notin {"new", "join"}
                            /\ rpc'[q] # "failed"
      /\ \A q \in Remote : rpc'[q] \in {"new", "join", "idle", "recv", "failed"}
  BY <1>0, <1>1, ReaderSets DEF MQTypeOK, Sockets, Counts
<1> QED BY <1>1, <1>2, <1>5, <1>6, ReaderFrame

\* The reader loads the writer's flag: the chunk is readable only if the reader is
\* behind the writer.
LEMMA LoadWrittenStep ==
  ASSUME IInv, NEW r \in Local, LoadWritten(r)
  PROVE  IInv' /\ UNCHANGED Q!queue
<1>0. MQTypeOK /\ Reading /\ Sockets /\ Counts /\ Indices /\ Writing
  BY DEF IInv
<1>1. /\ UNCHANGED <<ring, writer, ridx, socket, got, last>>
      /\ rpc[r] = "written"
      /\ seen' = [seen EXCEPT ![r] = FALSE]
      /\ \E x \in {"read", "woken", "park"} :
           /\ rpc' = [rpc EXCEPT ![r] = x]
           /\ x = "read" => written[ridx[r]] /\ ~seen[r]
  BY DEF LoadWritten
<1>2. MQTypeOK'
  BY SMTT(30), <1>0, <1>1, ReaderSets DEF MQTypeOK, LoadWritten, ring, writer
<1>3. Taken' = Taken /\ Pub' = Pub
  BY <1>0, <1>1, ReaderSets DEF Taken, Pub, Unpublished, writer, MQTypeOK
<1>4. written[ridx[r]] /\ ~seen[r] => Taken[r] < Pub
  BY <1>0, <1>1, Numbers, ReaderSets DEF Reading, Indices
<1>5. Reading'
  BY <1>0, <1>1, <1>3, <1>4, ReaderSets DEF Reading, MQTypeOK, ring
<1>6. /\ \A q \in Local : rpc'[q] = "recv" <=> rpc[q] = "recv"
      /\ \A q \in Readers : /\ rpc[q] = "join" => rpc'[q] = "join"
                            /\ rpc'[q] = "join" => rpc[q] = "join" \/ ~Connected(q)
                            /\ rpc'[q] = "new" => rpc[q] = "new"
                            /\ rpc'[q] \notin {"new", "join"} => rpc[q] \notin {"new", "join"}
                            /\ rpc'[q] # "failed"
      /\ \A q \in Remote : rpc'[q] \in {"new", "join", "idle", "recv", "failed"}
  BY <1>0, <1>1, ReaderSets DEF MQTypeOK, Sockets, Counts
<1> QED BY <1>1, <1>2, <1>5, <1>6, ReaderFrame

\* Shutdown only sets shutting_down.
LEMMA ShutdownStep ==
  ASSUME IInv, NEW r \in Closing, Shutdown(r)
  PROVE  IInv' /\ UNCHANGED Q!queue
<1>1. /\ UNCHANGED <<ring, writer, ridx, socket, got, last, rpc, seen>>
      /\ MQTypeOK /\ Reading /\ Sockets /\ Counts
  BY DEF Shutdown, IInv, reader
<1>2. MQTypeOK'
  BY <1>1, QueueAssumption DEF MQTypeOK, Shutdown, ring, writer, reader
<1>3. Taken' = Taken /\ Pub' = Pub
  BY <1>1 DEF Taken, Pub, Unpublished, writer
<1>4. Reading'
  BY <1>1, <1>3 DEF Reading, ring
<1> QED BY <1>1, <1>2, <1>4, ReaderFrame, ReaderSets DEF Sockets, Counts

-----------------------------------------------------------------------------
(* Steps of a reader that take a message.                                  *)

\* The sockets of the other readers.
LEMMA OtherSockets ==
  ASSUME IInv, NEW r \in Readers, UNCHANGED <<data, wpc, sent>>,
         \A q \in Readers : q # r => /\ socket'[q] = socket[q] /\ rpc'[q] = rpc[q]
                                     /\ got'[q] = got[q]
  PROVE  \A q \in Readers : q # r =>
           /\ Lists(socket[q], Due(q))'
           /\ Taken'[q] = Taken[q]
           /\ (rpc[q] = "new" => ~Connected(q))'
           /\ (rpc[q] \notin {"new", "join"} => Connected(q))'
           /\ q \in Remote => /\ got'[q] <= SentRemote'
                              /\ rpc'[q] \in {"new", "join", "idle", "recv", "failed"}
<1> SUFFICES ASSUME NEW q \in Readers, q # r
             PROVE  /\ Lists(socket[q], Due(q))'
                    /\ Taken'[q] = Taken[q]
                    /\ (rpc[q] = "new" => ~Connected(q))'
                    /\ (rpc[q] \notin {"new", "join"} => Connected(q))'
                    /\ q \in Remote => /\ got'[q] <= SentRemote'
                                       /\ rpc'[q] \in {"new", "join", "idle", "recv", "failed"}
  OBVIOUS
<1>1. socket'[q] = socket[q] /\ rpc'[q] = rpc[q] /\ got'[q] = got[q] /\ UNCHANGED <<data, wpc, sent>>
  OBVIOUS
<1>2. Taken'[q] = Taken[q] /\ Pub' = Pub /\ SentRemote' = SentRemote /\ Connected(q)' = Connected(q)
  BY <1>1 DEF Taken, Pub, Unpublished, SentRemote, Connected
<1>3. \A k \in Nat : Large(q, k)' <=> Large(q, k)
  BY <1>1, <1>2 DEF Large
<1>4. Due(q)' = Due(q)
  BY <1>1, <1>2, <1>3 DEF Due
<1> QED BY <1>1, <1>2, <1>4 DEF IInv, Sockets

\* The reader finds READY in its socket.
LEMMA ReaderReadyStep ==
  ASSUME IInv, NEW r \in Readers, ReaderReady(r)
  PROVE  IInv' /\ UNCHANGED Q!queue
<1>0. MQTypeOK /\ Indices /\ Unwritten /\ Window /\ Writing /\ Reading /\ Sockets /\ Counts
  BY DEF IInv
<1>1. /\ UNCHANGED <<written, readFlag, data, wpc, widx, msg, reset, sent, ridx, seen, notified, got,
                     last, closed>>
      /\ rpc[r] = "join" /\ socket[r] # <<>>
      /\ socket' = [socket EXCEPT ![r] = Tail(@)]
      /\ rpc' = [rpc EXCEPT ![r] = IF Head(socket[r]) = READY THEN "idle" ELSE "failed"]
  BY DEF ReaderReady, ring, writer
<1>2. /\ Lists(socket[r], Due(r)) /\ Head(socket[r]) \in Due(r)
      /\ \A k \in Due(r) : Head(socket[r]) <= k
      /\ Lists(Tail(socket[r]), Due(r) \ {Head(socket[r])})
      /\ Head(socket[r]) \in Nat
  BY <1>0, <1>1, ListsTail DEF Sockets
<1>3. got[r] \in Nat /\ SentRemote \in Nat /\ Pub \in Nat
  BY <1>0, Numbers DEF MQTypeOK
<1>4. Connected(r)
  <2>1. SUFFICES ASSUME ~Connected(r) PROVE FALSE
    OBVIOUS
  <2>2. CASE r \in Local
    <3>1. Pub = 0
      BY <1>0, <2>1, <2>2, Numbers, ReaderSets DEF Connected, Writing
    <3> QED BY <1>2, <1>3, <2>1, <2>2, <3>1, ReaderSets DEF Due
  <2>3. CASE r \in Remote
    <3>1. SentRemote = 0
      BY <1>0, <2>1, <2>3 DEF Connected, Writing, SentRemote
    <3> QED BY <1>2, <1>3, <2>1, <2>3, <3>1, ReaderSets DEF Due
  <2> QED BY <2>2, <2>3, ReaderSets
<1>5. Head(socket[r]) = READY
  <2>1. READY \in Due(r)
    BY <1>1, <1>4 DEF Due, READY
  <2> QED BY <1>2, <2>1 DEF READY
<1>6. rpc' = [rpc EXCEPT ![r] = "idle"] /\ rpc'[r] = "idle"
  BY <1>0, <1>1, <1>5 DEF MQTypeOK
<1>7. MQTypeOK'
  <2>1. Tail(socket[r]) \in Seq(Nat)
    BY <1>2 DEF Lists
  <2> QED BY <1>0, <1>1, <1>6, <2>1 DEF MQTypeOK
<1>8. \A q \in Readers : q # r => /\ socket'[q] = socket[q] /\ rpc'[q] = rpc[q] /\ got'[q] = got[q]
  BY <1>0, <1>1, <1>6 DEF MQTypeOK
<1>9. Taken' = Taken /\ Pub' = Pub /\ Filling' = Filling /\ Phase' = Phase /\ SentRemote' = SentRemote
  BY <1>0, <1>1, <1>6, ReaderSets DEF Taken, Pub, Unpublished, Filling, Phase, SentRemote, MQTypeOK
<1>10. Indices' /\ Unwritten' /\ Window'
  BY <1>0, <1>1, <1>9 DEF Indices, Unwritten, Window, InWindow
<1>11. Writing' /\ Counts'
  BY <1>0, <1>1, <1>6, <1>8, <1>9 DEF Writing, Counts
<1>12. Reading'
  BY <1>0, <1>1, <1>6, <1>8, <1>9, ReaderSets DEF Reading
<1>13. Lists(socket[r], Due(r))'
  <2>1. \A k \in Nat : Large(r, k)' <=> Large(r, k)
    BY <1>1, <1>9 DEF Large
  <2>2. Due(r)' = Due(r) \ {READY}
    BY <1>1, <1>3, <1>6, <1>9, <2>1 DEF Due, READY
  <2>3. socket'[r] = Tail(socket[r])
    BY <1>0, <1>1 DEF MQTypeOK
  <2> QED BY <1>2, <1>5, <2>2, <2>3
<1>14. Connected(r)'
  BY SMTT(30), <1>1, <1>4 DEF Connected
<1>15. Sockets'
  BY <1>0, <1>1, <1>6, <1>8, <1>9, <1>13, <1>14, OtherSockets DEF Sockets
<1> QED BY <1>1, <1>7, <1>9, <1>10, <1>11, <1>12, <1>15 DEF IInv, Q!queue

\* The reader marks its chunk and returns the message, or goes on to its socket.
LEMMA MarkReadStep ==
  ASSUME IInv, NEW r \in Local, MarkRead(r)
  PROVE  IInv' /\ (Q!Receive(r) \/ Q!Take(r))
<1>0. MQTypeOK /\ Indices /\ Unwritten /\ Window /\ Writing /\ Reading /\ Sockets /\ Counts
  BY DEF IInv
<1> DEFINE t == Taken[r]
<1>1. /\ UNCHANGED <<written, data, wpc, widx, msg, reset, sent, seen, notified, socket, closed>>
      /\ rpc[r] = "read"
      /\ readFlag' = [readFlag EXCEPT ![ridx[r]][r] = TRUE]
      /\ ridx' = [ridx EXCEPT ![r] = NextIdx(@)]
      /\ \/ /\ data[ridx[r]].overflow
            /\ rpc' = [rpc EXCEPT ![r] = "recv"]
            /\ UNCHANGED <<got, last>>
         \/ /\ ~data[ridx[r]].overflow
            /\ rpc' = [rpc EXCEPT ![r] = "idle"]
            /\ got' = [got EXCEPT ![r] = @ + 1]
            /\ last' = [last EXCEPT ![r] = data[ridx[r]].id]
  BY DEF MarkRead, Returns, writer
<1>2. /\ Pub \in Nat /\ Taken \in [Readers -> Nat] /\ r \in Readers
      /\ t \in Nat /\ t = got[r] /\ t < Pub /\ Pub <= t + MaxChunks
      /\ Filling => Pub < t + MaxChunks
      /\ ridx[r] = At[t] /\ At[t] \in Chunks /\ widx = At[Pub]
  BY <1>0, <1>1, Numbers, ReaderSets, Positions DEF Reading, Indices
<1>3. InWindow(t) /\ data[At[t]].id = t + 1 /\ written[At[t]]
  BY <1>0, <1>2 DEF InWindow, Window
<1>4. NextIdx(At[t]) = At[t + 1] /\ At[t + 1] \in Chunks
  BY <1>2, Positions
<1>5. Pub' = Pub /\ Filling' = Filling /\ Phase' = Phase /\ SentRemote' = SentRemote
  BY <1>1 DEF Pub, Unpublished, Filling, Phase, SentRemote
<1>6. MQTypeOK'
  <2>1. readFlag' \in [Chunks -> [Local -> BOOLEAN]]
    BY <1>0, <1>1, <1>2 DEF MQTypeOK
  <2>2. ridx' \in [Local -> Chunks]
    BY <1>0, <1>1, <1>2, <1>4 DEF MQTypeOK
  <2>3. got' \in [Readers -> Nat] /\ last' \in [Readers -> Nat]
    <3>1. data[ridx[r]].id \in Nat
      BY <1>2, <1>3
    <3>2. got' \in [Readers -> Nat]
      <4>1. UNCHANGED got \/ got' = [got EXCEPT ![r] = @ + 1]
        BY <1>1
      <4>2. got \in [Readers -> Nat]
        BY <1>0 DEF MQTypeOK
      <4> QED BY <4>1, <4>2
    <3>3. UNCHANGED last \/ last' = [last EXCEPT ![r] = data[ridx[r]].id]
      BY <1>1
    <3>4. last \in [Readers -> Nat]
      BY <1>0 DEF MQTypeOK
    <3>5. last' \in [Readers -> Nat]
      BY <3>1, <3>3, <3>4
    <3> QED BY <3>2, <3>5
  <2> QED BY <1>0, <1>1, <1>2, <2>1, <2>2, <2>3 DEF MQTypeOK
<1>7. /\ Taken'[r] = t + 1
      /\ rpc'[r] \in {"recv", "idle"}
      /\ \A q \in Readers : q # r => /\ rpc'[q] = rpc[q] /\ got'[q] = got[q] /\ last'[q] = last[q]
                                     /\ Taken'[q] = Taken[q]
      /\ Taken' = [Taken EXCEPT ![r] = t + 1]
  <2>1. rpc'[r] \in {"recv", "idle"} /\ got'[r] = IF rpc'[r] = "recv" THEN t ELSE t + 1
    BY <1>0, <1>1, <1>2 DEF MQTypeOK
  <2>2. \A q \in Readers : q # r => /\ rpc'[q] = rpc[q] /\ got'[q] = got[q] /\ last'[q] = last[q]
    BY <1>0, <1>1, <1>2 DEF MQTypeOK
  <2>3. Taken'[r] = t + 1
    BY <1>2, <2>1 DEF Taken
  <2>4. \A q \in Readers : q # r => Taken'[q] = Taken[q]
    BY <2>2 DEF Taken
  <2>5. DOMAIN Taken' = Readers
    BY DEF Taken
  <2>6. Taken' = [q \in Readers |-> Taken'[q]]
    BY DEF Taken
  <2> QED BY <1>2, <2>1, <2>2, <2>3, <2>4, <2>6
<1>8. /\ ridx'[r] = At[t + 1]
      /\ \A q \in Local : q # r => ridx'[q] = ridx[q]
      /\ readFlag'[At[t]][r] = TRUE
      /\ \A i \in Chunks, q \in Local : i # At[t] \/ q # r => readFlag'[i][q] = readFlag[i][q]
  BY ZenonT(30), <1>0, <1>1, <1>2, <1>4 DEF MQTypeOK
<1>9. Indices'
  BY <1>0, <1>1, <1>2, <1>5, <1>7, <1>8, ReaderSets DEF Indices
<1>10. Unwritten'
  BY <1>0, <1>1, <1>5 DEF Unwritten
<1>11. Window'
  <2>1. SUFFICES ASSUME NEW n \in Nat, InWindow(n), NEW q \in Local
                 PROVE  readFlag'[At[n]][q] <=> Taken'[q] > n
    BY <1>0, <1>1, <1>5 DEF Window, InWindow
  <2>2. (readFlag[At[n]][q] <=> Taken[q] > n) /\ At[n] \in Chunks
    BY <1>0, <2>1, Positions DEF Window
  <2>3. CASE q # r
    BY <1>7, <1>8, <2>2, <2>3, ReaderSets
  <2>4. CASE q = r /\ n = t
    BY <1>2, <1>7, <1>8, <2>4
  <2>5. CASE q = r /\ n # t
    <3>1. At[n] # At[t]
      <4>1. n < Pub /\ Pub <= n + MaxChunks
        BY <2>1 DEF InWindow
      <4>2. \/ n < t /\ t < n + MaxChunks
            \/ t < n /\ n < t + MaxChunks
        BY <1>2, <2>5, <4>1, ReaderSets
      <4> QED BY <1>2, <4>2, Positions
    <3> QED BY <1>2, <1>7, <1>8, <2>2, <2>5, <3>1
  <2> QED BY <2>3, <2>4, <2>5
<1>12. Writing'
  <2>1. wpc = "reset" => \A q \in Local : q < reset => ~readFlag'[widx][q]
    <3>1. wpc = "reset" => At[t] # widx
      BY <1>2, Positions, ReaderSets DEF Filling
    <3> QED BY <1>0, <1>2, <1>8, <3>1 DEF Writing, MQTypeOK
  <2>2. wpc = "overflow" => \A q \in Local : got'[q] < Pub
    <3>1. SUFFICES ASSUME wpc = "overflow" PROVE got'[r] < Pub
      BY <1>0, <1>7, ReaderSets DEF Writing
    <3>2. CASE t = Pub - 1
      BY <1>0, <1>1, <1>2, <3>1, <3>2 DEF Writing
    <3>3. CASE t # Pub - 1
      BY <1>0, <1>1, <1>2, <3>3 DEF MQTypeOK
    <3> QED BY <3>2, <3>3
  <2> QED BY <1>0, <1>1, <1>5, <2>1, <2>2 DEF Writing
<1>13. Reading'
  BY <1>0, <1>1, <1>5, <1>7, <1>8, ReaderSets DEF Reading
<1>14. Counts'
  <2>1. last'[r] = got'[r] /\ rpc'[r] # "failed"
    BY <1>0, <1>1, <1>2, <1>3 DEF Counts, MQTypeOK
  <2> QED BY <1>0, <1>7, <2>1 DEF Counts
<1>15. Connected(r) /\ Connected(r)'
  BY <1>0, <1>1, <1>2 DEF Sockets, Connected
<1>16. Lists(socket[r], Due(r))'
  <2>1. ASSUME NEW k \in Nat
        PROVE  (k > got'[r] /\ Large(r, k)') <=> (k > got[r] /\ Large(r, k))
    <3>1. Large(r, k)' <=> (k <= t + 1 \/ data[At[k - 1]].overflow)
      BY <1>1, <1>7 DEF Large
    <3>2. Large(r, k) <=> (k <= t \/ data[At[k - 1]].overflow)
      BY DEF Large
    <3>3. CASE data[At[t]].overflow
      <4>1. got'[r] = t
        BY <1>1, <1>2, <3>3
      <4>2. k = t + 1 => data[At[k - 1]].overflow
        BY <1>2, <3>3
      <4> QED BY <1>2, <3>1, <3>2, <4>1, <4>2
    <3>4. CASE ~data[At[t]].overflow
      <4>1. got'[r] = t + 1
        BY <1>0, <1>1, <1>2, <3>4 DEF MQTypeOK
      <4>2. k = t + 1 => ~data[At[k - 1]].overflow
        BY <1>2, <3>4
      <4> QED BY <1>2, <3>1, <3>2, <4>1, <4>2
    <3> QED BY <3>3, <3>4
  <2>2. Due(r)' = Due(r)
    BY <1>1, <1>5, <1>7, <1>15, <2>1, ReaderSets DEF Due
  <2> QED BY <1>0, <1>1, <1>2, <2>2 DEF Sockets
<1>17. Sockets'
  <2>1. \A q \in Readers : q # r => socket'[q] = socket[q] /\ rpc'[q] = rpc[q] /\ got'[q] = got[q]
    BY <1>1, <1>7
  <2>2. r \notin Remote /\ rpc'[r] \notin {"new", "join"}
    BY <1>7, ReaderSets
  <2> QED BY <1>1, <1>2, <1>15, <1>16, <2>1, <2>2, OtherSockets DEF Sockets
<1>18. IInv'
  BY <1>6, <1>9, <1>10, <1>11, <1>12, <1>13, <1>14, <1>17 DEF IInv
<1>19. CASE data[ridx[r]].overflow
  BY <1>1, <1>2, <1>5, <1>7, <1>18, <1>19 DEF Q!Take
<1>20. CASE ~data[ridx[r]].overflow
  <2>1. last' = [last EXCEPT ![r] = got[r] + 1] /\ got' = [got EXCEPT ![r] = @ + 1]
    BY <1>1, <1>2, <1>3, <1>20
  <2> QED BY <1>1, <1>2, <1>5, <1>7, <1>18, <2>1 DEF Q!Receive, Q!Returned
<1> QED BY <1>19, <1>20

\* The reader receives a message from its socket: the one it is due.
LEMMA RecvStep ==
  ASSUME IInv, NEW r \in Readers, Recv(r)
  PROVE  IInv' /\ (Q!Receive(r) \/ Q!Deliver(r))
<1>0. MQTypeOK /\ Indices /\ Unwritten /\ Window /\ Writing /\ Reading /\ Sockets /\ Counts
  BY DEF IInv
<1> DEFINE h == Head(socket[r])
<1>1. /\ UNCHANGED <<written, readFlag, data, wpc, widx, msg, reset, sent, ridx, seen, notified,
                     closed>>
      /\ rpc[r] = "recv" /\ socket[r] # <<>>
      /\ got' = [got EXCEPT ![r] = @ + 1]
      /\ last' = [last EXCEPT ![r] = h]
      /\ socket' = [socket EXCEPT ![r] = Tail(@)]
      /\ rpc' = [rpc EXCEPT ![r] = "idle"]
  BY DEF Recv, Returns, ring, writer
<1>2. /\ h \in Due(r) /\ h \in Nat
      /\ \A k \in Due(r) : h <= k
      /\ Lists(Tail(socket[r]), Due(r) \ {h})
  BY ZenonT(30), <1>0, <1>1, ListsTail DEF Sockets
<1>3. /\ got[r] \in Nat /\ Pub \in Nat /\ SentRemote \in Nat /\ SentRemote <= Pub
      /\ Taken \in [Readers -> Nat]
      /\ Taken[r] = IF r \in Local THEN got[r] + 1 ELSE got[r]
  BY <1>0, <1>1, Numbers DEF MQTypeOK
<1>4. /\ h = got[r] + 1 /\ h <= Pub
      /\ r \in Local => ~(wpc = "overflow" /\ h = Pub)
      /\ r \in Remote => h <= SentRemote
  <2>1. CASE r \in Local
    <3>1. r \notin Remote /\ h > got[r] /\ h <= Pub /\ ~(wpc = "overflow" /\ h = Pub)
      BY <1>1, <1>2, <2>1, ReaderSets DEF Due
    <3>2. ~(wpc = "overflow" /\ got[r] + 1 = Pub)
      BY <1>2, <1>3, <3>1
    <3>3. got[r] + 1 \in Due(r)
      <4>1. Large(r, got[r] + 1)
        BY <1>3, <2>1 DEF Large
      <4>2. got[r] + 1 \in Nat /\ got[r] + 1 > got[r] /\ got[r] + 1 <= Pub
        BY <1>2, <1>3, <3>1
      <4> QED BY <2>1, <3>2, <4>1, <4>2 DEF Due
    <3> QED BY <1>2, <1>3, <3>1, <3>3
  <2>2. CASE r \in Remote
    <3>1. r \notin Local /\ h > got[r] /\ h <= SentRemote
      BY <1>1, <1>2, <2>2, ReaderSets DEF Due
    <3>2. got[r] + 1 \in Due(r)
      BY <1>2, <1>3, <2>2, <3>1 DEF Due
    <3> QED BY <1>2, <1>3, <3>1, <3>2
  <2> QED BY <2>1, <2>2, ReaderSets
<1> HIDE DEF h
<1>5. MQTypeOK'
  <2>1. Tail(socket[r]) \in Seq(Nat)
    BY <1>2 DEF Lists
  <2>2. socket' \in [Readers -> Seq(Nat)]
    BY <1>0, <1>1, <2>1 DEF MQTypeOK
  <2>3. got' \in [Readers -> Nat] /\ last' \in [Readers -> Nat]
    BY <1>0, <1>1, <1>2, <1>3 DEF MQTypeOK
  <2> QED BY <1>0, <1>1, <2>2, <2>3 DEF MQTypeOK
<1>6. Pub' = Pub /\ Filling' = Filling /\ Phase' = Phase /\ SentRemote' = SentRemote
  BY <1>1 DEF Pub, Unpublished, Filling, Phase, SentRemote
<1>7. /\ rpc'[r] = "idle" /\ got'[r] = got[r] + 1 /\ last'[r] = h /\ socket'[r] = Tail(socket[r])
      /\ \A q \in Readers : q # r => /\ rpc'[q] = rpc[q] /\ got'[q] = got[q] /\ last'[q] = last[q]
                                     /\ socket'[q] = socket[q]
  BY <1>0, <1>1 DEF MQTypeOK
<1>8. /\ Taken'[r] = got[r] + 1
      /\ \A q \in Readers : q # r => Taken'[q] = Taken[q]
      /\ Taken' = [q \in Readers |-> Taken'[q]]
  BY <1>7 DEF Taken
<1>9. r \in Local => Taken' = Taken
  BY <1>3, <1>8
<1>10. \A q \in Local : Taken'[q] = Taken[q]
  BY SMTT(30), <1>3, <1>8, ReaderSets
<1>11. Indices' /\ Unwritten'
  BY <1>0, <1>1, <1>6, <1>10 DEF Indices, Unwritten
<1>12. Window'
  BY <1>0, <1>1, <1>6, <1>10 DEF Window, InWindow
<1>13. Writing'
  <2>1. wpc = "overflow" => \A q \in Local : got'[q] < Pub
    BY <1>0, <1>3, <1>4, <1>7, ReaderSets DEF Writing
  <2> QED BY <1>0, <1>1, <1>6, <2>1 DEF Writing
<1>14. Reading'
  BY <1>0, <1>1, <1>6, <1>7, <1>10, ReaderSets DEF Reading
<1>15. Counts'
  BY <1>0, <1>4, <1>7 DEF Counts
<1>16. Connected(r) /\ Connected(r)'
  BY <1>0, <1>1 DEF Sockets, Connected
<1>17. Lists(socket[r], Due(r))'
  <2>1. ASSUME NEW k \in Nat, r \in Local PROVE k > got[r] + 1 => (Large(r, k)' <=> Large(r, k))
    BY <1>1, <1>9, <2>1 DEF Large
  <2>2. Due(r)' = Due(r) \ {h}
    BY SMTT(30), <1>1, <1>3, <1>4, <1>6, <1>7, <2>1, ReaderSets DEF Due
  <2> QED BY <1>2, <1>7, <2>2
<1>18. Sockets'
  <2>1. r \in Remote => got'[r] <= SentRemote'
    BY <1>4, <1>6, <1>7
  <2> QED BY <1>1, <1>7, <1>16, <1>17, <2>1, OtherSockets DEF Sockets
<1>19. IInv'
  BY <1>5, <1>11, <1>12, <1>13, <1>14, <1>15, <1>18 DEF IInv
<1>20. last' = [last EXCEPT ![r] = got[r] + 1]
  BY <1>1, <1>4
<1>21. CASE r \in Local
  <2>1. got[r] < Taken[r]
    BY <1>3, <1>21
  <2> QED BY ZenonT(30), <1>1, <1>6, <1>9, <1>19, <1>20, <1>21, <2>1 DEF Q!Deliver, Q!Returned
<1>22. CASE r \in Remote
  <2>1. r \notin Local /\ Taken[r] = got[r] /\ Taken[r] < Pub
    BY <1>3, <1>4, <1>22, ReaderSets
  <2>2. Taken' = [Taken EXCEPT ![r] = @ + 1]
    BY <1>3, <1>8, <2>1
  <2> QED BY ZenonT(30), <1>1, <1>6, <1>19, <1>20, <2>1, <2>2 DEF Q!Receive, Q!Returned
<1> QED BY <1>21, <1>22, ReaderSets

-----------------------------------------------------------------------------
(* The invariant and its consequences.                                     *)

\* The first state.
LEMMA InitIInv ==
  ASSUME MQInit
  PROVE  IInv /\ Q!QInit
<1>1. MQTypeOK
  BY ReaderSets DEF MQInit, MQTypeOK, Message, Chunks
<1>2. Pub = 0 /\ Taken = [r \in Readers |-> 0] /\ ~Filling /\ Phase = "start" /\ SentRemote = 0
  BY DEF MQInit, Pub, Unpublished, Taken, Filling, Phase, SentRemote
<1>3. Indices
  <2>1. widx = 0 /\ \A r \in Local : ridx[r] = 0 /\ Taken[r] = 0
    BY <1>2, ReaderSets DEF MQInit
  <2> QED BY <1>2, <2>1, Positions, ReaderSets DEF Indices
<1>4. Unwritten /\ Window
  BY <1>2, ReaderSets DEF MQInit, Unwritten, Window, InWindow, Chunks
<1>5. Writing /\ Reading /\ Counts
  <2>1. /\ wpc = "connect" /\ sent = 0
        /\ \A r \in Readers : rpc[r] = "new" /\ last[r] = got[r] /\ socket[r] = <<>> /\ got[r] = 0
    BY DEF MQInit
  <2> QED BY ZenonT(30), <2>1, ReaderSets DEF Writing, Reading, Counts
<1>6. Sockets
  <2>1. ASSUME NEW r \in Readers PROVE Due(r) = {} /\ ~Connected(r)
    BY <1>2 DEF MQInit, Due, Connected
  <2>2. Lists(<<>>, {})
    BY DEF Lists
  <2>3. \A r \in Readers : rpc[r] = "new" /\ socket[r] = <<>> /\ got[r] = 0
    BY DEF MQInit
  <2>4. ASSUME NEW r \in Readers PROVE Lists(socket[r], Due(r))
    BY <2>1, <2>2, <2>3
  <2>5. 0 <= SentRemote
    BY <1>2
  <2> QED BY <2>1, <2>3, <2>4, <2>5 DEF Sockets
<1> QED BY <1>1, <1>2, <1>3, <1>4, <1>5, <1>6 DEF IInv, Q!QInit, MQInit, Q!Readers, Readers

\* A state that does not change.
LEMMA Stutter ==
  ASSUME IInv, UNCHANGED mqVars
  PROVE  IInv' /\ UNCHANGED Q!queue
<1>1. UNCHANGED <<ring, writer, ridx, socket, got, last, rpc, seen, notified, closed>>
  BY DEF mqVars, reader
<1>2. MQTypeOK' /\ Reading'
  <2>1. Taken' = Taken /\ Pub' = Pub
    BY <1>1 DEF Taken, Pub, Unpublished, writer
  <2>2. MQTypeOK'
    BY <1>1 DEF IInv, MQTypeOK, ring, writer
  <2>3. Reading'
    BY <1>1, <2>1 DEF IInv, Reading, ring
  <2> QED BY <2>2, <2>3
<1>3. /\ \A q \in Local : rpc'[q] = "recv" <=> rpc[q] = "recv"
      /\ \A q \in Readers : /\ rpc[q] = "join" => rpc'[q] = "join"
                            /\ rpc'[q] = "join" => rpc[q] = "join" \/ ~Connected(q)
                            /\ rpc'[q] = "new" => rpc[q] = "new"
                            /\ rpc'[q] \notin {"new", "join"} => rpc[q] \notin {"new", "join"}
                            /\ rpc'[q] # "failed"
      /\ \A q \in Remote : rpc'[q] \in {"new", "join", "idle", "recv", "failed"}
  BY <1>1, ReaderSets DEF IInv, Sockets, Counts
<1> QED BY <1>1, <1>2, <1>3, ReaderFrame

\* Every step preserves the invariant and is a step of Broadcast or none.
LEMMA NextIInv ==
  ASSUME IInv, [MQNext]_mqVars
  PROVE  IInv' /\ [Q!QNext]_(Q!queue)
<1>1. ASSUME NEW overflow \in BOOLEAN, Enqueue(overflow)
      PROVE  IInv' /\ Q!QNext
  BY <1>1, EnqueueStep DEF Q!QNext, Q!WriterNext
<1>2. CASE WriterStep
  <2>1. CASE Ready("connect", Local, "connectRemote") \/ Ready("connectRemote", Remote, "idle")
    BY <2>1, ReadyStep DEF Q!QNext, Q!WriterNext
  <2>2. CASE AcquireWrite
    BY <2>2, AcquireWriteStep
  <2>3. CASE BeginFill \/ EndFill
    BY <2>3, FillStep
  <2>4. CASE ResetFlag
    BY <2>4, ResetFlagStep
  <2>5. CASE Publish
    BY <2>5, PublishStep DEF Q!QNext, Q!WriterNext
  <2>6. CASE SendOverflow
    BY <2>6, SendOverflowStep
  <2>7. ASSUME NEW R \in SUBSET Local, Notify(R) PROVE IInv' /\ UNCHANGED Q!queue
    BY <2>7, NotifyStep
  <2>8. CASE SendRemote
    BY <2>8, SendRemoteStep DEF Q!QNext, Q!WriterNext
  <2> QED BY <1>2, <2>1, <2>2, <2>3, <2>4, <2>5, <2>6, <2>7, <2>8 DEF WriterStep, WriterReady
<1>3. ASSUME NEW r \in Readers, ReaderStep(r)
      PROVE  IInv' /\ [Q!QNext]_(Q!queue)
  <2>1. CASE CreateFromHandle(r) \/ Dequeue(r)
    BY <2>1, ReaderMoves
  <2>2. CASE ReaderReady(r)
    BY <2>2, ReaderReadyStep
  <2>3. CASE Recv(r)
    BY <2>3, RecvStep DEF Q!QNext, Q!ReaderNext, Q!Readers, Readers
  <2> QED BY <1>3, <2>1, <2>2, <2>3 DEF ReaderStep
<1>4. ASSUME NEW r \in Local, LocalStep(r)
      PROVE  IInv' /\ [Q!QNext]_(Q!queue)
  <2>1. CASE Wake(r) \/ Woken(r)
    BY <2>1, ReaderMoves, ReaderSets
  <2>2. CASE LoadReadFlag(r)
    BY <2>2, LoadReadFlagStep
  <2>3. CASE LoadWritten(r)
    BY <2>3, LoadWrittenStep
  <2>4. CASE MarkRead(r)
    BY <2>4, MarkReadStep, ReaderSets DEF Q!QNext, Q!ReaderNext, Q!Readers, Readers
  <2> QED BY <1>4, <2>1, <2>2, <2>3, <2>4 DEF LocalStep
<1>5. ASSUME NEW r \in Closing, Shutdown(r)
      PROVE  IInv' /\ UNCHANGED Q!queue
  BY <1>5, ShutdownStep
<1>6. CASE UNCHANGED mqVars
  BY <1>6, Stutter
<1> QED BY <1>1, <1>2, <1>3, <1>4, <1>5, <1>6 DEF MQNext

\* The inductive invariant of the lock-free ring and its sockets.
THEOREM QueueInvariant == MQSpec => []IInv
<1>1. MQInit => IInv
  BY InitIInv
<1>2. IInv /\ [MQNext]_mqVars => IInv'
  BY NextIInv
<1> QED BY <1>1, <1>2, PTL DEF MQSpec

\* No chunk is reused or half written while a reader reads it, whatever the order
\* in which writer and readers load and store the flags.
THEOREM NoOverwriteHolds == MQSpec => []NoOverwrite
<1>1. IInv => NoOverwrite
  <2>1. SUFFICES ASSUME IInv, NEW r \in Local, rpc[r] = "read"
                 PROVE  written[ridx[r]] /\ data[ridx[r]].id = got[r] + 1
    BY DEF NoOverwrite
  <2>2. /\ Pub \in Nat /\ Taken[r] \in Nat /\ Taken[r] = got[r] /\ Taken[r] < Pub
        /\ Pub <= Taken[r] + MaxChunks /\ (Filling => Pub < Taken[r] + MaxChunks)
        /\ ridx[r] = At[Taken[r]]
    BY <2>1, Numbers, ReaderSets DEF IInv, Reading, Indices
  <2>3. InWindow(Taken[r])
    BY <2>2 DEF InWindow
  <2> QED BY <2>1, <2>2, <2>3 DEF IInv, Window
<1> QED BY <1>1, QueueInvariant, PTL

\* dequeue returns the messages in the order of the enqueue calls, to local and to
\* remote readers, and the handshake never meets a message.
THEOREM InOrderHolds == MQSpec => []InOrder
<1>1. IInv => InOrder
  <2>1. SUFFICES ASSUME IInv, NEW r \in Readers
                 PROVE  last[r] = got[r] /\ got[r] <= sent /\ rpc[r] # "failed"
    BY DEF InOrder
  <2>2. /\ Pub \in Nat /\ Pub <= sent /\ SentRemote <= Pub /\ SentRemote \in Nat /\ sent \in Nat
        /\ got[r] \in Nat /\ got[r] <= Taken[r] /\ Taken[r] \in Nat
    <3>1. MQTypeOK /\ Writing
      BY <2>1 DEF IInv
    <3>2. sent \in Nat /\ got[r] \in Nat
      BY <3>1 DEF MQTypeOK
    <3>3. Pub = sent \/ Pub = sent - 1
      BY DEF Pub
    <3> QED BY <3>1, <3>2, <3>3, Numbers
  <2>3. CASE r \in Local
    BY <2>1, <2>2, <2>3 DEF IInv, Indices, Counts
  <2>4. CASE r \in Remote
    BY <2>1, <2>2, <2>4 DEF IInv, Sockets, Counts
  <2> QED BY <2>3, <2>4, ReaderSets
<1> QED BY <1>1, QueueInvariant, PTL

\* The message queue implements the broadcast queue that the executor relies on.
THEOREM QueueImplements == MQSpec => Implements
<1>1. MQInit => Q!QInit
  BY InitIInv
<1>2. IInv /\ [MQNext]_mqVars => [Q!QNext]_(Q!queue)
  BY NextIInv
<1> QED BY <1>1, <1>2, QueueInvariant, PTL DEF MQSpec, Implements, Q!QSpec

=============================================================================
