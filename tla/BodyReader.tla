------------------------------ MODULE BodyReader -------------------------------
(***************************************************************************)
(* readBlobBody: every put of every adapter buffers its body through it.   *)
(* A Uint8Array is measured and copied.  A stream is read chunk by chunk   *)
(* into a buffer that grows as it fills; the stream may end, fail, send    *)
(* something that is no Uint8Array, send more than the limit, or send      *)
(* empty chunks for ever, and cancelling it may hang.                      *)
(*                                                                         *)
(* The body's bytes are numbered 1, 2, 3, ... in the order they are sent.  *)
(* sent and lull are history: what the stream did, not what was kept.      *)
(*                                                                         *)
(* A definition marked "slip" is used nowhere: put in the place of the one *)
(* below it, it is the mistake that a property is there to catch.          *)
(***************************************************************************)
EXTENDS Integers

CONSTANTS
  Limit,            \* limitBytes
  FirstCapacity,    \* the first buffer's size (16 KiB)
  MaxEmpty,         \* MAX_EMPTY_BODY_CHUNKS_WITHOUT_PROGRESS
  MaxChunk          \* bound: the longest chunk a stream sends

ASSUME LimitAssumption == Limit \in Nat
ASSUME FirstCapacityAssumption == FirstCapacity \in Nat \ {0}
ASSUME MaxEmptyAssumption == MaxEmpty \in Nat
ASSUME MaxChunkAssumption == MaxChunk \in Nat \ {0}

VARIABLES
  state,            \* where the promise of readBlobBody stands
  capacity,         \* bytes.byteLength
  bytes,            \* the buffer: bytes[i] is the byte stored at i, 0 if none
  total,            \* how much of the buffer is filled
  empties,          \* emptyChunksWithoutProgress
  cancel,           \* the promise of reader.cancel()
  sent,             \* history: how many bytes the body has sent
  lull              \* history: how many empty chunks it sent in a row

vars == <<state, capacity, bytes, total, empties, cancel, sent, lull>>

Rejected == {"tooLarge", "illegalChunk", "tooManyEmpty", "streamError"}

TypeOK ==
  /\ state \in {"start", "reading", "resolved"} \cup Rejected
  /\ capacity \in Nat
  /\ bytes \in [1..capacity -> Nat]
  /\ total \in Nat
  /\ empties \in Nat
  /\ cancel \in {"none", "pending", "settled"}
  /\ sent \in Nat
  /\ lull \in Nat

Init ==
  /\ state = "start"
  /\ capacity = 0
  /\ bytes = [i \in 1..0 |-> 0]
  /\ total = 0
  /\ empties = 0
  /\ cancel = "none"
  /\ sent = 0
  /\ lull = 0

-------------------------------------------------------------------------------
AtMost(m, n) == IF m <= n THEN m ELSE n
AtLeast(m, n) == IF m >= n THEN m ELSE n

\* slip
DoubledCapacity(needed) ==
  AtLeast(needed, IF capacity = 0 THEN FirstCapacity ELSE 2 * capacity)

\* nextCapacity: double, but at least what is needed now and never past the limit.
NextCapacity(needed) ==
  AtMost(Limit, AtLeast(needed, IF capacity = 0 THEN FirstCapacity ELSE 2 * capacity))

GrownBlank(n) == [i \in 1..n |-> 0]                  \* slip

\* What was filled so far survives in a buffer of n bytes.
Grown(n) == [i \in 1..n |-> IF i <= total THEN bytes[i] ELSE 0]

\* Bytes first..(first + n - 1) of the body stored behind what is filled.
Filled(buffer, size, first, n) ==
  [i \in 1..size |-> IF i \in (total + 1)..(total + n) THEN first + (i - total - 1)
                     ELSE buffer[i]]

\* An empty chunk is no progress.
AfterEmpty(n) == n + 1

StillCounting(n) == n                               \* slip

\* A chunk with bytes in it ends the count.
AfterData(n) == 0

AwaitsCancel(verdict) == "cancelling"               \* slip

\* cancelAndReject: the promise rejects at once, the cancel goes on by itself.
Rejects(verdict) == verdict

-------------------------------------------------------------------------------
\* The body is a Uint8Array of n bytes.
ArrayBody(n) ==
  /\ state = "start"
  /\ sent' = n
  /\ IF n > Limit
     THEN /\ state' = "tooLarge"
          /\ UNCHANGED <<capacity, bytes, total>>
     ELSE /\ state' = "resolved"
          /\ capacity' = n
          /\ bytes' = [i \in 1..n |-> i]
          /\ total' = n
  /\ UNCHANGED <<empties, cancel, lull>>

StreamBody ==
  /\ state = "start"
  /\ state' = "reading"
  /\ UNCHANGED <<capacity, bytes, total, empties, cancel, sent, lull>>

EmptyChunk ==
  /\ state = "reading"
  /\ lull' = lull + 1
  /\ empties' = AfterEmpty(empties)
  /\ IF empties' > MaxEmpty
     THEN state' = Rejects("tooManyEmpty") /\ cancel' = "pending"
     ELSE UNCHANGED <<state, cancel>>
  /\ UNCHANGED <<capacity, bytes, total, sent>>

\* A chunk that does not fit cancels the stream and does not wait for it.
ChunkTooLarge(n) ==
  /\ state = "reading"
  /\ total + n > Limit
  /\ state' = Rejects("tooLarge")
  /\ cancel' = "pending"
  /\ sent' = sent + n
  /\ lull' = 0
  /\ empties' = AfterData(empties)
  /\ UNCHANGED <<capacity, bytes, total>>

\* A chunk that fits is copied: its n bytes, numbered from first on.
ChunkCopied(n, first) ==
  /\ state = "reading"
  /\ total + n <= Limit
  /\ LET full == capacity < total + n
         size == IF full THEN NextCapacity(total + n) ELSE capacity
         room == IF full THEN Grown(size) ELSE bytes
     IN  /\ capacity' = size
         /\ bytes' = Filled(room, size, first, n)
  /\ total' = total + n
  /\ sent' = sent + n
  /\ lull' = 0
  /\ empties' = AfterData(empties)
  /\ UNCHANGED <<state, cancel>>

\* It holds the bytes that follow those sent before.
ChunkKept(n) == ChunkCopied(n, sent + 1)

IllegalChunk ==
  /\ state = "reading"
  /\ state' = "illegalChunk"
  /\ UNCHANGED <<capacity, bytes, total, empties, cancel, sent, lull>>

StreamFails ==
  /\ state = "reading"
  /\ state' = "streamError"
  /\ UNCHANGED <<capacity, bytes, total, empties, cancel, sent, lull>>

\* done: the unfilled end of the buffer is trimmed off.
StreamEnds ==
  /\ state = "reading"
  /\ state' = "resolved"
  /\ capacity' = total
  /\ bytes' = [i \in 1..total |-> bytes[i]]
  /\ UNCHANGED <<total, empties, cancel, sent, lull>>

\* The stream's cancel hook returns, if it ever does.
CancelSettles ==
  /\ cancel = "pending"
  /\ cancel' = "settled"
  /\ UNCHANGED <<state, capacity, bytes, total, empties, sent, lull>>

\* reader.read() answers.
StreamAnswers ==
  \/ EmptyChunk
  \/ \E n \in 1..MaxChunk : ChunkTooLarge(n) \/ ChunkKept(n)
  \/ IllegalChunk
  \/ StreamFails
  \/ StreamEnds

Next ==
  \/ \E n \in 0..(Limit + 1) : ArrayBody(n)
  \/ StreamBody
  \/ StreamAnswers
  \/ CancelSettles

\* The stream keeps answering reads; nothing is assumed of its cancel hook.
Spec == Init /\ [][Next]_vars /\ WF_vars(StreamBody \/ StreamAnswers)

-------------------------------------------------------------------------------
\* A body that is accepted is kept whole: exactly the bytes sent, in order,
\* however they were cut into chunks and however often the buffer grew.
AcceptedWhole ==
  state = "resolved" => capacity = sent /\ \A i \in 1..capacity : bytes[i] = i

\* A body is called too large exactly when it has sent more than the limit,
\* and no more than the limit is ever allocated to find that out.
LimitIsExact ==
  /\ state = "tooLarge" <=> sent > Limit
  /\ capacity <= Limit
  /\ total <= capacity

\* A slow stream is not given up: only MaxEmpty + 1 empty chunks in a row,
\* with no byte between them, are too many.
SlowStreamSurvives == state = "tooManyEmpty" => lull = MaxEmpty + 1

Undecided == state \in {"start", "reading"}

\* How many replies of the stream a put can still wait for: each byte up to the
\* limit may come in a chunk of its own, and MaxEmpty empty ones before it.
ReadsLeft ==
  LET perByte == MaxEmpty + 1
  IN IF state = "start" THEN 2 + Limit * perByte + MaxEmpty
     ELSE IF state = "reading" THEN 1 + (Limit - total) * perByte + (MaxEmpty - empties)
     ELSE 0

\* Every reply, of whatever chunk, brings the put nearer to its end: while it is
\* not decided, nothing happens that leaves as many replies to come as before.
ReadsRunOut == [][Undecided => ReadsLeft' \in 0..(ReadsLeft - 1)]_vars

\* A stream that answers cannot hold a put for ever, be it with endless empty
\* chunks, endless data or a cancel hook that never returns.
BodyIsDecided == <>(state \in {"resolved"} \cup Rejected)
===============================================================================
