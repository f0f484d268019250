-------------------------- MODULE ByteOwnershipProofs ---------------------------
(***************************************************************************)
(* What is proved of readBlobBody, for every limit, first capacity, empty  *)
(* chunk allowance and chunk length; and of the buffers of put and get     *)
(* that others write to, for every set of sources and readers: unless a    *)
(* body's source fills one scratch buffer ahead of the reads, nobody's     *)
(* writes reach the bytes put stores, nor those another reader is given.   *)
(***************************************************************************)
EXTENDS ByteOwnership, TLAPS

-------------------------------------------------------------------------------
(***************************************************************************)
(* readBlobBody, on buffers nobody else writes to.  The inductive          *)
(* invariant: what was sent so far is what is filled, it is filled in      *)
(* order, and the count of empty chunks is that of the lull.               *)
(***************************************************************************)
Counts ==
  /\ total <= capacity /\ capacity <= Limit
  /\ state = "start" => sent = 0 /\ total = 0
  /\ state \notin {"start", "tooLarge"} => sent = total
  /\ state = "resolved" => capacity = total
  /\ state = "tooLarge" => sent > Limit
  /\ Undecided => cancel = "none"

InOrder == \A i \in 1..total : bytes[i] = i

Lulls ==
  /\ state \in {"start", "reading"} => empties = lull /\ lull <= MaxEmpty
  /\ state = "tooManyEmpty" => lull = MaxEmpty + 1

\* What does not depend on the bytes themselves.
Sized == TypeOK /\ Counts /\ Lulls

IInv == TypeOK /\ Counts /\ InOrder /\ Lulls

-------------------------------------------------------------------------------
\* The buffer is enlarged far enough for what is needed and never past the limit.
LEMMA NextCapacityBounds ==
  ASSUME TypeOK, NEW needed \in Nat, needed <= Limit
  PROVE  NextCapacity(needed) \in needed..Limit
BY LimitAssumption, FirstCapacityAssumption
   DEF TypeOK, NextCapacity, AtMost, AtLeast

\* Whatever bytes are copied, a chunk that fits has its room.
LEMMA CopiedSized ==
  ASSUME Sized, NEW n \in 1..MaxChunk, NEW first \in Nat, ChunkCopied(n, first)
  PROVE  Sized' /\ state' = "reading" /\ cancel' = cancel
<1> DEFINE full == capacity < total + n
           size == IF full THEN NextCapacity(total + n) ELSE capacity
           room == IF full THEN Grown(size) ELSE bytes
<1>1. /\ n \in Nat \ {0} /\ total \in Nat /\ capacity \in Nat /\ sent = total
      /\ total <= capacity /\ capacity <= Limit /\ Limit \in Nat /\ total + n <= Limit
      /\ bytes \in [1..capacity -> Nat]
  BY MaxChunkAssumption, LimitAssumption DEF Sized, TypeOK, Counts, Undecided, ChunkCopied
<1>2. size \in Nat /\ total + n <= size /\ size <= Limit
  BY <1>1, NextCapacityBounds DEF Sized
<1>3. capacity' = size /\ bytes' = Filled(room, size, first, n)
  BY DEF ChunkCopied
<1>4. /\ total' = total + n /\ sent' = sent + n /\ lull' = 0 /\ empties' = 0
      /\ state' = "reading" /\ cancel' = cancel
  BY DEF ChunkCopied, AfterData
<1>5. bytes' \in [1..size -> Nat]
  <2>1. ASSUME NEW i \in 1..size, i \notin (total + 1)..(total + n) PROVE room[i] \in Nat
    <3>1. CASE full
      BY <1>1, <3>1 DEF Grown
    <3>2. CASE ~full
      BY <1>1, <3>2
    <3> QED
      BY <3>1, <3>2
  <2>2. ASSUME NEW i \in (total + 1)..(total + n) PROVE first + (i - total - 1) \in Nat
    BY <1>1
  <2> QED
    BY <1>3, <2>1, <2>2 DEF Filled
<1> HIDE DEF size
<1>6. TypeOK'
  BY <1>1, <1>2, <1>3, <1>4, <1>5 DEF TypeOK, Sized
<1>7. cancel = "none" /\ state = "reading" /\ empties = lull
  BY DEF ChunkCopied, Sized, Counts, Undecided, Lulls
<1>8. Counts' /\ Lulls'
  BY <1>1, <1>2, <1>3, <1>4, <1>7, MaxEmptyAssumption DEF Counts, Undecided, Lulls
<1> QED
  BY <1>4, <1>6, <1>8 DEF Sized

\* Growing keeps what is filled, and filling writes behind it.
LEMMA FilledInOrder ==
  ASSUME IInv, NEW n \in Nat \ {0}, NEW size \in Nat, total + n <= size, capacity <= size,
         NEW room \in {bytes, Grown(size)}, room = bytes => size = capacity
  PROVE  /\ Filled(room, size, total + 1, n) \in [1..size -> Nat]
         /\ \A i \in 1..(total + n) : Filled(room, size, total + 1, n)[i] = i
<1>1. total \in Nat /\ capacity \in Nat /\ bytes \in [1..capacity -> Nat] /\ total <= capacity
  BY DEF IInv, TypeOK, Counts, Undecided
<1>2. ASSUME NEW i \in 1..size, i \notin (total + 1)..(total + n)
      PROVE  room[i] \in Nat /\ (i <= total => room[i] = i)
  <2>1. i <= total => bytes[i] = i /\ bytes[i] \in Nat
    BY <1>1 DEF IInv, InOrder
  <2>2. CASE room = bytes
    BY <1>1, <2>1, <2>2
  <2>3. CASE room = Grown(size)
    BY <1>1, <2>1, <2>3 DEF Grown
  <2> QED
    BY <2>2, <2>3
<1>3. ASSUME NEW i \in 1..size
      PROVE  /\ Filled(room, size, total + 1, n)[i] \in Nat
             /\ i <= total + n => Filled(room, size, total + 1, n)[i] = i
  BY <1>1, <1>2 DEF Filled
<1> QED
  BY <1>1, <1>3 DEF Filled

LEMMA KeptStep ==
  ASSUME IInv, NEW n \in 1..MaxChunk, ChunkKept(n)
  PROVE  IInv'
<1> DEFINE full == capacity < total + n
           size == IF full THEN NextCapacity(total + n) ELSE capacity
           room == IF full THEN Grown(size) ELSE bytes
<1>1. /\ n \in Nat \ {0} /\ total \in Nat /\ capacity \in Nat /\ sent = total
      /\ total <= capacity /\ capacity <= Limit /\ Limit \in Nat
  BY MaxChunkAssumption, LimitAssumption DEF IInv, TypeOK, Counts, Undecided, ChunkKept, ChunkCopied
<1>2. size \in Nat /\ total + n <= size /\ capacity <= size /\ size <= Limit
  <2>1. CASE full
    <3>1. NextCapacity(total + n) \in (total + n)..Limit
      BY <1>1, NextCapacityBounds DEF IInv, ChunkKept, ChunkCopied
    <3> QED
      BY <1>1, <2>1, <3>1
  <2>2. CASE ~full
    BY <1>1, <2>2
  <2> QED
    BY <2>1, <2>2
<1>3. capacity' = size /\ bytes' = Filled(room, size, total + 1, n)
  BY <1>1 DEF ChunkKept, ChunkCopied
<1>4. bytes' \in [1..size -> Nat] /\ \A i \in 1..(total + n) : bytes'[i] = i
  <2>1. room \in {bytes, Grown(size)} /\ (~full => room = bytes /\ size = capacity)
    OBVIOUS
  <2>2. CASE full
    <3>1. room = Grown(size) /\ room # bytes
      <4>1. DOMAIN room = 1..size /\ DOMAIN bytes = 1..capacity
        BY <1>1, <2>2 DEF Grown, IInv, TypeOK
      <4>2. size \in DOMAIN room /\ size \notin DOMAIN bytes
        BY <1>1, <1>2, <2>2, <4>1
      <4> QED
        BY <2>2, <4>2
    <3> QED
      BY <1>1, <1>2, <1>3, <3>1, FilledInOrder
  <2>3. CASE ~full
    BY <1>1, <1>2, <1>3, <2>1, <2>3, FilledInOrder
  <2> QED
    BY <2>2, <2>3
<1>5. total' = total + n
  BY <1>1 DEF ChunkKept, ChunkCopied
<1>6. InOrder'
  BY <1>4, <1>5 DEF InOrder
<1>7. Sized'
  BY <1>1, CopiedSized DEF ChunkKept, IInv, Sized
<1> QED
  BY <1>6, <1>7 DEF IInv, Sized

LEMMA IInvInit == Init => IInv
  BY LimitAssumption, MaxEmptyAssumption
     DEF Init, IInv, TypeOK, Counts, Undecided, InOrder, Lulls

LEMMA IInvStep == IInv /\ [Next]_vars => IInv'
<1> SUFFICES ASSUME IInv, [Next]_vars PROVE IInv'
  OBVIOUS
<1> USE LimitAssumption, MaxEmptyAssumption, MaxChunkAssumption
<1>1. ASSUME NEW n \in 0..(Limit + 1), ArrayBody(n) PROVE IInv'
  <2>1. CASE n > Limit
    BY <1>1, <2>1 DEF ArrayBody, IInv, TypeOK, Counts, Undecided, InOrder, Lulls, Rejected
  <2>2. CASE ~(n > Limit)
    BY <1>1, <2>2 DEF ArrayBody, IInv, TypeOK, Counts, Undecided, InOrder, Lulls
  <2> QED
    BY <2>1, <2>2
<1>2. CASE StreamBody
  BY <1>2 DEF StreamBody, IInv, TypeOK, Counts, Undecided, InOrder, Lulls
<1>3. CASE EmptyChunk
  BY <1>3 DEF EmptyChunk, AfterEmpty, Rejects, IInv, TypeOK, Counts, Undecided, InOrder, Lulls, Rejected
<1>4. ASSUME NEW n \in 1..MaxChunk, ChunkTooLarge(n) PROVE IInv'
  BY <1>4 DEF ChunkTooLarge, AfterData, Rejects, IInv, TypeOK, Counts, Undecided, InOrder, Lulls, Rejected
<1>5. ASSUME NEW n \in 1..MaxChunk, ChunkKept(n) PROVE IInv'
  BY <1>5, KeptStep
<1>6. CASE IllegalChunk \/ StreamFails
  BY <1>6 DEF IllegalChunk, StreamFails, IInv, TypeOK, Counts, Undecided, InOrder, Lulls, Rejected
<1>7. CASE StreamEnds
  BY <1>7 DEF StreamEnds, IInv, TypeOK, Counts, Undecided, InOrder, Lulls
<1>8. CASE CancelSettles
  BY <1>8 DEF CancelSettles, IInv, TypeOK, Counts, Undecided, InOrder, Lulls
<1>9. CASE UNCHANGED vars
  BY <1>9 DEF vars, IInv, TypeOK, Counts, Undecided, InOrder, Lulls
<1> QED
  BY <1>1, <1>2, <1>3, <1>4, <1>5, <1>6, <1>7, <1>8, <1>9 DEF Next, StreamAnswers

LEMMA Invariance == Spec => []IInv
  BY IInvInit, IInvStep, PTL DEF Spec

-------------------------------------------------------------------------------
\* Type correctness of the reader.
THEOREM TypeCorrect == Spec => []TypeOK
  BY Invariance, PTL DEF IInv

\* An accepted body is kept byte for byte, however it was cut into chunks.
THEOREM BodyKeptWhole == Spec => []AcceptedWhole
<1>1. IInv => AcceptedWhole
  BY DEF IInv, Counts, Undecided, InOrder, AcceptedWhole
<1> QED
  BY <1>1, Invariance, PTL

\* A body is too large exactly when it sent more than the limit, which no buffer exceeds.
THEOREM LimitExact == Spec => []LimitIsExact
<1>1. IInv => LimitIsExact
  BY LimitAssumption DEF IInv, TypeOK, Counts, Undecided, LimitIsExact, Rejected
<1> QED
  BY <1>1, Invariance, PTL

\* Only MaxEmpty + 1 empty chunks in a row are too many.
THEOREM SlowStreamKept == Spec => []SlowStreamSurvives
<1>1. IInv => SlowStreamSurvives
  BY DEF IInv, Lulls, SlowStreamSurvives
<1> QED
  BY <1>1, Invariance, PTL

-------------------------------------------------------------------------------
(***************************************************************************)
(* A body is decided after so many replies of its stream.                  *)
(***************************************************************************)
\* n bytes more are n allowances of empty chunks less.
LEMMA AllowanceOfBytes ==
  ASSUME NEW left \in Nat, NEW n \in 1..left, NEW perByte \in Nat
  PROVE  /\ left * perByte \in Nat /\ (left - n) * perByte \in Nat
         /\ (left - n) * perByte + perByte <= left * perByte
<1>1. left * perByte = (left - n) * perByte + n * perByte
  OBVIOUS
<1>2. n * perByte = perByte + (n - 1) * perByte /\ (n - 1) * perByte \in Nat
  OBVIOUS
<1>3. (left - n) * perByte \in Nat /\ left * perByte \in Nat
  OBVIOUS
<1> QED
  BY <1>1, <1>2, <1>3

LEMMA DecidedRunsOut ==
  ASSUME Sized, Undecided, state' \in {"resolved"} \cup Rejected
  PROVE  ReadsLeft' \in 0..(ReadsLeft - 1)
<1>1. ReadsLeft' = 0
  BY DEF ReadsLeft, Rejected
<1>2. Limit - total \in Nat /\ MaxEmpty + 1 \in Nat /\ MaxEmpty - empties \in Nat
  BY LimitAssumption, MaxEmptyAssumption DEF Sized, TypeOK, Counts, Undecided, Lulls
<1>3. Limit * (MaxEmpty + 1) \in Nat /\ (Limit - total) * (MaxEmpty + 1) \in Nat
  BY <1>2, LimitAssumption
<1>4. state = "start" => ReadsLeft = 2 + Limit * (MaxEmpty + 1) + MaxEmpty
  BY DEF ReadsLeft
<1>5. state = "reading" => ReadsLeft = 1 + (Limit - total) * (MaxEmpty + 1) + (MaxEmpty - empties)
  BY DEF ReadsLeft
<1> QED
  BY <1>1, <1>2, <1>3, <1>4, <1>5, MaxEmptyAssumption DEF Undecided

LEMMA CopiedRunsOut ==
  ASSUME Sized, NEW n \in 1..MaxChunk, NEW first, ChunkCopied(n, first)
  PROVE  ReadsLeft' \in 0..(ReadsLeft - 1)
<1> DEFINE perByte == MaxEmpty + 1
           left == Limit - total
<1>1. /\ state = "reading" /\ state' = "reading" /\ total' = total + n /\ empties' = 0
      /\ n \in 1..left /\ left \in Nat /\ perByte \in Nat /\ MaxEmpty \in Nat
      /\ MaxEmpty - empties \in Nat /\ empties \in Nat /\ Limit - (total + n) = left - n
  BY LimitAssumption, MaxEmptyAssumption, MaxChunkAssumption
     DEF ChunkCopied, AfterData, Sized, TypeOK, Counts, Undecided, Lulls
<1>2. /\ left * perByte \in Nat /\ (left - n) * perByte \in Nat
      /\ (left - n) * perByte + perByte <= left * perByte
  BY <1>1, AllowanceOfBytes
<1>3. ReadsLeft = 1 + left * perByte + (MaxEmpty - empties)
  BY <1>1 DEF ReadsLeft
<1>4. ReadsLeft' = 1 + (Limit - (total + n)) * perByte + (MaxEmpty - 0)
  BY <1>1 DEF ReadsLeft
<1>5. ReadsLeft' = 1 + (left - n) * perByte + MaxEmpty
  BY <1>1, <1>4
<1>6. perByte = MaxEmpty + 1
  OBVIOUS
<1> HIDE DEF perByte, left
<1> QED
  BY <1>1, <1>2, <1>3, <1>5, <1>6

LEMMA EmptyRunsOut ==
  ASSUME Sized, EmptyChunk
  PROVE  ReadsLeft' \in 0..(ReadsLeft - 1)
<1>1. CASE empties + 1 > MaxEmpty
  BY <1>1, DecidedRunsOut DEF EmptyChunk, AfterEmpty, Rejects, Rejected, Undecided
<1>2. CASE ~(empties + 1 > MaxEmpty)
  <2> DEFINE rest == (Limit - total) * (MaxEmpty + 1)
  <2>1. /\ state = "reading" /\ state' = "reading" /\ total' = total /\ empties' = empties + 1
        /\ Limit - total \in Nat /\ empties \in Nat /\ MaxEmpty \in Nat
    BY <1>2, LimitAssumption, MaxEmptyAssumption
       DEF EmptyChunk, AfterEmpty, Sized, TypeOK, Counts, Undecided, Lulls
  <2>2. rest \in Nat
    BY <2>1
  <2>3. ReadsLeft = 1 + rest + (MaxEmpty - empties)
    BY <2>1 DEF ReadsLeft
  <2>4. ReadsLeft' = 1 + rest + (MaxEmpty - (empties + 1))
    BY <2>1 DEF ReadsLeft
  <2> HIDE DEF rest
  <2> QED
    BY <1>2, <2>1, <2>2, <2>3, <2>4
<1> QED
  BY <1>1, <1>2

LEMMA StartRunsOut ==
  ASSUME Sized, StreamBody
  PROVE  ReadsLeft' \in 0..(ReadsLeft - 1)
<1> DEFINE all == Limit * (MaxEmpty + 1)
<1>1. /\ state = "start" /\ state' = "reading" /\ total' = 0 /\ empties' = empties
      /\ empties \in 0..MaxEmpty /\ Limit \in Nat /\ MaxEmpty \in Nat
  BY LimitAssumption, MaxEmptyAssumption DEF StreamBody, Sized, TypeOK, Counts, Undecided, Lulls
<1>2. all \in Nat
  BY <1>1
<1>3. ReadsLeft = 2 + all + MaxEmpty
  BY <1>1 DEF ReadsLeft
<1>4. ReadsLeft' = 1 + (Limit - 0) * (MaxEmpty + 1) + (MaxEmpty - empties)
  BY <1>1 DEF ReadsLeft
<1>5. ReadsLeft' = 1 + all + (MaxEmpty - empties)
  BY <1>1, <1>4
<1> HIDE DEF all
<1> QED
  BY <1>1, <1>2, <1>3, <1>5

\* The reader's replies, whichever bytes a chunk brings.
LEMMA ReplyRunsOut ==
  ASSUME Sized, Undecided,
         \/ StreamBody \/ EmptyChunk \/ IllegalChunk \/ StreamFails \/ StreamEnds
         \/ \E n \in 0..(Limit + 1) : ArrayBody(n)
         \/ \E n \in 1..MaxChunk : ChunkTooLarge(n) \/ \E first \in Nat : ChunkCopied(n, first)
  PROVE  ReadsLeft' \in 0..(ReadsLeft - 1)
<1>1. CASE IllegalChunk \/ StreamFails \/ StreamEnds
  BY <1>1, DecidedRunsOut DEF IllegalChunk, StreamFails, StreamEnds, Rejected
<1>2. ASSUME NEW n \in 0..(Limit + 1), ArrayBody(n)
      PROVE  ReadsLeft' \in 0..(ReadsLeft - 1)
  BY <1>2, DecidedRunsOut DEF ArrayBody, Rejected
<1>3. ASSUME NEW n \in 1..MaxChunk, ChunkTooLarge(n)
      PROVE  ReadsLeft' \in 0..(ReadsLeft - 1)
  BY <1>3, DecidedRunsOut DEF ChunkTooLarge, Rejects, Rejected
<1> QED
  BY <1>1, <1>2, <1>3, StartRunsOut, EmptyRunsOut, CopiedRunsOut

\* However it is cut into chunks, empty ones among them, a body is decided after
\* so many replies as its limit allows.
THEOREM ReadsEnd == Spec => ReadsRunOut
<1>1. IInv /\ [Next]_vars =>
        [Undecided => ReadsLeft' \in 0..(ReadsLeft - 1)]_vars
  <2> SUFFICES ASSUME IInv, Next, Undecided
               PROVE  ReadsLeft' \in 0..(ReadsLeft - 1) \/ UNCHANGED vars
    OBVIOUS
  <2>1. Sized /\ sent + 1 \in Nat /\ ~CancelSettles
    BY DEF IInv, Sized, TypeOK, Counts, Undecided, CancelSettles
  <2> QED
    BY <2>1, ReplyRunsOut DEF Next, StreamAnswers, ChunkKept
<1> QED
  BY <1>1, Invariance, PTL DEF Spec, ReadsRunOut

-------------------------------------------------------------------------------
(***************************************************************************)
(* The buffers of put and get, which others write to.                      *)
(***************************************************************************)
\* No source fills its scratch buffer while a chunk in it is still queued.
NoScratchAhead == \A s \in Sources : s.scratch => s.highWater = 0

(***************************************************************************)
(* The inductive invariant: nothing is shared, and what a stream has yet   *)
(* to deliver of its snapshot are the bytes that were put.                 *)
(***************************************************************************)
QueueOk ==
  /\ source \in Sources
  /\ queued \in 0..MaxChunk
  /\ queued > 0 => source.highWater = 1

Delivers(s) ==
  /\ s.status = "none" => s.offset = 0
  /\ s.status = "open" =>
       /\ DOMAIN s.snapshot = 1..total /\ s.offset \in 0..total
       /\ \A i \in (s.offset + 1)..total : s.snapshot[i] = i
  /\ s.status = "closed" => s.offset = total

StreamsOk ==
  /\ DOMAIN streams = Readers
  /\ \A r \in Readers :
       /\ streams[r].own /\ streams[r].intact
       /\ DOMAIN streams[r] = DOMAIN NoStream
       /\ streams[r].status \in {"none", "open", "transferred", "closed", "cut"}
       /\ streams[r].status # "none" => state = "resolved"
       /\ Delivers(streams[r])

OwnInv == IInv /\ QueueOk /\ input # "shared" /\ StreamsOk

-------------------------------------------------------------------------------
(***************************************************************************)
(* Of any source, scratch buffers filled ahead included: how much is       *)
(* stored, and where the streams of get stand in it.                       *)
(***************************************************************************)
Shapes ==
  /\ DOMAIN streams = Readers
  /\ \A r \in Readers :
       /\ DOMAIN streams[r] = DOMAIN NoStream
       /\ streams[r].status \in {"none", "open", "transferred", "closed", "cut"}
       /\ streams[r].own /\ streams[r].intact \in BOOLEAN
       /\ DOMAIN streams[r].snapshot \in {1..n : n \in 0..Limit}
       /\ streams[r].offset \in 0..total
       /\ IF streams[r].status = "none" THEN streams[r].offset = 0 ELSE state = "resolved"

Inputs == input \in {"none", "copied", "overwritten"}

AnySourceInv == Sized /\ QueueOk /\ Inputs /\ Shapes

\* The chunks a source may come up with are chunks the body reader knows.
LEMMA ChunkLengthsBound == ChunkLengths \subseteq 1..MaxChunk
  BY MaxChunkAssumption DEF ChunkLengths

LEMMA QueueOkStep == QueueOk /\ [NextOwnership]_allVars => QueueOk'
<1> SUFFICES ASSUME QueueOk, [NextOwnership]_allVars PROVE QueueOk'
  OBVIOUS
<1>0. ChunkLengths \subseteq 0..MaxChunk
  BY ChunkLengthsBound, MaxChunkAssumption
<1>1. CASE PullAhead
  BY <1>0, <1>1 DEF QueueOk, PullAhead
<1>2. CASE ReadQueued
  <2>1. queued' \in 0..MaxChunk /\ source' = source /\ source.highWater = 1
    BY <1>0, <1>2, MaxChunkAssumption DEF QueueOk, ReadQueued
  <2> QED
    BY <2>1 DEF QueueOk
<1>3. CASE UNCHANGED <<source, queued>>
  BY <1>3 DEF QueueOk
<1> QED
  BY <1>1, <1>2, <1>3
     DEF NextOwnership, PutAnswers, PutArray, CallerOverwrites, PutStream, ReadWaits,
         Cancelled, Get, Deliver, Close, ReaderOverwrites, ReaderTransfers, allVars, ownVars

\* What is read is sized right, although a chunk may not hold what was sent.
LEMMA SizedStep ==
  ASSUME AnySourceInv, [NextOwnership]_allVars
  PROVE  Sized' /\ (state = "resolved" => state' = "resolved" /\ total' = total)
<1> USE LimitAssumption, MaxEmptyAssumption, MaxChunkAssumption
<1> /\ Sized /\ sent \in Nat
  BY DEF AnySourceInv, Sized, TypeOK
<1>1. ASSUME NEW n \in 0..(Limit + 1), PutArray(n)
      PROVE  Sized' /\ state # "resolved"
  <2>1. n \in Nat /\ ArrayBody(n)
    BY <1>1 DEF PutArray
  <2>2. CASE n > Limit
    BY <2>1, <2>2 DEF ArrayBody, Sized, TypeOK, Counts, Undecided, Lulls, Rejected
  <2>3. CASE ~(n > Limit)
    BY <2>1, <2>3 DEF ArrayBody, Sized, TypeOK, Counts, Undecided, Lulls
  <2> QED
    BY <2>1, <2>2, <2>3 DEF ArrayBody
<1>2. CASE CallerOverwrites
  BY <1>2 DEF CallerOverwrites, AnySourceInv, Inputs, Sized, TypeOK, Counts, Undecided, Lulls
<1>3. CASE PutStream
  BY <1>3 DEF PutStream, StreamBody, Sized, TypeOK, Counts, Undecided, Lulls
<1>4. ASSUME NEW n \in 1..MaxChunk, NEW first \in Nat, ChunkTooLarge(n) \/ ChunkCopied(n, first)
      PROVE  Sized' /\ state # "resolved"
  <2>1. CASE ChunkTooLarge(n)
    BY <2>1 DEF ChunkTooLarge, AfterData, Rejects, Sized, TypeOK, Counts, Undecided, Lulls, Rejected
  <2> QED
    BY <1>4, <2>1, CopiedSized DEF ChunkTooLarge, ChunkCopied
<1>5. CASE ReadWaits
  <2>1. CASE EmptyChunk
    BY <2>1 DEF EmptyChunk, AfterEmpty, Rejects, Sized, TypeOK, Counts, Undecided, Lulls, Rejected
  <2>2. CASE IllegalChunk \/ StreamFails
    BY <2>2 DEF IllegalChunk, StreamFails, Sized, TypeOK, Counts, Undecided, Lulls, Rejected
  <2>3. CASE StreamEnds
    BY <2>3 DEF StreamEnds, Sized, TypeOK, Counts, Undecided, Lulls
  <2>4. ASSUME NEW n \in ChunkLengths, ChunkTooLarge(n) \/ ChunkCopied(n, CopiedAtOnce(n))
        PROVE  Sized' /\ state # "resolved"
    BY <1>4, <2>4, ChunkLengthsBound DEF CopiedAtOnce
  <2> QED
    BY <1>5, <2>1, <2>2, <2>3, <2>4 DEF ReadWaits, EmptyChunk, IllegalChunk, StreamFails, StreamEnds
<1>6. CASE ReadQueued
  <2>1. queued \in 1..MaxChunk
    BY <1>6 DEF ReadQueued, AnySourceInv, QueueOk
  <2>2. \E first \in Nat : ChunkTooLarge(queued) \/ ChunkCopied(queued, first)
    <3>1. sent + 1 \in Nat /\ sent + 1 + queued \in Nat /\ sent + 1 + 0 \in Nat
      BY <2>1
    <3> QED
      BY <1>6, <3>1 DEF ReadQueued
  <2> QED
    BY <1>4, <2>1, <2>2
<1>7. CASE Cancelled
  BY <1>7 DEF Cancelled, CancelSettles, Sized, TypeOK, Counts, Undecided, Lulls
<1>8. ASSUME UNCHANGED vars
      PROVE  Sized' /\ (state = "resolved" => state' = "resolved" /\ total' = total)
  BY <1>8 DEF vars, Sized, TypeOK, Counts, Undecided, Lulls
<1>9. ASSUME NEW r \in Readers,
             Get(r) \/ Deliver(r) \/ Close(r) \/ ReaderOverwrites(r) \/ ReaderTransfers(r)
      PROVE  UNCHANGED vars
  BY <1>9 DEF Get, Deliver, Close, ReaderOverwrites, ReaderTransfers, AnySourceInv, Shapes, vars
<1>10. CASE UNCHANGED allVars \/ PullAhead
  BY <1>8, <1>10 DEF allVars, PullAhead
<1>11. CASE PutStream \/ CallerOverwrites \/ Cancelled
  BY <1>2, <1>3, <1>7, <1>11 DEF PutStream, StreamBody, CallerOverwrites, Cancelled, CancelSettles
<1> QED
  BY <1>1, <1>5, <1>6, <1>8, <1>9, <1>10, <1>11
     DEF NextOwnership, PutAnswers, ReadWaits, ReadQueued, EmptyChunk, IllegalChunk, StreamFails,
         StreamEnds, ChunkTooLarge, ChunkCopied

LEMMA ShapesStep ==
  ASSUME AnySourceInv, [NextOwnership]_allVars
  PROVE  Shapes'
<1>0. /\ total \in Nat /\ Limit \in Nat /\ total' \in Nat /\ DOMAIN streams = Readers
      /\ state = "resolved" => state' = "resolved" /\ total' = total /\ DOMAIN bytes \in {1..n : n \in 0..Limit}
  BY SizedStep, LimitAssumption DEF AnySourceInv, Sized, TypeOK, Counts, Shapes
<1>1. CASE UNCHANGED streams
  BY <1>0, <1>1 DEF AnySourceInv, Shapes
<1>2. ASSUME NEW r \in Readers,
             Get(r) \/ Deliver(r) \/ Close(r) \/ ReaderOverwrites(r) \/ ReaderTransfers(r)
      PROVE  Shapes'
  <2> DEFINE s == streams[r]
  <2>1. /\ DOMAIN streams' = Readers /\ \A q \in Readers \ {r} : streams'[q] = streams[q]
        /\ state = "resolved" /\ state' = state /\ total' = total
    BY <1>0, <1>2 DEF Get, Deliver, Close, ReaderOverwrites, ReaderTransfers, AnySourceInv, Shapes, vars
  <2>2. /\ DOMAIN s = {"status", "own", "snapshot", "offset", "intact"}
        /\ s.status \in {"none", "open", "transferred", "closed", "cut"}
        /\ s.own /\ s.intact \in BOOLEAN /\ s.offset \in 0..total
        /\ DOMAIN s.snapshot \in {1..n : n \in 0..Limit}
    BY DEF AnySourceInv, Shapes, NoStream
  <2>3. /\ DOMAIN streams'[r] = DOMAIN s
        /\ streams'[r].status \in {"open", "transferred", "closed", "cut"}
        /\ streams'[r].own /\ streams'[r].intact \in BOOLEAN /\ streams'[r].offset \in 0..total
        /\ DOMAIN streams'[r].snapshot \in {1..n : n \in 0..Limit}
    <3>1. CASE Get(r)
      <4>1. streams'[r] = [s EXCEPT !.status = "open", !.own = TRUE, !.snapshot = bytes]
        BY <1>0, <3>1 DEF Get, Snapshotted
      <4> QED
        BY <1>0, <2>1, <2>2, <4>1
    <3>2. CASE Deliver(r)
      <4>1. ChunkEnd(r) \in 0..total
        BY <1>0, <2>2, ChunkOutAssumption DEF ChunkEnd, AtMost
      <4>2. PICK b \in BOOLEAN : streams'[r] = [s EXCEPT !.offset = ChunkEnd(r), !.intact = b]
        BY <1>0, <2>2, <3>2 DEF Deliver
      <4>3. /\ DOMAIN streams'[r] = DOMAIN s /\ streams'[r].intact = b
            /\ streams'[r].offset = ChunkEnd(r) /\ streams'[r].own = s.own
            /\ streams'[r].status = s.status /\ streams'[r].snapshot = s.snapshot
        BY <2>2, <4>2
      <4>4. s.status = "open"
        BY <3>2 DEF Deliver
      <4> QED
        BY <2>2, <4>1, <4>3, <4>4
    <3>3. CASE Close(r)
      BY <1>0, <2>2, <3>3 DEF Close
    <3>4. CASE ReaderOverwrites(r)
      <4>1. streams'[r] = [s EXCEPT !.snapshot =
                             [i \in DOMAIN s.snapshot |-> IF i <= s.offset THEN 0 ELSE s.snapshot[i]]]
        BY <1>0, <2>2, <3>4 DEF ReaderOverwrites
      <4> QED
        BY <2>2, <3>4, <4>1 DEF ReaderOverwrites
    <3>5. CASE ReaderTransfers(r)
      <4>1. streams'[r] = [s EXCEPT !.status = "transferred", !.snapshot = [i \in 1..0 |-> 0]]
        BY <1>0, <3>5 DEF ReaderTransfers
      <4>2. DOMAIN [i \in 1..0 |-> 0] = 1..0 /\ 0 \in 0..Limit
        BY <1>0
      <4> QED
        BY <2>2, <4>1, <4>2
    <3> QED
      BY <1>2, <3>1, <3>2, <3>3, <3>4, <3>5
  <2>4. \A q \in Readers \ {r} :
          /\ DOMAIN streams[q] = DOMAIN NoStream
          /\ streams[q].status \in {"none", "open", "transferred", "closed", "cut"}
          /\ streams[q].own /\ streams[q].intact \in BOOLEAN
          /\ DOMAIN streams[q].snapshot \in {1..n : n \in 0..Limit}
          /\ streams[q].offset \in 0..total
          /\ IF streams[q].status = "none" THEN streams[q].offset = 0 ELSE state = "resolved"
    BY DEF AnySourceInv, Shapes
  <2> QED
    BY <2>1, <2>2, <2>3, <2>4 DEF Shapes, NoStream
<1> QED
  BY <1>1, <1>2
     DEF NextOwnership, PutAnswers, PutArray, CallerOverwrites, PutStream, ReadWaits,
         ReadQueued, Cancelled, PullAhead, allVars, ownVars

LEMMA AnySourceStep == AnySourceInv /\ [NextOwnership]_allVars => AnySourceInv'
<1> SUFFICES ASSUME AnySourceInv, [NextOwnership]_allVars PROVE AnySourceInv'
  OBVIOUS
<1>1. Inputs'
  BY DEF AnySourceInv, Inputs, NextOwnership, PutAnswers, PutArray, ArrayCopied, CallerOverwrites,
         PutStream, ReadWaits, ReadQueued, Cancelled, PullAhead, Get, Deliver, Close,
         ReaderOverwrites, ReaderTransfers, allVars, ownVars
<1> QED
  BY <1>1, SizedStep, ShapesStep, QueueOkStep DEF AnySourceInv

LEMMA AnySourceInit == InitOwnership => AnySourceInv
<1> SUFFICES ASSUME InitOwnership PROVE AnySourceInv
  OBVIOUS
<1>1. Sized /\ total = 0 /\ Limit \in Nat
  BY IInvInit, LimitAssumption DEF InitOwnership, IInv, Sized, Init
<1>2. QueueOk /\ Inputs
  BY MaxChunkAssumption DEF InitOwnership, QueueOk, Inputs
<1>3. Shapes
  <2>1. /\ NoStream.status = "none" /\ NoStream.own /\ NoStream.intact /\ NoStream.offset = 0
        /\ DOMAIN NoStream.snapshot = 1..0 /\ 0 \in 0..Limit
    BY <1>1 DEF NoStream
  <2>2. NoStream.intact \in BOOLEAN /\ DOMAIN NoStream.snapshot \in {1..n : n \in 0..Limit}
    BY <2>1
  <2>3. \A r \in Readers : streams[r] = NoStream
    BY DEF InitOwnership
  <2>4. DOMAIN streams = Readers /\ 0 \in 0..total
    BY <1>1 DEF InitOwnership
  <2> QED
    BY <2>1, <2>2, <2>3, <2>4 DEF Shapes
<1> QED
  BY <1>1, <1>2, <1>3 DEF AnySourceInv

\* No stream of get is ahead of what is stored, and no buffer of put or get is
\* longer than the limit, whatever the sources and the readers do.
THEOREM OwnershipTypeCorrect == SpecOwnership => []OwnershipTypeOK
<1>1. AnySourceInv => OwnershipTypeOK
  BY DEF AnySourceInv, Sized, QueueOk, Inputs, Shapes, OwnershipTypeOK
<1> QED
  BY <1>1, AnySourceInit, AnySourceStep, PTL DEF SpecOwnership

\* A source that overwrites its chunks spoils the bytes and nothing else: it can
\* pass no more than the limit, and is not given up any sooner.
THEOREM OwnersKeepLimits == SpecOwnership => [](LimitIsExact /\ SlowStreamSurvives)
<1>1. AnySourceInv => LimitIsExact /\ SlowStreamSurvives
  BY LimitAssumption
     DEF AnySourceInv, Sized, TypeOK, Counts, Undecided, Lulls, LimitIsExact, SlowStreamSurvives, Rejected
<1> QED
  BY <1>1, AnySourceInit, AnySourceStep, PTL DEF SpecOwnership

\* Nor do they keep put waiting: what they hold and overwrite is no reply, and a chunk
\* taken from the queue counts like one that was waited for.
THEOREM OwnersReadsEnd == SpecOwnership => ReadsRunOut
<1>1. AnySourceInv /\ [NextOwnership]_allVars =>
        [Undecided => ReadsLeft' \in 0..(ReadsLeft - 1)]_vars
  <2> SUFFICES ASSUME AnySourceInv, [NextOwnership]_allVars, Undecided
               PROVE  ReadsLeft' \in 0..(ReadsLeft - 1) \/ UNCHANGED vars
    OBVIOUS
  <2>1. Sized /\ sent \in Nat /\ ~Cancelled
    BY DEF AnySourceInv, Sized, TypeOK, Counts, Undecided, Cancelled, CancelSettles
  <2>2. CASE \E n \in 0..(Limit + 1) : PutArray(n)
    BY <2>1, <2>2, ReplyRunsOut DEF PutArray
  <2>3. CASE PutStream
    BY <2>1, <2>3, ReplyRunsOut DEF PutStream
  <2>4. CASE ReadWaits
    <3>1. ASSUME NEW n \in ChunkLengths, ChunkTooLarge(n) \/ ChunkCopied(n, CopiedAtOnce(n))
          PROVE  ReadsLeft' \in 0..(ReadsLeft - 1)
      <4>1. n \in 1..MaxChunk /\ CopiedAtOnce(n) \in Nat
        BY <2>1, ChunkLengthsBound DEF CopiedAtOnce
      <4> QED
        BY <2>1, <3>1, <4>1, ReplyRunsOut
    <3> QED
      BY <2>1, <2>4, <3>1, ReplyRunsOut DEF ReadWaits
  <2>5. CASE ReadQueued
    <3>1. queued \in 1..MaxChunk
      BY <2>5 DEF ReadQueued, AnySourceInv, QueueOk
    <3>2. \E first \in Nat : ChunkTooLarge(queued) \/ ChunkCopied(queued, first)
      <4>1. sent + 1 \in Nat /\ sent + 1 + queued \in Nat /\ sent + 1 + 0 \in Nat
        BY <2>1, <3>1, MaxChunkAssumption
      <4> QED
        BY <2>5, <4>1 DEF ReadQueued
    <3> QED
      BY <2>1, <3>1, <3>2, ReplyRunsOut
  <2>6. CASE CallerOverwrites
    BY <2>6 DEF CallerOverwrites, AnySourceInv, Inputs, vars
  <2>7. CASE PullAhead \/ UNCHANGED allVars
    BY <2>7 DEF PullAhead, allVars
  <2>8. ASSUME NEW r \in Readers,
               Get(r) \/ Deliver(r) \/ Close(r) \/ ReaderOverwrites(r) \/ ReaderTransfers(r)
        PROVE  UNCHANGED vars
    BY <2>8 DEF Get, Deliver, Close, ReaderOverwrites, ReaderTransfers, AnySourceInv, Shapes, vars
  <2> QED
    BY <2>1, <2>2, <2>3, <2>4, <2>5, <2>6, <2>7, <2>8 DEF NextOwnership, PutAnswers
<1> QED
  BY <1>1, AnySourceInit, AnySourceStep, PTL DEF SpecOwnership, ReadsRunOut

-------------------------------------------------------------------------------
\* Every step is one the body reader takes on bytes of its own, or none.
LEMMA ReaderStep ==
  ASSUME NoScratchAhead, OwnInv, [NextOwnership]_allVars
  PROVE  [Next]_vars
<1>1. ASSUME NEW n \in 0..(Limit + 1), PutArray(n) PROVE Next
  BY <1>1 DEF PutArray, Next
<1>2. CASE CallerOverwrites
  BY <1>2 DEF CallerOverwrites, OwnInv, vars
<1>3. CASE PutStream
  BY <1>3 DEF PutStream, Next
<1>4. CASE ReadWaits
  BY <1>4, ChunkLengthsBound DEF ReadWaits, CopiedAtOnce, ChunkKept, StreamAnswers, Next
<1>5. CASE ReadQueued
  <2>1. queued \in 1..MaxChunk /\ ~source.scratch
    BY <1>5, SourcesAssumption, MaxChunkAssumption
       DEF ReadQueued, OwnInv, QueueOk, NoScratchAhead
  <2>2. sent \in Nat
    BY DEF OwnInv, IInv, TypeOK
  <2>3. ChunkTooLarge(queued) \/ ChunkCopied(queued, sent + 1)
    BY <1>5, <2>1, <2>2 DEF ReadQueued
  <2> QED
    BY <2>1, <2>3 DEF ChunkKept, StreamAnswers, Next
<1>6. CASE Cancelled
  BY <1>6 DEF Cancelled, Next
<1>7. CASE PullAhead
  BY <1>7 DEF PullAhead
<1>8. ASSUME NEW r \in Readers,
             Get(r) \/ Deliver(r) \/ Close(r) \/ ReaderOverwrites(r) \/ ReaderTransfers(r)
      PROVE  UNCHANGED vars
  BY <1>8 DEF Get, Deliver, Close, ReaderOverwrites, ReaderTransfers, OwnInv, StreamsOk, vars
<1>9. CASE UNCHANGED allVars
  BY <1>9 DEF allVars
<1> QED
  BY <1>1, <1>2, <1>3, <1>4, <1>5, <1>6, <1>7, <1>8, <1>9 DEF NextOwnership, PutAnswers

\* Once a body is stored, only its own cancel promise still changes.
LEMMA StoredIsFinal ==
  ASSUME OwnInv, state = "resolved", [Next]_vars
  PROVE  state' = "resolved" /\ total' = total /\ bytes' = bytes
BY DEF Next, ArrayBody, StreamBody, StreamAnswers, EmptyChunk, ChunkTooLarge, ChunkKept,
       ChunkCopied, IllegalChunk, StreamFails, StreamEnds, CancelSettles, vars

\* A step that leaves the streams alone leaves them as they should be.
LEMMA StreamsUntouched ==
  ASSUME OwnInv, [Next]_vars, UNCHANGED streams
  PROVE  StreamsOk'
<1>1. CASE state = "resolved"
  BY <1>1, StoredIsFinal DEF OwnInv, StreamsOk, Delivers
<1>2. CASE state # "resolved"
  BY <1>2 DEF OwnInv, StreamsOk, Delivers
<1> QED
  BY <1>1, <1>2

\* A step of one reader touches no stream but its own.
LEMMA StreamStep ==
  ASSUME OwnInv, NEW r \in Readers, UNCHANGED vars,
         Get(r) \/ Deliver(r) \/ Close(r) \/ ReaderOverwrites(r) \/ ReaderTransfers(r)
  PROVE  StreamsOk'
<1>1. /\ streams[r].own /\ streams[r].intact
      /\ DOMAIN streams[r] = {"status", "own", "snapshot", "offset", "intact"}
      /\ streams[r].status # "none" => state = "resolved"
      /\ Delivers(streams[r])
  BY DEF OwnInv, StreamsOk, NoStream
<1>2. total \in Nat /\ (state = "resolved" => capacity = total /\ DOMAIN bytes = 1..total)
  BY DEF OwnInv, IInv, TypeOK, Counts, Undecided
<1>3. state' = state /\ total' = total
  BY DEF vars
<1>4. DOMAIN streams' = Readers /\ \A q \in Readers \ {r} : streams'[q] = streams[q]
  BY DEF Get, Deliver, Close, ReaderOverwrites, ReaderTransfers, OwnInv, StreamsOk
<1>5. /\ streams'[r].own /\ streams'[r].intact
      /\ DOMAIN streams'[r] = DOMAIN NoStream
      /\ streams'[r].status \in {"none", "open", "transferred", "closed", "cut"}
      /\ state = "resolved"
      /\ Delivers(streams'[r])
  <2> DEFINE s == streams[r]
  <2>0. DOMAIN streams = Readers /\ r \in DOMAIN streams
    BY DEF OwnInv, StreamsOk
  <2>1. CASE Get(r)
    <3>1. streams'[r] = [s EXCEPT !.status = "open", !.own = TRUE, !.snapshot = bytes]
      BY <2>0, <2>1 DEF Get, Snapshotted
    <3>2. s.status = "none" /\ s.offset = 0 /\ state = "resolved"
      BY <1>1, <2>1 DEF Get, Delivers
    <3>3. \A i \in 1..total : bytes[i] = i
      BY DEF OwnInv, IInv, InOrder
    <3> QED
      BY <1>1, <1>2, <1>3, <3>1, <3>2, <3>3 DEF Delivers, NoStream
  <2>2. CASE Deliver(r)
    <3>1. /\ s.status = "open" /\ s.offset \in 0..total /\ s.offset < total
          /\ DOMAIN s.snapshot = 1..total /\ state = "resolved"
          /\ \A i \in (s.offset + 1)..total : s.snapshot[i] = i
      BY <1>1, <2>2 DEF Deliver, Delivers
    <3>2. ChunkEnd(r) \in s.offset..total
      BY <1>2, <3>1, ChunkOutAssumption DEF ChunkEnd, AtMost
    <3>3. \A i \in DOMAIN Snapshot(r) : i \in (s.offset + 1)..ChunkEnd(r) => Snapshot(r)[i] = i
      BY <1>1, <1>2, <3>1, <3>2 DEF Snapshot
    <3>4. streams'[r] = [s EXCEPT !.offset = ChunkEnd(r), !.intact = TRUE]
      BY <1>1, <2>0, <2>2, <3>3 DEF Deliver
    <3> QED
      BY <1>1, <1>2, <1>3, <3>1, <3>2, <3>4 DEF Delivers, NoStream
  <2>3. CASE Close(r)
    BY <1>1, <1>2, <1>3, <2>0, <2>3 DEF Close, Delivers, NoStream
  <2>4. CASE ReaderOverwrites(r)
    <3>1. /\ s.status = "open" /\ s.offset \in 0..total
          /\ DOMAIN s.snapshot = 1..total /\ state = "resolved"
          /\ \A i \in (s.offset + 1)..total : s.snapshot[i] = i
      BY <1>1, <2>4 DEF ReaderOverwrites, Delivers
    <3>2. streams'[r] = [s EXCEPT !.snapshot =
                           [i \in DOMAIN s.snapshot |-> IF i <= s.offset THEN 0 ELSE s.snapshot[i]]]
      BY <1>1, <2>0, <2>4 DEF ReaderOverwrites
    <3> QED
      BY <1>1, <1>2, <1>3, <3>1, <3>2 DEF Delivers, NoStream
  <2>5. CASE ReaderTransfers(r)
    BY <1>1, <1>2, <1>3, <2>0, <2>5 DEF ReaderTransfers, Delivers, NoStream
  <2> QED
    BY <2>1, <2>2, <2>3, <2>4, <2>5
<1> QED
  BY <1>3, <1>4, <1>5 DEF OwnInv, StreamsOk, Delivers

LEMMA OwnInvInit == InitOwnership => OwnInv
<1> SUFFICES ASSUME InitOwnership PROVE OwnInv
  OBVIOUS
<1>1. IInv
  BY IInvInit DEF InitOwnership
<1>2. QueueOk /\ input # "shared"
  BY MaxChunkAssumption DEF InitOwnership, QueueOk
<1>3. StreamsOk
  BY DEF InitOwnership, StreamsOk, Delivers, NoStream
<1> QED
  BY <1>1, <1>2, <1>3 DEF OwnInv

LEMMA OwnInvStep ==
  ASSUME NoScratchAhead, OwnInv, [NextOwnership]_allVars
  PROVE  OwnInv'
<1>1. [Next]_vars /\ IInv'
  BY ReaderStep, IInvStep DEF OwnInv
<1>2. QueueOk'
  BY QueueOkStep DEF OwnInv
<1>3. input' # "shared"
  BY DEF OwnInv, NextOwnership, PutAnswers, PutArray, ArrayCopied, CallerOverwrites, PutStream,
         ReadWaits, ReadQueued, Cancelled, PullAhead, Get, Deliver, Close, ReaderOverwrites,
         ReaderTransfers, allVars, ownVars
<1>4. StreamsOk'
  <2>1. CASE UNCHANGED streams
    BY <1>1, <2>1, StreamsUntouched
  <2>2. ASSUME NEW r \in Readers,
               Get(r) \/ Deliver(r) \/ Close(r) \/ ReaderOverwrites(r) \/ ReaderTransfers(r)
        PROVE  StreamsOk'
    <3>1. UNCHANGED vars
      BY <2>2 DEF Get, Deliver, Close, ReaderOverwrites, ReaderTransfers, OwnInv, StreamsOk, vars
    <3> QED
      BY <2>2, <3>1, StreamStep
  <2> QED
    BY <2>1, <2>2
       DEF NextOwnership, PutAnswers, PutArray, CallerOverwrites, PutStream, ReadWaits,
           ReadQueued, Cancelled, PullAhead, allVars, ownVars
<1> QED
  BY <1>1, <1>2, <1>3, <1>4 DEF OwnInv

LEMMA OwnInvariance ==
  ASSUME NoScratchAhead PROVE SpecOwnership => []OwnInv
<1>1. OwnInv /\ [NextOwnership]_allVars => OwnInv'
  BY OwnInvStep
<1> QED
  BY <1>1, OwnInvInit, PTL DEF SpecOwnership

-------------------------------------------------------------------------------
\* Every stream of get delivers what was put, whoever writes to what they hold.
THEOREM StreamsKept ==
  ASSUME NoScratchAhead PROVE SpecOwnership => []StreamsAreSnapshots
<1>1. OwnInv => StreamsAreSnapshots
  BY DEF OwnInv, IInv, Counts, Undecided, StreamsOk, Delivers, StreamsAreSnapshots
<1> QED
  BY <1>1, OwnInvariance, PTL

\* An accepted body is kept whole although its buffers belong to others.
THEOREM OwnersKeepBodyWhole ==
  ASSUME NoScratchAhead PROVE SpecOwnership => []AcceptedWhole
<1>1. OwnInv => AcceptedWhole
  BY DEF OwnInv, IInv, Counts, Undecided, InOrder, AcceptedWhole
<1> QED
  BY <1>1, OwnInvariance, PTL

\* What the owners do is none of the body reader's steps: it behaves as
\* BodyReader says (all but the fairness, which the run checks).
THEOREM OwnersStutter ==
  ASSUME NoScratchAhead PROVE SpecOwnership => Init /\ [][Next]_vars
<1>1. OwnInv /\ [NextOwnership]_allVars => [Next]_vars
  BY ReaderStep
<1>2. InitOwnership => Init
  BY DEF InitOwnership
<1> QED
  BY <1>1, <1>2, OwnInvariance, PTL DEF SpecOwnership
===============================================================================
