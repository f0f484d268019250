----------------------------- MODULE ByteOwnership -----------------------------
(***************************************************************************)
(* Who may write where, from the bytes a caller hands to put to those that *)
(* the readers of get receive.  A body is read as BodyReader has it; here  *)
(* the buffers it comes from belong to the caller, who writes to them      *)
(* again, and those it goes to are read, overwritten and transferred.      *)
(*                                                                         *)
(* External, the stream of the body: its source may use one scratch buffer *)
(* for all chunks, and fill it again whenever it is pulled.  A stream with *)
(* a high-water mark of 1 pulls one chunk ahead, before it is read at all  *)
(* and again inside the read that takes that chunk out of its queue; with  *)
(* one of 0 it pulls only for a read that waits, which gets the chunk.     *)
(* Only data chunks are queued, and a scratch buffer is filled whole.      *)
(*                                                                         *)
(* A definition marked "slip" is used nowhere: put in the place of the one *)
(* below it, it is the mistake that a property is there to catch.          *)
(***************************************************************************)
EXTENDS BodyReader

CONSTANTS
  Sources,          \* the body streams' sources: [scratch, highWater]
  Readers,          \* calls of get, each with the stream it returned
  ChunkOut          \* the longest chunk of such a stream (64 KiB)

ASSUME SourcesAssumption == Sources \subseteq [scratch : BOOLEAN, highWater : 0..1]
ASSUME ChunkOutAssumption == ChunkOut \in Nat \ {0}

VARIABLES
  source,           \* the body's source, if it is a stream
  queued,           \* the length of the chunk in the stream's queue, 0 if none
  input,            \* the caller's array: none, copied, shared, overwritten
  streams           \* streams[r]: the stream get returned to r

ownVars == <<source, queued, input, streams>>
allVars == <<vars, ownVars>>

\* snapshot is its buffer, offset how much it has delivered; intact is history:
\* every byte it delivered was the one that was put there.
NoStream == [status |-> "none", own |-> TRUE, snapshot |-> [i \in 1..0 |-> 0],
             offset |-> 0, intact |-> TRUE]

OwnershipTypeOK ==
  /\ TypeOK
  /\ source \in Sources
  /\ queued \in 0..MaxChunk
  /\ input \in {"none", "copied", "shared", "overwritten"}
  /\ DOMAIN streams = Readers
  /\ \A r \in Readers :
       /\ streams[r].status \in {"none", "open", "transferred", "closed", "cut"}
       /\ DOMAIN streams[r].snapshot \in {1..n : n \in 0..Limit}
       /\ streams[r].offset \in 0..total
       /\ streams[r].own \in BOOLEAN /\ streams[r].intact \in BOOLEAN

InitOwnership ==
  /\ Init
  /\ source \in Sources
  /\ queued = 0
  /\ input = "none"
  /\ streams = [r \in Readers |-> NoStream]

-------------------------------------------------------------------------------
ArrayKept == "shared"                               \* slip

\* copyBytes of an array body; Buffer.slice would share it.
ArrayCopied == "copied"

PutArray(n) ==
  /\ queued = 0
  /\ ArrayBody(n)
  /\ input' = IF n > Limit THEN input ELSE ArrayCopied
  /\ UNCHANGED <<source, queued, streams>>

\* The caller overwrites the array it handed over.
CallerOverwrites ==
  /\ input \in {"copied", "shared"}
  /\ input' = "overwritten"
  /\ bytes' = IF input = "shared" THEN [i \in DOMAIN bytes |-> 0] ELSE bytes
  /\ UNCHANGED <<state, capacity, total, empties, cancel, sent, lull,
                 source, queued, streams>>

-------------------------------------------------------------------------------
ChunkLengths == IF source.scratch THEN {MaxChunk} ELSE 1..MaxChunk

\* The stream pulls ahead while put has yet to be called; from then on a read
\* always waits when the source is pulled again later.
PullAhead ==
  /\ state = "start"
  /\ source.highWater = 1 /\ queued = 0
  /\ queued' \in ChunkLengths
  /\ UNCHANGED <<vars, source, input, streams>>

PutStream ==
  /\ StreamBody
  /\ UNCHANGED ownVars

\* slip: a chunk is kept by reference until the next one has come
KeptChunk(n) == sent + 1 + (IF source.scratch THEN n ELSE 0)

\* The bytes that are copied from a chunk that a waiting read was given.
CopiedAtOnce(n) == sent + 1

\* The read waits, and what the source comes up with is its answer.
ReadWaits ==
  /\ queued = 0
  /\ \/ EmptyChunk \/ IllegalChunk \/ StreamFails \/ StreamEnds
     \/ \E n \in ChunkLengths : ChunkTooLarge(n) \/ ChunkCopied(n, CopiedAtOnce(n))
  /\ UNCHANGED ownVars

\* The read takes the queued chunk, and the stream pulls for the next one: the
\* source fills its buffer at once, before the chunk can be copied, or later.
ReadQueued ==
  /\ queued > 0
  /\ queued' \in {0} \cup ChunkLengths
  /\ LET filledAgain == queued' > 0 /\ source.scratch
     IN  \/ ChunkTooLarge(queued)
         \/ ChunkCopied(queued, sent + 1 + (IF filledAgain THEN queued ELSE 0))
  /\ UNCHANGED <<source, input, streams>>

Cancelled ==
  /\ CancelSettles
  /\ UNCHANGED ownVars

-------------------------------------------------------------------------------
Shared == FALSE                                     \* slip

\* bytesToStream takes a copy of the stored bytes.
Snapshotted == TRUE

Snapshot(r) == IF streams[r].own THEN streams[r].snapshot ELSE bytes

\* get, of the object that the put has stored.
Get(r) ==
  /\ state = "resolved"
  /\ streams[r].status = "none"
  /\ streams' = [streams EXCEPT ![r].status = "open", ![r].own = Snapshotted,
                                ![r].snapshot = bytes]
  /\ UNCHANGED <<vars, source, queued, input>>

ChunkEndUncapped(r) == streams[r].offset + ChunkOut  \* slip

ChunkEnd(r) == AtMost(streams[r].offset + ChunkOut, total)

\* pull: the next chunk, a view of the snapshot.
Deliver(r) ==
  /\ streams[r].status = "open"
  /\ streams[r].offset < total
  /\ streams' = [streams EXCEPT
       ![r].offset = ChunkEnd(r),
       ![r].intact = @ /\ \A i \in DOMAIN Snapshot(r) :
                             i \in (streams[r].offset + 1)..ChunkEnd(r) => Snapshot(r)[i] = i]
  /\ UNCHANGED <<vars, source, queued, input>>

\* pull: nothing is left, or the snapshot's buffer is gone and its length 0.
Close(r) ==
  /\ \/ /\ streams[r].status = "open" /\ streams[r].offset >= total
        /\ streams' = [streams EXCEPT ![r].status = "closed"]
     \/ /\ streams[r].status = "transferred"
        /\ streams' = [streams EXCEPT ![r].status = "cut"]
  /\ UNCHANGED <<vars, source, queued, input>>

\* The reader writes to what it was given so far.
ReaderOverwrites(r) ==
  /\ streams[r].status = "open" /\ streams[r].offset > 0
  /\ LET Overwritten(buffer) ==
           [i \in DOMAIN buffer |-> IF i <= streams[r].offset THEN 0 ELSE buffer[i]]
     IN  IF streams[r].own
         THEN /\ streams' = [streams EXCEPT ![r].snapshot = Overwritten(@)]
              /\ UNCHANGED bytes
         ELSE bytes' = Overwritten(bytes) /\ UNCHANGED streams
  /\ UNCHANGED <<state, capacity, total, empties, cancel, sent, lull,
                 source, queued, input>>

\* The reader transfers a chunk's buffer to another thread or stream: the whole
\* snapshot goes with it.
ReaderTransfers(r) ==
  /\ streams[r].status = "open" /\ streams[r].offset > 0
  /\ streams[r].own
  /\ streams' = [streams EXCEPT ![r].status = "transferred", ![r].snapshot = [i \in 1..0 |-> 0]]
  /\ UNCHANGED <<vars, source, queued, input>>

-------------------------------------------------------------------------------
PutAnswers == PutStream \/ ReadWaits \/ ReadQueued

NextOwnership ==
  \/ \E n \in 0..(Limit + 1) : PutArray(n)
  \/ CallerOverwrites
  \/ PullAhead
  \/ PutAnswers
  \/ Cancelled
  \/ \E r \in Readers :
       \/ Get(r) \/ Deliver(r) \/ Close(r)
       \/ ReaderOverwrites(r) \/ ReaderTransfers(r)

\* The stream keeps answering reads; nothing is assumed of its cancel hook.
SpecOwnership == InitOwnership /\ [][NextOwnership]_allVars /\ WF_allVars(PutAnswers)

-------------------------------------------------------------------------------
\* Whatever callers write to the arrays, scratch buffers and chunks they hold,
\* each stream of get delivers the bytes that were put, and all of them unless
\* its own reader has transferred its buffer away.
StreamsAreSnapshots ==
  \A r \in Readers :
    /\ streams[r].intact
    /\ streams[r].status = "closed" => streams[r].offset = sent

\* Nor do they reach the body reader: it does what BodyReader says of bytes that
\* nobody else can write to.
ReadsAsBodyReader == Spec
===============================================================================
