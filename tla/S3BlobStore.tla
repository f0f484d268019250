------------------------------ MODULE S3BlobStore ------------------------------
(***************************************************************************)
(* createS3BlobStore (createR2BlobStore is the same code under other       *)
(* names) over an S3 bucket.  A call is a sequence of requests; between    *)
(* two of them the requests of every other call may be served.             *)
(*                                                                         *)
(* One action is one request: the service serves it atomically and the     *)
(* adapter handles the reply up to its next request or its answer.  What   *)
(* the adapter computes in between touches nothing the service sees.  The  *)
(* service is external: it is modelled by the replies the adapter tells    *)
(* apart (statusCode, errorName): done, 404, 409, 412, any other failure.  *)
(*                                                                         *)
(* A definition marked "slip" is used nowhere: put in the place of the one *)
(* below it, it is the mistake that a property is there to catch.          *)
(***************************************************************************)
EXTENDS BlobPort, FiniteSets, Sequences

CONSTANT Faults     \* the faults that may happen, see below

ASSUME FaultsAssumption == Faults \subseteq 
  {"body", "service", "resend", "bucket", "sameBytes"}
\* "body":    readBlobBody rejects
\* "service": a request fails, applied or not (5xx, timeout, lost response)
\* "bucket":  the bucket is missing, or is removed once it is empty
\* "resend":  the client sends again a PutObject or DeleteObject whose
\*           response was lost
\* "sameBytes": callers put bytes that were put before (not a fault, but then
\*           an ETag, which is derived from the content, comes back)

VARIABLES
  objects,          \* service: the object at each key of the bucket
  contents,         \* service: contents[e] is the size of the bytes with etag e
  bucket,           \* service: does the bucket exist?
  bucketVerified,   \* adapter: the bucket was seen once
  calls,            \* calls[c]: the request of call c and its answer
  stage,            \* stage[c]: the request call c has sent and waits for
  applied,          \* history: how often the put or delete of call c changed its key
  bucketSeen,       \* history: has the bucket ever existed?
  cameBack          \* history: the etags of bytes that were put again

vars == <<objects, contents, bucket, bucketVerified, calls, stage, applied, bucketSeen,
          cameBack>>

service == <<objects, contents, bucket, cameBack>>

\* The last etag given out to new bytes.
lastEtag == Len(contents)

PutStages == {"put", "retryCreate", "retryMatch"}

\* A HeadObject is named by what its result decides.
HeadStages == {"head", "headForDelete", "headAfterDelete412",
               "headAfterCreate409", "headAfterRetryCreate",
               "headAfterMatch412", "headAfterMatch409",
               "headAfterRetryMatch412", "headAfterRetryMatch409"}

Idle == [sent |-> "nothing", checking |-> FALSE]
Sent(s) == [sent |-> s, checking |-> FALSE]
\* The bare 404 to s waits for a HeadBucket.
Checking(s) == [sent |-> s, checking |-> TRUE]

TypeOK ==
  /\ objects \in [Keys -> Object \cup {NoObject}]
  /\ contents \in Seq(Size) /\ lastEtag <= MaxEtag
  /\ bucket \in BOOLEAN /\ bucketVerified \in BOOLEAN /\ bucketSeen \in BOOLEAN
  /\ calls \in [Callers -> Call]
  /\ stage \in [Callers -> [sent : {"nothing", "get", "delete"} \cup PutStages \cup HeadStages,
                            checking : BOOLEAN]]
  /\ applied \in [Callers -> Nat]
  /\ cameBack \subseteq Etag

Init ==
  /\ objects = [k \in Keys |-> NoObject]
  /\ contents = <<>>
  /\ bucket \in BOOLEAN /\ ("bucket" \notin Faults => bucket)
  /\ bucketVerified = FALSE
  /\ calls = [c \in Callers |-> NoCall]
  /\ stage = [c \in Callers |-> Idle]
  /\ applied = [c \in Callers |-> 0]
  /\ bucketSeen = bucket
  /\ cameBack = {}

-------------------------------------------------------------------------------
InFlight(c) == calls[c].ans = Pending

Begin(c, r, s) ==
  /\ calls' = [calls EXCEPT ![c] = [req |-> r, ans |-> Pending]]
  /\ stage' = [stage EXCEPT ![c] = Sent(s)]

Settle(c, a) ==
  /\ calls' = [calls EXCEPT ![c].ans = a]
  /\ stage' = [stage EXCEPT ![c] = Idle]

Send(c, s) ==
  /\ stage' = [stage EXCEPT ![c] = Sent(s)]
  /\ UNCHANGED calls

\* The code throws BlobStoreError with the failed request as its cause.
Fail(c) == Settle(c, Thrown("BlobStoreError"))

\* Request s of call c is the one the service serves next.
Served(c, s) == InFlight(c) /\ stage[c] = Sent(s)

\* Another write of the key is under way: S3 may answer 409 to a conditional put.
Contended(c) ==
  \E d \in Callers \ {c} :
    /\ InFlight(d)
    /\ stage[d].sent \in PutStages \cup {"delete"}
    /\ calls[d].req.key = calls[c].req.key

-------------------------------------------------------------------------------
(***************************************************************************)
(* put: the options are checked and the body is read before anything is    *)
(* sent, so neither depends on the store.                                  *)
(***************************************************************************)
OffByOneLimit(r) == IF r.maxBytes = Unset THEN MaxObjectBytes + 1 ELSE r.maxBytes  \* slip

PutLimit(r) == IF r.maxBytes = Unset THEN MaxObjectBytes ELSE r.maxBytes

LegalPut(r) ==
  /\ ~(r.createOnly /\ r.ifMatch # NoEtag)
  /\ r.maxBytes = Unset \/ r.maxBytes \in 0..MaxObjectBytes

\* Callers pass the etags they were given.
KnownEtag(r) == r.ifMatch \in 0..lastEtag

\* Bound: the puts in flight find an etag left each.
EtagsLeft ==
  lastEtag + Cardinality({c \in Callers : InFlight(c) /\ calls[c].req.op = "put"}) < MaxEtag

PutStart(c) ==
  /\ ~InFlight(c)
  /\ EtagsLeft
  /\ \E r \in PutRequest :
       /\ KnownEtag(r) /\ (r.bodyFails => "body" \in Faults)
       /\ \/ LegalPut(r) /\ ~r.bodyFails /\ Begin(c, r, "put")
          \/ \E x \in Errors :
               /\ IF LegalPut(r) THEN r.bodyFails ELSE x = "BlobValidationError"
               /\ calls' = [calls EXCEPT ![c] = [req |-> r, ans |-> Thrown(x)]]
               /\ UNCHANGED stage
  /\ applied' = [applied EXCEPT ![c] = 0]
  /\ UNCHANGED <<service, bucketVerified, bucketSeen>>

Conditions(r, o) ==
  /\ r.createOnly => o = NoObject
  /\ r.ifMatch # NoEtag => o # NoObject /\ o.etag = r.ifMatch

\* slips: a resend, or the retry after a 409, without the header
HeaderSentOnce(c) == applied[c] > 0 \/ Conditions(calls[c].req, objects[calls[c].req.key])
HeaderNotRetried(c) ==
  stage[c].sent # "put" \/ Conditions(calls[c].req, objects[calls[c].req.key])

\* The conditional header of a PutObject, which every resend carries too.
HeaderHolds(c) == Conditions(calls[c].req, objects[calls[c].req.key])

\* What a PutObject of call c may store: new bytes, or some of before.
\* Bound: etags left, which resends need too.
Bodies(c) ==
  {o \in [etag : Etag, size : 0..PutLimit(calls[c].req)] :
     IF o.etag <= lastEtag THEN "sameBytes" \in Faults /\ contents[o.etag] = o.size
                           ELSE o.etag = lastEtag + 1}

\* The service applies a PutObject with body o whose header holds.
Apply(c, o) ==
  /\ bucket
  /\ HeaderHolds(c)
  /\ contents' = IF o.etag > lastEtag THEN Append(contents, o.size) ELSE contents
  /\ objects' = [objects EXCEPT ![calls[c].req.key] = o]
  /\ cameBack' = cameBack \cup ({o.etag} \cap 1..lastEtag)
  /\ applied' = [applied EXCEPT ![c] = @ + 1]
  /\ UNCHANGED bucket

\* finishPut
PutDone(c) ==
  /\ stage[c].sent \in PutStages /\ InFlight(c)
  /\ \E o \in Bodies(c) : Apply(c, o) /\ Settle(c, Stored(o.etag, o.size))
  /\ bucketVerified' = TRUE
  /\ UNCHANGED bucketSeen

\* The refusals a conditional PutObject may be answered with.
PutStatus(c) ==
  LET r == calls[c].req
      o == objects[r.key]
  IN  {status \in {404, 409, 412} :
         /\ bucket
         /\ \/ status = 412 /\ ~HeaderHolds(c) /\ o # NoObject
            \/ status = 404 /\ ~HeaderHolds(c) /\ o = NoObject
            \/ status = 409 /\ (r.createOnly \/ r.ifMatch # NoEtag) /\ Contended(c)}

\* The HEAD put sends to find out why an attempt that it does not answer at once
\* was refused.  409 is no proof of anything, so it may lead to one retry.
Diagnosis(attempt, createOnly, status, head) ==
  [sent |-> attempt, createOnly |-> createOnly, status |-> status, head |-> head]

FirstDiagnoses ==
  {Diagnosis("put", TRUE, 409, "headAfterCreate409"),
   Diagnosis("put", FALSE, 412, "headAfterMatch412"),
   Diagnosis("put", FALSE, 409, "headAfterMatch409")}

\* slip: the retry of a create-only put is diagnosed like its first attempt
RetryForEver ==
  FirstDiagnoses \cup
  {Diagnosis("retryCreate", TRUE, 409, "headAfterCreate409"),
   Diagnosis("retryCreate", TRUE, 412, "headAfterRetryCreate"),
   Diagnosis("retryMatch", FALSE, 412, "headAfterRetryMatch412"),
   Diagnosis("retryMatch", FALSE, 409, "headAfterRetryMatch409")}

Diagnoses ==
  FirstDiagnoses \cup
  {Diagnosis("retryCreate", TRUE, 409, "headAfterRetryCreate"),
   Diagnosis("retryCreate", TRUE, 412, "headAfterRetryCreate"),
   Diagnosis("retryMatch", FALSE, 412, "headAfterRetryMatch412"),
   Diagnosis("retryMatch", FALSE, 409, "headAfterRetryMatch409")}

PutRefused(c) ==
  LET s == stage[c].sent
      r == calls[c].req
  IN  /\ s \in PutStages /\ InFlight(c)
      /\ \E status \in PutStatus(c) :
           \/ status = 412 /\ s = "put" /\ r.createOnly /\ Settle(c, Refused("exists"))
           \/ status = 404 /\ Settle(c, Refused("missing"))
           \/ \E d \in Diagnoses :
                /\ d.sent = s /\ d.createOnly = r.createOnly /\ d.status = status
                /\ Send(c, d.head)
      /\ UNCHANGED <<service, bucketVerified, applied, bucketSeen>>

\* NoSuchBucket is no 404 of the key; any other failure is thrown as well,
\* whether or not the service had applied the put (and so is a reply without an
\* etag, which does show that the bucket is there).
PutFails(c) ==
  /\ stage[c].sent \in PutStages /\ InFlight(c)
  /\ Fail(c)
  /\ \/ (~bucket \/ "service" \in Faults) /\ UNCHANGED <<service, applied, bucketVerified>>
     \/ /\ "service" \in Faults /\ \E o \in Bodies(c) : Apply(c, o)
        /\ bucketVerified' \in {bucketVerified, TRUE}
  /\ UNCHANGED bucketSeen

\* The response is lost and the client resends: the adapter notices nothing.
PutResent(c) ==
  /\ "resend" \in Faults
  /\ stage[c].sent \in PutStages /\ InFlight(c)
  /\ \E o \in Bodies(c) : Apply(c, o)
  /\ UNCHANGED <<bucketVerified, calls, stage, bucketSeen>>

-------------------------------------------------------------------------------
(***************************************************************************)
(* get, and headRaw: for head itself, before and after a delete, and after *)
(* a refused put                                                           *)
(***************************************************************************)
ReadStart(c) ==
  /\ ~InFlight(c)
  /\ \E r \in ReadRequest : Begin(c, r, r.op)
  /\ UNCHANGED <<service, bucketVerified, applied, bucketSeen>>

\* The key is free: what the call concludes.
Missing(c) ==
  \/ stage[c].sent \in {"get", "head"} /\ Settle(c, Absent)
  \/ stage[c].sent = "headAfterCreate409" /\ Send(c, "retryCreate")
  \/ stage[c].sent = "headAfterRetryCreate" /\ Fail(c)
  \/ /\ stage[c].sent \notin {"get", "head", "headAfterCreate409", "headAfterRetryCreate"}
     /\ Settle(c, Refused("missing"))

\* Object o is at the key: what the call concludes.
Present(c, o) ==
  LET s == stage[c].sent
      matches == o.etag = calls[c].req.ifMatch
  IN  \/ s \in {"get", "head"} /\ Settle(c, Found(o))
      \/ s \in {"headAfterCreate409", "headAfterRetryCreate"} /\ Settle(c, Refused("exists"))
      \/ /\ s = "headForDelete" /\ (matches \/ calls[c].req.ifMatch = NoEtag)
         /\ Send(c, "delete")
      \/ s = "headAfterMatch409" /\ matches /\ Send(c, "retryMatch")
      \/ s = "headAfterRetryMatch409" /\ matches /\ Fail(c)
      \/ /\ \/ s \in {"headAfterDelete412", "headAfterMatch412", "headAfterRetryMatch412"}
            \/ s \in {"headAfterMatch409", "headAfterRetryMatch409"} /\ ~matches
            \/ s = "headForDelete" /\ ~matches /\ calls[c].req.ifMatch # NoEtag
         /\ Settle(c, Refused("changed"))

ReadPending(c) ==
  InFlight(c) /\ stage[c].sent \in {"get"} \cup HeadStages /\ ~stage[c].checking

ReadFound(c) ==
  /\ ReadPending(c)
  /\ objects[calls[c].req.key] # NoObject
  /\ Present(c, objects[calls[c].req.key])
  /\ bucketVerified' = (bucketVerified \/ stage[c].sent # "get")
  /\ UNCHANGED <<service, applied, bucketSeen>>

\* The body of a 404 to get may name NoSuchKey, which proves the bucket exists.
GetNoSuchKey(c) ==
  /\ ReadPending(c) /\ stage[c].sent = "get"
  /\ bucket /\ objects[calls[c].req.key] = NoObject
  /\ Missing(c)
  /\ bucketVerified' = TRUE
  /\ UNCHANGED <<service, applied, bucketSeen>>

NeverCheckBucket == FALSE                           \* slip

\* A bare 404 may mean a missing bucket: unless one was seen, look for it.
MustCheckBucket == ~bucketVerified

ReadNotFound(c) ==
  /\ ReadPending(c)
  /\ objects[calls[c].req.key] = NoObject
  /\ \/ MustCheckBucket /\ stage' = [stage EXCEPT ![c] = Checking(@.sent)] /\ UNCHANGED calls
     \/ ~MustCheckBucket /\ Missing(c)
  /\ UNCHANGED <<service, bucketVerified, applied, bucketSeen>>

\* HeadBucket.
BucketPresent(c) ==
  /\ InFlight(c) /\ stage[c].checking
  /\ bucket
  /\ bucketVerified' = TRUE
  /\ Missing(c)
  /\ UNCHANGED <<service, applied, bucketSeen>>

\* NoSuchBucket by name, a HeadBucket that finds none, or any other failure.
ReadFails(c) ==
  /\ InFlight(c) /\ stage[c].sent \in {"get"} \cup HeadStages
  /\ \/ "service" \in Faults
     \/ ~bucket /\ (stage[c].checking \/ stage[c].sent = "get")
  /\ Fail(c)
  /\ UNCHANGED <<service, bucketVerified, applied, bucketSeen>>

-------------------------------------------------------------------------------
(***************************************************************************)
(* delete: a HEAD, because DeleteObject does not tell that the key was     *)
(* free; then the DeleteObject, conditional only if the caller's was.      *)
(***************************************************************************)
DeleteStart(c) ==
  /\ ~InFlight(c)
  /\ \E r \in DeleteRequest : KnownEtag(r) /\ Begin(c, r, "headForDelete")
  /\ applied' = [applied EXCEPT ![c] = 0]
  /\ UNCHANGED <<service, bucketVerified, bucketSeen>>

DeleteWithoutHeader(r) == NoEtag                    \* slip

\* The etag the DeleteObject is conditioned on, NoEtag for none.
DeleteHeader(r) == r.ifMatch

Removes(c) ==
  LET r == calls[c].req
      o == objects[r.key]
  IN  /\ Served(c, "delete") /\ bucket
      /\ DeleteHeader(r) # NoEtag =>
           o # NoObject /\ o.etag = DeleteHeader(r)
      /\ objects' = [objects EXCEPT ![r.key] = NoObject]
      /\ applied' = [applied EXCEPT ![c] = IF o = NoObject THEN @ ELSE @ + 1]
      /\ UNCHANGED <<contents, bucket, cameBack>>

DeleteDone(c) ==
  /\ Removes(c)
  /\ Settle(c, Deleted)
  /\ UNCHANGED <<bucketVerified, bucketSeen>>

DeleteRefused(c) ==
  LET r == calls[c].req
      o == objects[r.key]
  IN  /\ Served(c, "delete") /\ bucket
      /\ DeleteHeader(r) # NoEtag
      /\ \/ o = NoObject /\ Settle(c, Refused("missing"))
         \/ ~(o # NoObject /\ o.etag = DeleteHeader(r)) /\ Send(c, "headAfterDelete412")
      /\ UNCHANGED <<service, bucketVerified, applied, bucketSeen>>

DeleteFails(c) ==
  /\ Served(c, "delete")
  /\ Fail(c)
  /\ \/ (~bucket \/ "service" \in Faults) /\ UNCHANGED <<service, applied>>
     \/ "service" \in Faults /\ Removes(c)
  /\ UNCHANGED <<bucketVerified, bucketSeen>>

\* The response is lost and the client sends the DeleteObject again.
DeleteResent(c) ==
  /\ "resend" \in Faults
  /\ Removes(c)
  /\ UNCHANGED <<bucketVerified, calls, stage, bucketSeen>>

-------------------------------------------------------------------------------
\* The bucket is created by its owner, or removed once it is empty.
BucketCreated ==
  /\ ~bucket
  /\ bucket' = TRUE /\ bucketSeen' = TRUE
  /\ UNCHANGED <<objects, contents, cameBack, bucketVerified, calls, stage, applied>>

BucketRemoved ==
  /\ "bucket" \in Faults
  /\ bucket /\ \A k \in Keys : objects[k] = NoObject
  /\ bucket' = FALSE
  /\ UNCHANGED <<objects, contents, cameBack, bucketVerified, calls, stage, applied, bucketSeen>>

\* A request of call c is served and its reply handled.
Serve(c) ==
  \/ PutDone(c) \/ PutRefused(c) \/ PutFails(c) \/ PutResent(c)
  \/ ReadFound(c) \/ GetNoSuchKey(c) \/ ReadNotFound(c) \/ BucketPresent(c) \/ ReadFails(c)
  \/ DeleteDone(c) \/ DeleteRefused(c) \/ DeleteFails(c) \/ DeleteResent(c)

Next ==
  \/ \E c \in Callers : PutStart(c) \/ ReadStart(c) \/ DeleteStart(c) \/ Serve(c)
  \/ BucketCreated
  \/ BucketRemoved

\* The service answers every request, if only with a failure.
Spec == Init /\ [][Next]_vars /\ \A c \in Callers : WF_vars(Serve(c))

-------------------------------------------------------------------------------
(***************************************************************************)
(* Properties                                                              *)
(***************************************************************************)
\* Whatever is lost, resent or retried after a 409, an if-match put or delete is
\* applied at most once: every request of it carries the condition, which the first
\* one that is applied makes false for ever.  (A create-only put that is resent may be
\* applied again once its object was deleted; and if others put back the very bytes that
\* the condition names, their etag is back too.)
IfMatchOnce ==
  \A c \in Callers :
    calls[c].req.op \in {"put", "delete"} /\ calls[c].req.ifMatch # NoEtag => applied[c] <= 1

\* A misconfigured bucket is not a free key: while the bucket has never
\* existed no call is told that its key is free.
NoBucketNoAnswer ==
  ~bucketSeen => \A c \in Callers : calls[c].ans \notin {Absent, Refused("missing")}
                                    \/ calls[c].req = NoRequest

\* A conditional delete removes no object but one of the etag its caller named,
\* although it decides by a HEAD that may be out of date.  (A newer object of the same
\* bytes has that etag too: it is removed.  Only where etags do not come back does
\* ifMatch keep every newer object.)
DeleteKeepsOthersObjects ==
  [][\A c \in Callers :
       /\ applied'[c] > applied[c]
       /\ calls[c].req.op = "delete" /\ calls[c].req.ifMatch # NoEtag
       => objects[calls[c].req.key].etag = calls[c].req.ifMatch]_vars

\* Contending callers do not keep each other retrying: every call is answered.
CallsAreAnswered == \A c \in Callers : InFlight(c) ~> ~InFlight(c)

\* The requests a call that waits for s may still wait for, s included.
RequestsFrom(s) ==
  CASE s = "put" -> 4
    [] s \in {"headAfterCreate409", "headAfterMatch409", "headForDelete"} -> 3
    [] s \in {"retryCreate", "retryMatch", "delete"} -> 2
    [] s = "nothing" -> 0
    [] OTHER -> 1

\* Every one of them may take a HeadBucket as well.
RequestsLeft(w) == 2 * RequestsFrom(w.sent) - (IF w.checking THEN 1 ELSE 0)

\* Retries run out: whatever other callers do to its key and however often it is
\* answered 409 or 404, a call in flight never waits for a request that leaves as many
\* to come as the one before it did.
RetriesRunOut ==
  [][\A c \in Callers :
       InFlight(c) /\ stage'[c] # stage[c]
       => RequestsLeft(stage'[c]) < RequestsLeft(stage[c])]_vars

\* A race is answered and not thrown: a legal call whose body is good throws
\* only when some request of it failed otherwise than by 404, 409 or 412.
RacesAreAnswered ==
  Faults = {} => \A c \in Callers :
    calls[c].ans.kind = "thrown" => calls[c].req.op = "put" /\ ~LegalPut(calls[c].req)

\* The answer of a HEAD that waits for the bucket check is decided already.
Decided(c) ==
  IF stage[c].checking
  THEN CASE stage[c].sent \in {"get", "head"} -> Absent
         [] stage[c].sent \in {"headAfterCreate409", "headAfterRetryCreate"} -> Pending
         [] OTHER -> Refused("missing")
  ELSE calls[c].ans

Port == INSTANCE BlobStore WITH issued <- 1..lastEtag,
                                decided <- [c \in Callers |-> Decided(c)],
                                Lossy <- TRUE, BlindDelete <- TRUE, EtagsComeBack <- TRUE,
                                Resends <- "resend" \in Faults, Perishable <- FALSE

\* Every call takes effect at one moment, as the interface promises; but an
\* error may hide an effect, and an unconditional delete may find nothing.
\* An etag names bytes, so it may come back.
ImplementsBlobStore == Port!Spec

\* Two calls that name one version in ifMatch do not both win it, whatever is lost
\* or sent again: the condition goes with every request, so that the service and
\* not the HEAD before it decides.
OneWinner == Port!OneWinner
===============================================================================
