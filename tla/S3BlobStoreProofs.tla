--------------------------- MODULE S3BlobStoreProofs ---------------------------
(***************************************************************************)
(* What is proved of createS3BlobStore, and so of createR2BlobStore: for   *)
(* any callers, keys, size limits, number of etags and faults.             *)
(***************************************************************************)
EXTENDS S3BlobStore, TLAPS

(***************************************************************************)
(* The inductive invariant.  What a call waits for fits what it asked for; *)
(* what the adapter knows of the bucket is true of some earlier moment;    *)
(* and an if-match put or delete that was applied left no object of its    *)
(* etag.                                                                   *)
(***************************************************************************)
PutHeads == {"headAfterCreate409", "headAfterRetryCreate",
             "headAfterMatch412", "headAfterMatch409",
             "headAfterRetryMatch412", "headAfterRetryMatch409"}
DeleteSteps == {"headForDelete", "headAfterDelete412", "delete"}
Waits == [sent : {"nothing", "get", "delete"} \cup PutStages \cup HeadStages,
          checking : BOOLEAN]

Fits(r, a, s) ==
  /\ a = Pending <=> s # "nothing"
  /\ s \in PutStages \cup PutHeads => r \in PutRequest /\ LegalPut(r) /\ ~r.bodyFails
  /\ s \in {"get", "head"} => r \in ReadRequest
  /\ s \in DeleteSteps => r \in DeleteRequest

CallsTyped ==
  /\ calls \in [Callers -> Call]
  /\ stage \in [Callers -> Waits]
  /\ \A c \in Callers : Fits(calls[c].req, calls[c].ans, stage[c].sent)

StoreTyped ==
  /\ objects \in [Keys -> Object \cup {NoObject}]
  /\ contents \in Seq(Size) /\ lastEtag <= MaxEtag
  /\ bucket \in BOOLEAN /\ bucketVerified \in BOOLEAN /\ bucketSeen \in BOOLEAN
  /\ applied \in [Callers -> Nat]
  /\ cameBack \subseteq Etag

Typed == CallsTyped /\ StoreTyped

\* While there was no bucket nothing is stored and nothing known.
BucketHistory ==
  /\ bucket \/ bucketVerified => bucketSeen
  /\ ~bucketSeen => \A k \in Keys : objects[k] = NoObject

\* Every object has an etag that was given out, as has what a call names.
EtagsGivenOut ==
  /\ \A k \in Keys : objects[k] # NoObject => objects[k].etag <= lastEtag
  /\ \A c \in Callers :
       calls[c].req.op \in {"put", "delete"} => calls[c].req.ifMatch <= lastEtag

\* An if-match put or delete that was applied finds its condition false ever after.
Spent ==
  \A c \in Callers :
    /\ calls[c].req.op \in {"put", "delete"} /\ calls[c].req.ifMatch # NoEtag
    /\ applied[c] > 0
    => LET o == objects[calls[c].req.key] IN o = NoObject \/ o.etag # calls[c].req.ifMatch

-------------------------------------------------------------------------------
LEMMA LimitInRange ==
  ASSUME NEW r \in PutRequest, LegalPut(r)
  PROVE  0..PutLimit(r) \subseteq Size
BY MaxObjectBytesAssumption, MaxBytesAssumption
   DEF PutRequest, LegalPut, PutLimit, Size, Unset

\* One call moves on: what is typed and fits stays so.
LEMMA MovedTyped ==
  ASSUME CallsTyped, NEW c \in Callers, NEW r, NEW a \in Answer, NEW w \in Waits,
         r \in Request \cup {NoRequest}, Fits(r, a, w.sent),
         calls' = [calls EXCEPT ![c] = [req |-> r, ans |-> a]],
         stage' = [stage EXCEPT ![c] = w]
  PROVE  CallsTyped'
<1>1. calls' \in [Callers -> Call] /\ stage' \in [Callers -> Waits]
  BY DEF CallsTyped, Call
<1>2. ASSUME NEW d \in Callers PROVE Fits(calls[d].req, calls[d].ans, stage[d].sent)'
  <2>1. CASE d = c
    <3>1. calls'[d] = [req |-> r, ans |-> a] /\ stage'[d] = w
      BY <2>1 DEF CallsTyped
    <3> QED
      BY <3>1 DEF Fits, LegalPut
  <2>2. CASE d # c
    <3>1. Fits(calls[d].req, calls[d].ans, stage[d].sent) /\ calls'[d] = calls[d] /\ stage'[d] = stage[d]
      BY <2>2 DEF CallsTyped
    <3> QED
      BY <3>1 DEF Fits, LegalPut
  <2> QED
    BY <2>1, <2>2
<1> QED
  BY <1>1, <1>2 DEF CallsTyped

LEMMA SettleTyped ==
  ASSUME CallsTyped, NEW c \in Callers, NEW a \in Answer \ {Pending}, Settle(c, a)
  PROVE  CallsTyped'
<1>0. [calls[c] EXCEPT !.ans = a] = [req |-> calls[c].req, ans |-> a]
  BY DEF CallsTyped, Call
<1>1. calls' = [calls EXCEPT ![c] = [req |-> calls[c].req, ans |-> a]]
  BY <1>0 DEF Settle
<1>2. Idle \in Waits /\ Fits(calls[c].req, a, Idle.sent)
  BY DEF Idle, Waits, Fits, PutStages, PutHeads, DeleteSteps
<1>3. calls[c].req \in Request \cup {NoRequest}
  BY DEF CallsTyped, Call
<1> QED
  BY <1>1, <1>2, <1>3, MovedTyped DEF Settle

LEMMA SendTyped ==
  ASSUME CallsTyped, NEW c \in Callers, NEW s, Send(c, s), Sent(s) \in Waits,
         Fits(calls[c].req, calls[c].ans, s)
  PROVE  CallsTyped'
<1>1. calls' = [calls EXCEPT ![c] = [req |-> calls[c].req, ans |-> calls[c].ans]]
  BY DEF CallsTyped, Call, Send
<1>2. /\ calls[c].req \in Request \cup {NoRequest} /\ calls[c].ans \in Answer
      /\ Fits(calls[c].req, calls[c].ans, Sent(s).sent)
  BY DEF CallsTyped, Call, Sent
<1> QED
  BY <1>1, <1>2, MovedTyped DEF Send

LEMMA BeginTyped ==
  ASSUME CallsTyped, NEW c \in Callers, NEW r \in Request, NEW s, Begin(c, r, s),
         Sent(s) \in Waits, Fits(r, Pending, s)
  PROVE  CallsTyped'
<1>1. Pending \in Answer /\ Fits(r, Pending, Sent(s).sent)
  BY DEF Answer, Sent
<1> QED
  BY <1>1, MovedTyped DEF Begin

LEMMA AnswersKnown ==
  /\ \A x \in Errors : Thrown(x) \in Answer \ {Pending}
  /\ \A x \in Reasons : Refused(x) \in Answer \ {Pending}
  /\ Absent \in Answer \ {Pending} /\ Deleted \in Answer \ {Pending}
  /\ \A o \in Object : Found(o) \in Answer \ {Pending}
  /\ \A e \in Etag, n \in Size : Stored(e, n) \in Answer \ {Pending}
  /\ "BlobStoreError" \in Errors /\ {"exists", "missing", "changed"} = Reasons
BY DEF Answer, Thrown, Refused, Absent, Deleted, Found, Stored, Pending, Errors, Reasons

LEMMA FailTyped ==
  ASSUME CallsTyped, NEW c \in Callers, Fail(c)
  PROVE  CallsTyped'
BY AnswersKnown, SettleTyped DEF Fail

-------------------------------------------------------------------------------
\* What a read that finds nothing, or an object, concludes.
LEMMA MissingTyped ==
  ASSUME CallsTyped, NEW c \in Callers, InFlight(c), Missing(c)
  PROVE  CallsTyped'
<1>1. CASE \E a \in {Absent, Refused("missing")} : Settle(c, a)
  BY <1>1, AnswersKnown, SettleTyped
<1>2. CASE stage[c].sent = "headAfterCreate409" /\ Send(c, "retryCreate")
  <2>1. Fits(calls[c].req, calls[c].ans, "headAfterCreate409")
    BY <1>2 DEF CallsTyped
  <2>2. Fits(calls[c].req, calls[c].ans, "retryCreate") /\ Sent("retryCreate") \in Waits
    BY <2>1 DEF Fits, PutStages, PutHeads, DeleteSteps, Sent, Waits
  <2> QED
    BY <1>2, <2>2, SendTyped
<1>3. CASE Fail(c)
  BY <1>3, FailTyped
<1> QED
  BY <1>1, <1>2, <1>3 DEF Missing

LEMMA PresentTyped ==
  ASSUME CallsTyped, NEW c \in Callers, NEW o \in Object, InFlight(c), Present(c, o)
  PROVE  CallsTyped'
<1>1. CASE \E a \in {Found(o), Refused("exists"), Refused("changed")} : Settle(c, a)
  BY <1>1, AnswersKnown, SettleTyped
<1>2. CASE stage[c].sent = "headForDelete" /\ Send(c, "delete")
  <2>1. Fits(calls[c].req, calls[c].ans, "headForDelete")
    BY <1>2 DEF CallsTyped
  <2>2. Fits(calls[c].req, calls[c].ans, "delete") /\ Sent("delete") \in Waits
    BY <2>1 DEF Fits, PutStages, PutHeads, DeleteSteps, Sent, Waits
  <2> QED
    BY <1>2, <2>2, SendTyped
<1>3. CASE stage[c].sent = "headAfterMatch409" /\ Send(c, "retryMatch")
  <2>1. Fits(calls[c].req, calls[c].ans, "headAfterMatch409")
    BY <1>3 DEF CallsTyped
  <2>2. Fits(calls[c].req, calls[c].ans, "retryMatch") /\ Sent("retryMatch") \in Waits
    BY <2>1 DEF Fits, PutStages, PutHeads, DeleteSteps, Sent, Waits
  <2> QED
    BY <1>3, <2>2, SendTyped
<1>4. CASE Fail(c)
  BY <1>4, FailTyped
<1> QED
  BY <1>1, <1>2, <1>3, <1>4 DEF Present

\* What is applied is an object of the right size under an etag in range.
LEMMA BodyTyped ==
  ASSUME Typed, NEW c \in Callers, stage[c].sent \in PutStages, NEW o \in Bodies(c)
  PROVE  /\ o \in Object /\ o.etag <= lastEtag + 1 /\ calls[c].req \in PutRequest
         /\ "sameBytes" \notin Faults => o.etag = lastEtag + 1
<1>1. calls[c].req \in PutRequest /\ LegalPut(calls[c].req)
  BY DEF Typed, CallsTyped, Fits
<1>2. lastEtag \in Nat
  BY DEF Typed, StoreTyped, lastEtag
<1> QED
  BY <1>1, <1>2, LimitInRange DEF Bodies, Object, Etag

LEMMA ApplyTyped ==
  ASSUME Typed, NEW c \in Callers, stage[c].sent \in PutStages, NEW o \in Bodies(c), Apply(c, o)
  PROVE  /\ objects' \in [Keys -> Object \cup {NoObject}]
         /\ contents' \in Seq(Size) /\ lastEtag' <= MaxEtag
         /\ bucket' \in BOOLEAN /\ applied' \in [Callers -> Nat] /\ cameBack' \subseteq Etag
<1>1. o \in Object /\ o.etag <= lastEtag + 1 /\ calls[c].req.key \in Keys
  BY BodyTyped DEF PutRequest
<1>2. o.etag \in 1..MaxEtag /\ o.size \in Size
  BY <1>1 DEF Object, Etag
<1>3. contents \in Seq(Size) /\ lastEtag = Len(contents) /\ lastEtag \in Nat
  BY DEF Typed, StoreTyped, lastEtag
<1>4. contents' \in Seq(Size) /\ lastEtag' <= MaxEtag
  <2>1. CASE o.etag > lastEtag
    <3>1. contents' = Append(contents, o.size)
      BY <2>1 DEF Apply
    <3>2. Len(contents') = lastEtag + 1 /\ contents' \in Seq(Size)
      BY <1>2, <1>3, <3>1
    <3> QED
      BY <1>1, <1>2, <1>3, <2>1, <3>2, MaxEtagAssumption DEF lastEtag
  <2>2. CASE ~(o.etag > lastEtag)
    BY <2>2, <1>3 DEF Apply, Typed, StoreTyped, lastEtag
  <2> QED
    BY <2>1, <2>2
<1>5. objects' \in [Keys -> Object \cup {NoObject}]
  BY <1>1 DEF Apply, Typed, StoreTyped
<1>6. bucket' \in BOOLEAN /\ applied' \in [Callers -> Nat]
  BY DEF Apply, Typed, StoreTyped
<1>7. cameBack' \subseteq Etag
  BY <1>2 DEF Apply, Typed, StoreTyped, Etag
<1> QED
  BY <1>4, <1>5, <1>6, <1>7

\* What a step leaves of the store when it touches nothing but the calls.
LEMMA StoreTypedKept ==
  ASSUME StoreTyped, UNCHANGED <<objects, contents, cameBack>>, bucket' \in BOOLEAN,
         bucketVerified' \in BOOLEAN, bucketSeen' \in BOOLEAN, applied' \in [Callers -> Nat]
  PROVE  StoreTyped'
BY DEF StoreTyped, lastEtag

-------------------------------------------------------------------------------
LEMMA PutStartTyped ==
  ASSUME Typed, NEW c \in Callers, PutStart(c)
  PROVE  Typed'
<1>1. StoreTyped'
  BY StoreTypedKept DEF PutStart, service, Typed, StoreTyped
<1>2. PICK r \in PutRequest :
        \/ LegalPut(r) /\ ~r.bodyFails /\ Begin(c, r, "put")
        \/ \E x \in Errors : /\ calls' = [calls EXCEPT ![c] = [req |-> r, ans |-> Thrown(x)]]
                             /\ UNCHANGED stage
  BY DEF PutStart
<1>3. r \in Request
  BY DEF Request
<1>4. CASE LegalPut(r) /\ ~r.bodyFails /\ Begin(c, r, "put")
  <2>1. Sent("put") \in Waits /\ Fits(r, Pending, "put")
    BY <1>4 DEF Sent, Waits, Fits, PutStages, PutHeads, DeleteSteps
  <2> QED
    BY <1>1, <1>3, <1>4, <2>1, BeginTyped DEF Typed
<1>5. ASSUME NEW x \in Errors, calls' = [calls EXCEPT ![c] = [req |-> r, ans |-> Thrown(x)]],
             UNCHANGED stage
      PROVE  CallsTyped'
  <2>1. stage[c] \in Waits /\ stage' = [stage EXCEPT ![c] = stage[c]]
    BY <1>5 DEF Typed, CallsTyped
  <2>2. stage[c].sent = "nothing" /\ Thrown(x) \in Answer \ {Pending}
    BY AnswersKnown DEF Typed, CallsTyped, Fits, PutStart, InFlight
  <2>3. Fits(r, Thrown(x), stage[c].sent)
    BY <2>2 DEF Fits, PutStages, PutHeads, DeleteSteps
  <2> QED
    BY <1>3, <1>5, <2>1, <2>2, <2>3, MovedTyped DEF Typed
<1> QED
  BY <1>1, <1>2, <1>4, <1>5 DEF Typed

LEMMA OtherStartTyped ==
  ASSUME Typed, NEW c \in Callers, ReadStart(c) \/ DeleteStart(c)
  PROVE  Typed'
<1>1. StoreTyped'
  BY StoreTypedKept DEF ReadStart, DeleteStart, service, Typed, StoreTyped
<1>2. CASE ReadStart(c)
  <2>1. PICK r \in ReadRequest : Begin(c, r, r.op)
    BY <1>2 DEF ReadStart
  <2>2. r \in Request /\ r.op \in {"get", "head"}
    BY DEF Request, ReadRequest
  <2>3. Sent(r.op) \in Waits /\ Fits(r, Pending, r.op)
    BY <2>2 DEF Sent, Waits, Fits, PutStages, PutHeads, HeadStages, DeleteSteps
  <2> QED
    BY <1>1, <2>1, <2>2, <2>3, BeginTyped DEF Typed
<1>3. CASE DeleteStart(c)
  <2>1. PICK r \in DeleteRequest : Begin(c, r, "headForDelete")
    BY <1>3 DEF DeleteStart
  <2>2. r \in Request /\ Sent("headForDelete") \in Waits /\ Fits(r, Pending, "headForDelete")
    BY DEF Request, Sent, Waits, Fits, PutStages, PutHeads, HeadStages, DeleteSteps
  <2> QED
    BY <1>1, <2>1, <2>2, BeginTyped DEF Typed
<1> QED
  BY <1>2, <1>3

LEMMA PutServedTyped ==
  ASSUME Typed, NEW c \in Callers, PutDone(c) \/ PutFails(c) \/ PutResent(c)
  PROVE  Typed'
<1>1. stage[c].sent \in PutStages /\ bucketVerified' \in BOOLEAN /\ bucketSeen' \in BOOLEAN
  BY DEF PutDone, PutFails, PutResent, Typed, StoreTyped
<1>2. ASSUME NEW o \in Bodies(c), Apply(c, o) PROVE StoreTyped'
  BY <1>1, <1>2, ApplyTyped DEF StoreTyped
<1>3. CASE PutDone(c)
  <2>1. PICK o \in Bodies(c) : Apply(c, o) /\ Settle(c, Stored(o.etag, o.size))
    BY <1>3 DEF PutDone
  <2>2. o.etag \in Etag /\ o.size \in Size
    BY <1>1, BodyTyped DEF Object
  <2>3. Stored(o.etag, o.size) \in Answer \ {Pending}
    BY <2>2, AnswersKnown
  <2> QED
    BY <1>2, <2>1, <2>3, SettleTyped DEF Typed
<1>4. CASE PutFails(c)
  <2>1. CASE UNCHANGED <<service, applied>>
    BY <1>1, <1>4, <2>1, StoreTypedKept, FailTyped DEF PutFails, service, Typed, StoreTyped
  <2>2. CASE \E o \in Bodies(c) : Apply(c, o)
    BY <1>2, <1>4, <2>2, FailTyped DEF PutFails, Typed
  <2> QED
    BY <1>4, <2>1, <2>2 DEF PutFails
<1>5. CASE PutResent(c)
  <2>1. CallsTyped'
    BY <1>5 DEF PutResent, Typed, CallsTyped, Fits, LegalPut
  <2> QED
    BY <1>2, <1>5, <2>1 DEF PutResent, Typed
<1> QED
  BY <1>3, <1>4, <1>5

LEMMA PutRefusedTyped ==
  ASSUME Typed, NEW c \in Callers, PutRefused(c)
  PROVE  Typed'
<1>1. StoreTyped'
  BY StoreTypedKept DEF PutRefused, service, Typed, StoreTyped
<1>2. CASE \E a \in {Refused("exists"), Refused("missing")} : Settle(c, a)
  BY <1>1, <1>2, AnswersKnown, SettleTyped DEF Typed
<1>3. CASE \E d \in Diagnoses : Send(c, d.head)
  <2>1. PICK d \in Diagnoses : Send(c, d.head)
    BY <1>3
  <2>2. d.head \in PutHeads /\ Sent(d.head) \in Waits
    BY DEF Diagnoses, FirstDiagnoses, Diagnosis, PutHeads, HeadStages, Sent, Waits
  <2>3. Fits(calls[c].req, calls[c].ans, stage[c].sent) /\ stage[c].sent \in PutStages
    BY DEF PutRefused, Typed, CallsTyped
  <2>4. Fits(calls[c].req, calls[c].ans, d.head)
    BY <2>2, <2>3 DEF Fits, PutStages, PutHeads, DeleteSteps
  <2> QED
    BY <1>1, <2>1, <2>2, <2>4, SendTyped DEF Typed
<1> QED
  BY <1>2, <1>3 DEF PutRefused

LEMMA ReadTyped ==
  ASSUME Typed, NEW c \in Callers,
         \/ ReadFound(c) \/ GetNoSuchKey(c) \/ ReadNotFound(c)
         \/ BucketPresent(c) \/ ReadFails(c)
  PROVE  Typed'
<1>1. bucketVerified' \in BOOLEAN /\ InFlight(c) /\ UNCHANGED <<service, applied, bucketSeen>>
  BY DEF ReadFound, GetNoSuchKey, ReadNotFound, BucketPresent, ReadFails, ReadPending,
         Typed, StoreTyped
<1>2. StoreTyped'
  BY <1>1, StoreTypedKept DEF service, Typed, StoreTyped
<1>3. CASE ReadFound(c)
  <2>1. calls[c].req.key \in Keys
    BY <1>3 DEF ReadFound, ReadPending, Typed, CallsTyped, Fits, HeadStages, PutHeads, DeleteSteps,
         PutRequest, ReadRequest, DeleteRequest
  <2>2. objects[calls[c].req.key] \in Object
    BY <1>3, <2>1 DEF ReadFound, Typed, StoreTyped
  <2> QED
    BY <1>1, <1>2, <1>3, <2>2, PresentTyped DEF ReadFound, Typed
<1>4. CASE Missing(c)
  BY <1>1, <1>2, <1>4, MissingTyped DEF Typed
<1>5. CASE stage' = [stage EXCEPT ![c] = Checking(@.sent)] /\ UNCHANGED calls
  <2>1. /\ calls[c].req \in Request \cup {NoRequest} /\ calls[c].ans \in Answer
        /\ calls[c] = [req |-> calls[c].req, ans |-> calls[c].ans]
        /\ stage[c] \in Waits
        /\ Fits(calls[c].req, calls[c].ans, stage[c].sent)
    BY DEF Typed, CallsTyped, Call
  <2> DEFINE w == Checking(stage[c].sent)
  <2>2. w \in Waits /\ w.sent = stage[c].sent
    BY <2>1 DEF Waits, Checking
  <2>3. stage' = [stage EXCEPT ![c] = w]
    BY <1>5
  <2>4. calls' = [calls EXCEPT ![c] = [req |-> calls[c].req, ans |-> calls[c].ans]]
    BY <1>5, <2>1 DEF Typed, CallsTyped
  <2> HIDE DEF w
  <2>5. Fits(calls[c].req, calls[c].ans, w.sent)
    BY <2>1, <2>2
  <2>6. CallsTyped'
    BY <2>1, <2>2, <2>3, <2>4, <2>5, MovedTyped DEF Typed
  <2> QED
    BY <1>2, <2>6 DEF Typed
<1>6. CASE Fail(c)
  BY <1>2, <1>6, FailTyped DEF Typed
<1> QED
  BY <1>3, <1>4, <1>5, <1>6 DEF GetNoSuchKey, ReadNotFound, BucketPresent, ReadFails

LEMMA DeleteTyped ==
  ASSUME Typed, NEW c \in Callers, DeleteDone(c) \/ DeleteRefused(c) \/ DeleteFails(c) \/ DeleteResent(c)
  PROVE  Typed'
<1>1. /\ stage[c].sent = "delete" /\ InFlight(c)
      /\ UNCHANGED <<bucketVerified, bucketSeen>>
      /\ Removes(c) \/ UNCHANGED <<service, applied>>
  BY DEF DeleteDone, DeleteRefused, DeleteFails, DeleteResent, Removes, Served, Sent
<1>2. Fits(calls[c].req, calls[c].ans, "delete")
  BY <1>1 DEF Typed, CallsTyped
<1>3. StoreTyped'
  <2>1. objects' \in [Keys -> Object \cup {NoObject}]
    BY <1>1 DEF Removes, service, Typed, StoreTyped
  <2>2. applied' \in [Callers -> Nat]
    BY <1>1 DEF Removes, Typed, StoreTyped
  <2> QED
    BY <1>1, <2>1, <2>2 DEF Removes, service, Typed, StoreTyped, lastEtag
<1>4. CASE Settle(c, Deleted) \/ Settle(c, Refused("missing")) \/ Fail(c)
  BY <1>3, <1>4, AnswersKnown, SettleTyped, FailTyped DEF Typed
<1>5. CASE Send(c, "headAfterDelete412")
  <2>1. /\ Fits(calls[c].req, calls[c].ans, "headAfterDelete412")
        /\ Sent("headAfterDelete412") \in Waits
    BY <1>2 DEF Fits, PutStages, PutHeads, HeadStages, DeleteSteps, Sent, Waits
  <2> QED
    BY <1>3, <1>5, <2>1, SendTyped DEF Typed
<1>6. CASE UNCHANGED <<calls, stage>>
  BY <1>3, <1>6 DEF Typed, CallsTyped, Fits, LegalPut
<1> QED
  BY <1>4, <1>5, <1>6 DEF DeleteDone, DeleteRefused, DeleteFails, DeleteResent

LEMMA TypedInit == Init => Typed
<1> SUFFICES ASSUME Init PROVE Typed
  OBVIOUS
<1>1. NoCall \in Call /\ NoCall.ans # Pending
  BY DEF NoCall, Call, Answer, Absent, Pending
<1>2. Idle \in Waits /\ Idle.sent = "nothing"
  BY DEF Idle, Waits
<1>3. CallsTyped
  BY <1>1, <1>2 DEF Init, CallsTyped, Fits, PutStages, PutHeads, DeleteSteps
<1>4. StoreTyped
  <2>1. contents \in Seq(Size) /\ lastEtag <= MaxEtag
    BY MaxEtagAssumption DEF Init, lastEtag
  <2>2. bucket \in BOOLEAN /\ bucketVerified \in BOOLEAN /\ bucketSeen \in BOOLEAN
    BY DEF Init
  <2> QED
    BY <2>1, <2>2 DEF Init, StoreTyped
<1> QED
  BY <1>3, <1>4 DEF Typed

LEMMA TypedStep == Typed /\ [Next]_vars => Typed'
<1> SUFFICES ASSUME Typed, [Next]_vars PROVE Typed'
  OBVIOUS
<1>1. ASSUME NEW c \in Callers, PutStart(c) \/ ReadStart(c) \/ DeleteStart(c) PROVE Typed'
  BY <1>1, PutStartTyped, OtherStartTyped
<1>2. ASSUME NEW c \in Callers, Serve(c) PROVE Typed'
  BY <1>2, PutServedTyped, PutRefusedTyped, ReadTyped, DeleteTyped DEF Serve
<1>3. CASE BucketCreated \/ BucketRemoved \/ UNCHANGED vars
  <2>1. CallsTyped'
    BY <1>3 DEF BucketCreated, BucketRemoved, vars, Typed, CallsTyped, Fits, LegalPut
  <2>2. StoreTyped'
    BY <1>3, StoreTypedKept DEF BucketCreated, BucketRemoved, vars, Typed, StoreTyped
  <2> QED
    BY <2>1, <2>2 DEF Typed
<1> QED
  BY <1>1, <1>2, <1>3 DEF Next

\* Every call and every request of it is of its type, whatever the service answers.
THEOREM TypeCorrect == Spec => []TypeOK
<1>1. Typed => TypeOK
  BY DEF Typed, CallsTyped, StoreTyped, TypeOK, Waits
<1> QED
  BY <1>1, TypedInit, TypedStep, PTL DEF Spec

-------------------------------------------------------------------------------
(***************************************************************************)
(* A bucket that never was                                                 *)
(***************************************************************************)
LEMMA BucketHistoryStep ==
  ASSUME Typed, BucketHistory, [Next]_vars
  PROVE  BucketHistory'
<1>1. ASSUME NEW c \in Callers, PutDone(c) \/ PutFails(c) \/ PutResent(c) PROVE BucketHistory'
  <2>1. CASE \E o \in Bodies(c) : Apply(c, o)
    BY <1>1, <2>1 DEF PutDone, PutFails, PutResent, Apply, BucketHistory
  <2>2. CASE UNCHANGED <<service, applied, bucketVerified>>
    BY <1>1, <2>2 DEF PutDone, PutFails, PutResent, service, BucketHistory
  <2> QED
    BY <1>1, <2>1, <2>2 DEF PutDone, PutFails, PutResent
<1>2. ASSUME NEW c \in Callers, PutStart(c) \/ ReadStart(c) \/ DeleteStart(c) \/ PutRefused(c)
                                \/ ReadNotFound(c) \/ ReadFails(c)
      PROVE  BucketHistory'
  BY <1>2 DEF PutStart, ReadStart, DeleteStart, PutRefused, ReadNotFound, ReadFails, service,
     BucketHistory
<1>3. ASSUME NEW c \in Callers, GetNoSuchKey(c) \/ BucketPresent(c) PROVE BucketHistory'
  BY <1>3 DEF GetNoSuchKey, BucketPresent, service, BucketHistory
<1>4. ASSUME NEW c \in Callers, ReadFound(c) PROVE BucketHistory'
  <2>1. calls[c].req.key \in Keys
    BY <1>4 DEF ReadFound, ReadPending, Typed, CallsTyped, Fits, HeadStages, PutHeads, DeleteSteps,
         PutRequest, ReadRequest, DeleteRequest
  <2> QED
    BY <1>4, <2>1 DEF ReadFound, service, BucketHistory
<1>5. ASSUME NEW c \in Callers, DeleteDone(c) \/ DeleteRefused(c) \/ DeleteFails(c) \/ DeleteResent(c)
      PROVE  BucketHistory'
  <2>1. CASE Removes(c)
    <3>1. objects' = [objects EXCEPT ![calls[c].req.key] = NoObject]
      BY <2>1 DEF Removes
    <3>2. \A k \in Keys : objects'[k] \in {objects[k], NoObject}
      BY <3>1 DEF Typed, StoreTyped
    <3> QED
      BY <1>5, <2>1, <3>2 DEF Removes, DeleteDone, DeleteRefused, DeleteFails, DeleteResent, service, BucketHistory
  <2>2. CASE UNCHANGED service
    BY <1>5, <2>2 DEF DeleteDone, DeleteRefused, DeleteFails, DeleteResent, service, BucketHistory
  <2> QED
    BY <1>5, <2>1, <2>2 DEF DeleteDone, DeleteRefused, DeleteFails, DeleteResent
<1>6. CASE BucketCreated \/ BucketRemoved \/ UNCHANGED vars
  BY <1>6 DEF BucketCreated, BucketRemoved, vars, BucketHistory
<1> QED
  BY <1>1, <1>2, <1>3, <1>4, <1>5, <1>6 DEF Next, Serve

LEMMA AnsweredOne ==
  ASSUME Typed, NEW c \in Callers, NEW a, Settle(c, a)
  PROVE  /\ calls'[c].ans = a /\ calls'[c].req = calls[c].req
         /\ \A d \in Callers \ {c} : calls'[d] = calls[d]
<1>1. calls[c].req \in Request \cup {NoRequest} /\ [calls[c] EXCEPT !.ans = a] = [req |-> calls[c].req, ans |-> a]
  BY DEF Typed, CallsTyped, Call
<1>2. calls' = [calls EXCEPT ![c] = [req |-> calls[c].req, ans |-> a]]
  BY <1>1 DEF Settle
<1> QED
  BY <1>2 DEF Typed, CallsTyped

\* The answers that say that the key is free.
Telling == {Absent, Refused("missing")}

LEMMA NoBucketStep ==
  ASSUME Typed, BucketHistory, NoBucketNoAnswer, [Next]_vars
  PROVE  NoBucketNoAnswer'
<1> SUFFICES ASSUME ~bucketSeen, ~bucketSeen'
             PROVE  \A d \in Callers : calls'[d].ans \notin Telling \/ calls'[d].req = NoRequest
  <2>1. bucketSeen => bucketSeen'
    BY DEF Next, vars, PutStart, ReadStart, DeleteStart, Serve, PutDone, PutRefused, PutFails, PutResent,
       ReadFound, GetNoSuchKey, ReadNotFound, BucketPresent, ReadFails, DeleteDone, DeleteRefused,
       DeleteFails, DeleteResent, Removes, BucketCreated, BucketRemoved
  <2> QED
    BY <2>1 DEF NoBucketNoAnswer, Telling
<1>1. ~bucket /\ ~bucketVerified /\ \A d \in Callers : calls[d].ans \notin Telling \/ calls[d].req = NoRequest
  BY DEF BucketHistory, NoBucketNoAnswer, Telling
<1>2. Pending \notin Telling /\ Deleted \notin Telling /\ Refused("exists") \notin Telling
      /\ Refused("changed") \notin Telling /\ (\A o : Found(o) \notin Telling)
      /\ (\A x : Thrown(x) \notin Telling) /\ (\A e, n : Stored(e, n) \notin Telling)
  BY DEF Telling, Pending, Deleted, Refused, Absent, Found, Thrown, Stored
<1>3. CASE UNCHANGED calls
  BY <1>1, <1>3
<1>4. ASSUME NEW c \in Callers, NEW a, Settle(c, a), a \notin Telling
      PROVE  \A d \in Callers : calls'[d].ans \notin Telling \/ calls'[d].req = NoRequest
  BY <1>1, <1>4, AnsweredOne
<1>5. ASSUME NEW c \in Callers, NEW r, NEW a, a \notin Telling,
             calls' = [calls EXCEPT ![c] = [req |-> r, ans |-> a]]
      PROVE  \A d \in Callers : calls'[d].ans \notin Telling \/ calls'[d].req = NoRequest
  BY <1>1, <1>5 DEF Typed, CallsTyped
<1>6. ASSUME NEW c \in Callers, PutStart(c) \/ ReadStart(c) \/ DeleteStart(c)
      PROVE  \E r, a : a \notin Telling /\ calls' = [calls EXCEPT ![c] = [req |-> r, ans |-> a]]
  BY <1>2, <1>6 DEF PutStart, ReadStart, DeleteStart, Begin
<1>7. ASSUME NEW c \in Callers, Serve(c)
      PROVE  UNCHANGED calls \/ \E a : Settle(c, a) /\ a \notin Telling
  BY <1>1, <1>2, <1>7
     DEF Serve, PutDone, PutRefused, PutFails, PutResent, PutStatus, Apply, ReadFound, GetNoSuchKey,
         ReadNotFound, BucketPresent, ReadFails, DeleteDone, DeleteRefused, DeleteFails,
         DeleteResent, Removes, MustCheckBucket, Present, Send, Fail
<1>8. CASE BucketCreated \/ BucketRemoved \/ UNCHANGED vars
  BY <1>3, <1>8 DEF BucketCreated, BucketRemoved, vars
<1> QED
  BY <1>3, <1>4, <1>5, <1>6, <1>7, <1>8 DEF Next

\* A misconfigured bucket is not a free key, however often it was looked for.
THEOREM NoBucketSaysNothing == Spec => []NoBucketNoAnswer
<1>1. Init => BucketHistory /\ NoBucketNoAnswer
  BY DEF Init, BucketHistory, NoBucketNoAnswer, NoCall
<1> QED
  BY <1>1, TypedInit, TypedStep, BucketHistoryStep, NoBucketStep, PTL DEF Spec

-------------------------------------------------------------------------------
(***************************************************************************)
(* Conditional puts and deletes                                            *)
(***************************************************************************)
\* What one request does to objects, etags and history.
Applies(c) == \E o \in Bodies(c) : Apply(c, o)

LEMMA StartDoes ==
  ASSUME Typed, NEW c \in Callers, PutStart(c) \/ ReadStart(c) \/ DeleteStart(c)
  PROVE  /\ UNCHANGED <<objects, contents>>
         /\ \E r \in Request : \E a :
              /\ calls' = [calls EXCEPT ![c] = [req |-> r, ans |-> a]]
              /\ r.op \in {"put", "delete"} => /\ r.ifMatch <= lastEtag
                                               /\ applied' = [applied EXCEPT ![c] = 0]
              /\ r.op \notin {"put", "delete"} => UNCHANGED applied
<1>1. CASE PutStart(c)
  <2>1. PICK r \in PutRequest :
          KnownEtag(r) /\ \E a : calls' = [calls EXCEPT ![c] = [req |-> r, ans |-> a]]
    BY <1>1 DEF PutStart, Begin
  <2>2. r \in Request /\ r.op = "put" /\ r.ifMatch <= lastEtag
    BY <2>1 DEF Request, PutRequest, KnownEtag, Typed, StoreTyped, lastEtag
  <2> QED
    BY <1>1, <2>1, <2>2 DEF PutStart, service
<1>2. CASE ReadStart(c)
  BY <1>2 DEF ReadStart, Begin, service, Request, ReadRequest
<1>3. CASE DeleteStart(c)
  <2>1. PICK r \in DeleteRequest :
          KnownEtag(r) /\ \E a : calls' = [calls EXCEPT ![c] = [req |-> r, ans |-> a]]
    BY <1>3 DEF DeleteStart, Begin
  <2>2. r \in Request /\ r.op = "delete" /\ r.ifMatch <= lastEtag
    BY <2>1 DEF Request, DeleteRequest, KnownEtag, Typed, StoreTyped, lastEtag
  <2> QED
    BY <1>3, <2>1, <2>2 DEF DeleteStart, service
<1> QED
  BY <1>1, <1>2, <1>3

LEMMA ServedDoes ==
  ASSUME Typed, NEW c \in Callers, Serve(c)
  PROVE  /\ \A d \in Callers : calls'[d].req = calls[d].req
         /\ \/ UNCHANGED <<objects, contents, applied>>
            \/ stage[c].sent \in PutStages /\ Applies(c)
            \/ Removes(c)
<1>1. (\E a : Settle(c, a)) \/ UNCHANGED calls
  BY DEF Serve, PutDone, PutRefused, PutFails, PutResent, ReadFound, GetNoSuchKey,
         ReadNotFound, BucketPresent, ReadFails, DeleteDone, DeleteRefused, DeleteFails,
         DeleteResent, Missing, Present, Send, Fail
<1>2. \A d \in Callers : calls'[d].req = calls[d].req
  BY <1>1, AnsweredOne
<1>3. \/ UNCHANGED <<objects, contents, applied>>
      \/ stage[c].sent \in PutStages /\ Applies(c)
      \/ Removes(c)
  BY DEF Serve, PutDone, PutRefused, PutFails, PutResent, ReadFound, GetNoSuchKey,
         ReadNotFound, BucketPresent, ReadFails, DeleteDone, DeleteRefused, DeleteFails,
         DeleteResent, Applies, service
<1> QED
  BY <1>2, <1>3

EtagsLow == EtagsGivenOut /\ Spent /\ IfMatchOnce

LEMMA SpentStep ==
  ASSUME Typed, EtagsLow, "sameBytes" \notin Faults, [Next]_vars
  PROVE  EtagsLow'
<1> lastEtag \in Nat
  BY DEF Typed, StoreTyped, lastEtag
<1>0. /\ \A k \in Keys : objects[k] = NoObject \/ objects[k] \in Object
      /\ \A d \in Callers : /\ applied[d] \in Nat
                            /\ calls[d].req.op \in {"put", "delete"} =>
                                 calls[d].req \in PutRequest \cup DeleteRequest
  <2>1. ASSUME NEW d \in Callers, calls[d].req.op \in {"put", "delete"}
        PROVE  calls[d].req \in PutRequest \cup DeleteRequest
    <3>1. calls[d].req \in Request \cup {NoRequest}
      BY DEF Typed, CallsTyped, Call
    <3> QED
      BY <2>1, <3>1 DEF Request, ReadRequest, NoRequest
  <2> QED
    BY <2>1 DEF Typed, StoreTyped
<1>1. ASSUME NEW c \in Callers, PutStart(c) \/ ReadStart(c) \/ DeleteStart(c) PROVE EtagsLow'
  <2>0. PICK r \in Request : \E a :
          /\ calls' = [calls EXCEPT ![c] = [req |-> r, ans |-> a]]
          /\ r.op \in {"put", "delete"} =>
               r.ifMatch <= lastEtag /\ applied' = [applied EXCEPT ![c] = 0]
          /\ r.op \notin {"put", "delete"} => UNCHANGED applied
    BY <1>1, StartDoes
  <2>1. PICK a :
          /\ calls' = [calls EXCEPT ![c] = [req |-> r, ans |-> a]]
          /\ r.op \in {"put", "delete"} =>
               r.ifMatch <= lastEtag /\ applied' = [applied EXCEPT ![c] = 0]
          /\ r.op \notin {"put", "delete"} => UNCHANGED applied
    BY <2>0
  <2>2. UNCHANGED <<objects, lastEtag>>
    BY <1>1, StartDoes DEF lastEtag
  <2>3. calls'[c].req = r /\ \A d \in Callers \ {c} : calls'[d] = calls[d] /\ applied'[d] = applied[d]
    BY <2>1 DEF Typed, CallsTyped, StoreTyped
  <2>4. r.op \in {"put", "delete"} => applied'[c] = 0
    BY <2>1 DEF Typed, StoreTyped
  <2> QED
    BY <2>1, <2>2, <2>3, <2>4 DEF EtagsLow, EtagsGivenOut, Spent, IfMatchOnce
<1>2. CASE UNCHANGED <<objects, contents, calls, applied>>
  BY <1>2 DEF EtagsLow, EtagsGivenOut, Spent, IfMatchOnce, lastEtag
<1>3. ASSUME NEW c \in Callers, Serve(c) PROVE EtagsLow'
  <2>0. \A d \in Callers : calls'[d].req = calls[d].req
    BY <1>3, ServedDoes
  <2>1. CASE UNCHANGED <<objects, contents, applied>>
    BY <2>0, <2>1 DEF EtagsLow, EtagsGivenOut, Spent, IfMatchOnce, lastEtag
  <2>2. CASE Removes(c)
    <3> DEFINE k == calls[c].req.key
    <3>1. \A j \in Keys : objects'[j] = IF j = k THEN NoObject ELSE objects[j]
      BY <2>2 DEF Removes, Typed, StoreTyped
    <3>2. \A d \in Callers :
            applied'[d] = IF d = c /\ objects[k] # NoObject THEN applied[c] + 1 ELSE applied[d]
      BY <2>2 DEF Removes, Typed, StoreTyped
    <3>3. \A d \in Callers : calls[d].req.op \in {"put", "delete"} => calls[d].req.key \in Keys
      BY <1>0 DEF PutRequest, DeleteRequest
    <3>4. UNCHANGED lastEtag
      BY <2>2 DEF Removes, lastEtag
    <3>5. EtagsGivenOut'
      BY <2>0, <3>1, <3>4 DEF EtagsLow, EtagsGivenOut
    <3>6. Spent'
      BY <2>0, <3>1, <3>2, <3>3 DEF EtagsLow, Spent
    <3>7. objects[k] # NoObject /\ calls[c].req.op \in {"put", "delete"}
            /\ calls[c].req.ifMatch # NoEtag => applied[c] = 0
      BY <1>0, <2>2 DEF Removes, DeleteHeader, EtagsLow, Spent
    <3>8. IfMatchOnce'
      BY <2>0, <3>2, <3>7 DEF EtagsLow, IfMatchOnce
    <3> QED
      BY <3>5, <3>6, <3>8 DEF EtagsLow
  <2>3. CASE stage[c].sent \in PutStages /\ Applies(c)
    <3>1. PICK o \in Bodies(c) : Apply(c, o)
      BY <2>3 DEF Applies
    <3>2. o \in Object /\ o.etag = lastEtag + 1 /\ calls[c].req \in PutRequest /\ o # NoObject
      BY <2>3, BodyTyped, NoObjectAssumption
    <3>3. lastEtag' = lastEtag + 1
      <4>1. contents' = Append(contents, o.size) /\ contents \in Seq(Size) /\ o.size \in Size
        BY <3>1, <3>2 DEF Apply, Typed, StoreTyped, Object
      <4> QED
        BY <4>1 DEF lastEtag
    <3>4. calls[c].req.key \in Keys
      BY <3>2 DEF PutRequest
    <3>5. \A k \in Keys : objects'[k] = IF k = calls[c].req.key THEN o ELSE objects[k]
      BY <3>1, <3>4 DEF Apply, Typed, StoreTyped
    <3>6. \A d \in Callers : applied'[d] = IF d = c THEN applied[c] + 1 ELSE applied[d]
      BY <3>1 DEF Apply, Typed, StoreTyped
    <3>7. \A d \in Callers : calls[d].req.op \in {"put", "delete"} =>
            calls[d].req.key \in Keys /\ calls[d].req.ifMatch <= lastEtag /\ calls[d].req.ifMatch \in Nat
      BY <1>0 DEF PutRequest, DeleteRequest, Etag, NoEtag, EtagsLow, EtagsGivenOut
    <3>8. EtagsGivenOut'
      <4>1. \A k \in Keys : objects'[k] # NoObject => objects'[k].etag <= lastEtag'
        BY <1>0, <3>2, <3>3, <3>5 DEF EtagsLow, EtagsGivenOut, Object, Etag
      <4> QED
        BY <2>0, <3>3, <3>7, <4>1 DEF EtagsGivenOut
    <3>9. Spent'
      BY <2>0, <3>2, <3>5, <3>6, <3>7 DEF EtagsLow, Spent
    <3>10. calls[c].req.op \in {"put", "delete"} /\ calls[c].req.ifMatch # NoEtag => applied[c] = 0
      BY <1>0, <3>1 DEF Apply, HeaderHolds, Conditions, EtagsLow, Spent
    <3>11. IfMatchOnce'
      BY <2>0, <3>6, <3>10 DEF EtagsLow, IfMatchOnce
    <3> QED
      BY <3>8, <3>9, <3>11 DEF EtagsLow
  <2> QED
    BY <1>3, <2>1, <2>2, <2>3, ServedDoes
<1> QED
  BY <1>1, <1>2, <1>3 DEF Next, BucketCreated, BucketRemoved, vars

\* Whatever is resent, retried or lost: while no caller puts old bytes again, an
\* if-match put or delete is applied at most once.
THEOREM IfMatchAppliedOnce ==
  ASSUME "sameBytes" \notin Faults
  PROVE  Spec => []IfMatchOnce
<1>1. Init => EtagsLow
  BY DEF Init, NoCall, NoRequest, EtagsLow, EtagsGivenOut, Spent, IfMatchOnce
<1>2. "sameBytes" \notin Faults
  OBVIOUS
<1>3. Typed /\ EtagsLow /\ [Next]_vars => EtagsLow'
  BY <1>2, SpentStep
<1>4. EtagsLow => IfMatchOnce
  BY DEF EtagsLow
<1> QED
  BY <1>1, <1>3, <1>4, TypedInit, TypedStep, PTL DEF Spec

\* A conditional delete removes no object but one of the etag its caller named.
THEOREM DeleteSparesOthers == Spec => DeleteKeepsOthersObjects
<1> DEFINE Spares ==
      \A c \in Callers :
        /\ applied'[c] > applied[c]
        /\ calls[c].req.op = "delete" /\ calls[c].req.ifMatch # NoEtag
        => objects[calls[c].req.key].etag = calls[c].req.ifMatch
<1>1. ASSUME Typed, [Next]_vars PROVE Spares
  <2> SUFFICES ASSUME NEW c \in Callers, applied'[c] > applied[c],
                      calls[c].req.op = "delete", calls[c].req.ifMatch # NoEtag
               PROVE  objects[calls[c].req.key].etag = calls[c].req.ifMatch
    OBVIOUS
  <2>0. applied \in [Callers -> Nat]
    BY <1>1 DEF Typed, StoreTyped
  <2>1. ASSUME NEW d \in Callers, PutStart(d) \/ ReadStart(d) \/ DeleteStart(d) PROVE FALSE
    BY <2>0, <2>1 DEF PutStart, ReadStart, DeleteStart
  <2>2. ASSUME NEW d \in Callers, Serve(d)
        PROVE  objects[calls[c].req.key].etag = calls[c].req.ifMatch
    <3>1. CASE UNCHANGED <<objects, contents, applied>>
      BY <2>0, <3>1
    <3>2. CASE stage[d].sent \in PutStages /\ Applies(d)
      <4>1. d = c
        BY <2>0, <3>2 DEF Applies, Apply
      <4>2. calls[c].req \in PutRequest
        BY <1>1, <3>2, <4>1 DEF Typed, CallsTyped, Fits
      <4> QED
        BY <4>2 DEF PutRequest
    <3>3. CASE Removes(d)
      <4>1. d = c
        BY <2>0, <3>3 DEF Removes
      <4>2. objects[calls[c].req.key] # NoObject
        BY <2>0, <3>3, <4>1 DEF Removes
      <4> QED
        BY <3>3, <4>1, <4>2 DEF Removes, DeleteHeader
    <3> QED
      BY <1>1, <2>2, <3>1, <3>2, <3>3, ServedDoes
  <2>3. CASE BucketCreated \/ BucketRemoved \/ UNCHANGED vars
    BY <2>0, <2>3 DEF BucketCreated, BucketRemoved, vars
  <2> QED
    BY <1>1, <2>1, <2>2, <2>3 DEF Next
<1> QED
  BY <1>1, TypedInit, TypedStep, PTL DEF Spec, DeleteKeepsOthersObjects

-------------------------------------------------------------------------------
(***************************************************************************)
(* Retries run out                                                         *)
(***************************************************************************)
LEMMA RequestsFromTyped ==
  ASSUME NEW s
  PROVE  RequestsFrom(s) \in 0..4 /\ (s # "nothing" => RequestsFrom(s) > 0)
BY DEF RequestsFrom

\* Each thing the reply to a request makes a call do, seen at its stage: it is
\* answered, looks for the bucket, or sends a request with fewer to follow.
LEMMA SettledRunsOut ==
  ASSUME Typed, NEW c \in Callers, InFlight(c), NEW a, Settle(c, a)
  PROVE  RequestsLeft(stage'[c]) < RequestsLeft(stage[c])
<1>1. stage'[c] = Idle /\ stage[c].sent # "nothing"
  BY DEF Settle, InFlight, Typed, CallsTyped, Fits
<1>2. RequestsLeft(stage'[c]) = 0
  <2>1. RequestsFrom("nothing") = 0
    BY DEF RequestsFrom
  <2>2. stage'[c].sent = "nothing" /\ stage'[c].checking = FALSE
    BY <1>1 DEF Idle
  <2> QED
    BY <2>1, <2>2 DEF RequestsLeft
<1>3. RequestsFrom(stage[c].sent) \in 1..4
  BY <1>1, RequestsFromTyped
<1> QED
  BY <1>2, <1>3 DEF RequestsLeft

LEMMA SentRunsOut ==
  ASSUME Typed, NEW c \in Callers, NEW s, Send(c, s),
         RequestsFrom(s) < RequestsFrom(stage[c].sent)
  PROVE  RequestsLeft(stage'[c]) < RequestsLeft(stage[c])
<1>1. stage'[c].sent = s /\ stage'[c].checking = FALSE
  BY DEF Send, Sent, Typed, CallsTyped
<1>2. RequestsFrom(s) \in 0..4 /\ RequestsFrom(stage[c].sent) \in 0..4
  BY RequestsFromTyped
<1> QED
  BY <1>1, <1>2 DEF RequestsLeft

LEMMA ReadsRunOut ==
  ASSUME Typed, NEW c \in Callers, InFlight(c),
         Missing(c) \/ \E o \in Object : Present(c, o)
  PROVE  RequestsLeft(stage'[c]) < RequestsLeft(stage[c])
<1>1. CASE \E a : Settle(c, a)
  BY <1>1, SettledRunsOut
<1>2. CASE \/ stage[c].sent = "headAfterCreate409" /\ Send(c, "retryCreate")
           \/ stage[c].sent = "headForDelete" /\ Send(c, "delete")
           \/ stage[c].sent = "headAfterMatch409" /\ Send(c, "retryMatch")
  BY <1>2, SentRunsOut DEF RequestsFrom
<1> QED
  BY <1>1, <1>2 DEF Missing, Present, Fail

LEMMA ServedRunsOut ==
  ASSUME Typed, NEW c \in Callers, Serve(c)
  PROVE  \/ stage' = stage
         \/ /\ RequestsLeft(stage'[c]) < RequestsLeft(stage[c])
            /\ \A d \in Callers \ {c} : stage'[d] = stage[d]
<1>1. InFlight(c) /\ \A d \in Callers \ {c} : stage'[d] = stage[d]
  <2>1. InFlight(c)
    BY DEF Serve, PutDone, PutRefused, PutFails, PutResent, ReadFound, GetNoSuchKey, ReadNotFound,
       BucketPresent, ReadFails, ReadPending, DeleteDone, DeleteRefused, DeleteFails, DeleteResent,
       Removes, Served
  <2>2. ASSUME NEW w, stage' = stage \/ stage' = [stage EXCEPT ![c] = w]
        PROVE  \A d \in Callers \ {c} : stage'[d] = stage[d]
    BY <2>2 DEF Typed, CallsTyped
  <2>3. CASE \E a : Settle(c, a)
    BY <2>1, <2>2, <2>3 DEF Settle
  <2>4. CASE \E s : Send(c, s)
    BY <2>1, <2>2, <2>4 DEF Send
  <2>5. CASE stage' = stage \/ stage' = [stage EXCEPT ![c] = Checking(@.sent)]
    BY <2>1, <2>2, <2>5
  <2>6. CASE Missing(c) \/ \E o : Present(c, o)
    BY <2>3, <2>4, <2>6 DEF Missing, Present, Fail
  <2>7. CASE PutDone(c) \/ PutRefused(c) \/ PutFails(c) \/ PutResent(c)
    <3>1. CASE PutRefused(c)
      <4>1. (\E a : Settle(c, a)) \/ (\E s : Send(c, s))
        BY <3>1 DEF PutRefused
      <4> QED
        BY <2>3, <2>4, <4>1
    <3> QED
      BY <2>3, <2>5, <2>7, <3>1 DEF PutDone, PutFails, PutResent, Fail
  <2>8. CASE \/ ReadFound(c) \/ GetNoSuchKey(c) \/ ReadNotFound(c)
             \/ BucketPresent(c) \/ ReadFails(c)
    BY <2>3, <2>5, <2>6, <2>8
       DEF ReadFound, GetNoSuchKey, ReadNotFound, BucketPresent, ReadFails, Fail
  <2>9. CASE DeleteDone(c) \/ DeleteRefused(c) \/ DeleteFails(c) \/ DeleteResent(c)
    BY <2>3, <2>4, <2>5, <2>9 DEF DeleteDone, DeleteRefused, DeleteFails, DeleteResent, Fail
  <2> QED
    BY <2>7, <2>8, <2>9 DEF Serve
<1>2. CASE PutResent(c) \/ DeleteResent(c)
  BY <1>2 DEF PutResent, DeleteResent
<1>3. CASE PutDone(c) \/ PutFails(c) \/ ReadFails(c) \/ DeleteDone(c) \/ DeleteFails(c)
  BY <1>1, <1>3, SettledRunsOut DEF PutDone, PutFails, ReadFails, DeleteDone, DeleteFails, Fail
<1>4. CASE PutRefused(c)
  <2>1. CASE \E a : Settle(c, a)
    BY <1>1, <2>1, SettledRunsOut
  <2>2. CASE \E d \in Diagnoses : d.sent = stage[c].sent /\ Send(c, d.head)
    <3>1. PICK d \in Diagnoses : d.sent = stage[c].sent /\ Send(c, d.head)
      BY <2>2
    <3>2. RequestsFrom(d.head) < RequestsFrom(d.sent)
      BY DEF Diagnoses, FirstDiagnoses, Diagnosis, RequestsFrom
    <3> QED
      BY <1>1, <3>1, <3>2, SentRunsOut
  <2> QED
    BY <1>4, <2>1, <2>2 DEF PutRefused
<1>5. CASE ReadFound(c) \/ GetNoSuchKey(c) \/ BucketPresent(c)
  <2>1. CASE ReadFound(c)
    <3>1. calls[c].req.key \in Keys
      BY <2>1 DEF ReadFound, ReadPending, Typed, CallsTyped, Fits, HeadStages, PutHeads, DeleteSteps,
           PutRequest, ReadRequest, DeleteRequest
    <3>2. objects[calls[c].req.key] \in Object
      BY <2>1, <3>1 DEF ReadFound, Typed, StoreTyped
    <3> QED
      BY <1>1, <2>1, <3>2, ReadsRunOut DEF ReadFound
  <2> QED
    BY <1>1, <1>5, <2>1, ReadsRunOut DEF GetNoSuchKey, BucketPresent
<1>6. CASE ReadNotFound(c)
  <2>1. CASE Missing(c)
    BY <1>1, <2>1, ReadsRunOut
  <2>2. CASE stage' = [stage EXCEPT ![c] = Checking(@.sent)]
    <3>1. /\ stage'[c].sent = stage[c].sent /\ stage'[c].checking /\ ~stage[c].checking
      BY <1>6, <2>2 DEF Checking, ReadNotFound, ReadPending, Typed, CallsTyped
    <3>2. RequestsFrom(stage[c].sent) \in 0..4
      BY RequestsFromTyped
    <3> QED
      BY <1>1, <3>1, <3>2 DEF RequestsLeft
  <2> QED
    BY <1>6, <2>1, <2>2 DEF ReadNotFound
<1>7. CASE DeleteRefused(c)
  <2>1. CASE \E a : Settle(c, a)
    BY <1>1, <2>1, SettledRunsOut
  <2>2. CASE Send(c, "headAfterDelete412")
    <3>1. stage[c].sent = "delete"
      BY <1>7 DEF DeleteRefused, Served, Sent
    <3> QED
      BY <1>1, <2>2, <3>1, SentRunsOut DEF RequestsFrom
  <2> QED
    BY <1>7, <2>1, <2>2 DEF DeleteRefused
<1> QED
  BY <1>2, <1>3, <1>4, <1>5, <1>6, <1>7 DEF Serve

\* However many callers contend for a key, and whatever the service answers, every
\* request that a call sends leaves it fewer to send: at most four and their
\* HeadBuckets, so a 409 is retried once and never again.
THEOREM RetriesEnd == Spec => RetriesRunOut
<1> DEFINE RunsOut ==
      \A c \in Callers :
        InFlight(c) /\ stage'[c] # stage[c]
        => RequestsLeft(stage'[c]) < RequestsLeft(stage[c])
<1>1. ASSUME Typed, [Next]_vars PROVE RunsOut
  <2> SUFFICES ASSUME NEW c \in Callers, InFlight(c), stage'[c] # stage[c]
               PROVE  RequestsLeft(stage'[c]) < RequestsLeft(stage[c])
    OBVIOUS
  <2>1. ASSUME NEW d \in Callers, PutStart(d) \/ ReadStart(d) \/ DeleteStart(d) PROVE FALSE
    <3>1. c # d
      BY <2>1 DEF PutStart, ReadStart, DeleteStart
    <3> QED
      BY <1>1, <2>1, <3>1 DEF PutStart, ReadStart, DeleteStart, Begin, Typed, CallsTyped
  <2>2. ASSUME NEW d \in Callers, Serve(d)
        PROVE  RequestsLeft(stage'[c]) < RequestsLeft(stage[c])
    BY <1>1, <2>2, ServedRunsOut
  <2>3. CASE BucketCreated \/ BucketRemoved \/ UNCHANGED vars
    BY <2>3 DEF BucketCreated, BucketRemoved, vars
  <2> QED
    BY <1>1, <2>1, <2>2, <2>3 DEF Next
<1>2. Typed /\ [Next]_vars => [RunsOut]_vars
  BY <1>1
<1> QED
  BY <1>2, TypedInit, TypedStep, PTL DEF Spec, RetriesRunOut

-------------------------------------------------------------------------------
(***************************************************************************)
(* The adapter implements the interface.  What its HEADs will say is       *)
(* bounded by what the refused request saw: an object of the etag the call *)
(* names has either gone, or come back with its bytes.                     *)
(***************************************************************************)
CreateSteps == {"retryCreate", "headAfterCreate409", "headAfterRetryCreate"}
Stale == {"headAfterMatch412", "headAfterRetryMatch412", "headAfterDelete412"}
MatchSteps == Stale \cup {"retryMatch", "headAfterMatch409", "headAfterRetryMatch409"}

Gone(r) ==
  LET o == objects[r.key] IN o = NoObject \/ o.etag # r.ifMatch \/ r.ifMatch \in cameBack

Asks(r, w) ==
  /\ w.sent \in CreateSteps => r.createOnly
  /\ w.sent \in MatchSteps => r.ifMatch # NoEtag
  /\ w.checking => w.sent \in {"get"} \cup HeadStages

Asked ==
  \A c \in Callers :
    /\ Asks(calls[c].req, stage[c])
    /\ stage[c].sent \in Stale => Gone(calls[c].req)
    /\ calls[c].req.op \in {"put", "delete"} => calls[c].req.ifMatch \in 0..lastEtag

LEMMA RequestKinds ==
  \A r \in Request :
    /\ r.op \in {"put", "get", "head", "delete"} /\ r.key \in Keys
    /\ r.op = "put" <=> r \in PutRequest
    /\ r.op = "delete" <=> r \in DeleteRequest
    /\ r.op \in {"get", "head"} <=> r \in ReadRequest
BY DEF Request, PutRequest, DeleteRequest, ReadRequest

LEMMA StoreSteps ==
  ASSUME Typed, NEW c \in Callers, Serve(c)
  PROVE  \/ UNCHANGED service
         \/ stage[c].sent \in PutStages /\ Applies(c)
         \/ Removes(c)
BY DEF Serve, PutDone, PutRefused, PutFails, PutResent, ReadFound, GetNoSuchKey,
   ReadNotFound, BucketPresent, ReadFails, DeleteDone, DeleteRefused, DeleteFails, DeleteResent,
   Applies

\* An object that is gone stays so, or its etag comes back.
LEMMA GoneStays ==
  ASSUME Typed, NEW c \in Callers, Serve(c), NEW r, r.key \in Keys, r.ifMatch \in 1..lastEtag,
         Gone(r)
  PROVE  Gone(r)'
<1>1. CASE UNCHANGED service
  BY <1>1 DEF Gone, service
<1>2. CASE stage[c].sent \in PutStages /\ Applies(c)
  <2>1. PICK o \in Bodies(c) : Apply(c, o)
    BY <1>2 DEF Applies
  <2>2. objects'[r.key] \in {objects[r.key], o}
    BY <2>1 DEF Apply, Typed, StoreTyped
  <2>3. cameBack' = cameBack \cup ({o.etag} \cap 1..lastEtag)
    BY <2>1 DEF Apply
  <2> QED
    BY <2>2, <2>3 DEF Gone
<1>3. CASE Removes(c)
  <2>1. objects'[r.key] \in {objects[r.key], NoObject} /\ cameBack' = cameBack
    BY <1>3 DEF Removes, Typed, StoreTyped
  <2> QED
    BY <2>1 DEF Gone
<1> QED
  BY <1>1, <1>2, <1>3, StoreSteps

\* How a call that is served moves on.
LEMMA ServeMoves ==
  ASSUME Typed, Asked, NEW c \in Callers, Serve(c)
  PROVE  \/ UNCHANGED <<calls, stage>>
         \/ stage' = [stage EXCEPT ![c] = Idle]
         \/ \E w \in Waits : /\ stage' = [stage EXCEPT ![c] = w]
                             /\ Asks(calls[c].req, w)
                             /\ w.sent \in Stale => Gone(calls[c].req)
                             /\ UNCHANGED service
<1> DEFINE r == calls[c].req
           Moves == \E w \in Waits : /\ stage' = [stage EXCEPT ![c] = w]
                                     /\ Asks(r, w)
                                     /\ w.sent \in Stale => Gone(r)
                                     /\ UNCHANGED service
<1>0. ASSUME NEW s, Send(c, s), Sent(s) \in Waits, Asks(r, Sent(s)), UNCHANGED service,
             s \in Stale => Gone(r)
      PROVE  Moves
  BY <1>0 DEF Send, Sent
<1>1. CASE PutRefused(c)
  <2>1. CASE \E d \in Diagnoses, status \in PutStatus(c) :
               /\ d.sent = stage[c].sent /\ d.createOnly = r.createOnly /\ d.status = status
               /\ Send(c, d.head)
    <3>1. PICK d \in Diagnoses, status \in PutStatus(c) :
               /\ d.sent = stage[c].sent /\ d.createOnly = r.createOnly /\ d.status = status
               /\ Send(c, d.head)
      BY <2>1
    <3>2. Sent(d.head) \in Waits /\ Sent(d.head).sent = d.head /\ ~Sent(d.head).checking
      BY DEF Diagnoses, FirstDiagnoses, Diagnosis, HeadStages, Sent, Waits
    <3>3. d.head \in CreateSteps => r.createOnly
      BY <3>1 DEF Diagnoses, FirstDiagnoses, Diagnosis, CreateSteps
    <3>4. d.head \in MatchSteps => ~r.createOnly
      BY <3>1 DEF Diagnoses, FirstDiagnoses, Diagnosis, MatchSteps, Stale
    <3>5. d.head \in MatchSteps => r.ifMatch # NoEtag
      BY <3>1, <3>4 DEF PutStatus, HeaderHolds, Conditions
    <3>6. d.head \in Stale => status = 412
      BY <3>1 DEF Diagnoses, FirstDiagnoses, Diagnosis, Stale
    <3>7. d.head \in Stale => Gone(r)
      BY <3>1, <3>4, <3>6 DEF PutStatus, HeaderHolds, Conditions, Gone, MatchSteps
    <3>8. Asks(r, Sent(d.head))
      BY <3>2, <3>3, <3>5 DEF Asks
    <3> QED
      BY <1>0, <1>1, <3>1, <3>2, <3>7, <3>8 DEF PutRefused
  <2> QED
    BY <1>1, <2>1 DEF PutRefused, Settle, Fail
<1>2. CASE \/ PutDone(c) \/ PutFails(c) \/ PutResent(c) \/ ReadFails(c)
           \/ DeleteDone(c) \/ DeleteFails(c) \/ DeleteResent(c)
  BY <1>2 DEF PutDone, PutFails, PutResent, ReadFails, DeleteDone, DeleteFails, DeleteResent,
     Settle, Fail
<1>3. CASE DeleteRefused(c)
  <2>1. CASE Send(c, "headAfterDelete412")
    <3>1. /\ Sent("headAfterDelete412") \in Waits
          /\ Asks(r, Sent("headAfterDelete412"))
          /\ "headAfterDelete412" \in Stale
          /\ r.ifMatch # NoEtag
      BY <1>3, <2>1 DEF DeleteRefused, DeleteHeader, Sent, Waits, Asks, HeadStages, MatchSteps, Stale,
         CreateSteps
    <3>2. Gone(r) \/ Settle(c, Refused("missing"))
      BY <1>3 DEF DeleteRefused, DeleteHeader, Gone
    <3> QED
      BY <1>0, <1>3, <2>1, <3>1, <3>2 DEF DeleteRefused, Settle
  <2> QED
    BY <1>3, <2>1 DEF DeleteRefused, Settle
<1>4. CASE ReadFound(c) \/ GetNoSuchKey(c) \/ BucketPresent(c) \/ ReadNotFound(c)
  <2>0. UNCHANGED service /\ Asks(r, stage[c]) /\ stage[c] \in Waits
    BY <1>4 DEF ReadFound, GetNoSuchKey, BucketPresent, ReadNotFound, Asked, Typed, CallsTyped
  <2>1. CASE ReadNotFound(c) /\ stage' = [stage EXCEPT ![c] = Checking(@.sent)]
    <3> DEFINE w == Checking(stage[c].sent)
    <3>1. w \in Waits /\ w.sent = stage[c].sent
      BY <2>0 DEF Waits, Checking
    <3>2. Asks(r, w)
      BY <2>0, <2>1, <3>1 DEF Asks, ReadNotFound, ReadPending
    <3> QED
      BY <2>0, <2>1, <3>1, <3>2 DEF Asked
  <2>2. CASE stage[c].sent = "headAfterCreate409" /\ Send(c, "retryCreate")
    <3>1. Sent("retryCreate") \in Waits /\ Asks(r, Sent("retryCreate")) /\ "retryCreate" \notin Stale
      BY <2>0, <2>2 DEF Sent, Waits, Asks, PutStages, CreateSteps, MatchSteps, Stale
    <3> QED
      BY <1>0, <2>0, <2>2, <3>1
  <2>3. CASE stage[c].sent = "headForDelete" /\ Send(c, "delete")
    <3>1. Sent("delete") \in Waits /\ Asks(r, Sent("delete")) /\ "delete" \notin Stale
      BY DEF Sent, Waits, Asks, CreateSteps, MatchSteps, Stale
    <3> QED
      BY <1>0, <2>0, <2>3, <3>1
  <2>4. CASE stage[c].sent = "headAfterMatch409" /\ Send(c, "retryMatch")
    <3>1. Sent("retryMatch") \in Waits /\ Asks(r, Sent("retryMatch")) /\ "retryMatch" \notin Stale
      BY <2>0, <2>4 DEF Sent, Waits, Asks, PutStages, CreateSteps, MatchSteps, Stale
    <3> QED
      BY <1>0, <2>0, <2>4, <3>1
  <2>5. CASE \E a : Settle(c, a)
    BY <2>5 DEF Settle
  <2> QED
    BY <1>4, <2>1, <2>2, <2>3, <2>4, <2>5
       DEF ReadFound, GetNoSuchKey, BucketPresent, ReadNotFound, Missing, Present, Fail
<1> QED
  BY <1>1, <1>2, <1>3, <1>4 DEF Serve

LEMMA AskedStep ==
  ASSUME Typed, Asked, [Next]_vars
  PROVE  Asked'
<1> lastEtag \in Nat /\ Typed'
  BY TypedStep DEF Typed, StoreTyped, lastEtag
<1>1. ASSUME NEW c \in Callers, PutStart(c) \/ ReadStart(c) \/ DeleteStart(c) PROVE Asked'
  <2>0. PICK r \in Request : \E a :
          /\ calls' = [calls EXCEPT ![c] = [req |-> r, ans |-> a]]
          /\ r.op \in {"put", "delete"} => r.ifMatch \in 0..lastEtag
          /\ stage' = stage \/ \E s \in {"put", "get", "head", "headForDelete"} :
                                  stage' = [stage EXCEPT ![c] = Sent(s)]
    BY <1>1 DEF PutStart, ReadStart, DeleteStart, KnownEtag, Begin, Request, PutRequest,
       ReadRequest, DeleteRequest
  <2>1. PICK a :
          /\ calls' = [calls EXCEPT ![c] = [req |-> r, ans |-> a]]
          /\ r.op \in {"put", "delete"} => r.ifMatch \in 0..lastEtag
          /\ stage' = stage \/ \E s \in {"put", "get", "head", "headForDelete"} :
                                  stage' = [stage EXCEPT ![c] = Sent(s)]
    BY <2>0
  <2>2. UNCHANGED service /\ stage[c].sent = "nothing" /\ ~stage[c].checking
    BY <1>1 DEF PutStart, ReadStart, DeleteStart, InFlight, Typed, CallsTyped, Fits, Asked, Asks,
       HeadStages
  <2>3. \A d \in Callers \ {c} : calls'[d] = calls[d] /\ stage'[d] = stage[d]
    BY <2>1 DEF Typed, CallsTyped
  <2>4. calls'[c].req = r /\ stage'[c].sent \notin CreateSteps \cup MatchSteps /\ ~stage'[c].checking
    BY <2>1, <2>2 DEF Typed, CallsTyped, Sent, CreateSteps, MatchSteps, Stale
  <2>5. ASSUME NEW d \in Callers \ {c}
        PROVE  /\ Asks(calls[d].req, stage[d])'
               /\ stage'[d].sent \in Stale => Gone(calls[d].req)'
               /\ calls'[d].req.op \in {"put", "delete"} => calls'[d].req.ifMatch \in 0..lastEtag'
    BY <2>2, <2>3 DEF Asked, Asks, Gone, service, lastEtag
  <2>6. /\ Asks(calls[c].req, stage[c])'
        /\ stage'[c].sent \in Stale => Gone(calls[c].req)'
        /\ calls'[c].req.op \in {"put", "delete"} => calls'[c].req.ifMatch \in 0..lastEtag'
    BY <2>1, <2>2, <2>4 DEF Asks, MatchSteps, service, lastEtag
  <2> QED
    BY <2>5, <2>6 DEF Asked
<1>2. ASSUME NEW c \in Callers, Serve(c) PROVE Asked'
  <2>1. \A d \in Callers : calls'[d].req = calls[d].req
    BY <1>2, ServedDoes
  <2>2. lastEtag' \in Nat /\ lastEtag' >= lastEtag
    <3>1. CASE UNCHANGED contents
      BY <3>1 DEF lastEtag
    <3>2. CASE stage[c].sent \in PutStages /\ Applies(c)
      <4>1. PICK o \in Bodies(c) : Apply(c, o)
        BY <3>2 DEF Applies
      <4>2. o.size \in Size
        BY <3>2, BodyTyped DEF Object
      <4> QED
        BY <4>1, <4>2 DEF Apply, lastEtag, Typed, StoreTyped
    <3> QED
      BY <1>2, <3>1, <3>2, StoreSteps DEF Removes, service
  <2>3. \A d \in Callers : calls[d].req.op \in {"put", "delete"} => calls'[d].req.ifMatch \in 0..lastEtag'
    BY <2>1, <2>2 DEF Asked
  <2>4. ASSUME NEW d \in Callers, Asks(calls[d].req, stage[d]), stage[d].sent \in Stale, Gone(calls[d].req)
        PROVE  Gone(calls[d].req)'
    <3>1. calls[d].req \in PutRequest \cup DeleteRequest
      BY <2>4 DEF Typed, CallsTyped, Fits, Stale, PutHeads, DeleteSteps
    <3>2. calls[d].req.key \in Keys /\ calls[d].req.ifMatch \in 1..lastEtag
      BY <2>4, <3>1 DEF PutRequest, DeleteRequest, Asked, Asks, MatchSteps, NoEtag
    <3>3. PICK q : q = calls[d].req
      OBVIOUS
    <3>4. Gone(q)'
      <4>1. Gone(q)
        BY <2>4, <3>3
      <4> QED
        BY <1>2, <3>2, <3>3, <4>1, GoneStays
    <3> QED
      BY <2>1, <3>3, <3>4 DEF Gone
  <2>5. ASSUME NEW d \in Callers, stage'[d] = stage[d]
        PROVE  Asks(calls[d].req, stage[d])' /\ (stage'[d].sent \in Stale => Gone(calls[d].req)')
    BY <2>1, <2>4, <2>5 DEF Asked, Asks
  <2>6. ASSUME NEW w \in Waits, stage' = [stage EXCEPT ![c] = w], Asks(calls[c].req, w),
               w.sent \in Stale => Gone(calls[c].req)'
        PROVE  Asked'
    <3>1. stage'[c] = w /\ \A d \in Callers \ {c} : stage'[d] = stage[d]
      BY <2>6 DEF Typed, CallsTyped
    <3>2. Asks(calls[c].req, stage[c])' /\ (stage'[c].sent \in Stale => Gone(calls[c].req)')
      BY <2>1, <2>6, <3>1 DEF Asks
    <3>3. ASSUME NEW d \in Callers
          PROVE  Asks(calls[d].req, stage[d])' /\ (stage'[d].sent \in Stale => Gone(calls[d].req)')
      BY <2>5, <3>1, <3>2
    <3> QED
      BY <2>1, <2>3, <3>3 DEF Asked
  <2>7. Idle \in Waits /\ Asks(calls[c].req, Idle) /\ Idle.sent \notin Stale
    BY DEF Idle, Waits, Asks, CreateSteps, MatchSteps, Stale
  <2>8. ASSUME UNCHANGED service, Gone(calls[c].req) PROVE Gone(calls[c].req)'
    BY <2>1, <2>8 DEF Gone, service
  <2>9. CASE UNCHANGED <<calls, stage>>
    BY <2>3, <2>5, <2>9 DEF Asked
  <2> QED
    BY <1>2, <2>6, <2>7, <2>8, <2>9, ServeMoves
<1>3. CASE BucketCreated \/ BucketRemoved \/ UNCHANGED vars
  BY <1>3 DEF BucketCreated, BucketRemoved, vars, Asked, Asks, Gone, lastEtag
<1> QED
  BY <1>1, <1>2, <1>3 DEF Next

\* The interface and the adapter speak of the same requests and answers.
LEMMA SameWords ==
  /\ Port!Request = Request /\ Port!NoEtag = NoEtag /\ Port!Etag = Etag /\ Port!Unset = Unset
  /\ Port!Errors = Errors /\ Port!Reasons = Reasons
  /\ Port!Pending = Pending /\ Port!Absent = Absent /\ Port!Deleted = Deleted
  /\ \A x : Port!Thrown(x) = Thrown(x) /\ Port!Refused(x) = Refused(x) /\ Port!Found(x) = Found(x)
  /\ \A e, n : Port!Stored(e, n) = Stored(e, n)
  /\ Port!NoCall = NoCall
BY DEF Port!Request, Port!PutRequest, Port!DeleteRequest, Port!ReadRequest, Port!NoEtag,
       Port!Etag, Port!Unset, Port!Errors, Port!Reasons, Port!Pending, Port!Absent, Port!Deleted,
       Port!Thrown, Port!Refused, Port!Found, Port!Stored, Port!NoCall, Port!NoRequest,
       Request, PutRequest, DeleteRequest, ReadRequest, NoEtag,
       Etag, Unset, Errors, Reasons, Pending, Absent, Deleted,
       Thrown, Refused, Found, Stored, NoCall, NoRequest

LEMMA LegalIsLegal ==
  ASSUME NEW r \in Request
  PROVE  Port!Illegal(r) <=> r.op = "put" /\ ~LegalPut(r)
BY SameWords, RequestKinds, MaxObjectBytesAssumption
   DEF PutRequest, LegalPut, Port!Illegal, Port!Limit, Unset, NoEtag

\* What a call waits for, in the terms of its request.
LEMMA WaitingIsUndecided ==
  ASSUME Typed, NEW c \in Callers, InFlight(c)
  PROVE  /\ calls[c].req \in Request /\ ~Port!Illegal(calls[c].req) /\ Port!InFlight(c)
         /\ ~stage[c].checking => [d \in Callers |-> Decided(d)][c] = Pending
         /\ calls[c] = [req |-> calls[c].req, ans |-> Pending]
         /\ calls \in [Callers -> Call] /\ stage \in [Callers -> Waits]
<1>1. /\ stage[c].sent # "nothing" /\ stage[c].sent \in {"get", "delete"} \cup PutStages \cup HeadStages
      /\ Fits(calls[c].req, calls[c].ans, stage[c].sent)
      /\ calls[c] = [req |-> calls[c].req, ans |-> Pending]
  BY DEF InFlight, Typed, CallsTyped, Fits, Waits, Call
<1>2. /\ calls[c].req \in Request
      /\ calls[c].req.op = "put" => LegalPut(calls[c].req)
  BY <1>1, RequestKinds DEF Fits, HeadStages, PutHeads, DeleteSteps, Request
<1>3. ~stage[c].checking => Decided(c) = calls[c].ans
  BY DEF Decided
<1>4. [d \in Callers |-> Decided(d)][c] = Decided(c)
  OBVIOUS
<1>5. ~Port!Illegal(calls[c].req)
  BY <1>2, LegalIsLegal
<1>6. Port!InFlight(c) /\ calls \in [Callers -> Call] /\ stage \in [Callers -> Waits]
  BY SameWords DEF InFlight, Port!InFlight, Typed, CallsTyped
<1> QED
  BY <1>1, <1>2, <1>3, <1>4, <1>5, <1>6 DEF InFlight

\* What is decided of a call that moves on, and of the others.
LEMMA DecidedAfter ==
  ASSUME Typed, NEW c \in Callers, NEW r, NEW t, NEW w, NEW a,
         calls' = [calls EXCEPT ![c] = [req |-> r, ans |-> t]],
         stage' = [stage EXCEPT ![c] = w],
         calls'[c].ans = t /\ stage'[c] = w => Decided(c)' = a
  PROVE  Port!Says(c, r, a, t) /\ calls'[c].req = r
<1>1. calls'[c] = [req |-> r, ans |-> t] /\ stage'[c] = w
  BY DEF Typed, CallsTyped
<1>2. Decided(c)' = a
  BY <1>1
<1>3. \A d \in Callers \ {c} : Decided(d)' = Decided(d)
  BY DEF Decided, Typed, CallsTyped
<1>4. [d \in Callers |-> Decided(d)]' = [[d \in Callers |-> Decided(d)] EXCEPT ![c] = a]
  BY <1>2, <1>3
<1> QED
  BY <1>1, <1>4 DEF Port!Says

\* Once no bucket is looked for, it is what the call is told.
LEMMA DecidedIsTold ==
  ASSUME Typed, NEW c \in Callers, NEW r, NEW t, NEW w,
         calls' = [calls EXCEPT ![c] = [req |-> r, ans |-> t]],
         stage' = [stage EXCEPT ![c] = w], ~w.checking
  PROVE  Port!Says(c, r, t, t) /\ calls'[c].req = r
<1>1. calls'[c].ans = t /\ stage'[c] = w => Decided(c)' = t
  BY DEF Decided
<1> QED
  BY <1>1, DecidedAfter

LEMMA SettleSays ==
  ASSUME Typed, NEW c \in Callers, NEW a, Settle(c, a)
  PROVE  Port!Says(c, calls[c].req, a, a)
<1>1. [calls[c] EXCEPT !.ans = a] = [req |-> calls[c].req, ans |-> a]
  BY DEF Typed, CallsTyped, Call
<1>2. calls' = [calls EXCEPT ![c] = [req |-> calls[c].req, ans |-> a]]
  BY <1>1 DEF Settle
<1>3. Idle \in Waits /\ ~Idle.checking /\ stage' = [stage EXCEPT ![c] = Idle]
  BY DEF Idle, Waits, Settle
<1> QED
  BY <1>2, <1>3, DecidedIsTold

\* A request that is sent again leaves the call where it was.
LEMMA ResentSays ==
  ASSUME Typed, NEW c \in Callers, InFlight(c), ~stage[c].checking, UNCHANGED <<calls, stage>>
  PROVE  Port!Says(c, calls[c].req, Pending, Pending)
<1>1. /\ calls' = [calls EXCEPT ![c] = [req |-> calls[c].req, ans |-> Pending]]
      /\ stage' = [stage EXCEPT ![c] = stage[c]]
  BY WaitingIsUndecided
<1> QED
  BY <1>1, DecidedIsTold

\* A request that only leads to another one decides nothing.
LEMMA SendStutters ==
  ASSUME Typed, NEW c \in Callers, InFlight(c), NEW s, Send(c, s), Sent(s) \in Waits,
         [d \in Callers |-> Decided(d)][c] = Pending, UNCHANGED service
  PROVE  UNCHANGED Port!vars
<1>1. calls' = [calls EXCEPT ![c] = [req |-> calls[c].req, ans |-> Pending]]
  BY WaitingIsUndecided DEF Send
<1>2. ~Sent(s).checking /\ stage' = [stage EXCEPT ![c] = Sent(s)]
  BY DEF Send, Sent
<1>3. Port!Says(c, calls[c].req, Pending, Pending)
  BY <1>1, <1>2, DecidedIsTold
<1>4. [d \in Callers |-> Decided(d)]' = [d \in Callers |-> Decided(d)]
  BY <1>3 DEF Port!Says
<1> QED
  BY <1>4 DEF Send, service, Port!vars, lastEtag

LEMMA FailLoses ==
  ASSUME Typed, NEW c \in Callers, Fail(c)
  PROVE  \A a : Port!Applied(c, calls[c].req, a)
<1>1. Thrown("BlobStoreError") \in Port!Lost
  BY SameWords DEF Port!Lost
<1>2. Port!Says(c, calls[c].req, Thrown("BlobStoreError"), Thrown("BlobStoreError"))
  BY SettleSays DEF Fail
<1> QED
  BY <1>1, <1>2 DEF Port!Answered, Port!Applied

LEMMA FailIsTold ==
  ASSUME Typed, NEW c \in Callers, InFlight(c), Fail(c), UNCHANGED service
  PROVE  Port!Tell(c)
<1>1. Thrown("BlobStoreError") \in Port!Lost
  BY SameWords DEF Port!Lost
<1>2. Port!Says(c, calls[c].req, Thrown("BlobStoreError"), Thrown("BlobStoreError"))
  BY SettleSays DEF Fail
<1> QED
  BY <1>1, <1>2, WaitingIsUndecided DEF Port!Tell, Port!store, service, lastEtag

\* A refusal takes effect when the reason is seen, told at once or after the
\* bucket was looked for.
LEMMA RefusalServed ==
  ASSUME Typed, NEW c \in Callers, InFlight(c), ~stage[c].checking,
         calls[c].req.op \in {"put", "delete"}, NEW reason \in Reasons,
         Port!RefusedFor(reason, calls[c].req, objects[calls[c].req.key]), UNCHANGED service,
         \E t \in {Refused(reason), Pending} : Port!Says(c, calls[c].req, Refused(reason), t)
  PROVE  Port!Serve(c)
<1>1. Port!Answered(c, calls[c].req, Refused(reason))
  BY SameWords DEF Port!Answered
<1>2. Port!RefuseEffect(c, calls[c].req)
  BY <1>1, SameWords, WaitingIsUndecided DEF Port!RefuseEffect, Port!store, service, lastEtag
<1> QED
  BY <1>2, SameWords, WaitingIsUndecided DEF Port!Serve, Port!Effect

LEMMA ReadServed ==
  ASSUME Typed, NEW c \in Callers, InFlight(c), ~stage[c].checking,
         calls[c].req.op \in {"get", "head"}, UNCHANGED service, NEW a,
         LET o == objects[calls[c].req.key] IN a = IF o = NoObject THEN Absent ELSE Found(o),
         \E t \in {a, Pending} : Port!Says(c, calls[c].req, a, t)
  PROVE  Port!Serve(c)
<1>1. Port!Answered(c, calls[c].req, a)
  BY SameWords DEF Port!Answered
<1>2. Port!ReadEffect(c, calls[c].req)
  BY <1>1, SameWords, WaitingIsUndecided DEF Port!ReadEffect, Port!store, service, lastEtag
<1> QED
  BY <1>2, SameWords, WaitingIsUndecided DEF Port!Serve, Port!Effect

-------------------------------------------------------------------------------
LEMMA StartIsStart ==
  ASSUME Typed, Asked, NEW c \in Callers, PutStart(c) \/ ReadStart(c) \/ DeleteStart(c)
  PROVE  Port!Start(c) \/ Port!StartAndServe(c)
<1>0. /\ ~Port!InFlight(c) /\ UNCHANGED <<objects, 1..lastEtag, cameBack>>
      /\ stage[c].sent = "nothing"
  BY SameWords DEF PutStart, ReadStart, DeleteStart, InFlight, Port!InFlight, Typed, CallsTyped, Fits,
     service, lastEtag
<1>1. ASSUME NEW r \in Request, NEW s, Begin(c, r, s) PROVE Port!Start(c)
  <2>0. ~Sent(s).checking
    BY DEF Sent
  <2>1. Port!Says(c, r, Pending, Pending) /\ calls'[c].req = r
    BY <1>1, <2>0, DecidedIsTold DEF Begin
  <2> QED
    BY <1>0, <2>1, SameWords DEF Port!Start, Port!store
<1>2. ASSUME NEW r \in PutRequest, NEW x \in Errors,
             IF LegalPut(r) THEN r.bodyFails ELSE x = "BlobValidationError",
             calls' = [calls EXCEPT ![c] = [req |-> r, ans |-> Thrown(x)]], UNCHANGED stage,
             ~stage[c].checking
      PROVE  Port!StartAndServe(c)
  <2>1. r \in Request /\ r.op = "put"
    BY DEF Request, PutRequest
  <2>2. stage' = [stage EXCEPT ![c] = stage[c]]
    BY <1>2 DEF Typed, CallsTyped
  <2>3. Port!Says(c, r, Thrown(x), Thrown(x)) /\ calls'[c].req = r
    BY <1>2, <2>2, DecidedIsTold
  <2>4. Port!Answered(c, r, Thrown(x))
    BY <2>3 DEF Port!Answered
  <2>5. Port!ThrowEffect(c, r)
    BY <1>0, <1>2, <2>1, <2>4, SameWords, LegalIsLegal DEF Port!ThrowEffect, Port!store
  <2> QED
    BY <1>0, <2>1, <2>3, <2>5, SameWords DEF Port!StartAndServe, Port!Effect
<1>3. ~stage[c].checking
  BY <1>0 DEF Asked, Asks, HeadStages
<1>4. CASE PutStart(c)
  <2>1. PICK r \in PutRequest :
          \/ Begin(c, r, "put")
          \/ \E x \in Errors : /\ IF LegalPut(r) THEN r.bodyFails ELSE x = "BlobValidationError"
                               /\ calls' = [calls EXCEPT ![c] = [req |-> r, ans |-> Thrown(x)]]
                               /\ UNCHANGED stage
    BY <1>4 DEF PutStart
  <2>2. r \in Request
    BY DEF Request
  <2> QED
    BY <1>1, <1>2, <1>3, <2>1, <2>2
<1>5. CASE ReadStart(c) \/ DeleteStart(c)
  BY <1>1, <1>5 DEF ReadStart, DeleteStart, Request
<1> QED
  BY <1>4, <1>5

LEMMA PutIsServed ==
  ASSUME Typed, Asked, NEW c \in Callers,
         PutDone(c) \/ PutRefused(c) \/ PutFails(c) \/ PutResent(c)
  PROVE  Port!Serve(c) \/ Port!Tell(c) \/ UNCHANGED Port!vars
<1> DEFINE r == calls[c].req
<1>1. /\ InFlight(c) /\ stage[c].sent \in PutStages /\ ~stage[c].checking
      /\ r \in PutRequest /\ r.op = "put" /\ LegalPut(r) /\ ~r.bodyFails
      /\ r \in Request /\ ~Port!Illegal(r)
      /\ Port!InFlight(c) /\ [d \in Callers |-> Decided(d)][c] = Pending
  <2>1. InFlight(c) /\ stage[c].sent \in PutStages /\ ~stage[c].checking
    BY DEF PutDone, PutRefused, PutFails, PutResent, Asked, Asks, HeadStages, PutStages
  <2>2. r \in PutRequest /\ LegalPut(r) /\ ~r.bodyFails
    BY <2>1 DEF Typed, CallsTyped, Fits
  <2> QED
    BY <2>1, <2>2, RequestKinds, WaitingIsUndecided
<1>2. ASSUME NEW o \in Bodies(c), Apply(c, o), Port!Applied(c, r, Stored(o.etag, o.size))
      PROVE  Port!Serve(c)
  <2>1. o \in Object /\ o.etag \in Etag /\ o.etag <= lastEtag + 1
    BY <1>1, BodyTyped DEF Object
  <2>2. o.size \in 0..Port!Limit(r)
    BY SameWords DEF Bodies, PutLimit, Port!Limit
  <2>3. Port!Admitted(r, objects[r.key])
    BY <1>1, <1>2, SameWords DEF Apply, HeaderHolds, Conditions, Port!Admitted
  <2>4. objects' = [objects EXCEPT ![r.key] = [etag |-> o.etag, size |-> o.size]]
    BY <1>2, <2>1 DEF Apply, Object
  <2>5. /\ (1..lastEtag)' = (1..lastEtag) \cup {o.etag}
        /\ cameBack' = cameBack \cup ({o.etag} \cap 1..lastEtag)
    <3>1. contents \in Seq(Size) /\ lastEtag \in Nat /\ o.size \in Size /\ o.etag \in Nat \ {0}
      BY <2>1 DEF Typed, StoreTyped, Object, lastEtag, Etag
    <3>2. lastEtag' = IF o.etag > lastEtag THEN lastEtag + 1 ELSE lastEtag
      BY <1>2, <3>1 DEF Apply, lastEtag
    <3> QED
      BY <1>2, <2>1, <3>1, <3>2 DEF Apply
  <2>6. Port!PutEffect(c, r)
    BY <1>1, <1>2, <2>1, <2>2, <2>3, <2>4, <2>5, SameWords DEF Port!PutEffect
  <2> QED
    BY <1>1, <2>6, SameWords DEF Port!Serve, Port!Effect
<1>3. CASE PutDone(c)
  <2>1. PICK o \in Bodies(c) : Apply(c, o) /\ Settle(c, Stored(o.etag, o.size))
    BY <1>3 DEF PutDone
  <2>2. Port!Applied(c, r, Stored(o.etag, o.size))
    BY <2>1, SettleSays DEF Port!Answered, Port!Applied
  <2> QED
    BY <1>2, <2>1, <2>2
<1>4. CASE PutFails(c)
  <2>1. CASE UNCHANGED service
    BY <1>1, <1>4, <2>1, FailIsTold DEF PutFails
  <2>2. CASE \E o \in Bodies(c) : Apply(c, o)
    BY <1>2, <1>4, <2>2, FailLoses DEF PutFails
  <2> QED
    BY <1>4, <2>1, <2>2 DEF PutFails
<1>5. CASE PutRefused(c)
  <2>0. UNCHANGED service
    BY <1>5 DEF PutRefused
  <2>1. PICK status \in PutStatus(c) :
          \/ status = 412 /\ r.createOnly /\ Settle(c, Refused("exists"))
          \/ status = 404 /\ Settle(c, Refused("missing"))
          \/ \E d \in Diagnoses : Send(c, d.head)
    BY <1>5 DEF PutRefused
  <2>2. CASE status = 412 /\ r.createOnly /\ Settle(c, Refused("exists"))
    <3>1. Port!RefusedFor("exists", r, objects[r.key])
      BY <1>1, <2>2, SameWords DEF PutStatus, Port!RefusedFor
    <3> QED
      BY <1>1, <2>0, <2>2, <3>1, RefusalServed, SettleSays, AnswersKnown
  <2>3. CASE status = 404 /\ Settle(c, Refused("missing"))
    <3>1. Port!RefusedFor("missing", r, objects[r.key])
      BY <1>1, <2>3, SameWords DEF PutStatus, HeaderHolds, Conditions, Port!RefusedFor
    <3> QED
      BY <1>1, <2>0, <2>3, <3>1, RefusalServed, SettleSays, AnswersKnown
  <2>4. ASSUME NEW d \in Diagnoses, Send(c, d.head) PROVE UNCHANGED Port!vars
    <3>1. Sent(d.head) \in Waits
      BY DEF Diagnoses, FirstDiagnoses, Diagnosis, HeadStages, Sent, Waits
    <3> QED
      BY <1>1, <2>0, <2>4, <3>1, SendStutters
  <2> QED
    BY <2>1, <2>2, <2>3, <2>4
<1>6. CASE PutResent(c)
  <2>1. "resend" \in Faults /\ Port!Says(c, r, Pending, Pending)
    BY <1>1, <1>6, ResentSays DEF PutResent
  <2>2. \A a : Port!Applied(c, r, a)
    BY <2>1, SameWords DEF Port!Applied
  <2> QED
    BY <1>2, <1>6, <2>2 DEF PutResent
<1> QED
  BY <1>3, <1>4, <1>5, <1>6

LEMMA DeleteIsServed ==
  ASSUME Typed, Asked, NEW c \in Callers,
         DeleteDone(c) \/ DeleteRefused(c) \/ DeleteFails(c) \/ DeleteResent(c)
  PROVE  Port!Serve(c) \/ Port!Tell(c) \/ UNCHANGED Port!vars
<1> DEFINE r == calls[c].req
<1>1. /\ InFlight(c) /\ stage[c].sent = "delete" /\ ~stage[c].checking
      /\ r.op = "delete" /\ r \in Request
      /\ Port!InFlight(c) /\ [d \in Callers |-> Decided(d)][c] = Pending
  <2>1. InFlight(c) /\ stage[c].sent = "delete" /\ ~stage[c].checking
    BY DEF DeleteDone, DeleteRefused, DeleteFails, DeleteResent, Removes, Served, Sent
  <2>2. r \in DeleteRequest
    BY <2>1 DEF Typed, CallsTyped, Fits, DeleteSteps
  <2> QED
    BY <2>1, <2>2, RequestKinds, WaitingIsUndecided
<1>2. ASSUME Removes(c), Port!Applied(c, r, Deleted)
      PROVE  Port!Serve(c)
  <2>1. Port!Admitted(r, objects[r.key]) \/ r.ifMatch = NoEtag
    BY <1>1, <1>2, SameWords DEF Removes, DeleteHeader, Port!Admitted
  <2>2. Port!DeleteEffect(c, r)
    BY <1>1, <1>2, <2>1, SameWords DEF Removes, Port!DeleteEffect, lastEtag
  <2> QED
    BY <1>1, <2>2, SameWords DEF Port!Serve, Port!Effect
<1>3. CASE DeleteDone(c)
  <2>1. Port!Applied(c, r, Deleted)
    BY <1>3, SettleSays DEF DeleteDone, Port!Answered, Port!Applied
  <2> QED
    BY <1>2, <1>3, <2>1 DEF DeleteDone
<1>4. CASE DeleteFails(c)
  BY <1>1, <1>2, <1>4, FailIsTold, FailLoses DEF DeleteFails
<1>5. CASE DeleteRefused(c)
  <2>0. UNCHANGED service
    BY <1>5 DEF DeleteRefused
  <2>1. CASE objects[r.key] = NoObject /\ Settle(c, Refused("missing"))
    <3>1. Port!RefusedFor("missing", r, objects[r.key])
      BY <1>1, <2>1, SameWords DEF Port!RefusedFor
    <3> QED
      BY <1>1, <2>0, <2>1, <3>1, RefusalServed, SettleSays, AnswersKnown
  <2>2. CASE Send(c, "headAfterDelete412")
    <3>1. Sent("headAfterDelete412") \in Waits
      BY DEF HeadStages, Sent, Waits
    <3> QED
      BY <1>1, <2>0, <2>2, <3>1, SendStutters
  <2> QED
    BY <1>5, <2>1, <2>2 DEF DeleteRefused
<1>6. CASE DeleteResent(c)
  <2>1. "resend" \in Faults /\ Port!Says(c, r, Pending, Pending)
    BY <1>1, <1>6, ResentSays DEF DeleteResent
  <2>2. \A a : Port!Applied(c, r, a)
    BY <2>1, SameWords DEF Port!Applied
  <2> QED
    BY <1>2, <1>6, <2>2 DEF DeleteResent
<1> QED
  BY <1>3, <1>4, <1>5, <1>6

\* What a call that waits for a read can be about.
LEMMA ReadingFits ==
  ASSUME Typed, Asked, NEW c \in Callers, InFlight(c), stage[c].sent \in {"get"} \cup HeadStages
  PROVE  LET r == calls[c].req
             s == stage[c].sent
         IN  /\ s \in {"get", "head"} => r.op \in {"get", "head"}
             /\ s \notin {"get", "head"} => r.op \in {"put", "delete"}
             /\ s = "headForDelete" => r.op = "delete"
             /\ s \in CreateSteps => r.op = "put" /\ r.createOnly
             /\ s \in MatchSteps => r.ifMatch # NoEtag
             /\ s \in Stale => Gone(r)
BY DEF Typed, CallsTyped, Fits, Asked, Asks, HeadStages, PutHeads, DeleteSteps, CreateSteps,
   MatchSteps, Stale, PutRequest, DeleteRequest, ReadRequest, PutStages

LEMMA FreeKeyRefuses ==
  ASSUME Typed, Asked, NEW c \in Callers, InFlight(c),
         stage[c].sent \in HeadStages \ {"head", "headAfterCreate409", "headAfterRetryCreate"},
         objects[calls[c].req.key] = NoObject
  PROVE  Port!RefusedFor("missing", calls[c].req, objects[calls[c].req.key])
<1>1. stage[c].sent \in MatchSteps \cup {"headForDelete"}
  BY DEF HeadStages, MatchSteps, Stale
<1> QED
  BY <1>1, ReadingFits, SameWords DEF Port!RefusedFor

\* A free key is seen, and its call goes on without looking for the bucket.
LEMMA MissingServed ==
  ASSUME Typed, Asked, NEW c \in Callers, ReadPending(c), objects[calls[c].req.key] = NoObject,
         Missing(c), UNCHANGED service
  PROVE  Port!Serve(c) \/ Port!Tell(c) \/ UNCHANGED Port!vars
<1>1. /\ InFlight(c) /\ ~stage[c].checking /\ stage[c].sent \in {"get"} \cup HeadStages
      /\ [d \in Callers |-> Decided(d)][c] = Pending
  BY WaitingIsUndecided DEF ReadPending
<1>2. CASE stage[c].sent \in {"get", "head"} /\ Settle(c, Absent)
  BY <1>1, <1>2, ReadingFits, ReadServed, SettleSays
<1>3. CASE stage[c].sent = "headAfterCreate409" /\ Send(c, "retryCreate")
  <2>1. Sent("retryCreate") \in Waits
    BY DEF PutStages, Sent, Waits
  <2> QED
    BY <1>1, <1>3, <2>1, SendStutters
<1>4. CASE Fail(c)
  BY <1>1, <1>4, FailIsTold
<1>5. CASE /\ stage[c].sent \notin {"get", "head", "headAfterCreate409", "headAfterRetryCreate"}
           /\ Settle(c, Refused("missing"))
  <2>1. calls[c].req.op \in {"put", "delete"}
    BY <1>1, <1>5, ReadingFits
  <2>2. Port!RefusedFor("missing", calls[c].req, objects[calls[c].req.key])
    BY <1>1, <1>5, FreeKeyRefuses
  <2> QED
    BY <1>1, <1>5, <2>1, <2>2, RefusalServed, SettleSays, AnswersKnown
<1> QED
  BY <1>2, <1>3, <1>4, <1>5 DEF Missing

\* It is seen, and the call is told once the bucket was found to exist.
LEMMA FreeKeySeen ==
  ASSUME Typed, Asked, NEW c \in Callers, ReadPending(c), objects[calls[c].req.key] = NoObject,
         stage' = [stage EXCEPT ![c] = Checking(@.sent)], UNCHANGED calls, UNCHANGED service
  PROVE  Port!Serve(c) \/ UNCHANGED Port!vars
<1> DEFINE r == calls[c].req
           w == Checking(stage[c].sent)
<1>1. /\ InFlight(c) /\ ~stage[c].checking /\ stage[c].sent \in {"get"} \cup HeadStages
      /\ [d \in Callers |-> Decided(d)][c] = Pending
      /\ calls[c] = [req |-> r, ans |-> Pending] /\ calls \in [Callers -> Call]
  BY WaitingIsUndecided DEF ReadPending
<1>2. /\ calls' = [calls EXCEPT ![c] = [req |-> r, ans |-> Pending]]
      /\ stage' = [stage EXCEPT ![c] = w]
      /\ w.sent = stage[c].sent /\ w.checking
  BY <1>1 DEF Checking
<1>3. CASE stage[c].sent \in {"get", "head"}
  <2>1. calls'[c].ans = Pending /\ stage'[c] = w => Decided(c)' = Absent
    BY <1>2, <1>3 DEF Decided
  <2>2. Port!Says(c, r, Absent, Pending)
    BY <1>2, <2>1, DecidedAfter
  <2>3. r.op \in {"get", "head"}
    BY <1>1, <1>3, ReadingFits
  <2> QED
    BY <1>1, <2>2, <2>3, ReadServed
<1>4. CASE stage[c].sent \in {"headAfterCreate409", "headAfterRetryCreate"}
  <2>1. calls'[c].ans = Pending /\ stage'[c] = w => Decided(c)' = Pending
    BY <1>2, <1>4 DEF Decided
  <2>2. Port!Says(c, r, Pending, Pending)
    BY <1>2, <2>1, DecidedAfter
  <2>3. [d \in Callers |-> Decided(d)]' = [d \in Callers |-> Decided(d)]
    BY <1>1, <2>2 DEF Port!Says
  <2> QED
    BY <2>3 DEF service, Port!vars, lastEtag
<1>5. CASE stage[c].sent \in HeadStages \ {"head", "headAfterCreate409", "headAfterRetryCreate"}
  <2>1. calls'[c].ans = Pending /\ stage'[c] = w => Decided(c)' = Refused("missing")
    BY <1>2, <1>5 DEF Decided, HeadStages
  <2>2. Port!Says(c, r, Refused("missing"), Pending)
    BY <1>2, <2>1, DecidedAfter
  <2>3. r.op \in {"put", "delete"}
    BY <1>1, <1>5, ReadingFits DEF HeadStages
  <2>4. Port!RefusedFor("missing", r, objects[r.key])
    BY <1>1, <1>5, FreeKeyRefuses
  <2> QED
    BY <1>1, <2>2, <2>3, <2>4, RefusalServed, AnswersKnown
<1> QED
  BY <1>1, <1>3, <1>4, <1>5

LEMMA MissingTold ==
  ASSUME Typed, Asked, NEW c \in Callers, InFlight(c), stage[c].checking, Missing(c),
         UNCHANGED service
  PROVE  Port!Tell(c) \/ UNCHANGED Port!vars
<1> DEFINE r == calls[c].req
<1>1. /\ Port!InFlight(c) /\ calls[c] = [req |-> r, ans |-> Pending]
      /\ [d \in Callers |-> Decided(d)][c] = Decided(c)
  BY WaitingIsUndecided
<1>2. ASSUME NEW a, a # Pending, Decided(c) = a, Settle(c, a) PROVE Port!Tell(c)
  <2>1. Port!Says(c, r, a, a)
    BY <1>2, SettleSays
  <2> QED
    BY <1>1, <1>2, <2>1, SameWords DEF Port!Tell, Port!store, service, lastEtag
<1>3. CASE stage[c].sent \in {"get", "head"} /\ Settle(c, Absent)
  <2>1. Decided(c) = Absent
    BY <1>3 DEF Decided
  <2> QED
    BY <1>2, <1>3, <2>1, AnswersKnown
<1>4. CASE stage[c].sent = "headAfterCreate409" /\ Send(c, "retryCreate")
  <2>1. Decided(c) = Pending
    BY <1>4 DEF Decided
  <2>2. Sent("retryCreate") \in Waits
    BY DEF PutStages, Sent, Waits
  <2> QED
    BY <1>1, <1>4, <2>1, <2>2, SendStutters
<1>5. CASE Fail(c)
  BY <1>5, FailIsTold
<1>6. CASE /\ stage[c].sent \notin {"get", "head", "headAfterCreate409", "headAfterRetryCreate"}
           /\ Settle(c, Refused("missing"))
  <2>1. Decided(c) = Refused("missing")
    BY <1>6 DEF Decided
  <2> QED
    BY <1>2, <1>6, <2>1, AnswersKnown
<1> QED
  BY <1>3, <1>4, <1>5, <1>6 DEF Missing

LEMMA PresentServed ==
  ASSUME Typed, Asked, NEW c \in Callers, ReadPending(c),
         objects[calls[c].req.key] # NoObject, Present(c, objects[calls[c].req.key]),
         UNCHANGED service
  PROVE  Port!Serve(c) \/ Port!Tell(c) \/ UNCHANGED Port!vars
<1> DEFINE r == calls[c].req
           o == objects[r.key]
           s == stage[c].sent
<1>1. /\ InFlight(c) /\ ~stage[c].checking /\ s \in {"get"} \cup HeadStages
      /\ [d \in Callers |-> Decided(d)][c] = Pending
  BY WaitingIsUndecided DEF ReadPending
<1>2. CASE s \in {"get", "head"} /\ Settle(c, Found(o))
  BY <1>1, <1>2, ReadingFits, ReadServed, SettleSays
<1>3. CASE s \in {"headAfterCreate409", "headAfterRetryCreate"} /\ Settle(c, Refused("exists"))
  <2>1. r.op = "put" /\ r.createOnly
    BY <1>1, <1>3, ReadingFits DEF CreateSteps
  <2>2. Port!RefusedFor("exists", r, o)
    BY <2>1 DEF Port!RefusedFor
  <2> QED
    BY <1>1, <1>3, <2>1, <2>2, RefusalServed, SettleSays, AnswersKnown
<1>4. ASSUME NEW t \in {"delete", "retryMatch"}, Send(c, t) PROVE UNCHANGED Port!vars
  <2>1. Sent(t) \in Waits
    BY DEF PutStages, Sent, Waits
  <2> QED
    BY <1>1, <1>4, <2>1, SendStutters
<1>5. CASE Fail(c)
  BY <1>1, <1>5, FailIsTold
<1>6. CASE /\ \/ s \in Stale
              \/ s \in {"headAfterMatch409", "headAfterRetryMatch409"} /\ o.etag # r.ifMatch
              \/ s = "headForDelete" /\ o.etag # r.ifMatch /\ r.ifMatch # NoEtag
           /\ Settle(c, Refused("changed"))
  <2>1. s \notin {"get", "head"}
    BY <1>6 DEF Stale
  <2>2. r.op \in {"put", "delete"}
    BY <1>1, <2>1, ReadingFits
  <2>3. r.ifMatch # NoEtag
    BY <1>1, <1>6, ReadingFits DEF MatchSteps
  <2>4. o.etag # r.ifMatch \/ r.ifMatch \in cameBack
    BY <1>1, <1>6, ReadingFits DEF Gone
  <2>5. Port!RefusedFor("changed", r, o)
    BY <2>3, <2>4, SameWords DEF Port!RefusedFor
  <2> QED
    BY <1>1, <1>6, <2>2, <2>5, RefusalServed, SettleSays, AnswersKnown
<1> QED
  BY <1>2, <1>3, <1>4, <1>5, <1>6 DEF Present, Stale

LEMMA ReadIsServed ==
  ASSUME Typed, Asked, NEW c \in Callers,
         \/ ReadFound(c) \/ GetNoSuchKey(c) \/ ReadNotFound(c)
         \/ BucketPresent(c) \/ ReadFails(c)
  PROVE  Port!Serve(c) \/ Port!Tell(c) \/ UNCHANGED Port!vars
<1>1. CASE ReadFound(c)
  BY <1>1, PresentServed DEF ReadFound
<1>2. CASE GetNoSuchKey(c)
  BY <1>2, MissingServed DEF GetNoSuchKey
<1>3. CASE ReadNotFound(c)
  BY <1>3, MissingServed, FreeKeySeen DEF ReadNotFound
<1>4. CASE BucketPresent(c)
  BY <1>4, MissingTold DEF BucketPresent
<1>5. CASE ReadFails(c)
  BY <1>5, FailIsTold DEF ReadFails
<1> QED
  BY <1>1, <1>2, <1>3, <1>4, <1>5

LEMMA StepIsPortStep ==
  ASSUME Typed, Asked, [Next]_vars
  PROVE  [Port!Next]_(Port!vars)
<1>1. ASSUME NEW c \in Callers, PutStart(c) \/ ReadStart(c) \/ DeleteStart(c) PROVE Port!Next
  BY <1>1, StartIsStart DEF Port!Next
<1>2. ASSUME NEW c \in Callers, Serve(c) PROVE Port!Next \/ UNCHANGED Port!vars
  BY <1>2, PutIsServed, ReadIsServed, DeleteIsServed DEF Serve, Port!Next
<1>3. CASE BucketCreated \/ BucketRemoved \/ UNCHANGED vars
  <2>1. UNCHANGED <<objects, 1..lastEtag, cameBack, calls>>
    BY <1>3 DEF BucketCreated, BucketRemoved, vars, lastEtag
  <2>2. [d \in Callers |-> Decided(d)]' = [d \in Callers |-> Decided(d)]
    BY <1>3 DEF BucketCreated, BucketRemoved, vars, Decided
  <2> QED
    BY <2>1, <2>2 DEF Port!vars
<1> QED
  BY <1>1, <1>2, <1>3 DEF Next

LEMMA AskedInit == Init => Asked
<1>1. /\ Idle.sent \notin CreateSteps \cup MatchSteps \cup Stale /\ ~Idle.checking
      /\ NoCall.req.op \notin {"put", "delete"}
  BY DEF Idle, CreateSteps, MatchSteps, Stale, NoCall, NoRequest
<1> QED
  BY <1>1 DEF Init, Asked, Asks

LEMMA InitIsPortInit == Init => Port!Init
BY SameWords DEF Init, Port!Init, NoCall, Decided, Idle, lastEtag

\* The adapter keeps what a remote store can keep of the BlobStore promise: every
\* call takes effect at one moment, whatever others do between its requests, and
\* whatever fails or is sent again.
THEOREM Implements == Spec => ImplementsBlobStore
BY AskedInit, AskedStep, TypedInit, TypedStep, InitIsPortInit, StepIsPortStep, PTL
   DEF Spec, ImplementsBlobStore, Port!Spec

-------------------------------------------------------------------------------
(***************************************************************************)
(* What BlobStoreProofs proves of every store that keeps the promise.      *)
(***************************************************************************)
Promise == INSTANCE BlobStoreProofs
             WITH issued <- 1..lastEtag,
                  decided <- [c \in Callers |-> Decided(c)],
                  Lossy <- TRUE, BlindDelete <- TRUE, EtagsComeBack <- TRUE,
                  Resends <- "resend" \in Faults, Perishable <- FALSE

\* Port and Promise are one module, instantiated alike.
LEMMA SamePort ==
  /\ Port!Init => Promise!Init
  /\ [Port!Next]_(Port!vars) => [Promise!Next]_(Promise!vars)
  /\ Promise!OneWinner => Port!OneWinner
BY DEF Port!Init, Promise!Init, Port!NoCall, Promise!NoCall, Port!NoRequest, Promise!NoRequest,
  Port!OneWinner, Promise!OneWinner, Port!Spends, Promise!Spends,
  Port!Next, Promise!Next, Port!vars, Promise!vars, Port!store, Promise!store,
  Port!Start, Promise!Start, Port!StartAndServe, Promise!StartAndServe,
  Port!Serve, Promise!Serve, Port!Tell, Promise!Tell, Port!Perish, Promise!Perish,
  Port!InFlight, Promise!InFlight, Port!Effect, Promise!Effect,
  Port!PutEffect, Promise!PutEffect, Port!DeleteEffect, Promise!DeleteEffect,
  Port!RefuseEffect, Promise!RefuseEffect, Port!ReadEffect, Promise!ReadEffect,
  Port!ThrowEffect, Promise!ThrowEffect, Port!Applied, Promise!Applied,
  Port!Answered, Promise!Answered, Port!Says, Promise!Says, Port!Lost, Promise!Lost,
  Port!Admitted, Promise!Admitted, Port!RefusedFor, Promise!RefusedFor,
  Port!Illegal, Promise!Illegal, Port!Limit, Promise!Limit,
  Port!Request, Promise!Request, Port!PutRequest, Promise!PutRequest,
  Port!DeleteRequest, Promise!DeleteRequest, Port!ReadRequest, Promise!ReadRequest,
  Port!Etag, Promise!Etag, Port!NoEtag, Promise!NoEtag, Port!Unset, Promise!Unset,
  Port!Pending, Promise!Pending, Port!Stored, Promise!Stored, Port!Deleted, Promise!Deleted,
  Port!Found, Promise!Found, Port!Absent, Promise!Absent, Port!Refused, Promise!Refused,
  Port!Thrown, Promise!Thrown, Port!Reasons, Promise!Reasons, Port!Errors, Promise!Errors

\* The promise is about the constants of this store, whose assumptions it shares.
LEMMA PromiseKept ==
  /\ Promise!Init => Promise!Inv
  /\ Promise!Inv /\ [Promise!Next]_(Promise!vars) => (Promise!Inv)'
  /\ Promise!Inv => Promise!OneWinner
BY Promise!InvInit, Promise!InvStep, CallersAssumption, KeysAssumption, MaxObjectBytesAssumption,
   MaxEtagAssumption, MaxBytesAssumption, NoObjectAssumption
   DEF Promise!Inv, Promise!Object, Promise!Etag, Promise!Size, Object, Etag, Size

\* Of two calls that name one version in ifMatch, one at most is told that it
\* replaced or deleted it, unless its bytes were put again: although both may have
\* seen it by HEAD, although requests are repeated, and answers are lost.
THEOREM OneWinnerHolds == Spec => []OneWinner
<1>1. Init => Promise!Inv
  BY InitIsPortInit, SamePort, PromiseKept
<1>2. Typed /\ Asked /\ Promise!Inv /\ [Next]_vars => (Promise!Inv)'
  BY StepIsPortStep, SamePort, PromiseKept
<1>3. Promise!Inv => OneWinner
  BY SamePort, PromiseKept DEF OneWinner
<1> QED
  BY <1>1, <1>2, <1>3, TypedInit, TypedStep, AskedInit, AskedStep, PTL DEF Spec
===============================================================================
