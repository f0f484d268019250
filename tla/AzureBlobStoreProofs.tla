-------------------------- MODULE AzureBlobStoreProofs -------------------------
(***************************************************************************)
(* What is proved of createAzureBlobStore, for any callers, keys, size     *)
(* limits, number of etags and faults.                                     *)
(***************************************************************************)
EXTENDS AzureBlobStore, TLAPS

(***************************************************************************)
(* The inductive invariant.  What a call waits for fits what it asked for; *)
(* and a creation is under way as long as a call waits for its promise.    *)
(***************************************************************************)
Fits(r, a, s) ==
  /\ a = Pending <=> s # "nothing"
  /\ a = Pending => r \in Request /\ (r.op = "put" => LegalPut(r) /\ ~r.bodyFails)
  /\ s \in {"put", "get", "head", "delete"} => r.op = s
  /\ s = "propertiesAfterPut" => r.op = "put" /\ r.ifMatch # NoEtag
  /\ s = "propertiesAfterDelete" => r.op = "delete" /\ r.ifMatch # NoEtag

CallsTyped ==
  /\ calls \in [Callers -> Call]
  /\ stage \in [Callers -> Stages]
  /\ \A c \in Callers : Fits(calls[c].req, calls[c].ans, stage[c])

StoreTyped ==
  /\ objects \in [Keys -> Object \cup {NoObject}]
  /\ lastEtag \in Etag \cup {NoEtag}
  /\ container \in {"absent", "present", "deleting"}

\* The promise: how many creations are under way, and who waits for them.
Promise ==
  /\ ensure \in {"unset", "creating", "created"}
  /\ creations = IF ensure = "creating" THEN 1 ELSE 0
  /\ ensure = "creating" <=> \E c \in Callers : stage[c] = "ready"
  /\ CreateIfMissing /\ ensure # "created" =>
       \A c \in Callers : stage[c] \in {"nothing", "ready", "rejected"}

Typed == CallsTyped /\ StoreTyped /\ Promise

-------------------------------------------------------------------------------
LEMMA RequestKinds ==
  \A r \in Request :
    /\ r.op \in {"put", "get", "head", "delete"} /\ r.key \in Keys
    /\ r.op = "put" <=> r \in PutRequest
    /\ r.op = "delete" <=> r \in DeleteRequest
    /\ r.op \in {"get", "head"} <=> r \in ReadRequest
BY DEF Request, PutRequest, DeleteRequest, ReadRequest

LEMMA LimitInRange ==
  ASSUME NEW r \in PutRequest, LegalPut(r)
  PROVE  0..PutLimit(r) \subseteq Size
BY MaxObjectBytesAssumption, MaxBytesAssumption
   DEF PutRequest, LegalPut, PutLimit, Size, Unset

LEMMA AnswersKnown ==
  /\ \A x \in Errors : Thrown(x) \in Answer \ {Pending}
  /\ \A x \in Reasons : Refused(x) \in Answer \ {Pending}
  /\ Absent \in Answer \ {Pending} /\ Deleted \in Answer \ {Pending}
  /\ \A o \in Object : Found(o) \in Answer \ {Pending}
  /\ \A e \in Etag, n \in Size : Stored(e, n) \in Answer \ {Pending}
  /\ {"BlobStoreError", "OtherError"} \subseteq Errors
  /\ {"exists", "missing", "changed"} = Reasons /\ Pending \in Answer
BY DEF Answer, Thrown, Refused, Absent, Deleted, Found, Stored, Pending, Errors, Reasons

\* One call moves on: what is typed and fits stays so.
LEMMA MovedTyped ==
  ASSUME CallsTyped, NEW c \in Callers, NEW r \in Request \cup {NoRequest}, NEW a \in Answer,
         NEW s \in Stages, Fits(r, a, s),
         calls' = [calls EXCEPT ![c] = [req |-> r, ans |-> a]],
         stage' = [stage EXCEPT ![c] = s]
  PROVE  CallsTyped'
<1>1. calls' \in [Callers -> Call] /\ stage' \in [Callers -> Stages]
  BY DEF CallsTyped, Call
<1>2. ASSUME NEW d \in Callers PROVE Fits(calls[d].req, calls[d].ans, stage[d])'
  <2>1. CASE d = c
    <3>1. calls'[d] = [req |-> r, ans |-> a] /\ stage'[d] = s
      BY <2>1 DEF CallsTyped
    <3> QED
      BY <3>1 DEF Fits, LegalPut
  <2>2. CASE d # c
    <3>1. Fits(calls[d].req, calls[d].ans, stage[d]) /\ calls'[d] = calls[d] /\ stage'[d] = stage[d]
      BY <2>2 DEF CallsTyped
    <3> QED
      BY <3>1 DEF Fits, LegalPut
  <2> QED
    BY <2>1, <2>2
<1> QED
  BY <1>1, <1>2 DEF CallsTyped

\* The promise does not change hands when a call that does not wait for it
\* is answered or sends its next request.
LEMMA MovedKeepsPromise ==
  ASSUME CallsTyped, Promise, NEW c \in Callers, stage[c] # "ready", NEW s \in Stages \ {"ready"},
         stage' = [stage EXCEPT ![c] = s], UNCHANGED <<ensure, creations>>,
         s = "nothing" \/ stage[c] \notin {"nothing", "rejected"}
  PROVE  Promise'
<1>1. \A d \in Callers : stage'[d] = IF d = c THEN s ELSE stage[d]
  BY DEF CallsTyped
<1>2. (\E d \in Callers : stage[d] = "ready") <=> \E d \in Callers : stage'[d] = "ready"
  BY <1>1
<1>3. CreateIfMissing /\ ensure # "created" =>
        \A d \in Callers : stage'[d] \in {"nothing", "ready", "rejected"}
  BY <1>1 DEF Promise
<1> QED
  BY <1>2, <1>3 DEF Promise

LEMMA SettleMoves ==
  ASSUME CallsTyped, NEW c \in Callers, NEW a \in Answer \ {Pending}, Settle(c, a)
  PROVE  /\ CallsTyped'
         /\ calls' = [calls EXCEPT ![c] = [req |-> calls[c].req, ans |-> a]]
<1>0. [calls[c] EXCEPT !.ans = a] = [req |-> calls[c].req, ans |-> a]
  BY DEF CallsTyped, Call
<1>1. calls' = [calls EXCEPT ![c] = [req |-> calls[c].req, ans |-> a]]
  BY <1>0 DEF Settle
<1>2. "nothing" \in Stages /\ Fits(calls[c].req, a, "nothing")
  BY DEF Stages, Fits
<1>3. calls[c].req \in Request \cup {NoRequest}
  BY DEF CallsTyped, Call
<1> QED
  BY <1>1, <1>2, <1>3, MovedTyped DEF Settle

LEMMA SettleTyped ==
  ASSUME Typed, NEW c \in Callers, NEW a \in Answer \ {Pending}, Settle(c, a),
         stage[c] # "ready", UNCHANGED <<ensure, creations>>
  PROVE  CallsTyped' /\ Promise'
<1>1. "nothing" \in Stages \ {"ready"} /\ stage' = [stage EXCEPT ![c] = "nothing"]
  BY DEF Stages, Settle
<1>2. CallsTyped'
  BY SettleMoves DEF Typed
<1>3. Promise'
  BY <1>1, MovedKeepsPromise DEF Typed
<1> QED
  BY <1>2, <1>3

LEMMA FailTyped ==
  ASSUME Typed, NEW c \in Callers, Fail(c), stage[c] # "ready", UNCHANGED <<ensure, creations>>
  PROVE  CallsTyped' /\ Promise'
BY AnswersKnown, SettleTyped DEF Fail

LEMMA SendTyped ==
  ASSUME Typed, NEW c \in Callers, NEW s \in {"propertiesAfterPut", "propertiesAfterDelete"},
         Send(c, s), stage[c] \in {"put", "delete"}, UNCHANGED <<ensure, creations>>,
         Fits(calls[c].req, calls[c].ans, s)
  PROVE  CallsTyped' /\ Promise'
<1>1. calls' = [calls EXCEPT ![c] = [req |-> calls[c].req, ans |-> calls[c].ans]]
  BY DEF Typed, CallsTyped, Call, Send
<1>2. calls[c].req \in Request \cup {NoRequest} /\ calls[c].ans \in Answer /\ s \in Stages \ {"ready"}
  BY DEF Typed, CallsTyped, Call, Stages
<1>3. CallsTyped'
  BY <1>1, <1>2, MovedTyped DEF Typed, Send
<1>4. Promise'
  BY <1>2, MovedKeepsPromise DEF Typed, Send
<1> QED
  BY <1>3, <1>4

LEMMA UploadedTyped ==
  ASSUME Typed, NEW c \in Callers, stage[c] = "put", NEW n \in 0..PutLimit(calls[c].req),
         Uploaded(c, n)
  PROVE  StoreTyped' /\ lastEtag' \in Etag /\ n \in Size
<1>1. calls[c].req \in PutRequest /\ LegalPut(calls[c].req) /\ calls[c].req.key \in Keys
  BY RequestKinds DEF Typed, CallsTyped, Fits
<1>2. n \in Size
  BY <1>1, LimitInRange
<1>3. lastEtag' \in Etag
  BY MaxEtagAssumption DEF Uploaded, Typed, StoreTyped, Etag, NoEtag
<1>4. objects' \in [Keys -> Object \cup {NoObject}]
  BY <1>1, <1>2, <1>3 DEF Uploaded, Typed, StoreTyped, Object
<1> QED
  BY <1>2, <1>3, <1>4 DEF Uploaded, Typed, StoreTyped

-------------------------------------------------------------------------------
LEMMA ServiceKept ==
  ASSUME Typed, UNCHANGED service
  PROVE  StoreTyped'
BY DEF Typed, StoreTyped, service

LEMMA PutThrowsTyped ==
  ASSUME Typed, NEW c \in Callers, PutThrows(c)
  PROVE  Typed'
<1>1. PICK r \in PutRequest, x \in Errors :
        calls' = [calls EXCEPT ![c] = [req |-> r, ans |-> Thrown(x)]]
  BY DEF PutThrows
<1>2. /\ r \in Request /\ Thrown(x) \in Answer \ {Pending}
      /\ stage[c] = "nothing" /\ stage' = [stage EXCEPT ![c] = "nothing"]
  BY AnswersKnown DEF Request, PutThrows, Typed, CallsTyped, Fits, InFlight
<1>3. "nothing" \in Stages /\ Fits(r, Thrown(x), "nothing")
  BY <1>2 DEF Stages, Fits
<1>4. CallsTyped'
  BY <1>1, <1>2, <1>3, MovedTyped DEF Typed
<1> QED
  BY <1>4, ServiceKept DEF PutThrows, Typed, Promise

LEMMA StartTyped ==
  ASSUME Typed, NEW c \in Callers, Start(c)
  PROVE  Typed'
<1>1. stage[c] = "nothing" /\ UNCHANGED service
  BY DEF Start, Typed, CallsTyped, Fits, InFlight
<1>2. PICK r \in Request :
        /\ r.op = "put" => LegalPut(r) /\ ~r.bodyFails
        /\ calls' = [calls EXCEPT ![c] = [req |-> r, ans |-> Pending]]
        /\ IF CreateIfMissing /\ StartsCreation(ensure)
           THEN ensure' = "creating" /\ creations' = creations + 1
           ELSE UNCHANGED <<ensure, creations>>
        /\ stage' = [stage EXCEPT ![c] =
                       IF CreateIfMissing THEN Awaits(ensure', r.op) ELSE r.op]
  BY DEF Start
<1>3. CASE CreateIfMissing /\ ensure # "created"
  <2>1. "ready" \in Stages /\ Fits(r, Pending, "ready")
    BY <1>2 DEF Stages, Fits
  <2>0. ensure' = "creating" /\ creations' = 1
    BY <1>2, <1>3 DEF StartsCreation, Typed, Promise
  <2>3. stage' = [stage EXCEPT ![c] = "ready"]
    BY <1>2, <1>3, <2>0 DEF Awaits
  <2>2. CallsTyped'
    BY <1>2, <2>1, <2>3, AnswersKnown, MovedTyped DEF Typed
  <2>4. \A d \in Callers : stage'[d] = IF d = c THEN "ready" ELSE stage[d]
    BY <2>3 DEF Typed, CallsTyped
  <2>5. Promise'
    BY <1>3, <2>0, <2>4 DEF Typed, Promise
  <2> QED
    BY <1>1, <2>2, <2>5, ServiceKept DEF Typed
<1>4. CASE ~(CreateIfMissing /\ ensure # "created")
  <2>1. r.op \in Stages \ {"ready"} /\ Fits(r, Pending, r.op)
    BY <1>2, RequestKinds DEF Stages, Fits
  <2>0. UNCHANGED <<ensure, creations>>
    BY <1>2, <1>4 DEF StartsCreation
  <2>5. stage' = [stage EXCEPT ![c] = r.op]
    BY <1>2, <1>4, <2>0 DEF Awaits
  <2>2. CallsTyped'
    BY <1>2, <2>1, <2>5, AnswersKnown, MovedTyped DEF Typed
  <2>3. \A d \in Callers : stage'[d] = IF d = c THEN r.op ELSE stage[d]
    BY <2>5 DEF Typed, CallsTyped
  <2>4. Promise'
    BY <1>1, <1>4, <2>0, <2>1, <2>3 DEF Typed, Promise
  <2> QED
    BY <1>1, <2>2, <2>4, ServiceKept DEF Typed
<1> QED
  BY <1>3, <1>4

LEMMA CreationTyped ==
  ASSUME Typed, Created \/ CreationFails
  PROVE  Typed'
<1>1. creations = 1 /\ ensure = "creating"
  BY DEF Created, CreationFails, Typed, Promise
<1>2. CASE Created
  <2>1. \A d \in Callers : stage'[d] = IF stage[d] = "ready" THEN calls[d].req.op ELSE stage[d]
    BY <1>2 DEF Created, Waiting
  <2>2. \A d \in Callers :
          stage[d] = "ready" => calls[d].req.op \in {"put", "get", "head", "delete"}
    BY RequestKinds DEF Typed, CallsTyped, Fits
  <2>3. \A d \in Callers : stage'[d] \in Stages \ {"ready"}
    BY <2>1, <2>2 DEF Typed, CallsTyped, Stages
  <2>4. \A d \in Callers : Fits(calls[d].req, calls[d].ans, stage[d])'
    <3> SUFFICES ASSUME NEW d \in Callers PROVE Fits(calls[d].req, calls[d].ans, stage[d])'
      OBVIOUS
    <3>1. Fits(calls[d].req, calls[d].ans, stage[d]) /\ calls' = calls
      BY <1>2 DEF Created, Typed, CallsTyped
    <3> QED
      BY <2>1, <2>2, <3>1 DEF Fits, LegalPut
  <2>5. CallsTyped'
    BY <1>2, <2>3, <2>4 DEF Created, Waiting, Typed, CallsTyped
  <2>6. StoreTyped'
    BY <1>2 DEF Created, Typed, StoreTyped
  <2>7. Promise'
    BY <1>1, <1>2, <2>3 DEF Created, Promise
  <2> QED
    BY <2>5, <2>6, <2>7 DEF Typed
<1>3. CASE CreationFails
  <2>1. \A d \in Callers : stage'[d] = IF stage[d] = "ready" THEN "rejected" ELSE stage[d]
    BY <1>3 DEF CreationFails, Rejected, Waiting
  <2>3. \A d \in Callers : stage'[d] \in Stages \ {"ready"}
    BY <2>1 DEF Typed, CallsTyped, Stages
  <2>4. \A d \in Callers : Fits(calls[d].req, calls[d].ans, stage[d])'
    <3> SUFFICES ASSUME NEW d \in Callers PROVE Fits(calls[d].req, calls[d].ans, stage[d])'
      OBVIOUS
    <3>1. Fits(calls[d].req, calls[d].ans, stage[d]) /\ calls' = calls
      BY <1>3 DEF CreationFails, Typed, CallsTyped
    <3> QED
      BY <2>1, <3>1 DEF Fits, LegalPut
  <2>5. CallsTyped'
    BY <1>3, <2>3, <2>4 DEF CreationFails, Rejected, Waiting, Typed, CallsTyped
  <2>6. StoreTyped'
    BY <1>3 DEF CreationFails, service, Typed, StoreTyped
  <2>7. Promise'
    BY <1>1, <1>3, <2>1, <2>3 DEF CreationFails, AfterFailure, Typed, Promise
  <2> QED
    BY <2>5, <2>6, <2>7 DEF Typed
<1> QED
  BY <1>2, <1>3

LEMMA PutTyped ==
  ASSUME Typed, NEW c \in Callers, PutDone(c) \/ PutRefused(c) \/ PutFails(c)
  PROVE  Typed'
<1>1. /\ stage[c] = "put" /\ UNCHANGED <<ensure, creations>>
      /\ UNCHANGED service \/ \E n \in 0..PutLimit(calls[c].req) : Uploaded(c, n)
  BY DEF PutDone, PutRefused, PutFails
<1>2. StoreTyped'
  BY <1>1, ServiceKept, UploadedTyped
<1>3. CASE PutDone(c)
  <2>1. PICK n \in 0..PutLimit(calls[c].req) : Uploaded(c, n) /\ Settle(c, Stored(lastEtag', n))
    BY <1>3 DEF PutDone
  <2>2. Stored(lastEtag', n) \in Answer \ {Pending}
    BY <1>1, <2>1, UploadedTyped, AnswersKnown
  <2> QED
    BY <1>1, <1>2, <2>1, <2>2, SettleTyped DEF Typed
<1>4. CASE Fail(c) \/ Settle(c, Refused("exists")) \/ Settle(c, Refused("missing"))
  BY <1>1, <1>2, <1>4, FailTyped, AnswersKnown, SettleTyped DEF Typed
<1>5. CASE calls[c].req.ifMatch # NoEtag /\ Send(c, "propertiesAfterPut")
  <2>1. Fits(calls[c].req, calls[c].ans, "propertiesAfterPut")
    BY <1>1, <1>5 DEF Fits, Typed, CallsTyped
  <2> QED
    BY <1>1, <1>2, <1>5, <2>1, SendTyped DEF Typed
<1> QED
  BY <1>3, <1>4, <1>5 DEF PutRefused, PutFails

LEMMA ReadTyped ==
  ASSUME Typed, NEW c \in Callers, NotReady(c) \/ Read(c) \/ ReadFails(c)
  PROVE  Typed'
<1>1. /\ stage[c] \notin {"nothing", "ready"} /\ UNCHANGED <<ensure, creations>>
      /\ UNCHANGED service
  BY DEF NotReady, Read, ReadFails, ReadStages
<1>2. StoreTyped'
  BY <1>1, ServiceKept
<1>3. CASE NotReady(c) \/ ReadFails(c)
  BY <1>1, <1>2, <1>3, FailTyped, AnswersKnown, SettleTyped DEF NotReady, ReadFails, Typed
<1>4. CASE Read(c)
  <2>1. calls[c].req.key \in Keys
    BY <1>1, RequestKinds DEF Typed, CallsTyped, Fits
  <2>2. objects[calls[c].req.key] # NoObject => objects[calls[c].req.key] \in Object
    BY <2>1 DEF Typed, StoreTyped
  <2>3. \E a \in Answer \ {Pending} : Settle(c, a)
    BY <1>4, <2>2, AnswersKnown DEF Read
  <2> QED
    BY <1>1, <1>2, <2>3, SettleTyped DEF Typed
<1> QED
  BY <1>3, <1>4

LEMMA DeleteTyped ==
  ASSUME Typed, NEW c \in Callers, DeleteDone(c) \/ DeleteRefused(c) \/ DeleteFails(c)
  PROVE  Typed'
<1>1. /\ stage[c] = "delete" /\ UNCHANGED <<ensure, creations>>
      /\ UNCHANGED service \/ Removed(c)
  BY DEF DeleteDone, DeleteRefused, DeleteFails
<1>2. StoreTyped'
  <2>1. CASE Removed(c)
    BY <2>1 DEF Removed, Typed, StoreTyped
  <2> QED
    BY <1>1, <2>1, ServiceKept
<1>3. CASE Fail(c) \/ Settle(c, Deleted) \/ Settle(c, Refused("missing"))
  BY <1>1, <1>2, <1>3, FailTyped, AnswersKnown, SettleTyped DEF Typed
<1>4. CASE calls[c].req.ifMatch # NoEtag /\ Send(c, "propertiesAfterDelete")
  <2>1. Fits(calls[c].req, calls[c].ans, "propertiesAfterDelete")
    BY <1>1, <1>4 DEF Fits, Typed, CallsTyped
  <2> QED
    BY <1>1, <1>2, <1>4, <2>1, SendTyped DEF Typed
<1> QED
  BY <1>3, <1>4 DEF DeleteDone, DeleteRefused, DeleteFails

LEMMA ResentTyped ==
  ASSUME Typed, NEW c \in Callers, PutResent(c) \/ DeleteResent(c)
  PROVE  Typed'
<1>1. UNCHANGED <<ensure, calls, stage, creations>>
  BY DEF PutResent, DeleteResent
<1>2. CallsTyped' /\ Promise'
  BY <1>1 DEF Typed, CallsTyped, Fits, LegalPut, Promise
<1>3. StoreTyped'
  <2>1. CASE PutResent(c)
    BY <2>1, UploadedTyped DEF PutResent
  <2>2. CASE DeleteResent(c)
    BY <2>2 DEF DeleteResent, Removed, Typed, StoreTyped
  <2> QED
    BY <2>1, <2>2
<1> QED
  BY <1>2, <1>3 DEF Typed

LEMMA TypedInit == Init => Typed
<1> SUFFICES ASSUME Init PROVE Typed
  OBVIOUS
<1>1. NoCall \in Call /\ NoCall.ans # Pending
  BY DEF NoCall, Call, Answer, Absent, Pending
<1>2. CallsTyped
  BY <1>1 DEF Init, CallsTyped, Fits, Stages
<1>3. StoreTyped
  BY DEF Init, StoreTyped
<1>4. Promise
  BY DEF Init, Promise
<1> QED
  BY <1>2, <1>3, <1>4 DEF Typed

LEMMA TypedStep == Typed /\ [Next]_vars => Typed'
<1> SUFFICES ASSUME Typed, [Next]_vars PROVE Typed'
  OBVIOUS
<1>1. ASSUME NEW c \in Callers, PutThrows(c) \/ Start(c) PROVE Typed'
  BY <1>1, PutThrowsTyped, StartTyped
<1>2. ASSUME NEW c \in Callers, Serve(c) PROVE Typed'
  BY <1>2, PutTyped, ReadTyped, DeleteTyped, ResentTyped DEF Serve
<1>3. CASE ContainerDeleting \/ ContainerDeleted \/ UNCHANGED vars
  <2>1. CallsTyped' /\ Promise'
    BY <1>3 DEF ContainerDeleting, ContainerDeleted, vars, service, Typed, CallsTyped, Fits, LegalPut, Promise
  <2>2. StoreTyped'
    BY <1>3 DEF ContainerDeleting, ContainerDeleted, vars, service, Typed, StoreTyped
  <2> QED
    BY <2>1, <2>2 DEF Typed
<1> QED
  BY <1>1, <1>2, <1>3, CreationTyped DEF Next

\* Every call and every request of it is of its type, whatever the service answers.
THEOREM TypeCorrect == Spec => []TypeOK
<1>1. Typed => TypeOK
  BY DEF Typed, CallsTyped, StoreTyped, Promise, TypeOK
<1> QED
  BY <1>1, TypedInit, TypedStep, PTL DEF Spec

\* However many calls start together and whatever failed before, one creation is
\* under way at a time, its waiters are all there is to wait for it, and no
\* request goes out before one succeeded.
THEOREM CreatedOnce == Spec => []OneCreation
<1>1. Typed => OneCreation
  BY DEF Typed, Promise, OneCreation, Waiting
<1> QED
  BY <1>1, TypedInit, TypedStep, PTL DEF Spec

-------------------------------------------------------------------------------
(***************************************************************************)
(* A call runs out of answers to wait for.                                 *)
(***************************************************************************)
LEMMA AnswersLeftOf ==
  /\ AnswersLeft("nothing") = 0
  /\ \A s \in {"get", "head", "rejected", "propertiesAfterPut", "propertiesAfterDelete"} :
       AnswersLeft(s) = 1
  /\ \A s \in {"put", "delete"} : AnswersLeft(s) = 2
  /\ AnswersLeft("ready") = 3
BY DEF AnswersLeft

\* A promise that is kept or broken: those who wait for it wait for one answer less.
LEMMA CreationRunsOut ==
  ASSUME CallsTyped, Created \/ CreationFails, NEW c \in Callers, stage'[c] # stage[c]
  PROVE  AnswersLeft(stage'[c]) < AnswersLeft(stage[c])
<1>1. stage[c] = "ready" /\ (stage'[c] = calls[c].req.op \/ stage'[c] = "rejected")
  BY DEF CallsTyped, Created, CreationFails, Rejected, Waiting
<1>2. calls[c].req \in Request
  BY <1>1 DEF CallsTyped, Fits
<1>3. calls[c].req.op \in {"put", "get", "head", "delete"}
  BY <1>2, RequestKinds
<1> QED
  BY <1>1, <1>3, AnswersLeftOf

\* One answer of the service, of whatever kind, to one call.
LEMMA ServedRunsOut ==
  ASSUME CallsTyped, NEW d \in Callers, Serve(d),
         NEW c \in Callers, InFlight(c), stage'[c] # stage[c]
  PROVE  AnswersLeft(stage'[c]) < AnswersLeft(stage[c])
<1>1. /\ stage \in [Callers -> Stages]
      /\ stage[c] # "nothing"
  BY DEF CallsTyped, Fits, InFlight
<1>2. CASE \E a : Settle(d, a)
  <2>1. c = d /\ stage'[c] = "nothing"
    BY <1>1, <1>2 DEF Settle
  <2>2. AnswersLeft(stage[c]) \in 1..3
    BY <1>1, AnswersLeftOf DEF Stages
  <2> QED
    BY <2>1, <2>2, AnswersLeftOf
<1>3. CASE stage[d] = "put" /\ Send(d, "propertiesAfterPut")
  <2>1. c = d /\ stage'[c] = "propertiesAfterPut"
    BY <1>1, <1>3 DEF Send
  <2> QED
    BY <1>3, <2>1, AnswersLeftOf
<1>4. CASE stage[d] = "delete" /\ Send(d, "propertiesAfterDelete")
  <2>1. c = d /\ stage'[c] = "propertiesAfterDelete"
    BY <1>1, <1>4 DEF Send
  <2> QED
    BY <1>4, <2>1, AnswersLeftOf
<1>5. CASE NotReady(d) \/ PutDone(d) \/ PutFails(d) \/ Read(d) \/ ReadFails(d)
           \/ DeleteDone(d) \/ DeleteFails(d)
  BY <1>2, <1>5 DEF NotReady, PutDone, PutFails, Read, ReadFails, DeleteDone, DeleteFails, Fail
<1>6. CASE PutRefused(d)
  BY <1>2, <1>3, <1>6 DEF PutRefused, Fail
<1>7. CASE DeleteRefused(d)
  BY <1>2, <1>4, <1>7 DEF DeleteRefused
<1>8. CASE PutResent(d) \/ DeleteResent(d)
  BY <1>8 DEF PutResent, DeleteResent
<1> QED
  BY <1>5, <1>6, <1>7, <1>8 DEF Serve

\* Whatever the service answers and the other callers do, a call of ready() and one of
\* the operations waits for at most three answers: the container it creates or
\* finds being created, its own request, and one getProperties.
THEOREM CallsEnd == Spec => CallsRunOut
<1> DEFINE RunsOut ==
      \A c \in Callers : InFlight(c) /\ stage'[c] # stage[c] =>
        AnswersLeft(stage'[c]) < AnswersLeft(stage[c])
<1>1. ASSUME Typed, [Next]_vars PROVE RunsOut
  <2> SUFFICES ASSUME NEW c \in Callers, InFlight(c), stage'[c] # stage[c]
               PROVE  AnswersLeft(stage'[c]) < AnswersLeft(stage[c])
    OBVIOUS
  <2>1. ASSUME NEW d \in Callers, PutThrows(d) \/ Start(d) PROVE FALSE
    <3>1. c # d
      BY <2>1 DEF PutThrows, Start
    <3> QED
      BY <1>1, <2>1, <3>1 DEF PutThrows, Start, Typed, CallsTyped
  <2>2. ASSUME NEW d \in Callers, Serve(d)
        PROVE  AnswersLeft(stage'[c]) < AnswersLeft(stage[c])
    BY <1>1, <2>2, ServedRunsOut DEF Typed
  <2>3. CASE Created \/ CreationFails
    BY <1>1, <2>3, CreationRunsOut DEF Typed
  <2>4. CASE ContainerDeleting \/ ContainerDeleted \/ UNCHANGED vars
    BY <2>4 DEF ContainerDeleting, ContainerDeleted, vars
  <2> QED
    BY <1>1, <2>1, <2>2, <2>3, <2>4 DEF Next
<1>2. Typed /\ [Next]_vars => [RunsOut]_vars
  BY <1>1
<1> QED
  BY <1>2, TypedInit, TypedStep, PTL DEF Spec, CallsRunOut

-------------------------------------------------------------------------------
(***************************************************************************)
(* The adapter implements the interface, whatever happens to its           *)
(* container.  A call that asks why it was refused will find no object of  *)
(* the etag it named, since a new object has an etag of its own.           *)
(***************************************************************************)
Asking == {"propertiesAfterPut", "propertiesAfterDelete"}

EtagsKnown ==
  \A c \in Callers :
    calls[c].ans = Pending /\ calls[c].req.op \in {"put", "delete"} =>
      calls[c].req.ifMatch \in 0..lastEtag

Outdated ==
  \A c \in Callers :
    stage[c] \in Asking =>
      LET o == objects[calls[c].req.key] IN o = NoObject \/ o.etag # calls[c].req.ifMatch

\* Nothing is stored but in a container that is there to stay.
ContainerKept ==
  /\ container # "present" => \A k \in Keys : objects[k] = NoObject
  /\ container = "deleting" => "container" \in Faults

Ready == Typed /\ EtagsKnown /\ Outdated /\ ContainerKept

LEMMA SettleDoes ==
  ASSUME Typed, NEW c \in Callers, NEW a \in Answer \ {Pending}, Settle(c, a)
  PROVE  /\ calls'[c].req = calls[c].req /\ calls'[c].ans = a /\ stage'[c] = "nothing"
         /\ \A d \in Callers \ {c} : calls'[d] = calls[d] /\ stage'[d] = stage[d]
<1>1. calls' = [calls EXCEPT ![c] = [req |-> calls[c].req, ans |-> a]]
  BY SettleMoves DEF Typed
<1>2. stage' = [stage EXCEPT ![c] = "nothing"] /\ calls \in [Callers -> Call] /\ stage \in [Callers -> Stages]
  BY DEF Settle, Typed, CallsTyped
<1> QED
  BY <1>1, <1>2

LEMMA SettleSays ==
  ASSUME Typed, NEW c \in Callers, NEW a \in Answer \ {Pending}, Settle(c, a)
  PROVE  Port!Says(c, calls[c].req, a, a)
<1>1. calls' = [calls EXCEPT ![c] = [req |-> calls[c].req, ans |-> a]]
  BY SettleMoves DEF Typed
<1>2. [d \in Callers |-> calls[d].ans]' = [[d \in Callers |-> calls[d].ans] EXCEPT ![c] = a]
  BY <1>1 DEF Typed, CallsTyped
<1> QED
  BY <1>1, <1>2 DEF Port!Says

LEMMA SendSays ==
  ASSUME Typed, NEW c \in Callers, NEW s, Send(c, s)
  PROVE  /\ UNCHANGED calls /\ stage'[c] = s
         /\ \A d \in Callers \ {c} : stage'[d] = stage[d]
BY DEF Send, Typed, CallsTyped

\* What is served changes the call it serves, and of the store an object at most.
LEMMA ServedDoes ==
  ASSUME Typed, NEW c \in Callers, Serve(c)
  PROVE  /\ \/ \E a \in Answer \ {Pending} : Settle(c, a)
            \/ /\ stage[c] = "put" /\ Send(c, "propertiesAfterPut")
               /\ calls[c].req.ifMatch # NoEtag /\ PutStatus(c) \cap {409, 412} # {}
               /\ UNCHANGED service
            \/ /\ stage[c] = "delete" /\ Send(c, "propertiesAfterDelete")
               /\ LET o == objects[calls[c].req.key]
                  IN  ~(o # NoObject /\ o.etag = calls[c].req.ifMatch)
               /\ UNCHANGED service
            \/ stage[c] \in {"put", "delete"} /\ UNCHANGED <<calls, stage>>
         /\ \/ UNCHANGED service
            \/ stage[c] = "put" /\ \E n \in 0..PutLimit(calls[c].req) : Uploaded(c, n)
            \/ stage[c] = "delete" /\ Removed(c)
<1>1. CASE PutDone(c)
  <2>1. PICK n \in 0..PutLimit(calls[c].req) : Uploaded(c, n) /\ Settle(c, Stored(lastEtag', n))
    BY <1>1 DEF PutDone
  <2>2. Stored(lastEtag', n) \in Answer \ {Pending}
    BY <1>1, <2>1, UploadedTyped, AnswersKnown DEF PutDone
  <2> QED
    BY <1>1, <2>1, <2>2 DEF PutDone
<1>2. CASE PutRefused(c) \/ PutFails(c)
  BY <1>2, AnswersKnown DEF PutRefused, PutFails, Fail
<1>3. CASE NotReady(c) \/ ReadFails(c)
  BY <1>3, AnswersKnown DEF NotReady, ReadFails, Fail
<1>4. CASE Read(c)
  <2>1. calls[c].req.key \in Keys
    BY <1>4, RequestKinds DEF Read, ReadStages, Typed, CallsTyped, Fits
  <2>2. objects[calls[c].req.key] # NoObject => objects[calls[c].req.key] \in Object
    BY <2>1 DEF Typed, StoreTyped
  <2> QED
    BY <1>4, <2>2, AnswersKnown DEF Read
<1>5. CASE DeleteDone(c) \/ DeleteRefused(c) \/ DeleteFails(c)
  BY <1>5, AnswersKnown DEF DeleteDone, DeleteRefused, DeleteFails, Fail
<1>6. CASE PutResent(c) \/ DeleteResent(c)
  BY <1>6 DEF PutResent, DeleteResent
<1> QED
  BY <1>1, <1>2, <1>3, <1>4, <1>5, <1>6 DEF Serve

LEMMA ReadyStep ==
  ASSUME Ready, [Next]_vars
  PROVE  Ready'
<1> Typed /\ Typed' /\ lastEtag \in Nat
  BY TypedStep DEF Ready, Typed, StoreTyped, Etag, NoEtag
<1>0. \A d \in Callers :
        stage[d] \in Asking =>
          calls[d].req.key \in Keys /\ calls[d].req.ifMatch \in 0..lastEtag
  BY RequestKinds DEF Ready, EtagsKnown, Typed, CallsTyped, Fits, Asking
<1>1. ASSUME NEW c \in Callers, PutThrows(c) \/ Start(c) PROVE Ready'
  <2>0. PICK r \in Request :
          /\ \E a : calls' = [calls EXCEPT ![c] = [req |-> r, ans |-> a]]
          /\ r.op \in {"put", "delete"} => r.ifMatch \in 0..lastEtag
    BY <1>1 DEF PutThrows, Start, KnownEtag, Request, PutRequest
  <2>1. PICK a :
          /\ calls' = [calls EXCEPT ![c] = [req |-> r, ans |-> a]]
          /\ r.op \in {"put", "delete"} => r.ifMatch \in 0..lastEtag
    BY <2>0
  <2>2. \A d \in Callers : calls'[d] = IF d = c THEN [req |-> r, ans |-> a] ELSE calls[d]
    BY <2>1 DEF Typed, CallsTyped
  <2>3. UNCHANGED service
    BY <1>1 DEF PutThrows, Start
  <2>4. EtagsKnown'
    BY <2>1, <2>2, <2>3 DEF Ready, EtagsKnown, service
  <2>5. \A d \in Callers : stage'[d] \in Asking => d # c /\ stage[d] \in Asking
    <3>1. stage[c] = "nothing"
      BY <1>1 DEF PutThrows, Start, InFlight, Typed, CallsTyped, Fits
    <3>2. CASE PutThrows(c)
      BY <3>1, <3>2 DEF PutThrows, Asking
    <3>3. CASE Start(c)
      <4>1. PICK q \in Request :
              /\ IF CreateIfMissing /\ StartsCreation(ensure)
                 THEN ensure' = "creating" ELSE UNCHANGED ensure
              /\ stage' = [stage EXCEPT ![c] =
                             IF CreateIfMissing THEN Awaits(ensure', q.op) ELSE q.op]
        BY <3>3 DEF Start
      <4>2. CreateIfMissing => ensure' \in {"creating", "created"}
        BY <4>1 DEF StartsCreation, Typed, Promise
      <4>3. q.op \in {"put", "get", "head", "delete"}
        BY RequestKinds
      <4> QED
        BY <3>1, <4>1, <4>2, <4>3 DEF Awaits, Typed, CallsTyped, Asking
    <3> QED
      BY <1>1, <3>2, <3>3
  <2>6. Outdated'
    BY <2>2, <2>3, <2>5 DEF Ready, Outdated, service
  <2> QED
    BY <2>3, <2>4, <2>6 DEF Ready, ContainerKept, service
<1>2. ASSUME NEW c \in Callers, Serve(c) PROVE Ready'
  <2>1. /\ \A d \in Callers : /\ calls'[d].req = calls[d].req
                              /\ calls'[d].ans = Pending => calls[d].ans = Pending
        /\ \A d \in Callers : stage'[d] \in Asking /\ d # c => stage[d] \in Asking
    <3>1. ASSUME NEW a \in Answer \ {Pending}, Settle(c, a)
          PROVE  \A d \in Callers : /\ calls'[d].req = calls[d].req
                                    /\ calls'[d].ans = Pending => calls[d].ans = Pending
                                    /\ stage'[d] \in Asking /\ d # c => stage[d] \in Asking
      <4>1. calls'[c].req = calls[c].req /\ calls'[c].ans # Pending
        BY <3>1, SettleDoes
      <4>2. \A d \in Callers \ {c} : calls'[d] = calls[d] /\ stage'[d] = stage[d]
        BY <3>1, SettleDoes
      <4> QED
        BY <4>1, <4>2
    <3>2. CASE \E s : Send(c, s)
      BY <3>2, SendSays
    <3> QED
      BY <1>2, <3>1, <3>2, ServedDoes
  <2>2. CASE UNCHANGED service
    <3>1. stage'[c] \in Asking =>
            LET o == objects[calls[c].req.key] IN o = NoObject \/ o.etag # calls[c].req.ifMatch
      <4>1. CASE \E a \in Answer \ {Pending} : Settle(c, a)
        BY <4>1, SettleDoes DEF Asking
      <4>2. CASE stage[c] = "put" /\ calls[c].req.ifMatch # NoEtag /\ PutStatus(c) \cap {409, 412} # {}
        <5>1. calls[c].req.key \in Keys /\ ~calls[c].req.createOnly
          BY <4>2, RequestKinds DEF Typed, CallsTyped, Fits, LegalPut, PutRequest
        <5> QED
          BY <4>2, <5>1 DEF Ready, ContainerKept, PutStatus, ConditionsHold
      <4>3. CASE stage[c] \in {"put", "delete"} /\ UNCHANGED <<calls, stage>>
        BY <4>3 DEF Asking
      <4> QED
        BY <1>2, <4>1, <4>2, <4>3, ServedDoes
    <3> QED
      BY <2>1, <2>2, <3>1 DEF Ready, ContainerKept, EtagsKnown, Outdated, service
  <2>3. ASSUME stage[c] = "put", NEW n \in 0..PutLimit(calls[c].req), Uploaded(c, n)
        PROVE  Ready'
    <3>1. calls[c].req.key \in Keys /\ lastEtag' = lastEtag + 1
      BY <2>3, RequestKinds DEF Uploaded, Typed, CallsTyped, Fits
    <3>2. \A k \in Keys : objects'[k] = IF k = calls[c].req.key
                                        THEN [etag |-> lastEtag + 1, size |-> n] ELSE objects[k]
      BY <2>3, <3>1 DEF Uploaded, Typed, StoreTyped
    <3>3. stage'[c] \notin Asking
      <4>1. ~UNCHANGED service
        BY <3>1 DEF service
      <4>2. CASE \E a \in Answer \ {Pending} : Settle(c, a)
        BY <4>2, SettleDoes DEF Asking
      <4>3. CASE UNCHANGED <<calls, stage>>
        BY <2>3, <4>3 DEF Asking
      <4> QED
        BY <1>2, <4>1, <4>2, <4>3, ServedDoes
    <3>4. EtagsKnown'
      BY <2>1, <3>1 DEF Ready, EtagsKnown
    <3>5. Outdated'
      BY <1>0, <2>1, <3>2, <3>3 DEF Ready, Outdated
    <3> QED
      BY <2>3, <3>4, <3>5 DEF Ready, ContainerKept, Uploaded
  <2>4. CASE stage[c] = "delete" /\ Removed(c)
    <3>1. \A k \in Keys : objects'[k] \in {objects[k], NoObject}
      BY <2>4 DEF Removed, Typed, StoreTyped
    <3>2. CASE stage'[c] \notin Asking
      BY <1>0, <2>1, <2>4, <3>1, <3>2 DEF Ready, ContainerKept, EtagsKnown, Outdated, Removed
    <3>3. CASE UNCHANGED service
      BY <2>2, <3>3
    <3> QED
      BY <1>2, <2>4, <3>2, <3>3, ServedDoes, SettleDoes DEF Asking
  <2> QED
    BY <1>2, <2>2, <2>3, <2>4, ServedDoes
<1>3. CASE Created \/ CreationFails
  <2>1. UNCHANGED <<objects, lastEtag, calls>> /\ ContainerKept'
    BY <1>3 DEF Created, CreationFails, service, Ready, ContainerKept, Typed, StoreTyped
  <2>2. \A d \in Callers : stage'[d] \in Asking => stage[d] \in Asking
    BY <1>3, RequestKinds DEF Created, CreationFails, Rejected, Waiting, Typed, CallsTyped, Fits, Asking
  <2> QED
    BY <2>1, <2>2 DEF Ready, EtagsKnown, Outdated
<1>4. CASE ContainerDeleting
  <2>1. \A k \in Keys : objects'[k] = NoObject
    BY <1>4 DEF ContainerDeleting
  <2>2. EtagsKnown' /\ ContainerKept'
    BY <1>4, <2>1 DEF ContainerDeleting, Ready, EtagsKnown, ContainerKept
  <2>3. Outdated'
    BY <1>0, <1>4, <2>1 DEF ContainerDeleting, Outdated
  <2> QED
    BY <2>2, <2>3 DEF Ready
<1>5. CASE ContainerDeleted \/ UNCHANGED vars
  BY <1>5 DEF ContainerDeleted, vars, Ready, ContainerKept, EtagsKnown, Outdated
<1> QED
  BY <1>1, <1>2, <1>3, <1>4, <1>5 DEF Next

\* The interface and the adapter speak of the same requests and answers.
LEMMA SameWords ==
  /\ Port!Request = Request /\ Port!NoEtag = NoEtag /\ Port!Etag = Etag /\ Port!Unset = Unset
  /\ Port!Errors = Errors /\ Port!Reasons = Reasons
  /\ Port!Pending = Pending /\ Port!Absent = Absent /\ Port!Deleted = Deleted
  /\ \A x : Port!Thrown(x) = Thrown(x) /\ Port!Refused(x) = Refused(x) /\ Port!Found(x) = Found(x)
  /\ \A e, n : Port!Stored(e, n) = Stored(e, n)
  /\ Port!NoCall = NoCall
BY DEF Port!Request, Port!PutRequest, Port!DeleteRequest, Port!ReadRequest, Port!NoEtag,
       Port!Etag, Port!Unset, Port!Errors, Port!Reasons, Port!Pending, Port!Absent, Port!Deleted,
       Port!Thrown, Port!Refused, Port!Found, Port!Stored, Port!NoCall, Port!NoRequest,
       Request, PutRequest, DeleteRequest, ReadRequest, NoEtag,
       Etag, Unset, Errors, Reasons, Pending, Absent, Deleted,
       Thrown, Refused, Found, Stored, NoCall, NoRequest

LEMMA LegalIsLegal ==
  ASSUME NEW r \in Request
  PROVE  Port!Illegal(r) <=> r.op = "put" /\ ~LegalPut(r)
BY SameWords, RequestKinds, MaxObjectBytesAssumption
   DEF PutRequest, LegalPut, Port!Illegal, Port!Limit, Unset, NoEtag

\* A call in flight, as the interface sees it.
LEMMA WaitingIsUndecided ==
  ASSUME Typed, NEW c \in Callers, stage[c] # "nothing"
  PROVE  /\ calls[c].req \in Request /\ ~Port!Illegal(calls[c].req) /\ Port!InFlight(c)
         /\ calls[c].req.op = "put" => ~calls[c].req.bodyFails
         /\ [d \in Callers |-> calls[d].ans][c] = Pending
BY SameWords, LegalIsLegal DEF Typed, CallsTyped, Fits, Port!InFlight

\* An answer is told in the step that decides it, or is lost.
LEMMA SettleAnswers ==
  ASSUME Typed, NEW c \in Callers, NEW a \in Answer \ {Pending}, Settle(c, a)
  PROVE  Port!Answered(c, calls[c].req, a) /\ Port!Applied(c, calls[c].req, a)
BY SettleSays DEF Port!Answered, Port!Applied

\* A request that is sent again leaves the call as it was.
LEMMA ResendSays ==
  ASSUME Typed, NEW c \in Callers, stage[c] # "nothing", UNCHANGED calls, "resend" \in Faults
  PROVE  \A a : Port!Applied(c, calls[c].req, a)
<1>1. calls[c].ans = Pending /\ calls \in [Callers -> Call]
  BY DEF Typed, CallsTyped, Fits
<1>2. calls' = [calls EXCEPT ![c] = [req |-> calls[c].req, ans |-> Pending]]
  BY <1>1 DEF Call
<1>3. [d \in Callers |-> calls[d].ans]' = [[d \in Callers |-> calls[d].ans] EXCEPT ![c] = Pending]
  BY <1>1
<1> QED
  BY <1>2, <1>3, SameWords DEF Port!Applied, Port!Says

LEMMA FailLoses ==
  ASSUME Typed, NEW c \in Callers, NEW x \in {"BlobStoreError", "OtherError"},
         Settle(c, Thrown(x))
  PROVE  \A a : Port!Applied(c, calls[c].req, a)
<1>1. Thrown(x) \in Answer \ {Pending} /\ Thrown(x) \in Port!Lost
  BY SameWords, AnswersKnown DEF Port!Lost
<1>2. Port!Says(c, calls[c].req, Thrown(x), Thrown(x))
  BY <1>1, SettleSays
<1> QED
  BY <1>1, <1>2 DEF Port!Answered, Port!Applied

LEMMA LostIsTold ==
  ASSUME Typed, NEW c \in Callers, stage[c] # "nothing",
         NEW x \in {"BlobStoreError", "OtherError"}, Settle(c, Thrown(x)), UNCHANGED service
  PROVE  Port!Tell(c)
<1>1. Thrown(x) \in Answer \ {Pending} /\ Thrown(x) \in Port!Lost
  BY SameWords, AnswersKnown DEF Port!Lost
<1>2. Port!Says(c, calls[c].req, Thrown(x), Thrown(x))
  BY <1>1, SettleSays
<1> QED
  BY <1>1, <1>2, WaitingIsUndecided DEF Port!Tell, Port!store, service

LEMMA RefusedIsServed ==
  ASSUME Typed, NEW c \in Callers, stage[c] # "nothing", calls[c].req.op \in {"put", "delete"},
         NEW reason \in Reasons, Settle(c, Refused(reason)), UNCHANGED service,
         Port!RefusedFor(reason, calls[c].req, objects[calls[c].req.key])
  PROVE  Port!Serve(c)
<1>1. Port!Answered(c, calls[c].req, Refused(reason))
  BY AnswersKnown, SettleAnswers
<1>2. Port!RefuseEffect(c, calls[c].req)
  BY <1>1, SameWords, WaitingIsUndecided DEF Port!RefuseEffect, Port!store, service
<1> QED
  BY <1>2, SameWords, WaitingIsUndecided DEF Port!Serve, Port!Effect

LEMMA StartIsStart ==
  ASSUME Ready, NEW c \in Callers, PutThrows(c) \/ Start(c)
  PROVE  Port!Start(c) \/ Port!StartAndServe(c)
<1>0. ~Port!InFlight(c) /\ calls \in [Callers -> Call]
  BY SameWords DEF PutThrows, Start, InFlight, Port!InFlight, Ready, Typed, CallsTyped
<1>1. ASSUME NEW r \in Request, NEW a, calls' = [calls EXCEPT ![c] = [req |-> r, ans |-> a]]
      PROVE  Port!Says(c, r, a, a) /\ calls'[c].req = r
  <2>1. [d \in Callers |-> calls[d].ans]' = [[d \in Callers |-> calls[d].ans] EXCEPT ![c] = a]
    BY <1>0, <1>1
  <2> QED
    BY <1>0, <1>1, <2>1 DEF Port!Says
<1>2. CASE PutThrows(c)
  <2>1. PICK r \in PutRequest, x \in Errors :
          /\ IF LegalPut(r) THEN r.bodyFails ELSE x = "BlobValidationError"
          /\ calls' = [calls EXCEPT ![c] = [req |-> r, ans |-> Thrown(x)]]
    BY <1>2 DEF PutThrows
  <2>2. r \in Request /\ r.op = "put"
    BY DEF Request, PutRequest
  <2>3. Port!Says(c, r, Thrown(x), Thrown(x)) /\ calls'[c].req = r
    BY <1>1, <2>1, <2>2
  <2>4. Port!Answered(c, r, Thrown(x))
    BY <2>3 DEF Port!Answered
  <2>5. Port!ThrowEffect(c, r)
    BY <1>2, <2>1, <2>2, <2>4, SameWords, LegalIsLegal DEF PutThrows, Port!ThrowEffect, Port!store, service
  <2> QED
    BY <1>0, <2>2, <2>3, <2>5, SameWords DEF Port!StartAndServe, Port!Effect
<1>3. CASE Start(c)
  <2>1. PICK r \in Request : calls' = [calls EXCEPT ![c] = [req |-> r, ans |-> Pending]]
    BY <1>3 DEF Start
  <2>2. Port!Says(c, r, Pending, Pending) /\ calls'[c].req = r
    BY <1>1, <2>1
  <2> QED
    BY <1>0, <1>3, <2>2, SameWords DEF Start, Port!Start, Port!store, service
<1> QED
  BY <1>2, <1>3

\* An upload is admitted as the interface admits it, under an etag of its own.
LEMMA UploadIsServed ==
  ASSUME Ready, NEW c \in Callers, stage[c] = "put", NEW n \in 0..PutLimit(calls[c].req),
         Uploaded(c, n), Port!Applied(c, calls[c].req, Stored(lastEtag', n))
  PROVE  Port!Serve(c)
<1> DEFINE r == calls[c].req
<1>1. /\ r \in PutRequest /\ r.op = "put" /\ ~Port!Illegal(r) /\ ~r.bodyFails /\ Port!InFlight(c)
      /\ [d \in Callers |-> calls[d].ans][c] = Pending
  BY WaitingIsUndecided, RequestKinds DEF Ready, Typed, CallsTyped, Fits
<1>2. Port!Admitted(r, objects[r.key])
  BY <1>1, SameWords DEF Uploaded, ConditionsHold, Port!Admitted
<1>3. /\ lastEtag' \in Etag \ (1..lastEtag)
      /\ (1..lastEtag)' = (1..lastEtag) \cup {lastEtag'}
      /\ {} = {} \cup ({lastEtag'} \cap (1..lastEtag))
  BY MaxEtagAssumption DEF Uploaded, Etag, NoEtag, Ready, Typed, StoreTyped
<1>4. n \in 0..Port!Limit(r)
  BY SameWords DEF PutLimit, Port!Limit
<1>5. objects' = [objects EXCEPT ![r.key] = [etag |-> lastEtag', size |-> n]]
  BY DEF Uploaded
<1>6. Port!PutEffect(c, r)
  BY <1>1, <1>2, <1>3, <1>4, <1>5, SameWords DEF Port!PutEffect
<1> QED
  BY <1>1, <1>6, SameWords DEF Port!Serve, Port!Effect

LEMMA PutIsServed ==
  ASSUME Ready, NEW c \in Callers,
         PutDone(c) \/ PutRefused(c) \/ PutFails(c) \/ PutResent(c)
  PROVE  Port!Serve(c) \/ Port!Tell(c) \/ UNCHANGED Port!vars
<1> DEFINE r == calls[c].req
<1>1. /\ stage[c] = "put" /\ Typed /\ r \in PutRequest /\ r.op = "put" /\ LegalPut(r)
      /\ "BlobStoreError" \in {"BlobStoreError", "OtherError"}
  BY RequestKinds DEF PutDone, PutRefused, PutFails, PutResent, Ready, Typed, CallsTyped, Fits
<1>2. CASE PutDone(c)
  <2>1. PICK n \in 0..PutLimit(r) : Uploaded(c, n) /\ Settle(c, Stored(lastEtag', n))
    BY <1>2 DEF PutDone
  <2>2. Stored(lastEtag', n) \in Answer \ {Pending}
    BY <1>1, <2>1, UploadedTyped, AnswersKnown
  <2> QED
    BY <1>1, <2>1, <2>2, SettleAnswers, UploadIsServed
<1>3. CASE PutFails(c)
  <2>1. CASE UNCHANGED service
    BY <1>1, <1>3, <2>1, LostIsTold DEF PutFails, Fail
  <2>2. CASE \E n \in 0..PutLimit(r) : Uploaded(c, n)
    BY <1>1, <1>3, <2>2, FailLoses, UploadIsServed DEF PutFails, Fail
  <2> QED
    BY <1>3, <2>1, <2>2 DEF PutFails
<1>4. CASE PutRefused(c)
  <2>0. UNCHANGED service
    BY <1>4 DEF PutRefused
  <2>1. PICK status \in PutStatus(c) :
           \/ status \in {409, 412} /\ r.createOnly /\ Settle(c, Refused("exists"))
           \/ Send(c, "propertiesAfterPut")
           \/ status = 404 /\ r.ifMatch # NoEtag /\ Settle(c, Refused("missing"))
           \/ Fail(c)
    BY <1>4 DEF PutRefused
  <2>2. CASE status \in {409, 412} /\ r.createOnly /\ Settle(c, Refused("exists"))
    <3>1. Port!RefusedFor("exists", r, objects[r.key])
      BY <1>1, <2>2, SameWords DEF PutStatus, ConditionsHold, LegalPut, Ready, ContainerKept, Port!RefusedFor
    <3> QED
      BY <1>1, <2>0, <2>2, <3>1, RefusedIsServed, AnswersKnown
  <2>3. CASE Send(c, "propertiesAfterPut")
    BY <2>0, <2>3 DEF Send, service, Port!vars
  <2>4. CASE status = 404 /\ r.ifMatch # NoEtag /\ Settle(c, Refused("missing"))
    <3>1. Port!RefusedFor("missing", r, objects[r.key])
      <4>1. container = "absent"
        BY <2>4 DEF PutStatus
      <4>2. r.key \in Keys
        BY <1>1 DEF PutRequest
      <4> QED
        BY <2>4, <4>1, <4>2, SameWords DEF Ready, ContainerKept, Port!RefusedFor
    <3> QED
      BY <1>1, <2>0, <2>4, <3>1, RefusedIsServed, AnswersKnown
  <2>5. CASE Fail(c)
    BY <1>1, <2>0, <2>5, LostIsTold DEF Fail
  <2> QED
    BY <2>1, <2>2, <2>3, <2>4, <2>5
<1>5. CASE PutResent(c)
  BY <1>1, <1>5, ResendSays, UploadIsServed DEF PutResent
<1> QED
  BY <1>2, <1>3, <1>4, <1>5

LEMMA ReadIsServed ==
  ASSUME Ready, NEW c \in Callers, NotReady(c) \/ Read(c) \/ ReadFails(c)
  PROVE  Port!Serve(c) \/ Port!Tell(c)
<1> DEFINE r == calls[c].req
           o == objects[r.key]
<1>1. Typed /\ stage[c] # "nothing" /\ UNCHANGED service
  BY DEF Ready, NotReady, Read, ReadFails, ReadStages
<1>2. CASE NotReady(c) \/ ReadFails(c)
  BY <1>1, <1>2, LostIsTold DEF NotReady, ReadFails, Fail
<1>3. r \in Request /\ r.key \in Keys
  BY <1>1, WaitingIsUndecided, RequestKinds
<1>4. o # NoObject => o \in Object
  BY <1>1, <1>3 DEF Typed, StoreTyped
<1>5. CASE Read(c) /\ stage[c] \in {"get", "head"}
  <2>1. r.op \in {"get", "head"}
    BY <1>5 DEF Ready, Typed, CallsTyped, Fits
  <2>2. Settle(c, IF o = NoObject THEN Absent ELSE Found(o))
    BY <1>5 DEF Read
  <2>3. (IF o = NoObject THEN Absent ELSE Found(o)) \in Answer \ {Pending}
    BY <1>4, AnswersKnown
  <2>4. Port!Answered(c, r, IF o = NoObject THEN Absent ELSE Found(o))
    BY <1>1, <2>2, <2>3, SettleAnswers
  <2>5. Port!ReadEffect(c, r)
    BY <1>1, <2>1, <2>4, SameWords DEF Port!ReadEffect, Port!store, service
  <2> QED
    BY <1>1, <2>5, SameWords, WaitingIsUndecided DEF Port!Serve, Port!Effect
<1>6. CASE Read(c) /\ stage[c] \in Asking
  <2>1. r.op \in {"put", "delete"} /\ r.ifMatch # NoEtag
    BY <1>6 DEF Ready, Typed, CallsTyped, Fits, Asking
  <2>2. Settle(c, Refused(IF o = NoObject THEN "missing" ELSE "changed"))
    BY <1>6 DEF Read, Asking
  <2>3. o = NoObject \/ o.etag # r.ifMatch
    BY <1>6 DEF Ready, Outdated
  <2>4. CASE o = NoObject
    <3>1. Port!RefusedFor("missing", r, objects[r.key])
      BY <2>1, <2>4, SameWords DEF Port!RefusedFor
    <3> QED
      BY <1>1, <2>1, <2>2, <2>4, <3>1, RefusedIsServed, AnswersKnown
  <2>5. CASE o # NoObject
    <3>1. Port!RefusedFor("changed", r, objects[r.key])
      BY <2>1, <2>3, <2>5, SameWords DEF Port!RefusedFor
    <3> QED
      BY <1>1, <2>1, <2>2, <2>5, <3>1, RefusedIsServed, AnswersKnown
  <2> QED
    BY <2>4, <2>5
<1> QED
  BY <1>2, <1>5, <1>6 DEF Read, ReadStages, Asking

LEMMA DeleteIsServed ==
  ASSUME Ready, NEW c \in Callers,
         DeleteDone(c) \/ DeleteRefused(c) \/ DeleteFails(c) \/ DeleteResent(c)
  PROVE  Port!Serve(c) \/ Port!Tell(c) \/ UNCHANGED Port!vars
<1> DEFINE r == calls[c].req
<1>1. Typed /\ stage[c] = "delete" /\ r.op = "delete"
  BY DEF DeleteDone, DeleteRefused, DeleteFails, DeleteResent, Ready, Typed, CallsTyped, Fits
<1>2. ASSUME Removed(c), Port!Applied(c, r, Deleted)
      PROVE  Port!Serve(c)
  <2>1. Port!Admitted(r, objects[r.key])
    BY <1>1, <1>2, SameWords DEF Removed, Port!Admitted
  <2>2. (1..lastEtag)' = 1..lastEtag
    BY <1>2 DEF Removed
  <2>3. Port!DeleteEffect(c, r)
    BY <1>1, <1>2, <2>1, <2>2, SameWords DEF Removed, Port!DeleteEffect
  <2> QED
    BY <1>1, <2>3, SameWords, WaitingIsUndecided DEF Port!Serve, Port!Effect
<1>3. CASE DeleteDone(c)
  BY <1>1, <1>2, <1>3, SettleAnswers, AnswersKnown DEF DeleteDone
<1>4. CASE DeleteFails(c)
  BY <1>1, <1>2, <1>4, LostIsTold, FailLoses DEF DeleteFails, Fail
<1>5. CASE DeleteRefused(c)
  <2>0. UNCHANGED service
    BY <1>5 DEF DeleteRefused
  <2>1. CASE objects[r.key] = NoObject /\ Settle(c, Refused("missing"))
    <3>1. Port!RefusedFor("missing", r, objects[r.key])
      BY <1>1, <2>1, SameWords DEF Port!RefusedFor
    <3> QED
      BY <1>1, <2>0, <2>1, <3>1, RefusedIsServed, AnswersKnown
  <2>2. CASE Send(c, "propertiesAfterDelete")
    BY <2>0, <2>2 DEF Send, service, Port!vars
  <2> QED
    BY <1>5, <2>1, <2>2 DEF DeleteRefused
<1>6. CASE DeleteResent(c)
  BY <1>1, <1>2, <1>6, ResendSays DEF DeleteResent
<1> QED
  BY <1>3, <1>4, <1>5, <1>6

LEMMA StepIsPortStep ==
  ASSUME Ready, [Next]_vars
  PROVE  [Port!Next]_(Port!vars)
<1>1. ASSUME NEW c \in Callers, PutThrows(c) \/ Start(c) PROVE Port!Next
  BY <1>1, StartIsStart DEF Port!Next
<1>2. ASSUME NEW c \in Callers, Serve(c) PROVE Port!Next \/ UNCHANGED Port!vars
  BY <1>2, PutIsServed, ReadIsServed, DeleteIsServed DEF Serve, Port!Next
<1>3. CASE ContainerDeleting
  BY <1>3, SameWords DEF ContainerDeleting, Port!Perish, Port!Next
<1>4. CASE Created \/ CreationFails \/ ContainerDeleted \/ UNCHANGED vars
  BY <1>4 DEF Created, CreationFails, ContainerDeleted, service, vars, Port!vars
<1> QED
  BY <1>1, <1>2, <1>3, <1>4 DEF Next

LEMMA ReadyInit == Init => Ready
BY TypedInit DEF Init, NoCall, NoRequest, Absent, Pending, Ready, EtagsKnown, Outdated, ContainerKept, Asking

LEMMA InitIsPortInit == Init => Port!Init
BY SameWords DEF Init, Port!Init, NoCall, NoEtag

\* The adapter keeps the promise of the BlobStore interface: every call takes
\* effect at one moment, whatever ran between the refusal and the request that
\* asks for its reason, and whatever becomes of the container.
THEOREM Implements == Spec => ImplementsBlobStore
BY ReadyInit, ReadyStep, InitIsPortInit, StepIsPortStep, PTL DEF Spec, ImplementsBlobStore, Port!Spec

-------------------------------------------------------------------------------
(***************************************************************************)
(* What is proved of the interface holds of the adapter that implements it. *)
(***************************************************************************)
Interface == INSTANCE BlobStoreProofs
  WITH issued <- 1..lastEtag, cameBack <- {}, decided <- [c \in Callers |-> calls[c].ans],
       Lossy <- TRUE, BlindDelete <- FALSE, EtagsComeBack <- FALSE,
       Resends <- "resend" \in Faults, Perishable <- "container" \in Faults

\* Port and Interface are one module, instantiated alike.
LEMMA SamePort ==
  /\ Port!Init => Interface!Init
  /\ [Port!Next]_(Port!vars) => [Interface!Next]_(Interface!vars)
  /\ Interface!OneWinner => Port!OneWinner
BY DEF Port!Init, Interface!Init, Port!NoCall, Interface!NoCall, Port!NoRequest, Interface!NoRequest,
  Port!OneWinner, Interface!OneWinner, Port!Spends, Interface!Spends,
  Port!Next, Interface!Next, Port!vars, Interface!vars, Port!store, Interface!store,
  Port!Start, Interface!Start, Port!StartAndServe, Interface!StartAndServe,
  Port!Serve, Interface!Serve, Port!Tell, Interface!Tell, Port!Perish, Interface!Perish,
  Port!InFlight, Interface!InFlight, Port!Effect, Interface!Effect,
  Port!PutEffect, Interface!PutEffect, Port!DeleteEffect, Interface!DeleteEffect,
  Port!RefuseEffect, Interface!RefuseEffect, Port!ReadEffect, Interface!ReadEffect,
  Port!ThrowEffect, Interface!ThrowEffect, Port!Applied, Interface!Applied,
  Port!Answered, Interface!Answered, Port!Says, Interface!Says, Port!Lost, Interface!Lost,
  Port!Admitted, Interface!Admitted, Port!RefusedFor, Interface!RefusedFor,
  Port!Illegal, Interface!Illegal, Port!Limit, Interface!Limit,
  Port!Request, Interface!Request, Port!PutRequest, Interface!PutRequest,
  Port!DeleteRequest, Interface!DeleteRequest, Port!ReadRequest, Interface!ReadRequest,
  Port!Etag, Interface!Etag, Port!NoEtag, Interface!NoEtag, Port!Unset, Interface!Unset,
  Port!Pending, Interface!Pending, Port!Stored, Interface!Stored, Port!Deleted, Interface!Deleted,
  Port!Found, Interface!Found, Port!Absent, Interface!Absent, Port!Refused, Interface!Refused,
  Port!Thrown, Interface!Thrown, Port!Reasons, Interface!Reasons, Port!Errors, Interface!Errors

\* The promise is about the constants of this store, whose assumptions it shares.
LEMMA InterfaceKept ==
  /\ Interface!Init => Interface!Inv
  /\ Interface!Inv /\ [Interface!Next]_(Interface!vars) => (Interface!Inv)'
  /\ Interface!Inv => Interface!OneWinner
BY Interface!InvInit, Interface!InvStep, CallersAssumption, KeysAssumption, MaxObjectBytesAssumption,
   MaxEtagAssumption, MaxBytesAssumption, NoObjectAssumption
   DEF Interface!Inv, Interface!Object, Interface!Etag, Interface!Size, Object, Etag, Size

\* Of two calls that name one version in ifMatch, one at most is told that it
\* replaced or deleted it, even if the container was deleted and created again
\* in between.
THEOREM OneWinnerHolds == Spec => []OneWinner
<1>1. Init => Interface!Inv
  BY InitIsPortInit, SamePort, InterfaceKept
<1>2. Ready /\ Interface!Inv /\ [Next]_vars => (Interface!Inv)'
  BY StepIsPortStep, SamePort, InterfaceKept
<1>3. Interface!Inv => OneWinner
  BY SamePort, InterfaceKept DEF OneWinner
<1> QED
  BY <1>1, <1>2, <1>3, ReadyInit, ReadyStep, PTL DEF Spec
===============================================================================
