----------------------------- MODULE AzureBlobStore ----------------------------
(***************************************************************************)
(* createAzureBlobStore over a blob container.  Every call first awaits    *)
(* ready(), which creates the container once: the callers that come while  *)
(* the creation is under way share its promise, a success is remembered,   *)
(* a failure is not.  Conditions are the service's own, so a call is one   *)
(* request, and getProperties after a 409 or 412 to tell why.              *)
(*                                                                         *)
(* One action is one request: the service serves it atomically and the     *)
(* adapter handles the reply up to its next request or its answer.  The    *)
(* service is external: it is modelled by the replies the adapter tells    *)
(* apart (isStatus): done, 404, 409, 412, any other failure.               *)
(*                                                                         *)
(* A definition marked "slip" is used nowhere: put in the place of the one *)
(* below it, it is the mistake that a property is there to catch.          *)
(***************************************************************************)
EXTENDS BlobPort, FiniteSets

CONSTANTS
  CreateIfMissing,  \* createContainerIfMissing
  Faults            \* the faults that may happen

ASSUME CreateIfMissingAssumption == CreateIfMissing \in BOOLEAN
ASSUME FaultsAssumption == Faults \subseteq {"body", "service", "resend", "container"}
\* "body":      readBlobBody rejects
\* "service":   a request fails, applied or not (5xx, timeout, lost response)
\* "resend":    the client sends again an upload or delete whose response was
\*             lost, as its retry policy does by default
\* "container": the container's owner deletes it, which takes a while

VARIABLES
  objects,          \* service: the object at each key of the container
  lastEtag,         \* service: the last etag given out
  container,        \* service: "absent", "present" or "deleting"
  ensure,           \* adapter: ensureContainer: "unset", "creating" or "created"
  calls,            \* calls[c]: the request of call c and its answer
  stage,            \* stage[c]: what call c waits for
  creations         \* history: createIfNotExists requests under way

vars == <<objects, lastEtag, container, ensure, calls, stage, creations>>

service == <<objects, lastEtag, container>>

Stages == {"nothing", "ready", "rejected", "put", "get", "head", "delete",
           "propertiesAfterPut", "propertiesAfterDelete"}

TypeOK ==
  /\ objects \in [Keys -> Object \cup {NoObject}]
  /\ lastEtag \in Etag \cup {NoEtag}
  /\ container \in {"absent", "present", "deleting"}
  /\ ensure \in {"unset", "creating", "created"}
  /\ calls \in [Callers -> Call]
  /\ stage \in [Callers -> Stages]
  /\ creations \in Nat

Init ==
  /\ objects = [k \in Keys |-> NoObject]
  /\ lastEtag = NoEtag
  /\ container \in {"absent", "present"}
  /\ ensure = "unset"
  /\ calls = [c \in Callers |-> NoCall]
  /\ stage = [c \in Callers |-> "nothing"]
  /\ creations = 0

-------------------------------------------------------------------------------
InFlight(c) == calls[c].ans = Pending

Settle(c, a) ==
  /\ calls' = [calls EXCEPT ![c].ans = a]
  /\ stage' = [stage EXCEPT ![c] = "nothing"]

Send(c, s) == stage' = [stage EXCEPT ![c] = s] /\ UNCHANGED calls

Fail(c) == Settle(c, Thrown("BlobStoreError"))

OffByOneLimit(r) == IF r.maxBytes = Unset THEN MaxObjectBytes + 1 ELSE r.maxBytes  \* slip

PutLimit(r) == IF r.maxBytes = Unset THEN MaxObjectBytes ELSE r.maxBytes

LegalPut(r) ==
  /\ ~(r.createOnly /\ r.ifMatch # NoEtag)
  /\ r.maxBytes = Unset \/ r.maxBytes \in 0..MaxObjectBytes

\* Callers pass the etags they were given.
KnownEtag(r) == r.op \in {"put", "delete"} => r.ifMatch \in 0..lastEtag

\* Bound: the puts in flight find an etag left each.
EtagsLeft ==
  lastEtag + Cardinality({c \in Callers : InFlight(c) /\ calls[c].req.op = "put"}) < MaxEtag

\* A put whose options or body are at fault throws before anything is sent.
PutThrows(c) ==
  /\ ~InFlight(c)
  /\ \E r \in PutRequest, x \in Errors :
       /\ KnownEtag(r) /\ (r.bodyFails => "body" \in Faults)
       /\ IF LegalPut(r) THEN r.bodyFails ELSE x = "BlobValidationError"
       /\ calls' = [calls EXCEPT ![c] = [req |-> r, ans |-> Thrown(x)]]
  /\ UNCHANGED <<service, ensure, stage, creations>>

-------------------------------------------------------------------------------
(***************************************************************************)
(* ready                                                                   *)
(***************************************************************************)
PromiseNotShared(promise) == promise # "created"    \* slip

\* May a call that finds the promise in this state start a creation?
StartsCreation(promise) == promise = "unset"

\* What a call waits for that awaits the promise in this state: its own operation op,
\* the creation, or the rejection that a promise which was rejected answers it with.
Awaits(promise, op) ==
  CASE promise = "created"  -> op
    [] promise = "creating" -> "ready"
    [] promise = "rejected" -> "rejected"

\* A call reaches ready(): it goes on, waits for the creation, or starts it.
Start(c) ==
  /\ ~InFlight(c)
  /\ \E r \in Request :
       /\ KnownEtag(r)
       /\ r.op = "put" => LegalPut(r) /\ ~r.bodyFails /\ EtagsLeft
       /\ calls' = [calls EXCEPT ![c] = [req |-> r, ans |-> Pending]]
       /\ IF CreateIfMissing /\ StartsCreation(ensure)
          THEN ensure' = "creating" /\ creations' = creations + 1
          ELSE UNCHANGED <<ensure, creations>>
       /\ stage' = [stage EXCEPT ![c] =
                      IF CreateIfMissing THEN Awaits(ensure', r.op) ELSE r.op]
  /\ UNCHANGED service

Waiting == {c \in Callers : stage[c] = "ready"}

\* createIfNotExists is answered: whoever waits for the promise goes on.
Created ==
  /\ creations > 0
  /\ container # "deleting"
  /\ container' = "present"
  /\ ensure' = "created"
  /\ creations' = creations - 1
  /\ stage' = [c \in Callers |-> IF c \in Waiting THEN calls[c].req.op ELSE stage[c]]
  /\ UNCHANGED <<objects, lastEtag, calls>>

FailureRemembered == "rejected"                     \* slip

\* What a failed creation leaves in ensureContainer.
AfterFailure == "unset"

NobodyRejected == {}                                \* slip: a promise that only resolves

\* Those whom a failed creation rejects.
Rejected == Waiting

\* It fails: the next call tries again, and all who wait are rejected.
CreationFails ==
  /\ creations > 0
  /\ "service" \in Faults \/ container = "deleting"
  /\ ensure' = AfterFailure
  /\ creations' = creations - 1
  /\ stage' = [c \in Callers |-> IF c \in Rejected THEN "rejected" ELSE stage[c]]
  /\ UNCHANGED <<service, calls>>

\* They wake up one by one, each with the error as it is.
NotReady(c) ==
  /\ stage[c] = "rejected"
  /\ Settle(c, Thrown("OtherError"))
  /\ UNCHANGED <<service, ensure, creations>>

-------------------------------------------------------------------------------
(***************************************************************************)
(* put                                                                     *)
(***************************************************************************)
Conditional(r) == r.createOnly \/ r.ifMatch # NoEtag

NoConditions(c) == TRUE                             \* slip

\* The conditions of an upload.
ConditionsHold(c) ==
  LET r == calls[c].req
      o == objects[r.key]
  IN  /\ r.createOnly => o = NoObject
      /\ r.ifMatch # NoEtag => o # NoObject /\ o.etag = r.ifMatch

Uploaded(c, n) ==
  /\ container = "present"
  /\ ConditionsHold(c)
  /\ lastEtag < MaxEtag
  /\ lastEtag' = lastEtag + 1
  /\ objects' = [objects EXCEPT ![calls[c].req.key] = [etag |-> lastEtag', size |-> n]]
  /\ UNCHANGED container

PutDone(c) ==
  /\ stage[c] = "put"
  /\ \E n \in 0..PutLimit(calls[c].req) : Uploaded(c, n) /\ Settle(c, Stored(lastEtag', n))
  /\ UNCHANGED <<ensure, creations>>

\* The refusals of an upload: its conditions, or the container on its way out.
PutStatus(c) ==
  {status \in {404, 409, 412} :
     \/ container = "present" /\ ~ConditionsHold(c) /\ status \in {409, 412}
     \/ container = "deleting" /\ status = 409
     \/ container = "absent" /\ status = 404}

\* 409 and 412 are told apart neither from each other nor by their error code.
PutRefused(c) ==
  LET r == calls[c].req
  IN  /\ stage[c] = "put"
      /\ \E status \in PutStatus(c) :
           \/ status \in {409, 412} /\ r.createOnly /\ Settle(c, Refused("exists"))
           \/ status \in {409, 412} /\ r.ifMatch # NoEtag /\ Send(c, "propertiesAfterPut")
           \/ status = 404 /\ r.ifMatch # NoEtag /\ Settle(c, Refused("missing"))
           \/ status = 404 /\ r.ifMatch = NoEtag /\ Fail(c)
           \/ status # 404 /\ ~Conditional(r) /\ Fail(c)
      /\ UNCHANGED <<service, ensure, creations>>

PutFails(c) ==
  /\ stage[c] = "put"
  /\ "service" \in Faults
  /\ Fail(c)
  /\ UNCHANGED service \/ \E n \in 0..PutLimit(calls[c].req) : Uploaded(c, n)
  /\ UNCHANGED <<ensure, creations>>

\* The response is lost and the client sends the upload again, conditions and all: the
\* adapter notices nothing, and what the resend is refused for is what it answers.
PutResent(c) ==
  /\ "resend" \in Faults
  /\ stage[c] = "put"
  /\ \E n \in 0..PutLimit(calls[c].req) : Uploaded(c, n)
  /\ UNCHANGED <<ensure, calls, stage, creations>>

-------------------------------------------------------------------------------
(***************************************************************************)
(* get, head, and getProperties after a refused put or delete              *)
(***************************************************************************)
ReadStages == {"get", "head", "propertiesAfterPut", "propertiesAfterDelete"}

Read(c) ==
  LET o == objects[calls[c].req.key]
  IN  /\ stage[c] \in ReadStages
      /\ container # "deleting"
      /\ Settle(c, IF stage[c] \in {"get", "head"}
                   THEN IF o = NoObject THEN Absent ELSE Found(o)
                   ELSE Refused(IF o = NoObject THEN "missing" ELSE "changed"))
      /\ UNCHANGED <<service, ensure, creations>>

ReadFails(c) ==
  /\ stage[c] \in ReadStages
  /\ "service" \in Faults \/ container = "deleting"
  /\ Fail(c)
  /\ UNCHANGED <<service, ensure, creations>>

-------------------------------------------------------------------------------
(***************************************************************************)
(* delete                                                                  *)
(***************************************************************************)
Removed(c) ==
  LET r == calls[c].req
      o == objects[r.key]
  IN  /\ container = "present"
      /\ o # NoObject /\ (r.ifMatch # NoEtag => o.etag = r.ifMatch)
      /\ objects' = [objects EXCEPT ![r.key] = NoObject]
      /\ UNCHANGED <<lastEtag, container>>

DeleteDone(c) ==
  /\ stage[c] = "delete"
  /\ Removed(c)
  /\ Settle(c, Deleted)
  /\ UNCHANGED <<ensure, creations>>

\* A blob that is gone is 404, or under If-Match often 412 like a changed one.
DeleteRefused(c) ==
  LET r == calls[c].req
      o == objects[r.key]
  IN  /\ stage[c] = "delete"
      /\ container # "deleting"
      /\ \/ o = NoObject /\ Settle(c, Refused("missing"))
         \/ /\ r.ifMatch # NoEtag /\ container = "present"
            /\ ~(o # NoObject /\ o.etag = r.ifMatch)
            /\ Send(c, "propertiesAfterDelete")
      /\ UNCHANGED <<service, ensure, creations>>

DeleteFails(c) ==
  /\ stage[c] = "delete"
  /\ Fail(c)
  /\ \/ ("service" \in Faults \/ container = "deleting") /\ UNCHANGED service
     \/ "service" \in Faults /\ Removed(c)
  /\ UNCHANGED <<ensure, creations>>

\* The response is lost and the client sends the delete again.
DeleteResent(c) ==
  /\ "resend" \in Faults
  /\ stage[c] = "delete"
  /\ Removed(c)
  /\ UNCHANGED <<ensure, calls, stage, creations>>

-------------------------------------------------------------------------------
\* The owner deletes the container and all in it; its name is free later on.
ContainerDeleting ==
  /\ "container" \in Faults
  /\ container = "present"
  /\ container' = "deleting"
  /\ objects' = [k \in Keys |-> NoObject]
  /\ UNCHANGED <<lastEtag, ensure, calls, stage, creations>>

ContainerDeleted ==
  /\ container = "deleting"
  /\ container' = "absent"
  /\ UNCHANGED <<objects, lastEtag, ensure, calls, stage, creations>>

Serve(c) ==
  \/ NotReady(c)
  \/ PutDone(c) \/ PutRefused(c) \/ PutFails(c) \/ PutResent(c)
  \/ Read(c) \/ ReadFails(c)
  \/ DeleteDone(c) \/ DeleteRefused(c) \/ DeleteFails(c) \/ DeleteResent(c)

Next ==
  \/ \E c \in Callers : PutThrows(c) \/ Start(c) \/ Serve(c)
  \/ Created
  \/ CreationFails
  \/ ContainerDeleting
  \/ ContainerDeleted

\* The service answers every request, if only with a failure.
Spec == /\ Init /\ [][Next]_vars
        /\ WF_vars(Created \/ CreationFails)
        /\ \A c \in Callers : WF_vars(Serve(c))

-------------------------------------------------------------------------------
(***************************************************************************)
(* Properties                                                              *)
(***************************************************************************)
\* Callers that start together create the container once: there is never more
\* than one creation under way, whatever failed before.  Those it holds back are
\* the callers that share its promise, and none goes on before one succeeded.
OneCreation ==
  /\ creations <= 1
  /\ ensure = "creating" <=> Waiting # {}
  /\ CreateIfMissing /\ ensure # "created" =>
       \A c \in Callers : stage[c] \in {"nothing", "ready", "rejected"}

\* No caller is left waiting for a promise that is gone: every call is answered,
\* whether the creation it shares succeeds or fails.
CallsAreAnswered == \A c \in Callers : InFlight(c) ~> ~InFlight(c)

\* A failed creation does not poison the store: "a cached rejection would replay the
\* original failure on every operation for the lifetime of the store".  As long as calls
\* come, a creation that can succeed does so some time, and a container that is being
\* deleted is gone some time, the container is there at last, whatever failed before.
StoreRecovers ==
  /\ CreateIfMissing
  /\ []<><<\E c \in Callers : Start(c)>>_vars
  /\ SF_vars(Created) /\ WF_vars(ContainerDeleted)
  => <>(ensure = "created")

\* How often a call can still be answered before its caller is: by the creation
\* it shares, by its own operation, and by getProperties after a refusal.
AnswersLeft(s) ==
  CASE s = "nothing" -> 0
    [] s \in {"get", "head", "rejected", "propertiesAfterPut", "propertiesAfterDelete"} -> 1
    [] s \in {"put", "delete"} -> 2
    [] s = "ready" -> 3

\* A call under way only ever gets nearer to its answer: it does not wait for the
\* container twice, nor ask for another request, whatever the other callers do (what
\* the client sends again it sends for the same one).
CallsRunOut ==
  [][\A c \in Callers : InFlight(c) /\ stage'[c] # stage[c] =>
       AnswersLeft(stage'[c]) < AnswersLeft(stage[c])]_vars

\* Every call takes effect at one moment, as the interface promises; an error
\* may hide an effect, but a delete, done by the service, is never blind.  A put or
\* delete that is sent again may be refused for its own first effect: 'exists', 'missing'
\* and 'changed' are true of the key then, as they are after the lost answer.  The
\* owner may delete all that the container holds.
Port == INSTANCE BlobStore WITH issued <- 1..lastEtag,
                                decided <- [c \in Callers |-> calls[c].ans],
                                Lossy <- TRUE, BlindDelete <- FALSE, EtagsComeBack <- FALSE,
                                Resends <- "resend" \in Faults,
                                Perishable <- "container" \in Faults,
                                cameBack <- {}

ImplementsBlobStore == Port!Spec

\* Two calls that name one version in ifMatch do not both win it: a container that
\* is deleted and created again does not give its etags out again.
OneWinner == Port!OneWinner

\* A create-only put that is told "exists" found the key taken.
ExistsMeansTaken ==
  [][\A c \in Callers : stage[c] = "put" /\ calls'[c].ans = Refused("exists") =>
       objects[calls[c].req.key] # NoObject]_vars
===============================================================================
