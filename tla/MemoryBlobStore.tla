---------------------------- MODULE MemoryBlobStore ----------------------------
(***************************************************************************)
(* createMemoryBlobStore: the in-process reference store.  JavaScript runs *)
(* one callback at a time, so get, head and delete are single steps.  put  *)
(* is two: it checks its conditions, awaits its body, and checks them      *)
(* again before it commits.  Every other call may run during that await.   *)
(*                                                                         *)
(* versions is a history variable: entry n is the n-th successful put,     *)
(* what it replaced and what became of it.  No guard reads it.             *)
(*                                                                         *)
(* A definition marked "slip" is used nowhere: put in the place of the one *)
(* below it, it is the mistake that a property is there to catch.          *)
(***************************************************************************)
EXTENDS BlobPort, Sequences

VARIABLES
  objects,          \* the Map: objects[k] is the object at k, or NoObject
  etagGeneration,   \* the counter nextEtag increments
  calls,            \* calls[c]: the request of call c and its answer
  versions          \* history: every version stored, in order

vars == <<objects, etagGeneration, calls, versions>>

Fates == {"live", "replaced", "deleted"}

Version == [key : Keys, etag : Etag, size : Size, createOnly : BOOLEAN,
            ifMatch : Etag \cup {NoEtag}, over : Etag \cup {NoEtag}, fate : Fates]

TypeOK ==
  /\ objects \in [Keys -> Object \cup {NoObject}]
  /\ etagGeneration \in 0..MaxEtag
  /\ calls \in [Callers -> Call]
  /\ versions \in Seq(Version)

Init ==
  /\ objects = [k \in Keys |-> NoObject]
  /\ etagGeneration = 0
  /\ calls = [c \in Callers |-> NoCall]
  /\ versions = <<>>

-------------------------------------------------------------------------------
InFlight(c) == calls[c].ans = Pending

OffByOneLimit(r) == IF r.maxBytes = Unset THEN MaxObjectBytes + 1 ELSE r.maxBytes  \* slip

\* assertMaxBytes: the ceiling of one put, when its maxBytes is legal.
PutLimit(r) == IF r.maxBytes = Unset THEN MaxObjectBytes ELSE r.maxBytes

LegalMaxBytes(r) == r.maxBytes = Unset \/ r.maxBytes \in 0..MaxObjectBytes

LegalPut(r) ==
  /\ ~(r.createOnly /\ r.ifMatch # NoEtag)
  /\ LegalMaxBytes(r)

\* The reason the existence conditions of a put give for refusing it now, if any.
PutRefusals(r) ==
  LET o == objects[r.key]
  IN  {reason \in Reasons :
         \/ reason = "exists"  /\ r.createOnly /\ o # NoObject
         \/ reason = "missing" /\ r.ifMatch # NoEtag /\ o = NoObject
         \/ reason = "changed" /\ r.ifMatch # NoEtag /\ o # NoObject
                               /\ o.etag # r.ifMatch}

NotCheckedAgain(r) == {}                            \* slip

\* The conditions as they stand after the await of the body.
PutRefusalsNow(r) == PutRefusals(r)

DeleteRefusals(r) ==
  LET o == objects[r.key]
  IN  {reason \in Reasons :
         \/ reason = "missing" /\ o = NoObject
         \/ reason = "changed" /\ r.ifMatch # NoEtag /\ o # NoObject
                               /\ o.etag # r.ifMatch}

ThrowsOnRace(reason) == Thrown("BlobStoreError")    \* slip

\* How a put that lost a race while its body was being read is answered.
LostRace(reason) == Refused(reason)

Answered(c, r, a) == calls' = [calls EXCEPT ![c] = [req |-> r, ans |-> a]]

\* slip: the counter starts over with an empty Map
EtagOfTheMap == IF \A k \in Keys : objects[k] = NoObject THEN 1 ELSE etagGeneration + 1

\* Bound: a put finds an etag left.
EtagLeft == etagGeneration < MaxEtag

\* nextEtag
NextEtag == etagGeneration + 1

\* What ends with a put or delete at key k: the version that was live there.
Ended(k, fate) ==
  [n \in DOMAIN versions |->
     IF versions[n].key = k /\ versions[n].fate = "live"
     THEN [versions[n] EXCEPT !.fate = fate]
     ELSE versions[n]]

EtagAt(k) == IF objects[k] = NoObject THEN NoEtag ELSE objects[k].etag

-------------------------------------------------------------------------------
(***************************************************************************)
(* put                                                                     *)
(***************************************************************************)
\* Illegal options throw before anything is read.
PutRejected(c, r) ==
  /\ ~LegalPut(r)
  /\ Answered(c, r, Thrown("BlobValidationError"))
  /\ UNCHANGED <<objects, etagGeneration, versions>>

\* A refusal known before the body is read leaves the body alone.
PutRefusedEarly(c, r) ==
  /\ LegalPut(r)
  /\ \E reason \in PutRefusals(r) : Answered(c, r, Refused(reason))
  /\ UNCHANGED <<objects, etagGeneration, versions>>

\* Otherwise the put awaits readBlobBody.
PutAwaitsBody(c, r) ==
  /\ LegalPut(r)
  /\ PutRefusals(r) = {}
  /\ Answered(c, r, Pending)
  /\ UNCHANGED <<objects, etagGeneration, versions>>

PutStart(c) ==
  /\ ~InFlight(c)
  /\ EtagLeft
  /\ \E r \in PutRequest :
       PutRejected(c, r) \/ PutRefusedEarly(c, r) \/ PutAwaitsBody(c, r)

\* readBlobBody rejects: too large, an illegal chunk, or a failing stream.
PutBodyFailed(c) ==
  /\ InFlight(c) /\ calls[c].req.bodyFails
  /\ \E x \in Errors : Answered(c, calls[c].req, Thrown(x))
  /\ UNCHANGED <<objects, etagGeneration, versions>>

\* The body is read, but another call got in between.
PutRefusedLate(c) ==
  /\ InFlight(c) /\ ~calls[c].req.bodyFails
  /\ \E reason \in PutRefusalsNow(calls[c].req) :
       Answered(c, calls[c].req, LostRace(reason))
  /\ UNCHANGED <<objects, etagGeneration, versions>>

\* The body is read and the conditions hold: the object is replaced whole.
PutStored(c) ==
  LET r == calls[c].req
  IN  /\ InFlight(c) /\ ~r.bodyFails
      /\ PutRefusalsNow(r) = {}
      /\ EtagLeft
      /\ etagGeneration' = NextEtag
      /\ \E n \in 0..PutLimit(r) :
           /\ objects' = [objects EXCEPT ![r.key] = [etag |-> NextEtag, size |-> n]]
           /\ versions' = Append(Ended(r.key, "replaced"),
                [key |-> r.key, etag |-> NextEtag, size |-> n,
                 createOnly |-> r.createOnly, ifMatch |-> r.ifMatch,
                 over |-> EtagAt(r.key), fate |-> "live"])
           /\ Answered(c, r, Stored(NextEtag, n))

-------------------------------------------------------------------------------
(***************************************************************************)
(* get, head, delete                                                       *)
(***************************************************************************)
Read(c) ==
  /\ ~InFlight(c)
  /\ \E r \in ReadRequest :
       Answered(c, r, IF objects[r.key] = NoObject THEN Absent ELSE Found(objects[r.key]))
  /\ UNCHANGED <<objects, etagGeneration, versions>>

DeleteRefused(c) ==
  /\ ~InFlight(c)
  /\ \E r \in DeleteRequest : \E reason \in DeleteRefusals(r) :
       Answered(c, r, Refused(reason))
  /\ UNCHANGED <<objects, etagGeneration, versions>>

DeleteDone(c) ==
  /\ ~InFlight(c)
  /\ \E r \in DeleteRequest :
       /\ DeleteRefusals(r) = {}
       /\ objects' = [objects EXCEPT ![r.key] = NoObject]
       /\ versions' = Ended(r.key, "deleted")
       /\ Answered(c, r, Deleted)
  /\ UNCHANGED etagGeneration

-------------------------------------------------------------------------------
Next ==
  \E c \in Callers :
    \/ PutStart(c)
    \/ PutBodyFailed(c)
    \/ PutRefusedLate(c)
    \/ PutStored(c)
    \/ Read(c)
    \/ DeleteRefused(c)
    \/ DeleteDone(c)

Spec == Init /\ [][Next]_vars

-------------------------------------------------------------------------------
(***************************************************************************)
(* Properties                                                              *)
(***************************************************************************)
\* An etag is given out once: a version that was replaced or deleted, even
\* with the key free in between, never shares its etag with a later one.
EtagsNeverReused ==
  \A m, n \in DOMAIN versions : versions[m].etag = versions[n].etag => m = n

\* No update is lost: a create-only put replaced nothing, an if-match put
\* replaced exactly the version its caller named, and no version was replaced
\* by two puts, whatever ran while the bodies were being read.
NoLostUpdate ==
  \A n \in DOMAIN versions :
    LET v == versions[n]
    IN  /\ v.createOnly => v.over = NoEtag
        /\ v.ifMatch # NoEtag => v.over = v.ifMatch
        /\ \A m \in DOMAIN versions \ {n} :
             v.over = versions[m].over => v.over = NoEtag

\* Of the create-only puts that race for a key at most one wins: between two
\* that stored, some version of the key was deleted.
CreateOnlyExclusive ==
  \A m, n \in DOMAIN versions :
    /\ m < n
    /\ versions[m].key = versions[n].key
    /\ versions[n].createOnly
    => \E d \in m..(n - 1) :
         versions[d].key = versions[n].key /\ versions[d].fate = "deleted"

\* The store keeps the promise of the BlobStore interface: each call takes effect at
\* one moment, and a race is answered and never thrown: what throws is a put whose
\* options are illegal or whose body cannot be read.
Port == INSTANCE BlobStore WITH issued <- 1..etagGeneration,
                                decided <- [c \in Callers |-> calls[c].ans],
                                Lossy <- FALSE, BlindDelete <- FALSE, EtagsComeBack <- FALSE,
                                Resends <- FALSE, Perishable <- FALSE,
                                cameBack <- {}

ImplementsBlobStore == Port!Spec

\* Two callers that name one version in ifMatch, and reach the synchronous section
\* after the await of the body in whatever order, do not both win.
OneWinner == Port!OneWinner
===============================================================================
