------------------------- MODULE MemoryBlobStoreProofs -------------------------
(***************************************************************************)
(* What is proved of createMemoryBlobStore, for any number of callers and  *)
(* keys, any size limits and any number of etags.                          *)
(***************************************************************************)
EXTENDS MemoryBlobStore, TLAPS

(***************************************************************************)
(* The inductive invariant.  Only legal puts wait for a body, so the limit *)
(* they read it with is the store's or a lower one.                        *)
(***************************************************************************)
PendingPutsAreLegal ==
  \A c \in Callers : InFlight(c) => calls[c].req \in PutRequest /\ LegalPut(calls[c].req)

Typed == TypeOK /\ PendingPutsAreLegal

-------------------------------------------------------------------------------
LEMMA LimitInRange ==
  ASSUME NEW r \in PutRequest, LegalPut(r)
  PROVE  0..PutLimit(r) \subseteq Size
BY MaxObjectBytesAssumption, MaxBytesAssumption
   DEF PutRequest, LegalPut, LegalMaxBytes, PutLimit, Size, Unset

LEMMA AnsweredType ==
  ASSUME TypeOK, NEW c \in Callers, NEW r \in Request, NEW a \in Answer,
         Answered(c, r, a)
  PROVE  calls' \in [Callers -> Call]
BY DEF TypeOK, Answered, Call

LEMMA AnsweredKeepsLegal ==
  ASSUME Typed, NEW c \in Callers, NEW r, NEW a, Answered(c, r, a),
         a # Pending \/ (r \in PutRequest /\ LegalPut(r))
  PROVE  PendingPutsAreLegal'
BY DEF Typed, TypeOK, PendingPutsAreLegal, Answered, InFlight, LegalPut, LegalMaxBytes

LEMMA EndedType ==
  ASSUME versions \in Seq(Version), NEW k, NEW fate \in Fates
  PROVE  /\ Ended(k, fate) \in Seq(Version)
         /\ Len(Ended(k, fate)) = Len(versions)
         /\ DOMAIN Ended(k, fate) = DOMAIN versions
<1>1. DOMAIN versions = 1..Len(versions) /\ Len(versions) \in Nat
  OBVIOUS
<1>2. ASSUME NEW n \in DOMAIN versions
      PROVE  Ended(k, fate)[n] \in Version
  <2>1. versions[n] \in Version
    OBVIOUS
  <2>2. [versions[n] EXCEPT !.fate = fate] \in Version
    BY <2>1 DEF Version
  <2> QED
    BY <2>1, <2>2 DEF Ended
<1>3. Ended(k, fate) \in [1..Len(versions) -> Version]
  BY <1>1, <1>2 DEF Ended
<1> QED
  BY <1>1, <1>3

\* A stored object, its version and the answer to its put are what they should be.
LEMMA PutStoredType ==
  ASSUME Typed, NEW c \in Callers, PutStored(c)
  PROVE  TypeOK' /\ PendingPutsAreLegal'
<1> DEFINE r == calls[c].req
<1>1. r \in PutRequest /\ LegalPut(r) /\ r.key \in Keys
  BY DEF Typed, PendingPutsAreLegal, PutStored, PutRequest
<1>2. NextEtag \in Etag /\ etagGeneration' \in 0..MaxEtag
  BY MaxEtagAssumption DEF Typed, TypeOK, PutStored, EtagLeft, NextEtag, Etag
<1>3. PICK n \in 0..PutLimit(r) :
        /\ objects' = [objects EXCEPT ![r.key] = [etag |-> NextEtag, size |-> n]]
        /\ versions' = Append(Ended(r.key, "replaced"),
             [key |-> r.key, etag |-> NextEtag, size |-> n,
              createOnly |-> r.createOnly, ifMatch |-> r.ifMatch,
              over |-> EtagAt(r.key), fate |-> "live"])
        /\ Answered(c, r, Stored(NextEtag, n))
  BY DEF PutStored
<1>4. n \in Size
  BY <1>1, LimitInRange
<1>5. objects' \in [Keys -> Object \cup {NoObject}]
  BY <1>1, <1>2, <1>3, <1>4 DEF Typed, TypeOK, Object
<1>6. EtagAt(r.key) \in Etag \cup {NoEtag}
  BY <1>1 DEF Typed, TypeOK, EtagAt, Object
<1>7. [key |-> r.key, etag |-> NextEtag, size |-> n,
       createOnly |-> r.createOnly, ifMatch |-> r.ifMatch,
       over |-> EtagAt(r.key), fate |-> "live"] \in Version
  BY <1>1, <1>2, <1>4, <1>6 DEF PutRequest, Version, Fates
<1>8. versions' \in Seq(Version)
  BY <1>3, <1>7, EndedType DEF Typed, TypeOK, Fates
<1>9. Stored(NextEtag, n) \in Answer /\ r \in Request
  BY <1>1, <1>2, <1>4 DEF Stored, Answer, Request
<1>10. calls' \in [Callers -> Call]
  BY <1>3, <1>9, AnsweredType DEF Typed
<1>11. PendingPutsAreLegal'
  BY <1>3, AnsweredKeepsLegal DEF Stored, Pending
<1> QED
  BY <1>2, <1>5, <1>8, <1>10, <1>11 DEF TypeOK

\* A call that is only answered changes nothing that is typed but its answer.
LEMMA AnsweredOnlyType ==
  ASSUME Typed, NEW c \in Callers, NEW r \in Request, NEW a \in Answer,
         Answered(c, r, a), a # Pending \/ (r \in PutRequest /\ LegalPut(r)),
         UNCHANGED <<objects, etagGeneration, versions>>
  PROVE  Typed'
BY AnsweredType, AnsweredKeepsLegal DEF Typed, TypeOK

\* Every answer a step gives is one the port knows.
LEMMA AnswersKnown ==
  /\ \A x \in Errors : Thrown(x) \in Answer /\ Thrown(x) # Pending
  /\ \A reason \in Reasons : Refused(reason) \in Answer /\ Refused(reason) # Pending
  /\ \A o \in Object : Found(o) \in Answer /\ Found(o) # Pending
  /\ {Pending, Deleted, Absent} \subseteq Answer
  /\ Deleted # Pending /\ Absent # Pending
  /\ "BlobValidationError" \in Errors
BY DEF Thrown, Refused, Found, Pending, Deleted, Absent, Answer, Errors

LEMMA RefusalsAreReasons ==
  \A r : PutRefusals(r) \subseteq Reasons /\ DeleteRefusals(r) \subseteq Reasons
BY DEF PutRefusals, DeleteRefusals

LEMMA TypedStep == Typed /\ [Next]_vars => Typed'
<1> SUFFICES ASSUME Typed, [Next]_vars PROVE Typed'
  OBVIOUS
<1> USE DEF Request
<1>1. ASSUME NEW c \in Callers, PutStart(c) PROVE Typed'
  <2>1. PICK r \in PutRequest :
          PutRejected(c, r) \/ PutRefusedEarly(c, r) \/ PutAwaitsBody(c, r)
    BY <1>1 DEF PutStart
  <2>2. CASE PutRejected(c, r)
    BY <2>2, AnswersKnown, AnsweredOnlyType DEF PutRejected
  <2>3. CASE PutRefusedEarly(c, r)
    BY <2>3, AnswersKnown, RefusalsAreReasons, AnsweredOnlyType DEF PutRefusedEarly
  <2>4. CASE PutAwaitsBody(c, r)
    BY <2>4, AnswersKnown, AnsweredOnlyType DEF PutAwaitsBody
  <2> QED
    BY <2>1, <2>2, <2>3, <2>4
<1>2. ASSUME NEW c \in Callers, PutBodyFailed(c) PROVE Typed'
  <2>1. calls[c].req \in PutRequest
    BY <1>2 DEF Typed, PendingPutsAreLegal, PutBodyFailed
  <2> QED
    BY <1>2, <2>1, AnswersKnown, AnsweredOnlyType DEF PutBodyFailed
<1>3. ASSUME NEW c \in Callers, PutRefusedLate(c) PROVE Typed'
  <2>1. calls[c].req \in PutRequest
    BY <1>3 DEF Typed, PendingPutsAreLegal, PutRefusedLate
  <2> QED
    BY <1>3, <2>1, AnswersKnown, RefusalsAreReasons, AnsweredOnlyType
       DEF PutRefusedLate, PutRefusalsNow, LostRace
<1>4. ASSUME NEW c \in Callers, PutStored(c) PROVE Typed'
  BY <1>4, PutStoredType DEF Typed
<1>5. ASSUME NEW c \in Callers, Read(c) PROVE Typed'
  <2>1. PICK r \in ReadRequest :
          Answered(c, r, IF objects[r.key] = NoObject THEN Absent ELSE Found(objects[r.key]))
    BY <1>5 DEF Read
  <2>2. objects[r.key] \in Object \cup {NoObject}
    BY <2>1 DEF Typed, TypeOK, ReadRequest
  <2> DEFINE a == IF objects[r.key] = NoObject THEN Absent ELSE Found(objects[r.key])
  <2>3. a \in Answer /\ a # Pending
    BY <2>2, AnswersKnown
  <2> QED
    BY <1>5, <2>1, <2>3, AnsweredOnlyType DEF Read
<1>6. ASSUME NEW c \in Callers, DeleteRefused(c) PROVE Typed'
  BY <1>6, AnswersKnown, RefusalsAreReasons, AnsweredOnlyType DEF DeleteRefused
<1>7. ASSUME NEW c \in Callers, DeleteDone(c) PROVE Typed'
  <2>1. PICK r \in DeleteRequest :
          /\ objects' = [objects EXCEPT ![r.key] = NoObject]
          /\ versions' = Ended(r.key, "deleted")
          /\ Answered(c, r, Deleted)
    BY <1>7 DEF DeleteDone
  <2>2. objects' \in [Keys -> Object \cup {NoObject}]
    BY <2>1 DEF Typed, TypeOK
  <2>3. versions' \in Seq(Version)
    BY <2>1, EndedType DEF Typed, TypeOK, Fates
  <2>4. calls' \in [Callers -> Call]
    BY <2>1, AnswersKnown, AnsweredType DEF Typed
  <2>5. PendingPutsAreLegal'
    BY <2>1, AnswersKnown, AnsweredKeepsLegal
  <2> QED
    BY <1>7, <2>2, <2>3, <2>4, <2>5 DEF DeleteDone, Typed, TypeOK
<1>8. CASE UNCHANGED vars
  BY <1>8 DEF vars, Typed, TypeOK, PendingPutsAreLegal, InFlight, LegalPut, LegalMaxBytes
<1> QED
  BY <1>1, <1>2, <1>3, <1>4, <1>5, <1>6, <1>7, <1>8 DEF Next

LEMMA TypedInit == Init => Typed
<1> SUFFICES ASSUME Init PROVE Typed
  OBVIOUS
<1>1. versions \in Seq(Version)
  BY DEF Init
<1>2. NoCall \in Call /\ NoCall.ans # Pending
  BY AnswersKnown DEF NoCall, Call, Absent, Pending
<1> QED
  BY <1>1, <1>2, MaxEtagAssumption
     DEF Init, Typed, TypeOK, PendingPutsAreLegal, InFlight

\* Type correctness, for every instance: in particular no object is larger than
\* the store's maxObjectBytes, whatever maxBytes its put was given.
THEOREM TypeCorrect == Spec => []TypeOK
<1>1. Spec => []Typed
  BY TypedInit, TypedStep, PTL DEF Spec
<1> QED
  BY <1>1, PTL DEF Typed

-------------------------------------------------------------------------------
(***************************************************************************)
(* The history: the n-th version has etag n, the object at a key is the    *)
(* last version of the key, and that one alone is live; a version that was *)
(* replaced is live no more, so nothing replaces it a second time.         *)
(***************************************************************************)
Numbered ==
  /\ Len(versions) = etagGeneration
  /\ \A n \in 1..Len(versions) : versions[n].etag = n

\* Version e is the live one of key k, and its last.
LiveAt(k, e) ==
  /\ e \in 1..Len(versions)
  /\ versions[e].key = k /\ versions[e].fate = "live"
  /\ \A m \in 1..Len(versions) : versions[m].key = k => m <= e

ObjectsAreLive ==
  \A k \in Keys : objects[k] # NoObject => LiveAt(k, objects[k].etag)

LiveAreObjects ==
  \A n \in 1..Len(versions) : versions[n].fate = "live" =>
    objects[versions[n].key] # NoObject /\ objects[versions[n].key].etag = n

\* A free key had its last version deleted.
FreeWereDeleted ==
  \A k \in Keys : objects[k] = NoObject =>
    \A m \in 1..Len(versions) : versions[m].key = k =>
      \E d \in m..Len(versions) : versions[d].key = k /\ versions[d].fate = "deleted"

ReplacedOnce ==
  \A n \in 1..Len(versions) :
    LET v == versions[n]
    IN  /\ v.over # NoEtag => v.over \in 1..(n - 1) /\ versions[v.over].fate = "replaced"
        /\ v.createOnly => v.over = NoEtag
        /\ v.ifMatch # NoEtag => v.over = v.ifMatch
        /\ \A m \in 1..Len(versions) \ {n} : v.over = versions[m].over => v.over = NoEtag

CreatedWhenFree ==
  \A m, n \in 1..Len(versions) :
    m < n /\ versions[m].key = versions[n].key /\ versions[n].createOnly =>
      \E d \in m..(n - 1) : versions[d].key = versions[n].key /\ versions[d].fate = "deleted"

History ==
  /\ Numbered
  /\ ObjectsAreLive
  /\ LiveAreObjects
  /\ FreeWereDeleted
  /\ ReplacedOnce
  /\ CreatedWhenFree

IInv == Typed /\ History

-------------------------------------------------------------------------------
\* Ending the live version of key k changes the fate of that version and no other.
LEMMA EndedFields ==
  ASSUME versions \in Seq(Version), NEW k, NEW fate \in Fates, NEW n \in 1..Len(versions)
  PROVE  LET v == Ended(k, fate)[n]
         IN  /\ v.key = versions[n].key /\ v.etag = versions[n].etag
             /\ v.over = versions[n].over /\ v.createOnly = versions[n].createOnly
             /\ v.ifMatch = versions[n].ifMatch
             /\ v.fate = IF versions[n].key = k /\ versions[n].fate = "live"
                         THEN fate ELSE versions[n].fate
<1>1. versions[n] \in Version /\ n \in DOMAIN versions
  OBVIOUS
<1>2. Ended(k, fate)[n] = IF versions[n].key = k /\ versions[n].fate = "live"
                          THEN [versions[n] EXCEPT !.fate = fate] ELSE versions[n]
  BY <1>1 DEF Ended
<1> QED
  BY <1>1, <1>2 DEF Version

\* An object's etag is that of a version, and a free key's is NoEtag.
LEMMA EtagAtIsLive ==
  ASSUME IInv, NEW k \in Keys
  PROVE  /\ objects[k] = NoObject => EtagAt(k) = NoEtag
         /\ objects[k] # NoObject => LiveAt(k, EtagAt(k)) /\ EtagAt(k) # NoEtag
BY DEF IInv, History, ObjectsAreLive, LiveAt, EtagAt, NoEtag

\* The guard of PutStored says what the conditions of its request do.
LEMMA ConditionsMet ==
  ASSUME NEW r, PutRefusalsNow(r) = {}
  PROVE  /\ r.createOnly => objects[r.key] = NoObject
         /\ r.ifMatch # NoEtag => EtagAt(r.key) = r.ifMatch
<1>1. \A reason \in Reasons : reason \notin PutRefusals(r)
  BY DEF PutRefusalsNow
<1>2. "exists" \notin PutRefusals(r) /\ "missing" \notin PutRefusals(r)
        /\ "changed" \notin PutRefusals(r)
  BY <1>1 DEF Reasons
<1> QED
  BY <1>2 DEF PutRefusals, Reasons, EtagAt

LEMMA StoredKeepsHistory ==
  ASSUME IInv, TypeOK', NEW c \in Callers, PutStored(c)
  PROVE  History'
<1> DEFINE r == calls[c].req
           k == r.key
           N == Len(versions)
           e == NextEtag
           ended == Ended(k, "replaced")
<1>1. r \in PutRequest /\ k \in Keys
  BY DEF IInv, Typed, PendingPutsAreLegal, PutStored, PutRequest
<1>2. PICK n \in 0..PutLimit(r) :
        /\ objects' = [objects EXCEPT ![k] = [etag |-> e, size |-> n]]
        /\ versions' = Append(ended,
             [key |-> k, etag |-> e, size |-> n, createOnly |-> r.createOnly,
              ifMatch |-> r.ifMatch, over |-> EtagAt(k), fate |-> "live"])
  BY DEF PutStored
<1> DEFINE new == [key |-> k, etag |-> e, size |-> n, createOnly |-> r.createOnly,
                   ifMatch |-> r.ifMatch, over |-> EtagAt(k), fate |-> "live"]
<1>3. versions \in Seq(Version) /\ N \in Nat /\ N = etagGeneration /\ e = N + 1
  BY DEF IInv, Typed, TypeOK, History, Numbered, NextEtag
<1>4. etagGeneration' = e /\ [etag |-> e, size |-> n] \in Object
        /\ [etag |-> e, size |-> n] # NoObject
  <2>1. n \in Size
    BY <1>1, LimitInRange DEF IInv, Typed, PendingPutsAreLegal, PutStored
  <2>2. e \in Etag
    BY <1>3, MaxEtagAssumption DEF PutStored, Etag, IInv, Typed, TypeOK
  <2> QED
    BY <2>1, <2>2, NoObjectAssumption DEF Object, PutStored
<1>5. ended \in Seq(Version) /\ Len(ended) = N
  BY <1>3, EndedType DEF Fates
<1>6. Len(versions') = N + 1 /\ versions'[N + 1] = new
        /\ \A m \in 1..N : versions'[m] = ended[m]
  BY <1>2, <1>3, <1>5
<1>7. \A m \in 1..N :
        /\ versions'[m].key = versions[m].key /\ versions'[m].etag = versions[m].etag
        /\ versions'[m].over = versions[m].over
        /\ versions'[m].createOnly = versions[m].createOnly
        /\ versions'[m].ifMatch = versions[m].ifMatch
        /\ versions'[m].fate = IF versions[m].key = k /\ versions[m].fate = "live"
                               THEN "replaced" ELSE versions[m].fate
  BY <1>3, <1>6, EndedFields DEF Fates
<1>8. /\ objects'[k] = [etag |-> e, size |-> n]
      /\ \A j \in Keys \ {k} : objects'[j] = objects[j]
  BY <1>1, <1>2 DEF IInv, Typed, TypeOK
<1>9. \A m \in 1..N : versions[m].key \in Keys
  <2>1. \A m \in 1..N : versions[m] \in Version
    BY <1>3
  <2> QED
    BY <2>1 DEF Version
<1> HIDE DEF ended, new
<1>10. Numbered'
  BY <1>3, <1>4, <1>6, <1>7 DEF Numbered, IInv, History, new
<1>11. ObjectsAreLive'
  <2> SUFFICES ASSUME NEW j \in Keys, objects'[j] # NoObject
               PROVE  LiveAt(j, objects[j].etag)'
    BY DEF ObjectsAreLive
  <2>1. CASE j = k
    BY <1>3, <1>6, <1>7, <1>8, <2>1 DEF LiveAt, new
  <2>2. CASE j # k
    BY <1>3, <1>6, <1>7, <1>8, <2>2 DEF LiveAt, new, ObjectsAreLive, IInv, History
  <2> QED
    BY <2>1, <2>2
<1>12. LiveAreObjects'
  <2> SUFFICES ASSUME NEW m \in 1..(N + 1), versions'[m].fate = "live"
               PROVE  /\ objects'[versions'[m].key] # NoObject
                      /\ objects'[versions'[m].key].etag = m
    BY <1>6 DEF LiveAreObjects
  <2>1. CASE m = N + 1
    BY <1>3, <1>4, <1>6, <1>8, <2>1 DEF new
  <2>2. CASE m \in 1..N
    BY <1>7, <1>8, <1>9, <2>2 DEF LiveAreObjects, IInv, History
  <2> QED
    BY <1>3, <2>1, <2>2
<1>13. FreeWereDeleted'
  <2> SUFFICES ASSUME NEW j \in Keys, objects'[j] = NoObject,
                      NEW m \in 1..(N + 1), versions'[m].key = j
               PROVE  \E d \in m..(N + 1) :
                        versions'[d].key = j /\ versions'[d].fate = "deleted"
    BY <1>6 DEF FreeWereDeleted
  <2>1. j # k /\ objects[j] = NoObject
    BY <1>4, <1>8
  <2>2. m \in 1..N /\ versions[m].key = j
    BY <1>3, <1>6, <1>7, <2>1 DEF new
  <2>3. PICK d \in m..N : versions[d].key = j /\ versions[d].fate = "deleted"
    BY <2>1, <2>2 DEF FreeWereDeleted, IInv, History
  <2> QED
    BY <1>3, <1>7, <2>2, <2>3
<1>14. ReplacedOnce'
  <2>1. EtagAt(k) # NoEtag => EtagAt(k) \in 1..N /\ versions[EtagAt(k)].fate = "live"
                                /\ versions[EtagAt(k)].key = k
    BY <1>1, EtagAtIsLive DEF LiveAt
  <2>2. \A m \in 1..N : versions[m].over = EtagAt(k) => EtagAt(k) = NoEtag
    BY <2>1 DEF ReplacedOnce, IInv, History
  <2>3. (r.createOnly => EtagAt(k) = NoEtag) /\ (r.ifMatch # NoEtag => EtagAt(k) = r.ifMatch)
    BY <1>1, ConditionsMet, EtagAtIsLive DEF PutStored
  <2> SUFFICES ASSUME NEW m \in 1..(N + 1)
               PROVE  LET v == versions'[m]
                      IN  /\ v.over # NoEtag =>
                               v.over \in 1..(m - 1) /\ versions'[v.over].fate = "replaced"
                          /\ v.createOnly => v.over = NoEtag
                          /\ v.ifMatch # NoEtag => v.over = v.ifMatch
                          /\ \A l \in 1..(N + 1) \ {m} :
                               v.over = versions'[l].over => v.over = NoEtag
    BY <1>6 DEF ReplacedOnce
  <2>4. CASE m = N + 1
    BY <1>3, <1>6, <1>7, <2>1, <2>2, <2>3, <2>4 DEF new
  <2>5. CASE m \in 1..N
    <3>1. versions[m].over # NoEtag =>
            versions[m].over \in 1..(m - 1) /\ versions'[versions[m].over].fate = "replaced"
      BY <1>3, <1>7, <2>5 DEF ReplacedOnce, IInv, History
    <3>2. \A l \in 1..(N + 1) \ {m} :
            versions[m].over = versions'[l].over => versions[m].over = NoEtag
      BY <1>3, <1>6, <1>7, <2>2, <2>5 DEF ReplacedOnce, IInv, History, new
    <3> QED
      BY <1>7, <2>5, <3>1, <3>2 DEF ReplacedOnce, IInv, History
  <2> QED
    BY <1>3, <2>4, <2>5
<1>15. CreatedWhenFree'
  <2> SUFFICES ASSUME NEW l \in 1..(N + 1), NEW m \in 1..(N + 1), l < m,
                      versions'[l].key = versions'[m].key, versions'[m].createOnly
               PROVE  \E d \in l..(m - 1) :
                        versions'[d].key = versions'[m].key /\ versions'[d].fate = "deleted"
    BY <1>6 DEF CreatedWhenFree
  <2>1. l \in 1..N
    BY <1>3
  <2>2. CASE m = N + 1
    <3>1. r.createOnly /\ versions[l].key = k
      BY <1>6, <1>7, <2>1, <2>2 DEF new
    <3>2. objects[k] = NoObject
      <4>1. PutRefusalsNow(r) = {}
        BY DEF PutStored
      <4> QED
        BY <3>1, <4>1, ConditionsMet
    <3>3. PICK d \in l..N : versions[d].key = k /\ versions[d].fate = "deleted"
      BY <1>1, <2>1, <3>1, <3>2 DEF FreeWereDeleted, IInv, History
    <3> QED
      BY <1>3, <1>6, <1>7, <2>1, <2>2, <3>3 DEF new
  <2>3. CASE m \in 1..N
    <3>1. PICK d \in l..(m - 1) :
            versions[d].key = versions[m].key /\ versions[d].fate = "deleted"
      BY <1>7, <2>1, <2>3 DEF CreatedWhenFree, IInv, History
    <3> QED
      BY <1>3, <1>7, <2>1, <2>3, <3>1
  <2> QED
    BY <1>3, <2>2, <2>3
<1> QED
  BY <1>10, <1>11, <1>12, <1>13, <1>14, <1>15 DEF History

LEMMA DeletedKeepsHistory ==
  ASSUME IInv, NEW c \in Callers, DeleteDone(c)
  PROVE  History'
<1>1. PICK r \in DeleteRequest :
        /\ DeleteRefusals(r) = {}
        /\ objects' = [objects EXCEPT ![r.key] = NoObject]
        /\ versions' = Ended(r.key, "deleted")
  BY DEF DeleteDone
<1> DEFINE k == r.key
           N == Len(versions)
<1>2. k \in Keys /\ objects[k] # NoObject
  <2>1. "missing" \notin DeleteRefusals(r)
    BY <1>1
  <2> QED
    BY <1>1, <2>1 DEF DeleteRefusals, Reasons, DeleteRequest
<1>3. versions \in Seq(Version) /\ N \in Nat
  BY DEF IInv, Typed, TypeOK
<1>4. Len(versions') = N
  BY <1>1, <1>3, EndedType DEF Fates
<1>5. \A m \in 1..N :
        /\ versions'[m].key = versions[m].key /\ versions'[m].etag = versions[m].etag
        /\ versions'[m].over = versions[m].over
        /\ versions'[m].createOnly = versions[m].createOnly
        /\ versions'[m].ifMatch = versions[m].ifMatch
        /\ versions'[m].fate = IF versions[m].key = k /\ versions[m].fate = "live"
                               THEN "deleted" ELSE versions[m].fate
  BY <1>1, <1>3, EndedFields DEF Fates
<1>6. /\ objects'[k] = NoObject
      /\ \A j \in Keys \ {k} : objects'[j] = objects[j]
  BY <1>1, <1>2 DEF IInv, Typed, TypeOK
<1>7. \A m \in 1..N : versions[m].key \in Keys
  <2>1. \A m \in 1..N : versions[m] \in Version
    BY <1>3
  <2> QED
    BY <2>1 DEF Version
<1>8. LiveAt(k, objects[k].etag)
  BY <1>2 DEF IInv, History, ObjectsAreLive
<1>9. Numbered'
  BY <1>4, <1>5 DEF Numbered, IInv, History, DeleteDone
<1>10. ObjectsAreLive'
  BY <1>4, <1>5, <1>6 DEF ObjectsAreLive, LiveAt, IInv, History
<1>11. LiveAreObjects'
  BY <1>4, <1>5, <1>6, <1>7 DEF LiveAreObjects, IInv, History
<1>12. FreeWereDeleted'
  <2> SUFFICES ASSUME NEW j \in Keys, objects'[j] = NoObject,
                      NEW m \in 1..N, versions[m].key = j
               PROVE  \E d \in m..N : versions'[d].key = j /\ versions'[d].fate = "deleted"
    BY <1>4, <1>5 DEF FreeWereDeleted
  <2>1. CASE j = k
    <3> DEFINE d == objects[k].etag
    <3>1. d \in m..N /\ versions[d].key = k /\ versions[d].fate = "live"
      BY <1>3, <1>8, <2>1 DEF LiveAt
    <3> QED
      BY <1>3, <1>5, <2>1, <3>1
  <2>2. CASE j # k
    <3>1. PICK d \in m..N : versions[d].key = j /\ versions[d].fate = "deleted"
      BY <1>6, <2>2 DEF FreeWereDeleted, IInv, History
    <3> QED
      BY <1>3, <1>5, <3>1
  <2> QED
    BY <2>1, <2>2
<1>13. ReplacedOnce'
  BY <1>3, <1>4, <1>5 DEF ReplacedOnce, IInv, History
<1>14. CreatedWhenFree'
  <2> SUFFICES ASSUME NEW l \in 1..N, NEW m \in 1..N, l < m,
                      versions[l].key = versions[m].key, versions[m].createOnly
               PROVE  \E d \in l..(m - 1) :
                        versions'[d].key = versions'[m].key /\ versions'[d].fate = "deleted"
    BY <1>4, <1>5 DEF CreatedWhenFree
  <2>1. PICK d \in l..(m - 1) :
          versions[d].key = versions[m].key /\ versions[d].fate = "deleted"
    BY DEF CreatedWhenFree, IInv, History
  <2> QED
    BY <1>3, <1>5, <2>1
<1> QED
  BY <1>9, <1>10, <1>11, <1>12, <1>13, <1>14 DEF History

\* Every other step leaves the objects and their history alone.
LEMMA IInvStep == IInv /\ [Next]_vars => IInv'
<1> SUFFICES ASSUME IInv, [Next]_vars PROVE IInv'
  OBVIOUS
<1>1. Typed'
  BY TypedStep DEF IInv
<1>2. ASSUME NEW c \in Callers, PutStored(c) PROVE History'
  BY <1>1, <1>2, StoredKeepsHistory DEF Typed
<1>3. ASSUME NEW c \in Callers, DeleteDone(c) PROVE History'
  BY <1>3, DeletedKeepsHistory
<1>4. ASSUME UNCHANGED <<objects, etagGeneration, versions>> PROVE History'
  BY <1>4 DEF IInv, History, Numbered, ObjectsAreLive, LiveAt, LiveAreObjects,
              FreeWereDeleted, ReplacedOnce, CreatedWhenFree
<1>5. ASSUME NEW c \in Callers,
             \/ PutStart(c) \/ PutBodyFailed(c) \/ PutRefusedLate(c)
             \/ Read(c) \/ DeleteRefused(c)
      PROVE  UNCHANGED <<objects, etagGeneration, versions>>
  BY <1>5 DEF PutStart, PutRejected, PutRefusedEarly, PutAwaitsBody, PutBodyFailed,
              PutRefusedLate, Read, DeleteRefused
<1>6. UNCHANGED vars => UNCHANGED <<objects, etagGeneration, versions>>
  BY DEF vars
<1>7. History'
  BY <1>2, <1>3, <1>4, <1>5, <1>6 DEF Next
<1> QED
  BY <1>1, <1>7 DEF IInv

LEMMA IInvInit == Init => IInv
<1> SUFFICES ASSUME Init PROVE IInv
  OBVIOUS
<1>1. versions = <<>> /\ Len(versions) = 0 /\ 1..Len(versions) = {}
  BY DEF Init
<1>2. History
  BY <1>1 DEF Init, History, Numbered, ObjectsAreLive, LiveAreObjects,
              FreeWereDeleted, ReplacedOnce, CreatedWhenFree
<1> QED
  BY <1>2, TypedInit DEF IInv

LEMMA IInvImplies == IInv => EtagsNeverReused /\ NoLostUpdate /\ CreateOnlyExclusive
<1> SUFFICES ASSUME IInv PROVE EtagsNeverReused /\ NoLostUpdate /\ CreateOnlyExclusive
  OBVIOUS
<1>1. DOMAIN versions = 1..Len(versions)
  BY DEF IInv, Typed, TypeOK
<1>2. EtagsNeverReused
  BY <1>1 DEF EtagsNeverReused, IInv, History, Numbered
<1>3. NoLostUpdate
  BY <1>1 DEF NoLostUpdate, IInv, History, ReplacedOnce
<1>4. CreateOnlyExclusive
  BY <1>1 DEF CreateOnlyExclusive, IInv, History, CreatedWhenFree
<1> QED
  BY <1>2, <1>3, <1>4

LEMMA Invariance == Spec => []IInv
  BY IInvInit, IInvStep, PTL DEF Spec

\* No version, live or long gone, shares its etag with another one.
THEOREM EtagsUnique == Spec => []EtagsNeverReused
  BY Invariance, IInvImplies, PTL

\* No update is lost to a put whose body was being read meanwhile.
THEOREM UpdatesKept == Spec => []NoLostUpdate
  BY Invariance, IInvImplies, PTL

\* Of the create-only puts that race for a free key at most one stores.
THEOREM CreationExclusive == Spec => []CreateOnlyExclusive
  BY Invariance, IInvImplies, PTL

-------------------------------------------------------------------------------
(***************************************************************************)
(* The store implements the BlobStore interface.  Each step of the store   *)
(* is a step of the interface.  A put takes effect when it is answered:    *)
(* refused early or rejected in the step that starts it, else in the step  *)
(* after its await, which judges its conditions on the object it then      *)
(* replaces.  No other invariant is needed than Typed, which says that     *)
(* what waits is a legal put.                                              *)
(***************************************************************************)
\* The interface and the store speak of the same requests and answers.
LEMMA SameWords ==
  /\ Port!Request = Request /\ Port!NoEtag = NoEtag /\ Port!Etag = Etag /\ Port!Unset = Unset
  /\ Port!Errors = Errors /\ Port!Reasons = Reasons
  /\ Port!Pending = Pending /\ Port!Absent = Absent /\ Port!Deleted = Deleted
  /\ \A x : Port!Thrown(x) = Thrown(x) /\ Port!Refused(x) = Refused(x) /\ Port!Found(x) = Found(x)
  /\ \A e, n : Port!Stored(e, n) = Stored(e, n)
  /\ Port!NoCall = NoCall
BY DEF Port!Request, Port!PutRequest, Port!DeleteRequest, Port!ReadRequest, Port!NoEtag,
       Port!Etag, Port!Unset, Port!Errors, Port!Reasons, Port!Pending, Port!Absent, Port!Deleted,
       Port!Thrown, Port!Refused, Port!Found, Port!Stored, Port!NoCall, Port!NoRequest,
       Request, PutRequest, DeleteRequest, ReadRequest, NoEtag,
       Etag, Unset, Errors, Reasons, Pending, Absent, Deleted,
       Thrown, Refused, Found, Stored, NoCall, NoRequest

\* A call that is answered has its answer decided in that step.
LEMMA AnsweredSays ==
  ASSUME TypeOK, NEW c \in Callers, NEW r, NEW a, Answered(c, r, a)
  PROVE  Port!Says(c, r, a, a) /\ calls'[c].req = r
<1>1. calls \in [Callers -> Call]
  BY DEF TypeOK
<1>2. calls' = [calls EXCEPT ![c] = [req |-> r, ans |-> a]]
  BY DEF Answered
<1>3. [d \in Callers |-> calls[d].ans]' = [[d \in Callers |-> calls[d].ans] EXCEPT ![c] = a]
  BY <1>1, <1>2
<1> QED
  BY <1>1, <1>2, <1>3 DEF Port!Says

LEMMA AnsweredPort ==
  ASSUME TypeOK, NEW c \in Callers, NEW r, NEW a, Answered(c, r, a)
  PROVE  Port!Answered(c, r, a) /\ Port!Applied(c, r, a) /\ calls'[c].req = r
BY AnsweredSays DEF Port!Answered, Port!Applied

\* A put is legal here when the interface has it so.
LEMMA LegalIsLegal ==
  ASSUME NEW r \in PutRequest
  PROVE  r.op = "put" /\ (Port!Illegal(r) <=> ~LegalPut(r))
BY SameWords, MaxObjectBytesAssumption
   DEF PutRequest, LegalPut, LegalMaxBytes, Port!Illegal, Port!Limit, Unset, NoEtag

\* Each refusal has a reason the interface knows, and what is refused for none
\* is admitted.
LEMMA RefusalsHaveReasons ==
  /\ \A r \in PutRequest : \A reason \in PutRefusals(r) :
       reason \in Reasons /\ Port!RefusedFor(reason, r, objects[r.key])
  /\ \A r \in DeleteRequest : \A reason \in DeleteRefusals(r) :
       reason \in Reasons /\ Port!RefusedFor(reason, r, objects[r.key])
BY SameWords DEF PutRefusals, DeleteRefusals, Port!RefusedFor, PutRequest, DeleteRequest, Reasons

LEMMA UnrefusedAreAdmitted ==
  /\ \A r \in PutRequest : PutRefusals(r) = {} => Port!Admitted(r, objects[r.key])
  /\ \A r \in DeleteRequest : DeleteRefusals(r) = {} => Port!Admitted(r, objects[r.key])
BY SameWords DEF PutRefusals, DeleteRefusals, Port!Admitted, PutRequest, DeleteRequest, Reasons

\* The store in the terms of the interface: what a call leaves alone.
LEMMA SameStore ==
  ASSUME UNCHANGED <<objects, etagGeneration>>
  PROVE  UNCHANGED <<objects, 1..etagGeneration, {}>>
OBVIOUS

-------------------------------------------------------------------------------
LEMMA PutStartIsStart ==
  ASSUME Typed, NEW c \in Callers, PutStart(c)
  PROVE  Port!Start(c) \/ Port!StartAndServe(c)
<1>1. PICK r \in PutRequest :
        PutRejected(c, r) \/ PutRefusedEarly(c, r) \/ PutAwaitsBody(c, r)
  BY DEF PutStart
<1>2. r \in Request /\ r.op = "put" /\ ~Port!InFlight(c)
  BY SameWords, <1>1 DEF Request, PutRequest, PutStart, InFlight, Port!InFlight
<1>3. CASE PutRejected(c, r)
  <2>1. Port!ThrowEffect(c, r) /\ calls'[c].req = r
    BY SameWords, <1>1, <1>2, <1>3, AnsweredPort, AnswersKnown, LegalIsLegal
       DEF PutRejected, Port!ThrowEffect, Port!store, Typed
  <2> QED
    BY SameWords, <1>2, <2>1 DEF Port!StartAndServe, Port!Effect
<1>4. CASE PutRefusedEarly(c, r)
  <2>1. PICK reason \in PutRefusals(r) : Answered(c, r, Refused(reason))
    BY <1>4 DEF PutRefusedEarly
  <2>2. Port!RefuseEffect(c, r) /\ calls'[c].req = r
    BY SameWords, <1>1, <1>2, <1>4, <2>1, AnsweredPort, LegalIsLegal, RefusalsHaveReasons
       DEF PutRefusedEarly, Port!RefuseEffect, Port!store, Typed
  <2> QED
    BY SameWords, <1>2, <2>2 DEF Port!StartAndServe, Port!Effect
<1>5. CASE PutAwaitsBody(c, r)
  <2>1. Port!Says(c, r, Pending, Pending) /\ calls'[c].req = r
    BY <1>5, AnsweredSays DEF PutAwaitsBody, Typed
  <2> QED
    BY SameWords, <1>2, <1>5, <2>1 DEF PutAwaitsBody, Port!Start, Port!store
<1> QED
  BY <1>1, <1>3, <1>4, <1>5

\* What waits is a legal put whose answer is not decided.
LEMMA WaitingIsUndecided ==
  ASSUME Typed, NEW c \in Callers, InFlight(c)
  PROVE  /\ calls[c].req \in PutRequest /\ LegalPut(calls[c].req)
         /\ Port!InFlight(c)
         /\ [d \in Callers |-> calls[d].ans][c] = Pending
BY SameWords DEF Typed, PendingPutsAreLegal, InFlight, Port!InFlight

LEMMA PutEndIsServe ==
  ASSUME Typed, NEW c \in Callers, PutBodyFailed(c) \/ PutRefusedLate(c)
  PROVE  Port!Serve(c)
<1> DEFINE r == calls[c].req
<1>1. /\ r \in PutRequest /\ LegalPut(r) /\ Port!InFlight(c)
      /\ [d \in Callers |-> calls[d].ans][c] = Pending
      /\ r.op = "put" /\ ~Port!Illegal(r)
  BY WaitingIsUndecided, LegalIsLegal DEF PutBodyFailed, PutRefusedLate
<1>2. CASE PutBodyFailed(c)
  <2>1. Port!ThrowEffect(c, r)
    BY SameWords, <1>1, <1>2, AnsweredPort DEF PutBodyFailed, Port!ThrowEffect, Port!store, Typed
  <2> QED
    BY SameWords, <1>1, <2>1 DEF Port!Serve, Port!Effect
<1>3. CASE PutRefusedLate(c)
  <2>1. PICK reason \in PutRefusals(r) : Answered(c, r, Refused(reason))
    BY <1>3 DEF PutRefusedLate, PutRefusalsNow, LostRace
  <2>2. Port!RefuseEffect(c, r)
    BY SameWords, <1>1, <1>3, <2>1, AnsweredPort, RefusalsHaveReasons
       DEF PutRefusedLate, Port!RefuseEffect, Port!store, Typed
  <2> QED
    BY SameWords, <1>1, <2>2 DEF Port!Serve, Port!Effect
<1> QED
  BY <1>2, <1>3

\* The conditions hold when the object is replaced, and its etag is a new one.
LEMMA PutStoredIsServe ==
  ASSUME Typed, NEW c \in Callers, PutStored(c)
  PROVE  Port!Serve(c)
<1> DEFINE r == calls[c].req
<1>1. /\ r \in PutRequest /\ LegalPut(r) /\ Port!InFlight(c)
      /\ [d \in Callers |-> calls[d].ans][c] = Pending
      /\ r.op = "put" /\ ~Port!Illegal(r)
  BY WaitingIsUndecided, LegalIsLegal DEF PutStored
<1>0. ~r.bodyFails
  BY DEF PutStored
<1>2. Port!Admitted(r, objects[r.key])
  BY <1>1, UnrefusedAreAdmitted DEF PutStored, PutRefusalsNow
<1>3. /\ NextEtag \in Etag \ (1..etagGeneration)
      /\ (1..etagGeneration)' = (1..etagGeneration) \cup {NextEtag}
      /\ {} = {} \cup ({NextEtag} \cap (1..etagGeneration))
  BY MaxEtagAssumption DEF PutStored, EtagLeft, NextEtag, Etag, Typed, TypeOK
<1>4. PICK n \in 0..PutLimit(r) :
        /\ objects' = [objects EXCEPT ![r.key] = [etag |-> NextEtag, size |-> n]]
        /\ Answered(c, r, Stored(NextEtag, n))
  BY DEF PutStored
<1>5. n \in 0..Port!Limit(r)
  BY SameWords, <1>4 DEF PutLimit, Port!Limit
<1>6. Port!Applied(c, r, Stored(NextEtag, n))
  BY <1>4, AnsweredPort DEF Typed
<1>7. Port!PutEffect(c, r)
  BY SameWords, <1>0, <1>1, <1>2, <1>3, <1>4, <1>5, <1>6 DEF Port!PutEffect
<1> QED
  BY SameWords, <1>1, <1>7 DEF Port!Serve, Port!Effect

LEMMA ReadIsServed ==
  ASSUME Typed, NEW c \in Callers, Read(c)
  PROVE  Port!StartAndServe(c)
<1>1. PICK r \in ReadRequest :
        Answered(c, r, IF objects[r.key] = NoObject THEN Absent ELSE Found(objects[r.key]))
  BY DEF Read
<1>2. r \in Request /\ r.op \in {"get", "head"} /\ ~Port!InFlight(c)
  BY SameWords, <1>1 DEF Request, ReadRequest, Read, InFlight, Port!InFlight
<1>3. Port!ReadEffect(c, r) /\ calls'[c].req = r
  BY SameWords, <1>1, <1>2, AnsweredPort DEF Read, Port!ReadEffect, Port!store, Typed
<1> QED
  BY SameWords, <1>2, <1>3 DEF Port!StartAndServe, Port!Effect

LEMMA DeleteIsServed ==
  ASSUME Typed, NEW c \in Callers, DeleteRefused(c) \/ DeleteDone(c)
  PROVE  Port!StartAndServe(c)
<1>1. ~Port!InFlight(c)
  BY SameWords DEF DeleteRefused, DeleteDone, InFlight, Port!InFlight
<1>2. CASE DeleteRefused(c)
  <2>1. PICK r \in DeleteRequest :
          \E reason \in DeleteRefusals(r) : Answered(c, r, Refused(reason))
    BY <1>2 DEF DeleteRefused
  <2>2. r \in Request /\ r.op = "delete" /\ ~Port!Illegal(r)
    BY DEF Request, DeleteRequest, Port!Illegal
  <2>3. Port!RefuseEffect(c, r) /\ calls'[c].req = r
    BY SameWords, <1>2, <2>1, <2>2, AnsweredPort, RefusalsHaveReasons
       DEF DeleteRefused, Port!RefuseEffect, Port!store, Typed
  <2> QED
    BY SameWords, <1>1, <2>2, <2>3 DEF Port!StartAndServe, Port!Effect
<1>3. CASE DeleteDone(c)
  <2>1. PICK r \in DeleteRequest :
          /\ DeleteRefusals(r) = {}
          /\ objects' = [objects EXCEPT ![r.key] = NoObject]
          /\ Answered(c, r, Deleted)
    BY <1>3 DEF DeleteDone
  <2>2. r \in Request /\ r.op = "delete" /\ Port!Admitted(r, objects[r.key])
    BY <2>1, UnrefusedAreAdmitted DEF Request, DeleteRequest
  <2>3. Port!DeleteEffect(c, r) /\ calls'[c].req = r
    BY SameWords, <1>3, <2>1, <2>2, AnsweredPort DEF DeleteDone, Port!DeleteEffect, Typed
  <2> QED
    BY SameWords, <1>1, <2>2, <2>3 DEF Port!StartAndServe, Port!Effect
<1> QED
  BY <1>2, <1>3

LEMMA StepIsPortStep ==
  ASSUME Typed, [Next]_vars
  PROVE  [Port!Next]_(Port!vars)
<1>1. ASSUME NEW c \in Callers, PutStart(c) PROVE Port!Next
  BY <1>1, PutStartIsStart DEF Port!Next
<1>2. ASSUME NEW c \in Callers, PutBodyFailed(c) \/ PutRefusedLate(c) PROVE Port!Next
  BY <1>2, PutEndIsServe DEF Port!Next
<1>3. ASSUME NEW c \in Callers, PutStored(c) PROVE Port!Next
  BY <1>3, PutStoredIsServe DEF Port!Next
<1>4. ASSUME NEW c \in Callers, Read(c) PROVE Port!Next
  BY <1>4, ReadIsServed DEF Port!Next
<1>5. ASSUME NEW c \in Callers, DeleteRefused(c) \/ DeleteDone(c) PROVE Port!Next
  BY <1>5, DeleteIsServed DEF Port!Next
<1>6. CASE UNCHANGED vars
  BY <1>6 DEF vars, Port!vars
<1> QED
  BY <1>1, <1>2, <1>3, <1>4, <1>5, <1>6 DEF Next

LEMMA InitIsPortInit == Init => Port!Init
BY SameWords DEF Init, Port!Init, NoCall

\* The store keeps the promise of the BlobStore interface: every call takes
\* effect at one moment, under an etag no object had before, and a race is
\* answered and never thrown.
THEOREM Implements == Spec => ImplementsBlobStore
<1>1. Spec => []Typed
  BY TypedInit, TypedStep, PTL DEF Spec
<1> QED
  BY <1>1, InitIsPortInit, StepIsPortStep, PTL DEF Spec, ImplementsBlobStore, Port!Spec

-------------------------------------------------------------------------------
(***************************************************************************)
(* What BlobStoreProofs proves of every store that keeps the promise.      *)
(***************************************************************************)
Promise == INSTANCE BlobStoreProofs
             WITH issued <- 1..etagGeneration, cameBack <- {},
                  decided <- [c \in Callers |-> calls[c].ans],
                  Lossy <- FALSE, BlindDelete <- FALSE, EtagsComeBack <- FALSE,
                  Resends <- FALSE, Perishable <- FALSE

\* Port and Promise are one module, instantiated alike.
LEMMA SamePort ==
  /\ Port!Init => Promise!Init
  /\ [Port!Next]_(Port!vars) => [Promise!Next]_(Promise!vars)
  /\ Promise!OneWinner => Port!OneWinner
BY DEF Port!Init, Promise!Init, Port!NoCall, Promise!NoCall, Port!NoRequest, Promise!NoRequest,
  Port!OneWinner, Promise!OneWinner, Port!Spends, Promise!Spends,
  Port!Next, Promise!Next, Port!vars, Promise!vars, Port!store, Promise!store,
  Port!Start, Promise!Start, Port!StartAndServe, Promise!StartAndServe,
  Port!Serve, Promise!Serve, Port!Tell, Promise!Tell, Port!Perish, Promise!Perish,
  Port!InFlight, Promise!InFlight, Port!Effect, Promise!Effect,
  Port!PutEffect, Promise!PutEffect, Port!DeleteEffect, Promise!DeleteEffect,
  Port!RefuseEffect, Promise!RefuseEffect, Port!ReadEffect, Promise!ReadEffect,
  Port!ThrowEffect, Promise!ThrowEffect, Port!Applied, Promise!Applied,
  Port!Answered, Promise!Answered, Port!Says, Promise!Says, Port!Lost, Promise!Lost,
  Port!Admitted, Promise!Admitted, Port!RefusedFor, Promise!RefusedFor,
  Port!Illegal, Promise!Illegal, Port!Limit, Promise!Limit,
  Port!Request, Promise!Request, Port!PutRequest, Promise!PutRequest,
  Port!DeleteRequest, Promise!DeleteRequest, Port!ReadRequest, Promise!ReadRequest,
  Port!Etag, Promise!Etag, Port!NoEtag, Promise!NoEtag, Port!Unset, Promise!Unset,
  Port!Pending, Promise!Pending, Port!Stored, Promise!Stored, Port!Deleted, Promise!Deleted,
  Port!Found, Promise!Found, Port!Absent, Promise!Absent, Port!Refused, Promise!Refused,
  Port!Thrown, Promise!Thrown, Port!Reasons, Promise!Reasons, Port!Errors, Promise!Errors

\* The promise is about the constants of this store, whose assumptions it shares.
LEMMA PromiseKept ==
  /\ Promise!Init => Promise!Inv
  /\ Promise!Inv /\ [Promise!Next]_(Promise!vars) => (Promise!Inv)'
  /\ Promise!Inv => Promise!OneWinner
BY Promise!InvInit, Promise!InvStep, CallersAssumption, KeysAssumption, MaxObjectBytesAssumption,
   MaxEtagAssumption, MaxBytesAssumption, NoObjectAssumption
   DEF Promise!Inv, Promise!Object, Promise!Etag, Promise!Size, Object, Etag, Size

\* Of two callers that name one version in ifMatch, one at most is told that its
\* put or delete went through, however long their bodies take.
THEOREM OneWinnerHolds == Spec => []OneWinner
<1>1. Init => Promise!Inv
  BY InitIsPortInit, SamePort, PromiseKept
<1>2. Typed /\ Promise!Inv /\ [Next]_vars => (Promise!Inv)'
  BY StepIsPortStep, SamePort, PromiseKept
<1>3. Promise!Inv => OneWinner
  BY SamePort, PromiseKept DEF OneWinner
<1> QED
  BY <1>1, <1>2, <1>3, TypedInit, TypedStep, PTL DEF Spec
===============================================================================
