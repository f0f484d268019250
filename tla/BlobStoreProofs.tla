---------------------------- MODULE BlobStoreProofs ----------------------------
(***************************************************************************)
(* What follows from the BlobStore promise alone, whatever a store weakens *)
(* it by.  A store that implements the promise has it too: its proofs need *)
(* no more than cite these theorems.                                       *)
(***************************************************************************)
EXTENDS BlobStore, TLAPS

\* The etags that were given out and that no object has any more.
Gone == issued \ {objects[k].etag : k \in {j \in Keys : objects[j] # NoObject}}

(***************************************************************************)
(* The inductive invariant.  Two objects share an etag only if it came     *)
(* back; and the version that a call was let replace or remove is gone.    *)
(***************************************************************************)
EtagsIssued == \A k \in Keys : objects[k] # NoObject => objects[k].etag \in issued

OneHolder ==
  \A j, k \in Keys :
    /\ j # k /\ objects[j] # NoObject /\ objects[k] # NoObject
    /\ objects[j].etag = objects[k].etag
    => objects[k].etag \in cameBack

SpentIsGone ==
  \A c \in Callers :
    Spends(c) => calls[c].req.ifMatch \in cameBack \/ calls[c].req.ifMatch \in Gone

Inv == TypeOK /\ EtagsIssued /\ OneHolder /\ SpentIsGone /\ OneWinner

-------------------------------------------------------------------------------
\* The options of a put that is not illegal leave room for the sizes it may have.
LEMMA LimitInRange ==
  ASSUME NEW r \in Request, r.op = "put", ~Illegal(r)
  PROVE  0..Limit(r) \subseteq Size
BY MaxObjectBytesAssumption
   DEF Request, PutRequest, DeleteRequest, ReadRequest, Illegal, Limit, Size

LEMMA AnswersKnown ==
  /\ Pending \in Answer /\ Deleted \in Answer /\ Absent \in Answer
  /\ \A x \in Errors : Thrown(x) \in Answer
  /\ \A x \in Reasons : Refused(x) \in Answer
  /\ \A o \in Object : Found(o) \in Answer
  /\ \A e \in Etag, n \in Size : Stored(e, n) \in Answer
  /\ Lost \subseteq Answer
BY DEF Answer, Pending, Deleted, Absent, Thrown, Refused, Found, Stored, Lost, Errors

LEMMA SaysTyped ==
  ASSUME TypeOK, NEW c \in Callers, NEW r \in Request, NEW a \in Answer, NEW t \in Answer,
         Says(c, r, a, t)
  PROVE  calls' \in [Callers -> Call] /\ decided' \in [Callers -> Answer]
BY DEF TypeOK, Says, Call

LEMMA AppliedTyped ==
  ASSUME TypeOK, NEW c \in Callers, NEW r \in Request, NEW a \in Answer,
         Applied(c, r, a) \/ Answered(c, r, a)
  PROVE  calls' \in [Callers -> Call] /\ decided' \in [Callers -> Answer]
BY AnswersKnown, SaysTyped DEF Applied, Answered

-------------------------------------------------------------------------------
(***************************************************************************)
(* What a step does to the store: etags that were given out stay so, those *)
(* that came back stay so, and one that is gone stays gone or comes back.  *)
(***************************************************************************)
StoreTyped ==
  /\ objects \in [Keys -> Object \cup {NoObject}]
  /\ cameBack \subseteq issued /\ issued \subseteq Etag

StoreKept ==
  /\ StoreTyped' /\ EtagsIssued' /\ OneHolder'
  /\ cameBack \subseteq cameBack'
  /\ \A e : e \in Gone => e \in Gone' \/ e \in cameBack'

LEMMA StoreUntouched ==
  ASSUME Inv, UNCHANGED store
  PROVE  StoreKept
BY DEF Inv, TypeOK, store, StoreKept, StoreTyped, EtagsIssued, OneHolder, Gone

\* Objects disappear, and nothing else changes.
LEMMA ObjectsRemoved ==
  ASSUME Inv, NEW K \in SUBSET Keys, UNCHANGED <<issued, cameBack>>,
         objects' = [k \in Keys |-> IF k \in K THEN NoObject ELSE objects[k]]
  PROVE  StoreKept
BY DEF Inv, TypeOK, StoreKept, StoreTyped, EtagsIssued, OneHolder, Gone

LEMMA ObjectStored ==
  ASSUME Inv, NEW k \in Keys, NEW e \in Etag, NEW n \in Size,
         objects' = [objects EXCEPT ![k] = [etag |-> e, size |-> n]],
         issued' = issued \cup {e},
         cameBack' = cameBack \cup ({e} \cap issued)
  PROVE  StoreKept
<1> DEFINE new == [etag |-> e, size |-> n]
<1>1. new \in Object /\ new # NoObject /\ new.etag = e
  BY NoObjectAssumption DEF Object
<1>2. objects' \in [Keys -> Object \cup {NoObject}]
  BY <1>1 DEF Inv, TypeOK
<1>3. \A j \in Keys : objects'[j] = IF j = k THEN new ELSE objects[j]
  BY DEF Inv, TypeOK
<1>4. StoreTyped' /\ EtagsIssued'
  BY <1>1, <1>2, <1>3 DEF Inv, TypeOK, StoreTyped, EtagsIssued
<1>5. OneHolder'
  <2> SUFFICES ASSUME NEW i \in Keys, NEW j \in Keys, i # j,
                      objects'[i] # NoObject, objects'[j] # NoObject,
                      objects'[i].etag = objects'[j].etag
               PROVE  objects'[j].etag \in cameBack'
    BY DEF OneHolder
  <2>1. CASE i # k /\ j # k
    BY <1>3, <2>1 DEF Inv, OneHolder
  <2>2. CASE i = k \/ j = k
    BY <1>1, <1>3, <2>2 DEF Inv, EtagsIssued
  <2> QED
    BY <2>1, <2>2
<1>6. ASSUME NEW f, f \in Gone PROVE f \in Gone' \/ f \in cameBack'
  BY <1>1, <1>3, <1>6 DEF Gone
<1> QED
  BY <1>4, <1>5, <1>6 DEF StoreKept

-------------------------------------------------------------------------------
(***************************************************************************)
(* What a step does to the calls: one call moves, and it spends a version  *)
(* only when an object had the etag it names; which is then gone.          *)
(***************************************************************************)
JustSpent(c) ==
  LET e == calls'[c].req.ifMatch
  IN  /\ \E k \in Keys : objects[k] # NoObject /\ objects[k].etag = e
      /\ e \in Gone' \/ e \in cameBack'

StillSpent(c) == Spends(c) /\ calls'[c].req = calls[c].req

OneMoves(c) ==
  /\ calls' \in [Callers -> Call] /\ decided' \in [Callers -> Answer]
  /\ \A d \in Callers \ {c} : calls'[d] = calls[d] /\ decided'[d] = decided[d]
  /\ Spends(c)' => JustSpent(c) \/ StillSpent(c)

\* A call whose answer is not that of a put or delete that was let through.
LEMMA UnspentMoves ==
  ASSUME Inv, NEW c \in Callers, NEW r \in Request, NEW a \in Answer, NEW t \in Answer,
         Says(c, r, a, t), a.kind \notin {"stored", "deleted"}
  PROVE  OneMoves(c)
<1>1. calls' \in [Callers -> Call] /\ decided' \in [Callers -> Answer]
  BY SaysTyped DEF Inv
<1>2. decided'[c] = a
  BY DEF Inv, TypeOK, Says
<1>3. ~Spends(c)'
  BY <1>2 DEF Spends
<1> QED
  BY <1>1, <1>3 DEF OneMoves, Says, Inv, TypeOK

LEMMA UnspentAnswered ==
  ASSUME Inv, NEW c \in Callers, NEW r \in Request, NEW a \in Answer,
         Answered(c, r, a), a.kind \notin {"stored", "deleted"}
  PROVE  OneMoves(c)
<1>1. CASE \E t \in {a, Pending} : Says(c, r, a, t)
  BY <1>1, UnspentMoves, AnswersKnown
<1>2. ASSUME NEW x \in Lost, Says(c, r, x, x) PROVE OneMoves(c)
  <2>1. x \in Answer /\ x.kind = "thrown"
    BY AnswersKnown DEF Lost, Thrown
  <2> QED
    BY <1>2, <2>1, UnspentMoves
<1> QED
  BY <1>1, <1>2 DEF Answered

LEMMA AppliedMoves ==
  ASSUME Inv, NEW c \in Callers, NEW r \in Request, NEW a \in Answer, Applied(c, r, a),
         r.op \in {"put", "delete"} /\ r.ifMatch # NoEtag =>
           /\ \E k \in Keys : objects[k] # NoObject /\ objects[k].etag = r.ifMatch
           /\ r.ifMatch \in Gone' \/ r.ifMatch \in cameBack'
  PROVE  OneMoves(c)
<1>1. calls' \in [Callers -> Call] /\ decided' \in [Callers -> Answer]
  BY AppliedTyped DEF Inv
<1>2. PICK x, y : Says(c, r, x, y)
  BY DEF Applied, Answered
<1>3. calls'[c].req = r
  BY <1>2 DEF Says, Inv, TypeOK
<1>4. Spends(c)' => JustSpent(c)
  BY <1>3 DEF Spends, JustSpent
<1> QED
  BY <1>1, <1>2, <1>4 DEF OneMoves, Says, Inv, TypeOK

-------------------------------------------------------------------------------
\* What holds after a step of call c.
Moved(c) == StoreKept /\ OneMoves(c)

LEMMA PutEffectMoves ==
  ASSUME Inv, NEW c \in Callers, NEW r \in Request, PutEffect(c, r)
  PROVE  Moved(c)
<1>1. PICK e \in (IF EtagsComeBack THEN Etag ELSE Etag \ issued), n \in 0..Limit(r) :
        /\ objects' = [objects EXCEPT ![r.key] = [etag |-> e, size |-> n]]
        /\ issued' = issued \cup {e}
        /\ cameBack' = cameBack \cup ({e} \cap issued)
        /\ Applied(c, r, Stored(e, n))
  BY DEF PutEffect
<1>2. /\ e \in Etag /\ n \in Size /\ r.key \in Keys
      /\ Stored(e, n) \in Answer
  BY LimitInRange, AnswersKnown DEF PutEffect, Request, PutRequest, DeleteRequest, ReadRequest
<1>3. StoreKept
  BY <1>1, <1>2, ObjectStored
<1>4. ASSUME r.ifMatch # NoEtag
      PROVE  /\ objects[r.key] # NoObject /\ objects[r.key].etag = r.ifMatch
             /\ r.ifMatch \in Gone' \/ r.ifMatch \in cameBack'
  <2>1. objects[r.key] # NoObject /\ objects[r.key].etag = r.ifMatch
    BY <1>4 DEF PutEffect, Admitted
  <2>2. r.ifMatch \in issued
    BY <1>2, <2>1 DEF Inv, EtagsIssued
  <2>3. ASSUME NEW k \in Keys, objects'[k] # NoObject, objects'[k].etag = r.ifMatch
        PROVE  r.ifMatch \in cameBack'
    <3>1. CASE k = r.key
      BY <1>1, <1>2, <2>2, <2>3, <3>1 DEF Inv, TypeOK
    <3>2. CASE k # r.key
      BY <1>1, <1>2, <2>1, <2>3, <3>2 DEF Inv, TypeOK, OneHolder
    <3> QED
      BY <3>1, <3>2
  <2> QED
    BY <1>1, <2>1, <2>2, <2>3 DEF Gone
<1> QED
  BY <1>1, <1>2, <1>3, <1>4, AppliedMoves DEF Moved

LEMMA DeleteEffectMoves ==
  ASSUME Inv, NEW c \in Callers, NEW r \in Request, DeleteEffect(c, r)
  PROVE  Moved(c)
<1>1. r.key \in Keys
  BY DEF DeleteEffect, Request, PutRequest, DeleteRequest, ReadRequest
<1>2. objects' = [k \in Keys |-> IF k \in {r.key} THEN NoObject ELSE objects[k]]
  BY <1>1 DEF DeleteEffect, Inv, TypeOK
<1>3. StoreKept
  BY <1>1, <1>2, ObjectsRemoved DEF DeleteEffect
<1>4. ASSUME r.ifMatch # NoEtag
      PROVE  /\ objects[r.key] # NoObject /\ objects[r.key].etag = r.ifMatch
             /\ r.ifMatch \in Gone' \/ r.ifMatch \in cameBack'
  <2>1. objects[r.key] # NoObject /\ objects[r.key].etag = r.ifMatch
    BY <1>4 DEF DeleteEffect, Admitted
  <2>2. r.ifMatch \in issued
    BY <1>1, <2>1 DEF Inv, EtagsIssued
  <2>3. ASSUME NEW k \in Keys, objects'[k] # NoObject, objects'[k].etag = r.ifMatch
        PROVE  r.ifMatch \in cameBack'
    BY <1>1, <1>2, <2>1, <2>3 DEF DeleteEffect, Inv, OneHolder
  <2> QED
    BY <2>1, <2>2, <2>3 DEF Gone, DeleteEffect
<1> QED
  BY <1>1, <1>3, <1>4, AppliedMoves, AnswersKnown DEF Moved, DeleteEffect

LEMMA EffectMoves ==
  ASSUME Inv, NEW c \in Callers, NEW r \in Request, Effect(c, r)
  PROVE  Moved(c)
<1>1. ASSUME NEW a \in Answer, Answered(c, r, a), a.kind \notin {"stored", "deleted"},
             UNCHANGED store
      PROVE  Moved(c)
  BY <1>1, UnspentAnswered, StoreUntouched DEF Moved
<1>2. CASE RefuseEffect(c, r)
  BY <1>1, <1>2, AnswersKnown DEF RefuseEffect, Refused
<1>3. CASE ReadEffect(c, r)
  <2>1. r.key \in Keys
    BY <1>3 DEF ReadEffect, Request, PutRequest, DeleteRequest, ReadRequest
  <2>2. objects[r.key] # NoObject => Found(objects[r.key]) \in Answer
    BY <2>1, AnswersKnown DEF Inv, TypeOK
  <2> QED
    BY <1>1, <1>3, <2>2, AnswersKnown DEF ReadEffect, Found, Absent
<1>4. CASE ThrowEffect(c, r)
  BY <1>1, <1>4, AnswersKnown DEF ThrowEffect, Thrown
<1> QED
  BY <1>2, <1>3, <1>4, PutEffectMoves, DeleteEffectMoves DEF Effect

LEMMA TellMoves ==
  ASSUME Inv, NEW c \in Callers, Tell(c)
  PROVE  Moved(c)
<1> DEFINE r == calls[c].req
           a == decided[c]
<1>1. StoreKept
  BY StoreUntouched DEF Tell
<1>2. r \in Request \cup {NoRequest} /\ a \in Answer /\ calls[c] = [req |-> r, ans |-> Pending]
  BY DEF Inv, TypeOK, Call, Tell, InFlight
<1>3. PICK x \in Answer : Says(c, r, x, x) /\ (x = a \/ x.kind = "thrown")
  BY <1>2, AnswersKnown DEF Tell, Lost, Thrown
<1>4. calls'[c] = [req |-> r, ans |-> x] /\ decided'[c] = x
  BY <1>3 DEF Says, Inv, TypeOK
<1>5. calls' \in [Callers -> Call] /\ decided' \in [Callers -> Answer]
  BY <1>2, <1>3 DEF Says, Call, Inv, TypeOK
<1>6. Spends(c)' => StillSpent(c)
  BY <1>3, <1>4 DEF Spends, StillSpent
<1> QED
  BY <1>1, <1>3, <1>5, <1>6 DEF Moved, OneMoves, Says, Inv, TypeOK

LEMMA CallMoves ==
  ASSUME Inv, NEW c \in Callers, Start(c) \/ StartAndServe(c) \/ Serve(c) \/ Tell(c)
  PROVE  Moved(c)
<1>1. CASE Start(c)
  <2>1. PICK r \in Request : Says(c, r, Pending, Pending)
    BY <1>1 DEF Start
  <2>2. OneMoves(c)
    BY <2>1, UnspentMoves, AnswersKnown DEF Pending
  <2> QED
    BY <1>1, <2>2, StoreUntouched DEF Start, Moved
<1>2. CASE StartAndServe(c)
  BY <1>2, EffectMoves DEF StartAndServe
<1>3. CASE Serve(c)
  <2>1. calls[c].req \in Request \cup {NoRequest} /\ Effect(c, calls[c].req)
    BY <1>3 DEF Serve, Inv, TypeOK, Call
  <2>2. calls[c].req # NoRequest
    BY <2>1 DEF Effect, PutEffect, DeleteEffect, RefuseEffect, ReadEffect, ThrowEffect, NoRequest
  <2> QED
    BY <2>1, <2>2, EffectMoves
<1> QED
  BY <1>1, <1>2, <1>3, TellMoves

-------------------------------------------------------------------------------
LEMMA InvInit == Init => Inv
BY AnswersKnown
   DEF Init, Inv, TypeOK, EtagsIssued, OneHolder, SpentIsGone, OneWinner, Spends, NoCall,
       NoRequest, Call

LEMMA InvStep ==
  ASSUME Inv, [Next]_vars
  PROVE  Inv'
<1>1. ASSUME NEW c \in Callers, Moved(c) PROVE Inv'
  <2>1. TypeOK' /\ EtagsIssued' /\ OneHolder'
    BY <1>1 DEF Moved, StoreKept, StoreTyped, OneMoves, TypeOK
  <2>2. ASSUME NEW d \in Callers, Spends(d)'
        PROVE  (d = c /\ JustSpent(d)) \/ StillSpent(d)
    BY <1>1, <2>2 DEF Moved, OneMoves, StillSpent, Spends
  <2>3. SpentIsGone'
    <3> SUFFICES ASSUME NEW d \in Callers, Spends(d)'
                 PROVE  LET e == calls'[d].req.ifMatch IN e \in cameBack' \/ e \in Gone'
      BY DEF SpentIsGone
    <3>1. CASE JustSpent(d)
      BY <3>1 DEF JustSpent
    <3>2. CASE StillSpent(d)
      BY <1>1, <3>2 DEF StillSpent, Inv, SpentIsGone, Moved, StoreKept
    <3> QED
      BY <2>2, <3>1, <3>2
  <2>4. OneWinner'
    <3> SUFFICES ASSUME NEW b \in Callers, NEW d \in Callers, b # d, Spends(b)', Spends(d)',
                        calls'[b].req.ifMatch = calls'[d].req.ifMatch
                 PROVE  calls'[b].req.ifMatch \in cameBack'
      BY DEF OneWinner
    <3>1. cameBack \subseteq cameBack'
      BY <1>1 DEF Moved, StoreKept
    <3>2. ASSUME NEW w \in Callers, NEW l \in Callers, JustSpent(w), StillSpent(l),
                 calls'[w].req.ifMatch = calls'[l].req.ifMatch
          PROVE  calls'[w].req.ifMatch \in cameBack
      BY <3>2 DEF JustSpent, StillSpent, Inv, SpentIsGone, Gone
    <3>3. CASE StillSpent(b) /\ StillSpent(d)
      BY <3>1, <3>3 DEF StillSpent, Inv, OneWinner
    <3> QED
      BY <2>2, <3>1, <3>2, <3>3
  <2> QED
    BY <2>1, <2>3, <2>4 DEF Inv
<1>2. CASE Perish
  <2>1. objects' = [k \in Keys |-> IF k \in Keys THEN NoObject ELSE objects[k]]
    BY <1>2 DEF Perish
  <2>2. StoreKept
    BY <1>2, <2>1, ObjectsRemoved DEF Perish
  <2>3. TypeOK' /\ EtagsIssued' /\ OneHolder'
    BY <1>2, <2>2 DEF Perish, StoreKept, StoreTyped, Inv, TypeOK
  <2>4. SpentIsGone' /\ OneWinner'
    BY <1>2, <2>2 DEF Perish, StoreKept, Inv, SpentIsGone, OneWinner, Spends
  <2> QED
    BY <2>3, <2>4 DEF Inv
<1>3. CASE UNCHANGED vars
  BY <1>3 DEF vars, Inv, TypeOK, EtagsIssued, OneHolder, SpentIsGone, OneWinner, Spends, Gone
<1> QED
  BY <1>1, <1>2, <1>3, CallMoves DEF Next

LEMMA InvHolds == Spec => []Inv
BY InvInit, InvStep, PTL DEF Spec

\* Whatever the store does, its answers are of the kinds the interface names.
THEOREM TypeCorrect == Spec => []TypeOK
BY InvHolds, PTL DEF Inv

\* No store that keeps the BlobStore promise, however weakened, tells two callers
\* that they replaced or deleted one and the same version.
THEOREM OneWinnerHolds == Spec => []OneWinner
BY InvHolds, PTL DEF Inv
===============================================================================
