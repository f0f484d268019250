------------------------------- MODULE BlobStore ------------------------------
(***************************************************************************)
(* What the BlobStore interface promises, for any implementation.          *)
(*                                                                         *)
(* A call takes effect at ONE moment between its start and its answer: at  *)
(* that moment its conditions are judged against the object at its key, a  *)
(* put or delete they admit is applied whole, and its answer is decided;   *)
(* the caller may be told later.  A put that stores gets an etag no object *)
(* ever had.  A call that throws has had no effect.                        *)
(*                                                                         *)
(* A remote store promises less.  Lossy: an answer may be lost on its way, *)
(* so a call that throws may have had its effect.  BlindDelete: an         *)
(* unconditional delete may report success on a key that is free.          *)
(* EtagsComeBack: an etag names the bytes and not the version, so that the *)
(* same bytes put again have the etag they had before; a call that names   *)
(* such an etag may be told 'changed' when it is back already.  Resends:   *)
(* the client repeats a put or delete whose answer was lost, so that it    *)
(* may take effect again.  Perishable: the owner of the store may delete   *)
(* all that is in it, and while that goes on a create-only put may be told *)
(* that its free key exists.                                               *)
(***************************************************************************)
EXTENDS BlobPort

CONSTANTS Lossy, BlindDelete, EtagsComeBack, Resends, Perishable     \* Booleans

VARIABLES
  objects,          \* objects[k]: the object at key k, or NoObject
  issued,           \* the etags given out so far
  cameBack,         \* those given out more than once
  calls,            \* calls[c]: the request of call c and the answer it was told
  decided           \* decided[c]: the answer call c was or will be told

vars == <<objects, issued, cameBack, calls, decided>>
store == <<objects, issued, cameBack>>

TypeOK ==
  /\ objects \in [Keys -> Object \cup {NoObject}]
  /\ cameBack \subseteq issued /\ issued \subseteq Etag
  /\ calls \in [Callers -> Call]
  /\ decided \in [Callers -> Answer]

Init ==
  /\ objects = [k \in Keys |-> NoObject]
  /\ issued = {} /\ cameBack = {}
  /\ calls = [c \in Callers |-> NoCall]
  /\ decided = [c \in Callers |-> NoCall.ans]

-------------------------------------------------------------------------------
\* The size ceiling of a put: per-call maxBytes may only lower the store's.
Limit(r) == IF r.maxBytes = Unset THEN MaxObjectBytes ELSE r.maxBytes

\* Options no store accepts: both conditions at once, a ceiling out of range.
Illegal(r) ==
  /\ r.op = "put"
  /\ \/ r.createOnly /\ r.ifMatch # NoEtag
     \/ Limit(r) \notin 0..MaxObjectBytes

\* A reason for which request r may be refused while o is at its key.
RefusedFor(reason, r, o) ==
  \/ /\ reason = "exists"
     /\ r.op = "put" /\ r.createOnly
     /\ o # NoObject \/ Perishable
  \/ /\ reason = "missing"
     /\ r.op = "delete" \/ r.ifMatch # NoEtag
     /\ o = NoObject
  \/ /\ reason = "changed"
     /\ r.ifMatch # NoEtag
     /\ o # NoObject /\ (o.etag # r.ifMatch \/ r.ifMatch \in cameBack)

Admitted(r, o) ==
  /\ r.op = "put" /\ r.createOnly => o = NoObject
  /\ r.op = "delete" => o # NoObject
  /\ r.ifMatch # NoEtag => o # NoObject /\ o.etag = r.ifMatch

\* Call c with request r is told t, while its answer is (to be) a.
Says(c, r, a, t) ==
  /\ decided' = [decided EXCEPT ![c] = a]
  /\ calls' = [calls EXCEPT ![c] = [req |-> r, ans |-> t]]

Lost == {Thrown("BlobStoreError"), Thrown("OtherError")}

\* The answer a is decided: told at once, told later, or lost.
Answered(c, r, a) ==
  \/ \E t \in {a, Pending} : Says(c, r, a, t)
  \/ Lossy /\ \E x \in Lost : Says(c, r, x, x)

\* An effect whose answer is a, unless it is to be repeated.
Applied(c, r, a) == Answered(c, r, a) \/ (Resends /\ Says(c, r, Pending, Pending))

-------------------------------------------------------------------------------
\* The moment request r of call c takes effect, and the answers it may get.
PutEffect(c, r) ==
  /\ r.op = "put" /\ ~Illegal(r) /\ ~r.bodyFails /\ Admitted(r, objects[r.key])
  /\ \E e \in (IF EtagsComeBack THEN Etag ELSE Etag \ issued), n \in 0..Limit(r) :
       /\ objects' = [objects EXCEPT ![r.key] = [etag |-> e, size |-> n]]
       /\ issued' = issued \cup {e}
       /\ cameBack' = cameBack \cup ({e} \cap issued)
       /\ Applied(c, r, Stored(e, n))

DeleteEffect(c, r) ==
  /\ r.op = "delete"
  /\ Admitted(r, objects[r.key]) \/ (BlindDelete /\ r.ifMatch = NoEtag)
  /\ objects' = [objects EXCEPT ![r.key] = NoObject]
  /\ Applied(c, r, Deleted)
  /\ UNCHANGED <<issued, cameBack>>

RefuseEffect(c, r) ==
  /\ r.op \in {"put", "delete"} /\ ~Illegal(r)
  /\ \E reason \in Reasons :
       RefusedFor(reason, r, objects[r.key]) /\ Answered(c, r, Refused(reason))
  /\ UNCHANGED store

ReadEffect(c, r) ==
  /\ r.op \in {"get", "head"}
  /\ Answered(c, r, IF objects[r.key] = NoObject THEN Absent ELSE Found(objects[r.key]))
  /\ UNCHANGED store

\* Illegal options and a failing body throw, and nothing else does: a put that loses
\* a race is refused.
ThrowEffect(c, r) ==
  /\ r.op = "put"
  /\ \E x \in Errors :
       /\ IF Illegal(r) THEN x = "BlobValidationError" ELSE r.bodyFails
       /\ Answered(c, r, Thrown(x))
  /\ UNCHANGED store

Effect(c, r) ==
  \/ PutEffect(c, r)
  \/ DeleteEffect(c, r)
  \/ RefuseEffect(c, r)
  \/ ReadEffect(c, r)
  \/ ThrowEffect(c, r)

-------------------------------------------------------------------------------
InFlight(c) == calls[c].ans = Pending

\* A caller starts a call that waits for its body or for a backend.
Start(c) ==
  /\ ~InFlight(c)
  /\ LET r == calls'[c].req IN r \in Request /\ Says(c, r, Pending, Pending)
  /\ UNCHANGED store

\* A call in flight takes effect, in the step that starts it or in a later one.
StartAndServe(c) ==
  /\ ~InFlight(c)
  /\ LET r == calls'[c].req IN r \in Request /\ Effect(c, r)

Serve(c) == InFlight(c) /\ decided[c] = Pending /\ Effect(c, calls[c].req)

\* The caller is told what was decided, or the answer is lost.
Tell(c) ==
  /\ InFlight(c)
  /\ LET r == calls[c].req
         a == decided[c]
     IN  \/ a # Pending /\ Says(c, r, a, a)
         \/ Lossy /\ \E x \in Lost : Says(c, r, x, x)
  /\ UNCHANGED store

\* The owner deletes all that the store holds.
Perish ==
  /\ Perishable
  /\ objects' = [k \in Keys |-> NoObject]
  /\ UNCHANGED <<issued, cameBack, calls, decided>>

Next ==
  \/ \E c \in Callers : Start(c) \/ StartAndServe(c) \/ Serve(c) \/ Tell(c)
  \/ Perish

Spec == Init /\ [][Next]_vars

-------------------------------------------------------------------------------
\* Call c was let replace or remove the version that its ifMatch names.
Spends(c) ==
  /\ calls[c].req.op \in {"put", "delete"} /\ decided[c].kind \in {"stored", "deleted"}
  /\ calls[c].req.ifMatch # NoEtag

\* What ifMatch is for: of the callers that read one version and then replace or
\* delete it, two are never told that they did, at whatever moments the
\* conditions of their calls are judged.  (Where an etag names the bytes, two are
\* told so only if that version came back.)
OneWinner ==
  \A c, d \in Callers :
    /\ c # d /\ Spends(c) /\ Spends(d)
    /\ calls[c].req.ifMatch = calls[d].req.ifMatch
    => calls[c].req.ifMatch \in cameBack
===============================================================================
