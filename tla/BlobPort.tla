------------------------------- MODULE BlobPort -------------------------------
(***************************************************************************)
(* The vocabulary of the BlobStore port: what a caller may ask of a store  *)
(* and what it may be told.  Everything a caller supplies about an object  *)
(* (bytes, content-type, cache-control, user metadata) is bound to the     *)
(* etag its put was given, so an object is its etag and its size.          *)
(***************************************************************************)
EXTENDS Integers

CONSTANTS
  Callers,          \* calls that can be in flight at once
  Keys,             \* object keys, ordered as the code orders key strings
  MaxObjectBytes,   \* the store's ceiling for one object body
  MaxEtag,          \* bound: the most etags a store issues
  MaxBytesArgs,     \* the maxBytes values callers pass, illegal ones too
  NoObject          \* what a free key holds

ASSUME CallersAssumption == Callers # {}
ASSUME KeysAssumption == Keys \subseteq Nat
ASSUME MaxObjectBytesAssumption == MaxObjectBytes \in Nat
ASSUME MaxEtagAssumption == MaxEtag \in Nat
ASSUME MaxBytesAssumption == MaxBytesArgs \subseteq Int

\* Etags are numbered in the order a store issues them; 0 is "no etag".
NoEtag == 0
Etag == 1..MaxEtag

\* A put without a per-call maxBytes.
Unset == -2

Size == 0..MaxObjectBytes
Object == [etag : Etag, size : Size]

ASSUME NoObjectAssumption == NoObject \notin Object

\* The requests.  createOnly is ifNoneMatch: "*"; ifMatch = NoEtag is "no ifMatch";
\* bodyFails is what will come of reading the body: too large, an illegal chunk, or a
\* stream that fails.
PutRequest == [op : {"put"}, key : Keys, createOnly : BOOLEAN,
               ifMatch : Etag \cup {NoEtag}, maxBytes : MaxBytesArgs, bodyFails : BOOLEAN]
DeleteRequest == [op : {"delete"}, key : Keys, ifMatch : Etag \cup {NoEtag}]
ReadRequest == [op : {"get", "head"}, key : Keys]
NoRequest == [op |-> "none"]
Request == PutRequest \cup DeleteRequest \cup ReadRequest

\* The answers: what the promise of a call resolves to, or the error it rejects with.
Pending == [kind |-> "pending"]
Stored(e, n) == [kind |-> "stored", etag |-> e, size |-> n]
Deleted == [kind |-> "deleted"]
Found(o) == [kind |-> "found", object |-> o]
Absent == [kind |-> "absent"]
Refused(reason) == [kind |-> "refused", reason |-> reason]
Thrown(error) == [kind |-> "thrown", error |-> error]

Reasons == {"exists", "missing", "changed"}
\* OtherError is one the store passes on as it came: a TypeError of a locked
\* body stream, an error of a provider's SDK.
Errors == {"BlobValidationError", "BlobSizeLimitError", "BlobStoreError", "OtherError"}

Answer == {Pending, Deleted, Absent}
            \cup [kind : {"stored"}, etag : Etag, size : Size]
            \cup [kind : {"found"}, object : Object]
            \cup [kind : {"refused"}, reason : Reasons]
            \cup [kind : {"thrown"}, error : Errors]

\* A call: the request in progress, or the last one answered, and its answer.
Call == [req : Request \cup {NoRequest}, ans : Answer]
NoCall == [req |-> NoRequest, ans |-> Absent]
===============================================================================
