---------------------------- MODULE ConformanceStore ----------------------------
(***************************************************************************)
(* The store the conformance suite is run on: the memory store's calls on  *)
(* all attributes of an object, each from its start to its answer.  Or a   *)
(* store that deviates in one point: it leaves out one of the checks of    *)
(* Validators, or makes one of the mistakes below.                         *)
(*                                                                         *)
(* contentEtags: an etag is derived from the bytes, as S3 does; the memory *)
(* store gives each put a new one.                                         *)
(*                                                                         *)
(* A definition marked "slip" is used nowhere: put in the place of the one *)
(* below it, it is the mistake that a property is there to catch.          *)
(***************************************************************************)
EXTENDS ConformanceCases

VARIABLES
  deviation,        \* what the store does wrong, or "none"
  contentEtags

Wrong(what) == deviation = what

\* What an adapter's author may get wrong, beside leaving out a check.
Mistakes ==
  {"ignoresCreateOnly", "ignoresIfMatch", "deleteIgnoresIfMatch",
   "earlyCheckOnly",        \* conditions are not judged again after the body
   "lateIfMatchUnchecked",  \* only the create-only condition is
   "blindDelete",           \* a delete of a free key succeeds
   "deleteKeepsObject",
   "etagPerKey",            \* a replaced object keeps its etag
   "keepsCacheControl", "mergesMetadata",
   "arrayKept", "chunksKept",
   "ceilingOffByOne", "ceilingPerChunk", "callCeilingIgnored",
   "awaitsCancel", "emptyChunksUnbounded", "emptyChunksRefused",
   "liveBody",              \* a body is read when it is consumed
   "headDropsCacheControl", "headFindsNothing",
   "listByAge", "listIgnoresPrefix", "alwaysMore",
   "cursorOfHandle",        \* a cursor works on the handle that issued it
   "cursorByIndex"}         \* a cursor counts the keys already listed

-------------------------------------------------------------------------------
Exists(b, key) == key.name \in DOMAIN b.objects

\* The checks of a call on backend b.
PutRules(r) ==
  PathRules(r.key) @@ ConditionRules(r.ifNoneMatch, r.ifMatch) @@ EtagRules(r.ifMatch)
    @@ ContentTypeRules(r.contentType) @@ CacheControlRules(r.cacheControl)
    @@ MetadataRules(r.userMetadata) @@ MaxBytesRules(r.maxBytes, r.whole, r.storeMax)

ListRules(r) ==
  ListLimitRules(r.limit, r.whole) @@ PathRules(r.prefix)
    @@ CursorRules(r.malformed, r.cursor.backend, r.backend)

CallRules(r) ==
  CASE r.op = "put" -> PutRules(r)
    [] r.op \in {"get", "head"} -> PathRules(r.key)
    [] r.op = "delete" -> PathRules(r.key) @@ EtagRules(r.ifMatch)
    [] r.op = "list" -> ListRules(r)

IsRejected(r) == Broken(CallRules(r)) \ {deviation} # {}

\* The reasons to refuse a put or delete of b's object: one at most.
Refusals(b, r) ==
  LET conditional == r.ifMatch.given /\ ~Wrong("ignoresIfMatch")
                       /\ (r.op = "delete" => ~Wrong("deleteIgnoresIfMatch"))
      taken == Exists(b, r.key)
  IN Broken([exists  |-> r.op = "put" /\ r.ifNoneMatch.given /\ taken
                           /\ ~Wrong("ignoresCreateOnly"),
             missing |-> ~taken /\ (conditional \/ (r.op = "delete" /\ ~Wrong("blindDelete"))),
             changed |-> taken /\ conditional /\ b.objects[r.key.name].etag # r.ifMatch.name])

NotJudgedAgain(b, r) == {}                          \* slip

\* The reasons when it is judged again after its body.
LateRefusals(b, r) ==
  Refusals(b, r) \ (CASE Wrong("earlyCheckOnly") -> {"exists", "missing", "changed"}
                      [] Wrong("lateIfMatchUnchecked") -> {"missing", "changed"}
                      [] OTHER -> {})

-------------------------------------------------------------------------------
\* readBlobBody
Ceiling(r) ==
  IF r.maxBytes = -1 \/ Wrong("callCeilingIgnored") THEN r.storeMax ELSE r.maxBytes

ReadBytes(body) ==
  IF body.kind = "scratch" /\ Wrong("chunksKept")
  THEN FlattenSeq([i \in DOMAIN body.chunks |-> body.chunks[Len(body.chunks)]])
  ELSE FlattenSeq(body.chunks)

CrossesCeiling(r) ==
  IF Wrong("ceilingPerChunk")
  THEN \E i \in DOMAIN r.body.chunks : Len(r.body.chunks[i]) > Ceiling(r)
  ELSE Len(ReadBytes(r.body)) > Ceiling(r) + (IF Wrong("ceilingOffByOne") THEN 1 ELSE 0)

\* A body of empty chunks is given up, after that many reads.
GivenUp ==
  [is |-> Invalid.is,
   reads |-> IF Wrong("emptyChunksRefused") THEN 1 ELSE MaxEmptyBodyChunks + 1]

\* What a body that cannot be stored is answered with.
BodyFailures(r) ==
  {a \in {GivenUp, TooLarge(Ceiling(r)), [is |-> "hangs"]} :
     \/ a = GivenUp /\ r.body.endless /\ ~Wrong("emptyChunksUnbounded")
     \/ a = TooLarge(Ceiling(r)) /\ CrossesCeiling(r)
          /\ ~(r.body.cancelHangs /\ Wrong("awaitsCancel"))
     \/ a = [is |-> "hangs"] /\ (\/ r.body.endless /\ Wrong("emptyChunksUnbounded")
                                 \/ r.body.cancelHangs /\ Wrong("awaitsCancel"))}

\* The etag of an object with these bytes, at a key: its index in b.issued.
EtagFor(b, key, bytes) ==
  IF Wrong("etagPerKey") /\ Exists(b, key) THEN b.objects[key.name].etag
  ELSE IF contentEtags /\ bytes \in ToSet(b.issued)
  THEN CHOOSE i \in DOMAIN b.issued : b.issued[i] = bytes
  ELSE Len(b.issued) + 1

\* The object a put stores: nothing of the one it replaces.
NewObject(b, r) ==
  LET bytes == ReadBytes(r.body)
      old == b.objects[r.key.name]
      keeps(what) == Wrong(what) /\ Exists(b, r.key)
  IN [bytes |-> bytes,
      etag |-> EtagFor(b, r.key, bytes),
      contentType |-> IF r.contentType.given THEN r.contentType ELSE DefaultContentType,
      cacheControl |-> IF keeps("keepsCacheControl") THEN old.cacheControl ELSE r.cacheControl,
      userMetadata |-> IF keeps("mergesMetadata") THEN old.userMetadata \o r.userMetadata
                       ELSE r.userMetadata]

Store(b, r) ==
  LET o == NewObject(b, r)
  IN [objects |-> [k \in DOMAIN b.objects \cup {r.key.name} |->
                     IF k = r.key.name THEN o ELSE b.objects[k]],
      issued |-> IF o.etag > Len(b.issued) THEN Append(b.issued, o.bytes) ELSE b.issued]

StoredAnswer(b, r) ==
  [is |-> "stored", etag |-> NewObject(b, r).etag, hasEtag |-> TRUE,
   size |-> Len(ReadBytes(r.body))]

-------------------------------------------------------------------------------
\* What became of a call: the backend, and the answer.
Outcome(b, answer) == [backend |-> b, answer |-> answer]

PutOutcome(b, r) ==
  CASE Refusals(b, r) # {} -> Outcome(b, Refused(CHOOSE x \in Refusals(b, r) : TRUE))
    [] OTHER -> IF BodyFailures(r) # {}
                THEN Outcome(b, CHOOSE a \in BodyFailures(r) : TRUE)
                ELSE Outcome(Store(b, r), StoredAnswer(b, r))

\* toObjectInfo
Info(b, key) ==
  LET o == b.objects[key.name]
  IN [is |-> "found", key |-> key, size |-> Len(o.bytes), etag |-> o.etag,
      contentType |-> o.contentType, cacheControl |-> o.cacheControl,
      userMetadata |-> o.userMetadata]

GetOutcome(b, r) ==
  Outcome(b, IF Exists(b, r.key)
             THEN Info(b, r.key) @@ [bytes |-> b.objects[r.key.name].bytes]
             ELSE Null)

HeadOutcome(b, r) ==
  Outcome(b, IF ~Exists(b, r.key) \/ Wrong("headFindsNothing") THEN Null
             ELSE [Info(b, r.key) EXCEPT !.cacheControl =
                     IF Wrong("headDropsCacheControl") THEN Omitted ELSE @])

DeleteOutcome(b, r) ==
  IF Refusals(b, r) # {} THEN Outcome(b, Refused(CHOOSE x \in Refusals(b, r) : TRUE))
  ELSE LET kept == IF Wrong("deleteKeepsObject") THEN {} ELSE {r.key.name}
       IN Outcome([b EXCEPT !.objects = [k \in DOMAIN @ \ kept |-> @[k]]], Deleted)

\* The keys a listing finds, in the order it lists them.
Matching(b, prefix) ==
  LET all == {k \in DOMAIN b.objects :
                prefix.given /\ ~Wrong("listIgnoresPrefix") => k \div 10 = prefix.name}
      before(j, k) == IF Wrong("listByAge") THEN b.objects[j].etag < b.objects[k].etag
                      ELSE j < k
  IN SetToSortSeq(all, before)

ListOutcome(b, r) ==
  LET matching == Matching(b, r.prefix)
      rest == IF Wrong("cursorByIndex")
              THEN SubSeq(matching, r.cursor.listed + 1, Len(matching))
              ELSE SelectSeq(matching, LAMBDA k : k > r.cursor.after)
      page == SubSeq(rest, 1, IF r.limit < Len(rest) THEN r.limit ELSE Len(rest))
      object(i) == b.objects[page[i]]
  IN Outcome(b,
       IF Wrong("cursorOfHandle") /\ r.cursor.handle # r.handle THEN Invalid
       ELSE [is |-> "page", keys |-> page,
             sizes |-> [i \in DOMAIN page |-> Len(object(i).bytes)],
             haveEtags |-> \A i \in DOMAIN page : object(i).etag # 0,
             more |-> Len(rest) > Len(page) \/ Wrong("alwaysMore"),
             next |-> [backend |-> r.backend, handle |-> r.handle,
                       after |-> IF page = <<>> THEN r.cursor.after ELSE Last(page),
                       listed |-> r.cursor.listed + Len(page)]])

\* A call of the store, from its checks to its answer.
Call(b, r) ==
  IF IsRejected(r) THEN Outcome(b, Invalid)
  ELSE CASE r.op = "put" -> PutOutcome(b, r)
         [] r.op = "get" -> GetOutcome(b, r)
         [] r.op = "head" -> HeadOutcome(b, r)
         [] r.op = "delete" -> DeleteOutcome(b, r)
         [] r.op = "list" -> ListOutcome(b, r)
===============================================================================
