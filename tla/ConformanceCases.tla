---------------------------- MODULE ConformanceCases ----------------------------
(***************************************************************************)
(* The cases of the conformance suite.  A case is a sequence of steps      *)
(* `call |= expected': a call of a store, and what the case asserts of its *)
(* answer, field by field.  Beside the answer's own fields, sameEtag and   *)
(* newEtag compare its etag with that of an earlier step's answer, and     *)
(* readsAbove the reads of an endless body with a number.                  *)
(*                                                                         *)
(* A text is one byte here unless a ceiling is about its length; the       *)
(* bodies whose sizes are compared keep the sizes they have.  A key is a   *)
(* number, in the order of the names: 10*p + n is the n-th key under the   *)
(* prefix p.                                                               *)
(*                                                                         *)
(* A definition marked "slip" is used nowhere: put in the place of the one *)
(* below it, it is the mistake that a property is there to catch.          *)
(***************************************************************************)
EXTENDS Validators, TLC

CONSTANT Writers                  \* the puts of the concurrent case

Key(n) == Text(n, 1)
Value(name) == Text(name, 1)
Entry(name, value) == [name |-> name, value |-> value]
DefaultContentType == Value("application/octet-stream")

\* The bodies: a byte array, or a stream of chunks that may use one buffer for
\* all of them, go on with empty chunks for ever, or hang when it is cancelled.
Body(kind, chunks) ==
  [kind |-> kind, chunks |-> chunks, endless |-> FALSE, cancelHangs |-> FALSE]

Bytes(bytes) == Body("array", <<bytes>>)
Stream(chunks) == Body("stream", chunks)
Filled(n, byte) == [i \in 1..n |-> byte]
X == Bytes(<<"x">>)

-------------------------------------------------------------------------------
\* The calls, each made on a store the factory returns for backend 1 or 2; a limit or a
\* maxBytes is a whole number in every case.
Common ==
  [backend |-> 1, handle |-> 1, storeMax |-> 1024, whole |-> TRUE]

Put(key, body) ==
  Common @@ [op |-> "put", key |-> key, body |-> body, ifMatch |-> Omitted,
             ifNoneMatch |-> Omitted, contentType |-> Omitted, cacheControl |-> Omitted,
             userMetadata |-> <<>>, maxBytes |-> -1]

Get(key) == Common @@ [op |-> "get", key |-> key]
HeadOf(key) == Common @@ [op |-> "head", key |-> key]
Delete(key) == Common @@ [op |-> "delete", key |-> key, ifMatch |-> Omitted]
List(prefix, limit) ==
  Common @@ [op |-> "list", prefix |-> prefix, limit |-> limit, cursor |-> 0,
             malformed |-> FALSE]

\* What else a case does: it reads the body that step i was given, and
\* overwrites the array it put.
ReadBodyOf(i) == Common @@ [op |-> "read", of |-> i]
Overwrite(key) == Common @@ [op |-> "overwrite", key |-> key]

\* Options: `option @@ call'.
Wildcard == [Value("*") EXCEPT !.wildcard = TRUE]
CreateOnly == [ifNoneMatch |-> Wildcard]
NeverIssued == [ifMatch |-> Value(0)]
IfMatch(i) == [ifMatch |-> Value(i)]          \* the etag step i was given
Cursor(i) == [cursor |-> i]                   \* the cursor step i was given

\* Several create-only puts started at once, all waited for.
Race(key) == CreateOnly @@ [op |-> "race"] @@ Put(key, X)

call |= expected == [call |-> call, expected |-> expected]

Anything == <<>>
Stored == [is |-> "stored"]
Refused(reason) == [is |-> "refused", reason |-> reason]
Deleted == [is |-> "deleted"]
Null == [is |-> "null"]
Found == [is |-> "found"]
Page(keys, more) == [is |-> "page", keys |-> keys, more |-> more]
Invalid == [is |-> "BlobValidationError"]
TooLarge(limit) == [is |-> "BlobSizeLimitError", limitBytes |-> limit]

Rejected(call) == call |= Invalid

-------------------------------------------------------------------------------
GetMissing == <<Get(Key(1)) |= Null>>

HeadMissing == <<HeadOf(Key(1)) |= Null>>

RoundTrip ==
  <<Put(Key(1), Bytes(<<"hello-blob">>)) |= Stored @@ [size |-> 1, hasEtag |-> TRUE],
    Get(Key(1)) |= Found @@ [key |-> Key(1), size |-> 1, contentType |-> DefaultContentType,
                             sameEtag |-> 1, userMetadata |-> <<>>,
                             bytes |-> <<"hello-blob">>]>>

StoresAttributes ==
  LET json == Value("application/json")
      meta == <<Entry(Value("source"), Value("conformance")), Entry(Value("attempt"), Value("1"))>>
  IN <<[contentType |-> json, userMetadata |-> meta] @@ Put(Key(1), X) |= Stored,
       HeadOf(Key(1)) |= Found @@ [contentType |-> json, userMetadata |-> meta, size |-> 1]>>

Replaces ==
  <<Put(Key(1), Bytes(<<"one">>)) |= Stored,
    Put(Key(1), Bytes(<<"two">>)) |= Stored @@ [newEtag |-> 1],
    Get(Key(1)) |= Found @@ [sameEtag |-> 2, bytes |-> <<"two">>]>>

EmptyBody ==
  LET type == Value("application/x-empty")
  IN <<[contentType |-> type] @@ Put(Key(1), Bytes(<<>>)) |= Stored @@ [size |-> 0],
       Get(Key(1)) |= Found @@ [size |-> 0, contentType |-> type, bytes |-> <<>>]>>

MultiChunk ==
  <<[contentType |-> Value("text/plain")]
      @@ Put(Key(1), Stream(<<<<"alpha">>, <<"beta">>, <<"gamma">>>>)) |= Stored @@ [size |-> 3],
    Get(Key(1)) |= Found @@ [bytes |-> <<"alpha", "beta", "gamma">>]>>

CreateFree == <<CreateOnly @@ Put(Key(1), Bytes(<<"fresh">>)) |= Stored>>

CreateTaken ==
  <<Put(Key(1), Bytes(<<"first">>)) |= Anything,
    CreateOnly @@ Put(Key(1), Bytes(<<"second">>)) |= Refused("exists"),
    Get(Key(1)) |= Found @@ [bytes |-> <<"first">>]>>

IfMatchReplaces ==
  <<Put(Key(1), Bytes(<<"v1">>)) |= Stored,
    IfMatch(1) @@ Put(Key(1), Bytes(<<"v2">>)) |= Stored,
    Get(Key(1)) |= Found @@ [bytes |-> <<"v2">>, sameEtag |-> 2]>>

IfMatchStale ==
  <<Put(Key(1), Bytes(<<"v1">>)) |= Stored,
    Put(Key(1), Bytes(<<"v2">>)) |= Stored,
    IfMatch(1) @@ Put(Key(1), Bytes(<<"v3">>)) |= Refused("changed"),
    Get(Key(1)) |= Found @@ [bytes |-> <<"v2">>]>>

IfMatchMissing ==
  <<NeverIssued @@ Put(Key(1), Bytes(<<"nope">>)) |= Refused("missing"),
    HeadOf(Key(1)) |= Null>>

DeleteRemoves ==
  <<Put(Key(1), Bytes(<<"gone">>)) |= Anything,
    Delete(Key(1)) |= Deleted,
    Get(Key(1)) |= Null>>

DeleteMissing == <<Delete(Key(1)) |= Refused("missing")>>

DeleteIfMatch ==
  <<Put(Key(1), X) |= Stored,
    IfMatch(1) @@ Delete(Key(1)) |= Deleted,
    HeadOf(Key(1)) |= Null>>

DeleteStale ==
  <<Put(Key(1), Bytes(<<"v1">>)) |= Stored,
    Put(Key(1), Bytes(<<"v2">>)) |= Anything,
    IfMatch(1) @@ Delete(Key(1)) |= Refused("changed"),
    HeadOf(Key(1)) |= Found>>

DeleteIfMatchMissing == <<NeverIssued @@ Delete(Key(1)) |= Refused("missing")>>

-------------------------------------------------------------------------------
ListsPrefix ==
  <<Put(Key(12), Bytes(<<"b">>)) |= Anything,
    Put(Key(11), Bytes(<<"a">>)) |= Anything,
    Put(Key(29), Bytes(<<"z">>)) |= Anything,
    Put(Key(13), Bytes(<<"c">>)) |= Anything,
    List(Key(1), 10) |= Page(<<11, 12, 13>>, FALSE) @@ [sizes |-> <<1, 1, 1>>, haveEtags |-> TRUE]>>

OneHandlePages ==                                   \* slip
  <<Put(Key(11), Bytes(<<"a">>)) |= Anything,
    Put(Key(12), Bytes(<<"b">>)) |= Anything,
    Put(Key(13), Bytes(<<"c">>)) |= Anything,
    Put(Key(14), Bytes(<<"d">>)) |= Anything,
    List(Key(1), 2) |= Page(<<11, 12>>, TRUE),
    Cursor(5) @@ List(Key(1), 2) |= Page(<<13, 14>>, FALSE)>>

ListPages ==
  <<Put(Key(11), Bytes(<<"a">>)) |= Anything,
    Put(Key(12), Bytes(<<"b">>)) |= Anything,
    Put(Key(13), Bytes(<<"c">>)) |= Anything,
    Put(Key(14), Bytes(<<"d">>)) |= Anything,
    List(Key(1), 2) |= Page(<<11, 12>>, TRUE),
    Cursor(5) @@ [handle |-> 2] @@ List(Key(1), 2) |= Page(<<13, 14>>, FALSE)>>

ListsAll ==
  <<Put(Key(99), Bytes(<<"z">>)) |= Anything,
    Put(Key(1), Bytes(<<"a">>)) |= Anything,
    List(Omitted, 10) |= [is |-> "page", keys |-> <<1, 99>>]>>

ListLimits ==
  <<Rejected(List(Omitted, 0)), Rejected(List(Omitted, MaxListPageSize + 1))>>

ListMalformedCursor ==
  <<Put(Key(1), Bytes(<<"a">>)) |= Anything,
    Rejected([malformed |-> TRUE] @@ List(Omitted, 1))>>

EmptyKey ==
  <<Rejected(Put(Text(0, 0), X)), Rejected(Get(Text(0, 0)))>>

\* Each of the eight names has a segment "." or "..".
DotSegments ==
  LET Key1(dot) == [Key(1) EXCEPT !.dots = {dot}, !.bytes = 3]
      Of(key) == <<Rejected(Put(key, X)), Rejected(Get(key)), Rejected(HeadOf(key)),
                   Rejected(Delete(key)), Rejected(List(key, 1))>>
  IN Of(Key1(".")) \o Of(Key1(".."))

ControlInKey == <<Rejected(Put([Key(1) EXCEPT !.control = TRUE], X))>>

LongKey == <<Rejected(Put(Text(1, MaxKeyBytes + 1), X))>>

BothConditions == <<Rejected(CreateOnly @@ NeverIssued @@ Put(Key(1), X))>>

MetadataKeys ==
  <<Rejected([userMetadata |-> <<Entry([Value("k") EXCEPT !.pattern = FALSE], Value("yes"))>>]
               @@ Put(Key(1), X))>>

MetadataAscii ==
  <<Rejected([userMetadata |-> <<Entry(Value("label"), [Value("v") EXCEPT !.ascii = FALSE])>>]
               @@ Put(Key(1), X))>>

ContentTypeAscii ==
  <<Rejected([contentType |-> [Value("type") EXCEPT !.ascii = FALSE]] @@ Put(Key(1), X))>>

SurroundingWhitespace ==
  <<Rejected([contentType |-> [Value("type") EXCEPT !.padded = TRUE]] @@ Put(Key(1), X)),
    Rejected([userMetadata |-> <<Entry(Value("label"), [Value("v") EXCEPT !.padded = TRUE])>>]
               @@ Put(Key(2), X))>>

\* Eight entries with names of two bytes and values of n.
EightEntries(n) == [i \in 1..8 |-> Entry(Text(i, 2), Text("v", n))]

MetadataTooBig ==
  <<Rejected([userMetadata |-> EightEntries(256)] @@ Put(Key(1), X))>>

MetadataExact ==
  <<[userMetadata |-> EightEntries(254)] @@ Put(Key(1), X) |= Stored,
    HeadOf(Key(1)) |= Found @@ [userMetadata |-> EightEntries(254)]>>

TooManySegments ==
  <<Rejected(Put([Text(1, 509) EXCEPT !.segments = MaxKeySegments + 1], X))>>

-------------------------------------------------------------------------------
CopiesArray ==
  <<Put(Key(1), Bytes(<<1, 2, 3, 4>>)) |= Stored,
    Overwrite(Key(1)) |= Anything,
    Get(Key(1)) |= Found @@ [bytes |-> <<1, 2, 3, 4>>]>>

CopiesScratch ==
  <<Put(Key(1), Body("scratch", <<<<1>>, <<2>>, <<3>>>>)) |= Stored,
    Get(Key(1)) |= Found @@ [bytes |-> <<1, 2, 3>>]>>

ManyChunks ==
  <<Put(Key(1), Stream([i \in 1..200 |-> <<i>>])) |= Stored @@ [size |-> 200],
    Get(Key(1)) |= Found @@ [bytes |-> [i \in 1..200 |-> i]]>>

EmptyChunks ==
  <<Put(Key(1), Stream(<<<<>>, <<"left">>, <<>>, <<>>, <<"right">>, <<>>>>)) |= Stored,
    Get(Key(1)) |= Found @@ [bytes |-> <<"left", "right">>]>>

\* The store read more empty chunks than it has to put up with before it gave up.
EmptyChunksForEver ==
  <<Put(Key(1), [Stream(<<>>) EXCEPT !.endless = TRUE])
      |= Invalid @@ [readsAbove |-> MaxEmptyBodyChunks],
    HeadOf(Key(1)) |= Null>>

\* 64 chunks of 16 KiB; each is one element here.
LargeStream ==
  <<Put(Key(1), Stream([i \in 1..64 |-> <<i>>])) |= Stored @@ [size |-> 64],
    Get(Key(1)) |= Found @@ [bytes |-> [i \in 1..64 |-> i]]>>

BodyIsSnapshot ==
  <<Put(Key(1), Bytes(<<"before">>)) |= Anything,
    Get(Key(1)) |= Found,
    Put(Key(1), Bytes(<<"after">>)) |= Anything,
    ReadBodyOf(2) |= [bytes |-> <<"before">>],
    Get(Key(1)) |= Found @@ [bytes |-> <<"after">>]>>

ReplacesMetadata ==
  LET only(v) == Entry(Value("only"), Value(v))
  IN <<[userMetadata |-> <<Entry(Value("keep"), Value("no")), only("first")>>]
         @@ Put(Key(1), Bytes(<<"a">>)) |= Anything,
       [userMetadata |-> <<only("second")>>] @@ Put(Key(1), Bytes(<<"b">>)) |= Anything,
       HeadOf(Key(1)) |= Found @@ [userMetadata |-> <<only("second")>>]>>

IfNoneMatchOther == <<Rejected([ifNoneMatch |-> Value("etag-value")] @@ Put(Key(1), X))>>

\* Both a put and a delete refuse to be conditional on this etag.
RejectsEtag(etag) ==
  <<Rejected([ifMatch |-> etag] @@ Put(Key(1), X)),
    Rejected([ifMatch |-> etag] @@ Delete(Key(1)))>>

EmptyEtag == RejectsEtag(Text(0, 0))

WildcardEtag == RejectsEtag([Value(0) EXCEPT !.wildcard = TRUE])
                  \o RejectsEtag([Value(0) EXCEPT !.wildcard = TRUE, !.padded = TRUE])

ControlInEtag == RejectsEtag([Value(0) EXCEPT !.control = TRUE])

LongestKey ==
  <<Put(Text(1, MaxKeyBytes), Bytes(<<"edge">>)) |= Stored,
    HeadOf(Text(1, MaxKeyBytes)) |= Found @@ [key |-> Text(1, MaxKeyBytes)]>>

ListsFreePrefix ==
  <<Put(Key(11), Bytes(<<"a">>)) |= Anything,
    List(Key(3), 10) |= Page(<<>>, FALSE)>>

GoneAfterDelete ==
  <<Put(Key(1), X) |= Anything,
    Delete(Key(1)) |= Deleted,
    HeadOf(Key(1)) |= Null,
    Get(Key(1)) |= Null>>

-------------------------------------------------------------------------------
StoresCacheControl ==
  LET immutable == Value("public, max-age=31536000, immutable")
  IN <<[cacheControl |-> immutable, contentType |-> Value("image/png")]
         @@ Put(Key(1), Bytes(<<"png">>)) |= Stored,
       HeadOf(Key(1)) |= Found @@ [cacheControl |-> immutable],
       Get(Key(1)) |= Found @@ [cacheControl |-> immutable]>>

NoCacheControl ==
  <<HeadOf(Key(1)) |= Found @@ [cacheControl |-> Omitted],
    Get(Key(1)) |= Found @@ [cacheControl |-> Omitted]>>

OmitsCacheControl == <<Put(Key(1), X) |= Anything>> \o NoCacheControl

ClearsCacheControl ==
  <<[cacheControl |-> Value("no-store")] @@ Put(Key(1), Bytes(<<"v1">>)) |= Anything,
    Put(Key(1), Bytes(<<"v2">>)) |= Anything>> \o NoCacheControl

IllegalCacheControl ==
  LET With(value) == Rejected([cacheControl |-> value] @@ Put(Key(1), X))
  IN <<With(Text("", 0)),
       With([Value("no-store") EXCEPT !.padded = TRUE]),
       With([Value("max-age") EXCEPT !.ascii = FALSE]),
       With(Text("v", MaxHeaderBytes + 1)),
       HeadOf(Key(1)) |= Null>>

-------------------------------------------------------------------------------
\* The cases that take two backends, a store's ceiling, or concurrent writers.
OtherBackend ==
  LET On(b, k) == [backend |-> b] @@ Put(Key(k), X) |= Anything
  IN <<On(1, 11), On(1, 12), On(2, 11), On(2, 12),
       List(Key(1), 1) |= [is |-> "page", more |-> TRUE],
       Rejected(Cursor(5) @@ [backend |-> 2] @@ List(Key(1), 1))>>

AboveCeiling ==
  <<[storeMax |-> 16] @@ Put(Key(1), Bytes(Filled(17, 0))) |= TooLarge(16),
    HeadOf(Key(1)) |= Null>>

StreamAboveCeiling ==
  <<[storeMax |-> 10] @@ Put(Key(1), Stream(<<Filled(6, 1), Filled(6, 2)>>)) |= TooLarge(10)>>

HungCancel ==
  <<[storeMax |-> 4]
      @@ Put(Key(1), [Stream(<<Filled(5, 0)>>) EXCEPT !.cancelHangs = TRUE]) |= TooLarge(4)>>

CallCeiling ==
  LET At(n) == [maxBytes |-> n, storeMax |-> 100]
  IN <<Rejected(At(101) @@ Put(Key(1), X)),
       At(4) @@ Put(Key(1), Bytes(Filled(4, 0))) |= Stored,
       At(4) @@ Put(Key(2), Bytes(Filled(5, 0))) |= TooLarge(4)>>

ConcurrentCreateOnly ==
  <<Race(Key(1)) |= [is |-> "raced", successes |-> 1, refusals |-> {"exists"}],
    Get(Key(1)) |= Found @@ [size |-> 1]>>

AllCases ==
  <<GetMissing, HeadMissing, RoundTrip, StoresAttributes, Replaces, EmptyBody, MultiChunk,
    CreateFree, CreateTaken, IfMatchReplaces, IfMatchStale, IfMatchMissing, DeleteRemoves,
    DeleteMissing, DeleteIfMatch, DeleteStale, DeleteIfMatchMissing, ListsPrefix, ListPages,
    ListsAll, ListLimits, ListMalformedCursor, EmptyKey, DotSegments, ControlInKey, LongKey,
    BothConditions, MetadataKeys, MetadataAscii, ContentTypeAscii, SurroundingWhitespace,
    MetadataTooBig, MetadataExact, TooManySegments, CopiesArray, CopiesScratch, ManyChunks,
    EmptyChunks, EmptyChunksForEver, LargeStream, BodyIsSnapshot, ReplacesMetadata,
    IfNoneMatchOther, EmptyEtag, WildcardEtag, ControlInEtag, LongestKey, ListsFreePrefix,
    GoneAfterDelete, StoresCacheControl, OmitsCacheControl, ClearsCacheControl,
    IllegalCacheControl, OtherBackend, AboveCeiling, StreamAboveCeiling, HungCancel,
    CallCeiling, ConcurrentCreateOnly>>
===============================================================================
