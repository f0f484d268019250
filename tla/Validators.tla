------------------------------- MODULE Validators -------------------------------
(***************************************************************************)
(* The checks every store makes of a call before anything else, as the     *)
(* rules a call may break.  A string is known by what the checks tell      *)
(* apart; its characters are left out, and its name is its identity.       *)
(*                                                                         *)
(* A validator is a record with a Boolean per rule: TRUE where the call    *)
(* breaks it.  A call that breaks any is rejected with                     *)
(* BlobValidationError; which rule is named first is left out.  So is the  *)
(* rule that no metadata name comes twice: the entries are those of one    *)
(* object, whose names differ.                                             *)
(***************************************************************************)
EXTENDS Integers, SequencesExt


MaxKeyBytes == 1024
MaxKeySegments == 254
MaxHeaderBytes == 256             \* a content type, a cache control
MaxMetadataEntries == 16
MaxMetadataKeyBytes == 64
MaxMetadataValueBytes == 256
MaxMetadataBytes == 2048
MaxListPageSize == 1000
MaxEmptyBodyChunks == 10000       \* without progress

\* A value that breaks no rule: a string of `n' UTF-8 bytes.
Text(name, n) ==
  [name |-> name, given |-> TRUE, string |-> TRUE, bytes |-> n, wellFormed |-> TRUE, control |-> FALSE,
   ascii |-> TRUE, padded |-> FALSE, wildcard |-> FALSE, pattern |-> TRUE,
   segments |-> 1, dots |-> {}]

Omitted == [Text("", 0) EXCEPT !.given = FALSE]

IsEmpty(t) == t.given /\ (~t.string \/ t.bytes = 0)

\* assertBlobPathString, for a key or a prefix.
PathRules(t) ==
  [pathEmpty    |-> IsEmpty(t),
   pathUnicode  |-> t.given /\ ~t.wellFormed,
   pathControl  |-> t.given /\ t.control,
   pathBytes    |-> t.given /\ t.bytes > MaxKeyBytes,
   pathSegments |-> t.given /\ t.segments > MaxKeySegments,
   pathDot      |-> t.given /\ "." \in t.dots,
   pathDotDot   |-> t.given /\ ".." \in t.dots]

ContentTypeRules(t) ==
  [typeEmpty  |-> IsEmpty(t),
   typeAscii  |-> t.given /\ ~t.ascii,
   typePadded |-> t.given /\ t.padded,
   typeBytes  |-> t.given /\ t.bytes > MaxHeaderBytes]

CacheControlRules(t) ==
  [cacheEmpty  |-> IsEmpty(t),
   cacheAscii  |-> t.given /\ ~t.ascii,
   cachePadded |-> t.given /\ t.padded,
   cacheBytes  |-> t.given /\ t.bytes > MaxHeaderBytes]

\* The bytes of all names and values of a sequence of metadata entries.
MetadataBytes(entries) ==
  FoldSeq(LAMBDA e, sum : sum + e.name.bytes + e.value.bytes, 0, entries)

\* normalizeUserMetadata, on the entries of the object it is given.
MetadataRules(entries) ==
  LET Some(P(_)) == \E i \in DOMAIN entries : P(entries[i])
  IN [metaEntries |-> Len(entries) > MaxMetadataEntries,
      metaPattern |-> Some(LAMBDA e : ~e.name.pattern),
      metaKeyBytes |-> Some(LAMBDA e : e.name.bytes > MaxMetadataKeyBytes),
      metaString |-> Some(LAMBDA e : ~e.value.string),
      metaAscii |-> Some(LAMBDA e : ~e.value.ascii),
      metaPadded |-> Some(LAMBDA e : e.value.padded),
      metaValueBytes |-> Some(LAMBDA e : e.value.bytes > MaxMetadataValueBytes),
      metaTotal |-> MetadataBytes(entries) > MaxMetadataBytes]

\* assertValidEtag
EtagRules(t) ==
  [etagEmpty    |-> IsEmpty(t),
   etagControl  |-> t.given /\ t.control,
   etagWildcard |-> t.given /\ t.wildcard]

\* A put's conditions: one at most, and ifNoneMatch is "*".
ConditionRules(ifNoneMatch, ifMatch) ==
  [bothConditions |-> ifNoneMatch.given /\ ifMatch.given,
   noneMatchNotAll |-> ifNoneMatch.given /\ ~ifNoneMatch.wildcard]

\* assertMaxBytes: -1 stands for a limit that is left out.  A number that is not whole is
\* given rounded down.
MaxBytesRules(maxBytes, whole, storeMax) ==
  [maxBytesFraction |-> ~whole,
   maxBytesNegative |-> maxBytes < -1,
   maxBytesRaised |-> maxBytes > storeMax]

\* assertListLimit
ListLimitRules(limit, whole) ==
  [limitFraction |-> ~whole,
   limitTooSmall |-> limit < 1,
   limitTooLarge |-> limit > MaxListPageSize]

\* A listing's cursor must decode, to one this backend issued.
CursorRules(malformed, issuer, backend) ==
  [cursorMalformed |-> malformed,
   cursorForeign |-> ~malformed /\ issuer # backend]

Broken(rules) == {rule \in DOMAIN rules : rules[rule]}
===============================================================================
