------------------------------ MODULE MCConformance -----------------------------
(* Conformance on every deviation, with three concurrent writers. *)
EXTENDS Conformance

Rules ==
  DOMAIN (PathRules(Omitted) @@ ContentTypeRules(Omitted) @@ CacheControlRules(Omitted)
            @@ MetadataRules(<<>>) @@ EtagRules(Omitted) @@ ConditionRules(Omitted, Omitted)
            @@ MaxBytesRules(0, TRUE, 0) @@ ListLimitRules(1, TRUE) @@ CursorRules(FALSE, 1, 1))

\* What no case of the suite asserts.
NotAsserted ==
  {"pathUnicode", "typeEmpty", "typeBytes", "metaEntries", "metaKeyBytes",
   "metaString", "metaValueBytes", "maxBytesFraction", "maxBytesNegative", "limitFraction",
   "lateIfMatchUnchecked", "cursorByIndex"}

AssertedOn == (Rules \cup Mistakes) \ NotAsserted
===============================================================================
