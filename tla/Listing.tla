-------------------------------- MODULE Listing --------------------------------
(***************************************************************************)
(* list on every store, and a caller that walks a whole listing page by    *)
(* page while puts and deletes go on.  A page depends on nothing but which *)
(* keys are taken, so a bucket is reduced to that set.                     *)
(*                                                                         *)
(* The memory store cuts its pages itself.  The adapters pass on the pages *)
(* of a service: external, it may cut a page short, even to nothing, as    *)
(* long as its continuation token says there may be more.  Every cursor is *)
(* an envelope bound to the store that issued it; the caller may hand it   *)
(* to any store, and may repeat a request that failed.                     *)
(*                                                                         *)
(* A prefix is the set of keys that start with it.  listed and steady are  *)
(* history: how often the walk was shown a key (2 is "twice or more"), and *)
(* which of its keys have been taken ever since it began.                  *)
(*                                                                         *)
(* A definition marked "slip" is used nowhere: put in the place of the one *)
(* below it, it is the mistake that a property is there to catch.          *)
(***************************************************************************)
EXTENDS Integers, FiniteSets

CONSTANTS
  Keys,             \* object keys, ordered as the code orders key strings
  Prefixes,         \* the prefixes callers list by; Keys itself is "no prefix"
  Limits,           \* the limits callers ask for, illegal ones too
  MaxListPageSize,  \* MAX_LIST_PAGE_SIZE
  Stores            \* [kind, id, bucket]; adapters that share these are one store

Kinds == {"memory", "s3", "r2", "azure"}

ASSUME KeysAssumption == Keys \subseteq Nat /\ IsFiniteSet(Keys)
ASSUME PrefixesAssumption == Prefixes \subseteq SUBSET Keys
ASSUME LimitsAssumption == Limits \subseteq Int /\ MaxListPageSize \in Nat \ {0}

\* Hosts give two buckets two backendIds, as the default ones do; a memory
\* store has an id of its own.
ASSUME StoresAssumption ==
  /\ \A s \in Stores : s.kind \in Kinds /\ DOMAIN s = {"kind", "id", "bucket"}
  /\ \A s, t \in Stores : s.kind = t.kind /\ s.id = t.id => s.bucket = t.bucket

VARIABLES
  taken,            \* the taken keys of the bucket that is walked
  walk,             \* the walk: its list options and its progress
  last,             \* the store asked last, and what came back
  listed,           \* history: listed[k] is how often this walk listed key k
  steady            \* history: keys under the prefix taken since the walk began

vars == <<taken, walk, last, listed, steady>>
bucket == <<taken, steady>>

Start == -1         \* no position: list from the first key on
End == -2           \* no continuation: the page was the last one

\* What a cursor string carries; NoCursor is one that was not passed.
Cursor == [kind : Kinds, id : {s.id : s \in Stores}, position : Keys]
NoCursor == [kind |-> "none"]

Walk == [status : {"idle", "walking", "done"}, store : Stores, prefix : SUBSET Keys,
         limit : 1..MaxListPageSize, cursor : Cursor \cup {NoCursor}]

TypeOK ==
  /\ taken \subseteq Keys
  /\ walk \in Walk
  /\ last \in [store : Stores, answer : {"none", "page", "rejected", "failed"}]
  /\ listed \in [Keys -> 0..2]
  /\ steady \subseteq walk.prefix

Init ==
  /\ taken \in SUBSET Keys
  /\ \E s \in Stores :
       /\ walk = [status |-> "idle", store |-> s, prefix |-> {}, limit |-> 1,
                  cursor |-> NoCursor]
       /\ last = [store |-> s, answer |-> "none"]
  /\ listed = [k \in Keys |-> 0]
  /\ steady = {}

-------------------------------------------------------------------------------
\* slip: the id in the envelope is not compared
KindOnly(s, cursor) == cursor = NoCursor \/ cursor.kind = s.kind

\* decode...ListCursor: the envelope must be this kind of store's, and name it.
Accepts(s, cursor) ==
  cursor = NoCursor \/ (cursor.kind = s.kind /\ cursor.id = s.id)

Decoded(cursor) == IF cursor = NoCursor THEN Start ELSE cursor.position

\* encode...ListCursor, of the store's own id; a null cursor ends the listing.
Encoded(s, position) ==
  IF position = End THEN NoCursor
  ELSE [kind |-> s.kind, id |-> s.id, position |-> position]

\* assertListLimit
LegalLimit(n) == n \in 1..MaxListPageSize

-------------------------------------------------------------------------------
\* slip
FromCursor(prefix, position) == {k \in taken \cap prefix : k >= position}

\* The keys that follow a position.
Matching(prefix, position) == {k \in taken \cap prefix : k > position}

\* One page of the memory store: the least `limit' of them.
Page(prefix, position, limit) ==
  LET matching == Matching(prefix, position)
  IN  {k \in matching : Cardinality({j \in matching : j <= k}) <= limit}

\* hasMore: a later key of the prefix is left.
HasMore(prefix, page) ==
  \E final \in page :
    /\ \A k \in page : k <= final
    /\ \E k \in taken \cap prefix : k > final

\* slips: the key the next page begins with; the index of the last one
CursorAtNext(page) == CHOOSE k \in taken : \A j \in page : j < k
CursorByIndex(page) == (CHOOSE final \in page : \A k \in page : k <= final) - 1

\* The afterKey of the cursor a page hands out: its last key.
CursorAfter(page) == CHOOSE final \in page : \A k \in page : k <= final

MemoryPage(prefix, position, limit) ==
  LET page == Page(prefix, position, limit)
  IN  [keys |-> page, next |-> IF HasMore(prefix, page) THEN CursorAfter(page) ELSE End]

\* A service looks at the keys up to some key, returns those that match, at
\* most `limit', and a token for the rest: always when there is a rest.  It may show
\* keys of earlier pages again: "concurrent puts and deletes may produce duplicates".
ServicePages(prefix, position, limit) ==
  LET matching == Matching(prefix, position)
      UpTo(final) == {k \in matching : k <= final}
      again == SUBSET {k \in taken \cap prefix : k <= position}
  IN  {page \in {[keys |-> UpTo(final) \cup old, token |-> final] :
                   final \in {k \in Keys : k > position}, old \in again}
               \cup {[keys |-> matching \cup old, token |-> End] : old \in again} :
         Cardinality(page.keys) <= limit}

EmptyPageEnds(page) == IF page.keys = {} THEN End ELSE page.token   \* slip

\* S3, R2: IsTruncated and a NextContinuationToken; Azure: a continuationToken.
Continuation(page) == page.token

\* The pages store s may answer with.
Pages(s, prefix, position, limit) ==
  IF s.kind = "memory"
  THEN {MemoryPage(prefix, position, limit)}
  ELSE {[keys |-> p.keys, next |-> Continuation(p)] : p \in ServicePages(prefix, position, limit)}

-------------------------------------------------------------------------------
\* A put takes a free key, a delete frees one; a replacing put changes nothing here.
KeyTaken(k) ==
  /\ k \notin taken
  /\ taken' = taken \cup {k}
  /\ UNCHANGED <<walk, last, listed, steady>>

KeyFreed(k) ==
  /\ k \in taken
  /\ taken' = taken \ {k}
  /\ steady' = steady \ {k}
  /\ UNCHANGED <<walk, last, listed>>

\* A caller begins a walk at store s, without a cursor.
WalkStart(s) ==
  /\ walk.status # "walking"
  /\ \E p \in Prefixes, n \in Limits :
       /\ LegalLimit(n)
       /\ walk' = [status |-> "walking", store |-> s, prefix |-> p, limit |-> n,
                   cursor |-> NoCursor]
       /\ steady' = taken \cap p
  /\ last' = [store |-> s, answer |-> "none"]
  /\ listed' = [k \in Keys |-> 0]
  /\ UNCHANGED taken

\* list rejects the limit before it looks at anything else.
LimitRejected(s) ==
  /\ walk.status # "walking"
  /\ \E n \in Limits : ~LegalLimit(n)
  /\ last' = [store |-> s, answer |-> "rejected"]
  /\ UNCHANGED <<bucket, walk, listed>>

\* A walk begins at its own store; a cursor may be handed to any.
Asks(s) ==
  /\ walk.status = "walking"
  /\ walk.cursor = NoCursor => s = walk.store

\* list with the cursor of the page before; the walk ends on a null cursor.
WalkPage(s) ==
  /\ Asks(s)
  /\ Accepts(s, walk.cursor)
  /\ \E page \in Pages(s, walk.prefix, Decoded(walk.cursor), walk.limit) :
       /\ walk' = [walk EXCEPT !.cursor = Encoded(s, page.next),
                               !.status = IF page.next = End THEN "done" ELSE @]
       /\ listed' = [k \in Keys |-> IF k \in page.keys /\ listed[k] < 2
                                      THEN listed[k] + 1 ELSE listed[k]]
  /\ last' = [store |-> s, answer |-> "page"]
  /\ UNCHANGED bucket

\* BlobValidationError: the cursor does not belong to this store.
CursorRejected(s) ==
  /\ Asks(s)
  /\ ~Accepts(s, walk.cursor)
  /\ last' = [store |-> s, answer |-> "rejected"]
  /\ UNCHANGED <<bucket, walk, listed>>

\* BlobStoreError: the request fails, on Azure perhaps that of ready().
PageFails(s) ==
  /\ Asks(s)
  /\ Accepts(s, walk.cursor)
  /\ s.kind # "memory"
  /\ last' = [store |-> s, answer |-> "failed"]
  /\ UNCHANGED <<bucket, walk, listed>>

Next ==
  \/ \E k \in Keys : KeyTaken(k) \/ KeyFreed(k)
  \/ \E s \in Stores :
       \/ WalkStart(s) \/ LimitRejected(s)
       \/ WalkPage(s) \/ CursorRejected(s) \/ PageFails(s)

\* A caller that walks a listing keeps asking its store for pages, and not all
\* of its requests fail.
Spec == Init /\ [][Next]_vars /\ WF_vars(\E s \in Stores : WalkPage(s))

-------------------------------------------------------------------------------
\* A finished walk has shown every key that was taken from its start to its
\* end: a page boundary, an empty page, a deleted cursor key, a repeated
\* request or another adapter of the same bucket skips none.
WalkFindsSteadyKeys ==
  walk.status = "done" => \A k \in steady : listed[k] > 0

\* The memory store does better than the interface, which lets concurrent puts and
\* deletes produce duplicates: no walk of it shows a key twice, even one deleted and
\* put again meanwhile, nor a key outside its prefix.
WalkListsOnce ==
  walk.store.kind = "memory" =>
    \A k \in Keys : listed[k] <= (IF k \in walk.prefix THEN 1 ELSE 0)

\* A cursor is honoured only where it was issued: no page of a walk comes from
\* another bucket, nor from another memory store.
WalkStaysHome == last.answer = "page" => last.store.bucket = walk.store.bucket

\* No page, not even an empty one, sends a walk back or leaves it where it was: a
\* walk reads on from a later position or is done, whatever is put and deleted.
WalkAdvances ==
  [][(\E s \in Stores : WalkPage(s))
     => walk'.status = "done" \/ Decoded(walk'.cursor) > Decoded(walk.cursor)]_vars

\* Writers cannot keep a walk going for ever: it reaches a null cursor.
WalkEnds == (walk.status = "walking") ~> (walk.status = "done")
===============================================================================
