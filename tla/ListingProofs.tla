----------------------------- MODULE ListingProofs ------------------------------
(***************************************************************************)
(* What is proved of list and of a caller's walk, for any finite set of    *)
(* keys, any prefixes, limits and stores.                                  *)
(***************************************************************************)
EXTENDS Listing, FiniteSetTheorems, WellFoundedInduction, TLAPS

(***************************************************************************)
(* A finite set of keys has a least and a greatest member: of the sets of  *)
(* what is below, or above, one of its members, one is minimal.            *)
(***************************************************************************)
LEMMA Extremes ==
  ASSUME NEW T, T \subseteq Nat, IsFiniteSet(T), T # {}
  PROVE  /\ \E k \in T : \A j \in T : k <= j
         /\ \E k \in T : \A j \in T : j <= k
<1> DEFINE Below(k) == {j \in T : j <= k}
           Above(k) == {j \in T : k <= j}
<1>1. \A k \in T : Below(k) \in FiniteSubsetsOf(T) /\ Above(k) \in FiniteSubsetsOf(T)
  BY FS_Subset DEF FiniteSubsetsOf
<1>2. IsWellFoundedOn(StrictSubsetOrdering(T), FiniteSubsetsOf(T))
  BY FS_StrictSubsetOrderingWellFounded
<1>3. \E k \in T : \A j \in T : k <= j
  <2> DEFINE F == {Below(k) : k \in T}
  <2>1. F \subseteq FiniteSubsetsOf(T) /\ F # {}
    BY <1>1
  <2> HIDE DEF F
  <2>2. PICK x \in F : \A y \in F : ~(<<y, x>> \in StrictSubsetOrdering(T))
    BY <1>2, <2>1, WFMin
  <2> USE DEF F
  <2>3. PICK k \in T : x = Below(k)
    BY <2>2
  <2>4. ASSUME NEW j \in T, ~(k <= j) PROVE FALSE
    <3>1. Below(j) \subseteq Below(k) /\ k \in Below(k) /\ k \notin Below(j)
      <4>1. k <= k /\ ~(k <= j) /\ \A i \in T : i <= j => i <= k
        BY <2>4
      <4> QED
        BY <4>1
    <3>2. Below(j) \in F
      BY <2>4
    <3>3. Below(j) \in SUBSET T /\ x \in SUBSET T /\ Below(j) \subseteq x /\ Below(j) # x
      BY <2>3, <3>1
    <3> HIDE DEF F, Below
    <3>4. <<Below(j), x>> \in StrictSubsetOrdering(T)
      BY <3>3 DEF StrictSubsetOrdering
    <3> QED
      BY <2>2, <3>2, <3>4
  <2> QED
    BY <2>4
<1>4. \E k \in T : \A j \in T : j <= k
  <2> DEFINE F == {Above(k) : k \in T}
  <2>1. F \subseteq FiniteSubsetsOf(T) /\ F # {}
    BY <1>1
  <2> HIDE DEF F
  <2>2. PICK x \in F : \A y \in F : ~(<<y, x>> \in StrictSubsetOrdering(T))
    BY <1>2, <2>1, WFMin
  <2> USE DEF F
  <2>3. PICK k \in T : x = Above(k)
    BY <2>2
  <2>4. ASSUME NEW j \in T, ~(j <= k) PROVE FALSE
    <3>1. Above(j) \subseteq Above(k) /\ k \in Above(k) /\ k \notin Above(j)
      <4>1. k <= k /\ ~(j <= k) /\ \A i \in T : j <= i => k <= i
        BY <2>4
      <4> QED
        BY <4>1
    <3>2. Above(j) \in F
      BY <2>4
    <3>3. Above(j) \in SUBSET T /\ x \in SUBSET T /\ Above(j) \subseteq x /\ Above(j) # x
      BY <2>3, <3>1
    <3> HIDE DEF F, Above
    <3>4. <<Above(j), x>> \in StrictSubsetOrdering(T)
      BY <3>3 DEF StrictSubsetOrdering
    <3> QED
      BY <2>2, <3>2, <3>4
  <2> QED
    BY <2>4
<1> QED
  BY <1>3, <1>4

-------------------------------------------------------------------------------
\* What a page must be: it has the keys that follow its position, all of them or those
\* up to the position where the next page goes on; and of a service, perhaps, some of
\* the keys before it.
Cut(page, prefix, position) ==
  /\ page.keys \subseteq taken \cap prefix
  /\ page.next = End => Matching(prefix, position) \subseteq page.keys
  /\ page.next # End =>
       /\ page.next \in Keys /\ position < page.next
       /\ {k \in Matching(prefix, position) : k <= page.next} \subseteq page.keys
       /\ \A k \in page.keys : k <= page.next

LEMMA MatchingFinite ==
  ASSUME NEW prefix, NEW position, taken \subseteq Keys
  PROVE  /\ Matching(prefix, position) \subseteq Nat
         /\ Matching(prefix, position) \subseteq Keys
         /\ IsFiniteSet(Matching(prefix, position))
BY KeysAssumption, FS_Subset DEF Matching

\* The keys a page of the memory store has are the least of those that match.
LEMMA PageIsDownwardClosed ==
  ASSUME NEW prefix, NEW position, NEW limit \in Nat \ {0}, taken \subseteq Keys,
         NEW k \in Page(prefix, position, limit),
         NEW j \in Matching(prefix, position), j <= k
  PROVE  j \in Page(prefix, position, limit)
<1> DEFINE M == Matching(prefix, position)
           Upto(n) == {i \in M : i <= n}
<1>1. M \subseteq Nat /\ IsFiniteSet(M)
  BY MatchingFinite
<1>2. k \in M /\ Cardinality(Upto(k)) <= limit
  BY DEF Page
<1>3. Upto(j) \subseteq Upto(k) /\ Upto(k) \subseteq M
  BY <1>1, <1>2
<1>4. IsFiniteSet(Upto(k)) /\ IsFiniteSet(Upto(j))
  BY <1>1, <1>3, FS_Subset
<1>5. Cardinality(Upto(j)) <= Cardinality(Upto(k))
  BY <1>3, <1>4, FS_Subset
<1>6. Cardinality(Upto(j)) \in Nat /\ Cardinality(Upto(k)) \in Nat
  BY <1>4, FS_CardinalityType
<1>7. Cardinality(Upto(j)) <= limit
  BY <1>2, <1>5, <1>6
<1> QED
  BY <1>7 DEF Page

\* It has one at least if any matches.
LEMMA PageIsNotEmpty ==
  ASSUME NEW prefix, NEW position, NEW limit \in Nat \ {0}, taken \subseteq Keys,
         Matching(prefix, position) # {}
  PROVE  Page(prefix, position, limit) # {}
<1> DEFINE M == Matching(prefix, position)
<1>1. M \subseteq Nat /\ IsFiniteSet(M)
  BY MatchingFinite
<1>2. PICK k \in M : \A j \in M : k <= j
  BY <1>1, Extremes
<1>3. {j \in M : j <= k} = {k}
  BY <1>1, <1>2
<1>4. Cardinality({k}) = 1
  BY FS_Singleton
<1>5. Cardinality({j \in M : j <= k}) <= limit
  BY <1>3, <1>4
<1> QED
  BY <1>2, <1>5 DEF Page

LEMMA MemoryPageCut ==
  ASSUME NEW prefix, NEW position, NEW limit \in Nat \ {0}, taken \subseteq Keys
  PROVE  LET page == MemoryPage(prefix, position, limit)
         IN  Cut(page, prefix, position) /\ page.keys \subseteq Matching(prefix, position)
<1> DEFINE M == Matching(prefix, position)
           P == Page(prefix, position, limit)
<1>1. M \subseteq Nat /\ M \subseteq Keys /\ IsFiniteSet(M) /\ P \subseteq M /\ End \notin Keys
  BY MatchingFinite, KeysAssumption DEF Page, End
<1>2. \A k \in P, j \in M : j <= k => j \in P
  BY PageIsDownwardClosed
<1>3. CASE HasMore(prefix, P)
  <2>1. CursorAfter(P) \in P /\ \A k \in P : k <= CursorAfter(P)
    BY <1>3 DEF HasMore, CursorAfter
  <2>2. P = {k \in M : k <= CursorAfter(P)}
    BY <1>1, <1>2, <2>1
  <2>3. position < CursorAfter(P)
    BY <1>1, <2>1 DEF Matching
  <2> QED
    BY <1>1, <1>3, <2>1, <2>2, <2>3 DEF Cut, MemoryPage, Matching
<1>4. CASE ~HasMore(prefix, P)
  <2>1. ASSUME NEW j \in M PROVE j \in P
    <3>1. P # {} /\ P \subseteq Nat /\ IsFiniteSet(P)
      BY <1>1, <2>1, PageIsNotEmpty, FS_Subset
    <3>2. PICK k \in P : \A i \in P : i <= k
      BY <3>1, Extremes
    <3>3. j <= k
      BY <1>1, <1>4, <2>1, <3>1, <3>2 DEF HasMore, Matching
    <3> QED
      BY <1>2, <2>1, <3>2, <3>3
  <2>2. P = M
    BY <1>1, <2>1
  <2> QED
    BY <1>4, <2>2 DEF Cut, MemoryPage, Matching
<1> QED
  BY <1>3, <1>4

\* Every page, of any store, is cut like that.
LEMMA PagesCut ==
  ASSUME NEW s, NEW prefix, NEW position \in Int, NEW limit \in Nat \ {0}, taken \subseteq Keys,
         NEW page \in Pages(s, prefix, position, limit)
  PROVE  /\ Cut(page, prefix, position)
         /\ s.kind = "memory" => page.keys \subseteq Matching(prefix, position)
<1>1. CASE s.kind = "memory"
  BY <1>1, MemoryPageCut DEF Pages
<1>2. CASE s.kind # "memory"
  <2>1. PICK p \in ServicePages(prefix, position, limit) : page = [keys |-> p.keys, next |-> p.token]
    BY <1>2 DEF Pages, Continuation
  <2>2. End \notin Keys /\ Keys \subseteq Int
    BY KeysAssumption DEF End
  <2>3. ASSUME NEW old \in SUBSET {k \in taken \cap prefix : k <= position},
               p = [keys |-> Matching(prefix, position) \cup old, token |-> End]
        PROVE  Cut(page, prefix, position)
    BY <2>1, <2>3 DEF Cut, Matching
  <2>4. ASSUME NEW n \in Keys, NEW old \in SUBSET {k \in taken \cap prefix : k <= position},
               n > position,
               p = [keys |-> {k \in Matching(prefix, position) : k <= n} \cup old, token |-> n]
        PROVE  Cut(page, prefix, position)
    <3>1. page.next = n /\ page.keys = {k \in Matching(prefix, position) : k <= n} \cup old
      BY <2>1, <2>4
    <3>2. \A k \in old : k <= n
      BY <2>2, <2>4
    <3> QED
      BY <2>2, <2>4, <3>1, <3>2 DEF Cut, Matching
  <2> QED
    BY <1>2, <2>1, <2>3, <2>4 DEF ServicePages
<1> QED
  BY <1>1, <1>2

-------------------------------------------------------------------------------
(***************************************************************************)
(* The inductive invariant.  A cursor names the walk's own store; the walk *)
(* has been shown no key after its position and, by a memory store, none   *)
(* twice; and it has been shown every steady key up to its position.       *)
(***************************************************************************)
Home ==
  /\ walk.cursor # NoCursor =>
       walk.cursor.kind = walk.store.kind /\ walk.cursor.id = walk.store.id
  /\ WalkStaysHome

Shown ==
  /\ WalkListsOnce
  /\ walk.status = "walking" =>
       \A k \in Keys : listed[k] > 0 => k <= Decoded(walk.cursor)

Found ==
  /\ steady \subseteq taken
  /\ walk.status = "walking" =>
       \A k \in steady : k <= Decoded(walk.cursor) => listed[k] > 0
  /\ WalkFindsSteadyKeys

IInv == TypeOK /\ Home /\ Shown /\ Found

\* A store's own cursor gives its position back, and is one of the cursors.
LEMMA EncodedDecodes ==
  ASSUME NEW s \in Stores, NEW position \in Keys
  PROVE  /\ Encoded(s, position) \in Cursor /\ Encoded(s, position) # NoCursor
         /\ Decoded(Encoded(s, position)) = position
         /\ Encoded(s, position).kind = s.kind /\ Encoded(s, position).id = s.id
<1>1. position # End /\ s.kind \in Kinds
  BY KeysAssumption, StoresAssumption DEF End
<1>2. Encoded(s, position) = [kind |-> s.kind, id |-> s.id, position |-> position]
  BY <1>1 DEF Encoded
<1>3. Encoded(s, position) # NoCursor
  <2>1. s.kind # "none"
    BY <1>1 DEF Kinds
  <2> QED
    BY <1>2, <2>1 DEF NoCursor
<1> QED
  BY <1>1, <1>2, <1>3 DEF Cursor, Decoded

LEMMA DecodedIsPosition ==
  ASSUME TypeOK
  PROVE  Decoded(walk.cursor) \in Keys \cup {Start}
BY DEF TypeOK, Walk, Cursor, Decoded

\* The stores that accept the walk's cursor all keep its bucket.
LEMMA AcceptedAtHome ==
  ASSUME IInv, NEW s \in Stores, Asks(s), Accepts(s, walk.cursor)
  PROVE  /\ s.kind = walk.store.kind /\ s.id = walk.store.id
         /\ s.bucket = walk.store.bucket
<1>1. walk.store \in Stores
  BY DEF IInv, TypeOK, Walk
<1>2. s.kind = walk.store.kind /\ s.id = walk.store.id
  BY DEF IInv, Home, Asks, Accepts
<1> QED
  BY <1>1, <1>2, StoresAssumption

LEMMA IInvInit == Init => IInv
<1> SUFFICES ASSUME Init PROVE IInv
  OBVIOUS
<1>1. TypeOK
  BY LimitsAssumption DEF Init, TypeOK, Walk
<1>2. Home /\ Shown /\ Found
  BY <1>1 DEF Init, TypeOK, Home, Shown, Found, WalkStaysHome, WalkListsOnce, WalkFindsSteadyKeys
<1> QED
  BY <1>1, <1>2 DEF IInv

LEMMA StartStep ==
  ASSUME IInv, NEW s \in Stores, WalkStart(s)
  PROVE  IInv'
<1>1. PICK p \in Prefixes, n \in Limits :
        /\ n \in 1..MaxListPageSize
        /\ walk' = [status |-> "walking", store |-> s, prefix |-> p, limit |-> n,
                    cursor |-> NoCursor]
        /\ steady' = taken \cap p
  BY DEF WalkStart, LegalLimit
<1>2. /\ last' = [store |-> s, answer |-> "none"]
      /\ listed' = [k \in Keys |-> 0] /\ taken' = taken
  BY DEF WalkStart
<1>3. TypeOK'
  BY <1>1, <1>2, PrefixesAssumption DEF IInv, TypeOK, Walk
<1>4. Decoded(walk'.cursor) = Start
  BY <1>1 DEF Decoded
<1>5. Home' /\ Shown'
  BY <1>1, <1>2, <1>4 DEF Home, Shown, WalkStaysHome, WalkListsOnce
<1>6. Found'
  <2>1. \A k \in Keys : ~(k <= Start)
    BY KeysAssumption DEF Start
  <2>2. steady' \subseteq Keys
    BY <1>1 DEF IInv, TypeOK
  <2> QED
    BY <1>1, <1>2, <1>4, <2>1, <2>2 DEF Found, WalkFindsSteadyKeys
<1> QED
  BY <1>3, <1>5, <1>6 DEF IInv

LEMMA PageStep ==
  ASSUME IInv, NEW s \in Stores, WalkPage(s)
  PROVE  IInv'
<1> DEFINE position == Decoded(walk.cursor)
<1>0. /\ walk \in Walk /\ taken \subseteq Keys /\ steady \subseteq walk.prefix
      /\ listed \in [Keys -> 0..2] /\ walk.status = "walking"
      /\ Keys \subseteq Nat /\ position \in Keys \cup {Start} /\ walk.prefix \subseteq Keys
      /\ walk.limit \in Nat \ {0}
  BY KeysAssumption, LimitsAssumption, DecodedIsPosition
     DEF IInv, TypeOK, Walk, WalkPage, Asks
<1>position. position \in Int
  <2>1. position \in Keys \cup {Start} /\ Keys \subseteq Nat
    BY <1>0
  <2> HIDE DEF position
  <2> QED
    BY <2>1 DEF Start
<1>1. PICK page \in Pages(s, walk.prefix, position, walk.limit) :
        /\ walk' = [walk EXCEPT !.cursor = Encoded(s, page.next),
                                !.status = IF page.next = End THEN "done" ELSE @]
        /\ listed' = [k \in Keys |-> IF k \in page.keys /\ listed[k] < 2
                                       THEN listed[k] + 1 ELSE listed[k]]
  BY DEF WalkPage
<1>2. last' = [store |-> s, answer |-> "page"] /\ taken' = taken /\ steady' = steady
  BY DEF WalkPage, bucket
<1>3. s.kind = walk.store.kind /\ s.id = walk.store.id /\ s.bucket = walk.store.bucket
  BY AcceptedAtHome DEF WalkPage
<1>4. /\ Cut(page, walk.prefix, position)
      /\ s.kind = "memory" => page.keys \subseteq Matching(walk.prefix, position)
  BY <1>0, <1>position, PagesCut
<1>5. s.kind = "memory" => page.keys \subseteq {k \in taken \cap walk.prefix : k > position}
  BY <1>4 DEF Matching
<1>6. /\ walk'.store = walk.store /\ walk'.prefix = walk.prefix /\ walk'.limit = walk.limit
      /\ walk'.status = (IF page.next = End THEN "done" ELSE "walking")
      /\ walk'.cursor = Encoded(s, page.next)
  BY <1>0, <1>1 DEF Walk
<1>7. /\ page.next = End => walk'.cursor = NoCursor
      /\ page.next # End =>
           /\ page.next \in Keys /\ position < page.next
           /\ walk'.cursor \in Cursor /\ walk'.cursor # NoCursor
           /\ Decoded(walk'.cursor) = page.next
           /\ walk'.cursor.kind = s.kind /\ walk'.cursor.id = s.id
  BY <1>4, <1>6, EncodedDecodes DEF Cut, Encoded
<1>8. listed' \in [Keys -> 0..2]
  BY <1>0, <1>1
<1>9. TypeOK'
  BY <1>0, <1>1, <1>2, <1>6, <1>7, <1>8 DEF TypeOK, Walk
<1>10. Home'
  BY <1>2, <1>3, <1>6, <1>7 DEF Home, WalkStaysHome
<1>11. Shown'
  <2>1. ASSUME s.kind = "memory", NEW k \in page.keys
        PROVE  listed[k] = 0 /\ k \in walk.prefix /\ k \in Keys
    <3>1. k \in Keys /\ k \in walk.prefix /\ k > position
      BY <1>0, <1>5, <2>1
    <3>2. listed[k] > 0 => k <= position
      BY <1>0, <3>1 DEF IInv, Shown
    <3>3. k \in Nat /\ listed[k] \in 0..2
      BY <1>0, <3>1
    <3> HIDE DEF position
    <3> QED
      BY <1>position, <3>1, <3>2, <3>3
  <2>2. \A k \in Keys : listed'[k] > 0 => k \in page.keys \/ listed[k] > 0
    BY <1>0, <1>1
  <2>3. WalkListsOnce'
    BY <1>0, <1>1, <1>3, <1>6, <2>1 DEF IInv, Shown, WalkListsOnce
  <2>4. ASSUME page.next # End, NEW k \in Keys, listed'[k] > 0 PROVE k <= page.next
    <3>1. CASE k \in page.keys
      BY <1>4, <2>4, <3>1 DEF Cut
    <3>2. CASE k \notin page.keys
      BY <1>0, <1>7, <2>2, <2>4, <3>2 DEF IInv, Shown, Start
    <3> QED
      BY <3>1, <3>2
  <2> QED
    BY <1>6, <1>7, <2>3, <2>4 DEF Shown
<1>12. Found'
  <2>1. ASSUME NEW k \in steady, page.next = End \/ k <= page.next PROVE listed'[k] > 0
    <3>1. k \in taken \cap walk.prefix /\ k \in Keys
      BY <1>0 DEF IInv, Found
    <3>2. CASE k <= position
      <4>1. listed[k] > 0 /\ listed[k] \in 0..2
        BY <1>0, <3>1, <3>2 DEF IInv, Found
      <4>2. listed'[k] = IF k \in page.keys /\ listed[k] < 2 THEN listed[k] + 1 ELSE listed[k]
        BY <1>1, <3>1
      <4> HIDE DEF position
      <4> QED
        BY <4>1, <4>2
    <3>3. CASE ~(k <= position)
      <4>1. k \in Matching(walk.prefix, position)
        <5>1. k \in Nat
          BY <1>0, <3>1
        <5> HIDE DEF position
        <5> QED
          BY <1>position, <3>1, <3>3, <5>1 DEF Matching
      <4>2. k \in page.keys
        BY <1>4, <2>1, <4>1 DEF Cut
      <4> QED
        BY <1>0, <1>1, <3>1, <4>2
    <3> QED
      BY <3>2, <3>3
  <2> QED
    BY <1>2, <1>6, <1>7, <2>1 DEF IInv, Found, WalkFindsSteadyKeys
<1> QED
  BY <1>9, <1>10, <1>11, <1>12 DEF IInv

LEMMA IInvStep == IInv /\ [Next]_vars => IInv'
<1> SUFFICES ASSUME IInv, [Next]_vars PROVE IInv'
  OBVIOUS
<1> USE DEF IInv, Home, Shown, Found, WalkStaysHome, WalkListsOnce, WalkFindsSteadyKeys
<1>1. ASSUME NEW k \in Keys, KeyTaken(k) PROVE IInv'
  BY <1>1 DEF KeyTaken, TypeOK
<1>2. ASSUME NEW k \in Keys, KeyFreed(k) PROVE IInv'
  BY <1>2 DEF KeyFreed, TypeOK
<1>3. ASSUME NEW s \in Stores, WalkStart(s) PROVE IInv'
  BY <1>3, StartStep
<1>4. ASSUME NEW s \in Stores, LimitRejected(s) \/ CursorRejected(s) \/ PageFails(s) PROVE IInv'
  BY <1>4 DEF LimitRejected, CursorRejected, PageFails, bucket, TypeOK
<1>5. ASSUME NEW s \in Stores, WalkPage(s) PROVE IInv'
  BY <1>5, PageStep
<1>6. CASE UNCHANGED vars
  BY <1>6 DEF vars, TypeOK
<1> QED
  BY <1>1, <1>2, <1>3, <1>4, <1>5, <1>6 DEF Next

LEMMA Invariance == Spec => []IInv
  BY IInvInit, IInvStep, PTL DEF Spec

-------------------------------------------------------------------------------
\* Type correctness of a walk, its cursors and its history.
THEOREM TypeCorrect == Spec => []TypeOK
  BY Invariance, PTL DEF IInv

\* A finished walk has shown every key that was taken throughout.
THEOREM SteadyKeysFound == Spec => []WalkFindsSteadyKeys
<1>1. IInv => WalkFindsSteadyKeys
  BY DEF IInv, Found
<1> QED
  BY <1>1, Invariance, PTL

\* No walk of a memory store shows a key twice, nor one outside its prefix.
THEOREM ListedOnce == Spec => []WalkListsOnce
<1>1. IInv => WalkListsOnce
  BY DEF IInv, Shown
<1> QED
  BY <1>1, Invariance, PTL

\* No page of a walk comes from another bucket.
THEOREM StayedHome == Spec => []WalkStaysHome
<1>1. IInv => WalkStaysHome
  BY DEF IInv, Home
<1> QED
  BY <1>1, Invariance, PTL

LEMMA PageAdvances ==
  ASSUME IInv, NEW s \in Stores, WalkPage(s)
  PROVE  walk'.status = "done" \/ Decoded(walk'.cursor) > Decoded(walk.cursor)
<1> DEFINE position == Decoded(walk.cursor)
<1>0. /\ walk \in Walk /\ taken \subseteq Keys /\ walk.limit \in Nat \ {0}
      /\ position \in Keys \cup {Start}
  BY LimitsAssumption, DecodedIsPosition DEF IInv, TypeOK, Walk
<1>1. PICK page \in Pages(s, walk.prefix, position, walk.limit) :
        walk' = [walk EXCEPT !.cursor = Encoded(s, page.next),
                             !.status = IF page.next = End THEN "done" ELSE @]
  BY DEF WalkPage
<1>position. position \in Int
  <2>1. position \in Keys \cup {Start} /\ Keys \subseteq Nat
    BY <1>0, KeysAssumption
  <2> HIDE DEF position
  <2> QED
    BY <2>1 DEF Start
<1>2. Cut(page, walk.prefix, position)
  BY <1>0, <1>position, PagesCut
<1>3. /\ page.next = End => walk'.status = "done"
      /\ walk'.cursor = Encoded(s, page.next)
  BY <1>0, <1>1 DEF Walk
<1>4. CASE page.next # End
  <2>1. page.next \in Keys /\ position < page.next
    BY <1>2, <1>4 DEF Cut
  <2>2. Decoded(walk'.cursor) = page.next
    BY <1>3, <2>1, EncodedDecodes
  <2>3. position \in Int /\ page.next \in Int
    <3>1. position \in Keys \cup {Start} /\ Keys \subseteq Nat
      BY <1>0, KeysAssumption
    <3>2. page.next \in Nat
      BY <2>1, KeysAssumption
    <3> HIDE DEF position
    <3>3. position \in Int
      BY <3>1 DEF Start
    <3> QED
      BY <3>2, <3>3
  <2> QED
    BY <2>1, <2>2, <2>3
<1> QED
  BY <1>3, <1>4

\* Every page of a walk reads on from a later key or ends it; as the keys are
\* finite, a walk has at most one page more than there are keys.
THEOREM PagesAdvance == Spec => WalkAdvances
<1> DEFINE Advances ==
      (\E s \in Stores : WalkPage(s))
      => walk'.status = "done" \/ Decoded(walk'.cursor) > Decoded(walk.cursor)
<1>1. IInv /\ [Next]_vars => [Advances]_vars
  BY PageAdvances
<1> QED
  BY <1>1, Invariance, PTL DEF Spec, WalkAdvances
===============================================================================
