--------------------------- MODULE ConformanceProofs ---------------------------
(***************************************************************************)
(* What is proved of the conformance suite at work, for every suite whose  *)
(* concurrent puts are create-only, and every number of them.              *)
(***************************************************************************)
EXTENDS Conformance, TLAPS

\* The runner's position, which every step of a case moves as it should.
Answers == \E S : answers \in Seq(S)

Placed ==
  /\ deviation \in Deviations \cup Unasserted \cup {"none"}
  /\ contentEtags \in BOOLEAN
  /\ case \in 1..(Len(Suite) + 1)
  /\ step \in Nat \ {0} /\ (case <= Len(Suite) => step <= Len(Suite[case]))
  /\ Answers /\ Len(answers) = step - 1
  /\ failed \subseteq 1..Len(Suite)

LEMMA PlacedInit == Init => Placed
<1> SUFFICES ASSUME Init PROVE Placed
  OBVIOUS
<1>1. answers \in Seq({}) /\ Len(answers) = 0
  BY DEF Init
<1> QED
  BY <1>1, SuiteAssumption DEF Init, Placed, Answers

LEMMA NextCasePlaced ==
  ASSUME Placed, ~Done, NextCase, UNCHANGED <<deviation, contentEtags>>,
         failed' \in {failed, failed \cup {case}}
  PROVE  Placed'
<1>1. answers' \in Seq({}) /\ Len(answers') = 0 /\ case \in 1..Len(Suite)
  BY SuiteAssumption DEF NextCase, Placed, Done
<1> QED
  BY <1>1, SuiteAssumption DEF NextCase, Placed, Answers

LEMMA AnsweredPlaced ==
  ASSUME Placed, ~Done, NEW s, NEW answer, NEW backend, Answered(s, answer, backend)
  PROVE  Placed'
<1>1. CASE NextCase /\ failed' \in {failed, failed \cup {case}}
  BY <1>1, NextCasePlaced DEF Answered
<1>2. CASE /\ step # Len(Suite[case]) /\ step' = step + 1
           /\ answers' = Append(answers, answer) /\ UNCHANGED <<case, failed>>
  <2>1. PICK S : answers \in Seq(S)
    BY DEF Placed, Answers
  <2>2. answers \in Seq(S \cup {answer}) /\ answer \in S \cup {answer}
    BY <2>1
  <2>3. answers' \in Seq(S \cup {answer}) /\ Len(answers') = Len(answers) + 1
    BY <1>2, <2>2
  <2>4. case \in 1..Len(Suite)
    BY SuiteAssumption DEF Placed, Done
  <2>5. step + 1 <= Len(Suite[case])
    BY <1>2, <2>4, SuiteAssumption DEF Placed
  <2> QED
    BY <1>2, <2>3, <2>4, <2>5 DEF Placed, Answers, Answered
<1> QED
  BY <1>1, <1>2 DEF Answered

LEMMA PlacedStep == Placed /\ [Next]_vars => Placed'
<1> SUFFICES ASSUME Placed, [Next]_vars PROVE Placed'
  OBVIOUS
<1>1. ASSUME NEW s, ~Done, MakeCall(s) \/ ReadBody(s) \/ OverwriteArray(s) \/ AllSettled(s)
      PROVE  Placed'
  BY <1>1, AnsweredPlaced DEF MakeCall, ReadBody, OverwriteArray, AllSettled
<1>2. ASSUME NEW s, StartWriters(s) \/ \E w \in 1..Writers : WriterGoesOn(s, w)
      PROVE  Placed'
  BY <1>2 DEF StartWriters, WriterGoesOn, Placed, Answers
<1>3. CASE UNCHANGED vars
  BY <1>3 DEF vars, Placed, Answers
<1> QED
  BY <1>1, <1>2, <1>3 DEF Next

\* The runner is at a step there is, and has the answers to all those before it,
\* whatever the store answers.
THEOREM TypeCorrect == Spec => []TypeOK
<1>1. Placed => TypeOK
  BY SuiteAssumption DEF Placed, TypeOK, Done
<1> QED
  BY <1>1, PlacedInit, PlacedStep, PTL DEF Spec

-------------------------------------------------------------------------------
(***************************************************************************)
(* The concurrent puts.  Between them the runner stays at their step, so   *)
(* that the key they are about stays the same.                             *)
(***************************************************************************)
AtRace ==
  /\ 1 \in DOMAIN backends
  /\ writers # <<>> => ~Done /\ Current.call.op = "race" /\ DOMAIN writers = 1..Writers

RaceInv == Placed /\ AtRace /\ OneWriterStores

\* A race's call is the suite's: it names no earlier answer.
LEMMA RaceCall ==
  ASSUME Placed, ~Done, Current.call.op = "race"
  PROVE  /\ {"op", "key", "body", "ifMatch", "ifNoneMatch"} \subseteq DOMAIN Current.call
         /\ Current.call.ifNoneMatch.given = TRUE /\ Current.call.ifMatch.given = FALSE
<1> DEFINE s == Suite[case][step]
<1>1. case \in 1..Len(Suite) /\ step \in 1..Len(Suite[case])
  BY SuiteAssumption DEF Placed, Done
<1>2. /\ {"call", "expected"} \subseteq DOMAIN s /\ "op" \in DOMAIN s.call
      /\ s.call.op = "race" =>
            /\ {"key", "body", "ifMatch", "ifNoneMatch"} \subseteq DOMAIN s.call
            /\ s.call.ifNoneMatch.given = TRUE
            /\ "given" \in DOMAIN s.call.ifMatch /\ s.call.ifMatch.given = FALSE
  BY <1>1, SuiteAssumption
<1>3. Current.call = Resolved(s.call)
  BY <1>2 DEF Current
<1>4. Resolved(s.call).op = s.call.op
  <2>1. \A next : [s.call EXCEPT !.cursor = next].op = s.call.op
    BY <1>2
  <2>2. \A m : [s.call EXCEPT !.ifMatch = m].op = s.call.op
    BY <1>2
  <2>3. CASE s.call.op \in {"put", "delete", "race"}
    BY <2>2, <2>3 DEF Resolved
  <2>4. CASE s.call.op = "list"
    BY <2>1, <2>4 DEF Resolved
  <2>5. CASE s.call.op \notin {"put", "delete", "race", "list"}
    BY <2>5 DEF Resolved
  <2> QED
    BY <2>3, <2>4, <2>5
<1> QED
  BY <1>2, <1>3, <1>4 DEF Resolved

\* A create-only put is refused where its key is taken, and only there, before
\* its body is read and again after it.
LEMMA CreateOnlyRefusals ==
  ASSUME deviation \notin {"ignoresCreateOnly", "earlyCheckOnly"}, NEW b, NEW r, r.op = "put",
         r.ifNoneMatch.given = TRUE, r.ifMatch.given = FALSE
  PROVE  /\ Refusals(b, r) = IF Exists(b, r.key) THEN {"exists"} ELSE {}
         /\ LateRefusals(b, r) = Refusals(b, r)
<1> DEFINE conditional == r.ifMatch.given /\ ~Wrong("ignoresIfMatch")
                            /\ (r.op = "delete" => ~Wrong("deleteIgnoresIfMatch"))
           taken == Exists(b, r.key)
           rules == [exists  |-> r.op = "put" /\ r.ifNoneMatch.given /\ taken
                                   /\ ~Wrong("ignoresCreateOnly"),
                     missing |-> ~taken /\ (conditional
                                               \/ (r.op = "delete" /\ ~Wrong("blindDelete"))),
                     changed |-> taken /\ conditional
                                   /\ b.objects[r.key.name].etag # r.ifMatch.name]
<1>1. Refusals(b, r) = Broken(rules)
  BY DEF Refusals
<1>2. ~conditional /\ r.op # "delete" /\ ~Wrong("ignoresCreateOnly")
  BY DEF Wrong
<1>3. /\ DOMAIN rules = {"exists", "missing", "changed"}
      /\ rules.exists <=> taken
      /\ ~rules.missing /\ ~rules.changed
  BY <1>2
<1>4. Broken(rules) = IF taken THEN {"exists"} ELSE {}
  BY <1>3 DEF Broken
<1>5. LateRefusals(b, r) = Refusals(b, r)
  BY <1>1, <1>4 DEF LateRefusals, Wrong
<1> QED
  BY <1>1, <1>4, <1>5

\* The put of a writer is the race's call.
LEMMA WriterRefusals ==
  ASSUME Placed, ~Done, Current.call.op = "race", NEW w, NEW b,
         deviation \notin {"ignoresCreateOnly", "earlyCheckOnly"}
  PROVE  LET r == PutOf(Current, w)
         IN  /\ r.key = Current.call.key
             /\ Refusals(b, r) = IF Exists(b, Current.call.key) THEN {"exists"} ELSE {}
             /\ LateRefusals(b, r) = Refusals(b, r)
<1> DEFINE r == PutOf(Current, w)
<1>1. /\ r.op = "put" /\ r.key = Current.call.key
      /\ r.ifNoneMatch.given = TRUE /\ r.ifMatch.given = FALSE
  BY RaceCall DEF PutOf
<1> QED
  BY <1>1, CreateOnlyRefusals

LEMMA SameStep ==
  ASSUME UNCHANGED <<case, step, answers>>
  PROVE  Current' = Current /\ (Done' <=> Done)
BY DEF Current, Resolved, Done

LEMMA StartWritersRace ==
  ASSUME RaceInv, ~Done, StartWriters(Current)
  PROVE  AtRace' /\ OneWriterStores'
<1> DEFINE key == Current.call.key
<1>1. /\ Current.call.op = "race" /\ UNCHANGED <<deviation, backends>>
      /\ Current' = Current /\ ~Done'
  BY SameStep DEF StartWriters
<1>2. writers' = [w \in 1..Writers |->
                    IF Refusals(backends[1], PutOf(Current, w)) = {} THEN Null ELSE Refused("exists")]
  BY DEF StartWriters
<1>3. AtRace'
  BY <1>1, <1>2 DEF RaceInv, AtRace
<1>4. ASSUME deviation \notin {"ignoresCreateOnly", "earlyCheckOnly"}
      PROVE  IF Exists(backends[1], key) THEN \A w \in 1..Writers : writers'[w] = Refused("exists")
                                         ELSE \A w \in 1..Writers : writers'[w] = Null
  BY <1>1, <1>2, <1>4, WriterRefusals DEF RaceInv
<1> QED
  BY <1>1, <1>3, <1>4 DEF OneWriterStores, Exists

LEMMA WriterGoesOnRace ==
  ASSUME RaceInv, ~Done, NEW w \in 1..Writers, WriterGoesOn(Current, w)
  PROVE  AtRace' /\ OneWriterStores'
<1> DEFINE key == Current.call.key
           r == PutOf(Current, w)
           b == backends[1]
<1>1. /\ Current.call.op = "race" /\ writers # <<>> /\ writers[w] = Null
      /\ UNCHANGED deviation /\ Current' = Current /\ ~Done'
      /\ DOMAIN writers = 1..Writers /\ 1 \in DOMAIN backends
  BY SameStep DEF WriterGoesOn, RaceInv, AtRace
<1>2. /\ DOMAIN writers' = 1..Writers /\ DOMAIN backends' = DOMAIN backends
      /\ \A v \in (1..Writers) \ {w} : writers'[v] = writers[v]
  BY <1>1 DEF WriterGoesOn
<1>3. AtRace'
  BY <1>1, <1>2 DEF AtRace
<1>4. ASSUME deviation \notin {"ignoresCreateOnly", "earlyCheckOnly"}
      PROVE  OneWriterStores'
  <2>1. /\ r.key = key
        /\ LateRefusals(b, r) = IF Exists(b, key) THEN {"exists"} ELSE {}
    BY <1>1, <1>4, WriterRefusals DEF RaceInv
  <2>2. CASE Exists(b, key)
    <3>1. writers' = [writers EXCEPT ![w] = Refused("exists")] /\ UNCHANGED backends
      BY <2>1, <2>2 DEF WriterGoesOn
    <3>2. Null # Refused("exists") /\ Null.is # "stored"
      BY DEF Null, Refused
    <3>3. PICK v \in (1..Writers) \ {w} :
            /\ writers[v].is = "stored"
            /\ \A u \in (1..Writers) \ {v} : writers[u] = Null \/ writers[u] = Refused("exists")
      BY <1>1, <1>4, <2>2, <3>2 DEF RaceInv, OneWriterStores
    <3>4. /\ writers'[v].is = "stored"
          /\ \A u \in (1..Writers) \ {v} : writers'[u] = Null \/ writers'[u] = Refused("exists")
      BY <1>1, <1>2, <3>1, <3>3
    <3> QED
      BY <1>1, <2>2, <3>1, <3>4 DEF OneWriterStores, Exists
  <2>3. CASE ~Exists(b, key)
    <3>1. /\ writers' = [writers EXCEPT ![w] = StoredAnswer(b, r)]
          /\ backends' = [backends EXCEPT ![1] = Store(b, r)]
      BY <2>1, <2>3 DEF WriterGoesOn
    <3>2. \A v \in 1..Writers : writers[v] = Null
      BY <1>1, <1>4, <2>3 DEF RaceInv, OneWriterStores
    <3>3. writers'[w].is = "stored" /\ \A v \in (1..Writers) \ {w} : writers'[v] = Null
      BY <1>1, <3>1, <3>2 DEF StoredAnswer
    <3>4. Exists(backends'[1], key)
      BY <1>1, <2>1, <3>1 DEF Store, Exists
    <3> QED
      BY <1>1, <3>3, <3>4 DEF OneWriterStores, Exists
  <2> QED
    BY <2>2, <2>3
<1> QED
  BY <1>1, <1>3, <1>4 DEF OneWriterStores

LEMMA RaceStep == RaceInv /\ [Next]_vars => RaceInv'
<1> SUFFICES ASSUME RaceInv, [Next]_vars PROVE RaceInv'
  OBVIOUS
<1>0. Placed'
  BY PlacedStep DEF RaceInv
<1>1. ASSUME NEW s, MakeCall(s) \/ ReadBody(s) \/ OverwriteArray(s) \/ AllSettled(s)
      PROVE  AtRace' /\ OneWriterStores'
  <2>1. ASSUME NEW answer, NEW backend, Answered(s, answer, backend)
        PROVE  writers' = <<>> /\ 1 \in DOMAIN backends'
    BY <2>1 DEF Answered, NextCase, RaceInv, AtRace
  <2> QED
    BY <1>1, <2>1 DEF MakeCall, ReadBody, OverwriteArray, AllSettled, AtRace, OneWriterStores
<1>2. CASE ~Done /\ (StartWriters(Current) \/ \E w \in 1..Writers : WriterGoesOn(Current, w))
  BY <1>0, <1>2, StartWritersRace, WriterGoesOnRace DEF RaceInv
<1>3. CASE UNCHANGED vars
  <2>1. /\ UNCHANGED <<deviation, backends, writers>>
        /\ Current' = Current /\ (Done' <=> Done)
    BY <1>3, SameStep DEF vars
  <2>2. AtRace'
    BY <2>1 DEF RaceInv, AtRace
  <2>3. OneWriterStores'
    BY <2>1 DEF RaceInv, OneWriterStores, Exists
  <2> QED
    BY <1>0, <2>2, <2>3 DEF RaceInv
<1>4. CASE Next
  <2>1. \/ ~Done /\ (StartWriters(Current) \/ \E w \in 1..Writers : WriterGoesOn(Current, w))
        \/ MakeCall(Current) \/ ReadBody(Current) \/ OverwriteArray(Current) \/ AllSettled(Current)
    BY <1>4 DEF Next
  <2> QED
    BY <1>0, <1>1, <1>2, <2>1 DEF RaceInv
<1> QED
  BY <1>3, <1>4

LEMMA RaceInit == Init => RaceInv
BY PlacedInit DEF Init, RaceInv, AtRace, OneWriterStores

\* However many create-only puts are in flight at once, and in whatever order they
\* go on when they have read their bodies, one stores where the key was free, and
\* the others are told that it exists: the concurrent case is fair to every store
\* that judges the condition again.
THEOREM OneWriter == Spec => []OneWriterStores
<1>1. RaceInv => OneWriterStores
  BY DEF RaceInv
<1> QED
  BY <1>1, RaceInit, RaceStep, PTL DEF Spec

-------------------------------------------------------------------------------
(***************************************************************************)
(* The store without a deviation keeps the promise of the interface.       *)
(***************************************************************************)
\* A backend, whatever its objects are, as long as their etags are indices.
Backend(b) ==
  /\ b = [objects |-> b.objects, issued |-> b.issued]
  /\ \A k \in DOMAIN b.objects : b.objects[k].etag \in Nat
  /\ \E S : b.issued \in Seq(S)

\* A put or delete; its ifMatch, if it has one, names a version or none there is.
Conditions(r) ==
  /\ r.op \in {"put", "delete"}
  /\ r.ifMatch.given => r.ifMatch.name \in Nat

\* With no deviation there is a reason to refuse exactly where the interface does not
\* admit the request, and every reason is one the interface knows.
LEMMA JudgesAsThePort ==
  ASSUME deviation = "none", NEW b, Backend(b), NEW r, Conditions(r)
  PROVE  LET o == ObjectAt(b, r.key.name)
         IN  /\ Refusals(b, r) = {} => Port!Admitted(RequestOf(r), o)
             /\ \A x \in Refusals(b, r) : Port!RefusedFor(x, RequestOf(r), o)
<1> DEFINE k == r.key.name
           o == ObjectAt(b, k)
           taken == k \in DOMAIN b.objects
           rules == [exists  |-> r.op = "put" /\ r.ifNoneMatch.given /\ taken,
                     missing |-> ~taken /\ (r.ifMatch.given \/ r.op = "delete"),
                     changed |-> taken /\ r.ifMatch.given
                                   /\ b.objects[k].etag # r.ifMatch.name]
<1>1. Refusals(b, r) = Broken(rules)
  BY DEF Refusals, Wrong, Exists
<1>2. /\ DOMAIN rules = {"exists", "missing", "changed"}
      /\ rules.exists <=> r.op = "put" /\ r.ifNoneMatch.given /\ taken
      /\ rules.missing <=> ~taken /\ (r.ifMatch.given \/ r.op = "delete")
      /\ rules.changed <=> taken /\ r.ifMatch.given /\ b.objects[k].etag # r.ifMatch.name
  OBVIOUS
<1> HIDE DEF rules
<1>3. /\ "exists" \in Refusals(b, r) <=> r.op = "put" /\ r.ifNoneMatch.given /\ taken
      /\ "missing" \in Refusals(b, r) <=> ~taken /\ (r.ifMatch.given \/ r.op = "delete")
      /\ "changed" \in Refusals(b, r) <=> taken /\ r.ifMatch.given
                                             /\ b.objects[k].etag # r.ifMatch.name
      /\ Refusals(b, r) \subseteq {"exists", "missing", "changed"}
  BY <1>1, <1>2 DEF Broken
<1>4. /\ taken => o # Null /\ o.etag = b.objects[k].etag + 1
      /\ ~taken => o = Null
  BY DEF ObjectAt, Null
<1>5. /\ RequestOf(r).op = r.op
      /\ RequestOf(r).createOnly <=> r.op = "put" /\ r.ifNoneMatch.given
      /\ r.ifMatch.given => RequestOf(r).ifMatch = r.ifMatch.name + 1
      /\ ~r.ifMatch.given => RequestOf(r).ifMatch = Port!NoEtag
  BY DEF RequestOf
<1>6. r.ifMatch.given => RequestOf(r).ifMatch # Port!NoEtag
  BY <1>5 DEF Conditions, Port!NoEtag
<1>7. taken /\ r.ifMatch.given =>
        (o.etag = RequestOf(r).ifMatch <=> b.objects[k].etag = r.ifMatch.name)
  BY <1>4, <1>5 DEF Conditions, Backend
<1> HIDE DEF o, taken, k
<1>8. ASSUME Refusals(b, r) = {} PROVE Port!Admitted(RequestOf(r), o)
  BY <1>3, <1>4, <1>5, <1>6, <1>7, <1>8 DEF Port!Admitted, Conditions
<1>9. ASSUME NEW x \in Refusals(b, r) PROVE Port!RefusedFor(x, RequestOf(r), o)
  BY <1>3, <1>4, <1>5, <1>6, <1>7, <1>9 DEF Port!RefusedFor, Conditions
<1> QED
  BY <1>8, <1>9 DEF o, k

\* What a store puts at its key, and what it leaves.
LEMMA StoreReplaces ==
  ASSUME deviation = "none", NEW b, Backend(b), NEW r, Conditions(r),
         Len(ReadBytes(r.body)) \in Nat
  PROVE  LET k == r.key.name
             after == Store(b, r)
             told == StoredAnswer(b, r)
         IN  /\ ObjectAt(after, k) = [etag |-> told.etag + 1, size |-> told.size]
             /\ \A j : j # k => ObjectAt(after, j) = ObjectAt(b, j)
             /\ told.etag \in DOMAIN b.issued => contentEtags
<1> DEFINE k == r.key.name
           after == Store(b, r)
           told == StoredAnswer(b, r)
<1>1. NewObject(b, r).etag = EtagFor(b, r.key, ReadBytes(r.body))
      /\ NewObject(b, r).bytes = ReadBytes(r.body)
  BY DEF NewObject
<1>2. told.etag = NewObject(b, r).etag /\ told.size = Len(ReadBytes(r.body))
  BY DEF StoredAnswer
<1>3. /\ DOMAIN after.objects = DOMAIN b.objects \cup {k}
      /\ after.objects[k] = NewObject(b, r)
      /\ \A j \in DOMAIN b.objects \ {k} : after.objects[j] = b.objects[j]
  BY DEF Store
<1>4. ASSUME ~contentEtags PROVE told.etag \notin DOMAIN b.issued
  <2>1. told.etag = Len(b.issued) + 1
    BY <1>1, <1>2, <1>4 DEF EtagFor, Wrong
  <2> QED
    BY <2>1 DEF Backend
<1> HIDE DEF after, told, k
<1>5. ObjectAt(after, k) = [etag |-> told.etag + 1, size |-> told.size]
  BY <1>1, <1>2, <1>3 DEF ObjectAt
<1>6. ASSUME NEW j, j # k PROVE ObjectAt(after, j) = ObjectAt(b, j)
  BY <1>3, <1>6 DEF ObjectAt
<1> QED
  BY <1>4, <1>5, <1>6 DEF after, told, k

\* readBlobBody without a deviation: a body over its ceiling is not stored.
LEMMA WithinCeiling ==
  ASSUME deviation = "none", NEW r, BodyFailures(r) = {},
         Len(ReadBytes(r.body)) \in Nat, Ceiling(r) \in Int
  PROVE  Len(ReadBytes(r.body)) <= Ceiling(r)
<1>1. ~CrossesCeiling(r)
  BY DEF BodyFailures, Wrong
<1> QED
  BY <1>1 DEF CrossesCeiling, Wrong

\* The store that the suite's expectations are checked on is one of those it is for:
\* whatever is on a backend and whatever a put or delete asks, it is judged, stored,
\* removed and answered as the interface promises.  That the suite raises no false
\* alarm on that store says therefore that it asserts no more than the interface.
THEOREM StoreKeepsPromise ==
  ASSUME deviation = "none", NEW b, Backend(b), NEW r, Conditions(r),
         r.op = "put" => Len(ReadBytes(r.body)) \in Nat /\ Ceiling(r) \in Int
  PROVE  PromiseKept(b, r, Call(b, r))
<1> DEFINE k == r.key.name
           o == ObjectAt(b, k)
           out == Call(b, r)
<1> SUFFICES PromiseKept(b, r, out)
  OBVIOUS
<1>1. Refusals(b, r) = {} => Port!Admitted(RequestOf(r), o)
  BY JudgesAsThePort
<1>2. \A x \in Refusals(b, r) : Port!RefusedFor(x, RequestOf(r), o)
  BY JudgesAsThePort
<1>3. ASSUME out = Outcome(b, Invalid) PROVE PromiseKept(b, r, out)
  BY <1>3 DEF PromiseKept, Outcome, Invalid
<1>4. ASSUME Refusals(b, r) # {}, out = Outcome(b, Refused(CHOOSE x \in Refusals(b, r) : TRUE))
      PROVE  PromiseKept(b, r, out)
  <2>1. PICK x \in Refusals(b, r) : out = Outcome(b, Refused(x))
    BY <1>4
  <2>2. out.answer.is = "refused" /\ out.answer.reason = x /\ out.backend = b
    BY <2>1 DEF Outcome, Refused
  <2>3. Port!RefusedFor(out.answer.reason, RequestOf(r), o)
    BY <1>2, <2>2
  <2> HIDE DEF out
  <2> QED
    BY <2>2, <2>3 DEF PromiseKept
<1>5. CASE r.op = "put" /\ ~IsRejected(r)
  <2>1. out = PutOutcome(b, r)
    BY <1>5 DEF Call
  <2>2. CASE Refusals(b, r) # {}
    BY <1>4, <2>1, <2>2 DEF PutOutcome
  <2>3. CASE Refusals(b, r) = {} /\ BodyFailures(r) # {}
    <3>1. PICK a \in BodyFailures(r) : out = Outcome(b, a)
      BY <2>1, <2>3 DEF PutOutcome
    <3>2. a.is \in {"BlobValidationError", "BlobSizeLimitError", "hangs"}
      BY <3>1 DEF BodyFailures, GivenUp, Invalid, TooLarge
    <3>3. out.answer = a /\ out.backend = b
      BY <3>1 DEF Outcome
    <3> HIDE DEF out
    <3> QED
      BY <3>2, <3>3 DEF PromiseKept
  <2>4. CASE Refusals(b, r) = {} /\ BodyFailures(r) = {}
    <3> DEFINE after == Store(b, r)
               told == StoredAnswer(b, r)
    <3>1. out.backend = after /\ out.answer = told
      BY <2>1, <2>4 DEF PutOutcome, Outcome
    <3>2. /\ ObjectAt(after, k) = [etag |-> told.etag + 1, size |-> told.size]
          /\ \A j : j # k => ObjectAt(after, j) = ObjectAt(b, j)
          /\ told.etag \in DOMAIN b.issued => contentEtags
      BY <1>5, StoreReplaces
    <3>3. told.is = "stored" /\ told.size = Len(ReadBytes(r.body))
      BY DEF StoredAnswer
    <3>4. told.size <= Ceiling(r)
      BY <1>5, <2>4, <3>3, WithinCeiling
    <3> HIDE DEF out, after, told
    <3> QED
      BY <1>1, <1>5, <2>4, <3>1, <3>2, <3>3, <3>4 DEF PromiseKept
  <2> QED
    BY <2>2, <2>3, <2>4
<1>6. CASE r.op = "delete" /\ ~IsRejected(r)
  <2>1. out = DeleteOutcome(b, r)
    BY <1>6 DEF Call
  <2>2. CASE Refusals(b, r) # {}
    BY <1>4, <2>1, <2>2 DEF DeleteOutcome
  <2>3. CASE Refusals(b, r) = {}
    <3> DEFINE after == [objects |-> [j \in DOMAIN b.objects \ {k} |-> b.objects[j]],
                         issued |-> b.issued]
    <3>1. [b EXCEPT !.objects = [j \in DOMAIN @ \ {k} |-> @[j]]] = after
      BY DEF Backend
    <3>2. out.backend = after /\ out.answer = Deleted
      BY <2>1, <2>3, <3>1 DEF DeleteOutcome, Outcome, Wrong
    <3>3. DOMAIN after.objects = DOMAIN b.objects \ {k}
          /\ \A j \in DOMAIN b.objects \ {k} : after.objects[j] = b.objects[j]
      OBVIOUS
    <3> HIDE DEF after
    <3>4. ObjectAt(after, k) = Null /\ \A j : j # k => ObjectAt(after, j) = ObjectAt(b, j)
      BY <3>3 DEF ObjectAt
    <3>5. Deleted.is = "deleted"
      BY DEF Deleted
    <3> HIDE DEF out
    <3> QED
      BY <1>1, <1>6, <2>3, <3>2, <3>4, <3>5 DEF PromiseKept
  <2> QED
    BY <2>2, <2>3
<1>7. CASE IsRejected(r)
  BY <1>3, <1>7 DEF Call
<1> QED
  BY <1>5, <1>6, <1>7 DEF Conditions
===============================================================================
