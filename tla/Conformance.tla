------------------------------- MODULE Conformance ------------------------------
(***************************************************************************)
(* The conformance suite at work: a test runner takes its cases one after  *)
(* the other, each on empty backends, makes the calls of a case in order,  *)
(* and compares each answer with what the case asserts.  An assertion that *)
(* fails ends its case; a call that hangs is ended by the runner's timeout.*)
(*                                                                         *)
(* In the concurrent case every writer's put is called in one tick, so it  *)
(* has judged its condition before any of them has read its body; they go  *)
(* on from there in any order.                                             *)
(*                                                                         *)
(* A definition marked "slip" is used nowhere: put in the place of the one *)
(* below it, it is the mistake that a property is there to catch.          *)
(***************************************************************************)
EXTENDS ConformanceStore

CONSTANTS
  Suite,            \* the cases that are run
  Deviations,       \* the deviations they assert on
  Unasserted        \* those they assert nothing about

ASSUME DeviationsAssumption == Deviations \cap Unasserted = {} /\ "none" \notin Deviations

\* A case has a step or more; concurrent puts are create-only and nothing else.
ASSUME SuiteAssumption ==
  /\ Len(Suite) \in Nat
  /\ \A c \in 1..Len(Suite) :
       /\ Len(Suite[c]) \in Nat \ {0}
       /\ \A i \in 1..Len(Suite[c]) :
            LET s == Suite[c][i]
            IN  /\ {"call", "expected"} \subseteq DOMAIN s /\ "op" \in DOMAIN s.call
                /\ s.call.op = "race" =>
                     /\ {"key", "body", "ifMatch", "ifNoneMatch"} \subseteq DOMAIN s.call
                     /\ s.call.ifNoneMatch.given = TRUE
                     /\ "given" \in DOMAIN s.call.ifMatch /\ s.call.ifMatch.given = FALSE

VARIABLES
  case, step,       \* the step of the case the runner is at
  backends,         \* the two backends of the case
  answers,          \* the answers to the steps before
  writers,          \* the answers to the concurrent puts, Null before
  failed            \* the cases that failed

vars == <<deviation, contentEtags, case, step, backends, answers, writers, failed>>

EmptyBackend == [objects |-> <<>>, issued |-> <<>>]
NoCursor(r) == [backend |-> r.backend, handle |-> r.handle, after |-> 0, listed |-> 0]

Done == case > Len(Suite)

TypeOK ==
  /\ deviation \in Deviations \cup Unasserted \cup {"none"}
  /\ contentEtags \in BOOLEAN
  /\ case \in 1..(Len(Suite) + 1)
  /\ Done \/ step \in 1..Len(Suite[case])
  /\ Len(answers) = step - 1
  /\ failed \subseteq 1..Len(Suite)

Init ==
  /\ deviation \in Deviations \cup Unasserted \cup {"none"}
  /\ contentEtags \in BOOLEAN
  /\ case = 1 /\ step = 1
  /\ backends = <<EmptyBackend, EmptyBackend>>
  /\ answers = <<>> /\ writers = <<>>
  /\ failed = {}

-------------------------------------------------------------------------------
\* A request, with what it refers to in earlier answers.
Resolved(r) ==
  LET etag(i) == IF i = 0 THEN 0 ELSE answers[i].etag
  IN CASE r.op \in {"put", "delete", "race"} -> [r EXCEPT !.ifMatch.name =
             IF r.ifMatch.given THEN etag(@) ELSE @]
       [] r.op = "list" -> [r EXCEPT !.cursor = IF @ = 0 THEN NoCursor(r) ELSE answers[@].next]
       [] OTHER -> r

\* The step the runner is at.
Current == [Suite[case][step] EXCEPT !.call = Resolved(@)]

\* Does an answer have what the case asserts of it?
Meets(answer, expected) ==
  \A field \in DOMAIN expected :
    CASE field = "sameEtag" -> answer.etag = answers[expected[field]].etag
      [] field = "newEtag" -> answer.etag # answers[expected[field]].etag
      [] field = "readsAbove" -> "reads" \in DOMAIN answer /\ answer.reads > expected[field]
      [] OTHER -> field \in DOMAIN answer /\ answer[field] = expected[field]

KeepsAnswers ==                                     \* slip
  /\ case' = case + 1 /\ step' = 1
  /\ backends' = <<EmptyBackend, EmptyBackend>>
  /\ UNCHANGED <<answers, writers>>

\* The next case starts afresh, on empty backends.
NextCase ==
  /\ case' = case + 1 /\ step' = 1
  /\ backends' = <<EmptyBackend, EmptyBackend>>
  /\ answers' = <<>> /\ writers' = <<>>

\* Step s was answered: the case goes on, has passed, or has failed.
Answered(s, answer, backend) ==
  /\ IF ~Meets(answer, s.expected)
     THEN NextCase /\ failed' = failed \cup {case}
     ELSE /\ UNCHANGED failed
          /\ IF step = Len(Suite[case]) THEN NextCase
             ELSE /\ step' = step + 1
                  /\ answers' = Append(answers, answer)
                  /\ backends' = [backends EXCEPT ![s.call.backend] = backend]
                  /\ writers' = <<>> /\ UNCHANGED case
  /\ UNCHANGED <<deviation, contentEtags>>

MakeCall(s) ==
  /\ s.call.op \in {"put", "get", "head", "delete", "list"}
  /\ \E outcome \in {Call(backends[s.call.backend], s.call)} :
       Answered(s, outcome.answer, outcome.backend)

\* readAll, of a body that an earlier get returned.
ReadBody(s) ==
  /\ s.call.op = "read"
  /\ LET got == answers[s.call.of]
         b == backends[s.call.backend]
     IN Answered(s, [bytes |-> IF Wrong("liveBody") THEN b.objects[got.key.name].bytes
                               ELSE got.bytes], b)

OverwriteArray(s) ==
  /\ s.call.op = "overwrite"
  /\ LET b == backends[s.call.backend]
     IN Answered(s, Null, IF Wrong("arrayKept")
                          THEN [b EXCEPT !.objects[s.call.key.name].bytes[1] = 99]
                          ELSE b)

\* What writer w of the concurrent case asks for.
PutOf(s, w) == [s.call EXCEPT !.op = "put", !.body = Bytes(<<w>>)]

StartWriters(s) ==
  /\ s.call.op = "race" /\ writers = <<>>
  /\ writers' = [w \in 1..Writers |->
                   IF Refusals(backends[1], PutOf(s, w)) = {} THEN Null ELSE Refused("exists")]
  /\ UNCHANGED <<deviation, contentEtags, case, step, backends, answers, failed>>

\* Writer w has read its body: its condition is judged again.
WriterGoesOn(s, w) ==
  /\ s.call.op = "race" /\ writers # <<>> /\ writers[w] = Null
  /\ LET b == backends[1]
         late == LateRefusals(b, PutOf(s, w))
     IN IF late = {}
        THEN /\ writers' = [writers EXCEPT ![w] = StoredAnswer(b, PutOf(s, w))]
             /\ backends' = [backends EXCEPT ![1] = Store(b, PutOf(s, w))]
        ELSE /\ writers' = [writers EXCEPT ![w] = Refused(CHOOSE x \in late : TRUE)]
             /\ UNCHANGED backends
  /\ UNCHANGED <<deviation, contentEtags, case, step, answers, failed>>

\* Promise.all
AllSettled(s) ==
  /\ s.call.op = "race" /\ writers # <<>>
  /\ Null \notin ToSet(writers)
  /\ LET lost == {w \in DOMAIN writers : writers[w].is # "stored"}
     IN Answered(s, [is |-> "raced", successes |-> Writers - Cardinality(lost),
                     refusals |-> {writers[w].reason : w \in lost}], backends[1])

Next ==
  /\ ~Done
  /\ \E s \in {Current} :
       \/ MakeCall(s) \/ ReadBody(s) \/ OverwriteArray(s)
       \/ StartWriters(s) \/ AllSettled(s)
       \/ \E w \in 1..Writers : WriterGoesOn(s, w)

Spec == Init /\ [][Next]_vars

-------------------------------------------------------------------------------
(***************************************************************************)
(* Properties                                                              *)
(***************************************************************************)
\* No false alarm: a store that keeps the promise passes every case, whether
\* its etags name versions or bytes, and so does one that deviates only where
\* the suite asserts nothing.
NoFalseAlarm == deviation \notin Deviations => failed = {}

\* The suite tells: whatever check an adapter leaves out, and whichever mistake
\* it makes, of those asserted on, some case fails.
DeviationsAreCaught == Done /\ deviation \in Deviations => failed # {}

\* What the concurrent case rests on: of create-only puts in flight at once one at
\* most stores, none does on a key that was taken, and those that lose are told
\* "exists", which is true.  Any store does so that judges the condition again
\* when it has read the body.
OneWriterStores ==
  writers # <<>> /\ deviation \notin {"ignoresCreateOnly", "earlyCheckOnly"} =>
    LET taken == Exists(backends[1], Current.call.key)
        lost(w) == writers[w] = Refused("exists")
    IN  \/ taken /\ \A w \in 1..Writers : lost(w)
        \/ ~taken /\ \A w \in 1..Writers : writers[w] = Null
        \/ /\ taken
           /\ \E w \in 1..Writers :
                /\ writers[w].is = "stored"
                /\ \A v \in (1..Writers) \ {w} : writers[v] = Null \/ lost(v)
-------------------------------------------------------------------------------
(***************************************************************************)
(* What the store without a deviation has to do with the interface.  The   *)
(* version that index i names is the port's etag i + 1, so that an ifMatch *)
(* that names no version there ever was is still an ifMatch.               *)
(***************************************************************************)
Port == INSTANCE BlobStore WITH
          Callers <- {"runner"}, Keys <- Nat, NoObject <- Null,
          MaxObjectBytes <- 0, MaxEtag <- 0, MaxBytesArgs <- {},
          Lossy <- FALSE, BlindDelete <- FALSE, EtagsComeBack <- FALSE, Resends <- FALSE,
          Perishable <- FALSE,
          objects <- <<>>, issued <- {}, cameBack <- {}, calls <- <<>>, decided <- <<>>

ObjectAt(b, k) ==
  IF k \in DOMAIN b.objects
  THEN [etag |-> b.objects[k].etag + 1, size |-> Len(b.objects[k].bytes)]
  ELSE Null

RequestOf(r) ==
  [op |-> r.op,
   createOnly |-> r.op = "put" /\ r.ifNoneMatch.given,
   ifMatch |-> IF r.ifMatch.given THEN r.ifMatch.name + 1 ELSE Port!NoEtag]

\* A put or delete is judged as the interface promises, against the object that is at
\* its key: what it stores or removes was admitted, is all that changes, and, stored,
\* is of the size and the etag it is told; its refusal is true; else nothing changes.
PromiseKept(b, r, outcome) ==
  LET asked == RequestOf(r)
      k == r.key.name
      o == ObjectAt(b, k)
      told == outcome.answer
      after == outcome.backend
      others == (DOMAIN b.objects \cup DOMAIN after.objects) \ {k}
  IN /\ told.is = "stored" =>
          /\ r.op = "put" /\ Port!Admitted(asked, o)
          /\ ObjectAt(after, k) = [etag |-> told.etag + 1, size |-> told.size]
          /\ told.size <= Ceiling(r)
          /\ told.etag \in DOMAIN b.issued => contentEtags
     /\ told.is = "deleted" =>
          r.op = "delete" /\ Port!Admitted(asked, o) /\ ObjectAt(after, k) = Null
     /\ told.is \in {"stored", "deleted"} =>
          \A j \in others : ObjectAt(after, j) = ObjectAt(b, j)
     /\ told.is \notin {"stored", "deleted"} => after = b
     /\ told.is = "refused" => Port!RefusedFor(told.reason, asked, o)

\* Every store the suite is to pass is held to the interface: what its cases say of the
\* store without a deviation, they say of one that keeps the interface's promise.
KeepsPromise ==
  deviation = "none" /\ ~Done /\ Current.call.op \in {"put", "delete"} =>
    LET r == Current.call
        b == backends[r.backend]
    IN PromiseKept(b, r, Call(b, r))
===============================================================================
