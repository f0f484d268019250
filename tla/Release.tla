-------------------------------- MODULE Release --------------------------------
(***************************************************************************)
(* The publish workflow: a release event names a tag.  The prepare job     *)
(* authenticates the tag and its commit, checks the repository, packs      *)
(* every package and seals the manifest's digest; the smoke job installs a *)
(* copy; the publish job authenticates the tag once more, checks the copy  *)
(* of the artifact it downloaded and publishes its tarballs in dependency  *)
(* order, skipping those the registry has.  A job may die anywhere; its    *)
(* maintainer runs it again, on the sealed artifact or on one packed anew. *)
(* The tag may be moved at any time.  The workflow's concurrency group     *)
(* lets one run go on at a time.                                           *)
(*                                                                         *)
(* The registry is external: a published version never changes, one that   *)
(* exists cannot be published, and queries may miss it for a while.        *)
(* A tarball is known by its integrity; builds of a package may differ.    *)
(*                                                                         *)
(* A definition marked "slip" is used nowhere: put in the place of the one *)
(* below it, it is the mistake that a property is there to catch.          *)
(***************************************************************************)
EXTENDS ReleaseRules

CONSTANTS
  PackageCount,     \* RELEASE_PACKAGES, the core package first
  Integrities,      \* the integrities a package's tarball may come out with
  None,             \* a version the registry does not have (E404)
  Attempts,         \* the queries of confirmRegistryIntegrity
  Commits,          \* the commits the tag may name
  Content,          \* Content[c]: what ReleaseRules tells of commit c
  Main,             \* the commits of the protected branch
  TagVersion,       \* the version in the tag's name
  MaxFailures,      \* bound: jobs that die of something else than a check
  MaxPreparations,  \* bound: how often the release is packed
  MaxTagMoves       \* bound: how often the tag is moved

Packages == 1..PackageCount
Manifest == [Packages -> Integrities]
Tag == [commit : Commits, annotated : BOOLEAN, signed : BOOLEAN]

ASSUME PackageCountAssumption == PackageCount \in Nat \ {0}
ASSUME NoneAssumption == None \notin Integrities
ASSUME AttemptsAssumption == Attempts \in Nat \ {0}
ASSUME CommitsAssumption ==
  /\ TagVersion \in Version /\ Main \subseteq Commits
  /\ \A c \in Commits :
       /\ DOMAIN Content[c].packages = Packages
       /\ \A p \in Packages :
            /\ Content[c].packages[p].version \in Version
            /\ \A d \in Content[c].packages[p].dependencies :
                 d.specifier \in Specifier /\ d.resolved \in Resolution
ASSUME BoundsAssumption ==
  MaxFailures \in Nat /\ MaxPreparations \in Nat /\ MaxTagMoves \in Nat

VARIABLES
  tag,              \* the release tag at the origin
  vouched,          \* history: the commits an approved signer tagged
  tagMoves,         \* how often the tag was moved
  event,            \* RELEASE_COMMIT, the commit of the release event
  job,              \* where the run stands
  prepared,         \* the manifest whose digest the prepare job recorded
  source,           \* its gitCommit
  artifact,         \* the tarballs the publish job downloaded
  record,           \* the record the publish job is at
  attempt,          \* the loop counter of confirmRegistryIntegrity
  registry,         \* registry[p]: the integrity of the version, or None
  visible,          \* the versions that queries find
  origin,           \* history: origin[p] is the manifest p was published under
  packedFrom,       \* history: packedFrom[p] is that manifest's gitCommit
  failures,         \* how many jobs died
  preparations      \* how often the release was packed

git == <<tag, vouched, tagMoves>>
sealed == <<prepared, source, preparations>>
remote == <<registry, visible, origin, packedFrom>>
vars == <<git, event, job, sealed, artifact, record, attempt, remote, failures>>

Running == {"looking", "publishing", "confirming"}

TypeOK ==
  /\ tag \in Tag /\ vouched \subseteq Commits /\ tagMoves \in 0..MaxTagMoves
  /\ event \in Commits /\ source \in Commits
  /\ job \in {"none", "checking", "packing", "refused", "sealed", "unsmoked", "smoked",
              "authentic", "failed", "done"} \cup Running
  /\ prepared \in Manifest /\ artifact \in Manifest
  /\ record \in Packages
  /\ attempt \in 0..(Attempts - 1)
  /\ registry \in [Packages -> Integrities \cup {None}]
  /\ visible \subseteq Packages
  /\ origin \in [Packages -> Manifest] /\ packedFrom \in [Packages -> Commits]
  /\ failures \in 0..MaxFailures
  /\ preparations \in 0..MaxPreparations

Init ==
  /\ tag \in Tag /\ event = tag.commit /\ source = tag.commit
  /\ vouched = {c \in Commits : tag = [commit |-> c, annotated |-> TRUE, signed |-> TRUE]}
  /\ tagMoves = 0
  /\ job = "none"
  /\ \E i \in Integrities : prepared = [p \in Packages |-> i]
  /\ artifact = prepared
  /\ record = 1
  /\ attempt = 0
  /\ registry = [p \in Packages |-> None]
  /\ visible = {}
  /\ origin = [p \in Packages |-> prepared]
  /\ packedFrom = [p \in Packages |-> source]
  /\ failures = 0
  /\ preparations = 0

-------------------------------------------------------------------------------
\* The tag is made anew, by an approved signer or not, at any commit.
MoveTag ==
  /\ tagMoves < MaxTagMoves                         \* bound
  /\ tagMoves' = tagMoves + 1
  /\ tag' \in Tag
  /\ vouched' = IF tag'.annotated /\ tag'.signed THEN vouched \cup {tag'.commit} ELSE vouched
  /\ UNCHANGED <<event, job, sealed, artifact, record, attempt, remote, failures>>

\* A release of the tag is published, or a run's jobs are all run again.
StartPreparing ==
  /\ job \in {"none", "refused", "unsmoked", "failed", "done"}
  /\ preparations < MaxPreparations                 \* bound
  /\ preparations' = preparations + 1
  /\ event' \in {tag.commit} \cup (IF job = "none" THEN {} ELSE {event})
  /\ job' = "checking"
  /\ UNCHANGED <<git, prepared, source, artifact, record, attempt, remote, failures>>

\* The tag as it is now: an approved signer's, on a commit of main, which is
\* the commit of the event.
TagMovable == tag.annotated /\ tag.signed /\ event \in Main      \* slip

TagAuthentic ==
  /\ tag.annotated /\ tag.signed
  /\ tag.commit = event
  /\ event \in Main

\* The prepare job's first step, before it checks the commit out.
AuthenticateSource ==
  /\ job = "checking"
  /\ job' = IF TagAuthentic THEN "packing" ELSE "refused"
  /\ UNCHANGED <<git, event, sealed, artifact, record, attempt, remote, failures>>

\* prepareRelease: the repository and, once more, the tag are validated, the
\* packages are built and packed, and their manifest is sealed.  The tag is the job's
\* own copy of it, fetched after the check-out; the step stands at that fetch, and the
\* tag may be moved at once after it.
Prepare ==
  /\ job = "packing"
  /\ TagAuthentic /\ ValidRepository(Content[event], TagVersion)
  /\ prepared' \in Manifest
  /\ source' = event
  /\ job' = "sealed"
  /\ UNCHANGED <<git, event, preparations, artifact, record, attempt, remote, failures>>

\* A check or a test fails, or the packages do not build.
PrepareFails ==
  /\ job = "packing"
  /\ \/ ~(TagAuthentic /\ ValidRepository(Content[event], TagVersion)) /\ UNCHANGED failures
     \/ failures < MaxFailures /\ failures' = failures + 1
  /\ job' = "refused"
  /\ UNCHANGED <<git, event, sealed, artifact, record, attempt, remote>>

\* smokePreparedRelease: a consumer imports the packages, installed together.
Smoke ==
  /\ job = "sealed"
  /\ \/ job' = "smoked" /\ UNCHANGED failures
     \/ job' = "unsmoked" /\ failures < MaxFailures /\ failures' = failures + 1
  /\ UNCHANGED <<git, event, sealed, artifact, record, attempt, remote>>

\* Only the failed jobs are run again: the artifact stays as it was sealed.
RerunFailedJobs ==
  /\ job \in {"unsmoked", "failed"}
  /\ job' = IF job = "unsmoked" THEN "sealed" ELSE "smoked"
  /\ UNCHANGED <<git, event, sealed, artifact, record, attempt, remote, failures>>

\* The publish job's first step: the tag as it is by then.
ReauthenticateSource ==
  /\ job = "smoked"
  /\ job' = IF TagAuthentic THEN "authentic" ELSE "failed"
  /\ UNCHANGED <<git, event, sealed, artifact, record, attempt, remote, failures>>

Unauthenticated(copy) == TRUE                       \* slip

\* Digest, manifest, inventory and hashes must be those that were recorded.
Authentic(copy) == copy = prepared

\* verifyPreparedManifest, on a copy that may have been damaged on its way.
CopyVerified ==
  /\ job = "authentic"
  /\ artifact' \in Manifest
  /\ artifact' # prepared => failures < MaxFailures /\ failures' = failures + 1
  /\ artifact' = prepared => UNCHANGED failures
  /\ job' = IF Authentic(artifact') /\ source = event THEN "looking" ELSE "failed"
  /\ record' = 1
  /\ UNCHANGED <<git, event, sealed, attempt, remote>>

\* queryRegistryIntegrity
Queried == IF record \in visible THEN registry[record] ELSE None

PastTheEnd == job' = "looking" /\ record' = record + 1     \* slip

\* The loop goes on to the next record, or the job has succeeded.
Advance ==
  IF record < PackageCount
  THEN job' = "looking" /\ record' = record + 1
  ELSE job' = "done" /\ UNCHANGED record

\* decidePublication
PublishAbsent ==
  /\ job = "looking"
  /\ Queried = None
  /\ job' = "publishing"
  /\ UNCHANGED <<git, event, sealed, artifact, record, attempt, remote, failures>>

AnyVersion == TRUE                                  \* slip
NeverSkipped == FALSE                               \* slip

\* What the registry has is what would be published.
SameRelease == Queried = artifact[record]

SkipExisting ==
  /\ job = "looking"
  /\ Queried # None /\ SameRelease
  /\ Advance
  /\ UNCHANGED <<git, event, sealed, artifact, attempt, remote, failures>>

\* slip: the version is taken back, to be published as it should be
UnpublishesDifferent ==
  /\ job = "looking"
  /\ Queried # None /\ ~SameRelease
  /\ registry' = [registry EXCEPT ![record] = None]
  /\ visible' = visible \ {record}
  /\ job' = "publishing"
  /\ UNCHANGED <<git, event, sealed, artifact, record, attempt, origin, packedFrom, failures>>

DifferentIntegrity ==
  /\ job = "looking"
  /\ Queried # None /\ ~SameRelease
  /\ job' = "failed"
  /\ UNCHANGED <<git, event, sealed, artifact, record, attempt, remote, failures>>

\* npm publish
Publish ==
  /\ job = "publishing"
  /\ registry[record] = None
  /\ registry' = [registry EXCEPT ![record] = artifact[record]]
  /\ origin' = [origin EXCEPT ![record] = prepared]
  /\ packedFrom' = [packedFrom EXCEPT ![record] = source]
  /\ job' = "confirming"
  /\ attempt' = 0
  /\ UNCHANGED <<git, event, sealed, artifact, record, visible, failures>>

\* The version exists although the query missed it.
PublishRejected ==
  /\ job = "publishing"
  /\ registry[record] # None
  /\ job' = "failed"
  /\ UNCHANGED <<git, event, sealed, artifact, record, attempt, remote, failures>>

Unconfirmed == TRUE                                 \* slip

\* confirmRegistryIntegrity: the job waits until queries find the version.
Confirmed == Queried = artifact[record]

ConfirmPublished ==
  /\ job = "confirming"
  /\ Confirmed
  /\ Advance
  /\ UNCHANGED <<git, event, sealed, artifact, attempt, remote, failures>>

ConfirmAgain ==
  /\ job = "confirming"
  /\ ~Confirmed
  /\ attempt < Attempts - 1
  /\ attempt' = attempt + 1
  /\ UNCHANGED <<git, event, sealed, job, artifact, record, remote, failures>>

ConfirmGivesUp ==
  /\ job = "confirming"
  /\ ~Confirmed
  /\ attempt = Attempts - 1
  /\ job' = "failed"
  /\ UNCHANGED <<git, event, sealed, artifact, record, attempt, remote, failures>>

\* The runner is lost, a query fails, or npm publish fails, applied or not.
JobDies ==
  /\ job \in Running
  /\ failures < MaxFailures                         \* bound
  /\ failures' = failures + 1
  /\ job' = "failed"
  /\ UNCHANGED <<git, event, sealed, artifact, record, attempt, remote>>

\* The registry's queries catch up with version p.
Propagate(p) ==
  /\ registry[p] # None /\ p \notin visible
  /\ visible' = visible \cup {p}
  /\ UNCHANGED <<git, event, sealed, job, artifact, record, attempt, registry, origin,
                 packedFrom, failures>>

-------------------------------------------------------------------------------
PublishJob ==
  \/ ReauthenticateSource \/ CopyVerified
  \/ PublishAbsent \/ SkipExisting \/ DifferentIntegrity
  \/ Publish \/ PublishRejected
  \/ ConfirmPublished \/ ConfirmAgain \/ ConfirmGivesUp

PrepareJob == AuthenticateSource \/ Prepare \/ PrepareFails

Next ==
  \/ MoveTag
  \/ StartPreparing \/ PrepareJob
  \/ Smoke
  \/ RerunFailedJobs
  \/ PublishJob
  \/ JobDies
  \/ \E p \in Packages : Propagate(p)

\* Jobs go on, the registry catches up, and a maintainer runs failed jobs again.
Spec == /\ Init /\ [][Next]_vars
        /\ WF_vars(PrepareJob) /\ WF_vars(Smoke) /\ WF_vars(PublishJob)
        /\ WF_vars(RerunFailedJobs)
        /\ \A p \in Packages : WF_vars(Propagate(p))

-------------------------------------------------------------------------------
(***************************************************************************)
(* Properties                                                              *)
(***************************************************************************)
\* No mixed release: whatever was damaged, packed anew or run again, each
\* package in the registry is the one its manifest sealed, and so is every
\* package before it, which it may depend on.
NoMixedRelease ==
  \A p \in Packages : registry[p] # None =>
    \A q \in 1..p : registry[q] = origin[p][q]

\* No package can be found in the registry, nor is even published, before
\* those it depends on can be found, so every published one can be installed.
DependenciesFirst ==
  \A p \in Packages : registry[p] # None => 1..(p - 1) \subseteq visible

\* A release that is reported done is complete, and is the sealed one.
DoneIsComplete == job = "done" => registry = prepared /\ visible = Packages

\* Whatever is published was packed from a commit of main that an approved
\* signer tagged and that holds one release: however the tag is moved while
\* jobs run, and whichever jobs are run again.
ReviewedSource ==
  \A p \in Packages : registry[p] # None =>
    LET c == packedFrom[p]
    IN c \in Main /\ c \in vouched /\ Installable(Content[c], TagVersion)

\* Of all that goes on in the jobs, those who install the packages see no more
\* than Publication allows: nothing that was published ever changes, and what
\* joins it is sealed, reviewed and beside packages of its own manifest.
Releasable == {c \in Main : Installable(Content[c], TagVersion)}

Published == INSTANCE Publication WITH
  manifest <- prepared, commit <- source, reported <- (job = "done")

ImplementsPublication == Published!Spec

\* A release that was packed once never stands in the way of its own retry: what
\* earlier attempts published, damaged copies or not, is what it would publish.
RetriesAgree ==
  preparations = 1 =>
    \A p \in Packages : registry[p] # None => registry[p] = prepared[p]

\* How many steps the publish job can still take: every record is looked up,
\* published and queried for no more than Attempts times.
StepsLeft ==
  LET perRecord == Attempts + 2
      after == (PackageCount - record) * perRecord
  IN CASE job = "smoked"     -> 2 + PackageCount * perRecord
       [] job = "authentic"  -> 1 + PackageCount * perRecord
       [] job = "looking"    -> after + perRecord
       [] job = "publishing" -> after + Attempts + 1
       [] job = "confirming" -> after + Attempts - attempt
       [] OTHER              -> 0

\* The publish job ends: wherever queries lag, every step it takes leaves it
\* fewer to take.
JobRunsOut == [][PublishJob => StepsLeft' \in 0..(StepsLeft - 1)]_vars

\* Safe retry: wherever a job dies, and however far queries lag behind, running
\* it again on the sealed artifact publishes the release in the end, unless it
\* is packed anew, or its tag does not name the commit any more.
RetriesComplete ==
  (preparations = 1 /\ job = "sealed") ~>
    (preparations > 1 \/ job = "done" \/ ~TagAuthentic)
===============================================================================
