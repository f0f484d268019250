----------------------------- MODULE ReleaseProofs -----------------------------
(***************************************************************************)
(* What is proved of the publish workflow, for any number of packages,     *)
(* builds, queries, commits, failures, preparations and moves of the tag.  *)
(***************************************************************************)
EXTENDS Release, TLAPS

(***************************************************************************)
(* The rules.  A lockfile entry is accepted exactly when npm's interval    *)
(* for its specifier has the version it was resolved to.                   *)
(***************************************************************************)
THEOREM RangesAreIntervals ==
  ASSUME NEW spec \in Specifier, NEW v \in Version
  PROVE  ResolvedVersionSatisfies(spec, [link |-> FALSE, stable |-> TRUE, version |-> v])
           <=> Admits(spec, v)
<1> DEFINE at == spec.at
<1>1. /\ at[1] \in Nat /\ at[2] \in Nat /\ at[3] \in Nat /\ at = <<at[1], at[2], at[3]>>
      /\ v[1] \in Nat /\ v[2] \in Nat /\ v[3] \in Nat /\ v = <<v[1], v[2], v[3]>>
      /\ spec.kind \in {"exact", "any", "major", "minor", "caret", "tilde"}
  BY DEF Specifier, Version
<1>2. CASE spec.kind = "exact"
  BY <1>1, <1>2 DEF ResolvedVersionSatisfies, Admits, Floor, Ceiling, AtLeast
<1>3. CASE spec.kind = "any"
  BY <1>1, <1>3 DEF ResolvedVersionSatisfies, Admits, Floor, Ceiling, AtLeast
<1>4. CASE spec.kind = "major"
  BY <1>1, <1>4 DEF ResolvedVersionSatisfies, Admits, Floor, Ceiling, AtLeast
<1>5. CASE spec.kind = "minor"
  BY <1>1, <1>5 DEF ResolvedVersionSatisfies, Admits, Floor, Ceiling, AtLeast
<1>6. CASE spec.kind = "caret"
  <2>1. CASE at[1] # 0
    BY <1>1, <1>6, <2>1
       DEF ResolvedVersionSatisfies, InCaret, Admits, Floor, Ceiling, AtLeast
  <2>2. CASE at[1] = 0 /\ at[2] # 0
    BY <1>1, <1>6, <2>2
       DEF ResolvedVersionSatisfies, InCaret, Admits, Floor, Ceiling, AtLeast
  <2>3. CASE at[1] = 0 /\ at[2] = 0
    <3>1. Floor(spec) = <<0, 0, at[3]>> /\ Ceiling(spec) = <<0, 0, at[3] + 1>>
      <4>1. Floor(spec) = at
        BY <1>6 DEF Floor
      <4>2. Ceiling(spec) = <<at[1], at[2], at[3] + 1>>
        BY <1>6, <2>3 DEF Ceiling
      <4> QED
        BY <1>1, <2>3, <4>1, <4>2
    <3>2. Admits(spec, v) <=> v = at
      BY <1>1, <1>6, <2>3, <3>1 DEF Admits, AtLeast
    <3>3. InCaret(v, at) <=> v = at
      BY <1>1, <2>3 DEF InCaret, AtLeast
    <3> QED
      BY <1>6, <3>2, <3>3 DEF ResolvedVersionSatisfies
  <2> QED
    BY <2>1, <2>2, <2>3
<1>7. CASE spec.kind = "tilde"
  BY <1>1, <1>7 DEF ResolvedVersionSatisfies, InTilde, Admits, Floor, Ceiling, AtLeast
<1> QED
  BY <1>1, <1>2, <1>3, <1>4, <1>5, <1>6, <1>7

\* A resolved version is a link, or stable and admitted.
LEMMA SatisfiedIsAdmitted ==
  ASSUME NEW spec \in Specifier, NEW r \in Resolution, ResolvedVersionSatisfies(spec, r)
  PROVE  r.link \/ Admits(spec, r.version)
<1>1. CASE r.link
  BY <1>1
<1>2. CASE ~r.link
  <2>1. r.version \in Version /\ r.stable
    BY <1>2 DEF Resolution, ResolvedVersionSatisfies
  <2>2. ResolvedVersionSatisfies(spec, [link |-> FALSE, stable |-> TRUE, version |-> r.version])
    BY <1>2, <2>1 DEF ResolvedVersionSatisfies
  <2> QED
    BY <2>1, <2>2, RangesAreIntervals
<1> QED
  BY <1>1, <1>2

\* A repository that keeps the rules holds one release.
LEMMA ValidIsInstallable ==
  ASSUME NEW c \in Commits, ValidRepository(Content[c], TagVersion)
  PROVE  Installable(Content[c], TagVersion)
<1> DEFINE packages == Content[c].packages
<1>1. DOMAIN packages = Packages /\ 1 \in Packages
  BY CommitsAssumption, PackageCountAssumption DEF Packages
<1>2. \A p \in Packages : packages[p].version = TagVersion
  BY <1>1 DEF ValidRepository, OneVersion
<1>3. ASSUME NEW p \in Packages, NEW d \in packages[p].dependencies
      PROVE  /\ d.on # 0 => d.specifier = [kind |-> "exact", at |-> TagVersion]
             /\ d.resolved.link \/ Admits(d.specifier, d.resolved.version)
  <2>1. d \in Dependencies(Content[c])
    BY <1>1, <1>3 DEF Dependencies
  <2>2. ResolvedVersionSatisfies(d.specifier, d.resolved)
    BY <2>1 DEF ValidRepository, LockfileSynchronized
  <2>3. d.specifier \in Specifier /\ d.resolved \in Resolution
    BY <1>3, CommitsAssumption
  <2>4. d.on # 0 => d.specifier = [kind |-> "exact", at |-> TagVersion]
    BY <1>1, <1>3 DEF ValidRepository, ExactInternalDependencies
  <2> QED
    BY <2>2, <2>3, <2>4, SatisfiedIsAdmitted
<1> QED
  BY <1>1, <1>2, <1>3 DEF Installable

-------------------------------------------------------------------------------
(***************************************************************************)
(* The inductive invariant: a running job has an authentic copy, every     *)
(* record before the one it is at was found in the registry as sealed, and *)
(* what is sealed is from a commit that was reviewed.                      *)
(***************************************************************************)
VisibleExist == \A p \in visible : registry[p] # None

RecordsBefore ==
  job \in Running =>
    /\ artifact = prepared
    /\ \A q \in 1..(record - 1) : q \in visible /\ registry[q] = prepared[q]

TagVouched == tag.annotated /\ tag.signed => tag.commit \in vouched

Reviewed(c) == c \in Main /\ c \in vouched /\ Installable(Content[c], TagVersion)

SealedReviewed ==
  job \in {"sealed", "unsmoked", "smoked", "authentic", "failed"} \cup Running
    => Reviewed(source)

IInv ==
  /\ TypeOK
  /\ TagVouched
  /\ SealedReviewed
  /\ VisibleExist
  /\ RecordsBefore
  /\ NoMixedRelease
  /\ DependenciesFirst
  /\ DoneIsComplete
  /\ ReviewedSource

-------------------------------------------------------------------------------
LEMMA IInvInit == Init => IInv
<1> SUFFICES ASSUME Init PROVE IInv
  OBVIOUS
<1>1. PICK i \in Integrities : prepared = [p \in Packages |-> i]
  BY DEF Init
<1>2. TypeOK
  BY <1>1, PackageCountAssumption, AttemptsAssumption, BoundsAssumption
     DEF Init, TypeOK, Running, Packages, Manifest, Tag
<1>3. TagVouched
  <2>1. tag.annotated /\ tag.signed
          => tag = [commit |-> tag.commit, annotated |-> TRUE, signed |-> TRUE]
    BY <1>2 DEF TypeOK, Tag
  <2> QED
    BY <1>2, <2>1 DEF Init, TypeOK, Tag, TagVouched
<1> QED
  BY <1>2, <1>3
     DEF Init, IInv, Running, VisibleExist, RecordsBefore, NoMixedRelease, DependenciesFirst,
         DoneIsComplete, SealedReviewed, ReviewedSource

\* Whether it skipped or confirmed it, the job goes on from a record the
\* registry shows as it was sealed.
LEMMA AdvanceStep ==
  ASSUME IInv, job \in Running, Queried = artifact[record], Advance,
         UNCHANGED <<git, event, sealed, artifact, attempt, remote, failures>>
  PROVE  IInv'
<1>1. /\ PackageCount \in Nat /\ record \in 1..PackageCount
      /\ artifact = prepared /\ prepared \in Manifest
  BY PackageCountAssumption DEF IInv, TypeOK, RecordsBefore, Packages
<1>2. record \in visible /\ registry[record] = prepared[record]
  BY <1>1, NoneAssumption DEF Queried, Manifest, Packages
<1>3. \A q \in 1..record : q \in visible /\ registry[q] = prepared[q]
  BY <1>1, <1>2 DEF IInv, RecordsBefore
<1>4. UNCHANGED <<tag, vouched, tagMoves, event, prepared, source, preparations, artifact,
                  attempt, registry, visible, origin, packedFrom, failures>>
  BY DEF git, sealed, remote
<1>0. Reviewed(source)
  BY DEF IInv, SealedReviewed
<1>5. CASE record < PackageCount
  <2>1. job' = "looking" /\ record' = record + 1 /\ record' \in Packages
    BY <1>1, <1>5 DEF Advance, Packages
  <2>2. RecordsBefore'
    <3>1. \A q \in 1..(record' - 1) : q \in visible' /\ registry'[q] = prepared'[q]
      BY <1>1, <1>3, <1>4, <2>1
    <3> QED
      BY <1>1, <1>4, <3>1 DEF RecordsBefore
  <2> QED
    BY <1>0, <1>4, <2>1, <2>2
       DEF IInv, TypeOK, VisibleExist, NoMixedRelease, DependenciesFirst, DoneIsComplete,
           Running, TagVouched, SealedReviewed, Reviewed, ReviewedSource
<1>6. CASE ~(record < PackageCount)
  <2>1. job' = "done" /\ record' = record /\ record = PackageCount
    BY <1>1, <1>6 DEF Advance
  <2>2. visible = Packages /\ registry = prepared
    <3>1. \A q \in Packages : q \in visible /\ registry[q] = prepared[q]
      BY <1>1, <1>3, <2>1 DEF Packages
    <3>2. visible \subseteq Packages /\ registry \in [Packages -> Integrities \cup {None}]
            /\ prepared \in [Packages -> Integrities]
      BY DEF IInv, TypeOK, Manifest
    <3> QED
      BY <3>1, <3>2
  <2> QED
    BY <1>0, <1>4, <2>1, <2>2
       DEF IInv, TypeOK, VisibleExist, NoMixedRelease, DependenciesFirst, DoneIsComplete,
           RecordsBefore, Running, TagVouched, SealedReviewed, Reviewed, ReviewedSource
<1> QED
  BY <1>5, <1>6

LEMMA PublishStep ==
  ASSUME IInv, Publish
  PROVE  IInv'
<1>1. /\ PackageCount \in Nat /\ record \in Packages /\ Packages = 1..PackageCount
      /\ artifact = prepared /\ prepared \in Manifest
      /\ registry \in [Packages -> Integrities \cup {None}]
      /\ origin \in [Packages -> Manifest] /\ visible \subseteq Packages
      /\ packedFrom \in [Packages -> Commits] /\ source \in Commits
  BY PackageCountAssumption DEF IInv, TypeOK, RecordsBefore, Packages, Publish, Running
<1>2. \A q \in 1..(record - 1) : q \in visible /\ registry[q] = prepared[q]
  BY DEF IInv, RecordsBefore, Publish, Running
<1>3. registry[record] = None /\ record \notin visible
  BY DEF Publish, IInv, VisibleExist
<1>4. /\ registry' = [registry EXCEPT ![record] = prepared[record]]
      /\ origin' = [origin EXCEPT ![record] = prepared]
      /\ packedFrom' = [packedFrom EXCEPT ![record] = source]
      /\ job' = "confirming" /\ attempt' = 0
      /\ UNCHANGED <<tag, vouched, tagMoves, event, prepared, source, preparations, artifact,
                     record, visible, failures>>
  BY <1>1 DEF Publish, git, sealed
<1>5. prepared[record] \in Integrities /\ prepared[record] # None
  BY <1>1, NoneAssumption DEF Manifest
<1>6. \A p \in Packages : registry[p] # None => p < record
  BY <1>1, <1>3 DEF IInv, DependenciesFirst
<1>7. TypeOK'
  BY <1>1, <1>4, <1>5, AttemptsAssumption DEF IInv, TypeOK, Running
<1>8. VisibleExist'
  BY <1>1, <1>3, <1>4 DEF IInv, VisibleExist
<1>9. RecordsBefore'
  BY <1>1, <1>2, <1>4 DEF RecordsBefore
<1>10. NoMixedRelease'
  <2> SUFFICES ASSUME NEW p \in Packages, registry'[p] # None, NEW q \in 1..p
               PROVE  registry'[q] = origin'[p][q]
    BY DEF NoMixedRelease
  <2>1. CASE p = record
    BY <1>1, <1>2, <1>4, <2>1
  <2>2. CASE p # record
    <3>1. registry[p] # None /\ p < record /\ q # record /\ q \in Packages
      BY <1>1, <1>4, <1>6, <2>2
    <3> QED
      BY <1>1, <1>4, <2>2, <3>1 DEF IInv, NoMixedRelease
  <2> QED
    BY <2>1, <2>2
<1>11. DependenciesFirst'
  BY <1>1, <1>2, <1>4 DEF IInv, DependenciesFirst
<1>12. Reviewed(source)
  BY DEF IInv, SealedReviewed, Publish, Running
<1>13. ReviewedSource'
  <2> SUFFICES ASSUME NEW p \in Packages, registry'[p] # None
               PROVE  Reviewed(packedFrom'[p])
    BY <1>4 DEF ReviewedSource, Reviewed
  <2>1. CASE p = record
    BY <1>1, <1>4, <1>12, <2>1
  <2>2. CASE p # record
    BY <1>1, <1>4, <2>2 DEF IInv, ReviewedSource, Reviewed
  <2> QED
    BY <2>1, <2>2
<1>14. TagVouched' /\ SealedReviewed'
  BY <1>4, <1>12 DEF IInv, TagVouched, SealedReviewed, Reviewed
<1> QED
  BY <1>4, <1>7, <1>8, <1>9, <1>10, <1>11, <1>13, <1>14 DEF IInv, DoneIsComplete

\* A step that leaves packages, records and manifests alone, and whose job is
\* not running after it, disturbs none of what they are related by.
LEMMA QuietStep ==
  ASSUME IInv, TypeOK', TagVouched', SealedReviewed', UNCHANGED remote, vouched \subseteq vouched',
         job' \in {"none", "checking", "packing", "refused", "sealed", "unsmoked", "smoked",
                  "authentic", "failed"}
  PROVE  IInv'
BY DEF remote, IInv, VisibleExist, RecordsBefore, NoMixedRelease, DependenciesFirst,
       DoneIsComplete, ReviewedSource, Reviewed, Running

LEMMA IInvStep == IInv /\ [Next]_vars => IInv'
<1> SUFFICES ASSUME IInv, [Next]_vars PROVE IInv'
  OBVIOUS
<1> USE DEF git, sealed, remote
<1>1. CASE MoveTag
  <2>1. tagMoves' \in 0..MaxTagMoves /\ vouched \subseteq vouched' /\ vouched' \subseteq Commits
    BY <1>1, BoundsAssumption DEF MoveTag, IInv, TypeOK, Tag
  <2>2. TypeOK' /\ TagVouched'
    BY <1>1, <2>1 DEF MoveTag, IInv, TypeOK, TagVouched, Running
  <2>3. RecordsBefore' /\ SealedReviewed' /\ ReviewedSource'
    BY <1>1, <2>1 DEF MoveTag, IInv, RecordsBefore, SealedReviewed, Reviewed, ReviewedSource
  <2> QED
    BY <1>1, <2>2, <2>3 DEF MoveTag, IInv, VisibleExist, NoMixedRelease, DependenciesFirst,
                            DoneIsComplete
<1>2. CASE StartPreparing
  <2>1. TypeOK' /\ TagVouched' /\ SealedReviewed'
    BY <1>2, BoundsAssumption DEF StartPreparing, IInv, TypeOK, Tag, TagVouched,
                                  SealedReviewed, Running
  <2> QED
    BY <1>2, <2>1, QuietStep DEF StartPreparing
<1>3. CASE AuthenticateSource
  <2>1. TypeOK' /\ TagVouched' /\ SealedReviewed'
    BY <1>3 DEF AuthenticateSource, IInv, TypeOK, TagVouched, SealedReviewed, Running
  <2> QED
    BY <1>3, <2>1, QuietStep DEF AuthenticateSource
<1>4. CASE Prepare
  <2>1. Reviewed(event)
    BY <1>4, ValidIsInstallable DEF Prepare, TagAuthentic, IInv, TypeOK, TagVouched, Reviewed
  <2>2. TypeOK' /\ TagVouched' /\ SealedReviewed'
    BY <1>4, <2>1 DEF Prepare, IInv, TypeOK, TagVouched, SealedReviewed, Reviewed, Running
  <2> QED
    BY <1>4, <2>2, QuietStep DEF Prepare
<1>5. CASE PrepareFails
  <2>1. failures' \in 0..MaxFailures
    BY <1>5, BoundsAssumption DEF PrepareFails, IInv, TypeOK
  <2>2. TypeOK' /\ TagVouched' /\ SealedReviewed'
    BY <1>5, <2>1 DEF PrepareFails, IInv, TypeOK, TagVouched, SealedReviewed, Running
  <2> QED
    BY <1>5, <2>2, QuietStep DEF PrepareFails
<1>6. CASE Smoke
  <2>1. failures' \in 0..MaxFailures
    BY <1>6, BoundsAssumption DEF Smoke, IInv, TypeOK
  <2>2. TypeOK' /\ TagVouched' /\ SealedReviewed'
    BY <1>6, <2>1 DEF Smoke, IInv, TypeOK, TagVouched, SealedReviewed, Reviewed, Running
  <2> QED
    BY <1>6, <2>2, QuietStep DEF Smoke
<1>7. CASE RerunFailedJobs \/ ReauthenticateSource
  <2>1. TypeOK' /\ TagVouched' /\ SealedReviewed'
    BY <1>7 DEF RerunFailedJobs, ReauthenticateSource, IInv, TypeOK, TagVouched,
                SealedReviewed, Reviewed, Running
  <2> QED
    BY <1>7, <2>1, QuietStep DEF RerunFailedJobs, ReauthenticateSource
<1>8. CASE CopyVerified
  <2>1. failures' \in 0..MaxFailures /\ record' = 1 /\ record' \in Packages
    BY <1>8, PackageCountAssumption, BoundsAssumption
       DEF CopyVerified, IInv, TypeOK, Packages
  <2>2. RecordsBefore' /\ SealedReviewed'
    BY <1>8 DEF CopyVerified, Authentic, IInv, RecordsBefore, SealedReviewed, Reviewed, Running
  <2> QED
    BY <1>8, <2>1, <2>2
       DEF CopyVerified, IInv, TypeOK, TagVouched, VisibleExist, NoMixedRelease,
           DependenciesFirst, DoneIsComplete, ReviewedSource, Running
<1>9. CASE SkipExisting
  BY <1>9, AdvanceStep DEF SkipExisting, SameRelease, Running
<1>10. CASE Publish
  BY <1>10, PublishStep
<1>11. CASE ConfirmPublished
  BY <1>11, AdvanceStep DEF ConfirmPublished, Confirmed, Running
<1>12. CASE PublishAbsent \/ ConfirmAgain
  <2>1. attempt' \in 0..(Attempts - 1)
    BY <1>12, AttemptsAssumption DEF PublishAbsent, ConfirmAgain, IInv, TypeOK
  <2> QED
    BY <1>12, <2>1
       DEF PublishAbsent, ConfirmAgain, IInv, TypeOK, TagVouched, SealedReviewed, Reviewed,
           VisibleExist, RecordsBefore, NoMixedRelease, DependenciesFirst, DoneIsComplete,
           ReviewedSource, Running
<1>13. CASE DifferentIntegrity \/ PublishRejected \/ ConfirmGivesUp
  <2>1. TypeOK' /\ TagVouched' /\ SealedReviewed'
    BY <1>13 DEF DifferentIntegrity, PublishRejected, ConfirmGivesUp, IInv, TypeOK, TagVouched,
                 SealedReviewed, Reviewed, Running
  <2> QED
    BY <1>13, <2>1, QuietStep DEF DifferentIntegrity, PublishRejected, ConfirmGivesUp
<1>14. CASE JobDies
  <2>1. failures' \in 0..MaxFailures
    BY <1>14, BoundsAssumption DEF JobDies, IInv, TypeOK
  <2>2. TypeOK' /\ TagVouched' /\ SealedReviewed'
    BY <1>14, <2>1 DEF JobDies, IInv, TypeOK, TagVouched, SealedReviewed, Reviewed, Running
  <2> QED
    BY <1>14, <2>2, QuietStep DEF JobDies
<1>15. ASSUME NEW p \in Packages, Propagate(p) PROVE IInv'
  BY <1>15 DEF Propagate, IInv, TypeOK, TagVouched, SealedReviewed, Reviewed, VisibleExist,
               RecordsBefore, NoMixedRelease, DependenciesFirst, DoneIsComplete,
               ReviewedSource, Running
<1>16. CASE UNCHANGED vars
  BY <1>16 DEF vars, IInv, TypeOK, TagVouched, SealedReviewed, Reviewed, VisibleExist,
               RecordsBefore, NoMixedRelease, DependenciesFirst, DoneIsComplete,
               ReviewedSource, Running
<1> QED
  BY <1>1, <1>2, <1>3, <1>4, <1>5, <1>6, <1>7, <1>8, <1>9, <1>10, <1>11, <1>12, <1>13,
     <1>14, <1>15, <1>16
     DEF Next, PrepareJob, PublishJob

LEMMA Invariance == Spec => []IInv
  BY IInvInit, IInvStep, PTL DEF Spec

-------------------------------------------------------------------------------
\* Type correctness of the workflow.
THEOREM TypeCorrect == Spec => []TypeOK
  BY Invariance, PTL DEF IInv

\* A package is never published beside earlier ones of another manifest.
THEOREM ReleaseUnmixed == Spec => []NoMixedRelease
  BY Invariance, PTL DEF IInv

\* Whatever is published can be installed: its dependencies can be found.
THEOREM DependenciesFound == Spec => []DependenciesFirst
  BY Invariance, PTL DEF IInv

\* A release that is reported done is complete.
THEOREM DoneComplete == Spec => []DoneIsComplete
  BY Invariance, PTL DEF IInv

\* Whatever is published comes from a reviewed commit that holds one release.
THEOREM SourceReviewed == Spec => []ReviewedSource
  BY Invariance, PTL DEF IInv

-------------------------------------------------------------------------------
(***************************************************************************)
(* The refinement.  A step of the jobs is one of Publication, or none of   *)
(* its business.                                                           *)
(***************************************************************************)
LEMMA PublicationInit == Init => Published!Init
<1> SUFFICES ASSUME Init PROVE Published!Init
  OBVIOUS
<1>1. TypeOK
  BY IInvInit DEF IInv
<1> QED
  BY <1>1 DEF Init, TypeOK, Manifest, Packages, Published!Init, Published!Manifest,
              Published!Packages

\* The record after the last one is a report; IInv says of what.
LEMMA AdvanceReports ==
  ASSUME IInv', job # "done", Advance,
         UNCHANGED <<vouched, prepared, source, registry, visible>>
  PROVE  Published!Report \/ UNCHANGED Published!vars
<1>1. CASE job' = "looking"
  BY <1>1 DEF Published!vars
<1>2. CASE job' = "done"
  <2>1. registry' = prepared' /\ visible' = Packages
    BY <1>2 DEF IInv, DoneIsComplete
  <2> QED
    BY <1>2, <2>1 DEF Published!Report, Published!Packages, Packages
<1> QED
  BY <1>1, <1>2 DEF Advance

LEMMA PublicationStep ==
  ASSUME IInv, IInv', [Next]_vars
  PROVE  [Published!Next]_(Published!vars)
<1> USE DEF git, sealed, remote
<1>1. CASE MoveTag
  <2>1. CASE vouched' = vouched
    BY <1>1, <2>1 DEF MoveTag, Published!vars
  <2>2. CASE vouched' # vouched
    <3>1. tag'.commit \in Commits /\ Published!Vouch(tag'.commit)
      BY <1>1, <2>2 DEF MoveTag, Tag, Published!Vouch
    <3> QED
      BY <3>1 DEF Published!Next
  <2> QED
    BY <2>1, <2>2
<1>2. CASE StartPreparing
  <2>1. CASE job = "done"
    BY <1>2, <2>1 DEF StartPreparing, Published!Next, Published!Reopen
  <2>2. CASE job # "done"
    BY <1>2, <2>2 DEF StartPreparing, Published!vars
  <2> QED
    BY <2>1, <2>2
<1>3. CASE Prepare
  <2>1. Reviewed(event) /\ event \in Commits
    BY <1>3, ValidIsInstallable DEF Prepare, TagAuthentic, IInv, TypeOK, TagVouched, Reviewed
  <2>2. prepared' \in Published!Manifest
    BY <1>3 DEF Prepare, Manifest, Packages, Published!Manifest, Published!Packages
  <2>3. Published!Seal(prepared', event)
    BY <1>3, <2>1 DEF Prepare, Reviewed, Releasable, Published!Reviewed, Published!Seal
  <2> QED
    BY <2>1, <2>2, <2>3 DEF Published!Next
<1>4. CASE Publish
  <2>1. record \in Published!Packages /\ artifact = prepared
    BY <1>4 DEF Publish, IInv, TypeOK, RecordsBefore, Running, Packages, Published!Packages
  <2>2. Published!Reviewed(source)
    BY <1>4 DEF Publish, IInv, SealedReviewed, Running, Reviewed, Releasable,
                Published!Reviewed
  <2>3. \A q \in 1..(record - 1) : q \in visible /\ registry[q] = prepared[q]
    BY <1>4 DEF Publish, IInv, RecordsBefore, Running
  <2>4. Published!Publish(record)
    BY <1>4, <2>1, <2>2, <2>3 DEF Publish, Published!Publish
  <2> QED
    BY <2>1, <2>4 DEF Published!Next
<1>5. CASE SkipExisting \/ ConfirmPublished
  <2>1. Published!Report \/ UNCHANGED Published!vars
    BY <1>5, AdvanceReports DEF SkipExisting, ConfirmPublished
  <2> QED
    BY <2>1 DEF Published!Next
<1>6. ASSUME NEW p \in Packages, Propagate(p)
      PROVE  Published!Next
  BY <1>6 DEF Propagate, Packages, Published!CatchUp, Published!Next, Published!Packages
<1>7. CASE AuthenticateSource \/ PrepareFails \/ Smoke \/ RerunFailedJobs
  BY <1>7 DEF AuthenticateSource, PrepareFails, Smoke, RerunFailedJobs, Published!vars
<1>8. CASE ReauthenticateSource \/ CopyVerified \/ PublishAbsent \/ DifferentIntegrity
  BY <1>8 DEF ReauthenticateSource, CopyVerified, PublishAbsent, DifferentIntegrity,
              Published!vars
<1>9. CASE PublishRejected \/ ConfirmAgain \/ ConfirmGivesUp \/ JobDies
  BY <1>9 DEF PublishRejected, ConfirmAgain, ConfirmGivesUp, JobDies, Running, Published!vars
<1>10. CASE UNCHANGED vars
  BY <1>10 DEF vars, Published!vars
<1> QED
  BY <1>1, <1>2, <1>3, <1>4, <1>5, <1>6, <1>7, <1>8, <1>9, <1>10
     DEF Next, PrepareJob, PublishJob

\* The workflow implements Publication: whatever dies, lags, is damaged, packed
\* anew or run again, the registry grows by sealed and reviewed packages beside
\* those of their own manifest, and nothing published ever changes.
THEOREM Implements == Spec => ImplementsPublication
<1>1. IInv /\ IInv' /\ [Next]_vars => [Published!Next]_(Published!vars)
  BY PublicationStep
<1> QED
  BY Invariance, PublicationInit, <1>1, PTL DEF Spec, ImplementsPublication, Published!Spec

-------------------------------------------------------------------------------
(***************************************************************************)
(* Retries.  Until a release was sealed nothing is published, and one that *)
(* was packed once is the only one anything was published of.              *)
(***************************************************************************)
NothingBeforeSealing ==
  /\ preparations = 0 => job = "none"
  /\ preparations < 2 /\ job \in {"none", "checking", "packing", "refused"} =>
       \A p \in Packages : registry[p] = None

RetryInv == IInv /\ NothingBeforeSealing /\ RetriesAgree

LEMMA RetryStep == RetryInv /\ [Next]_vars => RetryInv'
<1> SUFFICES ASSUME RetryInv, [Next]_vars PROVE RetryInv'
  OBVIOUS
<1> USE DEF git, sealed, remote
<1>1. IInv' /\ preparations \in Nat
  BY IInvStep, BoundsAssumption DEF RetryInv, IInv, TypeOK
<1>2. CASE StartPreparing
  BY <1>1, <1>2 DEF StartPreparing, RetryInv, NothingBeforeSealing, RetriesAgree
<1>3. CASE Prepare
  BY <1>1, <1>3 DEF Prepare, RetryInv, NothingBeforeSealing, RetriesAgree
<1>4. CASE Publish
  <2>1. artifact = prepared /\ record \in Packages
          /\ registry \in [Packages -> Integrities \cup {None}]
    BY <1>4 DEF Publish, RetryInv, IInv, TypeOK, RecordsBefore, Running
  <2> QED
    BY <1>1, <1>4, <2>1 DEF Publish, RetryInv, NothingBeforeSealing, RetriesAgree
<1>5. CASE SkipExisting \/ ConfirmPublished
  BY <1>1, <1>5 DEF SkipExisting, ConfirmPublished, Advance, RetryInv, NothingBeforeSealing,
                    RetriesAgree
<1>6. CASE AuthenticateSource \/ PrepareFails \/ Smoke \/ RerunFailedJobs
  BY <1>1, <1>6 DEF AuthenticateSource, PrepareFails, Smoke, RerunFailedJobs, RetryInv,
                    NothingBeforeSealing, RetriesAgree
<1>7. CASE ReauthenticateSource \/ CopyVerified \/ PublishAbsent \/ DifferentIntegrity
  BY <1>1, <1>7 DEF ReauthenticateSource, CopyVerified, PublishAbsent, DifferentIntegrity,
                    RetryInv, NothingBeforeSealing, RetriesAgree
<1>8. CASE PublishRejected \/ ConfirmAgain \/ ConfirmGivesUp \/ JobDies
  BY <1>1, <1>8 DEF PublishRejected, ConfirmAgain, ConfirmGivesUp, JobDies, Running, RetryInv,
                    NothingBeforeSealing, RetriesAgree
<1>9. CASE MoveTag \/ \E p \in Packages : Propagate(p)
  BY <1>1, <1>9 DEF MoveTag, Propagate, RetryInv, NothingBeforeSealing, RetriesAgree
<1>10. CASE UNCHANGED vars
  BY <1>1, <1>10 DEF vars, RetryInv, NothingBeforeSealing, RetriesAgree
<1> QED
  BY <1>2, <1>3, <1>4, <1>5, <1>6, <1>7, <1>8, <1>9, <1>10 DEF Next, PrepareJob, PublishJob

\* While a release was packed only once, its retries find nothing in the
\* registry but what they would publish.
THEOREM RetriesFindTheirOwn == Spec => []RetriesAgree
<1>1. Init => RetryInv
  BY IInvInit DEF RetryInv, NothingBeforeSealing, RetriesAgree, Init
<1>2. RetryInv => RetriesAgree
  BY DEF RetryInv
<1> QED
  BY <1>1, <1>2, RetryStep, PTL DEF Spec

-------------------------------------------------------------------------------
(***************************************************************************)
(* The publish job ends.                                                   *)
(***************************************************************************)
LEMMA StepsLeftNow ==
  LET each == Attempts + 2
      after == (PackageCount - record) * each
  IN /\ job = "smoked" => StepsLeft = 2 + PackageCount * each
     /\ job = "authentic" => StepsLeft = 1 + PackageCount * each
     /\ job = "looking" => StepsLeft = after + each
     /\ job = "publishing" => StepsLeft = after + Attempts + 1
     /\ job = "confirming" => StepsLeft = after + Attempts - attempt
BY DEF StepsLeft

LEMMA StepsLeftNext ==
  LET each == Attempts + 2
      after == (PackageCount - record') * each
  IN /\ job' = "authentic" => StepsLeft' = 1 + PackageCount * each
     /\ job' = "looking" => StepsLeft' = after + each
     /\ job' = "publishing" => StepsLeft' = after + Attempts + 1
     /\ job' = "confirming" => StepsLeft' = after + Attempts - attempt'
     /\ job' \in {"failed", "done"} => StepsLeft' = 0
BY DEF StepsLeft

\* One record less is as many steps less.
LEMMA RecordsLeft ==
  ASSUME NEW n \in Nat, NEW each \in Nat
  PROVE  n * each \in Nat /\ (n # 0 => (n - 1) * each + each = n * each)
OBVIOUS

LEMMA PublishJobStep ==
  ASSUME TypeOK, PublishJob
  PROVE  StepsLeft' \in 0..(StepsLeft - 1)
<1> DEFINE each == Attempts + 2
           after == (PackageCount - record) * each
           all == PackageCount * each
<1>1. /\ Attempts \in Nat \ {0} /\ PackageCount \in Nat \ {0} /\ each \in Nat
      /\ record \in 1..PackageCount /\ PackageCount - record \in Nat
      /\ attempt \in 0..(Attempts - 1)
  BY AttemptsAssumption, PackageCountAssumption DEF TypeOK, Packages
<1>2. after \in Nat /\ all \in Nat /\ (PackageCount - 1) * each + each = all
  BY <1>1, RecordsLeft
<1>3. record < PackageCount => (PackageCount - (record + 1)) * each + each = after
  <2>1. SUFFICES ASSUME record < PackageCount
                 PROVE  (PackageCount - (record + 1)) * each + each = after
    OBVIOUS
  <2>2. (PackageCount - record) # 0 /\ PackageCount - (record + 1) = (PackageCount - record) - 1
    BY <1>1, <2>1
  <2>3. ((PackageCount - record) - 1) * each + each = (PackageCount - record) * each
    BY <1>1, <2>2, RecordsLeft
  <2> QED
    BY <2>2, <2>3
<1>4. /\ job = "smoked" => StepsLeft = 2 + all
      /\ job = "authentic" => StepsLeft = 1 + all
      /\ job = "looking" => StepsLeft = after + each
      /\ job = "publishing" => StepsLeft = after + Attempts + 1
      /\ job = "confirming" => StepsLeft = after + Attempts - attempt
  BY StepsLeftNow
<1>5. /\ job' = "authentic" => StepsLeft' = 1 + all
      /\ job' = "looking" => StepsLeft' = (PackageCount - record') * each + each
      /\ job' \in {"failed", "done"} => StepsLeft' = 0
  BY StepsLeftNext
<1>6. UNCHANGED record =>
        /\ job' = "publishing" => StepsLeft' = after + Attempts + 1
        /\ job' = "confirming" => StepsLeft' = after + Attempts - attempt'
  BY StepsLeftNext
<1>7. ASSUME Advance, StepsLeft \in Nat, StepsLeft > after
      PROVE  StepsLeft' \in 0..(StepsLeft - 1)
  <2>1. CASE record < PackageCount
    <3>1. job' = "looking" /\ record' = record + 1
      BY <1>7, <2>1 DEF Advance
    <3>2. StepsLeft' = after
      BY <1>3, <1>5, <2>1, <3>1
    <3> QED
      BY <1>2, <1>7, <3>2
  <2>2. CASE ~(record < PackageCount)
    BY <1>2, <1>5, <1>7, <2>2 DEF Advance
  <2> QED
    BY <2>1, <2>2
<1> HIDE DEF each, after, all
<1>8. each = Attempts + 2
  BY DEF each
<1>9. CASE ReauthenticateSource
  BY <1>2, <1>4, <1>5, <1>9 DEF ReauthenticateSource
<1>10. CASE CopyVerified
  <2>1. job = "authentic" /\ record' = 1 /\ job' \in {"looking", "failed"}
    BY <1>10 DEF CopyVerified
  <2> QED
    BY <1>2, <1>4, <1>5, <2>1
<1>11. CASE PublishAbsent
  BY <1>1, <1>2, <1>4, <1>6, <1>8, <1>11 DEF PublishAbsent
<1>12. CASE SkipExisting
  BY <1>1, <1>2, <1>4, <1>7, <1>8, <1>12 DEF SkipExisting
<1>13. CASE DifferentIntegrity \/ PublishRejected
  BY <1>1, <1>2, <1>4, <1>5, <1>8, <1>13 DEF DifferentIntegrity, PublishRejected
<1>14. CASE Publish
  BY <1>1, <1>2, <1>4, <1>6, <1>14 DEF Publish
<1>15. CASE ConfirmPublished
  BY <1>1, <1>2, <1>4, <1>7, <1>15 DEF ConfirmPublished
<1>16. CASE ConfirmAgain
  <2>1. job = "confirming" /\ job' = "confirming" /\ attempt' = attempt + 1 /\ UNCHANGED record
    BY <1>16 DEF ConfirmAgain
  <2> QED
    BY <1>1, <1>2, <1>4, <1>6, <2>1
<1>17. CASE ConfirmGivesUp
  BY <1>1, <1>2, <1>4, <1>5, <1>17 DEF ConfirmGivesUp
<1> QED
  BY <1>9, <1>10, <1>11, <1>12, <1>13, <1>14, <1>15, <1>16, <1>17 DEF PublishJob

\* The publish job makes at most two steps and, for each record, Attempts + 2.
THEOREM JobEnds == Spec => JobRunsOut
<1>1. TypeOK /\ [Next]_vars => [PublishJob => StepsLeft' \in 0..(StepsLeft - 1)]_vars
  BY PublishJobStep
<1> QED
  BY TypeCorrect, <1>1, PTL DEF Spec, JobRunsOut
===============================================================================
