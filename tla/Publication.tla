------------------------------ MODULE Publication ------------------------------
(***************************************************************************)
(* What the publish workflow promises to those who install its packages,   *)
(* said of the registry alone and of nothing that goes on in a job: it     *)
(* grows by one package at a time, in the order of their dependencies,     *)
(* each from the manifest that is sealed, and only beside packages of      *)
(* that very manifest which everybody can find.  Nothing that was ever     *)
(* published changes, whatever is sealed next.                             *)
(***************************************************************************)
EXTENDS Naturals

CONSTANTS
  PackageCount,     \* RELEASE_PACKAGES, in the order of their dependencies
  Integrities,      \* what a package's tarball may come out as
  None,             \* a version the registry does not have
  Commits,          \* what packages may be packed from
  Releasable        \* those that were merged and hold one installable release

Packages == 1..PackageCount
Manifest == [Packages -> Integrities]

VARIABLES
  vouched,          \* the commits an approved signer has tagged
  manifest,         \* the manifest that is sealed
  commit,           \* and the commit it was packed from
  registry,         \* registry[p]: the integrity of the version, or None
  visible,          \* the packages that everybody finds
  reported          \* the workflow says that the release is done

vars == <<vouched, manifest, commit, registry, visible, reported>>

Init ==
  /\ vouched \subseteq Commits
  /\ manifest \in Manifest /\ commit \in Commits
  /\ registry = [p \in Packages |-> None]
  /\ visible = {}
  /\ ~reported

\* What may be sealed and published: what was packed from a commit that somebody
\* approved answers for, and that is fit to be released.
Reviewed(c) == c \in Releasable /\ c \in vouched

Vouch(c) ==
  /\ vouched' = vouched \cup {c}
  /\ UNCHANGED <<manifest, commit, registry, visible, reported>>

Seal(m, c) ==
  /\ ~reported /\ Reviewed(c)
  /\ manifest' = m /\ commit' = c
  /\ UNCHANGED <<vouched, registry, visible, reported>>

Publish(p) ==
  /\ ~reported /\ Reviewed(commit)
  /\ registry[p] = None
  /\ \A q \in 1..(p - 1) : q \in visible /\ registry[q] = manifest[q]
  /\ registry' = [registry EXCEPT ![p] = manifest[p]]
  /\ UNCHANGED <<vouched, manifest, commit, visible, reported>>

CatchUp(p) ==
  /\ registry[p] # None
  /\ visible' = visible \cup {p}
  /\ UNCHANGED <<vouched, manifest, commit, registry, reported>>

\* The release is done once all of it is what was sealed, for everybody.
Report ==
  /\ ~reported /\ reported'
  /\ registry = manifest /\ visible = Packages
  /\ UNCHANGED <<vouched, manifest, commit, registry, visible>>

\* The workflow is run again.
Reopen ==
  /\ reported /\ ~reported'
  /\ UNCHANGED <<vouched, manifest, commit, registry, visible>>

Next ==
  \/ \E c \in Commits : Vouch(c)
  \/ \E m \in Manifest, c \in Commits : Seal(m, c)
  \/ \E p \in Packages : Publish(p) \/ CatchUp(p)
  \/ Report \/ Reopen

Spec == Init /\ [][Next]_vars
===============================================================================
