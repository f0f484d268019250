------------------------------- MODULE ReleaseRules -----------------------------
(***************************************************************************)
(* What a commit must be before its packages are packed: validateRepository*)
(* with the checks it makes of each package and of the lockfile.           *)
(*                                                                         *)
(* A version is a triple of numbers.  A specifier asks for one version, or *)
(* for any in a range; a lockfile entry repeats the specifier and has what *)
(* it was resolved to: a version, stable or not, or a link to the          *)
(* workspace.  What of package.json is only compared with constants        *)
(* (licence, engines, files, exports) is one Boolean; specifiers that name *)
(* a prerelease are left out.                                              *)
(*                                                                         *)
(* A definition marked "slip" is used nowhere: put in the place of the one *)
(* below it, it is the mistake that a property is there to catch.          *)
(***************************************************************************)
EXTENDS Integers

Version == Nat \X Nat \X Nat

\* A range that names fewer numbers than three leaves the others at 0.
Specifier ==
  [kind : {"exact", "any", "major", "minor", "caret", "tilde"}, at : Version]

Resolution == [link : BOOLEAN, stable : BOOLEAN, version : Version]

\* compareStableSemver(v, w) >= 0
AtLeast(v, w) ==
  \/ v[1] > w[1]
  \/ v[1] = w[1] /\ v[2] > w[2]
  \/ v[1] = w[1] /\ v[2] = w[2] /\ v[3] >= w[3]

\* ^floor: what is left of the first number that is not 0 stays.
InCaret(v, floor) ==
  /\ AtLeast(v, floor)
  /\ v[1] = floor[1]
  /\ floor[1] = 0 => v[2] = floor[2]
  /\ floor[1] = 0 /\ floor[2] = 0 => v[3] = floor[3]

InTilde(v, floor) == AtLeast(v, floor) /\ v[1] = floor[1] /\ v[2] = floor[2]

\* resolvedVersionSatisfies
ResolvedVersionSatisfies(spec, resolved) ==
  LET v == resolved.version
  IN \/ resolved.link
     \/ resolved.stable /\ spec.kind = "exact" /\ v = spec.at
     \/ resolved.stable /\ spec.kind = "any"
     \/ resolved.stable /\ spec.kind = "major" /\ v[1] = spec.at[1]
     \/ resolved.stable /\ spec.kind = "minor" /\ v[1] = spec.at[1] /\ v[2] = spec.at[2]
     \/ resolved.stable /\ spec.kind = "caret" /\ InCaret(v, spec.at)
     \/ resolved.stable /\ spec.kind = "tilde" /\ InTilde(v, spec.at)

-------------------------------------------------------------------------------
(***************************************************************************)
(* A commit is a record [rootPinned, packages, inventory]: whether the     *)
(* root is private and pins the package manager; packages[p], the manifest *)
(* of the p-th release package, [metadata, version, dependencies]; and the *)
(* public workspaces found.  A dependency is [on, specifier, pinned,       *)
(* resolved]: on is a release package, or 0 for any other.  They are the   *)
(* peerDependencies, and the dependencies under other names.               *)
(***************************************************************************)
Dependencies(commit) ==
  UNION {commit.packages[p].dependencies : p \in DOMAIN commit.packages}

\* assertPnpmLockfileSynchronized
LockfileSynchronized(commit) ==
  \A d \in Dependencies(commit) :
    d.pinned = d.specifier /\ ResolvedVersionSatisfies(d.specifier, d.resolved)

OneVersion(commit) ==
  \A p, q \in DOMAIN commit.packages : commit.packages[p].version = commit.packages[q].version

AnySpecifier(commit) == TRUE                        \* slip

\* Release packages depend on each other at the shared version exactly.
ExactInternalDependencies(commit) ==
  \A p \in DOMAIN commit.packages : \A d \in commit.packages[p].dependencies :
    d.on # 0 => d.specifier = [kind |-> "exact", at |-> commit.packages[1].version]

\* validateRepository, for the tag `v' and this version.
ValidRepository(commit, tagged) ==
  /\ commit.rootPinned
  /\ \A p \in DOMAIN commit.packages : commit.packages[p].metadata
  /\ LockfileSynchronized(commit)
  /\ OneVersion(commit)
  /\ ExactInternalDependencies(commit)
  /\ commit.inventory = DOMAIN commit.packages
  /\ tagged = commit.packages[1].version

-------------------------------------------------------------------------------
(***************************************************************************)
(* What those rules are for, in terms of their own.                        *)
(***************************************************************************)
\* The versions a specifier admits, by the rules of npm: from a floor up to,
\* and without, a ceiling.
Floor(spec) ==
  CASE spec.kind = "any" -> <<0, 0, 0>>
    [] spec.kind = "major" -> <<spec.at[1], 0, 0>>
    [] spec.kind = "minor" -> <<spec.at[1], spec.at[2], 0>>
    [] OTHER -> spec.at

Ceiling(spec) ==
  LET at == spec.at
      belowNextMajor == spec.kind = "major" \/ (spec.kind = "caret" /\ at[1] # 0)
      belowNextMinor == \/ spec.kind \in {"minor", "tilde"}
                        \/ spec.kind = "caret" /\ at[1] = 0 /\ at[2] # 0
  IN IF belowNextMajor THEN <<at[1] + 1, 0, 0>>
     ELSE IF belowNextMinor THEN <<at[1], at[2] + 1, 0>>
     ELSE <<at[1], at[2], at[3] + 1>>

Admits(spec, v) ==
  AtLeast(v, Floor(spec)) /\ (spec.kind = "any" \/ ~AtLeast(v, Ceiling(spec)))

\* A consumer who installs the packages of a commit at version v gets those of
\* that release and no other, and they were tested against what they ask for.
Installable(commit, v) ==
  \A p \in DOMAIN commit.packages :
    /\ commit.packages[p].version = v
    /\ \A d \in commit.packages[p].dependencies :
         /\ d.on # 0 => d.specifier = [kind |-> "exact", at |-> v]
         /\ d.resolved.link \/ Admits(d.specifier, d.resolved.version)
===============================================================================
