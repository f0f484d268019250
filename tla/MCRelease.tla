------------------------------- MODULE MCRelease -------------------------------
(* Release on a small instance: two packages, two ways each may come out. *)
EXTENDS Release

TwoBuilds == 1..2
V == <<0, 2, 0>>

Exact(v) == [kind |-> "exact", at |-> v]
Caret(v) == [kind |-> "caret", at |-> v]
At(v) == [link |-> FALSE, stable |-> TRUE, version |-> v]
Link == [link |-> TRUE, stable |-> FALSE, version |-> V]
Dependency(on, spec, resolved) ==
  [on |-> on, specifier |-> spec, pinned |-> spec, resolved |-> resolved]

\* The core package, and an adapter that depends on it and on a library.
Commit(core, adapter, onCore, library) ==
  [rootPinned |-> TRUE, inventory |-> 1..2,
   packages |->
     <<[metadata |-> TRUE, version |-> core, dependencies |-> {}],
       [metadata |-> TRUE, version |-> adapter,
        dependencies |-> {Dependency(1, onCore, Link),
                          Dependency(0, Caret(<<0, 3, 1>>), At(library))}]>>]

\* Two commits to release, one that was not merged, and four that a rule is
\* there to refuse.
SomeCommits ==
  <<Commit(V, V, Exact(V), <<0, 3, 1>>),
    Commit(V, V, Exact(V), <<0, 3, 4>>),
    Commit(V, V, Exact(V), <<0, 3, 1>>),
    Commit(V, V, Caret(V), <<0, 3, 1>>),            \* core within a range
    Commit(V, V, Exact(V), <<0, 4, 0>>),            \* a lockfile out of date
    Commit(V, <<0, 1, 0>>, Exact(V), <<0, 3, 1>>),  \* an adapter left behind
    Commit(<<0, 1, 0>>, <<0, 1, 0>>, Exact(<<0, 1, 0>>), <<0, 3, 1>>)>>

SevenCommits == 1..7
Merged == SevenCommits \ {3}

\* Reference check: on small numbers a lockfile entry is accepted exactly when
\* npm's interval for the specifier has it.
Small == (0..2) \X (0..2) \X (0..2)
ASSUME RangesAreIntervals ==
  \A kind \in {"exact", "any", "major", "minor", "caret", "tilde"}, at, v \in Small :
    ResolvedVersionSatisfies([kind |-> kind, at |-> at], At(v))
      <=> Admits([kind |-> kind, at |-> at], v)
===============================================================================
