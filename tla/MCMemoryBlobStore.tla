--------------------------- MODULE MCMemoryBlobStore ---------------------------
(* MemoryBlobStore on small instances. *)
EXTENDS MemoryBlobStore, TLC

\* Callers are interchangeable: no operation tells one from another.
CallersSymmetry == Permutations(Callers)

\* No per-call ceiling, or one the store rejects.
SomeMaxBytes == {Unset, MaxObjectBytes + 1}
===============================================================================
