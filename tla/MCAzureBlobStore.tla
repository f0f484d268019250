---------------------------- MODULE MCAzureBlobStore ---------------------------
(* AzureBlobStore on small instances. *)
EXTENDS AzureBlobStore, TLC

\* Callers are interchangeable: no operation tells one from another.
CallersSymmetry == Permutations(Callers)

\* No per-call ceiling; or none, and one the store rejects.
NoMaxBytes == {Unset}
SomeMaxBytes == {Unset, MaxObjectBytes + 1}
===============================================================================
