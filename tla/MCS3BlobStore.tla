----------------------------- MODULE MCS3BlobStore -----------------------------
(* S3BlobStore on small instances. *)
EXTENDS S3BlobStore, TLC

\* Callers are interchangeable: no operation tells one from another.
CallersSymmetry == Permutations(Callers)

NoMaxBytes == {Unset}
===============================================================================
