------------------------------- MODULE MCListing -------------------------------
(***************************************************************************)
(* Listing on a small instance: four keys, the middle two under a prefix;  *)
(* two memory stores, an S3, an R2 and an Azure adapter, where the host has *)
(* given the R2 adapter the backendId of the S3 adapter.                   *)
(***************************************************************************)
EXTENDS Listing

FourKeys == 1..4
SomePrefixes == {FourKeys, {2, 3}}
SomeLimits == 0..3
SomeStores ==
  {[kind |-> k, id |-> i, bucket |-> b] :
     <<k, i, b>> \in {<<"memory", 1, 1>>, <<"memory", 2, 2>>,
                      <<"s3", 3, 3>>, <<"r2", 3, 4>>, <<"azure", 5, 5>>}}
===============================================================================
