----------------------------- MODULE MCBuckets ------------------------------
(* Buckets on small instances.                                               *)
EXTENDS Buckets, TLC

CONSTANTS ann, bob

Interchangeable == Permutations(Clients)
=============================================================================
