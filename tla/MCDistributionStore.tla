-------------------------- MODULE MCDistributionStore --------------------------
(* Two entries that can share either of two contents, and one download. *)
EXTENDS DistributionStore
=============================================================================
