----------------------------- MODULE MCFreshness -----------------------------
(***************************************************************************)
(* Freshness with two concurrent requests.                                 *)
(***************************************************************************)
EXTENDS Freshness, TLC

AnyJob == Permutations(Jobs)
=============================================================================
