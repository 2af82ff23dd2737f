----------------------------- MODULE DiscoverMC -----------------------------
(* A short list of steps for Discover. *)
EXTENDS Discover

MCKinds == <<"axis", "any", "button">>
=============================================================================
