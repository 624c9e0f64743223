----------------------------- MODULE MCClaimFlow -----------------------------
(* ClaimFlow for TLC: every bound is a constant of the configuration. *)
EXTENDS ClaimFlow
=============================================================================
