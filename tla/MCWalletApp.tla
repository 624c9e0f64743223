------------------------------ MODULE MCWalletApp ------------------------------
(* WalletApp for TLC: every bound is a constant of the configuration. *)
EXTENDS WalletApp
=============================================================================
