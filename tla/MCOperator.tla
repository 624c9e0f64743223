------------------------------ MODULE MCOperator ------------------------------
(* Operator for TLC: every bound is a constant of the configuration. *)
EXTENDS Operator
=============================================================================
