------------------------------ MODULE MCBackend ------------------------------
(***************************************************************************)
(* Backend for TLC.  Users are interchangeable.                            *)
(***************************************************************************)
EXTENDS Backend, TLC

Symmetry == Permutations(Users)
=============================================================================
