---------------------------- MODULE MCGameServer ----------------------------
(***************************************************************************)
(* GameServer for TLC.  Users are interchangeable, and so are the slots of *)
(* concurrent calls.                                                       *)
(***************************************************************************)
EXTENDS GameServer, TLC

Symmetry == Permutations(Users) \cup Permutations(Requests)
=============================================================================
