-------------------------- MODULE MCRollingJetton --------------------------
(***************************************************************************)
(* RollingJetton for TLC.  Owners are interchangeable: nothing orders or   *)
(* names them.                                                             *)
(***************************************************************************)
EXTENDS RollingJetton, TLC

Symmetry == Permutations(Owners)

\* A HashMap the backend may not have served when a claim is made under it, with
\* as much for everybody as anybody can earn.
NoProofs == {}
FullProof ==
    {[o \in Owners |-> [cumulative |-> MaxCumulative, startFrom |-> 0, expiredAt |-> MaxTime]]}
=============================================================================
