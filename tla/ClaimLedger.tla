----------------------------- MODULE ClaimLedger -----------------------------
(***************************************************************************)
(* What the rolling mintless claim promises, without roots, proofs,        *)
(* vouchers, epochs or messages: owners earn, and every wallet of an owner *)
(* is credited in steps that never take its total beyond the earnings.     *)
(***************************************************************************)
EXTENDS Naturals

CONSTANTS
    Owners,
    Wallets,
    ownerOf         \* wallet -> its owner

VARIABLES
    earned,         \* owner -> cumulative reward
    claimed         \* wallet -> total credited by claims

Init ==
    /\ earned = [o \in Owners |-> 0]
    /\ claimed = [w \in Wallets |-> 0]

Earn(o) ==
    /\ earned' = [earned EXCEPT ![o] = earned'[o]]
    /\ earned'[o] > earned[o]
    /\ UNCHANGED claimed

Claim(w) ==
    /\ claimed' = [claimed EXCEPT ![w] = claimed'[w]]
    /\ claimed'[w] > claimed[w]
    /\ claimed'[w] <= earned[ownerOf[w]]
    /\ UNCHANGED earned

Next == (\E o \in Owners : Earn(o)) \/ (\E w \in Wallets : Claim(w))

Spec == Init /\ [][Next]_<<earned, claimed>>
=============================================================================
