---------------------------- MODULE EpochRegister ----------------------------
(***************************************************************************)
(* What the backend promises about the numbers of its epochs, without      *)
(* ticks, syncs, messages or failures: a number is signed at most once and *)
(* keeps its root, a crash takes the served number back to the last one    *)
(* that was written and never behind a signed one, and a number is marked  *)
(* as committed only when the chain has got there, one by one.             *)
(***************************************************************************)
EXTENDS Naturals

CONSTANT Roots

VARIABLES
    served,         \* the number that vouchers of now carry
    durable,        \* the number that a restart comes back to
    signed,         \* number -> root of the epochs that were signed
    committed,      \* the numbers marked as committed
    chain           \* the number of the root on chain

Init ==
    /\ served = 0 /\ durable = 0 /\ chain = 0
    /\ signed \in [{} -> Roots]
    /\ committed = {}

Advance ==
    /\ served' = served + 1
    /\ UNCHANGED <<durable, signed, committed, chain>>

Write ==
    /\ durable < served
    /\ durable' = served
    /\ UNCHANGED <<served, signed, committed, chain>>

Sign ==
    /\ durable = served
    /\ \A e \in DOMAIN signed : e < durable
    /\ signed' \in [DOMAIN signed \cup {durable} -> Roots]
    /\ \A e \in DOMAIN signed : signed'[e] = signed[e]
    /\ UNCHANGED <<served, durable, committed, chain>>

Crash ==
    /\ durable <= served
    /\ served' = durable
    /\ UNCHANGED <<durable, signed, committed, chain>>

Commit ==
    /\ chain' = chain + 1
    /\ UNCHANGED <<served, durable, signed, committed>>

Mark(e) ==
    /\ e \in DOMAIN signed /\ e <= chain
    /\ committed' = committed \cup {e}
    /\ UNCHANGED <<served, durable, signed, chain>>

Next ==
    \/ Advance \/ Write \/ Sign \/ Crash \/ Commit
    \/ \E e \in DOMAIN signed : Mark(e)

Spec == Init /\ [][Next]_<<served, durable, signed, committed, chain>>
=============================================================================
