------------------------------ MODULE JettonNet ------------------------------
(***************************************************************************)
(* The internal messages between the jetton contracts that carry jettons:  *)
(* internal_transfer (wallet or master to wallet) and burn_notification    *)
(* (wallet to master).  A transaction that throws makes the network return *)
(* its message to the sender, flagged as bounced.  Messages in flight are  *)
(* a bag: each is delivered once, in any order.                            *)
(*                                                                         *)
(* A wallet address is derived from (owner, master, code, signer_pubkey):  *)
(* there is one wallet per owner and signer.                               *)
(***************************************************************************)
EXTENDS MerkleClaim, Bags

CONSTANT Master         \* the address of the jetton master

VARIABLE net            \* bag of messages in flight

\* calculate_user_jetton_wallet_address, for a fixed master and code.
WalletAddress(owner, signer) == <<owner, signer>>
Address == Owners \X Signers

ASSUME MasterAssumption == Master \notin Address

Message == [op : {"internal_transfer", "burn_notification"}, bounced : BOOLEAN,
            src : Address \cup {Master}, dst : Address \cup {Master}, amount : Nat]

InternalTransfer(src, dst, amount) ==
    [op |-> "internal_transfer", bounced |-> FALSE,
     src |-> src, dst |-> dst, amount |-> amount]

BurnNotice(src, amount) ==
    [op |-> "burn_notification", bounced |-> FALSE,
     src |-> src, dst |-> Master, amount |-> amount]

Bounced(m) ==
    [op |-> m.op, bounced |-> TRUE, src |-> m.dst, dst |-> m.src, amount |-> m.amount]

One(m) == SetToBag({m})

Send(m) == net' = net (+) One(m)
Consume(m) == BagIn(m, net) /\ net' = net (-) One(m)
ReturnBounced(m) == BagIn(m, net) /\ net' = (net (-) One(m)) (+) One(Bounced(m))
=============================================================================
