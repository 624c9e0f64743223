---------------------------- MODULE JettonWallet ----------------------------
(***************************************************************************)
(* The jetton wallets: contracts/contracts/rolling_mintless_wallet.fc.     *)
(*                                                                         *)
(* Every inbound message is one action and one TVM transaction: a throw    *)
(* after save_data reverts everything, so that a claim and the transfer it *)
(* rides on apply together or not at all.  A wallet that was never         *)
(* deployed has the state of its state_init, which every message that can  *)
(* reach it carries.                                                       *)
(* TON amounts and gas are abstracted to the outcome: a transaction runs,  *)
(* does not happen, or its message bounces.                                *)
(***************************************************************************)
EXTENDS JettonNet

CONSTANT MaxInFlight    \* bound: no message is sent with this many in flight

VARIABLES
    wallet,             \* address -> wallet storage
    now                 \* unix time

MaySend == BagCardinality(net) < MaxInFlight

-----------------------------------------------------------------------------
(* op::transfer *)

\* Mutation of SendTokens: the balance is not checked.
SendTokensOverdrawn(a, w, amount, to) ==
    /\ MaySend
    /\ wallet' = [wallet EXCEPT ![a] = [w EXCEPT !.balance = @ - amount]]
    /\ Send(InternalTransfer(a, WalletAddress(to, a[2]), amount))
    /\ UNCHANGED now

\* The rest of send_tokens after the claim has produced storage w: the balance
\* check (707), the debit, and internal_transfer to the wallet of the recipient
\* that has the same signer as this one.
SendTokens(a, w, amount, to) ==
    /\ w.balance >= amount
    /\ MaySend
    /\ wallet' = [wallet EXCEPT ![a] = [w EXCEPT !.balance = w.balance - amount]]
    /\ Send(InternalTransfer(a, WalletAddress(to, a[2]), amount))
    /\ UNCHANGED now

\* No custom payload, or one with an op the wallet ignores.
Transfer(a, amount, to) == SendTokens(a, wallet[a], amount, to)

\* rolling_claim with a voucher.
TransferRollingClaim(a, v, proof, amount, to) ==
    LET w == wallet[a] IN
    /\ VoucherAccepted(v, w.root, w.epoch, a[2])
    /\ ClaimAccepted(proof, v.root, a[1], w.alreadyClaimed, now)
    /\ SendTokens(a, ApplyMerkleClaim(w, v.root, v.epoch, a[1]), amount, to)

\* rolling_claim without a voucher: against the cached root.
TransferCachedClaim(a, proof, amount, to) ==
    LET w == wallet[a] IN
    /\ ClaimAccepted(proof, w.root, a[1], w.alreadyClaimed, now)
    /\ SendTokens(a, ApplyMerkleClaim(w, w.root, w.epoch, a[1]), amount, to)

\* merkle_airdrop_claim (TEP-177): the root is the one in the proof, compared with
\* nothing; the cached epoch is kept.
TransferMerkleAirdropClaim(a, proof, amount, to) ==
    LET w == wallet[a]
        proofRoot == MerkleProofRoot(proof) IN
    /\ ClaimAccepted(proof, proofRoot, a[1], w.alreadyClaimed, now)
    /\ SendTokens(a, ApplyMerkleClaim(w, proofRoot, w.epoch, a[1]), amount, to)

-----------------------------------------------------------------------------
(* op::internal_transfer, op::burn, and bounced messages *)

\* receive_tokens.
ReceiveTokens(m) ==
    /\ m.op = "internal_transfer" /\ ~m.bounced /\ m.dst \in Address
    /\ wallet' = [wallet EXCEPT ![m.dst].balance = @ + m.amount]
    /\ Consume(m)
    /\ UNCHANGED now

\* receive_tokens looks at no sender: it credits an internal_transfer of an account
\* that is neither the master nor a wallet as it credits any other.
ReceiveFromElsewhere(a, amount) ==
    /\ wallet' = [wallet EXCEPT ![a].balance = @ + amount]
    /\ UNCHANGED <<net, now>>

\* The recipient's transaction runs out of gas: the network bounces the message.
TransferBounces(m) ==
    /\ m.op = "internal_transfer" /\ ~m.bounced
    /\ ReturnBounced(m)
    /\ UNCHANGED <<wallet, now>>

\* burn_tokens.
BurnTokens(a, amount) ==
    /\ wallet[a].balance >= amount
    /\ MaySend
    /\ wallet' = [wallet EXCEPT ![a].balance = @ - amount]
    /\ Send(BurnNotice(a, amount))
    /\ UNCHANGED now

\* Mutation of OnBounce: the balance is not restored.
OnBounceIgnored(m) ==
    /\ m.op = "internal_transfer" /\ m.bounced /\ m.dst \in Address
    /\ Consume(m)
    /\ UNCHANGED <<wallet, now>>

\* on_bounce of an internal_transfer restores the balance.
OnBounce(m) ==
    /\ m.op = "internal_transfer" /\ m.bounced /\ m.dst \in Address
    /\ wallet' = [wallet EXCEPT ![m.dst].balance = @ + m.amount]
    /\ Consume(m)
    /\ UNCHANGED now

\* on_bounce of anything else throws wrong_op: the message is consumed.
OnBounceWrongOp(m) ==
    /\ m.op # "internal_transfer" /\ m.bounced /\ m.dst \in Address
    /\ Consume(m)
    /\ UNCHANGED <<wallet, now>>
=============================================================================
