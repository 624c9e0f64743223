---------------------------- MODULE JettonMaster ----------------------------
(***************************************************************************)
(* The jetton master: contracts/contracts/rolling_mintless_master.fc.      *)
(* One action per op of recv_internal; an op whose throw_unless fails      *)
(* leaves the storage alone and is no step, except for burn_notification,  *)
(* whose sender is a wallet that sees the message bounce.                  *)
(***************************************************************************)
EXTENDS JettonNet

CONSTANTS
    Accounts,       \* accounts that may send admin ops
    Contents,       \* TEP-64 content cells
    MaxSupply       \* max_supply set at deployment, 0 = unlimited

VARIABLE master       \* the master's storage

ASSUME MaxSupplyAssumption == MaxSupply \in Nat

MasterStorage == [totalSupply : Nat, admin : Accounts, content : Contents,
                  root : Tree \cup {NoRoot}, epoch : Nat, signer : Signers,
                  paused : BOOLEAN]

FromAdmin(sender) == sender = master.admin

\* op::mint.  The wallet minted to is the one of the current signer.
Mint(sender, to, amount) ==
    /\ FromAdmin(sender)
    /\ MaxSupply > 0 => master.totalSupply + amount <= MaxSupply
    /\ master' = [master EXCEPT !.totalSupply = @ + amount]
    /\ Send(InternalTransfer(Master, WalletAddress(to, master.signer), amount))

\* burn_notification is accepted from the wallet address derived with the
\* current signer (708), and total_supply is stored as Coins: the transaction
\* fails when it would be negative.
BurnAccepted(m) ==
    /\ m.src = WalletAddress(m.src[1], master.signer)
    /\ master.totalSupply >= m.amount

BurnNotification(m) ==
    /\ m.op = "burn_notification" /\ ~m.bounced
    /\ BurnAccepted(m)
    /\ master' = [master EXCEPT !.totalSupply = @ - m.amount]
    /\ Consume(m)

BurnNotificationRejected(m) ==
    /\ m.op = "burn_notification" /\ ~m.bounced
    /\ ~BurnAccepted(m)
    /\ ReturnBounced(m)
    /\ UNCHANGED master

\* A bounced mint is ignored: total_supply keeps counting it.
IgnoreBounced(m) ==
    /\ m.bounced /\ m.dst = Master
    /\ Consume(m)
    /\ UNCHANGED master

\* op::update_merkle_root: not while paused (74), only forward (807).
UpdateMerkleRoot(sender, newRoot, newEpoch) ==
    /\ FromAdmin(sender)
    /\ ~master.paused
    /\ newEpoch > master.epoch
    /\ master' = [master EXCEPT !.root = newRoot, !.epoch = newEpoch]
    /\ UNCHANGED net

UpdateSigner(sender, newSigner) ==
    /\ FromAdmin(sender)
    /\ master' = [master EXCEPT !.signer = newSigner]
    /\ UNCHANGED net

\* op::pause and op::unpause.
SetPaused(sender, paused) ==
    /\ FromAdmin(sender)
    /\ master' = [master EXCEPT !.paused = paused]
    /\ UNCHANGED net

ChangeAdmin(sender, newAdmin) ==
    /\ FromAdmin(sender)
    /\ master' = [master EXCEPT !.admin = newAdmin]
    /\ UNCHANGED net

ChangeContent(sender, newContent) ==
    /\ FromAdmin(sender)
    /\ master' = [master EXCEPT !.content = newContent]
    /\ UNCHANGED net
=============================================================================
