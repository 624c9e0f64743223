--------------------------- MODULE RollingJetton ---------------------------
(***************************************************************************)
(* The on-chain system: the master and all wallets, with an abstract       *)
(* backend that grows the Airdrop HashMap, advances the epoch and signs    *)
(* vouchers over the live root.                                            *)
(*                                                                         *)
(* A Proof API answer may be used at any later time, in any order and more *)
(* than once, so every (epoch, root, signer) that was once live stays in   *)
(* issued, and a claim may carry any of them.  How the backend gets there  *)
(* is the subject of other modules; here it is honest and sequential.      *)
(*                                                                         *)
(* Two inputs of a wallet come from no modelled component, and the wallet  *)
(* accepts them: merkle_airdrop_claim takes the root from the proof, and   *)
(* receive_tokens checks no sender.  History variables, which no guard     *)
(* reads, count what they bring, so that the properties can say what holds *)
(* beside it.                                                              *)
(***************************************************************************)
EXTENDS JettonWallet, JettonMaster, FiniteSetsExt

CONSTANTS
    Admin0,             \* admin at deployment
    Signer0,            \* signer_pubkey at deployment
    Window,             \* PROOF_VALIDITY_WINDOW_DAYS, in clock ticks
    MaxCumulative,      \* bound on a leaf's cumulative amount
    MaxEpoch,           \* bound on the backend's epoch
    MaxMasterEpoch,     \* bound on the epoch of the master's root
    MaxAmount,          \* bound on one transfer or burn
    MaxTime,            \* bound on the clock
    MaxMint,            \* bound on one mint, 0 = the admin never mints
    MaxRestarts,        \* bound on backend restarts
    OtherProofs,        \* proofs of HashMaps that are not the backend's
    MaxForeign,         \* bound on jettons received from other accounts
    AdminOps            \* the admin ops that occur, of those in AdminOp

VARIABLES
    live,               \* the backend's Airdrop HashMap
    epoch,              \* the backend's epoch
    key,                \* the public key of the backend's SIGNER_SEED_HEX
    issued,             \* vouchers of every state the backend served from
    restarts,           \* number of backend restarts
    stranded,           \* history: jettons no balance or message holds any more
    foreign,            \* history: jettons received from accounts not modelled
    byProof,            \* history: wallets whose root came with a proof, unsigned
    unsigned,           \* history: wallet -> credit without a voucher
    unserved            \* history: wallet -> credit under roots never served

creditVars == <<byProof, unsigned, unserved>>
historyVars == <<stranded, foreign, creditVars>>
chainVars == <<wallet, master, net, now, historyVars>>
backendVars == <<live, epoch, key, issued, restarts>>
vars == <<wallet, master, net, now, stranded, foreign, byProof, unsigned, unserved,
          live, epoch, key, issued, restarts>>

ASSUME RollingJettonAssumption ==
    /\ Admin0 \in Accounts
    /\ Signer0 \in Signers
    /\ Window \in Nat /\ MaxCumulative \in Nat /\ MaxEpoch \in Nat
    /\ MaxMasterEpoch \in Nat /\ MaxAmount \in Nat /\ MaxTime \in Nat
    /\ MaxMint \in Nat /\ MaxRestarts \in Nat /\ MaxForeign \in Nat
    /\ OtherProofs \subseteq Tree

Cumulative(o) == IF HasAirdropEntry(live, o) THEN live[o].cumulative ELSE 0

Init ==
    /\ wallet = [a \in Address |-> StateInit]
    /\ \E c \in Contents :
         master = [totalSupply |-> 0, admin |-> Admin0, content |-> c, root |-> NoRoot,
                   epoch |-> 0, signer |-> Signer0, paused |-> FALSE]
    /\ net = EmptyBag
    /\ now = 0
    /\ stranded = 0 /\ foreign = 0
    /\ byProof = {}
    /\ unsigned = [a \in Address |-> 0] /\ unserved = [a \in Address |-> 0]
    /\ live = [o \in Owners |-> NoLeaf]
    /\ epoch = 0
    /\ key = Signer0
    /\ issued = {[epoch |-> 0, root |-> live, signer |-> Signer0]}
    /\ restarts = 0

-----------------------------------------------------------------------------
(* The abstract backend *)

\* The Proof API can serve the state the backend is now in.
Serve == issued' = issued \cup {[epoch |-> epoch', root |-> live', signer |-> key']}

\* recordAction and AirdropState.upsertUser: the leaf grows and its window is
\* renewed.
Earn(o) ==
    /\ Cumulative(o) < MaxCumulative
    /\ live' = [live EXCEPT ![o] = [cumulative |-> Cumulative(o) + 1, startFrom |-> 0,
                                    expiredAt |-> now + Window]]
    /\ UNCHANGED <<epoch, key, restarts>>
    /\ Serve
    /\ UNCHANGED chainVars

AdvanceEpoch ==
    /\ epoch < MaxEpoch
    /\ epoch' = epoch + 1
    /\ UNCHANGED <<live, key, restarts>>
    /\ Serve
    /\ UNCHANGED chainVars

\* AirdropState.hydrate gives every leaf a new window; the operator may have
\* replaced the signer seed by the one that update_signer announced.
Restart(k) ==
    /\ k \in {key, master.signer}
    /\ restarts < MaxRestarts
    /\ restarts' = restarts + 1
    /\ live' = [o \in Owners |-> IF HasAirdropEntry(live, o)
                               THEN [live[o] EXCEPT !.expiredAt = now + Window]
                               ELSE NoLeaf]
    /\ key' = k
    /\ UNCHANGED epoch
    /\ Serve
    /\ UNCHANGED chainVars

Tick ==
    /\ now < MaxTime
    /\ now' = now + 1
    /\ UNCHANGED <<wallet, master, net, historyVars>>
    /\ UNCHANGED backendVars

-----------------------------------------------------------------------------
(* Steps of the wallets, the network and the master *)

\* The roots the backend has served, and the proofs an owner may hold.
Served == {v.root : v \in issued}
Proofs == Served \cup OtherProofs

\* What a merkle_airdrop_claim with proof adds to the history of wallet a.
NoteProofClaim(a, proof) ==
    LET delta == proof[a[1]].cumulative - wallet[a].alreadyClaimed IN
    /\ byProof' = byProof \cup {a}
    /\ unsigned' = [unsigned EXCEPT ![a] = @ + delta]
    /\ unserved' = IF proof \in Served THEN unserved
                   ELSE [unserved EXCEPT ![a] = @ + delta]

\* An owner's transfer, with the custom payload of any answer it has got or of any
\* proof.  With a voucher, only the proof of the voucher's root passes.
OwnerTransfer(a, amount, to) ==
    /\ \/ Transfer(a, amount, to) /\ UNCHANGED creditVars
       \/ /\ \E v \in issued : TransferRollingClaim(a, v, v.root, amount, to)
          /\ byProof' = byProof \ {a}
          /\ UNCHANGED <<unsigned, unserved>>
       \/ /\ \E proof \in Proofs : TransferCachedClaim(a, proof, amount, to)
          /\ UNCHANGED creditVars
       \/ \E proof \in Proofs :
             TransferMerkleAirdropClaim(a, proof, amount, to) /\ NoteProofClaim(a, proof)
    /\ UNCHANGED <<master, stranded, foreign, backendVars>>

OwnerBurn(a, amount) ==
    BurnTokens(a, amount) /\ UNCHANGED <<master, historyVars, backendVars>>

\* An internal_transfer from outside: no jettons were minted, claimed or debited for it.
ForeignTransfer(a, amount) ==
    /\ foreign + amount <= MaxForeign
    /\ ReceiveFromElsewhere(a, amount)
    /\ foreign' = foreign + amount
    /\ UNCHANGED <<master, stranded, creditVars, backendVars>>

Deliver(m) ==
    /\ ReceiveTokens(m) \/ OnBounce(m) \/ TransferBounces(m)
    /\ UNCHANGED <<master, historyVars, backendVars>>

\* A bounced burn_notification restores nothing.
DropBouncedBurn(m) ==
    /\ OnBounceWrongOp(m)
    /\ stranded' = stranded + m.amount
    /\ UNCHANGED <<master, foreign, creditVars, backendVars>>

MasterBurn(m) ==
    /\ BurnNotification(m) \/ BurnNotificationRejected(m)
    /\ UNCHANGED <<wallet, now, historyVars, backendVars>>

DropBouncedMint(m) ==
    /\ IgnoreBounced(m)
    /\ stranded' = stranded + m.amount
    /\ UNCHANGED <<wallet, now, foreign, creditVars, backendVars>>

AdminMint(to, amount) ==
    /\ MaySend
    /\ \E sender \in Accounts : Mint(sender, to, amount)
    /\ UNCHANGED <<wallet, now, historyVars, backendVars>>

\* RootUpdater: any root the backend had, under any epoch.
CommitRoot(v, e) ==
    /\ \E sender \in Accounts : UpdateMerkleRoot(sender, v.root, e)
    /\ UNCHANGED <<wallet, now, historyVars, backendVars>>

AdminOp ==
    /\ \E sender \in Accounts :
         \/ "update_signer" \in AdminOps /\ \E s \in Signers : UpdateSigner(sender, s)
         \/ "pause" \in AdminOps /\ \E p \in BOOLEAN : SetPaused(sender, p)
         \/ "change_admin" \in AdminOps /\ \E b \in Accounts : ChangeAdmin(sender, b)
         \/ "change_content" \in AdminOps /\ \E c \in Contents : ChangeContent(sender, c)
    /\ UNCHANGED <<wallet, now, historyVars, backendVars>>

Next ==
    \/ \E o \in Owners : Earn(o)
    \/ AdvanceEpoch
    \/ \E k \in Signers : Restart(k)
    \/ Tick
    \/ \E a \in Address, to \in Owners :
         \E amount \in 0 .. MaxAmount : OwnerTransfer(a, amount, to)
    \/ \E a \in Address : \E amount \in 1 .. MaxAmount : OwnerBurn(a, amount)
    \/ \E a \in Address : \E amount \in 1 .. MaxForeign : ForeignTransfer(a, amount)
    \/ \E m \in BagToSet(net) :
         Deliver(m) \/ DropBouncedBurn(m) \/ MasterBurn(m) \/ DropBouncedMint(m)
    \/ \E to \in Owners : \E amount \in 1 .. MaxMint : AdminMint(to, amount)
    \/ \E v \in issued : \E e \in 1 .. MaxMasterEpoch : CommitRoot(v, e)
    \/ AdminOp

Spec == Init /\ [][Next]_vars

-----------------------------------------------------------------------------
(* Properties *)

TypeOK ==
    /\ wallet \in [Address -> WalletStorage]
    /\ master \in MasterStorage
    /\ IsABag(net) /\ BagToSet(net) \subseteq Message
    /\ now \in Nat /\ stranded \in Nat /\ restarts \in Nat
    /\ live \in Tree /\ epoch \in Nat /\ key \in Signers
    /\ issued \subseteq Voucher
    /\ foreign \in Nat /\ byProof \subseteq Address
    /\ unsigned \in [Address -> Nat] /\ unserved \in [Address -> Nat]

\* What a wallet has claimed is exactly the owner's leaf under the root it
\* caches: apply_merkle_claim never leaves already_claimed, the cached root and
\* the credited delta of different claims behind.
ClaimMatchesCachedRoot ==
    \A a \in Address :
        IF wallet[a].root = NoRoot
        THEN wallet[a].alreadyClaimed = 0 /\ wallet[a].epoch = 0
        ELSE /\ HasAirdropEntry(wallet[a].root, a[1])
             /\ wallet[a].root[a[1]].cumulative = wallet[a].alreadyClaimed

\* What a wallet was credited under roots the backend had served, and what it was
\* credited under vouchers.
ServedCredit(a) == wallet[a].alreadyClaimed - unserved[a]
VouchedCredit(a) == wallet[a].alreadyClaimed - unsigned[a]

\* However old the answers of the backend an owner uses, in whatever order, and
\* whatever claims under other roots come in between, no wallet was credited more
\* under served roots than its owner has earned.  What merkle_airdrop_claim credits
\* under a root that was never served has no bound in the contract: unserved.
NoClaimBeyondEarnings == \A a \in Address : ServedCredit(a) <= Cumulative(a[1])

\* A wallet's cached epoch and root were signed together, with the key baked into
\* that wallet, unless its last claim to change the root was a merkle_airdrop_claim.
\* That one keeps the epoch, and the epoch still is one signed with the key: no root
\* taken from a proof can close the wallet to later vouchers.
CacheIsVouched ==
    \A a \in Address :
        /\ wallet[a].root # NoRoot /\ a \notin byProof => \E v \in issued :
              v.epoch = wallet[a].epoch /\ v.root = wallet[a].root /\ v.signer = a[2]
        /\ wallet[a].epoch > 0 => \E v \in issued :
              v.epoch = wallet[a].epoch /\ v.signer = a[2]

\* Jettons come from mint, from claims and from the internal_transfers of accounts
\* that are no jetton contracts, and go only by burns: balances, messages in flight
\* and stranded jettons add up to total_supply, claims and what came from elsewhere,
\* through transfers, bounces and burn notifications in any order.
Total(f) == MapThenSumSet(LAMBDA a : f[a], DOMAIN f)
Circulating == Total([a \in Address |-> wallet[a].balance])
Claimed == Total([a \in Address |-> wallet[a].alreadyClaimed])
InFlight == Total([m \in BagToSet(net) |-> m.amount * net[m]])
Conservation == Circulating + InFlight + stranded = master.totalSupply + Claimed + foreign

\* A wallet's claims and cached epoch never go back, whichever of its vouchers
\* and proofs an owner submits next.
ClaimsMoveForward ==
    [][\A a \in Address :
         /\ wallet'[a].alreadyClaimed >= wallet[a].alreadyClaimed
         /\ wallet'[a].epoch >= wallet[a].epoch]_vars

\* The contracts implement the claim ledger: leaves of the live tree are the
\* earnings, already_claimed less the credit under roots never served is what a
\* wallet was credited, and everything else (transfers, burns, bounces, epochs, admin
\* ops, and claims under roots never served) leaves both alone.
Ledger == INSTANCE ClaimLedger WITH
    Wallets <- Address,
    ownerOf <- [a \in Address |-> a[1]],
    earned  <- [o \in Owners |-> Cumulative(o)],
    claimed <- [a \in Address |-> ServedCredit(a)]
ImplementsLedger == Ledger!Spec

-----------------------------------------------------------------------------
(* What the documentation says and the code does not do *)

\* docs/OPERATIONS.md: since the wallet only credits (cumulative -
\* already_claimed), an owner is never credited more than was earned.  After
\* update_signer the owner has a second wallet, whose already_claimed is 0.  Only
\* credit under vouchers counts here, the claims those pages describe.
OwnerCreditedOnce ==
    \A o \in Owners :
        Total([s \in Signers |-> VouchedCredit(WalletAddress(o, s))]) <= Cumulative(o)
=============================================================================
