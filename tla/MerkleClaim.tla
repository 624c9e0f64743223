---------------------------- MODULE MerkleClaim ----------------------------
(***************************************************************************)
(* The data of a rolling mintless claim, and the checks of                 *)
(* contracts/contracts/imports/merkle.fc on it.                            *)
(*                                                                         *)
(* An Airdrop HashMap maps every owner to a leaf, or to NoLeaf.  Its root  *)
(* hash is collision free, so the HashMap itself stands for its root, and  *)
(* a merkle-proof cell for the HashMap it commits to.  NoRoot is the zero  *)
(* root of a wallet or a master nobody has updated.                        *)
(***************************************************************************)
EXTENDS Integers, FiniteSets

CONSTANTS
    Owners,     \* owners of jetton wallets (keys of the HashMap)
    Signers,    \* ed25519 public keys the master has had as signer_pubkey
    NoLeaf,     \* the owner is not in the HashMap
    NoRoot      \* the zero root

\* An AirdropItem: cumulative reward and validity window.
Leaf == [cumulative : Nat, startFrom : Nat, expiredAt : Nat]

\* The Airdrop HashMaps (and, standing for them, their roots and proofs).
Tree == [Owners -> Leaf \cup {NoLeaf}]

\* A root voucher, signed with the key of signer: signRoot(epoch, root).
Voucher == [epoch : Nat, root : Tree, signer : Signers]

\* Account ids are 256-bit hashes and public keys 256-bit numbers.
ASSUME FinitelyManyAddresses == IsFiniteSet(Owners) /\ IsFiniteSet(Signers)

ASSUME NoValueAssumption == NoRoot \notin Tree /\ NoLeaf \notin Leaf

\* merkle_proof_root: the root the proof commits to.
MerkleProofRoot(proof) == proof

\* check_merkle_proof: the proof commits to the expected root (error 802).
CheckMerkleProof(proof, expectedRoot) == MerkleProofRoot(proof) = expectedRoot

\* get_airdrop_entry: the owner has a leaf in the virtualised HashMap (803).
HasAirdropEntry(proof, owner) == proof[owner] # NoLeaf

\* Mutation of ClaimAccepted: a leaf below already_claimed passes.
ClaimAcceptedAnyAmount(proof, newRoot, owner, alreadyClaimed, now) ==
    /\ CheckMerkleProof(proof, newRoot)
    /\ HasAirdropEntry(proof, owner)
    /\ proof[owner].startFrom <= now /\ now <= proof[owner].expiredAt

\* apply_merkle_claim's guards: the proof, the leaf and its window (802-805),
\* and a leaf that is not below what was claimed before (806).
ClaimAccepted(proof, newRoot, owner, alreadyClaimed, now) ==
    /\ CheckMerkleProof(proof, newRoot)
    /\ HasAirdropEntry(proof, owner)
    /\ now >= proof[owner].startFrom
    /\ now <= proof[owner].expiredAt
    /\ proof[owner].cumulative >= alreadyClaimed

\* Mutations of VoucherAccepted: no check of the epoch, no check of the key.
VoucherAcceptedAnyEpoch(v, cachedRoot, cachedEpoch, signer) == v.signer = signer
VoucherAcceptedUnsigned(v, cachedRoot, cachedEpoch, signer) ==
    v.epoch > cachedEpoch \/ (v.epoch = cachedEpoch /\ v.root = cachedRoot)

\* handle_rolling_claim's guards on a voucher: not behind the cached epoch
\* (801), the cached root when it has the cached epoch (809), signed by the
\* key baked into the wallet (800).
VoucherAccepted(v, cachedRoot, cachedEpoch, signer) ==
    /\ v.epoch >= cachedEpoch
    /\ v.epoch = cachedEpoch => v.root = cachedRoot
    /\ v.signer = signer

-----------------------------------------------------------------------------
(* The wallet's storage, and what a claim that passes does to it *)

WalletStorage == [balance : Nat, alreadyClaimed : Nat,
                  root : Tree \cup {NoRoot}, epoch : Nat]

\* calculate_jetton_wallet_state_init packs zero balance, claim, root, epoch.
StateInit == [balance |-> 0, alreadyClaimed |-> 0, root |-> NoRoot, epoch |-> 0]

\* Mutations of ApplyMerkleClaim: the new root is not cached; already_claimed is
\* increased by the whole leaf.
ApplyMerkleClaimKeepsRoot(w, newRoot, newEpoch, owner) ==
    [balance |-> w.balance + (newRoot[owner].cumulative - w.alreadyClaimed),
     alreadyClaimed |-> newRoot[owner].cumulative, root |-> w.root, epoch |-> newEpoch]
ApplyMerkleClaimAdds(w, newRoot, newEpoch, owner) ==
    [balance |-> w.balance + newRoot[owner].cumulative,
     alreadyClaimed |-> w.alreadyClaimed + newRoot[owner].cumulative,
     root |-> newRoot, epoch |-> newEpoch]

\* The storage apply_merkle_claim saves.
ApplyMerkleClaim(w, newRoot, newEpoch, owner) ==
    [balance        |-> w.balance + (newRoot[owner].cumulative - w.alreadyClaimed),
     alreadyClaimed |-> newRoot[owner].cumulative,
     root           |-> newRoot,
     epoch          |-> newEpoch]
=============================================================================
