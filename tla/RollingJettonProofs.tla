------------------------ MODULE RollingJettonProofs ------------------------
(***************************************************************************)
(* What RollingJetton's runs check on small instances, proved for every    *)
(* set of owners and signers and every bound: types, replay safety of the  *)
(* cumulative claim, the coherence of a wallet's cache, and that the       *)
(* contracts implement ClaimLedger.                                        *)
(***************************************************************************)
EXTENDS RollingJetton, TLAPS

(* Bags of messages keep their type when a message is added or removed. *)
LEMMA AddMessage ==
    ASSUME NEW B, IsABag(B), BagToSet(B) \subseteq Message, NEW m \in Message
    PROVE  IsABag(B (+) One(m)) /\ BagToSet(B (+) One(m)) \subseteq Message
BY DEF IsABag, BagToSet, SetToBag, One, (+)

LEMMA RemoveMessage ==
    ASSUME NEW B, IsABag(B), BagToSet(B) \subseteq Message, NEW m
    PROVE  IsABag(B (-) One(m)) /\ BagToSet(B (-) One(m)) \subseteq Message
BY DEF IsABag, BagToSet, SetToBag, One, (-)

(* The bounced form of a message is a message. *)
LEMMA BouncedMessage ==
    ASSUME NEW m \in Message
    PROVE  Bounced(m) \in Message
BY DEF Bounced, Message

(* The messages the contracts send are messages. *)
LEMMA SentMessages ==
    ASSUME NEW amount \in Nat, NEW a \in Address, NEW o \in Owners, NEW s \in Signers
    PROVE  /\ InternalTransfer(a, WalletAddress(o, s), amount) \in Message
           /\ InternalTransfer(Master, WalletAddress(o, s), amount) \in Message
           /\ BurnNotice(a, amount) \in Message
BY DEF InternalTransfer, BurnNotice, Message, WalletAddress, Address

NetType == IsABag(net) /\ BagToSet(net) \subseteq Message

LEMMA SendType ==
    ASSUME NetType, NEW m \in Message, Send(m)
    PROVE  NetType'
BY AddMessage DEF NetType, Send

LEMMA ConsumeType ==
    ASSUME NetType, NEW m, Consume(m)
    PROVE  NetType'
BY RemoveMessage DEF NetType, Consume

LEMMA ReturnBouncedType ==
    ASSUME NetType, NEW m \in Message, ReturnBounced(m)
    PROVE  NetType'
<1> DEFINE B == net (-) One(m)
<1>1. IsABag(B) /\ BagToSet(B) \subseteq Message
  BY RemoveMessage DEF NetType
<1>2. Bounced(m) \in Message
  BY BouncedMessage
<1>3. net' = B (+) One(Bounced(m))
  BY DEF ReturnBounced
<1> HIDE DEF B
<1> QED BY <1>1, <1>2, <1>3, AddMessage DEF NetType

-----------------------------------------------------------------------------
(* The outcome of an owner's transfer *)

\* w is wallet a's storage after a claim under some root, before the debit.
ClaimResult(a, w) ==
    /\ w.root \in Tree
    /\ HasAirdropEntry(w.root, a[1])
    /\ w.alreadyClaimed = w.root[a[1]].cumulative
    /\ w.alreadyClaimed >= wallet[a].alreadyClaimed
    /\ w.balance = wallet[a].balance + (w.alreadyClaimed - wallet[a].alreadyClaimed)
    /\ w.epoch >= wallet[a].epoch

\* Where that root came from, and what the history says of the claim: a voucher, the
\* wallet's cache, or the proof alone.
FromVoucher(a, w) ==
    /\ \E v \in issued : v.root = w.root /\ v.epoch = w.epoch /\ v.signer = a[2]
    /\ byProof' = byProof \ {a}
    /\ UNCHANGED <<unsigned, unserved>>
FromCache(a, w) ==
    /\ w.root = wallet[a].root /\ w.epoch = wallet[a].epoch
    /\ UNCHANGED creditVars
FromProof(a, w) ==
    LET delta == w.alreadyClaimed - wallet[a].alreadyClaimed IN
    /\ w.epoch = wallet[a].epoch
    /\ byProof' = byProof \cup {a}
    /\ unsigned' = [unsigned EXCEPT ![a] = @ + delta]
    /\ IF w.root \in Served THEN unserved' = unserved
                            ELSE unserved' = [unserved EXCEPT ![a] = @ + delta]
ClaimSource(a, w) == FromVoucher(a, w) \/ FromCache(a, w) \/ FromProof(a, w)

Debited(w, amount) == [w EXCEPT !.balance = w.balance - amount]

(* What apply_merkle_claim saves is a wallet storage. *)
LEMMA ClaimType ==
    ASSUME NEW w \in WalletStorage, NEW r \in Tree, NEW e \in Nat, NEW o \in Owners,
           HasAirdropEntry(r, o), r[o].cumulative >= w.alreadyClaimed
    PROVE  ApplyMerkleClaim(w, r, e, o) \in WalletStorage
<1>1. r[o] \in Leaf
  BY DEF Tree, HasAirdropEntry
<1>2. r[o].cumulative \in Nat /\ w.alreadyClaimed \in Nat /\ w.balance \in Nat
  BY <1>1 DEF Leaf, WalletStorage
<1>3. w.balance + (r[o].cumulative - w.alreadyClaimed) \in Nat
  BY <1>2
<1> QED BY <1>2, <1>3 DEF ApplyMerkleClaim, WalletStorage

(* Every kind of transfer is a debit of the old storage or of a claim result. *)
LEMMA TransferOutcome ==
    ASSUME TypeOK, NEW a \in Address, NEW amount \in Nat, NEW to \in Owners,
           OwnerTransfer(a, amount, to)
    PROVE  \E w \in WalletStorage :
              /\ \/ w = wallet[a] /\ UNCHANGED creditVars
                 \/ ClaimResult(a, w) /\ ClaimSource(a, w)
              /\ SendTokens(a, w, amount, to)
<1> DEFINE old == wallet[a]
<1>0. /\ old \in WalletStorage /\ old.epoch \in Nat /\ old.alreadyClaimed \in Nat
      /\ a[1] \in Owners
      /\ \A v \in issued : v.root \in Tree /\ v.epoch \in Nat
  BY DEF TypeOK, WalletStorage, Voucher, Address
<1>00. Proofs \subseteq Tree /\ Served \subseteq Tree
  BY <1>0, RollingJettonAssumption DEF Proofs, Served
<1>1. CASE Transfer(a, amount, to) /\ UNCHANGED creditVars
  BY <1>0, <1>1 DEF Transfer
<1>2. ASSUME NEW v \in issued, TransferRollingClaim(a, v, v.root, amount, to),
             byProof' = byProof \ {a}, UNCHANGED <<unsigned, unserved>>
      PROVE  \E w \in WalletStorage : /\ ClaimResult(a, w) /\ ClaimSource(a, w)
                                      /\ SendTokens(a, w, amount, to)
  <2> DEFINE w == ApplyMerkleClaim(old, v.root, v.epoch, a[1])
  <2>1. w \in WalletStorage
    BY <1>0, <1>2, ClaimType DEF TransferRollingClaim, ClaimAccepted
  <2>2. ClaimResult(a, w)
    BY <1>0, <1>2 DEF ClaimResult, ApplyMerkleClaim, TransferRollingClaim, ClaimAccepted,
                      VoucherAccepted
  <2>3. FromVoucher(a, w)
    BY <1>2 DEF FromVoucher, ApplyMerkleClaim, TransferRollingClaim, VoucherAccepted
  <2>4. SendTokens(a, w, amount, to)
    BY <1>2 DEF TransferRollingClaim
  <2> QED BY <2>1, <2>2, <2>3, <2>4 DEF ClaimSource
<1>3. ASSUME NEW proof \in Proofs, TransferCachedClaim(a, proof, amount, to),
             UNCHANGED creditVars
      PROVE  \E w \in WalletStorage : /\ ClaimResult(a, w) /\ ClaimSource(a, w)
                                      /\ SendTokens(a, w, amount, to)
  <2> DEFINE w == ApplyMerkleClaim(old, old.root, old.epoch, a[1])
  <2>0. proof = old.root /\ proof \in Tree
    BY <1>00, <1>3 DEF TransferCachedClaim, ClaimAccepted, CheckMerkleProof, MerkleProofRoot
  <2>1. w \in WalletStorage
    BY <1>0, <1>3, <2>0, ClaimType DEF TransferCachedClaim, ClaimAccepted
  <2>2. ClaimResult(a, w)
    BY <1>0, <1>3, <2>0 DEF ClaimResult, ApplyMerkleClaim, TransferCachedClaim, ClaimAccepted
  <2>3. FromCache(a, w)
    BY <1>3 DEF FromCache, ApplyMerkleClaim
  <2>4. SendTokens(a, w, amount, to)
    BY <1>3 DEF TransferCachedClaim
  <2> QED BY <2>1, <2>2, <2>3, <2>4 DEF ClaimSource
<1>4. ASSUME NEW proof \in Proofs, TransferMerkleAirdropClaim(a, proof, amount, to),
             NoteProofClaim(a, proof)
      PROVE  \E w \in WalletStorage : /\ ClaimResult(a, w) /\ ClaimSource(a, w)
                                      /\ SendTokens(a, w, amount, to)
  <2> DEFINE w == ApplyMerkleClaim(old, proof, old.epoch, a[1])
  <2>0. proof \in Tree
    BY <1>00
  <2>1. w \in WalletStorage
    BY <1>0, <1>4, <2>0, ClaimType DEF TransferMerkleAirdropClaim, ClaimAccepted,
                                       MerkleProofRoot
  <2>2. ClaimResult(a, w)
    BY <1>0, <1>4, <2>0 DEF ClaimResult, ApplyMerkleClaim, TransferMerkleAirdropClaim,
                            ClaimAccepted, MerkleProofRoot
  <2>3. FromProof(a, w)
    BY <1>4 DEF FromProof, ApplyMerkleClaim, NoteProofClaim
  <2>4. SendTokens(a, w, amount, to)
    BY <1>4 DEF TransferMerkleAirdropClaim, MerkleProofRoot
  <2> QED BY <2>1, <2>2, <2>3, <2>4 DEF ClaimSource
<1> QED BY <1>1, <1>2, <1>3, <1>4 DEF OwnerTransfer

-----------------------------------------------------------------------------
(* Types *)

\* The bounds of the model that quantify amounts are naturals.
LEMMA Bounds == /\ MaxAmount \in Nat /\ MaxMint \in Nat /\ MaxMasterEpoch \in Nat
                /\ Window \in Nat /\ MaxForeign \in Nat
BY RollingJettonAssumption

LEMMA InitType == Init => TypeOK
<1> SUFFICES ASSUME Init PROVE TypeOK
  OBVIOUS
<1>1. wallet \in [Address -> WalletStorage]
  BY DEF Init, StateInit, WalletStorage
<1>2. master \in MasterStorage
  BY RollingJettonAssumption DEF Init, MasterStorage
<1>3. IsABag(net) /\ BagToSet(net) \subseteq Message
  BY DEF Init, EmptyBag, IsABag, BagToSet, SetToBag
<1>4. live \in Tree
  BY DEF Init, Tree
<1>5. issued \subseteq Voucher
  BY <1>4, RollingJettonAssumption DEF Init, Voucher
<1> QED BY <1>1, <1>2, <1>3, <1>4, <1>5, RollingJettonAssumption DEF Init, TypeOK

(* Backend steps keep the types. *)
LEMMA BackendType ==
    ASSUME TypeOK, (\E o \in Owners : Earn(o)) \/ AdvanceEpoch \/ (\E k \in Signers : Restart(k))
    PROVE  TypeOK'
<1>1. live' \in Tree /\ epoch' \in Nat /\ key' \in Signers /\ restarts' \in Nat
  <2>1. ASSUME NEW o \in Owners, Earn(o)
        PROVE  live' \in Tree
    <3>1. Cumulative(o) + 1 \in Nat
      BY DEF Cumulative, TypeOK, Tree, Leaf, HasAirdropEntry
    <3>2. [cumulative |-> Cumulative(o) + 1, startFrom |-> 0, expiredAt |-> now + Window]
            \in Leaf
      BY <3>1, Bounds DEF TypeOK, Leaf
    <3> QED BY <2>1, <3>2 DEF Earn, TypeOK, Tree
  <2>2. ASSUME NEW k \in Signers, Restart(k)
        PROVE  live' \in Tree
    <3>1. ASSUME NEW o \in Owners, HasAirdropEntry(live, o)
          PROVE  [live[o] EXCEPT !.expiredAt = now + Window] \in Leaf
      <4>1. live[o] \in Leaf /\ now + Window \in Nat
        BY <3>1, Bounds DEF TypeOK, Tree, HasAirdropEntry
      <4> QED BY <4>1 DEF Leaf
    <3> QED BY <2>2, <3>1 DEF Restart, Tree
  <2>3. CASE \E o \in Owners : Earn(o)
    BY <2>1, <2>3 DEF Earn, TypeOK
  <2>4. CASE AdvanceEpoch
    BY <2>4 DEF AdvanceEpoch, TypeOK
  <2>5. CASE \E k \in Signers : Restart(k)
    BY <2>2, <2>5 DEF Restart, TypeOK
  <2> QED BY <2>3, <2>4, <2>5
<1>2. issued' \subseteq Voucher
  <2>1. issued' = issued \cup {[epoch |-> epoch', root |-> live', signer |-> key']}
    BY DEF Earn, AdvanceEpoch, Restart, Serve
  <2> QED BY <1>1, <2>1 DEF TypeOK, Voucher
<1>3. UNCHANGED chainVars
  BY DEF Earn, AdvanceEpoch, Restart
<1> QED BY <1>1, <1>2, <1>3 DEF TypeOK, chainVars, historyVars, creditVars

(* Steps that only change a balance keep the wallets' type. *)
LEMMA BalanceType ==
    ASSUME TypeOK, NEW m \in Message, m.dst \in Address,
           wallet' = [wallet EXCEPT ![m.dst].balance = @ + m.amount]
    PROVE  wallet' \in [Address -> WalletStorage]
<1>1. wallet[m.dst] \in WalletStorage /\ m.amount \in Nat
  BY DEF TypeOK, Message
<1>2. [wallet[m.dst] EXCEPT !.balance = wallet[m.dst].balance + m.amount] \in WalletStorage
  BY <1>1 DEF WalletStorage
<1> QED BY <1>2 DEF TypeOK

LEMMA DebitType ==
    ASSUME TypeOK, NEW a \in Address, NEW w \in WalletStorage, NEW amount \in Nat,
           w.balance >= amount,
           wallet' = [wallet EXCEPT ![a] = [w EXCEPT !.balance = w.balance - amount]]
    PROVE  wallet' \in [Address -> WalletStorage]
<1>1. w.balance - amount \in Nat
  BY DEF WalletStorage
<1>2. [w EXCEPT !.balance = w.balance - amount] \in WalletStorage
  BY <1>1 DEF WalletStorage
<1> QED BY <1>2 DEF TypeOK

\* The history of claims, and the part of the state that is neither the backend's
\* nor its vouchers.
CreditType ==
    /\ byProof \subseteq Address
    /\ unsigned \in [Address -> Nat] /\ unserved \in [Address -> Nat]

ChainType ==
    /\ wallet \in [Address -> WalletStorage]
    /\ master \in MasterStorage
    /\ NetType
    /\ now \in Nat /\ stranded \in Nat /\ foreign \in Nat
    /\ CreditType

LEMMA TypeSplit ==
    ASSUME TypeOK, ChainType', UNCHANGED backendVars
    PROVE  TypeOK'
BY DEF TypeOK, ChainType, NetType, CreditType, backendVars

(* A claim keeps the types of its history. *)
LEMMA SourceType ==
    ASSUME TypeOK, NEW a \in Address, NEW w \in WalletStorage,
           ClaimResult(a, w), ClaimSource(a, w)
    PROVE  CreditType'
<1> DEFINE delta == w.alreadyClaimed - wallet[a].alreadyClaimed
<1>1. delta \in Nat
  BY DEF ClaimResult, TypeOK, WalletStorage
<1>2. unsigned[a] + delta \in Nat /\ unserved[a] + delta \in Nat
  BY <1>1 DEF TypeOK
<1>3. CASE FromVoucher(a, w) \/ FromCache(a, w)
  BY <1>3 DEF FromVoucher, FromCache, creditVars, TypeOK, CreditType
<1>4. CASE FromProof(a, w)
  <2>1. unsigned' = [unsigned EXCEPT ![a] = unsigned[a] + delta] /\ byProof' \subseteq Address
    BY <1>4 DEF FromProof, TypeOK
  <2>2. unserved' = unserved \/ unserved' = [unserved EXCEPT ![a] = unserved[a] + delta]
    BY <1>4 DEF FromProof
  <2> HIDE DEF delta
  <2>3. unsigned' \in [Address -> Nat] /\ unserved' \in [Address -> Nat]
    BY <1>2, <2>1, <2>2 DEF TypeOK
  <2> QED BY <2>1, <2>3 DEF CreditType
<1> QED BY <1>3, <1>4 DEF ClaimSource

LEMMA HistorySame ==
    ASSUME TypeOK, UNCHANGED creditVars
    PROVE  CreditType'
BY DEF TypeOK, CreditType, creditVars

(* Messages taken from the network are messages. *)
LEMMA InFlightMessage ==
    ASSUME TypeOK, NEW m \in BagToSet(net)
    PROVE  m \in Message /\ m.amount \in Nat /\ NetType
BY DEF TypeOK, Message, NetType

(* Steps of owners and wallets keep the types. *)
LEMMA OwnerType ==
    ASSUME TypeOK, NEW a \in Address, NEW amount \in Nat,
           \/ \E to \in Owners : OwnerTransfer(a, amount, to)
           \/ OwnerBurn(a, amount)
           \/ ForeignTransfer(a, amount)
    PROVE  ChainType' /\ UNCHANGED backendVars
<1>0. NetType /\ a[1] \in Owners /\ a[2] \in Signers
  BY DEF TypeOK, NetType, Address
<1>1. ASSUME NEW to \in Owners, OwnerTransfer(a, amount, to)
      PROVE  ChainType' /\ UNCHANGED backendVars
  <2>1. PICK w \in WalletStorage : /\ \/ w = wallet[a] /\ UNCHANGED creditVars
                                      \/ ClaimResult(a, w) /\ ClaimSource(a, w)
                                   /\ SendTokens(a, w, amount, to)
    BY <1>1, TransferOutcome
  <2>2. wallet' \in [Address -> WalletStorage]
    BY <2>1, DebitType DEF SendTokens
  <2>3. NetType'
    BY <1>0, <2>1, SentMessages, SendType DEF SendTokens
  <2>4. UNCHANGED <<now, master, stranded, foreign, backendVars>>
    BY <1>1, <2>1 DEF OwnerTransfer, SendTokens
  <2>5. CreditType'
    BY <2>1, SourceType, HistorySame
  <2> QED BY <2>2, <2>3, <2>4, <2>5 DEF ChainType, TypeOK
<1>2. ASSUME OwnerBurn(a, amount)
      PROVE  ChainType' /\ UNCHANGED backendVars
  <2>1. wallet' \in [Address -> WalletStorage]
    <3>1. wallet[a] \in WalletStorage
      BY DEF TypeOK
    <3>2. wallet' = [wallet EXCEPT ![a] = [wallet[a] EXCEPT !.balance = wallet[a].balance - amount]]
      BY <1>2 DEF OwnerBurn, BurnTokens
    <3> QED BY <1>2, <3>1, <3>2, DebitType DEF OwnerBurn, BurnTokens
  <2>2. BurnNotice(a, amount) \in Message
    BY <1>0, SentMessages
  <2>3. NetType'
    BY <1>0, <1>2, <2>2, SendType DEF OwnerBurn, BurnTokens
  <2>4. CreditType'
    BY <1>2, HistorySame DEF OwnerBurn, historyVars
  <2> QED BY <1>2, <2>1, <2>3, <2>4 DEF OwnerBurn, BurnTokens, ChainType, historyVars, TypeOK
<1>3. ASSUME ForeignTransfer(a, amount)
      PROVE  ChainType' /\ UNCHANGED backendVars
  <2>1. wallet' \in [Address -> WalletStorage]
    <3>1. wallet[a] \in WalletStorage
      BY DEF TypeOK
    <3>2. [wallet[a] EXCEPT !.balance = wallet[a].balance + amount] \in WalletStorage
      BY <3>1 DEF WalletStorage
    <3> QED BY <1>3, <3>2 DEF ForeignTransfer, ReceiveFromElsewhere, TypeOK
  <2>2. CreditType'
    BY <1>3, HistorySame DEF ForeignTransfer
  <2> QED BY <1>3, <2>1, <2>2 DEF ForeignTransfer, ReceiveFromElsewhere, ChainType, NetType, TypeOK
<1> QED BY <1>1, <1>2, <1>3

(* Steps that take a message from the network keep the types. *)
LEMMA DeliveryType ==
    ASSUME TypeOK, NEW m \in BagToSet(net),
           Deliver(m) \/ DropBouncedBurn(m) \/ MasterBurn(m) \/ DropBouncedMint(m)
    PROVE  ChainType' /\ UNCHANGED backendVars
<1>0. m \in Message /\ m.amount \in Nat /\ NetType
  BY InFlightMessage
<1>00. CreditType' /\ foreign' = foreign
  BY HistorySame DEF Deliver, DropBouncedBurn, MasterBurn, DropBouncedMint, historyVars
<1>1. CASE Deliver(m)
  <2>1. CASE ReceiveTokens(m) \/ OnBounce(m)
    BY <1>0, <1>00, <1>1, <2>1, BalanceType, ConsumeType
       DEF Deliver, ReceiveTokens, OnBounce, ChainType, historyVars, TypeOK
  <2>2. CASE TransferBounces(m)
    BY <1>0, <1>00, <1>1, <2>2, ReturnBouncedType
       DEF Deliver, TransferBounces, ChainType, historyVars, TypeOK
  <2> QED BY <1>1, <2>1, <2>2 DEF Deliver
<1>2. CASE DropBouncedBurn(m)
  BY <1>0, <1>00, <1>2, ConsumeType DEF DropBouncedBurn, OnBounceWrongOp, ChainType, TypeOK
<1>3. CASE DropBouncedMint(m)
  BY <1>0, <1>00, <1>3, ConsumeType DEF DropBouncedMint, IgnoreBounced, ChainType, TypeOK
<1>4. CASE MasterBurn(m)
  <2>1. CASE BurnNotification(m)
    <3>1. master.totalSupply - m.amount \in Nat
      BY <1>0, <2>1 DEF BurnNotification, BurnAccepted, TypeOK, MasterStorage
    <3>2. master' \in MasterStorage
      BY <2>1, <3>1 DEF BurnNotification, TypeOK, MasterStorage
    <3> QED BY <1>0, <1>00, <1>4, <2>1, <3>2, ConsumeType
               DEF MasterBurn, BurnNotification, ChainType, historyVars, TypeOK
  <2>2. CASE BurnNotificationRejected(m)
    BY <1>0, <1>00, <1>4, <2>2, ReturnBouncedType
       DEF MasterBurn, BurnNotificationRejected, ChainType, historyVars, TypeOK
  <2> QED BY <1>4, <2>1, <2>2 DEF MasterBurn
<1> QED BY <1>1, <1>2, <1>3, <1>4

(* The admin's steps keep the types. *)
LEMMA AdminType ==
    ASSUME TypeOK,
           \/ \E to \in Owners, amount \in Nat : AdminMint(to, amount)
           \/ \E v \in issued, e \in Nat : CommitRoot(v, e)
           \/ AdminOp
    PROVE  ChainType' /\ UNCHANGED backendVars
<1>0. NetType /\ master \in MasterStorage /\ master.signer \in Signers
  BY DEF TypeOK, NetType, MasterStorage
<1>00. CreditType' /\ foreign' = foreign
  BY HistorySame DEF AdminMint, CommitRoot, AdminOp, historyVars
<1>1. ASSUME NEW to \in Owners, NEW amount \in Nat, AdminMint(to, amount)
      PROVE  ChainType' /\ UNCHANGED backendVars
  <2>1. InternalTransfer(Master, WalletAddress(to, master.signer), amount) \in Message
    BY <1>0 DEF InternalTransfer, WalletAddress, Message, Address
  <2>2. NetType'
    BY <1>0, <1>1, <2>1, SendType DEF AdminMint, Mint
  <2>3. master' \in MasterStorage
    BY <1>0, <1>1 DEF AdminMint, Mint, MasterStorage
  <2> QED BY <1>00, <1>1, <2>2, <2>3 DEF AdminMint, ChainType, historyVars, TypeOK
<1>2. ASSUME NEW v \in issued, NEW e \in Nat, CommitRoot(v, e)
      PROVE  ChainType' /\ UNCHANGED backendVars
  <2>1. v.root \in Tree
    BY DEF TypeOK, Voucher
  <2>2. master' \in MasterStorage
    BY <1>0, <1>2, <2>1 DEF CommitRoot, UpdateMerkleRoot, MasterStorage
  <2> QED BY <1>0, <1>00, <1>2, <2>2
             DEF CommitRoot, UpdateMerkleRoot, ChainType, NetType, historyVars, TypeOK
<1>3. ASSUME AdminOp
      PROVE  ChainType' /\ UNCHANGED backendVars
  <2>1. master' \in MasterStorage /\ UNCHANGED net
    BY <1>0, <1>3 DEF AdminOp, UpdateSigner, SetPaused, ChangeAdmin, ChangeContent, MasterStorage
  <2> QED BY <1>0, <1>00, <1>3, <2>1 DEF AdminOp, ChainType, NetType, historyVars, TypeOK
<1> QED BY <1>1, <1>2, <1>3

LEMMA TickType ==
    ASSUME TypeOK, Tick
    PROVE  ChainType' /\ UNCHANGED backendVars
BY HistorySame DEF TypeOK, Tick, ChainType, NetType, historyVars

LEMMA NextType == TypeOK /\ [Next]_vars => TypeOK'
<1> SUFFICES ASSUME TypeOK, [Next]_vars PROVE TypeOK'
  OBVIOUS
<1>0. 0 .. MaxAmount \subseteq Nat /\ 1 .. MaxAmount \subseteq Nat
      /\ 1 .. MaxMint \subseteq Nat /\ 1 .. MaxMasterEpoch \subseteq Nat
      /\ 1 .. MaxForeign \subseteq Nat
  BY Bounds
<1>1. CASE (\E o \in Owners : Earn(o)) \/ AdvanceEpoch \/ (\E k \in Signers : Restart(k))
  BY <1>1, BackendType
<1>2. CASE Tick
  BY <1>2, TickType, TypeSplit
<1>3. ASSUME NEW a \in Address, NEW to \in Owners, NEW amount \in 0 .. MaxAmount,
             OwnerTransfer(a, amount, to)
      PROVE  TypeOK'
  BY <1>0, <1>3, OwnerType, TypeSplit
<1>4. ASSUME NEW a \in Address, NEW amount \in Nat,
             OwnerBurn(a, amount) \/ ForeignTransfer(a, amount)
      PROVE  TypeOK'
  BY <1>4, OwnerType, TypeSplit
<1>5. ASSUME NEW m \in BagToSet(net),
             Deliver(m) \/ DropBouncedBurn(m) \/ MasterBurn(m) \/ DropBouncedMint(m)
      PROVE  TypeOK'
  BY <1>5, DeliveryType, TypeSplit
<1>6. CASE \/ \E to \in Owners : \E amount \in 1 .. MaxMint : AdminMint(to, amount)
           \/ \E v \in issued : \E e \in 1 .. MaxMasterEpoch : CommitRoot(v, e)
           \/ AdminOp
  BY <1>0, <1>6, AdminType, TypeSplit
<1>7. CASE UNCHANGED vars
  BY <1>7 DEF vars, TypeOK
<1> QED BY <1>0, <1>1, <1>2, <1>3, <1>4, <1>5, <1>6, <1>7 DEF Next

(***************************************************************************)
(* Type correctness, for every set of owners, signers and accounts and     *)
(* every bound.                                                            *)
(***************************************************************************)
THEOREM TypeCorrect == Spec => []TypeOK
BY InitType, NextType, PTL DEF Spec

-----------------------------------------------------------------------------
(* What a step does to claims *)

\* No wallet's claim state changes.
ClaimsSame ==
    /\ UNCHANGED creditVars
    /\ \A a \in Address : /\ wallet'[a].alreadyClaimed = wallet[a].alreadyClaimed
                          /\ wallet'[a].root = wallet[a].root
                          /\ wallet'[a].epoch = wallet[a].epoch

\* Wallet a takes the claim state of the claim result w; the others keep theirs.
ClaimStep(a, w) ==
    /\ ClaimResult(a, w) /\ ClaimSource(a, w)
    /\ wallet'[a].alreadyClaimed = w.alreadyClaimed
    /\ wallet'[a].root = w.root
    /\ wallet'[a].epoch = w.epoch
    /\ \A b \in Address \ {a} : wallet'[b] = wallet[b]

BackendStep ==
    (\E o \in Owners : Earn(o)) \/ AdvanceEpoch \/ (\E k \in Signers : Restart(k))

LEMMA CreditKeepsClaims ==
    ASSUME TypeOK, NEW b \in Address, NEW x, UNCHANGED creditVars,
           wallet' = [wallet EXCEPT ![b].balance = x]
    PROVE  ClaimsSame
BY DEF TypeOK, WalletStorage, ClaimsSame

\* A step keeps all claims, or makes one claim, or is the backend's.
StepKind ==
    \/ ClaimsSame /\ UNCHANGED backendVars
    \/ /\ \E a \in Address, w \in WalletStorage : ClaimStep(a, w)
       /\ UNCHANGED backendVars
    \/ BackendStep

(* Every step is of one of these kinds. *)
LEMMA StepKinds ==
    ASSUME TypeOK, [Next]_vars
    PROVE  StepKind
<1>0. 0 .. MaxAmount \subseteq Nat
  BY Bounds
<1>1. ASSUME NEW a \in Address, NEW to \in Owners, NEW amount \in 0 .. MaxAmount,
             OwnerTransfer(a, amount, to)
      PROVE  StepKind
  <2>1. PICK w \in WalletStorage : /\ \/ w = wallet[a] /\ UNCHANGED creditVars
                                      \/ ClaimResult(a, w) /\ ClaimSource(a, w)
                                   /\ SendTokens(a, w, amount, to)
    BY <1>0, <1>1, TransferOutcome
  <2>2. /\ wallet' = [wallet EXCEPT ![a] = [w EXCEPT !.balance = w.balance - amount]]
        /\ wallet \in [Address -> WalletStorage]
    BY <2>1 DEF SendTokens, TypeOK
  <2>3. /\ wallet'[a].alreadyClaimed = w.alreadyClaimed
        /\ wallet'[a].root = w.root
        /\ wallet'[a].epoch = w.epoch
        /\ \A b \in Address \ {a} : wallet'[b] = wallet[b]
    BY <2>2 DEF WalletStorage
  <2>4. UNCHANGED backendVars
    BY <1>1 DEF OwnerTransfer
  <2>5. CASE w = wallet[a] /\ UNCHANGED creditVars
    BY <2>3, <2>4, <2>5 DEF ClaimsSame, StepKind
  <2>6. CASE ClaimResult(a, w) /\ ClaimSource(a, w)
    BY <2>3, <2>4, <2>6 DEF ClaimStep, StepKind
  <2> QED BY <2>1, <2>5, <2>6
<1>2. ASSUME NEW a \in Address, NEW amount, OwnerBurn(a, amount) \/ ForeignTransfer(a, amount)
      PROVE  StepKind
  BY <1>2, CreditKeepsClaims
     DEF OwnerBurn, BurnTokens, ForeignTransfer, ReceiveFromElsewhere, historyVars, backendVars,
         StepKind
<1>3. ASSUME NEW m \in BagToSet(net),
             Deliver(m) \/ DropBouncedBurn(m) \/ MasterBurn(m) \/ DropBouncedMint(m)
      PROVE  StepKind
  <2>0. UNCHANGED creditVars
    BY <1>3 DEF Deliver, DropBouncedBurn, MasterBurn, DropBouncedMint, historyVars
  <2>1. CASE ReceiveTokens(m) \/ OnBounce(m)
    BY <2>0, <2>1, <1>3, CreditKeepsClaims, DeliveryType DEF ReceiveTokens, OnBounce, StepKind
  <2>2. CASE wallet' = wallet
    BY <2>0, <2>2, <1>3, DeliveryType DEF ClaimsSame, StepKind
  <2> QED BY <1>3, <2>1, <2>2 DEF Deliver, TransferBounces, DropBouncedBurn, OnBounceWrongOp,
                                  MasterBurn, DropBouncedMint
<1>4. CASE wallet' = wallet /\ UNCHANGED creditVars /\ UNCHANGED backendVars
  BY <1>4 DEF ClaimsSame, StepKind
<1>5. CASE Next
  <2>1. CASE Tick \/ AdminOp
             \/ (\E to \in Owners : \E amount \in 1 .. MaxMint : AdminMint(to, amount))
             \/ (\E v \in issued : \E e \in 1 .. MaxMasterEpoch : CommitRoot(v, e))
    BY <2>1, <1>4 DEF Tick, AdminOp, AdminMint, CommitRoot, historyVars
  <2>2. CASE BackendStep
    BY <2>2 DEF StepKind
  <2> QED BY <1>1, <1>2, <1>3, <1>5, <2>1, <2>2 DEF Next, BackendStep
<1>6. CASE UNCHANGED vars
  BY <1>4, <1>6 DEF vars, backendVars, creditVars
<1> QED BY <1>5, <1>6

-----------------------------------------------------------------------------
(* Coherence of a wallet's cache *)

\* ClaimMatchesCachedRoot with the types it needs.
CacheInv == TypeOK /\ ClaimMatchesCachedRoot /\ CacheIsVouched

LEMMA InitCache == Init => CacheInv
<1> SUFFICES ASSUME Init PROVE CacheInv
  OBVIOUS
<1>1. \A a \in Address : wallet[a] = StateInit
  BY DEF Init
<1>2. ClaimMatchesCachedRoot /\ CacheIsVouched
  BY <1>1 DEF ClaimMatchesCachedRoot, CacheIsVouched, StateInit
<1> QED BY <1>2, InitType DEF CacheInv

LEMMA NextCache == CacheInv /\ [Next]_vars => CacheInv'
<1> SUFFICES ASSUME CacheInv, [Next]_vars PROVE CacheInv'
  OBVIOUS
<1>0. TypeOK /\ TypeOK'
  BY NextType DEF CacheInv
<1>1. CASE ClaimsSame /\ UNCHANGED backendVars
  <2>1. ClaimMatchesCachedRoot'
    BY <1>1 DEF CacheInv, ClaimMatchesCachedRoot, ClaimsSame, HasAirdropEntry
  <2>2. CacheIsVouched'
    BY <1>1 DEF CacheInv, CacheIsVouched, ClaimsSame, creditVars, backendVars
  <2> QED BY <1>0, <2>1, <2>2 DEF CacheInv
<1>2. ASSUME NEW a \in Address, NEW w \in WalletStorage, ClaimStep(a, w), UNCHANGED backendVars
      PROVE  CacheInv'
  <2>1. /\ HasAirdropEntry(w.root, a[1])
        /\ w.alreadyClaimed = w.root[a[1]].cumulative
        /\ w.root # NoRoot
        /\ ClaimSource(a, w)
    BY <1>2, NoValueAssumption DEF ClaimStep, ClaimResult
  <2>2. /\ wallet'[a].alreadyClaimed = w.alreadyClaimed
        /\ wallet'[a].root = w.root /\ wallet'[a].epoch = w.epoch
        /\ \A b \in Address \ {a} : wallet'[b] = wallet[b]
        /\ issued' = issued
    BY <1>2 DEF ClaimStep, backendVars
  <2>3. ClaimMatchesCachedRoot'
    BY <2>1, <2>2 DEF CacheInv, ClaimMatchesCachedRoot, HasAirdropEntry
  <2>4. CacheIsVouched'
    <3>1. ASSUME NEW b \in Address, b # a
          PROVE  /\ b \in byProof' <=> b \in byProof
                 /\ wallet'[b] = wallet[b]
      BY <2>1, <2>2, <3>1 DEF ClaimSource, FromVoucher, FromCache, FromProof, creditVars
    <3>2. ASSUME a \notin byProof'
          PROVE  \E v \in issued' :
                    v.epoch = wallet'[a].epoch /\ v.root = wallet'[a].root /\ v.signer = a[2]
      <4>1. CASE FromVoucher(a, w)
        BY <2>2, <4>1 DEF FromVoucher
      <4>2. CASE FromCache(a, w)
        BY <2>1, <2>2, <3>2, <4>2 DEF FromCache, creditVars, CacheInv, CacheIsVouched
      <4>3. CASE FromProof(a, w)
        BY <3>2, <4>3 DEF FromProof
      <4> QED BY <2>1, <4>1, <4>2, <4>3 DEF ClaimSource
    <3>3. ASSUME wallet'[a].epoch > 0
          PROVE  \E v \in issued' : v.epoch = wallet'[a].epoch /\ v.signer = a[2]
      <4>1. CASE FromVoucher(a, w)
        BY <2>2, <4>1 DEF FromVoucher
      <4>2. CASE w.epoch = wallet[a].epoch
        BY <2>2, <3>3, <4>2 DEF CacheInv, CacheIsVouched
      <4> QED BY <2>1, <4>1, <4>2 DEF ClaimSource, FromCache, FromProof
    <3>4. ASSUME NEW b \in Address
          PROVE  /\ wallet'[b].root # NoRoot /\ b \notin byProof' => \E v \in issued' :
                       v.epoch = wallet'[b].epoch /\ v.root = wallet'[b].root /\ v.signer = b[2]
                 /\ wallet'[b].epoch > 0 => \E v \in issued' :
                       v.epoch = wallet'[b].epoch /\ v.signer = b[2]
      <4>1. CASE b = a
        BY <3>2, <3>3, <4>1
      <4>2. CASE b # a
        BY <2>2, <3>1, <4>2 DEF CacheInv, CacheIsVouched
      <4> QED BY <4>1, <4>2
    <3> QED BY <3>4 DEF CacheIsVouched
  <2> QED BY <1>0, <2>3, <2>4 DEF CacheInv
<1>3. CASE BackendStep
  <2>1. wallet' = wallet /\ byProof' = byProof /\ issued \subseteq issued'
    BY <1>3 DEF BackendStep, Earn, AdvanceEpoch, Restart, Serve, chainVars, historyVars,
                creditVars
  <2>2. ClaimMatchesCachedRoot'
    BY <2>1 DEF CacheInv, ClaimMatchesCachedRoot, HasAirdropEntry
  <2>3. CacheIsVouched'
    BY <2>1 DEF CacheInv, CacheIsVouched
  <2> QED BY <1>0, <2>2, <2>3 DEF CacheInv
<1> QED BY <1>1, <1>2, <1>3, <1>0, StepKinds DEF StepKind

(***************************************************************************)
(* already_claimed is the owner's leaf under the cached root, whatever     *)
(* root a proof brings.                                                    *)
(***************************************************************************)
THEOREM CacheCoherent == Spec => []ClaimMatchesCachedRoot
<1>1. CacheInv => ClaimMatchesCachedRoot
  BY DEF CacheInv
<1> QED BY <1>1, InitCache, NextCache, PTL DEF Spec

(***************************************************************************)
(* A cached epoch was signed with the wallet's key, and so was the cached  *)
(* root unless it came with a merkle_airdrop_claim.                        *)
(***************************************************************************)
THEOREM CacheVouched == Spec => []CacheIsVouched
<1>1. CacheInv => CacheIsVouched
  BY DEF CacheInv
<1> QED BY <1>1, InitCache, NextCache, PTL DEF Spec

-----------------------------------------------------------------------------
(* Replay safety *)

\* No leaf the backend has served is above the owner's earnings: leaves only
\* grow.  NoClaimBeyondEarnings is not inductive without it, since a claim may
\* use any of them.
ServedBelowEarnings ==
    \A v \in issued, o \in Owners :
        HasAirdropEntry(v.root, o) => v.root[o].cumulative <= Cumulative(o)

\* The history never counts more than was credited, and a root the backend never
\* served is one without a voucher.
HistoryWithinClaims ==
    \A a \in Address :
        /\ unserved[a] <= unsigned[a]
        /\ unsigned[a] <= wallet[a].alreadyClaimed

ReplayInv == CacheInv /\ ServedBelowEarnings /\ HistoryWithinClaims /\ NoClaimBeyondEarnings

(* What a claim does to the credit under served roots and under vouchers. *)
LEMMA ClaimEffect ==
    ASSUME CacheInv, NEW a \in Address, NEW w \in WalletStorage, ClaimStep(a, w)
    PROVE  LET delta == w.alreadyClaimed - wallet[a].alreadyClaimed IN
           /\ delta \in Nat /\ wallet'[a].alreadyClaimed = wallet[a].alreadyClaimed + delta
           /\ \/ /\ unsigned'[a] = unsigned[a] + delta
                 /\ unserved'[a] = unserved[a] + delta
              \/ /\ unsigned'[a] = unsigned[a] \/ unsigned'[a] = unsigned[a] + delta
                 /\ unserved'[a] = unserved[a]
                 /\ delta = 0 \/ \E v \in issued : /\ HasAirdropEntry(v.root, a[1])
                                                   /\ w.alreadyClaimed = v.root[a[1]].cumulative
           /\ unsigned'[a] # unsigned[a] + delta => delta = 0 \/ FromVoucher(a, w)
           /\ \A b \in Address \ {a} : /\ wallet'[b] = wallet[b]
                                       /\ unsigned'[b] = unsigned[b]
                                       /\ unserved'[b] = unserved[b]
<1> DEFINE delta == w.alreadyClaimed - wallet[a].alreadyClaimed
<1>0. TypeOK /\ ClaimResult(a, w) /\ ClaimSource(a, w)
  BY DEF CacheInv, ClaimStep
<1>1. /\ wallet[a].alreadyClaimed \in Nat /\ w.alreadyClaimed \in Nat
      /\ w.alreadyClaimed >= wallet[a].alreadyClaimed
  BY <1>0 DEF ClaimResult, TypeOK, WalletStorage
<1>2. delta \in Nat /\ wallet'[a].alreadyClaimed = wallet[a].alreadyClaimed + delta
      /\ unsigned[a] \in Nat /\ unserved[a] \in Nat
  BY <1>0, <1>1 DEF ClaimStep, TypeOK
<1>3. CASE FromVoucher(a, w)
  <2>1. unsigned' = unsigned /\ unserved' = unserved
    BY <1>3 DEF FromVoucher
  <2>2. PICK v \in issued : v.root = w.root
    BY <1>3 DEF FromVoucher
  <2>3. HasAirdropEntry(v.root, a[1]) /\ w.alreadyClaimed = v.root[a[1]].cumulative
    BY <1>0, <2>2 DEF ClaimResult
  <2> HIDE DEF delta
  <2> QED BY <1>2, <1>3, <2>1, <2>3 DEF ClaimStep, delta
<1>4. CASE FromCache(a, w)
  <2>1. unsigned' = unsigned /\ unserved' = unserved
    BY <1>4 DEF FromCache, creditVars
  <2>2. w.alreadyClaimed = wallet[a].alreadyClaimed
    BY <1>0, <1>4, NoValueAssumption DEF FromCache, ClaimResult, CacheInv, ClaimMatchesCachedRoot
  <2>3. delta = 0
    BY <1>1, <2>2
  <2> HIDE DEF delta
  <2> QED BY <1>2, <2>1, <2>3 DEF ClaimStep, delta
<1>5. CASE FromProof(a, w)
  <2>1. unsigned' = [unsigned EXCEPT ![a] = unsigned[a] + delta]
    BY <1>5 DEF FromProof
  <2>2. unsigned'[a] = unsigned[a] + delta /\ \A b \in Address \ {a} : unsigned'[b] = unsigned[b]
    BY <1>0, <2>1 DEF TypeOK
  <2>3. CASE w.root \in Served
    <3>1. unserved' = unserved
      BY <1>5, <2>3 DEF FromProof
    <3>2. \E v \in issued : /\ HasAirdropEntry(v.root, a[1])
                            /\ w.alreadyClaimed = v.root[a[1]].cumulative
      BY <1>0, <2>3 DEF Served, ClaimResult
    <3> HIDE DEF delta
    <3> QED BY <1>2, <2>2, <3>1, <3>2 DEF ClaimStep, delta
  <2>4. CASE w.root \notin Served
    <3>1. unserved' = [unserved EXCEPT ![a] = unserved[a] + delta]
      BY <1>5, <2>4 DEF FromProof
    <3>2. unserved'[a] = unserved[a] + delta
          /\ \A b \in Address \ {a} : unserved'[b] = unserved[b]
      BY <1>0, <3>1 DEF TypeOK
    <3> HIDE DEF delta
    <3> QED BY <1>2, <2>2, <3>2 DEF ClaimStep, delta
  <2> QED BY <2>3, <2>4
<1> QED BY <1>0, <1>3, <1>4, <1>5 DEF ClaimSource

(* The same, for the credit under served roots: it grows, and up to a served leaf only. *)
LEMMA ServedCreditEffect ==
    ASSUME ReplayInv, NEW a \in Address, NEW w \in WalletStorage, ClaimStep(a, w),
           UNCHANGED backendVars
    PROVE  /\ ServedCredit(a) \in Int /\ ServedCredit(a)' \in Int
           /\ ServedCredit(a)' >= ServedCredit(a)
           /\ ServedCredit(a)' # ServedCredit(a) => ServedCredit(a)' <= Cumulative(a[1])
           /\ unserved'[a] <= unsigned'[a] /\ unsigned'[a] <= wallet'[a].alreadyClaimed
           /\ \A b \in Address \ {a} : ServedCredit(b)' = ServedCredit(b)
<1> DEFINE delta == w.alreadyClaimed - wallet[a].alreadyClaimed
<1>0. TypeOK /\ CacheInv
  BY DEF ReplayInv, CacheInv
<1>1. /\ delta \in Nat /\ wallet'[a].alreadyClaimed = wallet[a].alreadyClaimed + delta
      /\ \/ unsigned'[a] = unsigned[a] + delta /\ unserved'[a] = unserved[a] + delta
         \/ /\ unsigned'[a] = unsigned[a] \/ unsigned'[a] = unsigned[a] + delta
            /\ unserved'[a] = unserved[a]
            /\ delta = 0 \/ \E v \in issued : /\ HasAirdropEntry(v.root, a[1])
                                              /\ w.alreadyClaimed = v.root[a[1]].cumulative
      /\ \A b \in Address \ {a} : /\ wallet'[b] = wallet[b]
                                  /\ unserved'[b] = unserved[b]
  BY <1>0, ClaimEffect
<1>2. /\ wallet[a].alreadyClaimed \in Nat /\ w.alreadyClaimed \in Nat
      /\ unsigned[a] \in Nat /\ unserved[a] \in Nat
      /\ unserved[a] <= unsigned[a] /\ unsigned[a] <= wallet[a].alreadyClaimed
      /\ a[1] \in Owners
      /\ wallet'[a].alreadyClaimed = w.alreadyClaimed
  BY <1>0 DEF TypeOK, WalletStorage, ReplayInv, HistoryWithinClaims, Address, ClaimStep
<1>3. Cumulative(a[1]) \in Nat
  BY <1>0, <1>2 DEF Cumulative, TypeOK, Tree, Leaf, HasAirdropEntry
<1>4. ASSUME NEW v \in issued, HasAirdropEntry(v.root, a[1]),
             w.alreadyClaimed = v.root[a[1]].cumulative
      PROVE  w.alreadyClaimed <= Cumulative(a[1])
  BY <1>2, <1>4 DEF ReplayInv, ServedBelowEarnings
<1>5. /\ ServedCredit(a) = wallet[a].alreadyClaimed - unserved[a]
      /\ ServedCredit(a)' = wallet'[a].alreadyClaimed - unserved'[a]
      /\ \A b \in Address \ {a} : ServedCredit(b)' = ServedCredit(b)
  BY <1>1 DEF ServedCredit
<1> HIDE DEF delta
<1>6. CASE unsigned'[a] = unsigned[a] + delta /\ unserved'[a] = unserved[a] + delta
  BY <1>1, <1>2, <1>5, <1>6
<1>7. CASE /\ unsigned'[a] = unsigned[a] \/ unsigned'[a] = unsigned[a] + delta
           /\ unserved'[a] = unserved[a]
           /\ delta = 0 \/ \E v \in issued : /\ HasAirdropEntry(v.root, a[1])
                                             /\ w.alreadyClaimed = v.root[a[1]].cumulative
  <2>1. delta = 0 \/ w.alreadyClaimed <= Cumulative(a[1])
    BY <1>4, <1>7
  <2> QED BY <1>1, <1>2, <1>3, <1>5, <1>7, <2>1
<1> QED BY <1>1, <1>6, <1>7

LEMMA CumulativeType ==
    ASSUME TypeOK, NEW o \in Owners
    PROVE  Cumulative(o) \in Nat
BY DEF Cumulative, TypeOK, Tree, Leaf, HasAirdropEntry

(* Earning raises one owner's earnings by one. *)
LEMMA EarnEffect ==
    ASSUME TypeOK, NEW p \in Owners, Earn(p)
    PROVE  /\ Cumulative(p)' = Cumulative(p) + 1
           /\ \A o \in Owners \ {p} : Cumulative(o)' = Cumulative(o)
<1> DEFINE leaf == [cumulative |-> Cumulative(p) + 1, startFrom |-> 0,
                    expiredAt |-> now + Window]
<1>1. leaf \in Leaf
  BY CumulativeType, Bounds DEF TypeOK, Leaf
<1>2. leaf # NoLeaf /\ leaf.cumulative = Cumulative(p) + 1
  BY <1>1, NoValueAssumption
<1>3. live'[p] = leaf /\ \A o \in Owners \ {p} : live'[o] = live[o]
  BY DEF Earn, TypeOK, Tree
<1>4. Cumulative(p)' = Cumulative(p) + 1
  BY <1>2, <1>3 DEF Cumulative, HasAirdropEntry
<1> QED BY <1>3, <1>4 DEF Cumulative, HasAirdropEntry

(* Epochs and restarts keep everyone's earnings. *)
LEMMA OtherBackendEffect ==
    ASSUME TypeOK, AdvanceEpoch \/ (\E k \in Signers : Restart(k)), NEW o \in Owners
    PROVE  Cumulative(o)' = Cumulative(o)
<1>1. CASE AdvanceEpoch
  BY <1>1 DEF AdvanceEpoch, Cumulative, HasAirdropEntry
<1>2. ASSUME NEW k \in Signers, Restart(k)
      PROVE  Cumulative(o)' = Cumulative(o)
  <2>1. CASE ~HasAirdropEntry(live, o)
    BY <1>2, <2>1 DEF Restart, Cumulative, HasAirdropEntry
  <2>2. CASE HasAirdropEntry(live, o)
    <3> DEFINE leaf == [live[o] EXCEPT !.expiredAt = now + Window]
    <3>1. live[o] \in Leaf /\ now + Window \in Nat
      BY <2>2, Bounds DEF TypeOK, Tree, HasAirdropEntry
    <3>2. leaf \in Leaf /\ leaf.cumulative = live[o].cumulative
      BY <3>1 DEF Leaf
    <3>3. live'[o] = leaf /\ leaf # NoLeaf
      BY <1>2, <2>2, <3>2, NoValueAssumption DEF Restart
    <3> QED BY <2>2, <3>2, <3>3 DEF Cumulative, HasAirdropEntry
  <2> QED BY <2>1, <2>2
<1> QED BY <1>1, <1>2

(* The backend never lowers an owner's earnings, and serves the live leaves. *)
LEMMA BackendGrows ==
    ASSUME TypeOK, BackendStep, NEW o \in Owners
    PROVE  /\ Cumulative(o)' >= Cumulative(o)
           /\ UNCHANGED wallet /\ UNCHANGED unserved
           /\ issued' = issued \cup {[epoch |-> epoch', root |-> live', signer |-> key']}
           /\ HasAirdropEntry(live, o)' => live'[o].cumulative = Cumulative(o)'
<1>0. Cumulative(o) \in Nat
  BY CumulativeType
<1>1. /\ UNCHANGED wallet /\ UNCHANGED unserved
      /\ issued' = issued \cup {[epoch |-> epoch', root |-> live', signer |-> key']}
  BY DEF BackendStep, Earn, AdvanceEpoch, Restart, Serve, chainVars, historyVars, creditVars
<1>2. HasAirdropEntry(live, o)' => live'[o].cumulative = Cumulative(o)'
  BY DEF Cumulative, HasAirdropEntry
<1>3. Cumulative(o)' >= Cumulative(o)
  <2>1. ASSUME NEW p \in Owners, Earn(p)
        PROVE  Cumulative(o)' >= Cumulative(o)
    BY <1>0, <2>1, EarnEffect
  <2>2. CASE AdvanceEpoch \/ (\E k \in Signers : Restart(k))
    BY <1>0, <2>2, OtherBackendEffect
  <2> QED BY <2>1, <2>2 DEF BackendStep
<1> QED BY <1>1, <1>2, <1>3

LEMMA InitReplay == Init => ReplayInv
<1> SUFFICES ASSUME Init PROVE ReplayInv
  OBVIOUS
<1>1. CacheInv
  BY InitCache
<1>2. ServedBelowEarnings
  BY DEF Init, ServedBelowEarnings, HasAirdropEntry
<1>3. NoClaimBeyondEarnings
  BY DEF Init, NoClaimBeyondEarnings, ServedCredit, StateInit, Cumulative, HasAirdropEntry, Address
<1>4. HistoryWithinClaims
  BY DEF Init, HistoryWithinClaims, StateInit
<1> QED BY <1>1, <1>2, <1>3, <1>4 DEF ReplayInv

LEMMA NextReplay == ReplayInv /\ [Next]_vars => ReplayInv'
<1> SUFFICES ASSUME ReplayInv, [Next]_vars PROVE ReplayInv'
  OBVIOUS
<1>0. TypeOK /\ TypeOK' /\ CacheInv /\ CacheInv'
  BY NextCache DEF ReplayInv, CacheInv
<1>1. CASE ClaimsSame /\ UNCHANGED backendVars
  BY <1>1, <1>0 DEF ReplayInv, ServedBelowEarnings, NoClaimBeyondEarnings, ServedCredit,
                    HistoryWithinClaims, ClaimsSame, creditVars, backendVars, Cumulative,
                    HasAirdropEntry
<1>2. ASSUME NEW a \in Address, NEW w \in WalletStorage, ClaimStep(a, w), UNCHANGED backendVars
      PROVE  ReplayInv'
  <2>0. \A o \in Owners : Cumulative(o)' = Cumulative(o)
    BY <1>2 DEF backendVars, Cumulative, HasAirdropEntry
  <2>1. /\ ServedCredit(a)' # ServedCredit(a) => ServedCredit(a)' <= Cumulative(a[1])
        /\ unserved'[a] <= unsigned'[a] /\ unsigned'[a] <= wallet'[a].alreadyClaimed
        /\ \A b \in Address \ {a} : ServedCredit(b)' = ServedCredit(b)
    BY <1>2, ServedCreditEffect
  <2>2. \A b \in Address \ {a} : /\ wallet'[b] = wallet[b] /\ unsigned'[b] = unsigned[b]
                                 /\ unserved'[b] = unserved[b]
    BY <1>0, <1>2, ClaimEffect
  <2>3. NoClaimBeyondEarnings'
    <3>1. ASSUME NEW b \in Address
          PROVE  ServedCredit(b)' <= Cumulative(b[1])'
      <4>1. ServedCredit(b) <= Cumulative(b[1]) /\ b[1] \in Owners
        BY DEF ReplayInv, NoClaimBeyondEarnings, Address
      <4> QED BY <2>0, <2>1, <4>1
    <3> QED BY <3>1 DEF NoClaimBeyondEarnings
  <2>4. HistoryWithinClaims'
    <3>1. ASSUME NEW b \in Address
          PROVE  unserved'[b] <= unsigned'[b] /\ unsigned'[b] <= wallet'[b].alreadyClaimed
      <4>1. CASE b = a
        BY <2>1, <4>1
      <4>2. CASE b # a
        BY <2>2, <4>2 DEF ReplayInv, HistoryWithinClaims
      <4> QED BY <4>1, <4>2
    <3> QED BY <3>1 DEF HistoryWithinClaims
  <2>5. ServedBelowEarnings'
    BY <1>2 DEF ReplayInv, ServedBelowEarnings, backendVars, Cumulative, HasAirdropEntry
  <2> QED BY <1>0, <2>3, <2>4, <2>5 DEF ReplayInv
<1>3. CASE BackendStep
  <2>1. \A o \in Owners : /\ Cumulative(o) \in Nat /\ Cumulative(o)' \in Nat
                          /\ Cumulative(o)' >= Cumulative(o)
    <3>1. \A o \in Owners : Cumulative(o)' \in Nat
      BY <1>0 DEF Cumulative, TypeOK, Tree, Leaf, HasAirdropEntry
    <3> QED BY <1>0, <1>3, <3>1, CumulativeType, BackendGrows
  <2>2. NoClaimBeyondEarnings'
    <3>1. ASSUME NEW a \in Address
          PROVE  ServedCredit(a)' <= Cumulative(a[1])'
      <4>1. a[1] \in Owners /\ wallet[a].alreadyClaimed \in Nat /\ unserved[a] \in Nat
        BY <1>0 DEF Address, TypeOK, WalletStorage
      <4>2. ServedCredit(a)' = ServedCredit(a) /\ ServedCredit(a) \in Int
        BY <1>0, <1>3, <4>1, BackendGrows DEF ServedCredit
      <4>3. ServedCredit(a) <= Cumulative(a[1])
        BY DEF ReplayInv, NoClaimBeyondEarnings
      <4> QED BY <2>1, <4>1, <4>2, <4>3
    <3> QED BY <3>1 DEF NoClaimBeyondEarnings
  <2>3. ServedBelowEarnings'
    <3>1. ASSUME NEW v \in issued', NEW o \in Owners, HasAirdropEntry(v.root, o)
          PROVE  v.root[o].cumulative <= Cumulative(o)'
      <4>1. CASE v \in issued
        <5>1. v.root[o].cumulative <= Cumulative(o)
          BY <3>1, <4>1 DEF ReplayInv, ServedBelowEarnings
        <5>2. v.root[o] \in Leaf
          BY <1>0, <3>1, <4>1 DEF TypeOK, Voucher, Tree, HasAirdropEntry
        <5>3. v.root[o].cumulative \in Nat
          BY <5>2 DEF Leaf
        <5> QED BY <2>1, <5>1, <5>3
      <4>2. CASE v = [epoch |-> epoch', root |-> live', signer |-> key']
        <5>1. v.root = live'
          BY <4>2
        <5>2. live'[o].cumulative = Cumulative(o)'
          BY <1>0, <1>3, <3>1, <5>1, BackendGrows DEF HasAirdropEntry
        <5> QED BY <2>1, <5>1, <5>2
      <4> QED BY <1>0, <1>3, <3>1, <4>1, <4>2, BackendGrows
    <3> QED BY <3>1 DEF ServedBelowEarnings, HasAirdropEntry
  <2>4. HistoryWithinClaims'
    <3>1. UNCHANGED <<wallet, unsigned, unserved>>
      BY <1>3 DEF BackendStep, Earn, AdvanceEpoch, Restart, chainVars, historyVars, creditVars
    <3> QED BY <3>1 DEF ReplayInv, HistoryWithinClaims
  <2> QED BY <1>0, <2>2, <2>3, <2>4 DEF ReplayInv
<1> QED BY <1>0, <1>1, <1>2, <1>3, StepKinds DEF StepKind

(***************************************************************************)
(* However many answers of the Proof API are replayed, late or out of      *)
(* order, and whatever other roots an owner claims under in between, no    *)
(* wallet was credited more under served roots than its owner has earned.  *)
(***************************************************************************)
THEOREM ReplaySafe == Spec => []NoClaimBeyondEarnings
<1>1. ReplayInv => NoClaimBeyondEarnings
  BY DEF ReplayInv
<1> QED BY <1>1, InitReplay, NextReplay, PTL DEF Spec

(***************************************************************************)
(* A wallet's claims and cached epoch never go back.                       *)
(***************************************************************************)
THEOREM ClaimsForward == Spec => ClaimsMoveForward
<1>1. ASSUME TypeOK, [Next]_vars, NEW a \in Address
      PROVE  /\ wallet'[a].alreadyClaimed >= wallet[a].alreadyClaimed
             /\ wallet'[a].epoch >= wallet[a].epoch
  <2>0. wallet[a].alreadyClaimed \in Nat /\ wallet[a].epoch \in Nat
    BY <1>1 DEF TypeOK, WalletStorage
  <2>1. CASE ClaimsSame
    BY <2>0, <2>1 DEF ClaimsSame
  <2>2. ASSUME NEW b \in Address, NEW w \in WalletStorage, ClaimStep(b, w)
        PROVE  /\ wallet'[a].alreadyClaimed >= wallet[a].alreadyClaimed
               /\ wallet'[a].epoch >= wallet[a].epoch
    BY <2>0, <2>2 DEF ClaimStep, ClaimResult
  <2>3. CASE BackendStep
    BY <2>0, <2>3 DEF BackendStep, Earn, AdvanceEpoch, Restart, chainVars
  <2> QED BY <1>1, <2>1, <2>2, <2>3, StepKinds DEF StepKind
<1>2. TypeOK /\ [Next]_vars =>
        [\A a \in Address : /\ wallet'[a].alreadyClaimed >= wallet[a].alreadyClaimed
                            /\ wallet'[a].epoch >= wallet[a].epoch]_vars
  BY <1>1
<1> QED BY <1>2, TypeCorrect, PTL DEF Spec, ClaimsMoveForward

-----------------------------------------------------------------------------
(* Refinement of ClaimLedger *)

earnedMap == [o \in Owners |-> Cumulative(o)]
claimedMap == [a \in Address |-> ServedCredit(a)]

LEMMA InitRefines == Init => Ledger!Init
<1> SUFFICES ASSUME Init PROVE Ledger!Init
  OBVIOUS
<1>1. \A o \in Owners : Cumulative(o) = 0
  BY DEF Init, Cumulative, HasAirdropEntry
<1>2. \A a \in Address : ServedCredit(a) = 0
  BY DEF Init, StateInit, ServedCredit
<1> QED BY <1>1, <1>2 DEF Ledger!Init

LEMMA NextRefines ==
    ReplayInv /\ [Next]_vars => [Ledger!Next]_<<earnedMap, claimedMap>>
<1> SUFFICES ASSUME ReplayInv, [Next]_vars
             PROVE  Ledger!Next \/ (earnedMap' = earnedMap /\ claimedMap' = claimedMap)
  BY DEF earnedMap, claimedMap
<1>0. TypeOK
  BY DEF ReplayInv, CacheInv
<1>1. CASE ClaimsSame /\ UNCHANGED backendVars
  BY <1>1 DEF ClaimsSame, creditVars, backendVars, earnedMap, claimedMap, ServedCredit, Cumulative,
              HasAirdropEntry
<1>2. ASSUME NEW a \in Address, NEW w \in WalletStorage, ClaimStep(a, w), UNCHANGED backendVars
      PROVE  Ledger!Next \/ (earnedMap' = earnedMap /\ claimedMap' = claimedMap)
  <2>1. earnedMap' = earnedMap
    BY <1>2 DEF earnedMap, backendVars, Cumulative, HasAirdropEntry
  <2>2. /\ ServedCredit(a) \in Int /\ ServedCredit(a)' \in Int
        /\ ServedCredit(a)' >= ServedCredit(a)
        /\ ServedCredit(a)' # ServedCredit(a) => ServedCredit(a)' <= Cumulative(a[1])
        /\ \A b \in Address \ {a} : ServedCredit(b)' = ServedCredit(b)
        /\ a[1] \in Owners
    BY <1>2, ServedCreditEffect DEF Address
  <2>3. /\ claimedMap = [b \in Address |-> ServedCredit(b)]
        /\ claimedMap' = [b \in Address |-> ServedCredit(b)']
    BY DEF claimedMap
  <2>4. CASE ServedCredit(a)' = ServedCredit(a)
    <3>1. \A b \in Address : ServedCredit(b)' = ServedCredit(b)
      BY <2>2, <2>4
    <3> QED BY <2>1, <2>3, <3>1
  <2>5. CASE ServedCredit(a)' # ServedCredit(a)
    <3>1. claimedMap' = [claimedMap EXCEPT ![a] = claimedMap'[a]]
      BY <2>2, <2>3
    <3>2. claimedMap'[a] > claimedMap[a] /\ claimedMap'[a] <= Cumulative(a[1])
      BY <2>2, <2>3, <2>5
    <3>3. Ledger!Claim(a)
      BY <2>1, <2>2, <3>1, <3>2 DEF Ledger!Claim, earnedMap, claimedMap
    <3> QED BY <3>3 DEF Ledger!Next
  <2> QED BY <2>4, <2>5
<1>3. ASSUME NEW p \in Owners, Earn(p)
      PROVE  Ledger!Next
  <2>1. claimedMap' = claimedMap
    BY <1>3 DEF Earn, chainVars, historyVars, creditVars, claimedMap, ServedCredit
  <2>2. /\ Cumulative(p) \in Nat /\ Cumulative(p)' = Cumulative(p) + 1
        /\ \A o \in Owners \ {p} : Cumulative(o)' = Cumulative(o)
    BY <1>0, <1>3, EarnEffect, CumulativeType
  <2>3. earnedMap' = [earnedMap EXCEPT ![p] = earnedMap'[p]] /\ earnedMap'[p] > earnedMap[p]
    <3>1. /\ earnedMap' = [o \in Owners |-> Cumulative(o)']
          /\ earnedMap = [o \in Owners |-> Cumulative(o)]
      BY DEF earnedMap
    <3>2. earnedMap'[p] = Cumulative(p) + 1 /\ earnedMap[p] = Cumulative(p)
      BY <2>2, <3>1
    <3>3. \A o \in Owners \ {p} : earnedMap'[o] = earnedMap[o]
      BY <2>2, <3>1
    <3>4. earnedMap' = [earnedMap EXCEPT ![p] = earnedMap'[p]]
      BY <3>1, <3>3
    <3> QED BY <2>2, <3>2, <3>4
  <2>4. Ledger!Earn(p)
    BY <2>1, <2>3 DEF Ledger!Earn, earnedMap, claimedMap
  <2> QED BY <2>4 DEF Ledger!Next
<1>4. CASE AdvanceEpoch \/ (\E k \in Signers : Restart(k))
  <2>1. claimedMap' = claimedMap
    BY <1>4 DEF AdvanceEpoch, Restart, chainVars, historyVars, creditVars, claimedMap, ServedCredit
  <2>2. earnedMap' = earnedMap
    BY <1>0, <1>4, OtherBackendEffect DEF earnedMap
  <2> QED BY <2>1, <2>2
<1> QED BY <1>0, <1>1, <1>2, <1>3, <1>4, StepKinds DEF StepKind, BackendStep

(***************************************************************************)
(* The contracts with their backend implement the claim ledger, as far as  *)
(* credit under served roots goes.                                         *)
(***************************************************************************)
THEOREM RefinesLedger == Spec => ImplementsLedger
<1>1. ReplayInv /\ [Next]_vars => [Ledger!Next]_<<earnedMap, claimedMap>>
  BY NextRefines
<1> QED BY <1>1, InitRefines, InitReplay, NextReplay, PTL
        DEF Spec, ImplementsLedger, Ledger!Spec, earnedMap, claimedMap
=============================================================================
