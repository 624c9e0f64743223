------------------------------- MODULE ProofApi -------------------------------
(***************************************************************************)
(* The backend's answers to one owner: backend/src/mintlessClaimHelpers.ts *)
(* with walletClaimPayload.ts, onChainSigner.ts, and the routes of         *)
(* proofApi.ts and jettonWalletApi.ts.                                     *)
(*                                                                         *)
(* An answer is put together over several RPC calls, between which the     *)
(* live tree, the epoch and the chain move.  asked[c] is the request of    *)
(* client c in progress and its pc names the call it waits for; an action  *)
(* is the reply to that call and the code up to the next one.  The calls   *)
(* of one helper that read only the chain are one step.                    *)
(***************************************************************************)
EXTENDS MerkleClaim

CONSTANTS
    Clients,            \* programs that ask for Me
    Me,                 \* the owner they ask for
    MaxFailures,        \* bound on failures
    Nothing             \* null

VARIABLES
    live, epoch,        \* AirdropState: HashMap and epoch
    key,                \* public key of SIGNER_SEED_HEX
    cachedSigner,       \* onChainSigner.ts: cached
    signer,             \* chain: signer_pubkey of the master
    jettonWallet,       \* chain: signer -> storage of the wallet of Me
    deployed,           \* chain: the signers whose wallet of Me is active
    now,                \* unix time
    asked,              \* client -> request in progress
    reply,              \* client -> reply that has not been read
    failures            \* number of failures

backendVars == <<live, epoch, key>>
chainVars == <<signer, jettonWallet, deployed, now>>
answerVars == <<asked, reply, cachedSigner, failures>>

ASSUME ProofApiAssumption ==
    /\ Me \in Owners /\ MaxFailures \in Nat
    /\ Nothing \notin Signers /\ Nothing \notin Leaf

Payload == [proof : Tree, voucher : Voucher]

Request == [pc : {"claimed", "signer", "init", "wallet"}, leaf : Leaf,
            payload : Payload \cup {Nothing}, signer : Signers \cup {Nothing},
            init : Signers \cup {Nothing}]

\* What a wallet reads of a reply: status, compressed_info, custom_payload,
\* state_init and jetton_wallet (both named by the signer they derive from), epoch.
Reply == [status : {200, 404, 503}, leaf : Leaf \cup {Nothing},
          payload : Payload \cup {Nothing}, init : Signers \cup {Nothing},
          wallet : Signers \cup {Nothing}, epoch : Nat]

\* Mutation of Refusal: an error body has no epoch.
RefusalWithoutEpoch(status) ==
    [status |-> status, leaf |-> Nothing, payload |-> Nothing, init |-> Nothing,
     wallet |-> Nothing, epoch |-> Nothing]

Refusal(status) == [status |-> status, leaf |-> Nothing, payload |-> Nothing,
                    init |-> Nothing, wallet |-> Nothing, epoch |-> 0]

Fail == failures < MaxFailures /\ failures' = failures + 1
At(c, pc) == asked[c] # Nothing /\ asked[c].pc = pc
Finish(c, r) == reply' = [reply EXCEPT ![c] = r] /\ asked' = [asked EXCEPT ![c] = Nothing]

-----------------------------------------------------------------------------
(* What the code reads of the chain *)

\* readOnChainAlreadyClaimed: 0 when the wallet is not active.
OnChainAlreadyClaimed == IF signer \in deployed THEN jettonWallet[signer].alreadyClaimed ELSE 0

\* maybeJettonWalletStateInitBase64: none when the wallet is active, or when the
\* state_init of the signer the backend knows has another address.
JettonWalletStateInit(s) == IF signer \in deployed \/ s # signer THEN Nothing ELSE s

-----------------------------------------------------------------------------
(* GET /wallet/:owner *)

\* serveMintlessWallet up to its first await.  A reply that was there is read.
ServeMintlessWallet(c) ==
    IF live[Me] = NoLeaf
    THEN Finish(c, Refusal(404))
    ELSE /\ asked' = [asked EXCEPT ![c] =
              [pc |-> "claimed", leaf |-> live[Me], payload |-> Nothing,
               signer |-> Nothing, init |-> Nothing]]
         /\ reply' = [reply EXCEPT ![c] = Nothing]

\* The client leaves: nobody waits for the request, nobody reads the reply.
Leave(c) == Finish(c, Nothing)

\* Mutations of CustomPayload: the voucher of the epoch before; a proof of the
\* leaf that was read before the await.
CustomPayloadOldEpoch(leaf) ==
    [proof |-> live, voucher |-> [epoch |-> IF epoch = 0 THEN 0 ELSE epoch - 1,
                                  root |-> live, signer |-> key]]
CustomPayloadOldLeaf(leaf) ==
    [proof |-> [live EXCEPT ![Me] = leaf],
     voucher |-> [epoch |-> epoch, root |-> live, signer |-> key]]

\* buildMintlessCustomPayloadBase64: proof and voucher of the tree and epoch of
\* this moment, not of the one the leaf was read at.
CustomPayload(leaf) ==
    [proof |-> live, voucher |-> [epoch |-> epoch, root |-> live, signer |-> key]]

\* isWithinClaimWindow.
WithinClaimWindow(leaf) == leaf.startFrom <= now /\ now <= leaf.expiredAt

\* resolveMasterSignerPubkey goes on at once with what it cached.
Resolve(req) == IF cachedSigner = Nothing THEN [req EXCEPT !.pc = "signer"]
                ELSE [req EXCEPT !.pc = "init", !.signer = cachedSigner]

\* The claim, or transfer hints (with the leaf read again) when nothing is left.
\* A failed read counts as nothing claimed.
AnswerClaimed(c) ==
    /\ At(c, "claimed")
    /\ \E already \in {OnChainAlreadyClaimed, 0} :
         LET leaf == asked[c].leaf IN
         /\ \/ already = OnChainAlreadyClaimed /\ UNCHANGED failures
            \/ already = 0 /\ Fail
         /\ asked' = [asked EXCEPT ![c] = Resolve(
              IF leaf.cumulative <= already THEN [@ EXCEPT !.leaf = live[Me]]
              ELSE IF WithinClaimWindow(leaf) THEN [@ EXCEPT !.payload = CustomPayload(leaf)]
              ELSE @)]
    /\ UNCHANGED <<reply, cachedSigner>>

\* get_signer_pubkey, which is cached until the process ends.
SignerRead == [found |-> signer, cached |-> signer]

AnswerSigner(c) ==
    /\ At(c, "signer")
    /\ \/ /\ asked' = [asked EXCEPT ![c].pc = "init", ![c].signer = SignerRead.found]
          /\ cachedSigner' = SignerRead.cached
          /\ UNCHANGED failures
       \/ /\ asked' = [asked EXCEPT ![c].pc = "init", ![c].signer = key]
          /\ Fail
          /\ UNCHANGED cachedSigner
    /\ UNCHANGED reply

AnswerStateInit(c) ==
    /\ At(c, "init")
    /\ \/ /\ asked' = [asked EXCEPT ![c].pc = "wallet",
                                    ![c].init = JettonWalletStateInit(asked[c].signer)]
          /\ UNCHANGED failures
       \/ /\ asked' = [asked EXCEPT ![c].pc = "wallet"]
          /\ Fail
    /\ UNCHANGED <<reply, cachedSigner>>

\* resolveJettonWalletRaw: of the master, derived from the signer, or neither.
\* The epoch of the answer is read last.
AnswerWallet(c) ==
    /\ At(c, "wallet")
    /\ LET r == asked[c]
           Body(s) == [status |-> 200, leaf |-> r.leaf, payload |-> r.payload,
                       init |-> r.init, wallet |-> s, epoch |-> epoch] IN
       \/ Finish(c, Body(signer)) /\ UNCHANGED failures
       \/ (Finish(c, Body(r.signer)) \/ Finish(c, Refusal(503))) /\ Fail
    /\ UNCHANGED cachedSigner

\* The connection breaks, or the client gives up waiting.
AnswerLost(c) ==
    /\ asked[c] # Nothing
    /\ Fail
    /\ Finish(c, Refusal(503))
    /\ UNCHANGED cachedSigner

AnswerStep(c) ==
    /\ \/ AnswerClaimed(c) \/ AnswerSigner(c) \/ AnswerStateInit(c) \/ AnswerWallet(c)
       \/ AnswerLost(c)
    /\ UNCHANGED <<backendVars, chainVars>>

-----------------------------------------------------------------------------
(* GET /jetton-wallet/:owner *)

JettonWalletInfo == [wallet : Signers, needsDeploy : BOOLEAN, init : Signers \cup {Nothing}]

\* The body, with the state_init of the signer known; one that has another address
\* than the wallet of the master is refused.
JettonWalletOf(known) ==
    CASE signer \in deployed -> [wallet |-> signer, needsDeploy |-> FALSE, init |-> Nothing]
      [] signer \notin deployed /\ known = signer ->
           [wallet |-> signer, needsDeploy |-> TRUE, init |-> known]
      [] OTHER -> Nothing

\* The reply info, or Nothing for an error.  The signer is asked for, and cached,
\* when there is a wallet to be deployed; without it the key of the environment
\* will do.
JettonWalletAnswer(info) ==
    \/ /\ info = JettonWalletOf(IF cachedSigner = Nothing THEN SignerRead.found ELSE cachedSigner)
       /\ cachedSigner' = IF signer \in deployed \/ cachedSigner # Nothing THEN cachedSigner
                          ELSE SignerRead.cached
       /\ UNCHANGED failures
    \/ /\ info = Nothing \/ (cachedSigner = Nothing /\ info = JettonWalletOf(key))
       /\ Fail
       /\ UNCHANGED cachedSigner
=============================================================================
