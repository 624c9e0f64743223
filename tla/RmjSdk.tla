-------------------------------- MODULE RmjSdk --------------------------------
(***************************************************************************)
(* sdk/src/client.ts and jettonTransfer.ts, as the claim buttons of the    *)
(* examples (tma/src/App.tsx, minter/src/ClaimTab.tsx) use them: one call  *)
(* of prepareMintlessTransfer, confirmed with TON Connect.                 *)
(*                                                                         *)
(* prepareMintlessTransfer waits for the claim and for the wallet's        *)
(* address together; sdk holds what has come of the two.                   *)
(***************************************************************************)
EXTENDS ProofApi, Sequences

CONSTANTS
    MaxInFlight,        \* bound on messages sent and not yet processed
    Attempts            \* maxAttempts of getCustomPayload

VARIABLES
    sdk,                \* the call of prepareMintlessTransfer in progress
    outbox              \* messages the wallet contract of Me will send, by seqno

ASSUME RmjSdkAssumption ==
    /\ MaxInFlight \in Nat /\ Attempts \in Nat \ {0}

\* A message to a jetton wallet: its address and state_init (named by the signer),
\* custom payload and jetton amount, which goes to somebody else.
JettonMessage == [wallet : Signers, init : Signers \cup {Nothing},
                  payload : Payload \cup {Nothing}, amount : Nat]

SendMessage(m) == Len(outbox) < MaxInFlight /\ outbox' = Append(outbox, m)

\* tries: the attempts of getCustomPayload that failed.  claim: its reply, of which
\* 404 is null.  info: that of getJettonWallet.
SdkCall == [tries : Nat, claim : Reply \cup {Nothing},
            info : JettonWalletInfo \cup {Nothing}]

SdkReturn == sdk' = Nothing /\ Leave("sdk")

\* syncToWallet, claimOnChain: the first two requests.
SdkStart ==
    /\ "sdk" \in Clients
    /\ sdk = Nothing
    /\ sdk' = [tries |-> 0, claim |-> Nothing, info |-> Nothing]
    /\ ServeMintlessWallet("sdk")
    /\ UNCHANGED <<outbox, cachedSigner, failures>>

MayRetry(tries) == tries + 1 < Attempts

\* getCustomPayload: the reply, or another attempt, or the last error, with which
\* Promise.all rejects.
SdkReply ==
    /\ sdk # Nothing /\ reply["sdk"] # Nothing
    /\ IF reply["sdk"].status # 503
       THEN /\ sdk' = [sdk EXCEPT !.claim = reply["sdk"]]
            /\ Leave("sdk")
       ELSE IF MayRetry(sdk.tries)
       THEN /\ sdk' = [sdk EXCEPT !.tries = @ + 1]
            /\ ServeMintlessWallet("sdk")
       ELSE SdkReturn
    /\ UNCHANGED <<outbox, cachedSigner, failures>>

\* getJettonWallet: one attempt.
SdkWallet ==
    /\ sdk # Nothing /\ sdk.info = Nothing
    /\ \E info \in JettonWalletInfo \cup {Nothing} :
         /\ JettonWalletAnswer(info)
         /\ IF info = Nothing THEN SdkReturn
            ELSE sdk' = [sdk EXCEPT !.info = info] /\ UNCHANGED <<asked, reply>>
    /\ UNCHANGED outbox

Prepared == sdk # Nothing /\ sdk.claim # Nothing /\ sdk.info # Nothing
NeedsClaim == sdk.info.needsDeploy \/ sdk.claim.payload # Nothing

\* "Mintless proof unavailable", or the user rejects.
SdkGiveUp ==
    /\ Prepared
    /\ \/ NeedsClaim /\ sdk.claim.payload = Nothing /\ UNCHANGED failures
       \/ Fail
    /\ SdkReturn
    /\ UNCHANGED <<outbox, cachedSigner>>

\* buildMintlessTonConnectMessage, confirmed by the user: a transfer of 0 to oneself.
SdkSend ==
    /\ Prepared
    /\ NeedsClaim => sdk.claim.payload # Nothing
    /\ SendMessage([wallet |-> sdk.info.wallet, init |-> sdk.info.init,
                    payload |-> sdk.claim.payload, amount |-> 0])
    /\ SdkReturn
    /\ UNCHANGED <<cachedSigner, failures>>

SdkStep == SdkReply \/ SdkWallet \/ SdkGiveUp \/ SdkSend
=============================================================================
