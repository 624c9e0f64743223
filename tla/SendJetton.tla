------------------------------ MODULE SendJetton ------------------------------
(***************************************************************************)
(* The wallet app's page wallet/src/routes/SendJetton.tsx, with            *)
(* fetchRmjPending of services/rmj.ts, the entry of state/jettons.ts it    *)
(* shows, and broadcastJettonTransfer of services/tx.ts.                   *)
(*                                                                         *)
(* page.call is the refresh or the submit that is waiting for a reply.  A  *)
(* refresh during a submit changes only what is shown, as submit goes on   *)
(* with the entry of its click; so there is one call at a time.  The       *)
(* passcode prompt is the subject of WalletApp.                            *)
(***************************************************************************)
EXTENDS RmjSdk

CONSTANTS
    MaxAmount,          \* bound on the amount a user sends
    MaxOpen             \* bound on the clients in use at once

VARIABLE page

ASSUME SendJettonAssumption == MaxAmount \in Nat /\ MaxOpen \in 1 .. 2

\* What the page knows of the jetton: address and balance of the jetton wallet,
\* whether its metadata name a custom_payload_api_uri, whether the wallet is active,
\* the amount of the Proof API's answer (null without one).
Entry == [wallet : Signers, onchain : Nat, rmj : BOOLEAN, active : BOOLEAN,
          pending : Nat \cup {Nothing}]

PageCall == [kind : {"active", "pending", "submit"}, tries : Nat]

Page == [step : {"form", "confirm", "done"}, entry : Entry \cup {Nothing},
         amount : Nat, call : PageCall \cup {Nothing},
         next : Entry \cup {Nothing}]

EmptyPage == [step |-> "form", entry |-> Nothing, amount |-> 0,
              call |-> Nothing, next |-> Nothing]

\* A page that is done says so, and nothing it held is used again.
DonePage == [EmptyPage EXCEPT !.step = "done"]

Quiet == page.call = Nothing
MayOpen == sdk = Nothing \/ MaxOpen > 1
Calling(kind) == page.call # Nothing /\ page.call.kind = kind

\* Mutation of NeedsMintlessClaim: only an amount in the tree asks for a claim.
NeedsMintlessClaimPending(e) == e.rmj /\ e.pending # Nothing /\ e.pending > 0

\* totalNano and needsMintlessClaim.
TotalNano(e) == IF e.pending # Nothing THEN e.pending ELSE e.onchain
NeedsMintlessClaim(e) == e.rmj /\ (~e.active \/ (e.pending # Nothing /\ e.pending > 0))

-----------------------------------------------------------------------------
(* refresh *)

\* listJettons, or the watched jetton without a balance when it fails.  The indexer
\* knows the metadata, or not yet.
RefreshList ==
    /\ "page" \in Clients
    /\ Quiet /\ MayOpen /\ page.step # "done"
    /\ \E onchain \in {jettonWallet[signer].balance, 0}, rmj \in BOOLEAN :
         /\ \/ onchain = jettonWallet[signer].balance /\ UNCHANGED failures
            \/ onchain = 0 /\ Fail
         /\ page' = [page EXCEPT !.call = [kind |-> "active", tries |-> 0],
                !.next = [wallet |-> signer, onchain |-> onchain, rmj |-> rmj,
                          active |-> FALSE, pending |-> Nothing]]
    /\ UNCHANGED <<asked, reply, cachedSigner, outbox>>

\* resolveWalletActive, then enrichRmj asks the Proof API, for a jetton that has one.
RefreshActive ==
    /\ Calling("active")
    /\ \E active \in BOOLEAN :
         /\ \/ active = (page.next.wallet \in deployed) /\ UNCHANGED failures
            \/ ~active /\ Fail
         /\ IF page.next.rmj
            THEN /\ page' = [page EXCEPT !.next.active = active, !.call.kind = "pending"]
                 /\ ServeMintlessWallet("page")
            ELSE /\ page' = [page EXCEPT !.entry = [page.next EXCEPT !.active = active],
                                         !.call = Nothing, !.next = Nothing]
                 /\ UNCHANGED <<asked, reply>>
    /\ UNCHANGED <<cachedSigner, outbox>>

Replied(kind) == Calling(kind) /\ reply["page"] # Nothing

\* fetchRmjPending tries again.
FetchRetry ==
    /\ page.call # Nothing /\ reply["page"] # Nothing
    /\ reply["page"].status = 503 /\ MayRetry(page.call.tries)
    /\ page' = [page EXCEPT !.call.tries = @ + 1]
    /\ ServeMintlessWallet("page")
    /\ UNCHANGED <<cachedSigner, failures, outbox>>

FetchOver == reply["page"].status # 503 \/ ~MayRetry(page.call.tries)

\* pending is the amount of any answer 200.
RefreshPending ==
    /\ Replied("pending") /\ FetchOver
    /\ page' = [page EXCEPT !.call = Nothing, !.next = Nothing,
                  !.entry = [page.next EXCEPT !.pending =
                     IF reply["page"].status = 200 THEN reply["page"].leaf.cumulative
                     ELSE Nothing]]
    /\ Leave("page")
    /\ UNCHANGED <<cachedSigner, failures, outbox>>

-----------------------------------------------------------------------------
(* The form and the confirmation *)

\* goConfirm: an amount within the total, or an error.  0 is for claim=self, with the
\* user's own address; more goes to somebody else.
GoConfirm(amount) ==
    /\ Quiet /\ page.step = "form" /\ page.entry # Nothing
    /\ amount <= TotalNano(page.entry)
    /\ page' = [page EXCEPT !.step = "confirm", !.amount = amount]
    /\ UNCHANGED <<asked, reply, cachedSigner, failures, outbox>>

BackToForm ==
    /\ Quiet /\ page.step = "confirm"
    /\ page' = [page EXCEPT !.step = "form", !.amount = 0]
    /\ UNCHANGED <<asked, reply, cachedSigner, failures, outbox>>

\* broadcastJettonTransfer.
Broadcast(payload, init) ==
    SendMessage([wallet |-> page.entry.wallet, init |-> init, payload |-> payload,
                 amount |-> page.amount])

\* submit: with nothing to claim at once, else after a fresh answer.
Submit ==
    /\ Quiet /\ page.step = "confirm"
    /\ IF NeedsMintlessClaim(page.entry)
       THEN /\ page' = [page EXCEPT !.call = [kind |-> "submit", tries |-> 0]]
            /\ ServeMintlessWallet("page")
            /\ UNCHANGED outbox
       ELSE /\ page' = DonePage
            /\ Broadcast(Nothing, Nothing)
            /\ UNCHANGED <<asked, reply>>
    /\ UNCHANGED <<cachedSigner, failures>>

\* The proof has come.
SubmitSend ==
    /\ Replied("submit") /\ reply["page"].payload # Nothing
    /\ Broadcast(reply["page"].payload, reply["page"].init)
    /\ page' = DonePage
    /\ Leave("page")
    /\ UNCHANGED <<cachedSigner, failures>>

\* "Mintless proof unavailable": no answer, or one without a custom_payload.
SubmitRefused ==
    /\ Replied("submit") /\ FetchOver /\ reply["page"].payload = Nothing
    /\ page' = [page EXCEPT !.call = Nothing]
    /\ Leave("page")
    /\ UNCHANGED <<cachedSigner, failures, outbox>>

\* To another page of the wallet, after which this one starts anew.
LeavePage ==
    /\ Quiet /\ page # EmptyPage
    /\ page' = EmptyPage
    /\ UNCHANGED <<asked, reply, cachedSigner, failures, outbox>>

PageStep ==
    \/ RefreshList \/ RefreshActive \/ FetchRetry \/ RefreshPending
    \/ \E amount \in 0 .. MaxAmount : GoConfirm(amount)
    \/ BackToForm \/ Submit \/ SubmitSend \/ SubmitRefused \/ LeavePage
=============================================================================
