------------------------------- MODULE ClaimFlow -------------------------------
(***************************************************************************)
(* One owner claims and sends: the clients of RmjSdk and SendJetton, the   *)
(* answers of ProofApi, and the chain that runs their messages.            *)
(*                                                                         *)
(* The backend is abstract here (GameServer, TreeBuilder and Backend are   *)
(* about it): what its store does to calls that overlap is the choice of   *)
(* the amount that a tap, a tick or a restart writes into a leaf.          *)
(***************************************************************************)
EXTENDS SendJetton

CONSTANTS
    Key0,               \* SIGNER_SEED_HEX and signer_pubkey at the start
    Interleaved,        \* store calls yield: Postgres, not SQLite
    Window,             \* PROOF_VALIDITY_WINDOW_DAYS, in clock ticks
    MaxCumulative,      \* bound on the rewards
    MaxEpoch,           \* bound on the epochs
    MaxTime             \* bound on the clock

VARIABLES
    earned,             \* owner -> the sum of the rewards that were credited
    durable             \* kv: current_epoch

vars == <<live, epoch, key, cachedSigner, signer, jettonWallet, deployed, now, asked, reply,
          failures, sdk, outbox, page, earned, durable>>
storeVars == <<earned, durable>>
clientVars == <<sdk, outbox, page>>

ASSUME ClaimFlowAssumption ==
    /\ Key0 \in Signers /\ Interleaved \in BOOLEAN
    /\ Window \in Nat /\ MaxCumulative \in Nat /\ MaxEpoch \in Nat /\ MaxTime \in Nat

NoLeaves == [o \in Owners |-> NoLeaf]

Init ==
    /\ live = NoLeaves /\ epoch = 0 /\ key = Key0
    /\ earned = [o \in Owners |-> 0] /\ durable = 0
    /\ cachedSigner = Nothing
    /\ signer = Key0
    /\ jettonWallet = [s \in Signers |-> StateInit] /\ deployed = {}
    /\ now = 0
    /\ asked = [c \in Clients |-> Nothing] /\ reply = [c \in Clients |-> Nothing]
    /\ failures = 0
    /\ sdk = Nothing /\ outbox = <<>> /\ page = EmptyPage

-----------------------------------------------------------------------------
(* The backend *)

Cumulative(o) == IF live[o] = NoLeaf THEN 0 ELSE live[o].cumulative

Earners == {o \in Owners : earned[o] > 0}

\* The amounts a row of total rewards n may have, or an older read of it: in Postgres
\* a call writes back what it read before the others.
Written(n) == IF Interleaved THEN 1 .. n ELSE {n}

Renewed(n) == [cumulative |-> n, startFrom |-> 0, expiredAt |-> now + Window]

\* The leaves of O get the amounts of a read of their rows.
Rewrite(O) ==
    \E rows \in [O -> 1 .. MaxCumulative] :
        /\ \A o \in O : rows[o] \in Written(earned[o])
        /\ live' = [o \in Owners |-> IF o \in O THEN Renewed(rows[o]) ELSE live[o]]

\* recordAction and upsertUser.
Earn(o) ==
    /\ earned[o] < MaxCumulative
    /\ earned' = [earned EXCEPT ![o] = @ + 1]
    /\ \E n \in Written(earned[o] + 1) : live' = [live EXCEPT ![o] = Renewed(n)]
    /\ UNCHANGED <<epoch, key, durable, chainVars, answerVars, clientVars>>

\* tick: the rows it has read, of the users that were active.
ApplyUpdates(O) ==
    /\ Rewrite(O)
    /\ UNCHANGED <<epoch, key, storeVars, chainVars, answerVars, clientVars>>

\* advanceEpoch, up to its await.
AdvanceEpoch ==
    /\ epoch < MaxEpoch
    /\ epoch' = epoch + 1
    /\ UNCHANGED <<live, key, storeVars, chainVars, answerVars, clientVars>>

\* setKv is done.
WriteEpoch ==
    /\ durable # epoch
    /\ durable' = epoch
    /\ UNCHANGED <<earned, backendVars, chainVars, answerVars, clientVars>>

\* hydrate reads the rows and the epoch that was written.  The requests in progress
\* die, the cached signer goes, and the operator may have changed SIGNER_SEED_HEX.
Restart(k) ==
    /\ Fail
    /\ key' = k
    /\ Rewrite(Earners)
    /\ epoch' = durable
    /\ cachedSigner' = Nothing
    /\ asked' = [c \in Clients |-> Nothing]
    /\ reply' = [c \in Clients |-> IF asked[c] = Nothing THEN reply[c] ELSE Refusal(503)]
    /\ UNCHANGED <<storeVars, chainVars, clientVars>>

-----------------------------------------------------------------------------
(* The chain *)

\* The transaction of the jetton wallet: storage after the claim.
Claims(m, w) ==
    /\ VoucherAccepted(m.payload.voucher, w.root, w.epoch, m.wallet)
    /\ ClaimAccepted(m.payload.proof, m.payload.voucher.root, Me, w.alreadyClaimed, now)

AfterClaim(m) ==
    LET w == jettonWallet[m.wallet] IN
    IF m.payload = Nothing THEN w
    ELSE ApplyMerkleClaim(w, m.payload.voucher.root, m.payload.voucher.epoch, Me)

\* The message reaches code, its claim passes and the balance is enough.
Runs(m) ==
    /\ m.wallet \in deployed \/ m.init = m.wallet
    /\ m.payload # Nothing => Claims(m, jettonWallet[m.wallet])
    /\ AfterClaim(m).balance >= m.amount

Land ==
    /\ outbox # <<>>
    /\ LET m == Head(outbox) IN
       IF Runs(m)
       THEN /\ jettonWallet' = [jettonWallet EXCEPT
                 ![m.wallet] = [AfterClaim(m) EXCEPT !.balance = @ - m.amount]]
            /\ deployed' = deployed \cup {m.wallet}
       ELSE UNCHANGED <<jettonWallet, deployed>>
    /\ outbox' = Tail(outbox)
    /\ UNCHANGED <<signer, now, backendVars, storeVars, answerVars, sdk, page>>

\* The message is not taken before it expires.
Expire ==
    /\ outbox # <<>> /\ Fail
    /\ outbox' = Tail(outbox)
    /\ UNCHANGED <<backendVars, chainVars, storeVars, asked, reply, cachedSigner,
                   sdk, page>>

\* The admin's update_signer.
UpdateSigner(s) ==
    /\ signer = Key0 /\ s # signer
    /\ signer' = s
    /\ UNCHANGED <<jettonWallet, deployed, now, backendVars, storeVars, answerVars,
                   clientVars>>

ClockTick ==
    /\ now < MaxTime
    /\ now' = now + 1
    /\ UNCHANGED <<signer, jettonWallet, deployed, backendVars, storeVars, answerVars,
                   clientVars>>

-----------------------------------------------------------------------------

SdkCalls ==
    /\ \/ (page = EmptyPage \/ MaxOpen > 1) /\ SdkStart
       \/ SdkStep
    /\ UNCHANGED <<backendVars, chainVars, storeVars, page>>
PageCalls == PageStep /\ UNCHANGED <<backendVars, chainVars, storeVars, sdk>>
Answers(c) == AnswerStep(c) /\ UNCHANGED <<storeVars, clientVars>>

Next ==
    \/ \E o \in Owners : Earn(o)
    \/ \E O \in SUBSET Earners \ {{}} : ApplyUpdates(O)
    \/ AdvanceEpoch \/ WriteEpoch
    \/ \E k \in Signers : Restart(k)
    \/ \E c \in Clients : Answers(c)
    \/ SdkCalls \/ PageCalls
    \/ Land \/ Expire
    \/ \E s \in Signers : UpdateSigner(s)
    \/ ClockTick

Spec == Init /\ [][Next]_vars

\* The backend's answers go on, messages are processed, and the owner presses the
\* claim button again and again and confirms in the end.  No tick is promised: with
\* no activity since last_epoch_at there is no new epoch.
Fairness ==
    /\ \A c \in Clients : WF_vars(Answers(c))
    /\ WF_vars(SdkCalls)
    /\ WF_vars(Land)

FairSpec == Spec /\ Fairness

-----------------------------------------------------------------------------
(* Properties *)

TypeOK ==
    /\ live \in Tree /\ epoch \in Nat /\ key \in Signers
    /\ earned \in [Owners -> Nat] /\ durable \in Nat
    /\ cachedSigner \in Signers \cup {Nothing} /\ signer \in Signers
    /\ jettonWallet \in [Signers -> WalletStorage] /\ deployed \subseteq Signers
    /\ now \in Nat /\ failures \in Nat
    /\ asked \in [Clients -> Request \cup {Nothing}]
    /\ reply \in [Clients -> Reply \cup {Nothing}]
    /\ sdk \in SdkCall \cup {Nothing}
    /\ outbox \in Seq(JettonMessage)
    /\ page \in Page

\* An answer's proof, voucher and amount were read on both sides of its awaits.  The
\* voucher is still one of the proof's tree, and the epoch of the answer is not before
\* that of the voucher.  With SQLite the proof also covers the amount the wallet shows.
Served(r) ==
    r.payload # Nothing =>
        /\ r.payload.voucher.root = r.payload.proof
        /\ Interleaved \/ r.payload.proof[Me].cumulative >= r.leaf.cumulative
AnswersBelongTogether ==
    \A c \in Clients :
        /\ asked[c] # Nothing => Served(asked[c])
        /\ reply[c] # Nothing =>
             /\ Served(reply[c])
             /\ reply[c].payload # Nothing => reply[c].epoch >= reply[c].payload.voucher.epoch

\* What the wallets of Me hold and have spent was claimed once: with one signer the
\* claims never exceed the rewards, however clients repeat and delay them and whatever
\* the store takes back.
ClaimedWithinEarned ==
    \A s \in Signers : jettonWallet[s].balance <= jettonWallet[s].alreadyClaimed
                       /\ jettonWallet[s].alreadyClaimed <= earned[Me]

\* A transfer without a claim goes to a wallet that is there: whatever a page read
\* before a claim, a rotation or a failed request, it does not send jettons that the
\* owner has only in the tree.  The exception is a page whose list had the jetton
\* without its custom_payload_api_uri.
PlainTransferFindsWallet ==
    [][Len(outbox') > Len(outbox) =>
           LET m == outbox'[Len(outbox')] IN
           m.payload = Nothing =>
               m.wallet \in deployed \/ (page' # page /\ ~page.entry.rmj)]_vars

\* The signer that answers are computed with is not the master's, for good.
SignerCacheStale == cachedSigner \notin {Nothing, signer}

\* An owner who keeps pressing the claim button finally has everything in the tree on
\* chain, through refusals of vouchers, failed requests, expired messages and restarts;
\* unless the wallet has cached the epoch that is served (a tick that finds activity
\* brings the next one, and a crash may take it back), the backend signs with another
\* key than the master's, still caches the one before, or the leaf expired.
EarnedFinallyClaimed ==
    <>[](\/ key # signer \/ SignerCacheStale
         \/ live[Me] = NoLeaf
         \/ now > live[Me].expiredAt
         \/ epoch <= jettonWallet[signer].epoch
         \/ jettonWallet[signer].alreadyClaimed >= Cumulative(Me))

=============================================================================
