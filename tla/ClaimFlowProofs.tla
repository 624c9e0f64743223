---------------------------- MODULE ClaimFlowProofs ----------------------------
(***************************************************************************)
(* What the runs of ClaimFlow check with one owner, two signers and one or *)
(* two clients, proved for any sets and bounds: the answers of the Proof   *)
(* API, what the clients make of them, what the chain accepts, and the     *)
(* claim ledger that all of them together implement.                       *)
(***************************************************************************)
EXTENDS ClaimFlow, TLAPS

USE NoValueAssumption, ProofApiAssumption, RmjSdkAssumption, SendJettonAssumption,
    ClaimFlowAssumption

BackendInv ==
    /\ live \in Tree /\ epoch \in Nat /\ key \in Signers
    /\ earned \in [Owners -> Nat] /\ durable \in Nat
    /\ \A o \in Owners : Cumulative(o) <= earned[o]
    /\ cachedSigner \in Signers \cup {Nothing} /\ signer \in Signers
    /\ deployed \subseteq Signers /\ now \in Nat /\ failures \in Nat

(* A voucher of its proof's tree, in which Me has no more than has been earned by now. *)
GoodPayload(p) ==
    /\ p.voucher.root = p.proof
    /\ p.proof[Me] # NoLeaf => p.proof[Me].cumulative <= earned[Me]

(* A payload that was answered together with the amount of a leaf, which with SQLite it  *)
(* covers.                                                                               *)
Covers(p, leaf) ==
    /\ GoodPayload(p) /\ p.proof[Me] # NoLeaf
    /\ Interleaved \/ p.proof[Me].cumulative >= leaf.cumulative

AskOK(r) ==
    /\ live[Me] # NoLeaf
    /\ Interleaved \/ r.leaf.cumulative <= live[Me].cumulative
    /\ r.pc = "claimed" => r.payload = Nothing
    /\ r.payload # Nothing => Covers(r.payload, r.leaf) /\ r.payload.voucher.epoch <= epoch

ReplyOK(r) ==
    /\ r.status = 200 => r.leaf \in Leaf
    /\ r.payload # Nothing => Covers(r.payload, r.leaf) /\ r.payload.voucher.epoch <= r.epoch

AskInv ==
    /\ asked \in [Clients -> Request \cup {Nothing}]
    /\ reply \in [Clients -> Reply \cup {Nothing}]
    /\ \A c \in Clients : asked[c] # Nothing => AskOK(asked[c])
    /\ \A c \in Clients : reply[c] # Nothing => ReplyOK(reply[c])

(* A wallet that was found active is there. *)
SdkInv ==
    /\ sdk \in SdkCall \cup {Nothing}
    /\ sdk # Nothing =>
         /\ "sdk" \in Clients
         /\ sdk.claim # Nothing /\ sdk.claim.payload # Nothing => GoodPayload(sdk.claim.payload)
         /\ sdk.info # Nothing /\ ~sdk.info.needsDeploy => sdk.info.wallet \in deployed

EntryOK(e) == e.active => e.wallet \in deployed

PageInv ==
    /\ page \in Page
    /\ "page" \in Clients \/ page = EmptyPage
    /\ Calling("active") \/ Calling("pending") => page.next \in Entry /\ EntryOK(page.next)
    /\ page.step = "confirm" => page.entry \in Entry /\ EntryOK(page.entry)
    /\ Calling("submit") => page.step = "confirm"
    /\ page.entry # Nothing => EntryOK(page.entry)

MessageOK(m) == m.payload # Nothing => GoodPayload(m.payload)

OutboxInv ==
    /\ outbox \in Seq(JettonMessage)
    /\ \A i \in 1..Len(outbox) : MessageOK(outbox[i])

WalletInv == jettonWallet \in [Signers -> WalletStorage] /\ ClaimedWithinEarned

Inv == BackendInv /\ AskInv /\ SdkInv /\ PageInv /\ OutboxInv /\ WalletInv

(* What no step takes back, and what only a restart does. *)
Later ==
    /\ live[Me] # NoLeaf => live'[Me] # NoLeaf
    /\ earned'[Me] >= earned[Me]
    /\ Interleaved \/ Cumulative(Me)' >= Cumulative(Me)
    /\ deployed \subseteq deployed'
EpochStays == epoch' >= epoch

-----------------------------------------------------------------------------
(* The backend *)

LEMMA Earned ==
    ASSUME live \in Tree
    PROVE  /\ Cumulative(Me) \in Nat
           /\ live[Me] # NoLeaf => live[Me] \in Leaf /\ Cumulative(Me) = live[Me].cumulative
BY DEF Tree, Leaf, Cumulative

LEMMA Totals ==
    ASSUME BackendInv, BackendInv'
    PROVE  Cumulative(Me) \in Nat /\ Cumulative(Me)' \in Nat
BY DEF BackendInv, Cumulative, Tree, Leaf

LEMMA BackendStays ==
    ASSUME BackendInv, UNCHANGED <<live, earned>>, epoch' \in Nat, epoch' >= epoch,
           deployed \subseteq deployed'
    PROVE  Later /\ EpochStays /\ \A o \in Owners : Cumulative(o)' <= earned'[o]
BY Earned DEF BackendInv, Later, EpochStays, Cumulative

(* A leaf that is written has an amount of its row, or of an older read of it. *)
LEMMA RenewedLeaf ==
    ASSUME NEW n \in Nat, now \in Nat
    PROVE  Renewed(n) \in Leaf /\ Renewed(n) # NoLeaf /\ Renewed(n).cumulative = n
<1>1. Renewed(n) \in Leaf /\ Renewed(n).cumulative = n
  BY DEF Renewed, Leaf
<1> QED BY <1>1

LEMMA WrittenWithin ==
    ASSUME NEW e \in Nat, NEW n \in Written(e)
    PROVE  n \in Nat /\ n <= e /\ (Interleaved \/ n = e)
BY DEF Written

LEMMA EarnLater ==
    ASSUME BackendInv, NEW o \in Owners, Earn(o)
    PROVE  BackendInv' /\ Later /\ EpochStays
<1>1. earned[o] \in Nat /\ earned' = [earned EXCEPT ![o] = earned[o] + 1]
  BY DEF Earn, BackendInv
<1> PICK n \in Written(earned[o] + 1) : live' = [live EXCEPT ![o] = Renewed(n)]
  BY DEF Earn
<1> DEFINE l == Renewed(n)
<1>2. n \in Nat /\ n <= earned[o] + 1 /\ (Interleaved \/ n = earned[o] + 1)
  BY <1>1, WrittenWithin
<1>3. l \in Leaf /\ l # NoLeaf /\ l.cumulative = n
  BY <1>2, RenewedLeaf DEF BackendInv
<1>4. live' = [live EXCEPT ![o] = l]
  OBVIOUS
<1> HIDE DEF l
<1>5. live' \in Tree /\ earned' \in [Owners -> Nat]
  BY <1>1, <1>3, <1>4 DEF BackendInv, Tree
<1>6. ASSUME NEW u \in Owners
      PROVE  /\ live[u] # NoLeaf => live'[u] # NoLeaf
             /\ earned'[u] >= earned[u]
             /\ Cumulative(u)' <= earned'[u]
             /\ Interleaved \/ Cumulative(u)' >= Cumulative(u)
  <2>0. Cumulative(u) \in Nat /\ Cumulative(u) <= earned[u] /\ earned[u] \in Nat
    BY DEF BackendInv, Cumulative, Tree, Leaf
  <2>1. CASE u = o
    <3>1. live'[u] = l /\ earned'[u] = earned[u] + 1
      BY <1>1, <1>4, <2>1 DEF BackendInv, Tree
    <3>2. Cumulative(u)' = n
      BY <1>3, <3>1 DEF Cumulative
    <3> QED BY <1>2, <1>3, <2>0, <2>1, <3>1, <3>2
  <2>2. CASE u # o
    <3>1. live'[u] = live[u] /\ earned'[u] = earned[u]
      BY <1>1, <1>4, <2>2 DEF BackendInv, Tree
    <3>2. Cumulative(u)' = Cumulative(u)
      BY <3>1 DEF Cumulative
    <3> QED BY <2>0, <3>1, <3>2
  <2> QED BY <2>1, <2>2
<1> QED BY <1>5, <1>6 DEF Earn, BackendInv, Later, EpochStays, chainVars, answerVars

(* The leaves of a tick and of a restart. *)
LEMMA RewriteLater ==
    ASSUME BackendInv, NEW O \in SUBSET Owners, Rewrite(O), UNCHANGED earned
    PROVE  /\ live' \in Tree
           /\ \A u \in Owners : /\ live[u] # NoLeaf => live'[u] # NoLeaf
                                /\ Cumulative(u)' <= earned'[u]
                                /\ Interleaved \/ Cumulative(u)' >= Cumulative(u)
<1> PICK rows \in [O -> 1 .. MaxCumulative] :
        /\ \A o \in O : rows[o] \in Written(earned[o])
        /\ live' = [o \in Owners |-> IF o \in O THEN Renewed(rows[o]) ELSE live[o]]
  BY DEF Rewrite
<1>1. ASSUME NEW u \in Owners
      PROVE  /\ live'[u] \in Leaf \cup {NoLeaf}
             /\ live[u] # NoLeaf => live'[u] # NoLeaf
             /\ Cumulative(u)' <= earned'[u]
             /\ Interleaved \/ Cumulative(u)' >= Cumulative(u)
  <2>0. Cumulative(u) \in Nat /\ Cumulative(u) <= earned[u] /\ earned[u] \in Nat
    BY DEF BackendInv, Cumulative, Tree, Leaf
  <2>1. CASE u \in O
    <3>1. rows[u] \in Nat /\ rows[u] <= earned[u] /\ (Interleaved \/ rows[u] = earned[u])
      BY <2>0, <2>1, WrittenWithin
    <3>2. live'[u] = Renewed(rows[u])
      BY <2>1
    <3>3. Renewed(rows[u]) \in Leaf /\ Renewed(rows[u]) # NoLeaf
          /\ Renewed(rows[u]).cumulative = rows[u]
      BY <3>1, RenewedLeaf DEF BackendInv
    <3>4. Cumulative(u)' = rows[u]
      BY <3>2, <3>3 DEF Cumulative
    <3> QED BY <2>0, <3>1, <3>2, <3>3, <3>4
  <2>2. CASE u \notin O
    <3>1. live'[u] = live[u] /\ live[u] \in Leaf \cup {NoLeaf}
      BY <2>2 DEF BackendInv, Tree
    <3>2. Cumulative(u)' = Cumulative(u)
      BY <3>1 DEF Cumulative
    <3> QED BY <2>0, <3>1, <3>2
  <2> QED BY <2>1, <2>2
<1>2. live' = [u \in Owners |-> live'[u]]
  OBVIOUS
<1> QED BY <1>1, <1>2 DEF Tree

LEMMA RestartLater ==
    ASSUME BackendInv, NEW k \in Signers, Restart(k)
    PROVE  BackendInv' /\ Later
<1>1. Earners \in SUBSET Owners
  BY DEF Earners
<1>2. Rewrite(Earners) /\ UNCHANGED earned
  BY DEF Restart, storeVars
<1>3. /\ live' \in Tree
      /\ \A u \in Owners : /\ live[u] # NoLeaf => live'[u] # NoLeaf
                           /\ Cumulative(u)' <= earned'[u]
                           /\ Interleaved \/ Cumulative(u)' >= Cumulative(u)
  BY <1>1, <1>2, RewriteLater
<1> QED BY <1>2, <1>3 DEF Restart, Fail, BackendInv, Later, chainVars, storeVars

LEMMA ApplyLater ==
    ASSUME BackendInv, NEW O \in SUBSET Owners, ApplyUpdates(O)
    PROVE  BackendInv' /\ Later /\ EpochStays
<1>1. Rewrite(O) /\ UNCHANGED earned
  BY DEF ApplyUpdates, storeVars
<1>2. /\ live' \in Tree
      /\ \A u \in Owners : /\ live[u] # NoLeaf => live'[u] # NoLeaf
                           /\ Cumulative(u)' <= earned'[u]
                           /\ Interleaved \/ Cumulative(u)' >= Cumulative(u)
  BY <1>1, RewriteLater
<1> QED BY <1>1, <1>2
        DEF ApplyUpdates, BackendInv, Later, EpochStays, chainVars, answerVars, storeVars

(* What was true of payloads, answers and messages stays true. *)
LEMMA PayloadLater ==
    ASSUME BackendInv, BackendInv', Later, NEW p \in Payload
    PROVE  /\ GoodPayload(p) => GoodPayload(p)'
           /\ \A leaf : Covers(p, leaf) => Covers(p, leaf)'
<1>1. earned[Me] \in Nat /\ earned'[Me] \in Nat /\ earned'[Me] >= earned[Me]
  BY DEF Later, BackendInv
<1>2. p.proof[Me] # NoLeaf => p.proof[Me].cumulative \in Nat
  BY DEF Payload, Tree, Leaf
<1>3. GoodPayload(p) => GoodPayload(p)'
  BY <1>1, <1>2 DEF GoodPayload
<1> QED BY <1>3 DEF Covers

LEMMA AskLater ==
    ASSUME BackendInv, BackendInv', Later, EpochStays, NEW r \in Request, AskOK(r)
    PROVE  AskOK(r)'
<1>1. live'[Me] # NoLeaf /\ (Interleaved \/ r.leaf.cumulative <= live'[Me].cumulative)
  <2>1. live[Me] # NoLeaf /\ live'[Me] # NoLeaf
    BY DEF AskOK, Later
  <2>2. /\ live[Me].cumulative = Cumulative(Me) /\ live'[Me].cumulative = Cumulative(Me)'
        /\ Cumulative(Me) \in Nat /\ Cumulative(Me)' \in Nat
    BY <2>1, Totals DEF Cumulative
  <2>3. r.leaf.cumulative \in Nat
    BY DEF Request, Leaf
  <2> QED BY <2>1, <2>2, <2>3 DEF AskOK, Later
<1>2. CASE r.payload = Nothing
  BY <1>1, <1>2 DEF AskOK
<1>3. CASE r.payload # Nothing
  <2>1. r.payload \in Payload
    BY <1>3 DEF Request
  <2>2. r.payload.voucher.epoch \in Nat
    BY <2>1 DEF Payload, Voucher
  <2> QED BY <1>1, <1>3, <2>1, <2>2, PayloadLater DEF AskOK, EpochStays, BackendInv
<1> QED BY <1>2, <1>3

LEMMA ReplyLater ==
    ASSUME BackendInv, BackendInv', Later, NEW r \in Reply, ReplyOK(r)
    PROVE  ReplyOK(r)'
<1>1. r.payload # Nothing => r.payload \in Payload
  BY DEF Reply
<1> QED BY <1>1, PayloadLater DEF ReplyOK

LEMMA MessageLater ==
    ASSUME BackendInv, BackendInv', Later, NEW m \in JettonMessage, MessageOK(m)
    PROVE  MessageOK(m)'
<1>1. m.payload # Nothing => m.payload \in Payload
  BY DEF JettonMessage
<1> QED BY <1>1, PayloadLater DEF MessageOK, Later

LEMMA AskStays ==
    ASSUME BackendInv, BackendInv', Later, EpochStays, AskInv, UNCHANGED <<asked, reply>>
    PROVE  AskInv'
BY AskLater, ReplyLater DEF AskInv

LEMMA SdkStays ==
    ASSUME BackendInv, BackendInv', Later, SdkInv, UNCHANGED sdk
    PROVE  SdkInv'
<1>1. sdk # Nothing /\ sdk.claim # Nothing /\ sdk.claim.payload # Nothing =>
        sdk.claim.payload \in Payload
  BY DEF SdkInv, SdkCall, Reply
<1> QED BY <1>1, PayloadLater DEF SdkInv, Later

LEMMA PageStays ==
    ASSUME Later, PageInv, UNCHANGED page
    PROVE  PageInv'
BY DEF PageInv, Calling, EntryOK, Later

LEMMA OutboxStays ==
    ASSUME BackendInv, BackendInv', Later, OutboxInv, UNCHANGED outbox
    PROVE  OutboxInv'
BY MessageLater DEF OutboxInv

LEMMA WalletStays ==
    ASSUME BackendInv, BackendInv', Later, WalletInv, UNCHANGED jettonWallet
    PROVE  WalletInv'
<1>1. earned[Me] \in Nat /\ earned'[Me] \in Nat /\ earned'[Me] >= earned[Me]
  BY DEF Later, BackendInv
<1> QED BY <1>1 DEF WalletInv, ClaimedWithinEarned, WalletStorage

-----------------------------------------------------------------------------
(* The answers *)

LEMMA RefusalOK == \A s \in {404, 503} : Refusal(s) \in Reply /\ ReplyOK(Refusal(s))
BY DEF Refusal, Reply, ReplyOK

LEMMA FinishAsk ==
    ASSUME BackendInv, BackendInv', Later, EpochStays, AskInv, NEW c \in Clients,
           NEW r \in Reply \cup {Nothing}, r # Nothing => ReplyOK(r), Finish(c, r)
    PROVE  AskInv'
<1>1. \A d \in Clients : /\ asked'[d] \in {asked[d], Nothing}
                         /\ reply'[d] = reply[d] \/ reply'[d] = r
  BY DEF Finish, AskInv
<1>2. r # Nothing => ReplyOK(r)'
  BY ReplyLater
<1>3. /\ asked' \in [Clients -> Request \cup {Nothing}]
      /\ reply' \in [Clients -> Reply \cup {Nothing}]
  BY DEF Finish, AskInv
<1>4. \A d \in Clients : (asked[d] # Nothing => AskOK(asked[d]))'
  BY <1>1, AskLater DEF AskInv
<1>5. \A d \in Clients : (reply[d] # Nothing => ReplyOK(reply[d]))'
  BY <1>1, <1>2, ReplyLater DEF AskInv
<1> QED BY <1>3, <1>4, <1>5 DEF AskInv

(* A request that goes on. *)
LEMMA GoOn ==
    ASSUME BackendInv, BackendInv', Later, EpochStays, AskInv, NEW c \in Clients, NEW r \in Request,
           AskOK(r), asked' = [asked EXCEPT ![c] = r],
           \A d \in Clients : reply'[d] \in {reply[d], Nothing},
           reply' \in [Clients -> Reply \cup {Nothing}]
    PROVE  AskInv'
<1>1. AskOK(r)'
  BY AskLater
<1>2. \A d \in Clients : asked'[d] \in {asked[d], r}
  BY DEF AskInv
<1>3. asked' \in [Clients -> Request \cup {Nothing}]
  BY DEF AskInv
<1>4. \A d \in Clients : (asked[d] # Nothing => AskOK(asked[d]))'
  BY <1>1, <1>2, AskLater DEF AskInv
<1>5. \A d \in Clients : (reply[d] # Nothing => ReplyOK(reply[d]))'
  BY ReplyLater DEF AskInv
<1> QED BY <1>3, <1>4, <1>5 DEF AskInv

LEMMA ServeAsk ==
    ASSUME BackendInv, BackendInv', Later, EpochStays, AskInv, NEW c \in Clients, ServeMintlessWallet(c)
    PROVE  AskInv'
<1>1. CASE live[Me] = NoLeaf
  BY <1>1, RefusalOK, FinishAsk DEF ServeMintlessWallet
<1>2. CASE live[Me] # NoLeaf
  <2> DEFINE r == [pc |-> "claimed", leaf |-> live[Me], payload |-> Nothing,
                   signer |-> Nothing, init |-> Nothing]
  <2>1. live[Me] \in Leaf
    BY <1>2 DEF BackendInv, Tree
  <2>2. r \in Request /\ AskOK(r)
    BY <1>2, <2>1 DEF Request, AskOK, Leaf
  <2>3. asked' = [asked EXCEPT ![c] = r] /\ reply' = [reply EXCEPT ![c] = Nothing]
    BY <1>2 DEF ServeMintlessWallet
  <2> HIDE DEF r
  <2>4. /\ \A d \in Clients : reply'[d] \in {reply[d], Nothing}
        /\ reply' \in [Clients -> Reply \cup {Nothing}]
    BY <2>3 DEF AskInv
  <2> QED BY <2>2, <2>3, <2>4, GoOn
<1> QED BY <1>1, <1>2

(* resolveMasterSignerPubkey goes on with a request that is as good. *)
LEMMA ResolveOK ==
    ASSUME BackendInv, NEW r \in Request, AskOK([r EXCEPT !.pc = "signer"])
    PROVE  Resolve(r) \in Request /\ AskOK(Resolve(r))
<1>1. Resolve(r) \in Request
  BY DEF Resolve, Request, BackendInv
<1>2. /\ Resolve(r).leaf = r.leaf /\ Resolve(r).payload = r.payload /\ Resolve(r).pc # "claimed"
      /\ [r EXCEPT !.pc = "signer"].leaf = r.leaf
      /\ [r EXCEPT !.pc = "signer"].payload = r.payload
  BY DEF Resolve, Request
<1> QED BY <1>1, <1>2 DEF AskOK

LEMMA AnswerBackend ==
    ASSUME BackendInv, NEW c \in Clients, AskInv, Answers(c)
    PROVE  BackendInv' /\ Later /\ EpochStays
<1>0. AnswerStep(c)
  BY DEF Answers
<1>1. UNCHANGED <<live, epoch, key, signer, jettonWallet, deployed, now, earned, durable>>
  BY DEF Answers, AnswerStep, backendVars, chainVars, storeVars
<1>2. cachedSigner' \in Signers \cup {Nothing}
  BY <1>0 DEF AnswerStep, AnswerClaimed, AnswerSigner, AnswerStateInit, AnswerWallet, AnswerLost,
     SignerRead, BackendInv
<1>3. failures' \in Nat
  BY <1>0 DEF AnswerStep, AnswerClaimed, AnswerSigner, AnswerStateInit, AnswerWallet, AnswerLost,
     Fail, BackendInv
<1> QED BY <1>1, <1>2, <1>3, BackendStays DEF BackendInv

LEMMA AnswerClaimedAsk ==
    ASSUME BackendInv, BackendInv', Later, EpochStays, AskInv, NEW c \in Clients, AnswerClaimed(c)
    PROVE  AskInv'
<1> DEFINE r == asked[c]
<1>1. r \in Request /\ AskOK(r) /\ r.pc = "claimed" /\ r.payload = Nothing
  BY DEF AnswerClaimed, At, AskInv, AskOK
<1>2. live \in Tree /\ live[Me] \in Leaf /\ (Interleaved \/ r.leaf.cumulative <= live[Me].cumulative)
  BY <1>1 DEF AskOK, BackendInv, Tree
<1> DEFINE hints == [r EXCEPT !.leaf = live[Me]]
           claim == [r EXCEPT !.payload = CustomPayload(r.leaf)]
<1>3. CASE asked' = [asked EXCEPT ![c] = Resolve(hints)]
  <2>1. hints \in Request /\ AskOK([hints EXCEPT !.pc = "signer"])
    BY <1>1, <1>2 DEF Request, AskOK, Leaf
  <2> QED BY <1>3, <2>1, ResolveOK, GoOn DEF AnswerClaimed, AskInv
<1>4. CASE asked' = [asked EXCEPT ![c] = Resolve(claim)]
  <2>1. CustomPayload(r.leaf) \in Payload
    BY <1>2 DEF CustomPayload, Payload, Voucher, BackendInv
  <2>2. Covers(CustomPayload(r.leaf), r.leaf) /\ CustomPayload(r.leaf).voucher.epoch <= epoch
    BY <1>1, <1>2 DEF CustomPayload, Covers, GoodPayload, Cumulative, BackendInv, Leaf, Request
  <2>3. claim \in Request
    BY <1>1, <2>1 DEF Request
  <2>4. /\ [claim EXCEPT !.pc = "signer"].leaf = r.leaf
        /\ [claim EXCEPT !.pc = "signer"].payload = CustomPayload(r.leaf)
        /\ [claim EXCEPT !.pc = "signer"].pc # "claimed"
    BY <1>1 DEF Request
  <2>5. AskOK([claim EXCEPT !.pc = "signer"])
    BY <1>1, <2>2, <2>4 DEF AskOK
  <2> HIDE DEF claim
  <2> QED BY <1>4, <2>3, <2>5, ResolveOK, GoOn DEF AnswerClaimed, AskInv
<1>5. CASE asked' = [asked EXCEPT ![c] = Resolve(r)]
  <2>1. AskOK([r EXCEPT !.pc = "signer"])
    BY <1>1 DEF AskOK, Request
  <2> HIDE DEF r
  <2> QED BY <1>1, <1>5, <2>1, ResolveOK, GoOn DEF AnswerClaimed, AskInv
<1>6. \/ asked' = [asked EXCEPT ![c] = Resolve(hints)]
      \/ asked' = [asked EXCEPT ![c] = Resolve(claim)]
      \/ asked' = [asked EXCEPT ![c] = Resolve(r)]
  <2>1. c \in DOMAIN asked
    BY DEF AskInv
  <2> QED BY <2>1 DEF AnswerClaimed
<1> QED BY <1>3, <1>4, <1>5, <1>6

LEMMA AnswerAsk ==
    ASSUME BackendInv, BackendInv', Later, EpochStays, AskInv, NEW c \in Clients, AnswerStep(c)
    PROVE  AskInv'
<1> DEFINE r == asked[c]
<1>1. r \in Request /\ AskOK(r)
  BY DEF AnswerStep, AnswerClaimed, AnswerSigner, AnswerStateInit, AnswerWallet, AnswerLost,
     At, AskInv
<1>2. CASE AnswerClaimed(c)
  BY <1>2, AnswerClaimedAsk
<1>3. CASE AnswerSigner(c)
  <2>1. \E s \in Signers : asked' = [asked EXCEPT ![c] = [r EXCEPT !.pc = "init", !.signer = s]]
    BY <1>3 DEF AnswerSigner, SignerRead, BackendInv, AskInv
  <2> PICK s \in Signers : asked' = [asked EXCEPT ![c] = [r EXCEPT !.pc = "init", !.signer = s]]
    BY <2>1
  <2> DEFINE e == [r EXCEPT !.pc = "init", !.signer = s]
  <2>2. e \in Request /\ AskOK(e)
    BY <1>1 DEF Request, AskOK
  <2> HIDE DEF r
  <2> QED BY <1>3, <2>2, GoOn DEF AnswerSigner, AskInv
<1>4. CASE AnswerStateInit(c)
  <2> PICK s \in Signers \cup {Nothing} :
           asked' = [asked EXCEPT ![c] = [r EXCEPT !.pc = "wallet", !.init = s]]
    <3>1. JettonWalletStateInit(r.signer) \in Signers \cup {Nothing}
      BY <1>1 DEF JettonWalletStateInit, Request
    <3>2. [r EXCEPT !.pc = "wallet"] = [r EXCEPT !.pc = "wallet", !.init = r.init]
      BY <1>1 DEF Request
    <3>3. r.init \in Signers \cup {Nothing}
      BY <1>1 DEF Request
    <3> QED BY <1>4, <3>1, <3>2, <3>3 DEF AnswerStateInit, AskInv
  <2> DEFINE e == [r EXCEPT !.pc = "wallet", !.init = s]
  <2>2. e \in Request /\ AskOK(e)
    BY <1>1 DEF Request, AskOK
  <2> HIDE DEF r
  <2> QED BY <1>4, <2>2, GoOn DEF AnswerStateInit, AskInv
<1>5. CASE AnswerWallet(c)
  <2> DEFINE Body(s) == [status |-> 200, leaf |-> r.leaf, payload |-> r.payload,
                         init |-> r.init, wallet |-> s, epoch |-> epoch]
  <2>1. \A s \in Signers \cup {Nothing} : Body(s) \in Reply /\ ReplyOK(Body(s))
    BY <1>1 DEF Request, Reply, ReplyOK, AskOK, BackendInv
  <2>2. signer \in Signers \cup {Nothing} /\ r.signer \in Signers \cup {Nothing}
    BY <1>1 DEF BackendInv, Request
  <2>3. \E b \in Reply : ReplyOK(b) /\ Finish(c, b)
    BY <1>5, <2>1, <2>2, RefusalOK DEF AnswerWallet
  <2> QED BY <2>3, FinishAsk
<1>6. CASE AnswerLost(c)
  BY <1>6, RefusalOK, FinishAsk DEF AnswerLost
<1> QED BY <1>2, <1>3, <1>4, <1>5, <1>6 DEF AnswerStep

LEMMA RestartAsk ==
    ASSUME BackendInv, BackendInv', Later, AskInv, NEW k \in Signers, Restart(k)
    PROVE  AskInv'
<1>1. /\ asked' = [c \in Clients |-> Nothing]
      /\ \A d \in Clients : reply'[d] \in {reply[d], Refusal(503)}
      /\ reply' \in [Clients -> Reply \cup {Nothing}]
  BY RefusalOK DEF Restart, AskInv
<1>2. ReplyOK(Refusal(503))'
  BY RefusalOK, ReplyLater
<1>3. \A d \in Clients : (reply[d] # Nothing => ReplyOK(reply[d]))'
  BY <1>1, <1>2, ReplyLater DEF AskInv
<1> QED BY <1>1, <1>3 DEF AskInv

-----------------------------------------------------------------------------
(* The SDK *)

LEMMA SendOK ==
    ASSUME BackendInv, BackendInv', Later, OutboxInv, NEW m \in JettonMessage, MessageOK(m),
           SendMessage(m)
    PROVE  OutboxInv'
<1>1. outbox' = Append(outbox, m) /\ outbox \in Seq(JettonMessage)
  BY DEF SendMessage, OutboxInv
<1>2. outbox' \in Seq(JettonMessage) /\ Len(outbox') = Len(outbox) + 1
  BY <1>1
<1>3. \A i \in 1..Len(outbox') : outbox'[i] = m \/ (i \in 1..Len(outbox) /\ outbox'[i] = outbox[i])
  BY <1>1
<1>4. MessageOK(m)'
  BY MessageLater
<1>5. \A i \in 1..Len(outbox) : outbox[i] \in JettonMessage /\ MessageOK(outbox[i])
  BY <1>1 DEF OutboxInv
<1>6. (\A i \in 1..Len(outbox) : MessageOK(outbox[i]))'
  BY <1>3, <1>4, <1>5, MessageLater
<1> QED BY <1>2, <1>6 DEF OutboxInv

LEMMA LeaveOK ==
    ASSUME BackendInv, BackendInv', Later, EpochStays, AskInv, NEW c \in Clients, Leave(c)
    PROVE  AskInv'
BY FinishAsk DEF Leave

LEMMA SdkBackend ==
    ASSUME BackendInv, SdkCalls
    PROVE  BackendInv' /\ Later /\ EpochStays
<1>1. UNCHANGED <<live, epoch, key, signer, deployed, now, earned, durable>>
  BY DEF SdkCalls, backendVars, chainVars, storeVars
<1>2. cachedSigner' \in Signers \cup {Nothing} /\ failures' \in Nat
  BY DEF SdkCalls, SdkStart, SdkStep, SdkReply, SdkWallet, SdkGiveUp, SdkSend, JettonWalletAnswer,
     SignerRead, Fail, BackendInv
<1> QED BY <1>1, <1>2, BackendStays DEF BackendInv

LEMMA WalletOf ==
    ASSUME NEW known
    PROVE  JettonWalletOf(known) # Nothing /\ ~JettonWalletOf(known).needsDeploy =>
               JettonWalletOf(known).wallet \in deployed
BY DEF JettonWalletOf

(* The call holds a reply and an answer about the wallet. *)
LEMMA SdkHolds ==
    ASSUME BackendInv, BackendInv', Later, "sdk" \in Clients, sdk' \in SdkCall,
           NEW r \in Reply \cup {Nothing}, sdk'.claim = r,
           r # Nothing /\ r.payload # Nothing => GoodPayload(r.payload),
           NEW i, sdk'.info = i, i # Nothing /\ ~i.needsDeploy => i.wallet \in deployed
    PROVE  SdkInv'
<1>1. r # Nothing /\ r.payload # Nothing => r.payload \in Payload
  BY DEF Reply
<1>2. r # Nothing /\ r.payload # Nothing => GoodPayload(r.payload)'
  BY <1>1, PayloadLater
<1> QED BY <1>2 DEF SdkInv, Later

LEMMA SdkCallsOK ==
    ASSUME Inv, SdkCalls
    PROVE  AskInv' /\ SdkInv' /\ OutboxInv'
<1>1. BackendInv' /\ Later /\ EpochStays
  BY SdkBackend DEF Inv
<1> USE DEF Inv
<1>2. UNCHANGED outbox => OutboxInv'
  BY <1>1, OutboxStays
<1>3. "sdk" \in Clients
  BY DEF SdkCalls, SdkStart, SdkStep, SdkReply, SdkWallet, SdkGiveUp, SdkSend, Prepared, SdkInv
<1>4. SdkReturn => AskInv' /\ SdkInv'
  BY <1>1, <1>3, LeaveOK DEF SdkReturn, SdkInv
<1>5. sdk # Nothing => sdk \in SdkCall
  BY DEF SdkInv
<1>6. CASE SdkStart
  <2>1. AskInv'
    BY <1>1, <1>3, <1>6, ServeAsk DEF SdkStart
  <2>2. SdkInv'
    BY <1>3, <1>6 DEF SdkStart, SdkInv, SdkCall
  <2> QED BY <1>2, <1>6, <2>1, <2>2 DEF SdkStart
<1>7. CASE SdkReply
  <2> DEFINE r == reply["sdk"]
  <2>1. r \in Reply /\ ReplyOK(r) /\ sdk \in SdkCall
    BY <1>3, <1>5, <1>7 DEF SdkReply, AskInv
  <2>2. CASE sdk' = [sdk EXCEPT !.claim = r] /\ Leave("sdk")
    <3>1. r.payload # Nothing => GoodPayload(r.payload)
      BY <2>1 DEF ReplyOK, Covers
    <3>2. sdk' \in SdkCall /\ sdk'.claim = r /\ sdk'.info = sdk.info
      BY <2>1, <2>2 DEF SdkCall
    <3>3. sdk.info # Nothing /\ ~sdk.info.needsDeploy => sdk.info.wallet \in deployed
      BY <1>7 DEF SdkReply, SdkInv
    <3> HIDE DEF r
    <3>4. SdkInv'
      BY <1>1, <1>3, <2>1, <3>1, <3>2, <3>3, SdkHolds
    <3> QED BY <1>1, <1>2, <1>3, <1>7, <2>2, <3>4, LeaveOK DEF SdkReply
  <2>3. CASE sdk' = [sdk EXCEPT !.tries = @ + 1] /\ ServeMintlessWallet("sdk")
    <3>1. /\ sdk' \in SdkCall /\ sdk'.claim = sdk.claim /\ sdk'.info = sdk.info
          /\ sdk.claim \in Reply \cup {Nothing}
      BY <2>1, <2>3 DEF SdkCall
    <3>2. /\ sdk.claim # Nothing /\ sdk.claim.payload # Nothing => GoodPayload(sdk.claim.payload)
          /\ sdk.info # Nothing /\ ~sdk.info.needsDeploy => sdk.info.wallet \in deployed
      BY <1>7 DEF SdkReply, SdkInv
    <3>3. SdkInv'
      BY <1>1, <1>3, <3>1, <3>2, SdkHolds
    <3> QED BY <1>1, <1>2, <1>3, <1>7, <2>3, <3>3, ServeAsk DEF SdkReply
  <2> QED BY <1>2, <1>4, <1>7, <2>2, <2>3 DEF SdkReply
<1>8. CASE SdkWallet
  <2>1. CASE SdkReturn
    BY <1>2, <1>4, <1>8, <2>1 DEF SdkWallet
  <2>2. CASE ~SdkReturn
    <3> PICK info \in JettonWalletInfo : /\ JettonWalletAnswer(info) /\ info # Nothing
                                        /\ sdk' = [sdk EXCEPT !.info = info]
                                        /\ UNCHANGED <<asked, reply>>
      BY <1>8, <2>2 DEF SdkWallet
    <3>1. ~info.needsDeploy => info.wallet \in deployed
      BY WalletOf DEF JettonWalletAnswer
    <3>2. /\ sdk' \in SdkCall /\ sdk'.claim = sdk.claim /\ sdk'.info = info
          /\ sdk.claim \in Reply \cup {Nothing}
      BY <1>5, <1>8 DEF SdkWallet, SdkCall
    <3>3. sdk.claim # Nothing /\ sdk.claim.payload # Nothing => GoodPayload(sdk.claim.payload)
      BY <1>8 DEF SdkWallet, SdkInv
    <3>4. SdkInv'
      BY <1>1, <1>3, <3>1, <3>2, <3>3, SdkHolds
    <3> QED BY <1>1, <1>2, <1>8, <3>4, AskStays DEF SdkWallet
  <2> QED BY <2>1, <2>2
<1>9. CASE SdkGiveUp
  BY <1>2, <1>4, <1>9 DEF SdkGiveUp
<1>10. CASE SdkSend
  <2> DEFINE m == [wallet |-> sdk.info.wallet, init |-> sdk.info.init,
                   payload |-> sdk.claim.payload, amount |-> 0]
  <2>1. sdk.claim \in Reply /\ sdk.info \in JettonWalletInfo
    BY <1>5, <1>10 DEF SdkSend, Prepared, SdkCall
  <2>2. m \in JettonMessage
    BY <2>1 DEF Reply, JettonWalletInfo, JettonMessage
  <2>3. MessageOK(m)
    BY <1>10 DEF SdkSend, Prepared, NeedsClaim, SdkInv, MessageOK
  <2>4. SendMessage(m)
    BY <1>10 DEF SdkSend
  <2> HIDE DEF m
  <2> QED BY <1>1, <1>4, <1>10, <2>2, <2>3, <2>4, SendOK DEF SdkSend
<1> QED BY <1>6, <1>7, <1>8, <1>9, <1>10 DEF SdkCalls, SdkStep

-----------------------------------------------------------------------------
(* The page *)

LEMMA PageBackend ==
    ASSUME BackendInv, PageCalls
    PROVE  BackendInv' /\ Later /\ EpochStays
<1>1. UNCHANGED <<live, epoch, key, signer, deployed, now, earned, durable>>
  BY DEF PageCalls, backendVars, chainVars, storeVars
<1>2. UNCHANGED cachedSigner
  BY DEF PageCalls, PageStep, RefreshList, RefreshActive, FetchRetry, RefreshPending, GoConfirm,
     BackToForm, Submit, SubmitSend, SubmitRefused, LeavePage
<1>3. UNCHANGED failures \/ Fail
  BY DEF PageCalls, PageStep, RefreshList, RefreshActive, FetchRetry, RefreshPending, GoConfirm,
     BackToForm, Submit, SubmitSend, SubmitRefused, LeavePage
<1>4. failures' \in Nat
  BY <1>3 DEF Fail, BackendInv
<1> QED BY <1>1, <1>2, <1>4, BackendStays DEF BackendInv

LEMMA RefreshesOK ==
    ASSUME Inv, PageCalls, RefreshList \/ RefreshActive \/ FetchRetry \/ RefreshPending
    PROVE  AskInv' /\ PageInv' /\ OutboxInv'
<1>1. BackendInv' /\ Later /\ EpochStays
  BY PageBackend DEF Inv
<1>2. "page" \in Clients /\ page \in Page
  <2>1. "page" \in Clients \/ page.call # Nothing
    BY DEF RefreshList, RefreshActive, FetchRetry, RefreshPending, Calling, Replied
  <2>2. EmptyPage.call = Nothing
    BY DEF EmptyPage
  <2> QED BY <2>1, <2>2 DEF Inv, PageInv
<1> USE DEF Inv
<1>3. OutboxInv'
  BY <1>1, OutboxStays DEF RefreshList, RefreshActive, FetchRetry, RefreshPending
<1>4. CASE RefreshList
  <2> PICK onchain \in {jettonWallet[signer].balance, 0}, rmj \in BOOLEAN :
           page' = [page EXCEPT !.call = [kind |-> "active", tries |-> 0],
                      !.next = [wallet |-> signer, onchain |-> onchain, rmj |-> rmj,
                                active |-> FALSE, pending |-> Nothing]]
    BY <1>4 DEF RefreshList
  <2> DEFINE e == [wallet |-> signer, onchain |-> onchain, rmj |-> rmj,
                   active |-> FALSE, pending |-> Nothing]
             call == [kind |-> "active", tries |-> 0]
  <2>1. e \in Entry /\ EntryOK(e)'
    BY DEF Entry, EntryOK, BackendInv, WalletInv, WalletStorage
  <2>2. call \in PageCall /\ call.kind = "active"
    BY DEF PageCall
  <2>3. page' = [page EXCEPT !.call = call, !.next = e]
    OBVIOUS
  <2> HIDE DEF e, call
  <2>4. /\ page' \in Page /\ page'.call = call /\ page'.next = e /\ page'.entry = page.entry
        /\ page'.step = page.step
    BY <1>2, <2>1, <2>2, <2>3 DEF Page
  <2>5. /\ EntryOK(page.next)' /\ (page.entry # Nothing => EntryOK(page.entry))'
        /\ page.step = "confirm" => EntryOK(page.entry)'
    BY <1>1, <2>1, <2>4 DEF EntryOK, PageInv, Later
  <2>6. PageInv'
    BY <1>2, <2>1, <2>2, <2>4, <2>5 DEF PageInv, Calling
  <2> QED BY <1>1, <1>3, <1>4, <2>6, AskStays DEF RefreshList
<1>5. CASE RefreshActive
  <2> PICK active \in BOOLEAN :
           /\ active => page.next.wallet \in deployed
           /\ \/ /\ page' = [page EXCEPT !.next.active = active, !.call.kind = "pending"]
                 /\ ServeMintlessWallet("page")
              \/ /\ page' = [page EXCEPT !.entry = [page.next EXCEPT !.active = active],
                                         !.call = Nothing, !.next = Nothing]
                 /\ UNCHANGED <<asked, reply>>
    BY <1>5 DEF RefreshActive
  <2> DEFINE e == [page.next EXCEPT !.active = active]
             call == [page.call EXCEPT !.kind = "pending"]
  <2>0. page.next \in Entry /\ page.call \in PageCall
    BY <1>2, <1>5 DEF RefreshActive, PageInv, Calling, Page
  <2>1. e \in Entry /\ (EntryOK(page.next) => EntryOK(e)) /\ e.wallet = page.next.wallet
        /\ (e.active = active)
    BY <2>0 DEF Entry, EntryOK
  <2>2. call \in PageCall /\ call.kind = "pending"
    BY <2>0 DEF PageCall
  <2>3. \/ page' = [page EXCEPT !.call = call, !.next = e] /\ ServeMintlessWallet("page")
        \/ /\ page' = [page EXCEPT !.entry = e, !.call = Nothing, !.next = Nothing]
           /\ UNCHANGED <<asked, reply>>
    BY <1>2 DEF Page
  <2> HIDE DEF e, call
  <2>4. CASE page' = [page EXCEPT !.call = call, !.next = e] /\ ServeMintlessWallet("page")
    <3>1. /\ page' \in Page /\ page'.call = call /\ page'.next = e /\ page'.entry = page.entry
          /\ page'.step = page.step
      BY <1>2, <2>1, <2>2, <2>4 DEF Page
    <3>2. /\ EntryOK(page.next)' /\ (page.entry # Nothing => EntryOK(page.entry))'
          /\ page.step = "confirm" => EntryOK(page.entry)'
      BY <1>1, <1>5, <2>1, <3>1 DEF RefreshActive, EntryOK, PageInv, Later
    <3>3. PageInv'
      BY <1>2, <2>1, <2>2, <3>1, <3>2 DEF PageInv, Calling
    <3> QED BY <1>1, <1>2, <1>3, <2>4, <3>3, ServeAsk
  <2>5. CASE /\ page' = [page EXCEPT !.entry = e, !.call = Nothing, !.next = Nothing]
             /\ UNCHANGED <<asked, reply>>
    <3>1. /\ page' \in Page /\ page'.call = Nothing /\ page'.next = Nothing /\ page'.entry = e
          /\ page'.step = page.step
      BY <1>2, <2>1, <2>5 DEF Page
    <3>2. EntryOK(page.entry)'
      BY <1>1, <2>1, <3>1 DEF EntryOK, Later
    <3>3. PageInv'
      BY <1>2, <2>1, <3>1, <3>2 DEF PageInv, Calling
    <3> QED BY <1>1, <1>3, <2>5, <3>3, AskStays
  <2> QED BY <2>3, <2>4, <2>5
<1>6. CASE FetchRetry
  <2> DEFINE call == [page.call EXCEPT !.tries = @ + 1]
  <2>0. page.call \in PageCall
    BY <1>2, <1>6 DEF FetchRetry, Page
  <2>2. call \in PageCall /\ call.kind = page.call.kind
    BY <2>0 DEF PageCall
  <2>3. page' = [page EXCEPT !.call = call]
    BY <1>2, <1>6 DEF FetchRetry, Page
  <2> HIDE DEF call
  <2>4. /\ page' \in Page /\ page'.call = call /\ page'.next = page.next
        /\ page'.entry = page.entry /\ page'.step = page.step
    BY <1>2, <2>2, <2>3 DEF Page
  <2>6. PageInv'
    BY <1>1, <1>2, <1>6, <2>2, <2>4 DEF FetchRetry, PageInv, Calling, EntryOK, Later
  <2> QED BY <1>1, <1>2, <1>3, <1>6, <2>6, ServeAsk DEF FetchRetry
<1>7. CASE RefreshPending
  <2> DEFINE pending == IF reply["page"].status = 200 THEN reply["page"].leaf.cumulative
                        ELSE Nothing
             e == [page.next EXCEPT !.pending = pending]
  <2>0. page.next \in Entry
    BY <1>7 DEF RefreshPending, Replied, PageInv
  <2>1. pending \in Nat \cup {Nothing}
    BY <1>2, <1>7 DEF RefreshPending, Replied, AskInv, ReplyOK, Leaf
  <2>2. e \in Entry /\ e.wallet = page.next.wallet /\ e.active = page.next.active
    BY <2>0, <2>1 DEF Entry
  <2>3. page' = [page EXCEPT !.call = Nothing, !.next = Nothing, !.entry = e]
    BY <1>7 DEF RefreshPending
  <2> HIDE DEF e
  <2>4. /\ page' \in Page /\ page'.call = Nothing /\ page'.next = Nothing
        /\ page'.entry = e /\ page'.step = page.step
    BY <1>2, <2>2, <2>3 DEF Page
  <2>6. page.next.active => page.next.wallet \in deployed
    BY <1>7 DEF RefreshPending, Replied, PageInv, EntryOK
  <2>7. EntryOK(page.entry)'
    BY <1>1, <2>2, <2>4, <2>6 DEF EntryOK, Later
  <2>8. PageInv'
    BY <1>2, <2>2, <2>4, <2>7 DEF PageInv, Calling
  <2> QED BY <1>1, <1>2, <1>3, <1>7, <2>8, LeaveOK DEF RefreshPending
<1> QED BY <1>4, <1>5, <1>6, <1>7

LEMMA BroadcastOK ==
    ASSUME Inv, BackendInv', Later, page.step = "confirm",
           NEW payload \in Payload \cup {Nothing}, NEW init \in Signers \cup {Nothing},
           Broadcast(payload, init),
           payload # Nothing => GoodPayload(payload)
    PROVE  OutboxInv'
<1> DEFINE m == [wallet |-> page.entry.wallet, init |-> init, payload |-> payload,
                 amount |-> page.amount]
<1>1. page.entry \in Entry /\ EntryOK(page.entry) /\ page \in Page
  BY DEF Inv, PageInv
<1>2. m \in JettonMessage
  BY <1>1 DEF Entry, Page, JettonMessage
<1>4. MessageOK(m)
  BY DEF MessageOK
<1>5. SendMessage(m)
  BY DEF Broadcast
<1> HIDE DEF m
<1> QED BY <1>2, <1>4, <1>5, SendOK DEF Inv

LEMMA FormOK ==
    ASSUME Inv, PageCalls,
           \/ \E amount \in 0 .. MaxAmount : GoConfirm(amount)
           \/ BackToForm \/ LeavePage
    PROVE  AskInv' /\ PageInv' /\ OutboxInv'
<1>1. BackendInv' /\ Later /\ EpochStays
  BY PageBackend DEF Inv
<1> USE DEF Inv
<1>2. AskInv' /\ OutboxInv'
  BY <1>1, AskStays, OutboxStays DEF GoConfirm, BackToForm, LeavePage
<1>3. ASSUME NEW amount \in 0 .. MaxAmount, GoConfirm(amount)
      PROVE  PageInv'
  <2>1. page \in Page /\ page.entry \in Entry /\ page.entry # Nothing /\ Quiet
    BY <1>3 DEF GoConfirm, PageInv, Page
  <2>2. "page" \in Clients
    BY <2>1 DEF PageInv, EmptyPage
  <2>3. /\ page' \in Page /\ page'.call = Nothing /\ page'.entry = page.entry
        /\ page'.step = "confirm"
    <3>1. page' = [page EXCEPT !.step = "confirm", !.amount = amount]
      BY <1>3 DEF GoConfirm
    <3>2. amount \in Nat
      BY SendJettonAssumption
    <3> QED BY <2>1, <3>1, <3>2 DEF Page, Quiet
  <2>4. EntryOK(page.entry)'
    BY <1>1, <2>1, <2>3 DEF PageInv, EntryOK, Later
  <2> QED BY <2>1, <2>2, <2>3, <2>4 DEF PageInv, Calling
<1>4. CASE BackToForm
  <2>1. page \in Page /\ Quiet /\ page.step = "confirm"
    BY <1>4 DEF BackToForm, PageInv
  <2>2. "page" \in Clients
    BY <2>1 DEF PageInv, EmptyPage
  <2>3. /\ page' \in Page /\ page'.call = Nothing /\ page'.entry = page.entry
        /\ page'.step = "form"
    BY <1>4, <2>1 DEF BackToForm, Page, Quiet
  <2>4. page.entry # Nothing => EntryOK(page.entry)'
    BY <1>1, <2>3 DEF PageInv, EntryOK, Later
  <2> QED BY <1>2, <2>2, <2>3, <2>4 DEF PageInv, Calling
<1>5. CASE LeavePage
  <2>1. EmptyPage \in Page
    BY DEF EmptyPage, Page
  <2>2. page' = EmptyPage
    BY <1>5 DEF LeavePage
  <2>3. page' \in Page /\ page'.call = Nothing /\ page'.entry = Nothing /\ page'.step = "form"
    BY <2>1, <2>2 DEF EmptyPage
  <2>4. EmptyPage' = EmptyPage
    BY DEF EmptyPage
  <2> QED BY <1>2, <2>2, <2>3, <2>4 DEF PageInv, Calling
<1> QED BY <1>2, <1>3, <1>4, <1>5

LEMMA SubmitsOK ==
    ASSUME Inv, PageCalls, Submit \/ SubmitSend \/ SubmitRefused
    PROVE  AskInv' /\ PageInv' /\ OutboxInv'
<1>1. BackendInv' /\ Later /\ EpochStays
  BY PageBackend DEF Inv
<1> USE DEF Inv
<1>2. /\ page \in Page /\ page.step = "confirm" /\ page.entry \in Entry /\ EntryOK(page.entry)
      /\ Calling("submit") \/ Quiet
  BY DEF Submit, SubmitSend, SubmitRefused, Replied, PageInv
<1>3. "page" \in Clients
  BY <1>2 DEF PageInv, EmptyPage
<1>4. EntryOK(page.entry) => (page'.entry = page.entry => EntryOK(page.entry)')
  BY <1>1 DEF EntryOK, Later
<1>5. page' = DonePage => PageInv'
  <2>1. /\ DonePage \in Page /\ DonePage.call = Nothing /\ DonePage.entry = Nothing
        /\ DonePage.step = "done"
    BY DEF DonePage, EmptyPage, Page
  <2> HIDE DEF Inv
  <2> QED BY <1>3, <2>1 DEF PageInv, Calling
<1>6. CASE Submit
  <2>1. CASE NeedsMintlessClaim(page.entry)
    <3> DEFINE call == [kind |-> "submit", tries |-> 0]
    <3>1. call \in PageCall /\ call.kind = "submit"
      BY DEF PageCall
    <3>2. page' = [page EXCEPT !.call = call] /\ ServeMintlessWallet("page") /\ UNCHANGED outbox
      BY <1>6, <2>1 DEF Submit
    <3> HIDE DEF call
    <3>3. page' \in Page /\ page'.entry = page.entry /\ page'.step = "confirm" /\ page'.call = call
      BY <1>2, <3>1, <3>2 DEF Page
    <3>4. PageInv'
      BY <1>2, <1>3, <1>4, <3>1, <3>3 DEF PageInv, Calling
    <3> QED BY <1>1, <1>3, <3>2, <3>4, ServeAsk, OutboxStays
  <2>2. CASE ~NeedsMintlessClaim(page.entry)
    <3>1. /\ page' = DonePage /\ Broadcast(Nothing, Nothing)
          /\ UNCHANGED <<asked, reply>> /\ Quiet
      BY <1>6, <2>2 DEF Submit
    <3>3. PageInv'
      BY <1>5, <3>1
    <3>4. OutboxInv'
      BY <1>1, <1>2, <3>1, BroadcastOK
    <3> QED BY <1>1, <3>1, <3>3, <3>4, AskStays
  <2> QED BY <2>1, <2>2
<1>7. CASE SubmitSend
  <2> DEFINE r == reply["page"]
  <2>1. r \in Reply /\ ReplyOK(r) /\ r.payload # Nothing
    BY <1>3, <1>7 DEF SubmitSend, Replied, AskInv
  <2>2. r.payload \in Payload /\ r.init \in Signers \cup {Nothing} /\ GoodPayload(r.payload)
    BY <2>1 DEF Reply, ReplyOK, Covers
  <2>3. Broadcast(r.payload, r.init)
    BY <1>7 DEF SubmitSend
  <2>4. OutboxInv'
    <3> HIDE DEF r
    <3> QED BY <1>1, <1>2, <2>1, <2>2, <2>3, BroadcastOK
  <2>6. PageInv'
    BY <1>5, <1>7 DEF SubmitSend
  <2> QED BY <1>1, <1>3, <1>7, <2>4, <2>6, LeaveOK DEF SubmitSend
<1>8. CASE SubmitRefused
  <2>1. /\ page' \in Page /\ page'.entry = page.entry /\ page'.step = "confirm"
        /\ page'.call = Nothing
    BY <1>2, <1>8 DEF SubmitRefused, Page
  <2>2. PageInv'
    BY <1>2, <1>3, <1>4, <2>1 DEF PageInv, Calling
  <2> QED BY <1>1, <1>3, <1>8, <2>2, LeaveOK, OutboxStays DEF SubmitRefused
<1> QED BY <1>6, <1>7, <1>8

-----------------------------------------------------------------------------
(* The chain *)

(* A message that runs leaves a wallet whose claims were earned. *)
LEMMA RunOK ==
    ASSUME BackendInv, WalletInv, NEW m \in JettonMessage, MessageOK(m), Runs(m)
    PROVE  LET w == [AfterClaim(m) EXCEPT !.balance = @ - m.amount] IN
           /\ w \in WalletStorage /\ w.balance <= w.alreadyClaimed
           /\ w.alreadyClaimed <= earned[Me]
<1> DEFINE w == jettonWallet[m.wallet]
           v == AfterClaim(m)
<1>1. m.wallet \in Signers /\ m.amount \in Nat /\ earned[Me] \in Nat
  BY DEF JettonMessage, BackendInv
<1>2. /\ w \in WalletStorage /\ w.balance <= w.alreadyClaimed
      /\ w.alreadyClaimed <= earned[Me]
  BY <1>1 DEF WalletInv, ClaimedWithinEarned
<1>3. /\ v \in WalletStorage /\ v.balance <= v.alreadyClaimed
      /\ v.alreadyClaimed <= earned[Me]
  <2>1. CASE m.payload = Nothing
    BY <1>2, <2>1 DEF AfterClaim
  <2>2. CASE m.payload # Nothing
    <3> DEFINE root == m.payload.voucher.root
               e == m.payload.voucher.epoch
    <3>1. m.payload \in Payload /\ root \in Tree /\ e \in Nat
      BY <2>2 DEF JettonMessage, Payload, Voucher
    <3>2. /\ root = m.payload.proof /\ root[Me] # NoLeaf
          /\ root[Me].cumulative >= w.alreadyClaimed
      BY <2>2 DEF Runs, Claims, ClaimAccepted, CheckMerkleProof, MerkleProofRoot, HasAirdropEntry
    <3>3. root[Me].cumulative \in Nat /\ root[Me].cumulative <= earned[Me]
      BY <2>2, <3>1, <3>2 DEF MessageOK, GoodPayload, Tree, Leaf
    <3>4. v = ApplyMerkleClaim(w, root, e, Me)
      BY <2>2 DEF AfterClaim
    <3> HIDE DEF w, root, e, v
    <3> QED BY <1>2, <3>1, <3>2, <3>3, <3>4 DEF ApplyMerkleClaim, WalletStorage
  <2> QED BY <2>1, <2>2
<1>4. v.balance >= m.amount
  BY DEF Runs
<1>5. [v EXCEPT !.balance = @ - m.amount] \in WalletStorage
  BY <1>1, <1>3, <1>4 DEF WalletStorage
<1>6. /\ [v EXCEPT !.balance = @ - m.amount].balance = v.balance - m.amount
      /\ [v EXCEPT !.balance = @ - m.amount].alreadyClaimed = v.alreadyClaimed
  BY <1>3 DEF WalletStorage
<1> QED BY <1>1, <1>3, <1>4, <1>5, <1>6 DEF WalletStorage

LEMMA TailOK ==
    ASSUME BackendInv, BackendInv', Later, OutboxInv, outbox # <<>>, outbox' = Tail(outbox)
    PROVE  OutboxInv'
<1>1. outbox' \in Seq(JettonMessage)
  BY DEF OutboxInv
<1>2. \A i \in 1..Len(outbox') : i + 1 \in 1..Len(outbox) /\ outbox'[i] = outbox[i + 1]
  BY DEF OutboxInv
<1>3. \A i \in 1..Len(outbox) : outbox[i] \in JettonMessage /\ MessageOK(outbox[i])
  BY DEF OutboxInv
<1>4. (\A i \in 1..Len(outbox) : MessageOK(outbox[i]))'
  BY <1>2, <1>3, MessageLater
<1> QED BY <1>1, <1>4 DEF OutboxInv

LEMMA LandOK ==
    ASSUME Inv, Land
    PROVE  Inv'
<1> DEFINE m == Head(outbox)
           w == [AfterClaim(m) EXCEPT !.balance = @ - m.amount]
<1> USE DEF Inv
<1>1. m \in JettonMessage /\ MessageOK(m)
  <2>1. outbox \in Seq(JettonMessage) /\ outbox # <<>>
    BY DEF Land, OutboxInv
  <2>2. m = outbox[1] /\ 1 \in 1..Len(outbox) /\ outbox[1] \in JettonMessage
    BY <2>1
  <2> QED BY <2>2 DEF OutboxInv
<1>2. deployed' \subseteq Signers /\ deployed \subseteq deployed'
  BY <1>1 DEF Land, JettonMessage, BackendInv
<1>3. UNCHANGED <<live, epoch, key, earned, durable, cachedSigner, signer, now, failures>>
  BY DEF Land, backendVars, answerVars, storeVars
<1>4. BackendInv' /\ Later /\ EpochStays
  BY <1>2, <1>3, BackendStays DEF BackendInv
<1>5. WalletInv'
  <2>1. CASE Runs(m)
    <3>1. /\ w \in WalletStorage /\ w.balance <= w.alreadyClaimed
          /\ w.alreadyClaimed <= earned[Me]
      BY <1>1, <2>1, RunOK
    <3>2. jettonWallet' = [jettonWallet EXCEPT ![m.wallet] = w]
      BY <2>1 DEF Land
    <3>3. earned' = earned
      BY <1>3
    <3> HIDE DEF w, m
    <3> QED BY <3>1, <3>2, <3>3 DEF WalletInv, ClaimedWithinEarned
  <2>2. CASE ~Runs(m)
    BY <1>4, <2>2, WalletStays DEF Land
  <2> QED BY <2>1, <2>2
<1>6. OutboxInv'
  BY <1>4, TailOK DEF Land
<1> QED BY <1>4, <1>5, <1>6, AskStays, SdkStays, PageStays DEF Land, answerVars

-----------------------------------------------------------------------------

LEMMA InitInv == Init => Inv
<1> SUFFICES ASSUME Init
             PROVE  Inv
  OBVIOUS
<1>1. BackendInv
  BY DEF Init, BackendInv, NoLeaves, Tree, Cumulative
<1>2. AskInv /\ SdkInv /\ OutboxInv
  BY DEF Init, AskInv, SdkInv, OutboxInv
<1>3. PageInv
  <2>1. EmptyPage \in Page
    BY DEF EmptyPage, Page
  <2> QED BY <2>1 DEF Init, PageInv, EmptyPage, Calling
<1>4. earned[Me] = 0
  BY DEF Init
<1>5. WalletInv
  BY <1>4 DEF Init, WalletInv, ClaimedWithinEarned, StateInit, WalletStorage
<1> QED BY <1>1, <1>2, <1>3, <1>5 DEF Inv

LEMMA NextInv == Inv /\ [Next]_vars => Inv'
<1> SUFFICES ASSUME Inv, [Next]_vars
             PROVE  Inv'
  OBVIOUS
<1> USE DEF Inv
<1>1. ASSUME BackendInv', Later, EpochStays, UNCHANGED <<jettonWallet, asked, reply, clientVars>>
      PROVE  Inv'
  BY <1>1, AskStays, SdkStays, PageStays, OutboxStays, WalletStays DEF clientVars
<1>2. CASE UNCHANGED vars
  <2>1. BackendInv' /\ Later /\ EpochStays
    BY <1>2, BackendStays DEF vars, BackendInv
  <2> QED BY <1>1, <1>2, <2>1 DEF vars, clientVars
<1>3. ASSUME NEW o \in Owners, Earn(o)
      PROVE  Inv'
  BY <1>1, <1>3, EarnLater DEF Earn, chainVars, answerVars
<1>4. CASE AdvanceEpoch \/ WriteEpoch
  <2>1. /\ UNCHANGED <<live, earned, key, cachedSigner, signer, deployed, now, failures>>
        /\ epoch' \in Nat /\ epoch' >= epoch /\ durable' \in Nat
    BY <1>4 DEF AdvanceEpoch, WriteEpoch, BackendInv, backendVars, storeVars, chainVars, answerVars
  <2>2. BackendInv' /\ Later /\ EpochStays
    BY <2>1, BackendStays DEF BackendInv
  <2> QED BY <1>1, <1>4, <2>2 DEF AdvanceEpoch, WriteEpoch, chainVars, answerVars
<1>12. ASSUME NEW O \in SUBSET Earners, ApplyUpdates(O)
       PROVE  Inv'
  <2>1. O \in SUBSET Owners
    BY <1>12 DEF Earners
  <2>2. BackendInv' /\ Later /\ EpochStays
    BY <1>12, <2>1, ApplyLater
  <2> QED BY <1>1, <1>12, <2>2 DEF ApplyUpdates, chainVars, answerVars
<1>5. ASSUME NEW k \in Signers, Restart(k)
      PROVE  Inv'
  <2>1. BackendInv' /\ Later
    BY <1>5, RestartLater
  <2> QED BY <1>5, <2>1, RestartAsk, SdkStays, PageStays, OutboxStays, WalletStays
          DEF Restart, chainVars, clientVars
<1>6. ASSUME NEW c \in Clients, Answers(c)
      PROVE  Inv'
  <2>1. BackendInv' /\ Later /\ EpochStays
    BY <1>6, AnswerBackend
  <2>2. AskInv'
    BY <1>6, <2>1, AnswerAsk DEF Answers
  <2> QED BY <1>6, <2>1, <2>2, SdkStays, PageStays, OutboxStays, WalletStays
          DEF Answers, AnswerStep, chainVars, clientVars
<1>7. CASE SdkCalls
  <2>1. BackendInv' /\ Later /\ EpochStays
    BY <1>7, SdkBackend
  <2> QED BY <1>7, <2>1, SdkCallsOK, PageStays, WalletStays DEF SdkCalls, chainVars
<1>8. CASE PageCalls
  <2>1. BackendInv' /\ Later /\ EpochStays
    BY <1>8, PageBackend
  <2>2. AskInv' /\ PageInv' /\ OutboxInv'
    BY <1>8, RefreshesOK, FormOK, SubmitsOK DEF PageCalls, PageStep
  <2> QED BY <1>8, <2>1, <2>2, SdkStays, WalletStays DEF PageCalls, chainVars
<1>9. CASE Land
  BY <1>9, LandOK
<1>10. CASE Expire
  <2>1. BackendInv' /\ Later /\ EpochStays
    BY <1>10, BackendStays DEF Expire, Fail, BackendInv, backendVars, chainVars, storeVars
  <2>2. OutboxInv'
    BY <1>10, <2>1, TailOK DEF Expire
  <2> QED BY <1>10, <2>1, <2>2, AskStays, SdkStays, PageStays, WalletStays DEF Expire, chainVars
<1>11. CASE (\E s \in Signers : UpdateSigner(s)) \/ ClockTick
  <2>1. BackendInv' /\ Later /\ EpochStays
    BY <1>11, BackendStays DEF UpdateSigner, ClockTick, BackendInv, backendVars, answerVars,
                               storeVars
  <2> QED BY <1>1, <1>11, <2>1 DEF UpdateSigner, ClockTick, answerVars
<1> QED BY <1>2, <1>3, <1>4, <1>5, <1>6, <1>7, <1>8, <1>9, <1>10, <1>11, <1>12 DEF Next

(* Type correctness of answers, clients, messages and wallets, for any owners, signers,  *)
(* clients and bounds.                                                                   *)
THEOREM ClaimTypeCorrect == Spec => []TypeOK
<1>1. Inv => TypeOK
  BY DEF Inv, BackendInv, AskInv, SdkInv, PageInv, OutboxInv, WalletInv, TypeOK
<1> QED BY <1>1, InitInv, NextInv, PTL DEF Spec

(* Proof, voucher and epoch of every answer belong together, wherever rewards, ticks and *)
(* restarts fall between the calls that it is made of, with either store; and with       *)
(* SQLite the proof covers the amount of the answer.                                     *)
THEOREM AnswersConsistent == Spec => []AnswersBelongTogether
<1>1. Inv => AnswersBelongTogether
  <2> SUFFICES ASSUME Inv, NEW c \in Clients
               PROVE  /\ asked[c] # Nothing => Served(asked[c])
                      /\ reply[c] # Nothing =>
                           /\ Served(reply[c])
                           /\ reply[c].payload # Nothing =>
                                reply[c].epoch >= reply[c].payload.voucher.epoch
    BY DEF AnswersBelongTogether
  <2>1. asked[c] # Nothing => Served(asked[c])
    BY DEF Inv, AskInv, AskOK, Covers, GoodPayload, Served
  <2>2. CASE reply[c] # Nothing
    <3>1. reply[c] \in Reply /\ ReplyOK(reply[c])
      BY <2>2 DEF Inv, AskInv
    <3>2. reply[c].payload # Nothing =>
            reply[c].payload.voucher.epoch \in Nat /\ reply[c].epoch \in Nat
      BY <3>1 DEF Reply, Payload, Voucher
    <3> QED BY <2>1, <3>1, <3>2 DEF ReplyOK, Covers, GoodPayload, Served
  <2> QED BY <2>1, <2>2
<1> QED BY <1>1, InitInv, NextInv, PTL DEF Spec

(* However clients repeat, delay and lose claims, and whatever amounts the store takes   *)
(* back, the wallets of an owner never hold or have claimed more than was earned.        *)
THEOREM ClaimsWithinEarnings == Spec => []ClaimedWithinEarned
<1>1. Inv => ClaimedWithinEarned
  BY DEF Inv, WalletInv
<1> QED BY <1>1, InitInv, NextInv, PTL DEF Spec

(* Only the two clients send, and what they send without a claim goes to a wallet that   *)
(* was found active, or comes from a page that took the jetton for an ordinary one.      *)
LEMMA PlainSend ==
    ASSUME Inv, [Next]_vars, Len(outbox') > Len(outbox),
           outbox'[Len(outbox')].payload = Nothing
    PROVE  \/ outbox'[Len(outbox')].wallet \in deployed
           \/ page' # page /\ ~page.entry.rmj
<1> USE DEF Inv
<1>1. outbox \in Seq(JettonMessage) /\ Len(outbox) \in Nat
  BY DEF OutboxInv
<1>2. ASSUME UNCHANGED outbox
      PROVE  FALSE
  BY <1>1, <1>2
<1>3. ASSUME outbox' = Tail(outbox), outbox # <<>>
      PROVE  FALSE
  BY <1>1, <1>3
<1>4. ASSUME NEW m, outbox' = Append(outbox, m)
      PROVE  outbox'[Len(outbox')] = m
  BY <1>1, <1>4
<1>5. CASE SdkCalls
  <2>1. CASE SdkSend
    <3> DEFINE m == [wallet |-> sdk.info.wallet, init |-> sdk.info.init,
                     payload |-> sdk.claim.payload, amount |-> 0]
    <3>1. outbox' = Append(outbox, m)
      BY <2>1 DEF SdkSend, SendMessage
    <3>2. outbox'[Len(outbox')] = m
      BY <1>4, <3>1
    <3>3. sdk.claim.payload = Nothing /\ m.wallet = sdk.info.wallet
      BY <3>2
    <3>4. ~sdk.info.needsDeploy
      BY <2>1, <3>3 DEF SdkSend, NeedsClaim
    <3> QED BY <2>1, <3>2, <3>3, <3>4 DEF SdkSend, Prepared, SdkInv
  <2> QED BY <1>2, <1>5, <2>1 DEF SdkCalls, SdkStep, SdkStart, SdkReply, SdkWallet, SdkGiveUp
<1>6. CASE PageCalls
  <2>1. CASE Submit
    <3>1. CASE NeedsMintlessClaim(page.entry)
      BY <1>2, <2>1, <3>1 DEF Submit
    <3>2. CASE ~NeedsMintlessClaim(page.entry)
      <4> DEFINE m == [wallet |-> page.entry.wallet, init |-> Nothing, payload |-> Nothing,
                       amount |-> page.amount]
      <4>1. outbox' = Append(outbox, m) /\ page' = DonePage /\ page.step = "confirm"
        BY <2>1, <3>2 DEF Submit, Broadcast, SendMessage
      <4>2. outbox'[Len(outbox')] = m
        BY <1>4, <4>1
      <4>3. page' # page
        BY <4>1 DEF DonePage, EmptyPage
      <4>4. page.entry \in Entry /\ EntryOK(page.entry)
        BY <4>1 DEF PageInv
      <4>5. ~page.entry.rmj \/ page.entry.active
        BY <3>2, <4>4 DEF NeedsMintlessClaim, Entry
      <4> QED BY <4>2, <4>3, <4>4, <4>5 DEF EntryOK
    <3> QED BY <3>1, <3>2
  <2>2. CASE SubmitSend
    <3> DEFINE m == [wallet |-> page.entry.wallet, init |-> reply["page"].init,
                     payload |-> reply["page"].payload, amount |-> page.amount]
    <3>1. outbox' = Append(outbox, m) /\ reply["page"].payload # Nothing
      BY <2>2 DEF SubmitSend, Broadcast, SendMessage
    <3>2. outbox'[Len(outbox')] = m
      BY <1>4, <3>1
    <3> QED BY <3>1, <3>2
  <2> QED BY <1>2, <1>6, <2>1, <2>2
          DEF PageCalls, PageStep, RefreshList, RefreshActive, FetchRetry, RefreshPending,
              GoConfirm, BackToForm, SubmitRefused, LeavePage
<1>7. CASE Land \/ Expire
  BY <1>3, <1>7 DEF Land, Expire
<1>8. ASSUME ~SdkCalls, ~PageCalls, ~Land, ~Expire
      PROVE  UNCHANGED outbox
  BY <1>8 DEF Next, vars, Earn, ApplyUpdates, AdvanceEpoch, WriteEpoch, Restart, Answers,
              UpdateSigner, ClockTick, clientVars
<1> QED BY <1>2, <1>5, <1>6, <1>7, <1>8

(* A transfer without a claim goes to a wallet that is there, however old the page's     *)
(* entry and whatever failed while it was read, unless the list had the jetton without   *)
(* its custom_payload_api_uri.                                                           *)
THEOREM PlainTransfersArrive == Spec => PlainTransferFindsWallet
<1>1. Inv /\ [Next]_vars =>
        [Len(outbox') > Len(outbox) =>
           LET m == outbox'[Len(outbox')] IN
           m.payload = Nothing =>
               m.wallet \in deployed \/ (page' # page /\ ~page.entry.rmj)]_vars
  BY PlainSend
<1> QED BY <1>1, InitInv, NextInv, PTL DEF Spec, PlainTransferFindsWallet

-----------------------------------------------------------------------------
(* Refinement of the claim ledger *)

(* A wallet's credit is its already_claimed.                                             *)
claimedMap == [s \in Signers |-> jettonWallet[s].alreadyClaimed]

Ledger == INSTANCE ClaimLedger WITH
    Wallets <- Signers, ownerOf <- [s \in Signers |-> Me],
    claimed <- claimedMap

(* Earning adds one to what an owner has been credited. *)
LEMMA EarnRefines ==
    ASSUME BackendInv, NEW p \in Owners, Earn(p)
    PROVE  Ledger!Earn(p)
<1>1. earned' = [earned EXCEPT ![p] = earned[p] + 1] /\ earned[p] \in Nat
  BY DEF Earn, BackendInv
<1>2. earned'[p] = earned[p] + 1
  BY <1>1 DEF BackendInv
<1>3. claimedMap' = claimedMap
  BY DEF Earn, chainVars, claimedMap
<1>4. earned' = [earned EXCEPT ![p] = earned'[p]] /\ earned'[p] > earned[p]
  <2> DEFINE n == earned'[p]
  <2>1. n = earned[p] + 1
    BY <1>2
  <2>2. earned' = [earned EXCEPT ![p] = n]
    BY <1>1, <2>1
  <2> QED BY <1>1, <2>1, <2>2
<1> QED BY <1>3, <1>4 DEF Ledger!Earn

(* What a message that runs leaves as already_claimed is not less than before. *)
LEMMA AfterClaimGrows ==
    ASSUME jettonWallet \in [Signers -> WalletStorage], NEW m \in JettonMessage, Runs(m)
    PROVE  AfterClaim(m).alreadyClaimed >= jettonWallet[m.wallet].alreadyClaimed
<1> DEFINE w == jettonWallet[m.wallet]
<1>1. m.wallet \in Signers /\ w \in WalletStorage
  BY DEF JettonMessage
<1>2. CASE m.payload = Nothing
  <2>1. AfterClaim(m) = w
    BY <1>2 DEF AfterClaim
  <2>2. w.alreadyClaimed \in Nat
    BY <1>1 DEF WalletStorage
  <2> QED BY <2>1, <2>2
<1>3. CASE m.payload # Nothing
  BY <1>3 DEF AfterClaim, ApplyMerkleClaim, Runs, Claims, ClaimAccepted, CheckMerkleProof,
              MerkleProofRoot
<1> QED BY <1>2, <1>3

(* A message that lands is one claim, or none. *)
LEMMA LandRefines ==
    ASSUME Inv, Land
    PROVE  [Ledger!Next]_<<earned, claimedMap>>
<1> DEFINE m == Head(outbox)
           a == m.wallet
           v == AfterClaim(m)
           w == [v EXCEPT !.balance = @ - m.amount]
<1> USE DEF Inv
<1>1. m \in JettonMessage /\ MessageOK(m)
  <2>1. outbox \in Seq(JettonMessage) /\ outbox # <<>>
    BY DEF Land, OutboxInv
  <2>2. m = outbox[1] /\ 1 \in 1..Len(outbox) /\ outbox[1] \in JettonMessage
    BY <2>1
  <2> QED BY <2>2 DEF OutboxInv
<1>2. a \in Signers
  BY <1>1 DEF JettonMessage
<1>3. earned' = earned
  BY DEF Land, storeVars
<1>4. CASE ~Runs(m)
  BY <1>3, <1>4 DEF Land, claimedMap
<1>5. CASE Runs(m)
  <2>1. /\ jettonWallet' = [jettonWallet EXCEPT ![a] = w]
        /\ jettonWallet \in [Signers -> WalletStorage]
    BY <1>5 DEF Land, WalletInv
  <2>2. /\ w \in WalletStorage /\ w.alreadyClaimed <= earned[Me]
    BY <1>1, <1>5, RunOK
  <2>3. w.alreadyClaimed >= jettonWallet[a].alreadyClaimed
    <3>1. v.alreadyClaimed >= jettonWallet[a].alreadyClaimed
      BY <1>1, <1>5, <2>1, AfterClaimGrows
    <3>2. w.alreadyClaimed = v.alreadyClaimed
      BY DEF AfterClaim, ApplyMerkleClaim
    <3> QED BY <3>1, <3>2
  <2> HIDE DEF w, v, a
  <2>4. claimedMap'[a] = w.alreadyClaimed /\ claimedMap[a] = jettonWallet[a].alreadyClaimed
    BY <1>2, <2>1 DEF claimedMap
  <2>5. \A s \in Signers \ {a} : claimedMap'[s] = claimedMap[s]
    BY <2>1 DEF claimedMap
  <2>6. /\ claimedMap' = [s \in Signers |-> claimedMap'[s]]
        /\ claimedMap = [s \in Signers |-> claimedMap[s]]
    BY DEF claimedMap
  <2>7. claimedMap' = [claimedMap EXCEPT ![a] = claimedMap'[a]]
    BY <2>5, <2>6
  <2>8. w.alreadyClaimed \in Nat /\ jettonWallet[a].alreadyClaimed \in Nat
    BY <1>2, <2>1, <2>2 DEF WalletStorage
  <2>9. CASE w.alreadyClaimed = jettonWallet[a].alreadyClaimed
    <3>1. claimedMap' = claimedMap
      BY <2>4, <2>5, <2>6, <2>9
    <3> QED BY <1>3, <3>1
  <2>10. CASE w.alreadyClaimed > jettonWallet[a].alreadyClaimed
    <3>1. [s \in Signers |-> Me][a] = Me
      BY <1>2
    <3>2. Ledger!Claim(a)
      BY <1>3, <2>2, <2>4, <2>7, <2>10, <3>1 DEF Ledger!Claim
    <3> QED BY <1>2, <3>2 DEF Ledger!Next
  <2> QED BY <2>3, <2>8, <2>9, <2>10
<1> QED BY <1>4, <1>5

LEMMA InitLedger == Init => Ledger!Init
<1> SUFFICES ASSUME Init PROVE Ledger!Init
  OBVIOUS
<1>2. \A s \in Signers : jettonWallet[s].alreadyClaimed = 0
  BY DEF Init, StateInit
<1> QED BY <1>2 DEF Init, Ledger!Init, claimedMap

LEMMA NextLedger == Inv /\ [Next]_vars => [Ledger!Next]_<<earned, claimedMap>>
<1> SUFFICES ASSUME Inv, [Next]_vars
             PROVE  [Ledger!Next]_<<earned, claimedMap>>
  OBVIOUS
<1>1. ASSUME UNCHANGED <<earned, jettonWallet>>
      PROVE  UNCHANGED <<earned, claimedMap>>
  BY <1>1 DEF claimedMap
<1>2. ASSUME NEW o \in Owners, Earn(o)
      PROVE  Ledger!Next
  BY <1>2, EarnRefines DEF Inv, Ledger!Next
<1>3. ASSUME \/ \E O \in SUBSET Earners : ApplyUpdates(O)
             \/ AdvanceEpoch \/ WriteEpoch \/ (\E k \in Signers : Restart(k))
      PROVE  UNCHANGED <<earned, jettonWallet>>
  BY <1>3 DEF ApplyUpdates, AdvanceEpoch, WriteEpoch, Restart, storeVars, chainVars
<1>4. ASSUME NEW c \in Clients, Answers(c)
      PROVE  UNCHANGED <<earned, jettonWallet>>
  BY <1>4 DEF Answers, AnswerStep, storeVars, chainVars
<1>5. ASSUME SdkCalls \/ PageCalls
      PROVE  UNCHANGED <<earned, jettonWallet>>
  BY <1>5 DEF SdkCalls, PageCalls, storeVars, chainVars
<1>6. ASSUME \/ Expire \/ ClockTick \/ (\E s \in Signers : UpdateSigner(s))
             \/ UNCHANGED vars
      PROVE  UNCHANGED <<earned, jettonWallet>>
  BY <1>6 DEF Expire, ClockTick, UpdateSigner, vars, storeVars, chainVars
<1> QED BY <1>1, <1>2, <1>3, <1>4, <1>5, <1>6, LandRefines DEF Next

(* The Proof API, both clients and the chain together implement the claim ledger:        *)
(* however answers, messages and restarts interleave, what happens to an owner's wallets *)
(* is a sequence of claims, each within the earnings of its moment.                      *)
THEOREM FlowRefinesLedger == Spec => Ledger!Spec
<1>1. Inv /\ [Next]_vars => [Ledger!Next]_<<earned, claimedMap>>
  BY NextLedger
<1> QED BY <1>1, InitLedger, InitInv, NextInv, PTL DEF Spec, Ledger!Spec
=============================================================================
