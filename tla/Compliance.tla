------------------------------ MODULE Compliance ------------------------------
(***************************************************************************)
(* compliance.ts: runCompliance, and the page that asks for its report,    *)
(* examples/minter/src/ComplianceTab.tsx.                                  *)
(*                                                                         *)
(* The report compares what a dozen requests return one after the other    *)
(* with the root that the tree had when it began.  What it learns on the   *)
(* way is a record, check, whose pc names the request in progress.  An     *)
(* answer that, once possible, stays possible is chosen at the end; checks *)
(* that pass always are left out.                                          *)
(***************************************************************************)
EXTENDS MetadataSync

VARIABLES
    check,              \* runCompliance in progress
    page                \* what ComplianceTab shows, and the button in progress

Check == [pc : {"merkle", "rest"}, root : Root, onChain : Root \cup {Nothing}]
Page == [busy : {"no", "refresh", "sync", "bump"}, bump : Nat \cup {Nothing}]

ASSUME ComplianceNothing == Nothing \notin Check

ComplianceInit ==
    /\ check = Nothing
    /\ page = [busy |-> "no", bump |-> Nothing]

ComplianceTypeOK == check \in Check \cup {Nothing} /\ page \in Page

-----------------------------------------------------------------------------
(* The checks of the report *)

\* The answers besides the root: the dump hashes to the root; Toncenter has the jetton,
\* has its metadata, has a dump URI that serves the live tree, has mintless_info for the
\* owner; TonAPI has the jetton, lists a balance; our routes are fine, a claim is served.
Answers == [dump : BOOLEAN, indexed : BOOLEAN, cached : BOOLEAN, tcDump : BOOLEAN,
            info : BOOLEAN, tonapi : BOOLEAN, listed : BOOLEAN, api : BOOLEAN, claim : BOOLEAN]

\* Mutation of MerkleOk: the branch "verified via merkle-dump BOC" is taken when the
\* get-method cannot be read.
MerkleOkByDump(c, a) ==
    \/ c.onChain \notin {Nothing, 0} /\ c.onChain = c.root
    \/ c.onChain = Nothing /\ a.dump

\* onchain.merkle, rolling.onchain_root and tc.merkle.  A root that cannot be read is ""
\* and normalised to "0", so that the branch before the one of the dump takes it.
MerkleOk(c, a) == c.onChain \notin {Nothing, 0} /\ c.onChain = c.root

UnclaimedVisible(a) == a.info \/ (a.claim /\ a.dump /\ a.tcDump)
UriOnChain(a) == a.cached \/ (a.indexed /\ a.api) \/ (a.tcDump /\ a.dump)

OnChainGroup(c, a) == a.indexed /\ MerkleOk(c, a) /\ a.dump /\ a.tonapi
RollingGroup(c, a) == (dbEpoch > 0 \/ tree > 0) /\ MerkleOk(c, a)
OurApiGroup(a) == a.api /\ a.claim /\ a.dump
ToncenterGroup(c, a) ==
    a.cached /\ UriOnChain(a) /\ MerkleOk(c, a) /\ UnclaimedVisible(a)
TonapiGroup(a) == a.tonapi /\ (a.listed \/ UnclaimedVisible(a))

Summary(c, a) ==
    IF OnChainGroup(c, a) /\ RollingGroup(c, a) /\ OurApiGroup(a) /\ ToncenterGroup(c, a)
       /\ TonapiGroup(a)
    THEN "full"
    ELSE IF OurApiGroup(a) THEN "api" ELSE "partial"

-----------------------------------------------------------------------------
(* runCompliance *)

othersVars == <<minterVars, metadataVars>>

CheckAt(pc) == check # Nothing /\ check.pc = pc

\* Up to the first await: the root that everything is compared with.
StartCheck == [pc |-> "merkle", root |-> tree, onChain |-> Nothing]

\* fetchOnChainMerkleRoot.
ReadMerkle ==
    /\ CheckAt("merkle")
    /\ check' = [check EXCEPT !.pc = "rest", !.onChain = IF Deployed THEN chain.root
                                                         ELSE Nothing]
    /\ UNCHANGED <<othersVars, page>>

\* fetchJson retries and returns null in the end.
ReadMerkleFails ==
    /\ CheckAt("merkle")
    /\ check' = [check EXCEPT !.pc = "rest"]
    /\ UNCHANGED <<othersVars, page>>

\* What the answers can be by then.  The dump may have been read as the check began.
Possible(c, a) ==
    /\ a.dump => c.root # 0
    /\ a.indexed => Deployed
    /\ a.cached => a.indexed /\ indexer # Nothing
    /\ a.tcDump => a.cached /\ a.dump
    /\ a.claim => tree > 0
    /\ a.tonapi => Deployed
    /\ a.listed => a.tonapi /\ held # {}
    /\ a.info => MayBeIndexed

-----------------------------------------------------------------------------
(* ComplianceTab *)

MayClick == env # Nothing /\ page.busy = "no"

\* refreshAll, its requests in parallel: from here on the old answers are of no use.
StartRefresh == page' = [busy |-> "refresh", bump |-> Nothing] /\ check' = StartCheck

\* The button, and the page as it opens.
Refresh ==
    /\ MayClick
    /\ StartRefresh
    /\ UNCHANGED <<othersVars>>

\* The report is the last answer.  sync-metadata has answered too, or failed; the button
\* of the bump is enabled when one is needed.
FinishRefresh ==
    /\ page.busy = "refresh" /\ CheckAt("rest")
    /\ \E bump \in {Nothing} \cup {SyncMetadata(i) : i \in {FALSE, MayBeIndexed}} :
          page' = [busy |-> "no", bump |-> bump]
    /\ check' = Nothing
    /\ UNCHANGED <<othersVars>>

\* syncMerkleRoot: POST /api/v1/admin/sync-merkle-root.
SyncMerkleRoot ==
    /\ MayClick /\ sync["admin"] = Nothing
    /\ page' = [page EXCEPT !.busy = "sync"]
    /\ SyncStart("admin")
    /\ UNCHANGED <<minterVars, backendVars, chainVars, syncing, indexer, check>>

\* A root that landed, or none to commit, is answered with 200 and followed by a
\* refresh; anything else is an error.
SyncAnswered ==
    /\ page.busy = "sync" /\ sync["admin"] = Nothing
    /\ \/ StartRefresh
       \/ page' = [page EXCEPT !.busy = "no"] /\ UNCHANGED check
    /\ UNCHANGED <<othersVars>>

\* sendMetadataTx: the message of the last refresh, once the wallet signs it.
BumpMetadata ==
    /\ MayClick /\ page.bump # Nothing
    /\ page' = [page EXCEPT !.busy = "bump"]
    /\ UNCHANGED <<othersVars, check>>

BumpSigned ==
    /\ page.busy = "bump" /\ Cardinality(transfers) < MaxPending
    /\ transfers' = transfers \cup
         {[seqno |-> seqno, commit |-> Nothing, content |-> page.bump]}
    /\ page' = [page EXCEPT !.busy = "no"]
    /\ UNCHANGED <<minterVars, backendVars, chain, held, seqno, inbox, sync, syncing, indexer, check>>

BumpRejected ==
    /\ page.busy = "bump"
    /\ page' = [page EXCEPT !.busy = "no"]
    /\ UNCHANGED <<othersVars, check>>

PageStep ==
    \/ ReadMerkle \/ ReadMerkleFails
    \/ Refresh \/ FinishRefresh
    \/ SyncMerkleRoot \/ SyncAnswered \/ BumpMetadata \/ BumpSigned \/ BumpRejected

-----------------------------------------------------------------------------

\* A report with full marks, as one whose merkle checks alone pass, names a root that the
\* master has had, whatever is earned, committed, paused or unreadable while its requests
\* are under way.
ReportIsTrue ==
    CheckAt("rest") /\ check.root \notin held =>
        \A a \in Answers :
            Possible(check, a) => ~MerkleOk(check, a) /\ Summary(check, a) # "full"
=============================================================================
