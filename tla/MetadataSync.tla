----------------------------- MODULE MetadataSync -----------------------------
(***************************************************************************)
(* The metadata URI of the master on chain and who changes it:             *)
(* rootUpdater.ts sends change_content(?v=epoch) with a new root,          *)
(* ComplianceTab.tsx has the operator send the message that                *)
(* GET sync-metadata prepared, and Toncenter reads the metadata again when *)
(* the URI changes.  RootUpdater is about the roots themselves, its        *)
(* failures and what it stores; here the callers of syncWithState only     *)
(* carry what the URI depends on.                                          *)
(*                                                                         *)
(* ADMIN_MNEMONIC is the phrase of the operator's wallet, so the updater's *)
(* transfers and the operator's compete for one seqno.  A root is a number *)
(* that grows with the live tree; 0 is the empty tree and merkle_root 0.   *)
(***************************************************************************)
EXTENDS Minter

CONSTANTS
    MaxTree,            \* bound on the changes of the tree
    MaxEpoch,           \* bound on the epochs of the database
    MaxTransfers,       \* bound on the transfers that the admin wallet takes
    MaxPending          \* bound on the signed transfers that may land

VARIABLES
    env,                \* JETTON_MASTER_ADDRESS of the running backend
    tree,               \* state.tree
    dbEpoch,            \* state.epoch
    chain,              \* the master's root, epoch and content
    held,               \* roots the master has had
    seqno,              \* of the admin wallet
    transfers,          \* signed transfers that may still land
    inbox,              \* messages on their way to the master
    sync,               \* caller -> call of syncWithState in progress
    syncing,            \* RootUpdater.running
    indexer             \* what Toncenter has cached of the metadata

backendVars == <<env, tree, dbEpoch>>
chainVars == <<chain, held, seqno, transfers, inbox>>
metadataVars == <<backendVars, chainVars, sync, syncing, indexer>>

ASSUME MetadataAssumption ==
    /\ MaxTree \in Nat /\ MaxEpoch \in Nat /\ MaxTransfers \in Nat /\ MaxPending \in Nat
    /\ Nothing \notin Nat

Callers == {"tick", "admin"}
Root == Nat
NoVersion == -1         \* a URI without ?v=
\* disturbed: the operator has set it, or a sync that others had overtaken set it back.
Uri == [v : Nat \cup {NoVersion}, disturbed : BOOLEAN]
SyncCall == [pc : {"read", "uri", "send"}, root : Root, epoch : Nat, bump : BOOLEAN]
Commit == [root : Root, epoch : Nat]
Transfer == [seqno : Nat, commit : Commit \cup {Nothing}, content : Nat \cup {Nothing}]
Message == [root : Root, epoch : Nat] \cup [v : Nat, by : {"updater", "operator"}]
Cached == [uri : Nat \cup {NoVersion}, tag : Nat \X Root, dump : Root]

ASSUME MetadataNothing ==
    Nothing \notin SyncCall /\ Nothing \notin Commit /\ Nothing \notin Cached

MetadataInit ==
    /\ env = Nothing /\ tree = 0 /\ dbEpoch = 0
    /\ chain = [root |-> 0, epoch |-> 0, uri |-> [v |-> NoVersion, disturbed |-> FALSE]]
    /\ held = {} /\ seqno = 0 /\ transfers = {} /\ inbox = <<>>
    /\ sync = [s \in Callers |-> Nothing] /\ syncing = FALSE
    /\ indexer = Nothing

MetadataTypeOK ==
    /\ env \in Master \cup {Nothing}
    /\ tree \in Root /\ dbEpoch \in Nat
    /\ chain \in [root : Root, epoch : Nat, uri : Uri]
    /\ held \subseteq Root /\ seqno \in Nat
    /\ transfers \subseteq Transfer /\ inbox \in Seq(Message)
    /\ sync \in [Callers -> SyncCall \cup {Nothing}] /\ syncing \in BOOLEAN
    /\ indexer \in Cached \cup {Nothing}

-----------------------------------------------------------------------------
(* The backend *)

Deployed == env # Nothing /\ env \in masters

\* recordAction changes the live tree.
Earn ==
    /\ env # Nothing /\ tree < MaxTree
    /\ tree' = tree + 1
    /\ UNCHANGED <<env, dbEpoch, chainVars, sync, syncing, indexer>>

\* syncWithState up to its first await.
SyncStart(s) ==
    sync' = IF tree = 0 \/ syncing THEN sync
            ELSE [sync EXCEPT ![s] = [pc |-> "read", root |-> tree, epoch |-> 0, bump |-> FALSE]]

\* A tick of the tree builder, with or without a new epoch.  Without one it stands for
\* scheduleInitialSync too, whose call is the same.
Tick ==
    /\ env # Nothing /\ sync["tick"] = Nothing /\ chain.root # tree
    /\ dbEpoch' \in {dbEpoch, dbEpoch + 1} /\ dbEpoch' <= MaxEpoch
    /\ SyncStart("tick")
    /\ UNCHANGED <<env, tree, chainVars, syncing, indexer>>

SyncAt(s, pc) == sync[s] # Nothing /\ sync[s].pc = pc
Return(s) == sync' = [sync EXCEPT ![s] = Nothing] /\ syncing' = FALSE

\* readOnChainMerkle; running is set only after it.  The admin route forces.
SyncRead(s) ==
    /\ SyncAt(s, "read")
    /\ IF s # "admin" /\ chain.root = sync[s].root
       THEN sync' = [sync EXCEPT ![s] = Nothing] /\ UNCHANGED syncing
       ELSE /\ sync' = [sync EXCEPT ![s].pc = "uri", ![s].epoch = chain.epoch + 1]
            /\ syncing' = TRUE
    /\ UNCHANGED <<backendVars, chainVars, indexer>>

\* Mutation of NeedsMetadataBump: compared with the epoch of the database.
NeedsMetadataBumpOfDatabase(s) == chain.uri.v # dbEpoch

\* metadataUriEpoch(onChainMetaUri) !== broadcastEpoch.
NeedsMetadataBump(s) == chain.uri.v # sync[s].epoch

\* readOnChainMetadataUri: a URI that cannot be read is none, and is bumped.
SyncUri(s) ==
    /\ SyncAt(s, "uri")
    /\ \E bump \in {NeedsMetadataBump(s), TRUE} :
          sync' = [sync EXCEPT ![s].pc = "send", ![s].bump = bump]
    /\ UNCHANGED <<backendVars, chainVars, syncing, indexer>>

\* sendEpochCommit: one transfer with the root and, where needed, the URI.  The wait for
\* the root that follows, which may find it or give up at any time, changes only kv.
SyncSend(s) ==
    /\ SyncAt(s, "send")
    /\ Cardinality(transfers) < MaxPending
    /\ Return(s)
    /\ transfers' = transfers \cup
         (IF Deployed
          THEN {[seqno |-> seqno,
                 commit |-> [root |-> sync[s].root, epoch |-> sync[s].epoch],
                 content |-> IF sync[s].bump THEN sync[s].epoch ELSE Nothing]}
          ELSE {})
    /\ UNCHANGED <<backendVars, chain, held, seqno, inbox, indexer>>

SyncStep == \E s \in Callers : SyncRead(s) \/ SyncUri(s) \/ SyncSend(s)

-----------------------------------------------------------------------------
(* The chain *)

\* The wallet takes one transfer with its seqno; the others with it are void.
WalletTakes(t) ==
    /\ t \in transfers /\ t.seqno = seqno /\ seqno < MaxTransfers
    /\ seqno' = seqno + 1
    /\ transfers' = {u \in transfers : u.seqno > seqno}
    /\ inbox' = inbox
         \o (IF t.commit = Nothing THEN <<>> ELSE <<t.commit>>)
         \o (IF t.content = Nothing THEN <<>>
             ELSE <<[v |-> t.content,
                     by |-> IF t.commit = Nothing THEN "operator" ELSE "updater"]>>)
    /\ UNCHANGED <<backendVars, chain, held, sync, syncing, indexer>>

\* No transfer of the set is taken before its valid_until.
Expire ==
    /\ transfers # {}
    /\ transfers' = {}
    /\ UNCHANGED <<backendVars, chain, held, seqno, inbox, sync, syncing, indexer>>

IsCommit(m) == "root" \in DOMAIN m

\* update_merkle_root, only forward, and not while the admin has the master paused,
\* which may be at any time.
UpdateRoot(m) ==
    \/ UNCHANGED <<chain, held>>
    \/ /\ m.epoch > chain.epoch
       /\ chain' = [chain EXCEPT !.root = m.root, !.epoch = m.epoch]
       /\ held' = held \cup {m.root}

\* change_content is guarded by the sender alone.
ChangeContent(m) ==
    /\ chain' = [chain EXCEPT !.uri =
         [v |-> m.v, disturbed |-> \/ @.disturbed \/ m.by = "operator"
                                   \/ m.v < chain.epoch \/ m.v < @.v]]
    /\ UNCHANGED held

MasterReceives ==
    /\ inbox # <<>>
    /\ IF IsCommit(Head(inbox)) THEN UpdateRoot(Head(inbox)) ELSE ChangeContent(Head(inbox))
    /\ inbox' = Tail(inbox)
    /\ UNCHANGED <<backendVars, seqno, transfers, sync, syncing, indexer>>

-----------------------------------------------------------------------------
(* The metadata and its readers *)

\* Mutation of DumpTag: the dump URI carries the epoch alone.
DumpTagOfEpoch == <<IF registry[env] # "mintless" THEN dbEpoch ELSE 0, 0>>

\* metadataForMaster: ?epoch=&root= of the live tree, unless the master is registered
\* as mintless or no epoch has begun.
DumpTag ==
    IF registry[env] # "mintless" /\ dbEpoch > 0 THEN <<dbEpoch, tree>> ELSE <<0, 0>>

\* Toncenter reads the metadata when the URI on chain changes, and the dump when its URI
\* in the metadata does.
Reindex ==
    /\ Deployed
    /\ indexer # Nothing => indexer.uri # chain.uri.v
    /\ indexer' = [uri |-> chain.uri.v, tag |-> DumpTag,
                   dump |-> IF indexer # Nothing /\ indexer.tag = DumpTag THEN indexer.dump
                            ELSE tree]
    /\ UNCHANGED <<backendVars, chainVars, sync, syncing>>

\* getToncenterIndexerStatus: cacheStale and recommendedAction.  Whether Toncenter has
\* accepted the dump that it has (mintlessInfoIndexed) is its own choice.
CacheStale == indexer = Nothing \/ chain.uri.v \notin {NoVersion, indexer.uri}
MayBeIndexed == indexer # Nothing /\ indexer.dump # 0
RecommendedAction(indexed) ==
    IF indexed THEN IF CacheStale THEN "wait" ELSE "ready"
    ELSE IF CacheStale THEN "bump_metadata_uri" ELSE "request_toncenter_indexing"

\* Mutation of SyncMetadata: the URI on chain is set once more.
SyncMetadataOfUri(indexed) == IF indexed THEN Nothing ELSE chain.uri.v

\* GET sync-metadata: the ?v= of the message prepared for the operator, if one is needed.
SyncMetadata(indexed) ==
    IF chain.uri.v # dbEpoch
       \/ RecommendedAction(indexed) \in {"bump_metadata_uri", "request_toncenter_indexing"}
    THEN dbEpoch ELSE Nothing

MetadataStep ==
    \/ Earn \/ Tick \/ SyncStep
    \/ \E t \in transfers : WalletTakes(t)
    \/ Expire \/ MasterReceives \/ Reindex

-----------------------------------------------------------------------------

\* As long as the operator leaves the URI to the updater and no sync that others had
\* overtaken sets it back, its ?v= never stays behind the epoch of the root: whatever roots
\* are refused in a pause, transfers lost and URIs unreadable, a sync that skips
\* change_content skips it rightly.
MetadataNeverLags ==
    inbox = <<>> /\ ~chain.uri.disturbed =>
        chain.uri.v >= chain.epoch \/ chain.epoch = 0
=============================================================================
