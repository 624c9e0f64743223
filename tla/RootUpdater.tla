----------------------------- MODULE RootUpdater -----------------------------
(***************************************************************************)
(* backend/src/rootUpdater.ts and onChainMerkle.ts: needsOnChainSync and   *)
(* syncWithState, against a chain whose transactions land late or never.   *)
(*                                                                         *)
(* syncWithState is called by the tree builder, by the admin route and by  *)
(* a timer after startup.  A call suspends at every RPC and store call; it *)
(* is a record in sync whose pc names what it waits for.                   *)
(*                                                                         *)
(* A root stands for its tree.  The kv keys that only diagnostics read and *)
(* a paused master are left out; the metadata that is bumped with a root   *)
(* is the subject of MetadataSync.  The seqno of the admin wallet needs no *)
(* model: two messages with one seqno read the same on-chain epoch before  *)
(* either landed, so the master refuses the second.                        *)
(***************************************************************************)
EXTENDS Integers, FiniteSets

CONSTANTS
    Users,              \* addresses that act
    Callers,            \* callers of syncWithState that occur, of those below
    Interleaved,        \* TRUE: Postgres store, FALSE: SQLite store
    RpcFails,           \* whether RPC calls may fail
    StoreFails,         \* whether store calls may fail
    MaxFailures,        \* bound on failures
    Idle,               \* no call in progress
    NoLeaf,             \* the user has no leaf in the HashMap
    NoRoot              \* merkle_root 0, and last_committed_root not in kv

VARIABLES
    tree,               \* AirdropState.tree: address -> leaf
    kv,                 \* table kv
    epochs,             \* table epochs: epoch -> row
    sync,               \* caller -> call of syncWithState in progress
    syncing,            \* RootUpdater.running
    master,             \* root and epoch in the master's storage
    sent,               \* update_merkle_root messages that may still land
    failures            \* number of failures

ASSUME RootUpdaterAssumption ==
    /\ "tick" \in Callers /\ Callers \subseteq {"tick", "admin", "startup"}
    /\ Interleaved \in BOOLEAN /\ RpcFails \in BOOLEAN /\ StoreFails \in BOOLEAN
    /\ MaxFailures \in Nat

Leaf == [amount : Nat, renewed : Nat]
Tree == [Users -> Leaf \cup {NoLeaf}]
EmptyTree == [u \in Users |-> NoLeaf]

SyncCall == [pc : {"read", "send", "wait", "mark", "row"}, root : Tree, epoch : Nat]
Commit == [root : Tree, epoch : Nat]
EpochRow == [root : Tree, committed : BOOLEAN]

ASSUME NoneAssumption == Idle \notin SyncCall /\ NoLeaf \notin Leaf /\ NoRoot \notin Tree

RootUpdaterInit ==
    /\ sync = [s \in Callers |-> Idle]
    /\ syncing = FALSE
    /\ master = [root |-> NoRoot, epoch |-> 0]
    /\ sent = {}
    /\ failures = 0

\* Any failure that the bound still allows.
Fail(allowed) ==
    /\ allowed /\ failures < MaxFailures
    /\ failures' = failures + 1

-----------------------------------------------------------------------------
(* syncWithState *)

SyncAt(s, pc) == sync[s] # Idle /\ sync[s].pc = pc
SyncGoto(s, pc) == sync' = [sync EXCEPT ![s].pc = pc] /\ UNCHANGED syncing
Forced(s) == s = "admin"

\* Mutation of SyncReturn: running is not cleared (no finally).
SyncReturnStillRunning(s) == sync' = [sync EXCEPT ![s] = Idle] /\ UNCHANGED syncing

\* return before and after running is set; finally clears it.
SyncRefuse(s) == sync' = [sync EXCEPT ![s] = Idle] /\ UNCHANGED syncing
SyncReturn(s) == sync' = [sync EXCEPT ![s] = Idle] /\ syncing' = FALSE

\* Up to the first await: an empty tree or a running sync returns at once.
\* running is set only after the await.
SyncWithState(s) ==
    /\ sync' = IF tree = EmptyTree \/ syncing THEN sync
               ELSE [sync EXCEPT ![s] = [pc |-> "read", root |-> tree, epoch |-> 0]]
    /\ UNCHANGED syncing

BroadcastEpoch == master.epoch + 1

\* readOnChainMerkle: nothing to do, or on to the broadcast.
SyncRead(s) ==
    /\ SyncAt(s, "read")
    /\ IF ~Forced(s) /\ master.root = sync[s].root
       THEN SyncRefuse(s)
       ELSE /\ sync' = [sync EXCEPT ![s].pc = "send", ![s].epoch = BroadcastEpoch]
            /\ syncing' = TRUE
    /\ UNCHANGED <<tree, kv, epochs, master, sent, failures>>

SyncReadFails(s) ==
    /\ SyncAt(s, "read")
    /\ Fail(RpcFails)
    /\ SyncRefuse(s)
    /\ UNCHANGED <<tree, kv, epochs, master, sent>>

Message(s) == [root |-> sync[s].root, epoch |-> sync[s].epoch]

\* sendEpochCommit.
SyncSend(s) ==
    /\ SyncAt(s, "send")
    /\ sent' = sent \cup {Message(s)}
    /\ SyncGoto(s, "wait")
    /\ UNCHANGED <<tree, kv, epochs, master, failures>>

\* One of its RPC calls fails, before the broadcast or after it.
SyncSendFails(s) ==
    /\ SyncAt(s, "send")
    /\ Fail(RpcFails)
    /\ sent' \in {sent, sent \cup {Message(s)}}
    /\ SyncReturn(s)
    /\ UNCHANGED <<tree, kv, epochs, master>>

\* Mutation of Confirmed: the broadcast is taken for the commit.
ConfirmedAtOnce(s) == TRUE

\* waitForOnChainMerkle polls until the root is there, or gives up.
Confirmed(s) == master.root = sync[s].root /\ master.epoch >= sync[s].epoch

SyncConfirmed(s) ==
    /\ SyncAt(s, "wait")
    /\ Confirmed(s)
    /\ SyncGoto(s, "mark")
    /\ UNCHANGED <<tree, kv, epochs, master, sent, failures>>

SyncGiveUp(s) ==
    /\ SyncAt(s, "wait")
    /\ SyncReturn(s)
    /\ UNCHANGED <<tree, kv, epochs, master, sent, failures>>

\* setKv last_committed_root.
SyncMark(s) ==
    /\ SyncAt(s, "mark")
    /\ kv' = [kv EXCEPT !.committedRoot = sync[s].root]
    /\ SyncGoto(s, "row")
    /\ UNCHANGED <<tree, epochs, master, sent, failures>>

\* updateEpochCommitted, of the row with the number of the on-chain epoch.
SyncRow(s) ==
    /\ SyncAt(s, "row")
    /\ epochs' = [e \in DOMAIN epochs |->
                    IF e = sync[s].epoch THEN [epochs[e] EXCEPT !.committed = TRUE]
                    ELSE epochs[e]]
    /\ SyncReturn(s)
    /\ UNCHANGED <<tree, kv, master, sent, failures>>

SyncStoreFails(s) ==
    /\ SyncAt(s, "mark") \/ SyncAt(s, "row")
    /\ Fail(StoreFails)
    /\ SyncReturn(s)
    /\ UNCHANGED <<tree, kv, epochs, master, sent>>

\* The calls that nobody waits for: POST sync-merkle-root.
SyncAdmin ==
    /\ "admin" \in Callers
    /\ sync["admin"] = Idle
    /\ SyncWithState("admin")
    /\ UNCHANGED <<tree, kv, epochs, master, sent, failures>>

SyncStep(s) ==
    \/ SyncRead(s) \/ SyncReadFails(s) \/ SyncSend(s) \/ SyncSendFails(s)
    \/ SyncConfirmed(s) \/ SyncGiveUp(s)
    \/ SyncMark(s) \/ SyncRow(s) \/ SyncStoreFails(s)

-----------------------------------------------------------------------------
(* The chain *)

\* The master takes a root only under a higher epoch (807).
Land(m) ==
    /\ m \in sent
    /\ sent' = sent \ {m}
    /\ master' = IF m.epoch > master.epoch THEN m ELSE master
    /\ UNCHANGED <<tree, kv, epochs, sync, syncing, failures>>

\* A message that does not land before its valid_until.
Expire(m) ==
    /\ m \in sent
    /\ Fail(RpcFails)
    /\ sent' = sent \ {m}
    /\ UNCHANGED <<tree, kv, epochs, sync, syncing, master>>
=============================================================================
