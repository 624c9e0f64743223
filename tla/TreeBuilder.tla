----------------------------- MODULE TreeBuilder -----------------------------
(***************************************************************************)
(* backend/src/treeBuilder.ts: tick, with applyUpdates, advanceEpoch and   *)
(* hydrate of backend/src/state.ts and listActiveSince of the stores.      *)
(*                                                                         *)
(* tick suspends at every store and RPC call; tick is the call in progress *)
(* (there is one: running) and its pc names what it waits for.  Reads of   *)
(* kv keys that only tick itself writes are part of the step before.       *)
(***************************************************************************)
EXTENDS RootUpdater

CONSTANTS
    MaxEpoch,           \* ticks occur up to this epoch while time goes on
    MaxTime,            \* bound on the clock
    NoRow               \* the user has no row in users

VARIABLES
    users,              \* table users: address -> row
    lastTap,            \* address -> MAX(created_at) of its tap_events
    epoch,              \* AirdropState.epoch
    tick,               \* the call of tick in progress
    clock               \* unix time

updaterVars == <<sync, syncing, master, sent>>

ASSUME TreeBuilderAssumption == MaxEpoch \in Nat /\ MaxTime \in Nat

Row == [amount : Nat, banned : BOOLEAN]
Kv == [epoch : Nat, lastEpochAt : Nat, committedRoot : Tree \cup {NoRoot}]

\* active is what listActiveSince returned, root and committed what the code
\* compares, now the time that becomes last_epoch_at; each is cleared after use.
TickCall == [pc : {"active", "bootstrap", "apply", "idle", "committed", "lag", "advance",
                   "insert", "epochAt", "sync"},
             force : BOOLEAN, active : [Users -> Nat \cup {NoRow}], root : Tree,
             committed : Tree \cup {NoRoot}, now : Nat]

ASSUME NoCallAssumption == Idle \notin TickCall /\ NoRow \notin Row \cup Nat

TreeBuilderInit ==
    /\ users = [u \in Users |-> NoRow]
    /\ lastTap = [u \in Users |-> 0]
    /\ kv = [epoch |-> 0, lastEpochAt |-> 0, committedRoot |-> NoRoot]
    /\ epochs = [e \in {} |-> NoRoot]
    /\ tree = EmptyTree
    /\ epoch = 0
    /\ tick = Idle
    /\ clock = 0

TickAt(pc) == tick # Idle /\ tick.pc = pc
TickGoto(pc) == tick' = [tick EXCEPT !.pc = pc]
TickReturn == tick' = Idle

NoOne == [u \in Users |-> NoRow]

\* tick: the running flag, then setKv and getKv of keys nobody else writes.
TickStart(force) ==
    /\ tick = Idle
    /\ epoch < MaxEpoch \/ (clock = MaxTime /\ ~force)
    /\ tick' = [pc |-> "active", force |-> force, active |-> NoOne, root |-> EmptyTree,
                committed |-> NoRoot, now |-> 0]
    /\ UNCHANGED <<users, lastTap, tree, kv, epochs, epoch, clock, failures, updaterVars>>

\* Mutation of ActiveSince: banned users are listed.
ActiveSinceAll(since) ==
    [u \in Users |-> IF users[u] # NoRow /\ lastTap[u] >= since
                     THEN users[u].amount ELSE NoRow]

\* listActiveSince: users that are not banned with a tap since then.
ActiveSince(since) ==
    [u \in Users |-> IF users[u] # NoRow /\ ~users[u].banned /\ lastTap[u] >= since
                     THEN users[u].amount ELSE NoRow]

\* The users active since last_epoch_at; at epoch 0 without any, all users.
TickActive ==
    /\ TickAt("active") \/ TickAt("bootstrap")
    /\ LET active == ActiveSince(IF tick.pc = "active" THEN kv.lastEpochAt ELSE 0) IN
       tick' = [tick EXCEPT !.active = active, !.pc =
                  CASE active # NoOne \/ tick.force -> "apply"
                    [] active = NoOne /\ ~tick.force /\ tick.pc = "active" /\ epoch = 0
                         -> "bootstrap"
                    [] OTHER -> "idle"]
    /\ UNCHANGED <<users, lastTap, tree, kv, epochs, epoch, clock, failures, updaterVars>>

\* Mutation of Applied: users without a row get a leaf.
AppliedAll == [u \in Users |-> [amount |-> tick.active[u], renewed |-> clock]]

\* applyUpdates: the snapshot replaces leaves that are there now.
Applied ==
    [u \in Users |-> IF tick.active[u] = NoRow THEN tree[u]
                     ELSE [amount |-> tick.active[u], renewed |-> clock]]

TickApply ==
    /\ TickAt("apply")
    /\ tree' = Applied
    /\ tick' = [tick EXCEPT !.root = tree', !.active = NoOne, !.pc = "committed"]
    /\ UNCHANGED <<users, lastTap, kv, epochs, epoch, clock, failures, updaterVars>>

\* getKv last_committed_root.
TickCommitted ==
    /\ TickAt("committed")
    /\ tick' = [tick EXCEPT !.committed = kv.committedRoot, !.pc = "lag"]
    /\ UNCHANGED <<users, lastTap, tree, kv, epochs, epoch, clock, failures, updaterVars>>

\* The answer of needsOnChainSync, about the tree as it is now.  An RPC failure
\* counts as a lag.
OnChainLag(lag) ==
    \/ lag = (tree # EmptyTree /\ master.root # tree) /\ UNCHANGED failures
    \/ lag /\ tree # EmptyTree /\ Fail(RpcFails)

\* Skip, or advance the epoch in memory.
TickLag ==
    /\ TickAt("lag")
    /\ \E lag \in BOOLEAN :
         /\ OnChainLag(lag)
         /\ IF ~tick.force /\ tick.root = tick.committed /\ ~lag
            THEN TickReturn /\ UNCHANGED epoch
            ELSE /\ tick' = [tick EXCEPT !.committed = NoRoot, !.pc = "advance"]
                 /\ epoch' = epoch + 1
    /\ UNCHANGED <<users, lastTap, tree, kv, epochs, clock, updaterVars>>

\* Mutation of WriteEpoch: the epoch before is written.
WriteEpochBefore == kv' = [kv EXCEPT !.epoch = epoch - 1] /\ UNCHANGED epochs

\* advanceEpoch: setKv current_epoch; then the code reads the clock.
WriteEpoch == kv' = [kv EXCEPT !.epoch = epoch] /\ UNCHANGED epochs

TickAdvance ==
    /\ TickAt("advance")
    /\ WriteEpoch
    /\ tick' = [tick EXCEPT !.now = clock, !.pc = "insert"]
    /\ UNCHANGED <<users, lastTap, tree, epoch, clock, failures, updaterVars>>

\* insertEpoch; epoch is the primary key.
InsertEpoch ==
    /\ epoch \notin DOMAIN epochs
    /\ epochs' = [e \in DOMAIN epochs \cup {epoch} |->
                    IF e = epoch THEN [root |-> tick.root, committed |-> FALSE] ELSE epochs[e]]
    /\ UNCHANGED kv

TickInsert ==
    /\ TickAt("insert")
    /\ IF epoch \in DOMAIN epochs
       THEN TickReturn /\ UNCHANGED <<kv, epochs>>
       ELSE /\ InsertEpoch
            /\ tick' = [tick EXCEPT !.root = EmptyTree, !.pc = "epochAt"]
    /\ UNCHANGED <<users, lastTap, tree, epoch, clock, failures, updaterVars>>

\* setKv last_epoch_at, then syncWithState.
WriteEpochAt == kv' = [kv EXCEPT !.lastEpochAt = tick.now] /\ UNCHANGED epochs

TickEpochAt ==
    /\ TickAt("epochAt")
    /\ WriteEpochAt
    /\ SyncWithState("tick")
    /\ tick' = [tick EXCEPT !.now = 0, !.force = FALSE, !.pc = "sync"]
    /\ UNCHANGED <<users, lastTap, tree, epoch, clock, master, sent, failures>>

\* Nobody active: needsOnChainSync, and syncWithState if the chain lags.
TickIdle ==
    /\ TickAt("idle")
    /\ \E lag \in BOOLEAN :
         /\ OnChainLag(lag)
         /\ IF lag THEN SyncWithState("tick") ELSE UNCHANGED <<sync, syncing>>
    /\ TickGoto("sync")
    /\ UNCHANGED <<users, lastTap, tree, kv, epochs, epoch, clock, master, sent>>

TickEnd ==
    /\ TickAt("sync") /\ sync["tick"] = Idle
    /\ TickReturn
    /\ UNCHANGED <<users, lastTap, tree, kv, epochs, epoch, clock, failures, updaterVars>>

\* A store call throws; with Postgres its effect may be there.
TickStoreFails ==
    /\ tick # Idle
    /\ Fail(StoreFails)
    /\ TickReturn
    /\ \/ /\ tick.pc \in {"active", "bootstrap", "committed", "advance", "insert", "epochAt"}
          /\ UNCHANGED <<kv, epochs>>
       \/ Interleaved /\ tick.pc = "advance" /\ WriteEpoch
       \/ Interleaved /\ tick.pc = "insert" /\ InsertEpoch
       \/ Interleaved /\ tick.pc = "epochAt" /\ WriteEpochAt
    /\ UNCHANGED <<users, lastTap, tree, epoch, clock, updaterVars>>

TickStep ==
    \/ TickActive \/ TickApply \/ TickCommitted \/ TickLag \/ TickAdvance
    \/ TickInsert \/ TickEpochAt \/ TickIdle \/ TickEnd
    \/ TickStoreFails
=============================================================================
