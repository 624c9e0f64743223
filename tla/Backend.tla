------------------------------- MODULE Backend -------------------------------
(***************************************************************************)
(* The backend process: actions of users, the tree builder and the root    *)
(* updater over one store and one in-memory Airdrop HashMap, with restarts *)
(* of the process (backend/src/index.ts).                                  *)
(*                                                                         *)
(* recordAction is the subject of GameServer.  Here it is its two effects, *)
(* the transaction and the leaf.  With the Postgres store any number of    *)
(* calls of a user may be between their read of the row and their absolute *)
(* UPDATE: reads holds what they may have read, every amount of the row    *)
(* since the process started.                                              *)
(***************************************************************************)
EXTENDS TreeBuilder

CONSTANTS
    MaxTaps,            \* bound on a user's taps
    MaxRestarts,        \* bound on restarts
    MaxOthers,          \* bound on a process's syncs that are not a tick's
    Bans                \* whether users are banned and unbanned

VARIABLES
    taps,               \* address -> number of its rows of tap_events, of delta 1
    reads,              \* address -> amounts its calls of recordAction may have read
    tap,                \* address -> calls that have written: number and amount
    armed,              \* the timer of scheduleInitialSync
    others,             \* number of this process's syncs that are not a tick's
    restarts            \* number of restarts

vars == <<users, lastTap, tree, kv, epochs, epoch, tick, sync, syncing, master, sent,
          failures, clock, taps, reads, tap, armed, others, restarts>>
tapVars == <<taps, reads, tap>>
processVars == <<tapVars, armed, others, restarts>>

ASSUME BackendAssumption ==
    /\ Bans \in BOOLEAN
    /\ MaxTaps \in Nat /\ MaxRestarts \in Nat /\ MaxOthers \in Nat

Init ==
    /\ RootUpdaterInit
    /\ TreeBuilderInit
    /\ taps = [u \in Users |-> 0]
    /\ reads = [u \in Users |-> {0}]
    /\ tap = [u \in Users |-> {}]
    /\ armed = TRUE /\ others = 0
    /\ restarts = 0

\* The calls that wait for the store.  With the SQLite store a promise of the
\* store is resolved before the next event is taken: such a call goes on alone.
StorePcs == {"active", "bootstrap", "apply", "committed", "advance", "insert", "epochAt"}
AtStore ==
    {<<"tap", u>> : u \in {v \in Users : tap[v] # {}}}
      \cup {<<"tick", "tick">> : pc \in {pc \in StorePcs : TickAt(pc)}}
      \cup {<<"sync", s>> : s \in {c \in Callers : SyncAt(c, "mark") \/ SyncAt(c, "row")}}
MayRun(call) == Interleaved \/ AtStore \subseteq {call}
Quiet == AtStore = {}

AmountOf(u) == IF tree[u] = NoLeaf THEN 0 ELSE tree[u].amount

-----------------------------------------------------------------------------
(* Users *)

Earned(u) == IF users[u] = NoRow THEN 0 ELSE users[u].amount

Banned(u) == users[u] # NoRow /\ users[u].banned

\* recordAction up to the transaction.  It read the clock, the row and its ban before
\* later store calls, and writes the amount it read plus the reward.
TapCommit(u, at, old) ==
    /\ MayRun(<<"tap", u>>) /\ (Interleaved \/ tap[u] = {})
    /\ clock < MaxTime /\ taps[u] < MaxTaps
    /\ at \in Nat /\ at \in (IF Interleaved THEN clock - 1 ELSE clock) .. clock
    /\ Banned(u) => Interleaved
    /\ users' = [users EXCEPT ![u] = [amount |-> old + 1, banned |-> Banned(u)]]
    /\ lastTap' = [lastTap EXCEPT ![u] = IF at > @ THEN at ELSE @]
    /\ taps' = [taps EXCEPT ![u] = @ + 1]
    /\ reads' = [reads EXCEPT ![u] = (IF Interleaved THEN @ ELSE {}) \cup {old + 1}]
    /\ tap' = [tap EXCEPT ![u] = @ \cup {<<taps[u], old + 1>>}]
    /\ UNCHANGED <<tree, kv, epochs, epoch, tick, updaterVars, failures, clock, armed, others,
                   restarts>>

TapReturn(u, call) ==
    /\ tap' = [tap EXCEPT ![u] = @ \ {call}]
    /\ UNCHANGED <<users, lastTap, kv, epochs, epoch, tick, updaterVars, clock, taps, reads,
                   armed, others, restarts>>

\* Mutation of TapUpsert: the leaf is increased by the amount.
TapUpsertAdds(u) ==
    \E call \in tap[u] :
      /\ tree' = [tree EXCEPT ![u] = [amount |-> call[2] + AmountOf(u), renewed |-> clock]]
      /\ TapReturn(u, call)
      /\ UNCHANGED failures

\* AirdropState.upsertUser with the amount written.
TapUpsert(u) ==
    \E call \in tap[u] :
      /\ tree' = [tree EXCEPT ![u] = [amount |-> call[2], renewed |-> clock]]
      /\ TapReturn(u, call)
      /\ UNCHANGED failures

\* The reply to COMMIT is lost: recordAction throws and the leaf stays.
TapReplyLost(u) ==
    \E call \in tap[u] :
      /\ Interleaved /\ Fail(StoreFails)
      /\ TapReturn(u, call)
      /\ UNCHANGED tree

SetBan(u, banned) ==
    /\ Bans /\ MayRun(<<"ban", u>>)
    /\ users[u] # NoRow
    /\ users' = [users EXCEPT ![u].banned = banned]
    /\ UNCHANGED <<lastTap, tree, kv, epochs, epoch, tick, updaterVars, failures, clock,
                   processVars>>

-----------------------------------------------------------------------------
(* The process *)

\* The timer of TreeBuilder.start, and POST advance-epoch.
BuilderTick(force) ==
    /\ MayRun(<<"tick", "tick">>)
    /\ TickStart(force)
    /\ UNCHANGED processVars

BuilderStep ==
    /\ MayRun(<<"tick", "tick">>)
    /\ TickStep
    /\ UNCHANGED processVars

UpdaterStep(s) ==
    /\ MayRun(<<"sync", s>>)
    /\ SyncStep(s)
    /\ UNCHANGED <<users, lastTap, epoch, tick, clock, processVars>>

\* A call of syncWithState that is not a tick's.
OtherSync == others < MaxOthers /\ others' = others + 1

AdminSync ==
    /\ MayRun(<<"sync", "admin">>)
    /\ OtherSync
    /\ SyncAdmin
    /\ UNCHANGED <<users, lastTap, epoch, tick, clock, tapVars, armed, restarts>>

\* scheduleInitialSync, five seconds after startup.
StartupSync ==
    /\ "startup" \in Callers /\ armed
    /\ MayRun(<<"sync", "startup">>)
    /\ OtherSync
    /\ SyncWithState("startup")
    /\ armed' = FALSE
    /\ UNCHANGED <<users, lastTap, tree, kv, epochs, epoch, tick, master, sent, failures,
                   clock, tapVars, restarts>>

ChainStep ==
    /\ \E m \in sent : Land(m) \/ Expire(m)
    /\ UNCHANGED <<users, lastTap, epoch, tick, clock, processVars>>

\* AirdropState.hydrate: the rows that are not banned, with new windows.
Hydrated ==
    [u \in Users |-> IF users[u] = NoRow \/ users[u].banned THEN NoLeaf
                     ELSE [amount |-> users[u].amount, renewed |-> clock]]

\* Mutation of HydratedEpoch: the epoch of the last row.
HydratedEpochOfRows == Cardinality(DOMAIN epochs)

HydratedEpoch == kv.epoch

\* The process dies at any point; what it has broadcast stays in flight.
Restart ==
    /\ restarts < MaxRestarts
    /\ restarts' = restarts + 1
    /\ tree' = Hydrated
    /\ epoch' = HydratedEpoch
    /\ tick' = Idle
    /\ sync' = [s \in Callers |-> Idle]
    /\ syncing' = FALSE
    /\ reads' = [u \in Users |-> {Earned(u)}]
    /\ tap' = [u \in Users |-> {}]
    /\ armed' = TRUE
    /\ others' = 0
    /\ UNCHANGED <<users, lastTap, taps, kv, epochs, master, sent, failures, clock>>

ClockTick ==
    /\ clock < MaxTime
    /\ clock' = clock + 1
    /\ UNCHANGED <<users, lastTap, tree, kv, epochs, epoch, tick, updaterVars, failures,
                   processVars>>

Next ==
    \/ \E u \in Users :
         \/ \E at \in 0 .. clock : \E old \in reads[u] : TapCommit(u, at, old)
         \/ TapUpsert(u) \/ TapReplyLost(u)
         \/ \E banned \in BOOLEAN : SetBan(u, banned)
    \/ \E force \in BOOLEAN : BuilderTick(force)
    \/ BuilderStep
    \/ \E s \in Callers : UpdaterStep(s)
    \/ AdminSync \/ StartupSync \/ ChainStep
    \/ Restart \/ ClockTick

Spec == Init /\ [][Next]_vars

\* The event loop and the store go on, the timer fires, RPC polls are answered or
\* given up, and broadcast messages land or expire.
Fairness ==
    /\ WF_vars(BuilderTick(FALSE))
    /\ WF_vars(BuilderStep)
    /\ \A s \in Callers : WF_vars(UpdaterStep(s))
    /\ \A u \in Users : WF_vars(TapUpsert(u))
    /\ WF_vars(ChainStep)
    /\ WF_vars(ClockTick)

FairSpec == Spec /\ Fairness

-----------------------------------------------------------------------------
(* Properties *)

TypeOK ==
    /\ users \in [Users -> Row \cup {NoRow}] /\ lastTap \in [Users -> Nat]
    /\ tree \in Tree /\ kv \in Kv /\ epoch \in Nat /\ clock \in Nat
    /\ DOMAIN epochs \subseteq Nat /\ epochs \in [DOMAIN epochs -> EpochRow]
    /\ tick \in TickCall \cup {Idle}
    /\ sync \in [Callers -> SyncCall \cup {Idle}] /\ syncing \in BOOLEAN
    /\ master \in [root : Tree \cup {NoRoot}, epoch : Nat]
    /\ sent \subseteq Commit /\ failures \in Nat
    /\ taps \in [Users -> Nat] /\ reads \in [Users -> SUBSET Nat]
    /\ tap \in [Users -> SUBSET (Nat \X Nat)] /\ armed \in BOOLEAN
    /\ others \in Nat /\ restarts \in Nat

\* The numbers of signed epochs survive crashes and failed store calls at any
\* point of tick: current_epoch is never behind a row of epochs nor ahead of the
\* epoch in memory, and the insert finds its number free.
EpochsDurable ==
    /\ kv.epoch <= epoch
    /\ \A e \in DOMAIN epochs : 1 <= e /\ e <= kv.epoch
    /\ TickAt("insert") => epoch = kv.epoch /\ epoch \notin DOMAIN epochs

\* How far a crash can take back the epoch of vouchers that wallets have cached:
\* by the one write in progress and the writes that failed.  With SQLite no
\* voucher is served before the write.
ServedEpochs ==
    Interleaved \/ Quiet => epoch <= kv.epoch + failures + (IF Interleaved THEN 1 ELSE 0)

\* Two syncs, retries after give-up and late landings never skip an on-chain
\* epoch: the root metadata is numbered by it.
CommitsByOne == [][master'.epoch # master.epoch => master'.epoch = master.epoch + 1]_vars

\* A row of epochs is marked as committed only when the chain has that epoch,
\* however often syncs give up, are retried and land late.
NoFalseCommit ==
    /\ \A e \in DOMAIN epochs : epochs[e].committed => e <= master.epoch
    /\ kv.committedRoot # NoRoot => master.root # NoRoot

\* With the SQLite store the tick, which works on a snapshot, never takes a leaf
\* back behind its row, nor does a call cut off by a crash.
LeavesFollowRows ==
    Quiet => \A u \in Users : tree[u] # NoLeaf => tree[u].amount = users[u].amount

\* gameServer.ts: banned users "won't be able to claim any further cumulative
\* amount".  With the SQLite store no call that began before the ban can still
\* raise the leaf.
BannedLeafFrozen ==
    [][\A u \in Users : users[u] # NoRow /\ users[u].banned /\ tree'[u] # tree[u]
                          => tree'[u] = NoLeaf]_vars

\* Every root that is live, being signed, signed, being committed, or on chain.
KnownRoots ==
    ({tree, master.root}
       \cup {call.root : call \in ({tick} \cup {sync[s] : s \in Callers}) \ {Idle}}
       \cup {row.root : row \in {epochs[e] : e \in DOMAIN epochs}}
       \cup {m.root : m \in sent}) \ {NoRoot}

\* No root anybody may hold a proof of gives a user more than the user's rows of
\* tap_events, although overlapping calls take the row of users back with Postgres, and
\* leaves come from a call in progress, a tick's snapshot or a restart.
RootsWithinEarnings ==
    \A T \in KnownRoots : \A u \in Users : T[u] # NoLeaf => T[u].amount <= taps[u]

\* Ticks that fail or are cut off anywhere, overlapping syncs, late landings and
\* restarts implement the epoch register: a number is signed once, with one root,
\* a crash never comes back behind it, and commits and their marks are consecutive.
signedMap == [e \in DOMAIN epochs |-> epochs[e].root]
committedMap == {e \in DOMAIN epochs : epochs[e].committed}

Register == INSTANCE EpochRegister WITH
    Roots <- Tree, served <- epoch, durable <- kv.epoch, signed <- signedMap,
    committed <- committedMap, chain <- master.epoch
ImplementsRegister == Register!Spec

\* When users have stopped, the live root is finally the one on chain, through
\* finitely many restarts, failures, lost broadcasts and syncs that refuse because
\* another one is running.
ChainCatchesUp == <>[](tree # EmptyTree => master.root = tree)

=============================================================================
