----------------------------- MODULE GameServer -----------------------------
(***************************************************************************)
(* backend/src/gameServer.ts: recordAction and setBan over the users and   *)
(* tap_events tables, and the in-memory Airdrop HashMap of                 *)
(* backend/src/state.ts that the Proof API serves from.                    *)
(*                                                                         *)
(* recordAction suspends at every store call, so each call of it is a      *)
(* record in req whose pc names the store call it does next: one action is *)
(* a store call and the code up to the next one.  With the Postgres store  *)
(* calls overlap in any order.  With the SQLite store every await is       *)
(* resolved within one turn of the event loop, and a call that has started *)
(* runs to its end first.                                                  *)
(*                                                                         *)
(* A leaf is its cumulative amount: windows matter in RollingJetton only.  *)
(* Of tap_events the model keeps who and when (the rate limits read them)  *)
(* and the total delta per user.                                           *)
(***************************************************************************)
EXTENDS Integers, FiniteSets, FiniteSetsExt

CONSTANTS
    Users,              \* addresses that act
    Requests,           \* slots for concurrent calls of recordAction
    Rewards,            \* rewards an action, a tap or a grant asks for
    MaxTapsPerSecond,
    MaxTapsPerDay,
    Day,                \* 86_400, in clock ticks; a second is one tick
    Cap,                \* JETTON_MAX_SUPPLY_NANO, 0 = no cap
    Interleaved,        \* TRUE: Postgres store, FALSE: SQLite store
    StoreFails,         \* whether store calls may fail
    MaxTime,            \* bound on the clock
    MaxTaps,            \* bound on rows of tap_events and calls towards them
    Idle,               \* a free slot
    NoRow,              \* the user has no row in users
    NoLeaf              \* the user has no leaf in the HashMap

VARIABLES
    users,              \* table users: address -> row
    tapEvents,          \* table tap_events, without delta
    deltas,             \* address -> SUM(delta) over its rows of tap_events
    req,                \* slot -> call of recordAction in progress
    tree,               \* the in-memory HashMap: address -> cumulative amount
    clock               \* unix time

vars == <<users, tapEvents, deltas, req, tree, clock>>

ASSUME GameServerAssumption ==
    /\ IsFiniteSet(Requests)
    /\ Rewards \subseteq Nat
    /\ MaxTapsPerSecond \in Nat \ {0} /\ MaxTapsPerDay \in Nat \ {0}
    /\ Day \in Nat /\ Cap \in Nat /\ MaxTime \in Nat /\ MaxTaps \in Nat
    /\ Interleaved \in BOOLEAN /\ StoreFails \in BOOLEAN

Row == [cumulative : Nat, banned : BOOLEAN]
TapEvent == [id : Nat, user : Users, at : Nat]

\* now, address and reward are fixed by the first segment of recordAction, old
\* is the cumulative amount of the row it read.
Request == [pc : {"row", "second", "day", "sum", "apply", "upsert"},
            user : Users, reward : Nat, now : Nat, old : Nat]

ASSUME NoneAssumption == Idle \notin Request /\ NoRow \notin Row /\ NoLeaf \notin Nat

Cumulative(u) == IF users[u] = NoRow THEN 0 ELSE users[u].cumulative
Leaf(u) == IF tree[u] = NoLeaf THEN 0 ELSE tree[u]

Active == {r \in Requests : req[r] # Idle}

\* Whether anything but the call in slot r may run now.
MayRun(r) == Interleaved \/ Active \subseteq {r}
Quiet == Active = {}

NonBannedSum ==
    MapThenSumSet(Cumulative, {u \in Users : users[u] # NoRow /\ ~users[u].banned})

Init ==
    /\ users = [u \in Users |-> NoRow]
    /\ tapEvents = {}
    /\ deltas = [u \in Users |-> 0]
    /\ req = [r \in Requests |-> Idle]
    /\ tree = [u \in Users |-> NoLeaf]
    /\ clock = 0

-----------------------------------------------------------------------------
(* recordAction *)

Goto(r, pc) == req' = [req EXCEPT ![r].pc = pc]
Return(r) == req' = [req EXCEPT ![r] = Idle]
At(r, pc) == req[r] # Idle /\ req[r].pc = pc

\* Mutation of RecordAction: no insertUserIfNotExists.
RecordActionNoInsert(r, u, reward) ==
    /\ req[r] = Idle /\ MayRun(r)
    /\ Cardinality(tapEvents) + Cardinality(Active) < MaxTaps
    /\ req' = [req EXCEPT ![r] = [pc |-> "row", user |-> u, reward |-> reward,
                                  now |-> clock, old |-> 0]]
    /\ UNCHANGED <<users, tapEvents, deltas, tree, clock>>

\* Reads the clock and calls insertUserIfNotExists.
RecordAction(r, u, reward) ==
    /\ req[r] = Idle
    /\ MayRun(r)
    /\ Cardinality(tapEvents) + Cardinality(Active) < MaxTaps
    /\ users' = [users EXCEPT ![u] = IF @ = NoRow THEN [cumulative |-> 0, banned |-> FALSE]
                                                ELSE @]
    /\ req' = [req EXCEPT ![r] = [pc |-> "row", user |-> u, reward |-> reward,
                                  now |-> clock, old |-> 0]]
    /\ UNCHANGED <<tapEvents, deltas, tree, clock>>

\* getUserRow; a banned user is refused.
GetUserRow(r) ==
    /\ At(r, "row")
    /\ LET row == users[req[r].user] IN
         IF row.banned THEN Return(r)
         ELSE req' = [req EXCEPT ![r].pc = "second", ![r].old = row.cumulative]
    /\ UNCHANGED <<users, tapEvents, deltas, tree, clock>>

\* countTapEventsSince.
TapsSince(u, since) == {e \in tapEvents : e.user = u /\ e.at >= since}

\* Mutation of CountPerSecond: off by one.
CountPerSecondOneMore(r) ==
    /\ At(r, "second")
    /\ IF Cardinality(TapsSince(req[r].user, req[r].now - 1)) > MaxTapsPerSecond
       THEN Return(r) ELSE Goto(r, "day")
    /\ UNCHANGED <<users, tapEvents, deltas, tree, clock>>

CountPerSecond(r) ==
    /\ At(r, "second")
    /\ IF Cardinality(TapsSince(req[r].user, req[r].now - 1)) >= MaxTapsPerSecond
       THEN Return(r) ELSE Goto(r, "day")
    /\ UNCHANGED <<users, tapEvents, deltas, tree, clock>>

CountPerDay(r) ==
    /\ At(r, "day")
    /\ IF Cardinality(TapsSince(req[r].user, req[r].now - Day)) >= MaxTapsPerDay
       THEN Return(r) ELSE Goto(r, IF Cap > 0 THEN "sum" ELSE "apply")
    /\ UNCHANGED <<users, tapEvents, deltas, tree, clock>>

\* Mutation of NewCumulative: the reward replaces the amount.
NewCumulativeReplaced(r) == req[r].reward

NewCumulative(r) == req[r].old + req[r].reward

\* Mutation of CheckCap: the sum is checked before the reward.
CheckCapBefore(r) ==
    /\ At(r, "sum")
    /\ IF NonBannedSum > Cap THEN Return(r) ELSE Goto(r, "apply")
    /\ UNCHANGED <<users, tapEvents, deltas, tree, clock>>

\* sumCumulativeNonBanned, projected with the amounts this call knows.
CheckCap(r) ==
    /\ At(r, "sum")
    /\ IF NonBannedSum - req[r].old + NewCumulative(r) > Cap
       THEN Return(r) ELSE Goto(r, "apply")
    /\ UNCHANGED <<users, tapEvents, deltas, tree, clock>>

\* The transaction of applyRewardAndTap: an absolute UPDATE and a tap_events row.
WriteRewardAndTap(r) ==
    LET u == req[r].user IN
    /\ users' = [users EXCEPT ![u].cumulative = NewCumulative(r)]
    /\ tapEvents' = tapEvents \cup
         {[id |-> Cardinality(tapEvents) + 1, user |-> u, at |-> req[r].now]}
    /\ deltas' = [deltas EXCEPT ![u] = @ + req[r].reward]
    /\ UNCHANGED <<tree, clock>>

ApplyRewardAndTap(r) ==
    /\ At(r, "apply")
    /\ WriteRewardAndTap(r)
    /\ Goto(r, "upsert")

\* Mutations of UpsertUser: the leaf is increased by the amount; the leaf is not
\* written.
UpsertUserAdds(r) ==
    /\ At(r, "upsert")
    /\ tree' = [tree EXCEPT ![req[r].user] = Leaf(req[r].user) + NewCumulative(r)]
    /\ Return(r)
    /\ UNCHANGED <<users, tapEvents, deltas, clock>>
UpsertUserSkipped(r) ==
    /\ At(r, "upsert")
    /\ Return(r)
    /\ UNCHANGED <<users, tapEvents, deltas, tree, clock>>

\* AirdropState.upsertUser, which ignores a zero amount, and the return.
UpsertUser(r) ==
    /\ At(r, "upsert")
    /\ tree' = IF NewCumulative(r) = 0 THEN tree
               ELSE [tree EXCEPT ![req[r].user] = NewCumulative(r)]
    /\ Return(r)
    /\ UNCHANGED <<users, tapEvents, deltas, clock>>

\* Mutation of StoreCallFails: applyRewardAndTap is no transaction.
StoreCallFailsHalfway(r) ==
    /\ StoreFails
    /\ req[r] # Idle /\ req[r].pc # "upsert"
    /\ deltas' = IF req[r].pc = "apply" THEN [deltas EXCEPT ![req[r].user] = @ + req[r].reward]
                 ELSE deltas
    /\ Return(r)
    /\ UNCHANGED <<users, tapEvents, tree, clock>>

\* A store call fails: recordAction throws and nothing it did later happens.
StoreCallFails(r) ==
    /\ StoreFails
    /\ req[r] # Idle /\ req[r].pc # "upsert"
    /\ Return(r)
    /\ UNCHANGED <<users, tapEvents, deltas, tree, clock>>

\* The connection breaks after Postgres has done the COMMIT: the rows are there,
\* recordAction throws, and the leaf is left as it was.
CommitReplyLost(r) ==
    /\ StoreFails /\ Interleaved
    /\ At(r, "apply")
    /\ WriteRewardAndTap(r)
    /\ Return(r)

-----------------------------------------------------------------------------
(* Everything else *)

\* setBan: no row, nothing to update.
SetBan(u, banned) ==
    /\ Interleaved \/ Quiet
    /\ users[u] # NoRow
    /\ users' = [users EXCEPT ![u].banned = banned]
    /\ UNCHANGED <<tapEvents, deltas, req, tree, clock>>

\* The process dies at any point; AirdropState.hydrate rebuilds the HashMap from
\* the users that are not banned before the server listens again.
Hydrated ==
    [u \in Users |-> IF users[u] = NoRow \/ users[u].banned \/ users[u].cumulative = 0
                     THEN NoLeaf ELSE users[u].cumulative]

Restart ==
    /\ req' = [r \in Requests |-> Idle]
    /\ tree' = Hydrated
    /\ UNCHANGED <<users, tapEvents, deltas, clock>>

Tick ==
    /\ clock < MaxTime
    /\ clock' = clock + 1
    /\ UNCHANGED <<users, tapEvents, deltas, req, tree>>

Next ==
    \/ \E r \in Requests :
         \/ \E u \in Users, reward \in Rewards : RecordAction(r, u, reward)
         \/ GetUserRow(r) \/ CountPerSecond(r) \/ CountPerDay(r) \/ CheckCap(r)
         \/ ApplyRewardAndTap(r) \/ UpsertUser(r)
         \/ StoreCallFails(r) \/ CommitReplyLost(r)
    \/ \E u \in Users, banned \in BOOLEAN : SetBan(u, banned)
    \/ Restart
    \/ Tick

Spec == Init /\ [][Next]_vars

-----------------------------------------------------------------------------
(* Properties *)

TypeOK ==
    /\ users \in [Users -> Row \cup {NoRow}]
    /\ tapEvents \subseteq TapEvent /\ IsFiniteSet(tapEvents)
    /\ deltas \in [Users -> Nat]
    /\ req \in [Requests -> Request \cup {Idle}]
    /\ tree \in [Users -> Nat \cup {NoLeaf}]
    /\ clock \in Nat
    /\ \A r \in Requests : req[r] # Idle => users[req[r].user] # NoRow

\* The rate limits of recordAction, with what overlapping calls can add to them:
\* a call counts the taps before it writes its own, so calls that overlap may
\* all pass, but no window of a second or a day ever holds more than the limit
\* plus one tap for every other call in progress.
Concurrency == IF Interleaved THEN Cardinality(Requests) ELSE 1
Window(u, t, d) == {e \in tapEvents : e.user = u /\ e.at \in t .. t + d}
RateLimits ==
    \A u \in Users, t \in 0 .. clock :
        /\ Cardinality(Window(u, t, 1)) < MaxTapsPerSecond + Concurrency
        /\ Cardinality(Window(u, t, Day)) < MaxTapsPerDay + Concurrency

\* However calls overlap, fail and are cut off by restarts, neither the users
\* table nor a leaf the Proof API serves is worth more than the user's taps.
CreditedWithinTaps ==
    \A u \in Users : Cumulative(u) <= deltas[u] /\ Leaf(u) <= deltas[u]

\* With one call at a time no reward is lost: the amount in users is the sum of
\* the user's tap_events.
TapsAreCredited == \A u \in Users : Cumulative(u) = deltas[u]

\* Between calls a leaf is the amount in users (state.ts: "Keep the in-memory
\* Merkle tree in sync with DB taps").
TreeInSync == Quiet => \A u \in Users : tree[u] # NoLeaf => tree[u] = Cumulative(u)

\* An action never takes the sum of the amounts of users that are not banned over
\* JETTON_MAX_SUPPLY_NANO (config.ts: "reject if the new sum would exceed this
\* value").
CapRespected == [][Cap > 0 /\ deltas' # deltas => NonBannedSum' <= Cap]_vars

\* docs/OPERATIONS.md: "cumulative_amount is monotonic".
CumulativeNeverDecreases == [][\A u \in Users : Cumulative(u)' >= Cumulative(u)]_vars

\* With one call at a time the backend keeps the earnings side of the claim
\* ledger, which the contracts' model assumes of it: amounts only grow, one user
\* at a time.
Earnings == INSTANCE ClaimLedger WITH
    Owners  <- Users,
    Wallets <- {},
    ownerOf <- [w \in {} |-> w],
    earned  <- [u \in Users |-> Cumulative(u)],
    claimed <- [w \in {} |-> 0]
ImplementsEarnings == Earnings!Spec
=============================================================================
