-------------------------- MODULE GameServerProofs --------------------------
(***************************************************************************)
(* What the runs of GameServer check on small instances, proved for every  *)
(* set of users, number of concurrent calls, limit and reward: types, the  *)
(* rate limits, that nothing is credited beyond the taps, and, with the    *)
(* SQLite store, that no reward is lost, leaves agree with the table and   *)
(* the sum of the amounts stays within the cap.                            *)
(***************************************************************************)
EXTENDS GameServer, SumProofs

(* The steps of a call of recordAction, by name. *)
Call(r) ==
    \/ \E u \in Users, reward \in Rewards : RecordAction(r, u, reward)
    \/ GetUserRow(r) \/ CountPerSecond(r) \/ CountPerDay(r) \/ CheckCap(r)
    \/ ApplyRewardAndTap(r) \/ UpsertUser(r)
    \/ StoreCallFails(r) \/ CommitReplyLost(r)

(* A call that is at pc is a call, with values of the right types. *)
LEMMA CallTyped ==
    ASSUME TypeOK, NEW r \in Requests, req[r] # Idle
    PROVE  /\ req[r] \in Request
           /\ req[r].user \in Users /\ req[r].reward \in Nat
           /\ req[r].now \in Nat /\ req[r].old \in Nat
           /\ NewCumulative(r) \in Nat
           /\ users[req[r].user] \in Row
BY NoneAssumption DEF TypeOK, Request, NewCumulative

-----------------------------------------------------------------------------
(* Types *)

LEMMA InitTypeOK == Init => TypeOK
BY GameServerAssumption, FS_EmptySet DEF Init, TypeOK, TapEvent

(* The transaction of applyRewardAndTap keeps the tables typed. *)
LEMMA WriteTyped ==
    ASSUME TypeOK, NEW r \in Requests, req[r] # Idle, WriteRewardAndTap(r)
    PROVE  /\ users' \in [Users -> Row \cup {NoRow}]
           /\ tapEvents' \subseteq TapEvent /\ IsFiniteSet(tapEvents')
           /\ deltas' \in [Users -> Nat]
           /\ \A u \in Users : users[u] # NoRow => users'[u] # NoRow
<1> DEFINE u == req[r].user
           e == [id |-> Cardinality(tapEvents) + 1, user |-> u, at |-> req[r].now]
<1>0. u \in Users /\ req[r].reward \in Nat /\ req[r].now \in Nat
      /\ NewCumulative(r) \in Nat /\ users[u] \in Row
  BY CallTyped
<1>1. [users[u] EXCEPT !.cumulative = NewCumulative(r)] \in Row
  BY <1>0 DEF Row
<1>2. users' \in [Users -> Row \cup {NoRow}]
  BY <1>0, <1>1 DEF WriteRewardAndTap, TypeOK
<1>3. e \in TapEvent
  <2>1. Cardinality(tapEvents) \in Nat
    BY FS_CardinalityType DEF TypeOK
  <2> QED BY <1>0, <2>1 DEF TapEvent
<1>4. IsFiniteSet(tapEvents \cup {e})
  BY FS_AddElement DEF TypeOK
<1>5. tapEvents' = tapEvents \cup {e}
  BY DEF WriteRewardAndTap
<1>6. deltas' \in [Users -> Nat]
  BY <1>0 DEF WriteRewardAndTap, TypeOK
<1>7. \A w \in Users : users[w] # NoRow => users'[w] # NoRow
  BY <1>0, <1>1, NoneAssumption DEF WriteRewardAndTap, TypeOK
<1> QED BY <1>2, <1>3, <1>4, <1>5, <1>6, <1>7 DEF TypeOK

LEMMA CallTypeOK ==
    ASSUME TypeOK, NEW r \in Requests, Call(r)
    PROVE  TypeOK'
<1> USE GameServerAssumption, NoneAssumption
<1>1. CASE \E u \in Users, reward \in Rewards : RecordAction(r, u, reward)
  <2> PICK u \in Users, reward \in Rewards : RecordAction(r, u, reward)
    BY <1>1
  <2> DEFINE q == [pc |-> "row", user |-> u, reward |-> reward, now |-> clock, old |-> 0]
             row == IF users[u] = NoRow THEN [cumulative |-> 0, banned |-> FALSE] ELSE users[u]
  <2>1. q \in Request /\ q.user = u
    BY DEF Request, TypeOK
  <2>2. row \in Row
    BY DEF Row, TypeOK
  <2>3. users' = [users EXCEPT ![u] = row] /\ req' = [req EXCEPT ![r] = q]
        /\ UNCHANGED <<tapEvents, deltas, tree, clock>>
    BY DEF RecordAction
  <2> HIDE DEF q, row
  <2> QED BY <2>1, <2>2, <2>3 DEF TypeOK
<1>2. CASE GetUserRow(r)
  <2>1. req[r] \in Request /\ users[req[r].user] \in Row /\ req[r].user \in Users
    BY <1>2, CallTyped DEF GetUserRow, At
  <2>2. users[req[r].user].cumulative \in Nat
    BY <2>1 DEF Row
  <2>3. CASE Return(r)
    BY <1>2, <2>3 DEF GetUserRow, Return, TypeOK
  <2>4. CASE req' = [req EXCEPT ![r].pc = "second",
                                ![r].old = users[req[r].user].cumulative]
    <3>1. req'[r] \in Request /\ req'[r].user = req[r].user
      BY <2>1, <2>2, <2>4 DEF Request, TypeOK
    <3>2. req' = [req EXCEPT ![r] = req'[r]]
      BY <2>4 DEF TypeOK
    <3>3. /\ req' \in [Requests -> Request \cup {Idle}]
          /\ \A q \in Requests : req'[q] # Idle => users[req'[q].user] # NoRow
      <4> DEFINE q0 == req'[r]
      <4>1. q0 \in Request /\ q0.user = req[r].user /\ req' = [req EXCEPT ![r] = q0]
        BY <3>1, <3>2
      <4>2. req[r] # Idle
        BY <1>2 DEF GetUserRow, At
      <4> HIDE DEF q0
      <4> QED BY <4>1, <4>2 DEF TypeOK
    <3> QED BY <1>2, <3>3 DEF GetUserRow, TypeOK
  <2> QED BY <1>2, <2>3, <2>4 DEF GetUserRow
<1>3. ASSUME NEW pc \in {"day", "sum", "apply", "upsert"}, Goto(r, pc), req[r] # Idle
      PROVE  /\ req' \in [Requests -> Request \cup {Idle}]
             /\ \A q \in Requests : req'[q] # Idle =>
                  req[q] # Idle /\ req'[q].user = req[q].user
  <2>1. req[r] \in Request
    BY <1>3, CallTyped
  <2>2. req'[r] \in Request /\ req'[r].user = req[r].user
    BY <1>3, <2>1 DEF Request, Goto, TypeOK
  <2> QED BY <1>3, <2>2 DEF Goto, TypeOK
<1>4. ASSUME Return(r)
      PROVE  /\ req' \in [Requests -> Request \cup {Idle}]
             /\ \A q \in Requests : req'[q] # Idle =>
                  req[q] # Idle /\ req'[q].user = req[q].user
  BY <1>4 DEF Return, TypeOK
<1>5. CASE CountPerSecond(r)
  <2>1. Return(r) \/ Goto(r, "day")
    BY <1>5 DEF CountPerSecond
  <2> QED BY <1>5, <2>1, <1>3, <1>4 DEF CountPerSecond, TypeOK, At
<1>6. CASE CountPerDay(r)
  <2>1. Return(r) \/ Goto(r, "sum") \/ Goto(r, "apply")
    BY <1>6 DEF CountPerDay
  <2> QED BY <1>6, <2>1, <1>3, <1>4 DEF CountPerDay, TypeOK, At
<1>7. CASE CheckCap(r)
  <2>1. Return(r) \/ Goto(r, "apply")
    BY <1>7 DEF CheckCap
  <2> QED BY <1>7, <2>1, <1>3, <1>4 DEF CheckCap, TypeOK, At
<1>8. CASE ApplyRewardAndTap(r) \/ CommitReplyLost(r)
  <2>1. req[r] # Idle /\ WriteRewardAndTap(r) /\ (Return(r) \/ Goto(r, "upsert"))
    BY <1>8 DEF ApplyRewardAndTap, CommitReplyLost, At
  <2>2. UNCHANGED <<tree, clock>>
    BY <2>1 DEF WriteRewardAndTap
  <2>3. /\ req' \in [Requests -> Request \cup {Idle}]
        /\ \A q \in Requests : req'[q] # Idle =>
             req[q] # Idle /\ req'[q].user = req[q].user
    <3>1. CASE Return(r)
      BY <3>1, <1>4
    <3>2. CASE Goto(r, "upsert")
      BY <3>2, <2>1, <1>3
    <3> QED BY <2>1, <3>1, <3>2
  <2>4. /\ users' \in [Users -> Row \cup {NoRow}]
        /\ tapEvents' \subseteq TapEvent /\ IsFiniteSet(tapEvents')
        /\ deltas' \in [Users -> Nat]
        /\ \A u \in Users : users[u] # NoRow => users'[u] # NoRow
    BY <2>1, WriteTyped
  <2>5. \A q \in Requests : req'[q] # Idle => users'[req'[q].user] # NoRow
    <3> SUFFICES ASSUME NEW q \in Requests, req'[q] # Idle
                 PROVE  users'[req'[q].user] # NoRow
      OBVIOUS
    <3>1. req[q] # Idle /\ req'[q].user = req[q].user
      BY <2>3
    <3>2. req[q].user \in Users /\ users[req[q].user] # NoRow
      BY <3>1, CallTyped DEF TypeOK
    <3> QED BY <3>1, <3>2, <2>4
  <2> QED BY <2>2, <2>3, <2>4, <2>5 DEF TypeOK
<1>9. CASE UpsertUser(r)
  <2>1. NewCumulative(r) \in Nat
    BY <1>9, CallTyped DEF UpsertUser, At
  <2> QED BY <1>9, <2>1, <1>4 DEF UpsertUser, TypeOK
<1>10. CASE StoreCallFails(r)
  BY <1>10, <1>4 DEF StoreCallFails, TypeOK
<1> QED BY <1>1, <1>2, <1>5, <1>6, <1>7, <1>8, <1>9, <1>10 DEF Call

LEMMA NextTypeOK == TypeOK /\ [Next]_vars => TypeOK'
<1> SUFFICES ASSUME TypeOK, [Next]_vars PROVE TypeOK'
  OBVIOUS
<1>1. CASE \E r \in Requests : Call(r)
  BY <1>1, CallTypeOK
<1>2. CASE \E u \in Users, banned \in BOOLEAN : SetBan(u, banned)
  <2> PICK u \in Users, banned \in BOOLEAN : SetBan(u, banned)
    BY <1>2
  <2>1. users[u] \in Row /\ [users[u] EXCEPT !.banned = banned] \in Row
    BY DEF SetBan, TypeOK, Row
  <2>2. users' = [users EXCEPT ![u] = [users[u] EXCEPT !.banned = banned]]
    BY DEF SetBan, TypeOK
  <2> QED BY <2>1, <2>2, NoneAssumption DEF SetBan, TypeOK
<1>3. CASE Restart
  <2>1. Hydrated \in [Users -> Nat \cup {NoLeaf}]
    BY DEF Hydrated, TypeOK, Row
  <2> QED BY <1>3, <2>1 DEF Restart, TypeOK
<1>4. CASE Tick
  BY <1>4 DEF Tick, TypeOK
<1>5. CASE UNCHANGED vars
  BY <1>5 DEF vars, TypeOK
<1> QED BY <1>1, <1>2, <1>3, <1>4, <1>5 DEF Next, Call

(* Every state of the game server's tables, calls and HashMap is well typed. *)
THEOREM GameTypeCorrect == Spec => []TypeOK
BY InitTypeOK, NextTypeOK, PTL DEF Spec
-----------------------------------------------------------------------------
(* The four kinds of step of a call: r's record becomes q *)

Keeps(r, q) == /\ q.user = req[r].user /\ q.reward = req[r].reward
               /\ q.now = req[r].now

\* Row existence apart, nothing but the call's record changes.
Enters(r, q) ==
    /\ req[r] = Idle /\ MayRun(r)
    /\ q \in Request /\ q.pc = "row" /\ q.old = 0
    /\ \A u \in Users : Cumulative(u)' = Cumulative(u)
    /\ UNCHANGED <<tapEvents, deltas, tree, clock>>

Passes(r, q) ==
    \/ req[r].pc = "row" /\ q.pc = "second" /\ q.old = Cumulative(req[r].user)
    \/ /\ q.old = req[r].old
       /\ \/ /\ req[r].pc = "second" /\ q.pc = "day"
             /\ Cardinality(TapsSince(req[r].user, req[r].now - 1)) < MaxTapsPerSecond
          \/ /\ req[r].pc = "day" /\ q.pc \in {"sum", "apply"}
             /\ Cardinality(TapsSince(req[r].user, req[r].now - Day)) < MaxTapsPerDay
          \/ req[r].pc = "sum" /\ q.pc = "apply"

\* A store call that reads, refuses or fails.
Moves(r, q) ==
    /\ req[r] # Idle /\ req[r].pc # "upsert"
    /\ q = Idle \/ (q \in Request /\ Keeps(r, q) /\ Passes(r, q))
    /\ UNCHANGED <<users, tapEvents, deltas, tree, clock>>

\* The transaction.
Writes(r, q) ==
    /\ At(r, "apply")
    /\ \/ q = Idle /\ Interleaved
       \/ q \in Request /\ Keeps(r, q) /\ q.pc = "upsert" /\ q.old = req[r].old
    /\ WriteRewardAndTap(r)

\* The leaf.
Finishes(r, q) == q = Idle /\ UpsertUser(r)

Kind(r, q) ==
    /\ req' = [req EXCEPT ![r] = q]
    /\ Enters(r, q) \/ Moves(r, q) \/ Writes(r, q) \/ Finishes(r, q)

LEMMA CallKinds ==
    ASSUME TypeOK, NEW r \in Requests, Call(r)
    PROVE  \E q \in Request \cup {Idle} : Kind(r, q)
<1> USE NoneAssumption
<1>1. CASE \E u \in Users, reward \in Rewards : RecordAction(r, u, reward)
  <2> PICK u \in Users, reward \in Rewards : RecordAction(r, u, reward)
    BY <1>1
  <2> DEFINE q == [pc |-> "row", user |-> u, reward |-> reward, now |-> clock, old |-> 0]
  <2>1. q \in Request /\ q.pc = "row" /\ q.old = 0
    BY GameServerAssumption DEF Request, TypeOK
  <2>2. /\ req' = [req EXCEPT ![r] = q] /\ req[r] = Idle /\ MayRun(r)
        /\ UNCHANGED <<tapEvents, deltas, tree, clock>>
    BY DEF RecordAction
  <2>3. \A w \in Users : Cumulative(w)' = Cumulative(w)
    <3> DEFINE row == IF users[u] = NoRow THEN [cumulative |-> 0, banned |-> FALSE]
                                          ELSE users[u]
    <3>1. users' = [users EXCEPT ![u] = row]
      BY DEF RecordAction
    <3>2. row \in Row
      BY DEF TypeOK, Row
    <3>3. row.cumulative = Cumulative(u)
      BY DEF Cumulative
    <3> HIDE DEF row
    <3> QED BY <3>1, <3>2, <3>3 DEF Cumulative, TypeOK
  <2> HIDE DEF q
  <2> QED BY <2>1, <2>2, <2>3 DEF Kind, Enters
<1>2. ASSUME req[r] # Idle, req[r].pc # "upsert", Return(r),
             UNCHANGED <<users, tapEvents, deltas, tree, clock>>
      PROVE  Kind(r, Idle)
  BY <1>2 DEF Kind, Moves, Return
<1>3. ASSUME NEW pc \in {"day", "sum", "apply", "upsert"}, Goto(r, pc), req[r] # Idle
      PROVE  \E q \in Request : /\ req' = [req EXCEPT ![r] = q] /\ Keeps(r, q)
                                /\ q.pc = pc /\ q.old = req[r].old
  <2> DEFINE q == [req[r] EXCEPT !.pc = pc]
  <2>1. req[r] \in Request
    BY <1>3, CallTyped
  <2>2. q \in Request /\ Keeps(r, q) /\ q.pc = pc /\ q.old = req[r].old
    BY <2>1 DEF Request, Keeps
  <2>3. req' = [req EXCEPT ![r] = q]
    BY <1>3 DEF Goto, TypeOK
  <2> HIDE DEF q
  <2> QED BY <2>2, <2>3
<1>4. ASSUME NEW pc \in {"day", "sum", "apply", "upsert"}, Goto(r, pc),
             req[r] # Idle, req[r].pc # "upsert",
             UNCHANGED <<users, tapEvents, deltas, tree, clock>>,
             \A q \in Request : q.pc = pc /\ q.old = req[r].old => Passes(r, q)
      PROVE  \E q \in Request : Kind(r, q)
  <2> PICK q \in Request : /\ req' = [req EXCEPT ![r] = q] /\ Keeps(r, q)
                           /\ q.pc = pc /\ q.old = req[r].old
    BY <1>3, <1>4
  <2>1. Moves(r, q)
    BY <1>4 DEF Moves
  <2> QED BY <2>1 DEF Kind
<1>5. CASE GetUserRow(r)
  <2> DEFINE q == [req[r] EXCEPT !.pc = "second", !.old = Cumulative(req[r].user)]
  <2>1. req[r] # Idle /\ req[r] \in Request /\ req[r].pc = "row"
        /\ req[r].user \in Users /\ users[req[r].user] \in Row
    BY <1>5, CallTyped DEF GetUserRow, At
  <2>2. CASE Return(r)
    BY <1>2, <1>5, <2>1, <2>2 DEF GetUserRow
  <2>3. CASE req' = [req EXCEPT ![r].pc = "second",
                                ![r].old = users[req[r].user].cumulative]
    <3>1. /\ q \in Request /\ Keeps(r, q) /\ q.pc = "second"
          /\ q.old = Cumulative(req[r].user)
      BY <2>1 DEF Request, Keeps, Cumulative, Row
    <3>2. req' = [req EXCEPT ![r] = q]
      BY <2>1, <2>3 DEF Cumulative, TypeOK
    <3> HIDE DEF q
    <3>3. Moves(r, q)
      BY <1>5, <2>1, <3>1 DEF Moves, Passes, GetUserRow
    <3> QED BY <3>1, <3>2, <3>3 DEF Kind
  <2> QED BY <1>5, <2>2, <2>3 DEF GetUserRow
<1>6. CASE CountPerSecond(r)
  <2> DEFINE n == Cardinality(TapsSince(req[r].user, req[r].now - 1))
  <2>0. req[r] # Idle /\ req[r].pc = "second"
    BY <1>6 DEF CountPerSecond, At
  <2>1. n \in Nat
    BY FS_Subset, FS_CardinalityType DEF TypeOK, TapsSince
  <2>2. CASE n >= MaxTapsPerSecond
    BY <1>2, <1>6, <2>0, <2>2 DEF CountPerSecond
  <2>3. CASE n < MaxTapsPerSecond
    <3>1. \A q \in Request : q.pc = "day" /\ q.old = req[r].old => Passes(r, q)
      BY <2>0, <2>3 DEF Passes
    <3>2. Goto(r, "day")
      BY <1>6, <2>1, <2>3, GameServerAssumption DEF CountPerSecond
    <3> QED BY <1>4, <1>6, <2>0, <3>1, <3>2 DEF CountPerSecond
  <2> QED BY <2>1, <2>2, <2>3, GameServerAssumption
<1>7. CASE CountPerDay(r)
  <2> DEFINE n == Cardinality(TapsSince(req[r].user, req[r].now - Day))
  <2>0. req[r] # Idle /\ req[r].pc = "day"
    BY <1>7 DEF CountPerDay, At
  <2>1. n \in Nat
    BY FS_Subset, FS_CardinalityType DEF TypeOK, TapsSince
  <2>2. CASE n >= MaxTapsPerDay
    BY <1>2, <1>7, <2>0, <2>2 DEF CountPerDay
  <2>3. CASE n < MaxTapsPerDay
    <3>1. \A q \in Request : q.pc \in {"sum", "apply"} /\ q.old = req[r].old => Passes(r, q)
      BY <2>0, <2>3 DEF Passes
    <3>2. Goto(r, "sum") \/ Goto(r, "apply")
      BY <1>7, <2>1, <2>3, GameServerAssumption DEF CountPerDay
    <3> QED BY <1>4, <1>7, <2>0, <3>1, <3>2 DEF CountPerDay
  <2> QED BY <2>1, <2>2, <2>3, GameServerAssumption
<1>8. CASE CheckCap(r)
  <2>1. req[r] # Idle /\ req[r].pc = "sum"
    BY <1>8 DEF CheckCap, At
  <2>2. CASE Return(r)
    BY <1>2, <1>8, <2>1, <2>2 DEF CheckCap
  <2>3. CASE Goto(r, "apply")
    <3>1. \A q \in Request : q.pc = "apply" /\ q.old = req[r].old => Passes(r, q)
      BY <2>1 DEF Passes
    <3> QED BY <1>4, <1>8, <2>1, <2>3, <3>1 DEF CheckCap
  <2> QED BY <1>8, <2>2, <2>3 DEF CheckCap
<1>9. CASE StoreCallFails(r)
  BY <1>2, <1>9 DEF StoreCallFails
<1>10. CASE ApplyRewardAndTap(r)
  <2>1. req[r] # Idle /\ Goto(r, "upsert") /\ At(r, "apply") /\ WriteRewardAndTap(r)
    BY <1>10 DEF ApplyRewardAndTap, At
  <2> PICK q \in Request : /\ req' = [req EXCEPT ![r] = q] /\ Keeps(r, q)
                           /\ q.pc = "upsert" /\ q.old = req[r].old
    BY <1>3, <2>1
  <2>2. Writes(r, q)
    BY <2>1 DEF Writes
  <2> QED BY <2>2 DEF Kind
<1>11. CASE CommitReplyLost(r)
  <2>1. Writes(r, Idle) /\ req' = [req EXCEPT ![r] = Idle]
    BY <1>11 DEF CommitReplyLost, Writes, Return
  <2> QED BY <2>1 DEF Kind
<1>12. CASE UpsertUser(r)
  BY <1>12 DEF UpsertUser, Kind, Finishes, Return
<1> QED BY <1>1, <1>5, <1>6, <1>7, <1>8, <1>9, <1>10, <1>11, <1>12 DEF Call

(* What the transaction changes, user by user. *)
LEMMA WriteEffect ==
    ASSUME TypeOK, NEW r \in Requests, req[r] # Idle, WriteRewardAndTap(r)
    PROVE  /\ \A u \in Users : u = req[r].user => Cumulative(u)' = NewCumulative(r)
           /\ deltas'[req[r].user] = deltas[req[r].user] + req[r].reward
           /\ \A u \in Users \ {req[r].user} :
                Cumulative(u)' = Cumulative(u) /\ deltas'[u] = deltas[u]
           /\ UNCHANGED <<tree, clock>>
<1>1. req[r].user \in Users /\ users[req[r].user] \in Row
  BY CallTyped
<1>2. /\ users' = [users EXCEPT ![req[r].user] =
                     [users[req[r].user] EXCEPT !.cumulative = NewCumulative(r)]]
      /\ NewCumulative(r) \in Nat
  BY <1>1, CallTyped DEF WriteRewardAndTap, TypeOK
<1>3. /\ [users[req[r].user] EXCEPT !.cumulative = NewCumulative(r)] \in Row
      /\ [users[req[r].user] EXCEPT !.cumulative = NewCumulative(r)].cumulative =
           NewCumulative(r)
  BY <1>1, <1>2 DEF Row
<1>4. ASSUME NEW u \in Users, u = req[r].user
      PROVE  Cumulative(u)' = NewCumulative(r)
  <2>1. users'[req[r].user] = [users[req[r].user] EXCEPT !.cumulative = NewCumulative(r)]
    BY <1>1, <1>2 DEF TypeOK
  <2>2. users'[req[r].user] # NoRow /\ users'[req[r].user].cumulative = NewCumulative(r)
    BY <1>3, <2>1, NoneAssumption
  <2> QED BY <1>4, <2>2 DEF Cumulative
<1>5. \A u \in Users \ {req[r].user} : Cumulative(u)' = Cumulative(u)
  BY <1>2 DEF Cumulative, TypeOK
<1> QED BY <1>1, <1>4, <1>5 DEF WriteRewardAndTap, TypeOK

(* Steps that are no step of a call leave the amounts alone. *)
LEMMA OtherEffect ==
    ASSUME TypeOK, [Next]_vars, ~ \E r \in Requests : Call(r)
    PROVE  /\ \A u \in Users : Cumulative(u)' = Cumulative(u)
           /\ UNCHANGED <<tapEvents, deltas>>
           /\ clock <= clock' /\ clock' \in Nat
           /\ \/ UNCHANGED <<req, tree>>
              \/ /\ req' = [r \in Requests |-> Idle]
                 /\ tree' = Hydrated
<1>1. CASE \E u \in Users, banned \in BOOLEAN : SetBan(u, banned)
  <2> PICK u \in Users, banned \in BOOLEAN : SetBan(u, banned)
    BY <1>1
  <2>1. /\ users[u] \in Row
        /\ [users[u] EXCEPT !.banned = banned] \in Row
        /\ [users[u] EXCEPT !.banned = banned].cumulative = users[u].cumulative
    BY DEF SetBan, TypeOK, Row
  <2>2. users' = [users EXCEPT ![u] = [users[u] EXCEPT !.banned = banned]]
    BY DEF SetBan, TypeOK
  <2>3. \A w \in Users : Cumulative(w)' = Cumulative(w)
    BY <2>1, <2>2, NoneAssumption DEF Cumulative, TypeOK
  <2> QED BY <2>3 DEF SetBan, TypeOK
<1>2. CASE Restart
  BY <1>2 DEF Restart, Cumulative, TypeOK
<1>3. CASE Tick
  BY <1>3 DEF Tick, Cumulative, TypeOK
<1>4. CASE UNCHANGED vars
  BY <1>4 DEF vars, Cumulative, TypeOK
<1> QED BY <1>1, <1>2, <1>3, <1>4 DEF Next, Call

(* What hydrate puts in the HashMap. *)
LEMMA HydratedLeaf ==
    ASSUME TypeOK, NEW u \in Users
    PROVE  Hydrated[u] = NoLeaf \/ Hydrated[u] = Cumulative(u)
BY DEF Hydrated, Cumulative

-----------------------------------------------------------------------------
(* Nothing is credited beyond the taps *)

\* Strengthening: what a call read was credited already, and what it is about
\* to put in the leaf is covered by its own row.
CallsWithinTaps ==
    \A r \in Requests : req[r] # Idle =>
        /\ req[r].old <= deltas[req[r].user]
        /\ req[r].pc = "upsert" => NewCumulative(r) <= deltas[req[r].user]

CreditInv == TypeOK /\ CreditedWithinTaps /\ CallsWithinTaps

LEMMA InitCredit == Init => CreditInv
<1> SUFFICES ASSUME Init PROVE CreditInv
  OBVIOUS
<1>1. TypeOK
  BY InitTypeOK
<1>2. CreditedWithinTaps /\ CallsWithinTaps
  BY DEF Init, CreditedWithinTaps, CallsWithinTaps, Cumulative, Leaf
<1> QED BY <1>1, <1>2 DEF CreditInv

LEMMA AmountTypes ==
    ASSUME TypeOK, NEW u \in Users
    PROVE  Cumulative(u) \in Nat /\ Leaf(u) \in Nat /\ deltas[u] \in Nat
BY DEF Cumulative, Leaf, TypeOK, Row

(* A call that is not r's keeps its record, and deltas never shrink. *)
LEMMA OtherCallsWithinTaps ==
    ASSUME CreditInv, NEW r \in Requests, NEW q, req' = [req EXCEPT ![r] = q],
           \A u \in Users : deltas'[u] \in Nat /\ deltas[u] <= deltas'[u],
           NEW p \in Requests, p # r, req'[p] # Idle
    PROVE  /\ req'[p].old <= deltas'[req'[p].user]
           /\ req'[p].pc = "upsert" => NewCumulative(p)' <= deltas'[req'[p].user]
<1>1. req'[p] = req[p] /\ req[p] # Idle
  BY DEF CreditInv, TypeOK
<1>2. /\ req[p].user \in Users /\ req[p].old \in Nat /\ req[p].reward \in Nat
      /\ deltas[req[p].user] \in Nat
  BY <1>1, CallTyped, AmountTypes DEF CreditInv
<1>3. /\ req[p].old <= deltas[req[p].user]
      /\ req[p].pc = "upsert" => req[p].old + req[p].reward <= deltas[req[p].user]
  BY <1>1 DEF CreditInv, CallsWithinTaps, NewCumulative
<1> QED BY <1>1, <1>2, <1>3 DEF NewCumulative

LEMMA CallCredit ==
    ASSUME CreditInv, NEW r \in Requests, Call(r)
    PROVE  CreditInv'
<1>0. TypeOK /\ TypeOK'
  BY CallTypeOK DEF CreditInv
<1> PICK q \in Request \cup {Idle} : Kind(r, q)
  BY <1>0, CallKinds
<1>1. req' = [req EXCEPT ![r] = q] /\ req'[r] = q
  BY <1>0 DEF Kind, TypeOK
<1>2. SUFFICES
        /\ \A u \in Users : deltas[u] <= deltas'[u]
        /\ \A u \in Users : Cumulative(u)' <= deltas'[u]
        /\ \A u \in Users : Leaf(u)' <= deltas'[u]
        /\ q # Idle => /\ q.old <= deltas'[q.user]
                       /\ q.pc = "upsert" => q.old + q.reward <= deltas'[q.user]
  <2>1. CreditedWithinTaps'
    BY <1>2 DEF CreditedWithinTaps
  <2>2. ASSUME NEW p \in Requests, req'[p] # Idle
        PROVE  /\ req'[p].old <= deltas'[req'[p].user]
               /\ req'[p].pc = "upsert" => NewCumulative(p)' <= deltas'[req'[p].user]
    <3>1. CASE p = r
      BY <1>1, <1>2, <2>2, <3>1 DEF NewCumulative
    <3>2. \A u \in Users : deltas'[u] \in Nat
      BY <1>0 DEF TypeOK
    <3>3. CASE p # r
      BY <1>1, <1>2, <2>2, <3>2, <3>3, OtherCallsWithinTaps
    <3> QED BY <3>1, <3>3
  <2> QED BY <1>0, <2>1, <2>2 DEF CreditInv, CallsWithinTaps
<1>3. \A u \in Users : /\ Cumulative(u) \in Nat /\ Leaf(u) \in Nat /\ deltas[u] \in Nat
                       /\ Cumulative(u) <= deltas[u] /\ Leaf(u) <= deltas[u]
  BY <1>0, AmountTypes DEF CreditInv, CreditedWithinTaps
<1>4. CASE Enters(r, q)
  <2>1. deltas' = deltas /\ \A u \in Users : Leaf(u)' = Leaf(u) /\ Cumulative(u)' = Cumulative(u)
    BY <1>4 DEF Enters, Leaf
  <2>2. q.old = 0 /\ q.pc = "row" /\ q.user \in Users
    BY <1>4 DEF Enters, Request
  <2> QED BY <1>3, <2>1, <2>2
<1>5. CASE Moves(r, q)
  <2>1. deltas' = deltas /\ \A u \in Users : Leaf(u)' = Leaf(u) /\ Cumulative(u)' = Cumulative(u)
    BY <1>5 DEF Moves, Leaf, Cumulative
  <2>2. req[r] # Idle /\ req[r].user \in Users /\ req[r].old <= deltas[req[r].user]
    BY <1>0, <1>5, CallTyped DEF Moves, CreditInv, CallsWithinTaps
  <2>3. q # Idle => q.user = req[r].user /\ q.pc # "upsert"
                    /\ (q.old = req[r].old \/ q.old = Cumulative(req[r].user))
    BY <1>5 DEF Moves, Keeps, Passes
  <2> QED BY <1>3, <2>1, <2>2, <2>3
<1>6. CASE Writes(r, q)
  <2>1. req[r] # Idle /\ WriteRewardAndTap(r)
    BY <1>6 DEF Writes, At
  <2>2. /\ req[r].user \in Users /\ req[r].reward \in Nat /\ req[r].old \in Nat
        /\ req[r].old <= deltas[req[r].user]
    BY <1>0, <2>1, CallTyped DEF CreditInv, CallsWithinTaps
  <2>3. /\ \A u \in Users : u = req[r].user => Cumulative(u)' = req[r].old + req[r].reward
        /\ deltas'[req[r].user] = deltas[req[r].user] + req[r].reward
        /\ \A u \in Users \ {req[r].user} :
             Cumulative(u)' = Cumulative(u) /\ deltas'[u] = deltas[u]
        /\ \A u \in Users : Leaf(u)' = Leaf(u)
    BY <1>0, <2>1, WriteEffect DEF NewCumulative, Leaf
  <2>4. \A u \in Users : deltas[u] <= deltas'[u]
    BY <1>3, <2>2, <2>3
  <2>5. \A u \in Users : Cumulative(u)' <= deltas'[u]
    <3>1. \A u \in Users : u = req[r].user => Cumulative(u)' <= deltas'[u]
      BY <1>3, <2>2, <2>3
    <3>2. \A u \in Users \ {req[r].user} : Cumulative(u)' <= deltas'[u]
      BY <1>3, <2>3
    <3> QED BY <3>1, <3>2
  <2>6. \A u \in Users : Leaf(u)' <= deltas'[u]
    BY <1>3, <2>2, <2>3
  <2>7. q # Idle => /\ q.user = req[r].user /\ q.old = req[r].old /\ q.reward = req[r].reward
    BY <1>6 DEF Writes, Keeps
  <2> QED BY <1>3, <2>2, <2>3, <2>4, <2>5, <2>6, <2>7
<1>7. CASE Finishes(r, q)
  <2>1. q = Idle /\ req[r] # Idle /\ req[r].pc = "upsert" /\ deltas' = deltas /\ users' = users
        /\ tree' = IF NewCumulative(r) = 0 THEN tree
                   ELSE [tree EXCEPT ![req[r].user] = NewCumulative(r)]
    BY <1>7 DEF Finishes, UpsertUser, At
  <2>2. /\ req[r].user \in Users /\ NewCumulative(r) \in Nat
        /\ NewCumulative(r) <= deltas[req[r].user]
    BY <1>0, <2>1, CallTyped DEF CreditInv, CallsWithinTaps
  <2>3. \A u \in Users : Leaf(u)' = Leaf(u) \/ (u = req[r].user /\ Leaf(u)' = NewCumulative(r))
    BY <1>0, <2>1, <2>2, NoneAssumption DEF Leaf, TypeOK
  <2>4. \A u \in Users : Cumulative(u)' = Cumulative(u)
    BY <2>1 DEF Cumulative
  <2> QED BY <1>3, <2>1, <2>2, <2>3, <2>4
<1> QED BY <1>4, <1>5, <1>6, <1>7 DEF Kind

LEMMA NextCredit == CreditInv /\ [Next]_vars => CreditInv'
<1> SUFFICES ASSUME CreditInv, [Next]_vars PROVE CreditInv'
  OBVIOUS
<1>0. TypeOK /\ TypeOK'
  BY NextTypeOK DEF CreditInv
<1>1. CASE \E r \in Requests : Call(r)
  BY <1>1, CallCredit
<1>2. CASE ~ \E r \in Requests : Call(r)
  <2>1. /\ \A u \in Users : Cumulative(u)' = Cumulative(u)
        /\ deltas' = deltas
        /\ UNCHANGED <<req, tree>> \/ (req' = [r \in Requests |-> Idle] /\ tree' = Hydrated)
    BY <1>0, <1>2, OtherEffect
  <2>2. \A u \in Users : Leaf(u)' <= deltas[u]
    <3> SUFFICES ASSUME NEW u \in Users PROVE Leaf(u)' <= deltas[u]
      OBVIOUS
    <3>1. Leaf(u)' = Leaf(u) \/ Leaf(u)' = 0 \/ Leaf(u)' = Cumulative(u)
      BY <1>0, <2>1, HydratedLeaf DEF Leaf
    <3> QED BY <1>0, <3>1, AmountTypes DEF CreditInv, CreditedWithinTaps
  <2>3. CreditedWithinTaps'
    BY <2>1, <2>2 DEF CreditInv, CreditedWithinTaps
  <2>4. CallsWithinTaps'
    BY <2>1 DEF CreditInv, CallsWithinTaps, NewCumulative
  <2> QED BY <1>0, <2>3, <2>4 DEF CreditInv
<1> QED BY <1>1, <1>2

(* Whatever the store, neither the users table nor a leaf the Proof API    *)
(* serves is ever worth more than the user's taps.                         *)
THEOREM CreditWithinTaps == Spec => []CreditedWithinTaps
<1>1. CreditInv => CreditedWithinTaps
  BY DEF CreditInv
<1> QED BY <1>1, InitCredit, NextCredit, PTL DEF Spec

-----------------------------------------------------------------------------
(* The rate limits *)

\* With the SQLite store there is one call at a time.
OneCall ==
    ~Interleaved => \A r, p \in Requests : req[r] # Idle /\ req[p] # Idle => r = p

\* Calls that have passed a limit's check and have not written their tap yet.
Pending(u, t, d, past) ==
    {r \in Requests : /\ req[r] # Idle /\ req[r].pc \in past
                      /\ req[r].user = u /\ req[r].now \in t .. t + d}

\* Taps of the window and calls that may still add to it.
Rate(d, limit, past) ==
    \A u \in Users, t \in Nat :
        Cardinality(Window(u, t, d)) + Cardinality(Pending(u, t, d, past))
            < limit + Concurrency

PastSecond == {"day", "sum", "apply"}
PastDay == {"sum", "apply"}

RateInv == /\ TypeOK /\ OneCall
           /\ Rate(1, MaxTapsPerSecond, PastSecond)
           /\ Rate(Day, MaxTapsPerDay, PastDay)

LEMMA OneCallKept ==
    ASSUME TypeOK, OneCall, [Next]_vars
    PROVE  OneCall'
<1>1. CASE \E r \in Requests : Call(r)
  <2> PICK r \in Requests, q \in Request \cup {Idle} : Kind(r, q)
    BY <1>1, CallKinds
  <2>1. \A p \in Requests \ {r} : req'[p] = req[p]
    BY DEF Kind, TypeOK
  <2>2. ~Interleaved => \A p \in Requests \ {r} : req[p] = Idle
    <3>1. CASE req[r] # Idle
      BY <3>1 DEF OneCall
    <3>2. CASE req[r] = Idle
      <4>1. MayRun(r)
        BY <3>2 DEF Kind, Enters, Moves, Writes, Finishes, UpsertUser, At
      <4> QED BY <4>1 DEF MayRun, Active
    <3> QED BY <3>1, <3>2
  <2> QED BY <2>1, <2>2 DEF OneCall
<1>2. CASE ~ \E r \in Requests : Call(r)
  BY <1>2, OtherEffect DEF OneCall
<1> QED BY <1>1, <1>2

LEMMA ConcurrencyType == Concurrency \in Nat
BY GameServerAssumption, FS_CardinalityType DEF Concurrency

LEMMA WindowFinite ==
    ASSUME TypeOK, NEW u \in Users, NEW t \in Nat, NEW d \in Nat, NEW past
    PROVE  /\ IsFiniteSet(Window(u, t, d)) /\ Cardinality(Window(u, t, d)) \in Nat
           /\ IsFiniteSet(Pending(u, t, d, past))
           /\ Cardinality(Pending(u, t, d, past)) \in Nat
BY GameServerAssumption, FS_Subset, FS_CardinalityType DEF TypeOK, Window, Pending

(* A step that adds no tap and takes no call past the check keeps the limit. *)
LEMMA RateUnchanged ==
    ASSUME TypeOK, TypeOK', NEW d \in Nat, NEW limit \in Nat, NEW past,
           Rate(d, limit, past), tapEvents' = tapEvents,
           \A u \in Users, t \in Nat : Pending(u, t, d, past)' \subseteq Pending(u, t, d, past)
    PROVE  Rate(d, limit, past)'
<1> SUFFICES ASSUME NEW u \in Users, NEW t \in Nat
             PROVE  Cardinality(Window(u, t, d)') + Cardinality(Pending(u, t, d, past)')
                      < limit + Concurrency
  BY DEF Rate, Concurrency
<1> DEFINE W == Window(u, t, d)  P == Pending(u, t, d, past)
<1> SUFFICES Cardinality(W') + Cardinality(P') < limit + Concurrency
  OBVIOUS
<1>1. IsFiniteSet(P) /\ Cardinality(P) \in Nat /\ Cardinality(W) \in Nat
  BY WindowFinite
<1>2. W' = W
  BY DEF Window
<1>3. Cardinality(P') <= Cardinality(P) /\ Cardinality(P') \in Nat
  BY <1>1, FS_Subset, FS_CardinalityType
<1>4. Cardinality(W) + Cardinality(P) < limit + Concurrency
  BY DEF Rate
<1>5. Concurrency \in Nat
  BY ConcurrencyType
<1> HIDE DEF W, P
<1> QED BY <1>1, <1>2, <1>3, <1>4, <1>5

(* A call that passes the check has counted every tap of any window it will *)
(* add to, and each pending call is one of at most Concurrency.             *)
LEMMA RatePassed ==
    ASSUME TypeOK, TypeOK', OneCall', NEW d \in Nat, NEW limit \in Nat, NEW past,
           Rate(d, limit, past), tapEvents' = tapEvents,
           NEW r \in Requests, NEW q \in Request, req' = [req EXCEPT ![r] = q],
           req[r] # Idle, Keeps(r, q),
           Cardinality(TapsSince(req[r].user, req[r].now - d)) < limit
    PROVE  Rate(d, limit, past)'
<1> SUFFICES ASSUME NEW u \in Users, NEW t \in Nat
             PROVE  Cardinality(Window(u, t, d)') + Cardinality(Pending(u, t, d, past)')
                      < limit + Concurrency
  BY DEF Rate, Concurrency
<1> DEFINE W == Window(u, t, d)  P == Pending(u, t, d, past)
           S == TapsSince(req[r].user, req[r].now - d)
<1> SUFFICES Cardinality(W') + Cardinality(P') < limit + Concurrency
  OBVIOUS
<1>1. /\ IsFiniteSet(P) /\ Cardinality(P) \in Nat /\ Cardinality(W) \in Nat
  BY WindowFinite
<1>2. W' = W
  BY DEF Window
<1>3. Cardinality(W) + Cardinality(P) < limit + Concurrency
  BY DEF Rate
<1>4. Concurrency \in Nat
  BY ConcurrencyType
<1>5. /\ req[r].user \in Users /\ req[r].now \in Nat
      /\ q.user = req[r].user /\ q.now = req[r].now /\ req'[r] = q
      /\ \A p \in Requests \ {r} : req'[p] = req[p]
  BY CallTyped DEF Keeps, TypeOK
<1>6. CASE u = req[r].user /\ req[r].now \in t .. t + d
  <2>1. W \subseteq S
    BY <1>5, <1>6 DEF Window, TapsSince, TypeOK, TapEvent
  <2>2. IsFiniteSet(S) /\ Cardinality(S) \in Nat
    BY FS_Subset, FS_CardinalityType DEF TypeOK, TapsSince
  <2>3. Cardinality(W) <= Cardinality(S)
    BY <2>1, <2>2, FS_Subset
  <2>4. Cardinality(P') \in Nat /\ Cardinality(P') <= Concurrency
    <3>1. CASE Interleaved
      <4>1. P' \subseteq Requests
        BY DEF Pending
      <4> QED BY <3>1, <4>1, GameServerAssumption, FS_Subset, FS_CardinalityType DEF Concurrency
    <3>2. CASE ~Interleaved
      <4>1. P' \subseteq {r}
        BY <1>5, <3>2, NoneAssumption DEF Pending, OneCall
      <4>2. IsFiniteSet({r}) /\ Cardinality({r}) = 1 /\ Concurrency = 1
        BY <3>2, FS_Singleton DEF Concurrency
      <4> HIDE DEF P
      <4>3. IsFiniteSet(P') /\ Cardinality(P') <= Cardinality({r})
        BY <4>1, <4>2, FS_Subset
      <4> QED BY <4>2, <4>3, FS_CardinalityType
    <3> QED BY <3>1, <3>2
  <2> HIDE DEF W, P, S
  <2>5. Cardinality(S) < limit
    BY DEF S
  <2> QED BY <1>1, <1>2, <1>4, <2>2, <2>3, <2>4, <2>5
<1>7. CASE ~(u = req[r].user /\ req[r].now \in t .. t + d)
  <2>1. P' \subseteq P
    BY <1>5, <1>7 DEF Pending
  <2>2. Cardinality(P') <= Cardinality(P) /\ Cardinality(P') \in Nat
    BY <1>1, <2>1, FS_Subset, FS_CardinalityType
  <2> HIDE DEF W, P
  <2> QED BY <1>1, <1>2, <1>3, <1>4, <2>2
<1> QED BY <1>6, <1>7

(* The transaction turns a pending call into a tap of the same windows. *)
LEMMA RateWritten ==
    ASSUME TypeOK, TypeOK', NEW d \in Nat, NEW limit \in Nat, NEW past,
           Rate(d, limit, past), "apply" \in past, "upsert" \notin past,
           NEW r \in Requests, NEW q, req' = [req EXCEPT ![r] = q], Writes(r, q)
    PROVE  Rate(d, limit, past)'
<1> SUFFICES ASSUME NEW u \in Users, NEW t \in Nat
             PROVE  Cardinality(Window(u, t, d)') + Cardinality(Pending(u, t, d, past)')
                      < limit + Concurrency
  BY DEF Rate, Concurrency
<1> DEFINE W == Window(u, t, d)  P == Pending(u, t, d, past)
           e == [id |-> Cardinality(tapEvents) + 1, user |-> req[r].user, at |-> req[r].now]
<1> SUFFICES Cardinality(W') + Cardinality(P') < limit + Concurrency
  OBVIOUS
<1>1. /\ IsFiniteSet(P) /\ Cardinality(P) \in Nat
      /\ IsFiniteSet(W) /\ Cardinality(W) \in Nat
  BY WindowFinite
<1>2. Cardinality(W) + Cardinality(P) < limit + Concurrency
  BY DEF Rate
<1>3. Concurrency \in Nat
  BY ConcurrencyType
<1>4. /\ req[r] # Idle /\ req[r].pc = "apply" /\ tapEvents' = tapEvents \cup {e}
      /\ req'[r] = q /\ (q = Idle \/ q.pc = "upsert")
      /\ \A p \in Requests \ {r} : req'[p] = req[p]
  BY DEF Writes, WriteRewardAndTap, At, TypeOK
<1>5. P' \subseteq P \ {r}
  BY <1>4 DEF Pending
<1>6. CASE u = req[r].user /\ req[r].now \in t .. t + d
  <2>1. r \in P
    BY <1>4, <1>6 DEF Pending
  <2>2. Cardinality(P \ {r}) = Cardinality(P) - 1 /\ IsFiniteSet(P \ {r})
    BY <1>1, <2>1, FS_RemoveElement
  <2>3. Cardinality(P') <= Cardinality(P) - 1 /\ Cardinality(P') \in Nat
    BY <1>5, <2>2, FS_Subset, FS_CardinalityType
  <2>4. W' \subseteq W \cup {e}
    BY <1>4 DEF Window
  <2>5. /\ IsFiniteSet(W \cup {e}) /\ Cardinality(W \cup {e}) <= Cardinality(W) + 1
        /\ Cardinality(W \cup {e}) \in Nat
    <3> HIDE DEF W, e
    <3>1. /\ IsFiniteSet(W \cup {e})
          /\ Cardinality(W \cup {e}) = IF e \in W THEN Cardinality(W) ELSE Cardinality(W) + 1
      BY <1>1, FS_AddElement
    <3> QED BY <1>1, <3>1
  <2>6. Cardinality(W') <= Cardinality(W \cup {e}) /\ Cardinality(W') \in Nat
    BY <2>4, <2>5, FS_Subset, FS_CardinalityType
  <2> HIDE DEF W, P, e
  <2> QED BY <1>1, <1>2, <1>3, <2>3, <2>5, <2>6
<1>7. CASE ~(u = req[r].user /\ req[r].now \in t .. t + d)
  <2>1. W' = W
    BY <1>4, <1>7 DEF Window
  <2>2. Cardinality(P') <= Cardinality(P) /\ Cardinality(P') \in Nat
    BY <1>1, <1>5, FS_Subset, FS_CardinalityType
  <2> HIDE DEF W, P, e
  <2> QED BY <1>1, <1>2, <1>3, <2>1, <2>2
<1> QED BY <1>6, <1>7

LEMMA InitRate == Init => RateInv
<1> SUFFICES ASSUME Init PROVE RateInv
  OBVIOUS
<1>1. TypeOK /\ OneCall
  BY InitTypeOK DEF Init, OneCall
<1>2. ASSUME NEW d \in Nat, NEW limit \in Nat \ {0}, NEW past
      PROVE  Rate(d, limit, past)
  <2>1. \A u \in Users, t \in Nat : Window(u, t, d) = {} /\ Pending(u, t, d, past) = {}
    BY DEF Init, Window, Pending
  <2> QED BY <2>1, FS_EmptySet, ConcurrencyType DEF Rate
<1> QED BY <1>1, <1>2, GameServerAssumption DEF RateInv

LEMMA CallRate ==
    ASSUME RateInv, NEW r \in Requests, Call(r)
    PROVE  RateInv'
<1>0. TypeOK /\ TypeOK' /\ OneCall /\ [Next]_vars
  BY CallTypeOK DEF RateInv, Next, Call
<1>1. OneCall'
  BY <1>0, OneCallKept
<1> PICK q \in Request \cup {Idle} : Kind(r, q)
  BY <1>0, CallKinds
<1>2. /\ req' = [req EXCEPT ![r] = q] /\ req'[r] = q
      /\ \A p \in Requests \ {r} : req'[p] = req[p]
  BY <1>0 DEF Kind, TypeOK
<1>3. /\ Rate(1, MaxTapsPerSecond, PastSecond) /\ Rate(Day, MaxTapsPerDay, PastDay)
      /\ MaxTapsPerSecond \in Nat /\ MaxTapsPerDay \in Nat /\ 1 \in Nat /\ Day \in Nat
  BY GameServerAssumption DEF RateInv
<1>4. ASSUME NEW past, NEW d, tapEvents' = tapEvents,
             q = Idle \/ q.pc \notin past
                      \/ (req[r] # Idle /\ Keeps(r, q) /\ req[r].pc \in past)
      PROVE  \A u \in Users, t \in Nat : Pending(u, t, d, past)' \subseteq Pending(u, t, d, past)
  BY <1>2, <1>4 DEF Pending, Keeps
<1>5. CASE Enters(r, q) \/ Finishes(r, q)
  <2>1. tapEvents' = tapEvents /\ (q = Idle \/ q.pc = "row")
    BY <1>5 DEF Enters, Finishes, UpsertUser
  <2>2. Rate(1, MaxTapsPerSecond, PastSecond)'
    BY <1>0, <1>3, <1>4, <2>1, RateUnchanged DEF PastSecond
  <2>3. Rate(Day, MaxTapsPerDay, PastDay)'
    BY <1>0, <1>3, <1>4, <2>1, RateUnchanged DEF PastDay
  <2> QED BY <1>0, <1>1, <2>2, <2>3 DEF RateInv
<1>6. CASE Moves(r, q)
  <2>0. tapEvents' = tapEvents /\ req[r] # Idle
        /\ (q = Idle \/ (q \in Request /\ Keeps(r, q) /\ Passes(r, q)))
    BY <1>6 DEF Moves
  <2>1. Rate(1, MaxTapsPerSecond, PastSecond)'
    <3>1. CASE /\ q \in Request /\ Keeps(r, q)
               /\ Cardinality(TapsSince(req[r].user, req[r].now - 1)) < MaxTapsPerSecond
      BY <1>0, <1>1, <1>2, <1>3, <2>0, <3>1, RatePassed
    <3>2. CASE q = Idle \/ q.pc = "second" \/ (req[r].pc \in PastSecond /\ Keeps(r, q))
      BY <1>0, <1>3, <1>4, <2>0, <3>2, RateUnchanged DEF PastSecond
    <3> QED BY <2>0, <3>1, <3>2 DEF Passes, PastSecond
  <2>2. Rate(Day, MaxTapsPerDay, PastDay)'
    <3>1. CASE /\ q \in Request /\ Keeps(r, q)
               /\ Cardinality(TapsSince(req[r].user, req[r].now - Day)) < MaxTapsPerDay
      BY <1>0, <1>1, <1>2, <1>3, <2>0, <3>1, RatePassed
    <3>2. CASE q = Idle \/ q.pc \in {"second", "day"} \/ (req[r].pc \in PastDay /\ Keeps(r, q))
      BY <1>0, <1>3, <1>4, <2>0, <3>2, RateUnchanged DEF PastDay
    <3> QED BY <2>0, <3>1, <3>2 DEF Passes, PastDay
  <2> QED BY <1>0, <1>1, <2>1, <2>2 DEF RateInv
<1>7. CASE Writes(r, q)
  <2>1. Rate(1, MaxTapsPerSecond, PastSecond)'
    BY <1>0, <1>2, <1>3, <1>7, RateWritten DEF PastSecond
  <2>2. Rate(Day, MaxTapsPerDay, PastDay)'
    BY <1>0, <1>2, <1>3, <1>7, RateWritten DEF PastDay
  <2> QED BY <1>0, <1>1, <2>1, <2>2 DEF RateInv
<1> QED BY <1>5, <1>6, <1>7 DEF Kind

LEMMA NextRate == RateInv /\ [Next]_vars => RateInv'
<1> SUFFICES ASSUME RateInv, [Next]_vars PROVE RateInv'
  OBVIOUS
<1>0. TypeOK /\ TypeOK' /\ OneCall /\ OneCall'
  BY NextTypeOK, OneCallKept DEF RateInv
<1>1. CASE \E r \in Requests : Call(r)
  BY <1>1, CallRate
<1>2. CASE ~ \E r \in Requests : Call(r)
  <2>1. tapEvents' = tapEvents /\ (req' = req \/ req' = [r \in Requests |-> Idle])
    BY <1>0, <1>2, OtherEffect
  <2>2. \A d, past : \A u \in Users, t \in Nat :
          Pending(u, t, d, past)' \subseteq Pending(u, t, d, past)
    BY <2>1 DEF Pending
  <2>3. /\ Rate(1, MaxTapsPerSecond, PastSecond) /\ Rate(Day, MaxTapsPerDay, PastDay)
        /\ MaxTapsPerSecond \in Nat /\ MaxTapsPerDay \in Nat /\ 1 \in Nat /\ Day \in Nat
    BY GameServerAssumption DEF RateInv
  <2>4. Rate(1, MaxTapsPerSecond, PastSecond)'
    BY <1>0, <2>1, <2>2, <2>3, RateUnchanged
  <2>5. Rate(Day, MaxTapsPerDay, PastDay)'
    BY <1>0, <2>1, <2>2, <2>3, RateUnchanged
  <2> QED BY <1>0, <2>4, <2>5 DEF RateInv
<1> QED BY <1>1, <1>2

LEMMA RateInvLimits == RateInv => RateLimits
<1> SUFFICES ASSUME RateInv, NEW u \in Users, NEW t \in 0 .. clock
             PROVE  /\ Cardinality(Window(u, t, 1)) < MaxTapsPerSecond + Concurrency
                    /\ Cardinality(Window(u, t, Day)) < MaxTapsPerDay + Concurrency
  BY DEF RateLimits
<1>1. t \in Nat /\ TypeOK
  BY DEF RateInv, TypeOK
<1>2. Concurrency \in Nat
  BY ConcurrencyType
<1>3. ASSUME NEW d \in Nat, NEW limit \in Nat, NEW past, Rate(d, limit, past)
      PROVE  Cardinality(Window(u, t, d)) < limit + Concurrency
  BY <1>1, <1>2, <1>3, WindowFinite DEF Rate
<1> QED BY <1>3, GameServerAssumption DEF RateInv

(* However calls of recordAction overlap, no second and no day ever holds   *)
(* more taps of a user than the limit and one for each other call that may  *)
(* be in progress; with the SQLite store, never more than the limit.        *)
THEOREM RatesLimited == Spec => []RateLimits
BY InitRate, NextRate, RateInvLimits, PTL DEF Spec

-----------------------------------------------------------------------------
(* One call at a time: the SQLite store *)

\* Strengthening of TapsAreCredited and TreeInSync: what the call in progress
\* read is still true, and only the leaf it is about to write is behind.
Upserting(u) ==
    \E r \in Requests : /\ req[r] # Idle /\ req[r].pc = "upsert"
                        /\ req[r].user = u /\ NewCumulative(r) # 0

CallsAreCurrent ==
    \A r \in Requests, u \in Users :
        req[r] # Idle /\ req[r].pc # "row" /\ req[r].user = u =>
            Cumulative(u) = IF req[r].pc = "upsert" THEN NewCumulative(r) ELSE req[r].old

LeavesAreCurrent ==
    \A u \in Users : tree[u] = NoLeaf \/ tree[u] = Cumulative(u) \/ Upserting(u)

SerialInv == TypeOK /\ OneCall /\ TapsAreCredited /\ CallsAreCurrent /\ LeavesAreCurrent

LEMMA InitSerial == Init => SerialInv
<1> SUFFICES ASSUME Init PROVE SerialInv
  OBVIOUS
<1>1. TypeOK
  BY InitTypeOK
<1>2. OneCall /\ TapsAreCredited /\ CallsAreCurrent /\ LeavesAreCurrent
  BY DEF Init, OneCall, TapsAreCredited, CallsAreCurrent, LeavesAreCurrent, Cumulative
<1> QED BY <1>1, <1>2 DEF SerialInv

(* With one call, no other call has a record before or after r's step. *)
LEMMA OnlyCall ==
    ASSUME ~Interleaved, SerialInv, NEW r \in Requests,
           NEW q \in Request \cup {Idle}, Kind(r, q)
    PROVE  \A p \in Requests \ {r} : req[p] = Idle /\ req'[p] = Idle
<1>1. \A p \in Requests \ {r} : req'[p] = req[p]
  BY DEF Kind, SerialInv, TypeOK
<1>2. CASE req[r] # Idle
  BY <1>1, <1>2 DEF SerialInv, OneCall
<1>3. CASE req[r] = Idle
  <2>1. MayRun(r)
    BY <1>3 DEF Kind, Enters, Moves, Writes, Finishes, UpsertUser, At
  <2> QED BY <1>1, <2>1 DEF MayRun, Active
<1> QED BY <1>2, <1>3

LEMMA CallSerial ==
    ASSUME ~Interleaved, SerialInv, NEW r \in Requests, Call(r)
    PROVE  TapsAreCredited' /\ CallsAreCurrent' /\ LeavesAreCurrent'
<1> USE NoneAssumption
<1>0. TypeOK /\ TypeOK' /\ OneCall /\ TapsAreCredited /\ CallsAreCurrent /\ LeavesAreCurrent
  BY CallTypeOK DEF SerialInv
<1> PICK q \in Request \cup {Idle} : Kind(r, q)
  BY <1>0, CallKinds
<1>1. /\ req'[r] = q
      /\ \A p \in Requests \ {r} : req[p] = Idle /\ req'[p] = Idle
  BY <1>0, OnlyCall DEF Kind, TypeOK
<1>2. \A u \in Users : Cumulative(u) \in Nat /\ Cumulative(u) = deltas[u]
  BY <1>0, AmountTypes DEF TapsAreCredited
<1>3. CASE Enters(r, q)
  <2>1. TapsAreCredited'
    BY <1>2, <1>3 DEF TapsAreCredited, Enters
  <2>2. CallsAreCurrent'
    BY <1>1, <1>3 DEF CallsAreCurrent, Enters
  <2>3. \A u \in Users : ~Upserting(u)
    BY <1>1, <1>3 DEF Upserting, Enters
  <2> QED BY <1>0, <1>3, <2>1, <2>2, <2>3 DEF LeavesAreCurrent, Enters
<1>4. CASE Moves(r, q)
  <2>1. TapsAreCredited' /\ \A u \in Users : Cumulative(u)' = Cumulative(u)
    BY <1>2, <1>4 DEF TapsAreCredited, Moves, Cumulative
  <2>2. /\ req[r] # Idle /\ req[r].user \in Users
        /\ q # Idle => /\ q.user = req[r].user /\ q.pc \notin {"row", "upsert"}
                       /\ q.old = Cumulative(req[r].user)
    <3>1. req[r] # Idle /\ req[r].user \in Users
      BY <1>0, <1>4, CallTyped DEF Moves
    <3>2. q # Idle => Keeps(r, q) /\ Passes(r, q)
      BY <1>4 DEF Moves
    <3> QED BY <1>0, <3>1, <3>2 DEF Keeps, Passes, CallsAreCurrent
  <2>3. CallsAreCurrent'
    <3> SUFFICES ASSUME NEW p \in Requests, NEW u \in Users, req'[p] # Idle, req'[p].user = u
                 PROVE  Cumulative(u)' = req'[p].old /\ req'[p].pc # "upsert"
      BY DEF CallsAreCurrent
    <3>1. p = r /\ q # Idle /\ u = req[r].user
      BY <1>1, <2>2
    <3> QED BY <1>1, <2>1, <2>2, <3>1
  <2>4. \A u \in Users : ~Upserting(u)
    BY <1>1, <1>4 DEF Upserting, Moves, Passes
  <2> QED BY <1>0, <1>4, <2>1, <2>3, <2>4 DEF LeavesAreCurrent, Moves
<1>5. CASE Writes(r, q)
  <2>1. req[r] # Idle /\ req[r].pc = "apply" /\ WriteRewardAndTap(r)
    BY <1>5 DEF Writes, At
  <2>2. /\ req[r].user \in Users /\ req[r].old = Cumulative(req[r].user)
        /\ req[r].old \in Nat /\ req[r].reward \in Nat
    BY <1>0, <2>1, CallTyped DEF CallsAreCurrent
  <2>3. /\ \A u \in Users : u = req[r].user =>
             Cumulative(u)' = req[r].old + req[r].reward
        /\ deltas'[req[r].user] = deltas[req[r].user] + req[r].reward
        /\ \A u \in Users \ {req[r].user} :
             Cumulative(u)' = Cumulative(u) /\ deltas'[u] = deltas[u]
        /\ tree' = tree
    BY <1>0, <2>1, WriteEffect DEF NewCumulative
  <2>4. TapsAreCredited'
    BY <1>2, <2>2, <2>3 DEF TapsAreCredited
  <2>5. q # Idle => /\ q.user = req[r].user /\ q.old = req[r].old
                    /\ q.reward = req[r].reward /\ q.pc = "upsert"
    BY <1>5 DEF Writes, Keeps
  <2>6. CallsAreCurrent'
    <3> SUFFICES ASSUME NEW p \in Requests, NEW u \in Users, req'[p] # Idle, req'[p].user = u
                 PROVE  Cumulative(u)' = NewCumulative(p)' /\ req'[p].pc = "upsert"
      BY DEF CallsAreCurrent
    <3>1. p = r /\ q # Idle
      BY <1>1
    <3> QED BY <1>1, <2>2, <2>3, <2>5, <3>1 DEF NewCumulative
  <2>7. LeavesAreCurrent'
    <3> SUFFICES ASSUME NEW u \in Users, tree[u] # NoLeaf
                 PROVE  tree[u] = Cumulative(u)' \/ Upserting(u)'
      BY <2>3 DEF LeavesAreCurrent
    <3>1. ~Upserting(u)
      BY <1>1, <2>1 DEF Upserting
    <3>2. tree[u] = Cumulative(u)
      BY <1>0, <3>1 DEF LeavesAreCurrent
    <3>3. CASE u # req[r].user
      BY <2>3, <3>2, <3>3
    <3>4. CASE u = req[r].user
      <4>1. q # Idle
        BY <1>5 DEF Writes
      <4>2. Upserting(u)' \/ req[r].old + req[r].reward = 0
        BY <1>1, <2>5, <3>4, <4>1 DEF Upserting, NewCumulative
      <4>3. Cumulative(u)' = req[r].old + req[r].reward
        BY <2>3, <3>4
      <4> QED BY <2>2, <3>2, <3>4, <4>2, <4>3
    <3> QED BY <3>3, <3>4
  <2> QED BY <2>4, <2>6, <2>7
<1>6. CASE Finishes(r, q)
  <2>1. /\ q = Idle /\ req[r] # Idle /\ req[r].pc = "upsert"
        /\ deltas' = deltas /\ users' = users
        /\ tree' = IF NewCumulative(r) = 0 THEN tree
                   ELSE [tree EXCEPT ![req[r].user] = NewCumulative(r)]
    BY <1>6 DEF Finishes, UpsertUser, At
  <2>2. req[r].user \in Users /\ NewCumulative(r) = Cumulative(req[r].user)
    BY <1>0, <2>1, CallTyped DEF CallsAreCurrent
  <2>3. \A u \in Users : Cumulative(u)' = Cumulative(u)
    BY <2>1 DEF Cumulative
  <2>4. TapsAreCredited' /\ CallsAreCurrent'
    BY <1>1, <1>2, <2>1, <2>3 DEF TapsAreCredited, CallsAreCurrent
  <2>5. ASSUME NEW u \in Users, tree'[u] # NoLeaf
        PROVE  tree'[u] = Cumulative(u)
    <3>1. CASE NewCumulative(r) # 0 /\ u = req[r].user
      BY <1>0, <2>1, <2>2, <3>1 DEF TypeOK
    <3>2. CASE NewCumulative(r) = 0 \/ u # req[r].user
      <4>1. tree'[u] = tree[u]
        BY <1>0, <2>1, <3>2 DEF TypeOK
      <4>2. ~Upserting(u)
        BY <1>1, <3>2 DEF Upserting
      <4> QED BY <1>0, <2>5, <4>1, <4>2 DEF LeavesAreCurrent
    <3> QED BY <3>1, <3>2
  <2>6. LeavesAreCurrent'
    BY <2>3, <2>5 DEF LeavesAreCurrent
  <2> QED BY <2>4, <2>6
<1> QED BY <1>3, <1>4, <1>5, <1>6 DEF Kind

LEMMA NextSerial ==
    ASSUME ~Interleaved
    PROVE  SerialInv /\ [Next]_vars => SerialInv'
<1> SUFFICES ASSUME SerialInv, [Next]_vars PROVE SerialInv'
  OBVIOUS
<1>0. TypeOK /\ TypeOK' /\ OneCall /\ OneCall'
  BY NextTypeOK, OneCallKept DEF SerialInv
<1>1. CASE \E r \in Requests : Call(r)
  BY <1>0, <1>1, CallSerial DEF SerialInv
<1>2. CASE ~ \E r \in Requests : Call(r)
  <2>1. /\ \A u \in Users : Cumulative(u)' = Cumulative(u)
        /\ deltas' = deltas
        /\ UNCHANGED <<req, tree>> \/ (req' = [r \in Requests |-> Idle] /\ tree' = Hydrated)
    BY <1>0, <1>2, OtherEffect
  <2>2. TapsAreCredited'
    BY <2>1 DEF SerialInv, TapsAreCredited
  <2>3. CASE UNCHANGED <<req, tree>>
    <3>1. \A r \in Requests : req[r] # Idle => req[r].user \in Users
      BY <1>0, CallTyped
    <3>2. CallsAreCurrent'
      BY <2>1, <2>3, <3>1 DEF SerialInv, CallsAreCurrent, NewCumulative
    <3>3. LeavesAreCurrent'
      BY <2>1, <2>3 DEF SerialInv, LeavesAreCurrent, Upserting, NewCumulative
    <3> QED BY <1>0, <2>2, <3>2, <3>3 DEF SerialInv
  <2>4. CASE req' = [r \in Requests |-> Idle] /\ tree' = Hydrated
    <3>1. CallsAreCurrent'
      BY <2>4 DEF CallsAreCurrent
    <3>2. LeavesAreCurrent'
      BY <1>0, <2>1, <2>4, HydratedLeaf DEF LeavesAreCurrent
    <3> QED BY <1>0, <2>2, <3>1, <3>2 DEF SerialInv
  <2> QED BY <2>1, <2>3, <2>4
<1> QED BY <1>1, <1>2

(* With the SQLite store no reward is lost: the amount in users is the sum  *)
(* of the user's taps, through failures, bans and restarts.                 *)
THEOREM NoRewardLost ==
    ASSUME ~Interleaved
    PROVE  Spec => []TapsAreCredited
<1>1. SerialInv => TapsAreCredited
  BY DEF SerialInv
<1> QED BY <1>1, InitSerial, NextSerial, PTL DEF Spec

(* With the SQLite store, between calls, a leaf is the amount in users.     *)
THEOREM LeavesInSync ==
    ASSUME ~Interleaved
    PROVE  Spec => []TreeInSync
<1>1. SerialInv => TreeInSync
  BY DEF SerialInv, TreeInSync, LeavesAreCurrent, Upserting, Quiet, Active
<1> QED BY <1>1, InitSerial, NextSerial, PTL DEF Spec

-----------------------------------------------------------------------------
(* Refinement of ClaimLedger *)

earnedMap == [u \in Users |-> Cumulative(u)]

LEMMA InitEarns == Init => Earnings!Init
<1> SUFFICES ASSUME Init PROVE Earnings!Init
  OBVIOUS
<1>1. \A u \in Users : Cumulative(u) = 0
  BY DEF Init, Cumulative
<1> QED BY <1>1 DEF Earnings!Init

LEMMA NextEarns ==
    ASSUME ~Interleaved
    PROVE  SerialInv /\ [Next]_vars => Earnings!Next \/ earnedMap' = earnedMap
<1> SUFFICES ASSUME SerialInv, [Next]_vars PROVE Earnings!Next \/ earnedMap' = earnedMap
  OBVIOUS
<1>0. TypeOK /\ CallsAreCurrent
  BY DEF SerialInv
<1>1. ASSUME \A u \in Users : Cumulative(u)' = Cumulative(u)
      PROVE  earnedMap' = earnedMap
  BY <1>1 DEF earnedMap
<1>2. CASE \E r \in Requests : Call(r)
  <2> PICK r \in Requests, q \in Request \cup {Idle} : Kind(r, q)
    BY <1>0, <1>2, CallKinds
  <2>1. CASE Enters(r, q) \/ Moves(r, q) \/ Finishes(r, q)
    <3>1. \A u \in Users : Cumulative(u)' = Cumulative(u)
      BY <2>1 DEF Enters, Moves, Finishes, UpsertUser, Cumulative
    <3> QED BY <1>1, <3>1
  <2>2. CASE Writes(r, q)
    <3> DEFINE w == req[r].user
    <3>1. req[r] # Idle /\ req[r].pc = "apply" /\ WriteRewardAndTap(r)
      BY <2>2 DEF Writes, At
    <3>2. /\ w \in Users /\ req[r].old = Cumulative(w)
          /\ req[r].old \in Nat /\ req[r].reward \in Nat
      BY <1>0, <3>1, CallTyped DEF CallsAreCurrent
    <3>3. /\ earnedMap' = [u \in Users |-> Cumulative(u)']
          /\ earnedMap = [u \in Users |-> Cumulative(u)]
      BY DEF earnedMap
    <3>4. /\ \A u \in Users : u = w => Cumulative(u)' = req[r].old + req[r].reward
          /\ \A u \in Users \ {w} : Cumulative(u)' = Cumulative(u)
      BY <1>0, <3>1, WriteEffect DEF NewCumulative
    <3>5. /\ earnedMap'[w] = earnedMap[w] + req[r].reward /\ earnedMap[w] \in Nat
          /\ \A u \in Users \ {w} : earnedMap'[u] = earnedMap[u]
      BY <3>2, <3>3, <3>4
    <3>6. earnedMap' = [earnedMap EXCEPT ![w] = earnedMap'[w]]
      BY <3>3, <3>5
    <3>7. CASE req[r].reward = 0
      BY <3>2, <3>3, <3>4, <3>7, <1>1
    <3>8. CASE req[r].reward > 0
      <4> HIDE DEF w
      <4>1. earnedMap'[w] > earnedMap[w]
        BY <3>2, <3>5, <3>8
      <4>2. Earnings!Earn(w)
        BY <3>6, <4>1 DEF Earnings!Earn, earnedMap
      <4> QED BY <3>2, <4>2 DEF Earnings!Next
    <3> QED BY <3>2, <3>7, <3>8
  <2> QED BY <2>1, <2>2 DEF Kind
<1>3. CASE ~ \E r \in Requests : Call(r)
  BY <1>0, <1>1, <1>3, OtherEffect
<1> QED BY <1>2, <1>3

(* With the SQLite store the backend keeps the earnings side of the claim   *)
(* ledger that RollingJetton's contracts implement the claims side of.      *)
THEOREM EarningsRefined ==
    ASSUME ~Interleaved
    PROVE  Spec => ImplementsEarnings
<1>1. SerialInv /\ [Next]_vars => [Earnings!Next]_<<earnedMap, [w \in {} |-> 0]>>
  BY NextEarns
<1> QED BY <1>1, InitEarns, InitSerial, NextSerial, PTL
        DEF Spec, ImplementsEarnings, Earnings!Spec, earnedMap

-----------------------------------------------------------------------------
(* JETTON_MAX_SUPPLY_NANO *)

\* The users sumCumulativeNonBanned adds up, and what it adds up.
Counted == {u \in Users : users[u] # NoRow /\ ~users[u].banned}
Amounts == [u \in Users |-> Cumulative(u)]

\* The table has finitely many rows, whatever the set of addresses.
FiniteRows == IsFiniteSet({u \in Users : users[u] # NoRow})

(* The sum of the model, as a sum the laws are about: the two folds take the *)
(* same elements in the same order.                                         *)
LEMMA SumNonBanned ==
    TypeOK /\ FiniteRows => NonBannedSum = SumOver(Amounts, Counted) /\ IsFiniteSet(Counted)
<1> SUFFICES ASSUME TypeOK, FiniteRows
             PROVE  NonBannedSum = SumOver(Amounts, Counted) /\ IsFiniteSet(Counted)
  OBVIOUS
<1> DEFINE fold == CHOOSE g : g = [s \in SUBSET Counted |->
                      IF s = {} THEN 0 ELSE Cumulative(First(s)) + g[s \ {First(s)}]]
           p == Partial(Amounts, Counted)
           G == {s \in SUBSET Counted : fold[s] = p[s]}
<1>0. IsFiniteSet(Counted)
  BY FS_Subset DEF FiniteRows, Counted
<1>1. NonBannedSum = fold[Counted]
  BY DEF NonBannedSum, MapThenSumSet, MapThenFoldSet, Counted, First
<1>2. \A s \in SUBSET Counted : s # {} => First(s) \in s /\ First(s) \in Users
  BY DEF First, Counted
<1>3. /\ p = [s \in SUBSET Counted |-> p[s]]
      /\ \A s \in SUBSET Counted : p[s] = Level(Amounts, p, s)
  BY <1>0, PartialShape
<1> HIDE DEF p
<1>4. \A s \in SUBSET Counted :
        Level(Amounts, p, s) = IF s = {} THEN 0 ELSE Cumulative(First(s)) + p[s \ {First(s)}]
  BY <1>2 DEF Level, Amounts
<1>5. p = [s \in SUBSET Counted |->
             IF s = {} THEN 0 ELSE Cumulative(First(s)) + p[s \ {First(s)}]]
  BY <1>3, <1>4
<1>6. fold = [s \in SUBSET Counted |->
                IF s = {} THEN 0 ELSE Cumulative(First(s)) + fold[s \ {First(s)}]]
  BY <1>5
<1> HIDE DEF fold
<1>7. {} \in G
  BY <1>5, <1>6
<1>8. ASSUME NEW s \in SUBSET Counted, s # {}, \A x \in s : s \ {x} \in G
      PROVE  s \in G
  <2>1. fold[s \ {First(s)}] = p[s \ {First(s)}]
    BY <1>2, <1>8
  <2>2. /\ fold[s] = Cumulative(First(s)) + fold[s \ {First(s)}]
        /\ p[s] = Cumulative(First(s)) + p[s \ {First(s)}]
    BY <1>5, <1>6, <1>8
  <2> QED BY <2>1, <2>2
<1>9. G = SUBSET Counted
  <2>1. G \in SUBSET (SUBSET Counted)
    OBVIOUS
  <2> HIDE DEF G
  <2> QED BY <1>0, <1>7, <1>8, <2>1, SubsetInduction
<1> QED BY <1>0, <1>1, <1>9, SumIsPartial DEF p

\* Strengthening of CapRespected for one call at a time: past getUserRow the
\* user's row stays and counts, and a call about to write fits under the cap
\* with what it read.
Fits(r) == NonBannedSum - req[r].old + NewCumulative(r) <= Cap

CapCurrent ==
    \A r \in Requests :
        req[r] # Idle /\ req[r].pc \in {"second", "day", "sum", "apply"} =>
            /\ req[r].user \in Counted
            /\ req[r].pc = "apply" /\ Cap > 0 => Fits(r)

CapInv == SerialInv /\ FiniteRows /\ CapCurrent

LEMMA InitCap == Init => CapInv
<1> SUFFICES ASSUME Init PROVE CapInv
  OBVIOUS
<1>1. {u \in Users : users[u] # NoRow} = {}
  BY DEF Init
<1> QED BY <1>1, InitSerial, FS_EmptySet DEF CapInv, FiniteRows, CapCurrent, Init

(* At most one row is added by a step. *)
LEMMA RowsStayFinite ==
    ASSUME TypeOK, FiniteRows, [Next]_vars
    PROVE  FiniteRows'
<1> DEFINE rows == {u \in Users : users[u] # NoRow}
<1>1. ASSUME NEW w, rows' \subseteq rows \cup {w}
      PROVE  FiniteRows'
  <2>1. IsFiniteSet(rows \cup {w})
    BY FS_AddElement DEF FiniteRows
  <2> QED BY <1>1, <2>1, FS_Subset DEF FiniteRows
<1>2. ASSUME NEW w, NEW x, users' = [users EXCEPT ![w] = x]
      PROVE  FiniteRows'
  BY <1>1, <1>2 DEF TypeOK
<1>3. CASE \E r \in Requests, u \in Users, reward \in Rewards : RecordAction(r, u, reward)
  BY <1>2, <1>3 DEF RecordAction
<1>4. CASE \E r \in Requests : ApplyRewardAndTap(r) \/ CommitReplyLost(r)
  BY <1>2, <1>4 DEF ApplyRewardAndTap, CommitReplyLost, WriteRewardAndTap
<1>5. CASE \E u \in Users, banned \in BOOLEAN : SetBan(u, banned)
  BY <1>2, <1>5 DEF SetBan
<1>6. CASE users' = users
  BY <1>6 DEF FiniteRows
<1> QED
  BY <1>3, <1>4, <1>5, <1>6
     DEF Next, GetUserRow, CountPerSecond, CountPerDay, CheckCap, UpsertUser, StoreCallFails,
         Restart, Tick, vars

(* The sum stays while the table does. *)
LEMMA SumUnchanged ==
    ASSUME TypeOK, FiniteRows, TypeOK', FiniteRows', users' = users
    PROVE  NonBannedSum' = NonBannedSum /\ Counted' = Counted
<1>1. (TypeOK /\ FiniteRows =>
         NonBannedSum = SumOver(Amounts, Counted) /\ IsFiniteSet(Counted))'
  BY SumNonBanned, PTL
<1>2. Counted' = Counted /\ Amounts' = Amounts
  BY DEF Counted, Amounts, Cumulative
<1> QED BY <1>1, <1>2, SumNonBanned

LEMMA SumNonBannedType ==
    ASSUME TypeOK, FiniteRows
    PROVE  NonBannedSum \in Int
<1>1. \A u \in Counted : Amounts[u] \in Int
  BY NoneAssumption DEF TypeOK, Amounts, Counted, Cumulative, Row
<1> QED BY <1>1, SumNonBanned, SumInteger

(* The write of one call: the user's amount grows from what the call read. *)
LEMMA SumWritten ==
    ASSUME TypeOK, FiniteRows, TypeOK', FiniteRows', NEW r \in Requests, At(r, "apply"),
           WriteRewardAndTap(r), req[r].user \in Counted,
           Cumulative(req[r].user) = req[r].old
    PROVE  NonBannedSum' = NonBannedSum - req[r].old + NewCumulative(r)
<1> DEFINE w == req[r].user
           A == Amounts
           B == Amounts'
<1>1. (TypeOK /\ FiniteRows =>
         NonBannedSum = SumOver(Amounts, Counted) /\ IsFiniteSet(Counted))'
  BY SumNonBanned, PTL
<1>2. NonBannedSum = SumOver(A, Counted) /\ IsFiniteSet(Counted)
  BY SumNonBanned
<1>3. /\ w \in Users /\ req[r].old \in Nat /\ NewCumulative(r) \in Nat /\ users[w] \in Row
      /\ req[r] # Idle
  BY CallTyped DEF At
<1>4. Counted' = Counted
  <2>1. users' = [users EXCEPT ![w] = [users[w] EXCEPT !.cumulative = NewCumulative(r)]]
    BY <1>3 DEF WriteRewardAndTap, TypeOK
  <2>2. /\ [users[w] EXCEPT !.cumulative = NewCumulative(r)] \in Row
        /\ [users[w] EXCEPT !.cumulative = NewCumulative(r)].banned = users[w].banned
    BY <1>3 DEF Row
  <2>3. users'[w] # NoRow /\ users'[w].banned = users[w].banned
        /\ \A u \in Users \ {w} : users'[u] = users[u]
    BY <1>3, <2>1, <2>2, NoneAssumption DEF TypeOK
  <2> QED BY <1>3, <2>3, NoneAssumption DEF Counted
<1>5. /\ \A u \in Users : u = w => Cumulative(u)' = NewCumulative(r)
      /\ \A u \in Users \ {w} : Cumulative(u)' = Cumulative(u)
  BY <1>3, WriteEffect
<1>6. /\ A[w] = req[r].old /\ B[w] = NewCumulative(r)
      /\ \A u \in Counted \ {w} : A[u] = B[u]
  BY <1>3, <1>5 DEF Amounts, Counted
<1>7. \A u \in Users : Cumulative(u) \in Int
  BY NoneAssumption DEF TypeOK, Cumulative, Row
<1>8. \A u \in Counted : A[u] \in Int /\ B[u] \in Int
  BY <1>3, <1>5, <1>7 DEF Amounts, Counted
<1> HIDE DEF A, B, w
<1>9. SumOver(B, Counted) = SumOver(A, Counted) + (B[w] - A[w])
  BY <1>2, <1>6, <1>8, SumChange DEF w
<1>10. SumOver(A, Counted) \in Int
  BY <1>2, <1>8, SumInteger
<1>11. NonBannedSum' = SumOver(B, Counted)
  BY <1>1, <1>4 DEF B
<1> QED BY <1>2, <1>3, <1>6, <1>9, <1>10, <1>11

(* A step of the one call there is keeps what the cap needs. *)
LEMMA CallCap ==
    ASSUME ~Interleaved, CapInv, SerialInv', FiniteRows', NEW r \in Requests, Call(r)
    PROVE  CapCurrent'
<1>0. TypeOK /\ TypeOK' /\ FiniteRows /\ CapCurrent
  BY DEF CapInv, SerialInv
<1>1. \A p \in Requests \ {r} : req'[p] = Idle
  <2> PICK q \in Request \cup {Idle} : Kind(r, q)
    BY <1>0, CallKinds
  <2> QED BY OnlyCall DEF CapInv
<1>2. SUFFICES ASSUME req'[r] # Idle, req'[r].pc \in {"second", "day", "sum", "apply"}
               PROVE  /\ req'[r].user \in Counted'
                      /\ req'[r].pc = "apply" /\ Cap > 0 => Fits(r)'
  BY <1>1 DEF CapCurrent
<1>3. CASE users' = users /\ req[r] # Idle /\ req'[r].user = req[r].user
  <2>0. /\ ~Return(r) /\ req[r] \in Request
        /\ \A pc : Goto(r, pc) => req'[r].pc = pc
    BY <1>0, <1>2, <1>3, CallTyped DEF Return, Goto, TypeOK, Request
  <2>1. NonBannedSum' = NonBannedSum /\ Counted' = Counted
    BY <1>0, <1>3, SumUnchanged
  <2>2. CASE GetUserRow(r)
    <3>1. req[r].user \in Users /\ users[req[r].user] # NoRow
      BY <1>0, <1>3, CallTyped, NoneAssumption
    <3>2. ~users[req[r].user].banned /\ req'[r].pc = "second"
      <4>1. /\ ~users[req[r].user].banned
            /\ req' = [req EXCEPT ![r].pc = "second", ![r].old = users[req[r].user].cumulative]
        BY <2>0, <2>2 DEF GetUserRow
      <4> QED BY <1>0, <2>0, <4>1 DEF TypeOK, Request
    <3> QED BY <1>3, <2>1, <3>1, <3>2 DEF Counted
  <2>3. CASE CountPerSecond(r) \/ CountPerDay(r)
    <3>1. /\ req[r].pc \in {"second", "day"}
          /\ req'[r].pc = "apply" => ~(Cap > 0)
      BY <2>0, <2>3 DEF CountPerSecond, CountPerDay, At
    <3> QED BY <1>0, <1>3, <2>1, <3>1 DEF CapCurrent
  <2>4. CASE CheckCap(r)
    <3>1. req[r].pc = "sum" /\ Fits(r) /\ req' = [req EXCEPT ![r].pc = "apply"]
      <4>1. At(r, "sum") /\ ~(NonBannedSum - req[r].old + NewCumulative(r) > Cap)
            /\ Goto(r, "apply")
        BY <2>0, <2>4 DEF CheckCap
      <4>2. NonBannedSum \in Int /\ req[r].old \in Int /\ NewCumulative(r) \in Int
        BY <1>0, <1>3, CallTyped, SumNonBannedType
      <4>3. Fits(r)
        BY <4>1, <4>2, GameServerAssumption DEF Fits
      <4> QED BY <4>1, <4>3 DEF Goto, At
    <3>2. req'[r].old = req[r].old /\ req'[r].reward = req[r].reward
      BY <1>0, <1>3, <3>1, CallTyped DEF TypeOK, Request
    <3> QED BY <1>0, <1>3, <2>1, <3>1, <3>2 DEF CapCurrent, Fits, NewCumulative
  <2>5. CASE ~(GetUserRow(r) \/ CountPerSecond(r) \/ CountPerDay(r) \/ CheckCap(r))
    BY <1>0, <1>2, <1>3, <2>5
       DEF Call, RecordAction, ApplyRewardAndTap, UpsertUser, StoreCallFails, CommitReplyLost,
           Return, Goto, TypeOK, At, Request
  <2> QED BY <2>2, <2>3, <2>4, <2>5
<1>4. CASE ~(users' = users /\ req[r] # Idle /\ req'[r].user = req[r].user)
  BY <1>0, <1>2, <1>4
     DEF Call, RecordAction, GetUserRow, CountPerSecond, CountPerDay, CheckCap,
         ApplyRewardAndTap, UpsertUser, StoreCallFails, CommitReplyLost, Return, Goto, TypeOK,
         At, Request
<1> QED BY <1>3, <1>4

LEMMA NextCap ==
    ASSUME ~Interleaved
    PROVE  CapInv /\ [Next]_vars => CapInv'
<1> SUFFICES ASSUME CapInv, [Next]_vars PROVE CapInv'
  OBVIOUS
<1>1. SerialInv' /\ FiniteRows' /\ TypeOK /\ TypeOK' /\ FiniteRows
  BY NextSerial, RowsStayFinite DEF CapInv, SerialInv
<1>2. CASE \E r \in Requests : Call(r)
  BY <1>1, <1>2, CallCap DEF CapInv
<1>3. CASE ~ \E r \in Requests : Call(r)
  <2>1. CASE UNCHANGED <<users, req>>
    <3>1. NonBannedSum' = NonBannedSum /\ Counted' = Counted
      BY <1>1, <2>1, SumUnchanged
    <3>2. CapCurrent'
      BY <2>1, <3>1 DEF CapInv, CapCurrent, Fits, NewCumulative
    <3> QED BY <1>1, <3>2 DEF CapInv
  <2>2. CASE \A r \in Requests : req'[r] = Idle
    BY <1>1, <2>2 DEF CapInv, CapCurrent
  <2> QED
    BY <1>1, <1>3, <2>1, <2>2
       DEF Next, Call, SetBan, Restart, Tick, vars, Quiet, Active, TypeOK
<1> QED BY <1>2, <1>3

(* With the SQLite store, an action never takes the sum of the amounts of   *)
(* the users that are not banned over JETTON_MAX_SUPPLY_NANO: what the call *)
(* read and summed is still true when it writes.                            *)
THEOREM CapKept ==
    ASSUME ~Interleaved
    PROVE  Spec => CapRespected
<1>1. CapInv /\ [Next]_vars => [Cap > 0 /\ deltas' # deltas => NonBannedSum' <= Cap]_vars
  <2> SUFFICES ASSUME CapInv, [Next]_vars, Cap > 0, deltas' # deltas
               PROVE  NonBannedSum' <= Cap
    OBVIOUS
  <2>1. TypeOK /\ TypeOK' /\ FiniteRows /\ FiniteRows' /\ CapCurrent /\ CallsAreCurrent
    BY NextTypeOK, RowsStayFinite DEF CapInv, SerialInv
  <2>2. PICK r \in Requests : ApplyRewardAndTap(r)
    BY DEF Next, RecordAction, GetUserRow, CountPerSecond, CountPerDay, CheckCap, UpsertUser,
           StoreCallFails, CommitReplyLost, SetBan, Restart, Tick, vars
  <2>3. At(r, "apply") /\ WriteRewardAndTap(r) /\ req[r] # Idle /\ req[r].pc = "apply"
    BY <2>2 DEF ApplyRewardAndTap, At
  <2>4. req[r].user \in Counted /\ Fits(r) /\ Cumulative(req[r].user) = req[r].old
    BY <2>1, <2>3, CallTyped DEF CapCurrent, CallsAreCurrent
  <2>5. NonBannedSum' = NonBannedSum - req[r].old + NewCumulative(r)
    BY <2>1, <2>3, <2>4, SumWritten
  <2> QED BY <2>4, <2>5 DEF Fits
<1> QED BY <1>1, InitCap, NextCap, PTL DEF Spec, CapRespected
=============================================================================
