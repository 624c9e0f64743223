---------------------------- MODULE BackendProofs ----------------------------
(***************************************************************************)
(* What the runs of Backend check on small instances, proved for any       *)
(* users, callers and bounds, and for both stores: types, the numbering of *)
(* signed epochs through crashes, the numbering of commits, the epoch      *)
(* register that both implement, and that no root is worth more than taps. *)
(***************************************************************************)
EXTENDS Backend, TLAPS

USE RootUpdaterAssumption, TreeBuilderAssumption, BackendAssumption,
    NoneAssumption, NoCallAssumption

(* The steps of tick, of syncWithState and of everything else, by name. *)
Builder == (\E force \in BOOLEAN : BuilderTick(force)) \/ BuilderStep
Updater == (\E s \in Callers : UpdaterStep(s)) \/ AdminSync \/ StartupSync
UserStep ==
    \E u \in Users :
      \/ \E at \in 0 .. clock : \E old \in reads[u] : TapCommit(u, at, old)
      \/ TapUpsert(u) \/ TapReplyLost(u)
      \/ \E banned \in BOOLEAN : SetBan(u, banned)

LEMMA Steps ==
    ASSUME Next
    PROVE  UserStep \/ Builder \/ Updater \/ ChainStep \/ Restart \/ ClockTick
BY DEF Next, UserStep, Builder, Updater

-----------------------------------------------------------------------------
(* Types *)

LEMMA EmptyTreeTyped == EmptyTree \in Tree /\ NoOne \in [Users -> Nat \cup {NoRow}]
BY DEF EmptyTree, Tree, NoOne

LEMMA BanTyped == \A u \in Users : Banned(u) \in BOOLEAN
BY DEF Banned

(* A call in progress is typed. *)
LEMMA CallsTyped ==
    ASSUME TypeOK
    PROVE  /\ tick # Idle => tick \in TickCall
           /\ \A s \in Callers : sync[s] # Idle => sync[s] \in SyncCall
BY DEF TypeOK

(* syncWithState up to its first await. *)
LEMMA SyncWithStateTyped ==
    ASSUME TypeOK, NEW s \in Callers, SyncWithState(s)
    PROVE  sync' \in [Callers -> SyncCall \cup {Idle}] /\ syncing' \in BOOLEAN
<1> DEFINE c == [pc |-> "read", root |-> tree, epoch |-> 0]
<1>1. c \in SyncCall
  BY DEF SyncCall, TypeOK
<1>2. sync' = sync \/ sync' = [sync EXCEPT ![s] = c]
  BY DEF SyncWithState
<1> HIDE DEF c
<1> QED BY <1>1, <1>2 DEF SyncWithState, TypeOK

LEMMA InitTypeOK == Init => TypeOK
<1> SUFFICES ASSUME Init
             PROVE  TypeOK
  OBVIOUS
<1> USE DEF Init, RootUpdaterInit, TreeBuilderInit
<1>1. /\ users \in [Users -> Row \cup {NoRow}] /\ lastTap \in [Users -> Nat]
      /\ tree \in Tree /\ kv \in Kv /\ epoch \in Nat /\ clock \in Nat
  BY EmptyTreeTyped DEF Kv
<1>2. DOMAIN epochs \subseteq Nat /\ epochs \in [DOMAIN epochs -> EpochRow]
  OBVIOUS
<1>3. /\ tick \in TickCall \cup {Idle}
      /\ sync \in [Callers -> SyncCall \cup {Idle}] /\ syncing \in BOOLEAN
      /\ master \in [root : Tree \cup {NoRoot}, epoch : Nat]
      /\ sent \subseteq Commit /\ failures \in Nat
  OBVIOUS
<1>4. /\ taps \in [Users -> Nat] /\ reads \in [Users -> SUBSET Nat]
      /\ tap \in [Users -> SUBSET (Nat \X Nat)] /\ armed \in BOOLEAN
      /\ others \in Nat /\ restarts \in Nat
  OBVIOUS
<1> QED BY <1>1, <1>2, <1>3, <1>4 DEF TypeOK

LEMMA UserStepTypeOK ==
    ASSUME TypeOK, UserStep
    PROVE  TypeOK'
<1> PICK u \in Users :
      \/ \E at \in 0 .. clock : \E old \in reads[u] : TapCommit(u, at, old)
      \/ TapUpsert(u) \/ TapReplyLost(u)
      \/ \E banned \in BOOLEAN : SetBan(u, banned)
  BY DEF UserStep
<1>1. CASE \E at \in 0 .. clock : \E old \in reads[u] : TapCommit(u, at, old)
  <2> PICK at \in 0 .. clock, old \in reads[u] : TapCommit(u, at, old)
    BY <1>1
  <2>1. old + 1 \in Nat /\ taps[u] \in Nat
    BY DEF TypeOK
  <2> DEFINE row == [amount |-> old + 1, banned |-> Banned(u)]
  <2>2. row \in Row
    BY <2>1, BanTyped DEF Row
  <2>3. users' = [users EXCEPT ![u] = row]
    BY DEF TapCommit
  <2> HIDE DEF row
  <2>4. users' \in [Users -> Row \cup {NoRow}]
    BY <2>2, <2>3 DEF TypeOK
  <2>5. lastTap' \in [Users -> Nat]
    BY DEF TapCommit, TypeOK
  <2>6. taps' \in [Users -> Nat] /\ reads' \in [Users -> SUBSET Nat]
    BY <2>1 DEF TapCommit, TypeOK
  <2>7. tap' \in [Users -> SUBSET (Nat \X Nat)]
    BY <2>1 DEF TapCommit, TypeOK
  <2> QED BY <2>4, <2>5, <2>6, <2>7 DEF TapCommit, TypeOK, updaterVars
<1>2. CASE TapUpsert(u)
  <2> PICK call \in tap[u] : /\ tree' = [tree EXCEPT ![u] = [amount |-> call[2], renewed |-> clock]]
                             /\ TapReturn(u, call) /\ UNCHANGED failures
    BY <1>2 DEF TapUpsert
  <2> DEFINE leaf == [amount |-> call[2], renewed |-> clock]
  <2>1. leaf \in Leaf
    BY DEF TypeOK, Leaf
  <2> HIDE DEF leaf
  <2>2. tree' \in Tree
    BY <2>1 DEF TypeOK, Tree, leaf
  <2>3. tap' \in [Users -> SUBSET (Nat \X Nat)]
    BY DEF TapReturn, TypeOK
  <2> QED BY <2>2, <2>3 DEF TapReturn, TypeOK, updaterVars
<1>3. CASE TapReplyLost(u)
  <2>1. PICK call \in tap[u] : TapReturn(u, call)
    BY <1>3 DEF TapReplyLost
  <2>2. tap' \in [Users -> SUBSET (Nat \X Nat)]
    BY <2>1 DEF TapReturn, TypeOK
  <2> QED BY <1>3, <2>1, <2>2 DEF TapReplyLost, TapReturn, Fail, TypeOK, updaterVars
<1>4. CASE \E banned \in BOOLEAN : SetBan(u, banned)
  BY <1>4 DEF SetBan, TypeOK, Row, updaterVars, processVars, tapVars
<1> QED BY <1>1, <1>2, <1>3, <1>4

LEMMA RestTypeOK ==
    ASSUME TypeOK, ChainStep \/ Restart \/ ClockTick
    PROVE  TypeOK'
<1>1. CASE ChainStep
  <2> PICK m \in sent : Land(m) \/ Expire(m)
    BY <1>1 DEF ChainStep
  <2>1. m \in Commit /\ m \in [root : Tree \cup {NoRoot}, epoch : Nat]
    BY DEF TypeOK, Commit
  <2> QED BY <1>1, <2>1 DEF ChainStep, Land, Expire, Fail, TypeOK, processVars, tapVars
<1>2. CASE Restart
  <2>1. Hydrated \in Tree
    BY DEF Hydrated, Tree, Leaf, TypeOK, Row
  <2>2. kv.epoch \in Nat
    BY DEF TypeOK, Kv
  <2>3. /\ sync' \in [Callers -> SyncCall \cup {Idle}]
        /\ tap' \in [Users -> SUBSET (Nat \X Nat)]
        /\ restarts' \in Nat /\ others' \in Nat
    BY <1>2 DEF Restart, TypeOK
  <2>a. reads' \in [Users -> SUBSET Nat]
    BY <1>2 DEF Restart, Earned, TypeOK, Row
  <2>4. /\ tree' \in Tree /\ epoch' \in Nat /\ tick' \in TickCall \cup {Idle}
        /\ syncing' \in BOOLEAN /\ armed' \in BOOLEAN
    BY <1>2, <2>1, <2>2 DEF Restart, HydratedEpoch
  <2> QED BY <1>2, <2>3, <2>4, <2>a DEF Restart, TypeOK
<1>3. CASE ClockTick
  BY <1>3 DEF ClockTick, TypeOK, updaterVars, processVars, tapVars
<1> QED BY <1>1, <1>2, <1>3

(* A field of a call in progress is set to a value of its type. *)
LEMMA SyncSet ==
    ASSUME TypeOK, NEW s \in Callers, NEW c \in SyncCall \cup {Idle}
    PROVE  [sync EXCEPT ![s] = c] \in [Callers -> SyncCall \cup {Idle}]
BY DEF TypeOK

LEMMA SyncStepTyped ==
    ASSUME TypeOK, NEW s \in Callers, SyncStep(s)
    PROVE  /\ sync' \in [Callers -> SyncCall \cup {Idle}] /\ syncing' \in BOOLEAN
           /\ sent' \subseteq Commit /\ failures' \in Nat /\ kv' \in Kv
           /\ DOMAIN epochs' \subseteq Nat /\ epochs' \in [DOMAIN epochs' -> EpochRow]
           /\ UNCHANGED <<tree, master>>
<1> DEFINE c == sync[s]
<1>0. c # Idle /\ c \in SyncCall
  BY DEF SyncStep, SyncRead, SyncReadFails, SyncSend, SyncSendFails, SyncConfirmed,
         SyncGiveUp, SyncMark, SyncRow, SyncStoreFails, SyncAt, TypeOK
<1>1. Message(s) \in Commit
  BY <1>0 DEF Message, Commit, SyncCall
<1>2. \A pc \in {"send", "wait", "mark", "row"} :
        SyncGoto(s, pc) => sync' \in [Callers -> SyncCall \cup {Idle}] /\ syncing' \in BOOLEAN
  <2> TAKE pc \in {"send", "wait", "mark", "row"}
  <2> HAVE SyncGoto(s, pc)
  <2> DEFINE d == [c EXCEPT !.pc = pc]
  <2>1. d \in SyncCall
    BY <1>0 DEF SyncCall
  <2>2. sync' = [sync EXCEPT ![s] = d] /\ syncing' = syncing
    BY DEF SyncGoto
  <2>3. syncing \in BOOLEAN
    BY DEF TypeOK
  <2> HIDE DEF c, d
  <2> QED BY <2>1, <2>2, <2>3, SyncSet
<1>3. SyncRefuse(s) \/ SyncReturn(s)
        => sync' \in [Callers -> SyncCall \cup {Idle}] /\ syncing' \in BOOLEAN
  BY SyncSet DEF SyncRefuse, SyncReturn, TypeOK
<1>4. CASE SyncRead(s)
  <2>1. BroadcastEpoch \in Nat
    BY DEF BroadcastEpoch, TypeOK
  <2>2. [c EXCEPT !.pc = "send", !.epoch = BroadcastEpoch] \in SyncCall
    BY <1>0, <2>1 DEF SyncCall
  <2>3. \/ SyncRefuse(s)
        \/ /\ sync' = [sync EXCEPT ![s] = [c EXCEPT !.pc = "send", !.epoch = BroadcastEpoch]]
           /\ syncing' = TRUE
    BY <1>4 DEF SyncRead
  <2> HIDE DEF c
  <2>4. sync' \in [Callers -> SyncCall \cup {Idle}] /\ syncing' \in BOOLEAN
    BY <1>3, <2>2, <2>3, SyncSet
  <2> QED BY <1>4, <2>4 DEF SyncRead, TypeOK
<1>5. CASE SyncReadFails(s) \/ SyncGiveUp(s) \/ SyncStoreFails(s)
  BY <1>3, <1>5 DEF SyncReadFails, SyncGiveUp, SyncStoreFails, Fail, TypeOK
<1>6. CASE SyncSend(s)
  BY <1>1, <1>2, <1>6 DEF SyncSend, TypeOK
<1>7. CASE SyncSendFails(s)
  BY <1>1, <1>3, <1>7 DEF SyncSendFails, Fail, TypeOK
<1>8. CASE SyncConfirmed(s)
  BY <1>2, <1>8 DEF SyncConfirmed, TypeOK
<1>9. CASE SyncMark(s)
  <2>1. [kv EXCEPT !.committedRoot = c.root] \in Kv
    BY <1>0 DEF Kv, SyncCall, TypeOK
  <2> QED BY <1>2, <1>9, <2>1 DEF SyncMark, TypeOK
<1>10. CASE SyncRow(s)
  <2>1. \A e \in DOMAIN epochs : epochs[e] \in EpochRow
                                 /\ [epochs[e] EXCEPT !.committed = TRUE] \in EpochRow
    <3> TAKE e \in DOMAIN epochs
    <3>1. epochs[e] \in EpochRow
      BY DEF TypeOK
    <3> QED BY <3>1 DEF EpochRow
  <2>2. DOMAIN epochs' = DOMAIN epochs /\ epochs' \in [DOMAIN epochs -> EpochRow]
    BY <1>10, <2>1 DEF SyncRow
  <2> QED BY <1>3, <1>10, <2>2 DEF SyncRow, TypeOK
<1> QED BY <1>4, <1>5, <1>6, <1>7, <1>8, <1>9, <1>10 DEF SyncStep

LEMMA UpdaterTypeOK ==
    ASSUME TypeOK, Updater
    PROVE  TypeOK'
<1>1. CASE \E s \in Callers : UpdaterStep(s)
  BY <1>1, SyncStepTyped DEF UpdaterStep, TypeOK, processVars, tapVars
<1>2. CASE AdminSync
  <2>1. sync' \in [Callers -> SyncCall \cup {Idle}] /\ syncing' \in BOOLEAN
    BY <1>2, SyncWithStateTyped DEF AdminSync, SyncAdmin
  <2>2. others' \in Nat
    BY <1>2 DEF AdminSync, OtherSync, TypeOK
  <2> QED BY <1>2, <2>1, <2>2 DEF AdminSync, SyncAdmin, TypeOK, tapVars
<1>3. CASE StartupSync
  <2>1. sync' \in [Callers -> SyncCall \cup {Idle}] /\ syncing' \in BOOLEAN
    BY <1>3, SyncWithStateTyped DEF StartupSync
  <2>2. others' \in Nat
    BY <1>3 DEF StartupSync, OtherSync, TypeOK
  <2> QED BY <1>3, <2>1, <2>2 DEF StartupSync, TypeOK, tapVars
<1> QED BY <1>1, <1>2, <1>3 DEF Updater

(* The tables after an insert. *)
LEMMA InsertTyped ==
    ASSUME TypeOK, tick # Idle, InsertEpoch
    PROVE  /\ DOMAIN epochs' = DOMAIN epochs \cup {epoch}
           /\ DOMAIN epochs' \subseteq Nat /\ epochs' \in [DOMAIN epochs' -> EpochRow]
           /\ \A e \in DOMAIN epochs : epochs'[e] = epochs[e]
           /\ ~epochs'[epoch].committed
           /\ kv' = kv
<1> DEFINE row == [root |-> tick.root, committed |-> FALSE]
<1>1. row \in EpochRow
  BY CallsTyped DEF TickCall, EpochRow
<1>2. epochs' = [e \in DOMAIN epochs \cup {epoch} |-> IF e = epoch THEN row ELSE epochs[e]]
  BY DEF InsertEpoch
<1>3. ~row.committed
  OBVIOUS
<1>4. epoch \notin DOMAIN epochs /\ kv' = kv
  BY DEF InsertEpoch
<1>5. epoch \in Nat /\ DOMAIN epochs \subseteq Nat /\ epochs \in [DOMAIN epochs -> EpochRow]
  BY DEF TypeOK
<1> HIDE DEF row
<1>6. DOMAIN epochs' = DOMAIN epochs \cup {epoch}
  BY <1>2
<1>7. epochs'[epoch] = row /\ \A e \in DOMAIN epochs : epochs'[e] = epochs[e]
  BY <1>2, <1>4
<1>8. epochs' \in [DOMAIN epochs' -> EpochRow]
  BY <1>1, <1>2, <1>5
<1> QED BY <1>3, <1>4, <1>5, <1>6, <1>7, <1>8

LEMMA TickStepTyped ==
    ASSUME TypeOK, TickStep
    PROVE  /\ tick' \in TickCall \cup {Idle} /\ tree' \in Tree /\ epoch' \in Nat
           /\ kv' \in Kv /\ DOMAIN epochs' \subseteq Nat
           /\ epochs' \in [DOMAIN epochs' -> EpochRow]
           /\ sync' \in [Callers -> SyncCall \cup {Idle}] /\ syncing' \in BOOLEAN
           /\ failures' \in Nat
           /\ UNCHANGED <<users, lastTap, clock, master, sent>>
<1>0. tick # Idle /\ tick \in TickCall
  BY DEF TickStep, TickActive, TickApply, TickCommitted, TickLag, TickAdvance, TickInsert,
         TickEpochAt, TickIdle, TickEnd, TickStoreFails, TickAt, TypeOK
<1>a. [kv EXCEPT !.epoch = epoch] \in Kv /\ [kv EXCEPT !.lastEpochAt = tick.now] \in Kv
  BY <1>0 DEF Kv, TickCall, TypeOK
<1>b. "tick" \in Callers
  OBVIOUS
<1>1. CASE TickActive
  <2> DEFINE active == ActiveSince(IF tick.pc = "active" THEN kv.lastEpochAt ELSE 0)
             pc == CASE active # NoOne \/ tick.force -> "apply"
                     [] active = NoOne /\ ~tick.force /\ tick.pc = "active" /\ epoch = 0
                          -> "bootstrap"
                     [] OTHER -> "idle"
  <2>1. active \in [Users -> Nat \cup {NoRow}]
    BY DEF ActiveSince, TypeOK, Row
  <2>2. pc \in {"apply", "bootstrap", "idle"}
    OBVIOUS
  <2>3. tick' = [tick EXCEPT !.active = active, !.pc = pc]
    BY <1>1 DEF TickActive
  <2> HIDE DEF active, pc
  <2>4. tick' \in TickCall
    BY <1>0, <2>1, <2>2, <2>3 DEF TickCall
  <2> QED BY <1>1, <2>4 DEF TickActive, TypeOK, updaterVars
<1>2. CASE TickApply
  <2>1. \A u \in Users : tick.active[u] # NoRow => tick.active[u] \in Nat
    BY <1>0 DEF TickCall
  <2>2. Applied \in Tree
    BY <2>1 DEF Applied, Tree, Leaf, TypeOK
  <2>3. tick' \in TickCall
    BY <1>0, <1>2, <2>2, EmptyTreeTyped DEF TickApply, TickCall
  <2> QED BY <1>2, <2>2, <2>3 DEF TickApply, TypeOK, updaterVars
<1>3. CASE TickCommitted
  <2>1. tick' \in TickCall
    BY <1>0, <1>3 DEF TickCommitted, TickCall, TypeOK, Kv
  <2> QED BY <1>3, <2>1 DEF TickCommitted, TypeOK, updaterVars
<1>4. CASE TickLag
  <2>1. tick' \in TickCall \cup {Idle}
    BY <1>0, <1>4 DEF TickLag, TickReturn, TickCall
  <2>2. failures' \in Nat
    BY <1>4 DEF TickLag, OnChainLag, Fail, TypeOK
  <2>3. epoch' \in Nat
    BY <1>4 DEF TickLag, TypeOK
  <2> QED BY <1>4, <2>1, <2>2, <2>3 DEF TickLag, TypeOK, updaterVars
<1>5. CASE TickAdvance
  <2>1. tick' \in TickCall
    BY <1>0, <1>5 DEF TickAdvance, TickCall, TypeOK
  <2> QED BY <1>5, <1>a, <2>1 DEF TickAdvance, WriteEpoch, TypeOK, updaterVars
<1>6. CASE TickInsert
  <2>1. tick' \in TickCall \cup {Idle}
    BY <1>0, <1>6, EmptyTreeTyped DEF TickInsert, TickReturn, TickCall
  <2>2. /\ kv' \in Kv /\ DOMAIN epochs' \subseteq Nat
        /\ epochs' \in [DOMAIN epochs' -> EpochRow]
    BY <1>0, <1>6, InsertTyped DEF TickInsert, TypeOK
  <2> QED BY <1>6, <2>1, <2>2 DEF TickInsert, TypeOK, updaterVars
<1>7. CASE TickEpochAt
  <2>1. tick' \in TickCall
    BY <1>0, <1>7 DEF TickEpochAt, TickCall
  <2>2. SyncWithState("tick")
    BY <1>7 DEF TickEpochAt
  <2> QED BY <1>7, <1>a, <1>b, <2>1, <2>2, SyncWithStateTyped
          DEF TickEpochAt, WriteEpochAt, TypeOK
<1>8. CASE TickIdle
  <2>1. tick' \in TickCall
    BY <1>0, <1>8 DEF TickIdle, TickGoto, TickCall
  <2>2. SyncWithState("tick") \/ UNCHANGED <<sync, syncing>>
    BY <1>8 DEF TickIdle
  <2>3. failures' \in Nat
    BY <1>8 DEF TickIdle, OnChainLag, Fail, TypeOK
  <2> QED BY <1>8, <1>b, <2>1, <2>2, <2>3, SyncWithStateTyped DEF TickIdle, TypeOK
<1>9. CASE TickEnd
  BY <1>9 DEF TickEnd, TickReturn, TypeOK, updaterVars
<1>10. CASE TickStoreFails
  <2>1. \/ UNCHANGED <<kv, epochs>> \/ WriteEpoch \/ InsertEpoch \/ WriteEpochAt
    BY <1>10 DEF TickStoreFails
  <2>2. /\ kv' \in Kv /\ DOMAIN epochs' \subseteq Nat
        /\ epochs' \in [DOMAIN epochs' -> EpochRow]
    BY <1>0, <1>a, <2>1, InsertTyped DEF WriteEpoch, WriteEpochAt, TypeOK
  <2>3. failures' \in Nat
    BY <1>10 DEF TickStoreFails, Fail, TypeOK
  <2> QED BY <1>10, <2>2, <2>3 DEF TickStoreFails, TickReturn, TypeOK, updaterVars
<1> QED BY <1>1, <1>2, <1>3, <1>4, <1>5, <1>6, <1>7, <1>8, <1>9, <1>10 DEF TickStep

LEMMA BuilderTypeOK ==
    ASSUME TypeOK, Builder
    PROVE  TypeOK'
<1>1. CASE \E force \in BOOLEAN : BuilderTick(force)
  <2> PICK force \in BOOLEAN : BuilderTick(force)
    BY <1>1
  <2>1. tick' \in TickCall
    BY EmptyTreeTyped DEF BuilderTick, TickStart, TickCall
  <2> QED BY <2>1 DEF BuilderTick, TickStart, TypeOK, updaterVars, processVars, tapVars
<1>2. CASE BuilderStep
  BY <1>2, TickStepTyped DEF BuilderStep, TypeOK, processVars, tapVars
<1> QED BY <1>1, <1>2 DEF Builder

(* Everything the backend keeps stays of its type, at every step of any call. *)
THEOREM BackendTypeCorrect == Spec => []TypeOK
<1>1. TypeOK /\ [Next]_vars => TypeOK'
  <2> SUFFICES ASSUME TypeOK, [Next]_vars
               PROVE  TypeOK'
    OBVIOUS
  <2>1. CASE Next
    BY <2>1, Steps, UserStepTypeOK, BuilderTypeOK, UpdaterTypeOK, RestTypeOK
  <2>2. CASE UNCHANGED vars
    BY <2>2 DEF vars, TypeOK
  <2> QED BY <2>1, <2>2
<1> QED BY InitTypeOK, <1>1, PTL DEF Spec

-----------------------------------------------------------------------------
(* The numbering of signed epochs *)

(* How epoch, current_epoch and the rows of epochs stand to each other between *)
(* the steps of tick.                                                          *)
NumberInv ==
    /\ kv.epoch <= epoch
    /\ \A e \in DOMAIN epochs : 1 <= e /\ e <= kv.epoch
    /\ TickAt("advance") => kv.epoch < epoch
    /\ TickAt("insert") => kv.epoch = epoch /\ 1 <= epoch /\ epoch \notin DOMAIN epochs
    /\ epoch <= kv.epoch + failures + (IF TickAt("advance") THEN 1 ELSE 0)

(* A step that leaves the numbers alone and tick outside of advance and insert, *)
(* or where it was, keeps them in order.                                        *)
LEMMA NumbersUnchanged ==
    ASSUME TypeOK, NumberInv, UNCHANGED <<epoch, kv>>, DOMAIN epochs' = DOMAIN epochs,
           failures' \in Nat, failures <= failures',
           tick' = tick \/ (/\ ~TickAt("advance")
                            /\ ~TickAt("advance")' /\ ~TickAt("insert")')
    PROVE  NumberInv'
<1>1. kv.epoch \in Nat /\ epoch \in Nat /\ failures \in Nat
  BY DEF TypeOK, Kv
<1> QED BY <1>1 DEF NumberInv, TickAt

LEMMA UpdaterNumbers ==
    ASSUME TypeOK, NumberInv, Updater
    PROVE  NumberInv'
<1>0. kv.epoch \in Nat /\ epoch \in Nat /\ failures \in Nat
  BY DEF TypeOK, Kv
<1>1. /\ tick' = tick /\ epoch' = epoch /\ kv'.epoch = kv.epoch
      /\ DOMAIN epochs' = DOMAIN epochs /\ (failures' = failures \/ failures' = failures + 1)
  <2>1. CASE \E s \in Callers : UpdaterStep(s)
    <3> PICK s \in Callers : UpdaterStep(s)
      BY <2>1
    <3>1. CASE SyncMark(s)
      BY <3>1 DEF SyncMark, UpdaterStep, TypeOK, Kv
    <3>2. CASE SyncRow(s)
      BY <3>2 DEF SyncRow, UpdaterStep
    <3>3. CASE SyncRead(s) \/ SyncSend(s) \/ SyncConfirmed(s) \/ SyncGiveUp(s)
      BY <3>3 DEF SyncRead, SyncSend, SyncConfirmed, SyncGiveUp, UpdaterStep
    <3>4. CASE SyncReadFails(s) \/ SyncSendFails(s) \/ SyncStoreFails(s)
      BY <3>4 DEF SyncReadFails, SyncSendFails, SyncStoreFails, Fail, UpdaterStep
    <3> QED BY <3>1, <3>2, <3>3, <3>4 DEF UpdaterStep, SyncStep
  <2>2. CASE AdminSync \/ StartupSync
    BY <2>2 DEF AdminSync, SyncAdmin, StartupSync
  <2> QED BY <2>1, <2>2 DEF Updater
<1> QED BY <1>0, <1>1 DEF NumberInv, TickAt

LEMMA RestNumbers ==
    ASSUME TypeOK, NumberInv, UserStep \/ ChainStep \/ Restart \/ ClockTick
    PROVE  NumberInv'
<1>0. kv.epoch \in Nat /\ epoch \in Nat /\ failures \in Nat
  BY DEF TypeOK, Kv
<1>1. CASE UserStep
  <2>1. UNCHANGED <<epoch, kv, epochs, tick>> /\ (failures' = failures \/ failures' = failures + 1)
    BY <1>1 DEF UserStep, TapCommit, TapUpsert, TapReplyLost, TapReturn, SetBan, Fail
  <2> QED BY <1>0, <2>1, NumbersUnchanged
<1>2. CASE ChainStep \/ ClockTick
  <2>1. UNCHANGED <<epoch, kv, epochs, tick>> /\ (failures' = failures \/ failures' = failures + 1)
    BY <1>2 DEF ChainStep, Land, Expire, Fail, ClockTick
  <2> QED BY <1>0, <2>1, NumbersUnchanged
<1>3. CASE Restart
  BY <1>0, <1>3 DEF Restart, HydratedEpoch, NumberInv, TickAt
<1> QED BY <1>1, <1>2, <1>3

LEMMA BuilderNumbers ==
    ASSUME TypeOK, NumberInv, Builder
    PROVE  NumberInv'
<1>0. kv.epoch \in Nat /\ epoch \in Nat /\ failures \in Nat
  BY DEF TypeOK, Kv
<1>1. CASE \E force \in BOOLEAN : BuilderTick(force)
  BY <1>0, <1>1, NumbersUnchanged DEF BuilderTick, TickStart, TickAt
<1>2. CASE TickActive \/ TickApply \/ TickCommitted \/ TickEnd
  <2>0. tick # Idle /\ tick \in TickCall
    BY <1>2 DEF TickActive, TickApply, TickCommitted, TickEnd, TickAt, TypeOK
  <2>1. ~TickAt("advance") /\ UNCHANGED <<epoch, kv, epochs, failures>>
    BY <1>2 DEF TickActive, TickApply, TickCommitted, TickEnd, TickAt
  <2>2. ~TickAt("advance")' /\ ~TickAt("insert")'
    BY <1>2, <2>0 DEF TickActive, TickApply, TickCommitted, TickEnd, TickReturn, TickAt, TickCall
  <2> QED BY <1>0, <2>1, <2>2, NumbersUnchanged
<1>3. CASE TickLag
  <2>0. tick # Idle /\ tick \in TickCall /\ tick.pc = "lag"
    BY <1>3 DEF TickLag, TickAt, TypeOK
  <2>1. UNCHANGED <<kv, epochs>> /\ (failures' = failures \/ failures' = failures + 1)
    BY <1>3 DEF TickLag, OnChainLag, Fail
  <2>2. \/ tick' = Idle /\ epoch' = epoch
        \/ tick' \in TickCall /\ tick'.pc = "advance" /\ epoch' = epoch + 1
    BY <1>3, <2>0 DEF TickLag, TickReturn, TickCall
  <2> QED BY <1>0, <2>0, <2>1, <2>2 DEF NumberInv, TickAt
<1>4. CASE TickAdvance
  <2>0. tick # Idle /\ tick \in TickCall /\ tick.pc = "advance"
    BY <1>4 DEF TickAdvance, TickAt, TypeOK
  <2>1. /\ kv'.epoch = epoch /\ UNCHANGED <<epoch, epochs, failures>>
        /\ tick' \in TickCall /\ tick'.pc = "insert"
    BY <1>4, <2>0 DEF TickAdvance, WriteEpoch, TickCall, TypeOK, Kv
  <2>2. kv.epoch < epoch /\ DOMAIN epochs \subseteq Nat
        /\ \A e \in DOMAIN epochs : 1 <= e /\ e <= kv.epoch
    BY <2>0 DEF NumberInv, TickAt, TypeOK
  <2>3. epoch \notin DOMAIN epochs /\ \A e \in DOMAIN epochs : 1 <= e /\ e <= epoch
    BY <1>0, <2>2
  <2>4. 1 <= epoch
    BY <1>0, <2>2
  <2> QED BY <1>0, <2>1, <2>3, <2>4 DEF NumberInv, TickAt
<1>5. CASE TickInsert
  <2>0. tick # Idle /\ tick \in TickCall /\ tick.pc = "insert"
    BY <1>5 DEF TickInsert, TickAt, TypeOK
  <2>1. epoch \notin DOMAIN epochs /\ InsertEpoch
    BY <1>5, <2>0 DEF TickInsert, NumberInv, TickAt
  <2>2. /\ kv' = kv /\ DOMAIN epochs' = DOMAIN epochs \cup {epoch}
        /\ UNCHANGED <<epoch, failures>> /\ tick'.pc = "epochAt"
    BY <1>5, <2>0, <2>1, InsertTyped DEF TickInsert, TickCall
  <2> QED BY <1>0, <2>0, <2>1, <2>2 DEF NumberInv, TickAt
<1>6. CASE TickEpochAt
  <2>0. tick # Idle /\ tick \in TickCall /\ tick.pc = "epochAt"
    BY <1>6 DEF TickEpochAt, TickAt, TypeOK
  <2>1. /\ kv'.epoch = kv.epoch /\ UNCHANGED <<epoch, epochs, failures>>
        /\ tick'.pc = "sync"
    BY <1>6, <2>0 DEF TickEpochAt, WriteEpochAt, TickCall, TypeOK, Kv
  <2> QED BY <1>0, <2>0, <2>1 DEF NumberInv, TickAt
<1>7. CASE TickIdle
  <2>0. tick # Idle /\ tick \in TickCall /\ tick.pc = "idle"
    BY <1>7 DEF TickIdle, TickAt, TypeOK
  <2>1. /\ UNCHANGED <<kv, epoch, epochs>> /\ (failures' = failures \/ failures' = failures + 1)
        /\ tick'.pc = "sync"
    BY <1>7, <2>0 DEF TickIdle, TickGoto, OnChainLag, Fail, TickCall
  <2> QED BY <1>0, <2>0, <2>1 DEF NumberInv, TickAt
<1>8. CASE TickStoreFails
  <2>0. tick # Idle /\ tick' = Idle /\ failures' = failures + 1 /\ epoch' = epoch
    BY <1>8 DEF TickStoreFails, TickReturn, Fail
  <2>1. CASE UNCHANGED <<kv, epochs>>
    BY <1>0, <2>0, <2>1 DEF NumberInv, TickAt
  <2>2. CASE tick.pc = "advance" /\ WriteEpoch
    BY <1>0, <2>0, <2>2 DEF NumberInv, TickAt, WriteEpoch, TypeOK, Kv
  <2>3. CASE tick.pc = "insert" /\ InsertEpoch
    BY <1>0, <2>0, <2>3, InsertTyped DEF NumberInv, TickAt
  <2>4. CASE tick.pc = "epochAt" /\ WriteEpochAt
    BY <1>0, <2>0, <2>4 DEF NumberInv, TickAt, WriteEpochAt, TypeOK, Kv
  <2> QED BY <1>8, <2>1, <2>2, <2>3, <2>4 DEF TickStoreFails
<1> QED BY <1>1, <1>2, <1>3, <1>4, <1>5, <1>6, <1>7, <1>8 DEF Builder, BuilderStep, TickStep

LEMMA NumberInvariant == Spec => []NumberInv
<1>1. Init => NumberInv
  BY DEF Init, RootUpdaterInit, TreeBuilderInit, NumberInv, TickAt
<1>2. TypeOK /\ NumberInv /\ [Next]_vars => NumberInv'
  <2> SUFFICES ASSUME TypeOK, NumberInv, [Next]_vars
               PROVE  NumberInv'
    OBVIOUS
  <2>1. CASE Next
    BY <2>1, Steps, BuilderNumbers, UpdaterNumbers, RestNumbers
  <2>2. CASE UNCHANGED vars
    BY <2>2 DEF vars, NumberInv, TickAt
  <2> QED BY <2>1, <2>2
<1> QED BY <1>1, <1>2, BackendTypeCorrect, PTL DEF Spec

(* Wherever tick is cut off by a crash or a failed store call, the next epoch *)
(* finds its number free, and current_epoch covers every signed row.          *)
THEOREM EpochsAreDurable == Spec => []EpochsDurable
<1>1. NumberInv => EpochsDurable
  BY DEF NumberInv, EpochsDurable
<1> QED BY <1>1, NumberInvariant, PTL

(* With SQLite, tick has no unwritten epoch while another event is served. *)
LEMMA QuietTick ==
    ASSUME Quiet
    PROVE  ~TickAt("advance")
<1>1. TickAt("advance") => <<"tick", "tick">> \in AtStore
  BY DEF AtStore, StorePcs
<1> QED BY <1>1 DEF Quiet

(* The epoch of any voucher served is at most one write and the failed writes *)
(* ahead of what a crash comes back to.                                       *)
THEOREM ServedEpochsCovered == Spec => []ServedEpochs
<1>1. TypeOK /\ NumberInv => ServedEpochs
  <2> SUFFICES ASSUME TypeOK, NumberInv, Interleaved \/ Quiet
               PROVE  epoch <= kv.epoch + failures + (IF Interleaved THEN 1 ELSE 0)
    BY DEF ServedEpochs
  <2>1. kv.epoch \in Nat /\ epoch \in Nat /\ failures \in Nat
    BY DEF TypeOK, Kv
  <2>2. CASE Interleaved
    BY <2>1, <2>2 DEF NumberInv
  <2>3. CASE ~Interleaved
    BY <2>1, <2>3, QuietTick DEF NumberInv
  <2> QED BY <2>2, <2>3
<1> QED BY <1>1, NumberInvariant, BackendTypeCorrect, PTL

-----------------------------------------------------------------------------
(* The numbering of commits *)

(* No message and no sync is more than one epoch ahead of the chain, and a sync *)
(* that goes on after its wait is not ahead at all.                             *)
CommitInv ==
    /\ \A m \in sent : m.epoch <= master.epoch + 1
    /\ \A s \in Callers :
         /\ SyncAt(s, "send") => sync[s].epoch <= master.epoch + 1
         /\ SyncAt(s, "mark") \/ SyncAt(s, "row")
              => sync[s].epoch <= master.epoch /\ master.root # NoRoot
    /\ NoFalseCommit

(* A step of anything but the chain and syncWithState: rows are at most added,  *)
(* not committed, and a sync may begin or all of them end.                      *)
LEMMA CommitsUnchanged ==
    ASSUME TypeOK, CommitInv, UNCHANGED <<master, sent>>,
           kv'.committedRoot = kv.committedRoot,
           \A s \in Callers : \/ sync'[s] = sync[s]
                              \/ sync'[s] = Idle
                              \/ sync'[s] \in SyncCall /\ sync'[s].pc = "read",
           \A e \in DOMAIN epochs' :
             epochs'[e].committed => e \in DOMAIN epochs /\ epochs[e].committed
    PROVE  CommitInv'
BY DEF CommitInv, NoFalseCommit, SyncAt

(* syncWithState begins one call or none. *)
LEMMA SyncBegins ==
    ASSUME TypeOK, NEW s \in Callers, SyncWithState(s)
    PROVE  \A c \in Callers : \/ sync'[c] = sync[c]
                              \/ sync'[c] \in SyncCall /\ sync'[c].pc = "read"
<1> DEFINE q == [pc |-> "read", root |-> tree, epoch |-> 0]
<1>1. q \in SyncCall /\ q.pc = "read"
  BY DEF SyncCall, TypeOK
<1>2. sync' = sync \/ sync' = [sync EXCEPT ![s] = q]
  BY DEF SyncWithState
<1> HIDE DEF q
<1> QED BY <1>1, <1>2 DEF TypeOK

LEMMA ProcessCommits ==
    ASSUME TypeOK, CommitInv, UserStep \/ Builder \/ AdminSync \/ StartupSync
                              \/ Restart \/ ClockTick
    PROVE  CommitInv'
<1> DEFINE Keeps == /\ UNCHANGED <<master, sent>> /\ kv'.committedRoot = kv.committedRoot
                    /\ \A e \in DOMAIN epochs' : epochs'[e].committed
                         => e \in DOMAIN epochs /\ epochs[e].committed
<1>0. kv \in Kv /\ \A w \in Nat : /\ [kv EXCEPT !.epoch = w].committedRoot = kv.committedRoot
                                  /\ [kv EXCEPT !.lastEpochAt = w].committedRoot = kv.committedRoot
  BY DEF TypeOK, Kv
<1>1. CASE UserStep \/ ClockTick
  BY <1>1, CommitsUnchanged
     DEF UserStep, TapCommit, TapUpsert, TapReplyLost, TapReturn, SetBan, ClockTick, updaterVars
<1>2. CASE AdminSync \/ StartupSync
  <2>1. \E s \in Callers : SyncWithState(s)
    BY <1>2 DEF AdminSync, SyncAdmin, StartupSync
  <2>2. UNCHANGED <<master, sent, kv, epochs>>
    BY <1>2 DEF AdminSync, SyncAdmin, StartupSync
  <2> QED BY <2>1, <2>2, SyncBegins, CommitsUnchanged
<1>3. CASE Restart
  <2>1. \A s \in Callers : sync'[s] = Idle
    BY <1>3 DEF Restart
  <2>2. UNCHANGED <<master, sent, kv, epochs>>
    BY <1>3 DEF Restart
  <2> QED BY <2>1, <2>2, CommitsUnchanged
<1>4. CASE \E force \in BOOLEAN : BuilderTick(force)
  BY <1>4, CommitsUnchanged DEF BuilderTick, TickStart, updaterVars
<1>5. CASE TickStep
  <2>1. tick # Idle /\ tick \in TickCall
    BY <1>5 DEF TickStep, TickActive, TickApply, TickCommitted, TickLag, TickAdvance,
           TickInsert, TickEpochAt, TickIdle, TickEnd, TickStoreFails, TickAt, TypeOK
  <2>2. WriteEpoch => kv'.committedRoot = kv.committedRoot /\ epochs' = epochs
    BY <1>0 DEF WriteEpoch, TypeOK
  <2>3. WriteEpochAt => kv'.committedRoot = kv.committedRoot /\ epochs' = epochs
    BY <1>0, <2>1 DEF WriteEpochAt, TickCall
  <2>4. InsertEpoch => kv' = kv /\ \A e \in DOMAIN epochs' : epochs'[e].committed
                         => e \in DOMAIN epochs /\ epochs[e].committed
    BY <2>1, InsertTyped
  <2>5. /\ UNCHANGED <<master, sent>>
        /\ UNCHANGED <<kv, epochs>> \/ WriteEpoch \/ WriteEpochAt \/ InsertEpoch
        /\ UNCHANGED sync \/ SyncWithState("tick")
    BY <1>5 DEF TickStep, TickActive, TickApply, TickCommitted, TickLag, TickAdvance,
           TickInsert, TickEpochAt, TickIdle, TickEnd, TickStoreFails, updaterVars
  <2>6. \A c \in Callers : sync'[c] = sync[c] \/ (sync'[c] \in SyncCall /\ sync'[c].pc = "read")
    BY <2>5, SyncBegins
  <2>7. kv'.committedRoot = kv.committedRoot
        /\ \A e \in DOMAIN epochs' : epochs'[e].committed
                         => e \in DOMAIN epochs /\ epochs[e].committed
    BY <2>2, <2>3, <2>4, <2>5
  <2> QED BY <2>5, <2>6, <2>7, CommitsUnchanged
<1> QED BY <1>1, <1>2, <1>3, <1>4, <1>5 DEF Builder, BuilderStep

LEMMA UpdaterCommits ==
    ASSUME TypeOK, CommitInv, NEW s \in Callers, SyncStep(s)
    PROVE  CommitInv'
<1> DEFINE c == sync[s]
<1>0. c # Idle /\ c \in SyncCall /\ c.epoch \in Nat /\ master.epoch \in Nat
      /\ c.root # NoRoot /\ UNCHANGED master
  <2>1. c # Idle /\ UNCHANGED master
    BY DEF SyncStep, SyncRead, SyncReadFails, SyncSend, SyncSendFails, SyncConfirmed,
         SyncGiveUp, SyncMark, SyncRow, SyncStoreFails, SyncAt
  <2>2. c \in SyncCall
    BY <2>1 DEF TypeOK
  <2> QED BY <2>1, <2>2 DEF SyncCall, TypeOK
<1>1. ASSUME UNCHANGED <<kv, epochs, sent>>, SyncRefuse(s) \/ SyncReturn(s)
      PROVE  CommitInv'
  <2>1. \A t \in Callers : sync'[t] = sync[t] \/ sync'[t] = Idle
    BY <1>1 DEF SyncRefuse, SyncReturn, TypeOK
  <2> QED BY <1>0, <1>1, <2>1, CommitsUnchanged
<1>2. CASE SyncRead(s)
  <2>1. CASE SyncRefuse(s)
    BY <1>1, <1>2, <2>1 DEF SyncRead
  <2>2. CASE sync' = [sync EXCEPT ![s].pc = "send", ![s].epoch = BroadcastEpoch]
    <3>1. sync'[s].epoch = master.epoch + 1 /\ sync'[s].pc = "send"
          /\ \A t \in Callers : t # s => sync'[t] = sync[t]
      BY <1>0, <2>2 DEF BroadcastEpoch, SyncCall, TypeOK
    <3>2. UNCHANGED <<kv, epochs, sent, master>>
      BY <1>2 DEF SyncRead
    <3> QED BY <1>0, <3>1, <3>2 DEF CommitInv, NoFalseCommit, SyncAt
  <2> QED BY <1>2, <2>1, <2>2 DEF SyncRead
<1>3. CASE SyncReadFails(s) \/ SyncGiveUp(s) \/ SyncStoreFails(s)
  BY <1>1, <1>3 DEF SyncReadFails, SyncGiveUp, SyncStoreFails
<1>4. CASE SyncSend(s) \/ SyncSendFails(s)
  <2>1. c.pc = "send" /\ Message(s).epoch = c.epoch /\ c.epoch <= master.epoch + 1
    BY <1>0, <1>4 DEF SyncSend, SyncSendFails, SyncAt, Message, CommitInv
  <2>2. /\ sync'[s] = Idle \/ sync'[s].pc = "wait"
        /\ \A t \in Callers : t # s => sync'[t] = sync[t]
    BY <1>0, <1>4 DEF SyncSend, SyncSendFails, SyncGoto, SyncReturn, SyncCall, TypeOK
  <2>3. sent' \subseteq sent \cup {Message(s)} /\ UNCHANGED <<kv, epochs>>
    BY <1>4 DEF SyncSend, SyncSendFails
  <2> QED BY <1>0, <2>1, <2>2, <2>3 DEF CommitInv, NoFalseCommit, SyncAt
<1>5. CASE SyncConfirmed(s)
  <2>1. master.root = c.root /\ master.epoch >= c.epoch /\ UNCHANGED <<kv, epochs, sent>>
    BY <1>5 DEF SyncConfirmed, Confirmed
  <2>2. /\ sync'[s].pc = "mark" /\ sync'[s].epoch = c.epoch
        /\ \A t \in Callers : t # s => sync'[t] = sync[t]
    BY <1>0, <1>5 DEF SyncConfirmed, SyncGoto, SyncCall, TypeOK
  <2> QED BY <1>0, <2>1, <2>2 DEF CommitInv, NoFalseCommit, SyncAt
<1>6. CASE SyncMark(s)
  <2>1. c.epoch <= master.epoch /\ master.root # NoRoot /\ UNCHANGED <<epochs, sent>>
    BY <1>0, <1>6 DEF SyncMark, CommitInv, SyncAt
  <2>2. /\ sync'[s].pc = "row" /\ sync'[s].epoch = c.epoch
        /\ \A t \in Callers : t # s => sync'[t] = sync[t]
    BY <1>0, <1>6 DEF SyncMark, SyncGoto, SyncCall, TypeOK
  <2> QED BY <1>0, <2>1, <2>2 DEF CommitInv, NoFalseCommit, SyncAt
<1>7. CASE SyncRow(s)
  <2>1. c.epoch <= master.epoch /\ UNCHANGED <<kv, sent>>
    BY <1>0, <1>7 DEF SyncRow, CommitInv, SyncAt
  <2>2. sync'[s] = Idle /\ \A t \in Callers : t # s => sync'[t] = sync[t]
    BY <1>7 DEF SyncRow, SyncReturn, TypeOK
  <2>3. DOMAIN epochs' = DOMAIN epochs
        /\ \A e \in DOMAIN epochs : e # c.epoch => epochs'[e] = epochs[e]
    BY <1>7 DEF SyncRow
  <2> QED BY <1>0, <2>1, <2>2, <2>3 DEF CommitInv, NoFalseCommit, SyncAt
<1> QED BY <1>2, <1>3, <1>4, <1>5, <1>6, <1>7 DEF SyncStep

(* A message that lands takes the chain one epoch further, or is refused. *)
LEMMA ChainCommits ==
    ASSUME TypeOK, CommitInv, ChainStep
    PROVE  /\ CommitInv'
           /\ master'.epoch = master.epoch \/ master'.epoch = master.epoch + 1
<1> PICK m \in sent : Land(m) \/ Expire(m)
  BY DEF ChainStep
<1>1. m \in Commit /\ m.epoch \in Nat /\ m.root # NoRoot /\ master.epoch \in Nat
      /\ m.epoch <= master.epoch + 1
  BY DEF TypeOK, Commit, CommitInv
<1>2. UNCHANGED <<kv, epochs, sync>> /\ sent' \subseteq sent
      /\ (master' = master \/ (master' = m /\ m.epoch > master.epoch))
  BY DEF Land, Expire
<1>3. master'.epoch = master.epoch \/ master'.epoch = master.epoch + 1
  BY <1>1, <1>2
<1>4. master.root # NoRoot => master'.root # NoRoot
  BY <1>1, <1>2
<1>5. \A w \in Nat : w <= master.epoch => w <= master'.epoch
  BY <1>1, <1>3
<1>6. \A w \in Nat : w <= master.epoch + 1 => w <= master'.epoch + 1
  BY <1>1, <1>3
<1>7. /\ \A n \in sent : n.epoch \in Nat
      /\ \A e \in DOMAIN epochs : e \in Nat
      /\ \A s \in Callers : sync[s] # Idle => sync[s].epoch \in Nat
  BY DEF TypeOK, Commit, SyncCall
<1>8. NoFalseCommit'
  BY <1>2, <1>4, <1>5, <1>7 DEF CommitInv, NoFalseCommit
<1> QED BY <1>2, <1>3, <1>4, <1>5, <1>6, <1>7, <1>8 DEF CommitInv, SyncAt

LEMMA CommitInvariant == Spec => []CommitInv
<1>1. Init => CommitInv
  BY DEF Init, RootUpdaterInit, TreeBuilderInit, CommitInv, NoFalseCommit, SyncAt
<1>2. TypeOK /\ CommitInv /\ [Next]_vars => CommitInv'
  <2> SUFFICES ASSUME TypeOK, CommitInv, [Next]_vars
               PROVE  CommitInv'
    OBVIOUS
  <2>1. CASE Next
    BY <2>1, Steps, ProcessCommits, UpdaterCommits, ChainCommits DEF Updater, UpdaterStep
  <2>2. CASE UNCHANGED vars
    BY <2>2 DEF vars, CommitInv, NoFalseCommit, SyncAt
  <2> QED BY <2>1, <2>2
<1> QED BY <1>1, <1>2, BackendTypeCorrect, PTL DEF Spec

(* No row and no kv entry says committed before the chain does, through any *)
(* number of syncs that overlap, give up, retry and land late.              *)
THEOREM CommittedIsOnChain == Spec => []NoFalseCommit
<1>1. CommitInv => NoFalseCommit
  BY DEF CommitInv
<1> QED BY <1>1, CommitInvariant, PTL

(* The chain takes the epochs of the backend's commits one by one. *)
THEOREM CommitsAreConsecutive == Spec => CommitsByOne
<1>1. TypeOK /\ CommitInv /\ [Next]_vars
        => [master'.epoch # master.epoch => master'.epoch = master.epoch + 1]_vars
  <2> SUFFICES ASSUME TypeOK, CommitInv, [Next]_vars
               PROVE  master'.epoch # master.epoch => master'.epoch = master.epoch + 1
    OBVIOUS
  <2>1. CASE ChainStep
    BY <2>1, ChainCommits
  <2>2. CASE UserStep \/ Builder \/ Updater \/ Restart \/ ClockTick
    <3>1. CASE UserStep
      BY <3>1 DEF UserStep, TapCommit, TapUpsert, TapReplyLost, TapReturn, SetBan, updaterVars
    <3>2. CASE Builder
      BY <3>2, TickStepTyped DEF Builder, BuilderTick, BuilderStep, TickStart, updaterVars
    <3>3. CASE Updater
      BY <3>3, SyncStepTyped DEF Updater, UpdaterStep, AdminSync, SyncAdmin, StartupSync
    <3>4. CASE Restart \/ ClockTick
      BY <3>4 DEF Restart, ClockTick, updaterVars
    <3> QED BY <2>2, <3>1, <3>2, <3>3, <3>4
  <2>3. CASE UNCHANGED vars
    BY <2>3 DEF vars
  <2> QED BY <2>1, <2>2, <2>3, Steps
<1> QED BY <1>1, CommitInvariant, BackendTypeCorrect, PTL DEF Spec, CommitsByOne

-----------------------------------------------------------------------------
(* Leaves and rows with the SQLite store *)

(* A leaf is the amount of its row, unless the user's one call has yet to write it;   *)
(* that call and the snapshot of a tick hold what is in the row of a user who is not   *)
(* banned.                                                                             *)
RowHas(u, amount) == users[u] # NoRow /\ ~users[u].banned /\ users[u].amount = amount
TurnInv ==
    /\ \A u \in Users : tap[u] = {} /\ tree[u] # NoLeaf
                          => users[u] # NoRow /\ tree[u].amount = users[u].amount
    /\ \A u \in Users : \A call, other \in tap[u] : call = other /\ RowHas(u, call[2])
    /\ TickAt("apply") =>
         \A u \in Users : tick.active[u] # NoRow => RowHas(u, tick.active[u])

(* Who waits for the store keeps the others out. *)
LEMMA OneTurn ==
    /\ \A u \in Users : tap[u] # {} => <<"tap", u>> \in AtStore
    /\ TickAt("apply") => <<"tick", "tick">> \in AtStore
BY DEF AtStore, StorePcs

LEMMA TurnUser ==
    ASSUME ~Interleaved, TypeOK, TurnInv, UserStep
    PROVE  TurnInv'
<1> PICK u \in Users :
      \/ \E at \in 0 .. clock : \E old \in reads[u] : TapCommit(u, at, old)
      \/ TapUpsert(u) \/ TapReplyLost(u)
      \/ \E banned \in BOOLEAN : SetBan(u, banned)
  BY DEF UserStep
<1>1. CASE \E at \in 0 .. clock : \E old \in reads[u] : TapCommit(u, at, old)
  <2> PICK at \in 0 .. clock, old \in reads[u] : TapCommit(u, at, old)
    BY <1>1
  <2> DEFINE row == [amount |-> old + 1, banned |-> Banned(u)]
             call == <<taps[u], old + 1>>
  <2>1. ~TickAt("apply") /\ UNCHANGED <<tick, tree>> /\ tap[u] = {} /\ ~Banned(u)
    BY OneTurn DEF TapCommit, MayRun
  <2>2. users' = [users EXCEPT ![u] = row] /\ tap' = [tap EXCEPT ![u] = @ \cup {call}]
    BY DEF TapCommit
  <2>a. old + 1 \in Nat
    BY DEF TypeOK
  <2>b. row \in Row
    BY <2>a, BanTyped DEF Row
  <2>3. row.amount = old + 1 /\ ~row.banned /\ call[2] = old + 1
    BY <2>1
  <2>4. row # NoRow
    BY <2>b
  <2> HIDE DEF row, call
  <2>5. users'[u] = row /\ tap'[u] = {call}
    BY <2>1, <2>2 DEF TypeOK
  <2>6. \A v \in Users \ {u} : users'[v] = users[v] /\ tap'[v] = tap[v]
    BY <2>2 DEF TypeOK
  <2>7. ~TickAt("apply")'
    BY <2>1 DEF TickAt
  <2> QED BY <2>1, <2>3, <2>4, <2>5, <2>6, <2>7 DEF TurnInv, RowHas
<1>2. CASE TapUpsert(u)
  <2> PICK call \in tap[u] : /\ tree' = [tree EXCEPT ![u] = [amount |-> call[2], renewed |-> clock]]
                             /\ TapReturn(u, call) /\ UNCHANGED failures
    BY <1>2 DEF TapUpsert
  <2> DEFINE leaf == [amount |-> call[2], renewed |-> clock]
  <2>1. tree' = [tree EXCEPT ![u] = leaf] /\ tap' = [tap EXCEPT ![u] = @ \ {call}]
        /\ UNCHANGED <<users, tick>>
    BY DEF TapReturn
  <2>2. leaf.amount = call[2]
    OBVIOUS
  <2> HIDE DEF leaf
  <2>3. RowHas(u, call[2]) /\ \A other \in tap[u] : other = call
    BY DEF TurnInv
  <2>4. tree'[u] = leaf /\ tap'[u] = {}
    BY <2>1, <2>3 DEF TypeOK, Tree
  <2>5. \A v \in Users \ {u} : tree'[v] = tree[v] /\ tap'[v] = tap[v]
    BY <2>1 DEF TypeOK, Tree
  <2> QED BY <2>1, <2>2, <2>3, <2>4, <2>5 DEF TurnInv, RowHas, TickAt
<1>3. CASE TapReplyLost(u)
  BY <1>3 DEF TapReplyLost
<1>4. CASE \E banned \in BOOLEAN : SetBan(u, banned)
  <2> PICK banned \in BOOLEAN : SetBan(u, banned)
    BY <1>4
  <2>1. ~TickAt("apply") /\ \A v \in Users : tap[v] = {}
    BY OneTurn DEF SetBan, MayRun
  <2>2. UNCHANGED <<tick, tree, tap>> /\ users[u] # NoRow
        /\ users' = [users EXCEPT ![u].banned = banned]
    BY DEF SetBan, processVars, tapVars
  <2> DEFINE row == [users[u] EXCEPT !.banned = banned]
  <2>3. users[u] \in Row /\ row.amount = users[u].amount
    BY <2>2 DEF TypeOK, Row
  <2>4. row \in Row
    <3>1. CASE banned
      BY <2>3, <3>1 DEF Row
    <3>2. CASE ~banned
      BY <2>3, <3>2 DEF Row
    <3> QED BY <3>1, <3>2
  <2>5. users'[u] = row /\ \A v \in Users \ {u} : users'[v] = users[v]
    BY <2>2 DEF TypeOK
  <2>6. row # NoRow
    BY <2>4
  <2> HIDE DEF row
  <2>7. \A v \in Users : users[v] # NoRow => users'[v] # NoRow /\ users'[v].amount = users[v].amount
    BY <2>3, <2>5, <2>6
  <2>8. ~TickAt("apply")' /\ \A v \in Users : tap'[v] = {}
    BY <2>1, <2>2 DEF TickAt
  <2> QED BY <2>1, <2>2, <2>7, <2>8 DEF TurnInv
<1> QED BY <1>1, <1>2, <1>3, <1>4

(* A step that leaves rows, leaves and calls alone, and does not take a tick to where *)
(* it applies a snapshot.                                                            *)
LEMMA TurnStays ==
    ASSUME TurnInv, UNCHANGED <<users, tree, tap>>, tick' = tick \/ ~TickAt("apply")'
    PROVE  TurnInv'
BY DEF TurnInv, RowHas, TickAt

LEMMA TurnBuilder ==
    ASSUME TypeOK, TurnInv, Builder
    PROVE  TurnInv'
<1>1. CASE \E force \in BOOLEAN : BuilderTick(force)
  BY <1>1, TurnStays DEF BuilderTick, TickStart, TickAt, processVars, tapVars
<1>2. CASE BuilderStep
  <2>0. tick # Idle /\ tick \in TickCall
    BY <1>2, CallsTyped DEF BuilderStep, TickStep, TickActive, TickApply, TickCommitted, TickLag,
           TickAdvance, TickInsert, TickEpochAt, TickIdle, TickEnd, TickStoreFails, TickAt
  <2>1. CASE TickActive
    <3> PICK since : tick'.active = ActiveSince(since)
      <4> DEFINE since == IF tick.pc = "active" THEN kv.lastEpochAt ELSE 0
                 pc == CASE ActiveSince(since) # NoOne \/ tick.force -> "apply"
                         [] ActiveSince(since) = NoOne /\ ~tick.force /\ tick.pc = "active"
                            /\ epoch = 0 -> "bootstrap"
                         [] OTHER -> "idle"
      <4>1. tick' = [tick EXCEPT !.active = ActiveSince(since), !.pc = pc]
        BY <2>1 DEF TickActive
      <4> HIDE DEF since, pc
      <4> QED BY <2>0, <4>1 DEF TickCall
    <3>1. UNCHANGED <<users, tree, tap>>
      BY <1>2, <2>1 DEF BuilderStep, TickActive, processVars, tapVars
    <3>2. \A u \in Users : tick'.active[u] # NoRow => RowHas(u, tick'.active[u])
      BY DEF ActiveSince, RowHas
    <3> QED BY <3>1, <3>2 DEF TurnInv, RowHas
  <2>2. CASE TickApply
    <3>1. tree' = Applied /\ UNCHANGED <<users, tap>>
      BY <1>2, <2>2 DEF BuilderStep, TickApply, processVars, tapVars
    <3>2. ~TickAt("apply")'
      BY <2>0, <2>2 DEF TickApply, TickAt, TickCall
    <3>3. \A u \in Users : tree'[u] = tree[u] \/ RowHas(u, tree'[u].amount)
      BY <2>2, <3>1 DEF TickApply, Applied, TurnInv
    <3> QED BY <3>1, <3>2, <3>3 DEF TurnInv, RowHas
  <2>3. CASE TickCommitted \/ TickLag \/ TickAdvance \/ TickInsert \/ TickEpochAt
             \/ TickIdle \/ TickEnd \/ TickStoreFails
    <3>1. UNCHANGED <<users, tree, tap>>
      BY <1>2, <2>3 DEF BuilderStep, TickCommitted, TickLag, TickAdvance, TickInsert,
             TickEpochAt, TickIdle, TickEnd, TickStoreFails, processVars, tapVars
    <3>2. ~TickAt("apply")'
      BY <2>0, <2>3 DEF TickCommitted, TickLag, TickAdvance, TickInsert, TickEpochAt,
             TickIdle, TickEnd, TickStoreFails, TickReturn, TickGoto, TickAt, TickCall
    <3> QED BY <3>1, <3>2, TurnStays
  <2> QED BY <1>2, <2>1, <2>2, <2>3 DEF BuilderStep, TickStep
<1> QED BY <1>1, <1>2 DEF Builder

LEMMA TurnRest ==
    ASSUME TypeOK, TurnInv, Updater \/ ChainStep \/ Restart \/ ClockTick
    PROVE  TurnInv'
<1>1. CASE Updater
  <2>1. UNCHANGED <<users, tree, tap, tick>>
    BY <1>1, SyncStepTyped DEF Updater, UpdaterStep, AdminSync, SyncAdmin, StartupSync,
       processVars, tapVars
  <2> QED BY <2>1, TurnStays
<1>2. CASE ChainStep \/ ClockTick
  <2>1. UNCHANGED <<users, tree, tap, tick>>
    BY <1>2 DEF ChainStep, Land, Expire, ClockTick, processVars, tapVars
  <2> QED BY <2>1, TurnStays
<1>3. CASE Restart
  <2>1. tree' = Hydrated /\ UNCHANGED users /\ ~TickAt("apply")'
        /\ \A u \in Users : tap'[u] = {}
    BY <1>3 DEF Restart, TickAt
  <2>2. \A u \in Users : tree'[u] # NoLeaf
          => users[u] # NoRow /\ tree'[u].amount = users[u].amount
    BY <2>1 DEF Hydrated
  <2> QED BY <2>1, <2>2 DEF TurnInv
<1> QED BY <1>1, <1>2, <1>3

LEMMA TurnInvariant ==
    ASSUME ~Interleaved
    PROVE  Spec => []TurnInv
<1>1. Init => TurnInv
  BY DEF Init, RootUpdaterInit, TreeBuilderInit, TurnInv, EmptyTree, TickAt
<1>2. TypeOK /\ TurnInv /\ [Next]_vars => TurnInv'
  <2> SUFFICES ASSUME TypeOK, TurnInv, [Next]_vars
               PROVE  TurnInv'
    OBVIOUS
  <2>1. CASE UNCHANGED vars
    BY <2>1, TurnStays DEF vars
  <2> QED BY <2>1, Steps, TurnUser, TurnBuilder, TurnRest
<1> QED BY <1>1, <1>2, BackendTypeCorrect, PTL DEF Spec

(* With the SQLite store no leaf is behind or before its row when no call waits for   *)
(* the store, whatever fails and wherever the process is killed.                       *)
THEOREM LeavesFollow ==
    ASSUME ~Interleaved
    PROVE  Spec => []LeavesFollowRows
<1>1. TurnInv => LeavesFollowRows
  BY OneTurn DEF TurnInv, LeavesFollowRows, Quiet
<1> QED BY <1>1, TurnInvariant, PTL

(* With the SQLite store nothing raises the leaf of a banned user: neither a call that *)
(* began before the ban nor the snapshot of a tick.                                    *)
THEOREM BannedFrozen ==
    ASSUME ~Interleaved
    PROVE  Spec => BannedLeafFrozen
<1>1. ASSUME TypeOK, TurnInv, [Next]_vars, NEW u \in Users,
             users[u] # NoRow, users[u].banned, tree'[u] # tree[u]
      PROVE  tree'[u] = NoLeaf
  <2>1. CASE UserStep
    <3> PICK v \in Users : TapUpsert(v)
      BY <1>1, <2>1 DEF UserStep, TapCommit, TapReplyLost, TapReturn, SetBan, processVars, tapVars
    <3>1. PICK call \in tap[v] :
            tree' = [tree EXCEPT ![v] = [amount |-> call[2], renewed |-> clock]]
      BY DEF TapUpsert
    <3>2. v # u
      BY <1>1 DEF TurnInv, RowHas
    <3> QED BY <1>1, <3>1, <3>2 DEF TypeOK, Tree
  <2>2. CASE Builder
    <3>1. TickApply
      BY <1>1, <2>2 DEF Builder, BuilderTick, BuilderStep, TickStart, TickStep, TickActive,
             TickCommitted, TickLag, TickAdvance, TickInsert, TickEpochAt, TickIdle, TickEnd,
             TickStoreFails
    <3> QED BY <1>1, <3>1 DEF TickApply, Applied, TurnInv, RowHas
  <2>3. CASE Updater
    BY <1>1, <2>3, SyncStepTyped DEF Updater, UpdaterStep, AdminSync, SyncAdmin, StartupSync
  <2>4. CASE ChainStep \/ ClockTick
    BY <1>1, <2>4 DEF ChainStep, Land, Expire, ClockTick
  <2>5. CASE Restart
    BY <1>1, <2>5 DEF Restart, Hydrated
  <2>6. CASE UNCHANGED vars
    BY <1>1, <2>6 DEF vars
  <2> QED BY <1>1, <2>1, <2>2, <2>3, <2>4, <2>5, <2>6, Steps
<1>2. TypeOK /\ TurnInv /\ [Next]_vars =>
        [\A u \in Users : users[u] # NoRow /\ users[u].banned /\ tree'[u] # tree[u]
                            => tree'[u] = NoLeaf]_vars
  BY <1>1
<1> QED BY <1>2, TurnInvariant, BackendTypeCorrect, PTL DEF Spec, BannedLeafFrozen

-----------------------------------------------------------------------------
(* Refinement of the epoch register *)

registerVars == <<epoch, kv.epoch, signedMap, committedMap, master.epoch>>

(* The row of an insert is new, with the root that was signed. *)
LEMMA InsertSigns ==
    ASSUME TypeOK, NumberInv, TickAt("insert"), InsertEpoch, UNCHANGED <<epoch, master>>
    PROVE  Register!Next
<1> DEFINE row == [root |-> tick.root, committed |-> FALSE]
<1>1. /\ kv.epoch = epoch /\ epoch \notin DOMAIN epochs /\ epoch \in Nat
      /\ \A e \in DOMAIN epochs : e \in Nat /\ e <= epoch
      /\ tick.root \in Tree
  BY CallsTyped DEF NumberInv, TickAt, TypeOK, TickCall
<1>2. epochs' = [e \in DOMAIN epochs \cup {epoch} |-> IF e = epoch THEN row ELSE epochs[e]]
      /\ kv' = kv
  BY DEF InsertEpoch
<1>3. row.root = tick.root /\ ~row.committed
  OBVIOUS
<1> HIDE DEF row
<1>4. DOMAIN epochs' = DOMAIN epochs \cup {epoch} /\ epochs'[epoch] = row
      /\ \A e \in DOMAIN epochs : epochs'[e] = epochs[e]
  BY <1>1, <1>2
<1>5. signedMap' = [e \in DOMAIN epochs' |-> epochs'[e].root] /\ DOMAIN signedMap = DOMAIN epochs
  BY DEF signedMap
<1>6. \A e \in DOMAIN epochs' :
        epochs'[e].root = IF e = epoch THEN tick.root ELSE signedMap[e]
  BY <1>1, <1>3, <1>4 DEF signedMap
<1>7. signedMap' = [e \in DOMAIN signedMap \cup {kv.epoch} |->
                      IF e = kv.epoch THEN tick.root ELSE signedMap[e]]
  BY <1>1, <1>4, <1>5, <1>6
<1>8. committedMap' = committedMap
  BY <1>1, <1>3, <1>4 DEF committedMap
<1>9. \A e \in DOMAIN signedMap : e < kv.epoch
  BY <1>1, <1>5
<1>10. \A e \in DOMAIN signedMap : signedMap[e] \in Tree
  BY <1>5 DEF signedMap, TypeOK, EpochRow
<1>11. signedMap' \in [DOMAIN signedMap \cup {kv.epoch} -> Tree]
  BY <1>1, <1>7, <1>10
<1>12. \A e \in DOMAIN signedMap : signedMap'[e] = signedMap[e]
  BY <1>1, <1>7, <1>9
<1>13. Register!Sign
  BY <1>1, <1>2, <1>8, <1>9, <1>11, <1>12 DEF Register!Sign
<1> QED BY <1>13 DEF Register!Next

(* updateEpochCommitted marks a row the chain has reached, or none. *)
LEMMA RowMarks ==
    ASSUME TypeOK, CommitInv, NEW s \in Callers, SyncRow(s), UNCHANGED epoch
    PROVE  Register!Next \/ UNCHANGED registerVars
<1> DEFINE c == sync[s].epoch
<1>1. c <= master.epoch
  BY DEF SyncRow, CommitInv
<1>2. UNCHANGED <<kv, master>>
      /\ epochs' = [e \in DOMAIN epochs |-> IF e = c THEN [epochs[e] EXCEPT !.committed = TRUE]
                                            ELSE epochs[e]]
  BY DEF SyncRow
<1> HIDE DEF c
<1>3. DOMAIN epochs' = DOMAIN epochs
      /\ \A e \in DOMAIN epochs : /\ epochs'[e].root = epochs[e].root
                                  /\ e # c => epochs'[e] = epochs[e]
                                  /\ e = c => epochs'[e].committed
  BY <1>2 DEF TypeOK, EpochRow
<1>4. signedMap' = signedMap
  BY <1>3 DEF signedMap
<1>5. CASE c \in DOMAIN epochs
  <2>1. committedMap' = committedMap \cup {c}
    BY <1>3, <1>5 DEF committedMap
  <2>2. c \in DOMAIN signedMap
    BY <1>5 DEF signedMap
  <2>3. Register!Mark(c)
    BY <1>1, <1>2, <1>4, <2>1, <2>2 DEF Register!Mark
  <2> QED BY <2>2, <2>3 DEF Register!Next
<1>6. CASE c \notin DOMAIN epochs
  <2>1. committedMap' = committedMap
    BY <1>3, <1>6 DEF committedMap
  <2> QED BY <1>2, <1>4, <2>1 DEF registerVars
<1> QED BY <1>5, <1>6

LEMMA EpochsSame ==
    ASSUME UNCHANGED <<epoch, epochs, master>>, kv'.epoch = kv.epoch
    PROVE  UNCHANGED registerVars
BY DEF registerVars, signedMap, committedMap

(* setKv current_epoch. *)
LEMMA WriteWrites ==
    ASSUME TypeOK, NumberInv, TickAt("advance"), WriteEpoch, UNCHANGED <<epoch, master>>
    PROVE  Register!Next
<1>1. kv'.epoch = epoch /\ UNCHANGED epochs /\ kv.epoch < epoch
  BY DEF WriteEpoch, NumberInv, TypeOK, Kv
<1>2. signedMap' = signedMap /\ committedMap' = committedMap
  BY <1>1 DEF signedMap, committedMap
<1> QED BY <1>1, <1>2 DEF Register!Next, Register!Write

LEMMA BuilderRefines ==
    ASSUME TypeOK, NumberInv, Builder
    PROVE  Register!Next \/ UNCHANGED registerVars
<1>0. UNCHANGED master
  BY DEF Builder, BuilderTick, BuilderStep, TickStart, TickStep, TickActive, TickApply,
         TickCommitted, TickLag, TickAdvance, TickInsert, TickEpochAt, TickIdle, TickEnd,
         TickStoreFails, updaterVars
<1>1. CASE (\E force \in BOOLEAN : BuilderTick(force)) \/ TickActive \/ TickApply
           \/ TickCommitted \/ TickIdle \/ TickEnd
  BY <1>0, <1>1, EpochsSame DEF BuilderTick, TickStart, TickActive, TickApply, TickCommitted,
                                TickIdle, TickEnd
<1>2. CASE TickLag
  <2>1. UNCHANGED <<kv, epochs>> /\ (epoch' = epoch \/ epoch' = epoch + 1)
    BY <1>2 DEF TickLag
  <2>2. signedMap' = signedMap /\ committedMap' = committedMap
    BY <2>1 DEF signedMap, committedMap
  <2> QED BY <1>0, <2>1, <2>2 DEF Register!Next, Register!Advance, registerVars
<1>3. CASE TickAdvance
  BY <1>0, <1>3, WriteWrites DEF TickAdvance
<1>4. CASE TickInsert
  <2>1. InsertEpoch /\ TickAt("insert")
    BY <1>4 DEF TickInsert, NumberInv
  <2> QED BY <1>0, <1>4, <2>1, InsertSigns DEF TickInsert
<1>5. CASE TickEpochAt
  <2>1. UNCHANGED <<epoch, epochs>> /\ kv'.epoch = kv.epoch
    BY <1>5 DEF TickEpochAt, WriteEpochAt, TypeOK, Kv
  <2> QED BY <1>0, <2>1, EpochsSame
<1>6. CASE TickStoreFails
  <2>0. UNCHANGED epoch
    BY <1>6 DEF TickStoreFails
  <2>1. CASE UNCHANGED <<kv, epochs>>
    BY <1>0, <2>0, <2>1, EpochsSame
  <2>2. CASE tick.pc = "advance" /\ WriteEpoch
    BY <1>0, <1>6, <2>0, <2>2, WriteWrites DEF TickStoreFails, TickAt
  <2>3. CASE tick.pc = "insert" /\ InsertEpoch
    BY <1>0, <1>6, <2>0, <2>3, InsertSigns DEF TickStoreFails, TickAt
  <2>4. CASE WriteEpochAt
    <3>1. UNCHANGED epochs /\ kv'.epoch = kv.epoch
      BY <2>4 DEF WriteEpochAt, TypeOK, Kv
    <3> QED BY <1>0, <2>0, <3>1, EpochsSame
  <2> QED BY <1>6, <2>1, <2>2, <2>3, <2>4 DEF TickStoreFails
<1> QED BY <1>1, <1>2, <1>3, <1>4, <1>5, <1>6 DEF Builder, BuilderStep, TickStep

LEMMA UpdaterRefines ==
    ASSUME TypeOK, CommitInv, Updater
    PROVE  Register!Next \/ UNCHANGED registerVars
<1>1. ASSUME NEW s \in Callers, UpdaterStep(s)
      PROVE  Register!Next \/ UNCHANGED registerVars
  <2>1. CASE SyncRow(s)
    BY <1>1, <2>1, RowMarks DEF UpdaterStep
  <2>2. CASE SyncMark(s)
    <3>1. UNCHANGED <<epoch, epochs, master>> /\ kv'.epoch = kv.epoch
      BY <1>1, <2>2 DEF UpdaterStep, SyncMark, TypeOK, Kv
    <3> QED BY <3>1, EpochsSame
  <2>3. CASE SyncRead(s) \/ SyncReadFails(s) \/ SyncSend(s) \/ SyncSendFails(s)
             \/ SyncConfirmed(s) \/ SyncGiveUp(s) \/ SyncStoreFails(s)
    <3>1. UNCHANGED <<epoch, epochs, master, kv>>
      BY <1>1, <2>3 DEF UpdaterStep, SyncRead, SyncReadFails, SyncSend, SyncSendFails,
                        SyncConfirmed, SyncGiveUp, SyncStoreFails
    <3> QED BY <3>1, EpochsSame
  <2> QED BY <1>1, <2>1, <2>2, <2>3 DEF UpdaterStep, SyncStep
<1>2. CASE AdminSync \/ StartupSync
  BY <1>2, EpochsSame DEF AdminSync, SyncAdmin, StartupSync
<1> QED BY <1>1, <1>2 DEF Updater

LEMMA ProcessRefines ==
    ASSUME TypeOK, NumberInv, CommitInv, UserStep \/ ChainStep \/ Restart \/ ClockTick
    PROVE  Register!Next \/ UNCHANGED registerVars
<1>1. CASE UserStep
  <2>1. UNCHANGED <<epoch, epochs, master, kv>>
    BY <1>1 DEF UserStep, TapCommit, TapUpsert, TapReplyLost, TapReturn, SetBan, updaterVars
  <2> QED BY <2>1, EpochsSame
<1>2. CASE ClockTick
  BY <1>2, EpochsSame DEF ClockTick, updaterVars
<1>3. CASE ChainStep
  <2>1. UNCHANGED <<epoch, epochs, kv>>
    BY <1>3 DEF ChainStep, Land, Expire
  <2>2. signedMap' = signedMap /\ committedMap' = committedMap
    BY <2>1 DEF signedMap, committedMap
  <2>3. master'.epoch = master.epoch \/ master'.epoch = master.epoch + 1
    BY <1>3, ChainCommits
  <2> QED BY <2>1, <2>2, <2>3 DEF Register!Next, Register!Commit, registerVars
<1>4. CASE Restart
  <2>1. epoch' = kv.epoch /\ UNCHANGED <<epochs, kv, master>> /\ kv.epoch <= epoch
    BY <1>4 DEF Restart, HydratedEpoch, NumberInv
  <2>2. signedMap' = signedMap /\ committedMap' = committedMap
    BY <2>1 DEF signedMap, committedMap
  <2> QED BY <2>1, <2>2 DEF Register!Next, Register!Crash
<1> QED BY <1>1, <1>2, <1>3, <1>4

LEMMA InitRegister == Init => Register!Init
<1> SUFFICES ASSUME Init PROVE Register!Init
  OBVIOUS
<1>1. DOMAIN epochs = {} /\ epoch = 0 /\ kv.epoch = 0 /\ master.epoch = 0
  BY DEF Init, RootUpdaterInit, TreeBuilderInit
<1>2. committedMap = {}
  BY <1>1 DEF committedMap
<1>3. signedMap \in [{} -> Tree]
  BY <1>1 DEF signedMap
<1> QED BY <1>1, <1>2, <1>3 DEF Register!Init

(* Ticks that fail or are cut off anywhere, overlapping syncs, late landings and    *)
(* restarts together implement the epoch register: whatever is retried, a number is *)
(* signed once, with one root, and a crash never comes back behind it.              *)
THEOREM RegisterRefined == Spec => ImplementsRegister
<1>1. TypeOK /\ NumberInv /\ CommitInv /\ [Next]_vars => [Register!Next]_registerVars
  <2> SUFFICES ASSUME TypeOK, NumberInv, CommitInv, [Next]_vars
               PROVE  Register!Next \/ UNCHANGED registerVars
    OBVIOUS
  <2>1. CASE Next
    BY <2>1, Steps, BuilderRefines, UpdaterRefines, ProcessRefines
  <2>2. CASE UNCHANGED vars
    BY <2>2, EpochsSame DEF vars
  <2> QED BY <2>1, <2>2
<1> QED BY <1>1, InitRegister, BackendTypeCorrect, NumberInvariant, CommitInvariant, PTL
        DEF Spec, ImplementsRegister, Register!Spec, registerVars

-----------------------------------------------------------------------------
(* What the contracts assume of the roots they are given *)

(* The root gives no user more than as many taps as U says. *)
Within(T, U) == \A u \in Users : T[u] # NoLeaf => T[u].amount <= U[u]

(* Every known root is a tree. *)
LEMMA RootsAreTrees ==
    ASSUME TypeOK, NEW T \in KnownRoots
    PROVE  T \in Tree
<1>1. CASE T \in {tree, master.root}
  BY <1>1 DEF KnownRoots, TypeOK
<1>2. CASE tick # Idle /\ T = tick.root
  BY <1>2 DEF TypeOK, TickCall
<1>3. ASSUME NEW s \in Callers, sync[s] # Idle, T = sync[s].root
      PROVE  T \in Tree
  BY <1>3 DEF TypeOK, SyncCall
<1>4. ASSUME NEW e \in DOMAIN epochs, T = epochs[e].root
      PROVE  T \in Tree
  BY <1>4 DEF TypeOK, EpochRow
<1>5. ASSUME NEW m \in sent, T = m.root
      PROVE  T \in Tree
  BY <1>5 DEF TypeOK, Commit
<1> QED BY <1>1, <1>2, <1>3, <1>4, <1>5 DEF KnownRoots

(* What a call of recordAction may have read or has written, what a tick has read, and *)
(* the row itself, are all within the user's taps: each commit adds one to both.       *)
EarnedInv ==
    /\ \A T \in KnownRoots : Within(T, taps)
    /\ \A u \in Users : /\ Earned(u) <= taps[u]
                        /\ \A old \in reads[u] : old <= taps[u]
                        /\ \A call \in tap[u] : call[2] <= taps[u]
    /\ tick # Idle => \A u \in Users :
         tick.active[u] # NoRow => tick.active[u] <= taps[u]

Grown(U, V) == \A u \in Users : U[u] <= V[u]

(* A commit: the amount it writes, one more than what it read, is within its taps. *)
LEMMA CommitCounts ==
    ASSUME TypeOK, EarnedInv, NEW u \in Users, NEW at, NEW old \in reads[u],
           TapCommit(u, at, old)
    PROVE  /\ old \in Nat /\ old + 1 <= taps'[u] /\ taps'[u] = taps[u] + 1
           /\ \A v \in Users \ {u} : taps'[v] = taps[v]
BY DEF TapCommit, TypeOK, EarnedInv

(* tap_events only grows. *)
LEMMA TapsGrow ==
    ASSUME TypeOK, [Next]_vars
    PROVE  Grown(taps, taps')
<1>0. \A u \in Users : taps[u] \in Nat
  BY DEF TypeOK
<1>1. ASSUME taps' = taps
      PROVE  Grown(taps, taps')
  BY <1>0, <1>1 DEF Grown
<1>2. ASSUME NEW u \in Users, NEW at, NEW old, TapCommit(u, at, old)
      PROVE  Grown(taps, taps')
  BY <1>0, <1>2 DEF TapCommit, Grown, TypeOK
<1>3. CASE UserStep
  BY <1>1, <1>2, <1>3
     DEF UserStep, TapUpsert, TapReplyLost, TapReturn, SetBan, processVars, tapVars
<1>4. CASE Builder \/ Updater \/ ChainStep \/ Restart \/ ClockTick \/ UNCHANGED vars
  BY <1>1, <1>4 DEF Builder, BuilderTick, BuilderStep, Updater, UpdaterStep, AdminSync,
     StartupSync, ChainStep, Restart, ClockTick, processVars, tapVars, vars
<1> QED BY <1>3, <1>4, Steps

LEMMA EarnedLater ==
    ASSUME NEW U \in [Users -> Nat], NEW V \in [Users -> Nat], Grown(U, V)
    PROVE  /\ \A u \in Users : \A n \in Nat : n <= U[u] => n <= V[u]
           /\ \A T \in Tree : Within(T, U) => Within(T, V)
<1>1. \A u \in Users : \A n \in Nat : n <= U[u] => n <= V[u]
  BY DEF Grown
<1>2. \A T \in Tree : \A u \in Users : T[u] # NoLeaf => T[u].amount \in Nat
  BY DEF Tree, Leaf
<1> QED BY <1>1, <1>2 DEF Within

(* The tree after a step is within the taps after it. *)
LEMMA TreeWithin ==
    ASSUME TypeOK, TypeOK', EarnedInv, [Next]_vars
    PROVE  Within(tree', taps')
<1>0. tree \in Tree /\ Within(tree, taps)
  BY DEF TypeOK, KnownRoots, EarnedInv
<1>a. Within(tree, taps')
  BY <1>0, TapsGrow, EarnedLater DEF TypeOK
<1>1. CASE tree' = tree
  BY <1>a, <1>1
<1>2. ASSUME NEW u \in Users, TapUpsert(u)
      PROVE  Within(tree', taps')
  <2> PICK call \in tap[u] : /\ tree' = [tree EXCEPT ![u] = [amount |-> call[2], renewed |-> clock]]
                             /\ TapReturn(u, call)
    BY <1>2 DEF TapUpsert
  <2>1. call[2] <= taps[u] /\ taps' = taps
    BY DEF EarnedInv, TapReturn
  <2>2. tree'[u].amount = call[2] /\ \A v \in Users \ {u} : tree'[v] = tree[v]
    BY <1>0 DEF Tree
  <2> QED BY <1>0, <2>1, <2>2 DEF Within
<1>3. CASE TickApply /\ UNCHANGED taps
  <2>1. tick # Idle
    BY <1>3 DEF TickApply, TickAt
  <2>2. ASSUME NEW u \in Users, tree'[u] # NoLeaf
        PROVE  tree'[u].amount <= taps[u]
    <3>1. tree'[u] = IF tick.active[u] = NoRow THEN tree[u]
                     ELSE [amount |-> tick.active[u], renewed |-> clock]
      BY <1>3 DEF TickApply, Applied
    <3>2. CASE tick.active[u] = NoRow
      BY <1>0, <2>2, <3>1, <3>2 DEF Within
    <3>3. CASE tick.active[u] # NoRow
      BY <2>1, <3>1, <3>3 DEF EarnedInv
    <3> QED BY <3>2, <3>3
  <2> QED BY <1>3, <2>2 DEF Within
<1>4. CASE Restart
  <2>1. ASSUME NEW u \in Users, tree'[u] # NoLeaf
        PROVE  tree'[u].amount = Earned(u)
    BY <1>4, <2>1 DEF Restart, Hydrated, Earned
  <2> QED BY <1>4, <2>1 DEF Restart, Within, EarnedInv
<1>5. CASE UserStep
  BY <1>1, <1>2, <1>5 DEF UserStep, TapCommit, TapReplyLost, SetBan
<1>6. CASE Builder
  BY <1>1, <1>3, <1>6 DEF Builder, BuilderTick, BuilderStep, TickStart, TickStep, TickActive,
     TickCommitted, TickLag, TickAdvance, TickInsert, TickEpochAt, TickIdle, TickEnd,
     TickStoreFails, processVars, tapVars
<1>7. CASE Updater
  BY <1>1, <1>7, SyncStepTyped DEF Updater, UpdaterStep, AdminSync, SyncAdmin, StartupSync
<1>8. CASE ChainStep \/ ClockTick \/ UNCHANGED vars
  BY <1>1, <1>8 DEF ChainStep, Land, Expire, ClockTick, vars
<1> QED BY <1>4, <1>5, <1>6, <1>7, <1>8, Steps

(* syncWithState takes the tree as it is. *)
LEMMA SyncTakesTree ==
    ASSUME TypeOK, NEW s \in Callers, SyncWithState(s)
    PROVE  \A t \in Callers : sync'[t] = sync[t] \/ sync'[t].root = tree
<1> DEFINE q == [pc |-> "read", root |-> tree, epoch |-> 0]
<1>1. q.root = tree
  OBVIOUS
<1>2. sync' = sync \/ sync' = [sync EXCEPT ![s] = q]
  BY DEF SyncWithState
<1> HIDE DEF q
<1> QED BY <1>1, <1>2 DEF TypeOK

(* A sync keeps its root, sends no other, and gives no row another. *)
LEMMA SyncKeepsRoots ==
    ASSUME TypeOK, NEW s \in Callers, SyncStep(s)
    PROVE  /\ sync[s] # Idle
           /\ \A t \in Callers : \/ sync'[t] = sync[t] \/ sync'[t] = Idle
                                 \/ sync[t] # Idle /\ sync'[t].root = sync[t].root
           /\ \A m \in sent' : m \in sent \/ m.root = sync[s].root
           /\ DOMAIN epochs' = DOMAIN epochs
           /\ \A e \in DOMAIN epochs : epochs'[e].root = epochs[e].root
<1> DEFINE c == sync[s]
<1>0. c # Idle /\ c \in SyncCall
  BY DEF SyncStep, SyncRead, SyncReadFails, SyncSend, SyncSendFails, SyncConfirmed,
         SyncGiveUp, SyncMark, SyncRow, SyncStoreFails, SyncAt, TypeOK
<1>1. SyncRefuse(s) \/ SyncReturn(s) => \A t \in Callers : sync'[t] = sync[t] \/ sync'[t] = Idle
  BY DEF SyncRefuse, SyncReturn, TypeOK
<1>2. \A pc : SyncGoto(s, pc) =>
        \A t \in Callers : sync'[t] = sync[t] \/ (sync[t] # Idle /\ sync'[t].root = sync[t].root)
  BY <1>0 DEF SyncGoto, SyncCall, TypeOK
<1>3. CASE SyncRead(s)
  <2>1. CASE sync' = [sync EXCEPT ![s].pc = "send", ![s].epoch = BroadcastEpoch]
    <3>1. sync'[s].root = c.root /\ \A t \in Callers : t # s => sync'[t] = sync[t]
      BY <1>0, <2>1 DEF SyncCall, TypeOK
    <3> QED BY <1>0, <1>3, <3>1 DEF SyncRead
  <2> QED BY <1>0, <1>1, <1>3, <2>1 DEF SyncRead
<1>4. CASE SyncReadFails(s) \/ SyncGiveUp(s) \/ SyncStoreFails(s)
  BY <1>0, <1>1, <1>4 DEF SyncReadFails, SyncGiveUp, SyncStoreFails
<1>5. CASE SyncSend(s) \/ SyncSendFails(s)
  <2>1. sent' \subseteq sent \cup {Message(s)} /\ Message(s).root = c.root /\ UNCHANGED epochs
    BY <1>5 DEF SyncSend, SyncSendFails, Message
  <2> QED BY <1>0, <1>1, <1>2, <1>5, <2>1 DEF SyncSend, SyncSendFails
<1>6. CASE SyncConfirmed(s) \/ SyncMark(s)
  BY <1>0, <1>2, <1>6 DEF SyncConfirmed, SyncMark
<1>7. CASE SyncRow(s)
  <2>1. DOMAIN epochs' = DOMAIN epochs
        /\ \A e \in DOMAIN epochs : epochs'[e].root = epochs[e].root
    BY <1>7 DEF SyncRow, TypeOK, EpochRow
  <2> QED BY <1>0, <1>1, <1>7, <2>1 DEF SyncRow
<1> QED BY <1>3, <1>4, <1>5, <1>6, <1>7 DEF SyncStep

(* tick signs the root it took from the tree. *)
LEMMA TickKeepsRoots ==
    ASSUME TypeOK, TickStep
    PROVE  /\ tick # Idle
           /\ tick' = Idle \/ tick'.root \in {EmptyTree, tree', tick.root}
           /\ \A t \in Callers : sync'[t] = sync[t] \/ sync'[t].root = tree
           /\ \A e \in DOMAIN epochs' : \/ e \in DOMAIN epochs /\ epochs'[e].root = epochs[e].root
                                        \/ epochs'[e].root = tick.root
<1>0. tick # Idle /\ tick \in TickCall /\ "tick" \in Callers
  BY DEF TickStep, TickActive, TickApply, TickCommitted, TickLag, TickAdvance, TickInsert,
         TickEpochAt, TickIdle, TickEnd, TickStoreFails, TickAt, TypeOK
<1>1. tick' = Idle \/ tick'.root \in {EmptyTree, tree', tick.root}
  <2>1. CASE TickActive \/ TickCommitted \/ TickLag \/ TickAdvance
    BY <1>0, <2>1 DEF TickActive, TickCommitted, TickLag, TickAdvance, TickReturn, TickCall
  <2>2. CASE TickApply
    BY <1>0, <2>2 DEF TickApply, TickCall
  <2>3. CASE TickInsert \/ TickEpochAt \/ TickIdle \/ TickEnd \/ TickStoreFails
    BY <1>0, <2>3 DEF TickInsert, TickEpochAt, TickIdle, TickEnd, TickStoreFails, TickReturn,
       TickGoto, TickCall
  <2> QED BY <2>1, <2>2, <2>3 DEF TickStep
<1>2. \A t \in Callers : sync'[t] = sync[t] \/ sync'[t].root = tree
  <2>1. sync' = sync \/ SyncWithState("tick")
    BY DEF TickStep, TickActive, TickApply, TickCommitted, TickLag, TickAdvance, TickInsert,
           TickEpochAt, TickIdle, TickEnd, TickStoreFails, updaterVars
  <2> QED BY <1>0, <2>1, SyncTakesTree
<1>3. \/ UNCHANGED epochs \/ InsertEpoch
  BY DEF TickStep, TickActive, TickApply, TickCommitted, TickLag, TickAdvance, TickInsert,
         TickEpochAt, TickIdle, TickEnd, TickStoreFails, WriteEpoch, WriteEpochAt
<1>4. CASE InsertEpoch
  <2> DEFINE row == [root |-> tick.root, committed |-> FALSE]
  <2>1. row.root = tick.root
    OBVIOUS
  <2>2. epochs' = [e \in DOMAIN epochs \cup {epoch} |-> IF e = epoch THEN row ELSE epochs[e]]
    BY <1>4 DEF InsertEpoch
  <2> HIDE DEF row
  <2>3. \A e \in DOMAIN epochs' : \/ e \in DOMAIN epochs /\ epochs'[e].root = epochs[e].root
                                  \/ epochs'[e].root = tick.root
    BY <2>1, <2>2
  <2> QED BY <1>0, <1>1, <1>2, <2>3
<1> QED BY <1>0, <1>1, <1>2, <1>3, <1>4

(* Where the roots of a step come from, of whatever part it is. *)
LEMMA RootSources ==
    ASSUME TypeOK, [Next]_vars
    PROVE  /\ \/ tick' = Idle \/ tick'.root \in {EmptyTree, tree'}
              \/ tick # Idle /\ tick'.root = tick.root
           /\ \A t \in Callers : \/ sync'[t] = Idle \/ sync'[t].root = tree
                                 \/ sync[t] # Idle /\ sync'[t].root = sync[t].root
           /\ \A m \in sent' : \/ m \in sent
                               \/ \E s \in Callers : sync[s] # Idle /\ m.root = sync[s].root
           /\ master' = master \/ master' \in sent
           /\ \A e \in DOMAIN epochs' : \/ e \in DOMAIN epochs /\ epochs'[e].root = epochs[e].root
                                        \/ tick # Idle /\ epochs'[e].root = tick.root
<1>1. CASE UserStep \/ ClockTick \/ UNCHANGED vars
  BY <1>1 DEF UserStep, TapCommit, TapUpsert, TapReplyLost, TapReturn, SetBan, ClockTick,
     vars, updaterVars
<1>2. CASE Restart
  BY <1>2 DEF Restart
<1>3. CASE ChainStep
  BY <1>3 DEF ChainStep, Land, Expire
<1>4. CASE Updater
  <2>1. ASSUME NEW s \in Callers, UpdaterStep(s)
        PROVE  /\ tick' = tick /\ master' = master /\ SyncStep(s)
    BY <2>1, SyncStepTyped DEF UpdaterStep
  <2>2. CASE \E s \in Callers : UpdaterStep(s)
    BY <2>1, <2>2, SyncKeepsRoots
  <2>3. CASE AdminSync \/ StartupSync
    <3>1. PICK s \in Callers : SyncWithState(s)
      BY <2>3 DEF AdminSync, SyncAdmin, StartupSync
    <3>2. UNCHANGED <<tick, sent, master, epochs>>
      BY <2>3 DEF AdminSync, SyncAdmin, StartupSync
    <3> QED BY <3>1, <3>2, SyncTakesTree
  <2> QED BY <1>4, <2>2, <2>3 DEF Updater
<1>5. CASE BuilderStep
  <2>1. UNCHANGED <<sent, master>> /\ TickStep
    BY <1>5, TickStepTyped DEF BuilderStep
  <2> QED BY <2>1, TickKeepsRoots
<1>6. ASSUME NEW force \in BOOLEAN, BuilderTick(force)
      PROVE  UNCHANGED <<sync, sent, master, epochs>> /\ tick'.root = EmptyTree
  BY <1>6 DEF BuilderTick, TickStart, updaterVars
<1>7. CASE Builder
  BY <1>5, <1>6, <1>7 DEF Builder
<1> QED BY <1>1, <1>2, <1>3, <1>4, <1>7, Steps

(* A root after a step was there before, is the tree after it, or is empty. *)
LEMMA RootsStay ==
    ASSUME TypeOK, [Next]_vars, NEW T \in KnownRoots'
    PROVE  T \in KnownRoots \/ T = tree' \/ T = EmptyTree
<1>1. T # NoRoot
  BY DEF KnownRoots
<1> DEFINE Held == \/ T = tree
                   \/ tick # Idle /\ T = tick.root
                   \/ \E s \in Callers : sync[s] # Idle /\ T = sync[s].root
                   \/ \E m \in sent : T = m.root
                   \/ T = master.root
                   \/ \E e \in DOMAIN epochs : T = epochs[e].root
<1>2. Held => T \in KnownRoots
  BY <1>1 DEF KnownRoots
<1>3. \/ T = tree' \/ (tick' # Idle /\ T = tick'.root)
      \/ (\E s \in Callers : sync'[s] # Idle /\ T = sync'[s].root)
      \/ (\E m \in sent' : T = m.root) \/ T = master'.root
      \/ (\E e \in DOMAIN epochs' : T = epochs'[e].root)
  BY DEF KnownRoots
<1>4. Held \/ T = tree' \/ T = EmptyTree
  <2>1. CASE tick' # Idle /\ T = tick'.root
    BY <2>1, RootSources
  <2>2. CASE \E s \in Callers : sync'[s] # Idle /\ T = sync'[s].root
    BY <2>2, RootSources
  <2>3. CASE \E m \in sent' : T = m.root
    BY <2>3, RootSources
  <2>4. CASE T = master'.root
    BY <2>4, RootSources
  <2>5. CASE \E e \in DOMAIN epochs' : T = epochs'[e].root
    BY <2>5, RootSources
  <2> QED BY <1>3, <2>1, <2>2, <2>3, <2>4, <2>5
<1> QED BY <1>2, <1>4

(* Rows, and what calls in progress have written or read of them, stay within the taps. *)
LEMMA RowsWithin ==
    ASSUME TypeOK, TypeOK', EarnedInv, [Next]_vars, NEW u \in Users
    PROVE  /\ Earned(u)' <= taps'[u]
           /\ \A old \in reads'[u] : old <= taps'[u]
           /\ \A call \in tap'[u] : call[2] <= taps'[u]
<1>0. \A n \in Nat : n <= taps[u] => n <= taps'[u]
  BY TapsGrow, EarnedLater DEF TypeOK
<1>a. /\ Earned(u) \in Nat /\ reads[u] \subseteq Nat
      /\ \A call \in tap[u] : call[2] \in Nat
  BY DEF TypeOK, Earned, Row
<1>1. ASSUME Earned(u)' = Earned(u), reads'[u] \subseteq reads[u] \cup {Earned(u)},
             tap'[u] \subseteq tap[u]
      PROVE  /\ Earned(u)' <= taps'[u]
             /\ \A old \in reads'[u] : old <= taps'[u]
             /\ \A call \in tap'[u] : call[2] <= taps'[u]
  BY <1>0, <1>1, <1>a DEF EarnedInv
<1>2. ASSUME NEW at, NEW old \in reads[u], TapCommit(u, at, old)
      PROVE  /\ Earned(u)' <= taps'[u]
             /\ \A n \in reads'[u] : n <= taps'[u]
             /\ \A call \in tap'[u] : call[2] <= taps'[u]
  <2> DEFINE row == [amount |-> old + 1, banned |-> Banned(u)]
             call == <<taps[u], old + 1>>
  <2>1. users' = [users EXCEPT ![u] = row] /\ tap' = [tap EXCEPT ![u] = @ \cup {call}]
        /\ reads'[u] \subseteq reads[u] \cup {old + 1}
    BY <1>2 DEF TapCommit, TypeOK
  <2>2. row.amount = old + 1 /\ call[2] = old + 1
    OBVIOUS
  <2> HIDE DEF row, call
  <2>3. users'[u] = row /\ tap'[u] = tap[u] \cup {call}
    BY <2>1 DEF TypeOK
  <2>4. old + 1 <= taps'[u]
    BY <1>2, CommitCounts
  <2>5. Earned(u)' <= taps'[u]
    <3>1. CASE users'[u] = NoRow
      BY <3>1 DEF Earned, TypeOK
    <3>2. CASE users'[u] # NoRow
      BY <2>2, <2>3, <2>4, <3>2 DEF Earned
    <3> QED BY <3>1, <3>2
  <2> QED BY <1>0, <1>a, <2>1, <2>2, <2>3, <2>4, <2>5 DEF EarnedInv
<1>3. ASSUME NEW v \in Users, v # u,
             \/ \E at \in 0 .. clock : \E old \in reads[v] : TapCommit(v, at, old)
             \/ TapUpsert(v) \/ TapReplyLost(v)
      PROVE  users'[u] = users[u] /\ reads'[u] = reads[u] /\ tap'[u] = tap[u]
  BY <1>3 DEF TapCommit, TapUpsert, TapReplyLost, TapReturn, TypeOK
<1>4. ASSUME TapUpsert(u) \/ TapReplyLost(u)
      PROVE  users'[u] = users[u] /\ reads'[u] = reads[u] /\ tap'[u] \subseteq tap[u]
  BY <1>4 DEF TapUpsert, TapReplyLost, TapReturn, TypeOK
<1>5. ASSUME NEW v \in Users, NEW banned \in BOOLEAN, SetBan(v, banned)
      PROVE  Earned(u)' = Earned(u) /\ reads' = reads /\ tap' = tap
  <2>1. UNCHANGED <<reads, tap>> /\ users[v] # NoRow
        /\ users' = [users EXCEPT ![v].banned = banned]
    BY <1>5 DEF SetBan, processVars, tapVars
  <2> DEFINE row == [users[v] EXCEPT !.banned = banned]
  <2>2. users[v] \in Row /\ row.amount = users[v].amount
    BY <2>1 DEF TypeOK, Row
  <2>3. row \in Row
    <3>1. CASE banned
      BY <2>2, <3>1 DEF Row
    <3>2. CASE ~banned
      BY <2>2, <3>2 DEF Row
    <3> QED BY <3>1, <3>2
  <2>4. users'[v] = row /\ \A w \in Users \ {v} : users'[w] = users[w]
    BY <2>1 DEF TypeOK
  <2>5. row # NoRow
    BY <2>3
  <2> HIDE DEF row
  <2>6. Earned(u)' = Earned(u)
    <3>1. CASE u = v
      BY <2>1, <2>2, <2>4, <2>5, <3>1 DEF Earned
    <3>2. CASE u # v
      BY <2>4, <3>2 DEF Earned
    <3> QED BY <3>1, <3>2
  <2> QED BY <2>1, <2>6
<1>6. CASE UserStep
  BY <1>1, <1>2, <1>3, <1>4, <1>5, <1>6 DEF UserStep, Earned
<1>7. CASE Builder \/ Updater \/ ChainStep \/ ClockTick \/ UNCHANGED vars
  <2>1. UNCHANGED <<users, reads, tap>>
    BY <1>7, TickStepTyped DEF Builder, BuilderTick, BuilderStep, TickStart, Updater, UpdaterStep,
       AdminSync, StartupSync, ChainStep, ClockTick, processVars, tapVars, vars
  <2> QED BY <1>1, <2>1 DEF Earned
<1>8. CASE Restart
  <2>1. users' = users /\ reads'[u] = {Earned(u)} /\ tap'[u] = {}
    BY <1>8 DEF Restart
  <2> QED BY <1>1, <2>1 DEF Earned
<1> QED BY <1>6, <1>7, <1>8, Steps

(* The snapshot of a tick stays within the taps. *)
LEMMA SnapshotWithin ==
    ASSUME TypeOK, TypeOK', EarnedInv, [Next]_vars,
           tick' # Idle, NEW u \in Users, tick'.active[u] # NoRow
    PROVE  tick'.active[u] <= taps'[u]
<1>0. \A n \in Nat : n <= taps[u] => n <= taps'[u]
  BY TapsGrow, EarnedLater DEF TypeOK
<1>1. CASE tick # Idle /\ tick'.active = tick.active
  <2>1. tick \in TickCall /\ tick.active[u] \in Nat
    BY <1>1 DEF TypeOK, TickCall
  <2> QED BY <1>0, <1>1, <2>1 DEF EarnedInv
<1>2. CASE tick' = tick
  BY <1>1, <1>2
<1>3. CASE TickActive
  <2>1. tick # Idle /\ tick \in TickCall
    BY <1>3 DEF TickActive, TickAt, TypeOK
  <2>2. PICK since : tick'.active = ActiveSince(since)
    BY <1>3, <2>1 DEF TickActive, TickCall
  <2>3. tick'.active[u] = Earned(u)
    BY <2>2 DEF ActiveSince, Earned
  <2>4. Earned(u) \in Nat
    BY DEF TypeOK, Earned, Row
  <2> QED BY <1>0, <2>3, <2>4 DEF EarnedInv
<1>4. CASE tick'.active = NoOne
  BY <1>4 DEF NoOne
<1>5. CASE TickStep
  <2>1. tick # Idle /\ tick \in TickCall
    BY <1>5, TickKeepsRoots DEF TypeOK
  <2>2. CASE TickApply
    BY <1>4, <2>1, <2>2 DEF TickApply, TickCall
  <2>3. CASE TickCommitted \/ TickLag \/ TickAdvance \/ TickInsert
    BY <1>1, <2>1, <2>3 DEF TickCommitted, TickLag, TickAdvance, TickInsert, TickReturn,
                                  TickCall
  <2>4. CASE TickEpochAt \/ TickIdle \/ TickEnd \/ TickStoreFails
    BY <1>1, <2>1, <2>4 DEF TickEpochAt, TickIdle, TickEnd, TickStoreFails, TickReturn,
                                  TickGoto, TickCall
  <2> QED BY <1>3, <1>5, <2>2, <2>3, <2>4 DEF TickStep
<1>6. CASE Builder
  BY <1>4, <1>5, <1>6 DEF Builder, BuilderStep, BuilderTick, TickStart
<1>7. CASE UserStep \/ Updater \/ ChainStep \/ Restart \/ ClockTick \/ UNCHANGED vars
  BY <1>2, <1>7 DEF UserStep, TapCommit, TapUpsert, TapReplyLost, TapReturn, SetBan, Updater,
     UpdaterStep, AdminSync, StartupSync, ChainStep, Restart, ClockTick, vars
<1> QED BY <1>6, <1>7, Steps

LEMMA NextEarned ==
    TypeOK /\ TypeOK' /\ EarnedInv /\ [Next]_vars => EarnedInv'
<1> SUFFICES ASSUME TypeOK, TypeOK', EarnedInv, [Next]_vars
             PROVE  EarnedInv'
  OBVIOUS
<1>1. ASSUME NEW T \in KnownRoots'
      PROVE  Within(T, taps')
  <2>1. CASE T \in KnownRoots
    <3>1. T \in Tree /\ Within(T, taps)
      BY <2>1, RootsAreTrees DEF EarnedInv
    <3> QED BY <3>1, TapsGrow, EarnedLater DEF TypeOK
  <2>2. CASE T = tree'
    BY <2>2, TreeWithin
  <2>3. CASE T = EmptyTree
    BY <2>3 DEF Within, EmptyTree
  <2> QED BY <2>1, <2>2, <2>3, RootsStay
<1> QED BY <1>1, RowsWithin, SnapshotWithin DEF EarnedInv

(* No root that is live, signed, on its way or on chain, and so no voucher and no proof *)
(* of a served root, gives a user more than the user's taps, with either store: also    *)
(* where overlapping calls take the row back, and whatever ticks, syncs and calls        *)
(* overlap, fail, repeat or are cut off.                                                 *)
THEOREM RootsAreEarned == Spec => []RootsWithinEarnings
<1>1. Init => EarnedInv
  <2> SUFFICES ASSUME Init PROVE EarnedInv
    OBVIOUS
  <2>1. tree = EmptyTree /\ tick = Idle /\ sent = {} /\ master.root = NoRoot /\ DOMAIN epochs = {}
        /\ (\A s \in Callers : sync[s] = Idle)
        /\ \A u \in Users : tap[u] = {} /\ taps[u] = 0 /\ reads[u] = {0} /\ Earned(u) = 0
    BY DEF Init, RootUpdaterInit, TreeBuilderInit, Earned
  <2>2. \A T \in KnownRoots : T = EmptyTree
    BY <2>1 DEF KnownRoots
  <2>3. \A T \in KnownRoots : Within(T, taps)
    BY <2>2 DEF Within, EmptyTree
  <2> QED BY <2>1, <2>3 DEF EarnedInv
<1>2. EarnedInv => RootsWithinEarnings
  BY DEF EarnedInv, Within, RootsWithinEarnings
<1> QED BY <1>1, <1>2, NextEarned, BackendTypeCorrect, PTL DEF Spec
=============================================================================
