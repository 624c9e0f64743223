---------------------------- MODULE WalletAppProofs ----------------------------
(***************************************************************************)
(* What the run of WalletApp checks on one device with two calls, proved   *)
(* for any number of devices, calls, seeds, passcodes and jettons.         *)
(***************************************************************************)
EXTENDS WalletApp, TLAPS

USE WalletAppAssumption

(* What each kind of call carries. *)
Onboarding == {c \in Call : c.kind = "onboard" /\ c.seed \in Seeds /\ c.next \in Passcodes}
WithVault == {c \in Call : /\ c.kind \in {"unlock", "change", "reopen", "fetch", "decrypt",
                                          "broadcast", "lookup"}
                           /\ c.vault \in VaultRecord
                           /\ c.kind = "change" => c.passcode \in Passcodes
                                                   /\ c.next \in Passcodes}
WellCall == Onboarding \cup WithVault \cup {c \in Call : c.kind = "restore"}

TypeInv ==
    /\ TypeOK
    /\ calls \in [Devices -> [Slots -> WellCall \cup {Nothing}]]

LEMMA NewCallTyped ==
    ASSUME NEW kind, NEW v \in VaultRecord \cup {Nothing}, NEW p \in Passcodes \cup {Nothing},
           NEW n \in Passcodes \cup {Nothing}, NEW s \in Seeds \cup {Nothing},
           \/ kind = "restore"
           \/ kind = "onboard" /\ s \in Seeds /\ n \in Passcodes
           \/ /\ kind \in {"unlock", "change", "reopen", "fetch", "lookup"} /\ v \in VaultRecord
              /\ kind = "change" => p \in Passcodes /\ n \in Passcodes
    PROVE  NewCall(kind, v, p, n, s) \in WellCall
BY DEF NewCall, WellCall, Onboarding, WithVault, Call

LEMMA StartTyped ==
    ASSUME TypeInv, NEW d \in Devices, NEW c \in WellCall, Start(d, c)
    PROVE  TypeInv'
<1>1. calls' \in [Devices -> [Slots -> WellCall \cup {Nothing}]]
  BY DEF Start, TypeInv
<1>2. WellCall \subseteq Call
  BY DEF WellCall, Onboarding, WithVault
<1>3. calls' \in [Devices -> [Slots -> Call \cup {Nothing}]]
  <2>1. \A e \in Devices, j \in Slots : calls'[e][j] \in Call \cup {Nothing}
    BY <1>1, <1>2
  <2> QED BY <1>1, <2>1
<1> QED BY <1>1, <1>3 DEF Start, Act, TypeInv, TypeOK, store, keyring, ghosts

(* A slot that is freed or holds another call of its kind. *)
LEMMA SlotTyped ==
    ASSUME TypeInv, NEW d \in Devices, NEW i \in Slots, NEW c \in WellCall \cup {Nothing},
           calls' = [calls EXCEPT ![d][i] = c]
    PROVE  /\ calls' \in [Devices -> [Slots -> WellCall \cup {Nothing}]]
           /\ calls' \in [Devices -> [Slots -> Call \cup {Nothing}]]
<1>1. calls' \in [Devices -> [Slots -> WellCall \cup {Nothing}]]
  BY DEF TypeInv
<1>2. WellCall \subseteq Call
  BY DEF WellCall, Onboarding, WithVault
<1>3. \A e \in Devices, j \in Slots : calls'[e][j] \in Call \cup {Nothing}
  BY <1>1, <1>2
<1> QED BY <1>1, <1>3

(* saveVault and deleteVault *)
LEMMA SaveTyped ==
    ASSUME TypeInv, NEW d \in Devices, NEW r \in VaultRecord, SaveVault(d, r)
    PROVE  /\ local' \in [Devices -> VaultRecord \cup {Nothing}]
           /\ cloud' \in VaultRecord \cup {Nothing} /\ failures' \in Nat
BY DEF SaveVault, Mirror, Fail, TypeInv, TypeOK

LEMMA SetSeedTyped ==
    ASSUME TypeInv, NEW d \in Devices, NEW s \in Seeds, SetSeed(d, s)
    PROVE  seed' \in [Devices -> Seeds \cup {Nothing}] /\ timer' \subseteq Devices
BY DEF SetSeed, TypeInv, TypeOK

LEMMA OnboardTyped ==
    ASSUME TypeInv, NEW d \in Devices, NEW i \in Slots, Onboarded(d, i)
    PROVE  TypeInv'
<1> DEFINE c == calls[d][i]
           r == [account |-> c.seed, encryptedSeed |-> EncryptSeed(c.seed, c.next),
                 watchedJettons |-> {}]
<1>1. c \in Onboarding
  BY DEF Onboarded, Waits, Active, TypeInv, WellCall, WithVault
<1>2. r \in VaultRecord /\ c.seed \in Seeds
  BY <1>1 DEF Onboarding, VaultRecord, EncryptedVault, EncryptSeed
<1>3. SaveVault(d, r) /\ SetSeed(d, c.seed)
  BY DEF Onboarded
<1> HIDE DEF r, c
<1>4. /\ local' \in [Devices -> VaultRecord \cup {Nothing}]
      /\ cloud' \in VaultRecord \cup {Nothing} /\ failures' \in Nat
      /\ seed' \in [Devices -> Seeds \cup {Nothing}] /\ timer' \subseteq Devices
  BY <1>2, <1>3, SaveTyped, SetSeedTyped
<1>5. calls' = [calls EXCEPT ![d][i] = Nothing]
  BY DEF Onboarded, Over
<1>6. retired' \in [Devices -> SUBSET Passcodes] /\ overtaken' \subseteq Devices /\ acts' \in Nat
  BY DEF Onboarded, TypeInv, TypeOK
<1>7. /\ calls' \in [Devices -> [Slots -> WellCall \cup {Nothing}]]
      /\ calls' \in [Devices -> [Slots -> Call \cup {Nothing}]]
  BY <1>5, SlotTyped
<1> QED BY <1>4, <1>6, <1>7 DEF TypeInv, TypeOK

(* A call that has a vault, and what re-encrypting it gives. *)
LEMMA VaultCall ==
    ASSUME TypeInv, NEW d \in Devices, NEW i \in Slots, Active(d, i),
           calls[d][i].kind \notin {"onboard", "restore"}
    PROVE  calls[d][i] \in WithVault
BY DEF Active, TypeInv, WellCall, Onboarding

LEMMA ReencryptedTyped ==
    ASSUME NEW d \in Devices, NEW c \in WithVault, c.kind = "change"
    PROVE  /\ Reencrypted(d, c) \in VaultRecord
           /\ NewCall("reopen", Reencrypted(d, c), c.next, Nothing, Nothing) \in WellCall
<1>1. c.vault \in VaultRecord /\ c.next \in Passcodes
  BY DEF WithVault
<1>2. Reencrypted(d, c) \in VaultRecord
  BY <1>1 DEF Reencrypted, VaultRecord, EncryptedVault, EncryptSeed
<1> QED BY <1>1, <1>2, NewCallTyped

LEMMA CallTyped ==
    ASSUME TypeInv, NEW d \in Devices, NEW i \in Slots, CallStep(d, i)
    PROVE  TypeInv'
<1> DEFINE c == calls[d][i]
<1>1. CASE Onboarded(d, i)
  BY <1>1, OnboardTyped
<1>2. CASE Unlocked(d, i) \/ Decrypted(d, i)
  <2>1. c \in WithVault
    BY <1>2, VaultCall DEF Unlocked, Decrypted, Waits
  <2>2. c.vault.encryptedSeed.seed \in Seeds
    BY <2>1 DEF WithVault, VaultRecord, EncryptedVault
  <2>3. seed' \in [Devices -> Seeds \cup {Nothing}] /\ timer' \subseteq Devices
    BY <1>2, <2>2, SetSeedTyped DEF Unlocked, Decrypted, keyring, TypeInv, TypeOK
  <2>4. CASE calls' = [calls EXCEPT ![d][i] = Nothing]
    <3>1. /\ calls' \in [Devices -> [Slots -> WellCall \cup {Nothing}]]
          /\ calls' \in [Devices -> [Slots -> Call \cup {Nothing}]]
      BY <2>4, SlotTyped
    <3> QED BY <1>2, <2>3, <3>1 DEF Unlocked, Decrypted, store, ghosts, TypeInv, TypeOK
  <2>5. CASE Decrypted(d, i) /\ Opens(c.vault, c.passcode)
    <3> DEFINE signed == [c EXCEPT !.kind = "broadcast", !.seed = seed'[d]]
    <3>1. signed \in WellCall
      BY <2>1, <2>3 DEF WellCall, WithVault, Call
    <3>2. calls' = [calls EXCEPT ![d][i] = signed]
      BY <2>5 DEF Decrypted, Sign, TypeInv
    <3> HIDE DEF signed
    <3>3. /\ calls' \in [Devices -> [Slots -> WellCall \cup {Nothing}]]
          /\ calls' \in [Devices -> [Slots -> Call \cup {Nothing}]]
      BY <3>1, <3>2, SlotTyped
    <3> QED BY <2>3, <2>5, <3>3 DEF Decrypted, store, ghosts, TypeInv, TypeOK
  <2> QED BY <1>2, <2>4, <2>5 DEF Unlocked, Decrypted, Over
<1>3. CASE PasscodeChanged(d, i)
  <2>1. c \in WithVault /\ c.kind = "change"
    BY <1>3, VaultCall DEF PasscodeChanged, Waits
  <2>2. CASE Opens(c.vault, c.passcode)
    <3>1. /\ SaveVault(d, Reencrypted(d, c))
          /\ calls' = [calls EXCEPT ![d][i] =
               NewCall("reopen", Reencrypted(d, c), c.next, Nothing, Nothing)]
          /\ retired' = [retired EXCEPT ![d] = (@ \cup {c.passcode}) \ {c.next}]
          /\ UNCHANGED <<keyring, overtaken, acts>>
      BY <1>3, <2>2 DEF PasscodeChanged
    <3>2. /\ calls' \in [Devices -> [Slots -> WellCall \cup {Nothing}]]
          /\ calls' \in [Devices -> [Slots -> Call \cup {Nothing}]]
      BY <2>1, <3>1, ReencryptedTyped, SlotTyped
    <3>3. /\ local' \in [Devices -> VaultRecord \cup {Nothing}]
          /\ cloud' \in VaultRecord \cup {Nothing} /\ failures' \in Nat
      BY <2>1, <3>1, ReencryptedTyped, SaveTyped
    <3>4. retired' \in [Devices -> SUBSET Passcodes]
      BY <2>1, <3>1 DEF WithVault, TypeInv, TypeOK
    <3> QED BY <3>1, <3>2, <3>3, <3>4 DEF keyring, TypeInv, TypeOK
  <2>3. CASE ~Opens(c.vault, c.passcode)
    <3>1. calls' = [calls EXCEPT ![d][i] = Nothing]
      BY <1>3, <2>3 DEF PasscodeChanged, Over
    <3>2. /\ calls' \in [Devices -> [Slots -> WellCall \cup {Nothing}]]
          /\ calls' \in [Devices -> [Slots -> Call \cup {Nothing}]]
      BY <3>1, SlotTyped
    <3> QED BY <1>3, <2>3, <3>2 DEF PasscodeChanged, keyring, store, TypeInv, TypeOK
  <2> QED BY <2>2, <2>3
<1>4. CASE Fetched(d, i)
  <2>1. c \in WithVault
    BY <1>4, VaultCall DEF Fetched, Waits
  <2>2. \E e \in WellCall \cup {Nothing} : calls' = [calls EXCEPT ![d][i] = e]
    <3>1. CASE calls' = [calls EXCEPT ![d][i] = Nothing]
      BY <3>1
    <3>2. CASE Sign(d, i, seed[d])
      <4>1. [c EXCEPT !.kind = "broadcast", !.seed = seed[d]] \in WellCall
        BY <2>1 DEF WellCall, WithVault, Call, TypeInv, TypeOK
      <4> QED BY <3>2, <4>1 DEF Sign, TypeInv
    <3>3. CASE calls' = [calls EXCEPT ![d][i].kind = "decrypt"]
      <4>1. [c EXCEPT !.kind = "decrypt"] \in WellCall
        BY <2>1 DEF WellCall, WithVault, Call
      <4> QED BY <3>3, <4>1 DEF TypeInv
    <3> QED BY <1>4, <3>1, <3>2, <3>3 DEF Fetched, Over
  <2>3. /\ calls' \in [Devices -> [Slots -> WellCall \cup {Nothing}]]
        /\ calls' \in [Devices -> [Slots -> Call \cup {Nothing}]]
    BY <2>2, SlotTyped
  <2> QED BY <1>4, <2>3 DEF Fetched, Fail, store, ghosts, TypeInv, TypeOK
<1>5. CASE Broadcasted(d, i) \/ LookupOver(d, i) \/ Restored(d, i)
  <2>1. /\ calls' \in [Devices -> [Slots -> WellCall \cup {Nothing}]]
        /\ calls' \in [Devices -> [Slots -> Call \cup {Nothing}]]
    BY <1>5, SlotTyped DEF Broadcasted, LookupOver, Restored, Over
  <2> QED BY <1>5, <2>1 DEF Broadcasted, LookupOver, Restored, Fail, store, keyring, ghosts,
             TypeInv, TypeOK
<1> QED BY <1>1, <1>2, <1>3, <1>4, <1>5 DEF CallStep

LEMMA UserTyped ==
    ASSUME TypeInv, NEW d \in Devices, UserStep(d)
    PROVE  TypeInv'
<1>1. ASSUME NEW c \in WellCall, Start(d, c)
      PROVE  TypeInv'
  BY <1>1, StartTyped
<1>2. local[d] \in VaultRecord \cup {Nothing}
  BY DEF TypeInv, TypeOK
<1>3. ASSUME NEW s \in Seeds, NEW p \in Passcodes, Onboard(d, s, p)
      PROVE  TypeInv'
  BY <1>1, <1>3, NewCallTyped DEF Onboard
<1>4. ASSUME NEW p \in Passcodes, Unlock(d, p)
      PROVE  TypeInv'
  BY <1>1, <1>2, <1>4, NewCallTyped DEF Unlock
<1>5. ASSUME NEW p \in Passcodes, NEW n \in Passcodes, ChangePasscode(d, p, n)
      PROVE  TypeInv'
  BY <1>1, <1>2, <1>5, NewCallTyped DEF ChangePasscode
<1>6. ASSUME NEW p \in Passcodes \cup {Nothing}, Submit(d, p)
      PROVE  TypeInv'
  BY <1>1, <1>2, <1>6, NewCallTyped DEF Submit
<1>7. CASE Lookup(d)
  BY <1>1, <1>2, <1>7, NewCallTyped DEF Lookup
<1>8. CASE LockWallet(d) \/ EraseWallet(d)
  BY <1>8 DEF LockWallet, EraseWallet, Act, Lock, DeleteVault, Mirror, Fail, store, ghosts,
     TypeInv, TypeOK
<1>9. CASE Reopen(d)
  <2> DEFINE r == NewCall("restore", Nothing, Nothing, Nothing, Nothing)
  <2>1. r \in WellCall
    BY NewCallTyped
  <2> HIDE DEF r
  <2>2. \E i \in Slots : calls'[d] = Idle \/ calls'[d] = [Idle EXCEPT ![i] = r]
    BY <1>9 DEF Reopen, TypeInv, r
  <2>3. calls'[d] \in [Slots -> WellCall \cup {Nothing}]
    BY <2>1, <2>2 DEF Idle
  <2>4. calls' = [calls EXCEPT ![d] = calls'[d]]
    BY <1>9 DEF Reopen, TypeInv
  <2>5. calls' \in [Devices -> [Slots -> WellCall \cup {Nothing}]]
    BY <2>3, <2>4 DEF TypeInv
  <2>6. WellCall \subseteq Call
    BY DEF WellCall, Onboarding, WithVault
  <2>7. \A e \in Devices, j \in Slots : calls'[e][j] \in Call \cup {Nothing}
    BY <2>5, <2>6
  <2>8. calls' \in [Devices -> [Slots -> Call \cup {Nothing}]]
    BY <2>5, <2>7
  <2> QED BY <1>9, <2>5, <2>8 DEF Reopen, Act, Lock, store, TypeInv, TypeOK
<1>10. ASSUME NEW j \in Jettons, RemoveWatched(d, j)
       PROVE  TypeInv'
  <2>1. [local[d] EXCEPT !.watchedJettons = @ \ {j}] \in VaultRecord
    BY <1>2, <1>10 DEF RemoveWatched, VaultRecord
  <2> QED BY <1>10, <2>1, SaveTyped DEF RemoveWatched, Act, keyring, ghosts, TypeInv, TypeOK
<1>11. ASSUME NEW i \in Slots, NEW j \in Jettons, AddWatched(d, i, j)
       PROVE  TypeInv'
  <2>1. local[d] # Nothing => [local[d] EXCEPT !.watchedJettons = @ \cup {j}] \in VaultRecord
    BY <1>2 DEF VaultRecord
  <2>2. /\ local' \in [Devices -> VaultRecord \cup {Nothing}]
        /\ cloud' \in VaultRecord \cup {Nothing} /\ failures' \in Nat
    BY <1>11, <2>1, SaveTyped DEF AddWatched, WatchedIn, store, TypeInv, TypeOK
  <2>3. /\ calls' \in [Devices -> [Slots -> WellCall \cup {Nothing}]]
        /\ calls' \in [Devices -> [Slots -> Call \cup {Nothing}]]
    BY <1>11, SlotTyped DEF AddWatched, Over
  <2> QED BY <1>11, <2>2, <2>3 DEF AddWatched, keyring, ghosts, TypeInv, TypeOK
<1> QED BY <1>3, <1>4, <1>5, <1>6, <1>7, <1>8, <1>9, <1>10, <1>11 DEF UserStep

LEMMA InitTyped == Init => TypeInv
BY DEF Init, Idle, TypeInv, TypeOK

LEMMA NextTyped == TypeInv /\ [Next]_vars => TypeInv'
<1> SUFFICES ASSUME TypeInv, [Next]_vars
             PROVE  TypeInv'
  OBVIOUS
<1>1. CASE UNCHANGED vars
  BY <1>1 DEF vars, store, keyring, ghosts, TypeInv, TypeOK
<1>2. ASSUME NEW d \in Devices, AutoLock(d)
      PROVE  TypeInv'
  BY <1>2 DEF AutoLock, Lock, store, ghosts, TypeInv, TypeOK
<1> QED BY <1>1, <1>2, UserTyped, CallTyped DEF Next

(* Type correctness of the secrets of the wallet app, with what every call in progress *)
(* carries, for any number of devices and calls.                                       *)
THEOREM WalletTypeCorrect == Spec => []TypeOK
<1>1. TypeInv => TypeOK
  BY DEF TypeInv
<1> QED BY <1>1, InitTyped, NextTyped, PTL DEF Spec

-----------------------------------------------------------------------------
(* What a step touches *)

LEMMA Steps ==
    ASSUME [Next]_vars
    PROVE  \/ UNCHANGED vars
           \/ \E d \in Devices : \/ UserStep(d) \/ AutoLock(d)
                                \/ \E i \in Slots : CallStep(d, i)
BY DEF Next

LEMMA UserFrame ==
    ASSUME TypeInv, NEW d \in Devices, UserStep(d), NEW e \in Devices, e # d
    PROVE  /\ local'[e] = local[e] /\ seed'[e] = seed[e] /\ calls'[e] = calls[e]
           /\ retired'[e] = retired[e] /\ (e \in overtaken' <=> e \in overtaken)
<1> USE DEF TypeInv, TypeOK
<1>1. ASSUME NEW c, Start(d, c)
      PROVE  /\ local'[e] = local[e] /\ seed'[e] = seed[e] /\ calls'[e] = calls[e]
             /\ retired'[e] = retired[e] /\ (e \in overtaken' <=> e \in overtaken)
  BY <1>1 DEF Start, store, keyring, ghosts
<1>2. ASSUME \/ \E s \in Seeds, p \in Passcodes : Onboard(d, s, p)
             \/ \E p \in Passcodes : Unlock(d, p)
             \/ \E p, n \in Passcodes : ChangePasscode(d, p, n)
             \/ \E p \in Passcodes \cup {Nothing} : Submit(d, p)
             \/ Lookup(d)
      PROVE  /\ local'[e] = local[e] /\ seed'[e] = seed[e] /\ calls'[e] = calls[e]
             /\ retired'[e] = retired[e] /\ (e \in overtaken' <=> e \in overtaken)
  BY <1>1, <1>2 DEF Onboard, Unlock, ChangePasscode, Submit, Lookup
<1>3. CASE LockWallet(d) \/ EraseWallet(d)
  BY <1>3 DEF LockWallet, EraseWallet, Lock, DeleteVault, store, ghosts
<1>4. CASE Reopen(d)
  BY <1>4 DEF Reopen, Lock, store
<1>5. ASSUME NEW j \in Jettons, RemoveWatched(d, j) \/ \E i \in Slots : AddWatched(d, i, j)
      PROVE  /\ local'[e] = local[e] /\ seed'[e] = seed[e] /\ calls'[e] = calls[e]
             /\ retired'[e] = retired[e] /\ (e \in overtaken' <=> e \in overtaken)
  BY <1>5 DEF RemoveWatched, AddWatched, SaveVault, Over, store, keyring, ghosts
<1> QED BY <1>2, <1>3, <1>4, <1>5 DEF UserStep

LEMMA CallFrame ==
    ASSUME TypeInv, NEW d \in Devices, NEW i \in Slots, CallStep(d, i),
           NEW e \in Devices, e # d
    PROVE  /\ local'[e] = local[e] /\ seed'[e] = seed[e] /\ calls'[e] = calls[e]
           /\ retired'[e] = retired[e] /\ (e \in overtaken' <=> e \in overtaken)
<1> USE DEF TypeInv, TypeOK
<1>1. CASE Onboarded(d, i)
  BY <1>1 DEF Onboarded, SaveVault, SetSeed, Over
<1>2. CASE Unlocked(d, i) \/ Decrypted(d, i)
  BY <1>2 DEF Unlocked, Decrypted, SetSeed, Sign, Over, store, keyring, ghosts
<1>3. CASE PasscodeChanged(d, i)
  BY <1>3 DEF PasscodeChanged, SaveVault, Over, store, keyring
<1>4. CASE Fetched(d, i)
  BY <1>4 DEF Fetched, Sign, Over, store, ghosts
<1>5. CASE Broadcasted(d, i) \/ LookupOver(d, i) \/ Restored(d, i)
  BY <1>5 DEF Broadcasted, LookupOver, Restored, Over, store, keyring, ghosts
<1> QED BY <1>1, <1>2, <1>3, <1>4, <1>5 DEF CallStep

LEMMA LockFrame ==
    ASSUME TypeInv, NEW d \in Devices, AutoLock(d)
    PROVE  /\ UNCHANGED <<local, cloud, calls, retired, overtaken>>
           /\ \A e \in Devices : seed'[e] \in {seed[e], Nothing}
BY DEF AutoLock, Lock, store, ghosts, TypeInv, TypeOK

-----------------------------------------------------------------------------
(* Records *)

Belongs(r) == r # Nothing => r.account = r.encryptedSeed.seed
HasVault(d, i) == Active(d, i) /\ calls[d][i].kind \notin {"onboard", "restore"}
LoadedBelong ==
    \A d \in Devices, i \in Slots : HasVault(d, i) =>
        calls[d][i].vault.account = calls[d][i].vault.encryptedSeed.seed

(* Every record that is stored or that a call has loaded names the seed it opens to. *)
RecordInv == TypeInv /\ RecordsBelongTogether /\ LoadedBelong

LEMMA StoredBelongs ==
    RecordsBelongTogether <=> Belongs(cloud) /\ \A d \in Devices : Belongs(local[d])
BY DEF RecordsBelongTogether, Belongs

LEMMA StoreBelongs ==
    ASSUME RecordInv, NEW d \in Devices, NEW r, Belongs(r),
           local' = [local EXCEPT ![d] = r], cloud' \in {cloud, r}
    PROVE  RecordsBelongTogether'
<1>1. Belongs(cloud) /\ \A e \in Devices : Belongs(local[e])
  BY StoredBelongs DEF RecordInv
<1>2. Belongs(cloud')
  BY <1>1
<1>3. \A e \in Devices : Belongs(local'[e])
  BY <1>1 DEF RecordInv, TypeInv, TypeOK
<1> QED BY <1>2, <1>3 DEF RecordsBelongTogether, Belongs

LEMMA LoadBelongs ==
    ASSUME RecordInv, NEW d \in Devices, NEW i \in Slots, NEW c,
           calls' = [calls EXCEPT ![d][i] = c],
           c # Nothing /\ c.kind \notin {"onboard", "restore"} =>
               c.vault.account = c.vault.encryptedSeed.seed
    PROVE  LoadedBelong'
BY DEF RecordInv, LoadedBelong, HasVault, Active, TypeInv

LEMMA CallBelongs ==
    ASSUME RecordInv, NEW d \in Devices, NEW i \in Slots, CallStep(d, i)
    PROVE  RecordsBelongTogether' /\ LoadedBelong'
<1> DEFINE c == calls[d][i]
<1>0. HasVault(d, i) => c.vault.account = c.vault.encryptedSeed.seed
  BY DEF RecordInv, LoadedBelong
<1>1. ASSUME calls' = [calls EXCEPT ![d][i] = Nothing]
      PROVE  LoadedBelong'
  BY <1>1, LoadBelongs
<1>2. ASSUME UNCHANGED store
      PROVE  RecordsBelongTogether'
  BY <1>2 DEF store, RecordInv, RecordsBelongTogether
<1>3. CASE Onboarded(d, i)
  <2> DEFINE r == [account |-> c.seed, encryptedSeed |-> EncryptSeed(c.seed, c.next),
                   watchedJettons |-> {}]
  <2>1. Belongs(r)
    BY DEF Belongs, EncryptSeed
  <2>2. local' = [local EXCEPT ![d] = r] /\ cloud' \in {cloud, r}
    BY <1>3 DEF Onboarded, SaveVault, Mirror
  <2> HIDE DEF r
  <2> QED BY <1>1, <1>3, <2>1, <2>2, StoreBelongs DEF Onboarded, Over
<1>4. CASE PasscodeChanged(d, i)
  <2>1. c \in WithVault /\ c.kind = "change" /\ HasVault(d, i)
    BY <1>4, VaultCall DEF PasscodeChanged, Waits, HasVault, RecordInv
  <2>2. CASE Opens(c.vault, c.passcode)
    <3> DEFINE r == Reencrypted(d, c)
    <3>1. r.account = r.encryptedSeed.seed
      BY <1>0, <2>1 DEF Reencrypted, EncryptSeed, WithVault, VaultRecord
    <3>2. local' = [local EXCEPT ![d] = r] /\ cloud' \in {cloud, r}
      BY <1>4, <2>2 DEF PasscodeChanged, SaveVault, Mirror
    <3>3. calls' = [calls EXCEPT ![d][i] = NewCall("reopen", r, c.next, Nothing, Nothing)]
      BY <1>4, <2>2 DEF PasscodeChanged
    <3>4. NewCall("reopen", r, c.next, Nothing, Nothing).vault = r
      BY DEF NewCall
    <3> HIDE DEF r
    <3> QED BY <3>1, <3>2, <3>3, <3>4, StoreBelongs, LoadBelongs DEF Belongs
  <2>3. CASE ~Opens(c.vault, c.passcode)
    BY <1>1, <1>2, <1>4, <2>3 DEF PasscodeChanged, Over
  <2> QED BY <2>2, <2>3
<1>5. CASE Unlocked(d, i) \/ Broadcasted(d, i) \/ LookupOver(d, i)
  BY <1>1, <1>2, <1>5 DEF Unlocked, Broadcasted, LookupOver, Over
<1>6. CASE Fetched(d, i) \/ Decrypted(d, i)
  <2>1. c \in WithVault /\ HasVault(d, i)
    BY <1>6, VaultCall DEF Fetched, Decrypted, Waits, HasVault, RecordInv
  <2>2. \/ calls' = [calls EXCEPT ![d][i] = Nothing]
        \/ \E e : calls' = [calls EXCEPT ![d][i] = e] /\ e.vault = c.vault
    <3>1. \A s : calls' = [calls EXCEPT ![d][i].kind = "broadcast", ![d][i].seed = s] =>
              LET e == [c EXCEPT !.kind = "broadcast", !.seed = s] IN
              calls' = [calls EXCEPT ![d][i] = e] /\ e.vault = c.vault
      BY <2>1 DEF RecordInv, TypeInv, WithVault, Call
    <3>2. calls' = [calls EXCEPT ![d][i].kind = "decrypt"] =>
              LET e == [c EXCEPT !.kind = "decrypt"] IN
              calls' = [calls EXCEPT ![d][i] = e] /\ e.vault = c.vault
      BY <2>1 DEF RecordInv, TypeInv, WithVault, Call
    <3>3. CASE \E s : calls' = [calls EXCEPT ![d][i].kind = "broadcast", ![d][i].seed = s]
      BY <3>1, <3>3
    <3> QED BY <1>6, <3>2, <3>3 DEF Fetched, Decrypted, Sign, Over
  <2>3. LoadedBelong'
    BY <1>0, <2>1, <2>2, LoadBelongs
  <2> QED BY <1>2, <1>6, <2>3 DEF Fetched, Decrypted
<1>7. CASE Restored(d, i)
  <2>1. \E r \in {local[d], cloud} : local' = [local EXCEPT ![d] = r] /\ cloud' = cloud
    BY <1>7 DEF Restored, RecordInv, TypeInv, TypeOK
  <2>2. RecordsBelongTogether'
    BY <2>1, StoredBelongs, StoreBelongs DEF RecordInv
  <2> QED BY <1>1, <1>7, <2>2 DEF Restored, Over
<1> QED BY <1>3, <1>4, <1>5, <1>6, <1>7 DEF CallStep

LEMMA UserBelongs ==
    ASSUME RecordInv, NEW d \in Devices, UserStep(d)
    PROVE  RecordsBelongTogether' /\ LoadedBelong'
<1>0. Belongs(local[d]) /\ Belongs(cloud)
  BY StoredBelongs DEF RecordInv
<1>1. ASSUME NEW c, Start(d, c),
             c.kind = "onboard" \/ c.vault.account = c.vault.encryptedSeed.seed
      PROVE  RecordsBelongTogether' /\ LoadedBelong'
  <2>1. UNCHANGED store /\ \E i \in Slots : calls' = [calls EXCEPT ![d][i] = c]
    BY <1>1 DEF Start
  <2>2. LoadedBelong'
    BY <1>1, <2>1, LoadBelongs
  <2>3. RecordsBelongTogether'
    BY <2>1 DEF store, RecordInv, RecordsBelongTogether
  <2> QED BY <2>2, <2>3
<1>2. ASSUME NEW s \in Seeds, NEW p \in Passcodes, Onboard(d, s, p)
      PROVE  RecordsBelongTogether' /\ LoadedBelong'
  <2>1. NewCall("onboard", Nothing, Nothing, p, s).kind = "onboard"
    BY DEF NewCall
  <2> QED BY <1>1, <1>2, <2>1 DEF Onboard
<1>3. ASSUME NEW kind, NEW p, NEW n, Start(d, NewCall(kind, local[d], p, n, Nothing)),
             local[d] # Nothing
      PROVE  RecordsBelongTogether' /\ LoadedBelong'
  <2>1. NewCall(kind, local[d], p, n, Nothing).vault = local[d]
    BY DEF NewCall
  <2> QED BY <1>0, <1>1, <1>3, <2>1 DEF Belongs
<1>4. ASSUME \/ \E p \in Passcodes \cup {Nothing} : Unlock(d, p) \/ Submit(d, p) \/ Lookup(d)
             \/ \E p, n \in Passcodes : ChangePasscode(d, p, n)
      PROVE  RecordsBelongTogether' /\ LoadedBelong'
  BY <1>3, <1>4 DEF Unlock, Submit, Lookup, ChangePasscode
<1>5. CASE LockWallet(d)
  BY <1>5 DEF LockWallet, store, RecordInv, RecordsBelongTogether, LoadedBelong, HasVault, Active
<1>6. CASE EraseWallet(d)
  <2>1. RecordsBelongTogether'
    BY <1>6, StoreBelongs DEF EraseWallet, DeleteVault, Mirror, Belongs
  <2> QED BY <1>6, <2>1 DEF EraseWallet, RecordInv, LoadedBelong, HasVault, Active
<1>7. CASE Reopen(d)
  <2>1. \A e \in Devices, i \in Slots : HasVault(e, i)' => e # d /\ calls'[e] = calls[e]
    BY <1>7 DEF Reopen, HasVault, Active, Idle, NewCall, RecordInv, TypeInv
  <2>2. LoadedBelong'
    BY <2>1 DEF RecordInv, LoadedBelong, HasVault, Active
  <2> QED BY <1>7, <2>2 DEF Reopen, store, RecordInv, RecordsBelongTogether
<1>8. ASSUME NEW j \in Jettons, RemoveWatched(d, j)
      PROVE  RecordsBelongTogether' /\ LoadedBelong'
  <2> DEFINE r == [local[d] EXCEPT !.watchedJettons = @ \ {j}]
  <2>1. local[d] \in VaultRecord
    BY <1>8 DEF RemoveWatched, RecordInv, TypeInv, TypeOK
  <2>2. Belongs(r)
    BY <1>0, <1>8, <2>1 DEF RemoveWatched, Belongs, VaultRecord
  <2>3. local' = [local EXCEPT ![d] = r] /\ cloud' \in {cloud, r}
    BY <1>8 DEF RemoveWatched, SaveVault, Mirror
  <2> HIDE DEF r
  <2>4. RecordsBelongTogether'
    BY <2>2, <2>3, StoreBelongs
  <2> QED BY <1>8, <2>4 DEF RemoveWatched, RecordInv, LoadedBelong, HasVault, Active
<1>9. ASSUME NEW i \in Slots, NEW j \in Jettons, AddWatched(d, i, j)
      PROVE  RecordsBelongTogether' /\ LoadedBelong'
  <2> DEFINE r == [local[d] EXCEPT !.watchedJettons = @ \cup {j}]
  <2>1. LoadedBelong'
    BY <1>9, LoadBelongs DEF AddWatched, Over
  <2>2. CASE UNCHANGED store
    BY <2>1, <2>2 DEF store, RecordInv, RecordsBelongTogether
  <2>3. CASE local[d] # Nothing /\ SaveVault(d, r)
    <3>1. local[d] \in VaultRecord
      BY <2>3 DEF RecordInv, TypeInv, TypeOK
    <3>2. Belongs(r)
      BY <1>0, <2>3, <3>1 DEF Belongs, VaultRecord
    <3>3. local' = [local EXCEPT ![d] = r] /\ cloud' \in {cloud, r}
      BY <2>3 DEF SaveVault, Mirror
    <3> HIDE DEF r
    <3> QED BY <2>1, <3>2, <3>3, StoreBelongs
  <2> QED BY <1>9, <2>2, <2>3 DEF AddWatched, WatchedIn, store
<1> QED BY <1>2, <1>3, <1>4, <1>5, <1>6, <1>7, <1>8, <1>9 DEF UserStep

LEMMA InitRecord == Init => RecordInv
BY InitTyped DEF Init, Idle, RecordInv, RecordsBelongTogether, LoadedBelong, HasVault, Active

LEMMA NextRecord == RecordInv /\ [Next]_vars => RecordInv'
<1> SUFFICES ASSUME RecordInv, [Next]_vars
             PROVE  RecordsBelongTogether' /\ LoadedBelong'
  BY NextTyped DEF RecordInv
<1>1. CASE UNCHANGED <<local, cloud, calls>>
  BY <1>1 DEF RecordInv, RecordsBelongTogether, LoadedBelong, HasVault, Active
<1> QED BY <1>1, Steps, LockFrame, UserBelongs, CallBelongs DEF RecordInv, vars, store

(* No passcode change, watched jetton or restore mixes two wallets, however many calls *)
(* of however many devices end in whatever order.                                      *)
THEOREM RecordsOfOneWallet == Spec => []RecordsBelongTogether
<1>1. RecordInv => RecordsBelongTogether
  BY DEF RecordInv
<1> QED BY <1>1, InitRecord, NextRecord, PTL DEF Spec

-----------------------------------------------------------------------------
(* Changed passcodes *)

Fresh(d) == local[d] # Nothing => local[d].encryptedSeed.passcode \notin retired[d]
RetiredInv == TypeInv /\ RetiredStaysRetired

LEMMA CallRetires ==
    ASSUME RetiredInv, NEW d \in Devices, NEW i \in Slots, CallStep(d, i)
    PROVE  Fresh(d)'
<1> DEFINE c == calls[d][i]
<1> USE DEF RetiredInv, TypeInv, TypeOK, RetiredStaysRetired, Fresh
<1>1. CASE Onboarded(d, i) \/ Restored(d, i)
  BY <1>1 DEF Onboarded, Restored
<1>2. CASE PasscodeChanged(d, i)
  <2>1. c \in WithVault /\ c.kind = "change"
    BY <1>2, VaultCall DEF PasscodeChanged, Waits
  <2>2. CASE Opens(c.vault, c.passcode)
    <3>1. local' = [local EXCEPT ![d] = Reencrypted(d, c)]
      BY <1>2, <2>2 DEF PasscodeChanged, SaveVault
    <3>2. Reencrypted(d, c).encryptedSeed.passcode = c.next
      BY <2>1 DEF Reencrypted, EncryptSeed, WithVault, VaultRecord
    <3>3. retired'[d] = (retired[d] \cup {c.passcode}) \ {c.next}
      BY <1>2, <2>2 DEF PasscodeChanged
    <3> QED BY <3>1, <3>2, <3>3
  <2>3. CASE ~Opens(c.vault, c.passcode)
    BY <1>2, <2>3 DEF PasscodeChanged, store
  <2> QED BY <2>2, <2>3
<1>3. CASE UNCHANGED <<local, retired>>
  BY <1>3
<1> QED BY <1>1, <1>2, <1>3 DEF CallStep, Unlocked, Fetched, Decrypted, Broadcasted, LookupOver,
           store, ghosts

LEMMA UserRetires ==
    ASSUME RetiredInv, NEW d \in Devices, UserStep(d)
    PROVE  Fresh(d)'
<1> USE DEF RetiredInv, TypeInv, TypeOK, RetiredStaysRetired, Fresh
<1>1. CASE UNCHANGED <<local, retired>>
  BY <1>1
<1>2. CASE EraseWallet(d)
  BY <1>2 DEF EraseWallet, DeleteVault, ghosts
<1>3. ASSUME NEW j \in Jettons, RemoveWatched(d, j) \/ \E i \in Slots : AddWatched(d, i, j)
      PROVE  Fresh(d)'
  <2>1. retired' = retired /\ local[d] \in VaultRecord \cup {Nothing}
    BY <1>3 DEF RemoveWatched, AddWatched, ghosts
  <2>2. ASSUME NEW w, local' = [local EXCEPT ![d] = [local[d] EXCEPT !.watchedJettons = w]],
               local[d] # Nothing
        PROVE  Fresh(d)'
    BY <2>1, <2>2 DEF VaultRecord
  <2> QED BY <1>1, <1>3, <2>1, <2>2 DEF RemoveWatched, AddWatched, WatchedIn, SaveVault, store
<1> QED BY <1>1, <1>2, <1>3 DEF UserStep, Onboard, Unlock, ChangePasscode, Submit, Lookup, Start,
           LockWallet, Reopen, store, ghosts

LEMMA InitRetired == Init => RetiredInv
BY InitTyped DEF Init, RetiredInv, RetiredStaysRetired

LEMMA NextRetired == RetiredInv /\ [Next]_vars => RetiredInv'
<1> SUFFICES ASSUME RetiredInv, [Next]_vars
             PROVE  RetiredInv'
  OBVIOUS
<1>1. TypeInv /\ TypeInv'
  BY NextTyped DEF RetiredInv
<1>2. CASE UNCHANGED <<local, retired>>
  BY <1>1, <1>2 DEF RetiredInv, RetiredStaysRetired
<1>3. ASSUME NEW d \in Devices, UserStep(d) \/ \E i \in Slots : CallStep(d, i)
      PROVE  RetiredInv'
  <2>1. Fresh(d)'
    BY <1>3, UserRetires, CallRetires
  <2>2. \A e \in Devices \ {d} : local'[e] = local[e] /\ retired'[e] = retired[e]
    BY <1>1, <1>3, UserFrame, CallFrame
  <2> QED BY <1>1, <2>1, <2>2 DEF RetiredInv, RetiredStaysRetired, Fresh
<1> QED BY <1>1, <1>2, <1>3, Steps, LockFrame DEF vars, store, ghosts

(* A passcode that was changed never opens the device's vault again by itself, with any  *)
(* number of changes of the passcode under way at once.                                  *)
THEOREM PasscodesStayRetired == Spec => []RetiredStaysRetired
<1>1. RetiredInv => RetiredStaysRetired
  BY DEF RetiredInv
<1> QED BY <1>1, InitRetired, NextRetired, PTL DEF Spec

-----------------------------------------------------------------------------
(* The account that signs *)

(* A restore, which runs before the pages, is the only call of its device. *)
RestoreAlone(d) ==
    \A i \in Slots : Waits(d, i, "restore") =>
        seed[d] = Nothing /\ \A j \in Slots \ {i} : ~Active(d, j)

(* Everything on a device is of account a. *)
Agree(d, a) ==
    /\ seed[d] # Nothing => seed[d] = a
    /\ local[d] # Nothing => local[d].account = a
    /\ \A i \in Slots : HasVault(d, i) =>
          /\ calls[d][i].vault.account = a
          /\ calls[d][i].kind = "broadcast" => calls[d][i].seed = a

SignInv ==
    /\ RecordInv
    /\ \A d \in Devices : RestoreAlone(d)
    /\ \A d \in Devices \ overtaken : \E a \in Seeds \cup {Nothing} : Agree(d, a)

(* A call other than a restore goes on next to others that are none. *)
LEMMA NoRestore ==
    ASSUME SignInv, NEW d \in Devices, NEW i \in Slots, Active(d, i),
           calls[d][i].kind # "restore"
    PROVE  \A j \in Slots : ~Waits(d, j, "restore")
BY DEF SignInv, RestoreAlone, Waits

LEMMA CallAlone ==
    ASSUME SignInv, NEW d \in Devices, NEW i \in Slots, CallStep(d, i)
    PROVE  RestoreAlone(d)'
<1> DEFINE c == calls[d][i]
<1>0. TypeInv
  BY DEF SignInv, RecordInv
<1>1. \A j \in Slots \ {i} : ~Waits(d, j, "restore")
  BY NoRestore DEF CallStep, Onboarded, Unlocked, PasscodeChanged, Fetched, Decrypted, Broadcasted,
     LookupOver, Restored, Waits, SignInv, RestoreAlone
<1>2. \E e : calls' = [calls EXCEPT ![d][i] = e] /\ (e # Nothing => e.kind # "restore")
  <2>1. CASE calls' = [calls EXCEPT ![d][i] = Nothing]
    BY <2>1
  <2>2. CASE PasscodeChanged(d, i) /\ Opens(c.vault, c.passcode)
    BY <2>2 DEF PasscodeChanged, NewCall
  <2>3. CASE Fetched(d, i) \/ Decrypted(d, i)
    <3>1. c \in WithVault
      BY <1>0, <2>3, VaultCall DEF Fetched, Decrypted, Waits
    <3>2. \A s : calls' = [calls EXCEPT ![d][i].kind = "broadcast", ![d][i].seed = s] =>
              LET e == [c EXCEPT !.kind = "broadcast", !.seed = s] IN
              calls' = [calls EXCEPT ![d][i] = e] /\ e.kind = "broadcast"
      BY <1>0, <3>1 DEF TypeInv, WithVault, Call
    <3>3. calls' = [calls EXCEPT ![d][i].kind = "decrypt"] =>
              LET e == [c EXCEPT !.kind = "decrypt"] IN
              calls' = [calls EXCEPT ![d][i] = e] /\ e.kind = "decrypt"
      BY <1>0, <3>1 DEF TypeInv, WithVault, Call
    <3>4. CASE \E s : calls' = [calls EXCEPT ![d][i].kind = "broadcast", ![d][i].seed = s]
      BY <3>2, <3>4
    <3> QED BY <2>1, <2>3, <3>3, <3>4 DEF Fetched, Decrypted, Sign, Over
  <2> QED BY <2>1, <2>2, <2>3 DEF CallStep, Onboarded, Unlocked, PasscodeChanged, Broadcasted,
             LookupOver, Restored, Over
<1>3. \A j \in Slots : ~Waits(d, j, "restore")'
  BY <1>0, <1>1, <1>2 DEF Waits, Active, TypeInv
<1> QED BY <1>3 DEF RestoreAlone

LEMMA UserAlone ==
    ASSUME SignInv, NEW d \in Devices, UserStep(d)
    PROVE  RestoreAlone(d)'
<1>0. TypeInv
  BY DEF SignInv, RecordInv
<1>1. ASSUME NEW c, Start(d, c), c.kind # "restore"
      PROVE  RestoreAlone(d)'
  BY <1>0, <1>1 DEF Start, Act, Booted, RestoreAlone, Waits, Active, TypeInv
<1>2. ASSUME NEW kind, NEW v, NEW p, NEW n, NEW s, Start(d, NewCall(kind, v, p, n, s)),
             kind # "restore"
      PROVE  RestoreAlone(d)'
  <2>1. NewCall(kind, v, p, n, s).kind # "restore"
    BY <1>2 DEF NewCall
  <2> QED BY <1>1, <1>2, <2>1
<1>3. ASSUME \/ \E s \in Seeds, p \in Passcodes : Onboard(d, s, p)
             \/ \E p \in Passcodes : Unlock(d, p)
             \/ \E p, n \in Passcodes : ChangePasscode(d, p, n)
             \/ \E p \in Passcodes \cup {Nothing} : Submit(d, p)
             \/ Lookup(d)
      PROVE  RestoreAlone(d)'
  BY <1>2, <1>3 DEF Onboard, Unlock, ChangePasscode, Submit, Lookup
<1>4. ASSUME LockWallet(d) \/ EraseWallet(d) \/ \E j \in Jettons : RemoveWatched(d, j)
      PROVE  RestoreAlone(d)'
  BY <1>4 DEF LockWallet, EraseWallet, RemoveWatched, Act, Booted, RestoreAlone, Waits, Active
<1>5. CASE Reopen(d)
  <2>1. seed'[d] = Nothing
    BY <1>0, <1>5 DEF Reopen, Lock, TypeInv, TypeOK
  <2>2. \E i \in Slots : \A j \in Slots \ {i} : ~Active(d, j)'
    BY <1>0, <1>5 DEF Reopen, Idle, Active, TypeInv
  <2> QED BY <2>1, <2>2 DEF RestoreAlone, Waits
<1>6. ASSUME NEW i \in Slots, NEW j \in Jettons, AddWatched(d, i, j)
      PROVE  RestoreAlone(d)'
  <2>1. \A k \in Slots : ~Waits(d, k, "restore")
    BY <1>6, NoRestore DEF AddWatched, Waits
  <2>2. calls' = [calls EXCEPT ![d][i] = Nothing]
    BY <1>6 DEF AddWatched, Over
  <2> QED BY <1>0, <2>1, <2>2 DEF RestoreAlone, Waits, Active, TypeInv
<1> QED BY <1>3, <1>4, <1>5, <1>6 DEF UserStep

LEMMA KeepAgree ==
    ASSUME TypeInv, NEW d \in Devices, NEW a \in Seeds \cup {Nothing}, Agree(d, a),
           NEW i \in Slots, NEW e, calls' = [calls EXCEPT ![d][i] = e],
           e # Nothing /\ e.kind \notin {"onboard", "restore"} =>
               e.vault.account = a /\ (e.kind = "broadcast" => e.seed = a),
           seed'[d] \in {seed[d], a, Nothing},
           local'[d] = local[d] \/ (local'[d] # Nothing => local'[d].account = a)
    PROVE  \E b \in Seeds \cup {Nothing} : Agree(d, b)'
<1>1. Agree(d, a)'
  BY DEF Agree, HasVault, Active, TypeInv
<1> QED BY <1>1

LEMMA CallAgrees ==
    ASSUME SignInv, NEW d \in Devices, d \notin overtaken', NEW i \in Slots, CallStep(d, i)
    PROVE  \E a \in Seeds \cup {Nothing} : Agree(d, a)'
<1> DEFINE c == calls[d][i]
<1>0. /\ TypeInv /\ LoadedBelong
      /\ \A a : Agree(d, a) /\ HasVault(d, i) => c.vault.account = a
  BY DEF SignInv, RecordInv, Agree
<1>1. CASE Onboarded(d, i)
  <2>1. c \in Onboarding
    BY <1>0, <1>1 DEF Onboarded, Waits, Active, TypeInv, WellCall, WithVault
  <2>2. \A j \in Slots : ~Active(d, j)'
    BY <1>0, <1>1 DEF Onboarded, Over, Active, TypeInv
  <2>3. local'[d].account = c.seed /\ seed'[d] = c.seed
    BY <1>0, <1>1 DEF Onboarded, SaveVault, SetSeed, TypeInv, TypeOK
  <2>4. PICK a \in Seeds : a = c.seed
    BY <2>1 DEF Onboarding
  <2>5. Agree(d, a)'
    BY <2>2, <2>3, <2>4 DEF Agree, HasVault
  <2> QED BY <2>5
<1>2. CASE Restored(d, i)
  <2>1. /\ seed'[d] = Nothing /\ local'[d] \in {local[d], cloud}
    BY <1>0, <1>2 DEF Restored, keyring, SignInv, RestoreAlone, TypeInv, TypeOK
  <2>2. \A j \in Slots : ~Active(d, j)'
    BY <1>0, <1>2 DEF Restored, Over, Active, SignInv, RestoreAlone, TypeInv
  <2>3. local'[d] \in VaultRecord \cup {Nothing}
    BY <1>0, <2>1 DEF TypeInv, TypeOK
  <2>4. PICK a \in Seeds \cup {Nothing} : local'[d] # Nothing => local'[d].account = a
    BY <2>3 DEF VaultRecord
  <2>5. Agree(d, a)'
    BY <2>1, <2>2, <2>4 DEF Agree, HasVault
  <2> QED BY <2>5
<1>3. CASE ~Onboarded(d, i) /\ ~Restored(d, i)
  <2>0. d \notin overtaken
    BY <1>3 DEF CallStep, Unlocked, PasscodeChanged, Fetched, Decrypted, Broadcasted,
       LookupOver, ghosts
  <2> PICK a \in Seeds \cup {Nothing} : Agree(d, a)
    BY <2>0 DEF SignInv
  <2>1. HasVault(d, i) /\ c \in WithVault
    BY <1>0, <1>3, VaultCall DEF CallStep, Unlocked, PasscodeChanged, Fetched, Decrypted,
       Broadcasted, LookupOver, Waits, HasVault
  <2>2. c.vault.account = a /\ c.vault.encryptedSeed.seed = a
    BY <1>0, <2>1 DEF LoadedBelong
  <2>3. CASE PasscodeChanged(d, i) /\ Opens(c.vault, c.passcode)
    <3> DEFINE r == Reencrypted(d, c)
               e == NewCall("reopen", r, c.next, Nothing, Nothing)
    <3>1. r.account = a
      BY <2>1, <2>2 DEF Reencrypted, WithVault, VaultRecord
    <3>2. e.vault = r /\ e.kind = "reopen"
      BY DEF NewCall
    <3>3. /\ local' = [local EXCEPT ![d] = r] /\ seed' = seed
          /\ calls' = [calls EXCEPT ![d][i] = e]
      BY <2>3 DEF PasscodeChanged, SaveVault, keyring
    <3> HIDE DEF r, e
    <3>4. local'[d] = r
      BY <1>0, <3>3 DEF TypeInv, TypeOK
    <3> QED BY <1>0, <3>1, <3>2, <3>3, <3>4, KeepAgree
  <2>4. CASE UNCHANGED local /\ calls' = [calls EXCEPT ![d][i] = Nothing]
             /\ seed'[d] \in {seed[d], a, Nothing}
    BY <1>0, <2>4, KeepAgree
  <2>5. CASE UNCHANGED <<local, seed>> /\ calls' = [calls EXCEPT ![d][i].kind = "decrypt"]
    <3> DEFINE e == [c EXCEPT !.kind = "decrypt"]
    <3>1. e.vault = c.vault /\ e.kind = "decrypt" /\ calls' = [calls EXCEPT ![d][i] = e]
      BY <1>0, <2>1, <2>5 DEF TypeInv, WithVault, Call
    <3> HIDE DEF e
    <3>2. /\ seed'[d] \in {seed[d], a, Nothing} /\ local'[d] = local[d]
          /\ e.vault.account = a /\ e.kind # "broadcast"
      BY <2>2, <2>5, <3>1
    <3> QED BY <1>0, <3>1, <3>2, KeepAgree
  <2>6. CASE UNCHANGED local /\ Sign(d, i, a) /\ seed'[d] \in {seed[d], a}
    <3> DEFINE e == [c EXCEPT !.kind = "broadcast", !.seed = a]
    <3>1. e.vault = c.vault /\ e.seed = a /\ calls' = [calls EXCEPT ![d][i] = e]
      BY <1>0, <2>1, <2>6 DEF Sign, TypeInv, WithVault, Call
    <3> HIDE DEF e
    <3>2. /\ seed'[d] \in {seed[d], a, Nothing} /\ local'[d] = local[d]
          /\ e.vault.account = a
      BY <2>2, <2>6, <3>1
    <3> QED BY <1>0, <3>1, <3>2, KeepAgree
  <2>7. CASE Unlocked(d, i) \/ Decrypted(d, i)
    <3>1. CASE Opens(c.vault, c.passcode)
      <4>1. seed'[d] = a
        BY <1>0, <2>2, <2>7, <3>1 DEF Unlocked, Decrypted, SetSeed, TypeInv, TypeOK
      <4> QED BY <2>4, <2>6, <2>7, <3>1, <4>1 DEF Unlocked, Decrypted, Over, store
    <3>2. CASE ~Opens(c.vault, c.passcode)
      BY <2>4, <2>7, <3>2 DEF Unlocked, Decrypted, Over, store, keyring
    <3> QED BY <3>1, <3>2
  <2>8. CASE Fetched(d, i)
    <3>1. seed[d] # Nothing => seed[d] = a
      BY DEF Agree
    <3> QED BY <2>4, <2>5, <2>6, <2>8, <3>1 DEF Fetched, Over, store
  <2> QED BY <1>3, <2>3, <2>4, <2>7, <2>8 DEF CallStep, PasscodeChanged, Broadcasted, LookupOver,
             Over, store, keyring
<1> QED BY <1>1, <1>2, <1>3

LEMMA UserAgrees ==
    ASSUME SignInv, NEW d \in Devices, d \notin overtaken', UserStep(d)
    PROVE  \E a \in Seeds \cup {Nothing} : Agree(d, a)'
<1>0. TypeInv
  BY DEF SignInv, RecordInv
<1>1. CASE Reopen(d)
  <2>1. seed'[d] = Nothing /\ local'[d] = local[d] /\ local[d] \in VaultRecord \cup {Nothing}
    BY <1>0, <1>1 DEF Reopen, Lock, store, TypeInv, TypeOK
  <2>2. \A j \in Slots : ~HasVault(d, j)'
    BY <1>0, <1>1 DEF Reopen, Idle, NewCall, HasVault, Active, TypeInv
  <2>3. PICK a \in Seeds \cup {Nothing} : local[d] # Nothing => local[d].account = a
    BY <2>1 DEF VaultRecord
  <2>4. Agree(d, a)'
    BY <2>1, <2>2, <2>3 DEF Agree
  <2> QED BY <2>4
<1>2. CASE ~Reopen(d)
  <2>0. d \notin overtaken
    BY <1>2 DEF UserStep, Onboard, Unlock, ChangePasscode, Submit, Lookup, Start, LockWallet,
       EraseWallet, RemoveWatched, AddWatched, ghosts
  <2> PICK a \in Seeds \cup {Nothing} : Agree(d, a)
    BY <2>0 DEF SignInv
  <2>1. ASSUME NEW c, Start(d, c), c.kind = "onboard" \/ (c.vault.account = a /\ c.kind # "broadcast")
        PROVE  \E b \in Seeds \cup {Nothing} : Agree(d, b)'
    <3>1. UNCHANGED <<local, seed>> /\ \E i \in Slots : calls' = [calls EXCEPT ![d][i] = c]
      BY <2>1 DEF Start, store, keyring
    <3> QED BY <1>0, <2>1, <3>1, KeepAgree
  <2>2. ASSUME NEW kind, NEW p, NEW n, Start(d, NewCall(kind, local[d], p, n, Nothing)),
               local[d] # Nothing, kind # "broadcast"
        PROVE  \E b \in Seeds \cup {Nothing} : Agree(d, b)'
    <3>1. /\ NewCall(kind, local[d], p, n, Nothing).vault = local[d]
          /\ NewCall(kind, local[d], p, n, Nothing).kind = kind
      BY DEF NewCall
    <3> QED BY <2>1, <2>2, <3>1 DEF Agree
  <2>3. ASSUME \/ \E p \in Passcodes : Unlock(d, p)
               \/ \E p, n \in Passcodes : ChangePasscode(d, p, n)
               \/ \E p \in Passcodes \cup {Nothing} : Submit(d, p)
               \/ Lookup(d)
        PROVE  \E b \in Seeds \cup {Nothing} : Agree(d, b)'
    BY <2>2, <2>3 DEF Unlock, ChangePasscode, Submit, Lookup
  <2>4. ASSUME NEW s \in Seeds, NEW p \in Passcodes, Onboard(d, s, p)
        PROVE  \E b \in Seeds \cup {Nothing} : Agree(d, b)'
    <3>1. NewCall("onboard", Nothing, Nothing, p, s).kind = "onboard"
      BY DEF NewCall
    <3> QED BY <2>1, <2>4, <3>1 DEF Onboard
  <2>5. CASE LockWallet(d) \/ EraseWallet(d)
    <3>1. /\ seed'[d] = Nothing /\ local'[d] \in {local[d], Nothing} /\ UNCHANGED calls
      BY <1>0, <2>5 DEF LockWallet, EraseWallet, Lock, DeleteVault, store, TypeInv, TypeOK
    <3>2. Agree(d, a)'
      BY <3>1 DEF Agree, HasVault, Active
    <3> QED BY <3>2
  <2>6. ASSUME NEW j \in Jettons, RemoveWatched(d, j) \/ \E i \in Slots : AddWatched(d, i, j)
        PROVE  \E b \in Seeds \cup {Nothing} : Agree(d, b)'
    <3>1. local[d] \in VaultRecord \cup {Nothing} /\ UNCHANGED seed
      BY <1>0, <2>6 DEF RemoveWatched, AddWatched, keyring, TypeInv, TypeOK
    <3>2. local'[d] = local[d] \/ (local[d] # Nothing /\ local'[d].account = local[d].account)
      BY <1>0, <2>6, <3>1 DEF RemoveWatched, AddWatched, WatchedIn, SaveVault, store, VaultRecord,
         TypeInv, TypeOK
    <3>3. UNCHANGED calls \/ \E i \in Slots : calls' = [calls EXCEPT ![d][i] = Nothing]
      BY <2>6 DEF RemoveWatched, AddWatched, Over
    <3>4. Agree(d, a)'
      BY <1>0, <3>1, <3>2, <3>3 DEF Agree, HasVault, Active, TypeInv
    <3> QED BY <3>4
  <2> QED BY <1>2, <2>3, <2>4, <2>5, <2>6 DEF UserStep
<1> QED BY <1>1, <1>2

LEMMA InitSign == Init => SignInv
BY InitRecord DEF Init, Idle, SignInv, RestoreAlone, Agree, HasVault, Waits, Active

LEMMA NextSign == SignInv /\ [Next]_vars => SignInv'
<1> SUFFICES ASSUME SignInv, [Next]_vars
             PROVE  SignInv'
  OBVIOUS
<1>1. RecordInv' /\ TypeInv
  BY NextRecord DEF SignInv, RecordInv
<1>2. CASE UNCHANGED vars
  BY <1>1, <1>2 DEF vars, store, keyring, ghosts, SignInv, RestoreAlone, Agree, HasVault, Waits,
     Active
<1>3. ASSUME NEW d \in Devices, UserStep(d) \/ \E i \in Slots : CallStep(d, i)
      PROVE  SignInv'
  <2>1. RestoreAlone(d)'
    BY <1>3, UserAlone, CallAlone
  <2>2. d \notin overtaken' => \E a \in Seeds \cup {Nothing} : Agree(d, a)'
    BY <1>3, UserAgrees, CallAgrees
  <2>3. \A e \in Devices \ {d} :
            /\ local'[e] = local[e] /\ seed'[e] = seed[e] /\ calls'[e] = calls[e]
            /\ (e \in overtaken' <=> e \in overtaken)
    BY <1>1, <1>3, UserFrame, CallFrame
  <2>4. \A e \in Devices \ {d} : RestoreAlone(e)' /\ \A a : Agree(e, a) => Agree(e, a)'
    BY <2>3 DEF SignInv, RestoreAlone, Agree, HasVault, Waits, Active
  <2> QED BY <1>1, <2>1, <2>2, <2>3, <2>4 DEF SignInv
<1>4. ASSUME NEW d \in Devices, AutoLock(d)
      PROVE  SignInv'
  <2>1. UNCHANGED <<local, calls, overtaken>> /\ \A e \in Devices : seed'[e] \in {seed[e], Nothing}
    BY <1>1, <1>4, LockFrame
  <2>2. \A e \in Devices : RestoreAlone(e)' /\ \A a : Agree(e, a) => Agree(e, a)'
    BY <2>1 DEF SignInv, RestoreAlone, Agree, HasVault, Waits, Active
  <2> QED BY <1>1, <2>1, <2>2 DEF SignInv
<1> QED BY <1>2, <1>3, <1>4, Steps

(* A transfer is signed with the seed of the account its page shows, on every device    *)
(* where no onboarding ended before an older call.                                       *)
THEOREM SignerIsShown == Spec => []SignsForShownAccount
<1>1. SignInv => SignsForShownAccount
  BY DEF SignInv, SignsForShownAccount, Agree, HasVault, Waits
<1> QED BY <1>1, InitSign, NextSign, PTL DEF Spec

=============================================================================
