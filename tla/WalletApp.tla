------------------------------- MODULE WalletApp -------------------------------
(***************************************************************************)
(* The wallet app's secrets: state/vault.ts, state/keyring.ts,             *)
(* crypto/passcode.ts and the pages of wallet/src that use them, on the    *)
(* devices of one Telegram user, who share the CloudStorage mirror.        *)
(*                                                                         *)
(* Deriving a key from a passcode takes time (PBKDF2), as requests do, and *)
(* a page that is left does not stop what it started: calls[d] holds the   *)
(* calls in progress on device d.  A record of the vault that a page has   *)
(* loaded is part of its call.  A wallet account is named by its seed.     *)
(***************************************************************************)
EXTENDS Naturals

CONSTANTS
    Devices, Seeds, Passcodes, Jettons,
    Slots,              \* of the calls in progress on a device
    MaxActs,            \* bound on what the user does
    MaxFailures,        \* bound on failures
    Nothing             \* null

VARIABLES
    local,              \* localStorage: device -> record
    cloud,              \* CloudStorage of the Telegram account
    seed,               \* keyring: device -> decrypted seed
    timer,              \* keyring: the devices whose auto-lock timer is armed
    calls,              \* device -> slot -> call in progress
    retired,            \* device -> passcodes changed for another since onboarding
    overtaken,          \* the devices where an onboarding ended before an older call
    acts, failures

vars == <<local, cloud, seed, timer, calls, retired, overtaken, acts, failures>>
store == <<local, cloud>>
keyring == <<seed, timer>>
ghosts == <<retired, overtaken>>

ASSUME WalletAppAssumption ==
    /\ Nothing \notin Seeds /\ Nothing \notin Passcodes
    /\ MaxActs \in Nat /\ MaxFailures \in Nat

EncryptedVault == [seed : Seeds, passcode : Passcodes]
VaultRecord == [account : Seeds, encryptedSeed : EncryptedVault, watchedJettons : SUBSET Jettons]

\* vault: the record the page loaded.  passcode: the one typed, or none.  next: the new
\* one.  seed: of the phrase, or the copy withSeed lends.
Call == [kind : {"restore", "onboard", "unlock", "change", "reopen", "fetch", "decrypt",
                 "broadcast", "lookup"},
         vault : VaultRecord \cup {Nothing}, passcode : Passcodes \cup {Nothing},
         next : Passcodes \cup {Nothing}, seed : Seeds \cup {Nothing}]

Idle == [i \in Slots |-> Nothing]

Init ==
    /\ local = [d \in Devices |-> Nothing] /\ cloud = Nothing
    /\ seed = [d \in Devices |-> Nothing] /\ timer = {}
    /\ calls = [d \in Devices |-> Idle]
    /\ retired = [d \in Devices |-> {}] /\ overtaken = {}
    /\ acts = 0 /\ failures = 0

-----------------------------------------------------------------------------
(* passcode.ts, vault.ts, keyring.ts *)

EncryptSeed(s, passcode) == [seed |-> s, passcode |-> passcode]
Opens(vault, passcode) == vault.encryptedSeed.passcode = passcode

Fail == failures < MaxFailures /\ failures' = failures + 1

\* A failure of CloudStorage goes unnoticed.
Mirror(value) ==
    \/ cloud' = value /\ UNCHANGED failures
    \/ cloud' = cloud /\ Fail

SaveVault(d, vault) == local' = [local EXCEPT ![d] = vault] /\ Mirror(vault)
DeleteVault(d) == local' = [local EXCEPT ![d] = Nothing] /\ Mirror(Nothing)

Lock(d) == seed' = [seed EXCEPT ![d] = Nothing] /\ timer' = timer \ {d}

\* Mutations of SetSeed: the timer is not armed; an unlocked keyring is left alone.
SetSeedUntimed(d, s) == seed' = [seed EXCEPT ![d] = s] /\ UNCHANGED timer
SetSeedOnce(d, s) == seed' = [seed EXCEPT ![d] = IF @ = Nothing THEN s ELSE @]
                     /\ timer' = timer \cup {d}

SetSeed(d, s) == seed' = [seed EXCEPT ![d] = s] /\ timer' = timer \cup {d}

-----------------------------------------------------------------------------
(* Calls in progress *)

Active(d, i) == calls[d][i] # Nothing
Waits(d, i, kind) == Active(d, i) /\ calls[d][i].kind = kind
Booted(d) == \A i \in Slots : ~Waits(d, i, "restore")

NewCall(kind, vault, passcode, next, s) ==
    [kind |-> kind, vault |-> vault, passcode |-> passcode, next |-> next, seed |-> s]

\* The user does something on device d.
Act(d) == Booted(d) /\ acts < MaxActs /\ acts' = acts + 1

Start(d, call) ==
    /\ Act(d)
    /\ \E i \in Slots : ~Active(d, i) /\ calls' = [calls EXCEPT ![d][i] = call]
    /\ UNCHANGED <<store, keyring, ghosts, failures>>

Over(d, i) == calls' = [calls EXCEPT ![d][i] = Nothing]

-----------------------------------------------------------------------------
(* Onboarding: Create.tsx and Import.tsx *)

\* finalize, submit.  The onboarding pages are left when there is a vault; a second
\* click is possible until then.
Onboard(d, s, passcode) ==
    /\ local[d] = Nothing
    /\ Start(d, NewCall("onboard", Nothing, Nothing, passcode, s))

Onboarded(d, i) ==
    /\ Waits(d, i, "onboard")
    /\ LET call == calls[d][i] IN
       /\ SaveVault(d, [account |-> call.seed,
                        encryptedSeed |-> EncryptSeed(call.seed, call.next),
                        watchedJettons |-> {}])
       /\ SetSeed(d, call.seed)
    /\ Over(d, i)
    /\ retired' = [retired EXCEPT ![d] = {}]
    /\ overtaken' = IF \E j \in Slots \ {i} : Active(d, j) THEN overtaken \cup {d}
                    ELSE overtaken
    /\ UNCHANGED acts

-----------------------------------------------------------------------------
(* Unlock.tsx and Settings.tsx *)

Unlock(d, passcode) ==
    /\ local[d] # Nothing /\ seed[d] = Nothing
    /\ Start(d, NewCall("unlock", local[d], passcode, Nothing, Nothing))

\* "wrong passcode", or the keyring is unlocked.
Unlocked(d, i) ==
    /\ Waits(d, i, "unlock") \/ Waits(d, i, "reopen")
    /\ LET call == calls[d][i] IN
       IF Opens(call.vault, call.passcode)
       THEN SetSeed(d, call.vault.encryptedSeed.seed)
       ELSE UNCHANGED keyring
    /\ Over(d, i)
    /\ UNCHANGED <<store, ghosts, acts, failures>>

ChangePasscode(d, passcode, next) ==
    /\ local[d] # Nothing
    /\ Start(d, NewCall("change", local[d], passcode, next, Nothing))

\* Mutation of Reencrypted: into the record stored by now.
ReencryptedStored(d, call) ==
    IF local[d] = Nothing
    THEN [account |-> Nothing, watchedJettons |-> {},
          encryptedSeed |-> EncryptSeed(call.vault.encryptedSeed.seed, call.next)]
    ELSE [local[d] EXCEPT !.encryptedSeed = EncryptSeed(call.vault.encryptedSeed.seed, call.next)]

\* {...vault, encryptedSeed}: into the record the page loaded.
Reencrypted(d, call) ==
    [call.vault EXCEPT !.encryptedSeed = EncryptSeed(call.vault.encryptedSeed.seed, call.next)]

\* changePasscode has succeeded, and the new ciphertext is opened; or "wrong passcode".
PasscodeChanged(d, i) ==
    /\ Waits(d, i, "change")
    /\ LET call == calls[d][i] IN
       IF Opens(call.vault, call.passcode)
       THEN /\ SaveVault(d, Reencrypted(d, call))
            /\ calls' = [calls EXCEPT ![d][i] =
                 NewCall("reopen", Reencrypted(d, call), call.next, Nothing, Nothing)]
            /\ retired' = [retired EXCEPT ![d] = (@ \cup {call.passcode}) \ {call.next}]
       ELSE Over(d, i) /\ UNCHANGED <<store, retired, failures>>
    /\ UNCHANGED <<keyring, overtaken, acts>>

LockWallet(d) ==
    /\ Act(d) /\ local[d] # Nothing
    /\ Lock(d)
    /\ UNCHANGED <<store, calls, ghosts, failures>>

\* eraseWallet, reset.
EraseWallet(d) ==
    /\ Act(d) /\ local[d] # Nothing
    /\ DeleteVault(d) /\ Lock(d)
    /\ UNCHANGED <<calls, ghosts>>

-----------------------------------------------------------------------------
(* Send.tsx, SendJetton.tsx, tx.ts *)

\* submit, up to the fresh proof.  SendTon has none to wait for.
Submit(d, passcode) ==
    /\ local[d] # Nothing
    /\ Start(d, NewCall("fetch", local[d], passcode, Nothing, Nothing))

\* withSeed lends a copy for the signature and the broadcast.
Sign(d, i, s) ==
    calls' = [calls EXCEPT ![d][i].kind = "broadcast", ![d][i].seed = s]

\* "Mintless proof unavailable", or the passcode is needed and may be missing.
Fetched(d, i) ==
    /\ Waits(d, i, "fetch")
    /\ \/ Over(d, i) /\ Fail /\ UNCHANGED timer
       \/ seed[d] # Nothing /\ Sign(d, i, seed[d]) /\ timer' = timer \cup {d}
          /\ UNCHANGED failures
       \/ /\ seed[d] = Nothing
          /\ IF calls[d][i].passcode = Nothing THEN Over(d, i)
             ELSE calls' = [calls EXCEPT ![d][i].kind = "decrypt"]
          /\ UNCHANGED <<timer, failures>>
    /\ UNCHANGED <<store, seed, ghosts, acts>>

Decrypted(d, i) ==
    /\ Waits(d, i, "decrypt")
    /\ LET call == calls[d][i] IN
       IF Opens(call.vault, call.passcode)
       THEN SetSeed(d, call.vault.encryptedSeed.seed) /\ Sign(d, i, seed'[d])
       ELSE Over(d, i) /\ UNCHANGED keyring
    /\ UNCHANGED <<store, ghosts, acts, failures>>

\* Sent or not, the copy is wiped.
Broadcasted(d, i) ==
    /\ Waits(d, i, "broadcast")
    /\ Over(d, i)
    /\ UNCHANGED <<store, keyring, ghosts, acts, failures>>

-----------------------------------------------------------------------------
(* AddJetton.tsx *)

Lookup(d) ==
    /\ local[d] # Nothing
    /\ Start(d, NewCall("lookup", local[d], Nothing, Nothing, Nothing))

\* Mutation of WatchedIn: the record the page loaded.
WatchedInLoaded(d, call) == call.vault

\* add/removeWatchedJetton load the record afresh.
WatchedIn(d, call) == local[d]

\* add: nothing happens without a vault.
AddWatched(d, i, j) ==
    /\ Waits(d, i, "lookup")
    /\ IF local[d] = Nothing \/ j \in local[d].watchedJettons THEN UNCHANGED <<store, failures>>
       ELSE SaveVault(d, [WatchedIn(d, calls[d][i]) EXCEPT !.watchedJettons = @ \cup {j}])
    /\ Over(d, i)
    /\ UNCHANGED <<keyring, ghosts, acts>>

RemoveWatched(d, j) ==
    /\ Act(d)
    /\ local[d] # Nothing /\ j \in local[d].watchedJettons
    /\ SaveVault(d, [local[d] EXCEPT !.watchedJettons = @ \ {j}])
    /\ UNCHANGED <<keyring, calls, ghosts>>

\* "Lookup failed", or the page is left.
LookupOver(d, i) ==
    /\ Waits(d, i, "lookup")
    /\ Over(d, i)
    /\ UNCHANGED <<store, keyring, ghosts, acts, failures>>

-----------------------------------------------------------------------------
(* App.tsx *)

\* The auto-lock timer fires.
AutoLock(d) ==
    /\ d \in timer
    /\ Lock(d)
    /\ UNCHANGED <<store, calls, ghosts, acts, failures>>

\* The app is closed and opened: memory is lost, and without a vault the cloud is asked.
Reopen(d) ==
    /\ Act(d)
    /\ Lock(d)
    /\ \E i \in Slots :
         calls' = [calls EXCEPT ![d] = IF local[d] # Nothing THEN Idle
                    ELSE [Idle EXCEPT ![i] = NewCall("restore", Nothing, Nothing, Nothing, Nothing)]]
    /\ overtaken' = overtaken \ {d}
    /\ UNCHANGED <<store, retired, failures>>

\* restoreVaultFromTmaCloud: the record of the mirror, or no answer.
Restored(d, i) ==
    /\ Waits(d, i, "restore")
    /\ \/ local' = [local EXCEPT ![d] = cloud] /\ UNCHANGED failures
       \/ Fail /\ UNCHANGED local
    /\ Over(d, i)
    /\ retired' = [retired EXCEPT ![d] = {}]
    /\ UNCHANGED <<cloud, keyring, overtaken, acts>>

-----------------------------------------------------------------------------

\* A call that goes on by itself.
CallStep(d, i) ==
    \/ Onboarded(d, i) \/ Unlocked(d, i) \/ PasscodeChanged(d, i)
    \/ Fetched(d, i) \/ Decrypted(d, i) \/ Broadcasted(d, i)
    \/ LookupOver(d, i) \/ Restored(d, i)

UserStep(d) ==
    \/ \E s \in Seeds, p \in Passcodes : Onboard(d, s, p)
    \/ \E p \in Passcodes : Unlock(d, p)
    \/ \E p, n \in Passcodes : ChangePasscode(d, p, n)
    \/ \E p \in Passcodes \cup {Nothing} : Submit(d, p)
    \/ LockWallet(d) \/ EraseWallet(d) \/ Lookup(d) \/ Reopen(d)
    \/ \E j \in Jettons : RemoveWatched(d, j)
    \/ \E i \in Slots, j \in Jettons : AddWatched(d, i, j)

Next ==
    \E d \in Devices :
        \/ UserStep(d) \/ AutoLock(d)
        \/ \E i \in Slots : CallStep(d, i)

Spec == Init /\ [][Next]_vars

\* Calls end, as requests and key derivations do, and timers fire.
Fairness ==
    \A d \in Devices :
        /\ WF_vars(AutoLock(d))
        /\ \A i \in Slots : WF_vars(CallStep(d, i))

FairSpec == Spec /\ Fairness

-----------------------------------------------------------------------------
(* Properties *)

TypeOK ==
    /\ local \in [Devices -> VaultRecord \cup {Nothing}]
    /\ cloud \in VaultRecord \cup {Nothing}
    /\ seed \in [Devices -> Seeds \cup {Nothing}] /\ timer \subseteq Devices
    /\ calls \in [Devices -> [Slots -> Call \cup {Nothing}]]
    /\ retired \in [Devices -> SUBSET Passcodes] /\ overtaken \subseteq Devices
    /\ acts \in Nat /\ failures \in Nat

\* What is stored, here or in the mirror, opens to the seed of the account it names,
\* whatever calls of whatever pages ended in between: no passcode change, watched jetton
\* or restore mixes two wallets (the ciphertext of the other would be lost with it).
RecordsBelongTogether ==
    \A r \in {local[d] : d \in Devices} \cup {cloud} :
        r # Nothing => r.account = r.encryptedSeed.seed

\* A passcode that was changed does not open the device's vault again, unless the user
\* set it again, imported again, or the record came back from the mirror.
RetiredStaysRetired ==
    \A d \in Devices :
        local[d] # Nothing => local[d].encryptedSeed.passcode \notin retired[d]

\* A transfer is signed with the seed of the account its page shows, and an unlocked
\* keyring holds that of the vault, unless an onboarding ended while an older call of
\* the device had not (typing a phrase takes longer than that).
SignsForShownAccount ==
    \A d \in Devices \ overtaken :
        /\ seed[d] # Nothing /\ local[d] # Nothing => seed[d] = local[d].account
        /\ \A i \in Slots :
             Waits(d, i, "broadcast") => calls[d][i].seed = calls[d][i].vault.account

\* A user who stops using the app finally has no seed in memory: neither the keyring's,
\* which a late call may fill after a lock or an erase, nor a copy of withSeed.
SeedFinallyWiped ==
    <>[](\A d \in Devices : seed[d] = Nothing /\ \A i \in Slots : ~Waits(d, i, "broadcast"))

=============================================================================
