# Rolling Mintless Jetton: TLA+ verification

A rolling mintless jetton pays a growing off-chain reward on-chain, at the user's
own expense: a backend counts rewards, keeps a Merkle tree of cumulative amounts and
signs its roots, and a jetton wallet credits the part of its owner's leaf it has not
credited before, as a side effect of an ordinary transfer. These modules model that
system from its sources: the two contracts (FunC) and the messages between them, the
backend, the SDK, the wallet app and the operator's minter page (TypeScript).

## Inventory

| component | state | operations | talks to |
|---|---|---|---|
| jetton wallet (`contracts/contracts/rolling_mintless_wallet.fc`) | balance, already_claimed, cached root and epoch, baked-in signer key | transfer with no claim, `rolling_claim` with or without voucher, `merkle_airdrop_claim`; internal_transfer; burn; bounces | other wallets and the master, by messages |
| jetton master (`rolling_mintless_master.fc`) | total_supply, admin, content, root, epoch, signer key, paused | mint, burn_notification, update_merkle_root, update_signer, pause, unpause, change_admin, change_content | wallets, admin |
| Merkle checks (`imports/merkle.fc`, `wrappers/AirdropTree.ts`, `wrappers/Voucher.ts`) | none | root of a proof, look-up of a leaf, voucher hash | wallet, backend |
| game server (`backend/src/gameServer.ts`) | none of its own; calls in progress | recordAction, setBan, listActiveSince | stores, airdrop state |
| stores (`backend/src/store/`) | tables users, tap_events, epochs, kv | one SQL statement or transaction each | Postgres (pool of 12) or SQLite (synchronous) |
| airdrop state (`backend/src/state.ts`) | in-memory tree, epoch | hydrate, upsertUser, applyUpdates, advanceEpoch | store |
| tree builder (`treeBuilder.ts`) | timer, running flag | tick | game server, state, store, root updater |
| root updater (`rootUpdater.ts`, `onChainMerkle.ts`) | running flag, kv keys | needsOnChainSync, syncWithState | chain, store |
| Proof API (`routes/proofApi.ts`, `routes/jettonWalletApi.ts`, `mintlessClaimHelpers.ts`, `walletClaimPayload.ts`, `onChainSigner.ts`) | the cached signer of the master | answers with amount, proof, voucher, wallet address and state_init | state, signer, chain |
| SDK (`sdk/src/client.ts`, `jettonTransfer.ts`) | none; a call in progress | getCustomPayload with retries, getJettonWallet, the claim button built on them | Proof API, wallet contract |
| wallet app (`wallet/src/`) | vault in localStorage, its mirror in CloudStorage, keyring, page state | onboarding, unlock, passcode, erase, restore; watched jettons; send | Proof API, chain |
| minter page (`examples/minter/src/App.tsx`) | form, call in progress, deployed master | plan, deploy, register, .env | wallet, registry, chain |
| metadata (`rootUpdater.ts`, `metadataUriUtils.ts`, `routes/publicJettonMetadata.ts`, `mintlessCompliance.ts`, `jettonRegistry.ts`) | URI on chain, registry key in kv | change_content with a commit or by the operator; metadata and dump URI | chain, Toncenter |
| compliance (`compliance.ts`, `examples/minter/src/ComplianceTab.tsx`) | a report in progress, the tab's buttons | runCompliance; sync root, bump metadata | Proof API, chain, Toncenter |
| message wrappers, diagnostics, display audit, bot, game example, scripts | none, or a kv key | encoding, reports, printing | all of the above |

What is hard in it:

* Answers of the Proof API are bearer data. An owner may hold answers of many epochs,
  use them late, twice or in reverse, and on wallets of different signer keys.
* The wallet's transfer loads storage, lets the claim save other storage, and goes on
  with a second load; a later throw takes all of it back.
* Messages between contracts are delivered in any order and may bounce, after the
  sender was debited; claims, burns and admin operations go on in between.
* `update_signer` moves every wallet address, while wallets of the old key live on.
* In the backend every store call is a suspension point. With Postgres, calls for one
  user interleave; between COMMIT and the update of the in-memory tree the process can
  die or another call can pass.
* Epoch, live root, committed root and cached root advance at different times, and each
  side is restarted on its own.
* An answer of the Proof API is put together over up to five awaits, between which the
  tree, the epoch, the chain and the process itself may change; clients retry, and decide
  from what they read before.
* The wallet app's pages keep loaded records and typed passcodes across key derivations and
  requests, and a page that is left does not stop what it began.
* Ticks, forced syncs and the operator send from one admin wallet with one seqno; an
  indexer keeps metadata by their URI and dumps by theirs.

What makes each part correct: vouchers and proofs of the backend's trees credit an owner at
most what was earned, forwards only, and a wallet's cache belongs together; jettons are
accounted for through bounces; an amount in the backend is never worth more
than the taps behind it, and exactly that when calls do not overlap; rate limits and the
supply cap hold, up to what overlapping calls add; the tree follows the table; the parts of
an answer belong together, and who keeps asking finally has on-chain what was earned;
secrets of two wallets are never mixed and finally wiped; the URI and the dump that
indexers read keep up with the root. Every
hazard is listed in `PROJECT.json` at its line, with the properties about it.

## Modules

| module | models |
|---|---|
| `MerkleClaim` | leaf, tree, voucher; the guards of `apply_merkle_claim` and of the voucher in `handle_rolling_claim` |
| `JettonNet` | wallet addresses, messages in flight (a bag), delivery and bounce |
| `JettonWallet` | `rolling_mintless_wallet.fc`, one action per inbound message |
| `JettonMaster` | `rolling_mintless_master.fc`, one action per op |
| `RollingJetton` | all wallets, the master, the network and an abstract backend; the properties |
| `ClaimLedger` | abstract: owners earn, wallets are credited in steps within the earnings |
| `EpochRegister` | abstract: numbers of epochs are advanced, written, signed, lost in a crash, committed and marked |
| `GameServer` | `recordAction` and `setBan` over the tables, the in-memory tree, failures and restarts |
| `RootUpdater` | `rootUpdater.ts` and `onChainMerkle.ts`: `syncWithState` in all its callers, the chain |
| `TreeBuilder` | `treeBuilder.ts`, `applyUpdates` and `advanceEpoch` of `state.ts`, the epochs and kv tables; extends `RootUpdater` |
| `Backend` | the process: users, ticks, syncs, restarts; its properties and fairness; extends `TreeBuilder` |
| `ProofApi` | answers of the Proof API and of `/jetton/wallet` to one owner, one action per await |
| `RmjSdk` | `client.ts` and `jettonTransfer.ts` of the SDK as the claim button calls them; extends `ProofApi` |
| `SendJetton` | the wallet app's page `SendJetton.tsx`, its list entry, `rmj.ts` and `tx.ts`; extends `RmjSdk` |
| `ClaimFlow` | one owner's claims end to end: an abstract backend, both clients, the chain; its properties and fairness |
| `WalletApp` | `vault.ts`, `keyring.ts`, `passcode.ts` and the pages that use them, on the devices of one user |
| `Minter` | `examples/minter/src/App.tsx` and the registry |
| `MetadataSync` | the URI on chain, its two writers, the admin wallet's seqno, what Toncenter keeps; extends `Minter` |
| `Compliance` | `compliance.ts` and `ComplianceTab.tsx`; extends `MetadataSync` |
| `Operator` | what the operator does, from the form to the compliance tab, with the backend's syncs; extends `Compliance` |
| `MCRollingJetton`, `MCGameServer`, `MCBackend`, `MCClaimFlow`, `MCWalletApp`, `MCOperator` | symmetry for TLC where it is sound |
| `RollingJettonProofs`, `ConservationProofs`, `GameServerProofs`, `BackendProofs`, `ClaimFlowProofs`, `WalletAppProofs`, `OperatorProofs` | theorems |
| `SumProofs` | laws of sums, for the theorems on conservation and on the cap |

### Contracts

One inbound message is one TVM transaction and one action, with every check of the
handler as a conjunct: a throw undoes the transaction, so a claim and its transfer are
one step. A wallet that is not deployed has the storage of its state_init, which every
message that can reach it carries. A wallet is named by (owner, signer), as
`calculate_user_jetton_wallet_address` does for a fixed master and code. `wallet[a]` has
balance, alreadyClaimed, root, epoch; `master` has the fields of the master's storage
except the constant max_supply and wallet code.

Two inputs of a wallet are wider than the system around it, and the model has both:

* `merkle_airdrop_claim` (`rolling_mintless_wallet.fc:170-187`) takes the root from the proof it is
  given. It is compared with no voucher, no cached root and nothing of the master, so it may be
  the root of any HashMap. A claim may therefore carry a proof of a served tree or one of
  `OtherProofs`, a set of HashMaps that is a constant of the model (in the theorems, any set).
* `receive_tokens` (`:296-313`) compares its sender with nothing, so an internal_transfer of any
  account credits its amount (`ForeignTransfer`). In the usual jetton the recipient checks that the
  sender is the master or the wallet of the owner named in the message.

So it is **not** true of this contract that a wallet is never credited more than was earned, or that
jettons come only from mints and claims, and no property here says so. Both places are worth the maintainers'
attention. What the properties do say is what holds beside these inputs: history variables, which no guard
reads, count what they bring (`foreign`: received from other accounts; `unserved[a]`: credited under roots the
backend never served; `unsigned[a]`: credited without a voucher; `byProof`: wallets whose cached root came
with such a claim). `NoClaimBeyondEarnings` and `ImplementsLedger` speak of the credit under served roots,
`CacheIsVouched` of roots that came by voucher and of the cached epoch in any case, `Conservation` counts
`foreign` as a source of its own, `OwnerCreditedOnce` speaks of credit by voucher. `ClaimMatchesCachedRoot` and
`ClaimsMoveForward` hold with every proof. They are about replay, order, failure and rotation, and show that
claims under other roots take nothing away from these.

Abstractions: a root hash is collision free, so a tree stands for its root; vouchers are those the
backend signed; TON amounts and gas are the outcome "runs", "does not
happen" or "bounces"; minted messages carry what an internal_transfer needs;
provide_wallet_address and the get methods change nothing and are left out. `stranded` is one more
history variable: jettons of bounced mints and bounced burn notifications, which no
storage holds any more.

The backend of `RollingJetton` is abstract: earning, advancing the epoch and restarting
(new windows, possibly the new signer seed) are atomic, and every (epoch, root, signer)
that was ever live stays in `issued`, for a claim to use at any time. Its leaves only grow, which
is the real backend when calls do not overlap (`ImplementsEarnings` of the game server). With overlapping
calls and Postgres rows and leaves may fall, and what stays above every root is the number of taps
(`RootsWithinEarnings` of `Backend`); claims against such a backend are in `ClaimFlow`. Bans are not part of this model.

### Game server

Each call of `recordAction` in progress is a record in `req`; its `pc` names the next
store call, and an action is that store call with the code up to the following one.

| action | code |
|---|---|
| `RecordAction` | clock, `insertUserIfNotExists` |
| `GetUserRow` | `getUserRow`, refusal of the banned |
| `CountPerSecond`, `CountPerDay` | the two calls of `countTapEventsSince` and their limits |
| `CheckCap` | `sumCumulativeNonBanned` and the projected sum (only with a cap) |
| `ApplyRewardAndTap` | the transaction: absolute UPDATE and tap_events row |
| `UpsertUser` | `AirdropState.upsertUser`, return |
| `StoreCallFails`, `CommitReplyLost` | a store call throws, before or after its effect |
| `SetBan`, `Restart`, `Tick` | the ban route, process death and hydrate, time |

`Interleaved = TRUE` is the Postgres store: the pool lets calls overlap in every order.
`Interleaved = FALSE` is the SQLite store: better-sqlite3 works synchronously inside
async functions, so that a started call runs through its microtasks before another
request is read; one call at a time is the model of that. Each request is for its own
wall-clock reading; the `at` override of a test is not used by any route. A leaf is its
amount (windows are in `RollingJetton`), tap_events keep who and when, and their deltas are
summed per user.

### Backend

`tick` and `sync[s]` hold the one call of the tree builder and the calls of `syncWithState` by
caller (the tick, the admin route, the timer after startup). Their `pc` names what the call
waits for; an action is the answer to that and the code up to the next await.

| action | code |
|---|---|
| `BuilderTick(force)`, `TickStart` | the timer or POST advance-epoch; the running flag |
| `TickActive` | `listActiveSince(last_epoch_at)`, at epoch 0 again since 0 |
| `TickApply`, `TickCommitted` | `applyUpdates` and the root; `getKv last_committed_root` |
| `TickLag` | the answer of `needsOnChainSync`; skip, or `this.epoch += 1` |
| `TickAdvance`, `TickInsert`, `TickEpochAt` | the writes of current_epoch, the row of epochs, last_epoch_at; the last goes on into `syncWithState` |
| `TickIdle`, `TickEnd` | nobody active: sync if the chain lags; the sync is over |
| `SyncRead`, `SyncReadFails` | `readOnChainMerkle`; only now running is set |
| `SyncSend`, `SyncSendFails` | `sendEpochCommit`, failing before or after the broadcast |
| `SyncConfirmed`, `SyncGiveUp` | `waitForOnChainMerkle` |
| `SyncMark`, `SyncRow` | last_committed_root, `updateEpochCommitted` |
| `TickStoreFails`, `SyncStoreFails` | a store call throws (with Postgres a write of the tick may be done all the same) |
| `Land`, `Expire` | `update_merkle_root` at the master (807 unless the epoch is higher); a message that never lands |
| `TapCommit`, `TapUpsert`, `TapReplyLost`, `TapReturn`, `SetBan` | users' calls: the transaction, then the leaf and the return |
| `StartupSync`, `Restart`, `ClockTick` | `scheduleInitialSync`; process death and hydrate; time |

With Postgres (`Interleaved`) everything interleaves. With SQLite the promises of store calls
resolve before the next event of the loop, so a call that waits for the store runs on
until it waits for an RPC (`MayRun`), and there the others come in.

Abstractions: a root stands for its tree, whose leaves have amounts and the time their
window was renewed; `recordAction`, the subject of `GameServer`, is its two effects, with rewards of 1 and without the limits. With Postgres any
number of a user's calls overlap: each writes the amount it read plus 1, and may have read any amount the row
had since the process started (`reads`), so the row can fall; `taps` counts what was really earned, and `tap[u]` holds the
calls that have yet to write their leaf. With SQLite a call runs on alone and reads the row as it is. The kv keys that only diagnostics read
and a paused master are left out (a refused message is one that expires), and the metadata that a
commit carries is in `MetadataSync`; reads of kv keys
that only the tick writes belong to the step before. Wallet seqnos need no model here: two
messages with one seqno carry the same epoch, and the master refuses the second.

### Answers and clients

`asked[c]` is the request of client `c` (the SDK, or the wallet app's page) that the backend is
working on, `reply[c]` the reply that has not been read.

| action | code |
|---|---|
| `ServeMintlessWallet` | `serveMintlessWallet` up to its first await: leaf, 404 without one |
| `AnswerClaimed` | `readOnChainAlreadyClaimed`: the claim with proof and voucher of this moment, or transfer hints |
| `AnswerSigner` | `resolveMasterSignerPubkey` and its cache |
| `AnswerStateInit`, `AnswerWallet` | `maybeJettonWalletStateInitBase64`; `resolveJettonWalletRaw`, epoch and root, the reply |
| `AnswerLost` | the connection breaks or the client gives up waiting (503 for it) |
| `JettonWalletAnswer` | `/jetton/wallet` in one step: it reads only the chain |
| `SdkStart`, `SdkReply`, `SdkWallet` | the two requests of the claim button; `getCustomPayload` retries, 404 is null |
| `SdkSend`, `SdkGiveUp` | `prepareMintlessTransfer` and the user's confirmation; "proof unavailable" or a refusal |
| `RefreshList`, `RefreshActive`, `RefreshPending`, `FetchRetry` | `refresh` of `SendJetton.tsx`: `listJettons`, `resolveWalletActive`, `fetchRmjPending` |
| `GoConfirm`, `BackToForm`, `Submit`, `SubmitSend`, `SubmitRefused`, `LeavePage` | the form, `submit` with or without a fresh proof, `broadcastJettonTransfer` |
| `Earn`, `ApplyUpdates` | the backend at large: a reward and its leaf; the snapshot of rows that a tick writes over leaves |
| `AdvanceEpoch`, `WriteEpoch`, `Restart` | the epoch in memory, its kv write; process death, which comes back to the epoch that was written, maybe with another seed |
| `Land`, `Expire`, `UpdateSigner`, `ClockTick` | the transaction of the jetton wallet (state_init, claim, transfer); a message not taken; the admin; time |

`earned` is the sum of an owner's rewards. With SQLite (`Interleaved = FALSE`) a row is just that. With Postgres a
row, a snapshot of it and the leaf written from either may have any amount up to it (`Written`), so leaves fall as well as
grow. The page's list entry knows a jetton's Proof API only if the indexer gave its custom_payload_api_uri
(`Entry.rmj`), which a list may or may not have.

Abstractions: one owner; claims by voucher only, as both clients build them; a transfer of more than 0 goes to somebody
else and 0 stands for the claim to one's own address; the wallet contract's guards are those of `MerkleClaim`, the same
operators that `JettonWallet` uses; messages land in the order sent; a jetton wallet is named by
its signer; requests that read only the chain are one step. The balance page, formatting and
TonConnect's settings keep no state.

### Wallet app

A record in localStorage and CloudStorage is (account, ciphertext, watched jettons), a
ciphertext is (seed, passcode), an account is named by its seed. `calls[d]` holds what is in progress on
device `d`: a key derivation, a request or a broadcast, with the record its page loaded.

| action | code |
|---|---|
| `Onboard`, `Onboarded` | `Create.tsx` `finalize`, `Import.tsx` `submit`: `encryptSeed`, `saveVault`, `setSeed` |
| `Unlock`, `Unlocked` | `Unlock.tsx`: `unlockSeed`, `setSeed` or "wrong passcode" |
| `ChangePasscode`, `PasscodeChanged` | `Settings.tsx`: `changePasscode`, then the new ciphertext is opened |
| `LockWallet`, `EraseWallet`, `AutoLock` | `lock`, `deleteVault`, the timer of `keyring.ts` |
| `Submit`, `Fetched`, `Decrypted`, `Broadcasted` | `Send.tsx` and `SendJetton.tsx`: fresh proof, seed of the keyring or of the passcode, `withSeed` |
| `Lookup`, `AddWatched`, `RemoveWatched`, `LookupOver` | `AddJetton.tsx`, `jettons.ts` |
| `Reopen`, `Restored` | `App.tsx`: a fresh start, `restoreVaultFromTmaCloud` |

CloudStorage writes may fail unseen (`Mirror`). `retired` and `overtaken` are history variables.

### Operator

| action | code |
|---|---|
| `ToggleWallet`, `ChooseKind`, `GoToStep`, `RegenerateSigner`, `NewProject` | the form of `App.tsx` |
| `DeployMaster`, `Signed`, `Rejected`, `Register`, `RegisterFails` | `deployMaster` over its two awaits |
| `Configure` | the backend is started with the `.env` of step 4 |
| `Earn`, `Tick`, `SyncRead`, `SyncUri`, `SyncSend` | live tree, epoch and the two callers of `syncWithState`, with `needsMetadataBump` |
| `WalletTakes`, `Expire`, `MasterReceives` | one transfer per seqno; valid_until; the two messages of a transfer, the first of which a paused master refuses alone |
| `Reindex` | Toncenter follows a new URI, `metadataForMaster` gives it the dump URI |
| `Refresh`, `ReadMerkle`, `ReadMerkleFails`, `FinishRefresh` | `refreshAll` and `runCompliance` |
| `SyncMerkleRoot`, `SyncAnswered`, `BumpMetadata`, `BumpSigned`, `BumpRejected` | the tab's two buttons |

Abstractions: a root is a number that grows with the tree; a master is its kind and signer, since
its address is the hash of its initial data; the answers of the report that do not concern the
root are chosen among those possible by then (`Possible`); texts, URLs and amounts are valid. The registration is
the page's own call, with the kind it sends; the route takes one from anybody and has 'rmj' as default
(`jettonRegistryApi.ts:13-60`), and a registration by hand of a master the page did not deploy is left out. The sync five seconds
after startup does what a tick without a new epoch does here and has no caller of its own; `Backend` has all three.
Readers of the metadata see the backend's answer of that moment, without the 30 seconds of HTTP cache (`publicJettonMetadata.ts:88`).

## Runs

All runs but `wallet_app` and `operator` check deadlock, and none occurs. In those two the bounds
on what users do stop everything in the end.

| run | shows | bounds, and why they are enough |
|---|---|---|
| `claims` | cache coherence, replay safety, claims forward, refinement of `ClaimLedger` | 1.2 million states: proofs of served trees and of one that is not the backend's; two owners, amounts to 2, two epochs, a clock to 1 with window 0 and a restart: two trees per owner per epoch, so a voucher can be older in epoch, in amount or in both, and leaves expire and are renewed; transfers of 0, since no jetton matters here |
| `supply` | type, conservation, cache vouched | 1.1 million states: one owner, two keys and a rotation, so transfers and burns cross wallets of both keys; one message in flight at a time, which mints, bounces, claims and admin ops may overtake; transfers and burns to 2, max_supply 1, one jetton from outside, pauses, one commit. More messages, owners and proofs of other trees are left to the theorems, which bound nothing |
| `postgres` | type, rate limits with the overrun of overlapping calls, credit within taps | two overlapping calls for one user (users only meet in the sum), limits 1 and 2, day of 2 ticks in a clock to 3, rewards 0 to 2, every failure |
| `sqlite` | no reward lost, tree in sync, cap, refinement of the earnings side of `ClaimLedger` | two users who share the cap, one call at a time, failures and restarts |
| `backend_postgres` | type, durable epochs, how far a crash takes the served epoch back, roots within the taps, refinement of `EpochRegister` (epochs signed once, real and consecutive commits), the chain catches up | 0.7 million states: two taps that overlap each other and the tick, so the row falls; late landings against the next tick, one failure at any call, one restart |
| `backend_sqlite` | leaves follow rows, banned leaves frozen, refinement of `EpochRegister` with all three callers of `syncWithState` | 2.7 million states: two taps around a tick's RPC calls, bans, one forced or startup sync that overlaps the tick's; failures and restarts are left to the theorems |
| `claim_button` | type, answers' parts belong together, an owner finally has what is in the tree | 1.8 million states, SQLite: two rewards, so a wallet has claimed in an epoch when the next leaf comes; two epochs that a restart may take back; two keys; a clock of one tick that outlives the window; one failure (restart, lost reply, expired message) |
| `send_jetton` | claims within the rewards, plain transfers find a wallet | 9.8 million states, Postgres: the page and the button in turn, with a message under way; two rewards of which the tree may show fewer, lists with and without the URI, two keys, two attempts, one failure, transfers of 0 and 1 |
| `wallet_app` | type, records of one wallet, retired passcodes, the right signer, the seed is wiped | 0.7 million states: one device, two seeds and passcodes, two calls in progress, five acts of the user, one failure of a mirror, a request or a restore. Two calls suffice for every race of a call with another |
| `operator` | type, registry as deployed, the URI keeps up, no stale dump, true reports | 3.1 million states: two signers, two changes of the tree, one epoch, two transfers, the second signed as the messages of the first are on their way; that several compete for one seqno is left to the theorems, which bound nothing |

The bounds are constants of the modules: `MaxCumulative`, `MaxEpoch`, `MaxMasterEpoch`,
`MaxAmount`, `MaxMint`, `MaxTime`, `MaxRestarts`, `MaxInFlight`, `MaxTaps`, `MaxFailures`, `MaxOpen`,
`MaxActs`, `MaxForeign`, `MaxOthers`, `Slots`, `MaxKeys`, `MaxTree`, `MaxTransfers`, `MaxPending`;
each appears in the guard it bounds. `Operator` is bounded in two more ways, said in comments: the backend is
configured once, with the last signer generated and before its only deploy message has landed;
and `Tick` leaves out ticks that find the root on chain, whose sync would return at once.
`Owners`, `Users` and `Requests` are symmetric where a run checks no refinement and no liveness.

Fairness is in the three runs with liveness, one weak-fairness conjunct for each actor.

* `backend_postgres` (`ChainCatchesUp`): the timer of `TreeBuilder.start` fires for ever; calls in
  progress are answered (the tick's store and RPC calls; `waitForOnChainMerkle` is 25 polls, so a
  sync confirms or gives up); a started `recordAction` reaches its leaf; broadcast messages land or
  pass their valid_until; time goes on. Weak fairness of a call's steps allows every sync to give
  up before its message lands; the message lands all the same, and once the tree no longer changes at
  most the older messages still under way come before one with the live root.
* `claim_button` (`EarnedFinallyClaimed`): requests that end, messages that
  are processed; and an owner who keeps pressing the button and in the end confirms, which is the
  promise's own condition. No tick is promised: `last_epoch_at` is later than the snapshot, so a tap between them is
  active in neither tick and no epoch need follow. The property names what must not be: a wallet that has
  cached the epoch that is served, or after a crash a later one; a backend that signs with another key than the
  master's or still caches the signer from before a rotation (nothing in the code refreshes it but a
  restart); and a leaf that has expired.
* `wallet_app` (`SeedFinallyWiped`): key derivations, requests and broadcasts end, and the timer that
  `setSeed` and `withSeed` arm fires. Nothing is fair about the user.

Nothing is fair about users, bans, the admin, failures and restarts, of which
the bounds leave finitely many: with failures for ever no such property could hold.

### Where the code does not do what is written of it

Two runs end in a counterexample, one property each:

| run | written | code |
|---|---|---|
| `rotation` | the wallet only credits cumulative minus claimed (`docs/OPERATIONS.md`) | after `update_signer` an owner's new wallet address starts from 0 and is credited again |
| `lost_update` | cumulative_amount is monotonic (`docs/OPERATIONS.md`) | an overlapping call writes a smaller amount (Postgres) |

The two wide inputs of the wallet, `merkle_airdrop_claim` and `receive_tokens`, are described under Contracts.
For calls that overlap the cap and `TreeInSync` fail as well; `sqlite` shows that they hold without.
Other places where text and code differ were met while modelling; the models follow the code:

* `state.ts:84`: leaves are replaced, never deleted, so a banned user's leaf stays until a restart
  (`gameServer.ts:129` and `docs/ARCHITECTURE.md:129` have banned users left out of later trees); and an unban is in the tree
  only after the user's next tap or a restart.
* `treeBuilder.ts:152`: last_epoch_at is read after the snapshot, so a tap between them is in neither tick's
  list, though `treeBuilder.ts:17` collects all activity since the previous boundary; its leaf, put back by the snapshot, waits for the next tap.
* `mintlessClaimHelpers.ts:166`: amount and window of an answer are read before an await, the proof after it. With Postgres the leaf
  may fall in between, and the compressed_info of the answer then has a larger amount than its proof.
* `state.ts:93`: the epoch is served before it is written. After a crash it can come back lower than what a wallet has cached,
  and the wallet refuses vouchers (809) until the epoch has passed the cached one.
* `SendJetton.tsx:50`, `jettons.ts:116`: a page whose list has the jetton without its custom_payload_api_uri sends a
  plain transfer, also for an owner whose wallet is not deployed; it does not arrive, and nothing says why.
* `treeBuilder.ts:174`: the root that is signed into the epochs row is computed before five awaits, the root committed
  is that of the tree by then.
* A leaf's window is renewed by a tap, a tick that lists its user, or a restart: the leaf of an idle user
  expires although the user never claimed.
* `docs/OPERATIONS.md` recommends a pause as a hard stop for claims; it stops only `update_merkle_root`,
  no handler of the wallet asks the master.
* `onChainSigner.ts:29`: the signer is cached for the life of the process, so answers carry wallet and
  state_init of the old key after `update_signer` until a restart.
* `wallet/src/services/rmj.ts:27` calls the amount a delta against on-chain; the answer has the cumulative amount.
* `SendJetton.tsx:116` reports a refusal as "until GET … returns 200", also when the answer was 200 without a claim.
* `tx.ts:121`: a transfer whose broadcast fails after it was taken can be sent again by the user and pays twice.
* `vault.ts:83`: an erase whose removeItem fails is undone at the next start, when `restoreVaultFromTmaCloud` finds the record.
* `compliance.ts:300`: the branch that would verify a root by the dump is never taken, as an unreadable root is normalised to "0" before.
* `compliance.ts:418`: a null state_init counts as one.
* `examples/minter/src/App.tsx:255`, `:264`: a new project leaves the form of the last one, and the `.env` is composed from the form
  as it is by then, so a signer regenerated after the deploy is not that of the deployed master.
* `rootUpdater.ts:278`: after an operator's change_content, a sync that reads the URI while that of another is on its way
  skips its own, and the version lags until the next commit; `MetadataNeverLags` leaves these out (`disturbed`).
* `publicJettonMetadata.ts:30`: before the first epoch the dump URI has no epoch or root, so a root forced then can meet a dump kept from before.

## Theorems

Proved with TLAPS for every value of the constants that satisfies the ASSUMEs of the
modules (bounds are naturals, special values are outside the sets they are not in).

`RollingJettonProofs`. The types are inductive as they stand: no guard is missing that
keeps a balance or the supply non-negative. Replay safety is not: nothing in
`NoClaimBeyondEarnings` says what an old voucher contains. `ReplayInv` adds that every
leaf of every tree in `issued` is at most the owner's present earnings, which Earn and
Restart preserve because leaves only grow. A claim under a served root then takes already_claimed to a leaf
within the earnings, so what served roots have credited, which is less or equal, stays within them too; a claim
under any other root adds the same to already_claimed and to `unserved`. `CacheInv` adds where a
cached root and epoch come from, which `VoucherAccepted` establishes, a claim by the cached root
keeps and a claim by proof alone leaves true of the epoch. Both give the refinement: each step
maps to Earn, Claim or a stutter of `ClaimLedger`. `OtherProofs` is any set of trees.

| theorem | property |
|---|---|
| `TypeCorrect` | `TypeOK` |
| `ReplaySafe` | `NoClaimBeyondEarnings` |
| `ClaimsForward` | `ClaimsMoveForward` |
| `CacheCoherent` | `ClaimMatchesCachedRoot` |
| `CacheVouched` | `CacheIsVouched` |
| `RefinesLedger` | `ImplementsLedger` |

`SumProofs`. The models sum with `MapThenSumSet`, whose fold is a recursive function that takes the
elements of the set in the order CHOOSE gives. The library's induction theorems cannot be instantiated
(their argument is an operator), so induction is stated once for a *set* of naturals and a set of subsets
(`NatSetInduction`, `SubsetInduction`), proved from the well-foundedness of `<`; with it the recursive
function exists, the order does not matter (`SumTakeOut`), and one changed, new or removed element changes the sum by its
difference.

`ConservationProofs`. `ConservationInv` adds to `Conservation` the types and that the bag of messages is finite. The
step lemmas say what each action moves: a balance and a message, a message and total_supply or
`stranded`, or a balance and a claim by the same amount; a handler that claims and sends does the
second with the wallet the first has left. It assumes `FinitelyManyAddresses`: owners and signers are finite sets, as
account ids and public keys of 256 bits are. The same sums give bounds nobody states as such in the code:
what circulates never exceeds total_supply, the earnings once per key, and the two wide inputs, `foreign` and `unserved`
(`SupplyBounded`); and under served roots an owner is never credited
more than the earnings times the keys (`CreditedOncePerKey`). `CreditedOnceWithOneKey` is the other half of the
counterexample of `rotation`: without update_signer every voucher is of the first key, so a wallet of another
key is credited nothing by voucher (`OneKeyInv`), and what `docs/OPERATIONS.md` says of vouchers holds.

| theorem | property | assumes |
|---|---|---|
| `JettonsConserved` | `Conservation` | |
| `SupplyBounded` | | |
| `CreditedOncePerKey` | | |
| `CreditedOnceWithOneKey` | (`OwnerCreditedOnce`, of the run `rotation`) | no update_signer |

`GameServerProofs`. `CreditInv`: what a call in progress will write is covered by deltas it
read or has itself added, since `deltas` never shrink. `RateInv`: in every window, the taps
plus the calls past the count that would fall in it stay below limit plus concurrency;
it is an argument about cardinalities of the set of slots. `SerialInv`, under the
assumption `~Interleaved`: the one call in progress has read the row as it still is. `CapInv` adds that the sum it
read is still the sum when it writes, so the write takes it to what was compared with the cap; rows are
finitely many at any time (`FiniteRows`), so that sums mean something for an unbounded set of users.

| theorem | property | assumes |
|---|---|---|
| `GameTypeCorrect` | `TypeOK` | |
| `CreditWithinTaps` | `CreditedWithinTaps` | |
| `RatesLimited` | `RateLimits` | |
| `NoRewardLost` | `TapsAreCredited` | one call at a time |
| `LeavesInSync` | `TreeInSync` | one call at a time |
| `CapKept` | `CapRespected` | one call at a time |
| `EarningsRefined` | `ImplementsEarnings` | one call at a time |

`BackendProofs`. `NumberInv` strengthens `EpochsDurable` and `ServedEpochs` with where the tick is:
between `this.epoch += 1` and the write of current_epoch the two differ by one more than the
writes that failed, every number above current_epoch is free, and after the write until the
insert both agree. `CommitInv` strengthens `NoFalseCommit` with the calls in progress: a
sync past its confirmation has an epoch the chain has reached, and no message or call is
numbered more than one above the chain, which is `CommitsByOne`. `TurnInv`, under
`~Interleaved`: a leaf is the amount of its row unless the user's own call has yet to write it, and
that call and a tick's snapshot hold what is in the row of a user who is not banned, since who
waits for the store keeps the others out.

`RegisterRefined` joins `NumberInv` and `CommitInv` into a refinement: whatever fails, each step is one of the
abstract register or none of its business. `EarnedInv`, with both stores: every amount that a row has, a call has read or
written, a snapshot holds or a known root contains is covered by the user's taps, which only grow although the row
may not; a root after a step was known before or is the new tree
(`RootsStay`), whose leaves are from such an amount, from the tree or from the rows. `ClaimFlow` takes this of its
abstract backend (`Written`), and `RollingJetton` where it lets vouchers be replayed.

| theorem | property | assumes |
|---|---|---|
| `BackendTypeCorrect` | `TypeOK` | |
| `EpochsAreDurable` | `EpochsDurable` | |
| `ServedEpochsCovered` | `ServedEpochs` | |
| `CommittedIsOnChain` | (`NoFalseCommit`: a row marked as committed has a number the chain has) | |
| `CommitsAreConsecutive` | (`CommitsByOne`: the on-chain epoch rises by one) | |
| `RegisterRefined` | `ImplementsRegister` | |
| `RootsAreEarned` | `RootsWithinEarnings` | |
| `LeavesFollow` | `LeavesFollowRows` | the SQLite store |
| `BannedFrozen` | `BannedLeafFrozen` | the SQLite store |

`ClaimFlowProofs`. What is in a request, a reply, a page or a message was true of the backend when it was
put there; `Later` collects what no step takes back (a leaf stays, the rewards grow, a
wallet stays deployed; with SQLite a leaf's amount grows), and every part of `Inv` is of a form that `Later` preserves: payloads are worth
no more than the owner's rewards (`AskInv`, `SdkInv`, `OutboxInv`), an entry that says a wallet is
active names one that is (`PageInv`), and so `WalletInv` survives each message that lands. The epoch is not part of `Later`:
every step but a restart keeps or raises it (`EpochStays`), and a restart ends every request that relies on it. With that the whole
flow implements `ClaimLedger` (`FlowRefinesLedger`): a message that lands is one claim within the earnings of that
moment or changes no credit, as the contracts alone do in `RefinesLedger`.

| theorem | property |
|---|---|
| `ClaimTypeCorrect` | `TypeOK` |
| `AnswersConsistent` | `AnswersBelongTogether` |
| `ClaimsWithinEarnings` | `ClaimedWithinEarned` |
| `PlainTransfersArrive` | `PlainTransferFindsWallet` |
| `FlowRefinesLedger` | (`ClaimLedger` is implemented) |

`WalletAppProofs`. `TypeInv` adds to the types which fields each kind of call has filled (`WellCall`).
`RecordInv` adds that also the records that calls have loaded belong together, since a change of the passcode
writes such a record back. `RetiredInv` needs no more than the types: a new passcode leaves the retired as it is
set, and a watched jetton goes into the record stored by then. `SignInv`: keyring, vault, loaded records and
lent seeds of a device are all of one account (`Agree`), except where an onboarding overtook a call, and a
restore is alone on its device (`RestoreAlone`).

| theorem | property |
|---|---|
| `WalletTypeCorrect` | `TypeOK` |
| `RecordsOfOneWallet` | `RecordsBelongTogether` |
| `PasscodesStayRetired` | `RetiredStaysRetired` |
| `SignerIsShown` | `SignsForShownAccount` |

`OperatorProofs`. `RegistryInv` carries the kind through deployMaster's call. `DumpInv`: what Toncenter keeps
under a dump URI with an epoch is the tree that URI names. `HeldInv`: the root on chain and one that a report
has read were the master's. `LagInv` is the long one, for an undisturbed URI: a sync that skips its bump has
its version on chain (`SkipsRightly`), so has a transfer without one (`TransfersBump`) and a commit on
its way that no bump follows (`BumpFollows`); and where the version is behind the epoch, the bump is the
next message (`BumpIsNext`).

| theorem | property |
|---|---|
| `OperatorTypeCorrect` | `TypeOK` |
| `RegistryMatches` | `RegisteredAsDeployed` |
| `DumpFresh` | `DumpNeverFromCache` |
| `ReportsAreTrue` | `ReportIsTrue` |
| `MetadataFollows` | `MetadataNeverLags` |

Every safety property of the passing runs is a theorem; where a theorem names a store or a condition, it is in the table. Model-checked only: `ChainCatchesUp`,
`EarnedFinallyClaimed` and `SeedFinallyWiped`, which are liveness under fairness, out of the prover's reach. A theorem
without a property has no run of its own: its invariant was tried with TLC on the configurations of its
component before it was proved.

## Plan

Done: the contracts and the network; the game server; tree builder, root updater and process; the
Proof API with its clients; the wallet app; minter, metadata and compliance.
To come, in this order:

1. One abstract backend for `RollingJetton` and `ClaimFlow`, implemented by `Backend`. Its numbers are done
   (`EpochRegister`), and that its roots are covered by the taps (`RootsWithinEarnings`). `ClaimFlow` has amounts that fall
   and epochs that come back; left are both in `RollingJetton`.
2. The mark of `updateEpochCommitted`, which is keyed by the chain's epoch: when the marked row
   is the one whose root was committed (`docs/OPERATIONS.md` reads it so), and how far a tick's
   committed root may be from the one it signed.
3. `PowerLoss`: SQLite with synchronous=NORMAL, durable and visible tables apart.
4. Two tabs of the wallet app on one device, which share localStorage but not the keyring.

## Not modelled

The message wrappers, cell encodings and addresses hold no state. Diagnostics and the display audit
repeat the reads of the compliance report for a report nothing acts on. The bot and the game example
only call the SDK and the game routes; scripts build and print. HTTP parsing and authorisation,
logging, formatting, mnemonic words, names and images, and the amounts of TON attached to
messages are left out. `PROJECT.json` lists every part with the reason.
