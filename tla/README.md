# TLA+ models of linkchain's wallet, boot client and p2p peer code

This directory is a model-checking development for the Go sources under `src/`.
It has TLA+ modules, the TLC configurations (`*.cfg`) that check them, and
`PROJECT.json`, which records:
- every component, modelled or not;
- every run and what it checks;
- a mutant for each property, showing that the property can fail;
- the map from each definition to the Go lines it translates;
- the findings and the hazards.

## 1. The system

`spec.md` describes a RingCT-style cryptographic core: curve algebra, Pedersen
commitments, ECDH amount codec, Bulletproofs, MLSAG and the transaction signature
pipeline. That core is **not** in `src/`. Only a test file of it is (`rctsigs_test.go`).
What `src/` holds are the components the spec calls its consumers and collaborators:

| component | source | state it keeps | operations |
|---|---|---|---|
| LinkAccount (wallet scanner) | `wallet/wallet/linkaccount.go` | `localHeight`, `remoteHeight`, `walletOpen`, `autoRefresh`, `Transfers`, `keyImages`, `AccBalance`, `utxoTotalBalance`, `gOutIndex`, the account's sub-address keys, the `stop` channel, `la.lock` | `NewLinkAccount`, `OnStart`/`refreshLoop`, `Refresh`, `processBlock`, `processNewTransaction`, `updateBalance`, `increaseGOutIndex`, `OnStop`, `AutoRefreshBlockchain`, `RescanBlockchain`, `CreateSubAccount`, read-only getters |
| Wallet (account multiplexer) | `wallet/wallet/wallet.go`, `wallet/rpc/api.go` | `addrMap`, `currAccount`, `w.lock` | `NewWallet`, `OpenWallet` (via RPC `UnlockAccount`), `CloseWallet` (via RPC `LockAccount`), `SelectAddress`, `Stop`, forwarding getters |
| Wallet RPC handler | `wallet/rpc/handler.go` | none of its own | `signUTXOTransaction` (destination checks), proof-key helpers |
| Address codec | `wallet/wallet/key.go` | none | base58 address encoding with checksum |
| Boot client | `bootcli/bootcli.go` | `LocalNodeType` (under `nodeTypeLocker`) | `GetSeeds`, `GetSeedsFromBootSvr` (HTTP retry loop), `getSeedsFromFile`, `parseAccounts`, `RapNodes` |
| NodeInfo | `libs/p2p/node_info.go` | none (a value) | `Validate`, `CompatibleWith`, `splitVersion` |
| Peer | `libs/p2p/peer.go` | `BaseService` running flag, `channels`, the `mconn` | `newPeerConn`/`newOutboundPeerConn`, `HandshakeTimeout`, `OnStart`, `OnStop`, `Send`, `TrySend`, `CanSend`, `hasChannel`, `onReceive` |
| p2p common | `libs/p2p/common/common.go` | none | `Node.Incomplete`, `ValidateComplete` |
| Value types | `types/balance_record.go`, `types/validator.go` | none | constructors, accumulation comparison |
| Config | `wallet/config/config.go`, `wallet/types/error.go` | none | defaults, error values |

How they interact:
- The RPC goroutines call `Wallet`, which forwards to the current `LinkAccount`.
- Each open `LinkAccount` runs its own `refreshLoop` goroutine. It polls the node for its height and scans blocks under `la.lock`.
- The boot client runs once at node start and feeds seeds to p2p.
- Peers are created by the p2p switch (not in `src/`) in this order: dial and secret connection (`newOutboundPeerConn`), `HandshakeTimeout`, the `Validate`/`CompatibleWith` checks, then `Start` for a kept peer or `CloseConn` for a rejected one. The kept peer's `hasChannel` tests the channels the handshake decoded.

The behaviours that make this code hard:
- **The scanner's goroutine interleaves with unlocked RPCs.** `CreateSubAccount`, `AutoRefreshBlockchain` and the getters run without `la.lock`. The scan, `OnStop` and `RescanBlockchain` take it.
- **`Refresh` has partial failures.** A block fetch can fail; `save` can fail after `localHeight++`. Both end the loop until the next timer tick.
- **The node's answer can be stale.** A lagging node's height must not roll `remoteHeight` back.
- **`CloseWallet` runs without `w.lock`.** It reads `currAccount` twice, around a blocking `OnStop`.
- **The forwarding getters run without `w.lock`.** Each reads `currAccount` twice, in `IsWalletClosed` and for the call.
- **Go panics kill the process.** A nil `currAccount`, or a second `close(la.stop)`, restarts the wallet empty.
- **The boot client retries.** Its HTTP retry loop has a growing sleep and a bounded retry count.
- **Peer sends race the peer's stop.** `Send` tests `IsRunning` and then calls the MConnection; `Stop` can fall between the two.
- **A failed outbound connection must be closed** by `newOutboundPeerConn`, whichever step of `newPeerConn` failed.

## 2. Modules

| module | models | status |
|---|---|---|
| `LinkAccount` | the scanner: the refresh loop, `Refresh`, block and transaction processing, `OnStop`, `AutoRefreshBlockchain`, `RescanBlockchain`, `CreateSubAccount` | built |
| `MCLinkAccount` | the chains TLC checks `LinkAccount` against | built |
| `Wallet` | `OpenWallet`/`UnlockAccount`, `CloseWallet`/`LockAccount`, `SelectAddress`, `Stop`, the forwarding getters, process crash | built |
| `MCWallet` | the model values for `Wallet` | built |
| `Bootcli`, `MCBootcli` | `GetSeeds` with its file and boot-server paths, the `HttpPost` retry loop, `RapNodes`, `LocalNodeType` | built |
| `SignUTXO` | `signUTXOTransaction`'s destination loop, `SendUTXOTransaction`, `SendUTXOTransactionSplit`, with `StrToAddress`/`IsSubaddress` abstracted to the kind of address | built |
| `NodeInfo` | `Validate`, `CompatibleWith`, `splitVersion`, and a two-sided `HandshakeTimeout` with deadlines and timeouts | built |
| `ScannerView` | the abstract promise of the scanner: a scanned chain prefix, its owned unspent outputs and their balances | built; `LinkAccount` refines it |
| `Validator` | `Validator.CompareAccum` folded over a validator list | built |
| `Peer` | `newOutboundPeerConn`/`newPeerConn`, `CloseConn`, `OnStart`, `OnStop`/`Close`, `Send`/`TrySend`/`hasChannel`, `onReceive` | built; checked through `P2P` |
| `P2P`, `MCP2P` | `NodeInfo` and `Peer` composed in the switch's order, with twelve NodeInfos | built |

### LinkAccount

**State.** The variables are the Go fields of the same names.
- `loopPc` is where the `refreshLoop` goroutine is:
  - `wait`: the timer is armed;
  - `refresh`: the height is read and `Refresh` is about to take the lock;
  - `scan`: inside the `for localHeight <= remoteHeight` loop, holding `la.lock`;
  - `exited`.
- `nodeHeight` is the node's chain height. The chain is the constant `Chain`: a sequence of blocks, each a sequence of UTXO transactions.

**Abstraction of a transaction.**
- A transaction is `[token, outs, ins]`.
- An output is `[sub, ki, amt]`:
  - `sub` is the sub-address index that `IsOutputBelongToAccount` would find (`NotMine` if none);
  - `ki` is the key image the ECDH derivation would produce;
  - `amt` is the decoded amount.
- An input is the key image it spends.

This abstracts the crypto calls: they are deterministic functions of the keys. It keeps every branch of `processNewTransaction`:
- each UTXO output advances `gOutIndex` of the tx token, owned or not;
- an owned output whose index is below the current number of keys is appended to `Transfers`, indexed in `keyImages` and credited;
- each input whose key image is known is marked spent and debited, unless the balance is smaller (`updateBalance`'s error path).

**Actions.** One `Refresh` loop iteration is the single action `ScanBlock(saveOk)`, because the loop holds `la.lock` throughout. It covers fetch, `processBlock`, `localHeight++`, then `save`. A failed save returns after the increment. A failed fetch is `FetchFail`.

`CreateSubAccount` is split at the points where it touches shared state without the lock:
1. `CreateSubAccount`: read `subCnt`;
2. `CreateSubKey`: `account.CreateSubAccount()`, after which the key is visible to the scan;
3. `CreateSubZero`: `setTokenBalanceBySubIndex(LinkToken, idx, 0)`.

Each caller in the constant `SubCallers` has its own `cs[c]`: where it is (`pc`), how many keys it still adds (`left`), the index of its last key (`idx`) and the `maxSub` it passed (`max`). Neither `Wallet.CreateSubAccount` nor `LinkAccount.CreateSubAccount` takes a lock, so two callers interleave freely. `CreateSubKey` is also guarded by `numSubs < MaxSubs`, a model bound on the number of keys. `AccountBase`, which appends a key in one step, is not under `src/`.

**Read RPCs.** `GetHeight`, `GetBalance`, `GetAccountInfoTotal` and `GetMaxOutput` are operators computing what these RPCs answer from the state. They take no lock. The properties below are stated over these answers where a client sees them:
- `GetHeight` answers `localHeight - 1`, and 0 while nothing is scanned;
- `GetBalance` answers 0 past `len(Keys)`;
- `GetAccountInfoTotal` is the UTXO part of `TotalBalance`, summed over the sub-addresses the account has;
- `GetMaxOutput` answers 0 for a token with no `gOutIndex` entry, else the index + 1.

**Properties.**
- `ScanMatchesChain`: `Transfers` equals `ExpectedTransfers(localHeight, numSubs)`, a reference definition computed from the chain prefix in closed form. It says which outputs are owned, their global index, whether a later input spent them and at which height. The model reaches the scanner's result by folding over blocks; the reference reaches it by set comprehension.
- `BalanceMatchesTransfers`: `GetBalance` of every sub-address is the sum of its unspent owned transfers, and `GetAccountInfo`'s UTXO total equals the `utxoTotalBalance` that `updateBalance` keeps.
- `MaxOutputCounts`: `GetMaxOutput(token)` is the number of UTXO outputs of that token in the scanned blocks, owned or not.
- `EventuallySynced` (liveness): if the account stays open with auto-refresh on, `BlockHeight` eventually answers the node's final height as both local and remote height. Because `GetHeight` clamps at 0, an off-by-one in `Refresh`'s loop bound shows here as a tip that is never reported. `AutoRefreshBlockchain` can switch auto-refresh off and on at any step. That includes the middle of a `Refresh` loop, which it does not stop.
- `SubsUpToRequested`: once the account has more than its `InitSubs` keys, its highest sub-address index is the `maxSub` of some call. This is what `handler.go` documents: "create sub account to max sub index".
- `ScannerRefinesView` (refinement): `LinkAccount` implements `ScannerView`.

### ScannerView and the refinement

`ScannerView` states what the scanner promises without the refresh loop, the lock, the key images table or the global indices.
- `n` blocks of the chain have been scanned, never past the node's tip `tip`.
- `unspent` is exactly the set of owned outputs of that prefix that no scanned input spends.
- `balance` is the sum of `unspent` per token and sub-address.

Its actions are `Grow` (the node appends a block), `Advance` (one more block), `Rescan`, `Close` and `AddSub`.

`LinkAccount` instantiates it as `View == INSTANCE ScannerView WITH ...`:
- `tip` is `nodeHeight`, `n` is `localHeight`, `open` is `walletOpen`, `subs` is `numSubs`;
- `unspent` is `UnspentView`, the unspent `Transfers`;
- `balance` is `AccBalance`.

`ScanBlock` maps to `Advance`, `RescanBlockchain` to `Rescan`, `OnStop` to `Close` and `CreateSubKey` to `AddSub`. Every other step (ticks, fetch failures, loop control, `CreateSubZero`) is a stutter of the view. TLC checks `View!Spec` as a `PROPERTY` of the `scan` run. Unlike the invariants, it also shows that the view moves only by steps of the abstract spec: a scan never skips or repeats a block.

### Wallet

**State.**
- `addrMap` and `curr` are `w.addrMap` and `w.currAccount`.
- `inst` gives each LinkAccount built by `OpenWallet` a state: `unused`, `discarded`, `running`, `stopped` or `dead`.
- `pc` and `closing` record a `LockAccount` between `OnStop` and the rest of `CloseWallet`. `LockAccount(c)` takes no address, because the code never uses it.
- `panics` counts process crashes. A Go panic is the action `Crash`: the wallet restarts empty and every built account is dead.

**Actions.**
- `OpenWallet(a)` is `UnlockAccount` with the right password. A wrong password changes no state and is a stutter.
- `GetCheck(c)` is the `IsWalletClosed` test of a forwarding getter (`GetBalance`, `GetHeight`, `Status`, ...). A nil `currAccount` returns an error and changes nothing. Otherwise `pc[c]` becomes `get`.
- `GetCall(c)` is the getter's second, unlocked read of `currAccount`. A nil one panics (`Crash("get")`). The LinkAccount getters only read, so a non-nil call changes no modelled state.
- `LockAccount(c, a)` is the first statement of `CloseWallet`. `CloseWallet(c)` is its rest.
- `Concurrent` says whether a new RPC may start while a `LockAccount` is in progress:
  - FALSE: a client that waits for every answer;
  - TRUE: the RPC server's one goroutine per request.

**Properties.**
- `RegisteredIffRunning`: `addrMap` holds exactly the running accounts, under their own addresses, apart from one a `LockAccount` is closing.
- `CurrConsistent`: `currAccount` is nil iff nothing is open, and otherwise is open.
- `GetterNoPanic`: a getter that passed `IsWalletClosed` never calls a nil `currAccount`.

**`Wallet.Stop`.** `Stop` calls `OnStop` on every account in `addrMap`. It removes none of them and keeps `currAccount`.
- `shut` records that it has run. `RegisteredIffRunning` is stated only for `~shut`.
- `why` records the cause of each crash: `nil` for a nil `currAccount` in `CloseWallet`, `close` for a second `close(la.stop)`, `get` for a getter's nil call.
- The model reaches the second kind: a `LockAccount` after `Stop` closes a stopped account again (`wallet.go:115`). It has no run of its own. Nor has the `nil` kind, listed with the disagreements in section 4.

### Bootcli

**State.**
- `pc` is the position in `GetSeeds`.
- `retry`, `posts` and `slept` are the loop counter, a count of `HttpPost` calls and the seconds slept.
- `nodes`, `nodeType` and `errKind` are the named results. `input` is the seed list that was decoded.
- `LocalNodeType` is the package variable.

**Actions.** `GetSeeds(src)`, `ReadSeedFile`, `Sign`, `HttpPostFail`, `HttpPostOk` and `SetLocalNodeType`. Each outside call (`ReadFile`, `Sign`, `HttpPost`, `json.Unmarshal`) is a nondeterministic outcome. `RapNodes` is a `FoldLeft` over the seeds. `uint16(v)` is `v % 65536`.

**Properties.**
- `RapNodesMatchesSeeds` compares the nodes with a closed-form reference. Each good seed contributes `max(1, #ips)` nodes at an offset given by the earlier good seeds.
- `BoundedRetries`: at most four posts. A post error comes only after four failures and 3+6+9 seconds of sleep.

### Validator

`CompareAccum` is a `CASE` in the order of the code's branches:
- a nil receiver returns the other validator;
- otherwise the higher `Accum` wins;
- on a tie, the smaller address wins (`bytes.Compare`; addresses are numbers of one length);
- equal addresses reach `PanicSanity`, the value `Panic`.

`FindProposer` folds it over a validator list from nil, the way the validator set's proposer search does; that caller is not under `src/`. `ProposerIsBest` compares the result with `Best`, the validator that `Beats` every other one, over every list with distinct addresses.

### Peer

**State.**
- `create` is where the outbound `peerConn` is: `dial`, `deadline`, `secret`, `closing`, `done`, `failed`, or `dropped` by `CloseConn`.
- `conn` is the raw `net.Conn`.
- `started` and `stopped` are the `BaseService` flags, and `stopDone` says that `Stop` has returned.
- `mconn` is the MConnection's state.
- `spc[s]` and `sch[s]` record a sender goroutine that passed `Send`'s checks and is about to call the MConnection.
- `nsent` and `nrecv` count the messages each way; `remoteErr` and `peerErr` record a panic in the remote's or our `onReceive`.

**Library assumptions.** `BaseService` and `MConnection` are not under `src/`. They are reduced to what `peer.go` relies on:
- `Start` and `Stop` each run once;
- a failed `OnStart` reverts `started`;
- `Stop` sets `stopped` before it calls `OnStop`;
- a stopped MConnection takes no message;
- a panic in `onReceive` becomes `onPeerError`.

**Inputs.** Three sets are variables the actions never change, bound by `P2P`:
- `channels` is `p.channels`, the `Channels` of the NodeInfo the handshake decoded;
- `reactorsByCh` is the channels of our NodeInfo, the channels we have reactors for;
- `remoteReactors` is the channels of the remote's own NodeInfo.

They are variables, not constants, because `P2P` substitutes state expressions for them. `Peer` has no `Spec` of its own.

**Actions.** `Dial`, `SetHandshakeDeadline`, `MakeSecret`, `CloseOnError`, `CloseConn`, `Start`, `Stop`, `OnStop`, `SendCheck` (the `IsRunning` and `hasChannel` tests of `Send` and `TrySend`), `SendConn` (the MConnection call) and `Receive`.

**Properties.**
- `ConnReleased`: the raw connection is open only while the peer may still use it.
- `NoRemoteUnknownChannel`: nothing we send makes the remote's `onReceive` panic.
- No property is stated about a `Send` that passed `IsRunning` before `Stop`. What keeps its message off the wire is the MConnection's own running check. That check is not under `src/`, and `SendConn` assumes it.

### SignUTXO

An address is one of `std`, `sub`, `badsum`, `badprefix`, `hex` or `junk`. The first four are 95 characters long.
- `CheckDests` is the loop of `signUTXOTransaction` as a `FoldLeft`.
- `SignDests`, `Create(n)` and `Transfer` are the rest of the RPC. `CreateUTXOTransaction` either fails or returns `n` transactions.

**Properties.**
- `DestsCheckedExactly` compares the loop with a set-based statement of the list's shape: each UTXO address parses, and there is at most one other destination, a hex account address. Below `UTXO_DESTS_MAX_NUM` UTXO destinations, a list is refused exactly when its shape is bad. Above the limit, every list is refused. At the limit, a list of bad shape is refused. An accepted list yields one `DestEntry` per destination, in order. The property says nothing about a well-formed list at the limit, because the code and its error text disagree there.
- `DestsWithinDocumentedLimit` states `ErrUTXODestsOverLimit`'s text: an accepted list has fewer than `UTXO_DESTS_MAX_NUM` UTXO destinations. The code violates it.

### NodeInfo

**Data.** A NodeInfo is a record:
- `version` is the `strings.Split` result;
- `channels` is the channel sequence;
- `moniker`, `others` and `listen` are kinds of text;
- `big` says that the encoding exceeds `MaxNodeInfoSize`.

`Validate` and `CompatibleWith` are `CASE`s in the order of the code's early returns.

**Handshake state.** Two nodes run `HandshakeTimeout` against each other:
- `hs[n]` is the step;
- `deadline[n]` says that a deadline is set;
- `wr[n]` and `rd[n]` are the results of the two tasks of `cmn.Parallel`;
- `got[n]` is the decoded peer info;
- `decided[n]` is what the caller did with it.

**Actions.** `SetDeadline`, `Write`, `Read`, `Timeout`, `IoDone`, `ClearDeadline` and `Decide`. A read needs the peer's write. A timeout needs a deadline.

**Properties.**
- `AcceptedPeerOk`: a kept peer sent its own info, and that info is safe (checked set-wise against `Validate`'s doc comment) and on our network and major version.
- `EventuallyDecided`: both sides return.

### P2P: the handshake and the peer composed

`P2P` instantiates `NodeInfo` as `HS` and `Peer` as `PR`, sharing no variable, and glues them in the switch's order:
- `Connect`: the creation steps of `Peer` (`Dial`, `SetHandshakeDeadline`, `MakeSecret`, `CloseOnError`);
- `Handshake(n)`: a step of either end's `HandshakeTimeout`, once the secret connection is up. The remote's handshake goes on after our side dropped the peer;
- `Run`: `Start`, `Stop`, `OnStop`, the two halves of `Send` and `Receive`, only once our side has `accepted` the peer;
- `Drop`: `CloseConn` once our side has `rejected` it.

`Us` dials and `Them` is the other node. `PR`'s `channels` is `got[Us]`, the NodeInfo our handshake decoded, so `NoRemoteUnknownChannel` now depends on the handshake delivering the remote's real channels. The switch is not under `src/`, so the glue has no map entry. Its order is the one `peer.go`'s callers rely on.

**Properties.**
- `AcceptedPeerOk` and `ConnReleased` are invariants.
- `NoRemoteUnknownChannel` is an invariant.
- `EventuallyDecided` is a liveness property: once the secret connection is up, both ends decide.

## 3. Runs

| run | cfg | expect | what it shows |
|---|---|---|---|
| `scan` | `MCLinkAccount.cfg` | pass | Over a 3-block chain, every interleaving of ticks, failed fetches and saves, `OnStop`, `AutoRefreshBlockchain`, one rescan and sub-account creation keeps transfers, balances and `GetMaxOutput` answers equal to what the chain implies. The account also catches up (`TypeOK`, `ScanMatchesChain`, `BalanceMatchesTransfers`, `MaxOutputCounts`, `EventuallySynced`). |
| `new_sub_race` | `MCLinkAccount_NewSub.cfg` | violation | `CreateSubAccount` zeroes a new sub-address balance that a concurrent `Refresh` has just credited (`BalanceMatchesTransfers`). |
| `same_key_image` | `MCLinkAccount_SameKeyImage.cfg` | violation | Two owned outputs with one key image: the spend marks only the later one spent (`ScanMatchesChain`). |
| `wallet_seq` | `MCWallet.cfg` | pass | With one RPC at a time, `addrMap` and `currAccount` stay consistent, crashes included (`RegisteredIffRunning`, `CurrConsistent`). |
| `wallet_race` | `MCWallet_Race.cfg` | violation | `UnlockAccount` during a `LockAccount` leaves a stopped account registered and drops the running one (`RegisteredIffRunning`). |
| `bootcli_seeds` | `MCBootcli.cfg` | pass | Every `GetSeeds` path returns the nodes of the listed seeds and respects the retry bound and back-off (`RapNodesMatchesSeeds`, `BoundedRetries`). |
| `sign_dests` | `MCSignUTXO.cfg` | pass | For every list of up to three destinations of every kind, the RPC refuses exactly the lists of a bad shape below the limit and every list above it. It passes the accepted ones on in order (`DestsCheckedExactly`). |
| `sign_limit` | `MCSignUTXO_Limit.cfg` | violation | Two UTXO destinations with `UTXO_DESTS_MAX_NUM = 2` are accepted, although `ErrUTXODestsOverLimit` says they should be fewer (`DestsWithinDocumentedLimit`). |
| `validator_fold` | `Validator.cfg` | pass | For every list of up to three validators with distinct addresses, the fold picks the highest `Accum` and, on a tie, the smallest address (`ProposerIsBest`). |
| `p2p` | `MCP2P.cfg` | pass | From the dial through the two-sided handshake to a started or dropped peer: a kept peer sent a valid, compatible NodeInfo; both ends decide; the connection is released on every failure; no send hits a channel the remote lacks (`AcceptedPeerOk`, `EventuallyDecided`, `ConnReleased`, `NoRemoteUnknownChannel`). |
| `sub_race` | `MCLinkAccount_SubRace.cfg` | violation | Two `CreateSubAccount(2)` calls both read `subCnt = 1` and each adds one key: the account ends with index 3 (`SubsUpToRequested`). |
| `wallet_getter` | `MCWallet_Getter.cfg` | violation | A getter passes `IsWalletClosed`; a concurrent `LockAccount` closes the last account; the getter's call then hits a nil `currAccount` and panics (`GetterNoPanic`). |

The `scan` run also checks `ScannerRefinesView`.

### Bounds and why they suffice

**`MCChain`** has three blocks with two tokens. It exercises:
- an owned output next to a foreign one;
- a foreign input;
- an owned output in the second token;
- an owned spend of a first-block output;
- a spend in the last block of an output created in the second.

**Sub-addresses.** `InitSubs = 2` and `MaxSubs = 3`: one new sub-address can be created while scanning. `MaxRescans = 1` is enough for a rescan to interleave with every scan position.

**`MCLinkAccount_SubRace.cfg`** uses the `NewSub` chain with two callers, `MaxSubs = 4` and no rescan. Two calls with the same `maxSub` can then each add a key past the one both asked for.

**`MCChainNewSub` and `MCChainSameKeyImage`** are the smallest chains that show the two findings.

**`MCWallet`** uses:
- 2 addresses, so a second account can be opened and one can stay after a close;
- 3 LinkAccount ids, reused once dropped, so two can be open while a third is built and discarded;
- 1 crash.

**`MCBootcli`** has three seeds:
- one with no IP;
- one with a good and a bad IP, a UDP port, a TCP port above 65535 and an unknown protocol;
- one with a pubkey that does not decode.

Its seed lists include the empty list, a bad seed first, and a bad seed between good ones. The retry bound of 3 is the code's own.

**`MCSignUTXO`** uses `UTXO_DESTS_MAX_NUM = 2` and lists of up to three destinations. That reaches the limit, one beyond it, and two account destinations after a UTXO one.

**`Validator.cfg`** has three addresses, `Accum`s 0..2 and lists of up to three validators. That covers every order of three, ties between two or three validators, and a tie that loses to a higher `Accum`.

**`MCP2P`** has twelve NodeInfos. One passes every check, and each of the others fails exactly one (17 channels exceed the code's own limit of 16). Both ends take every pair. It also has two senders, channels `{1, 2, 3}` and two messages each way. Two senders let one pass the checks while the other sees the stop. The NodeInfos announce different channel sets, so a channel only one side has exercises both `hasChannel` and the panic in `onReceive`. The run has 125,262 distinct states and takes about 25 s.

**`MCWallet_Getter`** is `MCWallet_Race` with the getter property: two callers, so one can close while the other reads.

### Fairness

`refreshLoop` re-arms its timer after every tick and every error, so the node is asked for its height forever. The liveness property assumes the rest:
- the node's chain eventually stops growing (`WF` on `NodeGrows`);
- a tick that reports the node's real height happens infinitely often when possible (`SF` on `Tick(nodeHeight)`);
- `Refresh` starts once a tick has fired (`WF`);
- a scan step whose fetch and save succeed happens infinitely often when possible (`SF` on `ScanBlock(TRUE)`).

This is the weakest assumption under which a wallet can catch up at all. A node that always fails a fetch leaves it behind forever, and the model would show that. `Wallet` has no liveness property and no fairness.

`Validator` has no liveness property and no fairness. `CHECK_DEADLOCK FALSE` there too: a finished fold ends.

In `NodeInfo`, and so in `P2P`, each side runs in its own goroutine, and a set deadline is wall-clock time that passes. That justifies `WF` on each node's handshake steps. `P2P` assumes nothing of the peer's senders, `Stop` or the remote's messages. `CHECK_DEADLOCK FALSE` there, and in `Bootcli` and `SignUTXO`, because a handshake or an RPC that has returned is finished.

## 4. Not modelled, and why

- **The RingCT core of `spec.md`** (curve algebra, commitments, ECDH, Bulletproofs, MLSAG, signature pipeline) is not under `src/`. The scanner uses it only through deterministic functions, and these are abstracted to output fields.
- **The wallet DB** (`save`, `load*`, `saveUTXOTx`, `saveAccountSubCnt`) is not under `src/`. A save is a boolean outcome.
- **Address encoding** (`key.go`): `StrToAddress` and `IsSubaddress` are reduced to the kind of address they accept. The base58/keccak bytes are not modelled.
- **The `MConnection` and `BaseService`** are not under `src/`. `Peer` reduces them to the behaviour `peer.go` relies on.
- **`newInboundPeerConn`** leaves closing the connection to the switch, which is not under `src/`.
- **`SetRefreshBlockInterval`'s `interval * time.Second`** can overflow int64. That is beyond TLC's integers, and the timer is abstracted to `Tick`.
- **`RescanBlockchain`'s unlocked `walletOpen` test** (`linkaccount.go:574`) can pass just before an `OnStop`. The rescan then resets a stopped account, which nothing scans or registers any more. The model keeps the test and the reset in one step.
- **`getGOutIndex`** in `wallet.go` has no caller. `GetMaxOutput` is what reports the index count, and `MaxOutputCounts` is stated for it.
- **`config.go`, `error.go`, `balance_record.go`, `common.go`**, and `validator.go` apart from `CompareAccum`, are constructors, value types and pure record checks without a state machine.
- **Four disagreements with the code's comments or contracts** are recorded here without a run:
  - `LockAccount(addr)` (`api.go:114-117`) ignores `addr` and closes the current account, against its doc comment ("the account associated with the given address"). Opening `a1`, then `a2`, then calling `LockAccount(a1)` stops `a2`. Its run was given up for `sign_limit`.
  - `CloseWallet` calls `w.currAccount.OnStop()` without testing `IsWalletClosed` (`wallet.go:208`). So `LockAccount` on a wallet with nothing open panics the process. The model reaches this panic (`why` gets `"nil"`). One call shows it, so its run was given up for the `sub_race` interleaving.
  - A node with no `Channels` accepts any peer, against `CompatibleWith`'s CONTRACT. The code comments this as deliberate ("if we have no channels, we're just testing").
  - A seed TCP port above 65535 wraps to its low 16 bits (`bootcli.go:169`). `Node.ValidateComplete` then accepts the wrapped port. `PortOf` keeps the truncation. No property tells a wrapped port from the one the seed meant.
- **`refreshUTXOGas`** only rewrites `w.utxoGas`, which nothing reads. The LinkAccount getters only read. Their unlocked call through `Wallet` is modelled.

## 5. Plan for the remaining work

1. `RescanBlockchain`'s unlocked `walletOpen` test (`linkaccount.go:574`). Splitting it from the reset would show a rescan of a stopped account.
2. `CheckProofKey` in `handler.go` reports the raw ECDH amount. The scanner multiplies the same amount by `UTXO_COMMITMENT_CHANGE_RATE`. Modelling that needs the amounts of the chain in two units.
3. Each of these needs a violation run, and the project is at its cap of twelve runs. A run can only be added by merging or retiring one.
