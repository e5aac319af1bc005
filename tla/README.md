# TLA+ models of the pop content-supply core

This directory holds TLA+ models of pop: first the `supply` package, then the parts around it (the daemon command channel and the CLI commands, the retrieval transport configurer, the repo helpers, and the storage client's miner selection and deal epochs). That package pushes a payload to peer caches. It authorizes those peers to pull it, and it routes every inbound transfer into a store of its own. The sources are `src/unnamed/part_000` (supply.go), `src/supply/regions.go`, `src/node/message.go`, `src/cmd/hop/cli/get.go` with the status command in `src/unnamed/part_001`, `src/retrieval/gsconfig.go`, `src/internal/utils/repo.go`, and the storage client bundled in `src/go.mod` (package `storage`). The natural-language spec is `spec.md`.

## 1. Inventory

### Components, their state and operations

| Component | State | Operations (source) |
|---|---|---|
| Region Table | immutable presets: name, code, miners | `ParseRegions`, `protoRegions`, `Supply.ListMiners` |
| Content Index | payload CID -> record with `storeId` (and `size`) in a namespaced datastore | `Register`, `PutRecord` in `HandleRequest`, `GetStoreID` and `GetStore`, `RemoveContent`, the Error-event cleanup in `New` |
| Multistore (external) | id counter; open stores | `Next`, `Get` (opens, creating if absent), `Delete` |
| Authorization Table | `Validator.auth`: CID -> peer set, mutex-guarded | `Authorize`, `ValidatePull`, `ValidatePush` (always refuses) |
| Request Network | one protocol per region; one stream handler per protocol | `NewRequestStream`, `SetDelegate`, `handleStream`, CBOR read and write of `Request` |
| Dispatch Controller | per call, a `Response`: unbuffered `recordChan`, `unsub`, `Count` | `Dispatch` (subscribe, `selectProviders`, authorize, `sendAllRequests`), `Response.Next`, `Response.Close` |
| Inbound handler and configurer | none of its own | `handler.HandleRequest` (ms.Next, PutRecord, OpenPullDataChannel); `TransportConfigurer` (looks up the store for the channel's payload) |
| Data transfer and event bus (external: go-data-transfer, go-pubsub) | channels; subscriber list behind an RWMutex | a channel opens, is validated, then completes or fails; events are published synchronously to every subscriber |
| Message framing | bytes on a connection | `WriteMsg`, `ReadMsg` (4-byte little-endian length, `MaxMessageSize`) |
| Command channel | the daemon's read loop; the CLI's receive goroutine and its `grc`/`src` channels | `CommandServer.GotMsg`, `send`; `CommandClient.Run`, `GotNotifyMsg` |
| CLI commands | the main goroutine of `hop get` / `hop status` | `runGet`, `runStatus`, their callbacks |
| Retrieval configurer | client and provider deal states of each node | `TransportConfigurer`, `dualStoreGetter.Get` |
| Repo helpers | the keystore file of the node's libp2p key, across daemon starts | `FormatToken`, `listValue.Set`/`String`, `Bootstrap` grouping, `Libp2pKey` |
| Storage client | none between calls; per call the selected miners and their latencies | `LoadMiners`, `StartDeal`'s start and end epochs, `calcDealExpiration`, `calcEpochs`, `Store`'s deal loop |
| Outside the model | | `GetMarketQuote` prices, node start-up, repo path lookups, test scaffolding |

### How the components interact

A `Dispatch` on node A does three things:

1. It subscribes a callback to A's event bus.
2. It selects up to `MaxReceiverCount` connected peers that share a region protocol, and authorizes them in A's validator.
3. It writes one `Request` on a new stream to each of them.

On a receiver B, the stream handler runs `HandleRequest`:

1. It allocates a store id and writes the record `payload -> id`.
2. It opens a pull channel back to A.

Opening the channel runs B's `TransportConfigurer`. The configurer reads the index to choose the store. On A, the manager runs A's configurer and `ValidatePull`. When the channel ends, both nodes publish `Completed` or `Error`:

- On A, the Dispatch callback turns `Completed` events for the payload into `PRecord`s on `recordChan`. Each send blocks until the caller calls `Next`.
- On B, the subscription installed by `New` removes the record when it sees an `Error` whose recipient is B.

### What is hard

- Concurrency: dispatches, stream handlers, configurers, and publications run on different goroutines.
- Blocking: a publication holds the bus read lock while it waits for a caller to take a record. Subscribe and Unsubscribe need the write lock.
- Failure: streams are lost, and channels are refused or fail.
- Ordering: authorization must come before send, and the record must be written before the configurer reads it.
- User races: `RemoveContent` can run concurrently with a transfer.

### Properties that make each component correct

- **Dispatch:**
  - Every invited pull is accepted.
  - Events keep flowing (I8).
- **Authorization:** invited peers are accepted (I2).
- **Index and stores:**
  - No orphan store (section 3).
  - Held content stays indexed (section 4.6).
- **Regions:**
  - ListMiners matches its definition (I6, I7).
  - Global covers every region.

## 2. Modules

### `Supply.tla`: the core, for a set of nodes

Variables, per node unless stated:

- `index`: the content index.
- `counter` and `stores`: the multistore.
- `held`: the payloads fully written into each store.
- `auth`: the validator.
- `pending`: events not yet published.
- `inpub`: publications blocked on a dispatch callback.
- `writers`: dispatches waiting for the bus write lock.
- `removing`: a `RemoveContent` between its two steps.
- `disp` (per dispatch): the Dispatch phase, providers, `Count`, and the records taken.
- `xfer` (per dispatch and peer): the request and the pull channel it starts.

Actions, one per interleaving point of the code:

- **Dispatch:** `StartDispatch` and `Subscribe` (`SubscribeToEvents` takes the write lock), `SelectNoPeers`, `SelectProviders` (selection, `Authorize` of each receiver, `Count`), and `SendRequest` (one iteration of `sendAllRequests`; a failed stream is swallowed).
- **Inbound handler:** `HandleRequest` or `HandleRequestFails`, then `OpenPull` (the configurer reads the index, and `ms.Get` opens the store).
- **Channel:** `ValidatePull` (the provider's configurer and `Validator.ValidatePull`), then `CompleteTransfer` or `FailTransfer`. The channel steps are environment.
- **Event bus:** `Publish` runs the `New` cleanup subscriber, then blocks on each matching dispatch callback.
- **Response:** `Next`, then `Close` and `Unsubscribe`.
- **RemoveContent:** `RemoveStore` then `RemoveRecord`.

Assumptions about the libraries, taken from their code:

- go-pubsub calls subscribers synchronously under a read lock.
- `Subscribe` and `Unsubscribe` take the write lock.
- Go's RWMutex keeps new readers out while a writer waits.
- go-multistore `Next` only increments the counter, and `Get` creates the store.
- go-data-transfer runs the requester's configurer inside `OpenPullDataChannel`.
- A refused pull ends in an `Error` event on both sides.

### `Regions.tla`: the region table, as pure operators

It contains `Presets` with the real miner ids, `ParseRegions`, `ProtoRegions`, and a RECURSIVE `ListMinersFrom` that follows the loop with its `break`. The only variable is the configured list of names, so each state is one input.

### `MsgChannel.tla` and `Framing.tla`: the framing of `node/message.go`

`MsgChannel` is the abstract connection: a writer hands whole messages over one call at a time; the reader receives the accepted ones whole and in order, and fails only after the connection broke with nothing whole left. A message over `MaxMessageSize` is refused.

`Framing` is `WriteMsg` and `ReadMsg` with every io call a step:

- Writer: `WriteMsgCall` (the size check), `WriteHeader`, `WritePayload`, `WriteMsgReturn`.
- Reader: `ReadHeader` (with its size check), `ReadBody`, `ReadEOF`.
- Any write may fail after writing a prefix (`n < len(p)` with an error). A failed connection stays failed.
- `PutUint32` and `Uint32` are the little-endian conversions; `Frames` (RECURSIVE) decodes the whole frames of a byte stream.

The refinement mapping takes the unread bytes (with a header the reader has consumed but whose body it has not read) through `Frames` to the abstract queue. `ImplementsMsgChannel == Abs!Spec` is checked as a property, including the abstract weak fairness of `Receive`.

### `CommandChannel.tla`: a CLI command over two framed connections

It composes two `Framing` instances, `Cmd` (commands, CLI to daemon) and `Note` (notifications back), with the goroutines of both ends: the CLI's main goroutine (`runGet` or `runStatus`), its receive goroutine (`ReadMsg` then `GotNotifyMsg` and the callback), the daemon's read loop (`GotMsg`), and the daemon's `Get` goroutine, which reports through `send`. The callbacks hand results over `grc` (unbuffered) or `src` (buffer of one). A message's JSON is one byte naming it. `node.Get` and `node.Status` are environment: they report one of their outcomes. `CtxDone` (the user's interrupt) is not fair; every goroutine step is.

### `Retrieval.tla`: the retrieval transport configurer

Each node has client deal states (provider, id) and provider deal states (receiver, id). `OpenChannel` configures the client side when the client opens the pull channel; `ProviderAccept` and `ConfigureProvider` do the provider side. `Get` is `dualStoreGetter.Get`: the provider state of (peer, id), else the client state of id whatever its provider.

### `Utils.tla`: the repo helpers

Go strings are byte sequences. `EncodeToString` (RECURSIVE base64), `FormatToken`, `Split` (`strings.Split`, empty fields kept), `ListSet` and `ListString` (the `listValue` flag), and `BootPeers`, `AddPeerInfo`, `Connects` (the grouping of bootstrap addresses by peer, as a `FoldLeft`). The one variable is the call under examination.

`Libp2pKey` is modelled over a series of daemon starts on one repo (`Starts`, a `FoldLeft` from a repo with no key). The keystore file persists across starts: no file, the key of start i, or a torn file that `FSKeystore.Put` created but failed to write (go-ipfs-keystore creates the file and then writes it). Each start meets a `StartOutcomes` record: `Get` failing for a reason other than `ErrNoSuchKey`, key generation failing, `Put` writing, failing, or tearing the file, and the process dying before `Put` or after it. The keystore state and a call's result are tagged records (`Key(i)`, `NoKey`, `Torn`, `Err`, `Died`).

### `Storage.tla`: the storage client

`LoadMiners` is a `FoldLeft` of `VisitMiner` over the addresses `ListMiners` returned, each paired with what its iteration meets (`Outcomes`): `StateMinerInfo` fails or reports no peer id (return nil, err), `Connect` or the ping fails (skip), the context ends while waiting for the ping (return `sel`, `ctx.Err()`), or the ping answers with an RTT, recorded in `lats`, and then `GetAsk` fails (skip) or the ask is checked by `AskFits`. `sort.Slice` is not stable, so `SortByLatency` is the set of every order of `sel` sorted by latency, and `KeepLowest` truncates to RF+2. `Store` runs one `StartDeal` per miner in order and returns at the first failure; `proposed[i]` says whether the i-th got its proposal through, and the result records which proposals the miners received. No run checks a property of `Store`: the one worth stating, that an error leaves no proposal behind, is violated by the code and is recorded as a hazard. `ProposedEpochs` is what `StartDeal` passes for Store's parameters: `DealStart` (chain height plus 49 hours of epochs when unset) and `CalcDealExpiration`, with Go's signed `%` as `GoRem`.

`MC_Storage.tla` checks `StartDeal`'s epochs on their own, over negative and positive PeriodStart. `MC_Helpers.tla` checks `Regions`, `Utils` and `LoadMiners` together. Its variable `input` is a call of any of them, substituted into each instance. The functions are pure, so a behaviour is the call and one `Return` step; an initial state per call keeps the state space linear in the number of calls.

`MC_Supply.tla` instantiates `Supply`:

- Nodes a, b and c. Node a is in Global, b in Global and Europe, and c in Europe only.
- Nodes a and b hold q1; b also holds q2.
- Violation runs: every node is connected to every other. Dispatch d1 (a, q1) can only reach b, which already holds q1; d2 (b, q2) picks one of a and c, because the cap is 1.
- supply_core: a's only connection is c, which shares no region with it, so d1 finds no peers. b, connected to a and c, dispatches q2 twice (d2 and d3), each time to one of them, so two dispatches of one payload share b's bus and c may get two requests for q2. Callers may close, and c's user may remove q2.
- `Network().Conns()` is read as a set of peers: a peer with two connections, which the code would select and count twice, is not modelled.

## 3. Runs

| Run | Checks | Result |
|---|---|---|
| supply_core | `TypeOK`, `InvitedPullsAccepted` (no pull of an invited peer is refused, with two dispatches authorizing one payload), in the core setting above | pass |
| supply_orphan | `NoOrphanStores`, with RemoveContent(c, q2) enabled | violated: a repeat request repoints b's record to a new store and leaves the old one open; the Error cleanup and a RemoveContent racing a handler leak the same way |
| supply_lost | `HeldContentIndexed` | violated: a repeat request repoints the record to an empty store |
| supply_close | `EventsDelivered` with callers that may `Close` | violated: Close during a blocked publication stops the node's event bus |
| helpers | `ListMinersCorrect` over every list of up to 3 names from {Global, Asia, Europe, Oceania, Mars}; `ListValueRoundTrip` over values of up to 4 bytes of "a" and ","; `BootstrapConnectsEachPeer` over lists of up to 3 of 4 addresses; `IdentityStable` (every start that got a key got the same one, which the keystore holds after every later start) over every series of up to 3 starts; `LoadMinersKeepsFastest` (the result is RF+2 of the fitting miners, or all, sorted by last latency, none left out faster than one kept) over every sequence of up to 3 visits of 3 miners | pass |
| deal_period_start | `DealEndsOnProvingBoundary` (the end is the last epoch of a proving period, at least the requested duration and less than two periods after the start) over PeriodStart -5..5 | violated: with PeriodStart -5 and period 3 the deal ends at 5880, before minExp 5881 |
| regions_cover | `ListMinersCoversRegions` | violated: Global omits Asia's miners |
| framing_channel | `TypeOK`, `ImplementsMsgChannel` for 3 writes of messages of 0 to 3 bytes with `MaxMessageSize` 2 | pass |
| utils_token | `FormatTokenEncodesBasic` | violated: `FormatToken` formats the raw token, not its base64 |
| retrieval_one_role | `ChannelUsesOwnDealStore` with a and c retrieving from b, deal ids {1, 2} | pass |
| retrieval_both_roles | `ChannelUsesOwnDealStore` with a and b retrieving from each other | violated: a's client channel gets its provider store for b's deal of the same id |
| cli | `CLIReportsDaemonOutcome`, `CommandReturns` for both `get` and `status` | pass |

The findings in `PROJECT.json` explain each violation. Every property of a passing run has a mutant: a plausible bug in the mapped code that TLC catches.

### Bounds

- `MaxReceiverCount` is 1 instead of 7, so that truncation happens with three nodes. The code compares `len(peers) > MaxReceiverCount` whatever the value.
- `MaxStoreId` is 4: two initial stores plus one per request a node receives, so the counter bound never blocks a handler.
- Three dispatches in supply_core give a no-peers dispatch, two dispatches of one payload from one node (shared bus, grants of one payload made twice, two requests for one payload at one receiver), closing callers and a RemoveContent. The violation runs use two dispatches, which reach their counterexamples.
- Framing: `MaxMessageSize` 2 with messages of 0, 1, 2 and 3 bytes puts an empty message, one at the bound and one over it in reach; 3 writes let a failure fall between two accepted messages. The code's bound is 10 MiB, but only the comparison with it matters.
- Retrieval: two deal ids and three nodes are the least that give two clients of one provider the same id, and two nodes that are each other's provider.
- Storage: three miners whose asks differ in price and in piece range, MaxPrice and PieceSize in {1, 2}, and RF 0 (keep 2) with up to 3 visits: enough for a cut, a tie in latency, a duplicate address, and each early return. In `MC_Storage`, durations 0, 29, 30 and 95 seconds cover the truncation of `calcEpochs`; periods 3 and 4 with PeriodStart -5..5 cover starts before epoch 0, below, at and past one period.
- Libp2pKey: 3 starts give a failure or crash followed by a start that reuses or makes a key, and a third that must agree with both.
- Helpers: tokens of up to 3 bytes fill and pad a base64 group; 4 addresses give a peer with two addresses, one with one, and one that does not parse.

### Fairness

The transfer manager, the stream handlers, the bus publisher, and the Dispatch goroutine are weakly fair; they are goroutines that run when enabled. Taking a record with `Next` is weakly fair too, which is an assumption about the caller. Starting a dispatch, calling `Close`, and calling `RemoveContent` are user choices, so none of them is fair.

In `Framing` the reader goroutine is weakly fair and the writer is not (a caller may stop writing). In `CommandChannel` every goroutine step and both connections' reads and writes are weakly fair; only the user's interrupt is not.

`EventsDelivered` is checked in the `supply_close` run, where a caller may close, and fails there. Without closing callers it holds by the weak fairness of `Next` alone, so it is not checked as a passing property. `CHECK_DEADLOCK FALSE` is set because the system stops once every dispatch and transfer has ended.

## 4. Not modelled

- CBOR encoding and the JSON text of commands: conversions with no concurrency; a message is a model value.
- `ValidatePush`: it changes no state.
- `GetMarketQuote`'s FIL arithmetic: big-integer prices with no control flow beyond the returns.
- Node start-up and the daemon's `node.Get`/`node.Status`: they depend on code outside this tree.
- Retrieval channels whose `Error` events also trigger the supply cleanup.
- `RepoPath`, `FullPath` and `RepoExists`: environment and `os.Stat` lookups with no state of their own. The key file is modelled only through `Libp2pKey`.
- `testutil` (`TestNode`, `NukeBlockstore`, `SetupDataTransfer`): test scaffolding wired to external libraries.

## 5. Further work

1. **Supply.** Records as a multiset, to check the spec's "at most one completion per peer per dispatch"; connections as a sequence, so that a peer with two connections is counted twice as in the code; and an abstract `AuthTable` refinement.
2. **Command channel.** The remaining commands (`add`, `push`, `quote`) and more than one command per connection.
3. **Storage and keys.** Two disagreements are recorded as hazards rather than runs: `Store` returning only an error after earlier deals were proposed, and a torn key file that stops every later start.
