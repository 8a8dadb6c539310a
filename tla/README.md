# Substrate API Sidecar in TLA+

Substrate API Sidecar is a REST service in front of a Substrate node. An Express
request becomes a handful of RPC calls to the node, the answers are combined, and
JSON is returned. The service is one Node.js process: JavaScript runs every callback
to completion, so what interleaves is what happens *between awaits* — other
requests, and a node whose best and finalized blocks move while a request is being
put together. Where everything is read at one block hash nothing can interleave; what
is then worth checking is the computation itself.

Paths below are relative to the repository; `src/` there holds the service, `calc/`
the Rust code it loads as wasm.

## 1. Inventory

### Components that keep state, or whose calls interleave

| Component | State it keeps | Operations | Interacts with | What is hard | What makes it correct | Module |
|---|---|---|---|---|---|---|
| `PromiseQueue` (`src/util/PromiseQueue.ts`) | `#runningTasks`, `#maxTasks`, a linked list with `#first`, `#last` | `run`, `tryRunNextTask`, `onFinish`, `pushBack`, `popFront` | one per fetched block (4 fee tasks), one per range query (4 blocks) | both `run` and `onFinish` start tasks; a stale `#last`; tasks that reject | no more than `maxTasks` run; first come first served; no task stranded, no slot leaked | `PromiseQueue`, `FifoPool` |
| Block endpoints (`BlocksController`, `BlocksExtrinsicsController`, `BlocksService.fetchBlock`) | per request: hash, options, the block being built | `getLatestBlock`, `getBlockById`, `getExtrinsicByTimepoint`, `fetchBlock`, `isFinalizedBlock`, `fetchPreviousBlockHash` | node, block cache, fee tasks | four to six calls per answer while the node reorganises and finalizes | the finalized tag is true, the head is final, fees are of the parent's state | `BlockEndpoint`, `ChainNode` |
| Block cache (`chains-config/cache/lruCache.ts`) | an LRU map of two blocks, shared by all controllers of a chain | `get`, `set` | block endpoints | routes with different options and requests at different times share entries | an answer is to the question asked; the bound holds | `BlockEndpoint` |
| Fee tasks and `QueryFeeDetailsCache` | two registers per configuration, shared with the `/rc` controllers | `hasQueryFeeDetails`, `setRegisterWithCall`, `setRegisterWithoutCall`, `resolveExtFees` | node, `PromiseQueue`, `calc_partial_fee` | concurrent probes of several runtimes, of two chains even; failures taken for answers; upgrade blocks | what is remembered stays true; no version probed twice; every block is answered | `FeeSupport` |
| Relay chain mapping (`AbstractController.getHashFromRcAt` and 25 controllers) | per request: the relay block, its Asset Hub blocks, a label | the `useRcBlock=true` branches | relay chain node, block endpoints | `at` is resolved up to four times for one answer | all parts of an answer are of one relay block, or in order | `RcBlock`, `Sidecar` |
| Block range query (`BlocksController.getBlocks`) | per request: a queue, results | `parseRangeOfNumbersOrThrow`, `pQueue.run` | `PromiseQueue`, block endpoints, relay chain mapping | all or nothing; a reorganisation between two numbers | each number once, in order, within the limit; a final range is one chain | `BlockRange`, `RangeQuery` |
| API registry and startup (`apiRegistry/index.ts`, `main.ts`, `chains-config/index.ts`) | four static maps by URL, type and spec name; `assetHubInfo` | `initApi`, `getApi`, `getApiByType`, `getControllers` | nodes, every service | checked before an await, written after it; the first to answer wins | the maps agree; what is served does not depend on timing | `Startup`, `Sidecar` |
| Staking payouts (`AccountsStakingPayoutsService`) | per request: a ledger cache | `fetchAccountStakingPayout`, migration split, `deriveNominatedExposures`, `deriveEraPayouts` | two nodes (relay chain and Asset Hub), `calc_payout` | an era range across the migration; a cache shared by concurrent lookups | each era once, from the chain that recorded it; each nomination once | `StakingPayouts` |

### Components that compute from the state of one block

| Component | What is hard | Module |
|---|---|---|
| Vesting and `getRelayParentNumber` | a batched search in which a relay block that cannot be read looks like one without the inclusion; two block numbers | `Vesting` |
| Paras and crowdloans | offsets of lease periods, samples of an auction's ending | `Paras` |
| Staking progress | epochs derived from time, eras of forced and skipped sessions | `StakingProgress` |
| Staking info (claimed rewards) | two generations of claims, pages, nominators through their validators | `StakingClaims` |
| Trace operations | parents of spans, order, phases of events | `Trace` |
| Coretime | phases and price of a sale, cores with leases, reservations and plans | `Coretime` |
| `calc_partial_fee`, `calc_payout` (Rust), pool priority | saturation and rounding of `Perbill`, zero weight | `Amounts` |
| Contents of a block, XCM decoder | which event belongs to which extrinsic, version tests, filters | `BlockContents` |
| Pallet storage, constants, errors, events, dispatchables | indices and names of the metadata | `PalletItems` |
| Balances and assets of an account, addresses | locks, denomination, the order of results | `AccountHoldings` |
| Sanitizer and names of calls | numbers in nested data, maps, exceptions by the metadata | `Rendering` |
| Error handlers, block identifiers, guards, transactions, metadata versions | the order of handlers, node failures, retries with another version | `Requests` |
| Validators, para inclusions, foreign assets, migration info | several reads in a row, a default table, two chains | `Listings` |

### Components that only forward or reformat

Proxies, approvals, address conversion, nomination pools, asset conversion,
referenda, the material of a transaction, runtime code and version, contracts, node
information, raw blocks, metrics and logging. They read storage at one block hash,
which cannot change, or hand one call on, and keep nothing. `PROJECT.json` lists
them with the component they belong to; section 6 says why they are left out.

## 2. The modules

```
FifoPool <-- refines -- PromiseQueue <- MCPromiseQueue
   ^                         ^
   |                    PromiseQueueProofs
   +-- instance -- BlockRange <- MCBlockRange
                    | | ^
RangeQuery <--------+ | BlockRangeProofs
                      |
ChainNode <-----------+
  ^   ^
  |   +--- BlockEndpoint <- MCBlockEndpoint      (3 configurations)
  |             ^
  |        BlockEndpointProofs
  +------- RcBlock <- MCRcBlock
             ^  ^
             |  RcBlockProofs
Startup <- Sidecar <- MCSidecar
FeeSupport     <- MCFeeSupport (2 configurations),  FeeSupportProofs
StakingPayouts <- MCStakingPayouts,                 StakingPayoutsProofs

Answer <- Vesting, Paras, StakingProgress, StakingClaims, Trace, Coretime, Amounts,
          BlockContents, PalletItems, AccountHoldings, Requests, Listings
                     <- Algorithms <- MCAlgorithms
Answer <- Rendering <- MCAlgorithms
RangeQuery, StakingClaims, Amounts, Paras, Requests
                     <- DocumentedAnswers <- MCDocumentedAnswers
Startup, Algorithms  <- ServerProofs <- ServiceProofs
```

**PromiseQueue** has `tasks` (the linked list, an entry named by its task),
`runningTasks`, and for each task a `phase`. `Run(t)` is `run()` with the
`tryRunNextTask()` it ends in, `TaskSettles(t)` the task's own promise settling, and
`OnFinish(t)` the `then`/`catch` callback with its `tryRunNextTask()`. `submitted` is
a history of the calls of `run()`. Assumed: a task is an `async` function, as every
caller's is, so `nextTask()` neither throws nor calls `run()` before it returns.

**FifoPool** is what the queue promises: no counter, no list; which tasks are
admitted is a function of the order of arrival and of how many have settled.
`PromiseQueue` is checked to implement it, with its fairness, under the mapping
`PoolStatus`.

**ChainNode** is the node behind the connection: `best`, `finalized`, a tree of
blocks. `NewBest` imports a block or reorganises, `Finalize` extends finality and may
settle on a fork. It is external code, modelled from how `getHeader`,
`getFinalizedHead` and `getBlockHash` are used. Finality is never taken back, and
the best block always descends from the finalized one.

**BlockEndpoint** has, for every request, the await it is suspended at (`pc`), its
`query`, the finalized `head` it read and the `block` it builds; and one `store`, the
LRU cache in order of use. A step is the code between two awaits: `Arrive`,
`Resolve`/`ResolveUnknown` (`getHashForBlock` or the head), `Lookup`
(`blockStore.get`), `Fetch` (the first `Promise.all` of `fetchBlock`),
`TagFinalized` (`isFinalizedBlock`), `FetchPrevious`, `Store` (`blockStore.set`),
`Deliver` (the extrinsics route), and `Fail` for any awaited call that rejects. Of a
block the model keeps what can differ between two answers for one hash: the
finalized tag and the block whose state the fees come from; of the options, the
three that decide those. `since` and `fetched` are histories the properties use.

**FeeSupport** has the two registers and, for every request, the fee tasks of its
block. `Start` is `resolveExtFees` up to its first await, `Consult` the moment
`hasQueryFeeDetails` is asked, `DetailsAnswer`, `ProbeFails`, `CallFails` and
`InfoFails` the ways the calls end, `Respond` the `Promise.all`. The tasks run on a
first come first served pool of `MaxTasks`, which is what `PromiseQueue` is shown to
be. An extrinsic is one of four shapes by what is known of it without a query. A
block has its own runtime version and that of its parent's state: the code asks the
registers about the first and calls the second. It also has the first version *of
its chain* with the call, because the controllers under `/rc` hand the Asset Hub's
cache to the relay chain's `BlocksService`; `OneChain` says that no block makes use
of that. `tried` and `disturbed` are histories. Amounts are left out.

**RcBlock** is the `useRcBlock=true` branch: `AskHead` on the head routes,
`ReadEvents` (`getAhAtFromRcAt`), `ReadLabel` (the second half of
`getHashFromRcAt`), one `Process` per Asset Hub block, `ReadInfo`
(`getRcBlockInfo`). `HashFromAt` is `getHashFromAt`, which takes anything but a
string for the finalized head. A request shares nothing but the node with others,
so one request is enough. What is computed *at* an Asset Hub block is left out: a
read at a hash has one answer.

**BlockRange** is `GET /blocks?range=`: `Arrive` parses the range and submits one task
per number in a loop without an await, so all of them arrive at once at an instance
of `FifoPool`; `Task(n)` is what the task of `n` does between its awaits (resolve the
number, with `useRcBlock` the relay block's second resolution, build); `Handler` is
what follows the `Promise.all`: flatten, sort, and the `rcBlock` of the object format.
The node reorganises between any two of them. A block's contents are left out: a
task either builds the block it resolved or rejects. **RangeQuery** is the parser,
`parseRangeOfNumbersOrThrow`, with its limit.

**Startup** is `main()` with the static maps of `ApiPromiseRegistry`: `Begin` makes all
`initApi` calls, `Connected(i)` is what one does after its awaits, `Abort` and
`AllConnected` the two ends of the `Promise.all`, `Inspect` a turn of the loop that
finds the Asset Hub's state, `Mount` the choice of controllers: a chain that
`specToControllerMap` does not list, an Asset Hub too, has the default ones and none
under `/rc`. The calls all pass
the check of `_instancesByUrl` before the first of them writes it, so the check never
succeeds: an instance is named by its call.

**Sidecar** composes the two: `Boot` is a step of `Startup`, and once the server is up
a request with `useRcBlock=true` is let through (`ServesRelayBlocks`, the guard of
`validateUseRcBlockMiddleware`) if the registry has the main chain as an Asset Hub and
some chain of type relay; from there on it is a request of `RcBlock`.

**StakingPayouts** reads a fixed chain state (`World`: two chains, their eras, exposures,
ledgers and claims). `Check` is the controller and the checks of the service,
`FetchCommissions` starts the lookups of one chain over an empty ledger cache,
`PrefsAnswered(t)` and `LedgerAnswered(t)` are the awaits of one lookup, `DerivePayouts`
puts the payouts of that chain together; a migrated Asset Hub goes through the
last three twice, first on the relay chain. The named assumptions say what a chain
records: eras in order, a pages list for each exposure, no reward of a running era,
no more nominations of an account on one validator than `MaxNominations`.

**Algorithm modules.** Each holds the functions of its services as operators with the
properties stated beside them; a property compares an answer with a definition of
what it stands for that does not use the function. `Answer` is what they share:
`null`, a handler that throws, sums, the digits of a number, `filter` (`Kept`) and `sort`
(`Sorted`). `Algorithms` states
what is promised of one `input`, by its kind; `MCAlgorithms` picks one computation and
one of its bounded inputs, `ServerProofs` and `ServiceProofs` prove the same of all inputs. *Rendering* is
recursive and stays outside `Algorithms`. What fails is an answer as well: a core
without items in a coretime workload makes the whole answer throw (`CoretimeCores`), a
read of the locks that fails is answered as not locked (`IsAllLocked`). *Vesting* has the batched search and both calculations; *Paras* the lease
periods, auctions and crowdloans; *StakingProgress* both derivations of the session;
*StakingClaims* the loop over the eras for validators and nominators; *Trace* spans,
groups and operations; *Coretime* sales, cores and leases; *Amounts* the Rust
arithmetic and the pool's priority; *BlockContents* the events of a block and the
XCM messages; *PalletItems* the lookups in the metadata; *AccountHoldings* balances,
assets and the comparison of addresses; *Rendering* the sanitizer and the naming of
calls; *Requests* the error handlers, block identifiers, guards and the transaction
and metadata routes; *Listings* validators, inclusions, foreign assets and the
migration info.

**DocumentedAnswers** asks seven promises that the guides, the OpenAPI document and the
comments make of single answers, each of all its bounded inputs: `RangeLimited` of the
parser, `ErasLoopEnds` and `PartlyClaimed` of the claims, `FeeByFormula` of
`calc_partial_fee`, `AddressRefused` and `SubmitFailureExplained` of the requests,
`AuctionShowsWinning` of the auctions. It defines no code of its own. `PromisesKept` is
their conjunction, and the counterexample holds one input for each that is broken.

Definitions that a comment calls *Faulty* are not part of any behaviour. Each is a
plausible mistake in the definition that follows it, kept to show that the
properties notice it.

## 3. What the runs check

| Run | Question | Distinct states |
|---|---|---|
| `promise_queue` | Do the counter and the list implement the pool, and does every task settle? | 15 thousand |
| `block_endpoint` | Are tags by hash, heads, fees and cached answers right while the node moves? | 549 thousand |
| `block_endpoint_cached_tag` | Is a cached tag current? (It is not.) | stops at the counterexample |
| `block_endpoint_by_number` | Is a block tagged finalized by number final? (Not always.) | stops at the counterexample |
| `fee_support` | Are the registers sound, never forgetful, and is every block answered, though calls fail? | 48 thousand |
| `fee_support_two_chains` | Is a block's runtime judged by its own chain's? (Not if the relay chain's blocks are served too.) | stops at the counterexample |
| `sidecar` | Do the registry's maps agree, is the same served in whatever order the nodes answer, does the start end; and is an answer with `useRcBlock` whole and of one relay block, or of blocks in order? | 157 thousand |
| `rc_block_head` | Is the newest relay block answered when it is asked for? (It is not.) | stops at the counterexample |
| `block_range` | Is a range whole, in order, one chain where it was final, and does no rejected task strand another? | 29 thousand |
| `staking_payouts` | Is every era answered once from the right chain, every nomination paid once, the shared cache harmless? | 20 thousand |
| `algorithms` | Does each computation answer what it stands for, on all of its bounded inputs? | 225 thousand |
| `documented_answers` | Are seven promises of the documents and comments kept? (None is on all inputs.) | stops at the counterexample |

### The properties

* `AtMostMaxTasks`, `NoIdleSlot`, `EveryTaskSettles`, `ImplementsFifoPool`: the queue
  as its callers see it, counted on the tasks and not on `#runningTasks`.
* `ByHashTagSound`: a block asked for by hash and answered finalized is on the
  finalized chain, whoever cached it and however the node moved.
* `HeadIsFinal`: the head route answers a final block and says so.
* `FinalFeesAtParent`: although the parent is asked for by number, a block said to be
  final has its fees computed in its own parent's state.
* `AnswersTheQuestion`: the shared cache never answers another question.
* `FreshTagCurrent`: a request that built its own block does not deny a finality the
  block had when the request arrived.
* `WithCallSound`, `NoSecondProbe`, `AvailableStays`, `FeeKindRight`,
  `EveryBlockAnswered`: what the two registers can be relied on for, of one chain.
* `WholeAnswer`, `SettledAtAgrees`, `HeadsAdvance`, of a server that started in any of
  the configurations: one result per Asset Hub block; all
  reads of a hash, or of a number that was already final, agree; reads of the head
  only go forward along the finalized chain.
* `WholeRange`: a range of at most as many numbers as the limit is answered with one block of each number in ascending order,
  with `useRcBlock` with every Asset Hub block included, sorted, or it is refused.
  `SettledRangeIsOneChain`: if the range was final on arrival, each block is the parent
  of the next and tagged final, and no Asset Hub block appears twice.
  `RangeAnsweredAndDrained`: it ends, and a rejected task strands none behind it.
* `RegistryConsistent`, `OrderIsIrrelevant`, `StartEnds`: both halves of the type map are
  inverses and `getApiByType` finds an instance for each name; what is served follows
  from the configuration, but for a chain that is given two types, and the controllers
  under `/rc` are there for an Asset Hub with a list of its own next to a relay chain;
  the start ends.
* `LookupsExact`: in whatever order the lookups are answered, each finds its own
  chain's ledger. `WholeHistory`: no era twice or out of order, none missing whose
  reward was recorded. `NominationsPaid`: what is paid on a validator adds up to the
  account's stake on its last page. `ReadsKept`: no pruned or unpaid era is read.
  `RequestSettles`.
* `VestingSound`: never more vested than the chain unlocks, whatever fails to be read,
  and exactly that when all is read. `ParasExact`, `ProgressExact`, `ClaimsExact`,
  `CoretimeExact`: periods, sessions, claims and cores are those of the chain. Of an
  auction, every winning bid is told from the second block of the ending period on; of
  a nominator's claims nothing is said where an old list sets the loop back; both are
  below, among the disagreements.
  `OperationsExact`: operations add up to the change of each balance and name where it
  happened. `AmountsExact`: payouts share out the pool, priorities are ordered;
  nothing is said of fees. `ContentsExact`: each event in the extrinsic or hook it
  happened in, each message once. `ListingsExact`: lookups by name and by index agree,
  no entry twice or missing. `HoldingsExact`: a denominated amount is written with the digits
  of the amount and its point in place, if the chain lists the token's decimals;
  frozen balance is not transferable where the locks could be read. `RenderingExact`: no value lost or left a number,
  every call named. `RequestsAnswered`: an `HttpError` and the failure of a
  transaction are answered with the status chosen for them, an error that has none
  with 500; a transaction is submitted at most once.

### Disagreements with the documentation

1. `TagCurrent`: `isFinalizedBlock` is documented to tell finality "at the time of
   querying"; a cached block keeps the tag it was stored with
   (`BlocksController.ts:520`).
2. `ByNumberTagSound`: the comment of `isFinalizedBlock` assumes that a block queried
   by number not above the finalized head is on the finalized chain; the hash is
   resolved before the finalized head is read, and the node may leave the fork in
   between (`BlocksService.ts:849`).
3. `WithCallSound`: `hasQueryFeeDetails` "checks whether the current runtime version has
   access to the runtime API"; the controllers under `/rc` share the Asset Hub's cache
   (`RcBlocksController.ts:52`), so a relay chain version is compared with versions of
   the Asset Hub, and the blocks of a relay runtime that is taken to have the call
   without having it are refused.
4. `NewestIsAnswered`: `GET /blocks/head?useRcBlock=true&finalized=false` is documented
   to respect `finalized`; the hash object it reads is not a string, and
   `getHashFromAt` replaces it by the finalized head (`BlocksController.ts:219`).

The others are all in the counterexample of `PromisesKept`:

5. `RangeLimited`: "There is a max limit of 500 blocks per request"
   (`docs/src/openapi-v1.yaml:1724`; "We set a max range to 500 blocks",
   `BlocksController.ts:689`). The difference of the ends is compared with the limit,
   so that 1-501 passes with 501 blocks (`AbstractController.ts:259`).
6. `ErasLoopEnds`: the loop over the eras goes "from `eraStart` up until `eraStart +
   eraDepth`" (`guides/STAKING_IMPLEMENTATION_DETAILS.md:54`). On a relay chain the old
   list of a nominator's first validator sets it back in every round; if that list ends
   two eras before the range, the same round follows for ever and there is no answer
   (`AccountsStakingInfoService.ts:303`, `:330`). Here a round that changes nothing
   without having ended stands for it; `RewindsForEver` proves that it is reached.
7. `PartlyClaimed`: the guide says "The returned era should have status `partially
   claimed`" (`:261`) of eras with fewer claimed pages than pages, with "pageCount = 1
   and claimedRewards.length = 0" for an example (`:255`), and "`unclaimed` if no pages
   were claimed" elsewhere (`:181`). The code follows the latter
   (`AccountsStakingInfoService.ts:412`): the guide contradicts itself.
8. `FeeByFormula`: "partial_fee = base_fee + len_fee +
   ((adjusted_weight_fee/estimated_weight)*actual_weight)" (`calc_partial_fee.rs:24`).
   The code has the ratio of the weights the other way (`:105`), and it saturates at
   one: an extrinsic that used less weight than estimated is told the whole estimate.
9. `AddressRefused`: `EtheuremAddressNotSupported` implements `HttpError` with status 400
   (`AbstractService.ts:24`), and the routes are documented to answer 400 "Invalid
   Address" (`docs/src/openapi-v1.yaml:270`). It is no instance of `HttpError`, so that
   the last handler takes it and answers 500.
10. `AuctionShowsWinning`: "Both `startPeriod`, and `endPeriod` have valid offsets"
    (`ParasService.ts:261`), and the guide shows bids 71 blocks before the ending period
    (`guides/AUCTIONS_WINNERS.md:20`). `endingOffset` answers `null` in the start period
    and in the first block of the ending period (`ParasService.ts:498`).
11. `SubmitFailureExplained`: of 'Failed to submit transaction', "the transaction queue
    rejected the transaction" (`TransactionSubmitController.ts:34`). It is told as well
    when the answer was lost after the node took the transaction
    (`TransactionSubmitService.ts:53`).

### Bounds

* `promise_queue`: four tasks on two slots. The list is emptied and refilled, so that
  `#last` goes stale, and two tasks wait at once, so that order matters.
* `block_endpoint`: two requests, a cache of one block, genesis and two forks of two
  blocks. Two requests are needed to share an entry or to evict the other's; a cache
  of one makes eviction happen; both forks have a block at each height, so a number
  is ambiguous while they compete; one queried number is above every block. Requests
  are interchangeable: symmetry over them is used, and no liveness is checked there.
* `fee_support`: two requests, two slots, runtimes 1 to 4 with the call from 3 on and
  fees from 2 on, five blocks: one too old, one with more extrinsics than slots, the
  upgrade block, and one of each extrinsic that needs no query. `Flaky` lets a call
  fail that the runtime has. `fee_support_two_chains` adds blocks of a relay chain
  whose first version with the call is 4, and turns `Flaky` off: the answer goes
  wrong without any failure of the node.
* `sidecar`: six nodes: two of the relay chain, three of Asset Hubs (one migrated, one
  that migrates, one without a list of controllers) and one of a parachain;
  configurations of one to four URLs, with injected controllers or without, among them
  one chain given two types and one given twice. For the requests, two forks of two relay blocks; an Asset Hub block included on both, a
  relay block with two and others with none; hashes, numbers and no `at`.
* `block_range`: the same forks, two slots, ranges of two to four numbers, with a limit
  of three between their ends, so that a task waits; ranges in the wrong order, too
  long, above every block, or not of two numbers; an Asset Hub block that both forks
  include, at different heights.
* `staking_payouts`: five eras and a migration in the third, which both chains know; two
  validators and the account as a third; nominations on one, on both, twice on one, on
  a page that is not the last, or none; ledgers on one chain only; a history depth of
  0, 3 and 4.
* `algorithms`: periods, sessions and samples of two to six blocks over two or three
  turns, so that every boundary and its neighbours are met; batches of two in a
  search of five; traces of up to four spans; fractions in percent instead of
  billionths, so that rounding happens at every other input.
* `documented_answers`: the limit of the code, 500, with ranges of 490 to 510 numbers; a
  history of four eras; an auction with three samples of two blocks; small sets
  of their own for the others, each with inputs that keep the promise and inputs that
  break it.

No counter is unbounded: requests and tasks happen once each, heights end with the
tree, eras and inputs are finite. `CHECK_DEADLOCK FALSE` everywhere for that reason:
when every request is answered and both heads are at a tip, nothing is left to do.

### Fairness

`EveryTaskSettles` assumes that a running task's promise settles and that the event
loop runs its callback: the RPC provider answers or times out, and Node.js runs every
queued microtask. Nothing makes a caller submit. `EveryBlockAnswered` assumes weak
fairness of a request's tasks as a whole and of `Respond`, `RangeAnsweredAndDrained` of
each number's task and of the handler, `RequestSettles` of each answer to a lookup, of the
handler, and of leaving the lookups without a failure once all are answered, all for
the same reason; no failure is ever required. `StartEnds` assumes that
every node answers or refuses: `ApiPromise.create` waits for a node that is down, and
`main()` with it. `BlockEndpoint`, `RcBlock` (in `Sidecar` too) and the node itself have no fairness: the
chain may stand still.

## 4. What is proved

The theorems hold for every value of the constants, under the named assumptions of
the modules, which TLC evaluates in every run: a finite set of tasks and at least
one slot; blocks that form a tree with one block per height on each chain; a cache of
at least one entry; queries of the listed routes; a known register value that is
right to begin with, and a block's version not below its parent's; a first URL
without a type; a chain on which no reward of a running era is recorded; a `null` that is
no number, name of a storage, item of a pallet or attribution. That the
variables keep their types is proved for each of these modules and not run.

* **PromiseQueueProofs.** `AtMostMaxTasks` and `NoIdleSlot` are not inductive: they
  count tasks, the code looks at a counter and a list. `IInv` says there is a `k` such
  that the first `k` submitted tasks have started, the list from `#first` on holds the
  others in order (`ListHolds`, which says nothing of `#last` when the list is empty),
  `#runningTasks` counts the slot holders, `k` is that plus the settled tasks, and the
  counter is at its maximum while a task waits. The same `k` is the pool's quota, from
  which `QueueRefinesPool` shows that every step is one of `FifoPool` or a stutter.
* **ChainNode** has no proofs of its own: the three modules about blocks each begin with
  the lemmas on chains they rest on (`BlockAtHeight`, `FinalIsCanonical`, `NodeKeeps`, ...).
* **BlockEndpointProofs.** A request may answer with what another stored under other
  options, when the node was elsewhere. `IInv` therefore says of every cache entry, and
  of every request from each await on, what holds of its block *for the options it was
  built with* (`Sound`), all of it kept by a node that only extends finality.
  `NodePreserves` is that last part; `OptionsCases` shows which routes can share a key.
* **FeeSupportProofs.** Under `OneChain`, without which `WithCallSound` is false, the
  registers move in one direction each (`Registers`), so an answer other than
  "unknown" is kept; `WithCallSound` and `NoSecondProbe` follow, and `FeeKindRight`
  needs `UndisturbedWithoutCall` in addition.
* **RcBlockProofs.** `Read(b)` is what `getHashFromAt` established when it answered `b`:
  for a hash, that hash; for a number, a block of that height, final if the number was
  final on arrival; for no string, a final block no older than the request. `Follows`
  orders two reads of the head. Both are kept by the node, and the two or three reads of
  a settled block must then be equal because a chain has one block per height.
* **BlockRangeProofs.** The invariant is about one number at a time: what it was
  resolved to has its height, and is final if the number was (`ResolvedRight`), whatever
  the node did since. The rest is about the answer. `FlattenSeqFlattens` says that every
  entry of every array has one place in the flattened one, by induction on the number of
  arrays; `RanksArePlaces` that the ranks of n entries are the numbers 1 to n, so that
  `blocks.sort` is a permutation. `RangeIsWhole` follows with and without `useRcBlock`, for
  ranges within the limit.
  Final blocks of adjacent heights are parent and child, and two final blocks include
  different Asset Hub blocks: `SettledRangeIsChain`.
* **StakingPayoutsProofs.** `SharedCacheIsHarmless`: a cache only ever holds ledgers of
  the chain being read, since the lookups of the next chain start after those of the
  last have ended. `CacheIsNeverHit` is stronger than its author wanted: every lookup
  looks into the cache before the first ledger is stored, so none takes the short way.
  `ReadsAreKept` follows from what the checks let through. `HistoryIsWhole` needs
  `HInv`: the answer so far is the relay chain's part, then the own chain's, each with
  the eras of its half of the range in order and none twice. `NominationsArePaid` is
  about what the loops compute: the nominations of an account are flattened into blocks,
  one for each exposure it is in (`FlattenSeqOfBlocks`); the places of one validator lie
  in a row, so the counting of `deriveEraPayouts` gives its nominations the ordinals
  1 to n, and each is paid with the exposure it came from.
* **ServerProofs, the startup.** `RegistryConsistent` is inductive. `OrderDoesNotMatter`
  needs what each phase of `main()` has settled: that a stored type was declared for its
  chain, that a finished call has left one, and which turns of the loop have been made.
  The theorems are about `Start`; those of `RcBlockProofs` are about `Spec` of `RcBlock`.
  `Sidecar` runs both together and has no theorem.
* **ServerProofs and ServiceProofs, the computations.** One theorem for each property of `Algorithms`, for
  every input of a set that says what the route can be given, in any number and of any
  size: a relay block that includes the Asset Hub block once, after its
  parent; any schedules and any reads that fail; epochs in ascending order, wherever the
  block lies in them; any amounts, limits but not zero ones, any number of exposures; any
  error, node, body and offer of metadata versions; any balances, assets, decimals and
  addresses; leases of any holders, and an auction whose samples hold bids for each range
  of slots; metadata whose pallets have names and indices of their own, a broker whose
  workload has one entry per core; any events, candidates and messages; stakers whose
  pages, exposures and claims are arbitrary in every era, with old lists of claimed eras
  that are in order and end before the last era; traces whose span ids differ, in which
  no span is below itself and every event has a span. These sets are named `VestingInputs`,
  `ProgressInputs`, ... beside the theorems, and each contains inputs that TLC runs.
  `ServerProofs` has those of one request, account or listing, and the lemmas on sums,
  filters and sorting; `ServiceProofs` those whose loops carry several records at once.
  The provers know nothing of recursion, so each loop is turned into a function of the
  number of steps taken (`IterationExists` for folds, `StepsExist` for filters and
  concatenations), and the invariant of the loop is proved by induction on that number;
  `SetInduction`, from the well-foundedness of the naturals, is the one induction there is.
  - `EveryVestingSound`: the batched search visits every candidate until it finds one
    that can be read, so it answers an inclusion within reach or nothing; and vested
    amounts grow with the block they are computed at.
  - `EveryProgressExact`: between two sessions without a skip an epoch passes for each
    (`EpochsInStep`); the rest is division.
  - `EveryAmountExact`, which is about payouts and priorities: `FractionBounds` says what `FromRational` rounds away, and sums
    over exposures are followed term by term.
  - `EveryRequestAnswered`: which handler of the post-middleware takes an error first, and
    which statuses each of the nodes' failures ends in.
  - `EveryHoldingExact`: the digits of a number are read step by step (`ValueIsRead`), so
    that moving the point keeps the amount; `filter` lists the places it keeps, each once
    and in order (`KeptIsListed`, `ListedOnce`), so every asset of an account is told.
  - `EveryParaExact`: the lease sets are enumerated row by row, a range of slots is
    determined by how many come before it, and offsets are remainders of periods.
  - `EveryListingExact`: what `Kept` has kept of a para it has kept of the sorted blocks as
    well (`SortOrders`, `KeptOfSorted`): sorting is stable and loses nothing. Every asset of
    the first head is told, with metadata of its own from a head read since.
  - `EveryCoretimeExact`: a core of the answer is one place of the sorted workload; the
    price is linear on both sides of the half of the lead-in.
  - `EveryContentExact`: by induction on the events read so far, every event has gone to
    the one extrinsic or hook of its phase and none is moved again (`SanitizedInSteps`);
    what is told of one para is what would be told of its messages alone (`ToldFromOne`).
  - `EveryClaimExact`: after each round of the era loop the answer is the history of the
    eras before it, each once and in order (`Chronicle`), and a nominator has been told of
    each by the first of its validators that was exposed. Where the first validator's old
    list ends early the relay chain's handler sets the loop back, and from there every
    round repeats the last (`Stuck`, `StuckAgain`): `RewindsForEver` states it, and
    `EveryClaimExact` claims nothing of those inputs; where no list ends early the loop
    comes to its end (`NominatorEnds`).
  - `EveryOperationExact`: `findDescendants` is followed with the frontier of its stack
    (`Frontier`, `FrontierGrows`): what is popped is never pushed again, since a child lies
    deeper than its parent, so as many rounds as there are spans empty the stack
    (`WalkEnds`). A span from which the way up passes a root is then in that root's group
    (`OnTheWayUp`), and in no other (`GroupsDisjoint`), so the loop over the actions writes
    into each event at most once. That the operations of an address add up to the change of
    each balance is a sum over a set of records; `FoldOfValues` makes it one over places,
    which `Telescopes`.

`EveryAmountExact` corrected the model: an earlier bound of the rounding in
`PayoutShares`, one unit for each exposure, held on the checked inputs and is false for
large amounts, because the share of a stake is itself rounded to one part in `Accuracy`
before it is multiplied. The bound stated now holds for all amounts.

Only model-checked: the liveness properties and the fairness part of
`ImplementsFifoPool`, which need reasoning under fairness and `ENABLED`; and
`RenderingExact`, whose functions are RECURSIVE, because its data nest. The
disagreements of section 3 are counterexamples and have no theorem.

The SMT encoding of tlapm 1.4.5 has an axiom about `Len` that is too strong: with
`Len(s) >= 0` it makes the domain of every function an interval from 1, so an obligation
that mentions `Len` beside a function on `0..n` may be proved from a contradiction. The
proofs here do not lean on it: each obligation that the SMT solver proved was also proved
with the axiom cut down to its sound half, that `DOMAIN s = 1..n` implies `Len(s) = n`,
which is the definition of `Len`. Some steps are finer than tlapm alone would need.

## 5. Observed, without a run

Met while translating, and visible in the definitions or left out of them. For most of
these the repository has no sentence that says what is meant; the others concern code
that no property is about. What contradicts a sentence and is checked is in section 3.

* *Fees.* The block that enacts an upgrade is probed in its parent's runtime and its own
  version is registered as one without `queryFeeDetails` (`BlocksService.ts:435`): all
  blocks of that version get `preDispatch` fees until a restart. `minCalcFeeRuntime` of
  the Asset Hub also applies to `/rc` blocks. Decoding XCM messages may throw between the start
  of the fee tasks and the `await` on them (`BlocksService.ts:224`).
* *Blocks.* With
  `useRcBlock` the finalized tag of an Asset Hub block depends on the form of the relay
  identifier (`BlocksController.ts:390`). Spec versions are compared as strings
  (`BlocksService.ts:664`). In traces, secondary events lose their phase
  (`Trace.ts:347`).
* *Staking.* The ledger cache is never hit, contrary to what the code that fills it
  intends (`AccountsStakingPayoutsService.ts:522`); a later page of a validator replaces an earlier
  one, and a nominator on the earlier page is silently passed over (`:782`); `calc_payout`
  is handed parts of a `Perbill` (`:648`), and its pinned version differs from the one
  in the tree. The progress of a historic block reads validators and skipped epochs
  at the relay chain's head (`PalletsStakingProgressService.ts:71`).
* *Startup.* Two calls for one URL both register an instance
  (`apiRegistry/index.ts:44`). With injected controllers and no relay chain the
  constructors of the `/rc` controllers throw, and the start fails.
* *Coretime.* The phase `renewals` is always overwritten by `priceDiscovery`
  (`CoretimeService.ts:230`); a core without items in the workload fails the
  whole answer (`:524`); the price of a core throws without a sale (`:330`); leases
  are matched by a substring, and only the first item of a workload is looked at.
* *Metadata.* Dispatchables are read at the head's runtime and found by an index that
  may have gaps; storage items are matched without regard to case and then queried by
  the exact text; versions of the metadata are checked at the head and fetched at the
  block.
* *Accounts.* Two balance branches ignore the requested token; the transferable amount
  of another token uses the native token's locks; a token the chain does not list is
  denominated with the point before its digits; two Ethereum addresses always compare
  as equal; a failing read of the locks is answered as not locked
  (`AccountsBalanceInfoService.ts:278`).
* *Assets.* Assets, pools and foreign assets are read at the head and answered as of
  `at`.
* *Requests.* A missing `tx` is 500 on two routes and
  400 on the third; the dry run executes at the head while it answers `at`; an empty
  `?at=` answers genesis; the boolean guard accepts `TRUE`, the handlers compare with
  `true`; depth errors of para inclusions are answered 200.
* *Rendering.* Map keys that are spelt alike overwrite each other; a map rendered without
  the registry keeps its numbers; calls inside options, nested lists or opaque
  arguments of another name are not named.

## 6. Not modelled

What is left has no state, no interleaving and no computation, or is not the service's
own:

* The bodies of the 74 controllers beyond what they share. Each reads query
  parameters, resolves `at` (`Requests`) or a relay block (`RcBlock`), calls one
  service and sends the result (`Rendering`). The `/rc` controllers repeat the others
  with the relay chain's connection; what they share with the main chain is in
  `Startup` and `FeeSupport`. Header routes are `BlockEndpoint` without a body.
* Services that hand on what one storage read returns: proxies, approvals, nomination
  pools, asset conversion, referenda, transaction material, runtime code and version,
  contracts, node information, raw blocks; the parts of staking info, coretime and
  paras that list decoded storage; address conversion.
* Options that only choose what is told (`eventDocs`, `noFees`, ...) are more fields of
  the same cache key.
* The boolean guard and the routing of Express; HTTP itself; metrics and logging.
* Eras of Kusama from before era storage, whose blocks are looked up in a table, and
  ledgers that list claimed eras themselves (in `StakingPayouts`; `StakingClaims` has
  them).
* The composition of `RcBlock` with `BlockEndpoint`: what a route computes at an Asset
  Hub block. It has two new interactions: the one of the finalized tag above, and that
  the `useRcBlock` branches of the block routes store Asset Hub blocks in the shared
  `blockStore` (`BlocksController.ts:264`, `:449`), under the hash of the Asset Hub block and the
  same options as the plain routes, so that each may answer what the other has stored.
* Per-chain lists of controllers and bad blocks, type definitions, test helpers, the
  documentation's web pages, build scripts and vendored code. They make up the larger
  part of the tree; the map therefore covers about a seventh of its lines, and
  most of the rest is of this kind or one of the forms above.
