# A TLA+ development of dex-knight

dex-knight is a local playground for backrunning DEX swaps: a C++ bot
(`src/knight`), a block builder with a public mempool (`src/builder`, Python,
one asyncio loop in front of an Anvil node) and the sandbox contracts both work
on (`src/blockchain`). This directory models the parts whose correctness depends
on order, concurrency and failure, model-checks them with TLC on small instances
and proves the central safety properties with TLAPS for all instances.

## 1. The system

| part | state | operations | talks to |
| --- | --- | --- | --- |
| block builder: mempool (`mempool.py`) | records with status and sequence number, last number | add, mark mined, pending snapshot | called by the handlers |
| block builder: broadcaster (`ws.py`) | set of subscribers | connect, disconnect, broadcast | pushes to the bot's websocket |
| block builder: bundles (`bundle.py`, `app.py`) | none of its own | simulate (snapshot, execute, revert), mine (execute, mark mined) | Anvil by RPC |
| `BlockSyncer` | worker thread, last published block | poll `/chain/head`, publish new numbers | callback into `CandidateSource` |
| `PendingFeed` / `WsSource` | connection state, reconnect counter | open, close, message, error, reconnect | callback into `CandidateSource` on the network thread |
| `CandidateSource` | bounded event queue, `m_closed`, `m_invalid_snapshot_pending` | run, the two event handlers, `wait_pop_state`, stop | REST calls to the builder; owned by `Runtime` |
| `State` / `LocalMempool` | block number, validity, pool reserves, candidates by sequence number | apply snapshot, apply pending, mark invalid, pop | guarded by its own mutex |
| `Runtime` | running flag | take a snapshot, price it, compose, simulate, submit | `CandidateSource`, `Simulator`, `TxComposer` |
| `TxComposer` | next nonce of the bot | initialise, compose, mark used | REST at startup only |
| REST clients | none | three attempts with back-off | the builder |
| arbitrage calculator | none | best two-pool trade after the candidate | pure |
| `Worker`, `SignalListener`, `main` | threads | start, stop, join | everything |

What makes it hard: five threads of the bot and an independent builder share the
candidate state through a queue, a condition variable and a websocket. One view
of the world is put together from several requests while the chain moves, the
same transaction reaches the bot on two paths (a snapshot over REST, a message
on the socket), the queue drops events when it is full, and requests,
connections, the builder and the chain can fail or restart at any point.

What each part must guarantee:

* *State*: one coherent view or none; no return to an older view.
* *CandidateSource*: a snapshot never mixes blocks; an invalidation is reported;
  no wakeup is lost; the loop ends only on close or once `stop()` has begun;
  snapshot and stream together lose nothing and hand nothing out twice for a block; it catches up with the
  chain.
* *Bundle flow*: a bundle is mined at most once and only on the block it was
  priced for; the bot's nonce stays in step with the chain.
* *REST call*: a submission takes effect at most once, and what the call returned
  stays true whatever the attempts it left behind do later.
* *WsSource*: one chain of operations on the socket, always a reader while it is
  open, and a reconnect after a loss until the attempts are used up.
* *Lifecycle*: a signal or a failed start ends the process with every thread
  joined, whatever it was doing.
* *Contracts*: pools hold what they account for, no trade lowers the product of
  the reserves, the backrun contract leaves nothing behind.
* *Arbitrage*: predicted amounts are what the contracts pay, and the amount
  traded is the best one up to rounding.

## 2. The modules

| module | contents |
| --- | --- |
| `Common` | the bounds and the types shared by all: `Block`, `Tx` |
| `CandidateState` | `State` and `LocalMempool`; also a specification of its own, under every sequence of calls |
| `Builder` | the builder as the bot sees it: head, mempool, broadcaster, websocket, faults |
| `CandidatePipeline` | composes both with `BlockSyncer`, `PendingFeed`, the queue, the worker, `stop` and the Runtime's calls |
| `BundleFlow` | what happens to a candidate: compose, simulate, submit, with retries, the builder's bundle handlers and the node |
| `RestCall` | one call of the REST client: attempts, connections, and the requests it leaves behind |
| `BundleSubmission` | the abstract specification: what one call promises |
| `WsSource` | `PendingFeed` and `WsSource` on the completions Boost.Asio delivers |
| `PendingStream` | the abstract specification: the stream the rest of the bot assumes |
| `Lifecycle` | `main`, `SignalListener`, `Runtime::run` and `stop`, and the start and stop of every thread |
| `SandboxDex` | the contracts: tokens, pools, backrun contract, as operators on a chain |
| `Arbitrage` | the calculator as operators, and transactions and bundles on the chain it is asked about |
| `MCBundleFlow` | the swaps and senders of the runs of `BundleFlow` |
| `MCArbitrage` | the pools and balances the runs of `Arbitrage` start from |
| `CandidateFeed` | the abstract specification: what `wait_pop_state` promises |
| `CandidateStateProofs`, `CandidatePipelineProofs`, `BundleFlowProofs`, `RestCallProofs`, `WsSourceProofs`, `LifecycleProofs` | theorems and proofs about the module of that name |
| `ArbitrageProofs` | sums of balances, the contracts' arithmetic, and what no transaction breaks |
| `PredictionProofs` | the square root, the amount chosen, the calculator against the contracts, and what a backrun does |

### Correspondence with the code

A transaction is `[epoch, seq]`: its sequence number and the life of the builder
that assigned it (the code keeps only the number; the epoch lets the model tell
transactions of two lives apart). Pool reserves are represented by the block
they were read at. The content of a transaction matters only to the filter,
which is the set `Relevant`.

`CandidateState` has one action per mutating method. `State::m_mutex` is held
throughout each, so each is a step. A refused call changes nothing.

`Builder`. The handlers are `async def` without an `await` around the blocking
RPC calls, so a handler is a step up to its next `await`. Two awaits are kept:
the send in `broadcast` (`SubmitPublicTx` then `Broadcast`) and the accept in
`connect` (`AcceptWebsocket` then `AddSubscriber`). `MineBlock(S)` is a bundle
mined by anyone, and the records it resolves. `DropWebsocket`, `RestartBuilder`
and `RewindChain` are the failures; `RewindChain` (Anvil restarted on an older
chain) is outside the repository.

`CandidatePipeline` has these threads:

* syncer: `SyncerFetch`, `SyncerPublish`, `SyncerFail`. A number is published
  in a separate step, since `stop()` may be waiting for the thread meanwhile.
  A failed poll and a poll that finds the same number are stuttering steps.
* network: `FeedReceive` (parse, callback, `try_push`).
* worker: `StartSyncer`, `OpenFeed`, `EnterLoop`, `StartupFail` for
  `CandidateSource::run`; `TakeEvent`, `LeaveLoop` for the loop;
  `HandlePendingTx` for one handler, and `ReadPool` per pool, `ReadPending`,
  `FinishNewBlock` or `RequestFail` for the other: every request is a step of
  its own, and everything after the last request is one, because
  `m_state_wait_mutex` is held.
* Runtime: `RuntimeWait`, `RuntimeClosed`, `RuntimeTakeInvalid`,
  `RuntimeTakeCandidate`, `RuntimeDone`. The last one is the test of `m_running`
  at the head of the loop.
* whoever calls `Runtime::stop()`: `StopRunning` (`m_running` is cleared; the
  Runtime may leave its loop from here on, although the source is still open),
  then `StopFirst`, `StopQueue`, `StopWaiters` for `CandidateSource::stop`, in the
  order of the calls, with every interleaving in between. The two calls of
  `stop_inputs` are one step (`StopInputs`). What happens between them, a syncer
  that still publishes while the stream is silent, is also what a lost connection
  (`DropWebsocket`) leads to.

`Notify` is the condition variable: it moves a blocked Runtime back to the test
of its condition. A change of state and its notification are one step although
the code notifies after unlocking: only the notified thread could tell the
difference, and it is either asleep until then or tests the condition itself.

`lost`, `delivered` and `dropped_block` are history variables: which messages
the feed or the full queue dropped, what the Runtime was given, and which block
event was refused.

## 3. The runs

| run | instance | shows |
| --- | --- | --- |
| `candidate_state` | 3 blocks, 3 sequence numbers, 2 builder lives, 2 pools | `StateTypeOK`, `CoherentState`, `NeverRegresses` under every sequence of calls |
| `pipeline_safety` | 2 blocks, 2 transactions, 2 pools, 1 fault, queue of 2 | `TypeOK`, `CoherentView`, `InvalidationReported`, `NoLostWakeup`, `EndsOnlyWhenStopped`, `NoSilentLoss`, and that the pipeline implements `CandidateFeed` |
| `pipeline_rewind` | 2 blocks, 1 transaction per life, 2 lives, 1 rewind, 1 fault, queue of 1 | `ViewsNeverRegress` |
| `bundle_safety` | 2 swaps of one sender with consecutive nonces, height 2, 2 attempts, 2 faults | `NonceInStep`, `MinedAsSimulated`, `RecordsMatchChain` (section 5) |
| `bundle_liveness` | swaps of 2 senders, one behind a gap of nonces, height 1, 3 attempts, 2 faults, fair | `EveryCandidateFinishes` |
| `rest_call` | TLS, 3 attempts, any number of restarts, fair | `TypeOK`, `AnswersAreFinal`, `ImplementsSubmission`, `EveryCallReturns` (section 6) |
| `ws_source` | TLS, 3 reconnect attempts, 2 faults, 1 call of `reopen` | `ReaderPresent`, `OneChain`, `FeedMirrorsSource`, and that it implements `PendingStream` (section 7) |
| `ws_reconnect` | no TLS, 2 attempts, 4 faults, fair | `GivesUpAfterMaxAttempts`, `Reconnects` |
| `lifecycle` | 2 signals, fair | `TerminatesOnlyIfStoppedInRun`, `NoUserAtDestruction`, `SignalIgnoredOnlyBeforeRun`, `SignalEndsProcess`, `FailedStartEndsProcess` (section 8) |
| `arbitrage` | 3 pools, words of 9 bits, fee 7/8, 3 transactions | `Solvent`, `SupplyConserved`, `ProductNeverFalls`, `NothingLeftBehind`, `PredictionExact`, `PredictionExecutes`, `SqrtExact` (section 9) |
| `arbitrage_wide` | 3 pools, words of 20 bits, fee 3/4, amounts up to 40, 2 transactions | `NearOptimal` |
| `pipeline_liveness` | 2 blocks, 2 transactions of which one is irrelevant, 2 faults, queue of 1, fair | `EventuallyCurrent`, `EventuallyDelivered` |

Why the bounds are enough: two blocks make every stale answer possible (a
request made at one, applied at the other), two transactions every order of a
snapshot against a message and against another message, two pools a head that
moves between two reads, one fault each kind of failure at every point; a queue
smaller than the number of events fills up, and one of the same size as the
number of transactions both fills and does not. The proofs of section 4 remove
the bounds for every safety property. The bounds of the other modules
are discussed in their sections.

What the properties leave out on purpose, because the code does not provide it:

* A swap broadcast while the socket is down, or after it was accepted but before
  it is in `_subscribers`, or when the queue is full, is not repeated. It is
  missing until the snapshot of the next block. `NoSilentLoss` and
  `EventuallyDelivered` except exactly those (`lost`).
* A new-block event refused by a full queue is not repeated, since the syncer
  has already recorded the number (`block_syncer.cpp:112`). The state stays at
  the previous block until the head moves again; `EventuallyCurrent` excepts
  exactly that block (`dropped_block`).
* After a builder restart sequence numbers begin at 1. A snapshot of the new
  life is refused while the state is valid and has a higher number, so the state
  stays at its old block until the numbers catch up or a request fails.
  `pipeline_rewind` therefore claims what still holds (no regress) and not that
  the state becomes current. `NoSilentLoss` and the liveness properties are about
  the builder's first life; the refinement `ImplementsFeed` is checked without
  restarts and proved with them, for a chain that is not rewound.

Deadlock is checked in the pipeline, lifecycle and REST call runs. `Idle` is the state in which the worker waits for an event
(or has ended) and the Runtime waits for a state (or has ended), which is rest
and not deadlock.

### Fairness

`FairSpec` assumes weak fairness of each thread (the operating system schedules
it: syncer, network thread, worker, Runtime), of the builder's event loop
resuming a suspended broadcast, and of a handshake that is under way. The last
one holds in the code as long as a reconnect succeeds within ten attempts,
after which `WsSource` gives up; the model has fewer faults than that. Nothing
makes anyone submit, mine or fail. In the pipeline nobody calls `stop()` either:
what holds after it is the subject of `Lifecycle`, and both properties are about
a bot that runs. Each thread's
fairness is on the whole thread, not on single actions: with at most one
request outstanding per thread there is nothing to choose but failure, which
the fault budget bounds.

## 4. The proofs

All are for every value of the constants, under the assumptions named in the
modules: bounds are natural numbers, there is a pool, the queue has a capacity.

`CandidateStateProofs`: `StateTypeCorrect`, `StateCoherent` (inductive given the
types) and `StateNeverRegresses`.

`CandidatePipelineProofs`: type correctness is not inductive alone. That the
local mempool holds one candidate per sequence number needs that a snapshot
names each number once, which needs that all pending records are of the current
life of the builder (`OneTxPerSeq`). `TypeInv` adds this, and it is proved by
one lemma per group of variables (`BuilderTypeStep`, `StateTypeStep`,
`SyncerTypeStep`, `WorkerTypeStep`, `RuntimeTypeStep`).

The safety properties follow from `IInv == TypeInv /\ HandlerInv /\ ViewInv`:

* `HandlerInv`: what the worker has read so far was read for the block of the
  event it is handling, and the mempool is read after all pools. Without it a
  snapshot applied at the end of the handler could mix blocks, and `CoherentView`
  would not be inductive.
* `ViewInv`: the properties `CoherentView`, `InvalidationReported`,
  `NoLostWakeup` and `EndsOnlyWhenStopped` together with `taken.block <=
  block_number`, which gives `ViewsNeverRegress`. They support each other:
  `EndsOnlyWhenStopped` needs that an invalid state has no candidates, the second
  half of `InvalidationReported` that the flag falls when a snapshot is applied.

The theorems `CoherentViewHolds`, `InvalidationReportedHolds`,
`NoLostWakeupHolds`, `EndsOnlyWhenStoppedHolds` and `ViewsNeverRegressHolds`
conclude.

`RestCallProofs`: `IInv == TypeOK /\ PhaseInv /\ AnswersAreFinal`. `PhaseInv`
ties the phase of the calling thread to the answer of its current attempt (in
phase `ok` that attempt was answered 200) and says that no result is there before
the end. Without it nothing links the result to an answer, and `AnswersAreFinal`
is not inductive. `AnswersFinal` and the refinement `SubmissionRefined` follow:
every step maps to a step or a stutter of `BundleSubmission`, and the only step
for which that takes an argument is a submission served after the call returned,
where `AnswersAreFinal` excludes every result but `REQUEST_ERROR`.

`NoSilentLossInFirstLife` rests on `GapInv`. `ReadComplete` says that a mempool
answer in the worker's hands still covers what is pending: what it does not hold
is on its way, *with a number above the answer's*. `StateComplete` says the same
of a valid state, so that `apply_pending_tx` will not refuse what is still to
come. `NoSilentLoss` alone has no numbers in it and is not inductive. The
hypothesis `epoch = 0` is the code's limit and not the proof's: after a restart
numbers begin at 1 and a new transaction is taken for a covered one.

`PipelineImplementsFeed` rests on `FeedInv`: block events ascend from the state's
block to the syncer's (`BlockOrder`), a transaction travels once and is in one
place (`TravelInv`), and what is on its way although the state had it already is
covered by the snapshot's number (`FreshInv`), which is why nothing is handed out
twice for a block. The theorem assumes that the chain is never rewound; restarts
of the builder are allowed.

`BundleFlowProofs`: `FlowInv`, whose parts are in the module's header. Requests
are served one after the other, so what an abandoned attempt left is over before
the next simulation is taken (`Protocol`, `Order`). The chain clients see (`Perm`,
without a simulation's block) changes only when a bundle is mined, so a submission
whose block is still the head runs on the chain its simulation ran on. The node's
pool holds what the running handler has sent and, besides, only swaps of
`stranded` (`PoolHolds`). From this follow the company a backrun can have in its
block (`MinedGood`) and that no block mines a swap by the way unless it is
stranded (`RecordsTrue`). When nothing is stranded (`Clean`), the submission's
pool is that of the simulation (`Priced`, `Simulated`), whose victim was not yet
on the chain (`Fresh`), hence the block is the same too. The node takes one
transaction of the bot per nonce, so a bundle mined before its answer was lost is
never mined again (`Nonces`, `Frozen`). `NonceKeptInStep`,
`BackrunsMinedAsSimulated` and `RecordsTellTheTruth` follow, each under the faults
its property names, for any set of swaps with any senders and nonces. Of the node
the argument needs that the same pool on the same chain makes the same block
(`executed` in `Mine`), and nothing about the order within a block.

`WsSourceProofs`: three invariants. `Good` holds whatever is called when, and gives
`RunningReads` and `FeedFollowsSource`. `FirstLife` holds until a `stop()` or
`restart()` takes effect: the source then has exactly one token, an operation in
flight, its handler, the timer, or the timer's handler, and its state says which;
it drops the token only after more failures than attempts. This gives
`GivesUpOnlyThen` and the refinement `SourceImplementsStream`.

`ChainInv` is about what comes after: handlers of a connection that is gone are
still queued while a reconnect is on its way, and `OneChain` alone says nothing of
them. Call a handler one that continues if it reports success of a step of the
chain, and one that resets if it reports anything else. The parts:

* `OneContinues`: of the operations in flight and the handlers that continue there
  is at most one.
* `TimerRests`: the timer runs only when there is none.
* `ResetsSafely`: whoever will still reset the stream meets no resolve, in flight or
  finished, which is the one step a reset does not abort.
* `TimersLast`: a timer's handler either has only timers behind it and nothing else
  goes on, so that it starts the one chain; or it stands behind timers only and the
  source is already STARTING, so that it does nothing. This is where the order of
  `ready` matters.
* `SocketGone`: a handler of a connect whose socket was destroyed finds no socket
  open.
* `Alone`: until one of the threads has closed the source there is one token at
  most. It is what the close finds, and from it the other parts follow then
  (`AloneSettles`).

A close by both threads, a `reopen()` and a stray connect are excused, and once
there they stay (`ExcusedStays`), so the invariant needs nothing from them.
`ChainStep` has one case per action; the handlers are in `ChainHandled`, by what
they do to the stream. `ChainsNeverMeet` follows.

`LifecycleProofs`: `LifecycleInv` is about who owns a join. `Worker::stop` clears
the running flag before it joins, so a thread that is joinable and told to stop
has a caller on its way to join it (`WorkerOwned`, `SyncerOwned`); `StopPhase`
says how far the one effective `Runtime::stop` is, `MainPhase` what `main` can
rely on at each of its calls. `TerminatesOnlyInRace`, `DestroyedUnused` and
`SignalsHeeded` follow, for any number of signals.

`ArbitrageProofs`: `Fair(ch, after)` says that after a call every pool is backed
if it was before, the balances still add up to the supplies, and no product of
reserves has fallen. Each contract call is Fair (a lemma each), Fair composes, so
a backrun of two approvals and two swaps is. One half is `AmountOutKeepsProduct`:
from `out * (ra * d + x * n) <= x * n * rb` and `n <= d` follows
`out * (ra + x) <= x * rb`, so the product `(ra + x) * (rb - out)` is at least
`ra * rb`. The other half is about sums: `SumFollows` and `MovedTotal` say what a
change of one or two balances does to the total, and `SumBounds` that no balance
exceeds it, which is why an addition in `_transfer` never overflows.
`PoolsSolvent`, `SuppliesConserved` and `ProductsNeverFall` hold for any number of
pools, any fee, any width and any transactions.

`PredictionProofs`: `AmountOutExact` shows that the calculator's `amount_out`,
whose words wrap, equals `getAmountOut` wherever the latter does not revert.
`VictimApplied` carries this to the victim's swap, `FindArbitragePredicts` to what
`find_arbitrage` returns (always the two pools as they are behind that swap),
and `BackrunEffect` shows what the contract does. From these:

* `PredictionsExact`, for every width of a word, 256 included. The proof does not
  depend on which amount is chosen.
* `PredictionsExecute`: `SwapExecutes` and `BackrunExecutes` list what a call needs
  (balance, allowance, `HasAmountOut`, minimal output); `apply_bps` never asks for
  more than the quote, and the contract's own balances suffice because the pools
  are solvent.
* `BackrunLeavesNothingBehind`: each approval is spent in full by the swap behind
  it, or the call reverts.
* `SqrtsExact`: the loop of `integer_sqrt` keeps, after `i` of its iterations,
  `SqrtInv`: the bits found so far are the root's leading bits and `rest` is what
  is left of the value. The hypothesis `WideEnough` says that the word the loop
  works on holds every `C * D`; the code's 2048 bits do, for words of 256 and a
  fee in thousandths. (The words of the two `arbitrage` runs are narrower than that;
  there TLC checks the arguments that occur.)
* `ChoiceNearOptimal`, without real numbers. `RouteOnCurve`: where nothing
  overflows, a route with input `x` pays at most `C*x/(D + E*x)`, and less than
  `2 + unitA` below it. For two inputs `x` and `xh` with points `y = D + E*x`
  and `h = D + E*xh` the curve's gain of one over the other, times `y*h`, is
  `(x - xh) * (C*D - y*h)`. `LossWithinUnit` bounds this by `y*h` (one unit) from
  `h*h <= C*D`, and from `C*D < (h + E)^2` where `x` is the larger; `ChosenPoint`
  obtains both from the exact root and the rounding of the division by `E`, or
  the cap. `EarnsLittleMore` adds the two up. `EarnsNextToNothing` is the case
  without an amount. The bound of the property is thus the sum of the three
  roundings. Hypothesis `WideEnough`, as for the root.

What a recursive function or a fold computes is proved by induction in one form
only: the counterexamples, if any, have a least one (`LeastElement`, from
`WFMin` and the well-foundedness of `<`), and the step contradicts it. `LoopExists`
and `SumExists` obtain the function itself in the same way, and
`LoopDefined` and `TotalIsSum` identify it with the definition.

The assumptions are those named in the modules: addresses differ, the fee is
between 0 and 1, bounds are natural numbers, the list of pools is a sequence
without repetition, and the chains to start from are typed, backed, conserved
and without an allowance of the backrun contract, as they are once the contracts
are deployed. `WordPositive` and `Exponents` state what the prover does not know
of `^`: `2 ^ Width` is positive, and the two equations that define powers of 2
and 4. TLC evaluates all of them.

Only model-checked: the liveness properties (`EventuallyCurrent`,
`EventuallyDelivered`, `EveryCandidateFinishes`, `EveryCallReturns`, `Reconnects`,
`SignalEndsProcess`, `FailedStartEndsProcess`), which are out of the prover's
reach, as fairness is. Every invariant, action property and refinement the runs
check is also a theorem, under the hypotheses named above.

## 5. The bundle flow

`BundleFlow` starts where a `StateSnapshot` with a candidate that pays has been
priced. `Compose(v, n)` takes any victim and any block a view may have had,
which is what `CandidateFeed` allows, so the two models meet at that interface.

* Bot: `Compose`, then `Retry`, `Drop`, `Submit` or `Submitted` on each answer.
  All answers other than 200 and 409 are the same to `post_with_retry`.
* Builder: a handler goes through the stages admit, head, snapshot, send, mine,
  receipts, revert, one RPC at a time. Other handlers wait, because the RPC
  client blocks the event loop; the requests of a client that has gone stay in
  line (`live` is FALSE).
* A swap is `<<sender, nonce>>`: the record's transaction is sent as it is, and
  the scenarios put several swaps of one sender with consecutive nonces into the
  mempool (`scenario_support.py:283`).
* Node (external): automine off, transactions wait in the node's pool. A nonce of
  the sender that is used or taken is refused (`NodeAccepts`); one behind a gap is
  taken, but not ready (`Ready`). `evm_mine` runs what is ready (`Runs`) and keeps
  the rest (`Stays`); `evm_revert` restores the chain and not the pool. The order
  within a block is Anvil's own (by fees, then by arrival; `deploy-local.zsh` does
  not ask for another), so a block is a set, each transaction may succeed or
  fail, and only the same pool on the same chain gives the same block again.
* Others: another client's bundle is mined (`OtherBundle`), simulated
  (`OtherSimulation`) or refused by the node half way (`OtherRefused`). It may
  refer to any pending swaps. Private transactions of the senders of those swaps
  are not modelled.
* `stranded` is a history variable: the swaps that a request left in the node's
  pool, because they were not ready when it mined or because the item after them
  was refused.
* Faults: `LoseRequest`, `LoseClient`, `RpcFail` (before or after the call took
  effect), `RestartBuilder`, `RestartNode`. `troubles` remembers which faults
  had consequences, so that each property can say under which it holds.

What is shown: the nonce the composer counts is never ahead of the chain and at
most one behind (`NonceInStep`). A backrun is on the chain only in the block it
was priced for, in no company but its victim's and that of stranded swaps, and
exactly as simulated if there never was any (`MinedAsSimulated`); this rests on the
block test of `mineBundle`. Every swap that was not stranded has the right record
between requests (`RecordsMatchChain`). And no candidate holds up the loop
(`EveryCandidateFinishes`, under weak fairness of the builder's loop and of the
Runtime thread, both of which only need to be scheduled).

Bounds: in the safety run the two swaps are of one sender, so that one is ready
and the other is not, each is simulated before and after the other, and both
strand; two blocks let a stranded swap be mined by one and a backrun by the other.
In the liveness run the senders differ and one swap never becomes ready. The
proofs cover every set of swaps. Two attempts instead of three suffice for safety:
the second already meets everything the first one can have left; the liveness run
uses the code's three. Two faults allow a lost answer followed by any other
failure.

What does not hold, and why the properties have their conditions:

* Simulating a swap whose sender has an earlier one pending takes no failure to
  go wrong: it is sent, is not ready, and is not mined; the simulation fails, and
  `evm_revert` does not take it out of the node's pool. Once the earlier one is
  mined, the same or a later block contains it too, while its record stays pending
  (or says "missing", after a bundle with it was mined). A backrun may then share
  its block with it, and end otherwise than it was simulated. Until it is mined
  the node also refuses every further bundle with it, its nonce being taken.
* When the answer to a mined bundle is lost, the retry gets 409 and the Runtime
  drops the candidate without `mark_nonce_used`. The nonce is then one behind
  for good (it is read from the chain at startup only), and the node refuses
  every later backrun. Each simulation now sends the victim's transaction before
  the backrun is refused, and so strands it.
* A failed RPC leaves whatever had been sent in the node's pool, the backrun
  included, and a failed `evm_revert` leaves the simulation's block on the chain.
  `MinedAsSimulated` and `RecordsMatchChain` therefore except RPC failures, and
  restarts, after which the records or the chain are gone.

## 6. The REST call

`RestCall` takes one call of `builder::RestClient` apart. Each attempt is a new
connection; its steps (`Resolve`, `Connect`, `Handshake`, `Write`, `Read`) can
fail one by one. A failing write may have sent the request, and a failing read
leaves a request that the builder serves whenever its loop gets to it, so
requests of several attempts, and of a call that has returned, are served in any
order. `RestartBuilder` and `OtherBundle` happen at any time, without a bound.

What is shown: of all those attempts at most one takes effect, a success means it
has, and after a success or `CANDIDATE_NOT_PENDING` no attempt left behind
changes that. What the code cannot promise, and the abstract specification
therefore leaves open: `REQUEST_ERROR` says nothing (the bundle may already be
mined, or be mined later by an attempt left behind), and `CANDIDATE_NOT_PENDING`
can be due to the call's own earlier attempt. `BundleFlow` shows what follows for
the nonce.

`FairSpec` assumes that the thread runs, that a connection to a builder that is
gone breaks, and that the builder serves every request. The last is needed:
`network::RestClient` sets no timeout, so a builder that accepts and stays mute
blocks the call, and with it the thread, for ever.

## 7. The websocket source

`WsSource` models the source as Boost.Asio runs it: `live` operations, which
complete or fail (`CompleteOk`, `CompleteError`) and become handlers in the queue
`ready`, which the one network thread runs in order (`RunHandler`, one action per
handler). `open`, `close` and `reopen` come from the worker and from whoever calls
`stop`, in between. Asio and Beast are external and modelled by their contract:
cancelling or closing aborts what is live, destroying a stream leaves queued
handlers to run, one read and one handshake at a time. Resetting a stream under a
connect is undefined and modelled as a choice of outcomes. `DoClose` takes the
`is_open` test of the stopping thread and the `async_close` behind it as one step.

Bounds: in `ws_source` three attempts (the code has ten) let a reconnect of a
chain that a late handler started overtake another; with two, the source gives up
before that can happen. Two faults suffice for it. In `ws_reconnect` two attempts
distinguish the first, a further and the last one, and four faults reach the limit
after a loss and a successful handshake that reset the count. `reopen`, which has
no caller in the bot, may be called once. Deadlock is not checked: a source that has given up, or been stopped,
rests.

Fairness: the network thread runs what is queued, the timer expires, an
operation other than a read ends (Beast's timeouts bound the handshakes, the
kernel a connect), the worker goes on. Nothing makes a read complete.

What does not hold, and why the properties have their conditions:

* `stop()` is not final. It cancels the timer and closes the socket, but the
  handler that then runs with an error calls `fail()`, which reports FAILED and
  schedules a reconnect: the source comes back to life until the io context is
  stopped, which `Runtime::stop` does last. `PendingStream` therefore promises
  nothing once `close()` has begun, and `CandidatePipeline` counts on nothing.
* Two chains of operations on one stream take a close from both threads,
  `reopen()`, or a connect that had completed when a reset destroyed its socket
  and whose handler nevertheless reports success, so that a handshake is started
  on a socket that is not open (history field `stray`; with fewer than three
  attempts it does not come to a second chain). `OneChain` says that nothing else
  leads there, and `ChainsNeverMeet` proves it for any number of attempts and
  faults.
* `close()` while the first handshake is under way finds the feed CLOSED and does
  nothing, and the connection comes up afterwards. `FeedMirrorsSource` says that
  a connection which has been up is never skipped.

## 8. The lifecycle

`Lifecycle` has the main thread, the listener, the worker, the syncer and the
network thread, each with a program counter over the calls that matter to the
others: creating and joining threads, the atomic flags, the waits. `Stopping(t)`
is `Runtime::stop` in whichever thread gets there first. What the threads do in
their loops is left to the other modules; here they only end, as the flags demand
or because they failed. Two signals cover one that arrives while another is
handled.

What is shown: a signal that finds the bot running ends the process, and so does
a start that fails (`SignalEndsProcess`, `FailedStartEndsProcess`); the candidate
source is destroyed when nobody uses it. Fairness is that of the scheduler, and
that requests, timed waits and polls end (see section 6 for what that means).

What does not hold, and why the properties have their conditions:

* A signal taken before `run()` has set `m_running` is swallowed: `stop()` returns
  at once and the listener thread ends; later signals stay blocked and pending.
* A signal whose `stop()` runs to its end between `m_running = true` and the
  assignment of `m_io_thread` leaves a thread that nobody joins: its destructor
  calls `std::terminate`. `TerminatesOnlyIfStoppedInRun` says that this is the
  only way to get there.
* A second signal during shutdown stays pending and ends the process when
  `SignalListener::stop` restores the mask.

## 9. Contracts and calculator

A chain is a record of reserves, supplies, balances and allowances, and a
contract call an operator that gives the chain after it, or the same chain if it
reverts. The contracts' arithmetic reverts when a result does not fit a word; the
calculator's (`intx`) wraps, except in the curve and the square root, which the
code computes in words wide enough. `integer_sqrt` is `SqrtLoop`, the values its
two variables have after each iteration of its loop (`SqrtStep`). `Width` is 256 in the EVM. The fee is
997/1000 in the code; other fractions keep the numbers small.

`Arbitrage` lets the trader swap, alone or followed by the bot's backrun, seed,
transfer, mint and approve, and the operator withdraw. On every chain reached, the
properties ask the calculator about every swap the trader could send and execute
what it answers. There is one pair of tokens, so `executeBackrun`'s requirement that
both pools trade the same tokens (`SandboxBackrun.sol:59`) always holds and is left
out.

Bounds: in nine bits products of the larger amounts overflow and those of the
smaller do not, so that reverts, wraps, capped amounts, victims that fail and
profitable bundles all occur; three transactions allow any two to change the
chain before a bundle. The wide run has prices far apart and no overflow, so that
optimal amounts are large enough for rounding to matter; `NearOptimal` tries all
amounts.

What the properties say with care: a bundle may revert although an opportunity
was found (the bot lacks tokens, a product overflows in the contract where the
calculator wrapped); `PredictionExecutes` lists exactly these reasons. The amount
chosen can miss the best one by rounding: by at most two units of token b and the
price of one unit of token a; and where the calculator finds no amount, at most
`1 + E/D` was to be earned (a calculator that gives up too early is the mutant that
breaks `NearOptimal`).

## 10. Plan

Done: all the components with state or control of their own, and a theorem for
every safety property and refinement. Left:

1. The parts of the codecs that decide control: which answers of the builder count
   as malformed.
2. The liveness properties for all instances, with a prover that handles fairness.

## 11. Not modelled

ABI, hex and JSON conversion (pure, unit-tested), configuration and logging (read
once, and I/O), and the scenario scripts, which drive the system and are not part
of it. Of the contracts, constructors, views and events, and the checks of who
may call (operator, minter), which are the model's choice of caller. Other
subscribers of the builder's stream: `broadcast` sends to one after another and
awaits each, so one that stops reading holds up the message for those behind it;
the fairness of `Broadcast` in `Builder` assumes that no such client is there.
Anvil, Boost.Asio and Beast are modelled only through what the code does with them.
