# Perpilize in TLA+

A TLA+ model of Perpilize, a perpetual-futures exchange: Cosmos-SDK keepers in
Go (`src/x`), an off-chain sequencer in Go (`src/sequencer`), a matching engine
in TypeScript (`src/backend`), EVM precompiles and contracts (`src/evm`) and a
web frontend (`src/frontend`). TLC checks the model on small instances; TLAPS
proves every invariant and every action property of the passing runs, and both
refinements, for every value of the constants. Liveness is left to TLC.
`PROJECT.json` maps each definition to the lines it stands for.

## 1. The system

### Parts, their state and their operations

| Part | State it keeps | Operations | Modelled in |
|---|---|---|---|
| `x/oracle` | price and timestamp per market | `SetPrice`, `GetPrice` (zero when absent) | `Oracle` |
| `x/funding` | cumulative index per market, accumulated funding per market and address | `ApplyFunding`, `ComputeFundingRate` (clamped) | `Funding` |
| `x/position` | one position per address and market: signed size, average entry price, margin, last cumulative funding | `OpenPosition` (open, increase, reduce, flip, exact close), `ReducePosition` (dust is deleted) | `Position` |
| `x/margin` | one cross-margin account per address | `Deposit`, `Withdraw`, `DeductMargin`, `ExecuteLiquidation`, the EndBlock scanner; equity, health ratio, maintenance margin | `Margin` |
| `x/settlement` | batch id; parameters | `SettleMatchedOrders`, `ExecuteTrade` | `Settlement` |
| `x/liquidation` | none | `Liquidate` | `Liquidation` |
| store encoding | bytes of accounts and positions | hand-written `Marshal`/`Unmarshal` | `Codec` |
| `LegacyDec` (library) | – | `Mul`, `Quo`, `Abs` and their rounding | `Dec` |
| application | the keepers, the block executor | `NewApp`, messages, end of block | `Chain` |
| settlement ledger | `bal:` balance per address, fee pool and insurance fund included; `col:` | `CollectFee`, `RealizePnL`, `SettleFunding`, `ProcessLiquidationPenalty` | `Ledger` |
| sequencer | mutex, mempool | `SubmitOrder`, `BuildBlock` | `Sequencer` |
| matching engine | bids and asks per market | `match`, `processBlock` | `Matcher`, `OrderFlow` |
| trade feed (frontend) | a WebSocket, a reconnect timer | `subscribeTrades`, its handlers and its clean-up | `TradeFeed` |
| EVM precompiles | none | `Run`: selector, word codec, then `Deposit` or `ExecuteTrade` for the caller; views | `Precompiles` |
| contracts, address mapper | addresses | forwarding calls | not modelled: no state of their own |
| wallet and balance (frontend) | connected address; account equity and the requests on their way | `usePerpilizeWallet`, the balance poll of `useChain` | `Wallet`, `Balance`, `Clients` |
| trading terminal (frontend) | market prices and selection, positions, order list, loading flag and error, form fields; pending timers, promises and transactions | `useMarkets`, `usePositions`, `useOrders` (`submitOrder`, `cancelOrder`), the form | `MarketData`, `Positions`, `Orders`, `TradingTerminal`, `PriceMath` |
| portfolio page (frontend) | deposited total, amounts typed, tab, loading flag, message | `handleDeposit`, `handleWithdraw`, the account's figures | `MarginSummary`, `PortfolioMargin` |
| navigation (frontend) | view, mounted page, tab, sidebar, pending `handleEnter` calls | `App`, `LandingPage`, `ExchangeApp`, tabs of the other pages | `ExchangeApp` |
| indexer, cache, API, price feeder | in-memory maps | event stream in, JSON out | not modelled: nothing calls them (section 6) |
| genesis tool | genesis file | `add-genesis-account`, `collect-gentxs` | not modelled: one invocation, one addition |
| display, mock data, empty modules, schemas, scripts | – | – | not modelled: no state that changes |

### How they interact

* A client's deposit, withdrawal or liquidation is one message; the executor runs
  messages one at a time, and a message that returns an error or panics is rolled back.
* `SettleMatchedOrders` runs two `ExecuteTrade` legs per trade, the maker's and then
  the taker's. A leg debits the margin store (`DeductMargin`) and then writes the
  position store (`OpenPosition`).
* Every risk figure of `x/margin` is computed on demand from the position, oracle
  and funding stores; nothing is cached.
* `x/liquidation` calls back into `x/margin`, which charges the account and has
  `x/position` halve the position. The EndBlock scanner charges without that call.
* A precompile call reaches the same keepers: `executeTrade` opens one leg, without a counterparty.
* Off chain, traders' goroutines hand orders to the sequencer under a mutex; a
  block carries them to the matcher, which fills them against a book.
* The frontend's trade feed talks to a server over a WebSocket and reconnects; its header and its
  portfolio page each poll the bank for the balance of the connected address.
* The frontend's pages do not read the chain: positions and orders start as mock data. In a demo build
  (`DEMO_MODE`) every operation is a timer and then a change of local state; in a real build an order goes to the
  settlement precompile and, when that throws, again to the chain as a Cosmos message. One page is mounted at a time.
  What it awaits when it is left has no effect on any page; an order being submitted still goes on to the network.

What wires the parts together is incomplete in the repository, and the model says so
by making the missing callers part of the environment: nothing under `src/`
calls `SetPrice`, `ApplyFunding`, the `bal:` ledger, the precompiles, the sequencer's `AssignPriority`, or the frontend's
`subscribeTrades` and `subscribePrice`; `app.go` sets
no EndBlocker and registers no services; the modules' `InitGenesis` ignore their
input; the default matcher address is empty; and how a block travels from the sequencer to
the matcher is not there. The actions model what each handler does when it is called.

### What is hard, and what makes each part correct

* **Partial failure in settlement.** A later leg fails after earlier legs have written
  two stores. Correct: the batch is all or nothing, open interest balances, no
  money appears. (`SettlesAtomically`, `OpenInterestBalanced`, `BackedByDeposits`)
* **Check after write.** `Withdraw` writes first and checks health afterwards.
  Correct: no withdrawal leaves an account under its maintenance margin. (`WithdrawKeepsMargin`)
* **Signed, rounded arithmetic.** One weighted average serves every kind of trade;
  penalties are halved and cut at zero. Correct: re-pricing keeps the PnL, funding
  rounds cancel, halves add up. (`TradeKeepsPnL`, `FundingRoundBalances`, `LedgerConserves`,
  `ScanChargesTotalPenalty`)
* **Liquidation as a process.** Each partial liquidation halves a position and charges
  a penalty that lowers equity again. Correct: it ends, and never grows, flips or re-prices
  a position. (`LiquidationClears`, `OnlyTradesGrowPositions`)
* **A scanner with a working copy** that charges several positions and writes once. (`ScanInv`)
* **Concurrency in the sequencer**, and a book whose order is only arrival order.
  Correct: no size is lost or duplicated, and of two orders at one price the earlier is filled first.
  (`QuantityConserved`, `FilledInArrivalOrder`, `EveryOrderProcessed`)
* **Event-loop interleavings in the feed:** close, error, timer and clean-up in any
  order. Correct: one connection, which the closure can reach. (`OneConnection`, `FeedReconnects`)
* **Awaits in the forms.** A handler checks, awaits a wallet, a timer or a network, and then uses what it
  captured; meanwhile the user clicks, other timers fire, the wallet switches, the page is left. Correct: what was
  checked still holds when it is used, no button stays disabled, no failure is silent, and what outlives its page touches no
  other. (`TransfersAreAtomic`, `NoDeadForm`, `NoSilentFailure`, `FrontendInv`)
* **Answers out of order.** A balance request for the previous address is answered last. Correct: the
  connected address's own balance is shown in the end. (`EquityCatchesUp`)
* **The same figure computed in several places**, with a sign per side, from the wallet, the mock account and what was
  deposited. Correct: the copies agree, and a transfer moves what is shown alike. The account summary keeps
  that (`FiguresAgree`, `FiguresFollowTransfers`); the equity cards do not (section 5).

`PROJECT.json` lists each hazard at its line.

## 2. Modules

`A <- B` reads "B extends A".

    Dec <- Codec <- Oracle <- Funding <- Position <- Margin <- Settlement
        <- Liquidation <- Precompiles <- Chain <- ChainProperties <- MCChain
                                                                  <- ChainProofs
    AtomicSettlement          abstract specification, instantiated in ChainProperties
    Dec <- Ledger <- LedgerProperties <- MCLedger
                                      <- LedgerProofs
    Sequencer, Matcher <- OrderFlow <- OrderFlowProofs
    TradeFeed <- MCTradeFeed, TradeFeedProofs
    Wallet <- Balance
    TradeFeed, Balance <- Clients;   MCTradeFeed, Clients <- MCClients
    PriceMath <- MarketData;         MarketData, EventLoop <- Positions
    Positions, Wallet <- Orders <- TradingTerminal
    Balance, EventLoop, MarginSummary <- PortfolioMargin
    TradingTerminal, PortfolioMargin <- ExchangeApp <- FrontendProperties <- MCFrontend
                                                                          <- FrontendProofs
    DemoAccount               abstract specification, instantiated in FrontendProperties

    Dec <- DecProofs          decimals:  used by ChainProofs, SettlementProofs, LedgerProofs
    SumTheorems               sums:      used by SettlementProofs, LedgerProofs,
                                         OrderFlowProofs, FrontendProofs
    ChainProofs <- SettlementProofs

The keepers form a chain because each reads the stores of those before it. A store
is a function; an absent key is `NoEntry`. A decimal is the integer it is stored as, in
units of the last digit: `One` is the decimal 1.

* **Dec**: `Mul` rounds half to even; `Quo` truncates at twice the precision first, as the
  library does. `ChargeAtMost` is the cut at zero both liquidation paths make.
* **Codec**: the checked-in `Marshal` writes no bytes, so an entry reads back as a struct of nil decimals,
  `Blank`, on which arithmetic panics. A comment says that generated code replaces
  the stubs. `CodecBuild` selects the build; the proofs cover both, the
  chain runs use `"protoc"`.
* **Position**: the three disjuncts of `OpenPosition` are open, exact close (which
  deletes the position with its margin) and re-average.
* **Margin**: messages are single steps. The EndBlock scanner is a loop with a nested
  loop: `BeginScan`, then for each account `SkipAccount` or `StartExecuteLiquidation`,
  `ChargePosition` per position, `FinishExecuteLiquidation`. `scan` is its program state.
* **Settlement**: `leg` and `batch` are the program state of the loop over trades;
  `SettleMaker`, `SettleTaker`, `FinishBatch` are its steps, `RejectBatch` is the error return
  with the rollback of the message to `saved`.
* **Liquidation**: `MsgLiquidate`. `removed` is a history variable, the
  size liquidations took off each market.
* **Precompiles**: calldata is a selector, a market and a sequence of words; an unknown selector or a missing word
  is refused. `DecodeUint256` takes a word as it is, whatever its declared type; `EncodeUint256` drops the sign.
  `entered` is a history variable, the size `executeTrade` calls traded.
* **Chain**: composes them; `netDeposits` is a history variable. A single-step message
  that fails is no step. `Idle` keeps messages and scans from overlapping, as the executor does.
* **AtomicSettlement**: the abstract chain, with one step per settled batch. `Committed` maps the
  detailed stores to it: while a batch runs, outsiders see the snapshot.
* **Ledger**: the four operations over `bal:`; one address may play several roles.
* **Sequencer**: the mutex and the two goroutine bodies, with the read and the write of
  the mempool as separate steps, so that what the mutex excludes is in the model.
* **Matcher**: one step per iteration of `match`'s loop, and its end.
* **OrderFlow**: the two composed; blocks arrive once and in order (environment).
* **TradeFeed**: the socket's ready states, the handlers as event-loop callbacks, the timer. `Wanted` is the filter of `subscribePrice`.
  Who subscribes and cleans up is the environment, for no component does; a feed subscribes once, as each call has variables of its own.
* **Balance**: `requests` counts, by address, the fetches that have been sent and not answered; an answer is shown whoever
  it is for, because the effect's clean-up stops the interval and not the fetches. **Clients** puts the header's copy
  beside the feeds.
* **EventLoop**: the timers the mounted page awaits. `Fires` lets a timer fire before an earlier one only if it waits
  for a shorter time.
* **Orders**: a submission in a real build is a record with its stage (`signer`, `evm`, `cosmos`); the network may
  execute a transaction (`Executed`) and still lose its receipt (`EvmRejects`). The row to be listed is made when the
  order is submitted, as the closure captures the request and the price. When its page is left a submission moves to `left` and
  runs on there (`GoesOn`, `Ends`): it asks for the signer, sends and falls back as before, and sets no state of a page. Of such a
  submission the model keeps its stage and whether its price can be parsed; what the network makes of it no page can show.
* **PortfolioMargin**: a transfer is `ClickTransfer`, then a timer, then `Deposited` or `Withdrew`.
* **ExchangeApp**: `Mount` gives a page its initial state, forgets the timers, fetches and `connect()` calls of the former one, whose
  callbacks only set its state, and hands its submissions over to `left`. An action of a page is
  enabled while it is mounted; the wallet's answer to `handleEnter` and the steps of `left` at any time.
* **DemoAccount**: the abstract account behind the transfer form: accept a covered request, serve it in one step, or forget all.
* **MarginSummary**, **PriceMath**: what the frontend computes, in integers. Ratios are multiples of `1/Unit`;
  asset values are multiples of 20 so that 5 % and 10 % of them are exact.

Definitions marked "Mutated form" are plausible bugs; no specification uses them. Putting one
in place of the definition below it makes the property listed with it in `PROJECT.json`
fail, which shows that the property depends on the code.

## 3. What TLC checks

| Run | Instance | Shows |
|---|---|---|
| `trading` | 2 addresses, 1 market, 2 prices, 6 batches, 2 settled, precompile calls; 1.1M states | money, open interest, entry prices, health after withdrawals, and the refinement of `AtomicSettlement` |
| `cross` | 2 markets, one account long in one and short in the other; 50k states | `FullyBacked` over all positions; `ScanChargesTotalPenalty`; `LiquidationClears` under fairness |
| `funding` | marks below and above the price, indices up to 50, sizes whose payments round; 86k states | a round's payments cancel up to rounding |
| `ledger` | 2 addresses, charges 1..3, payments -2, 0, 3, balances to 8; 6.5k states | no overdraft; nothing made or lost by rounding, self-liquidation included |
| `order_flow` | 3 traders, prices and sizes 1..2; fair; 349k states | sizes conserved, arrival order at one price, every order processed |
| `clients` | 2 feeds, 2 slots, a header, 2 addresses, 2 requests; fair; 85k states | one connection, reconnection; `EquityCatchesUp` |
| `frontend` | 1 market, 2 prices, a short position, a resting order, 2 addresses, both builds, 2 pending timers, promises or submissions; 1.4M states | no dead form, no silent failure, atomic transfers that move the account summary alike, formulas that agree, submissions that outlive their page, and the refinement of `DemoAccount` |
| `doc_*` | small instances of the above | the five disagreements of section 5 |

The inductive invariants, `InductiveInv`, `StoresInv`, `FlowInv`, `FeedInv` and `FrontendInv`, are checked as invariants as well
as proved. `StoresInv` is checked in `trading`, where batches fail, and in `cross`, where a scan visits two positions.

### Bounds, and why they are enough

* `One = 100`: two decimal digits instead of eighteen. The rates of the code (5 %, 3 %, 2 %, 50 %)
  are then exact, and roundings occur at small sizes. The funding rate's clamp, 75 basis points in the code, is 0.5 in
  `funding`, so that a clamped rate still moves two digits. Sizes of 1000
  (ten units) and 400 at prices 100 and 50 make a flip, an exact reduction and a
  fractional average.
* `Dust = 200` or `300`: two or three halvings reach it, so a liquidation series is short but has all its stages.
* `MaxDeposit` bounds net deposits, not the collateral: 60 affords one opening trade (margin 50),
  120 both, so acceptance and rejection both occur on either leg.
* `MaxBatches = 2`: one batch opens, the next increases, reduces, flips, closes or fails.
  A batch with two trades fails after two or three legs. `Uint64 = 4` keeps the batch id's modulus visible.
* `MaxIndex` bounds the funding index at one round either way; a round before any price is posted is clamped, one after it is not.
* `MaxEntered = 400` admits one `executeTrade` call of four units at a time; it can reduce, flip or add to what batches opened.
* `FundingInterval = 100` (decimal 1) replaces 3600 seconds so that a rate is not always zero at two digits.
* `Slots = {1, 2}`: one more than the property allows, so that a second socket or timer has a place to appear.
* 3 traders with one order each: an order can fill two resting ones, rest, or wait behind another.
* `frontend`: one market, because what crosses markets (a price or leverage left over from another one) is stated by no
  property; sides, leverage and typed prices have one value each, because the figures they enter, a short order's
  liquidation price among them, are proved for every value (`FiguresCorrect`). The price moves across the entry of a short of size -1, so profits and losses occur. The list holds 2 orders: the mock one and
  the user's, so that a cancelled index can point to another row or to none. `MaxPending = 2`: two timers of different length overtake
  one another, and a second transfer would have room if its button worked; submissions of pages that were left count as pending, so at most
  two of any kind run on. `MaxDeposited = 2` with
  amounts of 1 allows two deposits and a withdrawal of each. Amounts, balances and asset values are small numbers, since they are only added.
* `clients`: `MaxRequests = 2` lets the request of a former address be answered after that of the present one; the two
  balances differ from each other and from the zero of a failed request.

Deadlock is checked in every run.

### Fairness

* `LiquidatorSpec`: weak fairness of the steps of a running batch and a running scan (loops of
  one call). Strong fairness of `LiquidateMsg` for every account and market is an assumption on the environment: a
  liquidator that keeps submitting. It must be strong because a scan or a batch
  disables it again and again. The code has no liquidator of its own.
* `OrderFlow!FairSpec`: strong fairness of each goroutine's next step, because Go's mutex
  is starvation free and lock acquisition is disabled and enabled repeatedly; weak
  fairness of the matcher's loop. That blocks are built again and again is the environment's.
* `TradeFeed!FairSpec`: weak fairness of pending timers, which the browser's event loop runs. Nothing is
  assumed of the server: sockets may stay connecting for ever.
* `ClientsSpec`: the same, and weak fairness of the poll, which the browser's interval repeats. That of the requests for
  one address, sent again and again, one succeeds is an assumption on the network: strong fairness, for other answers and switches of
  the wallet disable it.
* The `frontend` run assumes no fairness and states no liveness: wallets and networks may stay silent.

## 4. What TLAPS proves

For any finite set of addresses and markets, any batches, prices, rates
and precision, any traders, orders and feeds, and both codec builds, under the modules' named assumptions:
`OneAssumption` (`One` is even and positive), `CodecAssumption`, `MarketsAssumption` and `AddrsAssumption` (finite sets),
`EntryAssumption` (an entry of the store is neither `NoEntry` nor `Blank`), `OrderFlowAssumption` (`NoOrder` is not an order),
`AssetsAssumption`; the parameters are naturals, the partial rate at most one. Every property of a passing run is
a theorem, except those that say something happens eventually.

* **DecProofs.** `Mul`, `Quo` and `ChopNat` stay in the integers and keep signs; each product and quotient is within half a last digit of
  the exact one, the quotient up to the digits it truncates first. `HalfBounds` and `HalfShrinks`:
  half a decimal, rounded half to even, lies between zero and the decimal at every precision, strictly inside unless it is zero, and keeps its side.
* **SumTheorems.** The laws of the library's `SumFunction`: a sum over a finite set exists and is unique, splits at an element,
  moves by what an update of the function moves, is linear, is bounded by its terms, ignores zero terms, shifts with a sequence. The library defines the
  sum by recursion, and its induction theorems take an operator; `SubsetInduction` and `NaturalInduction` take the predicate as
  a set instead. Were some subset outside it, those would have a minimal member, strict inclusion being well founded on finite sets; removing
  one element of it gives a contradiction. `NaturalInduction` follows, with the cardinalities of the subsets of `1 .. m`.
* **ChainProofs.** `Invariance` proves `Spec => []InductiveInv`; `TypeCorrect`,
  `CollateralNeverNegative` and `NoMoneyFromNothing` follow. Neither
  `NonNegativeCollateral` nor `BackedByDeposits` is inductive alone: `RejectBatch` restores a
  snapshot, so `BatchInv` says the snapshot is as well backed as the stores and that no scan runs; and
  `FinishExecuteLiquidation` writes a working copy, so `ScanInv` says that
  the copy is at most the stored collateral and that the accounts and positions it has
  still to read are readable. The proof has one lemma per action; `BackedAfter` and `ExecuteTradeEffect` carry the core:
  what a leg debits is what it locks. `PositionsOnlyShrink` proves `OnlyTradesGrowPositions`: of the
  steps outside a trade only a liquidation writes a position, and `HalfShrinks` says what it leaves.
* **SettlementProofs.** What is about sums over the stores, relative to `InductiveInv`. `StoresBalance` proves `Spec => []StoresInv`.
  `FullyBacked` is not inductive: it says nothing of an account that does not read back, and a trade may have to be paid by one.
  `SoundStores` closes the gap: with the stubs no position is ever opened, because no leg can be paid for, and with protoc output
  every entry reads back. `OpenInterestBalanced` is not inductive either: it must hold of the snapshot
  to survive a rollback, and be off by exactly the maker's size between the legs (`HalfOpen`). The core is `CellMoveStores`: a step that writes
  one cell of the position store and one account moves the open interest by the difference of the sizes
  and the holdings by that of the margins and the debit; `TradeEffect` and `LiquidationEffect` bring every writer
  into that form. From the invariant:
  `MarginsBacked` and `LongsMeetShorts`; `ChainIsAtomic`, that every step is one of `AtomicSettlement` or a stutter, for which
  `SettlementInv` says that since its snapshot a batch has given nobody anything and kept the open interest, so `FinishBatch` is one balanced `Settle`
  and `RejectBatch` nothing at all. `ScanCutsOnce` rests on `ChargeInv`: cutting at zero after each position equals cutting the
  sum so far once. `TradesKeepProfit` bounds the error of a re-averaged entry: half a digit of price over the whole
  size, and half a digit for each of three products. `WithdrawalsKeepMargin` turns the health ratio's last digit into the factor `2 * One - 1`.
  `FundingBalances` uses that payments proportional to sizes of sum zero are each rounded by less than a digit (`ProportionalSum`).
* **LedgerProofs.** `NoOverdraft`: every balance stays non-negative; the insurance fund's share needs `HalfBounds`.
  `BalancesAddUp`: all balances together are what was granted. Debit and credit are two updates of one store, so an address in two roles is no special case.
* **OrderFlowProofs.** `FlowIsOrderly` proves `Spec => []FlowInv`, layer by layer. `MutexInv`: who works on the mempool holds the
  mutex, and the slice it has read is still the mempool; so `AppendOrder` and `ReturnBlock` overwrite nothing. `SubmittedInv`, from it: the delivered blocks
  followed by the mempool hold every submitted order exactly once. `BookInv`: a queue holds orders the matcher has taken, in the order of their arrival.
  `MatchInv`: what is in hand, on the book and in trades of a taken order is its size. `NothingIsLost` adds the orders not yet
  taken: exactly one of mempool, blocks and matcher has a trader's order (`SizeInOne`, `SizeInNone`). `FillsInArrivalOrder` follows from `BookInv`, for the
  matcher fills from the front; it speaks of equal prices only, so a book sorted by price would keep it. `OrderFlowTypes` is the types alone.
* **TradeFeedProofs.** `FeedsOrderly` and `AtMostOneConnection`: for any number of feeds and slots. `OneConnection`
  needs only the fact that an unstarted feed has nothing (`FeedInv`): any close
  frees the only slot before it schedules, any timer leaves before it connects.
* **FrontendProofs.** For any markets, addresses, typed values and mock data, and with no bound on what a page awaits:
  `Invariance` proves `Spec => []FrontendInv`, from which `TypesCorrect` and `FormsStayAlive` follow, `TransfersRefine`
  that every step of the frontend is a step of `DemoAccount` or leaves the account alone. Types and flags are not inductive alone: that a
  withdrawal leaves a natural number, and that the flag is cleared exactly when nothing is pending, need
  `TransferInv`: on the portfolio page at most one timer is pending, and a pending withdrawal is covered. On any other
  page the portfolio's state is its initial one, so that mounting it again starts from there; no submission in `left` changes that (`RunsOnTyped`). The proof has a step per action of
  the application and, for the two pages, a lemma per group of their actions; `RemoveAtProperties` says what removing
  a timer or a row leaves. `FiguresCorrect` shows the figures' agreement for every size, price, leverage and margin; `FiguresFollow` that while the portfolio
  page stays mounted a step that changes the deposited total leaves the wallet and its balance alone (`OnlyPortfolioMoves`), and with `DivMonotone` what it does to the summary.
  The mock account's sums and shares are naturals because its percentages are exact on multiples of 20 (`TotalValue`, `Shares`).
  `FailuresAreTold` compares the list of submissions with itself less one element, which may be one of several equal neighbours:
  `RemovedAlike` shows that they are then the same submission, so what `AnswersTell` says of the one removed is true of each.

What stays with TLC. `LiquidationClears`, `EveryOrderProcessed`, `FeedReconnects` and `EquityCatchesUp` are liveness under
fairness, which needs `ENABLED`, out of the prover's reach. The five `doc_*` properties are refuted by their runs.

## 5. Where the code and its documents disagree

Each has a run whose counterexample shows it:

* `doc_scan` – the EndBlock scanner charges a penalty and leaves the position; README.md announces a 50 % reduction.
* `doc_funding` – `computeFundingPnL` multiplies a total that is already size times rate by the size again, so shorts
  pay when longs do.
* `doc_health` – the margin precompile drops the sign of a health ratio, so an account with a ratio of -1 or less passes
  `ClearingHouse`'s test against one.
* `doc_best_price` – the book is never sorted: `bestAsk` is the oldest ask.
* `doc_cleanup` – the clean-up closes the socket while `onclose` is installed; the feed reconnects afterwards. Nothing under
  `src/` subscribes yet, so no page shows it.

Seen while modelling, without a run of their own: a comment in `BuildBlock` (`sequencer.go:42`) announces a sort by priority and
timestamp, but the block is the mempool as it was appended and `AssignPriority` has no caller; after a deposit the Total Equity card and the
Available Margin row move, while the cards labelled "% of equity" and "% available" stay at the mock account's amounts; with the checked-in `Marshal` and `Unmarshal` a deposited collateral cannot be
read back and the next message on it panics; in the frontend, a cancel removes whatever row has its index after the wait, an EVM
transaction whose receipt is lost is sent again as a Cosmos message, the price field keeps the first market's price
after another market is selected, an order submitted with no wallet is dropped once the wallet has connected, the former address's balance is shown until the next answer, an empty price is sent
as `NaN`, a market order is listed as filled without a position, and the estimates under the form ignore the
size and the leverage entered; the liquidation reward of `x/liquidation` is
announced in an event and credited to nobody; maker and taker fees are only logged; a reduction
at a price far from the entry can leave a negative average entry price (the PnL is kept in it);
an exact close deletes the position's margin and PnL; a partial liquidation keeps the entry price, so the loss of the
reduced part is dropped and equity rises; `LastCumulativeFunding` is written and never read; `executeTrade` decodes its `int256`
size as unsigned, so a short arrives as an enormous long and is refused for want of margin, or opened as a long.

## 6. Left out

* Fees, logs, events and query-only figures: they change no state.
* The oracle timestamp: stored and compared by nothing.
* `LegacyDec`'s bit-length limit, gas, signatures, account sequences.
* Indexer, cache, API and feeder: no code calls the parser or the broadcaster, the chain emits none of the event types the
  parser knows, the cache is never written and the feeder calls an undefined function. A model would be of callers that do not exist.
* The genesis tool: a command that edits a file, one invocation at a time; a sum of two `int64`.
* Frontend: the chart's price series, the block ticker, the loading flag of `usePositions` (read by nothing), the leverage and execution mode of a
  request (no state depends on them), the 150 ms in which a page that is left fades out, the cards beside Total Equity and the rows and
  totals of the asset and margin tables, which are mock data, fixed shares and sums of it, and the pages that show mock data.
* The `col:` store: an adder and a reader that nothing calls.
* Two nodes disagreeing: `ApplyFunding` ranges over a Go map, but each iteration
  touches only its own address's key, so the order cannot be observed.

## 7. Plan

Built first, because it carries the money: the chain with its precompiles and its proof; then the ledger, the order flow and
the feed; then the frontend's pages and clients, with their invariant, their refinement and their figures. Next:

1. **Proofs**: the step lemmas behind the liveness properties, which need no `ENABLED`: a liquidation strictly lowers the sizes of its
   account (`OnlyTradesGrowPositions` has it for one position; the sum over an account is a variant for `LiquidationClears`), and each step of
   `OrderFlow` brings an order no further from the matcher.
2. **Frontend**: a second market in a run of its own, if a property about what crosses markets is worth one.
