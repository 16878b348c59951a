# A formal model of ARTH core

This directory specifies and verifies the core of the protocol in this
repository: the Solidity contracts of `src/packages/contracts/contracts`, a
fork of Liquity in which borrowers draw the stablecoin ARTH against ETH, and the
TypeScript packages that follow and call them.  It holds TLA+ modules translated
from the source, TLC configurations that model-check them on small instances,
and TLAPS proofs for all instances.

    tlc -workers 2 -config ARTHLiquidation.cfg MCOperations   # a run
    tlapm ARTHSystem_proofs.tla                               # the proofs

`PROJECT.json` is the index: components, runs, seeded faults, the map from
definitions to source lines, findings, hazards and theorems.

## 1. The system

### Contracts of the core

| Component | State | Operations | Calls |
|---|---|---|---|
| BorrowerOperations | front ends; addresses | openTrove (and openTroveFor, for the owner), the adjustments and their wrappers, closeTrove, claimCollateral, registerFrontEnd | TroveManager, ActivePool, SortedTroves, ARTHValuecoin, Governance, price feed, CollSurplusPool |
| TroveManager | troves (debt, collateral, stake, status, index), owners' array, reward sums `L`, snapshots, total stakes, error remainders, base rate and its clock | liquidate, liquidateTroves, batchLiquidateTroves, redeemCollateral, and the functions BorrowerOperations calls | all pools, SortedTroves, token, price feed |
| ActivePool, DefaultPool | ETH and ARTH debt of the active troves, and of rewards not collected yet | increase, decrease, send | each other, StabilityPool, CollSurplusPool |
| CollSurplusPool | ETH and claims of owners of closed troves | accountSurplus, claimColl | ActivePool |
| GasPool | ARTH balance: the reserve of every trove | none | none |
| StabilityPool | deposits, `P`, `S`, `G`, epoch, scale, front-end stakes | provideToSP, withdrawFromSP, withdrawETHGainToTrove, offset | TroveManager, BorrowerOperations, CommunityIssuance |
| SortedTroves | doubly linked list of troves by nominal ratio | insert, remove, reInsert, searches from hints | TroveManager (ratios) |
| ARTHValuecoin | balances, supply, allowances | transfer, mint, burn, sendToPool, returnFromPool | none |
| Governance | allowMinting, maxDebtCeiling, fee floors, fund | setters | price feed |
| LinkTellorPriceFeed | status of trust, last good price | fetchPrice | Chainlink, Tellor |
| CommunityIssuance | reward rate, end of the period, issued amount | issueMAHA, sendMAHA, notifyRewardAmount | MAHA token |
| HintHelpers, MultiTroveGetter | none | views | TroveManager, SortedTroves |
| Proxy scripts, Ownable, TellorCaller, PriceFeedFixed | almost none | forwarding, access control | |

A transaction is atomic: within it the contracts call one another, between two
transactions of different users anything may happen.  The state that the
contracts share is redundant on purpose (pools against troves, token against
debt, array against list against status), and every transaction must keep all
copies in step.  Amounts are unsigned, divisions round down, and a subtraction
below zero or a division by zero reverts.

### Off-chain packages

| Component | State | Operations | Calls |
|---|---|---|---|
| `lib-base`: ARTHStore | base, derived and extra state, the timer of the next derivation, subscribers | start and the stop it returns, subscribe, `_load`, `_update`, `_scheduleUpdate` | `_get` and `_derive` of its subclass, both asynchronous |
| `lib-ethers`: BlockPolledARTHStore | none of its own | block listener, `_get`, `_derive`, `_reduceExtra` | contracts through a provider |
| `lib-base`: Trove, Fees, Decimal | none | whatChanged, apply, adjustTo, fees and decay of the base rate | none |
| `providers`: WebSocketAugmentedProvider | socket, reconnection timer, block listeners, newest block seen | openWebSocket, closeWebSocket, on, once, off, call, waitForTransaction | the socket's provider or the one it extends |
| `providers`: BatchedProvider | batch, its timer, callbacks | call | Multicall contract through the provider below |

`BatchedProvider` extends `WebSocketAugmentedProvider`; the store runs on top of
both.  JavaScript runs one callback at a time, so each stretch of code between
two awaits, timers or callbacks is one step, and between two such stretches
anything may happen.  `lib-react`, `lib-subgraph` and `subgraph`, `fuzzer`,
`examples` and the deployment scripts have no state of their own worth a model.

### What is hard

* **Order of transactions.** Rewards of a redistribution are collected trove by
  trove at the owner's convenience, between further redistributions; the
  snapshots, the stakes and the Default Pool have to agree in every order.
* **Stale values inside a call.** The liquidation loops work on ratios, totals
  and deposits read before the loop, and update copies of them.
* **Stale order.** SortedTroves sorts by ratios that change while no trove moves.
* **Rounding.** Stakes, rewards, capped offsets, redemption lots and the base
  rate are floor divisions; an unfavourable last digit makes a subtraction
  underflow and the whole call revert.
* **Modes.** Recovery mode is a function of price and totals; it changes in the
  middle of a batch, and the requirements of each borrower operation depend on it.
* **Limits.** The last trove, the minimum debt, the debt ceiling, the full list.
* **Oracles** that fail, freeze, jump and come back.
* **Promises without cover.** A reward is announced in one call and funded in
  another; what is issued and not claimed counts as cover for the next one.
* **Running products.** The Stability Pool knows a deposit only by a product and
  sums that every liquidation rounds, rescales or restarts.
* **Two implementations of one rule**: HintHelpers against TroveManager, the SDK
  against the contracts.
* **Callbacks.** Off chain, fetches, derivations, timers, block events and calls
  end late, in another order, twice or - with a socket - never.

`PROJECT.json` lists these hazards at the lines where they bite, with the
properties that cover them; a hazard without a property says why.

### What makes each part correct

* Ledgers: supply = debt of both pools; Active Pool = sum over troves; Default
  Pool covers all pending rewards; surplus pool = claims; stakes add up; token
  accounts add up and cover deposits and reserves.
* Liquidation: only unsafe troves; exact split of debt and collateral; never
  blocked by arithmetic; an unsafe trove at the end of the list can always go.
* Redemption: value for value, riskiest first, never below the minimum debt,
  never blocked at the settlement.
* Borrowing: no operation brings the system below its critical ratio or
  worsens recovery mode.
* SortedTroves: intact links, a search that always ends at a valid position,
  nothing else moves.
* Price feed: no outdated, zero or unconfirmed price; trust only by agreement;
  return to normal operation.
* Stability Pool: deposits and ether gains within what the pool holds, MAHA gains
  within what was issued; no view that reverts; a product that never vanishes.
* Store: never half loaded; base, derived and extra state of one block; up to
  date in the end; silent after a stop.
* Providers: listeners always have a source of blocks; a call is answered once,
  for its own block, and in the end.

## 2. Modules

| Module | Contents |
|---|---|
| `LiquityMath` | fixed-point arithmetic with the precision as a constant |
| `TroveState` | state of TroveManager, pools, token and list; views (pending rewards, ratios, TCR, rates) and the updates shared by all transactions |
| `Liquidation` | liquidateTroves, batchLiquidateTroves, liquidate: the loop as a fold over the troves, settlement, redistribution |
| `Redemption` | redeemCollateral: first hint, loop, partial redemption, settlement, fees |
| `BorrowerOperations` | open, adjust, close, claim, registerFrontEnd |
| `ARTHSystem` | composition: all transactions, Stability Pool calls in aggregate, token transfers, governance, price and time; `Spec` |
| `ARTHProperties` | invariants and action properties of the composition |
| `ARTHSystem_proofs` | theorems about `Spec`: ledgers, modes, books, what a liquidation may close |
| `ARTHPools_proofs` | more of them: pools against troves, the token's accounts, liquidations and redemptions never blocked, redistribution, fairness and order of redemptions, decay of the base rate |
| `DataLemmas` | facts the proofs share: induction, powers by squaring, sums over borrowers, sequences |
| `PriceFeed`, `PriceFeed_proofs` | LinkTellorPriceFeed with two oracles as environment, its properties and theorems |
| `SortedList` | abstract specification of the list: a sequence, insertion where the ratio fits |
| `SortedTroves`, `SortedTroves_proofs` | the linked list; its structure and searches, and the refinement of `SortedList`, proved |
| `HintHelpers` | getRedemptionHints, against the redemption it simulates |
| `CommunityIssuance` | reward rate, period and issuance of MAHA, and the tokens sent to pay for it |
| `StabilityPool`, `StabilityPool_proofs` | product, sums, epochs, scales, error feedback, deposits, front-end stakes, kickback rates; their invariant proved |
| `ARTHStore` | lib-base's store with the block polling of lib-ethers |
| `LibBase_proofs` | the invariants of the store and the arithmetic of `MCArithmetic`, proved |
| `Trove` | Decimal, Trove and Fees of lib-base, with the rate that replaces a missing one |
| `WebSocketAugmentedProvider` | socket, block events, listeners, waitForTransaction with its retries |
| `BatchedProvider`, `BatchedProvider_proofs` | batches of calls on top of it; invariants of both proved |
| `MCARTHSystem`, `MCOperations`, `MCPriceFeed`, `MCSortedTroves`, `MCStabilityPool`, `MCArithmetic`, `MCLibBase`, `MCBatchedProvider` | values and slices for TLC |

`ARTHSystem` EXTENDS the three transaction modules, which EXTEND `TroveState`;
`HintHelpers` EXTENDS it.  `StabilityPool` EXTENDS `CommunityIssuance`, and
`BatchedProvider` EXTENDS `WebSocketAugmentedProvider`: each pair is one state
with the steps of both.

### Correspondence

Variables carry the names of the storage they model: `Troves[b]` (status, debt,
coll, stake, frontEndTag), `TroveOwners` and `arrayIndex`, `rewardSnapshots`,
`L` (`L_ETH`, `L_ARTHDebt`), `lastError` (the two error remainders),
`systemSnapshots`, `totalStakes`, `baseRate`, `lastFeeOperationTime`,
`activePool`, `defaultPool`, `collSurplusPool`, `stabilityPool`,
`arthBalance`, `totalSupply`, `sortedTroves` (as the sequence which
`SortedTroves` is shown to implement), `maxDebtCeiling`, `allowMinting`,
`price`, `now`.

An action is a whole transaction.  Requirements are its guards.  A loop over
troves is a fold whose accumulator (`run`) holds the local variables and the
working copies of the code.  SafeMath is the predicate `LiquidationArithmetic`
or `RedemptionArithmetic`: the transaction happens only if nothing wraps or
divides by zero, and `LiquidationNeverBlocked` / `RedemptionNeverBlocked` say
separately that it always does when the explicit requirements are met.  A hint
is any position that `validInsertPosition` accepts, because the search always
ends at one (`SearchAlwaysLands`).

### Deliberate abstractions of the core

* The price is any of `Prices` at any time, which includes whatever the feed does.
* In the composition a depositor may own any of `Shares` percent of the Stability
  Pool's deposits and ether; `StabilityPool` models the accounts, and takes the
  troves that are liquidated as arbitrary.
* Fee floors are constants (Governance can change them).
* Anybody may send ARTH to the gas pool, so its balance is at least the reserves.
* Access checks between contracts, events, allowances and permit are left out.
* Asynchronous answers are abstracted to the number of the block they were
  computed from.  A step of `ARTHStore` and of the providers is what runs
  between two awaits; the nodes may be behind each other and answer or fail at
  any time; a request over a socket that closes is never answered.  The two rates
  that `_derive` computes from the governance contract's fee floors, at the latest
  block, are taken as of the block of the base state, as if the floors were fixed.
* `CommunityIssuance` keeps two histories the contract does not have, `received` and
  `announced`: all tokens sent to it and the sum of all announcements.
* `PriceFeed` assumes that no positive answer scales down to a zero price
  (`PositivePriceAssumption`), which holds for feeds of at most 18 decimals.

## 3. Runs

Precision is three decimals (1000 is one), so a debt of 100 and a collateral of
170 at price 1000 have the ratio 1.7.  MCR is 1.1, CCR 1.5, the reserve 10 and
the minimum net debt 40, in the proportions of the code; collaterals and debts
are chosen so that ratios fall on both sides of MCR and CCR at the prices of the
run.  Three borrowers are enough for a batch that redistributes twice over a
survivor and for every kind of list neighbour.  Bounds: `MaxOpenings` (troves
opened in a behaviour), `MaxSystemColl`, `MaxSystemDebt`, `MaxTime`.  Deadlock
checking is off wherever such bounds exhaust the possible calls.  Borrowers and
depositors are symmetric.

| Run | Question | What it shows |
|---|---|---|
| `liquidation` | all sequence and batch liquidations, with price falls and with a pool that covers none, part or all | ledgers, pools, books, redistribution and the choice of troves are right, and nothing reverts in arithmetic |
| `operations` | four slices of the composition: adjustments of three troves under falling prices; token, deposits, front ends and governance; redemptions with every hint; fees at every half minute | pools and token reconcile; the mode is protected; redemptions are fair, in order, start above every trove below MCR, are never blocked and as HintHelpers announces; the base rate only decays between them |
| `hints` (violation) | redemption hints with a cap on the troves to look at | see Findings |
| `ceiling` (violation) | "Maximum amount of debt that this deployment can have" | see Findings |
| `sorted_troves` | the linked list under arbitrary changes of ratios and all hints, five addresses for four places | links intact, search lands, list implements `SortedList` |
| `feed` | every sequence of good, bad, frozen, jumping answers, prices on both sides of the 5% and 50% limits; lasting agreement | the safety properties of the feed, and its return to Chainlink |
| `stability_pool` | two depositors, a front end, offsets of a small and a large trove, one change of scale, one of epoch; tokens sent and rewards announced in any order, up to three announcements over two periods of two units of time | views never revert; deposits and ether gains covered up to the error fed back; MAHA paid and owed never exceeds what was issued, nor that what was announced |
| `unfunded` (violation) | "Sends all depositor's accumulated gains" | see Findings |
| `product` (violation) | `assert(newP > 0)` | see Findings |
| `lib_base` | the store over two blocks, a restart, three derivations that overlap in any way; `_decPow` of every factor against the exact power; every sequence of wanted troves through whatChanged and apply | the store is whole, consistent without an overlap, and catches up; the power is off by at most half a unit per product, and decay never reverses; the SDK reaches the wanted trove, as the contracts do |
| `stop` (violation) | "Function to stop the monitoring" | see Findings |
| `providers` | two calls of any block while a socket opens, closes, breaks and reconnects; a transaction that is waited for while two sockets do and nodes lag behind the announced block; a client of block events | no call is forgotten or answered for another block; every call is settled; listeners have a source; the transaction is noticed unless a request fails or its socket closes |

The slices of `MCOperations` restrict which calls come together, never what a
call does; a variable holds the slice, so that `operations` explores four of
them.  `liquidation` has a slice of its own, which restricts nothing; `hints` is
the slice of the redemptions.  `providers` explores the two calls and the waiter
one at a time, the calls with one socket: the two share only the sources and the
newest block.  `lib_base` explores the store and the arithmetic, which share
nothing, one after the other.
`StabilityPool` uses two digits and a scale factor of ten, so that one offset
crosses a scale, and the two depositors hold the whole supply: the second offset
already meets an error fed back.  Precision and scale factor are in the proportion
of the code (the square of the factor is the precision), which is what `product`
turns on.  `LossRounding` is one unit per full unit deposited, the size of the
error.  A period lasts two units of time and time runs to the fourth, so that a
rate announced in the middle of a period is issued, and runs out.  In
`stability_pool` this is explored before the first liquidation (`Bounded`);
liquidations come with up to two announcements in the first period, because
`MAHAGainsAreCovered` speaks of the time before them.

`RoundingSlack` (two units) appears in `ListStaysSorted` and
`RiskiestRedeemedFirst`: when two ratios are nearly equal, the rounding of
stakes and rewards can swap them, in the code as in the model.
`BorrowersProtectTheMode` allows the last digit of the ratio in recovery mode,
which is rounded.  `MAHAGainsAreCovered` is stated up to the first loss: after
it the product rounds as it does for the deposits.  `RedemptionIsFair` and
`RiskiestRedeemedFirst` recognise a redemption by its effects: ARTH is burnt and
the base rate or its clock moves or, when both happen to stay, a trove changes
that its owner neither pays for nor closes and that is not liquidated.

**Fairness.** The core is checked for safety only: no contract does anything on
its own.  The feed's liveness assumes weak fairness of `FetchPrice`: every
opening, adjustment, liquidation and redemption calls it and anybody may.
Nothing is assumed of the oracles; that they agree for good is the premise.
`ARTHStore` assumes that timers fire and that fetches and derivations under way
are answered - which the code's promises are, or the failure is a premise of
the property (`lost`) - and nothing of blocks, stops and starts.  The providers
assume that timers run, arguments resolve, a node that is asked answers, that a
node which is asked again and again catches up with the block that was announced
(strong fairness of `Receipt` and `Block`), and that the source the provider
listens to goes on announcing blocks; nothing of users, requests that fail,
connections and reconnections, so that `TransactionsAreNoticed` is stated
for block events that settle on a source in the end.

**Seeded faults.** Each property of a passing run has a definition named "Seeded
fault" next to the code it alters, with which that property fails.

### Findings

1. *Debt ceiling.* `_withdrawARTH` (BorrowerOperations.sol:610) compares
   `maxDebtCeiling` with the Active Pool's debt only, although
   Governance.sol:33 calls it the maximum debt of the deployment.  After a
   redistribution the liquidated debt sits in the Default Pool and does not
   count, and new loans exceed the ceiling (`DebtWithinCeiling`).
2. *Stopping the store.* `_load` and `_update` schedule the next derivation after
   an await, whether or not monitoring was stopped meanwhile; the function that
   `start` returns, "to stop the monitoring" (ARTHStore.ts:237), cancels only a
   timer that is set.  A stop while a derivation is awaited leaves timer and
   derivations keeping each other going (`StopEnds`).
3. *Capped redemption hints.* `getRedemptionHints` counts `_maxIterations--` down in
   the condition of its loop (HintHelpers.sol:94), in the checked arithmetic of
   Solidity 0.8: when the cap is used up while troves and ARTH are left, zero is
   decremented and the view reverts.  The comment at line 59 says that the number of
   troves "can be capped", and TroveManagerTest.js:2525 expects a result
   (`HintsAreReturned`).  `redeemCollateral` tests its own cap before it decrements.
4. *Rewards announced without cover.* `notifyRewardAmount` moves no tokens and
   compares the rate with the whole balance (CommunityIssuance.sol:78), which
   contains what is issued and not yet claimed.  A second announcement on the same
   tokens is accepted, the gains outgrow the tokens, and a transfer that fails takes
   the withdrawal of the deposit with it (`AccumulatedGainsCanBeSent`).
5. *Vanishing product.* `_updateRewardSumAndProduct` changes the scale once per
   liquidation, which multiplies P by 1e9, while a loss of all but a few 1e-18ths of
   the pool divides it by up to 1e18.  Two such liquidations take P from 1e18 over
   1e9 to a few units; with the third `assert(newP > 0)` (StabilityPool.sol:618)
   fails and the liquidation reverts (`ProductStaysPositive`).

Met while modelling, and without a run:

* *Tolerance of the feed.* LinkTellorPriceFeed.sol:492 says oracles are similar
  within 3%; the constant at line 50 is 5%, and the model follows the constant.
* *Rounding of the Stability Pool.* `_computeRewardsPerUnitStaked`
  (StabilityPool.sol:549) subtracts the error of the previous loss although the
  deposits it was measured over have become fewer, so the next loss can come out
  too small; comments at 553 and 843 say that the error favours the pool.  Two
  offsets in a row can leave compounded deposits that together exceed
  `totalARTHDeposits` by a last digit; `DepositsNearlyCovered` bounds the excess by
  one unit per full unit deposited.
* *A rate of zero.* `whatChanged` and `apply` replace a missing borrowing rate by the
  minimum of the contracts, and test for it with `!borrowingRate`, which also holds
  for the number 0 (Trove.ts:575, 625).  The model does the same (`RateUsed`).

## 4. Proofs

All theorems hold for every set of borrowers, all amounts and every value of the
constants that meets the named assumptions.

**Ledgers** (`ARTHSystem_proofs`).  The inductive invariant `LedgerInv` joins
the types of all ledgers (every amount is a natural number: no unsigned value
has gone below zero), `SnapshotsBehindL`, `SupplyEqualsDebt` and the fact that
front ends are borrowers.  The snapshots are needed because a pending reward is
`stake * (L - snapshot)`: only if snapshots stay behind `L` is it an amount, and
only then do the troves that collect it keep their types.  `SupplyEqualsDebt`
is inductive on top of the types, because every transaction changes supply and
debt by the same amounts; moving rewards from the Default to the Active Pool
cancels out.  Of what a loop adds up, this proof uses only what the settlement
in the code requires of it.

* `LedgersHold`, `SupplyIsOwed`: the invariant, and supply = debt.
* `FrontEndsStayOut`: front ends own no trove, whatever the order of calls.
* `LiquidationSplitsExactly`, `CappedLiquidationSplitsExactly`: one liquidation
  divides debt and collateral exactly, with non-negative parts.
* `RedemptionStepIsFair`: each step of the redemption loop keeps its totals
  fair and a partly redeemed trove above the minimum.

**Loops** (`DataLemmas`, `ARTHSystem_proofs`).  The loops of the contracts are
folds over sequences of troves.  A fold has a value at every prefix of its
sequence (`LoopExists`, `LoopSteps`), so that an assertion which holds at the
start and which every iteration keeps holds at the end (`LoopInduction`): a loop
invariant, in the sense of program proofs.  Sums over sets of borrowers are folds
too; `DataLemmas` proves what is used of them (one more term, an update, a part, a
bound) by induction over finite sets.

**Books** (`ARTHSystem_proofs`).  `BooksInv` joins the sum of the stakes, the
array of owners and the list as permutations of the active troves, closed
troves that are empty, and the minimum debt.  The loop invariant of the
liquidations says that the troves closed so far are active, distinct and were
visited, and that their stakes and surpluses are the ones added up; that of the
redemptions, that the troves closed so far were redeemed down to the reserve and
that the one redeemed in part still has the minimum debt.

* `BooksAlwaysAgree`: stakes, array, index, list and status agree.
* `MinimumDebtAlwaysKept`: no active trove below the minimum net debt.
* `OnlyUnsafeTrovesAreLiquidated`: whatever the order of a batch and wherever in
  it the recovery mode ends.

**Pools and token** (`ARTHPools_proofs`).  `PoolsInv`: the Active Pool holds what
the troves record, the Default Pool's ether covers all pending rewards and the
remainder carried to the next redistribution, the surplus pool what was credited.
`DebtInv` says the same of the Default Pool's debt.  It needs a condition:
`hasPendingRewards` compares only the snapshots of ether (TroveManager.sol:1331), so
a redistribution that raised the debt per stake and not the ether per stake would
be noticed by nobody.  `MovesBoth` says that no redistribution does, and is a
hypothesis of every theorem that speaks of rewards of debt.

* `PoolsHoldTheCollateral` (no hypothesis) and `PoolsAlwaysReconcile`.
* `TokenAlwaysAddsUp`: balances, supply, deposits and reserves.
* `LiquidationsAreNeverBlocked`, `LastTroveCanBeLiquidated`: no subtraction,
  division or assertion of a liquidation fails, for any batch and any state of the
  Stability Pool.  They suppose `TrovesHaveStakes`: a trove that has a stake of
  zero - which rounding could give to one of a few wei - may be left alone with
  the debt of all others, and the redistribution would divide by zero.
* `RedistributionsConserve`: debt is neither created nor lost; the rounding is less
  than one unit per survivor and what the last redistribution carried over.

* `BorrowersAlwaysProtectTheMode`: at a constant price only liquidations and
  redemptions that close a trove lead into recovery mode or lower the ratio there by
  more than its last digit.  A trove is opened at CCR at least; an increase of debt
  in recovery mode leaves a trove at CCR at least, at no lower ratio than before, with
  no more debt than the system's (`ActivePoolHolds`); a repayment raises the ratio; a
  redemption takes at most the face value from a system above MCR; and every
  liquidation closes a trove.
* `RedemptionsAreFair`: no trove gives more than the face value of the debt it is rid
  of, and none below MCR gives anything.  The loop invariant `RedemptionBooks` says it
  of every trove (`FairTo`); with the snapshots together, what the loop leaves is what
  the trove then owes and holds, pending rewards included (`RedemptionLeaves`).  That
  no trove below MCR is visited rests on the order of the list: its hypothesis
  `OrderedAtMCR` is the part of `ListStaysSorted` that the code relies on, which the
  run `operations` checks.
* `RedemptionsAreNeverBlocked`: no subtraction, division or assertion of a
  settlement fails, in any state whose list is in order at MCR.  A trove above MCR
  is worth more than the debt taken from it, so its collateral covers what it gives;
  the loop invariant adds that the pools hold all that the loop has drawn, and that
  a trove that stays has a stake to be recomputed.
* `RedemptionsTakeTheRiskiestFirst`: what the loop has closed is the stretch of the
  list from its first trove at or above MCR on, and it stops at the first one it does
  not close.  The hypothesis is `ListStaysSorted` itself, up to the slack; the
  assumption `SlackAssumption` says that the slack is small next to the least debt.
* `RedemptionHintsAreAccepted`: `getRedemptionHints` and `redeemCollateral` walk the
  list with different conditions and different formulas for the last, partial step.
  An invariant over both loops says that they have visited the same troves and have
  the same amount left, so that the hinted ratio is the one the contract computes.
  Where the view reverts (finding 3), it says that the cap also stops
  `redeemCollateral`, with ARTH left, and nowhere else: that the collateral a trove
  keeps is not negative needs it to be above MCR, hence `OrderedAtMCR` again.

* `BaseRateAlwaysDecays`: between two fees the rate that `baseRate` decays to never
  rises, and whoever moves the time of the last fee lowers it.  For this `_decPow`
  must not grow with the exponent, which is not plain: n + 1 squares and multiplies
  at other places than n, with other roundings.  But where the binary form of n ends
  in ones, that of n + 1 ends in as many zeros, and the product of the squares
  collected on the way is never below the next square (`OneMoreTurn`).  Assumed is
  that the factor is below one and the cap above zero (`DecayAssumption`).

`MovesBoth` and `TrovesHaveStakes` hold in all states and steps of the runs
`liquidation` and `operations`: the theorems speak of those states.

**List** (`SortedTroves_proofs`).  `Represents(d, s)` relates the fields of the
contract to a sequence: head, tail and size are its ends and length, the node of
each address carries its two neighbours, every other node is blank.  The
invariant `LinksInv` says that some sequence of distinct addresses is
represented.  `LinkedRepresents` and `UnlinkedRepresents` take `_insert` and
`_remove` through their four branches each; `DescentLands` and `AscentLands` show by
induction over positions that a search from a hint of the right side meets a slot
that fits, although the list need not be sorted.  The only assumption is that the
set of addresses is finite.

* `ListIsWellFormed`, `SearchesLand`.
* `ListImplementsSequence`: the refinement of `SortedList`, with the represented
  sequence for its list.

**Price feed** (`PriceFeed_proofs`).  Type correctness with a positive price,
and the three action properties of the run, for all sets of oracle answers.  The
lemma `FetchOutcome` reduces the thirty paths of `fetchPrice` to three outcomes:
keep the price, store that of a live Chainlink, store that of a live Tellor.

**Stability Pool** (`StabilityPool_proofs`).  `StabilityPoolInvariant`: for
every precision, scale factor, set of depositors and front ends and troves of any
size, `PoolInv` holds.  Every deposit's snapshot stays behind epoch, scale,
product and sums; within a scale the product only falls, so that a compounded
deposit is at most the deposit and no getter underflows.  The invariant is
inductive because snapshots are only ever taken from the present values.

* `DepositsStayNearlyCovered`: the compounded deposits never exceed
  `totalARTHDeposits` by more than one unit for each full unit deposited (the
  findings say why they may exceed it at all).  A sum of quotients by a product that was
  rounded itself is no quantity to reason with; so the invariant `DepositsShared`
  says that there are shares - of each live deposit a whole number, in a unit that
  every product so far divides - whose sum times the product exceeds the total by no
  more than the supply less the error carried to the next loss.  An offset takes the
  product times the loss from both sides (`LossIsShared`), and what the error feedback
  gives back is what was over (`ErrorFeedback`); a deposit or withdrawal buys new
  shares in a finer unit (`ReshareCovers`).  As the invariant asserts the existence of
  unit and shares, TLC cannot evaluate it; it checks the property.
* `MAHAGainsStayCovered`: as long as no loss has touched the product, the MAHA paid to
  depositors and front ends and owed to them is at most what was issued, and that at
  most what was announced.  `Funded` counts in units of the product's precision cubed:
  the promised gains and the remainder that `lastMAHAError` carries are within what is
  issued and not paid.  `IssuedInOrder` says that what was issued and what the present
  period has still to issue is within the announcements.  TLC checks the property on
  the instance of the run `stability_pool`.
* `FundedGainsAreCovered`: so the tokens held cover all gains as long as no more is
  announced than was sent - the premise `notifyRewardAmount` does not establish
  (finding 4).

`ScaleAssumption` says that the square of the scale factor is at most the precision
(1e9 and 1e18 in the code): a product that has moved on to the next scale is then
smaller than the first one.  `FiniteAssumption` says that depositors and front ends
are finitely many, as sums over them need.

**Store** (`LibBase_proofs`).  `StoreIsComplete` and `StoreIsConsistent`, for
any number of blocks, restarts and pending derivations.  `StoreInv` and
consistency speak of the store at rest; a derivation under way may still break
them.  `PendingIsSound` therefore says what each one carries (a whole extra state
if it loads, a loaded store if it updates), and `AloneIsConsistent` what the state
will be once the only one has answered.

**Arithmetic** (`LibBase_proofs`).  For any precision, where the run `lib_base`
goes through all decimals of two digits.  `ArithmeticAssumption` says that amounts
are natural numbers and that no borrowing rate exceeds one (Governance.sol:21 caps it
at 5% until its owner says otherwise).

* `DecPowStaysNearExact`: `_decPow` never grows with the minutes, and each of the
  n - 1 products of the n-th power costs at most half a unit.  The invariant of the
  loop (`SquaringIsNear`) is that factor and accumulator are each within (k - 1)/2
  units of a k-th power; `NearTimes` multiplies two such, with one rounding more.
* `SDKAlwaysAgreesWithContracts`: `pow` of lib-base halves odd exponents where
  `_decPow` takes one off first; both satisfy the same equations, which have one
  solution (`LoopIsUnique`).  For the debts, adding a fee and rounding is adding the
  rounded fee.
* `ChangesAlwaysReachTheirGoal`: the borrowed amount is rounded up and its fee down;
  as no rate exceeds one, the two make the wanted increase or one unit more.  That no
  sequence of changes drifts follows since each change starts from the trove as it is.

A recursive function exists only if its equation has a solution: the lemmas
`SquaringExists` and `ExactPowersExist` build it from solutions up to each exponent,
which agree with one another.

**Providers** (`BatchedProvider_proofs`).  `ListenersAreServed`: `ProviderInv`,
for any number of sockets and listeners; it needs that the timer a close clears
still runs, or the number of timers could go below zero.  `CallsAreKept` and
`AnswersMatch`: `BatchInv` and `AnswersAreOfTheirBlock`, from one invariant in
which the calls that wait, those in the batch and those of each request are
disjoint and carry the block they are asked for; an answer then settles exactly
its own calls, with their own block.

**Only model-checked.**

* Liveness (`AgreementRestoresChainlink`, `DerivedCatchesUp`, `EveryCallSettles`,
  `TransactionsAreNoticed`): the prover has no rules for fairness.
* `ListStaysSorted`: the slack it allows is measured on the runs; how far rounding
  can add up over any number of redistributions is not bounded.
* `ETHGainsNearlyCovered`: its bound, one unit per full unit deposited, fits the
  instances of the run.  Each liquidation can add to the gains a part of what the
  rounding of the product withheld, in proportion to the collateral it brings; with
  troves of any ratio in any number there is no such bound for all constants.

## 5. Not modelled

`PROJECT.json` gives the reason for each part.  In short:

* PriceFeed, PriceFeedFixed, TellorCaller, Ownable, MultiTroveGetter: no state
  machine of their own; access control; views.  Of HintHelpers, getApproxHint
  draws hints at random, and every module takes hints as arbitrary.
* Proxy scripts: sequences of modelled transactions.
* Of lib-base the lists and interfaces, of lib-ethers the encoding of
  transactions, of providers the listeners of transaction hashes, getTransaction,
  getBalance, and the timeout and further confirmations of waitForTransaction.
* That `Trove.governance` and `Trove.provider` are unset, in which case whatChanged
  and apply throw when the rate is missing.
* Several deployments over one ARTHValuecoin.
* lib-react, lib-subgraph, subgraph, fuzzer, examples, deployment, events,
  generated code and data.

The logic of this repository is in its Solidity contracts and a few TypeScript
packages.  Most of its JavaScript and TypeScript by volume is data - two lists of
accounts of together 84 000 lines, ABIs - and scripts that measure gas, of which
there is nothing to state; a share of these lines covered by the map would say
little.

## 6. Plan

What is left, in this order:

1. Two deployments over one ARTHValuecoin, with separate debt: redemption asserts
   a balance of at most one deployment's debt (TroveManager.sol:1128).
2. Listeners of transaction hashes in the provider, and a waitForTransaction with
   a timeout.
3. The aggregate pool of `ARTHSystem` as a refinement of `StabilityPool`.
4. Proofs: a bound on how far rounding can move the ratios of the list, from which
   `OrderedAtMCR` would follow where no two ratios are that close; a bound for the
   gains of ether that grows with the collateral received.
