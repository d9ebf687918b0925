# Verification of the interBTC clients

The repository holds the off-chain clients of the interBTC bridge. The vault
client is the core: it holds users' Bitcoin, pays redeem and replace requests,
executes issue requests, cancels expired ones and relays Bitcoin block headers
to the parachain. Around it are the runner that downloads and restarts it, the
oracle client that feeds prices, and the faucet of the test networks. A mistake
in the vault costs collateral or Bitcoin. This directory models these programs
in TLA+, checks them with TLC on small instances and proves central properties
with TLAPS for all instances.

## 1. Inventory

| Component | State | Operations | Hard behaviour | What makes it correct |
|---|---|---|---|---|
| Cancellation scheduler (`vault/src/cancellation.rs`) | list of open requests with deadlines, list state, last heights of both chains, bounded event channel | four listeners send `Opened`, `Executed`, `ParachainBlock`, `BitcoinBlock`; `process_event` queries, drains expired requests, cancels | events of different listeners are unordered; queries and cancels fail half way; restart at any await | a valid list accounts for all pending requests it was told of; only expired requests are cancelled; each expired one is in the end |
| Payment (`execution.rs`, `redeem.rs`, `replace.rs`) | tasks of `pay_and_execute`, the executor's map of open requests, Bitcoin mempool and chain | pay, bump fee, await inclusion, execute; scan for existing payments at start | two ways to the same payment; restart between payment and execution; payment mined or replaced during the scan | at most one payment per request, and none of a settled one, but for three known races; every mined payment is executed |
| Issue execution (`issue.rs`, `types.rs`, `delay.rs`) | the shared issue set under a lock, block stream, one task per transaction | insert, remove, look up, wait for the relay, execute | lock held over awaits; events and blocks race; no retry after an error | open issues are watched or accounted for; paid issues are executed |
| Bitcoin relay (`vault/src/relay/`) | none of its own: locals of `submit_next` | find the common block, skip stored blocks, batch, submit | reorganisations and other vaults between any two queries; `utility.batch` stops silently | confirmed, connected headers; the relay catches up |
| Service (`service/src/lib.rs`, `vault/src/system.rs`) | shutdown signal, task handles | connect, start, monitor, shut down, restart timer | late subscriptions to the signal, a start that fails half way | the service starts again for ever; what one start missed the next one finds |
| Vault id manager, registration (`system.rs`, `vault/src/faucet.rs`) | wallets and keys per vault id | make and register a key, register with an amount or the faucet's coins, fetch, listen for registrations | registrations against the initial fetch; failure between two extrinsics; key in another wallet | vaults are served with the right key; every registered one is served |
| Parachain RPC (`runtime/src/rpc.rs`, `retry.rs`) | nonce of the signer, WebSocket connection | submit with a unique nonce, retry, time out, subscribe to events | nonce refresh against calls in flight, forks, lost submissions | a call that returns has taken effect; no call blocks the others for ever |
| Bitcoin client and light wallet (`bitcoin/src/`) | wallet, keys, transaction lock | fund, sign, send, bump, wait, rescan; coin selection | concurrent spends, unloaded wallets, replies lost after the effect | no coin is spent twice; one version of a payment is mined; the fee is paid |
| Process lock (`process.rs`, `main.rs`) | PID file | test, read, look up, create, write, remove | stale files, reused pids, two starting processes | at most one vault per account |
| Runner (`runner/`) | child process, downloaded binary | fetch, download, run, restart, update, stop | failing steps, client exits, killed runner | no child is forgotten; the released client is on disk and runs |
| Oracle (`oracle/`) | price configuration | routes, median, submit, retry | wrong inversions; retries of what was already applied | right price; each round on chain; no step back |
| Faucet (`faucet/`) | claim times per account and currency | fund | concurrent claims | limits per account |
| Replace acceptance (`replace.rs`) | none | accept requests with free collateral | - | the pallet checks again |
| Metrics, CLI, types | gauges, arguments | publish, parse | - | - |

Components interact through parachain events (`on_event` subscriptions with a
queue per listener), through the `mpsc` channel between listeners and scheduler,
through the shared issue set, and through the parachain and Bitcoin themselves:
what one task submits another reads back. Everything is restarted by one
mechanism: when a task of `run_service` ends, or the restart timer fires after
three hours, the shutdown signal is sent and `ConnectionManager::start` builds
the service again.

`PROJECT.json` lists the hazards of this code, each at its line, with the
properties that cover it.

## 2. Plan

Done, in this order: `Cancellation`, `Payment`, `Relay` and `Issue`, with the
proofs about `Cancellation` and `Payment`; `Runner` with `ClientProcess`;
`Wallet` with `CoinSelection`; the abstract specification `Settlement` and the
proof that `Payment` implements it; `Startup` with `Faucet`; `Oracle` with
`Signer` and `PriceFeeds`; deposit keys, rescans and the delay in `Issue`.

The proofs about the other components followed: `IssueProofs`, `RunnerProofs`,
`RelayProofs`, `StartupProofs`, `WalletProofs` and `OracleProofs`.

With them every invariant and every action property of a passing run is a
theorem; what is left to the runs is liveness.

Composition: modules that interact extend one another (`Runner` extends
`ClientProcess`, `Startup` extends `Faucet`, `Wallet` extends `CoinSelection`,
`Oracle` extends `Signer` and `PriceFeeds`); a step of one leaves the other's
variables unchanged.

## 3. Modules

`MC*` modules only instantiate a specification for TLC; each `.cfg` gives the
constants. Operators marked as mutants in the comments are wrong variants of the
definition that follows them; no specification uses them.

### Cancellation

One scheduler for issue or replace requests (the code is generic over
`Canceller`). `active_requests`, `list_state`, `parachain_height` and
`bitcoin_height` are the scheduler's fields and locals; `pc` says at which await
`process_event` is: waiting for an event, for the open requests, for the period,
or for a cancel. `channel` is the `mpsc` channel with its capacity, and the
`unsent*` sets are what the listeners have received and not sent yet. The chain
side (`status`, `openTime`, `period`, heights) is external.

- `Deadline`, `Overflows`, `HasExpired` are the computations of
  `get_open_requests` and `drain_expired`; `Ratio` is the number of parachain
  blocks per Bitcoin block, and `U32Max` the largest `u32`.
- `QueryFailed` follows the code: the list is cleared and the event processed
  all the same.
- `startup_height` is the chain height, which may be ahead of the active block
  number that events carry, and `initial_btc_height` may be 0 because the error
  of the query is replaced by the default.
- `SkipOpened` is the request listener that returns before it sends `Opened`: the
  vault of the issue has no wallet (`issue.rs:282-291`), or `accept_replace`
  returned an error although the pallet took the call (`replace.rs:116-127`).
- `Restart` resets everything the process holds.
- `forgotten`, `listPeriod` and `heightIsActive` are history variables of the
  properties. `forgotten` are the requests the process was given no way to list:
  opened before the subscription, not announced, or pending when a query failed.

An overflowing deadline of one pending request fails every query, in every start,
so that no other request is cancelled while it is pending: `ExpiredRequestIsSettled`
promises nothing then (`DeadlineOverflows`). A `u32` of parachain blocks is more
than a thousand years, so that only a period set by mistake gets there.

### Payment

`tasks` holds one `pay_and_execute` (or the await-and-execute part of it) per
request and origin (listener or executor); `executor` is
`execute_open_requests`, with the map of open requests and the mempool listing
it works from. A payment is a record with its latest version (fee bumps replace
it) and the version mined. `"old"` stands for what survives a restart within the
process: the executor does not listen to the shutdown signal. Amounts, addresses
and fee rates are abstracted; the deadline becomes a clock with three values.

The code pays a request twice, or too late, in three races, and the model has them
all. The history variable `exposed` collects the requests they happen to:

- an executor's query lists a request that is already with the listener, with the
  other executor, or with a task (the query is not ordered against the
  subscriptions, and an executor survives the shutdown signal, as the TODO at
  `system.rs:572` fears; a task of a survivor may also replace a payment by a
  version that the scan's listing of the mempool does not contain);
- a request expires between the deadline check and the payment;
- the scan cannot read a transaction, and skips it.

`UnexposedPaidOnce`, `PaysOnlyPending` and `ImplementsSettlement` are about the
requests none of the three happened to: they say that nothing else does harm. That
the first race does is the finding `payment_two_paths`. The liveness properties
make no exception.

### Relay

A block is the sequence of branch labels leading to it, so height, parent and
ancestry are length, prefix and prefixes. `submit_next` is split at every await;
`pc` names the await. Any error of `get_block_hash` in the forward pass ends the pass
(`relay/mod.rs:46-53`), and the relayer goes on to submit from a block that the
relay may have; `cut` records it. The batch then starts with a stored block, which
the pallet refuses, and `utility.batch` stops: nothing is lost but the round. The
pallet (stored blocks, main chain, change of the main
chain when a fork has the lead) is external, `utility.batch` a recursive
function that stops at the first failing call.

### Issue

A start of the service goes through `phase`: `keys` and `rescan` are
`add_keys_from_past_issue_request`, `query` and `count` are
`initialize_issue_set`, `run` the listeners and the block stream. `issue_set` is
the shared set, `holder` the task that has the lock, `waiting` the tasks that
want it, `queue` the events of each listener, `next_height` the position of the
block stream. The lock is taken before the lookup and kept to the end of the
task, as the guard in `process_transaction_and_execute_issue` is, so that the
listeners wait while a task waits for the relay. `keys` are the deposit keys in
the wallet, `coins` the payments it knows: those to its keys when their block
arrives, those a rescan finds, and those imported from electrs when the node has
pruned their blocks. The rescan ends at `get_block_count() - 1`, as in the code:
a payment in the tip block is found by the next start at the earliest, and a
request opened at the tip makes a range that ends before it starts, which the
node refuses; the start fails and is tried again. Reorganisations of confirmed
blocks and transactions that pay several issues are left out.
`get_all_active_issues` is one step.

### Settlement

What `Payment` promises: a request is paid once, while it is pending, and is
executed only with its payment, or cancelled. The refinement maps the payments,
with all their versions, to the sequence of requests they pay; the status is the
same variable. Everything else of `Payment` (tasks, executor, inbox, restarts) is
invisible. `released` is `exposed`: a released request may be paid again or too
late; also it is executed only with a payment.

### ClientProcess and Runner

`ClientProcess` is a vault from `main` to its exit: it tests whether the PID file
exists, reads it, looks up the process it names, truncates the file, writes its
pid, works, removes the file and exits; another process may run between any two
of these. Killed processes leave their file behind, process ids are reused, by
other programs too, and a zombie still counts as a process. Termination signals
are caught only once the file is written. `working` are the vaults that do their
work; `raced` records that a start overlapped another start or an exit, which the
file cannot exclude. Two consequences of the code that the model shows: a vault
that gets the pid its stale file names refuses to start because of itself, and a
file that is empty, because its writer was killed, cannot be parsed and refuses
every start until it is removed by hand.

`Runner` downloads, runs, polls, restarts and updates; `runner` is the place in
`auto_update` and `Runner::run`, `disk` the binary, `child_proc` and
`downloaded_release` the fields. `download_binary` compares no checksum, so that
`disk` may be `Damaged` while `downloaded_release` names the release; `damaged`
records that this download was, and only the next start of the runner notices.
`ReleaseIsRun` asks for the release on disk and a child that got past its PID file,
unless the download was damaged or a vault is `Barred` by the file as described
above. An error of any step ends the loop and, after
the child was terminated, the runner.

### CoinSelection and Wallet

`CoinSelection` translates the sizes, fees and selection of
`light/wallet.rs` in bytes and satoshi. `get_effective_value` saturates at 0, so
a coin worth less than its own fee is added at value 0 and nobody pays for its
bytes (`light/wallet.rs:139`): a transaction with such a coin pays less than the
rate, and `FeeIsPaid` excludes it (`WorthSpending`).

`Wallet` runs payments by either implementation (`kind`). A transaction is a
version of a payment with its inputs, change and fee; `pool` and `depth` are the
mempool and the confirmed transactions, external like the node's own coin
selection. The lock is held from funding to sending, in both wallets, and released
by an error; electrs may still list a coin that a sent transaction spends (the
code's TODO), which the mempool then refuses. `bump_fee` funds the old transaction again,
inputs included. With what a transaction replaces go all that spend its
change, directly or not (`WithDescendants`). A call may fail after it took effect,
also the sending of a replacement, after which the task waits for the version
before it had; a restart of the node
unloads the wallet, which `with_wallet` loads again and
`wait_for_transaction_metadata` does not. In the light wallet `bump_fee` is
`todo!()`, which ends the task, and a transaction counts one
confirmation fewer than with Bitcoin Core. A replaced version is not mined in
this model; that it may be is in `Payment`.

### Faucet and Startup

`Faucet` serves the requests in `Slots` concurrently, an await a step: type of
account (a query that fails counts as a user), claim and balance, transfers (of the
asked and the native currency, either of which may fail), claim record. `Startup` goes through `phase` from
connecting to `run`: connect to Bitcoin and to the parachain, check the
configuration, ask the faucet for native coins, make and register the public key,
register the vaults concurrently, fetch the vaults and their wallets, wait for a
block, spawn the tasks. `master` and `wallet` say which wallet holds which key;
`MasterWith` is the migration of the key from a vault's wallet to the master
wallet. `tasks` are the registration listener, the restart timer and one more
task that may end; a task subscribes to the shutdown signal when it is first
polled. `PromptPolls` says that this happens before another task ends; without
it a signal is lost and the service waits for its tasks for ever.

Every extrinsic costs `Fee` native coins, also if it fails, and is not executed by
an account that cannot pay. With an amount, `maybe_register_vault` gives the smaller
of the amount and the whole free balance as collateral (`system.rs:806-823`): of the
native currency the whole balance leaves nothing for the fee, and registration fails
at every start. With the faucet's coins, `TX_FEES` is kept back. `CoversFees` is what
the native balance must hold. Further
consequences of the code: a vault registered between the fetch and the
subscription is served only after the next restart; one vault that cannot be
registered (an amount the balance and the fees do not allow, no faucet url) keeps all from starting;
a failure after `register_vault` leaves the operational collateral undeposited,
because the next start finds the vault registered; a key that only a later
vault's wallet holds fails the fetch. The properties exclude what is
misconfigured for good through `CanStart`.

### Signer, PriceFeeds and Oracle

`Signer` is `with_unique_signer` with `notify_retry`: each call takes the nonce
and increments it, submits, and waits for its transaction to be final; refused
for its nonce or forked away it refreshes the nonce and is sent again, an
unanswered one times out. The pool and the chain of the account are external.
`PriceFeeds` takes routes and prices as logarithms, so that products are sums and
inversions negations, and is checked against what the currencies are worth.
`Oracle` composes them: validate, read fee and prices, connect, submit fee and
prices in concurrent tasks with retries, sleep; an error ends the process and a
supervisor starts it again.

Consequences of the code: `validate` accepts routes that visit a currency twice,
which do not price their pair (the reference leaves them out); a DIA price is
stored under the inverse pair, so that only the routes base to USD to quote come
out right; a configuration with neither value nor feeds is valid and its median
is not a number; a lost submission leaves a gap, behind which later calls wait
for their timeout of five minutes, which is also the limit of the retries, and
the queued transactions of an ended process may then replace a newer rate
(`RatesMoveForward` holds `~lost` against that); an error of a price or fee feed
ends the process (the code's TODO).

## 4. Runs

| Run | Result | What it shows |
|---|---|---|
| `payment` | holds | one request, two executors, two failures anywhere: `ImplementsSettlement` (with `UnexposedPaidOnce` and `PaysOnlyPending`) but for the three races; open requests are paid and mined payments executed without exception |
| `payment_two_paths` | violated | listener and executor both pay a request opened between subscription and query |
| `cancellation` | holds | `ValidListIsComplete`, `CancelsOnlyExpired` and `ExpiredRequestIsSettled` for two requests, with a failing query or cancel or a restart at any await, a late subscription, notices not sent, a changing period and an overflowing deadline |
| `cancellation_lost_list` | violated | a failed query followed by a block or `Executed` event leaves an empty list marked valid |
| `issue` | holds | two issues, one of a vault without a wallet, a failing call or a crash: `PendingIsWatched`, `ExecutesOnceWithProof`, `PaidIssueIsExecuted`, `DepositIsSpendable` |
| `relay` | holds | two reorganisations of any depth, interference and a fault, which may cut the forward pass short: `SubmitsOnlyConfirmed`, `SubmissionConnects`, `RelayCatchesUp` |
| `relay_genesis` | violated | initialised at height 0, the relay never advances |
| `startup` | holds | two vaults, all ways to register, all places of the key, the faucet, fees and a failure anywhere: `RunsWithKey`, `RegisteredIsServed`, `AutoRegisters`, `ServiceRestarts` |
| `wallet` | holds | two payments with a replacement each, two faults, either wallet: `FundedIsFresh`, `OnePaymentMined`, `FeeIsPaid`, `PaymentConfirms` |
| `runner` | holds | three processes, two runners one after the other, a new release, a damaged file, a kill and an error: `SingleService`, `NoChildForgotten`, `BinaryChangesWithoutChild`, `ReleaseIsRun` |
| `oracle` | holds | two rounds of two concurrent calls, routed and fixed prices, two faults: `RoutePricesPair`, `RoundIsFed`, `RatesMoveForward`, `RoundCompletes` |
| `faucet_race` | violated | two concurrent requests of an account are both paid |

The violated runs are findings; `PROJECT.json` quotes what the code's comments
say against what it does.

### Bounds

- Cancellation: two requests, one of which is pending when the process starts, opened
  under an earlier period of 0; the period is 1 and may change once. So one may
  expire before the other, the deadline of one may overflow and that of the other
  not, and of two drained requests one may not be reached. One fault, which is a failing query or cancel or a restart; over
  the periodic restart it may happen in any start. Heights up to 1 with periods 0
  and 1 give a request that is open, at the deadline and past it on either chain.
  `U32Max = 1` makes a deadline overflow. A channel of capacity 1 is always at its
  limit. At the largest height the listeners go on sending it, for the blocks
  beyond.
- Payment: one request; requests meet only in an executor's map, and what is proved
  is proved for any number of them (with two, survivors included, the states exceed
  ten million). Two failures allow a task to fail and the service to restart, two
  restarts in a row, or a restart that an executor survives and a transaction that
  is not read; one fee bump makes two versions of a payment. Three payments are the
  most that two failures lead to: a bound of four gives the same states.
- Relay: heights up to 5 with batches of two and one confirmation; two
  reorganisations, the second of which may come while the first is being caught
  up with.
- Issue: one payment, which may be short; two confirmations, so that the stream
  and the relay confirm a block at different times; one fault, which is a failing
  call anywhere or a crash. No issue is opened at the last height, so that a
  refused rescan is tried again with one block more, as in reality. The node has
  pruned nothing, or all but its last two blocks.
- Startup: two vaults, of the native and another currency; one fault or crash;
  one request at a time at the faucet (the concurrent ones are in `faucet_race`). An
  extrinsic costs one coin; the account has none, and may get three or more from the
  faucet, or exactly the four that key, registration and collateral take.
- Wallet: two coins of 600 or 4000 satoshi for two payments of 1000, so that one
  coin suffices, both are needed, or both do not suffice; the node restarts or a
  call fails twice.
- Runner: three process ids for two vaults and another program, so that ids are
  reused; one kill, one error, one new release.
- Oracle: all routes of up to three pairs over four currencies; two rounds, so
  that transactions of the first may meet those of the second; two faults (three
  pass too, in five minutes).

### Fairness

- Chains produce blocks and mine what is in the mempool: the clients' progress
  depends on it throughout.
- A task that can run is polled (`tokio`'s scheduler): weak fairness of the
  scheduler's, relayer's and services' steps. In `Cancellation` the senders
  compete for a bounded channel whose wakers are served in turn: strong fairness.
- The restart timer fires. In `Payment`, `Cancellation` and `Issue` it is enabled
  only when what the service was given has been handled, because it runs for
  three hours; restarts at other times are bounded by the constants. In `Startup`
  it is one of the tasks.
- A vault process and the runner are scheduled; a call of the runner that fails
  for ever ends it, so nothing is assumed of its calls.
- In `Wallet` the lock is fair (tokio's mutexes queue their waiters) and blocks
  include what is in the mempool. In `Signer` the node includes and finalizes
  what is next, and a call that is stuck times out.
- `Oracle`'s `Restart` stands for a supervisor, which the code leaves to the
  operator: `RoundCompletes` is conditional on one.
- Nothing is assumed of users, of other vaults or of the outcome of calls.

## 5. Proofs

`CancellationProofs` proves, for every set of requests, periods, ratio of block
intervals, channel capacity and bound, from `CancellationAssumption` only:

- `TypeCorrect`: `Spec => []TypeOK`.
- `ValidListComplete`: `Spec => []ValidListIsComplete`. The property speaks of
  the moments between two events only. The inductive invariant `Inv` adds what
  holds inside a handler: pending requests announced by the listener are in the
  answer under way, or their notice is still unsent or queued (`ListInv`), and a
  notice is only unsent or queued for a request that was opened
  (`NoticesAreTrue`).
- `OnlyExpiredCancelled`: `Spec => []CancelsOnlyExpired`. `HeightsLag` says that
  every height the scheduler holds, and every height in the channel, is at most
  the chain's, and `DeadlinesCurrent` that each listed deadline was computed
  from the request's opening and the period recorded in `listPeriod`. That the
  pallet agrees needs `RoundedUpCovers`: the rounded-up number of Bitcoin blocks,
  multiplied by the ratio, covers the period.

`PaymentProofs` proves, for every set of requests and every bound on fee bumps,
payments, failures and restarts:

None of these assumes anything of the constants but that the bounds are numbers.

- `PaymentTypeCorrect`: `Spec => []TypeOK`.
- `PaidAtMostOnce`: `Spec => []UnexposedPaidOnce`. The inductive invariant
  `PaymentInv` says that a request that is not exposed is owned by at most one of
  the listener's inbox, the executors' maps and the tasks (`OneOwner`), that a
  task about to pay has an unpaid request and a waiting one its own payment
  (`TasksPayOnce`), and that a payment of an open request is always where the
  executor has yet to look (`ScanIsComplete`). The last part is why listing the
  mempool first and determining the best block afterwards is the right order: a
  payment mined in between is found in the chain, and a fee bump in between
  would need a task of a request that has none. Nobody owns a request before it is
  opened (`UnopenedIsUnknown`), and an executor that is done has an empty map
  (`IdleExecutors`). The restart is the delicate step: what survives it keeps its
  owner, and what the new executor lists of it is exposed.
- `PaidOnlyWhilePending`: `Spec => PaysOnlyPending`, from `PaymentInv` and
  `SettledByPayment` (what is executed has a payment, what is cancelled has expired,
  and no task of a request that is not exposed sends past expiry).
- `PaymentImplementsSettlement`: `Spec => ImplementsSettlement`. Each action is an
  `Open`, `Pay`, `Execute`, `Cancel` or `Release` of `Settlement`, or changes none of
  the status, the exposed requests and which requests were paid (a fee bump and a
  block change a payment's versions only). `SendPayment` needs `PaymentInv` to be a
  `Pay` (unpaid and pending, or released), `Execute` needs `SettledByPayment` and the
  type invariant.

`IssueProofs`, for every set of issues and every bound, from `IssueAssumption`:

- `IssueTypeCorrect`: `Spec => []TypeOK`, with `ShapeInv`: the lock is free or one
  task holds it for one payment, and nothing of the service runs before the open
  issues are queried.
- `IssueExecutedOnce`: `Spec => []ExecutesOnceWithProof`. `HolderInv` adds that the
  issue whose payment is looked at is still watched (`CheckedIsWatched`): between the
  lookup and the end of the task nobody else touches the set.
- `OpenIssuesAreWatched`: `Spec => []PendingIsWatched`. It needs `HolderInv`, because
  the task that removes an issue executes it, and `ClosedAreOver`: the execute and
  cancel listeners are only told of issues that are over, and remove no other.

`RunnerProofs`, for every set of process ids and every bound:

- `RunnerTypeCorrect`; `RunnerKeepsChild`: `Spec => []NoChildForgotten`;
  `BinaryReplacedWithoutChild`: `Spec => BinaryChangesWithoutChild`. `ChildInv` says
  that the processes the runner spawned are its `child_proc` and no other, and that
  it has none wherever it handles the binary or starts a client.
- `OneVaultWorks`: `Spec => []SingleService`. Unless a start was `raced`, one vault
  starts at a time and one serves, the file names it until it removes it, a vault
  that has read the file knows it, and a vault that creates or writes the file is
  alone (`ExclusionInv`).

`RelayProofs`, for all chains, reorganisations, batch sizes and numbers of
confirmations:

- `RelayTypeCorrect`; `RelaySubmitsOnlyConfirmed`: `Spec => []SubmitsOnlyConfirmed`.
  `PlanInv` says that the batch is planned, and so far collected, within what is
  confirmed; a reorganisation only makes the chain longer.
- `RelaySubmissionConnects`: `Spec => []SubmissionConnects`. `JoinInv` follows the two
  passes of `compute_start_height`: the hash compared is one of a stored block or
  zero, the pass forwards follows stored blocks of the chain, and the headers are
  those that come after the last of them, or begin with the one at which an error cut
  the pass short. The lemma `StoreCallsDefined` shows that
  the recursive function of `utility.batch` exists for any number of calls, from the
  least number for which it would not.

`StartupProofs`, for every set of currencies and every configuration:

- `StartupTypeCorrect`: `Spec => []TypeOK`; balances never go below zero although
  collateral and fees are subtracted from them, what is served is registered, and no
  task outlives its service.
- `VaultRunsWithKey`: `Spec => []RunsWithKey`: a vault is served only while the
  account's key is in its wallet and in the master wallet, whichever had it before.

`WalletProofs`, for any number of payments, coins, versions and faults, and any
amounts:

- `OneVersionMined` (`OnePaymentMined`) and `FundedStaysFresh` (`FundedIsFresh`).
  The invariant is about the live transactions: no two are of one payment or spend
  one coin (`NetworkInv`); a payment that is made anew has none, one that is bumped
  has its transaction live or it has lost an input for good (`LiveInv`, `BumpInv`);
  a funded transaction is a version nobody has seen (`FundedInv`). That a
  replacement stands in conflict with what it replaces carries the proof:
  `KeptInputs` is what makes it so.
- `WalletTypeCorrect` (`TypeOK`): that the change and the fee of a transaction are
  amounts needs the worth of its coins to be one, and so that of every transaction
  the network ever accepted (`MoneyInv`), since a coin is the change of one.
- `WalletFeeIsPaid` (`FeeIsPaid`), in two parts. `FundingIs` is about
  `fund_transaction` alone: the coins taken cover the payment, the change and the
  fee to the satoshi, and the fee is the one asked for, because the fees of the
  parts, each rounded up, cover that of the whole (`FeesOfParts`) and a coin worth
  its fee is worth its effective value and that fee (`SumToDiffers`). `FeeInv` then
  carries it from the funding to the sending: the coins' names are unique, so that
  what they are worth does not change when others are made (`ValueStays`).
- A sum over a set is the library's fold, which takes the elements in an order of its
  own. `SumsExist` shows that the recursive function it is defined by exists for every
  finite set, `SumsAnyOrder` that any element may be taken first, and `SumOfImage`
  that the sum over a list without repetition is that over its set, each from the
  least subset for which it would not be so.

`OracleProofs`, for any number of currencies, rounds, processes and faults:

- `OracleTypeCorrect` and `OracleMovesForward` (`RatesMoveForward`). `PoolInv` says
  that the account's transactions have a nonce each and the best chain no gap,
  `GapInv` that while no submission is lost every nonce that was taken is in the
  pool or on its way, `OrderInv` that values grow with the nonces: what overtakes a
  submission on its way is of the same round.
- `OracleRoundIsFed` (`RoundIsFed`): `FedInv` says that a call that succeeded has
  its value on chain, for good, and `QuoteInv` that the quote is that of the
  configuration. Nothing is assumed of the configurations: a fixed value is
  quoted as it is, and what the feeds give is the rate for every price that
  `IsRouted`, that is with at least one feed and routes that lead from one currency
  of the pair to the other. `validate` does not see to either (a configuration
  without feeds has no median, and routes may pass a currency twice), so of such a
  price only the half on chain is claimed. The run has the shipped configuration,
  one with a fixed value, and one that is refused.
- `OracleRoutesPricePairs` (`RoutePricesPair`): for every set of currencies, values
  and decimals. `RouteIsPriced` is the argument: reduced up to each pair, the route
  prices its first currency in terms of the last, whichever way round (`ReduceIs`),
  because the names on a path are different. DIA's prices are those of a world in
  which currencies are worth the inverse, and the names with paths make `FeedPrice`
  invert what is left.

One lemma per group of actions and per part of the invariant; the temporal steps
only combine them.

What the attempts found in the models, at bounds no run had: `FundedIsFresh` as
it was stated first is false, because the replacement of a transaction that was
evicted with its parent keeps inputs that another payment may have spent
meanwhile (nobody accepts such a replacement, so that no coin is spent twice);
`FeeIsPaid` is false with a coin worth less than its fee; replacing a transaction
evicts all descendants, not only the children; and the resend of a replacement
can take effect and fail. The models and properties now say so.

Left to TLC: all liveness properties (fairness and ENABLED are out of the prover's
reach).

## 6. Not modelled

- Metrics, command lines, types and address conversions keep no state that the
  properties depend on. Cryptography, HTTP feeds and the Substrate and Bitcoin
  nodes are external.
- Replace acceptance (`handle_replace_request`) compares three queried numbers and
  submits one extrinsic that the pallet checks again; it keeps no state.
- Refunds (`vault/src/refund.rs`): the listener is not among the service's tasks.
- The block streams under a reorganisation deeper than the confirmations, which a
  FIXME of `iter.rs` mentions, and transactions that pay two issues at once, of
  which `find_map` executes one.
- Fee bumps of the light wallet, which the code has not implemented.
