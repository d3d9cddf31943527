# interbtc-clients in TLA+

interbtc-clients is the off-chain software of a bitcoin bridge. The **vault** holds bitcoin for
users of a parachain: it pays bitcoin when wrapped tokens are redeemed or a vault is replaced,
executes issue requests when deposits arrive, cancels requests that expired, and relays bitcoin
headers. `runtime` and `bitcoin` are its clients of the two chains; `oracle`, `faucet` and
`runner` are small services of their own.

The vault keeps almost no state of its own. What it must do follows from two chains that go on
without it, its tasks run concurrently, and its answer to every serious error is to stop all of
them and start over. The models therefore concentrate on what happens between two reads, around
a restart, and after a fork.

Each module models one component; some extend the module of a component they interact with.
`<Module>Proofs` holds the theorems about a module, `LifecycleProofs` those about `Service` and
`Runner`, `ChainProofs` those about `Rescan` and `Relay`. `MC<Module>.cfg` or `MC<Module>_<question>.cfg`
is a TLC configuration of `<Module>`, or of `MC<Module>` where constants are functions.
`PROJECT.json` maps each definition to the lines it models, and lists runs, mutants, findings,
hazards and theorems.

## Inventory

| Component | State | Operations | Interacts through | Correct if | Status |
|---|---|---|---|---|---|
| Redeem and replace payments (`vault/src/execution.rs`, `redeem.rs`, `replace.rs`) | none stored; tasks in memory, payments in mempool and chain | `execute_open_requests`, the two listeners, `pay_and_execute`, `wait_for_inclusion` with fee bumps, `execute` | parachain queries and events, bitcoin wallet, relay | each request is paid once, and executed or expired in the end | `Payment` |
| Cancellation scheduler (`cancellation.rs`) | list of open requests, its validity, two heights | `process_event`, `cancel_requests`, `get_open_requests` | bounded channel fed by four listeners | no open request is forgotten, expired ones are cancelled | `Cancellation` |
| Service life cycle (`connection_manager.rs`, `shutdown.rs`, `system.rs`) | shutdown flag and broadcast, tasks of a generation | start, subscribe, send, drain, restart | broadcast channel, `JoinHandle`s | a generation ends and none of it works on in the next | `Service` |
| Bitcoin relayer (`relay/`) | none stored; a round's heights and headers | `submit_next`, `compute_start_height`, `collect_headers`, submit | bitcoin node, BTC-relay pallet, other relayers | only confirmed headers, no vain ones, the relay catches up | `Relay` |
| Key import and rescan (`issue.rs`) | `RescanStatus` in the database | `update`, `prune`, `process_blocks`, `store`, rescan | wallet, pruning node, electrs | no block of a request's lifetime stays unseen | `Rescan` |
| Issue execution (`issue.rs`, `types.rs`, `bitcoin/src/iter.rs`) | `issue_set` under a mutex, position of the block stream | `initialize_issue_set`, `process_issue_requests`, three listeners, one task per transaction | bitcoin stream, events, relay, parachain | a request with a confirmed deposit is executed | `IssueExecution` |
| Submission of extrinsics (`runtime/src/rpc.rs`, `retry.rs`) | nonce counter of a connection | `get_fresh_nonce`, `with_unique_signer`, `notify_retry` | transaction pool | later calls execute after earlier ones; a gap does not stop the client for good | `Submission`, within `Oracle` |
| Oracle (`oracle/`) | none; rounds of values | fetch, connect, submit with retries, sleep; routes of pairs | feeds, parachain | newer values replace older ones, a round done is on chain, routes give the right rate | `Oracle`, `Prices`, `Feed` |
| Assets and lend tokens (`runtime/src/assets.rs`) | three tables of the process | store, insert, look up by symbol | events of two subscriptions | the tables follow the parachain | `Registry` |
| Vault ids (`VaultIdManager`, `system.rs`) | the vault ids served, the database | `fetch_vault_ids`, `add_vault_id`, the listener | parachain, database | all registered vault ids are served | `Registry`, `Metrics`, `Rescan` |
| Metrics (`metrics.rs`) | gauges by label, trackers of averages | polls, event listeners, initialization, update after a payment | parachain, wallet, vault ids | in the end the gauges show what is the case | `Metrics` (fees and balances left out) |
| Light wallet (`bitcoin/src/light`, `electrs`) | key store, creation lock | coin selection, fees, change, send, `bump_fee`, lookup by OP_RETURN | electrs | payments of a request exclude each other, others never do, fees are right | `Wallet`; the lookup in `Payment` |
| Bitcoin Core client (`bitcoin/src/lib.rs`) | creation lock, the node's wallet | connect, sync, load wallet, fund, sign, send, bump, retry | node that stops, hangs and comes back | the same, and calls return once the node answers | `Core`; scan and waiting in `Payment`, rescan in `Rescan` |
| Registration (`system.rs`, `vault/src/faucet.rs`) | none; collateral on chain | fund, register key, register, fund again, deposit | faucet, parachain | collateral is put up once, the vault comes up | `Registration` |
| Faucet (`faucet/`) | last claim of each account, flushed every 100 ms | `fund_account` | store, parachain | cooldown and balance limit hold | `Faucet` |
| Runner (`runner/`) | downloaded release, child process | `auto_update`, download, run, restart, terminate | parachain, processes, file system | the release on chain runs, once | `Runner` |
| Vault process (`main.rs`, `process.rs`) | PID file | create, remove | processes, file system | one vault per account | `Runner` |
| Connections, types, CLI, tracing, delays | configuration and conversions | | | | not modelled |

What is hard in this code: two parts of a generation that see the same request; a subscription
that starts later than the query it complements; a lock held across waits for other chains;
forks between two reads; restarts between sending and confirming; a bounded event channel; a
progress record that is saved in memory first and on disk later; nonces that run ahead of the
chain; coins that are chosen and not reserved; claims that are checked before they are recorded;
processes that outlive their parent. The `hazards` of `PROJECT.json`
list these at their lines, with the properties that would notice.

## Modules

**Payment.** `status`, `fresh` and `expired` are the parachain; `sent`, `mempool`, `mined` and
`depth` bitcoin and its relay, by payment; `phase`, `executor`, `open`, `events` and `task` the
vault. `Boot` and `Start` are `run_service` up to `await_parachain_block` and after it. The
executor is `QueryOpen`, then `ScanMempool` and `ScanChain` with a full node (two steps, as new
blocks may come between them) or `DirectLookup` per request with the light client, then
`HandleRest`; `fullNode` says which of the two the vault runs with. `Subscribe` and `HandleEvent` are the listeners. A task goes through `Fetch`,
`CheckDeadline`, `Send`, `Included`, `Relayed` and `Execute`; `BumpFee` sends another version of
its transaction. Addresses, amounts and fee budgets are left out. `Reorg` takes a payment back
to the mempool at any moment. If a task waits for the relay to have its block, it goes on waiting
for that very block (`"lost"`) until the relay reports it as one of a fork (`ForkReported`, which may
never happen), the block returns (`BlockReturns`) or the generation ends. `slipped` records the
requests with a payment that a fork took back between the two halves of the scan.

**Cancellation.** The channel is a sequence; a sender that finds it full waits. `Receive`,
`Query` or `QueryFails`, one of `HandleBlock`, `HandleExecuted` and `HandleOpened`, and
`CancelOne`, `CancelFails` and `CancelDone` are `process_event` call by call. Four senders
(`SendNotice` for requests opened and executed, `SendBlock` for each chain) run beside it.

**Service.** `SetFlag`/`Broadcast` and `Subscribe`/`ReadFlag` are the halves of
`ShutdownSender::send` and `subscribe`, which are not atomic. Services run under
`wait_or_shutdown` and are joined; listeners run under it and are not; jobs run under
`spawn_cancelable`. `Drain` waits for the number of receivers to become 0.

**Relay.** Each call to the node or the parachain is a step, with `Reorg`, `Sync` and
`OtherRelayer` between any two; going down, the relay and the node are asked one after the other
(`AskRelay`, `Backward`). A failed call ends the round (`RoundFails`), except for the node's in the
forward pass, which only breaks that pass off (`ForwardBreaks`, remembered in `cutShort`). A block is
the sequence of choices that lead to it, so that ancestry is prefix order.

**Rescan.** One step per call and per write of the database. `seen` is the set of heights at
which the wallet watched a request's address. The node prunes whenever it likes. `RescanBreaks` is a
rescan whose connection breaks: the client takes the chunk for scanned, and `lost` records what was
not.

**IssueExecution.** `watched`, `lock`, `issue` are `issue_set` and the task that holds it;
`next` is the stream's position; `task` says where the task of each transaction of each block
is: waiting for the lock, or holding it while it waits for the relay (`Relayed`), for its turn
(`Delayed`) and for the metadata (`Metadata`, or `MetadataTimesOut` a day later if its block is not in
the chain), before `ExecuteIssue`. `NoDeposit`, `Deposit` and
`LookupFails` are the three ends of the lookup; `skipped` records the outputs behind the one it found. Listeners insert and remove only when the set is
not locked. A request of this vault whose identity is not loaded, which
`listen_for_issue_requests` does not insert, is left out.

**Runner.** `runner` is the Runner with its child and downloaded release, `proc` the vault
processes, `disk` the files of the download directory, `pidfile` the PID file. The runner's steps
are those of `auto_update`; a vault goes through `PidFile::create` in two steps (check and
write; killed in the second it leaves an empty file), works, and removes the file on its way out.
A file of the download directory holds a release, exactly or written over the start of a longer
one, or junk. Process ids are handed out in order and used again.

**Faucet** and **Registration.** A request of the faucet is a slot that goes through the steps of
`fund_account`: kind of the account, checks of balance and last claim, the lock, the record, the
transfer, and the removal of the record after a failure. `disk` is the store as it was last
flushed. `Registration` extends it by the start of a vault: the tasks of all its currencies run at
once (`task`), each waiting for its own request (`waits`). Transfers and deposits that are sent again
after an apparent fork (`ResendTransfer`, `ResendDeposit`) leave the first one behind, which may still
be executed: a transfer in a slot of its own (`"adrift"`), a deposit in `late`.

**Submission**, **Prices**, **Feed** and **Oracle.** A job of `Submission` reads the chain's nonce,
takes one under the lock, submits, and watches until it is finalized, or is answered with an error;
`pool` executes by nonce. `Oracle` runs the fee estimate and the exchange rates as jobs, in two
halves that are retried on their own, and a value is the round it was fetched in. `Prices` has
prices as logarithms, so that a reduced route can be compared with the worth of the currencies.
`Feed` is the abstract specification: later rounds replace earlier ones and a round that is done is
on the parachain completely, until a process ends with transactions under way.

**Wallet**, **Core** and **Clients.** `Wallet` is the light client with real sizes and amounts:
each payment asks address after address for coins (`FundFromAddress`) under the lock of its client,
signs, sends, and may be bumped. `Core` has no amounts, as the node chooses; it has the node's
states, among them one in which calls time out (`"hung"`), the wallet that is unloaded when the node is
back, and each retry of `with_wallet`, of funding as of sending, and of `with_retry_on_timeout`.
`Clients` chooses one of the two, as the command line does.

**Registry** and **Metrics.** `Registry` has the parachain's assets, markets and vault ids, what the
process and the generation know of them, and a queue of events per subscription; `Metrics` extends
it by requests, deadlines and gauges by label. Both end in the same restart of a generation.

In all modules what the two chains do is `external`: modelled from how the code uses it.

## Runs

| Run | Shows |
|---|---|
| `payment_restart` | either client, one redeem request, two faults (crash, failed call, fork), two RBF versions: with a full node no generation pays what an earlier one paid, but for a fork between the two halves of the scan; execution rests on a relayed payment, each request is settled or expires |
| `payment_overlap` | *violated*: executor and listener of one generation both pay |
| `cancellation` | a trusted list is complete as long as queries succeed; expired requests are closed although calls fail and the service crashes |
| `service` | no missed signal, no overlap, every generation ends |
| `relay` | only confirmed headers, no gap and, unless a call failed in the forward pass, no header in vain; the relay catches up after forks and failures |
| `rescan_deposits` | no block is lost over crashes between chunks, unless the connection breaks during a rescan; the range is turned around only when all of it is pruned, and but for that the vault comes up again and again |
| `issue_execution` | no deposit to a watched address is overlooked, but behind another one in the same transaction; requests with confirmed deposits are executed |
| `runner` | one vault as long as runners end gracefully; with orphans the PID file keeps vaults apart except in the windows named by the property; the vault of the last release comes to run |
| `registration` | cooldown and balance bound of the faucet under concurrent requests, errors and crashes, of accounts whose record was not dropped and to which no transfer was sent twice; collateral is put up once, and once more for each deposit that was sent again; the vault comes up |
| `oracle` | the client implements `Feed`; all routes up to three hops over four currencies give the right rate; rounds end well again after a gap in the nonces, a fork or an eviction |
| `clients` | with either client: transactions of one request share a coin, a payment is never displaced by that of another request of the same vault id, fees are right; with Bitcoin Core every call returns and gives the lock back although the node stops and hangs, unless it hangs for ever |
| `metrics` | registries, vault ids and gauges agree with the parachain in the end; the time to the first deadline is zero when a redeem may be cancelled, and at the earliest one block before |

**Bounds.** The properties are about one request, and requests interact only through the tasks
and locks they share, so one or two of them are enough; `payment_overlap` needs one.
`MaxFaults` (and `MaxCrashes` etc.) bounds what the environment does wrong: two allow a fault
while another one is being recovered from. `MaxPayments = 2` is enough to see a request paid
twice. `Relay` has heights up to 5 with batches of 2 so that a batch may be full, short and
empty, and forks may be as deep as what was relayed. `IssueExecution` has 3 blocks: one with the
deposit, one that forks it away, and one that has it again; the proof covers any number of requests and outputs. `Rescan` has 4 heights and chunks up
to all of them. `Service` has two generations, as overlap concerns two, with one task of each
kind. Heights of `Cancellation` stop at 1 with periods of 0: a request may be open, expired by
one chain, and by both; `ChannelSize = 1` makes every sender wait.
`Runner` has two releases of the same file name and one of another, since a name decides whether a
file is overwritten and whether the PID file recognises a process, and more process ids than
processes so that ids are used again. `Registration` has one account with two currencies and two
requests at a time, one of which may be a stranger's; its three configurations are both currencies
by the faucet, one of them with an amount, and a faucet with an unknown symbol. `Oracle` has three
jobs, so that one half of the submission has several, two rounds and one fault. `Clients` has two
payments, three deposits (one for both payments, one with dust change, one uneconomic), two fee
rates and up to four transactions; for Bitcoin Core one coin, so that payments must depend on other's change, and two upsets (the node stops or hangs, an answer is lost, the wallet
reports an error). The fee rate changes once, so that each payment is replaced once; longer chains of
replacements are covered by the proofs. `Metrics` has two assets that may exchange symbols, one issue, one redeem, three
changes of the chains and one fault; two blocks of each chain take a redeem with a period of one past both deadlines. In `Payment` the bound on payments may keep a task from
sending; such a task counts as waiting when the restart timer fires.

**Fairness.** The vault's own steps are weakly fair: they are tasks of a runtime that polls
every task that is ready, and calls are answered or time out. `Cancellation` assumes strong
fairness of the senders, because `futures` channels wake waiting senders in order, and
`IssueExecution` of the waiters for the mutex, which tokio grants in order. Bitcoin and the
relay are fair where progress depends on them: transactions are mined, blocks relayed. Forks,
crashes, failed calls and users are never fair. The restart timer is a fair action where
liveness needs it: the code restarts every generation after `RESTART_INTERVAL`. As that is
hours, it fires in `Payment`, `Cancellation` and `IssueExecution` only when the generation has
nothing left to do, and in `Metrics` only after a complete round of polls.
`Runner`, `Registration` and `Oracle` are fair to the loop of the runner, the start of the vault,
the handlers of the faucet, the rounds of the oracle and the execution of transactions that are
next in the pool; the service loop or a supervisor starts a process again. `Core` is strongly fair
to a call that waits for the creation lock, as tokio's mutex is granted in order, and to the end of
its backoff; nothing is assumed of the node, but `CallsReturn` speaks only of behaviours in which it
does not hang for ever. `ForkReported` and `BlockReturns` of `Payment` are not fair. Signals, kills and lost answers are never fair.

`CHECK_DEADLOCK FALSE` is used in `issue_execution`, where bitcoin stops at its last block, and in
`clients`, where all payments are made in the end.

**Refinement.** `ImplementsFeed` is `Feed`'s specification with the oracle's jobs as keys. A round
retried after a time-out, a transaction sent again after a fork and one that executes late are
steps or stutters of `Feed` because nonces execute in order. `stray` marks the one case in which the
promise ends: there is no mortality period, so that transactions of a process that ended may execute
after those of the next.

**Type invariants.** Every module states one. Those of `Payment`, `Cancellation`, `Service` and
`IssueExecution` are checked and proved; those of `Rescan`, `Relay`, `Runner` and `Registration` (with
`Faucet`) are proved, and `Oracle`'s and what is needed of `Core`'s and `Wallet`'s are lemmas of their proofs. The
others document the state.

## Proofs

All theorems hold for every value of the constants that satisfies the module's named assumption.

- **PaymentProofs** `TypeCorrect`; `NoRepay` (of vaults with a full node, and requests that are not `slipped`). Being of one generation is
  not inductive: the invariant adds that what was sent is visible in mempool or chain
  (`Visible`), and that nothing on the way to a payment concerns a request an earlier generation
  has paid, at each stage: in the head block the listeners will see (`EventsNotOld`, which rests
  on `await_parachain_block`), in what the scan has not found (`ScanNotOld`, which rests on
  the order mempool first, chain second) and in tasks before the payment (`PayersNotOld`).
  `OnlyPaidExecuted` (of either client): a task that is about to execute holds the proof of a payment
  of its own request that is mined and relayed (`ProofHeld`), which no later step undoes
  (`SettledStays`), since forks do not reach below the confirmations that `Relayed` waits for.
- **LifecycleProofs**, `Service`: `ServiceTypeCorrect`, `SignalNeverMissed`, `NeverOverlap`. The flag is
  set before each broadcast (`FlagFirst`), so whoever has read it unset is subscribed in time
  (`Heard`); no receiver left means no task working (`Over`).
- **LifecycleProofs**, `Runner`: `RunnerTypeCorrect`, which needs to know that the runner has read a
  release wherever it uses one (`Knows`); `OneVaultIfGraceful`: the only vault is the runner's child, and
  is forgotten only once it has ended (`OnlyChild`); `FileGuards`: at most one vault is past the PID file,
  and while it works the file is its own (`Guarded`). The last two do not need each other.
- **CancellationProofs** `CancellationTypeCorrect`, `NeverForgets`. The list has what is due, or
  an `Opened` event is in the channel, or the event at hand will invalidate it; while requests
  are being cancelled the drained ones count too (`ListComplete`). `ExecutedAreOver` says that
  an `Executed` event, at any stage of its way, is about a request that is no longer open.
- **IssueExecutionProofs** `IssueExecutionTypeCorrect`; `NoDepositOverlooked`, for transactions with any
  number of outputs. The property is
  inductive given that only the task that holds the lock is past the lookup (`LockHeld`), that the stream is not ahead of the chain (`NotAhead`), that
  it has passed the blocks that have tasks (`Spawned`), and that only what was sent is mined.
- **OracleProofs** `FeedImplemented`: the refinement of `Feed`. The invariant `OInv` says
  that calls belong to the round (`Calls`, `RoundsBegun`) and, until a process ends with
  transactions under way, that the pool holds only this round's, each under a nonce of its own
  (`OwnPool`), that a call that waits is represented there (`Watched`), that what a failed attempt left
  behind goes ahead of the next (`InOrder`), and that a call that succeeded is on the chain
  (`Posted`). With it each step is one of `Feed`'s (`StepSimulation`). `RoutesAlwaysRight`: for
  routes of every length, by induction over the hops.
- **ClientsProofs**, Bitcoin Core: `CorePaysOnce`. A call follows a transaction of its own (`Follows`),
  what it is about to send keeps the coins of what it replaces (`Keeps`), so all its transactions
  spend one coin (`SameCoin`). `CoreNeverDoubleSpends` adds that only the holder of the lock has a
  transaction prepared (`Locked`) and that its coins are still free (`StillFree`), and that
  transactions of different calls conflict only if one of them is dead (`Apart`, `Dead`): a
  coin of it is spent in the chain, or was the change of one that is gone.
- **ClientsProofs**, light wallet: `LightPaysOnce`, `FeesAlwaysRight`, `LightNeverDoubleSpends`. A replacement begins with the first coin
  of what it replaces, because the previous inputs come first and no coins cover nothing
  (`LightFirst`). For the fee, the value of coins is their effective value, plus the cost of an input for
  each, less what uneconomic ones lose (`Balanced`, `FundedRight`); the worth of coins does
  not change when transactions are added (`StillWorth`). `LightNeverDoubleSpends` holds for any number
  of vault ids: what the holder of a client's lock has chosen is spent by nothing of this client in mempool
  or chain but what it replaces (`LightFree`), and nothing there is spent twice (`LightApart`). `ClientsImplyCore` and `ClientsImplyLight` say
  that the composition's behaviours are behaviours of each client, so that all of these hold of
  `ClientsSpec`.
- **ChainProofs**, `Rescan`: `RescanTypeCorrect`, `WalletComplete`. Of the blocks since a processed request was
  opened, those the wallet has not seen are in the queued range or in the chunk under way, of the
  status in memory (`StatusComplete`) and of the one in the database (`DbComplete`): a crash
  between any two writes repeats blocks and never skips one; blocks in `lost` count as seen. `Numbered`,
  `AllFound` and `Ranged` tie open times, heights and ranges together. `QueuedScannable` holds however the
  node prunes.
- **ChainProofs**, `Relay`: `RelayTypeCorrect`, `OnlyConfirmedSubmitted`, `NeverInVain`. What the relay
  stores goes back without a gap to the block it was initialized with, which the node's chain keeps
  (`Grounded`, `StoredChains`); hence the search for the start height, which counts down without a bound,
  ends there. `RoundHeights` bounds the batch by the height confirmed at the start of the round. While
  nobody interferes, the block below the batch is stored and its first one is not (`AheadFrom`), so that, as
  what is stored has no gaps, none is, and each header's parent is stored or goes before it
  (`BatchAccepted`); if the forward pass was cut short, the block below is stored or is the one at which
  both chains agreed, and only the absence of gaps remains. What a batch adds has no gaps either, by the least header that would make one
  (`AcceptedGrounded`).
- **RegistrationProofs** `RegistrationTypeCorrect`; `AllowancesPutUpOnce`, which needs to say where the
  registration of each currency stands (`PutUp`); `CooldownAlwaysKept` and `BalanceAlwaysBounded`. Requests see
  the balance before they wait for the lock, so the invariant must say by how much it may have grown
  since (`Relies`): by claims so young that they were under way then or came later, of each kind at most
  one (`ApartFrom`), all of which the record covers (`Recorded`), for each account whose record was not
  dropped and to which no transfer was sent twice (`Sound`). Ages of checks and claims are bounded (`Timely`), one request writes at a time
  (`OneWriter`).

The library's induction theorems cannot be instantiated by the provers; where an argument is by
induction (`FoldLeft` over a route, sums over coins, least and greatest elements), the proofs take a least
counterexample instead: `LeastNatural`, `FoldExists`, `SubsetInduction`, `SumExists`.

What the proofs changed in the models: `Faucet`'s `excused` also counts a dropped
record on which a request waiting at the lock already relied, which takes three concurrent requests
and had stayed below the bounds of the run; `NoDoubleSpend` names the one case in which the light wallet
does displace another request's payment (see Observations), and no longer stops at the first eviction; `Oracle` assumes at least one round, `Rescan`
finitely many requests and `Wallet` that the deposits are a sequence; `Core` and `Wallet` have the dependents of a
transaction as the least closed set.

Only model-checked: all liveness properties (fairness is out of the prover's reach), among them all
properties of `Registry` and `Metrics`. Every safety property that a
passing run checks is proved.

## Findings

`payment_overlap` is violated by the code: an executor and a listener of one generation may both pay
a request that is opened in the block the listener starts with. `PROJECT.json` quotes the comments
that say otherwise.

## Observations

Met while modelling; the models contain this behaviour, and the properties say where they stop
because of it.

- The light client's search for a payment leaves out the mempool (`electrs/mod.rs:240-243`): after
  a restart it may pay again. `NoRepayAfterRestart` is claimed of full nodes.
- A failed query makes the scheduler trust an empty list (`cancellation.rs:238`):
  `NothingForgotten` is claimed while queries succeed; `TrustedListComplete` says it without that.
- The scan for past payments lists the mempool and then reads the chain (`execution.rs:526`,
  `iter.rs:25-27`). A fork in between takes a payment back to the mempool that was already listed: the scan
  misses it and the request is paid again. `NoRepayAfterRestart` leaves out the requests this happened
  to (`slipped`), and no others.
- A task that waits for the relay to have a block that was forked away may wait until the next restart
  (`rpc.rs:1457-1469`): only a relay that knows the block as one of a fork reports it.
- The rescan range is turned around when the node prunes it to its end (`issue.rs:116`). It stays so in
  the database, and start-ups fail until another request extends it: `RangeScannable` and `ComesUp`
  name this case and show that it is the only one.
- Of a transaction with several deposits only the first watched one counts (`issue.rs:242`), in every
  generation if that one is too small. `NothingOverlooked` leaves out what was skipped in this way,
  `Executable` what is behind a payment that is too small.
- A deposit key whose import fails is only logged and its blocks count as scanned (`issue.rs:162`);
  a transport error of a rescan counts as its completion (`lib.rs:1059`) although the node may have
  scanned nothing. `NoDepositOverlooked` leaves out those requests (`failed`) and those blocks (`lost`).
- A task whose block was forked away keeps the issue set locked for up to a day, asking for the
  metadata of its transaction (`lib.rs:859-893`); listeners and all other tasks wait.
- A call that fails in the forward pass of the relayer breaks it off where it is (`relay/mod.rs:49-57`):
  the round submits headers the relay already stores. `NothingInVain` says what remains true then.
- The tasks of issue transactions are spawned without shutdown and outlive their generation
  (`issue.rs:58`); all they can do is to execute a request, as anybody may.
- If the block the relay was initialized with is forked away every round fails
  (`relay/mod.rs:44`); forks that deep are outside the bounds.
- An error while a block is fetched leaves the reverse stream where it is (`iter.rs:108`).
- Runner: the download neither truncates the file nor compares the checksum (`runner.rs:158-193`);
  the check of the PID file and its creation are two steps (`process.rs:45`), a crash between
  creation and writing leaves an empty file that keeps every later vault out, a process of another
  binary name is not recognised, and the file is removed before the tasks have stopped.
  `PidFileGuards` and `SettlesOnRelease` name these cases. The runner's README asks for a graceful
  end; `GracefulMeansOneVault` shows that this is enough.
- Faucet: the permit of the limiter is not used (`http.rs:290`), so no request is ever refused as
  busy; a failed request removes the record of the account outside the lock (`http.rs:303`); a crash
  within 100 ms loses a claim; `utility.batch` reports success after a failed transfer
  (`rpc.rs:468`); a transfer sent again after an apparent fork (`rpc.rs:302-304`) may be executed twice.
  `CooldownKept` and `BalanceBounded` exclude exactly the second, the third and the last (`excused`).
- Registration: a failure between the registration and the second funding is never made up for, and
  an account above the maximum in any currency gets nothing in the others (`ComesUp` names it). A
  deposit sent again after an apparent fork may be executed twice; `PutUpOnce` counts these.
- Oracle: transactions of an ended process may overwrite newer values (`rpc.rs:238`, no mortality); a
  price without value and feeds is the median of nothing (`feeds.rs:173`), which becomes a rate of 0.
- Light wallet: every vault id has a client and a lock of its own over the same key
  (`system.rs:281`), so that two vault ids may choose the same coin; `NoDoubleSpend` does not speak of payments that
  displace one of another vault id. If a payment is evicted while its fee bump waits for the lock, another may take
  its coins, and the bump then displaces that one (`light/mod.rs:266`): nobody looks again whether what
  is replaced is still there. An address without coins ends the stream although later ones have some
  (`wallet.rs:245`). A transaction without change cannot be bumped (`light/mod.rs:284`, unwrap).
- Bitcoin Core: two calls may both find the wallet unloaded after a restart of the node; the second
  load fails and ends its payment (`lib.rs:1028`). While the node accepts connections and does not answer,
  `with_retry_on_timeout` and `create_or_load_wallet` (`lib.rs:561-576`, `1021-1044`) try again without limit,
  if need be with the creation lock held by a payment that is being sent: `CallsReturn` assumes that it
  does not hang for ever.
- Metrics: the gauge of the time to the first deadline is zero at the deadline, one block before the
  request can be cancelled (`metrics.rs:511`, `cancellation.rs:155`). The average fee is taken from
  `list_transactions`, which is a stub of the light client (`light/mod.rs:135-138`) and with Bitcoin Core
  has replaced transactions, too (`metrics.rs:254-267`); no property is claimed of it, and it is not modelled.
- Registries: events between the reading and the subscription, and those of a block that cannot be
  fetched, are never seen (`rpc.rs:432`); the old symbol of a renamed asset stays in
  `symbol_lookup`; the error of `add_vault_id` is dropped (`system.rs:365`). The periodic restart
  repairs what matters (`RegistriesSettle`).

## Not modelled

- `delay.rs`: a hash decides how long to wait; the models allow every delay.
- `conn.rs`, `types.rs`, `addr.rs`, the command lines and tracing: conversions and configuration.
- HTTP clients of the single price feeds: a fetch succeeds or fails as a whole.
- Accepting other vaults' replace requests; of the metrics the average fee, the fee budget, balances and tokio.
- Merkle proofs, signing, script types other than p2wpkh.

## Plan

1. Done: all components of the inventory but those above; `Feed`; eight proof modules.
2. Proofs: the types of `Submission`, `Registry` and `Metrics`; an invariant of `Registry` that says
   what a generation has missed.
3. Further abstract specifications: a payment ledger that `Payment` implements per generation; a
   reliable shutdown signal that `Service` implements.
4. Blocks that cannot be read in `Payment`; the fees of `Metrics`, over a model of the wallet's list.
