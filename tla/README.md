# TLA+ models of Ledger Live Common

Ledger Live Common is the library under the Ledger Live applications: it
synchronises accounts, talks to the hardware devices, installs applications on
them, keeps countervalues, and drives transactions and exchanges.  It is a
JavaScript library, so there is one thread; what makes it hard is that almost
every operation is asynchronous (promises, rxjs observables, React effects,
timers) and that callers, devices, servers and users act between any two of its
steps.  The modules here model those parts, TLC checks them on small instances
and TLAPS proves the properties that matter most for all instances.

Paths below are relative to `src/src` of the repository.

## 1. Inventory

| Component | State | Operations | Hard behaviour |
|---|---|---|---|
| Device access, `hw/deviceAccess.ts` | a chain of promises per device, the interrupted transports, access hooks | `withDevice`, `withDevicePolling`, `cancelDeviceAction` | concurrent callers, unsubscription at any point, failures of open, job and hooks, polls |
| Account synchronisation scheduler, `bridge/react/BridgeSync.tsx` | sync state of each account (React state and a ref to a closure over it), a priority queue of tasks, `skipUnderPriority` | the `Sync` actions, background loop, pending-operations loop | effects run later than the state they close over, priorities, several workers |
| Account update, `bridge/jsHelpers.ts`, `account/pending.ts` | operations, pending operations, block height of an account | `makeSync` updaters, `mergeOps`, `addPendingOperation` | a sync answers about a snapshot, and its update is applied to a later account |
| Apps manager, `apps/logic.ts`, `apps/runner.ts`, `apps/react.ts` | installed apps, install and uninstall queues, the app being operated | install, uninstall, wipe, update all, runner events | dependencies between apps, user actions during an operation, errors |
| Libcore access, `libcore/access.ts` | job counter, flush timer, last flush | `withLibcore`, `afterLibcoreGC`, `reset` | flushes that race with jobs |
| Transaction form, `bridge/useBridgeTransaction.ts` | account, transaction, status, pending status | set account / transaction, asynchronous prepare and status | stale answers, retries with backoff |
| Caches, `cache.ts`, `bridge/cache.ts` | promises by key, preloaded data by currency | `makeLRUCache`, `prepareCurrency`, `hydrateCurrency` | an old failure or a slow read that lands after a fresh value |
| Promises, `promise.ts` | - | `retry`, `atomicQueue`, `promiseAllBatched` | bounded concurrency, ordering |
| Connect app, `hw/connectApp.ts`, `hw/actions/app.ts` | events of the connection, polling timers, state shown to the user | connect, open / quit / install app, polling | device disconnects, late timers |
| Device socket, `api/socket.ts` | web socket, APDU in flight, bulk mode | exchange, bulk, success, error, warning | disconnection, unresponsive device, interruption in bulk |
| Countervalues, `countervalues/` | rates, pending flag, failures | load, wipe, poll | wipe or import during a load |
| Bitcoin wallet, `families/bitcoin/wallet-btc/` | transactions and unspent outputs of the addresses of an xpub | sync with gap limit, address discovery | overlapping and failing syncs, replaced blocks, restarts |
| Bitcoin spending, same directory | none; a search in `CoinSelect` | pick outputs, add a change, estimate what can be spent | fees and sizes in fractions, an estimate and a picking that count differently |
| Accounts, `account/`, `reconciliation.ts` | the list of accounts | add, import, order, reconcile | duplicate and migrated accounts |
| Exchange, `exchange/swap/`, `exchange/sell/` | exchange with device, swap history | start, complete, rates, KYC polling | device, server and user steps in order |
| WalletConnect, `walletconnect/` | session, connector, call request | connect, approve, disconnect | late connector events |
| Notifications, `notifications/` | fetched announcements, seen ids, incidents | state machines of announcements and status | updates while fetching |
| Manager and firmware, `hw/connectManager.ts`, `hw/firmwareUpdate-*.ts`, `hw/actions/manager.ts` | device mode, update steps | manager connection, firmware update | device restarts between the steps |
| Coin families, `families/*` | per-coin account data | fetch and serialise per coin | servers only |
| Rest | - | currencies, derivation, portfolio, env, logs, csv, QR, platform, nft, compound, bot, cli, mobile test app | pure functions, I/O or drivers of the above |

### What makes each component correct

* Device access: one job and one open transport per device, served in the order
  of subscription; every place in the queue is given back, every transport is
  closed and every hook cleaned up; an interrupted exchange is flushed before
  the next job; no job starts for a subscriber that went away.
* Synchronisation scheduler: an account is synchronised by at most one worker;
  a request is neither lost nor executed twice; nothing below
  `skipUnderPriority` runs; a pending state is always left again.
* Account update: operations stay sorted and without duplicates, nothing that
  the server reported disappears, a pending operation goes when it is confirmed.
* Apps manager: an app is never installed without its dependencies nor removed
  under its dependents; the queues contain what the user asked for; the state
  predicted from the queues is the one the device reaches.
* Libcore access: no job runs while libcore is flushed, and what waits for a flush
  gets one.
* Transaction form: the status that is shown is that of the transaction that will
  be signed; what the user typed is not taken back; the form comes to rest.
* App connection: one command is polled at a time and polling goes on until the
  app is opened or something is missing; an app that is opened has its dependencies.
* Device socket: it ends however network, device and user act; a bulk that is cut
  is followed by a flush; a permission is asked for its exchange only.
* Countervalues: incremental loads miss no day, no change of the settings is
  lost, loads do not overlap.
* Bitcoin wallet: the unspent outputs are those of the chain, whatever failed, was
  replaced or came in another order; every caller of a sync gets its answer; the
  address to receive on is unused.
* Bitcoin spending: the fee fits the size at the asked rate, what the estimate
  promises can be sent, and the search finds the least waste.
* Caches: a value is never older than one that was already returned.

## 2. Plan

The components are taken in the order of what breaks most when they are wrong.
There is one module per component, with one run that holds what the component
promises; where the code departs from what it says of itself, section 5 says so,
and a run of its own shows the case that no condition could leave out cleanly.

| | Module | Component | State |
|---|---|---|---|
| A | `DeviceAccess`, `DeviceLock`, `AccessProofs` | device access and its abstract lock | done, proved |
| B | `BridgeSync`, `AccessProofs` | account synchronisation scheduler | done, safety proved |
| C | `AppsManager`, `Lists`, `AppsManagerProofs`, `ListProofs` | apps manager | done, safety proved |
| D | `EthereumAccount`, `Lists`, `EthereumAccountProofs`, `ListProofs` | account update, with the Ethereum family | done, safety proved |
| E | `LibcoreAccess`, `AccessProofs` | jobs and flushes of libcore | done, proved |
| F | `BridgeTransaction`, `AccessProofs` | transaction form | done, safety proved |
| G | `XpubSync`, `Lists`, `XpubProofs`, `ListProofs` | bitcoin wallet | done, safety proved |
| H | `BitcoinSpending`, `Lists`, `BitcoinProofs`, `ListProofs` | picking of outputs and fees | done, proved |
| I | `AppConnection`, `ConnectionProofs` | polling of the app actions with its timers | done, safety proved |
| J | `Countervalues`, `CountervaluesProofs` | loads, wipes and imports | done, proved |
| K | `DeviceSocket`, `ConnectionProofs` | web socket, device and subscriber | done, safety proved |
| L | caches, scan and import of accounts, walletconnect | | left out, section 6 |

The components meet at narrow interfaces, and each module takes the other side as
its environment: `AppConnection` has commands that answer late or never, which is
what `DeviceAccess` makes of a busy device; `DeviceSocket` calls
`cancelDeviceAction`, the step `CancelDeviceAction` of `DeviceAccess`;
`BridgeSync` starts the syncs of `EthereumAccount` and `XpubSync`, and
`BridgeTransaction` asks a bridge that, for bitcoin, is `BitcoinSpending`.

## 3. Modules and runs

Every `MC*` module only gives constants their values.  `PROJECT.json` maps each
definition to its lines.

### 3.1 Device access: `DeviceAccess`, `DeviceLock`

A session is one subscription to `withDevice(deviceId)(job)`.  `phase` is the
place of its promise chain; `tail` is `deviceQueues`, `prev` and `finished` are
the promises of the queue, `open` and `hooked` what a session holds, and
`needsCleanup` the map of the same name.  `interrupted` is the state of the
device that `needsCleanup` has to remember, and `ahead` a history of who was
chained earlier.  Actions: `Subscribe` and `Retry` (a poll after a failed job)
enqueue; `StartOpen`, `OpenOk`, `OpenFails`, `FlushDone`, `PriorityDone`,
`PriorityFails`, `StartJob`, `JobThrows`, `JobEnds` and `Closed` are the
continuations of the chain; `Unsubscribe` may come at any time.  What an
asynchronous call answers, and when, is nondeterministic.  `MayThrow` names the sessions
of which a job, a hook (`JobThrows`) or the cleanup of a hook (`CleanupThrows`) may throw.

`DeviceLock` is the abstract specification: who is out, waits, holds the device
or has given it back, in order of arrival.  `LockSpec` says that `DeviceAccess`
implements it under the mapping `LockStage`.

Run `device_access`: two callers and a poll of the first on one device, which is
what it takes for a session to wait behind one that waits, and a caller on
another device.  The job of the first may throw and its connection priority, or
that of the second, may be rejected.  The run checks exclusion, order, flush and
that everyone is served; types, order of the queue and cleanup are proved.  Fairness: weak fairness of `Advance`, the
continuations; it says that opens, closes and flushes are answered and that
jobs end, which transports ensure by their timeouts.  Nothing is assumed of
subscribers.  Deadlock is not checked, since all sessions may be over.

### 3.2 Scheduler: `BridgeSync`

`state` and `known` are what React rendered last, `seen` what the closures in the
refs know.  With `LateEffects` a closure is as old as passive effects allow: they
run, at the latest, before the next render (React 17; a `setState` outside of an
event handler renders at once).  `queue` is the heap of `async/priorityQueue` by
stored priority, `numRunning`, `scheduled` and `processing` its internal state,
modelled from how `synchronize` and `schedule` use it.  The actions are those of
`Sync`, the two loops, and a worker's drop, start and end of a task.

Run `bridge_sync`: two accounts, of which one has pending operations and a bridge
that may throw, two workers, closures that are late, two actions of the user and
priorities that include the opposite of the background's.  Two of each suffice
for a worker to hold a closure that another one made stale.  `stale` remembers the
accounts that a worker ever took up (`TakenUp`) with a closure that did not know their last
state.  `PendingIsOneSync` says that a pending account has a sync that will end it
(`NoPhantomPending`), and that any other than those is pending exactly while one sync of it
runs (`OneSync`).  `AccountsReached`
is for accounts that stay known while the background is not skipped and no
known account has pending operations.  Fairness: the processing loop goes on
(weak), and effects, `setImmediate`, timers and ends of syncs find the thread free
infinitely often and then happen (strong).

### 3.3 Apps manager: `AppsManager`

`state` is the `State` of the reducer with the fields that its logic reads; each
action of the reducer is an operator from state to state.  `device` is what is
really installed.  `setting` says who runs the queues (`useAppsRunner`, which
takes the next operation of the current state, or `runAll`, which follows a plan
made once), whether the user acts meanwhile, whether versions are mixed and
whether operations fail by themselves.  `goal` and `predicted` are histories.

Run `apps_manager`: two apps that need a third one, an app that is not in the
store and one with the empty name; any subset that respects the dependencies is
installed, in any order, any of it outdated, and an app may be restored; two actions
of the user, which is what it takes for one to undo the other.  `AppsAssumption` says that
dependencies have one level and that the user acts meanwhile only under the hook.  Four settings: a user who waits, one who
does not while anything goes wrong, and `runAll` with and without faults.
Fairness: device operations end.

### 3.4 Account update: `EthereumAccount`

`account` has operations and pending operations of an address and of one token
account.  A sync takes a snapshot (`StartSync`), computes the shape from the
explorer (`Fetch`: incremental from the last stable operation) and answers with a
function that is applied to the account of that moment (`Update`: `makeSync` with
`mergeOps`, then `postSyncPatch`).  `Broadcast` and `AddPending` are the two
steps of sending.  The chain is the environment: `NewBlock`, and `Reorganise` by
branches no deeper than `SAFE_REORG_THRESHOLD`.  Dates are block heights.

Run `ethereum_account`: an address with one old transaction, up to three that
are sent, one of which takes the nonce of another, one that is received with a
high nonce of its own sender; a threshold of two blocks and four blocks, so that
syncs become incremental; settings with two overlapping syncs, with one
reorganisation, and with a replaced transaction.  `SentIsVisible` and
`Converges` relate what the user sent, what is pending, the history and the
chain.  Fairness: syncs are started, applied, and do not fail for ever; the
scheduler above is what starts them.  It is written out (a sync that can fetch again
and again does so again and again) instead of with `WF_` and `SF_`, which mean the same
here: whether a merge is enabled is expensive to ask, where it waits for is not.
The histories are merged by recursive functions, which can be proved about.

### 3.5 Libcore access: `LibcoreAccess`

`caller` says what each call of `withLibcore` waits for, `awaits` the `lastFlush`
that it read, `flushing` what each flush does (the library or an item), `items`
and `afterLibcoreFlushes` the promises of `afterLibcoreGC`.  The await of `load()`
is a step of its own (`CoreLoads`, `Loaded`, `LoadFails`), since `lastFlush` is read
behind it.  `Reset` and `ResetEnds` are the two halves of `reset`.

Run `libcore_access`: three callers, three items and three flushes, all symmetric,
so that a job meets two flushes and a flush two items.  `JobsAwaitFlush` is about
the flush that began last while `afterLibcoreGC` is used, and about every flush before
that.  Deadlock is checked: callers come back.

### 3.6 Transaction form: `BridgeTransaction`

`form` is the state of the reducer, `work` what the effect that ran last does
(`debounce`, `prepare`, `check`, `retry`), `leaked` the timers that nothing can
cancel any more, `dirty` that the effect of the last render is due.  Transactions are
compared by reference, hence the `copy`.  `setting.late` lets passive effects run
some time after the render; `setting.restores` lets the user take back the
transaction that has a status.  The form begins empty, with an account, or with a transaction
(`optionalInit`).  `wanted` is what the user asked for last, and `overtaken` says that since
then an answer or a retry came between a render and its effect, or a retry came that
nothing could cancel.  Only then may an edit be lost, and `NothingLost` says as well that
this never happens when effects are in time.

Run `bridge_transaction`: two accounts and one whose bridge throws, one edit and the
blank one, so that an answer may be about another account or another edit; three
copies, so that there always is another object than any two.  Fairness: effects, debounce and
timers come (weak); the bridge, which may fail any number of times, succeeds if it is
asked again and again (strong).

### 3.7 Bitcoin wallet: `XpubSync`

`wallet` holds the fields of `Xpub`, the calls of `sync` with a task for each address,
and the microtasks; `storage` what each address has.  The gates that `whenSynced` waits at
are `all`, an account and an address.  A caller that finds one open goes on in a microtask,
which shuts it (`PassAll`, `PassAccount`, `PassAddress`), in order and before any answer of
the explorer (`Quiescent`); between the look and the microtask others may find the
gate open as well.  Chain, mempool and explorer are the environment: transactions are
sent, mined and replaced by other blocks, and an answer is computed when it arrives.

Run `xpub_sync`: a payment, one that spends it with change to the same account, and
one beyond the first block of addresses; a gap of two and a page of two, the
smallest that have both a next block and a next page.  `MaxIndex` bounds the blocks
of addresses: an answer that would begin one beyond it is not given.
Settings with three calls, two with more events of the chain, and one or two
with requests that fail and restarts.  `quiet` remembers the call that passed `all`
while no other had anything in hand (`Alone`), until the chain moves: `Agrees` is about
that one.  `NobodyForgotten` and `FreshUnused` name the numbers of calls for
which they hold.

### 3.8 Bitcoin spending: `BitcoinSpending`

A request (outputs, strategy, rate, amount) is a constant of a behaviour; the steps
are those of the search of `CoinSelect` and the building of the transaction.
Sizes are in weight units and money in quarters of a satoshi, so that all is integer.
A sort is the list whose places are the ranks of the outputs (`SortBy`), of which ties
keep their order, and a sum over a list is a recursive function (`SumOver`).

Run `bitcoin_spending`: all lists of up to three outputs, and of four confirmed ones,
with values below the cost of an input, just above it, above the dust and above
everything; three pairs of account and recipient, both dust policies, all
strategies; amounts around the values; and one output that pays just for 253 outputs to
the recipient, from which on their count takes three bytes (`byteSize`).  With a limit of three tries a search is
stopped.  An output holds at most 20000 instead of the maximal 32-bit number.
Deadlock is not checked: a request ends.

### 3.9 App connection: `AppConnection`

`hook` is the reducer with the closure variables of the polling, `job` the command
`connectApp` (one variable for each, since one event changes many of their fields),
`plugged`, `running` and `installed` the devices.  Time goes by in ticks of a
second; a timer that has run out fires before the next tick.  The user plugs,
unplugs, opens and quits at any time.

The command asks what runs.  From the dashboard it installs the dependencies, one after
another (`Install`), and asks to open the app; from another app it quits (`Quits`, `Quit`,
`AskQuit`) or, when the right app runs, derives an address if one is asked for (`RightApp`,
`Derived`).  A device that does not know the command that names the app goes the old way
(`Fallback`, status 0x6e00 or 0x6d00): the app is derived for and opened without a look at
its name, its version or its dependencies, which the model shows as `"opened-unknown"`.
`InstallEnds` is the end of an installation, whether it succeeded, failed or lost its
device: `runAppOp` makes the error an event, so that the dependencies are resolved in
each case.  `hook.deps` is the ref `dependenciesResolvedRef`; beyond the code it knows
whether the installation that set it was `"cut"`.

Run `app_connection`: all delays of the code but the timeout of the polling, which
is cut to six seconds so that it still comes after all others; an app and a
dependency; one device and three moves, two devices and one move, and one device with
one move whose commands and installations may fail, with and without an address to
derive.  `DependenciesReady` is about an app that was opened by its name and version, on one
device, by a hook whose dependencies were not resolved by an installation that was cut
since the last retry: see section 5.  Fairness: time goes on and timers fire; nothing is
assumed of devices, so that `Ends` rests on the timeouts.

Run `app_connection_disconnect` (violation): "any connect app event unschedule the
disconnect debounced event" (`hw/actions/app.ts:464`) does not hold: the timer is
lost, not cleared, and tells the disconnection of a device that is back.

### 3.10 Countervalues: `Countervalues`

`c` is the provider (state, trigger, pending, settings and the effects that are due),
`loads` the loads that run with the state and the settings they began with.  Hours
are the unit of time; a rate is known or not.  Any request of a load may fail, with a
status that makes it wait or not, and the fetch of the latest rates as well.  `autofillGaps`
is a setting that the user may change while the program runs: it decides whether
`generateCache` fills the gaps of the cache, the zero of a failed fetch of the latest
rates among them.

Run `countervalues`: one pair, days of two hours, up to the third day, the hourly
limit of one day, a history that starts with the first or the second day; settings
with changes, with a wipe, with a restart, and with changes of `autofillGaps` and a restart.
`RateShown` is about caches that were made with gaps filled.  That is enough for a day to be
missed between two loads, and for a load to begin, change or be wiped in another.

### 3.11 Device socket: `DeviceSocket`

The flags are those of `createDeviceSocket`.  `handler` is the message whose answer
is awaited, `device` whether it works on it or is gone, `told` the permission that was
shown last, `flush` whether `cancelDeviceAction` was called.  `End` is the teardown,
which any of error, completion and unsubscription reaches first.

Run `device_socket`: three exchanges, so that the timer of one may meet another, and
bulks of up to two APDUs, of which the second may be cut.  Fairness: a device answers
or the transport rejects, a socket opens or fails, and a server whose turn it is says
something or closes; a server that says nothing for ever would keep the socket
open, since there is no timeout of its own.

## 4. Proofs

Each proof module holds for all values of the constants under the assumption
that its component names (`ConstantsAssumption`, `BridgeSyncAssumption`,
`AppsAssumption`, `FormAssumption`, `LibcoreAssumption`, `SocketAssumption`,
`AppAssumption` with `DebounceAssumption`, `CountervaluesAssumption`, `SpendingAssumption`,
`XpubAssumption`).

Device access, any number of sessions and devices:

* `TypeCorrect`: every action keeps the types.
* `QueueCorrect`: `QueueInv` is inductive with the types.  Exclusion alone is not:
  that a session has its turn only says that the one before it has finished.
  The invariant therefore links every session to all of those ahead of it
  (`Linked`), says that the tail has all others ahead (`TailIsLast`), that any two
  are in order (`OneLine`), and that who has left the line has finished
  predecessors (`InOrder`, `FinishedIsOver`).
* `JobsExclude` and `TransportsExclude` follow: of two sessions of a device
  one is ahead of the other, so that it has finished, so that its job is over and,
  by `CleanedUp` with `EarlyHoldsNothing`, its transport is closed.
* `ReleasedBeforeTold`: who is told the end has given the place back, unless the
  job threw.
* `FlushCorrect` assumes `DistinctIds`, one transport id per device: an
  interrupted device is remembered or being flushed (`FlushPending`) until a
  session passes the flush.
* `ImplementsLock`: initial states map to initial states of `DeviceLock` and steps to
  steps or stuttering, with `QueueInv` for the order.

Scheduler, any number of accounts and workers:

* `OneSyncAtATime`: both parts of `PendingIsOneSync` are inductive with the types.  A worker that knows
  the last state of an account takes it up only if no sync of it runs (`OneSyncStep`); who did
  not know it makes the account `stale`.  Nothing is assumed of the effects.

Apps manager, any finite set of apps, any store, any number of actions:

* The operators are loops over lists.  In `ListProofs`, `Iterates` shows once that a
  recursive function of their form has the values that its definition says, and `Induct`
  is induction over the numbers for one set of them.  From these follows what each operator keeps, adds and
  puts in order (`KeepingFacts`, `PushedFacts`, `ReorderFacts`), and what each
  action of the reducer makes of the queues as sets (`InstallFacts`, `UninstallFacts`,
  `UpdateAllFacts`, `RunSuccessFacts`).
* `QueuesStayInOrder`, `ErrorsStopTheHook` and `UpdatesEnd` come from one invariant,
  `RunsInv`: the queues are in order, only `runAll` has a plan, and after an error the
  hook has nothing queued, since the user acts on a state that has nothing to start.
* `DeviceNeverRefuses`: that queues are in order says nothing of what is on the device.
  `Doable` does: the installed apps have what they need and are outdated with it, who
  needs an app that goes goes too, and what an app to install needs is there, up to date
  and stays, or is to be installed as well.  Every action leads to such queues
  (`InstallDoable` and its like), the head of their plan is allowed, and the rest is
  `Doable` again (`RunDoable`).  By `PlanTail` the rest of a plan is the plan of the next
  state, so that `runAll`, which plans once, does what the hook does.  The theorem assumes
  `OneDependency`, no app with two dependencies, as in the table of `apps/polyfill.ts`.
  With two, the update of one of them leaves an app that is up to date on another
  that is not, and the update of that one is refused.
* `QueuesReachTheGoal`: `GoalInv` says that the goal and the prediction both are what the
  queues lead to (`Result`), which no operation changes.  The theorem assumes moreover
  `RestoredApart`, that no two apps to restore need the same one, see section 5.

Account update, any transactions, any initial chain, any number of syncs and branches:

* `mergeOps` is a loop over two lists as well.  `MergeFacts` says what it makes of two
  histories if the fetched one covers the old one (`Covered`): what is from the threshold
  on is what was fetched, what is below is kept, and the order is that of the chain.
* `OrderTheorem`: `OrderInv` says that the histories of the account, of each snapshot and of
  each answer are those of a chain and in its order, and that answers cover snapshots.
* `ChildTheorem` needs that a token account exists only with its transaction (`AloneInv`).
* `HistoryTheorem`: nothing that was stable is lost.  A threshold is never below the first
  transaction, which no branch moves (`RootInv`), and so it is for a token account
  (`TokenInv`).  It assumes that a token transaction is in the past, without which
  a merge with an empty history drops what section 5 says.
* `VisibleTheorem`: `SentInv` says of every history that a transaction of the user in the
  chain below what was last fetched is in it (`Complete`), and that nonces have no gaps
  (`GapFree`), so that what `postSyncPatch` does not retain has been found.  It assumes that
  the past has a transaction of the user, because of nonce 0, see section 5.

Transaction form, any accounts and edits:

* `FormTypeCorrect`; `NewIsCopy` is where the assumption is used that there always is
  another object.
* `StatusIsOfForm` and `EditsAreKept`: neither is inductive, since they say nothing of
  the work in progress.  `FormInv` adds that the status is about the transaction it is
  kept with, and that what is worked on while no effect is due was begun for the edit of the
  form (`WorkFits`), however late that effect was; what is worked on while one is due makes
  the form `overtaken` when it answers.  Unless effects are late, `InTime` adds that none is
  due and no timer is leaked.  The forms of `optionalInit` fit as well (`OptionalFits`).

Libcore access, any finite set of callers, any items and flushes:

* `CounterCorrect`: the counter is the number of busy callers (`Counted`), from the
  library's facts about finite cardinalities.  Everything else needs it, since the
  code asks the counter and not the callers.
* `NoTimerUnderJob`: the timer and a caller exclude each other (`TimerAlone`).
* `JobsExcludeFlush`: no flush begins under a caller, so that what a caller read
  from `lastFlush` is `lastFlush` until it is resolved (`AwaitsLast`); before
  `afterLibcoreGC` is used there is one flush at a time (`OneFlush`).
* `ItemsWait`: `ItemsServed` is inductive with the above.

Device socket, any number of exchanges and APDUs:

* `BulkIsFlushed` and `PermissionIsOfExchange`: `BulkMarked` says that a bulk that goes
  on is marked, unfinished, and behind a socket that says nothing any more, without
  which a message of the server could end it as a success; `AskedByTimer` that only a
  timer that has fired asks.

App connection, any devices, delays, settings and acts of the user:

* `PollingGoesOn`: `OnePoll` is nearly inductive; what it needs is that nothing of a
  job is left when there is none (`JobOK`) and that the timer of the next job counts down
  to 0 before it is off (`HookOK`).  The proof does not look at what events mean:
  `TellKeeps` and `OnEventKeeps` show that telling an event never ends the
  subscription nor moves the timer of the next job, whatever the reducer does with
  it, since what shows at once is never an end.  Only the debounce and the end of a job do.
* `OpenedAppsAreReady`: `OpenInv` follows the one device through what the hook remembers,
  what is to be shown and the command that runs (`OneDevice`), whatever fails.  It speaks of
  apps opened by name and version, since nothing is looked at the old way, and
  of a hook that no installation misled since the last retry.
  It uses `DebounceAssumption`, that the debounce of the screen is not longer than the
  polling, as in the code: otherwise a command may begin before an error is shown.

Countervalues, any pairs, histories, answers, and times:

* `LoadsDoNotOverlap`: `Pending` adds that until something was wiped, a load that runs
  is pending, which keeps the effects from beginning another; the number of loads
  follows from the library's facts about cardinalities.
* `ChangesAreServed`: `Noted` says that a change that no load has begun for is noted in
  the trigger or will be by effects that are due, and that effects are due for a
  trigger that waits for nothing: the loop cannot go to sleep on it.
* `RatesAreShown`: the claim is made not only of the state of the provider but of what
  is saved and of the state that each load began with (`RatesOK`), whose cache it takes
  when it brings nothing new.  Each cache has its own `fill`, the setting it was made with.
* `NoDayIsMissing`: `Histories` says of the state of the provider, of what is saved and of
  what each load began with that no day is missing between any rate and the stable date,
  and that the oldest date asked for is not before all rates, whatever day or hour of
  which pair failed.

Bitcoin spending, any outputs, rates, amounts and policies, any number of tries:

* The code adds up lists.  `ListProofs` shows what `SumOver` gives (`SumAdd`, `SumCompare`,
  `SumLess`), and `SortFacts` that a sort holds each output once (`IsOrder`).
* `FeeTheorem`: what a strategy picks pays for the transaction that it expects (`Pays`,
  by `TakenPays` for those that take in order and `CoinSelectPays` for the search), and
  what is then built from it pays for its own size (`Fits`, `BuiltFits`).  Fees are rounded up
  (`CeilFee`), sizes are not always, and the strategies take the count of inputs or outputs for
  one byte, so that `FeeFits` says what is `Lost`; `Plain` is the size without a change and
  without the bytes that longer counts add (`Counts`, `PlainIs`).
  `Inv` carries this through the search: the value of the search is the one of the
  outputs that it holds, and the best selection it remembers reaches the target with the
  waste it remembers (`BestKnown`).
* `MaxTheorem`: what is up to the estimate is sent.  The outputs together are then worth the
  target (`WorthEnough`), so that who takes them in order comes to it (`TakeFinds`), and the
  search does when it has taken them all: `Reaching` says that until it has found something it has
  dropped nothing.  The theorem assumes that the limit of tries is above the number of
  outputs, as it is with the 100000 of `CoinSelect.ts`: a search that is stopped before it
  has found anything leaves it to `DeepFirst`, which may run into outputs that cost more than
  they are worth.
* `LeastTheorem`: when the search ends with tries left, no other set of outputs that reaches
  the target wastes less.  `Searched` says of each set of places that reaches it
  that the search can still come to it (`Open`) or that the best is not worse (`Settled`);
  what the search passes over is settled by `WasteGrows`: outputs taken on top of
  a selection that reaches the target waste more.  A target of nothing is
  that of an amount of 0 at a rate of 0, where no output is taken and nothing is wasted
  (`FreeWaste`).

Bitcoin wallet, any transactions, blocks and replacements, any gap, page and addresses:

* A call of `sync` changes through functions of the whole wallet.  Each has a lemma that
  says what it does to the phases, tasks, microtasks and gates (`StartFacts`,
  `WakeFacts`, `EndAllFacts`, `FailFacts`).
* `TypesTheorem`: `CallOK` says at which one place a call is, for any number of calls: idle,
  waiting at a gate, between two gates with one microtask, or at a block whose addresses
  have a task each; `Busy` that a block with nothing left to do has been ended.
* `NobodyTheorem`: of two calls one runs at a time, an address is in the hands of one, and
  a gate is shut exactly while there is somebody to open it (`TwoOK`).  Who waits does so
  for one that runs or has failed (`Waits`), and one that runs has a microtask or a
  request (`Busy`).
* `UtxosTheorem`: a transaction takes and gives the same outputs in whatever order it comes
  as long as `spentUtxos` remembers the inputs whose outputs have not come (`Exact`).  A restart
  forgets them.  That this does no harm needs the chain: the blocks of an address that
  are stored are all that the chain has up to the last one, if that one is in the chain
  (`StoreIn`), so that an input is never stored again without its output
  (`UpToExact`).  For this an answer must continue what is stored, which it does since the
  task that asks knows the last block and nobody else stores for the address
  (`TaskOK`, from `TwoOK`): hence the hypothesis, two calls or no failures.
* `AgreesTheorem`: while a call that began alone goes on, the others rest or have yet to
  pass `all`, and what it has ended agrees with the chain (`Along`); the last page of an
  address leaves nothing out but what is pending beyond it (`AnswerAgrees`).  With three
  calls, `Agrees` is checked by TLC only.
* `FreshTheorem`: `FreshUnused` is not inductive, since an address may be stored before the
  call that will look at it gets there, by a call that failed and whose requests are still
  answered.  `FreshIn` says that each such address is below the fresh index or ahead of
  the call that goes on (`Below`, `Above`), and that if it is beyond the block in hand the
  block will be found used (`Beyond`), so that the call does not stop before it.  The last
  holds because a call comes to a block only when the transactions of the chain touch each
  block before (`Opened`), which they do for ever, wherever they move (`Moved`), and
  because an answer finds an address used when they touch it (`AgreesUsed`).  Steps by
  which no call comes to another place go through one lemma (`SoftStep`), and so do those that
  begin a block (`FreshStart`).

Only model-checked: liveness, for which no prover is at hand, and what is said
above of three calls.

## 5. Where the code departs from what it says

`hw/actions/app.ts:465`, the disconnection that is told although the device came
back, has a run of its own (3.9).  The others were met while modelling: each is a trace of
the model without the condition that is named, or follows from the lines.

Device access:

* `deviceAccess.ts:152`: a job or an access hook that throws synchronously is
  reported, but neither the close nor `finish` is called, against line 98, "when we'll
  finish all the current job, we'll call finish"; the device is blocked.  So it is by the
  cleanup of a hook that throws (line 95), and the subscriber is not even told.
  `EveryoneServed` excepts those behind such a job.
* `deviceAccess.ts:122-128`: a rejected `requestConnectionPriority` calls
  `finish` and leaves the transport open, although line 146 has "close the transport
  and clean up everything".  `CleanedUp` excepts `"rejected"`.
* `deviceAccess.ts:74`: transports without an id share one flag, and the session
  of another device consumes it.  `FlushedBeforeJob` fails when `TransportId`
  gives two devices one id.

Scheduler:

* `BridgeSync.tsx:297`: a background tick that finds the queue busy is lost, and the
  loop of the pending operations can keep it busy at every tick, against line 359,
  "continuously synchronize accounts in background".  `AccountsReached` is for times
  without pending operations.
* `BridgeSync.tsx:286-290`: "we remove concurrent tasks with same priority", but
  tasks are stored under the negated priority, so that those of the opposite one are
  removed and an account may be in the queue twice.  With late effects a worker that does
  not know yet that the account is pending then starts a second sync of it:
  `PendingIsOneSync` excepts those accounts (`stale`), and fails without that.

Apps manager:

* `apps/runner.ts:113`: `runAll` goes on after an error, against `apps/logic.ts:204`, "any
  other error stops everything", and a later success clears the error.  `HookStops`
  is for the hook.
* `apps/logic.ts:323`: to install an app while it or a dependency waits to be
  uninstalled only cancels the latter: the app is not installed.  So the second of two
  apps that are restored at once and need the same outdated one is dropped, since
  its dependency waits to be updated for the first (`RestoredApart`).
* `apps/logic.ts:371-372`: "uninstalling an app will remove from installQueue as well
  as direct deps"; while another app is installed, a dependency is cancelled alone, the
  app that needs it is refused and the queue is dropped.
* `apps/logic.ts:336`: an update takes along only the outdated dependents: an up to date
  one makes the device refuse (`NeverRefused` with `mixed`).
* `apps/logic.ts:517-518`: the prediction ignores the operation that runs: cancelled, it
  still ends installed.  `GoalReached` is for a user who waits.

Account update:

* `postSyncPatch.ts:22`: a pending operation is kept only if its nonce is truthy and
  above the last one, which is 0 without sent operations: the first transaction of
  an address, of nonce 0, is dropped by the first sync and not to be seen until
  it is confirmed, against line 4, "we need to preserve ETH pendingOperations".
  The run has an address that has sent before.
* `jsHelpers.ts:107-118`: fetched operations that are older than all existing ones
  are dropped, also when they replace one that moved to an older block.  With a
  `Past` that is empty and a threshold of two, `HistoryKept` fails when a
  reorganisation moves the only operation to an older block.
  Operations that a reorganisation removed stay in the history.
* `synchronisation.ts:143`: with overlapping syncs, what was pending in the
  token account at the snapshot comes back when the account has nothing pending any
  more; two syncs can hand it on to each other for ever, and a late answer takes the
  token's newer operations away until the next one.

Libcore access:

* `access.ts:82`: a timer that `afterLibcoreGC` set may begin a flush while another
  goes on; a job then waits for the later one only.  `JobsAwaitFlush` says so.
* `access.ts:34-39`: an item that fails is never resolved, ends the flush and leaves the
  others; without a core an item is never resolved (line 49); an item that calls
  `withLibcore` itself waits for its own flush.
* `access.ts:126`: a load that failed is never tried again.
* `access.ts:108-110`: `reset` looks for jobs once, and one may begin during
  `freshResetAll`.

Transaction form:

* `useBridgeTransaction.ts`: with late passive effects an answer may overwrite
  what the user typed meanwhile, or be about the account before: it does if it comes between
  the render and its effect, which is what `overtaken` remembers for `NothingLost`.  Part
  of `StatusFits` is for effects that are not late.
* `useBridgeTransaction.ts:253`: the retry timer is set after the dispatch, so that
  a cleanup during the dispatch leaves it running.
* `useBridgeTransaction.ts:197`: who takes back the very object that has a status
  after an error keeps the error.  `Settles` names that (`restores`).

App connection:

* A connection that was resolved on one device counts on the next one
  (`dependenciesResolvedRef` survives a change), and events of a command on the old
  device are attributed to the new one.  `DependenciesReady` is for one device.
* `apps/runner.ts:57`, `apps/hw.ts:113`: a failed or interrupted installation is reported as
  progress and completes, against `apps/logic.ts:204`, "any other error stops everything":
  dependencies are told and remembered to be resolved (`hw/connectApp.ts:287`,
  `hw/actions/app.ts:547`) although the device was unplugged in the middle, and the app is
  later opened without them.  `hook.deps # "cut"`, which `DependenciesReady` has in its
  hypothesis until a retry, fails as an invariant by such a trace.
* `hw/connectApp.ts:348`: devices that go the old way open the app without dependencies or
  version being looked at.
* A leaked disconnect timer may clear an opened app or an error before it is shown.

Countervalues:

* `countervalues/logic.ts:179`: "we do not miss datapoints in the past so we can ask the
  only remaining part" holds for days: after a load whose daily rates were answered
  and whose hourly ones were not, the hours before are never asked again.
  `NoDayMissing` is about days.
* `react.tsx:149`: a wipe or an import during a load is overwritten by its result, and of
  two loads that overlap after a wipe the older may come last.
* Settings that change and change back within the debounce, while a load begins with
  those in between, have no load until the next poll; `SettingsServed` is about
  debounced settings.
* `modules/index.ts:78`: a failed fetch of the latest rates stores 0, which
  `generateCache` replaces by an older rate only if gaps are filled; with `autofillGaps` off
  the zero is shown.  `RateShown` is about caches with gaps filled.  `logic.ts:109`: `MAX_RETRY_DELAY` is in
  milliseconds and used as seconds.

Bitcoin wallet:

* `xpub.ts:159`: after a sync that failed, those who wait for all or for an address are
  woken only by a later success; the gate of an account compares a number with a
  string and is never passed by who waits there, as `getNewAddress` and `buildTx` may.
  `NobodyForgotten` names its cases.
* With three overlapping calls two go on at once, and `FreshUnused` fails; a fourth
  resets the fresh address midway.
* `xpub.ts:413-431`: what is pending beyond a page is not stored until it is mined
  (`Agrees` excepts it), and a request behind a block that was replaced meanwhile fails and
  so wakes nobody.
* `storage/index.ts:181`: what is saved omits the outputs that were spent before they
  were received.

Bitcoin spending:

* The strategies pick unconfirmed outputs that the estimate does not count and that
  `getUTXOStatus` calls excluded (`families/bitcoin/logic.ts:85`); if they cost more than
  they are worth, `Merge` refuses what the estimate promised.
* `DeepFirst` and `Merge` round the empty size up, so that each input and the
  change is counted half a byte too little for segwit accounts, and take the change
  for an output to the recipient: the fee may be below the asked rate by
  as much (`Lost`).
* All strategies measure one input and one output and multiply: from 253 inputs on (`DeepFirst`,
  `Merge`, `CoinSelect` without a change) or 253 outputs on (`CoinSelect` without a change) the
  fee is short of the two bytes that their count takes more (`Counts`).
* The estimate counts one output; an amount above `OUTPUT_VALUE_MAX` is split and may
  not be paid.
* The key of the calculated fees (`families/bitcoin/cache.ts`) has no outputs: after a sync
  at the same height the fee that is shown may differ from the signed one.

Device socket:

* `socket.ts:254`: "connection still active" is asked of `readyState === 1`: a socket
  that is connecting when the subscriber goes away stays open.
* `socket.ts:247`: an exchange outside of a bulk that is in flight at the end is not
  flushed; `InterruptedIsFlushed` is about bulks, as the code is.

## 6. Not modelled

* Caches: promises by key and preloads; nothing in the code says which of two reads is
  to be the last one, so that there is no promise to check them against.
* Promise helpers: small and stateless.
* Scan and import of accounts: functions over lists.  Exchange, manager and
  firmware, walletconnect: sequences driven by a device, a server or a library whose
  states are not in this code.
* Notifications: the state machine library serialises them.
* Coin families other than the above, currencies, derivation, portfolio and
  other functions without state; platform, network, environment, logs, the
  bot, the command line and the mobile test application: input, output and drivers.
* Within the modelled parts: messages and wording, progress events, analytics,
  balances and NFTs, dropped token accounts, the accounting of several mounted
  `SyncSkipUnderPriority`, states without `installedAvailable`; growing delays and sub
  accounts of the form; firmware checks and the event implementation of the app
  connection; how long a failed request for rates is put off; addresses, scripts and
  signatures of bitcoin.
* Simplified: a form begins with no transaction that was already prepared, and
  `setTransaction` is called with edits of its transaction or the one its status is
  about (`Edit`, `Restore`); the device of the apps manager checks dependencies as a real one
  does, where `apps/mock.ts:155` refuses more and its check of updates has no effect
  (`Accepted`); a block has at most one transaction of an account, so that `XpubSync` does
  not store transactions of one block out of order (`Heights`); a server says nothing on a
  socket that is closing (`Message`).
* Types are invariants of the modules with proofs, where other facts rest on them.
