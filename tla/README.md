# A TLA+ verification project for switcher-client-go

The Switcher Client SDK for Go evaluates feature flags: against the remote
Switcher API, against a local snapshot, or remotely with the snapshot as a
fallback. This directory holds TLA+ models of the parts of it that are hard to
test, the TLC configurations that check them on small instances, and proofs,
checked by TLAPS, of what must hold for every instance.

Paths such as `remote.go:61` are relative to the repository.

## 1. Inventory of the system

| Part | State | Operations | Interacts with |
|---|---|---|---|
| Authentication session (`remote.go`, `client_silent_mode.go`, `client_auto_renew.go`) | `authToken`, `authTokenExp` (under `authMu`); the renewer's `generation` and `timer` (under its own `mu`) | `ensureToken`, `shouldUseLocalSilentMode`, `fallbackToSilentMode`, `schedule`, `renew`, `stop` | every remote call; timer goroutines; `BuildContext` stops it |
| Execution log (`execution_logger.go`) | a list of entries (under `l.mu`) | `add`, `get`, `clear` | throttling, `GetExecution`, `ClearLogger` |
| Switcher and throttling (`switcher.go`, `client.go:293`) | key, criteria, period, `nextRefreshAt` (under `Switcher.mu`); `throttleTokens` | `Check`, `Throttle`, `Prepare`, `IsOn` (`submit`), background refreshes | mocks first, then the log, then the session or the resolver |
| Local resolver and strategies (`resolver.go`, `local_strategies.go`) | none | `checkLocalCriteria`, `processLocalStrategy` | the snapshot in memory |
| Snapshot store (`snapshot.go`, `client_snapshot.go`, `client.go:137`) | `Client.snapshot` (under `mu`), the snapshot file | `LoadSnapshot`, `CheckSnapshot`, `loadSnapshotFromFile` | the session (token), the watcher, other processes that write the file |
| Auto-updater and watcher (`snapshot_auto_updater.go`, `snapshot_watcher.go`) | `stop` and `done` channels (under `mu`), a goroutine each | `Start`, `Stop`, callbacks | the snapshot store; the application through callbacks |
| Client registry (`client.go:65`, `:92`, `:309`) | `globalClient`, `Client.switchers` | `BuildContext`, `defaultClient`, `GetSwitcher` | stops the background work of the client it replaces |
| Mocks (`mock.go`) | `Client.mocks` (under `mockMu`) | `Assume` and its builder, `Forget`, `Cleanup` | answers evaluations before anything else |
| Transport, payloads, defaults, errors (`remote.go:301`, `context.go`, `errors.go`, `result.go`) | the lazily built HTTP client | requests, decoding | all remote calls |

What makes it correct, and what makes that hard:

- **Session.** A request never carries the sentinel `"SILENT"`; there is one
  chain of background renewals; silent mode is a circuit breaker and does not
  last for ever. Hard because the code locks around single reads and writes
  only, with network calls in between, while callers, timers and `stop()` race.
- **Log and throttling.** A throttled evaluation is served the latest result
  for its own key and inputs; refreshes are bounded, with one worker do not
  overtake each other, and converge; `Freeze` pins. Hard because lookups, executions and
  logging are separate steps of several goroutines, and because matching of
  inputs is not an equivalence.
- **Snapshot and workers.** Memory, file and API agree eventually; a stopped
  worker is stopped; `Stop` returns. Hard because every step is a separate
  critical section or a file operation, and callbacks run on the worker.
- **Registry and mocks.** One client, one switcher per key; an evaluation sees
  a mock or does not. Hard because of double-checked and lock-free updates.
- **Resolver.** Pure; many cases and boundaries (dates, numbers, networks).

`PROJECT.json` lists each hazard at its line, with the properties that would
catch it.

## 2. Modules

| Module | What it is |
|---|---|
| `AuthSession` | the session: callers, renewal callbacks, expiry, API outages, discarding |
| `TokenClock` | `tokenExpired` and `autoRenewDelay` as operators on numbers |
| `CircuitBreaker` | what silent mode promises, to any number of users; `AuthSession` refines it |
| `ExecutionEntries` | `add` and `get` as operators on a sequence of entries |
| `ResultCache` | what the log promises: a map; the log of `Throttle` refines it |
| `Throttle` | a throttled switcher over the log: callers, refreshes, worker tokens, mocks in front |
| `SnapshotStore` | one client's snapshot in memory, in its file and behind the API, with all that changes it |
| `BackgroundWorker` | the goroutines of updaters and watchers, and the channels that stop them |
| `ClientRegistry` | the global client, its replacement, its switchers; composes `BackgroundWorker` |
| `Strategies` | the seven strategies as operators |
| `LocalResolver` | the evaluation against a snapshot, as operators over `Strategies` |
| `Mocks` | the mocked result of a key and the builders that change it |
| `Assumptions` | what mocks promise; `LocalEvaluation` refines it |
| `LocalEvaluation` | a switcher evaluated in local mode; composes `Mocks` and `LocalResolver` |
| `MCAuthSession`, `MCThrottle`, `MCSnapshotStore`, `MCClientRegistry`, `MCLocalEvaluation` | instances for TLC |
| `AuthSession_proofs`, `TokenClock_proofs`, `ExecutionEntries_proofs`, `Throttle_proofs`, `SnapshotStore_proofs`, `ClientRegistry_proofs`, `LocalEvaluation_proofs` | theorems and their lemmas, of the module each is named after |

Definitions headed `Faulty:` are seeded faults. No specification uses them: each
shows, put in the place of the definition after it, that a property of a run
is able to fail.

How the modules divide the system: the call that an evaluation makes goes
through `Throttle` (mock, cache, refresh), then `AuthSession` (remote, or local
while silent) or `LocalEvaluation` (local). `SnapshotStore` is what changes the
snapshot that `LocalEvaluation` reads, and `ClientRegistry` is what starts,
stops and discards all of it. Each module abstracts its neighbours to the
outcomes they can have.

### AuthSession

One step is what the code does under one lock, or one network call; between two
steps everybody else may run. `pc` says where a caller is:

- `Begin` enters `resolveExecutionMode` (an evaluation with silent mode) or
  `ensureToken` (a call such as `CheckSnapshot`, or an evaluation without).
- `ReadAuthState`, `RearmStop`, `RearmStamp`, `ProbeHealth`, `ClearSilentToken`
  are `shouldUseLocalSilentMode`, with `updateSilentToken` in its two halves:
  it stops the renewer under one lock and stamps the token under another.
- `EnsureToken`, `Authenticate`, `StoreAuth`, `ScheduleFirst` are `ensureToken`.
- `Request` is the call the token was for; a failure of any of these goes
  through `OnFailure` to `FallbackStop`, `FallbackStamp` and `AnswerLocally`.
- A callback of `time.AfterFunc` is a record with its generation: `Fire`,
  `RenewBegin`, `RenewAuth`, `RenewCheck`, then `RenewStore` and
  `RenewSchedule`, or `RenewStop`.
- `Expire` is time passing `authTokenExp`; `FlipApi` is an outage beginning or
  ending; `Discard` is `BuildContext` stopping the client it replaces.

A token is one of "none", "silent" and "real". `authLive` stands for
`!tokenExpired(authTokenExp)`, whose arithmetic is in `TokenClock`; since the API
chooses the expiration, a token may be stored already expired. `Timer.Stop`,
which the code calls just after releasing the renewer's lock, is one step with
it: a callback that starts in between finds a newer generation and ends, as one
that started just before. While the API is up, authentication and requests may
still fail; the health probe then succeeds.

`CircuitBreaker` is what this amounts to without background renewals. Its users
are evaluations, which leave the API alone while it is open, and calls, which
bypass it (`Bypass`): no snapshot could answer a `CheckSnapshot`. An answer of the
API, to a probe or to an authentication, is a step of its own (`Answered`), and
only a user that has one may close the breaker. A call's authentication
in the silent window closes it too, as `ensureToken` does (`remote.go:61`).

### ExecutionEntries, Throttle

`executionInputsMatch` is not equality: logged inputs match if each is among the
current ones. Inputs are sets of criteria. With criteria of one strategy matching
is equality, and the log is a map (`ImplementsCache`); with more it is not: `add`
may replace the entry of other inputs and `get` may find it (run
`throttle_other_inputs`).

`submit` is `Begin` (the clone of `snapshotForExecution`), `MockedResult`, then
`Lookup`, then either `Revise` (serve the entry and start a refresh when one is
due) or `Execute`, `LogResult` and `MarkFresh`. A background refresh is
`Acquire`, `RefreshExecute`, `RefreshLog`. `Check`, `Prepare` and `SetThrottle`
change the criteria, the key and the throttling of the shared switcher at any
time, `SetMock` is `Assume` and `Forget`. `options` is the record of the
`ContextOptions` that matter here, chosen at the start.

A result is a version of the configuration and who gave it: the API, the local
snapshot or a mock. What an evaluation can get is `Outcome`, and what it does to
the silent window is `Evaluate`; both are shared by `Execute` and
`RefreshExecute`. While the window is open, and when the API fails under silent
mode, an evaluation succeeds with what the snapshot in memory says, which may be
of any version so far (`Load`), and this is logged like any other result. Without
a snapshot, or without silent mode, a failure is an error, and nothing is logged.
`Lapse` is the end of the window. An evaluation takes place at one time here, and
the lookup of a mock is one step with the choice that follows; the steps in
between are in `AuthSession` and `LocalEvaluation`.

### SnapshotStore

The goroutines are the application (`LoadSnapshot`, `CheckSnapshot`,
`WatchSnapshot`), the updater and the watcher; `pc` says where each is.

- `Stat` and `Read` are `loadSnapshotFromFile`; when `Stat` fails for whatever
  reason, `Open` and `Write` put the default snapshot there. The same two write
  the file for `CheckSnapshot`: `os.WriteFile` truncates, then writes.
- `ReadVersion`, `CheckVersion`, `Resolve`, then `Open`, `Write` and
  `SetSnapshot` are `CheckSnapshot`. `Fail` is an error of any of these.
- `Decide` is `shouldCheckSnapshot`, `StartWatch` is what `Start` of the watcher
  does to the file's time and size; `Poll` is its tick, `Tick` the updater's.
- `Crash` ends the process and starts it again; `FlipApi`, `FlipDisk`, `Publish`
  and `Deploy` are the environment.

`Setup` chooses among four uses: no location; an empty location; a location with
a file, where only the updater checks; and a location in Local mode, into which
another program deploys the file. Without a location, a file of the name in the
working directory is read (`snapshot.go:85`) and never written, and may be there
or not. An API in trouble either fails or answers `resolveSnapshot` without a
domain, which is taken for an empty snapshot, saved and set; not so in the setup
of `Persisted`, since a program that saves an empty snapshot does go back.

### BackgroundWorker, ClientRegistry

`Start` is `Stop` and `Launch`, and `Stop` is `Signal` and `Await`: the worker's
lock is released in between. The updater and the watcher have the same shape, so
one module models both. A call of the package is a sequence of steps that a
goroutine of the application takes one at a time: `BuildContext` is `Replace`,
the steps that stop the replaced client, `Store`, and the start of the updater;
a call without a client first goes through `DefaultClient` and, when there is
none, `CompareAndSwap`; `GetSwitcher` is `Lookup` and `Create`.

### Strategies, LocalResolver, Mocks, LocalEvaluation

The pure part is written as operators with the names of the functions. A text is
what it parses to: a number, a date or a time is an integer or `Bad`; a value of
a network is an address with a number of bits; a pattern is the set of texts it
is found in and the set of those it matches as a whole; a document is the set of
its paths. What the parsers of the Go library accept is not modelled. A loop that
returns at the first match is `SelectInSeq`, the place of that match: the first
entry of a strategy (`EntryOf`), the first configuration of a key (`KeyAt`).

`LocalEvaluation` evaluates them from the states that a switcher can be in:
inputs are given by `Check` in any order, and replaced; `Begin` clones them;
`MockedResult` looks for a mock, and `ExecuteLocal` evaluates. Meanwhile `Mock`
assumes, builds and forgets. `last` remembers the evaluation and the entries
it was made with, for the properties. An answer is a result or an error; its
reason is left out. `responseFor` ends its loop with the first condition that is
missed (`ResponseFor`).

`Assumptions` says what that amounts to, without lists, builders or definitions:
what each strategy was given last, what is assumed and what each strategy allows
last; an evaluation gets what is assumed at one moment, of the inputs it began
with. Nothing in it can bring back what was replaced.

## 3. Runs

Passing runs:

| Run | Instance | Shows |
|---|---|---|
| `session_safety` | 2 callers that evaluate and call, silent mode, auto-renewal, `MaxGeneration` 3 | `TypeOK`, `OneRenewalChain`, `NoSentinelOnWire` |
| `session_progress` | 2 callers that evaluate and call, no auto-renewal, busy | `OperationsComplete`, `SilentModeEnds`, `ImplementsBreaker` |
| `throttle_safety` | 2 callers, 1 worker, 2 refreshes, frozen or not, an input given later, throttling switched, mocks, `ClearLogger` | `TypeOK`, `WorkersBounded`, `ServedForOwnInputs`, `OneEntryPerInputs`, `ImplementsCache`, `FreezePins` |
| `throttle_revalidation` | 1 caller, 1 worker or no limit, 2 refreshes, 2 keys, 2 versions, silent mode or mocks, busy | `CacheMovesForward`, `CacheConverges` |
| `snapshot_store` | every setup, 2 published versions, 2 calls, 1 fault | `TypeOK`, `Persisted`, `MemoryConverges`, `WatcherFollows` |
| `client_registry` | 3 clients, 3 workers, 2 goroutines of which one builds and starts | `TypeOK`, `WorkStoppable`, `SwitcherKept`, `DefaultKept`, `EveryCallReturns` |
| `local_evaluation` | each strategy with up to two values; snapshots of one or two groups; 2 builders, two conditions on one strategy and one on another | `TypeOK`, `ResolverDecides`, `SwitchersChecked`, `FailsClosed`, `OperationsAreDual`, `BoundariesAgree`, `ImplementsAssumptions` |

What the less obvious ones say:

- `ImplementsBreaker`: silent mode is opened by a failed evaluation only; while it
  is, evaluations leave the API alone until the retry time is over; it is closed
  by an answer of the API only, whatever several goroutines do in between.
- `FreezePins`: what is pinned is replaced only by an evaluation that had missed
  it before it was there, by a mocked result, or, with `Logger`, by evaluations
  that are not throttled, and no throttled evaluation begins to miss it. That the
  first of these happens is a finding (`throttle_frozen_twice`).
- `CacheMovesForward`: with one caller and one worker, an answer of the API never
  replaces a result that is ahead of it. What the local snapshot or a mock says
  may be older, and is excepted. With more workers, or with no limit, which is the
  default, a refresh may be overtaken; `CacheConverges` says that the cache ends
  up with the last version all the same.
- `Persisted`: where the updater is the only one to check, the file is never
  behind what is served, since `CheckSnapshot` saves before it sets. After a
  crash the client does not go back.
- `MemoryConverges`: the updater repairs everything: a file cut short by a crash,
  an empty snapshot set because the disk failed, a watcher that set an older
  version late.
- `WatcherFollows`: a file read half written is read again once it is complete.
- `WorkStoppable`: a running goroutine that nobody has told to stop belongs to
  the global client, which can stop it.
- `ResolverDecides` states the resolver as a quantified formula, against which
  its early returns are checked in every order of inputs. It leaves open what
  becomes of a relay that the application does not ask to be restricted by: that
  is `RelayOptional`, which fails.
- `ImplementsAssumptions`: whatever builders, those of replaced assumptions among
  them, do while switchers are evaluated, an evaluation gets what is assumed.
- `OperationsAreDual`, `BoundariesAgree` relate operations to each other, so
  that no strategy has its own idea of a negation or a bound.

Runs that find a disagreement between the code and what a comment or a document
says of it:

| Run | Property | What happens |
|---|---|---|
| `session_silent_renewal` | `RenewalSparesSilentMode` | a renewal past its second generation check overwrites the silent window just opened |
| `throttle_other_inputs` | `ServedForOwnInputs` | after `Check` adds a strategy, the result of the former inputs is served |
| `throttle_frozen_twice` | `FrozenUntilCleared` | two first evaluations of a frozen switcher both miss; the later one replaces what the other one has pinned |
| `local_relay` | `RelayOptional` | `RestrictRelay: false` is taken for an option that was not given, and relays restrict all the same |
| `registry_two_builds` | `WorkStoppable` | while one goroutine builds a context, another one starts work on the client being replaced, or builds one as well: work goes on that no call stops |

### Bounds

- `MaxGeneration`: no operation starts and no timer fires at that generation;
  what has started goes on and may exceed it. Three renewer generations let a
  chain be scheduled, cancelled and scheduled again while callbacks of older
  generations are in flight. The proofs hold for every bound.
- `Options`: the context options a run chooses from. `OneWorker` has one worker,
  frozen or not, logging always or when throttled; `AnyWorkers` one worker or no
  limit, with or without silent mode. `MayMock` says with which of them the
  application mocks the key: in `throttle_revalidation` not with silent mode, to
  keep it small. `MayClear`, `MayUnthrottle`: what else the application does. A
  frozen log may always be cleared. The proofs are about all options.
- The log needs no bound: with one strategy it is at most as long as there are
  pairs of a key and inputs (`OneEntryPerInputs`).
- `Slot`: the background refreshes that exist at a time. Two overlap; a caller
  starts only when a slot is left for it. The proofs hold for every finite number
  of them (`ThrottleAssumption`).
- `MaxVersion`: the changes of the configuration in `Throttle`, the versions
  published in `SnapshotStore`. With two, a refresh or a check is overtaken.
- `MaxCalls`, `MaxFaults`: calls of the application, and crashes and disk failures,
  in `SnapshotStore`. Two calls overlap a tick of the updater and one of the
  watcher; API outages are not bounded.
- `Setup`: "seeded" has a disk that does not fail, no checks by the application and
  answers that are complete; "deployed" an API that answers. What these leave out is in the other setups.
- `Worker`, `Client`: three goroutines allow one that runs, one that is told to
  stop and one that starts; the last client is kept for `defaultClient`, so that
  a call always finds or creates one. A goroutine is used again once someone has
  waited for it. `WorkerAssumption` says that the values for "no client" and "no
  goroutine" are none of them.
- `Starter`: who builds contexts and starts work. One goroutine in
  `client_registry`, since with two the property fails (`registry_two_builds`).
- `Builder`, `AddressBits`: two assumptions let one replace the other; two bits
  have networks of every length.
- `EvaluationAssumption`: the snapshots tried are made of sequences, as they are
  once decoded, and numbers, dates and times are integers. The proofs hold for
  all such snapshots, and for all values and inputs; only that addresses have
  `AddressBits` bits stays, and no theorem depends on it.

### Fairness

- Goroutines that run go on (`WF` per caller, per renewal, per refresh): the Go
  scheduler is fair, locks are held for a few instructions, and the HTTP client
  has a timeout (`remote.go:336`).
- Time passes (`WF` on `Expire`, `Elapse`, `Lapse`), and, in the `BusySpec`s only,
  the application goes on evaluating, in `AuthSession` whatever calls it makes in
  between (`SF` on beginning an evaluation): the SDK recovers and revalidates when it is
  called, and promises nothing to an application that stopped calling.
- Tickers tick (`WF` on `Tick`, `Poll`) in `SnapshotStore`.
- A background goroutine that is offered a tick and its stop takes the stop sooner
  or later (`SF` on `Exit`): `select` chooses at random among what is ready.
- Nothing makes the API or the disk fail, recover or change. Properties that need
  them say so (`<>[]apiUp`, `[]diskUp`).

`session_progress` has no auto-renewal: the counter of generations is then
left alone, so that no bound cuts the infinite behaviours.

## 4. Proofs

All are checked by TLAPS, for every value of the constants that satisfies the
modules' assumptions. A hypothesis that a theorem has in addition is named
below, with the reason why the code needs it. Every safety property that a
passing run checks, invariant or action property, and the three refinements are
stated by a theorem. The inductive invariants were checked by TLC on the runs'
instances before they were proved.

- `TypeCorrect` and `SingleChain` (`AuthSession_proofs`): `TypeOK` and
  `OneRenewalChain` are inductive together. Lemmas on the three helpers that
  touch the renewer (`StopRenewer`, `ScheduleRenewal`, and moving a callback)
  carry the argument: scheduling uses a generation above all others, and after
  a stop or a schedule nothing else is still armed, since what is armed has the
  generation of `timer`.
- `SentinelStaysHome`: `NoSentinelOnWire` alone is not inductive, since a token
  is checked when it is picked up and used steps later. `TokenInHand` says what
  a caller holds at every step in between.
- `SilentModeIsABreaker`: for any number of goroutines that evaluate and call,
  every step of the session is a step of the breaker or leaves it unchanged. It
  assumes silent mode and no auto-renewal (`BreakerOptions`): background renewals
  close the breaker without anybody asking (`session_silent_renewal`). It needs
  `TokenInHand`, for what an authentication stores, and that there are no
  callbacks (`NoRenewals`).
- `Throttle_proofs`. `TypeCorrect` holds without more. For `PoolBoundsWorkers`,
  the tokens are counted by who works: a refresh that takes one makes the set of
  workers one larger, and only when it was below the limit. The others assume one
  strategy (`OneStrategy`), since with two a switcher is served results of other
  inputs (`throttle_other_inputs`). With one, a switcher has one input at most,
  matching is equality (`InputsUniform`), and a result that is logged supersedes
  exactly what is filed like it (`LoggedFiles`, on the lemmas of `ExecutionEntries_proofs`).
  - `NoSecondEntry` and `LogIsACache`: the log files inputs once (`FiledOnce`),
    so that `get` finds what was logged last, whoever logs.
  - `ServedItsOwn`: what `Lookup` finds is the clone's own, whatever `Check` and
    `Prepare` do to the switcher meanwhile.
  - `FrozenStaysCached`, for any number of goroutines: there are no refreshes
    (`FrozenInv`), so what is cached is replaced by callers alone (`PinnedStep`),
    and none that is throttled comes to miss it (`NobodyMisses`).
  - `RefreshesKeepOrder` assumes one evaluating goroutine, a log that is not
    cleared unless frozen, and a switcher that stays throttled (`Alone`), since
    otherwise an evaluation of the same inputs starts while their refresh is in
    flight. Every evaluation looks up first (`AlwaysThrottled`), so an evaluation
    and a refresh never compute the same (`Apart`); with one token there is one
    worker, and what a refresh has got from the API is not older than what is
    cached in its place (`InOrder`). Outages, silent mode and mocks are included.
- `SnapshotStore_proofs`. `TypeCorrect` holds for every setup. `SavedBeforeServed`
  is `Persisted`, for any number of versions, calls and faults. It is inductive
  with `SeededInv`: the updater alone writes the file (`SoleWriter`), what was
  loaded is a snapshot, so that the application has no reason to check
  (`Loaded`), and neither what is served nor what a reader is about to set is
  newer than the file, or, while that is empty, than what the updater is about
  to write there (`Behind`).
- `ClientRegistry_proofs`. `TypeCorrect`, `OneSwitcher` (`SwitcherKept`) and
  `ReplacedByBuildContext` (`DefaultKept`) hold for any number of goroutines
  that build and start. `StoppableForOneStarter` is `WorkStoppable`, and assumes
  one at most (`Sole`): with two it fails (`registry_two_builds`). It is not
  inductive: whether a step leaves work behind depends on what its call has
  done before. `CallsInv` therefore gives the steps that every call may have
  left (`UseCall`, `StartCall`, `BuildCall`) and what a sole starter can count
  on at each of them: that the client it replaces has stopped, that a worker it
  waits for was told to stop, that the handle it launches into is vacant. Steps
  of others that start nothing (`Calm`) take none of it away.
- `LocalEvaluation_proofs`. `EvaluationInv` says what was evaluated last, with
  which entries, and that there is one entry a strategy (`OnePerStrategy`,
  which `Upserted` keeps: `UpsertedKeeps`).
  - `ResolverAlwaysDecides`: the early returns and first matches of
    `resolver.go` compute the quantified formula `ResolverDecides`, for every
    snapshot and all inputs. `FoundIsFirst` is the step from the two loops over
    groups and configurations to the configuration that counts; the rest goes
    up call by call (`StrategyAgrees`, `StrategiesDecide`, `ConfigDecides`,
    `GroupDecides`, `CriteriaDecide`). `SwitchersAgree` follows from it.
  - `BadNeverEnables`, `OperationsAlwaysDual` and `BoundariesAlwaysAgree` are
    about the strategies, for all values and inputs.
  - `MocksAreAssumptions` is the refinement of `Assumptions`, for any number of
    builders and conditions: a condition that is missed by the list is one that
    forbids the last input, since entries and conditions are one a strategy.
- `UnitsAgree` and `RenewalIsAhead` (`TokenClock_proofs`): pure arithmetic, for
  every expiration and time. A token ends at one moment, whether it is told in
  seconds or in milliseconds (`OverWhenExpired`), and the delay of a renewal
  stays below it unless `autoRenewMinDelay` is longer than what is left. The
  numbers are beyond TLC's integers, so no run uses this module.

Only model-checked: the liveness properties (`OperationsComplete`,
`SilentModeEnds`, `CacheConverges`, `MemoryConverges`, `WatcherFollows`,
`EveryCallReturns`), which TLAPS does not handle under fairness. The proofs stop
at two operators of `Strategies`: `PayloadKeys` filters paths with `SelectSeq`,
which is recursive, and `InNetwork` divides by a power of two; no theorem looks
into them. `Throttle`, `AuthSession`, `SnapshotStore` and `LocalEvaluation` each
abstract the others, so that no theorem is about all of them at once.

## 5. Plan

Done: the modules above, which cover every part of the system that has a state
or an algorithm of its own, and theorems for every safety property that a
passing run checks.

Next:

1. A reference definition of `InNetwork` and of `PayloadKeys`, against which they
   are checked for every short address and document.
2. `RefreshesKeepOrder` for several evaluating goroutines, up to evaluations that
   had missed before the refresh began.
3. The circuit breaker with background renewals, up to those that were past their
   second generation check when it opened.

## 6. Not modelled

- HTTP, TLS and JSON: pure I/O; a call succeeds or fails.
- Error values and messages, `Validate`, the reason and metadata of results and
  mocks: plain data that no property tells apart.
- What the parsers of the Go library accept as a number, a date, a network or a
  pattern.
- Callbacks that call the package. `Stop`, called from the callback of the
  goroutine it waits for, does not return; `EveryCallReturns` is about callbacks
  that return.
