# TLA+ verification of the ASKAP service bootstrap layer and its scripts

This directory models parts of the repository in TLA+. It checks the models
with TLC and proves their main safety properties with TLAPS. The parts are:

- `Server` in `src/Code/Base/py-iceutils/current/askap/iceutils/server.py`,
  which is the service bootstrap and connection-retry layer;
- its subclass `IngestManager` in
  `src/Code/Components/Services/cpmanager/current/askap/ingest/server.py`,
  which registers the central-processor service and creates or retrieves an
  IceStorm topic;
- two one-shot scripts whose output other code depends on:
  - `src/make_depends.py`, which rewrites package locations in dependency
    files;
  - `schema_generation/generate.py` of the sky model service, which turns
    spreadsheets into ODB schema code.

## 1. Inventory

### Components and their state

| Component | Code | State | Operations |
|---|---|---|---|
| RetryingConnector | `Server.wait_for_service` (126-163) | local `count` and `registry`, the shared `_retries` | one loop iteration: success, retryable failure (`count += 1`, sleep), `TimeoutError` at the budget, or propagation of any other exception |
| ConfigurationResolver | `get_config`, `_config_from_fcm` (87-117) | `parameters`, `configurable`, `sys.argv` | skip; load from a `--config=` file; FCM lookup through the connector, then `fcm.get` |
| ServiceRegistry / main adapter | `add_service`, `setup_services` (165-186, 199-208) | `_services` (a list), `_adapter` | append; bind loop; `activate` through the connector |
| MonitoringEndpoint | `setup_services` (171-177) | `monitoring`, `_mon_adapter` | create the adapter, add `MonitoringService`, `activate` through the connector |
| ServiceBootstrap | `run`, `wait` (188-197) | the main thread's position | the whole sequence, then `waitForShutdown` |
| IngestManager | `__init__`, `initialize_services` (13-56) | `fcm`, the `IngestMonitor` thread, the topic, the subscription | the service object and `add_service`, monitor start, topic-manager wait, get-or-create, subscriber adapter, subscribe |
| TopicSubscription | lines 28-53 of the same hook, for several processes | per process: the local `topic`; IceStorm: topics and subscribers | topic-manager wait; `retrieve`, then `create` on NoSuchTopic, then `retrieve` again on TopicExists; subscriber adapter; subscribe |
| make_depends | the whole script (11-70) | options, the package map, the environment, the files | getopt, option loop, load, ENV resolution, glob, rewrite of each file |
| Schema generator | `generate.py` (14-149) | the spreadsheets, the output files | load and filter, `type_map`, `Field` and its text, the main loop |

`setup.py`, `build.py`, `debianise.py`, `readData.py` and a functional test
are not modelled. PROJECT.json gives the reason for each.

### How the components interact

`run()` calls `setup_services()`. That creates the main adapter and calls
`get_config()`, which may call `wait_for_service("FCM", …)`. If
`monitoring` is set, it then creates and activates the monitoring adapter
(`wait_for_service("registry", …)`). Next it calls the subclass hook
`initialize_services()`. In `IngestManager` the hook does these steps:

1. It builds `CPObsServiceImp(self.fcm)` and calls `add_service`.
2. It starts the `IngestMonitor` thread.
3. It waits for IceStorm with `wait_for_service`.
4. It runs the topic get-or-create and subscribes.

After the hook, `setup_services()` binds every `_services` entry and
activates the main adapter. Finally `run()` blocks in `waitForShutdown`.
Everything reaches the outside world through the IceGrid registry, the FCM
and IceStorm, which are other processes.

The two scripts stand alone. Each runs once, reads files and writes files.
Their hazard is leaving wrong or partial output behind without saying so.

## 2. Modules

| Module | Models | Notes |
|---|---|---|
| `Connector` | one invocation of `wait_for_service` | CONSTANTS `Retries`, `Errors` (exceptions raised while the remote end is down), `MaxCount` (model bound). A history variable `attempts` counts callback calls. |
| `ConnectorContract` | the promise of spec §4.1 | pending → connected (only while up), timedout (only with a bounded budget), or failed. |
| `MC_Connector` | TLC instances | Refinement mapping `status "calling" ↦ "pending"`. `ImplementsContract == Contract!Spec`. |
| `Bootstrap` | `Server.run` with every stage | Composes `Connector` by `INSTANCE … WITH status <- wstatus`. Each of the three waits starts a fresh invocation. The subclass hook is abstract: it adds services, then returns or raises. |
| `IngestManager` | `IngestManager` composed with `Bootstrap` | EXTENDS `Bootstrap`. It replaces the abstract hook with the real one: `hpc` is the hook's position, and the topic-manager wait is a second `Connector` instance `T`. |
| `TopicSubscription` | the topic protocol for a set of processes | It models restarts and IceStorm outages. The topic-manager wait uses the contract's outcomes. |
| `MakeDepends` | `make_depends.py` | The two `re.sub` calls are written out as what they do on a line, as a recursive function (`SubFrom`). |
| `SchemaGen` | `generate.py` | Cells carry a whitespace flag so that `strip()` is modelled; each emitted line is a tuple naming what it says. |
| `MC_*` | TLC instances | model values and small input sets |
| `ConnectorProofs`, `BootstrapProofs`, `TopicProofs`, `IngestProofs`, `SchemaProofs` | TLAPS proofs | One per component; `ConnectorProofs` EXTENDS `MC_Connector` for the refinement mapping, and `IngestProofs` EXTENDS `BootstrapProofs` to reuse its step lemmas. |

How Bootstrap's state corresponds to the code:

- `pc` is the main thread's position.
- `monitoring` and `configurable` are the subclass's flags.
- `configArg` is what `sys.argv` holds about `--config=`.
- `params` is where `self.parameters` came from.
- `services` is `_services`, and `bound` is what the adapter has.
- `mainAdapter` and `monAdapter` hold the adapter states.
- `count`, `wstatus` and `attempts` belong to the wait in progress; `up` is
  the registry's reachability.

IngestManager adds the following state:

- `fcm`: whether the object has a `fcm` attribute. Nothing in `src/` sets
  one, so whether a launcher does is the constant `Launchers`.
- `monitor`: the `IngestMonitor` thread.
- `exists` and `subscribed`: IceStorm's topic and this subscription.
- `exc`: the exception the hook lets out.
- `tcount`, `tstatus` and `tattempts`: the topic-manager wait.

An exception out of the hook is the Bootstrap action `HookRaises`. Any
exception out of `run()`, from the hook or from a later stage (the bind
loop or the main adapter's wait), ends the interpreter. `ProcessExit` is
part of every such step: the step stops a daemon monitor thread, and a
non-daemon one (`MonitorDaemon` FALSE) keeps running.

MakeDepends models these inputs:

- `opts` (argv);
- `env` (the environment);
- `content` (the files the glob finds);
- `Json` (the package maps).

Its actions follow the script. `GetoptFails`, `Option`, `Load` (which
crashes on a missing map), `Resolve` (one ENV entry per step), `Glob` and
`WriteFile` each match one part of it. `WriteFile` adds the file's entry
to `out` with an explicit function constructor, which is what `f :> v @@`
means here, written in a form the prover can expand. `WriteFile` rewrites each line with
`RewriteLine`, which is the loop over the packages with the `';'` test and
the greedy `=\S+` or `=\S+;` substitution of every match.

SchemaGen follows `__main__`: `Load`, `LoadFails` (unreadable input),
`Open` (truncates), `GetFields`, `GetFieldsFails` (`KeyError` for an
unknown datatype), `Write`, `Finish`.

## 3. Runs

| Run | Expect | Checks | Bounds |
|---|---|---|---|
| `connector_bounded` | pass | `BudgetRespected` | `Retries = 16` (past the loop's `count == 10` warning), `MaxCount = 18`, refused or timed-out connects |
| `connector_unbounded` | pass | `BudgetRespected`, `EventuallyConnected` | `Retries = -1`, `count ≤ 25`, refused connects |
| `topic_bounded` | pass | `Converged`, `DanceTerminates` | 2 processes, 1 restart, IceStorm up/down, `Retries = 0`, timed-out connects |
| `ingest_started` | pass | `RunningMeansSubscribed`, `ConfiguredBeforeActive`, `ServedIfAlwaysUp`, `StartupCompletes` | `Retries = 1`, refused or timed-out connects, every argv shape, launchers with and without `fcm`, another process that may create the topic |
| `depends_rewrite` | pass | `LinesPreserved`, `SimpleEntriesSet` | every option list, three environments, every line of up to 3 characters over `a b = ; x` and space, plus longer entry shapes |
| `schema_generate` | pass | `SchemaMatchesSheets` | 2 files, every spreadsheet of up to 2 rows drawn from 8 rows that cover each filter, padding, units and an unknown type, or an unreadable input |
| `ingest_fcm_attr` | violation | `ServedWhenReachable` | as `ingest_started`, and no launcher sets `fcm` (as in `src/`) |
| `ingest_monitor_orphan` | violation | `NoPartialSuccess` | `IngestMonitor` not a daemon thread |
| `connector_connect_timeout` | violation | `UnboundedReturns` | `Retries = -1`, refused or timed-out connects |
| `config_eq_path` | violation | `ReadableConfigLoaded` | every argv shape |
| `depends_multi` | violation | `RewriteAsIntended` | as `depends_rewrite` |
| `schema_truncate` | violation | `NoTruncatedOutput` | as `schema_generate` |

The bounds are enough for these reasons:

- **Connector.** A count bound of 2 or more exercises every branch of the
  retry loop, and the connector run goes far past it.
- **Topic.** Two managers produce both sides of the create race: one gets
  NoSuchTopic and creates, the other gets TopicExists and retrieves again.
  One restart covers a process that restarts after creating the topic.
- **Ingest.** `OtherCreates` lets another manager create the topic between
  this one's `retrieve` and `create`. A one-retry budget with both error
  kinds reaches every outcome of both waits.
- **Scripts.** The line and row sets contain each shape that takes a
  different path through the code: lines with and without `;`, space, a
  value or a second assignment, and rows dropped by each filter.

Every action of every module fires in the passing runs.

Each property of a passing run is paired with a mutation of the code that
breaks it, listed under "mutants" in PROJECT.json. The mutations include:

- the `-1` case dropped from the budget test;
- TopicExists taken as success;
- a failed subscribe swallowed;
- `add_service` skipped;
- the `configurable` test dropped;
- the main loop not exiting on success;
- the match flag of `make_depends` not set;
- the two substitution patterns swapped;
- `null` and `not_null` swapped.

Properties of note:

- `RunningMeansSubscribed` checks that a serving manager has its
  subscription.
- `SchemaMatchesSheets` reads each generated file back, member by member,
  and compares it with a reference computed from the spreadsheet's row
  positions.
- `SimpleEntriesSet` relates the output line to the package map and the
  environment.
- `SimpleEntriesSet` takes the location the resolution loop left. For an
  `ENV:<VAR>` whose variable is unset or empty, that is the literal
  `ENV:<VAR>` (line 48 only warns). No property calls this wrong, because
  neither the code nor the spec says what should be written instead.

**Findings** (violation runs):

1. `ingest_fcm_attr` (code bug): nothing sets `self.fcm`. The hook raises
   `AttributeError` at line 22, so `CentralProcessorService` is never
   served, even with the registry always up. Spec §4.6 and §8 say a
   service with a reachable broker reaches RUNNING (`ServedWhenReachable`).
2. `ingest_monitor_orphan`: `IngestMonitor` starts before the topic
   sequence. A later failure leaves it running unless it is a daemon
   thread. The failure can be in the hook, the bind loop or the main
   adapter's wait. Spec §7 says there is no partial success.
3. `connector_connect_timeout`: an unreachable host can raise
   `ConnectTimeoutException`, which is not retried. So "with -1 the call
   eventually returns" (spec §8) fails.
4. `config_eq_path`: `arg.split('=')` rejects a `--config=` path that
   contains `=`.
5. `depends_multi` (code bug): a line with a `;` anywhere uses the `=\S+;`
   pattern. So `a=x ;` is left stale, and each later assignment on the
   line is overwritten or swallowed.
6. `schema_truncate` (code bug): the output is opened with `'w'` before
   `get_fields` can raise `KeyError`. The property is stated for a run that
   has ended, whether finished or crashed. An unknown datatype leaves that schema
   file empty, earlier files regenerated and later ones stale.

## 4. Fairness

- **Connector.** `Spec` has `WF_vars(Call)`: the loop runs on the caller's
  thread, and `time.sleep` always returns.
- **Bootstrap and IngestManager.** There is weak fairness of the main
  thread's steps (`Startup`, or `IngestStartup` with the hook's steps).
  Nothing blocks in the hook except the topic-manager wait, and that wait
  is itself a fair loop.
- **TopicSubscription.** Each process gets `WF_vars(Proc(p))`.
- **Scripts.** `WF` of `Next`: they are single-threaded and run to the end.

Nothing is assumed of the registry, IceStorm, the shutdown signal or
restarts. Liveness properties are conditioned on `<>[]up` or `[]up`.

## 5. Proofs

These are proved by TLAPS for every value of the constants:

- `ConnectorProofs!BudgetTheorem`: `Spec => []BudgetRespected`. It rests
  on the inductive invariant `IInv` (in `Connector`), which says three
  things:
  - `attempts = count + (0 while calling, else 1)`;
  - with a bounded budget, `count ≤ Retries`;
  - `timedout` implies the budget test held.

  `BudgetRespected` alone is not inductive because it does not relate
  `attempts` to `count`.
- `BootstrapProofs!TypeCorrect`: `Spec => []TypeOK`.
- `BootstrapProofs!ConfiguredTheorem`: `Spec => []ConfiguredBeforeActive`.
  The strengthening `ConfigInv` extends the implication to every stage
  after `get_config`.
- `BootstrapProofs!ServedTheorem`: assuming `~BackgroundAdd`,
  `Spec => []ServedWhenRunning`, for any set of service names. The
  strengthening `BindInv` says that inside the bind loop every passed
  entry is bound. The hypothesis is what the code does: nothing in `src/`
  calls `add_service` from another thread. No run checks this property:
  IngestManager registers a single name, for which `RunningMeansSubscribed`
  already implies it.

- `ConnectorProofs!ContractTheorem`: `Spec => ImplementsContract`, the
  safety part of the refinement of `ConnectorContract` under the mapping
  `calling ↦ pending`. The lemma `ContractStep` maps each loop step to
  `Connect`, `GiveUp` (the budget test implies `Retries > -1`), `Fail`,
  `Flip` or a stutter (`TryRetry` is invisible to the caller). It needs
  only `TypeOK` (`up` is Boolean, so `RemoteUp` is a `Flip`). The
  contract is weak: it says only that a handle comes back while the remote
  end is up, that a timeout needs a bounded budget, and that the outcome
  is final. So no run checks it; `BudgetRespected` and `EventuallyConnected`
  say more.
- `TopicProofs!ConvergedTheorem`: `Spec => []Converged` for every set of
  processes, budget and restart bound. `Converged` alone is not inductive:
  a process in `retrieve` may read `gen` before any creation, so the
  strengthening `TopicInv` adds that `gen ∈ {0, 1}`, that `exists` holds
  exactly when `gen = 1`, and that `held` is only set from a topic that
  exists. `Create` is the one action that changes `gen`, and only when
  `~exists`.
- `IngestProofs` first proves the lemma `RefinesBootstrap`,
  `IngestSpec => ImplementsBootstrap`. The lemma `StepRefines` shows that
  every step of the composition is a Bootstrap step (`ObsCreate` is
  `AddService(CPService)`, each hook failure is `HookRaises`, `HookDone`
  is `HookReturns`) or leaves Bootstrap's variables alone. This holds by
  the way the composition is written, so it is a tool rather than a
  result: it carries Bootstrap's `TypeStep` and `ConfigStep` over to
  IngestManager.
- `IngestProofs!SubscribedTheorem` (`RunningMeansSubscribed`) rests on
  the inductive invariant `SubInv`, which has five parts:
  - before the hook its position is `obs`;
  - once past line 23, `CentralProcessorService` is an entry of
    `_services`;
  - once past line 50, the manager is subscribed;
  - in the bind loop every passed entry is bound;
  - after the loop every entry is bound.

  The second part is needed because `HookDone` must know the service was
  registered. The fourth is `BindInv`. Types come from Bootstrap's
  `TypeStep` through `StepRefines`.
- `IngestProofs!IngestConfiguredTheorem`: `ConfiguredBeforeActive` for
  IngestManager. It reuses Bootstrap's `ConfigStep` through the refinement.
Each of the two theorems below marks the exact boundary
of a finding. Its hypothesis is the one condition under which the finding
cannot happen, and every state can satisfy it:

- `BootstrapProofs!ReadableConfigTheorem`: assuming no argv shape is a
  `--config=` path containing `=`, `Spec => []ReadableConfigLoaded`. The
  strengthening `ReadInv` says the following:
  - the argv shape is one of `ConfigArgs`;
  - a readable file given to a configurable server has been loaded once
    past `get_config`;
  - the FCM stages are reached only with no `--config=` argument.
- `SchemaProofs!NoTruncationTheorem`: assuming every spreadsheet names only
  known datatypes, `Spec => []NoTruncatedOutput`. It rests on the
  hypothesis-free lemma `TruncInvInductive` over the loop invariant
  `TruncInv`, which says the following:
  - files before `i` are complete;
  - files after `i` are untouched;
  - file `i` is untouched until it is opened;
  - a crash at `i` either left file `i` untouched or came from an unknown
    datatype.
- `SchemaProofs!GeneratedTheorem`: with no hypothesis, a finished run has
  written each output as `Render(get_fields(...))` of its spreadsheet. This
  is the control half of `SchemaMatchesSheets`, from the same `TruncInv`.
These are only model-checked:

- the liveness properties (`EventuallyConnected`, `StartupCompletes`,
  `DanceTerminates`, `ServedIfAlwaysUp`). They are beyond the prover, whose temporal backend cannot
  reason about ENABLED.
- the data half of the script properties: `LinesPreserved`,
  `SimpleEntriesSet` and `RewriteAsIntended` (what the recursive
  `SubFrom` does to a line), and the rest of `SchemaMatchesSheets` (that
  reading back `Render(get_fields(s))` gives the spreadsheet). Each is a
  statement about every line or spreadsheet, which takes induction over
  the data. The library's induction theorems need an operator parameter,
  which the installed provers cannot instantiate. `GeneratedTheorem`
  treats `Render` as opaque, so it holds whatever `Render` computes.

## 6. Not modelled

- The Ice wire protocol, FCM storage and IceStorm internals: only their
  answers are modelled.
- Log and console output.
- `get_parameter`: it is read-only.
- The monitoring adapter goes live before the hook runs (lines 171-180),
  which is the opposite of the order in spec §4.6. The model follows the
  code, but no property states the spec's order.
- `set_retries` during a wait: nothing in `src/` calls it concurrently.
- **make_depends.** Regular-expression metacharacters in package names, and
  backslashes in locations. Names are literal in the model.
- **generate.py.** The description text and the spreadsheet format.
- `setup.py`, `build.py` and `debianise.py`: they only call the build
  system.
- `readData.py`: it only parses files for plotting.
