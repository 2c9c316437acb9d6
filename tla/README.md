# TLA+ models of the EAIP platform foundation

TLA+ modules, TLC configurations and TLAPS proofs for the Python package
`src/src/eaip`: the in-process foundation on which platform applications are
assembled. It persists nothing and talks to no other process. What is hard
about it is concurrency inside one process: asyncio tasks that meet at awaits,
threads that meet at locks (or where there is none), user code (hooks,
services, plugins, factories, handlers, checks, observers) that fails or calls
back in the middle of an operation, and operations that must undo what they
have half done.

`PROJECT.json` maps every modelling definition to the lines it models, and
lists the runs, a mutant of the code for each property, the theorems, the
hazards and the findings.

## Inventory

| Component | State | Operations | What is hard | What makes it correct |
|---|---|---|---|---|
| `lifecycle` | phase, entries with their `started` flag | `add`, `start`, `stop` | hooks are awaited with the entries half started; `stop()` is accepted while a failed `start()` still rolls back; cancellation in a hook | order up, reverse order down, nothing left up after a failure or a stop, phases never go back, everything settles |
| `interfaces` (`AbstractService`) | state of a service | `start`, `stop` | failure under the lifecycle manager, which then never stops it; two overlapping rollbacks; direct callers | one caller at a time inside a service; services follow their lifecycle and go down in reverse order |
| `plugins` | registry of installed plugins, set of active names | `install`, `uninstall`, `activate`, `deactivate`, the `_all` forms | check and update on two sides of an await; a failure inside a batch; an order taken from a set | an active plugin is installed; what a batch leaves, whether it succeeds or fails |
| `platform` | lifecycle and plugin loader | `start`, `stop`, `async with` | a failure of one half while the other is up; calls of several tasks | plugins live strictly within the lifetime of the hooks; outcomes of `start` and `stop` |
| `platform/builder` | settings, container, plugins to install | `with_*`, `build` | a container that is shared, a child scope, or bound in by others meanwhile; partial failure | platforms are never mixed; of builds that meet one wins |
| `feature_flags` | defaults, overrides | `define`, `apply_overrides`, `is_enabled` | order of overrides, defaults that come later | what the settings say decides |
| `application` with `core/signals` | shutdown event, the runner's position | `run_platform`, `bootstrap` | a signal at any time; a callback that raises; other tasks that use the same platform | what was started is stopped; no signal is lost |
| `dependency_injection` | providers, cached instances, lock, resolve stack, parent | `register*`, `resolve`, `try_resolve`, `create_scope` | threads share the stack outside the lock; factories recurse and raise under the lock; a child has another lock than its parent | a singleton is built once through each container, cycles found, stack balanced, locks given back |
| `registry` | items, observers | `register`, `unregister`, `clear`, `observe` | announcing outside the lock; observers that come, go and mutate | truthful announcements, each told exactly once, in order |
| `capabilities` | a registry of immutable records | `register`, `unregister`, `set_status` | read-modify-write without a lock | a record is lost or comes back only by an overlapping change |
| `events` | subscriptions | `subscribe`, `unsubscribe`, `clear`, `publish` | overlapping publications, failures, cancellation from outside and by a handler, subscriptions changing meanwhile | every match called once, in order, every failure reported, nothing outlives `publish` |
| `health` | checks | `register`, `unregister`, `report` | concurrent checks that fail or hang; a report that is given up | the rollup is the worst of the results; nothing is left running |
| `config` | data of the sources | `load` of four sources, `_deep_merge` | mappings shared between a source, other sources and what `load()` returned | later layers win and loading again changes nothing, as long as sharing does not get in the way; what may be written into |
| `version` | | comparisons, compatibility | two of the four comparisons use another equality | which comparisons agree |
| `utilities` | a semaphore | `gather_with_concurrency`, `run_with_timeout` | limit under failure and cancellation | at most `limit` at a time |
| `factories`, `settings`, `logging`, `serialization`, `validation`, `shared`, `infrastructure`, `ports`, `protocols`, `types`, `metadata`, `exceptions` | values | | | declarations, value types, I/O adapters |

How they interact. `run_platform` calls `Platform.start/stop`; these call
`LifecycleManager` and `PluginLoader` in sequence in the caller's task; a hook
is often the `start()` and `stop()` of a service; a hook or plugin may call
anything that is reachable from the platform (events, capabilities, health,
container) while its caller waits. The builder makes all of them and puts
them into the container. Plugins and capabilities are kept in a `Registry`.
Event handlers and health checks run as tasks of their own, by
`asyncio.gather`. There are no messages to other processes.

## Modules

| Module | Models | Correspondence |
|---|---|---|
| `OrderedLifecycle` | what `LifecycleManager` promises | abstract: hooks come up one by one in order, go down one by one in reverse, never come back; down means nothing is up |
| `LifecycleManager` | `lifecycle/manager.py` | `phase`, `stoppable` and `started` are `_phase` and `_entries`; `pc`, `at` say in which hook each task is |
| `Services` | `interfaces/service.py` on top of it | extends `LifecycleManager` by `state` (`_state` of the service behind each hook) and `inside` (the service whose `_on_start` or `_on_stop` a task is in); `touched` is history |
| `PluginLoader` | `plugins/loader.py`, `plugins/registry.py` | `installed`, `activated`; `todo` is the rest of a batch; `order` and `call` are history |
| `Platform` | `platform/platform.py` | instances `LM` and `PL` of lifecycle and loader; `stage` says where each task is in `start()` or `stop()` |
| `Application` | `application/runner.py`, `core/signals.py` | extends `Platform` by the runner, the exception in flight and the event; any task, the callback included, may use the platform meanwhile |
| `FeatureFlags` | `core/feature_flags.py` | a registry as a record, each operation (it is atomic, under the lock) as an operator |
| `PlatformBuilder` | `platform/builder.py`, with the accessors of `Platform` | `bound` is what the containers hold; `stage`, `place`, `next`, `looked` say where each `build()` is; `flags` is its flag registry |
| `Container` | `dependency_injection/` | `providers`, `cached`, `lock`, `depth`, `frames`; `Lineage` is each container's line of `_parent`s, of any length; `calls` is each thread's stack of `resolve()` calls; `stores` is history |
| `Registry` | `registry/registry.py` | `items`, `observers`; `announcing` is each thread's stack of `_notify` calls; `log`, `got`, `since` are history |
| `CapabilityRegistry` | `capabilities/registry.py` on top of it | extends `Registry` by `pending`, the record each `set_status()` has read, and `wrapped`; `basis` is history |
| `EventBus` | `events/bus.py` | `entries`; `delivery`, `failures`, `publisher` for each publication; `ready` is the loop's queue (external); `own`, `made`, `calls` are history |
| `HealthReporter` | `health/reporter.py`, `run_with_timeout()` | `checks`; `reporter`, `child`, `outcome`, `rollup` for each report |
| `ConfigSources` | `config/sources.py` | `heap` has the mappings of the `DictSource`s as objects, those within mappings too, which sources may come to share; `env`, `file` are what the other two would read |
| `Version` | `version/semver.py` | a version as a record, each comparison as an operator; no runs, its theorems are in `AssemblyProofs` |
| `LifecycleManagerProofs`, `ServicesProofs`, `PluginLoaderProofs`, `ContainerProofs` | | theorems about the modules they are named for |
| `PlatformProofs` | | theorems about `Platform` and `Application` |
| `AssemblyProofs` | | theorems about `PlatformBuilder`, `FeatureFlags` and `Version` |
| `GatherProofs` | | theorems about `HealthReporter` and `EventBus` |
| `RegistryProofs` | | theorems about `Registry` and `CapabilityRegistry` |

Each `MC*` module gives the constants of its specification values that a
configuration cannot write (functions, records) and symmetry sets. The run
`lifecycle` is of `MCServices`, `registry` of `CapabilityRegistry` and
`application` of `Application`, which extends `Platform`: the extending modules
take every action of the ones below whole, so that the properties of these are
checked there too.
Operators marked "Mutant of ..." are not part of any specification: each is
the definition it names with a plausible mistake, used to see that the
property it is paired with in `PROJECT.json` can fail.

### Granularity

In asyncio code (`LifecycleManager`, `Services`, `PluginLoader`, `Platform`,
`Application`, `EventBus`, `HealthReporter`) tasks switch only at an await that
suspends. An action is the code from one suspension to the next. A synchronous
hook or handler is one whose end follows its call at once, which is one of the
interleavings. `Platform` conjoins a step of one component with the call the
platform makes next without suspending: `AfterLifecycleStart` goes on into
`PL!ActivateAll`, `AfterDeactivateAll` into `LM!Stop`. `Services` conjoins a
step of the manager with what it does to the service whose hook has ended and
to the one whose hook is called next.

`asyncio.gather` makes its tasks ready side by side, so that a cancellation
from outside finds all of them started or none (the second conjunct of
`Cancel` and `GiveUp`). Cancelled, `gather` waits for the tasks that run, but
ends at once with a task that is over as cancelled, which one not started is
when its turn comes. A handler that cancels its own publication (`CancelOwn`)
may find some started and some not; then the rest is left running, which
`NothingOutlivesPublish` excepts.

In threaded code (`Container`, `Registry`, `CapabilityRegistry`,
`PlatformBuilder`) each access to shared state is an action; a block under a
lock that calls no user code is one action, since nothing can happen in the
middle of it that any other thread could see. The lock of `Container` is
explicit, because factories run with it held; in `PlatformBuilder` nothing is
resolved and the container's operations are atomic, but `build()` is not: two
of its registrations are two actions, and so are `has()` and the registration
that depends on it. `ConfigSources` has one action for a `load()`, which no
lock protects: the code does not offer it to several threads.

### What is abstracted

Names, manifests, instances, event payloads, messages, contexts and log records
are model values or absent. Arguments that an operation refuses with an
exception and without a change (a value of the wrong type, an empty key) are
left out where they would be a step that changes nothing, and kept where the
call is part of a larger one (`Refused`, `AddUnnamed`, `StopRefused`,
`InstallViolatesContract`). Hooks, plugin methods, factories, handlers and
checks return or raise at any time; cancellation of a task inside one of them
is the same to the code (`except BaseException`, `finally`) as an exception of
it. In `Platform`, hooks are added and plugins installed by clients between the
platform's calls, but plugins are activated only by the platform and the
lifecycle is started and stopped only through it; direct activation is in
`PluginLoader`, direct `start()` and `stop()` in `LifecycleManager`. In
`Container`, factories let the errors of their dependencies through, register
nothing, and do not call `try_resolve()` or another container's `resolve()`;
containers are given, not created, since `create_scope()` only makes an empty
child. In `Registry`, each callback observes at most once at a time. A
capability's record is a title, which stands for all that `set_status()` must
not change, and a status. In `ConfigSources` a mapping is an object with a
name, a variable or a file a tree of keys and values, and merging recurses to
any depth, as the code does; a key is merged without regard to the others, in
whatever order. A prerelease in `Version` is its rank among the strings.

## Runs

Passing runs. "Tasks" are concurrent callers.

| Run | Bounds | Shows |
|---|---|---|
| `lifecycle` | 2 tasks, up to 4 hooks with and without stop function, with and without a service | of the manager `StartOrder`, `StopOrder`, `DownWhenOver`, `PhaseForward`, the refinement `ImplementsOrdered`, and `Settles`; of the services `ServiceInv` (one caller inside), `ServicesFollow`, `ServicesStopInReverse` |
| `plugin_loader` | 1 task, 4 plugins | `LoaderInv` (what is active is installed, calls match the plugins' state, and what the batches leave), after any sequence of calls |
| `application` | 2 tasks, one of which may run `run_platform`; up to 2 hooks, 1 plugin | of the platform `PlatformInv` (one `start()` at a time), `PluginsAfterHooks` and `CallsEnd` for any callers, and `StartOutcome`, `StopOutcome`, `HooksOutlivePlugins` as long as one task controls it; of the runner `AppInv` (what was started is stopped, or another task is stopping it), `DownInTheEnd`, and `SignalEndsRun` for a signal at any suspension point |
| `container` | 2 threads, a root and a child, 2 types, 4 bindings (a dependency, a two-type cycle, a scoped binding in the child) | `ContainerInv` (types, the discipline of the locks, balanced frames), `OncePerContainer`, `CyclicNeverBuilt`, `ResolveEnds` |
| `registry` | 2 threads, 1 key, records of 2 titles and 2 statuses, 2 observers, `MaxChanges` = 3, `MaxDepth` = 2 | `CapInv` (types; the announcements explain the items, none is made twice, and whoever observes was told once or is still to be; a `set_status()` has read what was there), `ExactlyOnce`, `OrderPerThread`, and of `set_status()` `OnlyOverlapLoses` |
| `event_bus` | 2 publications, 2 subscriptions (with and without subclasses), a type and a subtype | `BusInv` (nothing outlives `publish()`), `ReturnAccounts`, `InPublishOrder`, `Ends` |
| `health` | 2 reports, 2 checks | `HealthInv` (nothing outlives `report()`), `RollupIsWorst`, `ReportsEnd` |
| `config` | 2 dictionaries, the environment, a file; any stack of 3 or 4 of them; 3 levels of mappings, 5 dictionaries' contents, 4 environments, 3 files (one broken) | `LaterWinsApart`, `IdempotentOnSameKinds`, `ConfigInv` (no mapping comes to contain itself; what a `load()` may write, and where) |
| `assembly` | 2 builds, a root and its child scope besides containers of their own; clients bind a port and a subsystem; 5 choices of settings and plugins | `BuilderInv` (a platform is wired to itself), `OneWinner`, `SettingsDecideFlags` |

Why these bounds. No operation tells more than "me" from "another", and the
phase gate of `start()` lets one task in, so that two callers make every race
that the properties are about; the one race we know of that takes three, of
threads in `Container`, is described below, and the theorems hold for any
number. Two hooks let the second fail after the first, which its rollback then
stops; one plugin fails or not, and what a batch of several leaves is the
matter of `plugin_loader`. Four hooks let one rollback overtake another by
several entries, and gaps of hooks without a stop function appear at both ends
and in the middle. Four plugins give a batch a first, a last and more than one
between. Two types suffice for self and mutual dependency, and the child adds
the only other level a lookup distinguishes. Three changes with nesting of two
put an observer's own change between two others, and a change between the
reading and the writing of a `set_status()` with one more after it. Two checks
let one fail, or be skipped, while the other runs. Sections within sections are
where `_deep_merge()` makes sources share a mapping, and a third level is what
it then writes into; four layers have a plain value between sections, and with
three one source stands outside. A build is only ever stopped by a key that
another build or a client has bound: one client key of each of the two kinds
and two builds make every combination.

Deadlock is checked, except where the system really may stop: `event_bus` (each
publication is made once), `registry` (the changes are bounded) and `assembly`
(each build is made once).

### Where the code and its documentation disagree

Three runs show a statement that the code does not keep; the statement is the
property and TLC refutes it.

| Run | Statement | What happens |
|---|---|---|
| `plugin_order` | plugins are deactivated in reverse order of activation (`plugins/loader.py:144`, `DEVELOPER_GUIDE.md:130`) | the order comes from a set |
| `container_cycle` | the resolve stack is per thread (`dependency_injection/container.py:47`) | another thread's frame is reported as a cycle |
| `container_shared` | a child shares the singletons of its parent, a hard guarantee (`dependency_injection/README.md:25`, `container.py:219`), each built once (`scope.py:11`) | each container has a lock of its own, so that a singleton of the root can be built through the root and through the child at once |

Others, met while modelling, need no run, or are the precondition under which a
property is stated:

* "the loader detects double-activate" (`DEVELOPER_GUIDE.md:131`): two tasks
  may both pass the test at `plugins/loader.py:105` before either has filled
  the set. `LoaderInv` is checked for one task, and `PlatformInv` shows that
  `Platform.start()` does not let two in.
* "even if any step raises" (`ARCHITECTURE.md:313`): the first plugin whose
  `deactivate()` raises leaves the others active (`platform/platform.py:174`);
  the hooks are stopped all the same (`StopOutcome`).
* the runner "*always* stops the platform cleanly" (`application/README.md:22`):
  not when `start()` itself raises, which is outside the `try` of
  `application/runner.py:35`; a plugin that fails leaves the hooks up
  (`StartOutcome`). Nor when another task that has the platform, which the
  runner hands to its callback, is inside `stop()`: the `stop()` of the
  `finally` is refused (`lifecycle/manager.py:135`), and `run_platform` raises
  while hooks are still up. `AppInv` has this as its only exception, and
  `DownInTheEnd` says that the other `stop()` takes them down.
* `config/sources.py` promises a "read-only source" (line 17), an "idempotent"
  `load()` that returns a "snapshot" (line 21), and that "later sources
  override" (line 157). `_deep_merge()` writes into what `load()` of a
  `DictSource` hands out (lines 43, 195), and stores a section of an upper layer,
  where the lower one has none, as the object it is (line 197), so that two
  sources share it from then on. Hence, with dictionaries `a`, `b`, `c`:
  - `a = {k: {}}`, `b = {k: {s: {p: 1}}}`, the environment between them: after
    one `load()`, which leaves `s` in both, a variable `K__S__P` overrides `b`,
    a later source. `LaterWinsApart` is stated for sources that share nothing.
  - `{k: {}}`, `{k: {s: {p: 1}}}`, `{k: {s: 5}}`, `{k: {s: {q: 2}}}`: the first
    `load()` returns `s = {q: 2}`, the second `{q: 2, p: 1}`.
    `IdempotentOnSameKinds` is stated for sources that agree on what is a
    mapping.
  - a `load()` of `a` and `b` followed by one of `a` and `c` writes the entries
    of `c` into `b`, and into a configuration that the first has returned.
    `ConfigInv` says that nothing else is written: only mappings of the stack's
    own `DictSource`s, and only what another source of it has there.
* "build metadata is ignored" (`version/semver.py:65`): not by `__gt__`,
  theorem `BuildIsNotIgnored`.
* "built once per container" (`dependency_injection/scope.py:11`): besides what
  `container_shared` shows, which `OncePerContainer` bounds to once through
  each container, not for a binding that depends on its own key. Other threads
  may pop the frames its cycle is detected with; the thread then comes back to
  the binding in a call below its own factory and enters the lock it holds,
  which is reentrant (`dependency_injection/container.py:72`), so that both
  calls may come to store an instance. It takes three threads and more than
  forty steps. `OncePerContainer` is stated for bindings that are on no cycle
  (`OffCycle`), and `CyclicNeverBuilt` for those with no way out of theirs
  (`Hopeless`).
* `scoped_context()` "restoring on exit" (`logging/context.py:47`): it unbinds
  the keys (`logging/context.py:52`).

## Fairness

`LifecycleManager`, `Services`, `Platform`: weak fairness of each task's
`Resume` (`ServiceResume`): a hook or plugin call that is awaited ends, and
the event loop then runs its task. Nothing makes a caller call. `Application`:
the same for the runner and for each task's `UserCallGoesOn`, and `on_running`
ends; nothing makes a signal come, an exception be raised or anyone call. `Container`: weak fairness of each thread's steps (a
runnable thread runs, a factory ends) and strong fairness of taking the lock,
since another thread may take and give it back for ever; Python's lock wakes a
waiter whenever it is given back. `EventBus`, `HealthReporter`: the loop takes
what is ready, handlers and checks end, a caller whose tasks are over is
resumed; nothing gives a publication or a report up. A hook, factory, handler
or check that never ends blocks its caller for ever in the code as well: no
operation has a timeout of its own. The other modules claim no liveness.

## Proofs

Eight modules hold theorems. Each is for every value of the constants; besides
the named assumptions about these nothing is assumed.

**`LifecycleManagerProofs`** (assumes `LifecycleAssumption`: `MaxHooks` is a
natural number). `TypeCorrect`, `Invariant`, `StartsInOrder`, `StopsInReverse`,
`NothingLeftUp`; `ShutsDownOnce` (one `stop()` at a time is past its check, and
only that one sets `STOPPED`); the action property `PhaseNeverGoesBack`; and `Refinement`:
`Spec => ImplementsOrdered`, each step a step of `OrderedLifecycle` or a
stutter. `StopOrder` alone is not inductive: to know that the next stop hook
called is the highest one left, one needs that nothing starts while something
stops. `WhoMayBeWhere` says it: at most one task is in `start()`, a rollback
exists only once the phase is `FAILED`, `STOPPING` or `STOPPED`, and nothing is
started before `start()`. With two overlapping rollbacks each stands at or
above all that is left to stop, so whichever of them finds nothing below may
declare the shutdown over (`DownWhenOver`). `IInv` is the conjunction, and
`InvStep` proves it inductive with one step for each action; `NextStop`,
`NothingOwed`, `WalkStep` and `LeaveStep` treat the walk down the entries.

**`ServicesProofs`** (the same assumption). `ServicesRefineManager`: the
composition implements the manager by itself, so that its theorems hold of it
(`ServicesKeepOrder`). `ServicesGuarded`: `ServiceInv`, which is inductive. A
step is split at its middle, where the task has left one service and has not
entered the next (`Between`); `LeftIsBetween` and `EntersStep` are the halves.
`ServicesFollowLifecycle`: `ServicesFollow`; `ServicesReverse`:
`ServicesStopInReverse`; both from `FollowInv`, which is inductive together
with `IInv` and `ServiceInv`. It says of a service that only the manager calls
what its state means for its entry (`EntryOf`: `RUNNING` that it is started,
`STOPPED` that nothing above it is any more, `FAILED` that the lifecycle is
coming down), and which hook a task inside of it is in (`CallerOf`). Where two
rollbacks overlap, the one that finds a service `STOPPING` is refused and goes
on below it: its entry is cleared while the other is still inside, which is why
the order is a matter of the states and not of the entries alone. Once
`STOPPED`, only the rollback of a failed start can still be inside of one, by
`ShutsDownOnce`.

**`PluginLoaderProofs`** (`PluginAssumption`: `NoPlugin` is not a plugin).
`LoaderTypes`: whatever tasks use the loader it is well typed, for which one
needs that no plugin is listed twice and that taking one out of a sequence
leaves the others in their order (`RemovedOnce`). `LoneLoader`: `LoaderInv` with a single task. `Alone` says how far a batch
has come: `activate_all()` has activated all installed plugins before the one it
awaits and has the rest on its list, `deactivate_all()` those that are still
active (`ListedAll`: the list has all that were active, in whatever order). With
two tasks neither statement is true of the code, which the platform's own gate
makes up for.

**`PlatformProofs`** (`PlatformAssumption`: `MaxHooks` is a natural number and
`NoPlugin` not a plugin; `ApplicationAssumption`: the runner is a task).
`HooksBeforePlugins`: `PluginsAfterHooks`; `StartIsSerial`: `OneStart`. Their
`IInv` ties a task's stage to its place in the lifecycle and in the loader
(`Where`): one that is in a start hook finds the phase `STARTING`, and a plugin
is being activated only after `RUNNING`. Lemmas say what a step of each
component does to the phase, to `pc` and to `doing` and nothing else;
`OthersGoOn` treats the other tasks once for all steps, and
`StartGoesIntoPlugins`, `AfterDeactivate` and `StopIsOver` the steps in which
one component's return goes on into the other.

`PlatformRefinesManager`: the lifecycle in a platform is a lifecycle manager,
so that the theorems about that hold of it (`PlatformKeepsOrder`).
`StartEndsWell`, `StopEndsWell`, `PluginsLeaveFirst`: `StartOutcome`,
`StopOutcome`, `HooksOutlivePlugins`, for one task that starts and stops the
platform and any others that add hooks, install and uninstall. Their invariant
`OInv` says what that task knows at each stage (`Knows`): while it deactivates,
every active plugin is the one it awaits or still on its list, so that a
`deactivate_all()` that returns leaves none (`Deactivating`). That neither call
is refused half way is `InCharge` of the manager: `STARTING` and `STOPPING` have
a task that takes the lifecycle there, and it is the only one there is
(`AloneInCharge`).

`PlatformRefinesLoader`: the loader in a platform is a plugin loader, so that its
types hold there too. `PlatformInvariant`: `PlatformInv`, typing included.
`ApplicationRefinesPlatform`: what the runner and the other users do is what a
platform allows its callers, so that every theorem about `Platform` holds of
it. `StopsWhatItStarts`: `AppInv`, whatever other tasks, and the callback, do
with the platform meanwhile. By `RunnerInv`, once `platform.start()` has
returned the lifecycle is past its start and nobody is in a `start()`, from
where a step of any task only takes it down and activates no plugin
(`OnlyDown`, `DownStep`). While the runner is in its `stop()`, what is still
active is what it has yet to deactivate, or nothing (`Stopping`); `StopStep`
says how that ends (`StopEnded`): returned, with the lifecycle down and no
plugin active, or raised. If the phase is `STOPPING` then, `InCharge` of the
manager names the task that takes the lifecycle down, which is another one.

**`AssemblyProofs`** (`BuilderAssumption`: a tree of containers of two levels,
names that differ; nothing for `Version`). `PlatformsStayApart`: `BuilderInv`,
for any number of builds, containers and client bindings. Being wired is not inductive for a
build that is over alone: `Wired` says for one that is halfway that all keys
it has come past are there, and its own from the fourth on. `HolderStays` is
why that lasts: no binding is taken back, though a scope may come to hide its
parent's. `SettingsWin`: `SettingsDecideFlags`, from what
`ApplyOverrides` makes of the settings (`OverridesDecide`), which later
definitions leave alone (`DefinitionKeeps`). `OneBuildWins`: `OneWinner`. A key
that a build has bound lies behind it (`BoundBy`), and a build that failed for
no plugin stands at a key that was taken (`Blocked`), so by another build that
is further on: the one that has come furthest (`Furthest`) has not failed. It
needs no bound on the number of builds, since there are eleven keys.

Of `Version`, for all versions: `LessIsWeakOrder`: `__lt__` is a strict order
that ties just the versions differing in build metadata at most;
`BuildIsNotIgnored`: of two such versions each is `>` the other and neither
`<=`, and everywhere else the four agree; `CompatibleIsEquivalence`.

**`ContainerProofs`** (`ContainerAssumption`: each container is the first of its
own line of parents, bindings are of known keys, scopes and containers). For
any number of threads, containers and bindings. `FramesAndLocks`:
`ContainerInv`. `Moves`, `Returns` and `Enters` say what the three kinds of
steps do to a thread's stack of calls; `LockInv` follows for each: a call that
builds holds the lock of the container it is on, the depth of a lock is the
number of calls that hold it, and a call waits only on top of its thread's
stack. The code's list of frames is shared by all threads and any of them pops
its last, so no frame can be said to belong to a call; only the number can,
which `FramesInv` states as the cardinality of the set of calls that have
pushed (`Pushed`). `BuiltOnce`: `OncePerContainer`. A stack is linked
(`LinkInv`): each call above the lowest is for a dependency of the one below,
and so stays within any closed set of keys that the lower one's dependencies
lie in (`DepsInv`). Hence a thread that builds a binding on no cycle does not
come to it again below that, no other thread can while the lock is held, and
what is `UnderWay` is not cached yet. `NeverBuilt`: `CyclicNeverBuilt`.
`HopelessInv`: as long as none of a hopeless set has been built, a call for
one of them never comes past the dependency that nothing outside the set
provides.

**`RegistryProofs`** (`RegistryAssumption`: `NoValue` is not a value, the
bounds are natural numbers; `CapabilityAssumption`: values are records of a
title and a status). `RegistryInvariant`: `RegistryInv`. That the
announcements explain the items is said without replaying them: `IsAfter` says
of a key and a position what the last announcement before it that touches the
key has left, and `ExplainsNext` that one more entry keeps this.
`ToldExactlyOnce`: `ExactlyOnce`. It is not inductive; `DueOrTold` is: whoever
has been observing since before a change was told of it once and is not to be
told again, or not yet and is due in exactly one announcement, whose thread is
still in it (`AnnouncedOnce`). `ToldInOrder`: `OrderPerThread`. Of the nested
announcements of a thread the outermost is the oldest (`OutermostIsLast`), and
a callback is told only of changes its own thread made (`OwnChanges`), so what
an observer got so far from a thread lies before what it is told next, except
what it changed itself. `CapabilityInvariant`: `CapInv`;
`CapabilityRefinesRegistry`: a capability registry is a registry, so that the
others hold of it. `OnlyOverlapsLose`: `OnlyOverlapLoses`; a `set_status()`
writes back what it read (`WritesBack`), so a change it undoes lies after its
reading; `PastStands` and `StandsUntouched` carry this over later changes.

**`GatherProofs`** (no assumption). `NothingLeftRunning`: `HealthInv`;
`WorstIsReported`: `RollupIsWorst`. `ReportInv` has the reason why `report()`
may raise as soon as a check is skipped: once it is given up, either all its
checks were started or none is. `WorstIsMax` is about `max()` by severity.

Of `EventBus`, whatever subscribes, publishes and cancels at any time:
`NothingLeftHandling`: `BusInv`; `PublishAccounts`: `ReturnAccounts`;
`CalledInOrder`: `InPublishOrder`. The inductive invariant is `BusIInv`. Of the
order in which handlers are called nothing follows from the calls alone: that
the queue is in the order of the publications, and that what it still has for a
subscription comes after all that was called with, is `OrderInv`. `QueueInv`: the
queue has just the deliveries that are ready, once each, so that none starts
twice; `AccountInv`: who was called and who is reported, by how far the delivery
has come, where one condemned by its own cancellation may be reported and still
end as cancelled; `PublishInv`: where the deliveries of a publication may be, by
where `publish()` is. `FilteredOnce` and `CountedOnce` are the lemmas about the
lists, `PublishStep` the step that makes a whole row of deliveries ready.

Only model-checked: liveness (`Settles`, `CallsEnd`, `SignalEndsRun`,
`DownInTheEnd`, `ResolveEnds`, `Ends`, `ReportsEnd`), since fairness and
`ENABLED` are beyond the prover; and all of `ConfigSources`, whose recursion over
mappings of any depth is, too.

## Not modelled

* `gather_with_concurrency()`: nothing calls it, and its limit is asyncio's
  semaphore. `run_with_timeout()` is in `HealthReporter` (`GiveUp`).
* Of `config`, the validation by pydantic in `ConfigLoader`, a `LayeredSource`
  within another, a file whose top level is not a mapping, and mappings that are
  not dicts; of `version`,
  parsing and formatting; of `feature_flags`, overrides that clients apply to
  a platform that is built.
* The identity of instances in `Container`: which instance a singleton built
  through a child keeps of the child's scoped ones.
* Of `registry`, a stored `None`, which `unregister()` removes without telling
  (`registry/registry.py:147`); of `health`, a check that cancels its own report
  while it runs; of `plugins`, a client that replaces or removes a plugin in the
  registry behind the loader's back (`PluginRegistry.register(replace=True)`,
  `unregister()`).
* The context variables and the configuration of `logging`: output.
* `factories`, a table of callables without concurrency; `serialization`,
  `validation`, `shared`, `infrastructure`, `ports`, `protocols`, `types`,
  `metadata`, `exceptions` and the rest of `settings`: declarations, value
  types, encodings and I/O, without control worth a model.
* `asyncio` (the ready queue, `gather`) and `threading` (locks) are modelled
  as far as the code relies on them.

## Plan

1. The identity of instances in `Container`, for the hazard that needs it.
