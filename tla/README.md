# TLA+ models and proofs for the reading-series libraries

The repository collects annotated copies of JavaScript libraries (Vue 2 and 3, vue-router, VueUse, Vant,
Element Plus, React, lodash, Nest and its packages, Express, Passport, async-validator and others).
This directory holds TLA+ models of the parts of them whose correctness depends on *order*:
re-entrance, callbacks, timers, promises that settle late. Each module is translated from the source
files it names; `PROJECT.json` maps every definition to its lines, and lists the runs, the mutants that show
what each property would catch, the findings, the hazards and the theorems.

Contents: 1 inventory · 2 the modules and the code · 3 runs, bounds, fairness · 4 findings · 5 proofs ·
6 what is not modelled · 7 plan · 8 how to run

## 1. Inventory

Everything below runs on one JavaScript thread. There is no pre-emption; what is hard is that any
user function called by a library may call the library again before it returns (re-entrance), and that
everything after an `await`, a timer or a promise callback runs in a state others have changed.

| Part | State it keeps | Operations | Hard behaviour | What makes it correct |
|---|---|---|---|---|
| **vue3 scheduler** `runtime-core/src/scheduler.ts` | `queue`, `flushIndex`, `isFlushing`, `isFlushPending`, pending and active post-flush callbacks | `queueJob`, `queuePostFlushCb`, `invalidateJob`, `flushPreFlushCbs`, `flushPostFlushCbs`, `flushJobs` | the loops run inside one another over the same arrays; errors abandon loops; the flags decide alone whether a flush will come | no trigger lost, none run twice, order by id, props watchers before the render, flush always armed, flush ends |
| **vue3 reactivity** `reactivity/src/effect.ts`, `dep.ts`, `computed.ts` | dep sets with bit marks `w`/`n`, `effect.deps`, `activeEffect` and its parents, `_dirty` | `track`, `trigger`, `run`, `stop`, computed getter | effects nest, recurse, stop themselves; the bits of one recursion depth are shared by all deps | deps of an effect = what its last run read; a change re-runs every reader; a computed never returns a stale value |
| **vue3 async components** `runtime-core/src/apiAsyncComponent.ts` | `pendingRequest`, `resolvedComp`, `retries`; per wrapper `loaded`, `error`, `delayed` | `load`, `retry`, timers, settle callbacks | a late answer after a timeout, an outdated request failing after a new one started, wrappers sharing a request | loaded means a component is there, shared loads, no circular wait, everyone is told |
| **vue3 KeepAlive / Suspense** | caches, pending branch, dependency counts | activate, prune, resolve, fallback | out-of-order resolution of nested async dependencies | pruned only when not current; resolve once per pending branch |
| **vue-router** `router.ts`, `history/html5.ts` | `currentRoute`, `pendingLocation`, `ready`, `started`; the copy of the current entry and its position, `pauseState` | `push`, `replace`, `go`, popstate, guards' answers, install and unmount of the app | a navigation superseded while its guards are awaited; a popstate whose URL is already changed when it is refused, and the traversal back, asynchronous too | the newest navigation wins; positions count entries; a refused popstate is undone; URL and route agree when idle |
| **React scheduler** `Scheduler.js`, min heap | `taskQueue`, `timerQueue`, flags | schedule, cancel, work loop | callbacks cancel and schedule while the loop yields | heap order, no task lost, host callback armed |
| **React reconciler** `ReactFiberClassUpdateQueue.js`, `ReactFiberConcurrentUpdates.js`, `ReactFiberLane.js`, `ReactFiberWorkLoop.js`, `ReactFiberRootScheduler.js` | two trees with a queue and lanes per component, updates staged for the queues, lanes of the root, the render under way, the root's task | `setState`, `flushSync`, the microtask and the Scheduler task, units of work, yields, commit, ping | updates overtaken, skipped and rebased; renders interrupted, restarted, suspended, or held back at their commit while updates and pings come in | no update lost, doubled or moved; its lane leads to it; its callback called once; it comes to the screen |
| **vue2 scheduler** | `queue`, `has`, `index` | `queueWatcher`, `flushSchedulerQueue` | as vue3, older | as vue3 |
| **lodash debounce / throttle** | `lastArgs`, `timerId`, times | call, timer, cancel, flush | a timer late against a call; clock going backwards | trailing call never lost; `maxWait` respected |
| **async-validator** `asyncMap` | counters | validator callbacks | callbacks late, twice, or after the first error | the final callback is called once |
| **VueUse** `useAsyncQueue`, `useWebSocket`, `useFetch` | promise chains, sockets, timers | open, close, heartbeat, abort | reconnect against close, late answers | no reconnect after an explicit close |
| **Nest** injector `settlement-signal.ts`, mongoose retry | waiting sets | resolve providers | circular waits | a circular wait is reported, not awaited |
| **Express / Passport** | layer index, strategy index | `next`, `fail`, `success` | a handler that calls `next` twice | each layer at most once per request |
| **Vant, Element Plus** | component state | UI | timers of a count-down | not modelled: layout and styling |
| **path-to-regexp, compilers, create-react-app, nest-config/jwt, reading-notes** | none between calls, or files | pure functions, I/O, notes | none that order decides | not modelled |

How the modelled parts meet: a write to reactive state calls `trigger` (reactivity), which runs effects at once
or calls their scheduler; the scheduler of a component's render effect and of a watcher calls `queueJob`
(scheduler); the flush runs the jobs, whose renders create wrappers of async components, patch children
(`updateComponent`, `unmountComponent`) and queue post-flush callbacks; a loaded wrapper changes its `loaded`
ref, which triggers again. Each module takes its neighbours as "any code may call this now": the scheduler's jobs
make arbitrary calls, the effects' functions arbitrary reads and writes, and a queued job runs some time later.

## 2. The modules and the code

| Module | Role |
|---|---|
| `Requests` | abstract specification: what the scheduler promises to those that ask it for something |
| `Scheduler`, `MCScheduler` | the vue3 scheduler and the renderer's calls into it; its instances. Implements `Requests` |
| `SchedulerProofs`, `SchedulerSafety`, `SchedulerQueue` | types; the inductive invariant of the call stack; the invariants of the queues, the refinement of `Requests` |
| `Tracking` | abstract specification: what dependency tracking promises |
| `ReactiveEffect`, `MCReactiveEffect` | effects, deps and computeds; their instances. Implements `Tracking` |
| `ReactiveEffectProofs` | types, the two directions of the dependency graph, the refinement of `Tracking`, settling |
| `AsyncComponent`, `MCAsyncComponent` | async components; their instances |
| `AsyncComponentProofs` | their safety invariants |
| `Navigation`, `MCNavigation` | vue-router's navigations over the session history; their instance |
| `NavigationProofs` | types, the positions of html5.ts, the newest navigation, the URL at rest |
| `Reconciler`, `MCReconciler` | React's update queues, lanes, renders and commits of one root; their instance |
| `ReconcilerProofs` | their safety invariants |
| `SequenceLemmas` | facts about splicing, pushing on a stack, least and greatest numbers |

### Requests and Scheduler

`queue`, `flushIndex`, `isFlushing`, `isFlushPending`, `pendingPostFlushCbs`, `activePostFlushCbs`,
`postFlushIndex` are the module variables of `scheduler.ts`; indices are the code's, counted from 0. `active` is
`job.active`. `stack` is the JavaScript call stack, one frame for each function of the scheduler or of the
user that has been entered and not left; it makes re-entrance explicit: the frame at the top takes the next step, and a
user frame may make any call of `UserCall`. `owed` is history: functions asked for and since then neither
run nor given up.

* `queueJob`, `queuePostFlushCb`, `queuePostFlushHooks` (the array case), `invalidateJob`: one action or operator each, with the `includes`
  ranges and the insertion by binary search (`InsertionIndices` states what the loop's exit condition gives;
  `SearchIsExact`, in `Scheduler`, compares it with the loop itself, `BinarySearch`, and is checked and proved).
* `updateComponent`, `unmountComponent`, `render`, `renderRoot`, `renderNothing`: the renderer's calls. Updating a child from its parent's render invalidates its job,
  runs its pre watchers and then its update; `render()` flushes pre and post callbacks. `renderNothing` is `render(null, container)`, which unmounts what the container has.
  An unmounted component gives one or two functions to `queuePostFlushCb` (`Hooks`): always a closure of its own, after its `unmounted` hooks. Inside a pending
  Suspense both go to the Suspense instead (`queueEffectWithSuspense`), and the scheduler gets nothing.
* `AllowRecurse` names the functions made with `allowRecurse`; `mayRecurse` is the flag as it is now. `toggleRecurse` takes it from a component while its
  update prepares the render, and what runs then are the watchers of its props, in the `flushPreFlushCbs` directly above it.
* `StartFlush`, `FlushJob`, `FlushQueueDone`, `FlushDone` are `flushJobs` cut where it calls user code;
  `FlushPreCb`/`FlushPreDone` and `FlushPostCb`/`FlushPostDone` the two other loops.
* `CallRender` names the functions whose code may call `render()`. `WatchersBeforeRender` needs that no watcher of a component does:
  the nested render takes jobs out of the queue before the index that the watcher's own `flushPreFlushCbs` has reached, which then passes over another watcher.
* `Return` and `Throw` end a user function; a throw leaves the loops up to the job or hook that is wrapped in
  `callWithErrorHandling`.

Seen from outside, the scheduler is `Requests`, which knows no queue, index or stack, only who waits (`owed`), whether a flush runs or will (`armed`), and the job
the flush has started. The mapping (`ServesRequests`) is `owed` = `owed`, `armed` = either flag, `job` = the job at `flushIndex` while `flushJobs` is in
one. A job that is started, or given up when its component is unmounted or its count is exceeded, must be one that no waiting job goes before in the order of `comparator`; and the flags
may fall only when nobody waits. What runs early (watchers before a render, callbacks) and what a parent settles for its child are steps of their own.

### Tracking and ReactiveEffect

`dep`, `w`, `n` describe a `Dep` per source (a key or a computed); the bit fields are sets of levels.
`deps`, `active`, `deferStop` are fields of `ReactiveEffect`, `dirty` is `_dirty`. `activeEffect`, `parent` and
`effectTrackDepth` are not variables: they are read off `stack`, whose `run` frames are the runs in progress.
`reads`, `outdated` and `threw` are history: what each effect's last run read, and whether that has changed.

* `run`/`endRun` are the two halves of `ReactiveEffect.run` around `fn()`, with both the marker-bit and
  the full-cleanup case and the `finally` block; `RunReturns` and `Unwind` are its normal and exceptional end.
* `track`, `trackEffects`, `write` (`trigger`), `mutateArray` (a write by an array method, between `pauseTracking` and `resetTracking`; a method that writes several
  elements is several of these in a row, as nothing is read between them), `TriggerEffect`
  (one turn of either loop of `triggerEffects`: computeds first), `Get` (the getter of a computed), `stop`, `callRunner`, `RunJob`.
* `Scheduled` effects have a scheduler that queues a job (watchers, renders); `Effects` have none.
* `Writers` names the functions that write or call other runners, so that an instance can have pure readers; `StopsOuter` allows stopping an
  effect from an effect nested in it (off in the passing runs, see the findings); `MayThrow` lets effect functions throw.

`ReactiveEffect` implements `Tracking` under the mapping `running` = the functions of the `run` frames,
`reads` = `reads`, `subs` = `deps` (`TracksExactly`): however runs nest, end, throw, recurse or stop, an effect that has
ended is subscribed to exactly what that run read.

### AsyncComponent

`requests` numbers the calls of the loader; `pendingRequest` and `resolvedComp` are the closure variables
of `defineAsyncComponent`, with 0 for null. `state`, `next` and `comp` describe the promise of each request (which other promise it
follows and what it delivers), so that the microtasks of nested promises are separate steps. Per wrapper:
`wait`, `set`, `told`, `loaded`, `error`, `timers`.

* `setup`, `hydrate`, `load`, `callLoader`; `LoaderResolves`, `LoaderRejects`, `userRetry`, `userFail` are the environment's answers;
* `Accept` is the `then` of `load`, with its exchange of an outdated answer for the pending request;
  `TakeOver` a promise following another; `Loaded`, `Failed` the callbacks of a wrapper;
  `TimeOut` its timer, which the event loop only reaches when no microtask is left (`Idle`).

### Navigation

`entries`, `index` are the browser's session history, `traversals` the traversals asked for and not done yet: `history.go` is asynchronous, and
what comes meanwhile overlaps it. `currentLocation`, `historyPosition` and `pauseState` are the closure variables of `useHistoryListeners` and
`useHistoryStateNavigation`. `navigations` holds those under way, by the number of their start; each knows what the code has in its closure (push
or popstate, the distance of the popstate, whether `from` was the start location, `replace`, `force`), its phase of guards and how they answered.
`pendingLocation` and `currentRoute` are named by the same numbers.

* `push`, `Install`, `Unmount`, `Go` are calls of the user and of the app; `GuardsPass` and `GuardRefuses` (false, an exception, a redirect)
  the guards' answers, one phase at a time, with the check for cancellation between phases.
* `Finalize`, `Cancel`, `Fail`, `Redirect` are the ends of a navigation, each whole: a cancelled navigation changes nothing, a refused popstate is
  reverted by `revert` (`routerHistory.go(-delta, false)`), a refused push, and any navigation that failed with an exception, calls `markAsReady` and so listens, once.
* `Deltas` has no 0: `history.go(0)` loads the page anew, and nothing of the program is left.
* `Traverse` is the browser: it moves, if there is such an entry, and calls `popStateHandler`, which ignores the popstate that leaves `pauseState`.
* `adrift` and `tangled` are history. The code undoes a refused popstate, but no popstate that was *superseded* by a navigation which then fails or is a duplicate
  (`adrift`), and it recognises the popstate of its own way back by a location only, so that a traversal of the user in between, or a newer route, leads elsewhere (`tangled`).
  The repository's texts promise nothing for these cases; the properties name them as exceptions and hold in every other.

### Reconciler

The root has class components as children. `current` and `workInProgress` are the two trees: a queue and lanes per component, `childLanes` of the root. An
update is a number, a lane (0 once it was rebased) and whether its callback is still to be called; applying it adds its number, so a state is a set of updates
and the order is the order of `baseState` and `baseUpdates`. `sharedPending` is the part of the queues that both trees share, `concurrentQueues` the
updates that are not in a queue yet. `root` has the pending, suspended and pinged lanes; `callback` is `callbackNode`/`callbackPriority`, and `scheduled` says whether the root is in
the schedule, a microtask is asked for, and sync work may be there. `work` is the render: its lanes, the next fiber, and the lanes skipped, updated and pinged meanwhile.
`log` (the updates of each component, in order) and `called` (callbacks) are history.

* `setState` and `flushSync` (`enqueueUpdate`) stage an update, mark lanes, cancel a commit that waits, interrupt a render that is suspended.
* `processRootScheduleInMicrotask`, `performConcurrentWorkOnRoot`, `performSyncWorkOnRoot`, `endFlush` schedule and start work (`renderRoot`: go on, or `prepareFreshStack`).
* `beginRoot`, `bailoutOnAlreadyFinishedWork`, `updateClassInstance` are `performUnitOfWork` for the root, a component without work, and one whose queue is processed;
  `process` is `processUpdateQueue`, without its loop. A component may throw a promise in a transition. `yield` is `shouldYield`.
* `suspendRender`, `suspendCommit`, `finishRender` are the three ends of a render; `pendingCommitReady` is the host tree, `pingSuspendedRoot` a promise.
  `commitRoot` is the commit up to its effects, which may set state, `endCommit` its end.
* `stray` is a Scheduler task the root has forgotten: `commitRootImpl` sets `callbackNode` to null without cancelling (line 2911). Such a task
  does run, and then reaches the branch of line 1090 that is "never expected to happen"; it returns there, and harms nothing that is stated here.

## 3. Runs

| Run | Checks | Result |
|---|---|---|
| `scheduler` | types, no duplicate, sorted rest, exact search, no lost job or callback, flush armed, watchers before render, refinement of `Requests` | holds |
| `scheduler_dev` | every flush ends; what is asked for is run, or given up for a reason of its own | holds |
| `scheduler_double_update` | "avoid double updating the same child" | violated, finding 1 |
| `scheduler_post_pre` | watchers before the render, in post-flush callbacks too | violated, finding 2 |
| `reactive` | types, `DepsExact`, `MarksCleared`, `Settled`, `ReadsAreFresh` | holds |
| `reactive_nesting` | refinement of `Tracking` (which implies `DepsExact`), for two effects triggering one another and throwing | holds |
| `reactive_next_change` | an effect is told of every later change | violated, finding 3 |
| `reactive_stop_outer` | a stopped effect stays stopped | violated, finding 4 |
| `async_component` | six invariants and `Decided` | holds |
| `async_late_answer` | a late answer still works | violated, finding 5 |
| `navigation` | types, `DeltaIsDistance`, `UrlShowsRoute`, `NewestWins`, `RefusalIsUndone` | holds |
| `reconciler` | types, `NothingLost`, `CallbackWhenShown`, `NothingStranded`, `NoTearing`, `Settles` | holds |

**Bounds.** The scheduler's instance has one of each kind that the code treats differently: a parent and a child
(ids 1 and 2), the child's watcher (id 2, `pre`), a watcher of no instance (no id), a ref setter (id -1) and a hook (no id).
Two calls per function and a stack of five are enough for a job to queue another and update a child, whose watcher calls again: every pair of loops
occurs inside one another, and a post-flush callback that renders, updates and queues. The queue holds up to four jobs, jobs that ran
included, so that the same job can be behind and ahead of `flushIndex`.
In `scheduler` the tasks, the child, the unbound watcher and the hook may call `render()`: code of no flush, a job with an id and one without, and a post-flush callback.
In `scheduler_dev` the child's watcher and the hook may, so that the loops are entered from inside a job and from inside a callback.
`OwedRuns` asks for a reason: a function that leaves `owed` is on the stack, or its component is unmounted, or *its own* count is over the limit in a loop that runs. A limit shared by all functions violates it.
`reactive` has one function of each kind (an effect, a computed, an effect with a queued job that may trigger itself), on a stack of four (code, the trigger of a key,
the trigger of a computed, an effect that reads it again) with marker bits for two levels of runs, and exceptions; two operations per run suffice to read and then write, read twice, or read and nest.
`reactive_nesting` has two effects and two keys, three operations per run, a stack on which one effect triggers the other from inside a trigger,
and exceptions, and marker bits for one level: the change from marks to full cleanup happens in the middle of a nest, with the same keys at both sides.
Async: three wrappers (one under Suspense, so without a timer) and three loader calls: the pending one, an outdated one and one
that is outdated by that.
Navigation: two locations (with more, nothing new can be equal or different), four navigations of which two overlap, two traversals of the user and an unmount:
a popstate is superseded by a push that fails, redirected, refused while the user goes back, and the revert itself crosses each of these.
One phase of guards instead of six: a cancellation between phases ends a navigation as one before the end does.
Reconciler: two components (one is rendered before, one after an interruption), three updates in any of three lanes: a transition can be overtaken by a default or sync
update which is rebased, and interrupted by a third. Two promises suspend a render twice or two components in it, and one commit waits for the host tree.

**Fairness.** Of the two specifications with fairness, `Scheduler!FairSpec` has `WF_vars(Proceed)`: the engine runs a scheduled microtask and functions
return; starting a task or making a call is never forced. That is what JavaScript guarantees as long as
functions end. `AsyncComponent!Spec` has weak fairness of promise callbacks and of timers, each by itself,
because the event loop serves both; nothing makes the loader or the user answer, which is why `Decided` asks for a
timeout. `Navigation!Spec` has weak fairness of the browser's traversals and of the router's own steps once the guards have
answered (`Settle`, for each navigation, as each waits in a promise of its own); guards need never answer, and users need do nothing, so `RefusalIsUndone` starts at the refusal.
`Reconciler!Spec` has weak fairness of the microtask, of the task, of what React does synchronously, of the host tree and of promises (which must settle, or a transition
need never be shown). `performUnitOfWork` has strong fairness: yields disable it again and again, and the code forbids this to go on
for ever by rendering expired lanes without yielding (`includesExpiredLane`); without it a render could yield before its first unit each time.
The reactive specifications state safety only.

**Deadlock** is checked in every run except those of async components, of navigations and of the reconciler, where the bounded number of loader calls, navigations or updates
lets the system come to rest: a page nobody uses does nothing.

**Mutants.** Each property of a passing run has a mutant in `PROJECT.json`, a change of one definition
(a dropped guard, an off-by-one in an index, one side of the cleanup forgotten) that TLC refutes it with; the mutated operators stand in
the modules just before the originals, marked "(A bug: ...)".

## 4. Findings

Each is a run that TLC ends with a counterexample; `PROJECT.json` quotes the sentence of the code that says otherwise.

1. `invalidateJob` looks at the first occurrence of the job (`scheduler.ts:127`). A child that has run in this flush and has queued itself
   again is not removed when its parent updates it, and renders twice, which `renderer.ts:1305` says it avoids.
2. `flushPreFlushCbs` starts at `flushIndex + 1` whenever `isFlushing` (`scheduler.ts:157`), to skip the current job. In post-flush
   callbacks there is none: the watcher at `queue[0]` is skipped and runs after the render. `queueJob` has the same origin in its
   search for duplicates (`scheduler.ts:107`): there, a job with `allowRecurse` can be queued twice.
3. An effect that reads a computed and then writes what it was computed from leaves the computed dirty (`effect.ts:415`, `computed.ts:45`). Later
   changes stop at the dirty computed, and the effect is not run again. With two computeds of one source the same code does more: the effect, told by the first, may run before
   `triggerEffects` marks the second, read its old value, and write the source itself. Its own write marks the second but passes over the effect, which is running, and the outer loop then
   finds the second dirty and goes on. The effect is left with a value it read before the change (`Settled` is false there, and is stated for the other cases). Both need an effect without a scheduler that changes state: without one neither happens, which is proved (section 5).
4. `stop()` defers its cleanup for the innermost effect only (`effect.ts:130`). An effect stopped by one nested in it
   subscribes again with what it reads next. Without such a call a stopped effect stays stopped, which is proved.
5. A timeout drops the pending request (`apiAsyncComponent.ts:90`, `:133`). If another wrapper then calls the loader, the late answer of the first call is
   exchanged for the second, and lost if that fails.

## 5. Proofs

TLAPS checks these theorems for all values of the constants that satisfy the named `ASSUME`s (disjoint sets of functions,
ids as `getId` gives them, natural bounds). No theorem rests on an unproved fact.

**Scheduler.** `TypeCorrect` (`SchedulerProofs`) comes first. The invariants TLC checks are not inductive: whether a
job is lost depends on where `flushIndex` stands while loops run inside one another. `Shape` (`SchedulerSafety`)
says which stacks are possible (`flushJobs` at the bottom only and, in its loop, below a job it called; every `flushPreFlushCbs` iterating beyond
`flushIndex`) and ties the flags to them. It gives `FlushArmedCorrect` at once. `QueueStep` (`SchedulerQueue`) then
reduces a step to what it does to the queue and to the index of the first job still to run: insert ahead, remove ahead, sort, start
the next, empty, or nothing; `NoDuplicateCorrect`, `NoLostJobCorrect` and `QueueSortedCorrect` are facts about sequences for each of these.
So the binary search always works on a sorted range, for any number of jobs.
`NoLostPostCbCorrect` needs `PostShape`: at most one loop of `flushPostFlushCbs` is on the stack, exactly while there is a batch, and what is
above it was called by a callback of the batch. So an error never abandons the loop (the frame above it catches), a nested call only adds behind the position
of the loop, and the callback at that position is the one that runs. `DedupedKeeps` and `SortedByIdKeeps` say that no batch loses a callback.

`SearchIsExactCorrect` says that the loop of `findInsertionIndex` ends at the one index the model lets a job be inserted at. `BinarySearch` is a recursive function over ranges, and induction is out of the prover's
reach; instead, a closed form of its outcome on a sorted range satisfies its equation (`OutcomeIsFixed`), and two functions that do cannot differ on a shortest range (`OutcomeIsUnique`).
`WatchersBeforeRenderCorrect` (production build, no watcher of a component calls `render()`) needs `WatchersAhead`: a `flushPreFlushCbs` for a component is on top of the stack or has called one of its
watchers, which calls no renderer; so its index has passed no watcher of the component, and what a watcher queues for it is queued ahead of the index.

`ServesRequestsCorrect` is the refinement of `Requests`, one lemma for each action, which maps it to one abstract step or to a stutter. Five of the invariants above carry it. That a job which is started has nobody before it is `QueueSorted` (the rest of the queue is in order,
and so the job at the index goes before the others) with `NoLostJob` (whoever waits is in that rest). That the scheduler rests only when nobody waits is `NoLostJob` for jobs and `NoLostPostCb` for callbacks, with `Shape` for what the flags and the stack say of each other.
That a second request in vain needs no new flush is `FlushArmed`. `NoLostPostCbCorrect` was proved through `PostCorrect`, which the end of a batch cites too.

**ReactiveEffect.** `MutualCorrect`: `f` is in `dep[s]` exactly when `s` is in `deps[f]`, with `TypeCorrect` in one
invariant. Every operation changes the graph through `Subscribe`, `Unsubscribe` or `cleanupEffect`, and each of them changes both
sides; the lemmas `SubscribeGraph`, `UnsubscribeGraph`, `CleanupGraph` say so, one lemma per action cites them.

`TracksExactlyCorrect`, `DepsExactCorrect` and `MarksClearedCorrect` rest on `TrackingInv`. Of a run at level *d* with marker bits it says that a source has the mark `n` of *d* exactly if the run
read it, and is a dep exactly if it has either mark of *d*; of a run without, that its deps are what it read; of an effect that does not run, that its deps are what it read last, or nothing if
it was stopped (`LevelsExact`). No two levels run the same effect, and no mark is above the level of the innermost run. What is tracked depends on `shouldTrack` too, so each value saved on the
stack must be the one that holds for the code below it (`FlagsOf`): this is what a missing `resetTracking` would break. The levels count `run` frames among all frames, so the first lemmas say what pushing
and popping a frame does to `RunningEffects` (`RunsBelowRun`, `RunsBelowOther`). The theorems assume `~StopsOuter`: without it they are false, see finding 4.

`SettledCorrect` speaks of all changes at once: whoever is outdated while no trigger is under way has been told. Its invariant is `SettlingInv`. Call *owed* an outdated function that is active, not queued and (if a computed)
not dirty; then every set of functions that has all that the loops on the stack have still to tell, and with a computed its readers, has all that are owed (`Told`). A step that tells a function keeps this, because its
readers are among its subscribers (`ReadersHear`, from `TrackingInv`) and come into a loop (`ToldKept`); a write keeps it, because what becomes outdated is the *least* set closed under reading (`AffectedFacts`).
What is left are functions passed over because they run. The assumption `NoFeedback` excludes them, in one of two ways. `QuietEffects`: only queued effects (watchers, renders) and code of no effect change state, call runners or stop effects,
as in an application without effects of its own. Such code is only called by such code, so that no loop is started inside another effect (`Calm`), and no computed that runs is dirty (`QuietOK`). Or there is one computed (`OneComputed`),
which is then told before anything runs (`OneOK`). `NoFeedback` cannot be dropped: see the second part of finding 3. Both cases cover runs nested to any depth, stopped effects, paused tracking and exceptions.

`ReadsAreFreshCorrect` follows from `SettlingInv` too: under `QuietEffects` there is no loop left to tell anybody where queued code runs, so nobody is owed; and one computed is marked by the first loop of `triggerEffects` before any effect
runs. That is what the order of the two loops is for: with a single loop TLC finds an effect that runs before the computed it reads is marked. With two computeds of one source and an effect that reads both this does happen: told by the first,
the effect runs before the second is marked, reads its old value, and is run again once it is. `ReadsAreFresh` leaves out the code of effects without a scheduler there, and nothing else.

Two theorems say when the sentences of findings 3 and 4 are true. `ToldOfNextChangeCorrect` (under `QuietEffects`): no effect depends on a computed that is dirty already. Its invariant `Heard` adds to `SettlingInv` that whoever read a dirty
computed is still on the list of a loop, or is just reading it; a computed that becomes dirty puts all its readers on one (`ReadersHear`), and an effect that is told starts its reads anew, as no such effect runs around a loop.
`StoppedStaysStoppedCorrect` (under `~StopsOuter`) follows from `DepsExact` and `Mutual`.

**AsyncComponent.** The invariant numbers the loader calls in the order they are made: the pending request is 0 or the last. A promise follows
only a later one (`FollowsNewerCorrect`), as it is outdated only by a later request. A fulfilled promise has stored its
component (`LoadedHasComponentCorrect`); a rejected one has a loader failure at its own or a later number (`FailedForAReasonCorrect`);
each call but the pending one has been given up (`SharedLoadCorrect`).
`NobodyStrandedCorrect` follows the chain of promises to its end: if no answer and no callback is due, the newest promise that is not settled would follow a newer one
(`FollowsNewer`), which is settled and would have passed its outcome on; so all are settled, and whoever waits for them has been told.

**Navigation.** `NewestIsShown` needs that navigations are numbered in the order they start and that the pending one is the newest or none; the invariant says also
which navigations may be under way. `DeltasAreDistances`: html5.ts writes its copy of the position whenever it writes an entry, and reads it whenever the browser moves, while
it listens or not; so every position is the index of its entry, minus one.
`UrlShowsRouteCorrect` follows the URL through a popstate. Its invariant `URLInv` says, unless things crossed, that one of three cases holds. A navigation started by a popstate is pending (`PopOK`): the URL is
where it goes, and its `delta` leads back to an entry with the URL of the route. It was refused and the way back is under way (`RevertOK`): it is the next traversal, alone is silent, `pauseState` is the location it leaves, and it leads to such an
entry. Or neither (`RestOK`): the URL is that of the route, and `pauseState` is empty (`PauseOK`). `DeltasAreDistances` is what makes a delta lead back to the entry the popstate left.

**Reconciler.** None of the five invariants is inductive. `NothingLost` speaks of both trees, and a commit makes one from the other: the render must therefore have left every queue it has
not come to as it is in the current tree, and given the others what both shared (`QueuesOK`). `NothingStranded` of the finished tree needs the same marks in the tree
that is rendered (`MarksOK`), that the lanes rendered are pending, and that nothing is staged while a commit waits (`WorkOK`: an update cancels it).
`CallbackWhenShown` needs that an update is in a queue's state exactly if it is in its base state or has lost its lane (`QueueOK`), that the callbacks of a queue are
what its state has more than that on the screen (`Succeeds`), and that no update is there twice, which follows from `NothingLost` and the log (`LogOK`).
`NoTearing` speaks of a render that is complete; its strengthening `RenderedOK` says what holds on the way there. A component that has been passed has nothing of the rendered lanes left, if it was processed (`process` skips exactly what is not in the lanes) or
if it was skipped by its lanes (`MarksOK`: an update that is queued is marked). One that has not been passed has its whole queue still to be processed. If the root is skipped, no component has work in the lanes. A render that goes on does so with the lanes it began with, and one that is restarted
begins with no component passed.
The layers are proved one after the other, one lemma per action and layer, from the facts about `process` (`ProcessProperties`, `ProcessContent`, `ProcessOrdered`).

**Only model-checked.** Every invariant and every action property that a passing run checks is also a theorem. `Mutual` is a theorem only: it is what the others about the dependency graph rest on. What TLC alone checks is liveness (`FlushDrains`, `OwedRuns`, `Decided`, `RefusalIsUndone`,
`Settles`), which is beyond the prover. Where a theorem has an assumption that is not an `ASSUME` of the module (`~StopsOuter`, `NoFeedback`, `QuietEffects`, `~DEV`, `QuietWatchers`), the passing runs of its property satisfy it, and the property is false without it:
`reactive_stop_outer` shows the first, the second part of finding 3 the second, `reactive_next_change` the third; a development build cuts off a watcher that queues itself for ever, and section 2 describes the last.

## 6. What is not modelled, and why

* Scheduler: in a development build an error in a job is rethrown out of the loop (`MayThrow` is for production builds, `MayThrow => ~DEV`); the development-only warnings; `nextTick`'s promise.
* Reactivity: which deps `trigger` collects for iteration, array length and collection methods, abstracted to a set of keys; effect scopes; debugging hooks; server-side computeds that are never cached; writable computeds.
  A function that throws inside a mutating array method (there is no `finally` for `resetTracking`): listed as a hazard.
* Async components: `delay`, which only chooses what is shown meanwhile; the update of a KeepAlive parent; a component that is
  `undefined` in a production build; errors rethrown by `handleError` in development.
* vue-router: redirect records (a location stands for where they lead), the hash and URLs typed by the user (entries without state), memory and hash history, `isReady` promises, scrolling,
  `afterEach` and error callbacks, options set by a guard's redirect, several apps on one router. That a popstate superseded and then given up leaves another URL than the route's (`adrift`), and the crossings
  of a revert (`tangled`), are in the model and excepted in two properties, see section 2.
* React reconciler: the lanes modelled are sync, default and one transition lane; the idle, retry, deferred, hydration and continuous-input lanes, several transition lanes and their entanglement are left out,
  as are hidden (Offscreen) trees, captured updates and errors, updates in the render phase, `use` and `SuspendedOnData`, fallbacks a non-transition shows, mounting and unmounting, several roots, legacy roots and `act`.
  Passive effects are taken as events of their own. Flags as in the repository: `enableUnifiedSyncLane` and `enableDeferRootSchedulingToMicrotask` on, `allowConcurrentByDefault` off.
  Expiration appears as a render that never yields. Several stray tasks are one flag, whose end may leave others. An updater is a function of the set of updates before it in the queue's order, and so are its results.
* Memory: Garbage collection of deps is not observable here; `targetMap` is part of the names of keys.
* The parts of the inventory without a module: see the notes in `PROJECT.json`.

## 7. Plan

Done: the scheduler, the reactivity and the async components of vue3, vue-router's navigations and React's update queues and lanes, with their theorems.

1. `WorkLoop` with `MinHeap`: the React scheduler, heap operations as functions against a sorted reference; then `Reconciler`'s tasks as its tasks.
2. `Debounce` (lodash), `AsyncMap` (async-validator), `AsyncQueue` (VueUse): small timers and counters.
3. `KeepAlive`, `Suspense`, `SettlementSignal`.
4. `Reconciler` with several transition lanes and their entanglement, and with errors.

Theorems next: `SettledCorrect` for several computeds where no unqueued effect that writes depends on two with a common source.

## 8. How to run

`tlc -config MCScheduler.cfg MCScheduler` checks a run (the module and configuration of each are in `PROJECT.json`; each takes a few minutes
at most with two workers), `tlapm SchedulerQueue.tla` the proofs of a module. `MCSchedulerDoubleUpdate`, `MCSchedulerPostPre`,
`MCReactiveNextChange`, `MCReactiveStopOuter` and `MCAsyncLateAnswer` end with a counterexample.
