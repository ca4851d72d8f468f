------------------------------ MODULE Reconciler ------------------------------
(* Update queues, lanes and the scheduling of one root in React:             *)
(* react/packages/react-reconciler/src/, ReactFiberClassUpdateQueue.js,      *)
(* ReactFiberConcurrentUpdates.js, ReactFiberLane.js, ReactFiberWorkLoop.js  *)
(* and ReactFiberRootScheduler.js.                                           *)
(*                                                                           *)
(* The root has class components as its children.  An update appends its     *)
(* number to a component's state, as in the example of the update queue's    *)
(* header; what is rendered is given by the set of the updates it contains,  *)
(* which are applied in the order of the queue.                              *)
EXTENDS Integers, Sequences, FiniteSets, Functions

CONSTANTS
  FiberCount,  \* how many components there are
  MaxUpdates,  \* bound: updates
  MaxRequests, \* bound: promises thrown by components
  MaxWaits     \* bound: commits that wait for the host tree

ASSUME BoundsAssumption ==
  FiberCount \in Nat /\ MaxUpdates \in Nat /\ MaxRequests \in Nat /\ MaxWaits \in Nat

VARIABLES
  current,            \* the tree on the screen
  workInProgress,     \* the tree that is rendered
  sharedPending,      \* shared.pending of the two queues of a component
  concurrentQueues,   \* the updates of each that are not in its queue yet
  root,               \* the lanes of the root
  callback,           \* the Scheduler task of the root
  stray,              \* is there a task the root has forgotten?
  scheduled,          \* the flags of the root scheduler
  work,               \* how far the render is
  executing,          \* what React is doing, or "nothing"
  inTask,             \* the task on the stack: "none", "root" or "stray"
  awaited,            \* the components that wait for a promise
  updates, requests, waits, \* the counters the bounds are for
  log,                \* history: the updates of each component, in order
  called              \* history: how often each update's callback was called

trees == <<current, workInProgress>>
queues == <<sharedPending, concurrentQueues>>
scheduling == <<callback, stray, scheduled>>
control == <<work, executing, inTask>>
environment == <<awaited, updates, requests, waits>>
history == <<log, called>>
vars == <<trees, queues, root, scheduling, control, environment, history>>

Fibers == 1..FiberCount
Ids == 1..MaxUpdates

NoLane == 0
SyncLane == 1
DefaultLane == 2
TransitionLane == 3
Lanes == {SyncLane, DefaultLane, TransitionLane}
SyncUpdateLanes == {SyncLane, DefaultLane}

Update == [id: Ids, lane: Lanes \cup {NoLane}, callback: BOOLEAN]

(* state is memoizedState; callbacks are to be called when it is committed.  *)
UpdateQueue ==
  [baseState: Seq(Ids), baseUpdates: Seq(Update),
   state: SUBSET Ids, callbacks: SUBSET Ids]

Tree ==
  [queue: [Fibers -> UpdateQueue], lanes: [Fibers -> SUBSET Lanes],
   childLanes: SUBSET Lanes]

(* "none", "rendering", or "waiting": for the host tree, to be committed.    *)
(* next is the fiber to begin, 0 the root; delayed is RootSuspendedWithDelay.*)
Work ==
  [phase: {"none", "rendering", "waiting"}, lanes: SUBSET Lanes,
   next: 0..(FiberCount + 1), delayed: BOOLEAN,
   skipped: SUBSET Lanes, interleaved: SUBSET Lanes, pinged: SUBSET Lanes]

newWork(phase, lanes) ==
  [phase |-> phase, lanes |-> lanes, next |-> 0, delayed |-> FALSE,
   skipped |-> {}, interleaved |-> {}, pinged |-> {}]

NoTask == [priority |-> NoLane, live |-> FALSE]

Init ==
  /\ current =
       [queue |-> [f \in Fibers |-> [baseState |-> <<>>, baseUpdates |-> <<>>,
                                     state |-> {}, callbacks |-> {}]],
        lanes |-> [f \in Fibers |-> {}], childLanes |-> {}]
  /\ workInProgress = current
  /\ sharedPending = [f \in Fibers |-> <<>>]
  /\ concurrentQueues = [f \in Fibers |-> <<>>]
  /\ root = [pending |-> {}, suspended |-> {}, pinged |-> {}]
  /\ callback = NoTask /\ stray = FALSE
  /\ scheduled = [root |-> FALSE, microtask |-> FALSE, sync |-> FALSE]
  /\ work = newWork("none", {})
  /\ executing = "nothing" /\ inTask = "none"
  /\ awaited = {} /\ updates = 0 /\ requests = 0 /\ waits = 0
  /\ log = [f \in Fibers |-> <<>>]
  /\ called = [i \in Ids |-> 0]
------------------------------------------------------------------------------
(* Lanes                                                                     *)

getHighestPriorityLane(lanes) ==
  CHOOSE l \in lanes : \A k \in lanes : l <= k

getHighestPriorityLanes(lanes) ==
  IF lanes \cap SyncUpdateLanes # {} THEN lanes \cap SyncUpdateLanes ELSE lanes

(* The lanes an unfinished render is kept for, wipLanes, or others.          *)
getNextLanes(r, wipLanes) ==
  LET unblocked == r.pending \ r.suspended
      nextLanes == getHighestPriorityLanes(
                     IF unblocked # {} THEN unblocked ELSE r.pending \cap r.pinged)
      nextLane == getHighestPriorityLane(nextLanes)
      wipLane == getHighestPriorityLane(wipLanes)
      keepsWorking ==
        /\ wipLanes # {} /\ wipLanes \cap r.suspended = {}
        /\ nextLane >= wipLane \/ (nextLane = DefaultLane /\ wipLane = TransitionLane)
  IN IF nextLanes = {} THEN {}
     ELSE IF keepsWorking THEN wipLanes ELSE nextLanes

markRootUpdated(r, lane) ==
  [pending |-> r.pending \cup {lane}, suspended |-> {}, pinged |-> {}]

(* (A bug: those that were updated while they were rendered are suspended.)  *)
markAllSuspended(r, lanes, w) ==
  LET suspended == lanes \ w.pinged
  IN [r EXCEPT !.suspended = @ \cup suspended, !.pinged = @ \ suspended]

(* Lanes that were updated or pinged while they were rendered are excluded.  *)
markRootSuspended(r, lanes, w) ==
  LET suspended == lanes \ (w.pinged \cup w.interleaved)
  IN [r EXCEPT !.suspended = @ \cup suspended, !.pinged = @ \ suspended]

(* (A bug: lanes that are not suspended are pinged.)                         *)
markPinged(r, lanes) == [r EXCEPT !.pinged = @ \cup lanes]

markRootPinged(r, lanes) == [r EXCEPT !.pinged = @ \cup (r.suspended \cap lanes)]

markRootFinished(lanes) ==
  [pending |-> lanes, suspended |-> {}, pinged |-> {}]

wipLanesOf(w) == IF w.phase = "rendering" THEN w.lanes ELSE {}
nextLanesNow == getNextLanes(root, wipLanesOf(work))
------------------------------------------------------------------------------
(* The root scheduler                                                        *)

ensured == [root |-> TRUE, microtask |-> TRUE, sync |-> TRUE]

(* scheduleTaskForRootDuringMicrotask, given its root and its render.        *)
taskFor(r, w) ==
  LET nextLanes == getNextLanes(r, wipLanesOf(w))
      priority == getHighestPriorityLane(nextLanes)
  IN IF nextLanes = {} \/ w.phase = "waiting" THEN NoTask
     ELSE IF priority = SyncLane THEN [priority |-> SyncLane, live |-> FALSE]
     ELSE IF priority = callback.priority THEN callback
     ELSE [priority |-> priority, live |-> TRUE]

(* The end of performConcurrentWorkOnRoot: it goes on later, as the same     *)
(* task if the root still has it, or as another.  Of the tasks the root has  *)
(* forgotten, this one may go on, and others may be left.                    *)
endTask(r, w) ==
  /\ scheduled' = ensured
  /\ callback' = taskFor(r, w)
  /\ stray' \in IF inTask = "stray" THEN BOOLEAN ELSE {stray}
  /\ executing' = "nothing" /\ inTask' = "none"

processRootScheduleInMicrotask ==
  /\ executing = "nothing" /\ scheduled.microtask
  /\ callback' = IF scheduled.root THEN taskFor(root, work) ELSE callback
  /\ scheduled' = [root |-> scheduled.root /\ callback' # NoTask,
                   microtask |-> FALSE,
                   sync |-> scheduled.root /\ callback'.priority = SyncLane]
  /\ executing' = IF scheduled'.sync THEN "flushing" ELSE "nothing"
  /\ UNCHANGED <<trees, queues, root, stray, work, inTask, environment, history>>
------------------------------------------------------------------------------
(* Update queues                                                             *)

ids(s) == [i \in DOMAIN s |-> s[i].id]

(* (A bug: of the lanes that are rendered together only one is looked at.)   *)
skipsOthers(renderLanes, update) ==
  update.lane \notin {getHighestPriorityLane(renderLanes), NoLane}

skips(renderLanes, update) == update.lane \notin renderLanes \cup {NoLane}

(* (A bug: a callback is called again with the update that was rebased.)     *)
rebasedWithCallback(renderLanes, update) ==
  IF skips(renderLanes, update) THEN update ELSE [update EXCEPT !.lane = NoLane]

(* What stays in the queue behind an update that is skipped.                 *)
rebased(renderLanes, update) ==
  IF skips(renderLanes, update) THEN update
  ELSE [update EXCEPT !.lane = NoLane, !.callback = FALSE]

(* How many updates come before the first that is skipped.                   *)
baseLength(renderLanes, list) ==
  CHOOSE n \in 0..Len(list) :
    /\ \A i \in 1..n : ~skips(renderLanes, list[i])
    /\ n < Len(list) => skips(renderLanes, list[n + 1])

(* processUpdateQueue, for the updates of the queue and the pending ones.    *)
process(queue, pending, renderLanes) ==
  LET list == queue.baseUpdates \o pending
      base == baseLength(renderLanes, list)
      applied == {i \in DOMAIN list : ~skips(renderLanes, list[i])}
  IN [baseState |-> queue.baseState \o ids(SubSeq(list, 1, base)),
      baseUpdates |-> [i \in 1..(Len(list) - base) |-> rebased(renderLanes, list[base + i])],
      state |-> Range(queue.baseState) \cup {list[i].id : i \in applied},
      callbacks |-> {list[i].id : i \in {j \in applied : list[j].callback}}]

(* (A bug: the other queue only gets them if it is empty.)                   *)
transferredToEmpty(tree, f) ==
  [tree EXCEPT !.queue[f].baseUpdates = IF @ = <<>> THEN sharedPending[f] ELSE @]

(* The queue of the other tree gets the pending updates, too.                *)
transferred(tree, f) == [tree EXCEPT !.queue[f].baseUpdates = @ \o sharedPending[f]]

lanesOf(list) == {list[i].lane : i \in DOMAIN list} \ {NoLane}

markLanes(tree, lanes) ==
  [tree EXCEPT !.lanes = [f \in Fibers |-> @[f] \cup lanes[f]]]

(* markUpdateLaneFromFiberToRoot, for each of the queued updates.            *)
markLanesToRoot(tree, staged) ==
  [markLanes(tree, [f \in Fibers |-> lanesOf(staged[f])])
     EXCEPT !.childLanes = @ \cup UNION {lanesOf(staged[f]) : f \in Fibers}]

(* For the updates staged, and the trees as they are then.                   *)
finishQueueingConcurrentUpdates(staged, tree, wip) ==
  /\ concurrentQueues' = [f \in Fibers |-> <<>>]
  /\ sharedPending' = [f \in Fibers |-> sharedPending[f] \o staged[f]]
  /\ current' = markLanesToRoot(tree, staged)
  /\ workInProgress' = markLanesToRoot(wip, staged)

(* It makes the work in progress from the current tree, unfinished work is   *)
(* lost and a commit that was waiting is cancelled.  (The children are       *)
(* cloned when the root has begun; until then they change like the current.) *)
prepareFreshStack(staged, tree, lanes) ==
  /\ work' = newWork("rendering", lanes)
  /\ finishQueueingConcurrentUpdates(staged, tree, tree)
------------------------------------------------------------------------------
(* Updates                                                                   *)

(* enqueueConcurrentClassUpdate and scheduleUpdateOnFiber.  (A commit that is *)
(* waiting is given up; the lane that is then noted as interleaved is        *)
(* forgotten when the next render starts.)                                   *)
enqueueUpdate(f, lane) ==
  LET update == [id |-> updates + 1, lane |-> lane, callback |-> TRUE]
      staged == [concurrentQueues EXCEPT ![f] = Append(@, update)]
      marked(tree) == [tree EXCEPT !.lanes[f] = @ \cup {lane}]
      interrupted == [work EXCEPT !.interleaved = @ \cup {lane}]
      updated == markRootUpdated(root, lane)
  IN /\ updates < MaxUpdates
     /\ updates' = updates + 1
     /\ log' = [log EXCEPT ![f] = Append(@, updates + 1)]
     /\ IF work.phase = "waiting"
          THEN /\ prepareFreshStack(staged, marked(current), {})
               /\ root' = updated
          ELSE /\ concurrentQueues' = staged
               /\ current' = marked(current)
               /\ workInProgress' = marked(workInProgress)
               /\ work' = IF work.phase = "rendering" THEN interrupted ELSE work
               /\ root' = IF work.phase = "rendering" /\ work.delayed
                            THEN markRootSuspended(updated, work.lanes, interrupted)
                            ELSE updated
               /\ UNCHANGED sharedPending
     /\ scheduled' = ensured
     /\ UNCHANGED <<callback, stray, inTask, awaited, requests, waits, called>>

(* setState, in an event or in an effect of the commit.                      *)
setState(f, lane) ==
  /\ executing \in {"nothing", "committed"}
  /\ enqueueUpdate(f, lane)
  /\ UNCHANGED executing

(* setState within flushSync, in an event.                                   *)
flushSync(f) ==
  /\ executing = "nothing"
  /\ enqueueUpdate(f, SyncLane)
  /\ executing' = "flushing"
------------------------------------------------------------------------------
(* Performing work                                                           *)

(* Renders lanes from where the render of the same lanes stopped, or anew.   *)
renderRoot(lanes) ==
  IF work.phase = "rendering" /\ work.lanes = lanes
    THEN UNCHANGED <<trees, queues, work>>
    ELSE prepareFreshStack(concurrentQueues, current, lanes)

(* One turn of the loop of flushSyncWorkOnAllRoots.                          *)
performSyncWorkOnRoot ==
  /\ executing = "flushing" /\ scheduled.root /\ SyncLane \in nextLanesNow
  /\ renderRoot(nextLanesNow)
  /\ executing' = "renderRootSync"
  /\ UNCHANGED <<root, scheduling, inTask, environment, history>>

(* It ends, as does the task whose commit called it.                         *)
endFlush ==
  /\ executing = "flushing" /\ ~(scheduled.root /\ SyncLane \in nextLanesNow)
  /\ IF inTask # "none" THEN endTask(root, work)
     ELSE executing' = "nothing" /\ UNCHANGED <<scheduling, inTask>>
  /\ UNCHANGED <<trees, queues, root, work, environment, history>>

(* The Scheduler runs the task of the root, or a stray one.  (Lanes that     *)
(* expired are rendered without yielding: that is a render that never        *)
(* yields.)                                                                  *)
performConcurrentWorkOnRoot ==
  /\ executing = "nothing"
  /\ \E task \in {"root", "stray"} :
       /\ IF task = "root" THEN callback.live ELSE stray
       /\ IF nextLanesNow = {}
            THEN /\ callback' = [callback EXCEPT !.live = @ /\ task # "root"]
                 /\ stray' = (stray /\ task # "stray")
                 /\ UNCHANGED <<trees, queues, work, executing, inTask>>
            ELSE /\ renderRoot(nextLanesNow)
                 /\ executing' = IF DefaultLane \in nextLanesNow
                                   THEN "renderRootSync" ELSE "renderRootConcurrent"
                 /\ inTask' = task
                 /\ UNCHANGED <<callback, stray>>
  /\ UNCHANGED <<root, scheduled, environment, history>>

rendering == executing \in {"renderRootSync", "renderRootConcurrent"}

(* The root itself has no updates.                                           *)
beginRoot ==
  /\ rendering /\ work.next = 0
  /\ work' = [work EXCEPT !.next =
                IF workInProgress.childLanes \cap work.lanes = {} THEN FiberCount + 1 ELSE 1]
  /\ UNCHANGED <<trees, queues, root, scheduling, executing, inTask, environment, history>>

bailoutOnAlreadyFinishedWork(f) ==
  /\ rendering /\ work.next = f
  /\ current.lanes[f] \cap work.lanes = {}
  /\ work' = [work EXCEPT !.next = @ + 1, !.skipped = @ \cup workInProgress.lanes[f]]
  /\ UNCHANGED <<trees, queues, root, scheduling, executing, inTask, environment, history>>

(* The pending updates go to both queues, and the work in progress's is      *)
(* processed.  A component may throw a promise in a transition: the          *)
(* boundary around it then shows its fallback, and the render goes on.       *)
updateClassInstance(f) ==
  /\ rendering /\ work.next = f
  /\ current.lanes[f] \cap work.lanes # {}
  /\ LET queue == process(workInProgress.queue[f], sharedPending[f], work.lanes)
         skipped == work.skipped \cup lanesOf(queue.baseUpdates)
     IN /\ workInProgress' = [workInProgress EXCEPT
             !.queue[f] = queue, !.lanes[f] = lanesOf(queue.baseUpdates)]
        /\ current' = transferred(current, f)
        /\ sharedPending' = [sharedPending EXCEPT ![f] = <<>>]
        /\ \/ /\ work.lanes = {TransitionLane} => f \notin awaited
              /\ work' = [work EXCEPT !.next = @ + 1, !.skipped = skipped]
              /\ UNCHANGED <<root, awaited, requests>>
           \/ /\ work.lanes = {TransitionLane}
              /\ f \notin awaited => requests < MaxRequests
              /\ requests' = IF f \in awaited THEN requests ELSE requests + 1
              /\ awaited' = awaited \cup {f}
              /\ work' = [work EXCEPT !.next = @ + 1, !.skipped = skipped, !.delayed = TRUE]
              /\ root' = IF skipped \cup work.interleaved # {}
                           THEN markRootSuspended(root, work.lanes, work) ELSE root
  /\ UNCHANGED <<concurrentQueues, scheduling, executing, inTask, updates, waits, history>>

(* The Scheduler asks for the thread.                                        *)
yield ==
  /\ executing = "renderRootConcurrent" /\ work.next <= FiberCount
  /\ endTask(root, work)
  /\ UNCHANGED <<trees, queues, root, work, environment, history>>
------------------------------------------------------------------------------
(* Committing                                                                *)

remainingLanes(finishedWork, staged) ==
  finishedWork.childLanes \cup UNION {lanesOf(staged[f]) : f \in Fibers}

(* commitRootImpl for a finished tree, up to its effects; staged are the     *)
(* updates that came since the render.  Those of the queues that were        *)
(* processed have callbacks, which are called once.  The root forgets its    *)
(* task, which is not cancelled.                                             *)
commitRoot(finishedWork, staged) ==
  LET committed == [finishedWork EXCEPT
                      !.queue = [f \in Fibers |-> [@[f] EXCEPT !.callbacks = {}]]]
  IN /\ root' = markRootFinished(remainingLanes(finishedWork, staged))
     /\ current' = committed /\ workInProgress' = committed
     /\ called' = [i \in Ids |->
          IF \E f \in Fibers : i \in finishedWork.queue[f].callbacks
            THEN called[i] + 1 ELSE called[i]]
     /\ callback' = NoTask
     /\ stray' = (stray \/ (callback.live /\ inTask # "root"))
     /\ work' = newWork("none", {})
     /\ executing' = "committed"

(* bubbleProperties of the root.                                             *)
completed(tree) ==
  [tree EXCEPT !.childLanes = UNION {tree.lanes[f] : f \in Fibers}]

renderDone ==
  /\ rendering /\ work.next = FiberCount + 1
  /\ concurrentQueues' = [f \in Fibers |-> <<>>]
  /\ sharedPending' = [f \in Fibers |-> sharedPending[f] \o concurrentQueues[f]]

(* (A bug: the lanes of the updates that came meanwhile are not marked.)     *)
completedTree == completed(workInProgress)

finishedTree == markLanesToRoot(completed(workInProgress), concurrentQueues)

(* A transition that suspended is not committed.                             *)
suspendRender ==
  /\ renderDone /\ work.delayed
  /\ current' = markLanesToRoot(current, concurrentQueues)
  /\ workInProgress' = current'
  /\ root' = markRootSuspended(root, work.lanes, work)
  /\ work' = newWork("none", {})
  /\ endTask(root', work')
  /\ UNCHANGED <<environment, history>>

(* commitRootWhenReady: the host tree is not ready for a transition.         *)
suspendCommit ==
  /\ renderDone /\ ~work.delayed
  /\ work.lanes = {TransitionLane} /\ waits < MaxWaits
  /\ waits' = waits + 1
  /\ current' = markLanesToRoot(current, concurrentQueues)
  /\ workInProgress' = finishedTree
  /\ root' = markRootSuspended(root, work.lanes, work)
  /\ work' = newWork("waiting", {})
  /\ endTask(root', work')
  /\ UNCHANGED <<awaited, updates, requests, history>>

finishRender ==
  /\ renderDone /\ ~work.delayed
  /\ commitRoot(finishedTree, [f \in Fibers |-> <<>>])
  /\ UNCHANGED <<scheduled, inTask, environment, log>>

(* The host tree is ready for the commit that waited for it.                 *)
pendingCommitReady ==
  /\ executing = "nothing" /\ work.phase = "waiting"
  /\ commitRoot(workInProgress, concurrentQueues)
  /\ UNCHANGED <<queues, scheduled, inTask, environment, log>>

(* The end of commitRootImpl, after the effects.                             *)
endCommit ==
  /\ executing = "committed"
  /\ scheduled' = ensured
  /\ executing' = "flushing"
  /\ UNCHANGED <<trees, queues, root, callback, stray, work, inTask, environment, history>>

(* A promise is settled: the render of its lanes restarts if it suspended.   *)
pingSuspendedRoot(f) ==
  /\ executing = "nothing" /\ f \in awaited
  /\ awaited' = awaited \ {f}
  /\ root' = markRootPinged(root, {TransitionLane})
  /\ IF work.phase = "rendering" /\ TransitionLane \in work.lanes
       THEN IF work.delayed
              THEN prepareFreshStack(concurrentQueues, current, {})
              ELSE /\ work' = [work EXCEPT !.pinged = @ \cup {TransitionLane}]
                   /\ UNCHANGED <<trees, queues>>
       ELSE UNCHANGED <<trees, queues, work>>
  /\ scheduled' = ensured
  /\ UNCHANGED <<callback, stray, executing, inTask, updates, requests, waits, history>>
------------------------------------------------------------------------------
performUnitOfWork ==
  beginRoot \/ \E f \in Fibers : bailoutOnAlreadyFinishedWork(f) \/ updateClassInstance(f)

completeRender == suspendRender \/ suspendCommit \/ finishRender

Next ==
  \/ \E f \in Fibers, lane \in Lanes : setState(f, lane)
  \/ \E f \in Fibers : flushSync(f) \/ pingSuspendedRoot(f)
  \/ processRootScheduleInMicrotask \/ performConcurrentWorkOnRoot \/ yield
  \/ performSyncWorkOnRoot \/ endFlush
  \/ performUnitOfWork \/ completeRender
  \/ pendingCommitReady \/ endCommit

(* What React has begun goes on; microtasks, tasks, promises and the host    *)
(* tree come in time.  A render that yields again and again expires, and is  *)
(* then rendered to its end: hence the strong fairness.                      *)
Fairness ==
  /\ WF_vars(processRootScheduleInMicrotask)
  /\ WF_vars(performConcurrentWorkOnRoot)
  /\ SF_vars(performUnitOfWork)
  /\ WF_vars(performSyncWorkOnRoot \/ endFlush \/ completeRender \/ endCommit)
  /\ WF_vars(pendingCommitReady)
  /\ WF_vars(\E f \in Fibers : pingSuspendedRoot(f))

Spec == Init /\ [][Next]_vars /\ Fairness
------------------------------------------------------------------------------
(* Properties                                                                *)

TypeOK ==
  /\ current \in Tree /\ workInProgress \in Tree
  /\ sharedPending \in [Fibers -> Seq(Update)]
  /\ concurrentQueues \in [Fibers -> Seq(Update)]
  /\ root \in [pending: SUBSET Lanes, suspended: SUBSET Lanes, pinged: SUBSET Lanes]
  /\ root.pinged \subseteq root.suspended /\ root.suspended \subseteq root.pending
  /\ callback \in [priority: Lanes \cup {NoLane}, live: BOOLEAN] /\ stray \in BOOLEAN
  /\ scheduled \in [root: BOOLEAN, microtask: BOOLEAN, sync: BOOLEAN]
  /\ work \in Work
  /\ executing \in {"nothing", "flushing", "renderRootSync",
                    "renderRootConcurrent", "committed"}
  /\ rendering => work.phase = "rendering" /\ work.lanes # {}
  /\ inTask \in {"none", "root", "stray"}
  /\ awaited \subseteq Fibers
  /\ updates \in 0..MaxUpdates /\ requests \in 0..MaxRequests /\ waits \in 0..MaxWaits
  /\ log \in [Fibers -> Seq(Ids)]
  /\ called \in [Ids -> Nat]

(* No update is dropped, applied twice or moved before another, whatever     *)
(* renders start, are given up, or skip it: the base state, the queue and    *)
(* what is not in it yet are always the updates in the order they were made, *)
(* in the tree on the screen and in the one that is rendered.                *)
content(tree, f) ==
  tree.queue[f].baseState \o ids(tree.queue[f].baseUpdates)
    \o ids(sharedPending[f]) \o ids(concurrentQueues[f])
NothingLost ==
  \A f \in Fibers : content(current, f) = log[f] /\ content(workInProgress, f) = log[f]

(* The callback of an update is called when the update comes to the screen,  *)
(* and once; so what has come to the screen never disappears from it again,  *)
(* although an update that overtook others is processed with them again.     *)
CallbackWhenShown ==
  \A i \in Ids :
    called[i] = IF \E f \in Fibers : i \in current.queue[f].state THEN 1 ELSE 0

(* What leads to an update that is still to be rendered is there: its lane   *)
(* is pending on the root and, once it is in the queue, marked on the path   *)
(* to its component.  Renders and commits clear these lanes while updates    *)
(* come in.                                                                  *)
NothingStranded ==
  \A f \in Fibers :
    LET queued == lanesOf(current.queue[f].baseUpdates) \cup lanesOf(sharedPending[f])
    IN /\ queued \subseteq current.lanes[f] \cap current.childLanes \cap root.pending
       /\ lanesOf(concurrentQueues[f]) \subseteq current.lanes[f] \cap root.pending

(* A commit shows all its updates at once: a render that is complete has     *)
(* processed every update of its lanes that was queued before it began, in   *)
(* every component, though it skips components and whole subtrees by their   *)
(* lanes, yields to others and goes on; and so has one that waits for the    *)
(* host tree.                                                                *)
NoTearing ==
  \A f \in Fibers :
    LET left == lanesOf(workInProgress.queue[f].baseUpdates)
    IN /\ work.phase = "rendering" /\ work.next = FiberCount + 1 =>
            (left \cup lanesOf(sharedPending[f])) \cap work.lanes = {}
       /\ work.phase = "waiting" => TransitionLane \notin left

(* Every update comes to the screen, if the promises thrown are settled.     *)
Settles ==
  \A i \in Ids : i <= updates ~> \E f \in Fibers : i \in current.queue[f].state
==============================================================================
