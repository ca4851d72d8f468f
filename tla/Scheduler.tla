------------------------------ MODULE Scheduler ------------------------------
(***************************************************************************)
(* The job scheduler of Vue 3 (vue3/packages/runtime-core/src/scheduler.ts)*)
(* with the four ways the renderer re-enters it from inside a job:         *)
(* updateComponent, unmountComponent, updateComponentPreRender, render.    *)
(*                                                                         *)
(* Everything runs on one JavaScript thread, so the only interleaving is   *)
(* re-entrance: a function run by one of the scheduler's loops may call    *)
(* the scheduler again, up to another loop over the same arrays.  The      *)
(* variable stack is the JavaScript call stack (top at the head); between  *)
(* two steps the frame at the top decides what runs next.                  *)
(*                                                                         *)
(* Indices are the code's, counted from 0: queue[i] in the code is         *)
(* queue[i + 1] here.  A job without an id (job.id == null, for which      *)
(* getId returns Infinity) has IdOf = Infinity, a number above every id.   *)
(***************************************************************************)
EXTENDS Integers, Sequences, FiniteSets, SequencesExt

CONSTANTS
  Updates,         \* component render jobs (instance.update)
  PreJobs,         \* flush: 'pre' watchers (job.pre = true)
  Cbs,             \* functions given to queuePostFlushCb
  Main,            \* a task of the event loop: code not run by the scheduler
  IdOf,            \* getId of each job and callback
  Infinity,        \* the id of a function that has none
  AllowRecurse,    \* the functions that may recurse (but see mayRecurse)
  CallRender,      \* the functions whose code may call render()
  DEV,             \* __DEV__: count the runs of each function in a flush
  RecursionLimit,  \* RECURSION_LIMIT
  MayThrow,        \* may the render function of a component throw?
  MaxOps,          \* bound: calls one run of user code makes
  MaxDepth,        \* bound: height of the call stack
  MaxQueue,        \* bound: length of queue, jobs that ran in this flush included
  MaxPost          \* bound: callbacks pending and in the batch being run

Jobs == Updates \union PreJobs

Fns == Jobs \union Cbs \union {Main}

ASSUME FunctionsAssumption ==
  /\ Updates \intersect PreJobs = {}
  /\ Jobs \intersect Cbs = {}
  /\ Main \notin Jobs \union Cbs
  /\ AllowRecurse \subseteq Jobs \union Cbs
  /\ CallRender \subseteq Fns

ASSUME IdAssumption ==
  /\ Infinity \in Nat
  /\ IdOf \in [Jobs \union Cbs -> -1..Infinity]
  /\ \A u \in Updates : IdOf[u] < Infinity
  /\ \A u, v \in Updates : IdOf[u] = IdOf[v] => u = v

ASSUME BoundsAssumption ==
  /\ DEV \in BOOLEAN /\ MayThrow \in BOOLEAN
  /\ RecursionLimit \in Nat
  /\ MaxOps \in Nat /\ MaxDepth \in Nat
  /\ MaxQueue \in Nat /\ MaxPost \in Nat
  /\ MayThrow => ~DEV

VARIABLES
  queue,                \* the main queue
  flushIndex,           \* position of the job flushJobs is at; 0 outside its loop
  isFlushing,
  isFlushPending,       \* a microtask that runs flushJobs is scheduled
  pendingPostFlushCbs,
  activePostFlushCbs,   \* the array being run; <<>> stands for null (never empty)
  postFlushIndex,
  active,               \* job.active of the component updates
  stack,                \* the call stack, top first
  owed                  \* history: asked to run, neither run nor cancelled since

vars == <<queue, flushIndex, isFlushing, isFlushPending, pendingPostFlushCbs,
          activePostFlushCbs, postFlushIndex, active, stack, owed>>

postVars == <<pendingPostFlushCbs, activePostFlushCbs, postFlushIndex>>

------------------------------------------------------------------------------
(* The call stack.  Every frame has the same fields:                       *)
(*   user    body of function fn, which has made ops calls so far          *)
(*   flush   flushJobs: i = 0 in its loop, i = 1 once the callbacks ran    *)
(*   pre     flushPreFlushCbs for instance inst (Infinity: for all), at i  *)
(*   post    the loop of flushPostFlushCbs                                 *)
(*   render  render(): i = 0 before flushPreFlushCbs, i = 1 after          *)
(* seen is the CountMap of a flush, pre or post frame.                     *)

Kinds == {"user", "flush", "pre", "post", "render"}

NoneSeen == [f \in Fns |-> 0]

Frame(kind, fn, inst, seen) ==
  [kind |-> kind, fn |-> fn, inst |-> inst, i |-> 0, ops |-> 0, seen |-> seen]

UserFrame(f) == Frame("user", f, Infinity, NoneSeen)
FlushFrame(seen) == Frame("flush", Main, Infinity, seen)
\* (Two bugs: the default of the parameter i of flushPreFlushCbs, off by one.)
PreFrameTooEarly(inst) == [Frame("pre", Main, inst, NoneSeen) EXCEPT
                             !.i = IF isFlushing THEN flushIndex - 1 ELSE 0]
PreFrameTooLate(inst) == [Frame("pre", Main, inst, NoneSeen) EXCEPT
                            !.i = IF isFlushing THEN flushIndex + 2 ELSE 0]
PreFrame(inst) == [Frame("pre", Main, inst, NoneSeen) EXCEPT
                     !.i = IF isFlushing THEN flushIndex + 1 ELSE 0]
PostFrame(seen) == Frame("post", Main, Infinity, seen)
RenderFrame == Frame("render", Main, Infinity, NoneSeen)

top == Head(stack)
Running(kind) == stack # <<>> /\ top.kind = kind
OnStack(f) == \E k \in 1..Len(stack) : stack[k].kind = "user" /\ stack[k].fn = f

\* flushJobs is in its loop over the main queue, perhaps deep inside a job.
InJobLoop ==
  stack # <<>> /\ stack[Len(stack)].kind = "flush" /\ stack[Len(stack)].i = 0

\* The job at flushIndex has been started.
JobStarted == InJobLoop /\ Len(stack) > 1

\* The index of the first job of the queue that has not been started.
Ahead == IF JobStarted THEN flushIndex + 1 ELSE flushIndex

\* The code that is running may make one more call that needs n frames.
CanCall(n) == Running("user") /\ top.ops < MaxOps /\ Len(stack) + n <= MaxDepth

\* The stack once the top frame, now frame, has made a call that pushed frames.
Push(frames, frame) == (frames \o <<frame>>) \o Tail(stack)

\* The stack once the running user code has made such a call.
Calling(frames) == Push(frames, [top EXCEPT !.ops = @ + 1])

------------------------------------------------------------------------------
(* Helpers over the arrays.                                                *)

\* Array.prototype.includes(x, from)
Includes(s, x, from) == \E k \in (from + 1)..Len(s) : s[k] = x

\* (Two bugs: any function over the limit counts; the count is not written back.)
OverLimitOfAny(seen, f) == DEV /\ \E g \in Fns : seen[g] > RecursionLimit
CountForgotten(seen, f) == seen

\* checkRecursiveUpdates: true when the run must be skipped ...
OverLimit(seen, f) == DEV /\ seen[f] > RecursionLimit
\* ... and the count it leaves behind when it is not.
Counted(seen, f) == IF DEV THEN [seen EXCEPT ![f] = @ + 1] ELSE seen

\* comparator(a, b) < 0.  Two missing ids give NaN, which sorts as equal.
Precedes(a, b) ==
  \/ IdOf[a] < IdOf[b]
  \/ IdOf[a] = IdOf[b] /\ IdOf[a] # Infinity /\ a \in PreJobs /\ b \notin PreJobs

\* getId(a) - getId(b) < 0, the order of the post-flush callbacks.
IdPrecedes(a, b) == IdOf[a] < IdOf[b]

\* The orders a stable Array.prototype.sort by Less may return for s.
StableSorts(s, Less(_, _)) ==
  {[k \in DOMAIN s |-> s[p[k]]] : p \in
     {p \in Bijection(DOMAIN s, DOMAIN s) : \A j, k \in DOMAIN s :
        j < k => \/ Less(s[p[j]], s[p[k]])
                 \/ ~Less(s[p[k]], s[p[j]]) /\ p[j] < p[k]}}

\* [...new Set(s)]: each value once, in the order of first occurrence.  The set
\* has one element, for the one increasing enumeration of those positions.
Deduped(s) ==
  LET firsts == {k \in DOMAIN s : \A m \in 1..(k - 1) : s[m] # s[k]}
  IN  {[n \in DOMAIN p |-> s[p[n]]] : p \in
         {p \in [1..Cardinality(firsts) -> firsts] : \A m, n \in DOMAIN p :
            m < n => p[m] < p[n]}}

\* The binary search of findInsertionIndex goes right of a job when this holds.
GoesRight(job, id) ==
  IdOf[job] < id \/ (IdOf[job] = id /\ job \in PreJobs)

\* (Two bugs: the job is always pushed; the search includes the current job.)
InsertionAtEnd(id) == {Len(queue)}
InsertionFromCurrent(id) ==
  {k \in flushIndex..Len(queue) :
     /\ k > flushIndex => GoesRight(queue[k], id)
     /\ k < Len(queue) => ~GoesRight(queue[k + 1], id)}

\* The indices at which the loop of findInsertionIndex can end, clamped to the
\* array as splice does: everything it went right of is on the left of the
\* index, the rest on the right.  Whatever the order of the array, the job
\* just before the index (if the search moved its start) sends the search right
\* and the one at the index (if it moved its end) does not.
InsertionIndices(id) ==
  LET start == IF flushIndex + 1 < Len(queue) THEN flushIndex + 1 ELSE Len(queue)
  IN  {k \in start..Len(queue) :
         /\ k > start => GoesRight(queue[k], id)
         /\ k < Len(queue) => ~GoesRight(queue[k + 1], id)}

\* That loop, from the range start..end, and the clamping.
BinarySearch(id) ==
  LET loop[range \in ((flushIndex + 1)..(Len(queue) + 1)) \X (0..Len(queue))] ==
        LET start == range[1]
            end == range[2]
            middle == (start + end) \div 2
        IN  IF start >= end THEN start
            ELSE IF GoesRight(queue[middle + 1], id) THEN loop[<<middle + 1, end>>]
            ELSE loop[<<start, middle>>]
      found == loop[<<flushIndex + 1, Len(queue)>>]
  IN  IF found > Len(queue) THEN Len(queue) ELSE found

------------------------------------------------------------------------------
Init ==
  /\ queue = <<>> /\ flushIndex = 0
  /\ isFlushing = FALSE /\ isFlushPending = FALSE
  /\ pendingPostFlushCbs = <<>> /\ activePostFlushCbs = <<>> /\ postFlushIndex = 0
  /\ active = [u \in Updates |-> TRUE]
  /\ stack = <<>>
  /\ owed = {}

(* What user code, watchers and component renders call.                    *)

\* (A bug: isFlushing is not looked at.)
queueFlushAlways == isFlushPending' = TRUE

\* queueFlush: schedule flushJobs unless it is running or scheduled already.
queueFlush == isFlushPending' = (isFlushPending \/ ~isFlushing)

\* (Two bugs: allowRecurse is not looked at; the jobs that ran are looked at.)
DedupeFromNext(j) == IF isFlushing THEN flushIndex + 1 ELSE flushIndex
DedupeFromStart(j) == 0

\* job.allowRecurse: toggleRecurse takes it from a component while its update
\* prepares the render.  (What a component does itself before it renders is no
\* call here: without allowRecurse its own job is deduplicated.)
mayRecurse(j) ==
  /\ j \in AllowRecurse
  /\ \A k \in 2..Len(stack) :
       stack[k].kind = "user" /\ stack[k].fn = j => stack[k - 1].kind # "pre"

\* Where queueJob starts looking for a job that is in the queue already.
DedupeFrom(j) ==
  IF isFlushing /\ mayRecurse(j) THEN flushIndex + 1 ELSE flushIndex

\* By design a running job that may not recurse is not queued by itself.
SelfTrigger(j) == JobStarted /\ queue[flushIndex + 1] = j /\ ~mayRecurse(j)

IsActive(j) == j \in Updates => active[j]

queueJob(j) ==
  /\ CanCall(0) /\ Len(queue) < MaxQueue
  /\ IF Includes(queue, j, DedupeFrom(j))
     THEN UNCHANGED <<queue, isFlushPending>>
     ELSE /\ IF IdOf[j] = Infinity
             THEN queue' = Append(queue, j)
             ELSE \E k \in InsertionIndices(IdOf[j]) : queue' = InsertAt(queue, k + 1, j)
          /\ queueFlush
  /\ stack' = Calling(<<>>)
  /\ owed' = IF IsActive(j) /\ ~SelfTrigger(j) THEN owed \union {j} ELSE owed
  /\ UNCHANGED <<flushIndex, isFlushing, postVars, active>>

\* (A bug: the callbacks that ran are looked at.)
PostDedupeFromStart(cb) == 0

\* Where queuePostFlushCb starts looking in the batch that is being run.
PostDedupeFrom(cb) ==
  IF cb \in AllowRecurse THEN postFlushIndex + 1 ELSE postFlushIndex

\* queuePostFlushCb of one function: skipped when the batch being run has it.
queuePostFlushCb(cb) ==
  LET listed == Includes(activePostFlushCbs, cb, PostDedupeFrom(cb))
      running == activePostFlushCbs # <<>> /\ activePostFlushCbs[postFlushIndex + 1] = cb
  IN  /\ CanCall(0)
      /\ Len(pendingPostFlushCbs) + Len(activePostFlushCbs) < MaxPost
      /\ pendingPostFlushCbs' =
           IF listed THEN pendingPostFlushCbs ELSE Append(pendingPostFlushCbs, cb)
      /\ queueFlush
      /\ stack' = Calling(<<>>)
      /\ owed' = IF listed /\ running THEN owed ELSE owed \union {cb}
      /\ UNCHANGED <<queue, flushIndex, isFlushing, activePostFlushCbs,
                     postFlushIndex, active>>

\* queuePostFlushCb of an array of lifecycle hooks: pushed without a check.
queuePostFlushHooks(cb) ==
  /\ CanCall(0)
  /\ Len(pendingPostFlushCbs) + Len(activePostFlushCbs) < MaxPost
  /\ pendingPostFlushCbs' = Append(pendingPostFlushCbs, cb)
  /\ queueFlush
  /\ stack' = Calling(<<>>)
  /\ owed' = owed \union {cb}
  /\ UNCHANGED <<queue, flushIndex, isFlushing, activePostFlushCbs,
                 postFlushIndex, active>>

\* invalidateJob: drop the job if its first occurrence is after flushIndex.
invalidateJob(j) ==
  \/ \E k \in 1..Len(queue) :
       /\ queue[k] = j /\ ~Includes(SubSeq(queue, 1, k - 1), j, 0)
       /\ queue' = IF k - 1 > flushIndex THEN RemoveAt(queue, k) ELSE queue
  \/ ~Includes(queue, j, 0) /\ UNCHANGED queue

\* updateComponent when shouldUpdateComponent: the update of c runs at once,
\* and updateComponentPreRender first flushes the pre watchers of c.  (The
\* watchers the new props trigger are queueJob calls of the patching code.)
Patch(c, below) ==
  /\ active[c] /\ ~OnStack(c)
  /\ invalidateJob(c)
  /\ stack' = Calling(<<PreFrame(IdOf[c]), UserFrame(c)>> \o below)
  /\ owed' = owed \ {c}
  /\ UNCHANGED <<flushIndex, isFlushing, isFlushPending, postVars, active>>

\* A component render patches a child: children are created after parents.
IsParentOf(c) == top.fn \in Updates /\ IdOf[top.fn] < IdOf[c]

updateComponent(c) ==
  /\ CanCall(2) /\ IsParentOf(c)
  /\ Patch(c, <<>>)

\* What an unmounted component gives to queuePostFlushCb: a closure of its own,
\* after its array of unmounted hooks if it has one; but nothing if it is in a
\* Suspense that is pending, which takes them.
Hooks == {<<>>} \union {<<cb>> : cb \in Cbs} \union {<<um, cb>> : um \in Cbs, cb \in Cbs}

\* The scheduler will no longer run the updates of the components cs.
Unmount(cs, hooks, frames) ==
  /\ Len(pendingPostFlushCbs) + Len(activePostFlushCbs) + Len(hooks) <= MaxPost
  /\ \A c \in cs : active[c]
  /\ active' = [c \in Updates |-> active[c] /\ c \notin cs]
  /\ pendingPostFlushCbs' = pendingPostFlushCbs \o hooks
  /\ IF hooks = <<>> THEN UNCHANGED isFlushPending ELSE queueFlush
  /\ stack' = Calling(frames)
  /\ owed' = (owed \ cs) \union ToSet(hooks)
  /\ UNCHANGED <<queue, flushIndex, isFlushing, activePostFlushCbs, postFlushIndex>>

\* A render unmounts a child.  (The components of its subtree are unmounted
\* next, by further calls.)
unmountComponent(c, hooks) ==
  /\ CanCall(0) /\ IsParentOf(c)
  /\ Unmount({c}, hooks, <<>>)

\* render(vnode, container) called by user code; with a patch of the root
\* component c of the container, or of nothing the scheduler knows.
render ==
  /\ CanCall(1) /\ top.fn \in CallRender
  /\ stack' = Calling(<<RenderFrame>>)
  /\ UNCHANGED <<queue, flushIndex, isFlushing, isFlushPending, postVars, active, owed>>

renderRoot(c) ==
  /\ CanCall(3) /\ top.fn \in CallRender
  /\ Patch(c, <<RenderFrame>>)

\* render(null, container), where the container has the components cs.
renderNothing(cs, hooks) ==
  /\ CanCall(1) /\ top.fn \in CallRender
  /\ Unmount(cs, hooks, <<RenderFrame>>)

------------------------------------------------------------------------------
(* The loops.                                                              *)

\* The frames under frame k after the function of frame k has ended, normally
\* or not: the loop that called it, if one did, moves to its next position.
EndFunction(k) ==
  LET below == SubSeq(stack, k + 1, Len(stack))
  IN  /\ stack' = below
      /\ flushIndex' = IF InJobLoop /\ Len(below) = 1 THEN flushIndex + 1 ELSE flushIndex
      /\ postFlushIndex' = IF below # <<>> /\ Head(below).kind = "post"
                           THEN postFlushIndex + 1 ELSE postFlushIndex
      /\ UNCHANGED <<queue, isFlushing, isFlushPending, pendingPostFlushCbs,
                     activePostFlushCbs, active, owed>>

Return ==
  /\ Running("user")
  /\ EndFunction(1)

\* A component update throws.  callWithErrorHandling catches the error around
\* a job of flushJobs and around the user's function of a watcher or a hook;
\* in production it is only logged.  Loops in between are abandoned.
Throw ==
  /\ MayThrow
  /\ Running("user") /\ top.fn \in Updates
  /\ \E k \in 1..Len(stack) :
       LET Catches(n) == \/ stack[n].kind = "user" /\ stack[n].fn \notin Updates
                         \/ n < Len(stack) /\ stack[n + 1].kind = "flush"
       IN  /\ Catches(k) /\ \A n \in 1..(k - 1) : ~Catches(n)
           /\ EndFunction(k)

\* A task starts: the microtask queue is empty, so no flush is scheduled.
StartTask ==
  /\ stack = <<>> /\ ~isFlushPending
  /\ stack' = <<UserFrame(Main)>>
  /\ UNCHANGED <<queue, flushIndex, isFlushing, isFlushPending, postVars, active, owed>>

\* The head of flushJobs, up to its loop.
BeginFlush(seen) ==
  /\ isFlushPending' = FALSE
  /\ isFlushing' = TRUE
  /\ queue' \in StableSorts(queue, Precedes)
  /\ stack' = <<FlushFrame(seen)>>

StartFlush ==
  /\ stack = <<>> /\ isFlushPending
  /\ BeginFlush(NoneSeen)
  /\ UNCHANGED <<flushIndex, postVars, active, owed>>

\* One turn of the loop of flushJobs.
FlushJob ==
  /\ Running("flush") /\ top.i = 0
  /\ flushIndex < Len(queue)
  /\ LET job == queue[flushIndex + 1]
         run == IsActive(job) /\ ~OverLimit(top.seen, job)
     IN  /\ flushIndex' = IF run THEN flushIndex ELSE flushIndex + 1
         /\ stack' = IF run
                     THEN Push(<<UserFrame(job)>>, [top EXCEPT !.seen = Counted(@, job)])
                     ELSE stack
         /\ owed' = owed \ {job}
  /\ UNCHANGED <<queue, isFlushing, isFlushPending, postVars, active>>

\* flushPostFlushCbs up to its loop; under is the stack it returns to.
flushPostFlushCbs(under, seen) ==
  IF pendingPostFlushCbs = <<>>
  THEN stack' = under /\ UNCHANGED postVars
  ELSE /\ pendingPostFlushCbs' = <<>>
       /\ \E deduped \in Deduped(pendingPostFlushCbs) :
            IF activePostFlushCbs # <<>>
            THEN /\ activePostFlushCbs' = activePostFlushCbs \o deduped
                 /\ stack' = under
                 /\ UNCHANGED postFlushIndex
            ELSE /\ activePostFlushCbs' \in StableSorts(deduped, IdPrecedes)
                 /\ stack' = <<PostFrame(seen)>> \o under
                 /\ postFlushIndex' = 0

\* The finally block of flushJobs, up to and into flushPostFlushCbs.
FlushQueueDone ==
  /\ Running("flush") /\ top.i = 0
  /\ flushIndex >= Len(queue)
  /\ flushIndex' = 0
  /\ queue' = <<>>
  /\ flushPostFlushCbs(Push(<<>>, [top EXCEPT !.i = 1]), top.seen)
  /\ UNCHANGED <<isFlushing, isFlushPending, active, owed>>

\* The rest of the finally block: keep flushing until it drains.
FlushDone ==
  /\ Running("flush") /\ top.i = 1
  /\ IF queue # <<>> \/ pendingPostFlushCbs # <<>>
     THEN BeginFlush(top.seen)
     ELSE /\ isFlushing' = FALSE
          /\ stack' = <<>>
          /\ UNCHANGED <<queue, isFlushPending>>
  /\ UNCHANGED <<flushIndex, postVars, active, owed>>

\* One turn of the loop of flushPreFlushCbs, and its end.
FlushPreCb ==
  /\ Running("pre")
  /\ top.i < Len(queue)
  /\ LET cb == queue[top.i + 1]
         run == /\ cb \in PreJobs /\ (top.inst # Infinity => IdOf[cb] = top.inst)
                /\ ~OverLimit(top.seen, cb)
     IN  IF run
         THEN /\ queue' = RemoveAt(queue, top.i + 1)
              /\ stack' = Push(<<UserFrame(cb)>>, [top EXCEPT !.seen = Counted(@, cb)])
              /\ owed' = owed \ {cb}
         ELSE /\ stack' = Push(<<>>, [top EXCEPT !.i = @ + 1])
              /\ UNCHANGED <<queue, owed>>
  /\ UNCHANGED <<flushIndex, isFlushing, isFlushPending, postVars, active>>

FlushPreDone ==
  /\ Running("pre") /\ top.i >= Len(queue)
  /\ stack' = Tail(stack)
  /\ UNCHANGED <<queue, flushIndex, isFlushing, isFlushPending, postVars, active, owed>>

\* One turn of the loop of flushPostFlushCbs, and its end.  The CountMap of the
\* callbacks of a flush is the one of its jobs; render() has one of its own.
FlushPostCb ==
  /\ Running("post")
  /\ postFlushIndex < Len(activePostFlushCbs)
  /\ LET cb == activePostFlushCbs[postFlushIndex + 1]
         run == ~OverLimit(top.seen, cb)
     IN  /\ postFlushIndex' = IF run THEN postFlushIndex ELSE postFlushIndex + 1
         /\ stack' = IF run
                     THEN Push(<<UserFrame(cb)>>, [top EXCEPT !.seen = Counted(@, cb)])
                     ELSE stack
         /\ owed' = owed \ {cb}
  /\ UNCHANGED <<queue, flushIndex, isFlushing, isFlushPending,
                 pendingPostFlushCbs, activePostFlushCbs, active>>

FlushPostDone ==
  /\ Running("post") /\ postFlushIndex >= Len(activePostFlushCbs)
  /\ activePostFlushCbs' = <<>> /\ postFlushIndex' = 0
  /\ stack' = [k \in 1..(Len(stack) - 1) |->
                  IF k = 1 /\ stack[2].kind = "flush"
                  THEN [stack[2] EXCEPT !.seen = top.seen] ELSE stack[k + 1]]
  /\ UNCHANGED <<queue, flushIndex, isFlushing, isFlushPending,
                 pendingPostFlushCbs, active, owed>>

\* render() after the patch: flushPreFlushCbs(), then flushPostFlushCbs().
RenderFlushPre ==
  /\ Running("render") /\ top.i = 0
  /\ stack' = Push(<<PreFrame(Infinity)>>, [top EXCEPT !.i = 1])
  /\ UNCHANGED <<queue, flushIndex, isFlushing, isFlushPending, postVars, active, owed>>

RenderFlushPost ==
  /\ Running("render") /\ top.i = 1
  /\ flushPostFlushCbs(Tail(stack), NoneSeen)
  /\ UNCHANGED <<queue, flushIndex, isFlushing, isFlushPending, active, owed>>

------------------------------------------------------------------------------
UserCall ==
  \/ \E j \in Jobs : queueJob(j)
  \/ \E cb \in Cbs : queuePostFlushCb(cb) \/ queuePostFlushHooks(cb)
  \/ \E c \in Updates : updateComponent(c) \/ renderRoot(c)
  \/ \E c \in Updates, hooks \in Hooks : unmountComponent(c, hooks)
  \/ \E cs \in SUBSET Updates \ {{}}, hooks \in Hooks : renderNothing(cs, hooks)
  \/ render
  \/ Throw

\* What the engine and the scheduler do by themselves once called.
Proceed ==
  \/ StartFlush \/ FlushJob \/ FlushQueueDone \/ FlushDone
  \/ FlushPreCb \/ FlushPreDone
  \/ FlushPostCb \/ FlushPostDone
  \/ RenderFlushPre \/ RenderFlushPost
  \/ Return

Next == UserCall \/ Proceed \/ StartTask

Spec == Init /\ [][Next]_vars

\* A microtask that is scheduled is run, and code that runs gets to its end;
\* nothing makes a task start or user code call the scheduler.
FairSpec == Spec /\ WF_vars(Proceed)

------------------------------------------------------------------------------
(* Type invariant.                                                         *)

FrameSet == [kind : Kinds, fn : Fns, inst : -1..Infinity, i : Nat,
             ops : Nat, seen : [Fns -> Nat]]

\* Every variable holds a value of its type.
TypeOK ==
  /\ queue \in Seq(Jobs)
  /\ flushIndex \in Nat
  /\ isFlushing \in BOOLEAN
  /\ isFlushPending \in BOOLEAN
  /\ pendingPostFlushCbs \in Seq(Cbs)
  /\ activePostFlushCbs \in Seq(Cbs)
  /\ postFlushIndex \in Nat
  /\ active \in [Updates -> BOOLEAN]
  /\ stack \in Seq(FrameSet)
  /\ owed \subseteq Jobs \union Cbs

(* Safety.                                                                 *)

\* A job that may not recurse is at most once in the part of the queue that
\* queueJob looks at, so no flush runs it twice for one trigger.
NoDuplicateJob ==
  \A m, n \in (flushIndex + 1)..Len(queue) :
    queue[m] = queue[n] /\ queue[m] \notin AllowRecurse => m = n

\* In the loop of flushJobs the jobs still to run are sorted by the comparator
\* (parents before children, pre watchers before the update of their own
\* component), whatever the running jobs queue, invalidate or splice out.
QueueSorted ==
  InJobLoop => \A m, n \in (Ahead + 1)..Len(queue) :
                 m < n => ~Precedes(queue[n], queue[m])

\* The part of the queue findInsertionIndex searches is always sorted, so that
\* its search has one possible outcome: the index that keeps it sorted.
SearchIsExact ==
  \A j \in Jobs : IdOf[j] # Infinity /\ flushIndex <= Len(queue) =>
    InsertionIndices(IdOf[j]) = {BinarySearch(IdOf[j])}

\* A trigger is never lost: a job asked for, and neither run, unmounted nor
\* updated directly since, is still ahead in the queue.  The deduplication
\* never takes a job that already ran in this flush for one still to run.
NoLostJob ==
  \A j \in owed \intersect Jobs :
    Includes(queue, j, Ahead)

\* Nor is a post-flush callback: it is pending, or ahead in the running batch.
NoLostPostCb ==
  \A cb \in owed \intersect Cbs :
    \/ Includes(pendingPostFlushCbs, cb, 0)
    \/ Includes(activePostFlushCbs, cb,
                IF \E k \in 2..Len(stack) : stack[k].kind = "post"
                THEN postFlushIndex + 1 ELSE postFlushIndex)

\* The scheduler is never stuck: when no code runs and something is queued, a
\* flush is scheduled; a flush is marked as running exactly while flushJobs is
\* on the call stack, and never while another one is scheduled.
FlushArmed ==
  /\ stack = <<>> /\ (queue # <<>> \/ pendingPostFlushCbs # <<>>) => isFlushPending
  /\ isFlushing <=> stack # <<>> /\ stack[Len(stack)].kind = "flush"
  /\ ~(isFlushing /\ isFlushPending)

\* When a parent has updated the props of c inside a flush, the pre watchers of
\* c have all run before c renders, those they queued themselves included.
WatchersFlushed ==
  Running("pre") /\ top.i >= Len(queue) /\ top.inst # Infinity =>
    \A k \in (Ahead + 1)..Len(queue) :
      queue[k] \in PreJobs => IdOf[queue[k]] # top.inst

\* (If a watcher of c calls render(), the nested renders take jobs out of the
\* queue before the index its flushPreFlushCbs has reached, which then passes
\* over a watcher; and a development build cuts off one that recurs.)
WatchersBeforeRender == InJobLoop => WatchersFlushed

\* The scheduler serves what it is asked for as Requests promises: whatever the
\* jobs do to the queue while it flushes, it starts a job only when none that the
\* comparator puts before it is waiting, and it stops flushing only when nothing
\* asked for is left.
Service == INSTANCE Requests WITH
  armed <- isFlushing \/ isFlushPending,
  job <- IF JobStarted THEN queue[flushIndex + 1] ELSE Main,
  Before <- {pair \in Jobs \X Jobs : Precedes(pair[1], pair[2])},
  None <- Main

ServesRequests == Service!Spec

(* What comments of the code say and the code does not do.                 *)

\* "remove it to avoid double updating the same child component in the same
\* flush" (renderer.ts:1305): once a job of the flush has updated a child
\* directly, the child is not ahead in the queue any more.
UpdatedOnce ==
  [][JobStarted => \A c \in Updates :
       updateComponent(c) => ~Includes(queue', c, flushIndex + 1)]_vars

(* Liveness, in a development build.                                       *)

\* Functions that trigger one another for ever are cut off by the recursion
\* limit, so that every flush ends.
FlushDrains == isFlushing ~> ~isFlushing

\* A job or callback asked for is run, or given up for a reason of its own: its
\* component is unmounted, or it has run too often itself.  The limit on one
\* function cuts off no other.
OwedRuns ==
  \A f \in Jobs \union Cbs :
    f \in owed ~> /\ f \notin owed
                  /\ \/ OnStack(f)
                     \/ f \in Updates /\ ~active[f]
                     \/ \E k \in 1..Len(stack) : stack[k].seen[f] > RecursionLimit
==============================================================================
