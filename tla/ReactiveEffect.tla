---------------------------- MODULE ReactiveEffect ----------------------------
(* Dependency tracking of Vue 3: vue3/packages/reactivity/src/effect.ts,    *)
(* dep.ts, computed.ts and the two functions of ref.ts that call them.      *)
(*                                                                          *)
(* Effects run inside one another: writing a source runs its subscribers at *)
(* once, from inside the code that writes.  stack is the JavaScript call    *)
(* stack, top first; the frame at the top decides what runs next.           *)
(*                                                                          *)
(* A dep keeps two bit fields, w ("was tracked") and n ("newly tracked"),   *)
(* with one bit per level of nested runs.  Here each is the set of the      *)
(* levels whose bit is set.                                                 *)
EXTENDS Naturals, Sequences, FiniteSets

CONSTANTS
  Keys,           \* reactive properties, the targets they belong to included
  Computeds,      \* computed refs; each stands for its effect too
  Effects,        \* effects without a scheduler: a trigger runs them at once
  Scheduled,      \* effects whose scheduler queues a job that runs them later
  AllowRecurse,   \* effects with allowRecurse = true
  None,           \* no effect
  MaxMarkerBits,  \* maxMarkerBits: deeper runs do a full cleanup
  Writers,        \* the functions that change state (None: code of no effect)
  StopsOuter,     \* may a function stop an effect that is running around it?
  MayThrow,       \* may the function of an effect throw?
  MaxOps,         \* bound: operations in one run of user code
  MaxDepth        \* bound: height of the call stack at which user code calls

Functions == Computeds \union Effects \union Scheduled

Sources == Keys \union Computeds

ASSUME FunctionsAssumption ==
  /\ Computeds \intersect (Effects \union Scheduled) = {}
  /\ Effects \intersect Scheduled = {}
  /\ Keys \intersect Computeds = {}
  /\ None \notin Functions
  /\ AllowRecurse \subseteq Functions
  /\ Writers \subseteq Functions \union {None}

ASSUME BoundsAssumption ==
  /\ MaxMarkerBits \in Nat /\ MaxOps \in Nat /\ MaxDepth \in Nat
  /\ StopsOuter \in BOOLEAN /\ MayThrow \in BOOLEAN

VARIABLES
  dep,          \* the subscribers of each source
  w, n,         \* the levels marked on each source
  deps,         \* effect.deps: the sources each effect is subscribed to
  active,       \* effect.active
  deferStop,    \* effect.deferStop
  dirty,        \* _dirty of each computed
  shouldTrack,
  jobs,         \* the effects whose job is queued
  stack,        \* the call stack
  throwing,     \* an exception is looking for a function that catches it
  reads,        \* history: what each effect read since its last run began
  outdated,     \* history: a source it read has changed since
  threw         \* history: an exception was thrown at some time

marks == <<w, n>>
tracking == <<dep, w, n, deps, reads>>
flags == <<active, deferStop>>
control == <<throwing, threw>>
vars == <<tracking, flags, dirty, shouldTrack, jobs, stack, control, outdated>>

------------------------------------------------------------------------------
(* The call stack.  Every frame has the same fields:                        *)
(*   main     code that no effect runs                                      *)
(*   run      run() of effect fn while active, in its function              *)
(*   call     run() of a stopped effect fn: just its function               *)
(*   get      the getter of computed fn, before it looks at _dirty          *)
(*   trigger  the loops of triggerEffects; todo: those still to trigger     *)
(*   paused   a mutating array method, between pauseTracking and            *)
(*            resetTracking                                                 *)
(* ops counts the operations of user code; saved is the value of            *)
(* shouldTrack to restore (lastShouldTrack, or the top of trackStack).      *)

Code == {"main", "run", "call"}

Frame(kind, f, todo, saved) ==
  [kind |-> kind, fn |-> f, ops |-> 0, todo |-> todo, saved |-> saved]

top == Head(stack)
Running(kinds) == stack # <<>> /\ top.kind \in kinds

RunFrames == {k \in 1..Len(stack) : stack[k].kind = "run"}

effectTrackDepth == Cardinality(RunFrames)

\* The effect whose run is the innermost.
activeEffect ==
  IF RunFrames = {} THEN None
  ELSE LET k == CHOOSE k \in RunFrames : \A m \in RunFrames : k <= m IN stack[k].fn

\* The effects found by following parent from activeEffect.
Chain == {stack[k].fn : k \in RunFrames}

\* User code runs and may make one more operation.
\* (Code that no effect runs makes one, and another task the next.)
CanAct == /\ Running(Code) /\ ~throwing
          /\ top.ops < IF top.kind = "main" THEN 1 ELSE MaxOps
          /\ Len(stack) <= MaxDepth

\* User code that may change state: see Writers.
CanChange == CanAct /\ top.fn \in Writers

\* The stack once the user code has made an operation that pushed frames.
Calling(frames) == frames \o <<[top EXCEPT !.ops = @ + 1]>> \o Tail(stack)

------------------------------------------------------------------------------
(* History: what the last run of an effect read, and whether it still holds.*)

\* A mutating array method runs, and no effect inside it.
Paused == \E k \in 1..Len(stack) :
            stack[k].kind = "paused" /\ \A m \in RunFrames : k < m

\* The effects to run again when the sources ks change: those that read one,
\* or a computed among them that has not asked to be computed again already:
\* the smallest set with these.
\* (An effect does not run again for a change made inside its own run.)
Readers(ks) == {f \in Functions : active[f] /\ f \notin Chain /\ reads[f] \intersect ks # {}}

Affected(ks) ==
  LET closed(fs) == Readers(ks \union {c \in fs \intersect Computeds : ~dirty[c]}) \subseteq fs
  IN  {f \in Functions : \A fs \in SUBSET Functions : closed(fs) => f \in fs}

------------------------------------------------------------------------------
Init ==
  /\ dep = [s \in Sources |-> {}]
  /\ w = [s \in Sources |-> {}] /\ n = [s \in Sources |-> {}]
  /\ deps = [f \in Functions |-> {}]
  /\ active = [f \in Functions |-> TRUE]
  /\ deferStop = [f \in Functions |-> FALSE]
  /\ dirty = [c \in Computeds |-> TRUE]
  /\ shouldTrack = TRUE
  /\ jobs = {}
  /\ stack = <<>>
  /\ throwing = FALSE /\ threw = FALSE
  /\ reads = [f \in Functions |-> {}]
  /\ outdated = {}

\* dep.add and effect.deps.push, and the inverse for each dep of ss.
Subscribe(f, s) ==
  /\ dep' = [dep EXCEPT ![s] = @ \union {f}]
  /\ deps' = [deps EXCEPT ![f] = @ \union {s}]

Unsubscribe(f, ss) ==
  /\ dep' = [s \in Sources |-> IF s \in ss THEN dep[s] \ {f} ELSE dep[s]]
  /\ deps' = [deps EXCEPT ![f] = @ \ ss]

\* (A bug: the deps are forgotten, but the effect stays in each of them.)
cleanupOneSide(f) == dep' = dep /\ deps' = [deps EXCEPT ![f] = {}]

\* cleanupEffect
cleanupEffect(f) == Unsubscribe(f, deps[f])

\* (A bug: the mark of another level counts.)
wasTrackedAtAll(s) == w[s] # {}
newTrackedAtAll(s) == n[s] # {}

\* wasTracked and newTracked
wasTracked(s) == effectTrackDepth \in w[s]
newTracked(s) == effectTrackDepth \in n[s]

\* dep.has(activeEffect)
subscribed(s) == activeEffect \in dep[s]

\* trackEffects
trackEffects(s) ==
  IF effectTrackDepth <= MaxMarkerBits
  THEN IF newTracked(s)
       THEN UNCHANGED <<dep, deps, n>>
       ELSE /\ n' = [n EXCEPT ![s] = @ \union {effectTrackDepth}]
            /\ IF wasTracked(s) THEN UNCHANGED <<dep, deps>>
                                ELSE Subscribe(activeEffect, s)
  ELSE /\ IF subscribed(s) THEN UNCHANGED <<dep, deps>>
                          ELSE Subscribe(activeEffect, s)
       /\ UNCHANGED n

\* (A bug: code that no effect runs is tracked too.)
trackingAlways == shouldTrack

\* Is there an effect to track?
isTracking == shouldTrack /\ activeEffect # None

\* track, and trackRefValue for a computed: the user code at the top reads s.
track(s) ==
  /\ IF isTracking
     THEN trackEffects(s)
     ELSE UNCHANGED <<dep, deps, n>>
  /\ reads' = IF activeEffect # None /\ ~Paused
              THEN [reads EXCEPT ![activeEffect] = @ \union {s}] ELSE reads
  /\ UNCHANGED w

\* initDepMarkers
initDepMarkers(f, level) ==
  w' = [s \in Sources |-> IF s \in deps[f] THEN w[s] \union {level} ELSE w[s]]

\* run() of effect f, up to its function; below is the stack it returns to.
run(f, below) ==
  IF ~active[f]
  THEN /\ stack' = <<Frame("call", f, {}, TRUE)>> \o below
       /\ UNCHANGED <<tracking, shouldTrack, outdated>>
  ELSE IF f \in Chain
  THEN /\ stack' = below
       /\ UNCHANGED <<tracking, shouldTrack, outdated>>
  ELSE LET level == effectTrackDepth + 1
       IN  /\ stack' = <<Frame("run", f, {}, shouldTrack)>> \o below
           /\ shouldTrack' = TRUE
           /\ IF level <= MaxMarkerBits
              THEN initDepMarkers(f, level) /\ UNCHANGED <<dep, deps>>
              ELSE cleanupEffect(f) /\ UNCHANGED w
           /\ reads' = [reads EXCEPT ![f] = {}]
           /\ outdated' = outdated \ {f}
           /\ UNCHANGED n

------------------------------------------------------------------------------
(* What user code does.                                                     *)

\* Reading a reactive property.
readKey(k) ==
  /\ CanAct
  /\ track(k)
  /\ stack' = Calling(<<>>)
  /\ UNCHANGED <<flags, dirty, shouldTrack, jobs, control, outdated>>

\* Reading the value of a computed.
readComputed(c) ==
  /\ CanAct
  /\ track(c)
  /\ stack' = Calling(IF dirty[c] THEN <<Frame("get", c, {}, TRUE)>> ELSE <<>>)
  /\ outdated' = IF c \in outdated /\ active[c] /\ ~dirty[c] /\ top.kind = "run"
                 THEN outdated \union {activeEffect} ELSE outdated
  /\ UNCHANGED <<flags, dirty, shouldTrack, jobs, control>>

\* trigger: the properties ks change.  The subscribers are copied first.
write(ks) ==
  /\ CanChange
  /\ stack' = Calling(<<Frame("trigger", None, UNION {dep[k] : k \in ks}, TRUE)>>)
  /\ outdated' = outdated \union Affected(ks)
  /\ UNCHANGED <<tracking, flags, dirty, shouldTrack, jobs, control>>

\* A mutating method of a reactive array.  One write of the method may reach
\* several keys (an index and the length).  A method that writes more is several
\* of these in a row: nothing is tracked between them, paused or not.
mutateArray(ks) ==
  /\ CanChange
  /\ stack' = Calling(<<Frame("trigger", None, UNION {dep[k] : k \in ks}, TRUE),
                        Frame("paused", None, {}, shouldTrack)>>)
  /\ shouldTrack' = FALSE
  /\ outdated' = outdated \union Affected(ks)
  /\ UNCHANGED <<tracking, flags, dirty, jobs, control>>

\* The first run of effect f by effect(), or a later one by its runner.
callRunner(f) ==
  /\ CanChange
  /\ run(f, Calling(<<>>))
  /\ UNCHANGED <<flags, dirty, jobs, control>>

\* stop() of effect f.
stop(f) ==
  /\ CanChange
  /\ f \in Chain => f = activeEffect \/ StopsOuter
  /\ IF activeEffect = f
     THEN /\ deferStop' = [deferStop EXCEPT ![f] = TRUE]
          /\ UNCHANGED <<dep, deps, active>>
     ELSE /\ active[f]
          /\ cleanupEffect(f)
          /\ active' = [active EXCEPT ![f] = FALSE]
          /\ UNCHANGED deferStop
  /\ stack' = Calling(<<>>)
  /\ UNCHANGED <<marks, reads, dirty, shouldTrack, jobs, control, outdated>>

------------------------------------------------------------------------------
(* What the library and the engine do.                                      *)

\* (A bug: only the marks of dropped dependencies are cleared.)
UnmarkedDropped(m, ss) ==
  [s \in Sources |-> IF s \in ss /\ wasTracked(s) /\ ~newTracked(s)
                    THEN m[s] \ {effectTrackDepth} ELSE m[s]]

\* finalizeDepMarkers of the sources ss: those that this run did not read ...
Dropped(ss) == {s \in ss : wasTracked(s) /\ ~newTracked(s)}
\* ... are left, and the marks of this level are cleared.
Unmarked(m, ss) ==
  [s \in Sources |-> IF s \in ss THEN m[s] \ {effectTrackDepth} ELSE m[s]]

\* The finally block of run(), for the frame at the top; stop() if deferred.
endRun ==
  LET f == top.fn
      bits == effectTrackDepth <= MaxMarkerBits
  IN  /\ w' = IF bits THEN Unmarked(w, deps[f]) ELSE w
      /\ n' = IF bits THEN Unmarked(n, deps[f]) ELSE n
      /\ IF deferStop[f] /\ active[f]
         THEN cleanupEffect(f)
         ELSE Unsubscribe(f, IF bits THEN Dropped(deps[f]) ELSE {})
      /\ active' = [active EXCEPT ![f] = @ /\ ~deferStop[f]]
      /\ shouldTrack' = top.saved
      /\ stack' = Tail(stack)
      /\ UNCHANGED <<deferStop, reads>>

\* The function of an effect returns.
RunReturns ==
  /\ Running({"run"}) /\ ~throwing
  /\ endRun
  /\ UNCHANGED <<dirty, jobs, control, outdated>>

CallReturns ==
  /\ Running({"main", "call"}) /\ ~throwing
  /\ stack' = Tail(stack)
  /\ UNCHANGED <<tracking, flags, dirty, shouldTrack, jobs, control, outdated>>

\* The getter of a computed: computed again if it is dirty.
Get ==
  /\ Running({"get"}) /\ ~throwing
  /\ dirty' = [dirty EXCEPT ![top.fn] = FALSE]
  /\ run(top.fn, Tail(stack))
  /\ UNCHANGED <<flags, jobs, control>>

\* (A bug: one loop over all effects.)
comesInAnyOrder(f) == f \in top.todo

\* f comes next in the two loops of triggerEffects: first the computeds.
comesNext(f) ==
  /\ f \in top.todo
  /\ f \in Computeds \/ top.todo \intersect Computeds = {}

\* One turn of a loop of triggerEffects.
TriggerEffect(f) ==
  LET below == <<[top EXCEPT !.todo = @ \ {f}]>> \o Tail(stack)
      skip == /\ stack' = below
              /\ UNCHANGED <<tracking, shouldTrack, outdated>>
  IN  /\ Running({"trigger"}) /\ ~throwing
      /\ comesNext(f)
      /\ IF f = activeEffect /\ f \notin AllowRecurse
         THEN skip /\ UNCHANGED <<dirty, jobs>>
         ELSE \/ /\ f \in Computeds /\ dirty[f]
                 /\ skip /\ UNCHANGED <<dirty, jobs>>
              \/ /\ f \in Computeds /\ ~dirty[f]
                 /\ dirty' = [dirty EXCEPT ![f] = TRUE]
                 /\ stack' = <<Frame("trigger", None, dep[f], TRUE)>> \o below
                 /\ UNCHANGED <<tracking, shouldTrack, outdated, jobs>>
              \/ /\ f \in Scheduled
                 /\ jobs' = jobs \union {f}
                 /\ skip /\ UNCHANGED dirty
              \/ /\ f \in Effects
                 /\ run(f, below) /\ UNCHANGED <<dirty, jobs>>
      /\ UNCHANGED <<flags, control>>

TriggerDone ==
  /\ Running({"trigger"}) /\ ~throwing
  /\ top.todo = {}
  /\ stack' = Tail(stack)
  /\ UNCHANGED <<tracking, flags, dirty, shouldTrack, jobs, control, outdated>>

\* resetTracking at the end of the array method.
ResetTracking ==
  /\ Running({"paused"}) /\ ~throwing
  /\ shouldTrack' = top.saved
  /\ stack' = Tail(stack)
  /\ UNCHANGED <<tracking, flags, dirty, jobs, control, outdated>>

\* The queued job of an effect runs, if the effect is still active.
RunJob(f) ==
  /\ stack = <<>> /\ ~throwing
  /\ f \in jobs
  /\ jobs' = jobs \ {f}
  /\ IF active[f] THEN run(f, <<>>)
                  ELSE UNCHANGED <<tracking, stack, shouldTrack, outdated>>
  /\ UNCHANGED <<flags, dirty, control>>

\* The function of an effect throws; the finally block of run() is executed.
\* (An array method around it would not restore shouldTrack.)
Throw ==
  /\ MayThrow /\ ~throwing
  /\ Running({"run", "call"})
  /\ \A k \in 1..Len(stack) : stack[k].kind # "paused"
  /\ throwing' = TRUE /\ threw' = TRUE
  /\ UNCHANGED <<tracking, flags, dirty, shouldTrack, jobs, stack, outdated>>

\* An exception leaves a frame.
Unwind ==
  /\ throwing /\ stack # <<>>
  /\ IF top.kind = "run"
     THEN endRun
     ELSE /\ stack' = Tail(stack)
          /\ UNCHANGED <<tracking, flags, shouldTrack>>
  /\ UNCHANGED <<dirty, jobs, control, outdated>>

\* User code that called something that threw catches the exception.
Catch ==
  /\ throwing
  /\ stack = <<>> \/ (Running(Code) /\ top.ops > 0)
  /\ throwing' = FALSE
  /\ UNCHANGED <<tracking, flags, dirty, shouldTrack, jobs, stack, threw, outdated>>

StartTask ==
  /\ stack = <<>> /\ ~throwing
  /\ stack' = <<Frame("main", None, {}, TRUE)>>
  /\ UNCHANGED <<tracking, flags, dirty, shouldTrack, jobs, control, outdated>>

------------------------------------------------------------------------------
UserCode ==
  \/ \E k \in Keys : readKey(k)
  \/ \E c \in Computeds : readComputed(c)
  \/ \E ks \in SUBSET Keys \ {{}} : write(ks) \/ mutateArray(ks)
  \/ \E f \in Effects \union Scheduled : callRunner(f)
  \/ \E f \in Functions : stop(f)
  \/ Throw \/ Catch \/ StartTask

Proceed ==
  \/ RunReturns \/ CallReturns \/ Get \/ TriggerDone \/ ResetTracking \/ Unwind
  \/ \E f \in Functions : TriggerEffect(f) \/ RunJob(f)

Next == UserCode \/ Proceed

Spec == Init /\ [][Next]_vars

------------------------------------------------------------------------------
Frames(kinds, fns) ==
  [kind : kinds, fn : fns, ops : Nat, todo : SUBSET Functions, saved : BOOLEAN]

FrameSet == Frames({"main", "trigger", "paused"}, {None})
              \union Frames({"run", "call"}, Functions)
              \union Frames({"get"}, Computeds)

\* Every variable holds a value of its type.
TypeOK ==
  /\ dep \in [Sources -> SUBSET Functions]
  /\ w \in [Sources -> SUBSET Nat] /\ n \in [Sources -> SUBSET Nat]
  /\ deps \in [Functions -> SUBSET Sources]
  /\ active \in [Functions -> BOOLEAN] /\ deferStop \in [Functions -> BOOLEAN]
  /\ dirty \in [Computeds -> BOOLEAN]
  /\ shouldTrack \in BOOLEAN
  /\ jobs \subseteq Scheduled
  /\ stack \in Seq(FrameSet)
  /\ throwing \in BOOLEAN /\ threw \in BOOLEAN
  /\ reads \in [Functions -> SUBSET Sources]
  /\ outdated \subseteq Functions

\* The two directions of the dependency graph agree at every moment: an effect
\* that leaves a source is no longer triggered by it, and no other way round.
Mutual ==
  \A f \in Functions, s \in Sources : f \in dep[s] <=> s \in deps[f]

\* After its run an effect depends on exactly what that run read: no read is
\* forgotten, however the runs nest and end, and no old dependency is kept.
\* A stopped effect depends on nothing.
DepsExact ==
  \A f \in Functions :
    IF f \in Chain THEN reads[f] \subseteq deps[f]
    ELSE deps[f] = IF active[f] THEN reads[f] ELSE {}

\* No mark is left behind by a run: a level that nobody runs at is clear, so
\* that the next run at that level starts from its own dependencies.
MarksCleared ==
  \A s \in Sources : w[s] \union n[s] \subseteq 1..effectTrackDepth

\* When no trigger is under way, no effect is outdated: each one ran after the
\* last change of what it read, or its job is queued; a computed that read what
\* has changed is dirty, though code is in the midst of runs, reads and writes.
\* (An effect that threw cuts off those triggered after it.)
\* (It takes more than one computed and an effect without a scheduler that
\* writes to break it: the effect may run before the second is marked, and read
\* its old value; its own write then marks the second, and passes over the
\* effect, which is running.)
Settled ==
  (\A k \in 1..Len(stack) : stack[k].kind # "trigger") /\ ~threw =>
    \A f \in outdated : \/ ~active[f]
                        \/ f \in Computeds /\ dirty[f]
                        \/ f \in jobs

\* No read of a computed returns a value older than its sources, in triggers
\* that are under way too: where code runs that may read it, an outdated
\* computed is dirty.  (If there are several computeds, this is so for the code
\* of queued effects and of no effect; one that a trigger runs at once may run
\* after the first is marked and before the second.)
ReadsAreFresh ==
  /\ CanAct /\ ~threw
  /\ top.fn \in Scheduled \union {None} \/ \A c, d \in Computeds : c = d
  => \A c \in Computeds \intersect outdated : active[c] => dirty[c]

\* "Every time any reactive property that's accessed within it gets updated,
\* the function will run again" (effect.ts:173): no effect depends on a
\* computed that is dirty already, whose next changes it would not be told of.
ToldOfNextChange ==
  stack = <<>> /\ ~threw =>
    \A f \in Effects, c \in Computeds : active[f] /\ c \in reads[f] => ~dirty[c]

\* "Stops the effect associated with the given runner" (effect.ts:202): once a
\* stopped effect has ended, no change runs its function again, wherever it
\* was stopped from.
StoppedStaysStopped ==
  \A f \in Functions \ Chain : ~active[f] => \A s \in Sources : f \notin dep[s]

\* Dependency tracking is what Tracking promises.
RunningEffects ==
  LET level(k) == Cardinality({m \in RunFrames : m >= k})
  IN  [d \in 1..effectTrackDepth |-> stack[CHOOSE k \in RunFrames : level(k) = d].fn]

Abstract == INSTANCE Tracking WITH
  running <- RunningEffects,
  subs <- [f \in Functions |-> {s \in Sources : f \in dep[s]}]

TracksExactly == Abstract!Spec
==============================================================================
