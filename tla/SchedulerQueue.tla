---------------------------- MODULE SchedulerQueue ----------------------------
(* The invariants of the queues, for every set of jobs, every ids and every *)
(* bound: no job is lost, no job is duplicated, the main queue is sorted,   *)
(* the binary search in it is exact, no post-flush callback is lost, and no *)
(* component renders before its watchers have run.                          *)
(* QueueStep sums up what a step may do to the queue and to the place of    *)
(* flushJobs in it; each invariant is then a fact about inserting into,     *)
(* removing from and sorting a sequence.                                    *)
EXTENDS SchedulerSafety

\* flushJobs stays, or its loop goes on: the jobs ahead are the same.
StillAhead ==
  /\ UNCHANGED queue /\ Asked' = Asked
  /\ Ahead' = Ahead /\ flushIndex' >= flushIndex
  /\ InJobLoop' <=> InJobLoop

Sorting ==
  /\ queue' \in StableSorts(queue, Precedes) /\ Asked' = Asked
  /\ flushIndex = 0 /\ flushIndex' = 0 /\ Ahead = 0 /\ Ahead' = 0

Starting ==
  /\ UNCHANGED queue /\ InJobLoop /\ Ahead = flushIndex
  /\ flushIndex' >= flushIndex /\ Ahead' = flushIndex + 1
  /\ Asked' = Asked \ {queue[flushIndex + 1]}

Emptying ==
  /\ queue' = <<>> /\ Asked' = Asked
  /\ Ahead >= Len(queue)

LEMMA SameAhead ==
  ASSUME SamePlace
  PROVE  Ahead' = Ahead
BY DEF SamePlace, Ahead

LEMMA EndAhead ==
  ASSUME TypeOK, Shape, NEW k \in 1..Len(stack), EndFunction(k),
         k = Len(stack) => ~Flushes(stack)
  PROVE  StillAhead
<1>1. SamePlace \/ NextPlace
  BY EndPlace
<1>2. UNCHANGED <<queue, owed>> /\ flushIndex \in Nat
  BY DEF EndFunction, TypeOK
<1>3. CASE SamePlace
  BY <1>2, <1>3, SameAhead DEF SamePlace, StillAhead, Asked
<1>4. CASE NextPlace
  BY <1>2, <1>4 DEF NextPlace, StillAhead, Asked, Ahead
<1> QED
  BY <1>1, <1>3, <1>4

LEMMA BeginFlushSorts ==
  ASSUME TypeOK, Shape, NEW seen \in [Fns -> Nat], BeginFlush(seen), ~InJobLoop,
         UNCHANGED <<flushIndex, owed>>
  PROVE  Sorting
<1>1. flushIndex = 0 /\ Ahead = 0
  BY AheadRange
<1>2. FlushFrame(seen) \in FrameSet
  BY FrameTypes
<1>3. Len(stack') = 1
  BY <1>2, OneFrame DEF BeginFlush
<1>4. Ahead' = 0
  BY <1>1, <1>3 DEF Ahead, JobStarted
<1> QED
  BY <1>1, <1>4 DEF Sorting, BeginFlush, Asked

\* The turn of the loop of flushJobs that calls a job.
LEMMA FlushJobCalls ==
  ASSUME TypeOK, Shape, FlushJob, flushIndex' = flushIndex
  PROVE  JobStarted'
<1> DEFINE job == queue[flushIndex + 1]
           frame == [top EXCEPT !.seen = Counted(@, job)]
           called == <<UserFrame(job)>>
<1>0. Len(queue) \in Nat /\ flushIndex \in Nat
  BY LenProperties DEF TypeOK
<1>1. /\ Running("flush") /\ top.i = 0 /\ flushIndex < Len(queue)
      /\ stack' = Push(called, frame)
  BY <1>0 DEF FlushJob
<1>2. /\ top \in FrameSet /\ stack \in Seq(FrameSet) /\ stack # <<>> /\ top.kind = "flush"
      /\ Len(stack) = 1
  BY <1>1, FlushOnTop DEF Running
<1>3. job \in Fns
  <2>1. flushIndex + 1 \in 1..Len(queue)
    BY <1>0, <1>1
  <2> QED
    BY <2>1, ElementOfSeq DEF TypeOK, Fns
<1>4. frame \in FrameSet /\ frame.kind = "flush" /\ frame.i = 0
  BY <1>1, <1>2, <1>3, FrameTypes DEF FrameSet
<1>5. called \in Seq(FrameSet) /\ Len(called) = 1
  BY <1>3, FrameTypes, OneFrame
<1> HIDE DEF job, frame, called
<1>6. /\ Push(called, frame) \in Seq(FrameSet)
      /\ Len(Push(called, frame)) = Len(called) + Len(stack)
      /\ \A n \in 1..(Len(called) + Len(stack)) : Push(called, frame)[n] =
           IF n <= Len(called) THEN called[n]
           ELSE IF n = Len(called) + 1 THEN frame ELSE stack[n - Len(called)]
  BY <1>2, <1>4, <1>5, PushProperties
<1>7. Len(stack') = 2 /\ stack'[2] = frame
  BY <1>1, <1>2, <1>5, <1>6
<1>8. stack' # <<>>
  BY <1>7, EmptySeq
<1> QED
  BY <1>4, <1>7, <1>8 DEF JobStarted, InJobLoop

LEMMA QueueStep ==
  ASSUME TypeOK, TypeOK', Shape, Shape', Next
  PROVE  (SamePlace /\ QueueEffect) \/ StillAhead \/ Sorting \/ Starting \/ Emptying
<1>0. /\ Len(stack) \in Nat /\ (stack # <<>> => Len(stack) > 0)
      /\ Len(queue) \in Nat /\ flushIndex \in Nat
  BY LenProperties, EmptySeq DEF TypeOK
<1>1. CASE Steady
  BY <1>1, SteadyPlace, SteadyEffect
<1>2. CASE Return
  <2>1. 1 \in 1..Len(stack) /\ EndFunction(1) /\ top = stack[1] /\ top.kind = "user"
    BY <1>0, <1>2, TopProperties DEF Return, Running, TypeOK
  <2>2. 1 = Len(stack) => ~Flushes(stack)
    BY <2>1 DEF Flushes
  <2> QED
    BY <2>1, <2>2, EndAhead
<1>3. CASE Throw
  <2>1. PICK k \in 1..Len(stack) :
          /\ EndFunction(k)
          /\ stack[k].kind = "user" \/ k < Len(stack)
    BY <1>3 DEF Throw
  <2>2. k = Len(stack) => ~Flushes(stack)
    BY <1>0, <2>1 DEF Flushes
  <2> QED
    BY <2>1, <2>2, EndAhead
<1>4. CASE StartTask
  <2>1. UserFrame(Main) \in FrameSet /\ UserFrame(Main).kind = "user"
    BY FrameTypes, FrameKinds DEF Fns
  <2>2. stack = <<>> /\ stack' = <<UserFrame(Main)>> /\ UNCHANGED <<queue, flushIndex, owed>>
    BY <1>4 DEF StartTask
  <2>3. Len(stack') = 1 /\ stack'[1].kind = "user"
    BY <2>1, <2>2, OneFrame
  <2>4. ~InJobLoop /\ ~JobStarted /\ ~InJobLoop' /\ ~JobStarted'
    BY <2>2, <2>3 DEF InJobLoop, JobStarted
  <2> QED
    BY <1>0, <2>2, <2>4 DEF StillAhead, Ahead, Asked
<1>5. CASE StartFlush
  <2>1. ~InJobLoop /\ NoneSeen \in [Fns -> Nat]
    BY <1>5, FrameTypes DEF StartFlush, InJobLoop
  <2> QED
    BY <1>5, <2>1, BeginFlushSorts DEF StartFlush
<1>6. CASE FlushJob
  <2>1. /\ Running("flush") /\ top.i = 0 /\ flushIndex < Len(queue) /\ UNCHANGED queue
        /\ owed' = owed \ {queue[flushIndex + 1]}
        /\ flushIndex' \in {flushIndex, flushIndex + 1}
        /\ flushIndex' = flushIndex + 1 => stack' = stack
        /\ flushIndex' = flushIndex =>
             stack' = Push(<<UserFrame(queue[flushIndex + 1])>>,
                           [top EXCEPT !.seen = Counted(@, queue[flushIndex + 1])])
    BY <1>0, <1>6 DEF FlushJob
  <2>2. Len(stack) = 1 /\ InJobLoop /\ ~JobStarted
    <3>1. Len(stack) = 1 /\ InJobLoop
      BY <2>1, FlushOnTop
    <3>2. ~JobStarted
      BY <3>1 DEF JobStarted
    <3> QED
      BY <3>1, <3>2
  <2>3. Ahead' = flushIndex + 1
    <3>1. CASE flushIndex' = flushIndex + 1
      <4>1. ~JobStarted'
        BY <2>1, <2>2, <3>1 DEF JobStarted
      <4> QED
        BY <3>1, <4>1 DEF Ahead
    <3>2. CASE flushIndex' = flushIndex
      BY <1>6, <3>2, FlushJobCalls DEF Ahead
    <3> QED
      BY <2>1, <3>1, <3>2
  <2> QED
    BY <1>0, <2>1, <2>2, <2>3 DEF Starting, Ahead, Asked
<1>7. CASE FlushQueueDone
  <2>1. /\ Running("flush") /\ top.i = 0 /\ flushIndex >= Len(queue)
        /\ queue' = <<>> /\ UNCHANGED owed
    BY <1>7 DEF FlushQueueDone
  <2>2. Ahead >= Len(queue)
    BY <1>0, <2>1, AheadRange
  <2> QED
    BY <2>1, <2>2 DEF Emptying, Asked
<1>8. CASE FlushDone
  <2>1. /\ Running("flush") /\ top.i = 1 /\ UNCHANGED <<flushIndex, owed>>
        /\ \/ BeginFlush(top.seen)
           \/ stack' = <<>> /\ UNCHANGED queue
    BY <1>8 DEF FlushDone
  <2>2. ~InJobLoop /\ top.seen \in [Fns -> Nat]
    BY <2>1, FlushOnTop DEF FrameSet
  <2>3. CASE BeginFlush(top.seen)
    BY <2>1, <2>2, <2>3, BeginFlushSorts
  <2>4. CASE stack' = <<>> /\ UNCHANGED queue
    <3>1. ~InJobLoop' /\ ~JobStarted' /\ ~JobStarted
      BY <2>2, <2>4 DEF InJobLoop, JobStarted
    <3> QED
      BY <1>0, <2>1, <2>2, <2>4, <3>1 DEF StillAhead, Ahead, Asked
  <2> QED
    BY <2>1, <2>3, <2>4
<1> QED
  BY <1>1, <1>2, <1>3, <1>4, <1>5, <1>6, <1>7, <1>8 DEF Next, UserCall, Proceed, Steady

------------------------------------------------------------------------------
(* Inserting, removing and sorting, position by position.                   *)

\* Where the new queue gets each of its elements from.
LEMMA InsertedElements ==
  ASSUME TypeOK, NEW j \in Jobs, NEW k \in 1..(Len(queue) + 1), Insertion(j, k)
  PROVE  /\ Len(queue') = Len(queue) + 1 /\ Len(queue) \in Nat
         /\ \A n \in 1..Len(queue') : queue'[n] =
              IF n < k THEN queue[n] ELSE IF n = k THEN j ELSE queue[n - 1]
<1>1. queue \in Seq(Jobs) /\ Len(queue) \in Nat
  BY LenProperties DEF TypeOK
<1>2. queue' = InsertAt(queue, k, j)
  BY DEF Insertion
<1>3. /\ Len(InsertAt(queue, k, j)) = Len(queue) + 1
      /\ \A n \in 1..(Len(queue) + 1) : InsertAt(queue, k, j)[n] =
           IF n < k THEN queue[n] ELSE IF n = k THEN j ELSE queue[n - 1]
  BY <1>1, InsertAtProperties
<1> QED
  BY <1>1, <1>2, <1>3

LEMMA RemovedElements ==
  ASSUME TypeOK, NEW k \in 1..Len(queue), Removal(k)
  PROVE  /\ Len(queue') = Len(queue) - 1 /\ Len(queue) \in Nat
         /\ \A n \in 1..Len(queue') : queue'[n] = IF n < k THEN queue[n] ELSE queue[n + 1]
<1>1. queue \in Seq(Jobs) /\ Len(queue) \in Nat
  BY LenProperties DEF TypeOK
<1>2. queue' = RemoveAt(queue, k)
  BY DEF Removal
<1> QED
  BY <1>1, <1>2, RemoveAtProperties

\* queueJob inserts after the job that runs.
LEMMA InsertedAhead ==
  ASSUME TypeOK, Shape, SamePlace, NEW j \in Jobs, NEW k \in 1..(Len(queue) + 1), Insertion(j, k)
  PROVE  k > Ahead /\ (k > flushIndex + 1 \/ k = Len(queue) + 1)
<1>1. Len(queue) \in Nat /\ flushIndex \in Nat /\ k \in Nat
  BY LenProperties DEF TypeOK
<1>2. k > flushIndex + 1 \/ k = Len(queue) + 1
  BY DEF Insertion
<1>3. CASE JobStarted
  BY <1>1, <1>2, <1>3, AheadRange DEF Shape
<1>4. CASE ~JobStarted
  BY <1>1, <1>2, <1>4, AheadRange DEF SamePlace
<1> QED
  BY <1>2, <1>3, <1>4

LEMMA SortedElements ==
  ASSUME TypeOK, queue' \in StableSorts(queue, Precedes)
  PROVE  \E p \in Bijection(1..Len(queue), 1..Len(queue)) :
           /\ Len(queue') = Len(queue) /\ Len(queue) \in Nat
           /\ \A n \in 1..Len(queue) : queue'[n] = queue[p[n]]
           /\ \A m, n \in 1..Len(queue) : m < n =>
                \/ Precedes(queue'[m], queue'[n])
                \/ ~Precedes(queue'[n], queue'[m])
<1>1. queue \in Seq(Jobs) /\ DOMAIN queue = 1..Len(queue) /\ Len(queue) \in Nat
  BY LenProperties DEF TypeOK
<1>2. PICK p \in Bijection(1..Len(queue), 1..Len(queue)) :
        /\ queue' = [n \in 1..Len(queue) |-> queue[p[n]]]
        /\ \A m, n \in 1..Len(queue) : m < n =>
             \/ Precedes(queue[p[m]], queue[p[n]])
             \/ ~Precedes(queue[p[n]], queue[p[m]])
  BY <1>1 DEF StableSorts
<1>3. Len(queue') = Len(queue)
  BY <1>1, SortedType
<1> QED
  BY <1>1, <1>2, <1>3

------------------------------------------------------------------------------
(* No job is duplicated.                                                    *)

LEMMA NoDuplicateStep ==
  ASSUME TypeOK, TypeOK', Shape, Shape', NoDuplicateJob, Next
  PROVE  NoDuplicateJob'
<1>0. flushIndex \in Nat /\ flushIndex' \in Nat /\ Len(queue) \in Nat
  BY LenProperties DEF TypeOK
<1>1. CASE SamePlace /\ QueueEffect
  <2>0. flushIndex' = flushIndex
    BY <1>1 DEF SamePlace
  <2>1. CASE UNCHANGED queue
    BY <2>0, <2>1 DEF NoDuplicateJob
  <2>2. ASSUME NEW j \in Jobs, NEW k \in 1..(Len(queue) + 1), Insertion(j, k)
        PROVE  NoDuplicateJob'
    <3>1. k > flushIndex + 1 \/ k = Len(queue) + 1
      BY <2>2 DEF Insertion
    <3>2. j \notin AllowRecurse => \A n \in (flushIndex + 1)..Len(queue) : queue[n] # j
      BY <2>2 DEF Insertion, Includes, DedupeFrom, mayRecurse
    <3> SUFFICES ASSUME NEW m \in (flushIndex + 1)..Len(queue'),
                        NEW n \in (flushIndex + 1)..Len(queue'),
                        queue'[m] = queue'[n], queue'[m] \notin AllowRecurse, m # n
                 PROVE  FALSE
      BY <2>0 DEF NoDuplicateJob
    <3>3. /\ Len(queue') = Len(queue) + 1
          /\ \A i \in 1..Len(queue') : queue'[i] =
               IF i < k THEN queue[i] ELSE IF i = k THEN j ELSE queue[i - 1]
      BY <2>2, InsertedElements
    <3>4. m \in 1..Len(queue') /\ n \in 1..Len(queue') /\ m \in Nat /\ n \in Nat /\ k \in Nat
      BY <1>0, <3>3
    <3>5. m # k => \E i \in (flushIndex + 1)..Len(queue) :
                     i = (IF m < k THEN m ELSE m - 1) /\ queue[i] = queue'[m]
      BY <1>0, <3>1, <3>3, <3>4
    <3>6. n # k => \E i \in (flushIndex + 1)..Len(queue) :
                     i = (IF n < k THEN n ELSE n - 1) /\ queue[i] = queue'[n]
      BY <1>0, <3>1, <3>3, <3>4
    <3>7. m # k /\ n # k
      <4>1. queue'[k] = j
        BY <1>0, <3>3
      <4> QED
        BY <3>2, <3>5, <3>6, <4>1
    <3> QED
      BY <1>0, <3>4, <3>5, <3>6, <3>7 DEF NoDuplicateJob
  <2>3. ASSUME NEW k \in 1..Len(queue), Removal(k)
        PROVE  NoDuplicateJob'
    <3>1. k > flushIndex
      BY <1>0, <2>3, AheadRange DEF Removal
    <3> SUFFICES ASSUME NEW m \in (flushIndex + 1)..Len(queue'),
                        NEW n \in (flushIndex + 1)..Len(queue'),
                        queue'[m] = queue'[n], queue'[m] \notin AllowRecurse, m # n
                 PROVE  FALSE
      BY <2>0 DEF NoDuplicateJob
    <3>2. /\ Len(queue') = Len(queue) - 1
          /\ \A i \in 1..Len(queue') : queue'[i] = IF i < k THEN queue[i] ELSE queue[i + 1]
      BY <2>3, RemovedElements
    <3>3. m \in Nat /\ n \in Nat /\ k \in Nat
      BY <1>0, <3>2
    <3>4. \A l \in (flushIndex + 1)..Len(queue') :
            \E i \in (flushIndex + 1)..Len(queue) :
              i = (IF l < k THEN l ELSE l + 1) /\ queue[i] = queue'[l]
      <4> SUFFICES ASSUME NEW l \in (flushIndex + 1)..Len(queue')
                   PROVE  \E i \in (flushIndex + 1)..Len(queue) :
                            i = (IF l < k THEN l ELSE l + 1) /\ queue[i] = queue'[l]
        OBVIOUS
      <4>1. l \in 1..Len(queue')
        BY <1>0, <3>2
      <4>2. queue'[l] = IF l < k THEN queue[l] ELSE queue[l + 1]
        BY <3>2, <4>1
      <4>3. l \in (flushIndex + 1)..Len(queue) /\ l + 1 \in (flushIndex + 1)..Len(queue)
        BY <1>0, <3>2
      <4>4. CASE l < k
        BY <4>2, <4>3, <4>4
      <4>5. CASE ~(l < k)
        BY <4>2, <4>3, <4>5
      <4> QED
        BY <4>4, <4>5
    <3>5. PICK i \in (flushIndex + 1)..Len(queue) :
            i = (IF m < k THEN m ELSE m + 1) /\ queue[i] = queue'[m]
      BY <3>4
    <3>6. PICK j \in (flushIndex + 1)..Len(queue) :
            j = (IF n < k THEN n ELSE n + 1) /\ queue[j] = queue'[n]
      BY <3>4
    <3>7. i # j
      BY <3>3, <3>5, <3>6
    <3> QED
      BY <1>0, <3>5, <3>6, <3>7 DEF NoDuplicateJob
  <2> QED
    BY <1>1, <2>1, <2>2, <2>3 DEF QueueEffect
<1>2. CASE UNCHANGED queue /\ flushIndex' >= flushIndex
  <2> SUFFICES ASSUME NEW m \in (flushIndex' + 1)..Len(queue'),
                      NEW n \in (flushIndex' + 1)..Len(queue'),
                      queue'[m] = queue'[n], queue'[m] \notin AllowRecurse
               PROVE  m = n
    BY DEF NoDuplicateJob
  <2>1. \A f, g, l \in Nat : g >= f => (g + 1)..l \subseteq (f + 1)..l
    OBVIOUS
  <2>2. (flushIndex' + 1)..Len(queue') \subseteq (flushIndex + 1)..Len(queue)
    BY <1>0, <1>2, <2>1
  <2> QED
    BY <1>2, <2>2 DEF NoDuplicateJob
<1>3. CASE Sorting
  <2>0. flushIndex = 0 /\ flushIndex' = 0
    BY <1>3 DEF Sorting
  <2>1. PICK p \in Bijection(1..Len(queue), 1..Len(queue)) :
          /\ Len(queue') = Len(queue)
          /\ \A n \in 1..Len(queue) : queue'[n] = queue[p[n]]
    BY <1>3, SortedElements DEF Sorting
  <2>2. /\ \A n \in 1..Len(queue) : p[n] \in 1..Len(queue)
        /\ \A m, n \in 1..Len(queue) : p[m] = p[n] => m = n
    BY DEF Bijection, Injection, IsInjective
  <2> SUFFICES ASSUME NEW m \in 1..Len(queue), NEW n \in 1..Len(queue),
                      queue'[m] = queue'[n], queue'[m] \notin AllowRecurse
               PROVE  m = n
    BY <2>0, <2>1 DEF NoDuplicateJob
  <2>3. queue[p[m]] = queue[p[n]] /\ queue[p[m]] \notin AllowRecurse
    BY <2>1
  <2>4. p[m] = p[n]
    BY <2>0, <2>2, <2>3 DEF NoDuplicateJob
  <2> QED
    BY <2>2, <2>4
<1>4. CASE Emptying
  <2>1. Len(queue') = 0
    BY <1>4, EmptySeq DEF Emptying
  <2>2. \A f \in Nat : (f + 1)..0 = {}
    OBVIOUS
  <2> QED
    BY <1>0, <2>1, <2>2 DEF NoDuplicateJob
<1> QED
  BY <1>1, <1>2, <1>3, <1>4, QueueStep DEF StillAhead, Starting

\* A job that may not recurse is at most once in the part of the queue that
\* queueJob looks at, so no flush runs it twice for one trigger.
THEOREM NoDuplicateCorrect == Spec => []NoDuplicateJob
<1>1. Init => NoDuplicateJob
  <2> SUFFICES ASSUME Init PROVE NoDuplicateJob
    OBVIOUS
  <2>1. flushIndex = 0 /\ Len(queue) = 0
    BY EmptySeq DEF Init
  <2> QED
    BY <2>1 DEF NoDuplicateJob
<1>2. TypeOK /\ TypeOK' /\ Shape /\ Shape' /\ NoDuplicateJob /\ [Next]_vars => NoDuplicateJob'
  <2>1. NoDuplicateJob /\ UNCHANGED vars => NoDuplicateJob'
    BY DEF NoDuplicateJob, vars
  <2> QED
    BY <2>1, NoDuplicateStep
<1> QED
  BY <1>1, <1>2, TypeCorrect, ShapeCorrect, PTL DEF Spec

------------------------------------------------------------------------------
(* No job is lost.                                                          *)

LEMMA NoLostStep ==
  ASSUME TypeOK, TypeOK', Shape, Shape', NoLostJob, Next
  PROVE  NoLostJob'
<1>0. flushIndex \in Nat /\ Len(queue) \in Nat /\ Ahead \in Nat
  BY LenProperties, AheadRange DEF TypeOK
<1>a. \A i \in Asked : \E n \in (Ahead + 1)..Len(queue) : queue[n] = i
  BY DEF NoLostJob, Asked, Includes
<1> SUFFICES ASSUME NEW i \in Asked'
             PROVE  \E n \in (Ahead' + 1)..Len(queue') : queue'[n] = i
  BY DEF NoLostJob, Asked, Includes
<1>1. CASE SamePlace /\ QueueEffect
  <2>0. Ahead' = Ahead
    BY <1>1, SameAhead
  <2>1. CASE UNCHANGED queue /\ i \in Asked
    BY <1>a, <2>0, <2>1
  <2>2. ASSUME NEW j \in Jobs, UNCHANGED queue, Includes(queue, j, DedupeFrom(j)),
               i = j, ~SelfTrigger(j)
        PROVE  \E n \in (Ahead + 1)..Len(queue) : queue[n] = i
    <3>1. PICK n \in (DedupeFrom(j) + 1)..Len(queue) : queue[n] = j
      BY <2>2 DEF Includes
    <3>2. DedupeFrom(j) \in {flushIndex, flushIndex + 1}
      BY DEF DedupeFrom
    <3>3. CASE n > Ahead
      BY <1>0, <2>2, <3>1, <3>2, <3>3
    <3>4. CASE n <= Ahead
      <4>1. JobStarted /\ n = flushIndex + 1
        BY <1>0, <3>1, <3>2, <3>4, AheadRange
      <4>2. isFlushing
        BY <4>1, LoopNames DEF Shape, InLoop
      <4>3. ~mayRecurse(j)
        BY <1>0, <3>1, <4>1, <4>2 DEF DedupeFrom
      <4> QED
        BY <2>2, <3>1, <4>1, <4>3 DEF SelfTrigger
    <3> QED
      BY <1>0, <3>1, <3>2, <3>3, <3>4
  <2>3. ASSUME NEW j \in Jobs, NEW k \in 1..(Len(queue) + 1), Insertion(j, k), i \in Asked \union {j}
        PROVE  \E n \in (Ahead + 1)..Len(queue') : queue'[n] = i
    <3>1. k > Ahead
      BY <1>1, <2>3, InsertedAhead
    <3>2. /\ Len(queue') = Len(queue) + 1
          /\ \A n \in 1..Len(queue') : queue'[n] =
               IF n < k THEN queue[n] ELSE IF n = k THEN j ELSE queue[n - 1]
      BY <2>3, InsertedElements
    <3>3. CASE i = j
      BY <1>0, <3>1, <3>2, <3>3
    <3>4. CASE i \in Asked
      <4>1. PICK n \in (Ahead + 1)..Len(queue) : queue[n] = i
        BY <1>a, <3>4
      <4>2. CASE n < k
        BY <1>0, <3>2, <4>1, <4>2
      <4>3. CASE n >= k
        <5>1. n + 1 \in (Ahead + 1)..Len(queue') /\ queue'[n + 1] = queue[n]
          BY <1>0, <3>2, <4>1, <4>3
        <5> QED
          BY <4>1, <5>1
      <4> QED
        BY <4>1, <4>2, <4>3
    <3> QED
      BY <2>3, <3>3, <3>4
  <2>4. ASSUME NEW k \in 1..Len(queue), Removal(k), i \in Asked, i # queue[k]
        PROVE  \E n \in (Ahead + 1)..Len(queue') : queue'[n] = i
    <3>1. k > Ahead
      BY <1>0, <2>4 DEF Removal
    <3>2. /\ Len(queue') = Len(queue) - 1
          /\ \A n \in 1..Len(queue') : queue'[n] = IF n < k THEN queue[n] ELSE queue[n + 1]
      BY <2>4, RemovedElements
    <3>3. PICK n \in (Ahead + 1)..Len(queue) : queue[n] = i
      BY <1>a, <2>4
    <3>4. CASE n < k
      BY <1>0, <3>2, <3>3, <3>4
    <3>5. CASE n > k
      <4>1. n - 1 \in (Ahead + 1)..Len(queue') /\ queue'[n - 1] = queue[n]
        BY <1>0, <3>1, <3>2, <3>3, <3>5
      <4> QED
        BY <3>3, <4>1
    <3> QED
      BY <1>0, <2>4, <3>3, <3>4, <3>5
  <2>5. \/ UNCHANGED queue /\ i \in Asked
        \/ \E j \in Jobs : /\ UNCHANGED queue /\ Includes(queue, j, DedupeFrom(j))
                           /\ i = j /\ ~SelfTrigger(j)
        \/ \E j \in Jobs, k \in 1..(Len(queue) + 1) : Insertion(j, k) /\ i \in Asked \union {j}
        \/ \E k \in 1..Len(queue) : Removal(k) /\ i \in Asked /\ i # queue[k]
    BY <1>1 DEF QueueEffect
  <2> QED
    BY <2>0, <2>1, <2>2, <2>3, <2>4, <2>5
<1>2. CASE StillAhead
  BY <1>a, <1>2 DEF StillAhead
<1>3. CASE Sorting
  <2>0. i \in Asked /\ Ahead = 0 /\ Ahead' = 0
    BY <1>3 DEF Sorting
  <2>1. PICK p \in Bijection(1..Len(queue), 1..Len(queue)) :
          /\ Len(queue') = Len(queue)
          /\ \A n \in 1..Len(queue) : queue'[n] = queue[p[n]]
    BY <1>3, SortedElements DEF Sorting
  <2>2. PICK n \in 1..Len(queue) : queue[n] = i
    BY <1>a, <2>0
  <2>3. PICK m \in 1..Len(queue) : p[m] = n
    BY DEF Bijection, Surjection
  <2> QED
    BY <2>0, <2>1, <2>2, <2>3
<1>4. CASE Starting
  <2>1. PICK n \in (Ahead + 1)..Len(queue) : queue[n] = i
    BY <1>a, <1>4 DEF Starting
  <2>2. n # flushIndex + 1
    BY <1>4, <2>1 DEF Starting
  <2> QED
    BY <1>0, <1>4, <2>1, <2>2 DEF Starting
<1>5. CASE Emptying
  BY <1>0, <1>a, <1>5 DEF Emptying
<1> QED
  BY <1>1, <1>2, <1>3, <1>4, <1>5, QueueStep

\* A trigger is never lost: a job asked for, and neither run, unmounted nor
\* updated directly since, is still ahead in the queue.
THEOREM NoLostJobCorrect == Spec => []NoLostJob
<1>1. Init => NoLostJob
  BY DEF Init, NoLostJob
<1>2. TypeOK /\ TypeOK' /\ Shape /\ Shape' /\ NoLostJob /\ [Next]_vars => NoLostJob'
  <2>1. NoLostJob /\ UNCHANGED vars => NoLostJob'
    BY DEF NoLostJob, Includes, Ahead, JobStarted, InJobLoop, vars
  <2> QED
    BY <2>1, NoLostStep
<1> QED
  BY <1>1, <1>2, TypeCorrect, ShapeCorrect, PTL DEF Spec

------------------------------------------------------------------------------
(* The queue is sorted.                                                     *)

\* The comparator is a strict weak order, and findInsertionIndex agrees with it.
LEMMA Ordering ==
  ASSUME NEW j \in Jobs, NEW x \in Jobs, NEW y \in Jobs
  PROVE  /\ ~(Precedes(x, y) /\ Precedes(y, x))
         /\ ~Precedes(x, y) /\ GoesRight(x, IdOf[j]) => ~Precedes(j, y)
         /\ ~Precedes(y, x) /\ ~GoesRight(x, IdOf[j]) => ~Precedes(y, j)
         /\ IdOf[j] = Infinity => ~Precedes(j, y)
<1>1. IdOf[j] \in -1..Infinity /\ IdOf[x] \in -1..Infinity /\ IdOf[y] \in -1..Infinity
  BY IdAssumption
<1>2. Infinity \in Nat
  BY IdAssumption
<1>3. ~(Precedes(x, y) /\ Precedes(y, x))
  BY <1>1, <1>2 DEF Precedes
<1>4. IdOf[j] = Infinity => ~Precedes(j, y)
  BY <1>1, <1>2 DEF Precedes
<1>5. ~Precedes(x, y) /\ GoesRight(x, IdOf[j]) => ~Precedes(j, y)
  BY <1>1, <1>2 DEF Precedes, GoesRight
<1>6. ~Precedes(y, x) /\ ~GoesRight(x, IdOf[j]) => ~Precedes(y, j)
  BY <1>1, <1>2 DEF Precedes, GoesRight
<1> QED
  BY <1>3, <1>4, <1>5, <1>6

\* No two jobs after position from are out of order.
SortedAfter(s, from) ==
  \A m, n \in (from + 1)..Len(s) : m < n => ~Precedes(s[n], s[m])

LEMMA InsertionKeepsOrder ==
  ASSUME TypeOK, NEW from \in Nat, from > flushIndex, SortedAfter(queue, from),
         NEW j \in Jobs, NEW k \in 1..(Len(queue) + 1), k > from, Insertion(j, k)
  PROVE  SortedAfter(queue', from)
<1>1. Len(queue) \in Nat /\ flushIndex \in Nat /\ queue \in Seq(Jobs)
  BY LenProperties DEF TypeOK
<1>2. \A n \in 1..Len(queue) : queue[n] \in Jobs
  BY <1>1, ElementOfSeq
<1>3. k > from /\ k \in Nat
  OBVIOUS
<1>4. /\ Len(queue') = Len(queue) + 1
      /\ \A n \in 1..Len(queue') : queue'[n] =
           IF n < k THEN queue[n] ELSE IF n = k THEN j ELSE queue[n - 1]
  BY InsertedElements
<1>5. ASSUME NEW m \in (from + 1)..Len(queue), m < k
      PROVE  ~Precedes(j, queue[m])
  <2>1. CASE IdOf[j] = Infinity
    BY <1>1, <1>2, <1>5, <2>1, Ordering
  <2>2. CASE IdOf[j] # Infinity
    <3>1. k - 1 \in InsertionIndices(IdOf[j])
      BY <2>2 DEF Insertion
    <3>2. k - 1 > flushIndex + 1
      BY <1>1, <1>5
    <3>3. GoesRight(queue[k - 1], IdOf[j])
      BY <1>1, <3>1, <3>2 DEF InsertionIndices
    <3>4. ~Precedes(queue[k - 1], queue[m])
      <4>1. CASE m = k - 1
        BY <1>1, <1>2, <4>1, Ordering
      <4>2. CASE m < k - 1
        BY <1>1, <1>3, <1>5, <4>2 DEF SortedAfter
      <4> QED
        BY <1>1, <1>3, <1>5, <4>1, <4>2
    <3>5. queue[k - 1] \in Jobs /\ queue[m] \in Jobs
      BY <1>1, <1>2, <1>3, <1>5
    <3> QED
      BY <3>3, <3>4, <3>5, Ordering
  <2> QED
    BY <2>1, <2>2
<1>6. ASSUME NEW m \in (from + 1)..Len(queue), m >= k
      PROVE  ~Precedes(queue[m], j)
  <2>1. k - 1 \in InsertionIndices(IdOf[j])
    BY <1>1, <1>3, <1>6 DEF Insertion
  <2>2. ~GoesRight(queue[k], IdOf[j])
    <3>1. k - 1 < Len(queue) /\ (k - 1) + 1 = k
      BY <1>1, <1>3, <1>6
    <3> QED
      BY <2>1, <3>1 DEF InsertionIndices
  <2>3. queue[k] \in Jobs /\ queue[m] \in Jobs
    BY <1>1, <1>2, <1>3, <1>6
  <2>4. ~Precedes(queue[m], queue[k])
    <3>1. CASE m = k
      BY <2>3, <3>1, Ordering
    <3>2. CASE m > k
      BY <1>1, <1>3, <1>6, <3>2 DEF SortedAfter
    <3> QED
      BY <1>1, <1>3, <1>6, <3>1, <3>2
  <2> QED
    BY <2>2, <2>3, <2>4, Ordering
<1> SUFFICES ASSUME NEW m \in (from + 1)..Len(queue'), NEW n \in (from + 1)..Len(queue'), m < n
             PROVE  ~Precedes(queue'[n], queue'[m])
  BY DEF SortedAfter
<1>7. m \in Nat /\ n \in Nat /\ m \in 1..Len(queue') /\ n \in 1..Len(queue')
  BY <1>1, <1>4
<1>8. CASE n < k
  <2>1. queue'[n] = queue[n] /\ queue'[m] = queue[m]
    BY <1>3, <1>4, <1>7, <1>8
  <2> QED
    BY <1>1, <1>3, <1>4, <1>7, <1>8, <2>1 DEF SortedAfter
<1>9. CASE n = k
  <2>1. queue'[n] = j /\ queue'[m] = queue[m] /\ m \in (from + 1)..Len(queue)
    BY <1>1, <1>3, <1>4, <1>7, <1>9
  <2> QED
    BY <1>5, <1>9, <2>1
<1>10. CASE m = k
  <2>1. queue'[m] = j /\ queue'[n] = queue[n - 1] /\ n - 1 \in (from + 1)..Len(queue) /\ n - 1 >= k
    BY <1>1, <1>3, <1>4, <1>7, <1>10
  <2> QED
    BY <1>6, <2>1
<1>11. CASE m < k /\ k < n
  <2>1. queue'[m] = queue[m] /\ queue'[n] = queue[n - 1]
    BY <1>3, <1>4, <1>7, <1>11
  <2>2. m < n - 1 /\ m \in (from + 1)..Len(queue) /\ n - 1 \in (from + 1)..Len(queue)
    BY <1>1, <1>3, <1>4, <1>7, <1>11
  <2> QED
    BY <2>1, <2>2 DEF SortedAfter
<1>12. CASE m > k
  <2>1. queue'[m] = queue[m - 1] /\ queue'[n] = queue[n - 1]
    BY <1>3, <1>4, <1>7, <1>12
  <2>2. m - 1 < n - 1 /\ m - 1 \in (from + 1)..Len(queue) /\ n - 1 \in (from + 1)..Len(queue)
    BY <1>1, <1>3, <1>4, <1>7, <1>12
  <2> QED
    BY <2>1, <2>2 DEF SortedAfter
<1> QED
  BY <1>3, <1>7, <1>8, <1>9, <1>10, <1>11, <1>12

LEMMA RemovalKeepsOrder ==
  ASSUME TypeOK, NEW from \in Nat, SortedAfter(queue, from), NEW k \in 1..Len(queue), Removal(k)
  PROVE  SortedAfter(queue', from)
<1>1. /\ Len(queue) \in Nat /\ k \in Nat
      /\ Len(queue') = Len(queue) - 1
      /\ \A n \in 1..Len(queue') : queue'[n] = IF n < k THEN queue[n] ELSE queue[n + 1]
  BY RemovedElements
<1> SUFFICES ASSUME NEW m \in (from + 1)..Len(queue'), NEW n \in (from + 1)..Len(queue'), m < n
             PROVE  ~Precedes(queue'[n], queue'[m])
  BY DEF SortedAfter
<1>2. /\ m \in Nat /\ n \in Nat /\ m \in 1..Len(queue') /\ n \in 1..Len(queue')
      /\ m \in (from + 1)..Len(queue) /\ m + 1 \in (from + 1)..Len(queue)
      /\ n \in (from + 1)..Len(queue) /\ n + 1 \in (from + 1)..Len(queue)
  BY <1>1
<1>3. CASE n < k
  <2>1. m < k
    BY <1>1, <1>2, <1>3
  <2>2. queue'[m] = queue[m] /\ queue'[n] = queue[n]
    BY <1>1, <1>2, <1>3, <2>1
  <2> QED BY <1>2, <2>2 DEF SortedAfter
<1>4. CASE ~(n < k) /\ m < k
  <2>1. queue'[m] = queue[m] /\ queue'[n] = queue[n + 1]
    BY <1>1, <1>2, <1>4
  <2>2. m < n + 1
    BY <1>2
  <2> QED BY <1>2, <2>1, <2>2 DEF SortedAfter
<1>5. CASE ~(n < k) /\ ~(m < k)
  <2>1. queue'[m] = queue[m + 1] /\ queue'[n] = queue[n + 1]
    BY <1>1, <1>2, <1>5
  <2>2. m + 1 < n + 1
    BY <1>2
  <2> QED BY <1>2, <2>1, <2>2 DEF SortedAfter
<1> QED
  BY <1>3, <1>4, <1>5

LEMMA SortedStep ==
  ASSUME TypeOK, TypeOK', Shape, Shape', QueueSorted, Next
  PROVE  QueueSorted'
<1>0. flushIndex \in Nat /\ Len(queue) \in Nat /\ Ahead \in Nat
  BY LenProperties, AheadRange DEF TypeOK
<1>a. InJobLoop => SortedAfter(queue, Ahead)
  BY DEF QueueSorted, SortedAfter
<1> SUFFICES ASSUME InJobLoop' PROVE SortedAfter(queue', Ahead')
  BY DEF QueueSorted, SortedAfter
<1>1. CASE SamePlace /\ QueueEffect
  <2>1. InJobLoop /\ Ahead' = Ahead
    BY <1>1, SameAhead DEF SamePlace
  <2>2. CASE UNCHANGED queue
    BY <1>a, <2>1, <2>2
  <2>3. ASSUME NEW j \in Jobs, NEW k \in 1..(Len(queue) + 1), Insertion(j, k)
        PROVE  SortedAfter(queue', Ahead)
    <3>1. Ahead > flushIndex
      BY <1>1, <1>0, <2>1, AheadRange DEF SamePlace
    <3> QED
      BY <1>a, <1>0, <1>1, <2>1, <2>3, <3>1, InsertedAhead, InsertionKeepsOrder
  <2> QED
    BY <1>1, <1>a, <1>0, <2>1, <2>2, <2>3, RemovalKeepsOrder DEF QueueEffect
<1>2. CASE StillAhead
  BY <1>a, <1>2 DEF StillAhead
<1>3. CASE Sorting
  <2>1. /\ Ahead' = 0 /\ Len(queue') = Len(queue)
        /\ \A m, n \in 1..Len(queue) : m < n =>
             \/ Precedes(queue'[m], queue'[n])
             \/ ~Precedes(queue'[n], queue'[m])
    BY <1>3, SortedElements DEF Sorting
  <2>2. \A n \in 1..Len(queue') : queue'[n] \in Jobs
    BY ElementOfSeq DEF TypeOK
  <2> SUFFICES ASSUME NEW m \in 1..Len(queue'), NEW n \in 1..Len(queue'), m < n
               PROVE  ~Precedes(queue'[n], queue'[m])
    BY <2>1 DEF SortedAfter
  <2> QED
    BY <2>1, <2>2, Ordering
<1>4. CASE Starting
  <2>1. SortedAfter(queue, Ahead) /\ Ahead' = Ahead + 1 /\ UNCHANGED queue
    BY <1>a, <1>4 DEF Starting
  <2>2. \A m \in (Ahead + 2)..Len(queue) : m \in (Ahead + 1)..Len(queue)
    BY <1>0
  <2> QED
    BY <1>0, <2>1, <2>2 DEF SortedAfter
<1>5. CASE Emptying
  <2>1. Len(queue') = 0
    BY <1>5, EmptySeq DEF Emptying
  <2>2. Ahead' \in Nat
    <3>1. flushIndex' \in Nat
      BY DEF TypeOK
    <3>2. Ahead' = flushIndex' \/ Ahead' = flushIndex' + 1
      BY DEF Ahead
    <3> QED
      BY <3>1, <3>2
  <2>3. \A f \in Nat : (f + 1)..0 = {}
    OBVIOUS
  <2> QED
    BY <2>1, <2>2, <2>3 DEF SortedAfter
<1> QED
  BY <1>1, <1>2, <1>3, <1>4, <1>5, QueueStep

\* In the loop of flushJobs the jobs still to run are sorted by the comparator
\* (parents before children, pre watchers before the update of their own
\* component), whatever the running jobs queue, invalidate or splice out.
THEOREM QueueSortedCorrect == Spec => []QueueSorted
<1>1. Init => QueueSorted
  BY DEF Init, QueueSorted, InJobLoop
<1>2. TypeOK /\ TypeOK' /\ Shape /\ Shape' /\ QueueSorted /\ [Next]_vars => QueueSorted'
  <2>1. QueueSorted /\ UNCHANGED vars => QueueSorted'
    BY DEF QueueSorted, Ahead, JobStarted, InJobLoop, vars
  <2> QED
    BY <2>1, SortedStep
<1> QED
  BY <1>1, <1>2, TypeCorrect, ShapeCorrect, PTL DEF Spec

------------------------------------------------------------------------------
(* The binary search of findInsertionIndex.                                 *)

\* The part of the queue that findInsertionIndex searches is sorted, whether
\* flushJobs is in its loop or not.
SearchedSorted == SortedAfter(queue, flushIndex + 1)

LEMMA SearchedSortedStep ==
  ASSUME TypeOK, TypeOK', Shape, Shape', SearchedSorted, Next
  PROVE  SearchedSorted'
<1>0. flushIndex \in Nat /\ flushIndex' \in Nat /\ flushIndex + 1 \in Nat /\ Len(queue) \in Nat
  BY LenProperties DEF TypeOK
<1>1. CASE SamePlace /\ QueueEffect
  <2>1. flushIndex' = flushIndex
    BY <1>1 DEF SamePlace
  <2>2. CASE UNCHANGED queue
    BY <2>1, <2>2 DEF SearchedSorted, SortedAfter
  <2>3. ASSUME NEW j \in Jobs, NEW k \in 1..(Len(queue) + 1), Insertion(j, k)
        PROVE  SortedAfter(queue', flushIndex + 1)
    <3>1. CASE k > flushIndex + 1
      BY <1>0, <2>3, <3>1, InsertionKeepsOrder DEF SearchedSorted
    <3>2. CASE k = Len(queue) + 1 /\ k <= flushIndex + 1
      <4>1. Len(queue') = k
        BY <2>3, <3>2, InsertedElements
      <4>2. (flushIndex + 1 + 1)..Len(queue') = {}
        BY <1>0, <3>2, <4>1
      <4> QED
        BY <4>2 DEF SortedAfter
    <3> QED
      BY <1>0, <2>3, <3>1, <3>2 DEF Insertion
  <2>4. ASSUME NEW k \in 1..Len(queue), Removal(k)
        PROVE  SortedAfter(queue', flushIndex + 1)
    BY <1>0, <2>4, RemovalKeepsOrder DEF SearchedSorted
  <2> QED
    BY <1>1, <2>1, <2>2, <2>3, <2>4 DEF QueueEffect, SearchedSorted
<1>2. CASE UNCHANGED queue /\ flushIndex' >= flushIndex
  <2>1. \A f, g, l \in Nat : g >= f => (g + 1 + 1)..l \subseteq (f + 1 + 1)..l
    OBVIOUS
  <2>2. (flushIndex' + 1 + 1)..Len(queue') \subseteq (flushIndex + 1 + 1)..Len(queue)
    BY <1>0, <1>2, <2>1
  <2> QED
    BY <1>2, <2>2 DEF SearchedSorted, SortedAfter
<1>3. CASE Sorting
  <2>1. /\ flushIndex' = 0 /\ Len(queue') = Len(queue)
        /\ \A m, n \in 1..Len(queue) : m < n =>
             \/ Precedes(queue'[m], queue'[n])
             \/ ~Precedes(queue'[n], queue'[m])
    BY <1>3, SortedElements DEF Sorting
  <2>2. \A n \in 1..Len(queue') : queue'[n] \in Jobs
    BY ElementOfSeq DEF TypeOK
  <2> SUFFICES ASSUME NEW m \in (flushIndex' + 1 + 1)..Len(queue'),
                      NEW n \in (flushIndex' + 1 + 1)..Len(queue'), m < n
               PROVE  ~Precedes(queue'[n], queue'[m])
    BY DEF SearchedSorted, SortedAfter
  <2>3. m \in 1..Len(queue) /\ n \in 1..Len(queue) /\ m \in 1..Len(queue') /\ n \in 1..Len(queue')
    BY <1>0, <2>1
  <2> QED
    BY <2>1, <2>2, <2>3, Ordering
<1>4. CASE Emptying
  <2>1. Len(queue') = 0
    BY <1>4, EmptySeq DEF Emptying
  <2>2. (flushIndex' + 1 + 1)..Len(queue') = {}
    <3>1. \A f \in Nat : (f + 1 + 1)..0 = {}
      OBVIOUS
    <3> QED
      BY <1>0, <2>1, <3>1
  <2> QED
    BY <2>2 DEF SearchedSorted, SortedAfter
<1> QED
  BY <1>1, <1>2, <1>3, <1>4, QueueStep DEF StillAhead, Starting

LEMMA SearchedSortedCorrect == Spec => []SearchedSorted
<1>1. Init => SearchedSorted
  <2> SUFFICES ASSUME Init PROVE SearchedSorted
    OBVIOUS
  <2>1. Len(queue) = 0 /\ flushIndex = 0
    BY EmptySeq DEF Init
  <2>2. (flushIndex + 1 + 1)..Len(queue) = {}
    BY <2>1
  <2> QED
    BY <2>2 DEF SearchedSorted, SortedAfter
<1>2. TypeOK /\ TypeOK' /\ Shape /\ Shape' /\ SearchedSorted /\ [Next]_vars => SearchedSorted'
  <2>1. SearchedSorted /\ UNCHANGED vars => SearchedSorted'
    BY DEF SearchedSorted, SortedAfter, vars
  <2> QED
    BY <2>1, SearchedSortedStep
<1> QED
  BY <1>1, <1>2, TypeCorrect, ShapeCorrect, PTL DEF Spec

\* In sorted order, the jobs the search goes right of come first.
LEMMA RightFirst ==
  ASSUME NEW j \in Jobs, NEW x \in Jobs, NEW y \in Jobs,
         IdOf[j] # Infinity, ~Precedes(y, x), GoesRight(y, IdOf[j])
  PROVE  GoesRight(x, IdOf[j])
<1>1. IdOf[j] \in -1..Infinity /\ IdOf[x] \in -1..Infinity /\ IdOf[y] \in -1..Infinity
  BY IdAssumption
<1> QED
  BY <1>1, IdAssumption DEF Precedes, GoesRight

Ranges == ((flushIndex + 1)..(Len(queue) + 1)) \X (0..Len(queue))

\* What the loop of BinarySearch computes from its outcomes on smaller ranges.
Turn(loop, id) ==
  [range \in Ranges |->
     LET start == range[1]
         end == range[2]
         middle == (start + end) \div 2
     IN  IF start >= end THEN start
         ELSE IF GoesRight(queue[middle + 1], id) THEN loop[<<middle + 1, end>>]
         ELSE loop[<<start, middle>>]]

\* Its outcome when the jobs it goes right of are those before index b.
Outcome(b) ==
  [range \in Ranges |->
     IF range[1] >= range[2] \/ b <= range[1] THEN range[1]
     ELSE IF b <= range[2] THEN b ELSE range[2]]

\* b splits the part of the queue that is searched.
Splits(b, id) ==
  /\ b \in Nat /\ flushIndex + 1 <= b /\ b <= Len(queue)
  /\ \A k \in (flushIndex + 1)..(Len(queue) - 1) : GoesRight(queue[k + 1], id) <=> k < b

LEMMA Halves ==
  ASSUME NEW start \in Nat, NEW end \in Nat, start < end
  PROVE  /\ (start + end) \div 2 \in Nat
         /\ start <= (start + end) \div 2 /\ (start + end) \div 2 < end
OBVIOUS

LEMMA OutcomeIsFixed ==
  ASSUME TypeOK, NEW id, NEW b, Splits(b, id)
  PROVE  Outcome(b) = Turn(Outcome(b), id)
<1>0. flushIndex \in Nat /\ Len(queue) \in Nat /\ b \in Nat
  BY LenProperties DEF TypeOK, Splits
<1> SUFFICES ASSUME NEW range \in Ranges
             PROVE  Outcome(b)[range] = Turn(Outcome(b), id)[range]
  BY DEF Outcome, Turn
<1> DEFINE start == range[1]
           end == range[2]
           middle == (start + end) \div 2
<1>1. start \in (flushIndex + 1)..(Len(queue) + 1) /\ end \in 0..Len(queue) /\ range = <<start, end>>
  BY DEF Ranges
<1>2. \A s \in (flushIndex + 1)..(Len(queue) + 1), e \in 0..Len(queue) :
        Outcome(b)[<<s, e>>] = IF s >= e \/ b <= s THEN s ELSE IF b <= e THEN b ELSE e
  BY DEF Outcome, Ranges
<1>3. Turn(Outcome(b), id)[range] =
        IF start >= end THEN start
        ELSE IF GoesRight(queue[middle + 1], id) THEN Outcome(b)[<<middle + 1, end>>]
        ELSE Outcome(b)[<<start, middle>>]
  BY DEF Turn
<1>4. CASE start >= end
  BY <1>1, <1>2, <1>3, <1>4
<1>5. CASE start < end
  <2>1. middle \in Nat /\ start <= middle /\ middle < end
    <3>1. start \in Nat /\ end \in Nat
      BY <1>0, <1>1
    <3> HIDE DEF start, end
    <3> QED
      BY <1>5, <3>1, Halves
  <2> HIDE DEF middle
  <2>2. GoesRight(queue[middle + 1], id) <=> middle < b
    BY <1>0, <1>1, <2>1 DEF Splits
  <2>3. CASE middle < b
    <3>1. Outcome(b)[<<middle + 1, end>>] =
            IF middle + 1 >= end \/ b <= middle + 1 THEN middle + 1 ELSE IF b <= end THEN b ELSE end
      BY <1>0, <1>1, <1>2, <2>1
    <3> QED
      BY <1>0, <1>1, <1>2, <1>3, <1>5, <2>1, <2>2, <2>3, <3>1
  <2>4. CASE ~(middle < b)
    <3>1. Outcome(b)[<<start, middle>>] =
            IF start >= middle \/ b <= start THEN start ELSE IF b <= middle THEN b ELSE middle
      BY <1>0, <1>1, <1>2, <2>1
    <3> QED
      BY <1>0, <1>1, <1>2, <1>3, <1>5, <2>1, <2>2, <2>4, <3>1
  <2> QED
    BY <2>3, <2>4
<1> QED
  BY <1>0, <1>1, <1>4, <1>5

\* The recursion ends, so that it has no other outcome.
LEMMA OutcomeIsUnique ==
  ASSUME TypeOK, NEW id, NEW f, NEW g, f = Turn(f, id), g = Turn(g, id)
  PROVE  f = g
<1>0. flushIndex \in Nat /\ Len(queue) \in Nat
  BY LenProperties DEF TypeOK
<1> DEFINE starts == (flushIndex + 1)..(Len(queue) + 1)
           ends == 0..Len(queue)
           differ == {n \in Nat : \E s \in starts, e \in ends : s + n = e /\ f[<<s, e>>] # g[<<s, e>>]}
<1>1. \A s \in starts, e \in ends :
        f[<<s, e>>] = (IF s >= e THEN s
                       ELSE IF GoesRight(queue[(s + e) \div 2 + 1], id) THEN f[<<(s + e) \div 2 + 1, e>>]
                       ELSE f[<<s, (s + e) \div 2>>])
  BY DEF Turn, Ranges
<1>2. \A s \in starts, e \in ends :
        g[<<s, e>>] = (IF s >= e THEN s
                       ELSE IF GoesRight(queue[(s + e) \div 2 + 1], id) THEN g[<<(s + e) \div 2 + 1, e>>]
                       ELSE g[<<s, (s + e) \div 2>>])
  BY DEF Turn, Ranges
<1>3. differ = {}
  <2> SUFFICES ASSUME differ # {} PROVE FALSE
    OBVIOUS
  <2>1. PICK n \in differ : \A m \in differ : n <= m
    <3>1. differ \in SUBSET Nat
      OBVIOUS
    <3> HIDE DEF differ
    <3> QED
      BY <3>1, LeastNumber
  <2>2. PICK s \in starts, e \in ends : s + n = e /\ f[<<s, e>>] # g[<<s, e>>]
    BY <2>1
  <2>3. n \in Nat /\ s \in Nat /\ e \in Nat
    BY <1>0, <2>1
  <2> DEFINE middle == (s + e) \div 2
  <2>4. s < e
    <3>1. s >= e => f[<<s, e>>] = s /\ g[<<s, e>>] = s
      BY <1>1, <1>2, <2>2
    <3> QED
      BY <2>2, <2>3, <3>1
  <2>5. middle \in Nat /\ s <= middle /\ middle < e
    BY <2>3, <2>4, Halves
  <2>6. \/ f[<<middle + 1, e>>] # g[<<middle + 1, e>>]
        \/ f[<<s, middle>>] # g[<<s, middle>>]
    BY <1>1, <1>2, <2>2, <2>4
  <2> HIDE DEF middle
  <2>7. middle + 1 \in starts /\ middle \in ends
    BY <1>0, <2>2, <2>3, <2>5
  <2>8. e - (middle + 1) \in Nat /\ (middle + 1) + (e - (middle + 1)) = e /\ e - (middle + 1) < n
    BY <2>2, <2>3, <2>5
  <2>9. middle - s \in Nat /\ s + (middle - s) = middle /\ middle - s < n
    BY <2>2, <2>3, <2>5
  <2>10. CASE f[<<middle + 1, e>>] # g[<<middle + 1, e>>]
    <3>1. e - (middle + 1) \in differ
      BY <2>2, <2>7, <2>8, <2>10
    <3> HIDE DEF differ
    <3>2. n <= e - (middle + 1)
      BY <2>1, <3>1
    <3> QED
      BY <2>3, <2>8, <3>2
  <2>11. CASE f[<<s, middle>>] # g[<<s, middle>>]
    <3>1. middle - s \in differ
      BY <2>2, <2>7, <2>9, <2>11
    <3> HIDE DEF differ
    <3>2. n <= middle - s
      BY <2>1, <3>1
    <3> QED
      BY <2>3, <2>9, <3>2
  <2> QED
    BY <2>6, <2>10, <2>11
<1>4. \A s \in starts, e \in ends : f[<<s, e>>] = g[<<s, e>>]
  <2> SUFFICES ASSUME NEW s \in starts, NEW e \in ends PROVE f[<<s, e>>] = g[<<s, e>>]
    OBVIOUS
  <2>1. s \in Nat /\ e \in Nat
    BY <1>0
  <2>2. CASE s >= e
    BY <1>1, <1>2, <2>2
  <2>3. CASE s < e
    <3>1. e - s \in Nat /\ s + (e - s) = e
      BY <2>1, <2>3
    <3> QED
      BY <1>3, <3>1
  <2> QED
    BY <2>1, <2>2, <2>3
<1>5. \A range \in Ranges : f[range] = g[range]
  <2> SUFFICES ASSUME NEW range \in Ranges PROVE f[range] = g[range]
    OBVIOUS
  <2>1. range[1] \in starts /\ range[2] \in ends /\ range = <<range[1], range[2]>>
    BY DEF Ranges
  <2> HIDE DEF starts, ends
  <2> QED
    BY <1>4, <2>1
<1>6. f = [range \in Ranges |-> f[range]] /\ g = [range \in Ranges |-> g[range]]
  BY DEF Turn
<1> QED
  BY <1>5, <1>6

\* Where the job is inserted when b splits a part of the queue not yet empty.
LEMMA SearchFinds ==
  ASSUME TypeOK, NEW id, NEW b, Splits(b, id)
  PROVE  BinarySearch(id) = b
<1>0. flushIndex \in Nat /\ Len(queue) \in Nat /\ b \in Nat /\ flushIndex + 1 <= b /\ b <= Len(queue)
  BY LenProperties DEF TypeOK, Splits
<1> DEFINE loop == CHOOSE f : f = Turn(f, id)
<1>1. loop = Turn(loop, id)
  BY OutcomeIsFixed
<1>2. loop = Outcome(b)
  <2> HIDE DEF loop
  <2> QED
    BY <1>1, OutcomeIsFixed, OutcomeIsUnique
<1>3. BinarySearch(id) = IF loop[<<flushIndex + 1, Len(queue)>>] > Len(queue) THEN Len(queue)
                         ELSE loop[<<flushIndex + 1, Len(queue)>>]
  BY DEF BinarySearch, Turn, Ranges
<1> HIDE DEF loop
<1>4. loop[<<flushIndex + 1, Len(queue)>>] = b
  BY <1>0, <1>2 DEF Outcome, Ranges
<1> QED
  BY <1>0, <1>3, <1>4

\* When the end of the queue has been reached the loop makes no turn.
LEMMA SearchAtEnd ==
  ASSUME TypeOK, NEW id, flushIndex <= Len(queue), flushIndex + 1 >= Len(queue)
  PROVE  InsertionIndices(id) = {Len(queue)} /\ BinarySearch(id) = Len(queue)
<1>0. flushIndex \in Nat /\ Len(queue) \in Nat
  BY LenProperties DEF TypeOK
<1>1. InsertionIndices(id) = {Len(queue)}
  <2>1. Len(queue)..Len(queue) = {Len(queue)}
    BY <1>0
  <2>2. ~(flushIndex + 1 < Len(queue))
    BY <1>0
  <2>3. ~(Len(queue) > Len(queue)) /\ ~(Len(queue) < Len(queue))
    BY <1>0
  <2> QED
    BY <2>1, <2>2, <2>3 DEF InsertionIndices
<1>2. BinarySearch(id) = Len(queue)
  <2> DEFINE loop == CHOOSE f : f = Turn(f, id)
             ended == [range \in Ranges |-> range[1]]
  <2>1. BinarySearch(id) = IF loop[<<flushIndex + 1, Len(queue)>>] > Len(queue) THEN Len(queue)
                           ELSE loop[<<flushIndex + 1, Len(queue)>>]
    BY DEF BinarySearch, Turn, Ranges
  <2>2. ended = Turn(ended, id)
    <3> SUFFICES ASSUME NEW range \in Ranges PROVE range[1] >= range[2]
      BY DEF Turn
    <3>1. range[1] \in (flushIndex + 1)..(Len(queue) + 1) /\ range[2] \in 0..Len(queue)
      BY DEF Ranges
    <3> QED
      BY <1>0, <3>1
  <2>3. loop = Turn(loop, id)
    <3> HIDE DEF ended
    <3> QED
      BY <2>2
  <2>4. loop[<<flushIndex + 1, Len(queue)>>] = flushIndex + 1
    <3> HIDE DEF loop
    <3>1. <<flushIndex + 1, Len(queue)>> \in Ranges
      BY <1>0 DEF Ranges
    <3> QED
      BY <2>3, <3>1 DEF Turn
  <2> HIDE DEF loop
  <2> QED
    BY <1>0, <2>1, <2>4
<1> QED
  BY <1>1, <1>2

\* In the sorted part of the queue one index splits the jobs the search goes
\* right of from the others, and it is the only index the search can end at.
LEMMA SearchInside ==
  ASSUME TypeOK, SearchedSorted, NEW j \in Jobs, IdOf[j] # Infinity, flushIndex + 1 < Len(queue)
  PROVE  \E b : Splits(b, IdOf[j]) /\ InsertionIndices(IdOf[j]) = {b}
<1>0. flushIndex \in Nat /\ Len(queue) \in Nat /\ flushIndex + 1 < Len(queue)
  BY LenProperties DEF TypeOK
<1> DEFINE start == flushIndex + 1
           stops == {k \in start..Len(queue) : k < Len(queue) => ~GoesRight(queue[k + 1], IdOf[j])}
<1>1. PICK b \in stops : \A k \in stops : b <= k
  <2>1. stops \in SUBSET Nat
    BY <1>0
  <2>2. Len(queue) \in stops
    BY <1>0
  <2> HIDE DEF stops
  <2> QED
    BY <2>1, <2>2, LeastNumber
<1>2. b \in Nat /\ start <= b /\ b <= Len(queue)
  BY <1>0
<1>3. ASSUME NEW k \in start..(Len(queue) - 1), k < b
      PROVE  GoesRight(queue[k + 1], IdOf[j])
  <2>1. k \notin stops
    <3> HIDE DEF stops
    <3> QED
      BY <1>0, <1>1, <1>2, <1>3
  <2> QED
    BY <1>0, <2>1
<1>4. ASSUME NEW k \in start..(Len(queue) - 1), k >= b
      PROVE  ~GoesRight(queue[k + 1], IdOf[j])
  <2>1. ~GoesRight(queue[b + 1], IdOf[j])
    BY <1>0, <1>1, <1>2, <1>4
  <2>2. CASE k = b
    BY <2>1, <2>2
  <2>3. CASE k > b
    <3>1. /\ b + 1 \in (flushIndex + 1 + 1)..Len(queue)
          /\ k + 1 \in (flushIndex + 1 + 1)..Len(queue)
          /\ b + 1 < k + 1
      BY <1>0, <1>2, <2>3
    <3>2. ~Precedes(queue[k + 1], queue[b + 1])
      BY <3>1 DEF SearchedSorted, SortedAfter
    <3>3. queue[k + 1] \in Jobs /\ queue[b + 1] \in Jobs
      <4>1. k + 1 \in 1..Len(queue) /\ b + 1 \in 1..Len(queue)
        BY <1>0, <3>1
      <4> QED
        BY <4>1, ElementOfSeq DEF TypeOK
    <3> QED
      BY <2>1, <3>2, <3>3, RightFirst
  <2> QED
    BY <1>0, <1>2, <1>4, <2>2, <2>3
<1> HIDE DEF stops
<1>5. Splits(b, IdOf[j])
  <2>1. \A k \in (flushIndex + 1)..(Len(queue) - 1) : k \in Nat
    BY <1>0
  <2> QED
    BY <1>2, <1>3, <1>4, <2>1 DEF Splits
<1>6. InsertionIndices(IdOf[j]) = {b}
  <2>1. InsertionIndices(IdOf[j]) =
          {k \in start..Len(queue) : /\ k > start => GoesRight(queue[k], IdOf[j])
                                     /\ k < Len(queue) => ~GoesRight(queue[k + 1], IdOf[j])}
    BY <1>0 DEF InsertionIndices
  <2>2. b \in InsertionIndices(IdOf[j])
    <3>1. b > start => GoesRight(queue[b], IdOf[j])
      <4> SUFFICES ASSUME b > start PROVE GoesRight(queue[b], IdOf[j])
        OBVIOUS
      <4>1. b - 1 \in start..(Len(queue) - 1) /\ b - 1 < b /\ (b - 1) + 1 = b
        BY <1>0, <1>2
      <4> QED
        BY <1>3, <4>1
    <3>2. b < Len(queue) => ~GoesRight(queue[b + 1], IdOf[j])
      <4> SUFFICES ASSUME b < Len(queue) PROVE ~GoesRight(queue[b + 1], IdOf[j])
        OBVIOUS
      <4>1. b \in start..(Len(queue) - 1) /\ b >= b
        BY <1>0, <1>2
      <4> QED
        BY <1>4, <4>1
    <3>3. b \in start..Len(queue)
      BY <1>0, <1>2
    <3> QED
      BY <2>1, <3>1, <3>2, <3>3
  <2>3. ASSUME NEW k \in InsertionIndices(IdOf[j])
        PROVE  k = b
    <3>1. /\ k \in start..Len(queue) /\ k \in Nat
          /\ k > start => GoesRight(queue[k], IdOf[j])
          /\ k < Len(queue) => ~GoesRight(queue[k + 1], IdOf[j])
      BY <1>0, <2>1
    <3>2. ~(k < b)
      <4> SUFFICES ASSUME k < b PROVE FALSE
        OBVIOUS
      <4>1. k \in start..(Len(queue) - 1) /\ k < Len(queue)
        BY <1>0, <1>2, <3>1
      <4> QED
        BY <1>3, <3>1, <4>1
    <3>3. ~(k > b)
      <4> SUFFICES ASSUME k > b PROVE FALSE
        OBVIOUS
      <4>1. k - 1 \in start..(Len(queue) - 1) /\ k - 1 >= b /\ (k - 1) + 1 = k /\ k > start
        BY <1>0, <1>2, <3>1
      <4> QED
        BY <1>4, <3>1, <4>1
    <3> QED
      BY <1>2, <3>1, <3>2, <3>3
  <2> QED
    BY <2>2, <2>3
<1> QED
  BY <1>5, <1>6

\* findInsertionIndex finds the one index that keeps the queue sorted, whatever
\* was pushed, inserted or spliced out before: in each turn of its loop the part
\* of the queue it gives up is on the right side of that index.
THEOREM SearchIsExactCorrect == Spec => []SearchIsExact
<1>1. TypeOK /\ SearchedSorted => SearchIsExact
  <2> SUFFICES ASSUME TypeOK, SearchedSorted, NEW j \in Jobs, IdOf[j] # Infinity,
                      flushIndex <= Len(queue)
               PROVE  InsertionIndices(IdOf[j]) = {BinarySearch(IdOf[j])}
    BY DEF SearchIsExact
  <2>1. flushIndex \in Nat /\ Len(queue) \in Nat
    BY LenProperties DEF TypeOK
  <2>2. CASE flushIndex + 1 >= Len(queue)
    BY <2>2, SearchAtEnd
  <2>3. CASE flushIndex + 1 < Len(queue)
    BY <2>3, SearchInside, SearchFinds
  <2> QED
    BY <2>1, <2>2, <2>3
<1> QED
  BY <1>1, TypeCorrect, SearchedSortedCorrect, PTL

------------------------------------------------------------------------------
(* No post-flush callback is lost.                                          *)

\* A post-flush callback is running.
InBatch == \E k \in 2..Len(stack) : stack[k].kind = "post"

\* Where the callbacks start that flushPostFlushCbs has still to call.
BatchFrom == IF InBatch THEN postFlushIndex + 1 ELSE postFlushIndex

\* There is one loop of flushPostFlushCbs at most, and only while there is a
\* batch; all that is above it was called by a callback of the batch.
PostShape ==
  /\ \A j, k \in 1..Len(stack) : stack[j].kind = "post" /\ stack[k].kind = "post" => j = k
  /\ activePostFlushCbs # <<>> <=> \E k \in 1..Len(stack) : stack[k].kind = "post"
  /\ \A k \in 2..Len(stack) : stack[k].kind = "post" =>
       /\ stack[k - 1].kind = "user" /\ stack[k - 1].fn \in Cbs
       /\ postFlushIndex < Len(activePostFlushCbs)

LEMMA PostNames ==
  NoLostPostCb <=> \A cb \in owed \intersect Cbs :
                     \/ Includes(pendingPostFlushCbs, cb, 0)
                     \/ Includes(activePostFlushCbs, cb, BatchFrom)
BY DEF NoLostPostCb, BatchFrom, InBatch

\* Calls that are not those of flushPostFlushCbs.
LEMMA PushPost ==
  ASSUME TypeOK, PostShape, stack # <<>>, top.kind # "post",
         NEW above \in Seq(FrameSet), NEW frame \in FrameSet,
         \A k \in 1..Len(above) : above[k].kind # "post",
         frame.kind = top.kind, frame.fn = top.fn,
         stack' = Push(above, frame), UNCHANGED <<activePostFlushCbs, postFlushIndex>>
  PROVE  PostShape' /\ (InBatch' <=> InBatch)
<1> DEFINE a == Len(above)
           n == Len(stack)
<1>1. a \in Nat /\ n \in Nat \ {0} /\ top = stack[1]
  BY LenProperties, TopProperties DEF TypeOK
<1>2. /\ Len(stack') = a + n
      /\ \A k \in 1..(a + n) : stack'[k] = IF k <= a THEN above[k]
                                           ELSE IF k = a + 1 THEN frame ELSE stack[k - a]
  BY PushProperties DEF TypeOK
<1> HIDE DEF a, n
<1>3. \A k \in 1..(a + n) : stack'[k].kind = "post" =>
        k - a \in 2..n /\ stack[k - a].kind = "post" /\ k >= 2
  <2> SUFFICES ASSUME NEW k \in 1..(a + n), stack'[k].kind = "post"
               PROVE  k - a \in 2..n /\ stack[k - a].kind = "post" /\ k >= 2
    OBVIOUS
  <2>1. k > a
    BY <1>1, <1>2 DEF a
  <2>2. k # a + 1
    BY <1>1, <1>2
  <2> QED
    BY <1>1, <1>2, <2>1, <2>2
<1>4. \A k \in 1..n : stack[k].kind = "post" =>
        k + a \in 2..(a + n) /\ stack'[k + a].kind = "post" /\ k >= 2
  <2> SUFFICES ASSUME NEW k \in 1..n, stack[k].kind = "post"
               PROVE  k + a \in 2..(a + n) /\ stack'[k + a].kind = "post" /\ k >= 2
    OBVIOUS
  <2>1. k # 1
    BY <1>1
  <2>2. k + a \in 1..(a + n) /\ k + a > a + 1 /\ (k + a) - a = k
    BY <1>1, <2>1
  <2>3. stack'[k + a] = stack[k]
    BY <1>1, <1>2, <2>2
  <2> QED
    BY <1>1, <2>1, <2>3
<1>5. \A k \in 2..n : stack'[k + a - 1].kind = stack[k - 1].kind /\ stack'[k + a - 1].fn = stack[k - 1].fn
  <2> SUFFICES ASSUME NEW k \in 2..n
               PROVE  stack'[k + a - 1].kind = stack[k - 1].kind /\ stack'[k + a - 1].fn = stack[k - 1].fn
    OBVIOUS
  <2>1. stack'[k + a - 1] = IF k = 2 THEN frame ELSE stack[k - 1]
    <3>1. k + a - 1 \in 1..(a + n) /\ k + a - 1 > a /\ (k + a - 1) - a = k - 1
      BY <1>1
    <3> QED
      BY <1>1, <1>2, <3>1
  <2> QED
    BY <1>1, <2>1
<1>6. InBatch' <=> InBatch
  BY <1>1, <1>2, <1>3, <1>4 DEF InBatch, n
<1>7. \A j, k \in 1..Len(stack') : stack'[j].kind = "post" /\ stack'[k].kind = "post" => j = k
  <2> SUFFICES ASSUME NEW j \in 1..(a + n), NEW k \in 1..(a + n),
                      stack'[j].kind = "post", stack'[k].kind = "post"
               PROVE  j = k
    BY <1>2
  <2>1. j - a \in 1..n /\ k - a \in 1..n /\ stack[j - a].kind = "post" /\ stack[k - a].kind = "post"
    BY <1>1, <1>3
  <2>2. j - a = k - a
    BY <2>1 DEF PostShape, n
  <2> QED
    BY <1>1, <2>2
<1>8. activePostFlushCbs' # <<>> <=> \E k \in 1..Len(stack') : stack'[k].kind = "post"
  <2>1. (\E k \in 1..n : stack[k].kind = "post") <=> \E k \in 1..(a + n) : stack'[k].kind = "post"
    <3>1. ASSUME NEW k \in 1..n, stack[k].kind = "post"
          PROVE  \E m \in 1..(a + n) : stack'[m].kind = "post"
      BY <1>1, <1>4, <3>1
    <3>2. ASSUME NEW k \in 1..(a + n), stack'[k].kind = "post"
          PROVE  \E m \in 1..n : stack[m].kind = "post"
      BY <1>1, <1>3, <3>2
    <3> QED
      BY <3>1, <3>2
  <2> QED
    BY <1>2, <2>1 DEF PostShape, n
<1>9. \A k \in 2..Len(stack') : stack'[k].kind = "post" =>
        /\ stack'[k - 1].kind = "user" /\ stack'[k - 1].fn \in Cbs
        /\ postFlushIndex' < Len(activePostFlushCbs')
  <2> SUFFICES ASSUME NEW k \in 2..(a + n), stack'[k].kind = "post"
               PROVE  /\ stack'[k - 1].kind = "user" /\ stack'[k - 1].fn \in Cbs
                      /\ postFlushIndex < Len(activePostFlushCbs)
    BY <1>2
  <2>1. k - a \in 2..n /\ stack[k - a].kind = "post"
    BY <1>1, <1>3
  <2>2. /\ stack[(k - a) - 1].kind = "user" /\ stack[(k - a) - 1].fn \in Cbs
        /\ postFlushIndex < Len(activePostFlushCbs)
    BY <2>1 DEF PostShape, n
  <2>3. (k - a) + a - 1 = k - 1
    BY <1>1
  <2> QED
    BY <1>5, <2>1, <2>2, <2>3
<1> QED
  BY <1>6, <1>7, <1>8, <1>9 DEF PostShape

\* Frames are popped, but not the loop of flushPostFlushCbs.
LEMMA PopPost ==
  ASSUME TypeOK, PostShape, NEW n \in 1..Len(stack),
         \A k \in 1..n : stack[k].kind # "post",
         Len(stack') = Len(stack) - n,
         \A k \in 1..(Len(stack) - n) : stack'[k] = stack[k + n],
         UNCHANGED activePostFlushCbs
  PROVE  /\ InBatch' => InBatch /\ (UNCHANGED postFlushIndex => PostShape')
         /\ ~InBatch' => PostShape'
         /\ InBatch /\ ~InBatch' => n < Len(stack) /\ stack[n + 1].kind = "post"
<1>1. Len(stack) \in Nat
  BY LenProperties DEF TypeOK
<1>2. \A k \in 1..(Len(stack) - n) :
        /\ stack'[k] = stack[k + n] /\ k + n \in 2..Len(stack)
        /\ k >= 2 => stack'[k - 1] = stack[(k + n) - 1]
  <2> SUFFICES ASSUME NEW k \in 1..(Len(stack) - n)
               PROVE  /\ stack'[k] = stack[k + n] /\ k + n \in 2..Len(stack)
                      /\ k >= 2 => stack'[k - 1] = stack[(k + n) - 1]
    OBVIOUS
  <2>1. k >= 2 => k - 1 \in 1..(Len(stack) - n) /\ (k - 1) + n = (k + n) - 1
    BY <1>1
  <2> QED
    BY <1>1, <2>1
<1>3. \A k \in 1..Len(stack) : stack[k].kind = "post" =>
        k - n \in 1..(Len(stack) - n) /\ stack'[k - n] = stack[k]
  <2> SUFFICES ASSUME NEW k \in 1..Len(stack), stack[k].kind = "post"
               PROVE  k - n \in 1..(Len(stack) - n) /\ stack'[k - n] = stack[k]
    OBVIOUS
  <2>1. k > n
    BY <1>1
  <2>2. k - n \in 1..(Len(stack) - n) /\ (k - n) + n = k
    BY <1>1, <2>1
  <2> QED
    BY <1>2, <2>2
<1>4. \A j, k \in 1..Len(stack') : stack'[j].kind = "post" /\ stack'[k].kind = "post" => j = k
  <2> SUFFICES ASSUME NEW j \in 1..(Len(stack) - n), NEW k \in 1..(Len(stack) - n),
                      stack'[j].kind = "post", stack'[k].kind = "post"
               PROVE  j = k
    OBVIOUS
  <2>1. j + n \in 1..Len(stack) /\ k + n \in 1..Len(stack)
    BY <1>1
  <2>2. j + n = k + n
    BY <1>2, <2>1 DEF PostShape
  <2> QED
    BY <1>1, <2>2
<1>5. activePostFlushCbs' # <<>> <=> \E k \in 1..Len(stack') : stack'[k].kind = "post"
  <2>1. (\E k \in 1..Len(stack) : stack[k].kind = "post") <=>
          \E k \in 1..(Len(stack) - n) : stack'[k].kind = "post"
    <3>1. ASSUME NEW k \in 1..Len(stack), stack[k].kind = "post"
          PROVE  \E m \in 1..(Len(stack) - n) : stack'[m].kind = "post"
      BY <1>3, <3>1
    <3>2. ASSUME NEW k \in 1..(Len(stack) - n), stack'[k].kind = "post"
          PROVE  \E m \in 1..Len(stack) : stack[m].kind = "post"
      <4>1. k + n \in 2..Len(stack) /\ stack[k + n].kind = "post"
        BY <1>2, <3>2
      <4>2. k + n \in 1..Len(stack)
        BY <1>1, <4>1
      <4> QED
        BY <4>1, <4>2
    <3> QED
      BY <3>1, <3>2
  <2> QED
    BY <2>1 DEF PostShape
<1>6. ASSUME NEW k \in 2..(Len(stack) - n), stack'[k].kind = "post"
      PROVE  /\ stack'[k - 1].kind = "user" /\ stack'[k - 1].fn \in Cbs
             /\ postFlushIndex < Len(activePostFlushCbs) /\ InBatch
  <2>1. /\ k + n \in 2..Len(stack) /\ stack[k + n].kind = "post"
        /\ stack'[k - 1] = stack[(k + n) - 1]
    BY <1>1, <1>2, <1>6
  <2> QED
    BY <2>1 DEF PostShape, InBatch
<1>7. InBatch' <=> \E k \in 2..(Len(stack) - n) : stack'[k].kind = "post"
  BY DEF InBatch
<1>8. InBatch /\ ~InBatch' => n < Len(stack) /\ stack[n + 1].kind = "post"
  <2> SUFFICES ASSUME NEW k \in 2..Len(stack), stack[k].kind = "post", ~InBatch'
               PROVE  n < Len(stack) /\ stack[n + 1].kind = "post"
    BY DEF InBatch
  <2>1. k - n \in 1..(Len(stack) - n) /\ stack'[k - n].kind = "post"
    BY <1>3
  <2>2. k - n = 1
    BY <1>1, <1>7, <2>1
  <2> QED
    BY <1>1, <2>1, <2>2
<1>9. ~InBatch' \/ UNCHANGED postFlushIndex => PostShape'
  BY <1>4, <1>5, <1>6, <1>7 DEF PostShape
<1> QED
  BY <1>6, <1>7, <1>8, <1>9

\* Nothing is taken from the callbacks that wait but what is not owed any more.
LEMMA KeptPost ==
  ASSUME NoLostPostCb, InBatch' <=> InBatch,
         UNCHANGED <<activePostFlushCbs, postFlushIndex>>,
         \A cb \in Cbs : Includes(pendingPostFlushCbs, cb, 0) => Includes(pendingPostFlushCbs', cb, 0),
         \A cb \in owed' \intersect Cbs :
           \/ cb \in owed \/ Includes(pendingPostFlushCbs', cb, 0)
           \/ Includes(activePostFlushCbs, cb, BatchFrom)
  PROVE  NoLostPostCb'
<1>1. BatchFrom' = BatchFrom
  BY DEF BatchFrom
<1>2. \A cb \in owed' \intersect Cbs :
        \/ Includes(pendingPostFlushCbs', cb, 0)
        \/ Includes(activePostFlushCbs', cb, BatchFrom')
  BY <1>1, PostNames
<1>3. \A cb : Includes(pendingPostFlushCbs, cb, 0)' = Includes(pendingPostFlushCbs', cb, 0)
  BY DEF Includes
<1> QED
  BY <1>2 DEF NoLostPostCb, BatchFrom, InBatch, Includes

\* Taking each callback once loses none.
LEMMA DedupedKeeps ==
  ASSUME NEW s \in Seq(Cbs), NEW t \in Deduped(s)
  PROVE  \A x : Includes(s, x, 0) => Includes(t, x, 0)
<1> DEFINE firsts == {k \in DOMAIN s : \A m \in 1..(k - 1) : s[m] # s[k]}
           c == Cardinality(firsts)
<1>1. DOMAIN s = 1..Len(s) /\ Len(s) \in Nat
  BY LenProperties
<1>2. firsts \in SUBSET (1..Len(s)) /\ \A k \in firsts : k \in Nat
  BY <1>1
<1>3. IsFiniteSet(firsts) /\ c \in Nat
  <2>1. IsFiniteSet(1..Len(s))
    BY <1>1, FS_Interval
  <2> QED
    BY <1>2, <2>1, FS_Subset, FS_CardinalityType
<1>4. PICK p \in [1..c -> firsts] :
        /\ t = [n \in DOMAIN p |-> s[p[n]]]
        /\ \A m, n \in DOMAIN p : m < n => p[m] < p[n]
  BY DEF Deduped
<1>5. \A x : Includes(s, x, 0) => \E k \in firsts : s[k] = x
  <2> SUFFICES ASSUME NEW x, Includes(s, x, 0) PROVE \E k \in firsts : s[k] = x
    OBVIOUS
  <2> DEFINE places == {k \in 1..Len(s) : s[k] = x}
  <2>1. places \in SUBSET Nat /\ places # {}
    BY <1>1 DEF Includes
  <2>2. PICK k \in places : \A m \in places : k <= m
    <3> HIDE DEF places
    <3> QED
      BY <2>1, LeastNumber
  <2>3. \A m \in 1..(k - 1) : s[m] # s[k]
    <3> SUFFICES ASSUME NEW m \in 1..(k - 1), s[m] = s[k] PROVE FALSE
      OBVIOUS
    <3>1. m \in places /\ m < k
      BY <1>1, <2>2
    <3>2. k <= m
      BY <2>2, <3>1
    <3> QED
      BY <1>1, <2>2, <3>1, <3>2
  <2> QED
    BY <1>1, <2>2, <2>3
<1> HIDE DEF firsts
<1>6. p \in Surjection(1..c, firsts)
  <2>1. \A m, n \in 1..c : p[m] = p[n] => m = n
    <3> SUFFICES ASSUME NEW m \in 1..c, NEW n \in 1..c, p[m] = p[n] PROVE m = n
      OBVIOUS
    <3>1. p[m] \in firsts /\ p[n] \in firsts
      BY <1>4
    <3>2. p[m] \in Nat /\ p[n] \in Nat
      BY <1>2, <3>1
    <3>3. ~(m < n) /\ ~(n < m)
      BY <1>3, <1>4, <3>2
    <3> QED
      BY <1>3, <3>3
  <2>2. p \in Injection(1..c, firsts)
    BY <1>4, <2>1 DEF Injection, IsInjective
  <2>3. Cardinality(1..c) = c
    BY <1>3, FS_Interval
  <2> HIDE DEF c
  <2>4. Cardinality(1..c) = Cardinality(firsts)
    BY <2>3 DEF c
  <2> QED
    BY <1>3, <2>2, <2>4, FS_Injection
<1>7. Len(t) = c /\ \A n \in 1..c : t[n] = s[p[n]]
  <2>1. DOMAIN t = 1..c
    BY <1>4
  <2>2. t \in Seq(Cbs)
    BY DedupedType
  <2>3. DOMAIN t = 1..Len(t) /\ Len(t) \in Nat
    BY <2>2, LenProperties
  <2> HIDE DEF c
  <2>4. Len(t) = c
    BY <1>3, <2>1, <2>3
  <2> QED
    BY <1>4, <2>4
<1>8. \A k \in firsts : \E n \in 1..c : p[n] = k
  BY <1>6 DEF Surjection
<1> SUFFICES ASSUME NEW x, Includes(s, x, 0) PROVE Includes(t, x, 0)
  OBVIOUS
<1>9. PICK k \in firsts : s[k] = x
  BY <1>5
<1>10. PICK n \in 1..c : p[n] = k
  BY <1>8
<1>11. t[n] = x /\ n \in (0 + 1)..Len(t)
  BY <1>3, <1>7, <1>9, <1>10
<1> QED
  BY <1>11 DEF Includes

\* Nor does sorting them.
LEMMA SortedByIdKeeps ==
  ASSUME NEW s \in Seq(Cbs), NEW t \in StableSorts(s, IdPrecedes)
  PROVE  \A x : Includes(s, x, 0) => Includes(t, x, 0)
<1>1. DOMAIN s = 1..Len(s) /\ Len(s) \in Nat
  BY LenProperties
<1>2. PICK p \in Bijection(1..Len(s), 1..Len(s)) : t = [k \in 1..Len(s) |-> s[p[k]]]
  BY <1>1 DEF StableSorts
<1>3. Len(t) = Len(s)
  BY SortedByIdType
<1>4. \A k \in 1..Len(s) : \E n \in 1..Len(s) : p[n] = k
  BY DEF Bijection, Surjection
<1> SUFFICES ASSUME NEW x, Includes(s, x, 0) PROVE Includes(t, x, 0)
  OBVIOUS
<1>5. PICK k \in 1..Len(s) : s[k] = x
  BY <1>1 DEF Includes
<1>6. PICK n \in 1..Len(s) : p[n] = k
  BY <1>4
<1>7. t[n] = x /\ n \in (0 + 1)..Len(t)
  BY <1>1, <1>2, <1>3, <1>5, <1>6
<1> QED
  BY <1>7 DEF Includes

LEMMA AppendedIncludes ==
  ASSUME NEW s \in Seq(Cbs), NEW t \in Seq(Cbs)
  PROVE  /\ Len(s \o t) = Len(s) + Len(t) /\ Len(s) \in Nat
         /\ \A x : \A n \in Nat : Includes(s, x, n) => Includes(s \o t, x, n)
         /\ \A x : \A n \in Nat : n <= Len(s) /\ Includes(t, x, 0) => Includes(s \o t, x, n)
<1>1. /\ Len(s \o t) = Len(s) + Len(t) /\ Len(s) \in Nat /\ Len(t) \in Nat
      /\ \A k \in 1..(Len(s) + Len(t)) : (s \o t)[k] = IF k <= Len(s) THEN s[k] ELSE t[k - Len(s)]
  BY ConcatProperties, LenProperties
<1>2. ASSUME NEW x, NEW n \in Nat, Includes(s, x, n) PROVE Includes(s \o t, x, n)
  <2>1. PICK k \in (n + 1)..Len(s) : s[k] = x
    BY <1>2 DEF Includes
  <2>2. k \in (n + 1)..Len(s \o t) /\ (s \o t)[k] = x
    BY <1>1, <2>1
  <2> QED
    BY <2>2 DEF Includes
<1>3. ASSUME NEW x, NEW n \in Nat, n <= Len(s), Includes(t, x, 0) PROVE Includes(s \o t, x, n)
  <2>1. PICK k \in 1..Len(t) : t[k] = x
    BY <1>3 DEF Includes
  <2>2. /\ Len(s) + k \in (n + 1)..Len(s \o t) /\ Len(s) + k \in 1..(Len(s) + Len(t))
        /\ ~(Len(s) + k <= Len(s)) /\ (Len(s) + k) - Len(s) = k
    BY <1>1, <1>3, <2>1
  <2>3. (s \o t)[Len(s) + k] = x
    BY <1>1, <2>1, <2>2
  <2> QED
    BY <2>2, <2>3 DEF Includes
<1> QED
  BY <1>1, <1>2, <1>3

\* flushPostFlushCbs takes what waits as its batch ...
LEMMA NewBatch ==
  ASSUME TypeOK, PostShape, NoLostPostCb, activePostFlushCbs = <<>>,
         NEW under \in Seq(FrameSet), \A k \in 1..Len(under) : under[k].kind # "post",
         NEW seen \in [Fns -> Nat], flushPostFlushCbs(under, seen), UNCHANGED owed
  PROVE  PostShape' /\ NoLostPostCb'
<1>1. \A cb \in owed \intersect Cbs : Includes(pendingPostFlushCbs, cb, 0)
  <2>1. \A x : ~Includes(<<>>, x, BatchFrom)
    <3>1. Len(<<>>) = 0 /\ BatchFrom \in Nat
      BY EmptySeq DEF BatchFrom, TypeOK
    <3> QED
      BY <3>1 DEF Includes
  <2> QED
    BY <2>1, PostNames
<1>2. CASE pendingPostFlushCbs = <<>>
  <2>1. UNCHANGED postVars /\ stack' = under
    BY <1>2 DEF flushPostFlushCbs
  <2>2. owed' \intersect Cbs = {}
    <3>1. Len(<<>>) = 0
      BY EmptySeq
    <3>2. \A x : ~Includes(<<>>, x, 0)
      BY <3>1 DEF Includes
    <3> QED
      BY <1>1, <1>2, <3>2
  <2>3. PostShape'
    <3>1. Len(under) \in Nat
      BY LenProperties
    <3>2. \A k \in 1..Len(stack') : stack'[k].kind # "post"
      BY <2>1
    <3>3. activePostFlushCbs' = <<>>
      BY <2>1 DEF postVars
    <3>4. \A k \in 2..Len(stack') : k \in 1..Len(stack')
      BY <2>1, <3>1
    <3> QED
      BY <3>2, <3>3, <3>4 DEF PostShape
  <2> QED
    BY <2>2, <2>3 DEF NoLostPostCb
<1>3. CASE pendingPostFlushCbs # <<>>
  <2>1. PICK deduped \in Deduped(pendingPostFlushCbs) :
          /\ activePostFlushCbs' \in StableSorts(deduped, IdPrecedes)
          /\ stack' = <<PostFrame(seen)>> \o under
          /\ postFlushIndex' = 0
    BY <1>3 DEF flushPostFlushCbs
  <2>2. \A x : Includes(pendingPostFlushCbs, x, 0) => Includes(activePostFlushCbs', x, 0)
    <3>1. pendingPostFlushCbs \in Seq(Cbs) /\ deduped \in Seq(Cbs)
      BY DedupedType DEF TypeOK
    <3>2. \A x : Includes(pendingPostFlushCbs, x, 0) => Includes(deduped, x, 0)
      BY <3>1, DedupedKeeps
    <3>3. \A x : Includes(deduped, x, 0) => Includes(activePostFlushCbs', x, 0)
      BY <2>1, <3>1, SortedByIdKeeps
    <3> QED
      BY <3>2, <3>3
  <2>3. activePostFlushCbs' # <<>>
    <3>1. pendingPostFlushCbs \in Seq(Cbs) /\ Len(pendingPostFlushCbs) \in Nat \ {0}
      BY <1>3, EmptySeq, LenProperties DEF TypeOK
    <3>2. 1 \in (0 + 1)..Len(pendingPostFlushCbs)
      BY <3>1
    <3>3. Includes(pendingPostFlushCbs, pendingPostFlushCbs[1], 0)
      BY <3>2 DEF Includes
    <3>4. Includes(activePostFlushCbs', pendingPostFlushCbs[1], 0)
      BY <2>2, <3>3
    <3>5. Len(<<>>) = 0
      BY EmptySeq
    <3>6. \A x : ~Includes(<<>>, x, 0)
      BY <3>5 DEF Includes
    <3> QED
      BY <3>4, <3>6
  <2>4. /\ Len(stack') = Len(under) + 1 /\ Len(under) \in Nat
        /\ stack'[1].kind = "post"
        /\ \A k \in 2..Len(stack') : stack'[k].kind # "post"
    <3>1. PostFrame(seen) \in FrameSet /\ PostFrame(seen).kind = "post"
      BY FrameTypes, FrameKinds
    <3>2. <<PostFrame(seen)>> \in Seq(FrameSet) /\ Len(<<PostFrame(seen)>>) = 1
          /\ <<PostFrame(seen)>>[1] = PostFrame(seen)
      BY <3>1, OneFrame
    <3> DEFINE one == <<PostFrame(seen)>>
    <3>3. one \in Seq(FrameSet) /\ Len(one) = 1 /\ one[1].kind = "post" /\ stack' = one \o under
      BY <2>1, <3>1, <3>2
    <3> HIDE DEF one
    <3>4. Len(under) \in Nat
      BY LenProperties
    <3>5. /\ Len(stack') = 1 + Len(under)
          /\ \A k \in 1..(1 + Len(under)) : stack'[k] = IF k <= 1 THEN one[k] ELSE under[k - 1]
      <4>1. /\ Len(one \o under) = Len(one) + Len(under)
            /\ \A k \in 1..(Len(one) + Len(under)) :
                 (one \o under)[k] = IF k <= Len(one) THEN one[k] ELSE under[k - Len(one)]
        BY <3>3, ConcatProperties
      <4> QED BY <3>3, <4>1
    <3>6. \A k \in 2..(1 + Len(under)) : stack'[k] = under[k - 1] /\ k - 1 \in 1..Len(under)
      BY <3>4, <3>5
    <3>7. 1 \in 1..(1 + Len(under))
      BY <3>4
    <3> QED
      BY <3>3, <3>4, <3>5, <3>6, <3>7
  <2>5. PostShape'
    <3>1. \A k \in 1..Len(stack') : stack'[k].kind = "post" => k = 1
      BY <2>4
    <3>2. 1 \in 1..Len(stack')
      BY <2>4
    <3> QED
      BY <2>3, <2>4, <3>1, <3>2 DEF PostShape
  <2>6. NoLostPostCb'
    <3>1. ~\E k \in 2..Len(stack') : stack'[k].kind = "post"
      BY <2>4
    <3>2. \A cb \in owed' \intersect Cbs : Includes(activePostFlushCbs', cb, postFlushIndex')
      BY <1>1, <2>1, <2>2
    <3> QED
      BY <3>1, <3>2 DEF NoLostPostCb, Includes
  <2> QED
    BY <2>5, <2>6
<1> QED
  BY <1>2, <1>3

\* ... or, when it runs already, adds it to its batch.
LEMMA ExtendedBatch ==
  ASSUME TypeOK, PostShape, NoLostPostCb, activePostFlushCbs # <<>>,
         NEW under \in Seq(FrameSet),
         Len(under) = Len(stack) - 1, \A k \in 1..(Len(stack) - 1) : under[k] = stack[k + 1],
         stack # <<>>, top.kind = "render",
         NEW seen \in [Fns -> Nat], flushPostFlushCbs(under, seen), UNCHANGED owed
  PROVE  PostShape' /\ NoLostPostCb'
<1>1. Len(stack) \in Nat \ {0} /\ stack[1].kind = "render"
  BY TopProperties DEF TypeOK
<1>2. stack' = under /\ UNCHANGED postFlushIndex /\ postFlushIndex \in Nat
  BY DEF flushPostFlushCbs, TypeOK, postVars
<1>3. PICK k \in 3..Len(stack) : stack[k].kind = "post"
  <2>1. PICK k \in 1..Len(stack) : stack[k].kind = "post"
    BY DEF PostShape
  <2>2. k # 1
    BY <1>1, <2>1
  <2>3. stack[k - 1].kind = "user"
    BY <1>1, <2>1, <2>2 DEF PostShape
  <2>4. k # 2
    BY <1>1, <2>3
  <2> QED
    BY <1>1, <2>1, <2>2, <2>4
<1>4. \A j \in 1..Len(stack') : j + 1 \in 2..Len(stack) /\ stack'[j] = stack[j + 1]
  BY <1>1, <1>2
<1>5. k - 1 \in 2..Len(stack') /\ stack'[k - 1].kind = "post"
  BY <1>1, <1>2, <1>3, <1>4
<1>6. postFlushIndex < Len(activePostFlushCbs)
  BY <1>1, <1>3 DEF PostShape
<1>7. /\ activePostFlushCbs' # <<>> /\ postFlushIndex < Len(activePostFlushCbs')
      /\ \A x : Includes(activePostFlushCbs, x, postFlushIndex + 1)
                  => Includes(activePostFlushCbs', x, postFlushIndex + 1)
      /\ \A x : Includes(pendingPostFlushCbs, x, 0)
                  => \/ Includes(activePostFlushCbs', x, postFlushIndex + 1)
                     \/ Includes(pendingPostFlushCbs', x, 0)
  <2>1. CASE pendingPostFlushCbs = <<>>
    BY <1>6, <2>1 DEF flushPostFlushCbs, postVars, Includes
  <2>2. CASE pendingPostFlushCbs # <<>>
    <3>1. PICK deduped \in Deduped(pendingPostFlushCbs) :
            activePostFlushCbs' = activePostFlushCbs \o deduped
      BY <2>2 DEF flushPostFlushCbs
    <3>2. deduped \in Seq(Cbs) /\ activePostFlushCbs \in Seq(Cbs) /\ pendingPostFlushCbs \in Seq(Cbs)
      BY DedupedType DEF TypeOK
    <3>3. Len(activePostFlushCbs') = Len(activePostFlushCbs) + Len(deduped)
          /\ Len(activePostFlushCbs) \in Nat /\ Len(deduped) \in Nat
      BY <3>1, <3>2, AppendedIncludes, LenProperties
    <3>4. postFlushIndex + 1 \in Nat /\ postFlushIndex + 1 <= Len(activePostFlushCbs)
      BY <1>2, <1>6, <3>3
    <3>5. \A x : Includes(activePostFlushCbs, x, postFlushIndex + 1)
                   => Includes(activePostFlushCbs', x, postFlushIndex + 1)
      BY <3>1, <3>2, <3>4, AppendedIncludes
    <3>6. \A x : Includes(deduped, x, 0) => Includes(activePostFlushCbs', x, postFlushIndex + 1)
      BY <3>1, <3>2, <3>4, AppendedIncludes
    <3>7. \A x : Includes(pendingPostFlushCbs, x, 0) => Includes(deduped, x, 0)
      BY <3>2, DedupedKeeps
    <3>8. activePostFlushCbs' # <<>>
      BY <1>2, <1>6, <3>3, EmptySeq
    <3> QED
      BY <1>2, <1>6, <3>3, <3>5, <3>6, <3>7, <3>8
  <2> QED
    BY <2>1, <2>2
<1>8. PostShape'
  <2>1. ASSUME NEW m \in 1..Len(stack'), NEW n \in 1..Len(stack'),
               stack'[m].kind = "post", stack'[n].kind = "post"
        PROVE  m = n
    <3>1. m + 1 \in 1..Len(stack) /\ n + 1 \in 1..Len(stack)
          /\ stack[m + 1].kind = "post" /\ stack[n + 1].kind = "post"
      BY <1>1, <1>4, <2>1
    <3>2. m + 1 = n + 1
      BY <3>1 DEF PostShape
    <3> QED
      BY <1>1, <1>2, <3>2
  <2>2. ASSUME NEW m \in 2..Len(stack'), stack'[m].kind = "post"
        PROVE  stack'[m - 1].kind = "user" /\ stack'[m - 1].fn \in Cbs
    <3>1. /\ m \in 1..Len(stack') /\ m - 1 \in 1..Len(stack') /\ (m - 1) + 1 = m /\ (m + 1) - 1 = m
      BY <1>1, <1>2
    <3>2. m + 1 \in 2..Len(stack) /\ stack[m + 1].kind = "post" /\ stack'[m - 1] = stack[m]
      BY <1>4, <2>2, <3>1
    <3> QED
      BY <3>1, <3>2 DEF PostShape
  <2>3. k - 1 \in 1..Len(stack')
    BY <1>1, <1>5
  <2> QED
    BY <1>2, <1>5, <1>7, <2>1, <2>2, <2>3 DEF PostShape
<1>9. NoLostPostCb'
  <2>1. InBatch
    BY <1>1, <1>3 DEF InBatch
  <2>2. \A cb \in owed' \intersect Cbs :
          \/ Includes(pendingPostFlushCbs', cb, 0)
          \/ Includes(activePostFlushCbs', cb, postFlushIndex' + 1)
    BY <1>2, <1>7, <2>1, PostNames DEF BatchFrom
  <2> QED
    BY <1>5, <2>2 DEF NoLostPostCb, Includes
<1> QED
  BY <1>8, <1>9

\* While flushPostFlushCbs does not run.
LEMMA NoBatch ==
  ASSUME TypeOK, TypeOK', PostShape, NoLostPostCb, activePostFlushCbs = <<>>,
         \A k \in 1..Len(stack') : stack'[k].kind # "post",
         UNCHANGED postVars, owed' \intersect Cbs \subseteq owed
  PROVE  PostShape' /\ NoLostPostCb'
<1>1. activePostFlushCbs' = <<>> /\ UNCHANGED pendingPostFlushCbs
  BY DEF postVars
<1>2. \A k \in 2..Len(stack') : k \in 1..Len(stack')
  BY LenProperties DEF TypeOK
<1>3. PostShape'
  BY <1>1, <1>2 DEF PostShape
<1>4. \A cb \in owed \intersect Cbs : Includes(pendingPostFlushCbs, cb, 0)
  <2>1. Len(<<>>) = 0 /\ BatchFrom \in Nat
    BY EmptySeq DEF BatchFrom, TypeOK
  <2>2. \A x : ~Includes(<<>>, x, BatchFrom)
    BY <2>1 DEF Includes
  <2> QED
    BY <2>2, PostNames
<1>5. NoLostPostCb'
  BY <1>1, <1>4 DEF NoLostPostCb, Includes
<1> QED
  BY <1>3, <1>5

\* Counting a call or a turn leaves a frame what it is.
LEMMA EditedFrames ==
  \A frame \in FrameSet :
    /\ LET f == [frame EXCEPT !.ops = @ + 1]
       IN  f \in FrameSet /\ f.kind = frame.kind /\ f.fn = frame.fn
    /\ \A i \in Nat : LET f == [frame EXCEPT !.i = i]
                      IN  f \in FrameSet /\ f.kind = frame.kind /\ f.fn = frame.fn
    /\ \A seen \in [Fns -> Nat] : LET f == [frame EXCEPT !.seen = seen]
                                  IN  f \in FrameSet /\ f.kind = frame.kind /\ f.fn = frame.fn
<1> SUFFICES ASSUME NEW frame \in FrameSet
             PROVE  /\ LET f == [frame EXCEPT !.ops = @ + 1]
                       IN  f \in FrameSet /\ f.kind = frame.kind /\ f.fn = frame.fn
                    /\ \A i \in Nat : LET f == [frame EXCEPT !.i = i]
                                      IN  f \in FrameSet /\ f.kind = frame.kind /\ f.fn = frame.fn
                    /\ \A seen \in [Fns -> Nat] :
                         LET f == [frame EXCEPT !.seen = seen]
                         IN  f \in FrameSet /\ f.kind = frame.kind /\ f.fn = frame.fn
  OBVIOUS
<1>1. [frame EXCEPT !.ops = @ + 1] \in FrameSet
  BY DEF FrameSet
<1>2. \A i \in Nat : [frame EXCEPT !.i = i] \in FrameSet
  BY DEF FrameSet
<1>3. \A seen \in [Fns -> Nat] : [frame EXCEPT !.seen = seen] \in FrameSet
  BY DEF FrameSet
<1>4. LET f == [frame EXCEPT !.ops = @ + 1] IN f.kind = frame.kind /\ f.fn = frame.fn
  BY DEF FrameSet
<1>5. \A i : LET f == [frame EXCEPT !.i = i] IN f.kind = frame.kind /\ f.fn = frame.fn
  BY DEF FrameSet
<1>6. \A seen : LET f == [frame EXCEPT !.seen = seen] IN f.kind = frame.kind /\ f.fn = frame.fn
  BY DEF FrameSet
<1> QED
  BY <1>1, <1>2, <1>3, <1>4, <1>5, <1>6

LEMMA NoBatchOutside ==
  ASSUME TypeOK, Shape, PostShape, stack = <<>> \/ Running("flush")
  PROVE  activePostFlushCbs = <<>>
<1>1. CASE stack = <<>>
  BY <1>1, EmptySeq DEF PostShape
<1>2. CASE Running("flush")
  <2>1. Len(stack) = 1 /\ stack[1].kind = "flush"
    BY <1>2, FlushOnTop DEF Running
  <2> QED
    BY <2>1 DEF PostShape
<1> QED
  BY <1>1, <1>2

\* User code calls the scheduler.
LEMMA CallingPost ==
  ASSUME TypeOK, PostShape, Running("user"), NEW above \in Seq(FrameSet),
         \A k \in 1..Len(above) : above[k].kind # "post",
         stack' = Calling(above), UNCHANGED <<activePostFlushCbs, postFlushIndex>>
  PROVE  PostShape' /\ (InBatch' <=> InBatch)
<1>1. stack # <<>> /\ top \in FrameSet /\ top.kind = "user"
  BY TopProperties DEF TypeOK, Running
<1>2. LET frame == [top EXCEPT !.ops = @ + 1]
      IN  frame \in FrameSet /\ frame.kind = top.kind /\ frame.fn = top.fn
  BY <1>1, EditedFrames
<1> QED
  BY <1>1, <1>2, PushPost DEF Calling

\* A component is updated at once.
LEMMA PatchPost ==
  ASSUME TypeOK, PostShape, NoLostPostCb, Running("user"), NEW c \in Updates,
         NEW below \in Seq(FrameSet), below = <<>> \/ below = <<RenderFrame>>, Patch(c, below)
  PROVE  PostShape' /\ NoLostPostCb'
<1> DEFINE pre == PreFrame(IdOf[c])
           upd == UserFrame(c)
           above == <<pre, upd>> \o below
<1>1. pre \in FrameSet /\ upd \in FrameSet /\ pre.kind = "pre" /\ upd.kind = "user"
  <2>1. IdOf[c] \in -1..Infinity /\ c \in Fns
    BY IdAssumption DEF Jobs, Fns
  <2> QED
    BY <2>1, FrameTypes, FrameKinds DEF TypeOK
<1>2. \A k \in 1..Len(below) : below[k].kind # "post"
  <2>1. RenderFrame \in FrameSet /\ RenderFrame.kind = "render"
    BY FrameTypes, FrameKinds
  <2>2. Len(<<RenderFrame>>) = 1 /\ <<RenderFrame>>[1] = RenderFrame
    BY <2>1, OneFrame
  <2> QED
    BY <2>1, <2>2, EmptySeq
<1>3. above \in Seq(FrameSet) /\ \A k \in 1..Len(above) : above[k].kind # "post"
  <2> DEFINE two == <<pre, upd>>
  <2>1. two \in Seq(FrameSet) /\ Len(two) = 2 /\ two[1] = pre /\ two[2] = upd
    BY <1>1
  <2> HIDE DEF two, pre, upd
  <2>2. Len(below) \in Nat
    BY LenProperties
  <2>3. /\ two \o below \in Seq(FrameSet) /\ Len(two \o below) = 2 + Len(below)
        /\ \A k \in 1..(2 + Len(below)) : (two \o below)[k] = IF k <= 2 THEN two[k] ELSE below[k - 2]
    <3>1. /\ two \o below \in Seq(FrameSet) /\ Len(two \o below) = Len(two) + Len(below)
          /\ \A k \in 1..(Len(two) + Len(below)) :
               (two \o below)[k] = IF k <= Len(two) THEN two[k] ELSE below[k - Len(two)]
      BY <2>1, ConcatProperties
    <3> QED
      BY <2>1, <3>1
  <2>4. ASSUME NEW k \in 1..(2 + Len(below)) PROVE (two \o below)[k].kind # "post"
    <3>1. CASE k <= 2
      <4>1. (two \o below)[k] = two[k] /\ k \in {1, 2}
        BY <2>2, <2>3, <3>1
      <4>2. two[1].kind # "post" /\ two[2].kind # "post"
        BY <1>1, <2>1
      <4> QED
        BY <4>1, <4>2
    <3>2. CASE k > 2
      <4>1. k - 2 \in 1..Len(below) /\ (two \o below)[k] = below[k - 2]
        BY <2>2, <2>3, <3>2
      <4> QED
        BY <1>2, <4>1
    <3>3. k <= 2 \/ k > 2
      BY <2>2
    <3> QED
      BY ONLY <3>1, <3>2, <3>3
  <2> QED
    BY <2>3, <2>4 DEF two
<1>4. stack' = Calling(above) /\ UNCHANGED postVars /\ owed' = owed \ {c}
  BY DEF Patch
<1> HIDE DEF above
<1>5. PostShape' /\ (InBatch' <=> InBatch)
  BY <1>3, <1>4, CallingPost DEF postVars
<1>6. NoLostPostCb'
  BY <1>4, <1>5, KeptPost DEF postVars
<1> QED
  BY <1>5, <1>6

\* A function ends, normally or not: no loop of flushPostFlushCbs is abandoned.
LEMMA EndPost ==
  ASSUME TypeOK, PostShape, NoLostPostCb, NEW n \in 1..Len(stack), EndFunction(n),
         \A k \in 1..n : stack[k].kind # "post"
  PROVE  PostShape' /\ NoLostPostCb'
<1> DEFINE below == SubSeq(stack, n + 1, Len(stack))
           loops == below # <<>> /\ Head(below).kind = "post"
<1>1. /\ stack' = below /\ UNCHANGED <<pendingPostFlushCbs, activePostFlushCbs, owed>>
      /\ postFlushIndex' = IF loops THEN postFlushIndex + 1 ELSE postFlushIndex
  BY DEF EndFunction
<1>2. /\ below \in Seq(FrameSet) /\ Len(below) = Len(stack) - n /\ Len(stack) \in Nat
      /\ \A k \in 1..(Len(stack) - n) : below[k] = stack[k + n]
  BY PopProperties, LenProperties DEF TypeOK
<1> HIDE DEF below
<1>3. /\ InBatch' => InBatch /\ (UNCHANGED postFlushIndex => PostShape')
      /\ ~InBatch' => PostShape'
      /\ InBatch /\ ~InBatch' => n < Len(stack) /\ stack[n + 1].kind = "post"
  BY <1>1, <1>2, PopPost
<1>4. loops <=> n < Len(stack) /\ stack[n + 1].kind = "post"
  <2>1. below # <<>> <=> n < Len(stack)
    BY <1>2, EmptySeq
  <2>2. n < Len(stack) => Head(below) = stack[n + 1]
    BY <1>2, <2>1
  <2> QED
    BY <2>1, <2>2
<1> HIDE DEF loops
<1>5. BatchFrom' = BatchFrom /\ PostShape'
  <2>1. CASE loops
    <3>1. n + 1 \in 2..Len(stack) /\ stack[n + 1].kind = "post"
      BY <1>2, <1>4, <2>1
    <3>2. InBatch
      BY <3>1 DEF InBatch
    <3>3. ~InBatch'
      <4> SUFFICES ASSUME NEW k \in 2..Len(stack'), stack'[k].kind = "post" PROVE FALSE
        BY DEF InBatch
      <4>1. k + n \in 1..Len(stack) /\ stack[k + n].kind = "post" /\ n + 1 \in 1..Len(stack)
        BY <1>1, <1>2, <3>1
      <4>2. k + n = n + 1
        BY <3>1, <4>1 DEF PostShape
      <4> QED
        BY <1>2, <4>2
    <3> QED
      BY <1>1, <1>3, <2>1, <3>2, <3>3 DEF BatchFrom
  <2>2. CASE ~loops
    BY <1>1, <1>3, <1>4, <2>2 DEF BatchFrom
  <2> QED
    BY <2>1, <2>2
<1>6. \A cb \in owed' \intersect Cbs :
        \/ Includes(pendingPostFlushCbs', cb, 0)
        \/ Includes(activePostFlushCbs', cb, BatchFrom')
  BY <1>1, <1>5, PostNames
<1>7. NoLostPostCb'
  BY <1>6 DEF NoLostPostCb, BatchFrom, InBatch, Includes
<1> QED
  BY <1>5, <1>7

\* A callback that a run of flushPostFlushCbs comes to is called or, in a
\* development build that has called it too often, given up.
LEMMA PostCbPost ==
  ASSUME TypeOK, PostShape, NoLostPostCb, FlushPostCb
  PROVE  PostShape' /\ NoLostPostCb'
<1> DEFINE cb == activePostFlushCbs[postFlushIndex + 1]
           frame == [top EXCEPT !.seen = Counted(@, cb)]
           run == ~OverLimit(top.seen, cb)
<1>1. /\ stack # <<>> /\ top \in FrameSet /\ top = stack[1] /\ top.kind = "post"
      /\ Len(stack) \in Nat \ {0} /\ stack \in Seq(FrameSet)
  BY TopProperties DEF FlushPostCb, Running, TypeOK
<1>2. /\ activePostFlushCbs \in Seq(Cbs) /\ postFlushIndex \in Nat /\ Len(activePostFlushCbs) \in Nat
      /\ postFlushIndex < Len(activePostFlushCbs) /\ cb \in Cbs
  BY LenProperties, ElementOfSeq DEF FlushPostCb, TypeOK
<1>3. /\ owed' = owed \ {cb} /\ UNCHANGED <<pendingPostFlushCbs, activePostFlushCbs>>
      /\ IF run THEN stack' = Push(<<UserFrame(cb)>>, frame) /\ UNCHANGED postFlushIndex
                ELSE stack' = stack /\ postFlushIndex' = postFlushIndex + 1
  BY DEF FlushPostCb
<1>4. \A k \in 2..Len(stack) : stack[k].kind # "post"
  BY <1>1 DEF PostShape
<1>5. BatchFrom = postFlushIndex
  BY <1>4 DEF BatchFrom, InBatch
<1>6. \A x : x # cb /\ Includes(activePostFlushCbs, x, postFlushIndex)
               => Includes(activePostFlushCbs, x, postFlushIndex + 1)
  BY <1>2 DEF Includes
<1>7. PostShape' /\ BatchFrom' = postFlushIndex + 1
  <2>1. CASE ~run
    <3>1. stack' = stack /\ postFlushIndex' = postFlushIndex + 1 /\ UNCHANGED activePostFlushCbs
      BY <1>3, <2>1
    <3> QED
      BY <1>4, <3>1 DEF PostShape, BatchFrom, InBatch
  <2>2. CASE run
    <3>1. /\ UserFrame(cb) \in FrameSet /\ UserFrame(cb).kind = "user" /\ UserFrame(cb).fn = cb
      BY <1>2, FrameTypes, FrameKinds DEF Fns, UserFrame, Frame
    <3>2. frame \in FrameSet /\ frame.kind = "post"
      BY <1>1, <1>2, FrameTypes DEF FrameSet, Fns
    <3>3. <<UserFrame(cb)>> \in Seq(FrameSet) /\ Len(<<UserFrame(cb)>>) = 1
          /\ <<UserFrame(cb)>>[1] = UserFrame(cb)
      BY <3>1, OneFrame
    <3>4. stack' = Push(<<UserFrame(cb)>>, frame)
      BY <1>3, <2>2
    <3> DEFINE user == <<UserFrame(cb)>>
    <3>5. user \in Seq(FrameSet) /\ Len(user) = 1 /\ user[1].kind = "user" /\ user[1].fn = cb
          /\ stack' = Push(user, frame)
      BY <3>1, <3>3, <3>4
    <3> HIDE DEF user, frame, cb
    <3>6. /\ Len(stack') = 1 + Len(stack)
          /\ \A k \in 1..(1 + Len(stack)) : stack'[k] =
               IF k <= 1 THEN user[k] ELSE IF k = 2 THEN frame ELSE stack[k - 1]
      <4>1. /\ Len(stack') = Len(user) + Len(stack)
            /\ \A k \in 1..(Len(user) + Len(stack)) : stack'[k] =
                 IF k <= Len(user) THEN user[k]
                 ELSE IF k = Len(user) + 1 THEN frame ELSE stack[k - Len(user)]
        BY <1>1, <3>2, <3>5, PushProperties
      <4> QED
        BY <3>5, <4>1
    <3>7. \A k \in 1..Len(stack') : stack'[k].kind = "post" <=> k = 2
      <4> SUFFICES ASSUME NEW k \in 1..(1 + Len(stack)) PROVE stack'[k].kind = "post" <=> k = 2
        BY <3>6
      <4>1. CASE k = 1
        BY <3>5, <3>6, <4>1
      <4>2. CASE k = 2
        BY <1>1, <3>2, <3>6, <4>2
      <4>3. CASE k > 2
        <5>1. k - 1 \in 2..Len(stack) /\ stack'[k] = stack[k - 1]
          BY <1>1, <3>6, <4>3
        <5> QED
          BY <1>4, <4>3, <5>1
      <4> QED
        BY <1>1, <4>1, <4>2, <4>3
    <3>8. 2 \in 1..Len(stack') /\ 2 \in 2..Len(stack') /\ 1 \in 1..(1 + Len(stack))
      BY <1>1, <3>6
    <3>9. stack'[1].kind = "user" /\ stack'[1].fn \in Cbs
      BY <1>2, <3>5, <3>6, <3>8
    <3>10. \A k \in 2..Len(stack') : k \in 1..Len(stack')
      BY <1>1, <3>6
    <3>11. postFlushIndex' = postFlushIndex /\ activePostFlushCbs' = activePostFlushCbs
      BY <1>3, <2>2
    <3>12. activePostFlushCbs # <<>>
      BY <1>2, EmptySeq
    <3>13. PostShape'
      BY <1>2, <3>7, <3>8, <3>9, <3>10, <3>11, <3>12 DEF PostShape
    <3>14. BatchFrom' = postFlushIndex + 1
      BY <3>7, <3>8, <3>11 DEF BatchFrom, InBatch
    <3> QED
      BY <3>13, <3>14
  <2> QED
    BY <2>1, <2>2
<1>8. \A x \in owed' \intersect Cbs :
        \/ Includes(pendingPostFlushCbs', x, 0)
        \/ Includes(activePostFlushCbs', x, BatchFrom')
  BY <1>3, <1>5, <1>6, <1>7, PostNames
<1>9. NoLostPostCb'
  BY <1>8 DEF NoLostPostCb, BatchFrom, InBatch, Includes
<1> QED
  BY <1>7, <1>9

LEMMA PostStep ==
  ASSUME TypeOK, TypeOK', Shape, PostShape, NoLostPostCb, Next
  PROVE  PostShape' /\ NoLostPostCb'
<1> USE DEF postVars
<1>a. <<>> \in Seq(FrameSet) /\ Len(<<>>) = 0
  BY EmptySeq
<1>e. ASSUME Running("user"), stack' = Calling(<<>>),
             UNCHANGED <<activePostFlushCbs, postFlushIndex>>
      PROVE  PostShape' /\ (InBatch' <=> InBatch)
  <2> DEFINE none == <<>>
  <2>1. none \in Seq(FrameSet) /\ \A k \in 1..Len(none) : none[k].kind # "post"
    BY <1>a
  <2>2. stack' = Calling(none)
    BY <1>e
  <2> HIDE DEF none
  <2> QED
    BY <1>e, <2>1, <2>2, CallingPost
<1>b. /\ pendingPostFlushCbs \in Seq(Cbs) /\ activePostFlushCbs \in Seq(Cbs)
      /\ postFlushIndex \in Nat /\ stack \in Seq(FrameSet)
  BY DEF TypeOK
<1>c. \A s \in Seq(Cbs) : /\ \A x : Includes(pendingPostFlushCbs, x, 0) => Includes(pendingPostFlushCbs \o s, x, 0)
                          /\ \A x : Includes(s, x, 0) => Includes(pendingPostFlushCbs \o s, x, 0)
  BY <1>b, AppendedIncludes
<1>d. \A cb \in Cbs : /\ Append(pendingPostFlushCbs, cb) = pendingPostFlushCbs \o <<cb>>
                      /\ <<cb>> \in Seq(Cbs) /\ Includes(<<cb>>, cb, 0)
  <2> SUFFICES ASSUME NEW cb \in Cbs
               PROVE  /\ Append(pendingPostFlushCbs, cb) = pendingPostFlushCbs \o <<cb>>
                      /\ <<cb>> \in Seq(Cbs) /\ Includes(<<cb>>, cb, 0)
    OBVIOUS
  <2>1. <<cb>> \in Seq(Cbs) /\ Len(<<cb>>) = 1 /\ <<cb>>[1] = cb
    OBVIOUS
  <2>2. Includes(<<cb>>, cb, 0)
    BY <2>1 DEF Includes
  <2>3. Append(pendingPostFlushCbs, cb) = pendingPostFlushCbs \o <<cb>>
    BY <1>b, AppendIsConcat
  <2> QED
    BY <2>1, <2>2, <2>3
<1>1. ASSUME NEW j \in Jobs, queueJob(j) PROVE PostShape' /\ NoLostPostCb'
  <2>1. /\ Running("user") /\ stack' = Calling(<<>>) /\ UNCHANGED postVars
        /\ owed' \subseteq owed \union {j}
    BY <1>1 DEF queueJob, CanCall
  <2>2. PostShape' /\ (InBatch' <=> InBatch)
    BY <1>e, <2>1
  <2>3. j \notin Cbs
    BY FunctionsAssumption
  <2> QED
    BY <2>1, <2>2, <2>3, KeptPost
<1>2. ASSUME NEW cb \in Cbs, queuePostFlushCb(cb) PROVE PostShape' /\ NoLostPostCb'
  <2> DEFINE listed == Includes(activePostFlushCbs, cb, PostDedupeFrom(cb))
             running == activePostFlushCbs # <<>> /\ activePostFlushCbs[postFlushIndex + 1] = cb
  <2>1. /\ Running("user") /\ stack' = Calling(<<>>)
        /\ UNCHANGED <<activePostFlushCbs, postFlushIndex>>
        /\ pendingPostFlushCbs' = IF listed THEN pendingPostFlushCbs ELSE Append(pendingPostFlushCbs, cb)
        /\ owed' = IF listed /\ running THEN owed ELSE owed \union {cb}
    BY <1>2 DEF queuePostFlushCb, CanCall
  <2>2. PostShape' /\ (InBatch' <=> InBatch)
    BY <1>e, <2>1
  <2>3. \A x \in Cbs : Includes(pendingPostFlushCbs, x, 0) => Includes(pendingPostFlushCbs', x, 0)
    BY <1>c, <1>d, <2>1
  <2>4. CASE ~listed
    <3>1. Includes(pendingPostFlushCbs', cb, 0)
      BY <1>c, <1>d, <2>1, <2>4
    <3> HIDE DEF listed, running
    <3> QED
      BY <2>1, <2>2, <2>3, <2>4, <3>1, KeptPost
  <2>5. CASE listed /\ running
    <3> HIDE DEF listed, running
    <3> QED
      BY <2>1, <2>2, <2>3, <2>5, KeptPost
  <2>6. CASE listed /\ ~running
    <3>1. PICK k \in (PostDedupeFrom(cb) + 1)..Len(activePostFlushCbs) : activePostFlushCbs[k] = cb
      BY <2>6 DEF Includes
    <3>2. Len(activePostFlushCbs) \in Nat /\ activePostFlushCbs # <<>>
      <4>1. Len(activePostFlushCbs) \in Nat
        BY <1>b, LenProperties
      <4>2. k <= Len(activePostFlushCbs) /\ k > 0
        BY <1>b, <3>1, <4>1 DEF PostDedupeFrom
      <4>3. Len(activePostFlushCbs) # 0
        BY <3>1, <4>1, <4>2
      <4> QED
        BY <1>a, <4>1, <4>3
    <3>3. k # postFlushIndex + 1
      BY <2>6, <3>1, <3>2
    <3>4. k \in (postFlushIndex + 2)..Len(activePostFlushCbs)
      BY <1>b, <3>1, <3>2, <3>3 DEF PostDedupeFrom
    <3>5. k \in (BatchFrom + 1)..Len(activePostFlushCbs)
      BY <1>b, <3>2, <3>4 DEF BatchFrom
    <3>6. Includes(activePostFlushCbs, cb, BatchFrom)
      BY <3>1, <3>5 DEF Includes
    <3> HIDE DEF listed, running
    <3> QED
      BY <2>1, <2>2, <2>3, <2>6, <3>6, KeptPost
  <2> QED
    BY <2>4, <2>5, <2>6
<1>3. ASSUME NEW cb \in Cbs, queuePostFlushHooks(cb) PROVE PostShape' /\ NoLostPostCb'
  <2>1. /\ Running("user") /\ stack' = Calling(<<>>)
        /\ UNCHANGED <<activePostFlushCbs, postFlushIndex>>
        /\ pendingPostFlushCbs' = Append(pendingPostFlushCbs, cb)
        /\ owed' = owed \union {cb}
    BY <1>3 DEF queuePostFlushHooks, CanCall
  <2>2. PostShape' /\ (InBatch' <=> InBatch)
    BY <1>e, <2>1
  <2>3. /\ \A x \in Cbs : Includes(pendingPostFlushCbs, x, 0) => Includes(pendingPostFlushCbs', x, 0)
        /\ Includes(pendingPostFlushCbs', cb, 0)
    BY <1>c, <1>d, <2>1
  <2> QED
    BY <2>1, <2>2, <2>3, KeptPost
<1>4. ASSUME NEW c \in Updates, updateComponent(c) PROVE PostShape' /\ NoLostPostCb'
  BY <1>4, <1>a, PatchPost DEF updateComponent, CanCall
<1>5. ASSUME NEW c \in Updates, renderRoot(c) PROVE PostShape' /\ NoLostPostCb'
  <2>1. <<RenderFrame>> \in Seq(FrameSet)
    BY FrameTypes
  <2> QED
    BY <1>5, <2>1, PatchPost DEF renderRoot, CanCall
<1>f. ASSUME Running("user"), stack' = Calling(<<RenderFrame>>),
             UNCHANGED <<activePostFlushCbs, postFlushIndex>>
      PROVE  PostShape' /\ (InBatch' <=> InBatch)
  <2>1. /\ <<RenderFrame>> \in Seq(FrameSet)
        /\ \A k \in 1..Len(<<RenderFrame>>) : <<RenderFrame>>[k].kind # "post"
    <3>1. RenderFrame \in FrameSet /\ RenderFrame.kind = "render"
      BY FrameTypes, FrameKinds
    <3> QED
      BY <3>1, OneFrame
  <2> QED
    BY <1>f, <2>1, CallingPost
<1>g. ASSUME NEW cs \in SUBSET Updates, NEW hooks \in Hooks, NEW frames, Unmount(cs, hooks, frames),
             PostShape', InBatch' <=> InBatch
      PROVE  PostShape' /\ NoLostPostCb'
  <2>1. /\ UNCHANGED <<activePostFlushCbs, postFlushIndex>>
        /\ pendingPostFlushCbs' = pendingPostFlushCbs \o hooks
        /\ owed' = (owed \ cs) \union ToSet(hooks)
    BY <1>g DEF Unmount
  <2>2. hooks \in Seq(Cbs)
    BY HooksType
  <2>3. \A x \in ToSet(hooks) : Includes(hooks, x, 0)
    <3>1. DOMAIN hooks = 1..Len(hooks)
      BY <2>2, LenProperties
    <3> QED
      BY <3>1 DEF ToSet, Includes
  <2>4. /\ \A x \in Cbs : Includes(pendingPostFlushCbs, x, 0) => Includes(pendingPostFlushCbs', x, 0)
        /\ \A x \in ToSet(hooks) : Includes(pendingPostFlushCbs', x, 0)
    BY <1>c, <2>1, <2>2, <2>3
  <2> QED
    BY <1>g, <2>1, <2>4, KeptPost
<1>6. ASSUME NEW c \in Updates, NEW hooks \in Hooks, unmountComponent(c, hooks)
      PROVE  PostShape' /\ NoLostPostCb'
  <2>1. /\ Running("user") /\ stack' = Calling(<<>>) /\ Unmount({c}, hooks, <<>>)
        /\ UNCHANGED <<activePostFlushCbs, postFlushIndex>>
    BY <1>6 DEF unmountComponent, Unmount, CanCall
  <2>2. PostShape' /\ (InBatch' <=> InBatch)
    BY <1>e, <2>1
  <2> QED
    BY <1>g, <2>1, <2>2
<1>7. ASSUME render PROVE PostShape' /\ NoLostPostCb'
  <2>1. Running("user") /\ stack' = Calling(<<RenderFrame>>) /\ UNCHANGED <<postVars, owed>>
    BY <1>7 DEF render, CanCall
  <2>2. PostShape' /\ (InBatch' <=> InBatch)
    BY <1>f, <2>1
  <2> QED
    BY <2>1, <2>2, KeptPost
<1>7a. ASSUME NEW cs \in SUBSET Updates, NEW hooks \in Hooks, renderNothing(cs, hooks)
       PROVE  PostShape' /\ NoLostPostCb'
  <2>1. /\ Running("user") /\ stack' = Calling(<<RenderFrame>>)
        /\ Unmount(cs, hooks, <<RenderFrame>>)
        /\ UNCHANGED <<activePostFlushCbs, postFlushIndex>>
    BY <1>7a DEF renderNothing, Unmount, CanCall
  <2>2. PostShape' /\ (InBatch' <=> InBatch)
    BY <1>f, <2>1
  <2> QED
    BY <1>g, <2>1, <2>2
<1>8. ASSUME Throw PROVE PostShape' /\ NoLostPostCb'
  <2>1. PICK n \in 1..Len(stack) :
          /\ EndFunction(n)
          /\ \A k \in 1..(n - 1) : ~(stack[k].kind = "user" /\ stack[k].fn \notin Updates)
    BY <1>8 DEF Throw
  <2>2. Len(stack) \in Nat /\ stack[1].kind = "user"
    BY <1>8, TopProperties DEF Throw, Running, TypeOK
  <2>3. \A f \in Cbs : f \notin Updates
    BY FunctionsAssumption DEF Jobs
  <2>4. \A k \in 1..n : stack[k].kind # "post"
    <3> SUFFICES ASSUME NEW k \in 1..n, stack[k].kind = "post" PROVE FALSE
      OBVIOUS
    <3>1. k # 1
      BY <2>2
    <3>2. k \in 2..Len(stack) /\ k - 1 \in 1..(n - 1)
      BY <2>2, <3>1
    <3>3. stack[k - 1].kind = "user" /\ stack[k - 1].fn \in Cbs
      BY <3>2 DEF PostShape
    <3> QED
      BY <2>1, <2>3, <3>2, <3>3
  <2> QED
    BY <2>1, <2>4, EndPost
<1>9. ASSUME Return PROVE PostShape' /\ NoLostPostCb'
  <2>1. /\ EndFunction(1) /\ 1 \in 1..Len(stack) /\ stack[1].kind = "user"
    BY <1>9, TopProperties DEF Return, Running, TypeOK
  <2>2. \A k \in 1..1 : stack[k].kind # "post"
    BY <2>1
  <2> QED
    BY <2>1, <2>2, EndPost
<1>10. ASSUME StartTask PROVE PostShape' /\ NoLostPostCb'
  <2>1. stack = <<>> /\ stack' = <<UserFrame(Main)>> /\ UNCHANGED <<postVars, owed>>
    BY <1>10 DEF StartTask
  <2>2. \A k \in 1..Len(stack') : stack'[k].kind # "post"
    <3>1. UserFrame(Main) \in FrameSet /\ UserFrame(Main).kind = "user"
      BY FrameTypes, FrameKinds DEF Fns
    <3> QED
      BY <2>1, <3>1, OneFrame
  <2> QED
    BY <2>1, <2>2, NoBatch, NoBatchOutside
<1>11. ASSUME NEW seen \in [Fns -> Nat], stack' = <<FlushFrame(seen)>>
       PROVE  \A k \in 1..Len(stack') : stack'[k].kind # "post"
  BY <1>11, FrameTypes, FrameKinds, OneFrame
<1>12. ASSUME StartFlush PROVE PostShape' /\ NoLostPostCb'
  <2>1. stack = <<>> /\ stack' = <<FlushFrame(NoneSeen)>> /\ UNCHANGED <<postVars, owed>>
    BY <1>12 DEF StartFlush, BeginFlush
  <2>2. \A k \in 1..Len(stack') : stack'[k].kind # "post"
    BY <1>11, <2>1, FrameTypes
  <2> QED
    BY <2>1, <2>2, NoBatch, NoBatchOutside
<1>13. ASSUME FlushJob PROVE PostShape' /\ NoLostPostCb'
  <2> DEFINE job == queue[flushIndex + 1]
             frame == [top EXCEPT !.seen = Counted(@, job)]
  <2>1. /\ Running("flush") /\ UNCHANGED postVars /\ owed' \subseteq owed
        /\ stack' \in {stack, Push(<<UserFrame(job)>>, frame)}
        /\ flushIndex + 1 \in 1..Len(queue)
    BY <1>13, LenProperties DEF FlushJob, TypeOK
  <2>2. activePostFlushCbs = <<>>
    BY <2>1, NoBatchOutside
  <2>3. \A k \in 1..Len(stack') : stack'[k].kind # "post"
    <3>1. /\ stack # <<>> /\ Len(stack) = 1 /\ top = stack[1] /\ top \in FrameSet
          /\ top.kind = "flush"
      BY <2>1, FlushOnTop DEF Running
    <3>2. job \in Jobs
      BY <2>1, ElementOfSeq DEF TypeOK
    <3>3. /\ UserFrame(job) \in FrameSet /\ UserFrame(job).kind = "user"
          /\ frame \in FrameSet /\ frame.kind = "flush"
      BY <3>1, <3>2, FrameTypes, FrameKinds DEF Fns, FrameSet
    <3>4. /\ <<UserFrame(job)>> \in Seq(FrameSet) /\ Len(<<UserFrame(job)>>) = 1
          /\ <<UserFrame(job)>>[1] = UserFrame(job)
      BY <3>3, OneFrame
    <3> DEFINE one == <<UserFrame(job)>>
    <3>5. one \in Seq(FrameSet) /\ Len(one) = 1 /\ one[1].kind = "user"
          /\ stack' \in {stack, Push(one, frame)}
      BY <2>1, <3>3, <3>4
    <3> HIDE DEF one, frame, job
    <3>6. /\ Len(Push(one, frame)) = 2
          /\ \A k \in 1..2 : Push(one, frame)[k] = IF k <= 1 THEN one[k] ELSE frame
      <4>1. /\ Len(Push(one, frame)) = Len(one) + Len(stack)
            /\ \A k \in 1..(Len(one) + Len(stack)) : Push(one, frame)[k] =
                 IF k <= Len(one) THEN one[k]
                 ELSE IF k = Len(one) + 1 THEN frame ELSE stack[k - Len(one)]
        BY <1>b, <3>1, <3>3, <3>5, PushProperties
      <4> QED
        BY <3>1, <3>5, <4>1
    <3> QED
      BY <3>1, <3>3, <3>5, <3>6
  <2> QED
    BY <2>1, <2>2, <2>3, NoBatch
<1>14. ASSUME FlushQueueDone PROVE PostShape' /\ NoLostPostCb'
  <2> DEFINE frame == [top EXCEPT !.i = 1]
  <2>1. /\ Running("flush") /\ UNCHANGED owed /\ flushPostFlushCbs(Push(<<>>, frame), top.seen)
    BY <1>14 DEF FlushQueueDone
  <2>2. activePostFlushCbs = <<>>
    BY <2>1, NoBatchOutside
  <2>3. /\ top \in FrameSet /\ top.kind = "flush" /\ frame \in FrameSet /\ frame.kind = "flush"
        /\ top.seen \in [Fns -> Nat] /\ Push(<<>>, frame) = <<frame>>
    BY <2>1, FlushOnTop DEF Running, FrameSet
  <2>4. /\ Push(<<>>, frame) \in Seq(FrameSet)
        /\ \A k \in 1..Len(Push(<<>>, frame)) : Push(<<>>, frame)[k].kind # "post"
    <3> DEFINE one == <<frame>>
    <3>1. one \in Seq(FrameSet) /\ Len(one) = 1 /\ one[1] = frame
      BY <2>3, OneFrame
    <3>2. Push(<<>>, frame) = one
      BY <2>3
    <3> HIDE DEF one, frame
    <3> QED
      BY <2>3, <3>1, <3>2
  <2> HIDE DEF frame
  <2> QED
    BY <2>1, <2>2, <2>3, <2>4, NewBatch
<1>15. ASSUME FlushDone PROVE PostShape' /\ NoLostPostCb'
  <2>1. /\ Running("flush") /\ UNCHANGED <<postVars, owed>>
        /\ stack' = <<FlushFrame(top.seen)>> \/ stack' = <<>>
    BY <1>15 DEF FlushDone, BeginFlush
  <2>2. top.seen \in [Fns -> Nat]
    BY <2>1, FlushOnTop DEF FrameSet
  <2>3. \A k \in 1..Len(stack') : stack'[k].kind # "post"
    BY <1>a, <1>11, <2>1, <2>2
  <2> QED
    BY <2>1, <2>3, NoBatch, NoBatchOutside
<1>16. ASSUME FlushPreCb PROVE PostShape' /\ NoLostPostCb'
  <2> DEFINE cb == queue[top.i + 1]
             called == [top EXCEPT !.seen = Counted(@, cb)]
             skipped == [top EXCEPT !.i = @ + 1]
  <2>1. /\ Running("pre") /\ UNCHANGED postVars /\ owed' \subseteq owed /\ top.i < Len(queue)
        /\ stack' = Push(<<UserFrame(cb)>>, called) \/ stack' = Push(<<>>, skipped)
    BY <1>16 DEF FlushPreCb
  <2>2. stack # <<>> /\ top \in FrameSet /\ top.kind = "pre" /\ top.i \in Nat
    BY <2>1, <1>b, TopProperties DEF Running, FrameSet
  <2>3. cb \in Jobs
    <3>1. top.i + 1 \in 1..Len(queue)
      BY <2>1, <2>2, LenProperties DEF TypeOK
    <3> QED
      BY <3>1, ElementOfSeq DEF TypeOK
  <2>4. /\ UserFrame(cb) \in FrameSet /\ UserFrame(cb).kind = "user"
        /\ called \in FrameSet /\ called.kind = top.kind /\ called.fn = top.fn
        /\ skipped \in FrameSet /\ skipped.kind = top.kind /\ skipped.fn = top.fn
    <3>1. UserFrame(cb) \in FrameSet /\ UserFrame(cb).kind = "user"
      BY <2>3, FrameTypes, FrameKinds DEF Fns
    <3>2. Counted(top.seen, cb) \in [Fns -> Nat] /\ top.i + 1 \in Nat
      <4>1. top.seen \in [Fns -> Nat] /\ top.i + 1 \in Nat
        BY <2>2 DEF FrameSet
      <4>2. cb \in Fns
        BY <2>3 DEF Fns
      <4> HIDE DEF cb
      <4> QED
        BY <4>1, <4>2, FrameTypes
    <3>3. called \in FrameSet /\ called.kind = top.kind /\ called.fn = top.fn
      BY <2>2, <3>2, EditedFrames
    <3>4. skipped \in FrameSet /\ skipped.kind = top.kind /\ skipped.fn = top.fn
      BY <2>2, <3>2, EditedFrames
    <3> QED
      BY <3>1, <3>3, <3>4
  <2>5. /\ <<UserFrame(cb)>> \in Seq(FrameSet)
        /\ \A k \in 1..Len(<<UserFrame(cb)>>) : <<UserFrame(cb)>>[k].kind # "post"
    BY <2>4, OneFrame
  <2> HIDE DEF called, skipped, cb
  <2>6. PostShape' /\ (InBatch' <=> InBatch)
    <3>1. CASE stack' = Push(<<UserFrame(cb)>>, called)
      BY <2>1, <2>2, <2>4, <2>5, <3>1, PushPost
    <3>2. CASE stack' = Push(<<>>, skipped)
      <4> DEFINE none == <<>>
      <4>1. none \in Seq(FrameSet) /\ \A k \in 1..Len(none) : none[k].kind # "post"
        BY <1>a
      <4>2. stack' = Push(none, skipped) /\ top.kind # "post"
        BY <2>2, <3>2
      <4> HIDE DEF none
      <4> QED
        BY <2>1, <2>2, <2>4, <4>1, <4>2, PushPost
    <3> QED
      BY <2>1, <3>1, <3>2
  <2> QED
    BY <2>1, <2>6, KeptPost
<1>17. ASSUME FlushPreDone PROVE PostShape' /\ NoLostPostCb'
  <2>1. Running("pre") /\ stack' = Tail(stack) /\ UNCHANGED <<postVars, owed>>
    BY <1>17 DEF FlushPreDone
  <2>2. /\ Len(stack) \in Nat \ {0} /\ stack[1].kind = "pre" /\ Len(stack') = Len(stack) - 1
        /\ \A k \in 1..(Len(stack) - 1) : stack'[k] = stack[k + 1]
    BY <1>b, <2>1, TopProperties DEF Running
  <2>3. 1 \in 1..Len(stack) /\ \A k \in 1..1 : stack[k].kind # "post"
    BY <2>2
  <2>4. ~(1 < Len(stack) /\ stack[1 + 1].kind = "post")
    <3> SUFFICES ASSUME 1 < Len(stack), stack[2].kind = "post" PROVE FALSE
      OBVIOUS
    <3>1. 2 \in 2..Len(stack)
      BY <2>2
    <3>2. stack[2 - 1].kind = "user"
      BY <3>1 DEF PostShape
    <3> QED
      BY <2>2, <3>2
  <2>5. PostShape' /\ (InBatch' <=> InBatch)
    BY <2>1, <2>2, <2>3, <2>4, PopPost
  <2> QED
    BY <2>1, <2>5, KeptPost
<1>18. ASSUME FlushPostCb PROVE PostShape' /\ NoLostPostCb'
  BY <1>18, PostCbPost
<1>19. ASSUME FlushPostDone PROVE PostShape' /\ NoLostPostCb'
  <2>1. /\ Running("post") /\ postFlushIndex >= Len(activePostFlushCbs)
        /\ activePostFlushCbs' = <<>> /\ UNCHANGED <<pendingPostFlushCbs, owed>>
        /\ stack' = [k \in 1..(Len(stack) - 1) |->
                       IF k = 1 /\ stack[2].kind = "flush"
                       THEN [stack[2] EXCEPT !.seen = top.seen] ELSE stack[k + 1]]
    BY <1>19 DEF FlushPostDone
  <2>2. Len(stack) \in Nat \ {0} /\ stack[1].kind = "post"
    BY <1>b, <2>1, TopProperties DEF Running
  <2>3. \A k \in 2..Len(stack) : stack[k].kind # "post"
    BY <2>2 DEF PostShape
  <2>4. \A k \in 1..Len(stack') : stack'[k].kind # "post"
    <3>1. DOMAIN stack' = 1..(Len(stack) - 1)
      BY <2>1
    <3>2. DOMAIN stack' = 1..Len(stack') /\ Len(stack') \in Nat
      BY LenProperties DEF TypeOK
    <3> SUFFICES ASSUME NEW k \in 1..(Len(stack) - 1) PROVE stack'[k].kind # "post"
      BY <3>1, <3>2
    <3>3. k + 1 \in 2..Len(stack) /\ (k = 1 => 2 \in 2..Len(stack))
      BY <2>2
    <3>4. stack[k + 1] \in FrameSet
      BY <1>b, <2>2, <3>3, ElementOfSeq
    <3>5. stack'[k] = IF k = 1 /\ stack[2].kind = "flush"
                      THEN [stack[2] EXCEPT !.seen = top.seen] ELSE stack[k + 1]
      BY <2>1
    <3>6. CASE k = 1 /\ stack[2].kind = "flush"
      <4>1. stack[2] \in FrameSet /\ stack'[k] = [stack[2] EXCEPT !.seen = top.seen]
        BY <3>4, <3>5, <3>6
      <4>2. stack'[k].kind = stack[2].kind
        BY <4>1 DEF FrameSet
      <4> QED
        BY <3>6, <4>2
    <3>7. CASE ~(k = 1 /\ stack[2].kind = "flush")
      BY <2>3, <3>3, <3>5, <3>7
    <3> QED
      BY <3>6, <3>7
  <2>5. \A cb \in owed \intersect Cbs : Includes(pendingPostFlushCbs, cb, 0)
    <3>1. BatchFrom >= Len(activePostFlushCbs) /\ BatchFrom \in Nat /\ Len(activePostFlushCbs) \in Nat
      BY <1>b, <2>1, LenProperties DEF BatchFrom
    <3>2. \A x : ~Includes(activePostFlushCbs, x, BatchFrom)
      BY <3>1 DEF Includes
    <3> QED
      BY <3>2, PostNames
  <2>6. \A k \in 2..Len(stack') : k \in 1..Len(stack')
    BY LenProperties DEF TypeOK
  <2>7. PostShape'
    BY <2>1, <2>4, <2>6 DEF PostShape
  <2> QED
    BY <2>1, <2>5, <2>7 DEF NoLostPostCb, Includes
<1>20. ASSUME RenderFlushPre PROVE PostShape' /\ NoLostPostCb'
  <2> DEFINE frame == [top EXCEPT !.i = 1]
  <2>1. /\ Running("render") /\ UNCHANGED <<postVars, owed>>
        /\ stack' = Push(<<PreFrame(Infinity)>>, frame)
    BY <1>20 DEF RenderFlushPre
  <2>2. stack # <<>> /\ top \in FrameSet /\ top.kind = "render"
    BY <1>b, <2>1, TopProperties DEF Running
  <2>3. /\ PreFrame(Infinity) \in FrameSet /\ PreFrame(Infinity).kind = "pre"
        /\ frame \in FrameSet /\ frame.kind = top.kind /\ frame.fn = top.fn
    <3>1. Infinity \in -1..Infinity
      BY IdAssumption
    <3>2. PreFrame(Infinity) \in FrameSet /\ PreFrame(Infinity).kind = "pre"
      BY <3>1, FrameTypes, FrameKinds DEF TypeOK
    <3> QED
      BY <2>2, <3>2 DEF FrameSet
  <2>4. /\ <<PreFrame(Infinity)>> \in Seq(FrameSet)
        /\ \A k \in 1..Len(<<PreFrame(Infinity)>>) : <<PreFrame(Infinity)>>[k].kind # "post"
    BY <2>3, OneFrame
  <2> HIDE DEF frame
  <2>5. PostShape' /\ (InBatch' <=> InBatch)
    BY <2>1, <2>2, <2>3, <2>4, PushPost
  <2> QED
    BY <2>1, <2>5, KeptPost
<1>21. ASSUME RenderFlushPost PROVE PostShape' /\ NoLostPostCb'
  <2>1. /\ stack # <<>> /\ top.kind = "render" /\ UNCHANGED owed
        /\ flushPostFlushCbs(Tail(stack), NoneSeen)
    BY <1>21 DEF RenderFlushPost, Running
  <2>2. /\ Tail(stack) \in Seq(FrameSet) /\ Len(Tail(stack)) = Len(stack) - 1
        /\ \A k \in 1..(Len(stack) - 1) : Tail(stack)[k] = stack[k + 1]
        /\ Len(stack) \in Nat
    BY <1>b, <2>1, TopProperties
  <2>3. NoneSeen \in [Fns -> Nat]
    BY FrameTypes
  <2>4. CASE activePostFlushCbs # <<>>
    BY <2>1, <2>2, <2>3, <2>4, ExtendedBatch
  <2>5. CASE activePostFlushCbs = <<>>
    <3>1. \A k \in 1..Len(stack) : stack[k].kind # "post"
      BY <2>5 DEF PostShape
    <3>2. \A k \in 1..Len(Tail(stack)) : Tail(stack)[k].kind # "post"
      BY <2>2, <3>1
    <3> QED
      BY <2>1, <2>2, <2>3, <2>5, <3>2, NewBatch
  <2> QED
    BY <2>4, <2>5
<1> QED
  BY <1>1, <1>2, <1>3, <1>4, <1>5, <1>6, <1>7, <1>7a, <1>8, <1>9, <1>10, <1>12, <1>13, <1>14,
     <1>15, <1>16, <1>17, <1>18, <1>19, <1>20, <1>21 DEF Next, UserCall, Proceed

LEMMA PostStutter ==
  ASSUME PostShape, NoLostPostCb, UNCHANGED vars
  PROVE  PostShape' /\ NoLostPostCb'
<1>1. UNCHANGED <<stack, owed, postFlushIndex, activePostFlushCbs, pendingPostFlushCbs>>
  BY DEF vars
<1> QED
  BY <1>1 DEF PostShape, NoLostPostCb, Includes

LEMMA PostInit == Init => PostShape /\ NoLostPostCb
<1> SUFFICES ASSUME Init PROVE PostShape /\ NoLostPostCb
  OBVIOUS
<1>1. stack = <<>> /\ activePostFlushCbs = <<>> /\ owed = {} /\ Len(stack) = 0
  BY EmptySeq DEF Init
<1> QED
  BY <1>1 DEF PostShape, NoLostPostCb

LEMMA PostCorrect == Spec => [](PostShape /\ NoLostPostCb)
<1>1. TypeOK /\ TypeOK' /\ Shape /\ PostShape /\ NoLostPostCb /\ [Next]_vars
        => PostShape' /\ NoLostPostCb'
  BY PostStep, PostStutter
<1> QED
  BY <1>1, PostInit, TypeCorrect, ShapeCorrect, PTL DEF Spec

\* A callback given to queuePostFlushCb is called, whatever renders, calls of
\* render() and errors come between: it waits, or it is ahead in the batch.
THEOREM NoLostPostCbCorrect == Spec => []NoLostPostCb
BY PostCorrect, PTL

------------------------------------------------------------------------------
(* The watchers of a component run before it renders.                       *)

InstanceWatcher(f) == f \in PreJobs /\ IdOf[f] # Infinity

QuietWatchers == \A f \in CallRender : ~InstanceWatcher(f)

\* A frame of flushPreFlushCbs for one component.
PreFor(frame) == frame.kind = "pre" /\ frame.inst # Infinity

NonePreFor(s) == \A n \in 1..Len(s) : ~PreFor(s[n])

\* Such a frame is on top, or runs a watcher that called nothing.
WatcherCalls(s) ==
  \A n \in 1..Len(s) : PreFor(s[n]) =>
    n = 1 \/ (n = 2 /\ s[1].kind = "user" /\ InstanceWatcher(s[1].fn))

\* The frame has left no watcher of its component behind its index ...
PassedAll(frame, q, from) ==
  \A m \in (from + 1)..frame.i : m <= Len(q) =>
    ~(q[m] \in PreJobs /\ IdOf[q[m]] = frame.inst)

\* ... and while it runs one, any that is queued is queued ahead of its index.
PassedLower(frame, q, from) ==
  /\ frame.i <= Len(q)
  /\ \A m \in (from + 1)..frame.i : IdOf[q[m]] < frame.inst

WatchersAhead ==
  /\ WatcherCalls(stack)
  /\ InJobLoop => \A n \in 1..Len(stack) : PreFor(stack[n]) =>
       IF n = 1 THEN PassedAll(stack[n], queue, flushIndex + 1)
       ELSE PassedLower(stack[n], queue, flushIndex + 1)

LEMMA NoneIsAhead ==
  ASSUME NonePreFor(stack')
  PROVE  WatchersAhead'
BY DEF NonePreFor, WatchersAhead, WatcherCalls

LEMMA LoudCaller ==
  ASSUME TypeOK, WatcherCalls(stack), stack # <<>>, top.kind # "pre",
         ~(top.kind = "user" /\ InstanceWatcher(top.fn))
  PROVE  NonePreFor(stack)
<1>1. top = stack[1]
  BY TopProperties DEF TypeOK
<1> QED
  BY <1>1 DEF NonePreFor, WatcherCalls, PreFor

LEMMA BelowPre ==
  ASSUME TypeOK, WatcherCalls(stack), stack # <<>>, top.kind = "pre"
  PROVE  \A n \in 2..Len(stack) : ~PreFor(stack[n])
<1>1. top = stack[1] /\ Len(stack) \in Nat
  BY TopProperties DEF TypeOK
<1>2. \A n \in 2..Len(stack) : n \in 1..Len(stack) /\ n # 1
  BY <1>1
<1> QED
  BY <1>1, <1>2 DEF WatcherCalls

LEMMA PushNone ==
  ASSUME TypeOK, stack # <<>>, \A n \in 2..Len(stack) : ~PreFor(stack[n]),
         NEW above \in Seq(FrameSet), NonePreFor(above),
         NEW frame \in FrameSet, ~PreFor(frame), stack' = Push(above, frame)
  PROVE  NonePreFor(stack')
<1>1. Len(above) \in Nat /\ Len(stack) \in Nat
  BY LenProperties DEF TypeOK
<1>2. /\ Len(stack') = Len(above) + Len(stack)
      /\ \A n \in 1..(Len(above) + Len(stack)) : stack'[n] =
           IF n <= Len(above) THEN above[n]
           ELSE IF n = Len(above) + 1 THEN frame ELSE stack[n - Len(above)]
  BY PushProperties DEF TypeOK
<1> SUFFICES ASSUME NEW n \in 1..(Len(above) + Len(stack)) PROVE ~PreFor(stack'[n])
  BY <1>2 DEF NonePreFor
<1>3. CASE n <= Len(above)
  <2>1. n \in 1..Len(above) /\ stack'[n] = above[n]
    BY <1>1, <1>2, <1>3
  <2> QED
    BY <2>1 DEF NonePreFor
<1>4. CASE n = Len(above) + 1
  <2>1. stack'[n] = frame
    BY <1>1, <1>2, <1>4
  <2> QED
    BY <2>1
<1>5. CASE n > Len(above) + 1
  <2>1. n - Len(above) \in 2..Len(stack) /\ stack'[n] = stack[n - Len(above)]
    BY <1>1, <1>2, <1>5
  <2> QED
    BY <2>1
<1> QED
  BY <1>1, <1>3, <1>4, <1>5

\* Code that no watcher of a component runs calls the scheduler or render().
LEMMA CallingNone ==
  ASSUME TypeOK, NonePreFor(stack), Running("user"), NEW above \in Seq(FrameSet),
         NonePreFor(above), stack' = Calling(above)
  PROVE  NonePreFor(stack')
<1>1. stack # <<>> /\ top \in FrameSet /\ top.kind = "user" /\ Len(stack) \in Nat
  BY TopProperties DEF TypeOK, Running
<1>2. LET frame == [top EXCEPT !.ops = @ + 1]
      IN  frame \in FrameSet /\ frame.kind = top.kind
  BY <1>1, EditedFrames
<1>3. \A n \in 2..Len(stack) : ~PreFor(stack[n])
  <2>1. \A n \in 2..Len(stack) : n \in 1..Len(stack)
    BY <1>1
  <2> QED
    BY <2>1 DEF NonePreFor
<1> QED
  BY <1>1, <1>2, <1>3, PushNone DEF Calling, PreFor

LEMMA InsertionAfterLower ==
  ASSUME TypeOK, NEW j \in Jobs, NEW k \in 1..(Len(queue) + 1), Insertion(j, k),
         NEW frame \in FrameSet, frame.inst # Infinity, PassedLower(frame, queue, flushIndex + 1)
  PROVE  PassedLower(frame, queue', flushIndex + 1)
<1>1. /\ Len(queue) \in Nat /\ flushIndex \in Nat /\ queue \in Seq(Jobs)
      /\ frame.i \in Nat /\ frame.inst \in -1..Infinity /\ Infinity \in Nat
  BY LenProperties, IdAssumption DEF TypeOK, FrameSet
<1>2. /\ Len(queue') = Len(queue) + 1
      /\ \A n \in 1..Len(queue') : queue'[n] =
           IF n < k THEN queue[n] ELSE IF n = k THEN j ELSE queue[n - 1]
  BY InsertedElements
<1>3. frame.i <= Len(queue) /\ \A m \in (flushIndex + 1 + 1)..frame.i : IdOf[queue[m]] < frame.inst
  BY DEF PassedLower
<1>4. k \in Nat /\ (k > flushIndex + 1 \/ k = Len(queue) + 1)
  BY DEF Insertion
<1> SUFFICES ASSUME NEW m \in (flushIndex + 1 + 1)..frame.i PROVE IdOf[queue'[m]] < frame.inst
  BY <1>1, <1>2, <1>3 DEF PassedLower
<1>5. m \in Nat /\ m \in 1..Len(queue')
  BY <1>1, <1>2, <1>3
<1>6. CASE m < k
  BY <1>2, <1>3, <1>5, <1>6
<1>7. CASE m > k
  <2>1. m - 1 \in (flushIndex + 1 + 1)..frame.i /\ queue'[m] = queue[m - 1]
    BY <1>1, <1>2, <1>3, <1>4, <1>5, <1>7
  <2> QED
    BY <1>3, <2>1
<1>8. CASE m = k
  <2>1. k <= Len(queue) /\ k - 1 < Len(queue) /\ (k - 1) + 1 = k /\ k \in 1..Len(queue)
    BY <1>1, <1>3, <1>5, <1>8
  <2>2. k - 1 \in InsertionIndices(IdOf[j])
    BY <1>1, <2>1 DEF Insertion
  <2>3. ~GoesRight(queue[k], IdOf[j])
    BY <2>1, <2>2 DEF InsertionIndices
  <2>4. queue[k] \in Jobs
    BY <1>1, <2>1, ElementOfSeq
  <2>5. IdOf[queue[k]] \in -1..Infinity /\ IdOf[j] \in -1..Infinity
    BY <2>4, IdAssumption
  <2>6. IdOf[j] <= IdOf[queue[k]]
    BY <1>1, <2>3, <2>5 DEF GoesRight
  <2>7. IdOf[queue[k]] < frame.inst /\ queue'[m] = j
    BY <1>2, <1>3, <1>5, <1>8
  <2> QED
    BY <1>1, <2>5, <2>6, <2>7
<1> QED
  BY <1>4, <1>5, <1>6, <1>7, <1>8

\* A call that pushes no frame, of a watcher of the component or of other code.
LEMMA CallAhead ==
  ASSUME TypeOK, TypeOK', WatchersAhead, Running("user"), stack' = Calling(<<>>),
         flushIndex' = flushIndex, InJobLoop' <=> InJobLoop,
         UNCHANGED queue \/ \E j \in Jobs, k \in 1..(Len(queue) + 1) : Insertion(j, k)
  PROVE  WatchersAhead'
<1> DEFINE none == <<>>
           frame == [top EXCEPT !.ops = @ + 1]
<1>1. stack # <<>> /\ top \in FrameSet /\ top = stack[1] /\ top.kind = "user" /\ Len(stack) \in Nat
  BY TopProperties DEF TypeOK, Running
<1>2. frame \in FrameSet /\ frame.kind = top.kind /\ frame.fn = top.fn
  BY <1>1, EditedFrames
<1>3. none \in Seq(FrameSet) /\ Len(none) = 0 /\ stack' = Push(none, frame)
  BY EmptySeq DEF Calling
<1> HIDE DEF none, frame
<1>4. /\ Len(stack') = Len(none) + Len(stack)
      /\ \A n \in 1..(Len(none) + Len(stack)) : stack'[n] =
           IF n <= Len(none) THEN none[n]
           ELSE IF n = Len(none) + 1 THEN frame ELSE stack[n - Len(none)]
  <2>1. stack \in Seq(FrameSet)
    BY DEF TypeOK
  <2>2. /\ Len(Push(none, frame)) = Len(none) + Len(stack)
        /\ \A n \in 1..(Len(none) + Len(stack)) : Push(none, frame)[n] =
             IF n <= Len(none) THEN none[n]
             ELSE IF n = Len(none) + 1 THEN frame ELSE stack[n - Len(none)]
    BY <1>1, <1>2, <1>3, <2>1, PushProperties
  <2> QED
    BY <1>3, <2>2
<1>5. /\ Len(stack') = Len(stack)
      /\ \A n \in 1..Len(stack) : stack'[n] = IF n = 1 THEN frame ELSE stack[n]
  BY <1>1, <1>3, <1>4
<1>6. ASSUME NEW n \in 1..Len(stack'), PreFor(stack'[n])
      PROVE  /\ n \in 1..Len(stack) /\ n # 1 /\ stack'[n] = stack[n] /\ stack[n] \in FrameSet
             /\ 1 \in 1..Len(stack) /\ stack'[1] = frame
  <2>1. n # 1
    BY <1>1, <1>2, <1>5, <1>6 DEF PreFor
  <2>2. n \in 1..Len(stack) /\ 1 \in 1..Len(stack) /\ stack'[n] = stack[n] /\ stack'[1] = frame
    BY <1>1, <1>5, <2>1
  <2>3. stack[n] \in FrameSet
    BY <2>2, ElementOfSeq DEF TypeOK
  <2> QED
    BY <2>1, <2>2, <2>3
<1>7. WatcherCalls(stack')
  BY <1>1, <1>2, <1>6 DEF WatchersAhead, WatcherCalls
<1>8. ASSUME InJobLoop', NEW n \in 1..Len(stack'), PreFor(stack'[n])
      PROVE  n # 1 /\ PassedLower(stack'[n], queue', flushIndex' + 1)
  <2>1. /\ n \in 1..Len(stack) /\ n # 1 /\ stack'[n] = stack[n] /\ stack[n] \in FrameSet
        /\ PassedLower(stack[n], queue, flushIndex + 1)
    BY <1>6, <1>8 DEF WatchersAhead
  <2>2. CASE UNCHANGED queue
    BY <2>1, <2>2
  <2>3. CASE \E j \in Jobs, k \in 1..(Len(queue) + 1) : Insertion(j, k)
    <3>1. stack[n].inst # Infinity
      BY <1>8, <2>1 DEF PreFor
    <3> QED
      BY <2>1, <2>3, <3>1, InsertionAfterLower
  <2> QED
    BY <2>1, <2>2, <2>3
<1> QED
  BY <1>7, <1>8 DEF WatchersAhead

LEMMA PatchAhead ==
  ASSUME QuietWatchers, TypeOK, TypeOK', Shape, Shape', WatchersAhead, Running("user"),
         ~InstanceWatcher(top.fn), NEW c \in Updates, NEW below \in Seq(FrameSet),
         below = <<>> \/ below = <<RenderFrame>>, Patch(c, below)
  PROVE  WatchersAhead'
<1> DEFINE pre == PreFrame(IdOf[c])
           two == <<pre, UserFrame(c)>>
           above == two \o below
           frame == [top EXCEPT !.ops = @ + 1]
<1>1. /\ stack # <<>> /\ top \in FrameSet /\ top = stack[1] /\ top.kind = "user"
      /\ Len(stack) \in Nat \ {0} /\ Len(below) \in Nat /\ flushIndex \in Nat
  BY TopProperties, LenProperties DEF TypeOK, Running
<1>2. frame \in FrameSet /\ ~PreFor(frame)
  <2>1. frame \in FrameSet /\ frame.kind = top.kind
    BY <1>1, EditedFrames
  <2> QED
    BY <1>1, <2>1 DEF PreFor
<1>3. /\ pre \in FrameSet /\ pre.kind = "pre" /\ (isFlushing => pre.i = flushIndex + 1)
      /\ UserFrame(c) \in FrameSet /\ ~PreFor(UserFrame(c))
  <2>1. IdOf[c] \in -1..Infinity /\ c \in Fns
    BY IdAssumption DEF Jobs, Fns
  <2>2. pre \in FrameSet /\ UserFrame(c) \in FrameSet /\ pre.kind = "pre" /\ UserFrame(c).kind = "user"
    BY <1>1, <2>1, FrameTypes, FrameKinds
  <2>3. isFlushing => pre.i = flushIndex + 1
    BY DEF PreFrame, Frame
  <2> QED
    BY <2>2, <2>3 DEF PreFor
<1>4. two \in Seq(FrameSet) /\ Len(two) = 2 /\ two[1] = pre /\ two[2] = UserFrame(c)
  BY <1>3
<1>5. NonePreFor(below)
  <2>1. RenderFrame \in FrameSet /\ RenderFrame.kind = "render"
    BY FrameTypes, FrameKinds
  <2>2. Len(<<RenderFrame>>) = 1 /\ <<RenderFrame>>[1] = RenderFrame
    BY <2>1, OneFrame
  <2> QED
    BY <2>1, <2>2, EmptySeq DEF NonePreFor, PreFor
<1> HIDE DEF two
<1>6. /\ above \in Seq(FrameSet) /\ Len(above) = 2 + Len(below)
      /\ \A k \in 1..(2 + Len(below)) : above[k] = IF k <= 2 THEN two[k] ELSE below[k - 2]
  <2>1. /\ above \in Seq(FrameSet) /\ Len(above) = Len(two) + Len(below)
        /\ \A k \in 1..(Len(two) + Len(below)) :
             above[k] = IF k <= Len(two) THEN two[k] ELSE below[k - Len(two)]
    BY <1>4, ConcatProperties
  <2> QED
    BY <1>4, <2>1
<1>7. /\ stack' = Push(above, frame) /\ UNCHANGED <<flushIndex, isFlushing>>
  BY DEF Patch, Calling, two
<1> HIDE DEF above, frame
<1>8. /\ Len(stack') = Len(above) + Len(stack)
      /\ \A n \in 1..(Len(above) + Len(stack)) : stack'[n] =
           IF n <= Len(above) THEN above[n]
           ELSE IF n = Len(above) + 1 THEN frame ELSE stack[n - Len(above)]
  <2>1. stack \in Seq(FrameSet)
    BY DEF TypeOK
  <2>2. \A over \in Seq(FrameSet), interrupted \in FrameSet :
          /\ Len(Push(over, interrupted)) = Len(over) + Len(stack)
          /\ \A n \in 1..(Len(over) + Len(stack)) : Push(over, interrupted)[n] =
               IF n <= Len(over) THEN over[n]
               ELSE IF n = Len(over) + 1 THEN interrupted ELSE stack[n - Len(over)]
    BY <1>1, <2>1, PushProperties, Zenon
  <2> QED BY <1>2, <1>6, <1>7, <2>2
<1>9. NonePreFor(stack)
  BY <1>1, LoudCaller DEF WatchersAhead
<1>10. ASSUME NEW n \in 1..Len(stack'), n # 1
       PROVE  ~PreFor(stack'[n])
  <2>1. CASE n = 2
    BY <1>1, <1>3, <1>4, <1>6, <1>8, <2>1
  <2>2. CASE n > 2 /\ n <= Len(above)
    <3>1. n - 2 \in 1..Len(below) /\ stack'[n] = below[n - 2]
      BY <1>1, <1>6, <1>8, <2>2
    <3> QED
      BY <1>5, <3>1 DEF NonePreFor
  <2>3. CASE n = Len(above) + 1
    <3>1. stack'[n] = frame
      BY <1>1, <1>6, <1>8, <2>3
    <3> QED
      BY <1>2, <3>1
  <2>4. CASE n > Len(above) + 1
    <3>1. n - Len(above) \in 1..Len(stack) /\ stack'[n] = stack[n - Len(above)]
      BY <1>1, <1>6, <1>8, <2>4
    <3> QED
      BY <1>9, <3>1 DEF NonePreFor
  <2> QED
    BY <1>1, <1>6, <1>8, <1>10, <2>1, <2>2, <2>3, <2>4
<1>11. stack'[1] = pre
  <2>1. 1 \in 1..(Len(above) + Len(stack)) /\ 1 <= Len(above) /\ 1 \in 1..(2 + Len(below)) /\ 1 <= 2
    BY <1>1, <1>6
  <2> QED
    BY <1>4, <1>6, <1>8, <2>1
<1>12. WatcherCalls(stack')
  BY <1>10 DEF WatcherCalls
<1>13. InJobLoop' => PassedAll(stack'[1], queue', flushIndex' + 1)
  <2> SUFFICES ASSUME InJobLoop' PROVE PassedAll(stack'[1], queue', flushIndex' + 1)
    OBVIOUS
  <2>1. isFlushing
    BY <1>7 DEF Shape, InJobLoop, Flushes
  <2>2. stack'[1].i = flushIndex + 1 /\ flushIndex' = flushIndex
    BY <1>3, <1>7, <1>11, <2>1
  <2>3. (flushIndex + 1 + 1)..(flushIndex + 1) = {}
    BY <1>1
  <2> QED
    BY <2>2, <2>3 DEF PassedAll
<1> QED
  BY <1>10, <1>12, <1>13 DEF WatchersAhead

\* A watcher returns to the loop that called it, or code in which no loop for a
\* component is running ends.
LEMMA EndAheadOfPre ==
  ASSUME TypeOK, TypeOK', Shape, Shape', WatchersAhead, NEW k \in 1..Len(stack), EndFunction(k),
         k = 1 \/ NonePreFor(stack)
  PROVE  WatchersAhead'
<1>1. /\ stack \in Seq(FrameSet) /\ Len(stack) \in Nat /\ k \in Nat /\ flushIndex \in Nat
      /\ stack # <<>>
  BY LenProperties, EmptySeq DEF TypeOK
<1>2. stack' = SubSeq(stack, k + 1, Len(stack))
  BY DEF EndFunction
<1>3. /\ Len(stack') = Len(stack) - k
      /\ \A n \in 1..(Len(stack) - k) : stack'[n] = stack[n + k]
  BY <1>1, <1>2, PopProperties
<1>4. CASE NonePreFor(stack)
  <2>1. \A n \in 1..(Len(stack) - k) : n + k \in 1..Len(stack)
    BY <1>1
  <2>2. NonePreFor(stack')
    BY <1>3, <1>4, <2>1 DEF NonePreFor
  <2> QED
    BY <2>2, NoneIsAhead
<1>5. CASE k = 1
  <2>1. \A n \in 1..Len(stack') : n + 1 \in 1..Len(stack) /\ n + 1 # 1 /\ stack'[n] = stack[n + 1]
    BY <1>1, <1>3, <1>5
  <2>2. ASSUME NEW n \in 1..Len(stack'), PreFor(stack'[n])
        PROVE  n = 1 /\ stack[2] = stack'[n] /\ 2 \in 1..Len(stack) /\ PreFor(stack[2])
    <3>1. n + 1 = 2
      BY <2>1, <2>2 DEF WatchersAhead, WatcherCalls
    <3> QED
      BY <2>1, <2>2, <3>1
  <2>3. WatcherCalls(stack')
    BY <2>2 DEF WatcherCalls
  <2>4. ASSUME InJobLoop', NEW n \in 1..Len(stack'), PreFor(stack'[n])
        PROVE  n = 1 /\ PassedAll(stack'[n], queue', flushIndex' + 1)
    <3>1. n = 1 /\ stack[2] = stack'[n] /\ 2 \in 1..Len(stack) /\ PreFor(stack[2])
      BY <2>2, <2>4
    <3>2. InJobLoop /\ flushIndex' = flushIndex /\ UNCHANGED queue
      <4>1. k = Len(stack) => ~Flushes(stack)
        <5> SUFFICES ASSUME k = Len(stack) PROVE FALSE
          OBVIOUS
        <5> QED
          BY <1>5, <3>1
      <4>2. UNCHANGED queue
        BY DEF EndFunction
      <4>3. SamePlace \/ NextPlace
        BY <4>1, EndPlace
      <4>4. ~NextPlace
        <5> SUFFICES ASSUME NextPlace PROVE FALSE
          OBVIOUS
        <5>1. Flushes(stack') /\ ~(Len(stack') > 1)
          BY DEF NextPlace, InJobLoop, JobStarted, Flushes
        <5>2. Len(stack') = 1 /\ stack'[1].kind = "flush"
          BY <1>1, <1>3, <1>5, <3>1, <5>1 DEF Flushes
        <5> QED
          BY <3>1, <5>2 DEF PreFor
      <4> QED
        BY <2>4, <4>2, <4>3, <4>4 DEF SamePlace
    <3>3. PassedLower(stack[2], queue, flushIndex + 1)
      BY <3>1, <3>2 DEF WatchersAhead
    <3>4. PassedAll(stack[2], queue, flushIndex + 1)
      <4>1. stack[2] \in FrameSet
        BY <1>1, <3>1, ElementOfSeq
      <4>2. stack[2].inst \in -1..Infinity /\ Infinity \in Nat
        BY <4>1, IdAssumption DEF FrameSet
      <4>3. stack[2].inst \in Int
        BY <4>2
      <4> SUFFICES ASSUME NEW m \in (flushIndex + 1 + 1)..stack[2].i
                   PROVE  IdOf[queue[m]] # stack[2].inst
        BY DEF PassedAll
      <4>4. IdOf[queue[m]] < stack[2].inst
        BY <3>3 DEF PassedLower
      <4> QED
        BY <4>3, <4>4
    <3> QED
      BY <3>1, <3>2, <3>4
  <2> QED
    BY <2>3, <2>4 DEF WatchersAhead
<1> QED
  BY <1>4, <1>5

\* One turn of the loop: in a production build it runs every watcher of its
\* component; when it does, the jobs it has passed have lower ids, for the queue
\* is sorted.
LEMMA PreCbAhead ==
  ASSUME ~DEV, TypeOK, TypeOK', Shape, SearchedSorted, WatchersAhead, FlushPreCb
  PROVE  WatchersAhead'
<1> DEFINE cb == queue[top.i + 1]
           run == cb \in PreJobs /\ (top.inst # Infinity => IdOf[cb] = top.inst)
           called == [top EXCEPT !.seen = Counted(@, cb)]
           skipped == [top EXCEPT !.i = @ + 1]
           user == <<UserFrame(cb)>>
           none == <<>>
<1>1. /\ stack # <<>> /\ top \in FrameSet /\ top = stack[1] /\ top.kind = "pre" /\ top.i \in Nat
      /\ Len(stack) \in Nat \ {0} /\ flushIndex \in Nat /\ Len(queue) \in Nat
      /\ top.i < Len(queue) /\ queue \in Seq(Jobs) /\ flushIndex' = flushIndex
  BY TopProperties, LenProperties DEF TypeOK, FlushPreCb, Running, FrameSet
<1>2. /\ run => queue' = RemoveAt(queue, top.i + 1) /\ stack' = Push(user, called)
      /\ ~run => stack' = Push(none, skipped) /\ UNCHANGED queue
  BY DEF FlushPreCb, OverLimit
<1>3. top.i + 1 \in 1..Len(queue) /\ cb \in Jobs /\ cb \in Fns
  <2>1. top.i + 1 \in 1..Len(queue)
    BY <1>1
  <2> QED
    BY <1>1, <2>1, ElementOfSeq DEF Fns
<1>4. /\ called \in FrameSet /\ called.kind = "pre" /\ called.inst = top.inst /\ called.i = top.i
      /\ skipped \in FrameSet /\ skipped.kind = "pre" /\ skipped.inst = top.inst
      /\ skipped.i = top.i + 1
  <2>1. Counted(top.seen, cb) \in [Fns -> Nat]
    BY <1>1, <1>3, FrameTypes DEF FrameSet
  <2> HIDE DEF cb
  <2>2. /\ called \in FrameSet /\ called.kind = top.kind
        /\ called.inst = top.inst /\ called.i = top.i
    BY <1>1, <2>1 DEF FrameSet
  <2>3. /\ skipped \in FrameSet /\ skipped.kind = top.kind
        /\ skipped.inst = top.inst /\ skipped.i = top.i + 1
    <3> DEFINE next == top.i + 1
    <3>1. next \in Nat /\ skipped = [top EXCEPT !.i = next]
      BY <1>1
    <3> HIDE DEF next, skipped
    <3>2. skipped \in FrameSet /\ skipped.kind = top.kind
      BY <1>1, <3>1, EditedFrames
    <3>3. skipped.inst = top.inst /\ skipped.i = next
      BY <1>1, <3>1 DEF FrameSet
    <3> QED
      BY <3>2, <3>3 DEF next
  <2> QED
    BY <1>1, <2>2, <2>3
<1>5. user \in Seq(FrameSet) /\ Len(user) = 1 /\ user[1].kind = "user" /\ user[1].fn = cb
  <2>1. UserFrame(cb) \in FrameSet /\ UserFrame(cb).kind = "user" /\ UserFrame(cb).fn = cb
    BY <1>3, FrameTypes, FrameKinds DEF UserFrame, Frame
  <2> QED
    BY <2>1, OneFrame
<1>6. none \in Seq(FrameSet) /\ Len(none) = 0
  BY EmptySeq
<1>7. \A n \in 2..Len(stack) : ~PreFor(stack[n])
  BY <1>1, BelowPre DEF WatchersAhead
<1>8. InJobLoop' => InJobLoop
  BY SteadyPlace DEF Steady, SamePlace
<1>9. PreFor(top) /\ InJobLoop => PassedAll(top, queue, flushIndex + 1)
  <2>1. 1 \in 1..Len(stack)
    BY <1>1
  <2> QED
    BY <1>1, <2>1 DEF WatchersAhead
<1>10. cb \in PreJobs => IdOf[cb] \in -1..Infinity
  BY <1>3, IdAssumption
<1> HIDE DEF called, skipped, user, none
<1>11. CASE ~run
  <2>1. stack' = Push(none, skipped) /\ UNCHANGED queue
    BY <1>2, <1>11
  <2>2. /\ Len(stack') = Len(stack)
        /\ \A n \in 1..Len(stack) : stack'[n] = IF n = 1 THEN skipped ELSE stack[n]
    <3>1. /\ Len(Push(none, skipped)) = Len(none) + Len(stack)
          /\ \A n \in 1..(Len(none) + Len(stack)) : Push(none, skipped)[n] =
               IF n <= Len(none) THEN none[n]
               ELSE IF n = Len(none) + 1 THEN skipped ELSE stack[n - Len(none)]
      <4>1. stack \in Seq(FrameSet)
        BY DEF TypeOK
      <4> QED
        BY <1>1, <1>4, <1>6, <4>1, PushProperties
    <3> QED
      BY <1>1, <1>6, <2>1, <3>1
  <2>3. ASSUME NEW n \in 1..Len(stack'), PreFor(stack'[n])
        PROVE  n = 1 /\ stack'[n] = skipped /\ PreFor(top)
    <3>1. n = 1
      <4> SUFFICES ASSUME n # 1 PROVE FALSE
        OBVIOUS
      <4>1. n \in 2..Len(stack) /\ stack'[n] = stack[n]
        BY <1>1, <2>2
      <4> QED
        BY <1>7, <2>3, <4>1
    <3> QED
      BY <1>1, <1>4, <2>2, <2>3, <3>1 DEF PreFor
  <2>4. WatcherCalls(stack')
    BY <2>3 DEF WatcherCalls
  <2>5. ASSUME PreFor(top), InJobLoop'
        PROVE  PassedAll(skipped, queue', flushIndex' + 1)
    <3>1. PassedAll(top, queue, flushIndex + 1)
      BY <1>8, <1>9, <2>5
    <3>2. ~(cb \in PreJobs /\ IdOf[cb] = top.inst)
      BY <1>11
    <3> SUFFICES ASSUME NEW m \in (flushIndex + 1 + 1)..(top.i + 1), m <= Len(queue)
                 PROVE  ~(queue[m] \in PreJobs /\ IdOf[queue[m]] = top.inst)
      BY <1>1, <1>4, <2>1 DEF PassedAll
    <3>3. CASE m = top.i + 1
      BY <3>2, <3>3
    <3>4. CASE m # top.i + 1
      <4>1. m \in (flushIndex + 1 + 1)..top.i
        BY <1>1, <3>4
      <4> QED
        BY <3>1, <4>1 DEF PassedAll
    <3> QED
      BY <3>3, <3>4
  <2> QED
    BY <2>3, <2>4, <2>5 DEF WatchersAhead
<1>12. CASE run
  <2>1. stack' = Push(user, called) /\ queue' = RemoveAt(queue, top.i + 1)
    BY <1>2, <1>12
  <2>2. /\ Len(stack') = 1 + Len(stack)
        /\ \A n \in 1..(1 + Len(stack)) : stack'[n] =
             IF n = 1 THEN user[1] ELSE IF n = 2 THEN called ELSE stack[n - 1]
    <3>1. /\ Len(Push(user, called)) = Len(user) + Len(stack)
          /\ \A n \in 1..(Len(user) + Len(stack)) : Push(user, called)[n] =
               IF n <= Len(user) THEN user[n]
               ELSE IF n = Len(user) + 1 THEN called ELSE stack[n - Len(user)]
      <4>1. stack \in Seq(FrameSet)
        BY DEF TypeOK
      <4> QED
        BY <1>1, <1>4, <1>5, <4>1, PushProperties
    <3> QED
      BY <1>1, <1>5, <2>1, <3>1
  <2>3. /\ Len(queue') = Len(queue) - 1
        /\ \A n \in 1..Len(queue') : queue'[n] = IF n < top.i + 1 THEN queue[n] ELSE queue[n + 1]
    <3> DEFINE at == top.i + 1
    <3>1. queue' = RemoveAt(queue, at) /\ at \in 1..Len(queue) /\ queue \in Seq(Jobs)
      BY <1>1, <1>3, <2>1
    <3> HIDE DEF at
    <3>2. /\ Len(queue') = Len(queue) - 1
          /\ \A n \in 1..Len(queue') : queue'[n] = IF n < at THEN queue[n] ELSE queue[n + 1]
      BY <3>1, RemoveAtProperties
    <3> QED
      BY <3>2 DEF at
  <2>4. ASSUME NEW n \in 1..Len(stack'), PreFor(stack'[n])
        PROVE  n = 2 /\ stack'[n] = called /\ PreFor(top)
    <3>1. n # 1
      <4>1. stack'[1].kind = "user"
        <5>1. 1 \in 1..(1 + Len(stack)) /\ user[1].kind = "user"
          BY <1>1, <1>5
        <5>2. stack'[1] = user[1]
          BY <2>2, <5>1
        <5> QED
          BY <5>1, <5>2
      <4> QED
        BY <2>4, <4>1 DEF PreFor
    <3>2. ~(n > 2)
      <4> SUFFICES ASSUME n > 2 PROVE FALSE
        OBVIOUS
      <4>1. n - 1 \in 2..Len(stack) /\ stack'[n] = stack[n - 1]
        BY <1>1, <2>2
      <4> QED
        BY <1>7, <2>4, <4>1
    <3>3. n = 2 /\ stack'[n] = called
      BY <1>1, <2>2, <3>1, <3>2
    <3> QED
      BY <1>1, <1>4, <2>4, <3>3 DEF PreFor
  <2>5. stack'[1].kind = "user" /\ stack'[1].fn = cb
    BY <1>1, <1>5, <2>2
  <2>6. PreFor(top) => InstanceWatcher(cb) /\ IdOf[cb] = top.inst
    BY <1>12 DEF PreFor, InstanceWatcher
  <2>7. WatcherCalls(stack')
    BY <2>4, <2>5, <2>6 DEF WatcherCalls
  <2>8. ASSUME PreFor(top), InJobLoop'
        PROVE  PassedLower(called, queue', flushIndex' + 1)
    <3>1. PassedAll(top, queue, flushIndex + 1) /\ IdOf[cb] = top.inst /\ cb \in PreJobs
      BY <1>8, <1>9, <1>12, <2>6, <2>8
    <3> SUFFICES ASSUME NEW m \in (flushIndex + 1 + 1)..top.i
                 PROVE  IdOf[queue'[m]] < top.inst
      BY <1>1, <1>4, <2>3 DEF PassedLower
    <3>2. m \in 1..Len(queue') /\ m \in 1..Len(queue) /\ m < top.i + 1 /\ m <= Len(queue)
      BY <1>1, <2>3
    <3>3. queue'[m] = queue[m] /\ queue[m] \in Jobs
      BY <1>1, <2>3, <3>2, ElementOfSeq
    <3>4. ~Precedes(cb, queue[m])
      <4>1. /\ m \in (flushIndex + 1 + 1)..Len(queue) /\ top.i + 1 \in (flushIndex + 1 + 1)..Len(queue)
            /\ m < top.i + 1
        BY <1>1, <3>2
      <4> QED
        BY <4>1 DEF SearchedSorted, SortedAfter
    <3>5. ~(queue[m] \in PreJobs /\ IdOf[queue[m]] = top.inst)
      BY <3>1, <3>2 DEF PassedAll
    <3>6. /\ IdOf[queue[m]] \in -1..Infinity /\ IdOf[cb] \in -1..Infinity /\ Infinity \in Nat
          /\ IdOf[cb] # Infinity
      BY <1>3, <2>8, <3>1, <3>3, IdAssumption DEF PreFor
    <3> HIDE DEF cb
    <3> QED
      BY <3>1, <3>3, <3>4, <3>5, <3>6 DEF Precedes
  <2> QED
    BY <2>4, <2>7, <2>8 DEF WatchersAhead
<1> QED
  BY <1>11, <1>12

LEMMA AheadStep ==
  ASSUME ~DEV, QuietWatchers, TypeOK, TypeOK', Shape, Shape', SearchedSorted, WatchersAhead, Next
  PROVE  WatchersAhead'
<1>0. /\ WatcherCalls(stack) /\ stack \in Seq(FrameSet) /\ <<>> \in Seq(FrameSet) /\ Len(<<>>) = 0
      /\ stack' \in Seq(FrameSet)
  BY EmptySeq DEF WatchersAhead, TypeOK
<1>a. ASSUME Running("flush") \/ Running("post") \/ Running("render") \/ stack = <<>>
      PROVE  NonePreFor(stack)
  <2>1. CASE stack = <<>>
    BY <1>0, <2>1 DEF NonePreFor
  <2>2. CASE stack # <<>>
    BY <1>0, <1>a, <2>2, LoudCaller DEF Running
  <2> QED
    BY <2>1, <2>2
<1>b. ASSUME NEW above \in Seq(FrameSet), NonePreFor(above), NEW frame \in FrameSet,
             ~PreFor(frame), NonePreFor(stack), stack # <<>>, stack' = Push(above, frame)
      PROVE  WatchersAhead'
  <2>1. \A n \in 2..Len(stack) : n \in 1..Len(stack)
    BY <1>0, LenProperties
  <2>2. \A n \in 2..Len(stack) : ~PreFor(stack[n])
    BY <1>b, <2>1 DEF NonePreFor
  <2> QED
    BY <1>b, <2>2, PushNone, NoneIsAhead
<1>c. \A frame \in FrameSet : ~PreFor(frame) =>
        <<frame>> \in Seq(FrameSet) /\ NonePreFor(<<frame>>)
  BY OneFrame DEF NonePreFor
<1>d. \A f \in Fns : UserFrame(f) \in FrameSet /\ ~PreFor(UserFrame(f))
  BY FrameTypes, FrameKinds DEF PreFor
<1>1. ASSUME NEW j \in Jobs, queueJob(j) PROVE WatchersAhead'
  <2>1. /\ Running("user") /\ stack' = Calling(<<>>) /\ flushIndex' = flushIndex
        /\ UNCHANGED queue \/ \E k \in 1..(Len(queue) + 1) : Insertion(j, k)
    BY <1>1, QueueJobEffect DEF queueJob, CanCall
  <2>2. InJobLoop' <=> InJobLoop
    BY <1>1, SteadyPlace DEF Steady, SamePlace
  <2> QED
    BY <2>1, <2>2, CallAhead
<1>2. ASSUME \/ \E cb \in Cbs : queuePostFlushCb(cb) \/ queuePostFlushHooks(cb)
             \/ \E c \in Updates, hooks \in Hooks : unmountComponent(c, hooks)
      PROVE  WatchersAhead'
  <2>1. Running("user") /\ stack' = Calling(<<>>) /\ UNCHANGED <<queue, flushIndex>>
    BY <1>2 DEF queuePostFlushCb, queuePostFlushHooks, unmountComponent, Unmount, CanCall
  <2>2. InJobLoop' <=> InJobLoop
    BY <1>2, SteadyPlace DEF Steady, SamePlace
  <2> QED
    BY <2>1, <2>2, CallAhead
<1>3. ASSUME NEW c \in Updates, updateComponent(c) PROVE WatchersAhead'
  <2>1. Running("user") /\ ~InstanceWatcher(top.fn) /\ Patch(c, <<>>)
    BY <1>3, FunctionsAssumption DEF updateComponent, CanCall, IsParentOf, InstanceWatcher
  <2> QED
    BY <1>0, <2>1, PatchAhead
<1>4. ASSUME NEW c \in Updates, renderRoot(c) PROVE WatchersAhead'
  <2>1. Running("user") /\ ~InstanceWatcher(top.fn) /\ Patch(c, <<RenderFrame>>)
    BY <1>4 DEF renderRoot, CanCall, QuietWatchers
  <2>2. <<RenderFrame>> \in Seq(FrameSet)
    BY FrameTypes
  <2> QED
    BY <2>1, <2>2, PatchAhead
<1>5. ASSUME \/ render
             \/ \E cs \in SUBSET Updates, hooks \in Hooks : renderNothing(cs, hooks)
      PROVE  WatchersAhead'
  <2>1. Running("user") /\ ~InstanceWatcher(top.fn) /\ stack' = Calling(<<RenderFrame>>)
    BY <1>5 DEF render, renderNothing, Unmount, CanCall, QuietWatchers
  <2>2. <<RenderFrame>> \in Seq(FrameSet) /\ NonePreFor(<<RenderFrame>>)
    BY <1>c, FrameTypes, FrameKinds DEF PreFor
  <2>3. NonePreFor(stack)
    BY <1>0, <2>1, LoudCaller DEF Running
  <2> QED
    BY <2>1, <2>2, <2>3, CallingNone, NoneIsAhead
<1>6. ASSUME Throw PROVE WatchersAhead'
  <2>1. PICK k \in 1..Len(stack) : EndFunction(k)
    BY <1>6 DEF Throw
  <2>2. Running("user") /\ ~InstanceWatcher(top.fn)
    BY <1>6, FunctionsAssumption DEF Throw, InstanceWatcher
  <2>3. NonePreFor(stack)
    BY <1>0, <2>2, LoudCaller DEF Running
  <2> QED
    BY <2>1, <2>3, EndAheadOfPre
<1>7. ASSUME Return PROVE WatchersAhead'
  <2>1. EndFunction(1) /\ 1 \in 1..Len(stack)
    BY <1>7, TopProperties DEF Return, Running, TypeOK
  <2> QED
    BY <2>1, EndAheadOfPre
<1>8. ASSUME StartTask PROVE WatchersAhead'
  <2>1. stack' = <<UserFrame(Main)>> /\ Main \in Fns
    BY <1>8 DEF StartTask, Fns
  <2> QED
    BY <1>c, <1>d, <2>1, NoneIsAhead
<1>9. ASSUME NEW seen \in [Fns -> Nat], BeginFlush(seen) PROVE WatchersAhead'
  <2>1. FlushFrame(seen) \in FrameSet /\ ~PreFor(FlushFrame(seen)) /\ stack' = <<FlushFrame(seen)>>
    BY <1>9, FrameTypes, FrameKinds DEF PreFor, BeginFlush
  <2> QED
    BY <1>c, <2>1, NoneIsAhead
<1>10. ASSUME StartFlush PROVE WatchersAhead'
  BY <1>9, <1>10, FrameTypes DEF StartFlush
<1>11. ASSUME FlushJob PROVE WatchersAhead'
  <2> DEFINE job == queue[flushIndex + 1]
             frame == [top EXCEPT !.seen = Counted(@, job)]
             user == <<UserFrame(job)>>
  <2>1. /\ Running("flush") /\ flushIndex < Len(queue)
        /\ stack' = stack \/ stack' = Push(user, frame)
    BY <1>11 DEF FlushJob
  <2>2. stack # <<>> /\ top \in FrameSet /\ top.kind = "flush"
    BY <2>1, TopProperties DEF Running, TypeOK
  <2>3. job \in Fns
    <3>1. flushIndex + 1 \in 1..Len(queue)
      BY <2>1, LenProperties DEF TypeOK
    <3> QED
      BY <3>1, ElementOfSeq DEF TypeOK, Fns
  <2>4. user \in Seq(FrameSet) /\ NonePreFor(user)
    BY <1>c, <1>d, <2>3
  <2>5. frame \in FrameSet /\ ~PreFor(frame)
    <3>1. Counted(top.seen, job) \in [Fns -> Nat]
      BY <2>2, <2>3, FrameTypes DEF FrameSet
    <3> HIDE DEF job
    <3> QED
      BY <2>2, <3>1 DEF FrameSet, PreFor
  <2>6. NonePreFor(stack)
    BY <1>a, <2>1
  <2> HIDE DEF user, frame
  <2>7. CASE stack' = stack
    BY <2>6, <2>7, NoneIsAhead
  <2> QED
    BY <1>b, <2>1, <2>2, <2>4, <2>5, <2>6, <2>7
<1>12. ASSUME NEW under \in Seq(FrameSet), NEW seen \in [Fns -> Nat],
              NonePreFor(under), flushPostFlushCbs(under, seen)
       PROVE  WatchersAhead'
  <2>1. stack' = under \/ stack' = <<PostFrame(seen)>> \o under
    BY <1>12 DEF flushPostFlushCbs
  <2>2. CASE stack' = under
    BY <1>12, <2>2, NoneIsAhead
  <2>3. CASE stack' = <<PostFrame(seen)>> \o under
    <3> DEFINE post == <<PostFrame(seen)>>
    <3>1. PostFrame(seen) \in FrameSet /\ ~PreFor(PostFrame(seen))
      BY FrameTypes, FrameKinds DEF PreFor
    <3>2. post \in Seq(FrameSet) /\ Len(post) = 1 /\ ~PreFor(post[1]) /\ stack' = post \o under
      BY <2>3, <3>1, OneFrame
    <3> HIDE DEF post
    <3>3. /\ Len(stack') = Len(post) + Len(under) /\ Len(under) \in Nat
          /\ \A n \in 1..(Len(post) + Len(under)) :
               stack'[n] = IF n <= Len(post) THEN post[n] ELSE under[n - Len(post)]
      BY <3>2, ConcatProperties, LenProperties
    <3>4. ASSUME NEW n \in 1..Len(stack') PROVE ~PreFor(stack'[n])
      <4>1. CASE n = 1
        BY <3>2, <3>3, <4>1
      <4>2. CASE n # 1
        <5>1. n - 1 \in 1..Len(under) /\ stack'[n] = under[n - 1]
          BY <3>2, <3>3, <4>2
        <5> QED
          BY <1>12, <5>1 DEF NonePreFor
      <4> QED
        BY <4>1, <4>2
    <3> QED
      BY <3>4, NoneIsAhead DEF NonePreFor
  <2> QED
    BY <2>1, <2>2, <2>3
<1>13. ASSUME FlushQueueDone PROVE WatchersAhead'
  <2> DEFINE frame == [top EXCEPT !.i = 1]
  <2>1. Running("flush") /\ flushPostFlushCbs(Push(<<>>, frame), top.seen)
    BY <1>13 DEF FlushQueueDone
  <2>2. /\ top \in FrameSet /\ top.kind = "flush" /\ top.seen \in [Fns -> Nat]
        /\ \A f \in FrameSet : Push(<<>>, f) = <<f>>
    BY <2>1, FlushOnTop DEF Running, FrameSet
  <2>3. frame \in FrameSet /\ ~PreFor(frame)
    BY <2>2 DEF FrameSet, PreFor
  <2>4. Push(<<>>, frame) = <<frame>> /\ <<frame>> \in Seq(FrameSet) /\ NonePreFor(<<frame>>)
    BY <1>c, <2>2, <2>3
  <2> HIDE DEF frame
  <2> QED
    BY <1>12, <2>1, <2>2, <2>4
<1>14. ASSUME FlushDone PROVE WatchersAhead'
  <2>1. Running("flush") /\ (BeginFlush(top.seen) \/ stack' = <<>>)
    BY <1>14 DEF FlushDone
  <2>2. top.seen \in [Fns -> Nat]
    BY <2>1, FlushOnTop DEF FrameSet
  <2>3. CASE stack' = <<>>
    BY <1>0, <2>3, NoneIsAhead DEF NonePreFor
  <2> QED
    BY <1>9, <2>1, <2>2, <2>3
<1>15. ASSUME FlushPreDone PROVE WatchersAhead'
  <2>1. Running("pre") /\ stack' = Tail(stack)
    BY <1>15 DEF FlushPreDone
  <2>2. /\ Len(stack) \in Nat /\ Len(stack') = Len(stack) - 1
        /\ \A n \in 1..(Len(stack) - 1) : stack'[n] = stack[n + 1]
    BY <1>0, <2>1, TopProperties DEF Running
  <2>3. \A n \in 2..Len(stack) : ~PreFor(stack[n])
    BY <1>0, <2>1, BelowPre DEF Running
  <2>4. \A n \in 1..Len(stack') : n + 1 \in 2..Len(stack) /\ stack'[n] = stack[n + 1]
    BY <2>2
  <2> QED
    BY <2>3, <2>4, NoneIsAhead DEF NonePreFor
<1>16. ASSUME FlushPostCb PROVE WatchersAhead'
  <2> DEFINE cb == activePostFlushCbs[postFlushIndex + 1]
             frame == [top EXCEPT !.seen = Counted(@, cb)]
             user == <<UserFrame(cb)>>
  <2>1. /\ Running("post") /\ postFlushIndex < Len(activePostFlushCbs)
        /\ stack' = stack \/ stack' = Push(user, frame)
    BY <1>16 DEF FlushPostCb
  <2>2. stack # <<>> /\ top \in FrameSet /\ top.kind = "post"
    BY <2>1, TopProperties DEF Running, TypeOK
  <2>3. cb \in Fns
    <3>1. postFlushIndex + 1 \in 1..Len(activePostFlushCbs)
      BY <2>1, LenProperties DEF TypeOK
    <3> QED
      BY <3>1, ElementOfSeq DEF TypeOK, Fns
  <2>4. user \in Seq(FrameSet) /\ NonePreFor(user)
    BY <1>c, <1>d, <2>3
  <2>5. frame \in FrameSet /\ ~PreFor(frame)
    <3>1. Counted(top.seen, cb) \in [Fns -> Nat]
      BY <2>2, <2>3, FrameTypes DEF FrameSet
    <3> HIDE DEF cb
    <3> QED
      BY <2>2, <3>1 DEF FrameSet, PreFor
  <2>6. NonePreFor(stack)
    BY <1>a, <2>1
  <2> HIDE DEF user, frame
  <2>7. CASE stack' = stack
    BY <2>6, <2>7, NoneIsAhead
  <2> QED
    BY <1>b, <2>1, <2>2, <2>4, <2>5, <2>6, <2>7
<1>17. ASSUME FlushPostDone PROVE WatchersAhead'
  <2>1. /\ Running("post")
        /\ stack' = [k \in 1..(Len(stack) - 1) |->
                       IF k = 1 /\ stack[2].kind = "flush"
                       THEN [stack[2] EXCEPT !.seen = top.seen] ELSE stack[k + 1]]
    BY <1>17 DEF FlushPostDone
  <2>2. Len(stack) \in Nat \ {0} /\ NonePreFor(stack)
    BY <1>0, <1>a, <2>1, TopProperties DEF Running
  <2>3. DOMAIN stack' = 1..(Len(stack) - 1) /\ DOMAIN stack' = 1..Len(stack')
    BY <1>0, <2>1, LenProperties
  <2> SUFFICES ASSUME NEW k \in 1..(Len(stack) - 1) PROVE ~PreFor(stack'[k])
    BY <2>3, NoneIsAhead DEF NonePreFor
  <2>4. k + 1 \in 1..Len(stack) /\ (k = 1 => 2 \in 1..Len(stack))
    BY <2>2
  <2>5. ~PreFor(stack[k + 1]) /\ stack[k + 1] \in FrameSet
    BY <1>0, <2>2, <2>4, ElementOfSeq DEF NonePreFor
  <2>6. CASE k = 1 /\ stack[2].kind = "flush"
    <3>1. stack'[k] = [stack[2] EXCEPT !.seen = top.seen] /\ stack[2] \in FrameSet
      BY <2>1, <2>5, <2>6
    <3>2. stack'[k].kind = stack[2].kind
      BY <3>1 DEF FrameSet
    <3> QED
      BY <2>6, <3>2 DEF PreFor
  <2>7. CASE ~(k = 1 /\ stack[2].kind = "flush")
    BY <2>1, <2>5, <2>7
  <2> QED
    BY <2>6, <2>7
<1>18. ASSUME RenderFlushPre PROVE WatchersAhead'
  <2> DEFINE frame == [top EXCEPT !.i = 1]
             pre == <<PreFrame(Infinity)>>
  <2>1. Running("render") /\ stack' = Push(pre, frame)
    BY <1>18 DEF RenderFlushPre
  <2>2. stack # <<>> /\ top \in FrameSet /\ top.kind = "render"
    BY <2>1, TopProperties DEF Running, TypeOK
  <2>3. frame \in FrameSet /\ ~PreFor(frame)
    BY <2>2 DEF FrameSet, PreFor
  <2>4. PreFrame(Infinity) \in FrameSet /\ ~PreFor(PreFrame(Infinity))
    <3>1. Infinity \in -1..Infinity /\ flushIndex \in Nat
      BY IdAssumption DEF TypeOK
    <3>2. PreFrame(Infinity).inst = Infinity
      BY DEF PreFrame, Frame
    <3> QED
      BY <3>1, <3>2, FrameTypes DEF PreFor
  <2>5. pre \in Seq(FrameSet) /\ NonePreFor(pre)
    BY <1>c, <2>4
  <2>6. NonePreFor(stack)
    BY <1>a, <2>1
  <2> HIDE DEF pre, frame
  <2> QED
    BY <1>b, <2>1, <2>2, <2>3, <2>5, <2>6
<1>19. ASSUME RenderFlushPost PROVE WatchersAhead'
  <2>1. Running("render") /\ flushPostFlushCbs(Tail(stack), NoneSeen)
    BY <1>19 DEF RenderFlushPost
  <2>2. /\ Tail(stack) \in Seq(FrameSet) /\ Len(Tail(stack)) = Len(stack) - 1
        /\ \A n \in 1..(Len(stack) - 1) : Tail(stack)[n] = stack[n + 1]
        /\ Len(stack) \in Nat
    BY <1>0, <2>1, TopProperties DEF Running
  <2>3. NonePreFor(stack)
    BY <1>a, <2>1
  <2>4. NonePreFor(Tail(stack))
    <3>1. \A n \in 1..(Len(stack) - 1) : n + 1 \in 1..Len(stack)
      BY <2>2
    <3> QED
      BY <2>2, <2>3, <3>1 DEF NonePreFor
  <2> QED
    BY <1>12, <2>1, <2>2, <2>4, FrameTypes
<1>20. ASSUME FlushPreCb PROVE WatchersAhead'
  BY <1>20, PreCbAhead
<1> QED
  BY <1>1, <1>2, <1>3, <1>4, <1>5, <1>6, <1>7, <1>8, <1>10, <1>11, <1>13, <1>14, <1>15,
     <1>16, <1>17, <1>18, <1>19, <1>20 DEF Next, UserCall, Proceed

LEMMA NeitherNoneNorOne == \A n \in Nat : 1 \in 1..n /\ n # 1 => n > 1
OBVIOUS

LEMMA AheadInit == Init => WatchersAhead
<1> SUFFICES ASSUME Init PROVE WatchersAhead
  OBVIOUS
<1>1. Len(stack) = 0
  BY EmptySeq DEF Init
<1> QED
  BY <1>1 DEF WatchersAhead, WatcherCalls

\* In a production build, and when no watcher of a component calls render(): the
\* watchers of a component that its parent updates have all run before it
\* renders, whatever they queued.  (In a development build the recursion limit
\* leaves some in the queue; a watcher that calls render() has jobs taken out
\* before the index of the loop that runs it, which then skips a watcher.)
THEOREM WatchersBeforeRenderCorrect ==
  ASSUME ~DEV, QuietWatchers
  PROVE  Spec => []WatchersBeforeRender
<1>1. TypeOK /\ TypeOK' /\ Shape /\ Shape' /\ SearchedSorted /\ WatchersAhead /\ [Next]_vars
        => WatchersAhead'
  <2>1. WatchersAhead /\ UNCHANGED vars => WatchersAhead'
    BY DEF WatchersAhead, WatcherCalls, PassedAll, PassedLower, InJobLoop, vars
  <2> QED
    BY <2>1, AheadStep
<1>2. TypeOK /\ Shape /\ WatchersAhead => WatchersBeforeRender
  <2> SUFFICES ASSUME TypeOK, Shape, WatchersAhead, InJobLoop, Running("pre"),
                      top.i >= Len(queue), top.inst # Infinity,
                      NEW k \in (Ahead + 1)..Len(queue), queue[k] \in PreJobs
               PROVE  IdOf[queue[k]] # top.inst
    BY DEF WatchersBeforeRender, WatchersFlushed
  <2>1. /\ top = stack[1] /\ 1 \in 1..Len(stack) /\ Len(stack) \in Nat /\ stack # <<>>
        /\ top.i \in Nat /\ PreFor(stack[1]) /\ Len(queue) \in Nat /\ flushIndex \in Nat
    <3>1. stack # <<>> /\ top.kind = "pre" /\ Len(queue) \in Nat /\ flushIndex \in Nat
      BY LenProperties DEF Running, TypeOK
    <3>2. top = stack[1] /\ Len(stack) \in Nat \ {0} /\ top \in FrameSet
      BY <3>1, TopProperties DEF TypeOK
    <3> QED
      BY <3>1, <3>2 DEF FrameSet, PreFor
  <2>2. JobStarted
    <3>1. Len(stack) # 1
      BY <2>1 DEF InJobLoop, PreFor
    <3>2. Len(stack) > 1
      BY <2>1, <3>1, NeitherNoneNorOne, Zenon
    <3> QED
      BY <3>2 DEF JobStarted
  <2>3. k \in (flushIndex + 1 + 1)..stack[1].i /\ k <= Len(queue)
    BY <2>1, <2>2 DEF Ahead
  <2>4. PassedAll(stack[1], queue, flushIndex + 1)
    BY <2>1 DEF WatchersAhead
  <2> QED
    BY <2>1, <2>3, <2>4 DEF PassedAll
<1> QED
  BY <1>1, <1>2, AheadInit, TypeCorrect, ShapeCorrect, SearchedSortedCorrect, PTL DEF Spec

------------------------------------------------------------------------------
(* The scheduler serves what it is asked for.  The abstract state is the    *)
(* history variable, whether a flush runs or is scheduled, and the job at   *)
(* flushIndex once it is started.  That the job started goes first is       *)
(* NoLostJob (all that is owed is ahead) and QueueSorted (nothing ahead     *)
(* goes before the next); that nothing is owed at rest is NoLostJob and     *)
(* NoLostPostCb over empty queues.                                          *)

Armed == isFlushing \/ isFlushPending

Serving == IF JobStarted THEN queue[flushIndex + 1] ELSE Main

Serves == [Service!Next]_Service!vars

LEMMA ServesStutter ==
  ASSUME UNCHANGED <<owed, Armed, Serving>>
  PROVE  Serves
BY DEF Armed, Serving, Serves, Service!vars

LEMMA ServesAsk ==
  ASSUME NEW f \in Jobs \union Cbs, owed' \in {owed, owed \union {f}}, Armed', UNCHANGED Serving
  PROVE  Serves
<1>1. Service!Ask(f)
  BY DEF Armed, Serving, Service!Ask
<1>2. f \in Service!Jobs \union Cbs
  BY DEF Jobs, Service!Jobs
<1> QED
  BY <1>1, <1>2 DEF Serves, Service!Next

LEMMA ServesSettle ==
  ASSUME NEW us \in SUBSET Updates, NEW hooks \in SUBSET Cbs, owed' = (owed \ us) \union hooks,
         Armed' <=> Armed \/ hooks # {}, UNCHANGED Serving
  PROVE  Serves
<1>1. Service!Settle(us)
  BY DEF Armed, Serving, Service!Settle
<1> QED
  BY <1>1 DEF Serves, Service!Next

LEMMA ServesRun ==
  ASSUME NEW f \in PreJobs \union Cbs, owed' = owed \ {f}, UNCHANGED <<Armed, Serving>>
  PROVE  Serves
<1>1. Service!Run(f)
  BY DEF Armed, Serving, Service!Run
<1> QED
  BY <1>1 DEF Serves, Service!Next

\* What is done to the queue under a job leaves the job in its place.
LEMMA SameServing ==
  ASSUME TypeOK, TypeOK', Shape, SamePlace, QueueEffect
  PROVE  UNCHANGED Serving
<1>1. CASE ~JobStarted
  BY <1>1 DEF Serving, SamePlace
<1>2. CASE JobStarted
  <2>1. /\ flushIndex \in Nat /\ Len(queue) \in Nat /\ flushIndex < Len(queue)
        /\ Ahead = flushIndex + 1
    BY <1>2, AheadRange DEF Shape
  <2>2. flushIndex + 1 \in 1..Len(queue)
    BY <2>1
  <2>3. queue'[flushIndex + 1] = queue[flushIndex + 1]
    <3>1. CASE UNCHANGED queue
      BY <3>1
    <3>2. ASSUME NEW j \in Jobs, NEW k \in 1..(Len(queue) + 1), Insertion(j, k)
          PROVE  queue'[flushIndex + 1] = queue[flushIndex + 1]
      <4>1. k > flushIndex + 1
        BY <2>1, <3>2, InsertedAhead
      <4>2. flushIndex + 1 \in 1..Len(queue') /\ flushIndex + 1 < k
        BY <2>1, <3>2, <4>1, InsertedElements
      <4> QED
        BY <3>2, <4>2, InsertedElements
    <3>3. ASSUME NEW k \in 1..Len(queue), Removal(k)
          PROVE  queue'[flushIndex + 1] = queue[flushIndex + 1]
      <4>1. k > flushIndex + 1
        BY <2>1, <3>3 DEF Removal
      <4>2. flushIndex + 1 \in 1..Len(queue') /\ flushIndex + 1 < k
        BY <2>1, <3>3, <4>1, RemovedElements
      <4> QED
        BY <3>3, <4>2, RemovedElements
    <3> QED
      BY <3>1, <3>2, <3>3 DEF QueueEffect
  <2> QED
    BY <1>2, <2>3 DEF Serving, SamePlace
<1> QED
  BY <1>1, <1>2

LEMMA SteadyServes ==
  ASSUME TypeOK, TypeOK', Shape, Shape', Steady
  PROVE  Serves
<1> USE DEF postVars
<1>a. SamePlace /\ QueueEffect
  BY SteadyPlace, SteadyEffect
<1>b. UNCHANGED <<isFlushing, Serving>>
  BY <1>a, SameServing DEF SamePlace
<1>1. ASSUME NEW j \in Jobs, queueJob(j) PROVE Serves
  <2>1. owed' \in {owed, owed \union {j}}
    BY <1>1 DEF queueJob
  <2>2. Armed'
    <3>1. CASE isFlushPending' = (isFlushPending \/ ~isFlushing)
      BY <1>b, <3>1 DEF Armed, TypeOK
    <3>2. CASE UNCHANGED <<queue, isFlushPending>> /\ Includes(queue, j, DedupeFrom(j))
      <4>1. queue # <<>>
        <5>1. PICK n \in (DedupeFrom(j) + 1)..Len(queue) : queue[n] = j
          BY <3>2 DEF Includes
        <5>2. DedupeFrom(j) \in Nat /\ Len(queue) \in Nat
          BY AheadRange DEF DedupeFrom
        <5> QED
          BY <5>1, <5>2, EmptySeq
      <4> QED
        BY <1>b, <3>2, <4>1 DEF Armed, Shape
    <3> QED
      BY <1>1, <3>1, <3>2, QueueJobEffect
  <2> QED
    BY <1>b, <2>1, <2>2, ServesAsk
<1>2. ASSUME NEW cb \in Cbs, queuePostFlushCb(cb) \/ queuePostFlushHooks(cb)
      PROVE  Serves
  <2>1. owed' \in {owed, owed \union {cb}} /\ queueFlush
    BY <1>2 DEF queuePostFlushCb, queuePostFlushHooks
  <2>2. Armed'
    BY <1>b, <2>1 DEF Armed, queueFlush, TypeOK
  <2> QED
    BY <1>b, <2>1, <2>2, ServesAsk
<1>3. ASSUME NEW c \in Updates, updateComponent(c) \/ renderRoot(c)
      PROVE  Serves
  <2> DEFINE hooks == {}
  <2>1. owed' = (owed \ {c}) \union hooks /\ UNCHANGED isFlushPending
    BY <1>3 DEF updateComponent, renderRoot, Patch
  <2>2. hooks \in SUBSET Cbs /\ ~(hooks # {})
    OBVIOUS
  <2> HIDE DEF hooks
  <2>3. Armed' <=> Armed \/ hooks # {}
    BY <1>b, <2>1, <2>2 DEF Armed
  <2> QED
    BY <1>b, <2>1, <2>2, <2>3, ServesSettle
<1>4. ASSUME NEW cs \in SUBSET Updates, NEW hooks \in Hooks, NEW frames,
             Unmount(cs, hooks, frames)
      PROVE  Serves
  <2>1. /\ owed' = (owed \ cs) \union ToSet(hooks)
        /\ hooks = <<>> => UNCHANGED isFlushPending
        /\ hooks # <<>> => queueFlush
    BY <1>4 DEF Unmount
  <2>2. ToSet(hooks) \subseteq Cbs /\ (hooks = <<>> <=> ToSet(hooks) = {})
    BY HooksType
  <2>3. Armed' <=> Armed \/ ToSet(hooks) # {}
    BY <1>b, <2>1, <2>2 DEF Armed, queueFlush, TypeOK
  <2> QED
    BY <1>b, <2>1, <2>2, <2>3, ServesSettle
<1>4a. ASSUME NEW c \in Updates, NEW hooks \in Hooks, unmountComponent(c, hooks)
       PROVE  Serves
  BY <1>4, <1>4a DEF unmountComponent
<1>4b. ASSUME NEW cs \in SUBSET Updates, NEW hooks \in Hooks, renderNothing(cs, hooks)
       PROVE  Serves
  BY <1>4, <1>4b DEF renderNothing
<1>5. ASSUME FlushPreCb PROVE Serves
  <2>1. UNCHANGED Armed
    BY <1>5, <1>b DEF FlushPreCb, Armed
  <2>2. UNCHANGED owed \/ \E cb \in PreJobs : owed' = owed \ {cb}
    BY <1>5 DEF FlushPreCb
  <2> QED
    BY <1>b, <2>1, <2>2, ServesStutter, ServesRun
<1>6. ASSUME FlushPostCb PROVE Serves
  <2>1. postFlushIndex + 1 \in 1..Len(activePostFlushCbs)
    BY <1>6, LenProperties DEF FlushPostCb, TypeOK
  <2>2. activePostFlushCbs[postFlushIndex + 1] \in Cbs
    BY <2>1, ElementOfSeq DEF TypeOK
  <2>3. owed' = owed \ {activePostFlushCbs[postFlushIndex + 1]} /\ UNCHANGED isFlushPending
    BY <1>6 DEF FlushPostCb
  <2>4. UNCHANGED Armed
    BY <1>b, <2>3 DEF Armed
  <2> QED
    BY <1>b, <2>2, <2>3, <2>4, ServesRun
<1>7. ASSUME render \/ FlushPreDone \/ FlushPostDone \/ RenderFlushPre \/ RenderFlushPost
      PROVE  Serves
  <2>1. UNCHANGED <<owed, isFlushPending>>
    BY <1>7 DEF render, FlushPreDone, FlushPostDone, RenderFlushPre, RenderFlushPost
  <2>2. UNCHANGED Armed
    BY <1>b, <2>1 DEF Armed
  <2> QED
    BY <1>b, <2>1, <2>2, ServesStutter
<1> QED
  BY <1>1, <1>2, <1>3, <1>4a, <1>4b, <1>5, <1>6, <1>7 DEF Steady

\* A function ends: the job of the flush, or one above it.
LEMMA EndServes ==
  ASSUME TypeOK, Shape, NEW k \in 1..Len(stack), EndFunction(k),
         k = Len(stack) => ~Flushes(stack)
  PROVE  Serves
<1>1. SamePlace \/ NextPlace
  BY EndPlace
<1>2. UNCHANGED <<queue, owed, isFlushing, isFlushPending>>
  BY DEF EndFunction
<1>3. UNCHANGED Armed
  BY <1>2 DEF Armed
<1>4. CASE SamePlace
  <2>1. UNCHANGED Serving
    BY <1>2, <1>4 DEF SamePlace, Serving
  <2> QED
    BY <1>2, <1>3, <2>1, ServesStutter
<1>5. CASE NextPlace
  <2>1. JobStarted /\ ~JobStarted'
    BY <1>5 DEF NextPlace
  <2>2. queue[flushIndex + 1] # Main
    <3>1. flushIndex + 1 \in 1..Len(queue)
      BY <2>1, AheadRange DEF Shape
    <3>2. queue[flushIndex + 1] \in Jobs
      BY <3>1, ElementOfSeq DEF TypeOK
    <3> QED
      BY <3>2, FunctionsAssumption
  <2>3. Serving # Main /\ Serving' = Main
    BY <2>1, <2>2 DEF Serving
  <2>4. Service!End
    BY <1>2, <1>3, <2>3 DEF Armed, Serving, Service!End
  <2> QED
    BY <2>4 DEF Serves, Service!Next
<1> QED
  BY <1>1, <1>4, <1>5

\* The job at flushIndex goes first.
LEMMA NextIsFirst ==
  ASSUME TypeOK, Shape, NoLostJob, QueueSorted, InJobLoop, ~JobStarted,
         flushIndex < Len(queue)
  PROVE  /\ queue[flushIndex + 1] \in Jobs
         /\ Service!First(queue[flushIndex + 1])
<1> DEFINE next == queue[flushIndex + 1]
<1>1. flushIndex \in Nat /\ Ahead = flushIndex /\ Len(queue) \in Nat
  BY AheadRange
<1>2. flushIndex + 1 \in 1..Len(queue) /\ flushIndex + 1 \in (Ahead + 1)..Len(queue)
  BY <1>1
<1>3. next \in Jobs
  BY <1>2, ElementOfSeq DEF TypeOK
<1>4. ASSUME NEW m \in owed \intersect Jobs PROVE ~Precedes(m, next)
  <2>1. PICK n \in (Ahead + 1)..Len(queue) : queue[n] = m
    BY <1>4 DEF NoLostJob, Includes
  <2>2. CASE n = flushIndex + 1
    BY <1>3, <2>1, <2>2, Ordering
  <2>3. CASE n # flushIndex + 1
    <3>1. flushIndex + 1 < n
      BY <1>1, <2>1, <2>3
    <3> QED
      BY <1>2, <2>1, <3>1 DEF QueueSorted
  <2> QED
    BY <2>2, <2>3
<1> HIDE DEF next
<1>5. Service!First(next)
  BY <1>4 DEF Service!First, Service!Jobs, Jobs
<1> QED
  BY <1>3, <1>5 DEF next

LEMMA JobServes ==
  ASSUME TypeOK, Shape, NoLostJob, QueueSorted, FlushJob
  PROVE  Serves
<1> DEFINE next == queue[flushIndex + 1]
<1>1. /\ Running("flush") /\ top.i = 0 /\ flushIndex < Len(queue)
      /\ owed' = owed \ {next}
      /\ UNCHANGED <<queue, isFlushing, isFlushPending>>
  BY DEF FlushJob
<1>2. InJobLoop /\ ~JobStarted /\ Armed /\ Armed'
  <2>1. InJobLoop /\ Len(stack) = 1 /\ isFlushing
    BY <1>1, FlushOnTop
  <2>2. ~JobStarted
    BY <2>1 DEF JobStarted
  <2>3. isFlushing'
    BY <1>1, <2>1
  <2> QED
    BY <2>1, <2>2, <2>3 DEF Armed
<1>3. next \in Jobs /\ Service!First(next)
  BY <1>1, <1>2, NextIsFirst
<1>4. next \in Service!Jobs
  BY <1>3 DEF Jobs, Service!Jobs
<1>5. Ahead = flushIndex /\ flushIndex \in Nat
  BY <1>2, AheadRange
<1>6. CASE flushIndex' = flushIndex
  <2>1. JobStarted'
    BY <1>6, FlushJobCalls
  <2>2. Serving = Main /\ Serving' = next
    BY <1>1, <1>2, <1>6, <2>1 DEF Serving
  <2> HIDE DEF next
  <2>3. Service!Start(next)
    BY <1>1, <1>2, <1>3, <2>2 DEF Armed, Serving, Service!Start
  <2> QED
    BY <1>4, <2>3 DEF Serves, Service!Next
<1>7. CASE flushIndex' # flushIndex
  <2>1. ~JobStarted'
    <3>1. UNCHANGED stack
      BY <1>7 DEF FlushJob
    <3> QED
      BY <1>2, <3>1 DEF JobStarted, InJobLoop
  <2>2. Serving = Main /\ Serving' = Main
    BY <1>2, <2>1 DEF Serving
  <2> HIDE DEF next
  <2>3. Service!GiveUp(next)
    BY <1>1, <1>2, <1>3, <2>2 DEF Armed, Serving, Service!GiveUp
  <2> QED
    BY <1>4, <2>3 DEF Serves, Service!Next
<1> QED
  BY <1>6, <1>7

\* A flush that ends owes nothing.
LEMMA RestServes ==
  ASSUME TypeOK, Shape, PostShape, NoLostJob, NoLostPostCb, Running("flush"), top.i = 1,
         queue = <<>>, pendingPostFlushCbs = <<>>, isFlushing' = FALSE, stack' = <<>>,
         UNCHANGED <<owed, isFlushPending>>
  PROVE  Serves
<1>1. Len(stack) = 1 /\ top = stack[1] /\ isFlushing /\ ~InJobLoop
  BY FlushOnTop
<1>2. Serving = Main /\ Serving' = Main
  BY <1>1 DEF Serving, JobStarted, InJobLoop
<1>3. ~Armed'
  BY <1>1 DEF Armed, Shape
<1>4. owed \intersect Jobs = {}
  <2>1. Len(queue) = 0 /\ Ahead \in Nat
    BY EmptySeq, AheadRange
  <2>2. \A a \in Nat : (a + 1)..0 = {}
    OBVIOUS
  <2> QED
    BY <2>1, <2>2 DEF NoLostJob, Includes
<1>5. owed \intersect Cbs = {}
  <2>1. activePostFlushCbs = <<>>
    BY <1>1 DEF PostShape, Running
  <2>2. Len(activePostFlushCbs) = 0 /\ Len(pendingPostFlushCbs) = 0
    BY <2>1, EmptySeq
  <2>3. \A a \in Nat : (a + 1)..0 = {}
    OBVIOUS
  <2>4. BatchFrom \in Nat /\ 0 \in Nat
    BY DEF BatchFrom, TypeOK
  <2>5. \A cb \in Cbs : /\ ~Includes(pendingPostFlushCbs, cb, 0)
                        /\ ~Includes(activePostFlushCbs, cb, BatchFrom)
    BY <2>2, <2>3, <2>4 DEF Includes
  <2> QED
    BY <2>5, PostNames
<1>6. owed = {}
  BY <1>4, <1>5 DEF TypeOK
<1>7. Service!Rest
  BY <1>2, <1>3, <1>6 DEF Armed, Serving, Service!Rest
<1> QED
  BY <1>7 DEF Serves, Service!Next

LEMMA ServesStep ==
  ASSUME TypeOK, TypeOK', Shape, Shape', PostShape, NoLostJob, NoLostPostCb, QueueSorted, Next
  PROVE  Serves
<1>0. Len(stack) \in Nat /\ (stack # <<>> => Len(stack) > 0)
  BY LenProperties, EmptySeq DEF TypeOK
<1>1. CASE Steady
  BY <1>1, SteadyServes
<1>2. CASE Return
  <2>1. 1 \in 1..Len(stack) /\ EndFunction(1) /\ top = stack[1] /\ top.kind = "user"
    BY <1>0, <1>2, TopProperties DEF Return, Running, TypeOK
  <2>2. 1 = Len(stack) => ~Flushes(stack)
    BY <2>1 DEF Flushes
  <2> QED
    BY <2>1, <2>2, EndServes
<1>3. CASE Throw
  <2>1. PICK k \in 1..Len(stack) :
          /\ EndFunction(k)
          /\ stack[k].kind = "user" \/ k < Len(stack)
    BY <1>3 DEF Throw
  <2>2. k = Len(stack) => ~Flushes(stack)
    BY <1>0, <2>1 DEF Flushes
  <2> QED
    BY <2>1, <2>2, EndServes
<1>4. CASE StartTask
  <2>1. ~JobStarted /\ ~JobStarted'
    <3>1. UserFrame(Main) \in FrameSet /\ UserFrame(Main).kind = "user"
      BY FrameTypes, FrameKinds DEF Fns
    <3>2. stack = <<>> /\ Len(stack') = 1
      BY <1>4, <3>1, OneFrame DEF StartTask
    <3> QED
      BY <3>2 DEF JobStarted, InJobLoop
  <2>2. UNCHANGED <<owed, Armed, Serving>>
    BY <1>4, <2>1 DEF StartTask, Armed, Serving
  <2> QED
    BY <2>2, ServesStutter
<1>5. ASSUME NEW seen \in [Fns -> Nat], BeginFlush(seen), Armed, ~JobStarted, UNCHANGED owed
      PROVE  Serves
  <2>1. FlushFrame(seen) \in FrameSet
    BY FrameTypes
  <2>2. Len(stack') = 1 /\ isFlushing'
    BY <1>5, <2>1, OneFrame DEF BeginFlush
  <2>3. UNCHANGED <<Armed, Serving>>
    BY <1>5, <2>2 DEF Armed, Serving, JobStarted, TypeOK
  <2> QED
    BY <1>5, <2>3, ServesStutter
<1>6. CASE StartFlush
  <2>1. NoneSeen \in [Fns -> Nat]
    BY FrameTypes
  <2>2. BeginFlush(NoneSeen) /\ Armed /\ ~JobStarted /\ UNCHANGED owed
    BY <1>6 DEF StartFlush, Armed, JobStarted, InJobLoop
  <2> QED
    BY <1>5, <2>1, <2>2
<1>7. CASE FlushJob
  BY <1>7, JobServes
<1>8. CASE FlushQueueDone
  <2>1. Running("flush") /\ UNCHANGED <<owed, isFlushing, isFlushPending>>
    BY <1>8 DEF FlushQueueDone
  <2>2. ~JobStarted /\ ~JobStarted'
    <3>1. ~JobStarted
      <4>1. Len(stack) = 1
        BY <2>1, FlushOnTop
      <4> QED
        BY <4>1 DEF JobStarted
    <3>2. ~JobStarted'
      <4>1. queue' = <<>>
        BY <1>8 DEF FlushQueueDone
      <4>2. Len(queue') = 0 /\ flushIndex' \in Nat
        BY <4>1, EmptySeq DEF TypeOK
      <4> QED
        BY <4>2 DEF Shape
    <3> QED
      BY <3>1, <3>2
  <2>3. UNCHANGED <<Armed, Serving>>
    BY <2>1, <2>2 DEF Armed, Serving
  <2> QED
    BY <2>1, <2>3, ServesStutter
<1>9. CASE FlushDone
  <2>1. /\ Running("flush") /\ top.i = 1 /\ UNCHANGED owed
        /\ \/ BeginFlush(top.seen)
           \/ /\ queue = <<>> /\ pendingPostFlushCbs = <<>>
              /\ isFlushing' = FALSE /\ stack' = <<>> /\ UNCHANGED isFlushPending
    BY <1>9 DEF FlushDone
  <2>2. Len(stack) = 1 /\ isFlushing /\ top \in FrameSet
    BY <2>1, FlushOnTop
  <2>3. top.seen \in [Fns -> Nat] /\ Armed /\ ~JobStarted
    BY <2>2 DEF FrameSet, Armed, JobStarted
  <2> QED
    BY <1>5, <2>1, <2>3, RestServes
<1> QED
  BY <1>1, <1>2, <1>3, <1>4, <1>6, <1>7, <1>8, <1>9 DEF Next, UserCall, Proceed, Steady

\* The scheduler serves what it is asked for as Requests promises: whatever the
\* jobs do to the queue while it flushes, it starts a job only when none that the
\* comparator puts before it is waiting, and it stops flushing only when nothing
\* asked for is left.
THEOREM ServesRequestsCorrect == Spec => ServesRequests
<1>1. Init => Service!Init
  BY DEF Init, Service!Init, JobStarted, InJobLoop
<1>2. TypeOK /\ TypeOK' /\ Shape /\ Shape' /\ PostShape /\ NoLostJob /\ NoLostPostCb
        /\ QueueSorted /\ [Next]_vars
        => [Service!Next]_Service!vars
  <2> SUFFICES ASSUME TypeOK, TypeOK', Shape, Shape', PostShape, NoLostJob, NoLostPostCb,
                      QueueSorted, [Next]_vars
               PROVE  Serves
    BY DEF Serves
  <2>1. CASE Next
    BY <2>1, ServesStep
  <2>2. CASE UNCHANGED vars
    <3>1. UNCHANGED <<owed, Armed, Serving>>
      BY <2>2 DEF vars, Armed, Serving, JobStarted, InJobLoop
    <3> QED
      BY <3>1, ServesStutter
  <2> QED
    BY <2>1, <2>2
<1> QED
  BY <1>1, <1>2, TypeCorrect, ShapeCorrect, PostCorrect, NoLostJobCorrect,
     QueueSortedCorrect, PTL DEF Spec, ServesRequests, Service!Spec
==============================================================================
