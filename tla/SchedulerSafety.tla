--------------------------- MODULE SchedulerSafety ---------------------------
(* The safety invariants of the scheduler, for every set of jobs, every ids *)
(* and every bound.  The invariants TLC checks are not inductive: that a    *)
(* job is not lost or queued twice depends on where flushIndex stands while *)
(* the loops run inside one another, which depends on the frames that can   *)
(* be on the call stack.  Shape says so, and is proved first; the step      *)
(* lemmas then say what a step may do to flushIndex and to the queue, and   *)
(* each invariant follows from them.                                        *)
EXTENDS SchedulerProofs

Flushes(s) == s # <<>> /\ s[Len(s)].kind = "flush"

InLoop(s) == Flushes(s) /\ s[Len(s)].i = 0

\* flushJobs can only be at the bottom of a call stack, and in its loop it has
\* called a job.
GoodStack(s) ==
  /\ \A k \in 1..Len(s) : s[k].kind = "flush" => k = Len(s)
  /\ InLoop(s) /\ Len(s) > 1 => s[Len(s) - 1].kind = "user"

\* Every flushPreFlushCbs on the call stack is after position n of the queue.
PreAfter(s, n) == \A k \in 1..Len(s) : s[k].kind = "pre" => s[k].i > n

Shape ==
  /\ GoodStack(stack)
  /\ isFlushing <=> Flushes(stack)
  /\ ~(isFlushing /\ isFlushPending)
  /\ ~isFlushing /\ (queue # <<>> \/ pendingPostFlushCbs # <<>>) => isFlushPending
  /\ ~InJobLoop => flushIndex = 0
  /\ JobStarted => flushIndex < Len(queue)
  /\ InJobLoop => PreAfter(stack, flushIndex)

------------------------------------------------------------------------------
(* The shape of the call stack.                                             *)

LEMMA LoopNames == InJobLoop = InLoop(stack) /\ JobStarted = (InLoop(stack) /\ Len(stack) > 1)
BY DEF InJobLoop, JobStarted, InLoop, Flushes

\* A call from a frame other than flushJobs.
LEMMA PushShape ==
  ASSUME stack \in Seq(FrameSet), stack # <<>>, GoodStack(stack), top.kind # "flush"
  PROVE  \A above \in Seq(FrameSet), frame \in FrameSet :
           /\ \A k \in 1..Len(above) : above[k].kind # "flush"
           /\ frame.kind = top.kind \/ (frame.kind # "flush" /\ top.kind # "user")
           =>
             /\ GoodStack(Push(above, frame))
             /\ Flushes(Push(above, frame)) <=> Flushes(stack)
             /\ InLoop(Push(above, frame)) <=> InLoop(stack)
             /\ InLoop(stack) => Len(stack) > 1 /\ Len(Push(above, frame)) > 1
<1> SUFFICES ASSUME NEW above \in Seq(FrameSet), NEW frame \in FrameSet,
                    \A k \in 1..Len(above) : above[k].kind # "flush",
                    frame.kind = top.kind \/ (frame.kind # "flush" /\ top.kind # "user")
             PROVE  /\ GoodStack(Push(above, frame))
                    /\ Flushes(Push(above, frame)) <=> Flushes(stack)
                    /\ InLoop(Push(above, frame)) <=> InLoop(stack)
                    /\ InLoop(stack) => Len(stack) > 1 /\ Len(Push(above, frame)) > 1
  OBVIOUS
<1> DEFINE s == Push(above, frame)
           a == Len(above)
           n == Len(stack)
<1>1. /\ s \in Seq(FrameSet) /\ Len(s) = a + n
      /\ \A k \in 1..(a + n) : s[k] = IF k <= a THEN above[k]
                                      ELSE IF k = a + 1 THEN frame ELSE stack[k - a]
  BY PushProperties
<1>2. a \in Nat /\ n \in Nat \ {0} /\ top = stack[1]
  BY LenProperties, TopProperties
<1> HIDE DEF s, a, n
<1>3. s # <<>>
  BY <1>1, <1>2, EmptySeq
<1>4. s[a + n] = IF n = 1 THEN frame ELSE stack[n]
  BY <1>1, <1>2
<1>5. Flushes(s) <=> Flushes(stack)
  BY <1>1, <1>2, <1>3, <1>4 DEF Flushes, n
<1>6. InLoop(s) <=> InLoop(stack)
  BY <1>1, <1>2, <1>4, <1>5 DEF InLoop, Flushes, n
<1>7. InLoop(stack) => n > 1 /\ a + n > 1
  BY <1>2 DEF InLoop, Flushes, n
<1>8. \A k \in 1..Len(s) : s[k].kind = "flush" => k = Len(s)
  <2> SUFFICES ASSUME NEW k \in 1..(a + n), s[k].kind = "flush" PROVE k = a + n
    BY <1>1
  <2>0. \A m \in 1..n : stack[m].kind = "flush" => m = n
    BY DEF GoodStack, n
  <2>1. k > a
    BY <1>1, <1>2 DEF a
  <2>2. k # a + 1
    BY <1>1, <1>2
  <2>3. stack[k - a].kind = "flush" /\ k - a \in 1..n
    BY <1>1, <1>2, <2>1, <2>2
  <2> QED
    BY <1>2, <2>0, <2>3
<1>9. InLoop(s) /\ Len(s) > 1 => s[Len(s) - 1].kind = "user"
  <2> SUFFICES ASSUME InLoop(s) PROVE s[a + n - 1].kind = "user"
    BY <1>1, <1>2
  <2>1. n > 1 /\ stack[n - 1].kind = "user"
    BY <1>6, <1>7 DEF GoodStack, n
  <2>2. s[a + n - 1] = IF n = 2 THEN frame ELSE stack[n - 1]
    BY <1>1, <1>2, <2>1
  <2> QED
    BY <1>2, <2>1, <2>2
<1>10. GoodStack(s)
  BY <1>8, <1>9 DEF GoodStack
<1> QED
  BY <1>1, <1>5, <1>6, <1>7, <1>10 DEF s, a, n

\* The flushPreFlushCbs of a stack stay after a position when others are pushed.
LEMMA PushPreAfter ==
  ASSUME stack \in Seq(FrameSet), stack # <<>>, NEW n \in Int, PreAfter(stack, n)
  PROVE  \A above \in Seq(FrameSet), frame \in FrameSet :
           PreAfter(above, n) /\ (frame.kind = "pre" => frame.i > n)
             => PreAfter(Push(above, frame), n)
<1> SUFFICES ASSUME NEW above \in Seq(FrameSet), NEW frame \in FrameSet,
                    PreAfter(above, n), frame.kind = "pre" => frame.i > n
             PROVE  PreAfter(Push(above, frame), n)
  OBVIOUS
<1>1. Len(above) \in Nat /\ Len(stack) \in Nat
  BY LenProperties
<1>2. /\ Len(Push(above, frame)) = Len(above) + Len(stack)
      /\ \A k \in 1..(Len(above) + Len(stack)) : Push(above, frame)[k] =
           IF k <= Len(above) THEN above[k]
           ELSE IF k = Len(above) + 1 THEN frame ELSE stack[k - Len(above)]
  BY PushProperties
<1>3. \A k \in 1..(Len(above) + Len(stack)) :
        Push(above, frame)[k].kind = "pre" => Push(above, frame)[k].i > n
  <2> SUFFICES ASSUME NEW k \in 1..(Len(above) + Len(stack)),
                      Push(above, frame)[k].kind = "pre"
               PROVE  Push(above, frame)[k].i > n
    OBVIOUS
  <2>1. CASE k <= Len(above)
    BY <1>1, <1>2, <2>1 DEF PreAfter
  <2>2. CASE k = Len(above) + 1
    BY <1>1, <1>2, <2>2
  <2>3. CASE k > Len(above) + 1
    <3>1. Push(above, frame)[k] = stack[k - Len(above)] /\ k - Len(above) \in 1..Len(stack)
      BY <1>1, <1>2, <2>3
    <3> QED
      BY <3>1 DEF PreAfter
  <2> QED
    BY <1>1, <2>1, <2>2, <2>3
<1> QED
  BY <1>2, <1>3 DEF PreAfter

\* The frames below frame k, the seen of one of them perhaps changed.
LEMMA PopShape ==
  ASSUME stack \in Seq(FrameSet), GoodStack(stack), NEW k \in 1..Len(stack)
  PROVE  \A s \in Seq(FrameSet) :
           /\ Len(s) = Len(stack) - k
           /\ \A m \in 1..(Len(stack) - k) : s[m].kind = stack[m + k].kind /\ s[m].i = stack[m + k].i
           =>
           /\ GoodStack(s)
           /\ \A n \in Int : PreAfter(stack, n) => PreAfter(s, n)
           /\ k < Len(stack) => /\ Flushes(s) <=> Flushes(stack)
                                /\ InLoop(s) <=> InLoop(stack)
           /\ k = Len(stack) => s = <<>>
<1> SUFFICES ASSUME NEW s \in Seq(FrameSet), Len(s) = Len(stack) - k,
                    \A m \in 1..(Len(stack) - k) :
                      s[m].kind = stack[m + k].kind /\ s[m].i = stack[m + k].i
             PROVE  /\ GoodStack(s)
                    /\ \A n \in Int : PreAfter(stack, n) => PreAfter(s, n)
                    /\ k < Len(stack) => /\ Flushes(s) <=> Flushes(stack)
                                         /\ InLoop(s) <=> InLoop(stack)
                    /\ k = Len(stack) => s = <<>>
  OBVIOUS
<1>1. Len(stack) \in Nat
  BY LenProperties
<1>2. k < Len(stack) => /\ s # <<>> /\ stack # <<>>
                        /\ s[Len(s)].kind = stack[Len(stack)].kind
                        /\ s[Len(s)].i = stack[Len(stack)].i
  BY <1>1, EmptySeq
<1>3. k < Len(stack) => (Flushes(s) <=> Flushes(stack)) /\ (InLoop(s) <=> InLoop(stack))
  BY <1>2 DEF Flushes, InLoop
<1>4. k = Len(stack) => s = <<>>
  BY <1>1, EmptySeq
<1>5. \A m \in 1..Len(s) : s[m].kind = "flush" => m = Len(s)
  <2> SUFFICES ASSUME NEW m \in 1..Len(s), s[m].kind = "flush" PROVE m = Len(s)
    OBVIOUS
  <2>1. m + k \in 1..Len(stack) /\ m \in 1..(Len(stack) - k)
    BY <1>1
  <2>2. stack[m + k].kind = "flush"
    BY <2>1
  <2>3. m + k = Len(stack)
    BY <2>1, <2>2 DEF GoodStack
  <2>4. m \in Nat /\ k \in Nat /\ Len(stack) \in Nat
    BY <1>1
  <2> QED
    BY ONLY <2>3, <2>4, Len(s) = Len(stack) - k
<1>6. InLoop(s) /\ Len(s) > 1 => s[Len(s) - 1].kind = "user"
  <2> SUFFICES ASSUME InLoop(s), Len(s) > 1 PROVE s[Len(s) - 1].kind = "user"
    OBVIOUS
  <2>1. s[Len(s) - 1].kind = stack[Len(stack) - 1].kind
    <3>1. Len(s) - 1 \in 1..(Len(stack) - k) /\ (Len(s) - 1) + k = Len(stack) - 1
      BY <1>1
    <3> QED
      BY <3>1
  <2> QED
    BY <1>1, <1>3, <2>1 DEF GoodStack
<1>7. \A n \in Int : PreAfter(stack, n) => PreAfter(s, n)
  <2> SUFFICES ASSUME NEW n \in Int, PreAfter(stack, n), NEW m \in 1..Len(s), s[m].kind = "pre"
               PROVE  s[m].i > n
    BY DEF PreAfter
  <2>1. m + k \in 1..Len(stack) /\ m \in 1..(Len(stack) - k)
    BY <1>1
  <2>2. stack[m + k].kind = "pre" /\ s[m].i = stack[m + k].i
    BY <2>1
  <2> QED
    BY <2>1, <2>2 DEF PreAfter
<1> QED
  BY <1>3, <1>4, <1>5, <1>6, <1>7 DEF GoodStack

LEMMA FrameKinds ==
  /\ \A f : UserFrame(f).kind = "user"
  /\ \A inst : PreFrame(inst).kind = "pre" /\ (isFlushing => PreFrame(inst).i = flushIndex + 1)
  /\ \A seen : PostFrame(seen).kind = "post"
  /\ \A seen : FlushFrame(seen).kind = "flush" /\ FlushFrame(seen).i = 0
  /\ RenderFrame.kind = "render"
BY DEF UserFrame, PreFrame, PostFrame, FlushFrame, RenderFrame, Frame

------------------------------------------------------------------------------
(* What a step does to the place in the queue.                              *)

\* flushJobs stays where it is: what is ahead of it begins at the same index.
SamePlace ==
  /\ flushIndex' = flushIndex /\ isFlushing' = isFlushing
  /\ GoodStack(stack') /\ (Flushes(stack') <=> Flushes(stack))
  /\ InJobLoop' <=> InJobLoop
  /\ JobStarted' <=> JobStarted
  /\ InJobLoop => JobStarted /\ PreAfter(stack', flushIndex)

\* The job of flushJobs has ended: the loop goes to its next position.
NextPlace ==
  /\ flushIndex' = flushIndex + 1 /\ isFlushing' = isFlushing
  /\ GoodStack(stack') /\ Flushes(stack') /\ Flushes(stack)
  /\ InJobLoop /\ JobStarted /\ InJobLoop' /\ ~JobStarted'
  /\ PreAfter(stack', flushIndex + 1)

LEMMA PushPlace ==
  ASSUME TypeOK, Shape, stack # <<>>, top.kind # "flush",
         NEW CONSTANT above \in Seq(FrameSet), NEW CONSTANT frame \in FrameSet,
         \A k \in 1..Len(above) : above[k].kind # "flush",
         InJobLoop => PreAfter(above, flushIndex) /\ (frame.kind = "pre" => frame.i > flushIndex),
         frame.kind = top.kind \/ (frame.kind # "flush" /\ top.kind # "user"),
         stack' = Push(above, frame), UNCHANGED <<flushIndex, isFlushing>>
  PROVE  SamePlace
<1>1. stack \in Seq(FrameSet) /\ flushIndex \in Int /\ GoodStack(stack)
  BY DEF TypeOK, Shape
<1>2. /\ GoodStack(stack')
      /\ Flushes(stack') <=> Flushes(stack)
      /\ InLoop(stack') <=> InLoop(stack)
      /\ InLoop(stack) => Len(stack) > 1 /\ Len(stack') > 1
  BY <1>1, PushShape
<1>3. InLoop(stack) => isFlushing /\ PreAfter(stack, flushIndex)
  BY LoopNames DEF Shape, InLoop
<1>4. InLoop(stack) => PreAfter(stack', flushIndex)
  BY <1>1, <1>3, PushPreAfter, LoopNames
<1> QED
  BY <1>2, <1>4 DEF SamePlace, InJobLoop, JobStarted, InLoop, Flushes

\* A frame that is not of a function returns.
LEMMA PopPlace ==
  ASSUME TypeOK, Shape, stack # <<>>, top.kind \notin {"flush", "user"},
         stack' \in Seq(FrameSet), Len(stack') = Len(stack) - 1,
         \A m \in 1..(Len(stack) - 1) :
           stack'[m].kind = stack[m + 1].kind /\ stack'[m].i = stack[m + 1].i,
         UNCHANGED <<flushIndex, isFlushing>>
  PROVE  SamePlace
<1>1. /\ stack \in Seq(FrameSet) /\ flushIndex \in Int /\ GoodStack(stack)
      /\ 1 \in 1..Len(stack) /\ Len(stack) \in Nat /\ top = stack[1]
  BY EmptySeq, TopProperties DEF TypeOK, Shape
<1>2. /\ GoodStack(stack')
      /\ PreAfter(stack, flushIndex) => PreAfter(stack', flushIndex)
      /\ 1 < Len(stack) => /\ Flushes(stack') <=> Flushes(stack)
                           /\ InLoop(stack') <=> InLoop(stack)
      /\ 1 = Len(stack) => stack' = <<>>
  BY <1>1, PopShape
<1>3. Len(stack) = 1 => ~Flushes(stack) /\ ~Flushes(stack')
  BY <1>1, <1>2 DEF Flushes
<1>4. InLoop(stack) => Len(stack) > 2
  BY <1>1, <1>3 DEF InLoop, GoodStack
<1>5. InLoop(stack) => PreAfter(stack, flushIndex)
  BY LoopNames DEF Shape
<1> QED
  BY <1>1, <1>2, <1>3, <1>4, <1>5 DEF SamePlace, InJobLoop, JobStarted, InLoop, Flushes

LEMMA EndPlace ==
  ASSUME TypeOK, Shape, NEW k \in 1..Len(stack), EndFunction(k),
         k = Len(stack) => ~Flushes(stack)
  PROVE  SamePlace \/ NextPlace
<1>1. /\ stack \in Seq(FrameSet) /\ flushIndex \in Int /\ GoodStack(stack) /\ Len(stack) \in Nat
      /\ UNCHANGED isFlushing
  BY LenProperties DEF TypeOK, Shape, EndFunction
<1>2. /\ stack' \in Seq(FrameSet) /\ Len(stack') = Len(stack) - k
      /\ \A m \in 1..(Len(stack) - k) : stack'[m] = stack[m + k]
  BY <1>1, PopProperties DEF EndFunction
<1>3. /\ GoodStack(stack')
      /\ PreAfter(stack, flushIndex) => PreAfter(stack', flushIndex)
      /\ k < Len(stack) => /\ Flushes(stack') <=> Flushes(stack)
                           /\ InLoop(stack') <=> InLoop(stack)
      /\ k = Len(stack) => stack' = <<>>
  BY <1>1, <1>2, PopShape
<1>4. flushIndex' = IF InJobLoop /\ Len(stack') = 1 THEN flushIndex + 1 ELSE flushIndex
  BY DEF EndFunction
<1>5. CASE k = Len(stack)
  BY <1>1, <1>2, <1>3, <1>4, <1>5 DEF SamePlace, InJobLoop, JobStarted, InLoop, Flushes
<1>6. CASE k < Len(stack) /\ InJobLoop /\ Len(stack') = 1
  <2>1. InLoop(stack') /\ InLoop(stack) /\ Len(stack) > 1
    BY <1>1, <1>2, <1>3, <1>6, LoopNames
  <2>2. PreAfter(stack', flushIndex + 1)
    BY <1>6, <2>1 DEF PreAfter, InLoop, Flushes
  <2> QED
    BY <1>1, <1>3, <1>4, <1>6, <2>1, <2>2
       DEF NextPlace, InJobLoop, JobStarted, InLoop, Flushes
<1>7. CASE k < Len(stack) /\ ~(InJobLoop /\ Len(stack') = 1)
  <2>1. InLoop(stack) => PreAfter(stack', flushIndex) /\ Len(stack') > 1 /\ Len(stack) > 1
    BY <1>1, <1>2, <1>3, <1>7, LoopNames DEF Shape
  <2> QED
    BY <1>1, <1>3, <1>4, <1>7, <2>1 DEF SamePlace, InJobLoop, JobStarted, InLoop, Flushes
<1> QED
  BY <1>1, <1>5, <1>6, <1>7

------------------------------------------------------------------------------
(* What a step does to the queue.                                           *)

\* queueJob inserts j at position k, or leaves the queue alone.
Insertion(j, k) ==
  /\ k \in 1..(Len(queue) + 1)
  /\ queue' = InsertAt(queue, k, j)
  /\ ~Includes(queue, j, DedupeFrom(j))
  /\ k > flushIndex + 1 \/ k = Len(queue) + 1
  /\ IdOf[j] = Infinity => k = Len(queue) + 1
  /\ IdOf[j] # Infinity => k - 1 \in InsertionIndices(IdOf[j])

\* A job that is ahead is taken out of the queue.
Removal(k) ==
  /\ k \in (Ahead + 1)..Len(queue)
  /\ queue' = RemoveAt(queue, k)

LEMMA AppendIsInsertion ==
  ASSUME NEW S, NEW s \in Seq(S), NEW e \in S
  PROVE  Append(s, e) = InsertAt(s, Len(s) + 1, e)
<1>1. Len(s) \in Nat /\ Len(s) + 1 \in 1..(Len(s) + 1)
  BY LenProperties
<1>2. /\ InsertAt(s, Len(s) + 1, e) \in Seq(S)
      /\ Len(InsertAt(s, Len(s) + 1, e)) = Len(s) + 1
      /\ \A n \in 1..(Len(s) + 1) : InsertAt(s, Len(s) + 1, e)[n] =
           IF n < Len(s) + 1 THEN s[n] ELSE e
  BY <1>1, InsertAtProperties
<1>3. /\ Append(s, e) \in Seq(S) /\ Len(Append(s, e)) = Len(s) + 1
      /\ \A n \in 1..(Len(s) + 1) : Append(s, e)[n] = IF n < Len(s) + 1 THEN s[n] ELSE e
  BY <1>1, AppendProperties
<1> QED
  BY <1>2, <1>3, SeqEqual

LEMMA QueueJobEffect ==
  ASSUME TypeOK, NEW j \in Jobs, queueJob(j)
  PROVE  \/ /\ UNCHANGED <<queue, isFlushPending>> /\ Includes(queue, j, DedupeFrom(j))
         \/ /\ \E k \in 1..(Len(queue) + 1) : Insertion(j, k)
            /\ isFlushPending' = (isFlushPending \/ ~isFlushing)
<1>1. queue \in Seq(Jobs) /\ flushIndex \in Nat /\ Len(queue) \in Nat
  BY LenProperties DEF TypeOK
<1>2. CASE Includes(queue, j, DedupeFrom(j))
  BY <1>2 DEF queueJob
<1>3. CASE ~Includes(queue, j, DedupeFrom(j)) /\ IdOf[j] = Infinity
  <2>1. queue' = Append(queue, j)
    BY <1>3 DEF queueJob
  <2>2. queue' = InsertAt(queue, Len(queue) + 1, j)
    BY <1>1, <2>1, AppendIsInsertion
  <2>3. Insertion(j, Len(queue) + 1) /\ Len(queue) + 1 \in 1..(Len(queue) + 1)
    BY <1>1, <1>3, <2>2 DEF Insertion
  <2> QED
    BY <1>3, <2>3 DEF queueJob, queueFlush
<1>4. CASE ~Includes(queue, j, DedupeFrom(j)) /\ IdOf[j] # Infinity
  <2>1. PICK k \in InsertionIndices(IdOf[j]) : queue' = InsertAt(queue, k + 1, j)
    BY <1>4 DEF queueJob
  <2>2. k \in 0..Len(queue) /\ k + 1 \in 1..(Len(queue) + 1) /\ (k + 1) - 1 = k
    BY <2>1, InsertionIndicesRange
  <2>3. k >= flushIndex + 1 \/ k = Len(queue)
    BY <1>1, <2>1, <2>2 DEF InsertionIndices
  <2>4. Insertion(j, k + 1)
    BY <1>1, <1>4, <2>1, <2>2, <2>3 DEF Insertion
  <2> QED
    BY <1>4, <2>2, <2>4 DEF queueJob, queueFlush
<1> QED
  BY <1>2, <1>3, <1>4

LEMMA AheadRange ==
  ASSUME TypeOK, Shape
  PROVE  /\ flushIndex \in Nat /\ Ahead \in {flushIndex, flushIndex + 1} /\ Len(queue) \in Nat
         /\ ~InJobLoop => flushIndex = 0 /\ Ahead = 0
         /\ JobStarted => Ahead = flushIndex + 1
         /\ ~JobStarted => Ahead = flushIndex
BY LenProperties DEF TypeOK, Shape, Ahead, JobStarted

LEMMA InvalidateEffect ==
  ASSUME TypeOK, Shape, NEW j \in Jobs, invalidateJob(j)
  PROVE  UNCHANGED queue \/ \E k \in 1..Len(queue) : Removal(k) /\ queue[k] = j
BY AheadRange DEF invalidateJob, Removal

LEMMA FlushPreCbEffect ==
  ASSUME TypeOK, Shape, FlushPreCb
  PROVE  \/ UNCHANGED <<queue, owed>>
         \/ \E k \in 1..Len(queue) : Removal(k) /\ owed' = owed \ {queue[k]}
<1>1. /\ stack \in Seq(FrameSet) /\ stack # <<>> /\ top.kind = "pre"
      /\ top.i < Len(queue)
  BY DEF TypeOK, FlushPreCb, Running
<1>2. top.i \in Nat /\ top = stack[1] /\ 1 \in 1..Len(stack) /\ Len(stack) \in Nat
  BY <1>1, TopProperties DEF FrameSet
<1>3. top.i + 1 \in (Ahead + 1)..Len(queue)
  <2>1. CASE InJobLoop
    <3>1. top.i > flushIndex
      BY <1>1, <1>2, <2>1 DEF Shape, PreAfter
    <3> QED
      BY <1>1, <1>2, <3>1, AheadRange
  <2>2. CASE ~InJobLoop
    BY <1>1, <1>2, <2>2, AheadRange
  <2> QED
    BY <2>1, <2>2
<1>4. \/ UNCHANGED <<queue, owed>>
      \/ queue' = RemoveAt(queue, top.i + 1) /\ owed' = owed \ {queue[top.i + 1]}
  BY DEF FlushPreCb
<1>5. top.i + 1 \in 1..Len(queue)
  BY <1>1, <1>2, AheadRange
<1> QED
  BY <1>3, <1>4, <1>5 DEF Removal

\* A removal ahead keeps the job that is running, and an insertion too.
LEMMA QueueLength ==
  ASSUME TypeOK, Shape
  PROVE  /\ \A k \in 1..Len(queue) : Removal(k) =>
              /\ Len(queue') = Len(queue) - 1 /\ queue # <<>>
              /\ JobStarted => flushIndex < Len(queue')
         /\ \A j \in Jobs, k \in 1..(Len(queue) + 1) : Insertion(j, k) =>
              /\ Len(queue') = Len(queue) + 1
              /\ JobStarted => flushIndex < Len(queue')
<1>1. queue \in Seq(Jobs) /\ Len(queue) \in Nat /\ flushIndex \in Nat
      /\ (JobStarted => flushIndex < Len(queue))
  BY LenProperties DEF TypeOK, Shape
<1>2. ASSUME NEW k \in 1..Len(queue), Removal(k)
      PROVE  /\ Len(queue') = Len(queue) - 1 /\ queue # <<>>
             /\ JobStarted => flushIndex < Len(queue')
  <2>1. Len(queue') = Len(queue) - 1
    BY <1>1, <1>2, RemoveAtProperties DEF Removal
  <2>2. JobStarted => k \in (flushIndex + 2)..Len(queue)
    BY <1>1, <1>2, AheadRange DEF Removal
  <2>3. queue # <<>>
    BY <1>1, <1>2, EmptySeq
  <2> QED
    BY <1>1, <2>1, <2>2, <2>3
<1>3. ASSUME NEW j \in Jobs, NEW k \in 1..(Len(queue) + 1), Insertion(j, k)
      PROVE  /\ Len(queue') = Len(queue) + 1
             /\ JobStarted => flushIndex < Len(queue')
  BY <1>1, <1>3, InsertAtProperties DEF Insertion
<1> QED
  BY <1>2, <1>3

------------------------------------------------------------------------------
(* The place of flushJobs after each action that is not its own.            *)

Steady ==
  \/ \E j \in Jobs : queueJob(j)
  \/ \E cb \in Cbs : queuePostFlushCb(cb) \/ queuePostFlushHooks(cb)
  \/ \E c \in Updates : updateComponent(c) \/ renderRoot(c)
  \/ \E c \in Updates, hooks \in Hooks : unmountComponent(c, hooks)
  \/ \E cs \in SUBSET Updates \ {{}}, hooks \in Hooks : renderNothing(cs, hooks)
  \/ render
  \/ FlushPreCb \/ FlushPreDone \/ FlushPostCb \/ FlushPostDone
  \/ RenderFlushPre \/ RenderFlushPost

\* A call by user code.
LEMMA CallingPlace ==
  ASSUME TypeOK, Shape, Running("user"), NEW CONSTANT above \in Seq(FrameSet),
         \A k \in 1..Len(above) : above[k].kind # "flush",
         isFlushing => PreAfter(above, flushIndex),
         stack' = Calling(above), UNCHANGED <<flushIndex, isFlushing>>
  PROVE  SamePlace
<1> DEFINE frame == [top EXCEPT !.ops = @ + 1]
<1>0. top \in FrameSet
  BY TopProperties DEF Running, TypeOK
<1>1. stack # <<>> /\ top.kind = "user"
  BY DEF Running
<1>2. frame \in FrameSet /\ frame.kind = top.kind
  <2>1. frame \in FrameSet
    BY <1>0 DEF FrameSet
  <2>2. frame.kind = top.kind
    BY <1>0 DEF FrameSet
  <2> QED
    BY <2>1, <2>2
<1>2a. frame.kind # "pre" /\ top.kind # "flush"
  BY <1>1, <1>2
<1>2b. InJobLoop => isFlushing
  BY LoopNames DEF Shape, InLoop
<1>3. stack' = Push(above, frame)
  BY DEF Calling
<1> HIDE DEF frame
<1> QED
  BY <1>1, <1>2, <1>2a, <1>2b, <1>3, PushPlace

LEMMA PatchPlace ==
  ASSUME TypeOK, Shape, Running("user"), NEW c \in Updates, NEW below \in Seq(FrameSet),
         below = <<>> \/ below = <<RenderFrame>>, Patch(c, below)
  PROVE  SamePlace
<1> DEFINE above == <<PreFrame(IdOf[c]), UserFrame(c)>> \o below
<1>1. PreFrame(IdOf[c]) \in FrameSet /\ UserFrame(c) \in FrameSet /\ RenderFrame \in FrameSet
  BY FrameTypes, IdAssumption DEF TypeOK, Fns, Jobs
<1>2. \A k \in 1..Len(above) :
        above[k] = PreFrame(IdOf[c]) \/ above[k] = UserFrame(c) \/ above[k] = RenderFrame
  <2>1. CASE below = <<>>
    BY <1>1, <2>1
  <2>2. CASE below = <<RenderFrame>>
    BY <1>1, <2>2
  <2> QED
    BY <2>1, <2>2
<1>3. above \in Seq(FrameSet)
  <2>1. <<PreFrame(IdOf[c]), UserFrame(c)>> \in Seq(FrameSet)
    BY <1>1
  <2> QED
    BY <2>1, ConcatProperties
<1>4. stack' = Calling(above) /\ UNCHANGED <<flushIndex, isFlushing>>
  BY DEF Patch
<1> HIDE DEF above
<1>5. \A k \in 1..Len(above) : above[k].kind # "flush"
  BY <1>2, FrameKinds
<1>6. isFlushing => PreAfter(above, flushIndex)
  <2> SUFFICES ASSUME isFlushing, NEW m \in 1..Len(above), above[m].kind = "pre"
               PROVE  above[m].i > flushIndex
    BY DEF PreAfter
  <2>1. above[m] = PreFrame(IdOf[c])
    BY <1>2, FrameKinds
  <2>2. above[m].i = flushIndex + 1
    BY <2>1, FrameKinds
  <2> QED
    BY <2>2 DEF TypeOK
<1> QED
  BY <1>3, <1>4, <1>5, <1>6, CallingPlace

LEMMA SteadyPlace ==
  ASSUME TypeOK, TypeOK', Shape, Steady
  PROVE  SamePlace
<1> USE DEF postVars
<1>a. <<>> \in Seq(FrameSet) /\ Len(<<>>) = 0
  BY EmptySeq
<1>b. ASSUME Running("user"), stack' = Calling(<<>>), UNCHANGED <<flushIndex, isFlushing>>
      PROVE  SamePlace
  <2>1. \A k \in 1..Len(<<>>) : FALSE
    BY <1>a
  <2>2. PreAfter(<<>>, flushIndex)
    BY <2>1 DEF PreAfter
  <2> QED
    BY <1>a, <1>b, <2>1, <2>2, CallingPlace
<1>c. stack # <<>> => top \in FrameSet /\ top = stack[1] /\ Len(stack) \in Nat \ {0}
  BY TopProperties DEF TypeOK
<1>d. \A frame \in FrameSet :
        /\ <<frame>> \in Seq(FrameSet)
        /\ frame.kind # "flush" => \A k \in 1..Len(<<frame>>) : <<frame>>[k].kind # "flush"
        /\ frame.kind # "pre" \/ frame.i > flushIndex => PreAfter(<<frame>>, flushIndex)
  BY DEF PreAfter
<1>e. /\ \A k \in 1..Len(<<>>) : <<>>[k].kind # "flush"
      /\ PreAfter(<<>>, flushIndex)
  <2>1. \A k \in 1..Len(<<>>) : FALSE
    BY <1>a
  <2> QED
    BY <2>1 DEF PreAfter
<1>1. ASSUME NEW j \in Jobs, queueJob(j) PROVE SamePlace
  BY <1>1, <1>b DEF queueJob, CanCall
<1>2. ASSUME NEW cb \in Cbs, queuePostFlushCb(cb) PROVE SamePlace
  BY <1>2, <1>b DEF queuePostFlushCb, CanCall
<1>3. ASSUME NEW cb \in Cbs, queuePostFlushHooks(cb) PROVE SamePlace
  BY <1>3, <1>b DEF queuePostFlushHooks, CanCall
<1>4. ASSUME NEW c \in Updates, updateComponent(c) PROVE SamePlace
  BY <1>4, <1>a, PatchPlace DEF updateComponent, CanCall
<1>5. ASSUME NEW c \in Updates, renderRoot(c) PROVE SamePlace
  <2>1. <<RenderFrame>> \in Seq(FrameSet)
    BY FrameTypes
  <2> QED
    BY <1>5, <2>1, PatchPlace DEF renderRoot, CanCall
<1>6. ASSUME NEW c \in Updates, NEW hooks \in Hooks, unmountComponent(c, hooks)
      PROVE  SamePlace
  BY <1>6, <1>b DEF unmountComponent, Unmount, CanCall
<1>f. ASSUME Running("user"), stack' = Calling(<<RenderFrame>>),
             UNCHANGED <<flushIndex, isFlushing>>
      PROVE  SamePlace
  <2>1. <<RenderFrame>> \in Seq(FrameSet) /\ Len(<<RenderFrame>>) = 1
    BY FrameTypes
  <2>2. \A k \in 1..Len(<<RenderFrame>>) : <<RenderFrame>>[k].kind = "render"
    BY FrameKinds
  <2> QED
    BY <1>f, <2>1, <2>2, CallingPlace DEF PreAfter
<1>7. ASSUME render PROVE SamePlace
  BY <1>7, <1>f DEF render, CanCall
<1>7a. ASSUME NEW cs \in SUBSET Updates, NEW hooks \in Hooks, renderNothing(cs, hooks)
       PROVE  SamePlace
  BY <1>7a, <1>f DEF renderNothing, Unmount, CanCall
<1>8. ASSUME FlushPreCb PROVE SamePlace
  <2> DEFINE cb == queue[top.i + 1]
             called == [top EXCEPT !.seen = Counted(@, cb)]
             skipped == [top EXCEPT !.i = @ + 1]
  <2>1. stack # <<>> /\ top.kind = "pre" /\ top.i \in Nat /\ top.i < Len(queue)
    BY <1>8, <1>c DEF FlushPreCb, Running, FrameSet
  <2>2. InJobLoop => top.i > flushIndex
    BY <1>c, <2>1 DEF Shape, PreAfter
  <2>3. cb \in Fns
    BY <2>1, LenProperties, ElementOfSeq DEF TypeOK, Fns
  <2>4. skipped \in FrameSet /\ skipped.kind = "pre" /\ skipped.i = top.i + 1
    BY <1>c, <2>1 DEF FrameSet
  <2>5. called \in FrameSet /\ called.kind = "pre" /\ called.i = top.i
    BY <1>c, <2>1, <2>3, FrameTypes DEF FrameSet
  <2>6. UserFrame(cb) \in FrameSet /\ UserFrame(cb).kind = "user"
    BY <2>3, FrameTypes, FrameKinds
  <2>7. \/ stack' = Push(<<UserFrame(cb)>>, called)
        \/ stack' = Push(<<>>, skipped)
    BY <1>8 DEF FlushPreCb
  <2>8. UNCHANGED <<flushIndex, isFlushing>>
    BY <1>8 DEF FlushPreCb
  <2> HIDE DEF called, skipped, cb
  <2>9. CASE stack' = Push(<<UserFrame(cb)>>, called)
    BY <1>d, <2>1, <2>2, <2>5, <2>6, <2>8, <2>9, PushPlace
  <2>10. CASE stack' = Push(<<>>, skipped)
    <3>1. InJobLoop => skipped.i > flushIndex
      BY <2>1, <2>2, <2>4 DEF TypeOK
    <3> QED
      BY <1>a, <1>e, <2>1, <2>4, <2>8, <2>10, <3>1, PushPlace
  <2> QED
    BY <2>7, <2>9, <2>10
<1>9. ASSUME FlushPreDone PROVE SamePlace
  <2>1. stack # <<>> /\ top.kind = "pre" /\ UNCHANGED <<flushIndex, isFlushing>> /\ stack' = Tail(stack)
    BY <1>9 DEF FlushPreDone, Running
  <2> QED
    BY <2>1, TopProperties, PopPlace DEF TypeOK
<1>10. ASSUME FlushPostCb PROVE SamePlace
  <2> DEFINE cb == activePostFlushCbs[postFlushIndex + 1]
             called == [top EXCEPT !.seen = Counted(@, cb)]
  <2>1. stack # <<>> /\ top.kind = "post" /\ postFlushIndex + 1 \in 1..Len(activePostFlushCbs)
    BY <1>10, LenProperties DEF FlushPostCb, Running, TypeOK
  <2>2. cb \in Fns
    BY <2>1, ElementOfSeq DEF TypeOK, Fns
  <2>3. called \in FrameSet /\ called.kind = "post"
    BY <1>c, <2>1, <2>2, FrameTypes DEF FrameSet
  <2>4. UserFrame(cb) \in FrameSet /\ UserFrame(cb).kind = "user"
    BY <2>2, FrameTypes, FrameKinds
  <2>5. (stack' = Push(<<UserFrame(cb)>>, called) \/ UNCHANGED stack) /\ UNCHANGED <<flushIndex, isFlushing>>
    BY <1>10 DEF FlushPostCb
  <2> HIDE DEF called, cb
  <2>6. CASE stack' = Push(<<UserFrame(cb)>>, called)
    BY <1>d, <2>1, <2>3, <2>4, <2>5, <2>6, PushPlace
  <2>7. CASE UNCHANGED stack
    BY <2>1, <2>5, <2>7, <1>c, LoopNames
       DEF SamePlace, Shape, InJobLoop, JobStarted, Flushes, InLoop
  <2> QED
    BY <2>5, <2>6, <2>7
<1>11. ASSUME FlushPostDone PROVE SamePlace
  <2>1. /\ stack # <<>> /\ top.kind = "post" /\ UNCHANGED <<flushIndex, isFlushing>>
        /\ stack' = [k \in 1..(Len(stack) - 1) |->
                      IF k = 1 /\ stack[2].kind = "flush"
                      THEN [stack[2] EXCEPT !.seen = top.seen] ELSE stack[k + 1]]
    BY <1>11 DEF FlushPostDone, Running
  <2>2. Len(stack) \in Nat \ {0} /\ \A k \in 1..(Len(stack) - 1) : stack[k + 1] \in FrameSet
    BY <1>c, <2>1, ElementOfSeq DEF TypeOK
  <2>3. stack' \in Seq(FrameSet) /\ DOMAIN stack' = 1..(Len(stack) - 1)
    BY <2>1 DEF TypeOK
  <2>4. Len(stack') = Len(stack) - 1
    BY <2>2, <2>3, LenProperties
  <2>5. \A m \in 1..(Len(stack) - 1) :
          stack'[m].kind = stack[m + 1].kind /\ stack'[m].i = stack[m + 1].i
    BY <2>1, <2>2 DEF FrameSet
  <2> QED
    BY <2>1, <2>3, <2>4, <2>5, PopPlace
<1>12. ASSUME RenderFlushPre PROVE SamePlace
  <2> DEFINE frame == [top EXCEPT !.i = 1]
  <2>1. /\ stack # <<>> /\ top.kind = "render" /\ UNCHANGED <<flushIndex, isFlushing>>
        /\ stack' = Push(<<PreFrame(Infinity)>>, frame)
    BY <1>12 DEF RenderFlushPre, Running
  <2>2. frame \in FrameSet /\ frame.kind = "render"
    BY <1>c, <2>1 DEF FrameSet
  <2>3. /\ PreFrame(Infinity) \in FrameSet /\ PreFrame(Infinity).kind = "pre"
        /\ isFlushing => PreFrame(Infinity).i > flushIndex
    BY FrameTypes, FrameKinds, IdAssumption DEF TypeOK
  <2>4. InJobLoop => isFlushing
    BY LoopNames DEF Shape, InLoop
  <2> HIDE DEF frame
  <2> QED
    BY <1>d, <2>1, <2>2, <2>3, <2>4, PushPlace
<1>13. ASSUME RenderFlushPost PROVE SamePlace
  <2>1. /\ stack # <<>> /\ top.kind = "render" /\ UNCHANGED <<flushIndex, isFlushing>>
        /\ stack' = Tail(stack) \/ stack' = <<PostFrame(NoneSeen)>> \o Tail(stack)
    BY <1>13 DEF RenderFlushPost, Running, flushPostFlushCbs
  <2>2. CASE stack' = Tail(stack)
    BY <2>1, <2>2, TopProperties, PopPlace DEF TypeOK
  <2>3. CASE stack' = <<PostFrame(NoneSeen)>> \o Tail(stack)
    <3>1. PostFrame(NoneSeen) \in FrameSet /\ PostFrame(NoneSeen).kind = "post"
      BY FrameTypes, FrameKinds
    <3>2. <<>> \o <<PostFrame(NoneSeen)>> = <<PostFrame(NoneSeen)>>
      BY <3>1, ConcatEmptySeq
    <3>3. stack' = Push(<<>>, PostFrame(NoneSeen))
      BY <2>3, <3>2 DEF Push
    <3> QED
      BY <1>a, <1>e, <2>1, <3>1, <3>3, PushPlace
  <2> QED
    BY <2>1, <2>2, <2>3
<1> QED
  BY <1>1, <1>2, <1>3, <1>4, <1>5, <1>6, <1>7, <1>7a, <1>8, <1>9, <1>10, <1>11, <1>12, <1>13
     DEF Steady

------------------------------------------------------------------------------
(* The queue, and what has been asked of it, after each of those actions.   *)

Asked == owed \intersect Jobs

QueueEffect ==
  \/ UNCHANGED queue /\ Asked' \subseteq Asked
  \/ \E j \in Jobs : /\ UNCHANGED queue /\ Includes(queue, j, DedupeFrom(j))
                     /\ Asked' \subseteq Asked \union {j}
                     /\ SelfTrigger(j) => Asked' \subseteq Asked
  \/ \E j \in Jobs, k \in 1..(Len(queue) + 1) :
       Insertion(j, k) /\ Asked' \subseteq Asked \union {j}
  \/ \E k \in 1..Len(queue) : Removal(k) /\ Asked' \subseteq Asked \ {queue[k]}

\* What is queued schedules a flush if none runs.
PendingEffect ==
  \/ isFlushPending' = (isFlushPending \/ ~isFlushing)
  \/ /\ UNCHANGED isFlushPending
     /\ pendingPostFlushCbs' \in {pendingPostFlushCbs, <<>>}
     /\ UNCHANGED queue \/ \E k \in 1..Len(queue) : Removal(k)

LEMMA SteadyEffect ==
  ASSUME TypeOK, Shape, Steady
  PROVE  QueueEffect /\ PendingEffect
<1> USE DEF postVars
<1>0. Jobs \intersect Cbs = {}
  BY FunctionsAssumption
<1>1. ASSUME NEW j \in Jobs, queueJob(j) PROVE QueueEffect /\ PendingEffect
  <2>1. Asked' \subseteq Asked \union {j} /\ (SelfTrigger(j) => Asked' \subseteq Asked)
    BY <1>1 DEF queueJob, Asked
  <2>2. CASE UNCHANGED <<queue, isFlushPending>> /\ Includes(queue, j, DedupeFrom(j))
    <3>1. UNCHANGED pendingPostFlushCbs
      BY <1>1 DEF queueJob
    <3> QED
      BY <2>1, <2>2, <3>1 DEF QueueEffect, PendingEffect
  <2>3. CASE /\ \E k \in 1..(Len(queue) + 1) : Insertion(j, k)
             /\ isFlushPending' = (isFlushPending \/ ~isFlushing)
    BY <2>1, <2>3 DEF QueueEffect, PendingEffect
  <2> QED
    BY <1>1, <2>2, <2>3, QueueJobEffect
<1>2. ASSUME NEW cb \in Cbs, queuePostFlushCb(cb) \/ queuePostFlushHooks(cb)
      PROVE  QueueEffect /\ PendingEffect
  <2>1. UNCHANGED queue /\ owed' \subseteq owed \union {cb} /\ queueFlush
    BY <1>2 DEF queuePostFlushCb, queuePostFlushHooks
  <2> QED
    BY <1>0, <2>1 DEF QueueEffect, PendingEffect, Asked, queueFlush
<1>3. ASSUME NEW c \in Updates, updateComponent(c) \/ renderRoot(c)
      PROVE  QueueEffect /\ PendingEffect
  <2>1. /\ invalidateJob(c) /\ owed' = owed \ {c} /\ c \in Jobs
        /\ UNCHANGED <<isFlushPending, pendingPostFlushCbs>>
    BY <1>3 DEF updateComponent, renderRoot, Patch, Jobs
  <2>2. UNCHANGED queue \/ \E k \in 1..Len(queue) : Removal(k) /\ queue[k] = c
    BY <2>1, InvalidateEffect
  <2> QED
    BY <2>1, <2>2 DEF QueueEffect, PendingEffect, Asked
<1>4. ASSUME NEW cs \in SUBSET Updates, NEW hooks \in Hooks, NEW frames,
             Unmount(cs, hooks, frames)
      PROVE  QueueEffect /\ PendingEffect
  <2>1. /\ UNCHANGED queue /\ owed' = (owed \ cs) \union ToSet(hooks)
        /\ pendingPostFlushCbs' = pendingPostFlushCbs \o hooks
        /\ hooks = <<>> => UNCHANGED isFlushPending
        /\ hooks # <<>> => queueFlush
    BY <1>4 DEF Unmount
  <2>2. ToSet(hooks) \subseteq Cbs
    BY HooksType
  <2>3. hooks = <<>> => pendingPostFlushCbs' = pendingPostFlushCbs
    BY <2>1, ConcatEmptySeq DEF TypeOK
  <2> QED
    BY <1>0, <2>1, <2>2, <2>3 DEF QueueEffect, PendingEffect, Asked, queueFlush
<1>4a. ASSUME NEW c \in Updates, NEW hooks \in Hooks, unmountComponent(c, hooks)
       PROVE  QueueEffect /\ PendingEffect
  BY <1>4, <1>4a DEF unmountComponent
<1>4b. ASSUME NEW cs \in SUBSET Updates, NEW hooks \in Hooks, renderNothing(cs, hooks)
       PROVE  QueueEffect /\ PendingEffect
  BY <1>4, <1>4b DEF renderNothing
<1>5. ASSUME FlushPreCb PROVE QueueEffect /\ PendingEffect
  <2>1. UNCHANGED <<isFlushPending, pendingPostFlushCbs>>
    BY <1>5 DEF FlushPreCb
  <2> QED
    BY <1>5, <2>1, FlushPreCbEffect DEF QueueEffect, PendingEffect, Asked
<1>6. ASSUME FlushPostCb PROVE QueueEffect /\ PendingEffect
  <2>1. /\ UNCHANGED <<queue, isFlushPending, pendingPostFlushCbs>>
        /\ owed' \subseteq owed
    BY <1>6 DEF FlushPostCb
  <2> QED
    BY <2>1 DEF QueueEffect, PendingEffect, Asked
<1>7. ASSUME render \/ FlushPreDone \/ FlushPostDone \/ RenderFlushPre
      PROVE  QueueEffect /\ PendingEffect
  <2>1. UNCHANGED <<queue, owed, isFlushPending, pendingPostFlushCbs>>
    BY <1>7 DEF render, FlushPreDone, FlushPostDone, RenderFlushPre
  <2> QED
    BY <2>1 DEF QueueEffect, PendingEffect, Asked
<1>8. ASSUME RenderFlushPost PROVE QueueEffect /\ PendingEffect
  <2>1. /\ UNCHANGED <<queue, owed, isFlushPending>>
        /\ pendingPostFlushCbs' \in {pendingPostFlushCbs, <<>>}
    BY <1>8 DEF RenderFlushPost, flushPostFlushCbs
  <2> QED
    BY <2>1 DEF QueueEffect, PendingEffect, Asked
<1> QED
  BY <1>1, <1>2, <1>3, <1>4a, <1>4b, <1>5, <1>6, <1>7, <1>8 DEF Steady

LEMMA SteadyShape ==
  ASSUME TypeOK, TypeOK', Shape, Steady
  PROVE  Shape'
<1>1. SamePlace /\ QueueEffect /\ PendingEffect
  BY SteadyPlace, SteadyEffect
<1>2. JobStarted => flushIndex < Len(queue')
  BY <1>1, QueueLength DEF QueueEffect, Shape
<1>3. ~isFlushing /\ isFlushPending' # (isFlushPending \/ ~isFlushing) /\ queue' # <<>>
        => queue # <<>>
  BY <1>1, QueueLength DEF PendingEffect
<1>4. ~(isFlushing' /\ isFlushPending')
  BY <1>1 DEF SamePlace, PendingEffect, Shape, TypeOK
<1>5. ~isFlushing' /\ (queue' # <<>> \/ pendingPostFlushCbs' # <<>>) => isFlushPending'
  <2>1. CASE isFlushPending' = (isFlushPending \/ ~isFlushing)
    BY <1>1, <2>1 DEF SamePlace
  <2>2. CASE isFlushPending' # (isFlushPending \/ ~isFlushing)
    <3>1. UNCHANGED isFlushPending /\ pendingPostFlushCbs' \in {pendingPostFlushCbs, <<>>}
      BY <1>1, <2>2 DEF PendingEffect
    <3>2. ~isFlushing /\ (queue # <<>> \/ pendingPostFlushCbs # <<>>) => isFlushPending
      BY DEF Shape
    <3> QED
      BY <1>1, <1>3, <2>2, <3>1, <3>2 DEF SamePlace
  <2> QED
    BY <2>1, <2>2
<1> QED
  BY <1>1, <1>2, <1>4, <1>5 DEF SamePlace, Shape

------------------------------------------------------------------------------
(* The steps of flushJobs itself.                                           *)

LEMMA OneFrame ==
  \A frame \in FrameSet : /\ <<frame>> \in Seq(FrameSet) /\ <<frame>> # <<>>
                          /\ Len(<<frame>>) = 1 /\ <<frame>>[1] = frame
OBVIOUS

LEMMA TwoFrames ==
  \A f, g \in FrameSet : LET s == <<f>> \o <<g>>
                         IN  s \in Seq(FrameSet) /\ Len(s) = 2 /\ s[1] = f /\ s[2] = g
<1> SUFFICES ASSUME NEW f \in FrameSet, NEW g \in FrameSet
             PROVE  LET s == <<f>> \o <<g>>
                    IN  s \in Seq(FrameSet) /\ Len(s) = 2 /\ s[1] = f /\ s[2] = g
  OBVIOUS
<1> DEFINE a == <<f>>
           b == <<g>>
<1>1. /\ a \in Seq(FrameSet) /\ Len(a) = 1 /\ a[1] = f
      /\ b \in Seq(FrameSet) /\ Len(b) = 1 /\ b[1] = g
  BY OneFrame
<1> HIDE DEF a, b
<1>2. a \o b \in Seq(FrameSet) /\ Len(a \o b) = 2 /\ (a \o b)[1] = f /\ (a \o b)[2] = g
  <2>1. /\ a \o b \in Seq(FrameSet) /\ Len(a \o b) = Len(a) + Len(b)
        /\ \A n \in 1..(Len(a) + Len(b)) : (a \o b)[n] =
             IF n <= Len(a) THEN a[n] ELSE b[n - Len(a)]
    <3>1. a \in Seq(FrameSet) /\ b \in Seq(FrameSet)
      BY <1>1
    <3> QED
      BY <3>1, ConcatProperties
  <2> DEFINE c == a \o b
  <2> HIDE DEF c
  <2>2. /\ Len(c) = Len(a) + Len(b)
        /\ \A n \in 1..(Len(a) + Len(b)) : c[n] =
             IF n <= Len(a) THEN a[n] ELSE b[n - Len(a)]
    BY <2>1 DEF c
  <2>3. Len(c) = 2 /\ c[1] = f /\ c[2] = g
    BY <1>1, <2>2
  <2> QED
    BY <2>1, <2>3 DEF c
<1> QED
  BY <1>2 DEF a, b

\* flushJobs is at the bottom of the stack with nothing above it.
LEMMA FlushOnTop ==
  ASSUME TypeOK, Shape, Running("flush")
  PROVE  /\ stack \in Seq(FrameSet) /\ top \in FrameSet /\ top = stack[1]
         /\ Len(stack) = 1 /\ Flushes(stack) /\ isFlushing
         /\ top.i = 0 <=> InJobLoop
         /\ \A frame \in FrameSet : Push(<<>>, frame) = <<frame>>
<1>1. /\ stack \in Seq(FrameSet) /\ stack # <<>> /\ top.kind = "flush"
      /\ top \in FrameSet /\ top = stack[1] /\ Len(stack) \in Nat \ {0}
      /\ Tail(stack) \in Seq(FrameSet) /\ Len(Tail(stack)) = Len(stack) - 1
  BY TopProperties DEF TypeOK, Running
<1>2. Len(stack) = 1
  <2>1. \A k \in 1..Len(stack) : stack[k].kind = "flush" => k = Len(stack)
    BY DEF Shape, GoodStack
  <2>2. 1 \in 1..Len(stack) /\ stack[1].kind = "flush"
    BY <1>1
  <2> QED
    BY <2>1, <2>2
<1>3. Tail(stack) = <<>>
  <2>1. Len(Tail(stack)) = 0
    BY <1>1, <1>2
  <2> QED
    BY <1>1, <2>1, EmptySeq
<1>4. \A frame \in FrameSet : Push(<<>>, frame) = <<frame>>
  BY <1>3, OneFrame, ConcatEmptySeq DEF Push
<1> QED
  BY <1>1, <1>2, <1>4 DEF Shape, Flushes, InJobLoop

LEMMA EndShape ==
  ASSUME TypeOK, Shape, NEW k \in 1..Len(stack), EndFunction(k),
         k = Len(stack) => ~Flushes(stack)
  PROVE  Shape'
<1>1. SamePlace \/ NextPlace
  BY EndPlace
<1>2. UNCHANGED <<queue, isFlushPending, pendingPostFlushCbs>>
  BY DEF EndFunction
<1>3. CASE SamePlace
  BY <1>2, <1>3 DEF SamePlace, Shape
<1>4. CASE NextPlace
  BY <1>2, <1>4 DEF NextPlace, Shape
<1> QED
  BY <1>1, <1>3, <1>4

LEMMA BeginFlushShape ==
  ASSUME TypeOK, NEW seen \in [Fns -> Nat], BeginFlush(seen),
         flushIndex = 0, UNCHANGED flushIndex
  PROVE  Shape'
<1> DEFINE frame == FlushFrame(seen)
<1>1. frame \in FrameSet /\ frame.kind = "flush" /\ frame.i = 0
  BY FrameTypes, FrameKinds
<1> HIDE DEF frame
<1>2. stack' = <<frame>> /\ isFlushing' = TRUE /\ isFlushPending' = FALSE
  BY DEF BeginFlush, frame
<1>3. /\ stack' # <<>> /\ Len(stack') = 1 /\ stack'[1] = frame
  BY <1>1, <1>2, OneFrame
<1>4. GoodStack(stack') /\ Flushes(stack')
  BY <1>1, <1>3 DEF GoodStack, Flushes
<1>5. ~JobStarted' /\ InJobLoop' /\ PreAfter(stack', flushIndex')
  BY <1>1, <1>3 DEF JobStarted, InJobLoop, PreAfter
<1> QED
  BY <1>2, <1>4, <1>5 DEF Shape

LEMMA FlushJobShape ==
  ASSUME TypeOK, Shape, FlushJob
  PROVE  Shape'
<1> DEFINE job == queue[flushIndex + 1]
           frame == [top EXCEPT !.seen = Counted(@, job)]
           called == <<UserFrame(job)>>
<1>1. /\ Running("flush") /\ top.i = 0 /\ flushIndex < Len(queue)
      /\ UNCHANGED <<queue, isFlushing, isFlushPending, pendingPostFlushCbs>>
  BY DEF FlushJob, postVars
<1>2. /\ stack \in Seq(FrameSet) /\ top \in FrameSet /\ top = stack[1] /\ top.kind = "flush"
      /\ stack # <<>> /\ Len(stack) = 1 /\ isFlushing /\ InJobLoop /\ GoodStack(stack)
  BY <1>1, FlushOnTop DEF Running, Shape
<1>3. job \in Fns
  <2>1. flushIndex + 1 \in 1..Len(queue)
    BY <1>1, LenProperties DEF TypeOK
  <2> QED
    BY <2>1, ElementOfSeq DEF TypeOK, Fns
<1>4. frame \in FrameSet /\ frame.kind = "flush" /\ frame.i = 0
  BY <1>1, <1>2, <1>3, FrameTypes DEF FrameSet
<1>5. UserFrame(job) \in FrameSet /\ UserFrame(job).kind = "user"
  BY <1>3, FrameTypes, FrameKinds
<1>6. \/ stack' = Push(called, frame) /\ flushIndex' = flushIndex
      \/ stack' = stack /\ flushIndex' = flushIndex + 1
  BY DEF FlushJob
<1>7. /\ called \in Seq(FrameSet) /\ Len(called) = 1 /\ called[1] = UserFrame(job)
  BY <1>5, OneFrame
<1> HIDE DEF job, frame, called
<1>8. CASE stack' = Push(called, frame) /\ flushIndex' = flushIndex
  <2>1. stack' # <<>> /\ Len(stack') = 2 /\ stack'[1].kind = "user" /\ stack'[2] = frame
    <3>1. /\ stack' \in Seq(FrameSet) /\ Len(stack') = Len(called) + Len(stack)
          /\ \A n \in 1..(Len(called) + Len(stack)) : stack'[n] =
               IF n <= Len(called) THEN called[n]
               ELSE IF n = Len(called) + 1 THEN frame ELSE stack[n - Len(called)]
      <4>1. stack \in Seq(FrameSet) /\ stack # <<>> /\ called \in Seq(FrameSet) /\ frame \in FrameSet
        BY <1>2, <1>4, <1>7
      <4>2. stack' = Push(called, frame)
        BY <1>8
      <4> QED
        BY <4>1, <4>2, PushProperties
    <3>2. Len(stack') = 2 /\ stack'[1] = called[1] /\ stack'[2] = frame
      BY <1>2, <1>7, <3>1
    <3>3. stack' # <<>>
      BY <3>2, EmptySeq
    <3> QED
      BY <1>5, <1>7, <3>2, <3>3
  <2>2. GoodStack(stack') /\ Flushes(stack') /\ PreAfter(stack', flushIndex')
    BY <1>4, <2>1 DEF GoodStack, Flushes, InLoop, PreAfter
  <2>3. InJobLoop' /\ JobStarted'
    BY <1>4, <2>1 DEF InJobLoop, JobStarted
  <2> QED
    BY <1>1, <1>2, <1>8, <2>2, <2>3 DEF Shape
<1>9. CASE stack' = stack /\ flushIndex' = flushIndex + 1
  <2>1. Len(stack') = 1 /\ stack'[1] = top /\ stack' # <<>>
    BY <1>2, <1>9
  <2>2. PreAfter(stack', flushIndex')
    <3>1. \A m \in 1..Len(stack') : stack'[m].kind = "flush"
      BY <1>2, <2>1
    <3> QED
      BY <3>1 DEF PreAfter
  <2>4. InJobLoop' /\ ~JobStarted' /\ Flushes(stack')
    BY <1>1, <1>2, <2>1 DEF InJobLoop, JobStarted, Flushes
  <2>5. GoodStack(stack')
    BY <1>2, <1>9
  <2> QED
    BY <1>1, <1>2, <2>2, <2>4, <2>5 DEF Shape
<1> QED
  BY <1>6, <1>8, <1>9

LEMMA FlushQueueDoneShape ==
  ASSUME TypeOK, Shape, FlushQueueDone
  PROVE  Shape'
<1> DEFINE frame == [top EXCEPT !.i = 1]
           post == PostFrame(top.seen)
<1>1. /\ Running("flush") /\ flushIndex' = 0 /\ UNCHANGED <<isFlushing, isFlushPending>>
      /\ flushPostFlushCbs(Push(<<>>, frame), top.seen)
  BY DEF FlushQueueDone
<1>2. /\ top \in FrameSet /\ top.kind = "flush" /\ isFlushing
      /\ \A f \in FrameSet : Push(<<>>, f) = <<f>>
  BY <1>1, FlushOnTop DEF Running
<1>3. frame \in FrameSet /\ frame.kind = "flush" /\ frame.i = 1
  BY <1>2 DEF FrameSet
<1>4. post \in FrameSet /\ post.kind = "post"
  BY <1>2, FrameTypes, FrameKinds DEF FrameSet
<1>5. stack' = <<frame>> \/ stack' = <<post>> \o <<frame>>
  BY <1>1, <1>2, <1>3 DEF flushPostFlushCbs
<1> HIDE DEF frame, post
<1>6. \/ stack' # <<>> /\ Len(stack') = 1 /\ stack'[1] = frame
      \/ stack' # <<>> /\ Len(stack') = 2 /\ stack'[1] = post /\ stack'[2] = frame
  <2>1. CASE stack' = <<frame>>
    BY <1>3, <2>1, OneFrame
  <2>2. CASE stack' = <<post>> \o <<frame>>
    <3>1. frame \in FrameSet /\ post \in FrameSet
      BY <1>3, <1>4
    <3>2. Len(stack') = 2 /\ stack'[1] = post /\ stack'[2] = frame
      BY <2>2, <3>1, TwoFrames
    <3>3. stack' # <<>>
      BY <3>2, EmptySeq
    <3> QED
      BY <3>2, <3>3
  <2> QED
    BY <1>5, <2>1, <2>2
<1>7. GoodStack(stack') /\ Flushes(stack') /\ ~InLoop(stack')
  <2>1. CASE stack' # <<>> /\ Len(stack') = 1 /\ stack'[1] = frame
    BY <1>3, <2>1 DEF GoodStack, Flushes, InLoop
  <2>2. CASE stack' # <<>> /\ Len(stack') = 2 /\ stack'[1] = post /\ stack'[2] = frame
    BY <1>3, <1>4, <2>2 DEF GoodStack, Flushes, InLoop
  <2> QED
    BY <1>6, <2>1, <2>2
<1>8. ~InJobLoop' /\ ~JobStarted'
  BY <1>3, <1>6 DEF InJobLoop, JobStarted
<1> QED
  BY <1>1, <1>2, <1>7, <1>8 DEF Shape

LEMMA ShapeStep == TypeOK /\ TypeOK' /\ Shape /\ [Next]_vars => Shape'
<1> SUFFICES ASSUME TypeOK, TypeOK', Shape, [Next]_vars PROVE Shape'
  OBVIOUS
<1>0. Len(stack) \in Nat /\ (stack # <<>> => Len(stack) > 0)
  BY LenProperties, EmptySeq DEF TypeOK
<1>1. CASE Steady
  BY <1>1, SteadyShape
<1>2. CASE Return
  <2>1. 1 \in 1..Len(stack) /\ EndFunction(1) /\ top = stack[1] /\ top.kind = "user"
    BY <1>0, <1>2, TopProperties DEF Return, Running, TypeOK
  <2>2. 1 = Len(stack) => ~Flushes(stack)
    BY <2>1 DEF Flushes
  <2> QED
    BY <2>1, <2>2, EndShape
<1>3. CASE Throw
  <2>1. PICK k \in 1..Len(stack) :
          /\ EndFunction(k)
          /\ stack[k].kind = "user" \/ k < Len(stack)
    BY <1>3 DEF Throw
  <2>2. k = Len(stack) => ~Flushes(stack)
    BY <1>0, <2>1 DEF Flushes
  <2> QED
    BY <2>1, <2>2, EndShape
<1>4. CASE StartTask
  <2>1. UserFrame(Main) \in FrameSet /\ UserFrame(Main).kind = "user"
    BY FrameTypes, FrameKinds DEF Fns
  <2>2. /\ stack = <<>> /\ stack' = <<UserFrame(Main)>>
        /\ UNCHANGED <<queue, flushIndex, isFlushing, isFlushPending, pendingPostFlushCbs>>
    BY <1>4 DEF StartTask, postVars
  <2>3. stack' # <<>> /\ Len(stack') = 1 /\ stack'[1].kind = "user"
    BY <2>1, <2>2, OneFrame
  <2>4. GoodStack(stack') /\ ~Flushes(stack') /\ ~InJobLoop' /\ ~JobStarted' /\ ~InJobLoop
    BY <2>2, <2>3 DEF GoodStack, Flushes, InLoop, InJobLoop, JobStarted
  <2>5. ~isFlushing
    BY <2>2 DEF Shape, Flushes
  <2> QED
    BY <2>2, <2>4, <2>5 DEF Shape
<1>5. CASE StartFlush
  <2>1. ~InJobLoop /\ NoneSeen \in [Fns -> Nat]
    BY <1>5, FrameTypes DEF StartFlush, InJobLoop
  <2> QED
    BY <1>5, <2>1, BeginFlushShape DEF StartFlush, Shape
<1>6. CASE FlushJob
  BY <1>6, FlushJobShape
<1>7. CASE FlushQueueDone
  BY <1>7, FlushQueueDoneShape
<1>8. CASE FlushDone
  <2>1. /\ Running("flush") /\ top.i = 1 /\ UNCHANGED <<flushIndex, pendingPostFlushCbs>>
        /\ \/ BeginFlush(top.seen)
           \/ /\ queue = <<>> /\ pendingPostFlushCbs = <<>>
              /\ isFlushing' = FALSE /\ stack' = <<>> /\ UNCHANGED queue
    BY <1>8 DEF FlushDone, postVars
  <2>2. ~InJobLoop /\ top.seen \in [Fns -> Nat]
    BY <2>1, FlushOnTop DEF FrameSet
  <2>3. CASE BeginFlush(top.seen)
    BY <2>1, <2>2, <2>3, BeginFlushShape DEF Shape
  <2>4. CASE isFlushing' = FALSE /\ stack' = <<>> /\ queue = <<>> /\ pendingPostFlushCbs = <<>>
    <3>1. \A m \in 1..Len(<<>>) : FALSE
      BY EmptySeq
    <3>2. UNCHANGED <<queue, flushIndex, pendingPostFlushCbs>>
      BY <2>1, <2>4 DEF BeginFlush
    <3>3. GoodStack(stack') /\ ~Flushes(stack') /\ ~InJobLoop' /\ ~JobStarted'
      BY <2>4, <3>1 DEF GoodStack, Flushes, InLoop, InJobLoop, JobStarted
    <3> QED
      BY <2>2, <2>4, <3>2, <3>3 DEF Shape
  <2> QED
    BY <2>1, <2>3, <2>4
<1>9. CASE UNCHANGED vars
  BY <1>9 DEF vars, postVars, Shape, InJobLoop, JobStarted
<1> QED
  BY <1>1, <1>2, <1>3, <1>4, <1>5, <1>6, <1>7, <1>8, <1>9
     DEF Next, UserCall, Proceed, Steady

LEMMA ShapeInit == Init => Shape
<1> SUFFICES ASSUME Init PROVE Shape
  OBVIOUS
<1>1. \A m \in 1..Len(stack) : FALSE
  BY EmptySeq DEF Init
<1> QED
  BY <1>1 DEF Init, Shape, GoodStack, Flushes, InLoop, InJobLoop, JobStarted

\* flushJobs is at the bottom of every call stack it is on, and the loops that
\* run inside it are ahead of it.
THEOREM ShapeCorrect == Spec => []Shape
<1>1. TypeOK /\ Shape /\ [Next]_vars => TypeOK' /\ Shape'
  BY TypeStep, ShapeStep
<1> QED
  BY <1>1, TypeInit, ShapeInit, PTL DEF Spec

\* The scheduler is never stuck: when no code runs and something is queued, a
\* flush is scheduled; a flush is marked as running exactly while flushJobs is
\* on the call stack, and never while another one is scheduled.
THEOREM FlushArmedCorrect == Spec => []FlushArmed
<1>1. Shape => FlushArmed
  BY DEF Shape, FlushArmed, Flushes
<1> QED
  BY <1>1, ShapeCorrect, PTL
==============================================================================
