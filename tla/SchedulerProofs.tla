--------------------------- MODULE SchedulerProofs ---------------------------
(* Theorems about the scheduler, for every set of jobs, every ids and every *)
(* bound: its type invariant, and the safety invariants that TLC checks on  *)
(* small instances.                                                         *)
EXTENDS Scheduler, SequenceLemmas, FiniteSetTheorems, TLAPS

------------------------------------------------------------------------------
(* Frames and the call stack.                                               *)

LEMMA FrameTypes ==
  /\ NoneSeen \in [Fns -> Nat]
  /\ \A f \in Fns : UserFrame(f) \in FrameSet
  /\ \A seen \in [Fns -> Nat] : FlushFrame(seen) \in FrameSet /\ PostFrame(seen) \in FrameSet
  /\ flushIndex \in Nat => \A inst \in -1..Infinity : PreFrame(inst) \in FrameSet
  /\ RenderFrame \in FrameSet
  /\ \A seen \in [Fns -> Nat], f \in Fns : Counted(seen, f) \in [Fns -> Nat]
<1>1. Infinity \in -1..Infinity /\ Main \in Fns /\ NoneSeen \in [Fns -> Nat]
  BY IdAssumption DEF Fns, NoneSeen
<1>2. \A kind \in Kinds, fn \in Fns, inst \in -1..Infinity, seen \in [Fns -> Nat] :
        Frame(kind, fn, inst, seen) \in FrameSet
  BY DEF Frame, FrameSet
<1>3. flushIndex \in Nat => \A inst \in -1..Infinity : PreFrame(inst) \in FrameSet
  BY <1>1, <1>2 DEF PreFrame, FrameSet, Frame, Kinds
<1>4. \A seen \in [Fns -> Nat], f \in Fns : Counted(seen, f) \in [Fns -> Nat]
  BY DEF Counted
<1> QED
  BY <1>1, <1>2, <1>3, <1>4 DEF UserFrame, FlushFrame, PostFrame, RenderFrame, Kinds

\* A call pushes frames on the top frame, which it may have changed.
LEMMA PushProperties ==
  ASSUME stack \in Seq(FrameSet), stack # <<>>
  PROVE  \A above \in Seq(FrameSet), frame \in FrameSet :
           /\ Push(above, frame) \in Seq(FrameSet)
           /\ Len(Push(above, frame)) = Len(above) + Len(stack)
           /\ \A n \in 1..(Len(above) + Len(stack)) : Push(above, frame)[n] =
                IF n <= Len(above) THEN above[n]
                ELSE IF n = Len(above) + 1 THEN frame ELSE stack[n - Len(above)]
BY PushedProperties DEF Push

\* The frames left when those above position k are popped, and frame k with them.
LEMMA PopProperties ==
  ASSUME stack \in Seq(FrameSet)
  PROVE  \A k \in 1..Len(stack) :
           /\ SubSeq(stack, k + 1, Len(stack)) \in Seq(FrameSet)
           /\ Len(SubSeq(stack, k + 1, Len(stack))) = Len(stack) - k
           /\ \A n \in 1..(Len(stack) - k) :
                SubSeq(stack, k + 1, Len(stack))[n] = stack[n + k]
<1>1. Len(stack) \in Nat
  BY LenProperties
<1> QED
  BY <1>1, SubSeqProperties, ElementOfSeq

LEMMA TopProperties ==
  ASSUME stack \in Seq(FrameSet), stack # <<>>
  PROVE  /\ top \in FrameSet /\ top = stack[1] /\ Len(stack) \in Nat \ {0}
         /\ Tail(stack) \in Seq(FrameSet) /\ Len(Tail(stack)) = Len(stack) - 1
         /\ \A n \in 1..(Len(stack) - 1) : Tail(stack)[n] = stack[n + 1]
BY HeadTailProperties, EmptySeq DEF top

------------------------------------------------------------------------------
(* Sorting and deduplication.                                               *)

\* Rearranging a sequence gives a sequence over the same set.
LEMMA RearrangedProperties ==
  ASSUME NEW S, NEW s \in Seq(S), NEW p \in [DOMAIN s -> DOMAIN s]
  PROVE  LET t == [k \in DOMAIN s |-> s[p[k]]]
         IN  t \in Seq(S) /\ Len(t) = Len(s) /\ DOMAIN t = DOMAIN s
<1>1. DOMAIN s = 1..Len(s) /\ Len(s) \in Nat /\ \A k \in DOMAIN s : s[k] \in S
  BY LenProperties
<1> DEFINE t == [k \in DOMAIN s |-> s[p[k]]]
<1>2. t \in [1..Len(s) -> S]
  BY <1>1
<1>3. t \in Seq(S)
  BY <1>1, <1>2, SeqDef
<1>4. DOMAIN t = 1..Len(s) /\ DOMAIN t = 1..Len(t)
  BY <1>2, <1>3, LenProperties
<1>5. Len(t) = Len(s)
  BY <1>1, <1>3, <1>4, LenProperties
<1> QED
  BY <1>1, <1>3, <1>4, <1>5

\* Sorting by the comparator of flushJobs.
LEMMA SortedType ==
  ASSUME NEW s \in Seq(Jobs), NEW t \in StableSorts(s, Precedes)
  PROVE  t \in Seq(Jobs) /\ Len(t) = Len(s)
<1>1. PICK p \in Bijection(DOMAIN s, DOMAIN s) : t = [k \in DOMAIN s |-> s[p[k]]]
  BY DEF StableSorts
<1>2. p \in [DOMAIN s -> DOMAIN s]
  BY DEF Bijection, Injection
<1> QED
  BY <1>1, <1>2, RearrangedProperties

\* Sorting the callbacks of flushPostFlushCbs by id.
LEMMA SortedByIdType ==
  ASSUME NEW s \in Seq(Cbs), NEW t \in StableSorts(s, IdPrecedes)
  PROVE  t \in Seq(Cbs) /\ Len(t) = Len(s)
<1>1. PICK p \in Bijection(DOMAIN s, DOMAIN s) : t = [k \in DOMAIN s |-> s[p[k]]]
  BY DEF StableSorts
<1>2. p \in [DOMAIN s -> DOMAIN s]
  BY DEF Bijection, Injection
<1> QED
  BY <1>1, <1>2, RearrangedProperties

LEMMA DedupedType ==
  ASSUME NEW s \in Seq(Cbs), NEW t \in Deduped(s)
  PROVE  t \in Seq(Cbs)
<1> DEFINE firsts == {k \in DOMAIN s : \A m \in 1..(k - 1) : s[m] # s[k]}
<1>1. DOMAIN s = 1..Len(s) /\ Len(s) \in Nat /\ \A k \in DOMAIN s : s[k] \in Cbs
  BY LenProperties
<1>2. Cardinality(firsts) \in Nat
  <2>1. IsFiniteSet(1..Len(s))
    BY <1>1, FS_Interval
  <2>2. firsts \subseteq 1..Len(s)
    BY <1>1
  <2> QED
    BY <2>1, <2>2, FS_Subset, FS_CardinalityType
<1>3. PICK p \in [1..Cardinality(firsts) -> firsts] : t = [n \in DOMAIN p |-> s[p[n]]]
  BY DEF Deduped
<1> HIDE DEF firsts
<1>4. firsts \subseteq DOMAIN s
  BY DEF firsts
<1>5. t \in [1..Cardinality(firsts) -> Cbs]
  BY <1>1, <1>3, <1>4
<1> QED
  BY <1>2, <1>5, SeqDef

------------------------------------------------------------------------------
(* Type correctness.                                                        *)

\* Typing of what the helpers of the actions assign.
LEMMA CallingType ==
  ASSUME TypeOK, stack # <<>>
  PROVE  \A above \in Seq(FrameSet) : Calling(above) \in Seq(FrameSet)
<1>1. top \in FrameSet
  BY TopProperties DEF TypeOK
<1>2. [top EXCEPT !.ops = @ + 1] \in FrameSet
  BY <1>1 DEF FrameSet
<1> QED
  BY <1>2, PushProperties DEF TypeOK, Calling

LEMMA InsertionIndicesRange ==
  ASSUME TypeOK
  PROVE  \A id : \A k \in InsertionIndices(id) : k \in 0..Len(queue) /\ k + 1 \in 1..(Len(queue) + 1)
BY LenProperties DEF TypeOK, InsertionIndices

LEMMA InvalidateType ==
  ASSUME TypeOK, NEW j \in Jobs, invalidateJob(j)
  PROVE  queue' \in Seq(Jobs)
BY RemoveAtProperties, LenProperties DEF TypeOK, invalidateJob

LEMMA BeginFlushType ==
  ASSUME TypeOK, NEW seen \in [Fns -> Nat], BeginFlush(seen)
  PROVE  /\ queue' \in Seq(Jobs) /\ isFlushing' \in BOOLEAN /\ isFlushPending' \in BOOLEAN
         /\ stack' \in Seq(FrameSet)
<1>1. FlushFrame(seen) \in FrameSet
  BY FrameTypes
<1>2. queue' \in Seq(Jobs)
  BY SortedType DEF TypeOK, BeginFlush
<1>3. stack' \in Seq(FrameSet)
  BY <1>1 DEF BeginFlush
<1> QED
  BY <1>2, <1>3 DEF BeginFlush

LEMMA FlushPostCbsType ==
  ASSUME TypeOK, NEW CONSTANT under \in Seq(FrameSet), NEW CONSTANT seen \in [Fns -> Nat],
         flushPostFlushCbs(under, seen)
  PROVE  /\ stack' \in Seq(FrameSet) /\ pendingPostFlushCbs' \in Seq(Cbs)
         /\ activePostFlushCbs' \in Seq(Cbs) /\ postFlushIndex' \in Nat
<1>1. <<>> \in Seq(Cbs)
  BY EmptySeq
<1>2. <<PostFrame(seen)>> \o under \in Seq(FrameSet)
  <2>1. <<PostFrame(seen)>> \in Seq(FrameSet)
    BY FrameTypes
  <2> QED
    BY <2>1, ConcatProperties
<1>3. CASE pendingPostFlushCbs = <<>>
  BY <1>3 DEF flushPostFlushCbs, TypeOK, postVars
<1>4. CASE pendingPostFlushCbs # <<>>
  <2>1. PICK deduped \in Deduped(pendingPostFlushCbs) :
          IF activePostFlushCbs # <<>>
          THEN /\ activePostFlushCbs' = activePostFlushCbs \o deduped
               /\ stack' = under
               /\ UNCHANGED postFlushIndex
          ELSE /\ activePostFlushCbs' \in StableSorts(deduped, IdPrecedes)
               /\ stack' = <<PostFrame(seen)>> \o under
               /\ postFlushIndex' = 0
    BY <1>4 DEF flushPostFlushCbs
  <2>2. deduped \in Seq(Cbs)
    BY DedupedType DEF TypeOK
  <2>3. pendingPostFlushCbs' = <<>>
    BY <1>4 DEF flushPostFlushCbs
  <2>4. CASE activePostFlushCbs # <<>>
    <3>1. activePostFlushCbs' \in Seq(Cbs)
      <4>1. activePostFlushCbs' = activePostFlushCbs \o deduped
        BY <2>1, <2>4
      <4>2. activePostFlushCbs \in Seq(Cbs)
        BY DEF TypeOK
      <4> QED
        BY <2>2, <4>1, <4>2, ConcatProperties
    <3> QED
      BY <1>1, <2>1, <2>3, <2>4, <3>1 DEF TypeOK
  <2>5. CASE activePostFlushCbs = <<>>
    <3>1. activePostFlushCbs' \in Seq(Cbs)
      <4>1. activePostFlushCbs' \in StableSorts(deduped, IdPrecedes)
        BY <2>1, <2>5
      <4> QED
        BY <2>2, <4>1, SortedByIdType
    <3>2. stack' = <<PostFrame(seen)>> \o under /\ postFlushIndex' = 0
      BY <2>1, <2>5
    <3>3. pendingPostFlushCbs' \in Seq(Cbs)
      BY <2>3
    <3> QED
      BY <1>2, <3>1, <3>2, <3>3
  <2> QED
    BY <2>4, <2>5
<1> QED
  BY <1>3, <1>4

LEMMA EndFunctionType ==
  ASSUME TypeOK, NEW k \in 1..Len(stack), EndFunction(k)
  PROVE  TypeOK'
<1>1. stack' \in Seq(FrameSet)
  BY PopProperties DEF EndFunction, TypeOK
<1>2. flushIndex' \in Nat /\ postFlushIndex' \in Nat
  BY DEF EndFunction, TypeOK
<1> QED
  BY <1>1, <1>2 DEF EndFunction, TypeOK

LEMMA PatchType ==
  ASSUME TypeOK, NEW CONSTANT c \in Updates, NEW CONSTANT below \in Seq(FrameSet),
         stack # <<>>, Patch(c, below)
  PROVE  TypeOK'
<1>1. queue' \in Seq(Jobs)
  <2>1. invalidateJob(c) /\ c \in Jobs
    BY DEF Patch, Jobs
  <2> QED
    BY <2>1, InvalidateType
<1>2. PreFrame(IdOf[c]) \in FrameSet /\ UserFrame(c) \in FrameSet
  BY FrameTypes, IdAssumption DEF TypeOK, Fns, Jobs
<1>3. <<PreFrame(IdOf[c]), UserFrame(c)>> \o below \in Seq(FrameSet)
  <2>1. <<PreFrame(IdOf[c]), UserFrame(c)>> \in Seq(FrameSet)
    BY <1>2
  <2> QED
    BY <2>1, ConcatProperties
<1>4. stack' \in Seq(FrameSet)
  BY <1>3, CallingType DEF Patch
<1> QED
  BY <1>1, <1>4 DEF Patch, TypeOK, postVars

\* What an unmounted component gives to queuePostFlushCb is a sequence of callbacks.
LEMMA HooksType ==
  ASSUME NEW hooks \in Hooks
  PROVE  /\ hooks \in Seq(Cbs) /\ ToSet(hooks) \subseteq Cbs
         /\ hooks = <<>> <=> ToSet(hooks) = {}
<1>1. hooks \in Seq(Cbs)
  <2>1. CASE hooks = <<>>
    BY <2>1, EmptySeq
  <2>2. CASE hooks \in {<<cb>> : cb \in Cbs}
    <3>1. PICK cb \in Cbs : hooks = <<cb>>
      BY <2>2
    <3> QED
      BY <3>1
  <2>3. CASE hooks \in {<<um, cb>> : um \in Cbs, cb \in Cbs}
    <3>1. PICK um \in Cbs, cb \in Cbs : hooks = <<um, cb>>
      BY <2>3
    <3> QED
      BY <3>1
  <2> QED
    BY <2>1, <2>2, <2>3 DEF Hooks
<1>2. ToSet(hooks) \subseteq Cbs
  BY <1>1, LenProperties DEF ToSet
<1>3. CASE hooks = <<>>
  <2>1. ~\E k \in DOMAIN hooks : TRUE
    BY <1>3
  <2> QED
    BY <1>1, <1>2, <1>3, <2>1 DEF ToSet
<1>4. CASE hooks # <<>>
  <2>1. 1 \in DOMAIN hooks
    BY <1>1, <1>4, EmptySeq
  <2>2. hooks[1] \in ToSet(hooks)
    BY <2>1 DEF ToSet
  <2> QED
    BY <1>1, <1>2, <1>4, <2>2
<1> QED
  BY <1>3, <1>4

LEMMA UnmountType ==
  ASSUME TypeOK, stack # <<>>, NEW CONSTANT cs \in SUBSET Updates,
         NEW CONSTANT hooks \in Hooks, NEW CONSTANT frames \in Seq(FrameSet),
         Unmount(cs, hooks, frames)
  PROVE  TypeOK'
<1>1. stack' \in Seq(FrameSet)
  BY CallingType DEF Unmount
<1>2. pendingPostFlushCbs' \in Seq(Cbs)
  BY HooksType, ConcatProperties DEF Unmount, TypeOK
<1>3. isFlushPending' \in BOOLEAN
  BY DEF Unmount, queueFlush, TypeOK
<1>4. owed' \subseteq Jobs \union Cbs /\ active' \in [Updates -> BOOLEAN]
  BY HooksType DEF Unmount, TypeOK
<1> QED
  BY <1>1, <1>2, <1>3, <1>4 DEF Unmount, TypeOK

LEMMA TypeStep == TypeOK /\ [Next]_vars => TypeOK'
<1> SUFFICES ASSUME TypeOK, [Next]_vars PROVE TypeOK'
  OBVIOUS
<1> USE DEF postVars
<1>a. <<>> \in Seq(FrameSet) /\ <<>> \in Seq(Jobs) /\ <<>> \in Seq(Cbs)
  BY EmptySeq
<1>b. stack # <<>> => Calling(<<>>) \in Seq(FrameSet)
  BY <1>a, CallingType
<1>c. stack # <<>> => /\ top \in FrameSet /\ top.seen \in [Fns -> Nat] /\ Tail(stack) \in Seq(FrameSet)
  BY TopProperties DEF TypeOK, FrameSet
<1>d. \A n \in Nat : stack # <<>> => [top EXCEPT !.i = n] \in FrameSet
  BY <1>c DEF FrameSet
<1>1. ASSUME NEW j \in Jobs, queueJob(j) PROVE TypeOK'
  <2>1. stack # <<>>
    BY <1>1 DEF queueJob, CanCall, Running
  <2>2. queue' \in Seq(Jobs)
    <3>1. queue \in Seq(Jobs)
      BY DEF TypeOK
    <3>2. Append(queue, j) \in Seq(Jobs)
      BY <3>1
    <3>3. \A k \in InsertionIndices(IdOf[j]) : InsertAt(queue, k + 1, j) \in Seq(Jobs)
      BY <3>1, InsertionIndicesRange, InsertAtProperties
    <3> QED
      BY <1>1, <3>1, <3>2, <3>3 DEF queueJob
  <2>3. owed' \subseteq Jobs \union Cbs
    BY <1>1 DEF queueJob, TypeOK
  <2>4. isFlushPending' \in BOOLEAN
    BY <1>1 DEF queueJob, queueFlush, TypeOK
  <2> QED
    BY <1>1, <1>b, <2>1, <2>2, <2>3, <2>4 DEF queueJob, TypeOK
<1>2. ASSUME NEW cb \in Cbs, queuePostFlushCb(cb) \/ queuePostFlushHooks(cb) PROVE TypeOK'
  <2>1. stack # <<>>
    BY <1>2 DEF queuePostFlushCb, queuePostFlushHooks, CanCall, Running
  <2>2. pendingPostFlushCbs' \in Seq(Cbs)
    <3>1. pendingPostFlushCbs \in Seq(Cbs) /\ Append(pendingPostFlushCbs, cb) \in Seq(Cbs)
      BY DEF TypeOK
    <3> QED
      BY <1>2, <3>1 DEF queuePostFlushCb, queuePostFlushHooks
  <2>3. owed' \subseteq Jobs \union Cbs
    BY <1>2 DEF queuePostFlushCb, queuePostFlushHooks, TypeOK
  <2>4. isFlushPending' \in BOOLEAN
    BY <1>2 DEF queuePostFlushCb, queuePostFlushHooks, queueFlush, TypeOK
  <2> QED
    BY <1>2, <1>b, <2>1, <2>2, <2>3, <2>4 DEF queuePostFlushCb, queuePostFlushHooks, TypeOK
<1>3. ASSUME NEW c \in Updates, updateComponent(c) PROVE TypeOK'
  BY <1>3, <1>a, PatchType DEF updateComponent, CanCall, Running
<1>4. ASSUME NEW c \in Updates, renderRoot(c) PROVE TypeOK'
  <2>1. <<RenderFrame>> \in Seq(FrameSet)
    BY FrameTypes
  <2> QED
    BY <1>4, <2>1, PatchType DEF renderRoot, CanCall, Running
<1>5. ASSUME NEW c \in Updates, NEW hooks \in Hooks, unmountComponent(c, hooks)
      PROVE  TypeOK'
  <2>1. stack # <<>> /\ Unmount({c}, hooks, <<>>)
    BY <1>5 DEF unmountComponent, CanCall, Running
  <2> QED
    BY <1>a, <2>1, UnmountType
<1>6. ASSUME render PROVE TypeOK'
  <2>1. <<RenderFrame>> \in Seq(FrameSet) /\ stack # <<>>
    BY <1>6, FrameTypes DEF render, CanCall, Running
  <2>2. stack' \in Seq(FrameSet)
    BY <1>6, <2>1, CallingType DEF render
  <2> QED
    BY <1>6, <2>2 DEF render, TypeOK
<1>6a. ASSUME NEW cs \in SUBSET Updates, NEW hooks \in Hooks, renderNothing(cs, hooks)
       PROVE  TypeOK'
  <2>1. stack # <<>> /\ Unmount(cs, hooks, <<RenderFrame>>)
    BY <1>6a DEF renderNothing, CanCall, Running
  <2>2. <<RenderFrame>> \in Seq(FrameSet)
    BY FrameTypes
  <2> QED
    BY <2>1, <2>2, UnmountType
<1>7. ASSUME Throw PROVE TypeOK'
  <2>1. PICK k \in 1..Len(stack) : EndFunction(k)
    BY <1>7 DEF Throw
  <2> QED
    BY <2>1, EndFunctionType
<1>8. ASSUME Return PROVE TypeOK'
  <2>1. 1 \in 1..Len(stack) /\ EndFunction(1)
    BY <1>8, EmptySeq DEF Return, Running, TypeOK
  <2> QED
    BY <2>1, EndFunctionType
<1>9. ASSUME StartTask PROVE TypeOK'
  <2>1. UserFrame(Main) \in FrameSet
    BY FrameTypes DEF Fns
  <2>2. stack' \in Seq(FrameSet)
    BY <1>9, <2>1 DEF StartTask
  <2> QED
    BY <1>9, <2>2 DEF StartTask, TypeOK
<1>10. ASSUME StartFlush PROVE TypeOK'
  BY <1>10, FrameTypes, BeginFlushType DEF StartFlush, TypeOK
<1>11. ASSUME FlushJob PROVE TypeOK'
  <2> DEFINE job == queue[flushIndex + 1]
             called == Push(<<UserFrame(job)>>, [top EXCEPT !.seen = Counted(@, job)])
  <2>1. stack # <<>> /\ flushIndex + 1 \in 1..Len(queue)
    BY <1>11, LenProperties DEF FlushJob, Running, TypeOK
  <2>2. job \in Fns /\ <<UserFrame(job)>> \in Seq(FrameSet)
    BY <2>1, FrameTypes, ElementOfSeq DEF TypeOK, Fns
  <2>3. [top EXCEPT !.seen = Counted(@, job)] \in FrameSet
    BY <1>c, <2>1, <2>2, FrameTypes DEF FrameSet
  <2>4. called \in Seq(FrameSet)
    BY <2>1, <2>2, <2>3, PushProperties DEF TypeOK
  <2>5. stack' \in {called, stack} /\ flushIndex' \in {flushIndex, flushIndex + 1} /\ owed' \subseteq owed
    BY <1>11 DEF FlushJob
  <2> QED
    BY <1>11, <2>4, <2>5 DEF FlushJob, TypeOK
<1>12. ASSUME FlushQueueDone PROVE TypeOK'
  <2>1. stack # <<>>
    BY <1>12 DEF FlushQueueDone, Running
  <2>2. Push(<<>>, [top EXCEPT !.i = 1]) \in Seq(FrameSet)
    BY <1>a, <1>d, <2>1, PushProperties DEF TypeOK
  <2>3. flushPostFlushCbs(Push(<<>>, [top EXCEPT !.i = 1]), top.seen)
    BY <1>12 DEF FlushQueueDone
  <2>4. /\ stack' \in Seq(FrameSet) /\ pendingPostFlushCbs' \in Seq(Cbs)
        /\ activePostFlushCbs' \in Seq(Cbs) /\ postFlushIndex' \in Nat
    BY <1>c, <2>1, <2>2, <2>3, FlushPostCbsType
  <2> QED
    BY <1>12, <1>a, <2>4 DEF FlushQueueDone, TypeOK
<1>13. ASSUME FlushDone PROVE TypeOK'
  <2>1. top.seen \in [Fns -> Nat]
    BY <1>13, <1>c DEF FlushDone, Running
  <2>2. CASE queue # <<>> \/ pendingPostFlushCbs # <<>>
    BY <1>13, <2>1, <2>2, BeginFlushType DEF FlushDone, TypeOK
  <2>3. CASE ~(queue # <<>> \/ pendingPostFlushCbs # <<>>)
    BY <1>13, <2>3, <1>a DEF FlushDone, TypeOK
  <2> QED
    BY <2>2, <2>3
<1>14. ASSUME FlushPreCb PROVE TypeOK'
  <2> DEFINE cb == queue[top.i + 1]
             called == Push(<<UserFrame(cb)>>, [top EXCEPT !.seen = Counted(@, cb)])
             skipped == Push(<<>>, [top EXCEPT !.i = @ + 1])
  <2>1. stack # <<>> /\ top.i \in Nat
    BY <1>14, <1>c DEF FlushPreCb, Running, FrameSet
  <2>2. top.i + 1 \in 1..Len(queue)
    BY <1>14, <2>1, LenProperties DEF FlushPreCb, TypeOK
  <2>3. cb \in Fns /\ <<UserFrame(cb)>> \in Seq(FrameSet)
    BY <2>2, FrameTypes, ElementOfSeq DEF TypeOK, Fns
  <2>4. [top EXCEPT !.seen = Counted(@, cb)] \in FrameSet
    BY <1>c, <2>1, <2>3, FrameTypes DEF FrameSet
  <2>5. called \in Seq(FrameSet) /\ skipped \in Seq(FrameSet)
    <3>1. called \in Seq(FrameSet)
      BY <2>1, <2>3, <2>4, PushProperties DEF TypeOK
    <3>2. [top EXCEPT !.i = @ + 1] \in FrameSet
      BY <1>d, <2>1
    <3> QED
      BY <1>a, <2>1, <3>1, <3>2, PushProperties DEF TypeOK
  <2>6. RemoveAt(queue, top.i + 1) \in Seq(Jobs)
    BY <2>2, RemoveAtProperties DEF TypeOK
  <2>7. /\ stack' \in {called, skipped} /\ queue' \in {queue, RemoveAt(queue, top.i + 1)}
        /\ owed' \subseteq owed
    BY <1>14 DEF FlushPreCb
  <2> QED
    BY <1>14, <2>5, <2>6, <2>7 DEF FlushPreCb, TypeOK
<1>15. ASSUME FlushPreDone PROVE TypeOK'
  BY <1>15, <1>c DEF FlushPreDone, Running, TypeOK
<1>16. ASSUME FlushPostCb PROVE TypeOK'
  <2> DEFINE cb == activePostFlushCbs[postFlushIndex + 1]
             called == Push(<<UserFrame(cb)>>, [top EXCEPT !.seen = Counted(@, cb)])
  <2>1. stack # <<>> /\ postFlushIndex + 1 \in 1..Len(activePostFlushCbs)
    BY <1>16, LenProperties DEF FlushPostCb, Running, TypeOK
  <2>2. cb \in Fns /\ <<UserFrame(cb)>> \in Seq(FrameSet)
    BY <2>1, FrameTypes, ElementOfSeq DEF TypeOK, Fns
  <2>3. [top EXCEPT !.seen = Counted(@, cb)] \in FrameSet
    BY <1>c, <2>1, <2>2, FrameTypes DEF FrameSet
  <2>4. called \in Seq(FrameSet)
    BY <2>1, <2>2, <2>3, PushProperties DEF TypeOK
  <2>5. /\ stack' \in {called, stack} /\ postFlushIndex' \in {postFlushIndex, postFlushIndex + 1}
        /\ owed' \subseteq owed
    BY <1>16 DEF FlushPostCb
  <2> QED
    BY <1>16, <2>4, <2>5 DEF FlushPostCb, TypeOK
<1>17. ASSUME FlushPostDone PROVE TypeOK'
  <2>1. Len(stack) \in Nat \ {0} /\ stack # <<>>
    BY <1>17, EmptySeq DEF FlushPostDone, Running, TypeOK
  <2>2. \A k \in 1..(Len(stack) - 1) : stack[k + 1] \in FrameSet
    BY <2>1, ElementOfSeq DEF TypeOK
  <2>3. \A k \in 1..(Len(stack) - 1) :
          [stack[k + 1] EXCEPT !.seen = top.seen] \in FrameSet
    BY <1>c, <2>1, <2>2 DEF FrameSet
  <2>4. stack' \in [1..(Len(stack) - 1) -> FrameSet]
    BY <1>17, <2>2, <2>3 DEF FlushPostDone
  <2>5. stack' \in Seq(FrameSet)
    BY <2>1, <2>4, SeqDef
  <2> QED
    BY <1>17, <1>a, <2>5 DEF FlushPostDone, TypeOK
<1>18. ASSUME RenderFlushPre PROVE TypeOK'
  <2>1. stack # <<>> /\ <<PreFrame(Infinity)>> \in Seq(FrameSet)
    <3>1. PreFrame(Infinity) \in FrameSet
      BY FrameTypes, IdAssumption DEF TypeOK
    <3> QED
      BY <1>18, <3>1 DEF RenderFlushPre, Running
  <2>2. stack' \in Seq(FrameSet)
    BY <1>18, <1>d, <2>1, PushProperties DEF RenderFlushPre, TypeOK
  <2> QED
    BY <1>18, <2>2 DEF RenderFlushPre, TypeOK
<1>19. ASSUME RenderFlushPost PROVE TypeOK'
  <2>1. stack # <<>> /\ flushPostFlushCbs(Tail(stack), NoneSeen)
    BY <1>19 DEF RenderFlushPost, Running
  <2>2. /\ stack' \in Seq(FrameSet) /\ pendingPostFlushCbs' \in Seq(Cbs)
        /\ activePostFlushCbs' \in Seq(Cbs) /\ postFlushIndex' \in Nat
    BY <1>c, <2>1, FrameTypes, FlushPostCbsType
  <2> QED
    BY <1>19, <2>2 DEF RenderFlushPost, TypeOK
<1>20. CASE UNCHANGED vars
  BY <1>20 DEF vars, TypeOK
<1> QED
  BY <1>1, <1>2, <1>3, <1>4, <1>5, <1>6, <1>6a, <1>7, <1>8, <1>9, <1>10, <1>11, <1>12, <1>13,
     <1>14, <1>15, <1>16, <1>17, <1>18, <1>19, <1>20 DEF Next, UserCall, Proceed

LEMMA TypeInit == Init => TypeOK
<1>1. <<>> \in Seq(Jobs) /\ <<>> \in Seq(Cbs) /\ <<>> \in Seq(FrameSet)
  BY EmptySeq
<1> SUFFICES ASSUME Init PROVE TypeOK
  OBVIOUS
<1>2. queue \in Seq(Jobs) /\ stack \in Seq(FrameSet)
  BY <1>1 DEF Init
<1>3. pendingPostFlushCbs \in Seq(Cbs) /\ activePostFlushCbs \in Seq(Cbs)
  BY <1>1 DEF Init
<1>4. active \in [Updates -> BOOLEAN]
  BY DEF Init
<1> QED
  BY <1>2, <1>3, <1>4 DEF Init, TypeOK

\* Every variable holds a value of its type, whatever the scheduled functions call.
THEOREM TypeCorrect == Spec => []TypeOK
BY TypeInit, TypeStep, PTL DEF Spec
==============================================================================
