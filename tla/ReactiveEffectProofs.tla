------------------------ MODULE ReactiveEffectProofs ------------------------
(* Types of ReactiveEffect, its two-way dependency graph, what it tracks    *)
(* (the refinement of Tracking) and that it settles, for any functions,     *)
(* sources and bounds.                                                      *)
EXTENDS ReactiveEffect, SequenceLemmas, FiniteSetTheorems

IInv == TypeOK /\ Mutual

\* What a step does to the graph, the marks and the history of reads.
GraphOK ==
  /\ dep \in [Sources -> SUBSET Functions]
  /\ w \in [Sources -> SUBSET Nat] /\ n \in [Sources -> SUBSET Nat]
  /\ deps \in [Functions -> SUBSET Sources]
  /\ reads \in [Functions -> SUBSET Sources]
  /\ Mutual

------------------------------------------------------------------------------
(* The call stack.                                                          *)

LEMMA FrameType ==
  ASSUME NEW kind, NEW f, NEW todo \in SUBSET Functions, NEW saved \in BOOLEAN,
         \/ kind \in {"main", "trigger", "paused"} /\ f = None
         \/ kind \in {"run", "call"} /\ f \in Functions
         \/ kind = "get" /\ f \in Computeds
  PROVE  Frame(kind, f, todo, saved) \in FrameSet
BY DEF Frame, FrameSet, Frames

\* The frame at the top, and what is below it.
LEMMA TopType ==
  ASSUME stack \in Seq(FrameSet), stack # <<>>
  PROVE  /\ top \in FrameSet
         /\ Tail(stack) \in Seq(FrameSet)
         /\ top.kind \in {"run", "call"} => top.fn \in Functions
         /\ top.kind = "get" => top.fn \in Computeds
         /\ top.todo \in SUBSET Functions /\ top.saved \in BOOLEAN
<1>1. top \in FrameSet /\ Tail(stack) \in Seq(FrameSet)
  BY HeadTailProperties DEF top
<1> QED
  BY <1>1 DEF FrameSet, Frames

LEMMA SingleType ==
  ASSUME NEW frame \in FrameSet
  PROVE  <<frame>> \in Seq(FrameSet)
OBVIOUS

LEMMA PushType ==
  ASSUME NEW frame \in FrameSet, NEW below \in Seq(FrameSet)
  PROVE  <<frame>> \o below \in Seq(FrameSet)
<1>1. <<frame>> \in Seq(FrameSet)
  OBVIOUS
<1> QED
  BY <1>1, ConcatProperties

\* A turn of a loop takes an effect off its list.
LEMMA TurnType ==
  ASSUME stack \in Seq(FrameSet), stack # <<>>, NEW f
  PROVE  <<[top EXCEPT !.todo = @ \ {f}]>> \o Tail(stack) \in Seq(FrameSet)
<1>1. [top EXCEPT !.todo = @ \ {f}] \in FrameSet
  BY TopType DEF FrameSet, Frames
<1> QED
  BY <1>1, TopType, PushType

LEMMA CallingType ==
  ASSUME stack \in Seq(FrameSet), stack # <<>>, NEW frames \in Seq(FrameSet)
  PROVE  Calling(frames) \in Seq(FrameSet)
<1>1. [top EXCEPT !.ops = @ + 1] \in FrameSet
  <2>1. \A kinds, fns : top \in Frames(kinds, fns) =>
          [top EXCEPT !.ops = @ + 1] \in Frames(kinds, fns)
    BY DEF Frames
  <2> QED
    BY <2>1, TopType DEF FrameSet
<1>2. (frames \o <<[top EXCEPT !.ops = @ + 1]>>) \o Tail(stack) \in Seq(FrameSet)
  BY <1>1, PushedProperties
<1> QED
  BY <1>2 DEF Calling

LEMMA DepthType ==
  ASSUME stack \in Seq(FrameSet)
  PROVE  /\ effectTrackDepth \in Nat
         /\ isTracking => activeEffect \in Functions
<1>1. Len(stack) \in Nat
  BY LenProperties
<1>2. IsFiniteSet(RunFrames)
  <2>1. RunFrames \in SUBSET (1..Len(stack))
    BY DEF RunFrames
  <2>2. IsFiniteSet(1..Len(stack))
    BY <1>1, FS_Interval
  <2> QED
    BY <2>1, <2>2, FS_Subset
<1>3. effectTrackDepth \in Nat
  BY <1>2, FS_CardinalityType DEF effectTrackDepth
<1>4. ASSUME isTracking
      PROVE  activeEffect \in Functions
  <2>1. RunFrames # {}
    BY <1>4 DEF isTracking, activeEffect
  <2>2. \A k \in RunFrames : stack[k].fn \in Functions
    <3> SUFFICES ASSUME NEW k \in RunFrames PROVE stack[k].fn \in Functions
      OBVIOUS
    <3>1. stack[k] \in FrameSet /\ stack[k].kind = "run"
      BY ElementOfSeq DEF RunFrames
    <3> QED
      BY <3>1 DEF FrameSet, Frames
  <2>3. \E k \in RunFrames : \A m \in RunFrames : k <= m
    <3>1. RunFrames \in SUBSET Nat
      BY <1>1 DEF RunFrames
    <3> QED
      BY <2>1, <3>1, LeastNumber
  <2> QED
    BY <2>1, <2>2, <2>3 DEF activeEffect
<1> QED
  BY <1>3, <1>4

------------------------------------------------------------------------------
(* The runs on a stack, and the level each is at: the number of runs from   *)
(* it down.  The levels of S are 1..Cardinality(S), each that of one run.   *)

Runs(s) == {k \in 1..Len(s) : s[k].kind = "run"}

Level(S, k) == Cardinality({m \in S : m >= k})

\* The functions that run, innermost last.
RunsOf(s) == [d \in 1..Cardinality(Runs(s)) |->
                s[CHOOSE k \in Runs(s) : Level(Runs(s), k) = d].fn]

LEMMA RunningEffectsAreRuns ==
  RunningEffects = RunsOf(stack) /\ RunFrames = Runs(stack)
BY DEF RunningEffects, RunsOf, RunFrames, Runs, Level, effectTrackDepth

LEMMA LevelsDescend ==
  ASSUME NEW S, IsFiniteSet(S), S \in SUBSET Nat
  PROVE  /\ \A k \in S : Level(S, k) \in 1..Cardinality(S)
         /\ \A k, m \in S : k < m => Level(S, m) < Level(S, k)
<1> DEFINE from(k) == {m \in S : m >= k}
<1>0. Cardinality(S) \in Nat
  BY FS_CardinalityType
<1>1. ASSUME NEW k \in S
      PROVE  /\ from(k) \in SUBSET S /\ k \in from(k)
             /\ IsFiniteSet(from(k)) /\ Cardinality(from(k)) \in Nat \ {0}
             /\ Cardinality(from(k)) <= Cardinality(S)
  <2>1. from(k) \in SUBSET S /\ k \in from(k)
    OBVIOUS
  <2> HIDE DEF from
  <2>2. IsFiniteSet(from(k)) /\ Cardinality(from(k)) <= Cardinality(S)
    BY <2>1, FS_Subset
  <2>3. Cardinality(from(k)) \in Nat /\ Cardinality(from(k)) # 0
    BY <2>1, <2>2, FS_CardinalityType, FS_EmptySet
  <2> QED
    BY <2>1, <2>2, <2>3
<1>2. ASSUME NEW k \in S, NEW m \in S, k < m
      PROVE  Cardinality(from(m)) < Cardinality(from(k))
  <2>0. \A i \in S : i \in Nat
    OBVIOUS
  <2>1. from(m) \in SUBSET from(k) /\ k \notin from(m)
    <3>1. \A i \in S : i >= m => i >= k
      BY <1>2, <2>0
    <3>2. ~(k >= m)
      BY <1>2, <2>0
    <3> QED
      BY <3>1, <3>2
  <2>2. from(m) # from(k)
    <3>1. k \in from(k)
      BY <1>1
    <3> HIDE DEF from
    <3> QED
      BY <2>1, <3>1
  <2>3. /\ IsFiniteSet(from(k)) /\ Cardinality(from(k)) \in Nat
        /\ Cardinality(from(m)) \in Nat
    BY <1>1
  <2> HIDE DEF from
  <2>4. Cardinality(from(m)) <= Cardinality(from(k)) /\ Cardinality(from(k)) # Cardinality(from(m))
    BY <2>1, <2>2, <2>3, FS_Subset
  <2> QED
    BY <2>3, <2>4
<1>3. \A k : Level(S, k) = Cardinality(from(k))
  BY DEF Level
<1> HIDE DEF from
<1> QED
  BY <1>0, <1>1, <1>2, <1>3

\* A level is that of exactly one run.
LEMMA LevelsAreExact ==
  ASSUME NEW S, IsFiniteSet(S), S \in SUBSET Nat
  PROVE  /\ Cardinality(S) \in Nat
         /\ \A k \in S : Level(S, k) \in 1..Cardinality(S)
         /\ \A k, m \in S : Level(S, k) = Level(S, m) => k = m
         /\ \A d \in 1..Cardinality(S) : \E k \in S : Level(S, k) = d
<1> DEFINE N == Cardinality(S)
           level == [k \in S |-> Level(S, k)]
<1>1. N \in Nat /\ IsFiniteSet(1..N) /\ Cardinality(1..N) = N
  <2>1. N \in Nat
    BY FS_CardinalityType
  <2> HIDE DEF N
  <2> QED
    BY <2>1, FS_Interval
<1>2. \A k \in S : Level(S, k) \in 1..N
  BY LevelsDescend
<1>3. \A k, m \in S : Level(S, k) = Level(S, m) => k = m
  <2> SUFFICES ASSUME NEW k \in S, NEW m \in S, k # m PROVE Level(S, k) # Level(S, m)
    OBVIOUS
  <2>1. k < m \/ m < k
    OBVIOUS
  <2>2. Level(S, k) < Level(S, m) \/ Level(S, m) < Level(S, k)
    BY <2>1, LevelsDescend
  <2>3. Level(S, k) \in Nat /\ Level(S, m) \in Nat
    BY <1>1, <1>2
  <2> QED
    BY <2>2, <2>3
<1>4. level \in Injection(S, 1..N)
  <2> HIDE DEF N
  <2> QED
    BY <1>2, <1>3 DEF Injection, IsInjective
<1>5. level \in Surjection(S, 1..N)
  <2>1. Cardinality(S) = Cardinality(1..N)
    BY <1>1
  <2> HIDE DEF N, level
  <2> QED
    BY <1>1, <1>4, <2>1, FS_Injection
<1>6. \A d \in 1..N : \E k \in S : Level(S, k) = d
  <2> HIDE DEF N
  <2> QED
    BY <1>5 DEF Surjection
<1> QED
  BY <1>1, <1>2, <1>3, <1>6

\* The levels of a set of positions that is moved up by one.
LEMMA LevelsMoved ==
  ASSUME NEW S, IsFiniteSet(S), S \in SUBSET (Nat \ {0})
  PROVE  LET T == {k + 1 : k \in S}
         IN  /\ IsFiniteSet(T) /\ Cardinality(T) = Cardinality(S)
             /\ \A k \in S : Level(T, k + 1) = Level(S, k)
<1> DEFINE moved(U) == {k + 1 : k \in U}
           move(U) == [k \in U |-> k + 1]
<1>1. ASSUME NEW U, IsFiniteSet(U), U \in SUBSET Nat
      PROVE  IsFiniteSet(moved(U)) /\ Cardinality(moved(U)) = Cardinality(U)
  <2>1. move(U) \in Bijection(U, moved(U))
    BY <1>1 DEF Bijection, Injection, Surjection, IsInjective
  <2>2. ExistsBijection(U, moved(U))
    BY <2>1 DEF ExistsBijection
  <2> HIDE DEF moved
  <2> QED
    BY <1>1, <2>2, FS_Bijection
<1>2. ASSUME NEW k \in S
      PROVE  Level(moved(S), k + 1) = Level(S, k)
  <2> DEFINE from == {m \in S : m >= k}
  <2>1. {m \in moved(S) : m >= k + 1} = moved(from)
    OBVIOUS
  <2>2. IsFiniteSet(from) /\ from \in SUBSET Nat
    BY FS_Subset
  <2>3. Cardinality(moved(from)) = Cardinality(from)
    <3> HIDE DEF from, moved
    <3> QED
      BY <1>1, <2>2
  <2> QED
    BY <2>1, <2>3 DEF Level
<1> QED
  BY <1>1, <1>2

LEMMA RunsFinite ==
  ASSUME NEW s \in Seq(FrameSet)
  PROVE  /\ Runs(s) \in SUBSET (Nat \ {0}) /\ Runs(s) \in SUBSET Nat
         /\ IsFiniteSet(Runs(s)) /\ Cardinality(Runs(s)) \in Nat
<1>1. Len(s) \in Nat
  BY LenProperties
<1>2. Runs(s) \in SUBSET (1..Len(s)) /\ IsFiniteSet(1..Len(s))
  BY <1>1, FS_Interval DEF Runs
<1>3. IsFiniteSet(Runs(s))
  BY <1>2, FS_Subset
<1> QED
  BY <1>1, <1>2, <1>3, FS_CardinalityType

\* The run at position k is listed at its level, and nothing else is listed.
LEMMA RunsListed ==
  ASSUME NEW s \in Seq(FrameSet)
  PROVE  /\ RunsOf(s) \in Seq(Functions)
         /\ Len(RunsOf(s)) = Cardinality(Runs(s))
         /\ \A k \in Runs(s) : RunsOf(s)[Level(Runs(s), k)] = s[k].fn
         /\ \A d \in 1..Cardinality(Runs(s)) :
              \E k \in Runs(s) : Level(Runs(s), k) = d /\ RunsOf(s)[d] = s[k].fn
<1> DEFINE S == Runs(s)
           N == Cardinality(S)
           at(d) == CHOOSE k \in S : Level(S, k) = d
<1>1. /\ N \in Nat
      /\ \A k \in S : Level(S, k) \in 1..N
      /\ \A k, m \in S : Level(S, k) = Level(S, m) => k = m
      /\ \A d \in 1..N : \E k \in S : Level(S, k) = d
  BY RunsFinite, LevelsAreExact
<1>2. \A k \in S : s[k].fn \in Functions
  <2> SUFFICES ASSUME NEW k \in S PROVE s[k].fn \in Functions
    OBVIOUS
  <2>1. s[k] \in FrameSet /\ s[k].kind = "run"
    BY ElementOfSeq DEF Runs
  <2> QED
    BY <2>1 DEF FrameSet, Frames
<1>3. RunsOf(s) = [d \in 1..N |-> s[at(d)].fn]
  BY DEF RunsOf
<1> HIDE DEF S, N
<1>4. \A d \in 1..N : at(d) \in S /\ Level(S, at(d)) = d
  BY <1>1
<1>5. \A k \in S : at(Level(S, k)) = k
  BY <1>1, <1>4
<1> HIDE DEF at
<1>6. RunsOf(s) \in [1..N -> Functions]
  BY <1>2, <1>3, <1>4
<1>7. RunsOf(s) \in Seq(Functions) /\ Len(RunsOf(s)) = N
  <2>1. RunsOf(s) \in Seq(Functions)
    BY <1>1, <1>6, SeqDef
  <2>2. Len(RunsOf(s)) = N
    <3>1. /\ Len(RunsOf(s)) \in Nat /\ DOMAIN RunsOf(s) = 1..Len(RunsOf(s))
          /\ DOMAIN RunsOf(s) = 1..N
      BY <1>6, <2>1, LenProperties
    <3>2. \A i, j \in Nat : 1..i = 1..j => i = j
      <4> SUFFICES ASSUME NEW i \in Nat, NEW j \in Nat, i < j PROVE 1..i # 1..j
        OBVIOUS
      <4>1. j \in 1..j /\ j \notin 1..i
        OBVIOUS
      <4> QED
        BY <4>1
    <3> QED
      BY <1>1, <3>1, <3>2
  <2> QED
    BY <2>1, <2>2
<1>8. \A k \in S : RunsOf(s)[Level(S, k)] = s[k].fn
  BY <1>1, <1>3, <1>5
<1>9. \A d \in 1..N : \E k \in S : Level(S, k) = d /\ RunsOf(s)[d] = s[k].fn
  BY <1>3, <1>4
<1> QED
  BY <1>7, <1>8, <1>9 DEF S, N

\* A frame on a stack.
LEMMA OnTop ==
  ASSUME NEW f \in FrameSet, NEW t \in Seq(FrameSet)
  PROVE  LET s == <<f>> \o t
         IN  /\ s \in Seq(FrameSet)
             /\ Len(t) \in Nat /\ Len(s) = Len(t) + 1
             /\ s[1] = f
             /\ \A k \in 1..Len(t) : s[k + 1] = t[k]
<1> DEFINE one == <<f>>
           s == one \o t
<1>1. one \in Seq(FrameSet) /\ Len(one) = 1 /\ one[1] = f
  OBVIOUS
<1>2. Len(t) \in Nat
  BY LenProperties
<1> HIDE DEF one
<1>3. /\ s \in Seq(FrameSet) /\ Len(s) = Len(one) + Len(t)
      /\ \A i \in 1..(Len(one) + Len(t)) :
           s[i] = IF i <= Len(one) THEN one[i] ELSE t[i - Len(one)]
  BY <1>1, ConcatProperties
<1> HIDE DEF s
<1>4. Len(s) = Len(t) + 1 /\ s[1] = f
  BY <1>1, <1>2, <1>3
<1>5. ASSUME NEW k \in 1..Len(t)
      PROVE  s[k + 1] = t[k]
  <2>1. k + 1 \in 1..(1 + Len(t)) /\ ~(k + 1 <= 1) /\ (k + 1) - 1 = k
    BY <1>2
  <2> QED
    BY <1>1, <1>3, <2>1
<1> QED
  BY <1>2, <1>3, <1>4, <1>5 DEF s, one

LEMMA RunsOnTop ==
  ASSUME NEW f \in FrameSet, NEW t \in Seq(FrameSet)
  PROVE  Runs(<<f>> \o t) = {k + 1 : k \in Runs(t)} \union
                            (IF f.kind = "run" THEN {1} ELSE {})
<1> DEFINE s == <<f>> \o t
           moved == {k + 1 : k \in Runs(t)} \union (IF f.kind = "run" THEN {1} ELSE {})
<1>1. /\ Len(t) \in Nat /\ Len(s) = Len(t) + 1 /\ s[1] = f
      /\ \A k \in 1..Len(t) : s[k + 1] = t[k]
  BY OnTop
<1> HIDE DEF s
<1>2. ASSUME NEW k \in Runs(s)
      PROVE  k \in moved
  <2>1. k \in 1..Len(s) /\ s[k].kind = "run"
    BY DEF Runs
  <2>2. CASE k = 1
    BY <1>1, <2>1, <2>2
  <2>3. CASE k # 1
    <3>1. k - 1 \in 1..Len(t) /\ (k - 1) + 1 = k
      BY <1>1, <2>1, <2>3
    <3>2. t[k - 1].kind = "run"
      BY <1>1, <2>1, <3>1
    <3>3. k - 1 \in Runs(t)
      BY <3>1, <3>2 DEF Runs
    <3> QED
      BY <3>1, <3>3
  <2> QED
    BY <2>2, <2>3
<1>3. ASSUME NEW k \in moved
      PROVE  k \in Runs(s)
  <2>1. CASE f.kind = "run" /\ k = 1
    BY <1>1, <2>1 DEF Runs
  <2>2. ASSUME NEW m \in Runs(t), k = m + 1
        PROVE  k \in Runs(s)
    <3>1. m \in 1..Len(t) /\ t[m].kind = "run"
      BY DEF Runs
    <3>2. m + 1 \in 1..Len(s) /\ s[m + 1].kind = "run"
      BY <1>1, <3>1
    <3> QED
      BY <2>2, <3>2 DEF Runs
  <2> QED
    BY <2>1, <2>2
<1>4. Runs(s) = moved
  BY <1>2, <1>3
<1> QED
  BY <1>4 DEF s

\* A frame of another kind leaves the list of runs alone.
LEMMA RunsBelowOther ==
  ASSUME NEW f \in FrameSet, NEW t \in Seq(FrameSet), f.kind # "run"
  PROVE  RunsOf(<<f>> \o t) = RunsOf(t)
<1> DEFINE s == <<f>> \o t
           N == Cardinality(Runs(t))
<1>1. /\ s \in Seq(FrameSet) /\ \A k \in 1..Len(t) : s[k + 1] = t[k]
  BY OnTop
<1>2. Runs(s) = {k + 1 : k \in Runs(t)}
  BY RunsOnTop
<1> HIDE DEF s
<1>3. /\ Cardinality(Runs(s)) = N
      /\ \A k \in Runs(t) : Level(Runs(s), k + 1) = Level(Runs(t), k)
  BY <1>2, RunsFinite, LevelsMoved
<1>4. /\ RunsOf(s) \in Seq(Functions) /\ RunsOf(t) \in Seq(Functions)
      /\ Len(RunsOf(s)) = N /\ Len(RunsOf(t)) = N
  BY <1>1, <1>3, RunsListed
<1>5. ASSUME NEW d \in 1..N
      PROVE  RunsOf(s)[d] = RunsOf(t)[d]
  <2>1. PICK k \in Runs(t) : Level(Runs(t), k) = d /\ RunsOf(t)[d] = t[k].fn
    BY RunsListed
  <2>2. k + 1 \in Runs(s) /\ Level(Runs(s), k + 1) = d
    BY <1>2, <1>3, <2>1
  <2>3. RunsOf(s)[d] = s[k + 1].fn
    BY <1>1, <2>2, RunsListed
  <2>4. s[k + 1] = t[k]
    BY <1>1 DEF Runs
  <2> QED
    BY <2>1, <2>3, <2>4
<1>6. RunsOf(s) = RunsOf(t)
  BY <1>4, <1>5, SeqEqual
<1> QED
  BY <1>6 DEF s

\* A run on the top is the last of the list.
LEMMA RunsBelowRun ==
  ASSUME NEW f \in FrameSet, NEW t \in Seq(FrameSet), f.kind = "run"
  PROVE  /\ RunsOf(<<f>> \o t) = Append(RunsOf(t), f.fn)
         /\ f.fn \in Functions
<1> DEFINE s == <<f>> \o t
           N == Cardinality(Runs(t))
           moved == {k + 1 : k \in Runs(t)}
           list == Append(RunsOf(t), f.fn)
<1>0. f.fn \in Functions
  BY DEF FrameSet, Frames
<1>1. s \in Seq(FrameSet) /\ s[1] = f /\ \A k \in 1..Len(t) : s[k + 1] = t[k]
  BY OnTop
<1>2. Runs(s) = moved \union {1}
  BY RunsOnTop
<1> HIDE DEF s
<1>3. /\ N \in Nat /\ Runs(t) \in SUBSET (Nat \ {0}) /\ IsFiniteSet(Runs(t))
      /\ IsFiniteSet(moved) /\ Cardinality(moved) = N
      /\ \A k \in Runs(t) : Level(moved, k + 1) = Level(Runs(t), k)
  BY RunsFinite, LevelsMoved
<1>4. 1 \notin moved /\ moved \in SUBSET (Nat \ {0})
  BY <1>3
<1>5. Cardinality(Runs(s)) = N + 1
  <2> HIDE DEF moved, N
  <2>1. Cardinality(moved \union {1}) = Cardinality(moved) + 1
    BY <1>3, <1>4, FS_AddElement, Zenon
  <2> QED
    BY <1>2, <1>3, <2>1
<1>6. ASSUME NEW k \in Runs(t)
      PROVE  Level(Runs(s), k + 1) = Level(Runs(t), k)
  <2>1. k \in Nat \ {0}
    BY <1>3
  <2>2. {m \in Runs(s) : m >= k + 1} = {m \in moved : m >= k + 1}
    <3>1. ~(1 >= k + 1)
      BY <2>1
    <3> HIDE DEF moved
    <3> QED
      BY <1>2, <3>1
  <2> QED
    BY <1>3, <2>2 DEF Level
<1>7. Level(Runs(s), 1) = N + 1
  <2>1. {m \in Runs(s) : m >= 1} = Runs(s)
    BY <1>2, <1>4
  <2> QED
    BY <1>5, <2>1 DEF Level
<1>8. /\ RunsOf(s) \in Seq(Functions) /\ RunsOf(t) \in Seq(Functions)
      /\ Len(RunsOf(s)) = N + 1 /\ Len(RunsOf(t)) = N
  BY <1>1, <1>5, RunsListed
<1>9. /\ list \in Seq(Functions) /\ Len(list) = N + 1
      /\ \A d \in 1..N : list[d] = RunsOf(t)[d]
      /\ list[N + 1] = f.fn
  BY <1>0, <1>8, AppendProperties
<1> HIDE DEF list
<1>10. ASSUME NEW d \in 1..(N + 1)
       PROVE  RunsOf(s)[d] = list[d]
  <2>1. CASE d \in 1..N
    <3>1. PICK k \in Runs(t) : Level(Runs(t), k) = d /\ RunsOf(t)[d] = t[k].fn
      BY <2>1, RunsListed
    <3>2. k + 1 \in Runs(s) /\ Level(Runs(s), k + 1) = d
      BY <1>2, <1>6, <3>1
    <3>3. RunsOf(s)[d] = s[k + 1].fn
      BY <1>1, <3>2, RunsListed
    <3>4. s[k + 1] = t[k]
      BY <1>1 DEF Runs
    <3> QED
      BY <1>9, <2>1, <3>1, <3>3, <3>4
  <2>2. CASE d = N + 1
    <3>1. 1 \in Runs(s)
      BY <1>2
    <3>2. RunsOf(s)[N + 1] = s[1].fn
      BY <1>1, <1>7, <3>1, RunsListed
    <3> QED
      BY <1>1, <1>9, <2>2, <3>2
  <2> QED
    BY <1>3, <2>1, <2>2
<1>11. RunsOf(s) = list
  BY <1>8, <1>9, <1>10, SeqEqual
<1> QED
  BY <1>0, <1>11 DEF s, list

\* The listed functions are those of Chain, and the last one is activeEffect.
LEMMA RunningEffectsFacts ==
  ASSUME stack \in Seq(FrameSet)
  PROVE  /\ RunningEffects \in Seq(Functions)
         /\ Len(RunningEffects) \in Nat /\ effectTrackDepth = Len(RunningEffects)
         /\ Chain = {RunningEffects[d] : d \in 1..Len(RunningEffects)}
         /\ Len(RunningEffects) = 0 => activeEffect = None
         /\ Len(RunningEffects) # 0 => activeEffect = RunningEffects[Len(RunningEffects)]
<1> DEFINE R == RunsOf(stack)
           S == Runs(stack)
           N == Cardinality(S)
<1>1. /\ RunFrames = S /\ RunningEffects = R /\ effectTrackDepth = N
  BY RunningEffectsAreRuns DEF effectTrackDepth
<1>2. /\ S \in SUBSET Nat /\ IsFiniteSet(S) /\ N \in Nat
  BY RunsFinite
<1>3. /\ R \in Seq(Functions) /\ Len(R) = N
      /\ \A k \in S : R[Level(S, k)] = stack[k].fn
      /\ \A d \in 1..N : \E k \in S : Level(S, k) = d /\ R[d] = stack[k].fn
  BY RunsListed
<1>4. \A k \in S : Level(S, k) \in 1..N
  BY <1>2, LevelsAreExact
<1> HIDE DEF R
<1>5. Chain = {R[d] : d \in 1..Len(R)}
  <2>1. Chain = {stack[k].fn : k \in S}
    BY <1>1 DEF Chain
  <2>2. \A k \in S : \E d \in 1..N : stack[k].fn = R[d]
    BY <1>3, <1>4
  <2>3. \A d \in 1..N : \E k \in S : R[d] = stack[k].fn
    BY <1>3
  <2> HIDE DEF S, N
  <2>4. {stack[k].fn : k \in S} = {R[d] : d \in 1..N}
    BY <2>2, <2>3
  <2>5. Len(R) = N
    BY <1>3
  <2> QED
    BY <2>1, <2>4, <2>5
<1>6. CASE N = 0
  <2>1. S = {}
    BY <1>2, <1>6, FS_EmptySet
  <2> QED
    BY <1>1, <1>3, <1>5, <1>6, <2>1 DEF activeEffect
<1>7. CASE N # 0
  <2>1. S # {}
    BY <1>7, FS_EmptySet
  <2>2. PICK k \in S : \A m \in S : k <= m
    BY <1>2, <2>1, LeastNumber
  <2>3. activeEffect = stack[k].fn
    <3>1. \A i \in S : (\A m \in S : i <= m) => i = k
      BY <1>2, <2>2
    <3> HIDE DEF S
    <3> QED
      BY <1>1, <2>1, <2>2, <3>1 DEF activeEffect
  <2>4. Level(S, k) = N
    <3>1. {m \in S : m >= k} = S
      BY <1>2, <2>2
    <3> QED
      BY <3>1 DEF Level
  <2>5. R[N] = stack[k].fn
    BY <1>3, <2>4
  <2> QED
    BY <1>1, <1>2, <1>3, <1>5, <1>7, <2>3, <2>5
<1> QED
  BY <1>6, <1>7

------------------------------------------------------------------------------
(* shouldTrack and the values that are saved to restore it.                 *)

\* Below position k, an array method runs and no effect inside it.
PausedBelow(s, k) ==
  \E j \in (k + 1)..Len(s) :
    s[j].kind = "paused" /\ \A m \in (k + 1)..j : s[m].kind # "run"

\* What is saved is the value of shouldTrack for the code below.
FlagsOf(s, flag) ==
  /\ flag = ~PausedBelow(s, 0)
  /\ \A k \in 1..Len(s) :
       s[k].kind \in {"run", "paused"} => s[k].saved = ~PausedBelow(s, k)

LEMMA PausedIsBelow ==
  ASSUME stack \in Seq(FrameSet)
  PROVE  Paused <=> PausedBelow(stack, 0)
<1>1. Len(stack) \in Nat
  BY LenProperties
<1>2. ASSUME Paused PROVE PausedBelow(stack, 0)
  <2>1. PICK k \in 1..Len(stack) :
          stack[k].kind = "paused" /\ \A m \in RunFrames : k < m
    BY <1>2 DEF Paused
  <2>2. \A m \in 1..k : stack[m].kind # "run"
    <3> SUFFICES ASSUME NEW m \in 1..k, stack[m].kind = "run" PROVE FALSE
      OBVIOUS
    <3>1. m \in RunFrames
      BY <1>1 DEF RunFrames
    <3> QED
      BY <1>1, <2>1, <3>1
  <2> QED
    BY <1>1, <2>1, <2>2 DEF PausedBelow
<1>3. ASSUME PausedBelow(stack, 0) PROVE Paused
  <2>1. PICK k \in 1..Len(stack) :
          stack[k].kind = "paused" /\ \A m \in 1..k : stack[m].kind # "run"
    BY <1>3 DEF PausedBelow
  <2>2. \A m \in RunFrames : k < m
    <3> SUFFICES ASSUME NEW m \in RunFrames PROVE k < m
      OBVIOUS
    <3>1. m \in 1..Len(stack) /\ stack[m].kind = "run"
      BY DEF RunFrames
    <3>2. m \notin 1..k
      BY <2>1, <3>1
    <3> QED
      BY <1>1, <3>1, <3>2
  <2> QED
    BY <2>1, <2>2 DEF Paused
<1> QED
  BY <1>2, <1>3

LEMMA PausedOnTop ==
  ASSUME NEW f \in FrameSet, NEW t \in Seq(FrameSet)
  PROVE  /\ \A k \in 0..Len(t) : PausedBelow(<<f>> \o t, k + 1) <=> PausedBelow(t, k)
         /\ PausedBelow(<<f>> \o t, 0) <=>
              f.kind = "paused" \/ (f.kind # "run" /\ PausedBelow(t, 0))
<1> DEFINE s == <<f>> \o t
<1>1. /\ Len(t) \in Nat /\ Len(s) = Len(t) + 1 /\ s[1] = f
      /\ \A k \in 1..Len(t) : s[k + 1] = t[k]
  BY OnTop
<1> HIDE DEF s
<1>2. \A k \in 2..Len(s) : k - 1 \in 1..Len(t) /\ s[k] = t[k - 1]
  <2> SUFFICES ASSUME NEW k \in 2..Len(s) PROVE k - 1 \in 1..Len(t) /\ s[k] = t[k - 1]
    OBVIOUS
  <2>1. k - 1 \in 1..Len(t) /\ (k - 1) + 1 = k
    BY <1>1
  <2> QED
    BY <1>1, <2>1
<1>3. ASSUME NEW k \in 0..Len(t), PausedBelow(t, k)
      PROVE  PausedBelow(s, k + 1)
  <2>1. PICK j \in (k + 1)..Len(t) :
          t[j].kind = "paused" /\ \A m \in (k + 1)..j : t[m].kind # "run"
    BY <1>3 DEF PausedBelow
  <2>2. j + 1 \in (k + 2)..Len(s) /\ s[j + 1].kind = "paused"
    BY <1>1, <2>1
  <2>3. ASSUME NEW m \in (k + 2)..(j + 1)
        PROVE  s[m].kind # "run"
    <3>1. m \in 2..Len(s) /\ m - 1 \in (k + 1)..j
      BY <1>1, <2>1
    <3> QED
      BY <1>2, <2>1, <3>1
  <2>4. (k + 1) + 1 = k + 2
    OBVIOUS
  <2> QED
    BY <2>2, <2>3, <2>4 DEF PausedBelow
<1>4. ASSUME NEW k \in 0..Len(t), PausedBelow(s, k + 1)
      PROVE  PausedBelow(t, k)
  <2>1. PICK j \in ((k + 1) + 1)..Len(s) :
          s[j].kind = "paused" /\ \A m \in ((k + 1) + 1)..j : s[m].kind # "run"
    BY <1>4 DEF PausedBelow
  <2>2. j - 1 \in (k + 1)..Len(t) /\ t[j - 1].kind = "paused"
    BY <1>1, <1>2, <2>1
  <2>3. ASSUME NEW m \in (k + 1)..(j - 1)
        PROVE  t[m].kind # "run"
    <3>1. m \in 1..Len(t) /\ m + 1 \in ((k + 1) + 1)..j
      BY <1>1, <2>1
    <3> QED
      BY <1>1, <2>1, <3>1
  <2> QED
    BY <2>2, <2>3 DEF PausedBelow
<1>5. PausedBelow(s, 0) <=> f.kind = "paused" \/ (f.kind # "run" /\ PausedBelow(s, 1))
  <2>0. /\ PausedBelow(s, 0) <=> \E j \in 1..Len(s) :
               s[j].kind = "paused" /\ \A m \in 1..j : s[m].kind # "run"
        /\ PausedBelow(s, 1) <=> \E j \in 2..Len(s) :
               s[j].kind = "paused" /\ \A m \in 2..j : s[m].kind # "run"
    BY DEF PausedBelow
  <2>1. ASSUME PausedBelow(s, 0), f.kind # "paused"
        PROVE  f.kind # "run" /\ PausedBelow(s, 1)
    <3>1. PICK j \in 1..Len(s) : s[j].kind = "paused" /\ \A m \in 1..j : s[m].kind # "run"
      BY <2>0, <2>1
    <3>2. 1 \in 1..j /\ j # 1
      BY <1>1, <2>1, <3>1
    <3>3. j \in 2..Len(s) /\ \A m \in 2..j : s[m].kind # "run"
      BY <1>1, <3>1, <3>2
    <3> QED
      BY <1>1, <2>0, <3>1, <3>2, <3>3
  <2>2. ASSUME f.kind = "paused" PROVE PausedBelow(s, 0)
    <3>1. 1 \in 1..Len(s) /\ s[1].kind = "paused" /\ \A m \in 1..1 : s[m].kind # "run"
      BY <1>1, <2>2
    <3> QED
      BY <2>0, <3>1
  <2>3. ASSUME f.kind # "run", PausedBelow(s, 1) PROVE PausedBelow(s, 0)
    <3>1. PICK j \in 2..Len(s) : s[j].kind = "paused" /\ \A m \in 2..j : s[m].kind # "run"
      BY <2>0, <2>3
    <3>2. \A m \in 1..j : m = 1 \/ m \in 2..j
      BY <1>1
    <3>3. j \in 1..Len(s) /\ \A m \in 1..j : s[m].kind # "run"
      BY <1>1, <2>3, <3>1, <3>2
    <3> QED
      BY <2>0, <3>1, <3>3
  <2> QED
    BY <2>1, <2>2, <2>3
<1>6. PausedBelow(s, 1) <=> PausedBelow(t, 0)
  <2>1. 0 \in 0..Len(t) /\ 0 + 1 = 1
    BY <1>1
  <2> QED
    BY <1>3, <1>4, <2>1
<1> QED
  BY <1>3, <1>4, <1>5, <1>6 DEF s

\* The value of shouldTrack once frame f is on the stack.
FlagInside(f, flag) ==
  IF f.kind = "run" THEN TRUE ELSE IF f.kind = "paused" THEN FALSE ELSE flag

LEMMA FlagsPushed ==
  ASSUME NEW f \in FrameSet, NEW t \in Seq(FrameSet), NEW flag \in BOOLEAN,
         FlagsOf(t, flag), f.kind \in {"run", "paused"} => f.saved = flag
  PROVE  FlagsOf(<<f>> \o t, FlagInside(f, flag))
<1> DEFINE s == <<f>> \o t
<1>1. /\ Len(t) \in Nat /\ Len(s) = Len(t) + 1 /\ s[1] = f
      /\ \A k \in 1..Len(t) : s[k + 1] = t[k]
  BY OnTop
<1>2. /\ \A k \in 0..Len(t) : PausedBelow(s, k + 1) <=> PausedBelow(t, k)
      /\ PausedBelow(s, 0) <=> f.kind = "paused" \/ (f.kind # "run" /\ PausedBelow(t, 0))
  BY PausedOnTop
<1> HIDE DEF s
<1>3. flag = ~PausedBelow(t, 0)
  BY DEF FlagsOf
<1>4. FlagInside(f, flag) = ~PausedBelow(s, 0)
  BY <1>2, <1>3 DEF FlagInside
<1>5. ASSUME NEW k \in 1..Len(s), s[k].kind \in {"run", "paused"}
      PROVE  s[k].saved = ~PausedBelow(s, k)
  <2>1. CASE k = 1
    <3>1. 0 \in 0..Len(t) /\ 0 + 1 = 1
      BY <1>1
    <3>2. PausedBelow(s, 1) <=> PausedBelow(t, 0)
      BY <1>2, <3>1
    <3>3. s[k].saved = flag
      BY <1>1, <1>5, <2>1
    <3> QED
      BY <1>3, <2>1, <3>2, <3>3
  <2>2. CASE k # 1
    <3>1. k - 1 \in 1..Len(t) /\ (k - 1) + 1 = k /\ k - 1 \in 0..Len(t)
      BY <1>1, <2>2
    <3>2. s[k] = t[k - 1]
      BY <1>1, <3>1
    <3>3. PausedBelow(s, k) <=> PausedBelow(t, k - 1)
      BY <1>2, <3>1
    <3>4. t[k - 1].saved = ~PausedBelow(t, k - 1)
      BY <1>5, <3>1, <3>2 DEF FlagsOf
    <3> QED
      BY <3>2, <3>3, <3>4
  <2> QED
    BY <2>1, <2>2
<1>6. FlagsOf(s, FlagInside(f, flag))
  BY <1>4, <1>5 DEF FlagsOf
<1> QED
  BY <1>6 DEF s

LEMMA FlagsPopped ==
  ASSUME NEW f \in FrameSet, NEW t \in Seq(FrameSet), NEW flag \in BOOLEAN,
         FlagsOf(<<f>> \o t, flag)
  PROVE  FlagsOf(t, IF f.kind \in {"run", "paused"} THEN f.saved ELSE flag)
<1> DEFINE s == <<f>> \o t
<1>1. /\ Len(t) \in Nat /\ Len(s) = Len(t) + 1 /\ s[1] = f
      /\ \A k \in 1..Len(t) : s[k + 1] = t[k]
  BY OnTop
<1>2. /\ \A k \in 0..Len(t) : PausedBelow(s, k + 1) <=> PausedBelow(t, k)
      /\ PausedBelow(s, 0) <=> f.kind = "paused" \/ (f.kind # "run" /\ PausedBelow(t, 0))
  BY PausedOnTop
<1>3. FlagsOf(s, flag)
  OBVIOUS
<1> HIDE DEF s
<1>4. /\ flag = ~PausedBelow(s, 0)
      /\ \A k \in 1..Len(s) :
           s[k].kind \in {"run", "paused"} => s[k].saved = ~PausedBelow(s, k)
  BY <1>3 DEF FlagsOf
<1>5. (IF f.kind \in {"run", "paused"} THEN f.saved ELSE flag) = ~PausedBelow(t, 0)
  <2>1. CASE f.kind \in {"run", "paused"}
    <3>1. 0 \in 0..Len(t) /\ 0 + 1 = 1 /\ 1 \in 1..Len(s)
      BY <1>1
    <3>2. PausedBelow(s, 1) <=> PausedBelow(t, 0)
      BY <1>2, <3>1
    <3>3. f.saved = ~PausedBelow(s, 1)
      BY <1>1, <1>4, <2>1, <3>1
    <3> QED
      BY <2>1, <3>2, <3>3
  <2>2. CASE f.kind \notin {"run", "paused"}
    BY <1>2, <1>4, <2>2
  <2> QED
    BY <2>1, <2>2
<1>6. ASSUME NEW k \in 1..Len(t), t[k].kind \in {"run", "paused"}
      PROVE  t[k].saved = ~PausedBelow(t, k)
  <2>1. k + 1 \in 1..Len(s) /\ k \in 0..Len(t) /\ s[k + 1] = t[k]
    BY <1>1
  <2>2. s[k + 1].saved = ~PausedBelow(s, k + 1)
    BY <1>4, <1>6, <2>1
  <2> QED
    BY <1>2, <2>1, <2>2
<1> QED
  BY <1>5, <1>6 DEF FlagsOf

LEMMA Regrouped ==
  ASSUME NEW s \in Seq(FrameSet), NEW t \in Seq(FrameSet), NEW u \in Seq(FrameSet)
  PROVE  (s \o t) \o u = s \o (t \o u)
<1>1. \A S : \A a, b, c \in Seq(S) : (a \o b) \o c = a \o (b \o c)
  BY ConcatAssociative
<1> QED
  BY <1>1

\* The frame at the top only counts an operation or a turn.
LEMMA TopEdited ==
  ASSUME stack \in Seq(FrameSet), stack # <<>>, shouldTrack \in BOOLEAN,
         NEW x \in FrameSet, x.kind = top.kind, x.fn = top.fn, x.saved = top.saved
  PROVE  /\ <<x>> \o Tail(stack) \in Seq(FrameSet)
         /\ RunsOf(<<x>> \o Tail(stack)) = RunsOf(stack)
         /\ FlagsOf(stack, shouldTrack) => FlagsOf(<<x>> \o Tail(stack), shouldTrack)
<1> DEFINE below == Tail(stack)
<1>1. top \in FrameSet /\ below \in Seq(FrameSet) /\ stack = <<top>> \o below
  <2>1. stack = <<top>> \o below
    BY HeadTailProperties DEF top
  <2> QED
    BY <2>1, TopType
<1> HIDE DEF below
<1>2. <<x>> \o below \in Seq(FrameSet)
  BY <1>1, PushType
<1>3. RunsOf(<<x>> \o below) = RunsOf(stack)
  <2>1. CASE top.kind = "run"
    BY <1>1, <2>1, RunsBelowRun
  <2>2. CASE top.kind # "run"
    BY <1>1, <2>2, RunsBelowOther
  <2> QED
    BY <2>1, <2>2
<1>4. ASSUME FlagsOf(stack, shouldTrack)
      PROVE  FlagsOf(<<x>> \o below, shouldTrack)
  <2> DEFINE inner == IF top.kind \in {"run", "paused"} THEN top.saved ELSE shouldTrack
  <2>1. FlagsOf(below, inner) /\ inner \in BOOLEAN
    <3>1. FlagsOf(<<top>> \o below, shouldTrack)
      BY <1>1, <1>4
    <3> QED
      BY <1>1, <3>1, FlagsPopped, TopType
  <2>2. x.kind \in {"run", "paused"} => x.saved = inner
    OBVIOUS
  <2> HIDE DEF inner
  <2>3. FlagsOf(<<x>> \o below, FlagInside(x, inner))
    BY <1>1, <2>1, <2>2, FlagsPushed
  <2>4. FlagInside(x, inner) = shouldTrack
    <3>1. shouldTrack = ~PausedBelow(<<top>> \o below, 0)
      BY <1>1, <1>4 DEF FlagsOf
    <3>2. PausedBelow(<<top>> \o below, 0) <=>
            top.kind = "paused" \/ (top.kind # "run" /\ PausedBelow(below, 0))
      BY <1>1, PausedOnTop
    <3> QED
      BY <3>1, <3>2 DEF FlagInside, inner
  <2> QED
    BY <2>3, <2>4
<1> QED
  BY <1>2, <1>3, <1>4 DEF below

\* What a frame that is left, or one that is entered, changes.
LEMMA TopPopped ==
  ASSUME stack \in Seq(FrameSet), stack # <<>>, shouldTrack \in BOOLEAN,
         FlagsOf(stack, shouldTrack)
  PROVE  /\ IF top.kind = "run"
            THEN RunsOf(stack) = Append(RunsOf(Tail(stack)), top.fn)
            ELSE RunsOf(Tail(stack)) = RunsOf(stack)
         /\ FlagsOf(Tail(stack),
                    IF top.kind \in {"run", "paused"} THEN top.saved ELSE shouldTrack)
<1> DEFINE below == Tail(stack)
<1>1. top \in FrameSet /\ below \in Seq(FrameSet) /\ stack = <<top>> \o below
  <2>1. stack = <<top>> \o below
    BY HeadTailProperties DEF top
  <2> QED
    BY <2>1, TopType
<1> HIDE DEF below
<1>2. FlagsOf(<<top>> \o below, shouldTrack)
  BY <1>1
<1>3. FlagsOf(below, IF top.kind \in {"run", "paused"} THEN top.saved ELSE shouldTrack)
  BY <1>1, <1>2, FlagsPopped
<1>4. top.kind = "run" => RunsOf(stack) = Append(RunsOf(below), top.fn)
  BY <1>1, RunsBelowRun
<1>5. top.kind # "run" => RunsOf(below) = RunsOf(stack)
  BY <1>1, RunsBelowOther
<1> QED
  BY <1>3, <1>4, <1>5 DEF below

\* The stack once user code has called something.
LEMMA Called ==
  ASSUME stack \in Seq(FrameSet), stack # <<>>, shouldTrack \in BOOLEAN
  PROVE  /\ Calling(<<>>) \in Seq(FrameSet)
         /\ RunsOf(Calling(<<>>)) = RunsOf(stack)
         /\ FlagsOf(stack, shouldTrack) => FlagsOf(Calling(<<>>), shouldTrack)
         /\ \A a \in FrameSet : Calling(<<a>>) = <<a>> \o Calling(<<>>)
         /\ \A a, b \in FrameSet : Calling(<<a, b>>) = <<a>> \o (<<b>> \o Calling(<<>>))
<1> DEFINE x == [top EXCEPT !.ops = @ + 1]
           one == <<x>>
           below == Tail(stack)
<1>1. /\ x \in FrameSet /\ below \in Seq(FrameSet)
      /\ x.kind = top.kind /\ x.fn = top.fn /\ x.saved = top.saved
  <2>1. \A kinds, fns : top \in Frames(kinds, fns) =>
          /\ x \in Frames(kinds, fns)
          /\ x.kind = top.kind /\ x.fn = top.fn /\ x.saved = top.saved
    BY DEF Frames
  <2>2. top \in FrameSet /\ below \in Seq(FrameSet)
    BY TopType
  <2> QED
    BY <2>1, <2>2 DEF FrameSet
<1>2. /\ one \o below \in Seq(FrameSet)
      /\ RunsOf(one \o below) = RunsOf(stack)
      /\ FlagsOf(stack, shouldTrack) => FlagsOf(one \o below, shouldTrack)
  <2> HIDE DEF x
  <2> QED
    BY <1>1, TopEdited
<1>3. one \in Seq(FrameSet)
  BY <1>1, SingleType
<1>4. \A frames : Calling(frames) = (frames \o one) \o below
  BY DEF Calling
<1> HIDE DEF x, one, below
<1>5. Calling(<<>>) = one \o below
  <2>1. <<>> \o one = one
    BY <1>3, ConcatEmptySeq
  <2> QED
    BY <1>4, <2>1
<1>6. ASSUME NEW a \in FrameSet
      PROVE  Calling(<<a>>) = <<a>> \o Calling(<<>>)
  <2> DEFINE as == <<a>>
  <2>1. as \in Seq(FrameSet)
    BY SingleType
  <2> HIDE DEF as
  <2>2. (as \o one) \o below = as \o (one \o below)
    BY <1>1, <1>3, <2>1, Regrouped
  <2> QED
    BY <1>4, <1>5, <2>2 DEF as
<1>7. ASSUME NEW a \in FrameSet, NEW b \in FrameSet
      PROVE  Calling(<<a, b>>) = <<a>> \o (<<b>> \o Calling(<<>>))
  <2> DEFINE as == <<a>>
             bs == <<b>>
  <2>0. <<a, b>> = as \o bs
    <3>1. <<a, b>> = Append(<<a>>, b) /\ <<a>> \in Seq(FrameSet)
      OBVIOUS
    <3> QED
      BY <3>1, AppendIsConcat
  <2>1. as \in Seq(FrameSet) /\ bs \in Seq(FrameSet)
    BY SingleType
  <2> HIDE DEF as, bs
  <2>2. as \o bs \in Seq(FrameSet) /\ bs \o one \in Seq(FrameSet)
    BY <1>3, <2>1, ConcatProperties
  <2>3. ((as \o bs) \o one) \o below = (as \o (bs \o one)) \o below
    BY <1>3, <2>1, Regrouped
  <2>4. (as \o (bs \o one)) \o below = as \o ((bs \o one) \o below)
    <3> DEFINE cs == bs \o one
    <3>1. as \in Seq(FrameSet) /\ cs \in Seq(FrameSet) /\ below \in Seq(FrameSet)
      BY <1>1, <2>1, <2>2
    <3> HIDE DEF cs
    <3>2. (as \o cs) \o below = as \o (cs \o below)
      BY <3>1, Regrouped
    <3> QED
      BY <3>2 DEF cs
  <2>5. (bs \o one) \o below = bs \o (one \o below)
    BY <1>1, <1>3, <2>1, Regrouped
  <2> QED
    BY <1>4, <1>5, <2>0, <2>3, <2>4, <2>5 DEF as, bs
<1> QED
  BY <1>2, <1>5, <1>6, <1>7

------------------------------------------------------------------------------
(* The dependency graph: both directions change together.                   *)

LEMMA SubscribeGraph ==
  ASSUME IInv, NEW f \in Functions, NEW s \in Sources, Subscribe(f, s)
  PROVE  /\ dep' \in [Sources -> SUBSET Functions]
         /\ deps' \in [Functions -> SUBSET Sources]
         /\ Mutual'
<1> USE DEF IInv, TypeOK, Subscribe
<1>1. dep' \in [Sources -> SUBSET Functions] /\ deps' \in [Functions -> SUBSET Sources]
  OBVIOUS
<1>2. ASSUME NEW g \in Functions, NEW t \in Sources
      PROVE  g \in dep'[t] <=> t \in deps'[g]
  <2>1. g \in dep'[t] <=> g \in dep[t] \/ (g = f /\ t = s)
    OBVIOUS
  <2>2. t \in deps'[g] <=> t \in deps[g] \/ (g = f /\ t = s)
    OBVIOUS
  <2> QED
    BY <2>1, <2>2 DEF Mutual
<1> QED
  BY <1>1, <1>2 DEF Mutual

LEMMA UnsubscribeGraph ==
  ASSUME IInv, NEW f \in Functions, NEW ss \in SUBSET Sources, Unsubscribe(f, ss)
  PROVE  /\ dep' \in [Sources -> SUBSET Functions]
         /\ deps' \in [Functions -> SUBSET Sources]
         /\ Mutual'
<1> USE DEF IInv, TypeOK, Unsubscribe
<1>1. dep' \in [Sources -> SUBSET Functions] /\ deps' \in [Functions -> SUBSET Sources]
  OBVIOUS
<1>2. ASSUME NEW g \in Functions, NEW t \in Sources
      PROVE  g \in dep'[t] <=> t \in deps'[g]
  <2>1. g \in dep'[t] <=> g \in dep[t] /\ ~(g = f /\ t \in ss)
    OBVIOUS
  <2>2. t \in deps'[g] <=> t \in deps[g] /\ ~(g = f /\ t \in ss)
    OBVIOUS
  <2> QED
    BY <2>1, <2>2 DEF Mutual
<1> QED
  BY <1>1, <1>2 DEF Mutual

LEMMA SameGraph ==
  ASSUME IInv, UNCHANGED <<dep, deps>>
  PROVE  /\ dep' \in [Sources -> SUBSET Functions]
         /\ deps' \in [Functions -> SUBSET Sources]
         /\ Mutual'
BY DEF IInv, TypeOK, Mutual

LEMMA CleanupGraph ==
  ASSUME IInv, NEW f \in Functions, cleanupEffect(f)
  PROVE  /\ dep' \in [Sources -> SUBSET Functions]
         /\ deps' \in [Functions -> SUBSET Sources]
         /\ Mutual'
<1>1. deps[f] \in SUBSET Sources
  BY DEF IInv, TypeOK
<1> QED
  BY <1>1, UnsubscribeGraph DEF cleanupEffect

\* Reading a source.
LEMMA TrackGraph ==
  ASSUME IInv, NEW s \in Sources, track(s)
  PROVE  GraphOK'
<1>1. effectTrackDepth \in Nat /\ (isTracking => activeEffect \in Functions)
  BY DepthType DEF IInv, TypeOK
<1>2. w' \in [Sources -> SUBSET Nat]
  BY DEF track, IInv, TypeOK
<1>3. reads' \in [Functions -> SUBSET Sources]
  BY DEF track, IInv, TypeOK
<1>4. n' \in [Sources -> SUBSET Nat]
  <2>1. \/ n' = n
        \/ n' = [n EXCEPT ![s] = @ \union {effectTrackDepth}]
    BY DEF track, trackEffects
  <2> QED
    BY <1>1, <2>1 DEF IInv, TypeOK
<1>5. \/ UNCHANGED <<dep, deps>>
      \/ activeEffect \in Functions /\ Subscribe(activeEffect, s)
  BY <1>1 DEF track, trackEffects
<1>6. /\ dep' \in [Sources -> SUBSET Functions]
      /\ deps' \in [Functions -> SUBSET Sources]
      /\ Mutual'
  BY <1>5, SameGraph, SubscribeGraph
<1> QED
  BY <1>2, <1>3, <1>4, <1>6 DEF GraphOK

\* run() up to the function of the effect.
LEMMA RunStep ==
  ASSUME IInv, NEW f \in Functions, NEW below \in Seq(FrameSet), run(f, below)
  PROVE  /\ GraphOK'
         /\ stack' \in Seq(FrameSet) /\ shouldTrack' \in BOOLEAN
         /\ outdated' \subseteq Functions
<1> DEFINE level == effectTrackDepth + 1
<1>0. level \in Nat
  BY DepthType DEF IInv, TypeOK
<1> HIDE DEF level
<1>1. CASE UNCHANGED <<tracking, shouldTrack, outdated>>
  <2>1. GraphOK'
    BY <1>1 DEF IInv, TypeOK, Mutual, GraphOK, tracking
  <2>2. \/ stack' = below
        \/ stack' = <<Frame("call", f, {}, TRUE)>> \o below
        \/ stack' = <<Frame("run", f, {}, shouldTrack)>> \o below
    BY DEF run
  <2>3. Frame("call", f, {}, TRUE) \in FrameSet
    BY FrameType
  <2>4. Frame("run", f, {}, shouldTrack) \in FrameSet
    BY FrameType DEF IInv, TypeOK
  <2>5. stack' \in Seq(FrameSet)
    BY <2>2, <2>3, <2>4, PushType
  <2> QED
    BY <1>1, <2>1, <2>5 DEF IInv, TypeOK
<1>2. CASE /\ stack' = <<Frame("run", f, {}, shouldTrack)>> \o below
           /\ shouldTrack' = TRUE
           /\ \/ initDepMarkers(f, level) /\ UNCHANGED <<dep, deps>>
              \/ cleanupEffect(f) /\ UNCHANGED w
           /\ reads' = [reads EXCEPT ![f] = {}]
           /\ outdated' = outdated \ {f}
           /\ UNCHANGED n
  <2>1. stack' \in Seq(FrameSet)
    BY <1>2, FrameType, PushType DEF IInv, TypeOK
  <2>2. w' \in [Sources -> SUBSET Nat]
    BY <1>0, <1>2 DEF initDepMarkers, IInv, TypeOK
  <2>3. /\ dep' \in [Sources -> SUBSET Functions]
        /\ deps' \in [Functions -> SUBSET Sources]
        /\ Mutual'
    BY <1>2, SameGraph, CleanupGraph
  <2>4. /\ n' \in [Sources -> SUBSET Nat] /\ reads' \in [Functions -> SUBSET Sources]
        /\ outdated' \subseteq Functions
    BY <1>2 DEF IInv, TypeOK
  <2> QED
    BY <1>2, <2>1, <2>2, <2>3, <2>4 DEF GraphOK
<1> QED
  BY <1>1, <1>2 DEF run, level

\* The end of run().
LEMMA EndRunStep ==
  ASSUME IInv, stack # <<>>, top.kind = "run", endRun
  PROVE  /\ GraphOK'
         /\ stack' \in Seq(FrameSet) /\ shouldTrack' \in BOOLEAN
         /\ active' \in [Functions -> BOOLEAN] /\ deferStop' = deferStop
<1>1. top.fn \in Functions /\ Tail(stack) \in Seq(FrameSet) /\ top.saved \in BOOLEAN
  BY TopType DEF IInv, TypeOK
<1>2. \A m \in [Sources -> SUBSET Nat] : \A ss :
        Unmarked(m, ss) \in [Sources -> SUBSET Nat]
  BY DEF Unmarked
<1>3. w' \in [Sources -> SUBSET Nat] /\ n' \in [Sources -> SUBSET Nat]
  BY <1>2 DEF endRun, IInv, TypeOK
<1>4. \/ cleanupEffect(top.fn)
      \/ \E ss \in SUBSET Sources : Unsubscribe(top.fn, ss)
  <2>1. Dropped(deps[top.fn]) \in SUBSET Sources
    BY <1>1 DEF Dropped, IInv, TypeOK
  <2> QED
    BY <2>1 DEF endRun
<1>5. /\ dep' \in [Sources -> SUBSET Functions]
      /\ deps' \in [Functions -> SUBSET Sources]
      /\ Mutual'
  BY <1>1, <1>4, CleanupGraph, UnsubscribeGraph
<1>6. active' \in [Functions -> BOOLEAN] /\ deferStop' = deferStop
  BY <1>1 DEF endRun, IInv, TypeOK
<1>7. reads' \in [Functions -> SUBSET Sources]
  BY DEF endRun, IInv, TypeOK
<1>8. stack' = Tail(stack) /\ shouldTrack' = top.saved
  BY DEF endRun
<1> QED
  BY <1>1, <1>3, <1>5, <1>6, <1>7, <1>8 DEF GraphOK

\* The effect whose function is at the top is the active one.
LEMMA TopIsActive ==
  ASSUME stack \in Seq(FrameSet), stack # <<>>, top.kind = "run"
  PROVE  activeEffect \in Functions
<1>1. Len(stack) \in Nat \ {0}
  BY LenProperties, EmptySeq
<1>2. 1 \in RunFrames
  BY <1>1 DEF RunFrames, top
<1>3. \A k \in RunFrames : stack[k].fn \in Functions
  <2> SUFFICES ASSUME NEW k \in RunFrames PROVE stack[k].fn \in Functions
    OBVIOUS
  <2>1. stack[k] \in FrameSet /\ stack[k].kind = "run"
    BY ElementOfSeq DEF RunFrames
  <2> QED
    BY <2>1 DEF FrameSet, Frames
<1>4. \E k \in RunFrames : \A m \in RunFrames : k <= m
  BY <1>1, <1>2 DEF RunFrames
<1> QED
  BY <1>2, <1>3, <1>4 DEF activeEffect

------------------------------------------------------------------------------
(* One lemma per action, or per group of actions that do the same.          *)

\* An action that leaves the graph, the marks and the reads alone.
LEMMA GraphUnchanged ==
  ASSUME IInv, UNCHANGED tracking
  PROVE  GraphOK'
BY DEF IInv, TypeOK, Mutual, GraphOK, tracking

\* The rest of the type invariant.
LEMMA Assembled ==
  ASSUME GraphOK',
         active' \in [Functions -> BOOLEAN], deferStop' \in [Functions -> BOOLEAN],
         dirty' \in [Computeds -> BOOLEAN], shouldTrack' \in BOOLEAN,
         jobs' \subseteq Scheduled, stack' \in Seq(FrameSet),
         throwing' \in BOOLEAN, threw' \in BOOLEAN, outdated' \subseteq Functions
  PROVE  IInv'
BY DEF IInv, TypeOK, GraphOK

\* User code runs: the frame at the top is a function's or none's.
LEMMA NoFrames == <<>> \in Seq(FrameSet)
OBVIOUS

LEMMA CanActTop == CanAct => stack # <<>>
BY DEF CanAct, Running

LEMMA ReadStep ==
  ASSUME IInv, \/ \E k \in Keys : readKey(k)
               \/ \E c \in Computeds : readComputed(c)
  PROVE  IInv'
<1> USE DEF IInv, TypeOK, flags, control
<1>1. stack # <<>>
  BY CanActTop DEF readKey, readComputed
<1>2. ASSUME NEW k \in Keys, readKey(k) PROVE IInv'
  <2>1. GraphOK'
    BY <1>2, TrackGraph DEF readKey, Sources
  <2>2. stack' \in Seq(FrameSet)
    BY <1>1, <1>2, CallingType, NoFrames DEF readKey
  <2> QED
    BY <1>2, <2>1, <2>2, Assembled DEF readKey
<1>3. ASSUME NEW c \in Computeds, readComputed(c) PROVE IInv'
  <2>1. GraphOK'
    BY <1>3, TrackGraph DEF readComputed, Sources
  <2>2. stack' \in Seq(FrameSet)
    <3>1. Frame("get", c, {}, TRUE) \in FrameSet
      BY FrameType
    <3>2. <<Frame("get", c, {}, TRUE)>> \in Seq(FrameSet)
      BY <3>1, SingleType
    <3> QED
      BY <1>1, <1>3, <3>2, CallingType, NoFrames DEF readComputed
  <2>3. outdated' \subseteq Functions
    <3>1. CASE top.kind = "run" /\ outdated' = outdated \union {activeEffect}
      <4>1. activeEffect \in Functions
        BY <1>1, <3>1, TopIsActive
      <4> QED
        BY <3>1, <4>1
    <3>2. CASE outdated' = outdated
      BY <3>2
    <3> QED
      BY <1>3, <3>1, <3>2 DEF readComputed
  <2> QED
    BY <1>3, <2>1, <2>2, <2>3, Assembled DEF readComputed
<1> QED
  BY <1>2, <1>3

LEMMA WriteStep ==
  ASSUME IInv, NEW ks \in SUBSET Keys, write(ks) \/ mutateArray(ks)
  PROVE  IInv'
<1> USE DEF IInv, TypeOK, flags, control
<1>1. stack # <<>>
  BY CanActTop DEF write, mutateArray, CanChange
<1>2. UNION {dep[k] : k \in ks} \in SUBSET Functions
  BY DEF Sources
<1>3. Affected(ks) \subseteq Functions
  BY DEF Affected
<1>4. GraphOK'
  BY GraphUnchanged DEF write, mutateArray
<1>5. /\ Frame("trigger", None, UNION {dep[k] : k \in ks}, TRUE) \in FrameSet
      /\ Frame("paused", None, {}, shouldTrack) \in FrameSet
  BY <1>2, FrameType
<1>6. stack' \in Seq(FrameSet)
  <2>1. ASSUME NEW a \in FrameSet, NEW b \in FrameSet
        PROVE  Calling(<<a>>) \in Seq(FrameSet) /\ Calling(<<a, b>>) \in Seq(FrameSet)
    <3>1. <<a>> \in Seq(FrameSet) /\ <<a, b>> \in Seq(FrameSet)
      OBVIOUS
    <3> QED
      BY <1>1, <3>1, CallingType
  <2> QED
    BY <1>5, <2>1 DEF write, mutateArray
<1>7. outdated' \subseteq Functions /\ shouldTrack' \in BOOLEAN
  BY <1>3 DEF write, mutateArray
<1> QED
  BY <1>4, <1>6, <1>7, Assembled DEF write, mutateArray

LEMMA CallRunnerStep ==
  ASSUME IInv, NEW f \in Functions, callRunner(f)
  PROVE  IInv'
<1>1. Calling(<<>>) \in Seq(FrameSet)
  BY CanActTop, CallingType, NoFrames DEF callRunner, CanChange, IInv, TypeOK
<1>2. /\ GraphOK'
      /\ stack' \in Seq(FrameSet) /\ shouldTrack' \in BOOLEAN
      /\ outdated' \subseteq Functions
  BY <1>1, RunStep DEF callRunner
<1> QED
  BY <1>2, Assembled DEF callRunner, IInv, TypeOK, flags, control

LEMMA StopStep ==
  ASSUME IInv, NEW f \in Functions, stop(f)
  PROVE  IInv'
<1>1. stack' \in Seq(FrameSet)
  BY CanActTop, CallingType, NoFrames DEF stop, CanChange, IInv, TypeOK
<1>2. /\ dep' \in [Sources -> SUBSET Functions]
      /\ deps' \in [Functions -> SUBSET Sources]
      /\ Mutual'
  BY SameGraph, CleanupGraph DEF stop
<1>3. GraphOK'
  BY <1>2 DEF GraphOK, stop, marks, IInv, TypeOK
<1>4. active' \in [Functions -> BOOLEAN] /\ deferStop' \in [Functions -> BOOLEAN]
  BY DEF stop, IInv, TypeOK
<1> QED
  BY <1>1, <1>3, <1>4, Assembled DEF stop, IInv, TypeOK, control

LEMMA RunReturnsStep == IInv /\ RunReturns => IInv'
<1> SUFFICES ASSUME IInv, RunReturns PROVE IInv'
  OBVIOUS
<1>1. /\ GraphOK'
      /\ stack' \in Seq(FrameSet) /\ shouldTrack' \in BOOLEAN
      /\ active' \in [Functions -> BOOLEAN] /\ deferStop' = deferStop
  BY EndRunStep DEF RunReturns, Running
<1> QED
  BY <1>1, Assembled DEF RunReturns, IInv, TypeOK, control

LEMMA PopStep ==
  ASSUME IInv, CallReturns \/ TriggerDone \/ ResetTracking \/ Unwind
  PROVE  IInv'
<1> USE DEF IInv, TypeOK, flags, control
<1>1. stack # <<>>
  BY DEF CallReturns, TriggerDone, ResetTracking, Unwind, Running
<1>2. CASE top.kind = "run" /\ endRun /\ UNCHANGED <<dirty, jobs, control, outdated>>
  <2>1. /\ GraphOK'
        /\ stack' \in Seq(FrameSet) /\ shouldTrack' \in BOOLEAN
        /\ active' \in [Functions -> BOOLEAN] /\ deferStop' = deferStop
    BY <1>1, <1>2, EndRunStep
  <2> QED
    BY <1>2, <2>1, Assembled
<1>3. CASE /\ stack' = Tail(stack) /\ shouldTrack' \in {shouldTrack, top.saved}
           /\ UNCHANGED <<tracking, flags, dirty, jobs, control, outdated>>
  <2>1. stack' \in Seq(FrameSet) /\ shouldTrack' \in BOOLEAN
    BY <1>1, <1>3, TopType
  <2>2. GraphOK'
    BY <1>3, GraphUnchanged
  <2> QED
    BY <1>3, <2>1, <2>2, Assembled
<1> QED
  BY <1>2, <1>3 DEF CallReturns, TriggerDone, ResetTracking, Unwind

LEMMA GetStep == IInv /\ Get => IInv'
<1> SUFFICES ASSUME IInv, Get PROVE IInv'
  OBVIOUS
<1>1. top.fn \in Computeds /\ Tail(stack) \in Seq(FrameSet)
  BY TopType DEF Get, Running, IInv, TypeOK
<1>2. /\ GraphOK'
      /\ stack' \in Seq(FrameSet) /\ shouldTrack' \in BOOLEAN
      /\ outdated' \subseteq Functions
  BY <1>1, RunStep DEF Get, Functions
<1>3. dirty' \in [Computeds -> BOOLEAN]
  BY <1>1 DEF Get, IInv, TypeOK
<1> QED
  BY <1>2, <1>3, Assembled DEF Get, IInv, TypeOK, flags, control

LEMMA TriggerEffectStep ==
  ASSUME IInv, NEW f \in Functions, TriggerEffect(f)
  PROVE  IInv'
<1> DEFINE below == <<[top EXCEPT !.todo = @ \ {f}]>> \o Tail(stack)
<1>0. stack # <<>> /\ below \in Seq(FrameSet)
  BY TurnType DEF TriggerEffect, Running, IInv, TypeOK
<1> HIDE DEF below
<1>1. CASE /\ stack' = below /\ UNCHANGED <<tracking, shouldTrack, outdated>>
           /\ dirty' = dirty /\ jobs' \in {jobs, jobs \union {f}} /\ (jobs' # jobs => f \in Scheduled)
  <2>1. GraphOK'
    BY <1>1, GraphUnchanged
  <2>2. jobs' \subseteq Scheduled
    BY <1>1 DEF IInv, TypeOK
  <2> QED
    BY <1>0, <1>1, <2>1, <2>2, Assembled DEF TriggerEffect, IInv, TypeOK, flags, control
<1>2. CASE /\ f \in Computeds /\ dirty' = [dirty EXCEPT ![f] = TRUE]
           /\ stack' = <<Frame("trigger", None, dep[f], TRUE)>> \o below
           /\ UNCHANGED <<tracking, shouldTrack, outdated, jobs>>
  <2>1. GraphOK'
    BY <1>2, GraphUnchanged
  <2>2. dep[f] \in SUBSET Functions
    BY <1>2 DEF IInv, TypeOK, Sources
  <2>3. stack' \in Seq(FrameSet)
    BY <1>0, <1>2, <2>2, FrameType, PushType
  <2>4. dirty' \in [Computeds -> BOOLEAN]
    BY <1>2 DEF IInv, TypeOK
  <2> QED
    BY <1>2, <2>1, <2>3, <2>4, Assembled DEF TriggerEffect, IInv, TypeOK, flags, control
<1>3. CASE run(f, below) /\ UNCHANGED <<dirty, jobs>>
  <2>1. /\ GraphOK'
        /\ stack' \in Seq(FrameSet) /\ shouldTrack' \in BOOLEAN
        /\ outdated' \subseteq Functions
    BY <1>0, <1>3, RunStep
  <2> QED
    BY <1>3, <2>1, Assembled DEF TriggerEffect, IInv, TypeOK, flags, control
<1> QED
  BY <1>1, <1>2, <1>3 DEF TriggerEffect, below

LEMMA RunJobStep ==
  ASSUME IInv, NEW f \in Functions, RunJob(f)
  PROVE  IInv'
<1>1. CASE run(f, <<>>)
  <2>1. /\ GraphOK'
        /\ stack' \in Seq(FrameSet) /\ shouldTrack' \in BOOLEAN
        /\ outdated' \subseteq Functions
    BY <1>1, NoFrames, RunStep
  <2> QED
    BY <2>1, Assembled DEF RunJob, IInv, TypeOK, flags, control
<1>2. CASE UNCHANGED <<tracking, stack, shouldTrack, outdated>>
  <2>1. GraphOK'
    BY <1>2, GraphUnchanged
  <2> QED
    BY <1>2, <2>1, Assembled DEF RunJob, IInv, TypeOK, flags, control
<1> QED
  BY <1>1, <1>2 DEF RunJob

\* Exceptions and new tasks, and steps of others.
LEMMA ControlStep ==
  ASSUME IInv, Throw \/ Catch \/ StartTask \/ UNCHANGED vars
  PROVE  IInv'
<1> USE DEF IInv, TypeOK, flags, control
<1>1. UNCHANGED <<tracking, flags, dirty, shouldTrack, jobs, outdated>>
  BY DEF Throw, Catch, StartTask, vars
<1>2. throwing' \in BOOLEAN /\ threw' \in BOOLEAN
  BY DEF Throw, Catch, StartTask, vars
<1>3. stack' \in Seq(FrameSet)
  <2>1. Frame("main", None, {}, TRUE) \in FrameSet
    BY FrameType
  <2>2. stack' = stack \/ stack' = <<Frame("main", None, {}, TRUE)>>
    BY DEF Throw, Catch, StartTask, vars
  <2>3. <<Frame("main", None, {}, TRUE)>> \in Seq(FrameSet)
    BY <2>1, SingleType
  <2>4. stack \in Seq(FrameSet)
    OBVIOUS
  <2> QED
    BY <2>2, <2>3, <2>4
<1>4. GraphOK'
  BY <1>1, GraphUnchanged
<1> QED
  BY <1>1, <1>2, <1>3, <1>4, Assembled

LEMMA InitIInv == Init => IInv
<1> SUFFICES ASSUME Init PROVE IInv
  OBVIOUS
<1>1. stack \in Seq(FrameSet)
  BY NoFrames DEF Init
<1> QED
  BY <1>1 DEF Init, IInv, TypeOK, Mutual

LEMMA NextIInv == IInv /\ [Next]_vars => IInv'
<1> SUFFICES ASSUME IInv, [Next]_vars PROVE IInv'
  OBVIOUS
<1>1. CASE UserCode
  BY <1>1, ReadStep, WriteStep, CallRunnerStep, StopStep, ControlStep DEF UserCode, Functions
<1>2. CASE Proceed
  BY <1>2, RunReturnsStep, PopStep, GetStep, TriggerEffectStep, RunJobStep DEF Proceed
<1>3. CASE UNCHANGED vars
  BY <1>3, ControlStep
<1> QED
  BY <1>1, <1>2, <1>3 DEF Next

\* Types and graph are invariant under every interleaving of runs.
THEOREM InvariantCorrect == Spec => []IInv
<1> QED
  BY InitIInv, NextIInv, PTL DEF Spec

\* Every variable keeps its type (see TypeOK).
THEOREM TypeCorrect == Spec => []TypeOK
<1>1. IInv => TypeOK
  BY DEF IInv
<1> QED
  BY <1>1, InvariantCorrect, PTL

\* effect.deps and the sets of subscribers agree at every moment (see Mutual,
\* about trackEffects, cleanupEffect and finalizeDepMarkers).
THEOREM MutualCorrect == Spec => []Mutual
<1>1. IInv => Mutual
  BY DEF IInv
<1> QED
  BY <1>1, InvariantCorrect, PTL

------------------------------------------------------------------------------
(* What is tracked, and what the marks of a level mean.                     *)

\* Function f runs at level d.  A mark n says that this run read the source;
\* a mark w, that the function depended on it before.  Runs too deep for the
\* marks start from no dependencies.
LevelExact(f, d) ==
  IF d <= MaxMarkerBits
  THEN \A s \in Sources :
         /\ d \in n[s] <=> s \in reads[f]
         /\ s \in deps[f] <=> d \in w[s] \union n[s]
  ELSE deps[f] = reads[f]

\* The same of the next state, of the function and the level as they are now.
NextLevelExact(f, d) ==
  IF d <= MaxMarkerBits
  THEN \A s \in Sources :
         /\ d \in n'[s] <=> s \in reads'[f]
         /\ s \in deps'[f] <=> d \in w'[s] \union n'[s]
  ELSE deps'[f] = reads'[f]

LevelsExact ==
  LET R == RunningEffects
  IN  /\ \A c, d \in 1..Len(R) : R[c] = R[d] => c = d
      /\ \A d \in 1..Len(R) : active[R[d]] /\ LevelExact(R[d], d)
      /\ \A s \in Sources : /\ w[s] \union n[s] \subseteq 1..Len(R)
                            /\ w[s] \union n[s] \subseteq 1..MaxMarkerBits
      /\ \A f \in Functions : (\A d \in 1..Len(R) : R[d] # f) =>
           deps[f] = IF active[f] THEN reads[f] ELSE {}

FlagsExact ==
  /\ FlagsOf(stack, shouldTrack)
  /\ throwing => \A k \in 1..Len(stack) : stack[k].kind # "paused"

TrackingInv == IInv /\ LevelsExact /\ FlagsExact

\* A step that keeps the first part of the invariant and does what Tracking
\* does, or nothing it speaks of.
Tracked == LevelsExact' /\ [Abstract!Next]_Abstract!vars

LEMMA NextRunningEffects == RunningEffects' = RunsOf(stack')
BY DEF RunningEffects, RunsOf, RunFrames, Runs, Level, effectTrackDepth

\* The subscriptions seen from the functions.
LEMMA SubsAreDeps ==
  ASSUME IInv
  PROVE  [f \in Functions |-> {s \in Sources : f \in dep[s]}] = deps
<1>1. \A f \in Functions : {s \in Sources : f \in dep[s]} = deps[f]
  BY DEF IInv, TypeOK, Mutual
<1>2. deps \in [Functions -> SUBSET Sources]
  BY DEF IInv, TypeOK
<1> QED
  BY <1>1, <1>2

LEMMA NextSubsAreDeps ==
  ASSUME IInv'
  PROVE  [f \in Functions |-> {s \in Sources : f \in dep'[s]}] = deps'
<1>1. \A f \in Functions : {s \in Sources : f \in dep'[s]} = deps'[f]
  BY DEF IInv, TypeOK, Mutual
<1>2. deps' \in [Functions -> SUBSET Sources]
  BY DEF IInv, TypeOK
<1> QED
  BY <1>1, <1>2

\* A step that neither runs nor ends a function nor reads a source.
LEMMA QuietStep ==
  ASSUME IInv, LevelsExact, UNCHANGED <<tracking, active>>, RunsOf(stack') = RunsOf(stack)
  PROVE  Tracked
<1>1. RunningEffects' = RunningEffects
  BY NextRunningEffects, RunningEffectsAreRuns
<1>2. LevelsExact'
  BY <1>1 DEF LevelsExact, LevelExact, tracking
<1>3. UNCHANGED Abstract!vars
  BY <1>1 DEF Abstract!vars, tracking
<1> QED
  BY <1>2, <1>3 DEF Tracked

\* Stopping a function that does not run.
LEMMA StopTracked ==
  ASSUME IInv, IInv', LevelsExact, NEW f \in Functions, f \notin Chain,
         cleanupEffect(f), active' = [active EXCEPT ![f] = FALSE],
         UNCHANGED <<marks, reads>>, RunsOf(stack') = RunsOf(stack)
  PROVE  Tracked
<1> DEFINE R == RunningEffects
<1>1. R' = R
  BY NextRunningEffects, RunningEffectsAreRuns
<1>2. /\ R \in Seq(Functions) /\ Len(R) \in Nat
      /\ \A d \in 1..Len(R) : R[d] \in Functions /\ R[d] # f
  <2>1. R \in Seq(Functions) /\ Len(R) \in Nat /\ Chain = {R[d] : d \in 1..Len(R)}
    BY RunningEffectsFacts DEF IInv, TypeOK
  <2> HIDE DEF R
  <2> QED
    BY <2>1, ElementOfSeq
<1>3. /\ deps \in [Functions -> SUBSET Sources] /\ active \in [Functions -> BOOLEAN]
      /\ deps' = [deps EXCEPT ![f] = {}]
  BY DEF IInv, TypeOK, cleanupEffect, Unsubscribe
<1>4. LevelsExact'
  <2>1. LevelsExact
    OBVIOUS
  <2>2. \A d \in 1..Len(R) : LevelExact(R[d], d)'
    <3> HIDE DEF R
    <3>1. \A d \in 1..Len(R) : LevelExact(R[d], d)
      BY DEF LevelsExact, R
    <3> QED
      BY <1>1, <1>2, <1>3, <3>1 DEF LevelExact, marks
  <2>3. \A d \in 1..Len(R) : active'[R[d]]
    BY <1>2, <1>3 DEF LevelsExact
  <2>4. \A g \in Functions : (\A d \in 1..Len(R) : R[d] # g) =>
          deps'[g] = IF active'[g] THEN reads'[g] ELSE {}
    BY <1>3 DEF LevelsExact, marks
  <2> QED
    BY <1>1, <2>2, <2>3, <2>4 DEF LevelsExact, marks
<1>5. Abstract!Stop(f)
  <2>1. ~Abstract!Contains(R, f)
    BY <1>2 DEF Abstract!Contains
  <2> QED
    BY <1>1, <1>3, <2>1, SubsAreDeps, NextSubsAreDeps DEF Abstract!Stop
<1> QED
  BY <1>4, <1>5 DEF Tracked, Abstract!Next

\* Reading a source: the innermost function depends on it, unless an array
\* method has paused tracking.
LEMMA ReadTracked ==
  ASSUME IInv, IInv', LevelsExact, FlagsExact, NEW s \in Sources, track(s),
         UNCHANGED active, RunsOf(stack') = RunsOf(stack)
  PROVE  Tracked
<1> DEFINE R == RunningEffects
           D == Len(R)
           f == R[D]
<1>1. R' = R
  BY NextRunningEffects, RunningEffectsAreRuns
<1>2. /\ R \in Seq(Functions) /\ D \in Nat /\ effectTrackDepth = D
      /\ D = 0 => activeEffect = None
      /\ D # 0 => activeEffect = f /\ f \in Functions
  <2>1. /\ R \in Seq(Functions) /\ D \in Nat /\ effectTrackDepth = D
        /\ D = 0 => activeEffect = None
        /\ D # 0 => activeEffect = f
    BY RunningEffectsFacts DEF IInv, TypeOK
  <2> HIDE DEF R
  <2>2. D # 0 => D \in 1..Len(R)
    BY <2>1
  <2> QED
    BY <2>1, <2>2, ElementOfSeq
<1>3. shouldTrack <=> ~Paused
  BY PausedIsBelow DEF FlagsExact, FlagsOf, IInv, TypeOK
<1>4. CASE D = 0 \/ Paused
  <2>1. UNCHANGED <<tracking, active>>
    BY <1>2, <1>3, <1>4 DEF track, isTracking, tracking
  <2> QED
    BY <2>1, QuietStep
<1>5. CASE D # 0 /\ ~Paused
  <2>1. /\ activeEffect = f /\ f \in Functions /\ D \in 1..D
        /\ f # None
    BY <1>2, <1>5, FunctionsAssumption
  <2>2. /\ trackEffects(s)
        /\ reads' = [reads EXCEPT ![f] = @ \union {s}]
        /\ w' = w
    BY <1>3, <1>5, <2>1 DEF track, isTracking
  <2>3. /\ deps \in [Functions -> SUBSET Sources] /\ reads \in [Functions -> SUBSET Sources]
        /\ n \in [Sources -> SUBSET Nat]
        /\ deps' \in [Functions -> SUBSET Sources]
    BY DEF IInv, TypeOK
  <2>4. LevelExact(f, D)
    BY <2>1 DEF LevelsExact
  <2>5. /\ deps' = [deps EXCEPT ![f] = @ \union {s}]
        /\ n' = IF D <= MaxMarkerBits THEN [n EXCEPT ![s] = @ \union {D}] ELSE n
    <3>1. s \in deps[f] <=> f \in dep[s]
      BY <2>1 DEF IInv, Mutual
    <3>2. s \in deps[f] => deps = [deps EXCEPT ![f] = @ \union {s}]
      BY <2>1, <2>3
    <3>3. D \in n[s] => n = [n EXCEPT ![s] = @ \union {D}]
      BY <2>3
    <3> HIDE DEF R, D, f
    <3>4. CASE D <= MaxMarkerBits
      <4>1. s \in deps[f] <=> D \in w[s] \union n[s]
        BY <2>4, <3>4 DEF LevelExact
      <4>2. CASE D \in n[s]
        <5>1. UNCHANGED <<deps, n>>
          BY <1>2, <2>2, <3>4, <4>2 DEF trackEffects, newTracked
        <5> QED
          BY <3>2, <3>3, <3>4, <4>1, <4>2, <5>1
      <4>3. CASE D \notin n[s]
        <5>1. /\ n' = [n EXCEPT ![s] = @ \union {D}]
              /\ IF D \in w[s] THEN deps' = deps ELSE Subscribe(f, s)
          BY <1>2, <2>1, <2>2, <3>4, <4>3 DEF trackEffects, newTracked, wasTracked
        <5> QED
          BY <3>2, <3>4, <4>1, <5>1 DEF Subscribe
      <4> QED
        BY <4>2, <4>3
    <3>5. CASE ~(D <= MaxMarkerBits)
      <4>1. n' = n /\ IF f \in dep[s] THEN deps' = deps ELSE Subscribe(f, s)
        BY <1>2, <2>1, <2>2, <3>5 DEF trackEffects, subscribed
      <4> QED
        BY <3>1, <3>2, <3>5, <4>1 DEF Subscribe
    <3> QED
      BY <3>4, <3>5
  <2>6. LevelsExact'
    <3>1. \A d \in 1..D : NextLevelExact(R[d], d)
      <4> SUFFICES ASSUME NEW d \in 1..D PROVE NextLevelExact(R[d], d)
        OBVIOUS
      <4>1. LevelExact(R[d], d) /\ R[d] \in Functions /\ (R[d] = f => d = D)
        <5>1. LevelExact(R[d], d) /\ (R[d] = f => d = D)
          BY <1>2, <2>1 DEF LevelsExact
        <5> QED
          BY <1>2, <5>1, ElementOfSeq
      <4> DEFINE g == R[d]
      <4>3. CASE d = D
        <5>1. g = f
          BY <4>3
        <5> HIDE DEF R, f, g, D
        <5>2. NextLevelExact(f, D)
          BY <1>2, <2>1, <2>2, <2>3, <2>4, <2>5 DEF LevelExact, NextLevelExact
        <5> QED
          BY <4>3, <5>1, <5>2 DEF g
      <4>4. CASE d # D
        <5>1. g # f
          BY <4>1, <4>4
        <5>2. deps'[g] = deps[g] /\ reads'[g] = reads[g]
          BY <2>2, <2>3, <2>5, <4>1, <5>1
        <5>3. \A t \in Sources : d \in n'[t] <=> d \in n[t]
          BY <2>3, <2>5, <4>4
        <5> HIDE DEF R, f, D
        <5> QED
          BY <2>2, <4>1, <5>2, <5>3 DEF LevelExact, NextLevelExact, g
      <4> QED
        BY <4>3, <4>4
    <3>2. \A t \in Sources : /\ w'[t] \union n'[t] \subseteq 1..D
                             /\ w'[t] \union n'[t] \subseteq 1..MaxMarkerBits
      <4> SUFFICES ASSUME NEW t \in Sources
                   PROVE  /\ w'[t] \union n'[t] \subseteq 1..D
                          /\ w'[t] \union n'[t] \subseteq 1..MaxMarkerBits
        OBVIOUS
      <4>1. w[t] \union n[t] \subseteq 1..D /\ w[t] \union n[t] \subseteq 1..MaxMarkerBits
        BY DEF LevelsExact
      <4>2. n'[t] = n[t] \/ (D <= MaxMarkerBits /\ n'[t] = n[t] \union {D})
        <5> HIDE DEF D
        <5> QED
          BY <2>3, <2>5
      <4>3. D <= MaxMarkerBits => D \in 1..MaxMarkerBits
        BY <2>1, <1>2, BoundsAssumption
      <4> HIDE DEF D
      <4> QED
        BY <2>1, <2>2, <4>1, <4>2, <4>3
    <3>3. \A g \in Functions : (\A d \in 1..D : R[d] # g) =>
            deps'[g] = IF active[g] THEN reads'[g] ELSE {}
      <4> SUFFICES ASSUME NEW g \in Functions, \A d \in 1..D : R[d] # g
                   PROVE  deps'[g] = IF active[g] THEN reads'[g] ELSE {}
        OBVIOUS
      <4>1. g # f
        BY <2>1
      <4>2. deps[g] = IF active[g] THEN reads[g] ELSE {}
        BY DEF LevelsExact
      <4> QED
        BY <2>2, <2>3, <2>5, <4>1, <4>2
    <3>4. \A c, d \in 1..D : R[c] = R[d] => c = d
      BY DEF LevelsExact
    <3>5. \A d \in 1..D : active[R[d]]
      BY DEF LevelsExact
    <3> QED
      BY <1>1, <3>1, <3>2, <3>3, <3>4, <3>5 DEF LevelsExact, LevelExact, NextLevelExact
  <2>7. Abstract!Read(s)
    <3>1. R # <<>> /\ Abstract!Last(R) = f
      BY <1>2, <1>5, EmptySeq DEF Abstract!Last
    <3> QED
      BY <1>1, <2>2, <2>5, <3>1, SubsAreDeps, NextSubsAreDeps DEF Abstract!Read
  <2> QED
    BY <2>6, <2>7 DEF Tracked, Abstract!Next
<1> QED
  BY <1>4, <1>5

\* The conjuncts of LevelsExact in the next state, of its functions R.
LEMMA LevelsAssembled ==
  ASSUME NEW R \in Seq(Functions), RunningEffects' = R, Len(R) \in Nat,
         \A c, d \in 1..Len(R) : R[c] = R[d] => c = d,
         \A d \in 1..Len(R) : active'[R[d]] /\ NextLevelExact(R[d], d),
         \A s \in Sources : /\ w'[s] \union n'[s] \subseteq 1..Len(R)
                            /\ w'[s] \union n'[s] \subseteq 1..MaxMarkerBits,
         \A f \in Functions : (\A d \in 1..Len(R) : R[d] # f) =>
           deps'[f] = IF active'[f] THEN reads'[f] ELSE {}
  PROVE  LevelsExact'
BY DEF LevelsExact, LevelExact, NextLevelExact

\* The functions that run, with one more.
LEMMA OneMore ==
  ASSUME NEW R \in Seq(Functions), NEW f \in Functions
  PROVE  /\ Len(R) \in Nat
         /\ Append(R, f) \in Seq(Functions) /\ Len(Append(R, f)) = Len(R) + 1
         /\ \A d \in 1..(Len(R) + 1) :
              Append(R, f)[d] = IF d = Len(R) + 1 THEN f ELSE R[d]
         /\ \A d \in 1..Len(R) : R[d] \in Functions
         /\ Append(R, f) # <<>>
         /\ Abstract!Last(Append(R, f)) = f /\ Abstract!Front(Append(R, f)) = R
<1> DEFINE T == Append(R, f)
<1>1. Len(R) \in Nat
  BY LenProperties
<1>2. /\ T \in Seq(Functions) /\ Len(T) = Len(R) + 1 /\ T # <<>>
      /\ \A d \in 1..Len(R) : T[d] = R[d]
      /\ T[Len(R) + 1] = f
  BY AppendProperties
<1> HIDE DEF T
<1>3. \A d \in 1..(Len(R) + 1) : T[d] = IF d = Len(R) + 1 THEN f ELSE R[d]
  BY <1>1, <1>2
<1>4. \A d \in 1..Len(R) : R[d] \in Functions
  BY ElementOfSeq
<1>5. Abstract!Last(T) = f
  BY <1>2 DEF Abstract!Last
<1>6. SubSeq(T, 1, Len(R)) = R
  <2>0. 1 \in 1..(Len(T) + 1) /\ Len(R) \in 0..Len(T)
    BY <1>1, <1>2
  <2>1. /\ SubSeq(T, 1, Len(R)) \in Seq(Functions)
        /\ Len(SubSeq(T, 1, Len(R))) = Len(R)
        /\ \A d \in 1..Len(R) : SubSeq(T, 1, Len(R))[d] = T[d]
    BY <1>1, <1>2, <2>0, SubSeqProperties
  <2> QED
    BY <1>2, <2>1, SeqEqual
<1>7. Abstract!Front(T) = R
  BY <1>1, <1>2, <1>6 DEF Abstract!Front
<1> QED
  BY <1>1, <1>2, <1>3, <1>4, <1>5, <1>7 DEF T

\* A function that does not run is run: at its level, what it depended on is
\* marked.
LEMMA BeginTracked ==
  ASSUME IInv, IInv', LevelsExact, NEW f \in Functions, active[f], f \notin Chain,
         RunsOf(stack') = Append(RunsOf(stack), f),
         IF effectTrackDepth + 1 <= MaxMarkerBits
         THEN initDepMarkers(f, effectTrackDepth + 1) /\ UNCHANGED <<dep, deps>>
         ELSE cleanupEffect(f) /\ UNCHANGED w,
         reads' = [reads EXCEPT ![f] = {}], UNCHANGED <<n, active>>
  PROVE  Tracked
<1> DEFINE R == RunningEffects
           D == Len(R)
           T == Append(R, f)
<1>1. R' = T
  BY NextRunningEffects, RunningEffectsAreRuns
<1>2. /\ R \in Seq(Functions) /\ D \in Nat /\ effectTrackDepth = D
      /\ Chain = {R[d] : d \in 1..D}
  BY RunningEffectsFacts DEF IInv, TypeOK
<1>3. /\ T \in Seq(Functions) /\ Len(T) = D + 1 /\ T # <<>>
      /\ \A d \in 1..(D + 1) : T[d] = IF d = D + 1 THEN f ELSE R[d]
      /\ \A d \in 1..D : R[d] \in Functions
  BY <1>2, OneMore
<1>4. \A d \in 1..D : R[d] # f
  BY <1>2
<1>5. /\ deps \in [Functions -> SUBSET Sources] /\ reads \in [Functions -> SUBSET Sources]
      /\ w \in [Sources -> SUBSET Nat] /\ n \in [Sources -> SUBSET Nat]
      /\ \A s \in Sources : /\ w[s] \union n[s] \subseteq 1..D
                            /\ w[s] \union n[s] \subseteq 1..MaxMarkerBits
      /\ \A d \in 1..D : active[R[d]] /\ LevelExact(R[d], d)
      /\ \A c, d \in 1..D : R[c] = R[d] => c = d
      /\ \A g \in Functions : (\A d \in 1..D : R[d] # g) =>
           deps[g] = IF active[g] THEN reads[g] ELSE {}
  BY DEF IInv, TypeOK, LevelsExact
<1>6. Abstract!Begin(f)
  <2>1. ~Abstract!Contains(R, f)
    BY <1>4 DEF Abstract!Contains
  <2>2. \E kept \in SUBSET deps[f] : deps' = [deps EXCEPT ![f] = kept]
    <3>1. CASE deps' = deps
      <4>1. deps[f] \in SUBSET deps[f] /\ deps' = [deps EXCEPT ![f] = deps[f]]
        BY <1>5, <3>1
      <4> QED
        BY <4>1
    <3>2. CASE cleanupEffect(f)
      <4>1. {} \in SUBSET deps[f] /\ deps' = [deps EXCEPT ![f] = {}]
        BY <1>5, <3>2 DEF cleanupEffect, Unsubscribe
      <4> QED
        BY <4>1
    <3> QED
      BY <3>1, <3>2
  <2> HIDE DEF R
  <2>3. R' = T
    BY <1>1
  <2> HIDE DEF T
  <2> QED
    BY <2>1, <2>2, <2>3, SubsAreDeps, NextSubsAreDeps DEF Abstract!Begin, T, R
<1> HIDE DEF R, D, T
<1>7. /\ \A s \in Sources : /\ w[s] \subseteq w'[s]
                            /\ w'[s] \subseteq w[s] \union {D + 1}
                            /\ w'[s] \subseteq 1..MaxMarkerBits
      /\ \A g \in Functions \ {f} : deps'[g] = deps[g] /\ reads'[g] = reads[g]
      /\ n' = n /\ reads'[f] = {}
      /\ IF D + 1 <= MaxMarkerBits
         THEN \A s \in Sources : s \in deps'[f] <=> D + 1 \in w'[s]
         ELSE deps'[f] = {}
  <2>1. CASE D + 1 <= MaxMarkerBits
    <3>1. /\ w' = [s \in Sources |-> IF s \in deps[f] THEN w[s] \union {D + 1} ELSE w[s]]
          /\ deps' = deps
      BY <1>2, <2>1 DEF initDepMarkers
    <3>2. D + 1 \in 1..MaxMarkerBits /\ \A s \in Sources : D + 1 \notin w[s]
      BY <1>2, <1>5, <2>1, BoundsAssumption
    <3> QED
      BY <1>5, <2>1, <3>1, <3>2
  <2>2. CASE ~(D + 1 <= MaxMarkerBits)
    <3>1. w' = w /\ deps' = [deps EXCEPT ![f] = {}]
      BY <1>2, <1>5, <2>2 DEF cleanupEffect, Unsubscribe
    <3> QED
      BY <1>5, <2>2, <3>1
  <2> QED
    BY <2>1, <2>2
<1>8. \A d \in 1..D : NextLevelExact(R[d], d)
  <2> SUFFICES ASSUME NEW d \in 1..D PROVE NextLevelExact(R[d], d)
    OBVIOUS
  <2> DEFINE g == R[d]
  <2>1. g \in Functions \ {f} /\ LevelExact(g, d) /\ d # D + 1
    BY <1>2, <1>3, <1>4, <1>5
  <2> HIDE DEF g
  <2>2. \A s \in Sources : d \in w'[s] <=> d \in w[s]
    BY <1>7, <2>1
  <2>3. NextLevelExact(g, d)
    BY <1>7, <2>1, <2>2 DEF LevelExact, NextLevelExact
  <2> QED
    BY <2>3 DEF g
<1>9. NextLevelExact(f, D + 1)
  <2>1. \A s \in Sources : D + 1 \notin n[s]
    BY <1>2, <1>5
  <2> QED
    BY <1>7, <2>1 DEF NextLevelExact
<1>10. \A d \in 1..(D + 1) : active'[T[d]] /\ NextLevelExact(T[d], d)
  <2> SUFFICES ASSUME NEW d \in 1..(D + 1) PROVE active'[T[d]] /\ NextLevelExact(T[d], d)
    OBVIOUS
  <2>1. CASE d = D + 1
    BY <1>3, <1>9, <2>1
  <2>2. CASE d # D + 1
    <3>1. d \in 1..D /\ T[d] = R[d]
      BY <1>2, <1>3, <2>2
    <3> QED
      BY <1>5, <1>8, <3>1
  <2> QED
    BY <2>1, <2>2
<1>11. \A c, d \in 1..(D + 1) : T[c] = T[d] => c = d
  <2> SUFFICES ASSUME NEW c \in 1..(D + 1), NEW d \in 1..(D + 1), T[c] = T[d] PROVE c = d
    OBVIOUS
  <2>1. (c # D + 1 => c \in 1..D) /\ (d # D + 1 => d \in 1..D)
    BY <1>2
  <2> QED
    BY <1>3, <1>4, <1>5, <2>1
<1>12. \A s \in Sources : /\ w'[s] \union n'[s] \subseteq 1..(D + 1)
                          /\ w'[s] \union n'[s] \subseteq 1..MaxMarkerBits
  <2>1. 1..D \subseteq 1..(D + 1) /\ D + 1 \in 1..(D + 1)
    BY <1>2
  <2> QED
    BY <1>5, <1>7, <2>1
<1>13. \A g \in Functions : (\A d \in 1..(D + 1) : T[d] # g) =>
         deps'[g] = IF active'[g] THEN reads'[g] ELSE {}
  <2> SUFFICES ASSUME NEW g \in Functions, \A d \in 1..(D + 1) : T[d] # g
               PROVE  deps'[g] = IF active'[g] THEN reads'[g] ELSE {}
    OBVIOUS
  <2>1. g # f
    BY <1>2, <1>3
  <2>2. \A d \in 1..D : R[d] # g
    <3> SUFFICES ASSUME NEW d \in 1..D PROVE R[d] # g
      OBVIOUS
    <3>1. d \in 1..(D + 1) /\ d # D + 1
      BY <1>2
    <3> QED
      BY <1>3, <3>1
  <2>3. deps[g] = IF active[g] THEN reads[g] ELSE {}
    BY <1>5, <2>2, Zenon
  <2>4. deps'[g] = deps[g] /\ reads'[g] = reads[g]
    BY <1>7, <2>1, Zenon
  <2>5. active' = active
    OBVIOUS
  <2> HIDE DEF D, T, R
  <2> QED
    BY <2>3, <2>4, <2>5, Zenon
<1>14. LevelsExact'
  <2>1. RunningEffects' = T /\ Len(T) \in Nat
    BY <1>1, <1>2, <1>3 DEF R
  <2> QED
    BY <1>3, <1>10, <1>11, <1>12, <1>13, <2>1, LevelsAssembled
<1> QED
  BY <1>6, <1>14 DEF Tracked, Abstract!Next

\* The innermost function ends: what it no longer reads is dropped, its marks
\* are cleared, and it depends on what it read or, if it was stopped, on
\* nothing.
LEMMA EndTracked ==
  ASSUME IInv, IInv', LevelsExact, FlagsExact, stack # <<>>, top.kind = "run", endRun
  PROVE  Tracked
<1> DEFINE T == RunningEffects
           R == RunsOf(Tail(stack))
           D == Len(R) + 1
           f == top.fn
<1>1. /\ f \in Functions /\ Tail(stack) \in Seq(FrameSet) /\ T = Append(R, f)
  BY TopType, TopPopped, RunningEffectsAreRuns DEF FlagsExact, IInv, TypeOK
<1>2. RunningEffects' = R
  BY NextRunningEffects DEF endRun
<1>3. /\ R \in Seq(Functions) /\ Len(R) \in Nat
      /\ T # <<>> /\ Len(T) = D
      /\ \A d \in 1..D : T[d] = IF d = D THEN f ELSE R[d]
      /\ \A d \in 1..Len(R) : R[d] \in Functions
      /\ Abstract!Last(T) = f /\ Abstract!Front(T) = R
  <2>1. R \in Seq(Functions)
    BY <1>1, RunsListed
  <2> HIDE DEF R, T, f
  <2> QED
    BY <1>1, <2>1, OneMore DEF D
<1>4. effectTrackDepth = D
  BY <1>3, RunningEffectsFacts DEF IInv, TypeOK
<1>5. /\ deps \in [Functions -> SUBSET Sources] /\ reads \in [Functions -> SUBSET Sources]
      /\ w \in [Sources -> SUBSET Nat] /\ n \in [Sources -> SUBSET Nat]
      /\ active \in [Functions -> BOOLEAN] /\ deferStop \in [Functions -> BOOLEAN]
      /\ \A s \in Sources : /\ w[s] \union n[s] \subseteq 1..D
                            /\ w[s] \union n[s] \subseteq 1..MaxMarkerBits
      /\ \A d \in 1..D : active[T[d]] /\ LevelExact(T[d], d)
      /\ \A c, d \in 1..D : T[c] = T[d] => c = d
      /\ \A g \in Functions : (\A d \in 1..D : T[d] # g) =>
           deps[g] = IF active[g] THEN reads[g] ELSE {}
  BY <1>3 DEF IInv, TypeOK, LevelsExact
<1>6. /\ w' = IF D <= MaxMarkerBits
              THEN [s \in Sources |-> IF s \in deps[f] THEN w[s] \ {D} ELSE w[s]] ELSE w
      /\ n' = IF D <= MaxMarkerBits
              THEN [s \in Sources |-> IF s \in deps[f] THEN n[s] \ {D} ELSE n[s]] ELSE n
      /\ reads' = reads
      /\ active' = [active EXCEPT ![f] = @ /\ ~deferStop[f]]
  BY <1>4 DEF endRun, Unmarked
<1>7. IF deferStop[f] /\ active[f] THEN deps' = [deps EXCEPT ![f] = {}]
      ELSE deps' = [deps EXCEPT ![f] = @ \ IF D <= MaxMarkerBits
                      THEN {s \in deps[f] : D \in w[s] /\ D \notin n[s]} ELSE {}]
  <2> HIDE DEF D, f
  <2>1. IF deferStop[f] /\ active[f] THEN Unsubscribe(f, deps[f])
        ELSE Unsubscribe(f, IF D <= MaxMarkerBits THEN Dropped(deps[f]) ELSE {})
    BY <1>4 DEF endRun, cleanupEffect, f
  <2>2. Dropped(deps[f]) = {s \in deps[f] : D \in w[s] /\ D \notin n[s]}
    BY <1>4 DEF Dropped, wasTracked, newTracked
  <2>3. deps[f] \ deps[f] = {}
    OBVIOUS
  <2> QED
    BY <1>5, <2>1, <2>2, <2>3 DEF Unsubscribe
<1> HIDE DEF T, R, D, f
<1>8. /\ D \in Nat /\ D \in 1..D /\ D = Len(R) + 1
      /\ active[f] /\ LevelExact(f, D)
      /\ \A d \in 1..Len(R) : d \in 1..D /\ d # D /\ T[d] = R[d] /\ R[d] # f
  <2>1. D \in Nat /\ D = Len(R) + 1 /\ D \in 1..D
    BY <1>3 DEF D
  <2>2. \A d \in 1..Len(R) : d \in 1..D /\ d # D
    BY <1>3, <2>1
  <2> QED
    BY <1>3, <1>5, <2>1, <2>2
<1>9. /\ deps'[f] = IF active'[f] THEN reads[f] ELSE {}
      /\ deps'[f] \in {{}, reads[f]}
      /\ deps' = [deps EXCEPT ![f] = deps'[f]]
      /\ \A g \in Functions \ {f} : deps'[g] = deps[g] /\ active'[g] = active[g]
  <2> DEFINE left == IF deferStop[f] THEN {} ELSE reads[f]
  <2>1. deps' = [deps EXCEPT ![f] = left]
    <3>1. CASE deferStop[f]
      BY <1>7, <1>8, <3>1
    <3>2. CASE ~deferStop[f]
      <4>1. deps' = [deps EXCEPT ![f] = @ \ IF D <= MaxMarkerBits
                       THEN {s \in deps[f] : D \in w[s] /\ D \notin n[s]} ELSE {}]
        BY <1>7, <3>2
      <4>2. deps[f] \subseteq Sources /\ reads[f] \subseteq Sources
        BY <1>1, <1>5
      <4>3. CASE D <= MaxMarkerBits
        <5>1. \A s \in Sources :
                s \in reads[f] <=> s \in deps[f] /\ ~(D \in w[s] /\ D \notin n[s])
          BY <1>8, <4>3 DEF LevelExact
        <5>2. deps[f] \ {s \in deps[f] : D \in w[s] /\ D \notin n[s]} = reads[f]
          BY <4>2, <5>1
        <5> QED
          BY <3>2, <4>1, <4>3, <5>2
      <4>4. CASE ~(D <= MaxMarkerBits)
        <5>1. deps[f] = reads[f]
          BY <1>8, <4>4 DEF LevelExact
        <5> QED
          BY <3>2, <4>1, <4>4, <5>1
      <4> QED
        BY <4>3, <4>4
    <3> QED
      BY <3>1, <3>2
  <2>2. active'[f] = ~deferStop[f]
    BY <1>1, <1>5, <1>6, <1>8
  <2>3. \A g \in Functions \ {f} : active'[g] = active[g]
    BY <1>5, <1>6
  <2>4. deps'[f] = left /\ \A g \in Functions \ {f} : deps'[g] = deps[g]
    BY <1>1, <1>5, <2>1
  <2>5. left = IF active'[f] THEN reads[f] ELSE {}
    BY <2>2
  <2> HIDE DEF left
  <2>6. deps'[f] \in {{}, reads[f]}
    BY <2>4, <2>5
  <2> QED
    BY <2>1, <2>3, <2>4, <2>5, <2>6
<1>10. \A s \in Sources :
         /\ w'[s] = w[s] \ {D} /\ n'[s] = n[s] \ {D}
         /\ w'[s] \union n'[s] \subseteq 1..Len(R)
         /\ w'[s] \union n'[s] \subseteq 1..MaxMarkerBits
  <2> SUFFICES ASSUME NEW s \in Sources
               PROVE  /\ w'[s] = w[s] \ {D} /\ n'[s] = n[s] \ {D}
                      /\ w'[s] \union n'[s] \subseteq 1..Len(R)
                      /\ w'[s] \union n'[s] \subseteq 1..MaxMarkerBits
    OBVIOUS
  <2>1. w'[s] = w[s] \ {D} /\ n'[s] = n[s] \ {D}
    <3>1. CASE D <= MaxMarkerBits
      <4>1. D \in w[s] \union n[s] => s \in deps[f]
        BY <1>8, <3>1 DEF LevelExact
      <4> QED
        BY <1>6, <3>1, <4>1
    <3>2. CASE ~(D <= MaxMarkerBits)
      <4>1. D \notin 1..MaxMarkerBits
        BY <1>8, <3>2, BoundsAssumption
      <4> QED
        BY <1>5, <1>6, <3>2, <4>1
    <3> QED
      BY <3>1, <3>2
  <2>2. \A d \in 1..D : d # D => d \in 1..Len(R)
    BY <1>3, <1>8
  <2> QED
    BY <1>5, <2>1, <2>2
<1>11. \A d \in 1..Len(R) : active'[R[d]] /\ NextLevelExact(R[d], d)
  <2> SUFFICES ASSUME NEW d \in 1..Len(R) PROVE active'[R[d]] /\ NextLevelExact(R[d], d)
    OBVIOUS
  <2> DEFINE g == R[d]
  <2>1. g \in Functions \ {f} /\ active[g] /\ LevelExact(g, d) /\ d # D
    BY <1>3, <1>5, <1>8
  <2> HIDE DEF g
  <2>2. \A s \in Sources : (d \in w'[s] <=> d \in w[s]) /\ (d \in n'[s] <=> d \in n[s])
    BY <1>10, <2>1
  <2>3. active'[g] /\ NextLevelExact(g, d)
    BY <1>6, <1>9, <2>1, <2>2 DEF LevelExact, NextLevelExact
  <2> QED
    BY <2>3 DEF g
<1>12. \A c, d \in 1..Len(R) : R[c] = R[d] => c = d
  BY <1>5, <1>8
<1>13. \A g \in Functions : (\A d \in 1..Len(R) : R[d] # g) =>
         deps'[g] = IF active'[g] THEN reads'[g] ELSE {}
  <2> SUFFICES ASSUME NEW g \in Functions, \A d \in 1..Len(R) : R[d] # g
               PROVE  deps'[g] = IF active'[g] THEN reads'[g] ELSE {}
    OBVIOUS
  <2>1. CASE g = f
    BY <1>6, <1>9, <2>1
  <2>2. CASE g # f
    <3>1. \A d \in 1..D : T[d] # g
      <4> SUFFICES ASSUME NEW d \in 1..D PROVE T[d] # g
        OBVIOUS
      <4>1. d = D \/ d \in 1..Len(R)
        BY <1>3, <1>8
      <4> QED
        BY <1>3, <2>2, <4>1
    <3> QED
      BY <1>5, <1>6, <1>9, <2>2, <3>1
  <2> QED
    BY <2>1, <2>2
<1>14. LevelsExact'
  BY <1>2, <1>3, <1>10, <1>11, <1>12, <1>13, LevelsAssembled
<1>15. Abstract!End
  <2>1. \E left \in {{}, reads[f]} : deps' = [deps EXCEPT ![f] = left]
    BY <1>9
  <2>2. RunningEffects = T
    BY DEF T
  <2> QED
    BY <1>2, <1>3, <1>6, <2>1, <2>2, SubsAreDeps, NextSubsAreDeps DEF Abstract!End
<1> QED
  BY <1>14, <1>15 DEF Tracked, Abstract!Next

------------------------------------------------------------------------------
(* One lemma per action, or per group of actions that do the same.          *)

\* A step keeps the invariant and implements Tracking.
Correct == FlagsExact' /\ Tracked

\* A frame that neither runs a function nor pauses tracking.
LEMMA PlainPushed ==
  ASSUME NEW g \in FrameSet, g.kind \notin {"run", "paused"},
         NEW t \in Seq(FrameSet), NEW flag \in BOOLEAN, FlagsOf(t, flag)
  PROVE  /\ <<g>> \o t \in Seq(FrameSet)
         /\ RunsOf(<<g>> \o t) = RunsOf(t)
         /\ FlagsOf(<<g>> \o t, flag)
<1>1. FlagsOf(<<g>> \o t, FlagInside(g, flag)) /\ FlagInside(g, flag) = flag
  BY FlagsPushed DEF FlagInside
<1> QED
  BY <1>1, PushType, RunsBelowOther

LEMMA CalmFlags ==
  ASSUME FlagsOf(stack', shouldTrack'), ~throwing'
  PROVE  FlagsExact'
BY DEF FlagsExact

LEMMA RunTracked ==
  ASSUME TrackingInv, IInv', NEW f \in Functions, NEW below \in Seq(FrameSet),
         RunsOf(below) = RunsOf(stack), FlagsOf(below, shouldTrack),
         run(f, below), UNCHANGED active, ~throwing'
  PROVE  Correct
<1>0. shouldTrack \in BOOLEAN /\ IInv /\ LevelsExact
  BY DEF TrackingInv, IInv, TypeOK
<1>1. CASE ~active[f]
  <2> DEFINE call == Frame("call", f, {}, TRUE)
  <2>1. stack' = <<call>> \o below /\ UNCHANGED <<tracking, shouldTrack>>
    BY <1>1 DEF run
  <2>2. call \in FrameSet /\ call.kind = "call"
    BY FrameType DEF Frame
  <2> HIDE DEF call
  <2>3. RunsOf(<<call>> \o below) = RunsOf(below) /\ FlagsOf(<<call>> \o below, shouldTrack)
    BY <1>0, <2>2, PlainPushed
  <2>4. FlagsExact'
    BY <2>1, <2>3, CalmFlags
  <2>5. Tracked
    BY <1>0, <2>1, <2>3, QuietStep
  <2> QED
    BY <2>4, <2>5 DEF Correct
<1>2. CASE active[f] /\ f \in Chain
  <2>1. stack' = below /\ UNCHANGED <<tracking, shouldTrack>>
    BY <1>2 DEF run
  <2>2. FlagsExact'
    BY <2>1, CalmFlags
  <2>3. Tracked
    BY <1>0, <2>1, QuietStep
  <2> QED
    BY <2>2, <2>3 DEF Correct
<1>3. CASE active[f] /\ f \notin Chain
  <2> DEFINE frame == Frame("run", f, {}, shouldTrack)
  <2>1. /\ stack' = <<frame>> \o below
        /\ shouldTrack' = TRUE
        /\ IF effectTrackDepth + 1 <= MaxMarkerBits
           THEN initDepMarkers(f, effectTrackDepth + 1) /\ UNCHANGED <<dep, deps>>
           ELSE cleanupEffect(f) /\ UNCHANGED w
        /\ reads' = [reads EXCEPT ![f] = {}]
        /\ UNCHANGED n
    BY <1>3 DEF run
  <2>2. /\ frame \in FrameSet /\ frame.kind = "run" /\ frame.fn = f
        /\ frame.saved = shouldTrack
    BY <1>0, FrameType DEF Frame
  <2> HIDE DEF frame
  <2>3. RunsOf(<<frame>> \o below) = Append(RunsOf(stack), f)
    BY <2>2, RunsBelowRun
  <2>4. FlagsOf(<<frame>> \o below, TRUE)
    <3>1. FlagsOf(<<frame>> \o below, FlagInside(frame, shouldTrack))
      BY <1>0, <2>2, FlagsPushed
    <3> QED
      BY <2>2, <3>1 DEF FlagInside
  <2>5. FlagsExact'
    BY <2>1, <2>4, CalmFlags
  <2>6. Tracked
    BY <1>0, <1>3, <2>1, <2>3, BeginTracked
  <2> QED
    BY <2>5, <2>6 DEF Correct
<1> QED
  BY <1>1, <1>2, <1>3

\* User code runs: nothing is thrown, and what it calls goes on the stack.
LEMMA UserCodeRuns ==
  ASSUME TrackingInv, CanAct
  PROVE  /\ stack # <<>> /\ ~throwing
         /\ Calling(<<>>) \in Seq(FrameSet)
         /\ RunsOf(Calling(<<>>)) = RunsOf(stack)
         /\ FlagsOf(Calling(<<>>), shouldTrack)
         /\ shouldTrack \in BOOLEAN /\ IInv /\ LevelsExact /\ FlagsExact
<1>1. stack # <<>> /\ ~throwing
  BY CanActTop DEF CanAct
<1>2. /\ stack \in Seq(FrameSet) /\ shouldTrack \in BOOLEAN /\ FlagsOf(stack, shouldTrack)
  BY DEF TrackingInv, FlagsExact, IInv, TypeOK
<1> QED
  BY <1>1, <1>2, Called DEF TrackingInv

LEMMA ReadCorrect ==
  ASSUME TrackingInv, IInv', \/ \E k \in Keys : readKey(k)
                             \/ \E c \in Computeds : readComputed(c)
  PROVE  Correct
<1>0. CanAct
  BY DEF readKey, readComputed
<1>1. ASSUME NEW k \in Keys, readKey(k) PROVE Correct
  <2>1. FlagsExact'
    BY <1>0, <1>1, UserCodeRuns, CalmFlags DEF readKey, control
  <2>2. Tracked
    BY <1>0, <1>1, UserCodeRuns, ReadTracked DEF readKey, Sources, flags
  <2> QED
    BY <2>1, <2>2 DEF Correct
<1>2. ASSUME NEW c \in Computeds, readComputed(c) PROVE Correct
  <2> DEFINE get == Frame("get", c, {}, TRUE)
  <2>1. get \in FrameSet /\ get.kind = "get"
    BY FrameType DEF Frame
  <2>2. stack' = Calling(<<get>>) \/ stack' = Calling(<<>>)
    BY <1>2 DEF readComputed
  <2> HIDE DEF get
  <2>3. /\ RunsOf(Calling(<<get>>)) = RunsOf(stack)
        /\ FlagsOf(Calling(<<get>>), shouldTrack)
    <3>1. Calling(<<get>>) = <<get>> \o Calling(<<>>)
      BY <1>0, <2>1, UserCodeRuns, Called DEF TrackingInv, IInv, TypeOK
    <3> QED
      BY <1>0, <2>1, <3>1, UserCodeRuns, PlainPushed
  <2>4. RunsOf(stack') = RunsOf(stack) /\ FlagsOf(stack', shouldTrack)
    BY <1>0, <2>2, <2>3, UserCodeRuns
  <2>5. FlagsExact'
    BY <1>0, <1>2, <2>4, UserCodeRuns, CalmFlags DEF readComputed, control
  <2>6. Tracked
    BY <1>0, <1>2, <2>4, UserCodeRuns, ReadTracked DEF readComputed, Sources, flags
  <2> QED
    BY <2>5, <2>6 DEF Correct
<1> QED
  BY <1>1, <1>2

LEMMA WriteCorrect ==
  ASSUME TrackingInv, IInv', NEW ks \in SUBSET Keys, write(ks) \/ mutateArray(ks)
  PROVE  Correct
<1>0. CanAct
  BY DEF write, mutateArray, CanChange
<1> DEFINE trigger == Frame("trigger", None, UNION {dep[k] : k \in ks}, TRUE)
           paused == Frame("paused", None, {}, shouldTrack)
<1>1. /\ trigger \in FrameSet /\ trigger.kind = "trigger"
      /\ paused \in FrameSet /\ paused.kind = "paused" /\ paused.saved = shouldTrack
  <2>1. UNION {dep[k] : k \in ks} \in SUBSET Functions
    BY DEF TrackingInv, IInv, TypeOK, Sources
  <2> QED
    BY <2>1, FrameType DEF Frame, TrackingInv, IInv, TypeOK
<1>2. UNCHANGED <<tracking, active, throwing>>
  BY DEF write, mutateArray, flags, control
<1>3. CASE write(ks)
  <2>1. stack' = Calling(<<trigger>>) /\ shouldTrack' = shouldTrack
    BY <1>3 DEF write
  <2> HIDE DEF trigger
  <2>2. Calling(<<trigger>>) = <<trigger>> \o Calling(<<>>)
    BY <1>0, <1>1, UserCodeRuns, Called DEF TrackingInv, IInv, TypeOK
  <2>3. /\ RunsOf(<<trigger>> \o Calling(<<>>)) = RunsOf(stack)
        /\ FlagsOf(<<trigger>> \o Calling(<<>>), shouldTrack)
    BY <1>0, <1>1, UserCodeRuns, PlainPushed
  <2>4. FlagsExact'
    BY <1>0, <1>2, <2>1, <2>2, <2>3, UserCodeRuns, CalmFlags
  <2>5. Tracked
    BY <1>0, <1>2, <2>1, <2>2, <2>3, UserCodeRuns, QuietStep
  <2> QED
    BY <2>4, <2>5 DEF Correct
<1>4. CASE mutateArray(ks)
  <2> DEFINE below == <<paused>> \o Calling(<<>>)
  <2>1. stack' = Calling(<<trigger, paused>>) /\ shouldTrack' = FALSE
    BY <1>4 DEF mutateArray
  <2> HIDE DEF trigger, paused
  <2>2. Calling(<<trigger, paused>>) = <<trigger>> \o below
    BY <1>0, <1>1, UserCodeRuns, Called DEF TrackingInv, IInv, TypeOK
  <2>3. below \in Seq(FrameSet) /\ RunsOf(below) = RunsOf(stack)
    BY <1>0, <1>1, UserCodeRuns, PushType, RunsBelowOther
  <2>4. FlagsOf(below, FALSE)
    <3>1. FlagsOf(below, FlagInside(paused, shouldTrack))
      BY <1>0, <1>1, UserCodeRuns, FlagsPushed
    <3> HIDE DEF below
    <3> QED
      BY <1>1, <3>1 DEF FlagInside
  <2> HIDE DEF below
  <2>5. RunsOf(<<trigger>> \o below) = RunsOf(stack) /\ FlagsOf(<<trigger>> \o below, FALSE)
    BY <1>1, <2>3, <2>4, PlainPushed
  <2>6. FlagsExact'
    BY <1>0, <1>2, <2>1, <2>2, <2>5, UserCodeRuns, CalmFlags
  <2>7. Tracked
    BY <1>0, <1>2, <2>1, <2>2, <2>5, UserCodeRuns, QuietStep
  <2> QED
    BY <2>6, <2>7 DEF Correct
<1> QED
  BY <1>3, <1>4

LEMMA CallRunnerCorrect ==
  ASSUME TrackingInv, IInv', NEW f \in Functions, callRunner(f)
  PROVE  Correct
<1>0. CanAct
  BY DEF callRunner, CanChange
<1> QED
  BY <1>0, UserCodeRuns, RunTracked DEF callRunner, flags, control

\* Only here it matters that no function stops one that runs around it.
LEMMA StopCorrect ==
  ASSUME ~StopsOuter, TrackingInv, IInv', NEW f \in Functions, stop(f)
  PROVE  Correct
<1>0. CanAct
  BY DEF stop, CanChange
<1>1. /\ stack' = Calling(<<>>)
      /\ UNCHANGED <<marks, reads, shouldTrack, throwing>>
  BY DEF stop, control
<1>2. RunsOf(stack') = RunsOf(stack) /\ FlagsExact'
  BY <1>0, <1>1, UserCodeRuns, CalmFlags
<1>3. CASE activeEffect = f
  <2>1. UNCHANGED <<tracking, active>>
    BY <1>1, <1>3 DEF stop, tracking, marks
  <2> QED
    BY <1>0, <1>2, <2>1, UserCodeRuns, QuietStep DEF Correct
<1>4. CASE activeEffect # f
  <2>1. f \notin Chain /\ cleanupEffect(f) /\ active' = [active EXCEPT ![f] = FALSE]
    BY <1>4 DEF stop
  <2> QED
    BY <1>0, <1>1, <1>2, <2>1, UserCodeRuns, StopTracked DEF Correct
<1> QED
  BY <1>3, <1>4

\* The flags once the frame at the top is left.
LEMMA TopLeft ==
  ASSUME TrackingInv, stack # <<>>
  PROVE  /\ stack \in Seq(FrameSet) /\ Tail(stack) \in Seq(FrameSet)
         /\ shouldTrack \in BOOLEAN /\ IInv /\ LevelsExact /\ FlagsExact
         /\ top.kind # "run" => RunsOf(Tail(stack)) = RunsOf(stack)
         /\ FlagsOf(Tail(stack),
                    IF top.kind \in {"run", "paused"} THEN top.saved ELSE shouldTrack)
         /\ throwing => /\ top.kind # "paused"
                        /\ \A k \in 1..Len(Tail(stack)) : Tail(stack)[k].kind # "paused"
<1>1. /\ stack \in Seq(FrameSet) /\ shouldTrack \in BOOLEAN /\ FlagsOf(stack, shouldTrack)
      /\ IInv /\ LevelsExact /\ FlagsExact
  BY DEF TrackingInv, FlagsExact, IInv, TypeOK
<1>2. Len(stack) \in Nat \ {0}
  BY <1>1, EmptySeq
<1>3. /\ Tail(stack) \in Seq(FrameSet) /\ Len(Tail(stack)) = Len(stack) - 1
      /\ \A k \in 1..Len(Tail(stack)) : Tail(stack)[k] = stack[k + 1]
      /\ top = stack[1]
  BY <1>1, HeadTailProperties DEF top
<1>4. ASSUME throwing
      PROVE  /\ top.kind # "paused"
             /\ \A k \in 1..Len(Tail(stack)) : Tail(stack)[k].kind # "paused"
  <2>1. \A k \in 1..Len(stack) : stack[k].kind # "paused"
    BY <1>1, <1>4 DEF FlagsExact
  <2>2. 1 \in 1..Len(stack) /\ \A k \in 1..Len(Tail(stack)) : k + 1 \in 1..Len(stack)
    BY <1>2, <1>3
  <2> QED
    BY <1>3, <2>1, <2>2
<1> QED
  BY <1>1, <1>3, <1>4, TopPopped

LEMMA EndRunCorrect ==
  ASSUME TrackingInv, IInv', stack # <<>>, top.kind = "run", endRun, UNCHANGED throwing
  PROVE  Correct
<1>1. stack' = Tail(stack) /\ shouldTrack' = top.saved
  BY DEF endRun
<1>2. FlagsExact'
  BY <1>1, TopLeft DEF FlagsExact
<1>3. Tracked
  BY TopLeft, EndTracked
<1> QED
  BY <1>2, <1>3 DEF Correct

LEMMA PopCorrect ==
  ASSUME TrackingInv, IInv',
         RunReturns \/ CallReturns \/ TriggerDone \/ ResetTracking \/ Unwind
  PROVE  Correct
<1>1. stack # <<>> /\ UNCHANGED throwing
  BY DEF RunReturns, CallReturns, TriggerDone, ResetTracking, Unwind, Running, control
<1>2. CASE top.kind = "run" /\ endRun
  BY <1>1, <1>2, EndRunCorrect
<1>3. CASE /\ top.kind # "run" /\ stack' = Tail(stack)
           /\ shouldTrack' = IF top.kind = "paused" THEN top.saved ELSE shouldTrack
           /\ UNCHANGED <<tracking, active>>
  <2>1. FlagsExact'
    BY <1>1, <1>3, TopLeft DEF FlagsExact
  <2>2. Tracked
    BY <1>1, <1>3, TopLeft, QuietStep
  <2> QED
    BY <2>1, <2>2 DEF Correct
<1>4. CASE RunReturns
  BY <1>2, <1>4 DEF RunReturns, Running
<1>5. CASE CallReturns \/ TriggerDone
  BY <1>3, <1>5 DEF CallReturns, TriggerDone, Running, flags
<1>6. CASE ResetTracking
  BY <1>3, <1>6 DEF ResetTracking, Running, flags
<1>7. CASE Unwind
  <2>1. throwing /\ top.kind # "paused"
    BY <1>1, <1>7, TopLeft DEF Unwind
  <2> QED
    BY <1>2, <1>3, <1>7, <2>1 DEF Unwind, flags
<1> QED
  BY <1>4, <1>5, <1>6, <1>7

LEMMA GetCorrect ==
  ASSUME TrackingInv, IInv', Get
  PROVE  Correct
<1>1. /\ stack # <<>> /\ top.kind = "get" /\ ~throwing'
      /\ run(top.fn, Tail(stack)) /\ UNCHANGED active
  BY DEF Get, Running, flags, control
<1>2. /\ Tail(stack) \in Seq(FrameSet) /\ RunsOf(Tail(stack)) = RunsOf(stack)
      /\ FlagsOf(Tail(stack), shouldTrack)
  BY <1>1, TopLeft
<1>3. top.fn \in Functions
  BY <1>1, TopType DEF TrackingInv, IInv, TypeOK, Functions
<1> QED
  BY <1>1, <1>2, <1>3, RunTracked

LEMMA TriggerEffectCorrect ==
  ASSUME TrackingInv, IInv', NEW f \in Functions, TriggerEffect(f)
  PROVE  Correct
<1> DEFINE x == [top EXCEPT !.todo = @ \ {f}]
           below == <<x>> \o Tail(stack)
<1>0. /\ stack # <<>> /\ ~throwing' /\ UNCHANGED active
      /\ stack \in Seq(FrameSet) /\ shouldTrack \in BOOLEAN
      /\ IInv /\ LevelsExact /\ FlagsOf(stack, shouldTrack)
  BY DEF TriggerEffect, Running, flags, control, TrackingInv, FlagsExact, IInv, TypeOK
<1>1. x \in FrameSet /\ x.kind = top.kind /\ x.fn = top.fn /\ x.saved = top.saved
  BY <1>0, TopType DEF FrameSet, Frames
<1>2. /\ below \in Seq(FrameSet) /\ RunsOf(below) = RunsOf(stack)
      /\ FlagsOf(below, shouldTrack)
  <2> HIDE DEF x
  <2> QED
    BY <1>0, <1>1, TopEdited
<1>3. \/ stack' = below /\ UNCHANGED <<tracking, shouldTrack>>
      \/ /\ f \in Computeds
         /\ stack' = <<Frame("trigger", None, dep[f], TRUE)>> \o below
         /\ UNCHANGED <<tracking, shouldTrack>>
      \/ run(f, below)
  BY DEF TriggerEffect
<1> HIDE DEF below
<1>4. CASE stack' = below /\ UNCHANGED <<tracking, shouldTrack>>
  BY <1>0, <1>2, <1>4, CalmFlags, QuietStep DEF Correct
<1>5. CASE /\ f \in Computeds
           /\ stack' = <<Frame("trigger", None, dep[f], TRUE)>> \o below
           /\ UNCHANGED <<tracking, shouldTrack>>
  <2> DEFINE trigger == Frame("trigger", None, dep[f], TRUE)
  <2>1. trigger \in FrameSet /\ trigger.kind = "trigger"
    <3>1. dep[f] \in SUBSET Functions
      BY <1>0, <1>5 DEF IInv, TypeOK, Sources
    <3> QED
      BY <3>1, FrameType DEF Frame
  <2>2. stack' = <<trigger>> \o below
    BY <1>5
  <2> HIDE DEF trigger
  <2>3. RunsOf(stack') = RunsOf(stack) /\ FlagsOf(stack', shouldTrack)
    BY <1>0, <1>2, <2>1, <2>2, PlainPushed
  <2> QED
    BY <1>0, <1>5, <2>3, CalmFlags, QuietStep DEF Correct
<1>6. CASE run(f, below)
  BY <1>0, <1>2, <1>6, RunTracked
<1> QED
  BY <1>3, <1>4, <1>5, <1>6

LEMMA RunJobCorrect ==
  ASSUME TrackingInv, IInv', NEW f \in Functions, RunJob(f)
  PROVE  Correct
<1>0. /\ stack = <<>> /\ ~throwing' /\ UNCHANGED active
      /\ stack \in Seq(FrameSet) /\ IInv /\ LevelsExact /\ FlagsOf(stack, shouldTrack)
  BY DEF RunJob, flags, control, TrackingInv, FlagsExact, IInv, TypeOK
<1>1. CASE run(f, stack)
  BY <1>0, <1>1, RunTracked
<1>2. CASE UNCHANGED <<tracking, stack, shouldTrack>>
  BY <1>0, <1>2, CalmFlags, QuietStep DEF Correct
<1> QED
  BY <1>0, <1>1, <1>2 DEF RunJob

LEMMA ControlCorrect ==
  ASSUME TrackingInv, Throw \/ Catch \/ StartTask \/ UNCHANGED vars
  PROVE  Correct
<1>0. /\ stack \in Seq(FrameSet) /\ shouldTrack \in BOOLEAN
      /\ IInv /\ LevelsExact /\ FlagsOf(stack, shouldTrack) /\ FlagsExact
  BY DEF TrackingInv, FlagsExact, IInv, TypeOK
<1>1. UNCHANGED <<tracking, active, shouldTrack>>
  BY DEF Throw, Catch, StartTask, vars, flags
<1>2. CASE stack' = stack
  <2>1. throwing' => \A k \in 1..Len(stack) : stack[k].kind # "paused"
    BY <1>0 DEF Throw, Catch, StartTask, vars, control, FlagsExact
  <2> QED
    BY <1>0, <1>1, <1>2, <2>1, QuietStep DEF Correct, FlagsExact
<1>3. CASE StartTask
  <2> DEFINE main == Frame("main", None, {}, TRUE)
             one == <<main>>
  <2>1. main \in FrameSet /\ main.kind = "main"
    BY FrameType DEF Frame
  <2>2. stack = <<>> /\ stack' = one /\ ~throwing'
    BY <1>3 DEF StartTask, control
  <2>3. one = one \o stack
    <3>1. one \in Seq(FrameSet)
      BY <2>1, SingleType
    <3> HIDE DEF one
    <3> QED
      BY <2>2, <3>1, ConcatEmptySeq
  <2>4. RunsOf(one \o stack) = RunsOf(stack) /\ FlagsOf(one \o stack, shouldTrack)
    <3> HIDE DEF main
    <3> QED
      BY <1>0, <2>1, PlainPushed
  <2> HIDE DEF one
  <2> QED
    BY <1>0, <1>1, <2>2, <2>3, <2>4, CalmFlags, QuietStep DEF Correct
<1> QED
  BY <1>2, <1>3 DEF Throw, Catch, StartTask, vars

LEMMA InitTracking == Init => TrackingInv /\ Abstract!Init
<1> SUFFICES ASSUME Init PROVE TrackingInv /\ Abstract!Init
  OBVIOUS
<1>1. IInv
  BY InitIInv
<1>2. stack = <<>> /\ Len(stack) = 0 /\ stack \in Seq(FrameSet)
  BY <1>1, EmptySeq DEF Init, IInv, TypeOK
<1>3. RunningEffects = <<>> /\ Len(RunningEffects) = 0
  <2>1. RunFrames = {}
    BY <1>2 DEF RunFrames
  <2>2. effectTrackDepth = 0
    BY <2>1, FS_EmptySet DEF effectTrackDepth
  <2>3. RunningEffects \in Seq(Functions) /\ Len(RunningEffects) = 0
    BY <1>2, <2>2, RunningEffectsFacts
  <2> QED
    BY <2>3, EmptySeq
<1>4. LevelsExact
  BY <1>3 DEF Init, LevelsExact
<1>5. FlagsExact
  <2>1. Len(stack) = 0 /\ shouldTrack = TRUE /\ ~throwing
    BY <1>2 DEF Init
  <2>2. ~PausedBelow(stack, 0)
    BY <2>1 DEF PausedBelow
  <2>3. shouldTrack = ~PausedBelow(stack, 0)
    BY <2>1, <2>2
  <2>4. \A k : k \notin 1..Len(stack)
    BY <2>1
  <2>5. FlagsOf(stack, shouldTrack)
    BY <2>3, <2>4 DEF FlagsOf
  <2> QED
    BY <2>1, <2>5 DEF FlagsExact
<1>6. Abstract!Init
  BY <1>1, <1>3, SubsAreDeps DEF Init, Abstract!Init
<1> QED
  BY <1>1, <1>4, <1>5, <1>6 DEF TrackingInv

LEMMA NextTracking ==
  ASSUME ~StopsOuter, TrackingInv, [Next]_vars
  PROVE  TrackingInv' /\ [Abstract!Next]_Abstract!vars
<1>1. IInv'
  BY NextIInv DEF TrackingInv
<1>2. Correct
  <2>1. CASE UserCode
    BY <1>1, <2>1, ReadCorrect, WriteCorrect, CallRunnerCorrect, StopCorrect, ControlCorrect
       DEF UserCode, Functions
  <2>2. CASE Proceed
    BY <1>1, <2>2, PopCorrect, GetCorrect, TriggerEffectCorrect, RunJobCorrect DEF Proceed
  <2>3. CASE UNCHANGED vars
    BY <2>3, ControlCorrect
  <2> QED
    BY <2>1, <2>2, <2>3 DEF Next
<1> QED
  BY <1>1, <1>2 DEF Correct, Tracked, TrackingInv

\* The marks are exact at every level, and shouldTrack is FALSE just while an
\* array method runs and no effect inside it.
THEOREM TrackingInvariant == ASSUME ~StopsOuter PROVE Spec => []TrackingInv
<1>1. Init => TrackingInv
  BY InitTracking
<1>2. TrackingInv /\ [Next]_vars => TrackingInv'
  BY NextTracking
<1> QED
  BY <1>1, <1>2, PTL DEF Spec

\* The dependencies of an effect that has run to its end are what that run
\* read, and a stopped effect has none (see DepsExact, about trackEffects and
\* finalizeDepMarkers).
THEOREM DepsExactCorrect == ASSUME ~StopsOuter PROVE Spec => []DepsExact
<1>1. TrackingInv => DepsExact
  <2> SUFFICES ASSUME TrackingInv, NEW f \in Functions
               PROVE  IF f \in Chain THEN reads[f] \subseteq deps[f]
                      ELSE deps[f] = IF active[f] THEN reads[f] ELSE {}
    BY DEF DepsExact
  <2> DEFINE R == RunningEffects
  <2>1. Chain = {R[d] : d \in 1..Len(R)}
    BY RunningEffectsFacts DEF TrackingInv, IInv, TypeOK
  <2>2. CASE f \in Chain
    <3>1. PICK d \in 1..Len(R) : f = R[d]
      BY <2>1, <2>2
    <3>2. LevelExact(f, d)
      BY <3>1 DEF TrackingInv, LevelsExact
    <3>3. reads[f] \subseteq Sources
      BY DEF TrackingInv, IInv, TypeOK
    <3> QED
      BY <2>2, <3>2, <3>3 DEF LevelExact
  <2>3. CASE f \notin Chain
    BY <2>1, <2>3 DEF TrackingInv, LevelsExact
  <2> QED
    BY <2>2, <2>3
<1> QED
  BY <1>1, TrackingInvariant, PTL

\* No run leaves a mark behind (see MarksCleared, about initDepMarkers and
\* finalizeDepMarkers).
THEOREM MarksClearedCorrect == ASSUME ~StopsOuter PROVE Spec => []MarksCleared
<1>1. TrackingInv => MarksCleared
  BY RunningEffectsFacts DEF TrackingInv, LevelsExact, MarksCleared, IInv, TypeOK
<1> QED
  BY <1>1, TrackingInvariant, PTL

\* Effects, marks and cleanups implement the promise of Tracking: every step of
\* the code begins a run, records a read, ends a run, stops a function, or does
\* nothing that it speaks of.
THEOREM TracksExactlyCorrect == ASSUME ~StopsOuter PROVE Spec => TracksExactly
<1>1. Init => Abstract!Init
  BY InitTracking
<1>2. TrackingInv /\ [Next]_vars => [Abstract!Next]_Abstract!vars
  BY NextTracking
<1> QED
  BY <1>1, <1>2, TrackingInvariant, PTL DEF Spec, TracksExactly, Abstract!Spec

------------------------------------------------------------------------------
(* Every outdated effect is still to be told: that no effect is outdated    *)
(* when all code has ended (Settled).  It is so unless an effect that a     *)
(* trigger runs at once changes state while there are several computeds: it *)
(* may run before all of them are marked dirty, read the old value of one,  *)
(* and then be passed over, as the effect that runs, when its own change    *)
(* marks that one.                                                          *)

OneComputed == \A c, d \in Computeds : c = d

\* Only queued effects change state, and code that no effect runs.
QuietEffects == Writers \subseteq Scheduled \union {None}

NoFeedback == OneComputed \/ QuietEffects

\* The functions that the loops of triggerEffects have still to tell.
ToTell(s) == UNION {s[k].todo : k \in {m \in 1..Len(s) : s[m].kind = "trigger"}}

\* The functions that run.
RunFns(s) == {s[k].fn : k \in Runs(s)}

\* The code of a queued effect, or of none.
QueuedCode(frame) == frame.kind \in Code /\ frame.fn \in Scheduled \union {None}

AllQueued(s) == \A k \in 1..Len(s) : QueuedCode(s[k])

NoGet(s) == \A k \in 1..Len(s) : s[k].kind # "get"

\* Such code is only called by such code, and no loop was started by others.
Calm(s) ==
  \A k, m \in 1..Len(s) : k < m =>
    /\ QueuedCode(s[k]) => QueuedCode(s[m])
    /\ s[k].kind = "trigger" /\ s[m].kind = "run" => s[m].fn \in Scheduled

\* The outdated functions that still have to hear of it.
Owed == {f \in outdated : /\ active[f] /\ f \notin jobs
                          /\ f \in Computeds => ~dirty[f]}

\* fs has all that are told by the loops, and with a computed its readers.
Closed(fs) ==
  /\ Owed \intersect ToTell(stack) \subseteq fs
  /\ \A c \in fs \intersect Owed \intersect Computeds, f \in Owed :
       c \in reads[f] => f \in fs

\* All that is owed is told by a loop, or will be told by a computed that is.
Told == \A fs \in SUBSET Functions : Closed(fs) => Owed \subseteq fs

QuietOK ==
  /\ Calm(stack)
  /\ \A c \in Chain \intersect Computeds : ~dirty[c]
  /\ outdated \intersect Chain \intersect Scheduled = {}
  /\ \A f \in Functions : deferStop[f] => f \in Scheduled

\* A computed is told at once.
OneOK ==
  /\ outdated \intersect Chain = {}
  /\ \A c \in Owed \intersect Computeds : Running({"trigger"}) /\ c \in top.todo

\* A getter that is entered goes on at once.
GetsOK ==
  /\ stack # <<>> => NoGet(Tail(stack))
  /\ Running({"get"}) => dirty[top.fn]

SettlingInv ==
  /\ throwing => threw
  /\ GetsOK
  /\ ~threw => Told /\ (QuietEffects => QuietOK) /\ (OneComputed => OneOK)

\* What the frame at the top adds.
LEMMA FrameAdds ==
  ASSUME NEW f \in FrameSet, NEW t \in Seq(FrameSet)
  PROVE  LET s == <<f>> \o t
         IN  /\ ToTell(s) = ToTell(t) \union (IF f.kind = "trigger" THEN f.todo ELSE {})
             /\ RunFns(s) = RunFns(t) \union (IF f.kind = "run" THEN {f.fn} ELSE {})
             /\ AllQueued(s) <=> AllQueued(t) /\ QueuedCode(f)
             /\ NoGet(s) <=> NoGet(t) /\ f.kind # "get"
             /\ Calm(s) <=> /\ Calm(t) /\ (QueuedCode(f) => AllQueued(t))
                            /\ f.kind = "trigger" => RunFns(t) \subseteq Scheduled
<1> DEFINE s == <<f>> \o t
<1>1. /\ Len(t) \in Nat /\ Len(s) = Len(t) + 1 /\ s[1] = f
      /\ \A k \in 1..Len(t) : s[k + 1] = t[k]
  BY OnTop
<1> HIDE DEF s
<1>2. \A k \in 1..Len(s) : k = 1 \/ (k - 1 \in 1..Len(t) /\ s[k] = t[k - 1])
  <2> SUFFICES ASSUME NEW k \in 1..Len(s), k # 1
               PROVE  k - 1 \in 1..Len(t) /\ s[k] = t[k - 1]
    OBVIOUS
  <2>1. k - 1 \in 1..Len(t) /\ (k - 1) + 1 = k
    BY <1>1
  <2> QED
    BY <1>1, <2>1
<1>3. 1 \in 1..Len(s) /\ \A k \in 1..Len(t) : k + 1 \in 1..Len(s)
  BY <1>1
<1>4. ToTell(s) = ToTell(t) \union (IF f.kind = "trigger" THEN f.todo ELSE {})
  <2>1. ASSUME NEW g \in ToTell(s)
        PROVE  g \in ToTell(t) \union (IF f.kind = "trigger" THEN f.todo ELSE {})
    <3>1. PICK k \in 1..Len(s) : s[k].kind = "trigger" /\ g \in s[k].todo
      BY DEF ToTell
    <3>2. CASE k = 1
      BY <1>1, <3>1, <3>2
    <3>3. CASE k # 1
      BY <1>2, <3>1, <3>3 DEF ToTell
    <3> QED BY <3>2, <3>3
  <2>2. ASSUME NEW g \in ToTell(t) PROVE g \in ToTell(s)
    <3>1. PICK k \in 1..Len(t) : t[k].kind = "trigger" /\ g \in t[k].todo
      BY DEF ToTell
    <3> QED BY <1>1, <1>3, <3>1 DEF ToTell
  <2>3. f.kind = "trigger" => f.todo \subseteq ToTell(s)
    BY <1>1, <1>3 DEF ToTell
  <2> QED BY <2>1, <2>2, <2>3
<1>5. RunFns(s) = RunFns(t) \union (IF f.kind = "run" THEN {f.fn} ELSE {})
  <2>1. Runs(s) = {k + 1 : k \in Runs(t)} \union (IF f.kind = "run" THEN {1} ELSE {})
    BY RunsOnTop DEF s
  <2>2. \A k \in Runs(t) : s[k + 1].fn = t[k].fn
    BY <1>1 DEF Runs
  <2>3. ASSUME NEW g \in RunFns(s)
        PROVE  g \in RunFns(t) \union (IF f.kind = "run" THEN {f.fn} ELSE {})
    <3>1. PICK k \in Runs(s) : g = s[k].fn
      BY DEF RunFns
    <3>2. CASE \E m \in Runs(t) : k = m + 1
      BY <2>2, <3>1, <3>2 DEF RunFns
    <3>3. CASE f.kind = "run" /\ k = 1
      BY <1>1, <3>1, <3>3
    <3> QED BY <2>1, <3>2, <3>3
  <2>4. ASSUME NEW g \in RunFns(t) PROVE g \in RunFns(s)
    <3>1. PICK m \in Runs(t) : g = t[m].fn
      BY DEF RunFns
    <3>2. m + 1 \in Runs(s) /\ g = s[m + 1].fn
      BY <2>1, <2>2, <3>1
    <3> QED BY <3>2 DEF RunFns
  <2>5. f.kind = "run" => f.fn \in RunFns(s)
    BY <1>1, <2>1 DEF RunFns
  <2> QED BY <2>3, <2>4, <2>5
<1>6. AllQueued(s) <=> AllQueued(t) /\ QueuedCode(f)
  <2>1. ASSUME AllQueued(s) PROVE AllQueued(t) /\ QueuedCode(f)
    <3> HIDE DEF QueuedCode
    <3> QED BY <1>1, <1>3, <2>1 DEF AllQueued
  <2>2. ASSUME AllQueued(t), QueuedCode(f) PROVE AllQueued(s)
    BY <1>1, <1>2, <2>2 DEF AllQueued
  <2> QED BY <2>1, <2>2
<1>7. Calm(s) <=> /\ Calm(t) /\ (QueuedCode(f) => AllQueued(t))
                  /\ f.kind = "trigger" => RunFns(t) \subseteq Scheduled
  <2>1. ASSUME Calm(s)
        PROVE  /\ Calm(t) /\ (QueuedCode(f) => AllQueued(t))
               /\ f.kind = "trigger" => RunFns(t) \subseteq Scheduled
    <3>1. Calm(t)
      <4> SUFFICES ASSUME NEW k \in 1..Len(t), NEW m \in 1..Len(t), k < m
                   PROVE  /\ QueuedCode(t[k]) => QueuedCode(t[m])
                          /\ t[k].kind = "trigger" /\ t[m].kind = "run" => t[m].fn \in Scheduled
        BY DEF Calm
      <4>1. /\ k + 1 \in 1..Len(s) /\ m + 1 \in 1..Len(s) /\ k + 1 < m + 1
            /\ s[k + 1] = t[k] /\ s[m + 1] = t[m]
        BY <1>1, <1>3
      <4> QED BY <2>1, <4>1 DEF Calm
    <3>2. ASSUME NEW m \in 1..Len(t)
          PROVE  /\ QueuedCode(f) => QueuedCode(t[m])
                 /\ f.kind = "trigger" /\ t[m].kind = "run" => t[m].fn \in Scheduled
      <4>1. m + 1 \in 1..Len(s) /\ 1 \in 1..Len(s) /\ 1 < m + 1 /\ s[1] = f /\ s[m + 1] = t[m]
        BY <1>1, <1>3
      <4> QED BY <2>1, <4>1 DEF Calm
    <3> QED BY <3>1, <3>2 DEF AllQueued, RunFns, Runs
  <2>2. ASSUME Calm(t), QueuedCode(f) => AllQueued(t),
               f.kind = "trigger" => RunFns(t) \subseteq Scheduled
        PROVE  Calm(s)
    <3> SUFFICES ASSUME NEW k \in 1..Len(s), NEW m \in 1..Len(s), k < m
                 PROVE  /\ QueuedCode(s[k]) => QueuedCode(s[m])
                        /\ s[k].kind = "trigger" /\ s[m].kind = "run" => s[m].fn \in Scheduled
      BY DEF Calm
    <3>0. m # 1 /\ m - 1 \in 1..Len(t) /\ s[m] = t[m - 1]
      BY <1>1, <1>2
    <3>1. CASE k = 1
      <4>1. s[k] = f
        BY <1>1, <3>1
      <4>2. t[m - 1].kind = "run" => t[m - 1].fn \in RunFns(t)
        BY <3>0 DEF RunFns, Runs
      <4> QED BY <2>2, <3>0, <4>1, <4>2 DEF AllQueued
    <3>2. CASE k # 1
      <4>1. k - 1 \in 1..Len(t) /\ s[k] = t[k - 1] /\ k - 1 < m - 1
        BY <1>1, <1>2, <3>0, <3>2
      <4> QED BY <2>2, <3>0, <4>1 DEF Calm
    <3> QED BY <3>1, <3>2
  <2> QED BY <2>1, <2>2
<1>8. NoGet(s) <=> NoGet(t) /\ f.kind # "get"
  <2>1. ASSUME NoGet(s) PROVE NoGet(t) /\ f.kind # "get"
    BY <1>1, <1>3, <2>1 DEF NoGet
  <2>2. ASSUME NoGet(t), f.kind # "get" PROVE NoGet(s)
    BY <1>1, <1>2, <2>2 DEF NoGet
  <2> QED BY <2>1, <2>2
<1> QED
  BY <1>4, <1>5, <1>6, <1>7, <1>8 DEF s

LEMMA NoFrameAdds ==
  ASSUME NEW s \in Seq(FrameSet), Len(s) = 0
  PROVE  ToTell(s) = {} /\ RunFns(s) = {} /\ AllQueued(s) /\ NoGet(s) /\ Calm(s)
BY DEF ToTell, RunFns, Runs, AllQueued, NoGet, Calm

LEMMA AllQueuedFacts ==
  ASSUME NEW s \in Seq(FrameSet), AllQueued(s)
  PROVE  ToTell(s) = {} /\ RunFns(s) \subseteq Scheduled
<1>1. \A k \in 1..Len(s) : s[k].kind # "trigger"
  BY DEF AllQueued, QueuedCode, Code
<1>2. ASSUME NEW k \in 1..Len(s), s[k].kind = "run" PROVE s[k].fn \in Scheduled
  <2>1. s[k] \in FrameSet
    OBVIOUS
  <2>2. s[k].fn \in Functions
    BY <1>2, <2>1 DEF FrameSet, Frames
  <2> QED BY <2>2, FunctionsAssumption DEF AllQueued, QueuedCode
<1> QED
  BY <1>1, <1>2 DEF ToTell, RunFns, Runs

LEMMA ChainIsRunFns == Chain = RunFns(stack)
BY DEF Chain, RunFrames, RunFns, Runs

LEMMA NextChainIsRunFns == Chain' = RunFns(stack')
BY DEF Chain, RunFrames, RunFns, Runs

\* A stack like this one, but for what counts an operation or a turn.
LikeStack(s) ==
  /\ s \in Seq(FrameSet) /\ Len(s) = Len(stack)
  /\ RunFns(s) = RunFns(stack)
  /\ AllQueued(stack) => AllQueued(s)
  /\ NoGet(stack) => NoGet(s)
  /\ Calm(stack) => Calm(s)

\* The frame at the top and what is below it.
LEMMA TopAdds ==
  ASSUME stack \in Seq(FrameSet), stack # <<>>
  PROVE  /\ top \in FrameSet /\ Tail(stack) \in Seq(FrameSet)
         /\ Len(Tail(stack)) \in Nat /\ Len(stack) = Len(Tail(stack)) + 1
         /\ ToTell(stack) = ToTell(Tail(stack))
                              \union (IF top.kind = "trigger" THEN top.todo ELSE {})
         /\ RunFns(stack) = RunFns(Tail(stack))
                              \union (IF top.kind = "run" THEN {top.fn} ELSE {})
         /\ AllQueued(stack) <=> AllQueued(Tail(stack)) /\ QueuedCode(top)
         /\ NoGet(stack) <=> NoGet(Tail(stack)) /\ top.kind # "get"
         /\ Calm(stack) <=>
              /\ Calm(Tail(stack)) /\ (QueuedCode(top) => AllQueued(Tail(stack)))
              /\ top.kind = "trigger" => RunFns(Tail(stack)) \subseteq Scheduled
<1> DEFINE f == top
           t == Tail(stack)
<1>1. f \in FrameSet /\ t \in Seq(FrameSet) /\ stack = <<f>> \o t
  <2>1. stack = <<f>> \o t
    BY HeadTailProperties DEF top
  <2> QED BY <2>1, TopType
<1> HIDE DEF f, t
<1>2. /\ Len(t) \in Nat /\ Len(<<f>> \o t) = Len(t) + 1
  BY <1>1, OnTop
<1>3. /\ ToTell(<<f>> \o t) = ToTell(t) \union (IF f.kind = "trigger" THEN f.todo ELSE {})
      /\ RunFns(<<f>> \o t) = RunFns(t) \union (IF f.kind = "run" THEN {f.fn} ELSE {})
      /\ AllQueued(<<f>> \o t) <=> AllQueued(t) /\ QueuedCode(f)
      /\ NoGet(<<f>> \o t) <=> NoGet(t) /\ f.kind # "get"
      /\ Calm(<<f>> \o t) <=>
           /\ Calm(t) /\ (QueuedCode(f) => AllQueued(t))
           /\ f.kind = "trigger" => RunFns(t) \subseteq Scheduled
  BY <1>1, FrameAdds
<1>4. /\ Len(t) \in Nat /\ Len(stack) = Len(t) + 1
      /\ ToTell(stack) = ToTell(t) \union (IF f.kind = "trigger" THEN f.todo ELSE {})
      /\ RunFns(stack) = RunFns(t) \union (IF f.kind = "run" THEN {f.fn} ELSE {})
      /\ AllQueued(stack) <=> AllQueued(t) /\ QueuedCode(f)
      /\ NoGet(stack) <=> NoGet(t) /\ f.kind # "get"
      /\ Calm(stack) <=>
           /\ Calm(t) /\ (QueuedCode(f) => AllQueued(t))
           /\ f.kind = "trigger" => RunFns(t) \subseteq Scheduled
  BY <1>1, <1>2, <1>3
<1> QED
  BY <1>1, <1>4 DEF f, t

LEMMA EditedAdds ==
  ASSUME stack \in Seq(FrameSet), stack # <<>>,
         NEW x \in FrameSet, x.kind = top.kind, x.fn = top.fn
  PROVE  /\ LikeStack(<<x>> \o Tail(stack))
         /\ ToTell(<<x>> \o Tail(stack)) =
              ToTell(Tail(stack)) \union (IF top.kind = "trigger" THEN x.todo ELSE {})
<1> DEFINE t == Tail(stack)
<1>1. t \in Seq(FrameSet)
  BY TopAdds
<1>2. /\ <<x>> \o t \in Seq(FrameSet)
      /\ Len(<<x>> \o t) = Len(t) + 1
  BY <1>1, OnTop
<1>3. /\ ToTell(<<x>> \o t) = ToTell(t) \union (IF x.kind = "trigger" THEN x.todo ELSE {})
      /\ RunFns(<<x>> \o t) = RunFns(t) \union (IF x.kind = "run" THEN {x.fn} ELSE {})
      /\ AllQueued(<<x>> \o t) <=> AllQueued(t) /\ QueuedCode(x)
      /\ NoGet(<<x>> \o t) <=> NoGet(t) /\ x.kind # "get"
      /\ Calm(<<x>> \o t) <=>
           /\ Calm(t) /\ (QueuedCode(x) => AllQueued(t))
           /\ x.kind = "trigger" => RunFns(t) \subseteq Scheduled
  BY <1>1, FrameAdds
<1> QED
  BY <1>2, <1>3, TopAdds DEF LikeStack, QueuedCode

LEMMA CallingAdds ==
  ASSUME stack \in Seq(FrameSet), stack # <<>>
  PROVE  /\ LikeStack(Calling(<<>>))
         /\ ToTell(Calling(<<>>)) = ToTell(stack)
<1> DEFINE x == [top EXCEPT !.ops = @ + 1]
           t == Tail(stack)
<1>1. x \in FrameSet /\ x.kind = top.kind /\ x.fn = top.fn /\ x.todo = top.todo
  <2>1. \A kinds, fns : top \in Frames(kinds, fns) =>
          /\ x \in Frames(kinds, fns)
          /\ x.kind = top.kind /\ x.fn = top.fn /\ x.todo = top.todo
    BY DEF Frames
  <2> QED BY <2>1, TopAdds DEF FrameSet
<1>2. Calling(<<>>) = <<x>> \o t
  <2> DEFINE one == <<x>>
  <2>1. one \in Seq(FrameSet)
    BY <1>1, SingleType
  <2> HIDE DEF one
  <2>2. <<>> \o one = one
    BY <2>1, ConcatEmptySeq
  <2> QED BY <2>2 DEF Calling, one
<1> HIDE DEF x
<1> QED
  BY <1>1, <1>2, EditedAdds, TopAdds

\* An effect that read a source hears of its changes.
LEMMA ReadersHear ==
  ASSUME TrackingInv, NEW f \in Functions, NEW s \in Sources, active[f], s \in reads[f]
  PROVE  f \in dep[s]
<1> DEFINE R == RunningEffects
<1>1. CASE \E d \in 1..Len(R) : R[d] = f
  <2>1. PICK d \in 1..Len(R) : R[d] = f
    BY <1>1
  <2>2. LevelExact(f, d)
    BY <2>1 DEF TrackingInv, LevelsExact
  <2>3. s \in deps[f]
    BY <2>2 DEF LevelExact
  <2> QED BY <2>3 DEF TrackingInv, IInv, Mutual
<1>2. CASE \A d \in 1..Len(R) : R[d] # f
  <2>1. deps[f] = reads[f]
    BY <1>2 DEF TrackingInv, LevelsExact
  <2> QED BY <2>1 DEF TrackingInv, IInv, Mutual
<1> QED
  BY <1>1, <1>2

\* The functions of gone have been told, and have told their readers.
LEMMA ToldKept ==
  ASSUME TrackingInv, Told, NEW gone \in SUBSET Functions, Owed' = Owed \ gone,
         (Owed \intersect ToTell(stack)) \ gone \subseteq ToTell(stack'),
         \A f \in Owed \ gone : reads[f] \subseteq reads'[f],
         \A c \in gone \intersect Owed \intersect Computeds, f \in Owed \ gone :
           c \in reads[f] => f \in ToTell(stack')
  PROVE  Told'
<1> SUFFICES ASSUME NEW fs \in SUBSET Functions, Closed(fs)' PROVE Owed' \subseteq fs
  BY DEF Told
<1>1. /\ Owed' \intersect ToTell(stack') \subseteq fs
      /\ \A c \in fs \intersect Owed' \intersect Computeds, f \in Owed' :
           c \in reads'[f] => f \in fs
  BY DEF Closed
<1>2. Closed(fs \union gone)
  <2>1. Owed \intersect ToTell(stack) \subseteq fs \union gone
    BY <1>1
  <2>2. ASSUME NEW c \in (fs \union gone) \intersect Owed \intersect Computeds,
               NEW f \in Owed, c \in reads[f]
        PROVE  f \in fs \union gone
    <3>1. CASE f \in gone
      BY <3>1
    <3>2. CASE f \notin gone /\ c \in gone
      BY <1>1, <2>2, <3>2
    <3>3. CASE f \notin gone /\ c \notin gone
      BY <1>1, <2>2, <3>3
    <3> QED BY <3>1, <3>2, <3>3
  <2> QED BY <2>1, <2>2 DEF Closed
<1>3. Owed \subseteq fs \union gone
  <2>1. fs \union gone \in SUBSET Functions
    OBVIOUS
  <2> QED BY <1>2, <2>1 DEF Told
<1> QED
  BY <1>3

\* Nobody was told, nobody ran.
LEMMA ToldSame ==
  ASSUME TrackingInv, Told, Owed' = Owed,
         Owed \intersect ToTell(stack) \subseteq ToTell(stack'),
         \A f \in Owed : reads[f] \subseteq reads'[f]
  PROVE  Told'
<1>1. {} \in SUBSET Functions /\ Owed \ {} = Owed
  OBVIOUS
<1> QED
  BY <1>1, ToldKept

LEMMA OwedType == IInv => Owed \subseteq Functions /\ outdated \subseteq Functions
BY DEF Owed, IInv, TypeOK

\* A frame is pushed on a stack like this one.
LEMMA PushedAdds ==
  ASSUME NEW s \in Seq(FrameSet), LikeStack(s), NEW g \in FrameSet, g.kind \notin Code
  PROVE  /\ ToTell(<<g>> \o s) = ToTell(s) \union (IF g.kind = "trigger" THEN g.todo ELSE {})
         /\ RunFns(<<g>> \o s) = RunFns(stack) \union (IF g.kind = "run" THEN {g.fn} ELSE {})
         /\ NoGet(stack) /\ g.kind # "get" => NoGet(<<g>> \o s)
         /\ Calm(stack) /\ (g.kind = "trigger" => RunFns(stack) \subseteq Scheduled)
              => Calm(<<g>> \o s)
<1>1. /\ ToTell(<<g>> \o s) = ToTell(s) \union (IF g.kind = "trigger" THEN g.todo ELSE {})
      /\ RunFns(<<g>> \o s) = RunFns(s) \union (IF g.kind = "run" THEN {g.fn} ELSE {})
      /\ NoGet(<<g>> \o s) <=> NoGet(s) /\ g.kind # "get"
      /\ AllQueued(<<g>> \o s) <=> AllQueued(s) /\ QueuedCode(g)
      /\ Calm(<<g>> \o s) <=>
           /\ Calm(s) /\ (QueuedCode(g) => AllQueued(s))
           /\ g.kind = "trigger" => RunFns(s) \subseteq Scheduled
  BY FrameAdds
<1> QED
  BY <1>1 DEF LikeStack, QueuedCode

\* User code runs: it finds no computed that is owed, if there is just one;
\* and where only queued effects change something, no loop is around them.
LEMMA UserCodeSettles ==
  ASSUME TrackingInv, SettlingInv, CanAct
  PROVE  /\ stack # <<>> /\ stack \in Seq(FrameSet) /\ ~throwing
         /\ top.kind \in Code /\ ~Running({"trigger"}) /\ NoGet(stack)
         /\ LikeStack(Calling(<<>>)) /\ ToTell(Calling(<<>>)) = ToTell(stack)
         /\ ~threw /\ OneComputed => Owed \intersect Computeds = {}
         /\ ~threw /\ QuietEffects /\ top.fn \in Scheduled \union {None} =>
              AllQueued(stack) /\ Chain \subseteq Scheduled /\ ToTell(stack) = {} /\ Owed = {}
         /\ CanChange /\ QuietEffects => top.fn \in Scheduled \union {None}
<1>1. stack # <<>> /\ top.kind \in Code /\ ~throwing
  BY CanActTop DEF CanAct, Running
<1>2. stack \in Seq(FrameSet)
  BY DEF TrackingInv, IInv, TypeOK
<1>3. ~Running({"trigger"})
  BY <1>1 DEF Running, Code
<1>4. ~threw /\ OneComputed => Owed \intersect Computeds = {}
  BY <1>3 DEF SettlingInv, OneOK
<1>5. CanChange /\ QuietEffects => top.fn \in Scheduled \union {None}
  BY DEF CanChange, QuietEffects
<1>6. ASSUME ~threw, QuietEffects, top.fn \in Scheduled \union {None}
      PROVE  AllQueued(stack) /\ Chain \subseteq Scheduled /\ ToTell(stack) = {} /\ Owed = {}
  <2>1. QueuedCode(top)
    BY <1>1, <1>6 DEF QueuedCode
  <2>2. AllQueued(stack)
    BY <1>1, <1>2, <1>6, <2>1, TopAdds DEF SettlingInv, QuietOK
  <2>3. ToTell(stack) = {} /\ RunFns(stack) \subseteq Scheduled
    BY <1>2, <2>2, AllQueuedFacts
  <2>4. Owed = {}
    <3>1. Closed({}) /\ {} \in SUBSET Functions
      BY <2>3 DEF Closed
    <3> QED BY <1>6, <3>1 DEF SettlingInv, Told
  <2> QED BY <2>2, <2>3, <2>4, ChainIsRunFns
<1>7. NoGet(stack)
  BY <1>1, <1>2, TopAdds DEF SettlingInv, GetsOK, Code
<1> QED
  BY <1>1, <1>2, <1>3, <1>4, <1>5, <1>6, <1>7, CallingAdds

\* The frame at the top runs the active effect.
LEMMA TopIsRunning ==
  ASSUME stack \in Seq(FrameSet), stack # <<>>, top.kind = "run"
  PROVE  activeEffect = top.fn
<1> DEFINE f == top
           t == Tail(stack)
<1>1. f \in FrameSet /\ t \in Seq(FrameSet) /\ stack = <<f>> \o t /\ f.kind = "run"
  <2>1. stack = <<f>> \o t
    BY HeadTailProperties DEF top
  <2> QED BY <2>1, TopType
<1>2. RunsOf(t) \in Seq(Functions) /\ RunningEffects = RunsOf(stack)
  BY <1>1, RunsListed, RunningEffectsAreRuns
<1> HIDE DEF f, t
<1>3. RunsOf(<<f>> \o t) = Append(RunsOf(t), f.fn) /\ f.fn \in Functions
  BY <1>1, RunsBelowRun
<1>4. RunningEffects = Append(RunsOf(t), f.fn)
  BY <1>1, <1>2, <1>3
<1>5. Len(RunningEffects) # 0 /\ RunningEffects[Len(RunningEffects)] = f.fn
  BY <1>2, <1>3, <1>4
<1> QED
  BY <1>5, RunningEffectsFacts DEF f

LEMMA NoGetOK ==
  ASSUME stack' \in Seq(FrameSet), NoGet(stack') PROVE GetsOK'
<1>1. ASSUME stack' # <<>> PROVE NoGet(Tail(stack')) /\ Head(stack').kind # "get"
  <2>1. /\ Len(stack') \in Nat \ {0} /\ Len(Tail(stack')) = Len(stack') - 1
        /\ Head(stack') = stack'[1]
        /\ \A k \in 1..Len(Tail(stack')) : Tail(stack')[k] = stack'[k + 1]
    BY <1>1, HeadTailProperties, EmptySeq
  <2>2. 1 \in 1..Len(stack') /\ \A k \in 1..Len(Tail(stack')) : k + 1 \in 1..Len(stack')
    BY <2>1
  <2> QED BY <2>1, <2>2 DEF NoGet
<1> QED
  BY <1>1 DEF GetsOK, Running, top

LEMMA HeadOnTop ==
  ASSUME NEW g \in FrameSet, NEW s \in Seq(FrameSet), stack' = <<g>> \o s
  PROVE  stack' # <<>> /\ top' = g
<1> DEFINE t == <<g>> \o s
<1>1. t \in Seq(FrameSet) /\ Len(s) \in Nat /\ Len(t) = Len(s) + 1 /\ t[1] = g
  BY OnTop
<1> HIDE DEF t
<1>2. t # <<>> /\ Head(t) = g
  BY <1>1, EmptySeq
<1> QED
  BY <1>2 DEF top, t


LEMMA PushedGetOK ==
  ASSUME NEW g \in FrameSet, NEW s \in Seq(FrameSet), stack' = <<g>> \o s,
         NoGet(s), g.kind = "get" => dirty'[g.fn]
  PROVE  GetsOK'
<1>1. stack' # <<>> /\ top' = g
  BY HeadOnTop
<1>2. NoGet(Tail(stack'))
  <2>1. /\ stack' \in Seq(FrameSet) /\ Len(s) \in Nat /\ Len(stack') = Len(s) + 1
        /\ \A k \in 1..Len(s) : stack'[k + 1] = s[k]
    BY OnTop
  <2>2. /\ Len(Tail(stack')) = Len(stack') - 1
        /\ \A k \in 1..Len(Tail(stack')) : Tail(stack')[k] = stack'[k + 1]
    BY <1>1, <2>1, HeadTailProperties
  <2> QED BY <2>1, <2>2 DEF NoGet
<1> QED
  BY <1>1, <1>2 DEF GetsOK, Running

LEMMA ReadAdds ==
  ASSUME TrackingInv, SettlingInv, \/ \E k \in Keys : readKey(k)
                                   \/ \E c \in Computeds : readComputed(c)
  PROVE  /\ ToTell(stack') = ToTell(stack) /\ RunFns(stack') = RunFns(stack)
         /\ Calm(stack) => Calm(stack')
<1>0. CanAct
  BY DEF readKey, readComputed
<1>1. CASE stack' = Calling(<<>>)
  BY <1>0, <1>1, UserCodeSettles DEF LikeStack, SettlingInv
<1>2. ASSUME NEW c \in Computeds, stack' = Calling(<<Frame("get", c, {}, TRUE)>>)
      PROVE  /\ ToTell(stack') = ToTell(stack) /\ RunFns(stack') = RunFns(stack)
             /\ Calm(stack) => Calm(stack')
  <2> DEFINE get == Frame("get", c, {}, TRUE)
             s == Calling(<<>>)
  <2>1. get \in FrameSet /\ get.kind = "get" /\ get.kind \notin Code
    BY FrameType DEF Frame, Code
  <2>2. stack' = Calling(<<get>>)
    BY <1>2
  <2> HIDE DEF get
  <2>3. stack' = <<get>> \o s
    BY <1>0, <2>1, <2>2, UserCodeSettles, Called DEF TrackingInv, IInv, TypeOK
  <2>4. s \in Seq(FrameSet) /\ LikeStack(s) /\ ToTell(s) = ToTell(stack)
    BY <1>0, UserCodeSettles DEF LikeStack
  <2> HIDE DEF s
  <2> QED BY <2>1, <2>3, <2>4, PushedAdds DEF SettlingInv
<1> QED BY <1>1, <1>2 DEF readKey, readComputed

LEMMA ReadSettles ==
  ASSUME NoFeedback, TrackingInv, SettlingInv, \/ \E k \in Keys : readKey(k)
                                               \/ \E c \in Computeds : readComputed(c)
  PROVE  SettlingInv'
<1>0. CanAct
  BY DEF readKey, readComputed
<1>1. /\ UNCHANGED <<flags, dirty, jobs, control>>
      /\ \A f \in Functions : reads[f] \subseteq reads'[f]
  <2>1. UNCHANGED <<flags, dirty, jobs, control>>
    BY DEF readKey, readComputed
  <2>2. \E s : reads' = IF activeEffect # None /\ ~Paused
                        THEN [reads EXCEPT ![activeEffect] = @ \union {s}] ELSE reads
    BY DEF readKey, readComputed, track
  <2>3. \A f \in Functions : reads[f] \subseteq reads'[f]
    BY <2>2 DEF TrackingInv, IInv, TypeOK
  <2> QED BY <2>1, <2>3
<1>2. /\ ToTell(stack') = ToTell(stack) /\ RunFns(stack') = RunFns(stack)
      /\ Calm(stack) => Calm(stack')
  BY ReadAdds
<1>3. Chain' = Chain
  BY <1>2, ChainIsRunFns, NextChainIsRunFns
<1>4. ASSUME ~threw
      PROVE  Told' /\ (QuietEffects => QuietOK') /\ (OneComputed => OneOK')
  <2>1. QuietEffects =>
          /\ Calm(stack') /\ \A c \in Chain' \intersect Computeds : ~dirty'[c]
          /\ \A f \in Functions : deferStop'[f] => f \in Scheduled
    BY <1>1, <1>2, <1>3, <1>4 DEF SettlingInv, QuietOK, flags
  <2>2. CASE outdated' = outdated
    <3>1. Owed' = Owed
      BY <1>1, <2>2 DEF Owed, flags
    <3>2. Owed \subseteq Functions
      BY OwedType DEF TrackingInv
    <3>3. Told'
      BY <1>1, <1>2, <1>4, <3>1, <3>2, ToldSame DEF SettlingInv
    <3>4. OneComputed => OneOK'
      BY <1>0, <1>3, <1>4, <2>2, <3>1, UserCodeSettles DEF SettlingInv, OneOK
    <3>5. QuietEffects => QuietOK'
      BY <1>3, <1>4, <2>1, <2>2 DEF SettlingInv, QuietOK
    <3> QED BY <3>3, <3>4, <3>5
  <2>3. ASSUME NEW c \in Computeds, readComputed(c),
               c \in outdated, active[c], ~dirty[c], top.kind = "run",
               outdated' = outdated \union {activeEffect}
        PROVE  Told' /\ (QuietEffects => QuietOK') /\ (OneComputed => OneOK')
    <3> DEFINE r == activeEffect
    <3>1. c \in Owed
      <4>1. c \notin jobs
        BY FunctionsAssumption DEF TrackingInv, IInv, TypeOK
      <4> QED BY <2>3, <4>1 DEF Owed
    <3>2. OneComputed => OneOK'
      BY <1>0, <1>4, <3>1, UserCodeSettles
    <3>3. r \in Functions /\ c \in reads'[r] /\ r = top.fn
      <4>1. stack \in Seq(FrameSet) /\ stack # <<>>
        BY <1>0, UserCodeSettles
      <4>2. r \in Functions /\ r = top.fn
        BY <2>3, <4>1, TopIsActive, TopIsRunning
      <4>3. ~Paused
        <5>1. 1 \in RunFrames
          <6>1. Len(stack) \in Nat \ {0} /\ top = stack[1]
            BY <4>1, EmptySeq, HeadTailProperties DEF top
          <6>2. 1 \in 1..Len(stack)
            BY <6>1
          <6> QED BY <2>3, <6>1, <6>2 DEF RunFrames
        <5> QED BY <5>1 DEF Paused
      <4>4. r # None
        BY <4>2, FunctionsAssumption
      <4>5. reads' = [reads EXCEPT ![r] = @ \union {c}]
        BY <2>3, <4>3, <4>4 DEF readComputed, track
      <4> HIDE DEF r
      <4> QED BY <4>2, <4>5 DEF TrackingInv, IInv, TypeOK
    <3>4. Owed \subseteq Owed' /\ Owed' \subseteq Owed \union {r}
      BY <1>1, <2>3 DEF Owed, flags
    <3> HIDE DEF r
    <3>5. Told'
      <4> SUFFICES ASSUME NEW fs \in SUBSET Functions, Closed(fs)' PROVE Owed' \subseteq fs
        BY DEF Told
      <4>1. /\ Owed' \intersect ToTell(stack') \subseteq fs
            /\ \A d \in fs \intersect Owed' \intersect Computeds, f \in Owed' :
                 d \in reads'[f] => f \in fs
        BY DEF Closed
      <4>2. Closed(fs)
        <5>1. Owed \intersect ToTell(stack) \subseteq fs
          BY <1>2, <3>4, <4>1
        <5>2. ASSUME NEW d \in fs \intersect Owed \intersect Computeds, NEW f \in Owed, d \in reads[f]
              PROVE  f \in fs
          <6>1. d \in reads'[f]
            BY <1>1, <5>2, OwedType DEF TrackingInv
          <6> QED BY <3>4, <4>1, <6>1
        <5> QED BY <5>1, <5>2 DEF Closed
      <4>3. Owed \subseteq fs
        BY <1>4, <4>2 DEF SettlingInv, Told
      <4>4. r \in Owed' => r \in fs
        BY <3>1, <3>3, <3>4, <4>1, <4>3
      <4> QED BY <3>4, <4>3, <4>4
    <3>6. QuietEffects => QuietOK'
      <4>1. QuietEffects => r \notin Scheduled
        BY <1>0, <1>4, <3>1, <3>3, UserCodeSettles
      <4> QED BY <1>3, <1>4, <2>1, <2>3, <4>1 DEF SettlingInv, QuietOK, r
    <3> QED BY <3>2, <3>5, <3>6
  <2> QED
    BY <2>2, <2>3 DEF readKey, readComputed
<1>5. GetsOK'
  <2>1. NoGet(Calling(<<>>)) /\ Calling(<<>>) \in Seq(FrameSet)
    BY <1>0, UserCodeSettles DEF LikeStack
  <2>2. CASE stack' = Calling(<<>>)
    BY <2>1, <2>2, NoGetOK
  <2>3. ASSUME NEW c \in Computeds, dirty[c], stack' = Calling(<<Frame("get", c, {}, TRUE)>>)
        PROVE  GetsOK'
    <3> DEFINE get == Frame("get", c, {}, TRUE)
               s == Calling(<<>>)
    <3>1. get \in FrameSet /\ get.fn = c
      BY FrameType DEF Frame
    <3>2. stack' = Calling(<<get>>)
      BY <2>3
    <3> HIDE DEF get
    <3>3. stack' = <<get>> \o s
      BY <1>0, <3>1, <3>2, UserCodeSettles, Called DEF TrackingInv, IInv, TypeOK
    <3>4. dirty'[get.fn]
      BY <1>1, <2>3, <3>1
    <3>5. s \in Seq(FrameSet) /\ NoGet(s)
      BY <2>1
    <3> HIDE DEF s
    <3> QED BY <3>1, <3>3, <3>4, <3>5, PushedGetOK
  <2>4. \/ stack' = Calling(<<>>)
        \/ \E c \in Computeds : dirty[c] /\ stack' = Calling(<<Frame("get", c, {}, TRUE)>>)
    BY DEF readKey, readComputed
  <2> QED BY <2>2, <2>3, <2>4
<1> QED
  BY <1>1, <1>2, <1>4, <1>5 DEF SettlingInv, control

\* Affected() is the smallest set of its kind.
LEMMA AffectedFacts ==
  ASSUME IInv, NEW ks \in SUBSET Keys
  PROVE  /\ Affected(ks) \in SUBSET Functions
         /\ \A f \in Affected(ks) : active[f] /\ f \notin Chain
         /\ \A fs \in SUBSET Functions :
              Readers(ks \union {c \in fs \intersect Computeds : ~dirty[c]}) \subseteq fs
                => Affected(ks) \subseteq fs
         /\ Readers(ks \union {c \in Affected(ks) \intersect Computeds : ~dirty[c]})
              \subseteq Affected(ks)
<1> DEFINE closed(fs) == Readers(ks \union {c \in fs \intersect Computeds : ~dirty[c]}) \subseteq fs
           A == Affected(ks)
<1>1. A = {f \in Functions : \A fs \in SUBSET Functions : closed(fs) => f \in fs}
  BY DEF Affected
<1> HIDE DEF A
<1>2. \A fs \in SUBSET Functions : closed(fs) => A \subseteq fs
  <2> HIDE DEF closed
  <2> QED BY <1>1
<1>3. A \in SUBSET Functions
  BY <1>1
<1>4. \A f \in A : active[f] /\ f \notin Chain
  <2> DEFINE fs == {f \in Functions : active[f] /\ f \notin Chain}
  <2>1. closed(fs)
    BY DEF Readers
  <2>2. fs \in SUBSET Functions
    OBVIOUS
  <2>3. A \subseteq fs
    <3> HIDE DEF closed, fs
    <3> QED BY <1>2, <2>1, <2>2
  <2> QED BY <2>3
<1>5. closed(A)
  <2> SUFFICES ASSUME NEW f \in Readers(ks \union {c \in A \intersect Computeds : ~dirty[c]})
               PROVE  f \in A
    OBVIOUS
  <2>1. f \in Functions
    BY DEF Readers
  <2>2. ASSUME NEW fs \in SUBSET Functions, closed(fs) PROVE f \in fs
    <3>1. A \subseteq fs
      <4> HIDE DEF closed
      <4> QED BY <1>2, <2>2
    <3>2. f \in Readers(ks \union {c \in fs \intersect Computeds : ~dirty[c]})
      BY <3>1 DEF Readers
    <3> QED BY <2>2, <3>2
  <2> HIDE DEF closed
  <2> QED BY <1>1, <2>1, <2>2
<1> QED
  BY <1>2, <1>3, <1>4, <1>5 DEF A

LEMMA WriteAdds ==
  ASSUME TrackingInv, SettlingInv, NEW ks \in SUBSET Keys, write(ks) \/ mutateArray(ks)
  PROVE  LET todo == UNION {dep[k] : k \in ks}
         IN  /\ stack' \in Seq(FrameSet)
             /\ ToTell(stack') = ToTell(stack) \union todo /\ RunFns(stack') = RunFns(stack)
             /\ NoGet(stack')
             /\ Calm(stack) /\ RunFns(stack) \subseteq Scheduled => Calm(stack')
             /\ Running({"trigger"})' /\ top'.todo = todo
<1> DEFINE todo == UNION {dep[k] : k \in ks}
           trigger == Frame("trigger", None, todo, TRUE)
           paused == Frame("paused", None, {}, shouldTrack)
           s == Calling(<<>>)
<1>0. CanAct
  BY DEF write, mutateArray, CanChange
<1>1. /\ trigger \in FrameSet /\ trigger.kind = "trigger" /\ trigger.todo = todo
      /\ paused \in FrameSet /\ paused.kind = "paused"
      /\ trigger.kind \notin Code /\ paused.kind \notin Code
  <2>1. todo \in SUBSET Functions
    BY DEF TrackingInv, IInv, TypeOK, Sources
  <2> QED
    BY <2>1, FrameType DEF Frame, Code, TrackingInv, IInv, TypeOK
<1>2. stack' = Calling(<<trigger>>) \/ stack' = Calling(<<trigger, paused>>)
  BY DEF write, mutateArray
<1> HIDE DEF trigger, paused
<1>3. /\ s \in Seq(FrameSet) /\ LikeStack(s) /\ ToTell(s) = ToTell(stack)
      /\ Calling(<<trigger>>) = <<trigger>> \o s
      /\ Calling(<<trigger, paused>>) = <<trigger>> \o (<<paused>> \o s)
  BY <1>0, <1>1, UserCodeSettles, Called DEF LikeStack, TrackingInv, IInv, TypeOK
<1> HIDE DEF s
<1>4. PICK below \in Seq(FrameSet) :
        /\ stack' = <<trigger>> \o below
        /\ ToTell(below) = ToTell(stack) /\ RunFns(below) = RunFns(stack)
        /\ NoGet(below) /\ (Calm(stack) => Calm(below))
  <2>1. /\ NoGet(stack) /\ NoGet(s) /\ RunFns(s) = RunFns(stack)
        /\ Calm(stack) => Calm(s)
    BY <1>0, <1>3, UserCodeSettles DEF LikeStack, SettlingInv
  <2>2. CASE stack' = Calling(<<trigger>>)
    BY <1>3, <2>1, <2>2
  <2>3. CASE stack' = Calling(<<trigger, paused>>)
    <3> DEFINE below == <<paused>> \o s
    <3>1. /\ ToTell(below) = ToTell(stack) /\ RunFns(below) = RunFns(stack)
          /\ NoGet(below) /\ (Calm(stack) => Calm(below))
      BY <1>1, <1>3, <2>1, PushedAdds DEF SettlingInv
    <3>2. below \in Seq(FrameSet) /\ stack' = <<trigger>> \o below
      BY <1>1, <1>3, <2>3, OnTop
    <3> QED BY <3>1, <3>2
  <2> QED BY <1>2, <2>2, <2>3
<1>5. /\ ToTell(stack') = ToTell(stack) \union todo /\ RunFns(stack') = RunFns(stack)
      /\ NoGet(stack')
      /\ Calm(stack) /\ RunFns(stack) \subseteq Scheduled => Calm(stack')
  <2> DEFINE t == <<trigger>> \o below
  <2>1. /\ ToTell(t) = ToTell(below) \union (IF trigger.kind = "trigger" THEN trigger.todo ELSE {})
        /\ RunFns(t) = RunFns(below) \union (IF trigger.kind = "run" THEN {trigger.fn} ELSE {})
        /\ AllQueued(t) <=> AllQueued(below) /\ QueuedCode(trigger)
        /\ NoGet(t) <=> NoGet(below) /\ trigger.kind # "get"
        /\ Calm(t) <=>
             /\ Calm(below) /\ (QueuedCode(trigger) => AllQueued(below))
             /\ trigger.kind = "trigger" => RunFns(below) \subseteq Scheduled
    BY <1>1, FrameAdds
  <2> HIDE DEF todo
  <2> QED BY <1>1, <1>4, <2>1 DEF QueuedCode
<1>6. Running({"trigger"})' /\ top'.todo = todo
  <2> HIDE DEF todo
  <2>1. stack' # <<>> /\ top' = trigger
    BY <1>1, <1>4, HeadOnTop
  <2> QED BY <1>1, <2>1 DEF Running
<1>7. stack' \in Seq(FrameSet)
  BY <1>1, <1>4, OnTop
<1> QED
  BY <1>5, <1>6, <1>7

\* The loop of triggerEffects has all that the change makes outdated on its
\* list, or a computed that will tell them.
LEMMA WriteSettles ==
  ASSUME NoFeedback, TrackingInv, SettlingInv, NEW ks \in SUBSET Keys,
         write(ks) \/ mutateArray(ks)
  PROVE  SettlingInv'
<1> DEFINE todo == UNION {dep[k] : k \in ks}
           A == Affected(ks)
<1>0. CanAct /\ CanChange
  BY DEF write, mutateArray, CanChange
<1>1. /\ UNCHANGED <<tracking, flags, dirty, jobs, control>>
      /\ outdated' = outdated \union A
  BY DEF write, mutateArray
<1>2. /\ stack' \in Seq(FrameSet)
      /\ ToTell(stack') = ToTell(stack) \union todo /\ RunFns(stack') = RunFns(stack)
      /\ NoGet(stack')
      /\ Calm(stack) /\ RunFns(stack) \subseteq Scheduled => Calm(stack')
      /\ Running({"trigger"})' /\ top'.todo = todo
  BY WriteAdds
<1>3. Chain' = Chain
  BY <1>2, ChainIsRunFns, NextChainIsRunFns
<1>4. /\ A \in SUBSET Functions
      /\ \A f \in A : active[f] /\ f \notin Chain
      /\ \A fs \in SUBSET Functions :
           Readers(ks \union {c \in fs \intersect Computeds : ~dirty[c]}) \subseteq fs
             => A \subseteq fs
      /\ Readers(ks \union {c \in A \intersect Computeds : ~dirty[c]}) \subseteq A
  BY AffectedFacts DEF TrackingInv
<1> HIDE DEF A
<1>5. \A f \in Readers(ks) : f \in todo
  <2> SUFFICES ASSUME NEW f \in Readers(ks) PROVE f \in todo
    OBVIOUS
  <2>1. PICK k \in ks : f \in Functions /\ active[f] /\ k \in reads[f]
    BY DEF Readers
  <2>2. k \in Sources
    BY DEF Sources
  <2> QED BY <2>1, <2>2, ReadersHear
<1>6. Owed \subseteq Owed' /\ Owed' \subseteq Owed \union A /\ Computeds \intersect jobs = {}
  BY <1>1, FunctionsAssumption DEF Owed, flags, TrackingInv, IInv, TypeOK
<1>7. ASSUME ~threw PROVE Told'
  <2> SUFFICES ASSUME NEW fs \in SUBSET Functions, Closed(fs)' PROVE Owed' \subseteq fs
    BY DEF Told
  <2>1. /\ Owed' \intersect ToTell(stack') \subseteq fs
        /\ \A c \in fs \intersect Owed' \intersect Computeds, f \in Owed' :
             c \in reads[f] => f \in fs
    BY <1>1 DEF Closed, tracking
  <2>2. Owed \subseteq fs
    <3>1. Closed(fs)
      BY <1>2, <1>6, <2>1 DEF Closed
    <3> QED BY <1>7, <3>1 DEF SettlingInv, Told
  <2> DEFINE gs == {f \in A : f \in Owed' => f \in fs}
  <2>3. ASSUME NEW f \in Readers(ks \union {c \in gs \intersect Computeds : ~dirty[c]})
        PROVE  f \in gs
    <3>1. f \in A
      BY <1>4 DEF Readers
    <3>2. CASE f \in Readers(ks)
      BY <1>2, <1>5, <2>1, <3>1, <3>2
    <3>3. CASE f \notin Readers(ks)
      <4>1. PICK c \in gs \intersect Computeds : ~dirty[c] /\ c \in reads[f]
        BY <3>3 DEF Readers
      <4>2. c \in Owed'
        BY <1>1, <1>4, <1>6, <4>1 DEF Owed, flags
      <4> QED BY <2>1, <3>1, <4>1, <4>2
    <3> QED BY <3>2, <3>3
  <2>4. gs \in SUBSET Functions
    BY <1>4
  <2> HIDE DEF gs
  <2>5. A \subseteq gs
    BY <1>4, <2>3, <2>4
  <2> QED BY <1>6, <2>2, <2>5 DEF gs
<1>8. ASSUME ~threw, QuietEffects PROVE QuietOK'
  <2>1. RunFns(stack) \subseteq Scheduled
    BY <1>0, <1>8, UserCodeSettles, ChainIsRunFns
  <2>2. outdated' \intersect Chain' \intersect Scheduled = {}
    BY <1>1, <1>3, <1>4, <1>8 DEF SettlingInv, QuietOK
  <2> QED BY <1>1, <1>2, <1>3, <1>8, <2>1, <2>2 DEF SettlingInv, QuietOK, flags
<1>9. ASSUME ~threw, OneComputed PROVE OneOK'
  <2>1. outdated' \intersect Chain' = {}
    BY <1>1, <1>3, <1>4, <1>9 DEF SettlingInv, OneOK
  <2>2. ASSUME NEW c \in Owed' \intersect Computeds PROVE c \in todo
    <3>1. c \in A /\ c \in Functions
      BY <1>0, <1>6, <1>9, UserCodeSettles DEF Functions
    <3>2. CASE c \in Readers(ks)
      BY <1>5, <3>2
    <3>3. CASE c \notin Readers(ks)
      <4> DEFINE fs == Functions \ {c}
      <4>1. ks \union {d \in fs \intersect Computeds : ~dirty[d]} = ks
        BY <1>9 DEF OneComputed
      <4>2. Readers(ks \union {d \in fs \intersect Computeds : ~dirty[d]}) \subseteq fs
        <5>1. Readers(ks) \subseteq fs
          BY <3>3 DEF Readers
        <5> HIDE DEF fs
        <5> QED BY <4>1, <5>1
      <4>3. fs \in SUBSET Functions /\ c \notin fs
        OBVIOUS
      <4> HIDE DEF fs
      <4> QED BY <1>4, <3>1, <4>2, <4>3
    <3> QED BY <3>2, <3>3
  <2> QED BY <1>2, <2>1, <2>2 DEF OneOK
<1>10. GetsOK'
  BY <1>2, NoGetOK
<1> QED
  BY <1>1, <1>2, <1>7, <1>8, <1>9, <1>10 DEF SettlingInv, control

\* What run() does to the stack and to the history.
LEMMA RunAdds ==
  ASSUME IInv, NEW f \in Functions, NEW below \in Seq(FrameSet), run(f, below)
  PROVE  /\ stack' \in Seq(FrameSet) /\ ToTell(stack') = ToTell(below)
         /\ NoGet(below) => NoGet(stack')
         /\ Calm(below) /\ (f \in Scheduled => AllQueued(below)) => Calm(stack')
         /\ \/ /\ ~active[f] \/ f \in Chain
               /\ UNCHANGED <<reads, outdated>> /\ RunFns(stack') = RunFns(below)
            \/ /\ active[f] /\ f \notin Chain
               /\ reads' = [reads EXCEPT ![f] = {}] /\ outdated' = outdated \ {f}
               /\ RunFns(stack') = RunFns(below) \union {f}
<1>1. ASSUME NEW g \in FrameSet, g.kind \in {"run", "call"}, g.fn = f
      PROVE  /\ <<g>> \o below \in Seq(FrameSet) /\ ToTell(<<g>> \o below) = ToTell(below)
             /\ NoGet(below) => NoGet(<<g>> \o below)
             /\ Calm(below) /\ (f \in Scheduled => AllQueued(below)) => Calm(<<g>> \o below)
             /\ RunFns(<<g>> \o below) =
                  RunFns(below) \union (IF g.kind = "run" THEN {g.fn} ELSE {})
  <2>1. /\ ToTell(<<g>> \o below) = ToTell(below) \union (IF g.kind = "trigger" THEN g.todo ELSE {})
        /\ RunFns(<<g>> \o below) = RunFns(below) \union (IF g.kind = "run" THEN {g.fn} ELSE {})
        /\ AllQueued(<<g>> \o below) <=> AllQueued(below) /\ QueuedCode(g)
        /\ NoGet(<<g>> \o below) <=> NoGet(below) /\ g.kind # "get"
        /\ Calm(<<g>> \o below) <=>
             /\ Calm(below) /\ (QueuedCode(g) => AllQueued(below))
             /\ g.kind = "trigger" => RunFns(below) \subseteq Scheduled
    BY FrameAdds
  <2>2. <<g>> \o below \in Seq(FrameSet)
    BY OnTop
  <2>3. QueuedCode(g) => f \in Scheduled
    BY <1>1, FunctionsAssumption DEF QueuedCode
  <2> QED BY <1>1, <2>1, <2>2, <2>3
<1>2. CASE ~active[f]
  <2> DEFINE g == Frame("call", f, {}, TRUE)
  <2>1. g \in FrameSet /\ g.kind = "call" /\ g.fn = f
    BY FrameType DEF Frame
  <2>2. stack' = <<g>> \o below /\ UNCHANGED <<reads, outdated>>
    BY <1>2 DEF run, tracking
  <2> HIDE DEF g
  <2> QED BY <1>1, <1>2, <2>1, <2>2
<1>3. CASE active[f] /\ f \in Chain
  BY <1>3 DEF run, tracking
<1>4. CASE active[f] /\ f \notin Chain
  <2> DEFINE g == Frame("run", f, {}, shouldTrack)
  <2>1. g \in FrameSet /\ g.kind = "run" /\ g.fn = f
    BY FrameType DEF Frame, IInv, TypeOK
  <2>2. /\ stack' = <<g>> \o below
        /\ reads' = [reads EXCEPT ![f] = {}] /\ outdated' = outdated \ {f}
    BY <1>4 DEF run
  <2> HIDE DEF g
  <2> QED BY <1>1, <1>4, <2>1, <2>2
<1> QED
  BY <1>2, <1>3, <1>4

\* A function that is run is not outdated any more.
LEMMA RunSettles ==
  ASSUME NoFeedback, TrackingInv, SettlingInv,
         NEW f \in Functions, NEW below \in Seq(FrameSet), run(f, below),
         UNCHANGED <<flags, control>>,
         \A g \in Functions \ {f} : g \in jobs' <=> g \in jobs,
         \A c \in Computeds \ {f} : dirty'[c] = dirty[c],
         NoGet(below), RunFns(below) = RunFns(stack),
         f \in Computeds => ~dirty'[f] /\ f \notin Owed,
         Owed \intersect ToTell(stack) \subseteq ToTell(below) \union {f},
         ~threw /\ f \in Chain => f \notin outdated,
         ~threw /\ QuietEffects => Calm(below) /\ (f \in Scheduled => AllQueued(below)),
         ~threw /\ OneComputed => Owed \intersect Computeds = {}
  PROVE  SettlingInv'
<1>1. /\ stack' \in Seq(FrameSet) /\ ToTell(stack') = ToTell(below)
      /\ NoGet(stack')
      /\ Calm(below) /\ (f \in Scheduled => AllQueued(below)) => Calm(stack')
      /\ \/ /\ ~active[f] \/ f \in Chain
            /\ UNCHANGED <<reads, outdated>> /\ RunFns(stack') = RunFns(below)
         \/ /\ active[f] /\ f \notin Chain
            /\ reads' = [reads EXCEPT ![f] = {}] /\ outdated' = outdated \ {f}
            /\ RunFns(stack') = RunFns(below) \union {f}
  BY RunAdds DEF TrackingInv
<1>2. \/ Chain' = Chain /\ outdated' = outdated
      \/ Chain' = Chain \union {f} /\ outdated' = outdated \ {f}
  BY <1>1, ChainIsRunFns, NextChainIsRunFns
<1>3. active' = active /\ deferStop' = deferStop /\ throwing' = throwing /\ threw' = threw
  BY DEF flags, control
<1>4. /\ Owed \subseteq Functions /\ outdated \subseteq Functions
      /\ reads \in [Functions -> SUBSET Sources]
  BY OwedType DEF TrackingInv, IInv, TypeOK
<1>5. ASSUME ~threw PROVE Owed' = Owed \ {f}
  <2>1. f \notin Owed'
    <3>1. ~active'[f] \/ f \notin outdated'
      BY <1>1, <1>3, <1>5
    <3> QED BY <3>1 DEF Owed
  <2>2. ASSUME NEW g \in Functions, g # f PROVE g \in Owed' <=> g \in Owed
    <3>1. g \in outdated' <=> g \in outdated
      BY <1>1, <2>2
    <3>2. g \in Computeds => dirty'[g] = dirty[g]
      BY <2>2
    <3> QED BY <1>3, <2>2, <3>1, <3>2 DEF Owed
  <2>3. Owed' \subseteq Functions
    BY <1>1, <1>4 DEF Owed
  <2> QED BY <1>4, <2>1, <2>2, <2>3
<1>6. ASSUME ~threw PROVE Told'
  <2> DEFINE gone == {f}
  <2>1. gone \in SUBSET Functions /\ Owed' = Owed \ gone
    BY <1>5, <1>6
  <2>2. (Owed \intersect ToTell(stack)) \ gone \subseteq ToTell(stack')
    BY <1>1
  <2>3. \A g \in Owed \ gone : reads[g] \subseteq reads'[g]
    BY <1>1, <1>4
  <2>4. \A c \in gone \intersect Owed \intersect Computeds, g \in Owed \ gone :
          c \in reads[g] => g \in ToTell(stack')
    OBVIOUS
  <2>5. Told
    BY <1>6 DEF SettlingInv
  <2> HIDE DEF gone
  <2> QED BY <2>1, <2>2, <2>3, <2>4, <2>5, ToldKept
<1>7. ASSUME ~threw, QuietEffects PROVE QuietOK'
  <2>1. Calm(stack') /\ outdated' \intersect Chain' \intersect Scheduled = {}
    BY <1>1, <1>2, <1>7 DEF SettlingInv, QuietOK
  <2>2. ASSUME NEW c \in Chain' \intersect Computeds PROVE ~dirty'[c]
    <3>1. CASE c = f
      BY <3>1
    <3>2. CASE c # f
      BY <1>2, <1>7, <3>2 DEF SettlingInv, QuietOK
    <3> QED BY <3>1, <3>2
  <2>3. \A g \in Functions : deferStop'[g] => g \in Scheduled
    BY <1>3, <1>7 DEF SettlingInv, QuietOK
  <2> QED BY <2>1, <2>2, <2>3 DEF QuietOK
<1>8. ASSUME ~threw, OneComputed PROVE OneOK'
  <2>1. outdated' \intersect Chain' = {}
    BY <1>2, <1>8 DEF SettlingInv, OneOK
  <2>2. Owed' \intersect Computeds = {}
    BY <1>5, <1>8
  <2> QED BY <2>1, <2>2 DEF OneOK
<1>9. GetsOK'
  BY <1>1, NoGetOK
<1> QED
  BY <1>1, <1>3, <1>6, <1>7, <1>8, <1>9 DEF SettlingInv

LEMMA CallRunnerSettles ==
  ASSUME NoFeedback, TrackingInv, SettlingInv,
         NEW f \in Effects \union Scheduled, callRunner(f)
  PROVE  SettlingInv'
<1> DEFINE s == Calling(<<>>)
<1>1. /\ CanAct /\ CanChange /\ run(f, s)
      /\ UNCHANGED <<flags, dirty, jobs, control>>
  BY DEF callRunner, CanChange
<1>2. /\ LikeStack(s) /\ ToTell(s) = ToTell(stack) /\ NoGet(stack)
      /\ ~threw /\ OneComputed => Owed \intersect Computeds = {}
      /\ ~threw /\ QuietEffects => AllQueued(stack) /\ Chain \subseteq Scheduled
  BY <1>1, UserCodeSettles
<1>3. f \in Functions /\ f \notin Computeds
  BY FunctionsAssumption DEF Functions
<1>4. s \in Seq(FrameSet) /\ NoGet(s) /\ RunFns(s) = RunFns(stack)
  BY <1>2 DEF LikeStack
<1>5. ~threw /\ f \in Chain => f \notin outdated
  BY <1>2 DEF NoFeedback, SettlingInv, QuietOK, OneOK
<1>6. ~threw /\ QuietEffects => Calm(s) /\ AllQueued(s)
  BY <1>2 DEF LikeStack, SettlingInv, QuietOK
<1>7. UNCHANGED <<flags, control>> /\ dirty' = dirty /\ jobs' = jobs
  BY <1>1
<1> HIDE DEF s
<1> QED
  BY <1>1, <1>2, <1>3, <1>4, <1>5, <1>6, <1>7, RunSettles

LEMMA GetSettles ==
  ASSUME NoFeedback, TrackingInv, SettlingInv, Get
  PROVE  SettlingInv'
<1> DEFINE c == top.fn
           below == Tail(stack)
<1>1. /\ stack # <<>> /\ top.kind = "get" /\ run(c, below)
      /\ dirty' = [dirty EXCEPT ![c] = FALSE]
      /\ UNCHANGED <<flags, control>> /\ jobs' = jobs
  BY DEF Get, Running
<1>2. stack \in Seq(FrameSet) /\ dirty \in [Computeds -> BOOLEAN]
  BY DEF TrackingInv, IInv, TypeOK
<1>3. c \in Computeds /\ c \in Functions /\ below \in Seq(FrameSet)
  BY <1>1, <1>2, TopType DEF Functions
<1>4. /\ ToTell(stack) = ToTell(below) /\ RunFns(below) = RunFns(stack)
      /\ NoGet(below) /\ (Calm(stack) => Calm(below))
  BY <1>1, <1>2, TopAdds DEF SettlingInv, GetsOK
<1>5. dirty[c] /\ c \notin Owed
  <2>1. dirty[c]
    BY <1>1 DEF SettlingInv, GetsOK, Running
  <2> QED BY <1>3, <2>1 DEF Owed
<1>6. ~threw /\ c \in Chain => c \notin outdated
  BY <1>3, <1>5 DEF NoFeedback, SettlingInv, QuietOK, OneOK
<1>7. c \notin Scheduled /\ (~threw /\ QuietEffects => Calm(below))
  BY <1>3, <1>4, FunctionsAssumption DEF SettlingInv, QuietOK
<1>8. ~threw /\ OneComputed => Owed \intersect Computeds = {}
  <2>1. ~Running({"trigger"})
    BY <1>1 DEF Running
  <2> QED BY <2>1 DEF SettlingInv, OneOK
<1>9. ~dirty'[c] /\ \A d \in Computeds \ {c} : dirty'[d] = dirty[d]
  BY <1>1, <1>2, <1>3
<1> HIDE DEF c, below
<1> QED
  BY <1>1, <1>3, <1>4, <1>5, <1>6, <1>7, <1>8, <1>9, RunSettles

LEMMA RunJobSettles ==
  ASSUME NoFeedback, TrackingInv, SettlingInv, NEW f \in Functions, RunJob(f)
  PROVE  SettlingInv'
<1> DEFINE none == <<>>
<1>1. /\ stack = <<>> /\ jobs' = jobs \ {f} /\ dirty' = dirty
      /\ UNCHANGED <<flags, control>> /\ f \in jobs
  BY DEF RunJob
<1>2. f \notin Computeds
  BY <1>1, FunctionsAssumption DEF TrackingInv, IInv, TypeOK
<1>3. none \in Seq(FrameSet) /\ Len(none) = 0 /\ stack = none
  BY <1>1
<1>4. active[f] => run(f, none)
  BY DEF RunJob
<1>5. ~active[f] => UNCHANGED <<tracking, stack, outdated>>
  BY DEF RunJob
<1> HIDE DEF none
<1>6. ToTell(none) = {} /\ RunFns(none) = {} /\ AllQueued(none) /\ NoGet(none) /\ Calm(none)
  BY <1>3, NoFrameAdds
<1>7. Chain = {} /\ ~Running({"trigger"})
  BY <1>1, <1>3, <1>6, ChainIsRunFns DEF Running
<1>8. CASE active[f]
  <2>1. ~threw /\ OneComputed => Owed \intersect Computeds = {}
    BY <1>7 DEF SettlingInv, OneOK
  <2> QED
    BY <1>1, <1>2, <1>3, <1>4, <1>6, <1>7, <1>8, <2>1, RunSettles
<1>9. CASE ~active[f]
  <2>1. UNCHANGED <<reads, stack, outdated, dirty, flags, control>>
    BY <1>1, <1>5, <1>9 DEF tracking
  <2>2. Owed' = Owed /\ Chain' = Chain
    <3>1. Chain' = Chain
      BY <2>1, ChainIsRunFns, NextChainIsRunFns
    <3> QED BY <1>1, <1>9, <2>1, <3>1 DEF Owed, flags
  <2>3. ~threw => Told'
    <3>1. Owed \subseteq Functions
      BY OwedType DEF TrackingInv
    <3> QED BY <2>1, <2>2, <3>1, ToldSame DEF SettlingInv
  <2>4. GetsOK'
    BY <1>3, <1>6, <2>1, NoGetOK
  <2>5. ~threw => (QuietEffects => QuietOK') /\ (OneComputed => OneOK')
    BY <2>1, <2>2 DEF SettlingInv, QuietOK, OneOK, flags, Running, top
  <2> QED BY <2>1, <2>3, <2>4, <2>5 DEF SettlingInv, control
<1> QED
  BY <1>8, <1>9

\* The functions that stop are owed nothing; none of them owed it to others.
LEMMA StoppedSettles ==
  ASSUME TrackingInv, Told, UNCHANGED <<reads, dirty, jobs, outdated>>,
         ToTell(stack') = ToTell(stack), NEW gone \in SUBSET Functions,
         \A f \in Functions : active'[f] = (active[f] /\ f \notin gone),
         gone \intersect Owed \intersect Computeds = {}
  PROVE  Owed' = Owed \ gone /\ Told'
<1>1. Owed \subseteq Functions /\ outdated \subseteq Functions
  BY OwedType DEF TrackingInv
<1>2. Owed' = Owed \ gone
  <2>1. Owed' \subseteq Functions
    BY <1>1 DEF Owed
  <2>2. \A f \in Functions : f \in Owed' <=> f \in Owed /\ f \notin gone
    BY DEF Owed
  <2> QED BY <1>1, <2>1, <2>2
<1>3. \A f \in Owed \ gone : reads[f] \subseteq reads'[f]
  OBVIOUS
<1>4. \A c \in gone \intersect Owed \intersect Computeds, f \in Owed \ gone :
        c \in reads[f] => f \in ToTell(stack')
  OBVIOUS
<1>5. (Owed \intersect ToTell(stack)) \ gone \subseteq ToTell(stack')
  OBVIOUS
<1> QED
  BY <1>2, <1>3, <1>4, <1>5, ToldKept

LEMMA ActiveInChain ==
  ASSUME stack \in Seq(FrameSet), NEW f \in Functions, f = activeEffect
  PROVE  f \in Chain
<1>1. activeEffect # None
  BY FunctionsAssumption
<1>2. /\ Len(RunningEffects) \in Nat
      /\ Chain = {RunningEffects[d] : d \in 1..Len(RunningEffects)}
      /\ Len(RunningEffects) # 0
      /\ activeEffect = RunningEffects[Len(RunningEffects)]
  BY <1>1, RunningEffectsFacts
<1>3. Len(RunningEffects) \in 1..Len(RunningEffects)
  BY <1>2
<1> QED
  BY <1>2, <1>3

LEMMA StopSettles ==
  ASSUME NoFeedback, TrackingInv, SettlingInv, NEW f \in Functions, stop(f)
  PROVE  SettlingInv'
<1> DEFINE s == Calling(<<>>)
<1>1. /\ CanAct /\ CanChange /\ stack' = s
      /\ UNCHANGED <<reads, dirty, jobs, control, outdated>>
  BY DEF stop, CanChange
<1>2. /\ LikeStack(s) /\ ToTell(s) = ToTell(stack) /\ NoGet(stack)
      /\ ~threw /\ OneComputed => Owed \intersect Computeds = {}
      /\ ~threw /\ QuietEffects => Chain \subseteq Scheduled /\ Owed = {}
  BY <1>1, UserCodeSettles
<1>3. /\ stack' \in Seq(FrameSet) /\ ToTell(stack') = ToTell(stack)
      /\ NoGet(stack') /\ RunFns(stack') = RunFns(stack) /\ (Calm(stack) => Calm(stack'))
  BY <1>1, <1>2 DEF LikeStack
<1> HIDE DEF s
<1>4. Chain' = Chain
  BY <1>3, ChainIsRunFns, NextChainIsRunFns
<1>5. PICK gone \in SUBSET Functions :
        /\ \A g \in Functions : active'[g] = (active[g] /\ g \notin gone)
        /\ \A g \in Functions :
             ~threw /\ QuietEffects /\ deferStop'[g] => deferStop[g] \/ g \in Scheduled
  <2>1. active \in [Functions -> BOOLEAN] /\ {f} \in SUBSET Functions /\ {} \in SUBSET Functions
    BY DEF TrackingInv, IInv, TypeOK
  <2>2. CASE activeEffect = f
    <3>1. \A g \in Functions :
            ~threw /\ QuietEffects /\ deferStop'[g] => deferStop[g] \/ g \in Scheduled
      <4>1. deferStop' = [deferStop EXCEPT ![f] = TRUE] /\ deferStop \in [Functions -> BOOLEAN]
        BY <2>2 DEF stop, TrackingInv, IInv, TypeOK
      <4>2. f \in Chain
        BY <1>2, <2>2, ActiveInChain DEF TrackingInv, IInv, TypeOK
      <4> QED BY <1>2, <4>1, <4>2
    <3>2. \A g \in Functions : active'[g] = (active[g] /\ g \notin {})
      BY <2>1, <2>2 DEF stop
    <3> QED BY <2>1, <3>1, <3>2
  <2>3. CASE activeEffect # f
    <3>1. active' = [active EXCEPT ![f] = FALSE] /\ deferStop' = deferStop
      BY <2>3 DEF stop
    <3>2. \A g \in Functions : active'[g] = (active[g] /\ g \notin {f})
      BY <2>1, <3>1
    <3> QED BY <2>1, <3>1, <3>2
  <2> QED BY <2>2, <2>3
<1>6. ~threw => Owed \intersect Computeds = {}
  BY <1>2 DEF NoFeedback
<1>7. ASSUME ~threw PROVE Owed' = Owed \ gone /\ Told'
  <2>1. Told
    BY <1>7 DEF SettlingInv
  <2> QED BY <1>1, <1>3, <1>5, <1>6, <1>7, <2>1, StoppedSettles
<1>8. ASSUME ~threw, QuietEffects PROVE QuietOK'
  <2>1. \A g \in Functions : deferStop'[g] => g \in Scheduled
    BY <1>5, <1>8 DEF SettlingInv, QuietOK
  <2> QED BY <1>1, <1>3, <1>4, <1>8, <2>1 DEF SettlingInv, QuietOK
<1>9. ASSUME ~threw, OneComputed PROVE OneOK'
  BY <1>1, <1>4, <1>6, <1>7, <1>9 DEF SettlingInv, OneOK
<1>10. GetsOK'
  BY <1>3, NoGetOK
<1> QED
  BY <1>1, <1>3, <1>7, <1>8, <1>9, <1>10 DEF SettlingInv, control

\* The frame at the top ends.
LEMMA EndSettles ==
  ASSUME NoFeedback, TrackingInv, SettlingInv, stack # <<>>, stack' = Tail(stack),
         ~threw => top.kind # "trigger" \/ top.todo = {},
         UNCHANGED <<reads, deferStop, dirty, jobs, control, outdated>>,
         \/ active' = active
         \/ /\ top.kind = "run"
            /\ active' = [active EXCEPT ![top.fn] = @ /\ ~deferStop[top.fn]]
  PROVE  SettlingInv'
<1> DEFINE t == Tail(stack)
<1>1. stack \in Seq(FrameSet) /\ active \in [Functions -> BOOLEAN]
      /\ deferStop \in [Functions -> BOOLEAN]
  BY DEF TrackingInv, IInv, TypeOK
<1>2. /\ t \in Seq(FrameSet) /\ NoGet(t)
      /\ RunFns(t) \subseteq RunFns(stack)
      /\ Calm(stack) => Calm(t)
      /\ ~threw => ToTell(t) = ToTell(stack)
  BY <1>1, TopAdds DEF SettlingInv, GetsOK
<1>3. Chain' \subseteq Chain
  BY <1>2, ChainIsRunFns, NextChainIsRunFns
<1>4. PICK gone \in SUBSET Functions :
        /\ \A g \in Functions : active'[g] = (active[g] /\ g \notin gone)
        /\ \A g \in gone : deferStop[g]
  <2>1. CASE active' = active
    <3>1. {} \in SUBSET Functions /\ \A g \in Functions : active'[g] = (active[g] /\ g \notin {})
      BY <1>1, <2>1
    <3> QED BY <3>1
  <2>2. CASE /\ top.kind = "run"
             /\ active' = [active EXCEPT ![top.fn] = @ /\ ~deferStop[top.fn]]
    <3> DEFINE f == top.fn
    <3>1. f \in Functions
      BY <1>1, <2>2, TopType
    <3>2. active' = [active EXCEPT ![f] = @ /\ ~deferStop[f]]
      BY <2>2
    <3> HIDE DEF f
    <3>3. CASE deferStop[f]
      <4>1. {f} \in SUBSET Functions /\ \A g \in Functions : active'[g] = (active[g] /\ g \notin {f})
        BY <1>1, <3>1, <3>2, <3>3
      <4> QED BY <3>3, <4>1
    <3>4. CASE ~deferStop[f]
      <4>1. {} \in SUBSET Functions /\ \A g \in Functions : active'[g] = (active[g] /\ g \notin {})
        BY <1>1, <3>1, <3>2, <3>4
      <4> QED BY <4>1
    <3> QED BY <3>3, <3>4
  <2> QED BY <2>1, <2>2
<1>5. ~threw /\ OneComputed => Owed \intersect Computeds = {}
  BY DEF SettlingInv, OneOK, Running
<1>6. ~threw => gone \intersect Owed \intersect Computeds = {}
  BY <1>4, <1>5, FunctionsAssumption DEF NoFeedback, SettlingInv, QuietOK
<1>7. ASSUME ~threw PROVE Owed' = Owed \ gone /\ Told'
  <2>1. Told /\ ToTell(stack') = ToTell(stack)
    BY <1>2, <1>7 DEF SettlingInv
  <2> QED BY <1>4, <1>6, <1>7, <2>1, StoppedSettles
<1>8. ASSUME ~threw, QuietEffects PROVE QuietOK'
  BY <1>2, <1>3, <1>8 DEF SettlingInv, QuietOK
<1>9. ASSUME ~threw, OneComputed PROVE OneOK'
  BY <1>3, <1>5, <1>7, <1>9 DEF SettlingInv, OneOK
<1>10. GetsOK'
  BY <1>2, NoGetOK
<1> QED
  BY <1>2, <1>7, <1>8, <1>9, <1>10 DEF SettlingInv, control

LEMMA PopSettles ==
  ASSUME NoFeedback, TrackingInv, SettlingInv,
         RunReturns \/ CallReturns \/ TriggerDone \/ ResetTracking \/ Unwind
  PROVE  SettlingInv'
<1>1. /\ stack # <<>> /\ stack' = Tail(stack)
      /\ UNCHANGED <<reads, deferStop, dirty, jobs, control, outdated>>
  BY DEF RunReturns, CallReturns, TriggerDone, ResetTracking, Unwind, Running, endRun, tracking, flags
<1>2. \/ active' = active
      \/ /\ top.kind = "run"
         /\ active' = [active EXCEPT ![top.fn] = @ /\ ~deferStop[top.fn]]
  BY DEF RunReturns, CallReturns, TriggerDone, ResetTracking, Unwind, Running, endRun, flags
<1>3. ~threw => top.kind # "trigger" \/ top.todo = {}
  BY DEF RunReturns, CallReturns, TriggerDone, ResetTracking, Unwind, Running, SettlingInv
<1> QED
  BY <1>1, <1>2, <1>3, EndSettles

\* A loop tells the next function on its list.
LEMMA TriggerEffectSettles ==
  ASSUME NoFeedback, TrackingInv, SettlingInv, NEW f \in Functions, TriggerEffect(f)
  PROVE  SettlingInv'
<1> DEFINE x == [top EXCEPT !.todo = @ \ {f}]
           t == Tail(stack)
           below == <<x>> \o t
           skip == /\ stack' = below
                   /\ UNCHANGED <<tracking, shouldTrack, outdated>>
<1>1. /\ stack # <<>> /\ top.kind = "trigger" /\ f \in top.todo
      /\ f \in Computeds \/ top.todo \intersect Computeds = {}
      /\ UNCHANGED <<flags, control>> /\ stack \in Seq(FrameSet)
  BY DEF TriggerEffect, comesNext, Running, TrackingInv, IInv, TypeOK
<1>2. \/ f = activeEffect /\ skip /\ UNCHANGED <<dirty, jobs>>
      \/ f \in Computeds /\ dirty[f] /\ skip /\ UNCHANGED <<dirty, jobs>>
      \/ /\ f \in Computeds /\ ~dirty[f]
         /\ dirty' = [dirty EXCEPT ![f] = TRUE] /\ jobs' = jobs
         /\ stack' = <<Frame("trigger", None, dep[f], TRUE)>> \o below
         /\ UNCHANGED <<tracking, outdated>>
      \/ f \in Scheduled /\ jobs' = jobs \union {f} /\ skip /\ dirty' = dirty
      \/ f \in Effects /\ run(f, below) /\ UNCHANGED <<dirty, jobs>>
  BY DEF TriggerEffect
<1>3. x \in FrameSet /\ x.kind = top.kind /\ x.fn = top.fn /\ x.todo = top.todo \ {f}
  <2>1. \A kinds, fns : top \in Frames(kinds, fns) =>
          /\ x \in Frames(kinds, fns)
          /\ x.kind = top.kind /\ x.fn = top.fn /\ x.todo = top.todo \ {f}
    BY DEF Frames
  <2> QED BY <1>1, <2>1, TopAdds DEF FrameSet
<1> HIDE DEF x
<1>4. /\ LikeStack(below) /\ ToTell(below) = ToTell(t) \union x.todo
      /\ ToTell(stack) = ToTell(t) \union top.todo
      /\ Calm(stack) => RunFns(stack) \subseteq Scheduled
      /\ NoGet(stack) /\ t \in Seq(FrameSet) /\ NoGet(t)
  <2>1. /\ LikeStack(below)
        /\ ToTell(below) = ToTell(t) \union (IF top.kind = "trigger" THEN x.todo ELSE {})
    BY <1>1, <1>3, EditedAdds
  <2>2. NoGet(t)
    BY <1>1 DEF SettlingInv, GetsOK
  <2> QED BY <1>1, <2>1, <2>2, TopAdds
<1>5. /\ below \in Seq(FrameSet) /\ RunFns(below) = RunFns(stack)
      /\ NoGet(below) /\ (Calm(stack) => Calm(below))
      /\ ToTell(stack) \subseteq ToTell(below) \union {f}
      /\ ToTell(below) \subseteq ToTell(stack)
  BY <1>3, <1>4 DEF LikeStack
<1>6. stack' = below => stack' # <<>> /\ top' = x
  BY <1>3, <1>4, HeadOnTop
<1> HIDE DEF below
<1>7. Chain = RunFns(stack) /\ Chain' = RunFns(stack')
  BY ChainIsRunFns, NextChainIsRunFns
<1>8. /\ ~threw /\ QuietEffects => Chain \subseteq Scheduled
      /\ ~threw /\ QuietEffects => Calm(below)
      /\ ~threw /\ f \in Chain => f \notin outdated
      /\ ~threw /\ OneComputed => Owed \intersect Computeds \subseteq top.todo
      /\ ~threw /\ OneComputed /\ f \notin Computeds => Owed \intersect Computeds = {}
  <2>1. ~threw /\ QuietEffects => Calm(stack)
    BY DEF SettlingInv, QuietOK
  <2>2. ~threw /\ QuietEffects => Chain \subseteq Scheduled
    BY <1>4, <1>7, <2>1
  <2>3. ~threw /\ f \in Chain => f \notin outdated
    BY <2>2 DEF NoFeedback, SettlingInv, QuietOK, OneOK
  <2>4. ~threw /\ OneComputed => Owed \intersect Computeds \subseteq top.todo
    BY DEF SettlingInv, OneOK
  <2> QED BY <1>1, <1>5, <2>1, <2>2, <2>3, <2>4
<1>9. Owed \subseteq Functions /\ jobs \subseteq Scheduled /\ dirty \in [Computeds -> BOOLEAN]
  BY OwedType DEF TrackingInv, IInv, TypeOK
<1>10. ASSUME skip, UNCHANGED <<dirty, jobs>>, ~threw => f \notin Owed
       PROVE  SettlingInv'
  <2>1. UNCHANGED <<reads, outdated, dirty, jobs, flags, control>> /\ stack' = below
    BY <1>1, <1>10 DEF tracking
  <2>2. Owed' = Owed /\ Chain' = Chain
    BY <1>5, <1>7, <2>1 DEF Owed, flags
  <2>3. ~threw => Told'
    <3>1. ~threw => Owed \intersect ToTell(stack) \subseteq ToTell(stack')
      BY <1>5, <1>10, <2>1
    <3> QED BY <2>1, <2>2, <3>1, ToldSame DEF SettlingInv
  <2>4. ~threw /\ QuietEffects => QuietOK'
    BY <1>8, <2>1, <2>2 DEF SettlingInv, QuietOK, flags
  <2>5. ~threw /\ OneComputed => OneOK'
    <3>1. ~threw /\ OneComputed => Owed \intersect Computeds \subseteq x.todo
      BY <1>3, <1>8, <1>10
    <3>2. stack' # <<>> /\ top' = x /\ x.kind = "trigger"
      BY <1>1, <1>3, <1>6, <2>1
    <3> QED BY <2>1, <2>2, <3>1, <3>2 DEF SettlingInv, OneOK, Running
  <2>6. GetsOK'
    BY <1>5, <2>1, NoGetOK
  <2> QED BY <1>5, <2>1, <2>3, <2>4, <2>5, <2>6 DEF SettlingInv, control
<1>11. CASE f = activeEffect /\ skip /\ UNCHANGED <<dirty, jobs>>
  <2>1. f \in Chain
    BY <1>1, <1>11, ActiveInChain
  <2>2. ~threw => f \notin Owed
    BY <1>8, <2>1 DEF Owed
  <2> QED BY <1>10, <1>11, <2>2
<1>12. CASE f \in Computeds /\ dirty[f] /\ skip /\ UNCHANGED <<dirty, jobs>>
  BY <1>10, <1>12 DEF Owed
<1>13. CASE /\ f \in Computeds /\ ~dirty[f]
            /\ dirty' = [dirty EXCEPT ![f] = TRUE] /\ jobs' = jobs
            /\ stack' = <<Frame("trigger", None, dep[f], TRUE)>> \o below
            /\ UNCHANGED <<tracking, outdated>>
  <2> DEFINE g == Frame("trigger", None, dep[f], TRUE)
             gone == {f}
  <2>1. g \in FrameSet /\ g.kind = "trigger" /\ g.todo = dep[f]
    <3>1. dep[f] \in SUBSET Functions
      BY <1>13 DEF TrackingInv, IInv, TypeOK, Sources
    <3> QED BY <3>1, FrameType DEF Frame
  <2>2. stack' = <<g>> \o below
    BY <1>13
  <2> HIDE DEF g
  <2>3. /\ stack' \in Seq(FrameSet) /\ ToTell(stack') = ToTell(below) \union dep[f]
        /\ RunFns(stack') = RunFns(stack) /\ NoGet(stack')
        /\ Calm(below) /\ RunFns(stack) \subseteq Scheduled => Calm(stack')
    <3>1. stack' \in Seq(FrameSet)
      BY <1>5, <2>1, <2>2, OnTop
    <3>2. /\ ToTell(<<g>> \o below) =
               ToTell(below) \union (IF g.kind = "trigger" THEN g.todo ELSE {})
          /\ RunFns(<<g>> \o below) = RunFns(below) \union (IF g.kind = "run" THEN {g.fn} ELSE {})
          /\ AllQueued(<<g>> \o below) <=> AllQueued(below) /\ QueuedCode(g)
          /\ NoGet(<<g>> \o below) <=> NoGet(below) /\ g.kind # "get"
          /\ Calm(<<g>> \o below) <=>
               /\ Calm(below) /\ (QueuedCode(g) => AllQueued(below))
               /\ g.kind = "trigger" => RunFns(below) \subseteq Scheduled
      BY <1>5, <2>1, FrameAdds
    <3>3. ~QueuedCode(g)
      BY <2>1 DEF QueuedCode, Code
    <3> QED BY <1>5, <2>1, <2>2, <3>1, <3>2, <3>3
  <2>4. Chain' = Chain
    BY <1>7, <2>3
  <2>5. UNCHANGED <<reads, outdated, jobs, flags, control>>
    BY <1>1, <1>13 DEF tracking
  <2>6. dirty'[f] /\ \A c \in Computeds : c # f => dirty'[c] = dirty[c]
    BY <1>9, <1>13
  <2>7. Owed' = Owed \ gone
    <3>1. ASSUME NEW h PROVE h \in Owed' <=> h \in Owed /\ h \notin gone
      <4>1. CASE h = f
        BY <1>13, <2>6, <4>1 DEF Owed
      <4>2. CASE h # f
        BY <2>5, <2>6, <4>2 DEF Owed, flags
      <4> QED BY <4>1, <4>2
    <3> QED BY <3>1
  <2>8. ~threw => Told'
    <3>1. \A c \in gone \intersect Owed \intersect Computeds, h \in Owed \ gone :
            c \in reads[h] => h \in ToTell(stack')
      <4> SUFFICES ASSUME NEW h \in Owed, f \in reads[h] PROVE h \in dep[f]
        BY <2>3
      <4>1. h \in Functions /\ active[h] /\ f \in Sources
        BY <1>9, <1>13 DEF Owed, Sources
      <4> QED BY <4>1, ReadersHear
    <3>2. (Owed \intersect ToTell(stack)) \ gone \subseteq ToTell(stack')
      BY <1>5, <2>3
    <3>3. \A h \in Owed \ gone : reads[h] \subseteq reads'[h]
      BY <2>5
    <3>4. gone \in SUBSET Functions
      OBVIOUS
    <3> HIDE DEF gone
    <3> QED BY <2>7, <3>1, <3>2, <3>3, <3>4, ToldKept DEF SettlingInv
  <2>9. ~threw /\ QuietEffects => QuietOK'
    <3>1. ~threw /\ QuietEffects => Chain' \intersect Computeds = {} /\ Calm(stack')
      BY <1>7, <1>8, <2>3, <2>4, FunctionsAssumption
    <3> QED BY <2>4, <2>5, <3>1 DEF SettlingInv, QuietOK, flags
  <2>10. ~threw /\ OneComputed => OneOK'
    <3>1. OneComputed => Owed' \intersect Computeds = {}
      BY <1>13, <2>7 DEF OneComputed
    <3> QED BY <2>4, <2>5, <3>1 DEF SettlingInv, OneOK
  <2>11. GetsOK'
    BY <2>3, NoGetOK
  <2> QED BY <2>3, <2>5, <2>8, <2>9, <2>10, <2>11 DEF SettlingInv, control
<1>14. CASE f \in Scheduled /\ jobs' = jobs \union {f} /\ skip /\ dirty' = dirty
  <2> DEFINE gone == {f}
  <2>1. UNCHANGED <<reads, outdated, dirty, flags, control>> /\ stack' = below
    BY <1>1, <1>14 DEF tracking
  <2>2. f \notin Computeds /\ Chain' = Chain
    BY <1>5, <1>7, <1>14, <2>1, FunctionsAssumption
  <2>3. Owed' = Owed \ gone
    BY <1>14, <2>1 DEF Owed, flags
  <2>4. ~threw => Told'
    <3>1. \A c \in gone \intersect Owed \intersect Computeds, h \in Owed \ gone :
            c \in reads[h] => h \in ToTell(stack')
      BY <2>2
    <3>2. (Owed \intersect ToTell(stack)) \ gone \subseteq ToTell(stack')
      BY <1>5, <2>1
    <3>3. \A h \in Owed \ gone : reads[h] \subseteq reads'[h]
      BY <2>1
    <3>4. gone \in SUBSET Functions
      OBVIOUS
    <3> HIDE DEF gone
    <3> QED BY <2>3, <3>1, <3>2, <3>3, <3>4, ToldKept DEF SettlingInv
  <2>5. ~threw /\ QuietEffects => QuietOK'
    BY <1>8, <2>1, <2>2 DEF SettlingInv, QuietOK, flags
  <2>6. ~threw /\ OneComputed => OneOK'
    BY <1>8, <2>1, <2>2, <2>3 DEF SettlingInv, OneOK
  <2>7. GetsOK'
    BY <1>5, <2>1, NoGetOK
  <2> QED BY <1>5, <2>1, <2>4, <2>5, <2>6, <2>7 DEF SettlingInv, control
<1>15. CASE f \in Effects /\ run(f, below) /\ UNCHANGED <<dirty, jobs>>
  <2>1. f \notin Computeds /\ f \notin Scheduled
    BY <1>15, FunctionsAssumption
  <2>2. Owed \intersect ToTell(stack) \subseteq ToTell(below) \union {f}
    BY <1>5
  <2>3. ~threw /\ OneComputed => Owed \intersect Computeds = {}
    BY <1>8, <2>1
  <2> QED BY <1>1, <1>5, <1>8, <1>15, <2>1, <2>2, <2>3, RunSettles
<1> QED
  BY <1>2, <1>11, <1>12, <1>13, <1>14, <1>15

LEMMA ControlSettles ==
  ASSUME TrackingInv, SettlingInv, Throw \/ Catch \/ StartTask \/ UNCHANGED vars
  PROVE  SettlingInv'
<1>1. CASE UNCHANGED vars
  <2>1. UNCHANGED <<reads, outdated, dirty, jobs, stack, flags, control>>
    BY <1>1 DEF vars, tracking
  <2>2. Chain' = Chain /\ Owed' = Owed
    BY <2>1, ChainIsRunFns, NextChainIsRunFns DEF Owed, flags
  <2>3. GetsOK' = GetsOK /\ QuietOK' = QuietOK /\ OneOK' = OneOK
    BY <2>1, <2>2 DEF GetsOK, QuietOK, OneOK, Running, top, flags
  <2>4. Told => Told'
    BY <2>1, <2>2, ToldSame
  <2> QED BY <2>1, <2>3, <2>4 DEF SettlingInv, control
<1>2. CASE Throw \/ Catch
  <2>1. threw' /\ UNCHANGED <<stack, dirty>>
    BY <1>2 DEF Throw, Catch, SettlingInv
  <2>2. GetsOK'
    BY <2>1 DEF SettlingInv, GetsOK, Running, top
  <2> QED BY <2>1, <2>2 DEF SettlingInv
<1>3. CASE StartTask
  <2> DEFINE g == Frame("main", None, {}, TRUE)
             none == <<>>
  <2>1. /\ UNCHANGED <<reads, outdated, dirty, jobs, flags, control>>
        /\ stack = none /\ stack' = <<g>>
    BY <1>3 DEF StartTask, tracking
  <2>2. g \in FrameSet /\ g.kind = "main"
    BY FrameType DEF Frame
  <2> HIDE DEF g
  <2>3. none \in Seq(FrameSet) /\ Len(none) = 0 /\ stack' = <<g>> \o none
    <3> DEFINE one == <<g>>
    <3>1. one \in Seq(FrameSet)
      BY <2>2, SingleType
    <3> HIDE DEF one
    <3>2. one \o <<>> = one
      BY <3>1, ConcatEmptySeq
    <3> QED BY <2>1, <3>2 DEF one
  <2> HIDE DEF none
  <2>4. ToTell(none) = {} /\ RunFns(none) = {} /\ AllQueued(none) /\ NoGet(none) /\ Calm(none)
    BY <2>3, NoFrameAdds
  <2>5. /\ stack' \in Seq(FrameSet) /\ RunFns(stack') = {} /\ NoGet(stack')
        /\ Calm(stack')
    <3>1. stack' \in Seq(FrameSet)
      BY <2>2, <2>3, OnTop
    <3>2. /\ RunFns(<<g>> \o none) = RunFns(none) \union (IF g.kind = "run" THEN {g.fn} ELSE {})
          /\ AllQueued(<<g>> \o none) <=> AllQueued(none) /\ QueuedCode(g)
          /\ NoGet(<<g>> \o none) <=> NoGet(none) /\ g.kind # "get"
          /\ Calm(<<g>> \o none) <=>
               /\ Calm(none) /\ (QueuedCode(g) => AllQueued(none))
               /\ g.kind = "trigger" => RunFns(none) \subseteq Scheduled
      BY <2>2, <2>3, FrameAdds
    <3> QED BY <2>2, <2>3, <2>4, <3>1, <3>2
  <2>6. Chain' = Chain /\ Owed' = Owed /\ Chain = {}
    <3>1. Chain' = {} /\ Chain = {}
      BY <2>1, <2>4, <2>5, ChainIsRunFns, NextChainIsRunFns
    <3> QED BY <2>1, <3>1 DEF Owed, flags
  <2>7. ToTell(stack) = {} /\ ~Running({"trigger"})
    BY <2>1, <2>4 DEF Running, none
  <2>8. ~threw => Told'
    BY <2>1, <2>6, <2>7, ToldSame DEF SettlingInv
  <2>9. ~threw /\ QuietEffects => QuietOK'
    BY <2>1, <2>5, <2>6 DEF SettlingInv, QuietOK, flags
  <2>10. ~threw /\ OneComputed => OneOK'
    BY <2>1, <2>6, <2>7 DEF SettlingInv, OneOK
  <2>11. GetsOK'
    BY <2>5, NoGetOK
  <2> QED BY <2>1, <2>5, <2>8, <2>9, <2>10, <2>11 DEF SettlingInv, control
<1> QED
  BY <1>1, <1>2, <1>3

LEMMA InitSettling == Init => SettlingInv
<1> SUFFICES ASSUME Init PROVE SettlingInv
  OBVIOUS
<1> DEFINE none == <<>>
<1>1. stack = none /\ none \in Seq(FrameSet) /\ Len(none) = 0
  BY DEF Init
<1>2. ~Running({"get"}) /\ ~Running({"trigger"}) /\ GetsOK
  BY <1>1 DEF Running, GetsOK
<1> HIDE DEF none
<1>3. RunFns(none) = {} /\ Calm(none)
  BY <1>1, NoFrameAdds
<1>4. Chain = {}
  BY <1>1, <1>3, ChainIsRunFns
<1>5. outdated = {} /\ Owed = {} /\ ~throwing /\ ~threw /\ \A f \in Functions : ~deferStop[f]
  BY DEF Init, Owed
<1> QED
  BY <1>1, <1>2, <1>3, <1>4, <1>5 DEF SettlingInv, Told, QuietOK, OneOK

LEMMA NextSettling ==
  ASSUME NoFeedback, TrackingInv, SettlingInv, [Next]_vars
  PROVE  SettlingInv'
<1>1. ASSUME UserCode PROVE SettlingInv'
  <2>1. \A ks : ks \in SUBSET Keys \ {{}} => ks \in SUBSET Keys
    OBVIOUS
  <2> QED
    BY <1>1, <2>1, ReadSettles, WriteSettles, CallRunnerSettles, StopSettles, ControlSettles
       DEF UserCode
<1>2. ASSUME Proceed PROVE SettlingInv'
  BY <1>2, PopSettles, GetSettles, TriggerEffectSettles, RunJobSettles DEF Proceed
<1>3. CASE UNCHANGED vars
  BY <1>3, ControlSettles
<1> QED
  BY <1>1, <1>2, <1>3 DEF Next

\* When no trigger is under way every outdated effect has been told (see
\* Settled, about triggerEffects), if only queued effects and code of no effect
\* change state, or if there is one computed.
THEOREM SettledCorrect == ASSUME ~StopsOuter, NoFeedback PROVE Spec => []Settled
<1>1. Init => SettlingInv
  BY InitSettling
<1>2. TrackingInv /\ SettlingInv /\ [Next]_vars => SettlingInv'
  BY NextSettling
<1>3. SettlingInv => Settled
  <2> SUFFICES ASSUME SettlingInv, ~threw, NEW f \in outdated,
                      \A k \in 1..Len(stack) : stack[k].kind # "trigger"
               PROVE  \/ ~active[f]
                      \/ f \in Computeds /\ dirty[f]
                      \/ f \in jobs
    BY DEF Settled
  <2>1. ToTell(stack) = {}
    BY DEF ToTell
  <2>2. Closed({}) /\ {} \in SUBSET Functions
    BY <2>1 DEF Closed
  <2>3. Owed = {}
    BY <2>2 DEF SettlingInv, Told
  <2> QED BY <2>3 DEF Owed
<1> QED
  BY <1>1, <1>2, <1>3, TrackingInvariant, PTL DEF Spec

\* No code finds a computed whose value is older than its sources and that is
\* not dirty (see ReadsAreFresh, about the first loop of triggerEffects and the
\* getter of ComputedRefImpl), under the same assumption.
THEOREM ReadsAreFreshCorrect ==
  ASSUME ~StopsOuter, NoFeedback PROVE Spec => []ReadsAreFresh
<1>1. Init => SettlingInv
  BY InitSettling
<1>2. TrackingInv /\ SettlingInv /\ [Next]_vars => SettlingInv'
  BY NextSettling
<1>3. TrackingInv /\ SettlingInv => ReadsAreFresh
  <2> SUFFICES ASSUME TrackingInv, SettlingInv, CanAct, ~threw,
                      \/ top.fn \in Scheduled \union {None}
                      \/ \A c, d \in Computeds : c = d,
                      NEW c \in Computeds \intersect outdated, active[c]
               PROVE  dirty[c]
    BY DEF ReadsAreFresh
  <2>1. \/ OneComputed
        \/ QuietEffects /\ top.fn \in Scheduled \union {None}
    BY DEF OneComputed, NoFeedback
  <2>2. Owed \intersect Computeds = {}
    BY <2>1, UserCodeSettles
  <2>3. c \notin jobs
    BY FunctionsAssumption DEF TrackingInv, IInv, TypeOK
  <2> QED BY <2>2, <2>3 DEF Owed
<1> QED
  BY <1>1, <1>2, <1>3, TrackingInvariant, PTL DEF Spec

\* A stopped effect that has ended is subscribed to nothing, if no effect is
\* stopped from a run inside its own (see StoppedStaysStopped, about stop and
\* the deferStop of run).
THEOREM StoppedStaysStoppedCorrect ==
  ASSUME ~StopsOuter PROVE Spec => []StoppedStaysStopped
<1>1. DepsExact /\ Mutual => StoppedStaysStopped
  <2> SUFFICES ASSUME DepsExact, Mutual, NEW f \in Functions \ Chain, ~active[f],
                      NEW s \in Sources
               PROVE  f \notin dep[s]
    BY DEF StoppedStaysStopped
  <2>1. deps[f] = {}
    BY DEF DepsExact
  <2> QED BY <2>1 DEF Mutual
<1> QED
  BY <1>1, DepsExactCorrect, MutualCorrect, PTL

------------------------------------------------------------------------------
(* No effect depends on a dirty computed once all code has ended, if no     *)
(* effect that a trigger runs at once changes state.                        *)

\* An effect that read a computed which is dirty is on the list of a loop; or
\* the computed is just being read.
Heard ==
  \A f \in Effects, c \in Computeds :
    active[f] /\ c \in reads[f] /\ dirty[c] =>
      f \in ToTell(stack) \/ (Running({"get"}) /\ top.fn = c)

HeardInv == ~threw => Heard

\* The effects of gone have been told.  Whoever reads a dirty computed then did
\* so before, and is to be told; or is to be told now; or is reading it.
LEMMA HeardKept ==
  ASSUME Heard, ~Running({"get"}), NEW gone, ToTell(stack) \ gone \subseteq ToTell(stack'),
         \A f \in Effects, c \in Computeds :
           active'[f] /\ c \in reads'[f] /\ dirty'[c] =>
             \/ active[f] /\ c \in reads[f] /\ dirty[c] /\ f \notin gone
             \/ f \in ToTell(stack')
             \/ Running({"get"})' /\ top'.fn = c
  PROVE  Heard'
<1> SUFFICES ASSUME NEW f \in Effects, NEW c \in Computeds,
                    active'[f], c \in reads'[f], dirty'[c]
             PROVE  f \in ToTell(stack') \/ (Running({"get"})' /\ top'.fn = c)
  BY DEF Heard
<1>1. CASE active[f] /\ c \in reads[f] /\ dirty[c] /\ f \notin gone
  BY <1>1 DEF Heard
<1> QED
  BY <1>1

\* Nobody was told, and nobody reads more.
LEMMA HeardSame ==
  ASSUME Heard, ~Running({"get"}), ToTell(stack) \subseteq ToTell(stack'),
         \A f \in Effects : (active'[f] => active[f]) /\ reads'[f] \subseteq reads[f],
         dirty' = dirty
  PROVE  Heard'
<1>1. ToTell(stack) \ {} \subseteq ToTell(stack')
  OBVIOUS
<1>2. \A f \in Effects, c \in Computeds :
        active'[f] /\ c \in reads'[f] /\ dirty'[c] =>
          \/ active[f] /\ c \in reads[f] /\ dirty[c] /\ f \notin {}
          \/ f \in ToTell(stack')
          \/ Running({"get"})' /\ top'.fn = c
  OBVIOUS
<1> QED
  BY <1>1, <1>2, HeardKept

LEMMA UserCodeNoGet == CanAct => ~Running({"get"})
BY DEF CanAct, Running, Code

\* A dirty computed that is read is computed at once.
LEMMA ReadHeard ==
  ASSUME TrackingInv, SettlingInv, Heard, \/ \E k \in Keys : readKey(k)
                                          \/ \E c \in Computeds : readComputed(c)
  PROVE  Heard'
<1>1. CanAct /\ UNCHANGED <<flags, dirty>>
  BY DEF readKey, readComputed
<1>2. ToTell(stack') = ToTell(stack)
  BY ReadAdds
<1>3. PICK s : /\ reads' = IF activeEffect # None /\ ~Paused
                           THEN [reads EXCEPT ![activeEffect] = @ \union {s}] ELSE reads
               /\ s \in Keys \/ (s \in Computeds /\ readComputed(s))
  BY DEF readKey, readComputed, track
<1>4. ASSUME NEW f \in Effects, NEW c \in Computeds,
             active'[f], c \in reads'[f], dirty'[c]
      PROVE  \/ active[f] /\ c \in reads[f] /\ dirty[c] /\ f \notin {}
             \/ Running({"get"})' /\ top'.fn = c
  <2>1. active[f] /\ dirty[c]
    BY <1>1, <1>4 DEF flags
  <2>2. c \in reads[f] \/ c = s
    <3>1. f \in Functions /\ reads \in [Functions -> SUBSET Sources]
      BY DEF Functions, TrackingInv, IInv, TypeOK
    <3> QED BY <1>3, <1>4, <3>1
  <2>3. CASE c = s
    <3> DEFINE get == Frame("get", c, {}, TRUE)
               below == Calling(<<>>)
    <3>1. readComputed(c)
      BY <1>3, <2>3, FunctionsAssumption
    <3>2. get \in FrameSet /\ get.kind = "get" /\ get.fn = c
      BY FrameType DEF Frame
    <3>3. stack' = Calling(<<get>>)
      BY <2>1, <3>1 DEF readComputed
    <3> HIDE DEF get
    <3>4. stack' = <<get>> \o below /\ below \in Seq(FrameSet)
      BY <1>1, <3>2, <3>3, UserCodeSettles, Called DEF LikeStack, TrackingInv, IInv, TypeOK
    <3> HIDE DEF below
    <3>5. stack' # <<>> /\ top' = get
      BY <3>2, <3>4, HeadOnTop
    <3> QED BY <3>2, <3>5 DEF Running
  <2> QED BY <2>1, <2>2, <2>3
<1>5. ToTell(stack) \ {} \subseteq ToTell(stack')
  BY <1>2
<1> QED
  BY <1>1, <1>4, <1>5, UserCodeNoGet, HeardKept

LEMMA WriteHeard ==
  ASSUME TrackingInv, SettlingInv, Heard, NEW ks \in SUBSET Keys,
         write(ks) \/ mutateArray(ks)
  PROVE  Heard'
<1>1. CanAct /\ UNCHANGED <<tracking, flags, dirty>>
  BY DEF write, mutateArray, CanChange
<1>2. ToTell(stack') = ToTell(stack) \union UNION {dep[k] : k \in ks}
  BY WriteAdds
<1> QED
  BY <1>1, <1>2, UserCodeNoGet, HeardSame DEF tracking, flags

\* What a run of a function does to those of others, and to its own.
LEMMA RunReads ==
  ASSUME TrackingInv, NEW f \in Functions, NEW below \in Seq(FrameSet), run(f, below)
  PROVE  /\ ToTell(stack') = ToTell(below)
         /\ \A g \in Functions : reads'[g] \subseteq reads[g]
         /\ active[f] /\ f \notin Chain => reads'[f] = {}
<1>1. reads \in [Functions -> SUBSET Sources]
  BY DEF TrackingInv, IInv, TypeOK
<1> QED
  BY <1>1, RunAdds DEF TrackingInv

LEMMA CallRunnerHeard ==
  ASSUME TrackingInv, SettlingInv, Heard, NEW f \in Effects \union Scheduled, callRunner(f)
  PROVE  Heard'
<1> DEFINE s == Calling(<<>>)
<1>1. CanAct /\ run(f, s) /\ UNCHANGED <<flags, dirty>>
  BY DEF callRunner, CanChange
<1>2. s \in Seq(FrameSet) /\ ToTell(s) = ToTell(stack) /\ f \in Functions
  BY <1>1, UserCodeSettles DEF LikeStack, Functions
<1> HIDE DEF s
<1>3. ToTell(stack') = ToTell(s) /\ \A g \in Functions : reads'[g] \subseteq reads[g]
  BY <1>1, <1>2, RunReads
<1>4. \A g \in Effects : (active'[g] => active[g]) /\ reads'[g] \subseteq reads[g]
  BY <1>1, <1>3 DEF Functions, flags
<1> QED
  BY <1>1, <1>2, <1>3, <1>4, UserCodeNoGet, HeardSame

LEMMA StopHeard ==
  ASSUME TrackingInv, SettlingInv, Heard, NEW f \in Functions, stop(f)
  PROVE  Heard'
<1>1. CanAct /\ stack' = Calling(<<>>) /\ UNCHANGED <<reads, dirty>>
  BY DEF stop, CanChange
<1>2. ToTell(stack') = ToTell(stack)
  BY <1>1, UserCodeSettles
<1>3. \A g \in Effects : active'[g] => active[g]
  BY DEF stop, Functions, TrackingInv, IInv, TypeOK
<1> QED
  BY <1>1, <1>2, <1>3, UserCodeNoGet, HeardSame

\* The computed that is read is not dirty any more.
LEMMA GetHeard ==
  ASSUME TrackingInv, SettlingInv, Heard, Get
  PROVE  Heard'
<1> DEFINE d == top.fn
           below == Tail(stack)
<1>1. /\ stack # <<>> /\ top.kind = "get" /\ run(d, below)
      /\ dirty' = [dirty EXCEPT ![d] = FALSE] /\ UNCHANGED flags
  BY DEF Get, Running
<1>2. stack \in Seq(FrameSet) /\ dirty \in [Computeds -> BOOLEAN]
  BY DEF TrackingInv, IInv, TypeOK
<1>3. d \in Computeds /\ d \in Functions /\ below \in Seq(FrameSet)
  BY <1>1, <1>2, TopType DEF Functions
<1>4. ToTell(stack) = ToTell(below)
  BY <1>1, <1>2, TopAdds
<1> HIDE DEF below
<1>5. ToTell(stack') = ToTell(stack) /\ \A g \in Functions : reads'[g] \subseteq reads[g]
  <2> HIDE DEF d
  <2> QED BY <1>1, <1>3, <1>4, RunReads
<1> SUFFICES ASSUME NEW f \in Effects, NEW c \in Computeds,
                    active'[f], c \in reads'[f], dirty'[c]
             PROVE  f \in ToTell(stack')
  BY DEF Heard
<1>6. active[f] /\ c \in reads[f]
  BY <1>1, <1>5 DEF Functions, flags
<1>7. dirty[c] /\ c # d
  BY <1>1, <1>2, <1>3
<1> QED
  BY <1>5, <1>6, <1>7 DEF Heard

LEMMA RunJobHeard ==
  ASSUME TrackingInv, SettlingInv, Heard, NEW f \in Functions, RunJob(f)
  PROVE  Heard'
<1> DEFINE none == <<>>
<1>1. /\ stack = none /\ none \in Seq(FrameSet) /\ ~Running({"get"})
      /\ dirty' = dirty /\ UNCHANGED flags
  BY DEF RunJob, Running
<1>2. active[f] => run(f, none)
  BY DEF RunJob
<1>3. ~active[f] => UNCHANGED <<tracking, stack>>
  BY DEF RunJob
<1> HIDE DEF none
<1>4. ToTell(stack') = ToTell(stack) /\ \A g \in Functions : reads'[g] \subseteq reads[g]
  <2>1. CASE active[f]
    BY <1>1, <1>2, <2>1, RunReads
  <2>2. CASE ~active[f]
    BY <1>3, <2>2 DEF tracking
  <2> QED BY <2>1, <2>2
<1>5. \A g \in Effects : (active'[g] => active[g]) /\ reads'[g] \subseteq reads[g]
  BY <1>1, <1>4 DEF Functions, flags
<1> QED
  BY <1>1, <1>4, <1>5, HeardSame

LEMMA PopHeard ==
  ASSUME TrackingInv, SettlingInv, Heard, ~threw',
         RunReturns \/ CallReturns \/ TriggerDone \/ ResetTracking \/ Unwind
  PROVE  Heard'
<1>1. RunReturns \/ CallReturns \/ TriggerDone \/ ResetTracking
  BY DEF Unwind, SettlingInv, control
<1>2. /\ stack # <<>> /\ stack' = Tail(stack) /\ UNCHANGED <<reads, dirty>>
      /\ ~Running({"get"}) /\ (top.kind = "trigger" => top.todo = {})
  BY <1>1 DEF RunReturns, CallReturns, TriggerDone, ResetTracking, Running, endRun, tracking
<1>3. \A g \in Effects : active'[g] => active[g]
  <2>1. active' = active \/ active' = [active EXCEPT ![top.fn] = @ /\ ~deferStop[top.fn]]
    BY <1>1 DEF RunReturns, CallReturns, TriggerDone, ResetTracking, endRun, flags
  <2>2. active \in [Functions -> BOOLEAN]
    BY DEF TrackingInv, IInv, TypeOK
  <2> QED BY <2>1, <2>2 DEF Functions
<1>4. ToTell(stack) = ToTell(stack')
  BY <1>2, TopAdds DEF TrackingInv, IInv, TypeOK
<1> QED
  BY <1>2, <1>3, <1>4, HeardSame

\* A computed that becomes dirty tells all that read it; an effect that is told
\* reads anew, for none runs around a loop but the queued ones.
LEMMA TriggerEffectHeard ==
  ASSUME QuietEffects, ~threw, TrackingInv, SettlingInv, Heard,
         NEW f \in Functions, TriggerEffect(f)
  PROVE  Heard'
<1> DEFINE x == [top EXCEPT !.todo = @ \ {f}]
           t == Tail(stack)
           below == <<x>> \o t
<1>1. /\ stack # <<>> /\ top.kind = "trigger" /\ f \in top.todo
      /\ UNCHANGED flags /\ stack \in Seq(FrameSet) /\ ~Running({"get"})
  BY DEF TriggerEffect, comesNext, Running, TrackingInv, IInv, TypeOK
<1>2. \/ f = activeEffect /\ stack' = below /\ UNCHANGED <<tracking, dirty>>
      \/ f \notin Effects /\ stack' = below /\ UNCHANGED <<tracking, dirty>>
      \/ /\ f \in Computeds /\ dirty' = [dirty EXCEPT ![f] = TRUE]
         /\ stack' = <<Frame("trigger", None, dep[f], TRUE)>> \o below
         /\ UNCHANGED tracking
      \/ f \in Effects /\ run(f, below) /\ dirty' = dirty
  BY FunctionsAssumption DEF TriggerEffect
<1>3. x \in FrameSet /\ x.kind = top.kind /\ x.fn = top.fn /\ x.todo = top.todo \ {f}
  <2>1. \A kinds, fns : top \in Frames(kinds, fns) =>
          /\ x \in Frames(kinds, fns)
          /\ x.kind = top.kind /\ x.fn = top.fn /\ x.todo = top.todo \ {f}
    BY DEF Frames
  <2> QED BY <1>1, <2>1, TopAdds DEF FrameSet
<1> HIDE DEF x
<1>4. below \in Seq(FrameSet) /\ ToTell(stack) \subseteq ToTell(below) \union {f}
  <2>1. /\ LikeStack(below)
        /\ ToTell(below) = ToTell(t) \union (IF top.kind = "trigger" THEN x.todo ELSE {})
    BY <1>1, <1>3, EditedAdds
  <2> QED BY <1>1, <1>3, <2>1, TopAdds DEF LikeStack
<1> HIDE DEF below
<1>5. Chain \intersect Effects = {}
  <2>1. RunFns(t) \subseteq Scheduled
    BY <1>1, TopAdds DEF SettlingInv, QuietOK
  <2> QED BY <1>1, <2>1, TopAdds, ChainIsRunFns, FunctionsAssumption
<1>6. /\ \A g \in Effects : g \in Functions /\ g \notin Computeds
      /\ dirty \in [Computeds -> BOOLEAN]
  BY FunctionsAssumption DEF Functions, TrackingInv, IInv, TypeOK
<1>7. ASSUME f \notin Effects, stack' = below, UNCHANGED <<tracking, dirty>>
      PROVE  Heard'
  <2>1. ToTell(stack) \ {f} \subseteq ToTell(stack')
    BY <1>4, <1>7
  <2>2. \A g \in Effects, c \in Computeds :
          active'[g] /\ c \in reads'[g] /\ dirty'[c] =>
            active[g] /\ c \in reads[g] /\ dirty[c] /\ g \notin {f}
    BY <1>1, <1>7 DEF tracking, flags
  <2> QED BY <1>1, <2>1, <2>2, HeardKept
<1>8. CASE f = activeEffect /\ stack' = below /\ UNCHANGED <<tracking, dirty>>
  BY <1>1, <1>5, <1>7, <1>8, ActiveInChain
<1>9. CASE f \notin Effects /\ stack' = below /\ UNCHANGED <<tracking, dirty>>
  BY <1>7, <1>9
<1>10. CASE /\ f \in Computeds /\ dirty' = [dirty EXCEPT ![f] = TRUE]
            /\ stack' = <<Frame("trigger", None, dep[f], TRUE)>> \o below
            /\ UNCHANGED tracking
  <2> DEFINE loop == Frame("trigger", None, dep[f], TRUE)
  <2>1. loop \in FrameSet /\ loop.kind = "trigger" /\ loop.todo = dep[f]
    <3>1. dep[f] \in SUBSET Functions
      BY <1>10 DEF TrackingInv, IInv, TypeOK, Sources
    <3> QED BY <3>1, FrameType DEF Frame
  <2>2. stack' = <<loop>> \o below
    BY <1>10
  <2> HIDE DEF loop
  <2>3. ToTell(stack') = ToTell(below) \union dep[f]
    BY <1>4, <2>1, <2>2, FrameAdds
  <2>4. ToTell(stack) \ {f} \subseteq ToTell(stack')
    BY <1>4, <2>3
  <2>5. ASSUME NEW g \in Effects, NEW c \in Computeds,
               active'[g], c \in reads'[g], dirty'[c]
        PROVE  \/ active[g] /\ c \in reads[g] /\ dirty[c] /\ g \notin {f}
               \/ g \in ToTell(stack')
    <3>1. active[g] /\ c \in reads[g] /\ g # f /\ g \in Functions
      BY <1>1, <1>6, <1>10, <2>5 DEF tracking, flags
    <3>2. CASE c = f
      BY <2>3, <3>1, <3>2, ReadersHear DEF Sources
    <3>3. CASE c # f
      BY <1>6, <1>10, <2>5, <3>1, <3>3
    <3> QED BY <3>2, <3>3
  <2> QED BY <1>1, <2>4, <2>5, HeardKept
<1>11. CASE f \in Effects /\ run(f, below) /\ dirty' = dirty
  <2>1. /\ ToTell(stack') = ToTell(below)
        /\ \A g \in Functions : reads'[g] \subseteq reads[g]
        /\ active[f] => reads'[f] = {}
    BY <1>4, <1>5, <1>11, RunReads
  <2>2. ToTell(stack) \ {f} \subseteq ToTell(stack')
    BY <1>4, <2>1
  <2>3. \A g \in Effects, c \in Computeds :
          active'[g] /\ c \in reads'[g] /\ dirty'[c] =>
            active[g] /\ c \in reads[g] /\ dirty[c] /\ g \notin {f}
    BY <1>1, <1>6, <1>11, <2>1 DEF flags
  <2> QED BY <1>1, <2>2, <2>3, HeardKept
<1> QED
  BY <1>2, <1>8, <1>9, <1>10, <1>11

LEMMA ControlHeard ==
  ASSUME HeardInv, SettlingInv, Throw \/ Catch \/ StartTask \/ UNCHANGED vars
  PROVE  HeardInv'
<1>1. CASE UNCHANGED vars
  BY <1>1 DEF vars, tracking, flags, control, HeardInv, Heard, Running, top
<1>2. CASE Throw \/ Catch
  BY <1>2 DEF Throw, Catch, SettlingInv, HeardInv
<1>3. CASE StartTask
  <2>1. /\ stack = <<>> /\ ~Running({"get"})
        /\ UNCHANGED <<tracking, flags, dirty, control>>
    BY <1>3 DEF StartTask, Running
  <2>2. ToTell(stack) = {}
    <3>1. stack \in Seq(FrameSet) /\ Len(stack) = 0
      BY <2>1
    <3> QED BY <3>1, NoFrameAdds
  <2>3. Heard => Heard'
    BY <2>1, <2>2, HeardSame DEF tracking, flags
  <2> QED BY <2>1, <2>3 DEF HeardInv, control
<1> QED
  BY <1>1, <1>2, <1>3

LEMMA NextHeard ==
  ASSUME QuietEffects, TrackingInv, SettlingInv, HeardInv, [Next]_vars
  PROVE  HeardInv'
<1>1. CASE Throw \/ Catch \/ StartTask \/ UNCHANGED vars
  BY <1>1, ControlHeard
<1>2. CASE \/ \E k \in Keys : readKey(k)
           \/ \E c \in Computeds : readComputed(c)
  <2>1. threw' = threw
    BY <1>2 DEF readKey, readComputed, control
  <2> QED BY <1>2, <2>1, ReadHeard DEF HeardInv
<1>3. ASSUME NEW ks \in SUBSET Keys, write(ks) \/ mutateArray(ks) PROVE HeardInv'
  <2>1. threw' = threw
    BY <1>3 DEF write, mutateArray, control
  <2> QED BY <1>3, <2>1, WriteHeard DEF HeardInv
<1>4. ASSUME NEW f \in Effects \union Scheduled, callRunner(f) PROVE HeardInv'
  <2>1. threw' = threw
    BY <1>4 DEF callRunner, control
  <2> QED BY <1>4, <2>1, CallRunnerHeard DEF HeardInv
<1>5. ASSUME NEW f \in Functions, stop(f) PROVE HeardInv'
  <2>1. threw' = threw
    BY <1>5 DEF stop, control
  <2> QED BY <1>5, <2>1, StopHeard DEF HeardInv
<1>6. CASE RunReturns \/ CallReturns \/ TriggerDone \/ ResetTracking \/ Unwind
  <2>1. threw' = threw
    BY <1>6 DEF RunReturns, CallReturns, TriggerDone, ResetTracking, Unwind, control
  <2> QED BY <1>6, <2>1, PopHeard DEF HeardInv
<1>7. CASE Get
  <2>1. threw' = threw
    BY <1>7 DEF Get, control
  <2> QED BY <1>7, <2>1, GetHeard DEF HeardInv
<1>8. ASSUME NEW f \in Functions, TriggerEffect(f) PROVE HeardInv'
  <2>1. threw' = threw
    BY <1>8 DEF TriggerEffect, control
  <2> QED BY <1>8, <2>1, TriggerEffectHeard DEF HeardInv
<1>9. ASSUME NEW f \in Functions, RunJob(f) PROVE HeardInv'
  <2>1. threw' = threw
    BY <1>9 DEF RunJob, control
  <2> QED BY <1>9, <2>1, RunJobHeard DEF HeardInv
<1>10. \A ks : ks \in SUBSET Keys \ {{}} => ks \in SUBSET Keys
  OBVIOUS
<1> QED
  BY <1>1, <1>2, <1>3, <1>4, <1>5, <1>6, <1>7, <1>8, <1>9, <1>10 DEF Next, UserCode, Proceed

\* No effect that a trigger runs at once depends on a dirty computed when all
\* code has ended, if only queued effects and code of no effect change state
\* (see ToldOfNextChange, about triggerEffect and the value of a computed).
THEOREM ToldOfNextChangeCorrect ==
  ASSUME ~StopsOuter, QuietEffects PROVE Spec => []ToldOfNextChange
<1>0. NoFeedback
  BY DEF NoFeedback
<1>1. Init => SettlingInv /\ HeardInv
  <2>1. Init => Heard
    BY DEF Init, Heard, Functions
  <2> QED BY <2>1, InitSettling DEF HeardInv
<1>2. TrackingInv /\ SettlingInv /\ HeardInv /\ [Next]_vars => SettlingInv' /\ HeardInv'
  BY <1>0, NextSettling, NextHeard
<1>3. HeardInv => ToldOfNextChange
  <2> SUFFICES ASSUME HeardInv, stack = <<>>, ~threw,
                      NEW f \in Effects, NEW c \in Computeds, active[f], c \in reads[f]
               PROVE  ~dirty[c]
    BY DEF ToldOfNextChange
  <2>1. ToTell(stack) = {} /\ ~Running({"get"})
    <3>1. stack \in Seq(FrameSet) /\ Len(stack) = 0
      OBVIOUS
    <3> QED BY <3>1, NoFrameAdds DEF Running
  <2> QED BY <2>1 DEF HeardInv, Heard
<1> QED
  BY <1>1, <1>2, <1>3, TrackingInvariant, PTL DEF Spec
==============================================================================
