--------------------------- MODULE ReconcilerProofs ---------------------------
(* Safety of Reconciler for any number of components, updates and promises.  *)
(* Three facts about the trees carry the proof: the updates of a component   *)
(* are in both queues, in their order; the tree that is rendered has the     *)
(* queues of the current one where the render has not come to yet; and an    *)
(* update is in the state of a queue exactly if it has lost its lane.  The   *)
(* invariant is proved in layers: the types, then the updates, then the      *)
(* marks and, from the updates, what is shown.                               *)
EXTENDS Reconciler, SequenceLemmas, SequenceTheorems, TLAPS

\* The lanes that are rendered are pending; nothing is staged while a commit
\* waits, as an update cancels it.
WorkOK ==
  /\ work.phase = "rendering" => work.lanes \subseteq root.pending
  /\ work.phase = "waiting" => \A f \in Fibers : concurrentQueues[f] = <<>>

\* NothingStranded, of the tree that is rendered: it is the next one shown.
MarksOK ==
  \A f \in Fibers :
    /\ lanesOf(workInProgress.queue[f].baseUpdates) \cup lanesOf(sharedPending[f])
         \subseteq workInProgress.lanes[f]
    /\ work.phase = "waiting" => workInProgress.lanes[f] \subseteq workInProgress.childLanes

\* Every update was made once, to one component.
LogOK ==
  /\ \A f \in Fibers : \A i \in 1..Len(log[f]) : log[f][i] <= updates
  /\ \A f, g \in Fibers : \A i \in 1..Len(log[f]), j \in 1..Len(log[g]) :
       log[f][i] = log[g][j] => f = g /\ i = j

\* An update that no render has seen.
Fresh(update) == update.lane # NoLane /\ update.callback

AllFresh(list) == \A i \in 1..Len(list) : Fresh(list[i])

FreshOK == \A f \in Fibers : AllFresh(sharedPending[f]) /\ AllFresh(concurrentQueues[f])

\* The state is what the base state has, and the updates without a lane.
QueueOK(q) ==
  /\ Range(q.baseState) \subseteq q.state
  /\ \A i \in q.state : \/ i \in Range(q.baseState)
                        \/ \E j \in 1..Len(q.baseUpdates) : q.baseUpdates[j].id = i
  /\ \A j \in 1..Len(q.baseUpdates) :
       /\ q.baseUpdates[j].id \in q.state <=> q.baseUpdates[j].lane = NoLane
       /\ q.baseUpdates[j].callback <=> q.baseUpdates[j].lane # NoLane

\* The callbacks are those of the updates that are new in a queue's state.
Succeeds(next, shown) ==
  /\ QueueOK(shown) /\ QueueOK(next)
  /\ shown.callbacks = {}
  /\ next.state = shown.state \cup next.callbacks
  /\ shown.state \cap next.callbacks = {}

QueuesOK ==
  \A f \in Fibers :
    /\ Succeeds(workInProgress.queue[f], current.queue[f])
    /\ work.phase = "rendering" /\ work.next <= f =>
         workInProgress.queue[f] = current.queue[f]

\* A render has done its lanes up to the component it comes to next.
RenderedOK ==
  /\ work.phase = "rendering" /\ work.next = 0 =>
       workInProgress.childLanes = current.childLanes
  /\ \A f \in Fibers :
       LET left == lanesOf(workInProgress.queue[f].baseUpdates)
       IN /\ work.phase = "rendering" /\ f < work.next =>
               (left \cup lanesOf(sharedPending[f])) \cap work.lanes = {}
          /\ work.phase = "waiting" => TransitionLane \notin left

IInv ==
  /\ TypeOK /\ WorkOK
  /\ NothingLost
  /\ NothingStranded /\ MarksOK
  /\ LogOK /\ FreshOK /\ QueuesOK /\ CallbackWhenShown
  /\ RenderedOK
------------------------------------------------------------------------------
\* Sequences

LEMMA FirstProperties ==
  ASSUME NEW S, NEW s \in Seq(S), NEW n \in 0..Len(s)
  PROVE  /\ SubSeq(s, 1, n) \in Seq(S) /\ Len(SubSeq(s, 1, n)) = n
         /\ \A i \in 1..n : SubSeq(s, 1, n)[i] = s[i]
<1>1. Len(s) \in Nat /\ \A i \in 1..Len(s) : s[i] \in S
  BY LenProperties, ElementOfSeq
<1>2. n \in Int /\ 1 \in Int /\ n >= 0 /\ \A i \in 1..n : s[i] \in S
  BY <1>1
<1>3. /\ SubSeq(s, 1, n) \in Seq(S)
      /\ Len(SubSeq(s, 1, n)) = IF 1 <= n THEN n - 1 + 1 ELSE 0
      /\ \A i \in 1..(n - 1 + 1) : SubSeq(s, 1, n)[i] = s[1 + i - 1]
  BY <1>2, SubSeqProperties
<1> QED
  BY <1>2, <1>3

LEMMA Regrouped ==
  ASSUME NEW S, NEW s \in Seq(S), NEW t \in Seq(S), NEW u \in Seq(S)
  PROVE  s \o (t \o u) = (s \o t) \o u
<1>1. (s \o t) \o u = s \o (t \o u)
  BY ConcatAssociative
<1> QED
  BY <1>1

\* Three lists of ids, end to end: the grouping does not matter. The equation is named, to be
\* used for one triple at a time.
Grouped(s, t, u) == (s \o t) \o u = s \o (t \o u)

LEMMA IdsRegrouped ==
  /\ \A s, t \in Seq(Ids) : s \o t \in Seq(Ids)
  /\ \A s, t, u \in Seq(Ids) : Grouped(s, t, u)
<1>1. \A S : \A s, t \in Seq(S) : s \o t \in Seq(S)
  BY ConcatProperties
<1>2. \A S : \A s, t, u \in Seq(S) : (s \o t) \o u = s \o (t \o u)
  BY ConcatAssociative
<1>3. ASSUME NEW s \in Seq(Ids), NEW t \in Seq(Ids) PROVE s \o t \in Seq(Ids)
  BY <1>1
<1>4. ASSUME NEW s \in Seq(Ids), NEW t \in Seq(Ids), NEW u \in Seq(Ids)
      PROVE  Grouped(s, t, u)
  <2>1. (s \o t) \o u = s \o (t \o u)
    BY <1>2
  <2> QED BY <2>1 DEF Grouped
<1> QED
  BY <1>3, <1>4

LEMMA InTwoParts ==
  ASSUME NEW S, NEW a \in Seq(S), NEW b \in Seq(S), NEW c \in Seq(S),
         Len(c) = Len(a) + Len(b),
         \A i \in 1..Len(a) : c[i] = a[i],
         \A i \in 1..Len(b) : c[Len(a) + i] = b[i]
  PROVE  a \o b = c
<1>1. /\ a \o b \in Seq(S) /\ Len(a \o b) = Len(a) + Len(b)
      /\ \A i \in 1..(Len(a) + Len(b)) : (a \o b)[i] = IF i <= Len(a) THEN a[i] ELSE b[i - Len(a)]
      /\ Len(a) \in Nat /\ Len(b) \in Nat
  BY ConcatProperties, LenProperties
<1>2. ASSUME NEW i \in 1..(Len(a) + Len(b))
      PROVE  (a \o b)[i] = c[i]
  <2>1. CASE i <= Len(a)
    <3>1. i \in 1..Len(a)
      BY <1>1, <2>1
    <3> QED BY <1>1, <2>1, <3>1
  <2>2. CASE ~(i <= Len(a))
    <3>1. i - Len(a) \in 1..Len(b) /\ Len(a) + (i - Len(a)) = i
      BY <1>1, <2>2
    <3> QED BY <1>1, <2>2, <3>1
  <2> QED BY <2>1, <2>2
<1> QED
  BY <1>1, <1>2, SeqEqual

LEMMA TupleProperties ==
  ASSUME NEW S, NEW n \in Nat, NEW s \in [1..n -> S]
  PROVE  s \in Seq(S) /\ Len(s) = n
<1>1. \A i \in 1..n : s[i] \in S
  OBVIOUS
<1>2. s = [i \in 1..n |-> s[i]]
  OBVIOUS
<1>3. [i \in 1..n |-> s[i]] \in Seq(S)
  BY <1>1, IsASeq
<1>4. s \in Seq(S)
  BY <1>2, <1>3, Zenon
<1>5. DOMAIN s = 1..n /\ DOMAIN s = 1..Len(s) /\ Len(s) \in Nat
  BY <1>4, LenProperties
<1> QED
  BY <1>4, <1>5
------------------------------------------------------------------------------
\* Lists of updates

LEMMA IdsProperties ==
  ASSUME NEW s \in Seq(Update)
  PROVE  /\ ids(s) \in Seq(Ids)
         /\ Len(ids(s)) = Len(s)
         /\ \A i \in 1..Len(s) : ids(s)[i] = s[i].id
<1>1. Len(s) \in Nat /\ DOMAIN s = 1..Len(s) /\ \A i \in 1..Len(s) : s[i] \in Update
  BY LenProperties, ElementOfSeq
<1>2. \A i \in 1..Len(s) : s[i].id \in Ids
  BY <1>1 DEF Update
<1>3. ids(s) = [i \in 1..Len(s) |-> s[i].id]
  BY <1>1 DEF ids
<1>4. [i \in 1..Len(s) |-> s[i].id] \in Seq(Ids)
  BY <1>1, <1>2, IsASeq
<1>5. DOMAIN ids(s) = 1..Len(s)
  BY <1>3
<1>6. Len(ids(s)) = Len(s)
  BY <1>1, <1>3, <1>4, <1>5, LenProperties
<1> QED
  BY <1>3, <1>4, <1>6

LEMMA IdsConcat ==
  ASSUME NEW s \in Seq(Update), NEW t \in Seq(Update)
  PROVE  ids(s \o t) = ids(s) \o ids(t)
<1>1. /\ ids(s) \in Seq(Ids) /\ ids(t) \in Seq(Ids)
      /\ Len(ids(s)) = Len(s) /\ Len(ids(t)) = Len(t)
      /\ \A i \in 1..Len(s) : ids(s)[i] = s[i].id
      /\ \A i \in 1..Len(t) : ids(t)[i] = t[i].id
  BY IdsProperties
<1>2. /\ s \o t \in Seq(Update) /\ Len(s \o t) = Len(s) + Len(t)
      /\ \A i \in 1..(Len(s) + Len(t)) :
           (s \o t)[i] = IF i <= Len(s) THEN s[i] ELSE t[i - Len(s)]
  BY ConcatProperties
<1>3. /\ ids(s \o t) \in Seq(Ids) /\ Len(ids(s \o t)) = Len(s \o t)
      /\ \A i \in 1..Len(s \o t) : ids(s \o t)[i] = (s \o t)[i].id
  BY <1>2, IdsProperties
<1>4. /\ ids(s) \o ids(t) \in Seq(Ids)
      /\ Len(ids(s) \o ids(t)) = Len(s) + Len(t)
      /\ \A i \in 1..(Len(s) + Len(t)) :
           (ids(s) \o ids(t))[i] = IF i <= Len(s) THEN ids(s)[i] ELSE ids(t)[i - Len(s)]
  <2> DEFINE a == ids(s)
             b == ids(t)
  <2>1. a \in Seq(Ids) /\ b \in Seq(Ids) /\ Len(a) = Len(s) /\ Len(b) = Len(t)
    BY <1>1
  <2> HIDE DEF a, b
  <2>2. /\ a \o b \in Seq(Ids) /\ Len(a \o b) = Len(a) + Len(b)
        /\ \A i \in 1..(Len(a) + Len(b)) :
             (a \o b)[i] = IF i <= Len(a) THEN a[i] ELSE b[i - Len(a)]
    BY <2>1, ConcatProperties
  <2> QED BY <2>1, <2>2 DEF a, b
<1>5. Len(s) \in Nat /\ Len(t) \in Nat
  BY LenProperties
<1>6. ASSUME NEW i \in 1..(Len(s) + Len(t))
      PROVE  ids(s \o t)[i] = (ids(s) \o ids(t))[i]
  <2>1. CASE i <= Len(s)
    <3>1. i \in 1..Len(s)
      BY <1>5, <2>1
    <3> QED BY <1>1, <1>2, <1>3, <1>4, <2>1, <3>1
  <2>2. CASE ~(i <= Len(s))
    <3>1. i - Len(s) \in 1..Len(t)
      BY <1>5, <2>2
    <3> QED BY <1>1, <1>2, <1>3, <1>4, <2>2, <3>1
  <2> QED BY <2>1, <2>2
<1> QED
  BY <1>2, <1>3, <1>4, <1>6, SeqEqual

LEMMA IdsEmpty == ids(<<>>) = <<>>
<1>1. <<>> \in Seq(Update) /\ Len(<<>>) = 0
  BY EmptySeq
<1>2. ids(<<>>) \in Seq(Ids) /\ Len(ids(<<>>)) = 0
  BY <1>1, IdsProperties
<1> QED
  BY <1>2, EmptySeq

LEMMA IdsAppend ==
  ASSUME NEW s \in Seq(Update), NEW u \in Update
  PROVE  ids(Append(s, u)) = Append(ids(s), u.id)
<1>1. /\ ids(s) \in Seq(Ids) /\ Len(ids(s)) = Len(s)
      /\ \A i \in 1..Len(s) : ids(s)[i] = s[i].id
  BY IdsProperties
<1>2. u.id \in Ids /\ Len(s) \in Nat
  BY LenProperties DEF Update
<1>3. /\ Append(s, u) \in Seq(Update) /\ Len(Append(s, u)) = Len(s) + 1
      /\ \A i \in 1..Len(s) : Append(s, u)[i] = s[i]
      /\ Append(s, u)[Len(s) + 1] = u
  BY AppendProperties
<1>4. /\ Append(ids(s), u.id) \in Seq(Ids) /\ Len(Append(ids(s), u.id)) = Len(s) + 1
      /\ \A i \in 1..Len(s) : Append(ids(s), u.id)[i] = ids(s)[i]
      /\ Append(ids(s), u.id)[Len(s) + 1] = u.id
  BY <1>1, <1>2, AppendProperties
<1>5. /\ ids(Append(s, u)) \in Seq(Ids) /\ Len(ids(Append(s, u))) = Len(s) + 1
      /\ \A i \in 1..(Len(s) + 1) : ids(Append(s, u))[i] = Append(s, u)[i].id
  BY <1>3, IdsProperties
<1>6. ASSUME NEW i \in 1..(Len(s) + 1)
      PROVE  ids(Append(s, u))[i] = Append(ids(s), u.id)[i]
  <2>1. CASE i = Len(s) + 1
    BY <1>3, <1>4, <1>5, <2>1
  <2>2. CASE i # Len(s) + 1
    <3>1. i \in 1..Len(s)
      BY <1>2, <2>2
    <3> QED BY <1>1, <1>3, <1>4, <1>5, <3>1
  <2> QED BY <2>1, <2>2
<1> QED
  BY <1>4, <1>5, <1>6, SeqEqual

LEMMA LanesOfType ==
  ASSUME NEW s \in Seq(Update)
  PROVE  /\ lanesOf(s) \in SUBSET Lanes
         /\ lanesOf(s) = {s[i].lane : i \in 1..Len(s)} \ {NoLane}
<1>1. DOMAIN s = 1..Len(s) /\ \A i \in 1..Len(s) : s[i] \in Update
  BY LenProperties, ElementOfSeq
<1>2. \A i \in 1..Len(s) : s[i].lane \in Lanes \cup {NoLane}
  BY <1>1 DEF Update
<1> QED
  BY <1>1, <1>2 DEF lanesOf

LEMMA LanesOfEmpty == lanesOf(<<>>) = {}
  BY DEF lanesOf

LEMMA LanesOfConcat ==
  ASSUME NEW s \in Seq(Update), NEW t \in Seq(Update)
  PROVE  lanesOf(s \o t) = lanesOf(s) \cup lanesOf(t)
<1>1. /\ s \o t \in Seq(Update) /\ Len(s \o t) = Len(s) + Len(t)
      /\ \A i \in 1..(Len(s) + Len(t)) :
           (s \o t)[i] = IF i <= Len(s) THEN s[i] ELSE t[i - Len(s)]
      /\ Len(s) \in Nat /\ Len(t) \in Nat
  BY ConcatProperties, LenProperties
<1>2. \A i \in 1..Len(s) : i \in 1..(Len(s) + Len(t)) /\ (s \o t)[i] = s[i]
  BY <1>1
<1>3. \A i \in 1..Len(t) : /\ i + Len(s) \in 1..(Len(s) + Len(t))
                           /\ (s \o t)[i + Len(s)] = t[i]
  BY <1>1
<1>4. \A i \in 1..(Len(s) + Len(t)) :
        \/ i \in 1..Len(s)
        \/ i - Len(s) \in 1..Len(t) /\ (s \o t)[i] = t[i - Len(s)]
  BY <1>1
<1>5. /\ lanesOf(s) = {s[i].lane : i \in 1..Len(s)} \ {NoLane}
      /\ lanesOf(t) = {t[i].lane : i \in 1..Len(t)} \ {NoLane}
      /\ lanesOf(s \o t) = {(s \o t)[i].lane : i \in 1..(Len(s) + Len(t))} \ {NoLane}
  BY <1>1, LanesOfType
<1> QED
  BY <1>2, <1>3, <1>4, <1>5

LEMMA LanesOfAppend ==
  ASSUME NEW s \in Seq(Update), NEW u \in Update, u.lane # NoLane
  PROVE  lanesOf(Append(s, u)) = lanesOf(s) \cup {u.lane}
<1>1. /\ Append(s, u) \in Seq(Update) /\ Len(Append(s, u)) = Len(s) + 1
      /\ \A i \in 1..Len(s) : Append(s, u)[i] = s[i]
      /\ Append(s, u)[Len(s) + 1] = u /\ Len(s) \in Nat
  BY AppendProperties, LenProperties
<1>2. \A i \in 1..(Len(s) + 1) : i \in 1..Len(s) \/ i = Len(s) + 1
  BY <1>1
<1>3. Len(s) + 1 \in 1..(Len(s) + 1) /\ \A i \in 1..Len(s) : i \in 1..(Len(s) + 1)
  BY <1>1
<1>4. /\ lanesOf(s) = {s[i].lane : i \in 1..Len(s)} \ {NoLane}
      /\ lanesOf(Append(s, u)) = {Append(s, u)[i].lane : i \in 1..(Len(s) + 1)} \ {NoLane}
  BY <1>1, LanesOfType
<1> QED
  BY <1>1, <1>2, <1>3, <1>4
------------------------------------------------------------------------------
\* Processing a queue

LEMMA BaseLength ==
  ASSUME NEW lanes, NEW list \in Seq(Update)
  PROVE  /\ baseLength(lanes, list) \in 0..Len(list)
         /\ \A i \in 1..baseLength(lanes, list) : ~skips(lanes, list[i])
<1> DEFINE P(n) == /\ \A i \in 1..n : ~skips(lanes, list[i])
                   /\ n < Len(list) => skips(lanes, list[n + 1])
           T == {n \in 0..Len(list) : n < Len(list) => skips(lanes, list[n + 1])}
<1>1. Len(list) \in Nat
  BY LenProperties
<1>2. T \in SUBSET Nat /\ Len(list) \in T
  BY <1>1
<1>3. \E n \in T : \A k \in T : n <= k
  <2> HIDE DEF T
  <2> QED BY <1>2, LeastNumber
<1>4. PICK n \in T : \A k \in T : n <= k
  BY <1>3
<1>5. ASSUME NEW i \in 1..n
      PROVE  ~skips(lanes, list[i])
  <2>1. i - 1 \in 0..Len(list) /\ i - 1 < n /\ (i - 1) + 1 = i
    BY <1>1
  <2> QED BY <1>4, <2>1
<1>6. \E m \in 0..Len(list) : P(m)
  BY <1>5
<1>7. baseLength(lanes, list) = CHOOSE m \in 0..Len(list) : P(m)
  BY DEF baseLength
<1>8. baseLength(lanes, list) \in 0..Len(list) /\ P(baseLength(lanes, list))
  <2> HIDE DEF P
  <2> QED BY <1>6, <1>7
<1> QED
  BY <1>8

LEMMA RebasedProperties ==
  ASSUME NEW lanes, NEW u \in Update
  PROVE  /\ rebased(lanes, u) \in Update
         /\ rebased(lanes, u).id = u.id
         /\ skips(lanes, u) => rebased(lanes, u) = u
         /\ ~skips(lanes, u) => /\ rebased(lanes, u).lane = NoLane
                                /\ rebased(lanes, u).callback = FALSE
<1>1. CASE skips(lanes, u)
  BY <1>1 DEF rebased
<1>2. CASE ~skips(lanes, u)
  <2>1. rebased(lanes, u) = [u EXCEPT !.lane = NoLane, !.callback = FALSE]
    BY <1>2 DEF rebased
  <2>2. rebased(lanes, u) = [id |-> u.id, lane |-> NoLane, callback |-> FALSE]
    BY <2>1 DEF Update
  <2> QED BY <1>2, <2>2 DEF Update
<1> QED
  BY <1>1, <1>2

\* The updates before the base go to the base state, the others stay.
Rebased(p, q, list, lanes) ==
  \E base \in 0..Len(list), front \in Seq(Update) :
    /\ \A i \in 1..base : ~skips(lanes, list[i])
    /\ p.baseState = q.baseState \o ids(front)
    /\ Len(front) = base /\ \A i \in 1..base : front[i] = list[i]
    /\ Len(p.baseUpdates) = Len(list) - base
    /\ \A i \in 1..(Len(list) - base) : p.baseUpdates[i] = rebased(lanes, list[base + i])

\* The others are applied, and have their callbacks called.
Applied(p, q, list, lanes) ==
  /\ p.state = Range(q.baseState)
                \cup {list[i].id : i \in {j \in 1..Len(list) : ~skips(lanes, list[j])}}
  /\ p.callbacks = {list[i].id : i \in {j \in 1..Len(list) :
                                          ~skips(lanes, list[j]) /\ list[j].callback}}

LEMMA ProcessProperties ==
  ASSUME NEW q \in UpdateQueue, NEW pending \in Seq(Update), NEW lanes,
         NEW list, list = q.baseUpdates \o pending,
         NEW p, p = process(q, pending, lanes)
  PROVE  /\ list \in Seq(Update) /\ p \in UpdateQueue
         /\ Rebased(p, q, list, lanes)
         /\ Applied(p, q, list, lanes)
<1> DEFINE base == baseLength(lanes, list)
           first == SubSeq(list, 1, base)
           rest == [i \in 1..(Len(list) - base) |-> rebased(lanes, list[base + i])]
           applied == {i \in DOMAIN list : ~skips(lanes, list[i])}
           result == process(q, pending, lanes)
<1>1. q.baseUpdates \in Seq(Update) /\ q.baseState \in Seq(Ids)
  BY DEF UpdateQueue
<1>2. list \in Seq(Update)
  BY <1>1, ConcatProperties
<1>3. /\ Len(list) \in Nat /\ DOMAIN list = 1..Len(list)
      /\ \A i \in 1..Len(list) : list[i] \in Update
  BY <1>2, LenProperties, ElementOfSeq
<1>4. base \in 0..Len(list) /\ \A i \in 1..base : ~skips(lanes, list[i])
  BY <1>2, BaseLength
<1>5. first \in Seq(Update) /\ Len(first) = base /\ \A i \in 1..base : first[i] = list[i]
  BY <1>2, <1>4, FirstProperties
<1>6. rest \in Seq(Update) /\ Len(rest) = Len(list) - base
  <2>1. Len(list) - base \in Nat
    BY <1>3, <1>4
  <2>2. \A i \in 1..(Len(list) - base) : rebased(lanes, list[base + i]) \in Update
    <3>1. \A i \in 1..(Len(list) - base) : base + i \in 1..Len(list)
      BY <1>3, <1>4
    <3> QED BY <1>3, <3>1, RebasedProperties
  <2>3. rest \in [1..(Len(list) - base) -> Update]
    BY <2>2
  <2> HIDE DEF rest
  <2> QED BY <2>1, <2>3, TupleProperties
<1>7. result = [baseState |-> q.baseState \o ids(first), baseUpdates |-> rest,
                state |-> Range(q.baseState) \cup {list[i].id : i \in applied},
                callbacks |-> {list[i].id : i \in {j \in applied : list[j].callback}}]
  BY DEF process
<1>8. q.baseState \o ids(first) \in Seq(Ids)
  <2>1. ids(first) \in Seq(Ids)
    BY <1>5, IdsProperties
  <2> QED BY <1>1, <2>1, ConcatProperties
<1>9. Range(q.baseState) \in SUBSET Ids
  <2>1. \A i \in DOMAIN q.baseState : q.baseState[i] \in Ids
    BY <1>1, LenProperties, ElementOfSeq
  <2> QED BY <2>1 DEF Range
<1>10. \A i \in 1..Len(list) : list[i].id \in Ids
  BY <1>3 DEF Update
<1>11. result \in UpdateQueue
  <2> HIDE DEF rest, first, result
  <2> QED BY <1>3, <1>6, <1>7, <1>8, <1>9, <1>10 DEF UpdateQueue
<1>12. \A i \in 1..(Len(list) - base) : rest[i] = rebased(lanes, list[base + i])
  OBVIOUS
<1> QED
  <2> HIDE DEF rest, first, result, applied
  <2>1. result.baseState = q.baseState \o ids(first) /\ result.baseUpdates = rest
    BY <1>7
  <2>2. /\ Len(result.baseUpdates) = Len(list) - base
        /\ \A i \in 1..(Len(list) - base) : result.baseUpdates[i] = rebased(lanes, list[base + i])
    BY <1>6, <1>12, <2>1
  <2>3. applied = {j \in 1..Len(list) : ~skips(lanes, list[j])}
    BY <1>3 DEF applied
  <2>4. /\ result.state = Range(q.baseState) \cup {list[i].id : i \in applied}
        /\ result.callbacks = {list[i].id : i \in {j \in applied : list[j].callback}}
    BY <1>7
  <2>5. {j \in applied : list[j].callback}
          = {j \in 1..Len(list) : ~skips(lanes, list[j]) /\ list[j].callback}
    BY <2>3
  <2>6. p = result
    BY DEF result
  <2>7. Rebased(p, q, list, lanes)
    <3> HIDE DEF base
    <3>1. base \in 0..Len(list) /\ first \in Seq(Update)
      BY <1>4, <1>5
    <3>2. /\ \A i \in 1..base : ~skips(lanes, list[i])
          /\ p.baseState = q.baseState \o ids(first)
          /\ Len(first) = base /\ \A i \in 1..base : first[i] = list[i]
          /\ Len(p.baseUpdates) = Len(list) - base
          /\ \A i \in 1..(Len(list) - base) : p.baseUpdates[i] = rebased(lanes, list[base + i])
      BY <1>4, <1>5, <2>1, <2>2, <2>6
    <3> QED BY <3>1, <3>2, Zenon DEF Rebased
  <2>8. Applied(p, q, list, lanes)
    BY <2>3, <2>4, <2>5, <2>6 DEF Applied
  <2> QED BY <1>2, <1>11, <2>6, <2>7, <2>8
------------------------------------------------------------------------------
\* Trees

LEMMA TreeFields ==
  ASSUME NEW tree \in Tree
  PROVE  /\ tree.queue \in [Fibers -> UpdateQueue]
         /\ tree.lanes \in [Fibers -> SUBSET Lanes]
         /\ tree.childLanes \in SUBSET Lanes
         /\ \A f \in Fibers : /\ tree.queue[f].baseState \in Seq(Ids)
                              /\ tree.queue[f].baseUpdates \in Seq(Update)
                              /\ tree.queue[f].state \in SUBSET Ids
                              /\ tree.queue[f].callbacks \in SUBSET Ids
                              /\ tree.lanes[f] \in SUBSET Lanes
  BY DEF Tree, UpdateQueue

\* A tree where a component has an update.
marked(tree, f, lane) == [tree EXCEPT !.lanes[f] = @ \cup {lane}]

LEMMA MarkedProperties ==
  ASSUME NEW tree \in Tree, NEW f \in Fibers, NEW lane \in Lanes,
         NEW t, t = marked(tree, f, lane)
  PROVE  /\ t \in Tree /\ t.queue = tree.queue /\ t.childLanes = tree.childLanes
         /\ t.lanes[f] = tree.lanes[f] \cup {lane}
         /\ \A g \in Fibers : tree.lanes[g] \subseteq t.lanes[g]
  BY DEF Tree, marked

LEMMA MarkLanesToRootProperties ==
  ASSUME NEW tree \in Tree, NEW staged \in [Fibers -> Seq(Update)],
         NEW t, t = markLanesToRoot(tree, staged)
  PROVE  /\ t \in Tree /\ t.queue = tree.queue
         /\ \A f \in Fibers : t.lanes[f] = tree.lanes[f] \cup lanesOf(staged[f])
         /\ t.childLanes = tree.childLanes \cup UNION {lanesOf(staged[f]) : f \in Fibers}
<1> DEFINE lanes == [f \in Fibers |-> lanesOf(staged[f])]
           child == UNION {lanesOf(staged[f]) : f \in Fibers}
<1>1. \A f \in Fibers : lanesOf(staged[f]) \in SUBSET Lanes
  BY LanesOfType
<1>2. lanes \in [Fibers -> SUBSET Lanes] /\ child \in SUBSET Lanes
  BY <1>1
<1>3. t = [markLanes(tree, lanes) EXCEPT !.childLanes = @ \cup child]
  BY DEF markLanesToRoot
<1>4. /\ markLanes(tree, lanes) \in Tree
      /\ markLanes(tree, lanes).queue = tree.queue
      /\ markLanes(tree, lanes).childLanes = tree.childLanes
      /\ \A f \in Fibers : markLanes(tree, lanes).lanes[f] = tree.lanes[f] \cup lanes[f]
  <2> HIDE DEF lanes
  <2> QED BY <1>2 DEF markLanes, Tree
<1>5. /\ t \in Tree /\ t.queue = tree.queue
      /\ \A f \in Fibers : t.lanes[f] = tree.lanes[f] \cup lanes[f]
      /\ t.childLanes = tree.childLanes \cup child
  <2> HIDE DEF lanes, child
  <2> QED BY <1>2, <1>3, <1>4 DEF Tree
<1> QED
  BY <1>5

LEMMA TransferredProperties ==
  ASSUME NEW tree \in Tree, NEW f \in Fibers, sharedPending[f] \in Seq(Update),
         NEW t, t = transferred(tree, f)
  PROVE  /\ t \in Tree /\ t.lanes = tree.lanes /\ t.childLanes = tree.childLanes
         /\ \A g \in Fibers \ {f} : t.queue[g] = tree.queue[g]
         /\ t.queue[f].baseState = tree.queue[f].baseState
         /\ t.queue[f].baseUpdates = tree.queue[f].baseUpdates \o sharedPending[f]
         /\ t.queue[f].state = tree.queue[f].state
         /\ t.queue[f].callbacks = tree.queue[f].callbacks
<1> DEFINE appended == tree.queue[f].baseUpdates \o sharedPending[f]
<1>1. appended \in Seq(Update)
  BY TreeFields, ConcatProperties
<1>2. t = [tree EXCEPT !.queue[f].baseUpdates = appended]
  BY DEF transferred
<1> HIDE DEF appended
<1>3. /\ t \in Tree /\ t.lanes = tree.lanes /\ t.childLanes = tree.childLanes
      /\ \A g \in Fibers \ {f} : t.queue[g] = tree.queue[g]
      /\ t.queue[f] = [tree.queue[f] EXCEPT !.baseUpdates = appended]
  <2> DEFINE q == [tree.queue[f] EXCEPT !.baseUpdates = appended]
  <2>1. tree.queue[f] \in UpdateQueue
    BY TreeFields
  <2>2. q \in UpdateQueue
    BY <1>1, <2>1 DEF UpdateQueue
  <2>3. t = [tree EXCEPT !.queue[f] = q]
    BY <1>2 DEF Tree
  <2> HIDE DEF q
  <2>4. /\ t \in Tree /\ t.lanes = tree.lanes /\ t.childLanes = tree.childLanes
        /\ \A g \in Fibers \ {f} : t.queue[g] = tree.queue[g]
        /\ t.queue[f] = q
    BY <2>2, <2>3 DEF Tree
  <2> QED BY <2>4 DEF q
<1>4. /\ t.queue[f].baseState = tree.queue[f].baseState
      /\ t.queue[f].baseUpdates = appended
      /\ t.queue[f].state = tree.queue[f].state
      /\ t.queue[f].callbacks = tree.queue[f].callbacks
  <2>1. tree.queue[f] \in UpdateQueue
    BY TreeFields
  <2> QED BY <1>3, <2>1 DEF UpdateQueue
<1> QED
  BY <1>3, <1>4 DEF appended

LEMMA CompletedProperties ==
  ASSUME NEW tree \in Tree
  PROVE  /\ completed(tree) \in Tree
         /\ completed(tree).queue = tree.queue /\ completed(tree).lanes = tree.lanes
         /\ completed(tree).childLanes = UNION {tree.lanes[f] : f \in Fibers}
<1> DEFINE child == UNION {tree.lanes[f] : f \in Fibers}
<1>1. child \in SUBSET Lanes
  BY TreeFields
<1>2. completed(tree) = [tree EXCEPT !.childLanes = child]
  BY DEF completed
<1> HIDE DEF child
<1>3. /\ completed(tree) \in Tree
      /\ completed(tree).queue = tree.queue /\ completed(tree).lanes = tree.lanes
      /\ completed(tree).childLanes = child
  BY <1>1, <1>2 DEF Tree
<1> QED
  BY <1>3 DEF child

LEMMA FinishedTreeProperties ==
  ASSUME TypeOK
  PROVE  /\ finishedTree \in Tree /\ finishedTree.queue = workInProgress.queue
         /\ \A f \in Fibers :
              /\ finishedTree.lanes[f] = workInProgress.lanes[f] \cup lanesOf(concurrentQueues[f])
              /\ finishedTree.lanes[f] \subseteq finishedTree.childLanes
<1> DEFINE tree == completed(workInProgress)
<1>1. workInProgress \in Tree /\ concurrentQueues \in [Fibers -> Seq(Update)]
  BY DEF TypeOK
<1>2. /\ tree \in Tree /\ tree.queue = workInProgress.queue /\ tree.lanes = workInProgress.lanes
      /\ tree.childLanes = UNION {workInProgress.lanes[f] : f \in Fibers}
  BY <1>1, CompletedProperties
<1>3. finishedTree = markLanesToRoot(tree, concurrentQueues)
  BY DEF finishedTree
<1> HIDE DEF tree
<1>4. /\ finishedTree \in Tree /\ finishedTree.queue = tree.queue
      /\ \A f \in Fibers : finishedTree.lanes[f] = tree.lanes[f] \cup lanesOf(concurrentQueues[f])
      /\ finishedTree.childLanes =
           tree.childLanes \cup UNION {lanesOf(concurrentQueues[f]) : f \in Fibers}
  BY <1>1, <1>2, <1>3, MarkLanesToRootProperties
<1> QED
  BY <1>2, <1>4

\* The tree that commitRoot puts on the screen.
committedTree(tree) ==
  [tree EXCEPT !.queue = [f \in Fibers |-> [@[f] EXCEPT !.callbacks = {}]]]

LEMMA CommittedProperties ==
  ASSUME NEW tree \in Tree, NEW t, t = committedTree(tree)
  PROVE  /\ t \in Tree /\ t.lanes = tree.lanes /\ t.childLanes = tree.childLanes
         /\ \A f \in Fibers : /\ t.queue[f].baseState = tree.queue[f].baseState
                              /\ t.queue[f].baseUpdates = tree.queue[f].baseUpdates
                              /\ t.queue[f].state = tree.queue[f].state
                              /\ t.queue[f].callbacks = {}
<1> DEFINE q == [f \in Fibers |-> [tree.queue[f] EXCEPT !.callbacks = {}]]
<1>1. q \in [Fibers -> UpdateQueue]
  <2>1. ASSUME NEW f \in Fibers
        PROVE  [tree.queue[f] EXCEPT !.callbacks = {}] \in UpdateQueue
    <3>1. tree.queue[f] \in UpdateQueue
      BY TreeFields
    <3> QED BY <3>1 DEF UpdateQueue
  <2> QED BY <2>1
<1>2. t = [tree EXCEPT !.queue = q]
  BY DEF committedTree
<1>3. \A f \in Fibers : /\ q[f].baseState = tree.queue[f].baseState
                        /\ q[f].baseUpdates = tree.queue[f].baseUpdates
                        /\ q[f].state = tree.queue[f].state
                        /\ q[f].callbacks = {}
  BY TreeFields DEF UpdateQueue
<1> HIDE DEF q
<1>4. t \in Tree /\ t.lanes = tree.lanes /\ t.childLanes = tree.childLanes /\ t.queue = q
  BY <1>1, <1>2 DEF Tree
<1> QED
  BY <1>3, <1>4
------------------------------------------------------------------------------
\* Lanes of the root and its task

RootType == [pending: SUBSET Lanes, suspended: SUBSET Lanes, pinged: SUBSET Lanes]
RootOK(r) == r \in RootType /\ r.pinged \subseteq r.suspended /\ r.suspended \subseteq r.pending

LEMMA HighestPriorityLane ==
  ASSUME NEW lanes \in SUBSET Lanes, lanes # {}
  PROVE  getHighestPriorityLane(lanes) \in lanes
<1>1. lanes \in SUBSET Nat
  BY DEF Lanes, SyncLane, DefaultLane, TransitionLane
<1>2. \E l \in lanes : \A k \in lanes : l <= k
  BY <1>1, LeastNumber
<1> QED
  BY <1>2 DEF getHighestPriorityLane

\* What is rendered next is pending.
LEMMA NextLanes ==
  ASSUME NEW r, RootOK(r), NEW wip \in SUBSET r.pending
  PROVE  getNextLanes(r, wip) \in SUBSET r.pending
<1>1. r.pending \in SUBSET Lanes /\ r.suspended \in SUBSET Lanes /\ r.pinged \in SUBSET Lanes
  BY DEF RootOK, RootType
<1> QED
  BY <1>1 DEF getNextLanes, getHighestPriorityLanes

LEMMA MarkRootProperties ==
  ASSUME NEW r, RootOK(r), NEW lane \in Lanes, NEW lanes \in SUBSET Lanes, NEW w
  PROVE  /\ RootOK(markRootUpdated(r, lane))
         /\ markRootUpdated(r, lane).pending = r.pending \cup {lane}
         /\ RootOK(markRootPinged(r, lanes)) /\ markRootPinged(r, lanes).pending = r.pending
         /\ lanes \subseteq r.pending =>
              /\ RootOK(markRootSuspended(r, lanes, w))
              /\ markRootSuspended(r, lanes, w).pending = r.pending
         /\ RootOK(markRootFinished(lanes)) /\ markRootFinished(lanes).pending = lanes
<1>1. RootOK(markRootUpdated(r, lane)) /\ markRootUpdated(r, lane).pending = r.pending \cup {lane}
  BY DEF RootOK, RootType, markRootUpdated
<1>2. RootOK(markRootPinged(r, lanes)) /\ markRootPinged(r, lanes).pending = r.pending
  BY DEF RootOK, RootType, markRootPinged
<1>3. ASSUME lanes \subseteq r.pending
      PROVE  /\ RootOK(markRootSuspended(r, lanes, w))
             /\ markRootSuspended(r, lanes, w).pending = r.pending
  BY <1>3 DEF RootOK, RootType, markRootSuspended
<1>4. RootOK(markRootFinished(lanes)) /\ markRootFinished(lanes).pending = lanes
  BY DEF RootOK, RootType, markRootFinished
<1> QED
  BY <1>1, <1>2, <1>3, <1>4

CallbackType == [priority: Lanes \cup {NoLane}, live: BOOLEAN]
ScheduledType == [root: BOOLEAN, microtask: BOOLEAN, sync: BOOLEAN]

LEMMA NoTaskType == NoTask \in CallbackType
<1>1. FALSE \in BOOLEAN /\ NoLane \in Lanes \cup {NoLane}
  OBVIOUS
<1> QED
  BY <1>1 DEF NoTask, CallbackType

LEMMA EnsuredType == ensured \in ScheduledType
<1>1. TRUE \in BOOLEAN
  OBVIOUS
<1> QED
  BY <1>1 DEF ensured, ScheduledType

\* The lanes of a render, for getNextLanes.
LEMMA WipLanes ==
  ASSUME NEW r, NEW w \in Work, w.phase = "rendering" => w.lanes \subseteq r.pending
  PROVE  wipLanesOf(w) \in SUBSET r.pending
  BY DEF wipLanesOf

LEMMA TaskForType ==
  ASSUME NEW r, RootOK(r), callback \in CallbackType,
         NEW w \in Work, w.phase = "rendering" => w.lanes \subseteq r.pending
  PROVE  taskFor(r, w) \in CallbackType
<1> DEFINE next == getNextLanes(r, wipLanesOf(w))
           priority == getHighestPriorityLane(next)
<1>1. next \in SUBSET Lanes
  BY NextLanes, WipLanes DEF RootOK, RootType
<1>2. next # {} => priority \in Lanes
  BY <1>1, HighestPriorityLane
<1>3. TRUE \in BOOLEAN /\ FALSE \in BOOLEAN /\ SyncLane \in Lanes
  BY DEF Lanes
<1>4. taskFor(r, w) =
        IF next = {} \/ w.phase = "waiting" THEN NoTask
        ELSE IF priority = SyncLane THEN [priority |-> SyncLane, live |-> FALSE]
        ELSE IF priority = callback.priority THEN callback
        ELSE [priority |-> priority, live |-> TRUE]
  BY DEF taskFor
<1> HIDE DEF next, priority
<1> QED
  BY <1>2, <1>3, <1>4, NoTaskType DEF CallbackType

TaskTypes ==
  /\ callback \in CallbackType /\ stray \in BOOLEAN
  /\ scheduled \in ScheduledType
  /\ executing \in {"nothing", "flushing", "renderRootSync", "renderRootConcurrent", "committed"}
  /\ inTask \in {"none", "root", "stray"}

LEMMA EndTaskType ==
  ASSUME NEW r, RootOK(r), callback \in CallbackType, stray \in BOOLEAN,
         NEW w \in Work, w.phase = "rendering" => w.lanes \subseteq r.pending,
         endTask(r, w)
  PROVE  TaskTypes' /\ executing' = "nothing"
<1>1. callback' \in CallbackType /\ scheduled' \in ScheduledType
  BY TaskForType, EnsuredType DEF endTask
<1>2. stray' \in BOOLEAN
  BY Zenon DEF endTask
<1>3. executing' = "nothing" /\ inTask' = "none"
  BY DEF endTask
<1> QED
  BY <1>1, <1>2, <1>3 DEF TaskTypes
------------------------------------------------------------------------------
\* What a step does to the trees and the queues

Kept == UNCHANGED <<updates, history>>

\* A render goes on to a component, or over those that have nothing to do.
GoesOn ==
  \/ work'.next = work.next
  \/ beginRoot
  \/ \E f \in Fibers : bailoutOnAlreadyFinishedWork(f)

\* Nothing; a render goes on.
Quiet ==
  /\ UNCHANGED <<trees, queues>> /\ Kept
  /\ root'.pending = root.pending
  /\ work'.phase = work.phase /\ work'.lanes = work.lanes /\ work'.next >= work.next
  /\ GoesOn

\* A render starts from the tree on the screen.
Restarted ==
  /\ \E lanes \in SUBSET root.pending : prepareFreshStack(concurrentQueues, current, lanes)
  /\ Kept /\ root'.pending = root.pending

LEMMA RenderRootStep ==
  ASSUME TypeOK, WorkOK, NEW lanes \in SUBSET root.pending, renderRoot(lanes), Kept,
         UNCHANGED root
  PROVE  Quiet \/ Restarted
<1>1. CASE work.phase = "rendering" /\ work.lanes = lanes
  <2>1. work' = work /\ work \in Work /\ UNCHANGED <<trees, queues>>
    BY <1>1 DEF renderRoot, TypeOK
  <2>2. work.next \in Int
    BY <2>1, BoundsAssumption DEF Work
  <2> QED BY <2>1, <2>2 DEF Quiet, GoesOn
<1>2. CASE ~(work.phase = "rendering" /\ work.lanes = lanes)
  BY <1>2 DEF renderRoot, Restarted
<1> QED
  BY <1>1, <1>2

LEMMA NextLanesNow ==
  ASSUME TypeOK, WorkOK
  PROVE  nextLanesNow \in SUBSET root.pending /\ RootOK(root)
<1>1. RootOK(root) /\ work \in Work
  BY DEF TypeOK, RootOK, RootType
<1> QED
  BY <1>1, WipLanes, NextLanes DEF WorkOK, nextLanesNow

LEMMA StepForms ==
  ASSUME TypeOK, WorkOK, [Next]_vars
  PROVE  \/ Quiet \/ Restarted
         \/ \E f \in Fibers, lane \in Lanes : enqueueUpdate(f, lane)
         \/ \E f \in Fibers : updateClassInstance(f)
         \/ suspendRender \/ suspendCommit \/ finishRender \/ pendingCommitReady
<1>1. work \in Work /\ work.next \in Int /\ root \in RootType
  BY BoundsAssumption DEF TypeOK, Work, RootType
<1>2. ASSUME UNCHANGED <<trees, queues, root, work, updates, history>>
      PROVE  Quiet
  BY <1>1, <1>2 DEF Quiet, GoesOn, Kept
<1>3. CASE UNCHANGED vars
  BY <1>2, <1>3 DEF vars, environment, control
<1>4. ASSUME NEW f \in Fibers, NEW lane \in Lanes, setState(f, lane)
      PROVE  enqueueUpdate(f, lane)
  BY <1>4 DEF setState
<1>5. ASSUME NEW f \in Fibers, flushSync(f)
      PROVE  enqueueUpdate(f, SyncLane) /\ SyncLane \in Lanes
  BY <1>5 DEF flushSync, Lanes
<1>6. ASSUME NEW f \in Fibers, pingSuspendedRoot(f)
      PROVE  Quiet \/ Restarted
  <2>1. root'.pending = root.pending /\ Kept
    BY <1>1, <1>6 DEF pingSuspendedRoot, markRootPinged, RootType, Kept
  <2>2. CASE UNCHANGED <<trees, queues>> /\ work' = work
    BY <1>1, <2>1, <2>2 DEF Quiet, GoesOn
  <2>3. CASE UNCHANGED <<trees, queues>> /\ work' = [work EXCEPT !.pinged = @ \cup {TransitionLane}]
    BY <1>1, <2>1, <2>3 DEF Quiet, GoesOn, Work
  <2>4. CASE prepareFreshStack(concurrentQueues, current, {})
    BY <2>1, <2>4 DEF Restarted
  <2> QED BY <1>6, <2>2, <2>3, <2>4 DEF pingSuspendedRoot
<1>7. CASE processRootScheduleInMicrotask
  BY <1>2, <1>7 DEF processRootScheduleInMicrotask, environment
<1>8. CASE performConcurrentWorkOnRoot
  <2>1. CASE UNCHANGED <<trees, queues, work>>
    BY <1>2, <1>8, <2>1 DEF performConcurrentWorkOnRoot, environment
  <2>2. CASE renderRoot(nextLanesNow)
    BY <1>8, <2>2, RenderRootStep, NextLanesNow DEF performConcurrentWorkOnRoot, Kept, environment
  <2> QED BY <1>8, <2>1, <2>2 DEF performConcurrentWorkOnRoot
<1>9. CASE yield
  BY <1>2, <1>9 DEF yield, environment
<1>10. CASE performSyncWorkOnRoot
  BY <1>10, RenderRootStep, NextLanesNow DEF performSyncWorkOnRoot, Kept, environment
<1>11. CASE endFlush
  BY <1>2, <1>11 DEF endFlush, environment
<1>12. CASE beginRoot
  <2>1. /\ work'.phase = work.phase /\ work'.lanes = work.lanes
        /\ work'.next \in {1, FiberCount + 1} /\ work.next = 0
    BY <1>1, <1>12 DEF beginRoot, Work
  <2>2. work'.next >= work.next
    BY <2>1, BoundsAssumption
  <2>3. UNCHANGED <<trees, queues>> /\ Kept /\ UNCHANGED root
    BY <1>12 DEF beginRoot, Kept, environment
  <2> QED BY <1>12, <2>1, <2>2, <2>3 DEF Quiet, GoesOn
<1>13. ASSUME NEW f \in Fibers, bailoutOnAlreadyFinishedWork(f)
       PROVE  Quiet
  <2>1. /\ work'.phase = work.phase /\ work'.lanes = work.lanes
        /\ work'.next = work.next + 1
    BY <1>1, <1>13 DEF bailoutOnAlreadyFinishedWork, Work
  <2>2. work'.next >= work.next
    BY <1>1, <2>1
  <2>3. UNCHANGED <<trees, queues>> /\ Kept /\ UNCHANGED root
    BY <1>13 DEF bailoutOnAlreadyFinishedWork, Kept, environment
  <2> QED BY <1>13, <2>1, <2>2, <2>3 DEF Quiet, GoesOn
<1>14. CASE endCommit
  BY <1>2, <1>14 DEF endCommit, environment
<1> QED
  BY <1>3, <1>4, <1>5, <1>6, <1>7, <1>8, <1>9, <1>10, <1>11, <1>12, <1>13, <1>14
     DEF Next, performUnitOfWork, completeRender
------------------------------------------------------------------------------
\* What the steps that change the queues leave

QueuesType ==
  /\ sharedPending \in [Fibers -> Seq(Update)]
  /\ concurrentQueues \in [Fibers -> Seq(Update)]

TreesType == current \in Tree /\ workInProgress \in Tree /\ QueuesType

\* The staged updates go to the queues of their components.
Requeued(staged, tree, wip) ==
  /\ \A f \in Fibers : /\ concurrentQueues'[f] = <<>>
                       /\ sharedPending'[f] = sharedPending[f] \o staged[f]
  /\ current'.queue = tree.queue /\ workInProgress'.queue = wip.queue
  /\ \A f \in Fibers : /\ current'.lanes[f] = tree.lanes[f] \cup lanesOf(staged[f])
                       /\ workInProgress'.lanes[f] = wip.lanes[f] \cup lanesOf(staged[f])
  /\ current'.childLanes = tree.childLanes \cup UNION {lanesOf(staged[f]) : f \in Fibers}

LEMMA Requeueing ==
  ASSUME TypeOK, NEW staged \in [Fibers -> Seq(Update)], NEW tree \in Tree, NEW wip \in Tree,
         finishQueueingConcurrentUpdates(staged, tree, wip)
  PROVE  TreesType' /\ Requeued(staged, tree, wip)
<1>1. /\ concurrentQueues' = [f \in Fibers |-> <<>>]
      /\ sharedPending' = [f \in Fibers |-> sharedPending[f] \o staged[f]]
      /\ current' = markLanesToRoot(tree, staged) /\ workInProgress' = markLanesToRoot(wip, staged)
  BY DEF finishQueueingConcurrentUpdates
<1>2. /\ current' \in Tree /\ current'.queue = tree.queue
      /\ \A f \in Fibers : current'.lanes[f] = tree.lanes[f] \cup lanesOf(staged[f])
      /\ current'.childLanes = tree.childLanes \cup UNION {lanesOf(staged[f]) : f \in Fibers}
  BY <1>1, MarkLanesToRootProperties
<1>3. /\ workInProgress' \in Tree /\ workInProgress'.queue = wip.queue
      /\ \A f \in Fibers : workInProgress'.lanes[f] = wip.lanes[f] \cup lanesOf(staged[f])
  BY <1>1, MarkLanesToRootProperties
<1>4. \A f \in Fibers : sharedPending[f] \o staged[f] \in Seq(Update)
  BY ConcatProperties DEF TypeOK
<1>5. <<>> \in Seq(Update)
  BY EmptySeq
<1> QED
  BY <1>1, <1>2, <1>3, <1>4, <1>5 DEF TreesType, QueuesType, Requeued

LEMMA FinishQueueing ==
  ASSUME TypeOK, NEW staged \in [Fibers -> Seq(Update)], NEW tree \in Tree, NEW wip \in Tree,
         finishQueueingConcurrentUpdates(staged, tree, wip)
  PROVE  /\ TreesType'
         /\ \A f \in Fibers : /\ concurrentQueues'[f] = <<>>
                              /\ sharedPending'[f] = sharedPending[f] \o staged[f]
         /\ current'.queue = tree.queue /\ workInProgress'.queue = wip.queue
         /\ \A f \in Fibers : /\ current'.lanes[f] = tree.lanes[f] \cup lanesOf(staged[f])
                              /\ workInProgress'.lanes[f] = wip.lanes[f] \cup lanesOf(staged[f])
         /\ current'.childLanes = tree.childLanes \cup UNION {lanesOf(staged[f]) : f \in Fibers}
<1>1. TreesType' /\ Requeued(staged, tree, wip)
  BY Requeueing
<1> QED
  BY <1>1 DEF Requeued

LEMMA RestartedStep ==
  ASSUME TypeOK, NEW lanes, prepareFreshStack(concurrentQueues, current, lanes)
  PROVE  /\ TreesType' /\ work' = newWork("rendering", lanes)
         /\ \A f \in Fibers : /\ concurrentQueues'[f] = <<>>
                              /\ sharedPending'[f] = sharedPending[f] \o concurrentQueues[f]
         /\ current'.queue = current.queue /\ workInProgress'.queue = current.queue
         /\ \A f \in Fibers :
              /\ current'.lanes[f] = current.lanes[f] \cup lanesOf(concurrentQueues[f])
              /\ workInProgress'.lanes[f] = current'.lanes[f]
         /\ current'.childLanes =
              current.childLanes \cup UNION {lanesOf(concurrentQueues[f]) : f \in Fibers}
<1>1. concurrentQueues \in [Fibers -> Seq(Update)] /\ current \in Tree
  BY DEF TypeOK
<1>2. finishQueueingConcurrentUpdates(concurrentQueues, current, current)
  BY DEF prepareFreshStack
<1>3. /\ TreesType'
      /\ \A f \in Fibers : /\ concurrentQueues'[f] = <<>>
                           /\ sharedPending'[f] = sharedPending[f] \o concurrentQueues[f]
      /\ current'.queue = current.queue /\ workInProgress'.queue = current.queue
      /\ \A f \in Fibers :
           /\ current'.lanes[f] = current.lanes[f] \cup lanesOf(concurrentQueues[f])
           /\ workInProgress'.lanes[f] = current.lanes[f] \cup lanesOf(concurrentQueues[f])
      /\ current'.childLanes =
           current.childLanes \cup UNION {lanesOf(concurrentQueues[f]) : f \in Fibers}
  BY <1>1, <1>2, FinishQueueing
<1>4. work' = newWork("rendering", lanes)
  BY DEF prepareFreshStack
<1> QED
  BY <1>3, <1>4

\* The update that is made, and what is staged with it.
newUpdate(lane) == [id |-> updates + 1, lane |-> lane, callback |-> TRUE]
stagedWith(f, lane) == [concurrentQueues EXCEPT ![f] = Append(@, newUpdate(lane))]

LEMMA StagedProperties ==
  ASSUME TypeOK, updates < MaxUpdates, NEW f \in Fibers, NEW lane \in Lanes
  PROVE  /\ updates + 1 \in Ids /\ newUpdate(lane) \in Update
         /\ newUpdate(lane).id = updates + 1
         /\ newUpdate(lane).lane = lane /\ Fresh(newUpdate(lane))
         /\ stagedWith(f, lane) \in [Fibers -> Seq(Update)]
         /\ stagedWith(f, lane)[f] = Append(concurrentQueues[f], newUpdate(lane))
         /\ \A g \in Fibers \ {f} : stagedWith(f, lane)[g] = concurrentQueues[g]
<1>1. updates + 1 \in Ids
  BY BoundsAssumption DEF TypeOK, Ids
<1>2. lane # NoLane
  BY DEF Lanes, NoLane, SyncLane, DefaultLane, TransitionLane
<1>3. newUpdate(lane) \in Update /\ newUpdate(lane).id = updates + 1
  <2>1. TRUE \in BOOLEAN
    OBVIOUS
  <2> QED BY <1>1, <2>1 DEF newUpdate, Update
<1>4. newUpdate(lane).lane = lane /\ Fresh(newUpdate(lane))
  BY <1>2 DEF newUpdate, Fresh
<1>5. Append(concurrentQueues[f], newUpdate(lane)) \in Seq(Update)
  BY <1>3, AppendProperties DEF TypeOK
<1> QED
  BY <1>1, <1>3, <1>4, <1>5 DEF TypeOK, stagedWith

\* An update during a waiting commit, and at any other time.
LEMMA EnqueueForms ==
  ASSUME TypeOK, NEW f \in Fibers, NEW lane \in Lanes, enqueueUpdate(f, lane)
  PROVE  /\ updates < MaxUpdates /\ updates' = updates + 1 /\ called' = called
         /\ log' = [log EXCEPT ![f] = Append(@, updates + 1)]
         /\ root'.pending = root.pending \cup {lane}
         /\ \/ /\ work.phase = "waiting"
               /\ \E tree \in Tree :
                    /\ tree.queue = current.queue /\ tree.childLanes = current.childLanes
                    /\ tree.lanes[f] = current.lanes[f] \cup {lane}
                    /\ \A g \in Fibers : current.lanes[g] \subseteq tree.lanes[g]
                    /\ prepareFreshStack(stagedWith(f, lane), tree, {})
            \/ /\ work.phase # "waiting"
               /\ TreesType'
               /\ sharedPending' = sharedPending /\ concurrentQueues' = stagedWith(f, lane)
               /\ current'.queue = current.queue /\ current'.childLanes = current.childLanes
               /\ current'.lanes[f] = current.lanes[f] \cup {lane}
               /\ workInProgress'.queue = workInProgress.queue
               /\ \A g \in Fibers : /\ current.lanes[g] \subseteq current'.lanes[g]
                                    /\ workInProgress.lanes[g] \subseteq workInProgress'.lanes[g]
               /\ work' \in Work /\ work'.phase = work.phase /\ work'.next = work.next
               /\ work'.lanes = work.lanes
<1> DEFINE interrupted == [work EXCEPT !.interleaved = @ \cup {lane}]
           updated == markRootUpdated(root, lane)
           staged == stagedWith(f, lane)
<1>1. /\ updates < MaxUpdates /\ updates' = updates + 1 /\ called' = called
      /\ log' = [log EXCEPT ![f] = Append(@, updates + 1)]
  BY DEF enqueueUpdate
<1>2. root \in RootType /\ work \in Work /\ current \in Tree /\ workInProgress \in Tree
  BY DEF TypeOK, RootType
<1>3. IF work.phase = "waiting"
        THEN prepareFreshStack(staged, marked(current, f, lane), {}) /\ root' = updated
        ELSE /\ concurrentQueues' = staged
             /\ current' = marked(current, f, lane)
             /\ workInProgress' = marked(workInProgress, f, lane)
             /\ work' = IF work.phase = "rendering" THEN interrupted ELSE work
             /\ root' = IF work.phase = "rendering" /\ work.delayed
                          THEN markRootSuspended(updated, work.lanes, interrupted) ELSE updated
             /\ UNCHANGED sharedPending
  BY DEF enqueueUpdate, stagedWith, newUpdate, marked
<1>4. root'.pending = root.pending \cup {lane}
  <2>1. updated \in RootType /\ updated.pending = root.pending \cup {lane}
    BY <1>2 DEF markRootUpdated, RootType
  <2>2. markRootSuspended(updated, work.lanes, interrupted).pending = updated.pending
    <3> HIDE DEF updated, interrupted
    <3> QED BY <2>1 DEF markRootSuspended, RootType
  <2> HIDE DEF updated, interrupted, staged
  <2> QED BY <1>3, <2>1, <2>2
<1>5. interrupted \in Work /\ interrupted.phase = work.phase /\ interrupted.next = work.next
      /\ interrupted.lanes = work.lanes
  BY <1>2 DEF Work
<1>6. /\ marked(current, f, lane) \in Tree /\ marked(current, f, lane).queue = current.queue
      /\ marked(current, f, lane).childLanes = current.childLanes
      /\ marked(current, f, lane).lanes[f] = current.lanes[f] \cup {lane}
      /\ \A g \in Fibers : current.lanes[g] \subseteq marked(current, f, lane).lanes[g]
  BY <1>2, MarkedProperties
<1>7. /\ marked(workInProgress, f, lane) \in Tree /\ marked(workInProgress, f, lane).queue = workInProgress.queue
      /\ \A g \in Fibers : workInProgress.lanes[g] \subseteq marked(workInProgress, f, lane).lanes[g]
  BY <1>2, MarkedProperties
<1>8. staged \in [Fibers -> Seq(Update)] /\ sharedPending \in [Fibers -> Seq(Update)]
  BY <1>1, StagedProperties DEF TypeOK
<1>9. CASE work.phase = "waiting"
  <2> HIDE DEF updated, interrupted
  <2> QED BY <1>1, <1>3, <1>4, <1>6, <1>9
<1>10. CASE work.phase # "waiting"
  <2> HIDE DEF updated, interrupted, staged
  <2>1. TreesType'
    BY <1>3, <1>6, <1>7, <1>8, <1>10 DEF TreesType, QueuesType
  <2>2. work' = interrupted \/ work' = work
    BY <1>3, <1>10
  <2> QED BY <1>1, <1>2, <1>3, <1>4, <1>5, <1>6, <1>7, <1>10, <2>1, <2>2 DEF staged
<1> QED
  BY <1>9, <1>10

\* A component is rendered.
LEMMA UpdateStep ==
  ASSUME TypeOK, NEW f \in Fibers, updateClassInstance(f)
  PROVE  /\ TreesType' /\ concurrentQueues' = concurrentQueues /\ Kept
         /\ work.next = f /\ work.lanes \in SUBSET Lanes
         /\ workInProgress'.queue[f] =
              process(workInProgress.queue[f], sharedPending[f], work.lanes)
         /\ workInProgress'.lanes[f] = lanesOf(workInProgress'.queue[f].baseUpdates)
         /\ \A g \in Fibers \ {f} :
              /\ workInProgress'.queue[g] = workInProgress.queue[g]
              /\ workInProgress'.lanes[g] = workInProgress.lanes[g]
              /\ current'.queue[g] = current.queue[g]
              /\ sharedPending'[g] = sharedPending[g]
         /\ sharedPending'[f] = <<>>
         /\ current'.lanes = current.lanes /\ current'.childLanes = current.childLanes
         /\ current'.queue[f].baseState = current.queue[f].baseState
         /\ current'.queue[f].baseUpdates = current.queue[f].baseUpdates \o sharedPending[f]
         /\ current'.queue[f].state = current.queue[f].state
         /\ current'.queue[f].callbacks = current.queue[f].callbacks
<1> DEFINE queue == process(workInProgress.queue[f], sharedPending[f], work.lanes)
           lanes == lanesOf(queue.baseUpdates)
<1>1. /\ current \in Tree /\ workInProgress \in Tree /\ work.lanes \in SUBSET Lanes
      /\ sharedPending \in [Fibers -> Seq(Update)] /\ concurrentQueues \in [Fibers -> Seq(Update)]
      /\ sharedPending[f] \in Seq(Update)
  BY DEF TypeOK, Work
<1>2. queue \in UpdateQueue
  <2>1. workInProgress.queue[f] \in UpdateQueue
    BY <1>1, TreeFields
  <2> QED BY <1>1, <2>1, ProcessProperties, Zenon
<1>3. lanes \in SUBSET Lanes
  BY <1>2, LanesOfType DEF UpdateQueue
<1>4. /\ workInProgress' = [workInProgress EXCEPT !.queue[f] = queue, !.lanes[f] = lanes]
      /\ current' = transferred(current, f)
      /\ sharedPending' = [sharedPending EXCEPT ![f] = <<>>]
      /\ concurrentQueues' = concurrentQueues /\ Kept /\ work.next = f
  BY DEF updateClassInstance, Kept
<1> HIDE DEF queue, lanes
<1>5. /\ workInProgress' \in Tree
      /\ workInProgress'.queue[f] = queue /\ workInProgress'.lanes[f] = lanes
      /\ \A g \in Fibers \ {f} : /\ workInProgress'.queue[g] = workInProgress.queue[g]
                                 /\ workInProgress'.lanes[g] = workInProgress.lanes[g]
  BY <1>1, <1>2, <1>3, <1>4 DEF Tree
<1>6. /\ current' \in Tree
      /\ current'.lanes = current.lanes /\ current'.childLanes = current.childLanes
      /\ \A g \in Fibers \ {f} : current'.queue[g] = current.queue[g]
      /\ current'.queue[f].baseState = current.queue[f].baseState
      /\ current'.queue[f].baseUpdates = current.queue[f].baseUpdates \o sharedPending[f]
      /\ current'.queue[f].state = current.queue[f].state
      /\ current'.queue[f].callbacks = current.queue[f].callbacks
  <2>1. /\ current \in Tree /\ sharedPending[f] \in Seq(Update)
        /\ current' = transferred(current, f)
    BY <1>1, <1>4
  <2>2. \A t : t = transferred(current, f) =>
          /\ t \in Tree /\ t.lanes = current.lanes /\ t.childLanes = current.childLanes
          /\ \A g \in Fibers \ {f} : t.queue[g] = current.queue[g]
          /\ t.queue[f].baseState = current.queue[f].baseState
          /\ t.queue[f].baseUpdates = current.queue[f].baseUpdates \o sharedPending[f]
          /\ t.queue[f].state = current.queue[f].state
          /\ t.queue[f].callbacks = current.queue[f].callbacks
    BY <2>1, TransferredProperties, Zenon
  <2> QED BY <2>1, <2>2
<1>7. /\ sharedPending' \in [Fibers -> Seq(Update)] /\ sharedPending'[f] = <<>>
      /\ \A g \in Fibers \ {f} : sharedPending'[g] = sharedPending[g]
  <2>1. <<>> \in Seq(Update)
    BY EmptySeq
  <2> QED BY <1>1, <1>4, <2>1
<1> QED
  BY <1>1, <1>4, <1>5, <1>6, <1>7 DEF TreesType, QueuesType, queue, lanes

LEMMA NewWorkType ==
  ASSUME NEW phase \in {"none", "rendering", "waiting"}, NEW lanes \in SUBSET Lanes
  PROVE  /\ newWork(phase, lanes) \in Work
         /\ newWork(phase, lanes).phase = phase /\ newWork(phase, lanes).lanes = lanes
         /\ newWork(phase, lanes).next = 0
<1>1. 0 \in 0..(FiberCount + 1)
  BY BoundsAssumption
<1>2. FALSE \in BOOLEAN
  OBVIOUS
<1> QED
  BY <1>1, <1>2 DEF newWork, Work

\* The end of a render, whatever comes of it.
LEMMA RenderDoneStep ==
  ASSUME TypeOK, renderDone
  PROVE  /\ QueuesType'
         /\ \A f \in Fibers : /\ concurrentQueues'[f] = <<>>
                              /\ sharedPending'[f] = sharedPending[f] \o concurrentQueues[f]
<1>1. \A f \in Fibers : sharedPending[f] \o concurrentQueues[f] \in Seq(Update)
  BY ConcatProperties DEF TypeOK
<1>2. <<>> \in Seq(Update)
  BY EmptySeq
<1> QED
  BY <1>1, <1>2 DEF renderDone, QueuesType

LEMMA MarkedCurrent ==
  ASSUME TypeOK, current' = markLanesToRoot(current, concurrentQueues)
  PROVE  /\ current' \in Tree /\ current'.queue = current.queue
         /\ \A f \in Fibers :
              current'.lanes[f] = current.lanes[f] \cup lanesOf(concurrentQueues[f])
         /\ current'.childLanes =
              current.childLanes \cup UNION {lanesOf(concurrentQueues[f]) : f \in Fibers}
<1>1. current \in Tree /\ concurrentQueues \in [Fibers -> Seq(Update)]
  BY DEF TypeOK
<1> QED
  BY <1>1, MarkLanesToRootProperties

LEMMA CommitStep ==
  ASSUME TypeOK, NEW tree \in Tree, NEW staged \in [Fibers -> Seq(Update)],
         commitRoot(tree, staged)
  PROVE  /\ current' \in Tree /\ workInProgress' = current'
         /\ current'.lanes = tree.lanes /\ current'.childLanes = tree.childLanes
         /\ \A f \in Fibers : /\ current'.queue[f].baseState = tree.queue[f].baseState
                              /\ current'.queue[f].baseUpdates = tree.queue[f].baseUpdates
                              /\ current'.queue[f].state = tree.queue[f].state
                              /\ current'.queue[f].callbacks = {}
         /\ RootOK(root')
         /\ root'.pending = tree.childLanes \cup UNION {lanesOf(staged[f]) : f \in Fibers}
         /\ work' = newWork("none", {}) /\ work' \in Work /\ executing' = "committed"
         /\ callback' \in CallbackType /\ stray' \in BOOLEAN
         /\ called' \in [Ids -> Nat]
         /\ \A i \in Ids : called'[i] = IF \E f \in Fibers : i \in tree.queue[f].callbacks
                                          THEN called[i] + 1 ELSE called[i]
<1>1. /\ current' = committedTree(tree) /\ workInProgress' = committedTree(tree)
      /\ root' = markRootFinished(remainingLanes(tree, staged))
      /\ work' = newWork("none", {}) /\ executing' = "committed" /\ callback' = NoTask
      /\ called' = [i \in Ids |-> IF \E f \in Fibers : i \in tree.queue[f].callbacks
                                    THEN called[i] + 1 ELSE called[i]]
  BY DEF commitRoot, committedTree
<1>2. stray' \in BOOLEAN
  BY Zenon DEF commitRoot
<1>3. /\ current' \in Tree
      /\ current'.lanes = tree.lanes /\ current'.childLanes = tree.childLanes
      /\ \A f \in Fibers : /\ current'.queue[f].baseState = tree.queue[f].baseState
                           /\ current'.queue[f].baseUpdates = tree.queue[f].baseUpdates
                           /\ current'.queue[f].state = tree.queue[f].state
                           /\ current'.queue[f].callbacks = {}
  BY <1>1, CommittedProperties
<1>4. remainingLanes(tree, staged) \in SUBSET Lanes
  BY TreeFields, LanesOfType DEF remainingLanes
<1>5. RootOK(root') /\ root'.pending = remainingLanes(tree, staged)
  BY <1>1, <1>4 DEF RootOK, RootType, markRootFinished
<1>6. work' \in Work
  BY <1>1, NewWorkType
<1>7. called' \in [Ids -> Nat]
  BY <1>1 DEF TypeOK
<1>8. callback' \in CallbackType
  BY <1>1, NoTaskType
<1> QED
  BY <1>1, <1>2, <1>3, <1>5, <1>6, <1>7, <1>8 DEF remainingLanes

LEMMA FinishRenderStep ==
  ASSUME TypeOK, finishRender
  PROVE  /\ finishedTree \in Tree /\ commitRoot(finishedTree, [f \in Fibers |-> <<>>])
         /\ [f \in Fibers |-> <<>>] \in [Fibers -> Seq(Update)]
         /\ \A f \in Fibers : lanesOf([g \in Fibers |-> <<>>][f]) = {}
<1>1. <<>> \in Seq(Update)
  BY EmptySeq
<1> QED
  BY <1>1, FinishedTreeProperties, LanesOfEmpty DEF finishRender

LEMMA PendingCommitStep ==
  ASSUME TypeOK, pendingCommitReady
  PROVE  /\ workInProgress \in Tree /\ commitRoot(workInProgress, concurrentQueues)
         /\ concurrentQueues \in [Fibers -> Seq(Update)]
         /\ QueuesType' /\ UNCHANGED queues
  BY DEF pendingCommitReady, TypeOK, QueuesType, queues

LEMMA TreesTypeStep ==
  ASSUME TypeOK, WorkOK, [Next]_vars
  PROVE  TreesType'
<1>1. TreesType
  BY DEF TypeOK, TreesType, QueuesType
<1>2. CASE Quiet
  BY <1>1, <1>2 DEF Quiet, TreesType, QueuesType, trees, queues
<1>3. CASE Restarted
  BY <1>3, RestartedStep DEF Restarted
<1>4. ASSUME NEW f \in Fibers, NEW lane \in Lanes, enqueueUpdate(f, lane)
      PROVE  TreesType'
  <2>1. CASE TreesType'
    BY <2>1
  <2>2. ASSUME NEW tree \in Tree, prepareFreshStack(stagedWith(f, lane), tree, {})
        PROVE  TreesType'
    <3>1. stagedWith(f, lane) \in [Fibers -> Seq(Update)]
      BY <1>4, EnqueueForms, StagedProperties
    <3>2. finishQueueingConcurrentUpdates(stagedWith(f, lane), tree, tree)
      BY <2>2 DEF prepareFreshStack
    <3> QED BY <3>1, <3>2, FinishQueueing
  <2> QED BY <1>4, <2>1, <2>2, EnqueueForms
<1>5. ASSUME NEW f \in Fibers, updateClassInstance(f)
      PROVE  TreesType'
  BY <1>5, UpdateStep
<1>6. CASE suspendRender
  BY <1>6, RenderDoneStep, MarkedCurrent DEF suspendRender, TreesType
<1>7. CASE suspendCommit
  BY <1>7, RenderDoneStep, MarkedCurrent, FinishedTreeProperties DEF suspendCommit, TreesType
<1>8. CASE finishRender
  <2>1. QueuesType'
    BY <1>8, RenderDoneStep DEF finishRender
  <2>2. current' \in Tree /\ workInProgress' = current'
    BY <1>8, FinishRenderStep, CommitStep
  <2> QED BY <2>1, <2>2 DEF TreesType
<1>9. CASE pendingCommitReady
  BY <1>9, PendingCommitStep, CommitStep DEF TreesType
<1> QED
  BY <1>2, <1>3, <1>4, <1>5, <1>6, <1>7, <1>8, <1>9, StepForms
------------------------------------------------------------------------------
\* The root and the render

RenderType == RootOK(root) /\ work \in Work

\* A render that goes on by one component.
LEMMA UpdateWork ==
  ASSUME TypeOK, WorkOK, NEW f \in Fibers, updateClassInstance(f)
  PROVE  /\ RenderType' /\ root'.pending = root.pending
         /\ work'.phase = work.phase /\ work'.lanes = work.lanes /\ work'.next = work.next + 1
<1> DEFINE skipped == work.skipped \cup
                        lanesOf(process(workInProgress.queue[f], sharedPending[f], work.lanes).baseUpdates)
<1>1. RootOK(root) /\ work \in Work /\ work.next = f
  BY DEF TypeOK, RootOK, RootType, updateClassInstance
<1>2. rendering /\ work.phase = "rendering" /\ work.lanes \subseteq root.pending
  BY DEF updateClassInstance, TypeOK, WorkOK
<1>3. /\ \/ work' = [work EXCEPT !.next = @ + 1, !.skipped = skipped]
         \/ work' = [work EXCEPT !.next = @ + 1, !.skipped = skipped, !.delayed = TRUE]
      /\ root' = root \/ root' = markRootSuspended(root, work.lanes, work)
  BY DEF updateClassInstance
<1>4. skipped \in SUBSET Lanes
  <2>1. workInProgress.queue[f] \in UpdateQueue /\ sharedPending[f] \in Seq(Update)
    BY DEF TypeOK, Tree
  <2>2. process(workInProgress.queue[f], sharedPending[f], work.lanes) \in UpdateQueue
    BY <2>1, ProcessProperties
  <2>3. process(workInProgress.queue[f], sharedPending[f], work.lanes).baseUpdates \in Seq(Update)
    BY <2>2 DEF UpdateQueue
  <2>4. work.skipped \in SUBSET Lanes
    BY <1>1 DEF Work
  <2> QED BY <2>3, <2>4, LanesOfType
<1>5. work.next + 1 \in 0..(FiberCount + 1) /\ work.next + 1 \in Int
  BY <1>1, BoundsAssumption DEF Fibers
<1>6. TRUE \in BOOLEAN
  OBVIOUS
<1> HIDE DEF skipped
<1>7. /\ work' \in Work
      /\ work'.phase = work.phase /\ work'.lanes = work.lanes /\ work'.next = work.next + 1
  BY <1>1, <1>3, <1>4, <1>5, <1>6 DEF Work
<1>8. RootOK(root') /\ root'.pending = root.pending
  <2>1. work.lanes \in SUBSET Lanes /\ SyncLane \in Lanes
    BY <1>1 DEF Work, Lanes
  <2>2. CASE root' = root
    BY <1>1, <2>2
  <2>3. CASE root' = markRootSuspended(root, work.lanes, work)
    BY <1>1, <1>2, <2>1, <2>3, MarkRootProperties
  <2> QED BY <1>3, <2>2, <2>3
<1> QED
  BY <1>7, <1>8 DEF RenderType

LEMMA EnqueueRender ==
  ASSUME TypeOK, WorkOK, NEW f \in Fibers, NEW lane \in Lanes, enqueueUpdate(f, lane)
  PROVE  RenderType'
<1> DEFINE updated == markRootUpdated(root, lane)
           interrupted == [work EXCEPT !.interleaved = @ \cup {lane}]
<1>1. RootOK(root) /\ work \in Work /\ work.lanes \in SUBSET Lanes
  BY DEF TypeOK, RootOK, RootType, Work
<1>2. RootOK(updated) /\ updated.pending = root.pending \cup {lane}
  BY <1>1, MarkRootProperties
<1>3. work.phase = "rendering" => /\ RootOK(markRootSuspended(updated, work.lanes, interrupted))
  <2> HIDE DEF updated, interrupted
  <2>1. work.phase = "rendering" => work.lanes \subseteq updated.pending
    BY <1>2 DEF WorkOK
  <2> QED BY <1>1, <1>2, <2>1, MarkRootProperties
<1>4. \/ root' = updated
      \/ work.phase = "rendering" /\ root' = markRootSuspended(updated, work.lanes, interrupted)
  BY DEF enqueueUpdate
<1>5. RootOK(root')
  BY <1>2, <1>3, <1>4
<1>6. work' \in Work
  <2>1. CASE work.phase = "waiting"
    <3>1. work' = newWork("rendering", {})
      BY <2>1, EnqueueForms DEF prepareFreshStack
    <3> QED BY <3>1, NewWorkType
  <2>2. CASE work.phase # "waiting"
    BY <2>2, EnqueueForms
  <2> QED BY <2>1, <2>2
<1> QED
  BY <1>5, <1>6 DEF RenderType

LEMMA RenderTypeStep ==
  ASSUME TypeOK, WorkOK, [Next]_vars
  PROVE  RenderType'
<1>1. RenderType
  BY DEF TypeOK, RenderType, RootOK, RootType
<1>2. root.pending \in SUBSET Lanes /\ work.lanes \in SUBSET Lanes /\ SyncLane \in Lanes
  BY <1>1 DEF RenderType, RootOK, RootType, Work, Lanes
<1>3. ASSUME UNCHANGED <<root, work>>
      PROVE  RenderType'
  BY <1>1, <1>3 DEF RenderType
<1>4. ASSUME UNCHANGED root, renderRoot(nextLanesNow)
      PROVE  RenderType'
  <2>1. nextLanesNow \in SUBSET Lanes
    BY <1>2, NextLanesNow
  <2>2. work' = work \/ work' = newWork("rendering", nextLanesNow)
    BY <1>4 DEF renderRoot, prepareFreshStack
  <2>3. newWork("rendering", nextLanesNow) \in Work
    BY <2>1, NewWorkType
  <2> QED BY <1>1, <1>4, <2>2, <2>3 DEF RenderType
<1>5. CASE UNCHANGED vars
  BY <1>3, <1>5 DEF vars, control
<1>6. ASSUME NEW f \in Fibers, NEW lane \in Lanes, setState(f, lane)
      PROVE  RenderType'
  BY <1>6, EnqueueRender DEF setState
<1>7. ASSUME NEW f \in Fibers, flushSync(f)
      PROVE  RenderType'
  BY <1>2, <1>7, EnqueueRender DEF flushSync
<1>8. ASSUME NEW f \in Fibers, pingSuspendedRoot(f)
      PROVE  RenderType'
  <2>1. TransitionLane \in Lanes
    BY DEF Lanes
  <2>2. RootOK(root')
    BY <1>1, <1>8, <2>1, MarkRootProperties DEF pingSuspendedRoot, RenderType
  <2>3. \/ work' = newWork("rendering", {}) \/ work' = work
        \/ work' = [work EXCEPT !.pinged = @ \cup {TransitionLane}]
    BY <1>8 DEF pingSuspendedRoot, prepareFreshStack
  <2>4. work' \in Work
    <3>1. newWork("rendering", {}) \in Work
      BY NewWorkType
    <3> QED BY <1>1, <2>1, <2>3, <3>1 DEF RenderType, Work
  <2> QED BY <2>2, <2>4 DEF RenderType
<1>9. CASE processRootScheduleInMicrotask
  BY <1>3, <1>9 DEF processRootScheduleInMicrotask
<1>10. CASE performConcurrentWorkOnRoot
  BY <1>3, <1>4, <1>10 DEF performConcurrentWorkOnRoot
<1>11. CASE yield
  BY <1>3, <1>11 DEF yield
<1>12. CASE performSyncWorkOnRoot
  BY <1>4, <1>12 DEF performSyncWorkOnRoot
<1>13. CASE endFlush
  BY <1>3, <1>13 DEF endFlush
<1>14. CASE beginRoot
  <2>1. 1 \in 0..(FiberCount + 1) /\ FiberCount + 1 \in 0..(FiberCount + 1)
    BY BoundsAssumption
  <2>2. /\ UNCHANGED root
        /\ work' = [work EXCEPT !.next = FiberCount + 1] \/ work' = [work EXCEPT !.next = 1]
    BY <1>14 DEF beginRoot
  <2> QED BY <1>1, <2>1, <2>2 DEF RenderType, Work
<1>15. ASSUME NEW f \in Fibers, bailoutOnAlreadyFinishedWork(f)
       PROVE  RenderType'
  <2>1. f + 1 \in 0..(FiberCount + 1)
    BY BoundsAssumption DEF Fibers
  <2>2. workInProgress.lanes[f] \in SUBSET Lanes
    BY TreeFields DEF TypeOK
  <2>3. /\ UNCHANGED root
        /\ work' = [work EXCEPT !.next = f + 1, !.skipped = @ \cup workInProgress.lanes[f]]
    BY <1>15 DEF bailoutOnAlreadyFinishedWork
  <2> QED BY <1>1, <2>1, <2>2, <2>3 DEF RenderType, Work
<1>16. ASSUME NEW f \in Fibers, updateClassInstance(f)
       PROVE  RenderType'
  BY <1>16, UpdateWork
<1>17. ASSUME renderDone, NEW phase \in {"none", "waiting"}, work' = newWork(phase, {}),
              root' = markRootSuspended(root, work.lanes, work)
       PROVE  RenderType'
  <2>1. work' \in Work
    BY <1>17, NewWorkType
  <2>2. work.lanes \subseteq root.pending
    BY <1>17 DEF renderDone, TypeOK, WorkOK
  <2>3. RootOK(root')
    BY <1>1, <1>2, <1>17, <2>2, MarkRootProperties DEF RenderType
  <2> QED BY <2>1, <2>3 DEF RenderType
<1>18. CASE suspendRender
  BY <1>17, <1>18 DEF suspendRender
<1>19. CASE suspendCommit
  BY <1>17, <1>19 DEF suspendCommit
<1>20. CASE finishRender
  BY <1>20, FinishRenderStep, CommitStep DEF RenderType
<1>21. CASE pendingCommitReady
  BY <1>21, PendingCommitStep, CommitStep DEF RenderType
<1>22. CASE endCommit
  BY <1>3, <1>22 DEF endCommit
<1> QED
  BY <1>5, <1>6, <1>7, <1>8, <1>9, <1>10, <1>11, <1>12, <1>13, <1>14, <1>15, <1>16, <1>18,
     <1>19, <1>20, <1>21, <1>22 DEF Next, performUnitOfWork, completeRender

LEMMA WorkOKStep ==
  ASSUME TypeOK, WorkOK, [Next]_vars
  PROVE  WorkOK'
<1>1. CASE Quiet
  BY <1>1 DEF Quiet, WorkOK, queues
<1>2. CASE Restarted
  <2>1. PICK lanes \in SUBSET root.pending : prepareFreshStack(concurrentQueues, current, lanes)
    BY <1>2 DEF Restarted
  <2>2. lanes \in SUBSET Lanes
    BY <2>1 DEF TypeOK
  <2>3. work'.phase = "rendering" /\ work'.lanes = lanes
    BY <2>1, <2>2, NewWorkType DEF prepareFreshStack
  <2> QED BY <1>2, <2>1, <2>3 DEF Restarted, WorkOK
<1>3. ASSUME NEW f \in Fibers, NEW lane \in Lanes, enqueueUpdate(f, lane)
      PROVE  WorkOK'
  <2>1. CASE work.phase = "waiting"
    <3>1. work' = newWork("rendering", {})
      BY <1>3, <2>1, EnqueueForms DEF prepareFreshStack
    <3>2. work'.phase = "rendering" /\ work'.lanes = {}
      BY <3>1, NewWorkType
    <3> QED BY <3>2 DEF WorkOK
  <2>2. CASE work.phase # "waiting"
    BY <1>3, <2>2, EnqueueForms DEF WorkOK
  <2> QED BY <2>1, <2>2
<1>4. ASSUME NEW f \in Fibers, updateClassInstance(f)
      PROVE  WorkOK'
  <2>1. work.phase = "rendering"
    BY <1>4 DEF updateClassInstance, TypeOK
  <2> QED BY <1>4, <2>1, UpdateWork DEF WorkOK
<1>5. CASE suspendRender
  <2>1. work'.phase = "none"
    BY <1>5, NewWorkType DEF suspendRender
  <2> QED BY <2>1 DEF WorkOK
<1>6. CASE suspendCommit
  <2>1. work'.phase = "waiting"
    BY <1>6, NewWorkType DEF suspendCommit
  <2>2. \A f \in Fibers : concurrentQueues'[f] = <<>>
    BY <1>6, RenderDoneStep DEF suspendCommit
  <2> QED BY <2>1, <2>2 DEF WorkOK
<1>7. CASE finishRender \/ pendingCommitReady
  <2>1. work'.phase = "none"
    BY <1>7, FinishRenderStep, PendingCommitStep, NewWorkType DEF commitRoot
  <2> QED BY <2>1 DEF WorkOK
<1> QED
  BY <1>1, <1>2, <1>3, <1>4, <1>5, <1>6, <1>7, StepForms
------------------------------------------------------------------------------
\* What React is doing

\* What TypeOK says of the rest.
HistoryType ==
  /\ awaited \subseteq Fibers
  /\ updates \in 0..MaxUpdates /\ requests \in 0..MaxRequests /\ waits \in 0..MaxWaits
  /\ log \in [Fibers -> Seq(Ids)] /\ called \in [Ids -> Nat]

RenderingOK == rendering => work.phase = "rendering" /\ work.lanes # {}

LEMMA TypeParts == TypeOK <=> TreesType /\ RenderType /\ TaskTypes /\ HistoryType /\ RenderingOK
  BY DEF TypeOK, TreesType, QueuesType, RenderType, RootOK, RootType, TaskTypes, CallbackType,
         ScheduledType, HistoryType, RenderingOK

LEMMA EnqueueHistory ==
  ASSUME TypeOK, NEW f \in Fibers, NEW lane \in Lanes, enqueueUpdate(f, lane)
  PROVE  HistoryType' /\ callback' = callback /\ stray' = stray /\ inTask' = inTask
         /\ scheduled' = ensured
<1>1. /\ updates < MaxUpdates /\ updates' = updates + 1 /\ called' = called
      /\ log' = [log EXCEPT ![f] = Append(@, updates + 1)]
      /\ awaited' = awaited /\ requests' = requests /\ waits' = waits
      /\ callback' = callback /\ stray' = stray /\ inTask' = inTask /\ scheduled' = ensured
  BY DEF enqueueUpdate
<1>2. updates' \in 0..MaxUpdates /\ updates + 1 \in Ids
  BY <1>1, BoundsAssumption DEF TypeOK, Ids
<1>3. log[f] \in Seq(Ids) /\ log \in [Fibers -> Seq(Ids)]
  BY DEF TypeOK
<1>4. Append(log[f], updates + 1) \in Seq(Ids)
  BY <1>2, <1>3, AppendProperties
<1>5. log' \in [Fibers -> Seq(Ids)]
  BY <1>1, <1>3, <1>4
<1> QED
  BY <1>1, <1>2, <1>5 DEF HistoryType, TypeOK

LEMMA ControlStep ==
  ASSUME TypeOK, WorkOK, [Next]_vars
  PROVE  TaskTypes' /\ HistoryType' /\ RenderingOK'
<1>1. /\ RootOK(root) /\ work \in Work /\ RootOK(root') /\ work' \in Work
      /\ callback \in CallbackType /\ stray \in BOOLEAN
  BY TypeParts, RenderTypeStep DEF RenderType, TaskTypes
<1>2. /\ work.phase = "rendering" => work.lanes \subseteq root.pending
      /\ work'.phase = "rendering" => work'.lanes \subseteq root'.pending
  BY WorkOKStep DEF WorkOK
<1>3. TaskTypes /\ HistoryType /\ RenderingOK
  BY TypeParts
<1>4. ASSUME UNCHANGED <<environment, history>>
      PROVE  HistoryType'
  BY <1>3, <1>4 DEF HistoryType, environment, history
<1>5. ASSUME executing' \in {"nothing", "flushing", "committed"}
      PROVE  RenderingOK'
  BY <1>5 DEF RenderingOK, rendering
<1>6. ASSUME UNCHANGED <<environment, history>>, endTask(root, work)
      PROVE  TaskTypes' /\ HistoryType' /\ RenderingOK'
  <2>1. TaskTypes' /\ executing' = "nothing"
    BY <1>1, <1>2, <1>6, EndTaskType
  <2> QED BY <1>4, <1>5, <1>6, <2>1
<1>7. ASSUME endTask(root', work')
      PROVE  TaskTypes' /\ RenderingOK'
  <2>1. TaskTypes' /\ executing' = "nothing"
    <3>1. PICK r, w : r = root' /\ w = work'
      OBVIOUS
    <3>2. RootOK(r) /\ w \in Work /\ (w.phase = "rendering" => w.lanes \subseteq r.pending)
      BY <1>1, <1>2, <3>1
    <3>3. endTask(r, w)
      BY <1>7, <3>1
    <3> QED BY <1>1, <3>2, <3>3, EndTaskType
  <2> QED BY <1>5, <2>1
<1>8. ASSUME NEW lanes \in SUBSET Lanes, lanes # {}, renderRoot(lanes)
      PROVE  work'.phase = "rendering" /\ work'.lanes # {}
  <2>1. \/ work' = work /\ work.phase = "rendering" /\ work.lanes = lanes
        \/ work' = newWork("rendering", lanes)
    BY <1>8 DEF renderRoot, prepareFreshStack
  <2> QED BY <1>8, <2>1, NewWorkType
<1>9. nextLanesNow \in SUBSET Lanes
  BY <1>1, NextLanesNow DEF RootOK, RootType
<1>10. CASE UNCHANGED vars
  BY <1>3, <1>10 DEF vars, environment, history, scheduling, control, TaskTypes, HistoryType,
                     RenderingOK, rendering
<1>11. ASSUME NEW f \in Fibers, NEW lane \in Lanes, setState(f, lane)
       PROVE  TaskTypes' /\ HistoryType' /\ RenderingOK'
  <2>1. executing' = executing /\ executing \in {"nothing", "committed"} /\ enqueueUpdate(f, lane)
    BY <1>11 DEF setState
  <2>2. HistoryType' /\ callback' = callback /\ stray' = stray /\ inTask' = inTask
        /\ scheduled' = ensured
    BY <2>1, EnqueueHistory
  <2> QED BY <1>3, <1>5, <2>1, <2>2, EnsuredType DEF TaskTypes
<1>12. ASSUME NEW f \in Fibers, flushSync(f)
       PROVE  TaskTypes' /\ HistoryType' /\ RenderingOK'
  <2>1. executing' = "flushing" /\ enqueueUpdate(f, SyncLane) /\ SyncLane \in Lanes
    BY <1>12 DEF flushSync, Lanes
  <2>2. HistoryType' /\ callback' = callback /\ stray' = stray /\ inTask' = inTask
        /\ scheduled' = ensured
    BY <2>1, EnqueueHistory
  <2> QED BY <1>3, <1>5, <2>1, <2>2, EnsuredType DEF TaskTypes
<1>13. ASSUME NEW f \in Fibers, pingSuspendedRoot(f)
       PROVE  TaskTypes' /\ HistoryType' /\ RenderingOK'
  <2>1. executing' = executing /\ executing = "nothing" /\ scheduled' = ensured
        /\ UNCHANGED <<callback, stray, inTask>>
    BY <1>13 DEF pingSuspendedRoot
  <2>2. HistoryType'
    BY <1>3, <1>13 DEF pingSuspendedRoot, HistoryType, history
  <2> QED BY <1>3, <1>5, <2>1, <2>2, EnsuredType DEF TaskTypes
<1>14. CASE processRootScheduleInMicrotask
  <2>1. callback' \in CallbackType
    BY <1>1, <1>2, <1>14, TaskForType DEF processRootScheduleInMicrotask
  <2>2. scheduled' \in ScheduledType
    <3>1. FALSE \in BOOLEAN /\ (scheduled.root /\ callback' # NoTask) \in BOOLEAN
          /\ (scheduled.root /\ callback'.priority = SyncLane) \in BOOLEAN
      BY Zenon
    <3>2. scheduled' = [root |-> scheduled.root /\ callback' # NoTask, microtask |-> FALSE,
                        sync |-> scheduled.root /\ callback'.priority = SyncLane]
      BY <1>14 DEF processRootScheduleInMicrotask
    <3> QED BY <3>1, <3>2, Zenon DEF ScheduledType
  <2>3. executing' \in {"nothing", "flushing"} /\ UNCHANGED <<stray, inTask, environment, history>>
    BY <1>14 DEF processRootScheduleInMicrotask
  <2> QED BY <1>3, <1>4, <1>5, <2>1, <2>2, <2>3 DEF TaskTypes
<1>15. CASE performConcurrentWorkOnRoot
  <2>1. PICK task \in {"root", "stray"} :
          IF nextLanesNow = {}
            THEN /\ callback' = [callback EXCEPT !.live = @ /\ task # "root"]
                 /\ stray' = (stray /\ task # "stray")
                 /\ UNCHANGED <<trees, queues, work, executing, inTask>>
            ELSE /\ renderRoot(nextLanesNow)
                 /\ executing' = IF DefaultLane \in nextLanesNow
                                   THEN "renderRootSync" ELSE "renderRootConcurrent"
                 /\ inTask' = task
                 /\ UNCHANGED <<callback, stray>>
    BY <1>15 DEF performConcurrentWorkOnRoot
  <2>2. scheduled' = scheduled /\ UNCHANGED <<environment, history>> /\ executing = "nothing"
    BY <1>15 DEF performConcurrentWorkOnRoot
  <2>3. CASE nextLanesNow = {}
    <3>1. /\ callback' = [callback EXCEPT !.live = @ /\ task # "root"]
          /\ stray' = (stray /\ task # "stray") /\ executing' = "nothing" /\ inTask' = inTask
      BY <2>1, <2>2, <2>3
    <3>2. (callback.live /\ task # "root") \in BOOLEAN /\ (stray /\ task # "stray") \in BOOLEAN
      BY Zenon
    <3>3. callback' \in CallbackType
      <4> DEFINE live == callback.live /\ task # "root"
      <4>1. live \in BOOLEAN /\ callback' = [callback EXCEPT !.live = live]
        BY <3>1, <3>2, Zenon
      <4> HIDE DEF live
      <4> QED BY <1>1, <4>1 DEF CallbackType
    <3>4. stray' \in BOOLEAN
      BY <3>1, <3>2, Zenon
    <3> QED BY <1>3, <1>4, <1>5, <2>2, <3>1, <3>3, <3>4 DEF TaskTypes
  <2>4. CASE nextLanesNow # {}
    <3>1. work'.phase = "rendering" /\ work'.lanes # {}
      BY <1>8, <1>9, <2>1, <2>4
    <3>2. executing' \in {"renderRootSync", "renderRootConcurrent"} /\ inTask' \in {"root", "stray"}
          /\ UNCHANGED <<callback, stray>>
      BY <2>1, <2>4
    <3> QED BY <1>3, <1>4, <2>2, <3>1, <3>2 DEF TaskTypes, RenderingOK
  <2> QED BY <2>3, <2>4
<1>16. CASE yield
  BY <1>6, <1>16 DEF yield
<1>17. CASE performSyncWorkOnRoot
  <2>1. work'.phase = "rendering" /\ work'.lanes # {}
    BY <1>8, <1>9, <1>17 DEF performSyncWorkOnRoot
  <2> QED BY <1>3, <1>4, <1>17, <2>1 DEF performSyncWorkOnRoot, TaskTypes, RenderingOK, scheduling
<1>18. CASE endFlush
  <2>1. CASE inTask # "none"
    BY <1>6, <1>18, <2>1 DEF endFlush
  <2>2. CASE inTask = "none"
    BY <1>3, <1>4, <1>5, <1>18, <2>2 DEF endFlush, TaskTypes, scheduling
  <2> QED BY <2>1, <2>2
<1>19. ASSUME UNCHANGED <<scheduling, executing, inTask>>, rendering,
              work'.phase = work.phase, work'.lanes = work.lanes
       PROVE  TaskTypes' /\ RenderingOK'
  BY <1>3, <1>19 DEF TaskTypes, RenderingOK, scheduling
<1>20. CASE beginRoot
  <2>1. work'.phase = work.phase /\ work'.lanes = work.lanes
    BY <1>1, <1>20 DEF beginRoot, Work
  <2> QED BY <1>4, <1>19, <1>20, <2>1 DEF beginRoot
<1>21. ASSUME NEW f \in Fibers, bailoutOnAlreadyFinishedWork(f)
       PROVE  TaskTypes' /\ HistoryType' /\ RenderingOK'
  <2>1. work'.phase = work.phase /\ work'.lanes = work.lanes
    BY <1>1, <1>21 DEF bailoutOnAlreadyFinishedWork, Work
  <2> QED BY <1>4, <1>19, <1>21, <2>1 DEF bailoutOnAlreadyFinishedWork
<1>22. ASSUME NEW f \in Fibers, updateClassInstance(f)
       PROVE  TaskTypes' /\ HistoryType' /\ RenderingOK'
  <2>1. TaskTypes' /\ RenderingOK'
    BY <1>19, <1>22, UpdateWork DEF updateClassInstance
  <2>2. /\ UNCHANGED <<updates, waits, log, called>>
        /\ \/ UNCHANGED <<awaited, requests>>
           \/ /\ requests' = requests \/ (requests < MaxRequests /\ requests' = requests + 1)
              /\ awaited' = awaited \cup {f}
    BY <1>22 DEF updateClassInstance, history
  <2>3. HistoryType'
    BY <1>3, <2>2, BoundsAssumption DEF HistoryType
  <2> QED BY <2>1, <2>3
<1>23. CASE suspendRender
  BY <1>4, <1>7, <1>23 DEF suspendRender
<1>24. CASE suspendCommit
  <2>1. HistoryType'
    BY <1>3, <1>24, BoundsAssumption DEF suspendCommit, HistoryType, history
  <2> QED BY <1>7, <1>24, <2>1 DEF suspendCommit
<1>25. CASE finishRender
  <2>1. /\ called' \in [Ids -> Nat] /\ executing' = "committed"
        /\ callback' \in CallbackType /\ stray' \in BOOLEAN
    BY <1>25, FinishRenderStep, CommitStep
  <2>2. UNCHANGED <<scheduled, inTask, environment, log>>
    BY <1>25 DEF finishRender
  <2> QED BY <1>3, <1>5, <2>1, <2>2 DEF TaskTypes, HistoryType, environment
<1>26. CASE pendingCommitReady
  <2>1. /\ called' \in [Ids -> Nat] /\ executing' = "committed"
        /\ callback' \in CallbackType /\ stray' \in BOOLEAN
    BY <1>26, PendingCommitStep, CommitStep
  <2>2. UNCHANGED <<scheduled, inTask, environment, log>>
    BY <1>26 DEF pendingCommitReady
  <2> QED BY <1>3, <1>5, <2>1, <2>2 DEF TaskTypes, HistoryType, environment
<1>27. CASE endCommit
  BY <1>3, <1>4, <1>5, <1>27, EnsuredType DEF endCommit, TaskTypes
<1> QED
  BY <1>10, <1>11, <1>12, <1>13, <1>14, <1>15, <1>16, <1>17, <1>18, <1>20, <1>21, <1>22, <1>23,
     <1>24, <1>25, <1>26, <1>27 DEF Next, performUnitOfWork, completeRender

LEMMA TypeStep == TypeOK /\ WorkOK /\ [Next]_vars => TypeOK'
<1> SUFFICES ASSUME TypeOK, WorkOK, [Next]_vars PROVE TypeOK'
  OBVIOUS
<1>1. TreesType' /\ RenderType' /\ TaskTypes' /\ HistoryType' /\ RenderingOK'
  BY TreesTypeStep, RenderTypeStep, ControlStep
<1> QED
  BY <1>1 DEF TypeOK, TreesType, QueuesType, RenderType, RootOK, RootType, TaskTypes,
              CallbackType, ScheduledType, HistoryType, RenderingOK, rendering
------------------------------------------------------------------------------
\* No update is lost

\* What a component has in a queue, and what is still to come to it.
ContentKept(state, list, pending, staged) ==
  /\ state \o ids(list) \o ids(pending) \o ids(staged) \in Seq(Ids)
  /\ state \o ids(list) \o ids(pending \o staged) \o ids(<<>>)
       = state \o ids(list) \o ids(pending) \o ids(staged)
  /\ state \o ids(list \o pending) \o ids(<<>>) \o ids(staged)
       = state \o ids(list) \o ids(pending) \o ids(staged)
  /\ \A u \in Update :
       state \o ids(list) \o ids(pending) \o ids(Append(staged, u))
         = Append(state \o ids(list) \o ids(pending) \o ids(staged), u.id)

LEMMA QueueContent ==
  ASSUME NEW state \in Seq(Ids), NEW list \in Seq(Update),
         NEW pending \in Seq(Update), NEW staged \in Seq(Update)
  PROVE  ContentKept(state, list, pending, staged)
<1> DEFINE l == ids(list)
           p == ids(pending)
           q == ids(staged)
<1>1. l \in Seq(Ids) /\ p \in Seq(Ids) /\ q \in Seq(Ids)
  BY IdsProperties
<1>2. ids(pending \o staged) = p \o q /\ ids(list \o pending) = l \o p /\ ids(<<>>) = <<>>
  BY IdsConcat, IdsEmpty
<1>3. \A u \in Update : u.id \in Ids /\ ids(Append(staged, u)) = Append(q, u.id)
  BY IdsAppend DEF Update
<1> HIDE DEF l, p, q
<1>4. state \o l \in Seq(Ids)
  BY <1>1, IdsRegrouped
<1>5. (state \o l) \o p \in Seq(Ids) /\ p \o q \in Seq(Ids) /\ l \o p \in Seq(Ids)
  BY <1>1, <1>4, IdsRegrouped
<1>6. ((state \o l) \o p) \o q \in Seq(Ids) /\ (state \o l) \o (p \o q) \in Seq(Ids)
      /\ state \o (l \o p) \in Seq(Ids)
  BY <1>1, <1>4, <1>5, IdsRegrouped
<1>7. ((state \o l) \o p) \o q = (state \o l) \o (p \o q)
  <2> DEFINE a == state \o l
  <2>1. a \in Seq(Ids)
    BY <1>4
  <2> HIDE DEF a
  <2>2. Grouped(a, p, q)
    BY <1>1, <2>1, IdsRegrouped
  <2> QED BY <2>2 DEF a, Grouped
<1>8. (state \o l) \o (p \o q) \o <<>> = (state \o l) \o (p \o q)
  BY <1>6, ConcatEmptySeq
<1>9. (state \o l) \o p = state \o (l \o p)
  <2>1. Grouped(state, l, p)
    BY <1>1, IdsRegrouped
  <2> QED BY <2>1 DEF Grouped
<1>10. (state \o (l \o p)) \o <<>> = state \o (l \o p)
  BY <1>6, ConcatEmptySeq
<1>11. ASSUME NEW u \in Update
       PROVE  ((state \o l) \o p) \o Append(q, u.id) = Append(((state \o l) \o p) \o q, u.id)
  <2> DEFINE a == (state \o l) \o p
  <2>1. a \in Seq(Ids) /\ u.id \in Ids
    BY <1>3, <1>5
  <2> HIDE DEF a
  <2>2. <<u.id>> \in Seq(Ids) /\ \A s \in Seq(Ids) : Append(s, u.id) = s \o <<u.id>>
    <3>1. \A s \in Seq(Ids) : Append(s, u.id) = s \o <<u.id>>
      BY <2>1, AppendIsConcat, Zenon
    <3>2. <<u.id>> \in Seq(Ids)
      BY <2>1
    <3> QED BY <3>1, <3>2
  <2>3. a \o q \in Seq(Ids)
    BY <1>1, <2>1, IdsRegrouped
  <2>4. a \o (q \o <<u.id>>) = (a \o q) \o <<u.id>>
    <3>1. Grouped(a, q, <<u.id>>)
      BY <1>1, <2>1, <2>2, IdsRegrouped
    <3> QED BY <3>1 DEF Grouped
  <2> QED BY <1>1, <2>2, <2>3, <2>4 DEF a
<1> QED
  BY <1>2, <1>3, <1>6, <1>7, <1>8, <1>9, <1>10, <1>11 DEF l, p, q, ContentKept

\* The updates before the base and those behind it are all of them.
Split(list, first, rest) ==
  /\ list \in Seq(Update) /\ first \in Seq(Update) /\ rest \in Seq(Update)
  /\ Len(list) = Len(first) + Len(rest)
  /\ \A i \in 1..Len(first) : first[i] = list[i]
  /\ \A i \in 1..Len(rest) : rest[i].id = list[Len(first) + i].id

LEMMA SplitIds ==
  ASSUME NEW list, NEW first, NEW rest, Split(list, first, rest)
  PROVE  ids(first) \o ids(rest) = ids(list)
<1> DEFINE a == ids(first)
           b == ids(rest)
           c == ids(list)
<1>1. /\ list \in Seq(Update) /\ first \in Seq(Update) /\ rest \in Seq(Update)
      /\ Len(list) = Len(first) + Len(rest)
      /\ \A i \in 1..Len(first) : first[i] = list[i]
      /\ \A i \in 1..Len(rest) : rest[i].id = list[Len(first) + i].id
  BY DEF Split
<1>2. Len(list) \in Nat /\ Len(first) \in Nat /\ Len(rest) \in Nat
  BY <1>1, LenProperties
<1>3. a \in Seq(Ids) /\ Len(a) = Len(first) /\ \A i \in 1..Len(first) : a[i] = first[i].id
  BY <1>1, IdsProperties
<1>4. b \in Seq(Ids) /\ Len(b) = Len(rest) /\ \A i \in 1..Len(rest) : b[i] = rest[i].id
  BY <1>1, IdsProperties
<1>5. c \in Seq(Ids) /\ Len(c) = Len(list) /\ \A i \in 1..Len(list) : c[i] = list[i].id
  BY <1>1, IdsProperties
<1> HIDE DEF a, b, c
<1>6. Len(c) = Len(a) + Len(b)
  BY <1>1, <1>3, <1>4, <1>5
<1>7. \A i \in 1..Len(a) : c[i] = a[i]
  <2>1. \A i \in 1..Len(a) : i \in 1..Len(list) /\ i \in 1..Len(first)
    BY <1>1, <1>2, <1>3
  <2> QED BY <1>1, <1>3, <1>5, <2>1
<1>8. \A i \in 1..Len(b) : c[Len(a) + i] = b[i]
  <2>1. \A i \in 1..Len(b) : Len(first) + i \in 1..Len(list) /\ i \in 1..Len(rest)
    BY <1>1, <1>2, <1>4
  <2> QED BY <1>1, <1>3, <1>4, <1>5, <2>1
<1>9. a \o b = c
  BY <1>3, <1>4, <1>5, <1>6, <1>7, <1>8, InTwoParts
<1> QED
  BY <1>9 DEF a, b, c

\* content, of a queue and the lists of its component.
contentOf(q, pending, staged) == q.baseState \o ids(q.baseUpdates) \o ids(pending) \o ids(staged)

LEMMA ContentLaws ==
  ASSUME NEW q \in UpdateQueue, NEW pending \in Seq(Update), NEW staged \in Seq(Update)
  PROVE  /\ contentOf(q, pending, staged) \in Seq(Ids)
         /\ contentOf(q, pending \o staged, <<>>) = contentOf(q, pending, staged)
         /\ \A u \in Update : contentOf(q, pending, Append(staged, u))
                                = Append(contentOf(q, pending, staged), u.id)
         /\ \A p : /\ p.baseState = q.baseState
                   /\ p.baseUpdates = q.baseUpdates \o pending
                   => contentOf(p, <<>>, staged) = contentOf(q, pending, staged)
<1>1. PICK state, list : state = q.baseState /\ list = q.baseUpdates
  OBVIOUS
<1>2. state \in Seq(Ids) /\ list \in Seq(Update)
  BY <1>1 DEF UpdateQueue
<1>3. \A a, b : contentOf(q, a, b) = state \o ids(list) \o ids(a) \o ids(b)
  BY <1>1 DEF contentOf
<1>4. /\ state \o ids(list) \o ids(pending) \o ids(staged) \in Seq(Ids)
      /\ state \o ids(list) \o ids(pending \o staged) \o ids(<<>>)
           = state \o ids(list) \o ids(pending) \o ids(staged)
      /\ state \o ids(list \o pending) \o ids(<<>>) \o ids(staged)
           = state \o ids(list) \o ids(pending) \o ids(staged)
      /\ \A u \in Update :
           state \o ids(list) \o ids(pending) \o ids(Append(staged, u))
             = Append(state \o ids(list) \o ids(pending) \o ids(staged), u.id)
  <2>1. ContentKept(state, list, pending, staged)
    BY <1>2, QueueContent
  <2> QED BY <2>1 DEF ContentKept
<1>5. \A p : p.baseState = state /\ p.baseUpdates = list \o pending
             => contentOf(p, <<>>, staged) = state \o ids(list \o pending) \o ids(<<>>) \o ids(staged)
  BY DEF contentOf
<1>6. contentOf(q, pending, staged) \in Seq(Ids)
  BY <1>3, <1>4
<1>9. contentOf(q, pending \o staged, <<>>) = contentOf(q, pending, staged)
  <2>1. contentOf(q, pending \o staged, <<>>) = state \o ids(list) \o ids(pending \o staged) \o ids(<<>>)
    BY <1>3, Zenon
  <2>2. contentOf(q, pending, staged) = state \o ids(list) \o ids(pending) \o ids(staged)
    BY <1>3, Zenon
  <2> QED BY <1>4, <2>1, <2>2
<1>7. \A u \in Update : contentOf(q, pending, Append(staged, u))
                         = Append(contentOf(q, pending, staged), u.id)
  BY <1>3, <1>4, Zenon
<1>8. \A p : p.baseState = q.baseState /\ p.baseUpdates = q.baseUpdates \o pending
             => contentOf(p, <<>>, staged) = contentOf(q, pending, staged)
  BY <1>1, <1>3, <1>4, <1>5, Zenon
<1> QED
  BY <1>6, <1>7, <1>8, <1>9

\* Processing a queue keeps its updates, in their order.
LEMMA ProcessIds ==
  ASSUME NEW q \in UpdateQueue, NEW pending \in Seq(Update), NEW lanes
  PROVE  process(q, pending, lanes).baseState \o ids(process(q, pending, lanes).baseUpdates)
           = q.baseState \o ids(q.baseUpdates \o pending)
<1>1. PICK p : p = process(q, pending, lanes)
  OBVIOUS
<1>2. PICK list : list = q.baseUpdates \o pending
  OBVIOUS
<1>3. p \in UpdateQueue
  BY <1>1, <1>2, ProcessProperties
<1>4. list \in Seq(Update)
  BY <1>1, <1>2, ProcessProperties
<1>5. Rebased(p, q, list, lanes)
  BY <1>1, <1>2, ProcessProperties
<1>6. PICK base \in 0..Len(list), first \in Seq(Update) :
        /\ p.baseState = q.baseState \o ids(first)
        /\ Len(first) = base /\ \A i \in 1..base : first[i] = list[i]
        /\ Len(p.baseUpdates) = Len(list) - base
        /\ \A i \in 1..(Len(list) - base) : p.baseUpdates[i] = rebased(lanes, list[base + i])
  BY <1>5, Zenon DEF Rebased
<1>7. PICK rest : rest = p.baseUpdates
  OBVIOUS
<1>8. rest \in Seq(Update) /\ Len(rest) = Len(list) - base
  BY <1>3, <1>6, <1>7 DEF UpdateQueue
<1>9. Len(list) \in Nat /\ \A i \in 1..Len(list) : list[i] \in Update
  BY <1>4, LenProperties, ElementOfSeq
<1>10. ASSUME NEW i \in 1..(Len(list) - base)
       PROVE  rest[i].id = list[base + i].id
  <2>1. base + i \in 1..Len(list)
    BY <1>6, <1>9
  <2>2. rest[i] = rebased(lanes, list[base + i])
    BY <1>6, <1>7
  <2>3. list[base + i] \in Update
    BY <1>9, <2>1
  <2>4. rebased(lanes, list[base + i]).id = list[base + i].id
    BY <2>3, RebasedProperties
  <2> QED BY <2>2, <2>4
<1>11. Split(list, first, rest)
  BY <1>4, <1>6, <1>8, <1>9, <1>10 DEF Split
<1>12. ids(first) \o ids(rest) = ids(list)
  BY <1>11, SplitIds
<1>13. q.baseState \in Seq(Ids) /\ ids(first) \in Seq(Ids) /\ ids(rest) \in Seq(Ids)
  BY <1>6, <1>8, IdsProperties DEF UpdateQueue
<1>14. PICK state, a, b, c : state = q.baseState /\ a = ids(first) /\ b = ids(rest) /\ c = ids(list)
  OBVIOUS
<1>15. (state \o a) \o b = state \o c
  <2>1. state \in Seq(Ids) /\ a \in Seq(Ids) /\ b \in Seq(Ids)
    BY <1>13, <1>14
  <2>2. state \o (a \o b) = (state \o a) \o b
    <3>1. Grouped(state, a, b)
      BY <2>1, IdsRegrouped
    <3> QED BY <3>1 DEF Grouped
  <2>3. a \o b = c
    BY <1>12, <1>14
  <2> QED BY <2>2, <2>3
<1> QED
  BY <1>1, <1>2, <1>6, <1>7, <1>14, <1>15

LEMMA ProcessContent ==
  ASSUME NEW q \in UpdateQueue, NEW pending \in Seq(Update), NEW staged \in Seq(Update), NEW lanes
  PROVE  contentOf(process(q, pending, lanes), <<>>, staged) = contentOf(q, pending, staged)
<1>1. process(q, pending, lanes).baseState \o ids(process(q, pending, lanes).baseUpdates)
        = q.baseState \o ids(q.baseUpdates \o pending)
  BY ProcessIds
<1>2. PICK p : p = [baseState |-> q.baseState, baseUpdates |-> q.baseUpdates \o pending]
  OBVIOUS
<1>3. p.baseState = q.baseState /\ p.baseUpdates = q.baseUpdates \o pending
  BY <1>2
<1>4. contentOf(p, <<>>, staged) = contentOf(q, pending, staged)
  BY <1>3, ContentLaws
<1>5. contentOf(p, <<>>, staged) = contentOf(process(q, pending, lanes), <<>>, staged)
  BY <1>1, <1>3 DEF contentOf
<1> QED
  BY <1>4, <1>5

LEMMA Contents ==
  /\ NothingLost <=>
       \A f \in Fibers :
         /\ contentOf(current.queue[f], sharedPending[f], concurrentQueues[f]) = log[f]
         /\ contentOf(workInProgress.queue[f], sharedPending[f], concurrentQueues[f]) = log[f]
  /\ NothingLost' <=>
       \A f \in Fibers :
         /\ contentOf(current'.queue[f], sharedPending'[f], concurrentQueues'[f]) = log'[f]
         /\ contentOf(workInProgress'.queue[f], sharedPending'[f], concurrentQueues'[f]) = log'[f]
  BY DEF NothingLost, content, contentOf

\* Staged updates come to the queues.
LEMMA FlushedContent ==
  ASSUME TypeOK, NothingLost, log' = log,
         \A f \in Fibers : /\ concurrentQueues'[f] = <<>>
                           /\ sharedPending'[f] = sharedPending[f] \o concurrentQueues[f],
         \A f \in Fibers : current'.queue[f] \in {current.queue[f], workInProgress.queue[f]},
         \A f \in Fibers : workInProgress'.queue[f] \in {current.queue[f], workInProgress.queue[f]}
  PROVE  NothingLost'
<1>1. ASSUME NEW f \in Fibers, NEW q \in {current.queue[f], workInProgress.queue[f]}
      PROVE  contentOf(q, sharedPending'[f], concurrentQueues'[f]) = log'[f]
  <2>1. q \in UpdateQueue /\ sharedPending[f] \in Seq(Update) /\ concurrentQueues[f] \in Seq(Update)
    BY <1>1, TreeFields DEF TypeOK
  <2>2. contentOf(q, sharedPending[f] \o concurrentQueues[f], <<>>)
          = contentOf(q, sharedPending[f], concurrentQueues[f])
    BY <2>1, ContentLaws
  <2>3. contentOf(q, sharedPending[f], concurrentQueues[f]) = log[f]
    BY <1>1, Contents
  <2> QED BY <2>2, <2>3
<1> QED
  BY <1>1, Contents

\* An update is made: it is the last of its component.
LEMMA EnqueuedContent ==
  ASSUME TypeOK, NothingLost, NEW f \in Fibers, NEW lane \in Lanes, enqueueUpdate(f, lane),
         NEW q, NEW g \in Fibers, q \in {current.queue[g], workInProgress.queue[g]}
  PROVE  contentOf(q, sharedPending[g], stagedWith(f, lane)[g]) = log'[g]
<1>1. updates < MaxUpdates /\ log' = [log EXCEPT ![f] = Append(@, updates + 1)]
  BY DEF enqueueUpdate
<1>2. /\ newUpdate(lane) \in Update /\ newUpdate(lane).id = updates + 1
      /\ stagedWith(f, lane)[f] = Append(concurrentQueues[f], newUpdate(lane))
      /\ \A h \in Fibers \ {f} : stagedWith(f, lane)[h] = concurrentQueues[h]
  BY <1>1, StagedProperties
<1>3. contentOf(q, sharedPending[g], concurrentQueues[g]) = log[g] /\ log \in [Fibers -> Seq(Ids)]
  BY Contents DEF TypeOK
<1>4. q \in UpdateQueue /\ sharedPending[g] \in Seq(Update) /\ concurrentQueues[g] \in Seq(Update)
  BY TreeFields DEF TypeOK
<1>5. CASE g = f
  <2>1. contentOf(q, sharedPending[g], Append(concurrentQueues[g], newUpdate(lane)))
          = Append(contentOf(q, sharedPending[g], concurrentQueues[g]), newUpdate(lane).id)
    BY <1>2, <1>4, ContentLaws
  <2>2. log'[g] = Append(log[g], updates + 1)
    BY <1>1, <1>3, <1>5
  <2> QED BY <1>2, <1>3, <1>5, <2>1, <2>2
<1>6. CASE g # f
  BY <1>1, <1>2, <1>3, <1>6
<1> QED
  BY <1>5, <1>6

LEMMA EnqueueLosesNothing ==
  ASSUME TypeOK, NothingLost, NEW f \in Fibers, NEW lane \in Lanes, enqueueUpdate(f, lane)
  PROVE  NothingLost'
<1>1. CASE work.phase = "waiting"
  <2>1. updates < MaxUpdates /\ stagedWith(f, lane) \in [Fibers -> Seq(Update)]
    BY EnqueueForms, StagedProperties
  <2>2. PICK tree \in Tree : /\ tree.queue = current.queue
                             /\ prepareFreshStack(stagedWith(f, lane), tree, {})
    BY <1>1, EnqueueForms
  <2>3. finishQueueingConcurrentUpdates(stagedWith(f, lane), tree, tree)
    BY <2>2 DEF prepareFreshStack
  <2>4. /\ \A g \in Fibers : /\ concurrentQueues'[g] = <<>>
                             /\ sharedPending'[g] = sharedPending[g] \o stagedWith(f, lane)[g]
        /\ current'.queue = current.queue /\ workInProgress'.queue = current.queue
    BY <2>1, <2>2, <2>3, FinishQueueing
  <2>5. ASSUME NEW g \in Fibers
        PROVE  contentOf(current.queue[g], sharedPending'[g], concurrentQueues'[g]) = log'[g]
    <3>1. contentOf(current.queue[g], sharedPending[g], stagedWith(f, lane)[g]) = log'[g]
      BY EnqueuedContent
    <3>2. /\ current.queue[g] \in UpdateQueue /\ sharedPending[g] \in Seq(Update)
          /\ stagedWith(f, lane)[g] \in Seq(Update)
      BY <2>1, TreeFields DEF TypeOK
    <3>3. contentOf(current.queue[g], sharedPending[g] \o stagedWith(f, lane)[g], <<>>)
            = contentOf(current.queue[g], sharedPending[g], stagedWith(f, lane)[g])
      BY <3>2, ContentLaws
    <3> QED BY <2>4, <3>1, <3>3
  <2> QED BY <2>4, <2>5, Contents
<1>2. CASE work.phase # "waiting"
  <2>1. /\ sharedPending' = sharedPending /\ concurrentQueues' = stagedWith(f, lane)
        /\ current'.queue = current.queue /\ workInProgress'.queue = workInProgress.queue
    BY <1>2, EnqueueForms
  <2>2. \A g \in Fibers :
          /\ contentOf(current.queue[g], sharedPending[g], stagedWith(f, lane)[g]) = log'[g]
          /\ contentOf(workInProgress.queue[g], sharedPending[g], stagedWith(f, lane)[g]) = log'[g]
    BY EnqueuedContent
  <2> QED BY <2>1, <2>2, Contents
<1> QED
  BY <1>1, <1>2

\* A component is rendered: both trees keep its updates.
LEMMA UpdateLosesNothing ==
  ASSUME TypeOK, NothingLost, NEW f \in Fibers, updateClassInstance(f)
  PROVE  NothingLost'
<1>1. /\ concurrentQueues' = concurrentQueues /\ Kept
      /\ workInProgress'.queue[f] =
           process(workInProgress.queue[f], sharedPending[f], work.lanes)
      /\ \A g \in Fibers \ {f} : /\ workInProgress'.queue[g] = workInProgress.queue[g]
                                 /\ current'.queue[g] = current.queue[g]
                                 /\ sharedPending'[g] = sharedPending[g]
      /\ sharedPending'[f] = <<>>
      /\ current'.queue[f].baseState = current.queue[f].baseState
      /\ current'.queue[f].baseUpdates = current.queue[f].baseUpdates \o sharedPending[f]
  BY UpdateStep
<1>2. log' = log
  BY <1>1 DEF Kept, history
<1>3. /\ current.queue[f] \in UpdateQueue /\ workInProgress.queue[f] \in UpdateQueue
      /\ sharedPending[f] \in Seq(Update) /\ concurrentQueues[f] \in Seq(Update)
  BY TreeFields DEF TypeOK
<1>4. contentOf(process(workInProgress.queue[f], sharedPending[f], work.lanes), <<>>,
                concurrentQueues[f])
        = contentOf(workInProgress.queue[f], sharedPending[f], concurrentQueues[f])
  BY <1>3, ProcessContent
<1>5. contentOf(current'.queue[f], <<>>, concurrentQueues[f])
        = contentOf(current.queue[f], sharedPending[f], concurrentQueues[f])
  <2>1. \A p : /\ p.baseState = current.queue[f].baseState
              /\ p.baseUpdates = current.queue[f].baseUpdates \o sharedPending[f]
              => contentOf(p, <<>>, concurrentQueues[f])
                   = contentOf(current.queue[f], sharedPending[f], concurrentQueues[f])
    BY <1>3, ContentLaws
  <2> QED BY <1>1, <2>1, Zenon
<1>6. ASSUME NEW g \in Fibers
      PROVE  /\ contentOf(current'.queue[g], sharedPending'[g], concurrentQueues'[g]) = log'[g]
             /\ contentOf(workInProgress'.queue[g], sharedPending'[g], concurrentQueues'[g]) = log'[g]
  <2>1. CASE g = f
    BY <1>1, <1>2, <1>4, <1>5, <2>1, Contents
  <2>2. CASE g # f
    BY <1>1, <1>2, <2>2, Contents
  <2> QED BY <2>1, <2>2
<1> QED
  BY <1>6, Contents

\* What is committed has the updates of the tree that was rendered.
LEMMA CommittedContent ==
  ASSUME NEW p, NEW q, p.baseState = q.baseState, p.baseUpdates = q.baseUpdates
  PROVE  \A a, b : contentOf(p, a, b) = contentOf(q, a, b)
  BY DEF contentOf

LEMMA NothingLostStep ==
  ASSUME TypeOK, WorkOK, NothingLost, [Next]_vars
  PROVE  NothingLost'
<1>1. CASE Quiet
  BY <1>1 DEF Quiet, Kept, history, trees, queues, NothingLost, content
<1>2. CASE Restarted
  <2>1. /\ log' = log
        /\ \A f \in Fibers : /\ concurrentQueues'[f] = <<>>
                             /\ sharedPending'[f] = sharedPending[f] \o concurrentQueues[f]
        /\ current'.queue = current.queue /\ workInProgress'.queue = current.queue
    BY <1>2, RestartedStep DEF Restarted, Kept, history
  <2> QED BY <2>1, FlushedContent
<1>3. ASSUME NEW f \in Fibers, NEW lane \in Lanes, enqueueUpdate(f, lane)
      PROVE  NothingLost'
  BY <1>3, EnqueueLosesNothing
<1>4. ASSUME NEW f \in Fibers, updateClassInstance(f)
      PROVE  NothingLost'
  BY <1>4, UpdateLosesNothing
<1>5. CASE suspendRender
  <2>1. current'.queue = current.queue /\ workInProgress' = current' /\ log' = log
    BY <1>5, MarkedCurrent DEF suspendRender, history
  <2>2. \A f \in Fibers : /\ concurrentQueues'[f] = <<>>
                          /\ sharedPending'[f] = sharedPending[f] \o concurrentQueues[f]
    BY <1>5, RenderDoneStep DEF suspendRender
  <2> QED BY <2>1, <2>2, FlushedContent
<1>6. CASE suspendCommit
  <2>1. current'.queue = current.queue /\ workInProgress'.queue = workInProgress.queue /\ log' = log
    BY <1>6, MarkedCurrent, FinishedTreeProperties DEF suspendCommit, history
  <2>2. \A f \in Fibers : /\ concurrentQueues'[f] = <<>>
                          /\ sharedPending'[f] = sharedPending[f] \o concurrentQueues[f]
    BY <1>6, RenderDoneStep DEF suspendCommit
  <2> QED BY <2>1, <2>2, FlushedContent
<1>7. CASE finishRender
  <2>1. /\ finishedTree \in Tree /\ finishedTree.queue = workInProgress.queue
        /\ workInProgress' = current' /\ log' = log
        /\ \A f \in Fibers : /\ current'.queue[f].baseState = finishedTree.queue[f].baseState
                             /\ current'.queue[f].baseUpdates = finishedTree.queue[f].baseUpdates
    BY <1>7, FinishRenderStep, CommitStep, FinishedTreeProperties DEF finishRender
  <2>2. \A f \in Fibers : /\ concurrentQueues'[f] = <<>>
                          /\ sharedPending'[f] = sharedPending[f] \o concurrentQueues[f]
    BY <1>7, RenderDoneStep DEF finishRender
  <2>3. ASSUME NEW f \in Fibers
        PROVE  contentOf(current'.queue[f], sharedPending'[f], concurrentQueues'[f]) = log'[f]
    <3>1. contentOf(current'.queue[f], sharedPending'[f], concurrentQueues'[f])
            = contentOf(workInProgress.queue[f], sharedPending[f] \o concurrentQueues[f], <<>>)
      <4>1. /\ current'.queue[f].baseState = workInProgress.queue[f].baseState
            /\ current'.queue[f].baseUpdates = workInProgress.queue[f].baseUpdates
        BY <2>1
      <4>2. \A x, y : contentOf(current'.queue[f], x, y) = contentOf(workInProgress.queue[f], x, y)
        BY <4>1, CommittedContent
      <4> QED BY <2>2, <4>2
    <3>2. /\ workInProgress.queue[f] \in UpdateQueue /\ sharedPending[f] \in Seq(Update)
          /\ concurrentQueues[f] \in Seq(Update)
      BY TreeFields DEF TypeOK
    <3>3. contentOf(workInProgress.queue[f], sharedPending[f] \o concurrentQueues[f], <<>>)
            = contentOf(workInProgress.queue[f], sharedPending[f], concurrentQueues[f])
      BY <3>2, ContentLaws
    <3>4. contentOf(workInProgress.queue[f], sharedPending[f], concurrentQueues[f]) = log[f]
      BY Contents
    <3> QED BY <2>1, <3>1, <3>3, <3>4
  <2> QED BY <2>1, <2>3, Contents
<1>8. CASE pendingCommitReady
  <2>1. /\ workInProgress' = current' /\ log' = log
        /\ sharedPending' = sharedPending /\ concurrentQueues' = concurrentQueues
        /\ \A f \in Fibers : /\ current'.queue[f].baseState = workInProgress.queue[f].baseState
                             /\ current'.queue[f].baseUpdates = workInProgress.queue[f].baseUpdates
    BY <1>8, PendingCommitStep, CommitStep DEF pendingCommitReady, queues
  <2>2. ASSUME NEW f \in Fibers
        PROVE  contentOf(current'.queue[f], sharedPending'[f], concurrentQueues'[f]) = log'[f]
    <3>1. contentOf(current'.queue[f], sharedPending'[f], concurrentQueues'[f])
            = contentOf(workInProgress.queue[f], sharedPending[f], concurrentQueues[f])
      <4>1. \A x, y : contentOf(current'.queue[f], x, y) = contentOf(workInProgress.queue[f], x, y)
        BY <2>1, CommittedContent
      <4> QED BY <2>1, <4>1
    <3> QED BY <2>1, <3>1, Contents
  <2> QED BY <2>1, <2>2, Contents
<1> QED
  BY <1>1, <1>2, <1>3, <1>4, <1>5, <1>6, <1>7, <1>8, StepForms
------------------------------------------------------------------------------
\* No update is stranded

\* What leads to the updates of a component in a tree.
MarkedAt(queue, pending, staged, lanes, childLanes, rootLanes) ==
  /\ lanesOf(queue.baseUpdates) \cup lanesOf(pending) \subseteq lanes
  /\ lanesOf(queue.baseUpdates) \cup lanesOf(pending) \subseteq childLanes
  /\ lanesOf(queue.baseUpdates) \cup lanesOf(pending) \subseteq rootLanes
  /\ lanesOf(staged) \subseteq lanes /\ lanesOf(staged) \subseteq rootLanes

LEMMA Stranded ==
  /\ NothingStranded <=>
       \A f \in Fibers :
         MarkedAt(current.queue[f], sharedPending[f], concurrentQueues[f],
                  current.lanes[f], current.childLanes, root.pending)
  /\ NothingStranded' <=>
       \A f \in Fibers :
         MarkedAt(current'.queue[f], sharedPending'[f], concurrentQueues'[f],
                  current'.lanes[f], current'.childLanes, root'.pending)
  BY DEF NothingStranded, MarkedAt

LEMMA QueueTypes ==
  ASSUME TypeOK, NEW f \in Fibers
  PROVE  /\ sharedPending[f] \in Seq(Update) /\ concurrentQueues[f] \in Seq(Update)
         /\ current.queue[f].baseUpdates \in Seq(Update)
         /\ workInProgress.queue[f].baseUpdates \in Seq(Update)
  BY TreeFields DEF TypeOK

\* Updates come to their queue, and the path to it is marked.
LEMMA FlushedMarks ==
  ASSUME NEW queue, NEW pending \in Seq(Update), NEW staged \in Seq(Update),
         NEW lanes, NEW childLanes, NEW rootLanes,
         lanesOf(queue.baseUpdates) \cup lanesOf(pending) \subseteq lanes \cap childLanes,
         lanesOf(queue.baseUpdates) \cup lanesOf(pending) \subseteq rootLanes,
         lanesOf(staged) \subseteq lanes \cap childLanes, lanesOf(staged) \subseteq rootLanes
  PROVE  MarkedAt(queue, pending \o staged, <<>>, lanes, childLanes, rootLanes)
  BY LanesOfConcat, LanesOfEmpty DEF MarkedAt

LEMMA StagedLanes ==
  ASSUME TypeOK, updates < MaxUpdates, NEW f \in Fibers, NEW lane \in Lanes
  PROVE  /\ lanesOf(stagedWith(f, lane)[f]) = lanesOf(concurrentQueues[f]) \cup {lane}
         /\ \A g \in Fibers \ {f} : lanesOf(stagedWith(f, lane)[g]) = lanesOf(concurrentQueues[g])
         /\ stagedWith(f, lane) \in [Fibers -> Seq(Update)]
<1>1. /\ newUpdate(lane) \in Update /\ newUpdate(lane).lane = lane
      /\ stagedWith(f, lane)[f] = Append(concurrentQueues[f], newUpdate(lane))
      /\ \A g \in Fibers \ {f} : stagedWith(f, lane)[g] = concurrentQueues[g]
      /\ stagedWith(f, lane) \in [Fibers -> Seq(Update)]
      /\ concurrentQueues[f] \in Seq(Update)
  <2>1. concurrentQueues \in [Fibers -> Seq(Update)]
    BY DEF TypeOK
  <2> QED BY <2>1, StagedProperties
<1>2. lanesOf(Append(concurrentQueues[f], newUpdate(lane)))
        = lanesOf(concurrentQueues[f]) \cup {newUpdate(lane).lane}
  <2>1. lane # NoLane
    BY DEF Lanes, NoLane, SyncLane, DefaultLane, TransitionLane
  <2> QED BY <1>1, <2>1, LanesOfAppend
<1> QED
  BY <1>1, <1>2

LEMMA EnqueueMarks ==
  ASSUME TypeOK, NothingStranded, MarksOK, NEW f \in Fibers, NEW lane \in Lanes,
         enqueueUpdate(f, lane)
  PROVE  NothingStranded' /\ MarksOK'
<1>1. /\ updates < MaxUpdates /\ root'.pending = root.pending \cup {lane}
  BY EnqueueForms
<1>2. /\ lanesOf(stagedWith(f, lane)[f]) = lanesOf(concurrentQueues[f]) \cup {lane}
      /\ \A g \in Fibers \ {f} : lanesOf(stagedWith(f, lane)[g]) = lanesOf(concurrentQueues[g])
      /\ stagedWith(f, lane) \in [Fibers -> Seq(Update)]
  BY <1>1, StagedLanes
<1>3. CASE work.phase = "waiting"
  <2>1. PICK tree \in Tree :
          /\ tree.queue = current.queue /\ tree.childLanes = current.childLanes
          /\ tree.lanes[f] = current.lanes[f] \cup {lane}
          /\ \A g \in Fibers : current.lanes[g] \subseteq tree.lanes[g]
          /\ prepareFreshStack(stagedWith(f, lane), tree, {})
    BY <1>3, EnqueueForms
  <2>2. finishQueueingConcurrentUpdates(stagedWith(f, lane), tree, tree)
        /\ work' = newWork("rendering", {})
    BY <2>1 DEF prepareFreshStack
  <2>3. /\ \A g \in Fibers : /\ concurrentQueues'[g] = <<>>
                             /\ sharedPending'[g] = sharedPending[g] \o stagedWith(f, lane)[g]
        /\ current'.queue = tree.queue /\ workInProgress'.queue = tree.queue
        /\ \A g \in Fibers :
             /\ current'.lanes[g] = tree.lanes[g] \cup lanesOf(stagedWith(f, lane)[g])
             /\ workInProgress'.lanes[g] = tree.lanes[g] \cup lanesOf(stagedWith(f, lane)[g])
        /\ current'.childLanes =
             tree.childLanes \cup UNION {lanesOf(stagedWith(f, lane)[g]) : g \in Fibers}
    <3>1. Requeued(stagedWith(f, lane), tree, tree)
      BY <1>2, <2>2, Requeueing
    <3> QED BY <3>1 DEF Requeued
  <2>4. work'.phase = "rendering"
    BY <2>2, NewWorkType
  <2>5. ASSUME NEW g \in Fibers
        PROVE  MarkedAt(current'.queue[g], sharedPending'[g], concurrentQueues'[g],
                        current'.lanes[g], current'.childLanes, root'.pending)
    <3>1. MarkedAt(current.queue[g], sharedPending[g], concurrentQueues[g],
                   current.lanes[g], current.childLanes, root.pending)
      BY Stranded
    <3>2. sharedPending[g] \in Seq(Update) /\ stagedWith(f, lane)[g] \in Seq(Update)
      BY <1>2, QueueTypes
    <3>3. lanesOf(stagedWith(f, lane)[g]) \subseteq root'.pending
      BY <1>1, <1>2, <3>1 DEF MarkedAt
    <3>4. MarkedAt(current.queue[g], sharedPending[g] \o stagedWith(f, lane)[g], <<>>,
                   current'.lanes[g], current'.childLanes, root'.pending)
      <4>1. lanesOf(current.queue[g].baseUpdates) \cup lanesOf(sharedPending[g])
              \subseteq current'.lanes[g] \cap current'.childLanes
        BY <2>1, <2>3, <3>1 DEF MarkedAt
      <4>2. lanesOf(current.queue[g].baseUpdates) \cup lanesOf(sharedPending[g])
              \subseteq root'.pending
        BY <1>1, <3>1 DEF MarkedAt
      <4>3. lanesOf(stagedWith(f, lane)[g]) \subseteq current'.lanes[g] \cap current'.childLanes
        BY <2>3
      <4> QED BY <3>2, <3>3, <4>1, <4>2, <4>3, FlushedMarks
    <3> QED BY <2>1, <2>3, <3>4
  <2>6. NothingStranded'
    BY <2>5, Stranded
  <2>7. MarksOK'
    BY <2>1, <2>3, <2>4, <2>5 DEF MarksOK, MarkedAt
  <2> QED BY <2>6, <2>7
<1>4. CASE work.phase # "waiting"
  <2>1. /\ sharedPending' = sharedPending /\ concurrentQueues' = stagedWith(f, lane)
        /\ current'.queue = current.queue /\ current'.childLanes = current.childLanes
        /\ current'.lanes[f] = current.lanes[f] \cup {lane}
        /\ workInProgress'.queue = workInProgress.queue
        /\ \A g \in Fibers : /\ current.lanes[g] \subseteq current'.lanes[g]
                             /\ workInProgress.lanes[g] \subseteq workInProgress'.lanes[g]
        /\ work'.phase = work.phase
    BY <1>4, EnqueueForms
  <2>2. MarksOK'
    BY <1>4, <2>1 DEF MarksOK
  <2>3. ASSUME NEW g \in Fibers
        PROVE  MarkedAt(current'.queue[g], sharedPending'[g], concurrentQueues'[g],
                        current'.lanes[g], current'.childLanes, root'.pending)
    <3>1. MarkedAt(current.queue[g], sharedPending[g], concurrentQueues[g],
                   current.lanes[g], current.childLanes, root.pending)
      BY Stranded
    <3>2. lanesOf(stagedWith(f, lane)[g]) \subseteq current'.lanes[g] \cap root'.pending
      BY <1>1, <1>2, <2>1, <3>1 DEF MarkedAt
    <3> QED BY <1>1, <2>1, <3>1, <3>2 DEF MarkedAt
  <2> QED BY <2>2, <2>3, Stranded
<1> QED
  BY <1>3, <1>4

\* The updates of a component that is rendered: those it skips stay marked.
LEMMA UpdateMarks ==
  ASSUME TypeOK, WorkOK, NothingStranded, MarksOK, NEW f \in Fibers, updateClassInstance(f)
  PROVE  NothingStranded' /\ MarksOK'
<1>1. /\ concurrentQueues' = concurrentQueues
      /\ workInProgress'.lanes[f] = lanesOf(workInProgress'.queue[f].baseUpdates)
      /\ \A g \in Fibers \ {f} : /\ workInProgress'.queue[g] = workInProgress.queue[g]
                                 /\ workInProgress'.lanes[g] = workInProgress.lanes[g]
                                 /\ current'.queue[g] = current.queue[g]
                                 /\ sharedPending'[g] = sharedPending[g]
      /\ sharedPending'[f] = <<>>
      /\ current'.lanes = current.lanes /\ current'.childLanes = current.childLanes
      /\ current'.queue[f].baseUpdates = current.queue[f].baseUpdates \o sharedPending[f]
  BY UpdateStep
<1>2. work'.phase = "rendering" /\ root'.pending = root.pending
  <2>1. work.phase = "rendering"
    BY DEF updateClassInstance, TypeOK
  <2> QED BY <2>1, UpdateWork
<1>3. lanesOf(current'.queue[f].baseUpdates)
        = lanesOf(current.queue[f].baseUpdates) \cup lanesOf(sharedPending[f])
  BY <1>1, QueueTypes, LanesOfConcat
<1>4. ASSUME NEW g \in Fibers
      PROVE  MarkedAt(current'.queue[g], sharedPending'[g], concurrentQueues'[g],
                      current'.lanes[g], current'.childLanes, root'.pending)
  <2>1. MarkedAt(current.queue[g], sharedPending[g], concurrentQueues[g],
                 current.lanes[g], current.childLanes, root.pending)
    BY Stranded
  <2>2. CASE g = f
    BY <1>1, <1>2, <1>3, <2>1, <2>2, LanesOfEmpty DEF MarkedAt
  <2>3. CASE g # f
    BY <1>1, <1>2, <2>1, <2>3 DEF MarkedAt
  <2> QED BY <2>2, <2>3
<1>5. ASSUME NEW g \in Fibers
      PROVE  lanesOf(workInProgress'.queue[g].baseUpdates) \cup lanesOf(sharedPending'[g])
               \subseteq workInProgress'.lanes[g]
  <2>1. CASE g = f
    BY <1>1, <2>1, LanesOfEmpty
  <2>2. CASE g # f
    BY <1>1, <2>2 DEF MarksOK
  <2> QED BY <2>1, <2>2
<1> QED
  BY <1>2, <1>4, <1>5, Stranded DEF MarksOK

\* A restart or the end of a render: what was staged is marked in both trees.
LEMMA FlushMarksStep ==
  ASSUME TypeOK, NothingStranded, root'.pending = root.pending,
         \A f \in Fibers : /\ concurrentQueues'[f] = <<>>
                           /\ sharedPending'[f] = sharedPending[f] \o concurrentQueues[f],
         current'.queue = current.queue,
         \A f \in Fibers :
           current'.lanes[f] = current.lanes[f] \cup lanesOf(concurrentQueues[f]),
         current'.childLanes =
           current.childLanes \cup UNION {lanesOf(concurrentQueues[f]) : f \in Fibers}
  PROVE  NothingStranded'
<1>1. ASSUME NEW f \in Fibers
      PROVE  MarkedAt(current'.queue[f], sharedPending'[f], concurrentQueues'[f],
                      current'.lanes[f], current'.childLanes, root'.pending)
  <2>1. MarkedAt(current.queue[f], sharedPending[f], concurrentQueues[f],
                 current.lanes[f], current.childLanes, root.pending)
    BY Stranded
  <2>2. sharedPending[f] \in Seq(Update) /\ concurrentQueues[f] \in Seq(Update)
    BY QueueTypes
  <2>3. MarkedAt(current.queue[f], sharedPending[f] \o concurrentQueues[f], <<>>,
                 current'.lanes[f], current'.childLanes, root'.pending)
    <3>1. lanesOf(current.queue[f].baseUpdates) \cup lanesOf(sharedPending[f])
            \subseteq current'.lanes[f] \cap current'.childLanes
      BY <2>1 DEF MarkedAt
    <3>2. /\ lanesOf(current.queue[f].baseUpdates) \cup lanesOf(sharedPending[f])
               \subseteq root'.pending
          /\ lanesOf(concurrentQueues[f]) \subseteq root'.pending
      BY <2>1 DEF MarkedAt
    <3>3. lanesOf(concurrentQueues[f]) \subseteq current'.lanes[f] \cap current'.childLanes
      OBVIOUS
    <3> QED BY <2>2, <3>1, <3>2, <3>3, FlushedMarks
  <2> QED BY <2>3
<1> QED
  BY <1>1, Stranded

\* The same tree twice.
LEMMA MarksOfCurrent ==
  ASSUME NothingStranded', work'.phase # "waiting",
         workInProgress'.queue = current'.queue,
         \A f \in Fibers : workInProgress'.lanes[f] = current'.lanes[f]
  PROVE  MarksOK'
  BY DEF NothingStranded, MarksOK

\* What is rendered is marked, and is about to be shown.
LEMMA FinishedMarks ==
  ASSUME TypeOK, NothingStranded, MarksOK, NEW f \in Fibers
  PROVE  /\ lanesOf(workInProgress.queue[f].baseUpdates)
              \cup lanesOf(sharedPending[f] \o concurrentQueues[f])
              \subseteq finishedTree.lanes[f]
         /\ finishedTree.lanes[f] \subseteq finishedTree.childLanes
<1>1. lanesOf(sharedPending[f] \o concurrentQueues[f])
        = lanesOf(sharedPending[f]) \cup lanesOf(concurrentQueues[f])
  BY QueueTypes, LanesOfConcat
<1>2. /\ finishedTree.lanes[f] = workInProgress.lanes[f] \cup lanesOf(concurrentQueues[f])
      /\ finishedTree.lanes[f] \subseteq finishedTree.childLanes
  BY FinishedTreeProperties
<1> QED
  BY <1>1, <1>2 DEF MarksOK

LEMMA SuspendedPending ==
  ASSUME TypeOK, WorkOK, renderDone, root' = markRootSuspended(root, work.lanes, work)
  PROVE  root'.pending = root.pending
  BY DEF TypeOK, markRootSuspended

LEMMA NothingStrandedStep ==
  ASSUME TypeOK, WorkOK, NothingStranded, MarksOK, [Next]_vars
  PROVE  NothingStranded' /\ MarksOK'
<1>1. CASE Quiet
  BY <1>1 DEF Quiet, trees, queues, NothingStranded, MarksOK
<1>2. CASE Restarted
  <2>1. PICK lanes \in SUBSET root.pending : prepareFreshStack(concurrentQueues, current, lanes)
    BY <1>2 DEF Restarted
  <2>2. lanes \in SUBSET Lanes /\ root'.pending = root.pending
    BY <1>2, <2>1 DEF TypeOK, Restarted
  <2>3. NothingStranded'
    BY <2>1, <2>2, RestartedStep, FlushMarksStep
  <2>4. work'.phase = "rendering"
    BY <2>1, <2>2, NewWorkType DEF prepareFreshStack
  <2> QED BY <2>1, <2>3, <2>4, RestartedStep, MarksOfCurrent
<1>3. ASSUME NEW f \in Fibers, NEW lane \in Lanes, enqueueUpdate(f, lane)
      PROVE  NothingStranded' /\ MarksOK'
  BY <1>3, EnqueueMarks
<1>4. ASSUME NEW f \in Fibers, updateClassInstance(f)
      PROVE  NothingStranded' /\ MarksOK'
  BY <1>4, UpdateMarks
<1>5. CASE suspendRender
  <2>1. root'.pending = root.pending /\ work'.phase = "none" /\ workInProgress' = current'
    BY <1>5, SuspendedPending, NewWorkType DEF suspendRender
  <2>2. NothingStranded'
    BY <1>5, <2>1, RenderDoneStep, MarkedCurrent, FlushMarksStep DEF suspendRender
  <2> QED BY <2>1, <2>2, MarksOfCurrent
<1>6. CASE suspendCommit
  <2>1. root'.pending = root.pending /\ workInProgress' = finishedTree
    BY <1>6, SuspendedPending DEF suspendCommit
  <2>2. NothingStranded'
    BY <1>6, <2>1, RenderDoneStep, MarkedCurrent, FlushMarksStep DEF suspendCommit
  <2>3. /\ finishedTree.queue = workInProgress.queue
        /\ \A f \in Fibers : sharedPending'[f] = sharedPending[f] \o concurrentQueues[f]
    BY <1>6, RenderDoneStep, FinishedTreeProperties DEF suspendCommit
  <2>4. MarksOK'
    BY <2>1, <2>3, FinishedMarks DEF MarksOK
  <2> QED BY <2>2, <2>4
<1>7. CASE finishRender
  <2>1. /\ finishedTree \in Tree /\ finishedTree.queue = workInProgress.queue
        /\ workInProgress' = current' /\ work' = newWork("none", {})
        /\ current'.lanes = finishedTree.lanes /\ current'.childLanes = finishedTree.childLanes
        /\ \A f \in Fibers : current'.queue[f].baseUpdates = finishedTree.queue[f].baseUpdates
        /\ finishedTree.childLanes \subseteq root'.pending
    BY <1>7, FinishRenderStep, CommitStep, FinishedTreeProperties
  <2>2. \A f \in Fibers : /\ concurrentQueues'[f] = <<>>
                          /\ sharedPending'[f] = sharedPending[f] \o concurrentQueues[f]
    BY <1>7, RenderDoneStep DEF finishRender
  <2>3. ASSUME NEW f \in Fibers
        PROVE  MarkedAt(current'.queue[f], sharedPending'[f], concurrentQueues'[f],
                        current'.lanes[f], current'.childLanes, root'.pending)
    BY <2>1, <2>2, FinishedMarks, LanesOfEmpty DEF MarkedAt
  <2>4. NothingStranded' /\ work'.phase = "none"
    BY <2>1, <2>3, Stranded, NewWorkType
  <2> QED BY <2>1, <2>4, MarksOfCurrent
<1>8. CASE pendingCommitReady
  <2>1. /\ workInProgress' = current' /\ work' = newWork("none", {})
        /\ current'.lanes = workInProgress.lanes
        /\ current'.childLanes = workInProgress.childLanes
        /\ \A f \in Fibers :
             current'.queue[f].baseUpdates = workInProgress.queue[f].baseUpdates
        /\ workInProgress.childLanes \subseteq root'.pending
        /\ sharedPending' = sharedPending /\ concurrentQueues' = concurrentQueues
    BY <1>8, PendingCommitStep, CommitStep DEF queues
  <2>2. \A f \in Fibers : lanesOf(concurrentQueues[f]) = {}
    BY <1>8, LanesOfEmpty DEF pendingCommitReady, WorkOK
  <2>3. \A f \in Fibers : workInProgress.lanes[f] \subseteq workInProgress.childLanes
    BY <1>8 DEF pendingCommitReady, MarksOK
  <2>4. ASSUME NEW f \in Fibers
        PROVE  MarkedAt(current'.queue[f], sharedPending'[f], concurrentQueues'[f],
                        current'.lanes[f], current'.childLanes, root'.pending)
    BY <2>1, <2>2, <2>3 DEF MarkedAt, MarksOK
  <2>5. NothingStranded' /\ work'.phase = "none"
    BY <2>1, <2>4, Stranded, NewWorkType
  <2> QED BY <2>1, <2>5, MarksOfCurrent
<1> QED
  BY <1>1, <1>2, <1>3, <1>4, <1>5, <1>6, <1>7, <1>8, StepForms
------------------------------------------------------------------------------
\* The history

LEMMA LogEnqueue ==
  ASSUME TypeOK, LogOK, updates < MaxUpdates, NEW f \in Fibers,
         log' = [log EXCEPT ![f] = Append(@, updates + 1)], updates' = updates + 1
  PROVE  LogOK'
<1>1. log[f] \in Seq(Ids) /\ log \in [Fibers -> Seq(Ids)] /\ updates \in Nat
  BY DEF TypeOK
<1>2. updates + 1 \in Nat /\ Len(log[f]) \in Nat
  BY <1>1, LenProperties
<1>3. /\ Len(Append(log[f], updates + 1)) = Len(log[f]) + 1
      /\ \A i \in 1..Len(log[f]) : Append(log[f], updates + 1)[i] = log[f][i]
      /\ Append(log[f], updates + 1)[Len(log[f]) + 1] = updates + 1
  <2>1. updates + 1 \in Ids
    BY <1>1, BoundsAssumption DEF Ids
  <2> QED BY <1>1, <2>1, AppendProperties
<1>4. /\ log'[f] = Append(log[f], updates + 1)
      /\ \A g \in Fibers \ {f} : log'[g] = log[g]
  BY <1>1
<1>5. ASSUME NEW g \in Fibers, NEW i \in 1..Len(log'[g])
      PROVE  \/ i \in 1..Len(log[g]) /\ log'[g][i] = log[g][i]
             \/ g = f /\ i = Len(log[f]) + 1 /\ log'[g][i] = updates + 1
  <2>1. CASE g = f
    BY <1>2, <1>3, <1>4, <2>1
  <2>2. CASE g # f
    BY <1>4, <2>2
  <2> QED BY <2>1, <2>2
<1>6. \A g \in Fibers : \A i \in 1..Len(log[g]) : log[g][i] <= updates /\ log[g][i] \in Nat
  <2>1. \A g \in Fibers : \A i \in 1..Len(log[g]) : log[g][i] \in Ids
    BY <1>1, ElementOfSeq
  <2> QED BY <2>1 DEF LogOK, Ids
<1>7. ASSUME NEW g \in Fibers, NEW i \in 1..Len(log'[g])
      PROVE  log'[g][i] <= updates'
  BY <1>1, <1>5, <1>6
<1>8. ASSUME NEW g \in Fibers, NEW h \in Fibers,
             NEW i \in 1..Len(log'[g]), NEW j \in 1..Len(log'[h]), log'[g][i] = log'[h][j]
      PROVE  g = h /\ i = j
  <2>1. \/ i \in 1..Len(log[g]) /\ log'[g][i] = log[g][i]
        \/ g = f /\ i = Len(log[f]) + 1 /\ log'[g][i] = updates + 1
    BY <1>5
  <2>2. \/ j \in 1..Len(log[h]) /\ log'[h][j] = log[h][j]
        \/ h = f /\ j = Len(log[f]) + 1 /\ log'[h][j] = updates + 1
    BY <1>5
  <2>3. CASE i \in 1..Len(log[g]) /\ log'[g][i] = log[g][i]
             /\ j \in 1..Len(log[h]) /\ log'[h][j] = log[h][j]
    BY <1>8, <2>3 DEF LogOK
  <2>4. CASE i \in 1..Len(log[g]) /\ log'[g][i] = log[g][i]
             /\ h = f /\ j = Len(log[f]) + 1 /\ log'[h][j] = updates + 1
    BY <1>1, <1>6, <1>8, <2>4
  <2>5. CASE j \in 1..Len(log[h]) /\ log'[h][j] = log[h][j]
             /\ g = f /\ i = Len(log[f]) + 1 /\ log'[g][i] = updates + 1
    BY <1>1, <1>6, <1>8, <2>5
  <2> QED BY <2>1, <2>2, <2>3, <2>4, <2>5
<1> QED
  BY <1>7, <1>8 DEF LogOK

LEMMA LogStep ==
  ASSUME TypeOK, WorkOK, LogOK, [Next]_vars
  PROVE  LogOK'
<1>1. ASSUME UNCHANGED <<updates, log>>
      PROVE  LogOK'
  BY <1>1 DEF LogOK
<1>2. ASSUME NEW f \in Fibers, NEW lane \in Lanes, enqueueUpdate(f, lane)
      PROVE  LogOK'
  BY <1>2, EnqueueForms, LogEnqueue
<1>3. ASSUME NEW f \in Fibers, updateClassInstance(f)
      PROVE  UNCHANGED <<updates, log>>
  BY <1>3 DEF updateClassInstance, history
<1>4. CASE Quiet \/ Restarted
  BY <1>1, <1>4 DEF Quiet, Restarted, Kept, history
<1>5. CASE suspendRender \/ suspendCommit \/ finishRender \/ pendingCommitReady
  BY <1>1, <1>5 DEF suspendRender, suspendCommit, finishRender, pendingCommitReady,
                    environment, history
<1> QED
  BY <1>1, <1>2, <1>3, <1>4, <1>5, StepForms

LEMMA FreshLists ==
  /\ AllFresh(<<>>)
  /\ \A s, t \in Seq(Update) : AllFresh(s) /\ AllFresh(t) => AllFresh(s \o t)
  /\ \A s \in Seq(Update) : \A u \in Update : AllFresh(s) /\ Fresh(u) => AllFresh(Append(s, u))
<1>1. AllFresh(<<>>)
  BY DEF AllFresh
<1>2. ASSUME NEW s \in Seq(Update), NEW t \in Seq(Update), AllFresh(s), AllFresh(t)
      PROVE  AllFresh(s \o t)
  <2>1. /\ Len(s \o t) = Len(s) + Len(t)
        /\ \A i \in 1..(Len(s) + Len(t)) :
             (s \o t)[i] = IF i <= Len(s) THEN s[i] ELSE t[i - Len(s)]
        /\ Len(s) \in Nat /\ Len(t) \in Nat
    BY ConcatProperties, LenProperties
  <2>2. ASSUME NEW i \in 1..(Len(s) + Len(t))
        PROVE  Fresh((s \o t)[i])
    <3>1. CASE i <= Len(s)
      <4>1. i \in 1..Len(s) /\ (s \o t)[i] = s[i]
        BY <2>1, <3>1
      <4> QED BY <1>2, <4>1 DEF AllFresh
    <3>2. CASE ~(i <= Len(s))
      <4>1. i - Len(s) \in 1..Len(t) /\ (s \o t)[i] = t[i - Len(s)]
        BY <2>1, <3>2
      <4> QED BY <1>2, <4>1 DEF AllFresh
    <3> QED BY <3>1, <3>2
  <2> QED BY <2>1, <2>2 DEF AllFresh
<1>3. ASSUME NEW s \in Seq(Update), NEW u \in Update, AllFresh(s), Fresh(u)
      PROVE  AllFresh(Append(s, u))
  <2>1. /\ Len(Append(s, u)) = Len(s) + 1 /\ Len(s) \in Nat
        /\ \A i \in 1..Len(s) : Append(s, u)[i] = s[i]
        /\ Append(s, u)[Len(s) + 1] = u
    BY AppendProperties, LenProperties
  <2>2. ASSUME NEW i \in 1..(Len(s) + 1)
        PROVE  Fresh(Append(s, u)[i])
    <3>1. CASE i \in 1..Len(s)
      BY <1>3, <2>1, <3>1 DEF AllFresh
    <3>2. CASE i = Len(s) + 1
      BY <1>3, <2>1, <3>2
    <3> QED BY <2>1, <3>1, <3>2
  <2> QED BY <2>1, <2>2 DEF AllFresh
<1> QED
  BY <1>1, <1>2, <1>3

LEMMA StagedFresh ==
  ASSUME TypeOK, FreshOK, updates < MaxUpdates, NEW f \in Fibers, NEW lane \in Lanes,
         NEW g \in Fibers
  PROVE  /\ AllFresh(stagedWith(f, lane)[g])
         /\ AllFresh(sharedPending[g] \o stagedWith(f, lane)[g])
<1>1. /\ newUpdate(lane) \in Update /\ Fresh(newUpdate(lane))
      /\ stagedWith(f, lane)[f] = Append(concurrentQueues[f], newUpdate(lane))
      /\ \A h \in Fibers \ {f} : stagedWith(f, lane)[h] = concurrentQueues[h]
      /\ stagedWith(f, lane)[g] \in Seq(Update)
  BY StagedProperties
<1>2. /\ concurrentQueues[g] \in Seq(Update) /\ sharedPending[g] \in Seq(Update)
      /\ AllFresh(concurrentQueues[g]) /\ AllFresh(sharedPending[g])
  BY DEF TypeOK, FreshOK
<1>3. AllFresh(stagedWith(f, lane)[g])
  <2>1. CASE g = f
    BY <1>1, <1>2, <2>1, FreshLists
  <2>2. CASE g # f
    BY <1>1, <1>2, <2>2
  <2> QED BY <2>1, <2>2
<1> QED
  BY <1>1, <1>2, <1>3, FreshLists

LEMMA FreshStep ==
  ASSUME TypeOK, WorkOK, FreshOK, [Next]_vars
  PROVE  FreshOK'
<1>1. CASE Quiet
  BY <1>1 DEF Quiet, FreshOK, queues
<1>2. ASSUME \A f \in Fibers : /\ concurrentQueues'[f] = <<>>
                               /\ sharedPending'[f] = sharedPending[f] \o concurrentQueues[f]
      PROVE  FreshOK'
  <2>1. \A f \in Fibers : sharedPending[f] \in Seq(Update) /\ concurrentQueues[f] \in Seq(Update)
    BY QueueTypes
  <2> QED BY <1>2, <2>1, FreshLists DEF FreshOK
<1>3. CASE Restarted
  BY <1>2, <1>3, RestartedStep DEF Restarted
<1>4. ASSUME NEW f \in Fibers, NEW lane \in Lanes, enqueueUpdate(f, lane)
      PROVE  FreshOK'
  <2>1. updates < MaxUpdates /\ stagedWith(f, lane) \in [Fibers -> Seq(Update)]
    BY <1>4, EnqueueForms, StagedProperties
  <2>2. CASE work.phase = "waiting"
    <3>1. PICK tree \in Tree : prepareFreshStack(stagedWith(f, lane), tree, {})
      BY <1>4, <2>2, EnqueueForms
    <3>2. finishQueueingConcurrentUpdates(stagedWith(f, lane), tree, tree)
      BY <3>1 DEF prepareFreshStack
    <3>3. \A g \in Fibers : /\ concurrentQueues'[g] = <<>>
                            /\ sharedPending'[g] = sharedPending[g] \o stagedWith(f, lane)[g]
      BY <2>1, <3>2, FinishQueueing
    <3> QED BY <2>1, <3>3, StagedFresh, FreshLists DEF FreshOK
  <2>3. CASE work.phase # "waiting"
    <3>1. sharedPending' = sharedPending /\ concurrentQueues' = stagedWith(f, lane)
      BY <1>4, <2>3, EnqueueForms
    <3> QED BY <2>1, <3>1, StagedFresh DEF FreshOK
  <2> QED BY <2>2, <2>3
<1>5. ASSUME NEW f \in Fibers, updateClassInstance(f)
      PROVE  FreshOK'
  <2>1. /\ concurrentQueues' = concurrentQueues /\ sharedPending'[f] = <<>>
        /\ \A g \in Fibers \ {f} : sharedPending'[g] = sharedPending[g]
    BY <1>5, UpdateStep
  <2> QED BY <2>1, FreshLists DEF FreshOK
<1>6. CASE suspendRender \/ suspendCommit \/ finishRender
  BY <1>2, <1>6, RenderDoneStep DEF suspendRender, suspendCommit, finishRender
<1>7. CASE pendingCommitReady
  BY <1>7, PendingCommitStep DEF FreshOK, queues
<1> QED
  BY <1>1, <1>3, <1>4, <1>5, <1>6, <1>7, StepForms
------------------------------------------------------------------------------
\* Updates come to the screen once

\* A list of updates in a queue: they are not in the base state, nor twice.
Distinct(q, list) ==
  /\ \A i, j \in 1..Len(list) : list[i].id = list[j].id => i = j
  /\ \A i \in 1..Len(list) : list[i].id \notin Range(q.baseState)

LEMMA ConcatPositions ==
  ASSUME NEW S, NEW s \in Seq(S), NEW t \in Seq(S)
  PROVE  /\ s \o t \in Seq(S) /\ Len(s \o t) \in Nat /\ Len(s) \in Nat /\ Len(t) \in Nat
         /\ \A i \in 1..Len(s) : i \in 1..Len(s \o t) /\ (s \o t)[i] = s[i]
         /\ \A i \in 1..Len(t) : Len(s) + i \in 1..Len(s \o t) /\ (s \o t)[Len(s) + i] = t[i]
         /\ \A i \in 1..Len(s \o t) :
              \/ i \in 1..Len(s)
              \/ i - Len(s) \in 1..Len(t) /\ (s \o t)[i] = t[i - Len(s)]
<1>1. /\ s \o t \in Seq(S) /\ Len(s \o t) = Len(s) + Len(t)
      /\ \A i \in 1..(Len(s) + Len(t)) :
           (s \o t)[i] = IF i <= Len(s) THEN s[i] ELSE t[i - Len(s)]
      /\ Len(s) \in Nat /\ Len(t) \in Nat
  BY ConcatProperties, LenProperties
<1>2. \A i \in 1..Len(s) : i \in 1..Len(s \o t) /\ (s \o t)[i] = s[i]
  BY <1>1
<1>3. ASSUME NEW i \in 1..Len(t)
      PROVE  Len(s) + i \in 1..Len(s \o t) /\ (s \o t)[Len(s) + i] = t[i]
  <2>1. Len(s) + i \in 1..(Len(s) + Len(t)) /\ ~(Len(s) + i <= Len(s)) /\ Len(s) + i - Len(s) = i
    BY <1>1
  <2> QED BY <1>1, <2>1
<1>4. \A i \in 1..Len(s \o t) :
        \/ i \in 1..Len(s)
        \/ i - Len(s) \in 1..Len(t) /\ (s \o t)[i] = t[i - Len(s)]
  BY <1>1
<1> QED
  BY <1>1, <1>2, <1>3, <1>4

LEMMA ThreeParts ==
  ASSUME NEW S, NEW a \in Seq(S), NEW b \in Seq(S), NEW d \in Seq(S), NEW c, c = (a \o b) \o d
  PROVE  /\ Len(a) \in Nat /\ Len(b) \in Nat
         /\ \A i \in 1..Len(a) : i \in 1..Len(c) /\ c[i] = a[i]
         /\ \A i \in 1..Len(b) : Len(a) + i \in 1..Len(c) /\ c[Len(a) + i] = b[i]
<1>1. PICK e : e = a \o b
  OBVIOUS
<1>2. /\ e \in Seq(S) /\ Len(a) \in Nat /\ Len(b) \in Nat
      /\ \A i \in 1..Len(a) : i \in 1..Len(e) /\ e[i] = a[i]
      /\ \A i \in 1..Len(b) : Len(a) + i \in 1..Len(e) /\ e[Len(a) + i] = b[i]
  BY <1>1, ConcatPositions
<1>3. \A i \in 1..Len(e) : i \in 1..Len(c) /\ c[i] = e[i]
  <2>1. c = e \o d
    BY <1>1
  <2> QED BY <1>2, <2>1, ConcatPositions
<1> QED
  BY <1>2, <1>3

LEMMA ContentParts ==
  ASSUME NEW q \in UpdateQueue, NEW pending \in Seq(Update), NEW staged \in Seq(Update)
  PROVE  /\ q.baseUpdates \o pending \in Seq(Update)
         /\ contentOf(q, pending, staged)
              = (q.baseState \o ids(q.baseUpdates \o pending)) \o ids(staged)
<1>1. q.baseState \in Seq(Ids) /\ q.baseUpdates \in Seq(Update)
  BY DEF UpdateQueue
<1>2. /\ q.baseUpdates \o pending \in Seq(Update)
      /\ ids(q.baseUpdates \o pending) = ids(q.baseUpdates) \o ids(pending)
  BY <1>1, ConcatProperties, IdsConcat
<1>3. ids(q.baseUpdates) \in Seq(Ids) /\ ids(pending) \in Seq(Ids)
  BY <1>1, IdsProperties
<1>4. PICK state, a, b : state = q.baseState /\ a = ids(q.baseUpdates) /\ b = ids(pending)
  OBVIOUS
<1>5. (state \o a) \o b = state \o (a \o b)
  <2>1. state \in Seq(Ids) /\ a \in Seq(Ids) /\ b \in Seq(Ids)
    BY <1>1, <1>3, <1>4
  <2> QED BY <2>1, ConcatAssociative
<1> QED
  BY <1>2, <1>4, <1>5 DEF contentOf

\* The updates of a component are those of its history, each at its place.
Made(f, x) == \E k \in 1..Len(log[f]) : log[f][k] = x

LEMMA ContentDistinct ==
  ASSUME TypeOK, NothingLost, LogOK, NEW f \in Fibers,
         NEW q \in {current.queue[f], workInProgress.queue[f]},
         NEW list, list = q.baseUpdates \o sharedPending[f]
  PROVE  /\ Distinct(q, list)
         /\ \A x \in Range(q.baseState) : Made(f, x)
         /\ \A i \in 1..Len(list) : Made(f, list[i].id)
<1>1. /\ q \in UpdateQueue /\ sharedPending[f] \in Seq(Update) /\ concurrentQueues[f] \in Seq(Update)
      /\ q.baseState \in Seq(Ids)
  BY TreeFields DEF TypeOK
<1>2. contentOf(q, sharedPending[f], concurrentQueues[f]) = log[f]
  BY Contents
<1>3. list \in Seq(Update) /\ log[f] = (q.baseState \o ids(list)) \o ids(concurrentQueues[f])
  <2>1. /\ q.baseUpdates \o sharedPending[f] \in Seq(Update)
        /\ contentOf(q, sharedPending[f], concurrentQueues[f])
             = (q.baseState \o ids(q.baseUpdates \o sharedPending[f])) \o ids(concurrentQueues[f])
    BY <1>1, ContentParts
  <2> QED BY <1>2, <2>1
<1>4. /\ ids(list) \in Seq(Ids) /\ ids(concurrentQueues[f]) \in Seq(Ids) /\ Len(ids(list)) = Len(list)
      /\ \A i \in 1..Len(list) : ids(list)[i] = list[i].id
  BY <1>1, <1>3, IdsProperties
<1>5. PICK a, b, c, d : a = q.baseState /\ b = ids(list) /\ c = log[f] /\ d = ids(concurrentQueues[f])
  OBVIOUS
<1>6. a \in Seq(Ids) /\ b \in Seq(Ids) /\ d \in Seq(Ids) /\ c = (a \o b) \o d
  BY <1>1, <1>3, <1>4, <1>5
<1>7. /\ Len(a) \in Nat /\ Len(b) \in Nat
      /\ \A i \in 1..Len(a) : i \in 1..Len(c) /\ c[i] = a[i]
      /\ \A i \in 1..Len(b) : Len(a) + i \in 1..Len(c) /\ c[Len(a) + i] = b[i]
  BY <1>6, ThreeParts
<1>8. Len(b) = Len(list) /\ \A i \in 1..Len(list) : b[i] = list[i].id
  BY <1>4, <1>5
<1>9. \A i, j \in 1..Len(c) : c[i] = c[j] => i = j
  BY <1>5 DEF LogOK
<1>10. Range(q.baseState) = {a[i] : i \in 1..Len(a)}
  <2>1. DOMAIN a = 1..Len(a)
    BY <1>6, LenProperties
  <2> QED BY <1>5, <2>1 DEF Range
<1>11. ASSUME NEW i \in 1..Len(list), NEW j \in 1..Len(list), list[i].id = list[j].id
       PROVE  i = j
  <2>1. Len(a) + i \in 1..Len(c) /\ Len(a) + j \in 1..Len(c) /\ c[Len(a) + i] = c[Len(a) + j]
    BY <1>7, <1>8, <1>11
  <2>2. Len(a) + i = Len(a) + j
    BY <1>9, <2>1
  <2> QED BY <1>7, <2>2
<1>12. ASSUME NEW i \in 1..Len(list), NEW j \in 1..Len(a), list[i].id = a[j]
       PROVE  FALSE
  <2>1. Len(a) + i \in 1..Len(c) /\ j \in 1..Len(c) /\ c[Len(a) + i] = c[j]
    BY <1>7, <1>8, <1>12
  <2>2. Len(a) + i = j
    BY <1>9, <2>1
  <2> QED BY <1>7, <2>2
<1>13. Distinct(q, list)
  BY <1>10, <1>11, <1>12 DEF Distinct
<1>14. \A x \in Range(q.baseState) : Made(f, x)
  BY <1>5, <1>7, <1>10 DEF Made
<1>15. ASSUME NEW i \in 1..Len(list)
       PROVE  Made(f, list[i].id)
  <2>1. Len(a) + i \in 1..Len(c) /\ c[Len(a) + i] = list[i].id
    BY <1>7, <1>8
  <2> QED BY <1>5, <2>1 DEF Made
<1> QED
  BY <1>13, <1>14, <1>15

\* What holds of the updates in a queue and the pending ones together.
Ordered(q, list) ==
  /\ list \in Seq(Update) /\ Distinct(q, list)
  /\ Range(q.baseState) \subseteq q.state
  /\ \A i \in q.state : i \in Range(q.baseState) \/ \E j \in 1..Len(list) : list[j].id = i
  /\ \A j \in 1..Len(list) :
       /\ list[j].id \in q.state <=> list[j].lane = NoLane
       /\ list[j].callback <=> list[j].lane # NoLane

LEMMA PendingOrdered ==
  ASSUME NEW q \in UpdateQueue, QueueOK(q), NEW pending \in Seq(Update), AllFresh(pending),
         NEW list, list = q.baseUpdates \o pending, Distinct(q, list)
  PROVE  Ordered(q, list)
<1>1. PICK s : s = q.baseUpdates
  OBVIOUS
<1>2. s \in Seq(Update) /\ list = s \o pending
  BY <1>1 DEF UpdateQueue
<1>3. /\ list \in Seq(Update) /\ Len(list) \in Nat /\ Len(s) \in Nat /\ Len(pending) \in Nat
      /\ \A i \in 1..Len(s) : i \in 1..Len(list) /\ list[i] = s[i]
      /\ \A i \in 1..Len(list) :
           \/ i \in 1..Len(s)
           \/ i - Len(s) \in 1..Len(pending) /\ list[i] = pending[i - Len(s)]
  BY <1>2, ConcatPositions
<1>4. /\ Range(q.baseState) \subseteq q.state
      /\ \A i \in q.state : i \in Range(q.baseState) \/ \E j \in 1..Len(s) : s[j].id = i
      /\ \A j \in 1..Len(s) : /\ s[j].id \in q.state <=> s[j].lane = NoLane
                              /\ s[j].callback <=> s[j].lane # NoLane
  BY <1>1 DEF QueueOK
<1>5. \A i \in q.state : i \in Range(q.baseState) \/ \E j \in 1..Len(list) : list[j].id = i
  <2>1. \A j \in 1..Len(s) : j \in 1..Len(list) /\ list[j].id = s[j].id
    BY <1>3
  <2>2. ASSUME NEW i \in q.state, i \notin Range(q.baseState)
        PROVE  \E j \in 1..Len(list) : list[j].id = i
    <3>1. PICK j \in 1..Len(s) : s[j].id = i
      BY <1>4, <2>2
    <3> QED BY <2>1, <3>1
  <2> QED BY <2>2
<1>6. ASSUME NEW j \in 1..Len(list)
      PROVE  /\ list[j].id \in q.state <=> list[j].lane = NoLane
             /\ list[j].callback <=> list[j].lane # NoLane
  <2>1. CASE j \in 1..Len(s)
    <3>1. list[j] = s[j]
      BY <1>3, <2>1
    <3> QED BY <1>4, <2>1, <3>1
  <2>2. CASE ~(j \in 1..Len(s))
    <3>1. j - Len(s) \in 1..Len(pending) /\ list[j] = pending[j - Len(s)]
      BY <1>3, <2>2
    <3>2. list[j].lane # NoLane /\ list[j].callback
      BY <3>1 DEF AllFresh, Fresh
    <3>3. list[j].id \notin Range(q.baseState)
      BY DEF Distinct
    <3>4. ASSUME NEW k \in 1..Len(s), s[k].id = list[j].id
          PROVE  FALSE
      <4>1. k \in 1..Len(list) /\ list[k].id = list[j].id
        BY <1>3, <3>4
      <4>2. k = j
        BY <4>1 DEF Distinct
      <4> QED BY <2>2, <4>2
    <3>5. list[j].id \notin q.state
      BY <1>4, <3>3, <3>4
    <3> QED BY <3>2, <3>5
  <2> QED BY <2>1, <2>2
<1> QED
  BY <1>3, <1>4, <1>5, <1>6 DEF Ordered

\* Processing applies what has lost its lane and what is rendered, to a queue
\* whose state is again what the base state has and the updates without lane.
Processed(p, q) ==
  /\ QueueOK(p)
  /\ p.state = q.state \cup p.callbacks
  /\ q.state \cap p.callbacks = {}

LEMMA ProcessOrdered ==
  ASSUME NEW q \in UpdateQueue, NEW pending \in Seq(Update), NEW lanes,
         NEW list, list = q.baseUpdates \o pending, Ordered(q, list),
         NEW p, p = process(q, pending, lanes)
  PROVE  Processed(p, q)
<1> DEFINE applied == {j \in 1..Len(list) : ~skips(lanes, list[j])}
<1>1. /\ Rebased(p, q, list, lanes) /\ p \in UpdateQueue
      /\ p.state = Range(q.baseState) \cup {list[i].id : i \in applied}
      /\ p.callbacks = {list[i].id : i \in {j \in 1..Len(list) :
                                              ~skips(lanes, list[j]) /\ list[j].callback}}
  <2>1. p \in UpdateQueue
    BY ProcessProperties
  <2>2. Rebased(p, q, list, lanes)
    BY ProcessProperties
  <2>3. Applied(p, q, list, lanes)
    BY ProcessProperties
  <2> QED BY <2>1, <2>2, <2>3 DEF Applied
<1>2. /\ list \in Seq(Update) /\ Distinct(q, list)
      /\ Range(q.baseState) \subseteq q.state
      /\ \A i \in q.state : i \in Range(q.baseState) \/ \E j \in 1..Len(list) : list[j].id = i
      /\ \A j \in 1..Len(list) : list[j].id \in q.state <=> list[j].lane = NoLane
      /\ \A j \in 1..Len(list) : list[j].callback <=> list[j].lane # NoLane
  BY DEF Ordered
<1>3. Len(list) \in Nat /\ \A j \in 1..Len(list) : list[j] \in Update
  BY <1>2, LenProperties, ElementOfSeq
<1>4. \A j \in 1..Len(list) : list[j].lane = NoLane => ~skips(lanes, list[j])
  BY DEF skips
<1>5. p.state = q.state \cup p.callbacks
  <2>1. ASSUME NEW x \in p.state
        PROVE  x \in q.state \cup p.callbacks
    <3>1. CASE x \in Range(q.baseState)
      BY <1>2, <3>1
    <3>2. CASE x \in {list[i].id : i \in applied}
      <4>1. PICK i \in 1..Len(list) : ~skips(lanes, list[i]) /\ x = list[i].id
        BY <3>2
      <4>2. CASE list[i].lane = NoLane
        BY <1>2, <4>1, <4>2
      <4>3. CASE list[i].lane # NoLane
        <5>1. list[i].callback
          BY <1>2, <4>3, Zenon
        <5>2. i \in {j \in 1..Len(list) : ~skips(lanes, list[j]) /\ list[j].callback}
          BY <4>1, <5>1, Zenon
        <5> QED BY <1>1, <4>1, <5>2, Zenon
      <4> QED BY <4>2, <4>3
    <3> QED BY <1>1, <3>1, <3>2
  <2>2. ASSUME NEW x \in q.state
        PROVE  x \in p.state
    <3>1. CASE x \in Range(q.baseState)
      BY <1>1, <3>1
    <3>2. CASE \E j \in 1..Len(list) : list[j].id = x
      <4>1. PICK j \in 1..Len(list) : list[j].id = x
        BY <3>2
      <4>2. ~skips(lanes, list[j])
        BY <1>2, <1>4, <2>2, <4>1
      <4> QED BY <1>1, <4>1, <4>2
    <3> QED BY <1>2, <3>1, <3>2
  <2>3. p.callbacks \subseteq p.state
    BY <1>1
  <2> QED BY <2>1, <2>2, <2>3
<1>6. ASSUME NEW x \in p.callbacks
      PROVE  x \notin q.state
  <2>1. PICK i \in 1..Len(list) : list[i].callback /\ x = list[i].id
    BY <1>1, <1>6
  <2> QED BY <1>2, <2>1
<1>7. PICK base \in 0..Len(list), front \in Seq(Update) :
        /\ \A i \in 1..base : ~skips(lanes, list[i])
        /\ p.baseState = q.baseState \o ids(front)
        /\ Len(front) = base /\ \A i \in 1..base : front[i] = list[i]
        /\ Len(p.baseUpdates) = Len(list) - base
        /\ \A i \in 1..(Len(list) - base) : p.baseUpdates[i] = rebased(lanes, list[base + i])
  BY <1>1, Zenon DEF Rebased
<1>8. Range(p.baseState) = Range(q.baseState) \cup {list[i].id : i \in 1..base}
  <2>1. PICK s, t, u : s = q.baseState /\ t = ids(front) /\ u = p.baseState
    OBVIOUS
  <2>2. /\ s \in Seq(Ids) /\ t \in Seq(Ids) /\ Len(t) = base
        /\ \A i \in 1..base : t[i] = list[i].id
    BY <1>7, <2>1, IdsProperties DEF UpdateQueue
  <2>3. u = s \o t
    BY <1>7, <2>1
  <2>4. /\ u \in Seq(Ids) /\ Len(s) \in Nat
        /\ \A i \in 1..Len(s) : i \in 1..Len(u) /\ u[i] = s[i]
        /\ \A i \in 1..Len(t) : Len(s) + i \in 1..Len(u) /\ u[Len(s) + i] = t[i]
        /\ \A i \in 1..Len(u) :
             \/ i \in 1..Len(s)
             \/ i - Len(s) \in 1..Len(t) /\ u[i] = t[i - Len(s)]
    BY <2>2, <2>3, ConcatPositions
  <2>5. Range(p.baseState) = {u[i] : i \in 1..Len(u)} /\ Range(q.baseState) = {s[i] : i \in 1..Len(s)}
    <3>1. DOMAIN u = 1..Len(u) /\ DOMAIN s = 1..Len(s)
      BY <2>2, <2>4, LenProperties
    <3> QED BY <2>1, <3>1 DEF Range
  <2>6. ASSUME NEW i \in 1..Len(u)
        PROVE  u[i] \in {s[k] : k \in 1..Len(s)} \cup {list[k].id : k \in 1..base}
    BY <2>2, <2>4
  <2>7. ASSUME NEW i \in 1..Len(s)
        PROVE  s[i] \in {u[k] : k \in 1..Len(u)}
    BY <2>4
  <2>8. ASSUME NEW i \in 1..base
        PROVE  list[i].id \in {u[k] : k \in 1..Len(u)}
    <3>1. Len(s) + i \in 1..Len(u) /\ u[Len(s) + i] = list[i].id
      BY <2>2, <2>4
    <3> QED BY <3>1
  <2> DEFINE before == {s[i] : i \in 1..Len(s)}
             moved == {list[i].id : i \in 1..base}
             after == {u[i] : i \in 1..Len(u)}
  <2>9. after \subseteq before \cup moved
    BY <2>6
  <2>10. before \subseteq after
    BY <2>7
  <2>11. moved \subseteq after
    BY <2>8
  <2>12. Range(p.baseState) = after /\ Range(q.baseState) = before
    BY <2>5
  <2> HIDE DEF before, moved, after
  <2>13. after = before \cup moved
    BY <2>9, <2>10, <2>11
  <2> QED BY <2>12, <2>13 DEF moved
<1>9. ASSUME NEW j \in 1..(Len(list) - base)
      PROVE  /\ base + j \in 1..Len(list) /\ p.baseUpdates[j] = rebased(lanes, list[base + j])
             /\ p.baseUpdates[j].id = list[base + j].id
             /\ p.baseUpdates[j].lane = NoLane <=> ~skips(lanes, list[base + j])
             /\ p.baseUpdates[j].callback <=> p.baseUpdates[j].lane # NoLane
  <2>1. base + j \in 1..Len(list) /\ p.baseUpdates[j] = rebased(lanes, list[base + j])
    <3>1. base + j \in 1..Len(list)
      BY <1>3
    <3>2. p.baseUpdates[j] = rebased(lanes, list[base + j])
      BY <1>7, Zenon
    <3> QED BY <3>1, <3>2
  <2>2. PICK u : u = list[base + j]
    OBVIOUS
  <2>3. /\ rebased(lanes, u).id = u.id
        /\ skips(lanes, u) => rebased(lanes, u) = u
        /\ ~skips(lanes, u) => /\ rebased(lanes, u).lane = NoLane
                               /\ rebased(lanes, u).callback = FALSE
    BY <1>3, <2>1, <2>2, RebasedProperties
  <2>4. skips(lanes, u) => u.lane # NoLane
    BY <1>4, <2>1, <2>2
  <2>5. u.callback <=> u.lane # NoLane
    BY <1>2, <2>1, <2>2
  <2> QED BY <2>1, <2>2, <2>3, <2>4, <2>5
<1>10. Range(p.baseState) \subseteq p.state
  <2>1. \A i \in 1..base : i \in applied
    BY <1>3, <1>7
  <2> QED BY <1>1, <1>8, <2>1
<1>11. ASSUME NEW x \in p.state
       PROVE  x \in Range(p.baseState) \/ \E j \in 1..Len(p.baseUpdates) : p.baseUpdates[j].id = x
  <2>1. CASE x \in Range(q.baseState)
    BY <1>8, <2>1
  <2>2. CASE x \in {list[i].id : i \in applied}
    <3>1. PICK i \in 1..Len(list) : x = list[i].id
      BY <2>2
    <3>2. CASE i <= base
      <4>1. i \in 1..base
        BY <1>7, <3>2
      <4> QED BY <1>8, <3>1, <4>1
    <3>3. CASE ~(i <= base)
      <4>1. i - base \in 1..(Len(list) - base) /\ base + (i - base) = i
        BY <1>3, <1>7, <3>3
      <4>2. p.baseUpdates[i - base].id = list[base + (i - base)].id
        BY <1>9, <4>1
      <4> QED BY <1>7, <3>1, <4>1, <4>2
    <3> QED BY <3>2, <3>3
  <2> QED BY <1>1, <2>1, <2>2
<1>12. ASSUME NEW j \in 1..(Len(list) - base)
       PROVE  p.baseUpdates[j].id \in p.state <=> p.baseUpdates[j].lane = NoLane
  <2>1. base + j \in 1..Len(list) /\ p.baseUpdates[j].id = list[base + j].id
        /\ (p.baseUpdates[j].lane = NoLane <=> ~skips(lanes, list[base + j]))
    BY <1>9
  <2>2. list[base + j].id \in p.state <=> base + j \in applied
    <3>1. list[base + j].id \notin Range(q.baseState)
      BY <1>2, <2>1 DEF Distinct
    <3>2. \A i \in applied : list[i].id = list[base + j].id => i = base + j
      BY <1>2, <2>1 DEF Distinct
    <3> QED BY <1>1, <3>1, <3>2
  <2> QED BY <2>1, <2>2
<1>13. QueueOK(p)
  BY <1>7, <1>9, <1>10, <1>11, <1>12 DEF QueueOK
<1> QED
  BY <1>5, <1>6, <1>13 DEF Processed

\* A queue that another tree takes over.
LEMMA SameQueue ==
  ASSUME NEW q, NEW p, p.baseState = q.baseState, p.baseUpdates = q.baseUpdates, p.state = q.state
  PROVE  QueueOK(p) <=> QueueOK(q)
  BY DEF QueueOK

LEMMA SucceedsItself ==
  ASSUME NEW next, NEW shown, Succeeds(next, shown)
  PROVE  Succeeds(shown, shown)
  BY DEF Succeeds

\* What is committed succeeds itself.
LEMMA CommittedSucceeds ==
  ASSUME NEW next, NEW shown, Succeeds(next, shown),
         NEW p, p.baseState = next.baseState, p.baseUpdates = next.baseUpdates,
         p.state = next.state, p.callbacks = {}
  PROVE  Succeeds(p, p)
<1>1. QueueOK(p)
  BY SameQueue DEF Succeeds
<1> QED
  BY <1>1 DEF Succeeds

LEMMA UpdateSucceeds ==
  ASSUME TypeOK, NothingLost, LogOK, FreshOK, QueuesOK, NEW f \in Fibers, updateClassInstance(f)
  PROVE  Succeeds(workInProgress'.queue[f], current'.queue[f])
<1>1. work.next = f /\ work.phase = "rendering" /\ f \in Int
  BY DEF updateClassInstance, TypeOK, Fibers
<1>2. workInProgress.queue[f] = current.queue[f]
  BY <1>1 DEF QueuesOK
<1>3. PICK q, pending, list, lanes, p, t :
        /\ q = current.queue[f] /\ pending = sharedPending[f] /\ lanes = work.lanes
        /\ list = q.baseUpdates \o pending /\ p = process(q, pending, lanes)
        /\ t = current'.queue[f]
  OBVIOUS
<1>4. q \in UpdateQueue /\ pending \in Seq(Update) /\ AllFresh(pending) /\ QueueOK(q)
  BY <1>3, TreeFields DEF TypeOK, FreshOK, QueuesOK, Succeeds
<1>5. Distinct(q, list)
  BY <1>3, ContentDistinct
<1>6. Ordered(q, list)
  BY <1>3, <1>4, <1>5, PendingOrdered
<1>7. QueueOK(p) /\ p.state = q.state \cup p.callbacks /\ q.state \cap p.callbacks = {}
  <2>1. list = q.baseUpdates \o pending /\ p = process(q, pending, lanes)
    BY <1>3
  <2>2. Processed(p, q)
    BY <1>4, <1>6, <2>1, ProcessOrdered
  <2> QED BY <2>2 DEF Processed
<1>8. /\ workInProgress'.queue[f] = p
      /\ t.baseState = q.baseState /\ t.baseUpdates = list
      /\ t.state = q.state /\ t.callbacks = q.callbacks
  <2>1. /\ workInProgress'.queue[f] =
             process(workInProgress.queue[f], sharedPending[f], work.lanes)
        /\ current'.queue[f].baseState = current.queue[f].baseState
        /\ current'.queue[f].baseUpdates = current.queue[f].baseUpdates \o sharedPending[f]
        /\ current'.queue[f].state = current.queue[f].state
        /\ current'.queue[f].callbacks = current.queue[f].callbacks
    BY UpdateStep
  <2>2. workInProgress'.queue[f] = p
    BY <1>2, <1>3, <2>1, Zenon
  <2>3. t.baseState = q.baseState /\ t.baseUpdates = list
    BY <1>3, <2>1, Zenon
  <2>4. t.state = q.state /\ t.callbacks = q.callbacks
    BY <1>3, <2>1, Zenon
  <2> QED BY <2>2, <2>3, <2>4
<1>9. q.callbacks = {}
  BY <1>3 DEF QueuesOK, Succeeds
<1>10. QueueOK(t)
  BY <1>6, <1>8 DEF Ordered, QueueOK
<1>11. Succeeds(p, t)
  <2>1. /\ t.callbacks = {} /\ t.state = q.state
    BY <1>8, <1>9
  <2> QED BY <1>7, <1>10, <2>1 DEF Succeeds
<1>12. current'.queue[f] = t /\ workInProgress'.queue[f] = p
  BY <1>3, <1>8
<1> QED
  BY <1>11, <1>12, Zenon

LEMMA QueuesStep ==
  ASSUME TypeOK, WorkOK, NothingLost, LogOK, FreshOK, QueuesOK, [Next]_vars
  PROVE  QueuesOK'
<1>1. work.next \in Int /\ \A f \in Fibers : f \in Int
  BY BoundsAssumption DEF TypeOK, Work, Fibers
<1>2. ASSUME UNCHANGED <<current.queue, workInProgress.queue>>, work'.phase # "rendering"
      PROVE  QueuesOK'
  BY <1>2 DEF QueuesOK
<1>3. ASSUME current'.queue = current.queue, workInProgress'.queue = current.queue
      PROVE  QueuesOK'
  BY <1>3, SucceedsItself DEF QueuesOK
<1>4. ASSUME workInProgress' = current',
             \A f \in Fibers : /\ current'.queue[f].baseState = workInProgress.queue[f].baseState
                               /\ current'.queue[f].baseUpdates = workInProgress.queue[f].baseUpdates
                               /\ current'.queue[f].state = workInProgress.queue[f].state
                               /\ current'.queue[f].callbacks = {}
      PROVE  QueuesOK'
  <2>1. ASSUME NEW f \in Fibers
        PROVE  Succeeds(current'.queue[f], current'.queue[f])
    BY <1>4, CommittedSucceeds DEF QueuesOK
  <2> QED BY <1>4, <2>1 DEF QueuesOK
<1>5. CASE Quiet
  <2>1. /\ current' = current /\ workInProgress' = workInProgress
        /\ work'.phase = work.phase /\ work'.next >= work.next
    BY <1>5 DEF Quiet, trees
  <2>2. work'.next \in Int
    BY RenderTypeStep, BoundsAssumption DEF RenderType, Work
  <2>3. \A f \in Fibers : work'.next <= f => work.next <= f
    BY <1>1, <2>1, <2>2
  <2> QED BY <2>1, <2>3 DEF QueuesOK
<1>6. CASE Restarted
  BY <1>3, <1>6, RestartedStep DEF Restarted
<1>7. ASSUME NEW f \in Fibers, NEW lane \in Lanes, enqueueUpdate(f, lane)
      PROVE  QueuesOK'
  <2>1. CASE work.phase = "waiting"
    <3>1. PICK tree \in Tree : /\ tree.queue = current.queue
                               /\ prepareFreshStack(stagedWith(f, lane), tree, {})
      BY <1>7, <2>1, EnqueueForms
    <3>2. finishQueueingConcurrentUpdates(stagedWith(f, lane), tree, tree)
      BY <3>1 DEF prepareFreshStack
    <3>3. stagedWith(f, lane) \in [Fibers -> Seq(Update)]
      BY <1>7, EnqueueForms, StagedProperties
    <3> QED BY <1>3, <3>1, <3>2, <3>3, FinishQueueing
  <2>2. CASE work.phase # "waiting"
    BY <1>7, <2>2, EnqueueForms DEF QueuesOK
  <2> QED BY <2>1, <2>2
<1>8. ASSUME NEW f \in Fibers, updateClassInstance(f)
      PROVE  QueuesOK'
  <2>1. Succeeds(workInProgress'.queue[f], current'.queue[f])
    BY <1>8, UpdateSucceeds
  <2>2. \A g \in Fibers \ {f} : /\ workInProgress'.queue[g] = workInProgress.queue[g]
                                /\ current'.queue[g] = current.queue[g]
    BY <1>8, UpdateStep
  <2>3. work.next = f /\ work'.next = f + 1 /\ work.phase = "rendering"
    BY <1>8, UpdateWork DEF updateClassInstance, TypeOK
  <2>4. ASSUME NEW g \in Fibers, work'.next <= g
        PROVE  g # f /\ work.next <= g
    BY <1>1, <2>3, <2>4
  <2>5. ASSUME NEW g \in Fibers
        PROVE  /\ Succeeds(workInProgress'.queue[g], current'.queue[g])
               /\ work'.next <= g => workInProgress'.queue[g] = current'.queue[g]
    BY <2>1, <2>2, <2>3, <2>4 DEF QueuesOK
  <2> QED BY <2>5 DEF QueuesOK
<1>9. CASE suspendRender
  <2>1. current'.queue = current.queue /\ workInProgress' = current'
    BY <1>9, MarkedCurrent DEF suspendRender
  <2> QED BY <1>3, <2>1
<1>10. CASE suspendCommit
  <2>1. current'.queue = current.queue /\ workInProgress'.queue = workInProgress.queue
    BY <1>10, MarkedCurrent, FinishedTreeProperties DEF suspendCommit
  <2>2. work'.phase # "rendering"
    BY <1>10, NewWorkType DEF suspendCommit
  <2> QED BY <1>2, <2>1, <2>2
<1>11. CASE finishRender
  <2>1. /\ workInProgress' = current' /\ finishedTree.queue = workInProgress.queue
        /\ \A f \in Fibers : /\ current'.queue[f].baseState = finishedTree.queue[f].baseState
                             /\ current'.queue[f].baseUpdates = finishedTree.queue[f].baseUpdates
                             /\ current'.queue[f].state = finishedTree.queue[f].state
                             /\ current'.queue[f].callbacks = {}
    BY <1>11, FinishRenderStep, CommitStep, FinishedTreeProperties
  <2> QED BY <1>4, <2>1
<1>12. CASE pendingCommitReady
  BY <1>4, <1>12, PendingCommitStep, CommitStep
<1> QED
  BY <1>5, <1>6, <1>7, <1>8, <1>9, <1>10, <1>11, <1>12, StepForms

\* What a component shows was made to it.
LEMMA StateInLog ==
  ASSUME TypeOK, NothingLost, LogOK, QueuesOK, FreshOK, NEW f \in Fibers,
         NEW q \in {current.queue[f], workInProgress.queue[f]}, NEW x \in q.state
  PROVE  Made(f, x)
<1>1. PICK list : list = q.baseUpdates \o sharedPending[f]
  OBVIOUS
<1>2. /\ \A y \in Range(q.baseState) : Made(f, y)
      /\ \A i \in 1..Len(list) : Made(f, list[i].id)
      /\ Distinct(q, list)
  BY <1>1, ContentDistinct
<1>3. Ordered(q, list)
  <2>1. q \in UpdateQueue /\ sharedPending[f] \in Seq(Update) /\ AllFresh(sharedPending[f])
        /\ QueueOK(q)
    BY TreeFields DEF TypeOK, FreshOK, QueuesOK, Succeeds
  <2> QED BY <1>1, <1>2, <2>1, PendingOrdered
<1> QED
  BY <1>2, <1>3 DEF Ordered

\* Callbacks are called for what is new on the screen.
LEMMA CommitCalls ==
  ASSUME TypeOK, NothingLost, LogOK, FreshOK, QueuesOK, CallbackWhenShown,
         \A f \in Fibers : current'.queue[f].state = workInProgress.queue[f].state,
         \A i \in Ids : called'[i] = IF \E f \in Fibers : i \in workInProgress.queue[f].callbacks
                                       THEN called[i] + 1 ELSE called[i]
  PROVE  CallbackWhenShown'
<1>1. \A f \in Fibers : /\ workInProgress.queue[f].state =
                             current.queue[f].state \cup workInProgress.queue[f].callbacks
                        /\ current.queue[f].state \cap workInProgress.queue[f].callbacks = {}
  BY DEF QueuesOK, Succeeds
<1>2. ASSUME NEW i \in Ids
      PROVE  called'[i] = IF \E f \in Fibers : i \in current'.queue[f].state THEN 1 ELSE 0
  <2>1. CASE \E f \in Fibers : i \in workInProgress.queue[f].callbacks
    <3>1. PICK f \in Fibers : i \in workInProgress.queue[f].callbacks
      BY <2>1
    <3>2. i \in workInProgress.queue[f].state /\ i \notin current.queue[f].state
      BY <1>1, <3>1
    <3>3. ASSUME NEW g \in Fibers, i \in current.queue[g].state
          PROVE  FALSE
      <4>1. PICK k \in 1..Len(log[f]) : log[f][k] = i
        BY <3>2, StateInLog DEF Made
      <4>2. PICK m \in 1..Len(log[g]) : log[g][m] = i
        BY <3>3, StateInLog DEF Made
      <4>3. f = g
        BY <4>1, <4>2 DEF LogOK
      <4> QED BY <3>2, <3>3, <4>3
    <3>4. called[i] = 0
      BY <3>3 DEF CallbackWhenShown
    <3> QED BY <2>1, <3>1, <3>2, <3>4
  <2>2. CASE ~(\E f \in Fibers : i \in workInProgress.queue[f].callbacks)
    <3>1. \A f \in Fibers : i \in current'.queue[f].state <=> i \in current.queue[f].state
      BY <1>1, <2>2
    <3> QED BY <2>2, <3>1 DEF CallbackWhenShown
  <2> QED BY <2>1, <2>2
<1> QED
  BY <1>2 DEF CallbackWhenShown

LEMMA CallbackStep ==
  ASSUME TypeOK, WorkOK, NothingLost, LogOK, FreshOK, QueuesOK, CallbackWhenShown, [Next]_vars
  PROVE  CallbackWhenShown'
<1>1. ASSUME called' = called,
             \A f \in Fibers : current'.queue[f].state = current.queue[f].state
      PROVE  CallbackWhenShown'
  BY <1>1 DEF CallbackWhenShown
<1>2. CASE Quiet
  BY <1>1, <1>2 DEF Quiet, Kept, history, trees
<1>3. CASE Restarted
  BY <1>1, <1>3, RestartedStep DEF Restarted, Kept, history
<1>4. ASSUME NEW f \in Fibers, NEW lane \in Lanes, enqueueUpdate(f, lane)
      PROVE  CallbackWhenShown'
  <2>1. current'.queue = current.queue
    <3>1. CASE work.phase = "waiting"
      <4>1. PICK tree \in Tree : /\ tree.queue = current.queue
                                 /\ prepareFreshStack(stagedWith(f, lane), tree, {})
        BY <1>4, <3>1, EnqueueForms
      <4>2. finishQueueingConcurrentUpdates(stagedWith(f, lane), tree, tree)
        BY <4>1 DEF prepareFreshStack
      <4>3. stagedWith(f, lane) \in [Fibers -> Seq(Update)]
        BY <1>4, EnqueueForms, StagedProperties
      <4> QED BY <4>1, <4>2, <4>3, FinishQueueing
    <3>2. CASE work.phase # "waiting"
      BY <1>4, <3>2, EnqueueForms
    <3> QED BY <3>1, <3>2
  <2> QED BY <1>1, <1>4, <2>1, EnqueueForms
<1>5. ASSUME NEW f \in Fibers, updateClassInstance(f)
      PROVE  CallbackWhenShown'
  <2>1. called' = called
    BY <1>5, UpdateStep DEF Kept, history
  <2>2. \A g \in Fibers : current'.queue[g].state = current.queue[g].state
    BY <1>5, UpdateStep
  <2> QED BY <1>1, <2>1, <2>2
<1>6. CASE suspendRender \/ suspendCommit
  <2>1. current'.queue = current.queue /\ called' = called
    BY <1>6, MarkedCurrent DEF suspendRender, suspendCommit, history
  <2> QED BY <1>1, <2>1
<1>7. CASE finishRender
  <2>1. /\ finishedTree.queue = workInProgress.queue
        /\ \A f \in Fibers : current'.queue[f].state = finishedTree.queue[f].state
        /\ \A i \in Ids : called'[i] = IF \E f \in Fibers : i \in finishedTree.queue[f].callbacks
                                         THEN called[i] + 1 ELSE called[i]
    BY <1>7, FinishRenderStep, CommitStep, FinishedTreeProperties
  <2> QED BY <2>1, CommitCalls
<1>8. CASE pendingCommitReady
  BY <1>8, PendingCommitStep, CommitStep, CommitCalls
<1> QED
  BY <1>2, <1>3, <1>4, <1>5, <1>6, <1>7, <1>8, StepForms
------------------------------------------------------------------------------
\* What is rendered is rendered together

\* A component's updates that stay in its queue are not of the lanes rendered.
LEMMA ProcessedLanes ==
  ASSUME NEW q \in UpdateQueue, NEW pending \in Seq(Update), NEW lanes
  PROVE  lanesOf(process(q, pending, lanes).baseUpdates) \cap lanes = {}
<1> DEFINE p == process(q, pending, lanes)
           list == q.baseUpdates \o pending
<1>1. list \in Seq(Update) /\ p \in UpdateQueue /\ Rebased(p, q, list, lanes)
  BY ProcessProperties
<1> HIDE DEF p, list
<1>2. PICK base \in 0..Len(list) :
        /\ Len(p.baseUpdates) = Len(list) - base
        /\ \A i \in 1..(Len(list) - base) : p.baseUpdates[i] = rebased(lanes, list[base + i])
  BY <1>1 DEF Rebased
<1>3. p.baseUpdates \in Seq(Update) /\ Len(list) \in Nat
  BY <1>1, LenProperties DEF UpdateQueue
<1>4. ASSUME NEW i \in 1..Len(p.baseUpdates)
      PROVE  p.baseUpdates[i].lane \notin lanes \ {NoLane}
  <2>1. i \in 1..(Len(list) - base) /\ base + i \in 1..Len(list)
    BY <1>2, <1>3
  <2>2. list[base + i] \in Update
    BY <1>1, <2>1, ElementOfSeq
  <2>3. p.baseUpdates[i] = rebased(lanes, list[base + i])
    BY <1>2, <2>1
  <2>4. rebased(lanes, list[base + i]).lane \notin lanes \ {NoLane}
    BY <2>2, RebasedProperties DEF skips
  <2> QED BY <2>3, <2>4
<1>5. lanesOf(p.baseUpdates) = {p.baseUpdates[i].lane : i \in 1..Len(p.baseUpdates)} \ {NoLane}
  BY <1>3, LanesOfType
<1>6. lanesOf(p.baseUpdates) \cap lanes = {}
  BY <1>4, <1>5
<1> QED
  BY <1>6 DEF p

\* A component that is not rendered, for the marks of its updates.
LEMMA NothingToRender ==
  ASSUME NothingStranded, NEW f \in Fibers,
         \/ current.lanes[f] \cap work.lanes = {}
         \/ current.childLanes \cap work.lanes = {},
         workInProgress.queue[f] = current.queue[f]
  PROVE  (lanesOf(workInProgress.queue[f].baseUpdates) \cup lanesOf(sharedPending[f]))
           \cap work.lanes = {}
<1>1. MarkedAt(current.queue[f], sharedPending[f], concurrentQueues[f],
               current.lanes[f], current.childLanes, root.pending)
  BY Stranded
<1> QED
  BY <1>1 DEF MarkedAt

\* A render that starts has the tree on the screen.
LEMMA RestartedTogether ==
  ASSUME NEW staged, NEW tree, NEW lanes \in SUBSET Lanes,
         prepareFreshStack(staged, tree, lanes)
  PROVE  RenderedOK'
<1>1. /\ workInProgress' = current' /\ work' = newWork("rendering", lanes)
  BY DEF prepareFreshStack, finishQueueingConcurrentUpdates
<1>2. work'.phase = "rendering" /\ work'.next = 0
  BY <1>1, NewWorkType
<1>3. \A f \in Fibers : ~(f < 0)
  BY DEF Fibers
<1> QED
  BY <1>1, <1>2, <1>3 DEF RenderedOK

LEMMA GoesOnTogether ==
  ASSUME TypeOK, NothingStranded, QueuesOK, RenderedOK, Quiet, NEW f \in Fibers,
         work.phase = "rendering", f < work'.next
  PROVE  (lanesOf(workInProgress.queue[f].baseUpdates) \cup lanesOf(sharedPending[f]))
           \cap work.lanes = {}
<1>1. /\ work \in Work /\ work.next \in Int /\ FiberCount \in Nat
      /\ f \in Int /\ 1 <= f /\ f <= FiberCount
  BY BoundsAssumption DEF TypeOK, Work, Fibers
<1>2. CASE f < work.next
  BY <1>2 DEF RenderedOK
<1>3. CASE ~(f < work.next) /\ beginRoot
  <2>1. work.next = 0 /\ work'.next = (IF workInProgress.childLanes \cap work.lanes = {}
                                        THEN FiberCount + 1 ELSE 1)
    BY <1>1, <1>3 DEF beginRoot, Work
  <2>2. workInProgress.childLanes \cap work.lanes = {}
    BY <1>1, <2>1
  <2>3. current.childLanes \cap work.lanes = {}
    BY <2>1, <2>2 DEF RenderedOK
  <2>4. workInProgress.queue[f] = current.queue[f]
    BY <1>1, <2>1 DEF QueuesOK
  <2> QED BY <2>3, <2>4, NothingToRender
<1>4. ASSUME ~(f < work.next), NEW g \in Fibers, bailoutOnAlreadyFinishedWork(g)
      PROVE  (lanesOf(workInProgress.queue[f].baseUpdates) \cup lanesOf(sharedPending[f]))
               \cap work.lanes = {}
  <2>1. work.next = g /\ work'.next = work.next + 1 /\ current.lanes[g] \cap work.lanes = {}
    BY <1>1, <1>4 DEF bailoutOnAlreadyFinishedWork, Work
  <2>2. f = g
    BY <1>1, <1>4, <2>1
  <2>3. workInProgress.queue[f] = current.queue[f]
    BY <1>1, <2>1, <2>2 DEF QueuesOK
  <2> QED BY <2>1, <2>2, <2>3, NothingToRender
<1> QED
  BY <1>1, <1>2, <1>3, <1>4 DEF Quiet, GoesOn

LEMMA UpdateTogether ==
  ASSUME TypeOK, WorkOK, RenderedOK, NEW f \in Fibers, updateClassInstance(f)
  PROVE  RenderedOK'
<1>1. /\ work.next = f /\ work.phase = "rendering" /\ f \in Int /\ 1 <= f
      /\ work'.phase = "rendering" /\ work'.lanes = work.lanes /\ work'.next = f + 1
  <2>1. work.phase = "rendering" /\ work.next = f
    BY DEF updateClassInstance, TypeOK
  <2> QED BY <2>1, UpdateWork DEF Fibers
<1>2. /\ workInProgress'.queue[f] = process(workInProgress.queue[f], sharedPending[f], work.lanes)
      /\ \A g \in Fibers \ {f} : /\ workInProgress'.queue[g] = workInProgress.queue[g]
                                 /\ sharedPending'[g] = sharedPending[g]
      /\ sharedPending'[f] = <<>>
  BY UpdateStep
<1>3. workInProgress.queue[f] \in UpdateQueue /\ sharedPending[f] \in Seq(Update)
  BY TreeFields, QueueTypes DEF TypeOK
<1>4. lanesOf(workInProgress'.queue[f].baseUpdates) \cap work.lanes = {}
  BY <1>2, <1>3, ProcessedLanes
<1>5. ASSUME NEW g \in Fibers, g < f + 1
      PROVE  (lanesOf(workInProgress'.queue[g].baseUpdates) \cup lanesOf(sharedPending'[g]))
               \cap work.lanes = {}
  <2>1. CASE g = f
    BY <1>2, <1>4, <2>1, LanesOfEmpty
  <2>2. CASE g # f
    <3>1. g < work.next
      BY <1>1, <1>5, <2>2 DEF Fibers
    <3> QED BY <1>1, <1>2, <2>2, <3>1 DEF RenderedOK
  <2> QED BY <2>1, <2>2
<1>6. work'.next # 0
  BY <1>1
<1> QED
  BY <1>1, <1>5, <1>6 DEF RenderedOK

LEMMA RenderedStep ==
  ASSUME TypeOK, WorkOK, NothingStranded, QueuesOK, RenderedOK, [Next]_vars
  PROVE  RenderedOK'
<1>1. CASE Quiet
  <2>1. /\ workInProgress' = workInProgress /\ current' = current
        /\ sharedPending' = sharedPending
        /\ work'.phase = work.phase /\ work'.lanes = work.lanes /\ work'.next >= work.next
    BY <1>1 DEF Quiet, trees, queues
  <2>2. work.next \in Nat
    BY BoundsAssumption DEF TypeOK, Work
  <2>3. work'.phase = "rendering" /\ work'.next = 0 =>
          workInProgress'.childLanes = current'.childLanes
    BY <2>1, <2>2 DEF RenderedOK
  <2>4. ASSUME NEW f \in Fibers, work'.phase = "rendering", f < work'.next
        PROVE  (lanesOf(workInProgress'.queue[f].baseUpdates) \cup lanesOf(sharedPending'[f]))
                 \cap work'.lanes = {}
    BY <1>1, <2>1, <2>4, GoesOnTogether
  <2>5. \A f \in Fibers : work'.phase = "waiting" =>
          TransitionLane \notin lanesOf(workInProgress'.queue[f].baseUpdates)
    BY <2>1 DEF RenderedOK
  <2> QED BY <2>3, <2>4, <2>5 DEF RenderedOK
<1>2. CASE Restarted
  <2>1. PICK lanes \in SUBSET root.pending : prepareFreshStack(concurrentQueues, current, lanes)
    BY <1>2 DEF Restarted
  <2>2. lanes \in SUBSET Lanes
    BY <2>1 DEF TypeOK
  <2> QED BY <2>1, <2>2, RestartedTogether
<1>3. ASSUME NEW f \in Fibers, NEW lane \in Lanes, enqueueUpdate(f, lane)
      PROVE  RenderedOK'
  <2>1. CASE work.phase = "waiting"
    <3>1. PICK tree \in Tree : prepareFreshStack(stagedWith(f, lane), tree, {})
      BY <1>3, <2>1, EnqueueForms
    <3>2. {} \in SUBSET Lanes
      OBVIOUS
    <3> QED BY <3>1, <3>2, RestartedTogether
  <2>2. CASE work.phase # "waiting"
    <3>1. /\ sharedPending' = sharedPending /\ current'.childLanes = current.childLanes
          /\ workInProgress'.queue = workInProgress.queue
          /\ work'.phase = work.phase /\ work'.next = work.next /\ work'.lanes = work.lanes
      BY <1>3, <2>2, EnqueueForms
    <3>2. workInProgress'.childLanes = workInProgress.childLanes
      <4>1. workInProgress' = marked(workInProgress, f, lane) /\ workInProgress \in Tree
        BY <1>3, <2>2 DEF enqueueUpdate, marked, TypeOK
      <4> QED BY <4>1, MarkedProperties
    <3> QED BY <2>2, <3>1, <3>2 DEF RenderedOK
  <2> QED BY <2>1, <2>2
<1>4. ASSUME NEW f \in Fibers, updateClassInstance(f)
      PROVE  RenderedOK'
  BY <1>4, UpdateTogether
<1>5. ASSUME work'.phase = "none"
      PROVE  RenderedOK'
  BY <1>5 DEF RenderedOK
<1>6. CASE suspendRender
  BY <1>5, <1>6, NewWorkType DEF suspendRender
<1>7. CASE suspendCommit
  <2>1. work.phase = "rendering" /\ work.next = FiberCount + 1 /\ work.lanes = {TransitionLane}
    BY <1>7 DEF suspendCommit, renderDone, TypeOK
  <2>2. work'.phase = "waiting" /\ workInProgress'.queue = workInProgress.queue
    BY <1>7, NewWorkType, FinishedTreeProperties DEF suspendCommit
  <2>3. \A f \in Fibers : f < work.next
    BY <2>1, BoundsAssumption DEF Fibers
  <2>4. \A f \in Fibers : TransitionLane \notin lanesOf(workInProgress.queue[f].baseUpdates)
    BY <2>1, <2>3 DEF RenderedOK
  <2> QED BY <2>2, <2>4 DEF RenderedOK
<1>8. CASE finishRender
  <2>1. work' = newWork("none", {})
    BY <1>8, FinishRenderStep, CommitStep
  <2> QED BY <1>5, <2>1, NewWorkType
<1>9. CASE pendingCommitReady
  <2>1. work' = newWork("none", {})
    BY <1>9, PendingCommitStep, CommitStep
  <2> QED BY <1>5, <2>1, NewWorkType
<1> QED
  BY <1>1, <1>2, <1>3, <1>4, <1>6, <1>7, <1>8, <1>9, StepForms
------------------------------------------------------------------------------
\* The initial state

LEMMA InitType == Init => TypeOK /\ WorkOK
<1> SUFFICES ASSUME Init PROVE TypeOK /\ WorkOK
  OBVIOUS
<1>1. <<>> \in Seq(Update) /\ <<>> \in Seq(Ids)
  BY EmptySeq
<1>2. current \in Tree /\ workInProgress \in Tree
  <2> DEFINE empty == [baseState |-> <<>>, baseUpdates |-> <<>>, state |-> {}, callbacks |-> {}]
  <2>1. empty \in UpdateQueue
    BY <1>1 DEF UpdateQueue
  <2>2. /\ current = [queue |-> [f \in Fibers |-> empty], lanes |-> [f \in Fibers |-> {}],
                      childLanes |-> {}]
        /\ workInProgress = current
    BY DEF Init
  <2> HIDE DEF empty
  <2> QED BY <2>1, <2>2 DEF Tree
<1>3. TreesType
  BY <1>1, <1>2 DEF Init, TreesType, QueuesType
<1>4. work = newWork("none", {}) /\ work \in Work /\ work.phase = "none"
  BY NewWorkType DEF Init
<1>5. RenderType
  BY <1>4 DEF Init, RenderType, RootOK, RootType
<1>6. TaskTypes
  <2>1. FALSE \in BOOLEAN
    OBVIOUS
  <2> QED BY <2>1, NoTaskType DEF Init, TaskTypes, ScheduledType
<1>7. HistoryType
  BY <1>1, BoundsAssumption DEF Init, HistoryType
<1>8. RenderingOK
  BY DEF Init, RenderingOK, rendering
<1> QED
  BY <1>3, <1>4, <1>5, <1>6, <1>7, <1>8, TypeParts DEF WorkOK

LEMMA InitNothingLost == Init => NothingLost
<1> SUFFICES ASSUME Init PROVE NothingLost
  OBVIOUS
<1>1. \A f \in Fibers :
        /\ current.queue[f].baseState = <<>> /\ current.queue[f].baseUpdates = <<>>
        /\ workInProgress.queue[f].baseState = <<>> /\ workInProgress.queue[f].baseUpdates = <<>>
        /\ sharedPending[f] = <<>> /\ concurrentQueues[f] = <<>> /\ log[f] = <<>>
  BY DEF Init
<1>2. <<>> \o <<>> = <<>>
  BY EmptySeq, ConcatEmptySeq
<1> QED
  BY <1>1, <1>2, IdsEmpty DEF NothingLost, content

LEMMA InitStranded == Init => NothingStranded /\ MarksOK
<1> SUFFICES ASSUME Init PROVE NothingStranded /\ MarksOK
  OBVIOUS
<1>1. \A f \in Fibers :
        /\ current.queue[f].baseUpdates = <<>> /\ workInProgress.queue[f].baseUpdates = <<>>
        /\ sharedPending[f] = <<>> /\ concurrentQueues[f] = <<>>
        /\ workInProgress.lanes[f] = {}
  BY DEF Init
<1> QED
  BY <1>1, LanesOfEmpty DEF NothingStranded, MarksOK

LEMMA InitCallbacks == Init => LogOK /\ FreshOK /\ QueuesOK /\ CallbackWhenShown
<1> SUFFICES ASSUME Init PROVE LogOK /\ FreshOK /\ QueuesOK /\ CallbackWhenShown
  OBVIOUS
<1>1. Len(<<>>) = 0
  OBVIOUS
<1>2. LogOK
  <2>1. \A f \in Fibers : log[f] = <<>>
    BY DEF Init
  <2> QED BY <1>1, <2>1 DEF LogOK
<1>3. FreshOK
  BY FreshLists DEF Init, FreshOK
<1>4. work.phase = "none"
  BY NewWorkType DEF Init
<1>5. Range(<<>>) = {}
  BY DEF Range
<1>6. \A f \in Fibers : /\ current.queue[f].baseState = <<>> /\ current.queue[f].baseUpdates = <<>>
                        /\ current.queue[f].state = {} /\ current.queue[f].callbacks = {}
                        /\ workInProgress.queue[f] = current.queue[f]
  BY DEF Init
<1>7. \A f \in Fibers : QueueOK(current.queue[f])
  BY <1>1, <1>5, <1>6 DEF QueueOK
<1>8. QueuesOK
  BY <1>4, <1>6, <1>7 DEF QueuesOK, Succeeds
<1>9. CallbackWhenShown
  BY <1>6 DEF Init, CallbackWhenShown
<1> QED
  BY <1>2, <1>3, <1>8, <1>9
LEMMA InitRendered == Init => RenderedOK
<1> SUFFICES ASSUME Init PROVE RenderedOK
  OBVIOUS
<1>1. work.phase = "none"
  BY NewWorkType DEF Init
<1> QED
  BY <1>1 DEF RenderedOK
------------------------------------------------------------------------------
\* The theorems

LEMMA Invariance == Spec => []IInv
<1>1. Init => IInv
  BY InitType, InitNothingLost, InitStranded, InitCallbacks, InitRendered DEF IInv
<1>2. IInv /\ [Next]_vars => IInv'
  <2> SUFFICES ASSUME IInv, [Next]_vars PROVE IInv'
    OBVIOUS
  <2>1. TypeOK' /\ WorkOK'
    BY TypeStep, WorkOKStep DEF IInv
  <2>2. NothingLost'
    BY NothingLostStep DEF IInv
  <2>3. NothingStranded' /\ MarksOK'
    BY NothingStrandedStep DEF IInv
  <2>4. LogOK' /\ FreshOK'
    BY LogStep, FreshStep DEF IInv
  <2>5. QueuesOK' /\ CallbackWhenShown'
    BY QueuesStep, CallbackStep DEF IInv
  <2>6. RenderedOK'
    BY RenderedStep DEF IInv
  <2> QED BY <2>1, <2>2, <2>3, <2>4, <2>5, <2>6 DEF IInv
<1> QED
  BY <1>1, <1>2, PTL DEF Spec

\* What is pending on the root contains what is suspended, which contains what
\* is pinged, and a render has lanes, whatever updates, promises and commits
\* come in its way.
THEOREM TypeCorrect == Spec => []TypeOK
<1>1. IInv => TypeOK
  BY DEF IInv
<1> QED
  BY <1>1, Invariance, PTL

\* Renders that start, skip updates and are given up lose no update, apply none
\* twice and keep the order in which a component's updates were made.
THEOREM UpdatesAreKept == Spec => []NothingLost
<1>1. IInv => NothingLost
  BY DEF IInv
<1> QED
  BY <1>1, Invariance, PTL

\* The lane of an update that is still to be rendered is marked where the
\* root scheduler and the next render look for it.
THEOREM UpdatesAreFound == Spec => []NothingStranded
<1>1. IInv => NothingStranded
  BY DEF IInv
<1> QED
  BY <1>1, Invariance, PTL

\* A callback is called once, by the commit that first shows its update.
THEOREM CallbacksAreCalledOnce == Spec => []CallbackWhenShown
<1>1. IInv => CallbackWhenShown
  BY DEF IInv
<1> QED
  BY <1>1, Invariance, PTL

\* A commit shows all its updates at once: a complete render has processed every
\* update of its lanes that was queued before it began, in every component.
THEOREM CommitsShowWholeLanes == Spec => []NoTearing
<1>1. IInv => NoTearing
  <2> SUFFICES ASSUME IInv, NEW f \in Fibers, work.next = FiberCount + 1
               PROVE  f < work.next
    BY DEF IInv, RenderedOK, NoTearing
  <2> QED BY BoundsAssumption DEF Fibers
<1> QED
  BY <1>1, Invariance, PTL
==============================================================================
