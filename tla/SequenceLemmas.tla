--------------------------- MODULE SequenceLemmas ---------------------------
(* What the operators on sequences that the components use (the splices of *)
(* their arrays) return: typing, length, and the element at each position; *)
(* and the least and the greatest of some numbers.                         *)
EXTENDS Integers, Sequences, SequencesExt, SequenceTheorems, WellFoundedInduction, TLAPS

\* The natural numbers are well-ordered.
LEMMA LeastNumber ==
  ASSUME NEW T \in SUBSET Nat, T # {}
  PROVE  \E m \in T : \A k \in T : m <= k
<1> DEFINE less == OpToRel(<, Nat)
<1>1. \E m \in T : \A k \in T : <<k, m>> \notin less
  <2>1. IsWellFoundedOn(less, Nat)
    BY NatLessThanWellFounded
  <2> HIDE DEF less
  <2> QED
    BY <2>1, WFMin
<1>2. \A k, m \in Nat : k < m => <<k, m>> \in less
  BY DEF OpToRel
<1> HIDE DEF less
<1>3. PICK m \in T : \A k \in T : <<k, m>> \notin less
  BY <1>1
<1>4. ASSUME NEW k \in T
      PROVE  m <= k
  <2>1. k \in Nat /\ m \in Nat /\ <<k, m>> \notin less
    BY <1>3
  <2>2. ~(k < m)
    BY <1>2, <2>1
  <2> QED
    BY <2>1, <2>2
<1> QED
  BY <1>4

\* Bounded numbers have a greatest one: the least distance from the bound.
LEMMA GreatestNumber ==
  ASSUME NEW N \in Nat, NEW T \in SUBSET (0..N), T # {}
  PROVE  \E m \in T : \A k \in T : k <= m
<1> DEFINE distances == {N - k : k \in T}
<1>0. \A k \in T : k \in Nat /\ k <= N
  OBVIOUS
<1>1. distances \in SUBSET Nat /\ distances # {}
  <2>1. \A k \in T : N - k \in Nat
    BY <1>0
  <2> QED
    BY <2>1
<1>2. PICK d \in distances : \A e \in distances : d <= e
  <2> HIDE DEF distances
  <2> QED
    BY <1>1, LeastNumber
<1>3. PICK m \in T : d = N - m
  OBVIOUS
<1>4. ASSUME NEW k \in T
      PROVE  k <= m
  <2>1. N - k \in distances
    OBVIOUS
  <2>2. d <= N - k
    BY <1>2, <2>1
  <2> QED
    BY <1>0, <1>3, <2>2
<1> QED
  BY <1>4

\* array.splice(k - 1, 0, e)
LEMMA InsertAtProperties ==
  ASSUME NEW S, NEW s \in Seq(S), NEW e \in S, NEW k \in 1..(Len(s) + 1)
  PROVE  /\ InsertAt(s, k, e) \in Seq(S)
         /\ Len(InsertAt(s, k, e)) = Len(s) + 1
         /\ \A n \in 1..(Len(s) + 1) : InsertAt(s, k, e)[n] =
              IF n < k THEN s[n] ELSE IF n = k THEN e ELSE s[n - 1]
<1> DEFINE before == SubSeq(s, 1, k - 1)
           single == <<e>>
           upto == before \o single
           after == SubSeq(s, k, Len(s))
<1>0. Len(s) \in Nat
  BY LenProperties
<1>1. /\ before \in Seq(S) /\ Len(before) = k - 1
      /\ \A n \in 1..(k - 1) : before[n] = s[n]
  BY <1>0, SubSeqProperties, ElementOfSeq
<1>2. /\ after \in Seq(S) /\ Len(after) = Len(s) - k + 1
      /\ \A n \in 1..(Len(s) - k + 1) : after[n] = s[k + n - 1]
  BY <1>0, SubSeqProperties, ElementOfSeq
<1>3. single \in Seq(S) /\ Len(single) = 1 /\ single[1] = e
  OBVIOUS
<1>4. /\ upto \in Seq(S) /\ Len(upto) = k
      /\ \A n \in 1..k : upto[n] = IF n < k THEN s[n] ELSE e
  <2> HIDE DEF before, single
  <2>1. /\ upto \in Seq(S) /\ Len(upto) = Len(before) + Len(single)
        /\ \A n \in 1..(Len(before) + Len(single)) : upto[n] =
             IF n <= Len(before) THEN before[n] ELSE single[n - Len(before)]
    BY <1>1, <1>3, ConcatProperties
  <2> HIDE DEF upto
  <2> QED
    BY <1>0, <1>1, <1>3, <2>1, SMTT(30)
<1>5. InsertAt(s, k, e) = upto \o after
  BY DEF InsertAt
<1> HIDE DEF before, single, upto, after
<1>6. /\ upto \o after \in Seq(S)
      /\ Len(upto \o after) = Len(upto) + Len(after)
      /\ \A n \in 1..(Len(upto) + Len(after)) : (upto \o after)[n] =
           IF n <= Len(upto) THEN upto[n] ELSE after[n - Len(upto)]
  BY <1>2, <1>4, ConcatProperties
<1>7. \A n \in (k + 1)..(Len(s) + 1) : after[n - k] = s[n - 1]
  BY <1>0, <1>2
<1> QED
  BY <1>0, <1>2, <1>4, <1>5, <1>6, <1>7

\* array.splice(k - 1, 1)
LEMMA RemoveAtProperties ==
  ASSUME NEW S, NEW s \in Seq(S), NEW k \in 1..Len(s)
  PROVE  /\ RemoveAt(s, k) \in Seq(S)
         /\ Len(RemoveAt(s, k)) = Len(s) - 1
         /\ \A n \in 1..(Len(s) - 1) : RemoveAt(s, k)[n] =
              IF n < k THEN s[n] ELSE s[n + 1]
<1> DEFINE before == SubSeq(s, 1, k - 1)
           after == SubSeq(s, k + 1, Len(s))
<1>0. Len(s) \in Nat
  BY LenProperties
<1>1. /\ before \in Seq(S) /\ Len(before) = k - 1
      /\ \A n \in 1..(k - 1) : before[n] = s[n]
  BY <1>0, SubSeqProperties, ElementOfSeq
<1>2. /\ after \in Seq(S) /\ Len(after) = Len(s) - k
      /\ \A n \in 1..(Len(s) - k) : after[n] = s[k + n]
  BY <1>0, SubSeqProperties, ElementOfSeq
<1>3. RemoveAt(s, k) = before \o after
  BY DEF RemoveAt
<1> HIDE DEF before, after
<1>4. /\ before \o after \in Seq(S)
      /\ Len(before \o after) = Len(before) + Len(after)
      /\ \A n \in 1..(Len(before) + Len(after)) : (before \o after)[n] =
           IF n <= Len(before) THEN before[n] ELSE after[n - Len(before)]
  BY <1>1, <1>2, ConcatProperties
<1>5. \A n \in k..(Len(s) - 1) : after[n - k + 1] = s[n + 1]
  BY <1>0, <1>2
<1> QED
  BY <1>0, <1>1, <1>2, <1>3, <1>4, <1>5, SMTT(30)

\* A stack, as a sequence with its top at the head, once its top has been
\* replaced by x and the elements of above have been pushed on it.
LEMMA PushedProperties ==
  ASSUME NEW S, NEW s \in Seq(S), s # <<>>, NEW above \in Seq(S), NEW x \in S
  PROVE  LET t == (above \o <<x>>) \o Tail(s)
         IN  /\ t \in Seq(S)
             /\ Len(t) = Len(above) + Len(s)
             /\ \A n \in 1..(Len(above) + Len(s)) : t[n] =
                  IF n <= Len(above) THEN above[n]
                  ELSE IF n = Len(above) + 1 THEN x ELSE s[n - Len(above)]
<1> DEFINE single == <<x>>
           upper == above \o single
           tail == Tail(s)
           t == upper \o tail
<1>0. Len(above) \in Nat /\ Len(s) \in Nat \ {0}
  BY LenProperties, EmptySeq
<1>1. single \in Seq(S) /\ Len(single) = 1 /\ single[1] = x
  OBVIOUS
<1>2. /\ tail \in Seq(S) /\ Len(tail) = Len(s) - 1
      /\ \A n \in 1..(Len(s) - 1) : tail[n] = s[n + 1]
  BY HeadTailProperties
<1> HIDE DEF single, tail
<1>3. /\ upper \in Seq(S) /\ Len(upper) = Len(above) + Len(single)
      /\ \A n \in 1..(Len(above) + Len(single)) : upper[n] =
           IF n <= Len(above) THEN above[n] ELSE single[n - Len(above)]
  BY <1>1, ConcatProperties
<1> HIDE DEF upper
<1>4. /\ t \in Seq(S)
      /\ Len(t) = Len(upper) + Len(tail)
      /\ \A n \in 1..(Len(upper) + Len(tail)) : t[n] =
           IF n <= Len(upper) THEN upper[n] ELSE tail[n - Len(upper)]
  <2>1. upper \in Seq(S) /\ tail \in Seq(S)
    BY <1>2, <1>3
  <2> QED
    BY <2>1, ConcatProperties
<1> HIDE DEF t
<1>5. \A n \in (Len(above) + 2)..(Len(above) + Len(s)) :
        tail[n - (Len(above) + 1)] = s[n - Len(above)]
  <2> SUFFICES ASSUME NEW n \in (Len(above) + 2)..(Len(above) + Len(s))
               PROVE  tail[n - (Len(above) + 1)] = s[n - Len(above)]
    OBVIOUS
  <2>1. /\ n - (Len(above) + 1) \in 1..(Len(s) - 1)
        /\ (n - (Len(above) + 1)) + 1 = n - Len(above)
    BY <1>0
  <2> QED
    BY <1>2, <2>1
<1>6. /\ t \in Seq(S)
      /\ Len(t) = Len(above) + Len(s)
      /\ \A n \in 1..(Len(above) + Len(s)) : t[n] =
           IF n <= Len(above) THEN above[n]
           ELSE IF n = Len(above) + 1 THEN x ELSE s[n - Len(above)]
  BY <1>0, <1>1, <1>2, <1>3, <1>4, <1>5, SMTT(30)
<1> QED
  BY <1>6 DEF t, upper, single, tail
=============================================================================
