------------------------- MODULE AsyncComponentProofs -------------------------
(* Safety of AsyncComponent for any number of wrappers and loader calls.     *)
(* Requests are numbered in the order of their calls, and pendingRequest is  *)
(* always the last one: this is why following it leads forward, and why an   *)
(* answer that is exchanged is exchanged for a newer one.                    *)
EXTENDS AsyncComponent, SequenceLemmas, TLAPS

\* The requests that exist are those counted; the one to share is the last.
Numbered ==
  /\ pendingRequest \in {0, requests}
  /\ \A r \in Ids : state[r] = "none" <=> r > requests
  /\ \A i \in Wrappers : wait[i] <= requests /\ (wait[i] # 0 => i \in set)
  /\ error \union timers \subseteq set

\* A promise that waits for another has one, which is newer.
Links ==
  /\ FollowsNewer
  /\ \A r \in Ids : state[r] \in {"retried", "following"} => next[r] # 0

\* A fulfilled promise has stored its component.
Stored ==
  /\ LoadedHasComponent
  /\ \A r \in Ids : state[r] = "answered" => comp[r] # 0
  /\ \A r \in Ids : state[r] = "fulfilled" => comp[r] # 0 /\ resolvedComp # 0

\* A promise is rejected because a loader failed, then or later.
Reasons ==
  /\ FailedForAReason
  /\ \A r \in Ids : state[r] = "asking" => r \in rejections
  /\ \A r \in Ids : state[r] = "rejected" => \E q \in rejections \union invalid : q >= r

\* Every call but the one that may still be shared has been given up.
Counted ==
  /\ SharedLoad
  /\ pendingRequest = 0 => requests <= dropped

IInv == TypeOK /\ Numbered /\ Links /\ Stored /\ Reasons /\ Counted

LEMMA InitIInv == Init => IInv
<1> SUFFICES ASSUME Init PROVE IInv
  OBVIOUS
<1> USE BoundAssumption DEF Init
<1>1. TypeOK
  BY DEF TypeOK, Ids, States
<1>2. Numbered
  BY DEF Numbered, Ids
<1>3. Links
  BY DEF Links, FollowsNewer
<1>4. Stored
  BY DEF Stored, LoadedHasComponent
<1>5. Reasons
  BY DEF Reasons, FailedForAReason
<1>6. Counted
  BY DEF Counted, SharedLoad
<1> QED
  BY <1>1, <1>2, <1>3, <1>4, <1>5, <1>6 DEF IInv

\* A call of load(): the caller gets the request it waits for.
LEMMA LoadStep ==
  ASSUME IInv, load
  PROVE  /\ requests' \in 0..MaxRequests /\ requests <= requests'
         /\ pendingRequest' \in 1..MaxRequests /\ pendingRequest' = requests'
         /\ state' \in [Ids -> States]
         /\ \A r \in Ids : state'[r] = "none" <=> r > requests'
         /\ \A r \in Ids : state'[r] = state[r] \/ state'[r] = "loading"
         /\ requests' <= dropped + 1
<1> USE BoundAssumption DEF IInv, TypeOK, Numbered, Counted, SharedLoad, Ids, States
<1>1. CASE pendingRequest # 0 /\ UNCHANGED <<requests, pendingRequest, state>>
  BY <1>1
<1>2. CASE pendingRequest = 0 /\ callLoader(state)
  <2>1. requests + 1 \in Ids /\ requests' = requests + 1
    BY <1>2 DEF callLoader
  <2>2. state' = [state EXCEPT ![requests + 1] = "loading"]
    BY <1>2, <2>1 DEF callLoader
  <2> QED
    BY <1>2, <2>1, <2>2 DEF callLoader
<1> QED
  BY <1>1, <1>2 DEF load

LEMMA SetupStep ==
  ASSUME IInv, NEW i \in Wrappers, setup(i)
  PROVE  IInv'
<1> USE BoundAssumption
<1>1. CASE resolvedComp # 0
  <2> USE <1>1 DEF IInv, setup
  <2>1. TypeOK'
    BY DEF TypeOK, options
  <2>2. Numbered'
    BY DEF TypeOK, Numbered
  <2>3. Links'
    BY DEF Links, FollowsNewer
  <2>4. Stored'
    BY DEF Stored, LoadedHasComponent
  <2>5. Reasons'
    BY DEF Reasons, FailedForAReason
  <2>6. Counted'
    BY DEF Counted, SharedLoad
  <2> QED
    BY <2>1, <2>2, <2>3, <2>4, <2>5, <2>6
<1>2. CASE resolvedComp = 0
  <2>1. /\ load
        /\ wait' = [wait EXCEPT ![i] = pendingRequest']
        /\ timers' \subseteq timers \union {i} /\ timers \subseteq timers'
        /\ i \notin set /\ set' = set \union {i}
        /\ UNCHANGED <<options, resolvedComp, next, comp, rejections, invalid,
                       told, loaded, error, timedOut, dropped>>
    BY <1>2 DEF setup, startTimer, options
  <2> HIDE DEF load
  <2>2. /\ requests' \in 0..MaxRequests /\ requests <= requests'
        /\ pendingRequest' \in 1..MaxRequests /\ pendingRequest' = requests'
        /\ state' \in [Ids -> States]
        /\ \A r \in Ids : state'[r] = "none" <=> r > requests'
        /\ \A r \in Ids : state'[r] = state[r] \/ state'[r] = "loading"
        /\ requests' <= dropped + 1
    BY <2>1, LoadStep
  <2>3. TypeOK'
    BY <2>1, <2>2 DEF IInv, TypeOK, options
  <2>4. Numbered'
    BY <2>1, <2>2 DEF IInv, TypeOK, Numbered
  <2>5. Links'
    BY <2>1, <2>2 DEF IInv, Links, FollowsNewer
  <2>6. Stored'
    BY <2>1, <2>2 DEF IInv, Stored, LoadedHasComponent
  <2>7. Reasons'
    BY <2>1, <2>2 DEF IInv, TypeOK, Numbered, Reasons, FailedForAReason
  <2>8. Counted'
    BY <2>1, <2>2 DEF Counted, SharedLoad
  <2> QED
    BY <2>3, <2>4, <2>5, <2>6, <2>7, <2>8 DEF IInv
<1> QED
  BY <1>1, <1>2

LEMMA HydrateStep == IInv /\ hydrate => IInv'
<1> SUFFICES ASSUME IInv, hydrate PROVE IInv'
  OBVIOUS
<1>1. /\ load
      /\ UNCHANGED <<options, resolvedComp, next, comp, rejections, invalid, refs, dropped>>
  BY DEF hydrate
<1>2. /\ requests' \in 0..MaxRequests /\ requests <= requests'
      /\ pendingRequest' \in 1..MaxRequests /\ pendingRequest' = requests'
      /\ state' \in [Ids -> States]
      /\ \A r \in Ids : state'[r] = "none" <=> r > requests'
      /\ \A r \in Ids : state'[r] = state[r] \/ state'[r] = "loading"
      /\ requests' <= dropped + 1
  BY <1>1, LoadStep
<1> USE <1>1, <1>2, BoundAssumption DEF options, refs
<1>3. TypeOK'
  BY DEF IInv, TypeOK
<1>4. Numbered'
  BY DEF IInv, TypeOK, Numbered
<1>5. Links'
  BY DEF IInv, Links, FollowsNewer
<1>6. Stored'
  BY DEF IInv, Stored, LoadedHasComponent
<1>7. Reasons'
  BY DEF IInv, Reasons, FailedForAReason
<1>8. Counted'
  BY DEF Counted, SharedLoad
<1> QED
  BY <1>3, <1>4, <1>5, <1>6, <1>7, <1>8 DEF IInv

\* Reasons are never taken back.
LEMMA ReasonsKept ==
  ASSUME FailedForAReason, rejections \subseteq rejections', invalid \subseteq invalid',
         UNCHANGED <<error, timedOut, wait>>
  PROVE  FailedForAReason'
BY DEF FailedForAReason

LEMMA LoaderResolvesStep ==
  ASSUME IInv, NEW r \in Ids, LoaderResolves(r)
  PROVE  IInv'
<1> USE BoundAssumption DEF IInv, LoaderResolves
<1>1. TypeOK'
  BY DEF TypeOK, options, promises, refs, Ids, States
<1>2. Numbered'
  BY DEF TypeOK, Numbered, options, promises, refs, Ids
<1>3. Links'
  BY DEF TypeOK, Numbered, Links, FollowsNewer, options, promises, refs, Ids
<1>4. Stored'
  BY DEF TypeOK, Stored, Links, LoadedHasComponent, options, promises, refs, Ids
<1>5. Reasons'
  BY DEF TypeOK, Numbered, Links, FollowsNewer, Reasons, FailedForAReason, options, promises, refs, Ids
<1>6. Counted'
  BY DEF TypeOK, Numbered, Counted, SharedLoad, options, promises, refs, Ids
<1> QED
  BY <1>1, <1>2, <1>3, <1>4, <1>5, <1>6

LEMMA LoaderRejectsStep ==
  ASSUME IInv, NEW r \in Ids, LoaderRejects(r)
  PROVE  IInv'
<1> USE BoundAssumption DEF IInv, LoaderRejects
<1>1. TypeOK'
  BY DEF TypeOK, options, promises, refs, Ids, States
<1>2. Numbered'
  BY DEF TypeOK, Numbered, options, promises, refs, Ids
<1>3. Links'
  BY DEF TypeOK, Numbered, Links, FollowsNewer, options, promises, refs, Ids
<1>4. Stored'
  BY DEF TypeOK, Stored, Links, LoadedHasComponent, options, promises, refs, Ids
<1>5. Reasons'
  <2>1. FailedForAReason'
    BY ReasonsKept DEF Reasons, refs
  <2>2. \A q \in Ids : state'[q] = "asking" => q \in rejections'
    BY DEF TypeOK, Reasons, Ids
  <2>3. ASSUME NEW q \in Ids, state'[q] = "rejected"
        PROVE  \E m \in rejections' \union invalid' : m >= q
    <3>1. CASE q = r
      BY <3>1 DEF Ids
    <3>2. CASE q # r
      BY <2>3, <3>2 DEF TypeOK, Reasons, Ids
    <3> QED
      BY <3>1, <3>2
  <2> QED
    BY <2>1, <2>2, <2>3 DEF Reasons
<1>6. Counted'
  BY DEF TypeOK, Numbered, Counted, SharedLoad, options, promises, refs, Ids
<1> QED
  BY <1>1, <1>2, <1>3, <1>4, <1>5, <1>6

LEMMA UserRetryStep ==
  ASSUME IInv, NEW r \in Ids, userRetry(r)
  PROVE  IInv'
<1> USE BoundAssumption DEF IInv, userRetry, callLoader
<1>0. /\ requests + 1 \in Ids /\ requests' = requests + 1 /\ pendingRequest' = requests + 1
      /\ requests \in Nat /\ dropped' \in Nat
  BY DEF TypeOK, Ids
<1>1. TypeOK'
  <2>1. state' \in [Ids -> States]
    BY <1>0 DEF TypeOK, States
  <2>2. next' \in [Ids -> 0..MaxRequests]
    BY <1>0, SMTT(30) DEF TypeOK, Ids
  <2>3. requests' \in 0..MaxRequests /\ pendingRequest' \in 0..MaxRequests
    BY <1>0 DEF Ids
  <2> QED
    BY <1>0, <2>1, <2>2, <2>3 DEF TypeOK, options, refs
<1>2. Numbered'
  <2>1. \A q \in Ids : state'[q] = IF q = requests + 1 THEN "loading"
                                  ELSE IF q = r /\ state[r] = "asking" THEN "retried"
                                  ELSE state[q]
    BY <1>0 DEF TypeOK
  <2>2. \A q \in Ids : state'[q] = "none" <=> q > requests'
    <3> SUFFICES ASSUME NEW q \in Ids PROVE state'[q] = "none" <=> q > requests + 1
      BY <1>0
    <3>1. q \in Nat /\ (state[q] = "none" <=> q > requests)
      BY DEF Numbered, Ids
    <3>2. state'[q] = IF q = requests + 1 THEN "loading"
                      ELSE IF q = r /\ state[r] = "asking" THEN "retried" ELSE state[q]
      BY <2>1
    <3>3. requests \in Nat
      BY <1>0
    <3> QED
      BY ONLY <3>1, <3>2, <3>3
  <2>3. UNCHANGED <<wait, set, error, timers>>
    BY DEF refs
  <2> QED
    BY <1>0, <2>2, <2>3 DEF TypeOK, Numbered
<1>3. Links'
  <2>1. CASE state[r] = "asking"
    <3>1. r <= requests
      BY <2>1 DEF TypeOK, Numbered, Ids
    <3>2. \A q \in Ids : next'[q] = IF q = r THEN requests + 1 ELSE next[q]
      BY <1>0, <2>1 DEF TypeOK
    <3>3. \A q \in Ids : q # r => state'[q] \in {state[q], "loading"}
      BY <1>0, <2>1 DEF TypeOK
    <3>4. ASSUME NEW q \in Ids
          PROVE  /\ next'[q] # 0 => next'[q] > q
                 /\ state'[q] \in {"retried", "following"} => next'[q] # 0
      <4>1. CASE q = r
        BY <1>0, <3>1, <3>2, <4>1 DEF Ids
      <4>2. CASE q # r
        <5>1. next'[q] = next[q] /\ state'[q] \in {state[q], "loading"}
          BY <3>2, <3>3, <4>2
        <5> QED
          BY <5>1 DEF Links, FollowsNewer
      <4> QED
        BY <4>1, <4>2
    <3> QED
      BY <3>4 DEF Links, FollowsNewer
  <2>2. CASE state[r] # "asking"
    <3>1. next' = next /\ \A q \in Ids : state'[q] \in {state[q], "loading"}
      BY <1>0, <2>2 DEF TypeOK
    <3> QED
      BY <3>1 DEF Links, FollowsNewer
  <2> QED
    BY <2>1, <2>2
<1>4. Stored'
  BY DEF TypeOK, Stored, Links, LoadedHasComponent, options, promises, refs, Ids
<1>5. Reasons'
  BY DEF TypeOK, Numbered, Links, FollowsNewer, Reasons, FailedForAReason, options, promises, refs, Ids
<1>6. Counted'
  BY DEF TypeOK, Numbered, Counted, SharedLoad, options, promises, refs, Ids
<1> QED
  BY <1>1, <1>2, <1>3, <1>4, <1>5, <1>6

LEMMA UserFailStep ==
  ASSUME IInv, NEW r \in Ids, userFail(r)
  PROVE  IInv'
<1> USE BoundAssumption DEF IInv, userFail
<1>1. TypeOK'
  BY DEF TypeOK, options, promises, refs, Ids, States
<1>2. Numbered'
  BY DEF TypeOK, Numbered, options, promises, refs, Ids
<1>3. Links'
  BY DEF TypeOK, Numbered, Links, FollowsNewer, options, promises, refs, Ids
<1>4. Stored'
  BY DEF TypeOK, Stored, Links, LoadedHasComponent, options, promises, refs, Ids
<1>5. Reasons'
  <2>1. FailedForAReason'
    BY ReasonsKept DEF Reasons, refs
  <2>2. \A q \in Ids : state'[q] = "asking" => q \in rejections'
    BY DEF TypeOK, Reasons, Ids
  <2>3. ASSUME NEW q \in Ids, state'[q] = "rejected"
        PROVE  \E m \in rejections' \union invalid' : m >= q
    <3>1. CASE q = r
      BY <3>1 DEF TypeOK, Reasons, Ids
    <3>2. CASE q # r
      BY <2>3, <3>2 DEF TypeOK, Reasons, Ids
    <3> QED
      BY <3>1, <3>2
  <2> QED
    BY <2>1, <2>2, <2>3 DEF Reasons
<1>6. Counted'
  BY DEF TypeOK, Numbered, Counted, SharedLoad, options, promises, refs, Ids
<1> QED
  BY <1>1, <1>2, <1>3, <1>4, <1>5, <1>6

LEMMA AcceptStep ==
  ASSUME IInv, NEW r \in Ids, Accept(r)
  PROVE  IInv'
<1> USE BoundAssumption DEF IInv, Accept, Outdated, returnPending
<1>0. /\ r <= requests /\ comp[r] \in Ids
      /\ Outdated(r) => /\ pendingRequest \in Ids /\ pendingRequest > r
  BY DEF TypeOK, Numbered, Stored, Ids
<1>a. CASE Outdated(r) /\ state' = [state EXCEPT ![r] = "following"]
           /\ next' = [next EXCEPT ![r] = pendingRequest]
           /\ UNCHANGED <<comp, resolvedComp, invalid>>
  <2> USE <1>a
  <2>1. TypeOK'
    BY <1>0 DEF TypeOK, options, refs, Ids, States
  <2>2. Numbered'
    BY <1>0 DEF TypeOK, Numbered, refs, Ids
  <2>3. Links'
    BY <1>0 DEF TypeOK, Links, FollowsNewer, Ids
  <2>4. Stored'
    BY <1>0 DEF TypeOK, Stored, Links, LoadedHasComponent, refs, Ids
  <2>5. Reasons'
    <3>1. FailedForAReason'
      BY ReasonsKept DEF Reasons, refs
    <3>2. \A q \in Ids : state'[q] = "asking" => q \in rejections'
      BY DEF TypeOK, Reasons, Ids
    <3>3. \A q \in Ids : state'[q] = "rejected" => \E m \in rejections' \union invalid' : m >= q
      BY DEF TypeOK, Reasons, Ids
    <3> QED
      BY <3>1, <3>2, <3>3 DEF Reasons
  <2>6. Counted'
    BY DEF Counted, SharedLoad
  <2> QED
    BY <2>1, <2>2, <2>3, <2>4, <2>5, <2>6
<1>b. CASE resolvedComp' = comp[r] /\ state' = [state EXCEPT ![r] = "fulfilled"]
           /\ UNCHANGED <<comp, next, invalid>>
  <2> USE <1>b
  <2>1. TypeOK'
    BY <1>0 DEF TypeOK, options, refs, Ids, States
  <2>2. Numbered'
    BY <1>0 DEF TypeOK, Numbered, refs, Ids
  <2>3. Links'
    BY <1>0 DEF TypeOK, Links, FollowsNewer, Ids
  <2>4. Stored'
    BY <1>0 DEF TypeOK, Stored, Links, LoadedHasComponent, refs, Ids
  <2>5. Reasons'
    <3>1. FailedForAReason'
      BY ReasonsKept DEF Reasons, refs
    <3>2. \A q \in Ids : state'[q] = "asking" => q \in rejections'
      BY DEF TypeOK, Reasons, Ids
    <3>3. \A q \in Ids : state'[q] = "rejected" => \E m \in rejections' \union invalid' : m >= q
      BY DEF TypeOK, Reasons, Ids
    <3> QED
      BY <3>1, <3>2, <3>3 DEF Reasons
  <2>6. Counted'
    BY DEF Counted, SharedLoad
  <2> QED
    BY <2>1, <2>2, <2>3, <2>4, <2>5, <2>6
<1>c. CASE /\ comp[r] = r /\ state' = [state EXCEPT ![r] = "rejected"]
           /\ invalid' = invalid \union {r} /\ comp' = [comp EXCEPT ![r] = 0]
           /\ UNCHANGED <<next, resolvedComp>>
  <2> USE <1>c
  <2>1. TypeOK'
    BY <1>0 DEF TypeOK, options, refs, Ids, States
  <2>2. Numbered'
    BY <1>0 DEF TypeOK, Numbered, refs, Ids
  <2>3. Links'
    BY <1>0 DEF TypeOK, Links, FollowsNewer, Ids
  <2>4. Stored'
    BY <1>0 DEF TypeOK, Stored, Links, LoadedHasComponent, refs, Ids
  <2>5. Reasons'
    <3>1. FailedForAReason'
      BY ReasonsKept DEF Reasons, refs
    <3>2. \A q \in Ids : state'[q] = "asking" => q \in rejections'
      BY DEF TypeOK, Reasons, Ids
    <3>3. ASSUME NEW q \in Ids, state'[q] = "rejected"
          PROVE  \E m \in rejections' \union invalid' : m >= q
      <4>1. CASE q = r
        BY <4>1 DEF Ids
      <4>2. CASE q # r
        BY <3>3, <4>2 DEF TypeOK, Reasons, Ids
      <4> QED
        BY <4>1, <4>2
    <3> QED
      BY <3>1, <3>2, <3>3 DEF Reasons
  <2>6. Counted'
    BY DEF Counted, SharedLoad
  <2> QED
    BY <2>1, <2>2, <2>3, <2>4, <2>5, <2>6
<1> QED
  BY <1>a, <1>b, <1>c

LEMMA TakeOverStep ==
  ASSUME IInv, NEW r \in Ids, TakeOver(r)
  PROVE  IInv'
<1> USE BoundAssumption DEF IInv, TakeOver, Settled
<1>0. /\ next[r] \in Ids /\ next[r] > r /\ comp[next[r]] \in 0..MaxRequests
      /\ state'[r] \in {"answered", "fulfilled", "rejected"}
  BY DEF TypeOK, Links, FollowsNewer, Ids
<1>1. TypeOK'
  <2>1. state' \in [Ids -> States]
    BY <1>0 DEF TypeOK, States
  <2>2. comp' \in [Ids -> 0..MaxRequests]
    BY <1>0 DEF TypeOK
  <2> QED
    BY <2>1, <2>2 DEF TypeOK, options, refs
<1>2. Numbered'
  BY DEF TypeOK, Numbered, options, promises, refs, Ids
<1>3. Links'
  BY DEF TypeOK, Numbered, Links, FollowsNewer, options, promises, refs, Ids
<1>4. Stored'
  BY DEF TypeOK, Stored, Links, LoadedHasComponent, options, promises, refs, Ids
<1>5. Reasons'
  <2>1. FailedForAReason'
    BY ReasonsKept DEF Reasons, refs
  <2>2. \A q \in Ids : state'[q] = "asking" => q \in rejections'
    BY <1>0 DEF TypeOK, Reasons, Ids
  <2>3. ASSUME NEW q \in Ids, state'[q] = "rejected"
        PROVE  \E m \in rejections' \union invalid' : m >= q
    <3>1. CASE q = r
      <4>1. state[next[r]] = "rejected"
        BY <1>0, <2>3, <3>1 DEF TypeOK
      <4>2. PICK m \in rejections \union invalid : m >= next[r]
        BY <1>0, <4>1 DEF Reasons
      <4> QED
        BY <1>0, <3>1, <4>2 DEF TypeOK, Ids
    <3>2. CASE q # r
      BY <2>3, <3>2 DEF TypeOK, Reasons, Ids
    <3> QED
      BY <3>1, <3>2
  <2> QED
    BY <2>1, <2>2, <2>3 DEF Reasons
<1>6. Counted'
  BY DEF TypeOK, Numbered, Counted, SharedLoad, options, promises, refs, Ids
<1> QED
  BY <1>1, <1>2, <1>3, <1>4, <1>5, <1>6

LEMMA LoadedStep ==
  ASSUME IInv, NEW i \in Wrappers, Loaded(i)
  PROVE  IInv'
<1> USE BoundAssumption DEF IInv, Loaded, Due
<1>1. TypeOK'
  BY DEF TypeOK, options, promises, refs, Ids, States
<1>2. Numbered'
  BY DEF TypeOK, Numbered, options, promises, refs, Ids
<1>3. Links'
  BY DEF TypeOK, Numbered, Links, FollowsNewer, options, promises, refs, Ids
<1>4. Stored'
  BY DEF TypeOK, Stored, Links, LoadedHasComponent, options, promises, refs, Ids
<1>5. Reasons'
  BY DEF TypeOK, Numbered, Links, FollowsNewer, Reasons, FailedForAReason, options, promises, refs, Ids
<1>6. Counted'
  BY DEF TypeOK, Numbered, Counted, SharedLoad, options, promises, refs, Ids
<1> QED
  BY <1>1, <1>2, <1>3, <1>4, <1>5, <1>6

LEMMA FailedStep ==
  ASSUME IInv, NEW i \in Wrappers, Failed(i)
  PROVE  IInv'
<1> USE BoundAssumption DEF IInv, Failed, Due, giveUp
<1>1. TypeOK'
  <2>1. UNCHANGED <<onError, timeout, requests, resolvedComp, state, next, comp,
                    rejections, invalid, wait, set, loaded, timers, timedOut>>
    BY DEF options, promises
  <2>2. pendingRequest' = 0 /\ dropped' = dropped + 1
    OBVIOUS
  <2>3. told' = told \union {i} /\ error' = error \union {i}
    OBVIOUS
  <2> QED
    BY <2>1, <2>2, <2>3 DEF TypeOK
<1>0. i \in set
  BY DEF TypeOK, Numbered
<1>2. Numbered'
  <2>1. pendingRequest' = 0 /\ UNCHANGED <<requests, state, wait, set, timers>>
    BY DEF promises
  <2>2. error' = error \union {i}
    OBVIOUS
  <2> QED
    BY <1>0, <2>1, <2>2 DEF Numbered
<1>3. Links'
  BY DEF TypeOK, Numbered, Links, FollowsNewer, options, promises, refs, Ids
<1>4. Stored'
  BY DEF TypeOK, Stored, Links, LoadedHasComponent, options, promises, refs, Ids
<1>5. Reasons'
  <2>0. wait[i] \in Ids /\ state[wait[i]] = "rejected"
    BY DEF TypeOK, Ids
  <2>1. PICK m \in rejections \union invalid : m >= wait[i]
    BY <2>0 DEF Reasons
  <2>2. UNCHANGED <<wait, timedOut, state, rejections, invalid>> /\ error' = error \union {i}
    BY DEF promises
  <2> QED
    BY <2>1, <2>2 DEF Reasons, FailedForAReason
<1>6. Counted'
  BY DEF TypeOK, Numbered, Counted, SharedLoad, options, promises, refs, Ids
<1> QED
  BY <1>1, <1>2, <1>3, <1>4, <1>5, <1>6

LEMMA TimeOutStep ==
  ASSUME IInv, NEW i \in Wrappers, TimeOut(i)
  PROVE  IInv'
<1> USE BoundAssumption DEF IInv, TimeOut, giveUp
<1>1. TypeOK'
  <2>1. UNCHANGED <<onError, timeout, requests, resolvedComp, state, next, comp,
                    rejections, invalid, wait, set, loaded, told>>
    BY DEF options, promises
  <2>2. pendingRequest' \in {0, pendingRequest} /\ dropped' \in {dropped, dropped + 1}
    OBVIOUS
  <2>3. timers' = timers \ {i}
    OBVIOUS
  <2>4. /\ error' \subseteq Wrappers /\ timedOut' \subseteq error'
    BY DEF TypeOK
  <2> QED
    BY <2>1, <2>2, <2>3, <2>4 DEF TypeOK
<1>2. Numbered'
  BY DEF TypeOK, Numbered, options, promises, refs, Ids
<1>3. Links'
  BY DEF TypeOK, Numbered, Links, FollowsNewer, options, promises, refs, Ids
<1>4. Stored'
  BY DEF TypeOK, Stored, Links, LoadedHasComponent, options, promises, refs, Ids
<1>5. Reasons'
  BY DEF TypeOK, Numbered, Links, FollowsNewer, Reasons, FailedForAReason, options, promises, refs, Ids
<1>6. Counted'
  BY DEF TypeOK, Numbered, Counted, SharedLoad, options, promises, refs, Ids
<1> QED
  BY <1>1, <1>2, <1>3, <1>4, <1>5, <1>6

LEMMA NextIInv == IInv /\ [Next]_vars => IInv'
<1> SUFFICES ASSUME IInv, [Next]_vars PROVE IInv'
  OBVIOUS
<1>1. ASSUME NEW i \in Wrappers, setup(i) PROVE IInv'
  BY <1>1, SetupStep
<1>2. ASSUME hydrate PROVE IInv'
  BY <1>2, HydrateStep
<1>3. ASSUME NEW r \in Ids, LoaderResolves(r) \/ LoaderRejects(r) \/ userFail(r) \/ userRetry(r)
      PROVE  IInv'
  BY <1>3, LoaderResolvesStep, LoaderRejectsStep, UserFailStep, UserRetryStep
<1>4. ASSUME NEW r \in Ids, Accept(r) \/ TakeOver(r) PROVE IInv'
  BY <1>4, AcceptStep, TakeOverStep
<1>5. ASSUME NEW i \in Wrappers, Loaded(i) \/ Failed(i) \/ TimeOut(i) PROVE IInv'
  BY <1>5, LoadedStep, FailedStep, TimeOutStep
<1>6. CASE UNCHANGED vars
  BY <1>6 DEF IInv, TypeOK, Numbered, Links, FollowsNewer, Stored, LoadedHasComponent, Reasons,
              FailedForAReason, Counted, SharedLoad, vars, options, promises, refs
<1> QED
  BY <1>1, <1>2, <1>3, <1>4, <1>5, <1>6 DEF Next, User, Answers, Microtask, Timers

\* The invariant holds in every state the event loop can reach.
THEOREM InvariantCorrect == Spec => []IInv
<1> QED
  BY InitIInv, NextIInv, PTL DEF Spec

\* Every variable keeps its type (see TypeOK).
THEOREM TypeCorrect == Spec => []TypeOK
<1>1. IInv => TypeOK
  BY DEF IInv
<1> QED
  BY <1>1, InvariantCorrect, PTL

\* No wrapper counts as loaded without a component to render (see
\* LoadedHasComponent, about the then() of load()).
THEOREM LoadedHasComponentCorrect == Spec => []LoadedHasComponent
<1>1. IInv => LoadedHasComponent
  BY DEF IInv, Stored
<1> QED
  BY <1>1, InvariantCorrect, PTL

\* The promises that follow one another never form a circle: each one is
\* followed by older ones only (return pendingRequest, and retry()).
THEOREM FollowsNewerCorrect == Spec => []FollowsNewer
<1>1. IInv => FollowsNewer
  BY DEF IInv, Links
<1> QED
  BY <1>1, InvariantCorrect, PTL

\* The loader is called once, and once more for each request given up.
THEOREM SharedLoadCorrect == Spec => []SharedLoad
<1>1. IInv => SharedLoad
  BY DEF IInv, Counted
<1> QED
  BY <1>1, InvariantCorrect, PTL

\* A wrapper that fails without a timeout was failed by the loader, through
\* however many promises the rejection travelled.
THEOREM FailedForAReasonCorrect == Spec => []FailedForAReason
<1>1. IInv => FailedForAReason
  BY DEF IInv, Reasons
<1> QED
  BY <1>1, InvariantCorrect, PTL
------------------------------------------------------------------------------
\* What is waited for exists: the promises that are followed, and a request
\* for each wrapper that is not loaded.
Waits ==
  /\ \A r \in Ids : next[r] <= requests
  /\ \A i \in set : i \in loaded \/ wait[i] # 0

\* After load() there is a request, and none disappears.
LEMMA LoadWaits ==
  ASSUME IInv, load
  PROVE  pendingRequest' # 0 /\ requests' >= requests
<1> QED
  BY BoundAssumption DEF IInv, TypeOK, load, callLoader

LEMMA SetupWaits ==
  ASSUME IInv, Waits, NEW i \in Wrappers, setup(i)
  PROVE  Waits'
<1>1. next' = next /\ set' = set \union {i}
  BY DEF setup
<1>2. CASE resolvedComp # 0
  BY <1>1, <1>2 DEF setup, Waits, Ids
<1>3. CASE resolvedComp = 0
  <2>1. /\ load /\ wait' = [wait EXCEPT ![i] = pendingRequest'] /\ loaded' = loaded
    BY <1>3 DEF setup
  <2>2. pendingRequest' # 0 /\ requests' >= requests
    BY <2>1, LoadWaits
  <2>3. \A r \in Ids : next'[r] <= requests'
    <3>1. requests \in Nat /\ requests' \in Nat /\ \A r \in Ids : next[r] \in Nat
      BY <2>1, BoundAssumption DEF IInv, TypeOK, load, callLoader
    <3> QED
      BY <1>1, <2>2, <3>1 DEF Waits
  <2>4. \A k \in set' : k \in loaded' \/ wait'[k] # 0
    BY <1>1, <2>1, <2>2 DEF Waits, IInv, TypeOK
  <2> QED
    BY <2>3, <2>4 DEF Waits
<1> QED
  BY <1>2, <1>3

LEMMA RequestsWait ==
  ASSUME IInv, Waits,
         hydrate \/ \E r \in Ids : userRetry(r) \/ Accept(r)
  PROVE  Waits'
<1>1. set' = set /\ loaded' = loaded /\ wait' = wait
  BY DEF hydrate, userRetry, Accept, refs
<1>2. requests \in Nat /\ pendingRequest \in 0..requests /\ next \in [Ids -> Nat]
  BY BoundAssumption DEF IInv, TypeOK, Numbered
<1>3. CASE hydrate
  <2>1. next' = next /\ requests' \in Nat /\ requests' >= requests
    BY <1>2, <1>3, BoundAssumption DEF hydrate, load, callLoader
  <2> QED
    BY <1>1, <1>2, <2>1 DEF Waits
<1>4. ASSUME NEW r \in Ids, userRetry(r)
      PROVE  Waits'
  <2>1. /\ requests' = requests + 1
        /\ next' = next \/ next' = [next EXCEPT ![r] = requests']
    BY <1>4 DEF userRetry, callLoader
  <2>2. \A q \in Ids : next'[q] <= requests'
    BY <1>2, <2>1 DEF Waits
  <2> QED
    BY <1>1, <2>2 DEF Waits
<1>5. ASSUME NEW r \in Ids, Accept(r)
      PROVE  Waits'
  <2>1. /\ requests' = requests
        /\ next' = next \/ next' = [next EXCEPT ![r] = pendingRequest]
    BY <1>5 DEF Accept, returnPending
  <2>2. \A q \in Ids : next'[q] <= requests'
    BY <1>2, <2>1 DEF Waits
  <2> QED
    BY <1>1, <2>2 DEF Waits
<1> QED
  BY <1>3, <1>4, <1>5

LEMMA NextWaits == IInv /\ Waits /\ [Next]_vars => Waits'
<1> SUFFICES ASSUME IInv, Waits, [Next]_vars PROVE Waits'
  OBVIOUS
<1>1. ASSUME NEW r \in Ids, LoaderResolves(r) \/ LoaderRejects(r) \/ userFail(r) \/ TakeOver(r)
      PROVE  Waits'
  BY <1>1 DEF Waits, LoaderResolves, LoaderRejects, userFail, TakeOver, refs
<1>2. ASSUME NEW i \in Wrappers, Loaded(i) \/ Failed(i) \/ TimeOut(i)
      PROVE  Waits'
  BY <1>2 DEF Waits, Loaded, Failed, TimeOut, promises
<1>3. CASE UNCHANGED vars
  BY <1>3 DEF Waits, vars, promises, refs
<1> QED
  BY <1>1, <1>2, <1>3, SetupWaits, RequestsWait DEF Next, User, Answers, Microtask, Timers

\* When no answer is owed and no callback is left, all requests are settled:
\* the newest one that is not would follow a newer one that is.
LEMMA AllSettled ==
  ASSUME IInv, Waits, Idle, \A r \in Ids : state[r] \notin {"loading", "asking"},
         NEW r \in Ids, r <= requests
  PROVE  state[r] \in Settled
<1> DEFINE Open == {q \in Ids : state[q] \in {"retried", "following"}}
<1>1. \A q \in Ids : q <= requests => state[q] \in Settled \/ q \in Open
  <2> SUFFICES ASSUME NEW q \in Ids, q <= requests
               PROVE  state[q] \in Settled \/ q \in Open
    OBVIOUS
  <2>1. state[q] \in States /\ state[q] \notin {"none", "loading", "asking", "answered"}
    BY BoundAssumption DEF IInv, TypeOK, Numbered, Idle, Ids
  <2> QED
    BY <2>1 DEF States, Settled
<1>2. Open = {}
  <2> SUFFICES ASSUME Open # {} PROVE FALSE
    OBVIOUS
  <2>1. Open \in SUBSET (0..MaxRequests)
    BY BoundAssumption DEF Ids
  <2>2. PICK m \in Open : \A k \in Open : k <= m
    BY <2>1, GreatestNumber, BoundAssumption
  <2>3. next[m] # 0 /\ next[m] > m /\ next[m] <= requests /\ next[m] \in 0..MaxRequests
    BY DEF IInv, TypeOK, Links, FollowsNewer, Waits
  <2>4. next[m] \in Ids /\ next[m] \notin Open
    BY <2>1, <2>2, <2>3, BoundAssumption DEF Ids
  <2>5. state[next[m]] \in Settled
    BY <1>1, <2>3, <2>4
  <2> QED
    BY <2>3, <2>5 DEF Idle
<1> QED
  BY <1>1, <1>2

LEMMA ToldOfAll == IInv /\ Waits => NobodyStranded
<1> SUFFICES ASSUME IInv, Waits, Idle, \A r \in Ids : state[r] \notin {"loading", "asking"},
                    NEW i \in set, i \notin loaded
             PROVE  i \in told
  BY DEF NobodyStranded
<1>1. i \in Wrappers /\ wait[i] # 0 /\ wait[i] <= requests /\ wait[i] \in 0..MaxRequests
  BY DEF IInv, TypeOK, Numbered, Waits
<1>2. wait[i] \in Ids
  BY <1>1, BoundAssumption DEF Ids
<1>3. state[wait[i]] \in Settled
  BY <1>1, <1>2, AllSettled
<1> QED
  BY <1>1, <1>3 DEF Idle, Due

\* When neither the loader nor the user owes an answer, every wrapper has been
\* told the outcome, through however many promises it travelled (load(),
\* retry() and the then() that returns pendingRequest).
THEOREM NobodyStrandedCorrect == Spec => []NobodyStranded
<1>1. Init => Waits
  BY DEF Init, Waits
<1>2. IInv /\ Waits => NobodyStranded
  BY ToldOfAll
<1> QED
  BY <1>1, <1>2, NextWaits, InvariantCorrect, PTL DEF Spec
==============================================================================
