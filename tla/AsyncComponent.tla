---------------------------- MODULE AsyncComponent ----------------------------
(* defineAsyncComponent of Vue 3:                                            *)
(* vue3/packages/runtime-core/src/apiAsyncComponent.ts.                      *)
(*                                                                           *)
(* Wrappers of one definition share a request to its loader.  The loader,    *)
(* the user's onError and the timers answer in any order.  A request is      *)
(* numbered by its call of the loader, and the component that call delivers  *)
(* has the same number.                                                      *)
EXTENDS Naturals, FiniteSets

CONSTANTS
  Wrappers,      \* the instances of the wrapper component
  Suspended,     \* those controlled by a Suspense
  MaxRequests    \* bound: calls of the loader

ASSUME WrappersAssumption == Suspended \subseteq Wrappers

ASSUME BoundAssumption == MaxRequests \in Nat

VARIABLES
  onError,         \* is there a userOnError?
  timeout,         \* is there a timeout?
  requests,        \* how often the loader was called
  pendingRequest,  \* the request to share, or 0
  resolvedComp,    \* the component that is rendered, or 0
  state,           \* where the promise of each request is
  next,            \* the request whose outcome it takes over, or 0
  comp,            \* the component it delivers, or 0
  rejections,      \* the requests whose loader rejected
  invalid,         \* the requests whose loader delivered no component
  wait,            \* the request each wrapper waits for, or 0
  set,             \* the wrappers whose setup() was called
  told,            \* those told the outcome of their request
  loaded, error,   \* the refs of setup(), as the sets where they are true
  timers,          \* the wrappers whose timeout is still to come
  timedOut,        \* history: the wrappers whose timeout failed them
  dropped          \* history: how often pendingRequest was given up

options == <<onError, timeout>>
promises == <<state, next, comp, rejections, invalid>>
refs == <<wait, set, told, loaded, error, timers, timedOut>>
vars == <<options, requests, pendingRequest, resolvedComp, promises, refs, dropped>>

Ids == 1..MaxRequests

(* States of the promise load() returned for a request:                      *)
(*   none       the loader was not called                                    *)
(*   loading    the loader's promise is pending                              *)
(*   asking     the loader rejected; userOnError has called neither yet      *)
(*   retried    the user retried: the catch() follows the request next       *)
(*   answered   catch() is fulfilled with comp; the then() is still to run   *)
(*   following  then() returned the pendingRequest next                      *)
States == {"none", "loading", "asking", "retried", "answered", "following",
           "fulfilled", "rejected"}
Settled == {"fulfilled", "rejected"}

Init ==
  /\ onError \in BOOLEAN /\ timeout \in BOOLEAN
  /\ requests = 0 /\ pendingRequest = 0 /\ resolvedComp = 0
  /\ state = [r \in Ids |-> "none"]
  /\ next = [r \in Ids |-> 0] /\ comp = [r \in Ids |-> 0]
  /\ rejections = {} /\ invalid = {}
  /\ wait = [i \in Wrappers |-> 0]
  /\ set = {} /\ told = {} /\ loaded = {} /\ error = {} /\ timers = {} /\ timedOut = {}
  /\ dropped = 0

------------------------------------------------------------------------------
\* load() when there is no request to share; states are those of the promises.
callLoader(states) ==
  /\ requests < MaxRequests
  /\ requests' = requests + 1
  /\ pendingRequest' = requests'
  /\ state' = [states EXCEPT ![requests'] = "loading"]

\* (A bug: the request is not shared.)
loadAlways == callLoader(state)

\* load(), for a caller that waits for the request pendingRequest'.
load ==
  \/ /\ pendingRequest # 0
     /\ UNCHANGED <<requests, pendingRequest, state>>
  \/ /\ pendingRequest = 0
     /\ callLoader(state)

\* (A bug: only the wrapper that calls the loader has a timeout.)
startTimerOfFirst(i) ==
  timers' = IF timeout /\ i \notin Suspended /\ pendingRequest = 0
            THEN timers \union {i} ELSE timers

\* The timeout, unless Suspense controls the wrapper.
startTimer(i) ==
  timers' = IF timeout /\ i \notin Suspended THEN timers \union {i} ELSE timers

\* setup() of a wrapper: its render function, or the timers and the request.
\* (A wrapper that finds the component resolved counts as loaded.  The delay
\* only chooses between nothing and the loading component, and is left out.)
setup(i) ==
  /\ i \notin set
  /\ set' = set \union {i}
  /\ IF resolvedComp # 0
     THEN /\ loaded' = loaded \union {i}
          /\ UNCHANGED <<requests, pendingRequest, state, wait, timers>>
     ELSE /\ load
          /\ wait' = [wait EXCEPT ![i] = pendingRequest']
          /\ startTimer(i)
          /\ UNCHANGED loaded
  /\ UNCHANGED <<options, resolvedComp, next, comp, rejections, invalid, told, error, timedOut, dropped>>

\* The hydration of a wrapper calls load() and has no catch().
hydrate ==
  /\ load
  /\ UNCHANGED <<options, resolvedComp, next, comp, rejections, invalid, refs, dropped>>

------------------------------------------------------------------------------
(* Outcomes of the loader and of userOnError.                                *)

LoaderResolves(r) ==
  /\ state[r] = "loading"
  /\ state' = [state EXCEPT ![r] = "answered"]
  /\ comp' = [comp EXCEPT ![r] = r]
  /\ UNCHANGED <<options, requests, pendingRequest, resolvedComp, next, rejections, invalid, refs, dropped>>

\* catch(): userOnError decides what happens, if there is one.
LoaderRejects(r) ==
  /\ state[r] = "loading"
  /\ state' = [state EXCEPT ![r] = IF onError THEN "asking" ELSE "rejected"]
  /\ rejections' = rejections \union {r}
  /\ UNCHANGED <<options, requests, pendingRequest, resolvedComp, next, comp, invalid, refs, dropped>>

\* retry(), from then on and as often as the user likes; only the first call
\* of userRetry or userFail decides about the request.
userRetry(r) ==
  /\ onError /\ r \in rejections
  /\ LET first == state[r] = "asking"
     IN  /\ callLoader(IF first THEN [state EXCEPT ![r] = "retried"] ELSE state)
         /\ next' = IF first THEN [next EXCEPT ![r] = requests'] ELSE next
  /\ dropped' = dropped + 1
  /\ UNCHANGED <<options, resolvedComp, comp, rejections, invalid, refs>>

userFail(r) ==
  /\ state[r] = "asking"
  /\ state' = [state EXCEPT ![r] = "rejected"]
  /\ UNCHANGED <<options, requests, pendingRequest, resolvedComp, next, comp, rejections, invalid, refs, dropped>>

------------------------------------------------------------------------------
(* The callbacks of promises, in any order.                                  *)

\* (A bug: the request is not compared with itself.)
Superseded(r) == pendingRequest # 0

\* Is there another request to share, made since?
Outdated(r) == pendingRequest \notin {0, r}

\* (Bugs: an outdated answer is returned without being stored, or refused.)
returnOutdated(r) ==
  /\ state' = [state EXCEPT ![r] = "fulfilled"]
  /\ UNCHANGED next
refuseOutdated(r) ==
  /\ state' = [state EXCEPT ![r] = "rejected"]
  /\ UNCHANGED next

\* return pendingRequest
returnPending(r) ==
  /\ state' = [state EXCEPT ![r] = "following"]
  /\ next' = [next EXCEPT ![r] = pendingRequest]

\* The then() of load(); in a development build it throws if comp is invalid.
Accept(r) ==
  /\ state[r] = "answered"
  /\ \/ /\ Outdated(r)
        /\ returnPending(r)
        /\ UNCHANGED <<comp, resolvedComp, invalid>>
     \/ /\ ~Outdated(r)
        /\ resolvedComp' = comp[r]
        /\ state' = [state EXCEPT ![r] = "fulfilled"]
        /\ UNCHANGED <<comp, next, invalid>>
     \/ /\ ~Outdated(r) /\ comp[r] = r
        /\ state' = [state EXCEPT ![r] = "rejected"]
        /\ invalid' = invalid \union {r}
        /\ comp' = [comp EXCEPT ![r] = 0]
        /\ UNCHANGED <<next, resolvedComp>>
  /\ UNCHANGED <<options, requests, pendingRequest, rejections, refs, dropped>>

\* A promise takes over the outcome of the one it follows.
TakeOver(r) ==
  /\ state[r] \in {"retried", "following"}
  /\ state[next[r]] \in Settled
  /\ state' = [state EXCEPT ![r] =
       IF state[r] = "retried" /\ state[next[r]] = "fulfilled" THEN "answered"
       ELSE state[next[r]]]
  /\ comp' = [comp EXCEPT ![r] = comp[next[r]]]
  /\ UNCHANGED <<options, requests, pendingRequest, resolvedComp, next, rejections, invalid, refs, dropped>>

\* onError() of the wrappers: the next load() calls the loader again.
giveUp == pendingRequest' = 0 /\ dropped' = dropped + 1

\* The callbacks of setup() on the request it waits for.
Due(i) == wait[i] # 0 /\ i \notin told /\ state[wait[i]] \in Settled

Loaded(i) ==
  /\ Due(i) /\ state[wait[i]] = "fulfilled"
  /\ told' = told \union {i}
  /\ loaded' = loaded \union {i}
  /\ UNCHANGED <<options, requests, pendingRequest, resolvedComp, promises, wait, set, error, timers, timedOut, dropped>>

Failed(i) ==
  /\ Due(i) /\ state[wait[i]] = "rejected"
  /\ told' = told \union {i}
  /\ giveUp
  /\ error' = error \union {i}
  /\ UNCHANGED <<options, requests, resolvedComp, promises, wait, set, loaded, timers, timedOut>>

Microtask ==
  \/ \E r \in Ids : Accept(r) \/ TakeOver(r)
  \/ \E i \in Wrappers : Loaded(i) \/ Failed(i)

\* No callback of a promise is left: the event loop goes on to the timers.
Idle ==
  /\ \A r \in Ids : /\ state[r] # "answered"
                    /\ next[r] # 0 /\ state[r] \in {"retried", "following"}
                         => state[next[r]] \notin Settled
  /\ \A i \in Wrappers : ~Due(i)

\* (A bug: error.value is not set.)
TimeOutSilently(i) ==
  /\ i \in timers /\ Idle
  /\ timers' = timers \ {i}
  /\ IF i \notin loaded \union error
     THEN giveUp /\ timedOut' = timedOut \union {i}
     ELSE UNCHANGED <<pendingRequest, dropped, timedOut>>
  /\ UNCHANGED <<options, requests, resolvedComp, promises, wait, set, told, loaded, error>>

\* The timeout of a wrapper.
TimeOut(i) ==
  /\ i \in timers /\ Idle
  /\ timers' = timers \ {i}
  /\ IF i \notin loaded \union error
     THEN /\ giveUp
          /\ error' = error \union {i}
          /\ timedOut' = timedOut \union {i}
     ELSE UNCHANGED <<pendingRequest, dropped, error, timedOut>>
  /\ UNCHANGED <<options, requests, resolvedComp, promises, wait, set, told, loaded>>

------------------------------------------------------------------------------
User ==
  \/ \E i \in Wrappers : setup(i)
  \/ hydrate
  \/ \E r \in Ids : userRetry(r)

Answers == \E r \in Ids : LoaderResolves(r) \/ LoaderRejects(r) \/ userFail(r)

Timers == \E i \in Wrappers : TimeOut(i)

Next == User \/ Answers \/ Microtask \/ Timers

\* The event loop runs every callback and every timer; nothing makes the
\* loader answer.
Fairness == WF_vars(Microtask) /\ WF_vars(Timers)

Spec == Init /\ [][Next]_vars /\ Fairness

------------------------------------------------------------------------------
\* Every variable holds a value of its type; a wrapper that timed out knows it.
TypeOK ==
  /\ onError \in BOOLEAN /\ timeout \in BOOLEAN
  /\ requests \in 0..MaxRequests
  /\ pendingRequest \in 0..MaxRequests
  /\ resolvedComp \in 0..MaxRequests
  /\ state \in [Ids -> States]
  /\ next \in [Ids -> 0..MaxRequests] /\ comp \in [Ids -> 0..MaxRequests]
  /\ rejections \subseteq Ids /\ invalid \subseteq Ids
  /\ wait \in [Wrappers -> 0..MaxRequests]
  /\ set \subseteq Wrappers /\ told \subseteq Wrappers
  /\ loaded \subseteq Wrappers /\ error \subseteq Wrappers
  /\ timers \subseteq Wrappers /\ timedOut \subseteq error
  /\ dropped \in Nat

\* A wrapper that counts as loaded has a component to render: however the
\* answers of old and new requests are ordered, none is taken for loaded
\* before it, or the request it was exchanged for, stored its component.
LoadedHasComponent == loaded # {} => resolvedComp # 0

\* A promise only ever follows one of a later call of the loader, so that no
\* chain of promises leads back to its start and stays pending for ever.
FollowsNewer == \A r \in Ids : next[r] # 0 => next[r] > r

\* Wrappers share the loader's work: it is called again only for a retry, or
\* after a wrapper has given up the request they shared.
SharedLoad == requests <= dropped + 1

\* A wrapper fails without a timeout only if the loader failed, in the call it
\* shares or in one that has replaced that call.
FailedForAReason ==
  \A i \in error \ timedOut : \E r \in rejections \union invalid : r >= wait[i]

\* When neither the loader nor the user owes an answer and all callbacks have
\* run, every wrapper knows the outcome: no promise got lost on the way.
NobodyStranded ==
  Idle /\ (\A r \in Ids : state[r] \notin {"loading", "asking"})
    => set \subseteq told \union loaded

\* With a timeout every wrapper ends up loaded or failed, even if the loader
\* never answers and whatever is retried.
Decided ==
  \A i \in Wrappers \ Suspended :
    timeout /\ i \in set ~> i \in loaded \union error

\* "if it resolved after timeout, should still work" (apiAsyncComponent.spec.ts
\* :340): a wrapper that timed out renders the component once the loader call
\* it waits for delivers one.
LateAnswerWorks ==
  \A i \in timedOut \intersect told :
    wait[i] \notin rejections \union invalid => i \in loaded
==============================================================================
