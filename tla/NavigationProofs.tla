--------------------------- MODULE NavigationProofs ---------------------------
(* Safety of Navigation for any locations, options, deltas and bounds.  The  *)
(* navigation that is pending is the one started last, or none after an      *)
(* unmount: this is why only the newest is shown.  The entries are numbered  *)
(* from the first, wherever the history stands.  At rest the URL is that of  *)
(* the route: a popstate that changed it shows its route, or is reverted.    *)
EXTENDS Navigation, SequenceTheorems, TLAPS

Entry == [location: Locations, position: Nat]

\* The session history and html5.ts's copy of its current entry.
HistoryOK ==
  /\ entries \in Seq(Entry)
  /\ index \in DOMAIN entries
  /\ currentLocation \in Locations /\ historyPosition \in Nat
  /\ DeltaIsDistance

\* The pending navigation is the newest, and the others are older.
PendingOK ==
  /\ started \in 0..MaxNavigations
  /\ Ids \subseteq 1..started /\ navigations \in [Ids -> Navigation]
  /\ pendingLocation \in {START.id, started}

TraversalsOK ==
  /\ traversals \in Seq([delta: Int, silent: BOOLEAN])
  /\ pauseState \in Locations \cup {NoLocation}

RouteOK == currentRoute \in {START} \cup [id: 1..started, location: Locations]

AppOK ==
  /\ ready \in BOOLEAN /\ listening \in BOOLEAN /\ mounted \in BOOLEAN
  /\ gos \in 0..MaxGos /\ unmounts \in 0..MaxUnmounts
  /\ adrift \in BOOLEAN /\ tangled \in BOOLEAN

IInv == HistoryOK /\ PendingOK /\ TraversalsOK /\ RouteOK /\ AppOK

LEMMA InvType == IInv => TypeOK
  BY BoundsAssumption DEF IInv, HistoryOK, PendingOK, TraversalsOK, RouteOK, AppOK, TypeOK, Entry, START

LEMMA InitIInv == Init => IInv
<1> SUFFICES ASSUME Init PROVE IInv
  OBVIOUS
<1>1. HistoryOK
  BY LocationsAssumption DEF Init, HistoryOK, DeltaIsDistance, Entry
<1>2. PendingOK
  BY BoundsAssumption DEF Init, PendingOK, START, Ids
<1>3. TraversalsOK
  BY DEF Init, TraversalsOK
<1>4. RouteOK
  BY DEF Init, RouteOK
<1>5. AppOK
  <2>1. gos \in 0..MaxGos /\ unmounts \in 0..MaxUnmounts
    BY BoundsAssumption DEF Init
  <2>2. /\ ready \in BOOLEAN /\ listening \in BOOLEAN /\ mounted \in BOOLEAN
        /\ adrift \in BOOLEAN /\ tangled \in BOOLEAN
    BY Zenon DEF Init
  <2> QED BY <2>1, <2>2 DEF AppOK
<1> QED
  BY <1>1, <1>2, <1>3, <1>4, <1>5 DEF IInv
------------------------------------------------------------------------------
\* The operators the actions are made of

\* historyPush() cuts the entries after the current one and numbers the new one.
LEMMA HistoryPushOK ==
  ASSUME HistoryOK, NEW l \in Locations, historyPush(l)
  PROVE  HistoryOK'
<1> DEFINE kept == SubSeq(entries, 1, index)
           new == [location |-> l, position |-> entries[index].position + 1]
<1>1. /\ index \in 1..Len(entries) /\ index \in Int
      /\ \A i \in 1..index : entries[i] \in Entry
  BY DEF HistoryOK
<1>2. /\ kept \in Seq(Entry) /\ Len(kept) = index
      /\ \A i \in 1..index : kept[i] = entries[i]
  <2>1. /\ kept \in Seq(Entry)
        /\ Len(kept) = IF 1 <= index THEN index - 1 + 1 ELSE 0
        /\ \A i \in 1..index - 1 + 1 : kept[i] = entries[1 + i - 1]
    <3> HIDE DEF HistoryOK
    <3> QED BY <1>1, SubSeqProperties
  <2> QED BY <1>1, <2>1
<1>3. new \in Entry /\ new.location = l /\ new.position = index
  BY <1>1 DEF HistoryOK, DeltaIsDistance, Entry
<1>4. entries' = Append(kept, new) /\ index' = index + 1
      /\ currentLocation' = l /\ historyPosition' = new.position
  BY DEF historyPush
<1> HIDE DEF kept, new
<1>5. /\ entries' \in Seq(Entry) /\ Len(entries') = index + 1
      /\ \A i \in 1..index : entries'[i] = kept[i]
      /\ entries'[index + 1] = new
  BY <1>2, <1>3, <1>4, AppendProperties
<1>6. ASSUME NEW i \in 1..index + 1 PROVE entries'[i].position = i - 1
  <2>1. CASE i = index + 1
    BY <1>1, <1>3, <1>5, <2>1
  <2>2. CASE i \in 1..index
    <3>1. entries'[i] = entries[i]
      BY <1>2, <1>5, <2>2
    <3>2. i \in DOMAIN entries
      BY <1>1, <2>2 DEF HistoryOK
    <3> QED BY <3>1, <3>2 DEF HistoryOK, DeltaIsDistance
  <2> QED BY <1>1, <2>1, <2>2
<1> QED
  BY <1>1, <1>3, <1>4, <1>5, <1>6 DEF HistoryOK, DeltaIsDistance

\* historyReplace() leaves the number of the entry.
LEMMA HistoryReplaceOK ==
  ASSUME HistoryOK, NEW l \in Locations, historyReplace(l)
  PROVE  HistoryOK'
<1> DEFINE new == [location |-> l, position |-> historyPosition]
<1>1. /\ entries' = [entries EXCEPT ![index] = new] /\ index' = index
      /\ currentLocation' = l /\ historyPosition' = historyPosition
  BY DEF historyReplace
<1>2. new \in Entry /\ new.location = l /\ new.position = historyPosition
  BY DEF HistoryOK, Entry
<1> HIDE DEF new
<1>3. entries' \in Seq(Entry) /\ DOMAIN entries' = DOMAIN entries
  BY <1>1, <1>2 DEF HistoryOK
<1>4. \A i \in DOMAIN entries : entries'[i] = IF i = index THEN new ELSE entries[i]
  BY <1>1 DEF HistoryOK
<1> QED
  BY <1>1, <1>2, <1>3, <1>4 DEF HistoryOK, DeltaIsDistance

\* Moving to another entry, which is taken note of at once.
LEMMA TraversedOK ==
  ASSUME HistoryOK, NEW i \in DOMAIN entries, index' = i, entries' = entries,
         currentLocation' = entries[i].location, historyPosition' = entries[i].position
  PROVE  HistoryOK'
<1>1. entries[i] \in Entry
  BY DEF HistoryOK
<1> QED
  BY <1>1 DEF HistoryOK, DeltaIsDistance, Entry

LEMMA NewNavigationType ==
  ASSUME NEW l \in Locations, NEW isPush \in BOOLEAN, NEW delta \in Int,
         NEW opts \in [replace: BOOLEAN, force: BOOLEAN]
  PROVE  newNavigation(l, isPush, delta, opts) \in Navigation
  BY BoundsAssumption DEF newNavigation, Navigation, Outcomes

\* A set of navigations that are still under way.
Remaining(others) ==
  DOMAIN others \subseteq Ids /\ others \in [DOMAIN others -> Navigation]

LEMMA RemainingAll == PendingOK => Remaining(navigations)
  BY DEF PendingOK, Remaining, Ids

LEMMA RemainingWithout == ASSUME PendingOK, NEW n PROVE Remaining(without(n))
  BY DEF PendingOK, Remaining, without, Ids

LEMMA StartOK ==
  ASSUME PendingOK, AppOK, NEW others, Remaining(others), NEW navigation \in Navigation,
         start(others, navigation)
  PROVE  PendingOK' /\ started' = started + 1 /\ adrift' \in BOOLEAN
<1>1. /\ started < MaxNavigations /\ started' = started + 1
      /\ pendingLocation' = started + 1
      /\ navigations' = [m \in DOMAIN others \cup {started + 1} |->
                          IF m = started + 1 THEN navigation ELSE others[m]]
      /\ adrift' = (adrift \/ supersedesPop)
  BY DEF start
<1>2. DOMAIN navigations' = DOMAIN others \cup {started + 1}
  BY <1>1
<1>3. Ids' \subseteq 1..started'
  BY <1>1, <1>2 DEF PendingOK, Remaining, Ids
<1>4. navigations' \in [Ids' -> Navigation]
  BY <1>1, <1>2 DEF Remaining, Ids
<1>5. started' \in 0..MaxNavigations
  BY <1>1, BoundsAssumption DEF PendingOK
<1>6. adrift' \in BOOLEAN
  BY <1>1 DEF AppOK
<1> QED
  BY <1>1, <1>3, <1>4, <1>5, <1>6 DEF PendingOK

LEMMA DuplicateOK ==
  ASSUME PendingOK, AppOK, NEW others, Remaining(others), duplicate(others)
  PROVE  PendingOK' /\ started' = started + 1 /\ adrift' \in BOOLEAN
<1>1. /\ started < MaxNavigations /\ started' = started + 1
      /\ pendingLocation' = started + 1 /\ navigations' = others
      /\ adrift' = (adrift \/ supersedesPop)
  BY DEF duplicate
<1>2. Ids' \subseteq 1..started' /\ navigations' \in [Ids' -> Navigation]
  BY <1>1 DEF PendingOK, Remaining, Ids
<1>3. started' \in 0..MaxNavigations
  BY <1>1, BoundsAssumption DEF PendingOK
<1>4. adrift' \in BOOLEAN
  BY <1>1 DEF AppOK
<1> QED
  BY <1>1, <1>2, <1>3, <1>4 DEF PendingOK

LEMMA PushWithRedirectOK ==
  ASSUME PendingOK, AppOK, NEW others, Remaining(others), NEW l \in Locations,
         NEW opts \in [replace: BOOLEAN, force: BOOLEAN],
         pushWithRedirect(others, l, opts)
  PROVE  PendingOK' /\ started' = started + 1 /\ adrift' \in BOOLEAN /\ tangled' \in BOOLEAN
<1>1. tangled' \in BOOLEAN
  BY DEF pushWithRedirect, AppOK
<1>2. newNavigation(l, TRUE, 0, opts) \in Navigation
  <2>1. TRUE \in BOOLEAN /\ 0 \in Int
    OBVIOUS
  <2> QED BY <2>1, NewNavigationType
<1>3. CASE start(others, newNavigation(l, TRUE, 0, opts))
  BY <1>1, <1>2, <1>3, StartOK
<1>4. CASE duplicate(others)
  BY <1>1, <1>4, DuplicateOK
<1> QED
  BY <1>3, <1>4 DEF pushWithRedirect

\* A route shown before stays one when more navigations are started.
LEMMA RouteKept ==
  ASSUME PendingOK, RouteOK, currentRoute' = currentRoute, started' \in {started, started + 1}
  PROVE  RouteOK'
  BY DEF PendingOK, RouteOK

LEMMA WithoutOK ==
  ASSUME PendingOK, NEW n, navigations' = without(n), started' = started,
         pendingLocation' = pendingLocation
  PROVE  PendingOK'
  BY DEF PendingOK, without, Ids
------------------------------------------------------------------------------
\* One step for each action

LEMMA ByPush ==
  ASSUME IInv, NEW l \in Locations, NEW opts \in Options, push(l, opts) PROVE IInv'
<1>1. /\ pushWithRedirect(navigations, l, opts)
      /\ UNCHANGED <<browser, html5, currentRoute, app>>
  BY DEF push
<1>2. opts \in [replace: BOOLEAN, force: BOOLEAN]
  BY OptionsAssumption
<1>3. PendingOK' /\ started' = started + 1 /\ adrift' \in BOOLEAN /\ tangled' \in BOOLEAN
  BY <1>1, <1>2, RemainingAll, PushWithRedirectOK DEF IInv
<1>4. HistoryOK'
  BY <1>1 DEF IInv, HistoryOK, DeltaIsDistance, browser, html5
<1>5. TraversalsOK'
  BY <1>1 DEF IInv, TraversalsOK, browser, html5
<1>6. RouteOK'
  BY <1>1, <1>3, RouteKept DEF IInv
<1>7. AppOK'
  BY <1>1, <1>3 DEF IInv, AppOK, app
<1> QED
  BY <1>3, <1>4, <1>5, <1>6, <1>7 DEF IInv

LEMMA ByInstall == ASSUME IInv, Install PROVE IInv'
<1>1. /\ mounted' = TRUE
      /\ UNCHANGED <<browser, html5, currentRoute, ready, listening, gos, unmounts>>
  BY DEF Install
<1>2. HistoryOK' /\ TraversalsOK'
  BY <1>1 DEF IInv, HistoryOK, DeltaIsDistance, TraversalsOK, browser, html5
<1>3. CASE pushWithRedirect(navigations, currentLocation, NoOptions)
  <2>1. NoOptions \in [replace: BOOLEAN, force: BOOLEAN] /\ currentLocation \in Locations
    BY DEF NoOptions, IInv, HistoryOK
  <2>2. PendingOK' /\ started' = started + 1 /\ adrift' \in BOOLEAN /\ tangled' \in BOOLEAN
    BY <1>3, <2>1, RemainingAll, PushWithRedirectOK DEF IInv
  <2>3. RouteOK'
    BY <1>1, <2>2, RouteKept DEF IInv
  <2>4. AppOK'
    BY <1>1, <2>2 DEF IInv, AppOK
  <2> QED BY <1>2, <2>2, <2>3, <2>4 DEF IInv
<1>4. CASE UNCHANGED <<pending, history>>
  <2>1. PendingOK' /\ RouteOK'
    BY <1>1, <1>4 DEF IInv, PendingOK, RouteOK, pending, Ids
  <2>2. AppOK'
    BY <1>1, <1>4 DEF IInv, AppOK, history
  <2> QED BY <1>2, <2>1, <2>2 DEF IInv
<1> QED
  BY <1>3, <1>4 DEF Install

LEMMA ByUnmount == ASSUME IInv, Unmount PROVE IInv'
<1>1. /\ unmounts < MaxUnmounts /\ unmounts' = unmounts + 1
      /\ mounted' = FALSE /\ ready' = FALSE /\ listening' = FALSE
      /\ pendingLocation' = START.id /\ currentRoute' = START
      /\ UNCHANGED <<browser, html5, started, navigations, gos, history>>
  BY DEF Unmount
<1>2. HistoryOK' /\ TraversalsOK'
  BY <1>1 DEF IInv, HistoryOK, DeltaIsDistance, TraversalsOK, browser, html5
<1>3. PendingOK' /\ RouteOK'
  BY <1>1 DEF IInv, PendingOK, RouteOK, Ids
<1>4. AppOK'
  <2>1. unmounts' \in 0..MaxUnmounts /\ gos' \in 0..MaxGos
    BY <1>1, BoundsAssumption DEF IInv, AppOK
  <2> QED BY <1>1, <2>1 DEF IInv, AppOK, history
<1> QED
  BY <1>2, <1>3, <1>4 DEF IInv

LEMMA ByGuardsPass == ASSUME IInv, NEW n \in Ids, GuardsPass(n) PROVE IInv'
<1>1. UNCHANGED <<browser, html5, started, pendingLocation, currentRoute, app, history>>
  BY DEF GuardsPass
<1>2. HistoryOK' /\ TraversalsOK' /\ RouteOK'
  BY <1>1 DEF IInv, HistoryOK, DeltaIsDistance, TraversalsOK, RouteOK, browser, html5
<1>3. AppOK'
  BY <1>1 DEF IInv, AppOK, app, history
<1>4. PendingOK'
  <2>1. CASE navigations' = without(n)
    BY <1>1, <2>1, WithoutOK DEF IInv
  <2>2. CASE navigations' = answer(n, "passed")
    BY <1>1, <2>2 DEF IInv, PendingOK, answer, Ids, Navigation, Outcomes
  <2>3. CASE /\ navigations[n].phase # Phases
             /\ navigations' = [navigations EXCEPT ![n].phase = @ + 1]
    <3>1. navigations[n].phase + 1 \in 1..Phases
      BY <2>3, BoundsAssumption DEF IInv, PendingOK, Navigation, Ids
    <3> QED BY <1>1, <2>3, <3>1 DEF IInv, PendingOK, Ids, Navigation
  <2> QED BY <2>1, <2>2, <2>3 DEF GuardsPass
<1> QED
  BY <1>2, <1>3, <1>4 DEF IInv

LEMMA ByGuardRefuses == ASSUME IInv, NEW n \in Ids, GuardRefuses(n) PROVE IInv'
<1>1. UNCHANGED <<browser, html5, started, pendingLocation, currentRoute, app, history>>
  BY DEF GuardRefuses
<1>2. HistoryOK' /\ TraversalsOK' /\ RouteOK'
  BY <1>1 DEF IInv, HistoryOK, DeltaIsDistance, TraversalsOK, RouteOK, browser, html5
<1>3. AppOK'
  BY <1>1 DEF IInv, AppOK, app, history
<1>4. PICK outcome \in {"aborted", "error", "redirect"} : navigations' = answer(n, outcome)
  BY DEF GuardRefuses
<1>5. PendingOK'
  BY <1>1, <1>4 DEF IInv, PendingOK, answer, Ids, Navigation, Outcomes
<1> QED
  BY <1>2, <1>3, <1>5 DEF IInv

LEMMA MarkAsReadyOK ==
  ASSUME AppOK, NEW failed \in BOOLEAN, markAsReady(failed),
         adrift' \in BOOLEAN, tangled' \in BOOLEAN
  PROVE  AppOK'
  BY DEF AppOK, markAsReady

LEMMA ByFinalize == ASSUME IInv, NEW n \in Ids, Finalize(n) PROVE IInv'
<1>1. /\ pendingLocation = n
      /\ currentRoute' = [id |-> n, location |-> navigations[n].to]
      /\ navigations' = without(n)
      /\ markAsReady(FALSE) /\ adrift' = FALSE
      /\ UNCHANGED <<traversals, pauseState, started, pendingLocation, tangled>>
  BY DEF Finalize
<1>2. navigations[n] \in Navigation /\ navigations[n].to \in Locations
  BY DEF IInv, PendingOK, Navigation
<1>3. HistoryOK'
  <2>1. CASE UNCHANGED <<entries, index, currentLocation, historyPosition>>
    BY <2>1 DEF IInv, HistoryOK, DeltaIsDistance
  <2>2. CASE historyReplace(navigations[n].to)
    BY <1>2, <2>2, HistoryReplaceOK DEF IInv
  <2>3. CASE historyPush(navigations[n].to)
    BY <1>2, <2>3, HistoryPushOK DEF IInv
  <2> QED BY <2>1, <2>2, <2>3 DEF Finalize
<1>4. PendingOK'
  BY <1>1, WithoutOK DEF IInv
<1>5. TraversalsOK'
  BY <1>1 DEF IInv, TraversalsOK
<1>6. RouteOK'
  BY <1>1, <1>2 DEF IInv, PendingOK, RouteOK
<1>7. AppOK'
  <2>1. adrift' \in BOOLEAN /\ tangled' \in BOOLEAN /\ FALSE \in BOOLEAN
    BY <1>1 DEF IInv, AppOK
  <2> QED BY <1>1, <2>1, MarkAsReadyOK DEF IInv
<1> QED
  BY <1>3, <1>4, <1>5, <1>6, <1>7 DEF IInv

LEMMA ByCancel == ASSUME IInv, NEW n \in Ids, Cancel(n) PROVE IInv'
<1>1. /\ navigations' = without(n)
      /\ UNCHANGED <<browser, html5, started, pendingLocation, currentRoute, app, history>>
  BY DEF Cancel
<1>2. HistoryOK' /\ TraversalsOK' /\ RouteOK'
  BY <1>1 DEF IInv, HistoryOK, DeltaIsDistance, TraversalsOK, RouteOK, browser, html5
<1>3. AppOK'
  BY <1>1 DEF IInv, AppOK, app, history
<1>4. PendingOK'
  BY <1>1, WithoutOK DEF IInv
<1> QED
  BY <1>2, <1>3, <1>4 DEF IInv

LEMMA ByFail == ASSUME IInv, NEW n \in Ids, Fail(n) PROVE IInv'
<1>1. /\ navigations' = without(n)
      /\ UNCHANGED <<entries, index, currentLocation, historyPosition, started,
                     pendingLocation, currentRoute, adrift>>
  BY DEF Fail
<1>2. navigations[n] \in Navigation /\ navigations[n].delta \in Int
  BY DEF IInv, PendingOK, Navigation
<1>3. HistoryOK' /\ RouteOK'
  BY <1>1 DEF IInv, HistoryOK, DeltaIsDistance, RouteOK
<1>4. PendingOK'
  BY <1>1, WithoutOK DEF IInv
<1>5. TraversalsOK' /\ tangled' \in BOOLEAN
  <2>1. CASE UNCHANGED <<traversals, pauseState, tangled>>
    BY <2>1 DEF IInv, TraversalsOK, AppOK
  <2>2. CASE /\ revert(navigations[n].delta)
             /\ tangled' = (tangled \/ pendingLocation # n \/ traversals # <<>>)
    <3>1. [delta |-> -navigations[n].delta, silent |-> TRUE] \in [delta: Int, silent: BOOLEAN]
      BY <1>2
    <3>2. traversals' \in Seq([delta: Int, silent: BOOLEAN])
      BY <2>2, <3>1, AppendProperties DEF revert, IInv, TraversalsOK
    <3>3. pauseState' \in Locations \cup {NoLocation}
      BY <2>2 DEF revert, IInv, HistoryOK
    <3>4. tangled' \in BOOLEAN
      BY <2>2 DEF IInv, AppOK
    <3> QED BY <3>2, <3>3, <3>4 DEF TraversalsOK
  <2> QED BY <2>1, <2>2 DEF Fail
<1>6. AppOK'
  <2>1. CASE markAsReady(TRUE)
    <3>1. adrift' \in BOOLEAN /\ TRUE \in BOOLEAN
      BY <1>1 DEF IInv, AppOK
    <3> QED BY <1>5, <2>1, <3>1, MarkAsReadyOK DEF IInv
  <2>2. CASE UNCHANGED app
    BY <1>1, <1>5, <2>2 DEF IInv, AppOK, app
  <2> QED BY <2>1, <2>2 DEF Fail
<1> QED
  BY <1>3, <1>4, <1>5, <1>6 DEF IInv

LEMMA ByRedirect == ASSUME IInv, NEW n \in Ids, Redirect(n) PROVE IInv'
<1>1. UNCHANGED <<browser, html5, currentRoute, app>>
  BY DEF Redirect
<1>2. PICK l \in Locations :
        pushWithRedirect(without(n), l,
          IF navigations[n].isPush
            THEN [replace |-> navigations[n].replace, force |-> navigations[n].force]
            ELSE NoOptions)
  BY DEF Redirect
<1>3. (IF navigations[n].isPush
         THEN [replace |-> navigations[n].replace, force |-> navigations[n].force]
         ELSE NoOptions) \in [replace: BOOLEAN, force: BOOLEAN]
  BY DEF IInv, PendingOK, Navigation, NoOptions
<1>4. PendingOK' /\ started' = started + 1 /\ adrift' \in BOOLEAN /\ tangled' \in BOOLEAN
  BY <1>2, <1>3, RemainingWithout, PushWithRedirectOK DEF IInv
<1>5. HistoryOK' /\ TraversalsOK'
  BY <1>1 DEF IInv, HistoryOK, DeltaIsDistance, TraversalsOK, browser, html5
<1>6. RouteOK'
  BY <1>1, <1>4, RouteKept DEF IInv
<1>7. AppOK'
  BY <1>1, <1>4 DEF IInv, AppOK, app
<1> QED
  BY <1>4, <1>5, <1>6, <1>7 DEF IInv

LEMMA ByGo == ASSUME IInv, NEW delta \in Deltas, Go(delta) PROVE IInv'
<1>1. /\ gos < MaxGos /\ gos' = gos + 1
      /\ traversals' = Append(traversals, [delta |-> delta, silent |-> FALSE])
      /\ UNCHANGED <<entries, index, html5, pending, currentRoute,
                     ready, listening, mounted, unmounts, history>>
  BY DEF Go
<1>2. HistoryOK' /\ PendingOK' /\ RouteOK'
  BY <1>1 DEF IInv, HistoryOK, DeltaIsDistance, PendingOK, RouteOK, html5, pending, Ids
<1>3. TraversalsOK'
  <2>1. [delta |-> delta, silent |-> FALSE] \in [delta: Int, silent: BOOLEAN]
    BY DeltasAssumption
  <2>2. traversals' \in Seq([delta: Int, silent: BOOLEAN])
    BY <1>1, <2>1, AppendProperties DEF IInv, TraversalsOK
  <2> QED BY <1>1, <2>2 DEF IInv, TraversalsOK, html5
<1>4. AppOK'
  <2>1. gos' \in 0..MaxGos
    BY <1>1, BoundsAssumption DEF IInv, AppOK
  <2> QED BY <1>1, <2>1 DEF IInv, AppOK, history
<1> QED
  BY <1>2, <1>3, <1>4 DEF IInv

LEMMA ByTraverse == ASSUME IInv, Traverse PROVE IInv'
<1> DEFINE i == index + Head(traversals).delta
<1>1. /\ traversals # <<>> /\ traversals' = Tail(traversals)
      /\ UNCHANGED <<entries, currentRoute, app>>
  BY DEF Traverse
<1>2. traversals' \in Seq([delta: Int, silent: BOOLEAN])
  BY <1>1, HeadTailProperties DEF IInv, TraversalsOK
<1>3. CASE UNCHANGED <<index, html5, pending, history>>
  <2>1. HistoryOK' /\ TraversalsOK'
    BY <1>1, <1>2, <1>3 DEF IInv, HistoryOK, DeltaIsDistance, TraversalsOK, html5
  <2>2. PendingOK' /\ RouteOK' /\ AppOK'
    BY <1>1, <1>3 DEF IInv, PendingOK, RouteOK, AppOK, app, history, pending, Ids
  <2> QED BY <2>1, <2>2 DEF IInv
<1>4. CASE i \in DOMAIN entries /\ index' = i /\ popStateHandler
  <2>1. /\ currentLocation' = entries[i].location
        /\ historyPosition' = entries[i].position
    BY <1>4 DEF popStateHandler
  <2>2. HistoryOK'
    <3> HIDE DEF i
    <3> QED BY <1>1, <1>4, <2>1, TraversedOK DEF IInv
  <2>3. CASE UNCHANGED <<pending, history>> /\ pauseState' \in {pauseState, NoLocation}
    <3>1. TraversalsOK'
      BY <1>2, <2>3 DEF IInv, TraversalsOK
    <3>2. PendingOK' /\ RouteOK' /\ AppOK'
      BY <1>1, <2>3 DEF IInv, PendingOK, RouteOK, AppOK, app, history, pending, Ids
    <3> QED BY <2>2, <3>1, <3>2 DEF IInv
  <2>4. CASE /\ start(navigations, newNavigation(entries[i].location, FALSE,
                                  entries[i].position - historyPosition, NoOptions))
             /\ UNCHANGED <<pauseState, tangled>>
    <3>1. entries[i] \in Entry
      BY <1>4 DEF IInv, HistoryOK
    <3>2. /\ entries[i].location \in Locations
          /\ entries[i].position - historyPosition \in Int
          /\ NoOptions \in [replace: BOOLEAN, force: BOOLEAN] /\ FALSE \in BOOLEAN
      BY <3>1 DEF Entry, IInv, HistoryOK, NoOptions
    <3> HIDE DEF i
    <3>3. newNavigation(entries[i].location, FALSE,
                        entries[i].position - historyPosition, NoOptions) \in Navigation
      BY <3>2, NewNavigationType
    <3>4. PendingOK' /\ started' = started + 1 /\ adrift' \in BOOLEAN
      BY <2>4, <3>3, RemainingAll, StartOK DEF IInv
    <3>5. RouteOK'
      BY <1>1, <3>4, RouteKept DEF IInv
    <3>6. TraversalsOK'
      BY <1>2, <2>4 DEF IInv, TraversalsOK
    <3>7. AppOK'
      BY <1>1, <2>4, <3>4 DEF IInv, AppOK, app
    <3> QED BY <2>2, <3>4, <3>5, <3>6, <3>7 DEF IInv
  <2> QED
    BY <1>4, <2>3, <2>4 DEF popStateHandler
<1> QED
  BY <1>3, <1>4 DEF Traverse
------------------------------------------------------------------------------
LEMMA NextIInv == IInv /\ [Next]_vars => IInv'
<1> SUFFICES ASSUME IInv, [Next]_vars PROVE IInv'
  OBVIOUS
<1>1. CASE \E l \in Locations, opts \in Options : push(l, opts)
  BY <1>1, ByPush
<1>2. CASE Install \/ Unmount
  BY <1>2, ByInstall, ByUnmount
<1>3. CASE \E delta \in Deltas : Go(delta)
  BY <1>3, ByGo
<1>4. CASE Traverse
  BY <1>4, ByTraverse
<1>5. CASE \E n \in Ids : GuardsPass(n) \/ GuardRefuses(n)
  BY <1>5, ByGuardsPass, ByGuardRefuses
<1>6. CASE \E n \in Ids : Settle(n)
  BY <1>6, ByFinalize, ByCancel, ByFail, ByRedirect DEF Settle
<1>7. CASE UNCHANGED vars
  <2>1. HistoryOK' /\ TraversalsOK'
    BY <1>7 DEF vars, browser, html5, IInv, HistoryOK, DeltaIsDistance, TraversalsOK
  <2>2. PendingOK' /\ RouteOK' /\ AppOK'
    BY <1>7 DEF vars, pending, app, history, IInv, PendingOK, RouteOK, AppOK, Ids
  <2> QED BY <2>1, <2>2 DEF IInv
<1> QED
  BY <1>1, <1>2, <1>3, <1>4, <1>5, <1>6, <1>7 DEF Next

\* The inductive invariant holds.
THEOREM Invariance == Spec => []IInv
  BY InitIInv, NextIInv, PTL DEF Spec

\* The state of the router and of the history is well formed.
THEOREM TypeCorrect == Spec => []TypeOK
  BY Invariance, InvType, PTL

\* html5.ts knows where the history is, and its deltas are true distances.
THEOREM DeltasAreDistances == Spec => []DeltaIsDistance
<1>1. IInv => DeltaIsDistance
  BY DEF IInv, HistoryOK
<1> QED
  BY <1>1, Invariance, PTL

\* Only finalizeNavigation() shows a navigation, that of the pending one; and
\* the pending one is the newest.
LEMMA StepNewestWins ==
  ASSUME IInv, [Next]_vars, currentRoute' # currentRoute
  PROVE  currentRoute'.id \in {START.id, started'}
<1>1. ASSUME NEW n \in Ids, Finalize(n) PROVE currentRoute'.id = started'
  <2>1. n # START.id /\ pendingLocation \in {START.id, started}
    BY DEF IInv, PendingOK, START
  <2> QED BY <1>1, <2>1 DEF Finalize
<1>2. ASSUME Unmount PROVE currentRoute'.id = START.id
  BY <1>2 DEF Unmount
<1>3. ASSUME NEW n \in Ids,
             GuardsPass(n) \/ GuardRefuses(n) \/ Cancel(n) \/ Fail(n) \/ Redirect(n)
      PROVE  FALSE
  BY <1>3 DEF GuardsPass, GuardRefuses, Cancel, Fail, Redirect
<1>4. ASSUME Install \/ Traverse \/ UNCHANGED vars PROVE FALSE
  BY <1>4 DEF Install, Traverse, vars
<1>5. ASSUME NEW l \in Locations, NEW opts \in Options, push(l, opts) PROVE FALSE
  BY <1>5 DEF push
<1>6. ASSUME NEW delta \in Deltas, Go(delta) PROVE FALSE
  BY <1>6 DEF Go
<1> QED
  BY <1>1, <1>2, <1>3, <1>4, <1>5, <1>6 DEF Next, Settle

\* However late its guards answer, an older navigation never replaces a newer
\* one, and none that was under way at an unmount is ever shown.
THEOREM NewestIsShown == Spec => NewestWins
<1>1. IInv /\ [Next]_vars => [currentRoute' # currentRoute => currentRoute'.id \in {START.id, started'}]_vars
  BY StepNewestWins
<1> QED
  BY <1>1, Invariance, PTL DEF Spec, NewestWins
------------------------------------------------------------------------------
(* The URL is that of the route that is shown.  Until something tangles the  *)
(* history, three situations follow one another, each with its own promise:  *)
(* a popstate navigation is pending: the entry it came from shows the route; *)
(* it was refused: the way back leads to that entry, and is not listened to; *)
(* otherwise the current entry is the one that shows the route.              *)

\* A route that is shown, and whose popstate was not given up, is at l.
Shown(l) == currentRoute # START /\ ~adrift => l = currentRoute.location

\* The next traversal is the way back of a popstate that was refused.
Reverting == traversals # <<>> /\ Head(traversals).silent

QueueOK == \A i \in 2..Len(traversals) : ~traversals[i].silent

LeadsBack(i) == i \in DOMAIN entries /\ Shown(entries[i].location)

RevertOK ==
  Reverting => /\ pauseState = currentLocation /\ pendingLocation \notin Ids
               /\ LeadsBack(index + Head(traversals).delta)

PopOK ==
  ~Reverting /\ supersedesPop =>
    /\ Url = navigations[pendingLocation].to
    /\ LeadsBack(index - navigations[pendingLocation].delta)

RestOK == ~Reverting /\ ~supersedesPop => Shown(Url)

PauseOK == ~Reverting => pauseState = NoLocation

InOrder == ~tangled => QueueOK /\ RevertOK /\ PopOK /\ RestOK /\ PauseOK

\* A popstate navigation is only started, and a route only shown, by a router
\* that listens; it goes on listening until it is unmounted.
ListenOK ==
  /\ currentRoute # START => ready
  /\ ready => listening
  /\ supersedesPop => listening

URLInv == ListenOK /\ InOrder

LEMMA InitURLInv == Init => URLInv
  BY DEF Init, URLInv, ListenOK, InOrder, QueueOK, RevertOK, PopOK, RestOK, PauseOK,
         Reverting, Shown, supersedesPop, Ids

\* The pending navigation stays what it is, or is none that a popstate started.
SamePending ==
  /\ pendingLocation' = pendingLocation /\ Ids' \subseteq Ids
  /\ supersedesPop' = supersedesPop
  /\ supersedesPop => /\ navigations'[pendingLocation].to = navigations[pendingLocation].to
                      /\ navigations'[pendingLocation].delta = navigations[pendingLocation].delta

\* What does not touch the pending navigation, nor the next traversal.
LEMMA InOrderKept ==
  ASSUME InOrder, SamePending, QueueOK => QueueOK', Reverting' = Reverting,
         Reverting => Head(traversals') = Head(traversals),
         UNCHANGED <<entries, index, html5, currentRoute, history>>
  PROVE  InOrder'
<1> SUFFICES ASSUME ~tangled' PROVE QueueOK' /\ RevertOK' /\ PopOK' /\ RestOK' /\ PauseOK'
  BY DEF InOrder
<1>1. ~tangled /\ QueueOK /\ RevertOK /\ PopOK /\ RestOK /\ PauseOK
  BY DEF InOrder, history
<1>2. /\ entries' = entries /\ index' = index /\ currentLocation' = currentLocation
      /\ pauseState' = pauseState /\ currentRoute' = currentRoute /\ adrift' = adrift
  BY DEF html5, history
<1>3. \A i : LeadsBack(i) => LeadsBack(i)'
  BY <1>2 DEF LeadsBack, Shown
<1>4. Shown(Url) => Shown(Url)'
  BY <1>2 DEF Shown, Url
<1>5. RevertOK'
  BY <1>1, <1>2, <1>3 DEF RevertOK, SamePending, LeadsBack, Shown
<1>6. PopOK'
  BY <1>1, <1>2, <1>3 DEF PopOK, SamePending, LeadsBack, Shown, Url
<1>7. RestOK' /\ PauseOK'
  BY <1>1, <1>2, <1>4 DEF RestOK, PauseOK, SamePending
<1> QED
  BY <1>1, <1>5, <1>6, <1>7

\* A push supersedes what is pending; a popstate that was is given up.
LEMMA URLByPushWithRedirect ==
  ASSUME IInv, URLInv, NEW others, Remaining(others), NEW l, NEW opts,
         pushWithRedirect(others, l, opts),
         UNCHANGED <<browser, html5, currentRoute, ready, listening>>
  PROVE  URLInv'
<1>1. /\ tangled' = (tangled \/ \E i \in DOMAIN traversals : traversals[i].silent)
      /\ \/ start(others, newNavigation(l, TRUE, 0, opts))
         \/ duplicate(others)
  BY DEF pushWithRedirect
<1>2. adrift' = (adrift \/ supersedesPop)
  BY <1>1 DEF start, duplicate
<1>3. ~supersedesPop'
  <2>1. started + 1 \notin Ids /\ DOMAIN others \subseteq Ids
    BY DEF IInv, PendingOK, Remaining
  <2>2. CASE start(others, newNavigation(l, TRUE, 0, opts))
    <3>1. pendingLocation' = started + 1 /\ navigations'[started + 1].isPush
      BY <2>2 DEF start, newNavigation
    <3> QED BY <3>1 DEF supersedesPop
  <2>3. CASE duplicate(others)
    BY <2>1, <2>3 DEF duplicate, supersedesPop, Ids
  <2> QED BY <1>1, <2>2, <2>3
<1>4. ListenOK'
  BY <1>3 DEF URLInv, ListenOK
<1>5. ASSUME ~tangled' PROVE QueueOK' /\ RevertOK' /\ PopOK' /\ RestOK' /\ PauseOK'
  <2>1. ~tangled /\ QueueOK /\ RestOK /\ PauseOK
    BY <1>1, <1>5 DEF URLInv, InOrder
  <2>2. traversals' = traversals /\ \A i \in DOMAIN traversals : ~traversals[i].silent
    BY <1>1, <1>5 DEF browser
  <2>3. ~Reverting /\ ~Reverting'
    BY <2>2, EmptySeq, HeadTailProperties DEF Reverting, IInv, TraversalsOK
  <2>4. QueueOK' /\ RevertOK' /\ PopOK' /\ PauseOK'
    BY <1>3, <2>1, <2>2, <2>3 DEF QueueOK, RevertOK, PopOK, PauseOK, html5
  <2>5. RestOK'
    BY <1>2, <2>1, <2>3 DEF RestOK, Shown, Url, browser
  <2> QED BY <2>4, <2>5
<1> QED
  BY <1>4, <1>5 DEF URLInv, InOrder

LEMMA URLByPush ==
  ASSUME IInv, URLInv, NEW l \in Locations, NEW opts \in Options, push(l, opts) PROVE URLInv'
<1>1. Remaining(navigations)
  BY RemainingAll DEF IInv
<1> QED
  BY <1>1, URLByPushWithRedirect DEF push, app

LEMMA URLByInstall == ASSUME IInv, URLInv, Install PROVE URLInv'
<1>1. UNCHANGED <<browser, html5, currentRoute, ready, listening>>
  BY DEF Install
<1>2. CASE pushWithRedirect(navigations, currentLocation, NoOptions)
  <2>1. Remaining(navigations)
    BY RemainingAll DEF IInv
  <2> QED BY <1>1, <1>2, <2>1, URLByPushWithRedirect
<1>3. CASE UNCHANGED <<pending, history>>
  <2>1. SamePending
    BY <1>3 DEF SamePending, supersedesPop, pending, Ids
  <2>2. (QueueOK => QueueOK') /\ Reverting' = Reverting /\ traversals' = traversals
    BY <1>1 DEF QueueOK, Reverting, browser
  <2>3. InOrder'
    BY <1>1, <1>3, <2>1, <2>2, InOrderKept DEF URLInv, browser
  <2>4. ListenOK'
    BY <1>1, <2>1 DEF URLInv, ListenOK, SamePending
  <2> QED BY <2>3, <2>4 DEF URLInv
<1> QED
  BY <1>2, <1>3 DEF Install

LEMMA URLByRedirect == ASSUME IInv, URLInv, NEW n \in Ids, Redirect(n) PROVE URLInv'
<1>1. Remaining(without(n))
  BY RemainingWithout DEF IInv
<1>2. \E l, opts : pushWithRedirect(without(n), l, opts)
  BY DEF Redirect
<1> QED
  BY <1>1, <1>2, URLByPushWithRedirect DEF Redirect, app

\* After an unmount no route is shown.
LEMMA URLByUnmount == ASSUME IInv, URLInv, Unmount PROVE URLInv'
<1>1. /\ pendingLocation' = START.id /\ currentRoute' = START /\ ready' = FALSE
      /\ UNCHANGED <<browser, html5, started, navigations, gos, history>>
  BY DEF Unmount
<1>2. pendingLocation' \notin Ids' /\ ~supersedesPop'
  BY <1>1 DEF IInv, PendingOK, START, Ids, supersedesPop
<1>3. ListenOK'
  BY <1>1, <1>2 DEF ListenOK
<1>4. \A l : Shown(l)'
  BY <1>1 DEF Shown
<1>5. ASSUME ~tangled' PROVE QueueOK' /\ RevertOK' /\ PopOK' /\ RestOK' /\ PauseOK'
  <2>1. ~tangled /\ QueueOK /\ RevertOK /\ PauseOK /\ Reverting' = Reverting
    BY <1>1, <1>5 DEF URLInv, InOrder, history, browser, Reverting
  <2>2. QueueOK' /\ PauseOK'
    BY <1>1, <2>1 DEF QueueOK, PauseOK, browser, html5
  <2>3. RevertOK'
    BY <1>1, <1>2, <1>4, <2>1 DEF RevertOK, LeadsBack, browser, html5
  <2>4. PopOK' /\ RestOK'
    BY <1>2, <1>4 DEF PopOK, RestOK
  <2> QED BY <2>2, <2>3, <2>4
<1> QED
  BY <1>3, <1>5 DEF URLInv, InOrder

\* What only guards and their answers change.
LEMMA URLBySamePending ==
  ASSUME URLInv, SamePending, UNCHANGED <<browser, html5, currentRoute, history>>,
         currentRoute # START => ready', ready' => listening', listening => listening'
  PROVE  URLInv'
<1>1. (QueueOK => QueueOK') /\ Reverting' = Reverting /\ traversals' = traversals
  BY DEF QueueOK, Reverting, browser
<1>2. InOrder'
  BY <1>1, InOrderKept DEF URLInv, browser
<1>3. ListenOK'
  BY DEF URLInv, ListenOK, SamePending
<1> QED
  BY <1>2, <1>3 DEF URLInv

LEMMA AnswerSamePending ==
  ASSUME IInv, NEW n \in Ids, NEW nav,
         nav.to = navigations[n].to, nav.delta = navigations[n].delta,
         nav.isPush = navigations[n].isPush,
         navigations' = [navigations EXCEPT ![n] = nav], pendingLocation' = pendingLocation
  PROVE  SamePending
<1>1. /\ Ids' = Ids
      /\ \A m \in Ids : navigations'[m] = IF m = n THEN nav ELSE navigations[m]
  BY DEF IInv, PendingOK, Ids
<1>2. supersedesPop' = supersedesPop
  BY <1>1 DEF supersedesPop, Ids
<1> QED
  BY <1>1, <1>2 DEF SamePending, supersedesPop

LEMMA WithoutSamePending ==
  ASSUME IInv, NEW n \in Ids, n # pendingLocation \/ navigations[n].isPush,
         navigations' = without(n), pendingLocation' = pendingLocation
  PROVE  SamePending
<1>1. Ids' = Ids \ {n} /\ \A m \in Ids \ {n} : navigations'[m] = navigations[m]
  BY DEF without, Ids
<1>2. supersedesPop' = supersedesPop
  BY <1>1 DEF supersedesPop, Ids
<1> QED
  BY <1>1, <1>2 DEF SamePending, supersedesPop

LEMMA URLByGuards ==
  ASSUME IInv, URLInv, NEW n \in Ids, GuardsPass(n) \/ GuardRefuses(n) \/ Cancel(n)
  PROVE  URLInv'
<1>1. UNCHANGED <<browser, html5, started, pendingLocation, currentRoute, app, history>>
  BY DEF GuardsPass, GuardRefuses, Cancel
<1>2. navigations[n] \in Navigation /\ navigations \in [Ids -> Navigation]
  BY DEF IInv, PendingOK
<1>3. SamePending
  <2>1. CASE navigations' = without(n) /\ pendingLocation # n
    BY <1>1, <2>1, WithoutSamePending
  <2>2. ASSUME NEW outcome, navigations' = answer(n, outcome) PROVE SamePending
    <3>1. navigations' = [navigations EXCEPT ![n] = [navigations[n] EXCEPT !.outcome = outcome]]
      BY <1>2, <2>2 DEF answer
    <3> DEFINE nav == [navigations[n] EXCEPT !.outcome = outcome]
    <3>2. /\ nav.to = navigations[n].to /\ nav.delta = navigations[n].delta
          /\ nav.isPush = navigations[n].isPush
      BY <1>2 DEF Navigation
    <3> HIDE DEF nav
    <3> QED BY <1>1, <3>1, <3>2, AnswerSamePending DEF nav
  <2>3. CASE navigations' = [navigations EXCEPT ![n].phase = @ + 1]
    <3> DEFINE nav == [navigations[n] EXCEPT !.phase = @ + 1]
    <3>1. navigations' = [navigations EXCEPT ![n] = nav]
      BY <1>2, <2>3
    <3>2. /\ nav.to = navigations[n].to /\ nav.delta = navigations[n].delta
          /\ nav.isPush = navigations[n].isPush
      BY <1>2 DEF Navigation
    <3> HIDE DEF nav
    <3> QED BY <1>1, <3>1, <3>2, AnswerSamePending
  <2> QED
    BY <2>1, <2>2, <2>3 DEF GuardsPass, GuardRefuses, Cancel
<1> QED
  BY <1>1, <1>3, URLBySamePending DEF app, URLInv, ListenOK

\* The entry of the route that is shown becomes, or already is, the current one.
LEMMA URLByFinalize == ASSUME IInv, IInv', URLInv, NEW n \in Ids, Finalize(n) PROVE URLInv'
<1>1. /\ pendingLocation = n /\ navigations' = without(n)
      /\ currentRoute' = [id |-> n, location |-> navigations[n].to]
      /\ markAsReady(FALSE)
      /\ UNCHANGED <<traversals, pauseState, started, pendingLocation, tangled>>
  BY DEF Finalize
<1>2. pendingLocation' \notin Ids' /\ ~supersedesPop'
  BY <1>1 DEF without, Ids, supersedesPop
<1>3. ListenOK'
  BY <1>1, <1>2 DEF URLInv, ListenOK, markAsReady
<1>4. ASSUME ~tangled' PROVE QueueOK' /\ RevertOK' /\ PopOK' /\ RestOK' /\ PauseOK'
  <2>1. ~tangled /\ QueueOK /\ RevertOK /\ PopOK /\ PauseOK
    BY <1>1, <1>4 DEF URLInv, InOrder
  <2>2. ~Reverting /\ ~Reverting'
    BY <1>1, <2>1 DEF RevertOK, Reverting
  <2>3. QueueOK' /\ PauseOK' /\ RevertOK' /\ PopOK'
    BY <1>1, <1>2, <2>1, <2>2 DEF QueueOK, PauseOK, RevertOK, PopOK
  <2>4. Url' = navigations[n].to
    <3>1. CASE ~navigations[n].isPush
      BY <1>1, <2>1, <2>2, <3>1 DEF Finalize, PopOK, supersedesPop, Url
    <3>2. CASE navigations[n].isPush
      <4>1. currentLocation' = navigations[n].to
        BY <3>2 DEF Finalize, historyReplace, historyPush
      <4> QED BY <4>1 DEF IInv, HistoryOK, DeltaIsDistance, Url
    <3> QED BY <3>1, <3>2
  <2>5. RestOK'
    BY <1>1, <2>4 DEF RestOK, Shown
  <2> QED BY <2>3, <2>5
<1> QED
  BY <1>3, <1>4 DEF URLInv, InOrder

\* A refused popstate asks for the way back; a refused push leaves everything.
LEMMA URLByFail == ASSUME IInv, URLInv, NEW n \in Ids, Fail(n) PROVE URLInv'
<1>1. /\ navigations' = without(n)
      /\ UNCHANGED <<entries, index, currentLocation, historyPosition, started,
                     pendingLocation, currentRoute, adrift>>
  BY DEF Fail
<1>2. /\ currentRoute # START => ready'
      /\ ready' => listening'
      /\ listening => listening'
  BY DEF Fail, markAsReady, app, URLInv, ListenOK, IInv, AppOK
<1>3. CASE navigations[n].isPush
  <2>1. UNCHANGED <<browser, html5, currentRoute, history>>
    BY <1>1, <1>3 DEF Fail, browser, html5, history
  <2>2. SamePending
    BY <1>1, <1>3, WithoutSamePending
  <2> QED BY <1>2, <2>1, <2>2, URLBySamePending
<1>4. CASE ~navigations[n].isPush
  <2>1. /\ revert(navigations[n].delta)
        /\ tangled' = (tangled \/ pendingLocation # n \/ traversals # <<>>)
    BY <1>4 DEF Fail
  <2>2. supersedesPop' => supersedesPop
    BY <1>1 DEF supersedesPop, without, Ids
  <2>3. ListenOK'
    BY <1>1, <1>2, <2>2 DEF URLInv, ListenOK
  <2>4. ASSUME ~tangled' PROVE QueueOK' /\ RevertOK' /\ PopOK' /\ RestOK' /\ PauseOK'
    <3>1. ~tangled /\ pendingLocation = n /\ traversals = <<>>
      BY <2>1, <2>4
    <3>2. ~Reverting /\ supersedesPop /\ PopOK
      BY <1>4, <2>4, <3>1 DEF Reverting, supersedesPop, URLInv, InOrder
    <3>3. LeadsBack(index - navigations[n].delta)
      BY <3>1, <3>2 DEF PopOK
    <3>4. /\ traversals' = <<[delta |-> -navigations[n].delta, silent |-> TRUE]>>
          /\ pauseState' = currentLocation
      BY <2>1, <3>1 DEF revert
    <3>5. Reverting' /\ Head(traversals)'.delta = -navigations[n].delta /\ QueueOK'
      BY <3>4 DEF Reverting, QueueOK
    <3>6. index' + Head(traversals)'.delta = index - navigations[n].delta
      <4>1. navigations[n].delta \in Int /\ index \in Int
        BY DEF IInv, PendingOK, Navigation, HistoryOK
      <4> QED BY <1>1, <3>5, <4>1
    <3>7. LeadsBack(index + Head(traversals).delta)'
      BY <1>1, <3>3, <3>6 DEF LeadsBack, Shown
    <3>8. pendingLocation' \notin Ids'
      BY <1>1, <3>1 DEF without, Ids
    <3>9. RevertOK'
      BY <1>1, <3>4, <3>7, <3>8 DEF RevertOK
    <3> QED BY <3>5, <3>9 DEF PopOK, RestOK, PauseOK
  <2> QED BY <2>3, <2>4 DEF URLInv, InOrder
<1> QED
  BY <1>3, <1>4

\* The user's traversals come after those asked for already.
LEMMA URLByGo == ASSUME IInv, URLInv, NEW delta \in Deltas, Go(delta) PROVE URLInv'
<1> DEFINE new == [delta |-> delta, silent |-> FALSE]
<1>1. /\ traversals' = Append(traversals, new)
      /\ UNCHANGED <<entries, index, html5, pending, currentRoute, ready, listening, history>>
  BY DEF Go
<1>2. new \in [delta: Int, silent: BOOLEAN] /\ ~new.silent
  BY DeltasAssumption
<1> HIDE DEF new
<1>3. /\ traversals' # <<>> /\ Len(traversals') = Len(traversals) + 1
      /\ \A i \in 1..Len(traversals) : traversals'[i] = traversals[i]
      /\ traversals'[Len(traversals) + 1] = new
      /\ Len(traversals) \in Nat
      /\ traversals = <<>> <=> Len(traversals) = 0
      /\ Head(traversals') = traversals'[1] /\ Head(traversals) = traversals[1]
  <2>1. traversals \in Seq([delta: Int, silent: BOOLEAN])
    BY DEF IInv, TraversalsOK
  <2> QED BY <1>1, <1>2, <2>1, AppendProperties, LenProperties
<1>4. Reverting' = Reverting /\ (Reverting => Head(traversals') = Head(traversals))
  BY <1>2, <1>3 DEF Reverting
<1>5. QueueOK => QueueOK'
  BY <1>2, <1>3 DEF QueueOK
<1>6. SamePending
  BY <1>1 DEF SamePending, supersedesPop, pending, Ids
<1>7. InOrder'
  BY <1>1, <1>4, <1>5, <1>6, InOrderKept DEF URLInv
<1>8. ListenOK'
  BY <1>1, <1>6 DEF URLInv, ListenOK, SamePending
<1> QED
  BY <1>7, <1>8 DEF URLInv

\* The next traversal: the way back, which is not listened to, or one of the
\* user's, which starts a navigation if the router listens.
LEMMA URLByTraverse == ASSUME IInv, IInv', URLInv, Traverse PROVE URLInv'
<1> DEFINE i == index + Head(traversals).delta
<1>1. /\ traversals # <<>> /\ traversals' = Tail(traversals)
      /\ UNCHANGED <<entries, currentRoute, app>>
  BY DEF Traverse
<1>2. traversals \in Seq([delta: Int, silent: BOOLEAN])
  BY DEF IInv, TraversalsOK
<1>3. QueueOK => QueueOK' /\ ~Reverting'
  <2>1. /\ Len(traversals) \in Nat \ {0} /\ Len(traversals') = Len(traversals) - 1
        /\ \A k \in 1..Len(traversals') : traversals'[k] = traversals[k + 1]
    BY <1>1, <1>2, HeadTailProperties, EmptySeq
  <2>2. QueueOK => \A k \in 1..Len(traversals') : ~traversals'[k].silent
    BY <2>1 DEF QueueOK
  <2>3. traversals' \in Seq([delta: Int, silent: BOOLEAN])
    BY <1>1, <1>2, HeadTailProperties
  <2> QED BY <2>1, <2>2, <2>3, EmptySeq DEF QueueOK, Reverting
<1>4. \/ i \notin DOMAIN entries /\ UNCHANGED <<index, html5, pending, history>>
      \/ i \in DOMAIN entries /\ index' = i /\ popStateHandler
  BY DEF Traverse
<1>5. CASE /\ UNCHANGED <<pending, history>>
           /\ \/ i \notin DOMAIN entries /\ UNCHANGED <<index, html5>>
              \/ index' = i /\ pauseState = currentLocation /\ pauseState' = NoLocation
              \/ pauseState # currentLocation /\ ~listening /\ pauseState' = pauseState
  <2>1. SamePending /\ ready' = ready /\ listening' = listening
    BY <1>1, <1>5 DEF SamePending, supersedesPop, pending, Ids, app
  <2>2. ListenOK'
    BY <1>1, <2>1 DEF URLInv, ListenOK, SamePending
  <2>3. ASSUME ~tangled' PROVE QueueOK' /\ RevertOK' /\ PopOK' /\ RestOK' /\ PauseOK'
    <3>1. /\ ~tangled /\ QueueOK /\ RevertOK /\ PopOK /\ RestOK /\ PauseOK
          /\ QueueOK' /\ ~Reverting' /\ RevertOK'
      BY <1>3, <1>5, <2>3 DEF URLInv, InOrder, history, RevertOK
    <3>2. CASE Reverting
      <4>1. LeadsBack(i) /\ pauseState = currentLocation /\ pendingLocation \notin Ids
        BY <3>1, <3>2 DEF RevertOK
      <4>2. index' = i /\ pauseState' = NoLocation
        BY <1>5, <4>1 DEF LeadsBack
      <4>3. ~supersedesPop'
        BY <2>1, <4>1 DEF SamePending, supersedesPop
      <4>4. Shown(Url)'
        BY <1>1, <1>5, <4>1, <4>2 DEF LeadsBack, Shown, Url, history
      <4> QED BY <3>1, <4>2, <4>3, <4>4 DEF PopOK, RestOK, PauseOK
    <3>3. CASE ~Reverting
      <4>1. pauseState = NoLocation /\ pauseState # currentLocation
        BY <3>1, <3>3, LocationsAssumption DEF PauseOK, IInv, HistoryOK
      <4>2. CASE UNCHANGED <<index, html5>>
        <5>1. PauseOK'
          BY <4>1, <4>2 DEF PauseOK, html5
        <5>2. PopOK'
          BY <1>1, <1>5, <2>1, <3>1, <3>3, <4>2
          DEF PopOK, SamePending, LeadsBack, Shown, Url, history
        <5>3. RestOK'
          BY <1>1, <1>5, <2>1, <3>1, <3>3, <4>2
          DEF RestOK, SamePending, Shown, Url, history
        <5> QED BY <3>1, <5>1, <5>2, <5>3
      <4>3. CASE ~listening /\ pauseState' = pauseState
        <5>1. currentRoute = START /\ ~supersedesPop
          BY <4>3 DEF URLInv, ListenOK
        <5>2. Shown(Url)'
          BY <1>1, <5>1 DEF Shown
        <5> QED BY <2>1, <3>1, <4>1, <4>3, <5>1, <5>2 DEF PauseOK, PopOK, RestOK, SamePending
      <4> QED BY <1>5, <4>1, <4>2, <4>3
    <3> QED BY <3>2, <3>3
  <2> QED BY <2>2, <2>3 DEF URLInv, InOrder
<1>6. CASE /\ i \in DOMAIN entries /\ index' = i
           /\ pauseState # currentLocation /\ listening
           /\ start(navigations, newNavigation(entries[i].location, FALSE,
                                  entries[i].position - historyPosition, NoOptions))
           /\ UNCHANGED <<pauseState, tangled>>
  <2> DEFINE nav == newNavigation(entries[i].location, FALSE,
                                  entries[i].position - historyPosition, NoOptions)
  <2>1. /\ pendingLocation' = started + 1 /\ started + 1 \in Ids'
        /\ navigations'[started + 1] = nav
        /\ adrift' = (adrift \/ supersedesPop)
    BY <1>6 DEF start, Ids
  <2>2. /\ nav.to = entries[i].location /\ ~nav.isPush
        /\ nav.delta = entries[i].position - historyPosition
    BY DEF newNavigation
  <2> HIDE DEF i, nav
  <2>3. supersedesPop'
    BY <2>1, <2>2 DEF supersedesPop
  <2>4. ListenOK'
    BY <1>1, <1>6 DEF URLInv, ListenOK, app
  <2>5. ASSUME ~tangled' PROVE QueueOK' /\ RevertOK' /\ PopOK' /\ RestOK' /\ PauseOK'
    <3>1. /\ QueueOK /\ RevertOK /\ RestOK /\ PauseOK /\ QueueOK' /\ ~Reverting'
      BY <1>3, <1>6, <2>5 DEF URLInv, InOrder
    <3>2. ~Reverting /\ pauseState' = NoLocation
      BY <1>6, <3>1 DEF RevertOK, PauseOK
    <3>3. nav.delta = i - index
      <4>1. /\ entries[i].position = i - 1 /\ historyPosition = index - 1
            /\ i \in Int /\ index \in Int
        BY <1>6 DEF IInv, HistoryOK, DeltaIsDistance
      <4> QED BY <2>2, <4>1
    <3>4. index' - navigations'[pendingLocation'].delta = index
      <4>1. i \in Int /\ index \in Int
        BY <1>6 DEF IInv, HistoryOK
      <4> QED BY <1>6, <2>1, <3>3, <4>1
    <3>5. /\ index \in DOMAIN entries'
          /\ currentRoute' # START /\ ~adrift'
               => entries'[index].location = currentRoute'.location
      <4>1. ~adrift' => ~adrift /\ Shown(Url)
        BY <2>1, <3>1, <3>2 DEF RestOK
      <4>2. entries' = entries /\ currentRoute' = currentRoute /\ index \in DOMAIN entries
        BY <1>1 DEF IInv, HistoryOK
      <4> QED BY <4>1, <4>2 DEF Shown, Url
    <3>6. PopOK'
      <4>1. Url' = navigations'[pendingLocation'].to
        BY <1>1, <1>6, <2>1, <2>2 DEF Url
      <4>2. LeadsBack(index - navigations[pendingLocation].delta)'
        BY <3>4, <3>5 DEF LeadsBack, Shown
      <4> QED BY <4>1, <4>2 DEF PopOK
    <3> QED BY <2>3, <3>1, <3>2, <3>6 DEF RevertOK, RestOK, PauseOK
  <2> QED BY <2>4, <2>5 DEF URLInv, InOrder
<1> QED
  BY <1>1, <1>4, <1>5, <1>6 DEF popStateHandler
------------------------------------------------------------------------------
LEMMA NextURLInv == IInv /\ IInv' /\ URLInv /\ [Next]_vars => URLInv'
<1> SUFFICES ASSUME IInv, IInv', URLInv, [Next]_vars PROVE URLInv'
  OBVIOUS
<1>1. CASE \E l \in Locations, opts \in Options : push(l, opts)
  BY <1>1, URLByPush
<1>2. CASE Install \/ Unmount
  BY <1>2, URLByInstall, URLByUnmount
<1>3. CASE \E delta \in Deltas : Go(delta)
  BY <1>3, URLByGo
<1>4. CASE Traverse
  BY <1>4, URLByTraverse
<1>5. CASE \E n \in Ids : GuardsPass(n) \/ GuardRefuses(n) \/ Cancel(n)
  BY <1>5, URLByGuards
<1>6. CASE \E n \in Ids : Finalize(n) \/ Fail(n) \/ Redirect(n)
  BY <1>6, URLByFinalize, URLByFail, URLByRedirect
<1>7. CASE UNCHANGED vars
  <2>1. UNCHANGED <<browser, html5, currentRoute, history, pending, ready, listening>>
    BY <1>7 DEF vars, app
  <2>2. SamePending
    BY <2>1 DEF SamePending, supersedesPop, pending, Ids
  <2> QED BY <2>1, <2>2, URLBySamePending DEF URLInv, ListenOK
<1> QED
  BY <1>1, <1>2, <1>3, <1>4, <1>5, <1>6, <1>7 DEF Next, Settle

\* At rest, after any history of pushes, traversals, redirects, refusals and
\* unmounts, the URL is the one of the route that is shown, but for the two
\* exceptions adrift and tangled stand for.
THEOREM UrlShowsRouteCorrect == Spec => []UrlShowsRoute
<1>1. URLInv => UrlShowsRoute
  <2> SUFFICES ASSUME URLInv, traversals = <<>>, Ids = {}, currentRoute # START,
                      ~adrift, ~tangled
               PROVE  Url = currentRoute.location
    BY DEF UrlShowsRoute
  <2>1. RestOK /\ ~Reverting /\ ~supersedesPop
    BY DEF URLInv, InOrder, Reverting, supersedesPop
  <2> QED BY <2>1 DEF RestOK, Shown
<1>2. Spec => []URLInv
  BY InitURLInv, NextURLInv, Invariance, PTL DEF Spec
<1> QED
  BY <1>1, <1>2, PTL
==============================================================================
