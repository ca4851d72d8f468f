------------------------------ MODULE Navigation ------------------------------
(* Navigations of vue-router over the browser's history:                     *)
(* router/packages/router/src/router.ts with history/html5.ts.               *)
(*                                                                           *)
(* push() and popstate events start navigations whose guards are            *)
(* asynchronous; a navigation that is not the pending one any more is        *)
(* cancelled when that is looked at, at the end of each phase of guards and  *)
(* before it is finalized.  The session history is the browser's: its        *)
(* entries, and the traversals that were asked for and happen later.         *)
EXTENDS Integers, Sequences, FiniteSets

CONSTANTS
  Locations,      \* full paths of routes; the redirect records are followed
  NoLocation,     \* null
  LoadedLocation, \* the URL the page is loaded at
  Options,        \* the options push() may be called with
  Deltas,         \* the steps of the back and forward buttons and of go()
  Phases,         \* phases of guards of a navigation (6 in the code)
  MaxNavigations, \* bound: navigations
  MaxPending,     \* bound: navigations under way at a time
  MaxGos,         \* bound: traversals asked for by the user
  MaxUnmounts     \* bound: unmounts of the app

ASSUME LocationsAssumption ==
  NoLocation \notin Locations /\ LoadedLocation \in Locations

ASSUME OptionsAssumption == Options \subseteq [replace: BOOLEAN, force: BOOLEAN]

\* (go(0) loads the page anew: nothing of the program is left.)
ASSUME DeltasAssumption == Deltas \subseteq Int \ {0}

ASSUME BoundsAssumption ==
  /\ Phases \in Nat \ {0}
  /\ MaxNavigations \in Nat /\ MaxPending \in Nat /\ MaxGos \in Nat /\ MaxUnmounts \in Nat

VARIABLES
  entries, index,         \* the session history and its current entry
  traversals,             \* the traversals asked for, in order
  currentLocation,        \* html5.ts: where the history was last seen,
  historyPosition,        \*   the position in that state,
  pauseState,             \*   and the location whose leaving is ignored
  started,                \* how many navigations were started: they are numbered
  navigations,            \* those under way
  pendingLocation,        \* the navigation started last, or that of START
  currentRoute,           \* the route that is shown, or START
  ready, listening,       \* is the router ready, does it listen to popstate?
  mounted,                \* is the app mounted?
  gos, unmounts,          \* the counters the bounds are for
  adrift,                 \* history: a popstate was given up, not reverted
  tangled                 \* history: a revert met something else under way

browser == <<entries, index, traversals>>
html5 == <<currentLocation, historyPosition, pauseState>>
app == <<ready, listening, mounted, gos, unmounts>>
history == <<adrift, tangled>>
pending == <<started, navigations, pendingLocation>>
vars == <<browser, html5, pending, currentRoute, app, history>>

START == [id |-> 0, location |-> NoLocation]
NoOptions == [replace |-> FALSE, force |-> FALSE]
Ids == DOMAIN navigations
Url == entries[index].location

(* How the guards answered: they let the navigation pass, one returned       *)
(* false, threw, or redirected; or none of this yet.                         *)
Outcomes == {"none", "passed", "aborted", "error", "redirect"}

Navigation ==
  [to: Locations, isPush: BOOLEAN, first: BOOLEAN, delta: Int,
   replace: BOOLEAN, force: BOOLEAN,
   phase: 1..Phases, outcome: Outcomes]

Init ==
  /\ entries = <<[location |-> LoadedLocation, position |-> 0]>>
  /\ index = 1 /\ traversals = <<>>
  /\ currentLocation = LoadedLocation /\ historyPosition = 0
  /\ pauseState = NoLocation
  /\ started = 0 /\ navigations = <<>>
  /\ pendingLocation = START.id /\ currentRoute = START
  /\ ready = FALSE /\ listening = FALSE /\ mounted = FALSE
  /\ gos = 0 /\ unmounts = 0
  /\ adrift = FALSE /\ tangled = FALSE
------------------------------------------------------------------------------
(* Starting a navigation                                                     *)

isSameRouteLocation(from, l) == from.location = l

(* It leaves as from === START_LOCATION what it needs to know of from.       *)
newNavigation(l, isPush, delta, opts) ==
  [to |-> l, isPush |-> isPush, first |-> currentRoute = START, delta |-> delta,
   replace |-> opts.replace, force |-> opts.force,
   phase |-> 1, outcome |-> "none"]

(* A popstate navigation still under way is superseded.                      *)
supersedesPop == pendingLocation \in Ids /\ ~navigations[pendingLocation].isPush

without(n) == [m \in Ids \ {n} |-> navigations[m]]

(* others: the navigations under way without the one that redirects here.    *)
start(others, navigation) ==
  /\ started < MaxNavigations /\ Cardinality(DOMAIN others) < MaxPending
  /\ started' = started + 1
  /\ pendingLocation' = started + 1
  /\ navigations' = [m \in DOMAIN others \cup {started + 1} |->
                       IF m = started + 1 THEN navigation ELSE others[m]]
  /\ adrift' = (adrift \/ supersedesPop)

(* A navigation to the same place is pending for a moment, and is over.      *)
duplicate(others) ==
  /\ started < MaxNavigations
  /\ started' = started + 1
  /\ pendingLocation' = started + 1
  /\ navigations' = others
  /\ adrift' = (adrift \/ supersedesPop)

pushWithRedirect(others, l, opts) ==
  /\ IF ~opts.force /\ isSameRouteLocation(currentRoute, l)
       THEN duplicate(others)
       ELSE start(others, newNavigation(l, TRUE, 0, opts))
  /\ tangled' = (tangled \/ \E i \in DOMAIN traversals : traversals[i].silent)

push(l, opts) ==
  /\ pushWithRedirect(navigations, l, opts)
  /\ UNCHANGED <<browser, html5, currentRoute, app>>

(* app.use(router): the initial navigation.                                  *)
Install ==
  /\ ~mounted
  /\ mounted' = TRUE
  /\ IF currentRoute = START
       THEN pushWithRedirect(navigations, currentLocation, NoOptions)
       ELSE UNCHANGED <<pending, history>>
  /\ UNCHANGED <<browser, html5, currentRoute, ready, listening, gos, unmounts>>

Unmount ==
  /\ mounted /\ unmounts < MaxUnmounts
  /\ unmounts' = unmounts + 1
  /\ mounted' = FALSE /\ ready' = FALSE /\ listening' = FALSE
  /\ pendingLocation' = START.id /\ currentRoute' = START
  /\ UNCHANGED <<browser, html5, started, navigations, gos, history>>
------------------------------------------------------------------------------
(* Guards                                                                    *)

answer(n, outcome) == [navigations EXCEPT ![n].outcome = outcome]

(* The guards of a phase let it pass; the phase ends with the check, which   *)
(* cancels it if it is not the pending navigation any more.                  *)
GuardsPass(n) ==
  /\ navigations[n].outcome = "none"
  /\ navigations' =
       IF pendingLocation # n THEN without(n)
       ELSE IF navigations[n].phase = Phases THEN answer(n, "passed")
       ELSE [navigations EXCEPT ![n].phase = @ + 1]
  /\ UNCHANGED <<browser, html5, started, pendingLocation, currentRoute, app, history>>

(* A guard refuses: the rest of the queue, the check included, is skipped.   *)
GuardRefuses(n) ==
  /\ navigations[n].outcome = "none"
  /\ \E outcome \in {"aborted", "error", "redirect"} :
       /\ outcome = "redirect" => started < MaxNavigations
       /\ navigations' = answer(n, outcome)
  /\ UNCHANGED <<browser, html5, started, pendingLocation, currentRoute, app, history>>
------------------------------------------------------------------------------
(* The end of a navigation                                                   *)

(* setupListeners() is called with it, and listens once.                     *)
markAsReady(failed) ==
  /\ ready' = (ready \/ ~failed)
  /\ listening' = (listening \/ ~ready)
  /\ UNCHANGED <<mounted, gos, unmounts>>

\* (A bug: the new entry is taken to come after the last one.)
historyPushLast(l) ==
  LET position == entries[index].position + 1
  IN /\ entries' = Append(SubSeq(entries, 1, index),
                          [location |-> l, position |-> position])
     /\ index' = Len(entries) + 1
     /\ currentLocation' = l /\ historyPosition' = position

(* html5.ts: push() writes the current entry anew, then adds one after it.   *)
historyPush(l) ==
  LET position == entries[index].position + 1
  IN /\ entries' = Append(SubSeq(entries, 1, index),
                          [location |-> l, position |-> position])
     /\ index' = index + 1
     /\ currentLocation' = l /\ historyPosition' = position

historyReplace(l) ==
  /\ entries' = [entries EXCEPT ![index] =
                   [location |-> l, position |-> historyPosition]]
  /\ currentLocation' = l
  /\ UNCHANGED <<index, historyPosition>>

\* (A bug: finalizeNavigation() does not look at pendingLocation.)
FinalizeAnyway(n) ==
  /\ navigations[n].outcome = "passed"
  /\ LET nav == navigations[n] IN
     /\ IF ~nav.isPush THEN UNCHANGED <<entries, index, currentLocation, historyPosition>>
        ELSE IF nav.replace \/ nav.first THEN historyReplace(nav.to)
        ELSE historyPush(nav.to)
     /\ currentRoute' = [id |-> n, location |-> nav.to]
  /\ navigations' = without(n)
  /\ markAsReady(FALSE)
  /\ adrift' = FALSE
  /\ UNCHANGED <<traversals, pauseState, started, pendingLocation, tangled>>

(* finalizeNavigation() of the navigation that is still the pending one.     *)
Finalize(n) ==
  /\ navigations[n].outcome = "passed" /\ pendingLocation = n
  /\ LET nav == navigations[n] IN
     /\ IF ~nav.isPush THEN UNCHANGED <<entries, index, currentLocation, historyPosition>>
        ELSE IF nav.replace \/ nav.first THEN historyReplace(nav.to)
        ELSE historyPush(nav.to)
     /\ currentRoute' = [id |-> n, location |-> nav.to]
  /\ navigations' = without(n)
  /\ markAsReady(FALSE)
  /\ adrift' = FALSE
  /\ UNCHANGED <<traversals, pauseState, started, pendingLocation, tangled>>

(* Superseded since the last check: it is cancelled, and nothing undone.     *)
Cancel(n) ==
  /\ navigations[n].outcome = "passed" /\ pendingLocation # n
  /\ navigations' = without(n)
  /\ UNCHANGED <<browser, html5, started, pendingLocation, currentRoute, app, history>>

\* (Bugs: the history goes the same way again; the popstate is not ignored.)
revertForward(delta) ==
  /\ pauseState' = currentLocation
  /\ traversals' = Append(traversals, [delta |-> delta, silent |-> TRUE])
revertLoudly(delta) ==
  /\ UNCHANGED pauseState
  /\ traversals' = Append(traversals, [delta |-> -delta, silent |-> TRUE])

(* routerHistory.go(-info.delta, false): the next popstate is to be ignored. *)
revert(delta) ==
  /\ pauseState' = currentLocation
  /\ traversals' = Append(traversals, [delta |-> -delta, silent |-> TRUE])

(* A guard returned false, or threw: a popstate navigation is reverted,      *)
(* whether or not it is still the pending one.                               *)
Fail(n) ==
  /\ navigations[n].outcome \in {"aborted", "error"}
  /\ navigations' = without(n)
  /\ IF navigations[n].isPush
       THEN UNCHANGED <<traversals, pauseState, tangled>>
       ELSE /\ revert(navigations[n].delta)
            /\ tangled' = (tangled \/ pendingLocation # n \/ traversals # <<>>)
  /\ IF navigations[n].isPush \/ navigations[n].outcome = "error"
       THEN markAsReady(TRUE)
       ELSE UNCHANGED app
  /\ UNCHANGED <<entries, index, currentLocation, historyPosition, started,
                 pendingLocation, currentRoute, adrift>>

(* A guard redirected: a location of its choice is pushed, with the options  *)
(* of a push.  The entry a popstate reached is not left first.               *)
Redirect(n) ==
  /\ navigations[n].outcome = "redirect"
  /\ LET nav == navigations[n]
         opts == IF nav.isPush THEN [replace |-> nav.replace, force |-> nav.force] ELSE NoOptions
     IN \E l \in Locations : pushWithRedirect(without(n), l, opts)
  /\ UNCHANGED <<browser, html5, currentRoute, app>>
------------------------------------------------------------------------------
(* The browser                                                               *)

(* The back and forward buttons, history.go() and router.go().               *)
Go(delta) ==
  /\ gos < MaxGos
  /\ gos' = gos + 1
  /\ traversals' = Append(traversals, [delta |-> delta, silent |-> FALSE])
  /\ UNCHANGED <<entries, index, html5, pending, currentRoute,
                 ready, listening, mounted, unmounts, history>>

\* (A bug: an ignored popstate is not taken note of.)
popStateHandlerPausedFirst ==
  LET entry == entries[index'] IN
  IF pauseState = currentLocation
    THEN /\ pauseState' = NoLocation
         /\ UNCHANGED <<currentLocation, historyPosition, pending, history>>
    ELSE /\ currentLocation' = entry.location /\ historyPosition' = entry.position
         /\ IF listening
              THEN /\ start(navigations,
                            newNavigation(entry.location, FALSE,
                                          entry.position - historyPosition, NoOptions))
                   /\ UNCHANGED <<pauseState, tangled>>
              ELSE UNCHANGED <<pauseState, pending, history>>

(* popStateHandler, and the listener of the router, for the entry at index'. *)
popStateHandler ==
  LET entry == entries[index'] IN
  /\ currentLocation' = entry.location /\ historyPosition' = entry.position
  /\ IF pauseState = currentLocation
       THEN /\ pauseState' = NoLocation
            /\ UNCHANGED <<pending, history>>
     ELSE IF listening
       THEN /\ start(navigations,
                     newNavigation(entry.location, FALSE,
                                   entry.position - historyPosition, NoOptions))
            /\ UNCHANGED <<pauseState, tangled>>
     ELSE UNCHANGED <<pauseState, pending, history>>

(* The next traversal: it goes to an entry, or nowhere.                      *)
Traverse ==
  /\ traversals # <<>>
  /\ traversals' = Tail(traversals)
  /\ LET i == index + Head(traversals).delta IN
       IF i \in DOMAIN entries
         THEN index' = i /\ popStateHandler
         ELSE UNCHANGED <<index, html5, pending, history>>
  /\ UNCHANGED <<entries, currentRoute, app>>
------------------------------------------------------------------------------
Settle(n) == Finalize(n) \/ Cancel(n) \/ Fail(n) \/ Redirect(n)

Next ==
  \/ \E l \in Locations, opts \in Options : push(l, opts)
  \/ Install \/ Unmount
  \/ \E delta \in Deltas : Go(delta)
  \/ Traverse
  \/ \E n \in Ids : GuardsPass(n) \/ GuardRefuses(n) \/ Settle(n)

(* Promise callbacks run, and the browser performs the traversals it was     *)
(* asked for.  Guards and users may do nothing.                              *)
Fairness ==
  /\ WF_vars(Traverse)
  /\ \A n \in 1..MaxNavigations : WF_vars(n \in Ids /\ Settle(n))

Spec == Init /\ [][Next]_vars /\ Fairness
------------------------------------------------------------------------------
(* Properties                                                                *)

TypeOK ==
  /\ entries \in Seq([location: Locations, position: Nat])
  /\ index \in DOMAIN entries
  /\ traversals \in Seq([delta: Int, silent: BOOLEAN])
  /\ currentLocation \in Locations /\ historyPosition \in Nat
  /\ pauseState \in Locations \cup {NoLocation}
  /\ started \in 0..MaxNavigations
  /\ Ids \subseteq 1..started /\ navigations \in [Ids -> Navigation]
  /\ pendingLocation \in 0..started
  /\ currentRoute \in {START} \cup [id: 1..started, location: Locations]
  /\ ready \in BOOLEAN /\ listening \in BOOLEAN /\ mounted \in BOOLEAN
  /\ gos \in 0..MaxGos /\ unmounts \in 0..MaxUnmounts
  /\ adrift \in BOOLEAN /\ tangled \in BOOLEAN

(* The private copy html5.ts keeps of the history is the entry the browser   *)
(* is at, and the positions it writes into the entries count them: so the    *)
(* delta given to the router is the distance a traversal went, and going     *)
(* back by it returns to the entry it came from.                             *)
DeltaIsDistance ==
  /\ currentLocation = entries[index].location
  /\ historyPosition = entries[index].position
  /\ \A i \in DOMAIN entries : entries[i].position = i - 1

(* However late a guard answers, only the navigation started last is ever    *)
(* shown: an older one never replaces a newer one (finalizeNavigation).      *)
NewestWins ==
  [][currentRoute' # currentRoute => currentRoute'.id \in {START.id, started'}]_vars

(* When nothing is under way the URL is the one of the route that is shown,  *)
(* unless a popstate navigation was superseded by one that failed in turn,   *)
(* or a revert crossed another traversal or navigation.                      *)
UrlShowsRoute ==
  traversals = <<>> /\ Ids = {} /\ currentRoute # START /\ ~adrift /\ ~tangled
    => Url = currentRoute.location

(* "If the browser URL was changed (either manually by the user or via back  *)
(* button), it will be reset to that of the from route" (navigation guards   *)
(* guide): a popstate navigation a guard refuses is undone, and the next     *)
(* popstate not ignored, unless another navigation or traversal meets it.    *)
refused ==
  \E n \in Ids : /\ n = pendingLocation /\ ~navigations[n].isPush
                /\ navigations[n].outcome \in {"aborted", "error"}
RefusalIsUndone ==
  refused /\ ~adrift /\ currentRoute # START
    ~> \/ Url = currentRoute.location /\ pauseState = NoLocation
       \/ adrift \/ tangled \/ currentRoute = START
==============================================================================
