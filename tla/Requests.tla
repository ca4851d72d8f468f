------------------------------- MODULE Requests -------------------------------
(* What a scheduler promises to those that ask it for something.  Jobs and  *)
(* callbacks are asked for, as often as one likes; it runs jobs one at a    *)
(* time, and never starts one while another that goes before it is waiting. *)
(* It rests only when nothing is waiting.  (It may start a job that nobody  *)
(* waits for any more, and a job that runs may be unable to ask for its own *)
(* next run.)                                                               *)

CONSTANTS
  Updates, PreJobs,   \* the jobs: renders of components, and watchers
  Cbs,                \* callbacks
  Before,             \* the pairs of jobs of which the first goes first
  None

VARIABLES
  owed,    \* what was asked for and neither run nor given up since
  armed,   \* a flush runs, or will run
  job      \* the job the flush runs, or None

vars == <<owed, armed, job>>

Jobs == Updates \union PreJobs

\* No job that goes before j is waiting.
First(j) == \A m \in owed \intersect Jobs : <<m, j>> \notin Before

Init == owed = {} /\ armed = FALSE /\ job = None

\* Code asks for f, or tries in vain.
Ask(f) ==
  /\ owed' \in {owed, owed \union {f}}
  /\ armed' = TRUE
  /\ UNCHANGED job

\* Components have been updated or unmounted by others; hooks are asked for.
Settle(us) ==
  /\ \E hooks \in SUBSET Cbs : /\ owed' = (owed \ us) \union hooks
                               /\ armed' = (armed \/ hooks # {})
  /\ UNCHANGED job

\* The flush starts a job ...
Start(j) ==
  /\ armed /\ job = None /\ First(j)
  /\ owed' = owed \ {j} /\ job' = j
  /\ UNCHANGED armed

\* ... or gives it up: its component is unmounted, or it has run too often.
GiveUp(j) ==
  /\ armed /\ job = None /\ First(j)
  /\ owed' = owed \ {j}
  /\ UNCHANGED <<armed, job>>

End ==
  /\ job # None /\ job' = None
  /\ UNCHANGED <<owed, armed>>

\* A watcher runs early, before a render that needs it; or a callback is run or
\* given up.
Run(f) == owed' = owed \ {f} /\ UNCHANGED <<armed, job>>

Rest ==
  /\ owed = {} /\ job = None
  /\ armed' = FALSE
  /\ UNCHANGED <<owed, job>>

Next ==
  \/ End \/ Rest
  \/ \E f \in Jobs \union Cbs : Ask(f)
  \/ \E us \in SUBSET Updates : Settle(us)
  \/ \E j \in Jobs : Start(j) \/ GiveUp(j)
  \/ \E f \in PreJobs \union Cbs : Run(f)

Spec == Init /\ [][Next]_vars
==============================================================================
