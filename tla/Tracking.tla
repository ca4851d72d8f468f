------------------------------- MODULE Tracking -------------------------------
(* What dependency tracking promises.  Functions run, one inside another;   *)
(* each one reads sources.  A function that has run to its end is           *)
(* subscribed to exactly the sources this run read, or to nothing if it was *)
(* stopped.  While it runs it is subscribed to what it has read so far, and *)
(* may still be to some of what it read before.                             *)
EXTENDS Sequences, SequencesExt

CONSTANTS Functions, Sources

VARIABLES
  running,   \* the functions that run, innermost last
  reads,     \* what each has read since its last run began
  subs       \* the sources each is subscribed to

vars == <<running, reads, subs>>

Init ==
  /\ running = <<>>
  /\ reads = [f \in Functions |-> {}]
  /\ subs = [f \in Functions |-> {}]

Begin(f) ==
  /\ ~Contains(running, f)
  /\ running' = Append(running, f)
  /\ reads' = [reads EXCEPT ![f] = {}]
  /\ \E kept \in SUBSET subs[f] : subs' = [subs EXCEPT ![f] = kept]

Read(s) ==
  /\ running # <<>>
  /\ reads' = [reads EXCEPT ![Last(running)] = @ \union {s}]
  /\ subs' = [subs EXCEPT ![Last(running)] = @ \union {s}]
  /\ UNCHANGED running

End ==
  /\ running # <<>>
  /\ running' = Front(running)
  /\ \E left \in {{}, reads[Last(running)]} : subs' = [subs EXCEPT ![Last(running)] = left]
  /\ UNCHANGED reads

Stop(f) ==
  /\ ~Contains(running, f)
  /\ subs' = [subs EXCEPT ![f] = {}]
  /\ UNCHANGED <<running, reads>>

Next ==
  \/ \E f \in Functions : Begin(f) \/ Stop(f)
  \/ \E s \in Sources : Read(s)
  \/ End

Spec == Init /\ [][Next]_vars
==============================================================================
