----------------------------- MODULE MCNavigation -----------------------------
(* A small instance of Navigation for TLC.  (No symmetry: it is not sound    *)
(* for the liveness property.)                                               *)
EXTENDS Navigation

OptionsDef == {NoOptions, [replace |-> TRUE, force |-> TRUE]}
DeltasDef == {-1, 1}
==============================================================================
