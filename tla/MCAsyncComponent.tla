--------------------------- MODULE MCAsyncComponent ---------------------------
(* Small instances of AsyncComponent for TLC.  (No symmetry: it is not sound *)
(* for the liveness property.)                                               *)
EXTENDS AsyncComponent
==============================================================================
