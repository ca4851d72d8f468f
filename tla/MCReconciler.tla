----------------------------- MODULE MCReconciler -----------------------------
(* Small instances of Reconciler for TLC.                                    *)
EXTENDS Reconciler
==============================================================================
