--------------------------- MODULE MCReactiveEffect ---------------------------
(* Small instances of ReactiveEffect for TLC.  Nothing orders the keys, nor *)
(* the effects of one kind.                                                 *)
EXTENDS ReactiveEffect, TLC

Symmetry == Permutations(Keys) \union Permutations(Effects)
==============================================================================
