----------------------------- MODULE MCScheduler -----------------------------
(* Small instances of Scheduler for TLC: a parent (id 1), its child (id 2), *)
(* the child's pre watcher, a pre watcher with no instance, a template ref  *)
(* setter (id -1) and a lifecycle hook.                                     *)
EXTENDS Scheduler

MCIdOf ==
  LET id(f) == CASE f = "parent" -> 1
                 [] f \in {"child", "watcher"} -> 2
                 [] f = "ref" -> -1
                 [] OTHER -> Infinity
  IN  [f \in Jobs \union Cbs |-> id(f)]
==============================================================================
