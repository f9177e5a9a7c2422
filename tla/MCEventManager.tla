----------------------------- MODULE MCEventManager ----------------------------
(***************************************************************************)
(* Events are interchangeable, and so are callbacks.  Every property that  *)
(* is checked under this symmetry is a safety property.                    *)
(***************************************************************************)
EXTENDS EventManager, TLC

Symmetry == Permutations(Event) \union Permutations(Callback)
================================================================================
