-------------------------------- MODULE MCService ------------------------------
(***************************************************************************)
(* Three services: a chain of dependencies, and one that hangs on a circle *)
(* of two.                                                                 *)
(***************************************************************************)
EXTENDS Service

Chain == [s \in Svc |-> CASE s = 1 -> NoService [] s = 2 -> 1 [] s = 3 -> 2]
Circle == [s \in Svc |-> CASE s = 1 -> 2 [] s = 2 -> 1 [] s = 3 -> 2]

ChainAndCircle == {Chain, Circle}
================================================================================
