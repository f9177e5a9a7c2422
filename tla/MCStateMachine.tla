----------------------------- MODULE MCStateMachine ----------------------------
(***************************************************************************)
(* A toggling machine that the main loop polls and one of each kind in a   *)
(* sequence.  The groupings: everyone in the global group, or the          *)
(* sequence's machines in their own.                                       *)
(***************************************************************************)
EXTENDS StateMachine

Intervals == [m \in Machine |-> IF m = "first" THEN 2 ELSE 1]

FirstThenSecond == <<"first", "second">>

AllGlobal == [m \in Machine |-> "global"]
SequenceApart ==
    [m \in Machine |-> IF m \in ToSet(Order) THEN "own" ELSE "global"]

GlobalOrApart == {AllGlobal, SequenceApart}
================================================================================
