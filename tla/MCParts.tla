--------------------------------- MODULE MCParts --------------------------------
(***************************************************************************)
(* Two pins of one group and one of another; time-outs below and above the *)
(* fourth bit.  Events are fired with two arguments, or with one.          *)
(***************************************************************************)
EXTENDS Parts

Group == [p \in {"a0", "a1", "b0"} |-> IF p = "b0" THEN 1 ELSE 0]
Bit == [p \in {"a0", "a1", "b0"} |-> IF p = "a1" THEN 1 ELSE 0]

Passed == {<<1, 2>>, <<2>>}
================================================================================
