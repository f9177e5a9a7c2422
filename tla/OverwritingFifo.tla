---------------------------- MODULE OverwritingFifo ----------------------------
(***************************************************************************)
(* What a circular buffer promises its users: a first-in first-out queue   *)
(* of at most Size messages which, when full, makes room for a new message *)
(* by dropping the oldest one.                                             *)
(***************************************************************************)
EXTENDS Naturals, Sequences

CONSTANTS
    Size,      \* how many messages the queue holds
    Value,     \* the messages
    NoValue    \* what `out` is before the first Get

VARIABLES
    queue,     \* the messages not yet read, oldest first
    out        \* the message the last Get handed to its caller

vars == <<queue, out>>

Init ==
    /\ queue = << >>
    /\ out = NoValue

Put(v) ==
    /\ queue' = IF Len(queue) = Size
                THEN Append(Tail(queue), v)
                ELSE Append(queue, v)
    /\ UNCHANGED out

Get ==
    /\ queue # << >>
    /\ queue' = Tail(queue)
    /\ out' = Head(queue)

Reset ==
    /\ queue' = << >>
    /\ UNCHANGED out

Next ==
    \/ \E v \in Value : Put(v)
    \/ Get
    \/ Reset

Spec == Init /\ [][Next]_vars

================================================================================
