------------------------------ MODULE TimingGroup ------------------------------
(***************************************************************************)
(* TimingGroup of legacy/timinggroup.h: the last time an action was due,   *)
(* kept for a group of state machines.  The clock is millis(); it stops at *)
(* LastTick, before it would wrap.                                         *)
(*                                                                         *)
(* lastActionTimeFinish, which the state machines write and never read, is *)
(* left out.                                                               *)
(***************************************************************************)
EXTENDS Naturals

CONSTANTS
    Group,      \* the timing groups
    LastTick    \* bound: the clock stops here

ASSUME TickAssumption == LastTick \in Nat

VARIABLES
    clock,                  \* GetCurrentTime()
    lastActionTimeTarget    \* when each group wanted to perform its last action

TimingInit ==
    /\ clock = 0
    /\ lastActionTimeTarget = [g \in Group |-> 0]

Tick ==
    /\ clock < LastTick
    /\ clock' = clock + 1

\* The comparison is strict, whatever the name and the comments say: an interval is
\* over one tick later.
AtOrAfterTargetTime(target, interval) == clock > target + interval

\* Mutant: the interval is not registered, so that it is over again at the next poll.
M_NextTarget_Unregistered(target, interval) == target

\* Mutant: the interval that is over counts from now.
M_NextTarget_Drifts(target, interval) == clock

(***************************************************************************)
(* IsIntervalReached registers an interval that is over, whatever the flag *)
(* it is called with says: the next one counts from when this one was due, *)
(* so an action that comes late does not delay those after it.             *)
(***************************************************************************)
NextTarget(target, interval) == target + interval

reset(g) == lastActionTimeTarget' = [lastActionTimeTarget EXCEPT ![g] = clock]

================================================================================
