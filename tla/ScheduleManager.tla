---------------------------- MODULE ScheduleManager ----------------------------
(***************************************************************************)
(* The cooperative scheduler of legacy/taskmanager.h and taskmanager.cpp:  *)
(* tasks that recur at an interval (IScheduledWithInterval) wait in a list *)
(* kept in the order of their wake-up times, and ScheduleManager::execute, *)
(* called over and over from the program's main loop, runs those that are  *)
(* due.                                                                    *)
(*                                                                         *)
(* One pass of execute() is several steps: time goes on during the pass,   *)
(* and the code of the task being run may add and remove tasks.  The pass  *)
(* holds two pointers across that call, to the running task and to its     *)
(* successor at the moment it was started.                                 *)
(***************************************************************************)
EXTENDS SinglyLinkedList

CONSTANTS
    Interval,       \* [Node -> Nat \ {0}]: the tasks' intervals
    TimeMod,        \* the clock and the wake-up times wrap here (2^32)
    StartTimes,     \* what the clock may show at first
    MaxTicks,       \* bound: how far the clock advances in a behaviour
    DebugBuilds,    \* the builds considered: a set of BOOLEANs
    CharIsSigned,   \* is char signed on this platform?
    CarefulClient   \* see MayTick and MayAdd

ASSUME TimeAssumption ==
    /\ Interval \in [Node -> Nat \ {0}]
    /\ TimeMod \in Nat \ {0}
    /\ StartTimes \subseteq 0 .. TimeMod - 1
    /\ MaxTicks \in Nat
    /\ DebugBuilds \subseteq BOOLEAN
    /\ CharIsSigned \in BOOLEAN
    /\ CarefulClient \in BOOLEAN

VARIABLES
    debug,          \* was the program built with DEBUG?
    listScheduled,  \* the list of scheduled tasks
    wakeup,         \* absoluteWakeupTime of each task
    now,            \* TimingGroup::GetCurrentTime()
    ticks,          \* how far the clock has advanced
    pc,             \* "idle", or where execute() stands
    scheduled,      \* execute()'s pointer to the task at hand
    scheduledNext,  \* execute()'s pointer to the task after it
    registered,     \* the tasks the client has added and not removed
    fresh,          \* the tasks that were never added
    owed            \* tasks due since the pass began that it has yet to run

vars == <<debug, listScheduled, wakeup, now, ticks, pc, scheduled,
          scheduledNext, registered, fresh, owed>>

Time == 0 .. TimeMod - 1

Init ==
    /\ debug \in DebugBuilds
    /\ listScheduled = EmptyList
    /\ wakeup = [t \in Node |-> 0]
    /\ now \in StartTimes
    /\ ticks = 0
    /\ pc = "idle"
    /\ scheduled = NULL
    /\ scheduledNext = NULL
    /\ registered = {}
    /\ fresh = Node
    /\ owed = {}

isWakeupTime(t) == now >= wakeup[t]

(***************************************************************************)
(* compareWakeupTime() returns 1, 0 or -1 as a char, and the caller tests  *)
(* `compared >= 0`: where char is unsigned, -1 arrives as 255.             *)
(***************************************************************************)
comparesOnOrAfter(w, targetTime) == w >= targetTime \/ ~CharIsSigned

\* The first task of the list that wakes up on or after targetTime.
OnOrAfter(l, w, targetTime) ==
    {t \in Members(l) : comparesOnOrAfter(w[t], targetTime)}

findNodeOnOrJustAfter(l, w, targetTime) ==
    CHOOSE t \in OnOrAfter(l, w, targetTime) :
        \A u \in OnOrAfter(l, w, targetTime) \ {t} : Before(l, t, u)

\* Mutant: a task is always appended.
M_schedule_Append(l, w, t) == ListAdd(l, t, debug)

\* IScheduled::schedule: the list after task t entered it.
schedule(l, w, t) ==
    IF OnOrAfter(l, w, w[t]) = {}
    THEN ListAdd(l, t, debug)
    ELSE ListInsert(l, findNodeOnOrJustAfter(l, w, w[t]), t)

\* Mutant: the addition does not wrap.
M_nextWakeup_NoWrap(t, from) == from + Interval[t]

(***************************************************************************)
(* IScheduledWithInterval::schedule advances the wake-up time by one       *)
(* interval, counting from the last wake-up time and not from now.         *)
(***************************************************************************)
nextWakeup(t, from) == (from + Interval[t]) % TimeMod

(***************************************************************************)
(* What a careful client of a release build does: its passes are over      *)
(* within a tick, it begins them often enough that no task falls a whole   *)
(* interval behind, it never adds a task again that it removed, and it     *)
(* restarts before a wake-up time wraps.  Under DEBUG the list copes       *)
(* without, because ListAdd cleans the node.                               *)
(***************************************************************************)
Careful == CarefulClient /\ ~debug

MayTick ==
    Careful =>
        /\ pc = "idle"
        /\ \A t \in Node : now + 1 + Interval[t] < TimeMod
        /\ \A t \in registered : now + 1 < wakeup[t] + Interval[t]

MayAdd(t) == Careful => t \in fresh /\ now + Interval[t] < TimeMod

Tick ==
    /\ ticks < MaxTicks
    /\ MayTick
    /\ ticks' = ticks + 1
    /\ now' = (now + 1) % TimeMod
    /\ owed' = {t \in owed : now' >= wakeup[t]}
    /\ UNCHANGED <<debug, listScheduled, wakeup, pc, scheduled, scheduledNext,
                   registered, fresh>>

(***************************************************************************)
(* begin() and then add(), from the main loop or from a running task.      *)
(***************************************************************************)
add(t) ==
    /\ pc \in {"idle", "running"}
    /\ t \notin registered
    /\ MayAdd(t)
    /\ wakeup' = [wakeup EXCEPT ![t] = nextWakeup(t, now)]
    /\ listScheduled' = schedule(listScheduled, wakeup', t)
    /\ registered' = registered \union {t}
    /\ fresh' = fresh \ {t}
    /\ UNCHANGED <<debug, now, ticks, pc, scheduled, scheduledNext, owed>>

(***************************************************************************)
(* remove(), from the main loop or from a running task.  A running task    *)
(* removes neither itself nor the task after it: execute() holds pointers  *)
(* to both, and puts them back into the list.                              *)
(***************************************************************************)
remove(t) ==
    /\ \/ pc = "idle"
       \/ pc = "running" /\ t \notin {scheduled, scheduledNext}
    /\ t \in registered
    /\ listScheduled' = ListRemove(listScheduled, t)
    /\ registered' = registered \ {t}
    /\ owed' = owed \ {t}
    /\ UNCHANGED <<debug, wakeup, now, ticks, pc, scheduled, scheduledNext, fresh>>

executeBegin ==
    /\ pc = "idle"
    /\ pc' = "loop"
    /\ scheduled' = listScheduled.head
    /\ owed' = {t \in registered : isWakeupTime(t)}
    /\ UNCHANGED <<debug, listScheduled, wakeup, now, ticks, scheduledNext,
                   registered, fresh>>

\* The head of the loop: take the successor, then call the task's execute().
executeTask ==
    /\ pc = "loop"
    /\ scheduled # NULL /\ isWakeupTime(scheduled)
    /\ scheduledNext' = listScheduled.next[scheduled]
    /\ pc' = "running"
    /\ owed' = owed \ {scheduled}
    /\ UNCHANGED <<debug, listScheduled, wakeup, now, ticks, scheduled,
                   registered, fresh>>

\* Mutant: the successor is read from the node after it was put back.
M_executeReschedule_LateNext ==
    /\ pc = "running"
    /\ wakeup' = [wakeup EXCEPT ![scheduled] = nextWakeup(scheduled, @)]
    /\ listScheduled' =
         schedule(ListRemove(listScheduled, scheduled), wakeup', scheduled)
    /\ scheduled' = listScheduled'.next[scheduled]
    /\ pc' = "loop"
    /\ UNCHANGED <<debug, now, ticks, scheduledNext, registered, fresh, owed>>

\* Mutant: the pass starts over from the head after every task.
M_executeReschedule_Restart ==
    /\ pc = "running"
    /\ wakeup' = [wakeup EXCEPT ![scheduled] = nextWakeup(scheduled, @)]
    /\ listScheduled' =
         schedule(ListRemove(listScheduled, scheduled), wakeup', scheduled)
    /\ scheduled' = listScheduled'.head
    /\ pc' = "loop"
    /\ UNCHANGED <<debug, now, ticks, scheduledNext, registered, fresh, owed>>

\* The rest of the loop: remove the task, schedule it anew, go to the next.
executeReschedule ==
    /\ pc = "running"
    /\ wakeup' = [wakeup EXCEPT ![scheduled] = nextWakeup(scheduled, @)]
    /\ listScheduled' =
         schedule(ListRemove(listScheduled, scheduled), wakeup', scheduled)
    /\ scheduled' = scheduledNext
    /\ pc' = "loop"
    /\ UNCHANGED <<debug, now, ticks, scheduledNext, registered, fresh, owed>>

executeEnd ==
    /\ pc = "loop"
    /\ scheduled # NULL => ~isWakeupTime(scheduled)
    /\ pc' = "idle"
    /\ scheduled' = NULL
    /\ scheduledNext' = NULL
    /\ UNCHANGED <<debug, listScheduled, wakeup, now, ticks, registered, fresh,
                   owed>>

Pass == executeBegin \/ executeTask \/ executeReschedule \/ executeEnd

Next ==
    \/ Tick
    \/ \E t \in Node : add(t) \/ remove(t)
    \/ Pass

(***************************************************************************)
(* A pass, once begun, is carried on: the program is single-threaded and   *)
(* a task's execute() returns.                                             *)
(***************************************************************************)
Fairness == WF_vars(executeTask \/ executeReschedule \/ executeEnd)

Spec == Init /\ [][Next]_vars /\ Fairness

--------------------------------------------------------------------------------

TypeOK ==
    /\ debug \in BOOLEAN
    /\ listScheduled \in List
    /\ wakeup \in [Node -> Time]
    /\ now \in Time
    /\ ticks \in 0 .. MaxTicks
    /\ pc \in {"idle", "loop", "running"}
    /\ scheduled \in Node \union {NULL}
    /\ scheduledNext \in Node \union {NULL}
    /\ registered \subseteq Node
    /\ fresh \subseteq Node
    /\ owed \subseteq Node

(***************************************************************************)
(* Nothing is lost: the list ends, and it holds exactly the tasks that the *)
(* client added and has not removed.                                       *)
(***************************************************************************)
ListHoldsRegistered ==
    Ends(listScheduled) /\ Members(listScheduled) = registered

(***************************************************************************)
(* The list is in the order of the wake-up times, which is what allows     *)
(* execute() to stop at the first task that is not due.                    *)
(***************************************************************************)
SortedByWakeup ==
    \A t, u \in Members(listScheduled) :
        Before(listScheduled, t, u) => wakeup[t] <= wakeup[u]

(***************************************************************************)
(* One pass serves every task that was due when it began, whatever the     *)
(* tasks run before it added, removed or took in time.  (A clock that      *)
(* wraps during the pass makes every task not due, and the pass stop.)     *)
(***************************************************************************)
PassServesEveryDueTask == pc = "idle" => owed = {}

(***************************************************************************)
(* execute() returns to the main loop: a late task that is put back among  *)
(* the due ones cannot keep the pass going for ever.                       *)
(***************************************************************************)
PassEnds == pc # "idle" ~> pc = "idle"

================================================================================
