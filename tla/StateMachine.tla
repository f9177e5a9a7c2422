------------------------------ MODULE StateMachine -----------------------------
(***************************************************************************)
(* The state machines of legacy/statemachine.h and statemachine.cpp, polled*)
(* by a main loop.  An IntervalStateMachine calls its handler once a cycle *)
(* and then waits for its interval; a ToggleStateMachine calls On() and    *)
(* Off() and waits after each; a SequenceStateMachine polls one machine of *)
(* an array until it completes a cycle and then goes on to the next.       *)
(*                                                                         *)
(* Which interval is over is up to the machine's timing group.  Machines   *)
(* that were given none share the global one.                              *)
(*                                                                         *)
(* A machine reports each change of its state to its observer before it    *)
(* makes the change.  The observer is an ObserverArray, which relays to    *)
(* StateMachineObserverMessengers, and each of these keeps the state it    *)
(* reads from the machine in a circular buffer.                            *)
(*                                                                         *)
(* Machines are static objects: their state starts as zero, the first one. *)
(***************************************************************************)
EXTENDS TimingGroup, Integers, FiniteSets, Sequences, FiniteSetsExt, SequencesExt

CONSTANTS
    IntervalMachine,    \* IntervalStateMachine and IntervalStateMachine2
    ToggleMachine,      \* ToggleStateMachine
    Interval,           \* the interval of each machine
    Groupings,          \* the ways the machines are put into groups
    Order,              \* the handlers of the SequenceStateMachine
    Observed,           \* the machine with an observer
    Messenger,          \* the messengers that may be added to its array
    MessageSize         \* how many messages each of them keeps

Machine == IntervalMachine \union ToggleMachine

ASSUME MachineAssumption ==
    /\ IsFiniteSet(Machine) /\ IntervalMachine \intersect ToggleMachine = {}
    /\ Interval \in [Machine -> Nat \ {0}]
    /\ Groupings \subseteq [Machine -> Group]
    /\ Order \in Seq(Machine) /\ Order # << >>
    /\ Observed \in Machine
    /\ MessageSize \in Nat \ {0}

VARIABLES
    group,      \* the timing group of each machine
    state,      \* currentState of each machine
    step,       \* currentState of the sequence: the index of a handler, or -1
    observers,  \* the messengers in the observed machine's ObserverArray
    messages,   \* the messages each messenger keeps, the oldest first
    calls,      \* for checking: the handler calls of each machine since a reset
    reached,    \* for checking: the intervals each registered since then
    base,       \* for checking: when each group was last reset
    cycles      \* for checking: the cycles each machine has completed

\* What a call of ProcessCycle can change, apart from the sequence's step.
machineVars ==
    <<state, lastActionTimeTarget, messages, calls, reached, cycles>>

vars == <<clock, group, step, observers, base, machineVars>>

Init ==
    /\ TimingInit
    /\ group \in Groupings
    /\ state = [m \in Machine |-> IF m \in ToggleMachine THEN "On" ELSE "Action"]
    /\ step = 0
    /\ observers = << >>
    /\ messages = [o \in Messenger |-> << >>]
    /\ calls = [m \in Machine |-> << >>]
    /\ reached = [m \in Machine |-> 0]
    /\ base = [g \in Group |-> 0]
    /\ cycles = [m \in Machine |-> 0]

(***************************************************************************)
(* A step of a machine, as an operator from a record of the variables to   *)
(* one, so that machines can call each other.                              *)
(***************************************************************************)
World == [state |-> state, target |-> lastActionTimeTarget,
          messages |-> messages, calls |-> calls, reached |-> reached,
          cycles |-> cycles]

Becomes(w) ==
    /\ state' = w.state
    /\ lastActionTimeTarget' = w.target
    /\ messages' = w.messages
    /\ calls' = w.calls
    /\ reached' = w.reached
    /\ cycles' = w.cycles

Call(w, m, what) == [w EXCEPT !.calls[m] = Append(@, what)]

IsIntervalReached(w, m) ==
    AtOrAfterTargetTime(w.target[group[m]], Interval[m])

Register(w, m) ==
    [w EXCEPT !.target[group[m]] = NextTarget(@, Interval[m]),
              !.reached[m] = @ + 1]

\* What Process returns: the world it leaves and the state it asks for.
Outcome(w, st) == [world |-> w, newState |-> st]

IntervalProcess(w, m) ==
    LET waiting == IF w.state[m] = "Action" THEN Call(w, m, "Action") ELSE w
    IN  IF w.state[m] = "CycleComplete" THEN Outcome(w, "Action")
        ELSE IF IsIntervalReached(waiting, m)
        THEN Outcome(Register(waiting, m), "CycleComplete")
        ELSE Outcome(waiting, "ActionWaiting")

\* Mutant: a break after the first interval, so that Off() is left out.
M_ToggleProcess_Break(w, m) ==
    LET waiting == IF w.state[m] = "On" THEN Call(w, m, "On") ELSE w
    IN  IF w.state[m] = "CycleComplete" THEN Outcome(w, "On")
        ELSE IF ~ IsIntervalReached(waiting, m)
        THEN Outcome(waiting, IF w.state[m] = "On" THEN "OnWaiting" ELSE w.state[m])
        ELSE IF w.state[m] = "OffWaiting"
        THEN Outcome(Register(waiting, m), "CycleComplete")
        ELSE Outcome(Register(waiting, m), "OffWaiting")

\* Mutant: a machine that has completed a cycle stays there.
M_ToggleProcess_Once(w, m) ==
    LET waiting == IF w.state[m] = "On" THEN Call(w, m, "On") ELSE w
        off(v) == IF IsIntervalReached(v, m)
                  THEN Outcome(Register(v, m), "CycleComplete")
                  ELSE Outcome(v, "OffWaiting")
    IN  IF w.state[m] = "CycleComplete" THEN Outcome(w, "CycleComplete")
        ELSE IF w.state[m] = "OffWaiting" THEN off(w)
        ELSE IF IsIntervalReached(waiting, m)
        THEN off(Call(Register(waiting, m), m, "Off"))
        ELSE Outcome(waiting, "OnWaiting")

(***************************************************************************)
(* The cases fall through: a machine polled late calls On() and Off() in   *)
(* one go, and may complete its cycle in the same step.                    *)
(***************************************************************************)
ToggleProcess(w, m) ==
    LET waiting == IF w.state[m] = "On" THEN Call(w, m, "On") ELSE w
        off(v) == IF IsIntervalReached(v, m)
                  THEN Outcome(Register(v, m), "CycleComplete")
                  ELSE Outcome(v, "OffWaiting")
    IN  IF w.state[m] = "CycleComplete" THEN Outcome(w, "On")
        ELSE IF w.state[m] = "OffWaiting" THEN off(w)
        ELSE IF IsIntervalReached(waiting, m)
        THEN off(Call(Register(waiting, m), m, "Off"))
        ELSE Outcome(waiting, "OnWaiting")

Process(w, m) == IF m \in ToggleMachine THEN ToggleProcess(w, m)
                                        ELSE IntervalProcess(w, m)

\* Mutant: the buffer of a messenger grows.
M_observe_Unbounded(queue, message) == Append(queue, message)

\* ObserverMessenger::observe: put() drops the oldest message of a full buffer.
observe(queue, message) ==
    IF Len(queue) < MessageSize THEN Append(queue, message)
                                ELSE Append(Tail(queue), message)

\* StateMachineObserverMessenger::getMessage, built with DEBUG.
getMessage(w, m) == w.state[m]

\* ObservableArray::notify: the observers of the array, in turn.
notify(queues, message) ==
    [o \in Messenger |-> IF o \in ToSet(observers) THEN observe(queues[o], message)
                                                  ELSE queues[o]]

(***************************************************************************)
(* The observer is told while the machine still has its old state, which   *)
(* is what a messenger reads.  Each messenger has a buffer of its own, so  *)
(* that the order of the observers does not matter.                        *)
(***************************************************************************)
PostProcess(w, m) ==
    IF m # Observed THEN w
    ELSE [w EXCEPT !.messages = notify(@, getMessage(w, m))]

\* Mutant: the observer is told after the change.
M_Execute_ObserverLast(w, m) ==
    LET r == Process(w, m)
        changed == [r.world EXCEPT
            !.state[m] = r.newState,
            !.cycles[m] = @ + (IF r.newState = "CycleComplete" THEN 1 ELSE 0)]
    IN  IF r.newState = w.state[m] THEN r.world ELSE PostProcess(changed, m)

Execute(w, m) ==
    LET r == Process(w, m)
    IN  IF r.newState = w.state[m] THEN r.world
        ELSE [PostProcess(r.world, m) EXCEPT
                !.state[m] = r.newState,
                !.cycles[m] = @ + (IF r.newState = "CycleComplete" THEN 1 ELSE 0)]

\* ProcessCycle of a machine the main loop polls itself.
ProcessCycle(m) ==
    /\ Becomes(Execute(World, m))
    /\ UNCHANGED <<clock, group, step, observers, base>>

\* Mutant: the sequence goes on whether or not the handler is done.
M_SequenceProcess_Impatient(s, done) == IF s + 1 < Len(Order) THEN s + 1 ELSE -1

\* The state that follows s once its handler has returned `done`.
SequenceProcess(s, done) ==
    IF ~ done THEN s ELSE IF s + 1 < Len(Order) THEN s + 1 ELSE -1

\* ProcessCycle of the SequenceStateMachine; -1 is the end of a round.
SequenceProcessCycle ==
    LET s == IF step = -1 THEN 0 ELSE step
        m == Order[s + 1]
        w == Execute(World, m)
    IN  /\ Becomes(w)
        /\ step' = SequenceProcess(s, w.state[m] = "CycleComplete")
        /\ UNCHANGED <<clock, group, observers, base>>

\* ObservableArray::add, while there is room; the caller adds an observer once.
add(o) ==
    /\ o \notin ToSet(observers)
    /\ observers' = Append(observers, o)
    /\ UNCHANGED <<clock, group, step, base, machineVars>>

\* ObserverMessenger::get, of a messenger with something available().
get(o) ==
    /\ messages[o] # << >>
    /\ messages' = [messages EXCEPT ![o] = Tail(@)]
    /\ UNCHANGED <<clock, group, step, observers, base, state,
                   lastActionTimeTarget, calls, reached, cycles>>

\* The program resets a timing group; what is counted for checking starts anew.
Reset(g) ==
    LET reset_(f, v) == [m \in Machine |-> IF group[m] = g THEN v ELSE f[m]]
    IN  /\ reset(g)
        /\ base' = [base EXCEPT ![g] = clock]
        /\ calls' = reset_(calls, << >>)
        /\ reached' = reset_(reached, 0)
        /\ UNCHANGED <<clock, group, state, step, observers, messages, cycles>>

Next ==
    \/ Tick /\ UNCHANGED <<group, step, observers, base, machineVars>>
    \/ \E m \in Machine \ ToSet(Order) : ProcessCycle(m)
    \/ SequenceProcessCycle
    \/ \E o \in Messenger : add(o) \/ get(o)
    \/ \E g \in Group : Reset(g)

(***************************************************************************)
(* The main loop polls every machine it knows again and again.             *)
(***************************************************************************)
Fairness ==
    /\ \A m \in Machine \ ToSet(Order) : WF_vars(ProcessCycle(m))
    /\ WF_vars(SequenceProcessCycle)

Spec == Init /\ [][Next]_vars /\ Fairness

--------------------------------------------------------------------------------
\* The states of a machine, and those that Process may ask for in each.
Successors(st) ==
    CASE st = "Action"        -> {"ActionWaiting", "CycleComplete"}
      [] st = "ActionWaiting" -> {"CycleComplete"}
      [] st = "On"            -> {"OnWaiting", "OffWaiting", "CycleComplete"}
      [] st = "OnWaiting"     -> {"OffWaiting", "CycleComplete"}
      [] st = "OffWaiting"    -> {"CycleComplete"}
      [] st = "CycleComplete" -> {"Action", "On"}

IntervalState == {"Action", "ActionWaiting", "CycleComplete"}
ToggleState == {"On", "OnWaiting", "OffWaiting", "CycleComplete"}

(***************************************************************************)
(* The types of the variables; in particular no machine reaches the state  *)
(* 255 of an unknown one.                                                  *)
(***************************************************************************)
TypeOK ==
    /\ clock \in 0 .. LastTick
    /\ lastActionTimeTarget \in [Group -> 0 .. LastTick]
    /\ group \in [Machine -> Group]
    /\ \A m \in IntervalMachine : state[m] \in IntervalState
    /\ \A m \in ToggleMachine : state[m] \in ToggleState
    /\ step \in -1 .. Len(Order) - 1
    /\ observers \in Seq(Messenger)
    /\ \A o \in Messenger : Len(messages[o]) <= MessageSize
    /\ cycles \in [Machine -> Nat]

(***************************************************************************)
(* No drift: a group's target is ahead of its last reset by the intervals  *)
(* that its machines have registered, no more and no less, however late    *)
(* they were polled and in whatever order; and it is not in the future.    *)
(***************************************************************************)
TargetIsSumOfIntervals ==
    \A g \in Group :
        LET target == lastActionTimeTarget[g]
            members == {m \in Machine : group[m] = g}
        IN  /\ target = MapThenSumSet(LAMBDA m : reached[m] * Interval[m],
                                      members) + base[g]
            /\ target <= clock

(***************************************************************************)
(* On() and Off() alternate: the load that a ToggleStateMachine switches   *)
(* is never left on for a second cycle, also when polls come so late that  *)
(* one of them calls both; and it is on just while the machine waits.      *)
(***************************************************************************)
TogglesAlternate ==
    \A m \in ToggleMachine :
        LET c == calls[m]
        IN  /\ \A i \in 1 .. Len(c) - 1 : c[i] # c[i + 1]
            /\ c # << >> => (Last(c) = "On" <=> state[m] = "OnWaiting")

(***************************************************************************)
(* A handler runs no more often than its interval allows, taken over any   *)
(* time since a reset and whoever else uses the group: catching up after a *)
(* delay never overshoots.                                                 *)
(***************************************************************************)
HandlersKeepTheRate ==
    \A m \in Machine :
        LET n == Len(calls[m])
            elapsed == clock - base[group[m]]
        IN  n > 1 => (n - 1) * Interval[m] <= elapsed

(***************************************************************************)
(* A sequence completes its machines in turn: those before the current one *)
(* are one cycle ahead of the others, and the ones behind it are at rest.  *)
(***************************************************************************)
SequenceInOrder ==
    \A i, j \in DOMAIN Order :
        /\ i < j => cycles[Order[i]] - cycles[Order[j]]
                        = (IF i <= step /\ step < j THEN 1 ELSE 0)
        /\ i # (IF step = -1 THEN 1 ELSE step + 1) =>
               state[Order[i]] \in {"Action", "On", "CycleComplete"}

(***************************************************************************)
(* What a messenger holds, followed by the machine's present state, is a   *)
(* path of the machine: no change of state goes missing between two that   *)
(* are there, whoever was added or read when, and a reader lags by one.    *)
(***************************************************************************)
MessagesLeadToState ==
    \A o \in Messenger :
        LET trail == Append(messages[o], state[Observed])
        IN  \A i \in 1 .. Len(trail) - 1 : trail[i + 1] \in Successors(trail[i])

\* The machines that are polled now: the sequence polls one of its own.
Polled == (Machine \ ToSet(Order))
              \union {Order[IF step = -1 THEN 1 ELSE step + 1]}

(***************************************************************************)
(* Cycles that were missed are made up for: once the clock stands still, a *)
(* main loop that goes on polling leaves no interval over and unregistered.*)
(***************************************************************************)
MissedCyclesAreMadeUp ==
    <>[](\A m \in Polled :
            ~ AtOrAfterTargetTime(lastActionTimeTarget[group[m]], Interval[m]))

(***************************************************************************)
(* "Determine if we are at or after interval + lastActionTimeTarget"       *)
(* (timinggroup.h:56, and again at :62): a machine that was polled goes on *)
(* waiting only before the interval of its state is over.                  *)
(***************************************************************************)
IntervalOverAtTarget ==
    [][\A m \in Machine \ ToSet(Order) :
         ProcessCycle(m) /\ state'[m] \in {"ActionWaiting", "OnWaiting", "OffWaiting"}
             => clock < lastActionTimeTarget'[group[m]] + Interval[m]]_vars

================================================================================
