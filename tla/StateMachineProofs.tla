---------------------------- MODULE StateMachineProofs --------------------------
(***************************************************************************)
(* Proofs about the state machines, for every number of them, of groups,   *)
(* intervals, messengers and handlers of a sequence. What a poll does is   *)
(* first brought to one form, the outcome of Process and its effect, and   *)
(* each invariant is then shown to survive every effect.                   *)
(***************************************************************************)
EXTENDS StateMachine, Induction, TLAPS

\* The states of all machines, and the handlers they call.
State == IntervalState \union ToggleState
Name == {"Action", "On", "Off"}

\* The types of all variables: TypeOK, with those it leaves to the checks.
Typed ==
    /\ clock \in 0 .. LastTick
    /\ lastActionTimeTarget \in [Group -> 0 .. LastTick]
    /\ group \in [Machine -> Group]
    /\ state \in [Machine -> State]
    /\ \A m \in IntervalMachine : state[m] \in IntervalState
    /\ \A m \in ToggleMachine : state[m] \in ToggleState
    /\ step \in -1 .. Len(Order) - 1
    /\ observers \in Seq(Messenger)
    /\ messages \in [Messenger -> Seq(State)]
    /\ \A o \in Messenger : Len(messages[o]) <= MessageSize
    /\ calls \in [Machine -> Seq(Name)]
    /\ reached \in [Machine -> Nat]
    /\ base \in [Group -> 0 .. LastTick]
    /\ cycles \in [Machine -> Nat]

\* The world that m leaves which has called its handlers and registered n intervals.
Left(m, called, n) ==
    [state |-> state,
     target |-> [lastActionTimeTarget EXCEPT ![group[m]] = @ + n * Interval[m]],
     messages |-> messages,
     calls |-> [calls EXCEPT ![m] = called],
     reached |-> [reached EXCEPT ![m] = @ + n],
     cycles |-> cycles]

\* A poll begins with the world as it is.
LEMMA LeftNothing ==
    ASSUME Typed, NEW m \in Machine
    PROVE  World = Left(m, calls[m], 0)
<1>1. Interval[m] \in Nat /\ group[m] \in Group
  BY MachineAssumption DEF Typed
<1>2. lastActionTimeTarget[group[m]] \in Nat /\ reached[m] \in Nat
  BY <1>1 DEF Typed
<1>3. [lastActionTimeTarget EXCEPT ![group[m]] = @ + 0 * Interval[m]] = lastActionTimeTarget
  BY <1>1, <1>2 DEF Typed
<1>4. [reached EXCEPT ![m] = @ + 0] = reached
  BY <1>2 DEF Typed
<1>5. [calls EXCEPT ![m] = calls[m]] = calls
  BY DEF Typed
<1> QED BY <1>3, <1>4, <1>5 DEF World, Left

\* Calling a handler, and registering an interval, lead from such a world to one.
LEMMA LeftCall ==
    ASSUME Typed, NEW m \in Machine, NEW c, NEW n, NEW x
    PROVE  Call(Left(m, c, n), m, x) = Left(m, Append(c, x), n)
BY DEF Call, Left, Typed

\* The second of these, and what the next comparison then compares.
LEMMA LeftRegister ==
    ASSUME Typed, NEW m \in Machine, NEW c, NEW n \in Nat
    PROVE  /\ Register(Left(m, c, n), m) = Left(m, c, n + 1)
           /\ IsIntervalReached(Left(m, c, n), m) <=>
                clock > lastActionTimeTarget[group[m]] + (n + 1) * Interval[m]
<1>1. Interval[m] \in Nat /\ group[m] \in Group
  BY MachineAssumption DEF Typed
<1> DEFINE t == lastActionTimeTarget[group[m]] 
<1>2. t \in Nat /\ reached[m] \in Nat
  BY <1>1 DEF Typed
<1>3. t + n * Interval[m] + Interval[m] = t + (n+1) * Interval[m] /\ n * Interval[m] \in Nat
  BY <1>1, <1>2
<1>4. Left(m, c, n).target[group[m]] = t + n * Interval[m]
  BY <1>1 DEF Left, Typed
<1>5. Left(m, c, n).reached[m] = reached[m] + n
  BY <1>1 DEF Left, Typed
<1>6. [Left(m, c, n).target EXCEPT ![group[m]] = @ + Interval[m]] = Left(m,c,n+1).target
  BY <1>1, <1>3, <1>4 DEF Left, Typed
<1>7. [Left(m, c, n).reached EXCEPT ![m] = @ + 1] = Left(m,c,n+1).reached
  BY <1>2, <1>5 DEF Left, Typed
<1>8. Register(Left(m, c, n), m) = Left(m, c, n + 1)
  <2> DEFINE L == Left(m, c, n)
             T == [L.target EXCEPT ![group[m]] = @ + Interval[m]]
             R == [L.reached EXCEPT ![m] = @ + 1]
  <2>1. Register(L, m) = [L EXCEPT !.target = T, !.reached = R]
    BY DEF Register, NextTarget, Left
  <2>2. T = Left(m, c, n + 1).target /\ R = Left(m, c, n + 1).reached
    BY <1>6, <1>7
  <2> DEFINE targetted ==
               [state |-> state, target |-> T, messages |-> messages,
                calls |-> [calls EXCEPT ![m] = c],
                reached |-> [reached EXCEPT ![m] = @ + n], cycles |-> cycles]
  <2> HIDE DEF T, R
  <2>3. [L EXCEPT !.target = T] = targetted
    BY DEF Left
  <2>4. [targetted EXCEPT !.reached = R] = Left(m, c, n + 1)
    BY <2>2 DEF Left
  <2> HIDE DEF L, targetted
  <2>5. [L EXCEPT !.target = T, !.reached = R] = [[L EXCEPT !.target = T] EXCEPT !.reached = R]
    OBVIOUS
  <2>6. Register(L, m) = Left(m, c, n + 1)
    BY <2>1, <2>3, <2>4, <2>5, Zenon
  <2> QED
    BY <2>6 DEF L
<1>9. IsIntervalReached(Left(m, c, n), m) <=> clock > t + (n + 1) * Interval[m]
  BY <1>3, <1>4 DEF IsIntervalReached, AtOrAfterTargetTime
<1> QED BY <1>8, <1>9

(***************************************************************************)
(* What a poll makes of a machine: from its state to state new, with its   *)
(* handlers called and n intervals registered, each of which was over.     *)
(***************************************************************************)
IntervalOutcome(m, new, called, n) ==
    \/ state[m] = "CycleComplete" /\ new = "Action" /\ called = calls[m] /\ n = 0
    \/ /\ state[m] # "CycleComplete"
       /\ called = IF state[m] = "Action" THEN Append(calls[m], "Action") ELSE calls[m]
       /\ \/ n = 0 /\ new = "ActionWaiting"
          \/ n = 1 /\ new = "CycleComplete"

\* ToggleProcess falls through from one case into the next.
ToggleOutcome(m, new, called, n) ==
    \/ state[m] = "CycleComplete" /\ new = "On" /\ called = calls[m] /\ n = 0
    \/ /\ state[m] = "OffWaiting"
       /\ called = calls[m]
       /\ \/ n = 0 /\ new = "OffWaiting"
          \/ n = 1 /\ new = "CycleComplete"
    \/ LET on == IF state[m] = "On" THEN Append(calls[m], "On") ELSE calls[m]
       IN  /\ state[m] \in {"On", "OnWaiting"}
           /\ \/ n = 0 /\ new = "OnWaiting" /\ called = on
              \/ /\ \/ n = 1 /\ new = "OffWaiting"
                    \/ n = 2 /\ new = "CycleComplete"
                 /\ called = Append(on, "Off")

\* Every interval registered was over: n of them end in the past.
PollOutcome(m, new, called, n) ==
    /\ n \in 0 .. 2
    /\ n > 0 => clock > lastActionTimeTarget[group[m]] + n * Interval[m]
    /\ IF m \in ToggleMachine THEN ToggleOutcome(m, new, called, n)
                             ELSE IntervalOutcome(m, new, called, n)

\* IntervalStateMachine::Process has such an outcome.
LEMMA IntervalProcessOutcome ==
    ASSUME Typed, NEW m \in Machine, m \notin ToggleMachine
    PROVE  \E new, called, n :
               /\ Process(World, m) = Outcome(Left(m, called, n), new)
               /\ PollOutcome(m, new, called, n)
<1> DEFINE c == calls[m]
           d == IF state[m] = "Action" THEN Append(c, "Action") ELSE c
           due == clock > lastActionTimeTarget[group[m]] + 1 * Interval[m]
<1>1. World = Left(m, c, 0) /\ World.state[m] = state[m]
  BY LeftNothing DEF World
<1>2. Process(World, m) = IntervalProcess(Left(m, c, 0), m)
  BY <1>1 DEF Process
<1>3. Left(m, c, 0).state[m] = state[m]
  BY DEF Left
<1>4. (IF state[m] = "Action" THEN Call(Left(m, c, 0), m, "Action") ELSE Left(m, c, 0))
         = Left(m, d, 0)
  BY LeftCall
<1>5. /\ Register(Left(m, d, 0), m) = Left(m, d, 1)
      /\ IsIntervalReached(Left(m, d, 0), m) <=> due
  BY LeftRegister
<1>6. CASE state[m] = "CycleComplete"
  <2>1. Process(World, m) = Outcome(Left(m, c, 0), "Action")
    BY <1>2, <1>3, <1>6 DEF IntervalProcess
  <2>2. PollOutcome(m, "Action", c, 0)
    BY <1>6 DEF PollOutcome, IntervalOutcome
  <2> QED
    BY <2>1, <2>2
<1>7. CASE state[m] # "CycleComplete" /\ due
  <2>1. Process(World, m) = Outcome(Left(m, d, 1), "CycleComplete")
    BY <1>2, <1>3, <1>4, <1>5, <1>7 DEF IntervalProcess
  <2>2. PollOutcome(m, "CycleComplete", d, 1)
    BY <1>7 DEF PollOutcome, IntervalOutcome
  <2> QED
    BY <2>1, <2>2
<1>8. CASE state[m] # "CycleComplete" /\ ~ due
  <2>1. Process(World, m) = Outcome(Left(m, d, 0), "ActionWaiting")
    BY <1>2, <1>3, <1>4, <1>5, <1>8 DEF IntervalProcess
  <2>2. PollOutcome(m, "ActionWaiting", d, 0)
    BY <1>8 DEF PollOutcome, IntervalOutcome
  <2> QED
    BY <2>1, <2>2
<1> QED
  BY <1>6, <1>7, <1>8

\* So has ToggleStateMachine::Process.
LEMMA ToggleProcessOutcome ==
    ASSUME Typed, NEW m \in ToggleMachine
    PROVE  \E new, called, n :
               /\ Process(World, m) = Outcome(Left(m, called, n), new)
               /\ PollOutcome(m, new, called, n)
<1> m \in Machine
  BY DEF Machine
<1> DEFINE c == calls[m]
           d == IF state[m] = "On" THEN Append(c, "On") ELSE c
           e == Append(d, "Off")
           due(n) == clock > lastActionTimeTarget[group[m]] + n * Interval[m]
           off(v) == IF IsIntervalReached(v, m)
                     THEN Outcome(Register(v, m), "CycleComplete")
                     ELSE Outcome(v, "OffWaiting")
<1>1. World = Left(m, c, 0)
  BY LeftNothing
<1>2. Process(World, m) = ToggleProcess(Left(m, c, 0), m)
  BY <1>1 DEF Process
<1>3. Left(m, c, 0).state[m] = state[m]
  BY DEF Left
<1>4. (IF state[m] = "On" THEN Call(Left(m, c, 0), m, "On") ELSE Left(m, c, 0))
         = Left(m, d, 0)
  BY LeftCall
<1>5. /\ Register(Left(m, d, 0), m) = Left(m, d, 1)
      /\ IsIntervalReached(Left(m, d, 0), m) <=> due(1)
      /\ Register(Left(m, c, 0), m) = Left(m, c, 1)
      /\ IsIntervalReached(Left(m, c, 0), m) <=> due(1)
  BY LeftRegister
<1>6. Call(Register(Left(m, d, 0), m), m, "Off") = Left(m, e, 1)
  BY <1>5, LeftCall
<1>7. /\ Register(Left(m, e, 1), m) = Left(m, e, 2)
      /\ IsIntervalReached(Left(m, e, 1), m) <=> due(2)
  BY LeftRegister, 1 \in Nat, 1 + 1 = 2
<1>8. state[m] \in ToggleState
  BY DEF Typed
<1>9. CASE state[m] = "CycleComplete"
  <2>1. Process(World, m) = Outcome(Left(m, c, 0), "On")
    BY <1>2, <1>3, <1>9 DEF ToggleProcess
  <2>2. PollOutcome(m, "On", c, 0)
    BY <1>9 DEF PollOutcome, ToggleOutcome
  <2> QED
    BY <2>1, <2>2
<1>10. CASE state[m] = "OffWaiting"
  <2>1. Process(World, m) = off(Left(m, c, 0))
    BY <1>2, <1>3, <1>10 DEF ToggleProcess
  <2>2. CASE due(1)
    <3>1. Process(World, m) = Outcome(Left(m, c, 1), "CycleComplete")
      BY <2>1, <2>2, <1>5
    <3>2. PollOutcome(m, "CycleComplete", c, 1)
      BY <1>10, <2>2 DEF PollOutcome, ToggleOutcome
    <3> QED
      BY <3>1, <3>2
  <2>3. CASE ~ due(1)
    <3>1. Process(World, m) = Outcome(Left(m, c, 0), "OffWaiting")
      BY <2>1, <2>3, <1>5
    <3>2. PollOutcome(m, "OffWaiting", c, 0)
      BY <1>10 DEF PollOutcome, ToggleOutcome
    <3> QED
      BY <3>1, <3>2
  <2> QED
    BY <2>2, <2>3
<1>11. CASE state[m] \in {"On", "OnWaiting"} /\ ~ due(1)
  <2>1. Process(World, m) = Outcome(Left(m, d, 0), "OnWaiting")
    BY <1>2, <1>3, <1>4, <1>5, <1>11 DEF ToggleProcess
  <2>2. PollOutcome(m, "OnWaiting", d, 0)
    BY <1>11 DEF PollOutcome, ToggleOutcome
  <2> QED
    BY <2>1, <2>2
<1>12. CASE state[m] \in {"On", "OnWaiting"} /\ due(1)
  <2>1. Process(World, m) = off(Left(m, e, 1))
    BY <1>2, <1>3, <1>4, <1>5, <1>6, <1>12 DEF ToggleProcess
  <2>2. CASE due(2)
    <3>1. Process(World, m) = Outcome(Left(m, e, 2), "CycleComplete")
      BY <2>1, <2>2, <1>7
    <3>2. PollOutcome(m, "CycleComplete", e, 2)
      BY <1>12, <2>2 DEF PollOutcome, ToggleOutcome
    <3> QED
      BY <3>1, <3>2
  <2>3. CASE ~ due(2)
    <3>1. Process(World, m) = Outcome(Left(m, e, 1), "OffWaiting")
      BY <2>1, <2>3, <1>7
    <3>2. PollOutcome(m, "OffWaiting", e, 1)
      BY <1>12 DEF PollOutcome, ToggleOutcome
    <3> QED
      BY <3>1, <3>2
  <2> QED
    BY <2>2, <2>3
<1> QED
  BY <1>8, <1>9, <1>10, <1>11, <1>12 DEF ToggleState

\* What a poll changes, given what Process made of it.
Effect(m, new, called, n) ==
    /\ state' = [state EXCEPT ![m] = new]
    /\ lastActionTimeTarget' =
           [lastActionTimeTarget EXCEPT ![group[m]] = @ + n * Interval[m]]
    /\ calls' = [calls EXCEPT ![m] = called]
    /\ reached' = [reached EXCEPT ![m] = @ + n]
    /\ messages' = IF m = Observed /\ new # state[m] THEN notify(messages, state[m])
                                                    ELSE messages
    /\ cycles' = [cycles EXCEPT ![m] =
                     IF new = "CycleComplete" /\ new # state[m] THEN @ + 1 ELSE @]

\* ProcessCycle changes what the outcome of Process says, and cycles and messages.
LEMMA PollEffect ==
    ASSUME Typed, NEW m \in Machine, Becomes(Execute(World, m))
    PROVE  \E new, called, n : PollOutcome(m, new, called, n) /\ Effect(m, new, called, n)
<1>1. PICK new, called, n :
               /\ Process(World, m) = Outcome(Left(m, called, n), new)
               /\ PollOutcome(m, new, called, n)
  BY IntervalProcessOutcome, ToggleProcessOutcome
<1> DEFINE L == Left(m, called, n)
           c == IF new = "CycleComplete" THEN 1 ELSE 0
<1>2. World.state[m] = state[m] /\ L.state = state /\ L.cycles = cycles
  BY DEF World, Left
<1>3. Process(World, m).newState = new /\ Process(World, m).world = L
  BY <1>1 DEF Outcome
<1>4. CASE new = state[m]
  <2>1. Becomes(L)
    BY <1>2, <1>3, <1>4 DEF Execute
  <2>2. state = [state EXCEPT ![m] = new] /\ cycles = [cycles EXCEPT ![m] = @]
    BY <1>4 DEF Typed
  <2>3. Effect(m, new, called, n)
    BY <2>1, <2>2, <1>4 DEF Becomes, Left, Effect
  <2> QED
    BY <2>3, <1>1
<1>5. CASE new # state[m]
  <2> DEFINE M == IF m # Observed THEN messages ELSE notify(messages, state[m])
             N == [state |-> state, target |-> L.target, messages |-> M,
                   calls |-> L.calls, reached |-> L.reached, cycles |-> cycles]
             S == [state EXCEPT ![m] = new]
             C == [cycles EXCEPT ![m] = @ + c]
             O == [state |-> S, target |-> L.target, messages |-> M,
                   calls |-> L.calls, reached |-> L.reached, cycles |-> cycles]
  <2>1. PostProcess(L, m) = N
    BY DEF PostProcess, Left, getMessage
  <2>2. Execute(World, m) =
           [PostProcess(L, m) EXCEPT !.state[m] = new, !.cycles[m] = @ + c]
    BY <1>2, <1>3, <1>5, Zenon DEF Execute
  <2>3. [N EXCEPT !.state[m] = new, !.cycles[m] = @ + c]
           = [N EXCEPT !.state = S, !.cycles = C]
    OBVIOUS
  <2>4. [N EXCEPT !.state = S] = O
    OBVIOUS
  <2> HIDE DEF N, S, C
  <2>6. [N EXCEPT !.state = S, !.cycles = C] = [[N EXCEPT !.state = S] EXCEPT !.cycles = C]
    OBVIOUS
  <2>7. Execute(World, m) = [O EXCEPT !.cycles = C]
    BY <2>1, <2>2, <2>3, <2>4, <2>6, Zenon
  <2>8. /\ state' = S /\ cycles' = C /\ messages' = M
        /\ lastActionTimeTarget' = L.target /\ calls' = L.calls /\ reached' = L.reached
    BY <2>7 DEF Becomes
  <2>9. C = [cycles EXCEPT ![m] = IF new = "CycleComplete" /\ new # state[m]
                                  THEN @ + 1 ELSE @]
    <3>1. cycles[m] \in Nat
      BY DEF Typed
    <3>2. cycles[m] + c = IF new = "CycleComplete" /\ new # state[m]
                          THEN cycles[m] + 1 ELSE cycles[m]
      BY <3>1, <1>5
    <3> QED
      BY <3>2 DEF C
  <2>10. Effect(m, new, called, n)
    BY <2>8, <2>9, <1>5 DEF S, Effect, Left
  <2> QED
    BY <2>10, <1>1
<1> QED
  BY <1>4, <1>5

\* An outcome is typed, and no target passes the clock.
LEMMA OutcomeTyped ==
    ASSUME Typed, NEW m \in Machine, NEW new, NEW called, NEW n,
           PollOutcome(m, new, called, n)
    PROVE  /\ m \in IntervalMachine => new \in IntervalState
           /\ m \in ToggleMachine => new \in ToggleState
           /\ new \in State /\ called \in Seq(Name)
           /\ n \in 0 .. 2
           /\ lastActionTimeTarget[group[m]] + n * Interval[m] \in 0 .. LastTick
           /\ Interval[m] \in Nat \ {0} /\ group[m] \in Group
<1>1. Interval[m] \in Nat \ {0} /\ group[m] \in Group
  BY MachineAssumption DEF Typed
<1>2. calls[m] \in Seq(Name) /\ lastActionTimeTarget[group[m]] \in 0 .. LastTick
  BY <1>1 DEF Typed
<1>3. n \in 0 .. 2
  BY DEF PollOutcome
<1>4. n * Interval[m] \in Nat
  BY <1>1, <1>3
<1>5. lastActionTimeTarget[group[m]] + n * Interval[m] \in 0 .. LastTick
  <2>1. CASE n = 0
    BY <2>1, <1>1, <1>2
  <2>2. CASE n > 0
    BY <2>2, <1>2, <1>4, TickAssumption DEF PollOutcome, Typed
  <2> QED
    BY <1>3, <2>1, <2>2
<1>6. CASE m \in ToggleMachine
  <2>1. new \in ToggleState
    BY <1>6 DEF PollOutcome, ToggleOutcome, ToggleState
  <2>2. {"On", "Off"} \subseteq Name
    BY DEF Name
  <2>3. (IF state[m] = "On" THEN Append(calls[m], "On") ELSE calls[m]) \in Seq(Name)
    BY <1>2, <2>2
  <2>4. called \in Seq(Name)
    BY <1>2, <1>6, <2>2, <2>3 DEF PollOutcome, ToggleOutcome
  <2> QED
    BY <1>1, <1>3, <1>5, <1>6, <2>1, <2>4, MachineAssumption DEF State
<1>7. CASE m \notin ToggleMachine
  <2>1. new \in IntervalState
    BY <1>7 DEF PollOutcome, IntervalOutcome, IntervalState
  <2>2. called \in Seq(Name)
    BY <1>2, <1>7 DEF PollOutcome, IntervalOutcome, Name
  <2> QED
    BY <1>1, <1>3, <1>5, <1>7, <2>1, <2>2 DEF State
<1> QED
  BY <1>6, <1>7

\* A full buffer drops its oldest message and keeps its size.
LEMMA observeTyped ==
    ASSUME NEW q \in Seq(State), Len(q) <= MessageSize, NEW x \in State
    PROVE  observe(q, x) \in Seq(State) /\ Len(observe(q, x)) <= MessageSize
<1>1. MessageSize \in Nat \ {0}
  BY MachineAssumption
<1>2. CASE Len(q) < MessageSize
  BY <1>1, <1>2 DEF observe
<1>3. CASE Len(q) = MessageSize
  <2>1. q # << >>
    BY <1>1, <1>3
  <2>2. Tail(q) \in Seq(State) /\ Len(Tail(q)) = Len(q) - 1
    BY <2>1
  <2> QED
    BY <1>1, <1>3, <2>2 DEF observe
<1> QED
  BY <1>1, <1>2, <1>3

\* A poll by the main loop or the sequence, whatever becomes of the step.
Poll(m) ==
    /\ \E new, called, n : PollOutcome(m, new, called, n) /\ Effect(m, new, called, n)
    /\ UNCHANGED <<clock, group, observers, base>>

\* A poll keeps the types.
LEMMA PollTyped ==
    ASSUME Typed, NEW m \in Machine, Poll(m), step' \in -1 .. Len(Order) - 1
    PROVE  Typed'
<1>1. PICK new, called, n : PollOutcome(m, new, called, n) /\ Effect(m, new, called, n)
  BY DEF Poll
<1>2. /\ m \in IntervalMachine => new \in IntervalState
      /\ m \in ToggleMachine => new \in ToggleState
      /\ new \in State /\ called \in Seq(Name)
      /\ n \in 0 .. 2
      /\ lastActionTimeTarget[group[m]] + n * Interval[m] \in 0 .. LastTick
      /\ Interval[m] \in Nat \ {0} /\ group[m] \in Group
  BY <1>1, OutcomeTyped
<1> DEFINE t == lastActionTimeTarget[group[m]] + n * Interval[m]
<1>3. lastActionTimeTarget' \in [Group -> 0 .. LastTick]
  <2>1. lastActionTimeTarget' = [lastActionTimeTarget EXCEPT ![group[m]] = t]
    BY <1>1 DEF Effect
  <2>2. t \in 0 .. LastTick
    BY <1>2
  <2> HIDE DEF t
  <2> QED
    BY <2>1, <2>2, <1>2 DEF Typed
<1>4. /\ state' \in [Machine -> State]
      /\ \A k \in IntervalMachine : state'[k] \in IntervalState
      /\ \A k \in ToggleMachine : state'[k] \in ToggleState
  BY <1>1, <1>2 DEF Typed, Effect, Machine
<1>5. calls' \in [Machine -> Seq(Name)] /\ reached' \in [Machine -> Nat]
  <2>1. reached \in [Machine -> Nat] /\ reached[m] \in Nat
    BY DEF Typed
  <2>2. reached[m] + n \in Nat
    BY <2>1, <1>2
  <2>3. reached' \in [Machine -> Nat]
    BY <2>1, <2>2, <1>1 DEF Effect
  <2>4. calls' \in [Machine -> Seq(Name)]
    BY <1>1, <1>2 DEF Effect, Typed
  <2> QED
    BY <2>3, <2>4
<1>6. cycles' \in [Machine -> Nat]
  <2>1. cycles \in [Machine -> Nat] /\ cycles[m] \in Nat /\ cycles[m] + 1 \in Nat
    BY DEF Typed
  <2> QED
    BY <2>1, <1>1 DEF Effect
<1>7. /\ messages' \in [Messenger -> Seq(State)]
      /\ \A o \in Messenger : Len(messages'[o]) <= MessageSize
  <2>1. \A o \in Messenger : /\ observe(messages[o], state[m]) \in Seq(State)
                            /\ Len(observe(messages[o], state[m])) <= MessageSize
    BY observeTyped DEF Typed
  <2>2. CASE m = Observed /\ new # state[m]
    <3>1. messages' = notify(messages, state[m])
      BY <2>2, <1>1 DEF Effect
    <3> QED
      BY <3>1, <2>1 DEF notify, Typed
  <2>3. CASE ~ (m = Observed /\ new # state[m])
    BY <2>3, <1>1 DEF Effect, Typed
  <2> QED
    BY <2>2, <2>3
<1>8. UNCHANGED <<clock, group, observers, base>>
  BY DEF Poll
<1> QED
  BY <1>3, <1>4, <1>5, <1>6, <1>7, <1>8 DEF Typed

\* The sequence polls the machine of its step, and stays inside its array.
LEMMA SequencePolls ==
    ASSUME Typed, SequenceProcessCycle
    PROVE  LET s == IF step = -1 THEN 0 ELSE step
               m == Order[s + 1]
           IN  /\ s \in 0 .. Len(Order) - 1 /\ m \in Machine
               /\ Poll(m)
               /\ step' = SequenceProcess(s, state'[m] = "CycleComplete")
               /\ step' \in -1 .. Len(Order) - 1
<1> DEFINE s == IF step = -1 THEN 0 ELSE step
           m == Order[s + 1]
<1>1. Len(Order) \in Nat \ {0}
  BY MachineAssumption
<1>2. s \in 0 .. Len(Order) - 1
  BY <1>1 DEF Typed
<1>3. m \in Machine
  BY <1>1, <1>2, MachineAssumption
<1>4. Becomes(Execute(World, m)) /\ UNCHANGED <<clock, group, observers, base>>
  BY DEF SequenceProcessCycle
<1>5. step' = SequenceProcess(s, state'[m] = "CycleComplete")
  BY <1>4 DEF SequenceProcessCycle, Becomes
<1>6. Poll(m)
  BY <1>3, <1>4, PollEffect DEF Poll
<1>7. step' \in -1 .. Len(Order) - 1
  BY <1>1, <1>2, <1>5 DEF SequenceProcess
<1> QED
  BY <1>2, <1>3, <1>5, <1>6, <1>7

\* Every step keeps the types.
LEMMA NextTyped ==
    Typed /\ [Next]_vars => Typed'
<1> SUFFICES ASSUME Typed, [Next]_vars PROVE Typed'
  OBVIOUS
<1>1. CASE Tick /\ UNCHANGED <<group, step, observers, base, machineVars>>
  BY <1>1, TickAssumption DEF Tick, machineVars, Typed
<1>2. ASSUME NEW m \in Machine \ ToSet(Order), ProcessCycle(m) PROVE Typed'
  <2>1. Poll(m) /\ UNCHANGED step
    BY <1>2, PollEffect DEF ProcessCycle, Poll
  <2> QED
    BY <2>1, PollTyped DEF Typed
<1>3. CASE SequenceProcessCycle
  BY <1>3, SequencePolls, PollTyped
<1>4. ASSUME NEW o \in Messenger, add(o) PROVE Typed'
  BY <1>4 DEF add, machineVars, Typed
<1>5. ASSUME NEW o \in Messenger, get(o) PROVE Typed'
  <2>1. /\ messages[o] \in Seq(State) /\ messages[o] # << >>
        /\ Len(messages[o]) <= MessageSize
    BY <1>5 DEF get, Typed
  <2>2. Tail(messages[o]) \in Seq(State) /\ Len(Tail(messages[o])) = Len(messages[o]) - 1
    BY <2>1
  <2>3. Len(messages[o]) \in Nat /\ MessageSize \in Nat
    BY <2>1, MachineAssumption
  <2>4. Len(Tail(messages[o])) <= MessageSize
    BY <2>1, <2>2, <2>3
  <2>5. messages' = [messages EXCEPT ![o] = Tail(messages[o])]
    BY <1>5 DEF get
  <2>6. messages' \in [Messenger -> Seq(State)]
    BY <2>2, <2>5 DEF Typed
  <2>7. \A k \in Messenger : Len(messages'[k]) <= MessageSize
    BY <2>4, <2>5 DEF Typed
  <2> QED
    BY <1>5, <2>6, <2>7 DEF get, Typed
<1>6. ASSUME NEW g \in Group, Reset(g) PROVE Typed'
  BY <1>6 DEF Reset, reset, Typed
<1>7. CASE UNCHANGED vars
  BY <1>7 DEF vars, machineVars, Typed
<1> QED
  BY <1>1, <1>2, <1>3, <1>4, <1>5, <1>6, <1>7 DEF Next

\* They hold when the program starts.
LEMMA InitTyped ==
    Init => Typed
<1> SUFFICES ASSUME Init PROVE Typed
  OBVIOUS
<1>1. clock \in 0 .. LastTick /\ lastActionTimeTarget \in [Group -> 0 .. LastTick]
  BY TickAssumption DEF Init, TimingInit
<1>2. group \in [Machine -> Group] /\ base \in [Group -> 0 .. LastTick]
  BY MachineAssumption, TickAssumption DEF Init
<1>3. /\ state \in [Machine -> State]
      /\ \A m \in IntervalMachine : state[m] \in IntervalState
      /\ \A m \in ToggleMachine : state[m] \in ToggleState
  BY MachineAssumption DEF Init, Machine, State, IntervalState, ToggleState
<1>4. step \in -1 .. Len(Order) - 1
  <2>1. Len(Order) \in Nat \ {0}
    BY MachineAssumption
  <2> QED
    BY <2>1 DEF Init
<1>5. /\ observers \in Seq(Messenger) /\ messages \in [Messenger -> Seq(State)]
      /\ calls \in [Machine -> Seq(Name)]
  BY DEF Init
<1>6. \A o \in Messenger : Len(messages[o]) <= MessageSize
  BY MachineAssumption DEF Init
<1>7. reached \in [Machine -> Nat] /\ cycles \in [Machine -> Nat]
  BY DEF Init
<1> QED
  BY <1>1, <1>2, <1>3, <1>4, <1>5, <1>6, <1>7 DEF Typed

\* So they always hold.
LEMMA AlwaysTyped == Spec => []Typed
BY InitTyped, NextTyped, PTL DEF Spec

(***************************************************************************)
(* No machine reaches the state of an unknown one, the sequence stays      *)
(* inside its array, no target passes the clock and no messenger           *)
(* overflows, whatever polls, resets, additions and reads there are.       *)
(***************************************************************************)
THEOREM TypeCorrect == Spec => []TypeOK
<1>1. Typed => TypeOK
  BY DEF Typed, TypeOK
<1> QED
  BY <1>1, AlwaysTyped, PTL

--------------------------------------------------------------------------------
\* The states in which a machine waits for its interval.
Waits == {"ActionWaiting", "OnWaiting", "OffWaiting"}

\* A handler is called once per interval, at its beginning.
CallsCounted ==
    \A m \in Machine :
        IF state[m] \in Waits THEN Len(calls[m]) <= reached[m] + 1
                             ELSE Len(calls[m]) <= reached[m]

(***************************************************************************)
(* The target of a group is behind its last reset by the intervals that    *)
(* any one of its machines registered, at least, and it is in the past.    *)
(***************************************************************************)
TargetsAhead ==
    /\ \A g \in Group :
          /\ base[g] <= lastActionTimeTarget[g] /\ base[g] <= clock
          /\ lastActionTimeTarget[g] = base[g] \/ lastActionTimeTarget[g] < clock
    /\ \A m \in Machine :
          base[group[m]] + reached[m] * Interval[m] <= lastActionTimeTarget[group[m]]

\* Multiples grow with what is multiplied.
LEMMA Products ==
    ASSUME NEW a \in Nat, NEW b \in Nat, NEW i \in Nat
    PROVE  /\ a * i \in Nat
           /\ (a + b) * i = a * i + b * i
           /\ a <= b => a * i <= b * i
<1>1. a * i \in Nat /\ (a + b) * i = a * i + b * i
  OBVIOUS
<1>2. ASSUME a <= b PROVE a * i <= b * i
  <2>1. b - a \in Nat /\ (b - a) * i \in Nat
    BY <1>2
  <2>2. b * i = a * i + (b - a) * i
    OBVIOUS
  <2> QED
    BY <1>1, <2>1, <2>2
<1> QED
  BY <1>1, <1>2

\* Process calls a handler where an interval begins, never inside it.
LEMMA PollCounted ==
    ASSUME Typed, CallsCounted, NEW m \in Machine, Poll(m)
    PROVE  CallsCounted'
<1>1. PICK new, called, n : PollOutcome(m, new, called, n) /\ Effect(m, new, called, n)
  BY DEF Poll
<1>2. /\ m \in IntervalMachine => new \in IntervalState
      /\ m \in ToggleMachine => new \in ToggleState
      /\ called \in Seq(Name) /\ n \in 0 .. 2
  BY <1>1, OutcomeTyped
<1>3. calls[m] \in Seq(Name) /\ reached[m] \in Nat /\ Len(calls[m]) \in Nat
  BY DEF Typed
<1>4. IF state[m] \in Waits THEN Len(calls[m]) <= reached[m] + 1
                            ELSE Len(calls[m]) <= reached[m]
  BY DEF CallsCounted
<1>5. IF new \in Waits THEN Len(called) <= reached[m] + n + 1
                      ELSE Len(called) <= reached[m] + n
  <2> DEFINE on == IF state[m] = "On" THEN Append(calls[m], "On") ELSE calls[m]
  <2>1. /\ \A x \in Name : Len(Append(calls[m], x)) = Len(calls[m]) + 1
        /\ {"Action", "On", "Off"} = Name
    BY <1>3 DEF Name
  <2>2. /\ on \in Seq(Name) /\ Len(on) \in Nat
        /\ state[m] = "On" => Len(on) = Len(calls[m]) + 1
        /\ state[m] # "On" => Len(on) = Len(calls[m])
    <3>1. CASE state[m] = "On"
      BY <3>1, <1>3, <2>1
    <3>2. CASE state[m] # "On"
      BY <3>2, <1>3
    <3> QED
      BY <3>1, <3>2
  <2>3. Len(Append(on, "Off")) = Len(on) + 1
    BY <2>1, <2>2
  <2> HIDE DEF on
  <2>4. CASE m \in ToggleMachine
    <3>1. state[m] \in ToggleState
      BY <2>4 DEF Typed
    <3>2. CASE state[m] \in {"CycleComplete", "OffWaiting"}
      <4>1. called = calls[m] /\ (state[m] \in Waits => n = 1 \/ new \in Waits)
        BY <1>1, <2>4, <3>2 DEF PollOutcome, ToggleOutcome, Waits
      <4> QED
        BY <4>1, <1>2, <1>3, <1>4
    <3>3. CASE state[m] \in {"On", "OnWaiting"}
      <4>1. Len(on) <= reached[m] + 1
        BY <1>3, <1>4, <2>2, <3>3 DEF Waits
      <4>2. \/ called = on /\ new \in Waits
            \/ called = Append(on, "Off") /\ n = 1 /\ new \in Waits
            \/ called = Append(on, "Off") /\ n = 2
        BY <1>1, <2>4, <3>3 DEF PollOutcome, ToggleOutcome, on, Waits
      <4>3. Len(on) \in Nat
        BY <2>2
      <4> QED
        BY <4>1, <4>2, <4>3, <1>2, <1>3, <2>3
    <3> QED
      BY <3>1, <3>2, <3>3 DEF ToggleState
  <2>5. CASE m \notin ToggleMachine
    BY <1>1, <1>3, <1>4, <2>1, <2>5 DEF PollOutcome, IntervalOutcome, Waits
  <2> QED
    BY <2>4, <2>5
<1>6. /\ calls' = [calls EXCEPT ![m] = called] /\ state' = [state EXCEPT ![m] = new]
      /\ reached' = [reached EXCEPT ![m] = @ + n]
  BY <1>1 DEF Effect
<1>7. calls'[m] = called /\ state'[m] = new /\ reached'[m] = reached[m] + n
  BY <1>6 DEF Typed
<1>8. \A k \in Machine \ {m} :
          calls'[k] = calls[k] /\ state'[k] = state[k] /\ reached'[k] = reached[k]
  BY <1>6 DEF Typed
<1> QED
  BY <1>5, <1>7, <1>8 DEF CallsCounted

\* Process registers only what is over, in its own group.
LEMMA PollTargets ==
    ASSUME Typed, TargetsAhead, NEW m \in Machine, Poll(m)
    PROVE  TargetsAhead'
<1>1. PICK new, called, n : PollOutcome(m, new, called, n) /\ Effect(m, new, called, n)
  BY DEF Poll
<1> DEFINE i == Interval[m]
           t == lastActionTimeTarget[group[m]]
<1>2. n \in 0 .. 2 /\ i \in Nat /\ group[m] \in Group /\ t \in Nat
  BY <1>1, OutcomeTyped DEF Typed
<1>3. n * i \in Nat /\ (n = 0 => n * i = 0)
  BY <1>2
<1>4. n > 0 => t + n * i < clock
  BY <1>1 DEF PollOutcome
<1>5. UNCHANGED <<clock, group, base>>
  BY DEF Poll
<1>6. lastActionTimeTarget' = [lastActionTimeTarget EXCEPT ![group[m]] = t + n * i]
  BY <1>1 DEF Effect
<1>7. /\ lastActionTimeTarget'[group[m]] = t + n * i
      /\ \A g \in Group \ {group[m]} : lastActionTimeTarget'[g] = lastActionTimeTarget[g]
  BY <1>2, <1>6 DEF Typed
<1>8. /\ reached'[m] = reached[m] + n
      /\ \A k \in Machine \ {m} : reached'[k] = reached[k]
  BY <1>1 DEF Effect, Typed
<1>9. \A g \in Group : lastActionTimeTarget[g] \in Nat /\ base[g] \in Nat
  BY DEF Typed
<1>10. clock \in Nat
  BY DEF Typed
<1> HIDE DEF i, t
<1>11. ASSUME NEW g \in Group
       PROVE  /\ base'[g] <= lastActionTimeTarget'[g] /\ base'[g] <= clock'
              /\ lastActionTimeTarget'[g] = base'[g] \/ lastActionTimeTarget'[g] < clock'
  <2>1. /\ base[g] <= lastActionTimeTarget[g] /\ base[g] <= clock
        /\ lastActionTimeTarget[g] = base[g] \/ lastActionTimeTarget[g] < clock
    BY DEF TargetsAhead
  <2>2. CASE g = group[m]
    BY <2>1, <2>2, <1>2, <1>3, <1>4, <1>5, <1>7, <1>9, <1>10 DEF t
  <2>3. CASE g # group[m]
    BY <2>1, <2>3, <1>5, <1>7
  <2> QED
    BY <2>2, <2>3
<1>12. ASSUME NEW k \in Machine
       PROVE  base'[group'[k]] + reached'[k] * Interval[k]
                  <= lastActionTimeTarget'[group'[k]]
  <2>1. base[group[k]] + reached[k] * Interval[k] <= lastActionTimeTarget[group[k]]
    BY DEF TargetsAhead
  <2>2. group[k] \in Group /\ reached[k] \in Nat /\ Interval[k] \in Nat
    BY MachineAssumption DEF Typed
  <2>3. reached[k] * Interval[k] \in Nat
    BY <2>2
  <2>4. lastActionTimeTarget[group[k]] <= lastActionTimeTarget'[group[k]]
    BY <1>2, <1>3, <1>7, <1>9, <2>2 DEF t
  <2>5. CASE k = m
    <3>1. reached'[m] * i = reached[m] * i + n * i
      BY <1>2, <1>8, <2>2, <2>5, Products
    <3> QED
      BY <3>1, <2>1, <2>2, <2>3, <2>5, <1>2, <1>3, <1>5, <1>7, <1>9 DEF t, i
  <2>6. CASE k # m
    <3>1. lastActionTimeTarget'[group[k]] \in Nat
      BY <1>2, <1>3, <1>7, <1>9, <2>2 
    <3> QED
      BY <3>1, <2>1, <2>2, <2>3, <2>4, <2>6, <1>5, <1>8, <1>9
  <2> QED
    BY <2>5, <2>6
<1> QED
  BY <1>11, <1>12 DEF TargetsAhead

\* What the sequence makes of its step when it polls m.
Sequenced(m) ==
    LET s == IF step = -1 THEN 0 ELSE step
    IN  /\ s \in 0 .. Len(Order) - 1 /\ m = Order[s + 1]
        /\ step' = SequenceProcess(s, state'[m] = "CycleComplete")

\* The steps there are, polls of the main loop and of the sequence taken together.
LEMMA Steps ==
    ASSUME Typed, [Next]_vars
    PROVE  \/ Tick /\ UNCHANGED <<group, step, observers, base, machineVars>>
           \/ \E m \in Machine :
                 /\ Poll(m)
                 /\ \/ m \notin ToSet(Order) /\ UNCHANGED step
                    \/ Sequenced(m)
           \/ \E o \in Messenger : add(o) \/ get(o)
           \/ \E g \in Group : Reset(g)
           \/ UNCHANGED vars
<1>1. ASSUME NEW m \in Machine \ ToSet(Order), ProcessCycle(m)
      PROVE  Poll(m) /\ UNCHANGED step
  BY <1>1, PollEffect DEF ProcessCycle, Poll
<1>2. ASSUME SequenceProcessCycle
      PROVE  \E m \in Machine : Poll(m) /\ Sequenced(m)
  BY <1>2, SequencePolls DEF Sequenced
<1> QED
  BY <1>1, <1>2 DEF Next

\* Every step keeps the count.
LEMMA NextCounted ==
    Typed /\ CallsCounted /\ [Next]_vars => CallsCounted'
<1> SUFFICES ASSUME Typed, CallsCounted, [Next]_vars PROVE CallsCounted'
  OBVIOUS
<1>1. CASE \E m \in Machine : Poll(m)
  BY <1>1, PollCounted
<1>2. ASSUME NEW g \in Group, Reset(g) PROVE CallsCounted'
  <2> SUFFICES ASSUME NEW m \in Machine
               PROVE  IF state'[m] \in Waits THEN Len(calls'[m]) <= reached'[m] + 1
                                             ELSE Len(calls'[m]) <= reached'[m]
    BY DEF CallsCounted
  <2>1. CASE group[m] = g
    <3>1. calls'[m] = << >> /\ reached'[m] = 0
      BY <1>2, <2>1 DEF Reset
    <3> QED
      BY <3>1
  <2>2. CASE group[m] # g
    <3>1. calls'[m] = calls[m] /\ reached'[m] = reached[m] /\ state' = state
      BY <1>2, <2>2 DEF Reset
    <3> QED
      BY <3>1 DEF CallsCounted
  <2> QED
    BY <2>1, <2>2
<1>3. CASE UNCHANGED <<state, calls, reached>>
  BY <1>3 DEF CallsCounted
<1> QED
  BY <1>1, <1>2, <1>3, Steps DEF machineVars, vars, add, get

\* Every step keeps the targets ahead of what was registered, and in the past.
LEMMA NextTargets ==
    Typed /\ TargetsAhead /\ [Next]_vars => TargetsAhead'
<1> SUFFICES ASSUME Typed, TargetsAhead, [Next]_vars PROVE TargetsAhead'
  OBVIOUS
<1>1. CASE \E m \in Machine : Poll(m)
  BY <1>1, PollTargets
<1>2. CASE Tick /\ UNCHANGED <<group, step, observers, base, machineVars>>
  <2>1. clock' = clock + 1 /\ UNCHANGED <<group, base, reached, lastActionTimeTarget>>
    BY <1>2 DEF Tick, machineVars
  <2>2. \A g \in Group : base[g] \in Nat /\ lastActionTimeTarget[g] \in Nat
    BY DEF Typed
  <2>3. clock \in Nat
    BY DEF Typed
  <2> QED
    BY <2>1, <2>2, <2>3 DEF TargetsAhead
<1>3. ASSUME NEW g \in Group, Reset(g) PROVE TargetsAhead'
  <2>1. /\ lastActionTimeTarget' = [lastActionTimeTarget EXCEPT ![g] = clock]
        /\ base' = [base EXCEPT ![g] = clock]
        /\ UNCHANGED <<clock, group>>
    BY <1>3 DEF Reset, reset
  <2>2. /\ lastActionTimeTarget'[g] = clock /\ base'[g] = clock
        /\ \A h \in Group \ {g} : /\ lastActionTimeTarget'[h] = lastActionTimeTarget[h]
                                 /\ base'[h] = base[h]
    BY <2>1 DEF Typed
  <2>3. clock \in Nat
    BY DEF Typed
  <2>4. ASSUME NEW m \in Machine
        PROVE  base'[group'[m]] + reached'[m] * Interval[m]
                   <= lastActionTimeTarget'[group'[m]]
    <3>1. group[m] \in Group /\ Interval[m] \in Nat
      BY MachineAssumption DEF Typed
    <3>2. CASE group[m] = g
      <4>1. reached'[m] = 0
        BY <1>3, <3>2 DEF Reset
      <4>2. 0 * Interval[m] = 0
        BY <3>1
      <4> QED
        BY <4>1, <4>2, <2>1, <2>2, <2>3, <3>2
    <3>3. CASE group[m] # g
      <4>1. reached'[m] = reached[m]
        BY <1>3, <3>3 DEF Reset
      <4> QED
        BY <4>1, <2>1, <2>2, <3>1, <3>3 DEF TargetsAhead
    <3> QED
      BY <3>2, <3>3
  <2>5. \A h \in Group :
          /\ base'[h] <= lastActionTimeTarget'[h] /\ base'[h] <= clock'
          /\ lastActionTimeTarget'[h] = base'[h] \/ lastActionTimeTarget'[h] < clock'
    BY <2>1, <2>2, <2>3 DEF TargetsAhead
  <2> QED
    BY <2>4, <2>5 DEF TargetsAhead
<1>4. CASE UNCHANGED <<clock, group, base, lastActionTimeTarget, reached>>
  BY <1>4 DEF TargetsAhead
<1> QED
  BY <1>1, <1>2, <1>3, <1>4, Steps DEF machineVars, vars, add, get

\* Nothing was called or registered when the program starts.
LEMMA InitCountedAndAhead ==
    Init => CallsCounted /\ TargetsAhead
<1> SUFFICES ASSUME Init PROVE CallsCounted /\ TargetsAhead
  OBVIOUS
<1>1. CallsCounted
  BY DEF Init, CallsCounted
<1>2. \A m \in Machine : group[m] \in Group /\ Interval[m] \in Nat
  BY MachineAssumption DEF Init
<1>3. \A m \in Machine : 0 * Interval[m] = 0
  BY <1>2
<1>4. TargetsAhead
  BY <1>2, <1>3 DEF Init, TimingInit, TargetsAhead
<1> QED
  BY <1>1, <1>4

\* The intervals between n calls were registered, hence have passed.
LEMMA RateFollows ==
    Typed /\ CallsCounted /\ TargetsAhead => HandlersKeepTheRate
<1> SUFFICES ASSUME Typed, CallsCounted, TargetsAhead, NEW m \in Machine,
                    Len(calls[m]) > 1
             PROVE  (Len(calls[m]) - 1) * Interval[m] <= clock - base[group[m]]
  BY DEF HandlersKeepTheRate
<1> DEFINE n == Len(calls[m]) - 1
           r == reached[m]
           i == Interval[m]
           t == lastActionTimeTarget[group[m]]
           b == base[group[m]]
<1>1. calls[m] \in Seq(Name) /\ r \in Nat /\ group[m] \in Group /\ clock \in Nat
  BY DEF Typed
<1>2. n \in Nat /\ n > 0
  <2>1. Len(calls[m]) \in Nat
    BY <1>1
  <2> QED
    BY <2>1
<1>3. n <= r
  BY <1>1, <1>2 DEF CallsCounted
<1>4. i \in Nat \ {0} /\ b \in Nat /\ t \in Nat
  BY <1>1, MachineAssumption DEF Typed
<1>5. b + r * i <= t /\ (t = b \/ t < clock)
  BY <1>1 DEF TargetsAhead
<1>6. n * i <= r * i /\ n * i \in Nat /\ r * i \in Nat
  BY <1>1, <1>2, <1>3, <1>4, Products
<1>7. n * i > 0
  BY <1>2, <1>4
<1> HIDE DEF n, r, i, t, b
<1>8. n * i <= clock - b
  BY <1>1, <1>4, <1>5, <1>6, <1>7
<1> QED
  BY <1>8 DEF n, i, b

(***************************************************************************)
(* A handler runs no more often than its interval allows, however late the *)
(* polls of Process come and whoever else registers intervals in the       *)
(* timing group of the machine.                                            *)
(***************************************************************************)
THEOREM Rate == Spec => []HandlersKeepTheRate
<1>1. Init => Typed /\ CallsCounted /\ TargetsAhead
  BY InitTyped, InitCountedAndAhead
<1>2. Typed /\ CallsCounted /\ TargetsAhead /\ [Next]_vars
          => Typed' /\ CallsCounted' /\ TargetsAhead'
  BY NextTyped, NextCounted, NextTargets
<1> QED
  BY <1>1, <1>2, RateFollows, PTL DEF Spec

--------------------------------------------------------------------------------
\* The time that the intervals registered by the machines of M add up to.
Registered(r, M) == MapThenSumSet(LAMBDA m : r[m] * Interval[m], M)

\* The recursive function that MapThenSumSet takes the sum from, and its equation.
Sum(f, r, s) == IF s = {} THEN 0
                ELSE LET x == CHOOSE x \in s : TRUE
                     IN  r[x] * Interval[x] + f[s \ {x}]

\* f solves it on the sets of D.
Adds(f, r, D) == f = [s \in D |-> Sum(f, r, s)]

\* The equation has a solution for finite M: one for the sets of each size.
LEMMA RegisteredAdds ==
    ASSUME NEW r, NEW M, IsFiniteSet(M)
    PROVE  \E sum : Registered(r, M) = sum[M] /\ Adds(sum, r, SUBSET M)
<1> DEFINE D(n) == {s \in SUBSET M : Cardinality(s) <= n}
           T == {n \in Nat : \E sum : Adds(sum, r, D(n))}
<1>1. \A s \in SUBSET M : /\ Cardinality(s) \in Nat
                          /\ Cardinality(s) = 0 <=> s = {}
                          /\ \A x \in s : Cardinality(s \ {x}) = Cardinality(s) - 1
  <2> SUFFICES ASSUME NEW s \in SUBSET M
               PROVE  /\ Cardinality(s) \in Nat
                      /\ Cardinality(s) = 0 <=> s = {}
                      /\ \A x \in s : Cardinality(s \ {x}) = Cardinality(s) - 1
    OBVIOUS
  <2>1. IsFiniteSet(s)
    BY FS_Subset
  <2> QED
    BY <2>1, FS_CardinalityType, FS_EmptySet, FS_RemoveElement
<1>2. 0 \in T
  <2> DEFINE f == [s \in D(0) |-> 0]
  <2>1. \A s \in D(0) : s = {}
    BY <1>1
  <2>2. Adds(f, r, D(0))
    BY <2>1 DEF Adds, Sum
  <2> QED
    BY <2>2
<1>3. ASSUME NEW n \in Nat, n \in T PROVE n + 1 \in T
  <2>1. PICK f : Adds(f, r, D(n))
    BY <1>3
  <2> DEFINE g == [s \in D(n + 1) |-> Sum(f, r, s)]
  <2>2. \A s \in D(n) : s \in D(n + 1) /\ g[s] = f[s]
    BY <1>1, <2>1 DEF Adds
  <2>3. ASSUME NEW s \in D(n + 1) PROVE Sum(g, r, s) = Sum(f, r, s)
    <3>1. CASE s = {}
      BY <3>1 DEF Sum
    <3>2. CASE s # {}
      <4> DEFINE x == CHOOSE x \in s : TRUE
      <4>1. x \in s
        BY <3>2
      <4>2. s \ {x} \in D(n)
        <5> HIDE DEF x
        <5>1. Cardinality(s) <= n + 1 /\ s \in SUBSET M
          OBVIOUS
        <5>2. Cardinality(s \ {x}) = Cardinality(s) - 1 /\ Cardinality(s) \in Nat
          BY <1>1, <4>1, <5>1
        <5> QED
          BY <5>1, <5>2
      <4>3. g[s \ {x}] = f[s \ {x}]
        BY <2>2, <4>2
      <4> QED
        BY <4>3 DEF Sum
    <3> QED
      BY <3>1, <3>2
  <2>4. g = [s \in D(n + 1) |-> Sum(g, r, s)]
    BY <2>3
  <2> HIDE DEF g
  <2>5. Adds(g, r, D(n + 1))
    BY <2>4 DEF Adds
  <2>6. n + 1 \in Nat
    OBVIOUS
  <2> HIDE DEF D
  <2> QED
    BY <2>5, <2>6
<1> HIDE DEF T
<1>4. Cardinality(M) \in T
  BY <1>1, <1>2, <1>3, Induct
<1>5. D(Cardinality(M)) = SUBSET M
  BY FS_Subset, FS_CardinalityType
<1>6. \E sum : Adds(sum, r, SUBSET M)
  BY <1>4, <1>5 DEF T
<1> DEFINE sum == CHOOSE f : Adds(f, r, SUBSET M)
<1>7. Adds(sum, r, SUBSET M)
  BY <1>6
<1>8. Registered(r, M) = sum[M]
  BY Zenon DEF Registered, MapThenSumSet, MapThenFoldSet, Adds, Sum
<1> QED
  BY <1>7, <1>8

\* One machine registers n intervals more, and the sum grows by that much.
LEMMA RegisteredMore ==
    ASSUME NEW r \in [Machine -> Nat], NEW q \in [Machine -> Nat],
           NEW M \in SUBSET Machine, IsFiniteSet(M), NEW m \in Machine, NEW n \in Nat,
           \A k \in M \ {m} : q[k] = r[k],
           m \in M => q[m] = r[m] + n
    PROVE  /\ Registered(r, M) \in Nat
           /\ m \in M => Registered(q, M) = Registered(r, M) + n * Interval[m]
           /\ m \notin M => Registered(q, M) = Registered(r, M)
<1>1. PICK f : Registered(r, M) = f[M] /\ Adds(f, r, SUBSET M)
  BY RegisteredAdds
<1>2. PICK g : Registered(q, M) = g[M] /\ Adds(g, q, SUBSET M)
  BY RegisteredAdds
<1> DEFINE Fits(s) == /\ f[s] \in Nat
                      /\ m \in s => g[s] = f[s] + n * Interval[m]
                      /\ m \notin s => g[s] = f[s]
           B == {s \in SUBSET M : ~ Fits(s)}
<1>3. \A k \in Machine : Interval[k] \in Nat
  BY MachineAssumption
<1>4. n * Interval[m] \in Nat
  BY <1>3
<1>5. ASSUME NEW s \in SUBSET M, \A x \in s : Fits(s \ {x}) PROVE Fits(s)
  <2>1. f[s] = Sum(f, r, s) /\ g[s] = Sum(g, q, s)
    BY <1>1, <1>2 DEF Adds
  <2>2. CASE s = {}
    BY <2>1, <2>2 DEF Sum
  <2>3. CASE s # {}
    <3> DEFINE x == CHOOSE x \in s : TRUE
    <3>1. x \in s
      BY <2>3
    <3>2. f[s] = r[x] * Interval[x] + f[s \ {x}] /\ g[s] = q[x] * Interval[x] + g[s \ {x}]
      BY <2>1, <2>3 DEF Sum
    <3> HIDE DEF x
    <3>3. Fits(s \ {x})
      BY <1>5, <3>1
    <3>4. r[x] \in Nat /\ Interval[x] \in Nat /\ r[x] * Interval[x] \in Nat
      BY <1>3, <3>1
    <3>5. CASE x = m
      <4>1. m \notin s \ {x} /\ m \in s
        BY <3>1, <3>5
      <4>2. g[s \ {x}] = f[s \ {x}] /\ f[s \ {x}] \in Nat
        BY <3>3, <4>1
      <4>3. q[x] * Interval[x] = r[x] * Interval[x] + n * Interval[m]
        BY <3>1, <3>4, <3>5, Products
      <4> HIDE DEF Fits
      <4>4. f[s] \in Nat /\ g[s] = f[s] + n * Interval[m]
        BY <1>4, <3>2, <3>4, <4>2, <4>3
      <4> QED
        BY <4>1, <4>4 DEF Fits
    <3>6. CASE x # m
      <4>1. q[x] = r[x] /\ (m \in s \ {x} <=> m \in s)
        BY <3>1, <3>6
      <4>2. f[s \ {x}] \in Nat
        BY <3>3
      <4>3. m \in s => g[s \ {x}] = f[s \ {x}] + n * Interval[m]
        BY <3>3, <4>1
      <4>4. m \notin s => g[s \ {x}] = f[s \ {x}]
        BY <3>3, <4>1
      <4> HIDE DEF Fits
      <4>5. /\ f[s] \in Nat
            /\ m \in s => g[s] = f[s] + n * Interval[m]
            /\ m \notin s => g[s] = f[s]
        BY <1>4, <3>2, <3>4, <4>1, <4>2, <4>3, <4>4
      <4> QED
        BY <4>5 DEF Fits
    <3> QED
      BY <3>5, <3>6
  <2> QED
    BY <2>2, <2>3
<1>6. B = {}
  <2> SUFFICES ASSUME B # {} PROVE FALSE
    OBVIOUS
  <2>1. PICK s \in B : \A x \in s : s \ {x} \notin B
    <3> HIDE DEF Fits
    <3> QED
      BY Minimal
  <2> HIDE DEF Fits
  <2>2. s \in SUBSET M /\ \A x \in s : Fits(s \ {x})
    BY <2>1
  <2> QED
    BY <2>1, <2>2, <1>5
<1>7. Fits(M)
  <2> HIDE DEF Fits
  <2> QED
    BY <1>6
<1> QED
  BY <1>1, <1>2, <1>7

\* Nothing was registered since a reset.
LEMMA RegisteredNone ==
    ASSUME NEW r, NEW M \in SUBSET Machine, IsFiniteSet(M), \A k \in M : r[k] = 0
    PROVE  Registered(r, M) = 0
<1>1. PICK f : Registered(r, M) = f[M] /\ Adds(f, r, SUBSET M)
  BY RegisteredAdds
<1> DEFINE B == {s \in SUBSET M : f[s] # 0}
<1>2. ASSUME NEW s \in SUBSET M, \A x \in s : f[s \ {x}] = 0 PROVE f[s] = 0
  <2>1. f[s] = Sum(f, r, s)
    BY <1>1 DEF Adds
  <2>2. CASE s # {}
    <3> DEFINE x == CHOOSE x \in s : TRUE
    <3>1. x \in s
      BY <2>2
    <3>2. f[s] = r[x] * Interval[x] + f[s \ {x}]
      BY <2>1, <2>2 DEF Sum
    <3>3. r[x] = 0 /\ Interval[x] \in Nat /\ f[s \ {x}] = 0
      BY <1>2, <3>1, MachineAssumption
    <3> HIDE DEF x
    <3> QED
      BY <3>2, <3>3
  <2> QED
    BY <2>1, <2>2 DEF Sum
<1>3. B = {}
  <2> SUFFICES ASSUME B # {} PROVE FALSE
    OBVIOUS
  <2>1. PICK s \in B : \A x \in s : s \ {x} \notin B
    BY Minimal
  <2> QED
    BY <2>1, <1>2
<1> QED
  BY <1>1, <1>3

\* The machines of a timing group.
Members(g) == {m \in Machine : group[m] = g}

\* The sum of TargetIsSumOfIntervals.
AddsUp ==
    \A g \in Group :
        lastActionTimeTarget[g] = Registered(reached, Members(g)) + base[g]

\* A poll registers in one group, for one machine.
LEMMA PollAddsUp ==
    ASSUME Typed, AddsUp, NEW m \in Machine, Poll(m)
    PROVE  AddsUp'
<1>1. PICK new, called, n : PollOutcome(m, new, called, n) /\ Effect(m, new, called, n)
  BY DEF Poll
<1>2. n \in Nat /\ Interval[m] \in Nat /\ group[m] \in Group
  BY <1>1, OutcomeTyped
<1>3. /\ reached \in [Machine -> Nat] /\ reached[m] \in Nat
      /\ reached' = [reached EXCEPT ![m] = @ + n]
  BY <1>1 DEF Effect, Typed
<1>4. /\ reached' \in [Machine -> Nat] /\ reached'[m] = reached[m] + n
      /\ \A k \in Machine \ {m} : reached'[k] = reached[k]
  <2>1. reached[m] + n \in Nat
    BY <1>2, <1>3
  <2> QED
    BY <1>3, <2>1
<1>5. UNCHANGED <<group, base>>
  BY DEF Poll
<1>6. lastActionTimeTarget' =
          [lastActionTimeTarget EXCEPT ![group[m]] = @ + n * Interval[m]]
  BY <1>1 DEF Effect
<1> SUFFICES ASSUME NEW g \in Group
             PROVE  lastActionTimeTarget'[g] = Registered(reached', Members(g)) + base[g]
  BY <1>5 DEF AddsUp, Members
<1>7. Members(g) \in SUBSET Machine /\ IsFiniteSet(Members(g))
  BY MachineAssumption, FS_Subset DEF Members
<1>8. /\ Registered(reached, Members(g)) \in Nat
      /\ m \in Members(g) => Registered(reached', Members(g))
                                = Registered(reached, Members(g)) + n * Interval[m]
      /\ m \notin Members(g) => Registered(reached', Members(g))
                                = Registered(reached, Members(g))
  <2>1. /\ \A k \in Members(g) \ {m} : reached'[k] = reached[k]
        /\ m \in Members(g) => reached'[m] = reached[m] + n
    BY <1>4, <1>7
  <2>2. reached \in [Machine -> Nat] /\ reached' \in [Machine -> Nat] /\ n \in Nat
    BY <1>2, <1>3, <1>4
  <2> QED
    BY <2>1, <2>2, <1>7, RegisteredMore
<1>9. lastActionTimeTarget[g] = Registered(reached, Members(g)) + base[g]
  BY DEF AddsUp
<1>10. n * Interval[m] \in Nat /\ base[g] \in Nat
  BY <1>2 DEF Typed
<1>11. CASE group[m] = g
  <2>1. m \in Members(g)
    BY <1>11 DEF Members
  <2>2. lastActionTimeTarget'[g] = lastActionTimeTarget[g] + n * Interval[m]
    BY <1>6, <1>11 DEF Typed
  <2> QED
    BY <2>1, <2>2, <1>8, <1>9, <1>10
<1>12. CASE group[m] # g
  <2>1. m \notin Members(g)
    BY <1>12 DEF Members
  <2>2. lastActionTimeTarget'[g] = lastActionTimeTarget[g]
    BY <1>6, <1>12 DEF Typed
  <2> QED
    BY <2>1, <2>2, <1>8, <1>9
<1> QED
  BY <1>11, <1>12

\* A reset begins a new sum in its group and leaves the others alone.
LEMMA ResetAddsUp ==
    ASSUME Typed, AddsUp, NEW h \in Group, Reset(h)
    PROVE  AddsUp'
<1>1. /\ lastActionTimeTarget' = [lastActionTimeTarget EXCEPT ![h] = clock]
      /\ base' = [base EXCEPT ![h] = clock]
      /\ reached' = [m \in Machine |-> IF group[m] = h THEN 0 ELSE reached[m]]
      /\ UNCHANGED group
  BY DEF Reset, reset
<1> SUFFICES ASSUME NEW g \in Group
             PROVE  lastActionTimeTarget'[g] = Registered(reached', Members(g)) + base'[g]
  BY <1>1 DEF AddsUp, Members
<1>2. Members(g) \in SUBSET Machine /\ IsFiniteSet(Members(g))
  BY MachineAssumption, FS_Subset DEF Members
<1>3. CASE g = h
  <2>1. \A k \in Members(g) : reached'[k] = 0
    BY <1>1, <1>3 DEF Members
  <2>2. Registered(reached', Members(g)) = 0
    BY <1>2, <2>1, RegisteredNone
  <2>3. lastActionTimeTarget'[g] = clock /\ base'[g] = clock /\ clock \in Nat
    BY <1>1, <1>3 DEF Typed
  <2> QED
    BY <2>2, <2>3
<1>4. CASE g # h
  <2>1. reached \in [Machine -> Nat] /\ reached' \in [Machine -> Nat]
    BY <1>1 DEF Typed
  <2>2. \A k \in Members(g) : reached'[k] = reached[k]
    BY <1>1, <1>4 DEF Members
  <2>3. Registered(reached', Members(g)) = Registered(reached, Members(g))
    <3>1. /\ Observed \in Machine /\ 0 \in Nat
          /\ 0 * Interval[Observed] = 0
      BY MachineAssumption
    <3>2. /\ Registered(reached, Members(g)) \in Nat
          /\ Observed \in Members(g) => Registered(reached', Members(g))
                 = Registered(reached, Members(g)) + 0 * Interval[Observed]
          /\ Observed \notin Members(g) => Registered(reached', Members(g))
                 = Registered(reached, Members(g))
      <4>1. Observed \in Members(g) => reached'[Observed] = reached[Observed] + 0
        BY <2>1, <2>2, <3>1
      <4> QED
        BY <1>2, <2>1, <2>2, <3>1, <4>1, RegisteredMore
    <3> QED
      BY <3>1, <3>2
  <2>4. lastActionTimeTarget'[g] = lastActionTimeTarget[g] /\ base'[g] = base[g]
    BY <1>1, <1>4 DEF Typed
  <2> QED
    BY <2>3, <2>4 DEF AddsUp
<1> QED
  BY <1>3, <1>4

(***************************************************************************)
(* The target of a timing group is its last reset plus the intervals its   *)
(* machines registered, exactly: NextTarget counts from when an interval   *)
(* was due, for any number of machines that share the group.               *)
(***************************************************************************)
THEOREM NoDrift == Spec => []TargetIsSumOfIntervals
<1>1. Init => Typed /\ AddsUp /\ TargetsAhead
  <2> SUFFICES ASSUME Init PROVE AddsUp
    BY InitTyped, InitCountedAndAhead
  <2>1. /\ \A g \in Group : lastActionTimeTarget[g] = 0 /\ base[g] = 0
        /\ \A m \in Machine : reached[m] = 0
    BY DEF Init, TimingInit
  <2>2. \A g \in Group : Members(g) \in SUBSET Machine /\ IsFiniteSet(Members(g))
    BY MachineAssumption, FS_Subset DEF Members
  <2>3. \A g \in Group : Registered(reached, Members(g)) = 0
    BY <2>1, <2>2, RegisteredNone
  <2> SUFFICES ASSUME NEW g \in Group
               PROVE  lastActionTimeTarget[g] = Registered(reached, Members(g)) + base[g]
    BY DEF AddsUp
  <2>4. 0 = 0 + 0
    OBVIOUS
  <2> QED
    BY <2>1, <2>3, <2>4
<1>2. Typed /\ AddsUp /\ TargetsAhead /\ [Next]_vars => Typed' /\ AddsUp' /\ TargetsAhead'
  <2> SUFFICES ASSUME Typed, AddsUp, [Next]_vars PROVE AddsUp'
    BY NextTyped, NextTargets
  <2>1. CASE \E m \in Machine : Poll(m)
    BY <2>1, PollAddsUp
  <2>2. ASSUME NEW g \in Group, Reset(g) PROVE AddsUp'
    BY <2>2, ResetAddsUp
  <2>3. CASE UNCHANGED <<group, reached, base, lastActionTimeTarget>>
    BY <2>3 DEF AddsUp, Members
  <2> QED
    BY <2>1, <2>2, <2>3, Steps DEF machineVars, vars, add, get, Tick
<1>3. Typed /\ AddsUp /\ TargetsAhead => TargetIsSumOfIntervals
  <2> SUFFICES ASSUME Typed, AddsUp, TargetsAhead PROVE TargetIsSumOfIntervals
    OBVIOUS
  <2>1. ASSUME NEW g \in Group PROVE lastActionTimeTarget[g] <= clock
    <3>1. clock \in Nat /\ lastActionTimeTarget[g] \in Nat /\ base[g] \in Nat
      BY TickAssumption DEF Typed
    <3>2. base[g] <= clock /\ (lastActionTimeTarget[g] = base[g] \/ lastActionTimeTarget[g] < clock)
      BY DEF TargetsAhead
    <3> QED
      BY <3>1, <3>2
  <2> QED
    BY <2>1 DEF AddsUp, Registered, Members, TargetIsSumOfIntervals
<1> QED
  BY <1>1, <1>2, <1>3, PTL DEF Spec

--------------------------------------------------------------------------------
\* No handler is called twice in a row.
Alternates(c) == \A i \in 1 .. Len(c) - 1 : c[i] # c[i + 1]

\* A call of the other handler goes on alternating.
LEMMA AppendAlternates ==
    ASSUME NEW c \in Seq(Name), NEW x \in Name, Alternates(c), c # << >> => Last(c) # x
    PROVE  Alternates(Append(c, x)) /\ Last(Append(c, x)) = x /\ Append(c, x) # << >>
<1> DEFINE d == Append(c, x)
<1>1. /\ Len(c) \in Nat /\ Len(d) = Len(c) + 1
      /\ \A i \in 1 .. Len(c) : d[i] = c[i]
      /\ d[Len(c) + 1] = x
  OBVIOUS
<1>2. ASSUME NEW i \in 1 .. Len(d) - 1 PROVE d[i] # d[i + 1]
  <2>1. CASE i < Len(c)
    BY <2>1, <1>1 DEF Alternates
  <2>2. CASE i = Len(c)
    <3>1. c # << >>
      BY <2>2
    <3> QED
      BY <3>1, <2>2, <1>1 DEF Last
  <2> QED
    BY <2>1, <2>2, <1>1
<1> QED
  BY <1>1, <1>2 DEF Alternates, Last

\* ToggleProcess calls On() after CycleComplete only, and Off() after On() only.
LEMMA PollAlternates ==
    ASSUME Typed, TogglesAlternate, NEW m \in Machine, Poll(m)
    PROVE  TogglesAlternate'
<1>1. PICK new, called, n : PollOutcome(m, new, called, n) /\ Effect(m, new, called, n)
  BY DEF Poll
<1>2. \A k \in Machine \ {m} : calls'[k] = calls[k] /\ state'[k] = state[k]
  BY <1>1 DEF Effect, Typed
<1>3. calls'[m] = called /\ state'[m] = new
  BY <1>1 DEF Effect, Typed
<1> DEFINE Good(c, st) == Alternates(c) /\ (c # << >> => (Last(c) = "On" <=> st = "OnWaiting"))
<1>4. ASSUME m \in ToggleMachine PROVE Good(called, new)
  <2> DEFINE c == calls[m]
             on == IF state[m] = "On" THEN Append(c, "On") ELSE c
  <2>1. c \in Seq(Name) /\ state[m] \in ToggleState /\ {"On", "Off"} \subseteq Name
    BY <1>4 DEF Typed, Name
  <2>2. Good(c, state[m])
    BY <1>4 DEF TogglesAlternate, Alternates
  <2>3. CASE state[m] \in {"CycleComplete", "OffWaiting"}
    <3>1. called = c /\ new # "OnWaiting"
      BY <1>1, <1>4, <2>3 DEF PollOutcome, ToggleOutcome
    <3> QED
      BY <3>1, <2>2, <2>3
  <2>4. CASE state[m] \in {"On", "OnWaiting"}
    <3>1. on \in Seq(Name) /\ Alternates(on) /\ (on # << >> => Last(on) = "On")
      <4>1. CASE state[m] = "On"
        BY <4>1, <2>1, <2>2, AppendAlternates
      <4>2. CASE state[m] = "OnWaiting"
        BY <4>2, <2>1, <2>2
      <4> QED
        BY <4>1, <4>2, <2>4
    <3>2. /\ Alternates(Append(on, "Off"))
          /\ Last(Append(on, "Off")) = "Off" /\ Append(on, "Off") # << >>
      BY <3>1, <2>1, AppendAlternates
    <3>3. \/ called = on /\ new = "OnWaiting"
          \/ called = Append(on, "Off") /\ new # "OnWaiting"
      BY <1>1, <1>4, <2>4 DEF PollOutcome, ToggleOutcome
    <3> HIDE DEF on, c
    <3> QED
      BY <3>1, <3>2, <3>3
  <2> QED
    BY <2>1, <2>3, <2>4 DEF ToggleState
<1> SUFFICES ASSUME NEW k \in ToggleMachine PROVE Good(calls'[k], state'[k])
  BY DEF TogglesAlternate, Alternates
<1>5. CASE k = m
  BY <1>3, <1>4, <1>5
<1>6. CASE k # m
  <2>1. Good(calls[k], state[k])
    BY DEF TogglesAlternate, Alternates
  <2> QED
    BY <1>2, <1>6, <2>1 DEF Machine
<1> QED
  BY <1>5, <1>6

(***************************************************************************)
(* On() and Off() alternate in every behaviour, and the load is on just    *)
(* while ToggleProcess waits for the end of its On interval, also after a  *)
(* reset of the timing group.                                              *)
(***************************************************************************)
THEOREM Alternating == Spec => []TogglesAlternate
<1>1. Init => TogglesAlternate
  BY DEF Init, TogglesAlternate, Machine
<1>2. Typed /\ TogglesAlternate /\ [Next]_vars => TogglesAlternate'
  <2> SUFFICES ASSUME Typed, TogglesAlternate, [Next]_vars PROVE TogglesAlternate'
    OBVIOUS
  <2>1. CASE \E m \in Machine : Poll(m)
    BY <2>1, PollAlternates
  <2>2. ASSUME NEW g \in Group, Reset(g) PROVE TogglesAlternate'
    <3>1. \A m \in ToggleMachine : /\ calls'[m] = << >> \/ calls'[m] = calls[m]
                                   /\ state'[m] = state[m]
      BY <2>2 DEF Reset, Machine
    <3> QED
      BY <3>1 DEF TogglesAlternate
  <2>3. CASE UNCHANGED <<state, calls>>
    BY <2>3 DEF TogglesAlternate
  <2> QED
    BY <2>1, <2>2, <2>3, Steps DEF machineVars, vars, add, get
<1> QED
  BY <1>1, <1>2, AlwaysTyped, PTL DEF Spec

--------------------------------------------------------------------------------
\* A path of a machine.
IsPath(trail) == \A i \in 1 .. Len(trail) - 1 : trail[i + 1] \in Successors(trail[i])

\* Whoever has not been added yet knows nothing.
Relayed ==
    /\ MessagesLeadToState
    /\ \A o \in Messenger \ ToSet(observers) : messages[o] = << >>

\* A path is one without its first state: a message read or dropped.
LEMMA TailIsPath ==
    ASSUME NEW q \in Seq(State), q # << >>, NEW st \in State, IsPath(Append(q, st))
    PROVE  IsPath(Append(Tail(q), st))
<1> DEFINE a == Append(Tail(q), st)
           b == Append(q, st)
<1>1. /\ Tail(q) \in Seq(State) /\ Len(Tail(q)) = Len(q) - 1 /\ Len(q) \in Nat
      /\ \A i \in 1 .. Len(q) - 1 : Tail(q)[i] = q[i + 1]
  OBVIOUS
<1>2. /\ Len(a) = Len(q) /\ Len(b) = Len(q) + 1
      /\ \A i \in 1 .. Len(q) - 1 : a[i] = Tail(q)[i]
      /\ a[Len(q)] = st
      /\ \A i \in 1 .. Len(q) : b[i] = q[i]
      /\ b[Len(q) + 1] = st
  BY <1>1
<1> HIDE DEF a, b
<1>3. ASSUME NEW i \in 1 .. Len(q) PROVE a[i] = b[i + 1]
  <2>1. CASE i = Len(q)
    BY <2>1, <1>2
  <2>2. CASE i < Len(q)
    <3>1. a[i] = Tail(q)[i] /\ Tail(q)[i] = q[i + 1] /\ b[i + 1] = q[i + 1]
      BY <2>2, <1>1, <1>2
    <3> QED
      BY <3>1
  <2>3. Len(q) \in Nat
    BY <1>1
  <2> QED
    BY <2>1, <2>2, <2>3
<1>4. ASSUME NEW i \in 1 .. Len(a) - 1 PROVE a[i + 1] \in Successors(a[i])
  <2>1. i \in 1 .. Len(q) /\ i + 1 \in 1 .. Len(q)
    BY <1>1, <1>2
  <2>2. a[i] = b[i + 1] /\ a[i + 1] = b[i + 1 + 1] /\ i + 1 \in 1 .. Len(b) - 1
    BY <2>1, <1>1, <1>2, <1>3
  <2> QED
    BY <2>2 DEF IsPath, b
<1> QED
  BY <1>4 DEF IsPath, a

\* A path goes on with the old state, that observe() keeps, and the new one.
LEMMA PathGoesOn ==
    ASSUME NEW q \in Seq(State), NEW st \in State, NEW new \in Successors(st),
           IsPath(Append(q, st))
    PROVE  IsPath(Append(observe(q, st), new))
<1> DEFINE next(r) == Append(Append(r, st), new)
<1>1. ASSUME NEW r \in Seq(State), IsPath(Append(r, st)) PROVE IsPath(next(r))
  <2>1. /\ Len(r) \in Nat /\ Len(Append(r, st)) = Len(r) + 1
        /\ Append(r, st) \in Seq(State)
        /\ Append(r, st)[Len(r) + 1] = st
    OBVIOUS
  <2>2. /\ Len(next(r)) = Len(r) + 2
        /\ \A i \in 1 .. Len(r) + 1 : next(r)[i] = Append(r, st)[i]
        /\ next(r)[Len(r) + 2] = new
    BY <2>1
  <2> SUFFICES ASSUME NEW i \in 1 .. Len(next(r)) - 1
               PROVE  next(r)[i + 1] \in Successors(next(r)[i])
    BY DEF IsPath
  <2> HIDE DEF next
  <2>3. CASE i <= Len(r)
    <3>1. next(r)[i] = Append(r, st)[i] /\ next(r)[i + 1] = Append(r, st)[i + 1]
      BY <2>1, <2>2, <2>3
    <3> QED
      BY <3>1, <2>1, <2>3, <1>1 DEF IsPath
  <2>4. CASE i = Len(r) + 1
    <3>1. next(r)[i] = st /\ next(r)[i + 1] = new
      BY <2>1, <2>2, <2>4
    <3> QED
      BY <3>1
  <2> QED
    BY <2>1, <2>2, <2>3, <2>4
<1>2. CASE Len(q) < MessageSize
  BY <1>1, <1>2 DEF observe
<1>3. CASE ~ (Len(q) < MessageSize)
  <2>1. q # << >>
    BY <1>3, MachineAssumption
  <2>2. Tail(q) \in Seq(State)
    BY <2>1
  <2>3. IsPath(Append(Tail(q), st))
    BY <2>1, TailIsPath
  <2>4. IsPath(next(Tail(q)))
    BY <2>2, <2>3, <1>1
  <2> QED
    BY <2>4, <1>3 DEF observe
<1> QED
  BY <1>2, <1>3

\* Process asks for successors of the state it finds.
LEMMA OutcomeIsSuccessor ==
    ASSUME Typed, NEW m \in Machine, NEW new, NEW called, NEW n,
           PollOutcome(m, new, called, n), new # state[m]
    PROVE  new \in Successors(state[m])
<1>1. CASE m \in ToggleMachine
  BY <1>1 DEF PollOutcome, ToggleOutcome, Successors
<1>2. CASE m \notin ToggleMachine
  <2>1. state[m] \in IntervalState
    BY <1>2 DEF Typed, Machine
  <2> QED
    BY <1>2, <2>1 DEF PollOutcome, IntervalOutcome, Successors, IntervalState
<1> QED
  BY <1>1, <1>2

\* A poll tells everyone in the array of each change, and nobody else.
LEMMA PollRelayed ==
    ASSUME Typed, Relayed, NEW m \in Machine, Poll(m)
    PROVE  Relayed'
<1>1. PICK new, called, n : PollOutcome(m, new, called, n) /\ Effect(m, new, called, n)
  BY DEF Poll
<1>2. state'[m] = new /\ \A k \in Machine \ {m} : state'[k] = state[k]
  BY <1>1 DEF Effect, Typed
<1>3. UNCHANGED observers /\ Observed \in Machine
  BY MachineAssumption DEF Poll
<1>4. CASE m = Observed /\ new # state[m]
  <2>1. \A o \in Messenger : messages'[o] = IF o \in ToSet(observers)
                                           THEN observe(messages[o], state[m])
                                           ELSE messages[o]
    BY <1>1, <1>4 DEF Effect, notify
  <2>2. \A o \in Messenger \ ToSet(observers') : messages'[o] = << >>
    BY <2>1, <1>3 DEF Relayed
  <2>3. ASSUME NEW o \in Messenger
        PROVE  IsPath(Append(messages'[o], state'[Observed]))
    <3>1. CASE o \in ToSet(observers)
      <4>1. /\ messages[o] \in Seq(State) /\ state[m] \in State
            /\ IsPath(Append(messages[o], state[m]))
        BY <1>4 DEF Typed, Relayed, MessagesLeadToState, IsPath
      <4>2. new \in Successors(state[m])
        BY <1>1, <1>4, OutcomeIsSuccessor
      <4> QED
        BY <1>2, <1>4, <2>1, <3>1, <4>1, <4>2, PathGoesOn
    <3>2. CASE o \notin ToSet(observers)
      <4>1. messages'[o] = << >>
        BY <2>1, <3>2 DEF Relayed
      <4>2. Len(Append(<< >>, state'[Observed])) = 1
        OBVIOUS
      <4> QED
        BY <4>1, <4>2 DEF IsPath
    <3> QED
      BY <3>1, <3>2
  <2> QED
    BY <2>2, <2>3 DEF Relayed, MessagesLeadToState, IsPath
<1>5. CASE ~ (m = Observed /\ new # state[m])
  <2>1. messages' = messages /\ state'[Observed] = state[Observed]
    BY <1>1, <1>2, <1>3, <1>5 DEF Effect
  <2> QED
    BY <1>3, <2>1 DEF Relayed, MessagesLeadToState
<1> QED
  BY <1>4, <1>5

\* add() comes with an empty buffer, and get() takes the first message.
LEMMA AlwaysRelayed == Spec => []Relayed
<1>1. Init => Relayed
  <2>1. \A st : Len(Append(<< >>, st)) = 1
    OBVIOUS
  <2>2. \A o \in Messenger : Init => messages[o] = << >>
    BY DEF Init
  <2> QED
    BY <2>1, <2>2 DEF Relayed, MessagesLeadToState
<1>2. Typed /\ Relayed /\ [Next]_vars => Relayed'
  <2> SUFFICES ASSUME Typed, Relayed, [Next]_vars PROVE Relayed'
    OBVIOUS
  <2>1. CASE \E m \in Machine : Poll(m)
    BY <2>1, PollRelayed
  <2>2. ASSUME NEW o \in Messenger, add(o) PROVE Relayed'
    <3>1. observers' = Append(observers, o) /\ UNCHANGED <<state, messages>>
      BY <2>2 DEF add, machineVars
    <3>2. ToSet(observers) \subseteq ToSet(observers')
      <4>1. /\ observers \in Seq(Messenger) /\ Len(observers') = Len(observers) + 1
            /\ \A i \in 1 .. Len(observers) : observers'[i] = observers[i]
            /\ DOMAIN observers = 1 .. Len(observers)
            /\ DOMAIN observers' = 1 .. Len(observers')
        BY <3>1 DEF Typed
      <4>2. Len(observers) \in Nat
        BY <4>1
      <4> QED
        BY <4>1, <4>2 DEF ToSet
    <3> QED
      BY <3>1, <3>2 DEF Relayed, MessagesLeadToState
  <2>3. ASSUME NEW o \in Messenger, get(o) PROVE Relayed'
    <3>1. /\ UNCHANGED <<state, observers>>
          /\ messages[o] \in Seq(State) /\ messages[o] # << >>
          /\ messages'[o] = Tail(messages[o])
          /\ \A q \in Messenger \ {o} : messages'[q] = messages[q]
      BY <2>3 DEF get, Typed
    <3>2. state[Observed] \in State
      BY MachineAssumption DEF Typed
    <3>3. IsPath(Append(messages[o], state[Observed]))
      BY DEF Relayed, MessagesLeadToState, IsPath
    <3>4. IsPath(Append(messages'[o], state'[Observed]))
      BY <3>1, <3>2, <3>3, TailIsPath
    <3>5. o \in ToSet(observers)
      BY <3>1 DEF Relayed
    <3> QED
      BY <3>1, <3>4, <3>5 DEF Relayed, MessagesLeadToState, IsPath
  <2>4. CASE UNCHANGED <<state, observers, messages>>
    BY <2>4 DEF Relayed, MessagesLeadToState
  <2> QED
    BY <2>1, <2>2, <2>3, <2>4, Steps DEF machineVars, vars, Reset
<1> QED
  BY <1>1, <1>2, AlwaysTyped, PTL DEF Spec

(***************************************************************************)
(* The messages a messenger keeps and the present state of the observed    *)
(* machine are a path of the machine: notify() tells the old state before  *)
(* Execute changes it, and a full buffer loses only its oldest messages.   *)
(***************************************************************************)
THEOREM Relaying == Spec => []MessagesLeadToState
<1>1. Relayed => MessagesLeadToState
  BY DEF Relayed
<1> QED
  BY <1>1, AlwaysRelayed, PTL

--------------------------------------------------------------------------------
(***************************************************************************)
(* No machine is in the array of the sequence twice: two places would be   *)
(* one object, which completes two cycles in a round.                      *)
(***************************************************************************)
Distinct == \A i, j \in DOMAIN Order : Order[i] = Order[j] => i = j

\* The index of the handler that the sequence polls next.
Position == IF step = -1 THEN 1 ELSE step + 1

\* A machine completes a cycle when its state says so, and once.
LEMMA PollCompletes ==
    ASSUME Typed, NEW m \in Machine, Poll(m)
    PROVE  /\ cycles'[m] = IF state'[m] = "CycleComplete" THEN cycles[m] + 1
                                                         ELSE cycles[m]
           /\ \A k \in Machine \ {m} : cycles'[k] = cycles[k] /\ state'[k] = state[k]
<1>1. PICK new, called, n : PollOutcome(m, new, called, n) /\ Effect(m, new, called, n)
  BY DEF Poll
<1>2. new = "CycleComplete" => state[m] # new
  BY <1>1 DEF PollOutcome, ToggleOutcome, IntervalOutcome
<1>3. state'[m] = new /\ \A k \in Machine \ {m} : state'[k] = state[k]
  BY <1>1 DEF Effect, Typed
<1>4. cycles' = [cycles EXCEPT ![m] =
                    IF new = "CycleComplete" /\ new # state[m] THEN @ + 1 ELSE @]
  BY <1>1 DEF Effect
<1> QED
  BY <1>2, <1>3, <1>4 DEF Typed

\* SequenceProcess goes on when a cycle was completed, and only then.
LEMMA SequenceStaysInOrder ==
    ASSUME Distinct, Typed, SequenceInOrder, NEW m \in Machine, Poll(m), Sequenced(m)
    PROVE  SequenceInOrder'
<1> DEFINE p == Position
           done == state'[m] = "CycleComplete"
           size == Len(Order)
<1>1. /\ size \in Nat /\ DOMAIN Order = 1 .. size
      /\ \A i \in 1 .. size : Order[i] \in Machine
  BY MachineAssumption
<1>2. /\ p \in 1 .. size /\ m = Order[p] /\ p \in Int
      /\ step \in {p - 1, -1} /\ (step = -1 => p = 1)
  BY <1>1 DEF Sequenced, Position, Typed
<1>3. step' = IF ~ done THEN p - 1 ELSE IF p < size THEN p ELSE -1
  BY <1>1, <1>2 DEF Sequenced, SequenceProcess, Position, Typed
<1>4. \A i \in 1 .. size : Order[i] = m <=> i = p
  BY <1>1, <1>2 DEF Distinct
<1>5. /\ cycles'[m] = IF done THEN cycles[m] + 1 ELSE cycles[m]
      /\ \A k \in Machine \ {m} : cycles'[k] = cycles[k] /\ state'[k] = state[k]
  BY PollCompletes
<1>6. \A i \in 1 .. size :
          /\ cycles[Order[i]] \in Nat
          /\ i # p => cycles'[Order[i]] = cycles[Order[i]]
                      /\ state'[Order[i]] = state[Order[i]]
          /\ i = p => cycles'[Order[i]] = IF done THEN cycles[Order[i]] + 1
                                                ELSE cycles[Order[i]]
  BY <1>1, <1>4, <1>5 DEF Typed
<1>7. \A i, j \in 1 .. size :
          i < j => cycles[Order[i]] - cycles[Order[j]] = (IF i < p /\ p <= j THEN 1 ELSE 0)
  <2> SUFFICES ASSUME NEW i \in 1 .. size, NEW j \in 1 .. size, i < j
               PROVE  cycles[Order[i]] - cycles[Order[j]]
                          = (IF i < p /\ p <= j THEN 1 ELSE 0)
    OBVIOUS
  <2>1. cycles[Order[i]] - cycles[Order[j]] = (IF i <= step /\ step < j THEN 1 ELSE 0)
    BY <1>1 DEF SequenceInOrder
  <2>2. (i <= step /\ step < j) <=> (i < p /\ p <= j)
    BY <1>2
  <2> QED
    BY <2>1, <2>2
<1>8. \A i \in 1 .. size : i # p => state[Order[i]] \in {"Action", "On", "CycleComplete"}
  BY <1>1 DEF SequenceInOrder, Position
<1>9. Position' = IF ~ done THEN p ELSE IF p < size THEN p + 1 ELSE 1
  BY <1>1, <1>2, <1>3 DEF Position
<1> HIDE DEF p, size
<1>10. ASSUME NEW i \in 1 .. size, NEW j \in 1 .. size, i < j
       PROVE  cycles'[Order[i]] - cycles'[Order[j]]
                  = (IF i <= step' /\ step' < j THEN 1 ELSE 0)
  <2> DEFINE ci == cycles[Order[i]]
             cj == cycles[Order[j]]
  <2>1. ci \in Nat /\ cj \in Nat /\ i \in Nat /\ j \in Nat /\ j <= size
    BY <1>1, <1>6
  <2>2. ci - cj = (IF i < p /\ p <= j THEN 1 ELSE 0)
    BY <1>7, <1>10
  <2> HIDE DEF ci, cj
  <2>3. CASE ~ done
    <3>1. cycles'[Order[i]] = ci /\ cycles'[Order[j]] = cj
      BY <1>6, <2>3 DEF ci, cj
    <3> QED
      BY <3>1, <2>1, <2>2, <2>3, <1>2, <1>3
  <2>4. CASE done /\ i = p
    <3>1. cycles'[Order[i]] = ci + 1 /\ cycles'[Order[j]] = cj
      BY <1>6, <1>10, <2>4 DEF ci, cj
    <3>2. p < size /\ step' = p
      BY <2>1, <2>4, <1>1, <1>2, <1>3, <1>10
    <3> QED
      BY <3>1, <3>2, <2>1, <2>2, <2>4, <1>10
  <2>5. CASE done /\ j = p
    <3>1. cycles'[Order[i]] = ci /\ cycles'[Order[j]] = cj + 1
      BY <1>6, <1>10, <2>5 DEF ci, cj
    <3>2. ci - cj = 1 /\ ~ (i <= step' /\ step' < j)
      BY <2>1, <2>2, <2>5, <1>1, <1>2, <1>3, <1>10
    <3> QED
      BY <3>1, <3>2, <2>1
  <2>6. CASE done /\ i # p /\ j # p
    <3>1. cycles'[Order[i]] = ci /\ cycles'[Order[j]] = cj
      BY <1>6, <2>6 DEF ci, cj
    <3>2. (i <= step' /\ step' < j) <=> (i < p /\ p <= j)
      BY <2>1, <2>6, <1>1, <1>2, <1>3, <1>10
    <3> QED
      BY <3>1, <3>2, <2>2
  <2> QED
    BY <2>3, <2>4, <2>5, <2>6
<1>11. ASSUME NEW i \in 1 .. size, i # Position'
       PROVE  state'[Order[i]] \in {"Action", "On", "CycleComplete"}
  <2>1. CASE i = p
    BY <2>1, <1>2, <1>9, <1>11
  <2>2. CASE i # p
    BY <2>2, <1>6, <1>8
  <2> QED
    BY <2>1, <2>2
<1> QED
  BY <1>1, <1>10, <1>11 DEF SequenceInOrder, Position

(***************************************************************************)
(* A sequence completes its machines in turn, one cycle each a round, and  *)
(* leaves them at rest: for every array without repetitions, and any polls *)
(* of the machines outside it.                                             *)
(***************************************************************************)
THEOREM Sequencing ==
    ASSUME Distinct
    PROVE  Spec => []SequenceInOrder
<1>1. Init => SequenceInOrder
  <2> SUFFICES ASSUME Init PROVE SequenceInOrder
    OBVIOUS
  <2>1. /\ \A i \in DOMAIN Order : Order[i] \in Machine /\ i \in 1 .. Len(Order)
        /\ Len(Order) \in Nat
    BY MachineAssumption
  <2>2. \A k \in Machine : cycles[k] = 0 /\ state[k] \in {"Action", "On"} /\ step = 0
    BY DEF Init
  <2> QED
    BY <2>1, <2>2 DEF SequenceInOrder
<1>2. Typed /\ SequenceInOrder /\ [Next]_vars => SequenceInOrder'
  <2> SUFFICES ASSUME Typed, SequenceInOrder, [Next]_vars PROVE SequenceInOrder'
    OBVIOUS
  <2>1. ASSUME NEW m \in Machine, Poll(m), m \notin ToSet(Order), UNCHANGED step
        PROVE  SequenceInOrder'
    <3>1. \A i \in DOMAIN Order : Order[i] \in Machine /\ Order[i] # m
      BY <2>1, MachineAssumption DEF ToSet
    <3>2. \A i \in DOMAIN Order : /\ cycles'[Order[i]] = cycles[Order[i]]
                                  /\ state'[Order[i]] = state[Order[i]]
      BY <2>1, <3>1, PollCompletes
    <3> QED
      BY <2>1, <3>2 DEF SequenceInOrder
  <2>2. ASSUME NEW m \in Machine, Poll(m), Sequenced(m) PROVE SequenceInOrder'
    BY <2>2, SequenceStaysInOrder
  <2>3. CASE UNCHANGED <<state, cycles, step>>
    BY <2>3 DEF SequenceInOrder
  <2> QED
    BY <2>1, <2>2, <2>3, Steps DEF machineVars, vars, add, get, Reset
<1> QED
  BY <1>1, <1>2, AlwaysTyped, PTL DEF Spec
================================================================================
