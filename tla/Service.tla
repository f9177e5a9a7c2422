--------------------------------- MODULE Service -------------------------------
(***************************************************************************)
(* Service and LightweightService of Service.h and Service.cpp: a service  *)
(* is started by its start function, after it waited, at most for a fixed  *)
(* time, until the service it depends on has started.                      *)
(*                                                                         *)
(* The wait polls the dependency and calls yield() in between, and start   *)
(* functions may call it too; that is where other services get to run.     *)
(* What yield() does is the platform's: it either switches between tasks,  *)
(* so that every service in progress can move, or it runs other code on    *)
(* the same stack, so that only the service started last can.              *)
(*                                                                         *)
(* The services are objects with static storage, whose state is zero, that *)
(* is Unstarted, before anything ran; `state` has no other initialiser.    *)
(***************************************************************************)
EXTENDS Naturals, Sequences, FiniteSets

CONSTANTS
    Svc,            \* the services
    NoService,      \* the dependency of a service without one
    Dependencies,   \* the dependency graphs considered, as functions on Svc
    Timeout,        \* how long awaitDependency() waits (10000 ms)
    MaxCalls,       \* bound: how often the program calls start() or restart()
    LastTick        \* bound: the clock stops here, before millis() wraps

ASSUME ServiceAssumption ==
    /\ NoService \notin Svc
    /\ Dependencies \subseteq [Svc -> Svc \union {NoService}]
    /\ Timeout \in Nat /\ MaxCalls \in Nat /\ LastTick \in Nat

VARIABLES
    dependsOn,      \* the dependency each service is started with
    state,          \* the state of each service
    statusMessage,  \* its status message
    unannounced,    \* the services with a change that statusUpdated did not announce
    pc,             \* "idle", "awaiting" a dependency or "starting"
    timeout_absolute,   \* when the wait of a service ends, 0 while it has none
    now,            \* millis()
    calls,          \* how many calls the program has made
    stacked,        \* does yield() run other code on the same stack?
    stack,          \* if so, the services in progress, the one called last on top
    everStarted,    \* the services that have been in the state Started
    restarted       \* those on which restart() has been called

vars == <<dependsOn, state, statusMessage, unannounced, pc, timeout_absolute, now,
          calls, stacked, stack, everStarted, restarted>>

(***************************************************************************)
(* The "User Defined states - count as Unstarted to service engine"        *)
(* (Service.h:73) are left to classes derived from a service, as setState  *)
(* is protected; the library sets them nowhere, so no service here gets    *)
(* into them.  The engine would take them for Started rather than          *)
(* Unstarted: see Undecided.                                               *)
(***************************************************************************)
UserState == {"Paused", "Slept"}

State == {"Unstarted", "Starting", "Started", "Error", "Waiting"} \union UserState

\* "" is the initial emptyString; "custom" is what a start function reports.
Message == {"NULL", "", "custom", "Timeout on dependency", "Dependency failure"}

Init ==
    /\ dependsOn \in Dependencies
    /\ state = [s \in Svc |-> "Unstarted"]
    /\ statusMessage = [s \in Svc |-> ""]
    /\ unannounced = {}
    /\ pc = [s \in Svc |-> "idle"]
    /\ timeout_absolute = [s \in Svc |-> 0]
    /\ now = 0
    /\ calls = 0
    /\ stacked \in BOOLEAN
    /\ stack = << >>
    /\ everStarted = {}
    /\ restarted = {}

\* The program may call start() or restart() on s, which is not in progress.
\* A wait that begins now can still time out before the clock stops.
MayCall(s) ==
    /\ pc[s] = "idle"
    /\ calls < MaxCalls
    /\ now + Timeout < LastTick
    /\ calls' = calls + 1

\* yield() can return to s.
MayRun(s) == stacked => stack # << >> /\ stack[Len(stack)] = s

\* The stack once s was called, and once s, which is on top, returned.
Called(s) == IF stacked THEN Append(stack, s) ELSE stack
Returned == IF stacked THEN SubSeq(stack, 1, Len(stack) - 1) ELSE stack

(***************************************************************************)
(* Service::setState and setStatusMessage fire statusUpdated; the base     *)
(* class's functions of the same names, called first, do not.              *)
(***************************************************************************)
set(s, st, m) ==
    /\ state' = [state EXCEPT ![s] = st]
    /\ statusMessage' = [statusMessage EXCEPT ![s] = m]

setQuietly(s, st, m) ==
    /\ set(s, st, m)
    /\ unannounced' = IF st = state[s] /\ m = statusMessage[s]
                      THEN unannounced
                      ELSE unannounced \union {s}

\* Mutant: the base class's setState is called.
M_setState_Quiet(s, st, m) == setQuietly(s, st, m)

setState(s, st, m) ==
    /\ set(s, st, m)
    /\ unannounced' = unannounced \ {s}

\* restart(startFunc), up to the call of startFunc.
beginStart(s) ==
    /\ setState(s, "Starting", "NULL")
    /\ pc' = [pc EXCEPT ![s] = "starting"]
    /\ timeout_absolute' = [timeout_absolute EXCEPT ![s] = 0]

(***************************************************************************)
(* awaitDependency gives up: the state remains Waiting, and nobody is told *)
(* of the message.                                                         *)
(***************************************************************************)
giveUp(s, m) ==
    /\ setQuietly(s, "Waiting", m)
    /\ pc' = [pc EXCEPT ![s] = "idle"]
    /\ timeout_absolute' = [timeout_absolute EXCEPT ![s] = 0]

\* Mutant: a dependency that is itself waiting is not waited for.
M_Undecided_NotWaiting == {"Unstarted", "Starting"}

\* The states of a dependency in which the wait goes on.  Error apart, any other
\* one ends it with success, and so would a user defined one.
Undecided == {"Unstarted", "Starting", "Waiting"}

\* The loop's condition, and what follows it; the wait ends at `until`.
pollDependency(s, until) ==
    LET d == dependsOn[s]
        st == IF d = s THEN "Waiting" ELSE state[d]
    IN  IF st \in Undecided
        THEN /\ setQuietly(s, "Waiting", statusMessage[s])
             /\ pc' = [pc EXCEPT ![s] = "awaiting"]
             /\ timeout_absolute' = [timeout_absolute EXCEPT ![s] = until]
        ELSE IF st = "Error" THEN giveUp(s, "Dependency failure")
        ELSE beginStart(s)

(***************************************************************************)
(* start(startFunc, dependsOn), from the main loop or while others yield.  *)
(***************************************************************************)
start(s) ==
    /\ MayCall(s)
    /\ IF dependsOn[s] = NoService
       THEN beginStart(s)
       ELSE pollDependency(s, now + Timeout)
    /\ stack' = IF pc'[s] = "idle" THEN stack ELSE Called(s)
    /\ UNCHANGED <<dependsOn, now, stacked, everStarted, restarted>>

\* Mutant: every poll sets the time limit anew.
M_await_Renews(s) ==
    /\ pc[s] = "awaiting"
    /\ MayRun(s)
    /\ IF now > timeout_absolute[s]
       THEN giveUp(s, "Timeout on dependency")
       ELSE pollDependency(s, now + Timeout)
    /\ stack' = IF pc'[s] = "idle" THEN Returned ELSE stack
    /\ UNCHANGED <<dependsOn, now, calls, stacked, everStarted, restarted>>

\* yield() returns: look at the time, then at the dependency.
await(s) ==
    /\ pc[s] = "awaiting"
    /\ MayRun(s)
    /\ IF now > timeout_absolute[s]
       THEN giveUp(s, "Timeout on dependency")
       ELSE pollDependency(s, timeout_absolute[s])
    /\ stack' = IF pc'[s] = "idle" THEN Returned ELSE stack
    /\ UNCHANGED <<dependsOn, now, calls, stacked, everStarted, restarted>>

(***************************************************************************)
(* restart(), on request: the retained start function is called whatever   *)
(* has become of the dependency.                                           *)
(***************************************************************************)
restart(s) ==
    /\ MayCall(s)
    /\ beginStart(s)
    /\ stack' = Called(s)
    /\ restarted' = restarted \union {s}
    /\ UNCHANGED <<dependsOn, now, stacked, everStarted>>

\* setStatusMessage(), called by the start function.
startFuncReports(s) ==
    /\ pc[s] = "starting"
    /\ MayRun(s)
    /\ setState(s, state[s], "custom")
    /\ UNCHANGED <<dependsOn, pc, timeout_absolute, now, calls, stacked, stack,
                   everStarted, restarted>>

startFuncSucceeds(s) ==
    /\ pc[s] = "starting"
    /\ MayRun(s)
    /\ setState(s, "Started", "NULL")
    /\ pc' = [pc EXCEPT ![s] = "idle"]
    /\ stack' = Returned
    /\ everStarted' = everStarted \union {s}
    /\ UNCHANGED <<dependsOn, timeout_absolute, now, calls, stacked, restarted>>

startFuncFails(s) ==
    /\ pc[s] = "starting"
    /\ MayRun(s)
    /\ setState(s, "Error", statusMessage[s])
    /\ pc' = [pc EXCEPT ![s] = "idle"]
    /\ stack' = Returned
    /\ UNCHANGED <<dependsOn, timeout_absolute, now, calls, stacked, everStarted, restarted>>

Tick ==
    /\ now < LastTick
    /\ now' = now + 1
    /\ UNCHANGED <<dependsOn, state, statusMessage, unannounced, pc,
                   timeout_absolute, calls, stacked, stack, everStarted, restarted>>

startFuncReturns(s) == startFuncSucceeds(s) \/ startFuncFails(s)

Next ==
    \/ \E s \in Svc :
         \/ start(s) \/ restart(s)
         \/ await(s)
         \/ startFuncReports(s) \/ startFuncReturns(s)
    \/ Tick

(***************************************************************************)
(* Time goes on, yield() returns, and start functions do, too.             *)
(***************************************************************************)
Fairness ==
    /\ WF_vars(Tick)
    /\ \A s \in Svc : WF_vars(await(s)) /\ WF_vars(startFuncReturns(s))

Spec == Init /\ [][Next]_vars /\ Fairness

--------------------------------------------------------------------------------

\* The types of the variables; the engine sets no user defined state by itself.
TypeOK ==
    /\ dependsOn \in Dependencies
    /\ state \in [Svc -> State \ UserState]
    /\ statusMessage \in [Svc -> Message]
    /\ unannounced \subseteq Svc
    /\ pc \in [Svc -> {"idle", "awaiting", "starting"}]
    /\ timeout_absolute \in [Svc -> 0 .. LastTick]
    /\ now \in 0 .. LastTick
    /\ calls \in 0 .. MaxCalls
    /\ stacked \in BOOLEAN
    /\ stack \in Seq(Svc)
    /\ everStarted \subseteq Svc
    /\ restarted \subseteq Svc

(***************************************************************************)
(* A service that was never restarted by hand only ever started when the   *)
(* one it depends on had.  So services that depend on each other in a      *)
(* circle do not start, nor do those behind a service that failed.         *)
(***************************************************************************)
DependencyFirst ==
    \A s \in everStarted \ restarted : dependsOn[s] \in everStarted \union {NoService}

(***************************************************************************)
(* Once a start function has been called, an observer of statusUpdated     *)
(* knows the state and the message, up to and including the outcome.       *)
(***************************************************************************)
OutcomeIsAnnounced ==
    \A s \in unannounced : state[s] \notin {"Starting", "Started", "Error"}

(***************************************************************************)
(* A service waits for its dependency for a limited time, however the      *)
(* dependencies are arranged and whatever runs while it yields.            *)
(***************************************************************************)
AwaitEnds == \A s \in Svc : pc[s] = "awaiting" ~> pc[s] # "awaiting"

(***************************************************************************)
(* "Fired when state or status message changes" (Service.h:195).  It does  *)
(* not hold: neither Waiting nor the reason for giving up is announced.    *)
(***************************************************************************)
EveryChangeIsAnnounced == unannounced = {}

================================================================================
