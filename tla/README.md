# A TLA+ model of util.embedded

util.embedded is a C++ library for microcontrollers: containers without dynamic memory, an event
system, a cooperative scheduler, services with dependencies, a console with menus, state machines, and
access to power and watchdog hardware. This directory holds TLA+ modules for its core logic, TLC
configurations that check them on small instances, and proofs that TLAPS checks for every instance.
`PROJECT.json` lists the runs, the definitions with the source lines they model, the properties and for
each of them a mutation of the code's logic that breaks it, the findings, the hazards and the theorems.
Source paths below are relative to `src/src/`.

    tlc -config CircularBuffer.cfg CircularBuffer      # a run; see "Runs" for the others
    tlapm CircularBufferProofs.tla                     # a proof module

## Inventory

| Component | State | Operations | Hard parts | What makes it correct |
|---|---|---|---|---|
| Circular buffer (`fact/CircularBuffer.h`) | storage, next write index, number of unread elements | `put`, `peekLast` + `incrementPosition`, `get`, `peek`, `reset` | the read index is derived; full buffers overwrite; `get` returns a reference into storage | it is a FIFO that drops its oldest element; references stay good long enough |
| Linked lists (`LinkedList.*`) | head, a next pointer in each node | `add`, `insert`, `remove` | nodes are the caller's and keep stale pointers | the list ends and holds what was put in |
| Schedule manager (`legacy/taskmanager.*`) | list ordered by wake-up time, per-task wake-up time | `add`, `remove`, `execute` | tasks change the list under the pass that runs them; late tasks; clock wrap | sorted list, every due task served, each pass ends |
| Timing group (`legacy/timinggroup.h`) | the last target time | interval checks, reset | wrap; strict comparison; several machines advance one target | targets do not drift; each interval counts once |
| Events (`EventManager.*`, `fact/event.h`) | one pool of chained handles; a head handle per event | `+=`, `-=`, `clear`, invoke | callbacks that change the chain being walked, nested invocation, full pool | chains stay apart; each subscriber is called once |
| Properties with events, parameters (`EventManager.h`, `fact/event.h`) | a value; argument lists of invocations | set, fire | a `va_list` that callbacks consume; setting again while being told | arguments as passed; nobody is left with an old value |
| Services (`Service.*`) | state, status message | `start`, `restart`, waiting for a dependency | polling with a time limit, what runs in `yield()`, circles | dependency first; waits end; outcomes announced |
| Layered services (`Service.layer*.h`, `wifi/`, `mqtt/`) | state, message | start, stop, restart, keep alive | different success protocols, retries | a start is announced and ends in Started or Error |
| Menu service, call queue (`MenuService.*`, `fact/rpc.h`) | a circular buffer of calls | queue a call, drain | a call taken by reference while others are queued | calls run once, in order |
| State machines, observers (`legacy/statemachine.*`, `fact/observer.h`) | current state, shared timing group, buffered messages | `Execute`, `ProcessCycle`, `observe` | fall-through, catching up, a timing group shared by several machines, observers told before the change | handlers keep their rate and order; missed cycles are made up for; messages are a path of the machine |
| Button (`state/button.*`) | one of four states | `update`, `reset` | the clock's wrap | one PRESSED and one RELEASED per press, timed |
| Console, menus, tokenizer (`Console*`, `Menu*`, `Tokenizer.*`) | input line, stack of menus | character input, completion, navigation, parameters | limits of the line and of the parameters; completion | what is executed is what was typed |
| Power, sleep, watchdog (`fact/power.h`, `fact/watchdog.h`, `fact/hardware/`) | device registers | on, off, sleep, watchdog, pin interrupts | interrupts between any two instructions; registers that cannot be written at the time | no wake-up lost; the alarm asked for |
| Clocks of a SAMD21 (`driver/atmel/sam/`) | generator and bus mask registers | set up, turn on and off | one generator for watchdog and real time clock | the right rate; the right bus |
| Profiler (`fact/Profiler.h`, `lib.cpp`) | extremes, a latch, counters | `profile`, resets | counters that wrap; an observer that is slow itself | it tells what happened, and shows one spike at a time |
| Streams (`fact/streams/`, `fact/istream.h`) | a cache of one character on mbed | `peek`, `get` | peeking twice | no character lost or invented |
| Numbers, dates, other drivers, shims | none of their own | pure functions, register names | rounding | reference arithmetic |

How they interact: everything runs from one main loop, on some platforms with tasks, and `yield()` is the
only place where the library gives way. The scheduler keeps its tasks in a linked list and calls them;
events call subscribers; a service announces changes through an event, and waits for other services by
polling their state; the console's commands restart services, directly or through the call queue, which is
a circular buffer.

## Modules

| Module | What it is |
|---|---|
| `OverwritingFifo` | what a circular buffer promises: a FIFO that drops its oldest element when full |
| `CircularBuffer` | the buffer of the code; implements `OverwritingFifo` |
| `CircularBufferProofs` | proofs about it |
| `Induction` | induction as statements about sets, for the proofs below |
| `SinglyLinkedList` | the list operations, on records of a head and next pointers |
| `ScheduleManager`, `MCScheduleManager` | the scheduler on that list; values for TLC |
| `ScheduleManagerProofs` | proofs about the scheduler and its list |
| `Subscriptions` | what events promise: separate lists of subscribers that share room |
| `EventManager`, `MCEventManager` | the pool of chained handles; implements `Subscriptions` |
| `EventManagerProofs` | proofs about it |
| `Service`, `MCService` | services with dependencies; values for TLC |
| `ServiceProofs` | proofs about them |
| `TimingGroup` | the target time that machines share |
| `StateMachine`, `MCStateMachine` | interval, toggle and sequence machines over timing groups, with observers |
| `StateMachineProofs` | proofs about them |
| `CharStream` | reading through a cache of one character, as operators |
| `Tokenizer` | both tokenizers, as operators |
| `Console`, `MCConsole` | the console on these two, its menu and commands, and the call queue |
| `ConsoleProofs` | proofs about the console and the tokenizers |
| `ServiceProtocol` | what every kind of service promises to whoever watches it |
| `LayeredService` | the other kinds of service; implements `ServiceProtocol` |
| `AvrPower` | power, sleep, watchdog and pin interrupts of an AVR, with the hardware |
| `SamClocks` | clocks and watchdog of a SAMD21 |
| `Button`, `Profiler`, `EventParameters` | these parts of the library |
| `Parts`, `MCParts` | the last six side by side: a behaviour follows one of them |
| `PartsProofs` | proofs about each of the six |

### CircularBuffer

`array`, `position` and `currentCapacity` are the code's fields, and `getPositionGet` computes the read
index as the code does. The storage starts with arbitrary contents. An element arrives by `put`, or in
place: `peekLast` hands out the slot (`filling` becomes 1), the client writes it, and `commit` is the
`incrementPosition` that follows. `held` and `out` are the client's: the slot that the last `get` returned
a reference to, and what was in it. `get` is guarded by `available > 0`, as the code's callers do; `put` in
the code has two overloads that differ in how they copy.

The refinement mapping reads the unread elements off the array, from the derived index on. It shows that
nothing is reordered, duplicated or lost but the oldest element of a full buffer. `HeldElementIntact` says
for how long a reference can be used: until the elements that arrived since have used up every slot. A call
queue that hands out a queued call by reference is safe as long as the call itself does not fill the queue.

### ScheduleManager

One pass of `ScheduleManager::execute` is `executeBegin`, then for each due task `executeTask` (take the
successor, enter the task) and `executeReschedule` (unlink the task, advance its wake-up time, insert it),
and `executeEnd`. Time (`Tick`) passes between any of these, and while a task runs (`pc = "running"`) it may
`add` and `remove` others. `add` is `begin()` followed by `add()`, the order in which users call them.
`comparesOnOrAfter` has the result of a comparison pass through a `char`, whose sign is a constant of the
platform. The clock has `TimeMod` values and wraps, and so do the wake-up times. `owed` is the set of tasks
that were due when the pass began and that it has not yet run.

What the client may do is part of the model:

* A running task removes neither itself nor its successor in the list: `execute` has pointers to both and
  puts them back. The library does not say so, but it has no code that would support it.
* In a build without DEBUG (`debug = FALSE`) the list works only for a careful client, spelled out in
  `MayTick` and `MayAdd`: passes are short, no task falls a whole interval behind, no removed task is added
  again, and the program restarts before the clock or a wake-up time wraps. In each of these cases a node is
  reinserted at the end of the list with a stale next pointer, and only a DEBUG build clears it. `ScheduleRelease.cfg` drops
  the assumption (`CarefulClient = FALSE`) and shows the damage.

### EventManager

`data`, `next` and `handle` are the pool and the heads. `walks` is the stack of invocations under way; the
top one's callback is running, and may do anything that the main program may: `add`, `remove`, `clear`,
`invoke`. `invokeNext` is the return of a callback; it reads the successor then, as the code does. `called`,
`seen` and `pending` are history that the properties refer to. `remove` leaves the handle's data in place: it
is not free afterwards, and this leak is the reason why a walk that stands on a removed handle still finds its
way (see the mutant `M_remove_Frees`, which repairs the leak in the obvious way and breaks the walk). The tests expect
otherwise: `available() == HANDLEMANAGER_CAPACITY - 1` after a removal is commented out (`../test/TestHandles.cpp:90`),
and "this isn't removing the pointer, but should be" (`../test/TestEvents.cpp:139`). No run is spent on it, since the
refinement below says just which handles are free.

The client does not unsubscribe from an event without subscribers (the code would address `handles[-1]`), and
does not clear an event from one of its own callbacks (the walk would go on in whatever chain takes the
handle next). The refinement of `Subscriptions` accounts for every handle: subscribing takes one or is dropped
when there is none, clearing returns those in the chain, and unsubscribing returns nothing.

### Service

Each service has the `state` and `statusMessage` of the code. `pc` says whether a call of `start` or `restart`
is in progress: waiting for the dependency, or inside the start function. `await` is one turn of the loop in
`awaitDependency`, which looks at the time first and then at the dependency; `giveUp` is either failure, and
leaves the state `Waiting`, as the code does. A start function may report a message, takes any time, and
succeeds or fails. `setState` and `setQuietly` are the two functions named `setState` in the code: that of
`Service` fires `statusUpdated`, that of its base class does not. `unannounced` holds the services whose last
change was not announced.

What `yield()` does depends on the platform, and the model has both kinds: with `stacked = FALSE` it switches
between tasks, and every service in progress can go on; with `stacked = TRUE` it runs other code on the same
stack, so that only the last one called can. The first covers start functions that yield themselves. The
program does not call `start` or `restart` on a service that is in progress. Paused and Slept (`UserState`) are states
for the program to set; nothing in the library does, and no service of the model has them. They are said to "count as
Unstarted to service engine" (`Service.h:73`), but the loop that waits for a dependency (`Service.cpp:115-117`) does
not look for them, as `Undecided` shows, and would end with success. Services have static storage, so
that their state is Unstarted before anything runs; the class itself does not initialise it.

### StateMachine

`legacy/statemachine.*` on `TimingGroup`. A call of a machine is an operator from a record of the variables
(`World`) to one, because machines call each other: the sequence executes the machine whose turn it is. `Process`
is the machine's, with the fall-through of `ToggleStateMachine`, in which a late call turns the load on and off at
once; `Execute` stores the new state after `PostProcess` has told the observer, so that a messenger, which reads the
machine, gets the state that is being left. `calls`, `reached`, `base` and `cycles` are history. The clock stops
before it wraps. The comparison is strict, against the comment "at or after" (`timinggroup.h:56`, `:62`), so that
every interval ends one tick late: `IntervalOverAtTarget` is the comment, and the run `strict_comparison` shows the
difference. The other properties hold either way: `HandlersKeepTheRate` and `TargetIsSumOfIntervals` allow a handler to
run at the target itself.

### Console

The typist sends one of the `Sessions` after the other, ahead of the console by `DeviceSize` characters.
`Console::handler` is `Peek` -- the loop's condition, which moves a character into the cache -- followed by
`Complete`, `Enter` or `Echo`, which take it out again: characters arrive between the two. `handler` returns when it
finds no character, after an empty line, and when a character does not fit the line; then the main loop makes the
queued calls, one `MakeCall` at a time, and calls `handler` again. Handlers of commands are operators to their
effects. The limit of the line is in the code only when built with FACT_LIB_STRICT, which is the build modelled.
`Meant` and the tokens say what a line should do, without the cache, the editor or the cutting. `begins` and `zero`
follow the loop that turns blanks into zeros and remembers where a parameter begins. A pointer that the loop never set
is the mark `Unset`, which is no name and no number: what such a parameter reads is not modelled further.

The array of pointers has room for `MaxParameter`, and the code does not look whether a line has more words. That it has
not is assumed of what is typed (`ConsoleAssumption`: fewer blanks between two newlines), since writing behind the array
is undefined; it is not assumed of the line that completion, a full buffer and lost characters make of it, for which
`ParametersAreTokens` says so.

`QueuedCallsAreMade` has a premise, that `handler` returns again and again. It does so when it runs out of
characters; a typist who is always ahead of the console keeps the calls from being made, and this is how the code is.

### Parts

`LayeredService` is one service of any kind. `Outcome` is where they differ: a layer 5 service has to state its
success and is in Error otherwise, a managed service has to state its failure. WiFi makes one attempt more than its
constant says (`do ... while(retries--)`), MQTT as many. Seen through `told`, what its observers know, each
implements `ServiceProtocol`, whose starts come to an end.

`AvrPower` has one action per group of instructions that an interrupt can come between. `Serve` is an interrupt: it
needs the I flag, wakes the CPU, and cannot come between `sei()` and the instruction behind it. The watchdog expires
at any moment while it is armed; the reset that it may end in is an action too. Writing WDTCSR back clears a pending
watchdog interrupt, WDRF keeps WDE set, and a unit without a clock ignores writes: the properties depend on these
three facts about the hardware, which are taken from its documentation and from the order of the code.

`SamClocks` has one action per call, since each ends by waiting for the hardware. CONFIG cannot be written while the
watchdog runs, which `SetConfig` says.

`EventParameters` takes the list of an event's subscribers as one (`EventManager` shows that it is) and follows the
arguments: `argp` is how far a callback has got in its copy of the `va_list`. Callbacks set properties, fire events
and subscribe, so that invocations nest; unsubscribing during an invocation is left to `EventManager`.

`Button` and `Profiler` are sequential; what can go wrong in them are the wrap of a clock or a counter and the order
of resets and calls. `PressesAreTimed` is about the time until the release is reported, for presses that are shorter
than a round of the clock. `since` keeps the intervals since `ResetMinMax`, of which the profiler has to know the extremes.
What the profiler's observer does, and the buffer of recorded intervals, are left out.

## Runs

| Run | Configuration | Bounds | Shows |
|---|---|---|---|
| `circular_buffer` | `CircularBuffer.cfg` | 3 slots, 3 values | the buffer is the FIFO; indices, in-place filling and references are right |
| `schedule_manager` | `ScheduleManager.cfg` (`MCScheduleManager`) | 3 tasks with intervals 1, 2, 2; clock of 6 values starting at 0 or at 4; 3 ticks | membership, order, completeness and termination of passes |
| `schedule_release` | `ScheduleRelease.cfg` | as above, no DEBUG, any client | finding: stale next pointers corrupt the list |
| `schedule_unsigned_char` | `ScheduleUnsignedChar.cfg` | as above, unsigned `char` | finding: the list is not sorted |
| `events` | `EventManager.cfg` (`MCEventManager`) | 2 events, 2 callbacks, 3 handles, 2 nested invocations | chains, invocations and subscriptions are right |
| `services` | `Service.cfg` (`MCService`) | 3 services, chain or circle, limit of 1 tick, clock of 5 values, 3 calls | dependencies come first, waits end, outcomes are announced |
| `services_observer` | `ServiceObserver.cfg` | as above | finding: waiting and giving up are not announced |
| `state_machines` | `StateMachine.cfg` (`MCStateMachine`) | a polled toggle machine, an interval and a toggle machine in a sequence; one group or two; 5 ticks; 2 messages | rate, order, alternation, catching up and messages |
| `strict_comparison` | `StrictComparison.cfg` (`MCStateMachine`) | as above | finding: an interval is over one tick late |
| `console` | `Console.cfg` (`MCConsole`) | 7 commands, 2 properties, 20 different lines, a line of 7 characters, 4 parameters, 2 calls, 1 character ahead | what is executed, set and called is what was typed |
| `parts` | `Parts.cfg` (`MCParts`) | 3 pins in 2 groups, 2 time-outs; 2 SAMD21 generators; 10 and 3 retries; clock of 5, counters of 4; 2 callbacks, 2 nested invocations | the six parts keep their properties |
| `sam_buses` | `SamBuses.cfg` (`SamClocks`) | 1 generator, 2 clocks | finding: bus C is bus B |

Why the bounds are enough. Three slots make the buffer empty, partly full and full with the write index before
and behind the read index. Three tasks are a running one, its successor and one to be inserted before, between
or behind them; two of them share an interval, so that wake-up times tie; the clock that starts at 4 wraps
within the behaviour. In three handles one event can have two subscribers, of which one removes itself or the
other while it is called, next to another event; the pool runs full, and two nested invocations include one of
the event that is being invoked already. The event run uses symmetry over events and callbacks: its properties
are all safety properties. Three services make a chain in which the middle one waits itself, and a circle with
one service hanging on it; the clock lets a call follow a timeout, and three calls start each service once, or
one of them again.

In the run of state machines the intervals are 1 and 2 and the clock goes to 5: a machine can be late by several
cycles, alone and in a group that another machine has advanced. The lines of the console are chosen so that each
command is named, mistyped, completed, given too few and too many parameters, and valid, invalid and refused values;
the longest fills the line and one is a character too long. One has four words, which fill the array of parameters at
the smaller of its two sizes. Names of which one begins another make completion
ambiguous. Two queued calls overflow with the third. In `parts` the time-outs lie on both sides of the bit that is
stored apart, two pins share a mask register and one does not, the counters wrap within a few calls, and a callback
that takes one of two arguments is followed by another. The bounds on retries are the code's own.

Deadlock is checked except for services, where the program may stop making calls and the clock its bound, and for
`parts`, where an AVR that nothing can wake sleeps for ever.

### Fairness

* `ScheduleManager`: a pass that was begun is carried on; the program has one thread, and tasks return. Nothing
  is assumed about the clock or about when passes begin.
* `Service`: the clock goes on, `yield()` returns to each waiting service that can run, and start functions
  return. With stacked calls a wait also depends on the calls made on top of it coming to an end, which the
  bound on calls (`MaxCalls`) provides: a program that goes on calling for ever from within `yield()` starves
  the services below.

* `StateMachine`: the main loop polls every machine it knows, and the sequence, again and again. The clock may stop.
* `Console`: the main loop and `handler` go on. Nobody has to type.
* `Parts`: a start function goes on until it returns; each attempt of WiFi and MQTT comes back.

The other modules state no fairness, and their properties are safety properties.

### Findings

1. `SinglyLinkedList::remove` does not clean a node that it unlinks from behind another, contrary to its comment
   and to what `execute` expects; without DEBUG the schedule becomes cyclic or takes removed tasks back in.
2. `compareWakeupTime` returns a negative number as `char`; where `char` is unsigned tasks are not sorted.
3. `AtOrAfterTargetTime` is false at the target time, contrary to its name and comment, and that of `IsIntervalReached`.
4. `statusUpdated` does not fire for the state Waiting nor for the messages of a wait that failed.
5. `get_clock_mask<2>` returns the register of bus B, so that clocks of bus C are switched in the wrong register.

Not a finding in that sense, but visible in the model: `-=` does not return the handle to the pool (see EventManager);
a service that gave up waiting stays in the state Waiting, so that its own dependents wait for their whole limit rather
than fail at once.

Read in the code while modelling it, and not shown by a run:

* `FakeFloat::subtract` with a borrow: the comment says 2.099 - 1.100 = 0.999 (`FakeFloat.cpp:68`), the code makes
  it 0.001 (`:75-85`). `dtostrf`'s rounding (`roundFixer`) is off by a power of ten, and
  `tm_addseconds` is unfinished.
* `DoublyLinkedList::insert` does not link the predecessor to the node it inserts (`LinkedList.cpp:195-224`), and
  `remove` is declared only; neither has a user.
* `Tokenizer::parseToken` says that adding its result to the input leads to the terminating zero at worst
  (`Tokenizer.h:41-43`); it leads one past it.
* `TimerItem` can turn on a timer number 4 (`power_avr.h:99`) but has no case to turn it off (`:110-137`); that case is
  compiled for more than four timers, which `avr/features.h` gives no chip. A number without a case does nothing, as
  `SwitchClock` has it.
* On SAMD21, `sleep_4` of the power example waits for the watchdog's interrupt (`test.pio/power/src/main.cpp:94`),
  which `Watchdog::enable(wdto)` turns off, and `WDT_Handler` does not clear its flag. The setters of the real time
  clock read, change and write the whole CLOCK, which may tick in between.
* `Sleep.powerDown(wdto)` leaves `Watchdog::isr` on.
* A line with a blank at its end has a last parameter whose pointer was never set (`Console.cpp:101`), a nested menu
  typed alone reads such a parameter, and CONSOLE_BEHAVIOR_MAX_PARAMETER is not looked at (`Console.cpp:94-105`), so that
  a line of more words is written behind the array. `MenuFunction2` validates
  its parameters and ignores the outcome (`MenuFunction.h:83`).
* The mbed stream cannot read a NUL, and whoever peeks twice loses the character.
* The profiler's latch opens when a spike falls on the last call of its stretch (`lib.cpp:38-45`), so that the next
  one is shown too; still at most one in each stretch.
* `WiFiService` makes eleven attempts for a constant of ten (`wifi/service.cpp:51`).
* `MQTTService`, when a ping fails, starts without looking at its dependency (`mqtt/service.cpp:75-83`). `keepAlive` is
  a start, and `LayeredService` has one service only, so that this cannot be told there.

## Proofs

Every safety property that a passing run checks is also proved, for every value of the constants that the named
assumptions admit; where a theorem has a condition of its own, it is given below.

**`Induction`** states induction about sets rather than predicates, which the provers can use: a set of natural
numbers has a least element, a set of subsets of a finite set a minimal one. Recursive functions, folds, sums and
chains of links are all handled by looking at the least counterexample. A function that a definition picks with
`CHOOSE` (in a recursive function) is first shown to exist, by extending it from an interval to the next one.

**`CircularBufferProofs`**, for every `Size > 0` and every set of values:

* `TypeCorrect`, the indices stay in range: arithmetic on the three cases of a step.
* `HeldReferenceStaysGood`: `HeldElementIntact` is inductive only together with where the held slot lies. While a
  slot is free, the held one is the one just before the read index, and a client fills in place only while
  there is room; `IInv` says so. The write index reaches the held slot last, when no slot is free.
* `FilledSlotStaysFree` and `ReadIndexIsStable` follow from the same invariant and from lemmas on the derived index.
* `Refinement`: initial states map to initial states, and each operation maps to one of `OverwritingFifo` or to a
  stutter. The lemmas state how the slot of the i-th unread element changes with each operation, and equate the
  mapped sequence after the step with `Append` and `Tail` of the one before.

**`ScheduleManagerProofs`**, for any tasks, intervals, clock and start times. `TypeCorrect` holds without conditions.
`NothingIsLost`, `Sorted` and `EveryDueTaskIsServed` are proved where `char` is signed, for DEBUG builds with any
client and for all builds with a careful one; the two runs with findings show what happens otherwise.

* The pointers of a list say nothing by themselves about what it holds. The invariant `IInv` therefore says that there
  is a sequence of tasks without repetitions, the path, such that each node points to the next and the last to NULL.
  The registered tasks are those on the path, which is ordered by wake-up time (`Listed`).
* Lemmas say what `ListAdd`, `ListInsert` and `ListRemove` do to the path: one node in, one node out.
* `Passing` relates a pass to it: the tasks owed lie ahead of the pointer that `execute` holds, the running one
  behind. Insertions by a running task do not disturb this, since what they insert is not owed.
* `Tidy` is for release builds: a pass takes due tasks from the head only, `remove` leaves no link behind there, and no
  other node comes back. That a wake-up time must not wrap for the careful client either came out of this proof; the
  first version of `MayAdd` allowed it, and the runs had not shown it.

**`EventManagerProofs`**, for any events, callbacks, capacity and depth of invocations: `TypeCorrect`, `Apart`,
`NobodyIsPassedOver`, `NobodyElseIsCalled`, `Refinement`.

* `Chained`: each event's head begins a path through taken handles, and no two paths meet.
* `Walking`: an invocation need not stand on the chain of its event any more, since callbacks unsubscribe. It stands on
  a path of handles that it has seen; these are all taken, no other event has them, those still to be called lie
  ahead, and none ahead has been called. That a removed handle is not freed is used here: were it, the path would go
  on in another event's chain.
* `Refinement` maps each event to the callbacks on its path, and each of `add`, `remove`, `clear` and invoking to
  the operation of `Subscriptions` or to a stutter.

**`ServiceProofs`**, for any services, dependency graph, limit and bounds:

* `TypeCorrect`; the invariant adds that a waiting service has a dependency.
* `DependenciesComeFirst`: `DependencyFirst` speaks of services that have started, so the inductive invariant adds
  that a service in the state Started is one of them, and that a start function being run on behalf of `start`
  was entered after the dependency had started. The lemma `PollOutcomes` carries the argument: of the five
  states, the loop lets pass only Started and Error.
* `OutcomesAreAnnounced`: the states that must be announced are entered by `Service::setState` only, and left
  quietly only for Waiting.

**`StateMachineProofs`**, for any finite set of machines in any groups. `PollOutcome` says once what a poll of a machine
can do; `Poll` says that the polls of the loop and those by the sequence have such an outcome.

* `Rate`: `CallsCounted`, at most one call more than intervals registered, with `TargetsAhead`: a target is its
  reset plus at least what each of its machines registered, and in the past once it has moved.
* `NoDrift`: `AddsUp` says of a group that its target is the reset plus the *sum* over its machines; the lemmas on
  sums over finite sets are by the minimal counterexample.
* `Alternating`: the last call tells which half of the cycle the machine is in.
* `Relaying`: messages and state are a path of the machine, and who is not an observer yet has no messages.
* `Sequencing`, for an array in which no machine occurs twice: those before the position have completed one cycle more
  than those after it. With a machine twice in the array the property speaks of something else.

**`PartsProofs`** proves each part's properties of `Parts` itself, whose steps leave the other parts alone.

* `ButtonIsTimed`, `ProfilesTruly`, `WatchdogIsPrecise`: counters and clocks modulo their width; the profiler's
  observer count needs the latch (`Latching`) and that the counters shown increase (`Increasing`), and its extremes that
  the intervals since a reset are in the range of the counter.
* `CallbacksTold`: somebody may have an old value while an invocation goes on, and also while an inner one has told
  others a newer one. `AllTold` speaks of the *innermost* invocation that tells the property's value: those it has
  called know the present value. Each return to an outer one has all of them told, so that what the outer one still
  tells is not old either.
* `NoWakeupIsLost`: the inductive invariant `Sleeping` says of each instruction from `cli()` on whether interrupts are
  on, and that none was served. Interrupts are off until `sei()`, which no interrupt follows at once.
* `SleepsWithAlarm`: `Alarmed` says that from `enable(wdto)` on the watchdog interrupts or resets, with the time-out
  asked for, and before it that the flag which makes it interrupt is set. The lemma `PrescalarIsTimeOut` is the
  arithmetic of the bit that is stored apart.
* `RegistersAsTold`: a write replaces the masks of its groups and enables only these; distinct pins have distinct bits.
* These three are stated of the AVR's own specification `AvrSpec`; `PartsKeepTheAvr` carries them over to `Spec`.
* `KeepsToProtocol`: every kind of service, with any number of retries, does only steps of `ServiceProtocol`. A
  start function runs just while the state is Starting, observers know the state, and every way a start ends is
  Started or Error.

**`ConsoleProofs`**, for any menu, properties, sessions and sizes: `TypeCorrect`, `LineIsShown`, `ParametersCorrect`,
`ExecutedCorrect`, `ValuesValidated`.

* The invariant `Inv` has two parts. `Typed` adds to the types that the cache holds a character just between `Peek`
  and the action that takes it. `Reading` says that what was typed since the last newline is some keys followed by
  what is still in the stream, and that the line is `Pressing(keys)`: what those keys are meant to make of it. Neither
  is a part of what the properties say, and neither they nor a line's contents would be inductive without it.
* `ParametersAreTheTokens`: the loop that sets the parameter pointers is one algorithm, the two tokenizers are two
  others. `Pointed` is the invariant of the first loop. `begins` points to where `parseToken` arrives after as many
  tokens, and `copyToken` copies what lies between.
* `LineIsBounded`, that no pointer is stored behind the array, needs to know where a line comes from. `Fewer`, a part of
  `Reading`, says that it has no more blanks than the keys it was made of: completion adds none, and a full line loses
  some. `Sessional` says that what was typed between two newlines is a stretch of one of the sessions, and the blanks
  of these are assumed to be fewer than `MaxParameter`.
* `EnterValidates` and `EnterExecutes` combine the invariant with what each command does (`Handling`): the line that
  Enter executes is `Meant(submitted)`, and its parameters are the tokens of that.

Assumptions are those named in the modules: `SizeAssumption` and `NoSlotAssumption` (some size above zero, a value that
is no index), `NodeAssumption` and `TimeAssumption` (finitely many tasks, intervals above zero, a clock that starts in
its range), `PoolAssumption` (some handle; NULL is no callback), `ServiceAssumption` (dependencies are among the
services; the bounds are numbers), `MachineAssumption` and `TickAssumption` (finitely many machines, intervals above
zero, a sequence that is not empty), `AvrAssumption` (time-outs lie between 0 and 9; pins have numbers, no two the same)
and `ConsoleAssumption` (sessions end with a newline and have fewer than `MaxParameter` blanks; the mark for "no
character" is never typed; names are shorter than the line and have no blank; a property has a name, which is not
`Unset`; sizes are above zero). Those of the modules that `Parts` instantiates are definitions, and `Parts` assumes them
of its constants.

Only model-checked are the liveness properties `PassEnds`, `AwaitEnds`, `MissedCyclesAreMadeUp` and `QueuedCallsAreMade`,
and the fairness in `KeepsProtocol`: the prover has no rule for fairness or ENABLED.

## Plan

The modules of the plan are written, and the safety properties of their runs are proved. Left, in this order:

1. Nested menus with their breadcrumbs in `Console`, and the console composed with `Service` itself, so that a
   restart that was typed is followed to the service's outcome.
2. The queue's order in the proofs: that `MakeCall` makes calls in the order of the lines that queued them, and that
   `Console`'s queue is an instance of `OverwritingFifo`.
3. `NothingIsLost` in DEBUG builds without the assumption that `char` is signed: such a list is unsorted, but holds
   what it should.
4. Dates and `FakeFloat` as algorithms checked against arithmetic.

## Not modelled

* The wrap of `millis()` during a service's wait, at which the code times out early or late: the clock of `Service`
  stops before.
* Interrupt handlers that use a buffer or list together with the main loop: the code has no protection, and its own
  users do not.
* Wording: messages are a few constants, tasks and callbacks are names; what help, prompts and errors say is left out.
* Output streams, formatting, dates and `FakeFloat`: pure functions, or calls passed on to the platform.
* GNSS (parsing stubs), date registers of the real time clock, pin access, and platform shims: reads and writes with no
  logic of their own. Sleeping on a SAMD21 is one instruction.
* Nested menus, and the legacy command for a single property.
* `AggregateStateMachine`, whose handlers cannot be set, `FuncStateMachine`, `ObservableStateMachine`, and
  `lastActionTimeFinish`, which is written and never read.
* `MQTTService::connect`, which loops until it succeeds, and publishing.
* `Profiler::getAverage`, the buffer of recorded intervals, and what an observer of the profiler does.
* Services that the program puts into the states Paused and Slept.
* Lines of more words than the console has room for, which overrun an array.
* `findNodeJustBefore`, `insertAfter` and the tailed and doubly linked lists: nothing in the library calls them.
