---------------------------------- MODULE Parts ---------------------------------
(***************************************************************************)
(* The parts of the library that work on their own: power and sleep of an  *)
(* AVR, the clocks of a SAMD21, the layered services, the button, the      *)
(* profiler and the parameters of events.  None shares state with another, *)
(* so that a behaviour follows one of them, and the others rest.  The AVR  *)
(* is extended, and the others are instantiated.                           *)
(***************************************************************************)
EXTENDS AvrPower, Sequences

CONSTANTS
    Generators, TimeOuts, ModuleClocks, UsbClock, NoGenerator,
    WiFiRetries, MQTTRetries,
    ClockMax,
    Frequency, Elapsed, IntervalMax, IteratorMax, MaxsSize,
    Callback, Values, Arguments, Unknown, MaxSubscribers, MaxNested

VARIABLES
    part,       \* the part that is followed
    generator, clkctrl, wdt, mask, period, asked,
    kind, pcService, state, told, retries, connected,
    button, pressedAt, millis, samples, age,
    longest, shortest, maxs, spikeObserverLatch, frequencyCounter, iterator,
    overflowed, since, shown, calls,
    value, subscribers, walks, read

Sam == INSTANCE SamClocks
Layered == INSTANCE LayeredService WITH pc <- pcService
Press == INSTANCE Button
Profile == INSTANCE Profiler
Events == INSTANCE EventParameters WITH told <- read

ASSUME PartsAssumption ==
    /\ Sam!SamAssumption /\ Layered!RetriesAssumption
    /\ Press!ButtonAssumption /\ Profile!ProfilerAssumption /\ Events!EventAssumption

samVars == <<generator, clkctrl, wdt, mask, period, asked>>
serviceVars == <<kind, pcService, state, told, retries, connected>>
buttonVars == <<button, pressedAt, millis, samples, age>>
profilerVars == <<longest, shortest, maxs, spikeObserverLatch, frequencyCounter,
                  iterator, overflowed, since, shown, calls>>
eventVars == <<value, subscribers, walks, read>>
vars == <<part, avrVars, samVars, serviceVars, buttonVars, profilerVars, eventVars>>

Init ==
    /\ part \in {"avr", "sam", "service", "button", "profiler", "events"}
    /\ AvrInit /\ Sam!Init /\ Press!Init /\ Profile!Init /\ Events!Init
    /\ Layered!Init
    /\ part # "service" => kind = "basic"
    /\ part # "events" => value = CHOOSE v \in Values : TRUE

AvrStep ==
    /\ part = "avr" /\ AvrNext
    /\ UNCHANGED <<part, samVars, serviceVars, buttonVars,
                   profilerVars, eventVars>>

SamStep ==
    /\ part = "sam" /\ Sam!SamNext
    /\ UNCHANGED <<part, avrVars, serviceVars, buttonVars,
                   profilerVars, eventVars>>

ServiceStep ==
    /\ part = "service" /\ Layered!ServiceNext
    /\ UNCHANGED <<part, avrVars, samVars, buttonVars,
                   profilerVars, eventVars>>

ButtonStep ==
    /\ part = "button" /\ Press!ButtonNext
    /\ UNCHANGED <<part, avrVars, samVars, serviceVars,
                   profilerVars, eventVars>>

ProfilerStep ==
    /\ part = "profiler" /\ Profile!ProfilerNext
    /\ UNCHANGED <<part, avrVars, samVars, serviceVars,
                   buttonVars, eventVars>>

EventStep ==
    /\ part = "events" /\ Events!EventNext
    /\ UNCHANGED <<part, avrVars, samVars, serviceVars, buttonVars,
                   profilerVars>>

Next ==
    AvrStep \/ SamStep \/ ServiceStep \/ ButtonStep \/ ProfilerStep \/ EventStep

\* A start function goes on until it returns.
Spec == Init /\ [][Next]_vars /\ WF_vars(ServiceStep /\ pcService = "starting")

--------------------------------------------------------------------------------
(***************************************************************************)
(* The watchdog of a SAMD21 bites when it was asked to.                    *)
(***************************************************************************)
PeriodAsRequested == Sam!PeriodAsRequested

(***************************************************************************)
(* Presses are reported once and timed; the profiler tells what happened.  *)
(***************************************************************************)
PressesAreTimed == Press!PressesAreTimed
ProfileIsTrue == Profile!ProfileIsTrue

(***************************************************************************)
(* Callbacks get the arguments passed, and the value that was set last.    *)
(***************************************************************************)
CallbacksAreTold == Events!CallbacksAreTold

(***************************************************************************)
(* Every kind of service keeps to the protocol of ServiceProtocol.         *)
(***************************************************************************)
KeepsProtocol == Layered!KeepsProtocol

================================================================================
