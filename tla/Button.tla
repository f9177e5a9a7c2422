---------------------------------- MODULE Button --------------------------------
(***************************************************************************)
(* ButtonWithTimer of state/button.h and .cpp: samples of a button become  *)
(* states, of which PRESSED and RELEASED stand for a single sample, and    *)
(* the time since the initial press is kept.                               *)
(***************************************************************************)
EXTENDS Naturals

CONSTANT ClockMax   \* millis() counts modulo this

\* Assumed of the constants where this module is instantiated.
ButtonAssumption == ClockMax \in Nat \ {0}

VARIABLES
    button,     \* Button::state
    pressedAt,  \* buttonInitialPressTimestamp
    millis,     \* the clock
    samples,    \* for checking: the last two samples since a reset
    age         \* for checking: the time since the button went down, if in range

buttonVars == <<button, pressedAt, millis, samples, age>>

Init ==
    /\ button = "IDLE"
    /\ pressedAt = 0 /\ millis = 0
    /\ samples = <<FALSE, FALSE>>
    /\ age = 0

isPressed(s) == s \in {"PRESSED", "PRESSING"}

\* Button::update
updated(s, pressed) ==
    IF isPressed(s)
    THEN IF ~ pressed THEN "RELEASED" ELSE IF s = "PRESSED" THEN "PRESSING" ELSE s
    ELSE IF pressed THEN "PRESSED" ELSE "IDLE"

\* Mutant: every sample that finds the button down takes the time.
M_Stamps_Always(s) == isPressed(s)

Stamps(s) == s = "PRESSED"

\* ButtonWithTimer::update
update(pressed) ==
    /\ button' = updated(button, pressed)
    /\ pressedAt' = IF Stamps(button') THEN millis ELSE pressedAt
    /\ samples' = <<samples[2], pressed>>
    /\ age' = IF pressed /\ ~ samples[2] THEN 0 ELSE age
    /\ UNCHANGED millis

reset ==
    /\ button' = "IDLE"
    /\ samples' = <<FALSE, FALSE>>
    /\ UNCHANGED <<pressedAt, millis, age>>

\* Bound: a press is followed for one round of the clock.
Tick ==
    /\ millis' = (millis + 1) % ClockMax
    /\ age' = IF age < ClockMax THEN age + 1 ELSE age
    /\ UNCHANGED <<button, pressedAt, samples>>

elapsedSinceInitialPress == (millis + ClockMax - pressedAt) % ClockMax

ButtonNext == (\E pressed \in BOOLEAN : update(pressed)) \/ reset \/ Tick

(***************************************************************************)
(* A press and a release are reported once, at the sample that shows them, *)
(* and while the button is down, and when its release is reported, the time*)
(* since the press is told, also across the wrap of the clock.             *)
(***************************************************************************)
PressesAreTimed ==
    /\ button = "PRESSED" <=> samples = <<FALSE, TRUE>>
    /\ button = "PRESSING" <=> samples = <<TRUE, TRUE>>
    /\ button = "RELEASED" <=> samples = <<TRUE, FALSE>>
    /\ button # "IDLE" /\ age < ClockMax => elapsedSinceInitialPress = age

================================================================================
