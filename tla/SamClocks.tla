--------------------------------- MODULE SamClocks ------------------------------
(***************************************************************************)
(* The clocks of a SAMD21 and the watchdog that hangs on them: gclk.h,     *)
(* apb.h and rtc.cpp under driver/atmel/sam, watchdog_sam.h and the clock  *)
(* control of power_sam.h under fact/hardware.  Every operation ends by    *)
(* waiting until the hardware has taken over what was written, so an       *)
(* operation is a step.                                                    *)
(*                                                                         *)
(* The watchdog and the real time clock are both put on generator 2, from  *)
(* different oscillators of 32768 Hz.                                      *)
(***************************************************************************)
EXTENDS Naturals, FiniteSets

CONSTANTS
    Generators,     \* generic clock generators in use
    TimeOuts,       \* the milliseconds asked for: powers of two, 8 to 16384
    ModuleClocks,   \* the bits of the APB mask registers in use
    UsbClock,       \* the USB controller's, a bit of bus 1
    NoGenerator     \* of a clock that is not connected

\* Assumed of the constants where this module is instantiated.
SamAssumption ==
    /\ 2 \in Generators /\ Generators \subseteq 0 .. 7
    /\ \A t \in TimeOuts : \E n \in 0 .. 11 : t = 2 ^ (n + 3)
    /\ NoGenerator \notin Generators /\ UsbClock \in ModuleClocks

VARIABLES
    generator,  \* GENDIV and GENCTRL: [div, divsel, source, enabled]
    clkctrl,    \* CLKCTRL: the generator of each peripheral's clock
    wdt,        \* CTRL, CONFIG and INTENSET of the watchdog: [enabled, per, warns]
    mask,       \* APBAMASK, APBBMASK and APBCMASK, as 0, 1 and 2
    period,     \* for checking: the time-out last asked for
    asked       \* for checking: the clocks turned on and not off, by bus

samVars == <<generator, clkctrl, wdt, mask, period, asked>>

Buses == 0 .. 2
Oscillators == {"OSCULP32K", "XOSC32K"}

Init ==
    /\ generator = [g \in Generators |-> [div |-> 0, divsel |-> FALSE,
                                          source |-> "OSCULP32K", enabled |-> FALSE]]
    /\ clkctrl = [p \in {"WDT", "RTC"} |-> NoGenerator]
    /\ wdt = [enabled |-> FALSE, per |-> 11, warns |-> FALSE]
    /\ mask = [b \in Buses |-> {}]
    /\ period = 16384
    /\ asked = [b \in Buses |-> {}]

--------------------------------------------------------------------------------
(***************************************************************************)
(* GenericClock: set_divisor, enable_generator and enable_clock, one after *)
(* the other, as Watchdog::initialize, initialize2 and RealTimeClock::begin*)
(* call them.                                                              *)
(***************************************************************************)
set_divisor(g, divisor) == [g EXCEPT !.div = divisor]

enable_generator(g, source) ==
    [g EXCEPT !.divsel = TRUE, !.source = source, !.enabled = TRUE]

Clock(peripheral, g, source) ==
    /\ generator' = [generator EXCEPT ![g] =
                        enable_generator(set_divisor(@, 4), source)]
    /\ clkctrl' = [clkctrl EXCEPT ![peripheral] = g]

initialize(g) ==
    /\ Clock("WDT", g, "OSCULP32K")
    /\ UNCHANGED <<wdt, mask, period, asked>>

begin ==
    /\ Clock("RTC", 2, "XOSC32K")
    /\ UNCHANGED <<wdt, mask, period, asked>>

(***************************************************************************)
(* Watchdog.  CONFIG cannot be written while the watchdog is enabled.      *)
(***************************************************************************)
SetConfig(w, per) == [w EXCEPT !.per = IF w.enabled THEN @ ELSE per]

\* Mutant: the register is written while the watchdog runs.
M_Configured_Running(w, per) == SetConfig(w, per)

\* Disabled, so that its registers can be changed.
Configured(w, per) == SetConfig([w EXCEPT !.enabled = FALSE], per)

\* WDTO::fromMS: the switch over the time-outs.
fromMS(timeout) == CHOOSE n \in 0 .. 11 : 2 ^ (n + 3) = timeout

enable(timeout) ==
    /\ wdt' = [Configured(wdt, fromMS(timeout)) EXCEPT
                    !.warns = FALSE, !.enabled = TRUE]
    /\ period' = timeout
    /\ UNCHANGED <<generator, clkctrl, mask, asked>>

\* The raw enable(), disable() and the early warning interrupt.
Toggle ==
    /\ \/ wdt' = [wdt EXCEPT !.enabled = ~ @]
       \/ wdt' = [wdt EXCEPT !.warns = ~ @]
    /\ UNCHANGED <<generator, clkctrl, mask, period, asked>>

(***************************************************************************)
(* APB: the mask register of a bus, and the setting and clearing of it.    *)
(***************************************************************************)
get_clock_mask(bus) == IF bus = 2 THEN 1 ELSE bus

clock_set_mask(bus, m) ==
    /\ mask' = [mask EXCEPT ![get_clock_mask(bus)] = @ \union {m}]
    /\ asked' = [asked EXCEPT ![bus] = @ \union {m}]
    /\ UNCHANGED <<generator, clkctrl, wdt, period>>

clock_clear_mask(bus, m) ==
    /\ mask' = [mask EXCEPT ![get_clock_mask(bus)] = @ \ {m}]
    /\ asked' = [asked EXCEPT ![bus] = @ \ {m}]
    /\ UNCHANGED <<generator, clkctrl, wdt, period>>

\* PowerControl::usb, which names the register of bus B itself.
usb ==
    /\ \E m \in {mask[1] \union {UsbClock}, mask[1] \ {UsbClock}} :
          /\ mask' = [mask EXCEPT ![1] = m]
          /\ asked' = [asked EXCEPT ![1] =
                          IF UsbClock \in m THEN @ \union {UsbClock} ELSE @ \ {UsbClock}]
    /\ UNCHANGED <<generator, clkctrl, wdt, period>>

SamNext ==
    \/ \E g \in Generators : initialize(g)
    \/ begin \/ Toggle \/ usb
    \/ \E t \in TimeOuts : enable(t)
    \/ \E b \in Buses, m \in ModuleClocks : clock_set_mask(b, m) \/ clock_clear_mask(b, m)

SamSpec == Init /\ [][SamNext]_samVars

--------------------------------------------------------------------------------
\* The frequency of a generator, from an oscillator of 32768 Hz.
Hertz(g) == 32768 \div (IF g.divsel THEN 2 ^ (g.div + 1) ELSE g.div)

(***************************************************************************)
(* The watchdog bites after the time that was asked for, 1024 ticks to the *)
(* second, whatever it was set to before and whoever set up the generator  *)
(* that it shares with the real time clock, which ticks at the same rate.  *)
(***************************************************************************)
PeriodAsRequested ==
    /\ 2 ^ (wdt.per + 3) = period
    /\ \A p \in DOMAIN clkctrl : clkctrl[p] # NoGenerator =>
          LET g == generator[clkctrl[p]] IN g.enabled /\ Hertz(g) = 1024

(***************************************************************************)
(* The mask registers hold what was set for their bus: "apb_bus 0 = A,     *)
(* 1 = B, 2 = C" (apb.h:20).                                               *)
(***************************************************************************)
BusesApart == mask = asked

================================================================================
