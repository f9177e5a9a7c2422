--------------------------------- MODULE AvrPower -------------------------------
(***************************************************************************)
(* Power, sleep, watchdog and pin interrupts of an AVR (power_avr.h,       *)
(* sleep_avr.h, watchdog_avr.h and .cpp, interrupt_avr.h under             *)
(* fact/hardware) and the hardware they drive.  An operation is a few      *)
(* instructions, and an interrupt can come between any two of them while   *)
(* the I flag is set; the instruction behind sei() is never interrupted.   *)
(*                                                                         *)
(* How long a time-out is does not matter: once armed, the watchdog may    *)
(* expire at any moment.  Brown-out detection is left as it is, and what   *)
(* an interrupt handler does beyond returning is left out.                 *)
(***************************************************************************)
EXTENDS Naturals, FiniteSets

CONSTANTS
    Wdto,       \* the time-outs asked for, 0 (15 ms) to 9 (8 s)
    Pins,       \* pins that have a pin change interrupt
    PinGroup,   \* for each of them, the bit of PCICR
    PinBit,     \* and the bit of that group's PCMSK
    None        \* no time-out

ASSUME AvrAssumption ==
    /\ Wdto \subseteq 0 .. 9 /\ None \notin Wdto
    /\ PinGroup \in [Pins -> Nat] /\ PinBit \in [Pins -> Nat]
    /\ \A p, q \in Pins : PinGroup[p] = PinGroup[q] /\ PinBit[p] = PinBit[q] => p = q

VARIABLES
    pc,         \* the next instruction of interest
    I,          \* the global interrupt enable flag
    control,    \* WDTCSR, and WDRF of MCUSR: [wdie, wde, wdp, wdrf]
    pending,    \* the interrupts whose flags are set
    isr,        \* Watchdog::isr.enabled
    systemReset,\* Watchdog::systemReset.enabled
    alarm,      \* the time-out that powerDown(wdto) was called with
    PCICR,      \* the groups enabled
    PCMSK,      \* for each group, the bits enabled
    unit,       \* the ADC, the USB controller and a timer: [power, enabled]
    served,     \* for checking: interrupts served since sleep() turned them off
    wanted      \* for checking: the pins last written

avrVars == <<pc, I, control, pending, isr, systemReset, alarm, PCICR, PCMSK,
             unit, served, wanted>>

Units == {"adc", "usb", "timer"}
Groups == {PinGroup[p] : p \in Pins}
Off == [wdie |-> FALSE, wde |-> FALSE, wdp |-> 0, wdrf |-> FALSE]

AvrInit ==
    /\ pc = "loop"
    /\ I = TRUE
    /\ control = Off
    /\ pending = {}
    /\ isr = FALSE /\ systemReset = FALSE
    /\ alarm = None
    /\ PCICR = {} /\ PCMSK = [g \in Groups |-> {}]
    /\ unit = [u \in Units |-> [power |-> TRUE, enabled |-> TRUE]]
    /\ served = {} /\ wanted = {}

sleepVars == <<alarm, served>>
pinVars == <<PCICR, PCMSK, wanted>>
flagVars == <<isr, systemReset>>

--------------------------------------------------------------------------------
(***************************************************************************)
(* Watchdog.  WDP3 is bit 5 of the register; the bits of WDP2 to WDP0 are  *)
(* its lowest.                                                             *)
(***************************************************************************)
buildPrescalar(wdto) == (wdto % 8) + (IF wdto \div 8 = 1 THEN 32 ELSE 0)

\* The time-out that the hardware makes of the register.
TimeOut(wdp) == (wdp % 8) + (IF wdp \div 32 = 1 THEN 8 ELSE 0)

(***************************************************************************)
(* enableFromPrescalar: from cli() to sei() nothing interrupts it.  Read,  *)
(* or'ed and written back, WDTCSR also clears a watchdog interrupt that is *)
(* pending: its flag is cleared by writing a one.  WDRF is cleared first.  *)
(***************************************************************************)
enable(wdto) ==
    /\ control' = [wdie |-> isr, wde |-> systemReset,
                   wdp |-> buildPrescalar(wdto), wdrf |-> FALSE]
    /\ pending' = pending \ {"watchdog"}
    /\ I' = TRUE

(***************************************************************************)
(* What the main loop may call, besides sleep: flags and watchdog.         *)
(***************************************************************************)
SetFlags ==
    /\ pc = "loop"
    /\ isr' \in BOOLEAN /\ systemReset' \in BOOLEAN
    /\ UNCHANGED <<pc, I, control, pending, sleepVars, pinVars, unit>>

Enable(wdto) ==
    /\ pc = "loop"
    /\ enable(wdto)
    /\ UNCHANGED <<pc, flagVars, sleepVars, pinVars, unit>>

\* wdt_disable() of the C library: WDE stays for as long as WDRF is set.
disable == control' = [Off EXCEPT !.wde = control.wdrf, !.wdrf = control.wdrf]

Disable ==
    /\ pc = "loop"
    /\ disable
    /\ UNCHANGED <<pc, I, pending, flagVars, sleepVars, pinVars, unit>>

--------------------------------------------------------------------------------
(***************************************************************************)
(* Sleep.powerDown(wdto): isr.on(), enable(wdto), Power.sleep(), disable().*)
(* Sleep.powerDown() and idle() begin at Power.sleep().                    *)
(***************************************************************************)
\* Mutant: the watchdog is enabled before it is told to interrupt.
M_PowerDownFor_EnabledFirst(wdto) ==
    /\ pc = "loop"
    /\ alarm' = wdto
    /\ enable(wdto)
    /\ isr' = TRUE
    /\ pc' = "cli"
    /\ UNCHANGED <<systemReset, served, pinVars, unit>>

PowerDownFor(wdto) ==
    /\ pc = "loop"
    /\ alarm' = wdto
    /\ isr' = TRUE
    /\ pc' = "enable"
    /\ UNCHANGED <<I, control, pending, systemReset, served, pinVars, unit>>

EnableAlarm ==
    /\ pc = "enable"
    /\ enable(alarm)
    /\ pc' = "cli"
    /\ UNCHANGED <<flagVars, sleepVars, pinVars, unit>>

PowerDown ==
    /\ pc = "loop"
    /\ pc' = "cli"
    /\ UNCHANGED <<I, control, pending, flagVars, sleepVars, pinVars, unit>>

\* Mutant: interrupts stay on while sleep is prepared.
M_Cli_LeftOn ==
    /\ pc = "cli"
    /\ pc' = "sleep_enable"
    /\ served' = {}
    /\ UNCHANGED <<I, control, pending, flagVars, alarm, pinVars, unit>>

\* Power.sleep(): set_sleep_mode() and cli().
Cli ==
    /\ pc = "cli"
    /\ I' = FALSE
    /\ pc' = "sleep_enable"
    /\ served' = {}
    /\ UNCHANGED <<control, pending, flagVars, alarm, pinVars, unit>>

\* sleep_enable(), then sei(), which lets sleep_cpu() follow at once.
Sei ==
    /\ pc = "sleep_enable"
    /\ I' = TRUE
    /\ pc' = "sleep_cpu"
    /\ UNCHANGED <<control, pending, flagVars, sleepVars, pinVars, unit>>

SleepCpu ==
    /\ pc = "sleep_cpu"
    /\ pc' = "asleep"
    /\ UNCHANGED <<I, control, pending, flagVars, sleepVars, pinVars, unit>>

\* sleep_disable(), a second sei(); powerDown(wdto) ends with disable().
Awake ==
    /\ pc = "awake"
    /\ pc' = "loop"
    /\ I' = TRUE
    /\ alarm' = None
    /\ IF alarm # None THEN disable ELSE control' = control
    /\ UNCHANGED <<pending, flagVars, served, pinVars, unit>>

--------------------------------------------------------------------------------
(***************************************************************************)
(* Pin interrupts.  PinChangeContext::write() enables one pin's group and  *)
(* bit; PinChangeContextMulti collects several with _or() and writes the   *)
(* masks that have bits.                                                   *)
(***************************************************************************)
Bits(pins, g) == {PinBit[p] : p \in {q \in pins : PinGroup[q] = g}}

\* Mutant: the groups are added to those enabled before.
M_write_Added(pins) ==
    /\ PCICR' = PCICR \union {PinGroup[p] : p \in pins}
    /\ PCMSK' = [g \in Groups |-> IF Bits(pins, g) # {} THEN Bits(pins, g) ELSE PCMSK[g]]

write(pins) ==
    /\ PCICR' = {PinGroup[p] : p \in pins}
    /\ PCMSK' = [g \in Groups |-> IF Bits(pins, g) # {} THEN Bits(pins, g) ELSE PCMSK[g]]

Write(pins) ==
    /\ pc = "loop"
    /\ write(pins)
    /\ wanted' = pins
    /\ UNCHANGED <<pc, I, control, pending, flagVars, sleepVars, unit>>

Listening(p) == PinGroup[p] \in PCICR /\ PinBit[p] \in PCMSK[PinGroup[p]]

--------------------------------------------------------------------------------
(***************************************************************************)
(* ADCControl and USBControl.  A unit whose clock is stopped ignores what  *)
(* is written to its registers: what has to be said to it is said first    *)
(* when it is turned off, and last when it is turned on.                   *)
(***************************************************************************)
SetEnabled(u, b) == [u EXCEPT !.enabled = IF u.power THEN b ELSE @]
SetPower(u, b) == [u EXCEPT !.power = b]

\* Mutant: the clock is stopped first.
M_off_PowerFirst(u) == SetEnabled(SetPower(u, FALSE), FALSE)

off(u) == SetPower(SetEnabled(u, FALSE), FALSE)

on(u) == SetEnabled(SetPower(u, TRUE), TRUE)

Switch(u) ==
    /\ pc = "loop" /\ u # "timer"
    /\ \/ unit' = [unit EXCEPT ![u] = on(@)]
       \/ unit' = [unit EXCEPT ![u] = off(@)]
    /\ UNCHANGED <<pc, I, control, pending, flagVars, sleepVars, pinVars>>

(***************************************************************************)
(* Timers, USART, TWI, SPI and USI: the clock is stopped or not.  Timers   *)
(* and USARTs have a number, and one that the switch has no case for does  *)
(* nothing.  One timer stands for them all.                                *)
(*                                                                         *)
(* TimerItem::on has a case 4 (power_avr.h:99) that off does not have; it  *)
(* takes more than the 4 timers that avr/features.h gives any chip.        *)
(***************************************************************************)
SwitchClock(known, power) ==
    /\ pc = "loop"
    /\ unit' = IF known THEN [unit EXCEPT !["timer"] = SetPower(@, power)] ELSE unit
    /\ UNCHANGED <<pc, I, control, pending, flagVars, sleepVars, pinVars>>

--------------------------------------------------------------------------------
(***************************************************************************)
(* The hardware.  An armed watchdog expires: it interrupts if it is told   *)
(* to, and resets otherwise.                                               *)
(***************************************************************************)
Expire ==
    /\ control.wdie
    /\ pending' = pending \union {"watchdog"}
    /\ UNCHANGED <<pc, I, control, flagVars, sleepVars, pinVars, unit>>

\* Behind a reset, WDRF keeps WDE set, and the time-out is the shortest.
Reset ==
    /\ control.wde /\ ~ control.wdie
    /\ pc' = "loop" /\ I' = TRUE
    /\ control' = [Off EXCEPT !.wde = TRUE, !.wdrf = TRUE]
    /\ pending' = {}
    /\ isr' = FALSE /\ systemReset' = FALSE
    /\ alarm' = None /\ served' = {}
    /\ PCICR' = {} /\ PCMSK' = [g \in Groups |-> {}] /\ wanted' = {}
    /\ unit' = [u \in Units |-> [power |-> TRUE, enabled |-> TRUE]]

PinChange(p) ==
    /\ Listening(p)
    /\ pending' = pending \union {"pin"}
    /\ UNCHANGED <<pc, I, control, flagVars, sleepVars, pinVars, unit>>

(***************************************************************************)
(* An interrupt is served, and wakes the CPU.  The watchdog that is to     *)
(* interrupt and to reset, as well, resets the next time.                  *)
(***************************************************************************)
Serve(i) ==
    /\ I /\ i \in pending /\ pc # "sleep_cpu"
    /\ pending' = pending \ {i}
    /\ served' = served \union {i}
    /\ pc' = IF pc = "asleep" THEN "awake" ELSE pc
    /\ control' = IF i = "watchdog" /\ control.wde
                  THEN [control EXCEPT !.wdie = FALSE] ELSE control
    /\ UNCHANGED <<I, flagVars, alarm, pinVars, unit>>

AvrNext ==
    \/ SetFlags \/ Disable \/ EnableAlarm \/ PowerDown \/ Cli \/ Sei
    \/ SleepCpu \/ Awake \/ Expire \/ Reset
    \/ \E w \in Wdto : Enable(w) \/ PowerDownFor(w)
    \/ \E ps \in SUBSET Pins \ {{}} : Write(ps)
    \/ \E p \in Pins : PinChange(p)
    \/ \E u \in Units : Switch(u)
    \/ \E known, power \in BOOLEAN : SwitchClock(known, power)
    \/ \E i \in {"watchdog", "pin"} : Serve(i)

--------------------------------------------------------------------------------
(***************************************************************************)
(* No lost wake-up: an interrupt that comes once Power.sleep() has called  *)
(* cli() is not used up on the way to sleep, where it would have been      *)
(* waited for; and the CPU that sleeps can be interrupted.                 *)
(***************************************************************************)
NoLostWakeup == pc = "asleep" => I /\ served = {}

(***************************************************************************)
(* Asleep in powerDown(wdto), the watchdog is armed with that time-out,    *)
(* whatever flags were set before, and whether it interrupted already on   *)
(* the way or not.                                                         *)
(***************************************************************************)
AlarmAsRequested ==
    pc = "asleep" /\ alarm # None =>
        /\ control.wdie \/ control.wde
        /\ TimeOut(control.wdp) = alarm

(***************************************************************************)
(* The pins that interrupt are those last written, not some of an earlier  *)
(* write whose mask was left standing.  And what has no power was shut     *)
(* down first: "otherwise it seems not all the above commands run and USB  *)
(* stays pseudo-connected to host" (power_avr.h:35).                       *)
(***************************************************************************)
PinsAsWritten == {p \in Pins : Listening(p)} = wanted

ShutDownBeforeOff ==
    \A u \in Units \ {"timer"} : ~ unit[u].power => ~ unit[u].enabled

PinsAndUnitsAsTold == PinsAsWritten /\ ShutDownBeforeOff

================================================================================
