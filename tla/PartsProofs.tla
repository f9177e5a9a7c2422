------------------------------- MODULE PartsProofs -----------------------------
(***************************************************************************)
(* Proofs about the parts that are composed in Parts: the clocks of a      *)
(* SAMD21, the button, the profiler, the parameters of events, the power-  *)
(* down and registers of an AVR, and the kinds of services.                *)
(***************************************************************************)
EXTENDS Parts, SequenceTheorems, TLAPS

(***************************************************************************)
(* The remainder of a sum that passes the modulus at most once.            *)
(***************************************************************************)
LEMMA Wraps ==
    ASSUME NEW n \in Nat \ {0}, NEW a \in Nat, a < n + n
    PROVE  a % n = (IF a < n THEN a ELSE a - n)
<1>1. CASE a < n
  BY <1>1
<1>2. CASE a >= n
  <2>1. a = n * 1 + (a - n) /\ a - n \in 0 .. n - 1
    BY <1>2
  <2> QED
    BY <2>1, <1>2
<1> QED
  BY <1>1, <1>2

--------------------------------------------------------------------------------
(***************************************************************************)
(* The time-stamp is as old as the press, as long as that fits the clock.  *)
(***************************************************************************)
Timed ==
    /\ millis \in 0 .. ClockMax - 1 /\ pressedAt \in 0 .. ClockMax - 1
    /\ age \in 0 .. ClockMax
    /\ samples \in BOOLEAN \X BOOLEAN
    /\ button \in {"IDLE", "PRESSED", "PRESSING", "RELEASED"}
    /\ PressesAreTimed

\* The time that has elapsed, without a modulus.
LEMMA ElapsedIs ==
    ASSUME NEW t \in 0 .. ClockMax - 1, NEW p \in 0 .. ClockMax - 1
    PROVE  (t + ClockMax - p) % ClockMax = (IF t < p THEN t + ClockMax - p ELSE t - p)
<1>1. ClockMax \in Nat \ {0}
  BY PartsAssumption DEF Press!ButtonAssumption
<1> DEFINE e == t + ClockMax - p
<1>2. e \in Nat /\ e < ClockMax + ClockMax /\ (e < ClockMax <=> t < p) /\ e - ClockMax = t - p
  BY <1>1
<1>3. e % ClockMax = (IF e < ClockMax THEN e ELSE e - ClockMax)
  <2> HIDE DEF e
  <2> QED
    BY <1>1, <1>2, Wraps
<1> QED
  BY <1>2, <1>3

\* A reading of the pin keeps the time-stamps.
LEMMA UpdateTimes ==
    ASSUME Timed, NEW pressed \in BOOLEAN, Press!update(pressed)
    PROVE  Timed'
<1> USE DEF Timed, PressesAreTimed, Press!PressesAreTimed
<1>1. ClockMax \in Nat \ {0}
  BY PartsAssumption DEF Press!ButtonAssumption
<1>2. /\ button' = Press!updated(button, pressed)
      /\ pressedAt' = IF button' = "PRESSED" THEN millis ELSE pressedAt
      /\ samples' = <<samples[2], pressed>>
      /\ age' = IF pressed /\ ~ samples[2] THEN 0 ELSE age
      /\ millis' = millis
  BY DEF Press!update, Press!Stamps
<1>3. samples = <<samples[1], samples[2]>> /\ samples[1] \in BOOLEAN /\ samples[2] \in BOOLEAN
  OBVIOUS
<1>4. /\ button' \in {"IDLE", "PRESSED", "PRESSING", "RELEASED"}
      /\ button' = "PRESSED" <=> samples' = <<FALSE, TRUE>>
      /\ button' = "PRESSING" <=> samples' = <<TRUE, TRUE>>
      /\ button' = "RELEASED" <=> samples' = <<TRUE, FALSE>>
  <2>1. /\ samples \in {<<FALSE, FALSE>>, <<FALSE, TRUE>>, <<TRUE, FALSE>>, <<TRUE, TRUE>>}
        /\ pressed \in {FALSE, TRUE}
    BY <1>3
  <2>2. CASE samples = <<FALSE, FALSE>>
    BY <2>1, <2>2, <1>2 DEF Press!updated, Press!isPressed
  <2>3. CASE samples = <<FALSE, TRUE>>
    BY <2>1, <2>3, <1>2 DEF Press!updated, Press!isPressed
  <2>4. CASE samples = <<TRUE, FALSE>>
    BY <2>1, <2>4, <1>2 DEF Press!updated, Press!isPressed
  <2>5. CASE samples = <<TRUE, TRUE>>
    BY <2>1, <2>5, <1>2 DEF Press!updated, Press!isPressed
  <2> QED
    BY <2>1, <2>2, <2>3, <2>4, <2>5
<1>5. ASSUME button' # "IDLE", age' < ClockMax
      PROVE  (millis + ClockMax - pressedAt') % ClockMax = age'
  <2>1. CASE button' = "PRESSED"
    <3>1. pressedAt' = millis /\ age' = 0
      BY <1>2, <1>3, <1>4, <2>1
    <3> QED
      BY <3>1, <1>1, ElapsedIs
  <2>2. CASE button' \in {"PRESSING", "RELEASED"}
    <3>1. samples[2] /\ button' # "PRESSED"
      BY <1>2, <1>3, <1>4, <2>2
    <3>2. pressedAt' = pressedAt /\ age' = age
      BY <1>2, <3>1
    <3>3. button # "IDLE"
      BY <1>2, <2>2 DEF Press!updated, Press!isPressed
    <3> QED
      BY <3>2, <3>3, <1>5 DEF Press!elapsedSinceInitialPress
  <2> QED
    BY <1>4, <1>5, <2>1, <2>2
<1>6. /\ millis' \in 0 .. ClockMax - 1 /\ pressedAt' \in 0 .. ClockMax - 1
      /\ age' \in 0 .. ClockMax /\ samples' \in BOOLEAN \X BOOLEAN
  BY <1>1, <1>2
<1> QED
  BY <1>2, <1>4, <1>5, <1>6 DEF Press!elapsedSinceInitialPress

\* So does the clock, which wraps.
LEMMA TickTimes ==
    ASSUME Timed, Press!Tick
    PROVE  Timed'
<1> USE DEF Timed, PressesAreTimed, Press!PressesAreTimed
<1>1. ClockMax \in Nat \ {0}
  BY PartsAssumption DEF Press!ButtonAssumption
<1>2. /\ millis' = (millis + 1) % ClockMax
      /\ age' = IF age < ClockMax THEN age + 1 ELSE age
      /\ UNCHANGED <<button, pressedAt, samples>>
  BY DEF Press!Tick
<1>3. millis' = IF millis + 1 < ClockMax THEN millis + 1 ELSE millis + 1 - ClockMax
  <2> DEFINE next == millis + 1
  <2>1. next \in Nat /\ next < ClockMax + ClockMax
    BY <1>1
  <2>2. next % ClockMax = (IF next < ClockMax THEN next ELSE next - ClockMax)
    <3> HIDE DEF next
    <3> QED
      BY <2>1, <1>1, Wraps
  <2> QED
    BY <2>1, <2>2, <1>1, <1>2
<1>4. millis' \in 0 .. ClockMax - 1 /\ age' \in 0 .. ClockMax
  BY <1>1, <1>2, <1>3
<1>5. ASSUME button # "IDLE", age' < ClockMax
      PROVE  (millis' + ClockMax - pressedAt) % ClockMax = age'
  <2>1. age < ClockMax /\ age' = age + 1
    BY <1>1, <1>2, <1>5
  <2>2. (millis + ClockMax - pressedAt) % ClockMax = age
    BY <2>1, <1>5 DEF Press!elapsedSinceInitialPress
  <2>3. age = IF millis < pressedAt THEN millis + ClockMax - pressedAt
                                    ELSE millis - pressedAt
    BY <2>2, ElapsedIs
  <2>4. (millis' + ClockMax - pressedAt) % ClockMax
            = IF millis' < pressedAt THEN millis' + ClockMax - pressedAt
                                     ELSE millis' - pressedAt
    BY <1>4, ElapsedIs
  <2> QED
    BY <2>1, <2>3, <2>4, <1>1, <1>3, <1>5
<1> QED
  BY <1>2, <1>4, <1>5 DEF Press!elapsedSinceInitialPress

(***************************************************************************)
(* A press and a release are reported at the one sample that shows them,   *)
(* and the time since the press is told while the button is down and with  *)
(* its release, across the wrap of millis(), for a clock of any width.     *)
(***************************************************************************)
THEOREM ButtonIsTimed == Spec => []PressesAreTimed
<1>1. Init => Timed
  <2> SUFFICES ASSUME Init PROVE Timed
    OBVIOUS
  <2>1. ClockMax \in Nat \ {0}
    BY PartsAssumption DEF Press!ButtonAssumption
  <2>2. /\ button = "IDLE" /\ samples = <<FALSE, FALSE>>
        /\ millis = 0 /\ pressedAt = 0 /\ age = 0
    BY DEF Init, Press!Init
  <2>3. PressesAreTimed
    BY <2>2 DEF PressesAreTimed, Press!PressesAreTimed
  <2>4. 0 \in 0 .. ClockMax - 1 /\ 0 \in 0 .. ClockMax
    BY <2>1
  <2> QED
    BY <2>2, <2>3, <2>4 DEF Timed
<1>2. Timed /\ [Next]_vars => Timed'
  <2> SUFFICES ASSUME Timed, [Next]_vars PROVE Timed'
    OBVIOUS
  <2>1. CASE ButtonStep
    <3>1. CASE Press!reset
      BY <3>1 DEF Press!reset, Timed, PressesAreTimed, Press!PressesAreTimed
    <3> QED
      BY <2>1, <3>1, UpdateTimes, TickTimes DEF ButtonStep, Press!ButtonNext
  <2>2. CASE UNCHANGED buttonVars
    BY <2>2 DEF buttonVars, Timed, PressesAreTimed, Press!PressesAreTimed,
                Press!elapsedSinceInitialPress
  <2> QED
    BY <2>1, <2>2
    DEF Next, vars, AvrStep, SamStep, ServiceStep, ProfilerStep, EventStep
<1>3. Timed => PressesAreTimed
  BY DEF Timed
<1> QED
  BY <1>1, <1>2, <1>3, PTL DEF Spec

--------------------------------------------------------------------------------
(***************************************************************************)
(* The latch is open at the beginning of a stretch of calls, and closed    *)
(* behind a spike that was shown in it; the maxima increase to the longest *)
(* interval; the iterator counts the calls until it has overflowed.        *)
(***************************************************************************)
Latching ==
    /\ frequencyCounter \in Nat /\ shown \in 0 .. 1 /\ spikeObserverLatch \in BOOLEAN
    /\ frequencyCounter = 0 => ~ spikeObserverLatch
    /\ frequencyCounter # 0 /\ shown = 1 => spikeObserverLatch

\* Every entry is longer than those before it.
Increases(s) == \A i, j \in 1 .. Len(s) : i < j => s[i] < s[j]

\* The longest so far is the last that was noted.
Increasing ==
    /\ longest \in Nat /\ maxs \in Seq(Nat)
    /\ Increases(maxs)
    /\ longest = IF maxs = << >> THEN 0 ELSE maxs[Len(maxs)]

\* The extremes are those of the intervals since they were reset.
Extreme ==
    /\ since \subseteq 0 .. IntervalMax - 1
    /\ longest \in since \union {0} /\ shortest \in since \union {IntervalMax - 1}
    /\ \A x \in since : shortest <= x /\ x <= longest

\* The calls since the counter was at nought, until it overflows.
Counting ==
    /\ iterator \in 0 .. IteratorMax - 1 /\ calls \in 0 .. IteratorMax
    /\ overflowed \in BOOLEAN
    /\ IF calls = IteratorMax THEN overflowed ELSE ~ overflowed /\ iterator = calls

\* The observer sees the first spike of a stretch, and no other.
LEMMA ProfileLatches ==
    ASSUME Latching, NEW e, Profile!Profile(e)
    PROVE  Latching'
<1> DEFINE spike == e % IntervalMax > longest
           last == frequencyCounter + 1 >= Frequency
<1>1. /\ spikeObserverLatch' = Profile!Latched(spike, last)
      /\ frequencyCounter' = IF last THEN 0 ELSE frequencyCounter + 1
      /\ shown' = (IF frequencyCounter = 0 THEN 0 ELSE shown)
                       + (IF spike /\ ~ spikeObserverLatch THEN 1 ELSE 0)
  BY DEF Profile!Profile
<1>2. spike \in BOOLEAN /\ last \in BOOLEAN
  OBVIOUS
<1> HIDE DEF spike, last
<1>3. spikeObserverLatch' = (~ last /\ (spike \/ spikeObserverLatch))
  BY <1>1 DEF Profile!Latched
<1>4. frequencyCounter' \in Nat /\ spikeObserverLatch' \in BOOLEAN
  BY <1>1, <1>3 DEF Latching
<1>5. shown' \in 0 .. 1 /\ (shown' = 1 => spike \/ spikeObserverLatch)
  BY <1>1 DEF Latching
<1>6. frequencyCounter' = 0 <=> last
  BY <1>1 DEF Latching
<1> QED
  BY <1>3, <1>4, <1>5, <1>6 DEF Latching

\* A spike is longer than the longest interval, which is the last of the maxima.
LEMMA PutIncreases ==
    ASSUME NEW s \in Seq(Nat), Increases(s), NEW x \in Nat,
           s # << >> => s[Len(s)] < x
    PROVE  /\ Profile!put(s, x) \in Seq(Nat) /\ Profile!put(s, x) # << >>
           /\ Increases(Profile!put(s, x))
           /\ Profile!put(s, x)[Len(Profile!put(s, x))] = x
<1>1. ASSUME NEW r \in Seq(Nat), Increases(r), r # << >> => r[Len(r)] < x
      PROVE  /\ Append(r, x) \in Seq(Nat) /\ Append(r, x) # << >>
             /\ Increases(Append(r, x)) /\ Append(r, x)[Len(Append(r, x))] = x
  <2> DEFINE a == Append(r, x)
  <2>1. /\ a \in Seq(Nat) /\ Len(r) \in Nat /\ Len(a) = Len(r) + 1 /\ a # << >>
        /\ \A i \in 1 .. Len(r) : a[i] = r[i] /\ r[i] \in Nat
        /\ a[Len(r) + 1] = x
    OBVIOUS
  <2> HIDE DEF a
  <2>2. ASSUME NEW i \in 1 .. Len(r) PROVE r[i] < x
    <3>1. Len(r) \in 1 .. Len(r) /\ i \in Nat /\ i <= Len(r)
      BY <2>1
    <3>2. r # << >>
      BY <3>1
    <3>3. r[Len(r)] < x /\ r[Len(r)] \in Nat /\ r[i] \in Nat
      BY <1>1, <2>1, <3>1, <3>2
    <3>4. CASE i = Len(r)
      BY <3>3, <3>4
    <3>5. CASE i # Len(r)
      <4>1. r[i] < r[Len(r)]
        BY <1>1, <3>1, <3>5 DEF Increases
      <4> QED
        BY <3>3, <4>1
    <3> QED
      BY <3>4, <3>5
  <2>3. ASSUME NEW i \in 1 .. Len(a), NEW j \in 1 .. Len(a), i < j PROVE a[i] < a[j]
    <3>1. i \in 1 .. Len(r) /\ (j = Len(r) + 1 \/ j \in 1 .. Len(r))
      <4>1. Len(r) \in Nat /\ Len(a) = Len(r) + 1
        BY <2>1
      <4> QED
        BY <4>1, <2>3
    <3>2. CASE j = Len(r) + 1
      BY <2>1, <2>2, <3>1, <3>2
    <3>3. CASE j \in 1 .. Len(r)
      <4>1. r[i] < r[j]
        BY <2>3, <3>1, <3>3, <1>1 DEF Increases
      <4> QED
        BY <2>1, <3>1, <3>3, <4>1
    <3> QED
      BY <3>1, <3>2, <3>3
  <2>4. Increases(a)
    BY <2>3 DEF Increases
  <2> QED
    BY <2>1, <2>4 DEF a
<1>2. CASE Len(s) < MaxsSize
  BY <1>1, <1>2 DEF Profile!put
<1>3. CASE ~ (Len(s) < MaxsSize)
  <2>1. MaxsSize \in Nat \ {0}
    BY PartsAssumption DEF Profile!ProfilerAssumption
  <2>2. s # << >>
    BY <1>3, <2>1
  <2> DEFINE r == Tail(s)
  <2>3. /\ r \in Seq(Nat) /\ Len(r) = Len(s) - 1 /\ Len(s) \in Nat
        /\ \A i \in 1 .. Len(r) : r[i] = s[i + 1]
    BY <2>2
  <2> HIDE DEF r
  <2>4. Increases(r)
    <3> SUFFICES ASSUME NEW i \in 1 .. Len(r), NEW j \in 1 .. Len(r), i < j
                 PROVE  r[i] < r[j]
      BY DEF Increases
    <3>1. i + 1 \in 1 .. Len(s) /\ j + 1 \in 1 .. Len(s) /\ i + 1 < j + 1
      BY <2>3
    <3>2. s[i + 1] < s[j + 1]
      BY <3>1 DEF Increases
    <3> QED
      BY <2>3, <3>2
  <2>5. r # << >> => r[Len(r)] < x
    <3> SUFFICES ASSUME r # << >> PROVE r[Len(r)] < x
      OBVIOUS
    <3>1. Len(r) \in 1 .. Len(r) /\ Len(r) + 1 = Len(s)
      BY <2>3
    <3>2. r[Len(r)] = s[Len(s)]
      BY <2>3, <3>1
    <3> QED
      BY <3>2, <2>2
  <2>6. Profile!put(s, x) = Append(r, x)
    BY <1>3 DEF Profile!put, r
  <2> QED
    BY <1>1, <2>3, <2>4, <2>5, <2>6
<1> QED
  BY <1>2, <1>3

\* An interval is noted only when it is longer than all before.
LEMMA ProfileIncreases ==
    ASSUME Increasing, NEW e \in Nat, Profile!Profile(e)
    PROVE  Increasing'
<1> DEFINE x == e % IntervalMax
<1>1. /\ longest' = IF x > longest THEN x ELSE longest
      /\ maxs' = IF x > longest THEN Profile!put(maxs, x) ELSE maxs
  BY DEF Profile!Profile
<1>2. x \in Nat
  BY PartsAssumption DEF Profile!ProfilerAssumption
<1> HIDE DEF x
<1>3. CASE x > longest
  <2>1. maxs # << >> => maxs[Len(maxs)] < x
    BY <1>2, <1>3 DEF Increasing
  <2>2. /\ Profile!put(maxs, x) \in Seq(Nat) /\ Profile!put(maxs, x) # << >>
        /\ Increases(Profile!put(maxs, x))
        /\ Profile!put(maxs, x)[Len(Profile!put(maxs, x))] = x
    BY <2>1, <1>2, PutIncreases DEF Increasing
  <2> QED
    BY <2>2, <1>1, <1>2, <1>3 DEF Increasing
<1>4. CASE ~ (x > longest)
  BY <1>1, <1>4 DEF Increasing
<1> QED
  BY <1>3, <1>4

\* An interval that is longer or shorter than all others becomes the extreme.
LEMMA ProfileExtremes ==
    ASSUME Extreme, NEW e \in Nat, Profile!Profile(e)
    PROVE  Extreme'
<1> DEFINE x == e % IntervalMax
<1>1. /\ longest' = IF x > longest THEN x ELSE longest
      /\ shortest' = IF x < shortest THEN x ELSE shortest
      /\ since' = since \union {x}
  BY DEF Profile!Profile
<1>2. IntervalMax \in Nat \ {0} /\ x \in 0 .. IntervalMax - 1
  BY PartsAssumption DEF Profile!ProfilerAssumption
<1> HIDE DEF x
<1>3. longest \in 0 .. IntervalMax - 1 /\ shortest \in 0 .. IntervalMax - 1
  BY <1>2 DEF Extreme
<1>4. /\ shortest' <= x /\ x <= longest'
      /\ \A y \in 0 .. IntervalMax - 1 :
           shortest <= y /\ y <= longest => shortest' <= y /\ y <= longest'
  BY <1>1, <1>2, <1>3
<1>5. longest' \in since' \union {0} /\ shortest' \in since' \union {IntervalMax - 1}
  BY <1>1 DEF Extreme
<1> QED
  BY <1>1, <1>2, <1>4, <1>5 DEF Extreme

\* The count that wraps to 0 has overflowed.
LEMMA ProfileCounts ==
    ASSUME Counting, NEW e, Profile!Profile(e)
    PROVE  Counting'
<1>1. IteratorMax \in Nat \ {0}
  BY PartsAssumption DEF Profile!ProfilerAssumption
<1>2. /\ overflowed' = (overflowed \/ iterator = IteratorMax - 1)
      /\ iterator' = (iterator + 1) % IteratorMax
      /\ calls' = IF calls < IteratorMax THEN calls + 1 ELSE calls
  BY DEF Profile!Profile
<1> DEFINE next == iterator + 1
<1>3. next \in Nat /\ next < IteratorMax + IteratorMax /\ iterator \in Nat
  BY <1>1 DEF Counting
<1>4. next % IteratorMax = (IF next < IteratorMax THEN next ELSE next - IteratorMax)
  <2> HIDE DEF next
  <2> QED
    BY <1>1, <1>3, Wraps
<1>5. iterator' = (IF next < IteratorMax THEN next ELSE next - IteratorMax)
  BY <1>2, <1>4
<1>6. iterator' \in 0 .. IteratorMax - 1 /\ calls' \in 0 .. IteratorMax
  BY <1>1, <1>2, <1>5 DEF Counting
<1>7. overflowed' \in BOOLEAN
  BY <1>2
<1>8. CASE calls = IteratorMax
  <2>1. calls' = IteratorMax
    BY <1>1, <1>2, <1>8
  <2>2. overflowed'
    BY <1>2, <1>8 DEF Counting
  <2> QED
    BY <2>1, <2>2, <1>6, <1>7 DEF Counting
<1>9. CASE calls # IteratorMax /\ iterator = IteratorMax - 1
  <2>1. overflowed'
    BY <1>2, <1>9
  <2>2. calls' = IteratorMax
    BY <1>1, <1>2, <1>9 DEF Counting
  <2> QED
    BY <2>1, <2>2, <1>6, <1>7 DEF Counting
<1>10. CASE calls # IteratorMax /\ iterator # IteratorMax - 1
  <2>1. ~ overflowed' /\ iterator' = calls' /\ calls' # IteratorMax
    BY <1>1, <1>2, <1>5, <1>10 DEF Counting
  <2> QED
    BY <2>1, <1>6, <1>7 DEF Counting
<1> QED
  BY <1>8, <1>9, <1>10

(***************************************************************************)
(* An observer is called at most once in a stretch of `frequency` calls,   *)
(* min and max are the extremes of the intervals since ResetMinMax(), the  *)
(* maxima kept increase to the longest, and the iterations are told or,    *)
(* past the width of the count, its maximum: for counters of any width and *)
(* a buffer of any size.                                                   *)
(***************************************************************************)
THEOREM ProfilesTruly == Spec => []ProfileIsTrue
<1> DEFINE Inv == Latching /\ Increasing /\ Extreme /\ Counting
<1>1. Init => Inv
  <2> SUFFICES ASSUME Init PROVE Inv
    OBVIOUS
  <2>1. IteratorMax \in Nat \ {0}
    BY PartsAssumption DEF Profile!ProfilerAssumption
  <2>2. Latching /\ Increasing
    <3>1. /\ longest = 0 /\ maxs = << >>
          /\ frequencyCounter = 0 /\ shown = 0
      BY DEF Init, Profile!Init
    <3>2. spikeObserverLatch \in BOOLEAN /\ ~ spikeObserverLatch
      BY Zenon DEF Init, Profile!Init
    <3> QED
      BY <3>1, <3>2 DEF Latching, Increasing, Increases
  <2>3. Counting
    <3>1. iterator = 0 /\ calls = 0
      BY DEF Init, Profile!Init
    <3>2. overflowed \in BOOLEAN /\ ~ overflowed
      BY Zenon DEF Init, Profile!Init
    <3> QED
      BY <2>1, <3>1, <3>2 DEF Counting
  <2>4. Extreme
    <3>1. IntervalMax \in Nat \ {0}
      BY PartsAssumption DEF Profile!ProfilerAssumption
    <3> QED
      BY <3>1 DEF Init, Profile!Init, Extreme
  <2> QED
    BY <2>2, <2>3, <2>4
<1>2. Inv /\ [Next]_vars => Inv'
  <2> SUFFICES ASSUME Inv, [Next]_vars PROVE Inv'
    OBVIOUS
  <2>1. CASE ProfilerStep
    <3>1. ASSUME NEW e \in Elapsed, Profile!Profile(e) PROVE Inv'
      <4>1. e \in Nat
        BY PartsAssumption DEF Profile!ProfilerAssumption
      <4> QED
        BY <3>1, <4>1, ProfileLatches, ProfileIncreases, ProfileExtremes,
              ProfileCounts
    <3>2. CASE Profile!ResetMinMax
      BY <3>2 DEF Profile!ResetMinMax, Latching, Increasing, Increases, Extreme,
                  Counting
    <3>3. CASE Profile!getIterator
      <4>1. IteratorMax \in Nat \ {0}
        BY PartsAssumption DEF Profile!ProfilerAssumption
      <4>2. iterator' = 0 /\ calls' = 0
        BY <3>3 DEF Profile!getIterator
      <4>3. overflowed' \in BOOLEAN /\ ~ overflowed'
        BY <3>3, Zenon DEF Profile!getIterator
      <4>4. Counting'
        BY <4>1, <4>2, <4>3 DEF Counting
      <4> QED
        BY <3>3, <4>4 DEF Profile!getIterator, Latching, Increasing, Increases,
                    Extreme
    <3> QED
      BY <2>1, <3>1, <3>2, <3>3 DEF ProfilerStep, Profile!ProfilerNext
  <2>2. CASE UNCHANGED profilerVars
    BY <2>2 DEF profilerVars, Latching, Increasing, Increases, Extreme, Counting
  <2> QED
    BY <2>1, <2>2
    DEF Next, vars, AvrStep, SamStep, ServiceStep, ButtonStep, EventStep
<1>3. Inv => ProfileIsTrue
  <2> SUFFICES ASSUME Inv PROVE ProfileIsTrue
    OBVIOUS
  <2>1. shown <= 1
    BY DEF Latching
  <2>2. Profile!Iterations = IF calls < IteratorMax THEN calls ELSE IteratorMax - 1
    <3>1. IteratorMax \in Nat \ {0}
      BY PartsAssumption DEF Profile!ProfilerAssumption
    <3> QED
      BY <3>1 DEF Counting, Profile!Iterations
  <2> QED
    BY <2>1, <2>2 DEF Increasing, Increases, Extreme, ProfileIsTrue, Profile!ProfileIsTrue
<1> HIDE DEF Inv
<1> QED
  BY <1>1, <1>2, <1>3, PTL DEF Spec

--------------------------------------------------------------------------------
\* The clock generators.
Generator == [div : Nat, divsel : BOOLEAN, source : Sam!Oscillators, enabled : BOOLEAN]

\* The watchdog's registers.
Watchdog == [enabled : BOOLEAN, per : Nat, warns : BOOLEAN]

(***************************************************************************)
(* The watchdog is set to the period asked for, and a generator that a     *)
(* peripheral is connected to divides by 2^5.                              *)
(***************************************************************************)
Clocked ==
    /\ wdt \in Watchdog /\ 2 ^ (wdt.per + 3) = period
    /\ generator \in [Generators -> Generator]
    /\ clkctrl \in [{"WDT", "RTC"} -> Generators \union {NoGenerator}]
    /\ \A p \in {"WDT", "RTC"} : clkctrl[p] # NoGenerator =>
          LET g == generator[clkctrl[p]] IN g.enabled /\ g.divsel /\ g.div = 4

\* Whoever sets up a generator sets it up alike.
LEMMA ClockIsClocked ==
    ASSUME Clocked, NEW p \in {"WDT", "RTC"}, NEW g \in Generators,
           NEW source \in Sam!Oscillators, Sam!Clock(p, g, source), UNCHANGED <<wdt, period>>
    PROVE  Clocked'
<1> DEFINE s == Sam!enable_generator(Sam!set_divisor(generator[g], 4), source)
<1>1. generator[g] \in Generator /\ NoGenerator \notin Generators
  BY PartsAssumption DEF Clocked, Sam!SamAssumption
<1>2. Sam!set_divisor(generator[g], 4) \in Generator
      /\ Sam!set_divisor(generator[g], 4).div = 4
  BY <1>1 DEF Sam!set_divisor, Generator
<1>3. s \in Generator /\ s.div = 4 /\ s.divsel /\ s.enabled
  <2> DEFINE d == Sam!set_divisor(generator[g], 4)
             d1 == [d EXCEPT !.divsel = TRUE]
             d2 == [d1 EXCEPT !.source = source]
             d3 == [d2 EXCEPT !.enabled = TRUE]
  <2>1. s = d3
    BY DEF Sam!enable_generator
  <2> HIDE DEF d
  <2>2. d1 \in Generator /\ d1.div = 4 /\ d1.divsel
    BY <1>2 DEF Generator, d
  <2> HIDE DEF d1
  <2>3. d2 \in Generator /\ d2.div = 4 /\ d2.divsel
    BY <2>2 DEF Generator
  <2> HIDE DEF d2
  <2>4. d3 \in Generator /\ d3.div = 4 /\ d3.divsel /\ d3.enabled
    BY <2>3 DEF Generator
  <2> QED
    BY <2>1, <2>4
<1>4. generator' = [generator EXCEPT ![g] = s] /\ clkctrl' = [clkctrl EXCEPT ![p] = g]
  BY DEF Sam!Clock
<1> HIDE DEF s
<1>5. /\ generator' \in [Generators -> Generator]
      /\ clkctrl' \in [{"WDT", "RTC"} -> Generators \union {NoGenerator}]
  BY <1>3, <1>4 DEF Clocked
<1>6. ASSUME NEW q \in {"WDT", "RTC"}, clkctrl'[q] # NoGenerator
      PROVE  /\ generator'[clkctrl'[q]].enabled /\ generator'[clkctrl'[q]].divsel
             /\ generator'[clkctrl'[q]].div = 4
  <2>1. clkctrl'[q] \in Generators
    BY <1>5, <1>6
  <2>2. CASE clkctrl'[q] = g
    <3>1. generator'[clkctrl'[q]] = s
      BY <1>4, <2>1, <2>2 DEF Clocked
    <3> QED
      BY <3>1, <1>3
  <2>3. CASE clkctrl'[q] # g
    <3>1. clkctrl'[q] = clkctrl[q]
      BY <1>4, <2>3 DEF Clocked
    <3>2. generator'[clkctrl'[q]] = generator[clkctrl[q]]
      BY <1>4, <2>1, <2>3, <3>1 DEF Clocked
    <3> QED
      BY <3>1, <3>2, <1>6 DEF Clocked
  <2> QED
    BY <2>2, <2>3
<1> QED
  BY <1>5, <1>6 DEF Clocked

\* The watchdog is disabled while its period is written.
LEMMA EnableIsClocked ==
    ASSUME Clocked, NEW t \in TimeOuts, Sam!enable(t)
    PROVE  Clocked'
<1> DEFINE n == Sam!fromMS(t)
           v0 == [wdt EXCEPT !.enabled = FALSE]
           v1 == Sam!Configured(wdt, n)
           v2 == [v1 EXCEPT !.warns = FALSE]
           v3 == [v2 EXCEPT !.enabled = TRUE]
<1>1. n \in 0 .. 11 /\ 2 ^ (n + 3) = t
  <2>1. \E k \in 0 .. 11 : 2 ^ (k + 3) = t
    BY PartsAssumption DEF Sam!SamAssumption
  <2> QED
    BY <2>1, Zenon DEF Sam!fromMS
<1> HIDE DEF n
<1>2. v0 \in Watchdog /\ ~ v0.enabled
  BY DEF Clocked, Watchdog
<1>3. v1 = [v0 EXCEPT !.per = IF v0.enabled THEN @ ELSE n]
  BY Zenon DEF Sam!Configured, Sam!SetConfig
<1> HIDE DEF v0, v1
<1>4. v1 \in Watchdog /\ v1.per = n
  BY <1>1, <1>2, <1>3 DEF Watchdog
<1>5. v2 \in Watchdog /\ v2.per = n
  BY <1>4 DEF Watchdog
<1> HIDE DEF v2
<1>6. v3 \in Watchdog /\ v3.per = n
  BY <1>5 DEF Watchdog
<1>7. wdt' = v3 /\ period' = t /\ UNCHANGED <<generator, clkctrl>>
  <2>1. wdt' = [v1 EXCEPT !.warns = FALSE, !.enabled = TRUE]
    BY DEF Sam!enable, v1, n
  <2> QED
    BY <2>1 DEF Sam!enable, v2
<1> QED
  BY <1>1, <1>6, <1>7 DEF Clocked

(***************************************************************************)
(* The watchdog counts 1024 ticks a second, whatever sequence of           *)
(* initialize(), enable() and RealTimeClock::begin() set up the generator, *)
(* and bites after the time-out that was asked for last, for any of the    *)
(* time-outs of fromMS.                                                    *)
(***************************************************************************)
THEOREM WatchdogIsPrecise == Spec => []PeriodAsRequested
<1>1. Init => Clocked
  <2> SUFFICES ASSUME Init PROVE Clocked
    OBVIOUS
  <2>1. /\ generator = [g \in Generators |-> [div |-> 0, divsel |-> FALSE,
                                          source |-> "OSCULP32K", enabled |-> FALSE]]
        /\ clkctrl = [p \in {"WDT", "RTC"} |-> NoGenerator]
        /\ wdt = [enabled |-> FALSE, per |-> 11, warns |-> FALSE]
        /\ period = 16384
    BY DEF Init, Sam!Init
  <2>2. 2 ^ (11 + 3) = 16384
    OBVIOUS
  <2> QED
    BY <2>1, <2>2 DEF Clocked, Generator, Watchdog, Sam!Oscillators
<1>2. Clocked /\ [Next]_vars => Clocked'
  <2> SUFFICES ASSUME Clocked, [Next]_vars PROVE Clocked'
    OBVIOUS
  <2>1. CASE SamStep
    <3>1. ASSUME NEW g \in Generators, Sam!initialize(g) PROVE Clocked'
      BY <3>1, ClockIsClocked DEF Sam!initialize, Sam!Oscillators
    <3>2. CASE Sam!begin
      <4>1. 2 \in Generators
        BY PartsAssumption DEF Sam!SamAssumption
      <4> QED
        BY <3>2, <4>1, ClockIsClocked DEF Sam!begin, Sam!Oscillators
    <3>3. CASE Sam!Toggle
      <4>1. PICK v \in {[wdt EXCEPT !.enabled = ~ @], [wdt EXCEPT !.warns = ~ @]} :
                wdt' = v
        BY <3>3 DEF Sam!Toggle
      <4>2. v \in Watchdog /\ v.per = wdt.per
        BY DEF Clocked, Watchdog
      <4> QED
        BY <3>3, <4>1, <4>2 DEF Sam!Toggle, Clocked
    <3>4. ASSUME NEW t \in TimeOuts, Sam!enable(t) PROVE Clocked'
      BY <3>4, EnableIsClocked
    <3>5. CASE UNCHANGED <<generator, clkctrl, wdt, period>>
      BY <3>5 DEF Clocked
    <3> QED
      BY <2>1, <3>1, <3>2, <3>3, <3>4, <3>5
      DEF SamStep, Sam!SamNext, Sam!usb, Sam!clock_set_mask, Sam!clock_clear_mask
  <2>2. CASE UNCHANGED samVars
    BY <2>2 DEF samVars, Clocked
  <2> QED
    BY <2>1, <2>2
    DEF Next, vars, AvrStep, ServiceStep, ButtonStep, ProfilerStep, EventStep
<1>3. Clocked => PeriodAsRequested
  <2> SUFFICES ASSUME Clocked PROVE PeriodAsRequested
    OBVIOUS
  <2>1. \A p \in {"WDT", "RTC"} : clkctrl[p] # NoGenerator =>
            /\ generator[clkctrl[p]].enabled
            /\ Sam!Hertz(generator[clkctrl[p]]) = 1024
    <3> SUFFICES ASSUME NEW p \in {"WDT", "RTC"}, clkctrl[p] # NoGenerator
                 PROVE  /\ generator[clkctrl[p]].enabled
                        /\ Sam!Hertz(generator[clkctrl[p]]) = 1024
      OBVIOUS
    <3> DEFINE g == generator[clkctrl[p]]
    <3>1. g.enabled /\ g.divsel /\ g.div = 4
      BY DEF Clocked
    <3> HIDE DEF g
    <3>2. Sam!Hertz(g) = 32768 \div (2 ^ (4 + 1))
      BY <3>1 DEF Sam!Hertz
    <3>3. 32768 \div (2 ^ (4 + 1)) = 1024
      OBVIOUS
    <3> QED
      BY <3>1, <3>2, <3>3 DEF g
  <2>2. DOMAIN clkctrl = {"WDT", "RTC"}
    BY DEF Clocked
  <2> QED
    BY <2>1, <2>2 DEF Clocked, PeriodAsRequested, Sam!PeriodAsRequested
<1> QED
  BY <1>1, <1>2, <1>3, PTL DEF Spec

--------------------------------------------------------------------------------
\* The lists an event is fired with, and what is on them.
Lists == Arguments \union {<< >>}

\* What a callback may take off a list.
Argument == UNION {Events!ToSet(a) : a \in Lists}

\* An invocation under way.
Invocation == [event : Events!Events, arguments : Lists, at : Nat, argp : Nat,
               got : Seq(Argument)]

\* A callback has got the first arguments, as many as it has taken.
GetsFirst(w) ==
    /\ Len(w.got) <= Len(w.arguments)
    /\ \A i \in 1 .. Len(w.got) : w.got[i] = w.arguments[i]
    /\ w.event = "variadic" => w.argp = Len(w.got)

\* Types, and every invocation stands at a subscriber and has got what it took.
Telling ==
    /\ value \in Values
    /\ subscribers \in [Events!Events -> Seq(Callback)]
    /\ read \in [Callback -> Values \union {Unknown}]
    /\ walks \in Seq(Invocation)
    /\ \A k \in 1 .. Len(walks) :
          /\ walks[k].at \in 1 .. Len(subscribers[walks[k].event])
          /\ GetsFirst(walks[k])

\* The last of the invocations under way that tell the property's value.
Innermost(k) ==
    /\ walks[k].event = "updated"
    /\ \A j \in 1 .. Len(walks) : j > k => walks[j].event # "updated"

\* The i-th who watches the property does not know an old value.
Told(i) == read[subscribers["updated"][i]] \in {Unknown, value}

(***************************************************************************)
(* The innermost invocation has told the value to all those it has called, *)
(* and where there is none, everybody has been told.                       *)
(***************************************************************************)
AllTold ==
    /\ \A k \in 1 .. Len(walks) : Innermost(k) => \A i \in 1 .. walks[k].at : Told(i)
    /\ (\A k \in 1 .. Len(walks) : walks[k].event # "updated") =>
            \A i \in 1 .. Len(subscribers["updated"]) : Told(i)

\* The lists are sequences.
LEMMA ListsAreSequences ==
    /\ Lists \subseteq Seq(Argument)
    /\ \A a \in Lists : Len(a) \in Nat /\ \A i \in 1 .. Len(a) : a[i] \in Argument
<1>1. \A a \in Arguments : a \in Seq(Events!ToSet(a))
  BY PartsAssumption DEF Events!EventAssumption
<1>2. << >> \in Seq(Argument)
  OBVIOUS
<1>3. ASSUME NEW a \in Arguments PROVE a \in Seq(Argument)
  <2>1. Events!ToSet(a) \subseteq Argument
    BY DEF Argument, Lists
  <2> QED
    BY <1>1, <2>1
<1>4. Lists \subseteq Seq(Argument)
  BY <1>2, <1>3 DEF Lists
<1> QED
  BY <1>4

\* A walk begins with nothing got, or with all arguments of a typed event.
LEMMA WalkBegins ==
    ASSUME NEW e \in Events!Events, NEW a \in Lists, NEW at \in Nat, NEW p \in Nat,
           e = "variadic" => p = 0
    PROVE  /\ Events!Walk(e, a, at, p) \in Invocation
           /\ Events!Walk(e, a, at, p).event = e
           /\ Events!Walk(e, a, at, p).at = at
           /\ Events!Walk(e, a, at, p).arguments = a
           /\ GetsFirst(Events!Walk(e, a, at, p))
<1> DEFINE w == Events!Walk(e, a, at, p)
<1>1. a \in Seq(Argument) /\ Len(a) \in Nat /\ Len(<< >>) = 0
  BY ListsAreSequences
<1>2. w = [event |-> e, arguments |-> a, at |-> at, argp |-> p,
           got |-> Events!received(e, a)]
  BY DEF Events!Walk
<1>3. Events!received(e, a) = a \/ Events!received(e, a) = << >>
  BY DEF Events!received
<1>4. e = "variadic" => Events!received(e, a) = << >>
  BY DEF Events!received
<1>5. Events!received(e, a) \in Seq(Argument)
  <2>1. << >> \in Seq(Argument)
    OBVIOUS
  <2> QED
    BY <2>1, <1>1, <1>3
<1>6. w \in Invocation
  BY <1>2, <1>5 DEF Invocation
<1> HIDE DEF w
<1>7. GetsFirst(w)
  <2>1. w.got = a \/ w.got = << >>
    BY <1>2, <1>3
  <2>2. w.event = e /\ w.argp = p /\ w.arguments = a
    BY <1>2
  <2>3. w.event = "variadic" => w.argp = Len(w.got)
    BY <1>1, <1>2, <1>4, <2>2
  <2> QED
    BY <1>1, <2>1, <2>2, <2>3 DEF GetsFirst
<1> QED
  BY <1>2, <1>6, <1>7 DEF w

\* An invocation more.
LEMMA Appended ==
    ASSUME NEW ws \in Seq(Invocation), NEW w \in Invocation
    PROVE  /\ Append(ws, w) \in Seq(Invocation) /\ Len(ws) \in Nat
           /\ Len(Append(ws, w)) = Len(ws) + 1 /\ Append(ws, w) # ws
           /\ \A k \in 1 .. Len(ws) : Append(ws, w)[k] = ws[k]
           /\ Append(ws, w)[Len(ws) + 1] = w
           /\ Events!Last(Append(ws, w)) = w
BY DEF Events!Last

\* An invocation less.
LEMMA Popped ==
    ASSUME NEW ws \in Seq(Invocation), ws # << >>
    PROVE  /\ Events!Front(ws) \in Seq(Invocation) /\ Len(ws) \in Nat \ {0}
           /\ Len(Events!Front(ws)) = Len(ws) - 1
           /\ \A k \in 1 .. Len(ws) - 1 : Events!Front(ws)[k] = ws[k]
           /\ Events!Last(ws) = ws[Len(ws)] /\ Events!Last(ws) \in Invocation
<1>1. Len(ws) \in Nat /\ Len(ws) > 0
  OBVIOUS
<1>2. Events!Last(ws) = ws[Len(ws)] /\ Events!Last(ws) \in Invocation
  BY <1>1 DEF Events!Last
<1> DEFINE n == Len(ws) - 1
           f == Events!Front(ws)
<1>3. f = SubSeq(ws, 1, n)
  BY DEF Events!Front
<1>4. n \in Nat /\ n \in Int /\ 1 \in Int /\ \A k \in 1 .. n : ws[k] \in Invocation
  BY <1>1
<1> HIDE DEF n, f
<1>5. /\ f \in Seq(Invocation) /\ Len(f) = (IF 1 <= n THEN n - 1 + 1 ELSE 0)
      /\ \A k \in 1 .. n - 1 + 1 : f[k] = ws[1 + k - 1]
  BY <1>3, <1>4, SubSeqProperties
<1>6. Len(f) = n /\ \A k \in 1 .. n : f[k] = ws[k]
  BY <1>4, <1>5
<1> QED
  BY <1>1, <1>2, <1>5, <1>6 DEF n, f

(***************************************************************************)
(* A walk is appended to the walks, or is put in the place of the last.    *)
(***************************************************************************)
LEMMA WalkedTypes ==
    ASSUME Telling, NEW ws \in Seq(Invocation), NEW w \in Invocation,
           \A k \in 1 .. Len(ws) : k \in 1 .. Len(walks) /\ ws[k] = walks[k],
           w.at \in 1 .. Len(subscribers[w.event]), GetsFirst(w),
           walks' = Append(ws, w), UNCHANGED subscribers,
           value' \in Values, read' \in [Callback -> Values \union {Unknown}]
    PROVE  Telling'
<1>1. /\ walks' \in Seq(Invocation) /\ Len(ws) \in Nat /\ Len(walks') = Len(ws) + 1
      /\ \A k \in 1 .. Len(ws) : walks'[k] = ws[k]
      /\ walks'[Len(ws) + 1] = w
  BY Appended
<1>2. ASSUME NEW k \in 1 .. Len(walks')
      PROVE  /\ walks'[k].at \in 1 .. Len(subscribers[walks'[k].event])
             /\ GetsFirst(walks'[k])
  <2>1. CASE k \in 1 .. Len(ws)
    BY <1>1, <2>1 DEF Telling
  <2>2. CASE k = Len(ws) + 1
    BY <1>1, <2>2
  <2> QED
    BY <1>1, <2>1, <2>2
<1> QED
  BY <1>1, <1>2 DEF Telling

\* The value is set, and the first of those who watch it is told.
LEMMA SetTells ==
    ASSUME Telling, AllTold, NEW v \in Values, Events!setValue(v)
    PROVE  Telling' /\ AllTold'
<1> DEFINE w == Events!Walk("updated", << >>, 1, 0)
           watched == subscribers["updated"]
<1>1. value' = v /\ UNCHANGED subscribers
  BY DEF Events!setValue
<1>2. watched \in Seq(Callback) /\ Len(watched) \in Nat
  BY DEF Telling, Events!Events
<1>3. CASE watched = << >>
  <2>1. UNCHANGED <<walks, read>>
    BY <1>3 DEF Events!setValue, Events!Invoke
  <2>2. Len(watched) = 0
    BY <1>3
  <2>3. Telling'
    BY <1>1, <2>1 DEF Telling
  <2>4. \A k \in 1 .. Len(walks) : walks[k].event # "updated"
    BY <2>2 DEF Telling
  <2>5. AllTold'
    BY <1>1, <2>1, <2>2, <2>4 DEF AllTold, Innermost
  <2> QED
    BY <2>3, <2>5
<1>4. CASE watched # << >>
  <2>1. 1 \in 1 .. Len(watched) /\ watched[1] \in Callback
    BY <1>2, <1>4
  <2>2. w \in Invocation /\ w.event = "updated" /\ w.at = 1 /\ GetsFirst(w)
    BY WalkBegins DEF Lists, Events!Events
  <2>3. walks' = Append(walks, w)
    BY <1>4 DEF Events!setValue, Events!Invoke
  <2>4. /\ Len(walks) \in Nat /\ Len(walks') = Len(walks) + 1 /\ walks' # walks
        /\ walks'[Len(walks) + 1] = w /\ Events!Last(walks') = w
    BY <2>2, <2>3, Appended DEF Telling
  <2>5. read' = [read EXCEPT ![watched[1]] = v]
    <3>1. walks' # << >>
      BY <2>4
    <3>2. read' = Events!reads(v, walks')
      BY <2>4 DEF Events!setValue
    <3> QED
      BY <2>2, <2>4, <3>1, <3>2 DEF Events!reads
  <2>6. read' \in [Callback -> Values \union {Unknown}] /\ read'[watched[1]] = v
    BY <2>1, <2>5 DEF Telling
  <2>7. Telling'
    BY <1>1, <2>1, <2>2, <2>3, <2>6, WalkedTypes DEF Telling
  <2>8. ASSUME NEW k \in 1 .. Len(walks'), Innermost(k)' PROVE k = Len(walks) + 1
    BY <2>2, <2>4, <2>8 DEF Innermost
  <2>9. Told(1)'
    BY <1>1, <2>6 DEF Told
  <2>10. Len(walks) + 1 \in 1 .. Len(walks')
    BY <2>4
  <2>11. AllTold'
    BY <2>2, <2>4, <2>8, <2>9, <2>10 DEF AllTold
  <2> QED
    BY <2>7, <2>11
<1> QED
  BY <1>3, <1>4

\* Another event is fired: nobody is told the value, or untold it.
LEMMA FireTells ==
    ASSUME Telling, AllTold, NEW e \in {"variadic", "typed"}, NEW a \in Arguments,
           Events!Fire(e, a)
    PROVE  Telling' /\ AllTold'
<1> DEFINE w == Events!Walk(e, a, 1, 0)
<1>1. UNCHANGED <<value, subscribers, read>>
  BY DEF Events!Fire
<1>2. e \in Events!Events /\ subscribers[e] \in Seq(Callback) /\ Len(subscribers[e]) \in Nat
  BY DEF Telling, Events!Events
<1>3. CASE subscribers[e] = << >>
  <2>1. UNCHANGED walks
    BY <1>3 DEF Events!Fire, Events!Invoke
  <2> QED
    BY <1>1, <2>1 DEF Telling, AllTold, Innermost, Told
<1>4. CASE subscribers[e] # << >>
  <2>1. 1 \in 1 .. Len(subscribers[e])
    BY <1>2, <1>4
  <2>2. w \in Invocation /\ w.event = e /\ w.at = 1 /\ GetsFirst(w)
    <3>1. a \in Lists /\ 1 \in Nat /\ 0 \in Nat
      BY DEF Lists
    <3> QED
      BY <1>2, <3>1, WalkBegins
  <2>3. walks' = Append(walks, w)
    BY <1>4 DEF Events!Fire, Events!Invoke
  <2> HIDE DEF w
  <2>4. /\ Len(walks) \in Nat /\ Len(walks') = Len(walks) + 1
        /\ \A k \in 1 .. Len(walks) : walks'[k] = walks[k]
        /\ walks'[Len(walks) + 1] = w
    BY <2>2, <2>3, Appended DEF Telling
  <2>5. Telling'
    BY <1>1, <2>1, <2>2, <2>3, WalkedTypes DEF Telling
  <2>6. ASSUME NEW k \in 1 .. Len(walks'), Innermost(k)'
        PROVE  k \in 1 .. Len(walks) /\ Innermost(k)
    <3>1. k # Len(walks) + 1
      BY <2>2, <2>4, <2>6 DEF Innermost
    <3>2. k \in 1 .. Len(walks)
      BY <2>4, <3>1
    <3> QED
      BY <2>4, <2>6, <3>2 DEF Innermost
  <2>7. \A i \in Nat : Told(i)' = Told(i)
    BY <1>1 DEF Told
  <2>8. ASSUME NEW k \in 1 .. Len(walks'), Innermost(k)', NEW i \in 1 .. walks'[k].at
        PROVE  Told(i)'
    <3>1. k \in 1 .. Len(walks) /\ Innermost(k) /\ walks'[k] = walks[k]
      BY <2>4, <2>6, <2>8
    <3> QED
      BY <1>1, <3>1 DEF AllTold, Told
  <2>9. (\A k \in 1 .. Len(walks') : walks'[k].event # "updated") =>
            \A k \in 1 .. Len(walks) : walks[k].event # "updated"
    BY <2>4
  <2>10. AllTold'
    BY <1>1, <2>8, <2>9 DEF AllTold, Told
  <2> QED
    BY <2>5, <2>10
<1> QED
  BY <1>3, <1>4

\* An argument more off the list of the innermost invocation.
LEMMA TakesNext ==
    ASSUME NEW w \in Invocation, GetsFirst(w), w.event = "variadic",
           w.argp < Len(w.arguments)
    PROVE  LET x == w.arguments[w.argp + 1]
               w2 == [w EXCEPT !.argp = @ + 1, !.got = Append(@, x)]
           IN  /\ w2 \in Invocation /\ GetsFirst(w2)
               /\ w2.event = w.event /\ w2.at = w.at
<1> DEFINE x == w.arguments[w.argp + 1]
           w2 == [w EXCEPT !.argp = @ + 1, !.got = Append(@, x)]
           g == Append(w.got, x)
           p == w.argp + 1
<1>1. /\ w.argp \in Nat /\ Len(w.got) = w.argp /\ Len(w.arguments) \in Nat
      /\ w.got \in Seq(Argument) /\ w.arguments \in Lists
  BY ListsAreSequences DEF Invocation, GetsFirst
<1>2. x \in Argument
  BY <1>1, ListsAreSequences
<1> HIDE DEF x
<1>3. /\ g \in Seq(Argument) /\ Len(g) = w.argp + 1 /\ g[w.argp + 1] = x
      /\ \A i \in 1 .. w.argp : g[i] = w.got[i]
  BY <1>1, <1>2
<1>4. w2 = [[w EXCEPT !.argp = p] EXCEPT !.got = g]
  <2>1. w2 = [w EXCEPT !.argp = p, !.got = g]
    OBVIOUS
  <2> HIDE DEF g, p
  <2>2. [w EXCEPT !.argp = p, !.got = g] = [[w EXCEPT !.argp = p] EXCEPT !.got = g]
    BY DEF Invocation
  <2> QED
    BY <2>1, <2>2
<1> HIDE DEF g
<1>5. /\ w2 \in Invocation /\ w2.event = w.event /\ w2.at = w.at
      /\ w2.arguments = w.arguments /\ w2.argp = w.argp + 1 /\ w2.got = g
  <2> DEFINE v == [w EXCEPT !.argp = p]
  <2>1. p \in Nat /\ p = w.argp + 1
    BY <1>1
  <2> HIDE DEF p
  <2>2. /\ v \in Invocation /\ v.event = w.event /\ v.at = w.at
        /\ v.arguments = w.arguments /\ v.argp = p
    BY <2>1 DEF Invocation
  <2>3. w2 = [v EXCEPT !.got = g]
    BY <1>4
  <2> HIDE DEF v, w2
  <2> QED
    BY <1>3, <2>1, <2>2, <2>3 DEF Invocation
<1> HIDE DEF w2
<1>6. ASSUME NEW i \in 1 .. Len(w2.got) PROVE w2.got[i] = w2.arguments[i]
  <2>1. CASE i = w.argp + 1
    BY <1>3, <1>5, <2>1 DEF x
  <2>2. CASE i \in 1 .. w.argp
    BY <1>1, <1>3, <1>5, <2>2 DEF GetsFirst
  <2> QED
    BY <1>1, <1>3, <1>5, <2>1, <2>2
<1>7. GetsFirst(w2)
  BY <1>1, <1>3, <1>5, <1>6 DEF GetsFirst
<1> QED
  BY <1>5, <1>7 DEF w2, x

\* A callback that takes an argument tells nobody anything.
LEMMA ArgumentTells ==
    ASSUME Telling, AllTold, Events!va_arg
    PROVE  Telling' /\ AllTold'
<1> DEFINE w == Events!Last(walks)
           ws == Events!Front(walks)
           n == Len(walks)
           w2 == [w EXCEPT !.argp = @ + 1, !.got = Append(@, w.arguments[w.argp + 1])]
<1>1. /\ walks # << >> /\ w.event = "variadic" /\ w.argp < Len(w.arguments)
      /\ walks' = Append(ws, w2) /\ UNCHANGED <<value, subscribers, read>>
  BY DEF Events!va_arg
<1>2. /\ ws \in Seq(Invocation) /\ n \in Nat \ {0} /\ Len(ws) = n - 1
      /\ \A k \in 1 .. n - 1 : ws[k] = walks[k]
      /\ w = walks[n] /\ w \in Invocation
  BY <1>1, Popped DEF Telling
<1>3. n \in 1 .. n
  BY <1>2
<1>4. GetsFirst(w) /\ w.at \in 1 .. Len(subscribers[w.event])
  BY <1>2, <1>3 DEF Telling
<1> HIDE DEF w, ws
<1>5. w2 \in Invocation /\ GetsFirst(w2) /\ w2.event = w.event /\ w2.at = w.at
  BY <1>1, <1>2, <1>4, TakesNext
<1> HIDE DEF w2
<1>6. \A k \in 1 .. Len(ws) : k \in 1 .. Len(walks) /\ ws[k] = walks[k]
  BY <1>2
<1>7. Telling'
  BY <1>1, <1>2, <1>4, <1>5, <1>6, WalkedTypes DEF Telling
<1>8. /\ Len(walks') = n /\ walks'[n] = w2
      /\ \A k \in 1 .. n - 1 : walks'[k] = walks[k]
  BY <1>1, <1>2, <1>5, Appended
<1> HIDE DEF n
<1>9. \A k \in 1 .. n : walks'[k].event = walks[k].event /\ walks'[k].at = walks[k].at
  BY <1>2, <1>5, <1>8
<1> QED
  <2>1. n = Len(walks) /\ Len(walks') = n
    BY <1>8 DEF n
  <2>2. \A i \in Nat : Told(i)' = Told(i)
    BY <1>1 DEF Told
  <2>3. \A k \in 1 .. n : Innermost(k)' = Innermost(k)
    BY <1>9, <2>1 DEF Innermost
  <2>4. ASSUME NEW k \in 1 .. n, Innermost(k)', NEW i \in 1 .. walks'[k].at PROVE Told(i)'
    BY <1>1, <1>9, <2>1, <2>3, <2>4 DEF AllTold, Told
  <2>5. (\A k \in 1 .. n : walks'[k].event # "updated") =>
            \A k \in 1 .. n : walks[k].event # "updated"
    BY <1>9
  <2>6. AllTold'
    BY <1>1, <2>1, <2>4, <2>5 DEF AllTold, Told
  <2> QED
    BY <1>7, <2>6

\* The next callback is called: it is told the value when it watches it.
LEMMA NextTells ==
    ASSUME Telling, AllTold, Events!invokeNext,
           Events!Last(walks).at < Len(subscribers[Events!Last(walks).event])
    PROVE  Telling' /\ AllTold'
<1> DEFINE w == Events!Last(walks)
           ws == Events!Front(walks)
           n == Len(walks)
           watched == subscribers["updated"]
           w2 == Events!Walk(w.event, w.arguments, w.at + 1, 0)
<1>1. /\ walks # << >> /\ walks' = Append(ws, w2) /\ read' = Events!reads(value, walks')
      /\ UNCHANGED <<value, subscribers>>
  BY DEF Events!invokeNext, Events!copied
<1>2. /\ ws \in Seq(Invocation) /\ n \in Nat \ {0} /\ Len(ws) = n - 1
      /\ \A k \in 1 .. n - 1 : ws[k] = walks[k]
      /\ w = walks[n] /\ w \in Invocation
  BY <1>1, Popped DEF Telling
<1>3. n \in 1 .. n
  BY <1>2
<1>4. /\ w.at < Len(subscribers[w.event]) /\ w.at \in Nat /\ w.at >= 1
      /\ w.event \in Events!Events /\ w.arguments \in Lists
  <2>1. w.at \in Nat /\ w.event \in Events!Events /\ w.arguments \in Lists
    BY <1>2 DEF Invocation
  <2>2. w.at \in 1 .. Len(subscribers[w.event])
    BY <1>2, <1>3 DEF Telling
  <2>3. Len(subscribers[w.event]) \in Nat
    BY <2>1 DEF Telling
  <2> QED
    BY <2>1, <2>2, <2>3
<1>5. subscribers[w.event] \in Seq(Callback) /\ Len(subscribers[w.event]) \in Nat
  BY <1>4 DEF Telling
<1> HIDE DEF w, ws
<1>6. /\ w2 \in Invocation /\ GetsFirst(w2) /\ w2.event = w.event
      /\ w2.at = w.at + 1
  <2>1. w.at + 1 \in Nat /\ 0 \in Nat
    BY <1>4
  <2> QED
    BY <1>4, <2>1, WalkBegins
<1> HIDE DEF w2
<1>7. w2.at \in 1 .. Len(subscribers[w2.event])
  BY <1>4, <1>5, <1>6
<1>7a. \A k \in 1 .. Len(ws) : k \in 1 .. Len(walks) /\ ws[k] = walks[k]
  BY <1>2
<1>8. /\ Len(walks') = n /\ walks'[n] = w2 /\ walks' # << >> /\ Events!Last(walks') = w2
      /\ \A k \in 1 .. n - 1 : walks'[k] = walks[k]
  BY <1>1, <1>2, <1>6, Appended
<1>9. \A k \in 1 .. n : walks'[k].event = walks[k].event
  BY <1>2, <1>6, <1>8
<1>10. \A k \in 1 .. n : Innermost(k)' = Innermost(k)
  BY <1>8, <1>9 DEF Innermost
<1>11. CASE w.event = "updated"
  <2>1. read' = [read EXCEPT ![watched[w.at + 1]] = value]
    BY <1>1, <1>6, <1>8, <1>11 DEF Events!reads
  <2>2. watched[w.at + 1] \in Callback
    BY <1>4, <1>5, <1>11
  <2>3. read' \in [Callback -> Values \union {Unknown}] /\ read'[watched[w.at + 1]] = value
    BY <2>1, <2>2 DEF Telling
  <2>4. Telling'
    BY <1>1, <1>2, <1>6, <1>7, <1>7a, <2>3, WalkedTypes DEF Telling
  <2>5. ASSUME NEW i \in 1 .. w.at, Told(i) PROVE Told(i)'
    <3>1. watched[i] \in Callback
      BY <1>4, <1>5, <1>11
    <3>2. read'[watched[i]] \in {read[watched[i]], value}
      BY <2>1, <2>2, <3>1 DEF Telling
    <3> QED
      BY <1>1, <2>5, <3>2 DEF Told
  <2>6. ASSUME NEW i \in Nat, i = w.at + 1 PROVE Told(i)'
    BY <1>1, <2>3, <2>6 DEF Told
  <2>7. Innermost(n)
    BY <1>2, <1>11 DEF Innermost
  <2>8. ASSUME NEW i \in 1 .. w2.at PROVE Told(i)'
    <3>1. \A j \in 1 .. w.at : Told(j)
      BY <1>2, <1>3, <2>7 DEF AllTold
    <3>2. i \in 1 .. w.at \/ i = w.at + 1
      BY <1>4, <1>6
    <3> QED
      BY <1>4, <2>5, <2>6, <3>1, <3>2
  <2>9. \A k \in 1 .. n : Innermost(k) => k = n
    BY <1>2, <1>11 DEF Innermost
  <2>10. AllTold'
    BY <1>3, <1>6, <1>8, <1>10, <1>11, <2>8, <2>9 DEF AllTold
  <2> QED
    BY <2>4, <2>10
<1>12. CASE w.event # "updated"
  <2>1. UNCHANGED read
    BY <1>1, <1>6, <1>8, <1>12 DEF Events!reads
  <2>1a. value' \in Values /\ read' \in [Callback -> Values \union {Unknown}]
    BY <1>1, <2>1 DEF Telling
  <2>2. Telling'
    BY <1>1, <1>2, <1>6, <1>7, <1>7a, <2>1, <2>1a, WalkedTypes DEF Telling
  <2>3. \A i \in Nat : Told(i)' = Told(i)
    BY <1>1, <2>1 DEF Told
  <2>4. ASSUME NEW k \in 1 .. n, Innermost(k)', NEW i \in 1 .. walks'[k].at
        PROVE  Told(i)'
    <3>1. k # n
      BY <1>2, <1>10, <1>12, <2>4 DEF Innermost
    <3>2. k \in 1 .. n - 1
      BY <1>2, <3>1
    <3> QED
      BY <1>1, <1>8, <1>10, <2>1, <2>4, <3>2 DEF AllTold, Told
  <2>5. (\A k \in 1 .. n : walks'[k].event # "updated") =>
            \A k \in 1 .. n : walks[k].event # "updated"
    BY <1>9
  <2>6. AllTold'
    BY <1>1, <1>8, <2>1, <2>4, <2>5 DEF AllTold, Told
  <2> QED
    BY <2>2, <2>6
<1> QED
  BY <1>11, <1>12

\* The last callback returns, and with it the invocation.
LEMMA LastTells ==
    ASSUME Telling, AllTold, Events!invokeNext,
           ~ (Events!Last(walks).at < Len(subscribers[Events!Last(walks).event]))
    PROVE  Telling' /\ AllTold'
<1> DEFINE w == Events!Last(walks)
           ws == Events!Front(walks)
           n == Len(walks)
           watched == subscribers["updated"]
<1>1. walks # << >> /\ walks' = ws /\ UNCHANGED <<value, subscribers, read>>
  BY DEF Events!invokeNext
<1>2. /\ ws \in Seq(Invocation) /\ n \in Nat \ {0} /\ Len(ws) = n - 1
      /\ \A k \in 1 .. n - 1 : ws[k] = walks[k]
      /\ w = walks[n] /\ w \in Invocation
  BY <1>1, Popped DEF Telling
<1>3. n \in 1 .. n
  BY <1>2
<1>4. Len(walks') = n - 1 /\ \A k \in 1 .. n - 1 : walks'[k] = walks[k]
  BY <1>1, <1>2
<1>5. Telling'
  BY <1>1, <1>2, <1>4 DEF Telling
<1>6. \A i \in Nat : Told(i)' = Told(i)
  BY <1>1 DEF Told
<1>7. watched \in Seq(Callback) /\ Len(watched) \in Nat
  BY DEF Telling, Events!Events
<1>8. \A k \in 1 .. n : walks[k].event = "updated" => walks[k].at \in 1 .. Len(watched)
  BY DEF Telling
<1>9. CASE w.event = "updated"
  <2>1. w.at = Len(watched)
    BY <1>2, <1>3, <1>7, <1>8, <1>9
  <2>2. Innermost(n)
    BY <1>2, <1>9 DEF Innermost
  <2>3. \A i \in 1 .. Len(watched) : Told(i)
    BY <1>2, <1>3, <2>1, <2>2 DEF AllTold
  <2>4. \A i \in 1 .. Len(watched) : Told(i)'
    BY <1>6, <1>7, <2>3
  <2>5. ASSUME NEW k \in 1 .. Len(walks'), Innermost(k)', NEW i \in 1 .. walks'[k].at
        PROVE  Told(i)'
    <3>1. k \in 1 .. n /\ walks'[k] = walks[k] /\ walks[k].event = "updated"
      BY <1>2, <1>4, <2>5 DEF Innermost
    <3>2. i \in 1 .. Len(watched)
      BY <1>7, <1>8, <3>1
    <3> QED
      BY <2>4, <3>2
  <2>6. AllTold'
    BY <1>1, <2>4, <2>5 DEF AllTold, Told
  <2> QED
    BY <1>5, <2>6
<1>10. CASE w.event # "updated"
  <2>1. ASSUME NEW k \in 1 .. Len(walks'), Innermost(k)', NEW i \in 1 .. walks'[k].at
        PROVE  Told(i)'
    <3>1. k \in 1 .. n - 1 /\ k \in 1 .. n /\ walks'[k] = walks[k] /\ k \in Nat
      BY <1>2, <1>4
    <3>2. walks[k].event = "updated"
      BY <2>1, <3>1 DEF Innermost
    <3>3. ASSUME NEW j \in 1 .. n, j > k PROVE walks[j].event # "updated"
      <4>1. CASE j = n
        BY <1>2, <1>10, <4>1
      <4>2. CASE j \in 1 .. n - 1
        BY <1>4, <2>1, <3>3, <4>2 DEF Innermost
      <4> QED
        BY <1>2, <4>1, <4>2
    <3>4. Innermost(k)
      BY <3>2, <3>3 DEF Innermost
    <3> QED
      BY <1>1, <3>1, <3>4 DEF AllTold, Told
  <2>2. (\A k \in 1 .. Len(walks') : walks'[k].event # "updated") =>
            \A k \in 1 .. n : walks[k].event # "updated"
    <3> SUFFICES ASSUME \A k \in 1 .. Len(walks') : walks'[k].event # "updated",
                        NEW k \in 1 .. n
                 PROVE  walks[k].event # "updated"
      OBVIOUS
    <3>1. k = n \/ k \in 1 .. n - 1
      BY <1>2
    <3> QED
      BY <1>2, <1>4, <1>10, <3>1
  <2>3. AllTold'
    BY <1>1, <2>1, <2>2 DEF AllTold, Told
  <2> QED
    BY <1>5, <2>3
<1> QED
  BY <1>9, <1>10

\* Whoever subscribes comes last, and knows nothing yet.
LEMMA SubscribeTells ==
    ASSUME Telling, AllTold, NEW e \in Events!Events, NEW c \in Callback,
           Events!subscribe(e, c)
    PROVE  Telling' /\ AllTold'
<1> DEFINE s == subscribers[e]
           more == Append(s, c)
<1>1. /\ UNCHANGED <<value, walks>> /\ subscribers' = [subscribers EXCEPT ![e] = more]
      /\ e = "updated" => read' = [read EXCEPT ![c] = Unknown]
      /\ e # "updated" => read' = read
  BY DEF Events!subscribe
<1>2. s \in Seq(Callback) /\ Len(s) \in Nat
  BY DEF Telling
<1>3. /\ more \in Seq(Callback) /\ Len(more) = Len(s) + 1
      /\ \A i \in 1 .. Len(s) : more[i] = s[i]
      /\ more[Len(s) + 1] = c
  BY <1>2
<1> HIDE DEF more
<1>4. /\ subscribers' \in [Events!Events -> Seq(Callback)] /\ subscribers'[e] = more
      /\ \A f \in Events!Events : f # e => subscribers'[f] = subscribers[f]
  BY <1>1, <1>3 DEF Telling
<1>5. \A f \in Events!Events : 1 .. Len(subscribers[f]) \subseteq 1 .. Len(subscribers'[f])
  BY <1>2, <1>3, <1>4
<1>6. read' \in [Callback -> Values \union {Unknown}]
  BY <1>1 DEF Telling
<1>7. Telling'
  <2>1. ASSUME NEW k \in 1 .. Len(walks)
        PROVE  walks[k].at \in 1 .. Len(subscribers'[walks[k].event])
    <3>1. walks[k] \in Invocation
      BY DEF Telling
    <3>2. walks[k].event \in Events!Events
      BY <3>1 DEF Invocation
    <3> QED
      BY <1>5, <3>2 DEF Telling
  <2>2. \A k \in 1 .. Len(walks) : GetsFirst(walks[k])
    BY DEF Telling
  <2>3. value' \in Values /\ walks' \in Seq(Invocation)
    BY <1>1 DEF Telling
  <2>4. walks' = walks
    BY <1>1
  <2> QED
    BY <1>4, <1>6, <2>1, <2>2, <2>3, <2>4 DEF Telling, GetsFirst
<1>8. \A d \in Callback : read'[d] \in {read[d], Unknown}
  BY <1>1 DEF Telling
<1>9. ASSUME NEW i \in 1 .. Len(subscribers["updated"]), Told(i)
      PROVE  Told(i)'
  <2>1. "updated" \in Events!Events
    BY DEF Events!Events
  <2>2. subscribers'["updated"][i] = subscribers["updated"][i]
    BY <1>3, <1>4, <1>9, <2>1
  <2>3. subscribers["updated"][i] \in Callback
    BY <2>1 DEF Telling
  <2> QED
    BY <1>1, <1>8, <1>9, <2>2, <2>3 DEF Told
<1>10. ASSUME NEW i \in 1 .. Len(subscribers'["updated"]), i \notin 1 .. Len(subscribers["updated"])
       PROVE  Told(i)'
  <2>1. "updated" \in Events!Events
    BY DEF Events!Events
  <2>2. e = "updated"
    BY <1>4, <1>10, <2>1
  <2>3. i = Len(s) + 1
    BY <1>2, <1>3, <1>4, <1>10, <2>2
  <2>4. subscribers'["updated"][i] = c
    BY <1>3, <1>4, <2>2, <2>3
  <2>5. read'[c] = Unknown
    BY <1>1, <2>2 DEF Telling
  <2> QED
    BY <1>1, <2>4, <2>5 DEF Told
<1>11. AllTold'
  <2>1. \A k \in 1 .. Len(walks) : Innermost(k)' = Innermost(k)
    BY <1>1 DEF Innermost
  <2>2. ASSUME NEW k \in 1 .. Len(walks), Innermost(k), NEW i \in 1 .. walks[k].at
        PROVE  Told(i)'
    <3>1. Told(i)
      BY <2>2 DEF AllTold
    <3>2. walks[k].at \in 1 .. Len(subscribers["updated"])
      BY <2>2 DEF Telling, Innermost
    <3>3. Len(subscribers["updated"]) \in Nat
      BY DEF Telling, Events!Events
    <3> QED
      BY <1>9, <3>1, <3>2, <3>3
  <2>3. ASSUME \A k \in 1 .. Len(walks) : walks[k].event # "updated",
               NEW i \in 1 .. Len(subscribers'["updated"])
        PROVE  Told(i)'
    <3>1. \A j \in 1 .. Len(subscribers["updated"]) : Told(j)
      BY <2>3 DEF AllTold
    <3> QED
      BY <1>9, <1>10, <3>1
  <2> QED
    BY <1>1, <2>1, <2>2, <2>3 DEF AllTold, Told
<1> QED
  BY <1>7, <1>11

\* What is left when an element is taken out was there before.
LEMMA Removed ==
    ASSUME NEW S, NEW s \in Seq(S), NEW at \in 1 .. Len(s)
    PROVE  /\ Events!RemoveAt(s, at) \in Seq(S)
           /\ \A i \in 1 .. Len(Events!RemoveAt(s, at)) :
                  \E j \in 1 .. Len(s) : Events!RemoveAt(s, at)[i] = s[j]
<1> DEFINE a == at - 1
           b == at + 1
           n == Len(s)
           front == SubSeq(s, 1, a)
           rest == SubSeq(s, b, n)
<1>1. n \in Nat /\ a \in Int /\ b \in Int /\ a = at - 1 /\ b = at + 1 /\ at \in 1 .. n
  OBVIOUS
<1>2. /\ \A i \in 1 .. a : s[i] \in S
      /\ \A i \in b .. n : s[i] \in S
  BY <1>1
<1>3. Events!RemoveAt(s, at) = front \o rest
  BY DEF Events!RemoveAt
<1> HIDE DEF a, b, n
<1>4. /\ front \in Seq(S) /\ Len(front) = a
      /\ \A i \in 1 .. a : front[i] = s[i]
  <2>1. /\ front \in Seq(S) /\ Len(front) = (IF 1 <= a THEN a - 1 + 1 ELSE 0)
        /\ \A i \in 1 .. a - 1 + 1 : front[i] = s[1 + i - 1]
    BY <1>1, <1>2, SubSeqProperties
  <2> QED
    BY <1>1, <2>1
<1>5. /\ rest \in Seq(S) /\ Len(rest) = n - at
      /\ \A i \in 1 .. n - at : rest[i] = s[at + i]
  <2>1. /\ rest \in Seq(S) /\ Len(rest) = (IF b <= n THEN n - b + 1 ELSE 0)
        /\ \A i \in 1 .. n - b + 1 : rest[i] = s[b + i - 1]
    BY <1>1, <1>2, SubSeqProperties
  <2> QED
    BY <1>1, <2>1
<1> HIDE DEF front, rest
<1>6. /\ front \o rest \in Seq(S) /\ Len(front \o rest) = n - 1
      /\ \A i \in 1 .. a : (front \o rest)[i] = s[i]
      /\ \A i \in 1 .. n - at : (front \o rest)[a + i] = s[at + i]
  <2>1. /\ front \o rest \in Seq(S) /\ Len(front \o rest) = a + (n - at)
        /\ \A i \in 1 .. a + (n - at) :
              (front \o rest)[i] = IF i <= a THEN front[i] ELSE rest[i - a]
    <3>1. /\ front \o rest \in Seq(S) /\ Len(front \o rest) = Len(front) + Len(rest)
          /\ \A i \in 1 .. Len(front) + Len(rest) :
              (front \o rest)[i] = IF i <= Len(front) THEN front[i] ELSE rest[i - Len(front)]
      BY <1>4, <1>5, ConcatProperties
    <3>2. Len(front) = a /\ Len(rest) = n - at
      BY <1>4, <1>5
    <3> QED
      BY <3>1, <3>2
  <2>2. a + (n - at) = n - 1 /\ a \in Nat /\ n - at \in Nat
    BY <1>1
  <2>3. ASSUME NEW i \in 1 .. a PROVE (front \o rest)[i] = s[i]
    <3>1. i \in 1 .. a + (n - at) /\ i <= a
      BY <2>2
    <3> QED
      BY <1>4, <2>1, <3>1
  <2>4. ASSUME NEW i \in 1 .. n - at PROVE (front \o rest)[a + i] = s[at + i]
    <3> DEFINE k == a + i
    <3>1. k \in 1 .. a + (n - at) /\ ~ (k <= a) /\ k - a = i
      BY <2>2
    <3> HIDE DEF k
    <3>2. (front \o rest)[k] = rest[i]
      BY <2>1, <3>1
    <3> QED
      BY <1>5, <3>2 DEF k
  <2> QED
    BY <2>1, <2>2, <2>3, <2>4
<1>7. ASSUME NEW i \in 1 .. n - 1 PROVE \E j \in 1 .. n : (front \o rest)[i] = s[j]
  <2>1. CASE i \in 1 .. a
    <3>1. i \in 1 .. n /\ (front \o rest)[i] = s[i]
      BY <1>1, <1>6, <2>1
    <3> QED
      BY <3>1
  <2>2. CASE i \notin 1 .. a
    <3> DEFINE k == i - a
    <3>1. k \in 1 .. n - at /\ a + k = i /\ at + k \in 1 .. n
      BY <1>1, <2>2
    <3> HIDE DEF k
    <3>2. (front \o rest)[i] = s[at + k]
      BY <1>6, <3>1
    <3> QED
      BY <3>1, <3>2
  <2> QED
    BY <2>1, <2>2
<1> QED
  BY <1>3, <1>6, <1>7 DEF n

\* Nobody is untold the value by the leaving of another.
LEMMA UnsubscribeTells ==
    ASSUME Telling, AllTold, NEW e \in Events!Events, NEW c \in Callback,
           Events!unsubscribe(e, c)
    PROVE  Telling' /\ AllTold'
<1> DEFINE s == subscribers[e]
<1>1. PICK at \in 1 .. Len(s) :
          subscribers' = [subscribers EXCEPT ![e] = Events!RemoveAt(s, at)]
  <2>1. DOMAIN s = 1 .. Len(s)
    BY DEF Telling
  <2> QED
    BY <2>1 DEF Events!unsubscribe
<1> DEFINE less == Events!RemoveAt(s, at)
<1>2. /\ UNCHANGED <<value, walks>> /\ walks = << >> /\ Len(walks) = 0
      /\ e = "updated" => read' = [read EXCEPT ![c] = Unknown]
      /\ e # "updated" => read' = read
  BY DEF Events!unsubscribe
<1>3. /\ less \in Seq(Callback)
      /\ \A i \in 1 .. Len(less) : \E j \in 1 .. Len(s) : less[i] = s[j]
  <2>1. s \in Seq(Callback)
    BY DEF Telling
  <2> QED
    BY <2>1, Removed
<1> HIDE DEF less
<1>4. subscribers' = [subscribers EXCEPT ![e] = less]
  BY <1>1 DEF less
<1>5. /\ subscribers' \in [Events!Events -> Seq(Callback)] /\ subscribers'[e] = less
      /\ \A f \in Events!Events : f # e => subscribers'[f] = subscribers[f]
  BY <1>3, <1>4 DEF Telling
<1>6. read' \in [Callback -> Values \union {Unknown}]
  BY <1>2 DEF Telling
<1>7. Telling'
  BY <1>2, <1>5, <1>6 DEF Telling
<1>8. \A d \in Callback : read'[d] \in {read[d], Unknown}
  BY <1>2 DEF Telling
<1>9. ASSUME NEW i \in 1 .. Len(subscribers'["updated"])
      PROVE  \E j \in 1 .. Len(subscribers["updated"]) :
                subscribers'["updated"][i] = subscribers["updated"][j]
  <2>1. "updated" \in Events!Events
    BY DEF Events!Events
  <2> QED
    BY <1>3, <1>5, <2>1
<1>10. ASSUME NEW i \in 1 .. Len(subscribers'["updated"])
       PROVE  Told(i)'
  <2>1. PICK j \in 1 .. Len(subscribers["updated"]) :
            subscribers'["updated"][i] = subscribers["updated"][j]
    BY <1>9
  <2>2. Told(j)
    BY <1>2 DEF AllTold
  <2>3. subscribers["updated"][j] \in Callback
    BY DEF Telling, Events!Events
  <2> QED
    BY <1>2, <1>8, <2>1, <2>2, <2>3 DEF Told
<1>11. AllTold'
  BY <1>2, <1>10 DEF AllTold, Told
<1> QED
  BY <1>7, <1>11

\* Every step of an event.
LEMMA EventTells ==
    ASSUME Telling, AllTold, Events!EventNext
    PROVE  Telling' /\ AllTold'
<1>1. ASSUME NEW v \in Values, Events!setValue(v) PROVE Telling' /\ AllTold'
  BY <1>1, SetTells
<1>2. ASSUME NEW e \in {"variadic", "typed"}, NEW a \in Arguments, Events!Fire(e, a)
      PROVE  Telling' /\ AllTold'
  BY <1>2, FireTells
<1>3. CASE Events!va_arg
  BY <1>3, ArgumentTells
<1>4. CASE Events!invokeNext
  BY <1>4, NextTells, LastTells
<1>5. ASSUME NEW e \in Events!Events, NEW c \in Callback, Events!subscribe(e, c)
      PROVE  Telling' /\ AllTold'
  BY <1>5, SubscribeTells
<1>6. ASSUME NEW e \in Events!Events, NEW c \in Callback, Events!unsubscribe(e, c)
      PROVE  Telling' /\ AllTold'
  BY <1>6, UnsubscribeTells
<1> QED
  BY <1>1, <1>2, <1>3, <1>4, <1>5, <1>6 DEF Events!EventNext

\* The first arguments, one after the other, are a prefix of them all.
LEMMA FirstArePrefix ==
    ASSUME NEW w \in Invocation, GetsFirst(w)
    PROVE  Events!IsPrefix(w.got, w.arguments)
<1> DEFINE s == w.got
           t == w.arguments
<1>1. s \in Seq(Argument) /\ t \in Seq(Argument)
  BY ListsAreSequences DEF Invocation
<1>2. Len(s) <= Len(t) /\ \A i \in 1 .. Len(s) : s[i] = t[i]
  BY DEF GetsFirst
<1> HIDE DEF s, t
<1>3. Len(s) \in Nat /\ Len(t) \in Nat /\ 1 \in Int /\ Len(s) \in Int
  BY <1>1
<1>4. /\ SubSeq(s, 1, Len(s)) \in Seq(Argument) /\ SubSeq(t, 1, Len(s)) \in Seq(Argument)
      /\ Len(SubSeq(s, 1, Len(s))) = Len(s) /\ Len(SubSeq(t, 1, Len(s))) = Len(s)
      /\ \A i \in 1 .. Len(s) : SubSeq(s, 1, Len(s))[i] = s[i]
      /\ \A i \in 1 .. Len(s) : SubSeq(t, 1, Len(s))[i] = t[i]
  <2> DEFINE n == Len(s)
             p == SubSeq(s, 1, n)
             q == SubSeq(t, 1, n)
  <2>1. /\ \A i \in 1 .. n : s[i] \in Argument
        /\ \A i \in 1 .. n : t[i] \in Argument
    BY <1>1, <1>2, <1>3
  <2>2. n \in Nat /\ n \in Int /\ 1 \in Int
    BY <1>3
  <2> HIDE DEF n
  <2>3. /\ p \in Seq(Argument) /\ Len(p) = (IF 1 <= n THEN n - 1 + 1 ELSE 0)
        /\ \A i \in 1 .. n - 1 + 1 : p[i] = s[1 + i - 1]
    BY <2>1, <2>2, SubSeqProperties
  <2>4. /\ q \in Seq(Argument) /\ Len(q) = (IF 1 <= n THEN n - 1 + 1 ELSE 0)
        /\ \A i \in 1 .. n - 1 + 1 : q[i] = t[1 + i - 1]
    BY <2>1, <2>2, SubSeqProperties
  <2> HIDE DEF p, q
  <2>5. /\ p \in Seq(Argument) /\ Len(p) = n /\ \A i \in 1 .. n : p[i] = s[i]
        /\ q \in Seq(Argument) /\ Len(q) = n /\ \A i \in 1 .. n : q[i] = t[i]
    BY <2>2, <2>3, <2>4
  <2> QED
    BY <2>5 DEF n, p, q
<1>5. SubSeq(s, 1, Len(s)) = SubSeq(t, 1, Len(s))
  <2> DEFINE p == SubSeq(s, 1, Len(s))
             q == SubSeq(t, 1, Len(s))
  <2>1. /\ p \in Seq(Argument) /\ q \in Seq(Argument) /\ Len(p) = Len(q)
        /\ \A i \in 1 .. Len(p) : p[i] = q[i]
    BY <1>2, <1>4
  <2> HIDE DEF p, q
  <2>2. p = q
    BY <2>1, SeqEqual
  <2> QED
    BY <2>2 DEF p, q
<1>6. SubSeq(s, 1, Len(s)) = s
  BY <1>1, <1>3, <1>4
<1> QED
  BY <1>2, <1>5, <1>6 DEF Events!IsPrefix, s, t

(***************************************************************************)
(* Every callback gets the arguments of its own invocation from the first  *)
(* on, and once nobody is being told, all who watch a property know its    *)
(* value, however the invocations nested (EventManager.h, fact/event.h).   *)
(***************************************************************************)
THEOREM CallbacksTold == Spec => []CallbacksAreTold
<1>1. Init => Telling /\ AllTold
  <2> SUFFICES ASSUME Init PROVE Telling /\ AllTold
    OBVIOUS
  <2>1. /\ value \in Values /\ subscribers = [e \in Events!Events |-> << >>]
        /\ walks = << >> /\ read = [c \in Callback |-> Unknown]
    BY DEF Init, Events!Init
  <2>2. << >> \in Seq(Callback) /\ << >> \in Seq(Invocation) /\ Len(<< >>) = 0
    OBVIOUS
  <2>3. Telling
    BY <2>1, <2>2 DEF Telling
  <2>4. Len(subscribers["updated"]) = 0
    BY <2>1, <2>2 DEF Events!Events
  <2> QED
    BY <2>1, <2>2, <2>3, <2>4 DEF AllTold
<1>2. Telling /\ AllTold /\ [Next]_vars => Telling' /\ AllTold'
  <2> SUFFICES ASSUME Telling, AllTold, [Next]_vars PROVE Telling' /\ AllTold'
    OBVIOUS
  <2>1. CASE EventStep
    BY <2>1, EventTells DEF EventStep
  <2>2. CASE UNCHANGED eventVars
    BY <2>2 DEF eventVars, Telling, AllTold, Innermost, Told
  <2> QED
    BY <2>1, <2>2
    DEF Next, vars, AvrStep, SamStep, ServiceStep, ButtonStep, ProfilerStep
<1>3. Telling /\ AllTold => CallbacksAreTold
  <2> SUFFICES ASSUME Telling, AllTold PROVE CallbacksAreTold
    OBVIOUS
  <2>1. DOMAIN walks = 1 .. Len(walks)
    BY DEF Telling
  <2>2. ASSUME NEW k \in 1 .. Len(walks)
        PROVE  Events!IsPrefix(walks[k].got, walks[k].arguments)
    BY FirstArePrefix DEF Telling
  <2>3. ASSUME \A k \in 1 .. Len(walks) : walks[k].event # "updated",
               NEW c \in Events!ToSet(subscribers["updated"])
        PROVE  read[c] \in {Unknown, value}
    <3>1. DOMAIN subscribers["updated"] = 1 .. Len(subscribers["updated"])
      BY DEF Telling, Events!Events
    <3>2. PICK i \in 1 .. Len(subscribers["updated"]) : c = subscribers["updated"][i]
      BY <3>1 DEF Events!ToSet
    <3> QED
      BY <2>3, <3>2 DEF AllTold, Told
  <2> QED
    BY <2>1, <2>2, <2>3
    DEF CallbacksAreTold, Events!CallbacksAreTold, Events!ArgumentsAsPassed,
        Events!NobodyKnowsAnOldValue
<1> QED
  BY <1>1, <1>2, <1>3, PTL DEF Spec

--------------------------------------------------------------------------------
(***************************************************************************)
(* The AVR by itself: that it loses no wake-up and sleeps with the alarm   *)
(* asked for, for any pins and any time-outs.                              *)
(***************************************************************************)
AvrSpec == AvrInit /\ [][AvrNext]_avrVars

\* On the way to sleep: the instructions behind the alarm's being armed.
Armed == {"cli", "sleep_enable", "sleep_cpu", "asleep", "awake"}

\* What holds at each instruction on the way to sleep.
Sleeping ==
    /\ pc = "sleep_enable" => ~ I
    /\ pc \in {"sleep_cpu", "asleep"} => I
    /\ pc \in {"sleep_enable", "sleep_cpu", "asleep"} => served = {}

(***************************************************************************)
(* The watchdog's registers, and the alarm that was asked for: when the    *)
(* CPU is past arming it, the register holds that time-out.                *)
(***************************************************************************)
Alarmed ==
    /\ control \in [wdie : BOOLEAN, wde : BOOLEAN, wdp : Nat, wdrf : BOOLEAN]
    /\ isr \in BOOLEAN /\ systemReset \in BOOLEAN
    /\ alarm \in Wdto \union {None}
    /\ pc = "loop" => alarm = None
    /\ pc = "enable" => alarm # None /\ isr
    /\ pc \in Armed /\ alarm # None =>
            /\ control.wdie \/ control.wde
            /\ TimeOut(control.wdp) = alarm

\* The inductive invariant of the way to sleep.
IInv == Sleeping /\ Alarmed

--------------------------------------------------------------------------------
(***************************************************************************)
(* The bits that buildPrescalar makes of a time-out are those that the     *)
(* hardware reads as that time-out.                                        *)
(***************************************************************************)
LEMMA PrescalarIsTimeOut ==
    ASSUME NEW w \in 0 .. 9
    PROVE  buildPrescalar(w) \in Nat /\ TimeOut(buildPrescalar(w)) = w
<1>1. CASE w \in 0 .. 7
  <2>1. w % 8 = w /\ w \div 8 = 0
    BY <1>1
  <2>2. buildPrescalar(w) = w
    BY <2>1, <1>1 DEF buildPrescalar
  <2>3. w \div 32 = 0
    BY <1>1
  <2> QED
    BY <1>1, <2>1, <2>2, <2>3 DEF TimeOut
<1>2. CASE w = 8
  <2>1. buildPrescalar(8) = 32
    BY DEF buildPrescalar
  <2> QED
    BY <1>2, <2>1 DEF TimeOut
<1>3. CASE w = 9
  <2>1. buildPrescalar(9) = 33
    BY DEF buildPrescalar
  <2> QED
    BY <1>3, <2>1 DEF TimeOut
<1> QED
  BY <1>1, <1>2, <1>3

\* disable() leaves a watchdog register.
LEMMA Disarmed ==
    ASSUME control \in [wdie : BOOLEAN, wde : BOOLEAN, wdp : Nat, wdrf : BOOLEAN],
           disable
    PROVE  control' \in [wdie : BOOLEAN, wde : BOOLEAN, wdp : Nat, wdrf : BOOLEAN]
BY DEF disable, Off

\* It holds before the program has done anything.
LEMMA InitIInv ==
    AvrInit => IInv
<1> SUFFICES ASSUME AvrInit PROVE IInv
  OBVIOUS
<1>1. Sleeping
  BY DEF AvrInit, Sleeping
<1>2. control \in [wdie : BOOLEAN, wde : BOOLEAN, wdp : Nat, wdrf : BOOLEAN]
  BY DEF AvrInit, Off
<1>3. Alarmed
  BY <1>2 DEF AvrInit, Alarmed, Armed
<1> QED
  BY <1>1, <1>3 DEF IInv

(***************************************************************************)
(* No step lets an interrupt in between cli() and sleep_cpu(): an interrupt*)
(* needs the I flag, which is off until sei(), and does not come behind it.*)
(***************************************************************************)
LEMMA SleepingIsInductive ==
    ASSUME Sleeping, [AvrNext]_avrVars
    PROVE  Sleeping'
<1> USE DEF Sleeping
<1>1. CASE SetFlags \/ Disable \/ (\E w \in Wdto : Enable(w) \/ PowerDownFor(w))
  BY <1>1 DEF SetFlags, Disable, disable, Enable, enable, PowerDownFor
<1>2. CASE EnableAlarm \/ PowerDown \/ Cli \/ Sei \/ SleepCpu \/ Awake
  BY <1>2 DEF EnableAlarm, enable, PowerDown, Cli, Sei, SleepCpu, Awake, sleepVars
<1>3. CASE Expire \/ Reset \/ (\E p \in Pins : PinChange(p))
  BY <1>3 DEF Expire, Reset, PinChange, sleepVars
<1>4. CASE \E i \in {"watchdog", "pin"} : Serve(i)
  BY <1>4 DEF Serve
<1>5. CASE \/ \E ps \in SUBSET Pins \ {{}} : Write(ps)
           \/ \E u \in Units : Switch(u)
           \/ \E known, power \in BOOLEAN : SwitchClock(known, power)
  BY <1>5 DEF Write, Switch, SwitchClock, sleepVars
<1>6. CASE UNCHANGED avrVars
  BY <1>6 DEF avrVars
<1> QED
  BY <1>1, <1>2, <1>3, <1>4, <1>5, <1>6 DEF AvrNext

(***************************************************************************)
(* What arms the watchdog arms it with the flag that makes it interrupt;   *)
(* serving that interrupt leaves it armed, to interrupt or to reset.       *)
(***************************************************************************)
LEMMA AlarmedIsInductive ==
    ASSUME Alarmed, [AvrNext]_avrVars
    PROVE  Alarmed'
<1> USE DEF Alarmed, Armed
<1>1. CASE SetFlags
  BY <1>1 DEF SetFlags, sleepVars
<1>2. CASE Disable
  BY <1>2, Disarmed DEF Disable, flagVars, sleepVars
<1>3. ASSUME NEW w \in Wdto, Enable(w)
      PROVE  Alarmed'
  <2>1. w \in 0 .. 9
    BY AvrAssumption
  <2>2. buildPrescalar(w) \in Nat
    BY <2>1, PrescalarIsTimeOut
  <2> QED
    BY <1>3, <2>2 DEF Enable, enable, flagVars, sleepVars
<1>4. ASSUME NEW w \in Wdto, PowerDownFor(w)
      PROVE  Alarmed'
  BY <1>4, AvrAssumption DEF PowerDownFor
<1>5. CASE EnableAlarm
  <2>1. alarm \in 0 .. 9
    BY <1>5, AvrAssumption DEF EnableAlarm
  <2>2. buildPrescalar(alarm) \in Nat /\ TimeOut(buildPrescalar(alarm)) = alarm
    BY <2>1, PrescalarIsTimeOut
  <2>3. control' = [wdie |-> isr, wde |-> systemReset,
                    wdp |-> buildPrescalar(alarm), wdrf |-> FALSE]
    BY <1>5 DEF EnableAlarm, enable
  <2>4. /\ control'.wdie /\ control'.wdp = buildPrescalar(alarm)
        /\ control' \in [wdie : BOOLEAN, wde : BOOLEAN, wdp : Nat, wdrf : BOOLEAN]
    BY <1>5, <2>2, <2>3 DEF EnableAlarm
  <2>5. alarm' = alarm /\ pc' = "cli" /\ UNCHANGED <<isr, systemReset>>
    BY <1>5 DEF EnableAlarm, flagVars, sleepVars
  <2>6. TimeOut(control'.wdp) = alarm'
    BY <2>2, <2>4, <2>5
  <2> QED
    BY <2>4, <2>5, <2>6 DEF TimeOut
<1>6. CASE PowerDown \/ Cli \/ Sei \/ SleepCpu
  BY <1>6 DEF PowerDown, Cli, Sei, SleepCpu, flagVars, sleepVars, TimeOut
<1>7. CASE Awake
  <2>1. control' \in [wdie : BOOLEAN, wde : BOOLEAN, wdp : Nat, wdrf : BOOLEAN]
    BY <1>7, Disarmed DEF Awake
  <2> QED
    BY <1>7, <2>1 DEF Awake, flagVars
<1>8. CASE Reset
  BY <1>8 DEF Reset, Off
<1>9. CASE Expire \/ (\E p \in Pins : PinChange(p))
  BY <1>9 DEF Expire, PinChange, flagVars, sleepVars, TimeOut
<1>10. ASSUME NEW i \in {"watchdog", "pin"}, Serve(i)
       PROVE  Alarmed'
  <2>1. /\ control' \in [wdie : BOOLEAN, wde : BOOLEAN, wdp : Nat, wdrf : BOOLEAN]
        /\ control'.wdp = control.wdp
        /\ control.wdie \/ control.wde => control'.wdie \/ control'.wde
    BY <1>10 DEF Serve
  <2>2. alarm' = alarm /\ UNCHANGED <<isr, systemReset>>
    BY <1>10 DEF Serve, flagVars
  <2>3. pc' = IF pc = "asleep" THEN "awake" ELSE pc
    BY <1>10 DEF Serve
  <2> QED
    BY <2>1, <2>2, <2>3 DEF TimeOut
<1>11. CASE \/ \E ps \in SUBSET Pins \ {{}} : Write(ps)
            \/ \E u \in Units : Switch(u)
            \/ \E known, power \in BOOLEAN : SwitchClock(known, power)
  BY <1>11 DEF Write, Switch, SwitchClock, flagVars, sleepVars, TimeOut
<1>12. CASE UNCHANGED avrVars
  BY <1>12 DEF avrVars, TimeOut
<1> QED
  BY <1>1, <1>2, <1>3, <1>4, <1>5, <1>6, <1>7, <1>8, <1>9, <1>10, <1>11, <1>12
     DEF AvrNext

\* It holds throughout.
LEMMA Invariance ==
    AvrSpec => []IInv
<1>1. IInv /\ [AvrNext]_avrVars => IInv'
  BY SleepingIsInductive, AlarmedIsInductive DEF IInv
<1> QED
  BY <1>1, InitIInv, PTL DEF AvrSpec

--------------------------------------------------------------------------------
(***************************************************************************)
(* An interrupt that comes once Power.sleep() has called cli() wakes the   *)
(* CPU: it is not served before sleep_cpu(), and the CPU that sleeps can   *)
(* be interrupted.                                                         *)
(***************************************************************************)
THEOREM NoWakeupIsLost ==
    AvrSpec => []NoLostWakeup
<1>1. IInv => NoLostWakeup
  BY DEF IInv, Sleeping, NoLostWakeup
<1> QED
  BY <1>1, Invariance, PTL

(***************************************************************************)
(* Asleep in Sleep.powerDown(wdto), the watchdog is armed with that        *)
(* time-out, whichever flags and watchdog settings came before.            *)
(***************************************************************************)
THEOREM SleepsWithAlarm ==
    AvrSpec => []AlarmAsRequested
<1>1. IInv => AlarmAsRequested
  BY DEF IInv, Alarmed, Armed, AlarmAsRequested
<1> QED
  BY <1>1, Invariance, PTL


--------------------------------------------------------------------------------
\* The registers and the units have the types of their bits.
RegistersTyped ==
    /\ PCICR \subseteq Groups /\ PCMSK \in [Groups -> SUBSET Nat]
    /\ unit \in [Units -> [power : BOOLEAN, enabled : BOOLEAN]]

(***************************************************************************)
(* A write enables the groups of its pins alone, and replaces the mask of  *)
(* each of these groups; a mask left standing is of a group that is off.   *)
(***************************************************************************)
LEMMA WriteIsHeard ==
    ASSUME RegistersTyped, NEW ps \in SUBSET Pins, Write(ps)
    PROVE  RegistersTyped' /\ PinsAsWritten'
<1>1. /\ PCICR' = {PinGroup[p] : p \in ps}
      /\ PCMSK' = [g \in Groups |-> IF Bits(ps, g) # {} THEN Bits(ps, g) ELSE PCMSK[g]]
      /\ wanted' = ps /\ unit' = unit
  BY DEF Write, write
<1>2. \A g \in Groups : Bits(ps, g) \subseteq Nat
  BY AvrAssumption DEF Bits
<1>3. RegistersTyped'
  BY <1>1, <1>2 DEF RegistersTyped, Groups
<1>4. ASSUME NEW p \in ps PROVE Listening(p)'
  <2>1. PinGroup[p] \in Groups /\ PinBit[p] \in Bits(ps, PinGroup[p])
    BY DEF Groups, Bits
  <2> QED
    BY <1>1, <2>1 DEF Listening
<1>5. ASSUME NEW p \in Pins, Listening(p)' PROVE p \in ps
  <2>1. PICK q \in ps : PinGroup[p] = PinGroup[q]
    BY <1>1, <1>5 DEF Listening
  <2>2. PinGroup[p] \in Groups /\ Bits(ps, PinGroup[p]) # {}
    BY <2>1 DEF Groups, Bits
  <2>3. PinBit[p] \in Bits(ps, PinGroup[p])
    BY <1>1, <1>5, <2>2 DEF Listening
  <2>4. PICK r \in ps : PinGroup[r] = PinGroup[p] /\ PinBit[r] = PinBit[p]
    BY <2>3 DEF Bits
  <2> QED
    BY <2>4, AvrAssumption
<1> QED
  BY <1>1, <1>3, <1>4, <1>5 DEF PinsAsWritten

\* What is turned off was told so while its clock still ran.
LEMMA SwitchShutsDown ==
    ASSUME RegistersTyped, ShutDownBeforeOff, NEW u \in Units, Switch(u)
    PROVE  RegistersTyped' /\ ShutDownBeforeOff'
<1>1. unit[u] \in [power : BOOLEAN, enabled : BOOLEAN] /\ u # "timer"
  BY DEF RegistersTyped, Switch
<1>2. /\ on(unit[u]) \in [power : BOOLEAN, enabled : BOOLEAN]
      /\ on(unit[u]).power
  BY <1>1 DEF on, SetEnabled, SetPower
<1>3. /\ off(unit[u]) \in [power : BOOLEAN, enabled : BOOLEAN]
      /\ unit[u].power => ~ off(unit[u]).enabled
      /\ ~ unit[u].power => off(unit[u]).enabled = unit[u].enabled
  BY <1>1 DEF off, SetEnabled, SetPower
<1>4. ~ off(unit[u]).enabled
  BY <1>1, <1>3 DEF ShutDownBeforeOff
<1>5. PICK v \in {on(unit[u]), off(unit[u])} : unit' = [unit EXCEPT ![u] = v]
  BY DEF Switch
<1>6. /\ v \in [power : BOOLEAN, enabled : BOOLEAN]
      /\ ~ v.power => ~ v.enabled
  BY <1>2, <1>3, <1>4
<1>7. UNCHANGED <<PCICR, PCMSK>>
  BY DEF Switch, pinVars
<1> QED
  BY <1>5, <1>6, <1>7 DEF RegistersTyped, ShutDownBeforeOff

\* No step changes the registers behind write() and off().
LEMMA ToldIsInductive ==
    ASSUME RegistersTyped, PinsAndUnitsAsTold, [AvrNext]_avrVars
    PROVE  RegistersTyped' /\ PinsAndUnitsAsTold'
<1> USE DEF PinsAndUnitsAsTold
<1>1. ASSUME NEW ps \in SUBSET Pins \ {{}}, Write(ps)
      PROVE  RegistersTyped' /\ PinsAndUnitsAsTold'
  <2>1. UNCHANGED unit
    BY <1>1 DEF Write
  <2> QED
    BY <2>1, <1>1, WriteIsHeard DEF ShutDownBeforeOff
<1>2. ASSUME NEW u \in Units, Switch(u)
      PROVE  RegistersTyped' /\ PinsAndUnitsAsTold'
  <2>1. UNCHANGED pinVars
    BY <1>2 DEF Switch
  <2> QED
    BY <2>1, <1>2, SwitchShutsDown DEF PinsAsWritten, Listening, pinVars
<1>3. ASSUME NEW known \in BOOLEAN, NEW power \in BOOLEAN,
             SwitchClock(known, power)
      PROVE  RegistersTyped' /\ PinsAndUnitsAsTold'
  <2>1. /\ unit["timer"] \in [power : BOOLEAN, enabled : BOOLEAN]
        /\ unit' = IF known THEN [unit EXCEPT !["timer"] = SetPower(unit["timer"], power)]
                            ELSE unit
        /\ UNCHANGED pinVars
    BY <1>3 DEF SwitchClock, RegistersTyped, Units
  <2>2. SetPower(unit["timer"], power) \in [power : BOOLEAN, enabled : BOOLEAN]
    BY <2>1 DEF SetPower
  <2>3. RegistersTyped' /\ ShutDownBeforeOff'
    BY <2>1, <2>2 DEF RegistersTyped, ShutDownBeforeOff, pinVars
  <2> QED
    BY <2>1, <2>3 DEF PinsAsWritten, Listening, pinVars
<1>4. CASE Reset
  BY <1>4 DEF Reset, RegistersTyped, PinsAsWritten, ShutDownBeforeOff, Listening
<1>5. CASE UNCHANGED <<pinVars, unit>>
  BY <1>5 DEF pinVars, RegistersTyped, PinsAsWritten, ShutDownBeforeOff, Listening
<1> QED
  BY <1>1, <1>2, <1>3, <1>4, <1>5
  DEF AvrNext, avrVars, pinVars, SetFlags, Disable, EnableAlarm, PowerDown, Cli, Sei,
      SleepCpu, Awake, Expire, Enable, PowerDownFor, PinChange, Serve

(***************************************************************************)
(* The pins that interrupt are those of the last write(), for any number   *)
(* of pins and groups; and off() shuts a unit down while its clock runs,   *)
(* so that a unit without power is never left enabled.                     *)
(***************************************************************************)
THEOREM RegistersAsTold ==
    AvrSpec => []PinsAndUnitsAsTold
<1>1. AvrInit => RegistersTyped /\ PinsAndUnitsAsTold
  BY DEF AvrInit, RegistersTyped, PinsAndUnitsAsTold, PinsAsWritten,
         ShutDownBeforeOff, Listening
<1>2. RegistersTyped /\ PinsAndUnitsAsTold /\ [AvrNext]_avrVars
          => RegistersTyped' /\ PinsAndUnitsAsTold'
  BY ToldIsInductive
<1> QED
  BY <1>1, <1>2, PTL DEF AvrSpec

(***************************************************************************)
(* All of it holds among the other parts too, none of which touches the    *)
(* AVR's state.                                                            *)
(***************************************************************************)
THEOREM PartsKeepTheAvr ==
    Spec => [](NoLostWakeup /\ AlarmAsRequested /\ PinsAndUnitsAsTold)
<1>1. Init => AvrInit
  BY DEF Init
<1>2. ASSUME [Next]_vars PROVE [AvrNext]_avrVars
  <2>1. CASE AvrStep
    BY <2>1 DEF AvrStep
  <2>2. CASE SamStep \/ ServiceStep \/ ButtonStep \/ ProfilerStep \/ EventStep
    BY <2>2 DEF SamStep, ServiceStep, ButtonStep, ProfilerStep, EventStep
  <2>3. CASE UNCHANGED vars
    BY <2>3 DEF vars
  <2> QED
    BY <1>2, <2>1, <2>2, <2>3 DEF Next
<1>3. Spec => AvrSpec
  BY <1>1, <1>2, PTL DEF Spec, AvrSpec
<1> QED
  BY <1>3, NoWakeupIsLost, SleepsWithAlarm, RegistersAsTold, PTL

--------------------------------------------------------------------------------
\* What observers know of a service they can observe, and its state otherwise.
watched == IF kind \in Layered!Observable THEN told ELSE state

(***************************************************************************)
(* The state tells whether a start function is running, and the observers  *)
(* know the state.                                                         *)
(***************************************************************************)
ServiceInv ==
    /\ kind \in Layered!Kinds
    /\ pcService \in {"idle", "starting"}
    /\ pcService = "starting" <=> state = "Starting"
    /\ kind \in Layered!Observable => told = state

--------------------------------------------------------------------------------
(***************************************************************************)
(* However a start ends, it is Started or Error: a start function that     *)
(* says nothing fails on layer 5, and succeeds when it is managed.         *)
(***************************************************************************)
LEMMA OutcomeIsFinal ==
    ASSUME kind \in Layered!Kinds, NEW left \in {"Starting", "Started", "Error"}
    PROVE  Layered!Outcome(left) \in {"Started", "Error"}
BY DEF Layered!Kinds, Layered!Outcome

\* The end of a start, in the protocol.
LEMMA ConcludeConcludes ==
    ASSUME ServiceInv, pcService = "starting", UNCHANGED kind,
           NEW left \in {"Starting", "Started", "Error"}, Layered!Conclude(left)
    PROVE  ServiceInv' /\ Layered!Protocol!Conclude
<1>1. Layered!Outcome(left) \in {"Started", "Error"}
  BY OutcomeIsFinal DEF ServiceInv
<1>2. /\ pcService' = "idle" /\ state' = Layered!Outcome(left)
      /\ told' = IF kind \in Layered!Observable THEN Layered!Outcome(left) ELSE told
  BY DEF Layered!Conclude, Layered!setState
<1> QED
  BY <1>1, <1>2 DEF ServiceInv, Layered!Protocol!Conclude

\* A step that the protocol does not see.
LEMMA NothingToSee ==
    ASSUME ServiceInv, UNCHANGED <<kind, pcService, state, told>>
    PROVE  ServiceInv' /\ UNCHANGED watched
BY DEF ServiceInv, watched

\* The beginning of a start.
LEMMA StartStarts ==
    ASSUME ServiceInv, Layered!Start
    PROVE  ServiceInv' /\ Layered!Protocol!Start
BY DEF ServiceInv, Layered!Start, Layered!setState, Layered!Protocol!Start

\* Every step, in the protocol.
LEMMA StepKeepsProtocol ==
    ASSUME ServiceInv, [Layered!ServiceNext]_Layered!serviceVars
    PROVE  ServiceInv' /\ [Layered!Protocol!Next]_watched
<1>1. CASE Layered!Start \/ Layered!keepAlive
  BY <1>1, StartStarts DEF Layered!keepAlive, Layered!Protocol!Next
<1>2. CASE Layered!Stop
  BY <1>2 DEF ServiceInv, Layered!Stop, Layered!setState, Layered!Protocol!Stop, Layered!Protocol!Next
<1>3. ASSUME NEW left \in {"Starting", "Started", "Error"}, Layered!StartFunction(left)
      PROVE  ServiceInv' /\ Layered!Protocol!Next
  BY <1>3, ConcludeConcludes DEF Layered!StartFunction, Layered!Protocol!Next
<1>4. ASSUME NEW status \in {"WL_CONNECTED", "other"}, Layered!PollWiFi(status)
      PROVE  ServiceInv' /\ [Layered!Protocol!Next]_watched
  <2>1. CASE status = "WL_CONNECTED" \/ retries = 0
    BY <1>4, <2>1, ConcludeConcludes DEF Layered!PollWiFi, Layered!Protocol!Next
  <2>2. CASE status # "WL_CONNECTED" /\ retries # 0
    BY <1>4, <2>2, NothingToSee DEF Layered!PollWiFi
  <2> QED
    BY <2>1, <2>2
<1>5. ASSUME NEW ok \in BOOLEAN, Layered!ConnectMQTT(ok)
      PROVE  ServiceInv' /\ [Layered!Protocol!Next]_watched
  <2>1. CASE ok \/ retries = 1
    BY <1>5, <2>1, ConcludeConcludes DEF Layered!ConnectMQTT, Layered!Protocol!Next
  <2>2. CASE ~ ok /\ retries # 1
    BY <1>5, <2>2, NothingToSee DEF Layered!ConnectMQTT
  <2> QED
    BY <2>1, <2>2
<1>6. CASE Layered!Disconnect \/ UNCHANGED Layered!serviceVars
  BY <1>6, NothingToSee DEF Layered!Disconnect, Layered!serviceVars
<1> QED
  BY <1>1, <1>2, <1>3, <1>4, <1>5, <1>6 DEF Layered!ServiceNext, Layered!InStart

--------------------------------------------------------------------------------
(***************************************************************************)
(* Every kind of service, with the retries of its start function, goes     *)
(* through the states that the protocol allows, as its observers see them: *)
(* it starts from where it is not starting, and a start ends in Started or *)
(* Error.                                                                  *)
(***************************************************************************)
THEOREM KeepsToProtocol ==
    Spec => Layered!Protocol!Init /\ [][Layered!Protocol!Next]_watched
<1>1. Init => ServiceInv /\ Layered!Protocol!Init
  BY DEF Init, ServiceInv, Layered!Init, Layered!Protocol!Init, Layered!Observable
<1>2. [Next]_vars => [Layered!ServiceNext]_Layered!serviceVars
  <2> SUFFICES ASSUME [Next]_vars PROVE [Layered!ServiceNext]_Layered!serviceVars
    OBVIOUS
  <2>1. CASE ServiceStep
    BY <2>1 DEF ServiceStep
  <2>2. CASE AvrStep \/ SamStep \/ ButtonStep \/ ProfilerStep \/ EventStep
    BY <2>2 DEF AvrStep, SamStep, ButtonStep, ProfilerStep, EventStep, serviceVars,
                Layered!serviceVars
  <2>3. CASE UNCHANGED vars
    BY <2>3 DEF vars, serviceVars, Layered!serviceVars
  <2> QED
    BY <2>1, <2>2, <2>3 DEF Next
<1>3. ServiceInv /\ [Layered!ServiceNext]_Layered!serviceVars
          => ServiceInv' /\ [Layered!Protocol!Next]_watched
  BY StepKeepsProtocol
<1> QED
  BY <1>1, <1>2, <1>3, PTL DEF Spec

================================================================================
