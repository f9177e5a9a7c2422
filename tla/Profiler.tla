--------------------------------- MODULE Profiler -------------------------------
(***************************************************************************)
(* Profiler of fact/Profiler.h and lib.cpp: called once per iteration of   *)
(* the main loop, it keeps the longest intervals between two calls, shows  *)
(* a new longest one -- a spike -- to an observer, and records every       *)
(* frequency-th interval.  The observer takes long itself and would show   *)
(* up in the next interval, so it is called once in a stretch of           *)
(* `frequency` calls.                                                      *)
(*                                                                         *)
(* Left out: what the observer itself would do to the profiler (nothing in *)
(* the library sets one), and the buffer of recorded intervals.            *)
(***************************************************************************)
EXTENDS Naturals, Sequences

CONSTANTS
    Frequency,      \* calls per recorded interval (200)
    Elapsed,        \* microseconds between two calls
    IntervalMax,    \* intervals count modulo this (2^16)
    IteratorMax,    \* as does the count of iterations (2^16)
    MaxsSize        \* the longest intervals kept (5)

\* Assumed of the constants where this module is instantiated.
ProfilerAssumption ==
    /\ Frequency \in Nat \ {0} /\ Elapsed \subseteq Nat
    /\ IntervalMax \in Nat \ {0} /\ IteratorMax \in Nat \ {0}
    /\ MaxsSize \in Nat \ {0}

VARIABLES
    longest,    \* max
    shortest,   \* min
    maxs,       \* the buffer of maxima, the oldest first
    spikeObserverLatch,
    frequencyCounter,
    iterator,
    overflowed,
    since,      \* for checking: the intervals taken since ResetMinMax()
    shown,      \* for checking: spikes shown in this stretch of calls
    calls       \* for checking: calls since getIterator(), up to IteratorMax

profilerVars == <<longest, shortest, maxs, spikeObserverLatch, frequencyCounter,
                  iterator, overflowed, since, shown, calls>>

Init ==
    /\ longest = 0 /\ shortest = IntervalMax - 1 /\ maxs = << >>
    /\ spikeObserverLatch = FALSE
    /\ frequencyCounter = 0
    /\ iterator = 0 /\ overflowed = FALSE
    /\ since = {} /\ shown = 0 /\ calls = 0

\* CircularBuffer::put: a full buffer loses its oldest element.
put(b, x) == Append(IF Len(b) < MaxsSize THEN b ELSE Tail(b), x)

\* Mutant: the latch opens again with the next call.
M_Latched_Once(spike, last) == spike

\* The latch behind a call that is `last` in its stretch.
Latched(spike, last) == ~ last /\ (spike \/ spikeObserverLatch)

Profile(elapsed) ==
    LET interval == elapsed % IntervalMax
        spike == interval > longest
        last == frequencyCounter + 1 >= Frequency
    IN  /\ overflowed' = (overflowed \/ iterator = IteratorMax - 1)
        /\ iterator' = (iterator + 1) % IteratorMax
        /\ longest' = IF spike THEN interval ELSE longest
        /\ shortest' = IF interval < shortest THEN interval ELSE shortest
        /\ maxs' = IF spike THEN put(maxs, interval) ELSE maxs
        /\ spikeObserverLatch' = Latched(spike, last)
        /\ frequencyCounter' = IF last THEN 0 ELSE frequencyCounter + 1
        /\ since' = since \union {interval}
        /\ shown' = (IF frequencyCounter = 0 THEN 0 ELSE shown)
                       + (IF spike /\ ~ spikeObserverLatch THEN 1 ELSE 0)
        /\ calls' = IF calls < IteratorMax THEN calls + 1 ELSE calls

ResetMinMax ==
    /\ longest' = 0 /\ shortest' = IntervalMax - 1 /\ maxs' = << >>
    /\ since' = {}
    /\ UNCHANGED <<spikeObserverLatch, frequencyCounter, iterator, overflowed,
                   shown, calls>>

Iterations == IF overflowed THEN IteratorMax - 1 ELSE iterator

getIterator ==
    /\ overflowed' = FALSE /\ iterator' = 0
    /\ calls' = 0
    /\ UNCHANGED <<longest, shortest, maxs, spikeObserverLatch, frequencyCounter,
                   since, shown>>

ProfilerNext == (\E e \in Elapsed : Profile(e)) \/ ResetMinMax \/ getIterator

(***************************************************************************)
(* The observer is called at most once in a stretch of `frequency` calls,  *)
(* however often the longest interval is reset in between; the longest and *)
(* the shortest interval are those of the intervals since that reset, and  *)
(* the ones kept increase to the longest; and the number of iterations is  *)
(* told or, when it does not fit, the largest number that does.            *)
(***************************************************************************)
ProfileIsTrue ==
    /\ shown <= 1
    /\ longest \in since \union {0} /\ shortest \in since \union {IntervalMax - 1}
    /\ \A x \in since : shortest <= x /\ x <= longest
    /\ \A i, j \in 1 .. Len(maxs) : i < j => maxs[i] < maxs[j]
    /\ longest = IF maxs = << >> THEN 0 ELSE maxs[Len(maxs)]
    /\ Iterations = IF calls < IteratorMax THEN calls ELSE IteratorMax - 1

================================================================================
