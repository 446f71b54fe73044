----------------------------- MODULE Timestamp ------------------------------
(***************************************************************************)
(* The clocks of src/core/timestamp.hpp: the processor's counter of ticks, *)
(* read by rdtsc(), and a Calibrator that turns differences of it into     *)
(* nanoseconds.  It measures the counter's frequency once, against         *)
(* steady_clock, over a sleep that may last much longer than it is told    *)
(* to; the two clocks are read one after the other, and the thread may be  *)
(* held up between the two readings at either end.                         *)
(*                                                                         *)
(* True time is counted in instants too short to matter, so many of which  *)
(* make a tick and so many a nanosecond; either clock shows the whole ones *)
(* that have passed.  Numbers are unsigned of Bits bits, 64 in the code,   *)
(* and a second has Nanoseconds of its unit, 10^9 in the code.             *)
(***************************************************************************)
EXTENDS Integers

CONSTANTS
    Bits, Nanoseconds,
    InstantsPerTick, InstantsPerNano,
    Zeros,              \* where the counter may stand at instant 0
    Begins,             \* when the calibration may begin
    Sleeps,             \* how long its sleep may last, in instants
    Delays,             \* what may pass between the readings of the two clocks
    Passes,             \* how far the time may get in a step
    MaxNow              \* bound on the time

ASSUME ClockAssumption ==
    /\ {Bits, Nanoseconds, InstantsPerTick, InstantsPerNano} \subseteq Nat \ {0}
    /\ 2^Bits \in Nat \ {0}
    /\ Zeros \cup Begins \cup Sleeps \cup Delays \cup Passes \subseteq Nat /\ MaxNow \in Nat
    \* elapsed_ns, a divisor, is not 0.
    /\ \A sleep \in Sleeps : sleep >= InstantsPerNano
    \* The counter makes at least 100 ticks a second.
    /\ InstantsPerNano * Nanoseconds >= 100 * InstantsPerTick

VARIABLES
    now,                \* the true time
    zero,               \* the counter at instant 0
    calibrated,         \* when the calibration read the clocks
    tsc_frequency_,     \* what it found
    start_tsc,          \* the reading a measurement began with
    started             \* when that was

clockVars == <<now, zero, calibrated, tsc_frequency_, start_tsc, started>>

Word(n) == n % 2^Bits

\* Readings of the counter and of steady_clock at instant t.
rdtsc(z, t) == Word(z + t \div InstantsPerTick)
steady_clock(t) == t \div InstantsPerNano

\* Seeded bug: the division comes first.
InSecondsFirst(ticks, divisor) == (ticks \div divisor) * Nanoseconds

\* tsc_delta * 1'000'000'000 / divisor
InSeconds(ticks, divisor) == Word(ticks * Nanoseconds) \div divisor

tsc_to_ns(tsc_delta) == InSeconds(tsc_delta, tsc_frequency_)

\* The constructor of the Calibrator: what calibrate() makes of its four readings.
calibrate(z, at) ==
    LET elapsed_ns == steady_clock(at.end_time) - steady_clock(at.start_time)
        tsc_delta == Word(rdtsc(z, at.end_tsc) - rdtsc(z, at.start_tsc))
    IN  InSeconds(tsc_delta, elapsed_ns)

\* When it reads them, the sleep between the second and the third.
Readings(begin, delay, sleep, last) ==
    [start_time |-> begin,
     start_tsc  |-> begin + delay,
     end_time   |-> begin + delay + sleep,
     end_tsc    |-> begin + delay + sleep + last]

\* A measurement begins with a reading of the counter.
Begun(z, t) ==
    /\ start_tsc = rdtsc(z, t)
    /\ started = t

ClockInit ==
    /\ zero \in Zeros
    /\ \E begin \in Begins, delay, last \in Delays, sleep \in Sleeps :
          calibrated = Readings(begin, delay, sleep, last)
    /\ tsc_frequency_ = calibrate(zero, calibrated)
    /\ now = calibrated.end_tsc
    /\ Begun(zero, now)

\* Time passes.
Pass ==
    \E d \in Passes :
        /\ now + d <= MaxNow
        /\ now' = now + d
        /\ UNCHANGED <<zero, calibrated, tsc_frequency_, start_tsc, started>>

\* rdtsc() at the start of a measurement.
Start ==
    /\ start_tsc' = rdtsc(zero, now)
    /\ started' = now
    /\ UNCHANGED <<now, zero, calibrated, tsc_frequency_>>

ClockNext == Pass \/ Start

-----------------------------------------------------------------------------
(* Correctness.                                                            *)

\* From instant t to u the counter makes so few ticks that their product with
\* 10^9 fits in a word: 6 seconds at 3 GHz.
Fits(t, u) == (u \div InstantsPerTick - t \div InstantsPerTick) * Nanoseconds < 2^Bits

\* What was between the readings of the two clocks at one end of the calibration but
\* not at the other, with a tick and a nanosecond for what the clocks do not show, is
\* at most a twentieth of what the calibration took: half a millisecond of ten.
Undisturbed ==
    LET took == calibrated.end_time - calibrated.start_time
        counted == calibrated.end_tsc - calibrated.start_tsc
        skew == IF counted < took THEN took - counted ELSE counted - took
    IN  20 * (skew + InstantsPerTick + InstantsPerNano) <= took

\* What a measurement shows is within a tenth of the time that has passed, but for
\* a tick and a nanosecond (test_timestamp.cpp:181 allows a tenth), wherever the
\* counter was, also when it wrapped around in the calibration or since, for as long
\* as both products fit in a word and nothing came between the readings of the
\* calibration, which decides about the whole life of the process.
MeasuredWithinTenth ==
    /\ Undisturbed
    /\ Fits(calibrated.start_tsc, calibrated.end_tsc)
    /\ Fits(started, now)
    => LET shown == tsc_to_ns(Word(rdtsc(zero, now) - start_tsc))
           passed == now - started
       IN  /\ 10 * (shown * InstantsPerNano) <= 11 * (passed + InstantsPerTick)
           /\ 9 * (passed - InstantsPerTick) <= 10 * ((shown + 1) * InstantsPerNano)

=============================================================================
