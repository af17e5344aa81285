----------------------------- MODULE RateMeter ------------------------------
(* RateMeter (fritz_state.cpp): a rate from two readings of a byte counter.  *)
(* Around it the counter of the router, which wraps and starts again at 0    *)
(* when the router restarts, and the wall clock the readings are stamped     *)
(* with (nowMs), which may be set while the adapter runs.                    *)
(*                                                                           *)
(* A rate is the pair of bytes and milliseconds that sample() divides.       *)
EXTENDS Integers

CONSTANTS
    Modulus,    \* where the counter wraps: 2^32
    Burst,      \* the bytes that may pass at once
    Elapse,     \* the milliseconds that may pass at once
    MaxTraffic, \* bound: bytes between two readings
    MaxClock    \* bound: the wall clock, and the time between two readings

ASSUME ModulusAssumption == Modulus \in Nat \ {0}
ASSUME BurstAssumption == Burst \subseteq 1 .. Modulus
ASSUME ElapseAssumption == Elapse \subseteq Nat \ {0}
ASSUME RateBoundAssumption == MaxTraffic \in Nat /\ MaxClock \in Nat

VARIABLES
    counter,    \* the byte counter of the router
    clock,      \* the wall clock
    meter,      \* m_hasPrevious, m_previousBytes, m_previousMs
    traffic,    \* bytes that have passed since the last reading
    time,       \* milliseconds since
    disturbed   \* since then: "counter", it has wrapped or been reset;
                \* "clock", it has been set

counted == <<counter, clock>>
since == <<traffic, time, disturbed>>
rateVars == <<counted, meter, since>>

Meter == [has : BOOLEAN, bytes : Nat, ms : Int]
NoSample == [has |-> FALSE, bytes |-> 0, ms |-> 0]

RateTypeOK ==
    /\ counter \in 0 .. Modulus - 1
    /\ clock \in 0 .. MaxClock
    /\ meter \in Meter
    /\ traffic \in 0 .. MaxTraffic /\ time \in 0 .. MaxClock
    /\ disturbed \in SUBSET {"counter", "clock"}

RateInit ==
    /\ counter \in 0 .. Modulus - 1 /\ clock \in 0 .. MaxClock
    /\ meter = NoSample
    /\ traffic = 0 /\ time = 0 /\ disturbed = {}

-----------------------------------------------------------------------------
(* The meter.                                                                *)

AlsoBackwards(m, total, now) == m.has /\ now > m.ms
StrictlyMore(m, total, now) == m.has /\ total > m.bytes /\ now > m.ms
\* No rate for the first reading, for a counter that went backwards, or when
\* the clock did not move.
HasRate(m, total, now) == m.has /\ total >= m.bytes /\ now > m.ms

Rate(m, total, now) == [bytes |-> total - m.bytes, ms |-> now - m.ms]

Increments(m, total, now) == [has |-> TRUE, bytes |-> total - m.bytes, ms |-> now]
\* Every reading is the previous one of the next, also one that gave no rate.
Sampled(m, total, now) == [has |-> TRUE, bytes |-> total, ms |-> now]

NothingSince == traffic' = 0 /\ time' = 0 /\ disturbed' = {}

\* sample().
Sample ==
    /\ meter' = Sampled(meter, counter, clock)
    /\ NothingSince
    /\ UNCHANGED counted

\* forget(): of a new box, or after a pause.
Forget ==
    /\ meter' = NoSample
    /\ NothingSince
    /\ UNCHANGED counted

-----------------------------------------------------------------------------
(* The router and the clock.                                                 *)

\* Bytes pass; a wrap is a wrap however far it goes.
Traffic(n) ==
    /\ traffic + n <= MaxTraffic
    /\ traffic' = traffic + n
    /\ counter' = IF counter + n < Modulus THEN counter + n ELSE counter + n - Modulus
    /\ disturbed' = IF counter + n < Modulus THEN disturbed ELSE disturbed \cup {"counter"}
    /\ UNCHANGED <<clock, meter, time>>

RouterRestarts ==
    /\ counter' = 0 /\ disturbed' = disturbed \cup {"counter"}
    /\ UNCHANGED <<clock, meter, traffic, time>>

TimePasses(ms) ==
    /\ clock + ms <= MaxClock /\ time + ms <= MaxClock
    /\ clock' = clock + ms /\ time' = time + ms
    /\ UNCHANGED <<counter, meter, traffic, disturbed>>

ClockSet(t) ==
    /\ clock' = t /\ disturbed' = disturbed \cup {"clock"}
    /\ UNCHANGED <<counter, meter, traffic, time>>

RateNext ==
    \/ Sample \/ Forget
    \/ \E n \in Burst : Traffic(n)
    \/ RouterRestarts
    \/ \E ms \in Elapse : TimePasses(ms)
    \/ \E t \in 0 .. MaxClock : ClockSet(t)

RateSpec == RateInit /\ [][RateNext]_rateVars

-----------------------------------------------------------------------------
(* What must hold.                                                           *)

\* A rate that a reading would give now is never above the traffic there was
\* since the previous reading, over the time there was: not after one wrap or
\* several, not after a restart of the router.  It is exact when the counter
\* has only counted.  A clock that was set may falsify the time, never the bytes.
RateHonest ==
    HasRate(meter, counter, clock) =>
        LET rate == Rate(meter, counter, clock)
        IN  /\ rate.bytes \in 0 .. traffic
            /\ "counter" \notin disturbed => rate.bytes = traffic
            /\ rate.ms > 0
            /\ "clock" \notin disturbed => rate.ms = time

\* After a wrap, a restart or a clock set back, the reading after the next gives
\* a rate again: what was dropped is not compared with for ever (sample).
RateResumes ==
    meter.has /\ disturbed = {} /\ time > 0 => HasRate(meter, counter, clock)
=============================================================================
