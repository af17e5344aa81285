-------------------------- MODULE RateMeter_proofs --------------------------
(* RateMeter for every modulus, burst and bound: what a rate says is never   *)
(* more than the traffic there was, and a dropped reading drops one rate.    *)
EXTENDS RateMeter, TLAPS

\* How the previous reading relates to the next.  A counter that was reset
\* holds part of the traffic; one that was not holds all of it above the
\* previous reading.
Since ==
    /\ meter.has /\ "counter" \notin disturbed => counter = meter.bytes + traffic
    /\ meter.has /\ "counter" \in disturbed => counter <= traffic
    /\ meter.has /\ "clock" \notin disturbed => clock = meter.ms + time

RateInv == RateTypeOK /\ Since

LEMMA RateInitInv == RateInit => RateInv
<1> SUFFICES ASSUME RateInit PROVE RateInv
  OBVIOUS
<1> USE DEF RateInit, NoSample
<1>1. RateTypeOK
  BY ModulusAssumption, RateBoundAssumption DEF RateTypeOK, Meter
<1>2. ~meter.has
  OBVIOUS
<1>3. Since
  BY <1>2, Zenon DEF Since
<1>4. QED
  BY <1>1, <1>3 DEF RateInv

LEMMA RateStepInv == RateInv /\ [RateNext]_rateVars => RateInv'
<1> SUFFICES ASSUME RateInv, [RateNext]_rateVars PROVE RateInv'
  OBVIOUS
<1> USE ModulusAssumption, BurstAssumption, ElapseAssumption, RateBoundAssumption
    DEF RateInv, RateTypeOK, Since, Meter, counted
<1>1. CASE Sample
  BY <1>1 DEF Sample, Sampled, NothingSince
<1>2. CASE Forget
  BY <1>2 DEF Forget, NoSample, NothingSince
<1>3. ASSUME NEW n \in Burst, Traffic(n) PROVE RateInv'
  <2>1. n \in 1 .. Modulus
    OBVIOUS
  <2>2. QED
    BY <1>3, <2>1 DEF Traffic
<1>4. CASE RouterRestarts
  BY <1>4 DEF RouterRestarts
<1>5. ASSUME NEW ms \in Elapse, TimePasses(ms) PROVE RateInv'
  <2>1. ms \in Nat
    OBVIOUS
  <2>2. QED
    BY <1>5, <2>1 DEF TimePasses
<1>6. ASSUME NEW t \in 0 .. MaxClock, ClockSet(t) PROVE RateInv'
  BY <1>6 DEF ClockSet
<1>7. CASE UNCHANGED rateVars
  BY <1>7 DEF rateVars, since
<1>8. QED
  BY <1>1, <1>2, <1>3, <1>4, <1>5, <1>6, <1>7 DEF RateNext

LEMMA RateInvHolds == RateSpec => []RateInv
  BY RateInitInv, RateStepInv, PTL DEF RateSpec

\* The state has its type whatever the modulus and the bounds.
THEOREM RateTypeCorrect == RateSpec => []RateTypeOK
<1>1. RateInv => RateTypeOK
  BY DEF RateInv
<1>2. QED
  BY RateInvHolds, <1>1, PTL

\* No rate is ever above the traffic there was, however often the counter
\* wrapped and whenever the router restarted (sample).
THEOREM RateHonestHolds == RateSpec => []RateHonest
<1>1. RateInv => RateHonest
  BY ModulusAssumption, RateBoundAssumption
     DEF RateInv, RateTypeOK, Since, Meter, RateHonest, HasRate, Rate
<1>2. QED
  BY RateInvHolds, <1>1, PTL

\* One dropped reading is the last one dropped unless something happens again.
THEOREM RateResumesHolds == RateSpec => []RateResumes
<1>1. RateInv => RateResumes
  BY ModulusAssumption, RateBoundAssumption
     DEF RateInv, RateTypeOK, Since, Meter, RateResumes, HasRate
<1>2. QED
  BY RateInvHolds, <1>1, PTL
=============================================================================
