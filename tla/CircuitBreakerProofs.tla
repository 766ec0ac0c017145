------------------------ MODULE CircuitBreakerProofs ------------------------
(***************************************************************************)
(* The safety of the circuit breaker, for any number of callers, any       *)
(* threshold and any length of the window.                                 *)
(***************************************************************************)
EXTENDS CircuitBreaker, TLAPS

\* The type invariant in two parts, the two flags apart from the rest.
FlagsTyped == allowedOnce \in BOOLEAN /\ healthy \in BOOLEAN
RestTyped ==
    /\ state \in {"closed", "open", "halfOpen"}
    /\ failures \in 0..Threshold
    /\ age \in 0..OpenFor
    /\ inFlight \subseteq Callers
    /\ probes \subseteq inFlight
    /\ probed \in Nat

\* The properties rest on each other: the window counts no probe before it has
\* let one through, and the half-open breaker remembers the one it let through.
BreakerInv ==
    /\ RestTyped
    /\ ClosedBelowThreshold
    /\ HalfOpenHasProbe
    /\ state = "open" => probed = 0
    /\ state = "halfOpen" /\ ~allowedOnce => probed = 0
    /\ OneProbePerWindow

USE BreakerAssumption

\* Counting up to a bound stays within it and reaches it.
LEMMA CountUpToBound ==
  ASSUME NEW bound \in Nat \ {0}, NEW n \in 0..bound
  PROVE  /\ CountUpTo(n, bound) \in 0..bound
         /\ CountUpTo(n, bound) < bound <=> n + 1 < bound
<1>1. CASE n < bound
  BY <1>1 DEF CountUpTo
<1>2. CASE n = bound
  BY <1>2 DEF CountUpTo
<1> QED BY <1>1, <1>2

LEMMA FlagsInvariant == Spec => []FlagsTyped
<1>1. Init => FlagsTyped
  BY DEF Init, FlagsTyped
<1>2. FlagsTyped /\ [Next]_vars => FlagsTyped'
  BY DEF FlagsTyped, Next, Allow, Return, AllowClosed, AllowProbe, Refuse, RecordSuccess,
         RecordFailure, ReadState, Tick, VendorRecovers, vars, breaker
<1> QED BY <1>1, <1>2, PTL DEF Spec

LEMMA StepBreakerInv == BreakerInv /\ [Next]_vars => BreakerInv'
<1> SUFFICES ASSUME BreakerInv, [Next]_vars PROVE BreakerInv'
  OBVIOUS
<1> USE DEF BreakerInv, RestTyped, ClosedBelowThreshold, HalfOpenHasProbe, OneProbePerWindow
<1>1. ASSUME NEW c \in Callers, AllowClosed(c) PROVE BreakerInv'
  BY <1>1 DEF AllowClosed, breaker
<1>2. ASSUME NEW c \in Callers, AllowProbe(c) PROVE BreakerInv'
  BY <1>2 DEF AllowProbe, ProbeDue, Elapsed
<1>3. ASSUME NEW c \in Callers, RecordSuccess(c) PROVE BreakerInv'
  BY <1>3 DEF RecordSuccess, Leave
<1>4. ASSUME NEW c \in Callers, RecordFailure(c) PROVE BreakerInv'
  <2>1. /\ failures' \in 0..Threshold
        /\ failures' < Threshold <=> failures + 1 < Threshold
    BY <1>4, CountUpToBound DEF RecordFailure
  <2>2. CASE Trips
    BY <1>4, <2>1, <2>2 DEF RecordFailure, Leave, Trips
  <2>3. CASE ~Trips
    BY <1>4, <2>1, <2>3 DEF RecordFailure, Leave, Trips
  <2> QED BY <2>2, <2>3
<1>5. CASE ReadState
  BY <1>5 DEF ReadState
<1>6. CASE Tick
  <2>1. age' \in 0..OpenFor
    BY <1>6, CountUpToBound DEF Tick
  <2> QED BY <1>6, <2>1 DEF Tick
<1>7. CASE VendorRecovers
  BY <1>7 DEF VendorRecovers, breaker
<1>8. CASE UNCHANGED vars
  BY <1>8 DEF vars, breaker
<1> QED
  BY <1>1, <1>2, <1>3, <1>4, <1>5, <1>6, <1>7, <1>8 DEF Next, Allow, Return, Refuse

LEMMA BreakerInvariant == Spec => []BreakerInv
<1>1. Init => BreakerInv
  BY DEF Init, BreakerInv, RestTyped, ClosedBelowThreshold, HalfOpenHasProbe,
         OneProbePerWindow
<1> QED BY <1>1, StepBreakerInv, PTL DEF Spec

\* Every variable of the breaker keeps its type.
THEOREM BreakerTypeCorrect == Spec => []TypeOK
<1>1. FlagsTyped /\ BreakerInv => TypeOK
  BY DEF FlagsTyped, BreakerInv, RestTyped, TypeOK
<1> QED BY <1>1, FlagsInvariant, BreakerInvariant, PTL

\* The half-open test in RecordFailure is implied by the counter: the breaker is
\* closed exactly below the threshold, in every order of late results.
THEOREM ClosedIffBelow == Spec => []ClosedBelowThreshold
<1>1. BreakerInv => ClosedBelowThreshold
  BY DEF BreakerInv
<1> QED BY <1>1, BreakerInvariant, PTL

\* A breaker that refuses calls in the half-open state has a probe in flight, so
\* the return of that call moves it on.
THEOREM ProbeInFlight == Spec => []HalfOpenHasProbe
<1>1. BreakerInv => HalfOpenHasProbe
  BY DEF BreakerInv
<1> QED BY <1>1, BreakerInvariant, PTL

\* No window lets a second probe through.
THEOREM AtMostOneProbe == Spec => []OneProbePerWindow
<1>1. BreakerInv => OneProbePerWindow
  BY DEF BreakerInv
<1> QED BY <1>1, BreakerInvariant, PTL
=============================================================================
