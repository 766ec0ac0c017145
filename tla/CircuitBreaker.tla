--------------------------- MODULE CircuitBreaker ---------------------------
(***************************************************************************)
(* The circuit breaker of internal/vendor/circuit.go under concurrent      *)
(* vendor calls.  Each operation takes the mutex once and is one step; the *)
(* vendor call itself runs between Allow and RecordSuccess or              *)
(* RecordFailure without the mutex, so results arrive in any order.        *)
(*                                                                         *)
(* age stands for time.Since(openedAt), and is not counted past OpenFor;   *)
(* failures is not counted past Threshold.  The code compares each with    *)
(* that bound and with nothing else.  The zero openedAt is long ago.       *)
(***************************************************************************)
EXTENDS Integers

CONSTANTS
    Callers,    \* goroutines that call the vendor, again and again
    Threshold,  \* failures before the breaker opens
    OpenFor     \* length of the open window, in ticks

\* NewCircuitBreaker replaces values that are not positive by defaults.
ASSUME BreakerAssumption == Threshold \in Nat \ {0} /\ OpenFor \in Nat \ {0}

VARIABLES
    state,          \* "closed", "open" or "halfOpen"
    failures,       \* failures since the last success
    age,            \* time since the breaker last opened
    allowedOnce,    \* the half-open breaker has let its probe through
    inFlight,       \* callers between Allow and the recording of the result
    probes,         \* history: those of them let through as probes
    probed,         \* history: probes let through since the breaker last opened
    healthy         \* the vendor has recovered, and no further call fails

breaker == <<state, failures, age, allowedOnce>>
vars    == <<breaker, inFlight, probes, probed, healthy>>

CountUpTo(n, bound) == IF n < bound THEN n + 1 ELSE bound

Elapsed == age >= OpenFor

-----------------------------------------------------------------------------
Init ==
    /\ state = "closed"
    /\ failures = 0
    /\ age = OpenFor
    /\ allowedOnce = FALSE
    /\ inFlight = {}
    /\ probes = {}
    /\ probed = 0
    /\ healthy = FALSE

\* Allow, closed: every call proceeds.
AllowClosed(c) ==
    /\ c \notin inFlight
    /\ state = "closed"
    /\ inFlight' = inFlight \cup {c}
    /\ UNCHANGED <<breaker, probes, probed, healthy>>

\* Allow lets a probe through when the window has elapsed, or when another call
\* or a reading of the state made the breaker half-open and no probe has gone.
ProbeDueAlways == state # "closed"      \* faulty: neither the window nor allowedOnce counts
ProbeDue == \/ state = "open" /\ Elapsed
            \/ state = "halfOpen" /\ ~allowedOnce

AllowProbe(c) ==
    /\ c \notin inFlight
    /\ ProbeDue
    /\ state' = "halfOpen"
    /\ allowedOnce' = TRUE
    /\ inFlight' = inFlight \cup {c}
    /\ probes' = probes \cup {c}
    /\ probed' = probed + 1
    /\ UNCHANGED <<failures, age, healthy>>

\* Otherwise Allow refuses, and Execute returns ErrCircuitOpen with no effect.
Refuse(c) ==
    /\ c \notin inFlight
    /\ state # "closed" /\ ~ProbeDue
    /\ UNCHANGED vars

\* State() makes the same transition to half-open as Allow, without a probe.
ReadState ==
    /\ state = "open" /\ Elapsed
    /\ state' = "halfOpen"
    /\ allowedOnce' = FALSE
    /\ UNCHANGED <<failures, age, inFlight, probes, probed, healthy>>

Leave(c) ==
    /\ c \in inFlight
    /\ inFlight' = inFlight \ {c}
    /\ probes' = probes \ {c}

\* The call returned a response: RecordSuccess, in whatever state.
RecordSuccessKeepsCount(c) ==               \* faulty: the counter is not reset
    /\ Leave(c)
    /\ state' = "closed"
    /\ allowedOnce' = FALSE
    /\ UNCHANGED <<failures, age, probed, healthy>>
RecordSuccess(c) ==
    /\ Leave(c)
    /\ failures' = 0
    /\ state' = "closed"
    /\ allowedOnce' = FALSE
    /\ UNCHANGED <<age, probed, healthy>>

\* The call returned an error, a 4xx status or a cancelled context included.
Trips == state = "halfOpen" \/ failures + 1 >= Threshold

RecordFailureOnlyClosed(c) ==               \* faulty: a failed probe does not reopen
    /\ ~healthy
    /\ Leave(c)
    /\ failures' = CountUpTo(failures, Threshold)
    /\ IF state = "closed" /\ failures + 1 >= Threshold
         THEN state' = "open" /\ age' = 0 /\ allowedOnce' = FALSE /\ probed' = 0
         ELSE UNCHANGED <<state, age, allowedOnce, probed>>
    /\ UNCHANGED healthy
RecordFailure(c) ==
    /\ ~healthy
    /\ Leave(c)
    /\ failures' = CountUpTo(failures, Threshold)
    /\ IF Trips
         THEN state' = "open" /\ age' = 0 /\ allowedOnce' = FALSE /\ probed' = 0
         ELSE UNCHANGED <<state, age, allowedOnce, probed>>
    /\ UNCHANGED healthy

\* Time passes.
Tick ==
    /\ ~Elapsed
    /\ age' = CountUpTo(age, OpenFor)
    /\ UNCHANGED <<state, failures, allowedOnce, inFlight, probes, probed, healthy>>

\* The vendor recovers for good.
VendorRecovers ==
    /\ ~healthy
    /\ healthy' = TRUE
    /\ UNCHANGED <<breaker, inFlight, probes, probed>>

Allow(c)  == AllowClosed(c) \/ AllowProbe(c) \/ Refuse(c)
Return(c) == RecordSuccess(c) \/ RecordFailure(c)

Next ==
    \/ \E c \in Callers : Allow(c) \/ Return(c)
    \/ ReadState
    \/ Tick
    \/ VendorRecovers

Spec == Init /\ [][Next]_vars

\* A vendor call returns (the HTTP client has a timeout), time passes, and
\* requests keep coming.  That the vendor recovers is not assumed.
FairSpec ==
    /\ Spec
    /\ WF_vars(Tick)
    /\ \A c \in Callers : WF_vars(Return(c)) /\ WF_vars(Allow(c))

-----------------------------------------------------------------------------
TypeOK ==
    /\ state \in {"closed", "open", "halfOpen"}
    /\ failures \in 0..Threshold
    /\ age \in 0..OpenFor
    /\ allowedOnce \in BOOLEAN
    /\ inFlight \subseteq Callers
    /\ probes \subseteq inFlight
    /\ probed \in Nat
    /\ healthy \in BOOLEAN

\* The breaker is closed exactly while fewer than Threshold results in a row
\* have failed, however late the results of earlier calls arrive.
ClosedBelowThreshold == state = "closed" <=> failures < Threshold

\* A half-open breaker that refuses calls waits for a probe that is still in
\* flight: otherwise nothing would ever reopen or close it again.
HalfOpenHasProbe == state = "halfOpen" /\ allowedOnce => probes # {}

\* One window lets through at most one probe: Allow, State and late results
\* cannot between them clear allowedOnce in the half-open state.
OneProbePerWindow == probed <= 1

\* Once the vendor answers again, and as long as requests come, the breaker
\* closes for good: no order of late results leaves it refusing calls for ever.
ClosesAfterRecovery == healthy ~> [](state = "closed")
=============================================================================
