------------------------------ MODULE Decision ------------------------------
(***************************************************************************)
(* The pure decision logic of internal/decision/decision.go: a numeric     *)
(* risk score becomes an exposure, an exposure becomes a decision and an   *)
(* alert severity.                                                         *)
(*                                                                         *)
(* A Thresholds value is a record                                          *)
(*    block, highRisk   the global thresholds,                             *)
(*    unknown           the decision configured for unknown exposure,      *)
(*    perChain          the overrides: a function from lower-case chain    *)
(*                      names to records [block, highRisk].                *)
(* ToLower is strings.ToLower on chains.                                   *)
(***************************************************************************)
EXTENDS Integers

CONSTANTS
    Chains,     \* chain names, in every spelling a request may use
    ToLower     \* [Chains -> Chains], the lower-case spelling of each

ASSUME ChainAssumption == ToLower \in [Chains -> Chains]

-----------------------------------------------------------------------------

Decisions == {"ALLOW", "MANUAL_REVIEW", "BLOCK"}

\* The decisions that can be configured for unknown exposure.
SafeDecisions == {"MANUAL_REVIEW", "BLOCK"}

\* The classifications decision.go names.  A vendor may also leave the field
\* empty, or send a word the service does not know.
Exposures == {"SANCTIONED", "HIGH_RISK", "UNKNOWN", "CLEAN"}
VendorExposures == Exposures \cup {"", "OTHER"}

Severities == {"critical", "high", "medium", "low"}

ThresholdSet ==
    [block : Int, highRisk : Int, unknown : STRING,
     perChain : [Chains -> [block : Int, highRisk : Int]]]

\* An override counts only when it is positive.
Override(value, global) == IF value > 0 THEN value ELSE global

ThresholdsForSpelling(t, chain) ==      \* faulty: the chain is taken as it is spelled
    LET c == t.perChain[chain]
    IN  [block |-> Override(c.block, t.block), highRisk |-> Override(c.highRisk, t.highRisk)]

\* The effective thresholds of a chain.
ThresholdsFor(t, chain) ==
    LET c == t.perChain[ToLower[chain]]
    IN  [block |-> Override(c.block, t.block), highRisk |-> Override(c.highRisk, t.highRisk)]

\* The block threshold is tested first, the sign of the score only after both.
ExposureFromScore(t, score, chain) ==
    LET th == ThresholdsFor(t, chain)
    IN  CASE score >= th.block    -> "SANCTIONED"
          [] score < th.block /\ score >= th.highRisk -> "HIGH_RISK"
          [] score < th.block /\ score < th.highRisk /\ score < 0 -> "UNKNOWN"
          [] OTHER                -> "CLEAN"

\* Decide never trusts the configured decision for unknown exposure.
DecideUnknown(t) == IF t.unknown \in SafeDecisions THEN t.unknown ELSE "MANUAL_REVIEW"

Decide(t, exposure) ==
    CASE exposure = "SANCTIONED" -> "BLOCK"
      [] exposure = "CLEAN"      -> "ALLOW"
      [] exposure = "UNKNOWN"    -> DecideUnknown(t)
      [] OTHER                   -> "MANUAL_REVIEW"

SeverityAsExposure(exposure) == exposure    \* faulty: the exposure is passed on
SeverityFor(exposure) ==
    CASE exposure = "SANCTIONED" -> "critical"
      [] exposure = "HIGH_RISK"  -> "high"
      [] exposure = "UNKNOWN"    -> "medium"
      [] OTHER                   -> "low"

FailOpen == "ALLOW"     \* faulty: an outage lets the transaction pass
DecideVendorUnreachable == "MANUAL_REVIEW"

=============================================================================
