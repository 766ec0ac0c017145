---------------------------- MODULE ThresholdEnv ----------------------------
(***************************************************************************)
(* How the thresholds come from the environment: DefaultThresholds and     *)
(* ReloadFromEnv of internal/decision/decision.go, run once at start-up.   *)
(*                                                                         *)
(* An environment is a record                                              *)
(*    block, highRisk   the value of BLOCK_THRESHOLD, HIGH_RISK_THRESHOLD, *)
(*                      as a set: {} when it is absent or not a number,    *)
(*    unknown           UNKNOWN_DECISION, likewise a set,                  *)
(*    perChain          the variables BLOCK_THRESHOLD_<CHAIN> and          *)
(*                      HIGH_RISK_THRESHOLD_<CHAIN> that hold a number, in *)
(*                      the order of the environment: records              *)
(*                      [of, chain, value].                                *)
(***************************************************************************)
EXTENDS Decision, Sequences

EnvSet ==
    [block : SUBSET Int, highRisk : SUBSET Int, unknown : SUBSET STRING,
     perChain : Seq([of : {"block", "highRisk"}, chain : Chains, value : Int])]

\* The environment's own value, or the default.
EnvOr(value, default) == IF value = {} THEN default ELSE CHOOSE x \in value : TRUE

\* A decision for unknown exposure that is not a safe one is replaced.
UnknownFromEnvAsIs(env) == EnvOr(env.unknown, "MANUAL_REVIEW")     \* faulty: not checked
UnknownFromEnv(env) ==
    IF EnvOr(env.unknown, "MANUAL_REVIEW") \in SafeDecisions
      THEN EnvOr(env.unknown, "MANUAL_REVIEW")
      ELSE "MANUAL_REVIEW"

\* The override of a (lower-case) chain: of the variables whose chain spells it in
\* lower case, the last one counts; zero stands for none.
OverrideFromEnv(env, of, chain) ==
    LET matching == {i \in DOMAIN env.perChain :
                        /\ env.perChain[i].of = of
                        /\ ToLower[env.perChain[i].chain] = chain}
        last == {i \in matching : \A j \in matching : j <= i}
    IN  EnvOr({env.perChain[i].value : i \in last}, 0)

ThresholdsFromEnv(env) ==
    [block    |-> EnvOr(env.block, 90),
     highRisk |-> EnvOr(env.highRisk, 50),
     unknown  |-> UnknownFromEnv(env),
     perChain |-> [c \in Chains |->
                      [block    |-> OverrideFromEnv(env, "block", c),
                       highRisk |-> OverrideFromEnv(env, "highRisk", c)]]]
=============================================================================
