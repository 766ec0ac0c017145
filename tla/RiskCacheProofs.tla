--------------------------- MODULE RiskCacheProofs ---------------------------
(***************************************************************************)
(* What the address-risk cache guarantees for any addresses, scores,       *)
(* environments and times to live, on each backend and across restarts.    *)
(***************************************************************************)
EXTENDS RiskCache, TLAPS

USE RiskCacheAssumption, ChainAssumption

-----------------------------------------------------------------------------
(* The thresholds that an environment gives.                               *)

LEMMA EnvOrType ==
    ASSUME NEW T, NEW value \in SUBSET T, NEW default \in T
    PROVE  EnvOr(value, default) \in T
  BY DEF EnvOr

\* Whatever the environment says, the decision for unknown exposure is a safe one.
LEMMA UnknownIsSafe == ASSUME NEW env PROVE UnknownFromEnv(env) \in SafeDecisions
  BY DEF UnknownFromEnv, SafeDecisions

LEMMA OverrideType ==
    ASSUME NEW env \in EnvSet, NEW of, NEW chain
    PROVE  OverrideFromEnv(env, of, chain) \in Int
<1> DEFINE matching == {i \in DOMAIN env.perChain :
                           /\ env.perChain[i].of = of
                           /\ ToLower[env.perChain[i].chain] = chain}
           final == {i \in matching : \A j \in matching : j <= i}
           values == {env.perChain[i].value : i \in final}
<1>1. \A i \in DOMAIN env.perChain : env.perChain[i].value \in Int
  <2> DEFINE Item == [of : {"block", "highRisk"}, chain : Chains, value : Int]
  <2>1. env.perChain \in Seq(Item)
    BY DEF EnvSet
  <2>2. \A i \in DOMAIN env.perChain : env.perChain[i] \in Item
    <3> HIDE DEF Item
    <3> QED BY <2>1
  <2> QED BY <2>2
<1>2. values \in SUBSET Int
  BY <1>1
<1>3. EnvOr(values, 0) \in Int
  BY <1>2, EnvOrType
<1> QED BY <1>3 DEF OverrideFromEnv

\* The thresholds are numbers, the overrides too.
Numeric(t) ==
    /\ t.block \in Int /\ t.highRisk \in Int
    /\ t.perChain \in [Chains -> [block : Int, highRisk : Int]]

LEMMA ThresholdsType ==
    ASSUME NEW env \in EnvSet PROVE Numeric(ThresholdsFromEnv(env))
<1>1. EnvOr(env.block, 90) \in Int /\ EnvOr(env.highRisk, 50) \in Int
  BY EnvOrType DEF EnvSet
<1> QED BY <1>1, OverrideType DEF ThresholdsFromEnv, Numeric

-----------------------------------------------------------------------------
(* A higher score is never decided more leniently.                         *)

LEMMA EffectiveType ==
    ASSUME NEW t, Numeric(t), NEW chain \in Chains
    PROVE  ThresholdsFor(t, chain) \in [block : Int, highRisk : Int]
<1>1. t.perChain[ToLower[chain]] \in [block : Int, highRisk : Int]
  BY DEF Numeric
<1> QED BY <1>1 DEF ThresholdsFor, Override, Numeric

\* The three decisions are ordered, whatever the order of the two thresholds.
LEMMA Monotone ==
    ASSUME NEW t, Numeric(t), NEW c \in Chains, NEW d \in Chains,
           ToLower[c] = ToLower[d],
           NEW low \in Int, NEW high \in Int, 0 <= low, low <= high
    PROVE  Rank(Decide(t, ExposureFromScore(t, low, c)))
              <= Rank(Decide(t, ExposureFromScore(t, high, d)))
<1> DEFINE th == ThresholdsFor(t, c)
<1>1. th = ThresholdsFor(t, d) /\ th.block \in Int /\ th.highRisk \in Int
  BY EffectiveType DEF ThresholdsFor
<1>2. /\ Rank("ALLOW") = 0 /\ Rank("MANUAL_REVIEW") = 1 /\ Rank("BLOCK") = 2
  BY DEF Rank
<1>3. CASE high >= th.block
  <2>1. Decide(t, ExposureFromScore(t, high, d)) = "BLOCK"
    BY <1>1, <1>3 DEF ExposureFromScore, Decide
  <2>2. Rank(Decide(t, ExposureFromScore(t, low, c))) \in {0, 1, 2}
    BY DEF Rank
  <2> QED BY <1>2, <2>1, <2>2
<1>4. CASE high < th.block /\ high >= th.highRisk
  <2>1. Decide(t, ExposureFromScore(t, high, d)) = "MANUAL_REVIEW"
    BY <1>1, <1>4 DEF ExposureFromScore, Decide
  <2>2. ExposureFromScore(t, low, c) \in {"HIGH_RISK", "CLEAN"}
    BY <1>1, <1>4 DEF ExposureFromScore
  <2>3. Decide(t, ExposureFromScore(t, low, c)) \in {"ALLOW", "MANUAL_REVIEW"}
    BY <2>2 DEF Decide
  <2> QED BY <1>2, <2>1, <2>3
<1>5. CASE high < th.block /\ high < th.highRisk
  <2>1. ExposureFromScore(t, low, c) = "CLEAN" /\ ExposureFromScore(t, high, d) = "CLEAN"
    BY <1>1, <1>5 DEF ExposureFromScore
  <2> QED BY <1>2, <2>1 DEF Decide
<1> QED BY <1>1, <1>3, <1>4, <1>5

\* Whatever is configured, only a CLEAN exposure is allowed; and a score of a chain
\* is allowed exactly when it is not negative and below both thresholds in force,
\* however the two are ordered and wherever they come from.
THEOREM AllowedExactly ==
    ASSUME NEW t, Numeric(t), NEW c \in Chains, NEW score \in Int
    PROVE  /\ \A e : Decide(t, e) = "ALLOW" <=> e = "CLEAN"
           /\ LET th == ThresholdsFor(t, c) IN
              Decide(t, ExposureFromScore(t, score, c)) = "ALLOW" <=>
                  0 <= score /\ score < th.block /\ score < th.highRisk
<1> DEFINE th == ThresholdsFor(t, c)
<1>1. \A e : Decide(t, e) = "ALLOW" <=> e = "CLEAN"
  BY DEF Decide, DecideUnknown, SafeDecisions
<1>2. th.block \in Int /\ th.highRisk \in Int
  BY EffectiveType
<1>3. ExposureFromScore(t, score, c) = "CLEAN" <=>
          0 <= score /\ score < th.block /\ score < th.highRisk
  BY <1>2 DEF ExposureFromScore
<1> QED BY <1>1, <1>3

\* Lowering the thresholds in force, of one chain or of all, never makes the decision
\* on a score more lenient.
THEOREM StricterThresholds ==
    ASSUME NEW t, Numeric(t), NEW u, Numeric(u), NEW c \in Chains,
           ThresholdsFor(u, c).block <= ThresholdsFor(t, c).block,
           ThresholdsFor(u, c).highRisk <= ThresholdsFor(t, c).highRisk,
           NEW score \in Int, 0 <= score
    PROVE  Rank(Decide(t, ExposureFromScore(t, score, c)))
              <= Rank(Decide(u, ExposureFromScore(u, score, c)))
<1> DEFINE th == ThresholdsFor(t, c)
           uh == ThresholdsFor(u, c)
<1>1. th \in [block : Int, highRisk : Int] /\ uh \in [block : Int, highRisk : Int]
  BY EffectiveType
<1>2. /\ Rank("ALLOW") = 0 /\ Rank("MANUAL_REVIEW") = 1 /\ Rank("BLOCK") = 2
      /\ \A d : Rank(d) \in {0, 1, 2}
  BY DEF Rank
<1>3. CASE score >= uh.block
  <2>1. Decide(u, ExposureFromScore(u, score, c)) = "BLOCK"
    BY <1>1, <1>3 DEF ExposureFromScore, Decide
  <2> QED BY <1>2, <2>1
<1>4. CASE score < uh.block /\ score >= uh.highRisk
  <2>1. Decide(u, ExposureFromScore(u, score, c)) = "MANUAL_REVIEW"
    BY <1>1, <1>4 DEF ExposureFromScore, Decide
  <2>2. ExposureFromScore(t, score, c) \in {"HIGH_RISK", "CLEAN"}
    BY <1>1, <1>4 DEF ExposureFromScore
  <2>3. Decide(t, ExposureFromScore(t, score, c)) \in {"ALLOW", "MANUAL_REVIEW"}
    BY <2>2 DEF Decide
  <2> QED BY <1>2, <2>1, <2>3
<1>5. CASE score < uh.block /\ score < uh.highRisk
  <2>1. ExposureFromScore(t, score, c) = "CLEAN" /\ ExposureFromScore(u, score, c) = "CLEAN"
    BY <1>1, <1>5 DEF ExposureFromScore
  <2> QED BY <1>2, <2>1 DEF Decide
<1> QED BY <1>1, <1>3, <1>4, <1>5

-----------------------------------------------------------------------------
(* The invariant of the cache.                                             *)

TTLOf(e) == TTLFor(e.verdict.exposure, e.by)

\* An entry is what its configuration made of its score, and lasts as long as that
\* configuration says.
Made(e) ==
    /\ e.verdict = VerdictBy(e.by, e.verdict.score, e.of)
    /\ e.expiresAt = IF backend = "redis" /\ TTLOf(e) = 0 THEN None ELSE e.setAt + TTLOf(e)

\* The answer to a look-up is what can be seen, until the next operation.
Answered ==
    last # None /\ last.op = "get" /\ last.outcome \notin Errors =>
        /\ last.verdict = Visible(last.key)
        /\ last.outcome = IF Visible(last.key) = None THEN "miss" ELSE "hit"

CacheInv ==
    /\ TypeOK
    /\ \A k \in CacheKeys : entries[k] # None => Made(entries[k])
    /\ Answered

LEMMA VerdictByType ==
    ASSUME NEW c \in Configs, NEW score \in Scores, NEW a \in Addresses
    PROVE  /\ VerdictBy(c, score, a) \in VerdictSet
           /\ VerdictBy(c, score, a).score = score
<1> DEFINE t == ThresholdsFromEnv(c.env)
           x == ExposureFromScore(t, score, a.chain)
<1>1. x \in Exposures
  BY DEF ExposureFromScore, Exposures
<1>2. Decide(t, x) \in Decisions
  BY UnknownIsSafe DEF Decide, DecideUnknown, Decisions, SafeDecisions
<1>3. VerdictBy(c, score, a) = [score |-> score, exposure |-> x, decision |-> Decide(t, x)]
  BY DEF VerdictBy
<1> HIDE DEF x, t
<1> QED BY <1>1, <1>2, <1>3 DEF VerdictSet

LEMMA ConfigType ==
    ASSUME NEW c \in Configs
    PROVE  c.env \in EnvSet /\ c.ttl \in Nat /\ c.sanctionedTtl \in Nat
  BY DEF RiskCacheAssumption

LEMMA TTLType ==
    ASSUME NEW c \in Configs, NEW x PROVE TTLFor(x, c) \in Nat
  BY ConfigType DEF TTLFor

\* What Set stores is well formed, and can be seen at once unless it is a row.
LEMMA EntryForMade ==
    ASSUME TypeOK, NEW a \in Addresses, NEW score \in Scores
    PROVE  LET v == VerdictBy(config, score, a)
               e == EntryFor(a, v)
           IN  /\ v \in VerdictSet /\ e \in EntrySet /\ e.verdict = v
               /\ Made(e)
               /\ backend # "pg" => Live(e)
<1> DEFINE v == VerdictBy(config, score, a)
           e == EntryFor(a, v)
           ttl == TTLFor(v.exposure, config)
<1>1. config \in Configs /\ clock \in Nat
  BY DEF TypeOK
<1>2. v \in VerdictSet /\ v.score = score
  BY <1>1, VerdictByType
<1>3. ttl \in Nat
  BY <1>1, TTLType
<1>4. /\ e = [of |-> a, verdict |-> v, by |-> config, setAt |-> clock, expiresAt |-> ExpiryAt(ttl)]
      /\ ExpiryAt(ttl) = IF backend = "redis" /\ ttl = 0 THEN None ELSE clock + ttl
  BY DEF EntryFor, ExpiryAt
<1>5. e \in EntrySet /\ e.verdict = v
  <2> HIDE DEF v, ttl
  <2> QED BY <1>1, <1>2, <1>3, <1>4 DEF EntrySet
<1>6. Made(e)
  <2>1. e.verdict = VerdictBy(e.by, e.verdict.score, e.of)
    BY <1>2, <1>4
  <2>2. TTLOf(e) = ttl
    BY <1>4 DEF TTLOf
  <2> QED BY <1>4, <2>1, <2>2 DEF Made
<1>7. backend # "pg" => Live(e)
  <2> HIDE DEF v, ttl
  <2> QED BY <1>1, <1>3, <1>4 DEF Live
<1> QED BY <1>2, <1>5, <1>6, <1>7

LEMMA InitCache == Init => CacheInv
<1> SUFFICES ASSUME Init PROVE CacheInv
  OBVIOUS
<1>1. ThresholdsFromEnv(config.env).unknown \in SafeDecisions
  BY UnknownIsSafe DEF ThresholdsFromEnv
<1> QED BY <1>1 DEF Init, CacheInv, TypeOK, Answered

\* The operations that write: at most one entry changes, to a new one or to none.
LEMMA WriteKeeps ==
    ASSUME CacheInv, NEW a \in Addresses, NEW score \in Scores,
           \/ UNCHANGED entries
           \/ entries' = [entries EXCEPT ![CacheKey(a)] = EntryFor(a, VerdictBy(config, score, a))],
           UNCHANGED <<backend, config, clock, restarts>>,
           last' \in ReplySet \cup {None},
           last' # None => last'.op # "get" \/ last'.outcome \in Errors
    PROVE  CacheInv'
<1> DEFINE e == EntryFor(a, VerdictBy(config, score, a))
<1>0. CacheKey(a) \in CacheKeys
  BY DEF CacheKeys
<1>1. e \in EntrySet /\ Made(e)
  BY EntryForMade DEF CacheInv
<1>2. \A f : Made(f)' <=> Made(f)
  BY DEF Made, TTLOf
<1> HIDE DEF e
<1>3. entries' \in [CacheKeys -> EntrySet \cup {None}]
  BY <1>0, <1>1 DEF CacheInv, TypeOK, e
<1>4. \A l \in CacheKeys : entries'[l] # None => Made(entries'[l])
  BY <1>0, <1>1 DEF CacheInv, TypeOK, e
<1>5. Answered'
  BY DEF Answered
<1> QED BY <1>2, <1>3, <1>4, <1>5 DEF CacheInv, TypeOK

LEMMA StepCache == CacheInv /\ [Next]_vars => CacheInv'
<1> SUFFICES ASSUME CacheInv, [Next]_vars PROVE CacheInv'
  OBVIOUS
<1>0. config \in Configs /\ \A k \in CacheKeys : Visible(k) \in VerdictSet \cup {None}
  BY DEF CacheInv, TypeOK, Visible, EntrySet
<1>1. ASSUME NEW k \in CacheKeys, Get(k) PROVE CacheInv'
  <2>1. /\ UNCHANGED <<backend, config, clock, entries, restarts>>
        /\ last' = Reply("get", k, IF Visible(k) = None THEN "miss" ELSE "hit", Visible(k))
    BY <1>1 DEF Get
  <2>2. last' \in ReplySet
    BY <1>0, <2>1 DEF Reply, ReplySet, Errors
  <2>3. \A l \in CacheKeys : Visible(l)' = Visible(l)
    BY <2>1 DEF Visible, Live
  <2>4. Answered'
    BY <2>1, <2>3 DEF Answered, Reply, Errors
  <2>5. \A f : Made(f)' <=> Made(f)
    BY <2>1 DEF Made, TTLOf
  <2> QED BY <2>1, <2>2, <2>4, <2>5 DEF CacheInv, TypeOK
<1>2. ASSUME NEW a \in Addresses, NEW score \in Scores,
             Set(a, score) \/ SetRefused(a, score) \/ SetFails(a, score)
      PROVE  CacheInv'
  <2>1. VerdictBy(config, score, a) \in VerdictSet
    BY <1>0, VerdictByType
  <2>k. CacheKey(a) \in CacheKeys
    BY DEF CacheKeys
  <2>2. last' \in ReplySet /\ last'.op # "get"
    BY <1>2, <2>1, <2>k DEF Set, SetRefused, SetFails, Reply, ReplySet, Errors
  <2>3. /\ UNCHANGED <<backend, config, clock, restarts>>
        /\ \/ UNCHANGED entries
           \/ entries' = [entries EXCEPT ![CacheKey(a)] = EntryFor(a, VerdictBy(config, score, a))]
    BY <1>2 DEF Set, SetRefused, SetFails
  <2> QED BY <2>2, <2>3, WriteKeeps
<1>3. ASSUME NEW k \in CacheKeys,
             Delete(k) \/ GetFails(k) \/ DeleteFails(k) \/ RedisDrops(k)
      PROVE  CacheInv'
  <2>1. /\ last' \in ReplySet \cup {None}
        /\ last' # None => last'.op # "get" \/ last'.outcome \in Errors
    BY <1>3 DEF Delete, GetFails, DeleteFails, RedisDrops, Reply, ReplySet, Errors
  <2>2. /\ UNCHANGED <<backend, config, clock, restarts>>
        /\ entries' \in {entries, [entries EXCEPT ![k] = None]}
    BY <1>3 DEF Delete, GetFails, DeleteFails, RedisDrops
  <2>3. entries' \in [CacheKeys -> EntrySet \cup {None}]
    BY <2>2 DEF CacheInv, TypeOK
  <2>4. \A l \in CacheKeys : entries'[l] # None => entries'[l] = entries[l]
    BY <2>2 DEF CacheInv, TypeOK
  <2>5. \A f : Made(f)' <=> Made(f)
    BY <2>2 DEF Made, TTLOf
  <2>6. Answered'
    BY <2>1 DEF Answered
  <2> QED BY <2>1, <2>2, <2>3, <2>4, <2>5, <2>6 DEF CacheInv, TypeOK
<1>4. CASE Tick
  <2>1. /\ UNCHANGED <<backend, config, entries, restarts>> /\ last' = None
        /\ clock' \in 0..MaxClock
    BY <1>4 DEF Tick, CacheInv, TypeOK
  <2>2. \A f : Made(f)' <=> Made(f)
    BY <2>1 DEF Made, TTLOf
  <2> QED BY <2>1, <2>2 DEF CacheInv, TypeOK, Answered
<1>5. ASSUME NEW c \in Configs, Restart(c) PROVE CacheInv'
  <2>1. /\ UNCHANGED <<backend, clock>> /\ last' = None /\ config' = c
        /\ restarts' \in 0..MaxRestarts
        /\ entries' \in {entries, [k \in CacheKeys |-> None]}
    BY <1>5 DEF Restart, CacheInv, TypeOK
  <2>2. \A f : Made(f)' <=> Made(f)
    BY <2>1 DEF Made, TTLOf
  <2>3. ThresholdsFromEnv(config'.env).unknown \in SafeDecisions
    BY UnknownIsSafe DEF ThresholdsFromEnv
  <2> QED BY <2>1, <2>2, <2>3 DEF CacheInv, TypeOK, Answered
<1>6. CASE UNCHANGED vars
  <2>1. \A f : Made(f)' <=> Made(f)
    BY <1>6 DEF vars, Made, TTLOf
  <2>2. \A l \in CacheKeys : Visible(l)' = Visible(l)
    BY <1>6 DEF vars, Visible, Live
  <2>3. Answered'
    BY <1>6, <2>2 DEF vars, Answered, CacheInv, Visible, Live
  <2> QED BY <1>6, <2>1, <2>3 DEF vars, CacheInv, TypeOK
<1> QED BY <1>1, <1>2, <1>3, <1>4, <1>5, <1>6 DEF Next

LEMMA CacheInvariant == Spec => []CacheInv
  BY InitCache, StepCache, PTL DEF Spec

\* Every variable keeps its type; the decision for unknown exposure is a safe one
\* under any environment.
THEOREM CacheTypeCorrect == Spec => []TypeOK
<1>1. CacheInv => TypeOK
  BY DEF CacheInv
<1> QED BY <1>1, CacheInvariant, PTL

\* A look-up hits until the time to live of its entry is over, and misses after.
THEOREM HitsFollow == Spec => []HitsFollowTTL
<1>1. CacheInv => HitsFollowTTL
  <2> SUFFICES ASSUME CacheInv, last # None, last.op = "get", last.outcome \notin Errors
               PROVE  LET e   == entries[last.key]
                          ttl == IF e.verdict.exposure = "SANCTIONED"
                                   THEN e.by.sanctionedTtl ELSE e.by.ttl
                      IN  /\ last.outcome = "hit" =>
                                /\ e # None /\ last.verdict = e.verdict
                                /\ clock <= e.setAt + ttl \/ (backend = "redis" /\ ttl = 0)
                          /\ e # None /\ clock < e.setAt + ttl => last.outcome = "hit"
    BY DEF HitsFollowTTL
  <2> DEFINE k == last.key
             e == entries[k]
  <2>1. k \in CacheKeys /\ clock \in Nat /\ e \in EntrySet \cup {None}
    BY DEF CacheInv, TypeOK, ReplySet
  <2>2. /\ last.verdict = Visible(k)
        /\ last.outcome = IF Visible(k) = None THEN "miss" ELSE "hit"
    BY DEF CacheInv, Answered
  <2>3. CASE e = None
    <3>1. Visible(k) = None
      BY <2>3 DEF Visible
    <3> QED BY <2>2, <2>3, <3>1
  <2>4. CASE e # None
    <3> DEFINE ttl == TTLOf(e)
    <3>1. e \in EntrySet /\ e.verdict # None /\ e.setAt \in Nat
      BY <2>1, <2>4 DEF EntrySet
    <3>2. ttl \in Nat
      BY <3>1, TTLType DEF TTLOf, EntrySet
    <3>3. e.expiresAt = IF backend = "redis" /\ ttl = 0 THEN None ELSE e.setAt + ttl
      BY <2>1, <2>4 DEF CacheInv, Made
    <3>4. Visible(k) = IF Live(e) THEN e.verdict ELSE None
      BY <2>4 DEF Visible
    <3>5. ttl = IF e.verdict.exposure = "SANCTIONED" THEN e.by.sanctionedTtl ELSE e.by.ttl
      BY DEF TTLOf, TTLFor
    <3> HIDE DEF ttl
    <3>6. Live(e) => clock <= e.setAt + ttl \/ (backend = "redis" /\ ttl = 0)
      BY <2>1, <3>1, <3>2, <3>3 DEF Live
    <3>7. clock < e.setAt + ttl => Live(e)
      BY <2>1, <3>1, <3>2, <3>3 DEF Live
    <3> HIDE DEF e, k
    <3> QED BY <2>2, <2>4, <3>1, <3>4, <3>5, <3>6, <3>7 DEF e, k
  <2> QED BY <2>3, <2>4
<1> QED BY <1>1, CacheInvariant, PTL

\* Under one environment and chain a higher score is never decided more leniently.
THEOREM HigherScoresStricter == Spec => []DecisionsFollowScores
<1>1. CacheInv => DecisionsFollowScores
  <2> SUFFICES ASSUME CacheInv, NEW k \in CacheKeys, NEW l \in CacheKeys,
                      entries[k] # None, entries[l] # None,
                      entries[k].by.env = entries[l].by.env,
                      ToLower[entries[k].of.chain] = ToLower[entries[l].of.chain],
                      0 <= entries[k].verdict.score,
                      entries[k].verdict.score <= entries[l].verdict.score
               PROVE  Rank(entries[k].verdict.decision) <= Rank(entries[l].verdict.decision)
    BY DEF DecisionsFollowScores
  <2> DEFINE low == entries[k].verdict.score
             high == entries[l].verdict.score
             t == ThresholdsFromEnv(entries[k].by.env)
  <2>1. entries[k] \in EntrySet /\ entries[l] \in EntrySet
    BY DEF CacheInv, TypeOK
  <2>2. low \in Int /\ high \in Int /\ Numeric(t)
    BY <2>1, ThresholdsType, ConfigType DEF EntrySet, VerdictSet
  <2>3. /\ entries[k].verdict.decision = Decide(t, ExposureFromScore(t, low, entries[k].of.chain))
        /\ entries[l].verdict.decision = Decide(t, ExposureFromScore(t, high, entries[l].of.chain))
    <3>1. \A c, score, x : VerdictBy(c, score, x).decision
             = Decide(ThresholdsFromEnv(c.env),
                      ExposureFromScore(ThresholdsFromEnv(c.env), score, x.chain))
      BY DEF VerdictBy
    <3>2. /\ entries[k].verdict = VerdictBy(entries[k].by, low, entries[k].of)
          /\ entries[l].verdict = VerdictBy(entries[l].by, high, entries[l].of)
      BY DEF CacheInv, Made
    <3> HIDE DEF low, high
    <3> QED BY <3>1, <3>2
  <2>4. entries[k].of.chain \in Chains /\ entries[l].of.chain \in Chains
    BY <2>1, TextAssumption DEF EntrySet
  <2> HIDE DEF low, high, t
  <2> QED BY <2>2, <2>3, <2>4, Monotone DEF low, high
<1> QED BY <1>1, CacheInvariant, PTL

-----------------------------------------------------------------------------
(* Each backend is a cache: every step is one of AddressCache, or none.    *)

Mem == [k \in CacheKeys |-> Visible(k)]

\* With the same time and entries the same can be seen; an entry that is not changed
\* is not seen again once it has expired.
LEMMA SeenAsBefore ==
    ASSUME CacheInv, UNCHANGED backend, clock' \in Nat, clock <= clock',
           NEW l \in CacheKeys, entries'[l] \in {entries[l], None}
    PROVE  /\ Visible(l)' \in {Visible(l), None}
           /\ clock' = clock /\ entries'[l] = entries[l] => Visible(l)' = Visible(l)
<1>1. entries[l] \in EntrySet \cup {None} /\ clock \in Nat
  BY DEF CacheInv, TypeOK
<1>2. CASE entries'[l] = None
  BY <1>2 DEF Visible, Live
<1>3. CASE entries'[l] = entries[l] /\ entries[l] \in EntrySet
  <2>1. entries[l].expiresAt \in Nat \cup {None}
    BY <1>3 DEF EntrySet
  <2>2. CASE entries[l].expiresAt = None
    BY <1>1, <1>3, <2>2 DEF Visible, Live
  <2>3. CASE entries[l].expiresAt \in Nat
    BY <1>1, <1>3, <2>3 DEF Visible, Live
  <2> QED BY <2>1, <2>2, <2>3
<1> QED BY <1>1, <1>2, <1>3

\* To remove an entry is to see none.
LEMMA RemovedUnseen ==
    ASSUME CacheInv, UNCHANGED <<backend, clock>>, NEW k \in CacheKeys,
           entries' = [entries EXCEPT ![k] = None]
    PROVE  Mem' = [Mem EXCEPT ![k] = None]
<1>1. Visible(k)' = None
  BY DEF Visible, CacheInv, TypeOK
<1>2. \A l \in CacheKeys \ {k} : Visible(l)' = Visible(l)
  BY SeenAsBefore DEF CacheInv, TypeOK
<1> QED BY <1>1, <1>2 DEF Mem

LEMMA UnchangedUnseen ==
    ASSUME CacheInv, UNCHANGED <<backend, clock, entries>> PROVE Mem' = Mem
<1>1. \A l \in CacheKeys : Visible(l)' = Visible(l)
  BY DEF Visible, Live
<1> QED BY <1>1 DEF Mem

LEMMA StepAddressCache == CacheInv /\ [Next]_vars => [AC!Next]_<<Mem, last>>
<1> SUFFICES ASSUME CacheInv, [Next]_vars PROVE AC!Next \/ UNCHANGED <<Mem, last>>
  OBVIOUS
<1>0. /\ config \in Configs /\ clock \in Nat
      /\ {"refused", "unreachable"} \subseteq Errors
      /\ \A op, x, o, v : AC!Reply(op, x, o, v) = Reply(op, x, o, v)
  BY DEF CacheInv, TypeOK, Errors, AC!Reply, Reply
<1>1. ASSUME NEW k \in CacheKeys, Get(k) PROVE AC!Next
  <2>1. Mem' = Mem /\ Mem[k] = Visible(k)
    BY <1>1, UnchangedUnseen DEF Get, Mem
  <2>2. AC!Get(k)
    BY <1>0, <1>1, <2>1 DEF Get, AC!Get, Mem
  <2> QED BY <2>2 DEF AC!Next
<1>2. ASSUME NEW k \in CacheKeys, Delete(k) \/ DeleteFails(k) \/ GetFails(k) PROVE AC!Next
  <2>1. CASE Delete(k)
    <3>1. Mem' = [Mem EXCEPT ![k] = None]
      BY <2>1, RemovedUnseen DEF Delete
    <3>2. AC!Delete(k)
      BY <1>0, <2>1, <3>1 DEF Delete, AC!Delete, Mem
    <3> QED BY <3>2 DEF AC!Next
  <2>2. CASE DeleteFails(k)
    <3>1. Mem' \in {Mem, [Mem EXCEPT ![k] = None]}
      BY <2>2, RemovedUnseen, UnchangedUnseen DEF DeleteFails
    <3>2. AC!DeleteFails(k, "unreachable")
      BY <1>0, <2>2, <3>1 DEF DeleteFails, AC!DeleteFails, Mem
    <3> QED BY <1>0, <3>2 DEF AC!Next
  <2>3. CASE GetFails(k)
    <3>1. Mem' = Mem
      BY <2>3, UnchangedUnseen DEF GetFails
    <3>2. AC!GetFails(k, "unreachable")
      BY <1>0, <2>3, <3>1 DEF GetFails, AC!GetFails, Mem
    <3> QED BY <1>0, <3>2 DEF AC!Next
  <2> QED BY <1>2, <2>1, <2>2, <2>3
<1>3. ASSUME NEW a \in Addresses, NEW score \in Scores,
             Set(a, score) \/ SetRefused(a, score) \/ SetFails(a, score)
      PROVE  AC!Next
  <2> DEFINE v == VerdictBy(config, score, a)
             k == CacheKey(a)
  <2>k. k \in CacheKeys
    BY DEF CacheKeys
  <2>1. v \in VerdictSet
    BY <1>0, VerdictByType
  <2>2. ASSUME backend # "pg", UNCHANGED <<backend, config, clock>>,
               entries' = [entries EXCEPT ![k] = EntryFor(a, v)]
        PROVE  Mem' = [Mem EXCEPT ![k] = v]
    <3>1. EntryFor(a, v) \in EntrySet /\ EntryFor(a, v).verdict = v /\ Live(EntryFor(a, v))
      BY <2>2, EntryForMade DEF CacheInv
    <3>2. entries'[k] = EntryFor(a, v) /\ \A l \in CacheKeys \ {k} : entries'[l] = entries[l]
      BY <2>2, <2>k DEF CacheInv, TypeOK
    <3> HIDE DEF v, k
    <3>3. \A e : Live(e)' <=> Live(e)
      BY <2>2 DEF Live
    <3>4. Visible(k)' = v
      BY <3>1, <3>2, <3>3 DEF Visible
    <3>5. \A l \in CacheKeys \ {k} : Visible(l)' = Visible(l)
      BY <3>2, <3>3 DEF Visible
    <3> QED BY <3>4, <3>5 DEF Mem
  <2>3. CASE Set(a, score)
    <3>1. Mem' = [Mem EXCEPT ![k] = v] /\ last' = Reply("set", k, "ok", v)
      BY <2>2, <2>3 DEF Set
    <3> HIDE DEF v, k
    <3>2. AC!Set(k, v)
      BY <1>0, <3>1 DEF AC!Set, Mem
    <3> QED BY <2>k, <2>1, <3>2 DEF AC!Next
  <2>4. CASE SetRefused(a, score)
    <3>1. Mem' = Mem /\ last' = Reply("set", k, "refused", v)
      BY <2>4, UnchangedUnseen DEF SetRefused
    <3> HIDE DEF v, k
    <3>2. AC!SetFails(k, v, "refused")
      BY <1>0, <3>1 DEF AC!SetFails, Mem
    <3> QED BY <1>0, <2>k, <2>1, <3>2 DEF AC!Next
  <2>5. CASE SetFails(a, score)
    <3>1. Mem' \in {Mem, [Mem EXCEPT ![k] = v]} /\ last' = Reply("set", k, "unreachable", v)
      BY <2>2, <2>5, UnchangedUnseen DEF SetFails
    <3> HIDE DEF v, k
    <3>2. AC!SetFails(k, v, "unreachable")
      BY <1>0, <3>1 DEF AC!SetFails, Mem
    <3> QED BY <1>0, <2>k, <2>1, <3>2 DEF AC!Next
  <2> QED BY <1>3, <2>3, <2>4, <2>5
<1>4. ASSUME last' = None, UNCHANGED backend, clock' \in Nat, clock <= clock',
             \A l \in CacheKeys : entries'[l] \in {entries[l], None}
      PROVE  AC!Lose
  <2> DEFINE S == {l \in CacheKeys : Visible(l)' = None}
  <2>1. \A l \in CacheKeys : Visible(l)' = IF l \in S THEN None ELSE Visible(l)
    BY <1>4, SeenAsBefore
  <2>2. Mem' = [l \in CacheKeys |-> IF l \in S THEN None ELSE Mem[l]]
    BY <2>1 DEF Mem
  <2>3. S \in SUBSET CacheKeys
    OBVIOUS
  <2> HIDE DEF S
  <2> QED BY <1>4, <2>2, <2>3 DEF AC!Lose, Mem
<1>5. ASSUME NEW k \in CacheKeys, RedisDrops(k) PROVE AC!Next
  BY <1>0, <1>4, <1>5 DEF RedisDrops, AC!Next, CacheInv, TypeOK
<1>6. CASE Tick
  BY <1>0, <1>4, <1>6 DEF Tick, AC!Next
<1>7. ASSUME NEW c \in Configs, Restart(c) PROVE AC!Next
  BY <1>0, <1>4, <1>7 DEF Restart, AC!Next
<1>8. CASE UNCHANGED vars
  BY <1>8, UnchangedUnseen DEF vars
<1> QED BY <1>1, <1>2, <1>3, <1>5, <1>6, <1>7, <1>8 DEF Next

\* Every backend implements the cache its callers count on.
THEOREM AddressCacheImplemented == Spec => ImplementsAddressCache
<1>1. Init => AC!Init
  BY DEF Init, AC!Init, Visible
<1>2. CacheInv /\ [Next]_vars => [AC!Next]_<<[k \in CacheKeys |-> Visible(k)], last>>
  BY StepAddressCache DEF Mem
<1> QED BY <1>1, <1>2, CacheInvariant, PTL DEF Spec, ImplementsAddressCache, AC!Spec

-----------------------------------------------------------------------------
\* README.md:205 says that without Redis the cache is a Postgres table.  Nothing is
\* ever in that table, under any configuration: each row of PGCache.Set lacks its
\* primary key, so that every look-up misses.
PgStaysEmpty == backend = "pg" => \A k \in CacheKeys : entries[k] = None

THEOREM PgNeverCaches == Spec => []PgStaysEmpty
<1>1. Init => PgStaysEmpty
  BY DEF Init, PgStaysEmpty
<1>2. CacheInv /\ PgStaysEmpty /\ [Next]_vars => PgStaysEmpty'
  <2> SUFFICES ASSUME CacheInv, PgStaysEmpty, [Next]_vars, backend' = "pg", NEW l \in CacheKeys
               PROVE  entries'[l] = None
    BY DEF PgStaysEmpty
  <2>1. backend' = backend
    BY DEF Next, vars, Get, GetFails, Delete, DeleteFails, RedisDrops, Set, SetRefused,
           SetFails, Tick, Restart
  <2>2. backend = "pg" /\ entries[l] = None
    BY <2>1 DEF PgStaysEmpty
  <2>3. ASSUME NEW k \in CacheKeys, Delete(k) \/ DeleteFails(k) PROVE entries'[l] = None
    BY <2>2, <2>3 DEF Delete, DeleteFails, CacheInv, TypeOK
  <2>4. ASSUME NEW k \in CacheKeys, Get(k) \/ GetFails(k) \/ RedisDrops(k)
        PROVE  entries'[l] = None
    BY <2>2, <2>4 DEF Get, GetFails, RedisDrops
  <2>5. ASSUME NEW a \in Addresses, NEW score \in Scores,
               Set(a, score) \/ SetRefused(a, score) \/ SetFails(a, score)
        PROVE  entries'[l] = None
    BY <2>2, <2>5 DEF Set, SetRefused, SetFails
  <2>6. CASE Tick
    BY <2>2, <2>6 DEF Tick
  <2>7. ASSUME NEW c \in Configs, Restart(c) PROVE entries'[l] = None
    BY <2>2, <2>7 DEF Restart
  <2>8. CASE UNCHANGED vars
    BY <2>2, <2>8 DEF vars
  <2> QED BY <2>3, <2>4, <2>5, <2>6, <2>7, <2>8 DEF Next
<1> QED BY <1>1, <1>2, CacheInvariant, PTL DEF Spec
=============================================================================
