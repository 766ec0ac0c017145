------------------------------ MODULE RiskCache ------------------------------
(***************************************************************************)
(* The address-risk cache with its three backends, the time to live of its *)
(* entries, and the restarts that a persistent backend outlives: the       *)
(* MemoryCache of internal/screen, the RedisCache and PGCache of           *)
(* internal/store, behind the adapter of cmd/kyt/main.go.                  *)
(*                                                                         *)
(* A cached verdict holds the decision taken when it was set.  A restart   *)
(* may bring other thresholds and other times to live; what Redis holds is *)
(* served on as it was decided.                                            *)
(*                                                                         *)
(* Operations are atomic (a mutex, one Redis command, one statement) and   *)
(* come in any order.  Each is for an address, and goes by its key, which  *)
(* another address may share.  Vendors that name no exposure are considered, so    *)
(* that the score decides.  Time is an integer, in the unit of the TTLs.   *)
(***************************************************************************)
EXTENDS ThresholdEnv, AddressKeys

CONSTANTS
    Scores,         \* the scores a vendor gives
    Configs,        \* environments to start in: [env, ttl, sanctionedTtl]
    Backends,       \* the backends to consider: "memory", "redis", "pg"
    MaxClock,       \* bound on the time
    MaxRestarts,    \* bound on the number of restarts
    None            \* no entry, no expiry, no operation

VerdictSet == [score : Scores, exposure : Exposures, decision : Decisions]
EntrySet == [of : Addresses, verdict : VerdictSet, by : Configs, setAt : Nat,
             expiresAt : Nat \cup {None}]
Errors == {"refused", "unreachable"}
ReplySet == [op : {"get", "set", "delete"}, key : CacheKeys,
             outcome : {"hit", "miss", "ok"} \cup Errors, verdict : VerdictSet \cup {None}]

ASSUME RiskCacheAssumption ==
    /\ Scores \subseteq Int
    /\ Configs \subseteq [env : EnvSet, ttl : Nat, sanctionedTtl : Nat]
    /\ Backends \subseteq {"memory", "redis", "pg"}
    /\ MaxClock \in Nat /\ MaxRestarts \in Nat
    /\ None \notin Nat /\ None \notin VerdictSet /\ None \notin EntrySet
    /\ None \notin ReplySet

VARIABLES
    backend,    \* the backend that NewCache or openCache chose
    config,     \* the environment the process was started in
    clock,      \* the time
    entries,    \* what the backend holds under each key: an entry or None
    last,       \* the last operation and its outcome, or None
    restarts

vars == <<backend, config, clock, entries, last, restarts>>

-----------------------------------------------------------------------------
\* What Screen makes of a score under a configuration.
VerdictBy(c, score, a) ==
    LET t == ThresholdsFromEnv(c.env)
        exposure == ExposureFromScore(t, score, a.chain)
    IN  [score |-> score, exposure |-> exposure, decision |-> Decide(t, exposure)]

\* Sanctioned verdicts are kept for a time of their own.
TTLForAll(exposure, c) == c.sanctionedTtl       \* faulty: everything is kept as long
TTLFor(exposure, c) == IF exposure = "SANCTIONED" THEN c.sanctionedTtl ELSE c.ttl

\* The expiry is fixed when the entry is set.  Redis takes a TTL of zero for none.
ExpiryAt(ttl) == IF backend = "redis" /\ ttl = 0 THEN None ELSE clock + ttl

EntryFor(a, v) ==
    [of |-> a, verdict |-> v, by |-> config, setAt |-> clock,
     expiresAt |-> ExpiryAt(TTLFor(v.exposure, config))]

\* A memory entry is a hit up to the instant of its expiry and at it, a row only
\* before it.  When exactly Redis drops a key is its own affair (RedisDrops).
LiveUnderCurrentTTL(e) ==       \* faulty: the expiry is worked out when the entry is read
    clock <= e.setAt + TTLFor(e.verdict.exposure, config)
Live(e) ==
    \/ e.expiresAt = None
    \/ backend # "pg" /\ clock <= e.expiresAt
    \/ clock < e.expiresAt

Visible(k) ==
    IF entries[k] # None /\ Live(entries[k]) THEN entries[k].verdict ELSE None

Reply(op, k, outcome, v) == [op |-> op, key |-> k, outcome |-> outcome, verdict |-> v]

-----------------------------------------------------------------------------
Init ==
    /\ backend \in Backends
    /\ config \in Configs
    /\ clock = 0
    /\ entries = [k \in CacheKeys |-> None]
    /\ last = None
    /\ restarts = 0

\* An expired entry is a miss; it is not removed.
Get(k) ==
    /\ last' = Reply("get", k, IF Visible(k) = None THEN "miss" ELSE "hit", Visible(k))
    /\ UNCHANGED <<backend, config, clock, entries, restarts>>

Set(a, score) ==
    /\ backend \in {"memory", "redis"}
    /\ entries' = [entries EXCEPT ![CacheKey(a)] = EntryFor(a, VerdictBy(config, score, a))]
    /\ last' = Reply("set", CacheKey(a), "ok", VerdictBy(config, score, a))
    /\ UNCHANGED <<backend, config, clock, restarts>>

\* The INSERT of PGCache.Set gives no value for the primary key id, and migration
\* 0001 gives the column no default: Postgres refuses every row.
SetRefused(a, score) ==
    /\ backend = "pg"
    /\ last' = Reply("set", CacheKey(a), "refused", VerdictBy(config, score, a))
    /\ UNCHANGED <<backend, config, clock, entries, restarts>>

Delete(k) ==
    /\ entries' = [entries EXCEPT ![k] = None]
    /\ last' = Reply("delete", k, "ok", None)
    /\ UNCHANGED <<backend, config, clock, restarts>>

\* The backend cannot be reached, or its answer is lost after the effect.
GetFails(k) ==
    /\ backend # "memory"
    /\ last' = Reply("get", k, "unreachable", None)
    /\ UNCHANGED <<backend, config, clock, entries, restarts>>

SetFails(a, score) ==
    /\ backend # "memory"
    /\ \/ UNCHANGED entries
       \/ /\ backend = "redis"
          /\ entries' = [entries EXCEPT ![CacheKey(a)] = EntryFor(a, VerdictBy(config, score, a))]
    /\ last' = Reply("set", CacheKey(a), "unreachable", VerdictBy(config, score, a))
    /\ UNCHANGED <<backend, config, clock, restarts>>

DeleteFails(k) ==
    /\ backend # "memory"
    /\ entries' \in {entries, [entries EXCEPT ![k] = None]}
    /\ last' = Reply("delete", k, "unreachable", None)
    /\ UNCHANGED <<backend, config, clock, restarts>>

Tick ==
    /\ clock < MaxClock
    /\ clock' = clock + 1
    /\ last' = None
    /\ UNCHANGED <<backend, config, entries, restarts>>

\* Redis removes a key, when it expires or when memory runs short.
RedisDrops(k) ==
    /\ backend = "redis" /\ entries[k] # None
    /\ entries' = [entries EXCEPT ![k] = None]
    /\ last' = None
    /\ UNCHANGED <<backend, config, clock, restarts>>

\* The process starts again, in another environment perhaps.
Restart(c) ==
    /\ restarts < MaxRestarts
    /\ restarts' = restarts + 1
    /\ config' = c
    /\ entries' = IF backend = "memory" THEN [k \in CacheKeys |-> None] ELSE entries
    /\ last' = None
    /\ UNCHANGED <<backend, clock>>

Next ==
    \/ \E k \in CacheKeys : \/ Get(k) \/ GetFails(k)
                            \/ Delete(k) \/ DeleteFails(k)
                            \/ RedisDrops(k)
    \/ \E a \in Addresses, score \in Scores :
          Set(a, score) \/ SetRefused(a, score) \/ SetFails(a, score)
    \/ Tick
    \/ \E c \in Configs : Restart(c)

Spec == Init /\ [][Next]_vars

-----------------------------------------------------------------------------
\* The thresholds in force always hold a safe decision for unknown exposure.
TypeOK ==
    /\ backend \in {"memory", "redis", "pg"}
    /\ config \in Configs
    /\ ThresholdsFromEnv(config.env).unknown \in SafeDecisions
    /\ clock \in 0..MaxClock
    /\ entries \in [CacheKeys -> EntrySet \cup {None}]
    /\ last \in ReplySet \cup {None}
    /\ restarts \in 0..MaxRestarts

\* Each backend is a cache: a hit is the last verdict set under that key and not
\* deleted since, and an entry that has expired stays gone, also across a restart with longer times
\* to live.
AC == INSTANCE AddressCache WITH
         Keys <- CacheKeys, mem <- [k \in CacheKeys |-> Visible(k)], reply <- last,
         Verdicts <- VerdictSet
ImplementsAddressCache == AC!Spec

\* The time to live of a verdict is that of its exposure in the configuration it
\* was set under: until then a look-up hits, after it a look-up misses.  At the
\* very instant the backends differ, and a Redis entry with a TTL of zero stays
\* for ever.
HitsFollowTTL ==
    last # None /\ last.op = "get" /\ last.outcome \notin Errors =>
        LET e   == entries[last.key]
            ttl == IF e.verdict.exposure = "SANCTIONED" THEN e.by.sanctionedTtl ELSE e.by.ttl
        IN  /\ last.outcome = "hit" =>
                  /\ e # None /\ last.verdict = e.verdict
                  /\ clock <= e.setAt + ttl \/ (backend = "redis" /\ ttl = 0)
            /\ e # None /\ clock < e.setAt + ttl => last.outcome = "hit"

Rank(decision) ==
    CASE decision = "ALLOW" -> 0 [] decision = "MANUAL_REVIEW" -> 1 [] OTHER -> 2

\* Of two entries decided in the same environment on the same chain, however it is
\* spelled, the one with the higher score is never decided more leniently:
\* whatever the thresholds, their order and their overrides.  A negative score is
\* no score.
DecisionsFollowScores ==
    \A k, l \in CacheKeys :
        /\ entries[k] # None /\ entries[l] # None
        /\ entries[k].by.env = entries[l].by.env
        /\ ToLower[entries[k].of.chain] = ToLower[entries[l].of.chain]
        /\ 0 <= entries[k].verdict.score
        /\ entries[k].verdict.score <= entries[l].verdict.score
        => Rank(entries[k].verdict.decision) <= Rank(entries[l].verdict.decision)
=============================================================================
