------------------------------ MODULE Screening ------------------------------
(***************************************************************************)
(* The synchronous screen path: Service.Screen and finalize of             *)
(* internal/screen/screen.go over the provider that main.go installs when  *)
(* a vendor is configured: an IdempotentProvider around its HTTP provider  *)
(* (internal/vendor/idempotent.go, http_provider.go).                      *)
(*                                                                         *)
(* A member of Calls is one run of Screen, a request goroutine of the REST *)
(* or the gRPC server; the calls interleave at every access to shared      *)
(* state.  A request is a pair <<tx, address>>, the address with its       *)
(* chain.  The cache and the response store go by the texts the code makes *)
(* of these, which distinct requests may share.  The screen id is a fresh  *)
(* UUID per call, so the call itself stands for it.                        *)
(*                                                                         *)
(* The vendor, the cache backend and the database are outside the service: *)
(* the vendor may answer anything in Answers or fail, a store operation    *)
(* may fail wherever the code has an error path, a cache entry may expire  *)
(* at any time, and the process may crash (MaxCrashes bounds how often).   *)
(***************************************************************************)
EXTENDS AddressKeys

CONSTANTS
    Calls,          \* screen calls
    Txs,            \* transaction ids
    Thresholds,     \* the thresholds in force (nothing reloads them at run time)
    Vendor,         \* "chainalysis" or "trm"
    Answers,        \* what the vendor may answer: records [score, exposure]
    MaxCrashes,     \* bound on the number of process crashes
    None            \* no value: a nil, a miss, an absent row

VendorAnswerSet == [score : Int, exposure : VendorExposures]
VerdictSet == [score : Int, exposure : VendorExposures,
               decision : Decisions, cacheHit : BOOLEAN]
Requests == Txs \X Addresses
AlertSet == [screen : Calls, severity : Severities]
EventSet == [screen : Calls, decision : Decisions, source : {"cache", "vendor"}]

ASSUME ScreeningAssumption ==
    /\ Txs \subseteq Texts
    /\ Thresholds \in ThresholdSet
    /\ Answers \subseteq VendorAnswerSet
    /\ MaxCrashes \in Nat
    /\ None \notin VendorAnswerSet /\ None \notin VerdictSet /\ None \notin Requests

VARIABLES
    pc,         \* where each call is
    req,        \* the request of each call: <<tx, address>>
    got,        \* the vendor response a call holds (vresp)
    verdict,    \* the verdict a call is about to persist and return
    cache,      \* the address-risk cache: cache key -> verdict or None
    responses,  \* the MemoryResponseStore: idempotency key -> answer or None
    screens,    \* the kyt_screens rows: call -> verdict or None
    alerts,     \* the alerts opened by finalize: records [screen, severity]
    events,     \* the audit events accepted: records [screen, decision, source]
    told,       \* history: what the vendor answered to each call itself
    faulted,    \* history: calls whose alert or audit write failed
    crashes     \* how often the process has crashed

shared == <<cache, responses, screens, alerts, events>>
vars   == <<pc, req, got, verdict, shared, told, faulted, crashes>>

-----------------------------------------------------------------------------
(* Data.                                                                   *)

AddressOf(r) == r[2]

\* tx:address:chain
IdempotencyKeyOfTx(r) == r[1]               \* faulty: the address is left out
IdempotencyKey(r) == r[1] \o AddressOf(r).address \o AddressOf(r).chain
IdempotencyKeys == {IdempotencyKey(r) : r \in Requests}

\* What Screen makes of a vendor response: a vendor that names no exposure has
\* it derived from the score; a named exposure is taken as it is.
ExposureOf(a, addr) ==
    IF a.exposure = "" THEN ExposureFromScore(Thresholds, a.score, addr.chain)
                       ELSE a.exposure
VerdictOf(a, addr) ==
    [score    |-> a.score,
     exposure |-> ExposureOf(a, addr),
     decision |-> Decide(Thresholds, ExposureOf(a, addr)),
     cacheHit |-> FALSE]

\* The verdict when the vendor cannot be reached or the breaker is open.
Unreachable == [score |-> 0, exposure |-> "UNKNOWN",
                decision |-> DecideVendorUnreachable, cacheHit |-> FALSE]

FromCache(v) == [v EXCEPT !.cacheHit = TRUE]

\* The store keeps the raw body in the vendor's own wire format.  It is read
\* back with the field names risk_score and exposure, whatever the vendor: a
\* TRM body spells the score riskScore, so it reads as zero.
Rehydrate(raw) ==
    [score |-> IF Vendor = "trm" THEN 0 ELSE raw.score, exposure |-> raw.exposure]

\* MemoryResponseStore.Put: a duplicate key is ignored.
PutNothing(store, key, raw) == store                        \* faulty: it forgets
PutOnce(store, key, raw) ==
    IF store[key] # None THEN store ELSE [store EXCEPT ![key] = raw]

\* finalize opens an alert exactly when the decision is not ALLOW.
AlertDue(v) == v.decision # "ALLOW"
AlertFor(c, v) == [screen |-> c, severity |-> SeverityFor(v.exposure)]
EventFor(c, v) == [screen |-> c, decision |-> v.decision,
                   source |-> IF v.cacheHit THEN "cache" ELSE "vendor"]

-----------------------------------------------------------------------------
PCs == {"idle", "cacheGet", "storeGet", "calling", "storePut", "cacheSet",
        "persist", "alert", "emit", "done", "failed", "crashed"}
Ended   == {"done", "failed", "crashed"}
Running == PCs \ (Ended \cup {"idle"})

Init ==
    /\ pc = [c \in Calls |-> "idle"]
    /\ req = [c \in Calls |-> None]
    /\ got = [c \in Calls |-> None]
    /\ verdict = [c \in Calls |-> None]
    /\ cache = [k \in CacheKeys |-> None]
    /\ responses = [k \in IdempotencyKeys |-> None]
    /\ screens = [c \in Calls |-> None]
    /\ alerts = {}
    /\ events = {}
    /\ told = [c \in Calls |-> None]
    /\ faulted = {}
    /\ crashes = 0

Goto(c, from, to) ==
    /\ pc[c] = from
    /\ pc' = [pc EXCEPT ![c] = to]

\* A request that passes validate.
Start(c, r) ==
    /\ Goto(c, "idle", "cacheGet")
    /\ req' = [req EXCEPT ![c] = r]
    /\ UNCHANGED <<got, verdict, shared, told, faulted, crashes>>

\* A request that validate refuses has no effect at all.
Reject(c) ==
    /\ Goto(c, "idle", "failed")
    /\ UNCHANGED <<req, got, verdict, shared, told, faulted, crashes>>

\* What the cache holds under the key of a call's address.
CacheEntry(c) == cache[CacheKey(AddressOf(req[c]))]

\* cache.Get finds an entry: its verdict is persisted and returned as it is.
CacheHit(c) ==
    /\ Goto(c, "cacheGet", "persist")
    /\ CacheEntry(c) # None
    /\ verdict' = [verdict EXCEPT ![c] = FromCache(CacheEntry(c))]
    /\ UNCHANGED <<req, got, shared, told, faulted, crashes>>

\* cache.Get finds nothing, or fails: an error counts as a miss.
CacheMiss(c) ==
    /\ Goto(c, "cacheGet", "storeGet")
    /\ UNCHANGED <<req, got, verdict, shared, told, faulted, crashes>>

\* IdempotentProvider.Screen finds the key in the response store.
ResponseHit(c) ==
    /\ Goto(c, "storeGet", "cacheSet")
    /\ responses[IdempotencyKey(req[c])] # None
    /\ got' = [got EXCEPT ![c] = Rehydrate(responses[IdempotencyKey(req[c])])]
    /\ UNCHANGED <<req, verdict, shared, told, faulted, crashes>>

ResponseMiss(c) ==
    /\ Goto(c, "storeGet", "calling")
    /\ responses[IdempotencyKey(req[c])] = None
    /\ UNCHANGED <<req, got, verdict, shared, told, faulted, crashes>>

\* The inner provider returns an answer.
VendorAnswers(c, a) ==
    /\ Goto(c, "calling", "storePut")
    /\ got' = [got EXCEPT ![c] = a]
    /\ told' = [told EXCEPT ![c] = a]
    /\ UNCHANGED <<req, verdict, shared, faulted, crashes>>

\* Timeout, transport error, status >= 400, undecodable body, breaker open:
\* nothing is stored or cached, and the decision is the fail-safe one.
VendorFailsCached(c) ==                 \* faulty: the outage is cached
    /\ Goto(c, "calling", "persist")
    /\ verdict' = [verdict EXCEPT ![c] = Unreachable]
    /\ cache' = [cache EXCEPT ![CacheKey(AddressOf(req[c]))] = Unreachable]
    /\ UNCHANGED <<req, got, responses, screens, alerts, events, told, faulted, crashes>>
VendorFails(c) ==
    /\ Goto(c, "calling", "persist")
    /\ verdict' = [verdict EXCEPT ![c] = Unreachable]
    /\ UNCHANGED <<req, got, shared, told, faulted, crashes>>

PutResponse(c) ==
    /\ Goto(c, "storePut", "cacheSet")
    /\ responses' = PutOnce(responses, IdempotencyKey(req[c]), got[c])
    /\ UNCHANGED <<req, got, verdict, cache, screens, alerts, events, told,
                   faulted, crashes>>

\* Screen derives exposure and decision, then calls cache.Set, whose error is
\* ignored.
CacheSet(c) ==
    /\ Goto(c, "cacheSet", "persist")
    /\ LET v == VerdictOf(got[c], AddressOf(req[c]))
       IN  /\ verdict' = [verdict EXCEPT ![c] = v]
           /\ \/ cache' = [cache EXCEPT ![CacheKey(AddressOf(req[c]))] = v]
              \/ UNCHANGED cache
    /\ UNCHANGED <<req, got, responses, screens, alerts, events, told, faulted,
                   crashes>>

AfterPersistBlocked(v) == IF v.decision = "BLOCK" THEN "alert" ELSE "emit"     \* faulty
AfterPersist(v) == IF AlertDue(v) THEN "alert" ELSE "emit"

\* finalize: the row first.
Persist(c) ==
    /\ Goto(c, "persist", AfterPersist(verdict[c]))
    /\ screens' = [screens EXCEPT ![c] = verdict[c]]
    /\ UNCHANGED <<req, got, verdict, cache, responses, alerts, events, told,
                   faulted, crashes>>

\* When Put returns an error the caller gets it, and no alert and no audit event
\* follow, even if the row was written and only the reply was lost.
PersistRetried(c) ==                    \* faulty: retries with no bound
    /\ Goto(c, "persist", "cacheGet")
    /\ UNCHANGED <<req, got, verdict, shared, told, faulted, crashes>>
PersistIgnored(c) ==                    \* faulty: carries on without the row
    /\ Goto(c, "persist", AfterPersist(verdict[c]))
    /\ UNCHANGED <<req, got, verdict, shared, told, faulted, crashes>>
PersistFails(c) ==
    /\ Goto(c, "persist", "failed")
    /\ \/ UNCHANGED screens
       \/ screens' = [screens EXCEPT ![c] = verdict[c]]
    /\ UNCHANGED <<req, got, verdict, cache, responses, alerts, events, told,
                   faulted, crashes>>

CreateAlert(c) ==
    /\ Goto(c, "alert", "emit")
    /\ alerts' = alerts \cup {AlertFor(c, verdict[c])}
    /\ UNCHANGED <<req, got, verdict, cache, responses, screens, events, told,
                   faulted, crashes>>

\* The error of alerts.Create is discarded, whether or not the row was written.
CreateAlertFails(c) ==
    /\ Goto(c, "alert", "emit")
    /\ faulted' = faulted \cup {c}
    /\ \/ UNCHANGED alerts
       \/ alerts' = alerts \cup {AlertFor(c, verdict[c])}
    /\ UNCHANGED <<req, got, verdict, cache, responses, screens, events, told, crashes>>

EmitAudit(c) ==
    /\ Goto(c, "emit", "done")
    /\ events' = events \cup {EventFor(c, verdict[c])}
    /\ UNCHANGED <<req, got, verdict, cache, responses, screens, alerts, told,
                   faulted, crashes>>

\* The emitter's queue is full: ErrAuditDropped, discarded.
EmitAuditDropped(c) ==
    /\ Goto(c, "emit", "done")
    /\ faulted' = faulted \cup {c}
    /\ UNCHANGED <<req, got, verdict, shared, told, crashes>>

\* A cached entry passes its TTL, or is deleted by a re-classification.
CacheDrop(k) ==
    /\ cache[k] # None
    /\ cache' = [cache EXCEPT ![k] = None]
    /\ UNCHANGED <<pc, req, got, verdict, responses, screens, alerts, events,
                   told, faulted, crashes>>

\* The process dies: running calls never answer, and the response store, which
\* main.go keeps in memory, is empty after the restart.  Cache, rows and alerts are
\* outside the process; events says what the emitter accepted, not what it sent.
Crash ==
    /\ crashes < MaxCrashes
    /\ crashes' = crashes + 1
    /\ pc' = [c \in Calls |-> IF pc[c] \in Running THEN "crashed" ELSE pc[c]]
    /\ responses' = [k \in IdempotencyKeys |-> None]
    /\ UNCHANGED <<req, got, verdict, cache, screens, alerts, events, told, faulted>>

\* All calls have ended.
Finished ==
    /\ \A c \in Calls : pc[c] \in Ended
    /\ UNCHANGED vars

\* What the goroutine of a call does once it is started.
CallStep(c) ==
    \/ CacheHit(c) \/ CacheMiss(c)
    \/ ResponseHit(c) \/ ResponseMiss(c)
    \/ (\E a \in Answers : VendorAnswers(c, a)) \/ VendorFails(c)
    \/ PutResponse(c) \/ CacheSet(c)
    \/ Persist(c) \/ PersistFails(c)
    \/ CreateAlert(c) \/ CreateAlertFails(c)
    \/ EmitAudit(c) \/ EmitAuditDropped(c)

Arrive ==
    \/ \E c \in Calls, r \in Requests : Start(c, r)
    \/ \E c \in Calls : Reject(c)

Next ==
    \/ Arrive
    \/ \E c \in Calls : CallStep(c)
    \/ \E k \in CacheKeys : CacheDrop(k)
    \/ Crash
    \/ Finished

Spec == Init /\ [][Next]_vars

-----------------------------------------------------------------------------
(* Properties.                                                             *)

TypeOK ==
    /\ pc \in [Calls -> PCs]
    /\ req \in [Calls -> Requests \cup {None}]
    /\ got \in [Calls -> VendorAnswerSet \cup {None}]
    /\ verdict \in [Calls -> VerdictSet \cup {None}]
    /\ cache \in [CacheKeys -> VerdictSet \cup {None}]
    /\ responses \in [IdempotencyKeys -> VendorAnswerSet \cup {None}]
    /\ screens \in [Calls -> VerdictSet \cup {None}]
    /\ alerts \subseteq AlertSet
    /\ events \subseteq EventSet
    /\ told \in [Calls -> VendorAnswerSet \cup {None}]
    /\ faulted \subseteq Calls
    /\ crashes \in 0..MaxCrashes

\* The vendor answered a call with the idempotency key of request r, and reading
\* that answer back makes verdict v of r.
ReadBack(v, r) ==
    \E d \in Calls : /\ told[d] # None
                     /\ IdempotencyKey(req[d]) = IdempotencyKey(r)
                     /\ v = VerdictOf(Rehydrate(told[d]), AddressOf(r))

\* A call whose address has the cache key k came to verdict v by the vendor's answer
\* to it, or by one read back.
CachedFor(v, k) ==
    \E s \in Calls : /\ req[s] # None /\ CacheKey(AddressOf(req[s])) = k
                     /\ \/ told[s] # None /\ v = VerdictOf(told[s], AddressOf(req[s]))
                        \/ ReadBack(v, req[s])

\* Where a verdict may come from: the vendor's answer to this call; if it gave
\* none, an answer to a call with the same idempotency key, or none at all and the
\* fail-safe verdict; on a cache hit, a call with the same cache key.
Vouched(c, v) ==
    IF v.cacheHit
      THEN /\ told[c] = None
           /\ CachedFor([v EXCEPT !.cacheHit = FALSE], CacheKey(AddressOf(req[c])))
      ELSE \/ told[c] # None /\ v = VerdictOf(told[c], AddressOf(req[c]))
           \/ told[c] = None /\ (v = Unreachable \/ ReadBack(v, req[c]))

\* Only successful vendor responses are cached, under the key of the address they were
\* asked for: the fail-safe verdict of an outage is never served to later calls.
CacheHoldsAnswers ==
    \A k \in CacheKeys : cache[k] # None => CachedFor(cache[k], k)

\* Every persisted row and every cache entry has such an origin, however the calls
\* interleave, whatever fails, and whichever keys coincide: an answer received is
\* never replaced by the fail-safe verdict or by a stale one, a replayed answer is
\* one the vendor gave under that key, and reading back happens once.
VerdictsAreVouched ==
    /\ \A c \in Calls : screens[c] # None => Vouched(c, screens[c])
    /\ CacheHoldsAnswers

\* The vendor told some call about address a, or about request r, what makes verdict
\* v, as it was given or as it is read back from the response store.
AnswerAbout(v, a) ==
    \E d \in Calls :
        /\ told[d] # None /\ AddressOf(req[d]) = a
        /\ v \in {VerdictOf(told[d], a), VerdictOf(Rehydrate(told[d]), a)}
AnswerTo(v, r) ==
    \E d \in Calls :
        /\ told[d] # None /\ req[d] = r
        /\ v \in {VerdictOf(told[d], AddressOf(r)), VerdictOf(Rehydrate(told[d]), AddressOf(r))}

\* README.md:90: vendor calls are idempotent per (tx_id, address, chain), and :80:
\* responses are cached per (address, chain).  No answer about one address reaches
\* the row or the cache entry of another, and what is replayed was said of the same
\* transaction: so with keys that are unique (KeysApart), not with all that
\* validate accepts.
AnswersStayApart ==
    /\ \A c \in Calls : screens[c] # None =>
          IF screens[c].cacheHit
            THEN AnswerAbout([screens[c] EXCEPT !.cacheHit = FALSE], AddressOf(req[c]))
            ELSE screens[c] = Unreachable \/ AnswerTo(screens[c], req[c])
    /\ \A a \in Addresses :
          cache[CacheKey(a)] # None => AnswerAbout(cache[CacheKey(a)], a)

\* Distinct requests have distinct idempotency keys, distinct addresses distinct cache
\* keys.  It is enough that no transaction id and no chain holds a colon
\* (ScreeningProofs!ColonFreeKeysApart).
KeysApart ==
    /\ \A r, s \in Requests : IdempotencyKey(r) = IdempotencyKey(s) => r = s
    /\ \A a, b \in Addresses : CacheKey(a) = CacheKey(b) => a = b

\* A recorded ALLOW rests on an answer about that address which itself decides
\* ALLOW: the service never allows when the vendor has not cleared the address.
AllowIsVouched ==
    \A c \in Calls : screens[c] # None /\ screens[c].decision = "ALLOW" =>
        \E d \in Calls :
            /\ told[d] # None
            /\ AddressOf(req[d]) = AddressOf(req[c])
            /\ VerdictOf(told[d], AddressOf(req[d])).decision = "ALLOW"

\* The abstract specification: what is on record for each call, and the addresses
\* about which the vendor has given some call an answer that decides ALLOW.
Answered == [c \in Calls |-> IF screens[c] = None THEN None
                             ELSE <<AddressOf(req[c]), screens[c].decision>>]
Cleared == {a \in Addresses : \E d \in Calls :
               /\ told[d] # None
               /\ AddressOf(req[d]) = a
               /\ Decide(Thresholds, ExposureOf(told[d], a)) = "ALLOW"}

FS == INSTANCE FailSafe WITH cleared <- Cleared, answer <- Answered

\* The screen path implements it: a row, once written, is never changed, and at
\* the moment it is written an ALLOW rests on an answer that cleared the address,
\* however the calls, their replays, the cache and the failures interleave.
ImplementsFailSafe == FS!Spec

\* finalize writes the row before what refers to it: an alert or an event has
\* its row and agrees with it, and a row that needs no alert has none.
FollowUpsAgree ==
    /\ \A al \in alerts :
          /\ screens[al.screen] # None
          /\ screens[al.screen].decision # "ALLOW"
          /\ al.severity = SeverityFor(screens[al.screen].exposure)
    /\ \A ev \in events :
          /\ screens[ev.screen] # None
          /\ ev.decision = screens[ev.screen].decision
          /\ (ev.source = "cache") = screens[ev.screen].cacheHit

\* A call that returns a verdict has its audit event, and its alert when the
\* verdict is not ALLOW, unless one of those two writes failed.
FollowUpsComplete ==
    \A c \in Calls : pc[c] = "done" /\ c \notin faulted =>
        /\ \E ev \in events : ev.screen = c
        /\ screens[c].decision # "ALLOW" => \E al \in alerts : al.screen = c

\* The vendor is asked again about a transaction it has answered for only while
\* that answer is on its way to the response store, or when a crash emptied it.
RequeryOnlyInFlight ==
    [][\A c, d \in Calls :
          pc[c] = "storeGet" /\ pc'[c] = "calling" /\ told[d] # None /\ req[d] = req[c] =>
              pc[d] = "storePut" \/ crashes > 0]_vars

\* Every call that is started ends, with a response, an error or the process.
StartedCallsEnd == \A c \in Calls : pc[c] \in Running ~> pc[c] \in Ended
=============================================================================
