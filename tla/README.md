# A TLA+ model of the KYT screening service

This directory holds TLA+ specifications of the service in `src/`, TLC
configurations that check them on small instances, and TLAPS proofs about them.
Paths below are relative to `src/`.

## The system

The service screens the counterparty address of a crypto transaction: it asks a
KYT vendor for a risk score, turns the score into `ALLOW`, `MANUAL_REVIEW` or
`BLOCK`, persists the verdict, opens an alert when it is not `ALLOW`, and emits
an audit event.  Vendors also call back with webhooks when they re-classify an
address.

| Component | State | Operations | Hard part | Correct when |
|---|---|---|---|---|
| Decision logic, `internal/decision` | thresholds under a RWMutex | `ExposureFromScore`, `Decide`, `SeverityFor`, `ReloadFromEnv` | order of the tests, boundary scores | nothing but a clean exposure allows |
| Screen path, `internal/screen/screen.go` | none of its own | `Screen`, `finalize` | five stores in a row with no transaction, each with its own failure policy | every verdict has an origin; row, alert and event agree |
| Idempotent provider, `internal/vendor/idempotent.go` | in-memory response store | `Screen`, `Get`, `Put` | look-up and put are apart; raw bodies are decoded again | a retry gets the answer of its own transaction |
| HTTP providers, `http_provider.go` | the breaker | `Screen` | timeouts, status codes | every failure is an error, never an answer |
| Circuit breaker, `circuit.go` | state, failures, openedAt, allowedOnce | `Allow`, `State`, `RecordSuccess`, `RecordFailure` | results come in any order | at most one probe a window; it never refuses for ever |
| Alert service, `internal/alert` | `kyt_alerts` | `Create`, `Assign`, `Close` | read, edit and whole-record write without a lock | rows stay consistent; an ended close is final for later requests |
| Audit emitter, `internal/audit` | channel, counters, worker | `Emit`, `run`, `Close` | full channel, failing sink, shutdown | no event vanishes without a count; no send after `Close` |
| Webhook processor, `internal/webhook` | set of seen event ids | `Ingest` | duplicates, failures halfway, calls in flight | one alert an event; old verdicts are not trusted |
| Review trigger, `internal/review` | none | `TriggerReview` | runs after the response, concurrently with calls | each row allowed earlier gets an alert |
| Risk cache, `memory_cache.go`, `internal/store/*cache.go` | verdicts with TTL | `Get`, `Set`, `Delete` | expiry, three backends, restarts with other settings | it is a cache; an entry lives as long as its exposure says |
| Stores, `internal/store/pg_*.go` | `kyt_screens`, `kyt_alerts` | insert, list, update | a failed statement may have taken effect | part of the components that use them |
| Migrations, `internal/store/migrate.go`, `cmd/migrate` | `schema_migrations` | `Migrate`, `MigrateDown` | several instances at once, failure halfway | what is recorded is there; nobody waits for ever |
| Wiring, `cmd/kyt/main.go` | none | `run`, `buildServices` | order of the shutdown | the process ends; no call loses its database |
| REST and gRPC servers, `internal/api`, `internal/grpcserver` | listeners | accept, stop | graceful stops with and without a limit | modelled as far as the shutdown needs them |
| Metrics, tracing, generated code | | | | not modelled: reporting and transport |

How they meet: a REST or gRPC request is a goroutine that calls `Service.Screen`,
which reads the cache, asks the provider (response store, then breaker, then
vendor), sets the cache, writes the row, calls the alert service and hands an
event to the emitter's channel.  A webhook request is a goroutine that deletes the
cache entry, calls the alert service and starts a review goroutine, which lists
the rows and calls the alert service again.  The emitter's worker is one more
goroutine.  Only single accesses are locked; nothing spans two of them.

## The modules

| Module | Models | Checked by |
|---|---|---|
| `Decision` | the pure part of `decision.go`, as operators on a threshold record | through `Screening` and `RiskCache` |
| `ThresholdEnv` | extends `Decision` with the thresholds as the environment gives them | through `RiskCache` |
| `AddressKeys` | extends `Decision` with what an (address, chain) pair is, and its cache key | through `Screening` and `RiskCache` |
| `Screening` | `Service.Screen`, `finalize`, the idempotent provider, cache, crash and restart | `MCScreening` |
| `Reclassification` | extends `Screening` with `Processor.Ingest` and `TriggerReview` over the same cache and rows | `MCReclassification` |
| `FailSafe` | abstract: what the screen path promises the transaction flow | `Screening!ImplementsFailSafe` |
| `RiskCache` | the three cache backends, TTLs, restarts in another environment | `MCRiskCache` |
| `AddressCache` | abstract: what any address cache promises | `RiskCache!ImplementsAddressCache` |
| `CircuitBreaker` | `circuit.go` under concurrent calls | its own cfg |
| `AlertService` | `alert.go` over either store | its own cfg |
| `AuditEmitter` | `audit.go` | through `Shutdown` |
| `Shutdown` | extends `AuditEmitter` with `run` of `main.go`, the servers, their calls and the sinks | its own cfg |
| `Migrations` | `Migrate` and `MigrateDown` on one database, statement by statement | `MCMigrations` |
| `*Proofs` | theorems about the module they are named after | `tlapm` |

Conventions.  An action is one access to state that other goroutines share, together
with what the code does up to the next one; its name is the function or the branch
of it.  A variable is named after the field or the table.  Variables marked *history*
in the module are observers that no guard reads.  A definition whose name is that of
the one below it with a suffix and whose comment begins with *faulty* is a plausible
mistake in that place; each property was seen to fail with one of them in its place,
and none of them is part of a specification.

Two abstract specifications say what is promised apart from how.  `FailSafe`: a call
is answered at most once, the answer stands, and ALLOW is answered only for an
address that the vendor has cleared.  The refinement maps the rows to the answers
and the vendor's answers so far to the cleared addresses.  `AddressCache`: a hit is
what was set last under the key and not deleted since; a cache may lose an entry at any time, but
a lost entry never comes back by itself.  The refinement maps an entry to its verdict
while it is live and to none after.  `Screening` uses the cache in that sense: its
`CacheDrop` is `Lose` of `AddressCache`.

### Screening

`pc[c]` walks a call through `cacheGet` (`screen.go:145`), `storeGet`
(`idempotent.go:106`), `calling` (`http_provider.go:67`), `storePut`
(`idempotent.go:152`), `cacheSet` (`screen.go:178`), `persist` (`:215`), `alert`
(`:222`) and `emit` (`:232`).  A cache hit and a vendor failure go straight to
`persist`.  Where the code ignores an error the action has a variant without the
effect; where a statement may have taken effect although its reply was lost, both
outcomes are there.  The vendor is external: any member of `Answers`, or a failure,
which stands for a timeout, a transport error, a status of 400 or more, a body that
does not decode and an open breaker alike, since `Screen` treats them alike.
`CacheDrop` is the expiry of an entry, at any moment, which covers the TTLs of all
three backends.  `Crash` ends the running calls and empties the response store,
which `main.go` keeps in memory.

The data is cut down to what the properties distinguish; amount and source address
play no part in a verdict.  What cannot be cut is how the keys are made.  The response
store goes by `tx:address:chain` (`vendor.go:47`), the memory and Redis caches by
`chain:address` (`memory_cache.go:24`), and `validate` refuses blank fields only, so that
a transaction id, an address or a chain may hold colons of its own.  `AddressKeys`
therefore takes a text to be the sequence of its parts without colons, and joining two
texts with a colon to be appending one to the other: two requests may have one
`IdempotencyKey`, two addresses one `CacheKey`.  (The two columns that are the key in Postgres are
not joined, but no row ever gets there, see `PgNeverCaches`.)

`VerdictsAreVouched` holds whichever keys coincide: an answer comes from this call, from one
with the same idempotency key, or from the cache entry of a call with the same cache key.
`AnswersStayApart` is what the documentation means by it, that no answer about one address
is given for another.  It needs `KeysApart`, that distinct requests have distinct keys;
nothing in the code enforces this, and `key_collision` shows what happens without it.
`ColonFreeKeysApart` says what would be enough: that no transaction id and no chain holds a
colon.  For an idempotency key it is not enough that the transaction ids do not.

`Rehydrate` is what reading a stored raw body back does: with Chainalysis the
identity on score and exposure; with TRM, whose bodies spell the score `riskScore`,
a score of zero.  `VerdictsAreVouched` follows answers through it, and so holds for
either vendor; that an `ALLOW` rests on an answer that allows (`AllowIsVouched`,
`ImplementsFailSafe`) does not hold for TRM.

### Reclassification

The vendor taints an address (`VendorReclassifies`), after which its answers for that
address no longer decide `ALLOW`, and delivers the event in any number of requests.
`HookFirst` is the critical section that marks the id; `HookDelete` and `HookAlert`
are the two effects with their failures; the review is a process of its own.
The history `flying` keeps which calls ran at the deletion, `late` which started after
the webhook was accepted, `settled` which rows were there.
`HookDelete` deletes the entry under the cache key of the address, whosever it is.
`EventId` maps an event to its id, which two events share if they come without one and agree in
vendor, chain, address and exposure.  `KCrash` also loses the set of seen ids.  The signature check is `HookRefused`: it may
refuse any request, and has no effect.

### RiskCache and ThresholdEnv

An entry is found under a cache key, and keeps the address it was set for, the verdict, the
configuration it was decided under, the time it was
set and the time it expires.  `Set` computes the verdict from the score as `Screen`
does, with the thresholds that `ReloadFromEnv` takes from the environment: defaults
for what is absent or no number, overrides by chain in any spelling, an unsafe
decision for unknown exposure replaced.  `TTLFor` picks one of the two TTLs by the
exposure; `ExpiryAt` and `Live` hold the differences between the backends: a memory
entry is served at the instant of its expiry, a row is not, and a Redis TTL of zero
means no expiry.  `Restart` changes the configuration, and empties the memory backend
only.  Redis and Postgres are external: Redis may drop a key at any time, an operation
that fails may have taken effect, and an `INSERT` without a value for a primary key
column that has no default is refused (`SetRefused`).  The adapter of `main.go`
(`storeCacheAdapter`) copies the fields and passes every outcome through.

### CircuitBreaker, AlertService

In `CircuitBreaker` each locked method is one step and a vendor call is the time
between `Allow` and the recording of its result.  `age` stands for
`time.Since(openedAt)` and stops at `OpenFor`; `failures` stops at `Threshold`: the
code compares them with nothing else.

In `AlertService` a request reads, keeps an edited copy, and later writes the whole
record.  The closing time is identified with the request that took it.  The histories
`ended` and `overlapped` keep which requests were over when one read, and which were
overlapped by another edit of the same alert.

### AuditEmitter and Shutdown

In `AuditEmitter` the channel is a sequence, and `select` between two ready cases
takes either.  A send that fails may have reached the sink.  The history `sent` is the
sequence of the events passed to `Emit`, with which the counters and the sink are compared.

`Shutdown` drives it.  `phase` walks `run` through `main.go`: serving (`:90`), the
gRPC server's stop (`:95` or `:98`), the REST server's (`:96`, `:101`), the database
closed and then the sink (`cleanup`, `:61`), the emitter closed (`:58`), exit.  Of a
call only the last accesses are kept, its insert and its event; a member of `Events`
is the call as well as its event.  `grace` is the ten seconds, which begin before the
gRPC server's stop after a signal, and after it when a server has failed.  `opened` is
what is still open; `reached` remembers whether the sink was open when the worker's
send began: such a send may get through while the sink closes, a later one fails.
For Kafka that is generous, since its writer flushes what it holds when it closes, and
for the memory sink nothing is ever closed.

### Migrations

Each run is a call of `Migrate` or `MigrateDown`, of whatever process.  Each statement
that sees or changes the database is an action: the look-up of a version, the script,
the insert or delete of the record, the commit.  A run's own changes are visible to
the others when it commits; `lock` and `wrote` are what its transaction holds until
then.  `Waits` says when the next statement of a run meets a lock or an unwritten row of
another; on the instance of `migrations` it is true in exactly the states in which the
run, left alone, could not go on.  A script takes its locks in one step: `NoDeadlock` is about the order
of scripts, rows and commits, which is the code's, not about the locks inside of one
statement, which are Postgres's own.  Postgres is external and is modelled by its documented behaviour: creating or
dropping a table locks it and those it refers to, a second row of a key waits for the
first one's transaction and is then refused, a drop of a table that others refer to is
refused.  Each migration is taken to create one table at most, as those of the
repository do.  `Abort` is a failed statement, the time-out of `cmd/migrate` and
the death of the process alike.

## The runs

| Run | Asks | States, time (2 workers) |
|---|---|---|
| `screening` | where verdicts come from and whom they are about, what refers to a row, when the vendor is asked again | 3.4 million, 155 s |
| `reclassification` | what a webhook guarantees about later and earlier verdicts, and about the cache | 5.2 million, 125 s |
| `reclassification_live` | calls and reviews end; the screen path implements `FailSafe`, webhooks and all | 334 thousand, 95 s |
| `circuit_breaker` | states, probes, recovery | 3 thousand |
| `alerts` | lifecycle under racing requests, atomicity without a race | 1.4 million, 16 s |
| `shutdown` | accounting and order of events, order of the end, exit | 106 thousand, 15 s |
| `risk_cache` | times to live and decisions over a restart; each backend implements `AddressCache` | 81 thousand, 86 s |
| `migrations` | concurrent runs up and down, failures, locks, deadlock | 66 thousand, 11 s |
| `key_collision`, `trm_retry`, `stale_hit`, `hook_duplicate` | a counterexample each, see below | |

**Bounds.**  `screening` has three calls, two transactions on two addresses and one
crash: two calls can share a transaction, an address or nothing, with a third to
observe the result, which is the most any of its properties relates.  Their keys are
distinct, as `AnswersStayApart` requires; what holds when they are not is
proved (`VerdictsVouched`).  `key_collision` has three
calls in one transaction on three addresses, the first of which shares its
idempotency key with the second and its cache key with the third.  Thresholds
are 50 and 90; the two answers are one that blocks by its score and one that a named
exposure allows although its score is above a threshold.  `reclassification` has one
address, two calls, two transactions, two deliveries of one event and one crash: a
delivery and its duplicate, a call in flight and a later one.
`reclassification_live` has no crash, one transaction and one delivery: a temporal
property costs more to check, and one review over two rows is all it speaks of.
`circuit_breaker` has four callers, a threshold of three and a window of three ticks,
so that late results can outnumber the threshold.  `alerts` has three requests on two
alerts: an overwritten close, and one more reader.  `shutdown` has two REST calls and
a gRPC call on a channel of two, with each of the three sinks: overflow, an event in
the worker's hand and one in the channel when the sink closes, and a call that outlives
its server.  `risk_cache` has one chain in two spellings, an address in each, a third address with
the cache key of the first, the scores
-1 (none), 55 and 90 (the default block threshold itself), two environments with TTLs of
zero, one and two, a clock that stops at three and one restart: an entry outlives the
restart, is served under the other environment, and expires.  `migrations` has three
runs of either kind over three migrations, the third of which refers to the second:
two that race, with a third to find what they left.  Each call, request and event
happens once, which keeps the instances finite; `MaxCrashes`, `MaxRestarts` and
`MaxClock` bound the rest.

Symmetry (permutations of calls, transactions, addresses and deliveries, which no
definition tells apart) is used in runs without liveness properties only.

**Fairness.**  `KFairSpec` lets a started call and a started review run on: the vendor
client has a timeout, no step waits for a lock, and the database is assumed to answer
or fail, since its statements carry no deadline.  It does not assume that anybody
calls, that a delivery comes or continues, or that time passes.  The breaker's
`FairSpec` assumes that time passes, that vendor calls return, and that requests
keep coming; it does not assume that the vendor recovers, `ClosesAfterRecovery` is
about what happens if it does.  `SFairSpec` of `Shutdown` assumes that calls end, that
the worker goes on (a send is limited to five seconds), that the ten seconds pass and
that `run` goes on; not that a call or a signal comes.  `FairSpec` of `Migrations`
assumes that a statement which need not wait for a lock is answered, and no failure:
the locks alone must not keep a run from its end.

## What does not hold

Four runs end in a counterexample, each against a line of the repository:

- `key_collision`: an address or a chain that holds a colon can share a key with another,
  and the vendor's answer about the one is then recorded for the other, which it was
  never asked about (`vendor.go:47`, `memory_cache.go:24`; `README.md:80`, `:90`).
- `trm_retry`: with TRM, a retry of a blocked transaction is recorded as `ALLOW`
  (`idempotent.go:109`; `README.md:90`).
- `stale_hit`: a call in flight puts the old verdict back after the webhook deleted it
  (`screen.go:178`; `PROJECT_PLAN.md:114`).
- `hook_duplicate`: a webhook that failed halfway is dropped as a duplicate when it is
  delivered again (`webhook.go:135`; `PROJECT_PLAN.md:114`).

Other statements of the comments do not hold either; no run is spent on them, the
properties that pass and the theorems say what holds in their place:

- A late success closes the breaker within its window (`circuit.go:85`, against the
  comment at `:19`).
- A stale copy overwrites a closed alert (`alert.go:132`, against `:164`).
  `EndedCloseHolds` says how old a copy must be for that, and `UnracedIsAtomic` that it
  takes two requests at the same time.
- `Close` leaves queued events behind (`audit.go:89`, against `:116`), and at the end of
  the process the sink is closed before: `AtMostOneLate` says that at most one
  of the events still queued gets through, `EveryEventCounted` where the rest is.
- A retry may query the vendor again (`README.md:91`): `RequeryOnlyInFlight` says when.
- A verdict that is not `ALLOW` may lack its alert: `FollowUpsComplete` says that only a
  failed write explains it.
- After a webhook an `ALLOW` may still be recorded: `LateAllowIsOld` says on what.  It may
  also be in the cache again: `StaleEntriesExplained` names the three ways it got there: a
  call that was running when the entry was deleted; at any later time, a retry of an
  old transaction, which the response store answers with what the vendor has withdrawn
  and `Screen` then caches for everybody; and a call about another address with the same
  cache key.  TLC finds the first two taken in `reclassification`, whose one address
  leaves no room for the third.
- After a restart an event delivered again opens a second alert (`webhook.go:98`, against
  `PROJECT_PLAN.md:115`): `OneAlertPerEventAndProcess` is about one life of the process.
  Of two events without an id that agree in vendor, chain, address and exposure the second
  is dropped as a duplicate, however much later it comes (`webhook.go:127`, against `:114`):
  what is said of events is said of ids.
- `UNKNOWN_DECISION=block`, spelled as it is documented, is taken for `MANUAL_REVIEW`
  (`decision.go:78`, against `README.md:216`): `TypeOK` of `RiskCache` says only that the
  decision is a safe one.
- Without Redis nothing is ever cached (against `README.md:80`, `:205`): the `INSERT` of the Postgres
  cache names no `id` (`pg_cache.go:76`), which migration 0001 declares as a primary key
  without a default, so that every row is refused and the error discarded (`PgNeverCaches`).
- A `Migrate` and a `MigrateDown` at the same time may leave a hole in the list of
  migrations applied: `HolesNeedOverlap` says that nothing else does, `MigrateCompletes`
  that the next `Migrate` fills it.

## What is proved

Every theorem holds for all values of the constants under the assumptions named in the
modules, which fix the types of the parameters and that `None` is none of them.

- **Screening.**  `TypeCorrect`; `VerdictsVouched`, for every vendor and whatever keys
  coincide; `AnswersApart` under `KeysApart`, which `ColonFreeKeysApart` derives from
  the absence of colons in transaction ids and chains; `AllowVouched` and
  `FailSafeImplemented` under `Vendor # "trm" /\ KeysApart`.  `key_collision` and `trm_retry` show
  that the conditions are needed: only with unique keys is what a store returns about the address
  asked for, and only with another vendor is it read back as it was (`RehydrateExact`).
  `FollowUpsHold`, `FollowUpsAllThere` and `NoNeedlessRequery`.  The
  invariant behind those about verdicts is `Origins`: what a call holds (`got`), is about to persist
  (`verdict`) or has persisted, and what the response store and the cache hold, each goes
  back to an answer in the history `told`.  None of them is inductive alone, since
  a row's origin is that of the verdict the call carried, which may be that of a cache
  entry another call set.  That the evidence persists is a lemma of its own (`NextGrows`):
  requests and answers once recorded are never changed, so a step has to justify only what
  it writes.  `FailSafeImplemented` maps each step to an answer, to the clearing of
  addresses or to a stutter, and takes from `Origins` that an `ALLOW` being written is
  backed by a cleared address.  The other three rest on invariants that tie each stage of a
  call to what it has written (`Followed`, `Stored`).
- **Reclassification.**  A webhook acts on the screen path as an expiring cache does,
  so that `KSpec => Spec` (`ScreeningIsKept`): every theorem about `Screening` holds with
  webhooks as well, `FailSafeUnderWebhooks` among them.  `WebhookTypeCorrect`; `OneAlert`,
  from `MarkedOnce`: of the deliveries of one event at most one has got past the set of
  seen ids, until a restart; `LateAllow`, from `LateCallsTold`: what the vendor tells a call
  that began after the webhook does not clear the address; `StaleEntries`, from
  `LaterAnswersWarn`: a running call that was not running at the deletion holds no answer
  that allows, so that what it puts in the cache is an `ALLOW` only if it is a replay;
  `ReviewIsComplete`, from `Covered`: a row to be reviewed is still to do, has its alert or
  its failure.  All but `FailSafeUnderWebhooks`, which is under the conditions of
  `FailSafeImplemented`, hold for TRM as well and for any keys.
- **RiskCache.**  `CacheTypeCorrect`, `HitsFollow`, `HigherScoresStricter` and
  `AddressCacheImplemented`.  The invariant `CacheInv` says of every entry how it was made
  (`Made`: its verdict from its score and its configuration, its expiry from its TTL) and
  what the last look-up saw (`Answered`).  `HigherScoresStricter` rests on `Monotone`, a
  lemma about `Decide` for all thresholds and all overrides, in any order.  `AllowedExactly`
  says which scores are allowed, for any thresholds, and that nothing but `CLEAN` is;
  `StricterThresholds` that lowering the thresholds in force never lets more pass.  (What is
  in force matters: lowering an override to zero takes it away.)  `PgNeverCaches` says that
  the Postgres cache stays empty.
- **CircuitBreaker.**  `BreakerTypeCorrect`, `ClosedIffBelow`, `ProbeInFlight`,
  `AtMostOneProbe`.  The invariant relates the probe flag, the probes in flight and the
  count of probes of the current window, state by state.
- **AlertService.**  `AlertTypeCorrect`, `ClosedByItsRequest`, `NoReopening`,
  `EndedCloseIsFinal`, `UnracedRequestsAreAtomic`.  The invariant adds what holds of copies
  not yet written, and that no request which had ended when another read is the closer of
  the row that other one is about to overwrite.  For the last theorem `SoleInv` adds that a
  request nobody overlapped is the only editor of its alert, and that its copy is the edit
  of the row as it still is.
- **AuditEmitter and Shutdown.**  The emitter's `EmitterTypeCorrect`, `AllCounted`,
  `SinkSeesInOrder` and
  `SilentAfterClose` hold for any use of it; the process is one (`ProcessIsEmitter`,
  `SSpec => Spec`), so that they hold to the end of it (`AllCountedToTheEnd`,
  `InOrderToTheEnd`, `SilentToTheEnd`).  The order of the sink is not inductive: `Ordered`
  extends it to what the worker holds and what is queued, each of which comes after all that
  is before it in the order of `sent`.  `StoresAreClosedLast` follows from the order of
  the phases (`EndInOrder`), `OneLateAtMost` from a bound on what was sunk since the sink
  was closed, which counts the send in progress (`LateBound`).
- **Migrations.**  `MigrationsTypeCorrect`, `RecordedExist`, `MigrateIsComplete`,
  `NoHoleWithoutOverlap`, `MigrationsDoNotDeadlock`, for any number of runs and migrations.  That recorded tables exist
  is not inductive: a commit disturbs it unless the locks have kept the others away.  `Inv`
  adds where a run may be with which lock (`Placed`), that an exclusive lock is alone on its
  table (`LocksHold`), that a dropped table's record goes with it (`DropsUnrecord`), what a
  run has passed (`PassedRecorded`), and what runs at the same time (`OneKind`).
  Freedom from deadlock, which the prover cannot be told as `ENABLED`, is stated with
  `Waits`: a run that waits in its script waits for one that is past its own
  (`WaitsForLater`), and one that waits for a row waits for a transaction that has written
  it and has only to commit, so that no circle of waiting runs can close.

Only model-checked are the liveness properties, which are beyond the prover:
`StartedCallsEnd`, `ReviewsEnd`, `ClosesAfterRecovery`, `QueueDrains`, `ShutdownEnds`
and `RunsEnd`.

## What is not modelled

The limits of what the runs say: `DecisionsFollowScores` compares verdicts reached in one
environment: after a restart under other settings the cache may serve a milder one than
the settings in force would give.  The Postgres cache is never filled (`PgNeverCaches`), so that
`HitsFollowTTL` and `ImplementsAddressCache` are empty for it, and the translation of its
expiry shows in no run.  `Shutdown` follows no review goroutines, which `run` does not wait
for: a review may still be listing when the database is closed, and its alerts are then
among `reviewFaults` of `Reclassification` at best.

Formats (JSON, protobuf, SQL, Kafka), signatures, the mapping of errors to status codes
(a request that fails validation is answered as an internal error, a webhook that fails in
the database as a bad request), metrics and tracing: no state depends on them.  Generated
code.  Connection pools, and the parsing of durations and numbers in the store's
configuration.  `HealthChecker`, `PGScreenStore.Get` and a later `ReloadFromEnv`, which
nothing calls.  Negative TTLs, which the configuration admits: `RiskCache` takes TTLs to be
natural numbers.  The widths and conversions of the gRPC messages.  The DB-less development mode, in which the mock provider answers without
a response store and rows are lost in a restart.  Source address and amount.

## Plan

The modules above were written in the order `Decision`, `Screening` with `AddressKeys`, `CircuitBreaker`,
`AlertService`, `AuditEmitter`, `Reclassification`, `FailSafe`, `RiskCache` with
`ThresholdEnv` and `AddressCache`, `Shutdown`, `Migrations`, each with its proofs.  What
is left is transport: the vendors' wire formats beyond the field names that a replay
depends on, and the answers of the two servers to each error.
