-------------------------- MODULE Reclassification --------------------------
(***************************************************************************)
(* The webhook path composed with the screen path: Processor.Ingest of     *)
(* internal/webhook/webhook.go, the review of already allowed flows in     *)
(* internal/review/review.go, and the screen calls of Screening, over the  *)
(* same cache, the same screens and the same vendor.                       *)
(*                                                                         *)
(* The vendor re-classifies an address for the worse and says so in an     *)
(* event, which it may deliver late, again, or several times at once: a    *)
(* member of Deliveries is one HTTP request.  From then on the vendor      *)
(* answers screens of that address accordingly.  Each request, and each    *)
(* review it starts, is a goroutine.                                       *)
(***************************************************************************)
EXTENDS Screening

CONSTANTS
    Deliveries,     \* webhook requests
    HookEvents,     \* re-classification events
    EventAddress,   \* [HookEvents -> Addresses]
    EventId         \* the event_id of each, or what Ingest makes up for it

ASSUME HookAssumption == EventAddress \in [HookEvents -> Addresses]

VARIABLES
    tainted,        \* external: the addresses the vendor has re-classified
    hpc,            \* where each webhook request is
    hook,           \* the event a request delivers
    seen,           \* Processor.seen: event ids already received
    hookAlerts,     \* the alerts opened by Ingest, by request
    rpc,            \* where the review started by a request is
    todo,           \* the rows a review has yet to open alerts for
    reviewAlerts,   \* the alerts opened by reviews: <<request, screen>>
    reviewFaults,   \* history: those that could not be opened
    flying,         \* history: the calls running when a request deleted its entry
    settled,        \* history: the rows there were when a request was accepted
    late            \* history: calls started after an accepted webhook for their address

hookVars == <<tainted, hpc, hook, seen, hookAlerts, rpc, todo, reviewAlerts, reviewFaults>>
history  == <<flying, settled, late>>
allVars  == <<vars, hookVars, history>>

-----------------------------------------------------------------------------
IngestPCs == {"new", "delete", "alert", "accepted", "duplicate", "rejected", "crashed"}
ReviewPCs == {"none", "list", "alerting", "skipped", "crashed"}

AddressOfHook(d) == EventAddress[hook[d]]

KInit ==
    /\ Init
    /\ tainted = {}
    /\ hpc = [d \in Deliveries |-> "new"]
    /\ hook = [d \in Deliveries |-> None]
    /\ seen = {}
    /\ hookAlerts = {}
    /\ rpc = [d \in Deliveries |-> "none"]
    /\ todo = [d \in Deliveries |-> {}]
    /\ reviewAlerts = {}
    /\ reviewFaults = {}
    /\ flying = [d \in Deliveries |-> {}]
    /\ settled = [d \in Deliveries |-> {}]
    /\ late = {}

HookGoto(d, from, to) ==
    /\ hpc[d] = from
    /\ hpc' = [hpc EXCEPT ![d] = to]

\* The vendor re-classifies the address of e, and has the event to deliver.
VendorReclassifies(e) ==
    /\ EventAddress[e] \notin tainted
    /\ tainted' = tainted \cup {EventAddress[e]}
    /\ UNCHANGED <<vars, hpc, hook, seen, hookAlerts, rpc, todo, reviewAlerts,
                   reviewFaults, history>>

\* Wrong signature, unreadable body, missing field: no effect.
HookRefused(d) ==
    /\ HookGoto(d, "new", "rejected")
    /\ UNCHANGED <<vars, tainted, hook, seen, hookAlerts, rpc, todo, reviewAlerts,
                   reviewFaults, history>>

\* Under the mutex the event id is looked up and marked as seen: before, and
\* whatever becomes of, the rest of the handler.
MarkNothing(ids, id) == ids                 \* faulty: the id is not marked here
Mark(ids, id) == ids \cup {id}

HookFirst(d, e) ==
    /\ EventAddress[e] \in tainted
    /\ EventId[e] \notin seen
    /\ HookGoto(d, "new", "delete")
    /\ hook' = [hook EXCEPT ![d] = e]
    /\ seen' = Mark(seen, EventId[e])
    /\ UNCHANGED <<vars, tainted, hookAlerts, rpc, todo, reviewAlerts, reviewFaults, history>>

\* An id seen before is answered as a duplicate, which the API reports as accepted.
HookDuplicate(d, e) ==
    /\ EventAddress[e] \in tainted
    /\ EventId[e] \in seen
    /\ HookGoto(d, "new", "duplicate")
    /\ hook' = [hook EXCEPT ![d] = e]
    /\ UNCHANGED <<vars, tainted, seen, hookAlerts, rpc, todo, reviewAlerts,
                   reviewFaults, history>>

\* The entry under the address's cache key goes.
HookDeleteSkipped(d) ==                     \* faulty: it stays
    /\ HookGoto(d, "delete", "alert")
    /\ flying' = [flying EXCEPT ![d] = {c \in Calls : pc[c] \in Running}]
    /\ UNCHANGED <<vars, tainted, hook, seen, hookAlerts, rpc, todo, reviewAlerts,
                   reviewFaults, settled, late>>
HookDelete(d) ==
    /\ HookGoto(d, "delete", "alert")
    /\ cache' = [cache EXCEPT ![CacheKey(AddressOfHook(d))] = None]
    /\ flying' = [flying EXCEPT ![d] = {c \in Calls : pc[c] \in Running}]
    /\ UNCHANGED <<pc, req, got, verdict, responses, screens, alerts, events, told,
                   faulted, crashes, tainted, hook, seen, hookAlerts, rpc, todo,
                   reviewAlerts, reviewFaults, settled, late>>

\* cache.Delete returns an error (the entry may be gone all the same): the request
\* is refused.
HookDeleteFails(d) ==
    /\ HookGoto(d, "delete", "rejected")
    /\ \/ UNCHANGED cache
       \/ cache' = [cache EXCEPT ![CacheKey(AddressOfHook(d))] = None]
    /\ UNCHANGED <<pc, req, got, verdict, responses, screens, alerts, events, told,
                   faulted, crashes, tainted, hook, seen, hookAlerts, rpc, todo,
                   reviewAlerts, reviewFaults, history>>

\* The alert is opened, the review started, the request accepted.
HookAlert(d) ==
    /\ HookGoto(d, "alert", "accepted")
    /\ hookAlerts' = hookAlerts \cup {d}
    /\ rpc' = [rpc EXCEPT ![d] = "list"]
    /\ settled' = [settled EXCEPT ![d] = {c \in Calls : screens[c] # None}]
    /\ UNCHANGED <<vars, tainted, hook, seen, todo, reviewAlerts, reviewFaults,
                   flying, late>>

\* alerts.Create returns an error, with the row written or not.
HookAlertFails(d) ==
    /\ HookGoto(d, "alert", "rejected")
    /\ hookAlerts' \in {hookAlerts, hookAlerts \cup {d}}
    /\ UNCHANGED <<vars, tainted, hook, seen, rpc, todo, reviewAlerts, reviewFaults,
                   history>>

\* TriggerReview lists the rows of the address and keeps the allowed ones.
ToReview(a) == {c \in Calls : /\ screens[c] # None
                              /\ AddressOf(req[c]) = a
                              /\ screens[c].decision = "ALLOW"}

ReviewList(d) ==
    /\ rpc[d] = "list"
    /\ rpc' = [rpc EXCEPT ![d] = "alerting"]
    /\ todo' = [todo EXCEPT ![d] = ToReview(AddressOfHook(d))]
    /\ UNCHANGED <<vars, tainted, hpc, hook, seen, hookAlerts, reviewAlerts,
                   reviewFaults, history>>

\* The rows cannot be listed: logged, and the review is over.
ReviewListFails(d) ==
    /\ rpc[d] = "list"
    /\ rpc' = [rpc EXCEPT ![d] = "skipped"]
    /\ UNCHANGED <<vars, tainted, hpc, hook, seen, hookAlerts, todo, reviewAlerts,
                   reviewFaults, history>>

\* The loop over the rows; which row comes first is left open.
ReviewAlert(d, c) ==
    /\ rpc[d] = "alerting" /\ c \in todo[d]
    /\ todo' = [todo EXCEPT ![d] = @ \ {c}]
    /\ reviewAlerts' = reviewAlerts \cup {<<d, c>>}
    /\ UNCHANGED <<vars, tainted, hpc, hook, seen, hookAlerts, rpc, reviewFaults, history>>

\* One alert cannot be opened: logged, and the loop continues.
ReviewAlertFailsStop(d, c) ==               \* faulty: the loop ends
    /\ rpc[d] = "alerting" /\ c \in todo[d]
    /\ todo' = [todo EXCEPT ![d] = {}]
    /\ reviewFaults' = reviewFaults \cup {<<d, c>>}
    /\ UNCHANGED <<vars, tainted, hpc, hook, seen, hookAlerts, rpc, reviewAlerts, history>>
ReviewAlertFailsRetry(d, c) ==              \* faulty: it is tried again for ever
    /\ rpc[d] = "alerting" /\ c \in todo[d]
    /\ rpc' = [rpc EXCEPT ![d] = "list"]
    /\ UNCHANGED <<vars, tainted, hpc, hook, seen, hookAlerts, todo, reviewAlerts,
                   reviewFaults, history>>
ReviewAlertFails(d, c) ==
    /\ rpc[d] = "alerting" /\ c \in todo[d]
    /\ todo' = [todo EXCEPT ![d] = @ \ {c}]
    /\ reviewFaults' = reviewFaults \cup {<<d, c>>}
    /\ reviewAlerts' \in {reviewAlerts, reviewAlerts \cup {<<d, c>>}}
    /\ UNCHANGED <<vars, tainted, hpc, hook, seen, hookAlerts, rpc, history>>

Ingest(d) ==
    \/ HookRefused(d)
    \/ \E e \in HookEvents : HookFirst(d, e) \/ HookDuplicate(d, e)
    \/ HookDelete(d) \/ HookDeleteFails(d)
    \/ HookAlert(d) \/ HookAlertFails(d)

Review(d) ==
    \/ ReviewList(d) \/ ReviewListFails(d)
    \/ \E c \in Calls : ReviewAlert(d, c) \/ ReviewAlertFails(d, c)

\* A webhook for address a has been accepted.
Reclassified(a) == \E d \in Deliveries : hpc[d] = "accepted" /\ AddressOfHook(d) = a

\* A screen call arrives.
KArrive ==
    /\ Arrive
    /\ late' = late \cup {c \in Calls : /\ pc[c] = "idle" /\ pc'[c] = "cacheGet"
                                        /\ Reclassified(AddressOf(req'[c]))}
    /\ UNCHANGED <<hookVars, flying, settled>>

\* A screen call goes on; the vendor's answers follow its re-classifications.
KCallStep(c) ==
    /\ CallStep(c)
    /\ told'[c] # told[c] /\ AddressOf(req[c]) \in tainted =>
          VerdictOf(told'[c], AddressOf(req[c])).decision # "ALLOW"
    /\ UNCHANGED <<hookVars, history>>

\* A cached entry passes its TTL.
KExpire == (\E k \in CacheKeys : CacheDrop(k)) /\ UNCHANGED <<hookVars, history>>

\* The process dies, with its requests, its reviews and the set of seen events.
KCrash ==
    /\ Crash
    /\ hpc' = [d \in Deliveries |-> IF hpc[d] \in {"delete", "alert"} THEN "crashed" ELSE hpc[d]]
    /\ rpc' = [d \in Deliveries |-> IF rpc[d] \in {"list", "alerting"} THEN "crashed" ELSE rpc[d]]
    /\ seen' = {}
    /\ todo' = [d \in Deliveries |-> {}]
    /\ UNCHANGED <<tainted, hook, hookAlerts, reviewAlerts, reviewFaults, history>>

KFinished ==
    /\ Finished
    /\ \A d \in Deliveries : hpc[d] # "new"
    /\ UNCHANGED <<hookVars, history>>

KNext ==
    \/ KArrive
    \/ \E c \in Calls : KCallStep(c)
    \/ \E e \in HookEvents : VendorReclassifies(e)
    \/ \E d \in Deliveries : Ingest(d) \/ Review(d)
    \/ KExpire
    \/ KCrash
    \/ KFinished

KSpec == KInit /\ [][KNext]_allVars

\* Calls and reviews are goroutines that wait, without a lock, only for the vendor
\* (the HTTP client has a timeout) and for the database, which is assumed to answer
\* or to fail: its statements carry no deadline of their own.  That a request
\* comes, or that the vendor sends an event, is not assumed.
KFairSpec ==
    /\ KSpec
    /\ \A c \in Calls : WF_allVars(KCallStep(c))
    /\ \A d \in Deliveries : WF_allVars(Review(d))

-----------------------------------------------------------------------------
KTypeOK ==
    /\ TypeOK
    /\ tainted \subseteq Addresses
    /\ hpc \in [Deliveries -> IngestPCs]
    /\ hook \in [Deliveries -> HookEvents \cup {None}]
    /\ seen \subseteq {EventId[e] : e \in HookEvents}
    /\ hookAlerts \subseteq Deliveries
    /\ rpc \in [Deliveries -> ReviewPCs]
    /\ todo \in [Deliveries -> SUBSET Calls]
    /\ reviewAlerts \subseteq Deliveries \X Calls
    /\ reviewFaults \subseteq Deliveries \X Calls
    /\ flying \in [Deliveries -> SUBSET Calls]
    /\ settled \in [Deliveries -> SUBSET Calls]
    /\ late \subseteq Calls

\* However often and however concurrently an event is delivered, it opens one
\* alert (PROJECT_PLAN.md:115: replay is idempotent): so in one life of the process,
\* for a restart forgets which events were seen.
OneAlertPerEvent ==
    \A d, f \in hookAlerts : EventId[hook[d]] = EventId[hook[f]] => d = f
OneAlertPerEventAndProcess == crashes = 0 => OneAlertPerEvent

\* A screen call that starts after an accepted webhook for its address records
\* ALLOW only from the cache, or by replaying what the vendor had answered under
\* the same idempotency key before: a transaction not screened before that misses
\* the cache is not allowed.
LateAllowIsOld ==
    \A c \in late : screens[c] # None /\ screens[c].decision = "ALLOW" =>
        \/ screens[c].cacheHit
        \/ \E d \in Calls \ {c} : told[d] # None /\ IdempotencyKey(req[d]) = IdempotencyKey(req[c])

\* Once a webhook has deleted the entry of its address, a cached ALLOW found under its
\* key was put there for another address of that key, or by a call that was running
\* then, or by one that was answered from the response store: Screen puts a verdict
\* in the cache with nothing between it and the delete, and a replay brings back what
\* the vendor has since withdrawn.
StaleEntriesExplained ==
    \A d \in Deliveries : hpc[d] \in {"alert", "accepted"} =>
        LET key   == CacheKey(AddressOfHook(d))
            entry == cache[key]
        IN  entry # None /\ entry.decision = "ALLOW" =>
                \E c \in Calls :
                    /\ verdict[c] = entry /\ CacheKey(AddressOf(req[c])) = key
                    /\ \/ AddressOf(req[c]) # AddressOfHook(d)
                       \/ c \in flying[d]
                       \/ told[c] = None

\* A review that listed the rows and ended has an alert for every row that was
\* ALLOW when the webhook was accepted, except those it failed to open: one
\* failure does not cut the loop short.
ReviewCoversEarlierAllows ==
    \A d \in Deliveries : rpc[d] = "alerting" /\ todo[d] = {} =>
        \A c \in settled[d] :
            screens[c].decision = "ALLOW" /\ AddressOf(req[c]) = AddressOfHook(d) =>
                <<d, c>> \in reviewAlerts \cup reviewFaults

\* Every accepted webhook's review comes to its end.
ReviewsEnd ==
    \A d \in Deliveries : rpc[d] \in {"list", "alerting"} ~>
        (rpc[d] \in {"skipped", "crashed"} \/ (rpc[d] = "alerting" /\ todo[d] = {}))

\* PROJECT_PLAN.md:114: a valid webhook creates an alert.  A delivery answered
\* as a duplicate has one: its own event was, or is being, processed.
DuplicateWasProcessed ==
    \A d \in Deliveries : hpc[d] = "duplicate" =>
        \E f \in Deliveries \ {d} :
            /\ hook[f] # None /\ EventId[hook[f]] = EventId[hook[d]]
            /\ hpc[f] \in {"delete", "alert", "accepted"}

\* PROJECT_PLAN.md:114: and invalidates the cache entry.  A later call is then not
\* allowed on what the vendor said before.
NoStaleHit ==
    \A c \in late : screens[c] # None /\ screens[c].cacheHit => screens[c].decision # "ALLOW"
=============================================================================
