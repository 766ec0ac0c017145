----------------------- MODULE ReclassificationProofs -----------------------
(***************************************************************************)
(* The webhook path over the screen path, for any requests, events, calls  *)
(* and crashes: the screen path keeps what it guarantees by itself, an     *)
(* event opens one alert, a re-classified address is allowed only from     *)
(* what was answered before, and a review leaves no earlier ALLOW out.     *)
(***************************************************************************)
EXTENDS Reclassification, ScreeningProofs

USE HookAssumption

-----------------------------------------------------------------------------
(* Types of the webhook path.                                              *)

HookTypes ==
    /\ tainted \subseteq Addresses
    /\ hpc \in [Deliveries -> IngestPCs]
    /\ hook \in [Deliveries -> HookEvents \cup {None}]
    /\ seen \subseteq {EventId[e] : e \in HookEvents}
    /\ hookAlerts \subseteq Deliveries
    /\ rpc \in [Deliveries -> ReviewPCs]
    /\ todo \in [Deliveries -> SUBSET Calls]
    /\ reviewAlerts \subseteq Deliveries \X Calls
    /\ reviewFaults \subseteq Deliveries \X Calls
    /\ flying \in [Deliveries -> SUBSET Calls]
    /\ settled \in [Deliveries -> SUBSET Calls]
    /\ late \subseteq Calls

\* A request past the look-up has its event, whose address is re-classified; one that
\* has not come yet has no alert and no review, which only an accepted one has.
HookPlaces ==
    \A d \in Deliveries :
        /\ hpc[d] \in {"delete", "alert", "accepted"} \/ d \in hookAlerts =>
              hook[d] \in HookEvents /\ AddressOfHook(d) \in tainted
        /\ hpc[d] = "new" => d \notin hookAlerts
        /\ rpc[d] # "none" => hpc[d] = "accepted"

HookInv == HookTypes /\ HookPlaces

LEMMA InitHook == KInit => HookInv
  BY DEF KInit, HookInv, HookTypes, HookPlaces, IngestPCs, ReviewPCs

LEMMA StepHook == HookInv /\ [KNext]_allVars => HookInv'
<1> SUFFICES ASSUME HookInv, [KNext]_allVars PROVE HookInv'
  OBVIOUS
<1> USE DEF HookInv, HookTypes, HookPlaces, IngestPCs, ReviewPCs, AddressOfHook, HookGoto
<1>1. ASSUME UNCHANGED <<hookVars, flying, settled>>, late' \subseteq Calls PROVE HookInv'
  BY <1>1 DEF hookVars
<1>2. CASE KArrive \/ KExpire \/ KFinished \/ UNCHANGED allVars \/ \E c \in Calls : KCallStep(c)
  BY <1>1, <1>2 DEF KArrive, KExpire, KFinished, KCallStep, allVars, history
<1>3. ASSUME NEW e \in HookEvents, VendorReclassifies(e) PROVE HookInv'
  BY <1>3 DEF VendorReclassifies, history
<1>4. ASSUME NEW d \in Deliveries, HookRefused(d) PROVE HookInv'
  BY <1>4 DEF HookRefused, history
<1>5. ASSUME NEW d \in Deliveries, NEW e \in HookEvents, HookFirst(d, e) PROVE HookInv'
  BY <1>5 DEF HookFirst, Mark, history
<1>6. ASSUME NEW d \in Deliveries, NEW e \in HookEvents, HookDuplicate(d, e) PROVE HookInv'
  BY <1>6 DEF HookDuplicate, history
<1>7. ASSUME NEW d \in Deliveries, HookDelete(d) \/ HookDeleteFails(d) PROVE HookInv'
  BY <1>7 DEF HookDelete, HookDeleteFails, history
<1>8. ASSUME NEW d \in Deliveries, HookAlert(d) PROVE HookInv'
  BY <1>8 DEF HookAlert
<1>9. ASSUME NEW d \in Deliveries, HookAlertFails(d) PROVE HookInv'
  BY <1>9 DEF HookAlertFails, history
<1>10. ASSUME NEW d \in Deliveries, ReviewList(d) \/ ReviewListFails(d) PROVE HookInv'
  BY <1>10 DEF ReviewList, ReviewListFails, ToReview, history
<1>11. ASSUME NEW d \in Deliveries, NEW c \in Calls, ReviewAlert(d, c) \/ ReviewAlertFails(d, c)
       PROVE  HookInv'
  <2>1. /\ UNCHANGED <<tainted, hpc, hook, seen, hookAlerts, rpc, history>>
        /\ todo' = [todo EXCEPT ![d] = @ \ {c}]
        /\ reviewAlerts' \subseteq reviewAlerts \cup {<<d, c>>}
        /\ reviewFaults' \subseteq reviewFaults \cup {<<d, c>>}
    BY <1>11 DEF ReviewAlert, ReviewAlertFails
  <2> QED BY <2>1 DEF history
<1>12. CASE KCrash
  BY <1>12 DEF KCrash, history
<1> QED
  BY <1>2, <1>3, <1>4, <1>5, <1>6, <1>7, <1>8, <1>9, <1>10, <1>11, <1>12
     DEF KNext, Ingest, Review

-----------------------------------------------------------------------------
(* The webhook path does to the screen path what an expiring cache does.   *)

LEMMA StepOfScreening == TInv /\ HookInv /\ [KNext]_allVars => [Next]_vars
<1> SUFFICES ASSUME TInv, HookInv, [KNext]_allVars PROVE [Next]_vars
  OBVIOUS
<1>1. CASE KArrive \/ KExpire \/ KCrash \/ KFinished
  BY <1>1 DEF KArrive, KExpire, KCrash, KFinished, Next
<1>2. ASSUME NEW c \in Calls, KCallStep(c) PROVE Next
  BY <1>2 DEF KCallStep, Next
<1>3. ASSUME NEW d \in Deliveries, HookDelete(d) \/ HookDeleteFails(d) PROVE [Next]_vars
  <2> DEFINE k == CacheKey(AddressOfHook(d))
  <2>1. k \in CacheKeys
    <3>1. hook[d] \in HookEvents
      BY <1>3 DEF HookDelete, HookDeleteFails, HookGoto, HookInv, HookPlaces
    <3>2. AddressOfHook(d) \in Addresses
      BY <3>1 DEF AddressOfHook
    <3> QED BY <3>2 DEF CacheKeys
  <2>2. UNCHANGED <<pc, req, got, verdict, responses, screens, alerts, events, told,
                    faulted, crashes>>
    BY <1>3 DEF HookDelete, HookDeleteFails
  <2>3. cache' \in {cache, [cache EXCEPT ![k] = None]}
    BY <1>3 DEF HookDelete, HookDeleteFails
  <2>4. cache \in [CacheKeys -> VerdictSet \cup {None}]
    BY DEF TInv, TypeOK
  <2> HIDE DEF k
  <2>5. CASE cache[k] = None
    BY <2>2, <2>3, <2>4, <2>5 DEF vars, shared
  <2>6. CASE cache[k] # None
    BY <2>1, <2>2, <2>3, <2>6 DEF vars, shared, CacheDrop, Next
  <2> QED BY <2>5, <2>6
<1>4. ASSUME NEW d \in Deliveries, \/ HookRefused(d) \/ HookAlert(d) \/ HookAlertFails(d)
                                   \/ \E e \in HookEvents : HookFirst(d, e) \/ HookDuplicate(d, e)
      PROVE  UNCHANGED vars
  BY <1>4 DEF HookRefused, HookAlert, HookAlertFails, HookFirst, HookDuplicate
<1>5. ASSUME NEW d \in Deliveries, Review(d) PROVE UNCHANGED vars
  BY <1>5 DEF Review, ReviewList, ReviewListFails, ReviewAlert, ReviewAlertFails
<1>6. CASE (\E e \in HookEvents : VendorReclassifies(e)) \/ UNCHANGED allVars
  BY <1>6 DEF VendorReclassifies, allVars
<1> QED BY <1>1, <1>2, <1>3, <1>4, <1>5, <1>6 DEF KNext, Ingest

LEMMA BothInvariants == KSpec => [](TInv /\ HookInv)
<1>1. KInit => TInv /\ HookInv
  BY InitTInv, InitHook DEF KInit
<1>2. TInv /\ HookInv /\ [KNext]_allVars => (TInv /\ HookInv)'
  BY StepOfScreening, StepTInv, StepHook
<1> QED BY <1>1, <1>2, PTL DEF KSpec

\* Webhooks and reviews leave the screen path its behaviour: what holds of Screening
\* holds of the two together.
THEOREM ScreeningIsKept == KSpec => Spec
<1>1. KInit => Init
  BY DEF KInit
<1> QED BY <1>1, StepOfScreening, BothInvariants, PTL DEF KSpec, Spec

\* Fail-safe also under webhooks, reviews and re-classifications, with unique keys.
THEOREM FailSafeUnderWebhooks ==
    Vendor # "trm" /\ KeysApart => (KSpec => ImplementsFailSafe)
  BY ScreeningIsKept, FailSafeImplemented, PTL

\* Every variable of the composed system keeps its type.
THEOREM WebhookTypeCorrect == KSpec => []KTypeOK
<1>1. TInv /\ HookInv => KTypeOK
  BY DEF TInv, HookInv, HookTypes, KTypeOK
<1> QED BY <1>1, BothInvariants, PTL

-----------------------------------------------------------------------------
(* One event opens one alert.                                              *)

\* The requests that process their event, or have opened its alert.
Processing(d) == hpc[d] \in {"delete", "alert", "accepted"} \/ d \in hookAlerts

\* In one life of the process, what is processed is marked as seen, and only once.
MarkedOnce ==
    crashes = 0 =>
        \A d \in Deliveries : Processing(d) =>
            /\ EventId[hook[d]] \in seen
            /\ \A f \in Deliveries :
                  Processing(f) /\ EventId[hook[d]] = EventId[hook[f]] => d = f

LEMMA StepMarked == TInv /\ HookInv /\ MarkedOnce /\ [KNext]_allVars => MarkedOnce'
<1> SUFFICES ASSUME TInv, HookInv, MarkedOnce, [KNext]_allVars PROVE MarkedOnce'
  OBVIOUS
<1> USE DEF MarkedOnce, Processing, HookGoto
<1>0. /\ hpc \in [Deliveries -> IngestPCs] /\ hook \in [Deliveries -> HookEvents \cup {None}]
      /\ crashes \in Nat /\ \A d \in Deliveries : hpc[d] = "new" => d \notin hookAlerts
  BY DEF HookInv, HookTypes, HookPlaces, TInv, TypeOK
<1>1. ASSUME UNCHANGED <<hook, seen, crashes>>,
             \A d \in Deliveries : Processing(d)' => Processing(d)
      PROVE  MarkedOnce'
  BY <1>1
<1>2. CASE \/ KArrive \/ KExpire \/ KFinished \/ UNCHANGED allVars
           \/ \E c \in Calls : KCallStep(c)
  <2>1. UNCHANGED <<hook, seen, crashes, hpc, hookAlerts>>
    BY <1>2 DEF KArrive, KExpire, KFinished, KCallStep, allVars, hookVars, vars, Arrive, Start,
          Reject, CacheDrop, Finished, CallStep, CacheHit, CacheMiss, ResponseHit,
          ResponseMiss, VendorAnswers, VendorFails, PutResponse, CacheSet, Persist,
          PersistFails, CreateAlert, CreateAlertFails, EmitAudit, EmitAuditDropped
  <2> QED BY <1>1, <2>1
<1>3. ASSUME NEW e \in HookEvents, VendorReclassifies(e) PROVE MarkedOnce'
  BY <1>1, <1>3 DEF VendorReclassifies, vars
<1>4. ASSUME NEW d \in Deliveries, HookRefused(d) PROVE MarkedOnce'
  BY <1>0, <1>1, <1>4 DEF HookRefused, vars
<1>5. ASSUME NEW d \in Deliveries, NEW e \in HookEvents, HookFirst(d, e) PROVE MarkedOnce'
  <2>1. /\ EventId[e] \notin seen /\ seen' = seen \cup {EventId[e]} /\ ~Processing(d)
        /\ hook' = [hook EXCEPT ![d] = e] /\ hpc' = [hpc EXCEPT ![d] = "delete"]
        /\ UNCHANGED <<hookAlerts, crashes>>
    BY <1>0, <1>5 DEF HookFirst, Mark, vars
  <2>2. \A f \in Deliveries \ {d} : (Processing(f)' <=> Processing(f)) /\ hook'[f] = hook[f]
    BY <1>0, <2>1
  <2>3. hook'[d] = e
    BY <1>0, <2>1
  <2> QED BY <2>1, <2>2, <2>3
<1>6. ASSUME NEW d \in Deliveries, NEW e \in HookEvents, HookDuplicate(d, e) PROVE MarkedOnce'
  <2>1. /\ ~Processing(d)' /\ UNCHANGED <<seen, crashes>>
        /\ \A f \in Deliveries \ {d} : (Processing(f)' <=> Processing(f)) /\ hook'[f] = hook[f]
    BY <1>0, <1>6 DEF HookDuplicate, vars
  <2> QED BY <2>1
<1>7. ASSUME NEW d \in Deliveries,
             HookDelete(d) \/ HookDeleteFails(d) \/ HookAlert(d) \/ HookAlertFails(d)
      PROVE  MarkedOnce'
  <2>1. /\ UNCHANGED <<hook, seen, crashes>> /\ Processing(d)
        /\ \A f \in Deliveries \ {d} : Processing(f)' => Processing(f)
    BY <1>0, <1>7 DEF HookDelete, HookDeleteFails, HookAlert, HookAlertFails, vars, history
  <2> QED BY <1>1, <2>1
<1>8. ASSUME NEW d \in Deliveries, Review(d) PROVE MarkedOnce'
  BY <1>1, <1>8 DEF Review, ReviewList, ReviewListFails, ReviewAlert, ReviewAlertFails, vars
<1>9. CASE KCrash
  BY <1>0, <1>9 DEF KCrash, Crash
<1> QED BY <1>2, <1>3, <1>4, <1>5, <1>6, <1>7, <1>8, <1>9 DEF KNext, Ingest

\* Until the process restarts, an event opens one alert, however its deliveries race.
THEOREM OneAlert == KSpec => []OneAlertPerEventAndProcess
<1>1. KInit => MarkedOnce
  BY DEF KInit, MarkedOnce, Processing
<1>2. HookInv => hookAlerts \subseteq Deliveries
  BY DEF HookInv, HookTypes
<1>3. HookInv /\ MarkedOnce => OneAlertPerEventAndProcess
  BY <1>2 DEF MarkedOnce, Processing, OneAlertPerEventAndProcess, OneAlertPerEvent
<1> QED BY <1>1, <1>3, StepMarked, BothInvariants, PTL DEF KSpec

-----------------------------------------------------------------------------
(* What a review covers.                                                   *)

\* The rows that were there when a request was accepted stay as they are; while
\* their review runs, the allowed ones are to do, done, or could not be done.
Covered ==
    /\ \A d \in Deliveries, c \in Calls : c \in settled[d] => screens[c] # None
    /\ \A d \in Deliveries : rpc[d] = "alerting" =>
          \A c \in settled[d] :
              screens[c].decision = "ALLOW" /\ AddressOf(req[c]) = AddressOfHook(d) =>
                  c \in todo[d] \/ <<d, c>> \in reviewAlerts \cup reviewFaults

\* A row that is written stays, with its request.
LEMMA RowsStay ==
    ASSUME TInv, [Next]_vars
    PROVE  \A c \in Calls : screens[c] # None => screens'[c] = screens[c] /\ req'[c] = req[c]
<1>1. \A c \in Calls : screens[c] # None => pc[c] \notin Before \cup {"persist"}
  BY DEF TInv, Stages, StageOf
<1>2. /\ screens \in [Calls -> VerdictSet \cup {None}] /\ req \in [Calls -> Requests \cup {None}]
  BY DEF TInv, TypeOK
<1>3. ASSUME NEW c \in Calls, NEW r \in Requests, Start(c, r)
      PROVE  /\ screens' = screens
             /\ \A d \in Calls : screens[d] # None => req'[d] = req[d]
  BY <1>1, <1>2, <1>3 DEF Start, Goto, Before, shared
<1>4. ASSUME NEW c \in Calls, Persist(c) \/ PersistFails(c)
      PROVE  /\ req' = req
             /\ \A d \in Calls : screens[d] # None => screens'[d] = screens[d]
  BY <1>1, <1>2, <1>4 DEF Persist, PersistFails, Goto, shared
<1>5. CASE UNCHANGED <<screens, req>>
  BY <1>5
<1> QED
  BY <1>3, <1>4, <1>5
     DEF Next, Arrive, CallStep, Finished, vars, shared, Reject, CacheHit, CacheMiss,
         ResponseHit, ResponseMiss, VendorAnswers, VendorFails, PutResponse, CacheSet,
         CreateAlert, CreateAlertFails, EmitAudit, EmitAuditDropped, CacheDrop, Crash

LEMMA StepCovered == TInv /\ HookInv /\ Covered /\ [KNext]_allVars => Covered'
<1> SUFFICES ASSUME TInv, HookInv, Covered, [KNext]_allVars PROVE Covered'
  OBVIOUS
<1> USE DEF Covered, AddressOfHook
<1>0. /\ settled \in [Deliveries -> SUBSET Calls] /\ rpc \in [Deliveries -> ReviewPCs]
      /\ todo \in [Deliveries -> SUBSET Calls] /\ hook \in [Deliveries -> HookEvents \cup {None}]
      /\ hpc \in [Deliveries -> IngestPCs]
      /\ \A d \in Deliveries : rpc[d] # "none" => hpc[d] = "accepted"
  BY DEF HookInv, HookTypes, HookPlaces
<1>r. \A c \in Calls : screens[c] # None => screens'[c] = screens[c] /\ req'[c] = req[c]
  BY StepOfScreening, RowsStay
<1>1. ASSUME UNCHANGED <<settled, todo, reviewAlerts, reviewFaults>>,
             \A d \in Deliveries : rpc'[d] = "alerting" => rpc[d] = "alerting" /\ hook'[d] = hook[d]
      PROVE  Covered'
  BY <1>0, <1>r, <1>1
<1>2. CASE KArrive \/ KExpire \/ KFinished \/ UNCHANGED allVars \/ \E c \in Calls : KCallStep(c)
  BY <1>1, <1>2 DEF KArrive, KExpire, KFinished, KCallStep, allVars, hookVars, history
<1>3. ASSUME NEW e \in HookEvents, VendorReclassifies(e) PROVE Covered'
  BY <1>1, <1>3 DEF VendorReclassifies, history
<1>4. ASSUME NEW d \in Deliveries,
             \/ HookRefused(d) \/ HookDelete(d) \/ HookDeleteFails(d) \/ HookAlertFails(d)
             \/ \E e \in HookEvents : HookFirst(d, e) \/ HookDuplicate(d, e)
      PROVE  Covered'
  <2>1. /\ UNCHANGED <<settled, todo, reviewAlerts, reviewFaults, rpc>>
        /\ hook' = hook \/ (hpc[d] = "new" /\ \A f \in Deliveries \ {d} : hook'[f] = hook[f])
    BY <1>0, <1>4 DEF HookRefused, HookFirst, HookDuplicate, HookDelete, HookDeleteFails,
          HookAlertFails, HookGoto, history
  <2> QED BY <1>0, <1>1, <2>1
<1>5. ASSUME NEW d \in Deliveries, HookAlert(d) PROVE Covered'
  <2>1. /\ UNCHANGED <<hook, todo, reviewAlerts, reviewFaults, screens>>
        /\ rpc' = [rpc EXCEPT ![d] = "list"]
        /\ settled' = [settled EXCEPT ![d] = {c \in Calls : screens[c] # None}]
    BY <1>5 DEF HookAlert, vars, shared
  <2> QED BY <1>0, <1>r, <2>1
<1>6. ASSUME NEW d \in Deliveries, ReviewList(d) PROVE Covered'
  <2>1. /\ UNCHANGED <<hook, settled, reviewAlerts, reviewFaults, screens, req>>
        /\ rpc' = [rpc EXCEPT ![d] = "alerting"]
        /\ todo' = [todo EXCEPT ![d] = ToReview(AddressOfHook(d))]
    BY <1>6 DEF ReviewList, vars, shared, history
  <2> QED BY <1>0, <2>1 DEF ToReview
<1>7. ASSUME NEW d \in Deliveries, ReviewListFails(d) PROVE Covered'
  BY <1>0, <1>1, <1>7 DEF ReviewListFails, history
<1>8. ASSUME NEW d \in Deliveries, NEW c \in Calls, ReviewAlert(d, c) \/ ReviewAlertFails(d, c)
      PROVE  Covered'
  <2>1. /\ UNCHANGED <<hook, settled, rpc, screens, req>>
        /\ todo' = [todo EXCEPT ![d] = @ \ {c}]
        /\ reviewAlerts \subseteq reviewAlerts' /\ reviewFaults \subseteq reviewFaults'
        /\ <<d, c>> \in reviewAlerts' \cup reviewFaults'
    BY <1>8 DEF ReviewAlert, ReviewAlertFails, vars, shared, history
  <2> QED BY <1>0, <2>1
<1>9. CASE KCrash
  <2>1. /\ UNCHANGED <<hook, settled, screens, req>>
        /\ \A d \in Deliveries : rpc'[d] # "alerting"
    BY <1>0, <1>9 DEF KCrash, Crash, ReviewPCs, history
  <2> QED BY <2>1
<1> QED
  BY <1>2, <1>3, <1>4, <1>5, <1>6, <1>7, <1>8, <1>9 DEF KNext, Ingest, Review

\* A review that ended has an alert for every row that was ALLOW when its webhook was
\* accepted, but for those that could not be opened.
THEOREM ReviewIsComplete == KSpec => []ReviewCoversEarlierAllows
<1>1. KInit => Covered
  BY DEF KInit, Covered
<1>2. HookInv /\ Covered => ReviewCoversEarlierAllows
  BY DEF HookInv, HookTypes, Covered, ReviewCoversEarlierAllows
<1> QED BY <1>1, <1>2, StepCovered, BothInvariants, PTL DEF KSpec

-----------------------------------------------------------------------------
(* What a late call is told.                                               *)

\* A call that started after an accepted webhook for its address keeps asking about
\* that address, and the vendor no longer clears it.
LateCallsTold ==
    \A c \in late :
        /\ pc[c] # "idle"
        /\ AddressOf(req[c]) \in tainted
        /\ told[c] # None => VerdictOf(told[c], AddressOf(req[c])).decision # "ALLOW"

\* Only a call that starts gets a request, and only a call step an answer.
LEMMA RequestsStay ==
    ASSUME TypeOK, Arrive
    PROVE  /\ told' = told
           /\ \A c \in Calls : pc[c] # "idle" => req'[c] = req[c] /\ pc'[c] = pc[c]
  BY DEF TypeOK, Arrive, Start, Reject, Goto

LEMMA OneCallSteps ==
    ASSUME TypeOK, NEW c \in Calls, CallStep(c)
    PROVE  /\ req' = req
           /\ \A d \in Calls : pc[d] # "idle" => pc'[d] # "idle"
           /\ \A d \in Calls \ {c} : told'[d] = told[d]
<1>1. /\ req' = req
      /\ told' = told \/ \E a \in Answers : told' = [told EXCEPT ![c] = a]
  BY DEF CallStep, CacheHit, CacheMiss, ResponseHit, ResponseMiss, VendorAnswers,
         VendorFails, PutResponse, CacheSet, Persist, PersistFails, CreateAlert,
         CreateAlertFails, EmitAudit, EmitAuditDropped
<1>2. \A v : AfterPersist(v) # "idle"
  BY DEF AfterPersist
<1>3. \E to : to # "idle" /\ pc' = [pc EXCEPT ![c] = to]
  BY <1>2 DEF CallStep, CacheHit, CacheMiss, ResponseHit, ResponseMiss, VendorAnswers,
         VendorFails, PutResponse, CacheSet, Persist, PersistFails, CreateAlert,
         CreateAlertFails, EmitAudit, EmitAuditDropped, Goto
<1> QED BY <1>1, <1>3 DEF TypeOK

LEMMA StepLateCalls == TInv /\ HookInv /\ LateCallsTold /\ [KNext]_allVars => LateCallsTold'
<1> SUFFICES ASSUME TInv, HookInv, LateCallsTold, [KNext]_allVars PROVE LateCallsTold'
  OBVIOUS
<1> USE DEF LateCallsTold
<1>0. TypeOK /\ late \subseteq Calls /\ \A c \in Calls : pc[c] = "idle" => told[c] = None
  BY DEF TInv, Stages, StageOf, Before, HookInv, HookTypes
<1>1. ASSUME UNCHANGED <<req, told, late>>, tainted \subseteq tainted',
             \A c \in Calls : pc[c] # "idle" => pc'[c] # "idle"
      PROVE  LateCallsTold'
  BY <1>0, <1>1 DEF AddressOf, VerdictOf, ExposureOf
<1>2. CASE KArrive
  <2>1. /\ Arrive /\ tainted' = tainted
        /\ late' = late \cup {c \in Calls : /\ pc[c] = "idle" /\ pc'[c] = "cacheGet"
                                            /\ Reclassified(AddressOf(req'[c]))}
    BY <1>2 DEF KArrive, hookVars
  <2>2. \A a : Reclassified(a) => a \in tainted
    BY DEF Reclassified, HookInv, HookPlaces
  <2>3. ASSUME NEW c \in late PROVE /\ pc'[c] # "idle" /\ AddressOf(req'[c]) \in tainted'
                                    /\ told'[c] # None =>
                                          VerdictOf(told'[c], AddressOf(req'[c])).decision # "ALLOW"
    BY <1>0, <2>1, <2>3, RequestsStay
  <2>4. ASSUME NEW c \in late' \ late
        PROVE  pc'[c] = "cacheGet" /\ AddressOf(req'[c]) \in tainted' /\ told'[c] = None
    BY <1>0, <2>1, <2>2, <2>4, RequestsStay
  <2> QED BY <2>3, <2>4
<1>3. ASSUME NEW c \in Calls, KCallStep(c) PROVE LateCallsTold'
  <2>1. /\ CallStep(c) /\ UNCHANGED <<tainted, late>>
        /\ told'[c] # told[c] /\ AddressOf(req[c]) \in tainted =>
              VerdictOf(told'[c], AddressOf(req[c])).decision # "ALLOW"
    BY <1>3 DEF KCallStep, hookVars, history
  <2>2. ASSUME NEW d \in late PROVE /\ pc'[d] # "idle" /\ AddressOf(req'[d]) \in tainted'
                                    /\ told'[d] # None =>
                                          VerdictOf(told'[d], AddressOf(req'[d])).decision # "ALLOW"
    BY <1>0, <2>1, <2>2, OneCallSteps
  <2> QED BY <2>1, <2>2
<1>4. CASE KExpire \/ KFinished \/ UNCHANGED allVars
  BY <1>1, <1>4 DEF KExpire, KFinished, CacheDrop, Finished, allVars, hookVars, history, vars
<1>5. ASSUME NEW e \in HookEvents, VendorReclassifies(e) PROVE LateCallsTold'
  BY <1>1, <1>5 DEF VendorReclassifies, vars, history
<1>6. ASSUME NEW d \in Deliveries, Ingest(d) \/ Review(d) PROVE LateCallsTold'
  <2>1. UNCHANGED <<pc, req, told, late, tainted>>
    BY <1>6 DEF Ingest, HookRefused, HookFirst, HookDuplicate, HookDelete, HookDeleteFails,
       HookAlert, HookAlertFails, Review, ReviewList, ReviewListFails, ReviewAlert,
       ReviewAlertFails, vars, history
  <2> QED BY <1>1, <2>1
<1>7. CASE KCrash
  <2>1. /\ UNCHANGED <<req, told, late, tainted>>
        /\ pc' = [c \in Calls |-> IF pc[c] \in Running THEN "crashed" ELSE pc[c]]
    BY <1>7 DEF KCrash, Crash, history
  <2> QED BY <1>0, <1>1, <2>1
<1> QED BY <1>2, <1>3, <1>4, <1>5, <1>6, <1>7 DEF KNext

\* A call that starts after an accepted webhook for its address is allowed only from
\* the cache or by the replay of an earlier answer under the same idempotency key.
THEOREM LateAllow == KSpec => []LateAllowIsOld
<1>1. KInit => LateCallsTold
  BY DEF KInit, LateCallsTold
<1>2. TInv /\ HookInv /\ LateCallsTold /\ VerdictsAreVouched => LateAllowIsOld
  <2> SUFFICES ASSUME TInv, HookInv, LateCallsTold, VerdictsAreVouched, NEW c \in late,
                      screens[c] # None, screens[c].decision = "ALLOW", ~screens[c].cacheHit
               PROVE  \E d \in Calls \ {c} :
                          told[d] # None /\ IdempotencyKey(req[d]) = IdempotencyKey(req[c])
    BY DEF LateAllowIsOld
  <2>1. c \in Calls /\ Vouched(c, screens[c])
    BY DEF HookInv, HookTypes, VerdictsAreVouched
  <2>2. Unreachable.decision # "ALLOW"
    BY DEF Unreachable, DecideVendorUnreachable
  <2>3. told[c] = None /\ ReadBack(screens[c], req[c])
    BY <2>1, <2>2 DEF Vouched, LateCallsTold
  <2> QED BY <2>3 DEF ReadBack
<1> QED BY <1>1, <1>2, StepLateCalls, BothInvariants, ScreeningIsKept, VerdictsVouched, PTL
        DEF KSpec

-----------------------------------------------------------------------------
(* What is left in, and comes back to, the cache.                          *)

\* The deletion of request d has taken effect, and its address is a.
Deleted(d, a) == hpc[d] \in {"alert", "accepted"} /\ a = AddressOfHook(d)

\* A running call that was not running at the deletion has nothing of the vendor's
\* that allows.
LaterAnswersWarn ==
    \A d \in Deliveries, a \in Addresses, c \in Calls :
        Deleted(d, a) /\ pc[c] \in Running /\ c \notin flying[d] /\ AddressOf(req[c]) = a
            /\ told[c] # None => VerdictOf(told[c], a).decision # "ALLOW"

EntryInv == LaterAnswersWarn /\ StaleEntriesExplained

\* A verdict that was formed stays, with the request and the answer it came from.
LEMMA VerdictsStay ==
    ASSUME TInv, [Next]_vars, NEW c \in Calls, verdict[c] # None
    PROVE  verdict'[c] = verdict[c] /\ req'[c] = req[c] /\ told'[c] = told[c]
<1>1. pc[c] \notin Before \cup Holding
  BY DEF TInv, Stages, StageOf
<1>2. TypeOK
  BY DEF TInv
<1> USE DEF Goto, Before, Holding, shared
<1>3. ASSUME NEW d \in Calls, NEW r \in Requests, Start(d, r)
      PROVE  UNCHANGED <<verdict, told>> /\ req'[c] = req[c]
  BY <1>1, <1>2, <1>3 DEF Start, TypeOK
<1>4. ASSUME NEW d \in Calls, CallStep(d)
      PROVE  req' = req /\ verdict'[c] = verdict[c] /\ told'[c] = told[c]
  BY <1>1, <1>2, <1>4 DEF CallStep, CacheHit, CacheMiss, ResponseHit, ResponseMiss,
     VendorAnswers, VendorFails, PutResponse, CacheSet, Persist, PersistFails, CreateAlert,
     CreateAlertFails, EmitAudit, EmitAuditDropped, TypeOK
<1> QED
  BY <1>3, <1>4 DEF Next, Arrive, Reject, CacheDrop, Crash, Finished, vars

\* A request whose deletion has taken effect has just deleted, or is as it was.
LEMMA DeletedStays ==
    ASSUME HookInv, [KNext]_allVars, NEW d \in Deliveries, NEW a \in Addresses, Deleted(d, a)'
    PROVE  HookDelete(d) \/ (Deleted(d, a) /\ flying'[d] = flying[d])
<1> USE DEF Deleted, HookGoto, AddressOfHook
<1>0. /\ hpc \in [Deliveries -> IngestPCs] /\ hook \in [Deliveries -> HookEvents \cup {None}]
      /\ flying \in [Deliveries -> SUBSET Calls]
  BY DEF HookInv, HookTypes
<1>1. ASSUME UNCHANGED <<hpc, hook, flying>> PROVE Deleted(d, a) /\ flying'[d] = flying[d]
  BY <1>1
<1>2. CASE \/ KArrive \/ KExpire \/ KFinished \/ UNCHANGED allVars
           \/ (\E c \in Calls : KCallStep(c)) \/ \E e \in HookEvents : VendorReclassifies(e)
  BY <1>1, <1>2 DEF KArrive, KExpire, KFinished, KCallStep, VendorReclassifies, allVars,
     hookVars, history
<1>3. ASSUME NEW f \in Deliveries, Review(f) PROVE Deleted(d, a) /\ flying'[d] = flying[d]
  BY <1>1, <1>3 DEF Review, ReviewList, ReviewListFails, ReviewAlert, ReviewAlertFails, history
<1>4. ASSUME NEW f \in Deliveries, \/ HookRefused(f) \/ HookDeleteFails(f) \/ HookAlertFails(f)
                                   \/ \E e \in HookEvents : HookFirst(f, e) \/ HookDuplicate(f, e)
      PROVE  Deleted(d, a) /\ flying'[d] = flying[d]
  <2>1. /\ flying' = flying /\ hpc'[f] \notin {"alert", "accepted"}
        /\ \A g \in Deliveries \ {f} : hpc'[g] = hpc[g] /\ hook'[g] = hook[g]
    BY <1>0, <1>4 DEF HookRefused, HookDeleteFails, HookAlertFails, HookFirst, HookDuplicate,
       history
  <2> QED BY <2>1
<1>5. ASSUME NEW f \in Deliveries, HookDelete(f), d # f
      PROVE  Deleted(d, a) /\ flying'[d] = flying[d]
  BY <1>0, <1>5 DEF HookDelete
<1>6. ASSUME NEW f \in Deliveries, HookAlert(f) PROVE Deleted(d, a) /\ flying'[d] = flying[d]
  BY <1>0, <1>6 DEF HookAlert
<1>7. CASE KCrash
  BY <1>0, <1>7 DEF KCrash, history
<1> QED BY <1>2, <1>3, <1>4, <1>5, <1>6, <1>7 DEF KNext, Ingest

\* An entry stays, goes, or is the verdict that a call with its key has just formed.
LEMMA EntriesAreSet ==
    ASSUME TInv, HookInv, [KNext]_allVars, NEW k \in CacheKeys, cache'[k] # None
    PROVE  \/ cache'[k] = cache[k]
           \/ \E c \in Calls : /\ CacheSet(c) /\ CacheKey(AddressOf(req[c])) = k
                               /\ cache'[k] = VerdictOf(got[c], AddressOf(req[c]))
<1>0. /\ cache \in [CacheKeys -> VerdictSet \cup {None}] /\ verdict \in [Calls -> VerdictSet \cup {None}]
      /\ \A c \in Calls : pc[c] \in Running => req[c] \in Requests
  BY DEF TInv, TypeOK, Stages, StageOf
<1>1. CASE UNCHANGED cache
  BY <1>1
<1>2. ASSUME NEW l \in CacheKeys, CacheDrop(l) PROVE cache'[k] = cache[k]
  BY <1>0, <1>2 DEF CacheDrop
<1>3. ASSUME NEW c \in Calls, CacheSet(c), cache' # cache, cache'[k] # cache[k]
      PROVE  CacheKey(AddressOf(req[c])) = k /\ cache'[k] = VerdictOf(got[c], AddressOf(req[c]))
  <2> DEFINE l == CacheKey(AddressOf(req[c]))
             v == VerdictOf(got[c], AddressOf(req[c]))
  <2>1. cache' = [cache EXCEPT ![l] = v]
    BY <1>3 DEF CacheSet
  <2> HIDE DEF l, v
  <2>2. l = k /\ cache'[k] = v
    BY <1>0, <1>3, <2>1
  <2> QED BY <2>2 DEF l, v
<1>4. CASE Next
  BY <1>1, <1>2, <1>3, <1>4 DEF Next, Arrive, Start, Reject, CallStep, CacheHit, CacheMiss,
     ResponseHit, ResponseMiss, VendorAnswers, VendorFails, PutResponse, Persist, PersistFails,
     CreateAlert, CreateAlertFails, EmitAudit, EmitAuditDropped, Crash, Finished, vars, shared
<1> QED BY <1>1, <1>4, StepOfScreening DEF vars, shared

\* A call that runs after a step was running and had its request, or has just started;
\* an answer it gets in the step does not allow a re-classified address.
LEMMA RunningCalls ==
    ASSUME TInv, HookInv, [KNext]_allVars, NEW c \in Calls, pc'[c] \in Running, told'[c] # None
    PROVE  /\ pc[c] \in Running /\ req'[c] = req[c]
           /\ \/ told'[c] = told[c]
              \/ AddressOf(req[c]) \in tainted =>
                    VerdictOf(told'[c], AddressOf(req[c])).decision # "ALLOW"
<1>0. TypeOK /\ (pc[c] = "idle" => told[c] = None) /\ "idle" \notin Running
      /\ "failed" \notin Running
  BY DEF TInv, Stages, StageOf, Before, Running, Ended
<1>1. CASE KArrive
  <2>1. told'[c] = told[c] /\ pc[c] # "idle"
    BY <1>0, <1>1, RequestsStay DEF KArrive
  <2> QED BY <1>0, <1>1, <2>1, RequestsStay DEF KArrive
<1>2. ASSUME NEW d \in Calls, KCallStep(d)
      PROVE  /\ pc[c] \in Running /\ req'[c] = req[c]
             /\ \/ told'[c] = told[c]
                \/ AddressOf(req[c]) \in tainted =>
                      VerdictOf(told'[c], AddressOf(req[c])).decision # "ALLOW"
  <2>1. req' = req /\ pc[d] \in Running /\ \A e \in Calls \ {d} : pc'[e] = pc[e]
    BY <1>0, <1>2 DEF KCallStep, CallStep, CacheHit, CacheMiss, ResponseHit, ResponseMiss,
       VendorAnswers, VendorFails, PutResponse, CacheSet, Persist, PersistFails, CreateAlert,
       CreateAlertFails, EmitAudit, EmitAuditDropped, Goto, TypeOK, Running, Ended, PCs
  <2>2. CASE c = d
    BY <1>2, <2>1, <2>2 DEF KCallStep
  <2>3. CASE c # d
    BY <1>0, <1>2, <2>1, <2>3, OneCallSteps DEF KCallStep
  <2> QED BY <2>2, <2>3
<1>3. CASE KCrash
  BY <1>0, <1>3 DEF KCrash, Crash, TypeOK, Running, Ended, PCs
<1>4. ASSUME UNCHANGED <<pc, req, told>>
      PROVE  pc[c] \in Running /\ req'[c] = req[c] /\ told'[c] = told[c]
  BY <1>4
<1>5. CASE KExpire \/ KFinished \/ UNCHANGED allVars
  BY <1>4, <1>5 DEF KExpire, KFinished, CacheDrop, Finished, allVars, vars
<1>6. CASE \/ \E e \in HookEvents : VendorReclassifies(e)
           \/ \E d \in Deliveries : Ingest(d) \/ Review(d)
  BY <1>4, <1>6 DEF VendorReclassifies, Ingest, HookRefused, HookFirst, HookDuplicate,
     HookDelete, HookDeleteFails, HookAlert, HookAlertFails, Review, ReviewList,
     ReviewListFails, ReviewAlert, ReviewAlertFails, vars
<1> QED BY <1>1, <1>2, <1>3, <1>5, <1>6 DEF KNext

LEMMA StepEntry == IInv /\ HookInv /\ EntryInv /\ [KNext]_allVars => EntryInv'
<1> SUFFICES ASSUME IInv, HookInv, EntryInv, [KNext]_allVars PROVE EntryInv'
  OBVIOUS
<1>0. TInv /\ [Next]_vars /\ pc \in [Calls -> PCs] /\ hpc \in [Deliveries -> IngestPCs]
      /\ hook \in [Deliveries -> HookEvents \cup {None}] /\ cache \in [CacheKeys -> VerdictSet \cup {None}]
      /\ flying \in [Deliveries -> SUBSET Calls]
  BY StepOfScreening DEF IInv, TInv, TypeOK, HookInv, HookTypes
<1>1. LaterAnswersWarn'
  <2> SUFFICES ASSUME NEW d \in Deliveries, NEW a \in Addresses, NEW c \in Calls, Deleted(d, a)',
                      pc'[c] \in Running, c \notin flying'[d], AddressOf(req'[c]) = a,
                      told'[c] # None
               PROVE  VerdictOf(told'[c], a).decision # "ALLOW"
    BY DEF LaterAnswersWarn, Deleted, AddressOfHook, AddressOf, VerdictOf, ExposureOf
  <2>1. pc[c] \in Running /\ req'[c] = req[c]
    BY <1>0, RunningCalls
  <2>2. ~HookDelete(d)
    BY <1>0, <2>1 DEF HookDelete
  <2>3. Deleted(d, a) /\ c \notin flying[d]
    BY <2>2, DeletedStays
  <2>4. a \in tainted
    BY <2>3 DEF Deleted, HookInv, HookPlaces
  <2>5. CASE told'[c] = told[c]
    BY <2>1, <2>3, <2>5 DEF EntryInv, LaterAnswersWarn
  <2>6. CASE told'[c] # told[c]
    BY <1>0, <2>1, <2>4, <2>6, RunningCalls
  <2> QED BY <2>5, <2>6
<1>2. StaleEntriesExplained'
  <2> SUFFICES ASSUME NEW d \in Deliveries, hpc'[d] \in {"alert", "accepted"},
                      NEW a, a = AddressOfHook(d)', NEW k, k = CacheKey(a),
                      cache'[k] # None, cache'[k].decision = "ALLOW"
               PROVE  \E c \in Calls :
                          /\ verdict'[c] = cache'[k] /\ CacheKey(AddressOf(req'[c])) = k
                          /\ AddressOf(req'[c]) # a \/ c \in flying'[d] \/ told'[c] = None
    BY DEF StaleEntriesExplained, AddressOfHook, AddressOf
  <2>1. HookInv'
    BY StepHook
  <2>2. a \in Addresses /\ Deleted(d, a)'
    BY <2>1 DEF Deleted, HookInv, HookTypes, HookPlaces
  <2>k. k \in CacheKeys
    BY <2>2 DEF CacheKeys
  <2>3. ~HookDelete(d)
    <3>1. AddressOfHook(d)' = AddressOfHook(d) \/ ~HookDelete(d)
      BY DEF HookDelete, AddressOfHook
    <3>2. HookDelete(d) => cache' = [cache EXCEPT ![CacheKey(AddressOfHook(d))] = None]
      BY DEF HookDelete
    <3> QED BY <1>0, <2>k, <3>1, <3>2
  <2>4. Deleted(d, a) /\ flying'[d] = flying[d]
    BY <2>2, <2>3, DeletedStays
  <2>5. CASE cache'[k] = cache[k]
    <3>1. PICK c \in Calls : /\ verdict[c] = cache[k] /\ CacheKey(AddressOf(req[c])) = k
                             /\ AddressOf(req[c]) # a \/ c \in flying[d] \/ told[c] = None
      BY <2>4, <2>5 DEF EntryInv, StaleEntriesExplained, Deleted
    <3>2. verdict'[c] = verdict[c] /\ req'[c] = req[c] /\ told'[c] = told[c]
      BY <1>0, <2>5, <3>1, VerdictsStay
    <3> QED BY <2>4, <2>5, <3>1, <3>2
  <2>6. ASSUME NEW c \in Calls, CacheSet(c), CacheKey(AddressOf(req[c])) = k,
               cache'[k] = VerdictOf(got[c], AddressOf(req[c]))
        PROVE  /\ verdict'[c] = cache'[k] /\ CacheKey(AddressOf(req'[c])) = k
               /\ AddressOf(req'[c]) # a \/ c \in flying'[d] \/ told'[c] = None
    <3>1. /\ pc[c] = "cacheSet" /\ pc[c] \in Running /\ req' = req /\ told' = told
          /\ verdict'[c] = cache'[k]
      BY <1>0, <2>6 DEF CacheSet, Goto, Running, Ended, PCs, TInv, TypeOK
    <3>2. CASE told[c] = got[c] /\ AddressOf(req[c]) = a
      <4>1. told[c] # None
        BY <1>0, <3>1, <3>2 DEF TInv, Stages, StageOf, Holding
      <4>2. c \in flying[d]
        BY <2>2, <2>4, <2>6, <3>1, <3>2, <4>1 DEF EntryInv, LaterAnswersWarn
      <4> QED BY <2>4, <2>6, <3>1, <4>2
    <3>3. CASE told[c] = None
      BY <2>6, <3>1, <3>3
    <3>4. CASE AddressOf(req[c]) # a
      BY <2>6, <3>1, <3>4
    <3> QED BY <3>1, <3>2, <3>3, <3>4 DEF IInv, Origins, GotTold
  <2> QED BY <1>0, <2>k, <2>5, <2>6, EntriesAreSet
<1> QED BY <1>1, <1>2 DEF EntryInv

\* A cached ALLOW that outlives the webhook for its address was written by a call that
\* was running at the deletion, by a replay from the response store, or for another
\* address with the same cache key.
THEOREM StaleEntries == KSpec => []StaleEntriesExplained
<1>1. KInit => EntryInv
  BY DEF KInit, EntryInv, LaterAnswersWarn, StaleEntriesExplained, Deleted
<1>2. EntryInv => StaleEntriesExplained
  BY DEF EntryInv
<1> QED BY <1>1, <1>2, StepEntry, BothInvariants, InvOrigins, ScreeningIsKept, PTL DEF KSpec
=============================================================================
