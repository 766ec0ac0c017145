--------------------------- MODULE ScreeningProofs ---------------------------
(***************************************************************************)
(* Proofs about Screening, for every set of calls, transactions, addresses *)
(* and answers, and for any number of crashes.                             *)
(***************************************************************************)
EXTENDS Screening, SequenceTheorems, TLAPS

-----------------------------------------------------------------------------
(* The helpers return what their types say.                                *)

\* Decide returns one of the three decisions, whatever exposure it is given.
LEMMA DecideType == ASSUME NEW t, NEW e PROVE Decide(t, e) \in Decisions
  BY DEF Decide, DecideUnknown, Decisions, SafeDecisions

\* The exposure screen.go settles on is one decision.go names, or the vendor's.
LEMMA ExposureType ==
  ASSUME NEW a \in VendorAnswerSet, NEW addr PROVE ExposureOf(a, addr) \in VendorExposures
<1>1. CASE a.exposure = ""
  <2>1. ExposureFromScore(Thresholds, a.score, addr.chain) \in Exposures
    BY DEF ExposureFromScore, Exposures
  <2> QED BY <1>1, <2>1 DEF ExposureOf, VendorExposures
<1>2. CASE a.exposure # ""
  BY <1>2 DEF ExposureOf, VendorAnswerSet
<1> QED BY <1>1, <1>2

\* What Screen makes of a well-formed answer is a well-formed verdict.
LEMMA VerdictType ==
  ASSUME NEW a \in VendorAnswerSet, NEW addr PROVE VerdictOf(a, addr) \in VerdictSet
<1>1. a.score \in Int
  BY DEF VendorAnswerSet
<1> QED BY <1>1, ExposureType, DecideType DEF VerdictOf, VerdictSet

\* So are the fail-safe verdict and a verdict read from the cache.
LEMMA UnreachableType == Unreachable \in VerdictSet
  BY DEF Unreachable, VerdictSet, VendorExposures, Exposures, DecideVendorUnreachable,
         Decisions

LEMMA FromCacheType == ASSUME NEW v \in VerdictSet PROVE FromCache(v) \in VerdictSet
  BY DEF FromCache, VerdictSet

\* The severity is one of the four.
LEMMA SeverityType == ASSUME NEW e PROVE SeverityFor(e) \in Severities
  BY DEF SeverityFor, Severities

\* An alert and an event are well-formed rows.
LEMMA AlertForType ==
  ASSUME NEW c \in Calls, NEW v PROVE AlertFor(c, v) \in AlertSet
  BY SeverityType DEF AlertFor, AlertSet

LEMMA EventForType ==
  ASSUME NEW c \in Calls, NEW v \in VerdictSet
  PROVE  EventFor(c, v) \in EventSet
<1>1. CASE v.cacheHit
  BY <1>1 DEF EventFor, EventSet, VerdictSet
<1>2. CASE ~v.cacheHit
  BY <1>2 DEF EventFor, EventSet, VerdictSet
<1> QED BY <1>1, <1>2

\* A raw response reads back as an answer.
LEMMA RehydrateType ==
  ASSUME NEW raw \in VendorAnswerSet PROVE Rehydrate(raw) \in VendorAnswerSet
  BY DEF Rehydrate, VendorAnswerSet

\* With Chainalysis or the mock it reads back as the answer it was.
LEMMA RehydrateExact ==
  ASSUME Vendor # "trm", NEW raw \in VendorAnswerSet PROVE Rehydrate(raw) = raw
  BY DEF Rehydrate, VendorAnswerSet

\* The keys made of a request are among the keys of the stores.
LEMMA KeyTypes ==
  ASSUME NEW r \in Requests
  PROVE  /\ AddressOf(r) \in Addresses
         /\ CacheKey(AddressOf(r)) \in CacheKeys
         /\ IdempotencyKey(r) \in IdempotencyKeys
<1>1. AddressOf(r) \in Addresses
  BY DEF Requests, AddressOf
<1> QED BY <1>1 DEF CacheKeys, IdempotencyKeys

-----------------------------------------------------------------------------
(* Type correctness.  A running call has its request, and one that has     *)
(* reached a later stage has what the stage reads.                         *)

Before == {"idle", "cacheGet", "storeGet", "calling"}
Holding == {"storePut", "cacheSet"}
Recorded == {"alert", "emit", "done"}

\* What a call has at each stage of Screen.
StageOf(c) ==
    /\ pc[c] \in Running => req[c] \in Requests
    /\ pc[c] = "idle" => req[c] = None
    /\ told[c] # None \/ screens[c] # None => req[c] # None
    /\ pc[c] \in Before => told[c] = None /\ verdict[c] = None /\ screens[c] = None
    /\ pc[c] \in Holding => got[c] # None /\ verdict[c] = None /\ screens[c] = None
    /\ pc[c] = "persist" => verdict[c] # None /\ screens[c] = None
    /\ pc[c] \in Recorded => verdict[c] # None /\ screens[c] = verdict[c]
    /\ pc[c] = "alert" => AlertDue(verdict[c])
    /\ screens[c] # None => screens[c] = verdict[c]

Stages == \A c \in Calls : StageOf(c)

TInv == TypeOK /\ Stages

USE ScreeningAssumption

LEMMA InitTInv == Init => TInv
  BY DEF Init, TInv, TypeOK, Stages, StageOf, PCs, Before, Holding, Recorded, Running, Ended

THEOREM StepTInv == TInv /\ [Next]_vars => TInv'
<1> SUFFICES ASSUME TInv, [Next]_vars PROVE TInv'
  OBVIOUS
<1> USE DEF TInv, TypeOK, Stages, StageOf, PCs, Before, Holding, Recorded, Running, Ended,
            shared, Goto
<1>1. ASSUME NEW c \in Calls, NEW r \in Requests, Start(c, r) PROVE TInv'
  BY <1>1 DEF Start
<1>2. ASSUME NEW c \in Calls, Reject(c) PROVE TInv'
  BY <1>2 DEF Reject
<1>3. ASSUME NEW c \in Calls, CacheHit(c) PROVE TInv'
  <2>1. CacheEntry(c) \in VerdictSet
    BY <1>3, KeyTypes DEF CacheHit, CacheEntry
  <2>2. FromCache(CacheEntry(c)) \in VerdictSet
    BY <2>1, FromCacheType
  <2> QED BY <1>3, <2>2 DEF CacheHit
<1>4. ASSUME NEW c \in Calls, CacheMiss(c) PROVE TInv'
  BY <1>4 DEF CacheMiss
<1>5. ASSUME NEW c \in Calls, ResponseHit(c) PROVE TInv'
  <2>1. Rehydrate(responses[IdempotencyKey(req[c])]) \in VendorAnswerSet
    BY <1>5, KeyTypes, RehydrateType DEF ResponseHit
  <2> QED BY <1>5, <2>1 DEF ResponseHit
<1>6. ASSUME NEW c \in Calls, ResponseMiss(c) PROVE TInv'
  BY <1>6 DEF ResponseMiss
<1>7. ASSUME NEW c \in Calls, NEW a \in Answers, VendorAnswers(c, a) PROVE TInv'
  BY <1>7 DEF VendorAnswers
<1>8. ASSUME NEW c \in Calls, VendorFails(c) PROVE TInv'
  BY <1>8, UnreachableType DEF VendorFails
<1>9. ASSUME NEW c \in Calls, PutResponse(c) PROVE TInv'
  BY <1>9 DEF PutResponse, PutOnce
<1>10. ASSUME NEW c \in Calls, CacheSet(c) PROVE TInv'
  <2>1. VerdictOf(got[c], AddressOf(req[c])) \in VerdictSet
    BY <1>10, VerdictType DEF CacheSet
  <2> QED BY <1>10, <2>1 DEF CacheSet
<1>11. ASSUME NEW c \in Calls, Persist(c) PROVE TInv'
  BY <1>11 DEF Persist, AfterPersist
<1>12. ASSUME NEW c \in Calls, PersistFails(c) PROVE TInv'
  BY <1>12 DEF PersistFails
<1>13. ASSUME NEW c \in Calls, CreateAlert(c) PROVE TInv'
  BY <1>13, AlertForType DEF CreateAlert
<1>14. ASSUME NEW c \in Calls, CreateAlertFails(c) PROVE TInv'
  BY <1>14, AlertForType DEF CreateAlertFails
<1>15. ASSUME NEW c \in Calls, EmitAudit(c) PROVE TInv'
  BY <1>15, EventForType DEF EmitAudit
<1>16. ASSUME NEW c \in Calls, EmitAuditDropped(c) PROVE TInv'
  BY <1>16 DEF EmitAuditDropped
<1>17. ASSUME NEW k \in CacheKeys, CacheDrop(k) PROVE TInv'
  BY <1>17 DEF CacheDrop
<1>18. CASE Crash
  BY <1>18 DEF Crash
<1>19. CASE UNCHANGED vars
  BY <1>19 DEF vars
<1> QED
  BY <1>1, <1>2, <1>3, <1>4, <1>5, <1>6, <1>7, <1>8, <1>9, <1>10, <1>11, <1>12, <1>13,
     <1>14, <1>15, <1>16, <1>17, <1>18, <1>19 DEF Next, Arrive, CallStep, Finished

\* Every variable keeps its type: in particular no call reaches a stage without
\* what the stage reads (no nil verdict is persisted, no nil response cached).
THEOREM TypeCorrect == Spec => []TypeOK
<1>1. TInv => TypeOK
  BY DEF TInv
<1> QED BY <1>1, InitTInv, StepTInv, PTL DEF Spec

-----------------------------------------------------------------------------
(* Where verdicts come from.  The invariant follows an answer along its    *)
(* way: from the vendor into told, the response store and the call that    *)
(* holds it, from there into the cache and the verdict.  What is read back *)
(* from the response store is never put there again.                       *)

\* A stored response is one the vendor gave for that key.
ResponsesTold ==
    \A k \in IdempotencyKeys : responses[k] # None =>
        \E d \in Calls : told[d] = responses[k] /\ IdempotencyKey(req[d]) = k

\* The response a call holds is the vendor's to the call itself, or is read back from
\* the one it gave under the same key.
GotTold ==
    \A c \in Calls :
        /\ pc[c] = "storePut" => told[c] = got[c]
        /\ pc[c] = "cacheSet" =>
              \/ told[c] = got[c]
              \/ /\ told[c] = None
                 /\ \E d \in Calls : /\ told[d] # None
                                     /\ IdempotencyKey(req[d]) = IdempotencyKey(req[c])
                                     /\ got[c] = Rehydrate(told[d])

\* A verdict, once formed, has an origin, whether or not it is persisted.
VerdictsHeldAreVouched == \A c \in Calls : verdict[c] # None => Vouched(c, verdict[c])

Origins == ResponsesTold /\ GotTold /\ CacheHoldsAnswers /\ VerdictsHeldAreVouched

IInv == TInv /\ Origins

\* No history is rewritten: a step keeps every answer given so far, and every request.
Grows ==
    \A d \in Calls :
        /\ told[d] # None => told'[d] = told[d] /\ req'[d] = req[d]
        /\ req[d] # None => req'[d] = req[d]

LEMMA NextGrows == TInv /\ [Next]_vars => Grows
<1> SUFFICES ASSUME TInv, [Next]_vars PROVE Grows
  OBVIOUS
<1>1. ASSUME NEW c \in Calls, NEW r \in Requests, Start(c, r) PROVE Grows
  BY <1>1 DEF Start, Goto, TInv, TypeOK, Stages, StageOf, Before, Grows
<1>2. ASSUME NEW c \in Calls, NEW a \in Answers, VendorAnswers(c, a) PROVE Grows
  BY <1>2 DEF VendorAnswers, Goto, TInv, TypeOK, Stages, StageOf, Before, Grows
<1>3. CASE UNCHANGED <<told, req>>
  BY <1>3 DEF Grows
<1> QED
  BY <1>1, <1>2, <1>3
     DEF Next, Arrive, CallStep, Finished, vars, Reject, CacheHit, CacheMiss, ResponseHit,
         ResponseMiss, VendorFails, PutResponse, CacheSet, Persist, PersistFails,
         CreateAlert, CreateAlertFails, EmitAudit, EmitAuditDropped, CacheDrop, Crash

\* A verdict keeps its origin as long as its call's request and answer stay.
LEMMA VouchedStable ==
  ASSUME Grows, NEW c \in Calls, Vouched(c, verdict[c]),
         verdict'[c] = verdict[c], told'[c] = told[c], req'[c] = req[c]
  PROVE  Vouched(c, verdict[c])'
<1>1. CASE verdict[c].cacheHit
  <2> DEFINE w == [verdict[c] EXCEPT !.cacheHit = FALSE]
             k == CacheKey(AddressOf(req[c]))
  <2>1. PICK s \in Calls : /\ req[s] # None /\ CacheKey(AddressOf(req[s])) = k
                           /\ \/ told[s] # None /\ w = VerdictOf(told[s], AddressOf(req[s]))
                              \/ ReadBack(w, req[s])
    BY <1>1 DEF Vouched, CachedFor
  <2>2. req'[s] = req[s]
    BY <2>1 DEF Grows
  <2>3. \/ told'[s] # None /\ w = VerdictOf(told'[s], AddressOf(req'[s]))
        \/ \E d \in Calls : /\ told'[d] # None
                            /\ IdempotencyKey(req'[d]) = IdempotencyKey(req'[s])
                            /\ w = VerdictOf(Rehydrate(told'[d]), AddressOf(req'[s]))
    BY <2>1, <2>2 DEF ReadBack, Grows
  <2>4. CachedFor(w, k)'
    BY <2>1, <2>2, <2>3 DEF CachedFor, ReadBack
  <2> QED BY <1>1, <2>4 DEF Vouched
<1>2. CASE ~verdict[c].cacheHit
  BY <1>2 DEF Vouched, ReadBack, Grows
<1> QED BY <1>1, <1>2

LEMMA InitOrigins == Init => Origins
  BY DEF Init, Origins, ResponsesTold, GotTold, CacheHoldsAnswers, VerdictsHeldAreVouched

\* What a step must show of the four parts, for the call that takes it.
LEMMA StepParts ==
  ASSUME TInv, Origins, Grows, NEW c \in Calls,
         \A d \in Calls \ {c} : /\ pc'[d] = pc[d] /\ got'[d] = got[d]
                                /\ verdict'[d] = verdict[d]
                                /\ told'[d] = told[d] /\ req'[d] = req[d],
         verdict'[c] # None => Vouched(c, verdict[c])',
         pc'[c] = "storePut" => told'[c] = got'[c],
         pc'[c] = "cacheSet" =>
            \/ told'[c] = got'[c]
            \/ /\ told'[c] = None
               /\ \E d \in Calls : /\ told'[d] # None
                                   /\ IdempotencyKey(req'[d]) = IdempotencyKey(req'[c])
                                   /\ got'[c] = Rehydrate(told'[d])
  PROVE  GotTold' /\ VerdictsHeldAreVouched'
<1>1. ASSUME NEW d \in Calls \ {c}, verdict'[d] # None PROVE Vouched(d, verdict[d])'
  <2>1. Vouched(d, verdict[d])
    BY <1>1 DEF Origins, VerdictsHeldAreVouched
  <2> QED BY <1>1, <2>1, VouchedStable
<1>2. VerdictsHeldAreVouched'
  BY <1>1 DEF VerdictsHeldAreVouched
<1>3. ASSUME NEW d \in Calls \ {c}, pc'[d] = "cacheSet"
      PROVE  \/ told'[d] = got'[d]
             \/ /\ told'[d] = None
                /\ \E e \in Calls : /\ told'[e] # None
                                    /\ IdempotencyKey(req'[e]) = IdempotencyKey(req'[d])
                                    /\ got'[d] = Rehydrate(told'[e])
  <2>1. got[d] # None
    BY <1>3 DEF TInv, Stages, StageOf, Holding
  <2> QED BY <1>3, <2>1 DEF Origins, GotTold, Grows
<1>4. GotTold'
  BY <1>3 DEF Origins, GotTold
<1> QED BY <1>2, <1>4

\* A step that leaves the cache and the store alone keeps what they hold vouched.
LEMMA StoresKept ==
  ASSUME Origins, Grows
  PROVE  /\ responses' = responses => ResponsesTold'
         /\ cache' = cache => CacheHoldsAnswers'
<1>1. ASSUME responses' = responses PROVE ResponsesTold'
  BY <1>1 DEF Origins, ResponsesTold, Grows
<1>2. ASSUME cache' = cache PROVE CacheHoldsAnswers'
  BY <1>2 DEF Origins, CacheHoldsAnswers, CachedFor, ReadBack, Grows
<1> QED BY <1>1, <1>2

\* Every step keeps the origins, whatever the vendor.
LEMMA StepOrigins ==
  ASSUME IInv, [Next]_vars PROVE Origins'
<1>0. TInv /\ TInv' /\ Origins /\ Grows
  BY NextGrows, StepTInv DEF IInv
<1>c. ASSUME NEW c \in Calls, CallStep(c) \/ Reject(c) \/ \E r \in Requests : Start(c, r)
      PROVE  \A d \in Calls \ {c} : /\ pc'[d] = pc[d] /\ got'[d] = got[d]
                                    /\ verdict'[d] = verdict[d]
                                    /\ told'[d] = told[d] /\ req'[d] = req[d]
  BY <1>0, <1>c
     DEF CallStep, Start, Reject, CacheHit, CacheMiss, ResponseHit, ResponseMiss,
         VendorAnswers, VendorFails, PutResponse, CacheSet, Persist, PersistFails,
         CreateAlert, CreateAlertFails, EmitAudit, EmitAuditDropped, Goto, TInv, TypeOK
<1>k. ASSUME NEW c \in Calls, verdict'[c] = verdict[c], told'[c] = told[c],
             req'[c] = req[c], verdict'[c] # None
      PROVE  Vouched(c, verdict[c])'
  <2>1. Vouched(c, verdict[c])
    BY <1>0, <1>k DEF Origins, VerdictsHeldAreVouched
  <2> QED BY <1>0, <1>k, <2>1, VouchedStable
<1>1. ASSUME NEW c \in Calls, NEW r \in Requests, Start(c, r) PROVE Origins'
  <2>1. verdict'[c] = None /\ pc'[c] = "cacheGet"
    BY <1>0, <1>1 DEF Start, Goto, TInv, TypeOK, Stages, StageOf, Before
  <2>2. GotTold' /\ VerdictsHeldAreVouched'
    BY <1>0, <1>c, <1>1, <2>1, StepParts
  <2> QED BY <1>0, <1>1, <2>2, StoresKept DEF Start, shared, Origins
<1>2. ASSUME NEW c \in Calls, CacheHit(c) PROVE Origins'
  <2> DEFINE k == CacheKey(AddressOf(req[c]))
             e == cache[k]
  <2>1. req[c] \in Requests /\ told[c] = None
    BY <1>0, <1>2 DEF CacheHit, Goto, TInv, Stages, StageOf, Before, Running, PCs, Ended
  <2>2. k \in CacheKeys
    BY <2>1, KeyTypes
  <2>3. e # None /\ e \in VerdictSet
    BY <1>0, <1>2, <2>2 DEF CacheHit, CacheEntry, TInv, TypeOK
  <2>4. CachedFor(e, k)
    BY <1>0, <2>2, <2>3 DEF Origins, CacheHoldsAnswers
  <2>5. e.cacheHit = FALSE
    <3>1. \E a, addr : e = VerdictOf(a, addr)
      BY <2>4 DEF CachedFor, ReadBack
    <3> QED BY <3>1 DEF VerdictOf
  <2>6. [FromCache(e) EXCEPT !.cacheHit = FALSE] = e /\ FromCache(e).cacheHit
    BY <2>3, <2>5 DEF FromCache, VerdictSet
  <2>8. verdict'[c] = FromCache(e) /\ pc'[c] = "persist" /\ UNCHANGED <<told, req>>
    BY <1>0, <1>2 DEF CacheHit, CacheEntry, Goto, TInv, TypeOK
  <2>9. Vouched(c, verdict[c])'
    BY <2>1, <2>4, <2>6, <2>8 DEF Vouched, CachedFor, ReadBack
  <2>10. GotTold' /\ VerdictsHeldAreVouched'
    BY <1>0, <1>c, <1>2, <2>8, <2>9, StepParts DEF CallStep
  <2> QED BY <1>0, <1>2, <2>10, StoresKept DEF CacheHit, shared, Origins
<1>3. ASSUME NEW c \in Calls, ResponseHit(c) PROVE Origins'
  <2> DEFINE raw == responses[IdempotencyKey(req[c])]
  <2>1. /\ req[c] \in Requests /\ told[c] = None /\ verdict[c] = None
        /\ IdempotencyKey(req[c]) \in IdempotencyKeys
    BY <1>0, <1>3, KeyTypes
       DEF ResponseHit, Goto, TInv, Stages, StageOf, Before, Running, PCs, Ended
  <2>2. raw # None /\ raw \in VendorAnswerSet
    BY <1>0, <1>3, <2>1 DEF ResponseHit, TInv, TypeOK
  <2>4. got'[c] = Rehydrate(raw) /\ pc'[c] = "cacheSet" /\ UNCHANGED <<told, req, verdict>>
    BY <1>0, <1>3 DEF ResponseHit, Goto, TInv, TypeOK
  <2>5. \E d \in Calls : told[d] = raw /\ IdempotencyKey(req[d]) = IdempotencyKey(req[c])
    BY <1>0, <2>1, <2>2 DEF Origins, ResponsesTold
  <2>3. \E d \in Calls : /\ told'[d] # None
                          /\ IdempotencyKey(req'[d]) = IdempotencyKey(req'[c])
                          /\ got'[c] = Rehydrate(told'[d])
    BY <2>2, <2>4, <2>5
  <2>6. GotTold' /\ VerdictsHeldAreVouched'
    BY <1>0, <1>c, <1>3, <2>1, <2>3, <2>4, StepParts DEF CallStep
  <2> QED BY <1>0, <1>3, <2>6, StoresKept DEF ResponseHit, shared, Origins
<1>4. ASSUME NEW c \in Calls, NEW a \in Answers, VendorAnswers(c, a) PROVE Origins'
  <2>1. verdict'[c] = None /\ told'[c] = got'[c] /\ pc'[c] = "storePut"
    BY <1>0, <1>4 DEF VendorAnswers, Goto, TInv, TypeOK, Stages, StageOf, Before
  <2>2. GotTold' /\ VerdictsHeldAreVouched'
    BY <1>0, <1>c, <1>4, <2>1, StepParts DEF CallStep
  <2> QED BY <1>0, <1>4, <2>2, StoresKept DEF VendorAnswers, shared, Origins
<1>5. ASSUME NEW c \in Calls, VendorFails(c) PROVE Origins'
  <2>1. told'[c] = None /\ verdict'[c] = Unreachable /\ pc'[c] = "persist"
    BY <1>0, <1>5 DEF VendorFails, Goto, TInv, TypeOK, Stages, StageOf, Before
  <2>2. Vouched(c, verdict[c])'
    BY <2>1 DEF Vouched, Unreachable
  <2>3. GotTold' /\ VerdictsHeldAreVouched'
    BY <1>0, <1>c, <1>5, <2>1, <2>2, StepParts DEF CallStep
  <2> QED BY <1>0, <1>5, <2>3, StoresKept DEF VendorFails, shared, Origins
<1>6. ASSUME NEW c \in Calls, PutResponse(c) PROVE Origins'
  <2>1. /\ verdict'[c] = None /\ pc'[c] = "cacheSet"
        /\ told[c] = got[c] /\ UNCHANGED <<told, req, got>>
    BY <1>0, <1>6
       DEF PutResponse, Goto, TInv, TypeOK, Stages, StageOf, Holding, Origins, GotTold
  <2>2. GotTold' /\ VerdictsHeldAreVouched'
    BY <1>0, <1>c, <1>6, <2>1, StepParts DEF CallStep
  <2>3. ResponsesTold'
    BY <1>0, <1>6, <2>1 DEF PutResponse, PutOnce, Origins, ResponsesTold, TInv, TypeOK
  <2> QED BY <1>0, <1>6, <2>2, <2>3, StoresKept DEF PutResponse, Origins
<1>7. ASSUME NEW c \in Calls, CacheSet(c) PROVE Origins'
  <2> DEFINE v == VerdictOf(got[c], AddressOf(req[c]))
             k == CacheKey(AddressOf(req[c]))
  <2>1. /\ req[c] \in Requests /\ pc[c] = "cacheSet" /\ pc'[c] = "persist"
        /\ verdict'[c] = v /\ UNCHANGED <<told, req>> /\ got[c] # None
    BY <1>0, <1>7
       DEF CacheSet, Goto, TInv, TypeOK, Stages, StageOf, Holding, Running, PCs, Ended
  <2>2. \/ told[c] = got[c]
        \/ /\ told[c] = None
           /\ \E d \in Calls : /\ told[d] # None
                               /\ IdempotencyKey(req[d]) = IdempotencyKey(req[c])
                               /\ got[c] = Rehydrate(told[d])
    BY <1>0, <2>1 DEF Origins, GotTold
  <2>3. v.cacheHit = FALSE
    BY DEF VerdictOf
  <2>5. CachedFor(v, k)
    BY <2>1, <2>2 DEF CachedFor, ReadBack
  <2>6. Vouched(c, verdict[c])'
    BY <2>1, <2>2, <2>3 DEF Vouched, ReadBack
  <2>7. GotTold' /\ VerdictsHeldAreVouched'
    BY <1>0, <1>c, <1>7, <2>1, <2>6, StepParts DEF CallStep
  <2>8. \A i \in CacheKeys : cache'[i] \in {cache[i]} \cup {IF i = k THEN v ELSE cache[i]}
    BY <1>0, <1>7 DEF CacheSet, TInv, TypeOK
  <2>9. CacheHoldsAnswers'
    BY <1>0, <2>1, <2>5, <2>8 DEF Origins, CacheHoldsAnswers, CachedFor, ReadBack
  <2> QED BY <1>0, <1>7, <2>7, <2>9, StoresKept DEF CacheSet, Origins
<1>8. ASSUME NEW c \in Calls,
             \/ Reject(c) \/ CacheMiss(c) \/ ResponseMiss(c) \/ Persist(c)
             \/ PersistFails(c) \/ CreateAlert(c) \/ CreateAlertFails(c)
             \/ EmitAudit(c) \/ EmitAuditDropped(c)
      PROVE  Origins'
  <2>1. /\ pc'[c] \notin {"storePut", "cacheSet"}
        /\ UNCHANGED <<told, req, verdict, responses, cache>>
    BY <1>0, <1>8
       DEF Reject, CacheMiss, ResponseMiss, Persist, PersistFails, CreateAlert,
           CreateAlertFails, EmitAudit, EmitAuditDropped, Goto, AfterPersist, shared,
           TInv, TypeOK
  <2>2. GotTold' /\ VerdictsHeldAreVouched'
    BY <1>0, <1>c, <1>k, <1>8, <2>1, StepParts DEF CallStep
  <2> QED BY <1>0, <2>1, <2>2, StoresKept DEF Origins
<1>9. CASE \/ \E k \in CacheKeys : CacheDrop(k)
           \/ Crash
           \/ UNCHANGED vars
  <2>1. UNCHANGED <<told, req, verdict, got>>
    BY <1>9 DEF CacheDrop, Crash, vars
  <2>2. \A c \in Calls : pc'[c] = pc[c] \/ pc'[c] = "crashed"
    BY <1>9 DEF CacheDrop, Crash, vars
  <2>3. VerdictsHeldAreVouched'
    BY <1>k, <2>1 DEF VerdictsHeldAreVouched
  <2>4. GotTold'
    BY <1>0, <2>1, <2>2 DEF Origins, GotTold
  <2>5. ResponsesTold' /\ CacheHoldsAnswers'
    <3>1. responses' = responses \/ responses' = [k \in IdempotencyKeys |-> None]
      BY <1>9 DEF CacheDrop, Crash, vars, shared
    <3>2. \A k \in CacheKeys : cache'[k] = cache[k] \/ cache'[k] = None
      BY <1>0, <1>9 DEF CacheDrop, Crash, vars, shared, TInv, TypeOK
    <3>3. ResponsesTold'
      BY <1>0, <3>1, StoresKept DEF ResponsesTold
    <3>4. CacheHoldsAnswers'
      BY <1>0, <2>1, <3>2 DEF Origins, CacheHoldsAnswers, CachedFor, ReadBack
    <3> QED BY <3>3, <3>4
  <2> QED BY <2>3, <2>4, <2>5 DEF Origins
<1> QED
  BY <1>1, <1>2, <1>3, <1>4, <1>5, <1>6, <1>7, <1>8, <1>9, <1>0 DEF IInv, Next, Arrive, CallStep, Finished

LEMMA InvOrigins == Spec => []IInv
<1>1. Init => IInv
  BY InitTInv, InitOrigins DEF IInv
<1>2. IInv /\ [Next]_vars => IInv'
  BY StepTInv, StepOrigins DEF IInv
<1> QED BY <1>1, <1>2, PTL DEF Spec

\* For every vendor, and whichever keys coincide, each persisted verdict is the vendor's
\* to the call, what is read back of one it gave under the call's idempotency key, a
\* cached one under the key of its address, or the fail-safe one, and the cache holds
\* nothing else: under all interleavings, failures and crashes.
THEOREM VerdictsVouched == Spec => []VerdictsAreVouched
<1>1. IInv => VerdictsAreVouched
  BY DEF IInv, TInv, Stages, StageOf, Origins, VerdictsHeldAreVouched, VerdictsAreVouched
<1> QED BY <1>1, InvOrigins, PTL

-----------------------------------------------------------------------------
(* What is gained when the keys tell requests and addresses apart.         *)

\* The length of a concatenation.
LEMMA LenJoin ==
  ASSUME NEW s \in Seq(Parts), NEW u \in Seq(Parts)
  PROVE  s \o u \in Seq(Parts) /\ Len(s \o u) = Len(s) + Len(u)
BY ConcatProperties

\* Two concatenations that are equal, and whose first halves are as long, have equal
\* halves.
LEMMA SameSplit ==
  ASSUME NEW s \in Seq(Parts), NEW t \in Seq(Parts), Len(s) = Len(t)
  PROVE  \A u, v \in Seq(Parts) : s \o u = t \o v => s = t /\ u = v
<1> SUFFICES ASSUME NEW u \in Seq(Parts), NEW v \in Seq(Parts), s \o u = t \o v
             PROVE  s = t /\ u = v
  OBVIOUS
<1>1. Len(s \o u) = Len(s) + Len(u) /\ Len(t \o v) = Len(t) + Len(v)
  BY ConcatProperties
<1>2. Len(u) = Len(v)
  BY <1>1, LenProperties
<1>3. \A i \in 1..Len(s) : s[i] = t[i]
  <2> TAKE i \in 1..Len(s)
  <2>1. i \in 1..(Len(s) + Len(u)) /\ i <= Len(s) /\ i <= Len(t)
    BY LenProperties
  <2>2. (s \o u)[i] = s[i] /\ (t \o v)[i] = t[i]
    BY <2>1, <1>2, ConcatProperties
  <2> QED BY <2>2
<1>4. \A i \in 1..Len(u) : u[i] = v[i]
  <2> TAKE i \in 1..Len(u)
  <2> DEFINE j == Len(s) + i
  <2>1. j \in 1..(Len(s) + Len(u)) /\ j > Len(s) /\ j - Len(s) = i
    BY LenProperties
  <2>2. (s \o u)[j] = u[i] /\ (t \o v)[j] = v[i]
    BY <2>1, <1>2, ConcatProperties
  <2> QED BY <2>2
<1>5. s = t
  BY <1>3, SeqEqual
<1>6. u = v
  BY <1>2, <1>4, SeqEqual
<1> QED BY <1>5, <1>6

\* The keys tell them apart when no transaction id and no chain holds a colon: the first
\* part of an idempotency key is then the transaction id and its last the chain, and the
\* first part of a cache key is the chain.  An address may hold colons.
THEOREM ColonFreeKeysApart ==
  ASSUME \A t \in Txs : Len(t) = 1,
         \A a \in Addresses : Len(a.chain) = 1
  PROVE  KeysApart
<1>1. ASSUME NEW a \in Addresses
      PROVE  /\ a = [address |-> a.address, chain |-> a.chain]
             /\ a.address \in Seq(Parts) /\ a.chain \in Seq(Parts) /\ Len(a.chain) = 1
  BY TextAssumption DEF Texts
<1>2. ASSUME NEW a \in Addresses, NEW b \in Addresses, CacheKey(a) = CacheKey(b)
      PROVE  a = b
  <2>1. /\ a.address \in Seq(Parts) /\ a.chain \in Seq(Parts) /\ Len(a.chain) = 1
        /\ b.address \in Seq(Parts) /\ b.chain \in Seq(Parts) /\ Len(b.chain) = 1
    BY <1>1
  <2>2. a.chain \o a.address = b.chain \o b.address
    BY <1>2 DEF CacheKey
  <2>3. \A x, y \in Seq(Parts) :
          a.chain \o x = b.chain \o y => a.chain = b.chain /\ x = y
    <3>1. Len(a.chain) = Len(b.chain)
      BY <2>1
    <3> QED BY <2>1, <3>1, SameSplit, Zenon
  <2>4. a.chain = b.chain /\ a.address = b.address
    BY <2>1, <2>2, <2>3, Zenon
  <2> QED BY <1>1, <2>4
<1>3. ASSUME NEW t \in Txs, NEW a \in Addresses, NEW u \in Txs, NEW b \in Addresses,
             IdempotencyKey(<<t, a>>) = IdempotencyKey(<<u, b>>)
      PROVE  t = u /\ a = b
  <2>1. /\ t \in Seq(Parts) /\ u \in Seq(Parts) /\ Len(t) = 1 /\ Len(u) = 1
        /\ a.address \in Seq(Parts) /\ a.chain \in Seq(Parts) /\ Len(a.chain) = 1
        /\ b.address \in Seq(Parts) /\ b.chain \in Seq(Parts) /\ Len(b.chain) = 1
    BY <1>1 DEF Texts
  <2> DEFINE p == t \o a.address
             q == u \o b.address
  <2>2. p \o a.chain = q \o b.chain
    BY <1>3 DEF IdempotencyKey, AddressOf
  <2>3. p \in Seq(Parts) /\ q \in Seq(Parts)
    BY <2>1, LenJoin, Zenon
  <2> HIDE DEF p, q
  <2>4. Len(p \o a.chain) = Len(p) + Len(a.chain) /\ Len(q \o b.chain) = Len(q) + Len(b.chain)
    BY <2>1, <2>3, LenJoin, Zenon
  <2>5. Len(p) = Len(q)
    BY <2>1, <2>2, <2>3, <2>4, LenProperties
  <2>6. \A x, y \in Seq(Parts) : p \o x = q \o y => p = q /\ x = y
    BY <2>3, <2>5, SameSplit
  <2>7. p = q /\ a.chain = b.chain
    BY <2>1, <2>2, <2>6, Zenon
  <2>8. \A x, y \in Seq(Parts) : t \o x = u \o y => t = u /\ x = y
    BY <2>1, SameSplit
  <2>9. t \o a.address = u \o b.address
    BY <2>7 DEF p, q
  <2>10. t = u /\ a.address = b.address
    BY <2>1, <2>8, <2>9, Zenon
  <2> QED BY <1>1, <2>7, <2>10
<1>4. ASSUME NEW r \in Requests, NEW s \in Requests, IdempotencyKey(r) = IdempotencyKey(s)
      PROVE  r = s
  <2>1. PICK t \in Txs, a \in Addresses : r = <<t, a>>
    BY DEF Requests
  <2>2. PICK u \in Txs, b \in Addresses : s = <<u, b>>
    BY DEF Requests
  <2> QED BY <1>3, <1>4, <2>1, <2>2
<1> QED BY <1>2, <1>4 DEF KeysApart

\* With unique keys no answer crosses from one address, or one transaction, to another,
\* whichever calls race, fail or crash.
THEOREM AnswersApart == KeysApart => (Spec => []AnswersStayApart)
<1> SUFFICES ASSUME KeysApart PROVE Spec => []AnswersStayApart
  OBVIOUS
<1>1. ASSUME TInv, VerdictsAreVouched PROVE AnswersStayApart
  <2>1. \A d \in Calls : req[d] # None => req[d] \in Requests
    BY <1>1 DEF TInv, TypeOK
  <2>2. \A d \in Calls : told[d] # None => req[d] # None
    BY <1>1 DEF TInv, Stages, StageOf
  <2>3. ASSUME NEW v, NEW d \in Calls, req[d] # None, ReadBack(v, req[d])
        PROVE  AnswerTo(v, req[d])
    BY <2>1, <2>2, <2>3 DEF ReadBack, AnswerTo, KeysApart
  <2>4. ASSUME NEW v, NEW a \in Addresses, CachedFor(v, CacheKey(a))
        PROVE  AnswerAbout(v, a)
    <3>1. PICK s \in Calls :
            /\ req[s] # None /\ CacheKey(AddressOf(req[s])) = CacheKey(a)
            /\ \/ told[s] # None /\ v = VerdictOf(told[s], AddressOf(req[s]))
               \/ ReadBack(v, req[s])
      BY <2>4 DEF CachedFor
    <3>2. AddressOf(req[s]) = a
      BY <2>1, <3>1, KeyTypes DEF KeysApart
    <3>3. CASE told[s] # None /\ v = VerdictOf(told[s], AddressOf(req[s]))
      BY <3>2, <3>3 DEF AnswerAbout
    <3>4. CASE ReadBack(v, req[s])
      BY <2>3, <3>1, <3>2, <3>4 DEF AnswerTo, AnswerAbout
    <3> QED BY <3>1, <3>3, <3>4
  <2>5. ASSUME NEW c \in Calls, screens[c] # None
        PROVE  IF screens[c].cacheHit
                 THEN AnswerAbout([screens[c] EXCEPT !.cacheHit = FALSE], AddressOf(req[c]))
                 ELSE screens[c] = Unreachable \/ AnswerTo(screens[c], req[c])
    <3>1. Vouched(c, screens[c])
      BY <1>1, <2>5 DEF VerdictsAreVouched
    <3>2. req[c] # None /\ req[c] \in Requests
      BY <1>1, <2>1, <2>5 DEF TInv, Stages, StageOf
    <3>3. CASE screens[c].cacheHit
      BY <2>4, <3>1, <3>2, <3>3, KeyTypes DEF Vouched
    <3>4. CASE ~screens[c].cacheHit
      <4>1. CASE told[c] # None
        BY <3>1, <3>4, <4>1 DEF Vouched, AnswerTo
      <4>2. CASE told[c] = None
        BY <2>3, <3>1, <3>2, <3>4, <4>2 DEF Vouched
      <4> QED BY <4>1, <4>2
    <3> QED BY <3>3, <3>4
  <2>6. \A a \in Addresses : cache[CacheKey(a)] # None => AnswerAbout(cache[CacheKey(a)], a)
    BY <1>1, <2>4 DEF VerdictsAreVouched, CacheHoldsAnswers, CacheKeys
  <2> QED BY <2>5, <2>6 DEF AnswersStayApart
<1>2. IInv => TInv
  BY DEF IInv
<1> QED BY <1>1, <1>2, InvOrigins, VerdictsVouched, PTL

\* A verdict that allows, and is neither read back nor cached, rests on the answer to
\* the call itself; the others on an answer about the address, if keys are unique and
\* nothing is lost in reading it back.
LEMMA AllowedIsAnswered ==
  ASSUME Vendor # "trm", KeysApart, TInv, NEW c \in Calls, req[c] \in Requests,
         NEW v \in VerdictSet, Vouched(c, v), v.decision = "ALLOW"
  PROVE  \E d \in Calls : /\ told[d] # None /\ AddressOf(req[d]) = AddressOf(req[c])
                          /\ VerdictOf(told[d], AddressOf(req[c])).decision = "ALLOW"
<1>1. \A d \in Calls : told[d] # None => /\ Rehydrate(told[d]) = told[d]
                                         /\ req[d] \in Requests
  BY RehydrateExact DEF TInv, TypeOK, Stages, StageOf
<1>2. ASSUME NEW w, w.decision = "ALLOW", NEW s \in Calls, req[s] \in Requests,
             \/ told[s] # None /\ w = VerdictOf(told[s], AddressOf(req[s]))
             \/ ReadBack(w, req[s])
      PROVE  \E d \in Calls : /\ told[d] # None /\ AddressOf(req[d]) = AddressOf(req[s])
                              /\ VerdictOf(told[d], AddressOf(req[s])).decision = "ALLOW"
  <2>1. CASE told[s] # None /\ w = VerdictOf(told[s], AddressOf(req[s]))
    BY <1>2, <2>1
  <2>2. CASE ReadBack(w, req[s])
    BY <1>1, <1>2, <2>2 DEF ReadBack, KeysApart
  <2> QED BY <1>2, <2>1, <2>2
<1>3. CASE v.cacheHit
  <2> DEFINE w == [v EXCEPT !.cacheHit = FALSE]
  <2>1. w.decision = "ALLOW" /\ CachedFor(w, CacheKey(AddressOf(req[c])))
    BY <1>3 DEF VerdictSet, Vouched
  <2> HIDE DEF w
  <2>2. PICK s \in Calls :
          /\ req[s] # None /\ CacheKey(AddressOf(req[s])) = CacheKey(AddressOf(req[c]))
          /\ \/ told[s] # None /\ w = VerdictOf(told[s], AddressOf(req[s]))
             \/ ReadBack(w, req[s])
    BY <2>1 DEF CachedFor
  <2>3. req[s] \in Requests
    BY <2>2 DEF TInv, TypeOK
  <2>4. AddressOf(req[s]) = AddressOf(req[c])
    BY <2>2, <2>3, KeyTypes DEF KeysApart
  <2> QED BY <1>2, <2>1, <2>2, <2>3, <2>4
<1>4. CASE ~v.cacheHit
  <2>1. v # Unreachable
    BY DEF Unreachable, DecideVendorUnreachable
  <2> QED BY <1>2, <1>4, <2>1 DEF Vouched
<1> QED BY <1>3, <1>4

\* So, with Chainalysis or the mock and unique keys, no ALLOW is recorded that the vendor
\* has not cleared: an outage, a full queue, a crash or a race never turns into one.
THEOREM AllowVouched == Vendor # "trm" /\ KeysApart => (Spec => []AllowIsVouched)
<1> SUFFICES ASSUME Vendor # "trm", KeysApart PROVE Spec => []AllowIsVouched
  OBVIOUS
<1>1. TInv /\ VerdictsAreVouched => AllowIsVouched
  <2> SUFFICES ASSUME TInv, VerdictsAreVouched, NEW c \in Calls, screens[c] # None,
                      screens[c].decision = "ALLOW"
               PROVE  \E d \in Calls :
                        /\ told[d] # None
                        /\ AddressOf(req[d]) = AddressOf(req[c])
                        /\ VerdictOf(told[d], AddressOf(req[d])).decision = "ALLOW"
    BY DEF AllowIsVouched
  <2>1. Vouched(c, screens[c]) /\ screens[c] \in VerdictSet /\ req[c] \in Requests
    BY DEF VerdictsAreVouched, TInv, TypeOK, Stages, StageOf
  <2>2. PICK d \in Calls : /\ told[d] # None /\ AddressOf(req[d]) = AddressOf(req[c])
                           /\ VerdictOf(told[d], AddressOf(req[c])).decision = "ALLOW"
    BY <2>1, AllowedIsAnswered
  <2> QED BY <2>2
<1>2. IInv => TInv
  BY DEF IInv
<1> QED BY <1>1, <1>2, InvOrigins, VerdictsVouched, PTL

-----------------------------------------------------------------------------
(* The screen path implements FailSafe.                                    *)

\* A vouched verdict that allows is about an address the vendor has cleared.
LEMMA AllowedIsCleared ==
  ASSUME Vendor # "trm", KeysApart, TInv, NEW c \in Calls, req[c] \in Requests,
         NEW v \in VerdictSet, Vouched(c, v), v.decision = "ALLOW"
  PROVE  AddressOf(req[c]) \in Cleared
<1> DEFINE addr == AddressOf(req[c])
<1>1. addr \in Addresses
  BY KeyTypes
<1>2. PICK d \in Calls : /\ told[d] # None /\ AddressOf(req[d]) = addr
                         /\ VerdictOf(told[d], addr).decision = "ALLOW"
  BY AllowedIsAnswered
<1>3. Decide(Thresholds, ExposureOf(told[d], addr)) = "ALLOW"
  BY <1>2 DEF VerdictOf
<1> QED BY <1>1, <1>2, <1>3 DEF Cleared

\* What the vendor has cleared stays cleared.
LEMMA ClearedGrows == Grows => Cleared \subseteq Cleared'
  BY DEF Grows, Cleared

\* A step that writes no row leaves the answers as they are.
LEMMA AnsweredKept ==
  ASSUME TInv, [Next]_vars, UNCHANGED screens PROVE Answered' = Answered
<1>1. ASSUME NEW c \in Calls, screens[c] # None PROVE req'[c] = req[c]
  <2>1. ASSUME NEW d \in Calls, NEW r \in Requests, Start(d, r) PROVE req'[c] = req[c]
    BY <1>1, <2>1 DEF Start, Goto, TInv, TypeOK, Stages, StageOf, Before
  <2>2. CASE UNCHANGED req
    BY <2>2
  <2> QED
    BY <2>1, <2>2
       DEF Next, Arrive, CallStep, Finished, vars, Reject, CacheHit, CacheMiss, ResponseHit,
           ResponseMiss, VendorAnswers, VendorFails, PutResponse, CacheSet, Persist,
           PersistFails, CreateAlert, CreateAlertFails, EmitAudit, EmitAuditDropped,
           CacheDrop, Crash
<1> QED BY <1>1 DEF Answered, AddressOf

\* The step that writes the row of a call is the abstract step that answers it;
\* every other step at most clears an address.
LEMMA StepFailSafe ==
  ASSUME Vendor # "trm", KeysApart, IInv, [Next]_vars
  PROVE  [FS!Next]_<<Cleared, Answered>>
<1>0. TInv /\ Origins /\ Grows
  BY NextGrows DEF IInv
<1>1. ASSUME NEW c \in Calls, Persist(c) \/ PersistFails(c), screens' # screens
      PROVE  FS!Next
  <2>1. /\ verdict[c] # None /\ screens[c] = None /\ req[c] \in Requests
        /\ screens' = [screens EXCEPT ![c] = verdict[c]] /\ UNCHANGED <<told, req>>
    BY <1>0, <1>1 DEF Persist, PersistFails, Goto, TInv, Stages, StageOf, Running, PCs, Ended
  <2>2. verdict[c] \in VerdictSet /\ Vouched(c, verdict[c])
    BY <1>0, <2>1 DEF TInv, TypeOK, Origins, VerdictsHeldAreVouched
  <2> DEFINE a == AddressOf(req[c])
             d == verdict[c].decision
  <2>3. a \in Addresses /\ d \in Decisions
    BY <2>1, <2>2, KeyTypes DEF VerdictSet
  <2>4. d = "ALLOW" => a \in Cleared
    BY <1>0, <2>1, <2>2, AllowedIsCleared
  <2>5. Answered[c] = None
    BY <2>1 DEF Answered
  <2>6. Answered' = [Answered EXCEPT ![c] = <<a, d>>]
    BY <1>0, <2>1 DEF Answered, TInv, TypeOK, AddressOf
  <2>7. Cleared' = Cleared
    BY <2>1 DEF Cleared
  <2>8. FS!Answer(c, a, d)
    BY <2>4, <2>5, <2>6, <2>7 DEF FS!Answer
  <2> QED BY <2>3, <2>8 DEF FS!Next
<1>2. ASSUME UNCHANGED screens PROVE FS!Next
  <2>1. Answered' = Answered
    BY <1>0, <1>2, AnsweredKept
  <2>2. Cleared \subseteq Cleared' /\ Cleared' \subseteq Addresses
    BY <1>0, ClearedGrows DEF Cleared
  <2> QED BY <2>1, <2>2 DEF FS!Next, FS!Clear
<1> QED
  BY <1>1, <1>2
     DEF Next, Arrive, CallStep, Finished, vars, shared, Start, Reject, CacheHit, CacheMiss,
         ResponseHit, ResponseMiss, VendorAnswers, VendorFails, PutResponse, CacheSet,
         CreateAlert, CreateAlertFails, EmitAudit, EmitAuditDropped, CacheDrop, Crash

\* With Chainalysis or the mock and unique keys, the screen path implements FailSafe for
\* any calls, transactions, addresses, answers and number of crashes: the row of a call
\* never changes, and an ALLOW is written only for an address the vendor has already
\* cleared.
THEOREM FailSafeImplemented == Vendor # "trm" /\ KeysApart => (Spec => ImplementsFailSafe)
<1> SUFFICES ASSUME Vendor # "trm", KeysApart PROVE Spec => ImplementsFailSafe
  OBVIOUS
<1>1. Init => FS!Init
  BY DEF Init, FS!Init, Cleared, Answered
<1>2. IInv /\ [Next]_vars => [FS!Next]_<<Cleared, Answered>>
  BY StepFailSafe
<1> QED BY <1>1, <1>2, InvOrigins, PTL DEF Spec, ImplementsFailSafe, FS!Spec

-----------------------------------------------------------------------------
(* What finalize leaves behind, whichever of its writes fail.              *)

\* An alert or an audit event always has its row and agrees with it, because
\* finalize writes the row first and stops when it cannot.
THEOREM FollowUpsHold == Spec => []FollowUpsAgree
<1> DEFINE Inv == TInv /\ FollowUpsAgree
<1>1. Init => FollowUpsAgree
  BY DEF Init, FollowUpsAgree
<1>2. Inv /\ [Next]_vars => FollowUpsAgree'
  <2> SUFFICES ASSUME Inv, [Next]_vars PROVE FollowUpsAgree'
    OBVIOUS
  <2>0. /\ screens \in [Calls -> VerdictSet \cup {None}]
        /\ alerts \subseteq AlertSet /\ events \subseteq EventSet /\ FollowUpsAgree
    BY DEF TInv, TypeOK
  <2>1. ASSUME NEW c \in Calls, Persist(c) \/ PersistFails(c) PROVE FollowUpsAgree'
    <3>1. screens[c] = None
      BY <2>1 DEF Persist, PersistFails, Goto, TInv, Stages, StageOf
    <3>2. \A d \in Calls : screens[d] # None => screens'[d] = screens[d]
      BY <2>0, <2>1, <3>1 DEF Persist, PersistFails
    <3>3. UNCHANGED <<alerts, events>>
      BY <2>1 DEF Persist, PersistFails
    <3> QED BY <2>0, <3>2, <3>3 DEF FollowUpsAgree, AlertSet, EventSet
  <2>2. ASSUME NEW c \in Calls, CreateAlert(c) \/ CreateAlertFails(c)
        PROVE  FollowUpsAgree'
    <3>1. screens[c] # None /\ screens[c] = verdict[c]
      BY <2>2 DEF CreateAlert, CreateAlertFails, Goto, TInv, Stages, StageOf, Recorded
    <3>2. screens[c].decision # "ALLOW"
      BY <2>2, <3>1 DEF CreateAlert, CreateAlertFails, AlertDue, Goto, TInv, Stages, StageOf
    <3>3. /\ alerts' \subseteq alerts \cup {AlertFor(c, verdict[c])}
          /\ UNCHANGED <<screens, events>>
      BY <2>2 DEF CreateAlert, CreateAlertFails
    <3> QED BY <2>0, <3>1, <3>2, <3>3 DEF AlertFor, FollowUpsAgree
  <2>3. ASSUME NEW c \in Calls, EmitAudit(c) PROVE FollowUpsAgree'
    <3>1. screens[c] # None /\ screens[c] = verdict[c]
      BY <2>3 DEF EmitAudit, Goto, TInv, Stages, StageOf, Recorded
    <3>2. screens[c] \in VerdictSet
      BY <2>0, <3>1
    <3>3. LET ev == EventFor(c, verdict[c])
          IN  /\ ev.screen = c /\ ev.decision = screens[c].decision
              /\ (ev.source = "cache") = screens[c].cacheHit
      <4>1. CASE screens[c].cacheHit
        BY <3>1, <3>2, <4>1 DEF EventFor, VerdictSet
      <4>2. CASE ~screens[c].cacheHit
        BY <3>1, <3>2, <4>2 DEF EventFor, VerdictSet
      <4> QED BY <4>1, <4>2
    <3> QED BY <2>0, <2>3, <3>1, <3>3 DEF EmitAudit, FollowUpsAgree
  <2>4. CASE UNCHANGED <<screens, alerts, events>>
    BY <2>0, <2>4 DEF FollowUpsAgree
  <2> QED
    BY <2>1, <2>2, <2>3, <2>4
       DEF Next, Arrive, CallStep, Finished, vars, shared, Start, Reject, CacheHit, CacheMiss,
           ResponseHit, ResponseMiss, VendorAnswers, VendorFails, PutResponse, CacheSet,
           EmitAuditDropped, CacheDrop, Crash
<1> QED BY <1>1, <1>2, InitTInv, StepTInv, PTL DEF Spec

\* A call on its way has written what finalize has tried so far without a fault.
Followed ==
    \A c \in Calls \ faulted :
        /\ pc[c] \in {"emit", "done"} /\ verdict[c].decision # "ALLOW" =>
              \E al \in alerts : al.screen = c
        /\ pc[c] = "done" => \E ev \in events : ev.screen = c

LEMMA StepFollowed == TInv /\ Followed /\ [Next]_vars => Followed'
<1> SUFFICES ASSUME TInv, Followed, [Next]_vars PROVE Followed'
  OBVIOUS
<1>0. /\ pc \in [Calls -> PCs] /\ verdict \in [Calls -> VerdictSet \cup {None}]
      /\ req \in [Calls -> Requests \cup {None}] /\ got \in [Calls -> VendorAnswerSet \cup {None}]
  BY DEF TInv, TypeOK
<1>1. ASSUME NEW c \in Calls, Persist(c) PROVE Followed'
  BY <1>0, <1>1 DEF Persist, Goto, Followed, AfterPersist, AlertDue
<1>2. ASSUME NEW c \in Calls, CreateAlert(c) PROVE Followed'
  <2>1. AlertFor(c, verdict[c]) \in alerts' /\ AlertFor(c, verdict[c]).screen = c
    BY <1>2 DEF CreateAlert, AlertFor
  <2> QED BY <1>0, <1>2, <2>1 DEF CreateAlert, Goto, Followed
<1>3. ASSUME NEW c \in Calls, CreateAlertFails(c) \/ EmitAuditDropped(c) PROVE Followed'
  <2>1. /\ c \in faulted' /\ faulted \subseteq faulted'
        /\ alerts \subseteq alerts' /\ UNCHANGED <<events, verdict>>
        /\ \A d \in Calls \ {c} : pc'[d] = pc[d]
    BY <1>0, <1>3 DEF CreateAlertFails, EmitAuditDropped, Goto, shared
  <2> QED BY <2>1 DEF Followed
<1>4. ASSUME NEW c \in Calls, EmitAudit(c) PROVE Followed'
  <2>1. EventFor(c, verdict[c]) \in events' /\ EventFor(c, verdict[c]).screen = c
    BY <1>4 DEF EmitAudit, EventFor
  <2> QED BY <1>0, <1>4, <2>1 DEF EmitAudit, Goto, Followed
<1>5. ASSUME UNCHANGED <<alerts, events, faulted>>,
             \A c \in Calls : \/ pc'[c] = pc[c] /\ verdict'[c] = verdict[c]
                             \/ pc'[c] \notin {"emit", "done"}
      PROVE  Followed'
  BY <1>5 DEF Followed
<1>6. ASSUME NEW c \in Calls,
             \/ Reject(c) \/ \E r \in Requests : Start(c, r)
             \/ CacheHit(c) \/ CacheMiss(c) \/ ResponseHit(c) \/ ResponseMiss(c)
             \/ (\E a \in Answers : VendorAnswers(c, a)) \/ VendorFails(c)
             \/ PutResponse(c) \/ CacheSet(c) \/ PersistFails(c)
      PROVE  Followed'
  <2>1. /\ UNCHANGED <<alerts, events, faulted>>
        /\ pc'[c] \notin {"emit", "done"}
        /\ \A d \in Calls \ {c} : pc'[d] = pc[d] /\ verdict'[d] = verdict[d]
    BY <1>0, <1>6 DEF Reject, Start, CacheHit, CacheMiss, ResponseHit, ResponseMiss,
          VendorAnswers, VendorFails, PutResponse, CacheSet, PersistFails, Goto, shared
  <2> QED BY <1>5, <2>1
<1>7. CASE Crash \/ (\E k \in CacheKeys : CacheDrop(k)) \/ UNCHANGED vars
  BY <1>0, <1>5, <1>7 DEF Crash, CacheDrop, vars, shared
<1> QED
  BY <1>1, <1>2, <1>3, <1>4, <1>6, <1>7 DEF Next, Arrive, CallStep, Finished

\* A call that returns has left its event, and its alert when one is due, unless one
\* of those two writes failed.
THEOREM FollowUpsAllThere == Spec => []FollowUpsComplete
<1>1. Init => Followed
  BY DEF Init, Followed
<1>2. TInv /\ Followed => FollowUpsComplete
  BY DEF TInv, Stages, StageOf, Recorded, Followed, FollowUpsComplete
<1> QED BY <1>1, <1>2, InitTInv, StepTInv, StepFollowed, PTL DEF Spec

-----------------------------------------------------------------------------
(* When the vendor is asked again.                                         *)

\* Until the first crash an answer is in the response store, or about to be put there.
Stored ==
    \A d \in Calls : told[d] # None =>
        /\ req[d] \in Requests
        /\ crashes = 0 => pc[d] = "storePut" \/ responses[IdempotencyKey(req[d])] # None

LEMMA StepStored == TInv /\ Stored /\ [Next]_vars => Stored'
<1> SUFFICES ASSUME TInv, Stored, [Next]_vars PROVE Stored'
  OBVIOUS
<1>0. /\ pc \in [Calls -> PCs] /\ told \in [Calls -> VendorAnswerSet \cup {None}]
      /\ req \in [Calls -> Requests \cup {None}] /\ crashes \in Nat
      /\ responses \in [IdempotencyKeys -> VendorAnswerSet \cup {None}]
  BY DEF TInv, TypeOK
<1>1. ASSUME NEW c \in Calls, NEW r \in Requests, Start(c, r) PROVE Stored'
  <2>1. told[c] = None
    BY <1>1 DEF Start, Goto, TInv, Stages, StageOf, Before
  <2> QED BY <1>0, <1>1, <2>1 DEF Start, Goto, shared, Stored
<1>2. ASSUME NEW c \in Calls, NEW a \in Answers, VendorAnswers(c, a) PROVE Stored'
  <2>1. req[c] \in Requests
    BY <1>2 DEF VendorAnswers, Goto, TInv, Stages, StageOf, Running, PCs, Ended
  <2> QED BY <1>0, <1>2, <2>1 DEF VendorAnswers, Goto, shared, Stored
<1>3. ASSUME NEW c \in Calls, PutResponse(c) PROVE Stored'
  <2>1. got[c] # None /\ req[c] \in Requests
    BY <1>3 DEF PutResponse, Goto, TInv, Stages, StageOf, Holding, Running, PCs, Ended
  <2>2. \A k \in IdempotencyKeys : responses[k] # None => responses'[k] # None
    BY <1>0, <1>3 DEF PutResponse, PutOnce
  <2>3. responses'[IdempotencyKey(req[c])] # None
    BY <1>0, <1>3, <2>1, KeyTypes DEF PutResponse, PutOnce
  <2> QED BY <1>0, <1>3, <2>2, <2>3, KeyTypes DEF PutResponse, Goto, Stored
<1>4. ASSUME UNCHANGED <<req, told, responses, crashes>>,
             \A c \in Calls : pc[c] = "storePut" => pc'[c] = "storePut"
      PROVE  Stored'
  BY <1>4 DEF Stored
<1>5. ASSUME NEW c \in Calls,
             \/ Reject(c) \/ CacheHit(c) \/ CacheMiss(c) \/ ResponseHit(c)
             \/ ResponseMiss(c) \/ VendorFails(c) \/ CacheSet(c)
             \/ Persist(c) \/ PersistFails(c) \/ CreateAlert(c) \/ CreateAlertFails(c)
             \/ EmitAudit(c) \/ EmitAuditDropped(c)
      PROVE  Stored'
  <2>1. /\ UNCHANGED <<req, told, responses, crashes>> /\ pc[c] # "storePut"
        /\ \A d \in Calls \ {c} : pc'[d] = pc[d]
    BY <1>0, <1>5 DEF Reject, CacheHit, CacheMiss, ResponseHit, ResponseMiss, VendorFails,
          CacheSet, Persist, PersistFails, CreateAlert, CreateAlertFails, EmitAudit,
          EmitAuditDropped, Goto, shared
  <2> QED BY <1>4, <2>1
<1>6. CASE (\E k \in CacheKeys : CacheDrop(k)) \/ UNCHANGED vars
  BY <1>4, <1>6 DEF CacheDrop, vars, shared
<1>7. CASE Crash
  BY <1>0, <1>7 DEF Crash, Stored
<1> QED
  BY <1>1, <1>2, <1>3, <1>5, <1>6, <1>7 DEF Next, Arrive, CallStep, Finished

\* The vendor is asked again about a transaction only while its answer is on its way
\* to the store, or after a crash.
THEOREM NoNeedlessRequery == Spec => RequeryOnlyInFlight
<1>1. Init => Stored
  BY DEF Init, Stored
<1>2. TInv /\ Stored /\ [Next]_vars
        => [\A c, d \in Calls :
              pc[c] = "storeGet" /\ pc'[c] = "calling" /\ told[d] # None /\ req[d] = req[c] =>
                  pc[d] = "storePut" \/ crashes > 0]_vars
  <2> SUFFICES ASSUME TInv, Stored, Next, NEW c \in Calls, NEW d \in Calls,
                      pc[c] = "storeGet", pc'[c] = "calling", told[d] # None,
                      req[d] = req[c], crashes = 0
               PROVE  pc[d] = "storePut"
    BY DEF TInv, TypeOK, vars
  <2>1. responses[IdempotencyKey(req[c])] = None
    <3>0. pc \in [Calls -> PCs]
      BY DEF TInv, TypeOK
    <3>1. PICK e \in Calls : ResponseMiss(e)
      <4>1. ASSUME NEW e \in Calls,
                   \/ Reject(e) \/ (\E r \in Requests : Start(e, r))
                   \/ CacheHit(e) \/ CacheMiss(e) \/ ResponseHit(e)
                   \/ (\E a \in Answers : VendorAnswers(e, a)) \/ VendorFails(e)
                   \/ PutResponse(e) \/ CacheSet(e) \/ PersistFails(e)
                   \/ CreateAlert(e) \/ CreateAlertFails(e)
                   \/ EmitAudit(e) \/ EmitAuditDropped(e)
            PROVE  FALSE
        BY <3>0, <4>1 DEF Reject, Start, CacheHit, CacheMiss, ResponseHit, VendorAnswers,
              VendorFails, PutResponse, CacheSet, PersistFails, CreateAlert,
              CreateAlertFails, EmitAudit, EmitAuditDropped, Goto
      <4>2. ASSUME NEW e \in Calls, Persist(e) PROVE FALSE
        BY <3>0, <4>2 DEF Persist, AfterPersist, Goto
      <4>3. CASE (\E k \in CacheKeys : CacheDrop(k)) \/ Crash \/ UNCHANGED vars
        BY <3>0, <4>3 DEF CacheDrop, Crash, vars
      <4> QED BY <4>1, <4>2, <4>3 DEF Next, Arrive, CallStep, Finished
    <3>2. e = c
      BY <3>0, <3>1 DEF ResponseMiss, Goto
    <3> QED BY <3>1, <3>2 DEF ResponseMiss
  <2> QED BY <2>1 DEF Stored
<1> QED BY <1>1, <1>2, InitTInv, StepTInv, StepStored, PTL DEF Spec, RequeryOnlyInFlight
=============================================================================
