------------------------- MODULE AlertServiceProofs -------------------------
(***************************************************************************)
(* What whole-record writes of racing requests keep, for any alerts,       *)
(* requests and people.                                                    *)
(***************************************************************************)
EXTENDS AlertService, TLAPS

USE AlertAssumption

\* A record is closed exactly when it has a closing time.
WellClosed(rec) == rec.status = "CLOSED" <=> rec.closedAt # None

\* A copy is never open, and if it is closed it is so by its own request.
CopyInv ==
    \A o \in Ops : copy[o] # None =>
        /\ copy[o].status # "OPEN"
        /\ WellClosed(copy[o])
        /\ copy[o].closedAt # None => copy[o].closedAt = o /\ kind[o] = "close"

\* A request that edits does so with a copy of a row there is; those that had
\* ended before it have ended, and none of them is the closer of its row now.
EditInv ==
    \A o \in Ops : pc[o] = "editing" =>
        /\ target[o] \in Alerts /\ store[target[o]] # None /\ copy[o] # None
        /\ \A p \in ended[o] : /\ pc[p] \in {"done", "failed"}
                               /\ store[target[o]].closedAt # p

\* A request that has not begun has no copy.
NewInv == \A o \in Ops : pc[o] = "new" => copy[o] = None

AlertInv == TypeOK /\ NewInv /\ CopyInv /\ ClosedHasTime /\ ClosedByACloser /\ EditInv

\* The edits of Assign and Close.
LEMMA Edits ==
    ASSUME NEW rec \in Records, rec.status # "CLOSED", WellClosed(rec),
           NEW who \in People \cup {NoAssignee}, NEW o \in Ops
    PROVE  /\ Assigned(rec, who) \in Records
           /\ Assigned(rec, who).status = "IN_REVIEW"
           /\ Assigned(rec, who).closedAt = None
           /\ Closed(rec, who, o) \in Records
           /\ Closed(rec, who, o).status = "CLOSED"
           /\ Closed(rec, who, o).closedAt = o
  BY DEF Records, Statuses, Assigned, Closed, WellClosed, NoAssignee

LEMMA InitAlert == Init => AlertInv
  BY DEF Init, AlertInv, TypeOK, CopyInv, ClosedHasTime, ClosedByACloser, EditInv, NewInv

\* A new alert.
LEMMA StepCreate ==
    ASSUME AlertInv, NEW a \in Alerts, Create(a) PROVE AlertInv'
<1> USE DEF AlertInv, TypeOK
<1>0. Opened \in Records /\ Opened.closedAt = None /\ Opened.status = "OPEN"
  BY DEF Opened, Records, Statuses, NoAssignee
<1>1. Opened \in Records /\ Opened.closedAt = None /\ Opened.status = "OPEN" /\ Opened # None
  BY <1>0
<1>2. \A b \in Alerts : store'[b] = IF b = a THEN Opened ELSE store[b]
  BY DEF Create
<1>3. TypeOK'
  BY <1>1 DEF Create
<1>4. CopyInv'
  BY DEF Create, CopyInv, WellClosed
<1>5. ClosedHasTime' /\ ClosedByACloser'
  BY <1>1, <1>2 DEF Create, ClosedHasTime, ClosedByACloser
<1>6. EditInv'
  BY <1>1, <1>2 DEF Create, EditInv
<1>7. NewInv'
  BY DEF Create, NewInv
<1> QED BY <1>3, <1>4, <1>5, <1>6, <1>7

\* A request that reads: rec is the copy it edits.
LEMMA StepRead ==
    ASSUME AlertInv, NEW o \in Ops, NEW a \in Alerts, NEW k \in {"assign", "close"},
           NEW rec \in Records,
           Begin(o, a, k), Read(o, a), store[a] # None, store[a].status # "CLOSED",
           copy' = [copy EXCEPT ![o] = rec], UNCHANGED store,
           rec.status # "OPEN", WellClosed(rec),
           rec.closedAt # None => rec.closedAt = o /\ k = "close"
    PROVE  AlertInv'
<1> USE DEF AlertInv, TypeOK, Begin, Read
<1>1. TypeOK'
  BY DEF EditorsOf
<1>2. \A p \in Ops : /\ copy'[p] = IF p = o THEN rec ELSE copy[p]
                     /\ kind'[p] = IF p = o THEN k ELSE kind[p]
                     /\ target'[p] = IF p = o THEN a ELSE target[p]
                     /\ pc'[p] = IF p = o THEN "editing" ELSE pc[p]
                     /\ ended'[p] = IF p = o THEN {q \in Ops : pc[q] \in {"done", "failed"}}
                                             ELSE ended[p]
  OBVIOUS
<1>3. CopyInv'
  BY <1>2 DEF CopyInv, WellClosed
<1>4. \A b \in Alerts : store[b] # None => store[b].closedAt # o
  BY DEF ClosedByACloser, NewInv, Records
<1>5. ClosedHasTime' /\ ClosedByACloser'
  BY <1>2, <1>4 DEF ClosedHasTime, ClosedByACloser, Records
<1>6. store[a].closedAt = None
  BY DEF ClosedHasTime
<1>7. EditInv'
  BY <1>2, <1>6 DEF EditInv
<1>8. NewInv'
  BY <1>2 DEF NewInv
<1> QED BY <1>1, <1>3, <1>5, <1>7, <1>8

\* A request that ends, having written its copy or not.
LEMMA StepEnd ==
    ASSUME AlertInv, NEW o \in Ops, pc[o] = "editing",
           NEW end \in {"done", "failed"}, pc' = [pc EXCEPT ![o] = end],
           store' \in {store, [store EXCEPT ![target[o]] = copy[o]]},
           UNCHANGED <<target, copy, kind, ended, overlapped>>
    PROVE  AlertInv'
<1> USE DEF AlertInv, TypeOK
<1>1. target[o] \in Alerts /\ store[target[o]] # None /\ copy[o] # None /\ copy[o] \in Records
  BY DEF EditInv
<1>2. /\ \A p \in Ops : pc'[p] = IF p = o THEN end ELSE pc[p]
      /\ \A b \in Alerts : store'[b] = store[b] \/ (b = target[o] /\ store'[b] = copy[o])
  BY <1>1
<1>3. TypeOK'
  BY <1>1
<1>4. CopyInv'
  BY DEF CopyInv, WellClosed
<1>5. ClosedHasTime'
  BY <1>1, <1>2 DEF ClosedHasTime, CopyInv, WellClosed
<1>6. ClosedByACloser'
  BY <1>1, <1>2 DEF ClosedByACloser, CopyInv
<1>7. EditInv'
  <2> SUFFICES ASSUME NEW q \in Ops, pc'[q] = "editing"
               PROVE  /\ store'[target[q]] # None
                      /\ \A p \in ended[q] : /\ pc'[p] \in {"done", "failed"}
                                             /\ store'[target[q]].closedAt # p
    BY <1>2 DEF EditInv
  <2>1. pc[q] = "editing" /\ target[q] \in Alerts /\ ended[q] \subseteq Ops /\ o \notin ended[q]
    BY <1>2 DEF EditInv
  <2>2. copy[o].closedAt \in {o, None}
    BY <1>1 DEF CopyInv
  <2> QED BY <1>1, <1>2, <2>1, <2>2 DEF EditInv
<1>8. NewInv'
  BY <1>2 DEF NewInv
<1> QED BY <1>3, <1>4, <1>5, <1>6, <1>7, <1>8

LEMMA StepAlert == AlertInv /\ [Next]_vars => AlertInv'
<1> SUFFICES ASSUME AlertInv, [Next]_vars PROVE AlertInv'
  OBVIOUS
<1>1. ASSUME NEW a \in Alerts, Create(a) PROVE AlertInv'
  BY <1>1, StepCreate
<1>2. ASSUME NEW o \in Ops, NEW a \in Alerts, NEW k \in {"assign", "close"}, ReadRefused(o, a, k)
      PROVE AlertInv'
  <2> USE DEF AlertInv, TypeOK
  <2>1. /\ pc[o] = "new"
        /\ \A p \in Ops : /\ pc'[p] = IF p = o THEN "failed" ELSE pc[p]
                          /\ kind'[p] = IF p = o THEN k ELSE kind[p]
                          /\ target'[p] = IF p = o THEN a ELSE target[p]
        /\ UNCHANGED <<store, copy, ended, overlapped>>
    BY <1>2 DEF ReadRefused, Begin
  <2>2. TypeOK'
    BY <1>2 DEF ReadRefused, Begin
  <2>3. copy[o] = None
    BY <2>1 DEF NewInv
  <2>4. CopyInv'
    BY <2>1, <2>3 DEF CopyInv, WellClosed
  <2>5. ClosedHasTime' /\ ClosedByACloser'
    BY <2>1, <2>3 DEF ClosedHasTime, ClosedByACloser, Records
  <2>6. EditInv'
    BY <2>1 DEF EditInv
  <2>7. NewInv'
    BY <2>1 DEF NewInv
  <2> QED BY <2>2, <2>4, <2>5, <2>6, <2>7
<1>3. ASSUME NEW o \in Ops, NEW a \in Alerts, NEW who \in People \cup {NoAssignee},
             ReadForAssign(o, a, who)
      PROVE AlertInv'
  <2>1. store[a] \in Records /\ store[a].status # "CLOSED" /\ WellClosed(store[a])
    BY <1>3 DEF ReadForAssign, Modifiable, AlertInv, TypeOK, ClosedHasTime, WellClosed
  <2>2. LET rec == Assigned(store[a], who)
        IN  rec \in Records /\ rec.status = "IN_REVIEW" /\ rec.closedAt = None
    BY <2>1, Edits
  <2> QED BY <1>3, <2>1, <2>2, StepRead DEF ReadForAssign, WellClosed
<1>4. ASSUME NEW o \in Ops, NEW a \in Alerts, NEW who \in People \cup {NoAssignee},
             ReadForClose(o, a, who)
      PROVE AlertInv'
  <2>1. store[a] \in Records /\ store[a].status # "CLOSED" /\ WellClosed(store[a])
    BY <1>4 DEF ReadForClose, Modifiable, AlertInv, TypeOK, ClosedHasTime, WellClosed
  <2>2. LET rec == Closed(store[a], who, o)
        IN  rec \in Records /\ rec.status = "CLOSED" /\ rec.closedAt = o /\ o # None
    BY <2>1, Edits
  <2> QED BY <1>4, <2>1, <2>2, StepRead DEF ReadForClose, WellClosed
<1>5. ASSUME NEW o \in Ops, Update(o) \/ UpdateFails(o) PROVE AlertInv'
  BY <1>5, StepEnd DEF Update, UpdateFails
<1>6. CASE UNCHANGED vars
  BY <1>6 DEF vars, AlertInv, TypeOK, NewInv, CopyInv, WellClosed, ClosedHasTime,
              ClosedByACloser, EditInv
<1> QED BY <1>1, <1>2, <1>3, <1>4, <1>5, <1>6 DEF Next, Finished

LEMMA AlertInvariant == Spec => []AlertInv
  BY InitAlert, StepAlert, PTL DEF Spec

\* Every variable keeps its type.
THEOREM AlertTypeCorrect == Spec => []TypeOK
<1>1. AlertInv => TypeOK
  BY DEF AlertInv
<1> QED BY <1>1, AlertInvariant, PTL

\* A row is CLOSED exactly when it has a closing time, which is that of a close
\* request of the alert that has ended.
THEOREM ClosedByItsRequest == Spec => []ClosedBySomebody
<1>1. AlertInv => ClosedBySomebody
  BY DEF AlertInv, ClosedBySomebody
<1> QED BY <1>1, AlertInvariant, PTL

\* What a step does to a row: nothing, open it, or write an ended request's copy.
LEMMA RowSteps ==
    ASSUME AlertInv, [Next]_vars, NEW a \in Alerts, store[a] # None
    PROVE  \/ store'[a] = store[a]
           \/ \E o \in Ops : pc[o] = "editing" /\ target[o] = a /\ store'[a] = copy[o]
  BY DEF AlertInv, TypeOK, EditInv, Next, vars, Create, ReadRefused, ReadForAssign, ReadForClose,
         Begin, Read, Update, UpdateFails, Finished

\* No write, however late, puts a row back to OPEN.
THEOREM NoReopening == Spec => NeverReopened
<1>1. ASSUME AlertInv, [Next]_vars, NEW a \in Alerts, store[a] # None
      PROVE  store'[a] # None /\ (store'[a].status = "OPEN" => store[a].status = "OPEN")
  BY <1>1, RowSteps DEF AlertInv, CopyInv, EditInv
<1>2. AlertInv /\ [Next]_vars
        => [\A a \in Alerts : store[a] # None =>
              store'[a] # None /\ (store'[a].status = "OPEN" => store[a].status = "OPEN")]_vars
  BY <1>1
<1> QED BY <1>2, AlertInvariant, PTL DEF Spec, NeverReopened

\* A close that has ended is final for the requests that come after it.
THEOREM EndedCloseIsFinal == Spec => EndedCloseHolds
<1>1. AlertInv /\ [Next]_vars
        => [\A a \in Alerts, o \in Ops :
              store[a] # None /\ store[a].status = "CLOSED" /\ target[o] = a
                  /\ pc[o] = "editing" /\ pc'[o] # "editing" =>
                  store[a].closedAt \notin ended[o]]_vars
  BY DEF AlertInv, EditInv
<1> QED BY <1>1, AlertInvariant, PTL DEF Spec, EndedCloseHolds

-----------------------------------------------------------------------------
(* Requests that nobody overlaps.                                          *)

\* What a request would write into a row.
EditOf(k, o, rec, who) == IF k = "assign" THEN Assigned(rec, who) ELSE Closed(rec, who, o)

\* A request that is not overlapped edits its alert alone, and its copy is the edit of
\* the row as it still is.
SoleInv ==
    \A o \in Ops : pc[o] = "editing" /\ o \notin overlapped =>
        /\ \A p \in Ops : pc[p] = "editing" /\ target[p] = target[o] => p = o
        /\ store[target[o]].status # "CLOSED"
        /\ \E who \in People \cup {NoAssignee} : copy[o] = EditOf(kind[o], o, store[target[o]], who)

\* A request that reads is alone on its alert, or overlapped from now on.
LEMMA ReadSole ==
    ASSUME AlertInv, SoleInv, NEW o \in Ops, NEW a \in Alerts, NEW k \in {"assign", "close"},
           NEW who \in People \cup {NoAssignee},
           Begin(o, a, k), Read(o, a), store[a].status # "CLOSED", UNCHANGED store,
           copy' = [copy EXCEPT ![o] = EditOf(k, o, store[a], who)]
    PROVE  SoleInv'
<1> USE DEF AlertInv, TypeOK, Begin, Read
<1>1. /\ pc[o] = "new"
      /\ \A p \in Ops : /\ pc'[p] = IF p = o THEN "editing" ELSE pc[p]
                        /\ target'[p] = IF p = o THEN a ELSE target[p]
                        /\ kind'[p] = IF p = o THEN k ELSE kind[p]
  OBVIOUS
<1>2. /\ overlapped \subseteq overlapped'
      /\ \A p \in Ops : pc[p] = "editing" /\ target[p] = a =>
            p \in overlapped' /\ o \in overlapped'
  BY DEF EditorsOf
<1> SUFFICES ASSUME NEW q \in Ops, pc'[q] = "editing", q \notin overlapped'
             PROVE  /\ \A p \in Ops : pc'[p] = "editing" /\ target'[p] = target'[q] => p = q
                    /\ store[target'[q]].status # "CLOSED"
                    /\ \E w \in People \cup {NoAssignee} :
                          copy'[q] = EditOf(kind'[q], q, store[target'[q]], w)
  BY DEF SoleInv
<1>3. CASE q = o
  <2>1. \A p \in Ops : pc'[p] = "editing" /\ target'[p] = a => p = o
    BY <1>1, <1>2, <1>3
  <2>2. copy'[o] = EditOf(k, o, store[a], who) /\ kind'[o] = k /\ target'[o] = a
    BY <1>1
  <2> QED BY <1>3, <2>1, <2>2
<1>4. CASE q # o
  <2>1. pc[q] = "editing" /\ q \notin overlapped /\ target[q] # a
    BY <1>1, <1>2, <1>4
  <2>2. copy'[q] = copy[q] /\ kind'[q] = kind[q] /\ target'[q] = target[q]
    BY <1>1, <1>4
  <2>3. \A p \in Ops : pc'[p] = "editing" /\ target'[p] = target[q] => p = q
    BY <1>1, <1>4, <2>1 DEF SoleInv
  <2>4. store[target[q]].status # "CLOSED"
    BY <2>1 DEF SoleInv
  <2>5. \E w \in People \cup {NoAssignee} : copy[q] = EditOf(kind[q], q, store[target[q]], w)
    BY <2>1 DEF SoleInv
  <2> QED BY <2>2, <2>3, <2>4, <2>5
<1> QED BY <1>3, <1>4

LEMMA StepSole == AlertInv /\ SoleInv /\ [Next]_vars => SoleInv'
<1> SUFFICES ASSUME AlertInv, SoleInv, [Next]_vars PROVE SoleInv'
  OBVIOUS
<1>1. ASSUME NEW a \in Alerts, Create(a) PROVE SoleInv'
  BY <1>1 DEF Create, AlertInv, TypeOK, EditInv, SoleInv, EditOf
<1>2. ASSUME NEW o \in Ops, NEW a \in Alerts, NEW k \in {"assign", "close"}, ReadRefused(o, a, k)
      PROVE SoleInv'
  <2>1. /\ pc[o] = "new" /\ UNCHANGED <<store, copy, overlapped>>
        /\ \A p \in Ops : /\ pc'[p] = IF p = o THEN "failed" ELSE pc[p]
                          /\ target'[p] = IF p = o THEN a ELSE target[p]
                          /\ kind'[p] = IF p = o THEN k ELSE kind[p]
    BY <1>2 DEF ReadRefused, Begin, AlertInv, TypeOK
  <2> QED BY <2>1 DEF SoleInv, EditOf
<1>3. ASSUME NEW o \in Ops, NEW a \in Alerts, NEW who \in People \cup {NoAssignee},
             ReadForAssign(o, a, who)
      PROVE SoleInv'
  BY <1>3, ReadSole DEF ReadForAssign, Modifiable, EditOf
<1>4. ASSUME NEW o \in Ops, NEW a \in Alerts, NEW who \in People \cup {NoAssignee},
             ReadForClose(o, a, who)
      PROVE SoleInv'
  BY <1>4, ReadSole DEF ReadForClose, Modifiable, EditOf
<1>5. ASSUME NEW o \in Ops, Update(o) \/ UpdateFails(o) PROVE SoleInv'
  <2>1. /\ pc[o] = "editing" /\ UNCHANGED <<target, copy, kind, overlapped>>
        /\ \A p \in Ops : pc'[p] = "editing" => p # o /\ pc[p] = "editing"
        /\ \A b \in Alerts : b # target[o] => store'[b] = store[b]
    BY <1>5 DEF Update, UpdateFails, AlertInv, TypeOK
  <2>2. \A q \in Ops : pc[q] = "editing" => target[q] \in Alerts
    BY DEF AlertInv, EditInv
  <2> QED BY <2>1, <2>2 DEF SoleInv, EditOf
<1>6. CASE UNCHANGED vars
  BY <1>6 DEF vars, SoleInv, EditOf
<1> QED BY <1>1, <1>2, <1>3, <1>4, <1>5, <1>6 DEF Next, Finished

\* A request that no other of the same alert overlapped is atomic: Get, the check of the
\* status and Update act on one and the same row.
THEOREM UnracedRequestsAreAtomic == Spec => UnracedIsAtomic
<1>1. ASSUME AlertInv, SoleInv, [Next]_vars, NEW o \in Ops, NEW a \in Alerts,
             pc[o] = "editing", target[o] = a, o \notin overlapped, store'[a] # store[a]
      PROVE  /\ store[a].status # "CLOSED"
             /\ \E who \in People \cup {NoAssignee} :
                   store'[a] = IF kind[o] = "assign" THEN Assigned(store[a], who)
                                                     ELSE Closed(store[a], who, o)
  <2>1. store[a] # None
    BY <1>1 DEF AlertInv, EditInv
  <2>2. PICK p \in Ops : pc[p] = "editing" /\ target[p] = a /\ store'[a] = copy[p]
    BY <1>1, <2>1, RowSteps
  <2>3. p = o
    BY <1>1, <2>2 DEF SoleInv
  <2> QED BY <1>1, <2>2, <2>3 DEF SoleInv, EditOf
<1>2. AlertInv /\ SoleInv /\ [Next]_vars
        => [\A o \in Ops, a \in Alerts :
              pc[o] = "editing" /\ target[o] = a /\ o \notin overlapped
                  /\ store'[a] # store[a] =>
                  /\ store[a].status # "CLOSED"
                  /\ \E who \in People \cup {NoAssignee} :
                        store'[a] = IF kind[o] = "assign" THEN Assigned(store[a], who)
                                                          ELSE Closed(store[a], who, o)]_vars
  BY <1>1
<1>3. Init => SoleInv
  BY DEF Init, SoleInv
<1> QED BY <1>2, <1>3, StepSole, AlertInvariant, PTL DEF Spec, UnracedIsAtomic
=============================================================================
