---------------------------- MODULE AlertService ----------------------------
(***************************************************************************)
(* The alert lifecycle of internal/alert/alert.go.  Assign and Close read  *)
(* the alert, edit the copy and write the whole record back; the store     *)
(* locks each access (a mutex in MemoryStore, one statement in             *)
(* PGAlertStore), and nothing spans the two.                               *)
(*                                                                         *)
(* A member of Ops is one request of the dashboard.                        *)
(***************************************************************************)
EXTENDS Integers

CONSTANTS
    Alerts,         \* alert ids, fresh UUIDs
    Ops,            \* assign and close requests, each made once
    People,         \* assignees a request may name
    None            \* no record, no assignee, no time

NoAssignee == ""

Statuses == {"OPEN", "IN_REVIEW", "CLOSED"}
Records  == [status : Statuses, assignee : People \cup {NoAssignee}, closedAt : Ops \cup {None}]

ASSUME AlertAssumption == None \notin Records /\ None \notin Ops

VARIABLES
    store,      \* the kyt_alerts rows: id -> record or None
    pc,         \* "new", "editing", "done" or "failed", per request
    target,     \* the alert a request is about
    copy,       \* the edited copy a request is about to write
    kind,       \* "assign" or "close"
    ended,      \* history: the requests that had ended when this one read
    overlapped  \* history: the requests during whose edit another one of the same alert
                \* was in progress

vars == <<store, pc, target, copy, kind, ended, overlapped>>

-----------------------------------------------------------------------------
OpenedUntyped == [status |-> "open", assignee |-> NoAssignee, closedAt |-> None]     \* faulty
Opened == [status |-> "OPEN", assignee |-> NoAssignee, closedAt |-> None]

\* The edit of Assign.
Assigned(rec, who) == [rec EXCEPT !.status = "IN_REVIEW", !.assignee = who]

\* The edit of Close; a close that names nobody keeps the assignee.  closedAt is
\* the time the request took before its read, so the request stands for it.
Closed(rec, who, o) ==
    [rec EXCEPT !.status = "CLOSED", !.closedAt = o,
                !.assignee = IF who = NoAssignee THEN @ ELSE who]

\* What Assign and Close check in the record they read.
ModifiableAlways(rec) == TRUE               \* faulty: the status is not checked
Modifiable(rec) == rec.status # "CLOSED"

Init ==
    /\ store = [a \in Alerts |-> None]
    /\ pc = [o \in Ops |-> "new"]
    /\ target = [o \in Ops |-> None]
    /\ copy = [o \in Ops |-> None]
    /\ kind = [o \in Ops |-> None]
    /\ ended = [o \in Ops |-> {}]
    /\ overlapped = {}

\* Create, by the screen path, the webhook or the review.
Create(a) ==
    /\ store[a] = None
    /\ store' = [store EXCEPT ![a] = Opened]
    /\ UNCHANGED <<pc, target, copy, kind, ended, overlapped>>

Begin(o, a, k) ==
    /\ pc[o] = "new"
    /\ target' = [target EXCEPT ![o] = a]
    /\ kind' = [kind EXCEPT ![o] = k]

\* Get of an unknown id, or of a closed alert, or a store error: an error.
ReadRefused(o, a, k) ==
    /\ Begin(o, a, k)
    /\ pc' = [pc EXCEPT ![o] = "failed"]
    /\ UNCHANGED <<store, copy, ended, overlapped>>

EditorsOf(a) == {p \in Ops : pc[p] = "editing" /\ target[p] = a}

Read(o, a) ==
    /\ pc' = [pc EXCEPT ![o] = "editing"]
    /\ overlapped' = IF EditorsOf(a) = {} THEN overlapped
                                         ELSE overlapped \cup {o} \cup EditorsOf(a)
    /\ ended' = [ended EXCEPT ![o] = {p \in Ops : pc[p] \in {"done", "failed"}}]

\* Get of an alert that is not closed, and the edit of the copy.
ReadForAssign(o, a, who) ==
    /\ Begin(o, a, "assign")
    /\ store[a] # None /\ Modifiable(store[a])
    /\ Read(o, a)
    /\ copy' = [copy EXCEPT ![o] = Assigned(store[a], who)]
    /\ UNCHANGED store

ReadForCloseAliased(o, a, who) ==           \* faulty: the copy is the stored record
    /\ Begin(o, a, "close")
    /\ store[a] # None /\ Modifiable(store[a])
    /\ Read(o, a)
    /\ copy' = [copy EXCEPT ![o] = Closed(store[a], who, o)]
    /\ store' = [store EXCEPT ![a] = Closed(store[a], who, o)]
ReadForClose(o, a, who) ==
    /\ Begin(o, a, "close")
    /\ store[a] # None /\ Modifiable(store[a])
    /\ Read(o, a)
    /\ copy' = [copy EXCEPT ![o] = Closed(store[a], who, o)]
    /\ UNCHANGED store

\* Update overwrites the stored record with the copy.
Update(o) ==
    /\ pc[o] = "editing"
    /\ pc' = [pc EXCEPT ![o] = "done"]
    /\ store' = [store EXCEPT ![target[o]] = copy[o]]
    /\ UNCHANGED <<target, copy, kind, ended, overlapped>>

\* Update returns an error: the row is as it was, or the write took place and
\* its reply was lost.
UpdateFails(o) ==
    /\ pc[o] = "editing"
    /\ pc' = [pc EXCEPT ![o] = "failed"]
    /\ \/ UNCHANGED store
       \/ store' = [store EXCEPT ![target[o]] = copy[o]]
    /\ UNCHANGED <<target, copy, kind, ended, overlapped>>

Finished ==
    /\ \A o \in Ops : pc[o] \in {"done", "failed"}
    /\ UNCHANGED vars

Next ==
    \/ \E a \in Alerts : Create(a)
    \/ \E o \in Ops, a \in Alerts, k \in {"assign", "close"} : ReadRefused(o, a, k)
    \/ \E o \in Ops, a \in Alerts, who \in People \cup {NoAssignee} :
          ReadForAssign(o, a, who) \/ ReadForClose(o, a, who)
    \/ \E o \in Ops : Update(o) \/ UpdateFails(o)
    \/ Finished

Spec == Init /\ [][Next]_vars

-----------------------------------------------------------------------------
TypeOK ==
    /\ store \in [Alerts -> Records \cup {None}]
    /\ pc \in [Ops -> {"new", "editing", "done", "failed"}]
    /\ target \in [Ops -> Alerts \cup {None}]
    /\ copy \in [Ops -> Records \cup {None}]
    /\ kind \in [Ops -> {"assign", "close", None}]
    /\ ended \in [Ops -> SUBSET Ops]
    /\ overlapped \subseteq Ops

\* A row is CLOSED exactly when it has a closing time, in whatever order the
\* whole-record writes of racing requests land; and that time is the one of a close
\* of this alert that has done its write: no assignment, refused close or close still
\* in progress leaves its mark.
ClosedHasTime ==
    \A a \in Alerts : store[a] # None =>
        (store[a].status = "CLOSED" <=> store[a].closedAt # None)

ClosedByACloser ==
    \A a \in Alerts : store[a] # None /\ store[a].closedAt # None =>
        LET o == store[a].closedAt
        IN  kind[o] = "close" /\ target[o] = a /\ copy[o] # None /\ pc[o] # "editing"

ClosedBySomebody == ClosedHasTime /\ ClosedByACloser

\* A row never goes back to OPEN, nor does it vanish.
NeverReopened ==
    [][\A a \in Alerts : store[a] # None =>
          store'[a] # None /\ (store'[a].status = "OPEN" => store[a].status = "OPEN")]_vars

\* A request that no other of the same alert overlapped takes effect as if its read,
\* its check and its write were one step: what it changes is the row as it is, which
\* is not closed.  The missing lock between Get and Update is felt by overlapping
\* requests only.
UnracedIsAtomic ==
    [][\A o \in Ops, a \in Alerts :
          pc[o] = "editing" /\ target[o] = a /\ o \notin overlapped
              /\ store'[a] # store[a] =>
              /\ store[a].status # "CLOSED"
              /\ \E who \in People \cup {NoAssignee} :
                    store'[a] = IF kind[o] = "assign" THEN Assigned(store[a], who)
                                                      ELSE Closed(store[a], who, o)]_vars

\* A request writes over a closed alert only with a copy it read before the
\* close it overwrites had ended: a close that is over is final for every request
\* that comes after it.
EndedCloseHolds ==
    [][\A a \in Alerts, o \in Ops :
          store[a] # None /\ store[a].status = "CLOSED" /\ target[o] = a
              /\ pc[o] = "editing" /\ pc'[o] # "editing" =>
              store[a].closedAt \notin ended[o]]_vars
=============================================================================
