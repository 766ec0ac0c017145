-------------------------- MODULE MigrationsProofs --------------------------
(***************************************************************************)
(* What concurrent migrations keep true, for any number of runs and of     *)
(* migrations: a recorded version has its table, a Migrate that returns    *)
(* nil has left none out, and a hole needs a Migrate and a MigrateDown at  *)
(* the same time.                                                          *)
(***************************************************************************)
EXTENDS Migrations, TLAPS

USE MigrationsAssumption DEF Versions

LockStates == {"none", "shared", "exclusive"}

Types ==
    /\ tables \subseteq Versions /\ records \subseteq Versions
    /\ kind \in [Runs -> {"none", "up", "down"}]
    /\ pc \in [Runs -> PCs]
    /\ at \in [Runs -> 1..(NumMigrations + 1)]
    /\ lock \in [Runs -> LockStates]
    /\ wrote \in [Runs -> BOOLEAN]
    /\ downs \subseteq Runs
    /\ overlap \in BOOLEAN

\* What the place a run is at says about its kind, its version, its lock and its row.
Placed(p) ==
    /\ pc[p] = "new" => at[p] = 1 /\ kind[p] = "none"
    /\ pc[p] = "check" => kind[p] = "up"
    /\ pc[p] = "find" => kind[p] = "down"
    /\ pc[p] \in InTx => kind[p] \in {"up", "down"} /\ at[p] \in Versions
    /\ pc[p] \notin {"record", "commit"} => lock[p] = "none"
    /\ pc[p] # "commit" => ~wrote[p]
    /\ pc[p] \in {"record", "commit"} /\ kind[p] = "up" => lock[p] # "none"
    /\ pc[p] = "commit" /\ kind[p] = "up" => wrote[p]
    /\ pc[p] = "ok" /\ kind[p] = "up" => at[p] = NumMigrations + 1

\* A lock that is exclusive is the only one on its table, and a table with a shared
\* lock exists.
LocksHold ==
    /\ \A p, q \in Runs :
          p # q /\ lock[p] = "exclusive" /\ lock[q] # "none" => at[p] # at[q]
    /\ \A p \in Runs : lock[p] = "shared" => at[p] \in tables

\* A transaction that has dropped a table deletes the row of its version as well.
DropsUnrecord ==
    \A p \in Runs : kind[p] = "down" /\ pc[p] = "commit" /\ lock[p] = "exclusive" =>
        wrote[p] \/ at[p] \notin records

\* What a Migrate that no MigrateDown disturbed has passed is recorded.
PassedRecorded ==
    \A p \in Runs : kind[p] = "up" /\ p \notin downs => 1..(at[p] - 1) \subseteq records

\* Without an overlap the runs in progress are of one kind; those that go up have
\* recorded what they passed, those that go down are at the last version or past it.
OneKind ==
    ~overlap =>
        /\ \A p, q \in Runs : pc[p] \in Busy /\ pc[q] \in Busy => kind[p] = kind[q]
        /\ \A p \in Runs : pc[p] \in Busy /\ kind[p] = "up" =>
              1..(at[p] - 1) \subseteq records
        /\ \A p \in Runs : pc[p] \in InTx /\ kind[p] = "down" =>
              \A w \in records : w <= at[p]

\* The inductive invariant: records \subseteq tables alone is not one, a commit
\* disturbs it unless the locks kept the others away.
Inv ==
    /\ Types
    /\ \A p \in Runs : Placed(p)
    /\ LocksHold
    /\ DropsUnrecord
    /\ RecordedTablesExist
    /\ PassedRecorded
    /\ OneKind
    /\ HolesNeedOverlap

-----------------------------------------------------------------------------
LEMMA InitInv == Init => Inv
<1> SUFFICES ASSUME Init PROVE Inv
  OBVIOUS
<1> USE DEF Init
<1>1. PICK n \in 0..NumMigrations : tables = 1..n /\ records = 1..n
  OBVIOUS
<1>2. Types
  <2>1. tables \subseteq Versions /\ records \subseteq Versions
    BY <1>1
  <2>2. /\ kind \in [Runs -> {"none", "up", "down"}] /\ pc \in [Runs -> PCs]
        /\ at \in [Runs -> 1..(NumMigrations + 1)]
        /\ lock \in [Runs -> LockStates]
        /\ wrote \in [Runs -> BOOLEAN]
    BY DEF PCs, LockStates
  <2> QED BY <2>1, <2>2 DEF Types
<1>3. \A p \in Runs : Placed(p)
  BY DEF Placed, InTx
<1>4. LocksHold /\ DropsUnrecord
  BY DEF LocksHold, DropsUnrecord
<1>5. RecordedTablesExist /\ HolesNeedOverlap
  BY <1>1 DEF RecordedTablesExist, HolesNeedOverlap
<1>6. PassedRecorded /\ OneKind
  BY DEF PassedRecorded, OneKind, Busy, InTx
<1> QED BY <1>2, <1>3, <1>4, <1>5, <1>6 DEF Inv

\* A rollback disturbs nothing, wherever the run is.
LEMMA RollbackKeeps == ASSUME Inv, NEW p \in Runs, Rollback(p) PROVE Inv'
BY DEF Rollback, EndTx, Inv, Types, PCs, LockStates, Busy, InTx, db, Placed, LocksHold,
       DropsUnrecord, RecordedTablesExist, PassedRecorded, OneKind, HolesNeedOverlap

\* The effect of a commit: what it adds or removes agrees with what it has locked,
\* and the locks and rows of the others stay right.
LEMMA EffectKeeps ==
    ASSUME Inv, NEW p \in Runs, pc[p] = "commit", TakeEffect(p)
    PROVE  /\ tables' \subseteq Versions /\ records' \subseteq Versions
           /\ records' \subseteq tables'
           /\ \A q \in Runs \ {p} : lock[q] = "shared" => at[q] \in tables'
           /\ \A q \in Runs \ {p} :
                 kind[q] = "down" /\ pc[q] = "commit" /\ lock[q] = "exclusive" =>
                     wrote[q] \/ at[q] \notin records'
           /\ kind[p] = "up" => records' = records \cup {at[p]}
           /\ ~overlap => \A v \in records' : 1..v \subseteq records'
<1> USE DEF Inv, Types, TakeEffect, With
<1>1. Placed(p) /\ kind[p] \in {"up", "down"} /\ at[p] \in Versions
  BY DEF Placed, InTx
<1>2. CASE kind[p] = "up"
  <2>1. lock[p] \in {"shared", "exclusive"} /\ wrote[p]
    BY <1>1, <1>2 DEF Placed, LockStates
  <2>2. tables' = tables \cup {at[p]} /\ records' = records \cup {at[p]}
    BY <1>2, <2>1 DEF LocksHold
  <2>3. \A q \in Runs \ {p} : kind[q] = "down" /\ pc[q] = "commit" /\ lock[q] = "exclusive" =>
           at[q] # at[p]
    BY <2>1 DEF LocksHold
  <2>4. ~overlap => 1..(at[p] - 1) \subseteq records
    BY <1>2 DEF OneKind, Busy, InTx
  <2>5. ~overlap => \A v \in records' : 1..v \subseteq records'
    <3> SUFFICES ASSUME ~overlap, NEW v \in records', NEW i \in 1..v PROVE i \in records'
      OBVIOUS
    <3>1. CASE v \in records
      BY <2>2, <3>1 DEF HolesNeedOverlap
    <3>2. CASE v = at[p]
      <4>1. i \in 1..(at[p] - 1) \/ i = at[p]
        BY <1>1, <3>2
      <4> QED BY <2>2, <2>4, <4>1
    <3> QED BY <2>2, <3>1, <3>2
  <2> QED BY <1>1, <1>2, <2>2, <2>3, <2>5 DEF LocksHold, DropsUnrecord, RecordedTablesExist
<1>3. CASE kind[p] = "down"
  <2>1. tables' = (IF lock[p] = "exclusive" THEN tables \ {at[p]} ELSE tables)
    BY <1>3
  <2>2. records' = (IF wrote[p] THEN records \ {at[p]} ELSE records)
    BY <1>3
  <2>3. records' \subseteq tables'
    BY <1>3, <2>1, <2>2 DEF DropsUnrecord, RecordedTablesExist
  <2>4. ~overlap => \A v \in records' : 1..v \subseteq records'
    BY <1>1, <1>3, <2>2 DEF OneKind, HolesNeedOverlap, InTx
  <2> QED BY <1>3, <2>1, <2>2, <2>3, <2>4 DEF LocksHold, DropsUnrecord
<1> QED BY <1>1, <1>2, <1>3

LEMMA StepInv == Inv /\ [Next]_vars => Inv'
<1> SUFFICES ASSUME Inv, [Next]_vars PROVE Inv'
  OBVIOUS
<1> USE DEF Inv, Types, db, tx, Goto, PCs, Busy, InTx, LockStates
<1>1. ASSUME NEW p \in Runs, NEW k \in {"up", "down"}, Start(p, k) PROVE Inv'
  <2> USE <1>1 DEF Start
  <2>1. /\ pc[p] = "new" /\ at[p] = 1 /\ lock[p] = "none" /\ ~wrote[p]
        /\ pc' = [pc EXCEPT ![p] = IF k = "up" THEN "check" ELSE "find"]
        /\ kind' = [kind EXCEPT ![p] = k]
    BY DEF Placed
  <2>2. Types' /\ \A q \in Runs : Placed(q)'
    BY <2>1 DEF Placed
  <2>3. LocksHold' /\ DropsUnrecord' /\ RecordedTablesExist' /\ HolesNeedOverlap'
    BY <2>1 DEF LocksHold, DropsUnrecord, RecordedTablesExist, HolesNeedOverlap
  <2>4. PassedRecorded'
    BY <2>1 DEF PassedRecorded
  <2>5. OneKind'
    <3> SUFFICES ASSUME ~overlap'
                 PROVE  /\ ~overlap
                        /\ \A q \in Runs : pc[q] \in Busy => kind[q] = k
      <4>1. 1..(at[p] - 1) = {}
        BY <2>1
      <4> QED BY <2>1, <4>1 DEF OneKind
    <3>1. ~(overlap \/ \E q \in Runs : pc[q] \in Busy /\ kind[q] # k)
      OBVIOUS
    <3> QED BY <3>1
  <2> QED BY <2>2, <2>3, <2>4, <2>5
<1>2. ASSUME NEW p \in Runs, CheckSkips(p) PROVE Inv'
  BY <1>2 DEF CheckSkips, Applied, Placed, LocksHold, DropsUnrecord, RecordedTablesExist,
         PassedRecorded, OneKind, HolesNeedOverlap
<1>3. ASSUME NEW p \in Runs, CheckDone(p) PROVE Inv'
  BY <1>3 DEF CheckDone, Placed, LocksHold, DropsUnrecord, RecordedTablesExist,
         PassedRecorded, OneKind, HolesNeedOverlap
<1>4. ASSUME NEW p \in Runs, CheckBegins(p) PROVE Inv'
  BY <1>4 DEF CheckBegins, Applied, Placed, LocksHold, DropsUnrecord,
         RecordedTablesExist, PassedRecorded, OneKind, HolesNeedOverlap
<1>5. ASSUME NEW p \in Runs, UpFindsTable(p) PROVE Inv'
  BY <1>5 DEF UpFindsTable, FreeToShare, Locked, Placed, LocksHold, DropsUnrecord,
         RecordedTablesExist, PassedRecorded, OneKind, HolesNeedOverlap
<1>6. ASSUME NEW p \in Runs, UpCreates(p) PROVE Inv'
  BY <1>6 DEF UpCreates, FreeToChange, Locked, Placed, LocksHold, DropsUnrecord,
         RecordedTablesExist, PassedRecorded, OneKind, HolesNeedOverlap
<1>7. ASSUME NEW p \in Runs, Record(p) PROVE Inv'
  BY <1>7 DEF Record, WrittenByOther, Placed, LocksHold, DropsUnrecord,
         RecordedTablesExist, PassedRecorded, OneKind, HolesNeedOverlap
<1>8. ASSUME NEW p \in Runs, FindLatest(p) PROVE Inv'
  BY <1>8 DEF FindLatest, Placed, LocksHold, DropsUnrecord, RecordedTablesExist,
         PassedRecorded, OneKind, HolesNeedOverlap
<1>9. ASSUME NEW p \in Runs, FindNone(p) PROVE Inv'
  BY <1>9 DEF FindNone, Placed, LocksHold, DropsUnrecord, RecordedTablesExist,
         PassedRecorded, OneKind, HolesNeedOverlap
<1>10. ASSUME NEW p \in Runs, DownDrops(p) PROVE Inv'
  <2> USE <1>10 DEF DownDrops
  <2>1. Types' /\ \A q \in Runs : Placed(q)'
    BY DEF Placed
  <2>2. \A q \in Runs \ {p} : lock[q] # "none" => at[q] # at[p]
    BY DEF FreeToChange, Locked
  <2>3. LocksHold'
    BY <2>2 DEF LocksHold
  <2> QED BY <2>1, <2>3 DEF DropsUnrecord, RecordedTablesExist, PassedRecorded, OneKind,
                            HolesNeedOverlap
<1>11. ASSUME NEW p \in Runs, DownFindsNoTable(p) PROVE Inv'
  BY <1>11 DEF DownFindsNoTable, Placed, LocksHold, DropsUnrecord, RecordedTablesExist,
         PassedRecorded, OneKind, HolesNeedOverlap
<1>12. ASSUME NEW p \in Runs, Unrecord(p) PROVE Inv'
  <2> USE <1>12 DEF Unrecord
  <2>1. Types' /\ \A q \in Runs : Placed(q)'
    BY DEF Placed
  <2>2. DropsUnrecord'
    BY DEF DropsUnrecord
  <2>3. LocksHold' /\ RecordedTablesExist' /\ HolesNeedOverlap'
    BY DEF LocksHold, RecordedTablesExist, HolesNeedOverlap
  <2>4. PassedRecorded' /\ OneKind'
    BY DEF PassedRecorded, OneKind
  <2> QED BY <2>1, <2>2, <2>3, <2>4
<1>13. ASSUME NEW p \in Runs, Rollback(p) PROVE Inv'
  BY <1>13, RollbackKeeps
<1>14. ASSUME NEW p \in Runs, Commit(p) PROVE Inv'
  <2> USE <1>14 DEF Commit, EndTx
  <2>1. TakeEffect(p) /\ pc[p] = "commit"
    OBVIOUS
  <2>2. Placed(p) /\ kind[p] \in {"up", "down"} /\ at[p] \in Versions
    BY DEF Placed
  <2>3. Types'
    <3>1. tables' \subseteq Versions /\ records' \subseteq Versions
      BY <2>1, EffectKeeps
    <3>2. at' \in [Runs -> 1..(NumMigrations + 1)]
      BY <2>2
    <3>3. wrote' \in [Runs -> BOOLEAN]
      OBVIOUS
    <3> QED BY <2>1, <3>1, <3>2, <3>3 DEF TakeEffect
  <2>4. \A q \in Runs : Placed(q)'
    BY <2>2 DEF Placed
  <2>5. LocksHold' /\ DropsUnrecord'
    BY <2>1, EffectKeeps DEF LocksHold, DropsUnrecord
  <2>6. RecordedTablesExist' /\ HolesNeedOverlap'
    BY <2>1, EffectKeeps DEF RecordedTablesExist, HolesNeedOverlap
  <2>7. PassedRecorded'
    BY <2>1, <2>2 DEF TakeEffect, With, PassedRecorded, Placed
  <2>8. OneKind'
    BY <2>1, <2>2 DEF TakeEffect, With, OneKind, Placed
  <2> QED BY <2>3, <2>4, <2>5, <2>6, <2>7, <2>8
<1>15. ASSUME NEW p \in Runs, CommitFails(p) PROVE Inv'
  <2> USE <1>15 DEF CommitFails, EndTx
  <2>0. \A q \in Runs : Placed(q)'
    BY DEF Placed
  <2>1. Types'
    <3>1. tables' \subseteq Versions /\ records' \subseteq Versions
      BY EffectKeeps
    <3>2. wrote' \in [Runs -> BOOLEAN]
      OBVIOUS
    <3> QED BY <3>1, <3>2 DEF TakeEffect
  <2>2. LocksHold' /\ DropsUnrecord'
    BY EffectKeeps DEF LocksHold, DropsUnrecord
  <2>3. RecordedTablesExist' /\ HolesNeedOverlap'
    BY EffectKeeps DEF RecordedTablesExist, HolesNeedOverlap
  <2>4. PassedRecorded'
    BY DEF TakeEffect, With, PassedRecorded, Placed
  <2>5. OneKind'
    BY DEF TakeEffect, With, OneKind, Placed
  <2> QED BY <2>0, <2>1, <2>2, <2>3, <2>4, <2>5
<1>16. CASE UNCHANGED vars
  BY <1>16 DEF vars, Placed, LocksHold, DropsUnrecord, RecordedTablesExist,
         PassedRecorded, OneKind, HolesNeedOverlap
<1> QED
  BY <1>1, <1>2, <1>3, <1>4, <1>5, <1>6, <1>7, <1>8, <1>9, <1>10, <1>11, <1>12, <1>13,
     <1>14, <1>15, <1>16
     DEF Next, Proceeds, UpRefused, RecordRefused, DownRefused, Abort, Finished

LEMMA Invariant == Spec => []Inv
  BY InitInv, StepInv, PTL DEF Spec

-----------------------------------------------------------------------------
\* Every variable keeps its type, and no run holds a lock or an unwritten row outside
\* its transaction: each way out of a transaction rolls it back or commits it.
THEOREM MigrationsTypeCorrect == Spec => []TypeOK
<1>1. Inv => TypeOK
  BY DEF Inv, Types, Placed, TypeOK, LockStates
<1> QED BY <1>1, Invariant, PTL

\* A recorded version has its table, whatever runs at the same time and fails where.
THEOREM RecordedExist == Spec => []RecordedTablesExist
<1>1. Inv => RecordedTablesExist
  BY DEF Inv
<1> QED BY <1>1, Invariant, PTL

\* A Migrate that returns nil has left no migration out, unless a MigrateDown took
\* effect meanwhile.
THEOREM MigrateIsComplete == Spec => []MigrateCompletes
<1>1. Inv => MigrateCompletes
  <2> SUFFICES ASSUME Inv, NEW p \in Runs, pc[p] = "ok", kind[p] = "up", p \notin downs
               PROVE  records = Versions
    BY DEF MigrateCompletes
  <2>1. at[p] = NumMigrations + 1
    BY DEF Inv, Placed
  <2>2. 1..(at[p] - 1) \subseteq records
    BY DEF Inv, PassedRecorded
  <2>3. (NumMigrations + 1) - 1 = NumMigrations
    OBVIOUS
  <2>4. records \subseteq 1..NumMigrations
    BY DEF Inv, Types
  <2> QED BY <2>1, <2>2, <2>3, <2>4
<1> QED BY <1>1, Invariant, PTL

\* Without a Migrate and a MigrateDown at the same time the recorded migrations are
\* a first part of the list.
THEOREM NoHoleWithoutOverlap == Spec => []HolesNeedOverlap
<1>1. Inv => HolesNeedOverlap
  BY DEF Inv
<1> QED BY <1>1, Invariant, PTL

\* A run that waits does so on a transaction that is past its script; and one that has
\* written its row waits on nobody.
LEMMA WaitsForLater ==
    ASSUME Inv, NEW p \in Runs, Waits(p)
    PROVE  \/ pc[p] = "script" /\ \E q \in Runs \ {p} : pc[q] \in {"record", "commit"}
           \/ pc[p] = "record" /\ \E q \in Runs \ {p} : pc[q] = "commit"
<1> USE DEF Inv, Types
<1>1. \A q \in Runs : lock[q] # "none" => pc[q] \in {"record", "commit"}
  BY DEF Placed
<1>2. \A q \in Runs : wrote[q] => pc[q] = "commit"
  BY DEF Placed
<1>3. \A q \in Runs : lock[q] = "none" => Locked(q) = {}
  BY DEF Locked
<1>4. CASE pc[p] = "script"
  <2>1. ~FreeToShare(p) \/ ~FreeToChange(p)
    BY <1>4 DEF Waits
  <2>2. \E q \in Runs \ {p} : lock[q] # "none"
    BY <2>1, <1>3 DEF FreeToShare, FreeToChange
  <2> QED BY <1>1, <1>4, <2>2
<1>5. CASE pc[p] = "record"
  <2>1. WrittenByOther(p) \/ DeletedByOther(p)
    BY <1>5 DEF Waits
  <2>2. \E q \in Runs \ {p} : wrote[q]
    BY <2>1 DEF WrittenByOther, DeletedByOther
  <2> QED BY <1>2, <1>5, <2>2
<1> QED BY <1>4, <1>5 DEF Waits

\* The runs never wait on each other in a circle, however many they are and whatever
\* refers to what: the transaction that waits on nobody ends the chain.
THEOREM MigrationsDoNotDeadlock == Spec => []NoDeadlock
<1>1. Inv => NoDeadlock
  <2> SUFFICES ASSUME Inv, NEW p \in Runs, Waits(p)
               PROVE  \E q \in Runs : pc[q] \in {"record", "commit"} /\ ~Waits(q)
    BY DEF NoDeadlock
  <2>1. \A q \in Runs : pc[q] = "commit" => ~Waits(q)
    BY DEF Waits
  <2>2. CASE \E q \in Runs : pc[q] = "commit"
    BY <2>1, <2>2
  <2>3. CASE ~\E q \in Runs : pc[q] = "commit"
    <3>1. \A q \in Runs : pc[q] = "record" => ~Waits(q)
      BY <2>3, WaitsForLater
    <3>2. \E q \in Runs : pc[q] = "record"
      BY <2>3, WaitsForLater
    <3> QED BY <3>1, <3>2
  <2> QED BY <2>2, <2>3
<1> QED BY <1>1, Invariant, PTL
=============================================================================
