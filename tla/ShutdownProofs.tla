--------------------------- MODULE ShutdownProofs ---------------------------
(***************************************************************************)
(* What the end of the process keeps true, for any calls, any split of     *)
(* them over the servers, any sink and any capacity of the channel: the    *)
(* emitter's own invariants, the order in which calls, stores and sink     *)
(* end, and how much still gets through a sink that is closed too early.   *)
(***************************************************************************)
EXTENDS Shutdown, AuditEmitterProofs

USE ShutdownAssumption

-----------------------------------------------------------------------------
(* The process lets the emitter do what the emitter does by itself.        *)

LEMMA StepOfEmitter == [SNext]_sVars => [Next]_vars
<1> SUFFICES ASSUME [SNext]_sVars PROVE [Next]_vars
  OBVIOUS
<1>1. ASSUME NEW e \in Events, EmitEvent(e) PROVE Next
  BY <1>1 DEF EmitEvent, Next
<1>2. CASE WorkerTakes \/ WorkerSends \/ WorkerStops
  BY <1>2 DEF WorkerTakes, WorkerSends, WorkerStops, Sink, Next
<1>3. CASE CloseAudit
  BY <1>3 DEF CloseAudit, Next
<1>4. ASSUME NEW e \in Events, Accept(e) \/ PersistRow(e) \/ CallFails(e)
      PROVE  UNCHANGED vars
  BY <1>4 DEF Accept, PersistRow, CallFails
<1>5. CASE Signal \/ GracePasses \/ \E s \in Servers : ServeFails(s)
  BY <1>5 DEF Signal, GracePasses, ServeFails
<1>6. CASE GrpcStopped \/ RestStopped \/ CloseStores \/ CloseSink \/ Exit \/ Exited
  BY <1>6 DEF GrpcStopped, RestStopped, CloseStores, CloseSink, Exit, Exited, sVars
<1>7. CASE UNCHANGED sVars
  BY <1>7 DEF sVars
<1> QED BY <1>1, <1>2, <1>3, <1>4, <1>5, <1>6, <1>7 DEF SNext, CallRuns, Ending

LEMMA ProcessIsEmitter == SSpec => Spec
<1>1. SInit => Init
  BY DEF SInit
<1> QED BY <1>1, StepOfEmitter, PTL DEF SSpec, Spec

\* Every event is counted in the whole process, through its end.
THEOREM AllCountedToTheEnd == SSpec => []EveryEventCounted
  BY ProcessIsEmitter, AllCounted, PTL

\* Nothing reaches the sink once Close of the emitter has returned.
THEOREM SilentToTheEnd == SSpec => QuietAfterClose
  BY ProcessIsEmitter, SilentAfterClose, PTL

-----------------------------------------------------------------------------
(* Types.  reached is a flag, and typed apart from the rest.               *)

ProcTypes ==
    /\ sink \in {"db", "kafka", "memory"}
    /\ phase \in Phases
    /\ cause \in {"none", "signal", "error"}
    /\ accepting \subseteq Servers
    /\ grace \in {"unset", "running", "over"}
    /\ opened \subseteq {"cache", "db", "kafka"}
    /\ call \in [Events -> {"idle", "answered", "failed"} \cup ActiveStates]

LEMMA InitProc == SInit => ProcTypes
  BY DEF SInit, ProcTypes, Phases, ActiveStates, Servers

LEMMA StepProc == ProcTypes /\ [SNext]_sVars => ProcTypes'
<1> SUFFICES ASSUME ProcTypes, [SNext]_sVars PROVE ProcTypes'
  OBVIOUS
<1> USE DEF ProcTypes, Phases, Servers, ActiveStates
<1>1. ASSUME NEW e \in Events, Accept(e) \/ CallRuns(e) PROVE ProcTypes'
  BY <1>1 DEF Accept, CallRuns, PersistRow, CallFails, EmitEvent
<1>2. CASE WorkerTakes \/ WorkerSends \/ WorkerStops \/ CloseAudit
  BY <1>2 DEF WorkerTakes, WorkerSends, WorkerStops, CloseAudit, procVars
<1>3. CASE Signal \/ GracePasses \/ \E s \in Servers : ServeFails(s)
  BY <1>3 DEF Signal, GracePasses, ServeFails
<1>4. CASE GrpcStopped \/ RestStopped \/ CloseStores \/ CloseSink \/ Exit
  BY <1>4 DEF GrpcStopped, RestStopped, CloseStores, CloseSink, Exit
<1>5. CASE UNCHANGED sVars
  BY <1>5 DEF sVars, procVars
<1> QED BY <1>1, <1>2, <1>3, <1>4, <1>5 DEF SNext, Ending, Exited

LEMMA ReachedIsFlag == SSpec => [](reached \in BOOLEAN)
<1>1. SInit => reached \in BOOLEAN
  BY DEF SInit
<1>2. reached \in BOOLEAN /\ [SNext]_sVars => (reached \in BOOLEAN)'
  <2>1. SinkOpen \in BOOLEAN
    BY DEF SinkOpen
  <2> QED BY <2>1 DEF SNext, Accept, CallRuns, PersistRow, CallFails, EmitEvent, WorkerTakes,
            WorkerSends, WorkerStops, CloseAudit, Signal, GracePasses, ServeFails, Ending,
            GrpcStopped, RestStopped, CloseStores, CloseSink, Exit, Exited, sVars
<1> QED BY <1>1, <1>2, PTL DEF SSpec

-----------------------------------------------------------------------------
(* The order of the end.                                                   *)

\* Why no call loses its database: the gRPC server has none left when run goes on,
\* the REST server none or no time, and nobody accepts another.
EndInOrder ==
    /\ phase # "serving" => "grpc" \notin accepting
    /\ phase \in Phases \ {"serving", "stopGrpc"} =>
          accepting = {} /\ ~ActiveOn("grpc")
    /\ phase \in {"cleanup", "closeSink", "closeAudit", "exited"} =>
          (ActiveOn("rest") => grace = "over")
    /\ "db" \notin opened => phase \in {"closeSink", "closeAudit", "exited"}

LEMMA InitOrder == SInit => EndInOrder
  BY DEF SInit, EndInOrder, Phases

LEMMA StepOrder == ProcTypes /\ EndInOrder /\ [SNext]_sVars => EndInOrder'
<1> SUFFICES ASSUME ProcTypes, EndInOrder, [SNext]_sVars PROVE EndInOrder'
  OBVIOUS
<1> USE DEF ProcTypes, EndInOrder, Phases, Servers, ActiveOn, Active, ActiveStates
<1>1. ASSUME NEW e \in Events, Accept(e) PROVE EndInOrder'
  BY <1>1 DEF Accept
<1>2. ASSUME NEW e \in Events, CallRuns(e) PROVE EndInOrder'
  <2>1. \A f \in Events : Active(f)' => Active(f)
    BY <1>2 DEF CallRuns, PersistRow, CallFails, EmitEvent
  <2>2. UNCHANGED <<phase, accepting, grace, opened>>
    BY <1>2 DEF CallRuns, PersistRow, CallFails, EmitEvent
  <2> QED BY <2>1, <2>2
<1>3. CASE WorkerTakes \/ WorkerSends \/ WorkerStops \/ CloseAudit
  BY <1>3 DEF WorkerTakes, WorkerSends, WorkerStops, CloseAudit, procVars
<1>4. CASE Signal \/ GracePasses \/ \E s \in Servers : ServeFails(s)
  BY <1>4 DEF Signal, GracePasses, ServeFails
<1>5. CASE GrpcStopped
  BY <1>5 DEF GrpcStopped
<1>6. CASE RestStopped
  BY <1>6 DEF RestStopped
<1>7. CASE CloseStores \/ CloseSink \/ Exit
  BY <1>7 DEF CloseStores, CloseSink, Exit
<1>8. CASE UNCHANGED sVars
  BY <1>8 DEF sVars, procVars
<1> QED BY <1>1, <1>2, <1>3, <1>4, <1>5, <1>6, <1>7, <1>8 DEF SNext, Ending, Exited

LEMMA OrderInvariant == SSpec => [](ProcTypes /\ EndInOrder)
<1>1. SInit => ProcTypes /\ EndInOrder
  BY InitProc, InitOrder
<1>2. ProcTypes /\ EndInOrder /\ [SNext]_sVars => (ProcTypes /\ EndInOrder)'
  BY StepProc, StepOrder
<1> QED BY <1>1, <1>2, PTL DEF SSpec

\* The database is closed under no call that has not outlived the grace.
THEOREM StoresAreClosedLast == SSpec => []StoresOutliveCalls
<1>1. ProcTypes /\ EndInOrder => StoresOutliveCalls
  BY DEF ProcTypes, EndInOrder, StoresOutliveCalls, Phases
<1> QED BY <1>1, OrderInvariant, PTL

-----------------------------------------------------------------------------
(* What a closed sink still takes.                                         *)

\* A send that started on the open sink counts as taken already.
LateBound ==
    /\ sunkAtClose \in Nat
    /\ ~SinkOpen => Len(sunk) + (IF worker = "sending" /\ reached THEN 1 ELSE 0)
                        <= sunkAtClose + 1

LEMMA InitLate == SInit => LateBound
  BY DEF SInit, LateBound, Init

LEMMA StepLate == EmitterInv /\ ProcTypes /\ LateBound /\ [SNext]_sVars => LateBound'
<1> SUFFICES ASSUME EmitterInv, ProcTypes, LateBound, [SNext]_sVars PROVE LateBound'
  OBVIOUS
<1> USE DEF LateBound, SinkOpen
<1>0. Len(sunk) \in Nat /\ worker \in {"select", "sending", "stopped"}
  BY DEF EmitterInv
<1>1. ASSUME NEW e \in Events, Accept(e) \/ CallRuns(e) PROVE LateBound'
  BY <1>1 DEF Accept, CallRuns, PersistRow, CallFails, EmitEvent, EmitQueued, EmitDropped, vars
<1>2. CASE WorkerTakes
  BY <1>0, <1>2 DEF WorkerTakes, Take, procVars
<1>3. CASE WorkerSends
  <2>1. /\ worker = "sending" /\ worker' = "select"
        /\ sunk' \in {sunk, sunk \o inHand}
    BY <1>3 DEF WorkerSends, SinkTakes, SinkFails
  <2>2. sunk' # sunk => reached
    BY <1>3 DEF WorkerSends, SinkReached
  <2>3. UNCHANGED <<sink, opened, sunkAtClose>>
    BY <1>3 DEF WorkerSends, procVars
  <2>4. Len(sunk \o inHand) = Len(sunk) + 1
    <3>1. sunk \in Seq(Events) /\ inHand \in Seq(Events) /\ Len(inHand) = 1
      BY <2>1 DEF EmitterInv
    <3> QED BY <3>1, OneMore
  <2> QED BY <1>0, <2>1, <2>2, <2>3, <2>4
<1>4. CASE WorkerStops \/ CloseAudit
  BY <1>0, <1>4 DEF WorkerStops, Stop, CloseAudit, Close, CloseReturns, procVars
<1>5. CASE CloseStores \/ CloseSink
  <2>1. sunkAtClose' \in {sunkAtClose, Len(sunk)}
    BY <1>5 DEF CloseStores, CloseSink, SunkCount
  <2>2. SinkOpen /\ ~SinkOpen' => sunkAtClose' = Len(sunk)
    BY <1>5 DEF CloseStores, CloseSink, SunkCount, ProcTypes
  <2> QED BY <1>0, <1>5, <2>1, <2>2 DEF CloseStores, CloseSink, SunkCount, vars
<1>6. CASE \/ Signal \/ GracePasses \/ GrpcStopped \/ RestStopped \/ Exit
           \/ \E s \in Servers : ServeFails(s)
  BY <1>6 DEF Signal, GracePasses, GrpcStopped, RestStopped, Exit, ServeFails, vars
<1>7. CASE UNCHANGED sVars
  BY <1>7 DEF sVars, procVars, vars
<1> QED BY <1>1, <1>2, <1>3, <1>4, <1>5, <1>6, <1>7 DEF SNext, Ending, Exited

LEMMA LateInvariant == SSpec => []LateBound
<1>1. SSpec => []EmitterInv
  BY ProcessIsEmitter, EmitterInvariant, PTL
<1> QED BY <1>1, OrderInvariant, InitLate, StepLate, PTL DEF SSpec

\* Of everything queued when the sink is closed, one event at most gets through.
THEOREM OneLateAtMost == SSpec => []AtMostOneLate
<1>1. EmitterInv /\ LateBound => AtMostOneLate
  BY DEF EmitterInv, LateBound, AtMostOneLate
<1>2. SSpec => []EmitterInv
  BY ProcessIsEmitter, EmitterInvariant, PTL
<1> QED BY <1>1, <1>2, LateInvariant, PTL

\* Every variable keeps its type through the end of the process.
THEOREM ShutdownTypeCorrect == SSpec => []STypeOK
<1>1. TypeOK /\ ProcTypes /\ EndInOrder /\ reached \in BOOLEAN /\ LateBound => STypeOK
  BY DEF ProcTypes, LateBound, STypeOK
<1>2. SSpec => []TypeOK
  BY ProcessIsEmitter, EmitterTypeCorrect, PTL
<1> QED BY <1>1, <1>2, OrderInvariant, ReachedIsFlag, LateInvariant, PTL

\* The end of the process does not turn the audit trail around.
THEOREM InOrderToTheEnd == SSpec => []SunkInOrder
  BY ProcessIsEmitter, SinkSeesInOrder, PTL
=============================================================================
