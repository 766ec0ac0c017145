------------------------------ MODULE Shutdown ------------------------------
(***************************************************************************)
(* The end of the process: run of cmd/kyt/main.go composed with the audit  *)
(* emitter, the two servers, their screen calls and the stores these use.  *)
(*                                                                         *)
(* On a signal, or when a server cannot serve, run stops the gRPC server,  *)
(* which waits for its calls without a limit, then the REST server, which  *)
(* waits for at most ten seconds.  The deferred calls follow in reverse    *)
(* order: the cleanup function closes the cache, the database and then the *)
(* audit sink, and only after it is the emitter closed.                    *)
(*                                                                         *)
(* Each event is that of one screen call, so that a member of Events also  *)
(* stands for the call.  Of a call only its last accesses are kept: it     *)
(* persists its row, which needs the database, and emits its event.        *)
(***************************************************************************)
EXTENDS AuditEmitter

CONSTANTS
    RestCalls,      \* the events whose calls come through the REST server
    Sinks           \* the audit sinks to consider: "db", "kafka", "memory"

ASSUME ShutdownAssumption ==
    /\ RestCalls \subseteq Events
    /\ Sinks \subseteq {"db", "kafka", "memory"}

VARIABLES
    sink,           \* the audit sink in use
    phase,          \* where run is
    cause,          \* what ended serving: "none", "signal" or "error"
    accepting,      \* the servers that accept calls
    grace,          \* the ten seconds of the REST server: "unset", "running", "over"
    opened,         \* the resources that are open
    call,           \* where each call is
    reached,        \* the sink was open when the worker took the event in its hand
    sunkAtClose     \* history: how many events had been sunk when the sink was closed

procVars == <<sink, phase, cause, accepting, grace, opened, call>>
sVars    == <<vars, procVars, reached, sunkAtClose>>

-----------------------------------------------------------------------------
Servers == {"rest", "grpc"}
Phases == {"serving", "stopGrpc", "stopRest", "cleanup", "closeSink", "closeAudit", "exited"}
ActiveStates == {"running", "emitting"}

ServerOf(e) == IF e \in RestCalls THEN "rest" ELSE "grpc"
Active(e) == call[e] \in ActiveStates
ActiveOn(s) == \E e \in Events : Active(e) /\ ServerOf(e) = s

\* The database sink is as open as the database; the memory sink has no Close.
SinkOpen == sink = "memory" \/ sink \in opened

\* buildAuditSink chooses the sink; buildServices has opened what there is.
SInit ==
    /\ Init
    /\ sink \in Sinks
    /\ phase = "serving"
    /\ cause = "none"
    /\ accepting = Servers
    /\ grace = "unset"
    /\ opened = {"cache", "db"} \cup (IF sink = "kafka" THEN {"kafka"} ELSE {})
    /\ call = [e \in Events |-> "idle"]
    /\ reached = FALSE
    /\ sunkAtClose = 0

Alive == phase # "exited"

\* A server hands a call to its goroutine.
Accept(e) ==
    /\ Alive
    /\ call[e] = "idle" /\ ServerOf(e) \in accepting
    /\ call' = [call EXCEPT ![e] = "running"]
    /\ UNCHANGED <<vars, sink, phase, cause, accepting, grace, opened, reached, sunkAtClose>>

\* The row of the call is written, while the database is open; or it is not, and
\* the call ends with an error and no event.
PersistRow(e) ==
    /\ Alive
    /\ call[e] = "running" /\ "db" \in opened
    /\ call' = [call EXCEPT ![e] = "emitting"]
    /\ UNCHANGED <<vars, sink, phase, cause, accepting, grace, opened, reached, sunkAtClose>>

CallFails(e) ==
    /\ Alive
    /\ call[e] = "running"
    /\ call' = [call EXCEPT ![e] = "failed"]
    /\ UNCHANGED <<vars, sink, phase, cause, accepting, grace, opened, reached, sunkAtClose>>

\* finalize emits the event, whatever has become of the emitter meanwhile.
EmitEvent(e) ==
    /\ Alive
    /\ call[e] = "emitting"
    /\ EmitQueued(e) \/ EmitDropped(e)
    /\ call' = [call EXCEPT ![e] = "answered"]
    /\ UNCHANGED <<sink, phase, cause, accepting, grace, opened, reached, sunkAtClose>>

CallRuns(e) == PersistRow(e) \/ CallFails(e) \/ EmitEvent(e)

\* The worker takes an event and calls the sink.  A call that starts on an open sink
\* may get through even while the sink is being closed; one on a closed sink
\* (a closed database or a closed Kafka writer) fails.
WorkerTakes ==
    /\ Alive
    /\ Take
    /\ reached' = SinkOpen
    /\ UNCHANGED <<procVars, sunkAtClose>>

SinkAlwaysReached == TRUE       \* faulty: the closed sink still takes events
SinkReached == reached

WorkerSends ==
    /\ Alive
    /\ SinkTakes \/ SinkFails
    /\ sunk' # sunk => SinkReached
    /\ UNCHANGED <<procVars, reached, sunkAtClose>>

WorkerStops ==
    /\ Alive
    /\ Stop
    /\ UNCHANGED <<procVars, reached, sunkAtClose>>

\* SIGINT or SIGTERM.  The ten seconds start here, before the gRPC server is asked to
\* stop.
Signal ==
    /\ phase = "serving"
    /\ phase' = "stopGrpc"
    /\ cause' = "signal"
    /\ grace' = "running"
    /\ accepting' = accepting \ {"grpc"}
    /\ UNCHANGED <<vars, sink, opened, call, reached, sunkAtClose>>

\* A server cannot listen, or stops serving.
ServeFails(s) ==
    /\ phase = "serving"
    /\ phase' = "stopGrpc"
    /\ cause' = "error"
    /\ accepting' = accepting \ {"grpc", s}
    /\ UNCHANGED <<vars, sink, grace, opened, call, reached, sunkAtClose>>

GracePasses ==
    /\ Alive
    /\ grace = "running"
    /\ grace' = "over"
    /\ UNCHANGED <<vars, sink, phase, cause, accepting, opened, call, reached, sunkAtClose>>

GrpcStoppedAtOnce ==            \* faulty: Stop in the place of GracefulStop
    /\ phase = "stopGrpc"
    /\ phase' = "stopRest"
    /\ accepting' = {}
    /\ grace' = IF cause = "signal" THEN grace ELSE "running"
    /\ UNCHANGED <<vars, sink, cause, opened, call, reached, sunkAtClose>>

\* GracefulStop returns when no gRPC call is left, however long that takes; the
\* REST server accepts calls all the while.  Then srv.Shutdown closes the listener;
\* without a signal its ten seconds start only now.
GrpcStopped ==
    /\ phase = "stopGrpc"
    /\ ~ActiveOn("grpc")
    /\ phase' = "stopRest"
    /\ accepting' = {}
    /\ grace' = IF cause = "signal" THEN grace ELSE "running"
    /\ UNCHANGED <<vars, sink, cause, opened, call, reached, sunkAtClose>>

\* srv.Shutdown returns when no REST call is left or its time is over; the calls
\* that are left run on.
RestStopped ==
    /\ phase = "stopRest"
    /\ ~ActiveOn("rest") \/ grace = "over"
    /\ phase' = "cleanup"
    /\ UNCHANGED <<vars, sink, cause, accepting, grace, opened, call, reached, sunkAtClose>>

SunkCount(closed) == IF sink \in closed THEN Len(sunk) ELSE sunkAtClose

\* cleanup: the cache and the database, then the Kafka writer.
CloseStores ==
    /\ phase = "cleanup"
    /\ phase' = "closeSink"
    /\ opened' = opened \ {"cache", "db"}
    /\ sunkAtClose' = SunkCount({"db"})
    /\ UNCHANGED <<vars, sink, cause, accepting, grace, call, reached>>

CloseSink ==
    /\ phase = "closeSink"
    /\ phase' = "closeAudit"
    /\ opened' = opened \ {"kafka"}
    /\ sunkAtClose' = SunkCount({"kafka"})
    /\ UNCHANGED <<vars, sink, cause, accepting, grace, call, reached>>

\* Audit.Close, the last of the deferred calls that matter here.
CloseAudit ==
    /\ phase = "closeAudit"
    /\ Close \/ CloseReturns
    /\ UNCHANGED <<procVars, reached, sunkAtClose>>

\* main returns: whatever still runs, and whatever is queued, is gone.
Exit ==
    /\ phase = "closeAudit" /\ closer = "returned"
    /\ phase' = "exited"
    /\ UNCHANGED <<vars, sink, cause, accepting, grace, opened, call, reached, sunkAtClose>>

Exited == phase = "exited" /\ UNCHANGED sVars

Ending == GrpcStopped \/ RestStopped \/ CloseStores \/ CloseSink \/ CloseAudit \/ Exit

SNext ==
    \/ \E e \in Events : Accept(e) \/ CallRuns(e)
    \/ WorkerTakes \/ WorkerSends \/ WorkerStops
    \/ Signal \/ \E s \in Servers : ServeFails(s)
    \/ GracePasses
    \/ Ending
    \/ Exited

SSpec == SInit /\ [][SNext]_sVars

\* Calls end (the vendor and the database answer or time out), the worker and the
\* sink go on (a send lasts five seconds at most), time passes, and run goes on.
\* No call need arrive, no signal need come.
SFairSpec ==
    /\ SSpec
    /\ \A e \in Events : WF_sVars(CallRuns(e))
    /\ WF_sVars(WorkerTakes \/ WorkerStops) /\ WF_sVars(WorkerSends)
    /\ WF_sVars(GracePasses)
    /\ WF_sVars(Ending)

-----------------------------------------------------------------------------
STypeOK ==
    /\ TypeOK
    /\ sink \in {"db", "kafka", "memory"}
    /\ phase \in Phases
    /\ cause \in {"none", "signal", "error"}
    /\ accepting \subseteq Servers
    /\ grace \in {"unset", "running", "over"}
    /\ opened \subseteq {"cache", "db", "kafka"}
    /\ call \in [Events -> {"idle", "answered", "failed"} \cup ActiveStates]
    /\ reached \in BOOLEAN
    /\ sunkAtClose \in Nat

\* The database is closed under no call's feet: when it is, no gRPC call is
\* running, and a REST call only if it has outlived the ten seconds.
StoresOutliveCalls ==
    "db" \notin opened =>
        /\ ~ActiveOn("grpc")
        /\ ActiveOn("rest") => grace = "over"

\* The sink is closed before the emitter: of everything still queued at most the
\* one event in the worker's hand gets through.
AtMostOneLate == ~SinkOpen => Len(sunk) <= sunkAtClose + 1

\* Once serving has ended the process exits: the calls, a full queue and a slow
\* sink only delay it.
ShutdownEnds == phase # "serving" ~> phase = "exited"
=============================================================================
