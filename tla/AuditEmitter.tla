---------------------------- MODULE AuditEmitter ----------------------------
(***************************************************************************)
(* The asynchronous audit emitter of internal/audit/audit.go: screen calls *)
(* put events on a bounded channel without ever waiting, one worker        *)
(* goroutine hands them to the sink, and Close stops the worker.           *)
(*                                                                         *)
(* A member of Events is emitted at most once: it is one screen call's     *)
(* event.                                                                  *)
(***************************************************************************)
EXTENDS Integers, Sequences

CONSTANTS
    Events,         \* the events of the screen calls
    QueueSize       \* capacity of the channel; NewEmitter makes it positive

ASSUME EmitterAssumption == QueueSize \in Nat \ {0}

VARIABLES
    queue,      \* the channel
    worker,     \* "select", "sending" or "stopped"
    inHand,     \* the event the worker is sending, as a sequence of at most one
    sunk,       \* what the sink has taken, in order
    drops,      \* the drop counter: overflow and sink failures
    emitted,    \* the counter of events the sink took
    stopping,   \* stopCh is closed
    closer,     \* the caller of Close: "none", "waiting" or "returned"
    sent        \* history: the events passed to Emit, in order

vars == <<queue, worker, inHand, sunk, drops, emitted, stopping, closer, sent>>

-----------------------------------------------------------------------------
Occurrences(s) == {s[i] : i \in DOMAIN s}

Init ==
    /\ queue = <<>>
    /\ worker = "select"
    /\ inHand = <<>>
    /\ sunk = <<>>
    /\ drops = 0
    /\ emitted = 0
    /\ stopping = FALSE
    /\ closer = "none"
    /\ sent = <<>>

Submit(e) ==
    /\ e \notin Occurrences(sent)
    /\ sent' = Append(sent, e)

HasRoomAlways == TRUE               \* faulty: the bound of the channel is ignored
HasRoom == Len(queue) < QueueSize

\* Emit finds room in the channel; nobody looks whether the worker still runs.
EmitQueued(e) ==
    /\ Submit(e)
    /\ HasRoom
    /\ queue' = Append(queue, e)
    /\ UNCHANGED <<worker, inHand, sunk, drops, emitted, stopping, closer>>

\* Emit finds the channel full: ErrAuditDropped.
EmitDroppedSilently(e) ==           \* faulty: the drop is not counted
    /\ Submit(e)
    /\ ~HasRoom
    /\ UNCHANGED <<queue, worker, inHand, sunk, drops, emitted, stopping, closer>>
EmitDropped(e) ==
    /\ Submit(e)
    /\ ~HasRoom
    /\ drops' = drops + 1
    /\ UNCHANGED <<queue, worker, inHand, sunk, emitted, stopping, closer>>

\* The worker's select takes the next event, also when stopCh is closed: of two
\* ready cases select takes either.
Take ==
    /\ worker = "select"
    /\ queue # <<>>
    /\ worker' = "sending"
    /\ inHand' = <<Head(queue)>>
    /\ queue' = Tail(queue)
    /\ UNCHANGED <<sunk, drops, emitted, stopping, closer, sent>>

\* The sink takes the event.
SinkTakes ==
    /\ worker = "sending"
    /\ worker' = "select"
    /\ sunk' = sunk \o inHand
    /\ emitted' = emitted + 1
    /\ inHand' = <<>>
    /\ UNCHANGED <<queue, drops, stopping, closer, sent>>

\* The sink fails, or its five seconds are over: counted as a drop and not tried
\* again, also when the event did get through.
SinkFailsFatal ==                   \* faulty: the worker gives up
    /\ worker = "sending"
    /\ worker' = "stopped"
    /\ drops' = drops + 1
    /\ inHand' = <<>>
    /\ UNCHANGED <<queue, sunk, emitted, stopping, closer, sent>>
SinkFailsRequeues ==                \* faulty: the event is tried again later
    /\ worker = "sending"
    /\ worker' = "select"
    /\ inHand' = <<>>
    /\ queue' = queue \o inHand
    /\ UNCHANGED <<sunk, drops, emitted, stopping, closer, sent>>
SinkFails ==
    /\ worker = "sending"
    /\ worker' = "select"
    /\ drops' = drops + 1
    /\ sunk' \in {sunk, sunk \o inHand}
    /\ inHand' = <<>>
    /\ UNCHANGED <<queue, emitted, stopping, closer, sent>>

\* The worker's select takes the closed stopCh and returns.
StopAfterTake ==                    \* faulty: looks at stopCh only with an event at hand
    /\ worker = "select"
    /\ stopping /\ queue # <<>>
    /\ worker' = "stopped"
    /\ UNCHANGED <<queue, inHand, sunk, drops, emitted, stopping, closer, sent>>
Stop ==
    /\ worker = "select"
    /\ stopping
    /\ worker' = "stopped"
    /\ UNCHANGED <<queue, inHand, sunk, drops, emitted, stopping, closer, sent>>

\* Close closes stopCh, then waits for the worker.
Close ==
    /\ closer = "none"
    /\ closer' = "waiting"
    /\ stopping' = TRUE
    /\ UNCHANGED <<queue, worker, inHand, sunk, drops, emitted, sent>>

CloseReturnsAtOnce ==               \* faulty: no wg.Wait
    /\ closer = "waiting"
    /\ closer' = "returned"
    /\ UNCHANGED <<queue, worker, inHand, sunk, drops, emitted, stopping, sent>>
CloseReturns ==
    /\ closer = "waiting"
    /\ worker = "stopped"
    /\ closer' = "returned"
    /\ UNCHANGED <<queue, worker, inHand, sunk, drops, emitted, stopping, sent>>

\* The process has closed the emitter and no screen call is left.
Finished ==
    /\ closer = "returned" /\ Occurrences(sent) = Events
    /\ UNCHANGED vars

Sink == SinkTakes \/ SinkFails

Next ==
    \/ \E e \in Events : EmitQueued(e) \/ EmitDropped(e)
    \/ Take \/ Sink \/ Stop
    \/ Close \/ CloseReturns
    \/ Finished

Spec == Init /\ [][Next]_vars

-----------------------------------------------------------------------------
TypeOK ==
    /\ queue \in Seq(Events) /\ Len(queue) <= QueueSize
    /\ worker \in {"select", "sending", "stopped"}
    /\ inHand \in Seq(Events) /\ Len(inHand) = (IF worker = "sending" THEN 1 ELSE 0)
    /\ sunk \in Seq(Events)
    /\ drops \in Nat /\ emitted \in Nat /\ sent \in Seq(Events)
    /\ stopping \in BOOLEAN
    /\ closer \in {"none", "waiting", "returned"}

\* Every event passed to Emit is counted as emitted, counted as dropped, or still
\* in the channel or the worker's hand: overflow, sink failures, the worker and
\* Close never lose one unnoticed while the worker runs.  The counters are true: the
\* sink has taken every event counted as emitted, and besides these at most some of
\* those counted as dropped.
EveryEventCounted ==
    /\ Len(sent) = emitted + drops + Len(queue) + Len(inHand)
    /\ emitted <= Len(sunk) /\ Len(sunk) <= emitted + drops

Before(e, f) == \E i, j \in DOMAIN sent : i < j /\ sent[i] = e /\ sent[j] = f

\* The sink sees the events in the order of the calls of Emit, hence none twice and
\* none that was not emitted: overflow and failures leave gaps in the audit trail,
\* but never turn it around.
SunkInOrder ==
    /\ \A i, j \in DOMAIN sunk : i < j => Before(sunk[i], sunk[j]) /\ sunk[i] # sunk[j]
    /\ Occurrences(sunk) \subseteq Occurrences(sent)

\* When Close has returned the worker is gone: nothing reaches the sink any more,
\* so that the process may close the sink.
QuietAfterClose == [][closer = "returned" => UNCHANGED <<sunk, emitted, worker>>]_vars

\* Before Close, an event in the channel is handed to the sink in the end.
QueueDrains ==
    \A e \in Events :
        (e \in Occurrences(queue) /\ ~stopping)
            ~> (e \notin Occurrences(queue) \/ stopping)
=============================================================================
