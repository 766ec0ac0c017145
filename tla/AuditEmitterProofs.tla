------------------------- MODULE AuditEmitterProofs -------------------------
(***************************************************************************)
(* The accounting of the audit emitter, the order in which the sink sees   *)
(* the events, and the silence after Close, for any events and any         *)
(* capacity of the channel.                                                *)
(***************************************************************************)
EXTENDS AuditEmitter, SequenceTheorems, TLAPS

USE EmitterAssumption

\* The parts of TypeOK, and that Close returns after the worker only.  stopping
\* is a flag, and typed apart from the numbers.
EmitterInv ==
    /\ queue \in Seq(Events) /\ Len(queue) <= QueueSize
    /\ worker \in {"select", "sending", "stopped"}
    /\ inHand \in Seq(Events)
    /\ worker = "sending" => Len(inHand) = 1
    /\ worker # "sending" => Len(inHand) = 0
    /\ sunk \in Seq(Events)
    /\ sent \in Seq(Events)
    /\ drops \in Nat /\ emitted \in Nat
    /\ closer \in {"none", "waiting", "returned"}
    /\ EveryEventCounted
    /\ closer = "returned" => worker = "stopped"

\* A sequence and one element more.
LEMMA OneMore ==
    ASSUME NEW s \in Seq(Events), NEW t \in Seq(Events), Len(t) = 1
    PROVE  /\ s \o t \in Seq(Events) /\ Len(s \o t) = Len(s) + 1
           /\ DOMAIN (s \o t) = 1..(Len(s) + 1) /\ DOMAIN s = 1..Len(s)
           /\ \A i \in DOMAIN s : (s \o t)[i] = s[i]
           /\ (s \o t)[Len(s) + 1] = t[1]
           /\ DOMAIN t = {1}
<1>1. Len(s \o t) = Len(s) + 1
  BY ConcatProperties
<1>2. DOMAIN t = {1}
  OBVIOUS
<1> QED BY <1>1, <1>2, ConcatProperties

\* A sequence and one element appended.
LEMMA OneAppended ==
    ASSUME NEW s \in Seq(Events), NEW e \in Events
    PROVE  Append(s, e) \in Seq(Events) /\ Len(Append(s, e)) = Len(s) + 1 /\ Len(s) \in Nat
OBVIOUS

LEMMA InitEmitter == Init => EmitterInv
  BY DEF Init, EmitterInv, EveryEventCounted

LEMMA StepEmitter == EmitterInv /\ [Next]_vars => EmitterInv'
<1> SUFFICES ASSUME EmitterInv, [Next]_vars PROVE EmitterInv'
  OBVIOUS
<1> USE DEF EmitterInv, EveryEventCounted
<1>0. <<>> \in Seq(Events) /\ Len(<<>>) = 0
  OBVIOUS
<1>1. ASSUME NEW e \in Events, EmitQueued(e) PROVE EmitterInv'
  <2>1. /\ queue' = Append(queue, e) /\ sent' = Append(sent, e)
        /\ UNCHANGED <<worker, inHand, sunk, drops, emitted, closer>>
        /\ Len(queue) < QueueSize
    BY <1>1 DEF EmitQueued, Submit, HasRoom
  <2>2. /\ queue' \in Seq(Events) /\ Len(queue') = Len(queue) + 1
        /\ sent' \in Seq(Events) /\ Len(sent') = Len(sent) + 1
    BY <2>1, OneAppended
  <2>3. /\ Len(queue) \in Nat /\ Len(inHand) \in Nat /\ Len(sunk) \in Nat
        /\ Len(sent) \in Nat
    OBVIOUS
  <2>4. EveryEventCounted'
    BY <2>1, <2>2, <2>3
  <2> QED BY <2>1, <2>2, <2>4
<1>2. ASSUME NEW e \in Events, EmitDropped(e) PROVE EmitterInv'
  <2>1. /\ sent' = Append(sent, e) /\ drops' = drops + 1
        /\ UNCHANGED <<queue, worker, inHand, sunk, emitted, closer>>
    BY <1>2 DEF EmitDropped, Submit
  <2>2. sent' \in Seq(Events) /\ Len(sent') = Len(sent) + 1
    BY <2>1, OneAppended
  <2>3. /\ Len(queue) \in Nat /\ Len(inHand) \in Nat /\ Len(sunk) \in Nat
        /\ Len(sent) \in Nat
    OBVIOUS
  <2>4. EveryEventCounted'
    BY <2>1, <2>2, <2>3
  <2> QED BY <2>1, <2>2, <2>4
<1>3. CASE Take
  <2>1. /\ Tail(queue) \in Seq(Events) /\ Head(queue) \in Events
        /\ Len(Tail(queue)) = Len(queue) - 1
    BY <1>3 DEF Take
  <2> QED BY <1>3, <2>1 DEF Take
<1>4. CASE SinkTakes
  <2>1. sunk \o inHand \in Seq(Events)
    OBVIOUS
  <2>2. Len(inHand) = 1 /\ inHand' = <<>> /\ emitted' = emitted + 1
    BY <1>4 DEF SinkTakes
  <2>3. Len(sunk \o inHand) = Len(sunk) + 1
    BY <2>2, OneMore
  <2>4. EveryEventCounted'
    BY <1>0, <1>4, <2>2, <2>3 DEF SinkTakes
  <2>5. worker' = "select" /\ UNCHANGED <<queue, drops, closer, sent>>
    BY <1>4 DEF SinkTakes
  <2>6. sunk' \in Seq(Events) /\ emitted' \in Nat
    BY <1>4, <2>1, <2>2 DEF SinkTakes
  <2> QED BY <1>0, <2>2, <2>4, <2>5, <2>6
<1>5. CASE SinkFails
  <2>1. Len(inHand) = 1 /\ inHand' = <<>> /\ drops' = drops + 1
    BY <1>5 DEF SinkFails
  <2>2. sunk \o inHand \in Seq(Events) /\ Len(sunk \o inHand) = Len(sunk) + 1
    BY <2>1, OneMore
  <2>3. EveryEventCounted'
    BY <1>0, <1>5, <2>1, <2>2 DEF SinkFails
  <2>4. sunk' \in Seq(Events)
    BY <1>5, <2>2 DEF SinkFails
  <2>5. /\ worker' = "select" /\ drops' \in Nat
        /\ UNCHANGED <<queue, emitted, closer, sent>>
    BY <1>5, <2>1 DEF SinkFails
  <2> QED BY <1>0, <1>5, <2>1, <2>3, <2>4, <2>5 DEF SinkFails
<1>6. CASE Stop
  BY <1>6 DEF Stop
<1>7. CASE Close
  BY <1>7 DEF Close
<1>8. CASE CloseReturns
  BY <1>8 DEF CloseReturns
<1>9. CASE UNCHANGED vars
  BY <1>9 DEF vars
<1> QED
  BY <1>1, <1>2, <1>3, <1>4, <1>5, <1>6, <1>7, <1>8, <1>9 DEF Next, Sink, Finished

LEMMA EmitterInvariant == Spec => []EmitterInv
  BY InitEmitter, StepEmitter, PTL DEF Spec

LEMMA FlagInvariant == Spec => [](stopping \in BOOLEAN)
<1>1. Init => stopping \in BOOLEAN
  BY DEF Init
<1>2. stopping \in BOOLEAN /\ [Next]_vars => (stopping \in BOOLEAN)'
  BY DEF Next, EmitQueued, EmitDropped, Take, Sink, SinkTakes, SinkFails, Stop, Close,
         CloseReturns, Finished, vars
<1> QED BY <1>1, <1>2, PTL DEF Spec

\* Every variable keeps its type; the channel keeps its bound.
THEOREM EmitterTypeCorrect == Spec => []TypeOK
<1>1. EmitterInv /\ stopping \in BOOLEAN => TypeOK
  <2> SUFFICES ASSUME EmitterInv, stopping \in BOOLEAN PROVE TypeOK
    OBVIOUS
  <2>1. Len(inHand) = IF worker = "sending" THEN 1 ELSE 0
    BY DEF EmitterInv
  <2> QED BY <2>1 DEF EmitterInv, TypeOK
<1> QED BY <1>1, EmitterInvariant, FlagInvariant, PTL

\* No event is lost without a count, in any interleaving of callers and worker.
THEOREM AllCounted == Spec => []EveryEventCounted
<1>1. EmitterInv => EveryEventCounted
  BY DEF EmitterInv
<1> QED BY <1>1, EmitterInvariant, PTL

-----------------------------------------------------------------------------
(* The sink sees the events in order.                                      *)

\* What has been sunk, what the worker holds and what is queued were emitted, and in
\* this order; no event was emitted twice.
Ordered ==
    /\ \A i, j \in DOMAIN sent : sent[i] = sent[j] => i = j
    /\ \A i \in DOMAIN sunk : sunk[i] \in Occurrences(sent)
    /\ \A i \in DOMAIN inHand : inHand[i] \in Occurrences(sent)
    /\ \A i \in DOMAIN queue : queue[i] \in Occurrences(sent)
    /\ \A i, j \in DOMAIN sunk : i < j => Before(sunk[i], sunk[j])
    /\ \A i \in DOMAIN sunk, j \in DOMAIN inHand : Before(sunk[i], inHand[j])
    /\ \A i \in DOMAIN sunk, j \in DOMAIN queue : Before(sunk[i], queue[j])
    /\ \A i \in DOMAIN inHand, j \in DOMAIN queue : Before(inHand[i], queue[j])
    /\ \A i, j \in DOMAIN queue : i < j => Before(queue[i], queue[j])

\* An event more leaves the order of the earlier ones, and comes after them.
LEMMA SubmitExtends ==
    ASSUME sent \in Seq(Events), NEW e \in Events, Submit(e)
    PROVE  /\ \A f, g : Before(f, g) => Before(f, g)'
           /\ \A f \in Occurrences(sent) : f \in Occurrences(sent)' /\ Before(f, e)'
           /\ e \in Occurrences(sent)'
           /\ (\A i, j \in DOMAIN sent : sent[i] = sent[j] => i = j)
                => (\A i, j \in DOMAIN sent : sent[i] = sent[j] => i = j)'
<1>1. /\ DOMAIN sent = 1..Len(sent) /\ DOMAIN sent' = 1..(Len(sent) + 1)
      /\ Len(sent) \in Nat
      /\ \A i \in DOMAIN sent : sent'[i] = sent[i]
      /\ sent'[Len(sent) + 1] = e
  BY DEF Submit
<1>2. \A i \in DOMAIN sent : i \in DOMAIN sent' /\ i < Len(sent) + 1
  BY <1>1
<1>3. Len(sent) + 1 \in DOMAIN sent'
  BY <1>1
<1>4. \A f, g : Before(f, g) => Before(f, g)'
  BY <1>1, <1>2 DEF Before
<1>5. \A f \in Occurrences(sent) : f \in Occurrences(sent)' /\ Before(f, e)'
  BY <1>1, <1>2, <1>3 DEF Occurrences, Before
<1>6. e \in Occurrences(sent)'
  BY <1>1, <1>3 DEF Occurrences
<1>7. \A i \in DOMAIN sent' : i \in DOMAIN sent \/ i = Len(sent) + 1
  BY <1>1
<1>8. \A i \in DOMAIN sent : sent[i] # e
  BY DEF Submit, Occurrences
<1> QED BY <1>1, <1>4, <1>5, <1>6, <1>7, <1>8

\* To sink what is in hand keeps the order; so does to lose it.
LEMMA SinkOrdered ==
    ASSUME EmitterInv, Ordered, worker = "sending", sunk' \in {sunk, sunk \o inHand},
           inHand' = <<>>, UNCHANGED <<queue, sent>>
    PROVE  Ordered'
<1>1. /\ sunk \in Seq(Events) /\ inHand \in Seq(Events) /\ Len(inHand) = 1
  BY DEF EmitterInv
<1>2. DOMAIN inHand' = {}
  OBVIOUS
<1>3. \A f, g : Before(f, g)' = Before(f, g)
  BY DEF Before
<1>4. CASE sunk' = sunk
  BY <1>2, <1>3, <1>4 DEF Ordered, Occurrences
<1>5. CASE sunk' = sunk \o inHand
  <2>1. /\ DOMAIN sunk' = 1..(Len(sunk) + 1) /\ DOMAIN sunk = 1..Len(sunk)
        /\ \A i \in DOMAIN sunk : sunk'[i] = sunk[i]
        /\ sunk'[Len(sunk) + 1] = inHand[1] /\ DOMAIN inHand = {1}
    BY <1>1, <1>5, OneMore
  <2>2. \A i \in DOMAIN sunk' : i \in DOMAIN sunk \/ i = Len(sunk) + 1
    BY <1>1, <2>1
  <2>3. \A i, j \in DOMAIN sunk' : i < j => i \in DOMAIN sunk
    BY <1>1, <2>1
  <2>4. \A i, j \in DOMAIN sunk' : i < j => Before(sunk'[i], sunk'[j])
    BY <2>1, <2>2, <2>3 DEF Ordered
  <2>5. \A i \in DOMAIN sunk' : sunk'[i] \in Occurrences(sent)
    BY <2>1, <2>2 DEF Ordered
  <2>6. \A i \in DOMAIN sunk', j \in DOMAIN queue : Before(sunk'[i], queue[j])
    BY <2>1, <2>2 DEF Ordered
  <2> QED BY <1>2, <1>3, <2>4, <2>5, <2>6 DEF Ordered, Occurrences
<1> QED BY <1>4, <1>5

LEMMA StepOrdered == EmitterInv /\ Ordered /\ [Next]_vars => Ordered'
<1> SUFFICES ASSUME EmitterInv, Ordered, [Next]_vars PROVE Ordered'
  OBVIOUS
<1>0. sent \in Seq(Events) /\ queue \in Seq(Events)
  BY DEF EmitterInv
<1>1. ASSUME NEW e \in Events, EmitQueued(e) PROVE Ordered'
  <2>1. /\ queue' = Append(queue, e) /\ Submit(e)
        /\ UNCHANGED <<sunk, inHand>>
    BY <1>1 DEF EmitQueued
  <2>2. /\ \A i \in DOMAIN queue' : i \in DOMAIN queue \/ i = Len(queue) + 1
        /\ \A i, j \in DOMAIN queue' : i < j => i \in DOMAIN queue
        /\ \A i \in DOMAIN queue : queue'[i] = queue[i]
        /\ queue'[Len(queue) + 1] = e
    BY <1>0, <2>1
  <2>3. /\ \A f, g : Before(f, g) => Before(f, g)'
        /\ \A f \in Occurrences(sent) : f \in Occurrences(sent)' /\ Before(f, e)'
        /\ e \in Occurrences(sent)'
        /\ (\A i, j \in DOMAIN sent : sent[i] = sent[j] => i = j)'
    BY <1>0, <2>1, SubmitExtends DEF Ordered
  <2>4. (\A i, j \in DOMAIN queue : i < j => Before(queue[i], queue[j]))'
    BY <2>2, <2>3 DEF Ordered
  <2>5. (\A i \in DOMAIN queue : queue[i] \in Occurrences(sent))'
    BY <2>2, <2>3 DEF Ordered
  <2>6. /\ (\A i \in DOMAIN sunk, j \in DOMAIN queue : Before(sunk[i], queue[j]))'
        /\ (\A i \in DOMAIN inHand, j \in DOMAIN queue : Before(inHand[i], queue[j]))'
    BY <2>1, <2>2, <2>3 DEF Ordered
  <2> QED BY <2>1, <2>3, <2>4, <2>5, <2>6 DEF Ordered
<1>2. ASSUME NEW e \in Events, EmitDropped(e) PROVE Ordered'
  <2>1. Submit(e) /\ UNCHANGED <<sunk, inHand, queue>>
    BY <1>2 DEF EmitDropped
  <2>2. /\ \A f, g : Before(f, g) => Before(f, g)'
        /\ \A f \in Occurrences(sent) : f \in Occurrences(sent)'
        /\ (\A i, j \in DOMAIN sent : sent[i] = sent[j] => i = j)'
    BY <1>0, <2>1, SubmitExtends DEF Ordered
  <2> QED BY <2>1, <2>2 DEF Ordered
<1>3. CASE Take
  <2>1. /\ inHand' = <<Head(queue)>> /\ queue' = Tail(queue) /\ queue # <<>>
        /\ UNCHANGED <<sunk, sent>>
    BY <1>3 DEF Take
  <2>2. /\ \A i \in DOMAIN queue' : i + 1 \in DOMAIN queue /\ queue'[i] = queue[i + 1]
        /\ \A i \in DOMAIN queue' : 1 < i + 1
        /\ \A i, j \in DOMAIN queue' : i < j => i + 1 < j + 1
        /\ 1 \in DOMAIN queue
    BY <1>0, <2>1
  <2>3. DOMAIN inHand' = {1} /\ inHand'[1] = queue[1]
    BY <1>0, <2>1
  <2>4. \A f, g : Before(f, g)' = Before(f, g)
    BY <2>1 DEF Before
  <2> QED BY <2>1, <2>2, <2>3, <2>4 DEF Ordered, Occurrences
<1>4. CASE Sink
  <2>1. /\ worker = "sending" /\ sunk' \in {sunk, sunk \o inHand}
        /\ inHand' = <<>> /\ UNCHANGED <<queue, sent>>
    BY <1>4 DEF Sink, SinkTakes, SinkFails
  <2> QED BY <2>1, SinkOrdered
<1>5. CASE Stop \/ Close \/ CloseReturns \/ UNCHANGED vars
  <2>1. UNCHANGED <<queue, inHand, sunk, sent>>
    BY <1>5 DEF Stop, Close, CloseReturns, vars
  <2> QED BY <2>1 DEF Ordered, Occurrences, Before
<1> QED BY <1>1, <1>2, <1>3, <1>4, <1>5 DEF Next, Finished

\* The sink sees the events in the order in which Emit was called, with gaps perhaps,
\* none twice and none that was not emitted.
THEOREM SinkSeesInOrder == Spec => []SunkInOrder
<1>1. Init => Ordered
  BY DEF Init, Ordered
<1>2. EmitterInv /\ Ordered => SunkInOrder
  <2> SUFFICES ASSUME EmitterInv, Ordered PROVE SunkInOrder
    OBVIOUS
  <2>1. \A i \in DOMAIN sent : ~(i < i)
    BY DEF EmitterInv
  <2>2. \A e : ~Before(e, e)
    BY <2>1 DEF Ordered, Before
  <2> QED BY <2>2 DEF Ordered, SunkInOrder, Occurrences
<1> QED BY <1>1, <1>2, StepOrdered, EmitterInvariant, PTL DEF Spec

\* Nothing reaches the sink once Close has returned.
THEOREM SilentAfterClose == Spec => QuietAfterClose
<1>1. EmitterInv /\ [Next]_vars
        => [closer = "returned" => UNCHANGED <<sunk, emitted, worker>>]_vars
  BY DEF EmitterInv, Next, EmitQueued, EmitDropped, Take, Sink, SinkTakes, SinkFails, Stop,
         Close, CloseReturns, Finished, vars
<1> QED BY <1>1, EmitterInvariant, PTL DEF Spec, QuietAfterClose
=============================================================================
