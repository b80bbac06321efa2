--------------------------- MODULE RuntimeEvents ---------------------------
(* The events a runtime emits: AgentRuntime::emit sends each to one         *)
(* broadcast channel and, with a queue configured, spawns a task that       *)
(* publishes it to an external queue. A receiver is a position in           *)
(* `emitted`; one that is more than Capacity events behind has lagged.      *)
EXTENDS Integers, Sequences, FiniteSets, Functions

CONSTANTS
    Runs,      \* runs of one runtime
    Capacity,  \* of a broadcast channel and of a subscriber's channel (256)
    MaxEvents, \* bound: events emitted
    MaxFaults  \* bound: failed calls, aborted bridges and dropped subscriptions

ASSUME EventsAssumption ==
    Capacity \in Nat \ {0} /\ MaxEvents \in Nat /\ MaxFaults \in Nat

VARIABLES
    wiring,     \* the setting: [store, adapter, queue, readers, listeners, resumed]
    emitted,    \* every event sent to the broadcast channel
    publishing, \* spawned tasks of the queue publisher, by event number
    queue,      \* numbers of the events the external queue holds
    faults

eventVars == <<wiring, emitted, publishing, queue, faults>>

\* Four of the kinds of AgentEvent: those some observer treats differently.
Kinds == {"RunStarted", "CacheMetrics", "TextDelta", "RunCompleted"}

Sent(run) == {i \in DOMAIN emitted : emitted[i].run = run}

\* A run emits RunStarted first, or never if it was resumed from a snapshot;
\* its last event is terminal.
MayEmit(run, kind) ==
    /\ Len(emitted) < MaxEvents
    /\ kind = "RunStarted" <=> (Sent(run) = {} /\ run \notin wiring.resumed)
    /\ \A i \in Sent(run) : emitted[i].kind # "RunCompleted"

Emit(run, kind) ==
    /\ MayEmit(run, kind)
    /\ emitted' = Append(emitted, [run |-> run, kind |-> kind, n |-> Len(emitted) + 1])
    /\ publishing' = IF wiring.queue THEN publishing \cup {Len(emitted) + 1} ELSE publishing
    /\ UNCHANGED <<wiring, queue, faults>>

Fault == faults < MaxFaults /\ faults' = faults + 1

\* The publishing task of event n: the tasks of two events run in any order.
QueuePublish(n) ==
    /\ n \in publishing
    /\ publishing' = publishing \ {n}
    /\ \/ queue' = Append(queue, n) /\ UNCHANGED faults
       \/ Fault /\ UNCHANGED queue
    /\ UNCHANGED <<wiring, emitted>>

\* A broadcast channel keeps its last Capacity items: a receiver further
\* behind gets Lagged and is moved to the oldest item that is left.
Lagging(log, cursor) == Len(log) - cursor > Capacity

\* Mutant: the receiver stays where it is.
CatchUpNever(log, cursor) == cursor

CatchUp(log, cursor) == Len(log) - Capacity

EventsInit ==
    /\ emitted = <<>>
    /\ publishing = {}
    /\ queue = <<>>
    /\ faults = 0
=============================================================================
