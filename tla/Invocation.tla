----------------------------- MODULE Invocation -----------------------------
(* RuntimeInvocation: emit starts a run, on() spawns a listener task that   *)
(* receives the runtime's events and spawns a handler task for each that    *)
(* its filter matches, with the session the listeners know of the run.      *)
EXTENDS RuntimeEvents

CONSTANT AnyKind   \* the filter that matches every event
VARIABLES
    begun,      \* runs emit() has handed to the runtime
    listener,   \* per listener: filter, place, position, flag of its Control
    sessionMap, \* runs whose session the listeners of this invocation know
    handlers    \* handler tasks spawned: [by, n, known]

invocationVars == <<begun, listener, sessionMap, handlers>>

InvocationInit ==
    /\ begun = {}
    /\ listener \in [wiring.listeners -> {[filter |-> k, pc |-> "off", cursor |-> 0, from |-> 0,
                                    held |-> 0, known |-> FALSE, cancelled |-> FALSE,
                                    lagged |-> FALSE, late |-> 0] :
                                   k \in {AnyKind, "RunStarted", "TextDelta"}}]
    /\ sessionMap = {}
    /\ handlers = {}

\* EventKind::matches_agent
Matches(filter, e) == filter = AnyKind \/ filter = e.kind

\* RuntimeInvocation::emit: unless the closure cancels its Control, the
\* request becomes a run.
EmitRequest(run) ==
    /\ run \notin begun
    /\ begun' = begun \cup {run}
    /\ UNCHANGED <<eventVars, listener, sessionMap, handlers>>

InvokedRunEmits(run, kind) ==
    /\ run \in begun
    /\ Emit(run, kind)
    /\ UNCHANGED invocationVars

\* on(): the receiver starts at the end of the broadcast.
On(l) ==
    /\ listener[l].pc = "off"
    /\ listener' = [listener EXCEPT ![l].pc = "recv", ![l].cursor = Len(emitted),
                                    ![l].from = Len(emitted)]
    /\ UNCHANGED <<eventVars, begun, sessionMap, handlers>>

\* Mutant: the loop does not look at the flag.
StopsNever(s) == FALSE

Stops(s) == s.cancelled

\* recv, the check of the flag and the filter: no lock, no await between.
Receive(l) ==
    LET s == listener[l] IN
    /\ s.pc = "recv"
    /\ s.cursor < Len(emitted)
    /\ listener' = [listener EXCEPT ![l] =
         IF Lagging(emitted, s.cursor)
         THEN [s EXCEPT !.cursor = CatchUp(emitted, s.cursor), !.lagged = TRUE]
         ELSE IF Stops(s) THEN [s EXCEPT !.pc = "stopped"]
         ELSE [s EXCEPT !.cursor = @ + 1,
                        !.pc = IF Matches(s.filter, emitted[s.cursor + 1])
                               THEN "session" ELSE "recv",
                        !.held = s.cursor + 1]]
    /\ UNCHANGED <<eventVars, begun, sessionMap, handlers>>

\* Mutant: the map is read before the session is inserted.
LookUpBeforeInsert(l) ==
    LET e == emitted[listener[l].held] IN
    /\ listener[l].pc = "session"
    /\ sessionMap' = IF e.kind = "RunStarted" THEN sessionMap \cup {e.run} ELSE sessionMap
    /\ listener' = [listener EXCEPT ![l].pc = "spawn", ![l].known = e.run \in sessionMap]
    /\ UNCHANGED <<eventVars, begun, handlers>>

\* The session of the run, under the lock of the map the listeners share.
LookUpSession(l) ==
    LET e == emitted[listener[l].held] IN
    /\ listener[l].pc = "session"
    /\ sessionMap' = IF e.kind = "RunStarted" THEN sessionMap \cup {e.run} ELSE sessionMap
    /\ listener' = [listener EXCEPT ![l].pc = "spawn", ![l].known = e.run \in sessionMap']
    /\ UNCHANGED <<eventVars, begun, handlers>>

\* A fresh Control has no concurrency limit when spawn_listener reads it, so
\* there is no permit to wait for.
SpawnHandler(l) ==
    LET s == listener[l] IN
    /\ s.pc = "spawn"
    /\ handlers' = handlers \cup {[by |-> l, n |-> s.held, known |-> s.known]}
    /\ listener' = [listener EXCEPT ![l].pc = "recv",
                                    ![l].late = IF s.cancelled THEN @ + 1 ELSE @]
    /\ UNCHANGED <<eventVars, begun, sessionMap>>

\* A handler calls Control::cancel: the flag of its own listener.
CancelByHandler(l) ==
    /\ \E h \in handlers : h.by = l
    /\ ~listener[l].cancelled
    /\ listener' = [listener EXCEPT ![l].cancelled = TRUE]
    /\ UNCHANGED <<eventVars, begun, sessionMap, handlers>>

\* InvocationHandle::abort or drop: ends the task at its await.
AbortListener(l) ==
    /\ listener[l].pc = "recv"
    /\ listener' = [listener EXCEPT ![l].pc = "stopped"]
    /\ UNCHANGED <<eventVars, begun, sessionMap, handlers>>

InvocationNext ==
    \/ \E run \in Runs : EmitRequest(run)
    \/ \E run \in Runs, kind \in Kinds : InvokedRunEmits(run, kind)
    \/ \E l \in wiring.listeners : \/ On(l) \/ Receive(l) \/ LookUpSession(l) \/ SpawnHandler(l)
                            \/ CancelByHandler(l) \/ AbortListener(l)
    \/ \E n \in publishing : QueuePublish(n) /\ UNCHANGED invocationVars

-----------------------------------------------------------------------------
(* Properties.                                                             *)

\* A listener that was there when a run started, asked for RunStarted and
\* never lagged hands every handler of that run its session; the order of
\* filter, map and spawn, and the map shared by all listeners, allow it.
HandlersKnowSession ==
    \A h \in handlers, i \in DOMAIN emitted :
        LET s == listener[h.by] IN
        /\ i > s.from /\ ~s.lagged
        /\ emitted[i].kind = "RunStarted" /\ emitted[i].run = emitted[h.n].run
        /\ Matches(s.filter, emitted[i])
        => h.known

\* "The listener loop checks [the flag] before every event dispatch"
\* (invocation.rs:67): once cancelled, at most the event in hand is dispatched.
CancelStopsDispatch == \A l \in wiring.listeners : listener[l].late <= 1
=============================================================================
