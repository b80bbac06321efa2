--------------------------- MODULE MemoryRunStore ---------------------------
(* MemoryRunStore keeps runs, their events and a projection of each run in   *)
(* three maps, each behind its own RwLock. An operation takes one lock after *)
(* the other, and not all of them in the same order.                         *)
EXTENDS Naturals, Sequences, FiniteSets

CONSTANTS
    RunClients, Runs,
    MaxEvents,  \* bound: events appended
    MaxDrops,   \* bound: operations dropped at an await
    Statuses,   \* statuses that calls and events set
    NoOne

ASSUME RunStoreAssumption == NoOne \notin RunClients \cup Runs /\ "none" \notin Statuses

Maps == {"runs", "events", "projections"}
Kept == "kept" \* an event that leaves the status alone

VARIABLES
    runs,         \* run -> its record's status, or "none"
    events,       \* run -> sequence numbers in the order of the list
    projections,  \* run -> [status, count]; status "none": there is no projection
    sequence,     \* the next sequence number
    lock,         \* map -> the client that holds its lock
    doing,        \* client -> [op, at, run, status, seq, stray]
    drops,
    begun,        \* runs that were created
    returned,     \* history: runs whose create_run returned
    doomed,       \* history: runs whose delete_run began
    strayed       \* history: runs that an append met unsettled

runStoreVars == <<runs, events, projections, sequence, lock, doing, drops, begun, returned, doomed, strayed>>

NoProjection == [status |-> "none", count |-> 0]
Free == [op |-> "none", at |-> "none", run |-> NoOne, status |-> Kept, seq |-> 0, stray |-> FALSE]

RunStoreInit ==
    /\ runs = [r \in Runs |-> "none"]
    /\ events = [r \in Runs |-> <<>>]
    /\ projections = [r \in Runs |-> NoProjection]
    /\ sequence = 0
    /\ lock = [m \in Maps |-> NoOne]
    /\ doing = [c \in RunClients |-> Free]
    /\ drops = 0
    /\ begun = {} /\ returned = {} /\ doomed = {} /\ strayed = {}

Settled == returned \ doomed

Doing(c, op, at) == doing[c].op = op /\ doing[c].at = at
Available(m) == lock[m] = NoOne
Step(c, at) == doing' = [doing EXCEPT ![c].at = at]
Done(c) == doing' = [doing EXCEPT ![c] = Free]

CreateRun(c, r) ==
    /\ doing[c] = Free /\ r \notin begun
    /\ begun' = begun \cup {r}
    /\ doing' = [doing EXCEPT ![c] = [Free EXCEPT !.op = "create", !.at = "runs", !.run = r]]
    /\ UNCHANGED <<runs, events, projections, sequence, lock, drops, returned, doomed, strayed>>

\* Mutant: create_run returns when the record is there, its projection follows.
InsertRunAndReturn(c) ==
    /\ Doing(c, "create", "runs") /\ Available("runs")
    /\ runs' = [runs EXCEPT ![doing[c].run] = "pending"]
    /\ returned' = returned \cup {doing[c].run}
    /\ Step(c, "projections")
    /\ UNCHANGED <<events, projections, sequence, lock, drops, begun, doomed, strayed>>

\* The guard of the lock is gone at the end of the statement.
InsertRun(c) ==
    /\ Doing(c, "create", "runs") /\ Available("runs")
    /\ runs' = [runs EXCEPT ![doing[c].run] = "pending"]
    /\ Step(c, "projections")
    /\ UNCHANGED <<events, projections, sequence, lock, drops, begun, returned, doomed, strayed>>

InsertProjection(c) ==
    /\ Doing(c, "create", "projections") /\ Available("projections")
    /\ projections' = [projections EXCEPT ![doing[c].run] = [status |-> "pending", count |-> 0]]
    /\ returned' = returned \cup {doing[c].run}
    /\ Done(c)
    /\ UNCHANGED <<runs, events, sequence, lock, drops, begun, doomed, strayed>>

UpdateRunStatus(c, r, status) ==
    /\ doing[c] = Free /\ r \in begun
    /\ doing' = [doing EXCEPT ![c] = [Free EXCEPT !.op = "update", !.at = "runs", !.run = r, !.status = status]]
    /\ UNCHANGED <<runs, events, projections, sequence, lock, drops, begun, returned, doomed, strayed>>

\* runs stays locked until the projection is updated too.
SetStatus(c) ==
    /\ Doing(c, "update", "runs") /\ Available("runs")
    /\ IF runs[doing[c].run] = "none"
       THEN Done(c) /\ UNCHANGED <<runs, lock>>
       ELSE /\ runs' = [runs EXCEPT ![doing[c].run] = doing[c].status]
            /\ lock' = [lock EXCEPT !["runs"] = c]
            /\ Step(c, "projections")
    /\ UNCHANGED <<events, projections, sequence, drops, begun, returned, doomed, strayed>>

ProjectStatus(c) ==
    /\ Doing(c, "update", "projections") /\ Available("projections")
    /\ projections' = [projections EXCEPT ![doing[c].run].status =
           IF @ = "none" THEN @ ELSE doing[c].status]
    /\ lock' = [lock EXCEPT !["runs"] = NoOne]
    /\ Done(c)
    /\ UNCHANGED <<runs, events, sequence, drops, begun, returned, doomed, strayed>>

\* The number is drawn before the list is locked.
AppendEvent(c, r, status) ==
    /\ doing[c] = Free /\ sequence < MaxEvents
    /\ sequence' = sequence + 1
    /\ doing' = [doing EXCEPT ![c] = [op |-> "append", at |-> "events", run |-> r, status |-> status,
                                      seq |-> sequence, stray |-> r \notin Settled]]
    /\ strayed' = IF r \in Settled THEN strayed ELSE strayed \cup {r}
    /\ UNCHANGED <<runs, events, projections, lock, drops, begun, returned, doomed>>

LockEvents(c) ==
    /\ Doing(c, "append", "events") /\ Available("events")
    /\ lock' = [lock EXCEPT !["events"] = c]
    /\ Step(c, "projections")
    /\ UNCHANGED <<runs, events, projections, sequence, drops, begun, returned, doomed, strayed>>

\* RunState::apply
Applied(state, status) ==
    [status |-> IF status = Kept THEN state.status ELSE status, count |-> state.count + 1]

\* Mutant: the run is looked up for every event.
PushLooksUp(c) ==
    /\ Doing(c, "append", "projections") /\ Available("projections")
    /\ events' = [events EXCEPT ![doing[c].run] = Append(@, doing[c].seq)]
    /\ lock' = [lock EXCEPT !["projections"] = c]
    /\ Step(c, "runs")
    /\ UNCHANGED <<runs, projections, sequence, drops, begun, returned, doomed, strayed>>

\* Without a projection the run is looked up: events and projections stay
\* locked while this waits for runs.
Push(c) ==
    /\ Doing(c, "append", "projections") /\ Available("projections")
    /\ events' = [events EXCEPT ![doing[c].run] = Append(@, doing[c].seq)]
    /\ IF projections[doing[c].run] = NoProjection
       THEN /\ lock' = [lock EXCEPT !["projections"] = c]
            /\ Step(c, "runs")
            /\ UNCHANGED projections
       ELSE /\ projections' = [projections EXCEPT ![doing[c].run] = Applied(@, doing[c].status)]
            /\ lock' = [lock EXCEPT !["events"] = NoOne]
            /\ Done(c)
    /\ UNCHANGED <<runs, sequence, drops, begun, returned, doomed, strayed>>

Project(c) ==
    /\ Doing(c, "append", "runs") /\ Available("runs")
    /\ projections' = [projections EXCEPT ![doing[c].run] =
           IF runs[doing[c].run] = "none" THEN @
           ELSE Applied([status |-> "pending", count |-> 0], doing[c].status)]
    /\ lock' = [lock EXCEPT !["events"] = NoOne, !["projections"] = NoOne]
    /\ Done(c)
    /\ UNCHANGED <<runs, events, sequence, drops, begun, returned, doomed, strayed>>

\* A run that is being deleted is a stray to the appends under way.
DeleteRun(c, r) ==
    /\ doing[c] = Free /\ r \in begun
    /\ doomed' = doomed \cup {r}
    /\ doing' = [d \in RunClients |->
           IF d = c THEN [Free EXCEPT !.op = "delete", !.at = "runs", !.run = r]
           ELSE [doing[d] EXCEPT !.stray = @ \/ (doing[d].op = "append" /\ doing[d].run = r)]]
    /\ UNCHANGED <<runs, events, projections, sequence, lock, drops, begun, returned, strayed>>

RemoveRun(c) ==
    /\ Doing(c, "delete", "runs") /\ Available("runs")
    /\ runs' = [runs EXCEPT ![doing[c].run] = "none"]
    /\ Step(c, "events")
    /\ UNCHANGED <<events, projections, sequence, lock, drops, begun, returned, doomed, strayed>>

RemoveEvents(c) ==
    /\ Doing(c, "delete", "events") /\ Available("events")
    /\ events' = [events EXCEPT ![doing[c].run] = <<>>]
    /\ Step(c, "projections")
    /\ UNCHANGED <<runs, projections, sequence, lock, drops, begun, returned, doomed, strayed>>

RemoveProjection(c) ==
    /\ Doing(c, "delete", "projections") /\ Available("projections")
    /\ projections' = [projections EXCEPT ![doing[c].run] = NoProjection]
    /\ Done(c)
    /\ UNCHANGED <<runs, events, sequence, lock, drops, begun, returned, doomed, strayed>>

\* A run's future is dropped at an await: its guards are given back.
DropOperation(c) ==
    /\ doing[c] # Free /\ drops < MaxDrops
    /\ drops' = drops + 1
    /\ lock' = [m \in Maps |-> IF lock[m] = c THEN NoOne ELSE lock[m]]
    /\ Done(c)
    /\ UNCHANGED <<runs, events, projections, sequence, begun, returned, doomed, strayed>>

RunStoreNext == \E c \in RunClients :
    \/ \E r \in Runs : \/ CreateRun(c, r) \/ DeleteRun(c, r)
                       \/ \E status \in Statuses : UpdateRunStatus(c, r, status)
                       \/ \E status \in Statuses \cup {Kept} : AppendEvent(c, r, status)
    \/ InsertRun(c) \/ InsertProjection(c) \/ SetStatus(c) \/ ProjectStatus(c)
    \/ LockEvents(c) \/ Push(c) \/ Project(c)
    \/ RemoveRun(c) \/ RemoveEvents(c) \/ RemoveProjection(c) \/ DropOperation(c)
-----------------------------------------------------------------------------
Holds(c, m) == lock[m] = c

\* update_run_status holds runs and waits for projections, append_event holds
\* projections and waits for runs: the two wait for each other for good only
\* when the event is of a run whose creation has not returned, or that is
\* being deleted.
OnlyStraysDeadlock ==
    \A c, d \in RunClients :
        (Holds(c, "runs") /\ Holds(d, "projections") /\ Doing(d, "append", "runs")) => doing[d].stray

\* The projection of a run counts the events its list holds, from the return
\* of create_run to the call of delete_run, unless an event came before.
ProjectionCountsEvents ==
    \A r \in Settled \ strayed : projections[r].count = Len(events[r])
=============================================================================
