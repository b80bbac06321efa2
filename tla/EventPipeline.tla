--------------------------- MODULE EventPipeline ---------------------------
(* From the broadcast channel to a subscriber: RuntimeEventBridge appends   *)
(* each event to a RuntimeEventStore and publishes it to the room of its    *)
(* run and of its session; RuntimeSubscriptionHub gives a reader a page of  *)
(* the store and the live stream of the room. The store is the one in       *)
(* memory, Redis or Postgres, the adapter the one in memory, Redis or NATS. *)
EXTENDS RuntimeEvents

CONSTANTS
    Readers,     \* clients of subscribe_run
    Bridge,      \* the forwarding task
    None,
    Page         \* `limit` of subscribe_run

ASSUME PipelineAssumption == Page \in Nat \ {0} /\ Bridge \notin Runs /\ None \notin Nat

VARIABLES
    log,         \* per run: the entries of the store, in the order stored
    counter,     \* per run: the last sequence number drawn
    sessions,    \* runs whose session the store has cached
    work,        \* per appending task: its place in append and publish
    cursor,      \* the bridge's position in the broadcast
    room,        \* per run: sequence numbers published to the run's room
    sessionRoom, \* per run: those published to its session's room
    consumer,    \* per run: position of the NATS consumer of the room
    unpublished, \* per run, for the properties: stored, will not be published
    reader       \* per reader: its subscription

pipelineVars == <<log, counter, sessions, work, cursor, room,
                  sessionRoom, consumer, unpublished, reader>>

Appenders == Runs \cup {Bridge}
Idle == [at |-> "idle"]
Lagged == 0   \* the item a lagging subscriber receives; numbers begin at 1

Stored(run) == {log[run][i].seq : i \in DOMAIN log[run]}
LastSeq(run) == CHOOSE m \in Stored(run) \cup {0} : \A k \in Stored(run) : k <= m

PipelineInit ==
    /\ log = [r \in Runs |-> <<>>]
    /\ counter = [r \in Runs |-> 0]
    /\ sessions = {}
    /\ work = [p \in Appenders |-> Idle]
    /\ cursor = 0
    /\ room = [r \in Runs |-> <<>>]
    /\ sessionRoom = [r \in Runs |-> {}]
    /\ consumer = [r \in Runs |-> None]
    /\ unpublished = [r \in Runs |-> {}]
    /\ reader \in [Readers -> {
                     [run |-> r, pc |-> "off", cursor |-> 0, inbox |-> <<>>, after |-> 0,
                      seen |-> {}, full |-> FALSE, lagged |-> FALSE, joined |-> FALSE] :
                     r \in Runs}]

-----------------------------------------------------------------------------
(* Emission and append.                                                    *)

StartAppend(p, e) ==
    work' = [work EXCEPT ![p] = [at |-> "session", ev |-> e, known |-> FALSE, seq |-> 0]]

\* emit, and for cache metrics emit_cache_metrics: the run itself also
\* appends the event to the store, and publishes it nowhere.
RunEmits(run, kind) ==
    /\ work[run] = Idle
    /\ Emit(run, kind)
    /\ IF kind = "CacheMetrics"
       THEN StartAppend(run, [run |-> run, kind |-> kind, n |-> Len(emitted) + 1])
       ELSE UNCHANGED work
    /\ UNCHANGED <<log, counter, sessions, cursor, room, sessionRoom,
                   consumer, unpublished, reader>>

\* forward_events receives: an event to append, or Lagged, which skips.
BridgeReceives ==
    /\ work[Bridge] = Idle
    /\ cursor < Len(emitted)
    /\ IF Lagging(emitted, cursor)
       THEN cursor' = CatchUp(emitted, cursor) /\ UNCHANGED work
       ELSE cursor' = cursor + 1 /\ StartAppend(Bridge, emitted[cursor + 1])
    /\ UNCHANGED <<eventVars, log, counter, sessions, room, sessionRoom,
                   consumer, unpublished, reader>>

Entry(p, known, seq) == [n |-> work[p].ev.n, kind |-> work[p].ev.kind, by |-> p,
                         known |-> known, seq |-> seq]

\* An entry is stored. When the reply arrives the bridge goes on to publish; a
\* run does not, and nobody publishes what was stored without a reply.
Commit(p, entry, replied) ==
    LET run == work[p].ev.run IN
    /\ log' = [log EXCEPT ![run] = Append(@, entry)]
    /\ work' = [work EXCEPT ![p] = IF p = Bridge /\ replied
                                   THEN [@ EXCEPT !.at = "publish", !.known = entry.known,
                                                  !.seq = entry.seq]
                                   ELSE Idle]
    /\ unpublished' = IF p = Bridge /\ replied THEN unpublished
                      ELSE [unpublished EXCEPT ![run] = @ \cup {entry.seq}]

AppendMemory(p) ==
    LET e == work[p].ev
        known == e.kind = "RunStarted" \/ e.run \in sessions
    IN /\ wiring.store = "memory"
       /\ work[p].at = "session"
       /\ sessions' = IF known THEN sessions \cup {e.run} ELSE sessions
       /\ counter' = [counter EXCEPT ![e.run] = @ + 1]
       /\ Commit(p, Entry(p, known, counter[e.run] + 1), TRUE)
       /\ UNCHANGED <<eventVars, cursor, room, sessionRoom, consumer, reader>>

\* Redis and Postgres cache the session of RunStarted (SET, upsert) in a
\* round trip of its own, and look it up for other events (GET, SELECT).
CacheSession(p) ==
    /\ wiring.store # "memory"
    /\ work[p].at = "session"
    /\ work[p].ev.kind = "RunStarted"
    /\ sessions' = sessions \cup {work[p].ev.run}
    /\ work' = [work EXCEPT ![p].at = "seq", ![p].known = TRUE]
    /\ UNCHANGED <<eventVars, log, counter, cursor, room, sessionRoom,
                   consumer, unpublished, reader>>

ReadSession(p) ==
    /\ wiring.store # "memory"
    /\ work[p].at = "session"
    /\ work[p].ev.kind # "RunStarted"
    /\ work' = [work EXCEPT ![p].at = "seq", ![p].known = work[p].ev.run \in sessions]
    /\ UNCHANGED <<eventVars, log, counter, sessions, cursor, room, sessionRoom,
                   consumer, unpublished, reader>>

IncrSeq(p) ==
    /\ wiring.store = "redis"
    /\ work[p].at = "seq"
    /\ counter' = [counter EXCEPT ![work[p].ev.run] = @ + 1]
    /\ work' = [work EXCEPT ![p].at = "insert", ![p].seq = counter[work[p].ev.run] + 1]
    /\ UNCHANGED <<eventVars, log, sessions, cursor, room, sessionRoom,
                   consumer, unpublished, reader>>

XAdd(p) ==
    LET w == work[p] IN
    /\ wiring.store = "redis"
    /\ w.at = "insert"
    /\ Commit(p, Entry(p, w.known, w.seq), TRUE)
    /\ UNCHANGED <<eventVars, counter, sessions, cursor, room, sessionRoom, consumer, reader>>

\* The subquery of the INSERT reads the numbers committed so far.
SubquerySeq(p) ==
    /\ wiring.store = "postgres"
    /\ work[p].at = "seq"
    /\ work' = [work EXCEPT ![p].at = "insert", ![p].seq = LastSeq(work[p].ev.run) + 1]
    /\ UNCHANGED <<eventVars, log, counter, sessions, cursor, room, sessionRoom,
                   consumer, unpublished, reader>>

\* The bridge publishes nothing and receives the next event; a run goes on.
AppendFailed(p) == work' = [work EXCEPT ![p] = Idle]

\* Mutant: the table has no primary key.
InsertRowWithoutKey(p) ==
    /\ wiring.store = "postgres"
    /\ work[p].at = "insert"
    /\ Commit(p, Entry(p, work[p].known, work[p].seq), TRUE)
    /\ UNCHANGED <<eventVars, counter, sessions, cursor, room, sessionRoom, consumer, reader>>

\* The primary key (run_id, seq) rejects a number committed meanwhile.
InsertRow(p) ==
    LET w == work[p] IN
    /\ wiring.store = "postgres"
    /\ w.at = "insert"
    /\ IF w.seq \in Stored(w.ev.run)
       THEN AppendFailed(p) /\ UNCHANGED <<log, unpublished>>
       ELSE Commit(p, Entry(p, w.known, w.seq), TRUE)
    /\ UNCHANGED <<eventVars, counter, sessions, cursor, room, sessionRoom, consumer, reader>>

\* The request is lost and the store does nothing.
RoundTripFails(p) ==
    /\ wiring.store # "memory"
    /\ work[p].at \in {"session", "seq", "insert"}
    /\ Fault
    /\ AppendFailed(p)
    /\ UNCHANGED <<wiring, emitted, publishing, queue, log, counter, sessions, cursor,
                   room, sessionRoom, consumer, unpublished, reader>>

\* The reply is lost: the store has done what it was asked, and the append
\* has failed all the same.
ReplyLost(p) ==
    LET w == work[p]
        run == w.ev.run
    IN /\ wiring.store # "memory"
       /\ Fault
       /\ \/ /\ w.at = "session" /\ w.ev.kind = "RunStarted"
             /\ sessions' = sessions \cup {run} /\ AppendFailed(p)
             /\ UNCHANGED <<log, counter, unpublished>>
          \/ /\ w.at = "seq" /\ wiring.store = "redis"
             /\ counter' = [counter EXCEPT ![run] = @ + 1] /\ AppendFailed(p)
             /\ UNCHANGED <<log, sessions, unpublished>>
          \/ /\ w.at = "insert"
             /\ wiring.store = "postgres" => w.seq \notin Stored(run)
             /\ Commit(p, Entry(p, w.known, w.seq), FALSE)
             /\ UNCHANGED <<counter, sessions>>
       /\ UNCHANGED <<wiring, emitted, publishing, queue, cursor, room, sessionRoom,
                      consumer, reader>>

-----------------------------------------------------------------------------
(* Publication.                                                            *)

\* A room in memory takes any event; PUBLISH and JetStream may fail. One that
\* reached the room and reports an error is as good as one that succeeds.
Send(run, seq) == room' = [room EXCEPT ![run] = Append(@, seq)]
PublishFails == wiring.adapter # "memory" /\ Fault

PublishToRun ==
    LET w == work[Bridge]
        run == w.ev.run
    IN /\ w.at = "publish"
       /\ \/ /\ Send(run, w.seq)
             /\ UNCHANGED <<faults, unpublished>>
          \/ /\ PublishFails
             /\ unpublished' = [unpublished EXCEPT ![run] = @ \cup {w.seq}]
             /\ UNCHANGED room
       /\ work' = [work EXCEPT ![Bridge] =
                      IF w.known THEN [@ EXCEPT !.at = "publishSession"] ELSE Idle]
       /\ UNCHANGED <<wiring, emitted, publishing, queue, log, counter, sessions, cursor,
                      sessionRoom, consumer, reader>>

PublishToSession ==
    LET w == work[Bridge] IN
    /\ w.at = "publishSession"
    /\ \/ /\ sessionRoom' = [sessionRoom EXCEPT ![w.ev.run] = @ \cup {w.seq}]
          /\ UNCHANGED faults
       \/ PublishFails /\ UNCHANGED sessionRoom
    /\ work' = [work EXCEPT ![Bridge] = Idle]
    /\ UNCHANGED <<wiring, emitted, publishing, queue, log, counter, sessions, cursor,
                   room, consumer, unpublished, reader>>

\* RuntimeEventBridgeHandle::abort or drop: the task ends at an await.
Abort ==
    LET w == work[Bridge] IN
    /\ w.at # "off"
    /\ Fault
    /\ work' = [work EXCEPT ![Bridge] = [at |-> "off"]]
    /\ unpublished' = IF w.at = "publish"
                      THEN [unpublished EXCEPT ![w.ev.run] = @ \cup {w.seq}]
                      ELSE unpublished
    /\ UNCHANGED <<wiring, emitted, publishing, queue, log, counter, sessions, cursor, room, sessionRoom,
                   consumer, reader>>

Spawn ==
    /\ work[Bridge].at = "off"
    /\ work' = [work EXCEPT ![Bridge] = Idle]
    /\ cursor' = Len(emitted)
    /\ UNCHANGED <<eventVars, log, counter, sessions, room, sessionRoom, consumer,
                   unpublished, reader>>

-----------------------------------------------------------------------------
(* Subscriptions. A reader drains the replay, then the live stream, drops  *)
(* what it has seen and asks again for what follows its complete prefix.   *)

Complete(seen) == CHOOSE k \in {0} \cup seen : 1..k \subseteq seen /\ k + 1 \notin seen

\* A page is a set of places in the log: the first Page of them, in the
\* order the entries were stored in or in that of their numbers.
After(run, seq) == {i \in DOMAIN log[run] : log[run][i].seq > seq}
FirstStored(places) == {i \in places : Cardinality({j \in places : j < i}) < Page}
FirstNumbered(run, places) ==
    {i \in places : Cardinality({j \in places : log[run][j].seq < log[run][i].seq}) < Page}

ListMemory(run, after) == FirstStored(After(run, after))
ListPostgres(run, after) == FirstNumbered(run, After(run, after))

\* XRANGE starts at the entry id `after`, a millisecond long ago, so that
\* nothing is left out before the limit; the filter comes behind it.
ListRedis(run, after) == FirstStored(DOMAIN log[run]) \cap After(run, after)

ListAfter(run, after) ==
    CASE wiring.store = "memory"   -> ListMemory(run, after)
      [] wiring.store = "postgres" -> ListPostgres(run, after)
      [] wiring.store = "redis"    -> ListRedis(run, after)

\* Whether the page was cut off at the limit.
CutOff(run, after) ==
    Cardinality(IF wiring.store = "redis" THEN DOMAIN log[run] ELSE After(run, after)) > Page

\* get_or_create_consumer: one consumer per room, its name is the room's.
\* Before the first one there is no interest, and nothing is retained.
JoinConsumer(run) ==
    IF consumer[run] = None THEN [consumer EXCEPT ![run] = Len(room[run])] ELSE consumer

\* The live subscription is opened first.
Subscribe(u) ==
    LET run == reader[u].run IN
    /\ reader[u].pc = "off"
    /\ reader' = [reader EXCEPT
         ![u].pc = "opened", ![u].cursor = Len(room[run]), ![u].inbox = <<>>,
         ![u].after = Complete(reader[u].seen), ![u].lagged = FALSE, ![u].full = FALSE,
         ![u].joined = TRUE]
    /\ consumer' = IF wiring.adapter = "nats" THEN JoinConsumer(run) ELSE consumer
    /\ UNCHANGED <<eventVars, log, counter, sessions, work, cursor, room,
                   sessionRoom, unpublished>>

Replay(u) ==
    LET run == reader[u].run
        page == ListAfter(run, reader[u].after)
    IN /\ reader[u].pc = "opened"
       /\ \/ /\ reader' = [reader EXCEPT
                  ![u].pc = "live", ![u].full = CutOff(run, reader[u].after),
                  ![u].seen = @ \cup {log[run][i].seq : i \in page}]
             /\ UNCHANGED faults
          \/ /\ wiring.store # "memory"
             /\ Fault
             /\ reader' = [reader EXCEPT ![u].pc = "off", ![u].inbox = <<>>]
       /\ UNCHANGED <<wiring, emitted, publishing, queue, log, counter, sessions, work,
                      cursor, room, sessionRoom, consumer, unpublished>>

\* The forwarder of a subscription takes the next item of the room into the
\* reader's channel.
Take(u, item, at) ==
    /\ reader[u].pc # "off"
    /\ Len(reader[u].inbox) < Capacity
    /\ reader' = [reader EXCEPT ![u].inbox = Append(@, item), ![u].cursor = at]
    /\ UNCHANGED <<eventVars, log, counter, sessions, work, cursor, room,
                   sessionRoom, unpublished>>

\* Mutant: a lagging subscriber goes on with the oldest event, silently.
ForwardMemorySilently(u) ==
    LET entries == room[reader[u].run]
        at == IF Lagging(entries, reader[u].cursor) THEN CatchUp(entries, 0)
              ELSE reader[u].cursor
    IN /\ wiring.adapter = "memory"
       /\ at < Len(entries)
       /\ Take(u, entries[at + 1], at + 1)
       /\ UNCHANGED consumer

ForwardMemory(u) ==
    LET entries == room[reader[u].run]
        at == reader[u].cursor
    IN /\ wiring.adapter = "memory"
       /\ at < Len(entries)
       /\ IF Lagging(entries, at) THEN Take(u, Lagged, CatchUp(entries, at))
          ELSE Take(u, entries[at + 1], at + 1)
       /\ UNCHANGED consumer

ForwardRedis(u) ==
    LET entries == room[reader[u].run]
        at == reader[u].cursor
    IN /\ wiring.adapter = "redis"
       /\ at < Len(entries)
       /\ Take(u, entries[at + 1], at + 1)
       /\ UNCHANGED consumer

\* A message goes to one of the forwarders that pull from the consumer.
ForwardNats(u) ==
    LET run == reader[u].run
        at == consumer[run]
    IN /\ wiring.adapter = "nats"
       /\ at # None
       /\ at < Len(room[run])
       /\ Take(u, room[run][at + 1], at + 1)
       /\ consumer' = [consumer EXCEPT ![run] = at + 1]

Forward(u) == ForwardMemory(u) \/ ForwardRedis(u) \/ ForwardNats(u)

Read(u) ==
    LET item == Head(reader[u].inbox) IN
    /\ reader[u].pc = "live"
    /\ reader[u].inbox # <<>>
    /\ reader' = [reader EXCEPT
         ![u].inbox = Tail(@),
         ![u].lagged = @ \/ item = Lagged,
         ![u].seen = IF item = Lagged THEN @ ELSE @ \cup {item}]
    /\ UNCHANGED <<eventVars, log, counter, sessions, work, cursor, room,
                   sessionRoom, consumer, unpublished>>

\* The reader drops the stream, or it ends; dropping aborts the forwarder.
Close(u) ==
    /\ reader[u].pc # "off"
    /\ Fault
    /\ reader' = [reader EXCEPT ![u].pc = "off", ![u].inbox = <<>>]
    /\ UNCHANGED <<wiring, emitted, publishing, queue, log, counter, sessions, work, cursor, room,
                   sessionRoom, consumer, unpublished>>

PipelineNext ==
    \/ \E run \in Runs, kind \in Kinds : RunEmits(run, kind)
    \/ BridgeReceives
    \/ \E p \in Appenders :
           \/ AppendMemory(p) \/ CacheSession(p) \/ ReadSession(p) \/ IncrSeq(p)
           \/ XAdd(p) \/ SubquerySeq(p) \/ InsertRow(p)
           \/ RoundTripFails(p) \/ ReplyLost(p)
    \/ PublishToRun \/ PublishToSession
    \/ Abort \/ Spawn
    \/ \E u \in wiring.readers : \/ Subscribe(u) \/ Replay(u) \/ Forward(u) \/ Read(u)
                                \/ Close(u)

\* Stores, adapters and clients answer; an abort, a new subscription and a
\* run's next event need never come.
PipelineFairness ==
    /\ WF_pipelineVars(PublishToRun \/ PublishToSession)
    /\ \A u \in Readers : WF_pipelineVars(Forward(u)) /\ WF_pipelineVars(Read(u))

-----------------------------------------------------------------------------
(* Properties.                                                             *)

\* "Append failure never produces a live event with an incomplete replay
\* source" (subscription.rs:125): what a room carries is in the store. And
\* whatever appends at the same time, the numbers of a run's entries are
\* distinct, those of the bridge are in the order of emission and no event
\* is bridged twice, also across a bridge that was aborted and replaced.
BridgedInOrder ==
    \A run \in Runs :
        /\ sessionRoom[run] \cup Range(room[run]) \subseteq Stored(run)
        /\ \A i, j \in DOMAIN log[run] :
            LET d == log[run][i]  e == log[run][j] IN
            i # j => /\ d.seq # e.seq
                     /\ d.by = Bridge /\ e.by = Bridge => (d.seq < e.seq <=> d.n < e.n)

\* Some other reader of the run has had a share of its NATS consumer.
Shared(u) ==
    /\ wiring.adapter = "nats"
    /\ \E v \in wiring.readers \ {u} :
           reader[v].run = reader[u].run /\ reader[v].joined

OnTheWay(u, k) ==
    LET r == reader[u]
        at == IF wiring.adapter = "nats" THEN consumer[r.run] ELSE r.cursor
    IN \/ k \in Range(r.inbox)
       \/ \E i \in DOMAIN room[r.run] : i > at /\ room[r.run][i] = k
       \/ work[Bridge].at = "publish" /\ work[Bridge].ev.run = r.run /\ work[Bridge].seq = k

Warned(u) == reader[u].lagged \/ Lagged \in Range(reader[u].inbox)

\* A connected reader has every stored event, or it is on its way, unless
\* its page was cut off, it was told that it lagged, or nobody publishes
\* the event: replay and live stream leave no gap between them.
NothingLost ==
    \A u \in wiring.readers :
        reader[u].pc = "live" /\ ~reader[u].full /\ ~Shared(u) =>
            \A k \in Stored(reader[u].run) \ unpublished[reader[u].run] :
                k \in reader[u].seen \/ OnTheWay(u, k) \/ Warned(u)

\* Under fairness of a reader, its forwarder and the publication, a reader
\* that stays connected catches up with all that is stored, again and again.
Delivered ==
    \A u \in Readers :
        []<>(reader[u].pc = "live" => \A k \in Stored(reader[u].run) : ~OnTheWay(u, k))

\* What list_after promises ("replays events for run_id with seq >
\* after_seq", event_store.rs:83): a page is empty only at the end.
PagesAdvance ==
    \A run \in Runs : \A after \in 0..Len(log[run]) :
        After(run, after) # {} => ListAfter(run, after) # {}
=============================================================================
