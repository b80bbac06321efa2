---------------------------- MODULE SessionStores ----------------------------
(* The session stores: maps in memory, PostgreSQL, MySQL and SQLite in       *)
(* transactions, Redis and MongoDB in several calls. Clients append          *)
(* messages, set their usage, delete the session and record executions, and  *)
(* every await of one is a place where another may act.                      *)
EXTENDS Integers, Sequences, FiniteSets, SequencesExt

CONSTANTS
    Clients, Sessions, Messages,
    Usages,     \* values of a message's token usage; 0 is none
    MaxFaults,  \* bound: calls of a database that fail
    None

ASSUME StoresAssumption == None \notin Sessions \cup Messages

Backends == {"memory", "sql", "redis", "mongodb"}

VARIABLES
    backend,
    created,  \* sessions ever created (their ids are fresh)
    session,  \* session -> "absent", "whole", or "stub": a hash without an id
    made,     \* messages in the order of their created_at
    home,     \* message -> its session
    stored,   \* session -> entries [id, usage] in the order of insertion
    index,    \* messages with an entry in the reverse index
    records,  \* [kind, session, of]: executions and embeddings
    client,   \* client -> the operation it is in: [op, at, m, s, u, seen]
    faults,
    acked,    \* history: messages whose append returned Ok
    deleted,  \* history: sessions whose deletion has begun
    tangled   \* history: messages whose usage two Redis updates set at a
              \* time, or one that was cut off

storeVars == <<backend, created, session, made, home, stored, index, records, client,
               faults, acked, deleted, tangled>>

Idle == [op |-> "idle", at |-> "idle", m |-> None, s |-> None, u |-> 0, seen |-> None]

StoresInit ==
    /\ backend \in Backends
    /\ created = {}
    /\ session = [s \in Sessions |-> "absent"]
    /\ made = <<>>
    /\ home = [m \in Messages |-> None]
    /\ stored = [s \in Sessions |-> <<>>]
    /\ index = {} /\ records = {}
    /\ client = [c \in Clients |-> Idle]
    /\ faults = 0
    /\ acked = {} /\ deleted = {} /\ tangled = {}

Ids(s) == {stored[s][i].id : i \in DOMAIN stored[s]}
At(c, op, step) == client[c].op = op /\ client[c].at = step
Become(c, next) == client' = [client EXCEPT ![c] = next]
GoTo(c, step) == client' = [client EXCEPT ![c].at = step]
Return(c) == Become(c, Idle)

\* When the message of an entry was made.
Created(entry) == CHOOSE n \in DOMAIN made : made[n] = entry.id

\* The entries sorted before the i-th: the older ones, and those of the same
\* message that were inserted before it.
Before(s, i) ==
    {j \in DOMAIN stored[s] : \/ Created(stored[s][j]) < Created(stored[s][i])
                              \/ Created(stored[s][j]) = Created(stored[s][i]) /\ j < i}

\* In memory the list is in the order of the appends, elsewhere it is sorted
\* by created_at (Redis: the score).
ListMessages(s) ==
    IF backend = "memory" THEN stored[s]
    ELSE [n \in DOMAIN stored[s] |->
              stored[s][CHOOSE i \in DOMAIN stored[s] : Cardinality(Before(s, i)) = n - 1]]

\* Ids are drawn afresh, so an insert never meets an older session.
CreateSession(s) ==
    /\ s \notin created
    /\ created' = created \cup {s}
    /\ session' = [session EXCEPT ![s] = "whole"]
    /\ UNCHANGED <<backend, made, home, stored, index, records, client, faults, acked, deleted, tangled>>

\* RuntimeStore::append_message makes the record, its id and its time, then
\* calls the backend.
BeginAppend(c, m, s) ==
    /\ At(c, "idle", "idle") /\ home[m] = None
    /\ made' = Append(made, m)
    /\ home' = [home EXCEPT ![m] = s]
    /\ Become(c, [Idle EXCEPT !.op = "append", !.at = "check", !.m = m, !.s = s])
    /\ UNCHANGED <<backend, created, session, stored, index, records, faults, acked, deleted, tangled>>

\* Mutant: the SQL store inserts without asking for the session.
InsertOrphan(c) ==
    /\ backend = "sql" /\ At(c, "append", "check")
    /\ stored' = [stored EXCEPT ![client[c].s] = Append(@, [id |-> client[c].m, usage |-> 0])]
    /\ acked' = acked \cup {client[c].m}
    /\ Return(c)
    /\ UNCHANGED <<backend, created, session, made, home, index, records, faults, deleted, tangled>>

\* The SQL stores check, insert and touch the session in one transaction. A
\* reply that is lost makes an error of an append that was done.
InsertMessage(c) ==
    /\ backend = "sql" /\ At(c, "append", "check")
    /\ \/ /\ session[client[c].s] = "whole"
          /\ stored' = [stored EXCEPT ![client[c].s] = Append(@, [id |-> client[c].m, usage |-> 0])]
          /\ acked' \in {acked, acked \cup {client[c].m}}
       \/ session[client[c].s] = "absent" /\ UNCHANGED <<stored, acked>>
    /\ Return(c)
    /\ UNCHANGED <<backend, created, session, made, home, index, records, faults, deleted, tangled>>

\* Elsewhere the session is looked up first, and its lock given back.
CheckSession(c) ==
    /\ backend # "sql" /\ At(c, "append", "check")
    /\ IF session[client[c].s] = "absent" THEN Return(c) ELSE GoTo(c, "push")
    /\ UNCHANGED <<backend, created, session, made, home, stored, index, records, faults, acked, deleted, tangled>>

\* messages.entry(id).or_default().push, ZADD, insert_one: none of them asks
\* whether the session is still there.
PushMessage(c) ==
    /\ At(c, "append", "push")
    /\ stored' = [stored EXCEPT ![client[c].s] = Append(@, [id |-> client[c].m, usage |-> 0])]
    /\ GoTo(c, IF backend = "mongodb" THEN "touch" ELSE "index")
    /\ UNCHANGED <<backend, created, session, made, home, index, records, faults, acked, deleted, tangled>>

IndexMessage(c) ==
    /\ At(c, "append", "index")
    /\ index' = index \cup {client[c].m}
    /\ IF backend = "memory" THEN Return(c) /\ acked' = acked \cup {client[c].m}
                             ELSE GoTo(c, "touch") /\ UNCHANGED acked
    /\ UNCHANGED <<backend, created, session, made, home, stored, records, faults, deleted, tangled>>

\* The session's updated_at: HSET creates the hash of a session deleted in the
\* meantime anew, with this field only; MongoDB's update then matches nothing.
\* Its reply may be lost too.
TouchSession(c) ==
    /\ At(c, "append", "touch")
    /\ session' = [session EXCEPT ![client[c].s] =
           IF @ = "absent" /\ backend = "redis" THEN "stub" ELSE @]
    /\ acked' \in {acked, acked \cup {client[c].m}}
    /\ Return(c)
    /\ UNCHANGED <<backend, created, made, home, stored, index, records, faults, deleted, tangled>>

\* ON DELETE CASCADE takes messages and executions with the session, and
\* ON DELETE SET NULL takes the embeddings out of it.
DeleteCascading(c, s) ==
    /\ backend = "sql" /\ At(c, "idle", "idle") /\ s \in created
    /\ session' = [session EXCEPT ![s] = "absent"]
    /\ stored' = [stored EXCEPT ![s] = <<>>]
    /\ records' = {r \in records : r.session # s}
    /\ deleted' = deleted \cup {s}
    /\ UNCHANGED <<backend, created, made, home, index, client, faults, acked, tangled>>

DeleteSession(c, s) ==
    /\ backend # "sql" /\ At(c, "idle", "idle") /\ s \in created
    /\ session' = [session EXCEPT ![s] = "absent"]
    /\ deleted' = deleted \cup {s}
    /\ Become(c, [Idle EXCEPT !.op = "delete", !.at = "messages", !.s = s])
    /\ UNCHANGED <<backend, created, made, home, stored, index, records, faults, acked, tangled>>

\* Only the memory store cleans its index.
DeleteMessages(c) ==
    /\ At(c, "delete", "messages")
    /\ stored' = [stored EXCEPT ![client[c].s] = <<>>]
    /\ index' = IF backend = "memory" THEN index \ Ids(client[c].s) ELSE index
    /\ IF backend = "memory" THEN GoTo(c, "records") ELSE Return(c)
    /\ UNCHANGED <<backend, created, session, made, home, records, faults, acked, deleted, tangled>>

\* MemoryStore::delete_session_cascading goes on with the embeddings. The
\* execution store inherits a delete_by_session that deletes nothing.
DeleteRecords(c) ==
    /\ At(c, "delete", "records")
    /\ records' = {r \in records : ~(r.kind = "embedding" /\ r.session = client[c].s)}
    /\ Return(c)
    /\ UNCHANGED <<backend, created, session, made, home, stored, index, faults, acked, deleted, tangled>>

\* An execution refers to a message of its session; the databases enforce it
\* with foreign keys, the maps do not.
AddRecord(r) ==
    /\ backend \in {"memory", "sql"}
    /\ r.of \in acked /\ home[r.of] = r.session
    /\ backend = "sql" => r.of \in Ids(r.session)
    /\ records' = records \cup {r}
    /\ UNCHANGED <<backend, created, session, made, home, stored, index, client, faults, acked, deleted, tangled>>

WithUsage(s, m, u) ==
    [i \in DOMAIN stored[s] |-> IF stored[s][i].id = m THEN [id |-> m, usage |-> u] ELSE stored[s][i]]

\* One UPDATE, or update_one.
UpdateUsageAtOnce(c, m, u) ==
    /\ backend \in {"sql", "mongodb"} /\ At(c, "idle", "idle") /\ home[m] # None
    /\ stored' = [stored EXCEPT ![home[m]] = WithUsage(home[m], m, u)]
    /\ UNCHANGED <<backend, created, session, made, home, index, records, client, faults, acked, deleted, tangled>>

\* The session of the message is looked up in the index.
LookUpMessage(c, m, u) ==
    /\ backend \in {"memory", "redis"} /\ At(c, "idle", "idle")
    /\ m \in index
    /\ Become(c, [Idle EXCEPT !.op = "usage", !.at = IF backend = "memory" THEN "write" ELSE "read",
                              !.m = m, !.s = home[m], !.u = u])
    /\ UNCHANGED <<backend, created, session, made, home, stored, index, records, faults, acked, deleted, tangled>>

WriteUsage(c) ==
    /\ At(c, "usage", "write")
    /\ stored' = [stored EXCEPT ![client[c].s] = WithUsage(client[c].s, client[c].m, client[c].u)]
    /\ Return(c)
    /\ UNCHANGED <<backend, created, session, made, home, index, records, faults, acked, deleted, tangled>>

\* Redis: the entry is found by reading the whole list (ZRANGE) ...
ReadEntry(c) ==
    /\ At(c, "usage", "read")
    /\ \/ \E i \in DOMAIN stored[client[c].s] :
            /\ stored[client[c].s][i].id = client[c].m
            /\ Become(c, [client[c] EXCEPT !.at = "remove", !.seen = stored[client[c].s][i]])
       \/ client[c].m \notin Ids(client[c].s) /\ Return(c)
    /\ UNCHANGED <<backend, created, session, made, home, stored, index, records, faults, acked, deleted, tangled>>

Updating(m) == {c \in Clients : client[c].op = "usage" /\ client[c].m = m /\ client[c].at \in {"remove", "put"}}

\* ... removed by the text that was read (ZREM), which by now may be gone: the
\* members of a sorted set are unlike each other ...
RemoveEntry(c) ==
    /\ At(c, "usage", "remove")
    /\ \/ \E i \in DOMAIN stored[client[c].s] :
            /\ stored[client[c].s][i] = client[c].seen
            /\ stored' = [stored EXCEPT ![client[c].s] = RemoveAt(@, i)]
       \/ client[c].seen \notin ToSet(stored[client[c].s]) /\ UNCHANGED stored
    /\ tangled' = IF Updating(client[c].m) # {c} THEN tangled \cup {client[c].m} ELSE tangled
    /\ GoTo(c, "put")
    /\ UNCHANGED <<backend, created, session, made, home, index, records, faults, acked, deleted>>

\* Mutant: the entry is put back under a new member each time.
PutEntryTwice(c) ==
    /\ At(c, "usage", "put")
    /\ stored' = [stored EXCEPT ![client[c].s] =
           @ \o <<client[c].seen, [id |-> client[c].m, usage |-> client[c].u]>>]
    /\ Return(c)
    /\ UNCHANGED <<backend, created, session, made, home, index, records, faults, acked, deleted, tangled>>

\* ... and added again with the usage set (ZADD).
PutEntry(c) ==
    LET entry == [id |-> client[c].m, usage |-> client[c].u]
    IN  /\ At(c, "usage", "put")
        /\ stored' = [stored EXCEPT ![client[c].s] = IF Contains(@, entry) THEN @ ELSE Append(@, entry)]
        /\ Return(c)
        /\ UNCHANGED <<backend, created, session, made, home, index, records, faults, acked, deleted, tangled>>

\* A call of a database fails, or the run is dropped at it: the operation ends
\* there, and what it did before stays. That the call in hand took effect all
\* the same is its own step followed by this one.
CallFails(c) ==
    /\ client[c] # Idle
    /\ backend = "memory" => client[c].at # "check"
    /\ faults < MaxFaults /\ faults' = faults + 1
    /\ tangled' = IF At(c, "usage", "put") THEN tangled \cup {client[c].m} ELSE tangled
    /\ Return(c)
    /\ UNCHANGED <<backend, created, session, made, home, stored, index, records, acked, deleted>>

Records == [kind : {"execution", "embedding"}, session : Sessions, of : Messages]

StoresNext ==
    \/ \E s \in Sessions : CreateSession(s)
    \/ \E r \in Records : AddRecord(r)
    \/ \E c \in Clients :
        \/ \E s \in Sessions : \/ DeleteCascading(c, s) \/ DeleteSession(c, s)
                               \/ \E m \in Messages : BeginAppend(c, m, s)
        \/ \E m \in Messages, u \in Usages : UpdateUsageAtOnce(c, m, u) \/ LookUpMessage(c, m, u)
        \/ InsertMessage(c) \/ CheckSession(c) \/ PushMessage(c) \/ IndexMessage(c) \/ TouchSession(c)
        \/ DeleteMessages(c) \/ DeleteRecords(c)
        \/ WriteUsage(c) \/ ReadEntry(c) \/ RemoveEntry(c) \/ PutEntry(c)
        \/ CallFails(c)
-----------------------------------------------------------------------------
\* Messages that a Redis update has taken out and not yet put back.
InHand(s) == {client[c].m : c \in {d \in Clients : At(d, "usage", "put") /\ client[d].s = s}}

Lost(s) == {m \in tangled : home[m] = s}

\* Of a session that is being deleted only SQL keeps what SessionStoreSpec says:
\* elsewhere its parts go one by one, and a late append or an execution is left
\* behind.
Promised(s) == backend = "sql" \/ session[s] = "whole"

\* A backend is a transactional store, as far as it promises: in SQL all of it,
\* elsewhere the sessions whose deletion has not begun. These have each message
\* and record once and no other call takes anything from them; Redis up to the
\* messages in the hand of an update or lost by one.
Spec1 == INSTANCE SessionStoreSpec WITH
    live <- {s \in Sessions : session[s] = "whole"},
    log <- [s \in Sessions |->
               IF ~Promised(s) THEN {}
               ELSE IF backend = "redis" THEN Ids(s) \cup InHand(s) \cup Lost(s) ELSE Ids(s)],
    records <- {r \in records : Promised(r.session)}
ImplementsSessionStore == Spec1!Spec

\* A message whose append returned Ok is listed once as long as its session is
\* not deleted, unless two Redis updates of its usage overlapped or one was cut
\* off between ZREM and ZADD: these lose it or list it twice.
ListedOnce ==
    \A m \in acked : home[m] \notin deleted /\ m \notin tangled /\ m \notin InHand(home[m]) =>
        Cardinality({i \in DOMAIN ListMessages(home[m]) : ListMessages(home[m])[i].id = m}) = 1
=============================================================================
