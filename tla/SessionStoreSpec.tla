-------------------------- MODULE SessionStoreSpec --------------------------
(* What the SessionStore trait promises, in one step per operation: as in a  *)
(* database with ON DELETE CASCADE, a message belongs to a session and a     *)
(* record to a message, and both go when the session goes.                   *)
EXTENDS Naturals

CONSTANTS Sessions, Messages, Records

VARIABLES
    created, \* sessions that were ever created
    live,    \* sessions that exist
    log,     \* per session, the messages it keeps
    records  \* what refers to a session: [kind, session, of]

specVars == <<created, live, log, records>>

Init ==
    /\ created = {} /\ live = {}
    /\ log = [s \in Sessions |-> {}]
    /\ records = {}

Create(s) ==
    /\ s \notin created
    /\ created' = created \cup {s} /\ live' = live \cup {s}
    /\ UNCHANGED <<log, records>>

\* A message is appended once, and no other disappears by it.
Append(m, s) ==
    /\ s \in live
    /\ \A t \in Sessions : m \notin log[t]
    /\ log' = [log EXCEPT ![s] = @ \cup {m}]
    /\ UNCHANGED <<created, live, records>>

Record(r) ==
    /\ r.session \in live /\ r.of \in log[r.session]
    /\ records' = records \cup {r}
    /\ UNCHANGED <<created, live, log>>

\* Nothing of the session is left.
Delete(s) ==
    /\ live' = live \ {s}
    /\ log' = [log EXCEPT ![s] = {}]
    /\ records' = {r \in records : r.session # s}
    /\ UNCHANGED created

Next == \/ \E s \in Sessions : \/ Create(s) \/ Delete(s)
                               \/ \E m \in Messages : Append(m, s)
        \/ \E r \in Records : Record(r)

Spec == Init /\ [][Next]_specVars
=============================================================================
