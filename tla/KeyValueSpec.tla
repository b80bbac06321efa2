---------------------------- MODULE KeyValueSpec ----------------------------
(* What a SessionDataStore keeps: set and delete change one key of one       *)
(* session at once. A store may forget all of it at a restart; a crash or a  *)
(* failed call may tear the session that was being written, and no other.    *)

CONSTANTS Callers, Owners, Keys, Values, Torn, Absent, Nobody

VARIABLES
    data,  \* session -> its keys and values, or Torn
    busy   \* caller -> the session its call is for, or Nobody

kvVars == <<data, busy>>

Init ==
    /\ data = [o \in Owners |-> [k \in Keys |-> Absent]]
    /\ busy = [c \in Callers |-> Nobody]

Call(c, o) ==
    /\ busy[c] = Nobody
    /\ busy' = [busy EXCEPT ![c] = o]
    /\ UNCHANGED data

Put(c) ==
    /\ busy[c] # Nobody /\ data[busy[c]] # Torn
    /\ \E k \in Keys, v \in Values \cup {Absent} : data' = [data EXCEPT ![busy[c]][k] = v]
    /\ busy' = [busy EXCEPT ![c] = Nobody]

Answer(c) ==
    /\ busy[c] # Nobody
    /\ busy' = [busy EXCEPT ![c] = Nobody]
    /\ UNCHANGED data

\* The call fails halfway: its session cannot be read any more.
Spoil(c) ==
    /\ busy[c] # Nobody
    /\ data' = [data EXCEPT ![busy[c]] = Torn]
    /\ busy' = [busy EXCEPT ![c] = Nobody]

Restart ==
    /\ busy' = [c \in Callers |-> Nobody]
    /\ \/ data' = [o \in Owners |-> [k \in Keys |-> Absent]]
       \/ \E torn \in SUBSET {busy[c] : c \in Callers} :
              data' = [o \in Owners |-> IF o \in torn THEN Torn ELSE data[o]]

Next == \/ \E c \in Callers : \/ Put(c) \/ Answer(c) \/ Spoil(c)
                              \/ \E o \in Owners : Call(c, o)
        \/ Restart

Spec == Init /\ [][Next]_kvVars
=============================================================================
