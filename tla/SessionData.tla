----------------------------- MODULE SessionData -----------------------------
(* The stores of a session's temporary data. In memory and in Redis a call   *)
(* is one step. The file store reads the session's file, changes one key and *)
(* writes all of it, on a thread of its own under a lock per session.        *)
EXTENDS Naturals, FiniteSets

CONSTANTS
    Callers, Owners, Keys, Values,
    MaxRestarts, \* bound: crashes of the process
    Torn,        \* a file that does not parse
    Absent, Nobody

ASSUME DataAssumption ==
    /\ Nobody \notin Owners \cup Callers
    /\ Torn \notin [Keys -> Values \cup {Absent}]

VARIABLES
    medium,     \* "map" (memory), "hash" (Redis) or "file"
    held,       \* session -> its keys and values, or Torn
    fileLock,   \* session -> the caller whose thread holds its lock
    call,       \* caller -> the call it is in: [at, owner, key, value, image];
                \* the thread of a call goes on when its caller is dropped
    restarts

dataVars == <<medium, held, fileLock, call, restarts>>

Empty == [k \in Keys |-> Absent]
NoCall == [at |-> "none", owner |-> Nobody, key |-> Nobody, value |-> Nobody, image |-> Nobody]

DataInit ==
    /\ medium \in {"map", "hash", "file"}
    /\ held = [o \in Owners |-> Empty]
    /\ fileLock = [o \in Owners |-> Nobody]
    /\ call = [c \in Callers |-> NoCall]
    /\ restarts = 0

\* set_data, or delete_data when the value is Absent. A handler that does not
\* know its session gets an error before.
BeginCall(c, o, k, v) ==
    /\ call[c] = NoCall
    /\ call' = [call EXCEPT ![c] = [at |-> IF medium = "file" THEN "lock" ELSE "apply",
                                    owner |-> o, key |-> k, value |-> v, image |-> Nobody]]
    /\ UNCHANGED <<medium, held, fileLock, restarts>>

\* insert or remove of the map; HSET or HDEL, which may fail.
Apply(c) ==
    /\ call[c].at = "apply"
    /\ \/ held' = [held EXCEPT ![call[c].owner][call[c].key] = call[c].value]
       \/ medium = "hash" /\ UNCHANGED held
    /\ call' = [call EXCEPT ![c] = NoCall]
    /\ UNCHANGED <<medium, fileLock, restarts>>

\* Mutant: the thread starts without waiting for the lock.
LockFileNever(c) ==
    /\ call[c].at = "lock"
    /\ fileLock' = [fileLock EXCEPT ![call[c].owner] = c]
    /\ call' = [call EXCEPT ![c].at = "read"]
    /\ UNCHANGED <<medium, held, restarts>>

LockFile(c) ==
    /\ call[c].at = "lock" /\ fileLock[call[c].owner] = Nobody
    /\ fileLock' = [fileLock EXCEPT ![call[c].owner] = c]
    /\ call' = [call EXCEPT ![c].at = "read"]
    /\ UNCHANGED <<medium, held, restarts>>

\* The thread is done with the file: its lock is free, its call is answered.
EndFileCall(c) ==
    /\ fileLock' = [fileLock EXCEPT ![call[c].owner] = Nobody]
    /\ call' = [call EXCEPT ![c] = NoCall]

\* The call ends here with an error when the file does not parse or cannot be
\* read, and with nothing to do when it deletes from a file that is not there.
ReadFile(c) ==
    /\ call[c].at = "read"
    /\ \/ /\ held[call[c].owner] # Torn
          /\ call' = [call EXCEPT ![c].at = "truncate", ![c].image = held[call[c].owner]]
          /\ UNCHANGED fileLock
       \/ EndFileCall(c)
    /\ UNCHANGED <<medium, held, restarts>>

\* std::fs::write empties the file before it writes, unless it cannot open it.
TruncateFile(c) ==
    /\ call[c].at = "truncate"
    /\ \/ /\ held' = [held EXCEPT ![call[c].owner] = Torn]
          /\ call' = [call EXCEPT ![c].at = "write"]
          /\ UNCHANGED fileLock
       \/ EndFileCall(c) /\ UNCHANGED held
    /\ UNCHANGED <<medium, restarts>>

WriteFile(c) ==
    /\ call[c].at = "write"
    /\ held' = [held EXCEPT ![call[c].owner] = [call[c].image EXCEPT ![call[c].key] = call[c].value]]
    /\ EndFileCall(c)
    /\ UNCHANGED <<medium, restarts>>

\* The disk is full: the error is answered, what was written of the file stays.
FailWrite(c) ==
    /\ call[c].at = "write"
    /\ EndFileCall(c)
    /\ UNCHANGED <<medium, held, restarts>>

\* Only the map is gone with the process, and a file half written stays so.
RestartProcess ==
    /\ restarts < MaxRestarts /\ restarts' = restarts + 1
    /\ held' = IF medium = "map" THEN [o \in Owners |-> Empty] ELSE held
    /\ fileLock' = [o \in Owners |-> Nobody]
    /\ call' = [c \in Callers |-> NoCall]
    /\ UNCHANGED medium

DataNext ==
    \/ \E c \in Callers :
        \/ \E o \in Owners, k \in Keys, v \in Values \cup {Absent} : BeginCall(c, o, k, v)
        \/ Apply(c) \/ LockFile(c) \/ ReadFile(c) \/ TruncateFile(c) \/ WriteFile(c) \/ FailWrite(c)
    \/ RestartProcess
-----------------------------------------------------------------------------
Writers(o) == {c \in Callers : call[c].owner = o /\ call[c].at = "write"}

\* What a thread read stands for the file it is writing.
Contents(o) ==
    IF held[o] = Torn /\ Writers(o) # {} THEN call[CHOOSE c \in Writers(o) : TRUE].image ELSE held[o]

\* Each store is a map whose calls change one key of one session. A crash or a
\* write that fails spoils the session being written, and nothing else does.
KV == INSTANCE KeyValueSpec WITH
    data <- [o \in Owners |-> Contents(o)],
    busy <- [c \in Callers |-> call[c].owner]
ImplementsKeyValue == KV!Spec
=============================================================================
