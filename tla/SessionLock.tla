----------------------------- MODULE SessionLock -----------------------------
(***************************************************************************)
(* What SessionGate promises, without its map of mutexes: a session is     *)
(* entered by one run at a time, and only when nobody is in it.            *)
(***************************************************************************)
CONSTANTS Callers, Sessions

VARIABLE holders    \* the callers inside each session

Init == holders = [s \in Sessions |-> {}]

(* A run enters a session that is free.                                    *)
Acquire(c, s) ==
    /\ holders[s] = {}
    /\ holders' = [holders EXCEPT ![s] = {c}]

(* The run's guard is dropped.                                             *)
Release(c, s) ==
    /\ holders[s] = {c}
    /\ holders' = [holders EXCEPT ![s] = {}]

Next == \E c \in Callers, s \in Sessions : Acquire(c, s) \/ Release(c, s)

Spec == Init /\ [][Next]_holders
=============================================================================
