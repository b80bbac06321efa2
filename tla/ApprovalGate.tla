---------------------------- MODULE ApprovalGate ----------------------------
(* The gate a tool call may have to pass: requests wait for a decision in    *)
(* one map, decisions stay in another. Both are used by the run loop and by  *)
(* several approval interfaces at the same time.                             *)
EXTENDS Integers

CONSTANTS
    CallIds,
    Interfaces, \* those who decide
    MaxRequests, \* bound: requests per call id
    Undecided   \* neither a decision nor one on its way

VARIABLES
    pending,   \* call ids that wait for a decision
    overdue,   \* of these, the ones whose timeout has elapsed
    deciding,  \* interface -> the decision on its way: it has the lock of
               \* pending and waits for the one of decisions
    decisions, \* call id -> "approve", "reject" or Undecided
    requested, \* history: how often a request was accepted, per call id
    settled    \* history: the decisions recorded, each with the number of the
               \* request it was taken for

gateVars == <<pending, overdue, deciding, decisions, requested, settled>>

GateInit ==
    /\ pending = {} /\ overdue = {}
    /\ deciding = [i \in Interfaces |-> Undecided]
    /\ decisions = [c \in CallIds |-> Undecided]
    /\ requested = [c \in CallIds |-> 0]
    /\ settled = {}

\* Mutant: decide gives the lock of pending back before it waits for the other.
PendingGivenBack == TRUE

\* The lock of pending is free: nobody is between the two locks of decide.
PendingFree == \A i \in Interfaces : deciding[i] = Undecided

\* Only a pending call is a duplicate: one decided before is asked again.
Request(c) ==
    /\ PendingFree /\ c \notin pending
    /\ requested[c] < MaxRequests
    /\ pending' = pending \cup {c}
    /\ requested' = [requested EXCEPT ![c] = @ + 1]
    /\ UNCHANGED <<overdue, deciding, decisions, settled>>

\* The timeout of a request elapses (a request may have none).
Elapse(c) ==
    /\ c \in pending
    /\ overdue' = overdue \cup {c}
    /\ UNCHANGED <<pending, deciding, decisions, requested, settled>>

\* decide locks pending and takes the request out. One whose time is over is
\* taken all the same while expire_timed_out has not removed it.
TakeRequest(i, c, d) ==
    /\ PendingFree /\ c \in pending
    /\ pending' = pending \ {c}
    /\ overdue' = overdue \ {c}
    /\ deciding' = [deciding EXCEPT ![i] =
           [call |-> c, number |-> requested[c], decision |-> d]]
    /\ UNCHANGED <<decisions, requested, settled>>

\* Then it locks the decisions, puts its own there and returns true.
RecordDecision(i) ==
    /\ deciding[i] # Undecided
    /\ decisions' = [decisions EXCEPT ![deciding[i].call] = deciding[i].decision]
    /\ settled' = settled \cup {deciding[i]}
    /\ deciding' = [deciding EXCEPT ![i] = Undecided]
    /\ UNCHANGED <<pending, overdue, requested>>

\* decide is dropped while it waits: neither a request nor a decision is left.
DropDecide(i) ==
    /\ deciding[i] # Undecided
    /\ deciding' = [deciding EXCEPT ![i] = Undecided]
    /\ UNCHANGED <<pending, overdue, decisions, requested, settled>>

ExpireTimedOut ==
    /\ PendingFree /\ overdue # {}
    /\ pending' = pending \ overdue
    /\ overdue' = {}
    /\ UNCHANGED <<deciding, decisions, requested, settled>>

GateNext ==
    \/ ExpireTimedOut
    \/ \E c \in CallIds : \/ Request(c) \/ Elapse(c)
                          \/ \E i \in Interfaces, d \in {"approve", "reject"} : TakeRequest(i, c, d)
    \/ \E i \in Interfaces : RecordDecision(i) \/ DropDecide(i)
-----------------------------------------------------------------------------
\* What is_approved reads is the answer to the newest request that was answered,
\* and a request has one answer, whichever interfaces, timeouts and repeated
\* requests interleave with a decision on its way. (That newest answer may be
\* older than the newest request: nothing removes a decision. And it may be the
\* approval of an overdue request, though PendingApproval's timeout is one "after
\* which the approval is considered denied": decide never looks at it.)
NewestDecisionStands ==
    /\ \A r, q \in settled : r.call = q.call /\ r.number = q.number => r = q
    /\ \A r \in settled :
           (\A q \in settled : q.call = r.call => q.number <= r.number) =>
               decisions[r.call] = r.decision
=============================================================================
