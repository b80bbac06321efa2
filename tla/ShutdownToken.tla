---------------------------- MODULE ShutdownToken ----------------------------
(* The hierarchical shutdown token: tasks wait on a token or signal it. A    *)
(* signal and a wait are sequences of atomic steps on flags and on Notify.   *)
EXTENDS FiniteSets

CONSTANTS
    Tokens, Root,
    ParentOf, \* the token each other token is a child of
    Waiters,  \* ManagedRuntime::serve and tasks of components
    Signallers

VARIABLES
    flag,   \* token -> whether it was signalled
    wait,   \* waiter -> [on, at]
    woken,  \* waiters whose Notified future is complete
    signal  \* signaller -> [of, at]

tokenVars == <<flag, wait, woken, signal>>

TokenInit ==
    /\ flag = [t \in Tokens |-> FALSE]
    /\ \E on \in [Waiters -> Tokens] : wait = [w \in Waiters |-> [on |-> on[w], at |-> "idle"]]
    /\ woken = {}
    /\ \E of \in [Signallers -> Tokens] : signal = [s \in Signallers |-> [of |-> of[s], at |-> "idle"]]

Parent(t) == IF t = Root THEN {} ELSE {ParentOf[t]}

\* A token asks itself and its parent, but no ancestor above.
IsShutdown(t) == flag[t] \/ \E p \in Parent(t) : flag[p]

AdvanceWait(w, from, to) == wait[w].at = from /\ wait' = [wait EXCEPT ![w].at = to]

\* A task begins to wait when it wants to.
FirstCheck(w) ==
    /\ AdvanceWait(w, "idle", IF IsShutdown(wait[w].on) THEN "returned" ELSE "register")
    /\ UNCHANGED <<flag, woken, signal>>

\* notified() is woken by every notify_waiters from here on.
Enlist(w) ==
    /\ AdvanceWait(w, "register", "recheck")
    /\ UNCHANGED <<flag, woken, signal>>

\* Mutant: the future is awaited without a second look.
SecondCheckNever(w) ==
    /\ AdvanceWait(w, "recheck", "parked")
    /\ UNCHANGED <<flag, woken, signal>>

SecondCheck(w) ==
    /\ AdvanceWait(w, "recheck", IF IsShutdown(wait[w].on) THEN "returned" ELSE "parked")
    /\ UNCHANGED <<flag, woken, signal>>

Wake(w) ==
    /\ w \in woken
    /\ AdvanceWait(w, "parked", "returned")
    /\ UNCHANGED <<flag, woken, signal>>

AdvanceSignal(s, from, to) == signal[s].at = from /\ signal' = [signal EXCEPT ![s].at = to]

\* notify_waiters of one token.
Notify(t) == woken' = woken \cup {w \in Waiters : wait[w].on = t /\ wait[w].at \in {"recheck", "parked"}}

\* The token of a signaller, and its parent when there is one.
SetFlag(s) ==
    /\ AdvanceSignal(s, "idle", "notify")
    /\ flag' = [flag EXCEPT ![signal[s].of] = TRUE]
    /\ UNCHANGED <<wait, woken>>

NotifyWaiters(s) ==
    /\ AdvanceSignal(s, "notify", IF signal[s].of = Root THEN "done" ELSE "parent")
    /\ Notify(signal[s].of)
    /\ UNCHANGED <<flag, wait>>

SetParentFlag(s) ==
    /\ AdvanceSignal(s, "parent", "notifyParent")
    /\ flag' = [flag EXCEPT ![ParentOf[signal[s].of]] = TRUE]
    /\ UNCHANGED <<wait, woken>>

NotifyParent(s) ==
    /\ AdvanceSignal(s, "notifyParent", "done")
    /\ Notify(ParentOf[signal[s].of])
    /\ UNCHANGED <<flag, wait>>

WaitStep(w) == Enlist(w) \/ SecondCheck(w) \/ Wake(w)
SignalStep(s) == NotifyWaiters(s) \/ SetParentFlag(s) \/ NotifyParent(s)

TokenNext ==
    \/ \E w \in Waiters : FirstCheck(w) \/ WaitStep(w)
    \/ \E s \in Signallers : SetFlag(s) \/ SignalStep(s)

\* Nobody has to wait or to signal, but who has begun is scheduled again: a
\* signal has no await inside, and a woken waiter is polled.
TokenFairness ==
    /\ \A w \in Waiters : WF_tokenVars(WaitStep(w))
    /\ \A s \in Signallers : WF_tokenVars(SignalStep(s))
-----------------------------------------------------------------------------
\* A signal on a token or on one of its children reaches everybody who waits
\* on it, whenever he began to. Not promised, for the code does not keep it:
\* that a parent's signal wakes those parked on its children, though
\* is_shutdown is true for them, and that a grandchild's reaches the root.
SignalsArrive ==
    \A w \in Waiters : (wait[w].at # "idle" /\ flag[wait[w].on]) ~> wait[w].at = "returned"
=============================================================================
