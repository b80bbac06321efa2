-------------------------- MODULE ComponentRegistry --------------------------
(***************************************************************************)
(* ComponentRegistry and the hot reload of ManagedRuntime: components are  *)
(* registered, initialised and started in dependency order, replaced while *)
(* they run, unregistered, and stopped in reverse order.                   *)
(*                                                                         *)
(* The registry is five maps behind five locks.  No operation holds a lock *)
(* across an await, and most release one lock before they take the next,   *)
(* so tasks that share the registry interleave between any two steps below.*)
(* Two sections of one operation are one step only where the order of the  *)
(* two with any other task's step makes no difference.                     *)
(* A component instance is a number; what it does is external: its start,  *)
(* stop and hooks succeed or fail as they like.                            *)
(***************************************************************************)
EXTENDS Naturals, Sequences, FiniteSets, SequencesExt

CONSTANTS
    Names,          \* names of components
    Operators,      \* tasks that register and run init_all, start_all, stop_all
    Reloaders,      \* tasks that call replace_instance, or names
    None,           \* no cached order
    Races,          \* may a reload overlap anything but start_all and names?
    MaxInstances,   \* bound: instances built
    MaxOps          \* bound: operations of the operators

ASSUME NamesAssumption == IsFiniteSet(Names) /\ Operators \cap Reloaders = {}
ASSUME BoundAssumption == MaxInstances \in Nat /\ MaxOps \in Nat
ASSUME RacesAssumption == Races \in BOOLEAN

VARIABLES
    factories,   \* names with a factory that was not built yet
    described,   \* names with a descriptor
    deps,        \* the depends_on of each descriptor
    instances,   \* the instance of each name, 0 if none
    state,       \* of each name: one of Done, or "Pending", "Initializing",
                 \* "Failed", "Absent"
    topo,        \* the cached initialisation order, or None
    pc, op,      \* what each task is doing: the step, the operation
    todo,        \* the components the task's operation has still to visit
    held,        \* the instance the task fetched
    fresh,       \* the instance a reload brings
    result,      \* how the task's latest operation ended
    serving,     \* history: instances that were started and not stopped
    handed,      \* history: instances that a reload returned to its caller
    rebuilt,     \* history: instances that init_all replaced by a new one
    built, ops   \* history: instances built, operations begun

registryVars == <<factories, described, deps, instances, state, topo>>
taskVars == <<pc, op, todo, held, fresh, result>>
historyVars == <<serving, handed, rebuilt, built, ops>>
vars == <<registryVars, taskVars, historyVars>>

Tasks == Operators \cup Reloaders
Done == {"Initialized", "Running", "Starting", "Stopping", "Stopped"}

-----------------------------------------------------------------------------
(* The initialisation order *)

(* Kahn's algorithm gives an order in which every component follows its    *)
(* dependencies; which one depends on the iteration order of a HashMap.    *)
Follows(order, d) ==
    \A i, j \in DOMAIN order : order[j] \in d[order[i]] => j < i

Orders == {order \in SetToSeqs(described) : Follows(order, deps)}

(* recompute_topo fails on a dependency without descriptor, or on a cycle. *)
Dangling == \E n \in described : ~(deps[n] \subseteq described)

-----------------------------------------------------------------------------
Init ==
    /\ factories = {} /\ described = {}
    /\ deps = [n \in Names |-> {}]
    /\ instances = [n \in Names |-> 0]
    /\ state = [n \in Names |-> "Absent"]
    /\ topo = None
    /\ pc = [t \in Tasks |-> "idle"]
    /\ op = [t \in Tasks |-> "none"]
    /\ todo = [t \in Tasks |-> <<>>]
    /\ held = [t \in Tasks |-> 0]
    /\ fresh = [t \in Tasks |-> 0]
    /\ result = [t \in Tasks |-> "ok"]
    /\ serving = {} /\ handed = {} /\ rebuilt = {} /\ built = 0 /\ ops = 0

(* Bookkeeping of a task: a new operation, a step of it, its return.       *)
Begin(t, o, step, names, res) ==
    /\ pc[t] = "idle"
    /\ op' = [op EXCEPT ![t] = o]
    /\ pc' = [pc EXCEPT ![t] = step]
    /\ todo' = [todo EXCEPT ![t] = names]
    /\ result' = [result EXCEPT ![t] = res]
    /\ held' = [held EXCEPT ![t] = 0]
    /\ fresh' = [fresh EXCEPT ![t] = 0]

At(t, o, step) == op[t] = o /\ pc[t] = step

Go(t, step) ==
    /\ pc' = [pc EXCEPT ![t] = step]
    /\ UNCHANGED <<op, todo, held, fresh, result>>

Fail(t) ==
    /\ pc' = [pc EXCEPT ![t] = "idle"]
    /\ result' = [result EXCEPT ![t] = "err"]
    /\ UNCHANGED <<op, todo, held, fresh>>

(* The loops of init_all, start_all and stop_all go on to the next         *)
(* component, recording the first error.                                   *)
NextName(t) == Tail(todo[t])

Advance(t, ok) ==
    /\ pc' = [pc EXCEPT ![t] = "next"]
    /\ todo' = [todo EXCEPT ![t] = NextName(t)]
    /\ result' = [result EXCEPT ![t] = IF ok THEN @ ELSE "err"]
    /\ UNCHANGED <<op, held, fresh>>

(* The instance is looked up in the map, and may be missing.               *)
Found(n) == instances[n] # 0

SetState(n, s) == state' = [state EXCEPT ![n] = s]

CountOp == ops < MaxOps /\ ops' = ops + 1

Reloading == \E t \in Tasks : op[t] = "reload" /\ pc[t] # "idle"
Changing == \E t \in Tasks : pc[t] # "idle" /\ op[t] \notin {"reload", "start"}
Undisturbed == Races \/ ~Reloading

-----------------------------------------------------------------------------
(* register_factory: four maps, one lock at a time *)
BeginRegister(t, n) ==
    /\ CountOp /\ Undisturbed
    /\ IF n \in factories
       THEN /\ Begin(t, "register", "idle", <<n>>, "err")
            /\ UNCHANGED factories
       ELSE /\ Begin(t, "register", "describe", <<n>>, "ok")
            /\ factories' = factories \cup {n}
    /\ UNCHANGED <<described, deps, instances, state, topo, serving, handed, rebuilt, built>>

Describe(t, D) ==
    LET n == Head(todo[t]) IN
    /\ At(t, "register", "describe") /\ Go(t, "pend")
    /\ described' = described \cup {n}
    /\ deps' = [deps EXCEPT ![n] = D]
    /\ UNCHANGED <<factories, instances, state, topo, historyVars>>

Pend(t) ==
    /\ At(t, "register", "pend") /\ Go(t, "stale")
    /\ SetState(Head(todo[t]), "Pending")
    /\ UNCHANGED <<factories, described, deps, instances, topo, historyVars>>

\* Mutant: the cached order is kept.
StillCached == topo

(* invalidate_topo, the last step of register_factory and unregister       *)
Uncached == None

Invalidate(t) ==
    /\ op[t] \in {"register", "unregister"} /\ pc[t] = "stale" /\ Go(t, "idle")
    /\ topo' = Uncached
    /\ UNCHANGED <<factories, described, deps, instances, state, historyVars>>

(* unregister: the instance, if any, stays in the map of instances         *)
BeginUnregister(t, n) ==
    /\ CountOp /\ Undisturbed
    /\ Begin(t, "unregister", "describe", <<n>>, "ok")
    /\ factories' = factories \ {n}
    /\ UNCHANGED <<described, deps, instances, state, topo, serving, handed, rebuilt, built>>

Undescribe(t) ==
    LET n == Head(todo[t]) IN
    /\ At(t, "unregister", "describe")
    /\ IF n \in described
       THEN described' = described \ {n} /\ Go(t, "pend")
       ELSE UNCHANGED described /\ Fail(t)
    /\ UNCHANGED <<factories, deps, instances, state, topo, historyVars>>

Unpend(t) ==
    /\ At(t, "unregister", "pend") /\ Go(t, "stale")
    /\ SetState(Head(todo[t]), "Absent")
    /\ UNCHANGED <<factories, described, deps, instances, topo, historyVars>>

-----------------------------------------------------------------------------
(* init_all, start_all, stop_all: fetch the order, then visit each name *)
(* The order is the cached one, or a new one that is cached under the read *)
(* lock of the descriptors.                                                *)
BeginAll(t, o) ==
    /\ CountOp
    /\ o \in {"init", "stop"} => Undisturbed
    /\ IF topo = None /\ (Dangling \/ Orders = {})
       THEN Begin(t, o, "idle", <<>>, "err") /\ UNCHANGED topo
       ELSE \E order \in IF topo = None THEN Orders ELSE {topo} :
              /\ topo' = order
              /\ Begin(t, o, "next", IF o = "stop" THEN Reverse(order) ELSE order, "ok")
    /\ UNCHANGED <<factories, described, deps, instances, state, serving,
                   handed, rebuilt, built>>

\* Mutant: stop_all takes only running components.
VisitsRunning(o, s) ==
    \/ o = "init"  /\ s \notin Done
    \/ o = "start" /\ s = "Initialized"
    \/ o = "stop"  /\ s = "Running"

(* The state of the next component decides whether it is visited.          *)
Visits(o, s) ==
    \/ o = "init"  /\ s \notin Done
    \/ o = "start" /\ s = "Initialized"
    \/ o = "stop"  /\ s \in {"Running", "Initialized"}

CheckNext(t) ==
    /\ op[t] \in {"init", "start", "stop"} /\ pc[t] = "next"
    /\ IF todo[t] = <<>> THEN Go(t, "idle")
       ELSE IF Visits(op[t], state[Head(todo[t])]) THEN Go(t, "take")
       ELSE Advance(t, TRUE)
    /\ UNCHANGED <<registryVars, historyVars>>

(* init_all: the factory is taken out of its map by one task only          *)
TakeFactory(t) ==
    LET n == Head(todo[t]) IN
    /\ At(t, "init", "take")
    /\ IF n \in factories
       THEN /\ factories' = factories \ {n}
            /\ SetState(n, "Initializing")
            /\ Go(t, "call")
       ELSE Advance(t, TRUE) /\ UNCHANGED <<factories, state>>
    /\ UNCHANGED <<described, deps, instances, topo, historyVars>>

(* ..., build has been awaited                                             *)
Built(t) ==
    LET n == Head(todo[t]) IN
    /\ At(t, "init", "call")
    /\ \/ /\ built < MaxInstances /\ built' = built + 1
          /\ instances' = [instances EXCEPT ![n] = built + 1]
          /\ rebuilt' = rebuilt \cup {instances[n]}
          /\ SetState(n, "Initialized") /\ Advance(t, TRUE)
       \/ /\ SetState(n, "Failed") /\ Advance(t, FALSE)
          /\ UNCHANGED <<instances, built, rebuilt>>
    /\ UNCHANGED <<factories, described, deps, topo, serving, handed, ops>>

(* start_all and stop_all: the state is set, then the instance fetched     *)
TakeInstance(t) ==
    LET n == Head(todo[t]) IN
    /\ op[t] \in {"start", "stop"} /\ pc[t] = "take"
    /\ SetState(n, IF op[t] = "start" THEN "Starting" ELSE "Stopping")
    /\ IF ~Found(n) THEN Advance(t, TRUE)
       ELSE /\ held' = [held EXCEPT ![t] = instances[n]]
            /\ pc' = [pc EXCEPT ![t] = "call"]
            /\ UNCHANGED <<op, todo, fresh, result>>
    /\ UNCHANGED <<factories, described, deps, instances, topo, historyVars>>

(* ..., start has been awaited                                             *)
Started(t) ==
    LET n == Head(todo[t]) IN
    /\ At(t, "start", "call")
    /\ \/ /\ serving' = serving \cup {held[t]}
          /\ SetState(n, "Running") /\ Advance(t, TRUE)
       \/ /\ SetState(n, "Failed") /\ Advance(t, FALSE)
          /\ UNCHANGED serving
    /\ UNCHANGED <<factories, described, deps, instances, topo, handed, rebuilt,
                   built, ops>>

(* ..., stop has been awaited; a failure is recorded, the state is the same *)
Stopped(t) ==
    /\ At(t, "stop", "call")
    /\ SetState(Head(todo[t]), "Stopped")
    /\ serving' = serving \ {held[t]}
    /\ \E ok \in BOOLEAN : Advance(t, ok)
    /\ UNCHANGED <<factories, described, deps, instances, topo, handed, rebuilt,
                   built, ops>>

-----------------------------------------------------------------------------
(* replace_instance, called by ManagedRuntime::reload *)
BeginReload(t, n) ==
    /\ built < MaxInstances /\ built' = built + 1
    /\ Races \/ ~Changing
    /\ IF ~Found(n)
       THEN Begin(t, "reload", "idle", <<n>>, "err")
       ELSE /\ pc[t] = "idle"
            /\ pc' = [pc EXCEPT ![t] = "check"]
            /\ op' = [op EXCEPT ![t] = "reload"]
            /\ todo' = [todo EXCEPT ![t] = <<n>>]
            /\ held' = [held EXCEPT ![t] = instances[n]]
            /\ fresh' = [fresh EXCEPT ![t] = built + 1]
            /\ result' = [result EXCEPT ![t] = "ok"]
    /\ UNCHANGED <<registryVars, serving, handed, rebuilt, ops>>

CheckRunning(t) ==
    /\ At(t, "reload", "check")
    /\ IF state[Head(todo[t])] = "Running" THEN Go(t, "pre") ELSE Fail(t)
    /\ UNCHANGED <<registryVars, historyVars>>

(* pre_replace of the old instance has been awaited                        *)
PreReplaced(t) ==
    /\ At(t, "reload", "pre")
    /\ Go(t, "start") \/ Fail(t)
    /\ UNCHANGED <<registryVars, historyVars>>

\* Mutant: the failure is only logged.
NotStartedLogged(t) == Go(t, "swap")

(* start of the new instance has been awaited: if it fails, the old one    *)
(* remains in place.                                                       *)
NotStarted(t) == Fail(t)

NewStarted(t) ==
    /\ At(t, "reload", "start")
    /\ \/ Go(t, "swap") /\ serving' = serving \cup {fresh[t]}
       \/ NotStarted(t) /\ UNCHANGED serving
    /\ UNCHANGED <<registryVars, handed, rebuilt, built, ops>>

Swap(t) ==
    /\ At(t, "reload", "swap") /\ Go(t, "running")
    /\ instances' = [instances EXCEPT ![Head(todo[t])] = fresh[t]]
    /\ UNCHANGED <<factories, described, deps, state, topo, historyVars>>

SetRunning(t) ==
    /\ At(t, "reload", "running") /\ Go(t, "post")
    /\ SetState(Head(todo[t]), "Running")
    /\ UNCHANGED <<factories, described, deps, instances, topo, historyVars>>

(* post_replace of the old instance has been awaited, its error ignored;   *)
(* the caller gets the old instance.                                       *)
Returned(t) == {held[t]}

PostReplaced(t) ==
    /\ At(t, "reload", "post") /\ Go(t, "idle")
    /\ handed' = handed \cup Returned(t)
    /\ UNCHANGED <<registryVars, serving, rebuilt, built, ops>>

(* names and health recompute and cache the order, too                     *)
ReadNames(t) ==
    /\ pc[t] = "idle" /\ topo = None /\ ~Dangling
    /\ \E order \in Orders : topo' = order
    /\ UNCHANGED <<factories, described, deps, instances, state, taskVars,
                   historyVars>>

-----------------------------------------------------------------------------
OperatorStep(t) ==
    \/ \E D \in SUBSET Names : Describe(t, D)
    \/ Pend(t) \/ Invalidate(t) \/ Undescribe(t) \/ Unpend(t)
    \/ CheckNext(t) \/ TakeFactory(t) \/ Built(t) \/ TakeInstance(t)
    \/ Started(t) \/ Stopped(t)

ReloaderStep(t) ==
    \/ CheckRunning(t) \/ PreReplaced(t) \/ NewStarted(t) \/ Swap(t)
    \/ SetRunning(t) \/ PostReplaced(t)

Next ==
    \/ \E t \in Operators :
        \/ OperatorStep(t)
        \/ \E n \in Names : BeginRegister(t, n) \/ BeginUnregister(t, n)
        \/ \E o \in {"init", "start", "stop"} : BeginAll(t, o)
    \/ \E t \in Reloaders :
        \/ ReloaderStep(t) \/ ReadNames(t)
        \/ \E n \in Names : BeginReload(t, n)

Spec == Init /\ [][Next]_vars

(* A component a task is at work on: one that init_all, start_all or       *)
(* stop_all has taken up, or one whose instance a reload has fetched and   *)
(* whose state it has yet to set.                                          *)
AtWork == {t \in Tasks :
              pc[t] \in {"take", "call", "check", "pre", "start", "swap", "running"}}

(* A reload that has yet to check the state may meet a start: it finds the *)
(* component Starting, and fails, or Running.                              *)
MayMeet(t, u) == op[t] = "start" /\ pc[u] = "check"

(* No two tasks are at work on the same component.                         *)
NoClash ==
    \A t, u \in AtWork :
        t # u /\ Head(todo[t]) = Head(todo[u]) => MayMeet(t, u) \/ MayMeet(u, t)

(* Any tasks at once, as long as they keep off each other's component.     *)
ApartSpec == Init /\ [][Next /\ NoClash']_vars

-----------------------------------------------------------------------------
(* Properties *)

(* The cached order is an order of the current descriptors, but while a    *)
(* task that changed them has not yet invalidated it (recompute_topo       *)
(* caches under the lock of the descriptors).                              *)
TopoFresh ==
    topo # None /\ (\A t \in Tasks : op[t] \in {"register", "unregister"} => pc[t] = "idle")
        => topo \in Orders

(* When start is awaited on a component, none of its dependencies is still *)
(* to be initialised or started: each is Running, Failed or gone. When     *)
(* stop is awaited on it, nothing that depends on it runs.                 *)
OrderRespected ==
    /\ TopoFresh
    /\ \A t \in Tasks : At(t, "start", "call") =>
        \A m \in deps[Head(todo[t])] \cap described :
            state[m] \notin {"Initializing", "Initialized", "Starting"}
    /\ \A t \in Tasks : At(t, "stop", "call") =>
        \A m \in described :
            Head(todo[t]) \in deps[m] => state[m] \notin {"Running", "Starting"}

(* A component in state Running has an instance that serves, and one that  *)
(* serves is registered, about to be swapped in, swapped out by a reload   *)
(* that has yet to return it, returned to its caller, or was replaced by a *)
(* second init_all.                                                        *)
NoInstanceLost ==
    /\ \A n \in Names : state[n] = "Running" => instances[n] \in serving
    /\ serving \subseteq {instances[n] : n \in Names} \cup handed \cup rebuilt
                      \cup {fresh[t] : t \in {u \in Reloaders : pc[u] = "swap"}}
                      \cup {held[t] : t \in {u \in Reloaders :
                                                  pc[u] \in {"running", "post"}}}

(* After stop_all nothing that is registered runs or waits to be started   *)
(* (registry.rs:698-700), with one operator, when the descriptors have an  *)
(* order: when no component lost its dependency and no registration closed *)
(* a cycle. Without one, stop_all stops nothing.                           *)
StopDrainsOrdered ==
    ~Dangling /\ Orders # {} =>
        \A t \in Operators : op[t] = "stop" /\ pc[t] = "idle" =>
            \A n \in described : state[n] \notin {"Running", "Initialized"}
=============================================================================
